\* The same database when it reuses its MANIFEST and its last log.
SPECIFICATION Spec
CONSTANTS
    MaxWrites = 1
    MaxNumber = 8
    MaxCrashes = 2
    MaxCompactions = 0
    MaxFailures = 0
    ReuseLogs = {TRUE}
    NoFile = NoFile
    Partial = Partial
    Nothing = Nothing
INVARIANT NothingPromisedIsLost
CHECK_DEADLOCK FALSE
