\* Two writes, two crashes, a compaction and two errors when the MANIFEST is written.
SPECIFICATION Spec
CONSTANTS
    MaxWrites = 2
    MaxNumber = 15
    MaxCrashes = 2
    MaxCompactions = 1
    MaxFailures = 2
    ReuseLogs = {FALSE}
    NoFile = NoFile
    Partial = Partial
    Nothing = Nothing
INVARIANTS TypeOK LiveTablesExist SequencesAdvance NothingNeededIsObsolete
PROPERTY ImplementsDurableStore
CHECK_DEADLOCK FALSE
