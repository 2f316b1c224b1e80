SPECIFICATION Spec
CONSTANTS
    Keys = {1, 2}
    NumLevels = 3
    MaxMemCompactLevel = 2
    Snapshots = {s1}
    Readers = {r1}
    MaxSequence = 2
    BlockEntries = 2
    MaxBatch = 2
    ManualRanges <- FullRange
INVARIANTS TypeOK IteratorsAgreeWithGet
PROPERTY ImplementsKVStore
CHECK_DEADLOCK FALSE
