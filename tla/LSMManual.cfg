SPECIFICATION Spec
CONSTANTS
    Keys = {1, 2, 3}
    NumLevels = 3
    MaxMemCompactLevel = 1
    Snapshots = {}
    Readers = {}
    MaxSequence = 3
    BlockEntries = 2
    MaxBatch = 1
    ManualRanges <- FullRange
INVARIANTS LevelsDisjoint
CHECK_DEADLOCK FALSE
