SPECIFICATION Spec
CONSTANTS
    Keys = {1, 2, 3}
    NumLevels = 3
    MaxMemCompactLevel = 1
    Snapshots = {s1}
    Readers = {}
    MaxSequence = 3
    BlockEntries = 2
    MaxBatch = 1
    ManualRanges <- NoManual
INVARIANTS LevelsDisjoint InputsIsolated SearchOrder IInv LoopsAgree SizesCoverFiles
CHECK_DEADLOCK FALSE
PROPERTY SavedInOrder
