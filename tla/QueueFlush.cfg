\* A flush that is queued behind a write.
SPECIFICATION Spec

CONSTANTS
    Writes = {w1, w2}
    SyncWrites = {}
    Flushes = {f1}
    Manuals = {}
    Closers = {}
    Free = Free
    NoCall = NoCall
    MemCapacity = 1
    MaxGroup = 2
    SlowdownTrigger = 1
    StopTrigger = 2
    CompactionTrigger = 1
    MaxRounds = 0
    MaxFailures = 0
INVARIANT FlushReachesEarlierWrites
