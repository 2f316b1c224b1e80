\* Calls of every kind with the background thread; one I/O error or spurious wakeup.
SPECIFICATION FairSpec

CONSTANTS
    Writes = {w1, w2}
    SyncWrites = {s1}
    Flushes = {f1}
    Manuals = {m1}
    Closers = {d1}
    Free = Free
    NoCall = NoCall
    MemCapacity = 1
    MaxGroup = 2
    SlowdownTrigger = 2
    StopTrigger = 2
    CompactionTrigger = 2
    MaxRounds = 1
    MaxFailures = 1
INVARIANTS TypeOK WritesInOrder SyncedWhenAcked LogCoversMemtable
    WorkIsScheduled ManualPointerLive ClosedIsQuiet
PROPERTIES ImplementsAtomicWrites EveryCallReturns
