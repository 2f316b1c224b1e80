\* Lists of three benchmarks, two threads and a writer, one failed line of metrics.
SPECIFICATION FairSpec

CONSTANTS
    Threads = 2
    Num = 1
    Reads = 1
    Names = {"fillrandom", "deleterandom", "readrandom", "seekrandom", "surfscan",
             "readwhilewriting", "compact"}
    MaxBenchmarks = 3
    MaxFailures = 1
INVARIANTS TypeOK ThreadsTogether EventsAccountedFor FiltersAreTested
PROPERTY RunEnds
