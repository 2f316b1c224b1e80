------------------------------ MODULE Benchmark ------------------------------
(***************************************************************************)
(* db_bench: the main thread runs one benchmark of its list after the      *)
(* other, each in threads that begin together and are waited for, over one *)
(* database; each query of a read benchmark becomes a line of the file of  *)
(* metrics.                                                                *)
(*                                                                         *)
(* Of the database, a memtable, the keys that can be read from tables, and *)
(* a background thread that moves entries from the one to the others; of   *)
(* the metrics of a query, whether it found something and whether a filter *)
(* let it into a table.  A critical section of SharedState::mu is an       *)
(* action.                                                                 *)
(***************************************************************************)
EXTENDS Integers, Sequences, FiniteSets

CONSTANTS
    Threads,        \* FLAGS_threads
    Num,            \* FLAGS_num: keys, and writes of each thread
    Reads,          \* reads_: queries of each thread
    Names,          \* the benchmarks a list may name
    MaxBenchmarks,  \* bound: length of the list
    MaxFailures     \* bound: failed writes of the file of metrics

Fills == {"fillrandom"}
Writing == Fills \cup {"overwrite", "deleterandom"}
Reading == {"readrandom", "seekrandom", "surfscan"}

ASSUME BenchmarkAssumption ==
    /\ Threads \in Nat \ {0} /\ Num \in Nat \ {0} /\ Reads \in Nat
    /\ Names \subseteq Writing \cup Reading \cup {"readwhilewriting", "compact"}
    /\ MaxBenchmarks \in Nat /\ MaxFailures \in Nat

Tids == 0..Threads      \* readwhilewriting has a thread more
Main == -1
Keys == 0..(Num - 1)

VARIABLES
    main,           \* where Run and RunBenchmark are
    name, ran,      \* the benchmark, and its place in the list
    total, num_initialized, num_done, start,    \* SharedState
    waiting,        \* the threads waiting on its cv
    at,             \* where each thread is
    todo,           \* what is left of its loop
    done,           \* Stats::done_
    mem,            \* the newest entry of each key in memtables
    tables,         \* the keys with a value in tables
    has_tables,     \* there are tables
    compacted_for_metrics,
    written,        \* history: there was a write since that compaction
    next_query_id,
    pending,        \* the event each thread is about to record
    lines,          \* the file of metrics: the number and benchmark of each event
    torn,           \* it ends with a part of a line
    failures, lost  \* history: failed writes; events of this benchmark not in the file

sharedVars == <<total, num_initialized, num_done, start, waiting>>
dbVars == <<mem, tables, has_tables, written>>
metricsVars == <<next_query_id, pending, lines, torn, failures, lost>>
listVars == <<name, ran, compacted_for_metrics>>
vars == <<main, listVars, sharedVars, at, todo, done, dbVars, metricsVars>>

Events == [query_id : Nat, actual_match : BOOLEAN, counted : BOOLEAN,
           filter_may_match : BOOLEAN]
NoEvent == [query_id |-> 0, actual_match |-> FALSE, counted |-> FALSE,
            filter_may_match |-> FALSE]
NoEntries == [k \in Keys |-> "none"]
Running == {"run", "put", "got", "line", "over"}

TypeOK ==
    /\ main \in {"next", "starting", "await_start", "await_done", "report", "exit"}
    /\ name \in Names \cup {""} /\ ran \in 0..MaxBenchmarks
    /\ total \in 0..(Threads + 1) /\ start \in BOOLEAN
    /\ num_done \in 0..num_initialized /\ num_initialized \in 0..total
    /\ waiting \subseteq Tids \cup {Main}
    /\ at \in [Tids -> {"none", "begin", "waiting", "gone"} \cup Running]
    /\ todo \in [Tids -> Nat] /\ done \in [Tids -> Nat]
    /\ mem \in [Keys -> {"none", "value", "deletion"}]
    /\ tables \subseteq Keys /\ has_tables \in BOOLEAN /\ (tables # {} => has_tables)
    /\ compacted_for_metrics \in BOOLEAN /\ written \in BOOLEAN
    /\ next_query_id \in Nat /\ pending \in [Tids -> Events]
    /\ lines \in Seq([query_id : Nat, run : 1..MaxBenchmarks]) /\ torn \in BOOLEAN
    /\ failures \in 0..MaxFailures /\ lost \in Nat

Init ==
    /\ main = "next" /\ name = "" /\ ran = 0
    /\ total = 0 /\ num_initialized = 0 /\ num_done = 0 /\ start = FALSE
    /\ waiting = {}
    /\ at = [t \in Tids |-> "none"]
    /\ todo = [t \in Tids |-> 0] /\ done = [t \in Tids |-> 0]
    /\ mem = NoEntries /\ tables = {} /\ has_tables = FALSE
    /\ compacted_for_metrics = FALSE /\ written = TRUE
    /\ next_query_id = 0 /\ pending = [t \in Tids |-> NoEvent]
    /\ lines = <<>> /\ torn = FALSE /\ failures = 0 /\ lost = 0

Goto(t, place) == at' = [at EXCEPT ![t] = place]
Present == {k \in Keys : mem[k] = "value" \/ (mem[k] = "none" /\ k \in tables)}

\* A variant: the memtable is left alone.
CompactTablesOnly ==
    /\ UNCHANGED <<mem, tables>>
    /\ has_tables' \in {has_tables, tables # {}}

\* CompactRange: everything is in tables, of which none may be left.
CompactRange ==
    /\ mem' = NoEntries
    /\ tables' = Present
    /\ has_tables' \in {has_tables \/ mem # NoEntries, Present # {}}

-----------------------------------------------------------------------------
(* The main thread.                                                        *)

\* Run takes the next name of the list: an empty database for a fill, and a
\* compaction before the first read benchmark of all.
NextBenchmark(b) ==
    /\ main = "next" /\ ran < MaxBenchmarks
    /\ name' = b /\ ran' = ran + 1
    /\ total' = IF b = "readwhilewriting" THEN Threads + 1 ELSE Threads
    /\ num_initialized' = 0 /\ num_done' = 0 /\ start' = FALSE
    /\ \/ /\ b \in Fills
          /\ mem' = NoEntries /\ tables' = {} /\ has_tables' = FALSE
          /\ UNCHANGED <<compacted_for_metrics, written>>
       \/ /\ b \in Reading /\ ~compacted_for_metrics
          /\ CompactRange
          /\ compacted_for_metrics' = TRUE /\ written' = FALSE
       \/ /\ b \notin Fills /\ (b \in Reading => compacted_for_metrics)
          /\ UNCHANGED <<dbVars, compacted_for_metrics>>
    /\ main' = "starting"
    /\ lost' = 0
    /\ UNCHANGED <<waiting, at, todo, done, next_query_id, pending, lines, torn, failures>>

IsWriter(t) == name = "readwhilewriting" /\ t = 0

\* How often the loop of the method runs; the writer of readwhilewriting
\* does not count.
Rounds(t) == CASE name \in Writing -> Num
               [] name = "compact" -> 1
               [] IsWriter(t) -> 0
               [] OTHER -> Reads

\* StartThread in the loop of RunBenchmark.
StartThread(t) ==
    /\ main = "starting"
    /\ t = Cardinality({u \in Tids : at[u] # "none"})
    /\ Goto(t, "begin")
    /\ todo' = [todo EXCEPT ![t] = Rounds(t)]
    /\ main' = IF t + 1 = total THEN "await_start" ELSE main
    /\ UNCHANGED <<listVars, sharedVars, done, dbVars, metricsVars>>

\* A variant: whatever wakes it, everyone is there.
AwaitStartOnce ==
    /\ main = "await_start" /\ Main \notin waiting
    /\ start' = TRUE
    /\ waiting' = {Main} /\ main' = "await_done"
    /\ UNCHANGED <<listVars, total, num_initialized, num_done, at, todo, done, dbVars,
                   metricsVars>>

\* Wait until all are initialised, let them start and wait again.
AwaitStart ==
    /\ main = "await_start" /\ Main \notin waiting
    /\ IF num_initialized < total
       THEN waiting' = waiting \cup {Main} /\ UNCHANGED <<main, start>>
       ELSE /\ start' = TRUE
            /\ waiting' = {Main} /\ main' = "await_done"
    /\ UNCHANGED <<listVars, total, num_initialized, num_done, at, todo, done, dbVars,
                   metricsVars>>

AwaitDone ==
    /\ main = "await_done" /\ Main \notin waiting
    /\ IF num_done < total
       THEN waiting' = waiting \cup {Main} /\ UNCHANGED main
       ELSE main' = "report" /\ UNCHANGED waiting
    /\ UNCHANGED <<listVars, total, num_initialized, num_done, start, at, todo, done, dbVars,
                   metricsVars>>

\* Stats::Merge of the threads, one after the other: how much the first n did.
Merged(count) ==
    LET merged[n \in 0..(Threads + 1)] ==
            IF n = 0 THEN 0 ELSE merged[n - 1] + count[n - 1]
    IN  merged

\* Merge the statistics, report them, and free what the threads had.
Report ==
    /\ main = "report"
    /\ main' = "next"
    /\ at' = [t \in Tids |-> "none"]
    /\ done' = [t \in Tids |-> 0]
    /\ UNCHANGED <<listVars, sharedVars, todo, dbVars, metricsVars>>

\* The end of the list.
EndOfList ==
    /\ main = "next" /\ main' = "exit"
    /\ UNCHANGED <<listVars, sharedVars, at, todo, done, dbVars, metricsVars>>

-----------------------------------------------------------------------------
(* The threads of a benchmark.                                             *)

\* A variant: the counters are mixed up.
InitializeAsDone(t) ==
    /\ at[t] = "begin"
    /\ num_done' = num_done + 1
    /\ Goto(t, "waiting") /\ waiting' = waiting \cup {t}
    /\ UNCHANGED <<main, listVars, total, num_initialized, start, todo, done, dbVars,
                   metricsVars>>

\* ThreadBody up to the wait; the last one tells the main thread.
Initialize(t) ==
    LET others == IF num_initialized + 1 >= total THEN {} ELSE waiting
    IN  /\ at[t] = "begin"
        /\ num_initialized' = num_initialized + 1
        /\ IF start THEN Goto(t, "run") /\ waiting' = others
                    ELSE Goto(t, "waiting") /\ waiting' = others \cup {t}
        /\ UNCHANGED <<main, listVars, total, num_done, start, todo, done, dbVars, metricsVars>>

Proceed(t) ==
    /\ at[t] = "waiting" /\ t \notin waiting
    /\ IF start THEN Goto(t, "run") /\ UNCHANGED waiting
                ELSE waiting' = waiting \cup {t} /\ UNCHANGED at
    /\ UNCHANGED <<main, listVars, total, num_initialized, num_done, start, todo, done, dbVars,
                   metricsVars>>

Put(k, entry) ==
    /\ mem' = [mem EXCEPT ![k] = entry]
    /\ written' = TRUE
    /\ UNCHANGED <<tables, has_tables>>

\* A round of DoWrite or DoDelete.
WriteKey(t, k) ==
    /\ at[t] = "run" /\ todo[t] > 0
    /\ name \in Writing
    /\ Put(k, IF name = "deleterandom" THEN "deletion" ELSE "value")
    /\ todo' = [todo EXCEPT ![t] = @ - 1]
    /\ done' = [done EXCEPT ![t] = @ + 1]
    /\ UNCHANGED <<main, listVars, sharedVars, at, metricsVars>>

\* A write that fails ends the process.
WriteError(t) ==
    /\ \/ at[t] = "run" /\ todo[t] > 0 /\ name \in Writing
       \/ at[t] = "put"
    /\ main' = "exit"
    /\ UNCHANGED <<listVars, sharedVars, at, todo, done, dbVars, metricsVars>>

Compact(t) ==
    /\ at[t] = "run" /\ todo[t] > 0
    /\ name = "compact"
    /\ CompactRange
    /\ todo' = [todo EXCEPT ![t] = @ - 1]
    /\ UNCHANGED <<main, listVars, sharedVars, at, done, written, metricsVars>>

\* A variant: the writer waits for itself too.
WriterLooksForAll(t) ==
    /\ at[t] = "run" /\ IsWriter(t)
    /\ Goto(t, IF num_done >= num_initialized THEN "over" ELSE "put")
    /\ UNCHANGED <<main, listVars, sharedVars, todo, done, dbVars, metricsVars>>

\* The writer of readwhilewriting looks whether the others have finished.
WriterLooks(t) ==
    /\ at[t] = "run" /\ IsWriter(t)
    /\ Goto(t, IF num_done + 1 >= num_initialized THEN "over" ELSE "put")
    /\ UNCHANGED <<main, listVars, sharedVars, todo, done, dbVars, metricsVars>>

WriterPuts(t, k) ==
    /\ at[t] = "put"
    /\ Put(k, "value")
    /\ Goto(t, "run")
    /\ UNCHANGED <<main, listVars, sharedVars, todo, done, metricsVars>>

\* The keys a query asks for: one, or a range; a range scan that is to miss
\* asks for none that was ever written.
Queries == IF name = "surfscan" THEN {{}} \cup {k..(Num - 1) : k \in Keys}
                                ELSE {{k} : k \in Keys}

\* What the counters of Get or NewIterator say: the filter lets a query pass
\* if a table that is searched has what it asks for, and may do so otherwise.
\* A key that a memtable has is not searched for in tables, a range is.
MayMatch(asked) ==
    LET searched == IF name = "surfscan" THEN asked ELSE {k \in asked : mem[k] = "none"}
    IN  IF name # "surfscan" /\ searched = {} THEN {FALSE}
        ELSE IF searched \cap tables # {} THEN {TRUE}
        ELSE {FALSE, has_tables}

\* A round of ReadRandom, SeekRandom or DoSuRFRangeScan up to the event.
Query(t, asked) ==
    /\ at[t] = "run" /\ todo[t] > 0
    /\ name \in Reading \cup {"readwhilewriting"}
    /\ \E passed \in MayMatch(asked) :
         pending' = [pending EXCEPT ![t] =
            [query_id |-> 0, actual_match |-> asked \cap Present # {},
             counted |-> name # "seekrandom",
             filter_may_match |-> name # "seekrandom" /\ passed]]
    /\ Goto(t, "got")
    /\ UNCHANGED <<main, listVars, sharedVars, todo, done, dbVars, next_query_id, lines, torn,
                   failures, lost>>

\* A variant: the number is that of the line to come.
TakeLineNumber(t) ==
    /\ at[t] = "got"
    /\ pending' = [pending EXCEPT ![t].query_id = Len(lines)]
    /\ Goto(t, "line")
    /\ UNCHANGED <<main, listVars, sharedVars, todo, done, dbVars, next_query_id, lines, torn,
                   failures, lost>>

\* RecordQueryEvent takes a number, without a lock.
TakeQueryId(t) ==
    /\ at[t] = "got"
    /\ pending' = [pending EXCEPT ![t].query_id = next_query_id]
    /\ next_query_id' = next_query_id + 1
    /\ Goto(t, "line")
    /\ UNCHANGED <<main, listVars, sharedVars, todo, done, dbVars, lines, torn, failures, lost>>

\* WriteLine, whose result nobody looks at.  A line that is not written may
\* leave a part of it, which spoils the next one.
WriteLine(line) ==
    \/ /\ lines' = IF torn THEN lines ELSE Append(lines, line)
       /\ lost' = IF torn THEN lost + 1 ELSE lost
       /\ torn' = FALSE
       /\ UNCHANGED failures
    \/ /\ failures < MaxFailures /\ failures' = failures + 1
       /\ lost' = lost + 1
       /\ torn' \in BOOLEAN
       /\ UNCHANGED lines

\* The end of RecordQueryEvent, under metrics_mu_, and of the round.
Record(t) ==
    /\ at[t] = "line"
    /\ WriteLine([query_id |-> pending[t].query_id, run |-> ran])
    /\ pending' = [pending EXCEPT ![t] = NoEvent]
    /\ todo' = [todo EXCEPT ![t] = @ - 1]
    /\ done' = [done EXCEPT ![t] = @ + 1]
    /\ Goto(t, "run")
    /\ UNCHANGED <<main, listVars, sharedVars, dbVars, next_query_id>>

\* The end of ThreadBody; the last one tells the main thread.
Finish(t) ==
    /\ \/ at[t] = "run" /\ todo[t] = 0 /\ ~IsWriter(t)
       \/ at[t] = "over"
    /\ num_done' = num_done + 1
    /\ waiting' = IF num_done + 1 >= total THEN {} ELSE waiting
    /\ Goto(t, "gone")
    /\ UNCHANGED <<main, listVars, total, num_initialized, start, todo, done, dbVars,
                   metricsVars>>

-----------------------------------------------------------------------------
(* The database on its own, and the next-state relation.                   *)

\* Some of what is in memtables was written out.
Flush(flushed) ==
    /\ flushed # {} /\ \A k \in flushed : mem[k] # "none"
    /\ mem' = [k \in Keys |-> IF k \in flushed THEN "none" ELSE mem[k]]
    /\ tables' = (tables \ flushed) \cup {k \in flushed : mem[k] = "value"}
    /\ has_tables' = TRUE
    /\ UNCHANGED <<main, listVars, sharedVars, at, todo, done, written, metricsVars>>

\* A condition variable may wake a thread that nobody signalled.
SpuriousWakeup(t) ==
    /\ t \in waiting
    /\ waiting' = waiting \ {t}
    /\ UNCHANGED <<main, listVars, total, num_initialized, num_done, start, at, todo, done,
                   dbVars, metricsVars>>

ThreadStep(t) ==
    /\ main # "exit"
    /\ \/ Initialize(t) \/ Proceed(t) \/ Finish(t)
       \/ Compact(t) \/ WriterLooks(t) \/ TakeQueryId(t) \/ Record(t)
       \/ \E k \in Keys : WriteKey(t, k) \/ WriterPuts(t, k)
       \/ \E asked \in Queries : Query(t, asked)

MainStep ==
    \/ \E b \in Names : NextBenchmark(b)
    \/ \E t \in Tids : StartThread(t)
    \/ AwaitStart \/ AwaitDone \/ Report \/ EndOfList

Next ==
    \/ MainStep
    \/ \E t \in Tids : ThreadStep(t) \/ (main # "exit" /\ WriteError(t))
    \/ main # "exit" /\ \E flushed \in SUBSET Keys : Flush(flushed)
    \/ main # "exit" /\ \E t \in waiting : SpuriousWakeup(t)
    \/ main = "exit" /\ UNCHANGED vars

Spec == Init /\ [][Next]_vars

\* Each thread that can run does; no flush and no spurious wakeup has to be.
FairSpec == Spec /\ WF_vars(MainStep) /\ \A t \in Tids : WF_vars(ThreadStep(t))

-----------------------------------------------------------------------------
(* Properties.                                                             *)

\* No thread runs the benchmark before all are there, and the main thread
\* merges statistics and frees the SharedState on its stack after every
\* thread's last use of them.  (ThreadBody, RunBenchmark)
ThreadsTogether ==
    /\ (\E t \in Tids : at[t] \in Running) =>
         \A t \in 0..(total - 1) : at[t] \notin {"none", "begin"}
    /\ main = "report" => \A t \in 0..(total - 1) : at[t] = "gone"

\* Every query that is reported is one line of the file with a number of its
\* own, but for those whose write failed or met what a failure left.
\* (RecordQueryEvent, Stats::Merge)
EventsAccountedFor ==
    /\ \A i, j \in 1..Len(lines) : lines[i].query_id = lines[j].query_id => i = j
    /\ main = "report" /\ name \in Reading \cup {"readwhilewriting"} =>
         Merged(done)[total] = Cardinality({i \in 1..Len(lines) : lines[i].run = ran}) + lost

\* As long as nothing was written after the compaction that precedes the
\* first read benchmark, no query is answered from a memtable: one that
\* finds something has passed a filter.  (Run, RecordQueryEvent)
FiltersAreTested ==
    \A t \in Tids : at[t] \in {"got", "line"} /\ ~written /\ pending[t].counted =>
        (pending[t].actual_match => pending[t].filter_may_match)

\* Every list comes to its end, whatever the order of signals and waits, and
\* although the writer of readwhilewriting has no end of its own.
\* (RunBenchmark, ThreadBody, ReadWhileWriting)
RunEnds == <>(main = "exit")
=============================================================================
