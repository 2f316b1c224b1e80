----------------------------- MODULE WriteQueue -----------------------------
(***************************************************************************)
(* The threads of DBImpl: client calls that queue up to write, share a log *)
(* and a memtable, wait for room, ask for compactions and close the        *)
(* database, and the one background thread they schedule.                  *)
(*                                                                         *)
(* mutex_ is modelled: an action that needs it waits until it is free, and *)
(* a critical section of several actions keeps it.  A thread in the set    *)
(* parked waits on its own condition variable (Writer::cv), one in waiters *)
(* on background_work_finished_signal_, until a signal takes it out.       *)
(*                                                                         *)
(* What a batch holds is left to LSM.tla: here a batch is the call that    *)
(* wrote it.  A memtable is full when it holds MemCapacity batches, and of *)
(* the tree only the number of files in level 0 is kept.                   *)
(***************************************************************************)
EXTENDS Integers, Sequences, FiniteSets, SequencesExt

CONSTANTS
    Writes,         \* calls of Write with sync = false
    SyncWrites,     \* calls of Write with sync = true
    Flushes,        \* calls of TEST_CompactMemTable
    Manuals,        \* calls of TEST_CompactRange
    Closers,        \* destructor calls
    Free,           \* mutex_ is free
    NoCall,         \* a null pointer to a call
    MemCapacity,    \* batches that fill a memtable
    MaxGroup,       \* batches that fill a group
    SlowdownTrigger, StopTrigger, CompactionTrigger,  \* level-0 file counts
    MaxRounds,      \* bound: compactions one manual request takes
    MaxFailures     \* bound: I/O errors and spurious wakeups together

Batches == Writes \cup SyncWrites
Queued == Batches \cup Flushes
Calls == Queued \cup Manuals \cup Closers

ASSUME CallsAreFinite == IsFiniteSet(Calls) /\ Free \notin Calls /\ NoCall \notin Calls
\* A call is of one kind.
ASSUME KindsAreDisjoint ==
    /\ Writes \cap SyncWrites = {} /\ Batches \cap Flushes = {}
    /\ Queued \cap Manuals = {} /\ (Queued \cup Manuals) \cap Closers = {}
ASSUME ParametersAssumption ==
    /\ MemCapacity \in Nat \ {0} /\ MaxGroup \in Nat \ {0}
    /\ {SlowdownTrigger, StopTrigger, CompactionTrigger, MaxRounds, MaxFailures} \subseteq Nat
    /\ 0 < CompactionTrigger /\ CompactionTrigger <= SlowdownTrigger
    /\ SlowdownTrigger <= StopTrigger

VARIABLES
    at,             \* where each call is
    status,         \* what it returned
    mutex,          \* who holds mutex_
    parked,         \* calls waiting on their own condition variable
    waiters,        \* calls waiting for background_work_finished_signal_
    writers,        \* writers_
    done,           \* Writer::done
    allow_delay,    \* the head writer's local of MakeRoomForWrite
    force,          \* the same
    group,          \* the batches of the head writer's group
    last_writer,    \* the last call that the group answers
    log,            \* batches in the current log file
    durable,        \* batches in synced log records or in tables
    mem,            \* batches in mem_
    has_imm,        \* imm_ # nullptr
    imm,            \* batches in imm_
    tables,         \* batches in tables
    level0,         \* number of files in level 0
    bg_error,       \* bg_error_ is set
    shutting_down,  \* shutting_down_
    scheduled,      \* background_compaction_scheduled_
    manual,         \* manual_compaction_
    manual_done,    \* ManualCompaction::done
    rounds,         \* compactions each manual request still takes
    bg,             \* where the background thread is
    is_manual,      \* its local of BackgroundCompaction
    failures,       \* I/O errors and spurious wakeups so far
    arrived,        \* history: calls in the order they joined writers_
    applied         \* history: batches in the order memtables got them

queueVars == <<writers, done, parked, allow_delay, force, group, last_writer>>
dataVars == <<log, durable, mem, has_imm, imm, tables, level0>>
bgVars == <<bg_error, shutting_down, scheduled, manual, manual_done, rounds, bg, is_manual>>
historyVars == <<arrived, applied>>
vars == <<at, status, mutex, waiters, failures, queueVars, dataVars, bgVars, historyVars>>

Places == {"start", "parked", "room", "slow", "full", "logging", "inserting", "finish",
           "flush", "manual", "drain", "close", "returned"}
Results == {"none", "ok", "error", "sync_error"}
BackgroundPlaces == {"idle", "queued", "flush", "clean", "move", "work",
                     "work_flush", "work_clean", "work_end"}

TypeOK ==
    /\ at \in [Calls -> Places]
    /\ status \in [Calls -> Results]
    /\ mutex \in Calls \cup {Free}
    /\ parked \subseteq Queued
    /\ waiters \subseteq Calls
    /\ writers \in Seq(Queued)
    /\ done \in [Queued -> BOOLEAN]
    /\ allow_delay \in [Queued -> BOOLEAN] /\ force \in [Queued -> BOOLEAN]
    /\ group \in Seq(Batches) /\ last_writer \in Queued \cup {NoCall}
    /\ log \in Seq(Batches) /\ mem \in Seq(Batches) /\ imm \in Seq(Batches)
    /\ durable \subseteq Batches /\ tables \subseteq Batches
    /\ has_imm \in BOOLEAN /\ (~has_imm => imm = <<>>)
    /\ level0 \in Nat
    /\ bg_error \in BOOLEAN /\ shutting_down \in BOOLEAN /\ scheduled \in BOOLEAN
    /\ manual \in Manuals \cup {NoCall}
    /\ manual_done \in [Manuals -> BOOLEAN]
    /\ rounds \in [Manuals -> 0..MaxRounds]
    /\ bg \in BackgroundPlaces /\ is_manual \in BOOLEAN
    /\ failures \in 0..MaxFailures
    /\ arrived \in Seq(Queued) /\ applied \in Seq(Batches)

\* An open database with nothing to do.
Init ==
    /\ at = [c \in Calls |-> "start"]
    /\ status = [c \in Calls |-> "none"]
    /\ mutex = Free
    /\ parked = {} /\ waiters = {}
    /\ writers = <<>>
    /\ done = [c \in Queued |-> FALSE]
    /\ allow_delay = [c \in Queued |-> FALSE] /\ force = [c \in Queued |-> FALSE]
    /\ group = <<>> /\ last_writer = NoCall
    /\ log = <<>> /\ durable = {} /\ mem = <<>> /\ has_imm = FALSE /\ imm = <<>>
    /\ tables = {} /\ level0 = 0
    /\ bg_error = FALSE /\ shutting_down = FALSE /\ scheduled = FALSE
    /\ manual = NoCall /\ manual_done = [c \in Manuals |-> FALSE]
    /\ rounds \in [Manuals -> 0..MaxRounds]
    /\ bg = "idle" /\ is_manual = FALSE
    /\ failures = 0
    /\ arrived = <<>> /\ applied = <<>>

Goto(c, place) == at' = [at EXCEPT ![c] = place]
Fail == failures < MaxFailures /\ failures' = failures + 1

\* RecordBackgroundError, with the waiters that remain: all are woken the
\* first time an error is recorded.
RecordBackgroundError(remaining) ==
    /\ bg_error' = TRUE
    /\ waiters' = IF bg_error THEN remaining ELSE {}

\* Finalize and NeedsCompaction: the score of level 0 is at least 1.  Levels
\* below it and seeks are not modelled.
NeedsCompaction(files) == files >= CompactionTrigger

\* MaybeScheduleCompaction, where the caller gives the values at this point.
HasWork(immutable, request, files) ==
    immutable \/ request # NoCall \/ NeedsCompaction(files)

MaybeScheduleCompaction(busy, error, immutable, request, files) ==
    LET start == ~busy /\ ~shutting_down /\ ~error /\ HasWork(immutable, request, files)
    IN  /\ scheduled' = (busy \/ start)
        /\ bg' = IF start THEN "queued" ELSE IF busy THEN bg ELSE "idle"

-----------------------------------------------------------------------------
(* Write and TEST_CompactMemTable.                                         *)

\* A variant: a flush does not wait for its turn.
EnqueueAheadOfWriters(c) ==
    /\ at[c] = "start" /\ ~shutting_down
    /\ mutex = Free
    /\ writers' = Append(writers, c)
    /\ arrived' = Append(arrived, c)
    /\ force' = [force EXCEPT ![c] = c \in Flushes]
    /\ allow_delay' = [allow_delay EXCEPT ![c] = c \notin Flushes]
    /\ IF writers = <<>> \/ c \in Flushes
       THEN mutex' = c /\ Goto(c, "room") /\ UNCHANGED parked
       ELSE Goto(c, "parked") /\ parked' = parked \cup {c} /\ UNCHANGED mutex
    /\ UNCHANGED <<status, waiters, failures, done, group, last_writer,
                   dataVars, bgVars, applied>>

\* Join the queue; the head of it goes on with the mutex held, the others
\* wait.  A null batch comes from TEST_CompactMemTable.
Enqueue(c) ==
    /\ at[c] = "start" /\ ~shutting_down
    /\ mutex = Free
    /\ writers' = Append(writers, c)
    /\ arrived' = Append(arrived, c)
    /\ force' = [force EXCEPT ![c] = c \in Flushes]
    /\ allow_delay' = [allow_delay EXCEPT ![c] = c \notin Flushes]
    /\ IF writers = <<>>
       THEN mutex' = c /\ Goto(c, "room") /\ UNCHANGED parked
       ELSE Goto(c, "parked") /\ parked' = parked \cup {c} /\ UNCHANGED mutex
    /\ UNCHANGED <<status, waiters, failures, done, group, last_writer,
                   dataVars, bgVars, applied>>

\* Where a call goes when its Write returns with this status.
AfterWrite(c, s) == IF c \in Flushes /\ s = "ok" THEN "flush" ELSE "returned"

\* A variant: a writer that wakes up takes itself for the head.
WakeAsHead(c) ==
    /\ at[c] = "parked" /\ c \notin parked
    /\ mutex = Free
    /\ IF done[c]
       THEN Goto(c, AfterWrite(c, status[c])) /\ UNCHANGED mutex
       ELSE mutex' = c /\ Goto(c, "room")
    /\ UNCHANGED <<status, waiters, failures, queueVars, dataVars, bgVars, historyVars>>

\* A writer that was signalled takes the mutex and looks at its condition.
Wake(c) ==
    /\ at[c] = "parked" /\ c \notin parked
    /\ mutex = Free
    /\ IF done[c]
         THEN Goto(c, AfterWrite(c, status[c])) /\ UNCHANGED <<mutex, parked>>
       ELSE IF c = Head(writers)
         THEN mutex' = c /\ Goto(c, "room") /\ UNCHANGED parked
       ELSE parked' = parked \cup {c} /\ UNCHANGED <<at, mutex>>
    /\ UNCHANGED <<status, waiters, failures, writers, done, allow_delay, force, group,
                   last_writer, dataVars, bgVars, historyVars>>

\* MakeRoomForWrite, by what the loop finds with the mutex held.
RoomError(c) ==
    /\ bg_error
    /\ Goto(c, "finish")
    /\ status' = [status EXCEPT ![c] = "error"]
    /\ UNCHANGED <<mutex, waiters, failures, queueVars, dataVars, bgVars, historyVars>>

RoomDelay(c) ==
    /\ ~bg_error
    /\ allow_delay[c] /\ level0 >= SlowdownTrigger
    /\ allow_delay' = [allow_delay EXCEPT ![c] = FALSE]
    /\ mutex' = Free
    /\ Goto(c, "slow")
    /\ UNCHANGED <<status, waiters, failures, writers, done, parked, force, group,
                   last_writer, dataVars, bgVars, historyVars>>

PastDelay(c) == ~bg_error /\ ~(allow_delay[c] /\ level0 >= SlowdownTrigger)
HasRoom(c) == ~force[c] /\ Len(mem) < MemCapacity

\* There is room: the group is built in the same critical section.
RoomFound(c) ==
    /\ PastDelay(c) /\ HasRoom(c)
    /\ Goto(c, IF c \in Batches THEN "logging" ELSE "finish")
    /\ status' = [status EXCEPT ![c] = "ok"]
    /\ UNCHANGED <<mutex, waiters, failures, queueVars, dataVars, bgVars, historyVars>>

RoomWait(c) ==
    /\ PastDelay(c) /\ ~HasRoom(c)
    /\ has_imm \/ level0 >= StopTrigger
    /\ waiters' = waiters \cup {c}
    /\ mutex' = Free
    /\ Goto(c, "full")
    /\ UNCHANGED <<status, failures, queueVars, dataVars, bgVars, historyVars>>

\* The new log file cannot be created: only this group fails.
RoomNoLogFile(c) ==
    /\ PastDelay(c) /\ ~HasRoom(c)
    /\ ~has_imm /\ level0 < StopTrigger
    /\ Fail
    /\ Goto(c, "finish")
    /\ status' = [status EXCEPT ![c] = "error"]
    /\ UNCHANGED <<mutex, waiters, queueVars, dataVars, bgVars, historyVars>>

\* A variant: imm_ is replaced while it is being written out.
RoomSwitchOverImm(c) ==
    /\ PastDelay(c) /\ ~HasRoom(c)
    /\ level0 < StopTrigger
    /\ log' = <<>>
    /\ has_imm' = TRUE /\ imm' = mem /\ mem' = <<>>
    /\ force' = [force EXCEPT ![c] = FALSE]
    /\ MaybeScheduleCompaction(scheduled, bg_error, TRUE, manual, level0)
    /\ UNCHANGED <<at, status, mutex, waiters, failures, bg_error, writers, done, parked,
                   allow_delay, group, last_writer, durable, tables, level0, shutting_down,
                   manual, manual_done, rounds, is_manual, historyVars>>

\* Switch to a new log and memtable.  Closing the old log may fail.
RoomSwitch(c) ==
    /\ PastDelay(c) /\ ~HasRoom(c)
    /\ ~has_imm /\ level0 < StopTrigger
    /\ log' = <<>>
    /\ has_imm' = TRUE /\ imm' = mem /\ mem' = <<>>
    /\ force' = [force EXCEPT ![c] = FALSE]
    /\ \/ UNCHANGED <<bg_error, waiters, failures>>
       \/ Fail /\ RecordBackgroundError(waiters)
    /\ MaybeScheduleCompaction(scheduled, bg_error', TRUE, manual, level0)
    /\ UNCHANGED <<at, status, mutex, writers, done, parked, allow_delay, group, last_writer,
                   durable, tables, level0, shutting_down, manual, manual_done, rounds,
                   is_manual, historyVars>>

MakeRoomForWrite(c) ==
    /\ at[c] = "room" /\ mutex = c
    /\ \/ RoomError(c) \/ RoomDelay(c) \/ RoomFound(c)
       \/ RoomWait(c) \/ RoomNoLogFile(c) \/ RoomSwitch(c)

\* After the sleep, or after the background thread signalled.
BackToRoom(c) ==
    /\ \/ at[c] = "slow"
       \/ at[c] = "full" /\ c \notin waiters
    /\ mutex = Free
    /\ mutex' = c
    /\ Goto(c, "room")
    /\ UNCHANGED <<status, waiters, failures, queueVars, dataVars, bgVars, historyVars>>

\* How many of the first i writers have a batch.
BatchesUpTo(i) == Cardinality({j \in 1..i : writers[j] \in Batches})

\* A variant: a synced write joins a group that is not synced.
StopsFullGroup(c, i) == writers[i] \in Batches /\ BatchesUpTo(i) > MaxGroup

\* BuildBatchGroup: how many writers the group of the head answers.
StopsGroup(c, i) ==
    \/ writers[i] \in SyncWrites /\ c \notin SyncWrites
    \/ writers[i] \in Batches /\ BatchesUpTo(i) > MaxGroup

GroupLength(c) ==
    Max({i \in 1..Len(writers) : \A j \in 2..i : ~StopsGroup(c, j)})

\* The batches of the first n writers, in the order of the queue.
BatchesAmong(n) ==
    [k \in 1..BatchesUpTo(n) |->
        writers[CHOOSE i \in 1..n : writers[i] \in Batches /\ BatchesUpTo(i) = k]]

BuildBatchGroup(c) ==
    /\ at[c] = "logging" /\ mutex = c
    /\ group' = BatchesAmong(GroupLength(c))
    /\ last_writer' = writers[GroupLength(c)]
    /\ mutex' = Free
    /\ UNCHANGED <<at, status, waiters, failures, writers, done, parked, allow_delay, force,
                   dataVars, bgVars, historyVars>>

\* AddRecord and Sync, without the mutex.
AddRecord(c) ==
    /\ at[c] = "logging" /\ mutex # c
    /\ \/ /\ log' = log \o group
          /\ durable' = IF c \in SyncWrites THEN durable \cup Range(log') ELSE durable
          /\ Goto(c, "inserting")
          /\ UNCHANGED <<status, failures>>
       \/ /\ Fail
          /\ Goto(c, "finish")
          /\ \/ status' = [status EXCEPT ![c] = "error"] /\ UNCHANGED log
             \/ /\ c \in SyncWrites
                /\ status' = [status EXCEPT ![c] = "sync_error"]
                /\ log' = log \o group
          /\ UNCHANGED durable
    /\ UNCHANGED <<mutex, waiters, queueVars, mem, has_imm, imm, tables, level0,
                   bgVars, historyVars>>

\* InsertInto the memtable mem_ is now, without the mutex.
InsertInto(c) ==
    /\ at[c] = "inserting"
    /\ mem' = mem \o group
    /\ applied' = applied \o group
    /\ Goto(c, "finish")
    /\ UNCHANGED <<status, mutex, waiters, failures, queueVars, log, durable, has_imm, imm,
                   tables, level0, bgVars, arrived>>

\* A variant: the new head of the queue is not told.
FinishWriteSilently(c) ==
    LET s == IF status[c] = "ok" THEN "ok" ELSE "error"
        n == IF group = <<>> THEN 1
             ELSE CHOOSE i \in 1..Len(writers) : writers[i] = last_writer
        answered == {writers[i] : i \in 1..n}
        rest == SubSeq(writers, n + 1, Len(writers))
    IN  /\ at[c] = "finish" /\ mutex \in {Free, c}
        /\ IF status[c] = "sync_error"
           THEN RecordBackgroundError(waiters)
           ELSE UNCHANGED <<bg_error, waiters>>
        /\ writers' = rest
        /\ status' = [w \in Calls |-> IF w \in answered THEN s ELSE status[w]]
        /\ done' = [w \in Queued |-> done[w] \/ w \in answered \ {c}]
        /\ parked' = parked \ answered
        /\ group' = <<>> /\ last_writer' = NoCall
        /\ mutex' = Free
        /\ Goto(c, AfterWrite(c, s))
        /\ UNCHANGED <<failures, allow_delay, force, dataVars, shutting_down, scheduled,
                       manual, manual_done, rounds, bg, is_manual, historyVars>>

\* The end of Write: answer the group, wake the new head and return.
FinishWrite(c) ==
    LET s == IF status[c] = "ok" THEN "ok" ELSE "error"
        n == IF group = <<>> THEN 1
             ELSE CHOOSE i \in 1..Len(writers) : writers[i] = last_writer
        answered == {writers[i] : i \in 1..n}
        rest == SubSeq(writers, n + 1, Len(writers))
    IN  /\ at[c] = "finish" /\ mutex \in {Free, c}
        /\ IF status[c] = "sync_error"
           THEN RecordBackgroundError(waiters)
           ELSE UNCHANGED <<bg_error, waiters>>
        /\ writers' = rest
        /\ status' = [w \in Calls |-> IF w \in answered THEN s ELSE status[w]]
        /\ done' = [w \in Queued |-> done[w] \/ w \in answered \ {c}]
        /\ parked' = parked \ (answered \cup IF rest = <<>> THEN {} ELSE {Head(rest)})
        /\ group' = <<>> /\ last_writer' = NoCall
        /\ mutex' = Free
        /\ Goto(c, AfterWrite(c, s))
        /\ UNCHANGED <<failures, allow_delay, force, dataVars, shutting_down, scheduled,
                       manual, manual_done, rounds, bg, is_manual, historyVars>>

\* TEST_CompactMemTable waits until there is no imm_.
WaitForFlush(c) ==
    /\ at[c] = "flush" /\ c \notin waiters
    /\ mutex = Free
    /\ IF has_imm /\ ~bg_error /\ ~shutting_down
       THEN waiters' = waiters \cup {c} /\ UNCHANGED <<at, status>>
       ELSE /\ Goto(c, "returned")
            /\ status' = [status EXCEPT ![c] = IF has_imm THEN "error" ELSE "ok"]
            /\ UNCHANGED waiters
    /\ UNCHANGED <<mutex, failures, queueVars, dataVars, bgVars, historyVars>>

-----------------------------------------------------------------------------
(* TEST_CompactRange and the destructor.                                   *)

BeginManual(c) ==
    /\ at[c] = "start" /\ ~shutting_down
    /\ Goto(c, "manual")
    /\ UNCHANGED <<status, mutex, waiters, failures, queueVars, dataVars, bgVars, historyVars>>

\* The first loop: put the request where the background thread finds it,
\* or wait until it or the request of another call is done.
RequestManual(c) ==
    /\ at[c] = "manual" /\ c \notin waiters
    /\ mutex = Free
    /\ ~manual_done[c] /\ ~shutting_down /\ ~bg_error
    /\ waiters' = waiters \cup {c}
    /\ IF manual = NoCall
       THEN /\ manual' = c
            /\ MaybeScheduleCompaction(scheduled, bg_error, has_imm, c, level0)
       ELSE UNCHANGED <<manual, scheduled, bg>>
    /\ UNCHANGED <<at, status, mutex, failures, queueVars, dataVars, bg_error, shutting_down,
                   manual_done, rounds, is_manual, historyVars>>

\* A variant: a request that was not served stays.
DrainManualOnly(c) ==
    /\ \/ /\ at[c] = "manual"
          /\ manual_done[c] \/ shutting_down \/ bg_error
       \/ at[c] = "drain"
    /\ c \notin waiters
    /\ mutex = Free
    /\ IF scheduled
       THEN Goto(c, "drain") /\ waiters' = waiters \cup {c} /\ UNCHANGED status
       ELSE Goto(c, "returned") /\ status' = [status EXCEPT ![c] = "ok"] /\ UNCHANGED waiters
    /\ UNCHANGED <<mutex, failures, queueVars, dataVars, bgVars, historyVars>>

\* The second loop, and the withdrawal of a request that was not served.
DrainManual(c) ==
    /\ \/ /\ at[c] = "manual"
          /\ manual_done[c] \/ shutting_down \/ bg_error
       \/ at[c] = "drain"
    /\ c \notin waiters
    /\ mutex = Free
    /\ IF scheduled
       THEN Goto(c, "drain") /\ waiters' = waiters \cup {c} /\ UNCHANGED <<manual, status>>
       ELSE /\ Goto(c, "returned")
            /\ status' = [status EXCEPT ![c] = "ok"]
            /\ manual' = IF manual = c THEN NoCall ELSE manual
            /\ UNCHANGED waiters
    /\ UNCHANGED <<mutex, failures, queueVars, dataVars, bg_error, shutting_down, scheduled,
                   manual_done, rounds, bg, is_manual, historyVars>>

\* The destructor runs when no other call is under way.
BeginClose(c) ==
    /\ at[c] = "start" /\ ~shutting_down
    /\ \A d \in Calls \ {c} : at[d] \in {"start", "returned"}
    /\ mutex = Free
    /\ shutting_down' = TRUE
    /\ Goto(c, "close")
    /\ UNCHANGED <<status, mutex, waiters, failures, queueVars, dataVars, bg_error, scheduled,
                   manual, manual_done, rounds, bg, is_manual,
                   historyVars>>

\* A variant: the destructor waits once, and does not look again.
EndCloseAfterSignal(c) ==
    /\ at[c] = "close" /\ c \notin waiters
    /\ mutex = Free
    /\ Goto(c, "returned")
    /\ UNCHANGED <<status, mutex, waiters, failures, queueVars, dataVars, bgVars, historyVars>>

EndClose(c) ==
    /\ at[c] = "close" /\ c \notin waiters
    /\ mutex = Free
    /\ IF scheduled
       THEN waiters' = waiters \cup {c} /\ UNCHANGED at
       ELSE Goto(c, "returned") /\ UNCHANGED waiters
    /\ UNCHANGED <<status, mutex, failures, queueVars, dataVars, bgVars, historyVars>>

-----------------------------------------------------------------------------
(* The background thread.  Building a table, a compaction's work, writing  *)
(* the manifest and removing obsolete files run without the mutex: they    *)
(* are the time between two actions.                                       *)

clientVars == <<at, status, mutex, queueVars, historyVars, shutting_down, rounds>>

\* A variant: what came up meanwhile is not scheduled.
EndBackgroundCallForGood(request) ==
    /\ manual' = request
    /\ scheduled' = FALSE /\ bg' = "idle"
    /\ waiters' = {}

\* The end of BackgroundCall; the primed values it reads are set before.
EndBackgroundCall(request) ==
    /\ manual' = request
    /\ MaybeScheduleCompaction(FALSE, bg_error', has_imm', request, level0')
    /\ waiters' = {}

\* BackgroundCompaction goes on without the mutex, in this place.
GoOn(place) == bg' = place /\ UNCHANGED <<waiters, scheduled, manual>>

\* BackgroundCompaction clears manual_compaction_ if it served it.
RequestLeft == IF is_manual THEN NoCall ELSE manual

StartIdly == (shutting_down \/ bg_error) /\ EndBackgroundCall(manual)

StartFlush == ~shutting_down /\ ~bg_error /\ has_imm /\ GoOn("flush")

\* CompactRange finds nothing: the request is done.
ManualDone ==
    /\ ~shutting_down /\ ~bg_error /\ ~has_imm
    /\ manual # NoCall /\ rounds[manual] = 0
    /\ EndBackgroundCall(NoCall)

StartManual ==
    /\ ~shutting_down /\ ~bg_error /\ ~has_imm
    /\ manual # NoCall /\ rounds[manual] > 0
    /\ GoOn("work")

\* PickCompaction; it finds nothing when the request was withdrawn.
StartAutomatic ==
    /\ ~shutting_down /\ ~bg_error /\ ~has_imm
    /\ manual = NoCall
    /\ IF ~NeedsCompaction(level0) THEN EndBackgroundCall(NoCall)
                                   ELSE GoOn("move") \/ GoOn("work")

\* BackgroundCall.
StartBackground ==
    /\ bg = "queued"
    /\ mutex = Free
    /\ UNCHANGED <<clientVars, failures, dataVars, bg_error>>
    /\ \/ (StartIdly \/ StartFlush \/ StartAutomatic)
             /\ is_manual' = FALSE /\ UNCHANGED manual_done
       \/ StartManual /\ is_manual' = TRUE /\ UNCHANGED manual_done
       \/ ManualDone /\ is_manual' = FALSE
             /\ manual_done' = [manual_done EXCEPT ![manual] = TRUE]

\* A variant: imm_ is not let go of.
FlushKeepsImm ==
    /\ has_imm' = FALSE
    /\ tables' = tables \cup Range(imm)
    /\ durable' = durable \cup Range(imm)
    /\ level0' \in IF imm = <<>> THEN {level0} ELSE {level0, level0 + 1}
    /\ UNCHANGED <<log, mem, imm, bg_error, failures>>

\* CompactMemTable, from the end of BuildTable on.  The table may be empty,
\* or go to a level below 0.  The destructor may have begun since
\* shutting_down_ was looked at.
FlushSucceeds ==
    /\ has_imm' = FALSE /\ imm' = <<>>
    /\ tables' = tables \cup Range(imm)
    /\ durable' = durable \cup Range(imm)
    /\ level0' \in IF imm = <<>> THEN {level0} ELSE {level0, level0 + 1}
    /\ UNCHANGED <<log, mem, bg_error, failures>>

FlushFails ==
    /\ \/ shutting_down /\ UNCHANGED failures
       \/ Fail
    /\ bg_error' = TRUE
    /\ UNCHANGED dataVars

\* RemoveObsoleteFiles releases the mutex, unless there is an error.
EndFlush ==
    /\ bg = "flush"
    /\ mutex = Free
    /\ \/ FlushSucceeds /\ ~bg_error /\ GoOn("clean")
       \/ ((FlushSucceeds /\ bg_error) \/ FlushFails) /\ EndBackgroundCall(manual)
    /\ UNCHANGED <<clientVars, manual_done, is_manual>>

EndClean ==
    /\ bg = "clean"
    /\ mutex = Free
    /\ UNCHANGED <<clientVars, failures, dataVars, bg_error, manual_done, is_manual>>
    /\ EndBackgroundCall(manual)

\* The loop of DoCompactionWork finds has_imm_ set, whatever bg_error_ is.
StartWorkFlush ==
    /\ bg = "work" /\ has_imm /\ ~shutting_down
    /\ mutex = Free
    /\ GoOn("work_flush")
    /\ UNCHANGED <<clientVars, failures, dataVars, bg_error, manual_done, is_manual>>

\* Back in the loop it signals, where RecordBackgroundError may have done so.
EndWorkFlush ==
    /\ bg = "work_flush"
    /\ mutex = Free
    /\ \/ FlushSucceeds /\ ~bg_error /\ bg' = "work_clean" /\ UNCHANGED waiters
       \/ ((FlushSucceeds /\ bg_error) \/ FlushFails) /\ bg' = "work" /\ waiters' = {}
    /\ UNCHANGED <<clientVars, scheduled, manual, manual_done, is_manual>>

EndWorkClean ==
    /\ bg = "work_clean"
    /\ mutex = Free
    /\ bg' = "work"
    /\ waiters' = {}
    /\ UNCHANGED <<clientVars, failures, dataVars, bg_error, scheduled, manual, manual_done,
                   is_manual>>

\* A trivial move is in the manifest.
EndMove ==
    /\ bg = "move"
    /\ mutex = Free
    /\ level0' = level0 - 1
    /\ UNCHANGED <<clientVars, failures, log, durable, mem, has_imm, imm, tables, bg_error,
                   manual_done, is_manual>>
    /\ EndBackgroundCall(manual)

\* The merged files are in the manifest.  A compaction that was picked took
\* files from level 0, a manual one may not have.
CompactionInstalled ==
    /\ bg = "work"
    /\ mutex = Free
    /\ level0' \in IF is_manual THEN 0..level0 ELSE 0..(level0 - 1)
    /\ rounds' = IF is_manual THEN [rounds EXCEPT ![manual] = @ - 1] ELSE rounds
    /\ UNCHANGED <<at, status, mutex, queueVars, historyVars, shutting_down, failures, log,
                   durable, mem, has_imm, imm, tables, bg_error, manual_done, is_manual>>
    /\ IF bg_error THEN EndBackgroundCall(RequestLeft) ELSE GoOn("work_end")

\* After the obsolete files are removed.  A manual request that is not done
\* has to be made again.
EndWork ==
    /\ bg = "work_end"
    /\ mutex = Free
    /\ UNCHANGED <<clientVars, failures, dataVars, bg_error, manual_done, is_manual>>
    /\ EndBackgroundCall(RequestLeft)

\* An I/O error, or the destructor cuts the work short.
CompactionFails ==
    /\ bg \in {"move", "work"}
    /\ mutex = Free
    /\ \/ bg = "work" /\ shutting_down /\ UNCHANGED failures
       \/ Fail
    /\ bg_error' = TRUE
    /\ manual_done' = [c \in Manuals |-> manual_done[c] \/ (is_manual /\ c = manual)]
    /\ UNCHANGED <<clientVars, dataVars, is_manual>>
    /\ EndBackgroundCall(RequestLeft)

-----------------------------------------------------------------------------
\* A condition variable may wake a thread that nobody signalled.
SpuriousWakeup(c) ==
    /\ c \in parked \cup waiters
    /\ Fail
    /\ parked' = parked \ {c} /\ waiters' = waiters \ {c}
    /\ UNCHANGED <<at, status, mutex, writers, done, allow_delay, force, group,
                   last_writer, dataVars, bgVars, historyVars>>

QueueStep(c) ==
    \/ Wake(c) \/ MakeRoomForWrite(c) \/ BackToRoom(c) \/ BuildBatchGroup(c)
    \/ AddRecord(c) \/ InsertInto(c) \/ FinishWrite(c)

CallStep(c) ==
    \/ c \in Queued /\ QueueStep(c)
    \/ c \in Flushes /\ WaitForFlush(c)
    \/ c \in Manuals /\ (RequestManual(c) \/ DrainManual(c))
    \/ c \in Closers /\ EndClose(c)

Begin(c) ==
    \/ c \in Queued /\ Enqueue(c)
    \/ c \in Manuals /\ BeginManual(c)
    \/ c \in Closers /\ BeginClose(c)

Background ==
    \/ StartBackground \/ EndFlush \/ EndClean
    \/ StartWorkFlush \/ EndWorkFlush \/ EndWorkClean
    \/ EndMove \/ CompactionInstalled \/ EndWork \/ CompactionFails

\* No call is under way and none can begin.
Quiet ==
    /\ \A c \in Calls : at[c] = "returned" \/ (at[c] = "start" /\ shutting_down)
    /\ bg = "idle"
    /\ UNCHANGED vars

Next ==
    \/ \E c \in Calls : Begin(c) \/ CallStep(c) \/ SpuriousWakeup(c)
    \/ Background
    \/ Quiet

Spec == Init /\ [][Next]_vars

\* When some thread can go on, one does: the weakest fairness of a scheduler.
\* No call has to be made.
Fairness == WF_vars(Background \/ \E c \in Calls : CallStep(c))
FairSpec == Spec /\ Fairness

-----------------------------------------------------------------------------
(* Properties.                                                             *)

Answered(c, s) == at[c] = "returned" /\ status[c] = s

\* The memtables get each batch once and in the order of the queue, whoever
\* leads the group it is in: what one thread writes after another's write
\* returned gets a later sequence number.  (Write, BuildBatchGroup)
WritesInOrder ==
    /\ \A i, j \in 1..Len(applied) : applied[i] = applied[j] => i = j
    /\ Range(applied) \subseteq Range(arrived)
    /\ \A a, b \in 1..Len(arrived), i, j \in 1..Len(applied) :
           a < b /\ arrived[a] = applied[i] /\ arrived[b] = applied[j] => i < j

\* A batch whose Write said ok is in a memtable or a table, through every
\* group, switch and flush; one whose Write failed is nowhere to be read,
\* for all of its group.  (Write, MakeRoomForWrite, CompactMemTable)
AckMatchesOutcome ==
    \A c \in Batches :
        /\ Answered(c, "ok") => c \in Range(mem) \cup Range(imm) \cup tables
        /\ Answered(c, "error") => c \notin Range(applied)

\* What readers can find changes only by whole groups, each inserted while
\* its calls wait; a switch, a flush or an error neither loses nor adds a
\* batch, and every call of a group, led by another call or not, learns its
\* outcome.  (Write, MakeRoomForWrite, CompactMemTable)
AW == INSTANCE AtomicWrites WITH
        contents <- Range(mem) \cup Range(imm) \cup tables,
        call <- [c \in Batches |-> IF at[c] = "start" THEN "idle"
                                   ELSE IF at[c] = "returned" THEN status[c]
                                   ELSE "pending"]

ImplementsAtomicWrites == AW!AWSpec

\* A Write with sync = true that said ok survives a crash of the machine,
\* also when another call wrote its record.  (BuildBatchGroup, Write)
SyncedWhenAcked ==
    \A c \in SyncWrites : Answered(c, "ok") => c \in durable

\* What the memtable holds is in the log file of this memtable: nobody
\* switches them while a group is between the two.  (Write without the
\* mutex, MakeRoomForWrite)
LogCoversMemtable == Range(mem) \subseteq Range(log)

\* No work is forgotten: when nobody is in the middle of a critical section
\* and there is something to flush or compact, the background thread is on
\* its way.  (MaybeScheduleCompaction, BackgroundCall)
WorkIsScheduled ==
    /\ scheduled <=> bg # "idle"
    /\ mutex = Free /\ ~bg_error /\ ~shutting_down /\ HasWork(has_imm, manual, level0)
       => scheduled

\* manual_compaction_ points into the frame of a call that still waits.
\* (TEST_CompactRange, BackgroundCompaction)
ManualPointerLive == manual # NoCall => at[manual] \in {"manual", "drain"}

\* The background thread is gone when the destructor frees what it uses.
\* (~DBImpl, MaybeScheduleCompaction)
ClosedIsQuiet ==
    (\E c \in Closers : at[c] = "returned") => bg = "idle" /\ waiters = {}

\* Every call returns: no wakeup is lost and no two threads wait for each
\* other, also after an error.  (all the waits)
EveryCallReturns == <>[](\A c \in Calls : at[c] \in {"start", "returned"})

\* TEST_CompactMemTable that said ok has written out every write that was
\* queued before it.  (TEST_CompactMemTable, BuildBatchGroup)
FlushReachesEarlierWrites ==
    \A i, j \in 1..Len(arrived) :
        /\ i < j
        /\ arrived[i] \in Batches /\ Answered(arrived[i], "ok")
        /\ arrived[j] \in Flushes /\ Answered(arrived[j], "ok")
        => arrived[i] \in tables
=============================================================================
