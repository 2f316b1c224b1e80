# Formal model of leveldb-surf

This directory holds TLA+ specifications of the database in `src/project`
(LevelDB with a SuRF filter in place of the Bloom filter), of its benchmark
driver and of the dashboard that shows the driver's metrics, the TLC
configurations that check them on small instances, and proofs, for instances of
every size, of the safety properties of all of them, that the tree implements the map its
clients are promised, and that the write queue implements atomic writes.

`PROJECT.json` lists components, runs, hazards, findings and theorems, and maps
every definition that models code to the lines it stands for.

## 1. The system

| Component | State | Operations | Hard parts | Correct when |
|---|---|---|---|---|
| **Write queue and group commit** (`db_impl.cc` Write, BuildBatchGroup, MakeRoomForWrite) | `writers_`, per-writer `done` and `cv`, the log, `mem_`, `imm_` | Write, TEST_CompactMemTable | the mutex is released while a group is logged and inserted; one thread answers others; a null batch means "flush" | batches are applied once, in queue order; an answer says what happened; sync means synced |
| **Background scheduling, manual compactions, shutdown** | `background_compaction_scheduled_`, `bg_error_`, `manual_compaction_`, `shutting_down_`, `background_work_finished_signal_` | MaybeScheduleCompaction, BackgroundCall, CompactMemTable, TEST_CompactRange, the destructor | lost wakeups, lost work, a pointer into another thread's stack, the destructor racing background work | work is scheduled while there is any; every call returns; nothing runs after the destructor |
| **Memtables, flush and compaction** (DoCompactionWork, InstallCompactionResults) | `mem_`, `imm_`, the current `Version`, the `Compaction` under way | switch, flush, automatic / trivial / manual compaction | a flush in the middle of a compaction; dropping entries that a snapshot may still read | no read can tell that they happened |
| **Versions** (`version_set.cc`) | files per level with key ranges and numbers | Get, GetOverlappingInputs, AddBoundaryInputs, SetupOtherInputs, PickLevelForMemTableOutput, IsBaseLevelForKey | user keys split over two files; level 0 overlaps; expansion of the inputs | levels below 0 are sorted; newer entries are met first |
| **Snapshots, Get, iterators** | snapshot list, pinned memtables and versions | GetSnapshot, ReleaseSnapshot, Get, NewIterator | reads run without the mutex | a read sees one state of the map |
| **MANIFEST, CURRENT, logs, recovery** | files on disk, `VersionSet` counters, `pending_outputs_` | LogAndApply, RemoveObsoleteFiles, NewDB, Recover, RecoverLogFile, DB::Open | a crash between any two steps, also during recovery; I/O errors that leave the outcome open | what was acknowledged is found again; nothing that is needed is removed |
| **SuRF filter policy** (`surf_filter.cc`) | one `thread_local` trie each for KeyMayMatch and RangeMayMatch | CreateFilter, KeyMayMatch, RangeMayMatch | the cache is keyed by an address | never says no to a key that is there |
| **Filter block** (`filter_block.cc`) | keys of the table, offset array | AddKey, Finish, KeyMayMatch, RangeMayMatch | one filter for the whole table; index arithmetic | the same |
| **Table cache and table lookup** (`table_cache.cc`, `table.cc`) | open tables with reference counts | FindTable, InternalGet, NewIterator, Evict | two threads open one table; eviction while in use | a handle refers to the table it was taken for |
| **Two-level iterator** (`two_level_iterator.cc`, over the files of a level or the blocks of a table) | `index_iter_`, `data_iter_` and its handle, `status_`, lo and hi | Seek, SeekToFirst, SeekToLast, Next, Prev, status | an item that cannot be read, or that a range rules out, looks empty and is skipped; data iterators are kept or replaced | an iterator that says ok has passed over no key |
| **Sizes** (`GetApproximateSizes`) | the files of a version | ApproximateOffsetOf of a version and of a table | the sum over a level ends at the first file behind the key | never less than the tables that lie in a range |
| **Benchmark driver** (`db_bench.cc`) | `SharedState`, `compacted_for_metrics`, `next_query_id_`, the file of metrics | Run, RunBenchmark, ThreadBody, the benchmarks, RecordQueryEvent | one condition variable for two waits; a writer that ends by counting the others; numbers taken without the lock of the file | threads begin and end together; one line for each query; the list ends |
| **Dashboard server** (`server.js`, `routes.js`) | what the files of metrics held at the start | start, the answers of the API | restarts with other files | see the UI |
| **Dashboard UI** (`App.tsx`, `api.ts`) | selection, meta, summary, events, health, error, loads under way | loadData, two effects, the interval, the selectors | loads overlap and fail in parts | what is shown is what the server has for the selection, in the end |
| Options, tests and demos, scripts | see section 8 | | | |

How they interact: a client thread queues in `writers_`, the head writer
appends to the log and to `mem_`. A full `mem_` becomes `imm_`, and
the single background thread turns it into a table, installs it with a
`VersionEdit` in the MANIFEST, and merges tables down the levels. Readers take
references to `mem_`, `imm_` and the current version under the mutex and search
them without it, through the table cache, the filter block and the policy.
After a crash DB::Open reads CURRENT, the MANIFEST and the logs and rebuilds
all of it. The benchmark driver is a client with several threads; it writes a line
for each query into a file, which the dashboard server reads when it starts and the
page asks the server for.

## 2. Modules

| Module | Kind | Models |
|---|---|---|
| `KVStore` | abstract | what a client is promised: a map, atomic batches, snapshots that stay, reads that do not change while they run |
| `AtomicWrites` | abstract | what the threads that write are promised: each call takes effect at one moment, and its answer says whether it did |
| `DurableStore` | abstract | what a client is promised of a database that crashes: which writes are there when it is opened again |
| `VersionSet` | pure | lookups in a version and the choice of compaction inputs, stated declaratively |
| `VersionAlgorithms` (extends `VersionSet`) | pure | the loops that compute them, Builder::SaveTo, approximate sizes |
| `LSM` (extends `VersionSet`) | component | memtables, flushes, compactions, snapshots and reads over one shared state; implements `KVStore` |
| `WriteQueue` | component | client threads, mutex, condition variables, background thread; implements `AtomicWrites` |
| `Recovery` | component | files, crashes, errors, DB::Open; implements `DurableStore` |
| `FilterBlock` | pure | the filter block and its reader |
| `TableFilter` (extends `FilterBlock`) | component | threads, table cache, cached tries over filter blocks |
| `TwoLevelIterator` | component | one iterator, its items, errors and range hint |
| `Benchmark` | component | the driver: main thread, benchmark threads, a small database, the file of metrics |
| `Dashboard` | component | server, page, loads under way, the user |
| `MCLSM`, `MCTableFilter`, `MCDashboard` | instances | definitions for TLC: ranges, symmetry, starts of the server; `MCLSM` also composes `LSM` with `VersionAlgorithms` |
| `LSMProofs` | proofs | the choice of compaction inputs is safe, Get of a version finds the newest entry; levels stay sorted and searched newest first; reads, and that `LSM` implements `KVStore` |
| `WriteQueueProofs`, `RecoveryProofs`, `TableFilterProofs`, `TwoLevelIteratorProofs`, `BenchmarkProofs`, `DashboardProofs` | proofs | the inductive invariant of each component and what follows from it; `WriteQueueProofs` also that the queue implements `AtomicWrites`, `RecoveryProofs` what a step may never do and that recovery implements `DurableStore`, `TableFilterProofs` what the reader makes of the builder's blocks |
| `BasicFacts` | proofs | facts about numbers and sequences that several of them cite |

### LSM and VersionSet

Each action is a stretch of code under `mutex_`, or a step of what
runs without it: BeginWrite / InsertNext / PublishWrite (an entry enters the
memtable at a time, `last_sequence` moves at the end), SwitchMemtable,
CompactMemTable, AutomaticCompaction, ManualCompaction,
InstallCompactionResults, GetSnapshot / ReleaseSnapshot, BeginRead / EndRead.
Between StartWork and InstallCompactionResults anything else can happen,
flushes included, as in DoCompactionWork.

* An *entry* is an internal key; a value is named by the sequence number of the
  write that stored it, so "the right value" is visible without any payload.
* A *file* is its number and its set of entries. `smallest` and `largest` are
  read off the entries, and comparisons of bounds are quantifiers over them.
* Loops "until nothing changes" (GetOverlappingInputs in level 0,
  AddBoundaryInputs) are the least set closed under the loop's rule.
* Sizes, scores, `compact_pointer_` and seek counts choose *which* compaction
  happens and how far it reaches. They are replaced by every choice they could make
  (`mayExpand`, the file, the level, the cuts of the outputs, the last file of
  a manual compaction), so the model has more behaviours than the code and what
  holds for all of them holds for the code's.
* A memtable's content goes away when nothing refers to it (`Referenced`), so a
  missing Ref() would show as a read that changes.

### VersionAlgorithms

`VersionSet` says *which* files a lookup or a compaction takes; the code finds
them with loops over sorted vectors. `VersionAlgorithms` has these loops:
FindFile's bisection (`Bisect`), SomeFileOverlapsRange, GetOverlappingInputs with its
restart on level 0 (`Collect`), AddBoundaryInputs following one largest key
(`FollowBoundary`), `level_ptrs_` of IsBaseLevelForKey that only advance
(`BaseLevelKeys`), and SaveTo's merge of a level with the added files
(`Merge`). `LoopsAgree` and `SavedInOrder` in `MCLSM` compare them with the declarative
definitions, for every key and range, on every version the run reaches. The proofs are
about the declarative ones, so the two modules are kept apart. Sizes are counted in
entries; a block of a table has `BlockEntries` of them.

The comparison is made at rest (`AtRest`: empty memtables, no compaction, no
snapshot, only values in the files). Nothing is lost by that: the loops look at keys and
numbers only, and a version that is reached at all is reached at rest too, as what is
in memtables could be written later, a compaction could start later, a
snapshot be released before, and an entry that is a deletion could have been a value.

### WriteQueue

`mutex` names its holder. A critical section of one action takes and gives it
back; one of several actions keeps it. A thread in `parked` waits on its own
`cv`, one in `waiters` on `background_work_finished_signal_`; a signal removes it
from the set, after which it still has to take the mutex and look again, in any
order with others. Every return of MakeRoomForWrite's loop is an action
(RoomError, RoomDelay, RoomFound, RoomWait, RoomNoLogFile, RoomSwitch), and
BackgroundCall is split where the code releases the mutex. Batches are names of
calls; a memtable is full when it holds `MemCapacity` of them. Of the tree only the
number of level-0 files and the set of their batches remain: NeedsCompaction looks at level 0, and a
manual request takes a number of rounds chosen at the start. Spurious wakeups
and I/O errors are included, `MaxFailures` of both together (`Fail`).

`AtomicWrites` is what a thread that calls Write can see of all this: a call begins, at one moment
its batch can be read, alone or with others, and it returns "ok" if that
has happened and "error" if not. `ImplementsAtomicWrites` maps to it what `mem_`, `imm_` and the tables hold
together, and of each call whether it began and what it returned; the moment is the `InsertInto` of the group's leader, on
whichever thread that is.

### Recovery

Logs and MANIFEST files are sequences of records with the length that is synced;
tables are sets of records or `Partial`. `ProcessCrash` loses memory and keeps
everything written. `MachineCrash` also cuts each log and each MANIFEST to any
length not below what is synced. Either can come between any two actions, so
between a record and its sync, a sync and the installation of the version, in
the middle of removing obsolete files, and during recovery. DB::Open is the
sequence CreateDatabase, RecoverVersion, RecoverLogFile (one log each), OpenLog,
SaveManifest, SetCurrentFile, FinishOpen, OpenReturns. `LogAndApplyFails`
leaves the record in the file or not, as in the code.

Two sets of writes are kept as history: `promised`, those whose Write returned
ok or that an opening found, and `firm`, those that no crash may lose: written with `sync = true`, or
already in a table of an installed version. A machine crash reduces `promised` to `firm`.

`DurableStore` is what a client can see of all this. A write that returned can be read until a crash of the
machine, and after it if it is firm. A write that a crash met before it was answered, or that a
machine crash took away, is in doubt. Opening settles it: what it finds is read from then on and is firm, and
what it does not find never comes back. `ImplementsDurableStore` maps to it what readers see (`Contents`), the
write that has not returned (`Pending`), and what the files could still give (`Doubt`, from `MayBeFound`: the
tables and logs of every version a crash may leave of the MANIFEST). Everything in between, with LogAndApply, flushes, compactions, the
removal of files and every step of DB::Open but its return, is invisible there but for writes that become
firm or are lost (`Settle`).

### FilterBlock and TableFilter

`Finish` builds the block with the two offset words the code writes,
and `KeyMayMatch` and `RangeMayMatch` do the reader's arithmetic on them,
with the parameter `BaseSize` in place of 2^32, the size the byte `base_lg` = 32 stands for. In `TableFilter` a filter block
lives at an address until its table has left the cache and the last handle is
released; the address may then be taken by another block (`Reuse`). `Trie` is
the `thread_local` cache by address. The SuRF trie is external: it says yes to
every key (or range with a key) it holds and may say yes to any other.
`Internal` says whether the table has the database's policy:
`InternalFilterPolicy` wraps the user's policy and does not override
RangeMayMatch, so in the database ranges are answered by the default "yes".

### TwoLevelIterator

An item is a file of a level or a data block of a table: a set of keys, and the
divider the index lists it under (its largest key, or a shortened one
before the next item). Each action is one call, with its loop over
empty items: `Move` chooses the item the loop stops at and whether each item it
passes met an error, and requires that what it passes really shows nothing. `Rests`
is where the iterator over one item comes to rest: on the first key from the
target on or, after an error, on any later key or nowhere; an iterator once in error stays in
error. `MayPrune` allows an empty iterator for an item without a key of the range.
The two levels of two-level iterators are covered by the same module: errors inside a
table's iterator are the errors of an item of the level's.

### Benchmark

Run takes names from a list, RunBenchmark starts the threads, waits on the
condition variable of `SharedState` until all are initialised, lets them start, and
waits again until all are done; each critical section of `SharedState::mu` is an action.
`waiting` holds the threads that wait; SignalAll empties it, and each has to look at its
condition again. `Merged` is Stats::Merge of the threads one after the other, a recursive function. A fill begins with an empty database; the first read benchmark of a list
is preceded by a compaction of everything (`compacted_for_metrics`).

The database is three things a query can tell apart: the newest entry of each key in
memtables, the keys with a value in tables, and whether there are tables at all; a
flush may move any entries at any time. `MayMatch` says what the counters of a
query may show. A query takes its number (`TakeQueryId`, an atomic counter) and writes
its line (`Record`, under `metrics_mu_`) in two steps. A failed write may leave a part of a
line (`torn`), which the next line is appended to. A failed Put or Delete ends the process, as in the
code.

### Dashboard

The server has what its last start read (`starts`), and an answer is named by that
start. `Configs` lists the sources each start is configured with, so that a restart may have fewer.
A call of loadData is a record in `loads`: the health request, then three fetches that
settle in any order, each with an answer or a default, or a body that is cut short, which
makes Promise.all fail (`BodyFails`). The page's two effects are
`Restart` (a new selection: a load at once and a new interval) and
`AdjustSource` (a new meta: select a source that exists); the second happens in the step that
sets the meta. Nothing cancels or numbers loads, in the code as here.

## 3. Runs

`tlc -config <run>.cfg <module>`; all finish in at most about three and a half minutes with two
workers.

| Run | Properties | What it shows | Distinct states |
|---|---|---|---|
| LSMReads | TypeOK, IteratorsAgreeWithGet, ImplementsKVStore | two keys, batches of two, a snapshot, a pinned read, manual compactions: a read sees one state of the map, `KVStore` is implemented | 197 thousand |
| LSMRanges | LevelsDisjoint, InputsIsolated, SearchOrder, IInv, LoopsAgree, SizesCoverFiles, SavedInOrder | three keys, so files with gaps, three writes, a snapshot: flushes during automatic compactions keep levels sorted and searched newest first; the loops compute what the declarative definitions say | 1.4 million |
| LSMManual | LevelsDisjoint **violated** | finding 1 | |
| Queue | TypeOK, WritesInOrder, SyncedWhenAcked, LogCoversMemtable, WorkIsScheduled, ManualPointerLive, ClosedIsQuiet, ImplementsAtomicWrites, EveryCallReturns | three writes (one synced), a flush, a manual compaction, the destructor and the background thread, one I/O error or spurious wakeup: order, answers that say what happened (`AtomicWrites` is implemented), no lost work, every call returns | 1.0 million |
| QueueFlush | FlushReachesEarlierWrites **violated** | finding 2 | |
| Filter | TypeOK, NoFalseNegative, HandlesStayValid | two threads, two tables, cache of one entry, addresses not reused, block offsets in the filter, at the sentinel and behind it | 113 thousand |
| FilterReuse | NoFalseNegative **violated** | finding 3 | |
| Iterator | TypeOK, NothingPassedOver, ErrorsAreReported | up to three items over four keys, every divider and range, every order of calls, errors anywhere | 53 thousand |
| Recovery | TypeOK, LiveTablesExist, SequencesAdvance, NothingNeededIsObsolete, ImplementsDurableStore | two writes, a compaction, two MANIFEST errors, two crashes of either kind, also during recovery: what is found again is what `DurableStore` promises | 407 thousand |
| RecoveryReuse | NothingPromisedIsLost **violated** | finding 4 | |
| Benchmark | TypeOK, ThreadsTogether, EventsAccountedFor, FiltersAreTested, RunEnds | every list of up to three of seven benchmarks, two threads and a writer, flushes and spurious wakeups at any time, one failed line | 634 thousand |
| Dashboard | TypeOK, OneSelectionShown, SelectionIsShown, SourceBecomesAvailable, ErrorsGoAway | two overlapping loads, two changes of the selection, a restart with one source less | 1.2 million |

**Why the bounds are enough to be interesting.** Three keys are the fewest with
a gap a file can land in (1 and 3 in one file, 2 in another). Three levels with
memtable output at level 1 or 2 give a compaction a level above, a level below and a
base level for deletions. Three sequence numbers (LSMRanges) give a value, an overwrite or
deletion, and a concurrent flush. A snapshot between two entries of one key (LSMReads)
is enough for every branch of the drop rules; both keys in one batch show whether it
is atomic. Files of up to three entries and blocks of two (`BlockEntries`) give a table an offset
inside it, before it and behind it. In the Filter run an index of the filter block has four
offsets (`BaseSize`), and blocks are looked up in the filter, at the sentinel behind it and behind that. In the queue, one batch fills a memtable, so switches, waits
for `imm_` and level-0 stops happen with three writes; `MaxGroup` = 2 makes a
group end because of size, and a call of every kind is there, so that each pair of
kinds meets. Two crashes in Recovery are the fewest with a crash
during recovery from a crash; `MaxNumber` = 15 is never the
reason that a run stops short of its other bounds. An iterator needs three items for
one to be skipped between two others, and four keys for a divider and a range bound between
items; its state graph is complete, no call is bounded. Three benchmarks are the fewest for a
fill, a read and something between or behind them; two threads with the writer make three that
count each other; with one key and one query each, every order of numbers and lines happens.
Two loads are the fewest that overlap, and the second start of the dashboard's server
has only one of the sources of the first, so that the page must change its selection. Bounds that cap counters are
guards and named constants: `MaxSequence`, `MaxBatch`, `MaxRounds`,
`MaxFailures`, `MaxItems`, `MaxWrites`, `MaxNumber`, `MaxCrashes`, `MaxCompactions`,
`MaxBenchmarks`, `MaxChanges`, `Slots` (loads at a time), `Configs` (starts of the server).

**Deadlock** is checked in the queue runs (`Quiet` is the only allowed end), for the iterator and
for the benchmark (which ends in `exit`). In the others the system may stop: all bounded work done.

## 4. Fairness

* **EveryCallReturns** (Queue) assumes as little as a scheduler can give: when some
  thread can take a step of a call that has begun, or the background thread can, one of
  them does (weak fairness of their union). No call has to be made. As the number of calls is
  finite, nothing else is needed; with an endless stream of calls, std::mutex, which
  is not fair, could keep one thread out for ever.
* **RunEnds** (Benchmark) assumes weak fairness of the main thread and of each thread's steps, so
  the writer of readwhilewriting, which loops until the others are done, cannot
  keep them from running. No flush, no failure and no spurious wakeup has to happen.
* **SelectionIsShown, SourceBecomesAvailable, ErrorsGoAway** (Dashboard) assume that each load's
  requests settle (a request ends with an answer or an error), that a pending effect runs (React
  runs it after the render), and that the interval fires when no more than `Slots` loads are under way.
  The user need not do anything and the server need not be started: the properties say what holds
  *if* it comes to stay up. For a while the page may show the late answer of an older load, as nothing numbers
  loads; OneSelectionShown does not exclude it, a whole older load satisfies it. SelectionIsShown says that it does not stay.

One hazard stays uncovered: TEST_CompactRange waits at its end until no background
call is scheduled *at the moment it looks* (`db_impl.cc:632`), which endless
automatic compactions could keep from being so. The number of
compactions is bounded here.

## 5. Findings

1. **CompactRange and a flush overlap in one level** (LSMManual). A manual
   compaction may take files of a level with a gap between them. A
   flush inside DoCompactionWork puts its table into the gap at the output level; the
   output then spans it. An automatic compaction cannot do this: theorem `Invariance`.
2. **A flush swallowed by a group** (QueueFlush). A null batch behind another
   write is answered with that write's group, and nobody forces a
   new memtable: TEST_CompactMemTable returns ok with earlier writes in `mem_` only.
3. **A trie for the wrong table** (FilterReuse). SuRFPolicy keeps its trie by the address
   of the filter. When the table left the cache and the address is used by
   another table's filter, a key of the new table is ruled out.
4. **An unsynced edit is taken over** (RecoveryReuse). With `reuse_logs` a MANIFEST
   record that was written but not synced before a process crash is
   believed and never synced, while the log it replaces is removed; a machine crash
   then loses a synced write.

The text each of these contradicts is quoted in `PROJECT.json`.

One more is a theorem, as it holds of every block: **the sentinel is a second filter**
(`TableFilterProofs!RangesAlwaysMatch`). `filter_block.cc:52` speaks of an "offset table with ONE entry", but
Finish writes two words of it before its place, so the reader counts two filters; the second
is empty and matches everything. RangeMayMatch of a block never says no, while `filter_policy.h:53`
says of it "Returns false if no key in [lo, hi] exists in the filter".

Smaller differences between code and comments, met while modelling and stated without a run:

* `db_bench.cc:856-857` says that the compaction before the first read benchmark "ensures
  filters are tested on real SSTable data, not memtable-only reads". The flag is never taken back, so in the
  list readrandom, overwrite, readrandom the second read finds its key in a memtable and no filter is asked (TLC
  shows it when `~written` is dropped from `FiltersAreTested`); and readwhilewriting, which is not one of the benchmarks
  it precedes, writes memtables while it reads. `FiltersAreTested` therefore speaks of the time up to the
  next write and says nothing of later read benchmarks.
* The benchmark "open" deletes `db_` without setting it to nullptr (`db_bench.cc:1033`), and Open
  asserts that it is nullptr.
* A query for a key that has only a deletion in tables passes the filter and finds nothing: the
  metrics call it a false positive of the filter, which it is not.
* `src/README.md:171` promises live polling from the metrics files; the page does poll, but the
  server reads the files once, at its start.
* `fetchMeta` and `fetchSummary` in `api.ts` return `res.json()` without awaiting it, so a body that is
  cut short escapes their `catch`, and the load gives up instead of using the default.

## 6. Proofs

Checked with tlapm (Z3, Zenon, LS4), for every value of the constants, so for any number of
keys, levels, threads, calls, files and crashes, and for every value of the bounds.

| Theorem | States |
|---|---|
| `LSMProofs!PickIsSafe` | in every sorted version, the inputs PickCompaction returns (with boundary files and expansion) are `Isolated` and `Connected` |
| `LSMProofs!GetFindsNewest` | in every sorted version that is searched newest first, Version::Get finds what a merge of all files would find |
| `LSMProofs!TypeCorrect` | `Spec => []TypeOK`, manual compactions included |
| `LSMProofs!Invariance` | `Spec => []IInv` |
| `LSMProofs!FilesDisjoint` | `Spec => []LevelsDisjoint` |
| `LSMProofs!CompactionIsolated` | `Spec => []InputsIsolated` |
| `LSMProofs!NewestFirst` | `Spec => []SearchOrder` |
| `LSMProofs!ReadsInvariant` | `Spec => [](IInv /\ ReadsInv)` |
| `LSMProofs!IteratorsAgree` | `Spec => []IteratorsAgreeWithGet` |
| `LSMProofs!TreeImplementsMap` | `Spec => ImplementsKVStore`: the refinement, step by step |
| `WriteQueueProofs!QueueInvariant` | `Spec => []QInv` |
| `WriteQueueProofs!QueueTypeCorrect`, `AppliedInOrder`, `SyncedDurable`, `LogCovers`, `WorkScheduled`, `PointerLive`, `QuietWhenClosed` | every invariant of the run Queue: `TypeOK`, `WritesInOrder`, `SyncedWhenAcked`, `LogCoversMemtable`, `WorkIsScheduled`, `ManualPointerLive`, `ClosedIsQuiet` |
| `WriteQueueProofs!AckMatches` | `Spec => []AckMatchesOutcome`: a batch whose Write said ok is in a memtable or a table, one whose Write failed was never applied |
| `WriteQueueProofs!QueueImplementsAtomicWrites` | `Spec => ImplementsAtomicWrites`: the refinement, step by step |
| `RecoveryProofs!RecoveryInvariant` | `Spec => []RInv` |
| `RecoveryProofs!RecoveryTypeCorrect`, `TablesExist`, `SequencesGrow`, `RemovalIsSafe` | every invariant of the run Recovery: `TypeOK`, `LiveTablesExist`, `SequencesAdvance`, `NothingNeededIsObsolete` |
| `RecoveryProofs!PromisesKept` | `Spec => []NothingPromisedIsLost`, which the run RecoveryReuse violates with log reuse |
| `RecoveryProofs!RecoveryImplementsDurableStore` | `Spec => ImplementsDurableStore`: the refinement, step by step |
| `RecoveryProofs!TablesAreImmutable` | `Spec => NeededTablesStay`: no step writes or removes a table of the current version or of a version that a crash may leave |
| `RecoveryProofs!BackgroundWorkIsInvisible` | `Spec => OnlyWritesAreSeen`: while the database is open, what can be read changes only by the record of the writer |
| `TableFilterProofs!RangesAlwaysMatch` | RangeMayMatch says yes on every block Finish makes of a table with keys, whatever the policy says |
| `TableFilterProofs!KeyInBlockMatches` | KeyMayMatch passes the policy's yes on, at every block offset and for every `BaseSize` |
| `TableFilterProofs!FilterTypeCorrect`, `HandlesValid`, `FiltersMissNothing` | every property of the run Filter: `TypeOK`, `HandlesStayValid`, `NoFalseNegative` |
| `TwoLevelIteratorProofs!IteratorInvariant` | `Spec => []IteratorInv` |
| `TwoLevelIteratorProofs!IteratorTypeCorrect`, `PassesNothingOver`, `ReportsErrors` | every property of the run Iterator: `TypeOK`, `NothingPassedOver`, `ErrorsAreReported` |
| `BenchmarkProofs!BenchmarkInvariant` | `Spec => []BenchmarkInv` |
| `BenchmarkProofs!BenchmarkTypeCorrect`, `Together`, `EventsAccounted`, `FiltersTested` | every invariant of the run Benchmark: `TypeOK`, `ThreadsTogether`, `EventsAccountedFor`, `FiltersAreTested` |
| `DashboardProofs!DashboardInvariant` | `Spec => []DashboardInv` |
| `DashboardProofs!DashboardTypeCorrect`, `OneSelection`, `SelectedIsThere` | the invariants of the run Dashboard, `TypeOK` and `OneSelectionShown`, and that the page never selects a source which the meta it shows does not have |

**Assumptions.** Each module states the types of its constants and that marks such as `NoFile` are
none of the things they stand beside (`KeysAssumption`, `LevelsAssumption`, `BoundsAssumption`,
`CallsAreFinite`, `KindsAreDisjoint`, `ParametersAssumption`, `RecoveryAssumption`, `NamesAssumption`, `FilterAssumption`,
`TableFilterAssumption`, `TwoLevelAssumption`, `BenchmarkAssumption`, `DashboardAssumption`). The theorems add, where they are needed:

* `ManualRanges = {}`, no client calls CompactRange, for the theorems of `LSMProofs` about `Spec` but TypeCorrect.
  Finding 1 shows that the levels do not stay sorted without it.
* `Keys # {}` for the refinement: without keys a map is the empty function, which is the mark for
  "no snapshot" in `KVStore`.
* `ReuseLogs = {FALSE}` for `RecoveryProofs`: `reuse_logs` is off, as it is by default. Finding 4 shows that
  synced writes are lost without it.
* `~Reuse` for FiltersMissNothing: an address is used once. Finding 3 shows that a key is missed
  without it. FilterTypeCorrect and HandlesValid hold with reuse as well.
* `EmptyMatches`, the policy says yes to an empty filter, as SuRF does, for the theorems on blocks and
  FiltersMissNothing.

Nothing is assumed about fairness; the theorems on `WriteQueue`, `Benchmark` and `Dashboard` are about `Spec`, which the
fair specification of the run implies.

### LSM: levels and search order

"Levels are sorted" is not inductive: whether installing the outputs of a
compaction keeps it depends on what was flushed since the compaction began.
`IInv` adds

* `SequencesGrow`: files hold older entries than `imm_`, that older than
  `mem_`, and a new entry has a fresh number (hence a flushed table is newer than
  the whole tree, wherever it lands);
* `MemtablesInOrder`, `NumbersGrow`, `NoEmptyFile`: what a flush and a level-0
  search rely on;
* `SearchOrderIn(current)`: newer entries are met first;
* `InputsIsolated`: what is left at the output level lies before or after
  *all* inputs, and what is left at the input level is newer: the inputs can
  be replaced by any part of their merge;
* `CompactionConnected`: no user key lies strictly between the
  inputs' ranges uncovered. This keeps `InputsIsolated` true
  when a table is flushed meanwhile: it overlaps an input, and PickLevelForMemTableOutput
  keeps it above, or it lies to one side of all of them.

`PickIsSafe` is the base: one picked file has no gap, and adding overlapping files, boundary
files, parents and the expansion never jumps over an uncovered user key
(`OverlapOnOneSide`, `BoundaryOnOneSide`, `LevelInputsOnOneSide`,
`ParentsOnOneSide`). Then there is one lemma per action, and PTL puts them together.

### LSM: reads and the map

`ReadsInv` says of the state what a reader relies on, beside `IInv`: the operations of a batch
inserted so far are in the memtable (`BatchInMemtable`), snapshots are in the past (`SnapshotsInPast`), a view that a read pinned
is still searched newest first and holds nothing above what was inserted (`ReadsInOrder`), and what the running
compaction may drop is safe (`DropsAreSafe`): nobody reads below its oldest snapshot; files left at the output level hold
only newer entries of its user keys; and a file further down that was not there when it began holds none of them.
The run LSMReads does not list it, but it holds in every state of that instance too.

The refinement maps the tree to the map `k |-> ` newest value at `last_sequence`, each snapshot to the map at its
number and each read to the map its view shows. Every step is one of three kinds:

* *Invisible.* A flush moves entries, and Get is the same on a memtable and on the table of it. An
  insertion has a number above `last_sequence`. A compaction keeps, for every reader at or above the oldest snapshot,
  the newest entry of each key, or drops it as a deletion with nothing below it (`DropsInvisible`, rules A and B of
  DoCompactionWork; `OutputsHoldAll`: an entry that is not dropped is in some output, wherever they are cut;
  `NothingOlderStays`, `InstallInvisible`).
* *Publishing.* `last_sequence` moves over the whole batch at once, and in a batch the last operation on a key has the
  greatest number (`PublishApplies`).
* *Reading.* A read or a snapshot takes the map as it is at its number (`BeginReadMaps`, `GetSnapshotMaps`), and keeps it, as no step
  removes what it pinned (`StoreKept`, `ReadsKept`, `MapsKept`).

### WriteQueue

The properties are about calls that have returned, so `QInv` says what each call relies on at each place of its code.
`QueueInv`, `MutexInv` and `PlacesInv`: only the head of `writers_` is past the wait, and it holds the mutex from MakeRoomForWrite to
BuildBatchGroup. `GroupInv`: while the group is out without the mutex, it is exactly the batches of a first part of the queue,
up to `last_writer`, in order, and no sync write is in the group of a head without sync. `ArrivalInv`: the queue is what arrived
last. `AppliedInv`, `StatusInv`, `LogInv`, `OrderInv`: what the group has been through at this place of the head. `BackgroundInv`: with work to
do and no error, something is scheduled, also in the middle of a critical section; a manual request that is worked on is live. `CloseInv`: the
destructor is alone. BuildBatchGroup counts batches with a cardinality over a prefix (`BatchesUpTo`), so the group is
determined by it, without a loop.

For the refinement `OutcomeInv` adds that exactly what was applied can be read, so `InsertInto` is the one step at which
something becomes readable. `QInv` and AckMatches give the rest: those the leader takes effect for are all between begin and
return and were not applied before (`InsertMaps`), and FinishWrite returns in one step calls whose answer agrees with what can be
read (`ReturnMaps`). Every other action only lets a call begin, or stutters (`OtherStepCalls`, `ReadableChanges`).

### Recovery

What must hold is about crashes that have not happened. `RInv` therefore says of every state what *any* crash would leave: for each
length the MANIFEST may be cut to (`LastEdits`), `Recoverable`: its version names complete tables; with the logs from its log number
on it holds what was promised, and with their synced parts what is firm; the numbers it would hand out next are free. `OpeningInv` and `RunningInv` tie memory to disk while DB::Open runs and afterwards, `FlushInv` and
`CompactionInv` say what the outputs under way are, `EditInv` that the edit being written is the last one of the MANIFEST, and `ObsoleteInv` that
what is being removed was obsolete when it was found and still is. A crash then maps `RunningInv` and `DiskInv` to `DiskInv`; each
step of DB::Open keeps `OpeningInv`; and opening ends in `RunningInv`.

Two action properties follow from it. A file number that is handed out is in no version, neither the current one nor one a crash may
leave, and what is obsolete is in none either: so needed tables stay (`TableWritten`, `NeededTablesStay`). With them in place, a flush or
compaction installs the same records it takes away, and a reader sees nothing of it (`AnswersStay`, `OnlyWritesAreSeen`). The two are stated
in `RecoveryProofs`, beside `RInv`, and no run lists them.

The refinement of `DurableStore` rests on `RInv` and on `StoreInv`: an open database shows exactly what is promised, and what DB::Open has
gathered in tables and has still to read is part of `MayBeFound`. By `RInv` every version that a crash may leave can be opened
(`AllVersionsCount`), so `MayBeFound` is the union over `LastEdits`. No step of DB::Open and no crash adds to it (`FoundShrinks`,
`CrashFindsNothingNew`): reading and writing new files leave it as it is because their numbers are in no version
(`OpeningKeepsFound`), and once CURRENT names the new MANIFEST it is what was recovered (`InstalledFacts`). A crash of an open database leaves
nothing in doubt but the write under way and what is not firm (`DoubtOfCrash`, from `SeenFacts`), and what opening shows is in tables
(`OpenedFacts`).

### Filters and iterators

`FilterInv`: what the cache and handles refer to is in memory, memory in use was taken, a cached trie is the one of the filter at its address
while that is there, and no lookup missed. With it, a lookup's answer is a policy's yes on the table's own keys, which
`KeyInBlockMatches` passes on. `IteratorInv` needs only one strengthening, that the data iterator is in the item of the index. A move is
taken apart into where it stops and what it passes (`Moved`); an item passed without error shows none of the keys a
client relies on (`PassedIsEmpty`); and the items a call does not come to have none either (`Reaches`, for Seek because of the
dividers).

### Benchmark and dashboard

`ThreadsInv`: in a benchmark, `num_initialized` and `num_done` are the numbers of threads that have come so far, so that they reach the total
only when every thread has; `start` is true exactly between the two waits. `NumbersInv`: the numbers of lines, and of queries that are about to
be lines, differ and are below `next_query_id_`. `AccountsInv`: what the threads of a read benchmark counted, merged, is the
number of lines of this benchmark and those lost. The sum `Merged` is a recursive function; `SumExists` shows that it has values, and that one more
query of one thread makes it one greater, both by a least counterexample. `FiltersInv`: until something is written after the compaction, memtables are empty.

`StartsInv` bounds what is shown or under way by the starts of the server so far, and says that a meta is one of theirs. OneSelectionShown
is inductive because summary and events are set in one step; SelectedSourceIsThere, because the effect runs in the
step that sets the meta.

### Only model-checked

* Liveness under fairness: EveryCallReturns, RunEnds, SelectionIsShown, SourceBecomesAvailable, ErrorsGoAway. The
  provers do not handle ENABLED.
* LoopsAgree, SizesCoverFiles, SavedInOrder: the loops of `VersionAlgorithms` are recursive operators.

What a recursive definition computes for every input would need an induction theorem with an operator as parameter, which the
provers cannot instantiate. Where the proofs need induction over numbers (a greatest number, the
length of a group, which of several entries is the newest) they take a least counterexample (`BasicFacts!LeastNatural`) instead.

## 7. What a mutant is

Definitions with a comment "A variant:" are plausible bugs of the definition
below them (a dropped Ref(), a missing boundary file, a log left out by recovery).
`PROJECT.json` pairs each checked property with one; put in place of the real
definition, it violates the property, which shows that the run can see such a bug.

## 8. Not modelled

* **GetProperty, DestroyDB, option clipping:** they only read or remove what the rest keeps.
* **Block cache, block format, checksums, compression, the SuRF trie itself, skip list, arena:** the
  table lookup and the trie are taken by what they answer. Damage of a filter is left out.
* **Benchmarks without the database or without shared state:** crc32c, snappy, open, sequential reads,
  heap profiles; histograms and measured times.
* **What a summary computes from events** (`summary-calculator.js`), sorting and limits of lists, and the
  components of the page, which draw what they are given.
* **Tests, demos, build and benchmark scripts:** no state of their own. They were read for what they
  expect.
* **Failing opens** (a corrupt MANIFEST, options that forbid opening), which end with an
  error before anything is changed, and levels in `Recovery`.
* **Reader sampling of seeks (RecordReadSample)** only triggers compactions that `LSM` allows anyway.

## 9. Plan

Done, in this order: `VersionSet`, `LSM` with `KVStore`, on which everything else
rests; `WriteQueue`, `TableFilter`, `Recovery`, `TwoLevelIterator`; then `VersionAlgorithms`,
`Benchmark` and `Dashboard`; the inductive invariants of all components and the refinement of `KVStore`; the
refinement of `AtomicWrites`, the action properties of `Recovery` and the refinement of `DurableStore`.

What could follow:

1. `AtomicWrites` composed with `Recovery`'s logs: sync groups and crashes in one specification.
2. The loops of `VersionAlgorithms` as recursive functions, so that facts about one step of them can be proved.
