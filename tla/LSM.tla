-------------------------------- MODULE LSM --------------------------------
(***************************************************************************)
(* The log-structured merge tree of db_impl.cc: writes into the memtable,  *)
(* its rotation and flush, automatic and manual compactions, snapshots,    *)
(* and reads that pin what they look at and then run without the mutex.    *)
(*                                                                         *)
(* Every action is a stretch of code that runs under DBImpl::mutex_, or    *)
(* one step of the work done while it is released: inserting a batch into  *)
(* the memtable, and a compaction between the choice of its inputs and the *)
(* installation of its outputs.  One background thread runs flushes and    *)
(* compactions; the writer modelled is the one at the head of the queue    *)
(* (WriteQueue.tla has the queue).                                         *)
(***************************************************************************)
EXTENDS VersionSet, Sequences

CONSTANTS
    Snapshots,      \* names of the snapshot handles clients may hold
    Readers,        \* names of the reads in progress
    MaxSequence,    \* bound: entries ever written
    MaxBatch,       \* bound: entries in one write batch
    ManualRanges    \* key ranges clients pass to CompactRange

ASSUME BoundsAssumption ==
    /\ MaxSequence \in Nat /\ MaxBatch \in Nat
    /\ \A range \in ManualRanges : range \subseteq Int

VARIABLES
    last_sequence,  \* VersionSet::last_sequence_
    batch,          \* the batch of the writer at the head of the queue
    inserted,       \* how many entries of it are in the memtable
    memtables,      \* contents of the memtables that are still referenced
    mem,            \* mem_, the number of the current memtable
    imm,            \* imm_, the number of the memtable being flushed
    current,        \* VersionSet::current_
    next_file,      \* VersionSet::next_file_number_
    snapshots,      \* sequence number of each snapshot held
    reads,          \* what each read in progress has pinned
    compact         \* the compaction whose work is going on

writeVars == <<last_sequence, batch, inserted>>
memVars == <<memtables, mem, imm>>
vars == <<writeVars, memVars, current, next_file, snapshots, reads, compact>>

None == <<>>
NoTable == 0
NoSnapshot == 0 - 1
MemIds == 1..(MaxSequence + 1)
Op == [key : Keys, type : {"value", "deletion"}]
Batches == UNION {[1..n -> Op] : n \in 1..MaxBatch}

View == [seq : Nat, mem : MemIds, imm : MemIds \cup {NoTable}, version : Version]
Compaction == [level : Levels, inputs0 : SUBSET File, inputs1 : SUBSET File,
               version : Version, smallest_snapshot : Nat]

TypeOK ==
    /\ last_sequence \in Nat
    /\ batch \in Batches \cup {<<>>}
    /\ inserted \in Nat
    /\ memtables \in [MemIds -> SUBSET Entry]
    /\ mem \in MemIds
    /\ imm \in MemIds \cup {NoTable}
    /\ current \in Version
    /\ next_file \in Nat
    /\ snapshots \in [Snapshots -> Nat \cup {NoSnapshot}]
    /\ reads \in [Readers -> View \cup {None}]
    /\ compact \in Compaction \cup {None}

Init ==
    /\ last_sequence = 0
    /\ batch = <<>>
    /\ inserted = 0
    /\ memtables = [m \in MemIds |-> {}]
    /\ mem = 1
    /\ imm = NoTable
    /\ current = [l \in Levels |-> {}]
    /\ next_file = 1
    /\ snapshots = [s \in Snapshots |-> NoSnapshot]
    /\ reads = [r \in Readers |-> None]
    /\ compact = None

\* A variant: reads in progress do not hold a reference.
ReferencedByTreeOnly(tables, m, i, vs) ==
    [id \in MemIds |-> IF id \in {m, i} THEN tables[id] ELSE {}]

\* Unref: the tables that survive when m, i and the views vs are all that
\* still refer to memtables.
Referenced(tables, m, i, vs) ==
    [id \in MemIds |->
        IF \/ id \in {m, i}
           \/ \E r \in Readers : vs[r] # None /\ id \in {vs[r].mem, vs[r].imm}
        THEN tables[id] ELSE {}]

-----------------------------------------------------------------------------
(* Writes.                                                                 *)

\* DBImpl::Write, the head writer after MakeRoomForWrite: the batch gets the
\* sequence numbers that follow last_sequence.
BeginWrite(ops) ==
    /\ batch = <<>>
    /\ last_sequence + Len(ops) <= MaxSequence
    /\ batch' = ops
    /\ inserted' = 0
    /\ UNCHANGED <<last_sequence, memVars, current, next_file, snapshots, reads, compact>>

\* WriteBatchInternal::InsertInto, without the mutex, entry by entry.
InsertNext ==
    /\ inserted < Len(batch)
    /\ inserted' = inserted + 1
    /\ LET op == batch[inserted + 1]
           entry == [key |-> op.key, seq |-> last_sequence + inserted + 1, type |-> op.type]
       IN  memtables' = [memtables EXCEPT ![mem] = @ \cup {entry}]
    /\ UNCHANGED <<last_sequence, batch, mem, imm, current, next_file,
                   snapshots, reads, compact>>

\* SetLastSequence makes the batch visible.
PublishWrite ==
    /\ batch # <<>>
    /\ inserted = Len(batch)
    /\ last_sequence' = last_sequence + Len(batch)
    /\ batch' = <<>>
    /\ inserted' = 0
    /\ UNCHANGED <<memVars, current, next_file, snapshots, reads, compact>>

\* MakeRoomForWrite switches to a new memtable when there is no imm_.  A
\* switch with an empty memtable would build no table and is left out.
SwitchMemtable ==
    /\ batch = <<>>
    /\ imm = NoTable
    /\ memtables[mem] # {}
    /\ mem < MaxSequence + 1
    /\ imm' = mem
    /\ mem' = mem + 1
    /\ UNCHANGED <<writeVars, memtables, current, next_file, snapshots, reads, compact>>

-----------------------------------------------------------------------------
(* The background thread.                                                  *)

\* A variant: the file number is not taken from the counter.
CompactMemTableSameNumber ==
    /\ imm # NoTable
    /\ LET file == [number |-> next_file, entries |-> memtables[imm]]
       IN  \E level \in PickLevelForMemTableOutput(current, UserKeys({file})) :
             current' = [current EXCEPT ![level] = @ \cup {file}]
    /\ imm' = NoTable
    /\ memtables' = Referenced(memtables, mem, NoTable, reads)
    /\ UNCHANGED <<writeVars, mem, next_file, snapshots, reads, compact>>

\* CompactMemTable, from BackgroundCompaction or, with priority, from the
\* loop of DoCompactionWork.  imm_ does not change while its table is
\* built, and no one else installs versions, so it is one step.
CompactMemTable ==
    /\ imm # NoTable
    /\ LET file == [number |-> next_file, entries |-> memtables[imm]]
       IN  \E level \in PickLevelForMemTableOutput(current, UserKeys({file})) :
             current' = [current EXCEPT ![level] = @ \cup {file}]
    /\ next_file' = next_file + 1
    /\ imm' = NoTable
    /\ memtables' = Referenced(memtables, mem, NoTable, reads)
    /\ UNCHANGED <<writeVars, mem, snapshots, reads, compact>>

\* A variant: snapshots do not hold back a compaction.
SmallestSnapshotIgnored == last_sequence

\* The start of DoCompactionWork: input_version_ is pinned and the oldest
\* snapshot is read under the mutex.
SmallestSnapshot ==
    LET held == {snapshots[s] : s \in Snapshots} \ {NoSnapshot}
    IN  IF held = {} THEN last_sequence
        ELSE CHOOSE q \in held : \A p \in held : q <= p

StartWork(level, inputs) ==
    /\ compact' = [level |-> level, inputs0 |-> inputs[1], inputs1 |-> inputs[2],
                   version |-> current, smallest_snapshot |-> SmallestSnapshot]
    /\ UNCHANGED <<writeVars, memVars, current, next_file, snapshots, reads>>

\* A single input file with nothing to merge it with changes level.
TrivialMove(level, inputs) ==
    /\ current' = [current EXCEPT ![level] = @ \ inputs[1],
                                  ![level + 1] = @ \cup inputs[1]]
    /\ UNCHANGED <<writeVars, memVars, next_file, snapshots, reads, compact>>

\* IsTrivialMove, up to the size of the grandparents: when this holds the
\* code may still merge.
MayMove(inputs) == inputs[2] = {} /\ \E f \in inputs[1] : inputs[1] = {f}

\* BackgroundCompaction with no imm_: PickCompaction at some level.  Scores,
\* compact_pointer_ and seek counts only choose the level and the file.
AutomaticCompaction(level, f, mayExpand) ==
    /\ imm = NoTable
    /\ compact = None
    /\ level + 1 \in Levels
    /\ f \in current[level]
    /\ LET inputs == PickCompaction(current, level, f, mayExpand)
       IN  \/ MayMove(inputs) /\ TrivialMove(level, inputs)
           \/ StartWork(level, inputs)

\* The same with manual_compaction_ set: never a trivial move.
ManualCompaction(level, range, last, mayExpand) ==
    /\ imm = NoTable
    /\ compact = None
    /\ level + 1 \in Levels
    /\ last \in GetOverlappingInputs(current, level, range)
    /\ StartWork(level, CompactRange(current, level, range, last, mayExpand))

\* Rule (A): hidden by a newer entry of the same user key that every
\* snapshot sees.
HiddenByNewer(c, entries, e) ==
    \E n \in entries : n.key = e.key /\ n.seq > e.seq /\ n.seq <= c.smallest_snapshot

\* Rule (B): a deletion that every snapshot sees, with nothing below.
ObsoleteDeletion(c, e) ==
    /\ e.type = "deletion"
    /\ e.seq <= c.smallest_snapshot
    /\ IsBaseLevelForKey(c.version, c.level, e.key)

\* What MakeInputIterator goes through.
InputEntries(c) == EntriesOf(c.inputs0 \cup c.inputs1)

Survivors(c) ==
    LET entries == InputEntries(c)
    IN  {e \in entries : ~HiddenByNewer(c, entries, e) /\ ~ObsoleteDeletion(c, e)}

\* The outputs that start with the entries starts, in order.  File sizes
\* and the grandparents decide where an output ends, so it may be anywhere.
\* Only level 0 compares file numbers: those of outputs are left at 0.
Outputs(entries, starts) ==
    {[number |-> 0,
      entries |-> {e \in entries : /\ e = s \/ Precedes(s, e)
                                   /\ \A t \in starts : Precedes(s, t) => Precedes(e, t)}]
     : s \in starts}

IsCut(entries, starts) ==
    /\ starts \subseteq entries
    /\ \A e \in entries : \E s \in starts : s = e \/ Precedes(s, e)

\* The end of DoCompactionWork: InstallCompactionResults.
InstallCompactionResults ==
    /\ compact # None
    /\ \E starts \in SUBSET Survivors(compact) :
         /\ IsCut(Survivors(compact), starts)
         /\ current' = [current EXCEPT
               ![compact.level] = @ \ compact.inputs0,
               ![compact.level + 1] = (@ \ compact.inputs1)
                                       \cup Outputs(Survivors(compact), starts)]
    /\ compact' = None
    /\ UNCHANGED <<writeVars, memVars, next_file, snapshots, reads>>

-----------------------------------------------------------------------------
(* Snapshots and reads.                                                    *)

GetSnapshot(s) ==
    /\ snapshots[s] = NoSnapshot
    /\ snapshots' = [snapshots EXCEPT ![s] = last_sequence]
    /\ UNCHANGED <<writeVars, memVars, current, next_file, reads, compact>>

ReleaseSnapshot(s) ==
    /\ snapshots[s] # NoSnapshot
    /\ snapshots' = [snapshots EXCEPT ![s] = NoSnapshot]
    /\ UNCHANGED <<writeVars, memVars, current, next_file, reads, compact>>

\* The part of Get, and of NewInternalIterator, before the mutex is
\* released: choose the sequence number and Ref() mem_, imm_ and current.
BeginRead(r, seq) ==
    /\ reads[r] = None
    /\ reads' = [reads EXCEPT ![r] = [seq |-> seq, mem |-> mem, imm |-> imm,
                                      version |-> current]]
    /\ UNCHANGED <<writeVars, memVars, current, next_file, snapshots, compact>>

\* The end of Get, or CleanupIteratorState.
EndRead(r) ==
    /\ reads[r] # None
    /\ reads' = [reads EXCEPT ![r] = None]
    /\ memtables' = Referenced(memtables, mem, imm, reads')
    /\ UNCHANGED <<writeVars, mem, imm, current, next_file, snapshots, compact>>

\* A variant: a released snapshot can still be read at.
ReadAnySnapshot(r, s) == BeginRead(r, snapshots[s])

ReadLatest(r) == BeginRead(r, last_sequence)
ReadSnapshot(r, s) == snapshots[s] # NoSnapshot /\ BeginRead(r, snapshots[s])

Next ==
    \/ \E ops \in Batches : BeginWrite(ops)
    \/ InsertNext
    \/ PublishWrite
    \/ SwitchMemtable
    \/ CompactMemTable
    \/ \E level \in Levels : \E f \in current[level], mayExpand \in BOOLEAN :
         AutomaticCompaction(level, f, mayExpand)
    \/ \E level \in Levels, range \in ManualRanges :
         \E last \in current[level], mayExpand \in BOOLEAN :
            ManualCompaction(level, range, last, mayExpand)
    \/ InstallCompactionResults
    \/ \E s \in Snapshots : GetSnapshot(s) \/ ReleaseSnapshot(s)
    \/ \E r \in Readers :
         \/ ReadLatest(r)
         \/ \E s \in Snapshots : ReadSnapshot(r, s)
         \/ EndRead(r)

Spec == Init /\ [][Next]_vars

-----------------------------------------------------------------------------
(* What a read returns from what it pinned.                                *)

ContentsOf(table) == IF table = NoTable THEN {} ELSE memtables[table]

\* DBImpl::Get: memtable, immutable memtable, then the version.
Get(view, k) ==
    IF Lookup(ContentsOf(view.mem), k, view.seq) # {}
      THEN Lookup(ContentsOf(view.mem), k, view.seq)
    ELSE IF Lookup(ContentsOf(view.imm), k, view.seq) # {}
      THEN Lookup(ContentsOf(view.imm), k, view.seq)
    ELSE GetInVersion(view.version, k, view.seq)

\* The merged iterator sees all the entries of its children at once.
IteratorEntries(view) ==
    ContentsOf(view.mem) \cup ContentsOf(view.imm)
        \cup UNION {EntriesOf(view.version[l]) : l \in Levels}

\* What the hit of a lookup shows: the number of the write, if it is a value.
ValueOf(hit) == {e.seq : e \in {h \in hit : h.type = "value"}}

LatestView == [seq |-> last_sequence, mem |-> mem, imm |-> imm, version |-> current]
SnapshotView(s) == [LatestView EXCEPT !.seq = snapshots[s]]

MapSeenBy(view) == [k \in Keys |-> ValueOf(Get(view, k))]

-----------------------------------------------------------------------------
(* Properties.                                                             *)

\* The files of a level below 0 do not overlap: any two are in order.  This
\* is what the assertions of VersionSet::Builder state (version_set.cc
\* SaveTo, MaybeAddFile) and what FindFile's binary search relies on.
LevelsDisjoint == Disjoint(current)

\* For each user key, what Get meets first is newer: memtable, immutable
\* memtable, version.  Get stops at the first hit, so an older entry found
\* above a newer one would resurrect an overwritten value.
SearchOrder ==
    /\ Newer(memtables[mem], ContentsOf(imm))
    /\ \A l \in Levels : Newer(memtables[mem] \cup ContentsOf(imm), EntriesOf(current[l]))
    /\ SearchOrderIn(current)

\* The inputs of the running compaction can be replaced by their merge at
\* any moment until it is installed, whatever is flushed meanwhile.
InputsIsolated ==
    compact # None =>
        Isolated(current, compact.level, compact.inputs0, compact.inputs1)

\* An iterator merges all entries it pinned and shows the newest one it may
\* see; Get stops at the first table with a hit.  At every sequence number a
\* client can read at, both show the same.
IteratorsAgreeWithGet ==
    LET views == {LatestView}
                 \cup {SnapshotView(s) : s \in {t \in Snapshots : snapshots[t] # NoSnapshot}}
                 \cup {reads[r] : r \in {q \in Readers : reads[q] # None}}
    IN  \A view \in views, k \in Keys :
            ValueOf(Lookup(IteratorEntries(view), k, view.seq)) = MapSeenBy(view)[k]

\* The tree implements the map a client is promised: flushes and compactions
\* change nothing anyone can read, a batch appears at once, a snapshot and a
\* read in progress never change.
KV == INSTANCE KVStore WITH
        count <- last_sequence,
        store <- MapSeenBy(LatestView),
        snaps <- [s \in Snapshots |->
                    IF snapshots[s] = NoSnapshot THEN <<>> ELSE MapSeenBy(SnapshotView(s))],
        reads <- [r \in Readers |-> IF reads[r] = None THEN <<>> ELSE MapSeenBy(reads[r])]

ImplementsKVStore == KV!KSpec

-----------------------------------------------------------------------------
(* The inductive invariant behind LevelsDisjoint and SearchOrder, when     *)
(* there are no manual compactions.  LSMProofs.tla proves it.              *)

FileEntries == UNION {EntriesOf(current[l]) : l \in Levels}
AllEntries == memtables[mem] \cup ContentsOf(imm) \cup FileEntries

\* Sequence numbers grow from the files to imm_ to mem_, and a new entry
\* gets one that no entry has.
SequencesGrow ==
    /\ inserted <= Len(batch)
    /\ batch = <<>> => inserted = 0
    /\ \A a \in AllEntries : a.seq <= last_sequence + inserted
    /\ \A a \in memtables[mem], b \in ContentsOf(imm) \cup FileEntries : a.seq > b.seq
    /\ \A a \in ContentsOf(imm), b \in FileEntries : a.seq > b.seq
    /\ \A a, b \in AllEntries : a.seq = b.seq => a = b

\* The memtables not used yet are empty, the one being flushed is not.
MemtablesInOrder ==
    /\ imm < mem
    /\ imm # NoTable => memtables[imm] # {}
    /\ \A id \in MemIds : id > mem => memtables[id] = {}

\* The next flush gets the greatest number in level 0.
NumbersGrow == \A f \in current[0] : f.number < next_file

\* No gap in the key range of a running compaction can take a flushed file.
CompactionConnected ==
    compact # None =>
        /\ compact.level + 1 \in Levels
        /\ Connected(compact.inputs0 \cup compact.inputs1)

IInv ==
    /\ TypeOK
    /\ SequencesGrow
    /\ MemtablesInOrder
    /\ NumbersGrow
    /\ NoEmptyFile(current)
    /\ Disjoint(current)
    /\ SearchOrderIn(current)
    /\ CompactionConnected
    /\ InputsIsolated

-----------------------------------------------------------------------------
(* What has to hold as well for IteratorsAgreeWithGet and                  *)
(* ImplementsKVStore.  LSMProofs.tla proves it.                            *)

\* The entries of a batch get the next sequence numbers, in order; those
\* inserted so far are in mem_, although it may have been flushed beside.
BatchEntry(i) == [key |-> batch[i].key, seq |-> last_sequence + i, type |-> batch[i].type]
BatchInMemtable == \A i \in 1..inserted : BatchEntry(i) \in memtables[mem]

SnapshotsInPast == \A s \in Snapshots : snapshots[s] <= last_sequence

\* What a view pinned is searched newest first, and stays so when its
\* memtables are flushed and its version is replaced.
ViewInOrder(view) ==
    LET files == UNION {EntriesOf(view.version[l]) : l \in Levels}
    IN  /\ Disjoint(view.version)
        /\ SearchOrderIn(view.version)
        /\ Newer(ContentsOf(view.mem), ContentsOf(view.imm) \cup files)
        /\ Newer(ContentsOf(view.imm), files)

\* A read in progress sees nothing that is still to be written.
ReadInOrder(view) ==
    /\ view.seq <= last_sequence
    /\ view.imm < view.mem
    /\ view.mem <= mem
    /\ \A e \in IteratorEntries(view) : e.seq <= last_sequence + inserted
    /\ ViewInOrder(view)

ReadsInOrder == \A r \in Readers : reads[r] # None => ReadInOrder(reads[r])

\* What the running compaction may drop: no client reads below its oldest
\* snapshot; the files left at its output level hold only newer entries of
\* its user keys; and the files further down were there when it began, or
\* hold none of its user keys.
DropsAreSafe ==
    compact # None =>
        LET inputs == compact.inputs0 \cup compact.inputs1
        IN  /\ compact.smallest_snapshot <= last_sequence
            /\ \A s \in Snapshots :
                 snapshots[s] # NoSnapshot => compact.smallest_snapshot <= snapshots[s]
            /\ Newer(EntriesOf(current[compact.level + 1] \ compact.inputs1), EntriesOf(inputs))
            /\ \A l \in Levels : l >= compact.level + 2 =>
                 \A f \in current[l] \ compact.version[l] :
                    UserKeys({f}) \cap UserKeys(inputs) = {}

ReadsInv ==
    /\ BatchInMemtable
    /\ SnapshotsInPast
    /\ ReadsInOrder
    /\ DropsAreSafe
=============================================================================
