------------------------------ MODULE KVStore ------------------------------
(***************************************************************************)
(* What a client of the database is promised: a map from keys to values    *)
(* that changes atomically with each write batch, snapshots that freeze    *)
(* the map, and reads (Get, iterators) that see the map, or a snapshot of  *)
(* it, as it was when the read began.                                      *)
(*                                                                         *)
(* The value stored under a key is named by the sequence number of the     *)
(* write that put it there, as a set of one element; Absent, the empty     *)
(* set, stands under a key never written or deleted.  LSM.tla implements   *)
(* this specification.                                                     *)
(***************************************************************************)
EXTENDS Integers, Sequences

CONSTANTS
    Keys,           \* the user keys, a set of numbers
    Snapshots,      \* names of the snapshot handles a client may hold
    Readers,        \* names of the reads (Get or iterator) in progress
    MaxSequence,    \* bound: number of entries ever written
    MaxBatch        \* bound: entries in one write batch

VARIABLES
    count,          \* entries committed so far
    store,          \* the current map
    batch,          \* the batch being written, <<>> if none
    snaps,          \* what each snapshot shows, None if not held
    reads           \* what each read in progress shows, None if idle

kvars == <<count, store, batch, snaps, reads>>

Absent == {}
None == <<>>
Op == [key : Keys, type : {"value", "deletion"}]
Batches == UNION {[1..n -> Op] : n \in 1..MaxBatch}

\* The map after the first n operations of the batch were applied.
ApplyBatch(map, first, ops) ==
    [k \in Keys |->
        LET hits == {i \in DOMAIN ops : ops[i].key = k}
            last == CHOOSE i \in hits : \A j \in hits : j <= i
        IN  IF hits = {} THEN map[k]
            ELSE IF ops[last].type = "deletion" THEN Absent
            ELSE {first + last - 1}]

KInit ==
    /\ count = 0
    /\ store = [k \in Keys |-> Absent]
    /\ batch = <<>>
    /\ snaps = [s \in Snapshots |-> None]
    /\ reads = [r \in Readers |-> None]

KBeginWrite ==
    /\ batch = <<>> /\ batch' # <<>>
    /\ count + Len(batch') <= MaxSequence
    /\ batch' \in Batches
    /\ UNCHANGED <<count, store, snaps, reads>>

\* The whole batch becomes visible in one step.
KCommit ==
    /\ batch # <<>>
    /\ batch' = <<>>
    /\ store' = ApplyBatch(store, count + 1, batch)
    /\ count' = count + Len(batch)
    /\ UNCHANGED <<snaps, reads>>

KGetSnapshot(s) ==
    /\ snaps[s] = None /\ snaps'[s] # None
    /\ snaps' = [snaps EXCEPT ![s] = store]
    /\ UNCHANGED <<count, store, batch, reads>>

KReleaseSnapshot(s) ==
    /\ snaps[s] # None /\ snaps'[s] = None
    /\ snaps' = [snaps EXCEPT ![s] = None]
    /\ UNCHANGED <<count, store, batch, reads>>

\* A read fixes what it will see when it begins ...
KBeginRead(r, map) ==
    /\ reads[r] = None /\ reads'[r] # None
    /\ map # None
    /\ reads' = [reads EXCEPT ![r] = map]
    /\ UNCHANGED <<count, store, batch, snaps>>

\* ... and nothing but its end changes that.
KEndRead(r) ==
    /\ reads[r] # None /\ reads'[r] = None
    /\ reads' = [reads EXCEPT ![r] = None]
    /\ UNCHANGED <<count, store, batch, snaps>>

KNext ==
    \/ KBeginWrite
    \/ KCommit
    \/ \E s \in Snapshots : KGetSnapshot(s) \/ KReleaseSnapshot(s)
    \/ \E r \in Readers :
         \/ KBeginRead(r, store)
         \/ \E s \in Snapshots : KBeginRead(r, snaps[s])
         \/ KEndRead(r)

KSpec == KInit /\ [][KNext]_kvars
=============================================================================
