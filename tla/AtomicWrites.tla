---------------------------- MODULE AtomicWrites ----------------------------
(***************************************************************************)
(* What the threads that write are promised, whatever queue, group, log    *)
(* and memtable their batches go through: each call of Write takes effect  *)
(* at one moment between its begin and its return, together with others or *)
(* alone, and is answered ok if and only if it did; what was written stays *)
(* written.  WriteQueue.tla implements this specification.                 *)
(***************************************************************************)
CONSTANT Batches    \* the calls of Write, each with its batch

VARIABLES
    contents,       \* batches a reader can find
    call            \* what each call has come to

awVars == <<contents, call>>

AWInit ==
    /\ contents = {}
    /\ call = [c \in Batches |-> "idle"]

Call(c) ==
    /\ call[c] = "idle"
    /\ call' = [call EXCEPT ![c] = "pending"]
    /\ UNCHANGED contents

\* A group of batches is written.
Commit(g) ==
    /\ g # {} /\ g \cap contents = {}
    /\ \A c \in g : call[c] = "pending"
    /\ contents' = contents \cup g
    /\ UNCHANGED call

Return(c) ==
    /\ call[c] = "pending"
    /\ call' = [call EXCEPT ![c] = IF c \in contents THEN "ok" ELSE "error"]
    /\ UNCHANGED contents

AWNext ==
    \/ \E c \in Batches : Call(c) \/ Return(c)
    \/ \E g \in SUBSET Batches : Commit(g)

AWSpec == AWInit /\ [][AWNext]_awVars
=============================================================================
