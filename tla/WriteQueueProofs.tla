-------------------------- MODULE WriteQueueProofs --------------------------
(***************************************************************************)
(* Proofs about WriteQueue for any number of calls of every kind, any      *)
(* capacities, triggers and bounds: type correctness, and the safety       *)
(* invariants that relate the queue of writers, the group the head answers *)
(* without the mutex, the log, the memtables and the background thread.    *)
(***************************************************************************)
EXTENDS WriteQueue, BasicFacts

\* The places of a call that leads: it is the head of writers_.
Leading == {"room", "slow", "full", "logging", "inserting", "finish"}

\* Write released the mutex after BuildBatchGroup: the group is the batches
\* of the writers up to last_writer.
GroupIsOut(c) ==
    \/ at[c] = "logging" /\ mutex # c
    \/ at[c] = "inserting"
    \/ at[c] = "finish" /\ mutex # c

\* A call whose Write has an answer, that it may not have seen yet.
HasAnswer(c) == at[c] = "returned" \/ (at[c] = "parked" /\ done[c])

\* writers_ holds each call once, the head leads or wakes up, the others
\* wait, and a call that waits is in writers_ or has its answer.
QueueInv ==
    /\ \A i, j \in 1..Len(writers) : writers[i] = writers[j] => i = j
    /\ \A i \in 1..Len(writers) : ~done[writers[i]] /\ at[writers[i]] \in Leading \cup {"parked"}
    /\ \A c \in Queued : at[c] \in Leading => writers # <<>> /\ c = writers[1]
    /\ \A c \in Queued : at[c] = "parked" => done[c] \/ c \in Range(writers)
    /\ \A c \in Queued : at[c] = "start" => ~done[c]

\* A call keeps the mutex from MakeRoomForWrite to BuildBatchGroup.
MutexInv ==
    /\ mutex \in Queued \cup {Free}
    /\ \A c \in Queued : at[c] = "room" => mutex = c
    /\ \A c \in Queued : mutex = c => at[c] \in {"room", "logging", "finish"}

\* The calls of each kind are where their code is.
PlacesInv ==
    /\ \A c \in Queued : at[c] \in Leading \cup {"start", "parked", "flush", "returned"}
    /\ \A c \in Queued : at[c] \in {"logging", "inserting"} => c \in Batches
    /\ \A c \in Queued : at[c] = "flush" => c \in Flushes
    /\ \A c \in Manuals : at[c] \in {"start", "manual", "drain", "returned"}
    /\ \A c \in Closers : at[c] \in {"start", "close", "returned"}

\* While the group is out it is the batches of the first writers, up to
\* last_writer, in their order; no call with sync = true is in the group of
\* a head without it.
GroupInv ==
    /\ \A c \in Queued : GroupIsOut(c) =>
          \E n \in 1..Len(writers) :
             /\ last_writer = writers[n]
             /\ Range(group) = Batches \cap {writers[i] : i \in 1..n}
             /\ c \in SyncWrites \/ \A i \in 1..n : writers[i] \notin SyncWrites
             /\ c \in Batches
    /\ (\A c \in Queued : ~GroupIsOut(c)) => group = <<>>
    /\ \A k, l \in 1..Len(group), i, j \in 1..Len(writers) :
          k < l /\ writers[i] = group[k] /\ writers[j] = group[l] => i < j

\* What arrived and is not answered is in writers_, in the same order.
ArrivalInv ==
    /\ Len(writers) <= Len(arrived)
    /\ \A i \in 1..Len(writers) : writers[i] = arrived[Len(arrived) - Len(writers) + i]
    /\ \A i, j \in 1..Len(arrived) : arrived[i] = arrived[j] => i = j
    /\ \A c \in Queued : at[c] = "start" => c \notin Range(arrived)

\* A batch is applied when its leader finishes with ok, before that none of
\* the queue is.
AppliedInv ==
    /\ Range(applied) \subseteq Range(arrived)
    /\ Range(applied) \subseteq Range(mem) \cup Range(imm) \cup tables
    /\ \A c \in Queued : at[c] \in Leading \ {"finish"} => Range(applied) \cap Range(writers) = {}
    /\ (writers # <<>> /\ at[writers[1]] = "parked") => Range(applied) \cap Range(writers) = {}
    /\ \A c \in Queued : at[c] = "finish" =>
          Range(applied) \cap Range(writers) = IF status[c] = "ok" THEN Range(group) ELSE {}

\* What a call is told is what happened to its batch.
StatusInv ==
    /\ \A c \in Queued : at[c] \in {"logging", "inserting"} => status[c] = "ok"
    /\ \A c \in Queued : at[c] = "finish" => status[c] \in {"ok", "error", "sync_error"}
    /\ \A c \in Batches : at[c] = "finish" /\ status[c] = "ok" => GroupIsOut(c)
    /\ \A c \in Batches : HasAnswer(c) =>
          /\ status[c] = "ok" => c \in Range(applied)
          /\ status[c] = "error" => c \notin Range(applied)

\* What is in the memtable or about to be is in the log, and synced if one
\* of the group asked for it.
LogInv ==
    /\ Range(mem) \subseteq Range(log)
    /\ \A c \in Queued : at[c] = "inserting" => Range(group) \subseteq Range(log)
    /\ \A c \in Queued : at[c] = "inserting" \/ (at[c] = "finish" /\ status[c] = "ok")
          => Range(group) \cap SyncWrites \subseteq durable
    /\ \A c \in SyncWrites : HasAnswer(c) /\ status[c] = "ok" => c \in durable

\* The memtables got the batches in the order of arrival.
OrderInv ==
    /\ \A i, j \in 1..Len(applied) : applied[i] = applied[j] => i = j
    /\ \A a, b \in 1..Len(arrived), i, j \in 1..Len(applied) :
          a < b /\ arrived[a] = applied[i] /\ arrived[b] = applied[j] => i < j

\* What the background thread works on, and who waits for it.
BackgroundInv ==
    /\ scheduled <=> bg # "idle"
    /\ ~bg_error /\ ~shutting_down /\ HasWork(has_imm, manual, level0) => scheduled
    /\ is_manual /\ bg \in {"work", "work_flush", "work_clean"} =>
          manual # NoCall /\ rounds[manual] > 0
    /\ bg = "move" => level0 > 0
    /\ manual # NoCall => at[manual] \in {"manual", "drain"}
    /\ \A c \in waiters : at[c] \in {"full", "flush", "manual", "drain", "close"}

\* The destructor is alone.
CloseInv ==
    /\ \A d \in Closers : at[d] # "start" => shutting_down
    /\ shutting_down =>
          \E d \in Closers : /\ at[d] \in {"close", "returned"}
                             /\ \A c \in Calls \ {d} : at[c] \in {"start", "returned"}
    /\ \A d \in Closers : at[d] = "returned" => bg = "idle" /\ waiters = {}

QInv ==
    /\ TypeOK
    /\ QueueInv /\ MutexInv /\ PlacesInv /\ GroupInv
    /\ ArrivalInv /\ AppliedInv /\ StatusInv /\ LogInv /\ OrderInv
    /\ BackgroundInv /\ CloseInv

-----------------------------------------------------------------------------
(* The operators of BuildBatchGroup.                                       *)

\* BatchesUpTo counts the batches of the queue one by one.
LEMMA CountBatches ==
    /\ \A i \in Nat : BatchesUpTo(i) \in Nat
    /\ BatchesUpTo(0) = 0
    /\ \A i \in Nat : BatchesUpTo(i + 1) =
          IF writers[i + 1] \in Batches THEN BatchesUpTo(i) + 1 ELSE BatchesUpTo(i)
    /\ \A i, j \in Nat : i <= j => BatchesUpTo(i) <= BatchesUpTo(j)
  <1> DEFINE P(i) == {j \in 1..i : writers[j] \in Batches}
  <1>1. \A i \in Nat : IsFiniteSet(P(i))
    <2> TAKE i \in Nat
    <2>1. IsFiniteSet(1..i)
      BY FS_Interval
    <2> QED
      BY <2>1, FS_Subset
  <1>2. \A i \in Nat : Cardinality(P(i)) \in Nat
    BY <1>1, FS_CardinalityType
  <1>3. P(0) = {}
    OBVIOUS
  <1>4. ASSUME NEW i \in Nat
        PROVE  Cardinality(P(i + 1)) =
               IF writers[i + 1] \in Batches THEN Cardinality(P(i)) + 1 ELSE Cardinality(P(i))
    <2>1. CASE writers[i + 1] \in Batches
      <3>1. P(i + 1) = P(i) \cup {i + 1}
        BY <2>1
      <3>2. i + 1 \notin P(i)
        OBVIOUS
      <3> QED
        BY <1>1, <2>1, <3>1, <3>2, FS_AddElement
    <2>2. CASE writers[i + 1] \notin Batches
      <3>1. P(i + 1) = P(i)
        BY <2>2
      <3> QED
        BY <2>2, <3>1
    <2> QED
      BY <2>1, <2>2
  <1>5. ASSUME NEW i \in Nat, NEW j \in Nat, i <= j
        PROVE  Cardinality(P(i)) <= Cardinality(P(j))
    <2>1. P(i) \subseteq P(j)
      BY <1>5
    <2> QED
      BY <1>1, <2>1, FS_Subset
  <1> QED
    BY <1>2, <1>3, <1>4, <1>5, FS_EmptySet DEF BatchesUpTo

\* Every batch of the first n writers has its place in BatchesAmong, and
\* the places are in the order of the queue.
LEMMA PlaceInGroup ==
    ASSUME NEW n \in Nat, NEW k \in 1..BatchesUpTo(n)
    PROVE  LET i == CHOOSE i \in 1..n : writers[i] \in Batches /\ BatchesUpTo(i) = k
           IN  i \in 1..n /\ writers[i] \in Batches /\ BatchesUpTo(i) = k
  <1> DEFINE T == {i \in Nat : i <= n /\ BatchesUpTo(i) >= k}
  <1>1. n \in T
    BY CountBatches
  <1>2. PICK i \in T : \A j \in T : i <= j
    <2>1. T \in SUBSET Nat /\ T # {}
      BY <1>1
    <2> HIDE DEF T
    <2> QED
      BY <2>1, LeastNatural
  <1>3. i # 0
    BY <1>2, CountBatches
  <1>4. i - 1 \in Nat /\ i - 1 \notin T
    BY <1>2, <1>3
  <1>5. BatchesUpTo(i - 1) \in Nat /\ BatchesUpTo(i - 1) < k
    BY <1>4, <1>2, CountBatches
  <1>6. BatchesUpTo((i - 1) + 1) =
           IF writers[(i - 1) + 1] \in Batches THEN BatchesUpTo(i - 1) + 1 ELSE BatchesUpTo(i - 1)
    BY <1>4, CountBatches
  <1>7. (i - 1) + 1 = i
    BY <1>2
  <1>8. i \in 1..n /\ writers[i] \in Batches /\ BatchesUpTo(i) = k
    BY <1>2, <1>3, <1>5, <1>6, <1>7
  <1> QED
    BY <1>8

\* BatchesAmong is the batches of the first n writers, in their order.
LEMMA GroupOfWriters ==
    ASSUME NEW n \in 1..Len(writers), writers \in Seq(Queued),
           \A i, j \in 1..Len(writers) : writers[i] = writers[j] => i = j
    PROVE  /\ BatchesAmong(n) \in Seq(Batches)
           /\ Range(BatchesAmong(n)) = Batches \cap {writers[i] : i \in 1..n}
           /\ \A k, l \in 1..Len(BatchesAmong(n)), i, j \in 1..Len(writers) :
                 k < l /\ writers[i] = BatchesAmong(n)[k] /\ writers[j] = BatchesAmong(n)[l]
                 => i < j
  <1> DEFINE place == [k \in 1..BatchesUpTo(n) |->
                        CHOOSE i \in 1..n : writers[i] \in Batches /\ BatchesUpTo(i) = k]
             g == BatchesAmong(n)
  <1>1. n \in Nat /\ BatchesUpTo(n) \in Nat
    BY CountBatches
  <1>2. ASSUME NEW k \in 1..BatchesUpTo(n)
        PROVE  /\ place[k] \in 1..n /\ writers[place[k]] \in Batches
               /\ BatchesUpTo(place[k]) = k
    BY <1>1, PlaceInGroup
  <1>3. g = [k \in 1..BatchesUpTo(n) |-> writers[place[k]]]
    BY DEF BatchesAmong
  <1> HIDE DEF place, g
  <1>4. g \in Seq(Batches) /\ Len(g) = BatchesUpTo(n) /\ DOMAIN g = 1..BatchesUpTo(n)
    <2>1. g \in [1..BatchesUpTo(n) -> Batches]
      BY <1>2, <1>3
    <2> QED
      BY <1>1, <2>1
  <1>5. ASSUME NEW i \in 1..n, writers[i] \in Batches
        PROVE  writers[i] \in Range(g)
    <2>1. BatchesUpTo(i) \in 1..BatchesUpTo(n)
      <3>1. i \in Nat /\ i - 1 \in Nat /\ (i - 1) + 1 = i
        BY <1>1
      <3>2. BatchesUpTo(i) = BatchesUpTo(i - 1) + 1 /\ BatchesUpTo(i - 1) \in Nat
        BY <1>5, <3>1, CountBatches
      <3>3. BatchesUpTo(i) <= BatchesUpTo(n)
        BY <1>1, <3>1, CountBatches
      <3> QED
        BY <1>1, <3>2, <3>3
    <2> DEFINE k == BatchesUpTo(i)
    <2>2. place[k] \in 1..n /\ writers[place[k]] \in Batches /\ BatchesUpTo(place[k]) = k
      BY <1>2, <2>1
    <2>3. place[k] = i
      <3>1. ASSUME NEW a \in 1..n, NEW b \in 1..n, a < b, writers[b] \in Batches
            PROVE  BatchesUpTo(a) < BatchesUpTo(b)
        <4>1. b - 1 \in Nat /\ (b - 1) + 1 = b /\ a <= b - 1 /\ a \in Nat
          BY <1>1, <3>1
        <4>2. BatchesUpTo(b) = BatchesUpTo(b - 1) + 1
          BY <3>1, <4>1, CountBatches
        <4>3. BatchesUpTo(a) <= BatchesUpTo(b - 1) /\ BatchesUpTo(a) \in Nat /\ BatchesUpTo(b - 1) \in Nat
          BY <4>1, CountBatches
        <4> QED
          BY <4>2, <4>3
      <3>2. ~(place[k] < i) /\ ~(i < place[k])
        BY <1>5, <2>1, <2>2, <3>1
      <3> QED
        BY <2>2, <3>2
    <2> QED
      BY <1>3, <1>4, <2>1, <2>3 DEF Range
  <1>6. ASSUME NEW k \in 1..Len(g), NEW l \in 1..Len(g), NEW i \in 1..Len(writers),
               NEW j \in 1..Len(writers), k < l, writers[i] = g[k], writers[j] = g[l]
        PROVE  i < j
    <2>1. k \in 1..BatchesUpTo(n) /\ l \in 1..BatchesUpTo(n)
      BY <1>4
    <2>2. place[k] \in 1..Len(writers) /\ place[l] \in 1..Len(writers)
      BY <1>1, <1>2, <2>1
    <2>3. i = place[k] /\ j = place[l]
      BY <1>3, <1>6, <2>1, <2>2
    <2>4. BatchesUpTo(i) = k /\ BatchesUpTo(j) = l
      BY <1>2, <2>1, <2>3
    <2>5. i \in Nat /\ j \in Nat
      OBVIOUS
    <2>6. ~(j <= i)
      BY <2>4, <2>5, <1>6, CountBatches
    <2> QED
      BY <2>5, <2>6
  <1>7. Range(g) = Batches \cap {writers[i] : i \in 1..n}
    <2>1. Range(g) \subseteq Batches \cap {writers[i] : i \in 1..n}
      BY <1>2, <1>3, <1>4 DEF Range
    <2> QED
      BY <1>5, <2>1
  <1> QED
    BY <1>4, <1>6, <1>7 DEF g

\* The group of the head has at least the head, and a head without sync has
\* no batch with sync in it.
LEMMA GroupLengthInQueue ==
    ASSUME NEW c, writers \in Seq(Queued), writers # <<>>
    PROVE  /\ GroupLength(c) \in 1..Len(writers)
           /\ c \notin SyncWrites => \A i \in 2..GroupLength(c) : writers[i] \notin SyncWrites
  <1> DEFINE T == {i \in 1..Len(writers) : \A j \in 2..i : ~StopsGroup(c, j)}
  <1>1. Len(writers) \in Nat /\ Len(writers) # 0
    OBVIOUS
  <1>2. T \in SUBSET (0..Len(writers)) /\ 1 \in T
    BY <1>1
  <1>3. Max(T) \in T
    BY <1>1, <1>2, MaxIsGreatest
  <1>4. GroupLength(c) \in T
    BY <1>3 DEF GroupLength
  <1> QED
    BY <1>4 DEF StopsGroup

-----------------------------------------------------------------------------
(* Writers and the group: every action keeps ClientInv.                    *)

ClientInv ==
    /\ QueueInv /\ MutexInv /\ PlacesInv /\ GroupInv
    /\ ArrivalInv /\ AppliedInv /\ StatusInv /\ LogInv /\ OrderInv

\* A call is of one kind.
LEMMA Kinds ==
    /\ SyncWrites \subseteq Batches /\ Batches \subseteq Queued /\ Flushes \subseteq Queued
    /\ Queued \subseteq Calls /\ Manuals \subseteq Calls /\ Closers \subseteq Calls
    /\ Calls = Queued \cup Manuals \cup Closers /\ Queued = Batches \cup Flushes
    /\ Batches \cap Flushes = {} /\ Queued \cap Manuals = {}
    /\ Queued \cap Closers = {} /\ Manuals \cap Closers = {}
    /\ Free \notin Calls /\ NoCall \notin Calls
  BY KindsAreDisjoint, CallsAreFinite DEF Calls, Queued, Batches

\* There is one leader, the head of writers_, and only it takes the mutex
\* for longer than one action.
LEMMA OneLeader ==
    ASSUME TypeOK, ClientInv, NEW c \in Queued, at[c] \in Leading
    PROVE  /\ writers # <<>> /\ c = writers[1] /\ Len(writers) \in Nat \ {0}
           /\ \A d \in Queued : d # c => at[d] \notin Leading /\ ~GroupIsOut(d)
           /\ mutex \in {Free, c}
  BY DEF TypeOK, ClientInv, QueueInv, MutexInv, GroupIsOut, Leading

\* The group is batches of writers_; a call that has not begun is in none of
\* the sequences.
LEMMA GroupInQueue ==
    ASSUME TypeOK, ClientInv
    PROVE  /\ Range(group) \subseteq Range(writers) /\ Range(group) \subseteq Batches
           /\ \A c \in Queued : at[c] = "start" =>
                 /\ ~done[c] /\ c \notin Range(writers) /\ c \notin Range(group)
                 /\ c \notin Range(arrived) /\ c \notin Range(applied)
  <1>1. /\ Range(writers) = {writers[i] : i \in 1..Len(writers)} /\ Len(writers) \in Nat
        /\ Range(group) = {group[i] : i \in 1..Len(group)} /\ Range(group) \subseteq Batches
    BY MembersOfSeq DEF TypeOK
  <1>2. Range(group) \subseteq Range(writers)
    <2>1. CASE group = <<>>
      <3>1. Len(group) = 0
        BY <2>1
      <3> QED
        BY <1>1, <3>1
    <2>2. CASE group # <<>>
      <3>1. PICK c \in Queued : GroupIsOut(c)
        BY <2>2 DEF ClientInv, GroupInv
      <3>2. PICK n \in 1..Len(writers) : Range(group) = Batches \cap {writers[i] : i \in 1..n}
        BY <3>1 DEF ClientInv, GroupInv
      <3>3. \A i \in 1..n : i \in 1..Len(writers)
        BY <1>1
      <3> QED
        BY <1>1, <3>2, <3>3
    <2> QED
      BY <2>1, <2>2
  <1>3. \A c \in Queued : at[c] = "start" =>
           ~done[c] /\ c \notin Range(writers) /\ c \notin Range(arrived)
    BY <1>1 DEF ClientInv, QueueInv, ArrivalInv, Leading
  <1> QED
    BY <1>1, <1>2, <1>3 DEF ClientInv, AppliedInv

LEMMA EnqueueStep ==
    ASSUME TypeOK, ClientInv, NEW c \in Queued, Enqueue(c)
    PROVE  ClientInv'
  <1>1. /\ writers' \in Seq(Queued) /\ Len(writers') = Len(writers) + 1 /\ Len(writers) \in Nat
        /\ \A i \in 1..Len(writers) : writers'[i] = writers[i]
        /\ writers'[Len(writers) + 1] = c
        /\ Range(writers') = Range(writers) \cup {c}
        /\ \A i \in 1..Len(writers) : writers[i] \in Queued
        /\ Range(writers) = {writers[i] : i \in 1..Len(writers)}
        /\ writers = <<>> <=> Len(writers) = 0
    <2>1. writers \in Seq(Queued) /\ writers' = Append(writers, c)
      BY DEF Enqueue, TypeOK
    <2>2. /\ writers' \in Seq(Queued) /\ Len(writers') = Len(writers) + 1 /\ Len(writers) \in Nat
          /\ \A i \in 1..Len(writers) : writers'[i] = writers[i]
          /\ writers'[Len(writers) + 1] = c
          /\ Range(writers') = Range(writers) \cup {c}
      BY <2>1, MembersOfAppend
    <2> QED
      BY <2>1, <2>2, MembersOfSeq
  <1>2. /\ arrived' \in Seq(Queued) /\ Len(arrived') = Len(arrived) + 1 /\ Len(arrived) \in Nat
        /\ \A i \in 1..Len(arrived) : arrived'[i] = arrived[i]
        /\ arrived'[Len(arrived) + 1] = c
        /\ Range(arrived') = Range(arrived) \cup {c}
        /\ Range(arrived) = {arrived[i] : i \in 1..Len(arrived)}
    <2>1. arrived \in Seq(Queued) /\ arrived' = Append(arrived, c)
      BY DEF Enqueue, TypeOK
    <2>2. /\ arrived' \in Seq(Queued) /\ Len(arrived') = Len(arrived) + 1 /\ Len(arrived) \in Nat
          /\ \A i \in 1..Len(arrived) : arrived'[i] = arrived[i]
          /\ arrived'[Len(arrived) + 1] = c
          /\ Range(arrived') = Range(arrived) \cup {c}
      BY <2>1, MembersOfAppend
    <2> QED
      BY <2>1, <2>2, MembersOfSeq
  <1>3. /\ at[c] = "start" /\ mutex = Free
        /\ IF writers = <<>> THEN mutex' = c /\ at'[c] = "room"
                             ELSE mutex' = Free /\ at'[c] = "parked"
        /\ \A d \in Calls \ {c} : at'[d] = at[d]
    BY Kinds DEF Enqueue, TypeOK, Goto
  <1>4. UNCHANGED <<status, done, group, last_writer, applied, log, durable, mem, imm, tables>>
    BY DEF Enqueue, dataVars
  <1>5. /\ \A d \in Queued : at[d] \in Leading => d = writers[1] /\ writers # <<>>
        /\ \A d \in Queued : GroupIsOut(d) => at[d] \in Leading
        /\ \A d \in Queued \ {c} : GroupIsOut(d)' <=> GroupIsOut(d)
        /\ ~GroupIsOut(c) /\ ~GroupIsOut(c)'
    BY <1>3, Kinds DEF ClientInv, QueueInv, GroupIsOut, Leading
  <1>6. /\ Range(group) = {group[i] : i \in 1..Len(group)}
        /\ Range(applied) = {applied[i] : i \in 1..Len(applied)}
    BY MembersOfSeq DEF TypeOK
  <1>7. /\ Range(group) \subseteq Range(writers) /\ ~done[c] /\ c \notin Range(writers)
        /\ c \notin Range(group) /\ c \notin Range(arrived) /\ c \notin Range(applied)
    BY <1>3, GroupInQueue
  <1>8. QueueInv'
    BY <1>1, <1>3, <1>4, <1>5, <1>7, Kinds DEF ClientInv, QueueInv, Leading
  <1>9. MutexInv'
    BY <1>3, <1>4, Kinds DEF ClientInv, MutexInv
  <1>10. PlacesInv'
    BY <1>3, <1>4, Kinds DEF ClientInv, PlacesInv, Leading
  <1>11. GroupInv'
    <2>1. \A d \in Queued : GroupIsOut(d)' =>
             \E n \in 1..Len(writers') :
                /\ last_writer' = writers'[n]
                /\ Range(group') = Batches \cap {writers'[i] : i \in 1..n}
                /\ d \in SyncWrites \/ \A i \in 1..n : writers'[i] \notin SyncWrites
                /\ d \in Batches
      <3> TAKE d \in Queued
      <3> HAVE GroupIsOut(d)'
      <3>1. GroupIsOut(d)
        BY <1>5
      <3>2. PICK n \in 1..Len(writers) :
                /\ last_writer = writers[n]
                /\ Range(group) = Batches \cap {writers[i] : i \in 1..n}
                /\ d \in SyncWrites \/ \A i \in 1..n : writers[i] \notin SyncWrites
                /\ d \in Batches
        BY <3>1 DEF ClientInv, GroupInv
      <3>3. n \in 1..Len(writers') /\ \A i \in 1..n : i \in 1..Len(writers)
        BY <1>1
      <3>4. {writers'[i] : i \in 1..n} = {writers[i] : i \in 1..n}
        BY <1>1, <3>3
      <3> QED
        BY <1>1, <1>4, <3>2, <3>3, <3>4
    <2>2. (\A d \in Queued : ~GroupIsOut(d)') => group' = <<>>
      BY <1>4, <1>5 DEF ClientInv, GroupInv
    <2>3. \A k, l \in 1..Len(group), i, j \in 1..Len(writers') :
             k < l /\ writers'[i] = group[k] /\ writers'[j] = group[l] => i < j
      <3> TAKE k, l \in 1..Len(group), i, j \in 1..Len(writers')
      <3> HAVE k < l /\ writers'[i] = group[k] /\ writers'[j] = group[l]
      <3>1. group[k] # c /\ group[l] # c
        BY <1>6, <1>7
      <3>2. i \in 1..Len(writers) /\ j \in 1..Len(writers)
        BY <1>1, <3>1
      <3> QED
        BY <1>1, <3>2 DEF ClientInv, GroupInv
    <2> QED
      BY <1>4, <2>1, <2>2, <2>3 DEF GroupInv
  <1>12. ArrivalInv'
    <2>1. \A i \in 1..Len(writers') : writers'[i] = arrived'[Len(arrived') - Len(writers') + i]
      <3> TAKE i \in 1..Len(writers')
      <3>1. Len(writers) <= Len(arrived)
        BY DEF ClientInv, ArrivalInv
      <3>2. CASE i \in 1..Len(writers)
        <4> DEFINE p == Len(arrived) - Len(writers) + i
        <4>1. p \in 1..Len(arrived) /\ Len(arrived') - Len(writers') + i = p
          BY <1>1, <1>2, <3>1, <3>2
        <4>2. writers[i] = arrived[p]
          BY <3>2 DEF ClientInv, ArrivalInv
        <4> QED
          BY <1>1, <1>2, <3>2, <4>1, <4>2
      <3>3. CASE i = Len(writers) + 1
        <4>1. Len(arrived') - Len(writers') + i = Len(arrived) + 1
          BY <1>1, <1>2, <3>3
        <4> QED
          BY <1>1, <1>2, <3>3, <4>1
      <3> QED
        BY <1>1, <3>2, <3>3
    <2>2. \A i, j \in 1..Len(arrived') : arrived'[i] = arrived'[j] => i = j
      <3>1. \A i, j \in 1..Len(arrived) : arrived[i] = arrived[j] => i = j
        BY DEF ClientInv, ArrivalInv
      <3>2. \A i \in 1..Len(arrived') : i \in 1..Len(arrived) \/ i = Len(arrived) + 1
        BY <1>2
      <3>3. \A i \in 1..Len(arrived) : arrived'[i] = arrived[i] /\ arrived[i] # c
        BY <1>2, <1>7
      <3> QED
        BY <1>2, <3>1, <3>2, <3>3
    <2>3. \A d \in Queued : at'[d] = "start" => d \notin Range(arrived')
      BY <1>2, <1>3, Kinds DEF ClientInv, ArrivalInv
    <2> QED
      BY <1>1, <1>2, <2>1, <2>2, <2>3 DEF ClientInv, ArrivalInv
  <1>13. AppliedInv'
    <2>1. Range(applied') \cap Range(writers') = Range(applied) \cap Range(writers)
      BY <1>1, <1>4, <1>7
    <2>2. \A d \in Queued \ {c} : at'[d] = at[d]
      BY <1>3, Kinds
    <2>3. writers # <<>> => writers'[1] = writers[1] /\ writers[1] \in Queued \ {c}
      BY <1>1, <1>7
    <2>4. writers = <<>> => Range(writers) = {} /\ writers'[1] = c
      BY <1>1
    <2>5. \A d \in Queued : at'[d] \in Leading \ {"finish"} =>
             Range(applied') \cap Range(writers') = {}
      BY <1>3, <2>1, <2>2, <2>4 DEF ClientInv, AppliedInv, Leading
    <2>6. at'[writers'[1]] = "parked" => Range(applied') \cap Range(writers') = {}
      BY <1>3, <2>1, <2>2, <2>3, <2>4 DEF ClientInv, AppliedInv
    <2>7. \A d \in Queued : at'[d] = "finish" =>
             Range(applied') \cap Range(writers') =
             IF status'[d] = "ok" THEN Range(group') ELSE {}
      BY <1>3, <1>4, <2>1, <2>2 DEF ClientInv, AppliedInv
    <2> QED
      BY <1>2, <1>4, <2>5, <2>6, <2>7 DEF ClientInv, AppliedInv
  <1>14. StatusInv'
    BY <1>3, <1>4, <1>5, <1>7, Kinds DEF ClientInv, StatusInv, HasAnswer
  <1>15. LogInv'
    BY <1>3, <1>4, <1>7, Kinds DEF ClientInv, LogInv, HasAnswer
  <1>16. OrderInv'
    <2> SUFFICES ASSUME NEW a \in 1..Len(arrived'), NEW b \in 1..Len(arrived'),
                        NEW i \in 1..Len(applied), NEW j \in 1..Len(applied),
                        a < b, arrived'[a] = applied[i], arrived'[b] = applied[j]
                 PROVE  i < j
      BY <1>4 DEF ClientInv, OrderInv
    <2>1. arrived'[a] # c /\ arrived'[b] # c
      BY <1>6, <1>7
    <2>2. a \in 1..Len(arrived) /\ b \in 1..Len(arrived)
      BY <1>2, <2>1
    <2> QED
      BY <1>2, <2>2 DEF ClientInv, OrderInv
  <1> QED
    BY <1>8, <1>9, <1>10, <1>11, <1>12, <1>13, <1>14, <1>15, <1>16 DEF ClientInv

\* The actions of a call that only change where it is, what it returns and
\* who has the mutex.
Moves(c) ==
    \/ /\ at[c] = "parked" /\ done[c]
       /\ at'[c] \in {"flush", "returned"} /\ (at'[c] = "flush" => c \in Flushes)
       /\ mutex' = mutex /\ status'[c] = status[c]
    \/ /\ at[c] = "parked" /\ ~done[c] /\ writers # <<>> /\ c = writers[1] /\ mutex = Free
       /\ at'[c] = "room" /\ mutex' = c /\ status'[c] = status[c]
    \/ /\ at[c] \in {"slow", "full"} /\ mutex = Free
       /\ at'[c] = "room" /\ mutex' = c /\ status'[c] = status[c]
    \/ /\ at[c] = "room" /\ mutex = c
       /\ at'[c] \in {"slow", "full"} /\ mutex' = Free /\ status'[c] = status[c]
    \/ /\ at[c] = "room" /\ mutex = c
       /\ at'[c] = "finish" /\ mutex' = c /\ status'[c] = "error"
    \/ /\ at[c] = "room" /\ mutex = c
       /\ at'[c] = (IF c \in Batches THEN "logging" ELSE "finish")
       /\ mutex' = c /\ status'[c] = "ok"
    \/ /\ at[c] = "flush" /\ at'[c] = "returned" /\ mutex' = mutex

LEMMA MovesStep ==
    ASSUME TypeOK, ClientInv, NEW c \in Queued, Moves(c),
           \A d \in Calls \ {c} : at'[d] = at[d] /\ status'[d] = status[d],
           UNCHANGED <<writers, done, group, last_writer, arrived, applied, log, durable,
                       mem, imm, tables>>
    PROVE  ClientInv'
  <1>1. /\ \A d \in Queued \ {c} : at'[d] = at[d] /\ status'[d] = status[d]
        /\ \A d \in Manuals \cup Closers : at'[d] = at[d] /\ status'[d] = status[d]
        /\ c # Free /\ c \notin Manuals \cup Closers
        /\ writers # <<>> => writers[1] \in Queued
    BY Kinds, MembersOfSeq DEF TypeOK
  <1>2. /\ \A d \in Queued : GroupIsOut(d) => at[d] \in Leading
        /\ at[c] # "start" /\ at'[c] # "start"
        /\ ~GroupIsOut(c)
    BY DEF Moves, GroupIsOut, Leading
  <1>3. \A d \in Queued : at[d] \in Leading => writers # <<>> /\ d = writers[1]
    BY DEF ClientInv, QueueInv
  <1>4. \A d \in Queued : mutex = d => at[d] \in Leading
    BY DEF ClientInv, MutexInv, Leading
  <1>5. \/ mutex' = mutex /\ at'[c] \notin Leading /\ at[c] \notin Leading
        \/ /\ mutex \in {Free, c} /\ mutex' \in {Free, c} /\ c = writers[1] /\ writers # <<>>
           /\ at[c] \in Leading \cup {"parked"} /\ at'[c] \in Leading
           /\ at'[c] # "inserting"
           /\ at'[c] \in {"logging", "finish"} => mutex' = c
           /\ \A d \in Queued \ {c} : at[d] \notin Leading
    BY <1>3 DEF Moves, Leading
  <1>6. /\ \A d \in Queued : GroupIsOut(d)' <=> GroupIsOut(d)
        /\ at'[c] \in Leading => group = <<>>
    BY <1>1, <1>2, <1>5 DEF GroupIsOut, Leading, ClientInv, GroupInv
  <1>7. QueueInv'
    <2>1. \A i \in 1..Len(writers) : writers[i] \in Queued
      BY MembersOfSeq DEF TypeOK
    <2>2. \A i \in 1..Len(writers) : writers[i] = c =>
             at'[c] \in Leading \cup {"parked"}
      BY <1>5 DEF ClientInv, QueueInv, Moves, Leading
    <2>3. \A i \in 1..Len(writers) :
             ~done[writers[i]] /\ at'[writers[i]] \in Leading \cup {"parked"}
      BY <1>1, <2>1, <2>2 DEF ClientInv, QueueInv
    <2>4. \A d \in Queued : at'[d] \in Leading => writers # <<>> /\ d = writers[1]
      BY <1>1, <1>3, <1>5
    <2>5. at'[c] # "parked"
      BY DEF Moves
    <2>6. \A d \in Queued : at'[d] = "parked" => done[d] \/ d \in Range(writers)
      BY <1>1, <2>5 DEF ClientInv, QueueInv
    <2>7. \A d \in Queued : at'[d] = "start" => ~done[d]
      BY <1>1, <1>2 DEF ClientInv, QueueInv
    <2> QED
      BY <2>3, <2>4, <2>6, <2>7 DEF ClientInv, QueueInv
  <1>8. MutexInv'
    <2>1. mutex' \in Queued \cup {Free}
      BY <1>5 DEF ClientInv, MutexInv
    <2>2. at'[c] = "room" => mutex' = c
      BY DEF Moves
    <2>3. mutex' = c => at'[c] \in {"room", "logging", "finish"}
      BY <1>1, <1>4 DEF Moves, Leading, ClientInv, MutexInv
    <2>4. \A d \in Queued \ {c} : (at'[d] = "room" => mutex' = d)
                                  /\ (mutex' = d => at'[d] \in {"room", "logging", "finish"})
      BY <1>1, <1>5, Kinds DEF ClientInv, MutexInv, Leading
    <2> QED
      BY <2>1, <2>2, <2>3, <2>4 DEF MutexInv
  <1>9. PlacesInv'
    BY <1>1 DEF ClientInv, PlacesInv, Moves, Leading
  <1>10. GroupInv'
    BY <1>6 DEF ClientInv, GroupInv
  <1>11. ArrivalInv'
    BY <1>1, <1>2 DEF ClientInv, ArrivalInv
  <1>12. at'[c] = "finish" => group = <<>> /\ Range(group) = {}
    <2>1. group = <<>> => Range(group) = {}
      BY DEF Range
    <2> QED
      BY <1>6, <2>1 DEF Leading
  <1>13. AppliedInv'
    <2>1. at'[c] \in Leading => Range(applied) \cap Range(writers) = {}
      BY <1>5 DEF ClientInv, AppliedInv, Moves, Leading
    <2>2. at'[c] = "finish" => Range(applied) \cap Range(writers) = {} /\ Range(group) = {}
      BY <1>12, <2>1 DEF Leading
    <2>3. \A d \in Queued : at'[d] \in Leading \ {"finish"} =>
             Range(applied) \cap Range(writers) = {}
      BY <1>1, <2>1 DEF ClientInv, AppliedInv
    <2>4. (writers # <<>> /\ at'[writers[1]] = "parked") => Range(applied) \cap Range(writers) = {}
      <3>1. at'[c] # "parked"
        BY DEF Moves
      <3> QED
        BY <1>1, <3>1 DEF ClientInv, AppliedInv
    <2>5. \A d \in Queued \ {c} : at'[d] = "finish" =>
             Range(applied) \cap Range(writers) = IF status'[d] = "ok" THEN Range(group) ELSE {}
      BY <1>1 DEF ClientInv, AppliedInv
    <2>6. \A d \in Queued : at'[d] = "finish" =>
             Range(applied) \cap Range(writers) = IF status'[d] = "ok" THEN Range(group) ELSE {}
      BY <2>2, <2>5
    <2> QED
      BY <2>3, <2>4, <2>6 DEF ClientInv, AppliedInv
  <1>14. \A d \in Batches : HasAnswer(d)' => HasAnswer(d) /\ status'[d] = status[d]
    <2>1. c \in Batches => at[c] # "flush"
      BY Kinds DEF ClientInv, PlacesInv
    <2>2. c \in Batches /\ HasAnswer(c)' => HasAnswer(c) /\ status'[c] = status[c]
      BY <2>1 DEF Moves, HasAnswer
    <2> QED
      BY <1>1, <2>2, Kinds DEF HasAnswer
  <1>15. StatusInv'
    <2>1. /\ at'[c] \in {"logging", "inserting"} => status'[c] = "ok"
          /\ at'[c] = "finish" => status'[c] \in {"ok", "error"}
          /\ c \in Batches /\ at'[c] = "finish" => status'[c] = "error"
      BY DEF Moves
    <2>2. \A d \in Batches : at'[d] = "finish" /\ status'[d] = "ok" => GroupIsOut(d)'
      BY <1>1, <1>6, <2>1, Kinds DEF ClientInv, StatusInv
    <2>3. \A d \in Queued : /\ at'[d] \in {"logging", "inserting"} => status'[d] = "ok"
                            /\ at'[d] = "finish" => status'[d] \in {"ok", "error", "sync_error"}
      BY <1>1, <2>1 DEF ClientInv, StatusInv
    <2>4. \A d \in Batches : HasAnswer(d)' =>
             /\ status'[d] = "ok" => d \in Range(applied)
             /\ status'[d] = "error" => d \notin Range(applied)
      BY <1>14 DEF ClientInv, StatusInv
    <2> QED
      BY <2>2, <2>3, <2>4 DEF StatusInv
  <1>16. LogInv'
    <2>1. at'[c] # "inserting"
      BY DEF Moves
    <2>2. \A d \in Queued : at'[d] = "inserting" => Range(group) \subseteq Range(log)
      BY <1>1, <2>1 DEF ClientInv, LogInv
    <2>3. \A d \in Queued : at'[d] = "inserting" \/ (at'[d] = "finish" /\ status'[d] = "ok")
             => Range(group) \cap SyncWrites \subseteq durable
      BY <1>1, <1>12, <2>1 DEF ClientInv, LogInv
    <2>4. \A d \in SyncWrites : HasAnswer(d)' /\ status'[d] = "ok" => d \in durable
      BY <1>14, Kinds DEF ClientInv, LogInv
    <2> QED
      BY <2>2, <2>3, <2>4 DEF ClientInv, LogInv
  <1>17. OrderInv'
    <2>1. OrderInv
      BY DEF ClientInv
    <2> QED
      BY <2>1 DEF OrderInv
  <1> QED
    BY <1>7, <1>8, <1>9, <1>10, <1>11, <1>13, <1>15, <1>16, <1>17 DEF ClientInv

\* The actions that only move what memtables, tables and log hold: nothing
\* applied is lost, and the log covers the memtable and a group under way.
LEMMA DataStep ==
    ASSUME TypeOK, ClientInv,
           UNCHANGED <<at, status, mutex, writers, done, group, last_writer, arrived, applied>>,
           Range(mem) \cup Range(imm) \cup tables
             \subseteq Range(mem') \cup Range(imm') \cup tables',
           durable \subseteq durable', Range(mem') \subseteq Range(log'),
           \A c \in Queued : at[c] = "inserting" => Range(log) \subseteq Range(log')
    PROVE  ClientInv'
  <1>1. QueueInv' /\ MutexInv' /\ PlacesInv' /\ ArrivalInv' /\ OrderInv'
    BY DEF ClientInv, QueueInv, MutexInv, PlacesInv, ArrivalInv, OrderInv
  <1>2. GroupInv' /\ StatusInv'
    BY DEF ClientInv, GroupInv, GroupIsOut, StatusInv, HasAnswer
  <1>3. AppliedInv'
    BY DEF ClientInv, AppliedInv
  <1>4. LogInv'
    BY DEF ClientInv, LogInv, HasAnswer
  <1> QED
    BY <1>1, <1>2, <1>3, <1>4 DEF ClientInv

\* The actions of calls that never join writers_.
LEMMA OutsideStep ==
    ASSUME TypeOK, ClientInv, NEW c \in Manuals \cup Closers,
           \A d \in Calls \ {c} : at'[d] = at[d] /\ status'[d] = status[d],
           c \in Manuals => at'[c] \in {"start", "manual", "drain", "returned"},
           c \in Closers => at'[c] \in {"start", "close", "returned"},
           UNCHANGED <<mutex, writers, done, group, last_writer, arrived, applied, log,
                       durable, mem, imm, tables>>
    PROVE  ClientInv'
  <1>1. /\ \A d \in Queued : at'[d] = at[d] /\ status'[d] = status[d]
        /\ \A d \in Batches : at'[d] = at[d] /\ status'[d] = status[d]
        /\ \A d \in SyncWrites : at'[d] = at[d] /\ status'[d] = status[d]
        /\ \A d \in Manuals \cup Closers : d # c => at'[d] = at[d]
        /\ \A i \in 1..Len(writers) : writers[i] \in Queued
        /\ writers # <<>> => writers[1] \in Queued
    <2>1. c \in Calls /\ c \notin Queued
      BY Kinds
    <2>2. /\ \A i \in 1..Len(writers) : writers[i] \in Queued
          /\ writers # <<>> => writers[1] \in Queued
      BY MembersOfSeq DEF TypeOK
    <2> QED
      BY <2>1, <2>2, Kinds
  <1>2. PlacesInv'
    BY <1>1, Kinds DEF ClientInv, PlacesInv
  <1>3. QueueInv' /\ MutexInv' /\ ArrivalInv' /\ OrderInv'
    <2>1. QueueInv'
      BY <1>1 DEF ClientInv, QueueInv
    <2>2. MutexInv'
      BY <1>1 DEF ClientInv, MutexInv
    <2>3. ArrivalInv' /\ OrderInv'
      BY <1>1 DEF ClientInv, ArrivalInv, OrderInv
    <2> QED
      BY <2>1, <2>2, <2>3
  <1>4. GroupInv'
    <2>1. GroupInv /\ \A d \in Queued : GroupIsOut(d)' <=> GroupIsOut(d)
      BY <1>1 DEF ClientInv, GroupIsOut
    <2> QED
      BY <2>1 DEF GroupInv
  <1>5. StatusInv'
    BY <1>1, Kinds DEF ClientInv, StatusInv, HasAnswer, GroupIsOut
  <1>6. AppliedInv'
    BY <1>1 DEF ClientInv, AppliedInv
  <1>7. LogInv'
    BY <1>1 DEF ClientInv, LogInv, HasAnswer
  <1> QED
    BY <1>2, <1>3, <1>4, <1>5, <1>6, <1>7 DEF ClientInv

\* From RoomFound on the head alone works on the group.
LEMMA BuildBatchGroupStep ==
    ASSUME TypeOK, ClientInv, NEW c \in Queued, BuildBatchGroup(c)
    PROVE  ClientInv'
  <1>1. /\ at[c] = "logging" /\ mutex = c /\ mutex' = Free /\ c \in Batches
        /\ UNCHANGED <<at, status, writers, done, arrived, applied, log, durable, mem, imm, tables>>
    BY DEF BuildBatchGroup, dataVars, historyVars, ClientInv, PlacesInv
  <1>2. /\ writers # <<>> /\ c = writers[1]
        /\ \A d \in Queued : d # c => at[d] \notin Leading /\ ~GroupIsOut(d)
    BY <1>1, OneLeader DEF Leading
  <1>3. /\ GroupIsOut(c)' /\ \A d \in Queued : d # c => ~GroupIsOut(d)'
        /\ c # Free
    BY <1>1, <1>2, Kinds DEF GroupIsOut, Leading
  <1> DEFINE n == GroupLength(c)
  <1>4. /\ n \in 1..Len(writers)
        /\ c \notin SyncWrites => \A i \in 2..n : writers[i] \notin SyncWrites
        /\ last_writer' = writers[n] /\ group' = BatchesAmong(n)
    BY <1>2, GroupLengthInQueue DEF BuildBatchGroup, TypeOK
  <1> HIDE DEF n
  <1>5. /\ Range(group') = Batches \cap {writers[i] : i \in 1..n}
        /\ \A k, l \in 1..Len(group'), i, j \in 1..Len(writers) :
              k < l /\ writers[i] = group'[k] /\ writers[j] = group'[l] => i < j
    <2>1. /\ writers \in Seq(Queued)
          /\ \A i, j \in 1..Len(writers) : writers[i] = writers[j] => i = j
      BY DEF TypeOK, ClientInv, QueueInv
    <2> DEFINE g == BatchesAmong(n)
    <2>2. /\ Range(g) = Batches \cap {writers[i] : i \in 1..n}
          /\ \A k, l \in 1..Len(g), i, j \in 1..Len(writers) :
                k < l /\ writers[i] = g[k] /\ writers[j] = g[l] => i < j
      BY <1>4, <2>1, GroupOfWriters
    <2>3. group' = g
      BY <1>4
    <2> HIDE DEF g
    <2> QED
      BY <2>2, <2>3
  <1>6. c \in SyncWrites \/ \A i \in 1..n : writers[i] \notin SyncWrites
    BY <1>2, <1>4
  <1>7. GroupInv'
    <2>1. \A d \in Queued : GroupIsOut(d)' =>
             \E m \in 1..Len(writers) :
                /\ last_writer' = writers[m]
                /\ Range(group') = Batches \cap {writers[i] : i \in 1..m}
                /\ d \in SyncWrites \/ \A i \in 1..m : writers[i] \notin SyncWrites
                /\ d \in Batches
      BY <1>1, <1>3, <1>4, <1>5, <1>6
    <2>2. (\A d \in Queued : ~GroupIsOut(d)') => group' = <<>>
      BY <1>3
    <2>3. writers' = writers
      BY <1>1
    <2> QED
      BY <1>5, <2>1, <2>2, <2>3 DEF GroupInv
  <1>8. QueueInv' /\ PlacesInv' /\ ArrivalInv' /\ OrderInv'
    BY <1>1 DEF ClientInv, QueueInv, PlacesInv, ArrivalInv, OrderInv
  <1>9. MutexInv'
    BY <1>1, <1>2, <1>3, Kinds DEF MutexInv, Leading
  <1>10. \A d \in Queued : at[d] # "inserting" /\ at[d] # "finish"
    BY <1>1, <1>2 DEF Leading
  <1>11. AppliedInv'
    BY <1>1, <1>10 DEF ClientInv, AppliedInv
  <1>12. StatusInv'
    BY <1>1, <1>10, Kinds DEF ClientInv, StatusInv, HasAnswer
  <1>13. LogInv'
    BY <1>1, <1>10 DEF ClientInv, LogInv, HasAnswer
  <1> QED
    BY <1>7, <1>8, <1>9, <1>11, <1>12, <1>13 DEF ClientInv

LEMMA AddRecordStep ==
    ASSUME TypeOK, ClientInv, NEW c \in Queued, AddRecord(c)
    PROVE  ClientInv'
  <1>1. /\ at[c] = "logging" /\ mutex # c
        /\ UNCHANGED <<mutex, writers, done, group, last_writer, arrived, applied, mem, imm, tables>>
    BY DEF AddRecord, queueVars, historyVars
  <1>2. /\ writers # <<>> /\ c = writers[1] /\ mutex = Free
        /\ \A d \in Queued : d # c => at[d] \notin Leading /\ ~GroupIsOut(d)
    BY <1>1, OneLeader DEF Leading
  <1>3. GroupIsOut(c) /\ c \in Batches /\ c # Free
    BY <1>1, Kinds DEF GroupIsOut, ClientInv, PlacesInv
  <1>4. PICK n \in 1..Len(writers) :
           /\ last_writer = writers[n]
           /\ Range(group) = Batches \cap {writers[i] : i \in 1..n}
           /\ c \in SyncWrites \/ \A i \in 1..n : writers[i] \notin SyncWrites
    BY <1>3 DEF ClientInv, GroupInv
  <1>5. /\ log \in Seq(Batches) /\ group \in Seq(Batches)
        /\ Range(log \o group) = Range(log) \cup Range(group)
    BY MembersOfConcat DEF TypeOK
  <1>6. \/ /\ at'[c] = "inserting" /\ status'[c] = status[c]
           /\ Range(log') = Range(log) \cup Range(group)
           /\ durable \subseteq durable' /\ Range(group) \cap SyncWrites \subseteq durable'
        \/ /\ at'[c] = "finish" /\ status'[c] \in {"error", "sync_error"}
           /\ durable' = durable /\ Range(log) \subseteq Range(log')
    <2>1. c \notin SyncWrites => Range(group) \cap SyncWrites = {}
      BY <1>4
    <2>2. c \in Calls /\ at \in [Calls -> Places] /\ status \in [Calls -> Results]
      BY Kinds DEF TypeOK
    <2> QED
      BY <1>5, <2>1, <2>2 DEF AddRecord, Goto
  <1>7. \A d \in Calls \ {c} : at'[d] = at[d] /\ status'[d] = status[d]
    BY DEF AddRecord, Goto, TypeOK
  <1>8. \A d \in Queued \ {c} : at'[d] = at[d] /\ status'[d] = status[d]
    BY <1>7, Kinds
  <1>9. GroupIsOut(c)' /\ \A d \in Queued \ {c} : ~GroupIsOut(d)'
    BY <1>1, <1>2, <1>3, <1>6, <1>8 DEF GroupIsOut
  <1>10. QueueInv'
    <2>1. \A i \in 1..Len(writers) : writers[i] \in Queued
      BY MembersOfSeq DEF TypeOK
    <2> QED
      BY <1>1, <1>2, <1>6, <1>8, <2>1 DEF ClientInv, QueueInv, Leading
  <1>11. MutexInv'
    BY <1>1, <1>2, <1>3, <1>6, <1>8, Kinds DEF ClientInv, MutexInv
  <1>12. PlacesInv'
    BY <1>3, <1>6, <1>7, <1>8, Kinds DEF ClientInv, PlacesInv, Leading
  <1>13. GroupInv'
    BY <1>1, <1>3, <1>4, <1>9 DEF ClientInv, GroupInv
  <1>14. ArrivalInv'
    BY <1>1, <1>6, <1>8 DEF ClientInv, ArrivalInv
  <1>15. AppliedInv'
    <2>1. Range(applied) \cap Range(writers) = {}
      BY <1>1 DEF ClientInv, AppliedInv, Leading
    <2>2. \A d \in Queued : at'[d] = "finish" => d = c /\ status'[d] # "ok"
      BY <1>2, <1>6, <1>8 DEF Leading
    <2> QED
      BY <1>1, <2>1, <2>2 DEF ClientInv, AppliedInv
  <1>16. StatusInv'
    <2>1. status[c] = "ok"
      BY <1>1 DEF ClientInv, StatusInv
    <2>2. \A d \in Batches : HasAnswer(d)' => HasAnswer(d) /\ status'[d] = status[d]
      BY <1>1, <1>6, <1>8, Kinds DEF HasAnswer
    <2>3. \A d \in Queued \ {c} : at'[d] \notin {"logging", "inserting", "finish"}
      BY <1>2, <1>8 DEF Leading
    <2>4. /\ at'[c] \in {"logging", "inserting"} => status'[c] = "ok"
          /\ at'[c] = "finish" => status'[c] \in {"error", "sync_error"}
      BY <1>6, <2>1
    <2>5. \A d \in Batches : HasAnswer(d)' =>
             /\ status'[d] = "ok" => d \in Range(applied')
             /\ status'[d] = "error" => d \notin Range(applied')
      BY <1>1, <2>2 DEF ClientInv, StatusInv
    <2>6. \A d \in Batches : at'[d] = "finish" /\ status'[d] = "ok" => GroupIsOut(d)'
      BY <2>3, <2>4, Kinds
    <2> QED
      BY <2>3, <2>4, <2>5, <2>6 DEF StatusInv
  <1>17. LogInv'
    <2>1. \A d \in SyncWrites : HasAnswer(d)' => HasAnswer(d) /\ status'[d] = status[d]
      BY <1>1, <1>6, <1>8, Kinds DEF HasAnswer
    <2>2. \A d \in Queued \ {c} : at'[d] # "inserting" /\ at'[d] # "finish"
      BY <1>2, <1>8 DEF Leading
    <2>3. durable \subseteq durable' /\ Range(log) \subseteq Range(log')
      BY <1>6
    <2>4. \A d \in Queued : at'[d] = "inserting" => Range(group) \subseteq Range(log')
      BY <1>6, <2>2
    <2>5. \A d \in Queued : at'[d] = "inserting" \/ (at'[d] = "finish" /\ status'[d] = "ok")
             => Range(group) \cap SyncWrites \subseteq durable'
      BY <1>6, <2>2
    <2> QED
      BY <1>1, <2>1, <2>3, <2>4, <2>5 DEF ClientInv, LogInv
  <1>18. OrderInv'
    BY <1>1 DEF ClientInv, OrderInv
  <1> QED
    BY <1>10, <1>11, <1>12, <1>13, <1>14, <1>15, <1>16, <1>17, <1>18 DEF ClientInv

LEMMA InsertIntoStep ==
    ASSUME TypeOK, ClientInv, NEW c \in Queued, InsertInto(c)
    PROVE  ClientInv'
  <1>1. /\ at[c] = "inserting"
        /\ UNCHANGED <<status, mutex, writers, done, group, last_writer, arrived, log, durable,
                       imm, tables>>
    BY DEF InsertInto, queueVars
  <1>2. /\ writers # <<>> /\ c = writers[1] /\ mutex \in {Free, c}
        /\ \A d \in Queued : d # c => at[d] \notin Leading /\ ~GroupIsOut(d)
    BY <1>1, OneLeader DEF Leading
  <1>3. GroupIsOut(c) /\ c \in Batches /\ c # Free /\ mutex = Free
    BY <1>1, <1>2, Kinds DEF GroupIsOut, ClientInv, PlacesInv, MutexInv
  <1>4. /\ applied' \in Seq(Batches) /\ Len(applied') = Len(applied) + Len(group)
        /\ Len(applied) \in Nat /\ Len(group) \in Nat
        /\ \A i \in 1..Len(applied) : applied'[i] = applied[i]
        /\ \A i \in 1..Len(group) : applied'[Len(applied) + i] = group[i]
        /\ Range(applied') = Range(applied) \cup Range(group)
        /\ Range(mem') = Range(mem) \cup Range(group)
    BY MembersOfConcat DEF InsertInto, TypeOK
  <1>5. /\ at'[c] = "finish" /\ \A d \in Calls \ {c} : at'[d] = at[d]
    BY Kinds DEF InsertInto, Goto, TypeOK
  <1>6. \A d \in Queued \ {c} : at'[d] = at[d]
    BY <1>5, Kinds
  <1>7. GroupIsOut(c)' /\ \A d \in Queued \ {c} : ~GroupIsOut(d)'
    BY <1>1, <1>2, <1>3, <1>5, <1>6 DEF GroupIsOut
  <1>8. /\ Range(applied) \cap Range(writers) = {} /\ status[c] = "ok"
        /\ Range(group) \subseteq Range(writers)
    BY <1>1, GroupInQueue DEF ClientInv, AppliedInv, StatusInv, Leading
  <1>9. /\ Range(applied) = {applied[i] : i \in 1..Len(applied)}
        /\ Range(group) = {group[i] : i \in 1..Len(group)}
        /\ Range(writers) = {writers[i] : i \in 1..Len(writers)} /\ Len(writers) \in Nat
        /\ \A i \in 1..Len(writers) : writers[i] \in Queued
        /\ Range(arrived) = {arrived[i] : i \in 1..Len(arrived)} /\ Len(arrived) \in Nat
    BY MembersOfSeq DEF TypeOK
  <1> DEFINE off == Len(arrived) - Len(writers)
  <1>10. /\ off \in Nat
         /\ \A i \in 1..Len(writers) : off + i \in 1..Len(arrived) /\ arrived[off + i] = writers[i]
         /\ \A a \in 1..Len(arrived) : a > off =>
               a - off \in 1..Len(writers) /\ arrived[a] = writers[a - off]
         /\ \A a, b \in 1..Len(arrived) : arrived[a] = arrived[b] => a = b
    <2>1. Len(writers) <= Len(arrived)
      BY DEF ClientInv, ArrivalInv
    <2>2. off \in Nat
      BY <1>9, <2>1
    <2>3. \A i \in 1..Len(writers) : off + i \in 1..Len(arrived) /\ arrived[off + i] = writers[i]
      BY <1>9, <2>2 DEF ClientInv, ArrivalInv
    <2>4. \A a \in 1..Len(arrived) : a > off => a - off \in 1..Len(writers) /\ off + (a - off) = a
      BY <1>9, <2>2
    <2> QED
      BY <2>2, <2>3, <2>4 DEF ClientInv, ArrivalInv
  <1> HIDE DEF off
  <1>11. QueueInv'
    BY <1>1, <1>2, <1>5, <1>6, <1>9 DEF ClientInv, QueueInv, Leading
  <1>12. MutexInv'
    BY <1>1, <1>2, <1>3, <1>5, <1>6, Kinds DEF ClientInv, MutexInv
  <1>13. PlacesInv'
    BY <1>3, <1>5, <1>6, Kinds DEF ClientInv, PlacesInv, Leading
  <1>14. GroupInv'
    <2>1. \A d \in Queued : GroupIsOut(d)' =>
             \E n \in 1..Len(writers) :
                /\ last_writer = writers[n]
                /\ Range(group) = Batches \cap {writers[i] : i \in 1..n}
                /\ d \in SyncWrites \/ \A i \in 1..n : writers[i] \notin SyncWrites
                /\ d \in Batches
      BY <1>3, <1>7 DEF ClientInv, GroupInv
    <2>2. (\A d \in Queued : ~GroupIsOut(d)') => group = <<>>
      BY <1>7
    <2>3. \A k, l \in 1..Len(group), i, j \in 1..Len(writers) :
             k < l /\ writers[i] = group[k] /\ writers[j] = group[l] => i < j
      BY DEF ClientInv, GroupInv
    <2> QED
      BY <1>1, <2>1, <2>2, <2>3 DEF GroupInv
  <1>15. ArrivalInv'
    BY <1>1, <1>5, <1>6 DEF ClientInv, ArrivalInv
  <1>16. AppliedInv'
    <2>1. Range(applied') \cap Range(writers) = Range(group)
      BY <1>4, <1>8
    <2>2. Range(writers) \subseteq Range(arrived)
      BY <1>9, <1>10
    <2>3. /\ Range(applied') \subseteq Range(arrived)
          /\ Range(applied') \subseteq Range(mem') \cup Range(imm) \cup tables
      BY <1>4, <1>8, <2>2 DEF ClientInv, AppliedInv
    <2>4. \A d \in Queued \ {c} : at'[d] \notin Leading
      BY <1>2, <1>6
    <2> QED
      BY <1>1, <1>2, <1>5, <1>8, <2>1, <2>3, <2>4 DEF AppliedInv, Leading
  <1>17. \A d \in Batches : HasAnswer(d)' =>
            HasAnswer(d) /\ (d \in Range(applied') <=> d \in Range(applied))
    <2>1. \A d \in Batches : HasAnswer(d)' => HasAnswer(d) /\ d # c
      BY <1>1, <1>5, <1>6, Kinds DEF HasAnswer
    <2>2. \A d \in Batches : HasAnswer(d) => d \notin Range(writers)
      BY <1>9, Kinds DEF HasAnswer, ClientInv, QueueInv, Leading
    <2> QED
      BY <1>4, <1>8, <2>1, <2>2
  <1>18. StatusInv'
    <2>1. \A d \in Queued \ {c} : at'[d] \notin {"logging", "inserting", "finish"}
      BY <1>2, <1>6 DEF Leading
    <2>2. \A d \in Batches : at'[d] = "finish" /\ status'[d] = "ok" => GroupIsOut(d)'
      BY <1>7, <2>1, Kinds
    <2>3. \A d \in Batches : HasAnswer(d)' =>
             /\ status'[d] = "ok" => d \in Range(applied')
             /\ status'[d] = "error" => d \notin Range(applied')
      BY <1>1, <1>17 DEF ClientInv, StatusInv
    <2> QED
      BY <1>1, <1>5, <1>8, <2>1, <2>2, <2>3 DEF StatusInv
  <1>19. LogInv'
    <2>1. Range(group) \subseteq Range(log) /\ Range(group) \cap SyncWrites \subseteq durable
      BY <1>1 DEF ClientInv, LogInv
    <2>2. \A d \in Queued : at'[d] # "inserting"
      BY <1>2, <1>5, <1>6 DEF Leading
    <2>3. \A d \in SyncWrites : HasAnswer(d)' /\ status'[d] = "ok" => d \in durable
      BY <1>1, <1>17, Kinds DEF ClientInv, LogInv
    <2>4. Range(mem') \subseteq Range(log)
      BY <1>4, <2>1 DEF ClientInv, LogInv
    <2> QED
      BY <1>1, <2>1, <2>2, <2>3, <2>4 DEF LogInv
  <1>20. OrderInv'
    <2>1. \A i \in 1..Len(applied') : \/ i \in 1..Len(applied)
                                      \/ /\ i > Len(applied) /\ i - Len(applied) \in 1..Len(group)
                                         /\ applied'[i] = group[i - Len(applied)]
      <3> TAKE i \in 1..Len(applied')
      <3>1. i \in 1..Len(applied) \/ (i > Len(applied) /\ i - Len(applied) \in 1..Len(group)
                                      /\ Len(applied) + (i - Len(applied)) = i)
        BY <1>4
      <3> QED
        BY <1>4, <3>1
    <2>2. \A a \in 1..Len(arrived), i \in 1..Len(applied') : arrived[a] = applied'[i] =>
             (i <= Len(applied) <=> a <= off)
      <3> TAKE a \in 1..Len(arrived), i \in 1..Len(applied')
      <3> HAVE arrived[a] = applied'[i]
      <3>1. CASE i \in 1..Len(applied)
        <4>1. arrived[a] \in Range(applied)
          BY <1>4, <1>9, <3>1
        <4>2. arrived[a] \notin Range(writers)
          BY <1>8, <4>1
        <4>3. ~(a > off)
          <5>1. a > off => writers[a - off] \in Range(writers) /\ arrived[a] = writers[a - off]
            BY <1>9, <1>10
          <5> QED
            BY <4>2, <5>1
        <4> QED
          BY <1>4, <1>9, <1>10, <3>1, <4>3
      <3>2. CASE i \notin 1..Len(applied)
        <4>1. arrived[a] \in Range(group) /\ i > Len(applied)
          BY <1>9, <2>1, <3>2
        <4>2. PICK x \in 1..Len(writers) : arrived[a] = writers[x]
          BY <1>8, <1>9, <4>1
        <4>3. a = off + x
          BY <1>10, <4>2
        <4> QED
          BY <1>4, <1>9, <1>10, <4>1, <4>3
      <3> QED
        BY <3>1, <3>2
    <2>3. ASSUME NEW a \in 1..Len(arrived), NEW b \in 1..Len(arrived), a < b,
                 NEW i \in 1..Len(applied'), NEW j \in 1..Len(applied'),
                 arrived[a] = applied'[i], arrived[b] = applied'[j]
          PROVE  i < j
      <3>1. CASE b <= off
        <4>1. a <= off
          BY <1>10, <2>3, <3>1
        <4>2. i \in 1..Len(applied) /\ j \in 1..Len(applied)
          BY <1>4, <2>2, <2>3, <3>1, <4>1
        <4> QED
          BY <1>4, <2>3, <4>2 DEF ClientInv, OrderInv
      <3>2. CASE a <= off /\ b > off
        <4>1. i <= Len(applied) /\ ~(j <= Len(applied))
          BY <1>10, <2>2, <2>3, <3>2
        <4> QED
          BY <1>4, <4>1
      <3>3. CASE a > off /\ b > off
        <4>1. ~(i <= Len(applied)) /\ ~(j <= Len(applied))
          BY <1>10, <2>2, <2>3, <3>3
        <4> DEFINE k == i - Len(applied)
                   l == j - Len(applied)
        <4>2. /\ k \in 1..Len(group) /\ l \in 1..Len(group)
              /\ group[k] = arrived[a] /\ group[l] = arrived[b]
          BY <1>4, <2>1, <2>3, <4>1
        <4>3. /\ a - off \in 1..Len(writers) /\ b - off \in 1..Len(writers)
              /\ writers[a - off] = group[k] /\ writers[b - off] = group[l]
          BY <1>10, <3>3, <4>2
        <4>4. ~(l < k)
          <5>1. l < k => b - off < a - off
            BY <4>2, <4>3 DEF ClientInv, GroupInv
          <5> QED
            BY <1>10, <2>3, <5>1
        <4>5. k # l
          BY <1>10, <2>3, <4>2
        <4> QED
          BY <1>4, <4>4, <4>5
      <3> QED
        BY <1>10, <2>3, <3>1, <3>2, <3>3
    <2>4. \A i, j \in 1..Len(applied') : applied'[i] = applied'[j] => i = j
      <3> SUFFICES ASSUME NEW i \in 1..Len(applied'), NEW j \in 1..Len(applied'),
                          applied'[i] = applied'[j]
                   PROVE  i = j
        OBVIOUS
      <3>1. PICK a \in 1..Len(arrived) : arrived[a] = applied'[i]
        <4>1. Range(applied') = {applied'[x] : x \in 1..Len(applied')}
          BY <1>4, MembersOfSeq
        <4>2. applied'[i] \in Range(arrived)
          BY <1>16, <4>1, <1>1 DEF AppliedInv
        <4> QED
          BY <1>9, <4>2
      <3>2. i <= Len(applied) <=> j <= Len(applied)
        BY <2>2, <3>1
      <3>3. CASE i \in 1..Len(applied)
        <4>1. j \in 1..Len(applied)
          BY <1>4, <3>2, <3>3
        <4> QED
          BY <1>4, <3>3, <4>1 DEF ClientInv, OrderInv
      <3>4. CASE i \notin 1..Len(applied)
        <4> DEFINE k == i - Len(applied)
                   l == j - Len(applied)
        <4>1. k \in 1..Len(group) /\ l \in 1..Len(group) /\ group[k] = arrived[a] /\ group[l] = arrived[a]
          BY <1>4, <2>1, <3>1, <3>2, <3>4
        <4>2. a - off \in 1..Len(writers) /\ writers[a - off] = group[k]
          <5>1. a > off
            BY <1>4, <1>10, <2>2, <3>1, <3>4
          <5> QED
            BY <1>10, <4>1, <5>1
        <4>3. \A p, q \in 1..Len(group), x \in 1..Len(writers) :
                 p < q /\ writers[x] = group[p] /\ writers[x] = group[q] => x < x
          BY DEF ClientInv, GroupInv
        <4>4. \A x \in 1..Len(writers) : ~(x < x)
          BY <1>9
        <4>5. ~(k < l) /\ ~(l < k)
          BY <4>1, <4>2, <4>3, <4>4
        <4> QED
          BY <1>4, <4>1, <4>5
      <3> QED
        BY <3>3, <3>4
    <2> QED
      BY <1>1, <2>3, <2>4 DEF OrderInv
  <1> QED
    BY <1>11, <1>12, <1>13, <1>14, <1>15, <1>16, <1>18, <1>19, <1>20 DEF ClientInv

\* What FinishWrite answers: the head and, if its group is out, the writers
\* up to last_writer, of which the group is the batches.
FinishedWriters ==
    IF group = <<>> THEN 1 ELSE CHOOSE i \in 1..Len(writers) : writers[i] = last_writer

LEMMA FinishAnswers ==
    ASSUME TypeOK, ClientInv, NEW c \in Queued, at[c] = "finish"
    PROVE  /\ FinishedWriters \in 1..Len(writers)
           /\ \A b \in Batches, i \in 1..FinishedWriters : b = writers[i] =>
                 /\ status[c] = "ok" => b \in Range(applied)
                 /\ status[c] # "ok" => b \notin Range(applied)
                 /\ status[c] = "ok" /\ b \in SyncWrites => b \in durable
           /\ \A b \in Range(applied), i \in 1..Len(writers) : b = writers[i] =>
                 i \in 1..FinishedWriters
  <1>1. /\ writers # <<>> /\ c = writers[1] /\ Len(writers) \in Nat \ {0}
        /\ \A d \in Queued : d # c => ~GroupIsOut(d)
    BY OneLeader DEF Leading
  <1>2. /\ Range(writers) = {writers[i] : i \in 1..Len(writers)}
        /\ group = <<>> => Range(group) = {}
    BY MembersOfSeq DEF TypeOK, Range
  <1>3. Range(applied) \cap Range(writers) = IF status[c] = "ok" THEN Range(group) ELSE {}
    BY DEF ClientInv, AppliedInv
  <1>4. \A i, j \in 1..Len(writers) : writers[i] = writers[j] => i = j
    BY DEF ClientInv, QueueInv
  <1>5. CASE group = <<>>
    <2>1. FinishedWriters = 1
      BY <1>5 DEF FinishedWriters
    <2>2. ~GroupIsOut(c)
      <3> SUFFICES ASSUME GroupIsOut(c) PROVE FALSE
        OBVIOUS
      <3>1. PICK m \in 1..Len(writers) : Range(group) = Batches \cap {writers[i] : i \in 1..m}
        BY DEF ClientInv, GroupInv
      <3>2. c \in Batches
        BY DEF ClientInv, GroupInv
      <3>3. 1 \in 1..m
        BY <1>1
      <3> QED
        BY <1>1, <1>2, <1>5, <3>1, <3>2, <3>3
    <2>3. c \in Batches => status[c] # "ok"
      BY <2>2 DEF ClientInv, StatusInv
    <2>4. \A i \in 1..1 : i = 1
      OBVIOUS
    <2>5. 1 \in 1..Len(writers)
      BY <1>1
    <2>6. \A b \in Range(applied), i \in 1..Len(writers) : b # writers[i]
      BY <1>2, <1>3, <1>5
    <2>7. \A b \in Batches : b = writers[1] => status[c] # "ok" /\ b \notin Range(applied)
      BY <1>1, <2>3, <2>5, <2>6
    <2> QED
      BY <2>1, <2>4, <2>5, <2>6, <2>7
  <1>6. CASE group # <<>>
    <2>1. GroupIsOut(c)
      BY <1>1, <1>6 DEF ClientInv, GroupInv
    <2>2. PICK m \in 1..Len(writers) :
             last_writer = writers[m] /\ Range(group) = Batches \cap {writers[i] : i \in 1..m}
      BY <2>1 DEF ClientInv, GroupInv
    <2>3. FinishedWriters = m
      BY <1>4, <1>6, <2>2 DEF FinishedWriters
    <2>4. \A i \in 1..m : i \in 1..Len(writers)
      BY <1>1
    <2>5. ASSUME NEW b \in Batches, NEW i \in 1..m, b = writers[i]
          PROVE  /\ status[c] = "ok" => b \in Range(applied)
                 /\ status[c] # "ok" => b \notin Range(applied)
                 /\ status[c] = "ok" /\ b \in SyncWrites => b \in durable
      <3>1. b \in Range(group) /\ b \in Range(writers)
        BY <1>2, <2>2, <2>4, <2>5
      <3>2. status[c] = "ok" => Range(group) \cap SyncWrites \subseteq durable
        BY DEF ClientInv, LogInv
      <3> QED
        BY <1>3, <3>1, <3>2
    <2>6. ASSUME NEW b \in Range(applied), NEW i \in 1..Len(writers), b = writers[i]
          PROVE  i \in 1..m
      <3>1. b \in Range(group)
        BY <1>2, <1>3, <2>6
      <3>2. PICK j \in 1..m : b = writers[j]
        BY <2>2, <3>1
      <3> QED
        BY <1>4, <2>4, <2>6, <3>2
    <2> QED
      BY <2>2, <2>3, <2>5, <2>6
  <1> QED
    BY <1>5, <1>6

LEMMA FinishWriteStep ==
    ASSUME TypeOK, ClientInv, NEW c \in Queued, FinishWrite(c)
    PROVE  ClientInv'
  <1> DEFINE n == FinishedWriters
             s == IF status[c] = "ok" THEN "ok" ELSE "error"
             answered == {writers[i] : i \in 1..n}
  <1>1. /\ at[c] = "finish"
        /\ writers' = SubSeq(writers, n + 1, Len(writers))
        /\ status' = [w \in Calls |-> IF w \in answered THEN s ELSE status[w]]
        /\ done' = [w \in Queued |-> done[w] \/ w \in answered \ {c}]
        /\ group' = <<>> /\ last_writer' = NoCall /\ mutex' = Free
        /\ at' = [at EXCEPT ![c] = AfterWrite(c, s)]
        /\ UNCHANGED <<arrived, applied, log, durable, mem, imm, tables>>
    BY DEF FinishWrite, FinishedWriters, Goto, dataVars, historyVars
  <1>2. /\ writers # <<>> /\ c = writers[1] /\ Len(writers) \in Nat \ {0}
        /\ \A d \in Queued : d # c => at[d] \notin Leading
    BY <1>1, OneLeader DEF Leading
  <1>3. /\ n \in 1..Len(writers)
        /\ \A b \in Batches, i \in 1..n : b = writers[i] =>
              /\ status[c] = "ok" => b \in Range(applied)
              /\ status[c] # "ok" => b \notin Range(applied)
              /\ status[c] = "ok" /\ b \in SyncWrites => b \in durable
        /\ \A b \in Range(applied), i \in 1..Len(writers) : b = writers[i] => i \in 1..n
    BY <1>1, FinishAnswers
  <1>4. /\ \A i \in 1..Len(writers) : writers[i] \in Queued
        /\ Range(writers) = {writers[i] : i \in 1..Len(writers)}
        /\ \A i, j \in 1..Len(writers) : writers[i] = writers[j] => i = j
    BY MembersOfSeq DEF TypeOK, ClientInv, QueueInv
  <1>5. /\ at'[c] \in {"flush", "returned"} /\ (at'[c] = "flush" => c \in Flushes)
        /\ \A d \in Calls \ {c} : at'[d] = at[d]
    BY <1>1, Kinds DEF AfterWrite, TypeOK
  <1>6. \A d \in Queued \ {c} : at'[d] = at[d]
    BY <1>5, Kinds
  <1>7. c \in answered
    BY <1>2, <1>3
  <1> HIDE DEF n
  <1>8. /\ writers' \in Seq(Queued) /\ Len(writers') = Len(writers) - n
        /\ \A i \in 1..Len(writers') : n + i \in 1..Len(writers) /\ writers'[i] = writers[n + i]
    <2>1. n + 1 \in Int /\ Len(writers) \in Int
      BY <1>2, <1>3
    <2>2. \A i \in (n + 1)..Len(writers) : writers[i] \in Queued
      BY <1>3, <1>4
    <2> DEFINE u == SubSeq(writers, n + 1, Len(writers))
    <2>3. /\ u \in Seq(Queued)
          /\ Len(u) = IF n + 1 <= Len(writers) THEN Len(writers) - (n + 1) + 1 ELSE 0
          /\ \A i \in 1..(Len(writers) - (n + 1) + 1) : u[i] = writers[(n + 1) + i - 1]
      BY <2>1, <2>2, SubSeqProperties
    <2> HIDE DEF u
    <2>4. Len(u) = Len(writers) - n /\ Len(writers) - (n + 1) + 1 = Len(writers) - n
      BY <1>2, <1>3, <2>3
    <2>5. \A i \in 1..(Len(writers) - n) :
             n + i \in 1..Len(writers) /\ (n + 1) + i - 1 = n + i
      BY <1>2, <1>3
    <2>6. writers' = u
      BY <1>1 DEF u
    <2> QED
      BY <2>3, <2>4, <2>5, <2>6
  <1>9. \A i \in 1..Len(writers') : writers'[i] \notin answered /\ writers'[i] \in Queued \ {c}
    <2> TAKE i \in 1..Len(writers')
    <2>1. n + i \in 1..Len(writers) /\ writers'[i] = writers[n + i] /\ ~(n + i \in 1..n)
      BY <1>3, <1>8
    <2>2. \A j \in 1..n : j \in 1..Len(writers)
      BY <1>3
    <2> QED
      BY <1>4, <1>7, <2>1, <2>2
  <1>10. Range(writers') = {writers'[i] : i \in 1..Len(writers')} /\ Len(writers') \in Nat
    BY <1>8, MembersOfSeq
  <1>11. \A d \in Queued : at'[d] \notin Leading
    BY <1>2, <1>5, <1>6 DEF Leading
  <1>12. \A d \in Queued : ~GroupIsOut(d)'
    BY <1>11 DEF GroupIsOut, Leading
  <1>13. QueueInv'
    <2>1. \A i, j \in 1..Len(writers') : writers'[i] = writers'[j] => i = j
      <3> TAKE i, j \in 1..Len(writers')
      <3> HAVE writers'[i] = writers'[j]
      <3>1. n + i = n + j
        BY <1>4, <1>8
      <3> QED
        BY <1>3, <3>1
    <2>2. \A i \in 1..Len(writers') :
             ~done'[writers'[i]] /\ at'[writers'[i]] \in Leading \cup {"parked"}
      <3> TAKE i \in 1..Len(writers')
      <3> DEFINE w == writers[n + i]
      <3>1. w = writers'[i] /\ w \notin answered /\ w \in Queued \ {c}
        BY <1>8, <1>9
      <3>2. ~done[w] /\ at[w] \in Leading \cup {"parked"}
        BY <1>8 DEF ClientInv, QueueInv
      <3> HIDE DEF w
      <3>3. ~done'[w] /\ at'[w] \in Leading \cup {"parked"}
        BY <1>1, <1>6, <3>1, <3>2
      <3> QED
        BY <3>1, <3>3
    <2>3. \A d \in Queued : at'[d] = "parked" => done'[d] \/ d \in Range(writers')
      <3> SUFFICES ASSUME NEW d \in Queued, at'[d] = "parked", ~done'[d]
                   PROVE  d \in Range(writers')
        OBVIOUS
      <3>1. d # c /\ at[d] = "parked" /\ ~done[d] /\ d \notin answered
        BY <1>1, <1>5, <1>6
      <3>2. PICK i \in 1..Len(writers) : d = writers[i]
        BY <1>4, <3>1 DEF ClientInv, QueueInv
      <3>3. ~(i \in 1..n)
        BY <3>1, <3>2
      <3>4. i - n \in 1..Len(writers') /\ n + (i - n) = i
        BY <1>2, <1>3, <1>8, <3>3
      <3> QED
        BY <1>8, <1>10, <3>2, <3>4
    <2>4. \A d \in Queued : at'[d] = "start" => ~done'[d]
      <3> SUFFICES ASSUME NEW d \in Queued, at'[d] = "start" PROVE ~done'[d]
        OBVIOUS
      <3>1. d # c /\ at[d] = "start"
        BY <1>5, <1>6
      <3>2. d \notin answered
        <4>1. \A i \in 1..n : i \in 1..Len(writers)
          BY <1>3
        <4> QED
          BY <3>1, <4>1 DEF ClientInv, QueueInv, Leading
      <3> QED
        BY <1>1, <3>1, <3>2 DEF ClientInv, QueueInv
    <2> QED
      BY <1>11, <2>1, <2>2, <2>3, <2>4 DEF QueueInv
  <1>14. MutexInv'
    BY <1>1, <1>11, Kinds DEF MutexInv, Leading
  <1>15. PlacesInv'
    BY <1>5, <1>6, Kinds DEF ClientInv, PlacesInv, Leading
  <1>16. GroupInv'
    <2>1. Len(group') = 0 /\ group' = <<>>
      BY <1>1
    <2>2. \A k \in 1..Len(group') : FALSE
      BY <2>1
    <2> QED
      BY <1>12, <2>1, <2>2 DEF GroupInv
  <1>17. ArrivalInv'
    <2>1. /\ Len(writers) <= Len(arrived) /\ Len(arrived) \in Nat
          /\ \A i \in 1..Len(writers) : writers[i] = arrived[Len(arrived) - Len(writers) + i]
      BY MembersOfSeq DEF ClientInv, ArrivalInv, TypeOK
    <2>2. \A i \in 1..Len(writers') : writers'[i] = arrived[Len(arrived) - Len(writers') + i]
      <3> TAKE i \in 1..Len(writers')
      <3>1. Len(arrived) - Len(writers) + (n + i) = Len(arrived) - Len(writers') + i
        BY <1>2, <1>3, <1>8, <2>1
      <3>2. n + i \in 1..Len(writers) /\ writers'[i] = writers[n + i]
        BY <1>8
      <3> QED
        BY <2>1, <3>1, <3>2
    <2>3. Len(writers') <= Len(arrived)
      BY <1>2, <1>3, <1>8, <2>1
    <2>4. \A d \in Queued : at'[d] = "start" => d \notin Range(arrived)
      BY <1>5, <1>6 DEF ClientInv, ArrivalInv
    <2> QED
      BY <1>1, <2>2, <2>3, <2>4 DEF ClientInv, ArrivalInv
  <1>18. AppliedInv'
    <2>1. ASSUME NEW b \in Range(applied), b \in Range(writers') PROVE FALSE
      <3>1. PICK i \in 1..Len(writers') : b = writers'[i]
        BY <1>10, <2>1
      <3>2. n + i \in 1..Len(writers) /\ b = writers[n + i] /\ ~(n + i \in 1..n)
        BY <1>3, <1>8, <3>1
      <3> QED
        BY <1>3, <3>2
    <2>2. Range(applied) \cap Range(writers') = {}
      BY <2>1
    <2> QED
      BY <1>1, <1>11, <2>2 DEF ClientInv, AppliedInv, Leading
  <1>19. ASSUME NEW b \in Batches, HasAnswer(b)'
         PROVE  \/ /\ HasAnswer(b) /\ status'[b] = status[b]
                \/ /\ status[c] = "ok" => status'[b] = "ok" /\ b \in Range(applied)
                   /\ status[c] # "ok" => status'[b] = "error" /\ b \notin Range(applied)
                   /\ status[c] = "ok" /\ b \in SyncWrites => b \in durable
    <2>1. b \in Queued /\ b \in Calls
      BY Kinds
    <2>2. CASE b \in answered
      <3>1. PICK i \in 1..n : b = writers[i]
        BY <2>2
      <3>2. status'[b] = s
        BY <1>1, <2>1, <2>2
      <3> QED
        BY <1>3, <3>1, <3>2
    <2>3. CASE b \notin answered
      <3>1. b # c /\ at'[b] = at[b] /\ status'[b] = status[b] /\ done'[b] = done[b]
        BY <1>1, <1>6, <1>7, <2>1, <2>3 DEF TypeOK
      <3> QED
        BY <1>19, <3>1 DEF HasAnswer
    <2> QED
      BY <2>2, <2>3
  <1>20. StatusInv'
    <2>1. \A b \in Batches : HasAnswer(b)' =>
             /\ status'[b] = "ok" => b \in Range(applied)
             /\ status'[b] = "error" => b \notin Range(applied)
      BY <1>19 DEF ClientInv, StatusInv
    <2>2. \A b \in Batches : b \in Queued
      BY Kinds
    <2> QED
      BY <1>1, <1>11, <2>1, <2>2 DEF StatusInv, Leading
  <1>21. LogInv'
    <2>1. \A b \in SyncWrites : HasAnswer(b)' /\ status'[b] = "ok" => b \in durable
      BY <1>19, Kinds DEF ClientInv, LogInv
    <2> QED
      BY <1>1, <1>11, <2>1 DEF ClientInv, LogInv, Leading
  <1>22. OrderInv'
    BY <1>1 DEF ClientInv, OrderInv
  <1> QED
    BY <1>13, <1>14, <1>15, <1>16, <1>17, <1>18, <1>20, <1>21, <1>22 DEF ClientInv

\* RoomSwitch moves mem_ to imm_ and starts a new log: no group is under way,
\* since its head still makes room.
LEMMA RoomSwitchStep ==
    ASSUME TypeOK, ClientInv, NEW c \in Queued, at[c] = "room", RoomSwitch(c)
    PROVE  ClientInv'
  <1>1. /\ UNCHANGED <<at, status, mutex, writers, done, group, last_writer, arrived, applied,
                       durable, tables>>
        /\ log' = <<>> /\ mem' = <<>> /\ imm' = mem /\ imm = <<>>
    BY DEF RoomSwitch, historyVars, TypeOK
  <1>2. \A d \in Queued : at[d] # "inserting"
    BY OneLeader DEF Leading
  <1>3. Range(mem') = {} /\ Range(imm) = {}
    BY <1>1 DEF Range
  <1>4. Range(mem') \subseteq Range(log')
    BY <1>3
  <1>5. Range(mem) \cup Range(imm) \cup tables \subseteq Range(mem') \cup Range(imm') \cup tables'
    BY <1>1, <1>3
  <1>6. durable \subseteq durable' /\ \A d \in Queued : at[d] = "inserting" => Range(log) \subseteq Range(log')
    BY <1>1, <1>2
  <1> QED
    BY <1>1, <1>4, <1>5, <1>6, DataStep

\* The background thread only moves what it flushes to the tables.
LEMMA BackgroundFootprint ==
    ASSUME Background
    PROVE  /\ UNCHANGED <<at, status, mutex, writers, done, group, last_writer, arrived, applied,
                          log, mem, shutting_down>>
           /\ Range(imm) \cup tables \subseteq Range(imm') \cup tables'
           /\ durable \subseteq durable'
  <1> USE DEF clientVars, queueVars, historyVars, dataVars
  <1>1. CASE StartBackground
    BY <1>1 DEF StartBackground
  <1>2. CASE EndFlush
    BY <1>2 DEF EndFlush, FlushSucceeds, FlushFails
  <1>3. CASE EndClean
    BY <1>3 DEF EndClean
  <1>4. CASE StartWorkFlush
    BY <1>4 DEF StartWorkFlush
  <1>5. CASE EndWorkFlush
    BY <1>5 DEF EndWorkFlush, FlushSucceeds, FlushFails
  <1>6. CASE EndWorkClean
    BY <1>6 DEF EndWorkClean
  <1>7. CASE EndMove
    BY <1>7 DEF EndMove
  <1>8. CASE CompactionInstalled
    BY <1>8 DEF CompactionInstalled
  <1>9. CASE EndWork
    BY <1>9 DEF EndWork
  <1>10. CASE CompactionFails
    BY <1>10 DEF CompactionFails
  <1> QED
    BY <1>1, <1>2, <1>3, <1>4, <1>5, <1>6, <1>7, <1>8, <1>9, <1>10 DEF Background

\* The actions of a queued call that Moves describes.
LEMMA QueueMoves ==
    ASSUME TypeOK, ClientInv, NEW c \in Queued,
           \/ Wake(c) /\ at'[c] # "parked"
           \/ at[c] = "room" /\ mutex = c
              /\ (RoomError(c) \/ RoomDelay(c) \/ RoomFound(c) \/ RoomWait(c) \/ RoomNoLogFile(c))
           \/ BackToRoom(c)
           \/ WaitForFlush(c) /\ at'[c] # "flush"
    PROVE  ClientInv'
  <1> USE DEF Goto, queueVars, dataVars, historyVars
  <1>1. /\ at \in [Calls -> Places] /\ status \in [Calls -> Results] /\ c \in Calls
        /\ at[c] = "parked" /\ ~done[c] => writers # <<>>
    <2>1. /\ at \in [Calls -> Places] /\ status \in [Calls -> Results] /\ c \in Calls
      BY Kinds DEF TypeOK
    <2>2. writers = <<>> => Range(writers) = {}
      BY DEF Range
    <2> QED
      BY <2>1, <2>2 DEF ClientInv, QueueInv
  <1>2. UNCHANGED <<writers, done, group, last_writer, arrived, applied, log, durable, mem, imm,
                    tables>>
    BY DEF Wake, RoomError, RoomDelay, RoomFound, RoomWait, RoomNoLogFile, BackToRoom, WaitForFlush
  <1>3. \A d \in Calls \ {c} : at'[d] = at[d] /\ status'[d] = status[d]
    BY <1>1 DEF Wake, RoomError, RoomDelay, RoomFound, RoomWait, RoomNoLogFile, BackToRoom,
                WaitForFlush
  <1>4. Moves(c)
    <2>1. CASE Wake(c) /\ at'[c] # "parked"
      <3>1. writers # <<>> => Head(writers) = writers[1]
        BY DEF TypeOK
      <3> QED
        BY <1>1, <2>1, <3>1 DEF Wake, AfterWrite, Moves
    <2>2. CASE at[c] = "room" /\ mutex = c /\ (RoomError(c) \/ RoomNoLogFile(c))
      BY <1>1, <2>2 DEF RoomError, RoomNoLogFile, Moves
    <2>3. CASE at[c] = "room" /\ mutex = c /\ (RoomDelay(c) \/ RoomWait(c))
      BY <1>1, <2>3 DEF RoomDelay, RoomWait, Moves
    <2>4. CASE at[c] = "room" /\ mutex = c /\ RoomFound(c)
      BY <1>1, <2>4 DEF RoomFound, Moves
    <2>5. CASE BackToRoom(c)
      BY <1>1, <2>5 DEF BackToRoom, Moves
    <2>6. CASE WaitForFlush(c) /\ at'[c] # "flush"
      BY <1>1, <2>6 DEF WaitForFlush, Moves
    <2> QED
      BY <2>1, <2>2, <2>3, <2>4, <2>5, <2>6
  <1> QED
    BY <1>2, <1>3, <1>4, MovesStep

\* Nothing of ClientInv changes.
LEMMA UnchangedStep ==
    ASSUME TypeOK, ClientInv,
           UNCHANGED <<at, status, mutex, writers, done, group, last_writer, arrived, applied,
                       log, durable, mem, imm, tables>>
    PROVE  ClientInv'
  <1>1. Range(mem) \subseteq Range(log)
    BY DEF ClientInv, LogInv
  <1> QED
    BY <1>1, DataStep

LEMMA ClientInvStep ==
    ASSUME TypeOK, ClientInv, [Next]_vars
    PROVE  ClientInv'
  <1> USE DEF Goto, queueVars, dataVars, bgVars, historyVars
  <1>1. ASSUME NEW c \in Calls, Begin(c)
        PROVE  ClientInv'
    <2>1. CASE c \in Queued /\ Enqueue(c)
      BY <2>1, EnqueueStep
    <2>2. CASE c \in Manuals /\ BeginManual(c)
      <3>1. c \in Manuals \cup Closers /\ c \notin Closers /\ at'[c] = "manual"
        BY <2>2, Kinds DEF BeginManual, TypeOK
      <3>2. \A d \in Calls \ {c} : at'[d] = at[d] /\ status'[d] = status[d]
        BY <2>2 DEF BeginManual, TypeOK
      <3>3. UNCHANGED <<mutex, writers, done, group, last_writer, arrived, applied, log,
                        durable, mem, imm, tables>>
        BY <2>2 DEF BeginManual
      <3> QED
        BY <3>1, <3>2, <3>3, OutsideStep
    <2>3. CASE c \in Closers /\ BeginClose(c)
      <3>1. c \in Manuals \cup Closers /\ c \notin Manuals /\ at'[c] = "close"
        BY <2>3, Kinds DEF BeginClose, TypeOK
      <3>2. \A d \in Calls \ {c} : at'[d] = at[d] /\ status'[d] = status[d]
        BY <2>3 DEF BeginClose, TypeOK
      <3>3. UNCHANGED <<mutex, writers, done, group, last_writer, arrived, applied, log,
                        durable, mem, imm, tables>>
        BY <2>3 DEF BeginClose
      <3> QED
        BY <3>1, <3>2, <3>3, OutsideStep
    <2> QED
      BY <1>1, <2>1, <2>2, <2>3 DEF Begin
  <1>2. ASSUME NEW c \in Queued, QueueStep(c)
        PROVE  ClientInv'
    <2>1. CASE Wake(c)
      <3>1. CASE at'[c] # "parked"
        BY <2>1, <3>1, QueueMoves
      <3>2. CASE at'[c] = "parked"
        <4>1. UNCHANGED <<at, status, mutex, writers, done, group, last_writer, arrived, applied,
                          log, durable, mem, imm, tables>>
          BY <2>1, <3>2, Kinds DEF Wake, AfterWrite, TypeOK
        <4> QED
          BY <4>1, UnchangedStep
      <3> QED
        BY <3>1, <3>2
    <2>2. CASE MakeRoomForWrite(c)
      BY <2>2, QueueMoves, RoomSwitchStep DEF MakeRoomForWrite
    <2>3. CASE BackToRoom(c)
      BY <2>3, QueueMoves
    <2> QED
      BY <1>2, <2>1, <2>2, <2>3, BuildBatchGroupStep, AddRecordStep, InsertIntoStep,
         FinishWriteStep DEF QueueStep
  <1>3. ASSUME NEW c \in Flushes, WaitForFlush(c)
        PROVE  ClientInv'
    <2>1. c \in Queued
      BY Kinds
    <2>2. CASE at'[c] # "flush"
      BY <1>3, <2>1, <2>2, QueueMoves
    <2>3. CASE at'[c] = "flush"
      <3>1. UNCHANGED <<at, status, mutex, writers, done, group, last_writer, arrived, applied,
                        log, durable, mem, imm, tables>>
        BY <1>3, <2>1, <2>3, Kinds DEF WaitForFlush, TypeOK
      <3> QED
        BY <3>1, UnchangedStep
    <2> QED
      BY <2>2, <2>3
  <1>4. ASSUME NEW c \in Manuals, RequestManual(c) \/ DrainManual(c)
        PROVE  ClientInv'
    <2>1. c \in Manuals \cup Closers /\ c \notin Closers /\ c \in Calls
      BY Kinds
    <2>2. at'[c] \in {"start", "manual", "drain", "returned"}
      BY <1>4, <2>1 DEF RequestManual, DrainManual, TypeOK
    <2>3. \A d \in Calls \ {c} : at'[d] = at[d] /\ status'[d] = status[d]
      BY <1>4, <2>1 DEF RequestManual, DrainManual, TypeOK
    <2>4. UNCHANGED <<mutex, writers, done, group, last_writer, arrived, applied, log,
                      durable, mem, imm, tables>>
      BY <1>4 DEF RequestManual, DrainManual
    <2> QED
      BY <2>1, <2>2, <2>3, <2>4, OutsideStep
  <1>5. ASSUME NEW c \in Closers, EndClose(c)
        PROVE  ClientInv'
    <2>1. c \in Manuals \cup Closers /\ c \notin Manuals /\ c \in Calls
      BY Kinds
    <2>2. at'[c] \in {"start", "close", "returned"}
      BY <1>5, <2>1 DEF EndClose, TypeOK
    <2>3. \A d \in Calls \ {c} : at'[d] = at[d] /\ status'[d] = status[d]
      BY <1>5, <2>1 DEF EndClose, TypeOK
    <2>4. UNCHANGED <<mutex, writers, done, group, last_writer, arrived, applied, log,
                      durable, mem, imm, tables>>
      BY <1>5 DEF EndClose
    <2> QED
      BY <2>1, <2>2, <2>3, <2>4, OutsideStep
  <1>6. ASSUME NEW c \in Calls, SpuriousWakeup(c)
        PROVE  ClientInv'
    BY <1>6, UnchangedStep DEF SpuriousWakeup
  <1>7. CASE Background
    <2>1. Range(mem) \subseteq Range(log)
      BY DEF ClientInv, LogInv
    <2> QED
      BY <1>7, <2>1, BackgroundFootprint, DataStep
  <1>8. CASE UNCHANGED vars
    BY <1>8, UnchangedStep DEF vars
  <1> QED
    BY <1>1, <1>2, <1>3, <1>4, <1>5, <1>6, <1>7, <1>8 DEF Next, CallStep, Quiet

-----------------------------------------------------------------------------
(* Type correctness.                                                       *)

\* What a new group has the type of.
LEMMA BuildBatchGroupTypes ==
    ASSUME TypeOK, ClientInv, NEW c \in Queued, BuildBatchGroup(c)
    PROVE  group' \in Seq(Batches) /\ last_writer' \in Queued
  <1>1. /\ writers # <<>> /\ writers \in Seq(Queued)
        /\ \A i, j \in 1..Len(writers) : writers[i] = writers[j] => i = j
    BY OneLeader DEF BuildBatchGroup, Leading, TypeOK, ClientInv, QueueInv
  <1>2. GroupLength(c) \in 1..Len(writers)
    BY <1>1, GroupLengthInQueue
  <1> QED
    BY <1>1, <1>2, GroupOfWriters, MembersOfSeq DEF BuildBatchGroup

LEMMA MaybeScheduleTypes ==
    ASSUME NEW busy \in BOOLEAN, NEW error, NEW immutable, NEW request, NEW files,
           bg \in BackgroundPlaces,
           MaybeScheduleCompaction(busy, error, immutable, request, files)
    PROVE  scheduled' \in BOOLEAN /\ bg' \in BackgroundPlaces
  BY DEF MaybeScheduleCompaction, BackgroundPlaces

LEMMA FailTypes ==
    ASSUME TypeOK, Fail
    PROVE  failures' \in 0..MaxFailures
  BY ParametersAssumption DEF Fail, TypeOK

LEMMA GotoTypes ==
    ASSUME TypeOK
    PROVE  \A c \in Calls, place \in Places, r \in Results :
              /\ [at EXCEPT ![c] = place] \in [Calls -> Places]
              /\ [status EXCEPT ![c] = r] \in [Calls -> Results]
  BY DEF TypeOK

LEMMA PlaceNames ==
    /\ {"parked", "room", "finish", "inserting", "flush", "manual", "drain", "close", "returned"}
         \subseteq Places
    /\ {"ok", "error", "sync_error"} \subseteq Results
  BY DEF Places, Results

LEMMA QueueStepTypes ==
    ASSUME TypeOK, ClientInv, NEW c \in Queued, QueueStep(c) \/ Enqueue(c)
    PROVE  TypeOK'
  <1> USE DEF Goto, queueVars, dataVars, bgVars, historyVars
  <1>0. c \in Calls
    BY Kinds
  <1>1. CASE Enqueue(c)
    <2>1. writers' \in Seq(Queued) /\ arrived' \in Seq(Queued)
      BY <1>1, MembersOfAppend DEF Enqueue, TypeOK
    <2>2. at' \in [Calls -> Places] /\ mutex' \in Calls \cup {Free} /\ parked' \subseteq Queued
      <3>1. CASE writers = <<>>
        <4>1. at' = [at EXCEPT ![c] = "room"] /\ mutex' = c /\ parked' = parked
          BY <1>1, <3>1 DEF Enqueue
        <4> QED
          BY <1>0, <4>1, GotoTypes, PlaceNames DEF TypeOK
      <3>2. CASE writers # <<>>
        <4>1. at' = [at EXCEPT ![c] = "parked"] /\ mutex' = mutex /\ parked' = parked \cup {c}
          BY <1>1, <3>2 DEF Enqueue
        <4> QED
          BY <1>0, <4>1, GotoTypes, PlaceNames DEF TypeOK
      <3> QED
        BY <3>1, <3>2
    <2>3. force' \in [Queued -> BOOLEAN] /\ allow_delay' \in [Queued -> BOOLEAN]
      BY <1>1 DEF Enqueue, TypeOK
    <2> QED
      BY <1>1, <2>1, <2>2, <2>3 DEF Enqueue, TypeOK
  <1>2. CASE Wake(c)
    <2>1. at' \in [Calls -> Places] /\ mutex' \in Calls \cup {Free} /\ parked' \subseteq Queued
      <3>1. CASE done[c]
        <4>1. /\ at' = [at EXCEPT ![c] = AfterWrite(c, status[c])]
              /\ mutex' = mutex /\ parked' = parked
          BY <1>2, <3>1 DEF Wake
        <4>2. AfterWrite(c, status[c]) \in {"flush", "returned"}
          BY DEF AfterWrite
        <4> QED
          BY <1>0, <4>1, <4>2, GotoTypes, PlaceNames DEF TypeOK
      <3>2. CASE ~done[c] /\ c = Head(writers)
        <4>1. at' = [at EXCEPT ![c] = "room"] /\ mutex' = c /\ parked' = parked
          BY <1>2, <3>2 DEF Wake
        <4> QED
          BY <1>0, <4>1, GotoTypes, PlaceNames DEF TypeOK
      <3>3. CASE ~done[c] /\ c # Head(writers)
        BY <1>2, <3>3 DEF Wake, TypeOK
      <3> QED
        BY <3>1, <3>2, <3>3
    <2> QED
      BY <1>2, <2>1 DEF Wake, TypeOK
  <1>3. CASE RoomError(c)
    BY <1>3 DEF RoomError, TypeOK, Places, Results
  <1>4. CASE RoomDelay(c)
    BY <1>4 DEF RoomDelay, TypeOK, Places
  <1>5. CASE RoomFound(c)
    BY <1>5 DEF RoomFound, TypeOK, Places, Results
  <1>6. CASE RoomWait(c)
    BY <1>0, <1>6 DEF RoomWait, TypeOK, Places
  <1>7. CASE RoomNoLogFile(c)
    <2>1. failures' \in 0..MaxFailures
      BY <1>7, FailTypes DEF RoomNoLogFile
    <2> QED
      BY <1>7, <2>1 DEF RoomNoLogFile, TypeOK, Places, Results
  <1>8. CASE RoomSwitch(c)
    <2>1. scheduled' \in BOOLEAN /\ bg' \in BackgroundPlaces
      BY <1>8, MaybeScheduleTypes DEF RoomSwitch, TypeOK
    <2>2. bg_error' \in BOOLEAN /\ waiters' \subseteq Calls /\ failures' \in 0..MaxFailures
      <3>1. CASE UNCHANGED <<bg_error, waiters, failures>>
        BY <3>1 DEF TypeOK
      <3>2. CASE Fail /\ RecordBackgroundError(waiters)
        BY <3>2, FailTypes DEF RecordBackgroundError, TypeOK
      <3> QED
        BY <1>8, <3>1, <3>2 DEF RoomSwitch
    <2>3. log' \in Seq(Batches) /\ mem' \in Seq(Batches) /\ imm' \in Seq(Batches)
      BY <1>8 DEF RoomSwitch, TypeOK
    <2> QED
      BY <1>8, <2>1, <2>2, <2>3 DEF RoomSwitch, TypeOK
  <1>9. CASE BackToRoom(c)
    BY <1>0, <1>9 DEF BackToRoom, TypeOK, Places
  <1>10. CASE BuildBatchGroup(c)
    <2>1. group' \in Seq(Batches) /\ last_writer' \in Queued
      BY <1>10, BuildBatchGroupTypes
    <2> QED
      BY <1>10, <2>1 DEF BuildBatchGroup, TypeOK
  <1>11. CASE AddRecord(c)
    <2>1. log \o group \in Seq(Batches)
      BY MembersOfConcat DEF TypeOK
    <2>2. log' \in Seq(Batches)
      BY <1>11, <2>1 DEF AddRecord, TypeOK
    <2>3. durable' \subseteq Batches
      <3>1. Range(log') \subseteq Batches
        BY <2>2, MembersOfSeq
      <3> QED
        BY <1>11, <3>1 DEF AddRecord, TypeOK
    <2>4. at' \in [Calls -> Places] /\ status' \in [Calls -> Results]
      <3>1. /\ \/ at' = [at EXCEPT ![c] = "inserting"] \/ at' = [at EXCEPT ![c] = "finish"]
            /\ \/ status' = status
               \/ \E r \in {"error", "sync_error"} : status' = [status EXCEPT ![c] = r]
        BY <1>11 DEF AddRecord
      <3>2. at' \in [Calls -> Places]
        BY <1>0, <3>1, GotoTypes, PlaceNames
      <3>3. status' \in [Calls -> Results]
        <4>1. status \in [Calls -> Results]
          BY DEF TypeOK
        <4> QED
          BY <1>0, <3>1, <4>1, PlaceNames
      <3> QED
        BY <3>2, <3>3
    <2>5. failures' \in 0..MaxFailures
      <3>1. UNCHANGED failures \/ Fail
        BY <1>11 DEF AddRecord
      <3> QED
        BY <3>1, FailTypes DEF TypeOK
    <2> QED
      BY <1>11, <2>2, <2>3, <2>4, <2>5 DEF AddRecord, TypeOK
  <1>12. CASE InsertInto(c)
    <2>1. mem' \in Seq(Batches) /\ applied' \in Seq(Batches)
      BY <1>12, MembersOfConcat DEF InsertInto, TypeOK
    <2> QED
      BY <1>12, <2>1 DEF InsertInto, TypeOK, Places
  <1>13. CASE FinishWrite(c)
    <2> DEFINE n == FinishedWriters
               s == IF status[c] = "ok" THEN "ok" ELSE "error"
               answered == {writers[i] : i \in 1..n}
    <2>1. n \in 1..Len(writers)
      BY <1>13, FinishAnswers DEF FinishWrite
    <2>2. writers' = SubSeq(writers, n + 1, Len(writers))
      BY <1>13 DEF FinishWrite, FinishedWriters
    <2>3. writers' \in Seq(Queued)
      BY <2>1, <2>2 DEF TypeOK
    <2>4. /\ status' = [w \in Calls |-> IF w \in answered THEN s ELSE status[w]]
          /\ done' = [w \in Queued |-> done[w] \/ w \in answered \ {c}]
          /\ at' = [at EXCEPT ![c] = AfterWrite(c, s)]
          /\ parked' \subseteq parked
          /\ bg_error' \in BOOLEAN /\ waiters' \subseteq waiters
          /\ group' = <<>> /\ last_writer' = NoCall /\ mutex' = Free
          /\ UNCHANGED <<failures, allow_delay, force, dataVars, shutting_down, scheduled,
                         manual, manual_done, rounds, bg, is_manual, historyVars>>
      <3>1. bg_error' \in BOOLEAN /\ waiters' \subseteq waiters
        BY <1>13 DEF FinishWrite, RecordBackgroundError, TypeOK
      <3> QED
        BY <1>13, <3>1 DEF FinishWrite, FinishedWriters
    <2> HIDE DEF n, answered
    <2>5. at' \in [Calls -> Places] /\ status' \in [Calls -> Results] /\ done' \in [Queued -> BOOLEAN]
      BY <2>4 DEF TypeOK, Places, Results, AfterWrite
    <2> QED
      BY <2>3, <2>4, <2>5 DEF TypeOK
  <1> QED
    BY <1>1, <1>2, <1>3, <1>4, <1>5, <1>6, <1>7, <1>8, <1>9, <1>10, <1>11, <1>12, <1>13
       DEF QueueStep, MakeRoomForWrite

LEMMA OutsideTypes ==
    ASSUME TypeOK, NEW c \in Calls,
           \/ c \in Manuals /\ (BeginManual(c) \/ RequestManual(c) \/ DrainManual(c))
           \/ c \in Closers /\ (BeginClose(c) \/ EndClose(c))
           \/ c \in Flushes /\ WaitForFlush(c)
           \/ SpuriousWakeup(c)
    PROVE  TypeOK'
  <1> USE DEF Goto, queueVars, dataVars, bgVars, historyVars
  <1>1. CASE c \in Manuals /\ BeginManual(c)
    BY <1>1 DEF BeginManual, TypeOK, Places
  <1>2. CASE c \in Manuals /\ RequestManual(c)
    <2>1. scheduled' \in BOOLEAN /\ bg' \in BackgroundPlaces
      BY <1>2, MaybeScheduleTypes DEF RequestManual, TypeOK
    <2> QED
      BY <1>2, <2>1 DEF RequestManual, TypeOK
  <1>3. CASE c \in Manuals /\ DrainManual(c)
    <2>1. /\ at' \in [Calls -> Places] /\ status' \in [Calls -> Results]
          /\ waiters' \subseteq Calls /\ manual' \in Manuals \cup {NoCall}
      <3>1. CASE scheduled
        <4>1. /\ at' = [at EXCEPT ![c] = "drain"] /\ status' = status
              /\ waiters' = waiters \cup {c} /\ manual' = manual
          BY <1>3, <3>1 DEF DrainManual
        <4> QED
          BY <4>1, GotoTypes, PlaceNames DEF TypeOK
      <3>2. CASE ~scheduled
        <4>1. /\ at' = [at EXCEPT ![c] = "returned"] /\ status' = [status EXCEPT ![c] = "ok"]
              /\ waiters' = waiters /\ manual' \in {NoCall, manual}
          BY <1>3, <3>2 DEF DrainManual
        <4> QED
          BY <4>1, GotoTypes, PlaceNames DEF TypeOK
      <3> QED
        BY <3>1, <3>2
    <2> QED
      BY <1>3, <2>1 DEF DrainManual, TypeOK
  <1>4. CASE c \in Closers /\ BeginClose(c)
    BY <1>4 DEF BeginClose, TypeOK, Places
  <1>5. CASE c \in Closers /\ EndClose(c)
    <2>1. at' \in [Calls -> Places] /\ waiters' \subseteq Calls
      <3>1. CASE scheduled
        BY <1>5, <3>1 DEF EndClose, TypeOK
      <3>2. CASE ~scheduled
        <4>1. at' = [at EXCEPT ![c] = "returned"] /\ waiters' = waiters
          BY <1>5, <3>2 DEF EndClose
        <4> QED
          BY <4>1, GotoTypes, PlaceNames DEF TypeOK
      <3> QED
        BY <3>1, <3>2
    <2> QED
      BY <1>5, <2>1 DEF EndClose, TypeOK
  <1>6. CASE c \in Flushes /\ WaitForFlush(c)
    <2>1. /\ at' \in [Calls -> Places] /\ status' \in [Calls -> Results]
          /\ waiters' \subseteq Calls
      <3>1. CASE has_imm /\ ~bg_error /\ ~shutting_down
        BY <1>6, <3>1 DEF WaitForFlush, TypeOK
      <3>2. CASE ~(has_imm /\ ~bg_error /\ ~shutting_down)
        <4>1. /\ at' = [at EXCEPT ![c] = "returned"] /\ waiters' = waiters
              /\ \E r \in {"error", "ok"} : status' = [status EXCEPT ![c] = r]
          BY <1>6, <3>2 DEF WaitForFlush
        <4> QED
          BY <4>1, GotoTypes, PlaceNames DEF TypeOK
      <3> QED
        BY <3>1, <3>2
    <2> QED
      BY <1>6, <2>1 DEF WaitForFlush, TypeOK
  <1>7. CASE SpuriousWakeup(c)
    <2>1. failures' \in 0..MaxFailures
      BY <1>7, FailTypes DEF SpuriousWakeup
    <2> QED
      BY <1>7, <2>1 DEF SpuriousWakeup, TypeOK
  <1> QED
    BY <1>1, <1>2, <1>3, <1>4, <1>5, <1>6, <1>7

LEMMA FlushTypes ==
    ASSUME TypeOK, FlushSucceeds \/ FlushFails
    PROVE  /\ log' \in Seq(Batches) /\ mem' \in Seq(Batches) /\ imm' \in Seq(Batches)
           /\ durable' \subseteq Batches /\ tables' \subseteq Batches
           /\ has_imm' \in BOOLEAN /\ (~has_imm' => imm' = <<>>)
           /\ level0' \in Nat /\ bg_error' \in BOOLEAN /\ failures' \in 0..MaxFailures
  <1>1. Range(imm) \subseteq Batches
    BY MembersOfSeq DEF TypeOK
  <1>2. CASE FlushSucceeds
    <2>1. level0' \in Nat
      BY <1>2 DEF FlushSucceeds, TypeOK
    <2>2. log' \in Seq(Batches) /\ mem' \in Seq(Batches) /\ imm' \in Seq(Batches)
      BY <1>2 DEF FlushSucceeds, TypeOK
    <2> QED
      BY <1>1, <1>2, <2>1, <2>2 DEF FlushSucceeds, TypeOK
  <1>3. CASE FlushFails
    <2>1. failures' \in 0..MaxFailures
      BY <1>3, FailTypes DEF FlushFails, TypeOK
    <2> QED
      BY <1>3, <2>1 DEF FlushFails, dataVars, TypeOK
  <1> QED
    BY <1>2, <1>3

LEMMA EndBackgroundCallTypes ==
    ASSUME TypeOK, NEW request \in Manuals \cup {NoCall}, EndBackgroundCall(request)
    PROVE  /\ manual' \in Manuals \cup {NoCall} /\ waiters' \subseteq Calls
           /\ scheduled' \in BOOLEAN /\ bg' \in BackgroundPlaces
  BY MaybeScheduleTypes DEF EndBackgroundCall, TypeOK

LEMMA BackgroundTypes ==
    ASSUME TypeOK, BackgroundInv, Background
    PROVE  TypeOK'
  <1> USE DEF clientVars, queueVars, historyVars, dataVars, GoOn
  <1>1. NoCall \in Manuals \cup {NoCall} /\ manual \in Manuals \cup {NoCall}
        /\ RequestLeft \in Manuals \cup {NoCall}
    BY DEF TypeOK, RequestLeft
  <1>2. CASE StartBackground
    <2>1. /\ manual' \in Manuals \cup {NoCall} /\ waiters' \subseteq Calls
          /\ scheduled' \in BOOLEAN /\ bg' \in BackgroundPlaces
      <3>1. \/ EndBackgroundCall(manual) \/ EndBackgroundCall(NoCall)
            \/ bg' \in {"flush", "move", "work"} /\ UNCHANGED <<waiters, scheduled, manual>>
        BY <1>2 DEF StartBackground, StartIdly, StartFlush, StartAutomatic, StartManual, ManualDone
      <3> QED
        BY <1>1, <3>1, EndBackgroundCallTypes DEF TypeOK, BackgroundPlaces
    <2>2. manual_done' \in [Manuals -> BOOLEAN] /\ is_manual' \in BOOLEAN
      BY <1>2 DEF StartBackground, TypeOK
    <2> QED
      BY <1>2, <2>1, <2>2 DEF StartBackground, TypeOK
  <1>3. CASE EndFlush
    <2>1. /\ manual' \in Manuals \cup {NoCall} /\ waiters' \subseteq Calls
          /\ scheduled' \in BOOLEAN /\ bg' \in BackgroundPlaces
      BY <1>1, <1>3, EndBackgroundCallTypes DEF EndFlush, TypeOK, BackgroundPlaces
    <2> QED
      BY <1>3, <2>1, FlushTypes DEF EndFlush, TypeOK
  <1>4. CASE EndClean
    BY <1>1, <1>4, EndBackgroundCallTypes DEF EndClean, TypeOK
  <1>5. CASE StartWorkFlush
    BY <1>5 DEF StartWorkFlush, TypeOK, BackgroundPlaces
  <1>6. CASE EndWorkFlush
    <2>1. bg' \in BackgroundPlaces /\ waiters' \subseteq Calls
      BY <1>6 DEF EndWorkFlush, TypeOK, BackgroundPlaces
    <2> QED
      BY <1>6, <2>1, FlushTypes DEF EndWorkFlush, TypeOK
  <1>7. CASE EndWorkClean
    BY <1>7 DEF EndWorkClean, TypeOK, BackgroundPlaces
  <1>8. CASE EndMove
    <2>1. level0' \in Nat
      BY <1>8 DEF EndMove, BackgroundInv, TypeOK
    <2> QED
      BY <1>1, <1>8, <2>1, EndBackgroundCallTypes DEF EndMove, TypeOK
  <1>9. CASE CompactionInstalled
    <2>1. level0' \in Nat
      BY <1>9 DEF CompactionInstalled, TypeOK
    <2>2. rounds' \in [Manuals -> 0..MaxRounds]
      <3>1. CASE is_manual
        <4>1. manual \in Manuals /\ rounds[manual] \in 1..MaxRounds
          BY <1>9, <3>1, ParametersAssumption DEF CompactionInstalled, BackgroundInv, TypeOK
        <4>2. rounds[manual] - 1 \in 0..MaxRounds
          BY <4>1, ParametersAssumption
        <4> QED
          BY <1>9, <3>1, <4>1, <4>2 DEF CompactionInstalled, TypeOK
      <3> QED
        BY <1>9, <3>1 DEF CompactionInstalled, TypeOK
    <2>3. /\ manual' \in Manuals \cup {NoCall} /\ waiters' \subseteq Calls
          /\ scheduled' \in BOOLEAN /\ bg' \in BackgroundPlaces
      BY <1>1, <1>9, EndBackgroundCallTypes DEF CompactionInstalled, TypeOK, BackgroundPlaces
    <2> QED
      BY <1>9, <2>1, <2>2, <2>3 DEF CompactionInstalled, TypeOK
  <1>10. CASE EndWork
    BY <1>1, <1>10, EndBackgroundCallTypes DEF EndWork, TypeOK
  <1>11. CASE CompactionFails
    <2>1. failures' \in 0..MaxFailures
      BY <1>11, FailTypes DEF CompactionFails, TypeOK
    <2>2. manual_done' \in [Manuals -> BOOLEAN]
      BY <1>11 DEF CompactionFails, TypeOK
    <2> QED
      BY <1>1, <1>11, <2>1, <2>2, EndBackgroundCallTypes DEF CompactionFails, TypeOK
  <1> QED
    BY <1>2, <1>3, <1>4, <1>5, <1>6, <1>7, <1>8, <1>9, <1>10, <1>11 DEF Background

LEMMA TypeStep ==
    ASSUME TypeOK, ClientInv, BackgroundInv, [Next]_vars
    PROVE  TypeOK'
  <1>1. CASE UNCHANGED vars
    BY <1>1 DEF vars, queueVars, dataVars, bgVars, historyVars, TypeOK
  <1> QED
    BY <1>1, Kinds, QueueStepTypes, OutsideTypes, BackgroundTypes
       DEF Next, Begin, CallStep, Quiet

-----------------------------------------------------------------------------
(* The background thread, what waits for it, and the destructor.           *)

\* What MaybeScheduleCompaction leaves, when it is told what is there.
LEMMA MaybeScheduleWorks ==
    ASSUME NEW busy \in BOOLEAN, NEW error \in BOOLEAN, NEW immutable \in BOOLEAN, NEW request,
           NEW files, MaybeScheduleCompaction(busy, error, immutable, request, files),
           shutting_down \in BOOLEAN, busy => bg # "idle"
    PROVE  /\ scheduled' <=> bg' # "idle"
           /\ ~error /\ ~shutting_down /\ HasWork(immutable, request, files) => scheduled'
           /\ busy => bg' = bg
           /\ ~busy => bg' \in {"idle", "queued"}
  BY DEF MaybeScheduleCompaction

WaitPlaces == {"full", "flush", "manual", "drain", "close"}

\* A step of a call c: who waits is where waiting is done.
LEMMA WaitersStep ==
    ASSUME BackgroundInv, NEW c \in Calls,
           \A d \in Calls \ {c} : at'[d] = at[d],
           waiters \subseteq Calls, waiters' \subseteq waiters \cup {c},
           c \in waiters' => at'[c] \in WaitPlaces
    PROVE  \A d \in waiters' : at'[d] \in WaitPlaces
  BY DEF BackgroundInv, WaitPlaces

\* What the calls in writers_, and those that begin, leave of the background
\* thread.
LEMMA ClientFootprint ==
    ASSUME TypeOK, ClientInv, BackgroundInv, NEW c \in Calls,
           \/ c \in Queued /\ (QueueStep(c) \/ Enqueue(c))
           \/ c \in Flushes /\ WaitForFlush(c)
           \/ c \in Manuals /\ BeginManual(c)
           \/ c \in Closers /\ EndClose(c)
    PROVE  /\ \A d \in Calls \ {c} : at'[d] = at[d]
           /\ waiters' \subseteq waiters \cup {c}
           /\ c \in waiters' => at'[c] \in WaitPlaces
           /\ UNCHANGED <<is_manual, rounds, level0, manual, shutting_down>>
           /\ bg_error => bg_error'
           /\ c \in Manuals => at'[c] = "manual"
           /\ \/ UNCHANGED <<has_imm, scheduled, bg>>
              \/ /\ has_imm' = TRUE
                 /\ MaybeScheduleCompaction(scheduled, bg_error', TRUE, manual, level0)
  <1> USE DEF Goto, queueVars, dataVars, bgVars, historyVars
  <1>0. /\ at \in [Calls -> Places] /\ waiters \subseteq Calls
        /\ \A d \in waiters : at[d] \in WaitPlaces
        /\ c \in Queued => c \notin Manuals
    BY Kinds DEF TypeOK, BackgroundInv, WaitPlaces
  <1>1. CASE Enqueue(c) /\ c \in Queued
    <2>1. c \notin waiters
      BY <1>0, <1>1 DEF Enqueue, WaitPlaces
    <2> QED
      BY <1>0, <1>1, <2>1 DEF Enqueue
  <1>2. CASE Wake(c) /\ c \in Queued
    <2>1. c \notin waiters
      BY <1>0, <1>2 DEF Wake, WaitPlaces
    <2> QED
      BY <1>0, <1>2, <2>1 DEF Wake
  <1>3. CASE MakeRoomForWrite(c) /\ c \in Queued
    <2>1. c \notin waiters /\ at[c] = "room" /\ mutex = c
      BY <1>0, <1>3 DEF MakeRoomForWrite, WaitPlaces
    <2>2. CASE RoomError(c) \/ RoomDelay(c) \/ RoomFound(c) \/ RoomNoLogFile(c)
      <3>1. \E p \in Places : at' = [at EXCEPT ![c] = p]
        BY <2>2 DEF RoomError, RoomDelay, RoomFound, RoomNoLogFile, Places
      <3>2. UNCHANGED <<waiters, has_imm, level0, bgVars>>
        <4>1. CASE RoomError(c)
          BY <4>1 DEF RoomError
        <4>2. CASE RoomDelay(c)
          BY <4>2 DEF RoomDelay
        <4>3. CASE RoomFound(c)
          BY <4>3 DEF RoomFound
        <4>4. CASE RoomNoLogFile(c)
          BY <4>4 DEF RoomNoLogFile
        <4> QED
          BY <2>2, <4>1, <4>2, <4>3, <4>4
      <3> QED
        BY <1>0, <1>3, <2>1, <3>1, <3>2
    <2>3. CASE RoomWait(c)
      BY <1>0, <1>3, <2>1, <2>3 DEF RoomWait, WaitPlaces
    <2>4. CASE RoomSwitch(c)
      <3>1. waiters' \subseteq waiters /\ (bg_error => bg_error')
        BY <2>4 DEF RoomSwitch, RecordBackgroundError
      <3> QED
        BY <1>0, <1>3, <2>1, <2>4, <3>1 DEF RoomSwitch
    <2> QED
      BY <1>3, <2>2, <2>3, <2>4 DEF MakeRoomForWrite
  <1>4. CASE BackToRoom(c) /\ c \in Queued
    <2>1. c \notin waiters
      BY <1>0, <1>4 DEF BackToRoom, WaitPlaces
    <2> QED
      BY <1>0, <1>4, <2>1 DEF BackToRoom
  <1>5. CASE BuildBatchGroup(c) /\ c \in Queued
    BY <1>0, <1>5 DEF BuildBatchGroup
  <1>6. CASE AddRecord(c) /\ c \in Queued
    <2>1. c \notin waiters
      BY <1>0, <1>6 DEF AddRecord, WaitPlaces
    <2>2. \A d \in Calls \ {c} : at'[d] = at[d]
      BY <1>0, <1>6 DEF AddRecord
    <2> QED
      BY <1>0, <1>6, <2>1, <2>2 DEF AddRecord
  <1>7. CASE InsertInto(c) /\ c \in Queued
    <2>1. c \notin waiters
      BY <1>0, <1>7 DEF InsertInto, WaitPlaces
    <2> QED
      BY <1>0, <1>7, <2>1 DEF InsertInto
  <1>8. CASE FinishWrite(c) /\ c \in Queued
    <2>1. c \notin waiters
      BY <1>0, <1>8 DEF FinishWrite, WaitPlaces
    <2>2. waiters' \subseteq waiters /\ (bg_error => bg_error')
      BY <1>8 DEF FinishWrite, RecordBackgroundError
    <2>3. \A d \in Calls \ {c} : at'[d] = at[d]
      BY <1>0, <1>8 DEF FinishWrite
    <2>4. UNCHANGED <<is_manual, rounds, level0, manual, shutting_down, has_imm, scheduled, bg>>
      BY <1>8 DEF FinishWrite
    <2> QED
      BY <1>0, <1>8, <2>1, <2>2, <2>3, <2>4
  <1>9. CASE WaitForFlush(c) /\ c \in Flushes
    <2>1. at[c] = "flush" /\ c \notin waiters /\ c \notin Manuals
      BY <1>9, Kinds DEF WaitForFlush
    <2>2. CASE has_imm /\ ~bg_error /\ ~shutting_down
      BY <1>0, <1>9, <2>1, <2>2 DEF WaitForFlush, WaitPlaces
    <2>3. CASE ~(has_imm /\ ~bg_error /\ ~shutting_down)
      BY <1>0, <1>9, <2>1, <2>3 DEF WaitForFlush, WaitPlaces
    <2> QED
      BY <2>2, <2>3
  <1>10. CASE BeginManual(c) /\ c \in Manuals
    BY <1>0, <1>10 DEF BeginManual, WaitPlaces
  <1>11. CASE EndClose(c) /\ c \in Closers
    <2>1. at[c] = "close" /\ c \notin waiters /\ c \notin Manuals
      BY <1>11, Kinds DEF EndClose
    <2>2. CASE scheduled
      BY <1>0, <1>11, <2>1, <2>2 DEF EndClose, WaitPlaces
    <2>3. CASE ~scheduled
      BY <1>0, <1>11, <2>1, <2>3 DEF EndClose, WaitPlaces
    <2> QED
      BY <2>2, <2>3
  <1> QED
    BY <1>1, <1>2, <1>3, <1>4, <1>5, <1>6, <1>7, <1>8, <1>9, <1>10, <1>11 DEF QueueStep

LEMMA ClientKeepsBackground ==
    ASSUME TypeOK, ClientInv, BackgroundInv, NEW c \in Calls,
           \/ c \in Queued /\ (QueueStep(c) \/ Enqueue(c))
           \/ c \in Flushes /\ WaitForFlush(c)
           \/ c \in Manuals /\ BeginManual(c)
           \/ c \in Closers /\ EndClose(c)
    PROVE  BackgroundInv'
  <1>1. /\ \A d \in Calls \ {c} : at'[d] = at[d]
        /\ UNCHANGED <<is_manual, rounds, level0, manual, shutting_down>>
        /\ bg_error => bg_error'
        /\ c \in Manuals => at'[c] = "manual"
        /\ \/ UNCHANGED <<has_imm, scheduled, bg>>
           \/ /\ has_imm' = TRUE
              /\ MaybeScheduleCompaction(scheduled, bg_error', TRUE, manual, level0)
    BY ClientFootprint
  <1>2. \A d \in waiters' : at'[d] \in WaitPlaces
    BY ClientFootprint, WaitersStep DEF TypeOK
  <1>3. manual' # NoCall => at'[manual'] \in {"manual", "drain"}
    <2>1. manual \in Calls \/ manual = NoCall
      BY DEF TypeOK, Calls
    <2>2. CASE manual = c
      <3>1. c # NoCall /\ c \in Manuals
        BY <2>2, CallsAreFinite DEF TypeOK
      <3> QED
        BY <1>1, <2>2, <3>1
    <2>3. CASE manual # c
      BY <1>1, <2>1, <2>3 DEF BackgroundInv
    <2> QED
      BY <2>2, <2>3
  <1>4. bg_error' \in BOOLEAN /\ scheduled \in BOOLEAN /\ shutting_down \in BOOLEAN
    BY QueueStepTypes, OutsideTypes DEF TypeOK
  <1>5. CASE UNCHANGED <<has_imm, scheduled, bg>>
    BY <1>1, <1>2, <1>3, <1>4, <1>5 DEF BackgroundInv, HasWork, WaitPlaces
  <1>6. CASE has_imm' = TRUE /\ MaybeScheduleCompaction(scheduled, bg_error', TRUE, manual, level0)
    <2>1. /\ scheduled' <=> bg' # "idle"
          /\ ~bg_error' /\ ~shutting_down /\ HasWork(TRUE, manual, level0) => scheduled'
          /\ scheduled => bg' = bg
          /\ ~scheduled => bg' \in {"idle", "queued"}
      BY <1>4, <1>6, MaybeScheduleWorks DEF BackgroundInv
    <2>2. HasWork(has_imm', manual', level0') <=> HasWork(TRUE, manual, level0)
      BY <1>1, <1>6 DEF HasWork
    <2>3. is_manual' /\ bg' \in {"work", "work_flush", "work_clean"} =>
             manual' # NoCall /\ rounds'[manual'] > 0
      BY <1>1, <2>1 DEF BackgroundInv
    <2>4. bg' = "move" => level0' > 0
      BY <1>1, <2>1 DEF BackgroundInv
    <2> QED
      BY <1>1, <1>2, <1>3, <2>1, <2>2, <2>3, <2>4 DEF BackgroundInv, WaitPlaces
  <1> QED
    BY <1>1, <1>5, <1>6

\* A step of the background thread that ends its call.
LEMMA EndCallKeeps ==
    ASSUME TypeOK, BackgroundInv, NEW request \in {manual, NoCall}, EndBackgroundCall(request),
           UNCHANGED <<at, shutting_down>>, bg_error' \in BOOLEAN, has_imm' \in BOOLEAN
    PROVE  BackgroundInv'
  <1>1. /\ MaybeScheduleCompaction(FALSE, bg_error', has_imm', request, level0')
        /\ manual' = request /\ waiters' = {}
    BY DEF EndBackgroundCall
  <1>2. /\ scheduled' <=> bg' # "idle"
        /\ ~bg_error' /\ ~shutting_down /\ HasWork(has_imm', request, level0') => scheduled'
        /\ bg' \in {"idle", "queued"}
    BY <1>1, MaybeScheduleWorks DEF TypeOK
  <1>3. HasWork(has_imm', manual', level0') <=> HasWork(has_imm', request, level0')
    BY <1>1 DEF HasWork
  <1>4. manual' # NoCall => at'[manual'] \in {"manual", "drain"}
    BY <1>1 DEF BackgroundInv
  <1> QED
    BY <1>1, <1>2, <1>3, <1>4 DEF BackgroundInv

\* A step of the background thread that goes on.
LEMMA GoOnKeeps ==
    ASSUME TypeOK, BackgroundInv, bg # "idle", bg' # "idle", waiters' \subseteq waiters,
           UNCHANGED <<at, shutting_down, scheduled, manual>>,
           is_manual' /\ bg' \in {"work", "work_flush", "work_clean"} =>
              manual # NoCall /\ rounds'[manual] > 0,
           bg' = "move" => level0' > 0
    PROVE  BackgroundInv'
  BY DEF BackgroundInv

LEMMA BackgroundKeeps ==
    ASSUME TypeOK, BackgroundInv, Background, TypeOK'
    PROVE  BackgroundInv'
  <1> USE DEF clientVars, GoOn
  <1>1. /\ manual \in {manual, NoCall} /\ NoCall \in {manual, NoCall}
        /\ RequestLeft \in {manual, NoCall}
    BY DEF RequestLeft
  <1>2. bg_error' \in BOOLEAN /\ has_imm' \in BOOLEAN
    BY DEF TypeOK
  <1>3. CASE StartBackground
    <2>1. bg = "queued" /\ UNCHANGED <<at, shutting_down, rounds, level0>>
      BY <1>3 DEF StartBackground, dataVars
    <2>2. CASE EndBackgroundCall(manual) \/ EndBackgroundCall(NoCall)
      BY <1>1, <1>2, <2>1, <2>2, EndCallKeeps
    <2>3. CASE StartFlush
      BY <2>1, <2>3, GoOnKeeps DEF StartFlush
    <2>4. CASE StartManual /\ is_manual' = TRUE
      BY <2>1, <2>4, GoOnKeeps DEF StartManual
    <2>5. CASE is_manual' = FALSE /\ NeedsCompaction(level0) /\ (GoOn("move") \/ GoOn("work"))
      <3>1. level0 > 0
        <4>1. CompactionTrigger \in Nat /\ 0 < CompactionTrigger /\ level0 \in Nat
          BY ParametersAssumption DEF TypeOK
        <4> QED
          BY <2>5, <4>1 DEF NeedsCompaction
      <3> QED
        BY <2>1, <2>5, <3>1, GoOnKeeps
    <2> QED
      BY <1>3, <2>2, <2>3, <2>4, <2>5
         DEF StartBackground, StartIdly, StartAutomatic, ManualDone
  <1>4. CASE EndFlush
    <2>1. bg = "flush" /\ UNCHANGED <<at, shutting_down>>
      BY <1>4 DEF EndFlush
    <2>2. CASE GoOn("clean")
      BY <2>1, <2>2, GoOnKeeps
    <2>3. CASE EndBackgroundCall(manual)
      BY <1>1, <1>2, <2>1, <2>3, EndCallKeeps
    <2> QED
      BY <1>4, <2>2, <2>3 DEF EndFlush
  <1>5. CASE EndClean
    BY <1>1, <1>2, <1>5, EndCallKeeps DEF EndClean
  <1>6. CASE StartWorkFlush
    <2>1. is_manual => manual # NoCall /\ rounds[manual] > 0
      BY <1>6 DEF StartWorkFlush, BackgroundInv
    <2> QED
      BY <1>6, <2>1, GoOnKeeps DEF StartWorkFlush
  <1>7. CASE EndWorkFlush
    <2>1. is_manual => manual # NoCall /\ rounds[manual] > 0
      BY <1>7 DEF EndWorkFlush, BackgroundInv
    <2>2. /\ bg = "work_flush" /\ bg' \in {"work", "work_clean"} /\ waiters' \subseteq waiters
          /\ UNCHANGED <<at, shutting_down, scheduled, manual, rounds, is_manual>>
      BY <1>7 DEF EndWorkFlush
    <2> QED
      BY <2>1, <2>2, GoOnKeeps
  <1>8. CASE EndWorkClean
    <2>1. is_manual => manual # NoCall /\ rounds[manual] > 0
      BY <1>8 DEF EndWorkClean, BackgroundInv
    <2> QED
      BY <1>8, <2>1, GoOnKeeps DEF EndWorkClean
  <1>9. CASE EndMove
    BY <1>1, <1>2, <1>9, EndCallKeeps DEF EndMove
  <1>10. CASE CompactionInstalled
    <2>1. bg = "work" /\ UNCHANGED <<at, shutting_down>>
      BY <1>10 DEF CompactionInstalled
    <2>2. CASE GoOn("work_end")
      BY <2>1, <2>2, GoOnKeeps
    <2>3. CASE EndBackgroundCall(RequestLeft)
      BY <1>1, <1>2, <2>1, <2>3, EndCallKeeps
    <2> QED
      BY <1>10, <2>2, <2>3 DEF CompactionInstalled
  <1>11. CASE EndWork
    BY <1>1, <1>2, <1>11, EndCallKeeps DEF EndWork
  <1>12. CASE CompactionFails
    BY <1>1, <1>2, <1>12, EndCallKeeps DEF CompactionFails
  <1> QED
    BY <1>3, <1>4, <1>5, <1>6, <1>7, <1>8, <1>9, <1>10, <1>11, <1>12 DEF Background

LEMMA RequestKeeps ==
    ASSUME TypeOK, BackgroundInv, NEW c \in Manuals, RequestManual(c)
    PROVE  BackgroundInv'
  <1>1. /\ at' = at /\ at[c] = "manual" /\ waiters' = waiters \cup {c}
        /\ UNCHANGED <<has_imm, bg_error, shutting_down, rounds, is_manual, level0>>
    BY DEF RequestManual, dataVars
  <1>2. \A d \in waiters' : at'[d] \in WaitPlaces
    BY <1>1 DEF BackgroundInv, WaitPlaces
  <1>3. CASE manual = NoCall
    <2>1. manual' = c /\ MaybeScheduleCompaction(scheduled, bg_error, has_imm, c, level0)
      BY <1>3 DEF RequestManual
    <2>2. /\ scheduled' <=> bg' # "idle"
          /\ ~bg_error /\ ~shutting_down /\ HasWork(has_imm, c, level0) => scheduled'
          /\ scheduled => bg' = bg
          /\ ~scheduled => bg' \in {"idle", "queued"}
      BY <2>1, MaybeScheduleWorks DEF BackgroundInv, TypeOK
    <2>3. HasWork(has_imm', manual', level0') <=> HasWork(has_imm, c, level0)
      BY <1>1, <2>1 DEF HasWork
    <2>4. ~(is_manual' /\ bg' \in {"work", "work_flush", "work_clean"})
      BY <1>1, <1>3, <2>2 DEF BackgroundInv
    <2>5. bg' = "move" => level0' > 0
      BY <1>1, <2>2 DEF BackgroundInv
    <2> QED
      BY <1>1, <1>2, <2>1, <2>2, <2>3, <2>4, <2>5 DEF BackgroundInv, WaitPlaces
  <1>4. CASE manual # NoCall
    <2>1. UNCHANGED <<manual, scheduled, bg>>
      BY <1>4 DEF RequestManual
    <2> QED
      BY <1>1, <1>2, <2>1 DEF BackgroundInv, WaitPlaces, HasWork
  <1> QED
    BY <1>3, <1>4

LEMMA DrainKeeps ==
    ASSUME TypeOK, BackgroundInv, NEW c \in Manuals, DrainManual(c)
    PROVE  BackgroundInv'
  <1>1. UNCHANGED <<has_imm, bg_error, shutting_down, rounds, is_manual, level0, scheduled, bg>>
    BY DEF DrainManual, dataVars
  <1>2. c \in Calls /\ c \notin waiters /\ waiters \subseteq Calls
    BY Kinds DEF DrainManual, TypeOK
  <1>3. manual \in Calls \/ manual = NoCall
    BY Kinds DEF TypeOK
  <1>4. CASE scheduled
    <2>1. at' = [at EXCEPT ![c] = "drain"] /\ waiters' = waiters \cup {c} /\ manual' = manual
      BY <1>4 DEF DrainManual, Goto
    <2>2. at'[c] = "drain" /\ \A d \in Calls \ {c} : at'[d] = at[d]
      BY <1>2, <2>1 DEF TypeOK
    <2>3. \A d \in waiters' : at'[d] \in WaitPlaces
      BY <1>2, <2>1, <2>2, WaitersStep DEF WaitPlaces
    <2>4. manual' # NoCall => at'[manual'] \in {"manual", "drain"}
      BY <1>3, <2>1, <2>2 DEF BackgroundInv
    <2> QED
      BY <1>1, <2>1, <2>3, <2>4 DEF BackgroundInv, WaitPlaces, HasWork
  <1>5. CASE ~scheduled
    <2>1. /\ at' = [at EXCEPT ![c] = "returned"] /\ waiters' = waiters
          /\ manual' = IF manual = c THEN NoCall ELSE manual
      BY <1>5 DEF DrainManual, Goto
    <2>2. \A d \in Calls \ {c} : at'[d] = at[d]
      BY <1>2, <2>1 DEF TypeOK
    <2>3. \A d \in waiters' : at'[d] \in WaitPlaces
      BY <1>2, <2>1, <2>2, WaitersStep DEF WaitPlaces
    <2>4. manual' # NoCall => manual' = manual /\ at'[manual'] \in {"manual", "drain"}
      BY <1>3, <2>1, <2>2 DEF BackgroundInv
    <2>5. HasWork(has_imm', manual', level0') => HasWork(has_imm, manual, level0)
      BY <1>1, <2>4 DEF HasWork
    <2>6. bg = "idle"
      BY <1>5 DEF BackgroundInv
    <2> QED
      BY <1>1, <2>3, <2>4, <2>5, <2>6 DEF BackgroundInv, WaitPlaces
  <1> QED
    BY <1>4, <1>5

LEMMA BeginCloseKeeps ==
    ASSUME TypeOK, BackgroundInv, NEW c \in Closers, BeginClose(c)
    PROVE  BackgroundInv'
  <1>1. /\ at[c] = "start" /\ at' = [at EXCEPT ![c] = "close"] /\ shutting_down' = TRUE
        /\ UNCHANGED <<waiters, bg_error, manual, rounds, is_manual, level0, scheduled, bg>>
    BY DEF BeginClose, Goto, dataVars
  <1>2. c \in Calls /\ waiters \subseteq Calls /\ (manual = NoCall \/ manual \in Calls \ {c})
    BY Kinds DEF TypeOK
  <1>3. c \notin waiters /\ \A d \in Calls \ {c} : at'[d] = at[d]
    BY <1>1, <1>2 DEF BackgroundInv, TypeOK
  <1>4. \A d \in waiters' : at'[d] \in WaitPlaces
    BY <1>1, <1>2, <1>3, WaitersStep
  <1>5. manual' # NoCall => at'[manual'] \in {"manual", "drain"}
    BY <1>1, <1>2, <1>3 DEF BackgroundInv
  <1> QED
    BY <1>1, <1>4, <1>5 DEF BackgroundInv, WaitPlaces

LEMMA BackgroundInvStep ==
    ASSUME TypeOK, ClientInv, BackgroundInv, [Next]_vars, TypeOK'
    PROVE  BackgroundInv'
  <1>1. CASE UNCHANGED vars
    BY <1>1 DEF vars, queueVars, dataVars, bgVars, historyVars, BackgroundInv, HasWork
  <1>2. ASSUME NEW c \in Calls, SpuriousWakeup(c)
        PROVE  BackgroundInv'
    BY <1>2 DEF SpuriousWakeup, dataVars, bgVars, BackgroundInv, HasWork
  <1>3. ASSUME NEW c \in Calls, Begin(c) \/ CallStep(c)
        PROVE  BackgroundInv'
    BY <1>3, ClientKeepsBackground, RequestKeeps, DrainKeeps, BeginCloseKeeps
       DEF Begin, CallStep
  <1>4. CASE Background
    BY <1>4, BackgroundKeeps
  <1> QED
    BY <1>1, <1>2, <1>3, <1>4 DEF Next, Quiet

\* As long as the destructor has not begun, a step that leaves the
\* destructor calls where they are keeps CloseInv.
LEMMA OpenKeeps ==
    ASSUME CloseInv, ~shutting_down, ~shutting_down', \A d \in Closers : at'[d] = at[d]
    PROVE  CloseInv'
  BY DEF CloseInv

\* The calls that are not over do not move once the destructor has begun.
LEMMA OnlyTheCloserMoves ==
    ASSUME TypeOK, CloseInv, shutting_down, NEW c \in Calls, Begin(c) \/ CallStep(c)
    PROVE  /\ c \in Closers /\ EndClose(c)
           /\ \A d \in Calls \ {c} : at[d] \in {"start", "returned"}
  <1>1. ~Begin(c)
    BY DEF Begin, Enqueue, BeginManual, BeginClose
  <1>2. at[c] \notin {"start", "returned"}
    <2>1. CASE c \in Queued /\ QueueStep(c)
      BY <2>1 DEF QueueStep, Wake, MakeRoomForWrite, BackToRoom, BuildBatchGroup, AddRecord,
                  InsertInto, FinishWrite
    <2>2. CASE c \in Flushes /\ WaitForFlush(c)
      BY <2>2 DEF WaitForFlush
    <2>3. CASE c \in Manuals /\ (RequestManual(c) \/ DrainManual(c))
      BY <2>3 DEF RequestManual, DrainManual
    <2>4. CASE c \in Closers /\ EndClose(c)
      BY <2>4 DEF EndClose
    <2> QED
      BY <1>1, <2>1, <2>2, <2>3, <2>4 DEF CallStep
  <1>3. PICK d \in Closers : /\ at[d] \in {"close", "returned"}
                             /\ \A e \in Calls \ {d} : at[e] \in {"start", "returned"}
    BY DEF CloseInv
  <1>4. c = d /\ at[c] = "close"
    BY <1>2, <1>3
  <1>5. ~QueueStep(c) /\ c \notin Flushes /\ c \notin Manuals
    BY <1>3, <1>4, Kinds
       DEF QueueStep, Wake, MakeRoomForWrite, BackToRoom, BuildBatchGroup, AddRecord, InsertInto,
           FinishWrite
  <1> QED
    BY <1>1, <1>3, <1>4, <1>5 DEF CallStep

LEMMA BackgroundIsBusy ==
    ASSUME Background
    PROVE  bg # "idle"
  BY DEF Background, StartBackground, EndFlush, EndClean, StartWorkFlush, EndWorkFlush,
         EndWorkClean, EndMove, CompactionInstalled, EndWork, CompactionFails

\* What the other calls leave of the destructor's.
LEMMA CallsLeaveClosers ==
    ASSUME TypeOK, ClientInv, BackgroundInv, ~shutting_down, NEW c \in Calls,
           Begin(c) \/ CallStep(c), CloseInv, ~(c \in Closers /\ BeginClose(c))
    PROVE  ~shutting_down' /\ \A d \in Closers : at'[d] = at[d]
  <1>1. ~(c \in Closers /\ EndClose(c))
    BY DEF CloseInv, EndClose
  <1>2. CASE c \in Manuals /\ (RequestManual(c) \/ DrainManual(c))
    <2>1. UNCHANGED shutting_down /\ \E p \in Places : at' = at \/ at' = [at EXCEPT ![c] = p]
      BY <1>2, PlaceNames DEF RequestManual, DrainManual, Goto
    <2>2. c \notin Closers /\ Closers \subseteq Calls
      BY <1>2, Kinds
    <2> QED
      BY <2>1, <2>2 DEF TypeOK
  <1>3. CASE \/ c \in Queued /\ (QueueStep(c) \/ Enqueue(c))
             \/ c \in Flushes /\ WaitForFlush(c)
             \/ c \in Manuals /\ BeginManual(c)
    <2>1. UNCHANGED shutting_down /\ \A d \in Calls \ {c} : at'[d] = at[d]
      BY <1>3, ClientFootprint
    <2>2. c \notin Closers /\ Closers \subseteq Calls
      BY <1>3, Kinds
    <2> QED
      BY <2>1, <2>2
  <1> QED
    BY <1>1, <1>2, <1>3 DEF Begin, CallStep

LEMMA CloseInvStep ==
    ASSUME TypeOK, ClientInv, BackgroundInv, CloseInv, [Next]_vars
    PROVE  CloseInv'
  <1>0. Closers \subseteq Calls /\ waiters \subseteq Calls
    BY Kinds DEF TypeOK
  <1>1. CASE UNCHANGED vars
    BY <1>1 DEF vars, queueVars, dataVars, bgVars, historyVars, CloseInv
  <1>2. ASSUME NEW c \in Calls, SpuriousWakeup(c)
        PROVE  CloseInv'
    BY <1>2 DEF SpuriousWakeup, bgVars, CloseInv
  <1>3. CASE Background
    <2>1. UNCHANGED <<at, shutting_down>>
      BY <1>3, BackgroundFootprint
    <2>2. \A d \in Closers : at[d] # "returned"
      BY <1>3, BackgroundIsBusy DEF CloseInv
    <2> QED
      BY <2>1, <2>2 DEF CloseInv
  <1>4. ASSUME NEW c \in Closers, BeginClose(c)
        PROVE  CloseInv'
    <2>1. /\ ~shutting_down /\ shutting_down' = TRUE
          /\ \A d \in Calls \ {c} : at[d] \in {"start", "returned"}
      BY <1>4 DEF BeginClose
    <2>2. at'[c] = "close" /\ \A d \in Calls \ {c} : at'[d] = at[d]
      BY <1>0, <1>4 DEF BeginClose, Goto, TypeOK
    <2>3. \A d \in Closers : at'[d] # "returned"
      BY <1>0, <2>1, <2>2 DEF CloseInv
    <2> QED
      BY <1>0, <2>1, <2>2, <2>3 DEF CloseInv
  <1>5. ASSUME NEW c \in Calls, Begin(c) \/ CallStep(c), ~(c \in Closers /\ BeginClose(c)),
               ~shutting_down
        PROVE  CloseInv'
    BY <1>5, CallsLeaveClosers, OpenKeeps
  <1>6. ASSUME NEW c \in Calls, Begin(c) \/ CallStep(c), shutting_down
        PROVE  CloseInv'
    <2>1. /\ c \in Closers /\ EndClose(c)
          /\ \A d \in Calls \ {c} : at[d] \in {"start", "returned"}
      BY <1>6, OnlyTheCloserMoves
    <2>2. at[c] = "close" /\ c \notin waiters /\ UNCHANGED <<shutting_down, bg>>
      BY <2>1 DEF EndClose, bgVars
    <2>3. CASE scheduled
      <3>1. at' = at
        BY <2>1, <2>3 DEF EndClose
      <3>2. \A d \in Closers : at[d] # "returned"
        BY <2>3 DEF CloseInv, BackgroundInv
      <3> QED
        BY <2>2, <3>1, <3>2 DEF CloseInv
    <2>4. CASE ~scheduled
      <3>1. at'[c] = "returned" /\ (\A d \in Calls \ {c} : at'[d] = at[d]) /\ waiters' = waiters
        BY <1>0, <2>1, <2>4 DEF EndClose, Goto, TypeOK
      <3>2. waiters = {}
        BY <1>0, <2>1, <2>2 DEF BackgroundInv
      <3>3. bg' = "idle"
        BY <2>2, <2>4 DEF BackgroundInv
      <3> QED
        BY <1>0, <1>6, <2>1, <2>2, <3>1, <3>2, <3>3 DEF CloseInv
    <2> QED
      BY <2>3, <2>4
  <1> QED
    BY <1>1, <1>2, <1>3, <1>4, <1>5, <1>6 DEF Next, Quiet

-----------------------------------------------------------------------------
(* The invariant, and what follows from it.                                *)

LEMMA QInvInit == Init => QInv
  <1> SUFFICES ASSUME Init
               PROVE  QInv
    OBVIOUS
  <1>1. /\ \A c \in Calls : at[c] = "start"
        /\ \A c \in Queued : at[c] = "start" /\ ~done[c]
        /\ \A c \in Batches : at[c] = "start"
        /\ \A c \in SyncWrites : at[c] = "start"
        /\ \A c \in Manuals \cup Closers : at[c] = "start"
    BY Kinds DEF Init
  <1>2. /\ writers = <<>> /\ group = <<>> /\ mem = <<>> /\ imm = <<>> /\ log = <<>>
        /\ arrived = <<>> /\ applied = <<>> /\ mutex = Free
        /\ Len(<<>>) = 0 /\ Range(<<>>) = {}
    BY DEF Init, Range
  <1>3. TypeOK
    <2>1. rounds \in [Manuals -> 0..MaxRounds] /\ failures \in 0..MaxFailures
      BY ParametersAssumption DEF Init
    <2>2. /\ at \in [Calls -> Places] /\ status \in [Calls -> Results]
          /\ bg \in BackgroundPlaces /\ is_manual \in BOOLEAN
      BY DEF Init, Places, Results, BackgroundPlaces
    <2>3. /\ done \in [Queued -> BOOLEAN] /\ allow_delay \in [Queued -> BOOLEAN]
          /\ force \in [Queued -> BOOLEAN] /\ manual_done \in [Manuals -> BOOLEAN]
      BY DEF Init
    <2>4. /\ writers \in Seq(Queued) /\ arrived \in Seq(Queued) /\ applied \in Seq(Batches)
          /\ group \in Seq(Batches) /\ log \in Seq(Batches) /\ mem \in Seq(Batches)
          /\ imm \in Seq(Batches)
      BY <1>2
    <2> QED
      BY <2>1, <2>2, <2>3, <2>4 DEF Init, TypeOK
  <1>4. QueueInv /\ PlacesInv /\ MutexInv
    <2>1. QueueInv
      BY <1>1, <1>2 DEF QueueInv, Leading
    <2>2. PlacesInv
      BY <1>1, Kinds DEF PlacesInv
    <2>3. MutexInv
      BY <1>1, <1>2, Kinds DEF MutexInv
    <2> QED
      BY <2>1, <2>2, <2>3
  <1>5. GroupInv
    BY <1>1, <1>2 DEF GroupInv, GroupIsOut
  <1>6. ArrivalInv /\ OrderInv
    BY <1>1, <1>2 DEF ArrivalInv, OrderInv
  <1>7. AppliedInv
    BY <1>1, <1>2 DEF AppliedInv, Leading
  <1>8. StatusInv /\ LogInv
    BY <1>1, <1>2 DEF StatusInv, LogInv, HasAnswer
  <1>9. BackgroundInv
    BY ParametersAssumption DEF Init, BackgroundInv, HasWork, NeedsCompaction
  <1>10. CloseInv
    BY <1>1 DEF Init, CloseInv
  <1> QED
    BY <1>3, <1>4, <1>5, <1>6, <1>7, <1>8, <1>9, <1>10 DEF QInv

LEMMA QInvStep == QInv /\ [Next]_vars => QInv'
  <1> SUFFICES ASSUME QInv, [Next]_vars
               PROVE  QInv'
    OBVIOUS
  <1>1. TypeOK /\ ClientInv /\ BackgroundInv /\ CloseInv
    BY DEF QInv, ClientInv
  <1>2. TypeOK'
    BY <1>1, TypeStep
  <1>3. ClientInv'
    BY <1>1, ClientInvStep
  <1>4. BackgroundInv'
    BY <1>1, <1>2, BackgroundInvStep
  <1>5. CloseInv'
    BY <1>1, CloseInvStep
  <1> QED
    BY <1>2, <1>3, <1>4, <1>5 DEF QInv, ClientInv

\* The inductive invariant of the queue, the group, the log and the
\* background thread holds in every state.  (DBImpl::Write and all that runs
\* with mutex_)
THEOREM QueueInvariant == Spec => []QInv
  BY QInvInit, QInvStep, PTL DEF Spec

\* Every variable stays in its type for any number of calls of each kind;
\* level 0 never has a negative number of files.  (Write, BackgroundCall)
THEOREM QueueTypeCorrect == Spec => []TypeOK
  <1>1. QInv => TypeOK
    BY DEF QInv
  <1> QED
    BY <1>1, QueueInvariant, PTL

\* However many writers queue up, whoever leads their groups, the memtables
\* get each batch once and in the order of arrival.  (Write,
\* BuildBatchGroup)
THEOREM AppliedInOrder == Spec => []WritesInOrder
  <1>1. QInv => WritesInOrder
    BY DEF QInv, AppliedInv, OrderInv, WritesInOrder
  <1> QED
    BY <1>1, QueueInvariant, PTL

\* A call learns what happened to its batch, also from another call that
\* led its group.  (Write, MakeRoomForWrite, CompactMemTable)
THEOREM AckMatches == Spec => []AckMatchesOutcome
  <1>1. QInv => AckMatchesOutcome
    BY DEF QInv, AppliedInv, StatusInv, HasAnswer, Answered, AckMatchesOutcome
  <1> QED
    BY <1>1, QueueInvariant, PTL

\* What a synced Write said ok to is durable, whoever wrote its record.
\* (BuildBatchGroup, Write)
THEOREM SyncedDurable == Spec => []SyncedWhenAcked
  <1>1. QInv => SyncedWhenAcked
    BY DEF QInv, LogInv, HasAnswer, Answered, SyncedWhenAcked
  <1> QED
    BY <1>1, QueueInvariant, PTL

\* A record is in the log file of the memtable that gets the batch, although
\* the log is written without the mutex.  (Write, MakeRoomForWrite)
THEOREM LogCovers == Spec => []LogCoversMemtable
  <1>1. QInv => LogCoversMemtable
    BY DEF QInv, LogInv, LogCoversMemtable
  <1> QED
    BY <1>1, QueueInvariant, PTL

\* Whatever comes up while the background thread works, it is scheduled
\* again.  (MaybeScheduleCompaction, BackgroundCall)
THEOREM WorkScheduled == Spec => []WorkIsScheduled
  <1>1. QInv => WorkIsScheduled
    BY DEF QInv, BackgroundInv, WorkIsScheduled
  <1> QED
    BY <1>1, QueueInvariant, PTL

\* The request the background thread reads is in the frame of a call that
\* has not returned, for any number of calls that share the pointer.
\* (TEST_CompactRange, BackgroundCompaction)
THEOREM PointerLive == Spec => []ManualPointerLive
  <1>1. QInv => ManualPointerLive
    BY DEF QInv, BackgroundInv, ManualPointerLive
  <1> QED
    BY <1>1, QueueInvariant, PTL

\* When the destructor is through nothing runs and nobody waits.  (~DBImpl,
\* MaybeScheduleCompaction)
THEOREM QuietWhenClosed == Spec => []ClosedIsQuiet
  <1>1. QInv => ClosedIsQuiet
    BY DEF QInv, CloseInv, ClosedIsQuiet
  <1> QED
    BY <1>1, QueueInvariant, PTL

-----------------------------------------------------------------------------
(* The queue implements AtomicWrites.                                      *)

\* What readers can find, and what each Write has come to for its caller.
Readable == Range(mem) \cup Range(imm) \cup tables
CallState(c) == IF at[c] = "start" THEN "idle"
                ELSE IF at[c] = "returned" THEN status[c]
                ELSE "pending"

\* Nothing can be read but what was applied, and a call that has its answer
\* was told one of two things.
OutcomeInv ==
    /\ Readable = Range(applied)
    /\ \A c \in Batches : HasAnswer(c) => status[c] \in {"ok", "error"}

\* The actions of a call but FinishWrite.
OtherStep(c) ==
    \/ c \in Queued /\ (Enqueue(c) \/ Wake(c) \/ MakeRoomForWrite(c) \/ BackToRoom(c))
    \/ c \in Queued /\ (BuildBatchGroup(c) \/ AddRecord(c) \/ InsertInto(c))
    \/ c \in Flushes /\ WaitForFlush(c)
    \/ c \in Manuals /\ (BeginManual(c) \/ RequestManual(c) \/ DrainManual(c))
    \/ c \in Closers /\ (BeginClose(c) \/ EndClose(c))
    \/ SpuriousWakeup(c)

LEMMA StepKinds ==
    ASSUME [Next]_vars
    PROVE  \/ \E c \in Calls : OtherStep(c)
           \/ \E c \in Queued : FinishWrite(c)
           \/ Background
           \/ UNCHANGED vars
  BY DEF Next, Begin, CallStep, QueueStep, OtherStep, Quiet

\* Only the call that acts moves.  It returns with the answer it had, and
\* nobody gets an answer.
LEMMA OtherStepCalls ==
    ASSUME TypeOK, ClientInv, NEW c \in Calls, OtherStep(c)
    PROVE  /\ \A d \in Calls \ {c} : at'[d] = at[d] /\ status'[d] = status[d]
           /\ done' = done
           /\ c \in Batches =>
                /\ at[c] # "returned"
                   \/ (at'[c] = at[c] /\ status'[c] = status[c])
                /\ at[c] = "start" => at'[c] \in {"start", "room", "parked"}
                /\ at[c] # "start" => at'[c] # "start"
                /\ HasAnswer(c)' => HasAnswer(c) /\ status'[c] = status[c]
  <1> USE DEF Goto, queueVars, dataVars, bgVars, historyVars
  <1>0. /\ at \in [Calls -> Places] /\ status \in [Calls -> Results]
        /\ c \in Batches => c \notin Flushes /\ c \notin Manuals /\ c \notin Closers
        /\ c \in Queued => (at[c] = "start" => ~done[c])
        /\ c \in Batches => c \in Queued
    BY Kinds DEF TypeOK, ClientInv, QueueInv
  <1>1. CASE c \in Queued /\ Enqueue(c)
    BY <1>0, <1>1 DEF Enqueue, HasAnswer
  <1>2. CASE c \in Queued /\ Wake(c)
    BY <1>0, <1>2 DEF Wake, AfterWrite, HasAnswer
  <1>3. CASE c \in Queued /\ MakeRoomForWrite(c)
    <2>1. CASE RoomError(c)
      BY <1>0, <1>3, <2>1 DEF MakeRoomForWrite, RoomError, HasAnswer
    <2>2. CASE RoomDelay(c)
      BY <1>0, <1>3, <2>2 DEF MakeRoomForWrite, RoomDelay, HasAnswer
    <2>3. CASE RoomFound(c)
      BY <1>0, <1>3, <2>3 DEF MakeRoomForWrite, RoomFound, HasAnswer
    <2>4. CASE RoomWait(c)
      BY <1>0, <1>3, <2>4 DEF MakeRoomForWrite, RoomWait, HasAnswer
    <2>5. CASE RoomNoLogFile(c)
      BY <1>0, <1>3, <2>5 DEF MakeRoomForWrite, RoomNoLogFile, HasAnswer
    <2>6. CASE RoomSwitch(c)
      BY <1>0, <1>3, <2>6 DEF MakeRoomForWrite, RoomSwitch, HasAnswer
    <2> QED
      BY <1>3, <2>1, <2>2, <2>3, <2>4, <2>5, <2>6 DEF MakeRoomForWrite
  <1>4. CASE c \in Queued /\ BackToRoom(c)
    BY <1>0, <1>4 DEF BackToRoom, HasAnswer
  <1>5. CASE c \in Queued /\ BuildBatchGroup(c)
    BY <1>0, <1>5 DEF BuildBatchGroup, HasAnswer
  <1>6. CASE c \in Queued /\ AddRecord(c)
    BY <1>0, <1>6 DEF AddRecord, HasAnswer
  <1>7. CASE c \in Queued /\ InsertInto(c)
    BY <1>0, <1>7 DEF InsertInto, HasAnswer
  <1>8. CASE c \in Flushes /\ WaitForFlush(c)
    BY <1>0, <1>8 DEF WaitForFlush
  <1>9. CASE c \in Manuals /\ BeginManual(c)
    BY <1>0, <1>9 DEF BeginManual
  <1>10. CASE c \in Manuals /\ (RequestManual(c) \/ DrainManual(c))
    BY <1>0, <1>10 DEF RequestManual, DrainManual
  <1>11. CASE c \in Closers /\ (BeginClose(c) \/ EndClose(c))
    BY <1>0, <1>11 DEF BeginClose, EndClose
  <1>12. CASE SpuriousWakeup(c)
    BY <1>0, <1>12 DEF SpuriousWakeup, HasAnswer
  <1> QED
    BY <1>1, <1>2, <1>3, <1>4, <1>5, <1>6, <1>7, <1>8, <1>9, <1>10, <1>11, <1>12 DEF OtherStep

\* The calls that FinishWrite answers wait or finish: no answer changes
\* after its call returned.
LEMMA FinishWriteCalls ==
    ASSUME TypeOK, ClientInv, NEW c \in Queued, FinishWrite(c)
    PROVE  /\ at[c] = "finish" /\ at'[c] \in {"flush", "returned"}
           /\ c \in Batches => at'[c] = "returned"
           /\ \A d \in Calls \ {c} : at'[d] = at[d]
           /\ \A d \in Calls : at[d] = "returned" => status'[d] = status[d]
           /\ \A d \in Batches : HasAnswer(d)' =>
                 \/ HasAnswer(d) /\ status'[d] = status[d]
                 \/ status'[d] \in {"ok", "error"}
           /\ UNCHANGED <<applied, mem, imm, tables>>
  <1> DEFINE n == FinishedWriters
             s == IF status[c] = "ok" THEN "ok" ELSE "error"
             answered == {writers[i] : i \in 1..n}
  <1>1. /\ at[c] = "finish"
        /\ status' = [w \in Calls |-> IF w \in answered THEN s ELSE status[w]]
        /\ done' = [w \in Queued |-> done[w] \/ w \in answered \ {c}]
        /\ at' = [at EXCEPT ![c] = AfterWrite(c, s)]
        /\ UNCHANGED <<applied, mem, imm, tables>>
    BY DEF FinishWrite, FinishedWriters, Goto, dataVars, historyVars
  <1>2. /\ c \in Calls /\ at \in [Calls -> Places] /\ s \in {"ok", "error"}
        /\ c \in Batches => c \notin Flushes
        /\ \A d \in Batches : d \in Calls /\ d \in Queued
    BY Kinds DEF TypeOK
  <1>3. n \in 1..Len(writers) /\ Len(writers) \in Nat /\ writers # <<>> /\ c = writers[1]
    BY <1>1, FinishAnswers, OneLeader DEF Leading
  <1> HIDE DEF n
  <1>4. \A d \in answered : at[d] # "returned"
    BY <1>3 DEF ClientInv, QueueInv, Leading
  <1>5. c \in answered
    BY <1>3
  <1> HIDE DEF answered, s
  <1>6. \A d \in Batches : HasAnswer(d)' =>
           \/ HasAnswer(d) /\ status'[d] = status[d]
           \/ status'[d] \in {"ok", "error"}
    BY <1>1, <1>2, <1>5 DEF HasAnswer
  <1>7. /\ at'[c] \in {"flush", "returned"} /\ (c \in Batches => at'[c] = "returned")
        /\ \A d \in Calls \ {c} : at'[d] = at[d]
    BY <1>1, <1>2 DEF AfterWrite
  <1> QED
    BY <1>1, <1>2, <1>4, <1>6, <1>7

\* Readers find the same, or a group comes in.
LEMMA ReadableChanges ==
    ASSUME TypeOK, ClientInv, [Next]_vars
    PROVE  \/ Readable' = Readable /\ applied' = applied
           \/ \E c \in Queued :
                 /\ InsertInto(c) /\ Readable' = Readable \cup Range(group)
                 /\ Range(applied') = Range(applied) \cup Range(group)
  <1> USE DEF Goto, queueVars, dataVars, bgVars, historyVars
  <1>1. CASE \E c \in Calls : OtherStep(c)
    <2>1. PICK c \in Calls : OtherStep(c)
      BY <1>1
    <2>2. CASE c \in Queued /\ InsertInto(c)
      <3>1. /\ Range(applied') = Range(applied) \cup Range(group)
            /\ Range(mem') = Range(mem) \cup Range(group)
        BY <2>2, MembersOfConcat DEF InsertInto, TypeOK
      <3>2. imm' = imm /\ tables' = tables
        BY <2>2 DEF InsertInto
      <3> QED
        BY <2>2, <3>1, <3>2 DEF Readable
    <2>3. CASE c \in Queued /\ at[c] = "room" /\ RoomSwitch(c)
      <3>1. mem' = <<>> /\ imm' = mem /\ imm = <<>> /\ tables' = tables /\ applied' = applied
        BY <2>3 DEF RoomSwitch, TypeOK
      <3>2. Range(mem') = {} /\ Range(imm) = {} /\ Range(imm') = Range(mem)
        BY <3>1 DEF Range
      <3> QED
        BY <3>1, <3>2 DEF Readable
    <2>4. CASE /\ ~(c \in Queued /\ InsertInto(c))
               /\ ~(c \in Queued /\ at[c] = "room" /\ RoomSwitch(c))
      <3>1. UNCHANGED <<mem, imm, tables, applied>>
        <4>1. CASE c \in Queued /\ (Enqueue(c) \/ Wake(c) \/ BackToRoom(c))
          BY <4>1 DEF Enqueue, Wake, BackToRoom
        <4>2. CASE c \in Queued /\ MakeRoomForWrite(c)
          BY <2>4, <4>2 DEF MakeRoomForWrite, RoomError, RoomDelay, RoomFound, RoomWait, RoomNoLogFile
        <4>3. CASE c \in Queued /\ (BuildBatchGroup(c) \/ AddRecord(c))
          BY <4>3 DEF BuildBatchGroup, AddRecord
        <4>4. CASE WaitForFlush(c) \/ BeginManual(c) \/ RequestManual(c) \/ DrainManual(c)
          BY <4>4 DEF WaitForFlush, BeginManual, RequestManual, DrainManual
        <4>5. CASE BeginClose(c) \/ EndClose(c) \/ SpuriousWakeup(c)
          BY <4>5 DEF BeginClose, EndClose, SpuriousWakeup
        <4> QED
          BY <2>1, <2>4, <4>1, <4>2, <4>3, <4>4, <4>5 DEF OtherStep
      <3> QED
        BY <3>1 DEF Readable
    <2> QED
      BY <2>2, <2>3, <2>4
  <1>2. CASE \E c \in Queued : FinishWrite(c)
    BY <1>2, FinishWriteCalls DEF Readable
  <1>3. CASE Background
    <2>1. mem' = mem /\ applied' = applied
      BY <1>3, BackgroundFootprint
    <2>2. CASE UNCHANGED <<imm, tables>>
      BY <2>1, <2>2 DEF Readable
    <2>3. CASE FlushSucceeds
      <3>1. Range(imm') = {} /\ tables' = tables \cup Range(imm)
        BY <2>3 DEF FlushSucceeds, Range
      <3> QED
        BY <2>1, <3>1 DEF Readable
    <2>4. FlushSucceeds \/ UNCHANGED <<imm, tables>>
      <3> USE DEF clientVars
      <3>1. CASE EndFlush \/ EndWorkFlush
        BY <3>1 DEF EndFlush, EndWorkFlush, FlushFails
      <3>2. CASE StartBackground
        BY <3>2 DEF StartBackground
      <3>3. CASE EndClean \/ StartWorkFlush \/ EndWorkClean
        BY <3>3 DEF EndClean, StartWorkFlush, EndWorkClean
      <3>4. CASE EndMove \/ CompactionInstalled \/ EndWork \/ CompactionFails
        BY <3>4 DEF EndMove, CompactionInstalled, EndWork, CompactionFails
      <3> QED
        BY <1>3, <3>1, <3>2, <3>3, <3>4 DEF Background
    <2> QED
      BY <2>2, <2>3, <2>4
  <1>4. CASE UNCHANGED vars
    BY <1>4 DEF vars, Readable
  <1> QED
    BY <1>1, <1>2, <1>3, <1>4, StepKinds

LEMMA OutcomeInvStep ==
    ASSUME QInv, OutcomeInv, [Next]_vars
    PROVE  OutcomeInv'
  <1>1. TypeOK /\ ClientInv
    BY DEF QInv, ClientInv
  <1>2. Readable' = Range(applied')
    BY <1>1, ReadableChanges DEF OutcomeInv
  <1>3. ASSUME NEW c \in Batches, HasAnswer(c)'
        PROVE  status'[c] \in {"ok", "error"}
    <2>1. \/ HasAnswer(c) /\ status'[c] = status[c]
          \/ status'[c] \in {"ok", "error"}
      <3>1. ASSUME NEW d \in Calls, OtherStep(d)
            PROVE  HasAnswer(c) /\ status'[c] = status[c]
        <4>1. CASE c = d
          BY <1>1, <1>3, <3>1, <4>1, OtherStepCalls
        <4>2. CASE c # d
          <5>1. c \in Calls
            BY Kinds
          <5>2. at'[c] = at[c] /\ status'[c] = status[c] /\ done' = done
            BY <1>1, <3>1, <4>2, <5>1, OtherStepCalls
          <5> QED
            BY <1>3, <5>2 DEF HasAnswer
        <4> QED
          BY <4>1, <4>2
      <3>2. CASE \E d \in Queued : FinishWrite(d)
        BY <1>1, <1>3, <3>2, FinishWriteCalls
      <3>3. CASE Background
        BY <1>3, <3>3, BackgroundFootprint DEF HasAnswer
      <3>4. CASE UNCHANGED vars
        BY <1>3, <3>4 DEF vars, queueVars, HasAnswer
      <3> QED
        BY <3>1, <3>2, <3>3, <3>4, StepKinds
    <2> QED
      BY <2>1 DEF OutcomeInv
  <1> QED
    BY <1>2, <1>3 DEF OutcomeInv

\* A call that was waiting returns with what happened to its batch.
LEMMA ReturnMaps ==
    ASSUME QInv', OutcomeInv', Readable' = Readable, NEW c \in Batches,
           at[c] \notin {"start", "returned"}, at'[c] = "returned",
           \A d \in Batches \ {c} : CallState(d)' = CallState(d)
    PROVE  AW!Return(c)
  <1>1. HasAnswer(c)'
    BY DEF HasAnswer
  <1>2. CallState(c) = "pending" /\ CallState(c)' = status'[c]
    BY DEF CallState
  <1>3. status'[c] = IF c \in Readable THEN "ok" ELSE "error"
    BY <1>1 DEF OutcomeInv, QInv, StatusInv
  <1> DEFINE state == [d \in Batches |-> CallState(d)]
  <1>4. state' = [state EXCEPT ![c] = IF c \in Readable THEN "ok" ELSE "error"]
    BY <1>2, <1>3
  <1> HIDE DEF state
  <1>5. state[c] = "pending"
    BY <1>2 DEF state
  <1>6. /\ state' = [d \in Batches |-> IF at[d] = "start" THEN "idle"
                                       ELSE IF at[d] = "returned" THEN status[d]
                                       ELSE "pending"]'
        /\ state = [d \in Batches |-> IF at[d] = "start" THEN "idle"
                                      ELSE IF at[d] = "returned" THEN status[d]
                                      ELSE "pending"]
    BY DEF state, CallState
  <1> QED
    BY <1>4, <1>5, <1>6 DEF AW!Return, Readable

\* What the step of another thread does not touch.
LEMMA StutterMaps ==
    ASSUME Readable' = Readable, \A d \in Batches : CallState(d)' = CallState(d)
    PROVE  UNCHANGED AW!awVars
  <1>1. [d \in Batches |-> CallState(d)]' = [d \in Batches |-> CallState(d)]
    OBVIOUS
  <1> QED
    BY <1>1 DEF AW!awVars, Readable, CallState

\* The head inserts its group at once: all of it waits, none of it was there.
LEMMA InsertMaps ==
    ASSUME TypeOK, ClientInv, OutcomeInv, NEW c \in Queued, InsertInto(c),
           Readable' = Readable \cup Range(group)
    PROVE  AW!Commit(Range(group))
  <1>1. at[c] = "inserting" /\ status' = status
    BY DEF InsertInto
  <1>2. c \in Batches /\ GroupIsOut(c) /\ writers # <<>> /\ c = writers[1]
    BY <1>1, OneLeader DEF ClientInv, PlacesInv, GroupIsOut, Leading
  <1>3. /\ Range(writers) = {writers[i] : i \in 1..Len(writers)}
        /\ Len(writers) \in Nat \ {0}
    BY <1>2, MembersOfSeq DEF TypeOK
  <1>4. c \in Range(group)
    <2>1. PICK n \in 1..Len(writers) : Range(group) = Batches \cap {writers[i] : i \in 1..n}
      BY <1>2 DEF ClientInv, GroupInv
    <2>2. 1 \in 1..n
      BY <1>3
    <2> QED
      BY <1>2, <2>1, <2>2
  <1>5. Range(group) \subseteq Range(writers) /\ Range(group) \subseteq Batches
    BY GroupInQueue
  <1>6. Range(group) \cap Readable = {}
    <2>1. Range(applied) \cap Range(writers) = {}
      BY <1>1 DEF ClientInv, AppliedInv, Leading
    <2> QED
      BY <1>5, <2>1 DEF OutcomeInv
  <1>7. \A d \in Range(group) : CallState(d) = "pending"
    BY <1>3, <1>5 DEF ClientInv, QueueInv, CallState, Leading
  <1>8. \A d \in Batches : CallState(d)' = CallState(d)
    <2>1. at' = [at EXCEPT ![c] = "finish"] /\ at \in [Calls -> Places]
      BY DEF InsertInto, Goto, TypeOK
    <2> QED
      BY <1>1, <2>1, Kinds DEF CallState
  <1>9. [d \in Batches |-> CallState(d)]' = [d \in Batches |-> CallState(d)]
    BY <1>8
  <1> QED
    BY <1>4, <1>5, <1>6, <1>7, <1>9 DEF AW!Commit, Readable, CallState

LEMMA WriteStepMaps ==
    ASSUME QInv, OutcomeInv, [Next]_vars, QInv', OutcomeInv'
    PROVE  [AW!AWNext]_(AW!awVars)
  <1>1. TypeOK /\ ClientInv /\ Batches \subseteq Calls
    BY Kinds DEF QInv, ClientInv
  <1>2. ASSUME NEW c \in Queued, InsertInto(c), Readable' = Readable \cup Range(group)
        PROVE  AW!AWNext
    <2>1. AW!Commit(Range(group)) /\ Range(group) \in SUBSET Batches
      BY <1>1, <1>2, InsertMaps, GroupInQueue
    <2> QED
      BY <2>1 DEF AW!AWNext
  <1>3. ASSUME Readable' = Readable, NEW c \in Calls, OtherStep(c)
        PROVE  [AW!AWNext]_(AW!awVars)
    <2>1. \A d \in Batches \ {c} : CallState(d)' = CallState(d)
      BY <1>1, <1>3, OtherStepCalls DEF CallState
    <2>2. CASE c \notin Batches
      BY <1>3, <2>1, <2>2, StutterMaps
    <2>3. CASE c \in Batches /\ at[c] = "start" /\ at'[c] # "start"
      <3>1. CallState(c) = "idle" /\ CallState(c)' = "pending"
        BY <1>1, <1>3, <2>3, OtherStepCalls DEF CallState
      <3> DEFINE state == [d \in Batches |-> CallState(d)]
      <3>2. state' = [state EXCEPT ![c] = "pending"] /\ state[c] = "idle"
        BY <2>1, <2>3, <3>1
      <3>3. AW!Call(c)
        BY <1>3, <3>2 DEF AW!Call, Readable, CallState
      <3> QED
        BY <2>3, <3>3 DEF AW!AWNext
    <2>4. CASE c \in Batches /\ at[c] \notin {"start", "returned"} /\ at'[c] = "returned"
      <3>1. AW!Return(c)
        BY <1>3, <2>1, <2>4, ReturnMaps
      <3> QED
        BY <2>4, <3>1 DEF AW!AWNext
    <2>5. CASE /\ c \in Batches
               /\ ~(at[c] = "start" /\ at'[c] # "start")
               /\ ~(at[c] \notin {"start", "returned"} /\ at'[c] = "returned")
      <3>1. CallState(c)' = CallState(c)
        BY <1>1, <1>3, <2>5, OtherStepCalls DEF CallState
      <3> QED
        BY <1>3, <2>1, <3>1, StutterMaps
    <2> QED
      BY <2>2, <2>3, <2>4, <2>5
  <1>4. ASSUME NEW c \in Queued, FinishWrite(c)
        PROVE  [AW!AWNext]_(AW!awVars)
    <2>1. Readable' = Readable
      BY <1>1, <1>4, FinishWriteCalls DEF Readable
    <2>2. \A d \in Batches \ {c} : CallState(d)' = CallState(d)
      BY <1>1, <1>4, FinishWriteCalls DEF CallState
    <2>3. CASE c \in Batches
      <3>1. at[c] = "finish" /\ at'[c] = "returned"
        BY <1>1, <1>4, <2>3, FinishWriteCalls
      <3>2. AW!Return(c)
        BY <2>1, <2>2, <2>3, <3>1, ReturnMaps
      <3> QED
        BY <2>3, <3>2 DEF AW!AWNext
    <2>4. CASE c \notin Batches
      BY <2>1, <2>2, <2>4, StutterMaps
    <2> QED
      BY <2>3, <2>4
  <1>5. ASSUME Readable' = Readable, Background \/ UNCHANGED vars
        PROVE  [AW!AWNext]_(AW!awVars)
    <2>1. at' = at /\ status' = status
      BY <1>5, BackgroundFootprint DEF vars
    <2> QED
      BY <1>5, <2>1, StutterMaps DEF CallState
  <1>6. CASE Readable' = Readable
    BY <1>3, <1>4, <1>5, <1>6, StepKinds
  <1> QED
    BY <1>1, <1>2, <1>6, ReadableChanges

LEMMA OutcomeInvInit == Init => OutcomeInv /\ AW!AWInit
  <1> SUFFICES ASSUME Init PROVE OutcomeInv /\ AW!AWInit
    OBVIOUS
  <1>1. /\ Range(mem) = {} /\ Range(imm) = {} /\ tables = {} /\ Range(applied) = {}
        /\ \A c \in Batches : at[c] = "start"
    BY Kinds DEF Init, Range
  <1> QED
    BY <1>1 DEF OutcomeInv, Readable, HasAnswer, AW!AWInit

\* The queue, the groups, the log and the memtables implement atomic writes,
\* for any number of calls: each Write takes effect at one moment between
\* its begin and its return, with all of its group, and is told ok if and
\* only if it did; no switch, flush, error or shutdown loses or adds a batch.
\* (DBImpl::Write, BuildBatchGroup, MakeRoomForWrite, CompactMemTable)
THEOREM QueueImplementsAtomicWrites == Spec => ImplementsAtomicWrites
  <1>1. Init => OutcomeInv /\ AW!AWInit
    BY OutcomeInvInit
  <1>2. QInv /\ OutcomeInv /\ [Next]_vars => OutcomeInv'
    BY OutcomeInvStep
  <1>3. QInv /\ OutcomeInv /\ QInv' /\ OutcomeInv' /\ [Next]_vars => [AW!AWNext]_(AW!awVars)
    BY WriteStepMaps
  <1> QED
    BY <1>1, <1>2, <1>3, QueueInvariant, PTL DEF Spec, ImplementsAtomicWrites, AW!AWSpec
=============================================================================
