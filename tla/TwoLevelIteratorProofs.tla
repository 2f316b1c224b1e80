----------------------- MODULE TwoLevelIteratorProofs -----------------------
(***************************************************************************)
(* TwoLevelIterator.tla: for any number of items, keys, ranges and errors, *)
(* an iterator that says ok has passed over no key, and none of the errors *)
(* it met is lost.                                                         *)
(***************************************************************************)
EXTENDS TwoLevelIterator, BasicFacts

\* The items are sorted, and the index leads to the right one.
ItemsInv ==
    /\ items \in Seq((SUBSET Keys) \ {{}}) /\ Len(items) <= MaxItems
    /\ InOrder
    /\ dividers \in [Items -> Keys]
    /\ \A i \in Items : Max(items[i]) <= dividers[i]
    /\ hint \in {None} \cup (Keys \X Keys)

\* The data iterator is at a key of the item the index is at.
PlaceInv ==
    /\ index \in 1..End
    /\ index = End <=> data = None
    /\ data # None =>
         /\ data \in [item : Items, key : Keys, error : BOOLEAN]
         /\ data.item = index /\ data.key \in items[index]

HistoryInv ==
    /\ status_ \in BOOLEAN /\ failed \in BOOLEAN
    /\ asked \in [forward : BOOLEAN, from : Int]

IteratorInv ==
    /\ ItemsInv /\ PlaceInv /\ HistoryInv
    /\ NothingPassedOver /\ ErrorsAreReported

-----------------------------------------------------------------------------
(* Keys.                                                                   *)

\* Of the first n numbers of a sequence number m is the greatest.
GreatestAt(f, n, m) == m \in 1..n /\ \A k \in 1..n : f[k] <= f[m]

LEMMA SequenceHasGreatest ==
    ASSUME NEW N \in Nat, NEW f \in [1..N -> Int], NEW n \in 1..N
    PROVE  \E m \in 1..N : GreatestAt(f, n, m)
  <1> DEFINE Without == {j \in 1..N : \A m \in 1..N : ~GreatestAt(f, j, m)}
  <1>1. SUFFICES ASSUME Without # {}
                 PROVE  FALSE
    <2>1. n \notin Without
      BY <1>1
    <2> QED
      BY <2>1
  <1>2. PICK j \in Without : \A k \in Without : j <= k
    <2>1. Without \in SUBSET Nat
      OBVIOUS
    <2> HIDE DEF Without
    <2> QED
      BY <1>1, <2>1, LeastNatural
  <1>3. j \in 1..N /\ f[j] \in Int /\ \A m \in 1..N : ~GreatestAt(f, j, m)
    OBVIOUS
  <1>4. j # 1
    BY <1>3 DEF GreatestAt
  <1>5. j - 1 \in 1..N /\ ~(j <= j - 1)
    BY <1>3, <1>4
  <1>6. j - 1 \notin Without
    <2> HIDE DEF Without
    <2> QED
      BY <1>2, <1>5
  <1>7. PICK m \in 1..N : GreatestAt(f, j - 1, m)
    BY <1>5, <1>6
  <1>8. /\ m \in 1..(j - 1) /\ f[m] \in Int
        /\ \A k \in 1..(j - 1) : f[k] \in Int /\ f[k] <= f[m]
    BY <1>3, <1>7 DEF GreatestAt
  <1>9. \A k \in 1..j : k = j \/ k \in 1..(j - 1)
    BY <1>3
  <1> HIDE DEF Without
  <1>10. CASE f[j] <= f[m]
    <2>1. m \in 1..j /\ \A k \in 1..j : f[k] <= f[m]
      BY <1>3, <1>8, <1>9, <1>10
    <2> QED
      BY <1>3, <1>8, <2>1 DEF GreatestAt
  <1>11. CASE f[m] <= f[j]
    <2>1. j \in 1..j /\ \A k \in 1..j : f[k] <= f[j]
      BY <1>3, <1>8, <1>9, <1>11
    <2> QED
      BY <1>3, <2>1 DEF GreatestAt
  <1> QED
    BY <1>3, <1>8, <1>10, <1>11

\* A finite set of numbers has a greatest and a smallest member, which Max
\* and Min choose.
LEMMA Extremes ==
    ASSUME NEW S \in SUBSET Int, IsFiniteSet(S), S # {}
    PROVE  /\ Max(S) \in S /\ \A x \in S : x <= Max(S)
           /\ Min(S) \in S /\ \A x \in S : Min(S) <= x
  <1>1. PICK seq \in Seq(S) : \A x \in S : \E n \in 1..Len(seq) : seq[n] = x
    BY DEF IsFiniteSet
  <1> DEFINE N == Len(seq)
             f == [n \in 1..N |-> seq[n]]
             neg == [n \in 1..N |-> 0 - seq[n]]
  <1>2. N \in Nat /\ \A n \in 1..N : seq[n] \in S
    BY MembersOfSeq
  <1>3. f \in [1..N -> Int] /\ neg \in [1..N -> Int]
    <2>1. \A x \in Int : 0 - x \in Int
      OBVIOUS
    <2> HIDE DEF N
    <2>2. \A n \in 1..N : seq[n] \in Int
      BY <1>2
    <2> QED
      BY <2>1, <2>2
  <1>4. \A n \in 1..N : f[n] = seq[n] /\ neg[n] = 0 - seq[n] /\ seq[n] \in Int
    BY <1>2
  <1> HIDE DEF f, neg
  <1>5. N \in 1..N
    <2>1. PICK x \in S : TRUE
      OBVIOUS
    <2>2. PICK n \in 1..N : seq[n] = x
      BY <1>1
    <2> QED
      BY <1>2, <2>2
  <1>6. PICK m \in 1..N : GreatestAt(f, N, m)
    BY <1>2, <1>3, <1>5, SequenceHasGreatest
  <1>7. PICK l \in 1..N : GreatestAt(neg, N, l)
    BY <1>2, <1>3, <1>5, SequenceHasGreatest
  <1>8. \A n \in 1..N : seq[n] <= seq[m] /\ seq[l] <= seq[n]
    BY <1>4, <1>6, <1>7 DEF GreatestAt
  <1>9. seq[m] \in S /\ \A x \in S : seq[m] >= x
    BY <1>1, <1>2, <1>4, <1>8
  <1>10. seq[l] \in S /\ \A x \in S : seq[l] <= x
    BY <1>1, <1>2, <1>4, <1>8
  <1>11. Max(S) \in S /\ \A x \in S : Max(S) >= x
    BY <1>9 DEF Max
  <1>12. Min(S) \in S /\ \A x \in S : Min(S) <= x
    BY <1>10 DEF Min
  <1> QED
    BY <1>11, <1>12

\* The first key of a set in a direction.
LEMMA KeysOfASet ==
    ASSUME NEW S \in SUBSET Keys, S # {}
    PROVE  /\ S \subseteq Int
           /\ Max(S) \in S /\ \A x \in S : x <= Max(S)
           /\ Min(S) \in S /\ \A x \in S : Min(S) <= x
           /\ \A forward \in BOOLEAN :
                /\ FirstOf(S, forward) \in S
                /\ \A x \in S : FirstOf(S, forward) \in From(Keys, ~forward, x)
  <1>1. S \in SUBSET Int /\ IsFiniteSet(S)
    BY TwoLevelAssumption, FS_Subset
  <1>2. /\ Max(S) \in S /\ \A x \in S : x <= Max(S)
        /\ Min(S) \in S /\ \A x \in S : Min(S) <= x
    BY <1>1, Extremes
  <1> QED
    BY <1>1, <1>2 DEF FirstOf, From

\* All keys of an item come before those of the next ones.
LEMMA ItemsApart ==
    ASSUME ItemsInv, NEW i \in Items, NEW j \in Items
    PROVE  /\ i \in Nat /\ items[i] \in SUBSET Keys /\ items[i] # {}
           /\ i < j => \A x \in items[i], y \in items[j] : x < y
  <1>1. \A k \in Items : items[k] \in SUBSET Keys /\ items[k] # {}
    BY DEF ItemsInv, Items
  <1>2. i < j => Max(items[i]) < Min(items[j])
    BY DEF ItemsInv, InOrder
  <1>3. /\ items[i] \subseteq Int /\ Max(items[i]) \in Int /\ \A x \in items[i] : x <= Max(items[i])
        /\ items[j] \subseteq Int /\ Min(items[j]) \in Int /\ \A y \in items[j] : Min(items[j]) <= y
    BY <1>1, KeysOfASet
  <1> QED
    BY <1>1, <1>2, <1>3 DEF Items

-----------------------------------------------------------------------------
(* Moves.                                                                  *)

\* The data iterators that item j may show when a move begins at item i.
Shown(j, i, forward, from) ==
    IF j = i THEN InitDataBlock(j, forward, from) ELSE BlockFunction(j, forward, from)

\* What is shown of an item is a key from there on or nothing; without an
\* error it is the first one, unless the range rules the item out; and the
\* error of the open iterator stays.
LEMMA ShownOfItem ==
    ASSUME ItemsInv, PlaceInv, NEW i \in Int, NEW forward \in BOOLEAN, NEW from \in Int,
           NEW j \in Items, NEW d \in Shown(j, i, forward, from)
    PROVE  /\ d \in [item : {j}, key : From(items[j], forward, from) \cup {None}, error : BOOLEAN]
           /\ ~d.error => \/ d.key = FirstOf(From(items[j], forward, from), forward)
                          \/ MayPrune(j) /\ d.key = None
           /\ j = i /\ IsOpen(i) /\ data.error => d.error
  <1> DEFINE keys == From(items[j], forward, from)
             All == [item : {j}, key : keys \cup {None}, error : BOOLEAN]
  <1>1. FirstOf(keys, forward) \in keys \cup {None}
    <2>1. keys \in SUBSET Keys
      BY ItemsApart DEF From
    <2>2. CASE keys = {}
      BY <2>2 DEF FirstOf
    <2>3. CASE keys # {}
      BY <2>1, <2>3, KeysOfASet
    <2> HIDE DEF keys
    <2> QED
      BY <2>2, <2>3
  <1>2. \A r \in Rests(j, forward, from) :
          r \in All /\ (~r.error => r.key = FirstOf(keys, forward))
    <2> HIDE DEF keys
    <2>1. Rests(j, forward, from) =
            {[item |-> j, key |-> FirstOf(keys, forward), error |-> FALSE]}
              \cup {[item |-> j, key |-> k, error |-> TRUE] : k \in keys \cup {None}}
      BY DEF Rests, keys
    <2>2. ASSUME NEW r, r = [item |-> j, key |-> FirstOf(keys, forward), error |-> FALSE]
          PROVE  r \in All /\ (~r.error => r.key = FirstOf(keys, forward))
      BY <1>1, <2>2
    <2>3. ASSUME NEW k \in keys \cup {None}, NEW r, r = [item |-> j, key |-> k, error |-> TRUE]
          PROVE  r \in All /\ (~r.error => r.key = FirstOf(keys, forward))
      BY <2>3
    <2> HIDE DEF All
    <2> QED
      BY <2>1, <2>2, <2>3
  <1>3. CASE d \in BlockFunction(j, forward, from) /\ ~(j = i /\ IsOpen(i))
    <2>1. CASE d \in Rests(j, forward, from)
      BY <1>2, <1>3, <2>1
    <2>2. CASE MayPrune(j) /\ d = [item |-> j, key |-> None, error |-> FALSE]
      BY <1>3, <2>2
    <2> QED
      BY <1>3, <2>1, <2>2 DEF BlockFunction
  <1>4. CASE j = i /\ IsOpen(i)
    <2>1. data.item = j /\ data.error \in BOOLEAN
      BY <1>4 DEF IsOpen, PlaceInv
    <2>2. PICK r \in Rests(j, forward, from) : d = [r EXCEPT !.error = @ \/ data.error]
      BY <1>4, <2>1 DEF Shown, InitDataBlock
    <2>3. r \in All /\ (~r.error => r.key = FirstOf(keys, forward))
      BY <1>2
    <2> HIDE DEF keys
    <2>4. /\ d.item = j /\ d.key = r.key /\ d.error = (r.error \/ data.error)
          /\ d \in All
      BY <2>1, <2>2, <2>3
    <2> QED
      BY <2>3, <2>4 DEF keys
  <1> QED
    BY <1>3, <1>4 DEF Shown, InitDataBlock

\* A key that a client relies on is never in an item that a move passes
\* without an error.
LEMMA PassedIsEmpty ==
    ASSUME ItemsInv, PlaceInv, NEW i \in Int, NEW forward \in BOOLEAN, NEW from \in Int,
           NEW j \in Items,
           [item |-> j, key |-> None, error |-> FALSE] \in Shown(j, i, forward, from)
    PROVE  From(items[j], forward, from) \cap Wanted = {}
  <1> DEFINE d == [item |-> j, key |-> None, error |-> FALSE]
             keys == From(items[j], forward, from)
  <1>1. None = FirstOf(keys, forward) \/ MayPrune(j)
    <2>1. d.key = None /\ ~d.error
      OBVIOUS
    <2> HIDE DEF d
    <2> QED
      BY <2>1, ShownOfItem DEF d
  <1>2. keys \in SUBSET Keys /\ keys \subseteq items[j]
    BY ItemsApart DEF From
  <1> HIDE DEF keys
  <1>3. CASE None = FirstOf(keys, forward)
    <2>1. keys = {}
      BY <1>2, <1>3, KeysOfASet, TwoLevelAssumption
    <2> QED
      BY <2>1 DEF keys
  <1>4. CASE MayPrune(j)
    <2>1. /\ hint # None /\ hint[1] \in Int /\ hint[2] \in Int
          /\ \A k \in items[j] : k \in Int /\ (k < hint[1] \/ hint[2] < k)
      BY <1>4, ItemsApart, TwoLevelAssumption DEF MayPrune, ItemsInv
    <2>2. \A k \in items[j] : k \notin Wanted
      BY <2>1 DEF Wanted
    <2> QED
      BY <1>2, <2>2 DEF keys
  <1> QED
    BY <1>1, <1>3, <1>4

\* What a move passes is without a key, what it stops at has one, and each
\* error is saved or shown.
Moved(i, forward, from, stop, passed, bad) ==
    LET Empty(j) == [item |-> j, key |-> None, error |-> j \in bad]
        left == IF IsOpen(i) \/ data = None THEN {} ELSE {data}
    IN  /\ passed = IF stop = None THEN From(Items, forward, i)
                    ELSE From(Items, forward, i) \ From(From(Items, forward, i), forward, stop)
        /\ stop \in From(Items, forward, i) \cup {None} /\ bad \subseteq passed
        /\ \A j \in passed : Empty(j) \in Shown(j, i, forward, from)
        /\ stop = None => data' = None /\ index' = End
        /\ stop # None => /\ data' \in Shown(stop, i, forward, from)
                          /\ data'.key # None /\ index' = stop
        /\ status_' \in BOOLEAN
        /\ status_' <=> status_ \/ bad # {} \/ \E d \in left : d.error
        /\ failed' = (failed \/ bad # {} \/ (data' # None /\ data'.error))
        /\ asked' = [forward |-> forward, from |-> from]
        /\ UNCHANGED <<items, dividers, hint>>

LEMMA MoveMoves ==
    ASSUME NEW i \in Int, NEW forward \in BOOLEAN, NEW from \in Int, Move(i, forward, from)
    PROVE  \E stop, passed, bad : Moved(i, forward, from, stop, passed, bad)
  <1> DEFINE path == From(Items, forward, i)
             Passed(stop) == IF stop = None THEN path ELSE path \ From(path, forward, stop)
             Empty(j, bad) == [item |-> j, key |-> None, error |-> j \in bad]
             EmptyOnes(stop, bad) == {Empty(j, bad) : j \in Passed(stop)}
             left == IF IsOpen(i) \/ data = None THEN {} ELSE {data}
  <1>1. PICK stop \in path \cup {None} : \E bad \in SUBSET Passed(stop) :
          /\ \A d \in EmptyOnes(stop, bad) : d \in Shown(d.item, i, forward, from)
          /\ data' \in IF stop = None THEN {None}
                       ELSE {d \in Shown(stop, i, forward, from) : d.key # None}
          /\ index' = IF stop = None THEN End ELSE stop
          /\ status_' = SaveError(left \cup EmptyOnes(stop, bad))
          /\ failed' = (failed \/ bad # {} \/ (data' # None /\ data'.error))
    BY DEF Move, Shown
  <1>11. PICK bad \in SUBSET Passed(stop) :
          /\ \A d \in EmptyOnes(stop, bad) : d \in Shown(d.item, i, forward, from)
          /\ data' \in IF stop = None THEN {None}
                       ELSE {d \in Shown(stop, i, forward, from) : d.key # None}
          /\ index' = IF stop = None THEN End ELSE stop
          /\ status_' = SaveError(left \cup EmptyOnes(stop, bad))
          /\ failed' = (failed \/ bad # {} \/ (data' # None /\ data'.error))
    BY <1>1
  <1>2. PICK passed : passed = Passed(stop)
    OBVIOUS
  <1>3. asked' = [forward |-> forward, from |-> from] /\ UNCHANGED <<items, dividers, hint>>
    BY DEF Move
  <1>4. \A j \in passed : Empty(j, bad) \in Shown(j, i, forward, from)
    <2> TAKE j \in passed
    <2>1. Empty(j, bad).item = j /\ Empty(j, bad) \in EmptyOnes(stop, bad)
      BY <1>2
    <2> HIDE DEF Empty, EmptyOnes
    <2> QED
      BY <1>11, <2>1
  <1>5. status_' = (status_ \/ \E d \in left \cup EmptyOnes(stop, bad) : d.error)
    BY <1>11 DEF SaveError
  <1>6. (\E d \in EmptyOnes(stop, bad) : d.error) <=> bad # {}
    <2>1. \A j \in passed : Empty(j, bad).error <=> j \in bad
      OBVIOUS
    <2> HIDE DEF Empty, Passed
    <2> QED
      BY <1>2, <2>1
  <1>7. status_' \in BOOLEAN /\ (status_' <=> status_ \/ bad # {} \/ \E d \in left : d.error)
    BY <1>5, <1>6
  <1>8. Moved(i, forward, from, stop, passed, bad)
    <2>1. stop = None => data' = None /\ index' = End
      BY <1>11
    <2>2. stop # None => /\ data' \in Shown(stop, i, forward, from)
                         /\ data'.key # None /\ index' = stop
      BY <1>11
    <2>3. bad \subseteq passed
      BY <1>2
    <2> QED
      BY <1>11, <1>2, <1>3, <1>4, <1>7, <2>1, <2>2, <2>3 DEF Moved
  <1> QED
    BY <1>8

\* The items that a move does not come to have no key it looks for.
Reaches(i, forward, from) ==
    \A j \in Items \ From(Items, forward, i) : From(items[j], forward, from) = {}

\* What a move stops at is a key from there on.
LEMMA StopsAtKey ==
    ASSUME ItemsInv, PlaceInv, NEW i \in Int, NEW forward \in BOOLEAN, NEW from \in Int,
           NEW stop, NEW passed, NEW bad, Moved(i, forward, from, stop, passed, bad),
           stop # None
    PROVE  /\ stop \in Items /\ index' = stop
           /\ data' \in [item : {stop}, key : From(items[stop], forward, from), error : BOOLEAN]
           /\ ~data'.error =>
                data'.key = FirstOf(From(items[stop], forward, from), forward)
  <1>1. /\ stop \in Items /\ index' = stop
        /\ data' \in Shown(stop, i, forward, from) /\ data'.key # None
    BY DEF Moved, From
  <1>2. PICK d : d = data'
    OBVIOUS
  <1>3. d \in Shown(stop, i, forward, from) /\ d.key # None
    BY <1>1, <1>2
  <1> DEFINE keys == From(items[stop], forward, from)
  <1>4. /\ d \in [item : {stop}, key : keys \cup {None}, error : BOOLEAN]
        /\ ~d.error => d.key = FirstOf(keys, forward) \/ d.key = None
    BY <1>1, <1>3, ShownOfItem
  <1> HIDE DEF keys
  <1>5. /\ d \in [item : {stop}, key : keys, error : BOOLEAN]
        /\ ~d.error => d.key = FirstOf(keys, forward)
    BY <1>3, <1>4
  <1> QED
    BY <1>1, <1>2, <1>5 DEF keys

LEMMA MoveKeepsPlace ==
    ASSUME ItemsInv, PlaceInv, HistoryInv, NEW i \in Int, NEW forward \in BOOLEAN, NEW from \in Int,
           NEW stop, NEW passed, NEW bad, Moved(i, forward, from, stop, passed, bad)
    PROVE  ItemsInv' /\ PlaceInv' /\ HistoryInv'
  <1>1. items' = items /\ dividers' = dividers /\ hint' = hint
    BY DEF Moved
  <1>2. Items' = Items /\ End' = End /\ Items = 1..Len(items) /\ End = Len(items) + 1 /\ Len(items) \in Nat
    BY <1>1 DEF Items, End, ItemsInv
  <1>3. ItemsInv'
    BY <1>1, <1>2 DEF ItemsInv, InOrder
  <1>4. PlaceInv'
    <2>1. CASE stop = None
      <3>1. data' = None /\ index' = End
        BY <2>1 DEF Moved
      <3> QED
        BY <1>2, <3>1 DEF PlaceInv
    <2>2. CASE stop # None
      <3>1. /\ stop \in Items /\ index' = stop
            /\ data' \in [item : {stop}, key : From(items[stop], forward, from), error : BOOLEAN]
        BY <2>2, StopsAtKey
      <3>2. From(items[stop], forward, from) \subseteq items[stop] /\ items[stop] \subseteq Keys
        BY <3>1, ItemsApart DEF From
      <3>3. /\ data' \in [item : Items, key : Keys, error : BOOLEAN]
            /\ data'.item = stop /\ data'.key \in items[stop]
        BY <3>1, <3>2
      <3>4. data' # None
        <4>1. \A d \in [item : Items, key : Keys, error : BOOLEAN] :
                d \in [item : 1..MaxItems, key : Keys, error : BOOLEAN]
          <5>1. \A k \in Items : k \in 1..MaxItems
            BY <1>2, TwoLevelAssumption DEF ItemsInv
          <5> QED
            BY <5>1
        <4> QED
          BY <3>3, <4>1, TwoLevelAssumption
      <3>5. stop \in 1..End /\ stop # End
        BY <1>2, <3>1
      <3> QED
        BY <1>1, <1>2, <3>1, <3>3, <3>4, <3>5 DEF PlaceInv
    <2> QED
      BY <2>1, <2>2
  <1>5. HistoryInv'
    <2>1. status_' \in BOOLEAN /\ asked' = [forward |-> forward, from |-> from]
      BY DEF Moved
    <2>2. failed' \in BOOLEAN
      BY DEF Moved, HistoryInv
    <2> QED
      BY <2>1, <2>2 DEF HistoryInv
  <1> QED
    BY <1>3, <1>4, <1>5

LEMMA MoveReportsErrors ==
    ASSUME ItemsInv, PlaceInv, HistoryInv, ErrorsAreReported,
           NEW i \in Int, NEW forward \in BOOLEAN, NEW from \in Int,
           NEW stop, NEW passed, NEW bad, Moved(i, forward, from, stop, passed, bad)
    PROVE  ErrorsAreReported'
  <1>1. SUFFICES ASSUME failed', ~status_', data' # None => ~data'.error
                 PROVE  FALSE
    BY DEF ErrorsAreReported, StatusOK
  <1>2. ~status_ /\ bad = {}
    BY <1>1 DEF Moved
  <1>3. failed
    BY <1>1, <1>2 DEF Moved
  <1>4. data # None /\ data.error
    BY <1>2, <1>3 DEF ErrorsAreReported, StatusOK
  <1>5. IsOpen(i)
    BY <1>1, <1>4 DEF Moved
  <1>6. i \in Items /\ i \in From(Items, forward, i)
    <2>1. i \in Items
      BY <1>5 DEF IsOpen, PlaceInv
    <2> QED
      BY <2>1 DEF From
  <1>7. CASE i \in passed
    <2> DEFINE d == [item |-> i, key |-> None, error |-> FALSE]
    <2>1. (i \in bad) = FALSE
      BY <1>2
    <2>2. d \in Shown(i, i, forward, from)
      BY <1>7, <2>1 DEF Moved
    <2>3. ~d.error
      OBVIOUS
    <2> HIDE DEF d
    <2> QED
      BY <1>4, <1>5, <1>6, <2>2, <2>3, ShownOfItem
  <1>8. CASE i \notin passed
    <2>1. stop # None
      BY <1>6, <1>8 DEF Moved
    <2>2. stop \in Items /\ stop \in From(Items, forward, i)
      BY <2>1, StopsAtKey DEF Moved
    <2>3. i \in From(From(Items, forward, i), forward, stop)
      BY <1>6, <1>8, <2>1 DEF Moved
    <2>4. stop = i
      BY <1>6, <2>2, <2>3 DEF From, Items
    <2>5. PICK d : d = data' /\ d \in Shown(i, i, forward, from)
      BY <2>1, <2>4 DEF Moved
    <2>6. d.error
      BY <1>4, <1>5, <1>6, <2>5, ShownOfItem
    <2>7. data' # None
      <3>1. PlaceInv'
        BY MoveKeepsPlace
      <3>2. index' = stop /\ stop \in Items
        BY <2>1, StopsAtKey
      <3>21. items' = items
        BY DEF Moved
      <3>3. End' = Len(items) + 1 /\ Items = 1..Len(items) /\ Len(items) \in Nat
        BY <3>21 DEF End, Items, ItemsInv
      <3>4. index' # End'
        BY <3>2, <3>3
      <3> QED
        BY <3>1, <3>4 DEF PlaceInv
    <2> QED
      BY <1>1, <2>5, <2>6, <2>7
  <1> QED
    BY <1>7, <1>8

LEMMA MovePassesNothing ==
    ASSUME ItemsInv, PlaceInv, HistoryInv, NEW i \in Int, NEW forward \in BOOLEAN, NEW from \in Int,
           Reaches(i, forward, from),
           NEW stop, NEW passed, NEW bad, Moved(i, forward, from, stop, passed, bad)
    PROVE  NothingPassedOver'
  <1> DEFINE path == From(Items, forward, i)
  <1>1. SUFFICES ASSUME ~status_', data' # None => ~data'.error
                 PROVE  /\ data' # None => data'.key \in From(Keys, forward, from)
                        /\ \A k \in From(Wanted, forward, from) :
                             data' # None /\ data'.key \in From(Keys, ~forward, k)
    <2>1. items' = items /\ hint' = hint /\ asked' = [forward |-> forward, from |-> from]
      BY DEF Moved
    <2>2. Wanted' = Wanted /\ asked'.forward = forward /\ asked'.from = from
      BY <2>1 DEF Wanted, Items
    <2> QED
      BY <1>1, <2>2 DEF NothingPassedOver, StatusOK, From
  <1>2. bad = {}
    BY <1>1 DEF Moved
  <1>3. \A j \in passed : From(items[j], forward, from) \cap Wanted = {}
    <2> TAKE j \in passed
    <2>1. j \in Items
      BY DEF Moved, From
    <2>2. (j \in bad) = FALSE
      BY <1>2
    <2>3. [item |-> j, key |-> None, error |-> FALSE] \in Shown(j, i, forward, from)
      BY <2>2 DEF Moved
    <2> QED
      BY <2>1, <2>3, PassedIsEmpty
  <1>4. \A k \in From(Wanted, forward, from) :
          \E j \in path \ passed : k \in From(items[j], forward, from)
    <2> TAKE k \in From(Wanted, forward, from)
    <2>1. PICK j \in Items : k \in items[j]
      BY DEF From, Wanted
    <2>2. k \in From(items[j], forward, from) /\ k \in Wanted
      BY <2>1 DEF From
    <2>3. j \in path
      BY <2>2 DEF Reaches
    <2> QED
      BY <1>3, <2>2, <2>3
  <1>5. CASE stop = None
    <2>1. path \ passed = {} /\ data' = None
      BY <1>5 DEF Moved
    <2> HIDE DEF path
    <2> QED
      BY <1>4, <2>1
  <1>6. CASE stop # None
    <2>1. /\ stop \in Items /\ index' = stop
          /\ data' \in [item : {stop}, key : From(items[stop], forward, from), error : BOOLEAN]
          /\ ~data'.error => data'.key = FirstOf(From(items[stop], forward, from), forward)
      BY <1>6, StopsAtKey
    <2>2. data' # None
      <3>1. PlaceInv'
        BY MoveKeepsPlace
      <3>11. items' = items
        BY DEF Moved
      <3>2. End' = Len(items) + 1 /\ Items = 1..Len(items) /\ Len(items) \in Nat
        BY <3>11 DEF End, Items, ItemsInv
      <3>3. index' # End'
        BY <2>1, <3>2
      <3> QED
        BY <3>1, <3>3 DEF PlaceInv
    <2>3. PICK key : key = data'.key
      OBVIOUS
    <2>4. /\ key \in From(items[stop], forward, from)
          /\ key = FirstOf(From(items[stop], forward, from), forward)
      BY <1>1, <2>1, <2>2, <2>3
    <2>5. /\ From(items[stop], forward, from) \in SUBSET Keys
          /\ From(items[stop], forward, from) \subseteq items[stop]
      BY <2>1, ItemsApart DEF From
    <2>6. key \in From(Keys, forward, from)
      BY <2>4, <2>5 DEF From
    <2>7. ASSUME NEW k \in From(Wanted, forward, from)
          PROVE  key \in From(Keys, ~forward, k)
      <3>1. PICK j \in path \ passed : k \in From(items[j], forward, from)
        BY <1>4
      <3>2. j \in From(path, forward, stop)
        BY <1>6, <3>1 DEF Moved
      <3>3. j \in Items /\ IF forward THEN stop <= j ELSE j <= stop
        BY <3>2 DEF From
      <3>4. CASE j = stop
        <4>1. From(items[stop], forward, from) # {}
          BY <2>4
        <4> QED
          BY <2>4, <2>5, <3>1, <3>4, <4>1, KeysOfASet
      <3>5. CASE j # stop
        <4>1. key \in items[stop] /\ k \in items[j] /\ key \in Keys
          BY <2>4, <2>5, <3>1 DEF From
        <4>2. j \in Nat /\ stop \in Nat
          BY <2>1, <3>3, ItemsApart
        <4>3. IF forward THEN key < k ELSE k < key
          BY <2>1, <3>3, <3>5, <4>1, <4>2, ItemsApart
        <4>4. key \in Int /\ k \in Int
          BY <4>1, <3>3, ItemsApart, TwoLevelAssumption
        <4> QED
          BY <4>1, <4>3, <4>4 DEF From
      <3> QED
        BY <3>4, <3>5
    <2> QED
      BY <2>2, <2>3, <2>6, <2>7
  <1> QED
    BY <1>5, <1>6

LEMMA MoveKeepsInvariant ==
    ASSUME IteratorInv, NEW i \in Int, NEW forward \in BOOLEAN, NEW from \in Int,
           Reaches(i, forward, from), Move(i, forward, from)
    PROVE  IteratorInv'
  <1>1. PICK stop, passed, bad : Moved(i, forward, from, stop, passed, bad)
    BY MoveMoves
  <1>2. /\ ItemsInv /\ PlaceInv /\ HistoryInv /\ ErrorsAreReported
    BY DEF IteratorInv
  <1> QED
    BY <1>1, <1>2, MoveKeepsPlace, MoveReportsErrors, MovePassesNothing DEF IteratorInv

-----------------------------------------------------------------------------
(* Calls.                                                                  *)

\* The index leads Seek past items that end before the target only.
LEMMA SeekReaches ==
    ASSUME ItemsInv, NEW target \in Keys
    PROVE  SeekIndex(target) \in Int /\ Reaches(SeekIndex(target), TRUE, target)
  <1> DEFINE reach == {i \in Items : target <= dividers[i]}
  <1>1. Len(items) \in Nat /\ Items = 1..Len(items) /\ reach \in SUBSET Nat
    BY DEF ItemsInv, Items
  <1>2. \A j \in Items \ reach : From(items[j], TRUE, target) = {}
    <2> TAKE j \in Items \ reach
    <2>1. /\ items[j] \subseteq Int /\ Max(items[j]) \in Int
          /\ \A x \in items[j] : x <= Max(items[j])
      BY ItemsApart, KeysOfASet
    <2>2. Max(items[j]) <= dividers[j] /\ dividers[j] \in Int /\ target \in Int
      BY TwoLevelAssumption DEF ItemsInv
    <2>3. ~(target <= dividers[j])
      OBVIOUS
    <2> QED
      BY <2>1, <2>2, <2>3 DEF From
  <1>3. CASE reach = {}
    <2>1. SeekIndex(target) = Len(items) + 1
      BY <1>3 DEF SeekIndex, End
    <2>2. \A j \in Items : j \in Items \ reach
      BY <1>3
    <2> HIDE DEF reach
    <2>3. Reaches(SeekIndex(target), TRUE, target)
      BY <1>2, <2>2 DEF Reaches
    <2>4. SeekIndex(target) \in Int
      BY <1>1, <2>1
    <2> QED
      BY <2>3, <2>4
  <1>4. CASE reach # {}
    <2>1. SeekIndex(target) = Min(reach)
      BY <1>4 DEF SeekIndex
    <2>2. Min(reach) \in reach /\ \A j \in reach : Min(reach) <= j
      <3> HIDE DEF reach
      <3> QED
        BY <1>1, <1>4, MinIsLeast
    <2>3. \A j \in Items \ From(Items, TRUE, SeekIndex(target)) : j \in Items \ reach
      BY <2>1, <2>2 DEF From
    <2> HIDE DEF reach
    <2>4. Reaches(SeekIndex(target), TRUE, target)
      BY <1>2, <2>3 DEF Reaches
    <2>5. Min(reach) \in Nat
      BY <1>1, <2>2
    <2>6. SeekIndex(target) \in Int
      BY <2>1, <2>5
    <2> QED
      BY <2>4, <2>6
  <1> QED
    BY <1>3, <1>4

\* The items before the current one end before the current key, and those
\* after it begin after it.
LEMMA StepReaches ==
    ASSUME ItemsInv, PlaceInv, Valid
    PROVE  /\ index \in Int /\ data.key \in Int
           /\ Reaches(index, TRUE, data.key + 1) /\ Reaches(index, FALSE, data.key - 1)
  <1>1. /\ index \in Items /\ data.key \in items[index] /\ data.key \in Int
    BY TwoLevelAssumption DEF Valid, PlaceInv
  <1>2. PICK key : key = data.key
    OBVIOUS
  <1>3. key \in items[index] /\ key \in Int /\ index \in Nat
    BY <1>1, <1>2, ItemsApart
  <1>4. \A j \in Items : /\ j \in Nat /\ items[j] \subseteq Int
                         /\ j < index => \A x \in items[j] : x < key
                         /\ index < j => \A x \in items[j] : key < x
    BY <1>1, <1>3, ItemsApart, TwoLevelAssumption
  <1>5. Reaches(index, TRUE, key + 1)
    BY <1>3, <1>4 DEF Reaches, From
  <1>6. Reaches(index, FALSE, key - 1)
    BY <1>3, <1>4 DEF Reaches, From
  <1>7. Reaches(index, TRUE, data.key + 1) /\ Reaches(index, FALSE, data.key - 1)
    BY <1>2, <1>5, <1>6
  <1>8. index \in Int /\ data.key \in Int
    BY <1>1, <1>3
  <1> QED
    BY <1>7, <1>8

LEMMA IteratorInit == Init => IteratorInv
  <1> SUFFICES ASSUME Init
               PROVE  IteratorInv
    OBVIOUS
  <1>1. PICK n \in 0..MaxItems : items \in [1..n -> (SUBSET Keys) \ {{}}]
    BY DEF Init
  <1>2. items \in Seq((SUBSET Keys) \ {{}}) /\ Len(items) <= MaxItems
    BY <1>1, TwoLevelAssumption
  <1>3. ItemsInv
    BY <1>2 DEF Init, ItemsInv
  <1>4. Len(items) \in Nat
    BY <1>2
  <1>5. PlaceInv
    BY <1>4 DEF Init, PlaceInv, End
  <1>6. Max(Keys) \in Int
    BY Extremes, TwoLevelAssumption
  <1>7. HistoryInv
    <2>1. [forward |-> TRUE, from |-> Max(Keys) + 1] \in [forward : BOOLEAN, from : Int]
      BY <1>6
    <2> QED
      BY <2>1 DEF Init, HistoryInv
  <1>8. ErrorsAreReported
    BY DEF Init, ErrorsAreReported
  <1>9. From(Wanted, asked.forward, asked.from) = {}
    <2>1. \A k \in Wanted : k \in Keys
      BY ItemsApart, <1>3 DEF Wanted
    <2>2. \A k \in Keys : k \in Int /\ k <= Max(Keys)
      BY Extremes, TwoLevelAssumption
    <2>3. \A k \in Keys : ~(Max(Keys) + 1 <= k)
      BY <1>6, <2>2
    <2>4. asked.forward = TRUE /\ asked.from = Max(Keys) + 1
      BY DEF Init
    <2> QED
      BY <2>1, <2>3, <2>4 DEF From
  <1>10. NothingPassedOver
    BY <1>9 DEF Init, NothingPassedOver
  <1> QED
    BY <1>3, <1>5, <1>7, <1>8, <1>10 DEF IteratorInv

LEMMA IteratorNext == IteratorInv /\ [Next]_vars => IteratorInv'
  <1> SUFFICES ASSUME IteratorInv, [Next]_vars
               PROVE  IteratorInv'
    OBVIOUS
  <1>1. ItemsInv /\ PlaceInv /\ HistoryInv
    BY DEF IteratorInv
  <1>2. Len(items) \in Nat /\ Items = 1..Len(items)
    BY <1>1 DEF ItemsInv, Items
  <1>3. ASSUME NEW target \in Keys, Seek(target)
        PROVE  IteratorInv'
    BY <1>1, <1>3, SeekReaches, MoveKeepsInvariant, TwoLevelAssumption DEF Seek
  <1>4. Min(Keys) \in Int /\ Max(Keys) \in Int
    BY Extremes, TwoLevelAssumption
  <1>5. CASE SeekToFirst
    <2>1. Reaches(1, TRUE, Min(Keys))
      BY <1>2 DEF Reaches, From
    <2>2. Move(1, TRUE, Min(Keys))
      BY <1>5 DEF SeekToFirst
    <2>3. PICK first \in Int, from \in Int : first = 1 /\ from = Min(Keys)
      BY <1>4
    <2>4. Reaches(first, TRUE, from) /\ Move(first, TRUE, from)
      BY <2>1, <2>2, <2>3
    <2> QED
      BY <2>4, MoveKeepsInvariant
  <1>6. CASE SeekToLast
    <2>1. Reaches(Len(items), FALSE, Max(Keys))
      BY <1>2 DEF Reaches, From
    <2>2. Move(Len(items), FALSE, Max(Keys))
      BY <1>6 DEF SeekToLast
    <2>3. PICK last \in Int, from \in Int : last = Len(items) /\ from = Max(Keys)
      BY <1>2, <1>4
    <2>4. Reaches(last, FALSE, from) /\ Move(last, FALSE, from)
      BY <2>1, <2>2, <2>3
    <2> QED
      BY <2>4, MoveKeepsInvariant
  <1>7. CASE Next_
    <2>1. PICK key : key = data.key
      OBVIOUS
    <2>2. /\ index \in Int /\ key \in Int
          /\ Reaches(index, TRUE, key + 1) /\ Move(index, TRUE, key + 1)
      BY <1>1, <1>7, <2>1, StepReaches DEF Next_
    <2>3. key + 1 \in Int
      BY <2>2
    <2> QED
      BY <2>2, <2>3, MoveKeepsInvariant
  <1>8. CASE Prev
    <2>1. PICK key : key = data.key
      OBVIOUS
    <2>2. /\ index \in Int /\ key \in Int
          /\ Reaches(index, FALSE, key - 1) /\ Move(index, FALSE, key - 1)
      BY <1>1, <1>8, <2>1, StepReaches DEF Prev
    <2>3. key - 1 \in Int
      BY <2>2
    <2> QED
      BY <2>2, <2>3, MoveKeepsInvariant
  <1>9. CASE UNCHANGED vars
    <2>1. ItemsInv'
      BY <1>1, <1>9 DEF vars, ItemsInv, InOrder, Items
    <2>2. PlaceInv' /\ HistoryInv'
      BY <1>1, <1>9 DEF vars, PlaceInv, HistoryInv, Items, End
    <2>3. NothingPassedOver'
      BY <1>9 DEF IteratorInv, vars, NothingPassedOver, StatusOK, Wanted, Items
    <2>4. ErrorsAreReported'
      BY <1>9 DEF IteratorInv, vars, ErrorsAreReported, StatusOK
    <2> QED
      BY <2>1, <2>2, <2>3, <2>4 DEF IteratorInv
  <1> QED
    BY <1>3, <1>5, <1>6, <1>7, <1>8, <1>9 DEF Next

-----------------------------------------------------------------------------
(* Theorems.                                                               *)

\* For any number of items, any dividers, range, errors and order of calls,
\* the iterator is where its index is, and the rest of IteratorInv holds.
\* (two_level_iterator.cc)
THEOREM IteratorInvariant == Spec => []IteratorInv
  BY IteratorInit, IteratorNext, PTL DEF Spec

\* Every reachable state has the types of TypeOK: the data iterator is at a
\* key of the item that the index is at.  (InitDataBlock, SetDataIterator)
THEOREM IteratorTypeCorrect == Spec => []TypeOK
  <1>1. IteratorInv => TypeOK
    <2> SUFFICES ASSUME IteratorInv
                 PROVE  TypeOK
      OBVIOUS
    <2>1. \A i \in Items : items[i] # {} /\ items[i] \subseteq Keys
      BY ItemsApart DEF IteratorInv
    <2>2. InOrder /\ (hint = None \/ hint \in Keys \X Keys)
      BY DEF IteratorInv, ItemsInv
    <2>3. /\ index \in 1..End
          /\ index = End <=> data = None
          /\ data # None =>
               data.item = index /\ data.key \in items[index] /\ data.error \in BOOLEAN
      BY DEF IteratorInv, PlaceInv
    <2>4. /\ status_ \in BOOLEAN /\ failed \in BOOLEAN
          /\ asked.forward \in BOOLEAN /\ asked.from \in Int
      BY DEF IteratorInv, HistoryInv
    <2> QED
      BY <2>1, <2>2, <2>3, <2>4 DEF TypeOK
  <1> QED
    BY <1>1, IteratorInvariant, PTL

\* An iterator that says ok is at the nearest key from where the last call
\* began: no key that a client relies on has been passed over, whatever
\* items were empty, left out or looked into before.
\* (Seek, Next, Prev, SkipEmptyDataBlocksForward, SkipEmptyDataBlocksBackward)
THEOREM PassesNothingOver == Spec => []NothingPassedOver
  <1>1. IteratorInv => NothingPassedOver
    BY DEF IteratorInv
  <1> QED
    BY <1>1, IteratorInvariant, PTL

\* An error that any of the data iterators met stays visible in status().
\* (SetDataIterator, SaveError, status)
THEOREM ReportsErrors == Spec => []ErrorsAreReported
  <1>1. IteratorInv => ErrorsAreReported
    BY DEF IteratorInv
  <1> QED
    BY <1>1, IteratorInvariant, PTL
=============================================================================
