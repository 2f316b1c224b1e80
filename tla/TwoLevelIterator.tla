--------------------------- MODULE TwoLevelIterator ---------------------------
(***************************************************************************)
(* The iterator of two_level_iterator.cc: over the files of a level, whose *)
(* tables it opens one by one (NewConcatenatingIterator), or over the data *)
(* blocks of a table (Table::NewIterator).  An item is a file or a block.  *)
(*                                                                         *)
(* Opening an item, or moving in it, may meet an I/O error: the iterator   *)
(* over a table or block that cannot be read shows nothing, that over a    *)
(* table with an unreadable block goes past the block.  With a range hint  *)
(* (lo and hi of ReadOptions) the filter may have an item without a key in *)
(* the range replaced by an empty iterator.                                *)
(*                                                                         *)
(* Every action is one call of a client, with the whole loop over empty    *)
(* items in it: which items the loop passes follows from what each of them *)
(* shows when it is opened.                                                *)
(***************************************************************************)
EXTENDS Integers, Sequences, FiniteSets, FiniteSetsExt

CONSTANTS
    Keys,       \* the keys that can be in items and be looked for, numbers
    MaxItems,   \* bound: items
    None        \* a null data_iter_, the key of an iterator that is not
                \* valid, an empty lo and hi

ASSUME TwoLevelAssumption ==
    /\ Keys \subseteq Int /\ Keys # {} /\ IsFiniteSet(Keys)
    /\ MaxItems \in Nat
    /\ None \notin Int
    /\ None \notin [item : 1..MaxItems, key : Keys, error : BOOLEAN]

VARIABLES
    items,      \* the keys of each item, in order
    dividers,   \* what the index lists an item under
    hint,       \* lo and hi
    index,      \* where index_iter_ is, End if it is not valid
    data,       \* data_iter_; its item is data_block_handle_
    status_,    \* an error was saved in it
    asked,      \* history: the direction and first key of the last call
    failed      \* history: an error was met

vars == <<items, dividers, hint, index, data, status_, asked, failed>>

Items == 1..Len(items)
End == Len(items) + 1

InOrder == \A i, j \in Items : i < j => Max(items[i]) < Min(items[j])

TypeOK ==
    /\ \A i \in Items : items[i] # {} /\ items[i] \subseteq Keys
    /\ InOrder
    /\ hint = None \/ hint \in Keys \X Keys
    /\ index \in 1..End
    /\ index = End <=> data = None
    /\ data # None =>
         data.item = index /\ data.key \in items[index] /\ data.error \in BOOLEAN
    /\ status_ \in BOOLEAN /\ failed \in BOOLEAN
    /\ asked.forward \in BOOLEAN /\ asked.from \in Int

\* A level has no empty table, and a table no empty block.  A file is listed
\* under its last key; a block under a key from there on, before the next one.
Init ==
    /\ \E n \in 0..MaxItems : items \in [1..n -> (SUBSET Keys) \ {{}}]
    /\ InOrder
    /\ dividers \in [Items -> Keys]
    /\ \A i \in Items :
         /\ Max(items[i]) <= dividers[i]
         /\ i + 1 \in Items => dividers[i] < Min(items[i + 1])
    /\ hint \in {None} \cup (Keys \X Keys)
    /\ index = End
    /\ data = None
    /\ status_ = FALSE
    /\ asked = [forward |-> TRUE, from |-> Max(Keys) + 1]
    /\ failed = FALSE

-----------------------------------------------------------------------------
\* The members of a set from one on, in the direction of the call.
From(set, forward, from) == {x \in set : IF forward THEN from <= x ELSE x <= from}

FirstOf(set, forward) ==
    IF set = {} THEN None ELSE IF forward THEN Min(set) ELSE Max(set)

\* Where the iterator over an item comes to rest that is to go to the first
\* key from there on: on it; after an error, on any of them or nowhere.
Rests(i, forward, from) ==
    LET keys == From(items[i], forward, from)
    IN  {[item |-> i, key |-> FirstOf(keys, forward), error |-> FALSE]}
        \cup {[item |-> i, key |-> k, error |-> TRUE] : k \in keys \cup {None}}

\* A variant: a table that neither end of the range lies in is left out.
MayPruneByEnds(i) ==
    hint # None /\ \A e \in {hint[1], hint[2]} : e < Min(items[i]) \/ Max(items[i]) < e

\* TableCache::NewIterator asks RangeMayMatch only with both lo and hi.
MayPrune(i) ==
    hint # None /\ \A k \in items[i] : k < hint[1] \/ hint[2] < k

\* The block function, and the first move of the iterator it returns.
BlockFunction(i, forward, from) ==
    Rests(i, forward, from)
        \cup IF MayPrune(i) THEN {[item |-> i, key |-> None, error |-> FALSE]} ELSE {}

\* A variant: the open iterator is kept wherever the index is.
IsAnyOpen(i) == data # None

\* The data iterator of this item is open.
IsOpen(i) == data # None /\ data.item = i

\* InitDataBlock, and the move that follows it.
InitDataBlock(i, forward, from) ==
    IF IsOpen(i)
    THEN {[d EXCEPT !.error = @ \/ data.error] : d \in Rests(data.item, forward, from)}
    ELSE BlockFunction(i, forward, from)

\* A variant: the errors of iterators that are let go of are forgotten.
SaveNoError(replaced) == status_

\* SetDataIterator, for each data iterator that is replaced.
SaveError(replaced) == status_ \/ \E d \in replaced : d.error

\* From item i on, SkipEmptyDataBlocksForward or Backward to the first item
\* that shows a key.  The items farther on are entered at their near end,
\* which is the first key from there on too.
Move(i, forward, from) ==
    LET path == From(Items, forward, i)
        Shown(j) == IF j = i THEN InitDataBlock(j, forward, from)
                             ELSE BlockFunction(j, forward, from)
        left == IF IsOpen(i) \/ data = None THEN {} ELSE {data}
    IN  \E stop \in path \cup {None} :
          LET passed == IF stop = None THEN path ELSE path \ From(path, forward, stop)
          IN  \E bad \in SUBSET passed :
                LET empty == {[item |-> j, key |-> None, error |-> j \in bad] : j \in passed}
                IN  /\ \A d \in empty : d \in Shown(d.item)
                    /\ data' \in IF stop = None THEN {None}
                                 ELSE {d \in Shown(stop) : d.key # None}
                    /\ index' = IF stop = None THEN End ELSE stop
                    /\ status_' = SaveError(left \cup empty)
                    /\ failed' = (failed \/ bad # {} \/ (data' # None /\ data'.error))
    /\ asked' = [forward |-> forward, from |-> from]
    /\ UNCHANGED <<items, dividers, hint>>

\* LevelFileNumIterator, or the iterator over an index block: the first item
\* that is listed under the target or a later key.
SeekIndex(target) ==
    LET reach == {i \in Items : target <= dividers[i]}
    IN  IF reach = {} THEN End ELSE Min(reach)

Seek(target) == Move(SeekIndex(target), TRUE, target)
SeekToFirst == Move(1, TRUE, Min(Keys))
SeekToLast == Move(Len(items), FALSE, Max(Keys))

Valid == data # None
Next_ == Valid /\ Move(index, TRUE, data.key + 1)
Prev == Valid /\ Move(index, FALSE, data.key - 1)

Next ==
    \/ \E target \in Keys : Seek(target)
    \/ SeekToFirst \/ SeekToLast
    \/ Next_ \/ Prev

Spec == Init /\ [][Next]_vars

-----------------------------------------------------------------------------
(* Properties.                                                             *)

\* status()
StatusOK == ~status_ /\ (data # None => ~data.error)

\* The keys a client that gave a range may rely on.
Wanted == {k \in UNION {items[i] : i \in Items} :
              hint = None \/ (hint[1] <= k /\ k <= hint[2])}

\* A client that sees ok has not been led past a key: the iterator is at the
\* nearest one from where the last call began, across the ends of files and
\* blocks, keys between two of them, and tables that were left out.  (Seek,
\* Next, Prev, SkipEmptyDataBlocksForward, SkipEmptyDataBlocksBackward)
NothingPassedOver ==
    StatusOK =>
        /\ data # None => data.key \in From(Keys, asked.forward, asked.from)
        /\ \A k \in From(Wanted, asked.forward, asked.from) :
             data # None /\ data.key \in From(Keys, ~asked.forward, k)

\* An error is never lost, whatever iterator met it and however many were
\* opened since.  (SetDataIterator, SaveError, status)
ErrorsAreReported == failed => ~StatusOK
=============================================================================
