----------------------------- MODULE FilterBlock -----------------------------
(***************************************************************************)
(* The filter block of a table: what FilterBlockBuilder writes and how     *)
(* FilterBlockReader reads it back, with the SuRF policy behind both.      *)
(*                                                                         *)
(* A block is a region of size bytes, which holds what the policy made for *)
(* the set keys, the 32-bit words after it, the last of which is the place *)
(* of the offset array, and the byte base_lg, given here as the power of    *)
(* two it stands for.  A slice of the region is either empty or the whole  *)
(* filter.                                                                 *)
(***************************************************************************)
EXTENDS Integers, Sequences

CONSTANTS
    FilterBytes,    \* bytes the policy appends for one or more keys
    BaseSize,       \* 2^base_lg_ of a block with a filter; 2^32 in the code
    EmptyMatches    \* what the policy says of an empty filter; TRUE for SuRF

kFilterBase == 2048  \* 2^kFilterBaseLg

ASSUME FilterAssumption ==
    FilterBytes \in Nat \ {0} /\ BaseSize \in Nat \ {0} /\ EmptyMatches \in BOOLEAN

\* A variant: the keys of the last data block only.
FinishLastBlock(blocks) ==
    [size |-> FilterBytes, keys |-> blocks[Len(blocks)],
     words |-> <<0, FilterBytes, FilterBytes>>, base |-> BaseSize]

\* AddKey in every block, then Finish: one filter of all the keys, which is
\* entry 0, and a sentinel entry.  No keys give a block without entries.
Finish(blocks) ==
    LET added == UNION {blocks[i] : i \in 1..Len(blocks)}
    IN  IF added = {}
        THEN [size |-> 0, keys |-> {}, words |-> <<0>>, base |-> kFilterBase]
        ELSE [size |-> FilterBytes, keys |-> added,
              words |-> <<0, FilterBytes, FilterBytes>>, base |-> BaseSize]

-----------------------------------------------------------------------------
\* FilterBlockReader: the number of entries, from the length of the block.
ContentsSize(block) == block.size + 4 * Len(block.words) + 1
LastWord(block) == block.words[Len(block.words)]

Num(block) ==
    LET n == ContentsSize(block)
    IN  IF n < 5 \/ LastWord(block) > n - 5 THEN 0 ELSE (n - 5 - LastWord(block)) \div 4

\* The entry i of the offset array and the word after it.
Start(block, i) == block.words[i + 1]
Limit(block, i) == block.words[i + 2]

InRegion(block, i) == Start(block, i) <= Limit(block, i) /\ Limit(block, i) <= LastWord(block)
IsEmpty(block, i) == Start(block, i) = Limit(block, i)

BlockIndex(block, offset) == offset \div block.base

\* KeyMayMatch.  The policy's answer for the whole filter is given: it may
\* come from a cache.
KeyMayMatch(block, offset, answer) ==
    LET i == BlockIndex(block, offset)
    IN  IF i >= Num(block) THEN TRUE
        ELSE IF InRegion(block, i)
             THEN IF IsEmpty(block, i) THEN EmptyMatches ELSE answer
        ELSE ~IsEmpty(block, i)

\* RangeMayMatch: whether some entry may match.
RangeMayMatch(block, answer) ==
    \E i \in 0..(Num(block) - 1) :
        /\ InRegion(block, i)
        /\ IF IsEmpty(block, i) THEN EmptyMatches ELSE answer

\* Whether the policy is asked about the whole filter at all.
AsksForKey(block, offset) ==
    LET i == BlockIndex(block, offset)
    IN  i < Num(block) /\ InRegion(block, i) /\ ~IsEmpty(block, i)

AsksForRange(block) ==
    \E i \in 0..(Num(block) - 1) : InRegion(block, i) /\ ~IsEmpty(block, i)
=============================================================================
