------------------------- MODULE TableFilterProofs -------------------------
(***************************************************************************)
(* FilterBlock.tla: what a filter block says of its own table.             *)
(* TableFilter.tla: a handle refers to the table it was taken for, also    *)
(* when memory is used again; and when it is not, no filter ever rules out *)
(* a table that holds what is looked for.                                  *)
(***************************************************************************)
EXTENDS TableFilter, TLAPS

-----------------------------------------------------------------------------
(* Filter blocks, for every filter size, every base_lg and every table.    *)

\* The keys added to a block.
Added(blocks) == UNION {blocks[i] : i \in 1..Len(blocks)}

\* A block that Finish made of some keys has two entries: the filter, and
\* the sentinel, which is empty.
LEMMA TwoEntries ==
    ASSUME NEW blocks, Added(blocks) # {}
    PROVE  LET block == Finish(blocks)
           IN  /\ Num(block) = 2
               /\ InRegion(block, 0) /\ ~IsEmpty(block, 0)
               /\ InRegion(block, 1) /\ IsEmpty(block, 1)
<1> DEFINE block == Finish(blocks)
<1>1. FilterBytes \in Nat \ {0}
  BY FilterAssumption
<1>2. block = [size |-> FilterBytes, keys |-> Added(blocks),
               words |-> <<0, FilterBytes, FilterBytes>>, base |-> BaseSize]
  BY DEF Finish, Added
<1> HIDE DEF block
<1>3. /\ Len(block.words) = 3 /\ block.size = FilterBytes
      /\ block.words[1] = 0 /\ block.words[2] = FilterBytes /\ block.words[3] = FilterBytes
  BY <1>2
<1>4. LastWord(block) = FilterBytes /\ ContentsSize(block) = FilterBytes + 13
  BY <1>1, <1>3 DEF LastWord, ContentsSize
<1>5. Num(block) = 2
  BY <1>1, <1>4 DEF Num
<1>6. InRegion(block, 0) /\ ~IsEmpty(block, 0)
  BY <1>1, <1>3, <1>4 DEF InRegion, IsEmpty, Start, Limit
<1>7. InRegion(block, 1) /\ IsEmpty(block, 1)
  BY <1>1, <1>3, <1>4 DEF InRegion, IsEmpty, Start, Limit
<1> QED
  BY <1>5, <1>6, <1>7 DEF block

\* FilterBlockReader::RangeMayMatch never rules out a table: whatever the
\* policy answers for the filter, the sentinel entry counts as a match.
THEOREM RangesAlwaysMatch ==
    ASSUME NEW blocks, Added(blocks) # {}, NEW answer, EmptyMatches
    PROVE  RangeMayMatch(Finish(blocks), answer)
<1>1. 1 \in 0..(Num(Finish(blocks)) - 1)
  BY TwoEntries
<1> QED
  BY <1>1, TwoEntries DEF RangeMayMatch

\* FilterBlockReader::KeyMayMatch passes the yes of the policy on, whatever
\* the offset of the data block: an offset past the first 2^base_lg bytes
\* leads to the sentinel or past the last entry.
THEOREM KeyInBlockMatches ==
    ASSUME NEW blocks, Added(blocks) # {}, NEW offset \in Nat, EmptyMatches
    PROVE  KeyMayMatch(Finish(blocks), offset, TRUE)
<1> DEFINE block == Finish(blocks)
           i == BlockIndex(block, offset)
<1>1. CASE i >= Num(block)
  BY <1>1 DEF KeyMayMatch
<1>2. CASE ~(i >= Num(block))
  <2>1. block.base \in Nat \ {0}
    BY FilterAssumption DEF Finish, Added
  <2>2. i \in Nat
    BY <2>1 DEF BlockIndex
  <2>3. i \in {0, 1}
    BY <1>2, <2>2, TwoEntries
  <2> QED
    BY <2>3, TwoEntries DEF KeyMayMatch
<1> QED
  BY <1>1, <1>2

-----------------------------------------------------------------------------
(* The invariant.                                                          *)

\* What the cache and the handles refer to is in memory.
ReferencesValid ==
    /\ \A t \in Tables : cache_[t] # NoAddress => memory[cache_[t]] = t
    /\ \A th \in Threads :
        /\ at[th] = "opening" => handle[th] = NoAddress /\ wanted[th] \in Tables
        /\ at[th] \in {"holding", "iterating"} =>
             /\ handle[th] \in Addresses /\ wanted[th] \in Tables
             /\ memory[handle[th]] = wanted[th]

\* A trie that a thread has cached was made from the filter at its address,
\* if that filter is still there.
TriesMatchMemory ==
    \A th \in Threads, kind \in Kinds :
        LET a == last_filter_ptr[th][kind]
        IN  a # NoAddress =>
              /\ a \in used
              /\ memory[a] # NoTable => cached_surf[th][kind] = KeysOf(memory[a])

TablesHaveKeys == \A t \in Tables : KeysOf(t) # {}

\* The inductive invariant behind NoFalseNegative.
FilterInv ==
    /\ TypeOK /\ ReferencesValid
    /\ \A a \in Addresses : memory[a] # NoTable => a \in used
    /\ TriesMatchMemory
    /\ TablesHaveKeys
    /\ NoFalseNegative

-----------------------------------------------------------------------------
(* Blocks.                                                                 *)

\* The filter of a block is made of the keys of the table.
LEMMA BlockKeys ==
    ASSUME NEW blocks \in Seq(SUBSET Keys)
    PROVE  Finish(blocks).keys = Added(blocks) /\ Added(blocks) \subseteq Keys
BY DEF Finish, Added

-----------------------------------------------------------------------------
(* Memory.                                                                 *)

\* A thread that gives its handle back leaves the references of the others.
LEMMA ReleaseKeeps ==
    ASSUME TypeOK, ReferencesValid, NEW th \in Threads, Release(th), UNCHANGED <<cache_, content>>
    PROVE  /\ ReferencesValid'
           /\ memory' \in [Addresses -> Tables \cup {NoTable}]
           /\ at' \in [Threads -> {"idle", "opening", "holding", "iterating"}]
           /\ wanted' \in [Threads -> Tables \cup {NoTable}]
           /\ handle' \in [Threads -> Addresses \cup {NoAddress}]
           /\ \A u \in Threads : at'[u] = "idle" => handle'[u] = NoAddress
           /\ \A a \in Addresses : memory'[a] \in {memory[a], NoTable}
<1>1. /\ memory' \in [Addresses -> Tables \cup {NoTable}]
      /\ \A a \in Addresses : memory'[a] \in {memory[a], NoTable}
      /\ \A a \in Addresses, t \in Tables : cache_'[t] = a => memory'[a] = memory[a]
      /\ \A a \in Addresses, u \in Threads : handle'[u] = a => memory'[a] = memory[a]
  BY DEF Release, TypeOK, KeepReferenced
<1>2. /\ at' = [at EXCEPT ![th] = "idle"]
      /\ wanted' = [wanted EXCEPT ![th] = NoTable]
      /\ handle' = [handle EXCEPT ![th] = NoAddress]
  BY DEF Release
<1>3. ReferencesValid'
  BY <1>1, <1>2 DEF TypeOK, ReferencesValid
<1> QED
  BY <1>1, <1>2, <1>3 DEF TypeOK

\* What is remembered is the trie of the table a thread holds, or the one it
\* had for that address.
LEMMA RememberTypes ==
    ASSUME TypeOK, ReferencesValid, NEW th \in Threads, at[th] = "holding",
           NEW kind \in Kinds, NEW asked, Remember(th, kind, asked)
    PROVE  /\ last_filter_ptr' \in [Threads -> [Kinds -> Addresses \cup {NoAddress}]]
           /\ cached_surf' \in [Threads -> [Kinds -> SUBSET Keys]]
<1>1. handle[th] \in Addresses /\ memory[handle[th]] \in Tables
  BY DEF ReferencesValid
<1>2. Held(th).keys \in SUBSET Keys
  BY <1>1, BlockKeys DEF Held, TypeOK
<1>3. Trie(th, kind) \in SUBSET Keys
  BY <1>2 DEF Trie, TypeOK
<1> QED
  BY <1>1, <1>3 DEF Remember, TypeOK

-----------------------------------------------------------------------------
(* Types and references.                                                   *)

LEMMA InitReferences == Init => TypeOK /\ ReferencesValid
<1> SUFFICES ASSUME Init PROVE TypeOK /\ ReferencesValid
  OBVIOUS
<1>1. ASSUME NEW t \in Tables
      PROVE  content[t] \in Seq(SUBSET Keys)
  <2>1. PICK k \in Keys : \/ content[t] = <<{k}>>
                           \/ content[t] = <<{k}, {l \in Keys : k < l}>>
    BY DEF Init
  <2> DEFINE greater == {l \in Keys : k < l}
  <2>2. {k} \in SUBSET Keys /\ greater \in SUBSET Keys
    OBVIOUS
  <2> HIDE DEF greater
  <2>3. <<{k}>> \in Seq(SUBSET Keys) /\ <<{k}, greater>> \in Seq(SUBSET Keys)
    BY <2>2
  <2> QED
    BY <2>1, <2>3 DEF greater
<1>2. TypeOK
  BY <1>1 DEF Init, TypeOK
<1>3. ReferencesValid
  BY DEF Init, ReferencesValid
<1> QED
  BY <1>2, <1>3

\* Every step keeps the types, and what is referred to.
LEMMA ReferencesStep ==
    ASSUME TypeOK, ReferencesValid, [Next]_vars
    PROVE  TypeOK' /\ ReferencesValid'
<1>1. ASSUME NEW th \in Threads, NEW t \in Tables, FindTable(th, t)
      PROVE  TypeOK' /\ ReferencesValid'
  BY <1>1, TableFilterAssumption DEF TypeOK, ReferencesValid, FindTable
<1>2. ASSUME NEW th \in Threads, OpenTable(th)
      PROVE  TypeOK' /\ ReferencesValid'
  <2>1. PICK a \in Addresses, victims \in Victims(wanted[th]) :
          /\ Free(a)
          /\ used' = used \cup {a}
          /\ cache_' = [t \in Tables |-> IF t = wanted[th] THEN a
                                         ELSE IF t \in victims THEN NoAddress ELSE cache_[t]]
          /\ handle' = [handle EXCEPT ![th] = a]
          /\ memory' = KeepReferenced([memory EXCEPT ![a] = wanted[th]], cache_', handle')
    BY <1>2 DEF OpenTable
  <2>2. wanted[th] \in Tables /\ handle[th] = NoAddress /\ memory[a] = NoTable
    BY <1>2, <2>1 DEF ReferencesValid, OpenTable, Free
  <2>3. /\ cache_' \in [Tables -> Addresses \cup {NoAddress}]
        /\ handle' \in [Threads -> Addresses \cup {NoAddress}]
        /\ used' \subseteq Addresses
        /\ at' \in [Threads -> {"idle", "opening", "holding", "iterating"}]
        /\ UNCHANGED <<content, deleted, wanted, last_filter_ptr, cached_surf, missed>>
        /\ at' = [at EXCEPT ![th] = "holding"]
    BY <1>2, <2>1, <2>2 DEF TypeOK, OpenTable
  <2>4. /\ memory' \in [Addresses -> Tables \cup {NoTable}]
        /\ memory'[a] = wanted[th]
        /\ \A b \in Addresses \ {a} : memory'[b] \in {memory[b], NoTable}
        /\ \A b \in Addresses \ {a}, t \in Tables : cache_'[t] = b => memory'[b] = memory[b]
        /\ \A b \in Addresses \ {a}, u \in Threads : handle'[u] = b => memory'[b] = memory[b]
    BY <2>1, <2>2 DEF TypeOK, KeepReferenced
  <2>5. TypeOK'
    BY <2>1, <2>3, <2>4, TableFilterAssumption DEF TypeOK
  <2>6. \A t \in Tables : cache_'[t] # NoAddress => memory'[cache_'[t]] = t
    <3> SUFFICES ASSUME NEW t \in Tables, cache_'[t] # NoAddress
                 PROVE  memory'[cache_'[t]] = t
      OBVIOUS
    <3>1. CASE t = wanted[th]
      BY <2>1, <2>4, <3>1
    <3>2. CASE t # wanted[th]
      <4>1. cache_'[t] = cache_[t] /\ cache_[t] \in Addresses
        BY <2>1, <3>2 DEF TypeOK
      <4>2. memory[cache_[t]] = t /\ cache_[t] # a
        BY <2>2, <4>1, TableFilterAssumption DEF ReferencesValid
      <4> QED
        BY <2>4, <4>1, <4>2
    <3> QED
      BY <3>1, <3>2
  <2>7. ASSUME NEW u \in Threads, at'[u] \in {"holding", "iterating"}
        PROVE  /\ handle'[u] \in Addresses /\ wanted'[u] \in Tables
               /\ memory'[handle'[u]] = wanted'[u]
    BY <2>1, <2>2, <2>3, <2>4, <2>7, TableFilterAssumption DEF TypeOK, ReferencesValid
  <2>8. ASSUME NEW u \in Threads, at'[u] = "opening"
        PROVE  handle'[u] = NoAddress /\ wanted'[u] \in Tables
    BY <2>1, <2>2, <2>3, <2>8 DEF TypeOK, ReferencesValid
  <2> QED
    BY <2>5, <2>6, <2>7, <2>8 DEF ReferencesValid
<1>3. ASSUME NEW th \in Threads, NEW key \in Keys, NEW offset \in BlockOffsets,
             Get(th, key, offset)
      PROVE  TypeOK' /\ ReferencesValid'
  <2>1. Release(th) /\ UNCHANGED <<content, deleted, used, cache_>>
    BY <1>3 DEF Get
  <2>2. /\ last_filter_ptr' \in [Threads -> [Kinds -> Addresses \cup {NoAddress}]]
        /\ cached_surf' \in [Threads -> [Kinds -> SUBSET Keys]]
    BY <1>3, RememberTypes DEF Get, Kinds
  <2>3. missed' \subseteq Tables
    BY <1>3 DEF Get, Say, TypeOK, ReferencesValid
  <2> QED
    BY <2>1, <2>2, <2>3, ReleaseKeeps DEF TypeOK
<1>4. ASSUME NEW th \in Threads, NEW lo \in Keys, NEW hi \in Keys, NewIterator(th, lo, hi)
      PROVE  TypeOK' /\ ReferencesValid'
  <2>1. \/ Release(th)
        \/ at' = [at EXCEPT ![th] = "iterating"] /\ UNCHANGED <<memory, wanted, handle>>
    BY <1>4 DEF NewIterator
  <2>2. at[th] = "holding" /\ UNCHANGED <<content, deleted, used, cache_>>
    BY <1>4 DEF NewIterator
  <2>3. /\ last_filter_ptr' \in [Threads -> [Kinds -> Addresses \cup {NoAddress}]]
        /\ cached_surf' \in [Threads -> [Kinds -> SUBSET Keys]]
    BY <1>4, RememberTypes DEF NewIterator, Kinds
  <2>4. missed' \subseteq Tables
    BY <1>4 DEF NewIterator, Say, TypeOK, ReferencesValid
  <2>5. CASE Release(th)
    BY <2>2, <2>3, <2>4, <2>5, ReleaseKeeps DEF TypeOK
  <2>6. CASE at' = [at EXCEPT ![th] = "iterating"] /\ UNCHANGED <<memory, wanted, handle>>
    BY <2>2, <2>3, <2>4, <2>6 DEF TypeOK, ReferencesValid
  <2> QED
    BY <2>1, <2>5, <2>6
<1>5. ASSUME NEW th \in Threads, DeleteIterator(th)
      PROVE  TypeOK' /\ ReferencesValid'
  <2>1. /\ Release(th)
        /\ UNCHANGED <<content, deleted, used, cache_, last_filter_ptr, cached_surf, missed>>
    BY <1>5 DEF DeleteIterator
  <2> QED
    BY <2>1, ReleaseKeeps DEF TypeOK
<1>6. ASSUME NEW t \in Tables, Evict(t)
      PROVE  TypeOK' /\ ReferencesValid'
  <2>1. /\ memory' \in [Addresses -> Tables \cup {NoTable}]
        /\ \A a \in Addresses, s \in Tables : cache_'[s] = a => memory'[a] = memory[a]
        /\ \A a \in Addresses, u \in Threads : handle[u] = a => memory'[a] = memory[a]
    BY <1>6 DEF Evict, TypeOK, KeepReferenced
  <2>2. TypeOK'
    BY <1>6, <2>1 DEF Evict, TypeOK
  <2> QED
    BY <1>6, <2>1, <2>2 DEF Evict, TypeOK, ReferencesValid
<1>7. CASE UNCHANGED vars
  BY <1>7 DEF vars, TypeOK, ReferencesValid
<1> QED
  BY <1>1, <1>2, <1>3, <1>4, <1>5, <1>6, <1>7 DEF Next

\* The types of all variables hold in every reachable state.
THEOREM FilterTypeCorrect == Spec => []TypeOK
<1>1. TypeOK /\ ReferencesValid /\ [Next]_vars => (TypeOK /\ ReferencesValid)'
  BY ReferencesStep
<1> QED
  BY InitReferences, <1>1, PTL DEF Spec

\* A thread that holds a handle has the filter block of the table it wants,
\* whoever opens or evicts tables meanwhile and however memory is used
\* again.  (FindTable, Evict, UnrefEntry)
THEOREM HandlesValid == Spec => []HandlesStayValid
<1>1. TypeOK /\ ReferencesValid /\ [Next]_vars => (TypeOK /\ ReferencesValid)'
  BY ReferencesStep
<1>2. ReferencesValid => HandlesStayValid
  BY DEF ReferencesValid, HandlesStayValid
<1> QED
  BY InitReferences, <1>1, <1>2, PTL DEF Spec

-----------------------------------------------------------------------------
(* No false negatives, when memory is not used again.                      *)

\* A thread that holds a table asks a trie of its keys.
LEMMA TrieOfTable ==
    ASSUME FilterInv, NEW th \in Threads, at[th] = "holding", NEW kind \in Kinds
    PROVE  /\ wanted[th] \in Tables
           /\ Held(th) = Finish(content[wanted[th]])
           /\ Added(content[wanted[th]]) = KeysOf(wanted[th])
           /\ Trie(th, kind) = KeysOf(wanted[th])
<1>1. /\ wanted[th] \in Tables /\ handle[th] \in Addresses
      /\ memory[handle[th]] = wanted[th]
  BY DEF FilterInv, ReferencesValid
<1>2. Added(content[wanted[th]]) = KeysOf(wanted[th])
  BY DEF Added, KeysOf
<1>3. Held(th) = Finish(content[wanted[th]])
  BY <1>1 DEF Held
<1>4. Held(th).keys = KeysOf(wanted[th])
  BY <1>1, <1>2, <1>3, BlockKeys DEF FilterInv, TypeOK
<1>5. last_filter_ptr[th][kind] = handle[th] => cached_surf[th][kind] = KeysOf(wanted[th])
  BY <1>1, TableFilterAssumption DEF FilterInv, TriesMatchMemory
<1> QED
  BY <1>1, <1>2, <1>3, <1>4, <1>5 DEF Trie

\* A lookup does not miss a key.
LEMMA GetMissesNothing ==
    ASSUME FilterInv, EmptyMatches, NEW th \in Threads, NEW key \in Keys,
           NEW offset \in BlockOffsets, Get(th, key, offset)
    PROVE  missed' = {}
<1> DEFINE t == wanted[th]
<1>1. at[th] = "holding" /\ missed = {}
  BY DEF Get, FilterInv, NoFalseNegative
<1>2. /\ t \in Tables /\ Held(th) = Finish(content[t]) /\ Trie(th, "key") = KeysOf(t)
      /\ Added(content[t]) # {}
  BY <1>1, TrieOfTable DEF FilterInv, TablesHaveKeys, Kinds
<1>3. PICK says \in Answers(Trie(th, "key"), key, key) :
        Say(t, key, key, KeyMayMatch(Held(th), offset, says))
  BY DEF Get
<1>4. ASSUME HasKeyIn(t, key, key)
      PROVE  KeyMayMatch(Held(th), offset, says)
  <2>1. says = TRUE
    BY <1>2, <1>3, <1>4 DEF Answers, HasKeyIn
  <2>2. offset \in Nat
    BY TableFilterAssumption
  <2>3. KeyMayMatch(Finish(content[t]), offset, TRUE)
    BY <1>2, <2>2, KeyInBlockMatches
  <2> QED
    BY <1>2, <2>1, <2>3
<1> QED
  BY <1>1, <1>3, <1>4 DEF Say

\* Neither does an iterator over a range.
LEMMA RangeMissesNothing ==
    ASSUME FilterInv, EmptyMatches, NEW th \in Threads, NEW lo \in Keys, NEW hi \in Keys,
           NewIterator(th, lo, hi)
    PROVE  missed' = {}
<1> DEFINE t == wanted[th]
<1>1. at[th] = "holding" /\ missed = {}
  BY DEF NewIterator, FilterInv, NoFalseNegative
<1>2. Held(th) = Finish(content[t]) /\ Added(content[t]) # {}
  BY <1>1, TrieOfTable DEF FilterInv, TablesHaveKeys, Kinds
<1>3. PICK says \in Answers(Trie(th, "range"), lo, hi) :
        Say(t, lo, hi, Internal \/ RangeMayMatch(Held(th), says))
  BY DEF NewIterator
<1>4. RangeMayMatch(Held(th), says)
  BY <1>2, RangesAlwaysMatch
<1> QED
  BY <1>1, <1>3, <1>4 DEF Say

\* Tries stay right while memory is only freed.
LEMMA TriesKept ==
    ASSUME FilterInv, TypeOK', NEW th \in Threads, at[th] = "holding", NEW kind \in Kinds,
           NEW asked, Remember(th, kind, asked), UNCHANGED <<content, used>>,
           \A a \in Addresses : memory'[a] \in {memory[a], NoTable}
    PROVE  TriesMatchMemory'
<1>1. Trie(th, kind) = KeysOf(wanted[th])
  BY TrieOfTable
<1>2. /\ handle[th] \in Addresses /\ memory[handle[th]] = wanted[th] /\ wanted[th] # NoTable
      /\ handle[th] \in used
  BY TableFilterAssumption DEF FilterInv, ReferencesValid
<1> SUFFICES ASSUME NEW u \in Threads, NEW k \in Kinds, last_filter_ptr'[u][k] # NoAddress
             PROVE  LET a == last_filter_ptr'[u][k]
                    IN  /\ a \in used'
                        /\ memory'[a] # NoTable => cached_surf'[u][k] = KeysOf(memory'[a])
  BY DEF TriesMatchMemory, KeysOf
<1>3. CASE asked /\ u = th /\ k = kind
  <2>1. last_filter_ptr'[u][k] = handle[th] /\ cached_surf'[u][k] = KeysOf(wanted[th])
    BY <1>1, <1>3 DEF Remember, FilterInv, TypeOK
  <2> QED
    BY <1>2, <2>1
<1>4. CASE ~(asked /\ u = th /\ k = kind)
  <2>1. /\ last_filter_ptr'[u][k] = last_filter_ptr[u][k]
        /\ cached_surf'[u][k] = cached_surf[u][k]
    BY <1>4 DEF Remember, FilterInv, TypeOK
  <2>2. last_filter_ptr[u][k] \in Addresses
    BY <2>1 DEF FilterInv, TypeOK
  <2> QED
    BY <2>1, <2>2 DEF FilterInv, TriesMatchMemory
<1> QED
  BY <1>3, <1>4

\* So they do when a thread uses none, and what is new in memory is at an
\* address that was not used.
LEMMA TriesUntouched ==
    ASSUME FilterInv, UNCHANGED <<content, last_filter_ptr, cached_surf>>, used \subseteq used',
           \A a \in used : memory'[a] \in {memory[a], NoTable}
    PROVE  TriesMatchMemory'
<1> SUFFICES ASSUME NEW u \in Threads, NEW k \in Kinds, last_filter_ptr[u][k] # NoAddress
             PROVE  LET a == last_filter_ptr[u][k]
                    IN  /\ a \in used'
                        /\ memory'[a] # NoTable => cached_surf[u][k] = KeysOf(memory'[a])
  BY DEF TriesMatchMemory, KeysOf
<1> QED
  BY DEF FilterInv, TriesMatchMemory

LEMMA FilterInvInit == Init => FilterInv
<1> SUFFICES ASSUME Init PROVE FilterInv
  OBVIOUS
<1>1. TypeOK /\ ReferencesValid
  BY InitReferences
<1>2. ASSUME NEW t \in Tables
      PROVE  KeysOf(t) # {}
  <2>1. PICK k \in Keys : \/ content[t] = <<{k}>>
                           \/ content[t] = <<{k}, {l \in Keys : k < l}>>
    BY DEF Init
  <2>2. content[t][1] = {k} /\ 1 \in 1..Len(content[t])
    BY <2>1
  <2> QED
    BY <2>2 DEF KeysOf
<1>3. /\ \A a \in Addresses : memory[a] = NoTable
      /\ \A th \in Threads, kind \in Kinds : last_filter_ptr[th][kind] = NoAddress
      /\ missed = {}
  BY DEF Init
<1> QED
  BY <1>1, <1>2, <1>3 DEF FilterInv, TriesMatchMemory, TablesHaveKeys, NoFalseNegative

\* Addresses are used once, so that a trie never meets another table.
LEMMA FilterInvStep ==
    ASSUME ~Reuse, EmptyMatches, FilterInv, [Next]_vars
    PROVE  FilterInv'
<1>1. TypeOK' /\ ReferencesValid'
  BY ReferencesStep DEF FilterInv
<1>2. TablesHaveKeys'
  <2>1. UNCHANGED content
    BY DEF Next, FindTable, OpenTable, Get, NewIterator, DeleteIterator, Evict, vars
  <2> QED
    BY <2>1 DEF FilterInv, TablesHaveKeys, KeysOf
<1> DEFINE Others == /\ \A a \in Addresses : memory'[a] # NoTable => a \in used'
                     /\ TriesMatchMemory' /\ NoFalseNegative'
<1>3. ASSUME NEW th \in Threads, NEW t \in Tables, FindTable(th, t)
      PROVE  Others
  <2>1. TriesMatchMemory'
    BY <1>3, TriesUntouched DEF FindTable
  <2> QED
    BY <1>3, <2>1 DEF FindTable, FilterInv, NoFalseNegative
<1>4. ASSUME NEW th \in Threads, OpenTable(th)
      PROVE  Others
  <2>1. PICK a \in Addresses :
          /\ a \notin used /\ used' = used \cup {a}
          /\ memory' = KeepReferenced([memory EXCEPT ![a] = wanted[th]], cache_', handle')
    BY <1>4 DEF OpenTable, Free
  <2>2. \A b \in Addresses \ {a} : memory'[b] \in {memory[b], NoTable}
    BY <2>1 DEF FilterInv, TypeOK, KeepReferenced
  <2>3. UNCHANGED <<content, last_filter_ptr, cached_surf, missed>>
    BY <1>4 DEF OpenTable
  <2>4. TriesMatchMemory'
    BY <2>1, <2>2, <2>3, TriesUntouched DEF FilterInv, TypeOK
  <2> QED
    BY <2>1, <2>2, <2>3, <2>4 DEF FilterInv, NoFalseNegative
<1>5. ASSUME NEW th \in Threads, NEW key \in Keys, NEW offset \in BlockOffsets,
             Get(th, key, offset)
      PROVE  Others
  <2>1. Release(th) /\ at[th] = "holding" /\ UNCHANGED <<content, used, cache_>>
    BY <1>5 DEF Get
  <2>2. \A a \in Addresses : memory'[a] \in {memory[a], NoTable}
    BY <2>1, ReleaseKeeps DEF FilterInv
  <2>3. TriesMatchMemory'
    BY <1>1, <1>5, <2>1, <2>2, TriesKept DEF Get, Kinds
  <2> QED
    BY <1>5, <2>1, <2>2, <2>3, GetMissesNothing DEF FilterInv, NoFalseNegative
<1>6. ASSUME NEW th \in Threads, NEW lo \in Keys, NEW hi \in Keys, NewIterator(th, lo, hi)
      PROVE  Others
  <2>1. /\ Release(th) \/ UNCHANGED memory
        /\ at[th] = "holding" /\ UNCHANGED <<content, used, cache_>>
    BY <1>6 DEF NewIterator
  <2>2. \A a \in Addresses : memory'[a] \in {memory[a], NoTable}
    BY <2>1, ReleaseKeeps DEF FilterInv
  <2>3. TriesMatchMemory'
    BY <1>1, <1>6, <2>1, <2>2, TriesKept DEF NewIterator, Kinds
  <2> QED
    BY <1>6, <2>1, <2>2, <2>3, RangeMissesNothing DEF FilterInv, NoFalseNegative
<1>7. ASSUME \/ \E th \in Threads : DeleteIterator(th)
             \/ \E t \in Tables : Evict(t)
             \/ UNCHANGED vars
      PROVE  Others
  <2>1. UNCHANGED <<content, used, last_filter_ptr, cached_surf, missed>>
    BY <1>7 DEF DeleteIterator, Evict, vars
  <2>2. \A a \in Addresses : memory'[a] \in {memory[a], NoTable}
    BY <1>7 DEF DeleteIterator, Release, Evict, KeepReferenced, vars
  <2>3. TriesMatchMemory'
    BY <2>1, <2>2, TriesUntouched DEF FilterInv, TypeOK
  <2> QED
    BY <2>1, <2>2, <2>3 DEF FilterInv, NoFalseNegative
<1>8. Others
  BY <1>3, <1>4, <1>5, <1>6, <1>7 DEF Next
<1> QED
  BY <1>1, <1>2, <1>8 DEF FilterInv

\* As long as an address is not used twice, no filter rules out a table that
\* holds what is looked for, in whatever order threads look up, open and
\* evict tables.  (SuRFPolicy::KeyMayMatch, FilterBlockReader, InternalGet)
THEOREM FiltersMissNothing ==
    ASSUME ~Reuse, EmptyMatches PROVE Spec => []NoFalseNegative
<1>1. FilterInv /\ [Next]_vars => FilterInv'
  BY FilterInvStep
<1>2. FilterInv => NoFalseNegative
  BY DEF FilterInv
<1> QED
  BY FilterInvInit, <1>1, <1>2, PTL DEF Spec
=============================================================================
