----------------------------- MODULE TableFilter -----------------------------
(***************************************************************************)
(* Lookups through the table cache and the filters of the tables, by       *)
(* several threads: a table is opened when it is first looked up, its      *)
(* filter block lives at some address until the last handle of an entry    *)
(* that left the cache is released, and each thread keeps the SuRF trie it *)
(* made from the last filter it looked at, by the address of that filter.  *)
(***************************************************************************)
EXTENDS FilterBlock, FiniteSets

CONSTANTS
    Tables,         \* file numbers
    Keys,           \* user keys, a set of numbers
    Threads,
    Addresses,      \* where a filter block can be in memory
    NoTable, NoAddress,
    Capacity,       \* entries of the table cache
    BlockOffsets,   \* offsets of data blocks
    Reuse,          \* whether freed memory is allocated again
    Internal        \* whether the table has the database's policy, which
                    \* wraps the user's and answers ranges by default

ASSUME TableFilterAssumption ==
    /\ Keys \subseteq Int /\ BlockOffsets \subseteq Nat /\ Capacity \in Nat
    /\ NoTable \notin Tables /\ NoAddress \notin Addresses
    /\ Reuse \in BOOLEAN /\ Internal \in BOOLEAN

VARIABLES
    content,            \* the keys of each table, by data block
    deleted,            \* tables whose file is gone
    memory,             \* the table whose filter block is at an address
    used,               \* addresses that were allocated
    cache_,             \* the entries of the table cache
    at,                 \* where each thread is
    wanted,             \* the table each thread looks up
    handle,             \* the entry whose handle it holds
    last_filter_ptr,    \* the thread_local variables of KeyMayMatch ("key")
    cached_surf,        \*   and of RangeMayMatch ("range")
    missed              \* history: tables ruled out in spite of a key they have

vars == <<content, deleted, memory, used, cache_, at, wanted, handle,
          last_filter_ptr, cached_surf, missed>>

Kinds == {"key", "range"}

KeysOf(t) == UNION {content[t][i] : i \in 1..Len(content[t])}

TypeOK ==
    /\ \A t \in Tables : content[t] \in Seq(SUBSET Keys)
    /\ deleted \subseteq Tables
    /\ memory \in [Addresses -> Tables \cup {NoTable}]
    /\ used \subseteq Addresses
    /\ cache_ \in [Tables -> Addresses \cup {NoAddress}]
    /\ at \in [Threads -> {"idle", "opening", "holding", "iterating"}]
    /\ wanted \in [Threads -> Tables \cup {NoTable}]
    /\ handle \in [Threads -> Addresses \cup {NoAddress}]
    /\ \A th \in Threads : at[th] = "idle" => handle[th] = NoAddress
    /\ last_filter_ptr \in [Threads -> [Kinds -> Addresses \cup {NoAddress}]]
    /\ cached_surf \in [Threads -> [Kinds -> SUBSET Keys]]
    /\ missed \subseteq Tables

\* Tables of one or two data blocks; none is open.
Init ==
    /\ content \in [Tables -> {<<{k}>> : k \in Keys}
                              \cup {<<{k}, {l \in Keys : k < l}>> : k \in Keys}]
    /\ deleted = {}
    /\ memory = [a \in Addresses |-> NoTable]
    /\ used = {}
    /\ cache_ = [t \in Tables |-> NoAddress]
    /\ at = [th \in Threads |-> "idle"]
    /\ wanted = [th \in Threads |-> NoTable]
    /\ handle = [th \in Threads |-> NoAddress]
    /\ last_filter_ptr = [th \in Threads |-> [k \in Kinds |-> NoAddress]]
    /\ cached_surf = [th \in Threads |-> [k \in Kinds |-> {}]]
    /\ missed = {}

\* A variant: an entry is freed when it leaves the cache.
KeepCached(m, cache, handles) ==
    [a \in Addresses |-> IF \E t \in Tables : cache[t] = a THEN m[a] ELSE NoTable]

\* What is at an address stays while the cache or a thread refers to it;
\* otherwise DeleteEntry frees it.
KeepReferenced(m, cache, handles) ==
    [a \in Addresses |->
        IF (\E t \in Tables : cache[t] = a) \/ (\E th \in Threads : handles[th] = a)
        THEN m[a] ELSE NoTable]

\* The entries Insert may drop to keep to the capacity: one that no thread
\* holds, if there is any.
Victims(t) ==
    LET cached == {s \in Tables \ {t} : cache_[s] # NoAddress}
        idle == {s \in cached : \A th \in Threads : handle[th] # cache_[s]}
    IN  IF Cardinality(cached) < Capacity \/ idle = {} THEN {{}} ELSE {{s} : s \in idle}

-----------------------------------------------------------------------------
\* FindTable, up to the lookup in the cache.
FindTable(th, t) ==
    /\ at[th] = "idle" /\ t \notin deleted
    /\ wanted' = [wanted EXCEPT ![th] = t]
    /\ handle' = [handle EXCEPT ![th] = cache_[t]]
    /\ at' = [at EXCEPT ![th] = IF cache_[t] = NoAddress THEN "opening" ELSE "holding"]
    /\ UNCHANGED <<content, deleted, memory, used, cache_, last_filter_ptr, cached_surf, missed>>

Free(a) == memory[a] = NoTable /\ (Reuse \/ a \notin used)

\* The rest of it: Table::Open reads the filter block, and the table goes
\* into the cache, also when another thread has opened it meanwhile.
OpenTable(th) ==
    /\ at[th] = "opening"
    /\ \E a \in Addresses, victims \in Victims(wanted[th]) :
        /\ Free(a)
        /\ used' = used \cup {a}
        /\ cache_' = [t \in Tables |-> IF t = wanted[th] THEN a
                                       ELSE IF t \in victims THEN NoAddress ELSE cache_[t]]
        /\ handle' = [handle EXCEPT ![th] = a]
        /\ memory' = KeepReferenced([memory EXCEPT ![a] = wanted[th]], cache_', handle')
    /\ at' = [at EXCEPT ![th] = "holding"]
    /\ UNCHANGED <<content, deleted, wanted, last_filter_ptr, cached_surf, missed>>

\* The block a thread holds.
Held(th) == Finish(content[memory[handle[th]]])

\* The trie a method of the policy uses: the cached one if the address is
\* the same, or one made from the filter.
Trie(th, kind) ==
    IF last_filter_ptr[th][kind] = handle[th] THEN cached_surf[th][kind] ELSE Held(th).keys

\* The thread_local variables afterwards, if the method got that far.
Remember(th, kind, asked) ==
    /\ cached_surf' = IF asked THEN [cached_surf EXCEPT ![th][kind] = Trie(th, kind)]
                      ELSE cached_surf
    /\ last_filter_ptr' = IF asked THEN [last_filter_ptr EXCEPT ![th][kind] = handle[th]]
                          ELSE last_filter_ptr

\* A trie says yes to what it holds, and may say yes to anything.
Answers(trie, lo, hi) == IF \E k \in trie : lo <= k /\ k <= hi THEN {TRUE} ELSE BOOLEAN

\* A variant: the handle is not given back.
ReleaseNothing(th) ==
    /\ wanted' = [wanted EXCEPT ![th] = NoTable]
    /\ at' = [at EXCEPT ![th] = "idle"]
    /\ UNCHANGED <<handle, memory>>

Release(th) ==
    /\ handle' = [handle EXCEPT ![th] = NoAddress]
    /\ wanted' = [wanted EXCEPT ![th] = NoTable]
    /\ at' = [at EXCEPT ![th] = "idle"]
    /\ memory' = KeepReferenced(memory, cache_, handle')

HasKeyIn(t, lo, hi) == \E k \in KeysOf(t) : lo <= k /\ k <= hi

Say(t, lo, hi, may) == missed' = IF ~may /\ HasKeyIn(t, lo, hi) THEN missed \cup {t} ELSE missed

\* TableCache::Get and InternalGet: the index block says in which data block
\* the key would be.
Get(th, key, offset) ==
    /\ at[th] = "holding"
    /\ \E says \in Answers(Trie(th, "key"), key, key) :
        Say(wanted[th], key, key, KeyMayMatch(Held(th), offset, says))
    /\ Remember(th, "key", AsksForKey(Held(th), offset))
    /\ Release(th)
    /\ UNCHANGED <<content, deleted, used, cache_>>

\* TableCache::NewIterator with a range: the iterator keeps the handle,
\* unless the filter rules the table out.
NewIterator(th, lo, hi) ==
    /\ at[th] = "holding" /\ lo <= hi
    /\ \E says \in Answers(Trie(th, "range"), lo, hi) :
        LET may == Internal \/ RangeMayMatch(Held(th), says)
        IN  /\ Say(wanted[th], lo, hi, may)
            /\ IF may THEN /\ at' = [at EXCEPT ![th] = "iterating"]
                           /\ UNCHANGED <<memory, wanted, handle>>
                      ELSE Release(th)
    /\ Remember(th, "range", ~Internal /\ AsksForRange(Held(th)))
    /\ UNCHANGED <<content, deleted, used, cache_>>

DeleteIterator(th) ==
    /\ at[th] = "iterating"
    /\ Release(th)
    /\ UNCHANGED <<content, deleted, used, cache_, last_filter_ptr, cached_surf, missed>>

\* RemoveObsoleteFiles removes a file no version has, so nobody wants it.
Evict(t) ==
    /\ t \notin deleted
    /\ \A th \in Threads : wanted[th] # t
    /\ deleted' = deleted \cup {t}
    /\ cache_' = [cache_ EXCEPT ![t] = NoAddress]
    /\ memory' = KeepReferenced(memory, cache_', handle)
    /\ UNCHANGED <<content, used, at, wanted, handle, last_filter_ptr, cached_surf, missed>>

Next ==
    \/ \E th \in Threads :
        \/ \E t \in Tables : FindTable(th, t)
        \/ OpenTable(th)
        \/ \E key \in Keys, offset \in BlockOffsets : Get(th, key, offset)
        \/ \E lo, hi \in Keys : NewIterator(th, lo, hi)
        \/ DeleteIterator(th)
    \/ \E t \in Tables : Evict(t)

Spec == Init /\ [][Next]_vars

-----------------------------------------------------------------------------
(* Properties.                                                             *)

\* A filter never rules out a table that holds what is looked for: no
\* interleaving of threads, evictions and openings makes a lookup miss a
\* key.  (surf_filter.cc, filter_block.cc, Table::InternalGet)
NoFalseNegative == missed = {}

\* A thread that holds a handle has the filter block of the table it wants,
\* whoever evicts or opens that table meanwhile.  (FindTable, Evict,
\* UnrefEntry)
HandlesStayValid ==
    \A th \in Threads :
        at[th] \in {"holding", "iterating"} => memory[handle[th]] = wanted[th]
=============================================================================
