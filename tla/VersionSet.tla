----------------------------- MODULE VersionSet -----------------------------
(***************************************************************************)
(* The pure part of version_set.cc: what the files of a version hold, how  *)
(* a key is looked up in them, and which files a compaction takes.         *)
(*                                                                         *)
(* An entry is an internal key: user key, sequence number, type.  A file   *)
(* is its number and the set of its entries; smallest, largest and the     *)
(* order of the files of a level are not stored but read off the entries.  *)
(* Two comparisons of FileMetaData bounds become quantifiers over entries: *)
(* f.largest < g.smallest is "every entry of f precedes every entry of g"  *)
(* and f.smallest.user_key <= k is "some entry of f has a key <= k".       *)
(* A user key range [begin, end] is given by a set of keys whose least     *)
(* and greatest members are begin and end.                                 *)
(*                                                                         *)
(* Loops that add files until nothing changes are written as the least     *)
(* set of files closed under the rule of the loop.                         *)
(***************************************************************************)
EXTENDS Integers, FiniteSets

CONSTANTS
    Keys,               \* user keys, a set of numbers
    NumLevels,          \* config::kNumLevels
    MaxMemCompactLevel  \* config::kMaxMemCompactLevel

ASSUME KeysAssumption == Keys \subseteq Int
ASSUME LevelsAssumption ==
    /\ NumLevels \in Nat /\ NumLevels >= 2
    /\ MaxMemCompactLevel \in 0..(NumLevels - 1)

Levels == 0..(NumLevels - 1)
Entry == [key : Keys, seq : Nat, type : {"value", "deletion"}]
File == [number : Nat, entries : SUBSET Entry]
Version == [Levels -> SUBSET File]

\* InternalKeyComparator: by user key, then newest first.
Precedes(a, b) == a.key < b.key \/ (a.key = b.key /\ a.seq > b.seq)

EntriesOf(files) == UNION {f.entries : f \in files}
UserKeys(files) == {e.key : e \in EntriesOf(files)}

\* Every entry of f precedes every entry of g: f.largest < g.smallest.
FileBefore(f, g) == \A a \in f.entries, b \in g.entries : Precedes(a, b)

\* A variant: one end of f's range has to lie in [begin, end].
OverlapsAtAnEnd(f, range) ==
    \E a \in f.entries, first, last \in range : first <= a.key /\ a.key <= last

\* The user key range of f meets [begin, end], the hull of range.
Overlaps(f, range) ==
    /\ \E a \in f.entries, r \in range : a.key <= r
    /\ \E a \in f.entries, r \in range : r <= a.key

\* f.smallest.user_key <= k <= f.largest.user_key
KeyInRange(f, k) == Overlaps(f, {k})

\* SomeFileOverlapsRange, OverlapInLevel
OverlapInLevel(version, level, range) ==
    \E f \in version[level] : Overlaps(f, range)

-----------------------------------------------------------------------------
(* Lookups.                                                                *)

\* The newest entry for k that a read at sequence seq sees in a table or
\* memtable, as a set of at most one entry: the first internal key at or
\* after (k, seq).
Lookup(entries, k, seq) ==
    {e \in entries : /\ e.key = k
                     /\ e.seq <= seq
                     /\ \A o \in entries : o.key = k /\ o.seq <= seq => o.seq <= e.seq}

\* FindFile: of the files of a sorted level, the first one whose largest
\* key is not before (k, seq); none if all are before it.
FindFile(files, k, seq) ==
    LET reach == {f \in files :
                    \E a \in f.entries : a.key > k \/ (a.key = k /\ a.seq <= seq)}
    IN  {f \in reach : \A g \in reach \ {f} : FileBefore(f, g)}

\* A variant: level 0 is searched from the oldest file on.
ProbeOldestFirst(version, level, k, seq) ==
    UNION {Lookup(f.entries, k, seq) :
             f \in {g \in version[level] :
                      \A h \in version[level] :
                         h.number < g.number => Lookup(h.entries, k, seq) = {}}}

\* One probe per level.  In level 0 the files are tried from the newest to
\* the oldest; in the others the one FindFile returns.  The code first
\* compares the key with the file's range, which a hit implies.
Probe(version, level, k, seq) ==
    IF level = 0
    THEN UNION {Lookup(f.entries, k, seq) :
                  f \in {g \in version[0] :
                           \A h \in version[0] :
                              h.number > g.number => Lookup(h.entries, k, seq) = {}}}
    ELSE UNION {Lookup(f.entries, k, seq) : f \in FindFile(version[level], k, seq)}

\* Version::Get: level by level, stopping at the first hit.
GetInVersion(version, k, seq) ==
    UNION {Probe(version, l, k, seq) :
             l \in {m \in Levels : \A j \in 0..(m - 1) : Probe(version, j, k, seq) = {}}}

-----------------------------------------------------------------------------
(* Placing a memtable and choosing the inputs of a compaction.             *)

\* A variant: looks for an overlap above the chosen level, not in it.
PickLevelIgnoringOverlapInIt(version, range) ==
    {l \in 0..MaxMemCompactLevel :
        l # 0 => \A m \in 0..(l - 1) : ~OverlapInLevel(version, m, range)}

\* The levels PickLevelForMemTableOutput may return for a file with these
\* user keys.  It stops early when the grandparents are too large; file
\* sizes are not modelled, so it may stop at any level short of an overlap.
PickLevelForMemTableOutput(version, range) ==
    {l \in 0..MaxMemCompactLevel :
        l # 0 => \A m \in 0..l : ~OverlapInLevel(version, m, range)}

\* In level 0 an added file that widens the range restarts the search.
ClosedUnderOverlap(files, range, chosen) ==
    \A f \in files : Overlaps(f, range \cup UserKeys(chosen)) => f \in chosen

GetOverlappingInputs(version, level, range) ==
    IF level = 0
    THEN {f \in version[0] :
            \A S \in SUBSET version[0] :
                ClosedUnderOverlap(version[0], range, S) => f \in S}
    ELSE {f \in version[level] : Overlaps(f, range)}

\* FindSmallestBoundaryFile: g continues, in the next file, the user key
\* that f ends with.
IsBoundary(f, g) ==
    /\ FileBefore(f, g)
    /\ \E a \in f.entries, b \in g.entries : a.key = b.key

ClosedUnderBoundary(files, chosen) ==
    \A f \in chosen, g \in files : IsBoundary(f, g) => g \in chosen

\* A variant: older entries of the last user key stay behind.
NoBoundaryInputs(files, chosen) == chosen

AddBoundaryInputs(files, chosen) ==
    {f \in files :
        \A S \in SUBSET files :
            chosen \subseteq S /\ ClosedUnderBoundary(files, S) => f \in S}

\* The files of a level that a compaction of these user keys takes, and the
\* files it takes one level down.
LevelInputs(version, level, keys) ==
    AddBoundaryInputs(version[level], GetOverlappingInputs(version, level, keys))

ParentInputs(version, level, inputs0) ==
    LevelInputs(version, level + 1, UserKeys(inputs0))

\* SetupOtherInputs, with mayExpand standing for the test of the expanded
\* size against ExpandedCompactionByteSizeLimit.
SetupOtherInputs(version, level, picked, mayExpand) ==
    LET inputs0 == AddBoundaryInputs(version[level], picked)
        inputs1 == ParentInputs(version, level, inputs0)
        expanded0 == LevelInputs(version, level, UserKeys(inputs0 \cup inputs1))
        expanded1 == ParentInputs(version, level, expanded0)
        expand == /\ inputs1 # {}
                  /\ mayExpand
                  /\ Cardinality(expanded0) > Cardinality(inputs0)
                  /\ Cardinality(expanded1) = Cardinality(inputs1)
    IN  IF expand THEN <<expanded0, expanded1>> ELSE <<inputs0, inputs1>>

\* PickCompaction, from the file that the level's size or the seeks chose.
PickCompaction(version, level, f, mayExpand) ==
    SetupOtherInputs(version, level,
                     IF level = 0 THEN GetOverlappingInputs(version, 0, UserKeys({f}))
                                  ELSE {f},
                     mayExpand)

\* VersionSet::CompactRange: the files of the level that meet the range.
\* Below level 0 the list is cut after the file named last, where the
\* total size reaches the limit.
CompactRange(version, level, range, last, mayExpand) ==
    LET inputs == GetOverlappingInputs(version, level, range)
        prefix == {f \in inputs : f = last \/ FileBefore(f, last)}
    IN  SetupOtherInputs(version, level,
                         IF level = 0 THEN inputs ELSE prefix, mayExpand)

\* No file below level + 1 holds the user key in its range.
IsBaseLevelForKey(version, level, k) ==
    \A l \in Levels : l >= level + 2 => \A f \in version[l] : ~KeyInRange(f, k)

-----------------------------------------------------------------------------
(* What the lookups rely on, and what the choice of inputs must keep.      *)

NoEmptyFile(version) == \A l \in Levels : \A f \in version[l] : f.entries # {}

\* The files of a level below 0 are in order.
Disjoint(version) ==
    \A l \in Levels \ {0} : \A f, g \in version[l] :
        f # g => FileBefore(f, g) \/ FileBefore(g, f)

Newer(above, below) ==
    \A a \in above, b \in below : a.key = b.key => a.seq > b.seq

\* Level 0 by file number, then level by level, newer entries come first.
SearchOrderIn(version) ==
    /\ \A f, g \in version[0] : f # g =>
         /\ f.number # g.number
         /\ f.number > g.number => Newer(f.entries, g.entries)
    /\ \A l, m \in Levels : l < m => Newer(EntriesOf(version[l]), EntriesOf(version[m]))

\* The inputs can be replaced by any part of their entries one level down:
\* they are in the version, what is left at the output level lies entirely
\* before or after all of them, and what is left at the input level is newer.
Isolated(version, level, inputs0, inputs1) ==
    LET entries == EntriesOf(inputs0 \cup inputs1)
    IN  /\ inputs0 \subseteq version[level]
        /\ inputs1 \subseteq version[level + 1]
        /\ \A f \in version[level + 1] \ inputs1 :
             \/ \A a \in f.entries, x \in entries : Precedes(a, x)
             \/ \A a \in f.entries, x \in entries : Precedes(x, a)
        /\ Newer(EntriesOf(version[level] \ inputs0), entries)

\* The ranges of the files leave no user key between them uncovered.
Connected(files) ==
    \A k \in Keys :
        \/ \E f \in files : KeyInRange(f, k)
        \/ \A e \in EntriesOf(files) : e.key < k
        \/ \A e \in EntriesOf(files) : e.key > k
=============================================================================
