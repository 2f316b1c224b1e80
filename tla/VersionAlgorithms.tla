-------------------------- MODULE VersionAlgorithms --------------------------
(***************************************************************************)
(* The loops of version_set.cc over the sorted vectors of a version, as    *)
(* the code runs them.  VersionSet.tla says what they compute; here the    *)
(* results are compared, on the versions a run of LSM.tla reaches.         *)
(***************************************************************************)
EXTENDS VersionSet, SequencesExt

CONSTANT BlockEntries   \* entries in a data block

ASSUME BlockEntriesAssumption == BlockEntries \in Nat \ {0}

\* Above every sequence number of a run: a seek for a user key starts here.
kMaxSequenceNumber == 1000000
SeekKey(k) == [key |-> k, seq |-> kMaxSequenceNumber]

\* FileMetaData::smallest and largest.
Smallest(f) == CHOOSE a \in f.entries : \A b \in f.entries \ {a} : Precedes(a, b)
Largest(f) == CHOOSE a \in f.entries : \A b \in f.entries \ {a} : Precedes(b, a)

\* Builder::BySmallestKey, the order of files_[level] on every level.
BySmallestKey(f, g) ==
    \/ Precedes(Smallest(f), Smallest(g))
    \/ Smallest(f) = Smallest(g) /\ f.number < g.number

Sorted(files) ==
    LET place == [f \in files |-> Cardinality({g \in files : BySmallestKey(g, f)})]
    IN  [i \in 1..Cardinality(files) |-> CHOOSE f \in files : place[f] = i - 1]

-----------------------------------------------------------------------------
(* Searches.                                                               *)

\* FindFile: the index of the first file whose largest key is not before
\* the target, by bisection of [left, right).
RECURSIVE Bisect(_, _, _, _)
Bisect(files, target, left, right) ==
    LET mid == (left + right) \div 2
    IN  IF left >= right THEN right
        ELSE IF Precedes(Largest(files[mid + 1]), target)
             THEN Bisect(files, target, mid + 1, right)
        ELSE Bisect(files, target, left, mid)

FindFileIndex(files, target) == Bisect(files, target, 0, Len(files))

\* SomeFileOverlapsRange: all files of level 0, or the one file of a
\* sorted level that can meet the range first.
SomeFileOverlapsRange(disjoint_sorted_files, files, lo, hi) ==
    LET index == FindFileIndex(files, SeekKey(lo))
    IN  IF disjoint_sorted_files
        THEN index < Len(files) /\ ~(hi < Smallest(files[index + 1]).key)
        ELSE \E i \in DOMAIN files :
                ~(lo > Largest(files[i]).key \/ hi < Smallest(files[i]).key)

\* A variant: a file that widens the range is added without a new search.
RECURSIVE CollectOnce(_, _, _, _, _, _)
CollectOnce(level, files, begin, end, i, inputs) ==
    IF i > Len(files) THEN inputs
    ELSE LET f == files[i]
             meets == begin <= Largest(f).key /\ Smallest(f).key <= end
         IN  CollectOnce(level, files, begin, end, i + 1,
                         IF meets THEN inputs \cup {f} ELSE inputs)

\* The loop of GetOverlappingInputs.  On level 0 a file that reaches past
\* an end of the range moves that end, and the search starts over.
RECURSIVE Collect(_, _, _, _, _, _)
Collect(level, files, begin, end, i, inputs) ==
    IF i > Len(files) THEN inputs
    ELSE LET f == files[i]
             start == Smallest(f).key
             limit == Largest(f).key
         IN  IF limit < begin \/ start > end
             THEN Collect(level, files, begin, end, i + 1, inputs)
             ELSE IF level = 0 /\ start < begin
             THEN Collect(level, files, start, end, 1, {})
             ELSE IF level = 0 /\ limit > end
             THEN Collect(level, files, begin, limit, 1, {})
             ELSE Collect(level, files, begin, end, i + 1, inputs \cup {f})

\* FindSmallestBoundaryFile
SmallestBoundaryFile(files, largest) ==
    LET boundary == {f \in files : /\ Precedes(largest, Smallest(f))
                                   /\ Smallest(f).key = largest.key}
    IN  {f \in boundary : \A g \in boundary \ {f} : Precedes(Smallest(f), Smallest(g))}

\* The loop of AddBoundaryInputs: only the largest key is followed.
RECURSIVE FollowBoundary(_, _, _)
FollowBoundary(files, chosen, largest) ==
    LET next == SmallestBoundaryFile(files, largest)
    IN  IF next = {} THEN chosen
        ELSE FollowBoundary(files, chosen \cup next, Largest(CHOOSE f \in next : TRUE))

FindLargestKey(files) ==
    CHOOSE a \in {Largest(f) : f \in files} :
        \A b \in {Largest(f) : f \in files} \ {a} : Precedes(b, a)

ExtendByBoundary(files, chosen) ==
    IF chosen = {} THEN {} ELSE FollowBoundary(files, chosen, FindLargestKey(chosen))

-----------------------------------------------------------------------------
(* Compaction::IsBaseLevelForKey remembers in level_ptrs_ how far it got.  *)

Deeper(level) == {l \in Levels : l >= level + 2}

\* Where the pointer of a level stands after the question about k.
Advance(files, ptr, k) ==
    Min({p \in ptr..(Len(files) + 1) : p > Len(files) \/ k <= Largest(files[p]).key})

\* The user keys of asked, in order, that are said to have no file below;
\* pointers of levels after the first hit stay where they are.
RECURSIVE BaseLevelKeys(_, _, _)
BaseLevelKeys(levels, ptrs, asked) ==
    IF asked = <<>> THEN {}
    ELSE LET k == Head(asked)
             to == [l \in DOMAIN levels |-> Advance(levels[l], ptrs[l], k)]
             hits == {l \in DOMAIN levels : to[l] <= Len(levels[l])
                                            /\ k >= Smallest(levels[l][to[l]]).key}
             moved == [l \in DOMAIN levels |->
                         IF \A h \in hits : l <= h THEN to[l] ELSE ptrs[l]]
         IN  (IF hits = {} THEN {k} ELSE {}) \cup BaseLevelKeys(levels, moved, Tail(asked))

-----------------------------------------------------------------------------
(* Builder::SaveTo.                                                        *)

\* A variant: the files added to a level go after those it had.
MergeAtTheEnd(base, added) == base \o added

\* Every added file goes before the first base file that sorts after it.
RECURSIVE Merge(_, _)
Merge(base, added) ==
    IF added = <<>> THEN base
    ELSE LET upper_bound == Min({i \in 1..(Len(base) + 1) :
                                  i > Len(base) \/ BySmallestKey(Head(added), base[i])})
         IN  SubSeq(base, 1, upper_bound - 1) \o <<Head(added)>>
                 \o Merge(SubSeq(base, upper_bound, Len(base)), Tail(added))

SaveTo(base, deleted, added) ==
    SelectSeq(Merge(base, Sorted(added)), LAMBDA f : f \notin deleted)

-----------------------------------------------------------------------------
(* Sizes.  A file is as large as its entries and a footer of one.          *)

FileSize(f) == Cardinality(f.entries) + 1

\* Table::ApproximateOffsetOf: where the data block starts that the index
\* gives for the key, or the metaindex block after the last one.
TableOffset(f, k) ==
    LET before == Cardinality({a \in f.entries : a.key < k})
    IN  IF before = Cardinality(f.entries) THEN before
        ELSE BlockEntries * (before \div BlockEntries)

\* A variant: the first file that holds the key ends the search on a level.
RECURSIVE OffsetInFirst(_, _, _, _)
OffsetInFirst(level, files, k, i) ==
    IF i > Len(files) THEN 0
    ELSE IF Largest(files[i]).key < k THEN FileSize(files[i]) + OffsetInFirst(level, files, k, i + 1)
    ELSE IF Smallest(files[i]).key >= k THEN 0
    ELSE TableOffset(files[i], k)

\* VersionSet::ApproximateOffsetOf the first entry of a user key, on one
\* level: files before it count whole, below level 0 the first file after
\* it ends the sum.
RECURSIVE OffsetInLevel(_, _, _, _)
OffsetInLevel(level, files, k, i) ==
    IF i > Len(files) THEN 0
    ELSE LET f == files[i]
             rest == OffsetInLevel(level, files, k, i + 1)
         IN  IF Largest(f).key < k THEN FileSize(f) + rest
             ELSE IF Smallest(f).key >= k THEN IF level > 0 THEN 0 ELSE rest
             ELSE TableOffset(f, k) + rest

ApproximateOffsetOf(version, k) ==
    FoldSet(LAMBDA l, sum : sum + OffsetInLevel(l, Sorted(version[l]), k, 1), 0, Levels)

\* DBImpl::GetApproximateSizes, of a range between two offsets.
ApproximateSize(start, limit) == IF limit >= start THEN limit - start ELSE 0

-----------------------------------------------------------------------------
(* What the loops are compared with.                                       *)

FindFileAgrees(version) ==
    \A l \in Levels \ {0} :
        LET files == Sorted(version[l])
        IN  \A k \in Keys, seq \in {0, 1, kMaxSequenceNumber} :
                LET index == FindFileIndex(files, [key |-> k, seq |-> seq])
                IN  FindFile(version[l], k, seq) =
                        IF index < Len(files) THEN {files[index + 1]} ELSE {}

OverlapAgrees(version) ==
    \A l \in Levels :
        LET files == Sorted(version[l])
        IN  \A lo, hi \in Keys : lo <= hi =>
                SomeFileOverlapsRange(l > 0, files, lo, hi)
                    = OverlapInLevel(version, l, {lo, hi})

InputsAgree(version) ==
    \A l \in Levels :
        LET files == Sorted(version[l])
        IN  \A lo, hi \in Keys : lo <= hi =>
                Collect(l, files, lo, hi, 1, {}) = GetOverlappingInputs(version, l, {lo, hi})

\* For what the callers pass: one file, or the files that meet a range.
BoundariesAgree(version) ==
    \A l \in Levels :
        LET passed == {GetOverlappingInputs(version, l, {lo, hi}) : lo, hi \in Keys}
                      \cup IF l = 0 THEN {} ELSE {{f} : f \in version[l]}
        IN  \A chosen \in passed :
                ExtendByBoundary(version[l], chosen) = AddBoundaryInputs(version[l], chosen)

\* For every part of the keys, asked about in order.
BaseLevelAgrees(version) ==
    \A level \in Levels :
        LET files == [l \in Deeper(level) |-> Sorted(version[l])]
            start == [l \in Deeper(level) |-> 1]
        IN  \A asked \in SUBSET Keys :
                BaseLevelKeys(files, start, SetToSortSeq(asked, <))
                    = {k \in asked : IsBaseLevelForKey(version, level, k)}

LoopsAgreeOn(version) ==
    /\ FindFileAgrees(version)
    /\ OverlapAgrees(version)
    /\ InputsAgree(version)
    /\ BoundariesAgree(version)
    /\ BaseLevelAgrees(version)

WholeFilesCounted(version) ==
    LET offset == [k \in Keys |-> ApproximateOffsetOf(version, k)]
        Inside(lo, hi) == {f \in UNION {version[l] : l \in Levels} :
                             lo <= Smallest(f).key /\ Largest(f).key < hi}
    IN  \A lo, hi \in Keys : lo <= hi =>
            ApproximateSize(offset[lo], offset[hi])
                >= FoldSet(LAMBDA f, sum : sum + FileSize(f), 0, Inside(lo, hi))
=============================================================================
