----------------------------- MODULE LSMProofs -----------------------------
(***************************************************************************)
(* VersionSet.tla and LSM.tla.  First lemmas about versions: the inputs    *)
(* PickCompaction chooses can be merged into the next level (Isolated) and *)
(* leave no gap (Connected), and Version::Get finds the newest entry of a  *)
(* sorted version.  Then type correctness of the tree; and, when the only  *)
(* compactions are the automatic ones, that the files of a level never     *)
(* overlap and a lookup meets newer entries first.  Then, for the same     *)
(* tree, what clients see: Get and iterators agree, and the tree           *)
(* implements the map of KVStore.tla.  All of it for any keys, levels,     *)
(* snapshots, readers and bounds.                                          *)
(***************************************************************************)
EXTENDS LSM, BasicFacts

-----------------------------------------------------------------------------
(* Versions.                                                               *)

\* The fields of an internal key: numbers that InternalKeyComparator compares.
LEMMA EntryFields ==
    \A a \in Entry : a.key \in Int /\ a.key \in Keys /\ a.seq \in Nat
  BY KeysAssumption DEF Entry

\* InternalKeyComparator is transitive ...
LEMMA PrecedesTransitive ==
    ASSUME NEW a \in Entry, NEW b \in Entry, NEW c \in Entry,
           Precedes(a, b), Precedes(b, c)
    PROVE  Precedes(a, c)
  BY EntryFields DEF Precedes

\* ... and never puts two internal keys before each other.
LEMMA PrecedesAsymmetric ==
    ASSUME NEW a \in Entry, NEW b \in Entry, Precedes(a, b)
    PROVE  ~Precedes(b, a)
  BY EntryFields DEF Precedes

\* The order of the files of a level is transitive when none is empty.
LEMMA FileBeforeTransitive ==
    ASSUME NEW f \in File, NEW g \in File, NEW h \in File, g.entries # {},
           FileBefore(f, g), FileBefore(g, h)
    PROVE  FileBefore(f, h)
  <1>1. PICK b \in g.entries : TRUE
    OBVIOUS
  <1>2. ASSUME NEW a \in f.entries, NEW c \in h.entries
        PROVE  Precedes(a, c)
    <2>1. Precedes(a, b) /\ Precedes(b, c)
      BY <1>1 DEF FileBefore
    <2>2. a \in Entry /\ b \in Entry /\ c \in Entry
      BY <1>1 DEF File
    <2> QED
      BY <2>1, <2>2, PrecedesTransitive
  <1> QED
    BY <1>2 DEF FileBefore

\* AddBoundaryInputs adds files of the level, and the result is the least
\* set that holds every boundary file of its members.
LEMMA BoundaryInputs ==
    ASSUME NEW files, NEW chosen \in SUBSET files
    PROVE  LET S == AddBoundaryInputs(files, chosen) IN
           /\ chosen \subseteq S
           /\ S \subseteq files
           /\ ClosedUnderBoundary(files, S)
           /\ \A T \in SUBSET files :
                chosen \subseteq T /\ ClosedUnderBoundary(files, T) => S \subseteq T
  <1> DEFINE S == AddBoundaryInputs(files, chosen)
  <1>1. chosen \subseteq S /\ S \subseteq files
    BY DEF AddBoundaryInputs
  <1>2. \A T \in SUBSET files :
          chosen \subseteq T /\ ClosedUnderBoundary(files, T) => S \subseteq T
    BY DEF AddBoundaryInputs
  <1>3. ASSUME NEW f \in S, NEW g \in files, IsBoundary(f, g)
        PROVE  g \in S
    <2>1. ASSUME NEW T \in SUBSET files, chosen \subseteq T, ClosedUnderBoundary(files, T)
          PROVE  g \in T
      <3>1. f \in T
        BY <1>2, <2>1
      <3> QED
        BY <3>1, <2>1, <1>3 DEF ClosedUnderBoundary
    <2> QED
      BY <2>1 DEF AddBoundaryInputs
  <1>4. ClosedUnderBoundary(files, S)
    BY <1>3 DEF ClosedUnderBoundary
  <1> QED
    BY <1>1, <1>2, <1>4

\* A file that meets a range meets every wider one.
LEMMA OverlapsMonotone ==
    ASSUME NEW f, NEW R, NEW Q, R \subseteq Q, Overlaps(f, R)
    PROVE  Overlaps(f, Q)
  BY DEF Overlaps

\* In level 0, GetOverlappingInputs is the least set closed under overlap.
LEMMA OverlappingInputs ==
    ASSUME NEW version, NEW range
    PROVE  LET S == GetOverlappingInputs(version, 0, range) IN
           /\ S \subseteq version[0]
           /\ ClosedUnderOverlap(version[0], range, S)
           /\ \A T \in SUBSET version[0] :
                ClosedUnderOverlap(version[0], range, T) => S \subseteq T
  <1> DEFINE S == GetOverlappingInputs(version, 0, range)
  <1>1. S \subseteq version[0]
    BY DEF GetOverlappingInputs
  <1>2. \A T \in SUBSET version[0] :
          ClosedUnderOverlap(version[0], range, T) => S \subseteq T
    BY DEF GetOverlappingInputs
  <1>3. ASSUME NEW f \in version[0], Overlaps(f, range \cup UserKeys(S))
        PROVE  f \in S
    <2>1. ASSUME NEW T \in SUBSET version[0], ClosedUnderOverlap(version[0], range, T)
          PROVE  f \in T
      <3>1. S \subseteq T
        BY <1>2, <2>1
      <3>2. UserKeys(S) \subseteq UserKeys(T)
        BY <3>1 DEF UserKeys, EntriesOf
      <3>3. Overlaps(f, range \cup UserKeys(T))
        BY <3>2, <1>3, OverlapsMonotone
      <3> QED
        BY <3>3, <2>1 DEF ClosedUnderOverlap
    <2> QED
      BY <2>1 DEF GetOverlappingInputs
  <1> QED
    BY <1>1, <1>2, <1>3 DEF ClosedUnderOverlap

-----------------------------------------------------------------------------
(* Connected.  The two sides of a key k; a file that does not cover k lies *)
(* on one of them, and the rules that add files to a compaction never      *)
(* cross k without a file that covers it.                                  *)

Sides(k) == {{j \in Int : j < k}, {j \in Int : j > k}}
Covers(files, k) == \E f \in files : KeyInRange(f, k)

\* A file without k in its range that meets a range on one side of k lies
\* wholly on that side.
LEMMA FileOnOneSide ==
    ASSUME NEW f \in File, NEW k \in Int, ~KeyInRange(f, k),
           NEW D \in Sides(k), NEW R \in SUBSET D, Overlaps(f, R)
    PROVE  UserKeys({f}) \subseteq D
  <1>1. \A a \in f.entries : a.key \in Int
    BY EntryFields DEF File
  <1>2. UserKeys({f}) = {e.key : e \in f.entries}
    BY DEF UserKeys, EntriesOf
  <1>3. \A r \in R : r \in Int
    BY DEF Sides
  <1>4. ASSUME NEW a \in f.entries, NEW e \in f.entries
        PROVE  ~(a.key <= k /\ k <= e.key)
    BY DEF KeyInRange, Overlaps
  <1>5. CASE D = {j \in Int : j < k}
    <2>1. PICK a \in f.entries, r \in R : a.key <= r
      BY DEF Overlaps
    <2>2. a.key < k
      BY <2>1, <1>1, <1>3, <1>5
    <2>3. \A e \in f.entries : e.key < k
      BY <2>2, <1>1, <1>4
    <2> QED
      BY <2>3, <1>1, <1>2, <1>5
  <1>6. CASE D = {j \in Int : j > k}
    <2>1. PICK a \in f.entries, r \in R : r <= a.key
      BY DEF Overlaps
    <2>2. a.key > k
      BY <2>1, <1>1, <1>3, <1>6
    <2>3. \A e \in f.entries : e.key > k
      BY <2>2, <1>1, <1>4
    <2> QED
      BY <2>3, <1>1, <1>2, <1>6
  <1> QED
    BY <1>5, <1>6 DEF Sides

\* The same for a file with a key on one side of k.
LEMMA FileWithKeyOnSide ==
    ASSUME NEW f \in File, NEW k \in Int, ~KeyInRange(f, k),
           NEW D \in Sides(k), NEW a \in f.entries, a.key \in D
    PROVE  UserKeys({f}) \subseteq D
  <1>1. a.key \in Int
    BY EntryFields DEF File
  <1>2. Overlaps(f, {a.key})
    BY <1>1 DEF Overlaps
  <1> QED
    BY <1>2, FileOnOneSide

\* AddBoundaryInputs does not jump over a user key that it leaves uncovered:
\* a boundary file continues the last user key of the file before it.
LEMMA BoundaryOnOneSide ==
    ASSUME NEW files \in SUBSET File, NEW chosen \in SUBSET files, NEW k \in Int,
           ~Covers(AddBoundaryInputs(files, chosen), k),
           NEW D \in Sides(k), UserKeys(chosen) \subseteq D
    PROVE  UserKeys(AddBoundaryInputs(files, chosen)) \subseteq D
  <1> DEFINE S == AddBoundaryInputs(files, chosen)
             T == {f \in S : UserKeys({f}) \subseteq D}
  <1>1. /\ chosen \subseteq S /\ S \subseteq files /\ ClosedUnderBoundary(files, S)
        /\ \A Q \in SUBSET files :
             chosen \subseteq Q /\ ClosedUnderBoundary(files, Q) => S \subseteq Q
    BY BoundaryInputs
  <1>2. chosen \subseteq T
    BY <1>1 DEF UserKeys, EntriesOf
  <1>3. ASSUME NEW f \in T, NEW g \in files, IsBoundary(f, g)
        PROVE  g \in T
    <2>1. g \in S
      BY <1>1, <1>3 DEF ClosedUnderBoundary
    <2>2. PICK a \in f.entries, b \in g.entries : a.key = b.key
      BY <1>3 DEF IsBoundary
    <2>3. b.key \in D
      BY <2>2, <1>3 DEF UserKeys, EntriesOf
    <2>4. ~KeyInRange(g, k)
      BY <2>1 DEF Covers
    <2> QED
      BY <2>1, <2>2, <2>3, <2>4, FileWithKeyOnSide
  <1>4. ClosedUnderBoundary(files, T)
    BY <1>3 DEF ClosedUnderBoundary
  <1>5. S \subseteq T
    BY <1>1, <1>2, <1>4
  <1> QED
    BY <1>5 DEF UserKeys, EntriesOf

\* Nor does GetOverlappingInputs, also when level 0 widens the range.
LEMMA OverlapOnOneSide ==
    ASSUME NEW version \in Version, NEW l \in Levels, NEW k \in Int,
           NEW D \in Sides(k), NEW range \in SUBSET D,
           ~Covers(GetOverlappingInputs(version, l, range), k)
    PROVE  UserKeys(GetOverlappingInputs(version, l, range)) \subseteq D
  <1> DEFINE S == GetOverlappingInputs(version, l, range)
             T == {f \in S : UserKeys({f}) \subseteq D}
  <1>0. version[l] \subseteq File
    BY DEF Version
  <1>1. CASE l = 0
    <2>1. /\ S \subseteq version[0] /\ ClosedUnderOverlap(version[0], range, S)
          /\ \A Q \in SUBSET version[0] :
               ClosedUnderOverlap(version[0], range, Q) => S \subseteq Q
      BY <1>1, OverlappingInputs
    <2>2. ASSUME NEW f \in version[0], Overlaps(f, range \cup UserKeys(T))
          PROVE  f \in T
      <3>1. UserKeys(T) \subseteq UserKeys(S) /\ UserKeys(T) \subseteq D
        BY DEF UserKeys, EntriesOf
      <3> DEFINE R == range \cup UserKeys(T)
                 Q == range \cup UserKeys(S)
      <3>2. Overlaps(f, Q)
        <4>1. R \subseteq Q /\ Overlaps(f, R)
          BY <3>1, <2>2
        <4> HIDE DEF R, Q
        <4> QED
          BY <4>1, OverlapsMonotone
      <3>3. f \in S
        BY <3>2, <2>1 DEF ClosedUnderOverlap
      <3>4. UserKeys({f}) \subseteq D
        BY <3>1, <3>3, <2>2, <1>0, <1>1, FileOnOneSide DEF Covers
      <3> QED
        BY <3>3, <3>4
    <2>3. S \subseteq T
      BY <2>1, <2>2 DEF ClosedUnderOverlap
    <2> QED
      BY <2>3 DEF UserKeys, EntriesOf
  <1>2. CASE l # 0
    <2>1. \A f \in S : f \in version[l] /\ Overlaps(f, range)
      BY <1>2 DEF GetOverlappingInputs
    <2>2. \A f \in S : UserKeys({f}) \subseteq D
      BY <2>1, <1>0, FileOnOneSide DEF Covers
    <2> QED
      BY <2>2 DEF UserKeys, EntriesOf
  <1> QED
    BY <1>1, <1>2

\* The inputs taken from a level are files of it, with all boundary files.
LEMMA InputsInLevel ==
    ASSUME NEW version \in Version, NEW l \in Levels, NEW keys
    PROVE  /\ GetOverlappingInputs(version, l, keys) \subseteq version[l]
           /\ LevelInputs(version, l, keys) \subseteq version[l]
           /\ GetOverlappingInputs(version, l, keys) \subseteq LevelInputs(version, l, keys)
           /\ ClosedUnderBoundary(version[l], LevelInputs(version, l, keys))
  <1>1. GetOverlappingInputs(version, l, keys) \subseteq version[l]
    BY DEF GetOverlappingInputs
  <1> QED
    BY <1>1, BoundaryInputs DEF LevelInputs

\* Nor do the two together jump over an uncovered user key.
LEMMA LevelInputsOnOneSide ==
    ASSUME NEW version \in Version, NEW l \in Levels, NEW k \in Int,
           NEW D \in Sides(k), NEW keys \in SUBSET D,
           ~Covers(LevelInputs(version, l, keys), k)
    PROVE  UserKeys(LevelInputs(version, l, keys)) \subseteq D
  <1> DEFINE S == GetOverlappingInputs(version, l, keys)
  <1>1. S \subseteq version[l] /\ version[l] \subseteq File
        /\ S \subseteq LevelInputs(version, l, keys)
    BY InputsInLevel DEF Version
  <1>2. ~Covers(S, k)
    BY <1>1 DEF Covers
  <1>3. UserKeys(S) \subseteq D
    BY <1>2, OverlapOnOneSide
  <1> QED
    BY <1>1, <1>3, BoundaryOnOneSide DEF LevelInputs

\* Every file of a set meets the range of the keys of a set that holds it.
LEMMA OverlapsOwnKeys ==
    ASSUME NEW f \in File, f.entries # {}, NEW R, UserKeys({f}) \subseteq R
    PROVE  Overlaps(f, R)
  <1>1. PICK a \in f.entries : TRUE
    OBVIOUS
  <1>2. a.key \in R /\ a.key \in Int
    BY <1>1, EntryFields DEF UserKeys, EntriesOf, File
  <1> QED
    BY <1>2 DEF Overlaps

\* The files of a level that hold only keys of the range are all taken, so
\* the expansion of SetupOtherInputs keeps the inputs it started from.
LEMMA OverlapTakesOwnKeys ==
    ASSUME NEW version \in Version, NoEmptyFile(version), NEW l \in Levels, NEW R,
           NEW S \in SUBSET version[l], UserKeys(S) \subseteq R
    PROVE  S \subseteq LevelInputs(version, l, R)
  <1>1. ASSUME NEW f \in S
        PROVE  f \in GetOverlappingInputs(version, l, R)
    <2>1. f \in File /\ f.entries # {} /\ f \in version[l]
      BY DEF Version, NoEmptyFile
    <2>2. UserKeys({f}) \subseteq R
      BY DEF UserKeys, EntriesOf
    <2>3. Overlaps(f, R)
      BY <2>1, <2>2, OverlapsOwnKeys
    <2>4. CASE l = 0
      <3> DEFINE T == GetOverlappingInputs(version, 0, R)
      <3>1. ClosedUnderOverlap(version[0], R, T)
        BY OverlappingInputs
      <3>2. Overlaps(f, R \cup UserKeys(T))
        <4> DEFINE Q == R \cup UserKeys(T)
        <4>1. R \subseteq Q
          OBVIOUS
        <4> HIDE DEF Q
        <4>2. Overlaps(f, Q)
          BY <4>1, <2>3, OverlapsMonotone
        <4> QED
          BY <4>2 DEF Q
      <3> QED
        BY <3>1, <3>2, <2>1, <2>4 DEF ClosedUnderOverlap
    <2>5. CASE l # 0
      BY <2>1, <2>3, <2>5 DEF GetOverlappingInputs
    <2> QED
      BY <2>4, <2>5
  <1> QED
    BY <1>1, InputsInLevel

\* Below level 0 a wider range takes more files.
LEMMA LevelInputsMonotone ==
    ASSUME NEW version \in Version, NEW l \in Levels, l # 0,
           NEW R, NEW Q, R \subseteq Q
    PROVE  LevelInputs(version, l, R) \subseteq LevelInputs(version, l, Q)
  <1> DEFINE A == GetOverlappingInputs(version, l, R)
             B == GetOverlappingInputs(version, l, Q)
             S == AddBoundaryInputs(version[l], B)
  <1>1. A \subseteq B /\ B \subseteq version[l]
    BY OverlapsMonotone DEF GetOverlappingInputs
  <1>2. B \subseteq S /\ S \subseteq version[l] /\ ClosedUnderBoundary(version[l], S)
    BY <1>1, BoundaryInputs
  <1>3. AddBoundaryInputs(version[l], A) \subseteq S
    BY <1>1, <1>2, BoundaryInputs
  <1> QED
    BY <1>3 DEF LevelInputs

-----------------------------------------------------------------------------
(* Isolated.                                                               *)

\* What is left one level down lies before or after all the inputs.
LEMMA ParentsIsolated ==
    ASSUME NEW version \in Version, NoEmptyFile(version), Disjoint(version),
           NEW level \in Levels, level + 1 \in Levels, NEW S \in SUBSET version[level],
           NEW f \in version[level + 1] \ ParentInputs(version, level, S)
    PROVE  LET entries == EntriesOf(S \cup ParentInputs(version, level, S)) IN
           \/ \A a \in f.entries, x \in entries : Precedes(a, x)
           \/ \A a \in f.entries, x \in entries : Precedes(x, a)
  <1> DEFINE files == version[level + 1]
             O == GetOverlappingInputs(version, level + 1, UserKeys(S))
             P == ParentInputs(version, level, S)
  <1>1. level + 1 \in Levels \ {0} /\ files \in SUBSET File /\ S \in SUBSET File
    BY DEF Levels, Version
  <1>2. /\ O = {g \in files : Overlaps(g, UserKeys(S))}
        /\ P = AddBoundaryInputs(files, O)
    BY <1>1 DEF GetOverlappingInputs, ParentInputs, LevelInputs
  <1>3. /\ O \subseteq P /\ P \subseteq files /\ ClosedUnderBoundary(files, P)
        /\ \A Q \in SUBSET files :
             O \subseteq Q /\ ClosedUnderBoundary(files, Q) => P \subseteq Q
    BY <1>2, BoundaryInputs
  <1>4. \A g, h \in files : g # h => FileBefore(g, h) \/ FileBefore(h, g)
    BY <1>1 DEF Disjoint
  <1>5. \A g \in files : g.entries # {}
    BY DEF NoEmptyFile
  <1>6. f \in files /\ f \notin P /\ f \in File
    BY <1>1
  <1>7. ~Overlaps(f, UserKeys(S))
    BY <1>2, <1>3, <1>6
  <1>8. \A g \in File : \A e \in g.entries : e \in Entry /\ e.key \in Int
    BY EntryFields DEF File
  <1>9. \A r \in UserKeys(S) : r \in Int
    BY <1>1, <1>8 DEF UserKeys, EntriesOf
  <1>10. CASE \A a \in f.entries, r \in UserKeys(S) : a.key < r
    <2> DEFINE T == {h \in files : FileBefore(f, h)}
    <2>1. ASSUME NEW h \in O
          PROVE  FileBefore(f, h)
      <3>1. PICK b \in h.entries, r \in UserKeys(S) : r <= b.key
        BY <1>2 DEF Overlaps
      <3>2. PICK a \in f.entries : TRUE
        BY <1>5, <1>6
      <3>3. a.key < b.key
        BY <3>1, <3>2, <1>10, <1>8, <1>9, <1>1, <1>2, <1>6
      <3>4. ~FileBefore(h, f)
        BY <3>1, <3>2, <3>3, <1>8, <1>1, <1>2, <1>6 DEF FileBefore, Precedes
      <3> QED
        BY <3>4, <1>3, <1>4, <1>6
    <2>2. ASSUME NEW u \in T, NEW w \in files, IsBoundary(u, w)
          PROVE  w \in T
      BY <2>2, <1>1, <1>6, FileBeforeTransitive DEF IsBoundary
    <2>3. P \subseteq T
      BY <2>1, <2>2, <1>2, <1>3 DEF ClosedUnderBoundary
    <2>4. ASSUME NEW a \in f.entries, NEW x \in EntriesOf(P)
          PROVE  Precedes(a, x)
      BY <2>3 DEF EntriesOf, FileBefore
    <2>5. ASSUME NEW a \in f.entries, NEW x \in EntriesOf(S)
          PROVE  Precedes(a, x)
      BY <1>10 DEF UserKeys, Precedes
    <2>6. \A x \in EntriesOf(S \cup P) : x \in EntriesOf(S) \/ x \in EntriesOf(P)
      BY DEF EntriesOf
    <2> QED
      BY <2>4, <2>5, <2>6
  <1>11. CASE \A a \in f.entries, r \in UserKeys(S) : r < a.key
    <2> DEFINE T == {h \in P : FileBefore(h, f)}
    <2>1. ASSUME NEW h \in O
          PROVE  FileBefore(h, f)
      <3>1. PICK b \in h.entries, r \in UserKeys(S) : b.key <= r
        BY <1>2 DEF Overlaps
      <3>2. PICK a \in f.entries : TRUE
        BY <1>5, <1>6
      <3>3. b.key < a.key
        BY <3>1, <3>2, <1>11, <1>8, <1>9, <1>1, <1>2, <1>6
      <3>4. ~FileBefore(f, h)
        BY <3>1, <3>2, <3>3, <1>8, <1>1, <1>2, <1>6 DEF FileBefore, Precedes
      <3> QED
        BY <3>4, <1>3, <1>4, <1>6
    <2>2. ASSUME NEW u \in T, NEW w \in files, IsBoundary(u, w)
          PROVE  w \in T
      <3>1. w \in P /\ u \in P
        BY <2>2, <1>3 DEF ClosedUnderBoundary
      <3>2. ASSUME FileBefore(f, w)
            PROVE  FALSE
        <4>1. PICK a \in u.entries, b \in w.entries : a.key = b.key
          BY <2>2 DEF IsBoundary
        <4>2. PICK c \in f.entries : TRUE
          BY <1>5, <1>6
        <4>3. Precedes(a, c) /\ Precedes(c, b)
          BY <4>1, <4>2, <3>2 DEF FileBefore
        <4>4. a.key = c.key
          BY <4>1, <4>2, <4>3, <3>1, <1>1, <1>3, <1>6, <1>8 DEF Precedes
        <4>5. IsBoundary(u, f)
          BY <4>1, <4>2, <4>4 DEF IsBoundary
        <4> QED
          BY <4>5, <3>1, <1>3, <1>6 DEF ClosedUnderBoundary
      <3> QED
        BY <3>1, <3>2, <1>3, <1>4, <1>6
    <2>3. P \subseteq T
      BY <2>1, <2>2, <1>2, <1>3 DEF ClosedUnderBoundary
    <2>4. ASSUME NEW a \in f.entries, NEW x \in EntriesOf(P)
          PROVE  Precedes(x, a)
      BY <2>3 DEF EntriesOf, FileBefore
    <2>5. ASSUME NEW a \in f.entries, NEW x \in EntriesOf(S)
          PROVE  Precedes(x, a)
      BY <1>11 DEF UserKeys, Precedes
    <2>6. \A x \in EntriesOf(S \cup P) : x \in EntriesOf(S) \/ x \in EntriesOf(P)
      BY DEF EntriesOf
    <2> QED
      BY <2>4, <2>5, <2>6
  <1>12. \/ \A a \in f.entries, r \in UserKeys(S) : a.key < r
         \/ \A a \in f.entries, r \in UserKeys(S) : r < a.key
    BY <1>6, <1>7, <1>8, <1>9 DEF Overlaps
  <1> QED
    BY <1>10, <1>11, <1>12

\* What is left at a level below 0 is newer than what boundary files were
\* added to: an older entry of the same user key would be in a boundary file.
LEMMA BoundaryLeavesNewer ==
    ASSUME NEW version \in Version, Disjoint(version), NEW l \in Levels \ {0},
           NEW S \in SUBSET version[l], ClosedUnderBoundary(version[l], S)
    PROVE  Newer(EntriesOf(version[l] \ S), EntriesOf(S))
  <1> SUFFICES ASSUME NEW g \in version[l] \ S, NEW a \in g.entries,
                      NEW f \in S, NEW x \in f.entries, a.key = x.key
               PROVE  a.seq > x.seq
    BY DEF Newer, EntriesOf
  <1>1. ~FileBefore(f, g)
    BY DEF ClosedUnderBoundary, IsBoundary
  <1>2. FileBefore(g, f)
    BY <1>1 DEF Disjoint
  <1>3. Precedes(a, x)
    BY <1>2 DEF FileBefore
  <1>4. a \in Entry /\ x \in Entry
    BY DEF Version, File
  <1> QED
    BY <1>3, <1>4, EntryFields DEF Precedes

\* Files of level 0 that share a user key are taken together.
LEMMA OverlapLeavesNothing ==
    ASSUME NEW version \in Version, NEW range,
           NEW S \in SUBSET version[0], ClosedUnderOverlap(version[0], range, S)
    PROVE  /\ ClosedUnderBoundary(version[0], S)
           /\ Newer(EntriesOf(version[0] \ S), EntriesOf(S))
  <1>0. version[0] \subseteq File
    BY LevelsAssumption DEF Version, Levels
  <1>1. ASSUME NEW g \in version[0], NEW a \in g.entries,
               NEW f \in S, NEW x \in f.entries, a.key = x.key
        PROVE  g \in S
    <2>1. a.key \in Int
      BY <1>0, EntryFields DEF File
    <2>2. a.key \in range \cup UserKeys(S)
      BY <1>1 DEF UserKeys, EntriesOf
    <2>3. Overlaps(g, range \cup UserKeys(S))
      BY <2>1, <2>2 DEF Overlaps
    <2> QED
      BY <2>3 DEF ClosedUnderOverlap
  <1>2. ClosedUnderBoundary(version[0], S)
    BY <1>1 DEF ClosedUnderBoundary, IsBoundary
  <1>3. Newer(EntriesOf(version[0] \ S), EntriesOf(S))
    BY <1>1 DEF Newer, EntriesOf
  <1> QED
    BY <1>2, <1>3

\* A set of files fit to be the upper inputs of a compaction: what is left
\* of the level is newer than all of it.
LeavesNewer(version, level, S) ==
    S \subseteq version[level] /\ Newer(EntriesOf(version[level] \ S), EntriesOf(S))

\* What LevelInputs leaves at its level is newer than what it takes.
LEMMA LevelInputsLeaveNewer ==
    ASSUME NEW version \in Version, Disjoint(version), NEW l \in Levels, NEW keys
    PROVE  LeavesNewer(version, l, LevelInputs(version, l, keys))
  <1> DEFINE S == LevelInputs(version, l, keys)
  <1>1. S \subseteq version[l] /\ ClosedUnderBoundary(version[l], S)
    BY InputsInLevel
  <1>2. CASE l = 0
    <2> DEFINE O == GetOverlappingInputs(version, 0, keys)
    <2>1. O \subseteq version[0] /\ ClosedUnderOverlap(version[0], keys, O)
      BY OverlappingInputs
    <2>2. ClosedUnderBoundary(version[0], O) /\ Newer(EntriesOf(version[0] \ O), EntriesOf(O))
      BY <2>1, OverlapLeavesNothing
    <2>3. S = O
      BY <2>1, <2>2, <1>2, BoundaryInputs DEF LevelInputs
    <2> QED
      BY <2>1, <2>2, <2>3, <1>2 DEF LeavesNewer
  <1>3. CASE l # 0
    BY <1>1, <1>3, BoundaryLeavesNewer DEF LeavesNewer
  <1> QED
    BY <1>2, <1>3

\* Inputs that leave only newer entries behind are isolated together with
\* the files ParentInputs adds for them one level down.
LEMMA IsolatedByParents ==
    ASSUME NEW version \in Version, NoEmptyFile(version), Disjoint(version),
           SearchOrderIn(version), NEW level \in Levels, level + 1 \in Levels,
           NEW S, LeavesNewer(version, level, S)
    PROVE  Isolated(version, level, S, ParentInputs(version, level, S))
  <1> DEFINE P == ParentInputs(version, level, S)
             entries == EntriesOf(S \cup P)
  <1>1. S \subseteq version[level]
    BY DEF LeavesNewer
  <1>2. P \subseteq version[level + 1]
    BY InputsInLevel DEF ParentInputs
  <1>3. \A f \in version[level + 1] \ P :
          \/ \A a \in f.entries, x \in entries : Precedes(a, x)
          \/ \A a \in f.entries, x \in entries : Precedes(x, a)
    BY <1>1, ParentsIsolated
  <1>4. ASSUME NEW a \in EntriesOf(version[level] \ S), NEW x \in entries, a.key = x.key
        PROVE  a.seq > x.seq
    <2>1. CASE x \in EntriesOf(S)
      BY <2>1, <1>4 DEF LeavesNewer, Newer
    <2>2. CASE x \in EntriesOf(P)
      <3>1. a \in EntriesOf(version[level]) /\ x \in EntriesOf(version[level + 1])
        BY <2>2, <1>2 DEF EntriesOf
      <3>2. Newer(EntriesOf(version[level]), EntriesOf(version[level + 1]))
        BY DEF SearchOrderIn, Levels
      <3> QED
        BY <3>1, <3>2, <1>4 DEF Newer
    <2> QED
      BY <2>1, <2>2 DEF EntriesOf
  <1> QED
    BY <1>1, <1>2, <1>3, <1>4 DEF Isolated, Newer

-----------------------------------------------------------------------------
(* SetupOtherInputs and PickCompaction.                                    *)

\* A set of files without a gap at k.
OneSided(files, k) ==
    Covers(files, k) \/ \E D \in Sides(k) : UserKeys(files) \subseteq D

\* Files that cannot lie on both sides of an uncovered key have no gap.
LEMMA ConnectedIfOneSided ==
    ASSUME NEW files, \A k \in Int : OneSided(files, k)
    PROVE  Connected(files)
  <1> SUFFICES ASSUME NEW k \in Keys, ~Covers(files, k)
               PROVE  \/ \A e \in EntriesOf(files) : e.key < k
                      \/ \A e \in EntriesOf(files) : e.key > k
    BY DEF Connected, Covers
  <1>1. k \in Int
    BY KeysAssumption
  <1>2. PICK D \in Sides(k) : UserKeys(files) \subseteq D
    BY <1>1 DEF OneSided
  <1>3. \A e \in EntriesOf(files) : e.key \in D
    BY <1>2 DEF UserKeys
  <1> QED
    BY <1>2, <1>3 DEF Sides

\* Adding the parents keeps inputs on one side of an uncovered key there.
LEMMA ParentsOnOneSide ==
    ASSUME NEW version \in Version, NEW level \in Levels, level + 1 \in Levels,
           NEW k \in Int, NEW D \in Sides(k), NEW S, UserKeys(S) \subseteq D,
           ~Covers(ParentInputs(version, level, S), k)
    PROVE  UserKeys(S \cup ParentInputs(version, level, S)) \subseteq D
  <1>1. UserKeys(ParentInputs(version, level, S)) \subseteq D
    BY LevelInputsOnOneSide DEF ParentInputs
  <1> QED
    BY <1>1 DEF UserKeys, EntriesOf

\* SetupOtherInputs, expanding or not, returns isolated inputs without a gap
\* when the picked files leave newer entries behind and have no gap.
LEMMA SetupIsSafe ==
    ASSUME NEW version \in Version, NoEmptyFile(version), Disjoint(version),
           SearchOrderIn(version), NEW level \in Levels, level + 1 \in Levels,
           NEW picked, NEW mayExpand \in BOOLEAN,
           LeavesNewer(version, level, AddBoundaryInputs(version[level], picked)),
           \A k \in Int : OneSided(AddBoundaryInputs(version[level], picked), k)
    PROVE  LET inputs == SetupOtherInputs(version, level, picked, mayExpand) IN
           /\ Isolated(version, level, inputs[1], inputs[2])
           /\ Connected(inputs[1] \cup inputs[2])
  <1> DEFINE inputs0 == AddBoundaryInputs(version[level], picked)
             inputs1 == ParentInputs(version, level, inputs0)
             keys == UserKeys(inputs0 \cup inputs1)
             expanded0 == LevelInputs(version, level, keys)
             expanded1 == ParentInputs(version, level, expanded0)
             inputs == SetupOtherInputs(version, level, picked, mayExpand)
  <1>1. inputs = <<inputs0, inputs1>> \/ inputs = <<expanded0, expanded1>>
    BY DEF SetupOtherInputs
  <1>2. Isolated(version, level, inputs0, inputs1)
    BY IsolatedByParents
  <1>3. \A k \in Int : OneSided(inputs0 \cup inputs1, k)
    <2> SUFFICES ASSUME NEW k \in Int, ~Covers(inputs0 \cup inputs1, k)
                 PROVE  \E D \in Sides(k) : UserKeys(inputs0 \cup inputs1) \subseteq D
      BY DEF OneSided
    <2>1. ~Covers(inputs0, k) /\ ~Covers(inputs1, k)
      BY DEF Covers
    <2>2. PICK D \in Sides(k) : UserKeys(inputs0) \subseteq D
      BY <2>1 DEF OneSided
    <2> QED
      BY <2>1, <2>2, ParentsOnOneSide
  <1>4. Isolated(version, level, expanded0, expanded1)
    BY LevelInputsLeaveNewer, IsolatedByParents
  <1>5. \A k \in Int : OneSided(expanded0 \cup expanded1, k)
    <2> SUFFICES ASSUME NEW k \in Int, ~Covers(expanded0 \cup expanded1, k)
                 PROVE  \E D \in Sides(k) : UserKeys(expanded0 \cup expanded1) \subseteq D
      BY DEF OneSided
    <2>1. ~Covers(expanded0, k) /\ ~Covers(expanded1, k)
      BY DEF Covers
    <2>2. inputs0 \subseteq version[level] /\ inputs1 \subseteq version[level + 1]
      BY <1>2 DEF Isolated
    <2>3. inputs0 \subseteq expanded0
      <3>1. UserKeys(inputs0) \subseteq keys
        BY DEF UserKeys, EntriesOf
      <3> HIDE DEF keys, inputs0, inputs1
      <3> QED
        BY <2>2, <3>1, OverlapTakesOwnKeys
    <2>4. inputs1 \subseteq expanded1
      <3>1. UserKeys(inputs0) \subseteq UserKeys(expanded0)
        BY <2>3 DEF UserKeys, EntriesOf
      <3>2. level + 1 # 0
        BY DEF Levels
      <3>3. LevelInputs(version, level + 1, UserKeys(inputs0))
              \subseteq LevelInputs(version, level + 1, UserKeys(expanded0))
        <4> HIDE DEF inputs0, expanded0
        <4> QED
          BY <3>1, <3>2, LevelInputsMonotone
      <3> QED
        BY <3>3 DEF ParentInputs
    <2>5. ~Covers(inputs0 \cup inputs1, k)
      BY <2>1, <2>3, <2>4 DEF Covers
    <2>6. PICK D \in Sides(k) : keys \subseteq D
      BY <2>5, <1>3 DEF OneSided
    <2>7. UserKeys(expanded0) \subseteq D
      <3> HIDE DEF keys
      <3> QED
        BY <2>1, <2>6, LevelInputsOnOneSide
    <2> QED
      BY <2>1, <2>7, ParentsOnOneSide
  <1>6. Connected(inputs0 \cup inputs1) /\ Connected(expanded0 \cup expanded1)
    BY <1>3, <1>5, ConnectedIfOneSided
  <1> HIDE DEF inputs0, inputs1, expanded0, expanded1
  <1> QED
    BY <1>1, <1>2, <1>4, <1>6

\* Every automatic compaction: its inputs can be merged one level down, and
\* nothing that is flushed later can land between them.
THEOREM PickIsSafe ==
    ASSUME NEW version \in Version, NoEmptyFile(version), Disjoint(version),
           SearchOrderIn(version), NEW level \in Levels, level + 1 \in Levels,
           NEW f \in version[level], NEW mayExpand \in BOOLEAN
    PROVE  LET inputs == PickCompaction(version, level, f, mayExpand) IN
           /\ Isolated(version, level, inputs[1], inputs[2])
           /\ Connected(inputs[1] \cup inputs[2])
  <1> DEFINE own == UserKeys({f})
             picked == IF level = 0 THEN GetOverlappingInputs(version, 0, own) ELSE {f}
             S == AddBoundaryInputs(version[level], picked)
  <1>0. f \in File /\ version[level] \subseteq File /\ version[level] \in SUBSET File
    BY DEF Version
  <1>1. picked \in SUBSET version[level]
    BY OverlappingInputs
  <1>2. picked \subseteq S /\ S \subseteq version[level] /\ ClosedUnderBoundary(version[level], S)
    BY <1>1, BoundaryInputs
  <1>3. LeavesNewer(version, level, S)
    <2>1. CASE level = 0
      <3>1. S = LevelInputs(version, level, own)
        BY <2>1 DEF LevelInputs
      <3> QED
        BY <3>1, LevelInputsLeaveNewer
    <2>2. CASE level # 0
      BY <1>2, <2>2, BoundaryLeavesNewer DEF LeavesNewer
    <2> QED
      BY <2>1, <2>2
  <1>4. \A k \in Int : OneSided(S, k)
    <2> SUFFICES ASSUME NEW k \in Int, ~Covers(S, k)
                 PROVE  \E D \in Sides(k) : UserKeys(S) \subseteq D
      BY DEF OneSided
    <2>1. f \in S
      <3>1. CASE level = 0
        <4>1. {f} \subseteq LevelInputs(version, level, own)
          BY OverlapTakesOwnKeys
        <4> QED
          BY <4>1, <3>1 DEF LevelInputs
      <3>2. CASE level # 0
        BY <1>2, <3>2
      <3> QED
        BY <3>1, <3>2
    <2>2. PICK D \in Sides(k) : own \subseteq D
      <3>1. PICK a \in f.entries : a.key \in Int
        BY <1>0, EntryFields DEF NoEmptyFile, File
      <3>2. ~KeyInRange(f, k)
        BY <2>1 DEF Covers
      <3>3. a.key # k
        BY <3>1, <3>2 DEF KeyInRange, Overlaps
      <3>4. \E D \in Sides(k) : a.key \in D
        BY <3>1, <3>3 DEF Sides
      <3> QED
        BY <3>2, <3>4, <1>0, FileWithKeyOnSide
    <2>3. CASE level = 0
      <3>1. S = LevelInputs(version, level, own)
        BY <2>3 DEF LevelInputs
      <3>2. ~Covers(LevelInputs(version, level, own), k)
        BY <3>1
      <3>3. UserKeys(LevelInputs(version, level, own)) \subseteq D
        <4> HIDE DEF own
        <4> QED
          BY <3>2, <2>2, LevelInputsOnOneSide
      <3> QED
        BY <3>1, <3>3
    <2>4. CASE level # 0
      BY <2>2, <2>4, <1>0, <1>1, BoundaryOnOneSide
    <2> QED
      BY <2>3, <2>4
  <1>5. PickCompaction(version, level, f, mayExpand)
          = SetupOtherInputs(version, level, picked, mayExpand)
    BY DEF PickCompaction
  <1> HIDE DEF picked
  <1> QED
    BY <1>3, <1>4, <1>5, SetupIsSafe

\* What ParentInputs leaves one level down holds only newer entries of the
\* user keys it and the upper inputs hold.
LEMMA ParentsLeaveNewer ==
    ASSUME NEW version \in Version, Disjoint(version), NEW level \in Levels,
           level + 1 \in Levels, NEW S \in SUBSET version[level]
    PROVE  LET P == ParentInputs(version, level, S) IN
           Newer(EntriesOf(version[level + 1] \ P), EntriesOf(S \cup P))
  <1> DEFINE P == ParentInputs(version, level, S)
             O == GetOverlappingInputs(version, level + 1, UserKeys(S))
  <1>1. level + 1 # 0
    BY DEF Levels
  <1>2. Newer(EntriesOf(version[level + 1] \ P), EntriesOf(P))
    BY LevelInputsLeaveNewer DEF ParentInputs, LeavesNewer
  <1>3. O \subseteq P
    <2>1. O \in SUBSET version[level + 1]
      BY <1>1 DEF GetOverlappingInputs
    <2> QED
      BY <2>1, BoundaryInputs DEF ParentInputs, LevelInputs
  <1>4. ASSUME NEW f \in version[level + 1], NEW a \in f.entries,
               NEW x \in EntriesOf(S), a.key = x.key
        PROVE  f \in P
    <2>1. a.key \in Int
      BY EntryFields DEF Version, File
    <2>2. a.key \in UserKeys(S)
      BY <1>4 DEF UserKeys
    <2>3. Overlaps(f, UserKeys(S))
      BY <2>1, <2>2 DEF Overlaps
    <2>4. f \in O
      BY <1>1, <2>3 DEF GetOverlappingInputs
    <2> QED
      BY <2>4, <1>3
  <1> HIDE DEF P, O
  <1> QED
    BY <1>2, <1>4 DEF Newer, EntriesOf, P

\* So does PickCompaction: below its output level there may be older ones,
\* in it there are none.
LEMMA PickLeavesNewer ==
    ASSUME NEW version \in Version, Disjoint(version), NEW level \in Levels,
           level + 1 \in Levels, NEW f \in version[level], NEW mayExpand \in BOOLEAN
    PROVE  LET inputs == PickCompaction(version, level, f, mayExpand) IN
           Newer(EntriesOf(version[level + 1] \ inputs[2]), EntriesOf(inputs[1] \cup inputs[2]))
  <1> DEFINE picked == IF level = 0 THEN GetOverlappingInputs(version, 0, UserKeys({f})) ELSE {f}
             inputs0 == AddBoundaryInputs(version[level], picked)
             inputs1 == ParentInputs(version, level, inputs0)
             expanded0 == LevelInputs(version, level, UserKeys(inputs0 \cup inputs1))
             expanded1 == ParentInputs(version, level, expanded0)
             inputs == PickCompaction(version, level, f, mayExpand)
  <1>1. inputs = <<inputs0, inputs1>> \/ inputs = <<expanded0, expanded1>>
    BY DEF PickCompaction, SetupOtherInputs
  <1>2. inputs0 \in SUBSET version[level]
    BY DEF AddBoundaryInputs
  <1>3. expanded0 \in SUBSET version[level]
    BY DEF LevelInputs, AddBoundaryInputs
  <1> HIDE DEF inputs0, expanded0, inputs
  <1>4. Newer(EntriesOf(version[level + 1] \ inputs1), EntriesOf(inputs0 \cup inputs1))
    BY <1>2, ParentsLeaveNewer
  <1>5. Newer(EntriesOf(version[level + 1] \ expanded1), EntriesOf(expanded0 \cup expanded1))
    BY <1>3, ParentsLeaveNewer
  <1> HIDE DEF inputs1, expanded1
  <1>6. CASE inputs = <<inputs0, inputs1>>
    <2>1. inputs[1] = inputs0 /\ inputs[2] = inputs1
      BY <1>6
    <2> QED
      BY <2>1, <1>4 DEF inputs
  <1>7. CASE inputs = <<expanded0, expanded1>>
    <2>1. inputs[1] = expanded0 /\ inputs[2] = expanded1
      BY <1>7
    <2> QED
      BY <2>1, <1>5 DEF inputs
  <1> QED
    BY <1>1, <1>6, <1>7

-----------------------------------------------------------------------------
(* Installing the outputs of a compaction, and a flushed file.             *)

\* Levels are comparable numbers that start at 0.
LEMMA LevelsAreNaturals ==
    /\ 0 \in Levels
    /\ \A l \in Levels : l \in Nat
    /\ \A l, m \in Levels : l < m \/ l = m \/ m < l
  BY LevelsAssumption DEF Levels

\* merged is the version after the files outs took the place of inputs that
\* were isolated in version.
Merges(version, level, in0, in1, outs, merged) ==
    /\ version \in Version /\ level \in Levels /\ level + 1 \in Levels
    /\ NoEmptyFile(version)
    /\ Disjoint(version)
    /\ SearchOrderIn(version)
    /\ Isolated(version, level, in0, in1)
    /\ outs \in SUBSET File
    /\ EntriesOf(outs) \subseteq EntriesOf(in0 \cup in1)
    /\ \A f \in outs : f.entries # {}
    /\ \A f, g \in outs : f # g => FileBefore(f, g) \/ FileBefore(g, f)
    /\ merged[level] = version[level] \ in0
    /\ merged[level + 1] = (version[level + 1] \ in1) \cup outs
    /\ \A l \in Levels \ {level, level + 1} : merged[l] = version[l]

\* A version in which isolated inputs were replaced by their merge one level
\* down, or by part of it, is still sorted and searched newest first.
LEMMA MergeKeepsOrder ==
    ASSUME NEW version, NEW level, NEW in0, NEW in1, NEW outs, NEW merged,
           Merges(version, level, in0, in1, outs, merged)
    PROVE  /\ NoEmptyFile(merged)
           /\ Disjoint(merged)
           /\ SearchOrderIn(merged)
           /\ merged[0] \subseteq version[0]
           /\ UNION {EntriesOf(merged[l]) : l \in Levels}
                \subseteq UNION {EntriesOf(version[l]) : l \in Levels}
  <1> DEFINE entries == EntriesOf(in0 \cup in1)
  <1>1. /\ merged[level] = version[level] \ in0
        /\ merged[level + 1] = (version[level + 1] \ in1) \cup outs
        /\ \A l \in Levels \ {level, level + 1} : merged[l] = version[l]
    BY DEF Merges
  <1>2. /\ version \in Version /\ level \in Levels /\ level + 1 \in Levels
        /\ NoEmptyFile(version) /\ Disjoint(version) /\ SearchOrderIn(version)
        /\ Isolated(version, level, in0, in1)
        /\ outs \in SUBSET File /\ EntriesOf(outs) \subseteq entries
        /\ \A f \in outs : f.entries # {}
        /\ \A f, g \in outs : f # g => FileBefore(f, g) \/ FileBefore(g, f)
    BY DEF Merges
  <1> USE <1>2
  <1>3. level # level + 1 /\ level + 1 # 0
    BY LevelsAreNaturals
  <1>4. NoEmptyFile(merged)
    BY <1>1 DEF NoEmptyFile
  <1>5. ASSUME NEW l \in Levels \ {0}, NEW f \in merged[l], NEW g \in merged[l], f # g
        PROVE  FileBefore(f, g) \/ FileBefore(g, f)
    <2>1. CASE f \in version[l] /\ g \in version[l]
      BY <2>1, <1>5 DEF Disjoint
    <2>2. ASSUME NEW p \in version[level + 1] \ in1, NEW q \in outs
          PROVE  FileBefore(p, q) \/ FileBefore(q, p)
      <3>1. q.entries \subseteq entries
        BY DEF EntriesOf
      <3>2. \/ \A a \in p.entries, x \in entries : Precedes(a, x)
            \/ \A a \in p.entries, x \in entries : Precedes(x, a)
        BY DEF Isolated
      <3> QED
        BY <3>1, <3>2 DEF FileBefore
    <2>3. CASE f \notin version[l] \/ g \notin version[l]
      <3>1. l = level + 1
        BY <2>3, <1>1, <1>5
      <3>2. f \in (version[level + 1] \ in1) \cup outs /\ g \in (version[level + 1] \ in1) \cup outs
        BY <3>1, <1>1
      <3>3. CASE f \in version[level + 1] \ in1
        BY <3>1, <3>2, <3>3, <2>2, <2>3
      <3>4. CASE f \in outs
        BY <3>2, <3>4, <2>2, <1>5
      <3> QED
        BY <3>2, <3>3, <3>4
    <2> QED
      BY <2>1, <2>3
  <1>6. merged[0] \subseteq version[0]
    BY <1>3, <1>1, LevelsAreNaturals
  <1>7. \A x \in entries : x \in EntriesOf(version[level]) \/ x \in EntriesOf(version[level + 1])
    BY DEF Isolated, EntriesOf
  <1>8. ASSUME NEW l \in Levels, NEW a \in EntriesOf(merged[l])
        PROVE  a \in EntriesOf(version[l]) \/ (l = level + 1 /\ a \in entries)
    BY <1>1 DEF EntriesOf
  <1>9. ASSUME NEW l \in Levels, NEW m \in Levels, l < m,
               NEW a \in EntriesOf(merged[l]), NEW b \in EntriesOf(merged[m]), a.key = b.key
        PROVE  a.seq > b.seq
    <2>1. \A i, j \in Levels : i < j => Newer(EntriesOf(version[i]), EntriesOf(version[j]))
      BY DEF SearchOrderIn
    <2>2. CASE a \in EntriesOf(version[l]) /\ b \in EntriesOf(version[m])
      BY <2>1, <2>2, <1>9 DEF Newer
    <2>3. CASE l = level + 1 /\ a \in entries
      <3>1. m # level + 1 /\ level < m /\ level + 1 < m
        BY <2>3, <1>9, LevelsAreNaturals
      <3>2. b \in EntriesOf(version[m])
        BY <3>1, <1>8
      <3> QED
        BY <3>1, <3>2, <2>1, <2>3, <1>7, <1>9 DEF Newer
    <2>4. CASE a \in EntriesOf(version[l]) /\ l # level + 1 /\ m = level + 1 /\ b \in entries
      <3>1. l < level \/ l = level
        BY <2>4, <1>9, LevelsAreNaturals
      <3>2. CASE l < level
        BY <3>2, <2>1, <2>4, <1>7, <1>9 DEF Newer
      <3>3. CASE l = level
        <4>1. a \in EntriesOf(version[level] \ in0)
          BY <3>3, <1>1
        <4> QED
          BY <4>1, <2>4, <1>9 DEF Isolated, Newer
      <3> QED
        BY <3>1, <3>2, <3>3
    <2>5. l # level + 1 \/ m # level + 1
      BY <1>9, LevelsAreNaturals
    <2>6. a \in EntriesOf(version[l]) \/ (l = level + 1 /\ a \in entries)
      BY <1>8
    <2>7. b \in EntriesOf(version[m]) \/ (m = level + 1 /\ b \in entries)
      BY <1>8
    <2> HIDE DEF entries
    <2> QED
      BY <2>2, <2>3, <2>4, <2>5, <2>6, <2>7
  <1>10. SearchOrderIn(merged)
    <2>1. \A l, m \in Levels : l < m => Newer(EntriesOf(merged[l]), EntriesOf(merged[m]))
      BY <1>9 DEF Newer
    <2>2. \A f, g \in merged[0] : f # g =>
            /\ f.number # g.number
            /\ f.number > g.number => Newer(f.entries, g.entries)
      BY <1>6 DEF SearchOrderIn
    <2> QED
      BY <2>1, <2>2 DEF SearchOrderIn
  <1>11. UNION {EntriesOf(merged[l]) : l \in Levels}
           \subseteq UNION {EntriesOf(version[l]) : l \in Levels}
    BY <1>7, <1>8
  <1> QED
    BY <1>4, <1>5, <1>6, <1>10, <1>11 DEF Disjoint

\* A file and one whose user keys it does not overlap are in order.
LEMMA NoOverlapIsOrdered ==
    ASSUME NEW f \in File, NEW n \in File, ~Overlaps(f, UserKeys({n}))
    PROVE  /\ FileBefore(f, n) \/ FileBefore(n, f)
           /\ \A a \in f.entries, b \in n.entries : a.key # b.key
  <1>1. UserKeys({n}) = {e.key : e \in n.entries}
    BY DEF UserKeys, EntriesOf
  <1>2. /\ \A a \in f.entries : a.key \in Int
        /\ \A b \in n.entries : b.key \in Int
    BY EntryFields DEF File
  <1>3. \/ \A a \in f.entries, b \in n.entries : ~(a.key <= b.key)
        \/ \A a \in f.entries, b \in n.entries : ~(b.key <= a.key)
    <2>1. \A b \in n.entries : b.key \in UserKeys({n})
      BY <1>1
    <2> QED
      BY <2>1 DEF Overlaps
  <1>4. \/ \A a \in f.entries, b \in n.entries : a.key < b.key
        \/ \A a \in f.entries, b \in n.entries : b.key < a.key
    BY <1>2, <1>3
  <1> QED
    BY <1>2, <1>4 DEF FileBefore, Precedes

\* A version with a flushed file at a level PickLevelForMemTableOutput allows
\* is still sorted and searched newest first.
LEMMA FlushKeepsOrder ==
    ASSUME NEW version \in Version, NoEmptyFile(version), Disjoint(version),
           SearchOrderIn(version),
           NEW n \in File, n.entries # {},
           \A f \in version[0] : f.number < n.number,
           \A l \in Levels : \A b \in EntriesOf(version[l]), a \in n.entries : a.seq > b.seq,
           NEW level \in PickLevelForMemTableOutput(version, UserKeys({n})),
           NEW flushed, flushed = [version EXCEPT ![level] = @ \cup {n}]
    PROVE  /\ flushed \in Version
           /\ NoEmptyFile(flushed)
           /\ Disjoint(flushed)
           /\ SearchOrderIn(flushed)
  <1>1. level \in Levels
    BY LevelsAssumption DEF PickLevelForMemTableOutput, Levels
  <1>2. /\ flushed[level] = version[level] \cup {n}
        /\ \A l \in Levels \ {level} : flushed[l] = version[l]
    BY <1>1 DEF Version
  <1>3. flushed \in Version
    BY <1>1, <1>2 DEF Version
  <1>4. NoEmptyFile(flushed)
    BY <1>2 DEF NoEmptyFile
  <1>5. ASSUME level # 0, NEW m \in Levels, m <= level, NEW f \in version[m]
        PROVE  /\ FileBefore(f, n) \/ FileBefore(n, f)
               /\ \A a \in f.entries, b \in n.entries : a.key # b.key
    <2>1. m \in 0..level
      BY <1>5, <1>1, LevelsAreNaturals
    <2>2. ~Overlaps(f, UserKeys({n}))
      BY <2>1, <1>5 DEF PickLevelForMemTableOutput, OverlapInLevel
    <2>3. f \in File
      BY DEF Version
    <2> QED
      BY <2>2, <2>3, NoOverlapIsOrdered
  <1>6. Disjoint(flushed)
    <2> SUFFICES ASSUME NEW l \in Levels \ {0}, NEW f \in flushed[l], NEW g \in flushed[l], f # g
                 PROVE  FileBefore(f, g) \/ FileBefore(g, f)
      BY DEF Disjoint
    <2>1. CASE f \in version[l] /\ g \in version[l]
      BY <2>1 DEF Disjoint
    <2>2. CASE l = level /\ (f = n \/ g = n)
      BY <2>2, <1>2, <1>5, <1>1, LevelsAreNaturals
    <2> QED
      BY <2>1, <2>2, <1>2
  <1>7. ASSUME NEW l \in Levels, NEW a \in EntriesOf(flushed[l])
        PROVE  a \in EntriesOf(version[l]) \/ (l = level /\ a \in n.entries)
    BY <1>2 DEF EntriesOf
  <1>8. ASSUME NEW l \in Levels, NEW m \in Levels, l < m,
               NEW a \in EntriesOf(flushed[l]), NEW b \in EntriesOf(flushed[m]), a.key = b.key
        PROVE  a.seq > b.seq
    <2>1. CASE a \in EntriesOf(version[l]) /\ b \in EntriesOf(version[m])
      BY <2>1, <1>8 DEF SearchOrderIn, Newer
    <2>2. CASE l = level /\ a \in n.entries
      BY <2>2, <1>7, <1>8, LevelsAreNaturals
    <2>3. CASE a \in EntriesOf(version[l]) /\ m = level /\ b \in n.entries
      <3>1. PICK f \in version[l] : a \in f.entries
        BY <2>3 DEF EntriesOf
      <3>2. level # 0 /\ l <= level
        BY <2>3, <1>8, LevelsAreNaturals
      <3> QED
        BY <3>1, <3>2, <2>3, <1>5, <1>8
    <2> QED
      BY <2>1, <2>2, <2>3, <1>7
  <1>9. ASSUME NEW f \in flushed[0], NEW g \in flushed[0], f # g
        PROVE  /\ f.number # g.number
               /\ f.number > g.number => Newer(f.entries, g.entries)
    <2>1. CASE f \in version[0] /\ g \in version[0]
      BY <2>1, <1>9 DEF SearchOrderIn
    <2>2. \A h \in version[0] : h.number < n.number /\ h.number \in Nat /\ n.number \in Nat
      BY LevelsAreNaturals DEF Version, File
    <2>3. CASE f = n /\ g \in version[0]
      <3>1. \A a \in f.entries, b \in g.entries : a.seq > b.seq
        BY <2>3, LevelsAreNaturals DEF EntriesOf
      <3> QED
        BY <3>1, <2>2, <2>3 DEF Newer
    <2>4. CASE g = n /\ f \in version[0]
      BY <2>2, <2>4
    <2> QED
      BY <2>1, <2>3, <2>4, <1>2, <1>9, LevelsAreNaturals
  <1>10. SearchOrderIn(flushed)
    BY <1>8, <1>9 DEF SearchOrderIn, Newer
  <1> QED
    BY <1>3, <1>4, <1>6, <1>10

\* A running compaction is not disturbed by a flush, wherever it lands.
LEMMA FlushKeepsIsolated ==
    ASSUME NEW version \in Version, NEW n \in File,
           NEW level \in PickLevelForMemTableOutput(version, UserKeys({n})),
           NEW flushed, NEW c \in Levels, NEW in0, NEW in1, NEW ins,
           c + 1 \in Levels,
           NoEmptyFile(version),
           n.entries # {},
           \A l \in Levels : \A b \in EntriesOf(version[l]), a \in n.entries : a.seq > b.seq,
           flushed = [version EXCEPT ![level] = @ \cup {n}],
           Isolated(version, c, in0, in1),
           ins = in0 \cup in1,
           Connected(ins)
    PROVE  Isolated(flushed, c, in0, in1)
  <1> DEFINE entries == EntriesOf(in0 \cup in1)
  <1>1. level \in Levels
    BY LevelsAssumption DEF PickLevelForMemTableOutput, Levels
  <1>2. /\ flushed[level] = version[level] \cup {n}
        /\ \A l \in Levels \ {level} : flushed[l] = version[l]
    BY <1>1 DEF Version
  <1>3. in0 \subseteq version[c] /\ in1 \subseteq version[c + 1]
    BY DEF Isolated
  <1>4. in0 \subseteq flushed[c] /\ in1 \subseteq flushed[c + 1]
    BY <1>2, <1>3
  <1>5. \A f \in in0 \cup in1 : f \in File
    BY <1>3 DEF Version
  <1>6. ASSUME level = c + 1
        PROVE  \/ \A a \in n.entries, x \in entries : Precedes(a, x)
               \/ \A a \in n.entries, x \in entries : Precedes(x, a)
    <2>1. \A f \in in0 \cup in1 : ~Overlaps(f, UserKeys({n}))
      <3>1. c \in 0..level /\ c + 1 \in 0..level /\ level # 0
        BY <1>6, LevelsAreNaturals
      <3> QED
        BY <3>1, <1>3 DEF PickLevelForMemTableOutput, OverlapInLevel
    <2>2. \A e \in n.entries : e.key \in Keys /\ e.key \in Int
      BY EntryFields DEF File
    <2>3. \A f \in in0 \cup in1 : \A x \in f.entries : x.key \in Int
      BY <1>5, EntryFields DEF File
    <2>4. \A e \in n.entries : e.key \in UserKeys({n})
      BY DEF UserKeys, EntriesOf
    <2>5. \A f \in in0 \cup in1 : \A e \in n.entries : ~KeyInRange(f, e.key)
      BY <2>1, <2>4 DEF KeyInRange, Overlaps
    <2>6. \A e \in n.entries : \/ \A x \in entries : x.key < e.key
                               \/ \A x \in entries : x.key > e.key
      BY <2>2, <2>5 DEF Connected
    <2>7. ASSUME NEW d \in n.entries, NEW e \in n.entries,
                 \A x \in entries : x.key > d.key, \A x \in entries : x.key < e.key
          PROVE  entries = {}
      <3> SUFFICES ASSUME NEW f \in in0 \cup in1, NEW x \in f.entries
                   PROVE  FALSE
        BY DEF EntriesOf
      <3>1. x.key > d.key /\ x.key < e.key
        BY <2>7 DEF EntriesOf
      <3>2. /\ x.key <= e.key /\ e.key \in UserKeys({n})
            /\ d.key <= x.key /\ d.key \in UserKeys({n})
        <4>1. x.key \in Int /\ d.key \in Int /\ e.key \in Int
          BY <2>2, <2>3
        <4>2. x.key <= e.key /\ d.key <= x.key
          BY <3>1, <4>1
        <4> QED
          BY <4>2, <2>4
      <3>3. Overlaps(f, UserKeys({n}))
        BY <3>2 DEF Overlaps
      <3> QED
        BY <3>3, <2>1
    <2>8. \/ \A e \in n.entries : \A x \in entries : x.key < e.key
          \/ \A e \in n.entries : \A x \in entries : x.key > e.key
      BY <2>6, <2>7
    <2> QED
      BY <2>8, <2>2, <2>3 DEF Precedes, EntriesOf
  <1>7. ASSUME NEW f \in flushed[c + 1] \ in1
        PROVE  \/ \A a \in f.entries, x \in entries : Precedes(a, x)
               \/ \A a \in f.entries, x \in entries : Precedes(x, a)
    <2>1. CASE f \in version[c + 1]
      BY <2>1, <1>7 DEF Isolated
    <2>2. CASE f \notin version[c + 1]
      <3>1. level = c + 1 /\ f = n
        BY <2>2, <1>2, <1>7
      <3> QED
        BY <3>1, <1>6
    <2> QED
      BY <2>1, <2>2
  <1>8. ASSUME NEW f \in flushed[c] \ in0, NEW a \in f.entries, NEW x \in entries, a.key = x.key
        PROVE  a.seq > x.seq
    <2>1. CASE f \in version[c]
      BY <2>1, <1>8 DEF Isolated, Newer, EntriesOf
    <2>2. CASE f \notin version[c]
      <3>1. f = n
        BY <2>2, <1>2, <1>8
      <3>2. x \in EntriesOf(version[c]) \/ x \in EntriesOf(version[c + 1])
        BY <1>3 DEF EntriesOf
      <3> QED
        BY <3>1, <3>2, <1>8
    <2> QED
      BY <2>1, <2>2
  <1>9. Newer(EntriesOf(flushed[c] \ in0), entries)
    BY <1>8 DEF Newer, EntriesOf
  <1> QED
    BY <1>4, <1>7, <1>9 DEF Isolated
-----------------------------------------------------------------------------
(* Lookups: stopping at the first hit finds the newest entry.              *)

\* The entries for k that a read at sequence q may see.
Seen(entries, k, q) == {e \in entries : e.key = k /\ e.seq <= q}

\* Of the entries a read may see, one is the newest.
LEMMA LookupHits ==
    ASSUME NEW entries \in SUBSET Entry, NEW k, NEW q \in Nat
    PROVE  /\ Lookup(entries, k, q) \subseteq Seen(entries, k, q)
           /\ \A e \in Lookup(entries, k, q), o \in Seen(entries, k, q) : o.seq <= e.seq
           /\ Lookup(entries, k, q) = {} <=> Seen(entries, k, q) = {}
  <1> DEFINE S == Seen(entries, k, q)
             Ages == {q - e.seq : e \in S}
  <1>1. /\ Lookup(entries, k, q) \subseteq S
        /\ \A e \in Lookup(entries, k, q), o \in S : o.seq <= e.seq
    BY DEF Lookup, Seen
  <1>2. ASSUME S # {}
        PROVE  Lookup(entries, k, q) # {}
    <2>1. \A e \in S : e \in entries /\ e.key = k /\ e.seq \in Nat /\ e.seq <= q
      BY EntryFields DEF Seen
    <2>2. \A e \in S : q - e.seq \in Nat
      BY <2>1
    <2> HIDE DEF S
    <2>3. Ages \in SUBSET Nat /\ Ages # {}
      BY <2>2, <1>2
    <2>4. PICK n \in Ages : \A m \in Ages : n <= m
      <3> HIDE DEF Ages
      <3> QED
        BY <2>3, LeastNatural
    <2>5. PICK e \in S : n = q - e.seq
      BY <2>4
    <2>6. \A o \in S : o.seq <= e.seq
      <3> TAKE o \in S
      <3>1. q - e.seq <= q - o.seq
        BY <2>4, <2>5
      <3>2. e.seq \in Nat /\ o.seq \in Nat
        BY <2>1
      <3> QED
        BY <3>1, <3>2
    <2>7. \A o \in entries : o.key = k /\ o.seq <= q => o.seq <= e.seq
      BY <2>6 DEF S, Seen
    <2> QED
      BY <2>1, <2>7 DEF Lookup
  <1> QED
    BY <1>1, <1>2

\* With newer entries above, one lookup of everything finds what a lookup
\* above finds, or else what a lookup below finds.
LEMMA LookupLayers ==
    ASSUME NEW above \in SUBSET Entry, NEW below \in SUBSET Entry, Newer(above, below),
           NEW k, NEW q \in Nat
    PROVE  Lookup(above \cup below, k, q)
             = IF Lookup(above, k, q) # {} THEN Lookup(above, k, q) ELSE Lookup(below, k, q)
  <1>1. \A e \in above \cup below : e.seq \in Nat
    BY EntryFields
  <1>2. CASE Lookup(above, k, q) # {}
    <2>1. PICK n \in above : n.key = k /\ n.seq <= q
      BY <1>2 DEF Lookup
    <2>2. \A b \in below : b.key = k => b.seq < n.seq
      BY <2>1, <1>1 DEF Newer
    <2>3. ASSUME NEW e \in Lookup(above \cup below, k, q)
          PROVE  e \in Lookup(above, k, q)
      <3>1. n.seq <= e.seq /\ e.key = k
        BY <2>1 DEF Lookup
      <3>2. e \notin below
        BY <3>1, <2>2, <1>1, <2>1
      <3> QED
        BY <3>2 DEF Lookup
    <2>4. ASSUME NEW e \in Lookup(above, k, q)
          PROVE  e \in Lookup(above \cup below, k, q)
      <3>1. e \in above /\ e.key = k /\ e.seq <= q
        BY DEF Lookup
      <3>2. \A b \in below : b.key = k => b.seq <= e.seq
        BY <3>1, <1>1 DEF Newer
      <3> QED
        BY <3>1, <3>2 DEF Lookup
    <2> QED
      BY <1>2, <2>3, <2>4
  <1>3. CASE Lookup(above, k, q) = {}
    <2>1. \A o \in above : ~(o.key = k /\ o.seq <= q)
      BY <1>3, LookupHits DEF Seen
    <2>2. Lookup(above \cup below, k, q) = Lookup(below, k, q)
      BY <2>1 DEF Lookup
    <2> QED
      BY <1>3, <2>2
  <1> QED
    BY <1>2, <1>3

\* The files of level 0, from the newest on: the first hit is the newest.
LEMMA ProbeLevelZero ==
    ASSUME NEW version \in Version, SearchOrderIn(version), NEW k, NEW q \in Nat
    PROVE  Probe(version, 0, k, q) = Lookup(EntriesOf(version[0]), k, q)
  <1>0. /\ version[0] \in SUBSET File
        /\ \A f \in version[0] : f.entries \in SUBSET Entry /\ f.number \in Nat
        /\ \A f \in version[0], e \in EntriesOf(version[0]) : e.seq \in Nat
    BY LevelsAreNaturals, EntryFields DEF Version, File, EntriesOf
  <1>1. \A f, g \in version[0] :
          f # g => f.number # g.number /\ (f.number > g.number => Newer(f.entries, g.entries))
    BY DEF SearchOrderIn
  <1>2. ASSUME NEW e \in Probe(version, 0, k, q)
        PROVE  e \in Lookup(EntriesOf(version[0]), k, q)
    <2>1. PICK f \in version[0] :
            /\ e \in Lookup(f.entries, k, q)
            /\ \A h \in version[0] : h.number > f.number => Lookup(h.entries, k, q) = {}
      BY DEF Probe
    <2>2. e \in f.entries /\ e.key = k /\ e.seq <= q
      BY <2>1 DEF Lookup
    <2>3. ASSUME NEW h \in version[0], NEW o \in h.entries, o.key = k, o.seq <= q
          PROVE  o.seq <= e.seq
      <3>1. CASE h = f
        BY <3>1, <2>1, <2>3 DEF Lookup
      <3>2. CASE h # f
        <4>1. Lookup(h.entries, k, q) # {}
          BY <2>3, <1>0, LookupHits DEF Seen
        <4>2. f.number > h.number
          BY <4>1, <3>2, <2>1, <1>0, <1>1
        <4>3. e.seq > o.seq
          BY <4>2, <3>2, <1>1, <2>2, <2>3 DEF Newer
        <4>4. e.seq \in Nat /\ o.seq \in Nat
          BY <2>2, <1>0, EntryFields
        <4> QED
          BY <4>3, <4>4
      <3> QED
        BY <3>1, <3>2
    <2> QED
      BY <2>2, <2>3 DEF Lookup, EntriesOf
  <1>3. ASSUME NEW e \in Lookup(EntriesOf(version[0]), k, q)
        PROVE  e \in Probe(version, 0, k, q)
    <2>1. /\ e.key = k /\ e.seq <= q
          /\ \A o \in EntriesOf(version[0]) : o.key = k /\ o.seq <= q => o.seq <= e.seq
      BY DEF Lookup
    <2>2. PICK f \in version[0] : e \in f.entries
      BY DEF Lookup, EntriesOf
    <2>3. e \in Lookup(f.entries, k, q)
      BY <2>1, <2>2 DEF Lookup, EntriesOf
    <2>4. ASSUME NEW h \in version[0], h.number > f.number
          PROVE  Lookup(h.entries, k, q) = {}
      <3> SUFFICES ASSUME NEW o \in h.entries, o.key = k, o.seq <= q
                   PROVE  FALSE
        BY DEF Lookup
      <3>1. h # f
        BY <2>4, <1>0
      <3>2. o.seq > e.seq
        BY <3>1, <2>4, <1>1, <2>1, <2>2 DEF Newer
      <3>3. o.seq <= e.seq
        BY <2>1 DEF EntriesOf
      <3>4. o.seq \in Nat /\ e.seq \in Nat
        BY <2>2, <1>0, EntryFields
      <3> QED
        BY <3>2, <3>3, <3>4
    <2> QED
      BY <2>2, <2>3, <2>4 DEF Probe
  <1> QED
    BY <1>2, <1>3

\* Below level 0, the one file FindFile returns holds the newest entry.
LEMMA ProbeSortedLevel ==
    ASSUME NEW version \in Version, Disjoint(version), NEW level \in Levels, level # 0,
           NEW k, NEW q \in Nat
    PROVE  Probe(version, level, k, q) = Lookup(EntriesOf(version[level]), k, q)
  <1> DEFINE files == version[level]
  <1>0. \A f \in files : \A e \in f.entries : e \in Entry /\ e.key \in Int /\ e.seq \in Nat
    BY EntryFields DEF Version, File
  <1>1. Probe(version, level, k, q) = UNION {Lookup(f.entries, k, q) : f \in FindFile(files, k, q)}
    BY DEF Probe
  <1>2. \A f, g \in files : f # g => FileBefore(f, g) \/ FileBefore(g, f)
    BY DEF Disjoint
  <1> DEFINE Reaches(f) == \E a \in f.entries : a.key > k \/ (a.key = k /\ a.seq <= q)
  <1>3. \A f \in FindFile(files, k, q) :
          /\ f \in files /\ Reaches(f)
          /\ \A g \in files : g # f /\ Reaches(g) => FileBefore(f, g)
    BY DEF FindFile
  <1>4. \A f \in files :
          Reaches(f) /\ (\A g \in files : g # f /\ Reaches(g) => FileBefore(f, g))
            => f \in FindFile(files, k, q)
    BY DEF FindFile
  <1>5. ASSUME NEW e \in Probe(version, level, k, q)
        PROVE  e \in Lookup(EntriesOf(files), k, q)
    <2>1. PICK f \in FindFile(files, k, q) : e \in Lookup(f.entries, k, q)
      BY <1>1
    <2>2. f \in files /\ e \in f.entries /\ e.key = k /\ e.seq <= q
      BY <2>1, <1>3 DEF Lookup
    <2>3. ASSUME NEW g \in files, NEW o \in g.entries, o.key = k, o.seq <= q
          PROVE  o.seq <= e.seq
      <3>1. CASE g = f
        BY <3>1, <2>1, <2>3 DEF Lookup
      <3>2. CASE g # f
        <4>1. FileBefore(f, g)
          BY <3>2, <2>1, <2>3, <1>3
        <4>2. Precedes(e, o)
          BY <4>1, <2>2 DEF FileBefore
        <4> QED
          BY <4>2, <2>2, <2>3, <1>0 DEF Precedes
      <3> QED
        BY <3>1, <3>2
    <2> QED
      BY <2>2, <2>3 DEF Lookup, EntriesOf
  <1>6. ASSUME NEW e \in Lookup(EntriesOf(files), k, q)
        PROVE  e \in Probe(version, level, k, q)
    <2>1. /\ e.key = k /\ e.seq <= q
          /\ \A o \in EntriesOf(files) : o.key = k /\ o.seq <= q => o.seq <= e.seq
      BY DEF Lookup
    <2>2. PICK f \in files : e \in f.entries
      BY DEF Lookup, EntriesOf
    <2>3. e \in Lookup(f.entries, k, q)
      BY <2>1, <2>2 DEF Lookup, EntriesOf
    <2>4. Reaches(f)
      BY <2>1, <2>2
    <2>5. ASSUME NEW g \in files, g # f, Reaches(g)
          PROVE  FileBefore(f, g)
      <3>1. PICK a \in g.entries : a.key > k \/ (a.key = k /\ a.seq <= q)
        BY <2>5
      <3>2. ~Precedes(a, e)
        <4>1. a.key = k /\ a.seq <= q => a.seq <= e.seq
          BY <2>1, <3>1 DEF EntriesOf
        <4> QED
          BY <4>1, <3>1, <2>1, <2>2, <1>0 DEF Precedes
      <3> QED
        BY <3>1, <3>2, <2>2, <2>5, <1>2 DEF FileBefore
    <2>6. f \in FindFile(files, k, q)
      BY <2>4, <2>5, <1>4
    <2> QED
      BY <2>3, <2>6, <1>1
  <1> QED
    BY <1>5, <1>6

\* Version::Get, which stops at the first level with a hit, finds the entry
\* a merge of all the files would find.
THEOREM GetFindsNewest ==
    ASSUME NEW version \in Version, Disjoint(version), SearchOrderIn(version),
           NEW k, NEW q \in Nat
    PROVE  GetInVersion(version, k, q)
             = Lookup(UNION {EntriesOf(version[l]) : l \in Levels}, k, q)
  <1> DEFINE all == UNION {EntriesOf(version[l]) : l \in Levels}
             Hits(l) == Lookup(EntriesOf(version[l]), k, q)
  <1>1. \A l \in Levels : Probe(version, l, k, q) = Hits(l)
    BY ProbeLevelZero, ProbeSortedLevel
  <1>2. \A l \in Levels : EntriesOf(version[l]) \in SUBSET Entry
    BY DEF Version, File, EntriesOf
  <1>3. \A l, m \in Levels : l < m => Newer(EntriesOf(version[l]), EntriesOf(version[m]))
    BY DEF SearchOrderIn
  <1>4. \A l \in Levels : \A j \in 0..(l - 1) : j \in Levels /\ j < l
    BY LevelsAssumption DEF Levels
  <1>5. \A l, j \in Levels : j < l => j \in 0..(l - 1)
    BY LevelsAssumption DEF Levels
  <1>6. ASSUME NEW e \in GetInVersion(version, k, q)
        PROVE  e \in Lookup(all, k, q)
    <2>1. PICK l \in Levels : e \in Hits(l) /\ \A j \in 0..(l - 1) : Hits(j) = {}
      BY <1>1, <1>4 DEF GetInVersion
    <2>2. e \in EntriesOf(version[l]) /\ e.key = k /\ e.seq <= q
      BY <2>1 DEF Lookup
    <2>3. ASSUME NEW m \in Levels, NEW o \in EntriesOf(version[m]), o.key = k, o.seq <= q
          PROVE  o.seq <= e.seq
      <3>1. CASE m < l
        <4>1. Hits(m) # {}
          BY <2>3, <1>2, LookupHits DEF Seen
        <4> QED
          BY <4>1, <3>1, <2>1, <1>5
      <3>2. CASE m = l
        BY <3>2, <2>1, <2>3 DEF Lookup
      <3>3. CASE l < m
        <4>1. e.seq > o.seq
          BY <3>3, <1>3, <2>2, <2>3 DEF Newer
        <4>2. e.seq \in Nat /\ o.seq \in Nat
          BY <2>2, <2>3, <1>2, EntryFields
        <4> QED
          BY <4>1, <4>2
      <3> QED
        BY <3>1, <3>2, <3>3, LevelsAreNaturals
    <2> QED
      BY <2>2, <2>3 DEF Lookup
  <1>7. ASSUME NEW e \in Lookup(all, k, q)
        PROVE  e \in GetInVersion(version, k, q)
    <2>1. /\ e.key = k /\ e.seq <= q
          /\ \A o \in all : o.key = k /\ o.seq <= q => o.seq <= e.seq
      BY DEF Lookup
    <2>2. PICK l \in Levels : e \in EntriesOf(version[l])
      BY DEF Lookup
    <2>3. e \in Hits(l)
      BY <2>1, <2>2 DEF Lookup
    <2>4. ASSUME NEW j \in 0..(l - 1)
          PROVE  Hits(j) = {}
      <3>1. j \in Levels /\ j < l
        BY <1>4
      <3> SUFFICES ASSUME NEW o \in EntriesOf(version[j]), o.key = k, o.seq <= q
                   PROVE  FALSE
        BY DEF Lookup
      <3>2. o.seq > e.seq
        BY <3>1, <1>3, <2>1, <2>2 DEF Newer
      <3>3. o.seq <= e.seq
        BY <2>1, <3>1
      <3>4. o.seq \in Nat /\ e.seq \in Nat
        BY <3>1, <2>2, <1>2, EntryFields
      <3> QED
        BY <3>2, <3>3, <3>4
    <2>5. \A j \in 0..(l - 1) : Probe(version, j, k, q) = {}
      BY <2>4, <1>1, <1>4
    <2> QED
      BY <2>3, <2>5, <1>1 DEF GetInVersion
  <1> QED
    BY <1>6, <1>7

-----------------------------------------------------------------------------
(* The tree.                                                               *)

\* A batch, or the empty one, is a sequence of operations.
LEMMA BatchFields ==
    ASSUME NEW ops \in Batches \cup {<<>>}
    PROVE  /\ Len(ops) \in Nat
           /\ \A i \in 1..Len(ops) : ops[i] \in Op
  <1>1. CASE ops = <<>>
    BY <1>1
  <1>2. CASE ops \in Batches
    <2>1. PICK n \in 1..MaxBatch : ops \in [1..n -> Op]
      BY <1>2 DEF Batches
    <2>2. n \in Nat /\ Len(ops) = n
      BY <2>1, BoundsAssumption
    <2> QED
      BY <2>1, <2>2
  <1> QED
    BY <1>1, <1>2

\* The entry InsertNext adds.
NewEntry == [key  |-> batch[inserted + 1].key,
             seq  |-> last_sequence + inserted + 1,
             type |-> batch[inserted + 1].type]

\* What InsertNext adds to mem_ is an entry with the next sequence number.
LEMMA NewEntryType ==
    ASSUME TypeOK, InsertNext
    PROVE  /\ NewEntry \in Entry
           /\ memtables' = [memtables EXCEPT ![mem] = @ \cup {NewEntry}]
           /\ NewEntry.seq = last_sequence + inserted + 1
  <1>1. inserted + 1 \in 1..Len(batch)
    BY BatchFields DEF TypeOK, InsertNext
  <1>2. batch[inserted + 1] \in Op
    BY <1>1, BatchFields DEF TypeOK
  <1>3. NewEntry \in Entry
    BY <1>2 DEF NewEntry, Entry, Op, TypeOK
  <1> QED
    BY <1>3 DEF NewEntry, InsertNext

\* Unref keeps the two tables it is told to keep and empties only others.
LEMMA ReferencedType ==
    ASSUME NEW tables \in [MemIds -> SUBSET Entry], NEW m, NEW i, NEW vs
    PROVE  /\ Referenced(tables, m, i, vs) \in [MemIds -> SUBSET Entry]
           /\ \A id \in MemIds : Referenced(tables, m, i, vs)[id] \subseteq tables[id]
           /\ \A id \in MemIds \cap {m, i} : Referenced(tables, m, i, vs)[id] = tables[id]
  BY DEF Referenced

\* The outputs of a compaction are files.
LEMMA OutputsAreFiles ==
    ASSUME NEW entries \in SUBSET Entry, NEW starts \in SUBSET entries
    PROVE  Outputs(entries, starts) \in SUBSET File
  BY DEF Outputs, File

\* The fields of a running compaction, and that a merge adds no entry.
LEMMA CompactionFields ==
    ASSUME TypeOK, compact # None
    PROVE  /\ compact \in Compaction
           /\ compact.level \in Levels
           /\ compact.inputs0 \in SUBSET File /\ compact.inputs1 \in SUBSET File
           /\ Survivors(compact) \in SUBSET Entry
           /\ Survivors(compact) \subseteq EntriesOf(compact.inputs0 \cup compact.inputs1)
  <1>1. compact \in Compaction
    BY DEF TypeOK
  <1>2. /\ compact.level \in Levels
        /\ compact.inputs0 \in SUBSET File /\ compact.inputs1 \in SUBSET File
    BY <1>1 DEF Compaction
  <1>3. Survivors(compact) \subseteq EntriesOf(compact.inputs0 \cup compact.inputs1)
    BY DEF Survivors, InputEntries
  <1>4. EntriesOf(compact.inputs0 \cup compact.inputs1) \subseteq Entry
    BY <1>2 DEF EntriesOf, File
  <1> QED
    BY <1>1, <1>2, <1>3, <1>4

\* The oldest snapshot, or last_sequence, is a sequence number.
LEMMA SmallestSnapshotType ==
    ASSUME TypeOK
    PROVE  SmallestSnapshot \in Nat
  <1> DEFINE held == {snapshots[s] : s \in Snapshots} \ {NoSnapshot}
  <1>1. held \in SUBSET Nat
    BY DEF TypeOK
  <1>2. CASE held = {}
    BY <1>2 DEF SmallestSnapshot, TypeOK
  <1>3. CASE held # {}
    <2>1. \E q \in held : \A p \in held : q <= p
      BY <1>1, <1>3, LeastNatural
    <2> QED
      BY <1>1, <1>3, <2>1 DEF SmallestSnapshot
  <1> QED
    BY <1>2, <1>3

-----------------------------------------------------------------------------
(* Type correctness.                                                       *)

\* SetupOtherInputs chooses files.
LEMMA InputsAreFiles ==
    ASSUME NEW level \in Levels, level + 1 \in Levels, current \in Version,
           NEW picked, NEW mayExpand
    PROVE  LET inputs == SetupOtherInputs(current, level, picked, mayExpand) IN
           inputs[1] \in SUBSET File /\ inputs[2] \in SUBSET File
  <1>1. \A l \in Levels : current[l] \in SUBSET File
    BY DEF Version
  <1>2. \A keys : /\ LevelInputs(current, level, keys) \in SUBSET File
                  /\ LevelInputs(current, level + 1, keys) \in SUBSET File
    BY <1>1 DEF LevelInputs, AddBoundaryInputs
  <1>3. AddBoundaryInputs(current[level], picked) \in SUBSET File
    BY <1>1 DEF AddBoundaryInputs
  <1> QED
    BY <1>2, <1>3 DEF SetupOtherInputs, ParentInputs

\* Starting a compaction keeps the types.
LEMMA StartWorkType ==
    ASSUME TypeOK, NEW level \in Levels, NEW inputs,
           inputs[1] \in SUBSET File, inputs[2] \in SUBSET File,
           StartWork(level, inputs)
    PROVE  TypeOK'
  <1>1. compact' \in Compaction
    BY SmallestSnapshotType DEF StartWork, Compaction, TypeOK
  <1> QED
    BY <1>1 DEF TypeOK, StartWork, writeVars, memVars

\* Every step keeps the types.
LEMMA TypeStep ==
    ASSUME TypeOK, [Next]_vars
    PROVE  TypeOK'
  <1> USE DEF writeVars, memVars
  <1>1. ASSUME NEW ops \in Batches, BeginWrite(ops)
        PROVE  TypeOK'
    BY <1>1 DEF TypeOK, BeginWrite
  <1>2. CASE InsertNext
    <2>1. memtables' \in [MemIds -> SUBSET Entry]
      BY <1>2, NewEntryType DEF TypeOK
    <2> QED
      BY <1>2, <2>1 DEF TypeOK, InsertNext
  <1>3. CASE PublishWrite
    BY <1>3, BatchFields DEF TypeOK, PublishWrite
  <1>4. CASE SwitchMemtable
    BY <1>4, BoundsAssumption DEF TypeOK, SwitchMemtable, MemIds
  <1>5. CASE CompactMemTable
    <2> DEFINE file == [number |-> next_file, entries |-> memtables[imm]]
    <2>1. imm \in MemIds
      BY <1>5 DEF CompactMemTable, TypeOK
    <2>2. file \in File
      BY <2>1 DEF File, TypeOK
    <2>3. PICK level : current' = [current EXCEPT ![level] = @ \cup {file}]
      BY <1>5 DEF CompactMemTable
    <2>4. current' \in Version
      BY <2>2, <2>3 DEF TypeOK, Version
    <2>5. memtables' \in [MemIds -> SUBSET Entry]
      BY <1>5, ReferencedType DEF CompactMemTable, TypeOK
    <2> QED
      BY <1>5, <2>4, <2>5 DEF TypeOK, CompactMemTable
  <1>6. ASSUME NEW level \in Levels, NEW f \in current[level], NEW mayExpand \in BOOLEAN,
               AutomaticCompaction(level, f, mayExpand)
        PROVE  TypeOK'
    <2> DEFINE inputs == PickCompaction(current, level, f, mayExpand)
    <2>1. inputs[1] \in SUBSET File /\ inputs[2] \in SUBSET File
      BY <1>6, InputsAreFiles DEF AutomaticCompaction, PickCompaction, TypeOK
    <2> HIDE DEF inputs
    <2>2. CASE TrivialMove(level, inputs)
      <3>1. current' \in Version
        BY <2>1, <2>2 DEF TrivialMove, TypeOK, Version
      <3> QED
        BY <2>2, <3>1 DEF TrivialMove, TypeOK
    <2>3. CASE StartWork(level, inputs)
      BY <2>1, <2>3, StartWorkType
    <2> QED
      BY <1>6, <2>2, <2>3 DEF AutomaticCompaction, inputs
  <1>7. ASSUME NEW level \in Levels, NEW range, NEW last, NEW mayExpand,
               ManualCompaction(level, range, last, mayExpand)
        PROVE  TypeOK'
    <2> DEFINE inputs == CompactRange(current, level, range, last, mayExpand)
    <2>1. inputs[1] \in SUBSET File /\ inputs[2] \in SUBSET File
      BY <1>7, InputsAreFiles DEF ManualCompaction, CompactRange, TypeOK
    <2> HIDE DEF inputs
    <2>2. StartWork(level, inputs)
      BY <1>7 DEF ManualCompaction, inputs
    <2> QED
      BY <2>1, <2>2, StartWorkType
  <1>8. CASE InstallCompactionResults
    <2>1. PICK starts \in SUBSET Survivors(compact) :
            current' = [current EXCEPT
               ![compact.level] = @ \ compact.inputs0,
               ![compact.level + 1] = (@ \ compact.inputs1)
                                       \cup Outputs(Survivors(compact), starts)]
      BY <1>8 DEF InstallCompactionResults
    <2>2. Outputs(Survivors(compact), starts) \in SUBSET File
      BY <1>8, CompactionFields, OutputsAreFiles DEF InstallCompactionResults
    <2>3. current' \in Version
      BY <2>1, <2>2 DEF TypeOK, Version
    <2> QED
      BY <1>8, <2>3 DEF TypeOK, InstallCompactionResults
  <1>9. ASSUME NEW s \in Snapshots, GetSnapshot(s) \/ ReleaseSnapshot(s)
        PROVE  TypeOK'
    BY <1>9 DEF TypeOK, GetSnapshot, ReleaseSnapshot
  <1>10. ASSUME NEW r \in Readers, NEW seq \in Nat, BeginRead(r, seq)
         PROVE  TypeOK'
    <2>1. [seq |-> seq, mem |-> mem, imm |-> imm, version |-> current] \in View
      BY DEF TypeOK, View
    <2> QED
      BY <1>10, <2>1 DEF TypeOK, BeginRead
  <1>11. ASSUME NEW r \in Readers,
                \/ ReadLatest(r)
                \/ \E s \in Snapshots : ReadSnapshot(r, s)
         PROVE  TypeOK'
    <2>1. \A s \in Snapshots : snapshots[s] # NoSnapshot => snapshots[s] \in Nat
      BY DEF TypeOK
    <2> QED
      BY <1>10, <1>11, <2>1 DEF ReadLatest, ReadSnapshot, TypeOK
  <1>12. ASSUME NEW r \in Readers, EndRead(r)
         PROVE  TypeOK'
    <2>1. memtables' \in [MemIds -> SUBSET Entry]
      BY <1>12, ReferencedType DEF EndRead, TypeOK
    <2> QED
      BY <1>12, <2>1 DEF TypeOK, EndRead
  <1>13. CASE UNCHANGED vars
    BY <1>13 DEF TypeOK, vars
  <1> QED
    BY <1>1, <1>2, <1>3, <1>4, <1>5, <1>6, <1>7, <1>8, <1>9, <1>11, <1>12, <1>13 DEF Next

\* Every variable keeps its type, manual compactions included.
THEOREM TypeCorrect == Spec => []TypeOK
  <1>1. Init => TypeOK
    BY BoundsAssumption, LevelsAssumption
       DEF Init, TypeOK, Version, MemIds, writeVars, memVars
  <1>2. TypeOK /\ [Next]_vars => TypeOK'
    BY TypeStep
  <1> QED
    BY <1>1, <1>2, PTL DEF Spec

-----------------------------------------------------------------------------
(* The inductive invariant.  The part about memtables and sequence numbers *)
(* and the part about the version and the running compaction are kept by   *)
(* separate lemmas, action by action.                                      *)

TreeOK ==
    /\ NumbersGrow
    /\ NoEmptyFile(current)
    /\ Disjoint(current)
    /\ SearchOrderIn(current)
    /\ CompactionConnected
    /\ InputsIsolated

MemOK == SequencesGrow /\ MemtablesInOrder

\* The inductive invariant is its types, its memtable part and its tree part.
LEMMA IInvParts == IInv <=> TypeOK /\ MemOK /\ TreeOK
  BY DEF IInv, MemOK, TreeOK

\* Steps that leave the memtables alone and add no entry to a file.
LEMMA MemOKIfFilesShrink ==
    ASSUME TypeOK, MemOK, UNCHANGED <<writeVars, mem, imm>>,
           memtables'[mem] = memtables[mem],
           imm # NoTable => memtables'[imm] = memtables[imm],
           \A id \in MemIds : memtables'[id] \subseteq memtables[id],
           FileEntries' \subseteq FileEntries
    PROVE  MemOK'
  <1>1. /\ last_sequence' = last_sequence /\ batch' = batch /\ inserted' = inserted
        /\ mem' = mem /\ imm' = imm
    BY DEF writeVars
  <1>2. ContentsOf(imm)' = ContentsOf(imm) /\ (memtables[mem])' = memtables[mem]
    BY <1>1 DEF ContentsOf
  <1>3. AllEntries' \subseteq AllEntries
    BY <1>2 DEF AllEntries
  <1>4. SequencesGrow'
    BY <1>1, <1>2, <1>3 DEF MemOK, SequencesGrow
  <1>5. MemtablesInOrder'
    BY <1>1, <1>2 DEF MemOK, MemtablesInOrder
  <1> QED
    BY <1>4, <1>5 DEF MemOK

\* Steps that leave the version, the counter and the compaction alone.
LEMMA TreeOKIfUnchanged ==
    ASSUME TreeOK, UNCHANGED <<current, next_file, compact>>
    PROVE  TreeOK'
  BY DEF TreeOK, NumbersGrow, CompactionConnected, InputsIsolated

\* The entries in files depend on current alone.
LEMMA FileEntriesUnchanged ==
    ASSUME UNCHANGED current
    PROVE  FileEntries' = FileEntries
  BY DEF FileEntries

\* Taking a batch leaves the memtables in order.
LEMMA BeginWriteMem ==
    ASSUME TypeOK, MemOK, NEW ops \in Batches, BeginWrite(ops)
    PROVE  MemOK'
  <1>1. /\ last_sequence' = last_sequence /\ batch' = ops /\ inserted' = 0 /\ inserted = 0
        /\ mem' = mem /\ imm' = imm /\ memtables' = memtables /\ current' = current
    BY DEF BeginWrite, memVars, MemOK, SequencesGrow
  <1>2. /\ FileEntries' = FileEntries /\ ContentsOf(imm)' = ContentsOf(imm)
        /\ (memtables[mem])' = memtables[mem] /\ AllEntries' = AllEntries
    BY <1>1 DEF FileEntries, ContentsOf, AllEntries
  <1>3. 0 <= Len(ops) /\ (ops = <<>> => 0 = 0)
    BY BatchFields
  <1>4. SequencesGrow'
    BY <1>1, <1>2, <1>3 DEF MemOK, SequencesGrow
  <1>5. MemtablesInOrder'
    BY <1>1 DEF MemOK, MemtablesInOrder
  <1> QED
    BY <1>4, <1>5 DEF MemOK

\* What is in memtables and files are entries with sequence numbers.
LEMMA EntriesAreEntries ==
    ASSUME TypeOK
    PROVE  /\ \A e \in AllEntries : e \in Entry /\ e.seq \in Nat
           /\ \A l \in Levels : EntriesOf(current[l]) \subseteq FileEntries
           /\ FileEntries \subseteq AllEntries
           /\ memtables[mem] \subseteq AllEntries /\ ContentsOf(imm) \subseteq AllEntries
  <1>1. FileEntries \subseteq Entry
    BY DEF FileEntries, TypeOK, Version, EntriesOf, File
  <1>2. memtables[mem] \subseteq Entry /\ ContentsOf(imm) \subseteq Entry
    BY DEF TypeOK, ContentsOf
  <1>3. \A e \in AllEntries : e \in Entry /\ e.seq \in Nat
    BY <1>1, <1>2, EntryFields DEF AllEntries
  <1> QED
    BY <1>3 DEF AllEntries, FileEntries

\* An inserted entry is newer than every other one.
LEMMA InsertNextMem ==
    ASSUME TypeOK, MemOK, InsertNext
    PROVE  MemOK'
  <1> DEFINE new == NewEntry
  <1>1. /\ last_sequence' = last_sequence /\ batch' = batch /\ inserted' = inserted + 1
        /\ mem' = mem /\ imm' = imm /\ current' = current
        /\ inserted < Len(batch)
    BY DEF InsertNext
  <1>2. /\ new \in Entry /\ new.seq = last_sequence + inserted + 1
        /\ memtables' = [memtables EXCEPT ![mem] = @ \cup {new}]
    BY NewEntryType
  <1> HIDE DEF new
  <1>3. mem \in MemIds /\ imm # mem /\ imm < mem
    BY DEF MemOK, MemtablesInOrder, TypeOK, MemIds, NoTable
  <1>4. /\ FileEntries' = FileEntries
        /\ ContentsOf(imm)' = ContentsOf(imm)
        /\ (memtables[mem])' = memtables[mem] \cup {new}
    BY <1>1, <1>2, <1>3 DEF FileEntries, ContentsOf, TypeOK
  <1>5. AllEntries' = AllEntries \cup {new}
    BY <1>4 DEF AllEntries
  <1>6. \A e \in AllEntries : e.seq < new.seq /\ e.seq \in Nat
    BY <1>2, EntriesAreEntries DEF MemOK, SequencesGrow, TypeOK
  <1>7. new.seq \in Nat /\ new.seq = last_sequence' + inserted'
    BY <1>1, <1>2 DEF TypeOK
  <1>8. inserted' <= Len(batch) /\ batch # <<>>
    BY <1>1, BatchFields DEF TypeOK
  <1>9. \A a \in AllEntries' : a.seq <= last_sequence' + inserted'
    BY <1>5, <1>6, <1>7
  <1>10. \A a \in (memtables[mem])', b \in ContentsOf(imm)' \cup FileEntries' : a.seq > b.seq
    BY <1>4, <1>6, <1>7 DEF MemOK, SequencesGrow, AllEntries
  <1>11. \A a, b \in AllEntries' : a.seq = b.seq => a = b
    BY <1>5, <1>6, <1>7 DEF MemOK, SequencesGrow
  <1>12. SequencesGrow'
    BY <1>1, <1>4, <1>8, <1>9, <1>10, <1>11 DEF MemOK, SequencesGrow
  <1>13. MemtablesInOrder'
    <2>1. imm' # NoTable => memtables'[imm'] # {}
      BY <1>1, <1>2, <1>3 DEF MemOK, MemtablesInOrder, TypeOK
    <2>2. \A id \in MemIds : id > mem => memtables'[id] = {}
      BY <1>2, <1>3 DEF MemOK, MemtablesInOrder, TypeOK, MemIds
    <2> QED
      BY <1>1, <1>3, <2>1, <2>2 DEF MemtablesInOrder
  <1> QED
    BY <1>12, <1>13 DEF MemOK

\* Advancing last_sequence makes room for exactly the inserted entries.
LEMMA PublishWriteMem ==
    ASSUME TypeOK, MemOK, PublishWrite
    PROVE  MemOK'
  <1>1. /\ last_sequence' = last_sequence + inserted /\ batch' = <<>> /\ inserted' = 0
        /\ mem' = mem /\ imm' = imm /\ memtables' = memtables /\ current' = current
    BY DEF PublishWrite, memVars
  <1>2. /\ FileEntries' = FileEntries /\ ContentsOf(imm)' = ContentsOf(imm)
        /\ (memtables[mem])' = memtables[mem] /\ AllEntries' = AllEntries
    BY <1>1 DEF FileEntries, ContentsOf, AllEntries
  <1>3. last_sequence' + inserted' = last_sequence + inserted /\ Len(batch') = 0
    BY <1>1 DEF TypeOK
  <1>4. SequencesGrow'
    BY <1>1, <1>2, <1>3 DEF MemOK, SequencesGrow
  <1>5. MemtablesInOrder'
    BY <1>1 DEF MemOK, MemtablesInOrder
  <1> QED
    BY <1>4, <1>5 DEF MemOK

\* A new, empty mem_ leaves the sequence numbers in order.
LEMMA SwitchMemtableMem ==
    ASSUME TypeOK, MemOK, SwitchMemtable
    PROVE  MemOK'
  <1>1. /\ last_sequence' = last_sequence /\ batch' = batch /\ inserted' = inserted
        /\ mem' = mem + 1 /\ imm' = mem /\ memtables' = memtables /\ current' = current
        /\ imm = NoTable /\ memtables[mem] # {} /\ mem < MaxSequence + 1
    BY DEF SwitchMemtable, writeVars
  <1>2. mem \in MemIds /\ mem # NoTable /\ mem + 1 \in MemIds /\ mem \in Nat
    BY <1>1, BoundsAssumption DEF TypeOK, MemIds, NoTable
  <1>3. memtables[mem + 1] = {}
    BY <1>2 DEF MemOK, MemtablesInOrder
  <1>4. /\ FileEntries' = FileEntries /\ ContentsOf(imm) = {}
        /\ ContentsOf(imm)' = memtables[mem] /\ (memtables[mem])' = {}
    BY <1>1, <1>2, <1>3 DEF FileEntries, ContentsOf
  <1>5. AllEntries' = AllEntries
    BY <1>4 DEF AllEntries
  <1>6. SequencesGrow'
    BY <1>1, <1>4, <1>5 DEF MemOK, SequencesGrow
  <1>7. MemtablesInOrder'
    BY <1>1, <1>2 DEF MemOK, MemtablesInOrder, MemIds
  <1> QED
    BY <1>6, <1>7 DEF MemOK

\* The file a flush adds.
FlushedFile == [number |-> next_file, entries |-> memtables[imm]]

\* The flushed file is newer than the tree and has the greatest number.
LEMMA FlushFacts ==
    ASSUME TypeOK, MemOK, TreeOK, CompactMemTable
    PROVE  /\ FlushedFile \in File /\ FlushedFile.entries = memtables[imm]
           /\ FlushedFile.number = next_file
           /\ ContentsOf(imm) = memtables[imm] /\ FlushedFile.entries # {}
           /\ \A f \in current[0] : f.number < FlushedFile.number
           /\ \A l \in Levels : \A b \in EntriesOf(current[l]), a \in FlushedFile.entries :
                a.seq > b.seq
           /\ \E level \in PickLevelForMemTableOutput(current, UserKeys({FlushedFile})) :
                current' = [current EXCEPT ![level] = @ \cup {FlushedFile}]
  <1>1. imm \in MemIds /\ imm # NoTable
    BY DEF CompactMemTable, TypeOK
  <1>2. FlushedFile \in File /\ FlushedFile.entries = memtables[imm]
        /\ FlushedFile.number = next_file
    BY <1>1 DEF FlushedFile, File, TypeOK
  <1>3. ContentsOf(imm) = memtables[imm] /\ memtables[imm] # {}
    BY <1>1 DEF ContentsOf, MemOK, MemtablesInOrder
  <1>4. \A f \in current[0] : f.number < next_file
    BY DEF TreeOK, NumbersGrow
  <1>5. \A l \in Levels : \A b \in EntriesOf(current[l]), a \in memtables[imm] : a.seq > b.seq
    BY <1>3, EntriesAreEntries DEF MemOK, SequencesGrow
  <1>6. \E level \in PickLevelForMemTableOutput(current, UserKeys({FlushedFile})) :
          current' = [current EXCEPT ![level] = @ \cup {FlushedFile}]
    BY DEF CompactMemTable, FlushedFile
  <1> QED
    BY <1>2, <1>3, <1>4, <1>5, <1>6

\* A flush leaves the remaining memtables in order.
LEMMA CompactMemTableMem ==
    ASSUME TypeOK, MemOK, TreeOK, CompactMemTable
    PROVE  MemOK'
  <1>1. /\ last_sequence' = last_sequence /\ batch' = batch /\ inserted' = inserted
        /\ mem' = mem /\ imm' = NoTable /\ imm # NoTable
        /\ memtables' = Referenced(memtables, mem, NoTable, reads)
    BY DEF CompactMemTable, writeVars
  <1>2. mem \in MemIds /\ mem # NoTable /\ mem \in Nat
    BY DEF TypeOK, MemIds, NoTable
  <1>3. memtables'[mem] = memtables[mem] /\ \A id \in MemIds : memtables'[id] \subseteq memtables[id]
    BY <1>1, <1>2, ReferencedType DEF TypeOK
  <1>4. PICK level \in PickLevelForMemTableOutput(current, UserKeys({FlushedFile})) :
          current' = [current EXCEPT ![level] = @ \cup {FlushedFile}]
    BY FlushFacts
  <1>5. level \in Levels
    BY LevelsAssumption DEF PickLevelForMemTableOutput, Levels
  <1>6. FileEntries' = FileEntries \cup ContentsOf(imm)
    <2>1. /\ current'[level] = current[level] \cup {FlushedFile}
          /\ \A l \in Levels \ {level} : current'[l] = current[l]
      BY <1>4, <1>5 DEF TypeOK, Version
    <2>2. EntriesOf(current'[level]) = EntriesOf(current[level]) \cup ContentsOf(imm)
      BY <2>1, FlushFacts DEF EntriesOf
    <2> QED
      BY <2>1, <2>2, <1>5 DEF FileEntries
  <1>7. ContentsOf(imm)' = {} /\ (memtables[mem])' = memtables[mem]
    BY <1>1, <1>3 DEF ContentsOf
  <1>8. AllEntries' = AllEntries
    BY <1>6, <1>7 DEF AllEntries
  <1>9. SequencesGrow'
    BY <1>1, <1>6, <1>7, <1>8 DEF MemOK, SequencesGrow
  <1>10. MemtablesInOrder'
    BY <1>1, <1>2, <1>3 DEF MemOK, MemtablesInOrder, NoTable, MemIds
  <1> QED
    BY <1>9, <1>10 DEF MemOK

\* A flush leaves the tree in order and the running compaction isolated,
\* wherever the table lands.
LEMMA CompactMemTableTree ==
    ASSUME TypeOK, MemOK, TreeOK, CompactMemTable
    PROVE  TreeOK'
  <1> DEFINE n == FlushedFile
  <1>1. PICK level \in PickLevelForMemTableOutput(current, UserKeys({n})) :
          current' = [current EXCEPT ![level] = @ \cup {n}]
    BY FlushFacts
  <1>2. /\ n \in File /\ n.entries # {} /\ n.number = next_file
        /\ \A f \in current[0] : f.number < n.number
        /\ \A l \in Levels : \A b \in EntriesOf(current[l]), a \in n.entries : a.seq > b.seq
    BY FlushFacts
  <1>3. current \in Version /\ NoEmptyFile(current) /\ Disjoint(current) /\ SearchOrderIn(current)
        /\ compact' = compact /\ next_file' = next_file + 1
    BY DEF TypeOK, TreeOK, CompactMemTable
  <1> HIDE DEF n
  <1>4. NoEmptyFile(current') /\ Disjoint(current') /\ SearchOrderIn(current')
    BY <1>1, <1>2, <1>3, FlushKeepsOrder
  <1>5. NumbersGrow'
    <2>1. \A f \in current'[0] : f \in current[0] \/ f = n
      BY <1>1, <1>3, LevelsAreNaturals DEF Version
    <2>2. \A f \in current[0] : f.number \in Nat
      BY <1>3, LevelsAreNaturals DEF Version, File
    <2>3. \A f \in current'[0] : f.number < next_file + 1
      BY <2>1, <2>2, <1>2 DEF TypeOK
    <2> QED
      BY <2>3, <1>3 DEF NumbersGrow
  <1>6. CompactionConnected'
    BY <1>3 DEF TreeOK, CompactionConnected
  <1>7. ASSUME compact # None
        PROVE  Isolated(current', compact.level, compact.inputs0, compact.inputs1)
    <2>1. /\ compact.level \in Levels /\ compact.level + 1 \in Levels
          /\ Connected(compact.inputs0 \cup compact.inputs1)
          /\ Isolated(current, compact.level, compact.inputs0, compact.inputs1)
      BY <1>7, CompactionFields DEF TreeOK, CompactionConnected, InputsIsolated
    <2> DEFINE c == compact.level
               in0 == compact.inputs0
               in1 == compact.inputs1
               ins == in0 \cup in1
               flushed == current'
    <2>2. flushed = [current EXCEPT ![level] = @ \cup {n}]
      BY <1>1
    <2>4. ins = in0 \cup in1 /\ Connected(ins)
      BY <2>1
    <2> HIDE DEF c, in0, in1, ins, flushed
    <2>3. Isolated(flushed, c, in0, in1)
      <3>1. c \in Levels /\ c + 1 \in Levels /\ Isolated(current, c, in0, in1)
        BY <2>1 DEF c, in0, in1
      <3> QED
        BY <3>1, <2>2, <2>4, <1>1, <1>2, <1>3, FlushKeepsIsolated
    <2> QED
      BY <2>3 DEF c, in0, in1, flushed
  <1>8. InputsIsolated'
    BY <1>3, <1>7 DEF InputsIsolated
  <1> QED
    BY <1>4, <1>5, <1>6, <1>8 DEF TreeOK

\* The outputs of a compaction are non-empty files in order.
LEMMA OutputsOrdered ==
    ASSUME NEW entries \in SUBSET Entry, NEW starts, IsCut(entries, starts),
           \A a, b \in entries : a.seq = b.seq => a = b
    PROVE  LET outs == Outputs(entries, starts) IN
           /\ outs \in SUBSET File
           /\ EntriesOf(outs) \subseteq entries
           /\ \A f \in outs : f.entries # {}
           /\ \A f, g \in outs : f # g => FileBefore(f, g) \/ FileBefore(g, f)
  <1> DEFINE outs == Outputs(entries, starts)
             Part(s) == {e \in entries : /\ e = s \/ Precedes(s, e)
                                         /\ \A t \in starts : Precedes(s, t) => Precedes(e, t)}
  <1>1. starts \subseteq entries
    BY DEF IsCut
  <1>2. outs = {[number |-> 0, entries |-> Part(s)] : s \in starts}
    BY DEF Outputs
  <1>3. outs \in SUBSET File
    BY <1>1, OutputsAreFiles
  <1>4. EntriesOf(outs) \subseteq entries
    BY <1>2 DEF EntriesOf
  <1>5. ASSUME NEW s \in starts
        PROVE  s \in Part(s)
    BY <1>1
  <1>6. ASSUME NEW s \in starts, NEW t \in starts, s # t
        PROVE  Precedes(s, t) \/ Precedes(t, s)
    <2>1. s \in Entry /\ t \in Entry /\ s.seq # t.seq
      BY <1>1, <1>6
    <2> QED
      BY <2>1, EntryFields DEF Precedes
  <1>7. ASSUME NEW s \in starts, NEW t \in starts, Precedes(s, t),
               NEW a \in Part(s), NEW b \in Part(t)
        PROVE  Precedes(a, b)
    <2>1. Precedes(a, t) /\ (b = t \/ Precedes(t, b))
      BY <1>7
    <2>2. a \in Entry /\ b \in Entry /\ t \in Entry
      BY <1>1
    <2> QED
      BY <2>1, <2>2, PrecedesTransitive
  <1>8. ASSUME NEW f \in outs, NEW g \in outs, f # g
        PROVE  FileBefore(f, g) \/ FileBefore(g, f)
    <2> HIDE DEF Part, outs
    <2>1. PICK s \in starts : f = [number |-> 0, entries |-> Part(s)]
      BY <1>2
    <2>2. PICK t \in starts : g = [number |-> 0, entries |-> Part(t)]
      BY <1>2
    <2>3. f.entries = Part(s) /\ g.entries = Part(t) /\ s # t
      BY <2>1, <2>2, <1>8
    <2> QED
      BY <2>3, <1>6, <1>7 DEF FileBefore
  <1>9. \A f \in outs : f.entries # {}
    BY <1>2, <1>5
  <1> QED
    BY <1>3, <1>4, <1>8, <1>9

\* A version whose files lost entries, or handed them down a level.
LEMMA MemOKIfVersionShrinks ==
    ASSUME TypeOK, MemOK, UNCHANGED <<writeVars, memVars>>,
           UNION {EntriesOf(current'[l]) : l \in Levels} \subseteq FileEntries
    PROVE  MemOK'
  <1>1. FileEntries' \subseteq FileEntries
    BY DEF FileEntries
  <1>2. UNCHANGED <<writeVars, mem, imm>> /\ memtables' = memtables
    BY DEF memVars
  <1> QED
    BY <1>1, <1>2, MemOKIfFilesShrink

\* Installing the outputs of a compaction keeps the tree in order, because
\* its inputs stayed isolated while it ran.
LEMMA InstallStep ==
    ASSUME TypeOK, MemOK, TreeOK, InstallCompactionResults
    PROVE  MemOK' /\ TreeOK'
  <1> DEFINE level == compact.level
             in0 == compact.inputs0
             in1 == compact.inputs1
             entries == Survivors(compact)
  <1>1. PICK starts \in SUBSET entries :
          /\ IsCut(entries, starts)
          /\ current' = [current EXCEPT ![level] = @ \ in0,
                                        ![level + 1] = (@ \ in1) \cup Outputs(entries, starts)]
    BY DEF InstallCompactionResults
  <1> DEFINE outs == Outputs(entries, starts)
  <1>2. /\ compact # None /\ compact' = None /\ next_file' = next_file
        /\ UNCHANGED <<writeVars, memVars>>
    BY DEF InstallCompactionResults
  <1>3. /\ level \in Levels /\ level + 1 \in Levels
        /\ Isolated(current, level, in0, in1)
        /\ entries \in SUBSET Entry /\ entries \subseteq EntriesOf(in0 \cup in1)
    BY <1>2, CompactionFields DEF TreeOK, CompactionConnected, InputsIsolated
  <1>4. /\ current \in Version /\ NoEmptyFile(current) /\ Disjoint(current)
        /\ SearchOrderIn(current)
    BY DEF TypeOK, TreeOK
  <1>5. /\ current'[level] = current[level] \ in0
        /\ current'[level + 1] = (current[level + 1] \ in1) \cup outs
        /\ \A l \in Levels \ {level, level + 1} : current'[l] = current[l]
    BY <1>1, <1>3, <1>4, LevelsAreNaturals DEF Version
  <1>6. IsCut(entries, starts)
    BY <1>1
  <1> HIDE DEF level, in0, in1, entries
  <1>7. entries \subseteq AllEntries
    <2>1. in0 \subseteq current[level] /\ in1 \subseteq current[level + 1]
      BY <1>3 DEF Isolated
    <2>2. EntriesOf(in0 \cup in1) \subseteq FileEntries
      BY <2>1, <1>3 DEF EntriesOf, FileEntries
    <2> QED
      BY <2>2, <1>3, EntriesAreEntries
  <1>8. \A a, b \in entries : a.seq = b.seq => a = b
    BY <1>7 DEF MemOK, SequencesGrow
  <1>9. /\ outs \in SUBSET File /\ EntriesOf(outs) \subseteq entries
        /\ \A f \in outs : f.entries # {}
        /\ \A f, g \in outs : f # g => FileBefore(f, g) \/ FileBefore(g, f)
    BY <1>3, <1>6, <1>8, OutputsOrdered
  <1> HIDE DEF outs
  <1>10. Merges(current, level, in0, in1, outs, current')
    BY <1>3, <1>4, <1>5, <1>9 DEF Merges
  <1>11. /\ NoEmptyFile(current') /\ Disjoint(current') /\ SearchOrderIn(current')
         /\ current'[0] \subseteq current[0]
         /\ UNION {EntriesOf(current'[l]) : l \in Levels} \subseteq FileEntries
    BY <1>10, MergeKeepsOrder DEF FileEntries
  <1>12. MemOK'
    BY <1>2, <1>11, MemOKIfVersionShrinks
  <1>13. NumbersGrow'
    BY <1>2, <1>11 DEF TreeOK, NumbersGrow
  <1>14. CompactionConnected' /\ InputsIsolated'
    BY <1>2 DEF CompactionConnected, InputsIsolated
  <1> QED
    BY <1>11, <1>12, <1>13, <1>14 DEF TreeOK

\* Moving a lone, isolated file one level down keeps the tree in order.
LEMMA TrivialMoveStep ==
    ASSUME TypeOK, MemOK, TreeOK, compact = None,
           NEW level \in Levels, level + 1 \in Levels, NEW inputs,
           Isolated(current, level, inputs[1], inputs[2]),
           MayMove(inputs), TrivialMove(level, inputs)
    PROVE  MemOK' /\ TreeOK'
  <1> DEFINE moved == inputs[1]
  <1>1. /\ compact' = None /\ next_file' = next_file
        /\ UNCHANGED <<writeVars, memVars>>
    BY DEF TrivialMove
  <1>2. /\ current \in Version /\ NoEmptyFile(current) /\ Disjoint(current)
        /\ SearchOrderIn(current)
    BY DEF TypeOK, TreeOK
  <1>3. inputs[2] = {} /\ \A f, g \in moved : f = g
    BY DEF MayMove
  <1>4. moved \subseteq current[level] /\ Isolated(current, level, moved, {})
    BY <1>3 DEF Isolated
  <1>5. moved \in SUBSET File /\ \A f \in moved : f.entries # {}
    BY <1>2, <1>4 DEF Version, NoEmptyFile
  <1>6. /\ current'[level] = current[level] \ moved
        /\ current'[level + 1] = current[level + 1] \cup moved
        /\ \A l \in Levels \ {level, level + 1} : current'[l] = current[l]
    BY <1>2, LevelsAreNaturals DEF TrivialMove, Version
  <1> HIDE DEF moved
  <1>7. Merges(current, level, moved, {}, moved, current')
    BY <1>2, <1>3, <1>4, <1>5, <1>6 DEF Merges, EntriesOf
  <1>8. /\ NoEmptyFile(current') /\ Disjoint(current') /\ SearchOrderIn(current')
        /\ current'[0] \subseteq current[0]
        /\ UNION {EntriesOf(current'[l]) : l \in Levels} \subseteq FileEntries
    BY <1>7, MergeKeepsOrder DEF FileEntries
  <1>9. MemOK'
    BY <1>1, <1>8, MemOKIfVersionShrinks
  <1>10. NumbersGrow'
    BY <1>1, <1>8 DEF TreeOK, NumbersGrow
  <1>11. CompactionConnected' /\ InputsIsolated'
    BY <1>1 DEF CompactionConnected, InputsIsolated
  <1> QED
    BY <1>8, <1>9, <1>10, <1>11 DEF TreeOK

\* A compaction starts with inputs that are isolated and have no gap.
LEMMA StartWorkStep ==
    ASSUME TypeOK, MemOK, TreeOK,
           NEW level \in Levels, level + 1 \in Levels, NEW inputs,
           Isolated(current, level, inputs[1], inputs[2]),
           Connected(inputs[1] \cup inputs[2]),
           StartWork(level, inputs)
    PROVE  MemOK' /\ TreeOK'
  <1>1. /\ compact'.level = level /\ compact'.inputs0 = inputs[1]
        /\ compact'.inputs1 = inputs[2]
        /\ current' = current /\ next_file' = next_file /\ UNCHANGED <<writeVars, memVars>>
    BY DEF StartWork
  <1>2. FileEntries' = FileEntries
    BY <1>1, FileEntriesUnchanged
  <1>3. MemOK'
    BY <1>1, <1>2, MemOKIfFilesShrink DEF memVars
  <1>4. CompactionConnected' /\ InputsIsolated'
    BY <1>1 DEF CompactionConnected, InputsIsolated
  <1> QED
    BY <1>1, <1>3, <1>4 DEF TreeOK, NumbersGrow

\* An automatic compaction, moved at once or started.
LEMMA AutomaticStep ==
    ASSUME TypeOK, MemOK, TreeOK,
           NEW level \in Levels, NEW f \in current[level], NEW mayExpand \in BOOLEAN,
           AutomaticCompaction(level, f, mayExpand)
    PROVE  MemOK' /\ TreeOK'
  <1> DEFINE inputs == PickCompaction(current, level, f, mayExpand)
  <1>1. compact = None /\ level + 1 \in Levels
    BY DEF AutomaticCompaction
  <1>2. /\ current \in Version /\ NoEmptyFile(current) /\ Disjoint(current)
        /\ SearchOrderIn(current)
    BY DEF TypeOK, TreeOK
  <1>3. /\ Isolated(current, level, inputs[1], inputs[2])
        /\ Connected(inputs[1] \cup inputs[2])
    BY <1>1, <1>2, PickIsSafe
  <1>4. \/ MayMove(inputs) /\ TrivialMove(level, inputs)
        \/ StartWork(level, inputs)
    BY DEF AutomaticCompaction
  <1> HIDE DEF inputs
  <1>5. CASE MayMove(inputs) /\ TrivialMove(level, inputs)
    BY <1>1, <1>3, <1>5, TrivialMoveStep
  <1>6. CASE StartWork(level, inputs)
    BY <1>1, <1>3, <1>6, StartWorkStep
  <1> QED
    BY <1>4, <1>5, <1>6

\* Steps of snapshots and reads.
LEMMA ClientStep ==
    ASSUME TypeOK, MemOK, TreeOK,
           \/ \E s \in Snapshots : GetSnapshot(s) \/ ReleaseSnapshot(s)
           \/ \E r \in Readers : \E seq : BeginRead(r, seq)
           \/ \E r \in Readers : EndRead(r)
           \/ UNCHANGED vars
    PROVE  MemOK' /\ TreeOK'
  <1>1. /\ UNCHANGED <<writeVars, mem, imm>> /\ UNCHANGED <<current, next_file, compact>>
        /\ memtables' = memtables \/ memtables' = Referenced(memtables, mem, imm, reads')
    BY DEF GetSnapshot, ReleaseSnapshot, BeginRead, EndRead, vars, memVars
  <1>2. mem \in MemIds /\ (imm # NoTable => imm \in MemIds)
        /\ memtables \in [MemIds -> SUBSET Entry]
    BY DEF TypeOK
  <1>3. /\ memtables'[mem] = memtables[mem]
        /\ imm # NoTable => memtables'[imm] = memtables[imm]
        /\ \A id \in MemIds : memtables'[id] \subseteq memtables[id]
    BY <1>1, <1>2, ReferencedType
  <1>4. FileEntries' = FileEntries
    BY <1>1, FileEntriesUnchanged
  <1> QED
    BY <1>1, <1>3, <1>4, MemOKIfFilesShrink, TreeOKIfUnchanged

\* Every step keeps the inductive invariant when no client calls CompactRange.
LEMMA IInvStep ==
    ASSUME ManualRanges = {}, IInv, [Next]_vars
    PROVE  IInv'
  <1>1. TypeOK /\ MemOK /\ TreeOK
    BY IInvParts
  <1>2. SUFFICES MemOK' /\ TreeOK'
    BY <1>1, TypeStep DEF IInv, MemOK, TreeOK
  <1>3. ASSUME NEW ops \in Batches, BeginWrite(ops)
        PROVE  MemOK' /\ TreeOK'
    <2>1. UNCHANGED <<current, next_file, compact>>
      BY <1>3 DEF BeginWrite
    <2> QED
      BY <1>1, <1>3, <2>1, BeginWriteMem, TreeOKIfUnchanged
  <1>4. CASE InsertNext
    <2>1. UNCHANGED <<current, next_file, compact>>
      BY <1>4 DEF InsertNext
    <2> QED
      BY <1>1, <1>4, <2>1, InsertNextMem, TreeOKIfUnchanged
  <1>5. CASE PublishWrite
    <2>1. UNCHANGED <<current, next_file, compact>>
      BY <1>5 DEF PublishWrite
    <2> QED
      BY <1>1, <1>5, <2>1, PublishWriteMem, TreeOKIfUnchanged
  <1>6. CASE SwitchMemtable
    <2>1. UNCHANGED <<current, next_file, compact>>
      BY <1>6 DEF SwitchMemtable
    <2> QED
      BY <1>1, <1>6, <2>1, SwitchMemtableMem, TreeOKIfUnchanged
  <1>7. CASE CompactMemTable
    BY <1>1, <1>7, CompactMemTableMem, CompactMemTableTree
  <1>8. ASSUME NEW level \in Levels, NEW f \in current[level], NEW mayExpand \in BOOLEAN,
               AutomaticCompaction(level, f, mayExpand)
        PROVE  MemOK' /\ TreeOK'
    BY <1>1, <1>8, AutomaticStep
  <1>9. CASE InstallCompactionResults
    BY <1>1, <1>9, InstallStep
  <1>10. CASE \/ \E s \in Snapshots : GetSnapshot(s) \/ ReleaseSnapshot(s)
              \/ \E r \in Readers : \E seq : BeginRead(r, seq)
              \/ \E r \in Readers : EndRead(r)
              \/ UNCHANGED vars
    BY <1>1, <1>10, ClientStep
  <1>11. \A r \in Readers :
           \/ ReadLatest(r)
           \/ \E s \in Snapshots : ReadSnapshot(r, s)
           => \E seq : BeginRead(r, seq)
    BY DEF ReadLatest, ReadSnapshot
  <1>12. \A level \in Levels, range \in ManualRanges : FALSE
    OBVIOUS
  <1> QED
    BY <1>3, <1>4, <1>5, <1>6, <1>7, <1>8, <1>9, <1>10, <1>11, <1>12 DEF Next

\* The empty database satisfies the inductive invariant.
LEMMA IInvInit ==
    ASSUME Init
    PROVE  IInv
  <1>1. TypeOK
    BY BoundsAssumption, LevelsAssumption
       DEF Init, TypeOK, Version, MemIds, writeVars, memVars
  <1>2. /\ last_sequence = 0 /\ batch = <<>> /\ inserted = 0 /\ mem = 1 /\ imm = NoTable
        /\ memtables = [m \in MemIds |-> {}] /\ current = [l \in Levels |-> {}]
        /\ compact = None
    BY DEF Init
  <1>3. FileEntries = {} /\ ContentsOf(imm) = {} /\ memtables[mem] = {}
    <2>1. mem \in MemIds
      BY <1>1 DEF TypeOK
    <2> QED
      BY <1>2, <2>1 DEF FileEntries, EntriesOf, ContentsOf
  <1>4. SequencesGrow
    BY <1>2, <1>3 DEF SequencesGrow, AllEntries
  <1>5. MemtablesInOrder
    BY <1>2 DEF MemtablesInOrder, NoTable
  <1>6. TreeOK
    <2>1. \A l \in Levels : current[l] = {} /\ EntriesOf(current[l]) = {}
      BY <1>2 DEF EntriesOf
    <2> QED
      BY <1>2, <2>1, LevelsAreNaturals
         DEF TreeOK, NumbersGrow, NoEmptyFile, Disjoint, SearchOrderIn, Newer,
             CompactionConnected, InputsIsolated
  <1> QED
    BY <1>1, <1>4, <1>5, <1>6 DEF IInv, TreeOK

\* Without manual compactions, everything IInv says holds in every state.
THEOREM Invariance == ASSUME ManualRanges = {} PROVE Spec => []IInv
  <1>1. Init => IInv
    BY IInvInit
  <1>2. IInv /\ [Next]_vars => IInv'
    BY IInvStep
  <1> QED
    BY <1>1, <1>2, PTL DEF Spec

\* The assertions of VersionSet::Builder never fail: at every level but 0
\* the files of the current version are in order and do not overlap,
\* whatever is flushed while a compaction runs.
THEOREM FilesDisjoint == ASSUME ManualRanges = {} PROVE Spec => []LevelsDisjoint
  <1>1. IInv => LevelsDisjoint
    BY DEF IInv, LevelsDisjoint
  <1> QED
    BY <1>1, Invariance, PTL

\* The running compaction can be installed at any moment.
THEOREM CompactionIsolated == ASSUME ManualRanges = {} PROVE Spec => []InputsIsolated
  <1>1. IInv => InputsIsolated
    BY DEF IInv
  <1> QED
    BY <1>1, Invariance, PTL

\* Get may stop at the first hit: the memtable, the immutable memtable and
\* the levels, in this order, hold newer and newer entries of a key, and in
\* level 0 the file with the greater number does.
THEOREM NewestFirst == ASSUME ManualRanges = {} PROVE Spec => []SearchOrder
  <1>1. ASSUME IInv
        PROVE  SearchOrder
    <2>1. /\ Newer(memtables[mem], ContentsOf(imm))
          /\ Newer(memtables[mem], FileEntries) /\ Newer(ContentsOf(imm), FileEntries)
      BY <1>1 DEF IInv, SequencesGrow, Newer
    <2>2. \A l \in Levels : EntriesOf(current[l]) \subseteq FileEntries
      BY DEF FileEntries
    <2>3. \A l \in Levels : Newer(memtables[mem] \cup ContentsOf(imm), EntriesOf(current[l]))
      BY <2>1, <2>2 DEF Newer
    <2> QED
      BY <1>1, <2>1, <2>3 DEF IInv, SearchOrder
  <1> QED
    BY <1>1, Invariance, PTL

-----------------------------------------------------------------------------
(* What clients see.                                                       *)

\* What is in a memtable are entries.
LEMMA ContentsAreEntries ==
    ASSUME TypeOK, NEW id \in MemIds \cup {NoTable}
    PROVE  ContentsOf(id) \in SUBSET Entry
  BY DEF ContentsOf, TypeOK

\* A view of a version that is searched newest first: Get finds what a
\* merge of everything the view pinned would find.
LEMMA GetIsLookup ==
    ASSUME TypeOK, NEW view \in View, ViewInOrder(view), NEW k
    PROVE  Get(view, k) = Lookup(IteratorEntries(view), k, view.seq)
  <1> DEFINE m == ContentsOf(view.mem)
             i == ContentsOf(view.imm)
             files == UNION {EntriesOf(view.version[l]) : l \in Levels}
             q == view.seq
  <1>1. q \in Nat /\ view.mem \in MemIds /\ view.imm \in MemIds \cup {NoTable}
        /\ view.version \in Version
    BY DEF View
  <1>2. m \in SUBSET Entry /\ i \in SUBSET Entry
    BY <1>1, ContentsAreEntries
  <1>3. files \in SUBSET Entry
    BY <1>1 DEF Version, File, EntriesOf
  <1>4. Disjoint(view.version) /\ SearchOrderIn(view.version)
        /\ Newer(m, i \cup files) /\ Newer(i, files)
    BY DEF ViewInOrder
  <1>5. GetInVersion(view.version, k, q) = Lookup(files, k, q)
    BY <1>1, <1>4, GetFindsNewest
  <1>6. /\ Get(view, k) = IF Lookup(m, k, q) # {} THEN Lookup(m, k, q)
                          ELSE IF Lookup(i, k, q) # {} THEN Lookup(i, k, q)
                          ELSE Lookup(files, k, q)
        /\ IteratorEntries(view) = m \cup (i \cup files)
    BY <1>5 DEF Get, IteratorEntries
  <1> HIDE DEF m, i, files, q
  <1>7. Lookup(i \cup files, k, q)
          = IF Lookup(i, k, q) # {} THEN Lookup(i, k, q) ELSE Lookup(files, k, q)
    BY <1>1, <1>2, <1>3, <1>4, LookupLayers
  <1>8. Lookup(m \cup (i \cup files), k, q)
          = IF Lookup(m, k, q) # {} THEN Lookup(m, k, q) ELSE Lookup(i \cup files, k, q)
    <2> DEFINE below == i \cup files
    <2>1. below \in SUBSET Entry /\ Newer(m, below)
      BY <1>2, <1>3, <1>4
    <2> HIDE DEF below
    <2>2. Lookup(m \cup below, k, q)
            = IF Lookup(m, k, q) # {} THEN Lookup(m, k, q) ELSE Lookup(below, k, q)
      BY <1>1, <1>2, <2>1, LookupLayers
    <2> QED
      BY <2>2 DEF below
  <1> QED
    BY <1>6, <1>7, <1>8 DEF q

\* What a client sees at q, from these entries.
ValuesOf(entries, q) == [k \in Keys |-> ValueOf(Lookup(entries, k, q))]

\* The current state of the tree as a view.
LEMMA LatestInOrder ==
    ASSUME IInv, NEW q \in Nat
    PROVE  LET view == [LatestView EXCEPT !.seq = q] IN
           /\ view \in View
           /\ view.seq = q /\ view.mem = mem /\ view.imm = imm /\ view.version = current
           /\ ViewInOrder(view)
           /\ IteratorEntries(view) = AllEntries
  <1> DEFINE view == [LatestView EXCEPT !.seq = q]
  <1>1. view = [seq |-> q, mem |-> mem, imm |-> imm, version |-> current]
    BY DEF LatestView
  <1>2. TypeOK /\ Disjoint(current) /\ SearchOrderIn(current) /\ SequencesGrow
    BY DEF IInv
  <1>3. view \in View
    BY <1>1, <1>2 DEF View, TypeOK
  <1>4. view.seq = q /\ view.mem = mem /\ view.imm = imm /\ view.version = current
    BY <1>1
  <1> HIDE DEF view
  <1>5. mem # NoTable
    BY <1>2 DEF TypeOK, MemIds, NoTable
  <1>6. ContentsOf(mem) = memtables[mem]
    BY <1>5 DEF ContentsOf
  <1>7. IteratorEntries(view) = AllEntries
    BY <1>4, <1>6 DEF IteratorEntries, AllEntries, FileEntries
  <1>8. Newer(memtables[mem], ContentsOf(imm) \cup FileEntries) /\ Newer(ContentsOf(imm), FileEntries)
    BY <1>2 DEF SequencesGrow, Newer
  <1>9. ViewInOrder(view)
    BY <1>2, <1>4, <1>6, <1>8 DEF ViewInOrder, FileEntries
  <1> QED
    BY <1>3, <1>4, <1>7, <1>9 DEF view

\* What the latest state and the snapshots show.
LEMMA StoreShows ==
    IInv => /\ MapSeenBy(LatestView) = ValuesOf(AllEntries, last_sequence)
            /\ \A s \in Snapshots :
                 snapshots[s] # NoSnapshot => MapSeenBy(SnapshotView(s)) = ValuesOf(AllEntries, snapshots[s])
  <1> SUFFICES ASSUME IInv
               PROVE  /\ MapSeenBy(LatestView) = ValuesOf(AllEntries, last_sequence)
                      /\ \A s \in Snapshots :
                           snapshots[s] # NoSnapshot => MapSeenBy(SnapshotView(s)) = ValuesOf(AllEntries, snapshots[s])
    OBVIOUS
  <1>1. TypeOK
    BY DEF IInv
  <1>2. ASSUME NEW q \in Nat
        PROVE  MapSeenBy([LatestView EXCEPT !.seq = q]) = ValuesOf(AllEntries, q)
    <2> DEFINE view == [LatestView EXCEPT !.seq = q]
    <2>1. view \in View /\ view.seq = q /\ ViewInOrder(view) /\ IteratorEntries(view) = AllEntries
      BY LatestInOrder
    <2> HIDE DEF view
    <2>2. \A k \in Keys : Get(view, k) = Lookup(AllEntries, k, q)
      BY <1>1, <2>1, GetIsLookup
    <2> QED
      BY <2>2 DEF MapSeenBy, ValuesOf, view
  <1>3. LatestView = [LatestView EXCEPT !.seq = last_sequence]
    BY DEF LatestView
  <1>4. last_sequence \in Nat
    BY <1>1 DEF TypeOK
  <1>5. \A s \in Snapshots : snapshots[s] # NoSnapshot => snapshots[s] \in Nat
    BY <1>1 DEF TypeOK
  <1> QED
    BY <1>2, <1>3, <1>4, <1>5 DEF SnapshotView

\* The same after a step.
LEMMA StoreShowsNext ==
    ASSUME IInv'
    PROVE  /\ MapSeenBy(LatestView)' = ValuesOf(AllEntries', last_sequence')
           /\ \A s \in Snapshots :
                snapshots'[s] # NoSnapshot => MapSeenBy(SnapshotView(s))' = ValuesOf(AllEntries', snapshots'[s])
  <1>1. (IInv => /\ MapSeenBy(LatestView) = ValuesOf(AllEntries, last_sequence)
                 /\ \A s \in Snapshots : snapshots[s] # NoSnapshot =>
                       MapSeenBy(SnapshotView(s)) = ValuesOf(AllEntries, snapshots[s]))'
    BY StoreShows, PTL
  <1> QED
    BY <1>1

\* Iterators and Get agree in a state of the invariant.
LEMMA AgreeInState ==
    ASSUME IInv, ReadsInv
    PROVE  IteratorsAgreeWithGet
  <1>1. TypeOK /\ ReadsInOrder
    BY DEF IInv, ReadsInv
  <1> DEFINE Agrees(view) == \A k \in Keys :
               ValueOf(Lookup(IteratorEntries(view), k, view.seq)) = MapSeenBy(view)[k]
  <1>2. ASSUME NEW view \in View, ViewInOrder(view)
        PROVE  Agrees(view)
    <2>1. \A k \in Keys : Get(view, k) = Lookup(IteratorEntries(view), k, view.seq)
      BY <1>1, <1>2, GetIsLookup
    <2> QED
      BY <2>1 DEF MapSeenBy
  <1>3. ASSUME NEW q \in Nat
        PROVE  Agrees([LatestView EXCEPT !.seq = q])
    <2> DEFINE view == [LatestView EXCEPT !.seq = q]
    <2>1. view \in View /\ ViewInOrder(view)
      BY LatestInOrder
    <2> HIDE DEF view, Agrees
    <2>2. Agrees(view)
      BY <2>1, <1>2
    <2> QED
      BY <2>2 DEF view
  <1>4. LatestView = [LatestView EXCEPT !.seq = last_sequence] /\ last_sequence \in Nat
    BY <1>1 DEF LatestView, TypeOK
  <1>5. \A s \in Snapshots : snapshots[s] # NoSnapshot =>
          snapshots[s] \in Nat /\ SnapshotView(s) = [LatestView EXCEPT !.seq = snapshots[s]]
    BY <1>1 DEF SnapshotView, TypeOK
  <1>6. \A r \in Readers : reads[r] # None => reads[r] \in View /\ ViewInOrder(reads[r])
    BY <1>1 DEF TypeOK, ReadsInOrder, ReadInOrder
  <1> HIDE DEF Agrees
  <1>7. Agrees(LatestView)
    BY <1>3, <1>4
  <1>8. \A s \in Snapshots : snapshots[s] # NoSnapshot => Agrees(SnapshotView(s))
    BY <1>3, <1>5
  <1>9. \A r \in Readers : reads[r] # None => Agrees(reads[r])
    BY <1>2, <1>6
  <1> USE DEF Agrees
  <1> QED
    BY <1>7, <1>8, <1>9 DEF IteratorsAgreeWithGet
-----------------------------------------------------------------------------
(* Reads in progress: nothing but their end changes what they see.         *)

\* A step that keeps the memtables of a view.
KeepsPinned(view) ==
    \A id \in {view.mem, view.imm} \cap MemIds : memtables'[id] = memtables[id]

\* A view whose memtables stay as they are shows what it showed.
LEMMA PinnedContents ==
    ASSUME NEW view \in View,
           KeepsPinned(view)
    PROVE  /\ ContentsOf(view.mem)' = ContentsOf(view.mem)
           /\ ContentsOf(view.imm)' = ContentsOf(view.imm)
           /\ IteratorEntries(view)' = IteratorEntries(view)
           /\ ViewInOrder(view)' <=> ViewInOrder(view)
           /\ MapSeenBy(view)' = MapSeenBy(view)
  <1>1. view.mem \in MemIds /\ view.imm \in MemIds \cup {NoTable}
    BY DEF View
  <1>2. /\ ContentsOf(view.mem)' = ContentsOf(view.mem)
        /\ ContentsOf(view.imm)' = ContentsOf(view.imm)
    BY <1>1 DEF ContentsOf, KeepsPinned
  <1>3. IteratorEntries(view)' = IteratorEntries(view)
    BY <1>2 DEF IteratorEntries
  <1>4. ViewInOrder(view)' <=> ViewInOrder(view)
    BY <1>2 DEF ViewInOrder
  <1>5. \A k \in Keys : Get(view, k)' = Get(view, k)
    BY <1>2 DEF Get
  <1>6. MapSeenBy(view)' = MapSeenBy(view)
    BY <1>5 DEF MapSeenBy
  <1> QED
    BY <1>2, <1>3, <1>4, <1>6

\* An entry that is too new to be seen changes no lookup.
LEMMA LookupIgnoresFuture ==
    ASSUME NEW S \in SUBSET Entry, NEW n \in Entry, NEW q \in Nat, n.seq > q, NEW k
    PROVE  Lookup(S \cup {n}, k, q) = Lookup(S, k, q)
  <1>1. ~(n.seq <= q)
    BY EntryFields
  <1> QED
    BY <1>1 DEF Lookup

\* The entry InsertNext adds is newer than all there are.
LEMMA NewEntryIsNew ==
    ASSUME IInv, InsertNext
    PROVE  /\ NewEntry \in Entry
           /\ memtables' = [memtables EXCEPT ![mem] = @ \cup {NewEntry}]
           /\ NewEntry.seq = last_sequence + inserted + 1
           /\ NewEntry.seq > last_sequence
           /\ mem \in MemIds /\ imm < mem /\ mem \in Nat /\ imm \in Nat
           /\ AllEntries' = AllEntries \cup {NewEntry}
  <1>1. TypeOK /\ MemtablesInOrder
    BY DEF IInv
  <1>2. /\ NewEntry \in Entry
        /\ memtables' = [memtables EXCEPT ![mem] = @ \cup {NewEntry}]
        /\ NewEntry.seq = last_sequence + inserted + 1
    BY <1>1, NewEntryType
  <1>3. last_sequence \in Nat /\ inserted \in Nat
    BY <1>1 DEF TypeOK
  <1>4. mem \in MemIds /\ imm < mem /\ mem \in Nat /\ imm \in Nat
    BY <1>1 DEF MemtablesInOrder, TypeOK, MemIds, NoTable
  <1>5. mem' = mem /\ imm' = imm /\ current' = current
    BY DEF InsertNext
  <1>6. /\ FileEntries' = FileEntries /\ ContentsOf(imm)' = ContentsOf(imm)
        /\ (memtables[mem])' = memtables[mem] \cup {NewEntry}
    BY <1>1, <1>2, <1>4, <1>5 DEF FileEntries, ContentsOf, TypeOK
  <1>7. AllEntries' = AllEntries \cup {NewEntry}
    BY <1>6 DEF AllEntries
  <1> QED
    BY <1>2, <1>3, <1>4, <1>7

\* Reads in progress are not disturbed by an insertion into the memtable,
\* not even into the one they pinned.
LEMMA PinnedInsert ==
    ASSUME IInv, InsertNext, NEW view \in View, ReadInOrder(view)
    PROVE  ReadInOrder(view)' /\ MapSeenBy(view)' = MapSeenBy(view)
  <1> DEFINE new == NewEntry
             m == ContentsOf(view.mem)
             i == ContentsOf(view.imm)
             files == UNION {EntriesOf(view.version[l]) : l \in Levels}
             added == IF view.mem = mem THEN {new} ELSE {}
  <1>1. /\ TypeOK
        /\ memtables \in [MemIds -> SUBSET Entry]
        /\ last_sequence \in Nat /\ inserted \in Nat
    BY DEF IInv, TypeOK
  <1>2. /\ new \in Entry /\ new.seq = last_sequence + inserted + 1 /\ new.seq > last_sequence
        /\ memtables' = [memtables EXCEPT ![mem] = @ \cup {new}]
        /\ mem \in MemIds /\ mem \in Nat
    BY NewEntryIsNew
  <1> HIDE DEF new
  <1>3. /\ last_sequence' = last_sequence /\ inserted' = inserted + 1 /\ mem' = mem
    BY DEF InsertNext
  <1>4. /\ view.seq \in Nat /\ view.mem \in MemIds /\ view.imm \in MemIds \cup {NoTable}
        /\ view.version \in Version
    BY DEF View
  <1>5. view.mem # NoTable /\ view.imm # mem /\ view.imm < view.mem /\ view.mem <= mem
    BY <1>2, <1>4 DEF ReadInOrder, MemIds, NoTable
  <1>6. m' = m \cup added /\ i' = i
    BY <1>1, <1>2, <1>4, <1>5 DEF ContentsOf
  <1>7. m \in SUBSET Entry /\ i \in SUBSET Entry /\ files \in SUBSET Entry
    <2>1. files \in SUBSET Entry
      BY <1>4 DEF Version, File, EntriesOf
    <2> QED
      BY <1>1, <1>4, <2>1, ContentsAreEntries
  <1>8. IteratorEntries(view) = m \cup i \cup files
    BY DEF IteratorEntries
  <1>9. IteratorEntries(view)' = m' \cup i' \cup files
    BY DEF IteratorEntries
  <1>10. \A e \in m \cup i \cup files : e.seq <= last_sequence + inserted
    BY <1>8 DEF ReadInOrder
  <1>11. /\ Disjoint(view.version) /\ SearchOrderIn(view.version)
         /\ Newer(m, i \cup files) /\ Newer(i, files)
    BY DEF ReadInOrder, ViewInOrder
  <1>12. view.seq <= last_sequence
    BY DEF ReadInOrder
  <1>13. ViewInOrder(view)' <=> /\ Disjoint(view.version) /\ SearchOrderIn(view.version)
                                /\ Newer(m', i' \cup files) /\ Newer(i', files)
    BY DEF ViewInOrder
  <1>14. \A k : Get(view, k)' = IF Lookup(m', k, view.seq) # {} THEN Lookup(m', k, view.seq)
                                ELSE IF Lookup(i', k, view.seq) # {} THEN Lookup(i', k, view.seq)
                                ELSE GetInVersion(view.version, k, view.seq)
    BY DEF Get
  <1>15. \A k : Get(view, k) = IF Lookup(m, k, view.seq) # {} THEN Lookup(m, k, view.seq)
                               ELSE IF Lookup(i, k, view.seq) # {} THEN Lookup(i, k, view.seq)
                               ELSE GetInVersion(view.version, k, view.seq)
    BY DEF Get
  <1> HIDE DEF m, i, files
  <1>16. \A b \in i \cup files : new.seq > b.seq
    <2> TAKE b \in i \cup files
    <2>1. b.seq \in Nat /\ b.seq <= last_sequence + inserted
      BY <1>7, <1>10, EntryFields
    <2> QED
      BY <2>1, <1>1, <1>2
  <1>17. Newer(m', i' \cup files) /\ Newer(i', files)
    BY <1>6, <1>11, <1>16 DEF Newer
  <1>18. \A e \in m' \cup i' \cup files : e.seq <= last_sequence' + inserted'
    <2> TAKE e \in m' \cup i' \cup files
    <2>1. e \in m \cup i \cup files \/ e = new
      BY <1>6
    <2>2. e.seq \in Nat
      BY <2>1, <1>2, <1>7, EntryFields
    <2>3. e.seq <= last_sequence + inserted + 1
      BY <2>1, <2>2, <1>1, <1>2, <1>10
    <2> QED
      BY <2>3, <1>1, <1>3
  <1>19. ReadInOrder(view)'
    BY <1>3, <1>5, <1>9, <1>11, <1>12, <1>13, <1>17, <1>18 DEF ReadInOrder
  <1>20. \A k : Lookup(m', k, view.seq) = Lookup(m, k, view.seq)
    <2>1. new.seq > view.seq
      BY <1>1, <1>2, <1>4, <1>12
    <2>2. CASE view.mem = mem
      BY <2>1, <2>2, <1>2, <1>4, <1>6, <1>7, LookupIgnoresFuture
    <2>3. CASE view.mem # mem
      BY <2>3, <1>6
    <2> QED
      BY <2>2, <2>3
  <1>21. \A k \in Keys : Get(view, k)' = Get(view, k)
    BY <1>6, <1>14, <1>15, <1>20
  <1>22. MapSeenBy(view)' = MapSeenBy(view)
    BY <1>21 DEF MapSeenBy
  <1> QED
    BY <1>19, <1>22

\* The numbers of memtables and entries only grow.
Advances ==
    /\ mem <= mem' /\ last_sequence <= last_sequence'
    /\ last_sequence + inserted <= last_sequence' + inserted'

\* Every other step moves on only and keeps what reads pinned.
LEMMA QuietSteps ==
    ASSUME IInv, [Next]_vars, ~InsertNext
    PROVE  /\ Advances
           /\ \A r \in Readers :
                reads'[r] = reads[r] /\ reads[r] # None => KeepsPinned(reads[r])
  <1> DEFINE Kept == \A r \in Readers :
                       reads'[r] = reads[r] /\ reads[r] # None => KeepsPinned(reads[r])
  <1>1. TypeOK /\ (batch = <<>> => inserted = 0)
    BY DEF IInv, SequencesGrow
  <1>2. last_sequence \in Nat /\ inserted \in Nat /\ mem \in Nat /\ batch \in Batches \cup {<<>>}
    BY <1>1 DEF TypeOK, MemIds
  <1>3. Len(batch) \in Nat
    BY <1>2, BatchFields
  <1>4. ASSUME UNCHANGED <<writeVars, mem>>
        PROVE  Advances
    BY <1>2, <1>4 DEF writeVars, Advances
  <1>5. ASSUME UNCHANGED memtables
        PROVE  Kept
    BY <1>5 DEF KeepsPinned
  <1>6. ASSUME NEW m, NEW i, NEW vs, memtables' = Referenced(memtables, m, i, vs),
               vs = reads'
        PROVE  Kept
    <2> TAKE r \in Readers
    <2> SUFFICES ASSUME reads'[r] = reads[r], reads[r] # None,
                        NEW id \in {reads[r].mem, reads[r].imm} \cap MemIds
                 PROVE  memtables'[id] = memtables[id]
      BY DEF KeepsPinned
    <2> QED
      BY <1>6 DEF Referenced
  <1> SUFFICES Advances /\ Kept
    OBVIOUS
  <1> HIDE DEF Kept
  <1>7. ASSUME NEW ops \in Batches, BeginWrite(ops)
        PROVE  Advances /\ Kept
    <2>1. /\ last_sequence' = last_sequence /\ mem' = mem /\ inserted' = inserted
          /\ memtables' = memtables
      BY <1>1, <1>7 DEF BeginWrite, memVars
    <2> QED
      BY <2>1, <1>2, <1>5 DEF Advances
  <1>8. CASE PublishWrite
    <2>1. /\ last_sequence' = last_sequence + Len(batch) /\ inserted' = 0 /\ inserted = Len(batch)
          /\ mem' = mem /\ memtables' = memtables
      BY <1>8 DEF PublishWrite, memVars
    <2> QED
      BY <2>1, <1>2, <1>3, <1>5 DEF Advances
  <1>9. CASE SwitchMemtable
    <2>1. /\ last_sequence' = last_sequence /\ inserted' = inserted
          /\ mem' = mem + 1 /\ memtables' = memtables
      BY <1>9 DEF SwitchMemtable, writeVars
    <2> QED
      BY <2>1, <1>2, <1>5 DEF Advances
  <1>10. CASE CompactMemTable
    <2>1. /\ UNCHANGED <<writeVars, mem>> /\ reads' = reads
          /\ memtables' = Referenced(memtables, mem, NoTable, reads)
      BY <1>10 DEF CompactMemTable
    <2> QED
      BY <2>1, <1>4, <1>6
  <1>11. ASSUME NEW level, NEW inputs, StartWork(level, inputs) \/ TrivialMove(level, inputs)
         PROVE  Advances /\ Kept
    BY <1>11, <1>4, <1>5 DEF StartWork, TrivialMove, memVars
  <1>12. ASSUME NEW level \in Levels, NEW f \in current[level], NEW mayExpand \in BOOLEAN,
                AutomaticCompaction(level, f, mayExpand)
         PROVE  Advances /\ Kept
    BY <1>11, <1>12 DEF AutomaticCompaction
  <1>13. ASSUME NEW level \in Levels, NEW range \in ManualRanges, NEW last \in current[level],
                NEW mayExpand \in BOOLEAN, ManualCompaction(level, range, last, mayExpand)
         PROVE  Advances /\ Kept
    BY <1>11, <1>13 DEF ManualCompaction
  <1>14. CASE InstallCompactionResults
    BY <1>14, <1>4, <1>5 DEF InstallCompactionResults, memVars
  <1>15. ASSUME NEW s \in Snapshots, GetSnapshot(s) \/ ReleaseSnapshot(s)
         PROVE  Advances /\ Kept
    BY <1>15, <1>4, <1>5 DEF GetSnapshot, ReleaseSnapshot, memVars
  <1>16. ASSUME NEW r \in Readers, NEW seq, BeginRead(r, seq)
         PROVE  Advances /\ Kept
    BY <1>16, <1>4, <1>5 DEF BeginRead, memVars
  <1>17. ASSUME NEW r \in Readers, EndRead(r)
         PROVE  Advances /\ Kept
    <2>1. UNCHANGED <<writeVars, mem>> /\ memtables' = Referenced(memtables, mem, imm, reads')
      BY <1>17 DEF EndRead
    <2> QED
      BY <2>1, <1>4, <1>6
  <1>18. CASE UNCHANGED vars
    BY <1>18, <1>4, <1>5 DEF vars, memVars
  <1>19. \A r \in Readers :
           ReadLatest(r) \/ (\E s \in Snapshots : ReadSnapshot(r, s)) => \E seq : BeginRead(r, seq)
    BY DEF ReadLatest, ReadSnapshot
  <1> QED
    BY <1>7, <1>8, <1>9, <1>10, <1>12, <1>13, <1>14, <1>15, <1>16, <1>17, <1>18, <1>19 DEF Next

\* A step that moves on and keeps what a read pinned keeps the read in order.
LEMMA PinnedQuiet ==
    ASSUME TypeOK, TypeOK', NEW view \in View, ReadInOrder(view),
           Advances, KeepsPinned(view)
    PROVE  ReadInOrder(view)' /\ MapSeenBy(view)' = MapSeenBy(view)
  <1>1. /\ last_sequence \in Nat /\ inserted \in Nat /\ mem \in Nat
        /\ last_sequence' \in Nat /\ inserted' \in Nat /\ mem' \in Nat
        /\ view.seq \in Nat /\ view.mem \in Nat /\ view.imm \in Nat
    BY DEF TypeOK, View, MemIds, NoTable
  <1>7. \A n \in Nat : n <= last_sequence + inserted => n <= last_sequence' + inserted'
    <2>1. PICK a \in Nat, b \in Nat, c \in Nat, d \in Nat :
            a = last_sequence /\ b = inserted /\ c = last_sequence' /\ d = inserted'
      BY <1>1
    <2>2. a + b <= c + d
      BY <2>1 DEF Advances
    <2>3. \A n \in Nat : n <= a + b => n <= c + d
      BY <2>2
    <2> QED
      BY <2>1, <2>3
  <1>2. /\ IteratorEntries(view)' = IteratorEntries(view)
        /\ ViewInOrder(view)' <=> ViewInOrder(view)
        /\ MapSeenBy(view)' = MapSeenBy(view)
    BY PinnedContents
  <1>3. IteratorEntries(view) \in SUBSET Entry
    <2>1. /\ view.mem \in MemIds \cup {NoTable} /\ view.imm \in MemIds \cup {NoTable}
          /\ view.version \in Version
      BY DEF View
    <2>2. UNION {EntriesOf(view.version[l]) : l \in Levels} \in SUBSET Entry
      BY <2>1 DEF Version, File, EntriesOf
    <2> QED
      BY <2>1, <2>2, ContentsAreEntries DEF IteratorEntries
  <1>4. \A e \in IteratorEntries(view)' : e.seq <= last_sequence' + inserted'
    <2> TAKE e \in IteratorEntries(view)'
    <2>1. e \in IteratorEntries(view)
      BY <1>2
    <2>2. e.seq \in Nat /\ e.seq <= last_sequence + inserted
      BY <1>3, <2>1, EntryFields DEF ReadInOrder
    <2> QED
      BY <2>2, <1>7
  <1>5. view.seq <= last_sequence' /\ view.imm < view.mem /\ view.mem <= mem'
    BY <1>1 DEF ReadInOrder, Advances
  <1>6. ViewInOrder(view)'
    BY <1>2 DEF ReadInOrder
  <1> QED
    BY <1>2, <1>4, <1>5, <1>6 DEF ReadInOrder

\* A step changes what is pinned only by beginning or by ending a read.
LEMMA ReadsChange ==
    ASSUME [Next]_vars, NEW r \in Readers, reads'[r] # reads[r], DOMAIN reads = Readers
    PROVE  \/ reads'[r] = None
           \/ ReadLatest(r) \/ \E s \in Snapshots : ReadSnapshot(r, s)
  <1>1. reads' # reads
    OBVIOUS
  <1>2. \A ops : BeginWrite(ops) => reads' = reads
    BY DEF BeginWrite
  <1>3. InsertNext \/ PublishWrite \/ SwitchMemtable \/ CompactMemTable
          \/ InstallCompactionResults => reads' = reads
    BY DEF InsertNext, PublishWrite, SwitchMemtable, CompactMemTable, InstallCompactionResults
  <1>4. \A level, inputs : StartWork(level, inputs) \/ TrivialMove(level, inputs) => reads' = reads
    BY DEF StartWork, TrivialMove
  <1>5. \A level, f, mayExpand : AutomaticCompaction(level, f, mayExpand) => reads' = reads
    BY <1>4 DEF AutomaticCompaction
  <1>6. \A level, range, last, mayExpand :
          ManualCompaction(level, range, last, mayExpand) => reads' = reads
    BY <1>4 DEF ManualCompaction
  <1>7. \A s : GetSnapshot(s) \/ ReleaseSnapshot(s) => reads' = reads
    BY DEF GetSnapshot, ReleaseSnapshot
  <1>8. \A q : BeginRead(r, q) => reads'[r] # reads[r]
    OBVIOUS
  <1>9. \A p \in Readers \ {r} : \A q : BeginRead(p, q) => reads'[r] = reads[r]
    BY DEF BeginRead
  <1>10. \A p \in Readers : EndRead(p) => reads'[r] = None \/ reads'[r] = reads[r]
    BY DEF EndRead
  <1>11. \A p \in Readers : \/ ReadLatest(p)
                            \/ \E s \in Snapshots : ReadSnapshot(p, s)
           => p = r
    BY <1>9 DEF ReadLatest, ReadSnapshot
  <1>12. UNCHANGED vars => reads' = reads
    BY DEF vars
  <1> QED
    BY <1>1, <1>2, <1>3, <1>5, <1>6, <1>7, <1>10, <1>11, <1>12 DEF Next

\* A read that began sees what everybody sees at its sequence number, and
\* nothing that is still to be written.
LEMMA BeginReadInOrder ==
    ASSUME IInv, NEW r \in Readers, NEW q \in Nat, q <= last_sequence, BeginRead(r, q)
    PROVE  \E view \in View :
              /\ reads'[r] = view /\ view = [LatestView EXCEPT !.seq = q]
              /\ ReadInOrder(view)' /\ MapSeenBy(view)' = MapSeenBy(view)
  <1> DEFINE view == [LatestView EXCEPT !.seq = q]
  <1>1. TypeOK /\ SequencesGrow /\ MemtablesInOrder
    BY DEF IInv
  <1>2. /\ view \in View /\ view.seq = q /\ view.mem = mem /\ view.imm = imm
        /\ ViewInOrder(view) /\ IteratorEntries(view) = AllEntries
    BY LatestInOrder
  <1>3. reads'[r] = view
    BY <1>1 DEF BeginRead, LatestView, TypeOK
  <1>4. /\ memtables' = memtables /\ mem' = mem
        /\ last_sequence' = last_sequence /\ inserted' = inserted
    BY DEF BeginRead, memVars, writeVars
  <1> HIDE DEF view
  <1>5. PICK v \in View : v = view
    BY <1>2
  <1>6. /\ IteratorEntries(v)' = IteratorEntries(v)
        /\ ViewInOrder(v)' <=> ViewInOrder(v)
        /\ MapSeenBy(v)' = MapSeenBy(v)
    BY <1>4, PinnedContents DEF KeepsPinned
  <1>7. \A e \in AllEntries : e.seq <= last_sequence + inserted
    BY <1>1 DEF SequencesGrow
  <1>8. imm < mem /\ mem <= mem
    BY <1>1 DEF MemtablesInOrder, TypeOK, MemIds
  <1>9. ReadInOrder(v)'
    BY <1>2, <1>4, <1>5, <1>6, <1>7, <1>8 DEF ReadInOrder
  <1> QED
    BY <1>3, <1>5, <1>6, <1>9 DEF view

\* A read in progress that goes on stays in order and sees what it saw.
LEMMA ReadGoesOn ==
    ASSUME IInv, IInv', ReadsInOrder, [Next]_vars,
           NEW r \in Readers, reads[r] # None, reads'[r] = reads[r]
    PROVE  \E view \in View : /\ reads[r] = view
                              /\ ReadInOrder(view)' /\ MapSeenBy(view)' = MapSeenBy(view)
  <1>1. PICK view \in View : view = reads[r]
    BY DEF IInv, TypeOK
  <1>2. ReadInOrder(view)
    BY <1>1 DEF ReadsInOrder
  <1>3. CASE InsertNext
    BY <1>1, <1>2, <1>3, PinnedInsert
  <1>4. CASE ~InsertNext
    <2>1. Advances /\ KeepsPinned(view)
      BY <1>1, <1>4, QuietSteps
    <2>2. TypeOK /\ TypeOK'
      BY DEF IInv
    <2> QED
      BY <1>1, <1>2, <2>1, <2>2, PinnedQuiet
  <1> QED
    BY <1>3, <1>4

\* Reads stay in order.
LEMMA ReadsStep ==
    ASSUME IInv, IInv', ReadsInv, [Next]_vars
    PROVE  ReadsInOrder'
  <1> SUFFICES ASSUME NEW r \in Readers, reads'[r] # None
               PROVE  \E view \in View : reads'[r] = view /\ ReadInOrder(view)'
    BY DEF ReadsInOrder
  <1>1. ReadsInOrder /\ SnapshotsInPast
    BY DEF ReadsInv
  <1>2. DOMAIN reads = Readers /\ reads \in [Readers -> View \cup {None}]
        /\ last_sequence \in Nat /\ snapshots \in [Snapshots -> Nat \cup {NoSnapshot}]
    BY DEF IInv, TypeOK
  <1>3. CASE reads'[r] = reads[r]
    BY <1>1, <1>3, ReadGoesOn
  <1>4. ASSUME NEW q \in Nat, q <= last_sequence, BeginRead(r, q)
        PROVE  \E view \in View : reads'[r] = view /\ ReadInOrder(view)'
    BY <1>4, BeginReadInOrder
  <1>5. CASE ReadLatest(r)
    BY <1>2, <1>4, <1>5 DEF ReadLatest
  <1>6. ASSUME NEW s \in Snapshots, ReadSnapshot(r, s)
        PROVE  \E view \in View : reads'[r] = view /\ ReadInOrder(view)'
    <2>1. snapshots[s] \in Nat /\ snapshots[s] <= last_sequence /\ BeginRead(r, snapshots[s])
      BY <1>1, <1>2, <1>6 DEF ReadSnapshot, SnapshotsInPast
    <2> QED
      BY <2>1, <1>4
  <1> QED
    BY <1>2, <1>3, <1>5, <1>6, ReadsChange
-----------------------------------------------------------------------------
(* The batch being written and the snapshots.                              *)

\* What is in the memtable of the batch stays there while it is written.
LEMMA BatchStep ==
    ASSUME IInv, BatchInMemtable, [Next]_vars
    PROVE  BatchInMemtable'
  <1>1. TypeOK /\ (batch = <<>> => inserted = 0)
    BY DEF IInv, SequencesGrow
  <1>2. mem \in MemIds /\ memtables \in [MemIds -> SUBSET Entry]
        /\ inserted \in Nat /\ last_sequence \in Nat
    BY <1>1 DEF TypeOK
  <1>3. ASSUME inserted' = 0
        PROVE  BatchInMemtable'
    BY <1>3 DEF BatchInMemtable
  <1>4. ASSUME last_sequence' = last_sequence, batch' = batch, inserted' = inserted, mem' = mem,
               memtables[mem] \subseteq memtables'[mem]
        PROVE  BatchInMemtable'
    BY <1>4 DEF BatchInMemtable, BatchEntry
  <1>5. CASE InsertNext
    <2>1. /\ memtables' = [memtables EXCEPT ![mem] = @ \cup {NewEntry}]
          /\ last_sequence' = last_sequence /\ batch' = batch /\ inserted' = inserted + 1 /\ mem' = mem
      BY <1>1, <1>5, NewEntryType DEF InsertNext
    <2>2. memtables'[mem] = memtables[mem] \cup {NewEntry}
      BY <1>2, <2>1
    <2>3. NewEntry = BatchEntry(inserted + 1)
      BY <1>2 DEF NewEntry, BatchEntry
    <2>4. \A i : BatchEntry(i)' = BatchEntry(i)
      BY <2>1 DEF BatchEntry
    <2>5. \A i \in 1..(inserted + 1) : i \in 1..inserted \/ i = inserted + 1
      BY <1>2
    <2> QED
      BY <2>1, <2>2, <2>3, <2>4, <2>5 DEF BatchInMemtable
  <1>6. CASE \E ops \in Batches : BeginWrite(ops)
    BY <1>3, <1>6 DEF BeginWrite
  <1>7. CASE PublishWrite
    BY <1>3, <1>7 DEF PublishWrite
  <1>8. CASE SwitchMemtable
    <2>1. inserted' = 0
      BY <1>1, <1>8 DEF SwitchMemtable, writeVars
    <2> QED
      BY <2>1, <1>3
  <1>9. ASSUME UNCHANGED writeVars, UNCHANGED memVars
        PROVE  BatchInMemtable'
    BY <1>4, <1>9 DEF writeVars, memVars
  <1>10. ASSUME NEW i, NEW vs, UNCHANGED writeVars, mem' = mem,
                memtables' = Referenced(memtables, mem, i, vs)
         PROVE  BatchInMemtable'
    <2>1. memtables'[mem] = memtables[mem]
      BY <1>2, <1>10, ReferencedType
    <2> QED
      BY <2>1, <1>4, <1>10 DEF writeVars
  <1>11. CASE CompactMemTable
    BY <1>10, <1>11 DEF CompactMemTable
  <1>12. ASSUME NEW level, NEW inputs, StartWork(level, inputs) \/ TrivialMove(level, inputs)
         PROVE  BatchInMemtable'
    BY <1>9, <1>12 DEF StartWork, TrivialMove
  <1>13. ASSUME NEW level \in Levels, NEW f \in current[level], NEW mayExpand \in BOOLEAN,
                AutomaticCompaction(level, f, mayExpand)
         PROVE  BatchInMemtable'
    BY <1>12, <1>13 DEF AutomaticCompaction
  <1>14. ASSUME NEW level \in Levels, NEW range \in ManualRanges, NEW last \in current[level],
                NEW mayExpand \in BOOLEAN, ManualCompaction(level, range, last, mayExpand)
         PROVE  BatchInMemtable'
    BY <1>12, <1>14 DEF ManualCompaction
  <1>15. CASE InstallCompactionResults
    BY <1>9, <1>15 DEF InstallCompactionResults
  <1>16. ASSUME NEW s \in Snapshots, GetSnapshot(s) \/ ReleaseSnapshot(s)
         PROVE  BatchInMemtable'
    BY <1>9, <1>16 DEF GetSnapshot, ReleaseSnapshot
  <1>17. ASSUME NEW r \in Readers, NEW q, BeginRead(r, q)
         PROVE  BatchInMemtable'
    BY <1>9, <1>17 DEF BeginRead
  <1>18. ASSUME NEW r \in Readers, EndRead(r)
         PROVE  BatchInMemtable'
    BY <1>10, <1>18 DEF EndRead
  <1>19. CASE UNCHANGED vars
    BY <1>9, <1>19 DEF vars
  <1>20. \A r \in Readers :
           ReadLatest(r) \/ (\E s \in Snapshots : ReadSnapshot(r, s)) => \E q : BeginRead(r, q)
    BY DEF ReadLatest, ReadSnapshot
  <1> QED
    BY <1>5, <1>6, <1>7, <1>8, <1>11, <1>13, <1>14, <1>15, <1>16, <1>17, <1>18, <1>19, <1>20 DEF Next

\* Only GetSnapshot and ReleaseSnapshot change the snapshots.
LEMMA SnapshotsChange ==
    ASSUME [Next]_vars, snapshots' # snapshots
    PROVE  \E s \in Snapshots : GetSnapshot(s) \/ ReleaseSnapshot(s)
  <1>1. \A ops : BeginWrite(ops) => snapshots' = snapshots
    BY DEF BeginWrite
  <1>2. InsertNext \/ PublishWrite \/ SwitchMemtable \/ CompactMemTable
          \/ InstallCompactionResults => snapshots' = snapshots
    BY DEF InsertNext, PublishWrite, SwitchMemtable, CompactMemTable, InstallCompactionResults
  <1>3. \A level, inputs : StartWork(level, inputs) \/ TrivialMove(level, inputs)
                             => snapshots' = snapshots
    BY DEF StartWork, TrivialMove
  <1>4. \A level, f, mayExpand : AutomaticCompaction(level, f, mayExpand) => snapshots' = snapshots
    BY <1>3 DEF AutomaticCompaction
  <1>5. \A level, range, last, mayExpand :
          ManualCompaction(level, range, last, mayExpand) => snapshots' = snapshots
    BY <1>3 DEF ManualCompaction
  <1>6. \A r, q : BeginRead(r, q) => snapshots' = snapshots
    BY DEF BeginRead
  <1>7. \A r : ReadLatest(r) \/ (\E s \in Snapshots : ReadSnapshot(r, s)) \/ EndRead(r)
                 => snapshots' = snapshots
    BY <1>6 DEF ReadLatest, ReadSnapshot, EndRead
  <1>8. UNCHANGED vars => snapshots' = snapshots
    BY DEF vars
  <1> QED
    BY <1>1, <1>2, <1>4, <1>5, <1>7, <1>8 DEF Next

\* A snapshot is never ahead of what was written.
LEMMA SnapshotsStep ==
    ASSUME IInv, SnapshotsInPast, [Next]_vars
    PROVE  SnapshotsInPast'
  <1>1. /\ snapshots \in [Snapshots -> Nat \cup {NoSnapshot}] /\ last_sequence \in Nat
    BY DEF IInv, TypeOK
  <1>2. last_sequence' \in Nat
    BY TypeStep DEF IInv, TypeOK
  <1>3. last_sequence <= last_sequence'
    <2>1. CASE InsertNext
      BY <2>1, <1>1 DEF InsertNext
    <2>2. CASE ~InsertNext
      BY <2>2, QuietSteps DEF Advances
    <2> QED
      BY <2>1, <2>2
  <1>4. CASE snapshots' = snapshots
    <2>1. ASSUME NEW s \in Snapshots
          PROVE  snapshots[s] <= last_sequence'
      <3>1. snapshots[s] \in Int /\ snapshots[s] <= last_sequence
        BY <1>1 DEF SnapshotsInPast, NoSnapshot
      <3> QED
        BY <3>1, <1>1, <1>2, <1>3
    <2> QED
      BY <2>1, <1>4 DEF SnapshotsInPast
  <1>5. ASSUME NEW s \in Snapshots, GetSnapshot(s)
        PROVE  SnapshotsInPast'
    BY <1>1, <1>5 DEF GetSnapshot, SnapshotsInPast, writeVars
  <1>6. ASSUME NEW s \in Snapshots, ReleaseSnapshot(s)
        PROVE  SnapshotsInPast'
    BY <1>1, <1>6 DEF ReleaseSnapshot, SnapshotsInPast, NoSnapshot, writeVars
  <1> QED
    BY <1>4, <1>5, <1>6, SnapshotsChange
-----------------------------------------------------------------------------
(* What the running compaction may drop.                                   *)

\* The smallest snapshot is not above a snapshot, nor above the last write.
LEMMA SmallestSnapshotIsLeast ==
    ASSUME TypeOK, SnapshotsInPast
    PROVE  /\ SmallestSnapshot \in Nat /\ SmallestSnapshot <= last_sequence
           /\ \A s \in Snapshots : snapshots[s] # NoSnapshot => SmallestSnapshot <= snapshots[s]
  <1> DEFINE held == {snapshots[s] : s \in Snapshots} \ {NoSnapshot}
  <1>1. /\ snapshots \in [Snapshots -> Nat \cup {NoSnapshot}] /\ last_sequence \in Nat
        /\ \A s \in Snapshots : snapshots[s] <= last_sequence
    BY DEF TypeOK, SnapshotsInPast
  <1>2. held \in SUBSET Nat /\ \A q \in held : q <= last_sequence
    BY <1>1
  <1>3. \A s \in Snapshots : snapshots[s] # NoSnapshot => snapshots[s] \in held
    OBVIOUS
  <1>4. SmallestSnapshot = IF held = {} THEN last_sequence
                           ELSE CHOOSE q \in held : \A p \in held : q <= p
    BY DEF SmallestSnapshot
  <1> HIDE DEF held
  <1>5. CASE held = {}
    BY <1>1, <1>3, <1>4, <1>5
  <1>6. CASE held # {}
    <2>1. \E q \in held : \A p \in held : q <= p
      BY <1>2, <1>6, LeastNatural
    <2>2. SmallestSnapshot \in held /\ \A p \in held : SmallestSnapshot <= p
      BY <1>4, <1>6, <2>1
    <2> QED
      BY <2>2, <1>2, <1>3
  <1> QED
    BY <1>5, <1>6

\* Beginning the work of an automatic compaction.
LEMMA DropsStart ==
    ASSUME TypeOK, Disjoint(current), SnapshotsInPast,
           NEW level \in Levels, level + 1 \in Levels,
           NEW f \in current[level], NEW mayExpand \in BOOLEAN,
           StartWork(level, PickCompaction(current, level, f, mayExpand))
    PROVE  DropsAreSafe'
  <1> DEFINE inputs == PickCompaction(current, level, f, mayExpand)
  <1>1. /\ compact' = [level |-> level, inputs0 |-> inputs[1], inputs1 |-> inputs[2],
                       version |-> current, smallest_snapshot |-> SmallestSnapshot]
        /\ current' = current /\ last_sequence' = last_sequence /\ snapshots' = snapshots
    BY DEF StartWork, writeVars
  <1>2. Newer(EntriesOf(current[level + 1] \ inputs[2]), EntriesOf(inputs[1] \cup inputs[2]))
    BY PickLeavesNewer DEF TypeOK
  <1>3. /\ SmallestSnapshot <= last_sequence
        /\ \A s \in Snapshots : snapshots[s] # NoSnapshot => SmallestSnapshot <= snapshots[s]
    BY SmallestSnapshotIsLeast
  <1> HIDE DEF inputs
  <1>4. /\ compact'.level = level /\ compact'.inputs0 = inputs[1] /\ compact'.inputs1 = inputs[2]
        /\ compact'.version = current /\ compact'.smallest_snapshot = SmallestSnapshot
    BY <1>1
  <1> QED
    BY <1>1, <1>2, <1>3, <1>4 DEF DropsAreSafe

\* A flush beside the compaction: its file is newer than all inputs, and
\* gets below the output level only if no input holds one of its keys.
LEMMA DropsFlush ==
    ASSUME IInv, DropsAreSafe, CompactMemTable
    PROVE  DropsAreSafe'
  <1> DEFINE n == FlushedFile
             inputs == compact.inputs0 \cup compact.inputs1
             c == compact.level
  <1>1. TypeOK /\ MemOK /\ TreeOK
    BY IInvParts
  <1>2. PICK level \in PickLevelForMemTableOutput(current, UserKeys({n})) :
          current' = [current EXCEPT ![level] = @ \cup {n}]
    BY <1>1, FlushFacts
  <1>3. /\ n \in File
        /\ \A l \in Levels : \A b \in EntriesOf(current[l]), a \in n.entries : a.seq > b.seq
    BY <1>1, FlushFacts
  <1>4. /\ compact' = compact /\ last_sequence' = last_sequence /\ snapshots' = snapshots
    BY DEF CompactMemTable, writeVars
  <1>5. SUFFICES ASSUME compact # None
                 PROVE  DropsAreSafe'
    BY <1>4 DEF DropsAreSafe
  <1>6. /\ c \in Levels /\ c + 1 \in Levels
        /\ compact.inputs0 \subseteq current[c] /\ compact.inputs1 \subseteq current[c + 1]
    BY <1>1, <1>5, CompactionFields DEF TreeOK, CompactionConnected, InputsIsolated, Isolated
  <1>7. /\ compact.smallest_snapshot <= last_sequence
        /\ \A s \in Snapshots : snapshots[s] # NoSnapshot => compact.smallest_snapshot <= snapshots[s]
        /\ Newer(EntriesOf(current[c + 1] \ compact.inputs1), EntriesOf(inputs))
        /\ \A l \in Levels : l >= c + 2 =>
             \A f \in current[l] \ compact.version[l] : UserKeys({f}) \cap UserKeys(inputs) = {}
    BY <1>5 DEF DropsAreSafe
  <1>8. DropsAreSafe' <=>
        /\ compact.smallest_snapshot <= last_sequence
        /\ \A s \in Snapshots : snapshots[s] # NoSnapshot => compact.smallest_snapshot <= snapshots[s]
        /\ Newer(EntriesOf(current'[c + 1] \ compact.inputs1), EntriesOf(inputs))
        /\ \A l \in Levels : l >= c + 2 =>
             \A f \in current'[l] \ compact.version[l] : UserKeys({f}) \cap UserKeys(inputs) = {}
    BY <1>4, <1>5 DEF DropsAreSafe
  <1>9. \A l \in Levels : current[l] \in SUBSET File
    BY <1>1 DEF TypeOK, Version
  <1>10. /\ level \in Levels
         /\ \A l \in Levels : current'[l] = IF l = level THEN current[l] \cup {n} ELSE current[l]
    <2>1. level \in Levels
      BY <1>2, LevelsAssumption DEF PickLevelForMemTableOutput, Levels
    <2>2. DOMAIN current = Levels
      BY <1>1 DEF TypeOK, Version
    <2> QED
      BY <2>1, <2>2, <1>2
  <1> HIDE DEF n, inputs, c
  <1>11. inputs \subseteq current[c] \cup current[c + 1]
    BY <1>6 DEF inputs
  <1>12. ASSUME NEW a \in n.entries, NEW x \in EntriesOf(inputs)
         PROVE  a.seq > x.seq
    <2>1. x \in EntriesOf(current[c]) \/ x \in EntriesOf(current[c + 1])
      BY <1>11, <1>12 DEF EntriesOf
    <2> QED
      BY <2>1, <1>3, <1>6
  <1>13. Newer(EntriesOf(current'[c + 1] \ compact.inputs1), EntriesOf(inputs))
    <2>1. EntriesOf(current'[c + 1] \ compact.inputs1)
            \subseteq EntriesOf(current[c + 1] \ compact.inputs1) \cup n.entries
      BY <1>6, <1>10 DEF EntriesOf
    <2> QED
      BY <2>1, <1>7, <1>12 DEF Newer
  <1>14. ASSUME NEW l \in Levels, l >= c + 2, NEW f \in current'[l] \ compact.version[l]
         PROVE  UserKeys({f}) \cap UserKeys(inputs) = {}
    <2>1. CASE f \in current[l]
      BY <2>1, <1>7, <1>14
    <2>2. CASE f = n /\ l = level
      <3>1. \A m \in 0..level : ~OverlapInLevel(current, m, UserKeys({n}))
        <4>1. level # 0
          BY <1>6, <1>14, <2>2 DEF Levels
        <4> QED
          BY <4>1, <1>2 DEF PickLevelForMemTableOutput
      <3>2. c \in 0..level /\ c + 1 \in 0..level
        BY <1>6, <1>14, <2>2, LevelsAssumption DEF Levels
      <3>3. \A g \in inputs : g \in File /\ ~Overlaps(g, UserKeys({n}))
        BY <3>1, <3>2, <1>6, <1>9, <1>11 DEF OverlapInLevel
      <3>4. \A g \in inputs : \A a \in g.entries, b \in n.entries : a.key # b.key
        BY <3>3, <1>3, NoOverlapIsOrdered
      <3> QED
        BY <3>4, <2>2 DEF UserKeys, EntriesOf
    <2> QED
      BY <2>1, <2>2, <1>10, <1>14
  <1> QED
    BY <1>7, <1>8, <1>13, <1>14

\* What a step does to the running compaction and to the version.
LEMMA TreeChange ==
    ASSUME ManualRanges = {}, [Next]_vars
    PROVE  \/ compact' = compact /\ current' = current
           \/ CompactMemTable
           \/ compact # None /\ compact' = None /\ InstallCompactionResults
           \/ \E level \in Levels : \E f \in current[level], mayExpand \in BOOLEAN :
                LET inputs == PickCompaction(current, level, f, mayExpand) IN
                /\ level + 1 \in Levels /\ compact = None
                /\ \/ MayMove(inputs) /\ TrivialMove(level, inputs) /\ compact' = None
                   \/ StartWork(level, inputs)
  <1>1. \A ops : BeginWrite(ops) => compact' = compact /\ current' = current
    BY DEF BeginWrite
  <1>2. InsertNext \/ PublishWrite \/ SwitchMemtable => compact' = compact /\ current' = current
    BY DEF InsertNext, PublishWrite, SwitchMemtable
  <1>3. InstallCompactionResults => compact # None /\ compact' = None
    BY DEF InstallCompactionResults
  <1>4. \A s : GetSnapshot(s) \/ ReleaseSnapshot(s) => compact' = compact /\ current' = current
    BY DEF GetSnapshot, ReleaseSnapshot
  <1>5. \A r, q : BeginRead(r, q) => compact' = compact /\ current' = current
    BY DEF BeginRead
  <1>6. \A r : ReadLatest(r) \/ (\E s \in Snapshots : ReadSnapshot(r, s)) \/ EndRead(r)
                 => compact' = compact /\ current' = current
    BY <1>5 DEF ReadLatest, ReadSnapshot, EndRead
  <1>7. UNCHANGED vars => compact' = compact /\ current' = current
    BY DEF vars
  <1>8. ASSUME NEW level \in Levels, NEW f \in current[level], NEW mayExpand \in BOOLEAN,
               AutomaticCompaction(level, f, mayExpand)
        PROVE  LET inputs == PickCompaction(current, level, f, mayExpand) IN
               /\ level + 1 \in Levels /\ compact = None
               /\ \/ MayMove(inputs) /\ TrivialMove(level, inputs) /\ compact' = None
                  \/ StartWork(level, inputs)
    BY <1>8 DEF AutomaticCompaction, TrivialMove
  <1>9. \A level \in Levels, range \in ManualRanges : FALSE
    OBVIOUS
  <1> QED
    BY <1>1, <1>2, <1>3, <1>4, <1>6, <1>7, <1>8, <1>9 DEF Next

\* What the running compaction drops stays safe to drop.
LEMMA DropsStep ==
    ASSUME ManualRanges = {}, IInv, SnapshotsInPast, DropsAreSafe, [Next]_vars
    PROVE  DropsAreSafe'
  <1>1. TypeOK /\ Disjoint(current)
    BY DEF IInv
  <1>2. TypeOK'
    BY <1>1, TypeStep
  <1>3. last_sequence \in Nat /\ last_sequence' \in Nat
        /\ snapshots \in [Snapshots -> Nat \cup {NoSnapshot}]
    BY <1>1, <1>2 DEF TypeOK
  <1>4. CASE compact' = None
    BY <1>4 DEF DropsAreSafe
  <1>5. CASE compact' = compact /\ current' = current /\ compact # None
    <2>1. compact.smallest_snapshot \in Nat
      BY <1>1, <1>5 DEF TypeOK, Compaction
    <2>2. compact.smallest_snapshot <= last_sequence'
      <3>1. last_sequence <= last_sequence'
        <4>1. CASE InsertNext
          BY <4>1, <1>3 DEF InsertNext
        <4>2. CASE ~InsertNext
          BY <4>2, QuietSteps DEF Advances
        <4> QED
          BY <4>1, <4>2
      <3>2. compact.smallest_snapshot <= last_sequence
        BY <1>5 DEF DropsAreSafe
      <3> QED
        BY <2>1, <3>1, <3>2, <1>3
    <2>3. \A s \in Snapshots :
            snapshots'[s] # NoSnapshot => compact.smallest_snapshot <= snapshots'[s]
      <3>1. /\ compact.smallest_snapshot <= last_sequence
            /\ \A s \in Snapshots :
                 snapshots[s] # NoSnapshot => compact.smallest_snapshot <= snapshots[s]
        BY <1>5 DEF DropsAreSafe
      <3>2. CASE snapshots' = snapshots
        BY <3>1, <3>2
      <3>3. ASSUME NEW s \in Snapshots, GetSnapshot(s) \/ ReleaseSnapshot(s)
            PROVE  \A t \in Snapshots :
                     snapshots'[t] # NoSnapshot => compact.smallest_snapshot <= snapshots'[t]
        BY <3>1, <3>3, <1>3 DEF GetSnapshot, ReleaseSnapshot
      <3> QED
        BY <3>2, <3>3, SnapshotsChange
    <2> QED
      BY <1>5, <2>2, <2>3 DEF DropsAreSafe
  <1>6. CASE CompactMemTable
    BY <1>6, DropsFlush
  <1>7. ASSUME NEW level \in Levels, NEW f \in current[level], NEW mayExpand \in BOOLEAN,
               level + 1 \in Levels,
               StartWork(level, PickCompaction(current, level, f, mayExpand))
        PROVE  DropsAreSafe'
    BY <1>1, <1>7, DropsStart
  <1> QED
    BY <1>4, <1>5, <1>6, <1>7, TreeChange

\* Every step keeps what reads and snapshots rest on.
LEMMA ReadsInvStep ==
    ASSUME ManualRanges = {}, IInv, ReadsInv, [Next]_vars
    PROVE  ReadsInv'
  <1>1. IInv'
    BY IInvStep
  <1> QED
    BY <1>1, BatchStep, SnapshotsStep, ReadsStep, DropsStep DEF ReadsInv

\* The empty database satisfies it.
LEMMA ReadsInvInit ==
    ASSUME Init
    PROVE  ReadsInv
  BY DEF Init, ReadsInv, BatchInMemtable, SnapshotsInPast, NoSnapshot, ReadsInOrder, DropsAreSafe

\* Without manual compactions, reads in progress stay in order, snapshots
\* in the past, and what a compaction drops invisible, in every state.
THEOREM ReadsInvariant == ASSUME ManualRanges = {} PROVE Spec => [](IInv /\ ReadsInv)
  <1>1. Init => IInv /\ ReadsInv
    BY IInvInit, ReadsInvInit
  <1>2. IInv /\ ReadsInv /\ [Next]_vars => (IInv /\ ReadsInv)'
    BY IInvStep, ReadsInvStep
  <1> QED
    BY <1>1, <1>2, PTL DEF Spec

\* Whatever a client reads at, the latest state, a snapshot, or what a read
\* in progress pinned before flushes and compactions went by, Get, which
\* stops at the first hit, returns what an iterator over everything shows.
THEOREM IteratorsAgree == ASSUME ManualRanges = {} PROVE Spec => []IteratorsAgreeWithGet
  <1>1. IInv /\ ReadsInv => IteratorsAgreeWithGet
    BY AgreeInState
  <1> QED
    BY <1>1, ReadsInvariant, PTL
-----------------------------------------------------------------------------
(* Dropping, inserting and publishing entries, as a client sees it.        *)

\* The hit of a lookup is its only hit when sequence numbers are unique.
LEMMA OnlyHit ==
    ASSUME NEW E \in SUBSET Entry, \A a, b \in E : a.seq = b.seq => a = b,
           NEW k, NEW q \in Nat, NEW e \in E, e.key = k, e.seq <= q,
           \A o \in E : o.key = k /\ o.seq <= q => o.seq <= e.seq
    PROVE  Lookup(E, k, q) = {e}
  <1>1. e \in Lookup(E, k, q)
    BY DEF Lookup
  <1>2. ASSUME NEW x \in Lookup(E, k, q)
        PROVE  x = e
    <2>1. x \in E /\ x.key = k /\ x.seq <= q /\ e.seq <= x.seq
      BY <1>2 DEF Lookup
    <2>2. x.seq \in Nat /\ e.seq \in Nat /\ x.seq <= e.seq
      BY <2>1, EntryFields
    <2>3. x.seq = e.seq
      BY <2>1, <2>2
    <2> QED
      BY <2>1, <2>3
  <1> QED
    BY <1>1, <1>2

\* What was dropped is hidden by a newer entry that every reader sees, or
\* a deletion with nothing older left.
OnlyInvisibleDropped(E, rest, least) ==
    \A e \in E \ rest :
       \/ \E n \in E : n.key = e.key /\ n.seq > e.seq /\ n.seq <= least
       \/ e.type = "deletion" /\ \A o \in rest : o.key = e.key => o.seq > e.seq

\* Rules (A) and (B) of DoCompactionWork: entries that are hidden by a
\* newer one that every reader sees, and deletions with nothing older left,
\* make no difference to a reader at or above the oldest snapshot.
LEMMA DropsInvisible ==
    ASSUME NEW E \in SUBSET Entry, \A a, b \in E : a.seq = b.seq => a = b,
           NEW rest \in SUBSET E, NEW least \in Nat, NEW q \in Nat, least <= q,
           OnlyInvisibleDropped(E, rest, least)
    PROVE  ValuesOf(rest, q) = ValuesOf(E, q)
  <1> SUFFICES ASSUME NEW k \in Keys
               PROVE  ValueOf(Lookup(rest, k, q)) = ValueOf(Lookup(E, k, q))
    BY DEF ValuesOf
  <1>1. CASE Lookup(E, k, q) = {}
    <2>1. Seen(E, k, q) = {}
      BY <1>1, LookupHits
    <2>2. Seen(rest, k, q) = {}
      BY <2>1 DEF Seen
    <2>3. Lookup(rest, k, q) = {}
      BY <2>2, LookupHits
    <2> QED
      BY <2>3, <1>1
  <1>2. CASE Lookup(E, k, q) # {}
    <2>1. PICK e : e \in Lookup(E, k, q)
      BY <1>2
    <2>2. /\ e \in E /\ e.key = k /\ e.seq <= q
          /\ \A o \in E : o.key = k /\ o.seq <= q => o.seq <= e.seq
      BY <2>1 DEF Lookup
    <2>3. Lookup(E, k, q) = {e}
      BY <2>2, OnlyHit
    <2>4. CASE e \in rest
      <3>1. Lookup(rest, k, q) = {e}
        BY <2>2, <2>4, OnlyHit
      <3> QED
        BY <3>1, <2>3
    <2>5. CASE e \notin rest
      <3>1. ~ \E n \in E : n.key = e.key /\ n.seq > e.seq /\ n.seq <= least
        <4> SUFFICES ASSUME NEW n \in E, n.key = k, n.seq > e.seq, n.seq <= least
                     PROVE  FALSE
          BY <2>2
        <4>1. n.seq \in Nat /\ e.seq \in Nat
          BY <2>2, EntryFields
        <4>2. n.seq <= q
          BY <4>1
        <4>3. n.seq <= e.seq
          BY <4>2, <2>2
        <4> QED
          BY <4>1, <4>3
      <3>2. e.type = "deletion" /\ \A o \in rest : o.key = k => o.seq > e.seq
        BY <2>2, <2>5, <3>1 DEF OnlyInvisibleDropped
      <3>3. ValueOf({e}) = {}
        BY <3>2 DEF ValueOf
      <3>4. Lookup(rest, k, q) = {}
        <4> SUFFICES ASSUME NEW x \in Lookup(rest, k, q)
                     PROVE  FALSE
          OBVIOUS
        <4>1. x \in rest /\ x \in E /\ x.key = k /\ x.seq <= q
          BY DEF Lookup
        <4>2. x.seq > e.seq /\ x.seq <= e.seq
          BY <4>1, <2>2, <3>2
        <4> QED
          BY <4>1, <4>2, <2>2, EntryFields
      <3> QED
        BY <2>3, <3>3, <3>4 DEF ValueOf
    <2> QED
      BY <2>4, <2>5
  <1> QED
    BY <1>1, <1>2

\* The outputs of a compaction hold every entry of the merge, wherever they
\* are cut.
LEMMA OutputsHoldAll ==
    ASSUME NEW entries \in SUBSET Entry, NEW starts, IsCut(entries, starts),
           \A a, b \in entries : a.seq = b.seq => a = b
    PROVE  EntriesOf(Outputs(entries, starts)) = entries
  <1>1. /\ starts \subseteq entries
        /\ \A e \in entries : \E s \in starts : s = e \/ Precedes(s, e)
    BY DEF IsCut
  <1>2. \A e \in entries : e.key \in Int /\ e.seq \in Nat
    BY EntryFields
  <1>3. EntriesOf(Outputs(entries, starts)) \subseteq entries
    BY DEF EntriesOf, Outputs
  <1>4. ASSUME NEW e \in entries
        PROVE  e \in EntriesOf(Outputs(entries, starts))
    <2> DEFINE Below == {s \in starts : s = e \/ Precedes(s, e)}
               Gaps == {e.key - s.key : s \in Below}
    <2>1. Below # {} /\ Below \subseteq entries
      BY <1>1
    <2>2. \A s \in Below : e.key - s.key \in Nat
      <3> TAKE s \in Below
      <3>1. s.key \in Int /\ e.key \in Int /\ s.key <= e.key
        BY <1>1, <1>2 DEF Precedes
      <3> QED
        BY <3>1
    <2> HIDE DEF Below
    <2>3. Gaps \in SUBSET Nat /\ Gaps # {}
      BY <2>1, <2>2
    <2>4. PICK gap \in Gaps : \A g \in Gaps : gap <= g
      BY <2>3, LeastNatural
    <2>5. PICK top \in Below : gap = e.key - top.key
      OBVIOUS
    <2>6. \A s \in Below : s.key <= top.key
      <3> TAKE s \in Below
      <3>1. e.key - top.key <= e.key - s.key
        BY <2>4, <2>5
      <3>2. s.key \in Int /\ e.key \in Int /\ top.key \in Int
        BY <1>2, <2>1
      <3> QED
        BY <3>1, <3>2
    <2> DEFINE Seqs == {s.seq : s \in {t \in Below : t.key = top.key}}
    <2>7. Seqs \in SUBSET Nat /\ Seqs # {}
      BY <1>2, <2>1
    <2>8. PICK n \in Seqs : \A m \in Seqs : n <= m
      BY <2>7, LeastNatural
    <2>9. PICK s \in Below : s.key = top.key /\ s.seq = n
      OBVIOUS
    <2>10. \A t \in Below : t.key = top.key => s.seq <= t.seq
      BY <2>8, <2>9
    <2>11. \A t \in Below : ~Precedes(s, t)
      <3> TAKE t \in Below
      <3>1. s.key \in Int /\ t.key \in Int /\ s.seq \in Nat /\ t.seq \in Nat
        BY <1>2, <2>1
      <3>2. t.key <= s.key /\ (t.key = s.key => s.seq <= t.seq)
        BY <2>6, <2>9, <2>10
      <3> QED
        BY <3>1, <3>2 DEF Precedes
    <2>12. s \in starts /\ (e = s \/ Precedes(s, e))
      BY DEF Below
    <2>13. ASSUME NEW t \in starts, Precedes(s, t)
           PROVE  Precedes(e, t)
      <3>1. ~(t = e \/ Precedes(t, e))
        BY <2>11, <2>13 DEF Below
      <3>2. t \in entries /\ t.seq # e.seq
        BY <1>1, <3>1
      <3>3. t.key \in Int /\ e.key \in Int /\ t.seq \in Nat /\ e.seq \in Nat
        BY <1>2, <3>2
      <3> QED
        BY <3>1, <3>2, <3>3 DEF Precedes
    <2> DEFINE part == {x \in entries : /\ x = s \/ Precedes(s, x)
                                        /\ \A t \in starts : Precedes(s, t) => Precedes(x, t)}
    <2>14. e \in part
      BY <2>12, <2>13
    <2>15. [number |-> 0, entries |-> part] \in Outputs(entries, starts)
      BY <2>12 DEF Outputs
    <2> HIDE DEF part
    <2> QED
      BY <2>14, <2>15 DEF EntriesOf
  <1> QED
    BY <1>3, <1>4
\* An obsolete deletion of the running compaction leaves only newer entries
\* of its user key.
LEMMA NothingOlderStays ==
    ASSUME IInv, DropsAreSafe, InstallCompactionResults,
           NEW e \in InputEntries(compact), ObsoleteDeletion(compact, e),
           NEW o \in AllEntries', o.key = e.key
    PROVE  o.seq > e.seq
  <1> DEFINE c == compact.level
             in0 == compact.inputs0
             in1 == compact.inputs1
             inputs == in0 \cup in1
             entries == Survivors(compact)
  <1>1. TypeOK /\ MemOK /\ TreeOK
    BY IInvParts
  <1>2. compact # None
    BY DEF InstallCompactionResults
  <1>3. PICK starts \in SUBSET entries :
          /\ IsCut(entries, starts)
          /\ current' = [current EXCEPT ![c] = @ \ in0,
                                        ![c + 1] = (@ \ in1) \cup Outputs(entries, starts)]
    BY DEF InstallCompactionResults
  <1> DEFINE outs == Outputs(entries, starts)
  <1>4. /\ c \in Levels /\ c + 1 \in Levels /\ c \in Nat
        /\ Isolated(current, c, in0, in1) /\ current \in Version
        /\ entries \in SUBSET Entry /\ entries \subseteq EntriesOf(inputs)
    BY <1>1, <1>2, CompactionFields, LevelsAreNaturals
       DEF TreeOK, CompactionConnected, InputsIsolated, TypeOK
  <1>5. /\ EntriesOf(outs) \subseteq entries
    BY DEF EntriesOf, Outputs
  <1>6. /\ current'[c] = current[c] \ in0
        /\ current'[c + 1] = (current[c + 1] \ in1) \cup outs
        /\ \A l \in Levels \ {c, c + 1} : current'[l] = current[l]
    BY <1>3, <1>4, LevelsAreNaturals DEF Version
  <1>7. /\ Newer(EntriesOf(current[c + 1] \ in1), EntriesOf(inputs))
        /\ \A l \in Levels : l >= c + 2 =>
             \A f \in current[l] \ compact.version[l] : UserKeys({f}) \cap UserKeys(inputs) = {}
    BY <1>2 DEF DropsAreSafe
  <1>8. /\ Newer(EntriesOf(current[c] \ in0), EntriesOf(inputs))
        /\ in0 \subseteq current[c] /\ in1 \subseteq current[c + 1]
    BY <1>4 DEF Isolated
  <1>9. e \in EntriesOf(inputs)
    BY DEF InputEntries
  <1>10. e \in EntriesOf(current[c]) \/ e \in EntriesOf(current[c + 1])
    BY <1>8, <1>9 DEF EntriesOf
  <1>11. /\ e.seq <= compact.smallest_snapshot
         /\ \A l \in Levels : l >= c + 2 => \A f \in compact.version[l] : ~KeyInRange(f, e.key)
    BY DEF ObsoleteDeletion, IsBaseLevelForKey
  <1>12. /\ memtables' = memtables /\ mem' = mem /\ imm' = imm
    BY DEF InstallCompactionResults, memVars
  <1>13. \/ o \in memtables[mem] \cup ContentsOf(imm)
         \/ \E l \in Levels : o \in EntriesOf(current'[l])
    BY <1>12 DEF AllEntries, FileEntries, ContentsOf
  <1>14. \A x \in entries : ~HiddenByNewer(compact, InputEntries(compact), x)
                            /\ ~ObsoleteDeletion(compact, x)
    BY DEF Survivors
  <1>15. \A x \in AllEntries : x \in Entry /\ x.key \in Int /\ x.seq \in Nat
    BY <1>1, EntriesAreEntries, EntryFields
  <1>16. e \in FileEntries /\ e \in AllEntries
    BY <1>4, <1>10, <1>1, EntriesAreEntries DEF FileEntries
  <1>17. \A a, b \in AllEntries : a.seq = b.seq => a = b
    BY <1>1 DEF MemOK, SequencesGrow
  <1>18. EntriesOf(inputs) \subseteq AllEntries
    <2>1. EntriesOf(inputs) \subseteq EntriesOf(current[c]) \cup EntriesOf(current[c + 1])
      BY <1>8 DEF EntriesOf
    <2> QED
      BY <2>1, <1>1, <1>4, EntriesAreEntries
  <1>19. compact.smallest_snapshot \in Nat
    BY <1>1, <1>2 DEF TypeOK, Compaction
  <1> HIDE DEF c, in0, in1, inputs, entries, outs
  <1>20. CASE o \in memtables[mem] \cup ContentsOf(imm)
    BY <1>1, <1>16, <1>20 DEF MemOK, SequencesGrow
  <1>21. CASE o \in entries
    <2>1. o \in AllEntries /\ o # e
      BY <1>4, <1>14, <1>18, <1>21
    <2>2. o.seq \in Nat /\ e.seq \in Nat /\ o.seq # e.seq
      BY <2>1, <1>15, <1>16, <1>17
    <2>3. ~(e.seq > o.seq)
      <3>1. e \in InputEntries(compact)
        OBVIOUS
      <3>2. ~(e.key = o.key /\ e.seq > o.seq /\ e.seq <= compact.smallest_snapshot)
        BY <3>1, <1>14, <1>21 DEF HiddenByNewer
      <3> QED
        BY <3>2, <1>11
    <2> QED
      BY <2>2, <2>3
  <1>22. ASSUME NEW l \in Levels, o \in EntriesOf(current'[l]), o \notin entries
         PROVE  o.seq > e.seq
    <2>1. l \in Nat
      BY LevelsAreNaturals
    <2>2. CASE l < c
      <3>1. o \in EntriesOf(current[l])
        BY <2>2, <1>4, <1>6, <1>22
      <3>2. Newer(EntriesOf(current[l]), EntriesOf(current[c]))
            /\ Newer(EntriesOf(current[l]), EntriesOf(current[c + 1]))
        BY <2>1, <2>2, <1>1, <1>4 DEF TreeOK, SearchOrderIn
      <3> QED
        BY <3>1, <3>2, <1>10 DEF Newer
    <2>3. CASE l = c
      BY <2>3, <1>6, <1>8, <1>9, <1>22 DEF Newer
    <2>4. CASE l = c + 1
      <3>1. o \in EntriesOf(current[c + 1] \ in1)
        BY <2>4, <1>5, <1>6, <1>22 DEF EntriesOf
      <3> QED
        BY <3>1, <1>7, <1>9 DEF Newer
    <2>5. CASE l >= c + 2
      <3>1. PICK f \in current[l] : o \in f.entries
        BY <2>5, <1>4, <1>6, <1>22 DEF EntriesOf
      <3>2. f \in compact.version[l]
        <4>1. o.key \in UserKeys({f}) /\ o.key \in UserKeys(inputs)
          BY <3>1, <1>9 DEF UserKeys, EntriesOf
        <4> QED
          BY <4>1, <1>7, <2>5
      <3>3. KeyInRange(f, e.key)
        <4>1. e.key \in Int
          BY <1>15, <1>16
        <4> QED
          BY <3>1, <4>1 DEF KeyInRange, Overlaps
      <3> QED
        BY <3>2, <3>3, <1>11, <2>5
    <2> QED
      BY <2>1, <2>2, <2>3, <2>4, <2>5, <1>4
  <1> QED
    BY <1>13, <1>20, <1>21, <1>22

\* Installing a compaction changes nothing that anyone can read.
LEMMA InstallInvisible ==
    ASSUME IInv, DropsAreSafe, InstallCompactionResults,
           NEW q \in Nat, compact.smallest_snapshot <= q
    PROVE  ValuesOf(AllEntries', q) = ValuesOf(AllEntries, q)
  <1> DEFINE c == compact.level
             in0 == compact.inputs0
             in1 == compact.inputs1
             inputs == in0 \cup in1
             entries == Survivors(compact)
  <1>1. TypeOK /\ MemOK /\ TreeOK
    BY IInvParts
  <1>2. compact # None
    BY DEF InstallCompactionResults
  <1>3. PICK starts \in SUBSET entries :
          /\ IsCut(entries, starts)
          /\ current' = [current EXCEPT ![c] = @ \ in0,
                                        ![c + 1] = (@ \ in1) \cup Outputs(entries, starts)]
    BY DEF InstallCompactionResults
  <1> DEFINE outs == Outputs(entries, starts)
  <1>4. /\ c \in Levels /\ c + 1 \in Levels
        /\ Isolated(current, c, in0, in1) /\ current \in Version
        /\ entries \in SUBSET Entry /\ entries \subseteq EntriesOf(inputs)
    BY <1>1, <1>2, CompactionFields
       DEF TreeOK, CompactionConnected, InputsIsolated, TypeOK
  <1>5. /\ current'[c] = current[c] \ in0
        /\ current'[c + 1] = (current[c + 1] \ in1) \cup outs
        /\ \A l \in Levels \ {c, c + 1} : current'[l] = current[l]
    BY <1>3, <1>4, LevelsAreNaturals DEF Version
  <1>6. in0 \subseteq current[c] /\ in1 \subseteq current[c + 1]
    BY <1>4 DEF Isolated
  <1>7. /\ memtables' = memtables /\ mem' = mem /\ imm' = imm
    BY DEF InstallCompactionResults, memVars
  <1>8. AllEntries' = memtables[mem] \cup ContentsOf(imm)
                        \cup UNION {EntriesOf(current'[l]) : l \in Levels}
    BY <1>7 DEF AllEntries, FileEntries, ContentsOf
  <1>9. /\ AllEntries \in SUBSET Entry
        /\ \A a, b \in AllEntries : a.seq = b.seq => a = b
    BY <1>1, EntriesAreEntries DEF MemOK, SequencesGrow
  <1>10. entries = {x \in EntriesOf(inputs) :
                      ~HiddenByNewer(compact, InputEntries(compact), x)
                      /\ ~ObsoleteDeletion(compact, x)}
    BY DEF Survivors, InputEntries
  <1>11. InputEntries(compact) = EntriesOf(inputs)
    BY DEF InputEntries
  <1>12. compact.smallest_snapshot \in Nat
    BY <1>1, <1>2 DEF TypeOK, Compaction
  <1>13. IsCut(entries, starts)
    BY <1>3
  <1> HIDE DEF c, in0, in1, inputs, entries
  <1>14. EntriesOf(inputs) \subseteq AllEntries
    <2>1. EntriesOf(inputs) \subseteq EntriesOf(current[c]) \cup EntriesOf(current[c + 1])
      BY <1>6 DEF EntriesOf, inputs
    <2> QED
      BY <2>1, <1>1, <1>4, EntriesAreEntries
  <1>15. EntriesOf(outs) = entries
    BY <1>4, <1>9, <1>13, <1>14, OutputsHoldAll
  <1> HIDE DEF outs
  <1>16. /\ EntriesOf(current'[c + 1]) = EntriesOf(current[c + 1] \ in1) \cup entries
         /\ \A l \in Levels : l # c + 1 => EntriesOf(current'[l]) \subseteq EntriesOf(current[l])
    BY <1>5, <1>15 DEF EntriesOf
  <1>17. AllEntries' \subseteq AllEntries
    <2>1. EntriesOf(current[c + 1] \ in1) \subseteq FileEntries
      BY <1>4 DEF EntriesOf, FileEntries
    <2>2. \A l \in Levels : EntriesOf(current'[l]) \subseteq AllEntries
      BY <2>1, <1>1, <1>4, <1>14, <1>16, EntriesAreEntries
    <2> QED
      BY <2>2, <1>8 DEF AllEntries
  <1>18. ASSUME NEW e \in AllEntries, e \notin AllEntries'
         PROVE  e \in EntriesOf(inputs) \ entries
    <2>1. PICK l \in Levels : e \in EntriesOf(current[l])
      BY <1>8, <1>18 DEF AllEntries, FileEntries
    <2>2. e \notin EntriesOf(current'[l]) /\ e \notin EntriesOf(current'[c + 1])
      BY <1>4, <1>8, <1>18
    <2>3. e \notin entries
      BY <2>2, <1>16
    <2>4. e \in EntriesOf(inputs)
      BY <2>1, <2>2, <1>5 DEF EntriesOf, inputs
    <2> QED
      BY <2>3, <2>4
  <1>19. ASSUME NEW e \in AllEntries \ AllEntries'
         PROVE  \/ \E n \in AllEntries : /\ n.key = e.key /\ n.seq > e.seq
                                         /\ n.seq <= compact.smallest_snapshot
                \/ e.type = "deletion" /\ \A o \in AllEntries' : o.key = e.key => o.seq > e.seq
    <2>1. \/ HiddenByNewer(compact, EntriesOf(inputs), e)
          \/ ObsoleteDeletion(compact, e)
      BY <1>10, <1>11, <1>18
    <2>2. CASE HiddenByNewer(compact, EntriesOf(inputs), e)
      BY <2>2, <1>14 DEF HiddenByNewer
    <2>3. CASE ObsoleteDeletion(compact, e)
      <3>1. e.type = "deletion"
        BY <2>3 DEF ObsoleteDeletion
      <3>2. e \in InputEntries(compact)
        BY <1>11, <1>18
      <3>3. \A o \in AllEntries' : o.key = e.key => o.seq > e.seq
        BY <2>3, <3>2, NothingOlderStays
      <3> QED
        BY <3>1, <3>3
    <2> QED
      BY <2>1, <2>2, <2>3
  <1>20. PICK all, rest, least :
           all = AllEntries /\ rest = AllEntries' /\ least = compact.smallest_snapshot
    OBVIOUS
  <1>21. /\ all \in SUBSET Entry /\ \A a, b \in all : a.seq = b.seq => a = b
         /\ rest \in SUBSET all /\ least \in Nat /\ least <= q
         /\ OnlyInvisibleDropped(all, rest, least)
    BY <1>9, <1>12, <1>17, <1>19, <1>20 DEF OnlyInvisibleDropped
  <1>22. ValuesOf(rest, q) = ValuesOf(all, q)
    BY <1>21, DropsInvisible
  <1> QED
    BY <1>20, <1>22
\* An insertion is not visible before its batch is published.
LEMMA InsertInvisible ==
    ASSUME IInv, InsertNext, NEW q \in Nat, q <= last_sequence
    PROVE  ValuesOf(AllEntries', q) = ValuesOf(AllEntries, q)
  <1>1. /\ NewEntry \in Entry /\ NewEntry.seq > last_sequence
        /\ AllEntries' = AllEntries \cup {NewEntry}
    BY NewEntryIsNew
  <1>2. AllEntries \in SUBSET Entry /\ last_sequence \in Nat
    BY EntriesAreEntries DEF IInv, TypeOK
  <1>3. PICK all, new : all = AllEntries /\ new = NewEntry
    OBVIOUS
  <1>4. all \in SUBSET Entry /\ new \in Entry /\ new.seq > q
    BY <1>1, <1>2, <1>3, EntryFields
  <1>5. \A k : Lookup(all \cup {new}, k, q) = Lookup(all, k, q)
    BY <1>4, LookupIgnoresFuture
  <1>6. ValuesOf(all \cup {new}, q) = ValuesOf(all, q)
    BY <1>5 DEF ValuesOf
  <1> QED
    BY <1>1, <1>3, <1>6

\* Rotating and flushing memtables, moving files and ending reads keep
\* every entry.
LEMMA EntriesKept ==
    ASSUME ManualRanges = {}, IInv, [Next]_vars, ~InsertNext, ~InstallCompactionResults
    PROVE  AllEntries' = AllEntries
  <1>1. TypeOK /\ MemOK /\ TreeOK
    BY IInvParts
  <1>2. /\ mem \in MemIds /\ mem # NoTable /\ memtables \in [MemIds -> SUBSET Entry]
        /\ (imm # NoTable => imm \in MemIds) /\ current \in Version
    BY <1>1 DEF TypeOK, MemIds, NoTable
  <1>3. ASSUME mem' = mem, imm' = imm, memtables'[mem] = memtables[mem],
               imm # NoTable => memtables'[imm] = memtables[imm],
               FileEntries' = FileEntries
        PROVE  AllEntries' = AllEntries
    BY <1>3 DEF AllEntries, ContentsOf
  <1>4. ASSUME UNCHANGED <<memVars, current>>
        PROVE  AllEntries' = AllEntries
    BY <1>3, <1>4, FileEntriesUnchanged DEF memVars
  <1>5. CASE SwitchMemtable
    <2>1. /\ mem' = mem + 1 /\ imm' = mem /\ imm = NoTable /\ memtables' = memtables
          /\ current' = current /\ mem < MaxSequence + 1
      BY <1>5 DEF SwitchMemtable
    <2>2. mem + 1 \in MemIds /\ mem + 1 > mem
      BY <2>1, <1>2, BoundsAssumption DEF MemIds
    <2>3. memtables[mem + 1] = {}
      BY <2>2, <1>1 DEF MemOK, MemtablesInOrder
    <2>4. FileEntries' = FileEntries
      BY <2>1, FileEntriesUnchanged
    <2>5. ContentsOf(imm) = {} /\ ContentsOf(imm)' = memtables[mem] /\ (memtables[mem])' = {}
      BY <2>1, <2>3, <1>2 DEF ContentsOf
    <2> QED
      BY <2>4, <2>5 DEF AllEntries
  <1>6. CASE CompactMemTable
    <2> DEFINE n == FlushedFile
    <2>1. PICK level \in PickLevelForMemTableOutput(current, UserKeys({n})) :
            current' = [current EXCEPT ![level] = @ \cup {n}]
      BY <1>1, <1>6, FlushFacts
    <2>2. n.entries = ContentsOf(imm)
      BY <1>1, <1>6, FlushFacts
    <2>3. level \in Levels
      BY LevelsAssumption DEF PickLevelForMemTableOutput, Levels
    <2>4. DOMAIN current = Levels
      BY <1>2 DEF Version
    <2> HIDE DEF n
    <2>5. \A l \in Levels : current'[l] = IF l = level THEN current[l] \cup {n} ELSE current[l]
      BY <2>1, <2>3, <2>4
    <2>6. FileEntries' = FileEntries \cup n.entries
      <3>1. \A l \in Levels : EntriesOf(current'[l])
              = IF l = level THEN EntriesOf(current[l]) \cup n.entries ELSE EntriesOf(current[l])
        BY <2>5 DEF EntriesOf
      <3> QED
        BY <3>1, <2>3 DEF FileEntries
    <2>7. /\ mem' = mem /\ imm' = NoTable
          /\ memtables' = Referenced(memtables, mem, NoTable, reads)
      BY <1>6 DEF CompactMemTable
    <2>8. memtables'[mem] = memtables[mem]
      BY <2>7, <1>2, ReferencedType
    <2> QED
      BY <2>2, <2>6, <2>7, <2>8 DEF AllEntries, ContentsOf
  <1>7. ASSUME NEW level \in Levels, level + 1 \in Levels, NEW inputs,
               inputs[1] \subseteq current[level], TrivialMove(level, inputs)
        PROVE  AllEntries' = AllEntries
    <2> DEFINE moved == inputs[1]
    <2>1. current' = [current EXCEPT ![level] = @ \ moved, ![level + 1] = @ \cup moved]
      BY <1>7 DEF TrivialMove
    <2>2. moved \subseteq current[level]
      BY <1>7
    <2> HIDE DEF moved
    <2>3. /\ current'[level] = current[level] \ moved
          /\ current'[level + 1] = current[level + 1] \cup moved
          /\ \A l \in Levels \ {level, level + 1} : current'[l] = current[l]
      BY <2>1, <1>2, <1>7, LevelsAreNaturals DEF Version
    <2>4. FileEntries' \subseteq FileEntries
      <3>1. \A l \in Levels : EntriesOf(current'[l])
              \subseteq EntriesOf(current[l]) \cup EntriesOf(current[level])
        BY <2>2, <2>3 DEF EntriesOf
      <3> QED
        BY <3>1, <1>7 DEF FileEntries
    <2>5. FileEntries \subseteq FileEntries'
      <3>1. \A l \in Levels : EntriesOf(current[l])
              \subseteq EntriesOf(current'[l]) \cup EntriesOf(current'[level + 1])
        BY <2>2, <2>3 DEF EntriesOf
      <3> QED
        BY <3>1, <1>7 DEF FileEntries
    <2>6. UNCHANGED memVars
      BY <1>7 DEF TrivialMove
    <2> QED
      BY <2>4, <2>5, <2>6, <1>3 DEF memVars
  <1>8. ASSUME NEW level \in Levels, NEW f \in current[level], NEW mayExpand \in BOOLEAN,
               AutomaticCompaction(level, f, mayExpand)
        PROVE  AllEntries' = AllEntries
    <2> DEFINE inputs == PickCompaction(current, level, f, mayExpand)
    <2>1. level + 1 \in Levels /\ (TrivialMove(level, inputs) \/ StartWork(level, inputs))
      BY <1>8 DEF AutomaticCompaction
    <2>2. inputs[1] \subseteq current[level]
      BY <2>1, <1>1, <1>2, PickIsSafe DEF TreeOK, Isolated
    <2>3. StartWork(level, inputs) => UNCHANGED <<memVars, current>>
      BY DEF StartWork
    <2> HIDE DEF inputs
    <2> QED
      BY <2>1, <2>2, <2>3, <1>4, <1>7
  <1>9. ASSUME NEW r \in Readers, EndRead(r)
        PROVE  AllEntries' = AllEntries
    <2>1. /\ mem' = mem /\ imm' = imm /\ current' = current
          /\ memtables' = Referenced(memtables, mem, imm, reads')
      BY <1>9 DEF EndRead
    <2>2. memtables'[mem] = memtables[mem] /\ (imm # NoTable => memtables'[imm] = memtables[imm])
      BY <2>1, <1>2, ReferencedType
    <2> QED
      BY <2>1, <2>2, <1>3, FileEntriesUnchanged
  <1>10. ASSUME NEW ops, BeginWrite(ops)
         PROVE  AllEntries' = AllEntries
    BY <1>4, <1>10 DEF BeginWrite
  <1>11. CASE PublishWrite
    BY <1>4, <1>11 DEF PublishWrite
  <1>12. ASSUME NEW s \in Snapshots, GetSnapshot(s) \/ ReleaseSnapshot(s)
         PROVE  AllEntries' = AllEntries
    BY <1>4, <1>12 DEF GetSnapshot, ReleaseSnapshot
  <1>13. ASSUME NEW r \in Readers, NEW q, BeginRead(r, q)
         PROVE  AllEntries' = AllEntries
    BY <1>4, <1>13 DEF BeginRead
  <1>14. \A r \in Readers :
           ReadLatest(r) \/ (\E s \in Snapshots : ReadSnapshot(r, s)) => \E q : BeginRead(r, q)
    BY DEF ReadLatest, ReadSnapshot
  <1>15. CASE UNCHANGED vars
    BY <1>4, <1>15 DEF vars
  <1>16. \A level \in Levels, range \in ManualRanges : FALSE
    OBVIOUS
  <1> QED
    BY <1>5, <1>6, <1>8, <1>9, <1>10, <1>11, <1>12, <1>13, <1>14, <1>15, <1>16 DEF Next

\* Publishing a batch applies it: of its operations on a key the last wins.
LEMMA PublishApplies ==
    ASSUME IInv, BatchInMemtable, PublishWrite
    PROVE  ValuesOf(AllEntries, last_sequence + Len(batch))
             = KV!ApplyBatch(ValuesOf(AllEntries, last_sequence), last_sequence + 1, batch)
  <1>1. TypeOK /\ SequencesGrow
    BY DEF IInv
  <1>2. PICK all, n, last :
          all = AllEntries /\ n = Len(batch) /\ last = last_sequence
    OBVIOUS
  <1>3. /\ all \in SUBSET Entry /\ \A a, b \in all : a.seq = b.seq => a = b
    BY <1>1, <1>2, EntriesAreEntries DEF SequencesGrow
  <1>4. /\ last \in Nat /\ n \in Nat /\ inserted = n
        /\ DOMAIN batch = 1..n /\ \A i \in 1..n : batch[i] \in Op
    <2>1. batch \in Batches /\ inserted = n
      BY <1>1, <1>2 DEF PublishWrite, TypeOK
    <2>2. PICK m \in 1..MaxBatch : batch \in [1..m -> Op]
      BY <2>1 DEF Batches
    <2>3. m \in Nat
      BY BoundsAssumption
    <2>4. Len(batch) = m /\ DOMAIN batch = 1..m
      BY <2>2, <2>3
    <2>5. \A i \in 1..m : batch[i] \in Op
      BY <2>2
    <2>6. last \in Nat
      BY <1>1, <1>2 DEF TypeOK
    <2> QED
      BY <2>1, <2>3, <2>4, <2>5, <2>6, <1>2
  <1> DEFINE Put(i) == [key |-> batch[i].key, seq |-> last + i, type |-> batch[i].type]
  <1>5. \A i \in 1..n : Put(i) \in all
    <2>1. \A i \in 1..n : BatchEntry(i) \in memtables[mem]
      BY <1>4 DEF BatchInMemtable
    <2>2. memtables[mem] \subseteq all
      BY <1>1, <1>2, EntriesAreEntries
    <2> QED
      BY <2>1, <2>2, <1>2 DEF BatchEntry
  <1>6. \A i \in 1..n : /\ Put(i).key = batch[i].key /\ Put(i).type = batch[i].type
                        /\ Put(i).seq = last + i
    OBVIOUS
  <1> HIDE DEF Put
  <1>7. \A e \in all : e.seq > last /\ e.seq <= last + n => \E i \in 1..n : e = Put(i)
    <2> TAKE e \in all
    <2> HAVE e.seq > last /\ e.seq <= last + n
    <2>1. e.seq \in Nat
      BY <1>3, EntryFields
    <2>2. PICK i \in 1..n : e.seq = last + i
      <3>1. e.seq - last \in 1..n /\ e.seq = last + (e.seq - last)
        BY <2>1, <1>4
      <3> QED
        BY <3>1
    <2>3. e = Put(i)
      BY <2>2, <1>3, <1>5, <1>6
    <2> QED
      BY <2>3
  <1>8. last \in Nat /\ last + n \in Nat /\ last <= last + n
    BY <1>4
  <1>9. ASSUME NEW k \in Keys
        PROVE  ValueOf(Lookup(all, k, last + n))
                 = LET hits == {i \in DOMAIN batch : batch[i].key = k}
                       top == CHOOSE i \in hits : \A j \in hits : j <= i
                   IN  IF hits = {} THEN ValueOf(Lookup(all, k, last))
                       ELSE IF batch[top].type = "deletion" THEN {}
                       ELSE {last + 1 + top - 1}
    <2> DEFINE hits == {i \in 1..n : batch[i].key = k}
               top == CHOOSE i \in hits : \A j \in hits : j <= i
    <2>1. CASE hits = {}
      <3>1. \A e \in all : e.key = k /\ e.seq <= last + n <=> e.key = k /\ e.seq <= last
        <4> TAKE e \in all
        <4>1. e.seq \in Nat
          BY <1>3, EntryFields
        <4>2. e.seq <= last => e.seq <= last + n
          BY <4>1, <1>4
        <4>3. ~(e.key = k /\ e.seq > last /\ e.seq <= last + n)
          BY <2>1, <1>6, <1>7
        <4> QED
          BY <4>1, <4>2, <4>3, <1>4
      <3>2. Lookup(all, k, last + n) = Lookup(all, k, last)
        BY <3>1 DEF Lookup
      <3> QED
        BY <2>1, <3>2, <1>4
    <2>2. CASE hits # {}
      <3>1. hits \in SUBSET (0..n)
        BY <1>4
      <3>2. \E i \in hits : \A j \in hits : j <= i
        <4>1. Max(hits) \in hits /\ \A j \in hits : Max(hits) >= j
          BY <2>2, <3>1, <1>4, MaxIsGreatest
        <4>2. \A j \in hits : j <= Max(hits)
          BY <4>1, <3>1
        <4> QED
          BY <4>1, <4>2
      <3>3. top \in hits /\ \A j \in hits : j <= top
        BY <3>2
      <3>4. PICK t : t = top
        OBVIOUS
      <3>5. t \in 1..n /\ batch[t].key = k /\ \A j \in 1..n : batch[j].key = k => j <= t
        BY <3>3, <3>4
      <3>6. t \in Nat /\ last + t <= last + n
        BY <3>5, <1>4
      <3>7. ASSUME NEW o \in all, o.key = k, o.seq <= last + n
            PROVE  o.seq <= last + t
        <4>1. o.seq \in Nat
          BY <1>3, EntryFields
        <4>2. CASE o.seq <= last
          BY <4>1, <4>2, <3>6, <1>4
        <4>3. CASE o.seq > last
          <5>1. PICK i \in 1..n : o = Put(i)
            BY <4>3, <3>7, <1>7
          <5>2. batch[i].key = k /\ o.seq = last + i
            BY <5>1, <3>7, <1>6
          <5>3. i <= t /\ i \in Nat
            BY <5>2, <3>5, <1>4
          <5> QED
            BY <5>2, <5>3, <3>6, <1>4
        <4> QED
          BY <4>1, <4>2, <4>3, <1>4
      <3>8. Lookup(all, k, last + n) = {Put(t)}
        <4>1. Put(t) \in all /\ Put(t).key = k /\ Put(t).seq = last + t
          BY <3>5, <1>5, <1>6
        <4>2. \A o \in all : o.key = k /\ o.seq <= last + n => o.seq <= Put(t).seq
          BY <4>1, <3>7
        <4>3. PICK e : e = Put(t)
          OBVIOUS
        <4>4. e \in all /\ e.key = k /\ e.seq <= last + n
              /\ \A o \in all : o.key = k /\ o.seq <= last + n => o.seq <= e.seq
          BY <4>1, <4>2, <4>3, <3>6
        <4>5. PICK q : q = last + n
          OBVIOUS
        <4>6. Lookup(all, k, q) = {e}
          BY <4>4, <4>5, <1>3, <1>8, OnlyHit
        <4> QED
          BY <4>3, <4>5, <4>6
      <3>9. ValueOf({Put(t)}) = IF batch[t].type = "deletion" THEN {} ELSE {last + t}
        <4>1. batch[t].type \in {"value", "deletion"}
          BY <3>5, <1>4 DEF Op
        <4>2. Put(t).type = batch[t].type /\ Put(t).seq = last + t
          BY <3>5, <1>6
        <4> QED
          BY <4>1, <4>2 DEF ValueOf
      <3>10. last + t = last + 1 + t - 1
        BY <3>6, <1>4
      <3> QED
        BY <2>2, <3>4, <3>8, <3>9, <3>10, <1>4
    <2> QED
      BY <2>1, <2>2
  <1>10. ValuesOf(all, last + n) = KV!ApplyBatch(ValuesOf(all, last), last + 1, batch)
    BY <1>9 DEF ValuesOf, KV!ApplyBatch, KV!Absent
  <1> QED
    BY <1>2, <1>10
-----------------------------------------------------------------------------
(* The refinement: what each step is to a client.                          *)

\* The map, the snapshots and the reads of KVStore.tla, as KV maps them.
Store == MapSeenBy(LatestView)
Snaps == [s \in Snapshots |->
            IF snapshots[s] = NoSnapshot THEN <<>> ELSE MapSeenBy(SnapshotView(s))]
Reads == [r \in Readers |-> IF reads[r] = None THEN <<>> ELSE MapSeenBy(reads[r])]

\* Nothing a client sees changes.
Unseen == UNCHANGED <<last_sequence, Store, batch, Snaps, Reads>>

LEMMA UnseenIsStutter == Unseen => UNCHANGED KV!kvars
  BY DEF Unseen, KV!kvars, Store, Snaps, Reads

\* No map is the mark of a snapshot that is not held or of a read that is idle.
LEMMA MapsAreNotNone ==
    ASSUME Keys # {}
    PROVE  \A view : MapSeenBy(view) # <<>> /\ MapSeenBy(view)' # <<>>
  <1>1. \A view : /\ DOMAIN MapSeenBy(view) = Keys
                  /\ DOMAIN (MapSeenBy(view)') = Keys
    BY DEF MapSeenBy
  <1>2. DOMAIN <<>> = {}
    OBVIOUS
  <1> QED
    BY <1>1, <1>2

\* The store, before and after, in terms of everything there is.
LEMMA StoreIs ==
    ASSUME IInv, IInv'
    PROVE  /\ Store = ValuesOf(AllEntries, last_sequence)
           /\ Store' = ValuesOf(AllEntries', last_sequence')
           /\ \A s \in Snapshots :
                /\ Snaps[s] = IF snapshots[s] = NoSnapshot THEN <<>>
                              ELSE ValuesOf(AllEntries, snapshots[s])
                /\ Snaps'[s] = IF snapshots'[s] = NoSnapshot THEN <<>>
                               ELSE ValuesOf(AllEntries', snapshots'[s])
  BY StoreShows, StoreShowsNext DEF Store, Snaps

\* Steps that change neither what is held nor, from the oldest snapshot on,
\* what is seen, change nothing for a client.
LEMMA StoreKept ==
    ASSUME IInv, IInv', last_sequence' = last_sequence, NEW least \in Nat,
           least <= last_sequence,
           \A q \in Nat : least <= q /\ q <= last_sequence
              => ValuesOf(AllEntries', q) = ValuesOf(AllEntries, q)
    PROVE  /\ Store' = Store
           /\ SnapshotsInPast =>
                \A s \in Snapshots :
                   /\ snapshots'[s] = snapshots[s]
                   /\ snapshots[s] # NoSnapshot => least <= snapshots[s]
                   => Snaps'[s] = Snaps[s]
  <1>1. last_sequence \in Nat /\ snapshots \in [Snapshots -> Nat \cup {NoSnapshot}]
    BY DEF IInv, TypeOK
  <1>2. Store' = Store
    BY <1>1, StoreIs
  <1>3. ASSUME SnapshotsInPast, NEW s \in Snapshots, snapshots'[s] = snapshots[s],
               snapshots[s] # NoSnapshot => least <= snapshots[s]
        PROVE  Snaps'[s] = Snaps[s]
    <2>1. CASE snapshots[s] = NoSnapshot
      BY <2>1, <1>3, StoreIs
    <2>2. CASE snapshots[s] # NoSnapshot
      <3>1. snapshots[s] \in Nat /\ least <= snapshots[s] /\ snapshots[s] <= last_sequence
        BY <2>2, <1>1, <1>3 DEF SnapshotsInPast
      <3>2. ValuesOf(AllEntries', snapshots[s]) = ValuesOf(AllEntries, snapshots[s])
        BY <3>1
      <3> QED
        BY <2>2, <3>2, <1>3, StoreIs
    <2> QED
      BY <2>1, <2>2
  <1> QED
    BY <1>2, <1>3

\* The map a read in progress sees is the map it saw.
LEMMA ReadsKept ==
    ASSUME IInv, IInv', ReadsInOrder, [Next]_vars, NEW r \in Readers, reads'[r] = reads[r]
    PROVE  Reads'[r] = Reads[r]
  <1>1. CASE reads[r] = None
    BY <1>1 DEF Reads
  <1>2. CASE reads[r] # None
    <2>1. PICK view \in View : reads[r] = view /\ MapSeenBy(view)' = MapSeenBy(view)
      BY <1>2, ReadGoesOn
    <2>2. MapSeenBy(reads[r])' = MapSeenBy(view)'
      BY <2>1 DEF MapSeenBy, Get, ContentsOf
    <2> QED
      BY <2>1, <2>2, <1>2 DEF Reads
  <1> QED
    BY <1>1, <1>2

\* What the steps that end nothing and publish nothing keep.
LEMMA MapsKept ==
    ASSUME ManualRanges = {}, IInv, IInv', ReadsInv, [Next]_vars,
           last_sequence' = last_sequence
    PROVE  /\ Store' = Store
           /\ \A s \in Snapshots : snapshots'[s] = snapshots[s] => Snaps'[s] = Snaps[s]
           /\ \A r \in Readers : reads'[r] = reads[r] => Reads'[r] = Reads[r]
  <1>1. TypeOK /\ SnapshotsInPast /\ DropsAreSafe /\ ReadsInOrder
    BY DEF IInv, ReadsInv
  <1>2. last_sequence \in Nat /\ snapshots \in [Snapshots -> Nat \cup {NoSnapshot}]
    BY <1>1 DEF TypeOK
  <1>3. \A r \in Readers : reads'[r] = reads[r] => Reads'[r] = Reads[r]
    BY <1>1, ReadsKept
  <1>4. CASE ~InstallCompactionResults
    <2>1. \A q \in Nat : q <= last_sequence => ValuesOf(AllEntries', q) = ValuesOf(AllEntries, q)
      <3>1. CASE InsertNext
        BY <3>1, InsertInvisible
      <3>2. CASE ~InsertNext
        <4>1. AllEntries' = AllEntries
          BY <3>2, <1>4, EntriesKept
        <4> QED
          BY <4>1
      <3> QED
        BY <3>1, <3>2
    <2>2. \A s \in Snapshots : snapshots[s] # NoSnapshot => 0 <= snapshots[s]
      BY <1>2
    <2>3. 0 \in Nat /\ 0 <= last_sequence
      BY <1>2
    <2> QED
      BY <2>1, <2>2, <2>3, <1>1, <1>3, StoreKept
  <1>5. CASE InstallCompactionResults
    <2>1. compact # None
      BY <1>5 DEF InstallCompactionResults
    <2>2. PICK least \in Nat : least = compact.smallest_snapshot
      BY <2>1, <1>1 DEF TypeOK, Compaction
    <2>3. /\ least <= last_sequence
          /\ \A s \in Snapshots : snapshots[s] # NoSnapshot => least <= snapshots[s]
      BY <2>1, <2>2, <1>1 DEF DropsAreSafe
    <2>4. \A q \in Nat : least <= q => ValuesOf(AllEntries', q) = ValuesOf(AllEntries, q)
      BY <2>2, <1>1, <1>5, InstallInvisible
    <2> QED
      BY <2>3, <2>4, <1>1, <1>3, StoreKept
  <1> QED
    BY <1>4, <1>5
LEMMA SameSnaps ==
    ASSUME \A s \in Snapshots : Snaps'[s] = Snaps[s]
    PROVE  Snaps' = Snaps
  BY DEF Snaps

LEMMA SameReads ==
    ASSUME \A r \in Readers : Reads'[r] = Reads[r]
    PROVE  Reads' = Reads
  BY DEF Reads

\* Taking a batch.
LEMMA BeginWriteMaps ==
    ASSUME ManualRanges = {}, IInv, IInv', ReadsInv, NEW ops \in Batches, BeginWrite(ops),
           [Next]_vars
    PROVE  KV!KBeginWrite
  <1>1. /\ batch = <<>> /\ batch' = ops /\ last_sequence + Len(ops) <= MaxSequence
        /\ last_sequence' = last_sequence /\ snapshots' = snapshots /\ reads' = reads
    BY DEF BeginWrite
  <1>2. Store' = Store /\ Snaps' = Snaps /\ Reads' = Reads
    BY <1>1, MapsKept, SameSnaps, SameReads
  <1>3. ops # <<>>
    <2>1. PICK n \in 1..MaxBatch : ops \in [1..n -> Op]
      BY DEF Batches
    <2>2. n \in Nat /\ 1 <= n
      BY BoundsAssumption
    <2>3. 1 \in DOMAIN ops
      BY <2>1, <2>2
    <2>4. DOMAIN <<>> = {}
      OBVIOUS
    <2> QED
      BY <2>3, <2>4
  <1>4. KV!Batches = Batches
    BY DEF KV!Batches, Batches, KV!Op, Op
  <1> QED
    BY <1>1, <1>2, <1>3, <1>4 DEF KV!KBeginWrite, Store, Snaps, Reads

\* Publishing the batch: it becomes visible at once and as a whole.
LEMMA PublishMaps ==
    ASSUME ManualRanges = {}, IInv, IInv', ReadsInv, PublishWrite, [Next]_vars
    PROVE  KV!KCommit
  <1>1. /\ batch # <<>> /\ batch' = <<>> /\ last_sequence' = last_sequence + Len(batch)
        /\ snapshots' = snapshots /\ reads' = reads
        /\ ~InsertNext /\ ~InstallCompactionResults
    <2>1. ~InstallCompactionResults
      BY DEF PublishWrite, InstallCompactionResults
    <2>2. ~InsertNext
      BY DEF PublishWrite, InsertNext, IInv, TypeOK
    <2> QED
      BY <2>1, <2>2 DEF PublishWrite
  <1>2. AllEntries' = AllEntries
    BY <1>1, EntriesKept
  <1>3. Store' = KV!ApplyBatch(Store, last_sequence + 1, batch)
    <2>1. ValuesOf(AllEntries, last_sequence + Len(batch))
             = KV!ApplyBatch(ValuesOf(AllEntries, last_sequence), last_sequence + 1, batch)
      BY PublishApplies DEF ReadsInv
    <2>2. /\ Store = ValuesOf(AllEntries, last_sequence)
          /\ Store' = ValuesOf(AllEntries', last_sequence')
      BY StoreIs
    <2> QED
      BY <2>1, <2>2, <1>1, <1>2
  <1>4. Snaps' = Snaps
    <2>1. \A s \in Snapshots : Snaps'[s] = Snaps[s]
      BY <1>1, <1>2, StoreIs
    <2> QED
      BY <2>1, SameSnaps
  <1>5. Reads' = Reads
    <2>1. \A r \in Readers : Reads'[r] = Reads[r]
      BY <1>1, ReadsKept DEF ReadsInv
    <2> QED
      BY <2>1, SameReads
  <1> QED
    BY <1>1, <1>3, <1>4, <1>5 DEF KV!KCommit, Store, Snaps, Reads

\* A snapshot freezes the map as it is.
LEMMA GetSnapshotMaps ==
    ASSUME Keys # {}, ManualRanges = {}, IInv, IInv', ReadsInv,
           NEW s \in Snapshots, GetSnapshot(s), [Next]_vars
    PROVE  KV!KGetSnapshot(s)
  <1>1. /\ snapshots[s] = NoSnapshot /\ snapshots' = [snapshots EXCEPT ![s] = last_sequence]
        /\ last_sequence' = last_sequence /\ batch' = batch /\ reads' = reads
        /\ UNCHANGED <<memVars, current>>
    BY DEF GetSnapshot, writeVars
  <1>2. /\ last_sequence \in Nat /\ snapshots \in [Snapshots -> Nat \cup {NoSnapshot}]
    BY DEF IInv, TypeOK
  <1>3. AllEntries' = AllEntries
    BY <1>1, FileEntriesUnchanged DEF memVars, AllEntries, ContentsOf
  <1>4. /\ snapshots'[s] = last_sequence /\ snapshots'[s] # NoSnapshot
        /\ \A t \in Snapshots \ {s} : snapshots'[t] = snapshots[t]
    BY <1>1, <1>2 DEF NoSnapshot
  <1>5. Snaps[s] = <<>> /\ Snaps'[s] = Store
    BY <1>1, <1>3, <1>4, StoreIs
  <1>6. \A t \in Snapshots \ {s} : Snaps'[t] = Snaps[t]
    BY <1>1, <1>4, MapsKept
  <1>7. Store' = Store /\ Reads' = Reads /\ Store # <<>>
    BY <1>1, MapsKept, SameReads, MapsAreNotNone DEF Store
  <1>8. /\ DOMAIN Snaps = Snapshots /\ Snaps = [t \in Snapshots |-> Snaps[t]]
        /\ Snaps' = [t \in Snapshots |-> Snaps'[t]]
    BY DEF Snaps
  <1>9. Snaps' = [Snaps EXCEPT ![s] = Store]
    BY <1>5, <1>6, <1>8
  <1>10. /\ Snaps[s] = KV!None /\ Snaps'[s] # KV!None
    BY <1>5, <1>7 DEF KV!None
  <1> QED
    BY <1>1, <1>7, <1>9, <1>10 DEF KV!KGetSnapshot, Store, Snaps, Reads

LEMMA ReleaseSnapshotMaps ==
    ASSUME Keys # {}, ManualRanges = {}, IInv, IInv', ReadsInv,
           NEW s \in Snapshots, ReleaseSnapshot(s), [Next]_vars
    PROVE  KV!KReleaseSnapshot(s)
  <1>1. /\ snapshots[s] # NoSnapshot /\ snapshots' = [snapshots EXCEPT ![s] = NoSnapshot]
        /\ last_sequence' = last_sequence /\ batch' = batch /\ reads' = reads
    BY DEF ReleaseSnapshot, writeVars
  <1>2. snapshots \in [Snapshots -> Nat \cup {NoSnapshot}]
    BY DEF IInv, TypeOK
  <1>3. /\ snapshots'[s] = NoSnapshot
        /\ \A t \in Snapshots \ {s} : snapshots'[t] = snapshots[t]
    BY <1>1, <1>2
  <1>4. Snaps[s] # <<>> /\ Snaps'[s] = <<>>
    BY <1>1, <1>3, MapsAreNotNone DEF Snaps
  <1>5. \A t \in Snapshots \ {s} : Snaps'[t] = Snaps[t]
    BY <1>1, <1>3, MapsKept
  <1>6. Store' = Store /\ Reads' = Reads
    BY <1>1, MapsKept, SameReads
  <1>7. /\ DOMAIN Snaps = Snapshots /\ Snaps = [t \in Snapshots |-> Snaps[t]]
        /\ Snaps' = [t \in Snapshots |-> Snaps'[t]]
    BY DEF Snaps
  <1>8. Snaps' = [Snaps EXCEPT ![s] = <<>>]
    BY <1>4, <1>5, <1>7
  <1> QED
    BY <1>1, <1>4, <1>6, <1>8 DEF KV!KReleaseSnapshot, KV!None, Store, Snaps, Reads

\* A read sees the map at its sequence number.
LEMMA BeginReadMaps ==
    ASSUME Keys # {}, ManualRanges = {}, IInv, IInv', ReadsInv, [Next]_vars,
           NEW r \in Readers, NEW q \in Nat, q <= last_sequence, BeginRead(r, q),
           NEW map, map = MapSeenBy([LatestView EXCEPT !.seq = q])
    PROVE  KV!KBeginRead(r, map)
  <1>1. PICK view \in View : /\ reads'[r] = view /\ view = [LatestView EXCEPT !.seq = q]
                             /\ MapSeenBy(view)' = MapSeenBy(view)
    BY BeginReadInOrder
  <1>2. /\ reads[r] = None /\ snapshots' = snapshots
        /\ last_sequence' = last_sequence /\ batch' = batch
        /\ \A p \in Readers \ {r} : reads'[p] = reads[p]
    BY DEF BeginRead, writeVars
  <1>3. map = MapSeenBy(view) /\ map # <<>>
    BY <1>1, MapsAreNotNone
  <1>4. reads'[r] # None
    <2>1. "seq" \in DOMAIN view
      BY DEF View
    <2>2. DOMAIN None = {}
      BY DEF None
    <2> QED
      BY <2>1, <2>2, <1>1
  <1>5. Reads[r] = <<>> /\ Reads'[r] = map
    <2>1. MapSeenBy(reads[r])' = MapSeenBy(view)'
      BY <1>1 DEF MapSeenBy, Get, ContentsOf
    <2> QED
      BY <2>1, <1>1, <1>2, <1>3, <1>4 DEF Reads
  <1>6. \A p \in Readers \ {r} : Reads'[p] = Reads[p]
    BY <1>2, MapsKept
  <1>7. Store' = Store /\ Snaps' = Snaps
    BY <1>2, MapsKept, SameSnaps
  <1>8. /\ DOMAIN Reads = Readers /\ Reads = [p \in Readers |-> Reads[p]]
        /\ Reads' = [p \in Readers |-> Reads'[p]]
    BY DEF Reads
  <1>9. Reads' = [Reads EXCEPT ![r] = map]
    BY <1>5, <1>6, <1>8
  <1> QED
    BY <1>2, <1>3, <1>5, <1>7, <1>9 DEF KV!KBeginRead, KV!None, Store, Snaps, Reads

LEMMA EndReadMaps ==
    ASSUME Keys # {}, ManualRanges = {}, IInv, IInv', ReadsInv, [Next]_vars,
           NEW r \in Readers, EndRead(r)
    PROVE  KV!KEndRead(r)
  <1>1. /\ reads[r] # None /\ reads' = [reads EXCEPT ![r] = None] /\ snapshots' = snapshots
        /\ last_sequence' = last_sequence /\ batch' = batch
    BY DEF EndRead, writeVars
  <1>2. DOMAIN reads = Readers
    BY DEF IInv, TypeOK
  <1>3. reads'[r] = None /\ \A p \in Readers \ {r} : reads'[p] = reads[p]
    BY <1>1, <1>2
  <1>4. Reads[r] # <<>> /\ Reads'[r] = <<>>
    BY <1>1, <1>3, MapsAreNotNone DEF Reads
  <1>5. \A p \in Readers \ {r} : Reads'[p] = Reads[p]
    BY <1>1, <1>3, MapsKept
  <1>6. Store' = Store /\ Snaps' = Snaps
    BY <1>1, MapsKept, SameSnaps
  <1>7. /\ DOMAIN Reads = Readers /\ Reads = [p \in Readers |-> Reads[p]]
        /\ Reads' = [p \in Readers |-> Reads'[p]]
    BY DEF Reads
  <1>8. Reads' = [Reads EXCEPT ![r] = <<>>]
    BY <1>4, <1>5, <1>7
  <1> QED
    BY <1>1, <1>4, <1>6, <1>8 DEF KV!KEndRead, KV!None, Store, Snaps, Reads

\* Every step of the tree is one step of the map, or none.
LEMMA StepMaps ==
    ASSUME Keys # {}, ManualRanges = {}, IInv, ReadsInv, [Next]_vars
    PROVE  [KV!KNext]_(KV!kvars)
  <1>1. IInv'
    BY IInvStep
  <1>2. TypeOK /\ SnapshotsInPast
    BY DEF IInv, ReadsInv
  <1>3. last_sequence \in Nat /\ snapshots \in [Snapshots -> Nat \cup {NoSnapshot}]
    BY <1>2 DEF TypeOK
  <1>4. ASSUME last_sequence' = last_sequence, batch' = batch, snapshots' = snapshots,
               reads' = reads
        PROVE  UNCHANGED KV!kvars
    BY <1>1, <1>4, MapsKept, SameSnaps, SameReads, UnseenIsStutter DEF Unseen
  <1>5. ASSUME NEW ops \in Batches, BeginWrite(ops)
        PROVE  KV!KNext
    BY <1>1, <1>5, BeginWriteMaps DEF KV!KNext
  <1>6. CASE PublishWrite
    BY <1>1, <1>6, PublishMaps DEF KV!KNext
  <1>7. ASSUME NEW s \in Snapshots, GetSnapshot(s) \/ ReleaseSnapshot(s)
        PROVE  KV!KNext
    BY <1>1, <1>7, GetSnapshotMaps, ReleaseSnapshotMaps DEF KV!KNext
  <1>8. ASSUME NEW r \in Readers, ReadLatest(r)
        PROVE  KV!KNext
    <2>1. [LatestView EXCEPT !.seq = last_sequence] = LatestView
      BY DEF LatestView
    <2>2. BeginRead(r, last_sequence)
      BY <1>8 DEF ReadLatest
    <2>3. PICK q, map : q \in Nat /\ q = last_sequence /\ map = MapSeenBy(LatestView)
      BY <1>3
    <2>4. q <= last_sequence /\ BeginRead(r, q) /\ map = MapSeenBy([LatestView EXCEPT !.seq = q])
      BY <2>1, <2>2, <2>3, <1>3
    <2>5. q \in Nat
      BY <2>3
    <2>6. KV!KBeginRead(r, map)
      BY <2>4, <2>5, <1>1, BeginReadMaps
    <2>7. KV!KBeginRead(r, MapSeenBy(LatestView))
      BY <2>3, <2>6 DEF KV!KBeginRead
    <2> QED
      BY <2>7 DEF KV!KNext
  <1>9. ASSUME NEW r \in Readers, NEW s \in Snapshots, ReadSnapshot(r, s)
        PROVE  KV!KNext
    <2>1. snapshots[s] # NoSnapshot /\ BeginRead(r, snapshots[s])
      BY <1>9 DEF ReadSnapshot
    <2>2. PICK q, map : q \in Nat /\ q = snapshots[s] /\ q <= last_sequence /\ map = Snaps[s]
      BY <2>1, <1>2, <1>3 DEF SnapshotsInPast
    <2>3. BeginRead(r, q) /\ map = MapSeenBy([LatestView EXCEPT !.seq = q])
      BY <2>1, <2>2 DEF Snaps, SnapshotView
    <2>4. KV!KBeginRead(r, map)
      BY <2>2, <2>3, <1>1, BeginReadMaps
    <2>5. KV!KBeginRead(r, Snaps[s])
      BY <2>2, <2>4 DEF KV!KBeginRead
    <2> QED
      BY <2>5 DEF KV!KNext, Snaps
  <1>10. ASSUME NEW r \in Readers, EndRead(r)
         PROVE  KV!KNext
    BY <1>1, <1>10, EndReadMaps DEF KV!KNext
  <1>11. CASE InsertNext \/ SwitchMemtable \/ CompactMemTable \/ InstallCompactionResults
    BY <1>4, <1>11
       DEF InsertNext, SwitchMemtable, CompactMemTable, InstallCompactionResults, writeVars
  <1>12. ASSUME NEW level \in Levels, NEW f \in current[level], NEW mayExpand \in BOOLEAN,
                AutomaticCompaction(level, f, mayExpand)
         PROVE  UNCHANGED KV!kvars
    <2>1. last_sequence' = last_sequence /\ batch' = batch /\ snapshots' = snapshots /\ reads' = reads
      BY <1>12 DEF AutomaticCompaction, TrivialMove, StartWork, writeVars
    <2> QED
      BY <2>1, <1>4
  <1>13. \A level \in Levels, range \in ManualRanges : FALSE
    OBVIOUS
  <1>14. CASE UNCHANGED vars
    BY <1>4, <1>14 DEF vars, writeVars
  <1> QED
    BY <1>5, <1>6, <1>7, <1>8, <1>9, <1>10, <1>11, <1>12, <1>13, <1>14 DEF Next

\* The empty tree is the empty map.
LEMMA InitMaps ==
    ASSUME Init
    PROVE  KV!KInit
  <1>1. IInv
    BY IInvInit
  <1>2. /\ last_sequence = 0 /\ batch = <<>> /\ mem = 1 /\ imm = NoTable
        /\ memtables = [m \in MemIds |-> {}] /\ current = [l \in Levels |-> {}]
        /\ snapshots = [s \in Snapshots |-> NoSnapshot] /\ reads = [r \in Readers |-> None]
    BY DEF Init
  <1>3. AllEntries = {}
    <2>1. mem \in MemIds
      BY <1>1 DEF IInv, TypeOK
    <2> QED
      BY <1>2, <2>1 DEF AllEntries, FileEntries, EntriesOf, ContentsOf
  <1>4. Store = [k \in Keys |-> {}]
    <2>1. Store = ValuesOf({}, 0)
      BY <1>1, <1>2, <1>3, StoreShows DEF Store
    <2>2. \A k : ValueOf(Lookup({}, k, 0)) = {}
      BY DEF Lookup, ValueOf
    <2> QED
      BY <2>1, <2>2 DEF ValuesOf
  <1>5. Snaps = [s \in Snapshots |-> <<>>] /\ Reads = [r \in Readers |-> <<>>]
    BY <1>2 DEF Snaps, Reads
  <1> QED
    BY <1>2, <1>4, <1>5 DEF KV!KInit, KV!Absent, KV!None, Store, Snaps, Reads

\* The tree implements the map a client is promised, for any keys, levels,
\* snapshots, readers and bounds: whatever is flushed, moved and merged, a
\* batch becomes visible at once and as a whole, the last operation on a key
\* wins, and a snapshot and a read in progress never change.
THEOREM TreeImplementsMap ==
    ASSUME Keys # {}, ManualRanges = {} PROVE Spec => ImplementsKVStore
  <1>1. Init => KV!KInit
    BY InitMaps
  <1>2. IInv /\ ReadsInv /\ [Next]_vars => [KV!KNext]_(KV!kvars)
    BY StepMaps
  <1>3. Spec => [](IInv /\ ReadsInv)
    BY ReadsInvariant
  <1> QED
    BY <1>1, <1>2, <1>3, PTL DEF Spec, ImplementsKVStore, KV!KSpec
=============================================================================
