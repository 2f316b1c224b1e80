------------------------------- MODULE MCLSM -------------------------------
(***************************************************************************)
(* Small instances of LSM.tla, and the loops of VersionAlgorithms.tla on   *)
(* the versions they install.                                              *)
(***************************************************************************)
EXTENDS LSM, VersionAlgorithms, TLC

\* CompactRange(nullptr, nullptr), as db_bench issues it before its reads.
FullRange == {Keys}
NoManual == {}

\* Nothing but the version holds an entry, and nobody runs.  A version is
\* reached at rest whenever it is reached at all: what is in the memtables
\* could be written later, a compaction could start later, and a snapshot
\* could be released.  The loops do not look at the type of an entry, and a
\* deletion that is still there could have been a value.  So the loops are
\* compared in these states only.
AtRest ==
    /\ batch = <<>> /\ memtables[mem] = {} /\ imm = NoTable /\ compact = None
    /\ \A s \in Snapshots : snapshots[s] = NoSnapshot
    /\ \A l \in Levels : \A e \in EntriesOf(current[l]) : e.type = "value"

\* The loops over the vectors of a version (the bisection, the search that
\* starts over, the pointers that only advance) find the files that the
\* declarative definitions name.  (FindFile, SomeFileOverlapsRange,
\* GetOverlappingInputs, AddBoundaryInputs, IsBaseLevelForKey)
LoopsAgree == AtRest => LoopsAgreeOn(current)

\* Builder::SaveTo merges the vectors of the old version with the files of
\* the edit into vectors that are sorted again and hold the new version.
SavedInOrder ==
    [][AtRest' =>
        \A l \in Levels :
          SaveTo(Sorted(current[l]), current[l] \ current'[l], current'[l] \ current[l])
              = Sorted(current'[l])]_current

\* What GetApproximateSizes says of a range is never less than the size of
\* the tables that lie in it, on whichever level, overlapping or not.
SizesCoverFiles == AtRest => WholeFilesCounted(current)
=============================================================================
