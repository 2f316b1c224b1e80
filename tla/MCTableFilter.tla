---------------------------- MODULE MCTableFilter ----------------------------
(* Instances of TableFilter for TLC.                                       *)
EXTENDS TableFilter, TLC

Symmetry == Permutations(Tables) \cup Permutations(Threads) \cup Permutations(Addresses)
=============================================================================
