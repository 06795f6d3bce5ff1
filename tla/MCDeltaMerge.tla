---------------------------- MODULE MCDeltaMerge ----------------------------
(* DeltaMerge with interchangeable contents and layouts. *)
EXTENDS DeltaMerge, TLC

CONSTANTS c1, c2, l1, l2

DataSymmetry == Permutations({c1, c2}) \cup Permutations({l1, l2})
=============================================================================
