-------------------------- MODULE MCDistributedRun --------------------------
(* DistributedRun with two interchangeable workers. *)
EXTENDS DistributedRun, TLC

CONSTANTS w1, w2

WorkerSymmetry == Permutations({w1, w2})
=============================================================================
