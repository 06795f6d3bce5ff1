-------------------------- MODULE MCManifestDelta --------------------------
(* ManifestDelta on four paths, two of which localeCompare calls equal.    *)
EXTENDS ManifestDelta, TLC

CONSTANTS p, q, q2, r

MCRank == (p :> 1) @@ (q :> 2) @@ (q2 :> 2) @@ (r :> 3)
=============================================================================
