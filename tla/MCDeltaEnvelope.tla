-------------------------- MODULE MCDeltaEnvelope --------------------------
(* DeltaEnvelope with an empty, a deleting and a mixed delta manifest, and *)
(* the aggregator's identity, one of its family and one of another.        *)
EXTENDS DeltaEnvelope, TLC

CONSTANTS p, q, x, y, f, g, l, k

MCManifests == {<<>>, p :> Missing, (p :> x) @@ (q :> Missing)}

MCOwn == [family |-> f, layout |-> l]
MCIdentities ==
  {MCOwn, [family |-> f, layout |-> k], [family |-> g, layout |-> l]}

\* No definition tells the workers apart.
WorkerSymmetry == Permutations(Worker)
=============================================================================
