---------------------------- MODULE MCDeltaApply ----------------------------
(* DeltaApply on two paths: one is deleted or added, the other is modified *)
(* to a state whose modification time has a fraction of a millisecond.     *)
EXTENDS DeltaApply, TLC

CONSTANTS p, q, old, new

OldFile == [content |-> old, mtime |-> 0]
NewFile == [content |-> new, mtime |-> 1]

MCPlans ==
  {(p :> e) @@ (q :> [accepted |-> {OldFile, Absent}, desired |-> NewFile]) :
     e \in {[accepted |-> {OldFile}, desired |-> Absent],
            [accepted |-> {Absent}, desired |-> [NewFile EXCEPT !.mtime = 0]]}}
=============================================================================
