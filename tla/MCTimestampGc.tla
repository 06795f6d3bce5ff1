--------------------------- MODULE MCTimestampGc ---------------------------
(* TimestampGc on a tree of two nested directories: f1 and f3 in           *)
(* root/d/e, and the protected f2 in root/d.  Both patterns of partition   *)
(* p cover e; partition q covers e too and excludes f1 only, so that it    *)
(* overlaps p when f3 is there.                                            *)
EXTENDS TimestampGc, TLC

CONSTANTS f1, f2, f3, root, d, e, p, q

MCParent == (f1 :> e) @@ (f2 :> d) @@ (f3 :> e) @@ (e :> d) @@ (d :> root)

MCPattern ==
  <<[partition |-> p, roots |-> {d}], [partition |-> p, roots |-> {e}],
    [partition |-> q, roots |-> {e}]>>

MCExcluded == (p :> {}) @@ (q :> {f1})
=============================================================================
