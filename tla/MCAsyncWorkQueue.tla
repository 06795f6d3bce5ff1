-------------------------- MODULE MCAsyncWorkQueue --------------------------
(* AsyncWorkQueue on five items, two of them queued from the start. *)
EXTENDS AsyncWorkQueue

CONSTANTS i1, i2, i3, i4, i5

MCInitialItems == <<i1, i2>>
=============================================================================
