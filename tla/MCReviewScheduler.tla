------------------------- MODULE MCReviewScheduler -------------------------
(***************************************************************************)
(* Bounds: every queue of at most MaxItems items over the given keys.      *)
(* Three items on two keys is the least with a blocked item behind an      *)
(* eligible one and a task that panics holding a key a third item wants.   *)
(***************************************************************************)
EXTENDS ReviewScheduler, SequencesExt

CONSTANT MaxItems

BoundedQueues == BoundedSeq(SUBSET Keys, MaxItems)
=============================================================================
