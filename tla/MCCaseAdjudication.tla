------------------------- MODULE MCCaseAdjudication -------------------------
(***************************************************************************)
(* Three cases of equal semantics in one chunk, so that chains and cycles  *)
(* of merges arise, and two cases of different semantics in a second one,  *)
(* which are unsafe to merge.                                              *)
(***************************************************************************)
EXTENDS CaseAdjudication

MCChunks == <<{1, 2, 3}, {4, 5}>>
MCSemantics == <<"copy", "copy", "copy", "copy", "wrapper">>
MCEvidence == [c \in 1..5 |-> {c}]
MCProofLevel == <<2, 1, 2, 1, 2>>
=============================================================================
