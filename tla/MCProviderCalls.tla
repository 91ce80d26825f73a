--------------------------- MODULE MCProviderCalls ---------------------------
(***************************************************************************)
(* Two calls share one permit, with every budget large enough to run out   *)
(* behind the others, and a shift of three bits, which wraps at the fourth *)
(* attempt.                                                                *)
(***************************************************************************)
EXTENDS ProviderCalls
CONSTANTS c1, c2
MCCalls == {c1, c2}
=============================================================================
