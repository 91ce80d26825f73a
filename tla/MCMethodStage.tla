--------------------------- MODULE MCMethodStage ---------------------------
(***************************************************************************)
(* The concurrency of one run: two files, a1 and a2 in a, b1 in b, in two  *)
(* batches reviewed by two tasks at once, with and without a budget that   *)
(* the first charge exhausts, and one failing append.                      *)
(***************************************************************************)
EXTENDS MethodStage

Job(u, p) == [unit |-> u, path |-> p, method |-> TRUE, chars |-> 1]

MCJobsOf == [s \in Scans |-> <<Job("a1", "a"), Job("a2", "a"), Job("b1", "b")>>]
MCContextOf == [s \in Scans |-> "context"]
MCSharedChars == [p \in {"a", "b"} |-> 1]
=============================================================================
