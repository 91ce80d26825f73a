--------------------------- MODULE MCMethodResume ---------------------------
(***************************************************************************)
(* A chain of runs over one journal: the second scan is the repository     *)
(* without file b, under the same review context, so that it takes a1 over *)
(* from the first scan or the first from it.  Runs are resumed, crash,     *)
(* pause and fail in every order.  One batch of two methods.               *)
(***************************************************************************)
EXTENDS MethodStage

Job(u, p) == [unit |-> u, path |-> p, method |-> TRUE, chars |-> 1]

MCJobsOf == [first |-> <<Job("a1", "a"), Job("b1", "b")>>,
             second |-> <<Job("a1", "a")>>]
MCContextOf == [s \in Scans |-> "context"]
MCSharedChars == [p \in {"a", "b"} |-> 1]
=============================================================================
