--------------------------- MODULE MCPromptPacking ---------------------------
(***************************************************************************)
(* Every small input of the two packing algorithms: queues of small and    *)
(* large methods of two files and a file review, in every order; sequences *)
(* of small and large cases, on one of three units or on two, of a meaning *)
(* of their own or a common one, with and without a call between two of    *)
(* the units.  The prompt limits fit one small method, two, or nearly      *)
(* everything.                                                             *)
(***************************************************************************)
EXTENDS PromptPacking

MCSharedChars == [f \in {"a", "b"} |-> 2]

MCJobKinds ==
  [path : {"a", "b"}, method : {TRUE}, chars : {1, 3}]
    \cup {[path |-> "a", method |-> FALSE, chars |-> 1]}

MCCaseKinds ==
  [units : {{"u"}, {"v"}, {"w"}, {"v", "w"}}, common : BOOLEAN, chars : {1, 3}]

MCCallEdges == {[caller |-> "u", callee |-> "v"]}
=============================================================================
