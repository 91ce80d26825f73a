----------------------------- MODULE CaseSplitting -----------------------------
(***************************************************************************)
(* How slop cases become the chunks of one adjudication request each:      *)
(* case_relationship_components and split_adjudication_cases               *)
(* (src/src/synthesis.rs).  Related cases form groups; groups are packed   *)
(* one after the other while the prompt stays within the limit, and a      *)
(* group that is too long is cut.  A case is a record: the units it        *)
(* affects, its semantic fields, compared whole, and the characters it     *)
(* adds to a prompt.                                                       *)
(***************************************************************************)
EXTENDS Naturals, Sequences, FiniteSets, SequencesExt

CONSTANT FixedChars   \* characters of a prompt around its cases

\* render_adjudication_prompt(..).len(), of the cases at these indices.
PromptChars(cases, indices) ==
  FoldLeft(LAMBDA sum, i : sum + cases[i].chars, FixedChars, indices)

\* Two cases on one unit, of one meaning, or at the two ends of a call.
Adjacent(cases, calls, i, j) ==
  \/ cases[i].units \cap cases[j].units # {}
  \/ cases[i].semantics = cases[j].semantics
  \/ \E call \in calls :
       /\ cases[i].units \cap {call.caller, call.callee} # {}
       /\ cases[j].units \cap {call.caller, call.callee} # {}

\* A finite set of indices, in their order.
Ascending(indices) ==
  LET n == Cardinality(indices)
  IN  CHOOSE seq \in [1..n -> indices] : \A i, j \in 1..n : i < j => seq[i] < seq[j]

\* The cases that the search from case i finds, in as many rounds as there
\* are cases: in each one the neighbours of those found before.
Group(cases, calls, i) ==
  LET found[n \in Nat] ==
        IF n = 0 THEN {i}
        ELSE LET before == found[n - 1]
             IN  before \cup {j \in DOMAIN cases :
                                \E k \in before : Adjacent(cases, calls, k, j)}
  IN  found[Len(cases)]

\* case_relationship_components: the connected components, in the order of
\* their first cases, the cases of each in their own order.
Components(cases, calls) ==
  LET firsts == Ascending({i \in DOMAIN cases : \A j \in Group(cases, calls, i) : i <= j})
  IN  [n \in DOMAIN firsts |-> Ascending(Group(cases, calls, firsts[n]))]

\* The cases of a group that is too long, one after the other: a case opens
\* a chunk of its own whenever it does not fit behind the ones before it,
\* and is refused only when there are none before it.
CutStep(cases, limit, s, i) ==
  CASE s.error -> s
    [] ~s.error /\ PromptChars(cases, Append(s.current, i)) <= limit ->
         [s EXCEPT !.current = Append(@, i)]
    [] ~s.error /\ PromptChars(cases, Append(s.current, i)) > limit ->
         IF s.current = << >>
           THEN [s EXCEPT !.error = TRUE]
           ELSE [chunks |-> Append(s.chunks, s.current), current |-> <<i>>, error |-> FALSE]

\* Mutant: the length of the group decides, not that of the chunk it joins.
SplitStepAlone(cases, limit, s, group) ==
  IF ~s.error /\ PromptChars(cases, group) <= limit
    THEN [s EXCEPT !.current = @ \o group]
    ELSE FoldLeft(LAMBDA t, i : CutStep(cases, limit, t, i), s, group)

\* One turn of the loop over the groups: the group joins the open chunk, is
\* cut when none is open, or opens the next chunk, which has to fit.
SplitStep(cases, limit, s, group) ==
  CASE s.error -> s
    [] ~s.error /\ PromptChars(cases, s.current \o group) <= limit ->
         [s EXCEPT !.current = @ \o group]
    [] ~s.error /\ PromptChars(cases, s.current \o group) > limit ->
         IF s.current = << >>
           THEN FoldLeft(LAMBDA t, i : CutStep(cases, limit, t, i), s, group)
           ELSE [chunks |-> Append(s.chunks, s.current), current |-> group,
                 error |-> PromptChars(cases, group) > limit]

\* split_adjudication_cases: the chunks, or an error.
SplitCases(cases, calls, limit) ==
  LET end == FoldLeft(LAMBDA s, group : SplitStep(cases, limit, s, group),
                      [chunks |-> << >>, current |-> << >>, error |-> FALSE],
                      Components(cases, calls))
  IN  [error |-> end.error,
       chunks |-> IF end.current = << >> THEN end.chunks ELSE Append(end.chunks, end.current)]
=============================================================================
