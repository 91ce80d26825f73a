--------------------------- MODULE CaseAdjudication ---------------------------
(***************************************************************************)
(* The adjudication of slop cases: run_case_adjudication and               *)
(* apply_case_adjudications (src/src/synthesis.rs) on decisions parsed by  *)
(* parse_case_adjudications (src/src/slop_cases.rs).  The cases come in    *)
(* chunks.  For each chunk the model answers with a ledger of decisions:   *)
(* keep, discard, leave unresolved, or merge into another case.  A parsed  *)
(* ledger is journaled, then applied.  A later run of the scan takes the   *)
(* journaled ledger instead of asking again.                               *)
(*                                                                         *)
(* Case ids are numbers, ordered as their strings are.  Of the journal     *)
(* only the decisions of this scan are kept; the file, and the copy of a   *)
(* ledger that another scan journaled, are ReviewJournal's.                *)
(***************************************************************************)
EXTENDS Naturals, Sequences, FiniteSets, FiniteSetsExt, SequencesExt

CONSTANTS
  Chunks,     \* split_adjudication_cases: a sequence of sets of case ids
  Semantics,  \* tier, pattern, mechanism, intent... of a case, compared whole
  Evidence,   \* evidence, affected units and edits of a case
  ProofLevel, \* proof_level of a case
  Unknown,    \* an id no case has
  Limits,     \* budgets, as a number of chunks; None is no --budget-usd
  MaxRuns,    \* bound on runs of the stage
  None

VARIABLES
  journaled,  \* the journaled decisions of every chunk, or None
  phase,      \* where the run is, or how the last one ended
  at,         \* the chunk being adjudicated
  decisions,  \* its decisions, journaled and not yet applied
  kept,       \* `kept`: the cases that stay, merged
  limit,      \* the budget of the run
  runs,       \* runs started so far
  outcome     \* history: what the first run that finished kept, or None

vars == <<journaled, phase, at, decisions, kept, limit, runs, outcome>>

CaseIds == UNION Range(Chunks)
ChunkNumbers == DOMAIN Chunks
Plain == {"keep", "discard", "unresolved"}

\* run_case_adjudication returns early without cases; the limit of the prompt
\* bounds a chunk.
ASSUME AdjudicationAssumption ==
  /\ Chunks \in Seq(SUBSET Nat) /\ Chunks # << >>
  /\ \A k \in ChunkNumbers : IsFiniteSet(Chunks[k])
  /\ \A c \in CaseIds : ProofLevel[c] \in Nat

\* One element of the "decisions" array as the model may write it.
Item(ids) ==
  [id : ids, decision : Plain, into : {None}]
    \cup [id : ids, decision : {"merge"}, into : ids \cup {Unknown}]

\* Answers: one decision too few, or as many as there are cases.
Answers(ids) ==
  UNION {[1..n -> Item(ids)] : n \in {Cardinality(ids) - 1, Cardinality(ids)}}

\* Mutant: an answer that omits cases is accepted.
ParsesPartial(answer, ids) ==
  /\ \A i, j \in DOMAIN answer : answer[i].id = answer[j].id => i = j
  /\ \A i \in DOMAIN answer :
       answer[i].decision = "merge" => answer[i].into \in ids \ {answer[i].id}

\* parse_case_adjudications accepts: every case once, merges into another
\* known case.
Parses(answer, ids) ==
  /\ \A i, j \in DOMAIN answer : answer[i].id = answer[j].id => i = j
  /\ \A i \in DOMAIN answer :
       answer[i].decision = "merge" => answer[i].into \in ids \ {answer[i].id}
  /\ {answer[i].id : i \in DOMAIN answer} = ids

\* The decisions by case id.
Parsed(answer) ==
  [c \in {answer[i].id : i \in DOMAIN answer} |->
     LET i == CHOOSE i \in DOMAIN answer : answer[i].id = c
     IN  [decision |-> answer[i].decision, into |-> answer[i].into]]

\* The ledgers the model's answers can give a chunk.
Ledgers ==
  [k \in ChunkNumbers |->
     {Parsed(answer) : answer \in {a \in Answers(Chunks[k]) : Parses(a, Chunks[k])}}]

\* A ledger of decisions about a set of cases.
Decisions(ids) ==
  {d \in [ids -> [decision : Plain \cup {"merge"}, into : ids \cup {None}]] :
     \A c \in ids : IF d[c].decision = "merge" THEN d[c].into \in ids \ {c}
                                               ELSE d[c].into = None}

\* None is not a ledger.
ASSUME NoLedgerAssumption == \A k \in ChunkNumbers : None \notin Decisions(Chunks[k])

(***************************************************************************)
(* resolve_merge_target: follow the merges.  After as many steps as there  *)
(* are cases the walk is at a case that does not merge, or in a cycle.     *)
(***************************************************************************)
MergeTarget(c, d) ==
  LET walk[n \in 0..Cardinality(DOMAIN d)] ==
        IF n = 0 THEN c
        ELSE IF d[walk[n - 1]].decision = "merge" THEN d[walk[n - 1]].into
        ELSE walk[n - 1]
  IN  walk[Cardinality(DOMAIN d)]

Merging(d) == {c \in DOMAIN d : d[c].decision = "merge"}

\* Mutant: the merged case's evidence is dropped.
MergeCaseDropsEvidence(target, source) ==
  [target EXCEPT !.proof = IF source.proof < @ THEN source.proof ELSE @]

\* merge_case, for cases whose semantics agree.
MergeCase(target, source) ==
  [target EXCEPT !.evidence = @ \cup source.evidence,
                 !.proof = IF source.proof < @ THEN source.proof ELSE @]

\* apply_case_adjudications fails: a merge ends in a cycle or in a case that
\* is not kept, or the semantics of the merged cases disagree.
Unsafe(d) ==
  \E c \in Merging(d) :
    \/ d[MergeTarget(c, d)].decision # "keep"
    \/ Semantics[c] # Semantics[MergeTarget(c, d)]

\* The case as it is, or as mark_unresolved leaves it.
Initial(c, d) ==
  [id |-> c, unresolved |-> d[c].decision = "unresolved",
   evidence |-> Evidence[c], proof |-> ProofLevel[c]]

\* The merged cases, in the order of their ids.
MergeSources(d) ==
  LET n == Cardinality(Merging(d))
  IN  CHOOSE ids \in [1..n -> Merging(d)] : \A i, j \in 1..n : i < j => ids[i] < ids[j]

\* One of them goes to the end of its chain of merges.
MergeInto(d, cases, c) ==
  [cases EXCEPT ![MergeTarget(c, d)] = MergeCase(@, cases[c])]

\* apply_case_adjudications: merge the sources in the order of their ids,
\* then keep what is kept or unresolved.
Applied(d) ==
  LET byId   == [c \in DOMAIN d |-> Initial(c, d)]
      merged == FoldLeft(LAMBDA cases, c : MergeInto(d, cases, c), byId, MergeSources(d))
  IN  {merged[c] : c \in {c \in DOMAIN d : d[c].decision \in {"keep", "unresolved"}}}
-----------------------------------------------------------------------------
Ended == {"idle", "done", "paused", "failed"}

Init ==
  /\ journaled = [k \in ChunkNumbers |-> None]
  /\ phase = "idle" /\ at = 1 /\ decisions = None /\ kept = {}
  /\ limit = None /\ runs = 0 /\ outcome = None

StartRun(l) ==
  /\ phase \in Ended /\ runs < MaxRuns
  /\ phase' = "next" /\ runs' = runs + 1 /\ limit' = l
  /\ at' = 1 /\ decisions' = None /\ kept' = {}
  /\ UNCHANGED <<journaled, outcome>>

\* reusable_adjudication: the chunk has been decided before.
Reuse ==
  /\ phase = "next" /\ journaled[at] # None
  /\ decisions' = journaled[at]
  /\ phase' = "apply"
  /\ UNCHANGED <<journaled, at, kept, limit, runs, outcome>>

\* store.spent_usd() >= limit, a chunk costing one
Exhausted ==
  limit # None /\ Cardinality({k \in ChunkNumbers : journaled[k] # None}) >= limit

Pause ==
  /\ phase = "next" /\ journaled[at] = None /\ Exhausted
  /\ phase' = "paused"
  /\ UNCHANGED <<journaled, at, decisions, kept, limit, runs, outcome>>

\* Mutant: the budget is checked and the model asked before the journal.
AskingAgain == phase = "next" /\ ~Exhausted

Asking == phase = "next" /\ journaled[at] = None /\ ~Exhausted

\* The provider fails, or the answer does not parse; nothing is journaled.
AnswerRejected ==
  /\ Asking
  /\ phase' = "failed"
  /\ UNCHANGED <<journaled, at, decisions, kept, limit, runs, outcome>>

\* The answer parses: its decisions are journaled, then applied.
AnswerParsed(ledger) ==
  /\ Asking
  /\ decisions' = ledger
  /\ journaled' = [journaled EXCEPT ![at] = ledger]
  /\ phase' = "apply"
  /\ UNCHANGED <<at, kept, limit, runs, outcome>>

\* The append of the decisions reports an error, with or without the line.
RecordFails(ledger) ==
  /\ Asking
  /\ journaled' \in {journaled, [journaled EXCEPT ![at] = ledger]}
  /\ phase' = "failed"
  /\ UNCHANGED <<at, decisions, kept, limit, runs, outcome>>

Apply ==
  /\ phase = "apply" /\ ~Unsafe(decisions)
  /\ kept' = kept \cup Applied(decisions)
  /\ decisions' = None
  /\ IF at = Len(Chunks)
       THEN /\ phase' = "done" /\ UNCHANGED at
            /\ outcome' = IF outcome = None THEN kept' ELSE outcome
       ELSE phase' = "next" /\ at' = at + 1 /\ UNCHANGED outcome
  /\ UNCHANGED <<journaled, limit, runs>>

ApplyFails ==
  /\ phase = "apply" /\ Unsafe(decisions)
  /\ phase' = "failed"
  /\ UNCHANGED <<journaled, at, decisions, kept, limit, runs, outcome>>

Crash ==
  /\ phase \notin Ended
  /\ phase' = "idle"
  /\ at' = 1 /\ decisions' = None /\ kept' = {}
  /\ UNCHANGED <<journaled, limit, runs, outcome>>

Next ==
  \/ \E l \in Limits : StartRun(l)
  \/ Reuse
  \/ Pause
  \/ AnswerRejected
  \/ \E ledger \in Ledgers[at] : AnswerParsed(ledger) \/ RecordFails(ledger)
  \/ Apply
  \/ ApplyFails
  \/ Crash

Spec == Init /\ [][Next]_vars
-----------------------------------------------------------------------------
(***************************************************************************)
(* Type invariant.  What is journaled is a complete ledger: one decision   *)
(* for every case of the chunk, whatever the model answered.               *)
(***************************************************************************)
TypeOK ==
  /\ \A k \in ChunkNumbers :
       journaled[k] # None => /\ DOMAIN journaled[k] = Chunks[k]
                              /\ journaled[k] \in Decisions(Chunks[k])
  /\ phase \in Ended \cup {"next", "apply"}
  /\ at \in ChunkNumbers
  /\ (phase = "apply") => decisions = journaled[at]
  /\ \A case \in kept : case.id \in CaseIds

\* The cases that end up in c: those with a chain of merges to it.
Absorbed(d, c) ==
  {m \in DOMAIN d :
     \E n \in 1..Cardinality(DOMAIN d) : \E chain \in [0..n -> DOMAIN d] :
       /\ chain[0] = m /\ chain[n] = c
       /\ \A i \in 0..(n - 1) : /\ d[chain[i]].decision = "merge"
                                /\ d[chain[i]].into = chain[i + 1]}

\* Every case that is not discarded is in the result of a finished
\* adjudication, itself or merged into a case of the same semantics.
NoCaseVanishes ==
  \A k \in ChunkNumbers : \A c \in Chunks[k] :
    journaled[k][c].decision # "discard" =>
      \E case \in kept : /\ Evidence[c] \subseteq case.evidence
                         /\ Semantics[case.id] = Semantics[c]

\* Exactly the cases to keep, each with the evidence and the weakest proof of
\* all that end up in it.
KeptIsWhatWasDecided ==
  kept = UNION {
    {[id |-> c,
      unresolved |-> journaled[k][c].decision = "unresolved",
      evidence |-> UNION {Evidence[m] : m \in {c} \cup Absorbed(journaled[k], c)},
      proof |-> Min({ProofLevel[m] : m \in {c} \cup Absorbed(journaled[k], c)})] :
     c \in {c \in Chunks[k] : journaled[k][c].decision \in {"keep", "unresolved"}}} :
    k \in ChunkNumbers}

(***************************************************************************)
(* A finished adjudication keeps exactly the cases it was told to, however *)
(* the merges chain and in whatever order they are carried out, and no     *)
(* case that was not discarded loses its evidence: it is in the one kept   *)
(* case at the end of its chain of merges, of the same semantics.          *)
(***************************************************************************)
DecisionsAreApplied == phase = "done" => KeptIsWhatWasDecided /\ NoCaseVanishes

(***************************************************************************)
(* Once an adjudication of these cases has finished, every later run of    *)
(* the scan that finishes keeps the same cases, with the same evidence and *)
(* the same proof, whatever crashes, pauses and failures come between.     *)
(* The journal is what makes it so: the model, asked again, may decide     *)
(* otherwise (run_case_adjudication).  The stages that follow are          *)
(* journaled by these cases, and a resume after one of them failed would   *)
(* otherwise prove others than before.                                     *)
(***************************************************************************)
ResumeKeepsOutcome == phase = "done" => kept = outcome

(***************************************************************************)
(* README.md:421-422: "Every completed review is durably appended to a     *)
(* local journal for safe resume".  A journaled ledger can be applied, so  *)
(* a resumed scan is not bound to fail on it.                              *)
(***************************************************************************)
JournaledDecisionsApply ==
  \A k \in ChunkNumbers : journaled[k] # None => ~Unsafe(journaled[k])
=============================================================================
