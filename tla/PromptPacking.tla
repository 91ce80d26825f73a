---------------------------- MODULE PromptPacking ----------------------------
(***************************************************************************)
(* The two algorithms that fill prompts, and what they promise.            *)
(*                                                                         *)
(* The state is an input of one of them, which grows by a job or by a case *)
(* at a time: a queue for group_pending_reviews with the batch size        *)
(* that parse_method_batch_size leaves, or a sequence of cases for         *)
(* split_adjudication_cases, with the calls between their units.           *)
(***************************************************************************)
EXTENDS ReviewBatching, CaseSplitting

CONSTANTS
  JobKinds,      \* jobs without their unit id: path, method, chars
  CaseKinds,     \* cases without their meaning: units, common, chars
  CallEdges,     \* the calls there may be between units
  BatchSizes,    \* values of the batch size as configured
  PromptLimits,  \* values of the limit on a prompt's characters
  Own,           \* tells a case's semantics from all others
  MaxJobs, MaxCases

\* Sizes are usize or u32 in the code.
ASSUME PackingAssumption ==
  /\ JobKinds \subseteq [path : DOMAIN SharedChars, method : BOOLEAN, chars : Nat]
  /\ \A f \in DOMAIN SharedChars : SharedChars[f] \in Nat
  /\ \A kind \in CaseKinds : kind.chars \in Nat
  /\ UsizeMax \in Nat /\ BatchSizes \subseteq Nat /\ PromptLimits \subseteq Nat
  /\ FixedChars \in Nat

VARIABLES pending, cases, calls, batchSize, maxChars

packing == <<pending, cases, calls, batchSize, maxChars>>

Job(kind) ==
  [unit |-> Len(pending) + 1, path |-> kind.path, method |-> kind.method, chars |-> kind.chars]

Case(kind) ==
  [units |-> kind.units, chars |-> kind.chars,
   semantics |-> IF kind.common THEN <<Own>> ELSE <<Own, Len(cases) + 1>>]

PackInit ==
  /\ pending = << >>
  /\ cases = << >>
  /\ calls \in SUBSET CallEdges
  /\ batchSize \in {ClampBatchSize(n) : n \in BatchSizes}
  /\ maxChars \in PromptLimits

PushJob(job) ==
  /\ cases = << >> /\ calls = {}
  /\ Len(pending) < MaxJobs
  /\ pending' = Append(pending, job)
  /\ UNCHANGED <<cases, calls, batchSize, maxChars>>

PushCase(case) ==
  /\ pending = << >> /\ batchSize = 1
  /\ Len(cases) < MaxCases
  /\ cases' = Append(cases, case)
  /\ UNCHANGED <<pending, calls, batchSize, maxChars>>

PackNext ==
  \/ \E kind \in JobKinds : PushJob(Job(kind))
  \/ \E kind \in CaseKinds : PushCase(Case(kind))

PackSpec == PackInit /\ [][PackNext]_packing

Grouped == GroupPendingReviews(pending, batchSize, maxChars)
Split == SplitCases(cases, calls, maxChars)
-----------------------------------------------------------------------------
(***************************************************************************)
(* The batches one after the other are the queue: grouping neither loses,  *)
(* repeats nor reorders a review.                                          *)
(***************************************************************************)
OrderedPartition ==
  /\ FlattenSeq(Grouped) = pending
  /\ \A i \in DOMAIN Grouped : Grouped[i] # << >>

(***************************************************************************)
(* No batch is larger than the batch size, none of several methods is      *)
(* estimated above the prompt limit (one method alone may be), and a file  *)
(* review is never put in a batch with anything else, which the review     *)
(* task would refuse.                                                      *)
(***************************************************************************)
WithinLimits ==
  \A i \in DOMAIN Grouped :
    LET batch == Grouped[i]
    IN  /\ Len(batch) <= batchSize
        /\ Len(batch) > 1 => /\ BatchEstimate(batch) <= maxChars
                             /\ \A j \in DOMAIN batch : batch[j].method

(***************************************************************************)
(* No request is wasted: two neighbouring batches of methods of one file   *)
(* never fit in one.  The chunks of the first pass do not stand in the     *)
(* second's way.  Whether batches of different files may be merged is not  *)
(* said here: the code does it, README.md:404 forbids it.                  *)
(***************************************************************************)
NeighboursDoNotFit ==
  \A i \in 1..(Len(Grouped) - 1) :
    LET both == Grouped[i] \o Grouped[i + 1]
    IN  (\A j \in DOMAIN both : both[j].method /\ both[j].path = both[1].path) =>
          Len(both) > batchSize \/ BatchEstimate(both) > maxChars

(***************************************************************************)
(* What group_pending_reviews promises of its batches, whatever the order  *)
(* of files, sizes and kinds in the queue: its two greedy passes agree on  *)
(* every boundary.                                                         *)
(***************************************************************************)
BatchesFit == OrderedPartition /\ WithinLimits /\ NeighboursDoNotFit

(***************************************************************************)
(* What split_adjudication_cases promises, whatever the order of the       *)
(* cases.  When it succeeds, every case is in one chunk; related cases     *)
(* that fit in one prompt are decided in one request, which is what lets   *)
(* the model merge them; and no request of several cases is above the      *)
(* limit.  It fails only over cases that do not fit in one prompt, and     *)
(* never when all of them do.                                              *)
(***************************************************************************)
ChunksKeepRelatedCases ==
  LET groups == Components(cases, calls)
      fits(indices) == PromptChars(cases, indices) <= maxChars
  IN  IF Split.error
        THEN \E n \in DOMAIN groups : ~fits(groups[n])
        ELSE LET chunks == Split.chunks
             IN  /\ \A i \in DOMAIN cases :
                      Cardinality({n \in DOMAIN chunks : i \in Range(chunks[n])}) = 1
                 /\ \A n \in DOMAIN chunks :
                      /\ IsInjective(chunks[n])
                      /\ Len(chunks[n]) > 1 => fits(chunks[n])
                 /\ \A g \in DOMAIN groups : fits(groups[g]) =>
                      \E n \in DOMAIN chunks : Range(groups[g]) \subseteq Range(chunks[n])
=============================================================================
