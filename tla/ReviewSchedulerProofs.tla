------------------------ MODULE ReviewSchedulerProofs ------------------------
(***************************************************************************)
(* Safety of the keyed scheduler for every key set, every concurrency and  *)
(* every queue.  KeyExclusion and EarlyStopNeedsBudget are not inductive:  *)
(* what makes them so is where the claims in active_keys come from.        *)
(***************************************************************************)
EXTENDS ReviewScheduler, FiniteSetTheorems, TLAPS

\* Every running item holds its claim.
ClaimsHeld == \A i \in running : keysFor[i] \subseteq activeKeys

\* As long as no task failed, nobody else holds one.
NoStrayClaim ==
  (phase = "running" /\ ~firstError) =>
     \A k \in activeKeys : \E i \in running : k \in keysFor[i]

\* As long as no task failed, every item is somewhere.
Accounted ==
  (phase \in {"running", "ok", "early"} /\ ~firstError) =>
     Items = pending \cup running \cup completed \cup ({joined} \ {0})

\* How a call that returned Ok left its state.
OkReturn ==
  /\ joined # 0 => phase = "running"
  /\ phase \in {"ok", "early"} => running = {} /\ ~firstError
  /\ phase = "ok" => pending = {}

IInv ==
  /\ TypeOK
  /\ StartedOnce
  /\ ClaimsHeld
  /\ KeyExclusion
  /\ NoStrayClaim
  /\ Accounted
  /\ OkReturn
  /\ EarlyStopNeedsBudget

(* The initial state is empty. *)
LEMMA EmptyIInv ==
  ASSUME Init
  PROVE  IInv
<1> USE DEF Init, IInv
<1>1. keysFor \in Seq(SUBSET Keys) /\ Items = {}
  BY DEF Items
<1>2. TypeOK
  BY <1>1 DEF TypeOK, Phases
<1>3. StartedOnce /\ ClaimsHeld /\ KeyExclusion /\ NoStrayClaim
  BY DEF StartedOnce, ClaimsHeld, KeyExclusion, NoStrayClaim
<1>4. Accounted /\ OkReturn /\ EarlyStopNeedsBudget
  BY DEF Accounted, OkReturn, EarlyStopNeedsBudget
<1> QED
  BY <1>2, <1>3, <1>4

(* A position of the queue is never 0, the mark for "no callback". *)
LEMMA ItemsPositive == ASSUME TypeOK PROVE 0 \notin Items /\ Items \subseteq Nat
  BY DEF TypeOK, Items

(* Calling the scheduler starts from a clean slate. *)
LEMMA CallIInv ==
  ASSUME NEW q \in Queues, NEW open \in BOOLEAN, Call(q, open)
  PROVE  IInv'
<1>1. q \in Seq(SUBSET Keys)
  BY SchedulerAssumption
<1> USE DEF Call, IInv
<1>2. 0 \notin DOMAIN q
  BY <1>1
<1>3. TypeOK'
  BY <1>1 DEF TypeOK, Items, Phases
<1>4. StartedOnce'
  BY <1>2 DEF StartedOnce
<1>5. ClaimsHeld' /\ KeyExclusion' /\ NoStrayClaim'
  BY DEF ClaimsHeld, KeyExclusion, NoStrayClaim
<1>6. Accounted'
  BY DEF Accounted, Items
<1>7. OkReturn' /\ EarlyStopNeedsBudget'
  BY DEF OkReturn, EarlyStopNeedsBudget
<1> QED
  BY <1>3, <1>4, <1>5, <1>6, <1>7

(* Starting the first eligible item: its keys are nobody's, and become its. *)
LEMMA StartIInv ==
  ASSUME IInv, NEW i \in Items, Start(i)
  PROVE  IInv'
<1> USE DEF IInv, Start, AtLoop, Eligible
<1>0. 0 \notin Items
  BY ItemsPositive
<1>1. TypeOK'
  BY DEF TypeOK, Items
<1>2. StartedOnce'
  BY <1>0 DEF StartedOnce, TypeOK
<1>3. ClaimsHeld'
  BY DEF ClaimsHeld
<1>4. KeyExclusion'
  BY DEF KeyExclusion, ClaimsHeld
<1>5. NoStrayClaim'
  BY DEF NoStrayClaim
<1>6. Accounted'
  BY DEF Accounted, Items
<1>7. OkReturn' /\ EarlyStopNeedsBudget'
  BY DEF OkReturn, EarlyStopNeedsBudget
<1> QED
  BY <1>1, <1>2, <1>3, <1>4, <1>5, <1>6, <1>7

(* Joining a task releases its own keys and no other task's. *)
LEMMA JoinOkIInv ==
  ASSUME IInv, NEW i \in Items, JoinOk(i)
  PROVE  IInv'
<1> USE DEF IInv, JoinOk, AtJoin, AtLoop
<1>0. 0 \notin Items
  BY ItemsPositive
<1>1. TypeOK'
  BY DEF TypeOK, Items
<1>2. StartedOnce'
  BY <1>0 DEF StartedOnce, TypeOK
<1>3. ClaimsHeld'
  BY DEF ClaimsHeld, KeyExclusion
<1>4. KeyExclusion'
  BY DEF KeyExclusion
<1>5. NoStrayClaim'
  BY DEF NoStrayClaim
<1>6. Accounted'
  BY <1>0 DEF Accounted, Items
<1>7. OkReturn' /\ EarlyStopNeedsBudget'
  BY DEF OkReturn, EarlyStopNeedsBudget
<1> QED
  BY <1>1, <1>2, <1>3, <1>4, <1>5, <1>6, <1>7

(* The other ways a task leaves the JoinSet: by an error or by a panic. *)
LEMMA JoinFailedIInv ==
  ASSUME IInv, NEW i \in Items, JoinErr(i) \/ JoinPanic(i)
  PROVE  IInv'
<1> USE DEF IInv, JoinErr, JoinPanic, AtJoin, AtLoop
<1>1. TypeOK'
  BY DEF TypeOK, Items
<1>2. StartedOnce'
  BY DEF StartedOnce
<1>3. ClaimsHeld'
  BY DEF ClaimsHeld, KeyExclusion
<1>4. KeyExclusion'
  BY DEF KeyExclusion
<1>5. NoStrayClaim' /\ Accounted'
  BY DEF NoStrayClaim, Accounted
<1>6. OkReturn' /\ EarlyStopNeedsBudget'
  BY DEF OkReturn, EarlyStopNeedsBudget
<1> QED
  BY <1>1, <1>2, <1>3, <1>4, <1>5, <1>6

(* The completion callback: it succeeds, or the other tasks are aborted. *)
LEMMA OnCompletedIInv ==
  ASSUME IInv, OnCompletedOk \/ OnCompletedErr
  PROVE  IInv'
<1> USE DEF IInv, OnCompletedOk, OnCompletedErr
<1>0. 0 \notin Items
  BY ItemsPositive
<1>1. TypeOK'
  BY DEF TypeOK, Items, Phases
<1>2. StartedOnce'
  BY <1>0 DEF StartedOnce, TypeOK
<1>3. ClaimsHeld' /\ KeyExclusion'
  BY DEF ClaimsHeld, KeyExclusion
<1>4. NoStrayClaim'
  BY DEF NoStrayClaim
<1>5. Accounted'
  BY <1>0 DEF Accounted, Items
<1>6. OkReturn' /\ EarlyStopNeedsBudget'
  BY DEF OkReturn, EarlyStopNeedsBudget
<1> QED
  BY <1>1, <1>2, <1>3, <1>4, <1>5, <1>6

(* abort_and_drain empties the JoinSet and returns the error. *)
LEMMA AbortIInv ==
  ASSUME IInv, Aborted \/ \E i \in Items : Drain(i)
  PROVE  IInv'
<1> USE DEF IInv, Aborted, Drain
<1>1. TypeOK'
  BY DEF TypeOK, Items, Phases
<1>2. StartedOnce'
  BY DEF StartedOnce
<1>3. ClaimsHeld' /\ KeyExclusion'
  BY DEF ClaimsHeld, KeyExclusion
<1>4. NoStrayClaim' /\ Accounted'
  BY DEF NoStrayClaim, Accounted
<1>5. OkReturn' /\ EarlyStopNeedsBudget'
  BY DEF OkReturn, EarlyStopNeedsBudget
<1> QED
  BY <1>1, <1>2, <1>3, <1>4, <1>5

(***************************************************************************)
(* The loop ends with no task left.  Without an error nobody holds a key   *)
(* then, so every pending item is eligible: if one is left behind, it can  *)
(* only be because can_start() said no.                                    *)
(***************************************************************************)
LEMMA ReturnIInv ==
  ASSUME IInv, Return
  PROVE  IInv'
<1> USE DEF IInv, Return, AtLoop
<1>1. TypeOK'
  BY DEF TypeOK, Items, Phases
<1>2. StartedOnce' /\ ClaimsHeld' /\ KeyExclusion'
  BY DEF StartedOnce, ClaimsHeld, KeyExclusion
<1>3. NoStrayClaim' /\ Accounted'
  BY DEF NoStrayClaim, Accounted, Items
<1>4. OkReturn'
  BY DEF OkReturn
<1>5. EarlyStopNeedsBudget'
  <2> SUFFICES ASSUME phase' = "early"
               PROVE  ~admit
    BY DEF EarlyStopNeedsBudget
  <2>1. ~firstError /\ pending # {}
    OBVIOUS
  <2>2. activeKeys = {}
    BY <2>1 DEF NoStrayClaim
  <2>3. \E i \in pending : Eligible(i)
    BY <2>1, <2>2 DEF Eligible
  <2>4. Cardinality(running) = 0
    BY FS_EmptySet
  <2>5. Cardinality(running) < Concurrency
    BY <2>4, SchedulerAssumption DEF Concurrency
  <2> QED
    BY <2>1, <2>3, <2>5 DEF CanFill
<1> QED
  BY <1>1, <1>2, <1>3, <1>4, <1>5

(* Admission closes only while a call is in progress. *)
LEMMA CloseAdmissionIInv ==
  ASSUME IInv, CloseAdmission
  PROVE  IInv'
  BY DEF CloseAdmission, IInv, TypeOK, StartedOnce, ClaimsHeld, KeyExclusion,
         NoStrayClaim, Accounted, OkReturn, EarlyStopNeedsBudget, Items

(* A dead process leaves the initial state behind. *)
LEMMA ExitIInv ==
  ASSUME Exit
  PROVE  IInv'
<1> USE DEF Exit, IInv
<1>1. (keysFor \in Seq(SUBSET Keys) /\ Items = {})'
  BY DEF Items
<1>2. TypeOK'
  BY <1>1 DEF TypeOK, Phases
<1>3. StartedOnce' /\ ClaimsHeld' /\ KeyExclusion' /\ NoStrayClaim'
  BY DEF StartedOnce, ClaimsHeld, KeyExclusion, NoStrayClaim
<1>4. Accounted' /\ OkReturn' /\ EarlyStopNeedsBudget'
  BY DEF Accounted, OkReturn, EarlyStopNeedsBudget
<1> QED
  BY <1>2, <1>3, <1>4

(* IInv is preserved by every step. *)
LEMMA NextIInv == IInv /\ [Next]_vars => IInv'
<1> SUFFICES ASSUME IInv, [Next]_vars
             PROVE  IInv'
  OBVIOUS
<1>1. CASE UNCHANGED vars
  BY <1>1 DEF vars, IInv, TypeOK, StartedOnce, ClaimsHeld, KeyExclusion, NoStrayClaim,
              Accounted, OkReturn, EarlyStopNeedsBudget, Items
<1>2. CASE Next
  BY <1>2, CallIInv, StartIInv, JoinOkIInv, JoinFailedIInv, OnCompletedIInv, AbortIInv,
     ReturnIInv, CloseAdmissionIInv, ExitIInv DEF Next
<1> QED
  BY <1>1, <1>2

(* The inductive invariant holds in every behaviour of the scheduler. *)
THEOREM SchedulerInvariant == Spec => []IInv
  BY EmptyIInv, NextIInv, PTL DEF Spec

(***************************************************************************)
(* Type correctness of the scheduler's state.                              *)
(***************************************************************************)
THEOREM SchedulerTypeOK == Spec => []TypeOK
<1>1. IInv => TypeOK
  BY DEF IInv
<1> QED
  BY <1>1, SchedulerInvariant, PTL

(***************************************************************************)
(* Two tasks in flight never share a key, for every queue and concurrency. *)
(***************************************************************************)
THEOREM SchedulerKeyExclusion == Spec => []KeyExclusion
<1>1. IInv => KeyExclusion
  BY DEF IInv
<1> QED
  BY <1>1, SchedulerInvariant, PTL

(***************************************************************************)
(* An item is started once and completed once.                             *)
(***************************************************************************)
THEOREM SchedulerStartedOnce == Spec => []StartedOnce
<1>1. IInv => StartedOnce
  BY DEF IInv
<1> QED
  BY <1>1, SchedulerInvariant, PTL

(***************************************************************************)
(* A call that returns Ok has dropped no item.                             *)
(***************************************************************************)
THEOREM SchedulerNothingLost == Spec => []NothingLost
<1>1. IInv => NothingLost
  BY DEF IInv, NothingLost, Accounted, OkReturn
<1> QED
  BY <1>1, SchedulerInvariant, PTL

(***************************************************************************)
(* expect("early stop requires a budget") never panics.                    *)
(***************************************************************************)
THEOREM SchedulerEarlyStop == Spec => []EarlyStopNeedsBudget
<1>1. IInv => EarlyStopNeedsBudget
  BY DEF IInv
<1> QED
  BY <1>1, SchedulerInvariant, PTL

(* A set of positions of a finite queue is finite. *)
LEMMA RunningFinite == ASSUME TypeOK PROVE IsFiniteSet(running)
<1>1. keysFor \in Seq(SUBSET Keys) /\ running \subseteq DOMAIN keysFor
  BY DEF TypeOK, Items
<1>2. DOMAIN keysFor = 1 .. Len(keysFor) /\ Len(keysFor) \in Nat
  BY <1>1
<1>3. IsFiniteSet(1 .. Len(keysFor))
  BY <1>2, FS_Interval
<1> QED
  BY <1>1, <1>2, <1>3, FS_Subset

(* No step but Start adds a task, and Start only below the limit. *)
LEMMA NextWithinConcurrency ==
  ASSUME TypeOK, WithinConcurrency, [Next]_vars
  PROVE  WithinConcurrency'
<1>0. IsFiniteSet(running) /\ Cardinality(running) \in Nat
  BY RunningFinite, FS_CardinalityType
<1>1. Concurrency \in Nat \ {0}
  BY SchedulerAssumption DEF Concurrency
<1>2. CASE running' \subseteq running
  <2>1. Cardinality(running') <= Cardinality(running) /\ Cardinality(running') \in Nat
    BY <1>0, <1>2, FS_Subset, FS_CardinalityType
  <2> QED
    BY <2>1, <1>0, <1>1 DEF WithinConcurrency, Concurrency
<1>3. ASSUME NEW i \in Items, Start(i)
      PROVE  WithinConcurrency'
  <2>1. Cardinality(running) < Concurrency /\ running' = running \cup {i}
    BY <1>3 DEF Start, CanFill
  <2>2. Cardinality(running') <= Cardinality(running) + 1 /\ Cardinality(running') \in Nat
    <3>1. IsFiniteSet(running \cup {i})
      BY <1>0, FS_AddElement
    <3>2. Cardinality(running \cup {i}) \in {Cardinality(running), Cardinality(running) + 1}
      BY <1>0, FS_AddElement
    <3> QED
      BY <1>0, <2>1, <3>1, <3>2, FS_CardinalityType
  <2> QED
    BY <2>1, <2>2, <1>0, <1>1 DEF WithinConcurrency, Concurrency
<1>4. running' \subseteq running \/ \E i \in Items : Start(i)
  BY DEF Next, vars, Call, CloseAdmission, JoinOk, OnCompletedOk, OnCompletedErr, JoinErr,
         JoinPanic, Drain, Aborted, Return, Exit
<1> QED
  BY <1>2, <1>3, <1>4

(***************************************************************************)
(* max_concurrency (at least one) bounds the tasks in flight.              *)
(***************************************************************************)
THEOREM SchedulerWithinConcurrency == Spec => []WithinConcurrency
<1>1. Init => WithinConcurrency
  BY FS_EmptySet, SchedulerAssumption DEF Init, WithinConcurrency, Concurrency
<1>2. TypeOK /\ WithinConcurrency /\ [Next]_vars => WithinConcurrency'
  BY NextWithinConcurrency
<1> QED
  BY <1>1, <1>2, SchedulerTypeOK, PTL DEF Spec

(* The positions that wait or run are finitely many. *)
LEMMA WorkIsFinite ==
  ASSUME TypeOK
  PROVE  /\ IsFiniteSet(pending) /\ Cardinality(pending) \in Nat
         /\ IsFiniteSet(running) /\ Cardinality(running) \in Nat
<1>1. keysFor \in Seq(SUBSET Keys) /\ pending \subseteq DOMAIN keysFor
  BY DEF TypeOK, Items
<1>2. DOMAIN keysFor = 1 .. Len(keysFor) /\ Len(keysFor) \in Nat
  BY <1>1
<1>3. IsFiniteSet(1 .. Len(keysFor))
  BY <1>2, FS_Interval
<1>4. IsFiniteSet(pending)
  BY <1>1, <1>2, <1>3, FS_Subset
<1> QED
  BY <1>4, RunningFinite, FS_CardinalityType

(* What one task that leaves, or one item that is started, takes away. *)
LEMMA OneLess ==
  ASSUME NEW S, IsFiniteSet(S), NEW i \in S
  PROVE  Cardinality(S \ {i}) = Cardinality(S) - 1 /\ Cardinality(S \ {i}) \in Nat
<1>1. IsFiniteSet(S \ {i}) /\ Cardinality(S \ {i}) = Cardinality(S) - 1
  BY FS_RemoveElement
<1> QED
  BY <1>1, FS_CardinalityType

\* What lies ahead of a call in which p items wait and r run.
Costs(p, r, callback, open) ==
  3 * p + 2 * r + (IF callback = 0 THEN 0 ELSE 1) + (IF open THEN 1 ELSE 0) + 1

(* Every step of a call lowers what is ahead of it. *)
LEMMA NextShrinks ==
  ASSUME IInv, Next, phase \notin Returned
  PROVE  Ahead' < Ahead
<1> DEFINE p == Cardinality(pending)
           r == Cardinality(running)
<1>1. /\ p \in Nat /\ IsFiniteSet(pending) /\ r \in Nat /\ IsFiniteSet(running)
      /\ admit \in BOOLEAN /\ phase \in {"running", "aborting"}
  BY WorkIsFinite DEF IInv, TypeOK, Phases, Returned
<1>2. Ahead = Costs(p, r, joined, admit) /\ Ahead > 0 /\ Ahead \in Nat
  BY <1>1 DEF Ahead, Costs
<1>3. ASSUME phase' \in Returned PROVE Ahead' < Ahead
  BY <1>2, <1>3 DEF Ahead
<1>4. ASSUME phase' \notin Returned, NEW q \in Nat, NEW s \in Nat,
             Cardinality(pending') = q, Cardinality(running') = s,
             Costs(q, s, joined', admit') < Costs(p, r, joined, admit)
      PROVE  Ahead' < Ahead
  BY <1>2, <1>4 DEF Ahead, Costs
<1>5. \A i \in Items : i # 0
  BY ItemsPositive DEF IInv
<1>6. ASSUME NEW i \in Items, Start(i) PROVE Ahead' < Ahead
  <2>1. i \in pending /\ i \notin running
    BY <1>6 DEF Start, IInv, StartedOnce
  <2>2. Cardinality(pending') = p - 1 /\ p - 1 \in Nat
    BY <1>1, <1>6, <2>1, OneLess DEF Start
  <2>3. Cardinality(running') = r + 1
    BY <1>1, <1>6, <2>1, FS_AddElement DEF Start
  <2>4. phase' \notin Returned /\ UNCHANGED <<joined, admit>>
    BY <1>6 DEF Start
  <2> HIDE DEF p, r
  <2>5. Costs(p - 1, r + 1, joined', admit') < Costs(p, r, joined, admit)
    BY <1>1, <2>4 DEF Costs
  <2> QED
    BY <1>1, <1>4, <2>2, <2>3, <2>4, <2>5
<1>7. ASSUME UNCHANGED pending, phase' \notin Returned, UNCHANGED admit,
             NEW i \in running, running' = running \ {i}, joined' \in {joined, i}, i # 0
      PROVE  Ahead' < Ahead
  <2>1. Cardinality(running') = r - 1 /\ r - 1 \in Nat
    BY <1>1, <1>7, OneLess
  <2>2. Cardinality(pending') = p
    BY <1>7
  <2> HIDE DEF p, r
  <2>3. Costs(p, r - 1, joined', admit') < Costs(p, r, joined, admit)
    BY <1>1, <1>7 DEF Costs
  <2> QED
    BY <1>1, <1>4, <1>7, <2>1, <2>2, <2>3
<1>8. ASSUME UNCHANGED <<pending, running>>, phase' \notin Returned,
             \/ joined' = joined /\ admit /\ ~admit'
             \/ joined # 0 /\ joined' = 0 /\ admit' = admit
      PROVE  Ahead' < Ahead
  <2>1. Cardinality(pending') = p /\ Cardinality(running') = r
    BY <1>8
  <2> HIDE DEF p, r
  <2>2. Costs(p, r, joined', admit') < Costs(p, r, joined, admit)
    BY <1>1, <1>8 DEF Costs
  <2> QED
    BY <1>1, <1>4, <1>8, <2>1, <2>2
<1>9. ASSUME NEW i \in Items, JoinOk(i) \/ JoinErr(i) \/ JoinPanic(i) \/ Drain(i)
      PROVE  Ahead' < Ahead
  BY <1>1, <1>5, <1>7, <1>9 DEF JoinOk, JoinErr, JoinPanic, Drain, AtJoin, AtLoop, Returned
<1>10. CASE CloseAdmission \/ OnCompletedOk \/ OnCompletedErr
  <2>1. phase' \notin Returned
    BY <1>1, <1>10 DEF CloseAdmission, OnCompletedOk, OnCompletedErr, Returned
  <2> QED
    BY <1>8, <1>10, <2>1 DEF CloseAdmission, OnCompletedOk, OnCompletedErr
<1>11. CASE Aborted \/ Return \/ Exit
  BY <1>3, <1>11 DEF Aborted, Return, Exit, Returned
<1>12. ASSUME NEW q \in Queues, NEW open \in BOOLEAN, Call(q, open) PROVE FALSE
  BY <1>12 DEF Call
<1> QED
  BY <1>6, <1>9, <1>10, <1>11, <1>12 DEF Next

(***************************************************************************)
(* Every step of a call brings its return nearer, for every queue and      *)
(* concurrency (the loop of run_bounded_review_tasks_keyed_until).         *)
(***************************************************************************)
THEOREM SchedulerCallShrinks == Spec => CallShrinks
<1>1. IInv /\ [Next]_vars => [phase \notin Returned => Ahead' < Ahead]_vars
  BY NextShrinks
<1> QED
  BY <1>1, SchedulerInvariant, PTL DEF Spec, CallShrinks
=============================================================================
