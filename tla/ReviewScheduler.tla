--------------------------- MODULE ReviewScheduler ---------------------------
(***************************************************************************)
(* The bounded, keyed task scheduler of the review engine:                 *)
(* run_bounded_review_tasks_keyed_until (src/src/analyzer_engine_jobs.rs). *)
(* One call takes a queue of work items, each with a set of keys (the      *)
(* files it touches), and runs them as tokio tasks: at most MaxConcurrency *)
(* at once, never two that share a key, first eligible item first, and     *)
(* only while the caller's can_start() answers true.  What a task does is  *)
(* left open here: it may succeed, return an error or panic, in any order. *)
(*                                                                         *)
(* An item is identified by its position in the queue it was submitted     *)
(* in; the queue only ever shrinks by removal, so a set of positions with  *)
(* "least eligible position first" is the code's VecDeque.                 *)
(***************************************************************************)
EXTENDS Naturals, Sequences, FiniteSets

CONSTANTS
  Keys,            \* what items may claim exclusively: file paths
  MaxConcurrency,  \* the configured concurrency; 0 is taken as 1
  Queues           \* the queues a caller may submit: Seq(SUBSET Keys)

ASSUME SchedulerAssumption ==
  /\ MaxConcurrency \in Nat
  /\ Queues \subseteq Seq(SUBSET Keys)

VARIABLES
  keysFor,     \* keys_for of every item of the submitted queue
  pending,     \* positions still in the VecDeque
  running,     \* positions whose task is in the JoinSet
  activeKeys,  \* active_keys
  joined,      \* the position whose on_completed callback is running, or 0
  completed,   \* positions pushed on `completed`
  firstError,  \* first_error.is_some()
  admit,       \* what can_start() answers
  phase        \* where the call is, and how it returned

vars == <<keysFor, pending, running, activeKeys, joined, completed,
          firstError, admit, phase>>

Phases   == {"idle", "running", "aborting", "ok", "early", "err"}
Returned == {"idle", "ok", "early", "err"}

Items == DOMAIN keysFor

\* max_concurrency.max(1)
Concurrency == IF MaxConcurrency = 0 THEN 1 ELSE MaxConcurrency

\* keys_for(item).iter().all(|key| !active_keys.contains(key))
Eligible(i) == keysFor[i] \cap activeKeys = {}

\* The fill loop has something to do: `while first_error.is_none() && ...`
CanFill ==
  /\ ~firstError
  /\ Cardinality(running) < Concurrency
  /\ admit
  /\ \E i \in pending : Eligible(i)

Init ==
  /\ keysFor = << >> /\ pending = {} /\ running = {} /\ completed = {}
  /\ activeKeys = {} /\ joined = 0 /\ firstError = FALSE /\ admit = TRUE
  /\ phase = "idle"

(***************************************************************************)
(* The call itself: a fresh JoinSet, no active keys, no error.             *)
(***************************************************************************)
Call(q, open) ==
  /\ phase \in Returned
  /\ keysFor' = q /\ pending' = DOMAIN q
  /\ running' = {} /\ activeKeys' = {} /\ completed' = {}
  /\ joined' = 0 /\ firstError' = FALSE /\ admit' = open
  /\ phase' = "running"

\* The scheduler's own thread is at the head of `loop`, not in a callback.
AtLoop == phase = "running" /\ joined = 0

Start(i) ==
  /\ AtLoop /\ CanFill
  /\ i \in pending /\ Eligible(i)
  /\ \A j \in pending : j < i => ~Eligible(j)
  /\ pending' = pending \ {i}
  /\ running' = running \cup {i}
  /\ activeKeys' = activeKeys \cup keysFor[i]
  /\ UNCHANGED <<keysFor, joined, completed, firstError, admit, phase>>

\* can_start() turned false: the spend reached the limit.  It never turns
\* true again within a call, because spend only grows.
CloseAdmission ==
  /\ phase \in {"running", "aborting"} /\ admit
  /\ admit' = FALSE
  /\ UNCHANGED <<keysFor, pending, running, activeKeys, joined, completed,
                 firstError, phase>>

\* tasks.join_next() is only awaited once the fill loop has stopped.
AtJoin(i) == AtLoop /\ ~CanFill /\ i \in running

\* Mutant: the keys of every task are released, not the joined one's.
JoinOkReleasesAll(i) ==
  /\ AtJoin(i)
  /\ running' = running \ {i}
  /\ activeKeys' = {}
  /\ joined' = i
  /\ UNCHANGED <<keysFor, pending, completed, firstError, admit, phase>>

\* Mutant: a successful task's keys are never released.
JoinOkKeepsKeys(i) ==
  /\ AtJoin(i)
  /\ running' = running \ {i}
  /\ joined' = i
  /\ UNCHANGED <<keysFor, pending, activeKeys, completed, firstError, admit, phase>>

JoinOk(i) ==
  /\ AtJoin(i)
  /\ running' = running \ {i}
  /\ activeKeys' = activeKeys \ keysFor[i]
  /\ joined' = i
  /\ UNCHANGED <<keysFor, pending, completed, firstError, admit, phase>>

OnCompletedOk ==
  /\ phase = "running" /\ joined # 0
  /\ completed' = completed \cup {joined}
  /\ joined' = 0
  /\ UNCHANGED <<keysFor, pending, running, activeKeys, firstError, admit, phase>>

\* on_completed failed: abort_and_drain, then return the callback's error.
OnCompletedErr ==
  /\ phase = "running" /\ joined # 0
  /\ joined' = 0
  /\ phase' = "aborting"
  /\ UNCHANGED <<keysFor, pending, running, activeKeys, completed, firstError, admit>>

\* Mutant: the task's error is dropped.
JoinErrSwallowed(i) ==
  /\ AtJoin(i)
  /\ running' = running \ {i}
  /\ activeKeys' = activeKeys \ keysFor[i]
  /\ UNCHANGED <<keysFor, pending, joined, completed, firstError, admit, phase>>

\* Mutant: a task that failed goes back into the queue.
JoinErrRequeued(i) ==
  /\ AtJoin(i)
  /\ running' = running \ {i}
  /\ activeKeys' = activeKeys \ keysFor[i]
  /\ pending' = pending \cup {i}
  /\ UNCHANGED <<keysFor, joined, completed, firstError, admit, phase>>

JoinErr(i) ==
  /\ AtJoin(i)
  /\ running' = running \ {i}
  /\ activeKeys' = activeKeys \ keysFor[i]
  /\ firstError' = TRUE
  /\ UNCHANGED <<keysFor, pending, joined, completed, admit, phase>>

\* A JoinError carries no keys: the task's claim is never released.
JoinPanic(i) ==
  /\ AtJoin(i)
  /\ running' = running \ {i}
  /\ firstError' = TRUE
  /\ UNCHANGED <<keysFor, pending, activeKeys, joined, completed, admit, phase>>

Drain(i) ==
  /\ phase = "aborting" /\ i \in running
  /\ running' = running \ {i}
  /\ UNCHANGED <<keysFor, pending, activeKeys, joined, completed, firstError,
                 admit, phase>>

Aborted ==
  /\ phase = "aborting" /\ running = {}
  /\ phase' = "err"
  /\ UNCHANGED <<keysFor, pending, running, activeKeys, joined, completed,
                 firstError, admit>>

\* Mutant: the loop only ends with an empty queue.
ReturnWhenEmpty ==
  /\ AtLoop /\ running = {} /\ pending = {}
  /\ phase' = IF firstError THEN "err" ELSE "ok"
  /\ UNCHANGED <<keysFor, pending, running, activeKeys, joined, completed,
                 firstError, admit>>

Return ==
  /\ AtLoop /\ ~CanFill /\ running = {}
  /\ phase' = CASE firstError -> "err"
                [] ~firstError /\ pending # {} -> "early"
                [] OTHER -> "ok"
  /\ UNCHANGED <<keysFor, pending, running, activeKeys, joined, completed,
                 firstError, admit>>

\* The process dies, and every task and the scheduler with it.
Exit ==
  /\ phase # "idle"
  /\ keysFor' = << >> /\ pending' = {} /\ running' = {} /\ completed' = {}
  /\ activeKeys' = {} /\ joined' = 0 /\ firstError' = FALSE /\ admit' = TRUE
  /\ phase' = "idle"

Next ==
  \/ \E q \in Queues, open \in BOOLEAN : Call(q, open)
  \/ \E i \in Items : Start(i)
  \/ CloseAdmission
  \/ \E i \in Items : JoinOk(i)
  \/ OnCompletedOk
  \/ OnCompletedErr
  \/ \E i \in Items : JoinErr(i)
  \/ \E i \in Items : JoinPanic(i)
  \/ \E i \in Items : Drain(i)
  \/ Aborted
  \/ Return
  \/ Exit

Spec == Init /\ [][Next]_vars

(***************************************************************************)
(* Fairness: tokio polls the scheduler's future and every review future    *)
(* ends (each provider attempt has a timeout and each call a deadline).    *)
(***************************************************************************)
Progress ==
  \/ \E i \in Items : Start(i)
  \/ \E i \in Items : JoinOk(i) \/ JoinErr(i) \/ JoinPanic(i) \/ Drain(i)
  \/ OnCompletedOk \/ OnCompletedErr \/ Aborted \/ Return

FairSpec == Spec /\ WF_vars(Progress)
-----------------------------------------------------------------------------
TypeOK ==
  /\ keysFor \in Seq(SUBSET Keys)
  /\ pending \subseteq Items /\ running \subseteq Items /\ completed \subseteq Items
  /\ activeKeys \subseteq Keys
  /\ joined \in Items \cup {0}
  /\ firstError \in BOOLEAN /\ admit \in BOOLEAN
  /\ phase \in Phases

(***************************************************************************)
(* Two tasks in flight never share a key.  The claim is made at start and  *)
(* dropped at join, on three different paths, one of which (a panicked     *)
(* task) drops nothing: no order of them may let two reviews of the same   *)
(* file run at once.                                                       *)
(***************************************************************************)
KeyExclusion ==
  \A i, j \in running : i # j => keysFor[i] \cap keysFor[j] = {}

(***************************************************************************)
(* Nothing is dropped: a call that returns Ok leaves every submitted item  *)
(* either completed or still pending, and a call that does not stop early  *)
(* has completed them all.                                                 *)
(***************************************************************************)
NothingLost ==
  /\ phase \in {"ok", "early"} => completed \cup pending = Items
  /\ phase = "ok" => completed = Items

(***************************************************************************)
(* stopped_early implies the budget refused admission: the caller unwraps  *)
(* budget.limit_usd with expect("early stop requires a budget"), so any    *)
(* other way to stop early would panic.                                    *)
(***************************************************************************)
EarlyStopNeedsBudget == phase = "early" => ~admit

(***************************************************************************)
(* No more than the configured number of tasks is ever in flight.          *)
(***************************************************************************)
WithinConcurrency == Cardinality(running) <= Concurrency

(***************************************************************************)
(* What a call has ahead of it: three steps of every item that is not      *)
(* started, two of every task in flight, a callback, the budget, the end.  *)
(***************************************************************************)
Ahead ==
  IF phase \in Returned THEN 0
  ELSE 3 * Cardinality(pending) + 2 * Cardinality(running)
       + (IF joined = 0 THEN 0 ELSE 1) + (IF admit THEN 1 ELSE 0) + 1

(***************************************************************************)
(* Every step of a call brings its return nearer: however tasks succeed,   *)
(* fail, panic or are drained, no item comes back to the queue, no task    *)
(* is joined twice and no callback runs again.                             *)
(***************************************************************************)
CallShrinks == [][phase \notin Returned => Ahead' < Ahead]_vars

(***************************************************************************)
(* A call always returns (unless the process dies): the keys never leave   *)
(* everyone waiting on everyone.                                           *)
(***************************************************************************)
CallReturns == phase = "running" ~> phase \in Returned

(***************************************************************************)
(* Completed, running, joined and pending are disjoint: an item is started *)
(* once and pushed once.                                                   *)
(***************************************************************************)
StartedOnce ==
  /\ pending \cap (running \cup completed \cup {joined}) = {}
  /\ running \cap (completed \cup {joined}) = {}
  /\ joined \notin completed
=============================================================================
