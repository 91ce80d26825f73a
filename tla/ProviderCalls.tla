---------------------------- MODULE ProviderCalls ----------------------------
(***************************************************************************)
(* Calls of the model provider (execute_call of llm_call_state.rs) that    *)
(* share the permits of one client: a call waits its turn, then makes one  *)
(* attempt after the other until an answer is usable, an error is fatal,   *)
(* the attempts or the repairs of the response format are used up, or the  *)
(* time it may take is over.  The provider answers in any way, at any time *)
(* or never; a watchdog ends an attempt that stays unanswered.             *)
(*                                                                         *)
(* Time passes in ticks, and never past a timer that is due: what the code *)
(* computes between two timers takes no time.                              *)
(***************************************************************************)
EXTENDS Naturals, Sequences, FiniteSets, SequencesExt

CONSTANTS
  Calls,           \* the calls, each in a task of its own
  Permits,         \* LLMClient::max_concurrency
  MaxAttempts,     \* SNIFF_LLM_MAX_ATTEMPTS
  MaxSamePrompt,   \* SNIFF_LLM_SAME_PROMPT_RETRIES
  MaxRepairs,      \* SNIFF_LLM_MAX_FORMAT_REPAIRS, 1 for batches
  AttemptTimeout,  \* SNIFF_LLM_ATTEMPT_TIMEOUT_SECS, in ticks
  RetryBudget,     \* SNIFF_LLM_RETRY_BUDGET_SECS, in ticks
  MaxBackOff,      \* the longest pause between two attempts, in ticks
  WordBits         \* the width of the shift that doubles the pause, 64

ASSUME CallsAssumption ==
  /\ IsFiniteSet(Calls)
  /\ Permits \in Nat \ {0} /\ MaxAttempts \in Nat \ {0}
  /\ MaxSamePrompt \in Nat /\ MaxRepairs \in Nat
  /\ AttemptTimeout \in Nat \ {0} /\ RetryBudget \in Nat \ {0} /\ MaxBackOff \in Nat \ {0}
  /\ WordBits \in Nat \ {0}

VARIABLES
  call,     \* the state of every call
  queue,    \* the calls that wait for a permit, in the order they came
  permits   \* the permits nobody holds

vars == <<call, queue, permits>>

\* What try_call_raw comes back with: an object of the wanted shape, one of
\* another shape, text without an object, an answer without text, a body that
\* breaks off, a transport error or a status worth a retry, any other status.
Answers ==
  {"usable", "wrongSchema", "noObject", "empty", "cutShort", "transport", "fatal"}

\* The answers whose tokens reach the call.  Those of an answer without text are
\* computed as well, and dropped: try_call_raw then returns an error.
Charged == {"usable", "wrongSchema", "noObject"}

\* retry_same_prompt_without_repair.
WorthTheSamePrompt == {"noObject", "empty", "cutShort"}

NewCall ==
  [pc |-> "new", age |-> 0, timer |-> 0, attempts |-> 0, same |-> 0, repairs |-> 0,
   tokens |-> 0, result |-> "none", returned |-> 0, failed |-> 0,
   received |-> 0,   \* history: the tokens of the answers that came in time
   empty |-> 0]      \* history: those of them that came without text

Init ==
  /\ call = [c \in Calls |-> NewCall]
  /\ queue = << >>
  /\ permits = Permits

\* The remaining duration is zero.
OutOfTime(c) == call[c].age >= RetryBudget

Is(c, pc) == call[c].pc = pc

\* min(30, 1 << (attempt - 1)).  The shift wraps in a release build, so that
\* the pauses start over; in a debug build it panics, which is an Abort.
BackOff(n) ==
  LET doubled == 2 ^ ((n - 1) % WordBits)
  IN  IF doubled \in 1..MaxBackOff THEN doubled ELSE MaxBackOff

-----------------------------------------------------------------------------
(* The end of a call, in whatever way: its permit is dropped.              *)

Done(c, r, returned, failed, charge, empty) ==
  [pc |-> "done", age |-> 0, timer |-> 0, attempts |-> 0, same |-> 0, repairs |-> 0,
   tokens |-> 0, result |-> r, returned |-> returned, failed |-> failed,
   received |-> call[c].received + charge + empty, empty |-> call[c].empty + empty]

Succeed(c) ==
  /\ call' = [call EXCEPT ![c] = Done(c, "answer", call[c].tokens + 1, 0, 1, 0)]
  /\ permits' = permits + 1

\* *Mutant*: the tokens of the attempts are forgotten with the call.
FailUnrecorded(c, r, charge, empty) ==
  /\ call' = [call EXCEPT ![c] = Done(c, r, 0, 0, charge, empty)]
  /\ permits' = permits + 1

\* record_failed_usage, then the error.
Fail(c, r, charge, empty) ==
  /\ call' = [call EXCEPT ![c] = Done(c, r, 0, call[c].tokens + charge, charge, empty)]
  /\ permits' = permits + 1

-----------------------------------------------------------------------------
\* The retry budget runs from here, and not from the permit.
MakeCall(c) ==
  /\ Is(c, "new")
  /\ call' = [call EXCEPT ![c].pc = "waiting"]
  /\ queue' = Append(queue, c)
  /\ UNCHANGED permits

\* A prompt above the limit, or a client without a key: nothing is asked.
RefuseCall(c) ==
  /\ Is(c, "new")
  /\ call' = [call EXCEPT ![c] = Done(c, "refused", 0, 0, 0, 0)]
  /\ UNCHANGED <<queue, permits>>

\* The permits of a tokio semaphore are given out in the order of the calls.
AcquirePermit(c) ==
  /\ Is(c, "waiting")
  /\ queue # << >> /\ Head(queue) = c
  /\ permits > 0
  /\ permits' = permits - 1
  /\ queue' = Tail(queue)
  /\ call' = [call EXCEPT ![c].pc = "loop"]

\* *Mutant*: one attempt more than the bound.
BeginAttemptMore(c) ==
  /\ Is(c, "loop")
  /\ call[c].attempts <= MaxAttempts
  /\ ~OutOfTime(c)
  /\ call' = [call EXCEPT ![c].pc = "asked", ![c].attempts = @ + 1,
                          ![c].timer = AttemptTimeout]
  /\ UNCHANGED <<queue, permits>>

BeginAttempt(c) ==
  /\ Is(c, "loop")
  /\ call[c].attempts < MaxAttempts
  /\ ~OutOfTime(c)
  /\ call' = [call EXCEPT ![c].pc = "asked", ![c].attempts = @ + 1,
                          ![c].timer = AttemptTimeout]
  /\ UNCHANGED <<queue, permits>>

\* The loop ends without an answer.
GiveUp(c) ==
  /\ Is(c, "loop")
  /\ \/ call[c].attempts >= MaxAttempts /\ Fail(c, "attempts", 0, 0)
     \/ /\ call[c].attempts < MaxAttempts /\ OutOfTime(c)
        /\ Fail(c, "time", 0, 0)
  /\ UNCHANGED queue

\* SleepThenRetry: the last attempt is not followed by a pause.
Pause(c) ==
  call' = IF call[c].attempts < MaxAttempts
            THEN [call EXCEPT ![c].pc = "asleep", ![c].timer = BackOff(call[c].attempts)]
            ELSE [call EXCEPT ![c].pc = "loop", ![c].timer = 0]

\* classify_attempt and apply_outcome, up to the next await.
TakeAnswer(c, a) ==
  LET charge == IF a \in Charged THEN 1 ELSE 0
      empty == IF a = "empty" THEN 1 ELSE 0
      again == a \in WorthTheSamePrompt /\ call[c].same < MaxSamePrompt
      repair == a = "wrongSchema" \/ (a \in WorthTheSamePrompt /\ ~again)
  IN  /\ Is(c, "asked")
      /\ \/ a = "usable" /\ Succeed(c)
         \/ a = "fatal" /\ Fail(c, "fatal", 0, 0)
         \/ a = "transport" /\ Pause(c) /\ UNCHANGED permits
         \/ /\ again
            /\ call' = [call EXCEPT ![c].pc = "loop", ![c].timer = 0, ![c].same = @ + 1,
                          ![c].tokens = @ + charge, ![c].received = @ + charge + empty,
                          ![c].empty = @ + empty]
            /\ UNCHANGED permits
         \/ /\ repair /\ call[c].repairs < MaxRepairs
            /\ call' = [call EXCEPT ![c].pc = "loop", ![c].timer = 0, ![c].same = 0,
                          ![c].repairs = @ + 1,
                          ![c].tokens = @ + charge, ![c].received = @ + charge + empty,
                          ![c].empty = @ + empty]
            /\ UNCHANGED permits
         \/ /\ repair /\ call[c].repairs >= MaxRepairs
            /\ Fail(c, "format", charge, empty)
      /\ UNCHANGED queue

\* *Mutant*: the watchdog asks again, within the same attempt.
WatchdogAsksAgain(c) ==
  /\ Is(c, "asked") /\ call[c].timer = 0
  /\ call' = [call EXCEPT ![c].timer = AttemptTimeout]
  /\ UNCHANGED <<queue, permits>>

\* An unanswered attempt is a transport error.
WatchdogExpires(c) ==
  /\ Is(c, "asked") /\ call[c].timer = 0
  /\ Pause(c)
  /\ UNCHANGED <<queue, permits>>

WakeUp(c) ==
  /\ Is(c, "asleep") /\ call[c].timer = 0
  /\ call' = [call EXCEPT ![c].pc = "loop"]
  /\ UNCHANGED <<queue, permits>>

\* *Mutant*: the budget is only looked at between two attempts.
OverdueBetween(c) == FALSE

\* The timeout around run_call_attempt covers the request and the pause.
Overdue(c) == call[c].pc \in {"asked", "asleep"} /\ OutOfTime(c)

BudgetExpires(c) ==
  /\ Overdue(c)
  /\ Fail(c, "time", 0, 0)
  /\ UNCHANGED queue

\* The place of a call in the queue, if it has one, goes to those behind it.
LeaveQueue(c) ==
  IF Is(c, "waiting")
    THEN \E i \in 1..Len(queue) : queue[i] = c /\ queue' = RemoveAt(queue, i)
    ELSE UNCHANGED queue

\* *Mutant*: a call that is aborted keeps its place.
AbortQueued(c) ==
  /\ call[c].pc \in {"waiting", "asked", "asleep"}
  /\ call' = [call EXCEPT ![c] = Done(c, "aborted", 0, 0, 0, 0)]
  /\ permits' = IF Is(c, "waiting") THEN permits ELSE permits + 1
  /\ UNCHANGED queue

\* *Mutant*: a call that is aborted keeps its permit.
AbortHolding(c) ==
  /\ call[c].pc \in {"waiting", "asked", "asleep"}
  /\ call' = [call EXCEPT ![c] = Done(c, "aborted", 0, 0, 0, 0)]
  /\ LeaveQueue(c)
  /\ UNCHANGED permits

\* abort_and_drain drops the task at the await it is at, or a panic unwinds
\* it: its permit or its place in the queue goes with it.
Abort(c) ==
  /\ call[c].pc \in {"waiting", "asked", "asleep"}
  /\ call' = [call EXCEPT ![c] = Done(c, "aborted", 0, 0, 0, 0)]
  /\ LeaveQueue(c)
  /\ permits' = IF Is(c, "waiting") THEN permits ELSE permits + 1

\* A timer that is due, or code that can run.
Urgent(c) ==
  \/ Is(c, "loop") \/ Overdue(c)
  \/ call[c].pc \in {"asked", "asleep"} /\ call[c].timer = 0
  \/ queue # << >> /\ Head(queue) = c /\ permits > 0

Pending(c) == call[c].pc \notin {"new", "done"}

Tick ==
  /\ \E c \in Calls : Pending(c)
  /\ \A c \in Calls : ~Urgent(c)
  /\ call' = [c \in Calls |->
       IF Pending(c)
         THEN [call[c] EXCEPT !.timer = IF @ = 0 THEN 0 ELSE @ - 1,
                              !.age = IF @ > RetryBudget THEN @ ELSE @ + 1]
         ELSE call[c]]
  /\ UNCHANGED <<queue, permits>>

\* What the client does by itself.
Run(c) ==
  \/ AcquirePermit(c) \/ BeginAttempt(c) \/ GiveUp(c)
  \/ WatchdogExpires(c) \/ WakeUp(c) \/ BudgetExpires(c)

Next ==
  \/ Tick
  \/ \E c \in Calls :
       \/ MakeCall(c) \/ RefuseCall(c) \/ Run(c) \/ Abort(c)
       \/ \E a \in Answers : TakeAnswer(c, a)

Fairness == WF_vars(Tick) /\ \A c \in Calls : WF_vars(Run(c))

Spec == Init /\ [][Next]_vars /\ Fairness

-----------------------------------------------------------------------------
\* The type of the state, with the bounds of every budget: attempts, retries
\* of one prompt and repairs (CallState).
TypeOK ==
  /\ \A c \in Calls :
       /\ call[c].pc \in {"new", "waiting", "loop", "asked", "asleep", "done"}
       /\ call[c].result \in {"none", "answer", "format", "fatal", "attempts", "time",
                             "aborted", "refused"}
       /\ call[c].timer \in (0..AttemptTimeout) \cup (0..MaxBackOff)
       /\ call[c].attempts \in 0..MaxAttempts
       /\ call[c].same \in 0..MaxSamePrompt
       /\ call[c].repairs \in 0..MaxRepairs
       /\ {call[c].tokens, call[c].returned, call[c].failed, call[c].received, call[c].empty}
            \subseteq 0..MaxAttempts
       /\ call[c].age \in 0..(RetryBudget + 1)
  /\ queue \in Seq(Calls)
  /\ permits \in 0..Permits

\* What becomes of the tokens of the answers that came in time (execute_call).
\* A call that ends by itself hands them on once, with the result or as failed
\* usage, however many attempts, repairs and pauses came before and whatever
\* ends it; nothing but the tokens of answers without text is missing, which
\* try_call_raw drops with the error it returns.  An aborted call hands on
\* nothing, whatever it had received.
UsageIsKept ==
  \A c \in Calls :
    Is(c, "done") =>
      call[c].returned + call[c].failed =
        IF call[c].result = "aborted" THEN 0 ELSE call[c].received - call[c].empty

\* A call does not hold its permit past its retry budget, in the middle of an
\* attempt or of a pause just as little as between two of them, and the wait
\* for the permit counts (the timeout around run_call_attempt).
PermitHeldWithinBudget ==
  \A c \in Calls :
    call[c].pc \in {"asked", "asleep"} => call[c].age <= RetryBudget

\* The calls that hold a permit.
Holders == {c \in Calls : call[c].pc \in {"loop", "asked", "asleep"}}

\* Those who wait stand in the queue, each once, and nobody else does: a call
\* that ended there would take the turn of all behind it, and one that lost
\* its place would never be asked.  No permit is lost or made, whatever ends a
\* call (the SemaphorePermit of acquire_call_permit).
TurnsAreKept ==
  /\ \A c \in Calls : Is(c, "waiting") <=> \E i \in 1..Len(queue) : queue[i] = c
  /\ \A i, j \in 1..Len(queue) : queue[i] = queue[j] => i = j
  /\ permits + Cardinality(Holders) = Permits

\* How far a call is from its end: the ticks it may still see, three steps for
\* every attempt it has left, and those of the attempt it is in.
Left(c) ==
  IF Is(c, "done") THEN 0
  ELSE (RetryBudget + 1 - call[c].age) + 3 * (MaxAttempts - call[c].attempts)
       + CASE Is(c, "new") -> 3 [] Is(c, "waiting") -> 2 [] Is(c, "loop") -> 1
           [] Is(c, "asleep") -> 2 [] Is(c, "asked") -> 3

\* Every step brings a call nearer to its end and takes none away from its
\* own, and time passes only while it runs out for somebody.  Whatever the
\* provider answers, and however attempts, retries of one prompt, repairs,
\* pauses and the wait for a permit follow each other, the calls can only go
\* on for so long (the loop of execute_call).
EveryStepCounts ==
  [][/\ \A c \in Calls : Left(c)' <= Left(c)
     /\ \E c \in Calls : Left(c)' < Left(c)]_vars

\* Every call that is made ends, also behind calls that hold all permits, are
\* never answered or are aborted.
CallsEnd == \A c \in Calls : Is(c, "waiting") ~> Is(c, "done")
=============================================================================
