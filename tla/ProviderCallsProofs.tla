------------------------- MODULE ProviderCallsProofs -------------------------
(***************************************************************************)
(* What a call owes at its end, and how long it may hold a permit, for     *)
(* every number of calls, permits, attempts and ticks.                     *)
(***************************************************************************)
EXTENDS ProviderCalls, FiniteSetTheorems, SequenceTheorems, TLAPS

\* The states of a call whose timer shows t.
CallStates(t) ==
  [pc : {"new", "waiting", "loop", "asked", "asleep", "done"},
   age : Nat, timer : {t}, attempts : Nat, same : Nat, repairs : Nat, tokens : Nat,
   result : {"none", "answer", "format", "fatal", "attempts", "time", "aborted", "refused"},
   returned : Nat, failed : Nat, received : Nat, empty : Nat]

\* The books of one call: what it received, but for the answers without text,
\* is in its token count until it ends, and with the result or with the failed
\* usage from then on.
Balanced(s) ==
  IF s.pc = "done"
    THEN IF s.result = "aborted" THEN s.returned = 0 /\ s.failed = 0 /\ s.empty <= s.received
                                 ELSE s.returned + s.failed + s.empty = s.received
    ELSE s.tokens + s.empty = s.received /\ (s.pc = "new" => s.received = 0)

InTime(s) == s.pc \in {"asked", "asleep"} => s.age <= RetryBudget

\* The bounds of the budgets.  What is received is bounded by the attempts made
\* so far, of which the one on its way has brought nothing yet.
Bounded(s) ==
  /\ s.age <= RetryBudget + 1
  /\ s.timer \in (0..AttemptTimeout) \cup (0..MaxBackOff)
  /\ s.attempts <= MaxAttempts /\ s.same <= MaxSamePrompt /\ s.repairs <= MaxRepairs
  /\ s.received <= MaxAttempts
  /\ IF s.pc = "done"
       THEN s.tokens = 0 /\ s.returned <= MaxAttempts /\ s.failed <= MaxAttempts
       ELSE s.received <= s.attempts /\ s.returned = 0 /\ s.failed = 0
  /\ s.pc = "asked" => s.received < s.attempts

Good(s) == s \in CallStates(s.timer) /\ Balanced(s) /\ InTime(s) /\ Bounded(s)

\* The books and the clock can be followed one call at a time.
IInv ==
  /\ call = [c \in Calls |-> call[c]]
  /\ \A c \in Calls : Good(call[c])

\* What a step of one call does to the others.
Others(c) == /\ call' = [d \in Calls |-> call'[d]]
             /\ \A d \in Calls \ {c} : call'[d] = call[d]

-----------------------------------------------------------------------------
\* A call that is done is good when its tokens were handed on.
LEMMA DoneIsGood ==
  ASSUME CallsAssumption, NEW c \in Calls, Good(call[c]),
         NEW r \in {"answer", "format", "fatal", "attempts", "time", "aborted", "refused"},
         NEW returned \in Nat, NEW failed \in Nat, NEW x \in {0, 1}, NEW z \in {0, 1},
         r # "aborted" => returned + failed + call[c].empty = call[c].received + x,
         r = "aborted" => returned = 0 /\ failed = 0 /\ call[c].empty <= call[c].received,
         call[c].received + x + z <= MaxAttempts
  PROVE  Good(Done(c, r, returned, failed, x, z))
<1> DEFINE s == Done(c, r, returned, failed, x, z)
           received == call[c].received + x + z
           empty == call[c].empty + z
<1>1. /\ received \in Nat /\ empty \in Nat /\ received <= MaxAttempts
      /\ IF r = "aborted" THEN returned = 0 /\ failed = 0 /\ empty <= received
                          ELSE returned + failed + empty = received
  BY DEF Good, CallStates
<1> HIDE DEF received, empty
<1>2. /\ s \in CallStates(0)
      /\ s.pc = "done" /\ s.result = r
      /\ s.returned = returned /\ s.failed = failed
      /\ s.received = received /\ s.empty = empty
      /\ s.age = 0 /\ s.timer = 0 /\ s.attempts = 0 /\ s.same = 0 /\ s.repairs = 0
      /\ s.tokens = 0
  BY <1>1 DEF Done, CallStates, received, empty
<1> HIDE DEF s
<1>3. s \in CallStates(s.timer)
  BY <1>2 DEF CallStates
<1>4. Balanced(s) /\ InTime(s)
  BY <1>1, <1>2 DEF Balanced, InTime
<1>5. returned <= MaxAttempts /\ failed <= MaxAttempts
  BY <1>1, CallsAssumption DEF CallsAssumption
<1>6. Bounded(s)
  BY <1>1, <1>2, <1>5, CallsAssumption DEF Bounded, CallsAssumption
<1> QED
  BY <1>3, <1>4, <1>6 DEF Good, s

\* A call that succeeds hands its tokens and those of the answer on.
LEMMA SucceedIsGood ==
  ASSUME CallsAssumption, IInv, NEW c \in Calls, Is(c, "asked"), Succeed(c)
  PROVE  Others(c) /\ Good(call'[c])
<1> DEFINE n == call[c].tokens + 1
<1>1. Good(call[c])
  BY DEF IInv
<1>2. n \in Nat /\ n + 0 + call[c].empty = call[c].received + 1
  BY <1>1 DEF Good, Balanced, CallStates, Is
<1>6. call[c].received + 1 + 0 <= MaxAttempts
  BY <1>1, CallsAssumption DEF Good, Bounded, CallStates, CallsAssumption, Is
<1>3. call' = [call EXCEPT ![c] = Done(c, "answer", n, 0, 1, 0)]
  BY DEF Succeed
<1> HIDE DEF n
<1>4. Others(c) /\ call'[c] = Done(c, "answer", n, 0, 1, 0)
  BY <1>3 DEF Others, IInv
<1>5. Good(Done(c, "answer", n, 0, 1, 0))
  BY <1>1, <1>2, <1>6, DoneIsGood
<1> QED
  BY <1>4, <1>5

\* A call that fails hands its tokens on.
LEMMA FailIsGood ==
  ASSUME CallsAssumption, IInv, NEW c \in Calls, call[c].pc # "done",
         NEW r \in {"format", "fatal", "attempts", "time"},
         NEW x \in {0, 1}, NEW z \in {0, 1}, x + z <= 1, x + z = 1 => Is(c, "asked"),
         Fail(c, r, x, z)
  PROVE  Others(c) /\ Good(call'[c])
<1> DEFINE n == call[c].tokens + x
<1>1. Good(call[c])
  BY DEF IInv
<1>2. n \in Nat /\ 0 + n + call[c].empty = call[c].received + x
  BY <1>1 DEF Good, Balanced, CallStates
<1>6. call[c].received + x + z <= MaxAttempts
  BY <1>1, CallsAssumption DEF Good, Bounded, CallStates, CallsAssumption, Is
<1>3. call' = [call EXCEPT ![c] = Done(c, r, 0, n, x, z)]
  BY DEF Fail
<1> HIDE DEF n
<1>4. Others(c) /\ call'[c] = Done(c, r, 0, n, x, z)
  BY <1>3 DEF Others, IInv
<1>5. Good(Done(c, r, 0, n, x, z))
  BY <1>1, <1>2, <1>6, DoneIsGood
<1> QED
  BY <1>4, <1>5

\* A call that is not done and moves on, with or without a timer.
LEMMA MovedIsGood ==
  ASSUME CallsAssumption, NEW s, Good(s), s.pc # "done",
         NEW pc \in {"waiting", "loop", "asleep"},
         NEW t \in (0..AttemptTimeout) \cup (0..MaxBackOff),
         pc = "asleep" => s.age <= RetryBudget
  PROVE  Good([s EXCEPT !.pc = pc, !.timer = t])
<1> DEFINE x == [s EXCEPT !.pc = pc, !.timer = t]
<1>1. /\ x \in CallStates(t)
      /\ x.pc = pc /\ x.timer = t /\ x.age = s.age /\ x.attempts = s.attempts
      /\ x.same = s.same /\ x.repairs = s.repairs /\ x.tokens = s.tokens
      /\ x.returned = s.returned /\ x.failed = s.failed /\ x.received = s.received
      /\ x.empty = s.empty
  BY DEF Good, CallStates
<1> HIDE DEF x
<1>2. Balanced(x) /\ InTime(x)
  BY <1>1 DEF Good, Balanced, InTime
<1>3. Bounded(x)
  BY <1>1 DEF Good, Bounded
<1> QED
  BY <1>1, <1>2, <1>3 DEF Good, x

\* A call that moves on and keeps its timer.
LEMMA StateIsGood ==
  ASSUME CallsAssumption, NEW s, Good(s), s.pc # "done",
         NEW pc \in {"waiting", "loop"}
  PROVE  Good([s EXCEPT !.pc = pc])
<1>1. s.timer \in (0..AttemptTimeout) \cup (0..MaxBackOff)
  BY DEF Good, Bounded
<1>2. Good([s EXCEPT !.pc = pc, !.timer = s.timer])
  BY <1>1, MovedIsGood
<1>3. [s EXCEPT !.pc = pc, !.timer = s.timer] = [s EXCEPT !.pc = pc]
  BY DEF Good, CallStates
<1> QED
  BY <1>2, <1>3

\* A call that tries again, after an answer that was worth x tokens to it and z
\* to nobody.
LEMMA AgainIsGood ==
  ASSUME CallsAssumption, NEW s, Good(s), s.pc = "asked",
         NEW x \in {0, 1}, NEW z \in {0, 1}, x + z <= 1,
         NEW n \in 0..MaxSamePrompt, NEW k \in 0..MaxRepairs
  PROVE  Good([s EXCEPT !.pc = "loop", !.timer = 0, !.same = n, !.repairs = k,
                        !.tokens = @ + x, !.received = @ + x + z, !.empty = @ + z])
<1> DEFINE i == s.tokens + x
           j == s.received + x + z
           e == s.empty + z
           y == [s EXCEPT !.pc = "loop", !.timer = 0, !.same = n, !.repairs = k,
                          !.tokens = i, !.received = j, !.empty = e]
<1>1. /\ s.tokens \in Nat /\ s.received \in Nat /\ s.empty \in Nat /\ s.attempts \in Nat
      /\ s.tokens + s.empty = s.received
      /\ s.received < s.attempts /\ s.attempts <= MaxAttempts
  BY DEF Good, CallStates, Balanced, Bounded
<1>2. /\ i \in Nat /\ j \in Nat /\ e \in Nat /\ i + e = j
      /\ j <= s.attempts /\ j <= MaxAttempts
  <2>1. MaxAttempts \in Nat /\ (x = 0 \/ x = 1) /\ (z = 0 \/ z = 1)
    BY CallsAssumption DEF CallsAssumption
  <2> HIDE DEF y
  <2> QED
    BY <1>1, <2>1
<1> HIDE DEF i, j, e
<1>3. /\ y \in CallStates(0)
      /\ y.pc = "loop" /\ y.timer = 0 /\ y.age = s.age /\ y.attempts = s.attempts
      /\ y.same = n /\ y.repairs = k /\ y.tokens = i /\ y.received = j /\ y.empty = e
      /\ y.returned = s.returned /\ y.failed = s.failed
  <2>1. s \in CallStates(s.timer) /\ n \in Nat /\ k \in Nat /\ i \in Nat /\ j \in Nat /\ e \in Nat
    BY <1>2, CallsAssumption DEF Good, CallsAssumption
  <2> QED
    BY <2>1 DEF CallStates
<1> HIDE DEF y
<1>4. Balanced(y) /\ InTime(y)
  BY <1>2, <1>3 DEF Balanced, InTime
<1>5. Bounded(y)
  BY <1>2, <1>3, CallsAssumption DEF Good, Bounded, CallsAssumption
<1>6. Good(y)
  BY <1>3, <1>4, <1>5 DEF Good
<1> QED
  BY <1>6 DEF y, i, j, e

\* A pause, or the end of the attempts without one.
LEMMA PauseIsGood ==
  ASSUME CallsAssumption, IInv, NEW c \in Calls, Is(c, "asked"), Pause(c)
  PROVE  Others(c) /\ Good(call'[c])
<1>1. Good(call[c])
  BY DEF IInv
<1>2. CASE call[c].attempts < MaxAttempts
  <2> DEFINE s == [call[c] EXCEPT !.pc = "asleep", !.timer = BackOff(call[c].attempts)]
  <2>1. call' = [call EXCEPT ![c] = s]
    BY <1>2 DEF Pause
  <2>2. Others(c) /\ call'[c] = s
    BY <2>1 DEF Others, IInv
  <2>3. BackOff(call[c].attempts) \in 0..MaxBackOff
    BY CallsAssumption DEF BackOff, CallsAssumption
  <2>4. call[c].age <= RetryBudget /\ call[c].pc # "done"
    BY <1>1 DEF Good, InTime, Is
  <2>5. Good(s)
    BY <1>1, <2>3, <2>4, MovedIsGood
  <2> QED
    BY <2>2, <2>5
<1>3. CASE ~(call[c].attempts < MaxAttempts)
  <2> DEFINE s == [call[c] EXCEPT !.pc = "loop", !.timer = 0]
  <2>1. call' = [call EXCEPT ![c] = s]
    BY <1>3 DEF Pause
  <2>2. Others(c) /\ call'[c] = s
    BY <2>1 DEF Others, IInv
  <2>3. 0 \in 0..MaxBackOff
    BY CallsAssumption DEF CallsAssumption
  <2>4. Good(s)
    BY <1>1, <2>3, MovedIsGood DEF Is
  <2> QED
    BY <2>2, <2>4
<1> QED
  BY <1>2, <1>3

\* The next await is reached with what the answer was worth.
LEMMA AnswerIsGood ==
  ASSUME CallsAssumption, IInv, NEW c \in Calls, NEW a \in Answers, TakeAnswer(c, a)
  PROVE  Others(c) /\ Good(call'[c])
<1> DEFINE charge == IF a \in Charged THEN 1 ELSE 0
           empty == IF a = "empty" THEN 1 ELSE 0
           again == a \in WorthTheSamePrompt /\ call[c].same < MaxSamePrompt
           repair == a = "wrongSchema" \/ (a \in WorthTheSamePrompt /\ ~again)
<1>1. /\ Good(call[c])
      /\ Is(c, "asked")
      /\ charge \in {0, 1} /\ empty \in {0, 1} /\ charge + empty <= 1
      /\ call[c].same \in 0..MaxSamePrompt /\ call[c].repairs \in 0..MaxRepairs
  BY CallsAssumption DEF IInv, TakeAnswer, Good, CallStates, Bounded, Charged, CallsAssumption
<1>2. CASE Succeed(c)
  BY <1>1, <1>2, SucceedIsGood
<1>3. CASE Fail(c, "fatal", 0, 0)
  BY <1>1, <1>3, FailIsGood DEF Is
<1>4. CASE Pause(c)
  BY <1>1, <1>4, PauseIsGood
<1>5. CASE again /\ call' = [call EXCEPT ![c].pc = "loop", ![c].timer = 0, ![c].same = @ + 1,
                              ![c].tokens = @ + charge, ![c].received = @ + charge + empty,
                              ![c].empty = @ + empty]
  <2> DEFINE n == call[c].same + 1
             k == call[c].repairs
             s == [call[c] EXCEPT !.pc = "loop", !.timer = 0, !.same = n, !.repairs = k,
                     !.tokens = @ + charge, !.received = @ + charge + empty,
                     !.empty = @ + empty]
  <2>1. n \in 0..MaxSamePrompt
    BY <1>1, <1>5, CallsAssumption DEF CallsAssumption
  <2> HIDE DEF charge, empty, again
  <2>2. Others(c) /\ call'[c] = [call[c] EXCEPT !.pc = "loop", !.timer = 0, !.same = n,
                                   !.tokens = @ + charge, !.received = @ + charge + empty,
                                   !.empty = @ + empty]
    BY <1>5 DEF Others, IInv
  <2>3. s = [call[c] EXCEPT !.pc = "loop", !.timer = 0, !.same = n,
                            !.tokens = @ + charge, !.received = @ + charge + empty,
                            !.empty = @ + empty]
    BY <1>1 DEF Good, CallStates
  <2>4. Good(s)
    <3> HIDE DEF n
    <3> QED
      BY <1>1, <2>1, AgainIsGood DEF Is
  <2> QED
    BY <2>2, <2>3, <2>4
<1>6. CASE /\ call[c].repairs < MaxRepairs
           /\ call' = [call EXCEPT ![c].pc = "loop", ![c].timer = 0, ![c].same = 0,
                         ![c].repairs = @ + 1,
                         ![c].tokens = @ + charge, ![c].received = @ + charge + empty,
                         ![c].empty = @ + empty]
  <2> DEFINE k == call[c].repairs + 1
             s == [call[c] EXCEPT !.pc = "loop", !.timer = 0, !.same = 0, !.repairs = k,
                     !.tokens = @ + charge, !.received = @ + charge + empty,
                     !.empty = @ + empty]
  <2>1. k \in 0..MaxRepairs /\ 0 \in 0..MaxSamePrompt
    BY <1>1, <1>6, CallsAssumption DEF CallsAssumption
  <2> HIDE DEF charge, empty
  <2>2. Others(c) /\ call'[c] = s
    BY <1>6 DEF Others, IInv
  <2>3. Good(s)
    <3> HIDE DEF k
    <3> QED
      BY <1>1, <2>1, AgainIsGood DEF Is
  <2> QED
    BY <2>2, <2>3
<1>7. CASE Fail(c, "format", charge, empty)
  BY <1>1, <1>7, FailIsGood DEF Is
<1> QED
  BY <1>2, <1>3, <1>4, <1>5, <1>6, <1>7 DEF TakeAnswer

\* Every step of one call leaves it good, and the others alone.
LEMMA CallStep ==
  ASSUME CallsAssumption, IInv, NEW c \in Calls,
         \/ MakeCall(c) \/ RefuseCall(c) \/ Run(c) \/ Abort(c)
         \/ \E a \in Answers : TakeAnswer(c, a)
  PROVE  Others(c) /\ Good(call'[c])
<1>1. Good(call[c])
  BY DEF IInv
<1>2. CASE MakeCall(c)
  <2> DEFINE s == [call[c] EXCEPT !.pc = "waiting"]
  <2>1. Others(c) /\ call'[c] = s
    BY <1>2 DEF MakeCall, Others, IInv
  <2>2. Good(s)
    BY <1>1, <1>2, StateIsGood DEF MakeCall, Is
  <2> QED
    BY <2>1, <2>2
<1>3. CASE RefuseCall(c)
  <2>1. Others(c) /\ call'[c] = Done(c, "refused", 0, 0, 0, 0)
    BY <1>3 DEF RefuseCall, Others, IInv
  <2>2. call[c].received = 0 /\ call[c].empty = 0
    BY <1>1, <1>3 DEF RefuseCall, Good, Balanced, CallStates, Is
  <2>3. Good(Done(c, "refused", 0, 0, 0, 0))
    BY <1>1, <2>2, DoneIsGood
  <2> QED
    BY <2>1, <2>3
<1>4. CASE AcquirePermit(c)
  <2> DEFINE s == [call[c] EXCEPT !.pc = "loop"]
  <2>1. Others(c) /\ call'[c] = s
    BY <1>4 DEF AcquirePermit, Others, IInv
  <2>2. Good(s)
    BY <1>1, <1>4, StateIsGood DEF AcquirePermit, Is
  <2> QED
    BY <2>1, <2>2
<1>5. CASE BeginAttempt(c)
  <2> DEFINE n == call[c].attempts + 1
             s == [call[c] EXCEPT !.pc = "asked", !.attempts = n, !.timer = AttemptTimeout]
  <2>1. Others(c) /\ call'[c] = s
    BY <1>5 DEF BeginAttempt, Others, IInv
  <2>2. call[c].age <= RetryBudget /\ n \in Nat /\ n <= MaxAttempts
        /\ call[c].received < n /\ call[c].pc = "loop"
    BY <1>1, <1>5, CallsAssumption
    DEF BeginAttempt, OutOfTime, Is, Good, Bounded, CallStates, CallsAssumption
  <2> HIDE DEF n
  <2>3. /\ s \in CallStates(AttemptTimeout)
        /\ s.pc = "asked" /\ s.timer = AttemptTimeout /\ s.age = call[c].age
        /\ s.attempts = n /\ s.same = call[c].same /\ s.repairs = call[c].repairs
        /\ s.tokens = call[c].tokens /\ s.received = call[c].received
        /\ s.empty = call[c].empty
        /\ s.returned = call[c].returned /\ s.failed = call[c].failed
    BY <1>1, <2>2 DEF Good, CallStates
  <2> HIDE DEF s
  <2>4. Balanced(s) /\ InTime(s)
    BY <1>1, <2>2, <2>3 DEF Good, Balanced, InTime
  <2>5. call[c].received \in Nat /\ AttemptTimeout \in 0..AttemptTimeout
    BY <1>1, CallsAssumption DEF Good, CallStates, CallsAssumption
  <2>6. Bounded(s)
    BY <1>1, <2>2, <2>3, <2>5 DEF Good, Bounded
  <2> QED
    BY <2>1, <2>3, <2>4, <2>6 DEF Good
<1>6. CASE GiveUp(c)
  BY <1>6, FailIsGood DEF GiveUp, Is
<1>7. CASE WatchdogExpires(c)
  BY <1>7, PauseIsGood DEF WatchdogExpires
<1>8. CASE WakeUp(c)
  <2> DEFINE s == [call[c] EXCEPT !.pc = "loop"]
  <2>1. Others(c) /\ call'[c] = s
    BY <1>8 DEF WakeUp, Others, IInv
  <2>2. Good(s)
    BY <1>1, <1>8, StateIsGood DEF WakeUp, Is
  <2> QED
    BY <2>1, <2>2
<1>9. CASE BudgetExpires(c)
  BY <1>9, FailIsGood DEF BudgetExpires, Overdue
<1>10. CASE Abort(c)
  <2>1. Others(c) /\ call'[c] = Done(c, "aborted", 0, 0, 0, 0)
    BY <1>10 DEF Abort, Others, IInv
  <2>2. call[c].received + 0 + 0 <= MaxAttempts /\ call[c].empty <= call[c].received
    BY <1>1, <1>10 DEF Abort, Good, CallStates, Bounded, Balanced
  <2>3. Good(Done(c, "aborted", 0, 0, 0, 0))
    BY <1>1, <2>2, DoneIsGood
  <2> QED
    BY <2>1, <2>3
<1>11. ASSUME NEW a \in Answers, TakeAnswer(c, a)
       PROVE  Others(c) /\ Good(call'[c])
  BY <1>11, AnswerIsGood
<1> QED
  BY <1>2, <1>3, <1>4, <1>5, <1>6, <1>7, <1>8, <1>9, <1>10, <1>11 DEF Run

\* Time does not pass for a call that is out of it in an attempt or a pause.
LEMMA TickIsGood ==
  ASSUME CallsAssumption, IInv, Tick
  PROVE  IInv'
<1> DEFINE s(c) == [call[c] EXCEPT !.timer = IF @ = 0 THEN 0 ELSE @ - 1,
                                   !.age = IF @ > RetryBudget THEN @ ELSE @ + 1]
<1>1. call' = [c \in Calls |-> IF Pending(c) THEN s(c) ELSE call[c]]
  BY DEF Tick
<1>2. call' = [c \in Calls |-> call'[c]]
  BY <1>1
<1>3. ASSUME NEW c \in Calls
      PROVE  Good(call'[c])
  <2>1. Good(call[c])
    BY DEF IInv
  <2>2. CASE Pending(c)
    <3>1. call'[c] = s(c)
      BY <1>1, <2>2
    <3>2. call[c].pc # "done" /\ ~Overdue(c)
      BY <2>2 DEF Pending, Tick, Urgent
    <3>3. s(c) \in CallStates(s(c).timer)
      <4> DEFINE left == IF call[c].timer = 0 THEN 0 ELSE call[c].timer - 1
                 n == IF call[c].age > RetryBudget THEN call[c].age ELSE call[c].age + 1
      <4>1. n \in Nat
        BY <2>1 DEF Good, CallStates
      <4> HIDE DEF left, n
      <4>2. /\ [call[c] EXCEPT !.timer = left, !.age = n] \in CallStates(left)
            /\ [call[c] EXCEPT !.timer = left, !.age = n].timer = left
        BY <2>1, <4>1 DEF Good, CallStates
      <4> QED
        BY <4>2 DEF left, n
    <3>4. Balanced(s(c))
      BY <2>1, <3>2 DEF Good, CallStates, Balanced
    <3>5. InTime(s(c))
      BY <2>1, <3>2, CallsAssumption
      DEF Good, CallStates, InTime, Overdue, OutOfTime, CallsAssumption
    <3>6. Bounded(s(c))
      <4>1. /\ s(c).pc = call[c].pc /\ s(c).attempts = call[c].attempts
            /\ s(c).same = call[c].same /\ s(c).repairs = call[c].repairs
            /\ s(c).received = call[c].received /\ s(c).returned = call[c].returned
            /\ s(c).failed = call[c].failed
            /\ s(c).timer = IF call[c].timer = 0 THEN 0 ELSE call[c].timer - 1
            /\ s(c).age = IF call[c].age > RetryBudget THEN call[c].age ELSE call[c].age + 1
        BY <2>1 DEF Good, CallStates
      <4> HIDE DEF s
      <4>2. call[c].age \in Nat /\ Bounded(call[c])
        BY <2>1 DEF Good, CallStates
      <4>3. s(c).age <= RetryBudget + 1
        BY <4>1, <4>2, CallsAssumption DEF Bounded, CallsAssumption
      <4>4. s(c).timer \in (0..AttemptTimeout) \cup (0..MaxBackOff)
        BY <4>1, <4>2, CallsAssumption DEF Bounded, CallsAssumption
      <4> QED
        BY <3>2, <4>1, <4>2, <4>3, <4>4 DEF Bounded
    <3> QED
      BY <3>1, <3>3, <3>4, <3>5, <3>6 DEF Good
  <2>3. CASE ~Pending(c)
    BY <1>1, <2>1, <2>3
  <2> QED
    BY <2>2, <2>3
<1> QED
  BY <1>2, <1>3 DEF IInv

LEMMA InitIsGood == CallsAssumption /\ Init => IInv
<1> SUFFICES ASSUME CallsAssumption, Init PROVE IInv
  OBVIOUS
<1>1. NewCall \in CallStates(NewCall.timer) /\ Balanced(NewCall) /\ InTime(NewCall)
  BY DEF NewCall, CallStates, Balanced, InTime
<1>3. Bounded(NewCall)
  BY CallsAssumption DEF NewCall, Bounded, CallsAssumption
<1>2. call = [c \in Calls |-> call[c]] /\ \A c \in Calls : call[c] = NewCall
  BY DEF Init
<1> QED
  BY <1>1, <1>2, <1>3 DEF IInv, Good

LEMMA NextIsGood == CallsAssumption /\ IInv /\ [Next]_vars => IInv'
<1> SUFFICES ASSUME CallsAssumption, IInv, [Next]_vars PROVE IInv'
  OBVIOUS
<1>1. CASE Tick
  BY <1>1, TickIsGood
<1>2. ASSUME NEW c \in Calls,
             \/ MakeCall(c) \/ RefuseCall(c) \/ Run(c) \/ Abort(c)
             \/ \E a \in Answers : TakeAnswer(c, a)
      PROVE  IInv'
  <2>1. Others(c) /\ Good(call'[c])
    BY <1>2, CallStep
  <2>2. \A d \in Calls : Good(call'[d])
    BY <2>1 DEF Others, IInv
  <2> QED
    BY <2>1, <2>2 DEF Others, IInv
<1>3. CASE UNCHANGED vars
  BY <1>3 DEF vars, IInv
<1> QED
  BY <1>1, <1>2, <1>3 DEF Next

\* The books and the clock of every call are right in every state.
THEOREM CallsStayGood == Spec => []IInv
<1>1. CallsAssumption
  BY CallsAssumption
<1> QED
  BY <1>1, InitIsGood, NextIsGood, PTL DEF Spec

-----------------------------------------------------------------------------
\* Of a call that ends by itself, all tokens of answers that came in time and
\* had text are handed on once, with the result or as failed usage, and those
\* of the others are missing; an aborted call hands on nothing (execute_call).
THEOREM CallsKeepUsage == Spec => []UsageIsKept
<1>1. IInv => UsageIsKept
  <2> SUFFICES ASSUME IInv, NEW c \in Calls, Is(c, "done")
               PROVE  call[c].returned + call[c].failed =
                        IF call[c].result = "aborted" THEN 0
                                                      ELSE call[c].received - call[c].empty
    BY DEF UsageIsKept
  <2>1. Balanced(call[c]) /\ call[c] \in CallStates(call[c].timer)
    BY DEF IInv, Good
  <2>2. /\ call[c].returned \in Nat /\ call[c].failed \in Nat
        /\ call[c].received \in Nat /\ call[c].empty \in Nat
    BY <2>1 DEF CallStates
  <2> QED
    BY <2>1, <2>2 DEF Balanced, Is
<1> QED
  BY <1>1, CallsStayGood, PTL

\* No attempt and no pause lasts past the retry budget of its call (the
\* timeout around run_call_attempt).
THEOREM CallsReleaseInTime == Spec => []PermitHeldWithinBudget
<1>1. IInv => PermitHeldWithinBudget
  BY DEF IInv, Good, InTime, PermitHeldWithinBudget
<1> QED
  BY <1>1, CallsStayGood, PTL

-----------------------------------------------------------------------------
\* The queue and the permits, beside the calls one by one.
Turns == queue \in Seq(Calls) /\ permits \in Nat /\ TurnsAreKept

LEMMA HoldersAreFinite ==
  ASSUME CallsAssumption
  PROVE  IsFiniteSet(Holders) /\ Cardinality(Holders) \in Nat
<1>1. Holders \subseteq Calls
  BY DEF Holders
<1> QED
  BY <1>1, FS_Subset, FS_CardinalityType, CallsAssumption DEF CallsAssumption

\* A sequence without one of its places.
LEMMA WithoutPlace ==
  ASSUME NEW S, NEW q \in Seq(S), NEW i \in 1..Len(q)
  PROVE  /\ RemoveAt(q, i) \in Seq(S)
         /\ Len(RemoveAt(q, i)) = Len(q) - 1
         /\ \A j \in 1..(Len(q) - 1) :
              RemoveAt(q, i)[j] = IF j < i THEN q[j] ELSE q[j + 1]
<1> DEFINE a == SubSeq(q, 1, i - 1)
           b == SubSeq(q, i + 1, Len(q))
<1>1. a \in Seq(S) /\ Len(a) = i - 1 /\ \A j \in 1..(i - 1) : a[j] = q[j]
  OBVIOUS
<1>2. /\ b \in Seq(S) /\ Len(b) = Len(q) - i
      /\ \A j \in 1..(Len(q) - i) : b[j] = q[i + j]
  OBVIOUS
<1> HIDE DEF a, b
<1>3. /\ a \o b \in Seq(S) /\ Len(a \o b) = Len(q) - 1
      /\ \A j \in 1..(Len(q) - 1) :
           (a \o b)[j] = IF j <= Len(a) THEN a[j] ELSE b[j - Len(a)]
  <2>1. /\ a \o b \in Seq(S) /\ Len(a \o b) = Len(a) + Len(b)
        /\ \A j \in 1..(Len(a) + Len(b)) :
             (a \o b)[j] = IF j <= Len(a) THEN a[j] ELSE b[j - Len(a)]
    BY <1>1, <1>2, ConcatProperties
  <2>2. Len(a) + Len(b) = Len(q) - 1
    BY <1>1, <1>2
  <2> QED
    BY <2>1, <2>2
<1>4. ASSUME NEW j \in 1..(Len(q) - 1)
      PROVE  (a \o b)[j] = IF j < i THEN q[j] ELSE q[j + 1]
  <2>1. CASE j < i
    BY <1>1, <1>3, <2>1
  <2>2. CASE ~(j < i)
    <3>1. /\ ~(j <= Len(a)) /\ j - Len(a) = j - i + 1
          /\ j - i + 1 \in 1..(Len(q) - i) /\ i + (j - i + 1) = j + 1
      BY <1>1, <2>2
    <3> QED
      BY <1>2, <1>3, <2>2, <3>1
  <2> QED
    BY <2>1, <2>2
<1> QED
  BY <1>3, <1>4 DEF RemoveAt, a, b

\* A step after which the same calls wait and the same calls hold a permit.
LEMMA SameTurns ==
  ASSUME Turns, UNCHANGED <<queue, permits>>,
         \A c \in Calls : call'[c].pc = "waiting" <=> call[c].pc = "waiting",
         \A c \in Calls : call'[c].pc \in {"loop", "asked", "asleep"} <=>
                           call[c].pc \in {"loop", "asked", "asleep"}
  PROVE  Turns'
<1>1. Holders' = Holders
  BY DEF Holders
<1>2. \A c \in Calls : Is(c, "waiting")' <=> Is(c, "waiting")
  BY DEF Is
<1> QED
  BY <1>1, <1>2 DEF Turns, TurnsAreKept

\* A call that holds a permit ends and gives it back.
LEMMA HolderLeaves ==
  ASSUME CallsAssumption, Turns, NEW c \in Calls, Others(c), c \in Holders,
         call'[c].pc = "done", permits' = permits + 1, UNCHANGED queue
  PROVE  Turns'
<1>1. Holders' = Holders \ {c}
  BY DEF Holders, Others
<1>2. Cardinality(Holders') = Cardinality(Holders) - 1
  BY <1>1, HoldersAreFinite, FS_RemoveElement
<1>3. permits' + Cardinality(Holders') = Permits
  BY <1>2, HoldersAreFinite DEF Turns, TurnsAreKept
<1>4. \A d \in Calls : Is(d, "waiting")' <=> Is(d, "waiting")
  BY DEF Is, Others, Holders
<1> QED
  BY <1>3, <1>4 DEF Turns, TurnsAreKept

\* Every step of one call keeps the turns.
LEMMA CallKeepsTurns ==
  ASSUME CallsAssumption, IInv, Turns, NEW c \in Calls,
         \/ MakeCall(c) \/ RefuseCall(c) \/ Run(c) \/ Abort(c)
         \/ \E a \in Answers : TakeAnswer(c, a)
  PROVE  Turns'
<1>1. Others(c)
  BY CallStep
<1>2. call = [d \in Calls |-> call[d]] /\ call[c] \in CallStates(call[c].timer)
  BY DEF IInv, Good
<1> DEFINE Holding(s) == s.pc \in {"loop", "asked", "asleep"}
<1>3. ASSUME UNCHANGED <<queue, permits>>, call[c].pc \notin {"waiting"},
             call'[c].pc \notin {"waiting"}, Holding(call'[c]) <=> Holding(call[c])
      PROVE  Turns'
  BY <1>1, <1>3, SameTurns DEF Others
<1>4. ASSUME UNCHANGED queue, Holding(call[c]), NEW s, s.pc = "done",
             call' = [call EXCEPT ![c] = s], permits' = permits + 1
      PROVE  Turns'
  <2>1. call'[c].pc = "done" /\ c \in Holders
    BY <1>2, <1>4 DEF Holders
  <2> QED
    BY <1>1, <1>4, <2>1, HolderLeaves
<1>5. \A r, x, y, z, e : Done(c, r, x, y, z, e).pc = "done"
  BY DEF Done
<1>6. ASSUME Pause(c), Is(c, "asked"), UNCHANGED <<queue, permits>>
      PROVE  Turns'
  <2>1. call'[c].pc \in {"asleep", "loop"}
    BY <1>2, <1>6 DEF Pause, CallStates
  <2> QED
    BY <1>3, <1>6, <2>1 DEF Is
<1>7. CASE MakeCall(c)
  <2>1. /\ call[c].pc = "new" /\ call'[c].pc = "waiting"
        /\ queue' = Append(queue, c) /\ permits' = permits
    BY <1>2, <1>7 DEF MakeCall, Is, CallStates
  <2>2. Holders' = Holders
    BY <1>1, <2>1 DEF Others, Holders
  <2>3. /\ queue' \in Seq(Calls) /\ Len(queue') = Len(queue) + 1 /\ Len(queue) \in Nat
        /\ \A i \in 1..Len(queue) : queue'[i] = queue[i]
        /\ queue'[Len(queue) + 1] = c
    BY <2>1 DEF Turns
  <2>4. \A i \in 1..Len(queue) : queue[i] # c
    BY <2>1 DEF Turns, TurnsAreKept, Is
  <2>5. ASSUME NEW d \in Calls
        PROVE  Is(d, "waiting")' <=> \E i \in 1..Len(queue') : queue'[i] = d
    <3>1. CASE d = c
      BY <2>1, <2>3, <3>1 DEF Is
    <3>2. CASE d # c
      <4>1. Is(d, "waiting")' <=> \E i \in 1..Len(queue) : queue[i] = d
        BY <1>1, <3>2 DEF Others, Is, Turns, TurnsAreKept
      <4>2. \A i \in 1..Len(queue') : i \in 1..Len(queue) \/ i = Len(queue) + 1
        BY <2>3
      <4>3. \A i \in 1..Len(queue) : i \in 1..Len(queue')
        BY <2>3
      <4> QED
        BY <2>3, <3>2, <4>1, <4>2, <4>3
    <3> QED
      BY <3>1, <3>2
  <2>6. ASSUME NEW i \in 1..Len(queue'), NEW j \in 1..Len(queue'), queue'[i] = queue'[j]
        PROVE  i = j
    <3>1. \A k \in 1..Len(queue') : k \in 1..Len(queue) \/ k = Len(queue) + 1
      BY <2>3
    <3> QED
      BY <2>3, <2>4, <2>6, <3>1 DEF Turns, TurnsAreKept
  <2> QED
    BY <2>1, <2>2, <2>3, <2>5, <2>6 DEF Turns, TurnsAreKept
<1>8. CASE RefuseCall(c)
  <2>1. call[c].pc = "new" /\ call'[c].pc = "done"
    BY <1>2, <1>5, <1>8 DEF RefuseCall, Is
  <2> QED
    BY <1>3, <1>8, <2>1 DEF RefuseCall
<1>9. CASE AcquirePermit(c)
  <2>1. /\ call[c].pc = "waiting" /\ call'[c].pc = "loop"
        /\ queue # << >> /\ queue[1] = c /\ queue' = Tail(queue)
        /\ permits > 0 /\ permits' = permits - 1
    BY <1>2, <1>9 DEF AcquirePermit, Is, CallStates, Turns
  <2>2. Holders' = Holders \cup {c} /\ c \notin Holders
    BY <1>1, <2>1 DEF Others, Holders
  <2>3. Cardinality(Holders') = Cardinality(Holders) + 1
    BY <2>2, HoldersAreFinite, FS_AddElement
  <2>4. permits' \in Nat /\ permits' + Cardinality(Holders') = Permits
    BY <2>1, <2>3, HoldersAreFinite DEF Turns, TurnsAreKept
  <2>5. /\ queue' \in Seq(Calls) /\ Len(queue') = Len(queue) - 1
        /\ Len(queue) \in Nat /\ Len(queue) > 0
        /\ \A i \in 1..Len(queue') : queue'[i] = queue[i + 1]
    BY <2>1 DEF Turns
  <2>6. \A i \in 1..Len(queue) : i # 1 => queue[i] # c
    BY <2>1, <2>5 DEF Turns, TurnsAreKept
  <2>7. \A i \in 1..Len(queue') : i + 1 \in 1..Len(queue) /\ i + 1 # 1
    BY <2>5
  <2>8. \A i \in 1..Len(queue) : i # 1 => i - 1 \in 1..Len(queue') /\ (i - 1) + 1 = i
    BY <2>5
  <2>9. ASSUME NEW d \in Calls
        PROVE  Is(d, "waiting")' <=> \E i \in 1..Len(queue') : queue'[i] = d
    <3>1. CASE d = c
      BY <2>1, <2>5, <2>6, <2>7, <3>1 DEF Is
    <3>2. CASE d # c
      <4>1. Is(d, "waiting")' <=> \E i \in 1..Len(queue) : queue[i] = d
        BY <1>1, <3>2 DEF Others, Is, Turns, TurnsAreKept
      <4>2. ASSUME NEW i \in 1..Len(queue), queue[i] = d
            PROVE  queue'[i - 1] = d
        BY <2>1, <2>5, <2>8, <3>2, <4>2
      <4> QED
        BY <2>1, <2>5, <2>7, <2>8, <3>2, <4>1, <4>2
    <3> QED
      BY <3>1, <3>2
  <2>10. ASSUME NEW i \in 1..Len(queue'), NEW j \in 1..Len(queue'), queue'[i] = queue'[j]
         PROVE  i = j
    <3>1. i + 1 = j + 1
      BY <2>5, <2>7, <2>10 DEF Turns, TurnsAreKept
    <3> QED
      BY <3>1
  <2> QED
    BY <2>4, <2>5, <2>9, <2>10 DEF Turns, TurnsAreKept
<1>10. CASE BeginAttempt(c)
  <2>1. call[c].pc = "loop" /\ call'[c].pc = "asked"
    BY <1>2, <1>10 DEF BeginAttempt, Is, CallStates
  <2> QED
    BY <1>3, <1>10, <2>1 DEF BeginAttempt
<1>11. CASE GiveUp(c)
  BY <1>4, <1>5, <1>11 DEF GiveUp, Fail, Is
<1>12. CASE WatchdogExpires(c)
  BY <1>6, <1>12 DEF WatchdogExpires
<1>13. CASE WakeUp(c)
  <2>1. call[c].pc = "asleep" /\ call'[c].pc = "loop"
    BY <1>2, <1>13 DEF WakeUp, Is, CallStates
  <2> QED
    BY <1>3, <1>13, <2>1 DEF WakeUp
<1>14. CASE BudgetExpires(c)
  BY <1>4, <1>5, <1>14 DEF BudgetExpires, Overdue, Fail
<1>15. CASE Abort(c)
  <2>1. call'[c].pc = "done"
    BY <1>2, <1>5, <1>15 DEF Abort
  <2>2. CASE ~Is(c, "waiting")
    BY <1>4, <1>5, <1>15, <2>2 DEF Abort, LeaveQueue, Is
  <2>3. CASE Is(c, "waiting")
    <3>1. PICK k \in 1..Len(queue) : queue[k] = c /\ queue' = RemoveAt(queue, k)
      BY <1>15, <2>3 DEF Abort, LeaveQueue
    <3>2. permits' = permits /\ call[c].pc = "waiting"
      BY <1>15, <2>3 DEF Abort, Is
    <3>3. Holders' = Holders
      BY <1>1, <2>1, <3>2 DEF Others, Holders
    <3>4. /\ queue' \in Seq(Calls) /\ Len(queue') = Len(queue) - 1 /\ Len(queue) \in Nat
          /\ \A i \in 1..Len(queue') : queue'[i] = IF i < k THEN queue[i] ELSE queue[i + 1]
      <4>1. queue \in Seq(Calls)
        BY DEF Turns
      <4>2. /\ RemoveAt(queue, k) \in Seq(Calls)
            /\ Len(RemoveAt(queue, k)) = Len(queue) - 1
            /\ \A j \in 1..(Len(queue) - 1) :
                 RemoveAt(queue, k)[j] = IF j < k THEN queue[j] ELSE queue[j + 1]
        BY <4>1, WithoutPlace
      <4> QED
        BY <3>1, <4>1, <4>2
    <3> DEFINE old(i) == IF i < k THEN i ELSE i + 1
    <3>5. /\ \A i \in 1..Len(queue') :
               old(i) \in 1..Len(queue) /\ old(i) # k /\ queue'[i] = queue[old(i)]
          /\ \A i, j \in 1..Len(queue') : old(i) = old(j) => i = j
          /\ \A n \in 1..Len(queue) : n # k =>
               \E i \in 1..Len(queue') : old(i) = n
      <4>1. \A n \in 1..Len(queue) : n # k =>
              IF n < k THEN n \in 1..Len(queue') /\ old(n) = n
              ELSE n - 1 \in 1..Len(queue') /\ old(n - 1) = n
        BY <3>4
      <4>2. \A i \in 1..Len(queue') :
              old(i) \in 1..Len(queue) /\ old(i) # k /\ queue'[i] = queue[old(i)]
        BY <3>4
      <4>3. \A i, j \in 1..Len(queue') : old(i) = old(j) => i = j
        BY <3>4
      <4> HIDE DEF old
      <4>4. \A n \in 1..Len(queue) : n # k => \E i \in 1..Len(queue') : old(i) = n
        BY <4>1
      <4> QED
        BY <4>2, <4>3, <4>4
    <3> HIDE DEF old
    <3>6. \A i \in 1..Len(queue') : queue'[i] # c
      BY <3>1, <3>5 DEF Turns, TurnsAreKept
    <3>7. ASSUME NEW d \in Calls
          PROVE  Is(d, "waiting")' <=> \E i \in 1..Len(queue') : queue'[i] = d
      <4>1. CASE d = c
        BY <2>1, <3>6, <4>1 DEF Is
      <4>2. CASE d # c
        <5>1. Is(d, "waiting")' <=> \E i \in 1..Len(queue) : queue[i] = d
          BY <1>1, <4>2 DEF Others, Is, Turns, TurnsAreKept
        <5>2. ASSUME NEW n \in 1..Len(queue), queue[n] = d
              PROVE  \E i \in 1..Len(queue') : queue'[i] = d
          <6>1. PICK i \in 1..Len(queue') : old(i) = n
            BY <3>1, <3>5, <4>2, <5>2
          <6>2. queue'[i] = queue[old(i)]
            BY <3>5
          <6> QED
            BY <5>2, <6>1, <6>2
        <5>3. ASSUME NEW i \in 1..Len(queue'), queue'[i] = d
              PROVE  \E n \in 1..Len(queue) : queue[n] = d
          BY <3>5, <5>3
        <5> QED
          BY <5>1, <5>2, <5>3
      <4> QED
        BY <4>1, <4>2
    <3>8. ASSUME NEW i \in 1..Len(queue'), NEW j \in 1..Len(queue'), queue'[i] = queue'[j]
          PROVE  i = j
      <4>1. /\ old(i) \in 1..Len(queue) /\ queue'[i] = queue[old(i)]
            /\ old(j) \in 1..Len(queue) /\ queue'[j] = queue[old(j)]
        BY <3>5
      <4>2. old(i) = old(j)
        BY <3>8, <4>1 DEF Turns, TurnsAreKept
      <4> QED
        BY <3>5, <4>2
    <3> QED
      BY <3>2, <3>3, <3>4, <3>7, <3>8 DEF Turns, TurnsAreKept
  <2> QED
    BY <2>2, <2>3
<1>16. ASSUME NEW a \in Answers, TakeAnswer(c, a)
       PROVE  Turns'
  <2>1. Is(c, "asked") /\ UNCHANGED queue
    BY <1>16 DEF TakeAnswer
  <2>2. CASE Succeed(c)
    BY <1>4, <1>5, <2>1, <2>2, ZenonT(40) DEF Succeed, Is
  <2>3. CASE \E r, n, z : Fail(c, r, n, z)
    BY <1>4, <1>5, <2>1, <2>3 DEF Fail, Is
  <2>4. CASE Pause(c) /\ UNCHANGED permits
    BY <1>6, <2>1, <2>4
  <2>5. ASSUME UNCHANGED permits, call'[c].pc = "loop"
        PROVE  Turns'
    BY <1>3, <2>1, <2>5 DEF Is
  <2> DEFINE charge == IF a \in Charged THEN 1 ELSE 0
             empty == IF a = "empty" THEN 1 ELSE 0
  <2>6. CASE call' = [call EXCEPT ![c].pc = "loop", ![c].timer = 0, ![c].same = @ + 1,
                        ![c].tokens = @ + charge, ![c].received = @ + charge + empty,
                        ![c].empty = @ + empty]
             /\ UNCHANGED permits
    <3> HIDE DEF charge, empty
    <3>1. call'[c].pc = "loop"
      BY <1>2, <2>6 DEF CallStates
    <3> QED
      BY <2>5, <2>6, <3>1
  <2>7. CASE call' = [call EXCEPT ![c].pc = "loop", ![c].timer = 0, ![c].same = 0,
                        ![c].repairs = @ + 1,
                        ![c].tokens = @ + charge, ![c].received = @ + charge + empty,
                        ![c].empty = @ + empty]
             /\ UNCHANGED permits
    <3> HIDE DEF charge, empty
    <3>1. call'[c].pc = "loop"
      BY <1>2, <2>7 DEF CallStates
    <3> QED
      BY <2>5, <2>7, <3>1
  <2> QED
    BY <1>16, <2>2, <2>3, <2>4, <2>6, <2>7 DEF TakeAnswer
<1> QED
  BY <1>7, <1>8, <1>9, <1>10, <1>11, <1>12, <1>13, <1>14, <1>15, <1>16 DEF Run

LEMMA InitTurns == CallsAssumption /\ Init => Turns
<1> SUFFICES ASSUME CallsAssumption, Init PROVE Turns
  OBVIOUS
<1>1. \A c \in Calls : call[c].pc = "new"
  BY DEF Init, NewCall
<1>2. Holders = {}
  BY <1>1 DEF Holders
<1>3. permits + Cardinality(Holders) = Permits /\ permits \in Nat
  BY <1>2, FS_EmptySet, CallsAssumption DEF Init, CallsAssumption
<1>4. queue \in Seq(Calls) /\ 1..Len(queue) = {}
  BY DEF Init
<1> QED
  BY <1>1, <1>3, <1>4 DEF Turns, TurnsAreKept, Is

LEMMA NextKeepsTurns == CallsAssumption /\ IInv /\ Turns /\ [Next]_vars => Turns'
<1> SUFFICES ASSUME CallsAssumption, IInv, Turns, [Next]_vars PROVE Turns'
  OBVIOUS
<1>1. CASE Tick
  <2>1. \A c \in Calls : call'[c].pc = call[c].pc
    BY <1>1 DEF Tick, IInv, Good, CallStates
  <2> QED
    BY <1>1, <2>1, SameTurns DEF Tick
<1>2. ASSUME NEW c \in Calls,
             \/ MakeCall(c) \/ RefuseCall(c) \/ Run(c) \/ Abort(c)
             \/ \E a \in Answers : TakeAnswer(c, a)
      PROVE  Turns'
  BY <1>2, CallKeepsTurns
<1>3. CASE UNCHANGED vars
  BY <1>3, SameTurns DEF vars
<1> QED
  BY <1>1, <1>2, <1>3 DEF Next

\* Whoever waits has one place in the queue, nobody else has one, and every
\* permit is free or held (acquire_call_permit).
THEOREM CallsKeepTurns == Spec => []TurnsAreKept
<1>1. CallsAssumption
  BY CallsAssumption
<1>2. Turns => TurnsAreKept
  BY DEF Turns
<1>3. Spec => []Turns
  BY <1>1, InitTurns, NextKeepsTurns, CallsStayGood, PTL DEF Spec
<1> QED
  BY <1>2, <1>3, PTL

\* The state is typed, and no budget of a call is overdrawn (CallState).
THEOREM CallsStayTyped == Spec => []TypeOK
<1>1. CallsAssumption
  BY CallsAssumption
<1>2. Spec => []Turns
  BY <1>1, InitTurns, NextKeepsTurns, CallsStayGood, PTL DEF Spec
<1>3. CallsAssumption /\ IInv /\ Turns => TypeOK
  <2> SUFFICES ASSUME CallsAssumption, IInv, Turns PROVE TypeOK
    OBVIOUS
  <2>1. ASSUME NEW c \in Calls
        PROVE  /\ call[c] \in CallStates(call[c].timer) /\ Balanced(call[c])
               /\ Bounded(call[c])
    BY DEF IInv, Good
  <2>2. ASSUME NEW c \in Calls
        PROVE  /\ call[c].pc \in {"new", "waiting", "loop", "asked", "asleep", "done"}
               /\ call[c].result \in {"none", "answer", "format", "fatal", "attempts",
                                      "time", "aborted", "refused"}
               /\ call[c].age \in Nat /\ call[c].attempts \in Nat
               /\ call[c].same \in Nat /\ call[c].repairs \in Nat
               /\ call[c].tokens \in Nat /\ call[c].received \in Nat /\ call[c].empty \in Nat
               /\ call[c].returned \in Nat /\ call[c].failed \in Nat
    BY <2>1 DEF CallStates
  <2>3. ASSUME NEW c \in Calls
        PROVE  /\ call[c].tokens \in 0..MaxAttempts /\ call[c].received \in 0..MaxAttempts
               /\ call[c].returned \in 0..MaxAttempts /\ call[c].failed \in 0..MaxAttempts
               /\ call[c].empty \in 0..MaxAttempts
    BY <2>1, <2>2, CallsAssumption DEF Balanced, Bounded, CallsAssumption
  <2>4. ASSUME NEW c \in Calls
        PROVE  /\ call[c].attempts \in 0..MaxAttempts /\ call[c].same \in 0..MaxSamePrompt
               /\ call[c].repairs \in 0..MaxRepairs /\ call[c].age \in 0..(RetryBudget + 1)
               /\ call[c].timer \in (0..AttemptTimeout) \cup (0..MaxBackOff)
    BY <2>1, <2>2, CallsAssumption DEF Bounded, CallsAssumption
  <2>5. queue \in Seq(Calls) /\ permits \in 0..Permits
    BY HoldersAreFinite, CallsAssumption DEF Turns, TurnsAreKept, CallsAssumption
  <2> QED
    BY <2>2, <2>3, <2>4, <2>5 DEF TypeOK
<1> QED
  BY <1>1, <1>2, <1>3, CallsStayGood, PTL

-----------------------------------------------------------------------------
(* The way of a call to its end can be measured one call at a time: nothing *)
(* but its own steps and time changes what is left of it.                   *)

Rank(pc) ==
  CASE pc = "new" -> 3 [] pc = "waiting" -> 2 [] pc = "loop" -> 1
    [] pc = "asleep" -> 2 [] pc = "asked" -> 3

Measure(s) ==
  IF s.pc = "done" THEN 0
  ELSE (RetryBudget + 1 - s.age) + 3 * (MaxAttempts - s.attempts) + Rank(s.pc)

LEMMA LeftIsMeasured ==
  ASSUME NEW c \in Calls
  PROVE  Left(c) = Measure(call[c]) /\ Left(c)' = Measure(call'[c])
BY DEF Left, Measure, Rank, Is

\* What is left of a call is a number, and not 0 before its end.
LEMMA MeasureIsNumber ==
  ASSUME CallsAssumption, NEW s, Good(s)
  PROVE  /\ Measure(s) \in Nat
         /\ s.pc # "done" => /\ Measure(s) > 0 /\ Rank(s.pc) \in 1..3
                             /\ RetryBudget + 1 - s.age \in Nat
                             /\ MaxAttempts - s.attempts \in Nat
<1>1. /\ s.age \in Nat /\ s.attempts \in Nat
      /\ s.pc \in {"new", "waiting", "loop", "asked", "asleep", "done"}
  BY DEF Good, CallStates
<1>2. s.pc # "done" => Rank(s.pc) \in 1..3
  BY <1>1 DEF Rank
<1>3. RetryBudget + 1 - s.age \in Nat /\ MaxAttempts - s.attempts \in Nat
  BY <1>1, CallsAssumption DEF Good, Bounded, CallsAssumption
<1> QED
  BY <1>2, <1>3 DEF Measure

\* A step of a call lowers its measure when the call ends, moves on within an
\* attempt, or starts one.
LEMMA MeasureFalls ==
  ASSUME CallsAssumption, NEW s, Good(s), NEW t, Good(t), s.pc # "done",
         \/ t.pc = "done"
         \/ t.age = s.age /\ t.attempts = s.attempts /\ Rank(t.pc) < Rank(s.pc)
         \/ /\ t.age = s.age /\ t.attempts = s.attempts + 1
            /\ s.pc = "loop" /\ t.pc = "asked"
  PROVE  Measure(t) < Measure(s)
<1>1. CASE t.pc = "done"
  <2>1. Measure(t) = 0
    BY <1>1 DEF Measure
  <2> QED
    BY <2>1, MeasureIsNumber
<1>2. CASE t.pc # "done" /\ t.age = s.age /\ t.attempts = s.attempts /\ Rank(t.pc) < Rank(s.pc)
  <2>1. Rank(s.pc) \in Nat /\ Rank(t.pc) \in Nat
    BY <1>2, MeasureIsNumber
  <2>2. /\ RetryBudget + 1 - s.age \in Nat /\ MaxAttempts - s.attempts \in Nat
        /\ RetryBudget + 1 - t.age = RetryBudget + 1 - s.age
        /\ MaxAttempts - t.attempts = MaxAttempts - s.attempts
    BY <1>2, MeasureIsNumber
  <2> QED
    BY <1>2, <2>1, <2>2 DEF Measure
<1>3. CASE /\ t.age = s.age /\ t.attempts = s.attempts + 1
           /\ s.pc = "loop" /\ t.pc = "asked"
  <2>1. Rank(s.pc) = 1 /\ Rank(t.pc) = 3
    BY <1>3 DEF Rank
  <2>2. /\ s.age \in Nat /\ s.attempts \in Nat
    BY DEF Good, CallStates
  <2>3. /\ Measure(s) = (RetryBudget + 1 - s.age) + 3 * (MaxAttempts - s.attempts) + 1
        /\ Measure(t) = (RetryBudget + 1 - s.age) + 3 * (MaxAttempts - (s.attempts + 1)) + 3
    BY <1>3, <2>1 DEF Measure
  <2> QED
    BY <2>2, <2>3, CallsAssumption DEF CallsAssumption
<1> QED
  BY <1>1, <1>2, <1>3

\* A pause, or the retry that needs none, moves on within the attempt.
LEMMA PauseCounts ==
  ASSUME CallsAssumption, IInv, NEW c \in Calls, Is(c, "asked"), Pause(c), Good(call'[c])
  PROVE  Measure(call'[c]) < Measure(call[c])
<1>1. call[c] \in CallStates(call[c].timer) /\ Good(call[c]) /\ call[c].pc = "asked"
  BY DEF IInv, Good, Is
<1>2. /\ call'[c].pc \in {"asleep", "loop"}
      /\ call'[c].age = call[c].age /\ call'[c].attempts = call[c].attempts
  BY <1>1 DEF Pause, IInv, CallStates
<1>3. Rank(call'[c].pc) < Rank(call[c].pc)
  BY <1>1, <1>2 DEF Rank
<1> QED
  BY <1>1, <1>2, <1>3, MeasureFalls

\* Every step of one call lowers its measure.
LEMMA CallCounts ==
  ASSUME CallsAssumption, IInv, NEW c \in Calls,
         \/ MakeCall(c) \/ RefuseCall(c) \/ Run(c) \/ Abort(c)
         \/ \E a \in Answers : TakeAnswer(c, a)
  PROVE  Others(c) /\ Measure(call'[c]) < Measure(call[c])
<1>1. Others(c) /\ Good(call'[c])
  BY CallStep
<1>2. /\ call = [d \in Calls |-> call[d]]
      /\ Good(call[c]) /\ call[c] \in CallStates(call[c].timer)
  BY DEF IInv, Good
<1> DEFINE Falls == Measure(call'[c]) < Measure(call[c])
<1>3. ASSUME call[c].pc # "done", NEW r, NEW x, NEW y, NEW z, NEW e,
             call' = [call EXCEPT ![c] = Done(c, r, x, y, z, e)]
      PROVE  Falls
  <2>1. call'[c].pc = "done"
    BY <1>2, <1>3 DEF Done
  <2> QED
    BY <1>1, <1>2, <1>3, <2>1, MeasureFalls
<1>4. ASSUME call'[c].age = call[c].age, call'[c].attempts = call[c].attempts,
             \/ call[c].pc = "new" /\ call'[c].pc = "waiting"
             \/ call[c].pc \in {"waiting", "asked", "asleep"} /\ call'[c].pc = "loop"
      PROVE  Falls
  <2>1. Rank(call'[c].pc) < Rank(call[c].pc) /\ call[c].pc # "done"
    BY <1>4 DEF Rank
  <2> QED
    BY <1>1, <1>2, <1>4, <2>1, MeasureFalls
<1>5. CASE MakeCall(c)
  <2>1. /\ call[c].pc = "new" /\ call'[c].pc = "waiting"
        /\ call'[c].age = call[c].age /\ call'[c].attempts = call[c].attempts
    BY <1>2, <1>5 DEF MakeCall, Is, CallStates
  <2> QED
    BY <1>1, <1>4, <2>1
<1>6. CASE RefuseCall(c)
  BY <1>1, <1>3, <1>6 DEF RefuseCall, Is
<1>7. CASE AcquirePermit(c)
  <2>1. /\ call[c].pc = "waiting" /\ call'[c].pc = "loop"
        /\ call'[c].age = call[c].age /\ call'[c].attempts = call[c].attempts
    BY <1>2, <1>7 DEF AcquirePermit, Is, CallStates
  <2> QED
    BY <1>1, <1>4, <2>1
<1>8. CASE BeginAttempt(c)
  <2>1. /\ call[c].pc = "loop" /\ call'[c].pc = "asked"
        /\ call'[c].age = call[c].age /\ call'[c].attempts = call[c].attempts + 1
    BY <1>2, <1>8 DEF BeginAttempt, Is, CallStates
  <2> QED
    BY <1>1, <1>2, <2>1, MeasureFalls
<1>9. CASE GiveUp(c)
  BY <1>1, <1>3, <1>9 DEF GiveUp, Fail, Is
<1>10. CASE WatchdogExpires(c)
  BY <1>1, <1>10, PauseCounts DEF WatchdogExpires
<1>11. CASE WakeUp(c)
  <2>1. /\ call[c].pc = "asleep" /\ call'[c].pc = "loop"
        /\ call'[c].age = call[c].age /\ call'[c].attempts = call[c].attempts
    BY <1>2, <1>11 DEF WakeUp, Is, CallStates
  <2> QED
    BY <1>1, <1>4, <2>1
<1>12. CASE BudgetExpires(c)
  BY <1>1, <1>3, <1>12 DEF BudgetExpires, Overdue, Fail
<1>13. CASE Abort(c)
  BY <1>1, <1>3, <1>13 DEF Abort
<1>14. ASSUME NEW a \in Answers, TakeAnswer(c, a)
       PROVE  Falls
  <2>1. Is(c, "asked") /\ call[c].pc = "asked"
    BY <1>14 DEF TakeAnswer, Is
  <2>2. CASE Succeed(c)
    BY <1>3, <2>1, <2>2 DEF Succeed
  <2>3. CASE \E r, n, z : Fail(c, r, n, z)
    BY <1>3, <2>1, <2>3 DEF Fail
  <2>4. CASE Pause(c)
    BY <1>1, <2>1, <2>4, PauseCounts
  <2> DEFINE charge == IF a \in Charged THEN 1 ELSE 0
             empty == IF a = "empty" THEN 1 ELSE 0
  <2>5. CASE call' = [call EXCEPT ![c].pc = "loop", ![c].timer = 0, ![c].same = @ + 1,
                        ![c].tokens = @ + charge, ![c].received = @ + charge + empty,
                        ![c].empty = @ + empty]
    <3> HIDE DEF charge, empty
    <3>1. /\ call'[c].pc = "loop"
          /\ call'[c].age = call[c].age /\ call'[c].attempts = call[c].attempts
      BY <1>2, <2>5 DEF CallStates
    <3> QED
      BY <1>4, <2>1, <3>1
  <2>6. CASE call' = [call EXCEPT ![c].pc = "loop", ![c].timer = 0, ![c].same = 0,
                        ![c].repairs = @ + 1,
                        ![c].tokens = @ + charge, ![c].received = @ + charge + empty,
                        ![c].empty = @ + empty]
    <3> HIDE DEF charge, empty
    <3>1. /\ call'[c].pc = "loop"
          /\ call'[c].age = call[c].age /\ call'[c].attempts = call[c].attempts
      BY <1>2, <2>6 DEF CallStates
    <3> QED
      BY <1>4, <2>1, <3>1
  <2> QED
    BY <1>14, <2>2, <2>3, <2>4, <2>5, <2>6, ZenonT(40) DEF TakeAnswer
<1> QED
  BY <1>1, <1>5, <1>6, <1>7, <1>8, <1>9, <1>10, <1>11, <1>12, <1>13, <1>14 DEF Run

\* When time passes, somebody holds a permit: an idle permit goes to the head
\* of the queue at once.  Nobody who holds one has run out of time.
LEMMA TickHasHolder ==
  ASSUME CallsAssumption, IInv, Turns, Tick
  PROVE  \E c \in Calls : call[c].pc \in {"asked", "asleep"} /\ call[c].age < RetryBudget
<1>1. ASSUME NEW c \in Calls, call[c].pc \in {"loop", "asked", "asleep"}
      PROVE  call[c].pc \in {"asked", "asleep"} /\ call[c].age < RetryBudget
  <2>1. ~Is(c, "loop") /\ ~Overdue(c)
    BY DEF Tick, Urgent
  <2>2. call[c].age \in Nat
    BY DEF IInv, Good, CallStates
  <2> QED
    BY <1>1, <2>1, <2>2, CallsAssumption DEF Is, Overdue, OutOfTime, CallsAssumption
<1>2. Holders # {}
  <2> SUFFICES ASSUME Holders = {} PROVE FALSE
    OBVIOUS
  <2>1. permits = Permits /\ permits > 0
    <3>1. Cardinality(Holders) = 0
      BY FS_EmptySet
    <3> QED
      BY <3>1, CallsAssumption DEF Turns, TurnsAreKept, CallsAssumption
  <2>2. PICK c \in Calls : Pending(c)
    BY DEF Tick
  <2>3. call[c].pc \in {"new", "waiting", "loop", "asked", "asleep", "done"}
    BY DEF IInv, Good, CallStates
  <2>4. Is(c, "waiting")
    BY <2>2, <2>3 DEF Pending, Holders, Is
  <2>5. PICK i \in 1..Len(queue) : queue[i] = c
    BY <2>4 DEF Turns, TurnsAreKept
  <2>6. queue \in Seq(Calls) /\ queue # << >>
    BY <2>5 DEF Turns
  <2>7. Head(queue) \in Calls
    BY <2>6
  <2>8. Urgent(Head(queue))
    BY <2>1, <2>6 DEF Urgent
  <2> QED
    BY <2>7, <2>8 DEF Tick
<1> QED
  BY <1>1, <1>2 DEF Holders

\* Time that passes lowers the measure of one who holds a permit, and raises
\* that of nobody.
LEMMA TickCounts ==
  ASSUME CallsAssumption, IInv, Turns, Tick
  PROVE  /\ \A c \in Calls : Measure(call'[c]) <= Measure(call[c])
         /\ \E c \in Calls : Measure(call'[c]) < Measure(call[c])
<1>1. ASSUME NEW c \in Calls
      PROVE  /\ Measure(call[c]) \in Nat /\ call[c].age \in Nat /\ call[c].attempts \in Nat
             /\ call'[c].pc = call[c].pc /\ call'[c].attempts = call[c].attempts
             /\ call'[c].age = IF Pending(c) /\ call[c].age <= RetryBudget
                                 THEN call[c].age + 1 ELSE call[c].age
  <2>1. Good(call[c]) /\ call[c] \in CallStates(call[c].timer)
    BY DEF IInv, Good
  <2>2. call[c].age \in Nat /\ call[c].attempts \in Nat
    BY <2>1 DEF CallStates
  <2>3. /\ call'[c].pc = call[c].pc /\ call'[c].attempts = call[c].attempts
        /\ call'[c].age = IF Pending(c)
                            THEN IF call[c].age > RetryBudget THEN call[c].age ELSE call[c].age + 1
                            ELSE call[c].age
    BY <2>1 DEF Tick, CallStates
  <2> QED
    BY <2>1, <2>2, <2>3, MeasureIsNumber, CallsAssumption DEF CallsAssumption
<1>2. ASSUME NEW c \in Calls, call[c].pc # "done"
      PROVE  Measure(call'[c]) = Measure(call[c]) - (call'[c].age - call[c].age)
  <2>1. Good(call[c])
    BY DEF IInv
  <2>2. Rank(call[c].pc) \in Nat /\ call'[c].age \in Nat
    BY <1>1, <1>2, <2>1, MeasureIsNumber
  <2> QED
    BY <1>1, <1>2, <2>2, CallsAssumption DEF Measure, CallsAssumption
<1>3. ASSUME NEW c \in Calls
      PROVE  Measure(call'[c]) <= Measure(call[c])
  <2>1. CASE call[c].pc = "done"
    BY <1>1, <2>1 DEF Measure
  <2>2. CASE call[c].pc # "done"
    BY <1>1, <1>2, <2>2
  <2> QED
    BY <2>1, <2>2
<1>4. PICK c \in Calls : call[c].pc \in {"asked", "asleep"} /\ call[c].age < RetryBudget
  BY TickHasHolder
<1>5. call[c].pc # "done" /\ Pending(c)
  BY <1>4 DEF Pending
<1>6. call'[c].age = call[c].age + 1
  BY <1>1, <1>4, <1>5, CallsAssumption DEF CallsAssumption
<1>7. Measure(call'[c]) < Measure(call[c])
  BY <1>1, <1>2, <1>5, <1>6
<1> QED
  BY <1>3, <1>7

LEMMA NextCounts ==
  ASSUME CallsAssumption, IInv, Turns, Next
  PROVE  /\ \A c \in Calls : Left(c)' <= Left(c)
         /\ \E c \in Calls : Left(c)' < Left(c)
<1>1. CASE Tick
  BY <1>1, TickCounts, LeftIsMeasured
<1>2. ASSUME NEW c \in Calls,
             \/ MakeCall(c) \/ RefuseCall(c) \/ Run(c) \/ Abort(c)
             \/ \E a \in Answers : TakeAnswer(c, a)
      PROVE  /\ \A d \in Calls : Left(d)' <= Left(d)
             /\ \E d \in Calls : Left(d)' < Left(d)
  <2>1. Others(c) /\ Measure(call'[c]) < Measure(call[c])
    BY <1>2, CallCounts
  <2>2. \A d \in Calls : Measure(call[d]) \in Nat
    BY MeasureIsNumber DEF IInv
  <2>3. Measure(call'[c]) \in Nat
    BY <1>2, CallStep, MeasureIsNumber
  <2>4. ASSUME NEW d \in Calls
        PROVE  Measure(call'[d]) <= Measure(call[d])
    <3>1. CASE d = c
      BY <2>1, <2>2, <2>3, <3>1
    <3>2. CASE d # c
      <4>1. call'[d] = call[d]
        BY <2>1, <3>2 DEF Others
      <4> QED
        BY <2>2, <4>1
    <3> QED
      BY <3>1, <3>2
  <2> QED
    BY <2>1, <2>4, LeftIsMeasured
<1> QED
  BY <1>1, <1>2 DEF Next

\* Every step brings a call nearer to its end and none away from its own, for
\* any number of calls, whatever the provider answers (execute_call).
THEOREM CallsMakeProgress == Spec => EveryStepCounts
<1>1. CallsAssumption
  BY CallsAssumption
<1>2. Spec => []Turns
  BY <1>1, InitTurns, NextKeepsTurns, CallsStayGood, PTL DEF Spec
<1>3. CallsAssumption /\ IInv /\ Turns /\ [Next]_vars =>
        [/\ \A c \in Calls : Left(c)' <= Left(c)
         /\ \E c \in Calls : Left(c)' < Left(c)]_vars
  BY NextCounts
<1> QED
  BY <1>1, <1>2, <1>3, CallsStayGood, PTL DEF Spec, EveryStepCounts
=============================================================================
