----------------------------- MODULE MethodStage -----------------------------
(***************************************************************************)
(* The method-review stage: run_review_jobs_with_records and what it calls *)
(* (src/src/analyzer_engine_jobs.rs), on top of the journal and of the     *)
(* batching.  A run loads the journal, takes over what is already          *)
(* reviewed, groups the rest into batches and reviews the batches as       *)
(* concurrent tasks which all write to the one journal and charge the one  *)
(* budget.  It ends done, paused by the budget, or failed; or the process  *)
(* dies.  Runs follow one another, for the same scan or for another one.   *)
(*                                                                         *)
(* A provider call is abstracted to what it leaves behind: a usage entry   *)
(* and a charge.  A batch makes at least one call before its first method  *)
(* completes (the code makes two or more); that only adds behaviours.      *)
(***************************************************************************)
EXTENDS ReviewJournal, ReviewBatching

CONSTANTS
  JobsOf,          \* the jobs of every scan, in scan order
  BatchSize,       \* method_batch_size()
  MaxPromptChars,  \* max_prompt_chars()
  MaxConcurrency,  \* max_concurrency()
  Limits,          \* values of --budget-usd; None is no budget
  MaxCalls,        \* bound on provider calls of one batch attempt
  MaxRuns          \* bound on runs of the stage

Jobs  == UNION {{JobsOf[s][i] : i \in DOMAIN JobsOf[s]} : s \in Scans}
Paths == {job.path : job \in Jobs}

\* A unit id is a hash of a method's file, name, place and source: the jobs
\* of a scan have different ones.  A prompt and its answer have a largest
\* size, so a call has a largest price.
ASSUME StageAssumption ==
  /\ "method" \in Stages
  /\ IsFiniteSet(Units)
  /\ \A job \in Jobs : job.unit \in Units
  /\ \A s \in Scans :
       /\ JobsOf[s] \in Seq(Jobs)
       /\ \A i, j \in DOMAIN JobsOf[s] : JobsOf[s][i].unit = JobsOf[s][j].unit => i = j
  /\ MaxConcurrency \in Nat
  /\ Limits \subseteq Nat \cup {None}
  /\ None \notin JournalStore \cup JournalEntry
  /\ \E most \in Costs : \A c \in Costs : c <= most

\* The passes of an attempt are bounded.
ASSUME CallsAssumption == MaxCalls \in Nat

VARIABLES
  proc,        \* where the run is, or how the last one ended
  runs,        \* runs started so far
  scan,        \* the scan id of the run, or of the last one
  todo,        \* jobs whose journal entry has not been looked up yet
  copying,     \* a unit between its reuse manifest and its copied entry
  fresh,       \* jobs without a reusable entry: `pending` before grouping
  outcomes,    \* retry_on_resume of every outcome pushed for a unit
  batches,     \* the grouped batches of this run
  pending,     \* batches not started
  tasks,       \* the review tasks in flight, by batch
  activeKeys,  \* files claimed by tasks
  joined,      \* the batch whose outcomes are being persisted, or 0
  joinedOuts,  \* its outcomes
  completed,   \* batches pushed on `completed`
  firstError,  \* first_error.is_some()
  budget       \* SpendBudget: the limit and the spend charged so far

runVars == <<todo, copying, fresh, outcomes, batches, pending, tasks,
             activeKeys, joined, joinedOuts, completed, firstError, budget>>
svars   == <<jvars, proc, runs, scan, runVars>>

Ended   == {"idle", "done", "paused", "failed", "rejected"}
JobSet(s) == {JobsOf[s][i].unit : i \in DOMAIN JobsOf[s]}

\* SpendBudget::can_start
CanStart == budget.limit # None => budget.spent < budget.limit

NoOutcomes == [u \in Units |-> << >>]

Fresh(limit, spent) ==
  /\ fresh' = << >> /\ copying' = None /\ outcomes' = NoOutcomes
  /\ batches' = << >> /\ pending' = {} /\ tasks' = << >> /\ activeKeys' = {}
  /\ joined' = 0 /\ joinedOuts' = << >> /\ completed' = {}
  /\ firstError' = FALSE
  /\ budget' = [limit |-> limit, spent |-> spent]

SInit ==
  /\ JInit
  /\ proc = "idle" /\ runs = 0 /\ scan = None /\ todo = << >>
  /\ fresh = << >> /\ copying = None /\ outcomes = NoOutcomes
  /\ batches = << >> /\ pending = {} /\ tasks = << >> /\ activeKeys = {}
  /\ joined = 0 /\ joinedOuts = << >> /\ completed = {}
  /\ firstError = FALSE /\ budget = [limit |-> None, spent |-> 0]
-----------------------------------------------------------------------------
(***************************************************************************)
(* The head of the run: load_for_scan, the spend budget, no outcomes yet.  *)
(***************************************************************************)
StartScan(s, limit) ==
  /\ proc \in Ended /\ runs < MaxRuns
  /\ LoadForScan(s, "method", Len(JobsOf[s]))
  /\ proc' = "reuse" /\ runs' = runs + 1 /\ scan' = s
  /\ todo' = JobsOf[s]
  /\ Fresh(limit, SpentIn(lines, s))

StartScanFails(s) ==
  /\ proc \in Ended /\ runs < MaxRuns
  /\ LoadUnreadable \/ LoadManifestFails(s, "method", Len(JobsOf[s]))
  /\ proc' = "rejected" /\ runs' = runs + 1 /\ scan' = s
  /\ todo' = << >>
  /\ Fresh(None, 0)

NextUnit == Head(todo).unit
Cached == store.completed[NextUnit]

PushOutcome(u, retry) == outcomes' = [outcomes EXCEPT ![u] = Append(@, retry)]

\* A reusable entry of this scan is taken as it is.
ReuseOwn ==
  /\ proc = "reuse" /\ copying = None /\ todo # << >>
  /\ Cached # None /\ IsReusable(Cached) /\ Cached.scan = store.scan
  /\ PushOutcome(NextUnit, FALSE)
  /\ todo' = Tail(todo)
  /\ UNCHANGED <<jvars, proc, runs, scan, copying, fresh, batches, pending, tasks, activeKeys,
                 joined, joinedOuts, completed, firstError, budget>>

\* One of another scan: first a reuse manifest ...
ReuseAcross ==
  /\ proc = "reuse" /\ copying = None /\ todo # << >>
  /\ Cached # None /\ IsReusable(Cached) /\ Cached.scan # store.scan
  /\ RecordCrossScanReuse(NextUnit)
  /\ copying' = NextUnit
  /\ UNCHANGED <<proc, runs, scan, todo, fresh, outcomes, batches, pending, tasks, activeKeys,
                 joined, joinedOuts, completed, firstError, budget>>

\* Mutant: the reused entry is not copied into this scan.
NoCopyAcross ==
  /\ proc = "reuse" /\ copying # None
  /\ PushOutcome(copying, FALSE)
  /\ copying' = None /\ todo' = Tail(todo)
  /\ UNCHANGED <<jvars, proc, runs, scan, fresh, batches, pending, tasks, activeKeys,
                 joined, joinedOuts, completed, firstError, budget>>

\* ... then a copy of the entry, free of charge.
CopyAcross ==
  /\ proc = "reuse" /\ copying # None
  /\ Record(copying, 0, FALSE)
  /\ PushOutcome(copying, FALSE)
  /\ copying' = None /\ todo' = Tail(todo)
  /\ UNCHANGED <<proc, runs, scan, fresh, batches, pending, tasks, activeKeys,
                 joined, joinedOuts, completed, firstError, budget>>

\* Either append fails: the run returns the error and drops its store.
ReuseFails ==
  /\ proc = "reuse"
  /\ \/ /\ copying # None
        /\ AppendFails(Entry("unit", copying, 0, FALSE))
     \/ /\ copying = None /\ todo # << >>
        /\ Cached # None /\ IsReusable(Cached) /\ Cached.scan # store.scan
        /\ AppendFails(Entry("reuse", NextUnit, 0, FALSE))
  /\ UNCHANGED store
  /\ proc' = "rejecting"
  /\ UNCHANGED <<runs, scan, runVars>>

Reject ==
  /\ proc = "rejecting"
  /\ Close
  /\ proc' = "rejected"
  /\ UNCHANGED <<runs, scan, runVars>>

NeedsReview ==
  /\ proc = "reuse" /\ copying = None /\ todo # << >>
  /\ Cached # None => ~IsReusable(Cached)
  /\ fresh' = Append(fresh, Head(todo))
  /\ todo' = Tail(todo)
  /\ UNCHANGED <<jvars, proc, runs, scan, copying, outcomes, batches, pending, tasks, activeKeys,
                 joined, joinedOuts, completed, firstError, budget>>

\* Every job is looked up: group, and call the scheduler.
Group ==
  /\ proc = "reuse" /\ copying = None /\ todo = << >>
  /\ batches' = GroupPendingReviews(fresh, BatchSize, MaxPromptChars)
  /\ pending' = DOMAIN batches'
  /\ proc' = "running"
  /\ UNCHANGED <<jvars, runs, scan, todo, copying, fresh, outcomes, tasks, activeKeys,
                 joined, joinedOuts, completed, firstError, budget>>
-----------------------------------------------------------------------------
(***************************************************************************)
(* A review task, run_review_unit.  `queue` is pending_batches, `done` the *)
(* completion_count of its first element, `calls` the provider calls made  *)
(* for it, `owed` a usage that is in the journal and not yet charged.      *)
(***************************************************************************)
NewTask(batch) ==
  [queue |-> <<[k \in DOMAIN batch |-> batch[k].unit]>>,
   done |-> 0, calls |-> 0, owed |-> 0, outs |-> << >>, st |-> "run"]

NextBatch(task, q, outs) ==
  [queue |-> q, done |-> 0, calls |-> 0, owed |-> 0, outs |-> outs,
   st |-> IF q = << >> THEN "ok" ELSE "run"]

\* Tasks keep running while the scheduler waits, persists or aborts.
Working(i) ==
  /\ proc \in {"running", "aborting"}
  /\ i \in DOMAIN tasks
  /\ tasks[i].st = "run" /\ tasks[i].owed = 0

TaskStep(i, t) ==
  /\ tasks' = [tasks EXCEPT ![i] = t]
  /\ UNCHANGED <<proc, runs, scan, todo, copying, fresh, outcomes, batches, pending,
                 activeKeys, joined, joinedOuts, completed, firstError, budget>>

\* usage_completion, first half: the usage entry, under the journal's lock.
ModelCall(i, c) ==
  /\ Working(i) /\ tasks[i].calls < MaxCalls
  /\ RecordUsage(c)
  /\ TaskStep(i, [tasks[i] EXCEPT !.calls = @ + 1, !.owed = c])

\* Mutant: the usage is journaled and never charged.
ChargeNothing(i) ==
  /\ i \in DOMAIN tasks /\ tasks[i].owed # 0
  /\ tasks' = [tasks EXCEPT ![i].owed = 0]
  /\ UNCHANGED <<jvars, proc, runs, scan, todo, copying, fresh, outcomes, batches, pending,
                 activeKeys, joined, joinedOuts, completed, firstError, budget>>

\* Second half: the charge, under the budget's lock.
Charge(i) ==
  /\ i \in DOMAIN tasks /\ tasks[i].owed # 0
  /\ budget' = [budget EXCEPT !.spent = @ + tasks[i].owed]
  /\ tasks' = [tasks EXCEPT ![i].owed = 0]
  /\ UNCHANGED <<jvars, proc, runs, scan, todo, copying, fresh, outcomes, batches, pending,
                 activeKeys, joined, joinedOuts, completed, firstError>>

\* A usage entry or a completion that cannot be appended fails the task: the
\* message is none that recoverable_method_review_error knows.
CallbackFails(i) ==
  /\ Working(i)
  /\ \/ /\ tasks[i].calls < MaxCalls
        /\ \E c \in Costs : RecordFails(Entry("usage", None, c, FALSE))
     \/ /\ tasks[i].calls > 0
        /\ \E r \in BOOLEAN :
             RecordFails(Entry("unit", tasks[i].queue[1][tasks[i].done + 1], 0, r))
  /\ TaskStep(i, [tasks[i] EXCEPT !.st = "err"])

\* item_completion for the next method of the batch; after the last one the
\* batch returns Ok and its outcomes are kept, marked persisted.
ItemComplete(i, retry) ==
  LET task == tasks[i]
      unit == task.queue[1][task.done + 1]
      outs == Append(task.outs, [unit |-> unit, retry |-> retry, persisted |-> TRUE])
  IN  /\ Working(i) /\ task.calls > 0
      /\ Record(unit, 0, retry)
      /\ TaskStep(i, IF task.done + 1 = Len(task.queue[1])
                     THEN NextBatch(task, Tail(task.queue), outs)
                     ELSE [task EXCEPT !.done = @ + 1, !.outs = outs])

\* Mutant: a batch is split even when some of its methods are durable.
BatchFailsSplits(i) ==
  LET task  == tasks[i]
      batch == task.queue[1]
      half  == Len(batch) \div 2
  IN  /\ Working(i) /\ UNCHANGED jvars
      /\ \/ /\ Len(batch) > 1
            /\ TaskStep(i, NextBatch(task,
                 <<SubSeq(batch, 1, half), SubSeq(batch, half + 1, Len(batch))>>
                   \o Tail(task.queue), task.outs))
         \/ /\ task.done = 0 /\ Len(batch) = 1
            /\ TaskStep(i, NextBatch(task, Tail(task.queue),
                 Append(task.outs, [unit |-> batch[1], retry |-> TRUE, persisted |-> FALSE])))

\* Mutant: a batch is asked for again as it is.
BatchFailsWhole(i) ==
  LET task == tasks[i]
  IN  /\ Working(i) /\ UNCHANGED jvars
      /\ \/ /\ task.done = 0
            /\ TaskStep(i, NextBatch(task, task.queue, task.outs))
         \/ /\ task.done > 0
            /\ TaskStep(i, [task EXCEPT !.st = "err"])

\* The batch ends with a recoverable error (invalid model output): it is
\* split in two, or its one method is unresolved, or, when methods of it are
\* durable already, the task fails.
BatchFails(i) ==
  LET task  == tasks[i]
      batch == task.queue[1]
      half  == Len(batch) \div 2
  IN  /\ Working(i) /\ UNCHANGED jvars
      /\ \/ /\ task.done = 0 /\ Len(batch) > 1
            /\ TaskStep(i, NextBatch(task,
                 <<SubSeq(batch, 1, half), SubSeq(batch, half + 1, Len(batch))>>
                   \o Tail(task.queue), task.outs))
         \/ /\ task.done = 0 /\ Len(batch) = 1
            /\ TaskStep(i, NextBatch(task, Tail(task.queue),
                 Append(task.outs, [unit |-> batch[1], retry |-> TRUE, persisted |-> FALSE])))
         \/ /\ task.done > 0
            /\ TaskStep(i, [task EXCEPT !.st = "err"])

\* Any other error (transport, provider, unreadable file), or a panic.
TaskFails(i, st) ==
  /\ Working(i)
  /\ TaskStep(i, [tasks[i] EXCEPT !.st = st])
  /\ UNCHANGED jvars
-----------------------------------------------------------------------------
(***************************************************************************)
(* run_bounded_review_tasks_keyed_until, with the callbacks of this stage. *)
(***************************************************************************)
Concurrency == IF MaxConcurrency = 0 THEN 1 ELSE MaxConcurrency

Eligible(i) == CacheKeys(batches[i]) \cap activeKeys = {}

CanFill ==
  /\ ~firstError
  /\ Cardinality(DOMAIN tasks) < Concurrency
  /\ CanStart
  /\ \E i \in pending : Eligible(i)

AtLoop == proc = "running" /\ joined = 0

\* The tasks with a new one for batch i.
Spawn(i) == [j \in DOMAIN tasks \cup {i} |-> IF j = i THEN NewTask(batches[i]) ELSE tasks[j]]

\* Mutant: a batch is started although its files are in review.
StartTaskAnyFile(i) ==
  /\ AtLoop /\ CanFill
  /\ i \in pending
  /\ pending' = pending \ {i}
  /\ tasks' = Spawn(i)
  /\ activeKeys' = activeKeys \cup CacheKeys(batches[i])
  /\ UNCHANGED <<jvars, proc, runs, scan, todo, copying, fresh, outcomes, batches,
                 joined, joinedOuts, completed, firstError, budget>>

StartTask(i) ==
  /\ AtLoop /\ CanFill
  /\ i \in pending /\ Eligible(i)
  /\ \A j \in pending : j < i => ~Eligible(j)
  /\ pending' = pending \ {i}
  /\ tasks' = Spawn(i)
  /\ activeKeys' = activeKeys \cup CacheKeys(batches[i])
  /\ UNCHANGED <<jvars, proc, runs, scan, todo, copying, fresh, outcomes, batches,
                 joined, joinedOuts, completed, firstError, budget>>

Joining(i, st) ==
  /\ AtLoop /\ ~CanFill
  /\ i \in DOMAIN tasks /\ tasks[i].st = st
  /\ tasks' = [j \in DOMAIN tasks \ {i} |-> tasks[j]]
  /\ UNCHANGED <<jvars, proc, runs, scan, todo, copying, fresh, outcomes, batches, pending,
                 completed, budget>>

JoinOk(i) ==
  /\ Joining(i, "ok")
  /\ activeKeys' = activeKeys \ CacheKeys(batches[i])
  /\ joined' = i /\ joinedOuts' = tasks[i].outs
  /\ UNCHANGED firstError

JoinErr(i) ==
  /\ Joining(i, "err")
  /\ activeKeys' = activeKeys \ CacheKeys(batches[i])
  /\ firstError' = TRUE
  /\ UNCHANGED <<joined, joinedOuts>>

\* A panicked task's keys are never released.
JoinPanic(i) ==
  /\ Joining(i, "panic")
  /\ firstError' = TRUE
  /\ UNCHANGED <<activeKeys, joined, joinedOuts>>

Unpersisted == {k \in DOMAIN joinedOuts : ~joinedOuts[k].persisted}

\* on_completed: the outcomes no task has persisted are appended, in order.
PersistOutcome ==
  /\ proc = "running" /\ joined # 0 /\ Unpersisted # {}
  /\ LET k == Min(Unpersisted)
     IN  /\ Record(joinedOuts[k].unit, 0, joinedOuts[k].retry)
         /\ joinedOuts' = [joinedOuts EXCEPT ![k].persisted = TRUE]
  /\ UNCHANGED <<proc, runs, scan, todo, copying, fresh, outcomes, batches, pending, tasks,
                 activeKeys, joined, completed, firstError, budget>>

\* An append fails: abort_all, and the error is what the run returns.
PersistFails ==
  /\ proc = "running" /\ joined # 0 /\ Unpersisted # {}
  /\ LET k == Min(Unpersisted)
     IN  RecordFails(Entry("unit", joinedOuts[k].unit, 0, joinedOuts[k].retry))
  /\ proc' = "aborting"
  /\ joined' = 0 /\ joinedOuts' = << >>
  /\ UNCHANGED <<runs, scan, todo, copying, fresh, outcomes, batches, pending, tasks,
                 activeKeys, completed, firstError, budget>>

\* Mutant: the batch counts as completed with outcomes still unpersisted.
PushCompletedEarly ==
  /\ proc = "running" /\ joined # 0
  /\ completed' = completed \cup {joined}
  /\ outcomes' = [u \in Units |->
       outcomes[u] \o [k \in 1..Cardinality({j \in DOMAIN joinedOuts : joinedOuts[j].unit = u})
                         |-> \E j \in DOMAIN joinedOuts :
                               joinedOuts[j].unit = u /\ joinedOuts[j].retry]]
  /\ joined' = 0 /\ joinedOuts' = << >>
  /\ UNCHANGED <<jvars, proc, runs, scan, todo, copying, fresh, batches, pending, tasks,
                 activeKeys, firstError, budget>>

PushCompleted ==
  /\ proc = "running" /\ joined # 0 /\ Unpersisted = {}
  /\ completed' = completed \cup {joined}
  /\ outcomes' = [u \in Units |->
       outcomes[u] \o [k \in 1..Cardinality({j \in DOMAIN joinedOuts : joinedOuts[j].unit = u})
                         |-> \E j \in DOMAIN joinedOuts :
                               joinedOuts[j].unit = u /\ joinedOuts[j].retry]]
  /\ joined' = 0 /\ joinedOuts' = << >>
  /\ UNCHANGED <<jvars, proc, runs, scan, todo, copying, fresh, batches, pending, tasks,
                 activeKeys, firstError, budget>>

\* abort_and_drain drops a task at one of its await points.
Drain(i) ==
  /\ proc = "aborting"
  /\ i \in DOMAIN tasks /\ tasks[i].owed = 0
  /\ tasks' = [j \in DOMAIN tasks \ {i} |-> tasks[j]]
  /\ UNCHANGED <<jvars, proc, runs, scan, todo, copying, fresh, outcomes, batches, pending,
                 activeKeys, joined, joinedOuts, completed, firstError, budget>>

\* validate_method_coverage: one outcome for every method of the scan.
Covered ==
  \A u \in Units : Len(outcomes[u]) = IF u \in JobSet(scan) THEN 1 ELSE 0

\* Mutant: the run only returns with an empty queue.
FinishWhenEmpty ==
  /\ \/ proc = "aborting" /\ tasks = << >>
     \/ AtLoop /\ pending = {} /\ tasks = << >>
  /\ proc' = IF proc = "aborting" \/ firstError \/ ~Covered THEN "failed" ELSE "done"
  /\ Close
  /\ UNCHANGED <<runs, scan, runVars>>

\* The run returns, and its store is dropped with it.
Finish ==
  /\ \/ proc = "aborting" /\ tasks = << >>
     \/ AtLoop /\ ~CanFill /\ tasks = << >>
  /\ proc' = CASE proc = "aborting" \/ firstError -> "failed"
               [] AtLoop /\ ~firstError /\ pending # {} -> "paused"
               [] AtLoop /\ ~firstError /\ pending = {} ->
                    IF Covered THEN "done" ELSE "failed"
  /\ Close
  /\ UNCHANGED <<runs, scan, runVars>>

\* The process dies; the journal keeps what was written, perhaps torn.
Die ==
  /\ proc \notin Ended
  /\ Crash
  /\ proc' = "idle" /\ todo' = << >>
  /\ Fresh(None, 0)
  /\ UNCHANGED <<runs, scan>>

RunStep ==
  \/ ReuseOwn \/ ReuseAcross \/ CopyAcross \/ ReuseFails \/ Reject \/ NeedsReview
  \/ \E i \in DOMAIN tasks :
       \/ \E c \in Costs : ModelCall(i, c)
       \/ Charge(i) \/ CallbackFails(i)
       \/ \E r \in BOOLEAN : ItemComplete(i, r)
       \/ BatchFails(i)
       \/ \E st \in {"err", "panic"} : TaskFails(i, st)
       \/ JoinOk(i) \/ JoinErr(i) \/ JoinPanic(i) \/ Drain(i)
  \/ \E i \in pending : StartTask(i)
  \/ PersistOutcome \/ PersistFails \/ PushCompleted \/ Finish

\* The run leaves its look-up loop: in SNext only Group does that.
LeaveReuse == proc = "reuse" /\ copying = None /\ todo = << >> /\ proc' = "running"

SNext ==
  \/ \E s \in Scans, limit \in Limits : StartScan(s, limit)
  \/ \E s \in Scans : StartScanFails(s)
  \/ Group
  \/ RunStep
  \/ Die

SSpec == SInit /\ [][SNext]_svars

(***************************************************************************)
(* Fairness: the runtime polls the run and its tasks.  A provider call is  *)
(* answered or timed out, and an attempt makes a bounded number of them.   *)
(***************************************************************************)
FairSSpec == SSpec /\ WF_svars(RunStep) /\ WF_proc(LeaveReuse)
-----------------------------------------------------------------------------
STypeOK ==
  /\ JTypeOK
  /\ proc \in Ended \cup {"reuse", "running", "aborting", "rejecting"}
  /\ (store = None) <=> (proc \in Ended)
  /\ pending \subseteq DOMAIN batches /\ DOMAIN tasks \subseteq DOMAIN batches
  /\ \A i \in DOMAIN tasks :
       /\ tasks[i].st \in {"run", "ok", "err", "panic"}
       /\ tasks[i].st = "run" => tasks[i].done < Len(tasks[i].queue[1])
       /\ tasks[i].st = "ok" => tasks[i].queue = << >>
  /\ \A u \in Units : Len(outcomes[u]) <= 1

LinesOf(s, u) ==
  {i \in DOMAIN lines : lines[i].kind = "unit" /\ lines[i].scan = s /\ lines[i].unit = u}

\* What is durable about a method in a scan.
Status(s, u) ==
  LET entries == LinesOf(s, u)
  IN  IF entries = {} THEN "none"
      ELSE IF lines[Max(entries)].retry THEN "retryable" ELSE "final"

(***************************************************************************)
(* The stage implements ReviewLedger: whatever the interleaving of tasks,  *)
(* failed appends, crashes, pauses and resumes, a final review stays       *)
(* final, and a run that returns Ok reports every method of its scan with  *)
(* exactly the durable status (so an outcome that exists only in memory,   *)
(* or a method lost between two batches, is never reported).               *)
(***************************************************************************)
Ledger == INSTANCE ReviewLedger WITH
  UnitsOf  <- [s \in Scans |-> JobSet(s)],
  NoReport <- None,
  status   <- [s \in Scans |-> [u \in Units |-> Status(s, u)]],
  report   <- IF proc # "done" THEN None
              ELSE [scan |-> scan, unresolved |-> {u \in JobSet(scan) : outcomes[u][1]}]

ImplementsLedger == Ledger!Spec

(***************************************************************************)
(* The stage drives the keyed scheduler as ReviewScheduler describes it,   *)
(* so what is proved there holds here: no file is reviewed by two tasks at *)
(* once, no batch is lost, and the run only stops early with a budget.     *)
(***************************************************************************)
KeysFor == [i \in DOMAIN batches |-> CacheKeys(batches[i])]

PhaseOf(p) ==
  CASE p \in {"running", "aborting"} -> p
    [] p = "done" -> "ok"
    [] p = "paused" -> "early"
    [] p = "failed" -> "err"
    [] OTHER -> "idle"

Admit == proc \in {"running", "aborting", "done", "paused", "failed"} => CanStart

Scheduler == INSTANCE ReviewScheduler WITH
  Keys    <- Paths,
  Queues  <- BoundedSeq(SUBSET Paths, Cardinality(Units)),
  keysFor <- KeysFor,
  running <- DOMAIN tasks,
  phase   <- PhaseOf(proc),
  admit   <- Admit

ImplementsScheduler == Scheduler!Spec

(***************************************************************************)
(* README.md:421-422: "Every completed review is durably appended to a     *)
(* local journal for safe resume": whatever happened to a run, the next    *)
(* one can read the journal.                                               *)
(***************************************************************************)
ResumeStaysPossible == Readable(lines)

(***************************************************************************)
(* No method is reviewed again once it has a final review under the same   *)
(* review context, in whichever scan: every later entry for it is a final  *)
(* copy, written right behind its reuse manifest.  (A scan that comes back *)
(* after another one copied its review copies it back: completed is keyed  *)
(* by unit, and the latest entry is the other scan's.)                     *)
(***************************************************************************)
NeverReviewedTwice ==
  \A u \in Units, s \in Scans, r \in Scans :
    \A i \in LinesOf(s, u), j \in LinesOf(r, u) :
      /\ i < j /\ ~lines[i].retry /\ ContextOf[s] = ContextOf[r]
      => /\ ~lines[j].retry
         /\ lines[j - 1].kind = "reuse"
         /\ lines[j - 1].scan = r /\ lines[j - 1].unit = u

(***************************************************************************)
(* A budget pause tells the truth (budget_pause: "Completed work is        *)
(* journaled; resume with a higher --budget-usd limit"): the journaled     *)
(* spend has reached the limit, and every method of a batch that was       *)
(* started is in the journal, so the running batches have been drained     *)
(* and persisted.                                                          *)
(***************************************************************************)
PauseIsHonest ==
  proc = "paused" =>
    /\ budget.spent >= budget.limit
    /\ SpentIn(lines, scan) = budget.spent
    /\ \A i \in DOMAIN batches \ pending :
         \A k \in DOMAIN batches[i] : Status(scan, batches[i][k].unit) # "none"

(***************************************************************************)
(* The spend that decides admission is the journaled spend, short only of  *)
(* the usages that tasks have written and not yet charged, or whose append *)
(* reported an error after the line was complete: a resumed run starts     *)
(* from the same number a run that never stopped would have.               *)
(***************************************************************************)
ChargesMatchJournal ==
  proc \in {"running", "aborting"} /\ Readable(lines) =>
    budget.spent + MapThenSumSet(LAMBDA i : tasks[i].owed, DOMAIN tasks)
      \in {SpentIn(lines, scan) - d : d \in 0..(faults * Max(Costs))}

\* In a queue of batches of which d methods of the first are done already,
\* method l of batch k is still to be reviewed.
Ahead(d, k, l) == k = 1 => l > d

LeftIn(q, d) == UNION {{q[k][l] : l \in {n \in DOMAIN q[k] : Ahead(d, k, n)}} : k \in DOMAIN q}

\* More than the steps of one attempt: its provider calls and their charges.
AttemptSteps == 2 * MaxCalls + 1

\* What a task has ahead of it.  A batch of n methods is asked for at most
\* 2n - 1 times, as it is split each time; a queue of batches, less often.
TaskAhead(t) ==
  LET attempts == 2 * Cardinality(LeftIn(t.queue, t.done)) - Len(t.queue)
      calls    == IF t.calls < MaxCalls THEN MaxCalls - t.calls ELSE 0
  IN  (IF t.st = "run" THEN AttemptSteps * attempts + 2 * calls ELSE 0)
      + (IF t.owed = 0 THEN 0 ELSE 1)

\* What is ahead of a batch: its attempts, the outcomes that have to be
\* persisted, one step each for being started, joined and pushed.
BatchAhead(i) ==
  IF i \in pending THEN 2 * AttemptSteps * Len(batches[i]) + Len(batches[i]) + 2
  ELSE IF i \in DOMAIN tasks THEN TaskAhead(tasks[i]) + Len(batches[i]) + 2
  ELSE IF i = joined THEN Cardinality(Unpersisted) + 1
  ELSE 0

\* What is ahead of the look-up, and the stages that a run goes through.
LookUpsAhead == 2 * Len(todo) + (IF copying = None THEN 1 ELSE 0)

StagesAhead ==
  CASE proc = "reuse" -> 3 [] proc = "running" -> 2
    [] proc \in {"aborting", "rejecting"} -> 1 [] proc \in Ended -> 0

\* A step nearer to the end of the run: in its stage the look-up has less to
\* do, or a batch has and no other one has more.
Nearer ==
  \/ StagesAhead' < StagesAhead
  \/ /\ StagesAhead' = StagesAhead /\ batches' = batches
     /\ \/ LookUpsAhead' < LookUpsAhead
        \/ /\ LookUpsAhead' = LookUpsAhead
           /\ \A i \in DOMAIN batches : BatchAhead(i)' <= BatchAhead(i)
           /\ \E i \in DOMAIN batches : BatchAhead(i)' < BatchAhead(i)

(***************************************************************************)
(* Whatever answers come, whatever fails and in whichever order the tasks  *)
(* go, every step brings the run nearer to its end: a batch that fails is  *)
(* split and never asked for again as it is (run_review_unit), an outcome  *)
(* is persisted once, a batch is started once.                             *)
(***************************************************************************)
RunShrinks == [][proc \notin Ended /\ proc' # "idle" => Nearer]_svars

(***************************************************************************)
(* A run that is not killed ends: splitting failed batches, persisting,    *)
(* draining and aborting never leave it waiting.                           *)
(***************************************************************************)
RunEnds == proc \notin Ended ~> proc \in Ended
=============================================================================
