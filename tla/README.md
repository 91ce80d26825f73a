# Verification of Sniff's review engine in TLA+

Sniff scans a repository, has a language model review every method, synthesises
slop cases from the reviews, adjudicates them, and writes a report. A scan takes
long, costs money, and is expected to be interrupted. What makes it hard to get
right is the part between parsing and reporting: concurrent review tasks that
write to one append-only journal and charge one budget, runs that crash, pause
or fail at any point, and later runs that resume from what the journal holds.
That part is modelled here, from a single provider call to whole scans beside
each other, and with it the one other store that has to survive a crash, the
progress of the compiler-backed semantic index.

## Inventory

| Component | State | Operations | Talks to |
|---|---|---|---|
| Review scheduler (`analyzer_engine_jobs.rs`, `run_bounded_review_tasks_keyed_until`) | queue, `JoinSet`, active keys, completed items, first error | start, join (ok, error, panic), completion callback, drain or abort, return | calls the task and the callback its caller passes, asks the budget |
| Review journal (`analyzer_journal.rs`) | a file of JSON lines; a store per process with the completed units and the spend | load, torn-tail recovery, manifests, record, usage, cross-scan reuse | every stage that asks the model |
| Batching (`group_pending_reviews`) | none (two passes over the queue) | group | run between the journal look-up and the scheduler |
| Method-review stage (`run_review_jobs_with_records`, `analyzer_method_batch.rs`) | outcomes, batches, tasks, spend budget | reuse, review, split a failed batch, persist, pause, check coverage | journal, batching, scheduler, provider |
| Case synthesis (`synthesis.rs`) | cases per unit | ask, journal, reuse | journal, provider |
| Case adjudication (`synthesis.rs`, `slop_cases.rs`) | decisions per chunk, kept cases | ask, parse, journal, reuse, apply | journal, provider |
| Counterfactual proofs (`counterfactual.rs`) | proof ledgers | ask, journal, reuse, validate | journal, provider, compilers |
| File roles (`roles.rs`) | role per file | classify | journal, provider |
| Provider calls (`llm_call*.rs`, `llm_retry.rs`) | permits, attempts, deadlines, repairs | call, time out, retry, repair | provider |
| Scan lock (`scan_lock.rs`) | in-process reservations, directory locks | acquire, release | the scan |
| Pipeline and completed run (`cli_pipeline_*.rs`, `completed_run.rs`) | stage results, report, machine record | run the stages in order, summarize the journal, write both files | all of the above |
| Indexer progress store (`semantic_indexer_progress*.rs`, `semantic_indexer_go_runner.rs`) | scope, unit checkpoints, assemblies, temporary files | recover, open, load, publish, prune | the indexer drivers, the file system |
| Indexers and sandbox | external processes | install, run, collect | compilers, operating system |
| Parsers and static signals | none | extract | tree-sitter |
| SniffBench | sealed data sets | evaluate | offline |

The hard behaviours are:

- **Concurrency.** Tasks finish, fail and panic in any order while the scheduler
  starts others; keys (files) are exclusive; the journal and the budget are
  shared under two different locks.
- **Crashes.** A process may die inside an append. What the next process reads
  decides what is reviewed again and what is paid for again.
- **Partial failure.** An append may fail while other tasks keep appending; a
  batch may fail after some of its methods are durable.
- **Reuse.** Reviews are keyed by unit and review context, not by scan, so a scan
  takes over what another one journaled.
- **Time.** An attempt has a watchdog, a call a budget that runs while it still
  waits for its permit, and retries of three kinds have counters of their own.
- **Several processes.** Scans of different repositories may share a report
  directory, and with it a journal.
- **Ordering.** Some results are made durable before they are known to be usable.

What makes each component correct is stated with its runs below; the hazards, at
the line where each one bites, are in `PROJECT.json`, with the properties that
would catch them. A hazard without a property has a note that says why.

## Modules

| Module | Models | Extends / instantiates |
|---|---|---|
| `ReviewScheduler` | the keyed scheduler, for any tasks and callbacks | |
| `ReviewJournal` | the journal file and the store of the one running process | |
| `ReviewBatching` | both passes of `group_pending_reviews`, as folds | |
| `CaseSplitting` | grouping and splitting of the cases for adjudication, as folds | |
| `PromptPacking` | the inputs of these two algorithms and what they promise | extends `ReviewBatching`, `CaseSplitting` |
| `ReviewLedger` | abstract: what the method stage promises | |
| `MethodStage` | the method stage, its tasks and its runs | extends `ReviewJournal`, `ReviewBatching`; instantiates `ReviewScheduler` and `ReviewLedger` as refinement targets |
| `CaseAdjudication` | parsing, journaling, reuse and application of decisions | |
| `ProviderCalls` | calls of the provider that share permits, with time | |
| `ScanPipeline` | whole scans in several processes: locks, journal, record, report | |
| `UnitLedger` | abstract: what a progress store promises | |
| `IndexerProgress` | the progress store's files and the Go driver | instantiates `UnitLedger` |
| `FoldFacts` | facts about folds over sequences, for any step and any base | |
| `ReviewSchedulerProofs`, `ReviewJournalProofs`, `IndexerProgressProofs`, `ProviderCallsProofs`, `ScanPipelineProofs` | theorems | extend the module of their name; the last and `ReviewJournalProofs` instantiate `FoldFacts` with their folds |
| `PromptProofs` | theorems | extends `PromptPacking` and `CaseAdjudication`; instantiates `FoldFacts` |
| `MethodStageProofs` | theorems | extends `MethodStage` and `ReviewJournalProofs`; instantiates `FoldFacts`, and `ReviewSchedulerProofs` with the stage's view of the scheduler |
| `MC*` | instances for TLC | |

A definition whose comment begins with *Mutant* is a plausible slip in the code
(a dropped guard, an early push). It is used by nothing in the module; it exists
so that each property can be seen to fail when the definition after it is
replaced by it.

### ReviewScheduler

`Call` is the head of the function. `Start(i)` is one turn of the fill loop: the
*first* pending item whose keys are free, while there is no error, a slot is free
and `can_start()` agrees. `JoinOk`, `JoinErr` and `JoinPanic` are the three results
of `join_next`; a panicked task is joined without its item, so its keys stay
claimed, as in the code. `OnCompletedOk` and `OnCompletedErr` are the awaited
callback, whose error leads to `abort_and_drain` (`Drain`, `Aborted`). `Return` is
the end of the loop with its three results. `CloseAdmission` is the caller's
budget running out at any moment, and `Exit` the end of the process. Items are
named by their position in the submitted queue: the `VecDeque` only loses
elements, so a set of positions with "least eligible first" is the queue.

### ReviewJournal

The file is a sequence of complete lines and one bit, `torn`: bytes follow the
last newline. A line is an entry or `Garbled`, which is what two appends on one
line leave. Of an entry the fields that decide control are kept (kind, scan, stage,
unit, expected units, cost, `retry_on_resume`); token counters move with the spend
and what a review says is left out. `LoadForScan` is the whole of
`load_for_scan`: it reads, cuts the torn tail, refuses an unreadable file, appends
the manifest if this scan and stage have none, and fills the store. `Record`,
`RecordUsage` and `RecordCrossScanReuse` append and update the store.
`RecordFails` and `LoadManifestFails` are an append that returns an error having
written nothing, part of the line, or all of it (`sync_data` failed). `Crash` may
leave the tail torn.

Assumed: one journal version; the unit id hashes the source, so the
source hash need not be compared again; a scan has one review context; the scan lock
lets one process at a time have the journal.

### ReviewBatching

The two loops of `group_pending_reviews`, each as a fold over the state of its
locals, on top of the code's estimates. Saturating additions are kept, with
`UsizeMax` standing for `usize::MAX`; a file review has that estimate.

### MethodStage

`StartScan` and `StartScanFails` load the journal. While `proc = "reuse"`, one job
at a time is looked up: taken over from this scan (`ReuseOwn`), from another one
(`ReuseAcross` writes the reuse manifest, `CopyAcross` the copied entry, with a crash
possible between), refused (`Reject`) or left for review (`NeedsReview`). `Group`
is the call of `group_pending_reviews`. The scheduler's actions are repeated here
with their real tasks and their real callback. A task holds the queue of its own
attempts, which a failed batch with nothing durable splits in halves
(`BatchFails`). `ModelCall` journals a usage under the journal's lock, `Charge`
charges the budget afterwards under the budget's; `ItemComplete` journals a method's
review; `CallbackFails` is either append failing. The completion callback
journals one outcome per step (`PersistOutcome`) and then pushes the batch
(`PushCompleted`). `Finish` is the end of the loop: the pause, the first error or
the coverage check. `Die` is the end of the process anywhere.

A provider call is reduced to what it leaves behind: a usage entry and a charge.
The passes of `analyze_method_review_batch` decide only how many calls a batch
makes and which verdicts come out; here any number from one to `MaxCalls` and any
verdict. The command line runs without file reviews (`cli_pipeline_llm.rs:134`),
so file jobs occur in `ReviewBatching` only.

### ReviewLedger

A durable status per scan and method (none, retryable, final) and a published result.
A final review never changes; a method that a scan under the same review context has
finished is only taken over; a published result covers every method of its scan and says what the durable
status says. `MethodStage` implements it, with the status read off the journal's
lines and the result off the outcomes in memory: a result that exists only in
memory, or a method lost between two batches, would break the refinement.

### CaseAdjudication

The chunks are an input. `AnswerRejected` and `AnswerParsed` are the model's answer,
drawn from every ledger that `Parses` refuses or accepts (one decision too few or as
many as there are cases, repeated cases, unknown targets). `AnswerParsed` journals;
`RecordFails` is the append failing; `Reuse` takes a journaled ledger; `Apply` and
`ApplyFails` are `apply_case_adjudications`, merges in the code's order;
`Pause` is the budget, counted in journaled chunks because a rejected answer's
usage is not journaled; `Crash` is the end of the process. `outcome` is history: what the first
run that finished has kept.

### CaseSplitting

`Components` is `case_relationship_components`: the code links neighbours only
(`windows(2)`), which has the same connected components as linking all. Its search
with a stack is `Group`, a search in rounds that finds the same cases, as many rounds as
there are cases; `Ascending` is the sort of what a search found. `SplitStep` is
one turn of the loop of `split_adjudication_cases`, `CutStep` its inner loop. A
case adds its own number of characters to a prompt. The splitting has a
peculiarity that the property does not forbid and no document rules out: a group that
is too long is cut when no chunk is open and is an error otherwise, whose message
blames the group's first case. Only a case that is first in its cut is compared with
the limit; one that is too long by itself further back becomes a chunk, and is refused
only when it is asked.

### ProviderCalls

`execute_call` between its awaits: waiting for a permit, an attempt, a pause. Every
call has an age, which is what has passed of its retry budget from `MakeCall` on, and a
timer, for the watchdog or the pause. `Tick` lets time pass for all, never beyond a
timer that is due or code that can run (`Urgent`): what the code computes takes no
time. `TakeAnswer` is `classify_attempt`, `classify_error` and `apply_outcome`
together, over the answers that control tells apart; an answer may come at the very
moment a timer is due. `BudgetExpires` is the timeout around attempt and pause,
`Abort` a dropped task. A token stands for what an answer costs. `BackOff` keeps the
width of its shift: with the default of 128 attempts it wraps at the 65th in a
release build (a second's pause again) and panics in a debug build.

`returned`, `failed`, `received` and `empty` count tokens: those handed to the caller, those recorded
as failed usage, those of all answers that came in time, and the share of the last that
belongs to answers without text.

Three things the model made visible. A call that waits past its budget for a permit
ends without an attempt. An answer without text is charged by the provider and its tokens
are dropped before anybody counts them (`llm_response.rs:159`).
And a body that breaks off in transit counts as a malformed answer: it is retried without
a pause and then uses up the repairs, so a call can fail over its format although no
malformed answer came, where the repository's README speaks of separate budgets for
transport failures and malformed responses.

### ScanPipeline

One process runs `run` from the lock to the report. The two directories are locked one after the
other without waiting; dropping the guards, on every way out, is `Exit`, and `Stop` is a budget
pause, a failed stage or a killed process. The journal is a
sequence of entries, one file per report directory; `OpenJournal` is the load with
its manifest, `ReviewUnit` one unit of the method stage (looked up, copied or
reviewed), `OpenProofs` and `ProveCases` the proof stage, whose one unit is the set of
cases the reviews gave rise to. `BuildRecord` summarizes the journal and compares it
with the report, `WriteRecord`, `PublishReport` and `ReportFails` are the two files
and their failures. `published` and `abrupt` are history.

Left out: scans of a single file, which have a journal of their own; the reservation
inside a process, which excludes nothing the directory locks would not; the markers of
reused units, which go with their copies; the roles, synthesis and adjudication
stages, whose entries only add to the journal.

### IndexerProgress and UnitLedger

The store is a directory: `scope.json`, a checkpoint per unit, and an assembly (payload and
manifest) at each boundary of the plan. A file is what it was made from: a unit is the
compiler inputs it was indexed with, a payload the sequence of its units. Each file
operation is a step, and `Stop` may come between any two and leave the temporary file of the one
in flight. `Recover`, `CountDurable`, `Open` and `Load` validate as the code does, with
each reason to refuse kept apart. `Edit` changes the inputs between runs. Reads
that only validate are one step with what follows. The driver is that of Go:
documents, then pairs, an assembly after each phase. `UnitLedger` knows only the inputs the store is
bound to and how many units are durable.

Not modelled: a loss of power, after which removals that were not synced may be undone;
a run without a progress directory; damage by other programs. The driver is the one of the qualified
variants, which recovers every store before it opens one (`go_variant_execution_order`). Without
qualified variants the Go runner opens its store unrecovered
(`semantic_indexer_go_runner.rs:747`); that path is outside the model.

## Runs

| Run | Shows |
|---|---|
| `scheduler` | Keys are exclusive, nothing is lost from a call that returns `Ok`, an early stop always comes from a refused admission (the caller's `expect` never panics), every step of a call leaves it less to do (`CallShrinks`), and the call returns even when a panicked task keeps its keys. |
| `journal` | Crashes never make the file unreadable; what a process remembers (reviews and spend) is what a restart would read; every entry follows its one manifest; no complete line is ever changed. |
| `batching` | Batches are an ordered partition of the queue, within size and prompt limits, and no two neighbours of one file would fit in one. Chunks of cases keep together what is related and fits, are never too long, and are refused only over cases that do not fit. |
| `method_stage` | Two tasks on one journal and one budget: the stage drives the scheduler as specified, charges what it journals, pauses only when the journaled spend has reached the limit and everything started is durable, comes nearer to its end with every step (`RunShrinks`), and ends. |
| `method_resume` | Chains of runs of two scans implement `ReviewLedger`; a method with a final review is never reviewed again. |
| `adjudication` | A finished adjudication keeps exactly what was decided with all of its evidence and loses no case; every later run that finishes keeps the same cases (`ResumeKeepsOutcome`), whatever stopped the runs between, and the proofs that follow are journaled by these cases. |
| `provider` | Of the answers in time, a call that ends by itself hands on every token once, returned or recorded as failed, but those of answers without text; a call that is aborted hands on none (`UsageIsKept`). A permit is not held past the budget, attempts, retries and repairs stay within theirs, every step uses up some of what the calls may do (`EveryStepCounts`), and every call ends. |
| `progress` | The files implement `UnitLedger`; a committed unit stays recoverable and is never indexed again; an index handed over is of the current inputs; a store that only crashes touched is refused for two causes alone; every step brings a run closer to its end (`RunsShrink`), whatever earlier runs left, and every run ends. |
| `pipeline` | What a process remembers is what the file holds, beside any other process; a record is there only for a final scan; it stays when published and goes when its report fails; a final scan is refused its record for two causes alone. |

Three runs show a disagreement between the code and the repository's own words:

- `journal_after_failed_append`: an append that fails after part of its bytes are
  written leaves a torn line in a process that goes on. A second task that
  is in flight appends behind it; the line is then complete and not JSON, and every
  later load refuses the whole journal. README.md promises "safe resume". A
  crash at the same point is harmless (`CrashSafe`): only the
  living process does the damage.
- `poisoned_adjudication`: a ledger with a merge cycle, a merge into a case that is
  not kept, or a merge of different mechanisms parses, is journaled as completed, and only then
  fails to apply. Every resume takes it from the journal and fails again.
- `pipeline_doc`: a finished scan is recorded from the scan that wrote the journal's last
  entry. A scan that finds all its reviews in a shared journal (two repositories below
  one report directory, or a model switched and switched back) writes none, and
  its record then has the other scan's id, events, contract and usage. The usage
  shown in the report is filtered by scan, the record's is not. If the two have
  different numbers of units, the scan fails after its last stage instead.

Further disagreements, which have no run of their own:

- README.md:404 of the repository says "Methods from different files are never
  batched together". The second pass of `group_pending_reviews` packs them together
  (`analyzer_engine_jobs.rs:541`), and a test expects it
  (`pending_small_file_chunks_share_available_batch_capacity`); the theorem `BatchesAreFit` says that
  the code does so whenever it can. `BatchesFit`, which the `batching` run
  checks, takes no side: only of batches of one file it asks that none could be spared.
- CHANGELOG.md:10 says "Include exhausted validation attempts in token and cost totals". An
  answer without text is one of the malformed answers that use up the repairs, and its tokens,
  already computed, are dropped with the error (`llm_response.rs:159`). `UsageIsKept` states the
  loss exactly: these tokens, and those of aborted calls, and no others.
- `OnlyFinalPruningBlocks` says exactly when a progress store is lost: the full assembly
  is committed and the process stops before the older manifest is pruned; the next run
  prunes the units first (`load_assembly_normalized`) and stops again; from then on the
  older manifest cannot be validated. The tests in
  `semantic_indexer_progress_tests.rs:438` and `:527` say that a recovery finishes an
  interrupted pruning, and cover one interruption. The two stops it takes are those of the driver
  modelled, which recovers a store before it opens it; nothing is said of the path that does not.
- `RefusalHasACause` names the second way a final scan is refused: `summarize` compares
  the largest number of expected units with all distinct units of the scan. When a
  method that was unresolved comes back as slop, the resumed scan has other cases to
  prove, the journal has proofs for both, and the scan fails with more units
  completed than expected, at every resume. README.md:92-96 promises a record to
  final scans.

Two smaller observations, which contradict no document: a scan that comes back
after another one took its review over copies it back, because `completed` is keyed by
unit and the latest entry wins; and `reused_units` counts a unit twice when the
process dies between the reuse manifest and the copied entry.

### Bounds

- *scheduler*: three items on two keys with concurrency two is the least in which an
  eligible item overtakes a blocked one and a panicked task holds a key others wait for. Every
  queue within the bound is submitted, calls follow one another.
- *journal*: three scans of which two share a context, two stages that share a unit,
  one failing append, three lines (`LinesBound`): room for a manifest, an entry and
  a second manifest or entry, behind which a torn tail or a garbled line can come. The
  theorems cover any length and any number of failures.
- *batching*: all queues of up to five jobs (two files, small and large methods,
  file reviews), batch sizes 0 to 3 before clamping, limits that fit one
  method, two, or nearly all; all sequences of three cases (small or large, related by
  a unit, by a call, by their meaning or not at all), enough for a group that is too
  long behind an open chunk and in front of one.
- *method_stage*: three methods in two files make two batches for two tasks, one of
  two methods, so that it can be split and can be half durable; a budget that the
  first charge exhausts; one failing append; one run.
- *method_resume*: two scans over two methods, of which the second scan has one; three
  runs are the least in which a review is copied and copied back, and in which a run
  pauses and is resumed with a higher limit (limits of one and two calls); one task,
  as the interleavings are the other run's.
- *provider*: two calls on one permit, so that each waits for the other; five attempts,
  two retries of a prompt, two repairs and six ticks, of which each can run out first; a
  shift of three bits, which wraps at the fourth pause. The theorems cover any number of
  calls and permits.
- *progress*: the plan of three shards (three documents, three pairs, two assemblies), two
  inputs, five stops; the worst case of `OnlyFinalPruningBlocks` takes two stops, and
  later ones change nothing. The theorems cover any plan, any boundaries and any
  number of stops.
- *pipeline*: two processes and three runs over two repositories: two scans beside each
  other and one after them, or a scan, another one over the same journal, and the first
  again. The edited repository keeps a unit, so that reviews and proofs are copied
  between scans. The processes are interchangeable and are declared symmetric.
  *pipeline_doc* gives every scan a single unit: the two repositories have as many units,
  and the code's comparison of that count cannot tell their scans apart.
- *adjudication*: three cases that may be merged (chains, cycles, two into one) and
  two that may not; two runs.

`CHECK_DEADLOCK FALSE` stands where the bound on runs or inputs is all that stops the
model. The scheduler, the journal and the progress store never stop and are checked for
deadlock.

### Fairness

`CallReturns` assumes that the scheduler's future is polled and that every task
ends; `RunEnds` assumes the same of a run (`RunStep`). Tokio polls what is woken, and
a review ends because each provider attempt has a timeout, each call a retry
deadline, and each batch a bounded number of calls. Nothing is assumed about
crashes, failing appends or which task finishes first: `Die`, `CloseAdmission` and
the start of runs are not fair. Leaving the look-up loop has its own conjunct
(`LeaveReuse`), because TLC cannot evaluate whether `Group`, a fold, is enabled in
reasonable time; only `Group` takes that step.

`CallsEnd` assumes that time passes (`Tick`) and that the runtime polls each call
whose timer or permit is there (`Run`); tokio's semaphore hands its permits out in
order. Nothing is assumed about answers or aborts. `RunsEnd` assumes that the
process goes on; stops are bounded, edits and new runs are not fair.

## Proofs

`ReviewSchedulerProofs` proves the safety properties of the scheduler, those of the run
and two more (an item is started once, the concurrency is respected), for
every set of keys, concurrency and queue, from `SchedulerAssumption` (the concurrency is a natural number,
queues are sequences of key sets). `KeyExclusion` is not inductive: two running
items are disjoint only because each holds its claims. `IInv` adds that running
items hold their keys (`ClaimsHeld`); that, until an error, no key is held by
anyone else (`NoStrayClaim`), which is why a call that has nothing in flight
and no error can always start something and so never stops early on its own;
that nothing is unaccounted for without an error (`Accounted`); and what
each return means (`OkReturn`). There is one lemma per action. `WithinConcurrency` has its own
induction, over cardinalities. `SchedulerCallShrinks` adds to the invariant that what a call works
on is finite (`WorkIsFinite`) and shows, action by action, that `Ahead` falls: an item costs
three, two once it is started, one while its callback is due.

`ReviewJournalProofs` proves every property of the `journal` run for any scans, stages
and units, files of any length, and any number of crashes and failing appends, from
`JournalAssumption`. `JInv` adds to
`CrashSafe` that a process appends behind a newline unless an append has failed
(`CleanTail`: the load cuts the tail before anyone appends), and to `ManifestFirst`
that a process has made sure of its manifest (`Introduced`). `CompletedMirrorsFile`
rests on a lemma about the last matching position of a sequence after one append
(`LatestAfterAppend`); `SpendMirrorsFile` on the two equations of the sum over the file
(`SpentIn`, a fold).

`FoldFacts` is what the proofs about sums and other folds share. The library's induction
theorems take an operator as a parameter, which the provers cannot instantiate; here the
step, the base and the formula to prove are constants, which an `INSTANCE` gives their
values. `FoldEmpty` and `FoldAppend` are the two equations of a fold, `FoldInduction` says that what
holds at the start and survives every step holds of the fold. All rest on the least
counterexample among the natural numbers (`LeastNumber`). `Fold` is `FoldLeft` of the community
modules with its definition written out, so that an instance brings no more with it than it
must; each user shows the two equal by expanding them.

`IndexerProgressProofs` proves every property of the `progress` run but
`RunsEnd` (and of that the safety half, `RunsShrink`), for plans of any length, any boundaries and any
number of stops. None of them is inductive: `IInv` says of the files that the
units committed so far are a prefix of the plan, that each is in its checkpoint or
below a committed assembly, and that every file was made from the inputs in the scope
(`FilesInv`); and of the process what it holds at every point of the program
(`ProcessInv`). There is a lemma per action. The refinement has one step for each of
`Bind` and `Commit`; the other actions stutter because `Durable`, which is read off files that are
being pruned, is the length of the committed prefix throughout (`DurableIs`).
`OnlyFinalPruningBlocks` needs the number of stops that each state of the pruning
takes (`BlockInv`): one to leave an older manifest beside the full assembly, a second one
to leave it there without the units it is validated against. `RunsShrink` counts the stages
ahead twice and the removable files once, since a step of the driver may write one file and
never more. It needs, besides `IInv`, that a run holds no unit before it has loaded any
(`MemoryEmpty`), or going back in the plan would not show in the count, and that there are finitely many
temporary files (`TempsAreFinite`).

`ProviderCallsProofs` proves the three safety properties of the `provider` run for any calls,
permits, budgets and widths, and a fourth that strengthens its type invariant: the queue for the
permits holds exactly the calls that wait, each once, and no more calls than permits are
past it (`CallsKeepTurns`). The invariant is one of each call alone: what it has received
so far is what it has counted and what came without text, its counters are within their limits, and it is in time whenever
it is in an attempt or a pause. The last needs `Tick` to stop for a call that is overdue,
which is the timeout. `CallsMakeProgress` proves `EveryStepCounts` from both: a call's own steps move it
on within an attempt or use one up, and a reset of the retries of one prompt gives nothing back, because
attempts are never reset; when time passes, somebody holds a permit (`TickHasHolder`, from the turns),
and what holds a permit still has time left.

`ScanPipelineProofs` proves every safety property of the `pipeline` run for any
processes, directories, scans and runs, from `PipelineAssumption`, `KeyAssumption` (the
key of a set of cases is not the id of a method) and
`NoneAssumption` (the absent value is none of the present ones). `IInv` has three parts.
*Guards*: a process past the first lock has it (`Locked`), so nobody else appends to its
journal. *What was read*: the results a process carries are what a look-up in its journal would
return now (`ResultsMirrored`, `ProofsMirrored`), the entry a look-up finds is the last
of its unit among the events of its own scan (`CachedIsLast`), and there are proofs only where some
unit is still slop in the journal (`ProofsHaveCases`). *Record and report*: a record that
is there is final, and one without a report has a process in charge of it or follows a killed one
(`RecordsAccounted`). `RefusalHasACause` compares the two counts of `summarize`, which is why
the invariant speaks of the events of a scan and not only of the latest entries.

`PromptProofs` is about what goes into prompts and what is made of the answers. `BatchesAlwaysFit`
proves `BatchesFit` of the `batching` run for queues of any length and any jobs, batch sizes and limits, from
`PackingAssumption` (sizes are numbers); that a batch may hold at least one method comes from the
clamp in `parse_method_batch_size`. `FlattenSeq` and the estimate of a batch are shown to be folds
(`FlattenIsFold`, `EstimateIsFold`). In the first pass, the estimate carried along is the estimate of the
chunk it is carried for (`CurrentFits`). In the second, what stands behind a closed batch did not
fit in it, and more methods never make a shorter prompt (`EstimateGrows`), so it would not have fitted
later either (`PacksFit`). `BatchesAreFit` states the result of the operator itself, which
packs methods of any files together.

`ChunksAlwaysKeepRelatedCases` does the same for the other property of that run,
`ChunksKeepRelatedCases`, for any cases, calls and limit. First the groups
(`ComponentsPartition`): a round of a search finds nothing new, and then no later one does, or at least one
case more, so that as many rounds as there are cases find all. What a search finds is closed
under being related; since being related is symmetric, two searches find the same cases or have
none in common, and each group is found once, from its first case. Then the
splitting (`SplitKeepsRelatedCases`), by two instances of `FoldFacts`, the loop over the groups and the loop
over the cases of a group that is cut: as long as there is no error, the chunks and the open
one hold each case so far once, of several cases only those that fit, and all of a
group that fits.

It also proves every property of the `adjudication` run for any cases and chunks and any
answers, from `AdjudicationAssumption` (at least one chunk, of finitely many cases) and
`NoLedgerAssumption` (the absent ledger is not a ledger).
The parser accepts merges in chains. Following the targets from
a case is a walk (`WalkExists`); in a ledger that applies it ends in a case that stays
(`TargetIsKept`). The code then merges each case into the end of its walk, one after
the other; `MergedAfterStep` says what every case has collected after any number of these
merges: what it came with and the evidence of all whose walk ends in it so far. At the end that is what
`Absorbed` states by chains, without any order (`AbsorbedByTarget`, `AppliedIsDecided`).
`ResumeKeepsOutcome` then needs two facts more (`OutcomeInv`): what was kept is what the journal's ledgers
make of all chunks (`Whole`), and once a run has finished every chunk has a ledger, so that nothing
is asked any more and none of them changes.

`MethodStageProofs` proves every property of the `method_stage` and `method_resume` runs
but `RunEnds` (and of that the safety half, `RunShrinks`), for any scans, jobs, batch sizes, prompt limits, concurrency, prices and budgets, and any number of runs, faults and crashes, from
`StageAssumption` and `CallsAssumption` (an attempt makes a bounded number of calls). Two of the conjuncts
of the first deserve a word: the jobs of a scan
have different unit ids (`journal_unit_id` hashes what tells methods apart,
`analyzer_engine_jobs.rs:239`), and a call has a largest price, without which no bound on the difference
between journal and budget could be stated. The argument has layers, each of which uses
the ones before it:

1. *Grouping.* Each pass of `group_pending_reviews` is a fold of `FoldFacts`. Both keep
   `Grouping`: the groups hold the same methods as the pieces, each once, and there are no more of them
   (`BatchesHoldTheQueue`). Their order and limits are in `PromptProofs`.
2. *Types.* `StageInv` is `RunTyped` with the invariant of the journal. Along the way
   every step of the stage is shown to be a step of `ReviewJournal` or to leave it alone
   (`StageIsAJournal`), so all that is proved of the journal holds of the stage (`StageCrashSafe`).
3. *Work* (`WorkInv`). Every method of the scan is in one place: it waits for its look-up or for
   grouping, is in one batch, or has one outcome; within a task it is ahead of the task or among
   its outcomes, through every split of a batch.
4. *Scheduler.* `StageImplementsScheduler`. A run that failed
   `validate_method_coverage` after an `Ok` of the scheduler would be a return
   that the scheduler does not have; `WorkInv` shows that there is none. `StageKeepsSchedule` then
   carries over the scheduler's theorems by instantiating its proof module: no file is in two
   reviews at once, no batch is lost or started twice.
5. *Record* (`RecordInv`). As long as the run is steady (nothing failed), the file is whole,
   what the run holds for reviewed is what the journal says (`Truth`), and
   what it has yet to record has no final review in the context of its scan (`Unsettled`).
   `NeverReviewedTwice` and the refinement of `ReviewLedger` follow; the run's
   `Finish` is the ledger's publication.
6. *Books* (`Books`). The journaled spend is what was charged, what the tasks in flight owe, and
   usages whose append failed with the line complete. The sum over the tasks is a fold over a
   set, taken out one element at a time in any order (`TotalWithout`). `ChargesMatchJournal` is its
   reading while tasks run; `PauseIsHonest` adds layers 3 to 5.
7. *End* (`StageRunShrinks`). A queue of n batches with l methods in them is worth 2l - n attempts: to
   split a batch leaves one attempt less, and so does every outcome. With the calls of an attempt, the
   charges, the outcomes to persist and the joins this gives each batch a number
   (`BatchAhead`) which its own steps lower and those of others leave alone; the look-up has one of its own. The
   number is natural because no batch of a queue is empty and no method in it twice (`BatchesLeft`), and a
   joined batch has no more outcomes than its task had methods: both are layer 3.

With this every invariant and every action property that a passing run checks, and every refinement, is
a theorem. The type invariants of the scheduler, the journal, the progress store and the pipeline are
proved (`SchedulerTypeOK`, `JournalTypes`, `ProgressTyped`, `TypesHold`) and not checked by the runs of these
modules as well; `STypeOK` contains the one of the journal. Model-checked only: liveness under fairness
(`CallReturns`, `RunEnds`, `RunsEnd`, `CallsEnd`), which is out of the prover's reach. The safety half of
each of the four is proved: something that can only fall so often is lowered by every step (`CallShrinks`, `RunShrinks`,
`RunsShrink`, `EveryStepCounts`), so that only a system that stops, and no system that goes round in
circles, could violate them. What remains for TLC is that a step is always enabled.

## Plan

1. The synthesis stage on `ReviewJournal`: its cache key (source hashes of the
   records, not their reviews), so that stale reuse becomes visible; the real
   spend of rejected answers as a ghost variable beside the journaled spend.
2. The validation of proofs after they are journaled; several chunks of them.
3. The three votes of `call_with_consensus` on `ProviderCalls`, with the tokens a failing
   vote takes with it.
4. The passes of `analyze_method_review_batch` with their index bookkeeping.

## Not modelled

Most of the repository's two hundred thousand lines keep no state that a model could
follow. More than half is SniffBench, offline tooling over sealed data sets: schemas,
validators and reports, each a pure function of files. Parsers and static signals extract data.
The indexers and the sandbox are control of external processes and operating-system
calls; the one part of them with a protocol of its own, the progress store, is
modelled. Prompt rendering, report layout and pricing tables are left out: pricing
appears as `Costs`, prompt sizes as estimates. The modules here therefore cover a small share of
the lines, and most of those in which processes, tasks, crashes and files meet.
