----------------------------- MODULE ScanPipeline -----------------------------
(***************************************************************************)
(* Whole scans (run of cli_pipeline_run.rs) beside each other and after    *)
(* each other: the lock on the report directory and the repository, the    *)
(* journal a scan continues, the summary of the journal, and the two files *)
(* a finished scan leaves, the machine record under .sniff/runs and the    *)
(* report.  A process may stop anywhere; the operating system then frees   *)
(* its locks and what it wrote stays.                                      *)
(*                                                                         *)
(* A review is one step that journals one unit: ReviewScheduler and        *)
(* MethodStage model the inside of that loop, ReviewJournal the file.      *)
(* Two of the stages are there: the method stage, whose units the sources  *)
(* fix, and the counterfactual proofs, whose one unit is the set of cases  *)
(* that the reviews gave rise to.  Adjudication derives its units in the   *)
(* same way; roles and synthesis have theirs from the sources.             *)
(***************************************************************************)
EXTENDS Naturals, Sequences, FiniteSets, SequencesExt, FiniteSetsExt

CONSTANTS
  Procs,       \* processes
  Dirs,        \* directories
  Jobs,        \* [repository, reports, scan, zeroBudget]: what sniff is run on
  Scans,       \* scan ids, hashes of the sources and the review context
  ContextOf,   \* the review context of every scan
  UnitsOf,     \* the method units of every scan
  Tiers,       \* the tiers a review of a unit may come to: "slop", "clean"
  None,
  MaxRuns      \* bound on the runs that are started

ASSUME PipelineAssumption ==
  /\ Jobs \subseteq [repository : Dirs, reports : Dirs, scan : Scans,
                     zeroBudget : BOOLEAN]
  /\ MaxRuns \in Nat
  /\ None \notin Procs
  /\ \A s \in Scans : None \notin UnitsOf[s]
  /\ \A s \in Scans : \A u \in UnitsOf[s] : Tiers[u] \subseteq {"slop", "clean"}

\* The key of a set of cases is no method unit's.
ASSUME KeyAssumption ==
  \A cases \in SUBSET UNION {UnitsOf[s] : s \in Scans} :
    /\ cases # None
    /\ \A s \in Scans : cases \notin UnitsOf[s]

VARIABLES
  pc,         \* where every process is
  job,        \* what it scans
  owner,      \* the process that holds the lock of every directory
  journal,    \* the journal in every report directory
  store,      \* the journal as a process remembers it
  results,    \* the reviews a process has: unit to a tier or to "retry"
  written,    \* the record of this process and whether it created the file
  records,    \* the machine records beside every report
  report,     \* the report in every directory
  published,  \* history: the records whose run published its report
  abrupt,     \* history: a process stopped between record and report, or an
              \* error was followed by a failing removal
  runs        \* the runs started so far

locals == <<pc, job, store, results, written>>
outputs == <<records, report, published, abrupt>>
vars == <<locals, owner, journal, outputs, runs>>

AllUnits == UNION {UnitsOf[s] : s \in Scans}

Init ==
  /\ pc = [p \in Procs |-> "idle"]
  /\ job = [p \in Procs |-> None]
  /\ owner = [d \in Dirs |-> None]
  /\ journal = [d \in Dirs |-> << >>]
  /\ store = [p \in Procs |-> << >>]
  /\ results = [p \in Procs |-> << >>]
  /\ written = [p \in Procs |-> None]
  /\ records = [d \in Dirs |-> {}]
  /\ report = [d \in Dirs |-> None]
  /\ published = [d \in Dirs |-> {}]
  /\ abrupt = FALSE
  /\ runs = 0

Home(p) == job[p].reports
Scan(p) == job[p].scan
Units(p) == UnitsOf[Scan(p)]

-----------------------------------------------------------------------------
(* The journal.                                                            *)

ManifestOf(s, stage) ==
  [stage |-> stage, scan |-> s, unit |-> None, tier |-> None]

MethodEntry(s, u, tier) == [stage |-> "method", scan |-> s, unit |-> u, tier |-> tier]

ProofEntry(s, cases) == [stage |-> "proof", scan |-> s, unit |-> cases, tier |-> None]

\* ensure_stage_manifest.
Introduced(es, s, stage) ==
  IF Contains(es, ManifestOf(s, stage)) THEN es ELSE Append(es, ManifestOf(s, stage))

\* The entry load_state keeps for a unit: the last one of the same context.
Cached(es, s, stage, u) ==
  LET hits == {i \in DOMAIN es : /\ es[i].stage = stage /\ es[i].unit = u
                                 /\ ContextOf[es[i].scan] = ContextOf[s]}
  IN  IF hits = {} THEN None ELSE es[Max(hits)]

EventsOf(es, s) ==
  FoldLeft(LAMBDA events, e : IF e.scan = s THEN Append(events, e) ELSE events, << >>, es)

\* The last entry of every unit among the events of one scan.
LastOf(events) ==
  {events[i] : i \in {i \in DOMAIN events :
     /\ events[i].unit # None
     /\ \A k \in (i + 1)..Len(events) : events[k].unit # events[i].unit}}

Reviewed(ends) == {e \in ends : e.stage = "method" /\ e.tier # "retry"}

\* The cases of the proof stage are one chunk whenever there are any.
ProofsExpected(events) == IF \E i \in DOMAIN events : events[i].stage = "proof" THEN 1 ELSE 0

\* *Mutant*: an unresolved review counts as completed.
SummarizeUnresolved(es) ==
  LET s == Last(es).scan
      ends == LastOf(EventsOf(es, s))
  IN  [scan      |-> s,
       events    |-> EventsOf(es, s),
       expected  |-> Cardinality(UnitsOf[s]),
       completed |-> Cardinality({e \in ends : e.stage = "method"}),
       retryable |-> 0,
       proofsExpected  |-> ProofsExpected(EventsOf(es, s)),
       proofsCompleted |-> Cardinality({e \in ends : e.stage = "proof"})]

\* summarize: the scan is the one that wrote the last entry of the file.
Summarize(es) ==
  LET s == Last(es).scan
      ends == LastOf(EventsOf(es, s))
  IN  [scan      |-> s,
       events    |-> EventsOf(es, s),
       expected  |-> Cardinality(UnitsOf[s]),
       completed |-> Cardinality(Reviewed(ends)),
       retryable |-> Cardinality({e \in ends : e.tier = "retry"}),
       proofsExpected  |-> ProofsExpected(EventsOf(es, s)),
       proofsCompleted |-> Cardinality({e \in ends : e.stage = "proof"})]

AppendEntry(p, e) ==
  /\ journal' = [journal EXCEPT ![Home(p)] = Append(@, e)]
  /\ store' = [store EXCEPT ![p] = Append(@, e)]

-----------------------------------------------------------------------------
(* A process.                                                              *)

Goto(p, l) == pc' = [pc EXCEPT ![p] = l]

\* The guards drop, in whatever way run returns or the process ends.
Exit(p) ==
  /\ Goto(p, "idle")
  /\ job' = [job EXCEPT ![p] = None]
  /\ owner' = [d \in Dirs |-> IF owner[d] = p THEN None ELSE owner[d]]
  /\ store' = [store EXCEPT ![p] = << >>]
  /\ results' = [results EXCEPT ![p] = << >>]
  /\ written' = [written EXCEPT ![p] = None]

Start(p) ==
  /\ pc[p] = "idle"
  /\ runs < MaxRuns
  /\ runs' = runs + 1
  /\ \E j \in Jobs : job' = [job EXCEPT ![p] = j]
  /\ Goto(p, "lockReports")
  /\ UNCHANGED <<owner, store, results, written, journal, outputs>>

\* NamedLock::acquire does not wait, and takes a directory once.
Lock(p, d, next) ==
  \/ /\ owner[d] \in {None, p}
     /\ owner' = [owner EXCEPT ![d] = p]
     /\ Goto(p, next)
     /\ UNCHANGED <<job, store, results, written>>
  \/ owner[d] \notin {None, p} /\ Exit(p)

\* *Mutant*: only the repository is locked.
LockNoReports(p) ==
  /\ pc[p] = "lockReports"
  /\ Goto(p, "lockRepository")
  /\ UNCHANGED <<job, owner, store, results, written, journal, outputs, runs>>

\* RepositoryScanLock::acquire: "report:..." sorts before "repository:...".
LockReports(p) ==
  /\ pc[p] = "lockReports"
  /\ Lock(p, Home(p), "lockRepository")
  /\ UNCHANGED <<journal, outputs, runs>>

LockRepository(p) ==
  /\ pc[p] = "lockRepository"
  /\ Lock(p, job[p].repository, "open")
  /\ UNCHANGED <<journal, outputs, runs>>

\* load_for_scan: the journal is read, a missing manifest appended.
OpenJournal(p) ==
  /\ pc[p] = "open"
  /\ LET found == journal[Home(p)]
         opened == Introduced(found, Scan(p), "method")
     IN  /\ journal' = [journal EXCEPT ![Home(p)] = opened]
         /\ store' = [store EXCEPT ![p] = opened]
  /\ Goto(p, IF job[p].zeroBudget THEN "exit" ELSE "review")
  /\ UNCHANGED <<job, owner, results, written, outputs, runs>>

\* A zero budget returns after the method stage is initialized.
Leave(p) ==
  /\ pc[p] = "exit"
  /\ Exit(p)
  /\ UNCHANGED <<journal, outputs, runs>>

Extended(r, u, tier) == [x \in DOMAIN r \cup {u} |-> IF x = u THEN tier ELSE r[x]]

\* One unit of the review loop: a final review is taken from the journal and
\* copied into this scan; any other unit is reviewed and journaled.
ReviewUnit(p, u) ==
  LET e == Cached(store[p], Scan(p), "method", u)
      reusable == e # None /\ e.tier # "retry"
  IN  /\ pc[p] = "review"
      /\ u \in Units(p) \ DOMAIN results[p]
      /\ \E tier \in IF reusable THEN {e.tier} ELSE Tiers[u] \cup {"retry"} :
           /\ results' = [results EXCEPT ![p] = Extended(@, u, tier)]
           /\ IF reusable /\ e.scan = Scan(p)
                THEN UNCHANGED <<journal, store>>
                ELSE AppendEntry(p, MethodEntry(Scan(p), u, tier))
      /\ UNCHANGED <<pc, job, owner, written, outputs, runs>>

\* seed_method_cases: the cases that are to be proved.
Candidates(p) == {u \in DOMAIN results[p] : results[p][u] = "slop"}

\* The proof stage reads the journal once more and writes its own manifest.
OpenProofs(p) ==
  /\ pc[p] = "review"
  /\ DOMAIN results[p] = Units(p)
  /\ IF Candidates(p) = {}
       THEN Goto(p, "finish") /\ UNCHANGED <<journal, store>>
       ELSE /\ Goto(p, "proof")
            /\ LET opened == Introduced(journal[Home(p)], Scan(p), "proof")
               IN  /\ journal' = [journal EXCEPT ![Home(p)] = opened]
                   /\ store' = [store EXCEPT ![p] = opened]
  /\ UNCHANGED <<job, owner, results, written, outputs, runs>>

\* *Mutant*: proofs that another scan journaled are used where they are.
ProveCasesInPlace(p) ==
  LET e == Cached(store[p], Scan(p), "proof", Candidates(p))
  IN  /\ pc[p] = "proof"
      /\ IF e # None
           THEN UNCHANGED <<journal, store>>
           ELSE AppendEntry(p, ProofEntry(Scan(p), Candidates(p)))
      /\ Goto(p, "finish")
      /\ UNCHANGED <<job, owner, results, written, outputs, runs>>

\* The chunk of cases is proved, or its proofs are taken from the journal and
\* copied into this scan.
ProveCases(p) ==
  LET e == Cached(store[p], Scan(p), "proof", Candidates(p))
  IN  /\ pc[p] = "proof"
      /\ IF e # None /\ e.scan = Scan(p)
           THEN UNCHANGED <<journal, store>>
           ELSE AppendEntry(p, ProofEntry(Scan(p), Candidates(p)))
      /\ Goto(p, "finish")
      /\ UNCHANGED <<job, owner, results, written, outputs, runs>>

Resolved(r) == \A u \in DOMAIN r : r[u] # "retry"

Report(p) == [scan |-> Scan(p), results |-> results[p]]

\* journal_is_final: no unit of the summarised scan is to be reviewed again.
JournalIsFinal(summary) == summary.retryable = 0

\* build_completed_run: the counts of the journal are those of the report.
CoverageAgrees(p, summary) ==
  /\ summary.expected = Cardinality(Units(p))
  /\ summary.retryable = 0
  /\ summary.completed = Cardinality(DOMAIN results[p])
  /\ summary.proofsCompleted = summary.proofsExpected

\* completed_run_id: scan, events, sources and report.
RecordOf(p, summary) ==
  [scan |-> summary.scan, events |-> summary.events, report |-> Report(p)]

\* build_final_completed_run over the journal as it is in the file.
BuildRecord(p) ==
  LET summary == Summarize(journal[Home(p)])
  IN  /\ pc[p] = "finish"
      /\ \/ /\ Units(p) = {} \/ ~JournalIsFinal(summary)
            /\ Goto(p, "report")
            /\ UNCHANGED <<job, owner, store, results, written>>
         \/ /\ Units(p) # {} /\ JournalIsFinal(summary)
            /\ CoverageAgrees(p, summary)
            /\ written' = [written EXCEPT ![p] =
                 [record |-> RecordOf(p, summary), created |-> FALSE]]
            /\ Goto(p, "record")
            /\ UNCHANGED <<job, owner, store, results>>
         \/ /\ Units(p) # {} /\ JournalIsFinal(summary)
            /\ ~CoverageAgrees(p, summary)
            /\ Exit(p)
      /\ UNCHANGED <<journal, outputs, runs>>

\* *Mutant*: a record that cannot be written does not stop the report.
WriteRecordOrNot(p) ==
  /\ pc[p] = "record"
  /\ Goto(p, "report")
  /\ \/ UNCHANGED <<records, written>>
     \/ /\ records' = [records EXCEPT ![Home(p)] = @ \cup {written[p].record}]
        /\ written' = [written EXCEPT ![p].created = written[p].record \notin records[Home(p)]]
  /\ UNCHANGED <<job, owner, store, results, journal, report, published, abrupt, runs>>

\* write_completed_run: an existing file of the same id is kept; a new one is
\* linked into place, and then its temporary file is removed.
WriteRecord(p) ==
  LET r == written[p].record
      old == records[Home(p)]
  IN  /\ pc[p] = "record"
      /\ \/ /\ r \in old
            /\ Goto(p, "report")
            /\ UNCHANGED <<records, abrupt, job, owner, store, results, written>>
         \/ /\ r \notin old
            /\ records' = [records EXCEPT ![Home(p)] = @ \cup {r}]
            /\ written' = [written EXCEPT ![p].created = TRUE]
            /\ Goto(p, "report")
            /\ UNCHANGED <<abrupt, job, owner, store, results>>
         \/ /\ r \notin old
            /\ \/ UNCHANGED <<records, abrupt>>
               \/ records' = [records EXCEPT ![Home(p)] = @ \cup {r}] /\ abrupt' = TRUE
            /\ Exit(p)
      /\ UNCHANGED <<journal, report, published, runs>>

\* render_report renames the report into place.
PublishReport(p) ==
  /\ pc[p] = "report"
  /\ report' = [report EXCEPT ![Home(p)] = Report(p)]
  /\ published' = [published EXCEPT ![Home(p)] =
       IF written[p] = None THEN @ ELSE @ \cup {written[p].record}]
  /\ Exit(p)
  /\ UNCHANGED <<journal, records, abrupt, runs>>

\* *Mutant*: the record goes whether or not this run created it.
ReportFailsRemoving(p) ==
  /\ pc[p] = "report"
  /\ records' = [records EXCEPT ![Home(p)] =
       IF written[p] = None THEN @ ELSE @ \ {written[p].record}]
  /\ Exit(p)
  /\ UNCHANGED <<journal, report, published, abrupt, runs>>

\* render_report fails: the record goes again if this run created it, and a
\* failing removal is ignored.
ReportFails(p) ==
  /\ pc[p] = "report"
  /\ IF written[p] # None /\ written[p].created
       THEN \/ /\ records' = [records EXCEPT ![Home(p)] = @ \ {written[p].record}]
               /\ UNCHANGED abrupt
            \/ UNCHANGED records /\ abrupt' = TRUE
       ELSE UNCHANGED <<records, abrupt>>
  /\ Exit(p)
  /\ UNCHANGED <<journal, report, published, runs>>

\* The budget pauses the scan, a stage fails, or the process is killed.
Stop(p) ==
  /\ pc[p] # "idle"
  /\ abrupt' = (abrupt \/ pc[p] = "report")
  /\ Exit(p)
  /\ UNCHANGED <<journal, records, report, published, runs>>

Step(p) ==
  \/ Start(p) \/ LockReports(p) \/ LockRepository(p) \/ OpenJournal(p) \/ Leave(p)
  \/ (\E u \in AllUnits : ReviewUnit(p, u))
  \/ OpenProofs(p) \/ ProveCases(p)
  \/ BuildRecord(p) \/ WriteRecord(p) \/ PublishReport(p) \/ ReportFails(p)
  \/ Stop(p)

Next == \E p \in Procs : Step(p)

Spec == Init /\ [][Next]_vars

-----------------------------------------------------------------------------
Grades == {"slop", "clean", "retry"}

Entries ==
  [stage : {"method"}, scan : Scans, unit : AllUnits \cup {None}, tier : Grades \cup {None}]
    \cup [stage : {"proof"}, scan : Scans, unit : (SUBSET AllUnits) \cup {None}, tier : {None}]

Results == UNION {[us -> Grades] : us \in SUBSET AllUnits}

Reports ==
  {r \in [scan : Scans, results : Results] : DOMAIN r.results = UnitsOf[r.scan]}

Records == [scan : Scans, events : Seq(Entries), report : Reports]

Written == [record : Records, created : BOOLEAN]

ASSUME NoneAssumption == None \notin Grades \cup Entries \cup Written

\* The type of every variable.
TypeOK ==
  /\ pc \in [Procs -> {"idle", "lockReports", "lockRepository", "open", "exit",
                       "review", "proof", "finish", "record", "report"}]
  /\ job \in [Procs -> Jobs \cup {None}]
  /\ \A p \in Procs : pc[p] # "idle" => job[p] \in Jobs
  /\ owner \in [Dirs -> Procs \cup {None}]
  /\ journal \in [Dirs -> Seq(Entries)]
  /\ store \in [Procs -> Seq(Entries)]
  /\ results \in [Procs -> Results]
  /\ written \in [Procs -> Written \cup {None}]
  /\ records \in [Dirs -> SUBSET Records]
  /\ published \in [Dirs -> SUBSET Records]
  /\ report \in [Dirs -> Reports \cup {None}]
  /\ abrupt \in BOOLEAN
  /\ runs \in 0..MaxRuns

\* What a process remembers of its journal is what the file holds, through
\* every run of other processes beside it: reviews are looked up, appended
\* and summarised on one copy (RepositoryScanLock::acquire locks the report
\* directory and not only the repository).
JournalIsOwned ==
  \A p \in Procs :
    pc[p] \in {"exit", "review", "proof", "finish", "record", "report"} => store[p] = journal[Home(p)]

\* A machine record is only there for a scan that is final: no unit of its
\* report is left to be reviewed again, and the journal events it commits to
\* end in a final review for just as many units (build_final_completed_run).
RecordIsFinal ==
  \A d \in Dirs : \A r \in records[d] :
    LET ends == LastOf(r.events)
    IN  /\ Resolved(r.report.results)
        /\ \A e \in ends : e.tier # "retry"
        /\ Cardinality(Reviewed(ends)) = Cardinality(DOMAIN r.report.results)

\* Whatever a run does after another one of the same scan: the record of a
\* report that was published stays, even when this run finds it there and then
\* fails to write its own report; and a record no published report belongs to,
\* and no running process still answers for, was left by a process that
\* stopped between the two files or by a second failing file operation, never
\* by a failing report alone (the `created` flag of write_completed_run).
RecordsFollowReports ==
  \A d \in Dirs :
    /\ published[d] \subseteq records[d]
    /\ \A r \in records[d] \ published[d] :
         \/ abrupt
         \/ \E p \in Procs : pc[p] = "report" /\ written[p] = [record |-> r, created |-> TRUE]

\* A scan without open units is refused its record, and with it its report,
\* for one of two causes: another scan wrote the last entry of the journal, or
\* an earlier run of this scan, with a unit still open, proved other cases.
\* Nothing else makes journal and report differ, however reviews and proofs
\* are copied between scans (validate_report_coverage).
RefusalHasACause ==
  \A p \in Procs :
    LET entries == journal[Home(p)]
        summary == Summarize(entries)
    IN  /\ pc[p] = "finish" /\ Units(p) # {}
        /\ JournalIsFinal(summary) /\ ~CoverageAgrees(p, summary)
        => \/ summary.scan # Scan(p)
           \/ \E e \in Range(entries) : /\ e.stage = "proof" /\ e.scan = Scan(p)
                                        /\ e.unit \notin {None, Candidates(p)}

\* When a report without open units is published and its scan wrote the last
\* entry of the journal, its record is in place beforehand.
FinalReportHasRecord ==
  [][\A d \in Dirs :
       /\ report'[d] # report[d]
       /\ report'[d].results # << >> /\ Resolved(report'[d].results)
       /\ Last(journal[d]).scan = report'[d].scan
       => \E r \in records[d] : r.report = report'[d]]_vars

\* Violated: the machine record contains the provider/model contract and the
\* ledger of the scan it records (README.md).
RecordNamesItsReport ==
  \A d \in Dirs : \A r \in records[d] : r.scan = r.report.scan
=============================================================================
