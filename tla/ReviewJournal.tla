---------------------------- MODULE ReviewJournal ----------------------------
(***************************************************************************)
(* The append-only review journal (src/src/analyzer_journal.rs): the file  *)
(* of JSON lines that makes a scan resumable, and the JournalStore that a  *)
(* process loads from it and keeps beside it in memory.                    *)
(*                                                                         *)
(* The file is a sequence of complete lines plus one bit: bytes follow the *)
(* last newline (a torn tail).  A line is a parsed entry, or Garbled when  *)
(* its bytes are not one JSON object, which is what two appends on one     *)
(* line leave behind.  Of an entry the fields that decide control are      *)
(* kept; what a review says is left out.  The scan lock gives the journal  *)
(* one process at a time, so there is one store.                           *)
(***************************************************************************)
EXTENDS Naturals, Sequences, FiniteSets, FiniteSetsExt, SequencesExt

CONSTANTS
  Scans,      \* scan ids; a scan id is a hash of the sources and the context
  ContextOf,  \* the review_context_hash of every scan
  Stages,     \* JournalStage
  Units,      \* unit ids; a unit id is a hash of all that is reviewed
  Costs,      \* estimated_cost_usd of a call or a review, in steps of a cent
  MaxFaults,  \* bound on failing appends
  None        \* no store, no entry, no unit

ASSUME JournalAssumption ==
  /\ MaxFaults \in Nat
  /\ Costs \subseteq Nat
  /\ None \notin Units

VARIABLES
  lines,   \* the complete lines of the file
  torn,    \* the file does not end in a newline
  store,   \* the JournalStore of the running process, or None
  faults   \* appends that have returned an error

jvars == <<lines, torn, store, faults>>

Kinds == {"manifest", "usage", "reuse", "unit"}

JournalEntry ==
  [kind : Kinds, scan : Scans, stage : Stages, unit : Units \cup {None},
   expected : Nat, cost : Nat, retry : BOOLEAN]

Garbled == [kind |-> "garbled"]

\* is_reusable: a method record and a verdict are always present here.
IsReusable(e) == ~e.retry

\* matches_cache: the scan id of the entry plays no part.
MatchesCache(s, st, e) ==
  e.stage = st /\ ContextOf[e.scan] = ContextOf[s]

\* Positions of the non-manifest entries for unit u that load_state keeps.
CachePositions(es, s, st, u) ==
  {i \in DOMAIN es : /\ es[i].kind = "unit"
                     /\ es[i].unit = u
                     /\ MatchesCache(s, st, es[i])}

\* Mutant: the first entry of a unit is kept.
FirstEntry(es, s, st, u) ==
  LET positions == CachePositions(es, s, st, u)
  IN  IF positions = {} THEN None ELSE es[Min(positions)]

\* Collecting into a HashMap keeps the last entry of a unit.
LatestEntry(es, s, st, u) ==
  LET positions == CachePositions(es, s, st, u)
  IN  IF positions = {} THEN None ELSE es[Max(positions)]

\* Spend of a scan, over all of its stages.
SpentIn(es, s) ==
  FoldLeft(LAMBDA spent, e :
             IF e.kind # "garbled" /\ e.scan = s THEN spent + e.cost ELSE spent,
           0, es)

Readable(es) == \A i \in DOMAIN es : es[i].kind # "garbled"

LoadState(es, s, st, n) ==
  [scan |-> s, stage |-> st, expected |-> n,
   completed |-> [u \in Units |-> LatestEntry(es, s, st, u)],
   spent |-> SpentIn(es, s)]

Entry(k, u, c, r) ==
  [kind |-> k, scan |-> store.scan, stage |-> store.stage, unit |-> u,
   expected |-> store.expected, cost |-> c, retry |-> r]

JInit == lines = << >> /\ torn = FALSE /\ store = None /\ faults = 0
-----------------------------------------------------------------------------
(***************************************************************************)
(* append_entry.  The bytes go behind whatever the file ends with; the     *)
(* newline is written last, then the data is synced.                       *)
(***************************************************************************)
Written(e) == Append(lines, IF torn THEN Garbled ELSE e)

AppendEntry(e) ==
  /\ lines' = Written(e)
  /\ torn' = FALSE

(***************************************************************************)
(* The append returns an error: nothing reached the file, or a part of the *)
(* line did, or all of it did and only sync_data failed.                   *)
(***************************************************************************)
AppendFails(e) ==
  /\ faults < MaxFaults
  /\ faults' = faults + 1
  /\ \/ UNCHANGED <<lines, torn>>
     \/ torn' = TRUE /\ UNCHANGED lines
     \/ AppendEntry(e)

Manifest(s, st, n) ==
  [kind |-> "manifest", scan |-> s, stage |-> st, unit |-> None,
   expected |-> n, cost |-> 0, retry |-> FALSE]

\* Mutant: the manifest is looked up without its stage.
HasAnyManifest(s, st) ==
  \E i \in DOMAIN lines : lines[i].kind = "manifest" /\ lines[i].scan = s

HasManifest(s, st) ==
  \E i \in DOMAIN lines : /\ lines[i].kind = "manifest"
                          /\ lines[i].scan = s
                          /\ lines[i].stage = st

\* Mutant: recovery leaves the torn bytes in the file.
LoadKeepsTail(s, st, n) ==
  /\ store = None
  /\ Readable(lines)
  /\ \/ HasManifest(s, st) /\ UNCHANGED <<lines, torn>>
     \/ ~HasManifest(s, st) /\ AppendEntry(Manifest(s, st, n))
  /\ store' = LoadState(lines, s, st, n)
  /\ UNCHANGED faults

\* Mutant: recovery cuts the last complete line off with the torn bytes.
LoadCutsLine(s, st, n) ==
  /\ store = None
  /\ Readable(lines)
  /\ LET kept == IF torn THEN SubSeq(lines, 1, Len(lines) - 1) ELSE lines
     IN  /\ lines' = IF HasManifest(s, st) THEN kept ELSE Append(kept, Manifest(s, st, n))
         /\ store' = LoadState(kept, s, st, n)
  /\ torn' = FALSE
  /\ UNCHANGED faults

(***************************************************************************)
(* load_for_scan: read_entries truncates a torn tail, every complete line  *)
(* must parse, and the manifest of the stage is appended when the file has *)
(* none for this scan.                                                     *)
(***************************************************************************)
LoadForScan(s, st, n) ==
  /\ store = None
  /\ Readable(lines)
  /\ lines' = IF HasManifest(s, st) THEN lines
              ELSE Append(lines, Manifest(s, st, n))
  /\ torn' = FALSE
  /\ store' = LoadState(lines, s, st, n)
  /\ UNCHANGED faults

\* A complete line that is not JSON: the load fails, after the truncation.
LoadUnreadable ==
  /\ store = None
  /\ ~Readable(lines)
  /\ torn' = FALSE
  /\ UNCHANGED <<lines, store, faults>>

\* The load fails because its manifest could not be appended.
LoadManifestFails(s, st, n) ==
  /\ store = None
  /\ Readable(lines)
  /\ ~HasManifest(s, st)
  /\ faults < MaxFaults
  /\ faults' = faults + 1
  /\ \/ torn' = FALSE /\ UNCHANGED lines
     \/ torn' = TRUE /\ UNCHANGED lines
     \/ torn' = FALSE /\ lines' = Append(lines, Manifest(s, st, n))
  /\ UNCHANGED store
-----------------------------------------------------------------------------
\* Mutant: the spend is counted and the completed map is forgotten.
RecordForgets(u, c, r) ==
  /\ store # None
  /\ AppendEntry(Entry("unit", u, c, r))
  /\ store' = [store EXCEPT !.spent = @ + c]
  /\ UNCHANGED faults

(***************************************************************************)
(* record, record_role, record_synthesis, record_adjudication and          *)
(* record_proof: the entry goes to the file first, then to memory.         *)
(***************************************************************************)
Record(u, c, r) ==
  /\ store # None
  /\ AppendEntry(Entry("unit", u, c, r))
  /\ store' = [store EXCEPT !.spent = @ + c,
                            !.completed[u] = Entry("unit", u, c, r)]
  /\ UNCHANGED faults

\* Mutant: a usage is written and never charged.
RecordUsageUncharged(c) ==
  /\ store # None
  /\ AppendEntry(Entry("usage", None, c, FALSE))
  /\ UNCHANGED <<store, faults>>

\* record_usage.  A call without tokens writes nothing and is no step; one
\* with tokens is written even when its price is 0.
RecordUsage(c) ==
  /\ store # None
  /\ AppendEntry(Entry("usage", None, c, FALSE))
  /\ store' = [store EXCEPT !.spent = @ + c]
  /\ UNCHANGED faults

\* record_cross_scan_reuse
RecordCrossScanReuse(u) ==
  /\ store # None
  /\ AppendEntry(Entry("reuse", u, 0, FALSE))
  /\ UNCHANGED <<store, faults>>

\* One of the appends above returned an error: memory is left alone.
RecordFails(e) ==
  /\ store # None
  /\ AppendFails(e)
  /\ UNCHANGED store

\* The process ends and its store is dropped.
Close ==
  /\ store # None
  /\ store' = None
  /\ UNCHANGED <<lines, torn, faults>>

\* The process dies, perhaps in the middle of an append.
Crash ==
  /\ store # None
  /\ store' = None
  /\ torn' \in {torn, TRUE}
  /\ UNCHANGED <<lines, faults>>

JNext ==
  \/ \E s \in Scans, st \in Stages, n \in 0..Cardinality(Units) :
       LoadForScan(s, st, n) \/ LoadManifestFails(s, st, n)
  \/ LoadUnreadable
  \/ \E u \in Units, c \in Costs \cup {0}, r \in BOOLEAN : Record(u, c, r)
  \/ \E c \in Costs : RecordUsage(c)
  \/ \E u \in Units : RecordCrossScanReuse(u)
  \/ \E u \in Units, c \in Costs \cup {0}, r \in BOOLEAN :
       RecordFails(Entry("unit", u, c, r))
  \/ \E c \in Costs : RecordFails(Entry("usage", None, c, FALSE))
  \/ \E u \in Units : RecordFails(Entry("reuse", u, 0, FALSE))
  \/ Close
  \/ Crash

JournalSpec == JInit /\ [][JNext]_jvars
-----------------------------------------------------------------------------
JournalStore ==
  [scan : Scans, stage : Stages, expected : Nat,
   completed : [Units -> JournalEntry \cup {None}], spent : Nat]

JTypeOK ==
  /\ \A i \in DOMAIN lines : lines[i] \in JournalEntry \cup {Garbled}
  /\ torn \in BOOLEAN
  /\ store \in JournalStore \cup {None}
  /\ faults \in 0..MaxFaults

(***************************************************************************)
(* A crash never makes the journal unreadable: as long as no append has    *)
(* returned an error, every complete line parses, so every later load      *)
(* succeeds (append_entry writes the newline last, read_entries cuts the   *)
(* torn tail before anything is appended behind it).                       *)
(***************************************************************************)
CrashSafe == faults = 0 => Readable(lines)

(***************************************************************************)
(* What a process takes for reviewed is what a restart would: its          *)
(* completed map is the one load_state would collect from the file now,    *)
(* across crashes and whatever other scans and stages wrote in between.    *)
(***************************************************************************)
CompletedMirrorsFile ==
  store # None /\ faults = 0 =>
    \A u \in Units :
      store.completed[u] = LatestEntry(lines, store.scan, store.stage, u)

(***************************************************************************)
(* The spend that the budget is charged with is the one load_state would   *)
(* add up from the file now: usages and reviews, of every stage of this    *)
(* scan and of no other scan.                                              *)
(***************************************************************************)
SpendMirrorsFile ==
  store # None /\ faults = 0 => store.spent = SpentIn(lines, store.scan)

(***************************************************************************)
(* Every entry is preceded by the manifest of its scan and stage, and that *)
(* manifest is the only one, even when the load that wrote it reported an  *)
(* error or died: summarize takes the expected number of units from it.    *)
(***************************************************************************)
ManifestFirst ==
  \A j \in DOMAIN lines : lines[j].kind # "garbled" =>
    \E i \in 1..j :
      \A k \in DOMAIN lines :
        /\ lines[k].kind = "manifest"
        /\ lines[k].scan = lines[j].scan
        /\ lines[k].stage = lines[j].stage
        <=> k = i

(***************************************************************************)
(* No step, recovery included, changes or drops a complete line: a review  *)
(* that reached the journal stays in it.                                   *)
(***************************************************************************)
AppendOnly ==
  [][/\ Len(lines) <= Len(lines')
     /\ \A i \in DOMAIN lines : lines'[i] = lines[i]]_jvars
=============================================================================
