-------------------------- MODULE ScanPipelineProofs --------------------------
(***************************************************************************)
(* Safety of whole scans for every set of processes, directories, jobs and *)
(* scans, journals of any length and any number of runs.                   *)
(***************************************************************************)
EXTENDS ScanPipeline, FiniteSetTheorems, SequenceTheorems, TLAPS

-----------------------------------------------------------------------------
(* The inductive invariant.                                                *)

Opened == {"exit", "review", "proof", "finish", "record", "report"}
Working == {"review", "proof", "finish", "record", "report"}
Keys(stage) == IF stage = "method" THEN AllUnits ELSE SUBSET AllUnits

\* A process that is past the first lock has it.
Locked == \A p \in Procs : pc[p] \notin {"idle", "lockReports"} => owner[Home(p)] = p

\* An entry for a unit says how the unit was reviewed, and belongs to a scan
\* that has the unit.
GoodEntries ==
  {e \in Entries : e.stage = "method" /\ e.unit # None =>
                     e.unit \in UnitsOf[e.scan] /\ e.tier \in Grades}

\* An entry that is looked up is the last one of its unit in its scan.
CachedIsLast(es) ==
  \A s \in Scans : \A stage \in {"method", "proof"} : \A u \in Keys(stage) :
    LET e == Cached(es, s, stage, u)
    IN  e # None /\ e.scan = s => e \in LastOf(EventsOf(es, s))

IsSlop(es, s, u) ==
  Cached(es, s, "method", u) # None /\ Cached(es, s, "method", u).tier = "slop"

\* Proofs are of cases, and a case once reviewed as slop stays one.
ProofsHaveCases(es) ==
  \A s \in Scans :
    (\E i \in DOMAIN EventsOf(es, s) : EventsOf(es, s)[i].stage = "proof")
      => \E u \in UnitsOf[s] : IsSlop(es, s, u)

GoodJournal(es) ==
  es \in Seq(GoodEntries) /\ CachedIsLast(es) /\ ProofsHaveCases(es)

\* The results of a process are what the journal would give it again.
ResultsMirrored(p) ==
  \A u \in DOMAIN results[p] :
    LET e == Cached(journal[Home(p)], Scan(p), "method", u)
    IN  e # None /\ e.scan = Scan(p) /\ e.tier = results[p][u]

ProofsMirrored(p) ==
  Candidates(p) # {} =>
    LET e == Cached(journal[Home(p)], Scan(p), "proof", Candidates(p))
    IN  e # None /\ e.scan = Scan(p)

\* A unit that is still open was journaled by this very run.
OpenIsOwn(p) ==
  (\E u \in DOMAIN results[p] : results[p][u] = "retry") =>
    journal[Home(p)] # << >> /\ Last(journal[Home(p)]).scan = Scan(p)

FinalRecord(r) ==
  LET ends == LastOf(r.events)
  IN  /\ Resolved(r.report.results)
      /\ \A e \in ends : e.tier # "retry"
      /\ Cardinality(Reviewed(ends)) = Cardinality(DOMAIN r.report.results)

\* What a process has at every point.
ReviewsInv(p) ==
  /\ pc[p] \notin Working => results[p] = << >>
  /\ pc[p] \in Working => /\ DOMAIN results[p] \subseteq Units(p)
                          /\ ResultsMirrored(p)
                          /\ OpenIsOwn(p)
  /\ pc[p] \in Working \ {"review"} => DOMAIN results[p] = Units(p)
  /\ pc[p] = "proof" => Candidates(p) # {}
  /\ pc[p] = "finish" => ProofsMirrored(p)

WrittenInv(p) ==
  /\ pc[p] \notin {"record", "report"} => written[p] = None
  /\ pc[p] = "record" => written[p] # None /\ ~written[p].created
  /\ written[p] # None => /\ written[p].record.report = Report(p)
                          /\ FinalRecord(written[p].record)
  /\ pc[p] = "report" /\ written[p] = None =>
       Units(p) = {} \/ ~JournalIsFinal(Summarize(journal[Home(p)]))
  /\ pc[p] = "report" /\ written[p] # None =>
       /\ written[p].record \in records[Home(p)]
       /\ written[p].created => written[p].record \notin published[Home(p)]

\* A record without a report has a process in charge of it, in its directory.
RecordsAccounted ==
  \A d \in Dirs :
    /\ published[d] \subseteq records[d]
    /\ \A r \in records[d] \ published[d] :
         \/ abrupt
         \/ \E p \in Procs : /\ pc[p] = "report" /\ Home(p) = d
                             /\ written[p] = [record |-> r, created |-> TRUE]

RecordsFinal == \A d \in Dirs : \A r \in records[d] : FinalRecord(r)

IInv ==
  /\ TypeOK
  /\ Locked
  /\ JournalIsOwned
  /\ \A d \in Dirs : GoodJournal(journal[d])
  /\ \A p \in Procs : ReviewsInv(p)
  /\ \A p \in Procs : WrittenInv(p)
  /\ RecordsFinal
  /\ RecordsAccounted

-----------------------------------------------------------------------------
(* The events of a scan in a journal.                                      *)

\* EventsOf as a fold of FoldFacts, with what every journal keeps of it.
EventsHold(s, es, events) ==
  /\ events \in Seq(GoodEntries)
  /\ \A i \in DOMAIN events : /\ events[i].scan = s
                              /\ \E k \in DOMAIN es : es[k] = events[i]

Events == INSTANCE FoldFacts
  WITH Step <- LAMBDA s, events, e : IF e.scan = s THEN Append(events, e) ELSE events,
       Base <- LAMBDA s : << >>,
       Elements <- GoodEntries,
       Holds <- EventsHold

LEMMA EventsAreAFold ==
  ASSUME NEW s, NEW es
  PROVE  EventsOf(es, s) = Events!Fold(s, es)
BY DEF EventsOf, Events!Fold, FoldLeft, MapThenFoldSet, Max, Events!Last

LEMMA EventsOfEmpty ==
  ASSUME NEW s
  PROVE  EventsOf(<< >>, s) = << >>
BY EventsAreAFold, Events!FoldEmpty

LEMMA EventsOfAppend ==
  ASSUME NEW es \in Seq(GoodEntries), NEW e \in GoodEntries, NEW s
  PROVE  EventsOf(Append(es, e), s) =
           IF e.scan = s THEN Append(EventsOf(es, s), e) ELSE EventsOf(es, s)
BY EventsAreAFold, Events!FoldAppend

\* The events of a scan are entries of the journal that name the scan.
LEMMA EventsOfTyped ==
  ASSUME NEW es \in Seq(GoodEntries), NEW s
  PROVE  EventsHold(s, es, EventsOf(es, s))
<1>1. \A c : EventsHold(c, << >>, << >>)
  BY DEF EventsHold
<1>2. ASSUME NEW c, NEW seq \in Seq(GoodEntries), NEW e \in GoodEntries,
             EventsHold(c, seq, Events!Fold(c, seq))
      PROVE  EventsHold(c, Append(seq, e),
                        IF e.scan = c THEN Append(Events!Fold(c, seq), e)
                                      ELSE Events!Fold(c, seq))
  <2> DEFINE events == Events!Fold(c, seq)
  <2>1. /\ events \in Seq(GoodEntries)
        /\ \A i \in DOMAIN events : /\ events[i].scan = c
                                    /\ \E k \in DOMAIN seq : seq[k] = events[i]
    BY <1>2 DEF EventsHold
  <2>2. /\ DOMAIN seq \subseteq DOMAIN Append(seq, e)
        /\ \A k \in DOMAIN seq : Append(seq, e)[k] = seq[k]
        /\ Len(seq) + 1 \in DOMAIN Append(seq, e)
        /\ Append(seq, e)[Len(seq) + 1] = e
    OBVIOUS
  <2> HIDE DEF events
  <2>3. CASE e.scan # c
    BY <2>1, <2>2, <2>3 DEF EventsHold, events
  <2>4. CASE e.scan = c
    <3>1. Append(events, e) \in Seq(GoodEntries)
      BY <2>1
    <3>2. ASSUME NEW i \in DOMAIN Append(events, e)
          PROVE  /\ Append(events, e)[i].scan = c
                 /\ \E k \in DOMAIN Append(seq, e) : Append(seq, e)[k] = Append(events, e)[i]
      <4>1. CASE i \in DOMAIN events
        BY <2>1, <2>2, <4>1
      <4>2. CASE i = Len(events) + 1
        BY <2>1, <2>2, <2>4, <4>2
      <4> QED
        BY <2>1, <4>1, <4>2
    <3> QED
      BY <2>4, <3>1, <3>2 DEF EventsHold, events
  <2> QED
    BY <2>3, <2>4
<1>3. \A c : \A seq \in Seq(GoodEntries) : EventsHold(c, seq, Events!Fold(c, seq))
  BY <1>1, <1>2, Events!FoldInduction
<1> QED
  BY <1>3, EventsAreAFold

-----------------------------------------------------------------------------
(* The last entries of the units.                                          *)

LEMMA LastOfFinite ==
  ASSUME NEW events \in Seq(GoodEntries)
  PROVE  IsFiniteSet(LastOf(events)) /\ LastOf(events) \subseteq Range(events)
<1> DEFINE I == {i \in DOMAIN events :
                   /\ events[i].unit # None
                   /\ \A k \in (i + 1)..Len(events) : events[k].unit # events[i].unit}
           f == [i \in I |-> events[i]]
<1>1. IsFiniteSet(I)
  <2>1. IsFiniteSet(1..Len(events))
    BY FS_Interval
  <2> QED
    BY <2>1, FS_Subset
<1>2. f \in Surjection(I, LastOf(events))
  BY DEF LastOf, Surjection
<1>3. LastOf(events) \subseteq Range(events)
  BY DEF LastOf, Range
<1> HIDE DEF I, f
<1> QED
  BY <1>1, <1>2, <1>3, FS_Surjection

\* The last entry of a unit is one.
LEMMA LastOfUnique ==
  ASSUME NEW events \in Seq(GoodEntries), NEW x \in LastOf(events), NEW y \in LastOf(events),
         x.unit = y.unit
  PROVE  x = y
<1>1. PICK i \in DOMAIN events :
        /\ x = events[i] /\ x.unit # None
        /\ \A k \in (i + 1)..Len(events) : events[k].unit # events[i].unit
  BY DEF LastOf
<1>2. PICK j \in DOMAIN events :
        /\ y = events[j]
        /\ \A k \in (j + 1)..Len(events) : events[k].unit # events[j].unit
  BY DEF LastOf
<1>3. i \in 1..Len(events) /\ j \in 1..Len(events) /\ Len(events) \in Nat
  OBVIOUS
<1>4. ~(i < j) /\ ~(j < i)
  BY <1>1, <1>2, <1>3
<1> QED
  BY <1>1, <1>2, <1>3, <1>4

\* What one more event does to them.
LEMMA LastOfAppend ==
  ASSUME NEW events \in Seq(GoodEntries), NEW e \in GoodEntries
  PROVE  /\ \A x \in LastOf(events) : x.unit # e.unit => x \in LastOf(Append(events, e))
         /\ e.unit # None => e \in LastOf(Append(events, e))
<1> DEFINE n == Len(events)
           ext == Append(events, e)
<1>1. /\ n \in Nat /\ Len(ext) = n + 1 /\ DOMAIN ext = 1..(n + 1) /\ DOMAIN events = 1..n
      /\ \A i \in 1..n : ext[i] = events[i]
      /\ ext[n + 1] = e
  OBVIOUS
<1>2. ASSUME NEW x \in LastOf(events), x.unit # e.unit
      PROVE  x \in LastOf(ext)
  <2>1. PICK i \in 1..n :
          /\ x = events[i] /\ x.unit # None
          /\ \A k \in (i + 1)..n : events[k].unit # x.unit
    BY <1>1 DEF LastOf
  <2>2. \A k \in (i + 1)..(n + 1) : ext[k].unit # x.unit
    <3> HIDE DEF ext, n
    <3> SUFFICES ASSUME NEW k \in (i + 1)..(n + 1)
                 PROVE  ext[k].unit # x.unit
      OBVIOUS
    <3>1. k = n + 1 \/ (k \in (i + 1)..n /\ k \in 1..n)
      BY <1>1
    <3> QED
      BY <1>1, <1>2, <2>1, <3>1
  <2>3. i \in DOMAIN ext /\ ext[i] = x /\ ext[i].unit # None
    BY <1>1, <2>1
  <2> HIDE DEF ext, n
  <2> QED
    BY <1>1, <2>2, <2>3 DEF LastOf
<1>3. ASSUME e.unit # None
      PROVE  e \in LastOf(ext)
  <2>1. (n + 1 + 1)..(n + 1) = {}
    BY <1>1
  <2> HIDE DEF ext, n
  <2>2. n + 1 \in DOMAIN ext
    BY <1>1
  <2> QED
    BY <1>1, <1>3, <2>1, <2>2 DEF LastOf
<1> QED
  BY <1>2, <1>3

-----------------------------------------------------------------------------
(* The entry a unit is looked up by.                                       *)

Hits(es, s, stage, u) ==
  {i \in DOMAIN es : /\ es[i].stage = stage /\ es[i].unit = u
                     /\ ContextOf[es[i].scan] = ContextOf[s]}

LEMMA CachedByHits ==
  ASSUME NEW es, NEW s, NEW stage, NEW u
  PROVE  Cached(es, s, stage, u) =
           IF Hits(es, s, stage, u) = {} THEN None ELSE es[Max(Hits(es, s, stage, u))]
BY DEF Cached, Hits

\* The last of a nonempty set of positions.
LEMMA LastPosition ==
  ASSUME NEW n \in Nat, NEW s, s \subseteq 1..n, s # {}
  PROVE  Max(s) \in s /\ \A m \in s : m <= Max(s)
<1>1. Events!Last(s) \in s /\ \A m \in s : m <= Events!Last(s)
  BY Events!LastOfPositions
<1> QED
  BY <1>1 DEF Max, Events!Last

LEMMA CachedEmpty ==
  ASSUME NEW s, NEW stage, NEW u
  PROVE  Cached(<< >>, s, stage, u) = None
BY DEF Cached

\* A unit is looked up among all entries of its context.
LEMMA CachedContext ==
  ASSUME NEW es, NEW s, NEW t, NEW stage, NEW u, ContextOf[s] = ContextOf[t]
  PROVE  Cached(es, s, stage, u) = Cached(es, t, stage, u)
BY DEF Cached

LEMMA CachedTyped ==
  ASSUME NEW es \in Seq(GoodEntries), NEW s, NEW stage, NEW u,
         Cached(es, s, stage, u) # None
  PROVE  LET e == Cached(es, s, stage, u)
         IN  /\ e \in GoodEntries /\ e \in Range(es)
             /\ e.stage = stage /\ e.unit = u /\ ContextOf[e.scan] = ContextOf[s]
<1> DEFINE hits == Hits(es, s, stage, u)
<1>1. hits \subseteq 1..Len(es) /\ hits # {}
  <2>1. hits \subseteq 1..Len(es)
    BY DEF Hits
  <2>2. Cached(es, s, stage, u) = IF hits = {} THEN None ELSE es[Max(hits)]
    BY CachedByHits
  <2> HIDE DEF hits
  <2> QED
    BY <2>1, <2>2
<1>2. Max(hits) \in hits
  <2> HIDE DEF hits
  <2>1. Len(es) \in Nat
    OBVIOUS
  <2> QED
    BY <1>1, <2>1, LastPosition
<1>3. Cached(es, s, stage, u) = es[Max(hits)]
  BY <1>1, CachedByHits
<1>4. PICK i \in DOMAIN es :
        /\ Cached(es, s, stage, u) = es[i]
        /\ es[i].stage = stage /\ es[i].unit = u /\ ContextOf[es[i].scan] = ContextOf[s]
  BY <1>2, <1>3 DEF Hits
<1>5. es[i] \in GoodEntries /\ es[i] \in Range(es)
  BY DEF Range
<1> QED
  BY <1>4, <1>5

\* A new entry of the unit hides the earlier ones; any other entry leaves the
\* unit as it was.
LEMMA CachedAppend ==
  ASSUME NEW es \in Seq(GoodEntries), NEW e \in GoodEntries,
         NEW s, NEW stage, NEW u
  PROVE  Cached(Append(es, e), s, stage, u) =
           IF e.stage = stage /\ e.unit = u /\ ContextOf[e.scan] = ContextOf[s]
             THEN e ELSE Cached(es, s, stage, u)
<1> DEFINE n == Len(es)
           ext == Append(es, e)
           old == Hits(es, s, stage, u)
           new == Hits(ext, s, stage, u)
<1>1. /\ n \in Nat /\ DOMAIN es = 1..n /\ DOMAIN ext = 1..(n + 1)
      /\ \A i \in 1..n : ext[i] = es[i]
      /\ ext[n + 1] = e
  OBVIOUS
<1>2. 1..(n + 1) = (1..n) \cup {n + 1} /\ n + 1 \notin 1..n /\ n + 1 \in Nat
  BY <1>1
<1>3. CASE e.stage = stage /\ e.unit = u /\ ContextOf[e.scan] = ContextOf[s]
  <2>1. n + 1 \in new /\ new \subseteq 1..(n + 1)
    <3> HIDE DEF ext, n
    <3> QED
      BY <1>1, <1>2, <1>3 DEF Hits
  <2>2. Max(new) \in 1..(n + 1) /\ n + 1 <= Max(new)
    <3> HIDE DEF new, n
    <3> QED
      BY <1>2, <2>1, LastPosition
  <2>3. Max(new) = n + 1
    BY <1>1, <2>2
  <2> QED
    BY <1>1, <1>3, <2>1, <2>3, CachedByHits
<1>4. CASE ~(e.stage = stage /\ e.unit = u /\ ContextOf[e.scan] = ContextOf[s])
  <2>1. new = old
    <3> HIDE DEF ext, n
    <3> QED
      BY <1>1, <1>2, <1>4 DEF Hits
  <2>2. old # {} => Max(old) \in 1..n
    <3>1. old \subseteq 1..n
      BY DEF Hits
    <3> HIDE DEF old, n
    <3> QED
      BY <1>1, <3>1, LastPosition
  <2>3. old # {} => ext[Max(old)] = es[Max(old)]
    BY <1>1, <2>2
  <2>4. Cached(ext, s, stage, u) = IF new = {} THEN None ELSE ext[Max(new)]
    BY CachedByHits
  <2>5. Cached(es, s, stage, u) = IF old = {} THEN None ELSE es[Max(old)]
    BY CachedByHits
  <2> HIDE DEF old, new
  <2> QED
    BY <1>4, <2>1, <2>3, <2>4, <2>5
<1> QED
  BY <1>3, <1>4

-----------------------------------------------------------------------------
(* Journals.                                                               *)

\* A set of cases is no method unit, and neither is None.
LEMMA KeysApart ==
  /\ None \notin AllUnits /\ None \notin SUBSET AllUnits
  /\ \A u \in AllUnits : u \notin SUBSET AllUnits
<1>1. \A u \in AllUnits : \E s \in Scans : u \in UnitsOf[s]
  BY DEF AllUnits
<1> QED
  BY <1>1, PipelineAssumption, KeyAssumption DEF AllUnits

LEMMA GoodIsEntry ==
  /\ GoodEntries \subseteq Entries
  /\ None \notin GoodEntries
  /\ \A es \in Seq(GoodEntries) : es \in Seq(Entries)
BY NoneAssumption DEF GoodEntries

\* What an entry is made of.
LEMMA EntryParts ==
  ASSUME NEW e \in GoodEntries
  PROVE  /\ e.scan \in Scans
         /\ e.stage \in {"method", "proof"}
         /\ e.unit # None => e.unit \in Keys(e.stage)
         /\ e.stage = "method" /\ e.unit # None => e.unit \in UnitsOf[e.scan] /\ e.tier \in Grades
         /\ e.stage = "proof" => e.tier = None
<1>1. e \in Entries /\ (e.stage = "method" /\ e.unit # None =>
                          e.unit \in UnitsOf[e.scan] /\ e.tier \in Grades)
  BY DEF GoodEntries
<1>2. CASE e \in [stage : {"method"}, scan : Scans, unit : AllUnits \cup {None},
                  tier : Grades \cup {None}]
  BY <1>1, <1>2 DEF Keys
<1>3. CASE e \in [stage : {"proof"}, scan : Scans, unit : (SUBSET AllUnits) \cup {None},
                  tier : {None}]
  BY <1>3 DEF Keys
<1> QED
  BY <1>1, <1>2, <1>3 DEF Entries

LEMMA CachedIsLastAppend ==
  ASSUME NEW es \in Seq(GoodEntries), CachedIsLast(es), NEW e \in GoodEntries
  PROVE  CachedIsLast(Append(es, e))
<1> SUFFICES ASSUME NEW s \in Scans, NEW stage \in {"method", "proof"}, NEW u \in Keys(stage),
                    Cached(Append(es, e), s, stage, u) # None,
                    Cached(Append(es, e), s, stage, u).scan = s
             PROVE  Cached(Append(es, e), s, stage, u) \in LastOf(EventsOf(Append(es, e), s))
  BY DEF CachedIsLast
<1> DEFINE c == Cached(es, s, stage, u)
           events == EventsOf(es, s)
<1>1. events \in Seq(GoodEntries)
  BY EventsOfTyped DEF EventsHold
<1>2. u # None
  BY KeysApart DEF Keys
<1>3. CASE e.stage = stage /\ e.unit = u /\ ContextOf[e.scan] = ContextOf[s]
  <2>1. Cached(Append(es, e), s, stage, u) = e
    BY <1>3, CachedAppend
  <2>2. EventsOf(Append(es, e), s) = Append(events, e)
    BY <2>1, EventsOfAppend
  <2> QED
    BY <1>1, <1>2, <1>3, <2>1, <2>2, LastOfAppend
<1>4. CASE ~(e.stage = stage /\ e.unit = u /\ ContextOf[e.scan] = ContextOf[s])
  <2>1. Cached(Append(es, e), s, stage, u) = c
    BY <1>4, CachedAppend
  <2>2. c \in LastOf(events)
    BY <2>1 DEF CachedIsLast
  <2>3. c.unit = u
    BY <2>1, CachedTyped
  <2>4. CASE e.scan # s
    BY <2>1, <2>2, <2>4, EventsOfAppend
  <2>5. CASE e.scan = s
    <3>1. e.stage # stage \/ e.unit # u
      BY <1>4, <2>5
    <3>2. e.unit # u
      BY <3>1, <1>2, EntryParts, KeysApart DEF Keys
    <3>3. EventsOf(Append(es, e), s) = Append(events, e)
      BY <2>5, EventsOfAppend
    <3> QED
      BY <1>1, <2>1, <2>2, <2>3, <3>2, <3>3, LastOfAppend
  <2> QED
    BY <2>4, <2>5
<1> QED
  BY <1>3, <1>4

\* A unit that was reviewed as slop stays it, when no final review is replaced
\* by another one.
LEMMA SlopStays ==
  ASSUME NEW es \in Seq(GoodEntries), NEW e \in GoodEntries,
         LET c == Cached(es, e.scan, "method", e.unit)
         IN  e.stage = "method" /\ e.unit # None /\ c # None /\ c.tier # "retry"
               => e.tier = c.tier,
         NEW s \in Scans, NEW u \in AllUnits, IsSlop(es, s, u)
  PROVE  IsSlop(Append(es, e), s, u)
<1>1. u # None
  BY KeysApart
<1>2. CASE e.stage = "method" /\ e.unit = u /\ ContextOf[e.scan] = ContextOf[s]
  <2>1. Cached(es, e.scan, "method", u) = Cached(es, s, "method", u)
    BY <1>2, CachedContext
  <2>2. e.tier = "slop"
    BY <1>1, <1>2, <2>1 DEF IsSlop
  <2>3. Cached(Append(es, e), s, "method", u) = e
    BY <1>2, CachedAppend
  <2> QED
    BY <2>2, <2>3, GoodIsEntry DEF IsSlop
<1>3. CASE ~(e.stage = "method" /\ e.unit = u /\ ContextOf[e.scan] = ContextOf[s])
  BY <1>3, CachedAppend DEF IsSlop
<1> QED
  BY <1>2, <1>3

\* What an append has to respect to keep a good journal.
LEMMA GoodAppend ==
  ASSUME NEW es, GoodJournal(es), NEW e \in GoodEntries,
         LET c == Cached(es, e.scan, "method", e.unit)
         IN  e.stage = "method" /\ e.unit # None /\ c # None /\ c.tier # "retry"
               => e.tier = c.tier,
         e.stage = "proof" => \E u \in UnitsOf[e.scan] : IsSlop(es, e.scan, u)
  PROVE  GoodJournal(Append(es, e))
<1>1. es \in Seq(GoodEntries) /\ CachedIsLast(es) /\ ProofsHaveCases(es)
  BY DEF GoodJournal
<1>2. Append(es, e) \in Seq(GoodEntries) /\ CachedIsLast(Append(es, e))
  BY <1>1, CachedIsLastAppend
<1>3. ASSUME NEW s \in Scans,
             NEW i \in DOMAIN EventsOf(Append(es, e), s),
             EventsOf(Append(es, e), s)[i].stage = "proof"
      PROVE  \E u \in UnitsOf[s] : IsSlop(Append(es, e), s, u)
  <2> DEFINE events == EventsOf(es, s)
  <2>1. events \in Seq(GoodEntries)
    BY <1>1, EventsOfTyped DEF EventsHold
  <2>2. \/ i \in DOMAIN events /\ events[i].stage = "proof"
        \/ e.scan = s /\ e.stage = "proof"
    <3>1. CASE e.scan = s
      <4>1. EventsOf(Append(es, e), s) = Append(events, e)
        BY <1>1, <3>1, EventsOfAppend
      <4> HIDE DEF events
      <4>2. i \in DOMAIN events \/ i = Len(events) + 1
        BY <2>1, <4>1
      <4> QED
        BY <1>3, <2>1, <3>1, <4>1, <4>2
    <3>2. CASE e.scan # s
      BY <1>1, <1>3, <3>2, EventsOfAppend
    <3> QED
      BY <3>1, <3>2
  <2>3. \E u \in UnitsOf[s] : IsSlop(es, s, u)
    BY <1>1, <2>2 DEF ProofsHaveCases
  <2>4. PICK u \in UnitsOf[s] : IsSlop(es, s, u)
    BY <2>3
  <2>5. u \in AllUnits
    BY DEF AllUnits
  <2> QED
    BY <1>1, <2>4, <2>5, SlopStays
<1> QED
  BY <1>2, <1>3 DEF GoodJournal, ProofsHaveCases

LEMMA ManifestGood ==
  ASSUME NEW s \in Scans, NEW stage \in {"method", "proof"}
  PROVE  /\ ManifestOf(s, stage) \in GoodEntries
         /\ ManifestOf(s, stage).scan = s /\ ManifestOf(s, stage).unit = None
         /\ ManifestOf(s, stage).stage = stage
BY DEF ManifestOf, GoodEntries, Entries

\* ensure_stage_manifest changes no answer of the journal.
LEMMA IntroducedGood ==
  ASSUME NEW es, GoodJournal(es), NEW s \in Scans, NEW stage \in {"method", "proof"},
         stage = "proof" => \E u \in UnitsOf[s] : IsSlop(es, s, u)
  PROVE  /\ GoodJournal(Introduced(es, s, stage))
         /\ \A t, st, u : u # None =>
              Cached(Introduced(es, s, stage), t, st, u) = Cached(es, t, st, u)
         /\ es # << >> /\ Last(es).scan = s =>
              /\ Introduced(es, s, stage) # << >>
              /\ Last(Introduced(es, s, stage)).scan = s
<1> DEFINE m == ManifestOf(s, stage)
<1>1. /\ m \in GoodEntries /\ m.scan = s /\ m.unit = None /\ m.stage = stage
  BY ManifestGood
<1>2. es \in Seq(GoodEntries)
  BY DEF GoodJournal
<1> HIDE DEF m
<1>3. GoodJournal(Append(es, m))
  BY <1>1, GoodAppend
<1>4. \A t, st, u : u # None => Cached(Append(es, m), t, st, u) = Cached(es, t, st, u)
  BY <1>1, <1>2, CachedAppend
<1>5. Append(es, m) # << >> /\ Last(Append(es, m)) = m
  BY <1>1, <1>2 DEF Last
<1>6. Introduced(es, s, stage) = es \/ Introduced(es, s, stage) = Append(es, m)
  BY DEF Introduced, m
<1> QED
  BY <1>1, <1>3, <1>4, <1>5, <1>6

-----------------------------------------------------------------------------
(* One process moves: what the others have stays.                          *)

LEMMA JobParts ==
  ASSUME TypeOK, NEW p \in Procs, pc[p] # "idle"
  PROVE  /\ job[p] \in Jobs /\ Home(p) \in Dirs /\ Scan(p) \in Scans
         /\ job[p].repository \in Dirs
         /\ Units(p) = UnitsOf[Scan(p)] /\ Units(p) \subseteq AllUnits
<1>1. job[p] \in [repository : Dirs, reports : Dirs, scan : Scans, zeroBudget : BOOLEAN]
  BY PipelineAssumption DEF TypeOK
<1> QED
  BY <1>1, PipelineAssumption DEF TypeOK, Home, Scan, Units, AllUnits

\* A process changes its own memory and the directories it has locked.
Alone(p) ==
  /\ \A q \in Procs \ {p} : /\ pc'[q] = pc[q] /\ job'[q] = job[q]
                            /\ store'[q] = store[q] /\ results'[q] = results[q]
                            /\ written'[q] = written[q]
  /\ \A d \in Dirs : owner[d] # p => /\ journal'[d] = journal[d]
                                     /\ records'[d] = records[d]
                                     /\ published'[d] = published[d]

JournalKept(p) == pc[p] \in Opened => store[p] = journal[Home(p)]

LEMMA OthersKeep ==
  ASSUME IInv, NEW p \in Procs, Alone(p), NEW q \in Procs \ {p}
  PROVE  ReviewsInv(q)' /\ WrittenInv(q)' /\ JournalKept(q)'
<1>1. /\ pc'[q] = pc[q] /\ job'[q] = job[q] /\ store'[q] = store[q]
      /\ results'[q] = results[q] /\ written'[q] = written[q]
  BY DEF Alone
<1>2. ReviewsInv(q) /\ WrittenInv(q) /\ JournalKept(q)
  BY DEF IInv, JournalIsOwned, JournalKept, Opened
<1>3. Home(q)' = Home(q) /\ Scan(q)' = Scan(q) /\ Units(q)' = Units(q)
      /\ Candidates(q)' = Candidates(q) /\ Report(q)' = Report(q)
  BY <1>1 DEF Home, Scan, Units, Candidates, Report
<1>4. CASE pc[q] \in Opened
  <2>1. /\ journal'[Home(q)] = journal[Home(q)]
        /\ records'[Home(q)] = records[Home(q)]
        /\ published'[Home(q)] = published[Home(q)]
    <3>1. owner[Home(q)] = q /\ Home(q) \in Dirs
      BY <1>4, JobParts DEF IInv, Locked, Opened
    <3> QED
      BY <3>1 DEF Alone
  <2>2. ReviewsInv(q)'
    BY <1>1, <1>2, <1>3, <2>1 DEF ReviewsInv, ResultsMirrored, OpenIsOwn, ProofsMirrored
  <2>3. WrittenInv(q)'
    BY <1>1, <1>2, <1>3, <2>1 DEF WrittenInv
  <2>4. JournalKept(q)'
    BY <1>1, <1>2, <1>3, <2>1 DEF JournalKept
  <2> QED
    BY <2>2, <2>3, <2>4
<1>5. CASE pc[q] \notin Opened
  BY <1>1, <1>2, <1>3, <1>5 DEF ReviewsInv, WrittenInv, JournalKept, Opened, Working
<1> QED
  BY <1>4, <1>5

\* What is left to show of a step of p.
LEMMA Together ==
  ASSUME IInv, NEW p \in Procs, Alone(p),
         TypeOK', Locked', JournalKept(p)', ReviewsInv(p)', WrittenInv(p)',
         (\A d \in Dirs : GoodJournal(journal[d]))', RecordsFinal', RecordsAccounted'
  PROVE  IInv'
<1>1. \A q \in Procs : (ReviewsInv(q) /\ WrittenInv(q) /\ JournalKept(q))'
  BY OthersKeep
<1>2. JournalIsOwned'
  BY <1>1 DEF JournalIsOwned, JournalKept, Opened
<1> QED
  BY <1>1, <1>2 DEF IInv

LEMMA OutputsKept ==
  ASSUME IInv, NEW p \in Procs, Alone(p), UNCHANGED <<records, published, abrupt>>,
         pc[p] # "report"
  PROVE  RecordsFinal' /\ RecordsAccounted'
<1>1. RecordsFinal'
  BY DEF IInv, RecordsFinal
<1>2. ASSUME NEW d \in Dirs
      PROVE  /\ published'[d] \subseteq records'[d]
             /\ \A r \in records'[d] \ published'[d] :
                  \/ abrupt'
                  \/ \E q \in Procs : /\ pc'[q] = "report" /\ Home(q)' = d
                                      /\ written'[q] = [record |-> r, created |-> TRUE]
  <2>1. published[d] \subseteq records[d]
    BY DEF IInv, RecordsAccounted
  <2>2. ASSUME NEW r \in records[d] \ published[d], ~abrupt
        PROVE  \E q \in Procs : /\ pc'[q] = "report" /\ Home(q)' = d
                                /\ written'[q] = [record |-> r, created |-> TRUE]
    <3>1. PICK q \in Procs : /\ pc[q] = "report" /\ Home(q) = d
                             /\ written[q] = [record |-> r, created |-> TRUE]
      BY <2>2 DEF IInv, RecordsAccounted
    <3> QED
      BY <3>1 DEF Alone, Home
  <2> QED
    BY <2>1, <2>2
<1> QED
  BY <1>1, <1>2 DEF RecordsAccounted

LEMMA LockedKept ==
  ASSUME IInv, NEW p \in Procs, Alone(p), owner' = owner,
         pc'[p] \in {"idle", "lockReports"}
           \/ (pc[p] \notin {"idle", "lockReports"} /\ job'[p] = job[p])
  PROVE  Locked'
<1> SUFFICES ASSUME NEW q \in Procs, pc'[q] \notin {"idle", "lockReports"}
             PROVE  owner'[Home(q)'] = q
  BY DEF Locked
<1>1. pc[q] \notin {"idle", "lockReports"} /\ job'[q] = job[q]
  BY DEF Alone
<1> QED
  BY <1>1 DEF IInv, Locked, Home

LEMMA EmptyResults ==
  << >> \in Results /\ DOMAIN << >> = {}
<1>1. << >> \in [{} -> Grades]
  <2>1. DOMAIN << >> = {} /\ << >> = [x \in {} |-> "slop"]
    OBVIOUS
  <2> QED
    BY <2>1
<1> QED
  BY <1>1 DEF Results

\* The points of a process.
Points == {"idle", "lockReports", "lockRepository", "open", "exit",
           "review", "proof", "finish", "record", "report"}

\* A process leaves; what it leaves behind is up to the step.
LEMMA ExitKeeps ==
  ASSUME IInv, NEW p \in Procs, Exit(p), UNCHANGED journal,
         \A d \in Dirs : owner[d] # p =>
           records'[d] = records[d] /\ published'[d] = published[d],
         records' \in [Dirs -> SUBSET Records],
         published' \in [Dirs -> SUBSET Records],
         report' \in [Dirs -> Reports \cup {None}],
         abrupt' \in BOOLEAN, runs' \in 0..MaxRuns,
         RecordsFinal', RecordsAccounted'
  PROVE  IInv'
<1>1. TypeOK
  BY DEF IInv
<1>2. /\ pc'[p] = "idle" /\ results'[p] = << >> /\ written'[p] = None
  BY <1>1 DEF Exit, Goto, TypeOK
<1>3. Alone(p)
  BY <1>1 DEF Exit, Goto, TypeOK, Alone
<1>4. TypeOK'
  <2>1. pc' \in [Procs -> Points] /\ \A q \in Procs : pc'[q] # "idle" => job'[q] \in Jobs
    BY <1>1 DEF Exit, Goto, TypeOK, Points
  <2>2. job' \in [Procs -> Jobs \cup {None}] /\ owner' \in [Dirs -> Procs \cup {None}]
    BY <1>1 DEF Exit, TypeOK
  <2>3. store' \in [Procs -> Seq(Entries)] /\ journal' \in [Dirs -> Seq(Entries)]
    BY <1>1 DEF Exit, TypeOK
  <2>4. results' \in [Procs -> Results]
    BY <1>1, EmptyResults DEF Exit, TypeOK
  <2>5. written' \in [Procs -> Written \cup {None}]
    BY <1>1 DEF Exit, TypeOK
  <2> QED
    BY <2>1, <2>2, <2>3, <2>4, <2>5 DEF TypeOK, Points
<1>5. Locked'
  <2> SUFFICES ASSUME NEW q \in Procs, pc'[q] \notin {"idle", "lockReports"}
               PROVE  owner'[Home(q)'] = q
    BY DEF Locked
  <2>1. q # p /\ pc[q] = pc'[q] /\ job'[q] = job[q]
    BY <1>2, <1>3 DEF Alone
  <2>2. owner[Home(q)] = q /\ Home(q) \in Dirs /\ Home(q)' = Home(q)
    BY <1>1, <2>1, JobParts DEF IInv, Locked, Home
  <2> QED
    BY <2>1, <2>2 DEF Exit
<1>6. ReviewsInv(p)' /\ WrittenInv(p)' /\ JournalKept(p)'
  BY <1>2 DEF ReviewsInv, WrittenInv, JournalKept, Opened, Working
<1>7. (\A d \in Dirs : GoodJournal(journal[d]))'
  BY DEF IInv
<1> QED
  BY <1>3, <1>4, <1>5, <1>6, <1>7, Together

\* A process that writes no record leaves all outputs as they are.
LEMMA QuietExit ==
  ASSUME IInv, NEW p \in Procs, Exit(p), UNCHANGED <<journal, outputs>>,
         runs' = runs, pc[p] # "report"
  PROVE  IInv'
<1>1. TypeOK
  BY DEF IInv
<1>2. Alone(p)
  BY <1>1 DEF Exit, Goto, TypeOK, Alone, outputs
<1>3. RecordsFinal' /\ RecordsAccounted'
  BY <1>2, OutputsKept DEF outputs
<1> QED
  BY <1>1, <1>3, ExitKeeps DEF outputs, TypeOK

LEMMA StartStep ==
  ASSUME IInv, NEW p \in Procs, Start(p)
  PROVE  IInv'
<1>1. TypeOK
  BY DEF IInv
<1>2. PICK j \in Jobs : job' = [job EXCEPT ![p] = j]
  BY DEF Start
<1>3. pc' = [pc EXCEPT ![p] = "lockReports"]
      /\ UNCHANGED <<owner, store, results, written, journal, records, report, published, abrupt>>
  BY DEF Start, Goto, outputs
<1>4. Alone(p)
  BY <1>1, <1>2, <1>3 DEF TypeOK, Alone
<1>5. pc[p] = "idle" /\ pc'[p] = "lockReports"
  BY <1>1, <1>3 DEF Start, TypeOK
<1>6. TypeOK'
  <2>1. pc' \in [Procs -> Points] /\ job' \in [Procs -> Jobs \cup {None}]
        /\ \A q \in Procs : pc'[q] # "idle" => job'[q] \in Jobs
    BY <1>1, <1>2, <1>3 DEF TypeOK, Points
  <2>2. runs' \in 0..MaxRuns
    BY <1>1, PipelineAssumption DEF TypeOK, Start
  <2> QED
    BY <1>1, <1>3, <2>1, <2>2 DEF TypeOK, Points
<1>7. Locked'
  BY <1>3, <1>4, <1>5, LockedKept
<1>8. ReviewsInv(p)' /\ WrittenInv(p)' /\ JournalKept(p)'
  <2>1. results[p] = << >> /\ written[p] = None
    BY <1>5 DEF IInv, ReviewsInv, WrittenInv, Working
  <2> QED
    BY <1>3, <1>5, <2>1 DEF ReviewsInv, WrittenInv, JournalKept, Opened, Working
<1>9. RecordsFinal' /\ RecordsAccounted' /\ (\A d \in Dirs : GoodJournal(journal[d]))'
  BY <1>3, <1>4, <1>5, OutputsKept DEF IInv
<1> QED
  BY <1>4, <1>6, <1>7, <1>8, <1>9, Together

\* A lock is acquired, or the process leaves.
LEMMA LockStep ==
  ASSUME IInv, NEW p \in Procs, NEW d \in Dirs, NEW next \in {"lockRepository", "open"},
         pc[p] \in {"lockReports", "lockRepository"},
         pc[p] = "lockReports" => d = Home(p),
         Lock(p, d, next), UNCHANGED <<journal, outputs, runs>>
  PROVE  IInv'
<1>1. TypeOK
  BY DEF IInv
<1>2. CASE owner[d] \notin {None, p} /\ Exit(p)
  BY <1>2, QuietExit
<1>3. CASE /\ owner[d] \in {None, p}
           /\ owner' = [owner EXCEPT ![d] = p]
           /\ Goto(p, next)
           /\ UNCHANGED <<job, store, results, written>>
  <2>1. Alone(p)
    BY <1>1, <1>3 DEF TypeOK, Alone, Goto, outputs
  <2>2. pc'[p] = next
    BY <1>1, <1>3 DEF TypeOK, Goto
  <2>3. TypeOK'
    <3>1. pc' \in [Procs -> Points] /\ \A q \in Procs : pc'[q] # "idle" => job'[q] \in Jobs
      BY <1>1, <1>3 DEF TypeOK, Goto, Points
    <3>2. owner' \in [Dirs -> Procs \cup {None}]
      BY <1>1, <1>3 DEF TypeOK
    <3> QED
      BY <1>1, <1>3, <3>1, <3>2 DEF TypeOK, outputs, Points
  <2>4. Locked'
    <3> SUFFICES ASSUME NEW q \in Procs, pc'[q] \notin {"idle", "lockReports"}
                 PROVE  owner'[Home(q)'] = q
      BY DEF Locked
    <3>1. Home(q)' = Home(q) /\ owner \in [Dirs -> Procs \cup {None}]
      BY <1>1, <1>3 DEF Home, TypeOK
    <3>2. CASE q = p
      <4>1. Home(p) \in Dirs
        BY <1>1, JobParts
      <4> QED
        BY <1>3, <3>1, <3>2, <4>1 DEF IInv, Locked
    <3>3. CASE q # p
      <4>1. pc[q] \notin {"idle", "lockReports"}
        BY <2>1, <3>3 DEF Alone
      <4>2. owner[Home(q)] = q /\ Home(q) \in Dirs
        BY <1>1, <4>1, JobParts DEF IInv, Locked
      <4>3. Home(q) # d
        BY <1>3, <3>3, <4>2, PipelineAssumption
      <4> QED
        BY <1>3, <3>1, <4>2, <4>3
    <3> QED
      BY <3>2, <3>3
  <2>5. ReviewsInv(p)' /\ WrittenInv(p)' /\ JournalKept(p)'
    <3>1. results[p] = << >> /\ written[p] = None
      BY DEF IInv, ReviewsInv, WrittenInv, Working
    <3> QED
      BY <1>3, <2>2, <3>1 DEF ReviewsInv, WrittenInv, JournalKept, Opened, Working
  <2>6. RecordsFinal' /\ RecordsAccounted' /\ (\A x \in Dirs : GoodJournal(journal[x]))'
    BY <2>1, OutputsKept DEF IInv, outputs
  <2> QED
    BY <2>1, <2>3, <2>4, <2>5, <2>6, Together
<1> QED
  BY <1>2, <1>3 DEF Lock

LEMMA LockReportsStep ==
  ASSUME IInv, NEW p \in Procs, LockReports(p)
  PROVE  IInv'
<1>1. Home(p) \in Dirs
  BY JobParts DEF IInv, LockReports
<1>2. pc[p] = "lockReports" /\ Lock(p, Home(p), "lockRepository")
      /\ UNCHANGED <<journal, outputs, runs>>
  BY DEF LockReports
<1> QED
  BY <1>1, <1>2, LockStep

LEMMA LockRepositoryStep ==
  ASSUME IInv, NEW p \in Procs, LockRepository(p)
  PROVE  IInv'
<1>1. job[p].repository \in Dirs
  BY JobParts DEF IInv, LockRepository
<1> QED
  BY <1>1, LockStep DEF LockRepository

LEMMA LeaveStep ==
  ASSUME IInv, NEW p \in Procs, Leave(p)
  PROVE  IInv'
BY QuietExit DEF Leave

-----------------------------------------------------------------------------
(* The stages.                                                             *)

\* The owner of its report directory puts a journal there and remembers it.
LEMMA JournalWritten ==
  ASSUME IInv, NEW p \in Procs, pc[p] \notin {"idle", "lockReports"},
         NEW es, GoodJournal(es), NEW l \in Points,
         journal' = [journal EXCEPT ![Home(p)] = es],
         store' = [store EXCEPT ![p] = es],
         pc' = [pc EXCEPT ![p] = l],
         UNCHANGED <<job, owner, written, outputs, runs>>,
         results' \in [Procs -> Results],
         \A q \in Procs \ {p} : results'[q] = results[q]
  PROVE  /\ Alone(p) /\ TypeOK' /\ JournalKept(p)'
         /\ (\A d \in Dirs : GoodJournal(journal[d]))'
         /\ pc'[p] = l /\ journal'[Home(p)] = es
<1>1. TypeOK
  BY DEF IInv
<1>2. owner[Home(p)] = p /\ Home(p) \in Dirs /\ job[p] \in Jobs
  BY <1>1, JobParts DEF IInv, Locked
<1>3. es \in Seq(Entries)
  BY GoodIsEntry DEF GoodJournal
<1>4. pc'[p] = l /\ store'[p] = es /\ journal'[Home(p)] = es
  BY <1>1, <1>2 DEF TypeOK
<1>5. Alone(p)
  BY <1>1, <1>2 DEF TypeOK, Alone, outputs
<1>6. TypeOK'
  <2>1. journal' \in [Dirs -> Seq(Entries)] /\ store' \in [Procs -> Seq(Entries)]
    BY <1>1, <1>3 DEF TypeOK
  <2>2. pc' \in [Procs -> Points] /\ \A q \in Procs : pc'[q] # "idle" => job'[q] \in Jobs
    BY <1>1, <1>2 DEF TypeOK, Points
  <2> QED
    BY <1>1, <2>1, <2>2 DEF TypeOK, outputs, Points
<1>7. JournalKept(p)'
  BY <1>4 DEF JournalKept, Home
<1>8. (\A d \in Dirs : GoodJournal(journal[d]))'
  BY <1>1 DEF IInv, TypeOK
<1> QED
  BY <1>4, <1>5, <1>6, <1>7, <1>8

\* The same step when the journal stays as it is.
LEMMA JournalLeft ==
  ASSUME IInv, NEW p \in Procs, pc[p] \in Opened, NEW l \in Points,
         UNCHANGED <<journal, store>>,
         pc' = [pc EXCEPT ![p] = l],
         UNCHANGED <<job, owner, written, outputs, runs>>,
         results' \in [Procs -> Results],
         \A q \in Procs \ {p} : results'[q] = results[q]
  PROVE  /\ Alone(p) /\ TypeOK' /\ JournalKept(p)'
         /\ (\A d \in Dirs : GoodJournal(journal[d]))'
         /\ pc'[p] = l /\ journal'[Home(p)] = journal[Home(p)]
<1>1. TypeOK
  BY DEF IInv
<1>2. pc[p] # "idle" /\ job[p] \in Jobs
  BY <1>1, JobParts DEF Opened
<1>3. pc'[p] = l /\ Alone(p)
  BY <1>1 DEF TypeOK, Alone, outputs
<1>4. TypeOK'
  <2>1. pc' \in [Procs -> Points] /\ \A q \in Procs : pc'[q] # "idle" => job'[q] \in Jobs
    BY <1>1, <1>2 DEF TypeOK, Points
  <2> QED
    BY <1>1, <2>1 DEF TypeOK, outputs, Points
<1>5. JournalKept(p)'
  BY DEF IInv, JournalIsOwned, JournalKept, Home, Opened
<1> QED
  BY <1>3, <1>4, <1>5 DEF IInv

LEMMA OpenJournalStep ==
  ASSUME IInv, NEW p \in Procs, OpenJournal(p)
  PROVE  IInv'
<1> DEFINE es == Introduced(journal[Home(p)], Scan(p), "method")
           l == IF job[p].zeroBudget THEN "exit" ELSE "review"
<1>1. TypeOK /\ pc[p] = "open"
  BY DEF IInv, OpenJournal
<1>2. Home(p) \in Dirs /\ Scan(p) \in Scans
  BY <1>1, JobParts
<1>3. GoodJournal(es)
  BY <1>2, IntroducedGood DEF IInv
<1>4. /\ journal' = [journal EXCEPT ![Home(p)] = es]
      /\ store' = [store EXCEPT ![p] = es]
      /\ pc' = [pc EXCEPT ![p] = l]
      /\ UNCHANGED <<job, owner, results, written, outputs, runs>>
  BY DEF OpenJournal, Goto
<1>5. l \in {"exit", "review"} /\ l \in Points
  BY DEF Points
<1> HIDE DEF es, l
<1>6. results' \in [Procs -> Results]
  BY <1>1, <1>4 DEF TypeOK
<1>7. /\ Alone(p) /\ TypeOK' /\ JournalKept(p)'
      /\ (\A d \in Dirs : GoodJournal(journal[d]))'
      /\ pc'[p] = l
  BY <1>1, <1>3, <1>4, <1>5, <1>6, JournalWritten
<1>8. Locked'
  BY <1>1, <1>4, <1>7, LockedKept
<1>9. results[p] = << >> /\ written[p] = None
  BY <1>1 DEF IInv, ReviewsInv, WrittenInv, Working
<1>10. ReviewsInv(p)'
  <2>1. results'[p] = << >> /\ DOMAIN results'[p] = {}
    BY <1>4, <1>9, EmptyResults
  <2> QED
    BY <1>5, <1>7, <2>1 DEF ReviewsInv, ResultsMirrored, OpenIsOwn, Working
<1>11. WrittenInv(p)'
  BY <1>4, <1>5, <1>7, <1>9 DEF WrittenInv
<1>12. RecordsFinal' /\ RecordsAccounted'
  BY <1>1, <1>4, <1>7, OutputsKept DEF outputs
<1> QED
  BY <1>7, <1>8, <1>10, <1>11, <1>12, Together

\* What a result is.
LEMMA ResultParts ==
  ASSUME NEW r \in Results
  PROVE  /\ DOMAIN r \subseteq AllUnits /\ \A x \in DOMAIN r : r[x] \in Grades
         /\ r = [x \in DOMAIN r |-> r[x]]
BY DEF Results

\* A review is added to the results.
LEMMA ResultsExtended ==
  ASSUME NEW r \in Results, NEW u \in AllUnits, NEW tier \in Grades, u \notin DOMAIN r
  PROVE  /\ Extended(r, u, tier) \in Results
         /\ DOMAIN Extended(r, u, tier) = DOMAIN r \cup {u}
         /\ Extended(r, u, tier)[u] = tier
         /\ \A x \in DOMAIN r : x # u /\ Extended(r, u, tier)[x] = r[x]
<1> DEFINE us == DOMAIN r \cup {u}
           ext == Extended(r, u, tier)
<1>1. us \subseteq AllUnits /\ \A x \in DOMAIN r : r[x] \in Grades
  BY ResultParts
<1>2. ext = [x \in us |-> IF x = u THEN tier ELSE r[x]]
  BY DEF Extended
<1> HIDE DEF ext
<1>3. /\ DOMAIN ext = us /\ ext[u] = tier
      /\ \A x \in DOMAIN r : x # u /\ ext[x] = r[x]
  BY <1>2
<1>4. ext \in [us -> Grades]
  BY <1>1, <1>2
<1> HIDE DEF us
<1>5. ext \in Results
  BY <1>1, <1>4 DEF Results
<1> QED
  BY <1>3, <1>5 DEF ext, us

LEMMA MethodEntryGood ==
  ASSUME NEW s \in Scans, NEW u \in UnitsOf[s], NEW tier \in Grades
  PROVE  /\ MethodEntry(s, u, tier) \in GoodEntries
         /\ MethodEntry(s, u, tier).stage = "method" /\ MethodEntry(s, u, tier).scan = s
         /\ MethodEntry(s, u, tier).unit = u /\ MethodEntry(s, u, tier).tier = tier
<1>1. u \in AllUnits
  BY DEF AllUnits
<1> QED
  BY <1>1 DEF MethodEntry, GoodEntries, Entries

LEMMA ProofEntryGood ==
  ASSUME NEW s \in Scans, NEW cases \in SUBSET AllUnits
  PROVE  /\ ProofEntry(s, cases) \in GoodEntries
         /\ ProofEntry(s, cases).stage = "proof" /\ ProofEntry(s, cases).scan = s
         /\ ProofEntry(s, cases).unit = cases
BY DEF ProofEntry, GoodEntries, Entries

LEMMA ReviewUnitStep ==
  ASSUME IInv, NEW p \in Procs, NEW u \in AllUnits, ReviewUnit(p, u)
  PROVE  IInv'
<1> DEFINE es == journal[Home(p)]
           s == Scan(p)
           c == Cached(es, s, "method", u)
           reusable == c # None /\ c.tier # "retry"
<1>1. TypeOK /\ pc[p] = "review" /\ pc[p] \in Opened /\ pc[p] \in Working
  BY DEF IInv, ReviewUnit, Opened, Working
<1>2. /\ Home(p) \in Dirs /\ s \in Scans /\ Units(p) = UnitsOf[s]
  BY <1>1, JobParts
<1>3. store[p] = es /\ GoodJournal(es) /\ es \in Seq(GoodEntries)
  BY <1>1, <1>2 DEF IInv, JournalIsOwned, Opened, GoodJournal
<1>4. /\ DOMAIN results[p] \subseteq Units(p) /\ ResultsMirrored(p) /\ OpenIsOwn(p)
      /\ results[p] \in Results /\ written[p] = None
  BY <1>1 DEF IInv, ReviewsInv, WrittenInv, TypeOK
<1>5. u \in Units(p) /\ u \notin DOMAIN results[p] /\ u # None
  BY KeysApart DEF ReviewUnit
<1>6. PICK tier \in IF reusable THEN {c.tier} ELSE Tiers[u] \cup {"retry"} :
        /\ results' = [results EXCEPT ![p] = Extended(@, u, tier)]
        /\ IF reusable /\ c.scan = s
             THEN UNCHANGED <<journal, store>>
             ELSE AppendEntry(p, MethodEntry(s, u, tier))
  BY <1>3 DEF ReviewUnit
<1>7. UNCHANGED <<pc, job, owner, written, outputs, runs>>
  BY DEF ReviewUnit
<1>8. tier \in Grades /\ (reusable => tier = c.tier)
  <2>1. CASE reusable
    <3>1. c \in GoodEntries /\ c.stage = "method" /\ c.unit = u
      BY <1>3, <2>1, CachedTyped
    <3> HIDE DEF c
    <3> QED
      BY <1>5, <1>6, <2>1, <3>1, EntryParts
  <2>2. CASE ~reusable
    BY <1>2, <1>5, <1>6, <2>2, PipelineAssumption DEF Grades
  <2> QED
    BY <2>1, <2>2
<1> DEFINE m == MethodEntry(s, u, tier)
           r == results'[p]
<1>9. /\ m \in GoodEntries /\ m.stage = "method" /\ m.scan = s
      /\ m.unit = u /\ m.tier = tier
  BY <1>2, <1>5, <1>8, MethodEntryGood
<1>10. /\ r \in Results /\ DOMAIN r = DOMAIN results[p] \cup {u} /\ r[u] = tier
       /\ \A x \in DOMAIN results[p] : x # u /\ r[x] = results[p][x]
  <2>1. r = Extended(results[p], u, tier)
    BY <1>1, <1>6 DEF TypeOK
  <2> HIDE DEF r
  <2> QED
    BY <1>4, <1>5, <1>8, <2>1, ResultsExtended
<1>11. /\ results' \in [Procs -> Results]
       /\ \A q \in Procs \ {p} : results'[q] = results[q]
  BY <1>1, <1>6, <1>10 DEF TypeOK
<1>12. pc' = [pc EXCEPT ![p] = "review"] /\ "review" \in Points
  BY <1>1, <1>7 DEF TypeOK, Points
<1>13. /\ Home(p)' = Home(p) /\ Scan(p)' = s /\ Units(p)' = Units(p) /\ pc'[p] = "review"
  BY <1>1, <1>7 DEF Home, Scan, Units
<1> HIDE DEF m, r
<1>14. /\ Alone(p) /\ TypeOK' /\ JournalKept(p)'
       /\ (\A d \in Dirs : GoodJournal(journal[d]))'
       /\ ResultsMirrored(p)' /\ OpenIsOwn(p)'
  <2>1. CASE reusable /\ c.scan = s
    <3>1. UNCHANGED <<journal, store>>
      BY <1>6, <2>1
    <3>2. /\ Alone(p) /\ TypeOK' /\ JournalKept(p)'
          /\ (\A d \in Dirs : GoodJournal(journal[d]))'
      BY <1>1, <1>7, <1>11, <1>12, <3>1, JournalLeft
    <3>3. ResultsMirrored(p)'
      BY <1>4, <1>8, <1>10, <1>13, <2>1, <3>1 DEF ResultsMirrored, r
    <3>4. OpenIsOwn(p)'
      BY <1>4, <1>8, <1>10, <1>13, <2>1, <3>1 DEF OpenIsOwn, r
    <3> QED
      BY <3>2, <3>3, <3>4
  <2>2. CASE ~(reusable /\ c.scan = s)
    <3> DEFINE new == Append(es, m)
    <3>1. /\ journal' = [journal EXCEPT ![Home(p)] = new]
          /\ store' = [store EXCEPT ![p] = new]
      BY <1>3, <1>6, <2>2 DEF AppendEntry, m
    <3>2. GoodJournal(new)
      BY <1>3, <1>8, <1>9, GoodAppend
    <3>3. new # << >> /\ Last(new) = m
      BY <1>3, <1>9 DEF Last
    <3>4. \A x \in DOMAIN results[p] :
            Cached(new, s, "method", x) = Cached(es, s, "method", x)
      BY <1>3, <1>9, <1>10, CachedAppend
    <3>5. Cached(new, s, "method", u) = m
      BY <1>3, <1>9, CachedAppend
    <3> HIDE DEF new
    <3>6. /\ Alone(p) /\ TypeOK' /\ JournalKept(p)'
          /\ (\A d \in Dirs : GoodJournal(journal[d]))'
          /\ journal'[Home(p)] = new
      <4>1. pc[p] \notin {"idle", "lockReports"}
        BY <1>1
      <4>2. UNCHANGED <<job, owner, written, outputs, runs>>
        BY <1>7
      <4> QED
        BY <1>11, <1>12, <3>1, <3>2, <4>1, <4>2, JournalWritten
    <3>7. ResultsMirrored(p)'
      <4> SUFFICES ASSUME NEW x \in DOMAIN r
                   PROVE  LET e == Cached(new, s, "method", x)
                          IN  e # None /\ e.scan = s /\ e.tier = r[x]
        BY <1>13, <3>6 DEF ResultsMirrored, r
      <4>1. CASE x = u
        BY <1>9, <1>10, <3>5, <4>1, GoodIsEntry
      <4>2. CASE x \in DOMAIN results[p]
        BY <1>4, <1>10, <3>4, <4>2 DEF ResultsMirrored
      <4> QED
        BY <1>10, <4>1, <4>2
    <3>8. OpenIsOwn(p)'
      BY <1>9, <1>13, <3>3, <3>6 DEF OpenIsOwn
    <3> QED
      BY <3>6, <3>7, <3>8
  <2> QED
    BY <2>1, <2>2
<1>15. Locked'
  BY <1>1, <1>7, <1>14, LockedKept DEF Opened
<1>16. ReviewsInv(p)'
  <2>1. DOMAIN results'[p] \subseteq Units(p)'
    BY <1>4, <1>5, <1>10, <1>13 DEF r
  <2> QED
    BY <1>13, <1>14, <2>1 DEF ReviewsInv, Working
<1>17. WrittenInv(p)'
  BY <1>4, <1>7, <1>13 DEF WrittenInv
<1>18. RecordsFinal' /\ RecordsAccounted'
  BY <1>1, <1>7, <1>14, OutputsKept DEF outputs
<1> QED
  BY <1>14, <1>15, <1>16, <1>17, <1>18, Together

\* A case that is to be proved is slop in the journal.
LEMMA CandidatesAreSlop ==
  ASSUME TypeOK, NEW p \in Procs, pc[p] # "idle", ResultsMirrored(p),
         DOMAIN results[p] \subseteq Units(p)
  PROVE  /\ Candidates(p) \in SUBSET AllUnits
         /\ \A u \in Candidates(p) :
              u \in UnitsOf[Scan(p)] /\ IsSlop(journal[Home(p)], Scan(p), u)
<1>1. Units(p) = UnitsOf[Scan(p)] /\ Units(p) \subseteq AllUnits
  BY JobParts
<1> QED
  BY <1>1 DEF Candidates, ResultsMirrored, IsSlop

LEMMA OpenProofsStep ==
  ASSUME IInv, NEW p \in Procs, OpenProofs(p)
  PROVE  IInv'
<1> DEFINE es == journal[Home(p)]
           s == Scan(p)
           new == Introduced(es, s, "proof")
<1>1. TypeOK /\ pc[p] = "review" /\ pc[p] \in Opened /\ pc[p] \in Working
  BY DEF IInv, OpenProofs, Opened, Working
<1>2. Home(p) \in Dirs /\ s \in Scans /\ Units(p) \subseteq AllUnits
  BY <1>1, JobParts
<1>3. GoodJournal(es)
  BY <1>2 DEF IInv
<1>4. /\ DOMAIN results[p] = Units(p) /\ ResultsMirrored(p) /\ OpenIsOwn(p)
      /\ written[p] = None
  BY <1>1 DEF IInv, ReviewsInv, WrittenInv, OpenProofs
<1>5. UNCHANGED <<job, owner, results, written, outputs, runs>>
  BY DEF OpenProofs
<1>6. /\ Home(p)' = Home(p) /\ Scan(p)' = s /\ Units(p)' = Units(p)
      /\ Candidates(p)' = Candidates(p)
      /\ results' \in [Procs -> Results]
      /\ \A q \in Procs \ {p} : results'[q] = results[q]
  BY <1>1, <1>5 DEF Home, Scan, Units, Candidates, TypeOK
<1>7. /\ Alone(p) /\ TypeOK' /\ JournalKept(p)'
      /\ (\A d \in Dirs : GoodJournal(journal[d]))'
      /\ ReviewsInv(p)' /\ pc'[p] \in {"proof", "finish"}
  <2>1. CASE Candidates(p) = {}
    <3>1. pc' = [pc EXCEPT ![p] = "finish"] /\ UNCHANGED <<journal, store>>
      BY <2>1 DEF OpenProofs, Goto
    <3>2. "finish" \in Points
      BY DEF Points
    <3>3. /\ Alone(p) /\ TypeOK' /\ JournalKept(p)'
          /\ (\A d \in Dirs : GoodJournal(journal[d]))' /\ pc'[p] = "finish"
      BY <1>1, <1>5, <1>6, <3>1, <3>2, JournalLeft
    <3>4. ReviewsInv(p)'
      BY <1>4, <1>5, <1>6, <2>1, <3>1, <3>3
      DEF ReviewsInv, ResultsMirrored, OpenIsOwn, ProofsMirrored, Working
    <3> QED
      BY <3>3, <3>4
  <2>2. CASE Candidates(p) # {}
    <3>1. /\ pc' = [pc EXCEPT ![p] = "proof"]
          /\ journal' = [journal EXCEPT ![Home(p)] = new]
          /\ store' = [store EXCEPT ![p] = new]
      BY <2>2 DEF OpenProofs, Goto
    <3>2. \E u \in UnitsOf[s] : IsSlop(es, s, u)
      BY <1>1, <1>4, <2>2, CandidatesAreSlop
    <3>3. /\ GoodJournal(new)
          /\ \A t, st, u : u # None => Cached(new, t, st, u) = Cached(es, t, st, u)
          /\ es # << >> /\ Last(es).scan = s => new # << >> /\ Last(new).scan = s
      BY <1>2, <1>3, <3>2, IntroducedGood
    <3> HIDE DEF new
    <3>4. "proof" \in Points /\ pc[p] \notin {"idle", "lockReports"}
      BY <1>1 DEF Points
    <3>5. /\ Alone(p) /\ TypeOK' /\ JournalKept(p)'
          /\ (\A d \in Dirs : GoodJournal(journal[d]))'
          /\ pc'[p] = "proof" /\ journal'[Home(p)] = new
      BY <1>5, <1>6, <3>1, <3>3, <3>4, JournalWritten
    <3>6. ResultsMirrored(p)'
      <4>1. \A u \in DOMAIN results[p] : u # None
        BY <1>2, <1>4, KeysApart
      <4> QED
        BY <1>4, <1>5, <1>6, <3>3, <3>5, <4>1 DEF ResultsMirrored
    <3>7. OpenIsOwn(p)'
      BY <1>4, <1>5, <1>6, <3>3, <3>5 DEF OpenIsOwn
    <3> QED
      BY <1>4, <1>5, <1>6, <2>2, <3>5, <3>6, <3>7 DEF ReviewsInv, Working
  <2> QED
    BY <2>1, <2>2
<1>8. Locked'
  BY <1>1, <1>5, <1>7, LockedKept DEF Opened
<1>9. WrittenInv(p)'
  BY <1>4, <1>5, <1>7 DEF WrittenInv
<1>10. RecordsFinal' /\ RecordsAccounted'
  BY <1>1, <1>5, <1>7, OutputsKept DEF outputs
<1> QED
  BY <1>7, <1>8, <1>9, <1>10, Together

LEMMA ProveCasesStep ==
  ASSUME IInv, NEW p \in Procs, ProveCases(p)
  PROVE  IInv'
<1> DEFINE es == journal[Home(p)]
           s == Scan(p)
           cases == Candidates(p)
           c == Cached(es, s, "proof", cases)
           m == ProofEntry(s, cases)
           new == Append(es, m)
<1>1. TypeOK /\ pc[p] = "proof" /\ pc[p] \in Opened /\ pc[p] \in Working
  BY DEF IInv, ProveCases, Opened, Working
<1>2. Home(p) \in Dirs /\ s \in Scans /\ Units(p) \subseteq AllUnits
  BY <1>1, JobParts
<1>3. store[p] = es /\ GoodJournal(es) /\ es \in Seq(GoodEntries)
  BY <1>1, <1>2 DEF IInv, JournalIsOwned, Opened, GoodJournal
<1>4. /\ DOMAIN results[p] = Units(p) /\ ResultsMirrored(p) /\ OpenIsOwn(p)
      /\ written[p] = None /\ cases # {}
  BY <1>1 DEF IInv, ReviewsInv, WrittenInv
<1>5. /\ cases \in SUBSET AllUnits
      /\ \E u \in UnitsOf[s] : IsSlop(es, s, u)
  BY <1>1, <1>4, CandidatesAreSlop
<1>6. UNCHANGED <<job, owner, results, written, outputs, runs>>
      /\ pc' = [pc EXCEPT ![p] = "finish"]
  BY DEF ProveCases, Goto
<1>7. /\ Home(p)' = Home(p) /\ Scan(p)' = s /\ Units(p)' = Units(p)
      /\ Candidates(p)' = cases
      /\ results' \in [Procs -> Results]
      /\ \A q \in Procs \ {p} : results'[q] = results[q]
      /\ "finish" \in Points
  BY <1>1, <1>6 DEF Home, Scan, Units, Candidates, TypeOK, Points
<1>8. /\ m \in GoodEntries /\ m.stage = "proof" /\ m.scan = s /\ m.unit = cases
  BY <1>2, <1>5, ProofEntryGood
<1>9. /\ Alone(p) /\ TypeOK' /\ JournalKept(p)'
      /\ (\A d \in Dirs : GoodJournal(journal[d]))' /\ pc'[p] = "finish"
      /\ ResultsMirrored(p)' /\ OpenIsOwn(p)' /\ ProofsMirrored(p)'
  <2>1. CASE c # None /\ c.scan = s
    <3>1. UNCHANGED <<journal, store>>
      BY <1>3, <2>1 DEF ProveCases
    <3>2. /\ Alone(p) /\ TypeOK' /\ JournalKept(p)'
          /\ (\A d \in Dirs : GoodJournal(journal[d]))' /\ pc'[p] = "finish"
      BY <1>1, <1>6, <1>7, <3>1, JournalLeft
    <3>3. ResultsMirrored(p)' /\ OpenIsOwn(p)' /\ ProofsMirrored(p)'
      BY <1>4, <1>6, <1>7, <2>1, <3>1 DEF ResultsMirrored, OpenIsOwn, ProofsMirrored
    <3> QED
      BY <3>2, <3>3
  <2>2. CASE ~(c # None /\ c.scan = s)
    <3>1. /\ journal' = [journal EXCEPT ![Home(p)] = new]
          /\ store' = [store EXCEPT ![p] = new]
      BY <1>3, <2>2 DEF ProveCases, AppendEntry
    <3> HIDE DEF m
    <3>2. GoodJournal(new)
      BY <1>3, <1>5, <1>8, GoodAppend
    <3>3. new # << >> /\ Last(new) = m
      BY <1>3, <1>8 DEF Last
    <3>4. /\ \A u : Cached(new, s, "method", u) = Cached(es, s, "method", u)
          /\ Cached(new, s, "proof", cases) = m
      BY <1>3, <1>8, CachedAppend
    <3> HIDE DEF new
    <3>5. /\ Alone(p) /\ TypeOK' /\ JournalKept(p)'
          /\ (\A d \in Dirs : GoodJournal(journal[d]))'
          /\ pc'[p] = "finish" /\ journal'[Home(p)] = new
      <4>1. pc[p] \notin {"idle", "lockReports"}
        BY <1>1
      <4> QED
        BY <1>6, <1>7, <3>1, <3>2, <4>1, JournalWritten
    <3>6. ResultsMirrored(p)'
      BY <1>4, <1>6, <1>7, <3>4, <3>5 DEF ResultsMirrored
    <3>7. OpenIsOwn(p)'
      BY <1>7, <1>8, <3>3, <3>5 DEF OpenIsOwn
    <3>8. ProofsMirrored(p)'
      BY <1>7, <1>8, <3>4, <3>5, GoodIsEntry DEF ProofsMirrored
    <3> QED
      BY <3>5, <3>6, <3>7, <3>8
  <2> QED
    BY <2>1, <2>2
<1>10. Locked'
  BY <1>1, <1>6, <1>9, LockedKept DEF Opened
<1>11. ReviewsInv(p)'
  BY <1>4, <1>6, <1>7, <1>9 DEF ReviewsInv, Working
<1>12. WrittenInv(p)'
  BY <1>4, <1>6, <1>9 DEF WrittenInv
<1>13. RecordsFinal' /\ RecordsAccounted'
  BY <1>1, <1>6, <1>9, OutputsKept DEF outputs
<1> QED
  BY <1>9, <1>10, <1>11, <1>12, <1>13, Together

-----------------------------------------------------------------------------
(* The outputs.                                                            *)

\* A journal is final when no unit of its last scan ends open.
LEMMA FinalMeansNoRetry ==
  ASSUME NEW es \in Seq(GoodEntries)
  PROVE  JournalIsFinal(Summarize(es)) <=>
           \A e \in LastOf(EventsOf(es, Last(es).scan)) : e.tier # "retry"
<1> DEFINE ends == LastOf(EventsOf(es, Last(es).scan))
           open == {e \in ends : e.tier = "retry"}
<1>1. IsFiniteSet(ends)
  BY EventsOfTyped, LastOfFinite DEF EventsHold
<1>2. IsFiniteSet(open)
  BY <1>1, FS_Subset
<1>3. Cardinality(open) = 0 <=> open = {}
  BY <1>2, FS_EmptySet
<1>4. JournalIsFinal(Summarize(es)) <=> Cardinality(open) = 0
  BY DEF JournalIsFinal, Summarize
<1> QED
  BY <1>3, <1>4

\* A unit of the last entries of a scan was reviewed or proved for that scan.
LEMMA EndParts ==
  ASSUME NEW es \in Seq(GoodEntries), NEW s, NEW e \in LastOf(EventsOf(es, s))
  PROVE  /\ e \in GoodEntries /\ e.scan = s /\ e.unit # None
         /\ e \in Range(EventsOf(es, s)) /\ e \in Range(es)
<1> DEFINE events == EventsOf(es, s)
<1>1. EventsHold(s, es, events)
  BY EventsOfTyped
<1> HIDE DEF events
<1>2. PICK i \in DOMAIN events : e = events[i] /\ e.unit # None
  BY DEF LastOf, events
<1>3. PICK k \in DOMAIN es : es[k] = e
  BY <1>1, <1>2 DEF EventsHold
<1> QED
  BY <1>1, <1>2, <1>3 DEF EventsHold, Range, events

\* The results a process has are the last entries of their units.
LEMMA ResultIsAnEnd ==
  ASSUME IInv, NEW p \in Procs, pc[p] \in Working, NEW u \in DOMAIN results[p]
  PROVE  LET s == Scan(p)
             e == Cached(journal[Home(p)], s, "method", u)
         IN  /\ e \in LastOf(EventsOf(journal[Home(p)], s))
             /\ e.unit = u /\ e.stage = "method" /\ e.tier = results[p][u]
<1> DEFINE es == journal[Home(p)]
           s == Scan(p)
           e == Cached(es, s, "method", u)
<1>1. Home(p) \in Dirs /\ s \in Scans /\ Units(p) \subseteq AllUnits
  BY JobParts DEF IInv, Working
<1>2. ResultsMirrored(p) /\ u \in AllUnits
  BY <1>1 DEF IInv, ReviewsInv
<1>3. e # None /\ e.scan = s /\ e.tier = results[p][u]
  BY <1>2 DEF ResultsMirrored
<1>4. GoodJournal(es)
  BY <1>1 DEF IInv
<1>5. e \in LastOf(EventsOf(es, s))
  BY <1>1, <1>2, <1>3, <1>4 DEF GoodJournal, CachedIsLast, Keys
<1>6. e.unit = u /\ e.stage = "method"
  BY <1>3, <1>4, CachedTyped DEF GoodJournal
<1> QED
  BY <1>3, <1>5, <1>6

\* The record a process builds is final.
LEMMA BuiltRecord ==
  ASSUME IInv, NEW p \in Procs, pc[p] = "finish", Units(p) # {},
         JournalIsFinal(Summarize(journal[Home(p)])),
         CoverageAgrees(p, Summarize(journal[Home(p)]))
  PROVE  /\ RecordOf(p, Summarize(journal[Home(p)])) \in Records
         /\ FinalRecord(RecordOf(p, Summarize(journal[Home(p)])))
         /\ RecordOf(p, Summarize(journal[Home(p)])).report = Report(p)
<1> DEFINE es == journal[Home(p)]
           s == Scan(p)
           t == Last(es).scan
           events == EventsOf(es, t)
           ends == LastOf(events)
           r == RecordOf(p, Summarize(es))
<1>1. pc[p] # "idle" /\ pc[p] \in Working /\ TypeOK
  BY DEF Working, IInv
<1>2. Home(p) \in Dirs /\ s \in Scans /\ Units(p) = UnitsOf[s]
  BY <1>1, JobParts
<1>3. es \in Seq(GoodEntries)
  BY <1>2 DEF IInv, GoodJournal
<1>4. /\ DOMAIN results[p] = Units(p) /\ results[p] \in Results /\ OpenIsOwn(p)
  BY <1>1 DEF IInv, ReviewsInv, Working, TypeOK
<1>5. es # << >>
  <2>1. PICK u \in DOMAIN results[p] : TRUE
    BY <1>4
  <2>2. Cached(es, s, "method", u) # None
    BY <1>1 DEF IInv, ReviewsInv, ResultsMirrored
  <2> QED
    BY <2>2, CachedEmpty
<1>6. Last(es) \in GoodEntries
  BY <1>3, <1>5 DEF Last
<1>7. t \in Scans
  BY <1>6, EntryParts
<1>8. events \in Seq(GoodEntries) /\ events \in Seq(Entries)
  BY <1>3, EventsOfTyped, GoodIsEntry DEF EventsHold
<1>9. Report(p) \in Reports
  BY <1>2, <1>4 DEF Report, Reports
<1>10. r = [scan |-> t, events |-> events, report |-> Report(p)]
  BY DEF RecordOf, Summarize
<1>11. r \in Records
  BY <1>7, <1>8, <1>9, <1>10 DEF Records
<1>12. \A e \in ends : e.tier # "retry"
  BY <1>3, FinalMeansNoRetry
<1>13. Resolved(results[p])
  <2> SUFFICES ASSUME NEW u \in DOMAIN results[p], results[p][u] = "retry"
               PROVE  FALSE
    BY DEF Resolved
  <2>1. t = s
    BY <1>4 DEF OpenIsOwn
  <2>2. \E e \in LastOf(EventsOf(es, s)) : e.tier = "retry"
    BY <1>1, ResultIsAnEnd
  <2> QED
    BY <1>12, <2>1, <2>2
<1>14. Cardinality(Reviewed(ends)) = Cardinality(DOMAIN results[p])
  BY DEF CoverageAgrees, Summarize
<1>15. r.events = events /\ r.report.results = results[p] /\ r.report = Report(p)
  BY <1>10 DEF Report
<1>16. FinalRecord(r)
  BY <1>12, <1>13, <1>14, <1>15 DEF FinalRecord
<1> QED
  BY <1>11, <1>15, <1>16

\* A step that only moves p and what it has written.
LEMMA PointMoved ==
  ASSUME IInv, NEW p \in Procs, pc[p] \in {"finish", "record"}, NEW l \in {"record", "report"},
         pc' = [pc EXCEPT ![p] = l],
         UNCHANGED <<job, owner, store, results, journal, report, published, abrupt, runs>>,
         written' \in [Procs -> Written \cup {None}],
         \A q \in Procs \ {p} : written'[q] = written[q],
         records' \in [Dirs -> SUBSET Records],
         \A d \in Dirs : d # Home(p) => records'[d] = records[d]
  PROVE  /\ Alone(p) /\ TypeOK' /\ Locked' /\ JournalKept(p)' /\ ReviewsInv(p)'
         /\ (\A d \in Dirs : GoodJournal(journal[d]))'
         /\ pc'[p] = l
<1>1. TypeOK /\ pc[p] \in Opened /\ pc[p] \in Working
  BY DEF IInv, Opened, Working
<1>2. owner[Home(p)] = p /\ Home(p) \in Dirs /\ job[p] \in Jobs
  BY <1>1, JobParts DEF IInv, Locked
<1>3. Alone(p) /\ pc'[p] = l
  BY <1>1, <1>2 DEF Alone, TypeOK
<1>4. TypeOK'
  <2>1. pc' \in [Procs -> Points] /\ \A q \in Procs : pc'[q] # "idle" => job'[q] \in Jobs
    BY <1>1, <1>2 DEF TypeOK, Points
  <2> QED
    BY <1>1, <2>1 DEF TypeOK, Points
<1>5. Locked'
  BY <1>3, LockedKept
<1>6. JournalKept(p)'
  BY <1>1 DEF IInv, JournalIsOwned, JournalKept, Home, Opened
<1>7. ReviewsInv(p)'
  <2>1. /\ Home(p)' = Home(p) /\ Scan(p)' = Scan(p) /\ Units(p)' = Units(p)
    BY DEF Home, Scan, Units
  <2>2. /\ DOMAIN results[p] = Units(p) /\ ResultsMirrored(p) /\ OpenIsOwn(p)
    BY <1>1 DEF IInv, ReviewsInv, Working
  <2>3. ResultsMirrored(p)' /\ OpenIsOwn(p)'
    BY <2>1, <2>2 DEF ResultsMirrored, OpenIsOwn
  <2> QED
    BY <1>3, <2>1, <2>2, <2>3 DEF ReviewsInv, Working
<1>8. (\A d \in Dirs : GoodJournal(journal[d]))'
  BY DEF IInv
<1> QED
  BY <1>3, <1>4, <1>5, <1>6, <1>7, <1>8

LEMMA BuildRecordStep ==
  ASSUME IInv, NEW p \in Procs, BuildRecord(p)
  PROVE  IInv'
<1> DEFINE summary == Summarize(journal[Home(p)])
           r == RecordOf(p, summary)
           w == [record |-> r, created |-> FALSE]
<1>1. /\ TypeOK /\ pc[p] = "finish" /\ UNCHANGED <<journal, outputs, runs>>
      /\ written[p] = None
  BY DEF IInv, BuildRecord, WrittenInv
<1>2. CASE /\ Units(p) = {} \/ ~JournalIsFinal(summary)
           /\ Goto(p, "report")
           /\ UNCHANGED <<job, owner, store, results, written>>
  <2>1. /\ pc' = [pc EXCEPT ![p] = "report"]
        /\ UNCHANGED <<records, report, published, abrupt>>
        /\ written' \in [Procs -> Written \cup {None}]
        /\ records' \in [Dirs -> SUBSET Records]
    BY <1>1, <1>2 DEF Goto, outputs, TypeOK
  <2>2. /\ Alone(p) /\ TypeOK' /\ Locked' /\ JournalKept(p)' /\ ReviewsInv(p)'
        /\ (\A d \in Dirs : GoodJournal(journal[d]))'
        /\ pc'[p] = "report"
    BY <1>1, <1>2, <2>1, PointMoved
  <2>3. WrittenInv(p)'
    <3>1. Units(p)' = Units(p) /\ journal'[Home(p)'] = journal[Home(p)] /\ written'[p] = None
      BY <1>1, <1>2 DEF Units, Scan, Home
    <3>2. Units(p)' = {} \/ ~JournalIsFinal(Summarize(journal'[Home(p)']))
      BY <1>2, <3>1
    <3> QED
      BY <2>2, <3>1, <3>2 DEF WrittenInv
  <2>4. RecordsFinal' /\ RecordsAccounted'
    BY <1>1, <2>1, <2>2, OutputsKept
  <2> QED
    BY <2>2, <2>3, <2>4, Together
<1>3. CASE /\ Units(p) # {} /\ JournalIsFinal(summary)
           /\ CoverageAgrees(p, summary)
           /\ written' = [written EXCEPT ![p] = w]
           /\ Goto(p, "record")
           /\ UNCHANGED <<job, owner, store, results>>
  <2>1. r \in Records /\ FinalRecord(r) /\ r.report = Report(p)
    BY <1>1, <1>3, BuiltRecord
  <2> HIDE DEF r
  <2>2. w \in Written /\ w.record = r /\ w.created = FALSE
    BY <2>1 DEF Written
  <2> HIDE DEF w
  <2>3. /\ pc' = [pc EXCEPT ![p] = "record"]
        /\ UNCHANGED <<records, report, published, abrupt>>
        /\ written' \in [Procs -> Written \cup {None}] /\ written'[p] = w
        /\ \A q \in Procs \ {p} : written'[q] = written[q]
        /\ records' \in [Dirs -> SUBSET Records]
    BY <1>1, <1>3, <2>2 DEF Goto, outputs, TypeOK
  <2>4. /\ Alone(p) /\ TypeOK' /\ Locked' /\ JournalKept(p)' /\ ReviewsInv(p)'
        /\ (\A d \in Dirs : GoodJournal(journal[d]))'
        /\ pc'[p] = "record"
    BY <1>1, <1>3, <2>3, PointMoved
  <2>5. WrittenInv(p)'
    <3>1. Report(p)' = Report(p)
      BY <1>3 DEF Report, Scan
    <3>2. w # None
      BY <2>2, NoneAssumption
    <3> QED
      BY <2>1, <2>2, <2>3, <2>4, <3>1, <3>2 DEF WrittenInv
  <2>6. RecordsFinal' /\ RecordsAccounted'
    BY <1>1, <2>3, <2>4, OutputsKept
  <2> QED
    BY <2>4, <2>5, <2>6, Together
<1>4. CASE Exit(p)
  BY <1>1, <1>4, QuietExit
<1> QED
  BY <1>2, <1>3, <1>4 DEF BuildRecord

\* A new record in the directory of p; the records of the others are as before.
LEMMA RecordAdded ==
  ASSUME IInv, NEW p \in Procs, pc[p] = "record", Alone(p),
         NEW r, r = written[p].record,
         records' = [records EXCEPT ![Home(p)] = @ \cup {r}],
         UNCHANGED published, abrupt => abrupt',
         \/ abrupt'
         \/ pc'[p] = "report" /\ job' = job
              /\ written'[p] = [record |-> r, created |-> TRUE]
  PROVE  /\ records' \in [Dirs -> SUBSET Records]
         /\ RecordsFinal' /\ RecordsAccounted'
<1>1. TypeOK /\ Home(p) \in Dirs /\ written[p] # None /\ FinalRecord(r)
  BY JobParts DEF IInv, WrittenInv
<1>2. written[p] \in Written
  BY <1>1 DEF TypeOK
<1>3. r \in Records
  BY <1>2 DEF Written
<1>4. records' \in [Dirs -> SUBSET Records]
  BY <1>1, <1>3 DEF TypeOK
<1>5. \A d \in Dirs : \A x : x \in records'[d] <=> x \in records[d] \/ (d = Home(p) /\ x = r)
  BY <1>1 DEF TypeOK
<1>6. RecordsFinal'
  BY <1>1, <1>5 DEF RecordsFinal, IInv
<1>7. ASSUME NEW d \in Dirs
      PROVE  /\ published'[d] \subseteq records'[d]
             /\ \A x \in records'[d] \ published'[d] :
                  \/ abrupt'
                  \/ \E q \in Procs : /\ pc'[q] = "report" /\ Home(q)' = d
                                      /\ written'[q] = [record |-> x, created |-> TRUE]
  <2>1. published'[d] \subseteq records'[d]
    BY <1>5 DEF IInv, RecordsAccounted
  <2>2. ASSUME NEW x \in records'[d] \ published'[d], ~abrupt'
        PROVE  \E q \in Procs : /\ pc'[q] = "report" /\ Home(q)' = d
                                /\ written'[q] = [record |-> x, created |-> TRUE]
    <3>1. CASE x \in records[d]
      <4>1. PICK q \in Procs : /\ pc[q] = "report" /\ Home(q) = d
                               /\ written[q] = [record |-> x, created |-> TRUE]
        BY <2>2, <3>1 DEF IInv, RecordsAccounted
      <4>2. q # p
        BY <4>1
      <4> QED
        BY <4>1, <4>2 DEF Alone, Home
    <3>2. CASE x \notin records[d]
      <4>1. d = Home(p) /\ x = r
        BY <1>5, <2>2, <3>2
      <4>2. Home(p)' = Home(p)
        BY <2>2 DEF Home
      <4> QED
        BY <2>2, <4>1, <4>2
    <3> QED
      BY <3>1, <3>2
  <2> QED
    BY <2>1, <2>2
<1> QED
  BY <1>4, <1>6, <1>7 DEF RecordsAccounted

LEMMA WriteRecordStep ==
  ASSUME IInv, NEW p \in Procs, WriteRecord(p)
  PROVE  IInv'
<1> DEFINE r == written[p].record
           old == records[Home(p)]
<1>1. /\ TypeOK /\ pc[p] = "record" /\ UNCHANGED <<journal, report, published, runs>>
      /\ written[p] # None /\ ~written[p].created
      /\ r = written[p].record /\ r.report = Report(p) /\ FinalRecord(r)
  BY DEF IInv, WriteRecord, WrittenInv
<1>2. Home(p) \in Dirs /\ owner[Home(p)] = p /\ published[Home(p)] \subseteq old
  BY <1>1, JobParts DEF IInv, Locked, RecordsAccounted
<1>3. written[p] \in Written
  BY <1>1 DEF TypeOK
<1>4. CASE /\ r \in old
           /\ Goto(p, "report")
           /\ UNCHANGED <<records, abrupt, job, owner, store, results, written>>
  <2>1. /\ pc' = [pc EXCEPT ![p] = "report"]
        /\ written' \in [Procs -> Written \cup {None}]
        /\ records' \in [Dirs -> SUBSET Records]
    BY <1>1, <1>4 DEF Goto, TypeOK
  <2>2. /\ Alone(p) /\ TypeOK' /\ Locked' /\ JournalKept(p)' /\ ReviewsInv(p)'
        /\ (\A d \in Dirs : GoodJournal(journal[d]))'
        /\ pc'[p] = "report"
    BY <1>1, <1>4, <2>1, PointMoved
  <2>3. WrittenInv(p)'
    <3>1. Report(p)' = Report(p) /\ Home(p)' = Home(p)
      BY <1>4 DEF Report, Scan, Home
    <3> QED
      BY <1>1, <1>4, <2>2, <3>1 DEF WrittenInv
  <2>4. RecordsFinal' /\ RecordsAccounted'
    BY <1>1, <1>4, <2>2, OutputsKept
  <2> QED
    BY <2>2, <2>3, <2>4, Together
<1>5. CASE /\ r \notin old
           /\ records' = [records EXCEPT ![Home(p)] = @ \cup {r}]
           /\ written' = [written EXCEPT ![p].created = TRUE]
           /\ Goto(p, "report")
           /\ UNCHANGED <<abrupt, job, owner, store, results>>
  <2> DEFINE w == [record |-> r, created |-> TRUE]
  <2>1. w \in Written /\ w.record = r /\ w.created
    BY <1>3 DEF Written
  <2>2. [written[p] EXCEPT !.created = TRUE] = w
    <3> DEFINE v == [written[p] EXCEPT !.created = TRUE]
    <3>1. v \in Written /\ v.record = r /\ v.created = TRUE
      BY <1>3 DEF Written
    <3> HIDE DEF v, r
    <3>2. v = [record |-> v.record, created |-> v.created]
      BY <3>1 DEF Written
    <3> QED
      BY <3>1, <3>2 DEF v
  <2>3. written' = [written EXCEPT ![p] = w]
    BY <1>5, <2>2
  <2> HIDE DEF w
  <2>4. /\ pc' = [pc EXCEPT ![p] = "report"]
        /\ written' \in [Procs -> Written \cup {None}] /\ written'[p] = w
        /\ \A q \in Procs \ {p} : written'[q] = written[q]
        /\ \A d \in Dirs : d # Home(p) => records'[d] = records[d]
        /\ pc'[p] = "report"
    BY <1>1, <1>5, <2>1, <2>3, ZenonT(40) DEF Goto, TypeOK
  <2>5. Alone(p)
    BY <1>1, <1>2, <1>5, <2>4 DEF Alone, TypeOK
  <2>6. records' \in [Dirs -> SUBSET Records] /\ RecordsFinal' /\ RecordsAccounted'
    BY <1>1, <1>5, <2>4, <2>5, RecordAdded DEF w
  <2>7. /\ TypeOK' /\ Locked' /\ JournalKept(p)' /\ ReviewsInv(p)'
        /\ (\A d \in Dirs : GoodJournal(journal[d]))'
    BY <1>1, <1>5, <2>4, <2>6, PointMoved
  <2>8. WrittenInv(p)'
    <3>1. Report(p)' = Report(p) /\ Home(p)' = Home(p) /\ w # None
      BY <1>5, <2>1, NoneAssumption DEF Report, Scan, Home
    <3>2. r \in records'[Home(p)] /\ r \notin published'[Home(p)]
      BY <1>1, <1>2, <1>5 DEF TypeOK
    <3> QED
      BY <1>1, <2>1, <2>4, <3>1, <3>2 DEF WrittenInv
  <2> QED
    BY <2>5, <2>6, <2>7, <2>8, Together
<1>6. CASE /\ r \notin old
           /\ \/ UNCHANGED <<records, abrupt>>
              \/ records' = [records EXCEPT ![Home(p)] = @ \cup {r}] /\ abrupt' = TRUE
           /\ Exit(p)
  <2>1. CASE UNCHANGED <<records, abrupt>>
    <3>1. UNCHANGED <<journal, outputs>>
      BY <1>1, <2>1 DEF outputs
    <3> QED
      BY <1>1, <1>6, <3>1, QuietExit
  <2>2. CASE records' = [records EXCEPT ![Home(p)] = @ \cup {r}] /\ abrupt' = TRUE
    <3>1. \A d \in Dirs : owner[d] # p => records'[d] = records[d] /\ published'[d] = published[d]
      BY <1>1, <1>2, <2>2 DEF TypeOK
    <3>2. Alone(p)
      BY <1>1, <1>6, <3>1 DEF Exit, Goto, TypeOK, Alone
    <3>3. records' \in [Dirs -> SUBSET Records] /\ RecordsFinal' /\ RecordsAccounted'
      BY <1>1, <2>2, <3>2, RecordAdded
    <3> QED
      BY <1>1, <1>6, <2>2, <3>1, <3>3, ExitKeeps DEF TypeOK
  <2> QED
    BY <1>6, <2>1, <2>2
<1> QED
  BY <1>4, <1>5, <1>6 DEF WriteRecord

\* None is not what a process has written.
LEMMA WrittenRecordIsSome ==
  ASSUME NEW r \in Records
  PROVE  [record |-> r, created |-> TRUE] # None
<1>1. [record |-> r, created |-> TRUE] \in Written
  BY DEF Written
<1> QED
  BY <1>1, NoneAssumption

LEMMA PublishReportStep ==
  ASSUME IInv, NEW p \in Procs, PublishReport(p)
  PROVE  IInv'
<1> DEFINE more == IF written[p] = None THEN published[Home(p)]
                     ELSE published[Home(p)] \cup {written[p].record}
<1>1. /\ TypeOK /\ pc[p] = "report" /\ Exit(p) /\ UNCHANGED <<journal, records, abrupt, runs>>
      /\ report' = [report EXCEPT ![Home(p)] = Report(p)]
      /\ published' = [published EXCEPT ![Home(p)] = more]
  BY DEF IInv, PublishReport
<1>2. /\ Home(p) \in Dirs /\ owner[Home(p)] = p /\ Scan(p) \in Scans /\ Units(p) = UnitsOf[Scan(p)]
      /\ DOMAIN results[p] = Units(p) /\ results[p] \in Results
  BY <1>1, JobParts DEF IInv, Locked, ReviewsInv, Working, TypeOK
<1>3. Report(p) \in Reports
  BY <1>2 DEF Report, Reports
<1>4. /\ published[Home(p)] \subseteq more /\ more \subseteq records[Home(p)]
      /\ written[p] # None => written[p].record \in more
  BY <1>1, <1>2 DEF IInv, WrittenInv, RecordsAccounted
<1> HIDE DEF more
<1>5. /\ \A d \in Dirs : published'[d] = IF d = Home(p) THEN more ELSE published[d]
      /\ published' \in [Dirs -> SUBSET Records]
  BY <1>1, <1>2, <1>4 DEF TypeOK
<1>6. report' \in [Dirs -> Reports \cup {None}]
  BY <1>1, <1>3 DEF TypeOK
<1>7. RecordsFinal'
  BY <1>1 DEF IInv, RecordsFinal
<1>8. Alone(p)
  BY <1>1, <1>2, <1>5 DEF Exit, Goto, TypeOK, Alone
<1>9. RecordsAccounted'
  <2> SUFFICES ASSUME NEW d \in Dirs
               PROVE  /\ published'[d] \subseteq records[d]
                      /\ \A r \in records[d] \ published'[d] :
                           \/ abrupt
                           \/ \E q \in Procs : /\ pc'[q] = "report" /\ Home(q)' = d
                                               /\ written'[q] = [record |-> r, created |-> TRUE]
    BY <1>1 DEF RecordsAccounted
  <2>1. published'[d] \subseteq records[d] /\ published[d] \subseteq published'[d]
    BY <1>4, <1>5 DEF IInv, RecordsAccounted
  <2>2. ASSUME NEW r \in records[d] \ published'[d], ~abrupt
        PROVE  \E q \in Procs : /\ pc'[q] = "report" /\ Home(q)' = d
                                /\ written'[q] = [record |-> r, created |-> TRUE]
    <3>1. PICK q \in Procs : /\ pc[q] = "report" /\ Home(q) = d
                             /\ written[q] = [record |-> r, created |-> TRUE]
      BY <2>1, <2>2 DEF IInv, RecordsAccounted
    <3>2. q # p
      <4> SUFFICES ASSUME q = p PROVE FALSE
        OBVIOUS
      <4>1. r \in Records
        BY <1>1, <2>2 DEF TypeOK
      <4>2. written[p] # None
        BY <3>1, <4>1, WrittenRecordIsSome
      <4> QED
        BY <1>4, <1>5, <2>2, <3>1, <4>2
    <3> QED
      BY <1>8, <3>1, <3>2 DEF Alone, Home
  <2> QED
    BY <2>1, <2>2
<1> QED
  BY <1>1, <1>2, <1>5, <1>6, <1>7, <1>9, ExitKeeps DEF TypeOK

LEMMA ReportFailsStep ==
  ASSUME IInv, NEW p \in Procs, ReportFails(p)
  PROVE  IInv'
<1> DEFINE r == written[p].record
           mine == written[p] # None /\ written[p].created
<1>1. /\ TypeOK /\ pc[p] = "report" /\ Exit(p) /\ UNCHANGED <<journal, report, published, runs>>
  BY DEF IInv, ReportFails
<1>2. Home(p) \in Dirs /\ owner[Home(p)] = p
  BY <1>1, JobParts DEF IInv, Locked
<1>3. mine => r \notin published[Home(p)]
  BY <1>1 DEF IInv, WrittenInv
<1>4. \/ mine /\ records' = [records EXCEPT ![Home(p)] = @ \ {r}] /\ abrupt' = abrupt
      \/ mine /\ records' = records /\ abrupt' = TRUE
      \/ ~mine /\ records' = records /\ abrupt' = abrupt
  BY DEF ReportFails
<1>5. /\ records' \in [Dirs -> SUBSET Records] /\ abrupt' \in BOOLEAN
      /\ \A d \in Dirs : owner[d] # p => records'[d] = records[d]
      /\ \A d \in Dirs : \A x : x \in records'[d] =>
           x \in records[d] /\ (mine /\ d = Home(p) /\ ~abrupt' => x # r)
      /\ \A d \in Dirs : \A x \in records[d] : x \in records'[d] \/ (mine /\ d = Home(p) /\ x = r)
      /\ abrupt => abrupt'
  <2> HIDE DEF r, mine
  <2>1. /\ records \in [Dirs -> SUBSET Records] /\ abrupt \in BOOLEAN
    BY <1>1 DEF TypeOK
  <2>2. CASE mine /\ records' = [records EXCEPT ![Home(p)] = @ \ {r}] /\ abrupt' = abrupt
    BY <1>2, <2>1, <2>2
  <2>3. CASE mine /\ records' = records /\ abrupt' = TRUE
    BY <2>1, <2>3
  <2>4. CASE ~mine /\ records' = records /\ abrupt' = abrupt
    BY <2>1, <2>4
  <2> QED
    BY <1>4, <2>2, <2>3, <2>4
<1>6. RecordsFinal'
  BY <1>5 DEF IInv, RecordsFinal
<1>7. Alone(p)
  BY <1>1, <1>5 DEF Exit, Goto, TypeOK, Alone
<1>8. RecordsAccounted'
  <2> SUFFICES ASSUME NEW d \in Dirs
               PROVE  /\ published[d] \subseteq records'[d]
                      /\ \A x \in records'[d] \ published[d] :
                           \/ abrupt'
                           \/ \E q \in Procs : /\ pc'[q] = "report" /\ Home(q)' = d
                                               /\ written'[q] = [record |-> x, created |-> TRUE]
    BY <1>1 DEF RecordsAccounted
  <2>1. published[d] \subseteq records'[d]
    BY <1>3, <1>5 DEF IInv, RecordsAccounted
  <2>2. ASSUME NEW x \in records'[d] \ published[d], ~abrupt'
        PROVE  \E q \in Procs : /\ pc'[q] = "report" /\ Home(q)' = d
                                /\ written'[q] = [record |-> x, created |-> TRUE]
    <3>1. PICK q \in Procs : /\ pc[q] = "report" /\ Home(q) = d
                             /\ written[q] = [record |-> x, created |-> TRUE]
      BY <1>5, <2>2 DEF IInv, RecordsAccounted
    <3>2. q # p
      <4> SUFFICES ASSUME q = p PROVE FALSE
        OBVIOUS
      <4>1. x \in Records
        BY <1>5, <2>2
      <4>2. written[p] # None
        BY <3>1, <4>1, WrittenRecordIsSome
      <4>3. mine /\ r = x
        BY <3>1, <4>2
      <4> QED
        BY <1>5, <2>2, <3>1, <4>3
    <3> QED
      BY <1>7, <3>1, <3>2 DEF Alone, Home
  <2> QED
    BY <2>1, <2>2
<1> QED
  BY <1>1, <1>5, <1>6, <1>8, ExitKeeps DEF TypeOK

LEMMA StopStep ==
  ASSUME IInv, NEW p \in Procs, Stop(p)
  PROVE  IInv'
<1>1. /\ TypeOK /\ Exit(p) /\ UNCHANGED <<journal, records, report, published, runs>>
      /\ abrupt' = (abrupt \/ pc[p] = "report")
  BY DEF IInv, Stop
<1>2. CASE pc[p] # "report"
  <2>1. UNCHANGED outputs
    BY <1>1, <1>2 DEF outputs, TypeOK
  <2> QED
    BY <1>1, <1>2, <2>1, QuietExit
<1>3. CASE pc[p] = "report"
  <2>1. abrupt' = TRUE
    BY <1>1, <1>3
  <2>2. RecordsFinal' /\ RecordsAccounted'
    BY <1>1, <2>1 DEF IInv, RecordsFinal, RecordsAccounted
  <2> QED
    BY <1>1, <2>1, <2>2, ExitKeeps DEF TypeOK
<1> QED
  BY <1>2, <1>3

-----------------------------------------------------------------------------
LEMMA InitIInv ==
  ASSUME Init
  PROVE  IInv
<1>1. TypeOK
  <2>1. << >> \in Seq(Entries) /\ << >> \in Results
    BY EmptyResults
  <2>2. /\ store \in [Procs -> Seq(Entries)] /\ results \in [Procs -> Results]
        /\ journal \in [Dirs -> Seq(Entries)]
    BY <2>1 DEF Init
  <2>3. /\ pc \in [Procs -> Points] /\ job \in [Procs -> Jobs \cup {None}]
        /\ \A p \in Procs : pc[p] # "idle" => job[p] \in Jobs
        /\ owner \in [Dirs -> Procs \cup {None}]
        /\ written \in [Procs -> Written \cup {None}]
    BY DEF Init, Points
  <2>4. /\ records \in [Dirs -> SUBSET Records] /\ published \in [Dirs -> SUBSET Records]
        /\ report \in [Dirs -> Reports \cup {None}]
        /\ abrupt \in BOOLEAN
    BY DEF Init
  <2>5. runs \in 0..MaxRuns
    BY PipelineAssumption DEF Init
  <2> QED
    BY <2>2, <2>3, <2>4, <2>5 DEF TypeOK, Points
<1>2. Locked /\ JournalIsOwned
  BY DEF Init, Locked, JournalIsOwned
<1>3. GoodJournal(<< >>)
  <2>1. << >> \in Seq(GoodEntries)
    OBVIOUS
  <2>2. CachedIsLast(<< >>)
    BY CachedEmpty DEF CachedIsLast
  <2>3. ProofsHaveCases(<< >>)
    BY EventsOfEmpty DEF ProofsHaveCases
  <2> QED
    BY <2>1, <2>2, <2>3 DEF GoodJournal
<1>4. \A d \in Dirs : GoodJournal(journal[d])
  BY <1>3 DEF Init
<1>5. \A p \in Procs : ReviewsInv(p) /\ WrittenInv(p)
  BY DEF Init, ReviewsInv, WrittenInv, Working
<1>6. RecordsFinal /\ RecordsAccounted
  BY DEF Init, RecordsFinal, RecordsAccounted
<1> QED
  BY <1>1, <1>2, <1>4, <1>5, <1>6 DEF IInv

LEMMA StutterIInv ==
  ASSUME IInv, UNCHANGED vars
  PROVE  IInv'
<1> USE DEF vars, locals, outputs
<1>1. TypeOK' /\ Locked' /\ JournalIsOwned'
  BY DEF IInv, TypeOK, Locked, JournalIsOwned, Home
<1>2. (\A d \in Dirs : GoodJournal(journal[d]))'
  BY DEF IInv
<1>3. (\A p \in Procs : ReviewsInv(p))'
  <2> SUFFICES ASSUME NEW p \in Procs
               PROVE  ReviewsInv(p)'
    OBVIOUS
  <2>1. Home(p)' = Home(p) /\ Scan(p)' = Scan(p) /\ Units(p)' = Units(p)
        /\ Candidates(p)' = Candidates(p)
    BY DEF Candidates, Home, Scan, Units
  <2>2. ReviewsInv(p)
    BY DEF IInv
  <2> QED
    BY <2>1, <2>2 DEF ReviewsInv, ResultsMirrored, OpenIsOwn, ProofsMirrored
<1>4. (\A p \in Procs : WrittenInv(p))'
  BY DEF IInv, WrittenInv, Home, Scan, Units, Report
<1>5. RecordsFinal' /\ RecordsAccounted'
  BY DEF IInv, RecordsFinal, RecordsAccounted, Home
<1> QED
  BY <1>1, <1>2, <1>3, <1>4, <1>5 DEF IInv

LEMMA NextIInv ==
  ASSUME IInv, [Next]_vars
  PROVE  IInv'
<1>1. CASE Next
  <2>1. PICK p \in Procs : Step(p)
    BY <1>1 DEF Next
  <2>2. CASE Start(p) \/ LockReports(p) \/ LockRepository(p) \/ OpenJournal(p) \/ Leave(p)
    BY <2>2, StartStep, LockReportsStep, LockRepositoryStep, OpenJournalStep, LeaveStep
  <2>3. CASE \E u \in AllUnits : ReviewUnit(p, u)
    BY <2>3, ReviewUnitStep
  <2>4. CASE OpenProofs(p) \/ ProveCases(p)
    BY <2>4, OpenProofsStep, ProveCasesStep
  <2>5. CASE BuildRecord(p) \/ WriteRecord(p)
    BY <2>5, BuildRecordStep, WriteRecordStep
  <2>6. CASE PublishReport(p) \/ ReportFails(p) \/ Stop(p)
    BY <2>6, PublishReportStep, ReportFailsStep, StopStep
  <2> QED
    BY <2>1, <2>2, <2>3, <2>4, <2>5, <2>6 DEF Step
<1>2. CASE UNCHANGED vars
  BY <1>2, StutterIInv
<1> QED
  BY <1>1, <1>2

THEOREM IInvHolds == Spec => []IInv
<1>1. Init => IInv
  BY InitIInv
<1>2. IInv /\ [Next]_vars => IInv'
  BY NextIInv
<1> QED
  BY <1>1, <1>2, PTL DEF Spec

-----------------------------------------------------------------------------
(* The theorems.                                                           *)

\* Every variable has its type.
THEOREM TypesHold == Spec => []TypeOK
<1>1. IInv => TypeOK
  BY DEF IInv
<1> QED
  BY <1>1, IInvHolds, PTL

\* What a process remembers of its journal is what the file holds.
THEOREM JournalsAreOwned == Spec => []JournalIsOwned
<1>1. IInv => JournalIsOwned
  BY DEF IInv
<1> QED
  BY <1>1, IInvHolds, PTL

\* A record is only there for a scan without open units, and ends in as many
\* final reviews as its report has.
THEOREM RecordsAreFinal == Spec => []RecordIsFinal
<1>1. IInv => RecordIsFinal
  BY DEF IInv, RecordsFinal, FinalRecord, RecordIsFinal
<1> QED
  BY <1>1, IInvHolds, PTL

\* A record outlives every later run of its scan, and an orphan comes of a
\* process that stopped or of a second failing operation.
THEOREM RecordsHaveReports == Spec => []RecordsFollowReports
<1>1. IInv => RecordsFollowReports
  BY DEF IInv, RecordsAccounted, RecordsFollowReports
<1> QED
  BY <1>1, IInvHolds, PTL

-----------------------------------------------------------------------------
(* Why a record is refused.                                                *)

\* The final reviews among the last entries of a scan are one for each of its
\* units, when every unit has a result.
LEMMA ReviewsCounted ==
  ASSUME IInv, NEW p \in Procs, pc[p] \in Working, DOMAIN results[p] = Units(p),
         \A e \in LastOf(EventsOf(journal[Home(p)], Scan(p))) : e.tier # "retry"
  PROVE  Cardinality(Reviewed(LastOf(EventsOf(journal[Home(p)], Scan(p)))))
           = Cardinality(Units(p))
<1> DEFINE es == journal[Home(p)]
           s == Scan(p)
           ends == LastOf(EventsOf(es, s))
           R == Reviewed(ends)
           f == [e \in R |-> e.unit]
<1>1. Home(p) \in Dirs /\ s \in Scans /\ Units(p) = UnitsOf[s]
  BY JobParts DEF IInv, Working
<1>2. es \in Seq(GoodEntries) /\ EventsOf(es, s) \in Seq(GoodEntries)
  BY <1>1, EventsOfTyped DEF IInv, GoodJournal, EventsHold
<1>3. IsFiniteSet(R)
  <2>1. IsFiniteSet(ends)
    BY <1>2, LastOfFinite
  <2> HIDE DEF ends
  <2> QED
    BY <2>1, FS_Subset DEF Reviewed
<1>4. \A e \in R : e \in ends /\ e.stage = "method"
  BY DEF Reviewed
<1>5. f \in [R -> Units(p)]
  <2> SUFFICES ASSUME NEW e \in R
               PROVE  e.unit \in UnitsOf[s]
    BY <1>1
  <2> QED
    BY <1>2, <1>4, EndParts, EntryParts
<1>6. \A e1, e2 \in R : f[e1] = f[e2] => e1 = e2
  BY <1>2, <1>4, LastOfUnique
<1>7. \A u \in Units(p) : \E e \in R : f[e] = u
  <2> SUFFICES ASSUME NEW u \in Units(p)
               PROVE  \E e \in R : e.unit = u
    OBVIOUS
  <2>1. PICK e \in ends : e.unit = u /\ e.stage = "method"
    BY ResultIsAnEnd
  <2>2. e \in R
    BY <2>1 DEF Reviewed
  <2> QED
    BY <2>1, <2>2
<1>8. f \in Bijection(R, Units(p))
  <2> HIDE DEF f, R
  <2> QED
    BY <1>5, <1>6, <1>7 DEF Bijection, Injection, IsInjective, Surjection
<1>9. ExistsBijection(R, Units(p))
  BY <1>8 DEF ExistsBijection
<1> HIDE DEF R
<1>10. Cardinality(Units(p)) = Cardinality(R)
  BY <1>3, <1>9, FS_Bijection
<1> QED
  BY <1>10 DEF R

\* The proofs of a scan are those of its cases, unless an earlier run of it
\* proved others.
LEMMA ProofsCounted ==
  ASSUME IInv, NEW p \in Procs, pc[p] = "finish",
         \A e \in Range(journal[Home(p)]) :
           e.stage = "proof" /\ e.scan = Scan(p) => e.unit \in {None, Candidates(p)}
  PROVE  Cardinality({e \in LastOf(EventsOf(journal[Home(p)], Scan(p))) : e.stage = "proof"})
           = ProofsExpected(EventsOf(journal[Home(p)], Scan(p)))
<1> DEFINE es == journal[Home(p)]
           s == Scan(p)
           events == EventsOf(es, s)
           ends == LastOf(events)
           proofs == {e \in ends : e.stage = "proof"}
<1>1. pc[p] # "idle" /\ pc[p] \in Working /\ TypeOK
  BY DEF Working, IInv
<1>2. /\ Home(p) \in Dirs /\ s \in Scans /\ Units(p) = UnitsOf[s] /\ Units(p) \subseteq AllUnits
      /\ DOMAIN results[p] = Units(p) /\ ResultsMirrored(p) /\ ProofsMirrored(p)
  BY <1>1, JobParts DEF IInv, ReviewsInv, Working
<1>3. es \in Seq(GoodEntries) /\ events \in Seq(GoodEntries)
      /\ CachedIsLast(es) /\ ProofsHaveCases(es)
  BY <1>2, EventsOfTyped DEF IInv, GoodJournal, EventsHold
<1>4. CASE \E i \in DOMAIN events : events[i].stage = "proof"
  <2> DEFINE c == Cached(es, s, "proof", Candidates(p))
  <2>1. PICK u \in UnitsOf[s] : IsSlop(es, s, u)
    BY <1>2, <1>3, <1>4 DEF ProofsHaveCases
  <2>2. u \in Candidates(p)
    BY <1>2, <2>1 DEF ResultsMirrored, IsSlop, Candidates
  <2>3. c # None /\ c.scan = s
    BY <1>2, <2>2 DEF ProofsMirrored
  <2>4. Candidates(p) \in SUBSET AllUnits
    BY <1>1, <1>2, CandidatesAreSlop
  <2>5. c \in ends
    BY <1>2, <1>3, <2>3, <2>4 DEF CachedIsLast, Keys
  <2>6. c.stage = "proof" /\ c.unit = Candidates(p)
    BY <1>3, <2>3, CachedTyped
  <2> HIDE DEF c
  <2>7. \A e \in proofs : e = c
    <3> SUFFICES ASSUME NEW e \in ends, e.stage = "proof"
                 PROVE  e = c
      OBVIOUS
    <3>1. e.unit = Candidates(p)
      BY <1>3, EndParts
    <3> QED
      BY <1>3, <2>5, <2>6, <3>1, LastOfUnique
  <2>8. proofs = {c}
    BY <2>5, <2>6, <2>7
  <2>9. Cardinality(proofs) = 1
    BY <2>8, FS_Singleton
  <2> QED
    BY <1>4, <2>9 DEF ProofsExpected
<1>5. CASE ~\E i \in DOMAIN events : events[i].stage = "proof"
  <2>1. proofs = {}
    <3> SUFFICES ASSUME NEW e \in ends, e.stage = "proof"
                 PROVE  FALSE
      OBVIOUS
    <3>1. e \in Range(events)
      BY <1>3, EndParts
    <3> QED
      BY <1>5, <3>1 DEF Range
  <2>2. Cardinality(proofs) = 0
    BY <2>1, FS_EmptySet
  <2> QED
    BY <1>5, <2>2 DEF ProofsExpected
<1> QED
  BY <1>4, <1>5

\* A scan without open units is refused its record only when another scan
\* wrote the last entry of the journal, or an earlier run of it proved other
\* cases.
THEOREM RefusalsHaveACause == Spec => []RefusalHasACause
<1>1. IInv => RefusalHasACause
  <2> SUFFICES ASSUME IInv, NEW p \in Procs, pc[p] = "finish", Units(p) # {},
                      JournalIsFinal(Summarize(journal[Home(p)])),
                      Summarize(journal[Home(p)]).scan = Scan(p),
                      \A e \in Range(journal[Home(p)]) :
                        e.stage = "proof" /\ e.scan = Scan(p) => e.unit \in {None, Candidates(p)}
               PROVE  CoverageAgrees(p, Summarize(journal[Home(p)]))
    BY DEF RefusalHasACause
  <2> DEFINE es == journal[Home(p)]
             ends == LastOf(EventsOf(es, Scan(p)))
  <2>1. pc[p] \in Working /\ DOMAIN results[p] = Units(p)
    BY DEF IInv, ReviewsInv, Working
  <2>2. Last(es).scan = Scan(p)
    BY DEF Summarize
  <2>3. Home(p) \in Dirs /\ es \in Seq(GoodEntries)
    BY JobParts DEF IInv, GoodJournal
  <2>4. \A e \in ends : e.tier # "retry"
    BY <2>2, <2>3, FinalMeansNoRetry
  <2>5. Cardinality(Reviewed(ends)) = Cardinality(Units(p))
    BY <2>1, <2>4, ReviewsCounted
  <2>6. Cardinality({e \in ends : e.stage = "proof"}) = ProofsExpected(EventsOf(es, Scan(p)))
    BY ProofsCounted
  <2>7. Summarize(es).retryable = 0
    BY DEF JournalIsFinal
  <2> QED
    BY <2>1, <2>2, <2>5, <2>6, <2>7 DEF CoverageAgrees, Summarize, Units
<1> QED
  BY <1>1, IInvHolds, PTL

\* A report without open units, of the scan that wrote the last entry of the
\* journal, is published beside its record.
LEMMA PublishedHasRecord ==
  ASSUME IInv, NEW p \in Procs, PublishReport(p), NEW d \in Dirs,
         report'[d] # report[d], report'[d].results # << >>, Resolved(report'[d].results),
         Last(journal[d]).scan = report'[d].scan
  PROVE  \E r \in records[d] : r.report = report'[d]
<1> DEFINE es == journal[Home(p)]
           s == Scan(p)
<1>1. TypeOK /\ pc[p] = "report" /\ pc[p] \in Working
  BY DEF IInv, PublishReport, Working
<1>2. d = Home(p) /\ report'[d] = Report(p)
  BY <1>1 DEF PublishReport, TypeOK
<1>3. /\ WrittenInv(p) /\ DOMAIN results[p] = Units(p) /\ ResultsMirrored(p)
      /\ results[p] \in Results /\ s \in Scans /\ Units(p) = UnitsOf[s]
  BY <1>1, JobParts DEF IInv, ReviewsInv, Working, TypeOK
<1>4. /\ results[p] # << >> /\ Resolved(results[p]) /\ Last(es).scan = s
  BY <1>2 DEF Report
<1>5. es \in Seq(GoodEntries)
  BY <1>2 DEF IInv, GoodJournal
<1>6. written[p] # None
  <2> SUFFICES ASSUME written[p] = None PROVE FALSE
    OBVIOUS
  <2>1. CASE Units(p) = {}
    <3>1. DOMAIN results[p] = {} /\ results[p] = [x \in DOMAIN results[p] |-> results[p][x]]
      BY <1>3, <2>1, ResultParts
    <3>2. results[p] = << >>
      BY <3>1
    <3> QED
      BY <1>4, <3>2
  <2>2. CASE ~JournalIsFinal(Summarize(es))
    <3>1. PICK e \in LastOf(EventsOf(es, s)) : e.tier = "retry"
      BY <1>4, <1>5, <2>2, FinalMeansNoRetry
    <3>2. e \in GoodEntries /\ e.scan = s /\ e.unit # None
      BY <1>5, EndParts
    <3>3. e.stage = "method"
      BY <3>1, <3>2, EntryParts, NoneAssumption DEF Grades
    <3>4. e.unit \in DOMAIN results[p]
      BY <1>3, <3>2, <3>3, EntryParts
    <3>5. PICK x \in LastOf(EventsOf(es, s)) : x.unit = e.unit /\ x.tier = results[p][e.unit]
      BY <1>1, <3>4, ResultIsAnEnd
    <3>6. EventsOf(es, s) \in Seq(GoodEntries)
      BY <1>5, EventsOfTyped DEF EventsHold
    <3>7. x = e
      BY <3>5, <3>6, LastOfUnique
    <3> QED
      BY <1>4, <3>1, <3>4, <3>5, <3>7 DEF Resolved
  <2> QED
    BY <1>1, <1>3, <2>1, <2>2 DEF WrittenInv
<1> QED
  BY <1>1, <1>2, <1>3, <1>6 DEF WrittenInv

\* The report of a final scan finds its record in place.
THEOREM FinalReportsHaveRecords == Spec => FinalReportHasRecord
<1> DEFINE A == \A d \in Dirs :
                  /\ report'[d] # report[d]
                  /\ report'[d].results # << >> /\ Resolved(report'[d].results)
                  /\ Last(journal[d]).scan = report'[d].scan
                  => \E r \in records[d] : r.report = report'[d]
<1>1. IInv /\ [Next]_vars => [A]_vars
  <2> SUFFICES ASSUME IInv, NEW p \in Procs, Step(p)
               PROVE  A
    BY DEF Next
  <2>1. CASE PublishReport(p)
    BY <2>1, PublishedHasRecord
  <2>2. CASE ~PublishReport(p)
    <3>1. UNCHANGED report
      BY <2>2 DEF Step, Start, LockReports, LockRepository, OpenJournal, Leave, ReviewUnit,
             OpenProofs, ProveCases, BuildRecord, WriteRecord, ReportFails, Stop, outputs
    <3> QED
      BY <3>1
  <2> QED
    BY <2>1, <2>2
<1> QED
  BY <1>1, IInvHolds, PTL DEF Spec, FinalReportHasRecord
=============================================================================
