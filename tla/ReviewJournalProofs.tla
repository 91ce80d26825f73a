------------------------- MODULE ReviewJournalProofs -------------------------
(***************************************************************************)
(* Safety of the review journal for every set of scans, stages and units,  *)
(* files of any length and any number of crashes and failing appends.      *)
(*                                                                         *)
(* The first invariant has the store without its spend and its completed   *)
(* map, which the last part adds.                                          *)
(***************************************************************************)
EXTENDS ReviewJournal, SequenceTheorems, WellFoundedInduction, TLAPS

FileTyped ==
  /\ lines \in Seq(JournalEntry \cup {Garbled})
  /\ torn \in BOOLEAN
  /\ faults \in Nat

StoreTyped ==
  store # None =>
    /\ store = [scan |-> store.scan, stage |-> store.stage,
                expected |-> store.expected, completed |-> store.completed,
                spent |-> store.spent]
    /\ store.scan \in Scans /\ store.stage \in Stages /\ store.expected \in Nat
    /\ DOMAIN store.completed = Units

\* A process only appends behind a newline, unless an append has failed.
CleanTail == store # None /\ faults = 0 => ~torn

\* A process has made sure of its manifest.
Introduced == store # None => HasManifest(store.scan, store.stage)

JInv ==
  /\ FileTyped
  /\ StoreTyped
  /\ CleanTail
  /\ CrashSafe
  /\ Introduced
  /\ ManifestFirst

(* An entry that a process writes is well formed and no manifest. *)
LEMMA EntryTyped ==
  ASSUME StoreTyped, store # None,
         NEW k \in Kinds, NEW u \in Units \cup {None}, NEW c \in Nat, NEW r \in BOOLEAN
  PROVE  /\ Entry(k, u, c, r) \in JournalEntry
         /\ Entry(k, u, c, r).kind = k
  BY DEF Entry, JournalEntry, StoreTyped

(* A manifest is well formed. *)
LEMMA ManifestTyped ==
  ASSUME NEW s \in Scans, NEW st \in Stages, NEW n \in Nat
  PROVE  Manifest(s, st, n) \in JournalEntry
  BY DEF Manifest, JournalEntry, Kinds

(* A written line is the entry, or garbled behind a torn tail. *)
LEMMA WrittenLines ==
  ASSUME FileTyped, NEW e \in JournalEntry, AppendEntry(e)
  PROVE  /\ lines' \in Seq(JournalEntry \cup {Garbled})
         /\ Len(lines') = Len(lines) + 1
         /\ \A i \in 1..Len(lines) : lines'[i] = lines[i]
         /\ lines'[Len(lines) + 1] = IF torn THEN Garbled ELSE e
         /\ torn' = FALSE
<1> DEFINE x == IF torn THEN Garbled ELSE e
<1>1. x \in JournalEntry \cup {Garbled} /\ lines' = Append(lines, x)
  BY DEF AppendEntry, Written
<1> HIDE DEF x
<1>2. /\ Append(lines, x) \in Seq(JournalEntry \cup {Garbled})
      /\ Len(Append(lines, x)) = Len(lines) + 1
      /\ \A i \in 1..Len(lines) : Append(lines, x)[i] = lines[i]
      /\ Append(lines, x)[Len(lines) + 1] = x
  BY <1>1, AppendProperties DEF FileTyped
<1> QED
  BY <1>1, <1>2 DEF x, AppendEntry

(***************************************************************************)
(* An appended line that is not a manifest, whose scan and stage have one, *)
(* keeps the manifests in front.                                           *)
(***************************************************************************)
LEMMA AppendKeepsManifests ==
  ASSUME FileTyped, ManifestFirst, NEW e \in JournalEntry, AppendEntry(e),
         e.kind # "manifest", HasManifest(e.scan, e.stage)
  PROVE  ManifestFirst'
<1> DEFINE n == Len(lines)
           IsFor(l, s, st) == l.kind = "manifest" /\ l.scan = s /\ l.stage = st
<1>1. n \in Nat /\ DOMAIN lines = 1..n
  BY DEF FileTyped
<1>2. /\ \A i \in 1..n : lines'[i] = lines[i]
      /\ lines'[n + 1] = IF torn THEN Garbled ELSE e
      /\ Len(lines') = n + 1
      /\ DOMAIN lines' = 1..(n + 1)
  <2>1. /\ lines' \in Seq(JournalEntry \cup {Garbled})
        /\ Len(lines') = n + 1
        /\ \A i \in 1..n : lines'[i] = lines[i]
        /\ lines'[n + 1] = IF torn THEN Garbled ELSE e
    BY WrittenLines
  <2> QED
    BY <2>1
<1>3. \A s, st : ~IsFor(lines'[n + 1], s, st)
  BY <1>2 DEF Garbled
<1>4. \A s, st : \A k \in 1..n : IsFor(lines'[k], s, st) <=> IsFor(lines[k], s, st)
  BY <1>2
<1>5. \E m \in 1..n : lines[m].kind # "garbled" /\ lines[m].scan = e.scan
                     /\ lines[m].stage = e.stage
  BY <1>1 DEF HasManifest
<1>6. \A j \in 1..n : lines[j].kind # "garbled" =>
         \E i \in 1..j : \A k \in 1..n :
            IsFor(lines[k], lines[j].scan, lines[j].stage) <=> k = i
  BY <1>1 DEF ManifestFirst
<1>7. SUFFICES ASSUME NEW j \in 1..(n + 1), lines'[j].kind # "garbled"
               PROVE  \E i \in 1..j : \A k \in 1..(n + 1) :
                         IsFor(lines'[k], lines'[j].scan, lines'[j].stage) <=> k = i
  <2>2. DOMAIN lines' = 1..(n + 1)
    BY <1>2
  <2> HIDE DEF n
  <2> QED
    BY <1>7, <2>2, ZenonT(40) DEF ManifestFirst
<1> HIDE DEF n, IsFor
<1>8. PICK j0 \in 1..n : /\ j0 <= j /\ lines[j0].kind # "garbled"
                         /\ lines'[j].scan = lines[j0].scan
                         /\ lines'[j].stage = lines[j0].stage
  <2>1. CASE j = n + 1
    <3>1. lines'[j] = e
      BY <1>2, <1>7, <2>1 DEF Garbled
    <3> QED
      BY <1>1, <1>5, <2>1, <3>1
  <2>2. CASE j # n + 1
    BY <1>1, <1>2, <1>7, <2>2
  <2> QED
    BY <2>1, <2>2
<1>9. PICK i \in 1..j0 : \A k \in 1..n :
         IsFor(lines[k], lines[j0].scan, lines[j0].stage) <=> k = i
  BY <1>6, <1>8
<1>10. i \in 1..j /\ i \in 1..n
  BY <1>1, <1>8
<1>11. ASSUME NEW k \in 1..(n + 1)
       PROVE  IsFor(lines'[k], lines'[j].scan, lines'[j].stage) <=> k = i
  <2>1. CASE k = n + 1
    BY <1>1, <1>3, <1>10, <2>1
  <2>2. CASE k \in 1..n
    BY <1>4, <1>8, <1>9, <2>2
  <2> QED
    BY <1>1, <2>1, <2>2
<1> QED
  BY <1>10, <1>11

GrowsBy(e) == lines' = Append(lines, e)

(***************************************************************************)
(* The first manifest of a scan and stage: no line of theirs is before it. *)
(***************************************************************************)
LEMMA ManifestAppended ==
  ASSUME FileTyped, ManifestFirst,
         NEW s \in Scans, NEW st \in Stages, NEW x \in Nat, ~HasManifest(s, st),
         GrowsBy(Manifest(s, st, x))
  PROVE  /\ ManifestFirst' /\ HasManifest(s, st)'
         /\ lines' \in Seq(JournalEntry \cup {Garbled})
         /\ Readable(lines) => Readable(lines')
<1> DEFINE n == Len(lines)
           e == Manifest(s, st, x)
           IsFor(l, a, b) == l.kind = "manifest" /\ l.scan = a /\ l.stage = b
<1>1. n \in Nat /\ DOMAIN lines = 1..n
  BY DEF FileTyped
<1>2. /\ \A i \in 1..n : lines'[i] = lines[i]
      /\ lines'[n + 1] = e
      /\ DOMAIN lines' = 1..(n + 1)
      /\ lines' \in Seq(JournalEntry \cup {Garbled})
  <2>1. e \in JournalEntry \cup {Garbled}
    BY ManifestTyped
  <2> HIDE DEF e
  <2>2. /\ lines' \in Seq(JournalEntry \cup {Garbled})
        /\ Len(lines') = n + 1
        /\ \A i \in 1..n : lines'[i] = lines[i]
        /\ lines'[n + 1] = e
    BY <2>1, AppendProperties DEF FileTyped, GrowsBy, e
  <2> QED
    BY <2>2
<1>3. e.kind = "manifest" /\ e.scan = s /\ e.stage = st
  BY DEF Manifest
<1>4. Readable(lines) => Readable(lines')
  BY <1>1, <1>2, <1>3 DEF Readable
<1>5. HasManifest(s, st)'
  BY <1>1, <1>2, <1>3 DEF HasManifest
<1>6. \A k \in 1..n : ~IsFor(lines[k], s, st)
  BY <1>1 DEF HasManifest
<1>7. \A j \in 1..n : lines[j].kind # "garbled" =>
         \E i \in 1..j : \A k \in 1..n :
            IsFor(lines[k], lines[j].scan, lines[j].stage) <=> k = i
  BY <1>1 DEF ManifestFirst
<1>8. \A j \in 1..n : lines[j].kind # "garbled" =>
         ~IsFor(e, lines[j].scan, lines[j].stage)
  <2>1. SUFFICES ASSUME NEW j \in 1..n, lines[j].kind # "garbled",
                        lines[j].scan = s, lines[j].stage = st
                 PROVE  FALSE
    BY <1>3
  <2>2. PICK i \in 1..j : IsFor(lines[i], s, st)
    BY <1>1, <1>7, <2>1
  <2> QED
    BY <1>1, <1>6, <2>2
<1>9. \A k \in 1..n : \A a, b : IsFor(lines'[k], a, b) <=> IsFor(lines[k], a, b)
  BY <1>2
<1>10. IsFor(e, s, st)
  BY <1>3
<1>11. SUFFICES ASSUME NEW j \in 1..(n + 1), lines'[j].kind # "garbled"
                PROVE  \E i \in 1..j : \A k \in 1..(n + 1) :
                          IsFor(lines'[k], lines'[j].scan, lines'[j].stage) <=> k = i
  <2>2. DOMAIN lines' = 1..(n + 1)
    BY <1>2
  <2> HIDE DEF n
  <2>3. ManifestFirst'
    BY <1>11, <2>2, ZenonT(40) DEF ManifestFirst
  <2> QED
    BY <1>2, <1>4, <1>5, <2>3
<1> HIDE DEF n, e, IsFor
<1>12. CASE j = n + 1
  <2>1. lines'[j].scan = s /\ lines'[j].stage = st
    BY <1>2, <1>3, <1>12
  <2>2. \A k \in 1..(n + 1) : IsFor(lines'[k], s, st) <=> k = n + 1
    BY <1>1, <1>2, <1>6, <1>9, <1>10
  <2>3. n + 1 \in 1..j
    BY <1>1, <1>12
  <2> QED
    BY <2>1, <2>2, <2>3
<1>13. CASE j # n + 1
  <2>1. j \in 1..n /\ lines'[j] = lines[j]
    BY <1>1, <1>2, <1>13
  <2>2. PICK i \in 1..j : \A k \in 1..n :
           IsFor(lines[k], lines[j].scan, lines[j].stage) <=> k = i
    BY <1>7, <1>11, <2>1
  <2>3. ~IsFor(lines'[n + 1], lines[j].scan, lines[j].stage)
    BY <1>2, <1>8, <1>11, <2>1
  <2>4. ASSUME NEW k \in 1..(n + 1)
        PROVE  IsFor(lines'[k], lines'[j].scan, lines'[j].stage) <=> k = i
    <3>1. CASE k = n + 1
      BY <1>1, <2>1, <2>3, <3>1
    <3>2. CASE k \in 1..n
      BY <1>9, <2>1, <2>2, <3>2
    <3> QED
      BY <1>1, <3>1, <3>2
  <2> QED
    BY <2>4
<1> QED
  BY <1>12, <1>13

(* The empty journal. *)
LEMMA InitJInv == ASSUME JInit PROVE JInv
<1>1. lines \in Seq(JournalEntry \cup {Garbled}) /\ DOMAIN lines = {}
  BY EmptySeq DEF JInit
<1> QED
  BY <1>1 DEF JInit, JInv, FileTyped, StoreTyped, CleanTail, CrashSafe, Readable,
              Introduced, ManifestFirst

(***************************************************************************)
(* A successful load: the file is readable, the torn tail is gone and the  *)
(* manifest is there.                                                      *)
(***************************************************************************)
LEMMA LoadJInv ==
  ASSUME JInv, NEW s \in Scans, NEW st \in Stages, NEW n \in Nat, LoadForScan(s, st, n)
  PROVE  JInv'
<1>1. /\ ManifestFirst' /\ HasManifest(s, st)'
      /\ lines' \in Seq(JournalEntry \cup {Garbled})
      /\ Readable(lines)'
  <2>1. CASE HasManifest(s, st)
    <3>1. lines' = lines
      BY <2>1 DEF LoadForScan
    <3> QED
      BY <2>1, <3>1 DEF JInv, FileTyped, LoadForScan, HasManifest, ManifestFirst, Readable
  <2>2. CASE ~HasManifest(s, st)
    <3>1. lines' = Append(lines, Manifest(s, st, n)) /\ Readable(lines)
      BY <2>2 DEF LoadForScan
    <3> QED
      BY <2>2, <3>1, ManifestAppended DEF JInv, GrowsBy
  <2> QED
    BY <2>1, <2>2
<1>2. torn' = FALSE /\ faults' = faults /\ store' = LoadState(lines, s, st, n)
  BY DEF LoadForScan
<1>3. StoreTyped' /\ store'.scan = s /\ store'.stage = st
  BY <1>2 DEF StoreTyped, LoadState
<1>4. Introduced'
  BY <1>1, <1>3 DEF Introduced, HasManifest
<1> QED
  BY <1>1, <1>2, <1>3, <1>4 DEF JInv, FileTyped, CleanTail, CrashSafe

(* A load that failed leaves no store behind. *)
LEMMA LoadFailedJInv ==
  ASSUME JInv, NEW s \in Scans, NEW st \in Stages, NEW n \in Nat,
         LoadManifestFails(s, st, n)
  PROVE  JInv'
<1>1. store' = None /\ faults' = faults + 1 /\ torn' \in BOOLEAN
  BY DEF LoadManifestFails
<1>2. /\ ManifestFirst'
      /\ lines' \in Seq(JournalEntry \cup {Garbled})
  <2>1. CASE lines' = lines
    BY <2>1 DEF JInv, FileTyped, ManifestFirst
  <2>2. CASE lines' = Append(lines, Manifest(s, st, n))
    BY <2>2, ManifestAppended DEF JInv, GrowsBy, LoadManifestFails
  <2> QED
    BY <2>1, <2>2 DEF LoadManifestFails
<1> QED
  BY <1>1, <1>2 DEF JInv, FileTyped, StoreTyped, CleanTail, CrashSafe, Introduced

\* Same scan, same stage, same units.
SameRun ==
  store' = None \/ (StoreTyped' /\ store'.scan = store.scan /\ store'.stage = store.stage)

(* An entry of the running process: its manifest is in the file already. *)
LEMMA EntryJInv ==
  ASSUME JInv, store # None, NEW k \in {"unit", "usage", "reuse"},
         NEW u \in Units \cup {None}, NEW c \in Nat, NEW r \in BOOLEAN,
         AppendEntry(Entry(k, u, c, r)), faults' \in Nat, SameRun,
         faults' = 0 => faults = 0
  PROVE  JInv'
<1> DEFINE e == Entry(k, u, c, r)
<1>1. /\ e \in JournalEntry /\ e.kind = k
      /\ e.scan = store.scan /\ e.stage = store.stage
  <2>1. k \in Kinds
    BY DEF Kinds
  <2>2. e \in JournalEntry /\ e.kind = k
    BY <2>1, EntryTyped DEF JInv
  <2> QED
    BY <2>2 DEF Entry
<1>2. e.kind # "manifest" /\ e.kind # "garbled" /\ HasManifest(e.scan, e.stage)
  BY <1>1 DEF JInv, Introduced
<1>3. AppendEntry(e) /\ FileTyped /\ ManifestFirst
  BY DEF JInv
<1> HIDE DEF e
<1>4. /\ lines' \in Seq(JournalEntry \cup {Garbled})
      /\ Len(lines') = Len(lines) + 1
      /\ \A i \in 1..Len(lines) : lines'[i] = lines[i]
      /\ lines'[Len(lines) + 1] = IF torn THEN Garbled ELSE e
      /\ torn' = FALSE
  BY <1>1, <1>3, WrittenLines
<1>5. ManifestFirst'
  BY <1>1, <1>2, <1>3, AppendKeepsManifests
<1>6. CrashSafe'
  <2>1. SUFFICES ASSUME faults' = 0 PROVE Readable(lines)'
    BY DEF CrashSafe
  <2>2. Readable(lines) /\ ~torn
    BY <2>1 DEF JInv, CrashSafe, CleanTail
  <2>3. DOMAIN lines = 1..Len(lines) /\ DOMAIN lines' = 1..(Len(lines) + 1)
    BY <1>4 DEF JInv, FileTyped
  <2>4. Len(lines) \in Nat
    BY DEF JInv, FileTyped
  <2> QED
    BY <1>2, <1>4, <2>2, <2>3, <2>4 DEF Readable
<1>7. StoreTyped'
  BY DEF SameRun, StoreTyped
<1>8. Introduced'
  <2>1. PICK i \in DOMAIN lines : /\ lines[i].kind = "manifest"
                                  /\ lines[i].scan = store.scan
                                  /\ lines[i].stage = store.stage
    BY DEF JInv, Introduced, HasManifest
  <2>2. i \in DOMAIN lines' /\ lines'[i] = lines[i]
    BY <1>4 DEF JInv, FileTyped
  <2> QED
    BY <2>1, <2>2 DEF SameRun, Introduced, HasManifest
<1> QED
  BY <1>3, <1>4, <1>5, <1>6, <1>7, <1>8 DEF JInv, FileTyped, CleanTail

(* A process that ends, normally or not, leaves no store and every line. *)
LEMMA EndJInv ==
  ASSUME JInv, Close \/ Crash \/ LoadUnreadable
  PROVE  JInv'
<1>1. store' = None /\ lines' = lines /\ faults' = faults /\ torn' \in BOOLEAN
  BY DEF JInv, FileTyped, Close, Crash, LoadUnreadable
<1> QED
  BY <1>1 DEF JInv, FileTyped, StoreTyped, CleanTail, CrashSafe, Readable,
              Introduced, ManifestFirst

(* The appends of a running process, those that succeed ... *)
LEMMA RecordJInv ==
  ASSUME JInv, NEW u \in Units \cup {None}, NEW c \in Nat, NEW r \in BOOLEAN,
         Record(u, c, r) \/ RecordUsage(c) \/ RecordCrossScanReuse(u)
  PROVE  JInv'
<1>1. store # None /\ faults' = faults /\ faults \in Nat /\ StoreTyped
  BY DEF Record, RecordUsage, RecordCrossScanReuse, JInv, FileTyped
<1>2. CASE Record(u, c, r)
  <2>1. AppendEntry(Entry("unit", u, c, r)) /\ SameRun
    BY <1>1, <1>2 DEF Record, SameRun, StoreTyped
  <2> QED
    BY <1>1, <2>1, EntryJInv
<1>3. CASE RecordUsage(c)
  <2>1. AppendEntry(Entry("usage", None, c, FALSE)) /\ SameRun
    BY <1>1, <1>3 DEF RecordUsage, SameRun, StoreTyped
  <2> QED
    BY <1>1, <2>1, EntryJInv
<1>4. CASE RecordCrossScanReuse(u)
  <2>1. AppendEntry(Entry("reuse", u, 0, FALSE)) /\ SameRun
    BY <1>1, <1>4 DEF RecordCrossScanReuse, SameRun, StoreTyped
  <2> QED
    BY <1>1, <2>1, EntryJInv
<1> QED
  BY <1>2, <1>3, <1>4

(* ... and those that report an error, whatever they left in the file. *)
LEMMA RecordFailsJInv ==
  ASSUME JInv, NEW k \in {"unit", "usage", "reuse"}, NEW u \in Units \cup {None},
         NEW c \in Nat, NEW r \in BOOLEAN, RecordFails(Entry(k, u, c, r))
  PROVE  JInv'
<1>1. /\ store # None /\ store' = store /\ faults' = faults + 1
      /\ faults \in Nat /\ StoreTyped
  BY DEF RecordFails, AppendFails, JInv, FileTyped
<1>2. SameRun
  BY <1>1 DEF SameRun, StoreTyped
<1>3. CASE AppendEntry(Entry(k, u, c, r))
  BY <1>1, <1>2, <1>3, EntryJInv
<1>4. CASE lines' = lines /\ torn' \in BOOLEAN
  BY <1>1, <1>4 DEF JInv, FileTyped, StoreTyped, CleanTail, CrashSafe,
                    Introduced, HasManifest, ManifestFirst
<1> QED
  BY <1>3, <1>4 DEF RecordFails, AppendFails, JInv, FileTyped

(* Every step of the journal keeps the invariant. *)
LEMMA NextJInv == JInv /\ [JNext]_jvars => JInv'
<1> SUFFICES ASSUME JInv, [JNext]_jvars PROVE JInv'
  OBVIOUS
<1>0. Costs \cup {0} \subseteq Nat /\ Costs \subseteq Nat
  BY JournalAssumption
<1>1. ASSUME NEW s \in Scans, NEW st \in Stages, NEW n \in 0..Cardinality(Units),
             LoadForScan(s, st, n) \/ LoadManifestFails(s, st, n)
      PROVE  JInv'
  BY <1>1, LoadJInv, LoadFailedJInv
<1>2. CASE LoadUnreadable \/ Close \/ Crash
  BY <1>2, EndJInv
<1>3. ASSUME NEW u \in Units, NEW c \in Costs \cup {0}, NEW r \in BOOLEAN, Record(u, c, r)
      PROVE  JInv'
  BY <1>0, <1>3, RecordJInv
<1>4. ASSUME NEW c \in Costs, RecordUsage(c)
      PROVE  JInv'
  BY <1>0, <1>4, RecordJInv
<1>5. ASSUME NEW u \in Units, RecordCrossScanReuse(u)
      PROVE  JInv'
  BY <1>5, RecordJInv
<1>6. ASSUME NEW u \in Units, NEW c \in Costs \cup {0}, NEW r \in BOOLEAN,
             RecordFails(Entry("unit", u, c, r))
      PROVE  JInv'
  BY <1>0, <1>6, RecordFailsJInv
<1>7. ASSUME NEW c \in Costs, RecordFails(Entry("usage", None, c, FALSE))
      PROVE  JInv'
  BY <1>0, <1>7, RecordFailsJInv
<1>8. ASSUME NEW u \in Units, RecordFails(Entry("reuse", u, 0, FALSE))
      PROVE  JInv'
  BY <1>8, RecordFailsJInv
<1>9. CASE UNCHANGED jvars
  BY <1>9 DEF jvars, JInv, FileTyped, StoreTyped, CleanTail, CrashSafe, Readable,
              Introduced, HasManifest, ManifestFirst
<1> QED
  BY <1>1, <1>2, <1>3, <1>4, <1>5, <1>6, <1>7, <1>8, <1>9 DEF JNext

(***************************************************************************)
(* The inductive invariant of the journal.                                 *)
(***************************************************************************)
THEOREM JournalInvariant == JournalSpec => []JInv
  BY InitJInv, NextJInv, PTL DEF JournalSpec

(***************************************************************************)
(* Crashes alone never make the journal unreadable, however many there     *)
(* are: read_entries cuts the torn tail before anyone appends behind it.   *)
(***************************************************************************)
THEOREM JournalCrashSafe == JournalSpec => []CrashSafe
<1>1. JInv => CrashSafe
  BY DEF JInv
<1> QED
  BY <1>1, JournalInvariant, PTL

(***************************************************************************)
(* Every entry of a scan and stage follows its one manifest, failed        *)
(* appends and crashes included.                                           *)
(***************************************************************************)
THEOREM JournalManifestFirst == JournalSpec => []ManifestFirst
<1>1. JInv => ManifestFirst
  BY DEF JInv
<1> QED
  BY <1>1, JournalInvariant, PTL

(* What a step does to the lines: nothing, or one more. *)
LEMMA LinesGrow ==
  ASSUME JInv, JNext
  PROVE  lines' = lines \/ \E x \in JournalEntry \cup {Garbled} : GrowsBy(x)
<1>0. Costs \cup {0} \subseteq Nat /\ Costs \subseteq Nat /\ StoreTyped
  BY JournalAssumption DEF JInv
<1>1. ASSUME NEW e \in JournalEntry, AppendEntry(e)
      PROVE  \E x \in JournalEntry \cup {Garbled} : GrowsBy(x)
  BY <1>1 DEF AppendEntry, Written, GrowsBy
<1>2. ASSUME NEW k \in {"unit", "usage", "reuse"}, NEW u \in Units \cup {None},
             NEW c \in Nat, NEW r \in BOOLEAN, store # None
      PROVE  Entry(k, u, c, r) \in JournalEntry
  BY <1>0, <1>2, EntryTyped DEF Kinds
<1>3. ASSUME NEW s \in Scans, NEW st \in Stages, NEW n \in 0..Cardinality(Units),
             LoadForScan(s, st, n) \/ LoadManifestFails(s, st, n)
      PROVE  lines' = lines \/ \E x \in JournalEntry \cup {Garbled} : GrowsBy(x)
  BY <1>3, ManifestTyped DEF LoadForScan, LoadManifestFails, GrowsBy
<1>4. CASE LoadUnreadable \/ Close \/ Crash
  BY <1>4 DEF LoadUnreadable, Close, Crash
<1>5. ASSUME NEW u \in Units, NEW c \in Costs \cup {0}, NEW r \in BOOLEAN,
             Record(u, c, r) \/ RecordCrossScanReuse(u)
      PROVE  \E x \in JournalEntry \cup {Garbled} : GrowsBy(x)
  BY <1>0, <1>1, <1>2, <1>5 DEF Record, RecordCrossScanReuse
<1>6. ASSUME NEW c \in Costs, RecordUsage(c)
      PROVE  \E x \in JournalEntry \cup {Garbled} : GrowsBy(x)
  BY <1>0, <1>1, <1>2, <1>6 DEF RecordUsage
<1>7. ASSUME NEW e \in JournalEntry, RecordFails(e)
      PROVE  lines' = lines \/ \E x \in JournalEntry \cup {Garbled} : GrowsBy(x)
  BY <1>1, <1>7 DEF RecordFails, AppendFails
<1>8. ASSUME NEW k \in {"unit", "usage", "reuse"}, NEW u \in Units \cup {None},
             NEW c \in Nat, NEW r \in BOOLEAN, RecordFails(Entry(k, u, c, r))
      PROVE  lines' = lines \/ \E x \in JournalEntry \cup {Garbled} : GrowsBy(x)
  <2>1. Entry(k, u, c, r) \in JournalEntry
    BY <1>2, <1>8 DEF RecordFails
  <2> QED
    BY <1>7, <1>8, <2>1
<1> QED
  BY <1>0, <1>3, <1>4, <1>5, <1>6, <1>8 DEF JNext

(***************************************************************************)
(* No step changes or drops a complete line.                               *)
(***************************************************************************)
THEOREM JournalAppendOnly == JournalSpec => AppendOnly
<1>1. JInv /\ [JNext]_jvars =>
        [/\ Len(lines) <= Len(lines')
         /\ \A i \in DOMAIN lines : lines'[i] = lines[i]]_jvars
  <2>1. SUFFICES ASSUME JInv, JNext
                 PROVE  /\ Len(lines) <= Len(lines')
                        /\ \A i \in DOMAIN lines : lines'[i] = lines[i]
    OBVIOUS
  <2>2. lines \in Seq(JournalEntry \cup {Garbled})
    BY <2>1 DEF JInv, FileTyped
  <2>3. CASE lines' = lines
    BY <2>2, <2>3
  <2>4. ASSUME NEW x \in JournalEntry \cup {Garbled}, GrowsBy(x)
        PROVE  /\ Len(lines) <= Len(lines')
               /\ \A i \in DOMAIN lines : lines'[i] = lines[i]
    BY <2>2, <2>4, AppendProperties DEF GrowsBy
  <2> QED
    BY <2>1, <2>3, <2>4, LinesGrow
<1> QED
  BY <1>1, JournalInvariant, PTL DEF JournalSpec, AppendOnly

(* A nonempty set of positions has a last one, and Max is it. *)
LEMMA MaxPosition ==
  ASSUME NEW n \in Nat, NEW P, P \subseteq 1..n, P # {}
  PROVE  Max(P) \in P /\ \A y \in P : Max(P) >= y
<1> DEFINE T == {n - p : p \in P}
           R == OpToRel(<, Nat)
<1>1. T \subseteq Nat /\ T # {}
  <2>1. \A p \in P : n - p \in Nat
    OBVIOUS
  <2>2. PICK q \in P : TRUE
    OBVIOUS
  <2>3. n - q \in T
    BY <2>2
  <2> QED
    BY <2>1, <2>3
<1>2. PICK t \in T : \A y \in T : ~(<<y, t>> \in R)
  <2> HIDE DEF T, R
  <2>1. IsWellFoundedOn(R, Nat)
    BY NatLessThanWellFounded DEF R
  <2> QED
    BY <1>1, <2>1, WFMin
<1>3. \A y \in T : ~(y < t)
  BY <1>1, <1>2 DEF OpToRel
<1>4. PICK p \in P : t = n - p
  OBVIOUS
<1>5. \A y \in P : p >= y
  BY <1>3, <1>4
<1> QED
  BY <1>4, <1>5 DEF Max

(* An appended entry for a unit becomes its latest one, and any other line *)
(* leaves the latest entry alone.                                          *)
LEMMA LatestAfterAppend ==
  ASSUME NEW L, NEW f \in Seq(L), NEW e \in L, NEW s, NEW st, NEW u
  PROVE  LatestEntry(Append(f, e), s, st, u) =
           IF e.kind = "unit" /\ e.unit = u /\ MatchesCache(s, st, e)
           THEN e ELSE LatestEntry(f, s, st, u)
<1> DEFINE n == Len(f)
           g == Append(f, e)
           P == CachePositions(f, s, st, u)
           Q == CachePositions(g, s, st, u)
           Hit == e.kind = "unit" /\ e.unit = u /\ MatchesCache(s, st, e)
<1>1. /\ n \in Nat /\ DOMAIN f = 1..n /\ DOMAIN g = 1..(n + 1)
      /\ \A i \in 1..n : g[i] = f[i]
      /\ g[n + 1] = e
  BY AppendProperties
<1>2. P \subseteq 1..n
  BY <1>1 DEF CachePositions
<1> HIDE DEF g, n
<1>3. Q = P \cup (IF Hit THEN {n + 1} ELSE {})
  BY <1>1 DEF CachePositions
<1> HIDE DEF P, Q, Hit
<1>4. CASE Hit
  <2>1. Q \subseteq 1..(n + 1) /\ n + 1 \in Q
    BY <1>1, <1>2, <1>3, <1>4
  <2> DEFINE m == Max(Q)
  <2>2. m \in Q /\ \A y \in Q : m >= y
    <3>1. n + 1 \in Nat /\ Q # {}
      BY <1>1, <2>1
    <3> QED
      BY <2>1, <3>1, MaxPosition
  <2> HIDE DEF m
  <2>3. m = n + 1
    BY <1>1, <2>1, <2>2
  <2>4. Max(Q) = n + 1
    BY <2>3 DEF m
  <2> QED
    BY <1>1, <1>4, <2>1, <2>4 DEF LatestEntry, Q, Hit, g
<1>5. CASE ~Hit
  <2>1. Q = P
    BY <1>3, <1>5
  <2>2. P # {} => Max(P) \in 1..n
    BY <1>1, <1>2, MaxPosition
  <2>3. P # {} => g[Max(P)] = f[Max(P)]
    BY <1>1, <2>2
  <2>4. LatestEntry(g, s, st, u) = IF Q = {} THEN None ELSE g[Max(Q)]
    BY DEF LatestEntry, Q
  <2>5. LatestEntry(f, s, st, u) = IF P = {} THEN None ELSE f[Max(P)]
    BY DEF LatestEntry, P
  <2> QED
    BY <1>5, <2>1, <2>3, <2>4, <2>5 DEF Hit, g
<1> QED
  BY <1>4, <1>5

(* Loading collects the latest entries; the manifest it adds is none. *)
LEMMA LoadMirrors ==
  ASSUME JInv, NEW s \in Scans, NEW st \in Stages, NEW n \in Nat, LoadForScan(s, st, n)
  PROVE  CompletedMirrorsFile'
<1>1. /\ lines' = lines \/ lines' = Append(lines, Manifest(s, st, n))
      /\ store' = LoadState(lines, s, st, n)
  BY DEF LoadForScan
<1>2. Manifest(s, st, n) \in JournalEntry \cup {Garbled} /\ Manifest(s, st, n).kind # "unit"
  BY ManifestTyped DEF Manifest
<1>3. \A u \in Units : LatestEntry(lines', s, st, u) = LatestEntry(lines, s, st, u)
  <2> DEFINE e == Manifest(s, st, n)
  <2>1. lines \in Seq(JournalEntry \cup {Garbled})
    BY DEF JInv, FileTyped
  <2>2. e \in JournalEntry \cup {Garbled} /\ e.kind # "unit"
    BY <1>2
  <2> HIDE DEF e
  <2>3. \A u \in Units : LatestEntry(Append(lines, e), s, st, u) = LatestEntry(lines, s, st, u)
    BY <2>1, <2>2, LatestAfterAppend
  <2> QED
    BY <1>1, <2>3 DEF e
<1>4. /\ store'.scan = s /\ store'.stage = st
      /\ \A u \in Units : store'.completed[u] = LatestEntry(lines, s, st, u)
  BY <1>1 DEF LoadState
<1> QED
  BY <1>3, <1>4 DEF CompletedMirrorsFile

(* A recorded unit is the latest entry of that unit and of no other. *)
LEMMA RecordMirrors ==
  ASSUME JInv, CompletedMirrorsFile,
         NEW u \in Units, NEW c \in Nat, NEW r \in BOOLEAN, Record(u, c, r)
  PROVE  CompletedMirrorsFile'
<1> DEFINE e == Entry("unit", u, c, r)
<1>1. SUFFICES ASSUME faults' = 0
               PROVE  CompletedMirrorsFile'
  BY DEF CompletedMirrorsFile
<1>2. store # None /\ ~torn /\ lines \in Seq(JournalEntry \cup {Garbled}) /\ StoreTyped
  BY <1>1 DEF Record, JInv, CleanTail, FileTyped
<1>3. e \in JournalEntry
  BY <1>2, EntryTyped DEF Kinds
<1>4. e.kind = "unit" /\ e.unit = u /\ MatchesCache(store.scan, store.stage, e)
  BY <1>2 DEF Entry, MatchesCache
<1>5. lines' = Append(lines, e)
  BY <1>2 DEF Record, AppendEntry, Written
<1>6. store' = [store EXCEPT !.spent = @ + c, !.completed[u] = e]
  BY DEF Record
<1> HIDE DEF e
<1>7. \A v \in Units : LatestEntry(lines', store.scan, store.stage, v) =
         IF v = u THEN e ELSE LatestEntry(lines, store.scan, store.stage, v)
  <2>1. e \in JournalEntry \cup {Garbled}
    BY <1>3
  <2> QED
    BY <1>2, <1>4, <1>5, <2>1, LatestAfterAppend
<1>8. /\ store'.scan = store.scan /\ store'.stage = store.stage
      /\ \A v \in Units : store'.completed[v] = IF v = u THEN e ELSE store.completed[v]
  BY <1>2, <1>6 DEF StoreTyped
<1>9. \A v \in Units :
         store.completed[v] = LatestEntry(lines, store.scan, store.stage, v)
  BY <1>1, <1>2 DEF CompletedMirrorsFile, Record
<1> QED
  BY <1>7, <1>8, <1>9 DEF CompletedMirrorsFile

(* Usages and reuse manifests are no unit's entry. *)
LEMMA OtherEntriesMirror ==
  ASSUME JInv, CompletedMirrorsFile, NEW k \in {"usage", "reuse"},
         NEW u \in Units \cup {None}, NEW c \in Nat,
         AppendEntry(Entry(k, u, c, FALSE)), store # None, faults' = faults,
         store'.scan = store.scan, store'.stage = store.stage,
         store'.completed = store.completed
  PROVE  CompletedMirrorsFile'
<1> DEFINE e == Entry(k, u, c, FALSE)
<1>1. SUFFICES ASSUME faults = 0
               PROVE  CompletedMirrorsFile'
  BY DEF CompletedMirrorsFile
<1>2. ~torn /\ lines \in Seq(JournalEntry \cup {Garbled}) /\ StoreTyped
  BY <1>1 DEF JInv, CleanTail, FileTyped
<1>3. e \in JournalEntry \cup {Garbled} /\ e.kind # "unit"
  BY <1>2, EntryTyped DEF Kinds
<1>4. lines' = Append(lines, e)
  BY <1>2 DEF AppendEntry, Written
<1> HIDE DEF e
<1>5. \A v \in Units : LatestEntry(lines', store.scan, store.stage, v) =
                         LatestEntry(lines, store.scan, store.stage, v)
  BY <1>2, <1>3, <1>4, LatestAfterAppend
<1> QED
  BY <1>1, <1>5 DEF CompletedMirrorsFile

(* Every step keeps memory and file together. *)
LEMMA NextMirrors ==
  ASSUME JInv, CompletedMirrorsFile, [JNext]_jvars
  PROVE  CompletedMirrorsFile'
<1>0. Costs \cup {0} \subseteq Nat /\ Costs \subseteq Nat /\ StoreTyped /\ faults \in Nat
  BY JournalAssumption DEF JInv, FileTyped
<1>1. ASSUME NEW s \in Scans, NEW st \in Stages, NEW n \in 0..Cardinality(Units),
             LoadForScan(s, st, n)
      PROVE  CompletedMirrorsFile'
  BY <1>1, LoadMirrors
<1>2. ASSUME NEW u \in Units, NEW c \in Costs \cup {0}, NEW r \in BOOLEAN, Record(u, c, r)
      PROVE  CompletedMirrorsFile'
  BY <1>0, <1>2, RecordMirrors
<1>3. ASSUME NEW c \in Costs, RecordUsage(c)
      PROVE  CompletedMirrorsFile'
  <2>1. /\ AppendEntry(Entry("usage", None, c, FALSE)) /\ store # None /\ faults' = faults
        /\ store'.scan = store.scan /\ store'.stage = store.stage
        /\ store'.completed = store.completed
    BY <1>0, <1>3 DEF RecordUsage, StoreTyped
  <2> QED
    BY <1>0, <2>1, OtherEntriesMirror
<1>4. ASSUME NEW u \in Units, RecordCrossScanReuse(u)
      PROVE  CompletedMirrorsFile'
  <2>1. /\ AppendEntry(Entry("reuse", u, 0, FALSE)) /\ store # None /\ faults' = faults
        /\ store' = store
    BY <1>4 DEF RecordCrossScanReuse
  <2> QED
    BY <2>1, OtherEntriesMirror
<1>5. ASSUME store' = None \/ faults' = faults + 1
      PROVE  CompletedMirrorsFile'
  BY <1>0, <1>5 DEF CompletedMirrorsFile
<1>6. CASE LoadUnreadable \/ Close \/ Crash
  BY <1>5, <1>6 DEF LoadUnreadable, Close, Crash
<1>7. ASSUME NEW e, RecordFails(e)
      PROVE  CompletedMirrorsFile'
  BY <1>5, <1>7 DEF RecordFails, AppendFails
<1>8. ASSUME NEW s \in Scans, NEW st \in Stages, NEW n \in 0..Cardinality(Units),
             LoadManifestFails(s, st, n)
      PROVE  CompletedMirrorsFile'
  BY <1>5, <1>8 DEF LoadManifestFails
<1>9. CASE UNCHANGED jvars
  BY <1>9 DEF jvars, CompletedMirrorsFile
<1> QED
  BY <1>1, <1>2, <1>3, <1>4, <1>6, <1>7, <1>8, <1>9 DEF JNext

(***************************************************************************)
(* As long as no append has failed, what a process takes for reviewed is   *)
(* what any restart would read from the file, for files of every length.   *)
(***************************************************************************)
THEOREM JournalCompletedMirrorsFile == JournalSpec => []CompletedMirrorsFile
<1>1. JInit => CompletedMirrorsFile
  BY DEF JInit, CompletedMirrorsFile
<1>2. JInv /\ CompletedMirrorsFile /\ [JNext]_jvars => CompletedMirrorsFile'
  BY NextMirrors
<1> QED
  BY <1>1, <1>2, JournalInvariant, PTL DEF JournalSpec

-----------------------------------------------------------------------------
(* The spend.                                                              *)

FileLine == JournalEntry \cup {Garbled}

\* SpentIn as a fold of FoldFacts; the value is a number for every file.
Spend == INSTANCE FoldFacts
  WITH Step <- LAMBDA s, spent, e :
                 IF e.kind # "garbled" /\ e.scan = s THEN spent + e.cost ELSE spent,
       Base <- LAMBDA s : 0,
       Elements <- FileLine,
       Holds <- LAMBDA s, file, spent : spent \in Nat

LEMMA SpentIsAFold ==
  ASSUME NEW s, NEW file
  PROVE  SpentIn(file, s) = Spend!Fold(s, file)
  BY DEF SpentIn, Spend!Fold, FoldLeft, MapThenFoldSet, Max, Spend!Last

(* A line adds its cost when it is an entry of the scan. *)
LEMMA SpentAfterAppend ==
  ASSUME NEW file \in Seq(FileLine), NEW e \in FileLine, NEW s
  PROVE  SpentIn(Append(file, e), s) =
           IF e.kind # "garbled" /\ e.scan = s
             THEN SpentIn(file, s) + e.cost ELSE SpentIn(file, s)
  BY SpentIsAFold, Spend!FoldAppend

LEMMA LineParts ==
  ASSUME NEW e \in FileLine
  PROVE  /\ e.kind # "garbled" => e \in JournalEntry /\ e.cost \in Nat
         /\ e = Garbled => e.kind = "garbled"
         /\ e \in JournalEntry => e.kind # "garbled"
  BY DEF FileLine, JournalEntry, Garbled, Kinds

(* The spend of a file is a number. *)
LEMMA SpentIsNat ==
  ASSUME NEW file \in Seq(FileLine), NEW s
  PROVE  SpentIn(file, s) \in Nat
<1>1. \A c : 0 \in Nat
  OBVIOUS
<1>2. \A c : \A seq \in Seq(FileLine) : \A e \in FileLine :
        Spend!Fold(c, seq) \in Nat =>
          (IF e.kind # "garbled" /\ e.scan = c THEN Spend!Fold(c, seq) + e.cost
                                               ELSE Spend!Fold(c, seq)) \in Nat
  BY LineParts
<1>3. \A c : \A seq \in Seq(FileLine) : Spend!Fold(c, seq) \in Nat
  BY <1>1, <1>2, Spend!FoldInduction
<1> QED
  BY <1>3, SpentIsAFold

(* Loading adds the spend up; the manifest it writes costs nothing. *)
LEMMA LoadSpend ==
  ASSUME JInv, NEW s \in Scans, NEW st \in Stages, NEW n \in Nat, LoadForScan(s, st, n)
  PROVE  SpendMirrorsFile'
<1> DEFINE e == Manifest(s, st, n)
<1>1. /\ lines' = lines \/ lines' = Append(lines, e)
      /\ store'.scan = s /\ store'.spent = SpentIn(lines, s)
  BY DEF LoadForScan, LoadState
<1>2. e \in FileLine /\ e.cost = 0
  BY ManifestTyped DEF Manifest, FileLine
<1>3. lines \in Seq(FileLine)
  BY DEF JInv, FileTyped, FileLine
<1> HIDE DEF e
<1>4. SpentIn(Append(lines, e), s) = SpentIn(lines, s)
  BY <1>2, <1>3, SpentAfterAppend, SpentIsNat
<1> QED
  BY <1>1, <1>4 DEF SpendMirrorsFile

(* An entry of the running process adds to file and memory what it costs. *)
LEMMA EntrySpend ==
  ASSUME JInv, SpendMirrorsFile, store # None,
         NEW k \in {"unit", "usage", "reuse"}, NEW u \in Units \cup {None},
         NEW c \in Nat, NEW r \in BOOLEAN,
         AppendEntry(Entry(k, u, c, r)), faults' = faults,
         store'.scan = store.scan, store'.spent = store.spent + c
  PROVE  SpendMirrorsFile'
<1> DEFINE e == Entry(k, u, c, r)
<1>1. SUFFICES ASSUME faults = 0
               PROVE  SpendMirrorsFile'
  BY DEF SpendMirrorsFile
<1>2. ~torn /\ lines \in Seq(FileLine) /\ StoreTyped
  BY <1>1 DEF JInv, CleanTail, FileTyped, FileLine
<1>3. e \in JournalEntry /\ e \in FileLine
  BY <1>2, EntryTyped DEF Kinds, FileLine
<1>4. e.cost = c /\ e.scan = store.scan
  BY DEF Entry
<1>5. lines' = Append(lines, e)
  BY <1>2 DEF AppendEntry, Written
<1> HIDE DEF e
<1>6. SpentIn(lines', store.scan) = SpentIn(lines, store.scan) + c
  BY <1>2, <1>3, <1>4, <1>5, SpentAfterAppend, LineParts
<1>7. store.spent = SpentIn(lines, store.scan)
  BY <1>1 DEF SpendMirrorsFile
<1> QED
  BY <1>6, <1>7 DEF SpendMirrorsFile

LEMMA NextSpend ==
  ASSUME JInv, JTypeOK, SpendMirrorsFile, [JNext]_jvars
  PROVE  SpendMirrorsFile'
<1>0. /\ Costs \cup {0} \subseteq Nat /\ Costs \subseteq Nat /\ StoreTyped /\ faults \in Nat
      /\ store # None => store.spent \in Nat /\ store.spent + 0 = store.spent
  BY JournalAssumption DEF JInv, FileTyped, JTypeOK, JournalStore
<1>1. ASSUME NEW s \in Scans, NEW st \in Stages, NEW n \in 0..Cardinality(Units),
             LoadForScan(s, st, n)
      PROVE  SpendMirrorsFile'
  BY <1>1, LoadSpend
<1>2. ASSUME NEW u \in Units, NEW c \in Costs \cup {0}, NEW r \in BOOLEAN, Record(u, c, r)
      PROVE  SpendMirrorsFile'
  <2>1. /\ AppendEntry(Entry("unit", u, c, r)) /\ store # None /\ faults' = faults
        /\ store'.scan = store.scan /\ store'.spent = store.spent + c
    BY <1>0, <1>2 DEF Record, StoreTyped
  <2> QED
    BY <1>0, <2>1, EntrySpend
<1>3. ASSUME NEW c \in Costs, RecordUsage(c)
      PROVE  SpendMirrorsFile'
  <2>1. /\ AppendEntry(Entry("usage", None, c, FALSE)) /\ store # None /\ faults' = faults
        /\ store'.scan = store.scan /\ store'.spent = store.spent + c
    BY <1>0, <1>3 DEF RecordUsage, StoreTyped
  <2> QED
    BY <1>0, <2>1, EntrySpend
<1>4. ASSUME NEW u \in Units, RecordCrossScanReuse(u)
      PROVE  SpendMirrorsFile'
  <2>1. /\ AppendEntry(Entry("reuse", u, 0, FALSE)) /\ store # None /\ faults' = faults
        /\ store'.scan = store.scan /\ store'.spent = store.spent + 0
    BY <1>0, <1>4 DEF RecordCrossScanReuse
  <2> QED
    BY <2>1, EntrySpend
<1>5. ASSUME store' = None \/ faults' = faults + 1
      PROVE  SpendMirrorsFile'
  BY <1>0, <1>5 DEF SpendMirrorsFile
<1>6. CASE LoadUnreadable \/ Close \/ Crash
  BY <1>5, <1>6 DEF LoadUnreadable, Close, Crash
<1>7. ASSUME NEW e, RecordFails(e)
      PROVE  SpendMirrorsFile'
  BY <1>5, <1>7 DEF RecordFails, AppendFails
<1>8. ASSUME NEW s \in Scans, NEW st \in Stages, NEW n \in 0..Cardinality(Units),
             LoadManifestFails(s, st, n)
      PROVE  SpendMirrorsFile'
  BY <1>5, <1>8 DEF LoadManifestFails
<1>9. CASE UNCHANGED jvars
  BY <1>9 DEF jvars, SpendMirrorsFile
<1> QED
  BY <1>1, <1>2, <1>3, <1>4, <1>6, <1>7, <1>8, <1>9 DEF JNext

-----------------------------------------------------------------------------
(* The types.                                                              *)

(* What is collected for a unit is an entry of the file. *)
LEMMA LatestTyped ==
  ASSUME NEW file \in Seq(FileLine), NEW s, NEW st, NEW u
  PROVE  LatestEntry(file, s, st, u) \in JournalEntry \cup {None}
<1> DEFINE P == CachePositions(file, s, st, u)
<1>1. P \subseteq 1..Len(file) /\ Len(file) \in Nat
  BY DEF CachePositions
<1>2. \A i \in P : i \in DOMAIN file /\ file[i].kind = "unit"
  BY DEF CachePositions
<1>3. \A i \in P : file[i] \in JournalEntry
  BY <1>2, LineParts
<1>4. LatestEntry(file, s, st, u) = IF P = {} THEN None ELSE file[Max(P)]
  BY DEF LatestEntry
<1>5. P # {} => Max(P) \in P
  <2> HIDE DEF P
  <2> QED
    BY <1>1, MaxPosition
<1> HIDE DEF P
<1> QED
  BY <1>3, <1>4, <1>5

LEMMA LoadTypes ==
  ASSUME JInv, NEW s \in Scans, NEW st \in Stages, NEW n \in Nat
  PROVE  LoadState(lines, s, st, n) \in JournalStore
<1>1. lines \in Seq(FileLine)
  BY DEF JInv, FileTyped, FileLine
<1>2. SpentIn(lines, s) \in Nat
  BY <1>1, SpentIsNat
<1>3. [u \in Units |-> LatestEntry(lines, s, st, u)] \in [Units -> JournalEntry \cup {None}]
  BY <1>1, LatestTyped
<1> QED
  BY <1>2, <1>3 DEF LoadState, JournalStore

LEMMA RecordTypes ==
  ASSUME store \in JournalStore, NEW e \in JournalEntry, NEW u \in Units, NEW c \in Nat
  PROVE  /\ [store EXCEPT !.spent = @ + c] \in JournalStore
         /\ [store EXCEPT !.spent = @ + c, !.completed[u] = e] \in JournalStore
<1>1. ASSUME NEW x \in JournalStore, NEW n \in Nat
      PROVE  [x EXCEPT !.spent = n] \in JournalStore
  BY DEF JournalStore
<1>2. ASSUME NEW x \in JournalStore
      PROVE  [x EXCEPT !.completed[u] = e] \in JournalStore
  <2> DEFINE f == [x.completed EXCEPT ![u] = e]
  <2>1. x.completed \in [Units -> JournalEntry \cup {None}]
    BY DEF JournalStore
  <2>2. f \in [Units -> JournalEntry \cup {None}]
    BY <2>1
  <2> HIDE DEF f
  <2>3. [x EXCEPT !.completed = f] \in JournalStore
    BY <2>2 DEF JournalStore
  <2> QED
    BY <2>3 DEF f
<1>3. store.spent + c \in Nat
  BY DEF JournalStore
<1>4. [store EXCEPT !.spent = @ + c] \in JournalStore
  BY <1>1, <1>3
<1>5. [[store EXCEPT !.spent = @ + c] EXCEPT !.completed[u] = e] \in JournalStore
  BY <1>2, <1>4
<1>6. [[store EXCEPT !.spent = @ + c] EXCEPT !.completed[u] = e]
        = [store EXCEPT !.spent = @ + c, !.completed[u] = e]
  OBVIOUS
<1> QED
  BY <1>4, <1>5, <1>6

LEMMA NextTypes ==
  ASSUME JInv, JTypeOK, [JNext]_jvars
  PROVE  JTypeOK'
<1>1. JInv'
  BY NextJInv
<1>2. (\A i \in DOMAIN lines : lines[i] \in JournalEntry \cup {Garbled})' /\ torn' \in BOOLEAN
  BY <1>1 DEF JInv, FileTyped
<1>3. /\ faults \in 0..MaxFaults /\ MaxFaults \in Nat /\ store \in JournalStore \cup {None}
      /\ Costs \cup {0} \subseteq Nat /\ Costs \subseteq Nat /\ StoreTyped
  BY JournalAssumption DEF JTypeOK, JInv
<1>4. store' \in JournalStore \cup {None} /\ faults' \in 0..MaxFaults
  <2>1. ASSUME NEW s \in Scans, NEW st \in Stages, NEW n \in 0..Cardinality(Units),
               LoadForScan(s, st, n)
        PROVE  store' \in JournalStore /\ faults' = faults
    BY <2>1, LoadTypes DEF LoadForScan
  <2>2. ASSUME NEW s \in Scans, NEW st \in Stages, NEW n \in 0..Cardinality(Units),
               LoadManifestFails(s, st, n)
        PROVE  store' = store /\ faults' \in 0..MaxFaults
    BY <1>3, <2>2 DEF LoadManifestFails
  <2>3. CASE LoadUnreadable \/ Close \/ Crash
    BY <1>3, <2>3 DEF LoadUnreadable, Close, Crash
  <2>4. ASSUME NEW u \in Units, NEW c \in Costs \cup {0}, NEW r \in BOOLEAN, Record(u, c, r)
        PROVE  store' \in JournalStore /\ faults' = faults
    <3>1. Entry("unit", u, c, r) \in JournalEntry
      BY <1>3, <2>4, EntryTyped DEF Kinds, Record
    <3> QED
      BY <1>3, <2>4, <3>1, RecordTypes DEF Record
  <2>5. ASSUME NEW c \in Costs, RecordUsage(c)
        PROVE  store' \in JournalStore /\ faults' = faults
    BY <1>3, <2>5 DEF RecordUsage, JournalStore
  <2>6. ASSUME NEW u \in Units, RecordCrossScanReuse(u)
        PROVE  store' = store /\ faults' = faults
    BY <2>6 DEF RecordCrossScanReuse
  <2>7. ASSUME NEW e, RecordFails(e)
        PROVE  store' = store /\ faults' \in 0..MaxFaults
    BY <1>3, <2>7 DEF RecordFails, AppendFails
  <2>8. CASE UNCHANGED jvars
    BY <1>3, <2>8 DEF jvars
  <2> QED
    BY <1>3, <2>1, <2>2, <2>3, <2>4, <2>5, <2>6, <2>7, <2>8 DEF JNext
<1> QED
  BY <1>2, <1>4 DEF JTypeOK

(***************************************************************************)
(* Every variable of the journal has its type.                             *)
(***************************************************************************)
THEOREM JournalTypes == JournalSpec => []JTypeOK
<1>1. JInit => JTypeOK
  <2>1. DOMAIN << >> = {} /\ 0 \in 0..MaxFaults
    BY JournalAssumption
  <2> QED
    BY <2>1 DEF JInit, JTypeOK
<1>2. JInv /\ JTypeOK /\ [JNext]_jvars => JTypeOK'
  BY NextTypes
<1> QED
  BY <1>1, <1>2, JournalInvariant, PTL DEF JournalSpec

(***************************************************************************)
(* As long as no append has failed, the spend the budget is charged with   *)
(* is the one a restart would add up from the file.                        *)
(***************************************************************************)
THEOREM JournalSpendMirrorsFile == JournalSpec => []SpendMirrorsFile
<1>1. JInit => SpendMirrorsFile
  BY DEF JInit, SpendMirrorsFile
<1>2. JInv /\ JTypeOK /\ SpendMirrorsFile /\ [JNext]_jvars => SpendMirrorsFile'
  BY NextSpend
<1> QED
  BY <1>1, <1>2, JournalInvariant, JournalTypes, PTL DEF JournalSpec
=============================================================================
