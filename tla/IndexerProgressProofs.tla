------------------------ MODULE IndexerProgressProofs ------------------------
(***************************************************************************)
(* What holds of the progress store for every plan, every choice of phase  *)
(* boundaries, any number of inputs and crashes.                           *)
(*                                                                         *)
(* IInv is the inductive invariant.  Its heart is UnitsDurable: as long as *)
(* no assembly covers the whole plan every committed unit still has its    *)
(* checkpoint.  The other parts are what the steps need to keep it: what   *)
(* the files say, which units were committed, and what the process has in  *)
(* memory at every point of the run.                                       *)
(***************************************************************************)
EXTENDS IndexerProgress, SequenceTheorems, FiniteSetTheorems, TLAPS

\* The types of the files and of the process, the two halves of TypeOK.
FilesTyped ==
  /\ scope \in Worlds \cup {None}
  /\ unit \in [Units -> Worlds \cup {None}]
  /\ DOMAIN payload = Units
  /\ \A n \in Units : payload[n] = None \/ payload[n] \in [1..n -> Worlds]
  /\ DOMAIN manifest = Units
  /\ \A n \in Units :
       \/ manifest[n] = None
       \/ manifest[n] \in [units : [1..n -> Worlds], payload : [1..n -> Worlds]]
  /\ committed \subseteq Units

ProcessTyped ==
  /\ inputs \in Worlds
  /\ temps \subseteq TempFiles
  /\ pc \in Labels
  /\ \E n \in 0..N : merged \in [1..n -> Worlds]
  /\ reason \in Reasons
  /\ crashes \in 0..MaxCrashes

\* n units, all indexed from the inputs the store belongs to.
Indexed(n) == [i \in 1..n |-> scope]

\* Before the scope is committed the store is empty.
ScopeFirst ==
  /\ pc = "writeScope" => scope = None
  /\ scope = None =>
       /\ committed = {}
       /\ merged = << >>
       /\ pc \in {"down", "recover", "open", "writeScope", "refused"}

\* The files say what the indexer produced for the scope of the store.
FilesAgree ==
  /\ \A u \in Units : unit[u] # None => unit[u] = scope
  /\ \A n \in Units : payload[n] # None => payload[n] = Indexed(n)
  /\ \A n \in Assemblies :
       /\ manifest[n] = [units |-> Indexed(n), payload |-> Indexed(n)]
       /\ payload[n] # None

\* The committed units are a prefix of the plan, and no file is about others.
CommittedPrefix ==
  /\ \E k \in 0..N : committed = 1..k
  /\ \A u \in Units : unit[u] # None => u \in committed
  /\ \A n \in Units : payload[n] # None => n \in committed

\* There is a last assembly, unless there is none.
HasLast == Assemblies = {} \/ \E n \in Assemblies : \A m \in Assemblies : m <= n

\* Until an assembly covers the whole plan no committed unit loses its file.
UnitsDurable == N \notin Assemblies => \A u \in committed : unit[u] # None

\* What is in memory, at every point of the run.
InMemory ==
  /\ merged = Indexed(Len(merged))
  /\ Len(merged) \in committed \cup {0}
  /\ pc \in {"load", "loadUnits", "run", "writeUnit", "publish", "writePayload",
             "writeManifest", "pruneAssemblies", "pruneUnits", "done"}
       => scope = inputs
  /\ pc = "recoverUnits" => N \in Assemblies
  /\ pc \in {"loadUnits", "pruneUnits"} => N \in Assemblies
  /\ pc \in {"loadUnits", "pruneUnits", "done"} => Len(merged) = N
  /\ pc \in {"run", "writeUnit"} =>
       /\ Len(merged) < N
       /\ N \notin Assemblies
       /\ \A n \in Assemblies : n <= Len(merged)
  /\ pc = "writeUnit" => unit[Len(merged) + 1] = None
  /\ pc \in {"publish", "writePayload", "writeManifest"} =>
       /\ Len(merged) \in Units
       /\ \A n \in Assemblies : n < Len(merged)
  /\ pc = "writeManifest" => payload[Len(merged)] = merged
  /\ pc = "pruneAssemblies" =>
       /\ Len(merged) \in Assemblies
       /\ \A n \in Assemblies : n <= Len(merged)

FilesInv ==
  FilesTyped /\ FilesAgree /\ CommittedPrefix /\ HasLast /\ UnitsDurable

ProcessInv == ProcessTyped /\ ScopeFirst /\ InMemory

\* The inductive invariant.
IInv == FilesInv /\ ProcessInv

-----------------------------------------------------------------------------
(* Facts about the data.                                                   *)

(* A prefix is a sequence of its length, and no absent file. *)
LEMMA PrefixFacts ==
  ASSUME NEW n \in 0..N, NEW s \in [1..n -> Worlds]
  PROVE  s \in Seq(Worlds) /\ Len(s) = n /\ s # None
<1>1. n \in Nat
  BY NAssumption
<1>2. s \in Seq(Worlds)
  BY <1>1, SeqDef
<1>3. DOMAIN s = 1..n /\ DOMAIN s = 1..Len(s) /\ Len(s) \in Nat
  BY <1>2, LenProperties
<1>4. Len(s) = n
  BY <1>1, <1>3, SMT
<1>5. s \in Prefixes
  BY DEF Prefixes
<1> QED
  BY <1>2, <1>4, <1>5, NoneAssumption

(* What is in memory is a sequence of inputs no longer than the plan. *)
LEMMA MergedFacts ==
  ASSUME TypeOK
  PROVE  /\ merged \in Seq(Worlds) /\ Len(merged) \in 0..N
         /\ merged \in [1..Len(merged) -> Worlds] /\ merged # None
<1>1. PICK n \in 0..N : merged \in [1..n -> Worlds]
  BY DEF TypeOK
<1> QED
  BY <1>1, PrefixFacts

(* A manifest is no absent file. *)
LEMMA ManifestFacts ==
  ASSUME NEW n \in 0..N, NEW s \in [1..n -> Worlds], NEW t \in [1..n -> Worlds]
  PROVE  [units |-> s, payload |-> t] # None
<1>1. s \in Prefixes /\ t \in Prefixes
  BY DEF Prefixes
<1>2. [units |-> s, payload |-> t] \in Manifests
  BY <1>1 DEF Manifests
<1> QED
  BY <1>2, NoneAssumption

(* One more unit of the scope's inputs. *)
LEMMA IndexedAppend ==
  ASSUME scope \in Worlds, NEW n \in Nat
  PROVE  /\ Append(Indexed(n), scope) = Indexed(n + 1)
         /\ Indexed(n) \in [1..n -> Worlds]
<1>1. Indexed(n) \in Seq(Worlds) /\ Indexed(n + 1) \in Seq(Worlds)
  BY IsASeq DEF Indexed
<1>2. Len(Indexed(n)) = n /\ Len(Indexed(n + 1)) = n + 1
  <2>1. \A m \in Nat : Indexed(m) \in Seq(Worlds) => Len(Indexed(m)) = m
    BY LenProperties DEF Indexed
  <2> QED
    BY <1>1, <2>1
<1>3. /\ Append(Indexed(n), scope) \in Seq(Worlds)
      /\ Len(Append(Indexed(n), scope)) = n + 1
      /\ \A i \in 1..(n + 1) : Append(Indexed(n), scope)[i] = scope
  BY <1>1, <1>2 DEF Indexed
<1>4. \A i \in 1..(n + 1) : Indexed(n + 1)[i] = scope
  BY DEF Indexed
<1> QED
  BY <1>1, <1>2, <1>3, <1>4, SeqEqual DEF Indexed

(* The last assembly is the one no assembly is beyond. *)
LEMMA LastInIs ==
  ASSUME NEW A \in SUBSET Units, NEW t \in A, \A m \in A : m <= t
  PROVE  LastIn(A) = t
<1> DEFINE l == CHOOSE n \in A : \A m \in A : m <= n
<1>1. l \in A /\ \A m \in A : m <= l
  OBVIOUS
<1> HIDE DEF l
<1>2. l <= t /\ t <= l
  BY <1>1
<1>3. l \in Int /\ t \in Int
  BY <1>1, NAssumption DEF Units
<1>4. l = t
  BY <1>2, <1>3
<1> QED
  BY <1>4 DEF LastIn, l

(* It covers at most the plan, and is an assembly unless there is none. *)
LEMMA LatestFacts ==
  ASSUME HasLast
  PROVE  /\ Latest \in 0..N
         /\ Latest = 0 <=> Assemblies = {}
         /\ Latest # 0 => Latest \in Assemblies
         /\ \A m \in Assemblies : m <= Latest
         /\ Latest = N <=> N \in Assemblies
<1>1. Assemblies \subseteq Units
  BY DEF Assemblies
<1>2. CASE Assemblies = {}
  BY <1>2, NAssumption DEF Latest, LastIn
<1>3. CASE Assemblies # {}
  <2>1. PICK t \in Assemblies : \A m \in Assemblies : m <= t
    BY <1>3 DEF HasLast
  <2>2. Latest = t
    BY <1>1, <2>1, LastInIs DEF Latest
  <2> QED
    BY <1>1, <2>1, <2>2, NAssumption, SMT DEF Units
<1> QED
  BY <1>2, <1>3

-----------------------------------------------------------------------------
(* The invariant is inductive.                                             *)

(* The two halves together type every variable. *)
LEMMA Typed == FilesTyped /\ ProcessTyped <=> TypeOK
  BY DEF TypeOK, FilesTyped, ProcessTyped

(* A step that leaves the files alone keeps what is said of them. *)
LEMMA FilesKept ==
  ASSUME FilesInv, UNCHANGED <<scope, unit, payload, manifest, committed>>
  PROVE  FilesInv' /\ Assemblies' = Assemblies
<1>1. Assemblies' = Assemblies
  BY DEF Assemblies
<1>2. FilesTyped' /\ FilesAgree'
  BY <1>1 DEF FilesInv, FilesTyped, FilesAgree, Indexed
<1>3. CommittedPrefix' /\ HasLast' /\ UnitsDurable'
  BY <1>1 DEF FilesInv, CommittedPrefix, HasLast, UnitsDurable
<1> QED
  BY <1>1, <1>2, <1>3 DEF FilesInv

(* An empty memory holds no unit. *)
LEMMA EmptyMemory ==
  << >> = Indexed(0) /\ Len(<< >>) = 0 /\ \E n \in 0..N : << >> \in [1..n -> Worlds]
<1>1. << >> = [i \in 1..0 |-> scope] /\ << >> \in [1..0 -> Worlds] /\ Len(<< >>) = 0
  BY SMT
<1>2. 0 \in 0..N
  BY NAssumption
<1> QED
  BY <1>1, <1>2 DEF Indexed

(* A refusal loses nothing and asks for nothing of the memory. *)
LEMMA RefuseKeeps ==
  ASSUME ProcessInv, NEW why \in Reasons, Refuse(why),
         UNCHANGED <<scope, unit, payload, manifest, temps, committed, inputs, crashes>>
  PROVE  ProcessInv'
<1>1. ProcessTyped'
  BY DEF ProcessInv, ProcessTyped, Refuse, Labels
<1>2. ScopeFirst'
  BY DEF ProcessInv, ScopeFirst, Refuse
<1>3. InMemory'
  BY DEF ProcessInv, InMemory, Refuse, Indexed
<1> QED
  BY <1>1, <1>2, <1>3 DEF ProcessInv

(* The initial state. *)
LEMMA InitIInv == Init => IInv
<1> SUFFICES ASSUME Init PROVE IInv
  OBVIOUS
<1>1. Assemblies = {}
  BY DEF Init, Assemblies
<1>2. TypeOK
  BY EmptyMemory, MaxCrashesAssumption, SMT DEF Init, TypeOK, Labels, Reasons, TempFiles
<1>3. ScopeFirst /\ FilesAgree /\ HasLast /\ UnitsDurable
  BY <1>1 DEF Init, ScopeFirst, FilesAgree, HasLast, UnitsDurable
<1>4. CommittedPrefix
  <2>1. committed = 1..0 /\ 0 \in 0..N
    BY NAssumption DEF Init
  <2> QED
    BY <2>1 DEF Init, CommittedPrefix
<1>5. InMemory
  BY EmptyMemory DEF Init, InMemory
<1> QED
  BY <1>2, <1>3, <1>4, <1>5, Typed DEF IInv, FilesInv, ProcessInv

(* Steps that go from one place to the next and leave the rest. *)
LEMMA GotoKeeps ==
  ASSUME IInv, Start \/ UnitsPruned \/ AssembliesPruned \/ DiscardTemp
  PROVE  IInv'
<1> USE DEF ProcessInv, ProcessTyped, Goto, Labels
<1>1. FilesInv /\ ProcessInv
  BY DEF IInv
<1>2. UNCHANGED <<scope, unit, payload, manifest, committed>>
  BY DEF Start, UnitsPruned, AssembliesPruned, DiscardTemp, disk
<1>3. FilesInv' /\ Assemblies' = Assemblies
  BY <1>1, <1>2, FilesKept
<1>4. CASE Start
  <2>1. ProcessTyped' /\ ScopeFirst'
    BY <1>1, <1>4 DEF Start, ScopeFirst, fixed, disk
  <2>2. InMemory'
    BY <1>1, <1>3, <1>4 DEF Start, InMemory, Indexed, fixed, disk
  <2> QED
    BY <1>3, <2>1, <2>2 DEF IInv
<1>5. CASE UnitsPruned
  <2>1. ProcessTyped' /\ ScopeFirst'
    BY <1>1, <1>5 DEF UnitsPruned, ScopeFirst, fixed, disk
  <2>2. InMemory'
    BY <1>1, <1>3, <1>5 DEF UnitsPruned, InMemory, Indexed, fixed, disk
  <2> QED
    BY <1>3, <2>1, <2>2 DEF IInv
<1>6. CASE AssembliesPruned
  <2>1. ProcessTyped' /\ ScopeFirst'
    BY <1>1, <1>6 DEF AssembliesPruned, ScopeFirst, fixed, disk
  <2>2. Len(merged) \in 0..N
    BY Typed, MergedFacts DEF IInv, FilesInv
  <2>3. Len(merged) # N /\ pc = "pruneAssemblies" => Len(merged) < N /\ N \notin Assemblies
    BY <1>1, <2>2, NAssumption DEF InMemory
  <2>4. InMemory'
    BY <1>1, <1>3, <1>6, <2>3 DEF AssembliesPruned, InMemory, Indexed, fixed, disk
  <2> QED
    BY <1>3, <2>1, <2>4 DEF IInv
<1>7. CASE DiscardTemp
  <2>1. ProcessTyped' /\ ScopeFirst'
    BY <1>1, <1>7 DEF DiscardTemp, ScopeFirst, fixed
  <2>2. InMemory'
    BY <1>1, <1>3, <1>7 DEF DiscardTemp, InMemory, Indexed, fixed
  <2> QED
    BY <1>3, <2>1, <2>2 DEF IInv
<1> QED
  BY <1>4, <1>5, <1>6, <1>7

(* Steps that look at the files and go on, or refuse. *)
LEMMA CheckKeeps ==
  ASSUME IInv, Recover \/ CountDurable \/ Open \/ PublishAssembly
  PROVE  IInv'
<1>1. FilesInv /\ ProcessInv
  BY DEF IInv
<1>2. UNCHANGED <<scope, unit, payload, manifest, temps, committed, inputs, crashes>>
  BY DEF Recover, CountDurable, Open, PublishAssembly, disk, fixed
<1>3. FilesInv' /\ Assemblies' = Assemblies
  BY <1>1, <1>2, FilesKept
<1>4. ASSUME NEW why \in Reasons, Refuse(why)
      PROVE  IInv'
  BY <1>1, <1>2, <1>3, <1>4, RefuseKeeps DEF IInv
<1>5. {"unscoped", "assembly", "gap", "evidence", "scope", "exists", "missing"} \subseteq Reasons
  BY DEF Reasons
<1>6. ASSUME NEW l \in Labels, Goto(l), ScopeFirst', InMemory'
      PROVE  IInv'
  <2>1. ProcessTyped'
    BY <1>1, <1>2, <1>6 DEF ProcessInv, ProcessTyped, Goto
  <2> QED
    BY <1>3, <1>6, <2>1 DEF IInv, ProcessInv
<1>7. CASE Recover
  <2>1. CASE Goto("open") /\ pc = "recover"
    <3>1. ScopeFirst' /\ InMemory'
      BY <1>1, <1>2, <1>3, <2>1 DEF ProcessInv, ScopeFirst, InMemory, Indexed, Goto
    <3> QED
      BY <1>6, <2>1, <3>1 DEF Labels
  <2>2. CASE /\ scope # None /\ pc = "recover"
             /\ Goto(IF Latest = N THEN "recoverUnits" ELSE "recoverAssemblies")
    <3>1. Latest = N <=> N \in Assemblies
      BY <1>1, LatestFacts DEF FilesInv
    <3>2. ScopeFirst' /\ InMemory'
      BY <1>1, <1>2, <1>3, <2>2, <3>1 DEF ProcessInv, ScopeFirst, InMemory, Indexed, Goto
    <3> QED
      BY <1>6, <2>2, <3>2 DEF Labels
  <2> QED
    BY <1>4, <1>5, <1>7, <2>1, <2>2 DEF Recover
<1>8. CASE CountDurable
  <2>1. CASE Goto("open") /\ pc = "recoverCount"
    <3>1. ScopeFirst' /\ InMemory'
      BY <1>1, <1>2, <1>3, <2>1 DEF ProcessInv, ScopeFirst, InMemory, Indexed, Goto
    <3> QED
      BY <1>6, <2>1, <3>1 DEF Labels
  <2> QED
    BY <1>4, <1>5, <1>8, <2>1 DEF CountDurable
<1>9. CASE Open
  <2>1. CASE Goto("load") /\ pc = "open" /\ scope # None /\ scope = inputs
    <3>1. ScopeFirst' /\ InMemory'
      BY <1>1, <1>2, <1>3, <2>1 DEF ProcessInv, ScopeFirst, InMemory, Indexed, Goto
    <3> QED
      BY <1>6, <2>1, <3>1 DEF Labels
  <2>2. CASE Goto("writeScope") /\ pc = "open" /\ scope = None
    <3>1. ScopeFirst' /\ InMemory'
      BY <1>1, <1>2, <1>3, <2>2 DEF ProcessInv, ScopeFirst, InMemory, Indexed, Goto
    <3> QED
      BY <1>6, <2>2, <3>1 DEF Labels
  <2> QED
    BY <1>4, <1>5, <1>9, <2>1, <2>2 DEF Open
<1>10. CASE PublishAssembly
  <2>1. CASE Goto("writePayload") /\ pc = "publish"
    <3>1. ScopeFirst' /\ InMemory'
      BY <1>1, <1>2, <1>3, <2>1 DEF ProcessInv, ScopeFirst, InMemory, Indexed, Goto
    <3> QED
      BY <1>6, <2>1, <3>1 DEF Labels
  <2> QED
    BY <1>4, <1>5, <1>10, <2>1 DEF PublishAssembly
<1> QED
  BY <1>7, <1>8, <1>9, <1>10

(* The world around the process: it stops, it is run again, inputs change. *)
LEMMA WorldKeeps ==
  ASSUME IInv, Stop \/ Rerun \/ Edit
  PROVE  IInv'
<1> USE DEF ProcessInv, ProcessTyped, Labels
<1>1. FilesInv /\ ProcessInv
  BY DEF IInv
<1>2. UNCHANGED <<scope, unit, payload, manifest, committed>>
  BY DEF Stop, Rerun, Edit, disk
<1>3. FilesInv' /\ Assemblies' = Assemblies
  BY <1>1, <1>2, FilesKept
<1>4. CASE Stop
  <2>1. /\ pc' = "down" /\ merged' = << >> /\ crashes' \in 0..MaxCrashes
        /\ reason' = reason /\ inputs' = inputs
    BY <1>1, <1>4, MaxCrashesAssumption DEF Stop
  <2>2. InFlight \subseteq TempFiles
    <3>1. Len(merged) \in 0..N
      BY <1>1, Typed, MergedFacts DEF FilesInv
    <3>2. pc = "writeUnit" => Len(merged) + 1 \in Units
      BY <1>1, <3>1, NAssumption DEF InMemory, Units
    <3>3. pc \in {"writePayload", "writeManifest"} => Len(merged) \in Units
      BY <1>1 DEF InMemory
    <3> QED
      BY <3>2, <3>3 DEF InFlight, TempFiles, UnitTmps, AssemblyTmps, ScopeTmp, UnitTmp,
                        PayloadTmp, ManifestTmp
  <2>3. temps' \subseteq TempFiles
    BY <1>1, <1>4, <2>2 DEF Stop
  <2>4. ProcessTyped' /\ ScopeFirst'
    BY <1>1, <1>2, <2>1, <2>3, EmptyMemory DEF ScopeFirst
  <2>5. InMemory'
    BY <1>2, <2>1, EmptyMemory DEF InMemory, Indexed
  <2> QED
    BY <1>3, <2>4, <2>5 DEF IInv
<1>5. CASE Rerun
  <2>1. ProcessTyped' /\ ScopeFirst'
    BY <1>1, <1>5, EmptyMemory DEF Rerun, ScopeFirst, disk, fixed, Reasons
  <2>2. InMemory'
    BY <1>2, <1>5, EmptyMemory DEF Rerun, InMemory, Indexed
  <2> QED
    BY <1>3, <2>1, <2>2 DEF IInv
<1>6. CASE Edit
  <2>1. ProcessTyped' /\ ScopeFirst'
    BY <1>1, <1>6 DEF Edit, ScopeFirst, disk
  <2>2. InMemory'
    BY <1>1, <1>3, <1>6 DEF Edit, InMemory, Indexed, disk
  <2> QED
    BY <1>3, <2>1, <2>2 DEF IInv
<1> QED
  BY <1>4, <1>5, <1>6

(* The first write of the store. *)
LEMMA WriteScopeKeeps ==
  ASSUME IInv, WriteScope
  PROVE  IInv'
<1>1. FilesInv /\ ProcessInv
  BY DEF IInv
<1>2. /\ pc' = "load" /\ scope' = inputs /\ inputs \in Worlds
      /\ UNCHANGED <<unit, payload, manifest, temps, committed, inputs, crashes, reason, merged>>
  BY <1>1 DEF WriteScope, Goto, fixed, ProcessInv, ProcessTyped
<1>3. Assemblies' = Assemblies
  BY <1>2 DEF Assemblies
<1>4. scope = None
  BY <1>1 DEF WriteScope, ProcessInv, ScopeFirst
<1>5. committed = {} /\ merged = << >>
  BY <1>1, <1>4 DEF ProcessInv, ScopeFirst
<1>6. /\ \A u \in Units : unit[u] = None
      /\ \A n \in Units : payload[n] = None
      /\ Assemblies = {}
  BY <1>1, <1>5 DEF FilesInv, CommittedPrefix, FilesAgree, Assemblies
<1>7. FilesTyped' /\ FilesAgree'
  BY <1>1, <1>2, <1>3, <1>6 DEF FilesInv, FilesTyped, FilesAgree
<1>8. CommittedPrefix' /\ HasLast' /\ UnitsDurable'
  BY <1>1, <1>2, <1>3 DEF FilesInv, CommittedPrefix, HasLast, UnitsDurable
<1>9. ProcessTyped' /\ ScopeFirst'
  BY <1>1, <1>2, NoneAssumption DEF ProcessInv, ProcessTyped, ScopeFirst, Labels
<1>10. merged' = [i \in 1..Len(merged)' |-> scope']
  BY <1>2, <1>5, SMT
<1>11. InMemory'
  BY <1>1, <1>2, <1>5, <1>10, EmptyMemory DEF InMemory, Indexed
<1> QED
  BY <1>7, <1>8, <1>9, <1>11 DEF IInv, FilesInv, ProcessInv

(* Resuming from the last assembly, or starting over. *)
LEMMA LoadKeeps ==
  ASSUME IInv, Load
  PROVE  IInv'
<1>1. FilesInv /\ ProcessInv
  BY DEF IInv
<1>2. UNCHANGED <<scope, unit, payload, manifest, temps, committed, inputs, crashes>>
  BY DEF Load, disk, fixed
<1>3. FilesInv' /\ Assemblies' = Assemblies
  BY <1>1, <1>2, FilesKept
<1>4. CASE ~AssembliesValid
  <2>1. Refuse("assembly") /\ "assembly" \in Reasons
    BY <1>4 DEF Load, Reasons
  <2> QED
    BY <1>1, <1>2, <1>3, <2>1, RefuseKeeps DEF IInv
<1>5. CASE AssembliesValid
  <2>1. /\ Latest \in 0..N
        /\ Latest # 0 => Latest \in Assemblies
        /\ \A m \in Assemblies : m <= Latest
        /\ Latest = N <=> N \in Assemblies
    BY <1>1, LatestFacts DEF FilesInv
  <2>2. pc = "load" /\ scope = inputs /\ scope \in Worlds /\ scope # None
    BY <1>1, NoneAssumption DEF Load, ProcessInv, ProcessTyped, InMemory
  <2>3. merged' = (IF Latest = 0 THEN << >> ELSE payload[Latest])
    BY <1>5 DEF Load
  <2>4. merged' = Indexed(Latest)
    BY <1>1, <2>1, <2>3, EmptyMemory DEF FilesInv, FilesAgree, Assemblies
  <2>5. Indexed(Latest) \in [1..Latest -> Worlds]
    <3>1. Latest \in Nat
      BY <2>1, NAssumption
    <3> QED
      BY <2>2, <3>1, IndexedAppend
  <2>6. Len(merged') = Latest
    BY <2>1, <2>4, <2>5, PrefixFacts
  <2>7. Latest \in committed \cup {0}
    BY <1>1, <2>1 DEF FilesInv, FilesAgree, CommittedPrefix, Assemblies
  <2>8. pc' = (IF Latest = N THEN "loadUnits" ELSE "run") /\ reason' = reason
    BY <1>5 DEF Load
  <2>9. ProcessTyped'
    BY <1>1, <1>2, <2>1, <2>4, <2>5, <2>8 DEF ProcessInv, ProcessTyped, Labels
  <2>10. ScopeFirst'
    BY <1>2, <2>2, <2>8 DEF ScopeFirst
  <2>11. Latest # N => Latest < N
    BY <2>1, NAssumption
  <2> HIDE DEF Latest
  <2>12. InMemory'
    BY <1>2, <1>3, <2>1, <2>2, <2>4, <2>6, <2>7, <2>8, <2>11 DEF InMemory, Indexed
  <2> QED
    BY <1>3, <2>9, <2>10, <2>12 DEF IInv, ProcessInv
<1> QED
  BY <1>4, <1>5

(* What a merged unit adds to the memory. *)
LEMMA MergeFacts ==
  ASSUME IInv, pc \in {"run", "writeUnit"}, Merge(scope)
  PROVE  /\ scope = inputs /\ scope \in Worlds
         /\ Len(merged) \in 0..N /\ Len(merged) + 1 \in Units
         /\ merged' = Indexed(Len(merged) + 1)
         /\ merged' \in [1..(Len(merged) + 1) -> Worlds]
         /\ Len(merged') = Len(merged) + 1
         /\ pc' \in {"run", "publish"}
         /\ pc' = "run" => Len(merged) + 1 < N
<1>1. FilesInv /\ ProcessInv /\ TypeOK
  BY Typed DEF IInv, FilesInv, ProcessInv
<1>2. scope = inputs /\ scope \in Worlds /\ Len(merged) < N
  BY <1>1 DEF ProcessInv, ProcessTyped, InMemory
<1>3. Len(merged) \in 0..N /\ Len(merged) \in Nat /\ merged = Indexed(Len(merged))
  BY <1>1, MergedFacts, NAssumption DEF ProcessInv, InMemory
<1>4. Len(merged) + 1 \in Units /\ Len(merged) + 1 \in Nat /\ Len(merged) + 1 \in 0..N
  BY <1>2, <1>3, NAssumption DEF Units
<1>5. merged' = Indexed(Len(merged) + 1)
  BY <1>2, <1>3, IndexedAppend DEF Merge
<1>6. Indexed(Len(merged) + 1) \in [1..(Len(merged) + 1) -> Worlds]
  BY <1>2, <1>4, IndexedAppend
<1>7. Len(merged') = Len(merged) + 1
  BY <1>4, <1>5, <1>6, PrefixFacts
<1>8. pc' \in {"run", "publish"} /\ (pc' = "run" => Len(merged) + 1 # N)
  BY BoundariesAssumption DEF Merge
<1> QED
  BY <1>2, <1>3, <1>4, <1>5, <1>6, <1>7, <1>8, NAssumption DEF Units

(* A checkpoint of an earlier run, or the indexer's turn. *)
LEMMA LoadUnitKeeps ==
  ASSUME IInv, LoadUnit
  PROVE  IInv'
<1> DEFINE u == Len(merged) + 1
<1>1. FilesInv /\ ProcessInv
  BY DEF IInv
<1>2. /\ pc = "run"
      /\ UNCHANGED <<scope, unit, payload, manifest, temps, committed, inputs, crashes>>
  BY DEF LoadUnit, disk, fixed
<1>3. FilesInv' /\ Assemblies' = Assemblies
  BY <1>1, <1>2, FilesKept
<1>4. CASE unit[u] = None
  <2>1. Goto("writeUnit")
    <3>1. unit[u] # scope
      BY <1>1, <1>2, <1>4, NoneAssumption DEF ProcessInv, ProcessTyped, InMemory
    <3> QED
      BY <1>4, <3>1 DEF LoadUnit
  <2>2. ProcessTyped' /\ ScopeFirst'
    BY <1>1, <1>2, <2>1 DEF ProcessInv, ProcessTyped, ScopeFirst, Goto, Labels
  <2>3. InMemory'
    BY <1>1, <1>2, <1>3, <1>4, <2>1 DEF ProcessInv, InMemory, Indexed, Goto
  <2> QED
    BY <1>3, <2>2, <2>3 DEF IInv, ProcessInv
<1>5. CASE unit[u] # None /\ unit[u] = scope
  <2>1. Merge(scope) /\ reason' = reason
    BY <1>5 DEF LoadUnit
  <2> HIDE DEF u
  <2>2. /\ scope = inputs /\ scope \in Worlds
        /\ Len(merged) \in 0..N /\ u \in Units
        /\ merged' = Indexed(u)
        /\ merged' \in [1..u -> Worlds]
        /\ Len(merged') = u
        /\ pc' \in {"run", "publish"}
        /\ pc' = "run" => u < N
    BY <1>2, <2>1, MergeFacts DEF u
  <2>3. u \in committed
    BY <1>1, <1>5, <2>2 DEF FilesInv, CommittedPrefix
  <2>4. N \notin Assemblies /\ \A n \in Assemblies : n < u
    <3>1. N \notin Assemblies /\ \A n \in Assemblies : n <= Len(merged)
      BY <1>1, <1>2 DEF ProcessInv, InMemory
    <3> QED
      BY <3>1, <2>2, NAssumption DEF u, Assemblies, Units
  <2>5. u \in 0..N
    BY <2>2, NAssumption DEF Units
  <2>6. ProcessTyped'
    BY <1>1, <1>2, <2>1, <2>2, <2>5 DEF ProcessInv, ProcessTyped, Labels
  <2>7. ScopeFirst'
    BY <1>2, <2>2, NoneAssumption DEF ScopeFirst
  <2>8. \A n \in Assemblies : n <= u
    BY <2>2, <2>4, NAssumption DEF Assemblies, Units
  <2>9. InMemory'
    BY <1>2, <1>3, <2>2, <2>3, <2>4, <2>8 DEF InMemory, Indexed
  <2> QED
    BY <1>3, <2>6, <2>7, <2>9 DEF IInv, ProcessInv
<1>6. CASE unit[u] # None /\ unit[u] # scope
  <2>1. Refuse("evidence") /\ "evidence" \in Reasons
    BY <1>6 DEF LoadUnit, Reasons
  <2> QED
    BY <1>1, <1>2, <1>3, <2>1, RefuseKeeps DEF IInv
<1> QED
  BY <1>4, <1>5, <1>6

(* A payload that no manifest commits is not missed. *)
LEMMA DropOrphanKeeps ==
  ASSUME IInv, DropOrphan
  PROVE  IInv'
<1>1. FilesInv /\ ProcessInv
  BY DEF IInv
<1>2. PICK n \in Orphans : payload' = [payload EXCEPT ![n] = None]
  BY DEF DropOrphan
<1>3. /\ pc \in {"recover", "load", "publish"}
      /\ UNCHANGED <<scope, unit, manifest, temps, pc, merged, reason, committed, inputs, crashes>>
  BY DEF DropOrphan, SweepsOrphans, fixed
<1>4. n \in Units /\ n \notin Assemblies /\ Assemblies' = Assemblies
  BY <1>3 DEF Orphans, Assemblies
<1>5. /\ DOMAIN payload' = Units
      /\ \A m \in Units : payload'[m] = IF m = n THEN None ELSE payload[m]
  BY <1>1, <1>2, <1>4 DEF FilesInv, FilesTyped
<1>6. FilesTyped' /\ FilesAgree'
  BY <1>1, <1>3, <1>4, <1>5 DEF FilesInv, FilesTyped, FilesAgree, Indexed, Assemblies
<1>7. CommittedPrefix' /\ HasLast' /\ UnitsDurable'
  BY <1>1, <1>3, <1>4, <1>5 DEF FilesInv, CommittedPrefix, HasLast, UnitsDurable
<1>8. ProcessTyped' /\ ScopeFirst'
  BY <1>1, <1>3 DEF ProcessInv, ProcessTyped, ScopeFirst
<1>9. InMemory'
  BY <1>1, <1>3, <1>4 DEF ProcessInv, InMemory, Indexed
<1> QED
  BY <1>6, <1>7, <1>8, <1>9 DEF IInv, FilesInv, ProcessInv

(* Unit checkpoints go once an assembly covers the whole plan. *)
LEMMA PruneUnitKeeps ==
  ASSUME IInv, PruneUnit
  PROVE  IInv'
<1>1. FilesInv /\ ProcessInv
  BY DEF IInv
<1>2. PICK u \in Units : unit' = [unit EXCEPT ![u] = None]
  BY DEF PruneUnit
<1>3. /\ pc \in {"recoverUnits", "loadUnits", "pruneUnits"}
      /\ UNCHANGED <<scope, payload, manifest, temps, pc, merged, reason, committed, inputs, crashes>>
  BY DEF PruneUnit, fixed
<1>4. N \in Assemblies /\ Assemblies' = Assemblies
  BY <1>1, <1>3 DEF ProcessInv, InMemory, Assemblies
<1>5. /\ unit' \in [Units -> Worlds \cup {None}]
      /\ \A v \in Units : unit'[v] = IF v = u THEN None ELSE unit[v]
  BY <1>1, <1>2 DEF FilesInv, FilesTyped
<1>6. FilesTyped' /\ FilesAgree'
  BY <1>1, <1>3, <1>4, <1>5 DEF FilesInv, FilesTyped, FilesAgree, Indexed
<1>7. CommittedPrefix' /\ HasLast' /\ UnitsDurable'
  BY <1>1, <1>3, <1>4, <1>5 DEF FilesInv, CommittedPrefix, HasLast, UnitsDurable
<1>8. ProcessTyped' /\ ScopeFirst'
  BY <1>1, <1>3 DEF ProcessInv, ProcessTyped, ScopeFirst
<1>9. InMemory'
  BY <1>1, <1>3, <1>4 DEF ProcessInv, InMemory, Indexed
<1> QED
  BY <1>6, <1>7, <1>8, <1>9 DEF IInv, FilesInv, ProcessInv

(* Only assemblies before the last one are superseded. *)
LEMMA PruneAssemblyKeeps ==
  ASSUME IInv, PruneAssembly
  PROVE  IInv'
<1>1. FilesInv /\ ProcessInv
  BY DEF IInv
<1>2. PICK n \in Superseded : PruneNext(n)
  BY DEF PruneAssembly
<1>3. /\ pc \in {"recoverAssemblies", "pruneAssemblies"}
      /\ UNCHANGED <<scope, unit, temps, pc, merged, reason, committed, inputs, crashes>>
  BY DEF PruneAssembly, fixed
<1>4. n \in 1..(Keep - 1)
  BY DEF Superseded
<1>5. PICK last \in Units : n < last /\ last \in Assemblies /\ \A m \in Assemblies : m <= last
  <2>1. CASE pc = "pruneAssemblies"
    BY <1>1, <1>4, <2>1, NAssumption DEF ProcessInv, InMemory, Keep, Assemblies, Units
  <2>2. CASE pc = "recoverAssemblies"
    <3>1. Keep = Latest /\ Latest \in 0..N
      BY <1>1, <2>2, LatestFacts DEF Keep, FilesInv
    <3>2. Latest # 0 /\ n < Latest
      BY <1>4, <3>1, NAssumption
    <3> QED
      BY <1>1, <3>2, LatestFacts DEF FilesInv, Assemblies
  <2> QED
    BY <1>3, <2>1, <2>2
<1>6. n \in Units /\ n # N
  BY <1>4, <1>5, NAssumption DEF Units
<1>7. CASE manifest[n] # None
  <2>1. manifest' = [manifest EXCEPT ![n] = None] /\ payload' = payload
    BY <1>2, <1>7 DEF PruneNext
  <2>2. /\ DOMAIN manifest' = Units
        /\ \A m \in Units : manifest'[m] = IF m = n THEN None ELSE manifest[m]
    BY <1>1, <1>6, <2>1 DEF FilesInv, FilesTyped
  <2>3. Assemblies' = Assemblies \ {n}
    BY <2>2 DEF Assemblies
  <2>4. FilesTyped' /\ FilesAgree'
    <3>1. FilesTyped'
      BY <1>1, <1>3, <2>1, <2>2 DEF FilesInv, FilesTyped
    <3>2. \A m \in Units : Indexed(m)' = Indexed(m)
      BY <1>3 DEF Indexed
    <3>3. FilesAgree'
      BY <1>1, <1>3, <2>1, <2>2, <2>3, <3>2 DEF FilesInv, FilesAgree, Assemblies
    <3> QED
      BY <3>1, <3>3
  <2>5. HasLast'
    BY <1>5, <1>4, <2>3, NAssumption DEF HasLast, Units
  <2>6. CommittedPrefix' /\ UnitsDurable'
    BY <1>1, <1>3, <1>6, <2>1, <2>3 DEF FilesInv, CommittedPrefix, UnitsDurable
  <2>7. ProcessTyped' /\ ScopeFirst'
    BY <1>1, <1>3 DEF ProcessInv, ProcessTyped, ScopeFirst
  <2>8. pc = "pruneAssemblies" => Len(merged) # n
    <3>1. SUFFICES ASSUME pc = "pruneAssemblies" PROVE Len(merged) # n
      OBVIOUS
    <3>2. Len(merged) \in Units /\ n \in 1..(Len(merged) - 1)
      BY <1>1, <1>4, <3>1 DEF ProcessInv, InMemory, Keep, Assemblies
    <3> QED
      BY <3>2, NAssumption DEF Units
  <2>9. InMemory'
    BY <1>1, <1>3, <2>3, <2>8 DEF ProcessInv, InMemory, Indexed
  <2> QED
    BY <2>4, <2>5, <2>6, <2>7, <2>9 DEF IInv, FilesInv, ProcessInv
<1>8. CASE manifest[n] = None
  <2>1. payload' = [payload EXCEPT ![n] = None] /\ manifest' = manifest
    BY <1>2, <1>8 DEF PruneNext
  <2>2. /\ DOMAIN payload' = Units
        /\ \A m \in Units : payload'[m] = IF m = n THEN None ELSE payload[m]
    BY <1>1, <1>6, <2>1 DEF FilesInv, FilesTyped
  <2>3. Assemblies' = Assemblies /\ n \notin Assemblies
    BY <1>8, <2>1 DEF Assemblies
  <2>4. FilesTyped' /\ FilesAgree'
    <3>1. FilesTyped'
      BY <1>1, <1>3, <2>1, <2>2 DEF FilesInv, FilesTyped
    <3>2. \A m \in Units : Indexed(m)' = Indexed(m)
      BY <1>3 DEF Indexed
    <3>3. FilesAgree'
      BY <1>1, <1>3, <2>1, <2>2, <2>3, <3>2 DEF FilesInv, FilesAgree, Assemblies
    <3> QED
      BY <3>1, <3>3
  <2>5. CommittedPrefix' /\ HasLast' /\ UnitsDurable'
    BY <1>1, <1>3, <2>2, <2>3 DEF FilesInv, CommittedPrefix, HasLast, UnitsDurable
  <2>6. ProcessTyped' /\ ScopeFirst'
    BY <1>1, <1>3 DEF ProcessInv, ProcessTyped, ScopeFirst
  <2>7. InMemory'
    BY <1>1, <1>3, <2>3 DEF ProcessInv, InMemory, Indexed
  <2> QED
    BY <2>4, <2>5, <2>6, <2>7 DEF IInv, FilesInv, ProcessInv
<1> QED
  BY <1>7, <1>8

(* The indexed unit becomes durable as the next one of the plan. *)
LEMMA CommitUnitKeeps ==
  ASSUME IInv, CommitUnit
  PROVE  /\ IInv'
         /\ pc' # "refused"
         /\ \E k \in 0..N : k + 1 \in Units /\ committed = 1..k /\ committed' = 1..(k + 1)
<1> DEFINE u == Len(merged) + 1
<1>1. FilesInv /\ ProcessInv
  BY DEF IInv
<1>2. /\ pc = "writeUnit" /\ unit[u] = None
      /\ UNCHANGED <<scope, payload, manifest, temps, inputs, crashes>>
  BY <1>1 DEF CommitUnit, fixed, ProcessInv, InMemory
<1>3. /\ unit' = [unit EXCEPT ![u] = inputs] /\ committed' = committed \cup {u}
      /\ Merge(inputs) /\ reason' = reason
  BY <1>2 DEF CommitUnit
<1>4. inputs = scope
  BY <1>1, <1>2 DEF ProcessInv, InMemory
<1> HIDE DEF u
<1>5. /\ scope \in Worlds
      /\ Len(merged) \in 0..N /\ u \in Units
      /\ merged' = Indexed(u)
      /\ merged' \in [1..u -> Worlds]
      /\ Len(merged') = u
      /\ pc' \in {"run", "publish"}
      /\ pc' = "run" => u < N
  BY <1>2, <1>3, <1>4, MergeFacts DEF u
<1>6. N \notin Assemblies /\ \A n \in Assemblies : n <= Len(merged)
  BY <1>1, <1>2 DEF ProcessInv, InMemory
<1>7. Assemblies' = Assemblies
  BY <1>2 DEF Assemblies
<1>8. PICK k \in 0..N : committed = 1..k
  BY <1>1 DEF FilesInv, CommittedPrefix
<1>9. u \notin committed
  BY <1>1, <1>2, <1>6 DEF FilesInv, UnitsDurable
<1>10. Len(merged) \in committed \cup {0}
  BY <1>1 DEF ProcessInv, InMemory
<1>11. k = Len(merged) /\ k + 1 = u /\ committed' = 1..(k + 1)
  BY <1>3, <1>5, <1>8, <1>9, <1>10, NAssumption DEF u, Units
<1>12. /\ unit' \in [Units -> Worlds \cup {None}]
       /\ \A v \in Units : unit'[v] = IF v = u THEN scope ELSE unit[v]
  BY <1>1, <1>3, <1>4, <1>5 DEF FilesInv, FilesTyped
<1>13. FilesTyped' /\ FilesAgree'
  BY <1>1, <1>2, <1>3, <1>5, <1>7, <1>12 DEF FilesInv, FilesTyped, FilesAgree, Indexed
<1>14. CommittedPrefix'
  <2>1. k + 1 \in 0..N
    BY <1>5, <1>11, NAssumption DEF Units
  <2> QED
    BY <1>1, <1>2, <1>3, <1>11, <1>12, <2>1 DEF FilesInv, CommittedPrefix
<1>15. UnitsDurable'
  BY <1>1, <1>3, <1>5, <1>6, <1>7, <1>12, NoneAssumption DEF FilesInv, FilesTyped, UnitsDurable
<1>16. HasLast'
  BY <1>1, <1>7 DEF FilesInv, HasLast
<1>17. u \in 0..N
  BY <1>5, NAssumption DEF Units
<1>18. ProcessTyped'
  BY <1>1, <1>2, <1>3, <1>5, <1>17 DEF ProcessInv, ProcessTyped, Labels
<1>19. ScopeFirst'
  BY <1>2, <1>5, NoneAssumption DEF ScopeFirst
<1>20. \A n \in Assemblies : n < u /\ n <= u
  BY <1>5, <1>6, NAssumption DEF u, Assemblies, Units
<1>21. u \in committed'
  BY <1>3
<1>22. InMemory'
  BY <1>2, <1>4, <1>5, <1>6, <1>7, <1>20, <1>21 DEF InMemory, Indexed
<1> QED
  BY <1>5, <1>8, <1>11, <1>13, <1>14, <1>15, <1>16, <1>18, <1>19, <1>22
     DEF IInv, FilesInv, ProcessInv

(* The payload of an assembly, and the manifest that commits it. *)
LEMMA CommitPayloadKeeps ==
  ASSUME IInv, CommitPayload
  PROVE  IInv'
<1> DEFINE n == Len(merged)
<1>1. FilesInv /\ ProcessInv /\ TypeOK
  BY Typed DEF IInv, FilesInv, ProcessInv
<1>2. /\ pc = "writePayload" /\ pc' = "writeManifest"
      /\ payload' = [payload EXCEPT ![n] = merged]
      /\ UNCHANGED <<scope, unit, manifest, temps, merged, reason, committed, inputs, crashes>>
  BY DEF CommitPayload, Goto, fixed
<1>3. n \in Units /\ merged = Indexed(n) /\ n \in committed \cup {0}
  BY <1>1, <1>2 DEF ProcessInv, InMemory
<1>4. merged \in [1..n -> Worlds] /\ Assemblies' = Assemblies /\ n \in committed
  BY <1>1, <1>2, <1>3, MergedFacts, NAssumption DEF Assemblies, Units
<1> HIDE DEF n
<1>5. /\ DOMAIN payload' = Units
      /\ \A m \in Units : payload'[m] = IF m = n THEN merged ELSE payload[m]
  BY <1>1, <1>2, <1>3 DEF FilesInv, FilesTyped
<1>6. FilesTyped'
  BY <1>1, <1>2, <1>4, <1>5 DEF FilesInv, FilesTyped
<1>7. merged # None
  BY <1>1, MergedFacts
<1>8. FilesAgree'
  <2>1. \A m \in Units : Indexed(m)' = Indexed(m)
    BY <1>2 DEF Indexed
  <2> QED
    BY <1>1, <1>2, <1>3, <1>4, <1>5, <1>7, <2>1 DEF FilesInv, FilesAgree, Assemblies
<1>9. CommittedPrefix' /\ HasLast' /\ UnitsDurable'
  BY <1>1, <1>2, <1>4, <1>5 DEF FilesInv, CommittedPrefix, HasLast, UnitsDurable
<1>10. ProcessTyped' /\ ScopeFirst'
  BY <1>1, <1>2 DEF ProcessInv, ProcessTyped, ScopeFirst, Labels
<1>11. InMemory'
  BY <1>1, <1>2, <1>3, <1>4, <1>5 DEF ProcessInv, InMemory, Indexed, n
<1> QED
  BY <1>6, <1>8, <1>9, <1>10, <1>11 DEF IInv, FilesInv, ProcessInv

LEMMA CommitManifestKeeps ==
  ASSUME IInv, CommitManifest
  PROVE  IInv'
<1> DEFINE n == Len(merged)
           r == [units |-> [u \in 1..n |-> unit[u]], payload |-> merged]
<1>1. FilesInv /\ ProcessInv /\ TypeOK
  BY Typed DEF IInv, FilesInv, ProcessInv
<1>2. /\ pc = "writeManifest" /\ pc' = "pruneAssemblies"
      /\ manifest' = [manifest EXCEPT ![n] = r]
      /\ UNCHANGED <<scope, unit, payload, temps, merged, reason, committed, inputs, crashes>>
  BY DEF CommitManifest, Goto, fixed
<1>3. /\ n \in Units /\ merged = Indexed(n) /\ n \in committed
      /\ payload[n] = merged
      /\ \A m \in Assemblies : m < n
  BY <1>1, <1>2, NAssumption DEF ProcessInv, InMemory, Units
<1>4. merged \in [1..n -> Worlds] /\ merged # None /\ n \in 0..N
  BY <1>1, MergedFacts
<1>5. N \notin Assemblies
  BY <1>3, NAssumption DEF Units, Assemblies
<1>6. \A u \in 1..n : unit[u] = scope
  <2>1. PICK k \in 0..N : committed = 1..k
    BY <1>1 DEF FilesInv, CommittedPrefix
  <2>2. 1..n \subseteq committed
    BY <1>3, <2>1, NAssumption DEF Units
  <2> QED
    BY <1>1, <1>5, <2>2 DEF FilesInv, FilesTyped, FilesAgree, UnitsDurable
<1>7. [u \in 1..n |-> unit[u]] = Indexed(n)
  BY <1>6 DEF Indexed
<1>8. r = [units |-> Indexed(n), payload |-> Indexed(n)]
  BY <1>3, <1>7
<1>9. r \in [units : [1..n -> Worlds], payload : [1..n -> Worlds]]
  BY <1>3, <1>4, <1>8
<1>10. r # None
  BY <1>3, <1>4, <1>8, ManifestFacts
<1> HIDE DEF n, r
<1>11. /\ DOMAIN manifest' = Units
       /\ \A m \in Units : manifest'[m] = IF m = n THEN r ELSE manifest[m]
  BY <1>1, <1>2, <1>3 DEF FilesInv, FilesTyped
<1>12. Assemblies' = Assemblies \cup {n}
  BY <1>3, <1>10, <1>11 DEF Assemblies
<1>13. FilesTyped'
  BY <1>1, <1>2, <1>9, <1>11 DEF FilesInv, FilesTyped
<1>14. FilesAgree'
  BY <1>1, <1>2, <1>3, <1>4, <1>8, <1>11, <1>12 DEF FilesInv, FilesAgree, Indexed, Assemblies
<1>15. CommittedPrefix' /\ UnitsDurable'
  BY <1>1, <1>2, <1>12 DEF FilesInv, CommittedPrefix, UnitsDurable
<1>16. \A m \in Assemblies' : m <= n
  BY <1>3, <1>12, NAssumption DEF Assemblies, Units
<1>17. HasLast'
  BY <1>12, <1>16 DEF HasLast
<1>18. ProcessTyped' /\ ScopeFirst'
  BY <1>1, <1>2 DEF ProcessInv, ProcessTyped, ScopeFirst, Labels
<1>19. InMemory'
  BY <1>1, <1>2, <1>3, <1>12, <1>16 DEF ProcessInv, InMemory, Indexed, n
<1> QED
  BY <1>13, <1>14, <1>15, <1>17, <1>18, <1>19 DEF IInv, FilesInv, ProcessInv

(* Every step of every actor keeps the invariant. *)
LEMMA NextKeeps == IInv /\ [Next]_vars => IInv'
<1> SUFFICES ASSUME IInv, [Next]_vars PROVE IInv'
  OBVIOUS
<1>1. CASE Process
  BY <1>1, GotoKeeps, CheckKeeps, WriteScopeKeeps, LoadKeeps, LoadUnitKeeps, DropOrphanKeeps,
     PruneUnitKeeps, PruneAssemblyKeeps, CommitUnitKeeps, CommitPayloadKeeps,
     CommitManifestKeeps DEF Process
<1>2. CASE Stop \/ Rerun \/ Edit
  BY <1>2, WorldKeeps
<1>3. CASE UNCHANGED vars
  <2>1. UNCHANGED <<scope, unit, payload, manifest, committed>>
    BY <1>3 DEF vars
  <2>2. FilesInv' /\ Assemblies' = Assemblies
    BY <2>1, FilesKept DEF IInv
  <2>3. ProcessTyped' /\ ScopeFirst'
    BY <1>3 DEF vars, IInv, ProcessInv, ProcessTyped, ScopeFirst
  <2>4. InMemory'
    BY <1>3, <2>2 DEF vars, IInv, ProcessInv, InMemory, Indexed
  <2> QED
    BY <2>2, <2>3, <2>4 DEF IInv, ProcessInv
<1> QED
  BY <1>1, <1>2, <1>3 DEF Next

(* The inductive invariant holds in every reachable state of the store. *)
THEOREM ProgressInvariant == Spec => []IInv
<1> QED
  BY InitIInv, NextKeeps, PTL DEF Spec

-----------------------------------------------------------------------------
(* What it gives.                                                          *)

(* Every variable keeps its type. *)
THEOREM ProgressTyped == Spec => []TypeOK
<1>1. IInv => TypeOK
  BY Typed DEF IInv, FilesInv, ProcessInv
<1> QED
  BY <1>1, ProgressInvariant, PTL

(* However far a pruning got before the process stopped, a committed unit is
   in its checkpoint or in a committed payload that covers it. *)
THEOREM ProgressStaysRecoverable == Spec => []UnitsStayRecoverable
<1>1. ASSUME IInv PROVE UnitsStayRecoverable
  <2> SUFFICES ASSUME NEW u \in committed
               PROVE  \/ unit[u] # None
                      \/ \E n \in Assemblies : u <= n /\ payload[n] = manifest[n].payload
    BY DEF UnitsStayRecoverable
  <2>1. CASE N \notin Assemblies
    BY <1>1, <2>1 DEF IInv, FilesInv, UnitsDurable
  <2>2. CASE N \in Assemblies
    <3>1. N \in Units /\ payload[N] # None
      BY <1>1, <2>2 DEF IInv, FilesInv, FilesAgree, Assemblies
    <3>2. manifest[N].payload = Indexed(N)
      <4>1. manifest[N] = [units |-> Indexed(N), payload |-> Indexed(N)]
        BY <1>1, <2>2 DEF IInv, FilesInv, FilesAgree
      <4> QED
        BY <4>1
    <3>3. \A n \in Units : payload[n] # None => payload[n] = Indexed(n)
      BY <1>1 DEF IInv, FilesInv, FilesAgree
    <3>4. payload[N] = manifest[N].payload
      BY <3>1, <3>2, <3>3
    <3>5. u <= N
      BY <1>1, NAssumption DEF IInv, FilesInv, FilesTyped, Units
    <3> QED
      BY <2>2, <3>4, <3>5
  <2> QED
    BY <2>1, <2>2
<1> QED
  BY <1>1, ProgressInvariant, PTL

(* The indexer only runs for a unit that no run has committed. *)
THEOREM ProgressIndexesOnce == Spec => []NoUnitIsIndexedTwice
<1>1. ASSUME IInv PROVE NoUnitIsIndexedTwice
  <2> SUFFICES ASSUME pc = "writeUnit" PROVE Len(merged) + 1 \notin committed
    BY DEF NoUnitIsIndexedTwice
  <2>1. unit[Len(merged) + 1] = None /\ N \notin Assemblies
    BY <1>1 DEF IInv, ProcessInv, InMemory
  <2> QED
    BY <1>1, <2>1 DEF IInv, FilesInv, UnitsDurable
<1> QED
  BY <1>1, ProgressInvariant, PTL

(* An index that is handed over is made of the inputs of its run alone. *)
THEOREM ProgressIsCurrent == Spec => []ResultIsCurrent
<1>1. ASSUME IInv PROVE ResultIsCurrent
  BY <1>1 DEF IInv, ProcessInv, InMemory, Indexed, ResultIsCurrent, Units
<1> QED
  BY <1>1, ProgressInvariant, PTL

(* The count the recovery arrives at is that of the committed units. *)
LEMMA DurableIs ==
  ASSUME IInv, NEW k \in 0..N, committed = 1..k
  PROVE  Durable = k
<1> DEFINE Counts(d) == /\ \A u \in (Latest + 1)..d : unit[u] # None
                        /\ d < N => unit[d + 1] = None
<1>1. /\ Latest \in 0..N
      /\ Latest # 0 => Latest \in Assemblies
      /\ Latest = N <=> N \in Assemblies
  BY LatestFacts DEF IInv, FilesInv
<1>2. Latest <= k
  <2>1. Latest # 0 => Latest \in 1..k
    BY <1>1 DEF IInv, FilesInv, FilesAgree, CommittedPrefix, Assemblies
  <2> QED
    BY <1>1, <2>1, NAssumption
<1> HIDE DEF Latest
<1>3. k \in Latest..N
  BY <1>1, <1>2, NAssumption
<1>4. \A u \in (Latest + 1)..k : unit[u] # None
  <2>1. CASE N \in Assemblies
    BY <1>1, <2>1, NAssumption
  <2>2. CASE N \notin Assemblies
    BY <1>1, <2>2, NAssumption DEF IInv, FilesInv, UnitsDurable
  <2> QED
    BY <2>1, <2>2
<1>5. \A u \in Units : unit[u] # None => u <= k
  BY NAssumption DEF IInv, FilesInv, CommittedPrefix, Units
<1>6. Counts(k)
  BY <1>4, <1>5, NAssumption DEF Units
<1>7. ASSUME NEW d \in Latest..N, Counts(d)
      PROVE  d = k
  <2>1. d \in Int /\ k \in Int /\ Latest \in Int /\ N \in Int /\ Latest <= d /\ 0 <= Latest /\ d <= N /\ k <= N
    BY <1>1, NAssumption
  <2>2. ~(d < k)
    <3>1. SUFFICES ASSUME d < k PROVE FALSE
      OBVIOUS
    <3>2. d < N /\ d + 1 \in (Latest + 1)..k
      BY <2>1, <3>1
    <3> QED
      BY <1>4, <1>7, <3>2
  <2>3. ~(k < d)
    <3>1. SUFFICES ASSUME k < d PROVE FALSE
      OBVIOUS
    <3>2. d \in (Latest + 1)..d /\ d \in Units
      BY <1>2, <2>1, <3>1 DEF Units
    <3>3. d <= k
      BY <1>5, <1>7, <3>2
    <3> QED
      BY <2>1, <3>1, <3>3
  <2> QED
    BY <2>1, <2>2, <2>3
<1> HIDE DEF Counts
<1>8. k = CHOOSE d \in Latest..N : Counts(d)
  BY <1>3, <1>6, <1>7
<1> QED
  BY <1>8 DEF Durable, Counts

(* A committed prefix has one length. *)
LEMMA PrefixLength ==
  ASSUME NEW j \in Nat, NEW k \in Nat, 1..j = 1..k
  PROVE  j = k
<1>1. j > k => j \in 1..j /\ j \notin 1..k
  OBVIOUS
<1>2. k > j => k \in 1..k /\ k \notin 1..j
  OBVIOUS
<1> QED
  BY <1>1, <1>2

\* Durable, as a formula that can be asked of the next state as well.
DurablePrefix == \A j \in 0..N : committed = 1..j => Durable = j

(* The store implements the ledger: its scope is bound once, and its units
   become durable one at a time, in the order of the plan, and stay so. *)
THEOREM ProgressImplementsLedger == Spec => ImplementsUnitLedger
<1>1. Init => Ledger!Init
  <2> SUFFICES ASSUME Init PROVE Ledger!Init
    OBVIOUS
  <2>1. IInv /\ committed = 1..0 /\ 0 \in 0..N
    BY InitIInv, NAssumption DEF Init
  <2>2. Durable = 0
    BY <2>1, DurableIs
  <2> QED
    BY <2>2 DEF Init, Ledger!Init
<1>2. IInv => DurablePrefix
  BY DurableIs DEF DurablePrefix
<1>3. ASSUME IInv, DurablePrefix, DurablePrefix', [Next]_vars
      PROVE  [Ledger!Next]_(Ledger!vars)
  <2>1. PICK k \in 0..N : committed = 1..k
    BY <1>3 DEF IInv, FilesInv, CommittedPrefix
  <2>2. Durable = k
    BY <1>3, <2>1 DEF DurablePrefix
  <2>3. ASSUME NEW j \in 0..N, committed' = 1..j
        PROVE  Durable' = j
    BY <1>3, <2>3 DEF DurablePrefix
  <2>4. CASE CommitUnit
    <3>1. /\ \E i \in 0..N : i + 1 \in Units /\ committed = 1..i /\ committed' = 1..(i + 1)
      BY <1>3, <2>4, CommitUnitKeeps
    <3>2. PICK i \in 0..N : i + 1 \in Units /\ committed = 1..i /\ committed' = 1..(i + 1)
      BY <3>1
    <3>3. i = k /\ k < N /\ k + 1 \in 0..N
      BY <2>1, <3>2, PrefixLength, NAssumption DEF Units
    <3>4. Durable' = k + 1
      BY <2>3, <3>2, <3>3
    <3>5. scope # None /\ scope' = scope
      BY <1>3, <2>4 DEF CommitUnit, IInv, ProcessInv, ScopeFirst
    <3> QED
      BY <2>2, <3>3, <3>4, <3>5 DEF Ledger!Next, Ledger!Commit
  <2>5. CASE WriteScope
    <3>1. scope = None /\ scope' = inputs /\ inputs \in Worlds /\ committed' = committed
      BY <1>3, <2>5 DEF WriteScope, IInv, ProcessInv, ProcessTyped, ScopeFirst
    <3>2. Durable' = k
      BY <2>1, <2>3, <3>1
    <3> QED
      BY <2>2, <3>1, <3>2 DEF Ledger!Next, Ledger!Bind
  <2>6. CASE UNCHANGED <<scope, committed>>
    <3>1. Durable' = k
      BY <2>1, <2>3, <2>6
    <3> QED
      BY <2>2, <2>6, <3>1 DEF Ledger!vars
  <2>7. CommitUnit \/ WriteScope \/ UNCHANGED <<scope, committed>>
    BY <1>3 DEF Next, Process, Start, DiscardTemp, DropOrphan, Recover, CountDurable, Open,
       Load, PruneUnit, UnitsPruned, PruneAssembly, AssembliesPruned, LoadUnit,
       PublishAssembly, CommitPayload, CommitManifest, Stop, Rerun, Edit, disk, vars
  <2> QED
    BY <2>4, <2>5, <2>6, <2>7
<1>4. Spec => Ledger!Spec
  BY <1>1, <1>2, <1>3, ProgressInvariant, PTL DEF Spec, Ledger!Spec
<1> QED
  BY <1>4 DEF ImplementsUnitLedger

-----------------------------------------------------------------------------
(***************************************************************************)
(* Why a run refuses.  A full assembly beside an older one that still needs*)
(* its checkpoints is what a recovery cannot repair: it takes one stop to  *)
(* leave the publication with both, and a second one to leave the recovery *)
(* after it has pruned checkpoints and before the older manifest.          *)
(***************************************************************************)
Both == N \in Assemblies /\ \E n \in Assemblies : n < N

UnitGone == \E u \in Units : unit[u] = None

TempsAtFirst == scope = None => temps \subseteq {ScopeTmp}

PruningStopped ==
  Both =>
    /\ pc \in {"down", "recover", "recoverUnits", "recoverAssemblies", "pruneAssemblies", "refused"}
    /\ crashes >= 1 \/ pc = "pruneAssemblies"
    /\ UnitGone => \/ crashes >= 2
                   \/ crashes >= 1 /\ pc \in {"recoverUnits", "recoverAssemblies"}

BlockInv == TempsAtFirst /\ PruningStopped /\ OnlyFinalPruningBlocks

(* Until an assembly covers the plan, a committed unit and those before it
   have their checkpoints. *)
LEMMA UnitsThere ==
  ASSUME IInv, N \notin Assemblies, NEW n \in committed
  PROVE  \A u \in 1..n : u \in Units /\ unit[u] = scope /\ unit[u] # None
<1>1. PICK k \in 0..N : committed = 1..k
  BY DEF IInv, FilesInv, CommittedPrefix
<1>2. 1..n \subseteq committed /\ committed \subseteq Units
  BY <1>1, NAssumption DEF Units
<1>3. \A u \in committed : unit[u] # None
  BY DEF IInv, FilesInv, UnitsDurable
<1>4. \A u \in Units : unit[u] # None => unit[u] = scope
  BY DEF IInv, FilesInv, FilesAgree
<1> QED
  BY <1>2, <1>3, <1>4

(* Only a full assembly beside another one can be found invalid. *)
LEMMA InvalidAssemblies ==
  ASSUME IInv, ~AssembliesValid
  PROVE  Both /\ UnitGone
<1>1. PICK n \in Assemblies : ~AssemblyValid(n)
  BY DEF AssembliesValid
<1>2. n \in Units /\ n \in committed
  BY DEF Assemblies, IInv, FilesInv, FilesAgree, CommittedPrefix
<1>3. /\ manifest[n] = [units |-> Indexed(n), payload |-> Indexed(n)]
      /\ payload[n] # None
  BY DEF IInv, FilesInv, FilesAgree
<1>4. payload[n] = Indexed(n)
  BY <1>2, <1>3 DEF IInv, FilesInv, FilesAgree
<1>5. n # N /\ ~UnitsMatch(n)
  BY <1>1, <1>3, <1>4 DEF AssemblyValid
<1>6. PICK u \in 1..n : unit[u] = None \/ unit[u] # manifest[n].units[u]
  BY <1>5 DEF UnitsMatch
<1>7. manifest[n].units[u] = scope
  <2>1. manifest[n].units = Indexed(n)
    BY <1>3
  <2> QED
    BY <2>1 DEF Indexed
<1>8. u \in Units /\ n < N
  BY <1>2, <1>5, NAssumption DEF Units
<1>9. unit[u] = None
  BY <1>6, <1>7, <1>8 DEF IInv, FilesInv, FilesAgree
<1>10. N \in Assemblies
  BY <1>2, <1>9, UnitsThere
<1> QED
  BY <1>1, <1>8, <1>9, <1>10 DEF Both, UnitGone

LEMMA SameFiles ==
  ASSUME UNCHANGED <<unit, manifest>>
  PROVE  Both' = Both /\ UnitGone' = UnitGone /\ Assemblies' = Assemblies
<1>1. Assemblies' = Assemblies
  BY DEF Assemblies
<1> QED
  BY <1>1 DEF Both, UnitGone

LEMMA TempsKeep == IInv /\ TempsAtFirst /\ [Next]_vars => TempsAtFirst'
<1> SUFFICES ASSUME IInv, TempsAtFirst, [Next]_vars, scope' = None
             PROVE  temps' \subseteq {ScopeTmp}
  BY DEF TempsAtFirst
<1>1. CASE Process
  <2>1. CASE WriteScope
    BY <2>1, NoneAssumption DEF WriteScope, IInv, ProcessInv, ProcessTyped
  <2>2. CASE DiscardTemp
    BY <2>2 DEF DiscardTemp, TempsAtFirst
  <2>3. UNCHANGED <<scope, temps>> \/ WriteScope \/ DiscardTemp
    BY <1>1 DEF Process, Start, DropOrphan, Recover, CountDurable, Open, Load, PruneUnit,
                UnitsPruned, PruneAssembly, AssembliesPruned, LoadUnit, CommitUnit,
                PublishAssembly, CommitPayload, CommitManifest, disk
  <2> QED
    BY <2>1, <2>2, <2>3 DEF TempsAtFirst
<1>2. CASE Stop
  <2>1. scope = None /\ (temps' = temps \/ temps' = temps \cup InFlight)
    BY <1>2 DEF Stop
  <2>2. pc \in {"down", "recover", "open", "writeScope", "refused"}
    BY <2>1 DEF IInv, ProcessInv, ScopeFirst
  <2>3. InFlight \subseteq {ScopeTmp}
    BY <2>2 DEF InFlight
  <2> QED
    BY <2>1, <2>3 DEF TempsAtFirst
<1>3. CASE Rerun \/ Edit \/ UNCHANGED vars
  BY <1>3 DEF Rerun, Edit, vars, disk, TempsAtFirst
<1> QED
  BY <1>1, <1>2, <1>3 DEF Next

(* Steps that leave the checkpoints and the manifests alone. *)
LEMMA MovesKeepPruning ==
  ASSUME IInv, PruningStopped,
         \/ Start \/ DiscardTemp \/ DropOrphan \/ Recover \/ CountDurable \/ Open
         \/ WriteScope \/ Load \/ UnitsPruned \/ AssembliesPruned \/ LoadUnit
         \/ PublishAssembly \/ CommitPayload \/ Rerun \/ Edit
  PROVE  PruningStopped'
<1>1. UNCHANGED <<unit, manifest, crashes>>
  BY DEF Start, DiscardTemp, DropOrphan, Recover, CountDurable, Open, WriteScope, Load,
         UnitsPruned, AssembliesPruned, LoadUnit, PublishAssembly, CommitPayload, Rerun, Edit,
         disk, fixed
<1>2. Both' = Both /\ UnitGone' = UnitGone
  BY <1>1, SameFiles
<1>3. SUFFICES ASSUME Both PROVE PruningStopped'
  BY <1>2 DEF PruningStopped
<1>4. /\ pc \in {"down", "recover", "recoverUnits", "recoverAssemblies", "pruneAssemblies", "refused"}
      /\ crashes >= 1 \/ pc = "pruneAssemblies"
      /\ UnitGone => \/ crashes >= 2
                     \/ crashes >= 1 /\ pc \in {"recoverUnits", "recoverAssemblies"}
  BY <1>3 DEF PruningStopped
<1>5. Latest = N /\ Latest \in Units
  BY <1>3, LatestFacts DEF IInv, FilesInv, Both, Assemblies
<1>6. \/ pc' = pc
      \/ pc = "down" /\ pc' = "recover"
      \/ pc = "recover" /\ pc' \in {"refused", "recoverUnits"}
      \/ pc = "recoverUnits" /\ pc' = "recoverAssemblies"
      \/ pc = "refused" /\ pc' = "down"
  <2>1. CASE pc = "recover"
    <3>1. scope # None
      BY <1>3 DEF Both, IInv, FilesInv, FilesAgree, ProcessInv, ScopeFirst, CommittedPrefix, Assemblies
    <3> QED
      BY <1>5, <2>1, <3>1 DEF Start, DiscardTemp, DropOrphan, Recover, CountDurable, Open,
         WriteScope, Load, UnitsPruned, AssembliesPruned, LoadUnit, PublishAssembly,
         CommitPayload, Rerun, Edit, Goto, Refuse, Ended
  <2>2. CASE pc \in {"recoverAssemblies", "pruneAssemblies"}
    <3>1. Keep = N
      <4>1. CASE pc = "pruneAssemblies"
        <5>1. Len(merged) \in Assemblies /\ N <= Len(merged)
          BY <1>3, <4>1 DEF IInv, ProcessInv, InMemory, Both
        <5> QED
          BY <4>1, <5>1, NAssumption DEF Keep, Assemblies, Units
      <4>2. CASE pc = "recoverAssemblies"
        BY <1>5, <4>2 DEF Keep
      <4> QED
        BY <2>2, <4>1, <4>2
    <3>2. Superseded # {}
      <4>1. PICK n \in Assemblies : n < N
        BY <1>3 DEF Both
      <4>2. n \in 1..(N - 1) /\ manifest[n] # None
        BY <4>1, NAssumption DEF Assemblies, Units
      <4> QED
        BY <3>1, <4>2 DEF Superseded
    <3> QED
      BY <2>2, <3>2 DEF Start, DiscardTemp, DropOrphan, Recover, CountDurable, Open,
         WriteScope, Load, UnitsPruned, AssembliesPruned, LoadUnit, PublishAssembly,
         CommitPayload, Rerun, Edit, Ended
  <2>3. CASE pc \in {"down", "recoverUnits", "refused"}
    BY <2>3 DEF Start, DiscardTemp, DropOrphan, Recover, CountDurable, Open,
         WriteScope, Load, UnitsPruned, AssembliesPruned, LoadUnit, PublishAssembly,
         CommitPayload, Rerun, Edit, Goto, Refuse, Ended
  <2> QED
    BY <1>4, <2>1, <2>2, <2>3
<1> QED
  BY <1>1, <1>2, <1>4, <1>6 DEF PruningStopped

LEMMA PruningKeeps == IInv /\ PruningStopped /\ [Next]_vars => PruningStopped'
<1> SUFFICES ASSUME IInv, PruningStopped, [Next]_vars
             PROVE  PruningStopped'
  OBVIOUS
<1>0. crashes \in Nat
  BY MaxCrashesAssumption DEF IInv, ProcessInv, ProcessTyped
<1>1. CASE PruneUnit
  <2>1. /\ pc \in {"recoverUnits", "loadUnits", "pruneUnits"}
        /\ UNCHANGED <<manifest, pc, crashes>>
    BY <1>1 DEF PruneUnit, fixed
  <2>2. Both' = Both
    BY <2>1 DEF Both, Assemblies
  <2> QED
    BY <2>1, <2>2 DEF PruningStopped
<1>2. CASE PruneAssembly
  <2>1. UNCHANGED <<unit, pc, crashes>>
    BY <1>2 DEF PruneAssembly, fixed
  <2>2. PICK n \in Superseded : PruneNext(n)
    BY <1>2 DEF PruneAssembly
  <2>3. manifest' = manifest \/ manifest' = [manifest EXCEPT ![n] = None]
    BY <2>2 DEF PruneNext
  <2>4. Assemblies' \subseteq Assemblies
    BY <2>3 DEF Assemblies, IInv, FilesInv, FilesTyped
  <2>5. Both' => Both /\ UnitGone' = UnitGone
    BY <2>1, <2>4 DEF Both, UnitGone
  <2> QED
    BY <2>1, <2>5 DEF PruningStopped
<1>3. CASE CommitUnit
  <2>1. pc = "writeUnit" /\ UNCHANGED manifest
    BY <1>3 DEF CommitUnit
  <2>2. ~Both
    BY <2>1 DEF PruningStopped
  <2> QED
    BY <2>1, <2>2 DEF PruningStopped, Both, Assemblies
<1>4. CASE CommitManifest
  <2> DEFINE n == Len(merged)
  <2>1. /\ pc = "writeManifest" /\ pc' = "pruneAssemblies" /\ UNCHANGED unit
        /\ \E r : manifest' = [manifest EXCEPT ![n] = r]
    BY <1>4 DEF CommitManifest, Goto
  <2>2. /\ n \in Units /\ n \in committed \cup {0}
        /\ \A m \in Assemblies : m < n
    BY <2>1 DEF IInv, ProcessInv, InMemory
  <2> HIDE DEF n
  <2>3. Assemblies' \subseteq Assemblies \cup {n}
    BY <2>1 DEF Assemblies, IInv, FilesInv, FilesTyped
  <2>4. N \notin Assemblies
    BY <2>2, NAssumption DEF Units, Assemblies
  <2>5. Both' => n = N /\ N \in committed
    BY <2>2, <2>3, <2>4, NAssumption DEF Both, Units
  <2>6. Both' => ~UnitGone'
    <3>1. SUFFICES ASSUME Both' PROVE \A u \in Units : unit[u] # None
      BY <2>1 DEF UnitGone
    <3> QED
      BY <2>4, <2>5, <3>1, UnitsThere DEF Units
  <2> QED
    BY <2>1, <2>6 DEF PruningStopped
<1>5. CASE Stop
  <2>1. pc' = "down" /\ crashes' = crashes + 1 /\ Both' = Both /\ UnitGone' = UnitGone
    BY <1>5, SameFiles DEF Stop
  <2>2. crashes' >= 1 /\ (crashes >= 1 => crashes' >= 2)
    BY <1>0, <2>1
  <2>3. Both /\ UnitGone => crashes >= 1
    BY <1>0 DEF PruningStopped
  <2> QED
    BY <2>1, <2>2, <2>3 DEF PruningStopped
<1>6. CASE UNCHANGED vars
  <2>1. UNCHANGED <<unit, manifest, pc, crashes>>
    BY <1>6 DEF vars
  <2> QED
    BY <2>1, SameFiles DEF PruningStopped
<1> QED
  BY <1>1, <1>2, <1>3, <1>4, <1>5, <1>6, MovesKeepPruning DEF Next, Process

(* A refusal is for other inputs, or for a pruning that was cut short twice. *)
LEMMA RefusalsKeep ==
  IInv /\ BlockInv /\ [Next]_vars => OnlyFinalPruningBlocks'
<1> SUFFICES ASSUME IInv, BlockInv, [Next]_vars, pc' = "refused"
             PROVE  \/ reason' = "scope" /\ scope' # inputs'
                    \/ reason' = "assembly" /\ Both' /\ crashes' >= 2
  BY DEF OnlyFinalPruningBlocks, Both
<1>0. crashes \in Nat
  BY MaxCrashesAssumption DEF IInv, ProcessInv, ProcessTyped
<1>1. CASE Recover
  <2>1. pc = "recover" /\ Clean /\ UNCHANGED <<scope, unit, manifest, crashes>>
    BY <1>1 DEF Recover, disk, fixed
  <2>2. CASE scope = None
    <3>1. committed = {} /\ temps \subseteq {ScopeTmp}
      BY <2>2 DEF IInv, ProcessInv, ScopeFirst, BlockInv, TempsAtFirst
    <3>2. /\ \A u \in Units : unit[u] = None
          /\ \A n \in Units : payload[n] = None /\ manifest[n] = None
      BY <3>1 DEF IInv, FilesInv, CommittedPrefix, FilesAgree, Assemblies
    <3>3. temps = {}
      BY <2>1, <3>1 DEF Clean, Discarded
    <3> QED
      BY <1>1, <2>2, <3>2, <3>3 DEF Recover, Goto
  <2>3. CASE scope # None
    <3>1. ~AssembliesValid /\ reason' = "assembly"
      BY <1>1, <2>3 DEF Recover, Goto, Refuse
    <3>2. Both /\ UnitGone
      BY <3>1, InvalidAssemblies
    <3>3. crashes >= 2
      BY <2>1, <3>2 DEF BlockInv, PruningStopped
    <3> QED
      BY <2>1, <3>1, <3>2, <3>3, SameFiles
  <2> QED
    BY <2>2, <2>3
<1>2. CASE CountDurable
  <2>1. Latest = N <=> N \in Assemblies
    BY LatestFacts DEF IInv, FilesInv
  <2>2. Latest \in 0..N
    BY LatestFacts DEF IInv, FilesInv
  <2>3. \A u \in (Latest + 1)..N : u \in Units /\ N \notin Assemblies
    BY <2>1, <2>2, NAssumption DEF Units
  <2>4. ~\E u \in (Latest + 1)..N : unit[u] # None /\ \E v \in (Latest + 1)..u : unit[v] = None
    <3>1. SUFFICES ASSUME NEW u \in (Latest + 1)..N, unit[u] # None,
                          NEW v \in (Latest + 1)..u, unit[v] = None
                   PROVE  FALSE
      OBVIOUS
    <3>2. u \in committed /\ N \notin Assemblies
      BY <2>3, <3>1 DEF IInv, FilesInv, CommittedPrefix
    <3>3. v \in 1..u
      BY <2>2, <3>1
    <3> QED
      BY <3>1, <3>2, <3>3, UnitsThere
  <2>5. ~\E u \in (Latest + 1)..N : unit[u] \notin {None, scope}
    BY <2>3 DEF IInv, FilesInv, FilesAgree
  <2> QED
    BY <1>2, <2>4, <2>5 DEF CountDurable, Goto
<1>3. CASE Open
  <2>1. CASE scope = None
    <3>1. committed = {} /\ temps \subseteq {ScopeTmp}
      BY <2>1 DEF IInv, ProcessInv, ScopeFirst, BlockInv, TempsAtFirst
    <3>2. \A u \in Units : unit[u] = None
      BY <3>1 DEF IInv, FilesInv, CommittedPrefix
    <3>3. temps \cap UnitTmps = {}
      BY <3>1 DEF ScopeTmp, UnitTmps
    <3> QED
      BY <1>3, <2>1, <3>2, <3>3 DEF Open, Goto
  <2>2. CASE scope # None
    BY <1>3, <2>2 DEF Open, Goto, Refuse, disk, fixed
  <2> QED
    BY <2>1, <2>2
<1>4. CASE Load
  <2>1. pc = "load" /\ ~AssembliesValid
    BY <1>4 DEF Load
  <2> QED
    BY <2>1, InvalidAssemblies DEF BlockInv, PruningStopped
<1>5. CASE LoadUnit
  <2> DEFINE u == Len(merged) + 1
  <2>1. u \in Units
    BY <1>5, Typed, MergedFacts, NAssumption
       DEF LoadUnit, IInv, FilesInv, ProcessInv, InMemory, Units
  <2>2. unit[u] = None \/ unit[u] = scope
    BY <2>1 DEF IInv, FilesInv, FilesAgree
  <2> HIDE DEF u
  <2>3. pc' \in {"writeUnit", "publish", "run"}
    BY <1>5, <2>2 DEF LoadUnit, Goto, Merge, u
  <2> QED
    BY <2>3
<1>6. CASE CommitUnit
  <2>1. unit[Len(merged) + 1] = None
    BY <1>6 DEF CommitUnit, IInv, ProcessInv, InMemory
  <2> QED
    BY <1>6, <2>1 DEF CommitUnit, Merge
<1>7. CASE PublishAssembly
  <2> DEFINE n == Len(merged)
  <2>1. n \in Units /\ n \in committed \cup {0} /\ \A m \in Assemblies : m < n
    BY <1>7 DEF PublishAssembly, IInv, ProcessInv, InMemory
  <2> HIDE DEF n
  <2>2. n \notin Assemblies /\ N \notin Assemblies /\ n \in committed
    BY <2>1, NAssumption DEF Units, Assemblies
  <2>3. manifest[n] = None /\ ~\E u \in 1..n : unit[u] = None
    BY <2>1, <2>2, UnitsThere DEF Assemblies
  <2> QED
    BY <1>7, <2>3 DEF PublishAssembly, Goto, n
<1>8. CASE DiscardTemp \/ DropOrphan \/ UNCHANGED vars
  <2>1. UNCHANGED <<pc, reason, scope, inputs, unit, manifest, crashes>>
    BY <1>8 DEF DiscardTemp, DropOrphan, vars, fixed
  <2>2. \/ reason = "scope" /\ scope # inputs
        \/ reason = "assembly" /\ Both /\ crashes >= 2
    BY <2>1 DEF BlockInv, OnlyFinalPruningBlocks, Both
  <2> QED
    BY <2>1, <2>2, SameFiles
<1>9. ~(Start \/ WriteScope \/ PruneUnit \/ UnitsPruned \/ PruneAssembly \/ AssembliesPruned
          \/ CommitPayload \/ CommitManifest \/ Stop \/ Rerun \/ Edit)
  BY DEF Start, WriteScope, PruneUnit, UnitsPruned, PruneAssembly, AssembliesPruned,
         CommitPayload, CommitManifest, Stop, Rerun, Edit, Goto
<1> QED
  BY <1>1, <1>2, <1>3, <1>4, <1>5, <1>6, <1>7, <1>8, <1>9 DEF Next, Process

(***************************************************************************)
(* However often the process stops, the store never refuses itself for a   *)
(* gap, for evidence that changed, or for a file that is in the way: only  *)
(* for other inputs, or after two stops in the pruning of a finished index.*)
(***************************************************************************)
THEOREM ProgressBlocks == Spec => []OnlyFinalPruningBlocks
<1>1. Init => BlockInv
  BY DEF Init, BlockInv, TempsAtFirst, PruningStopped, OnlyFinalPruningBlocks, Both, Assemblies
<1>2. IInv /\ BlockInv /\ [Next]_vars => BlockInv'
  BY TempsKeep, PruningKeeps, RefusalsKeep DEF BlockInv
<1>3. BlockInv => OnlyFinalPruningBlocks
  BY DEF BlockInv
<1> QED
  BY <1>1, <1>2, <1>3, ProgressInvariant, PTL DEF Spec

-----------------------------------------------------------------------------
(* A run comes nearer to its end with every step: either the control flow   *)
(* moves on, by at most one file more, or it stays and a file is removed.   *)

Stage(l) ==
  CASE l = "down" -> 14 [] l = "recover" -> 13 [] l = "recoverUnits" -> 12
    [] l = "recoverAssemblies" -> 11 [] l = "recoverCount" -> 10
    [] l = "open" -> 9 [] l = "writeScope" -> 8 [] l = "load" -> 7
    [] l = "publish" -> 6 [] l = "writePayload" -> 5 [] l = "writeManifest" -> 4
    [] l = "pruneAssemblies" -> 3 [] l = "run" -> 2
    [] l \in {"writeUnit", "loadUnits", "pruneUnits"} -> 1
    [] l \in {"done", "refused"} -> 0

\* Until an assembly is loaded nothing is merged.
Early == {"down", "recover", "recoverUnits", "recoverAssemblies", "recoverCount", "open",
          "writeScope", "load"}

MemoryEmpty == pc \in Early => merged = << >>

(* Only the end of a process leads back to the stages before. *)
LEMMA NextKeepsMemoryEmpty == MemoryEmpty /\ [Next]_vars => MemoryEmpty'
<1> SUFFICES ASSUME MemoryEmpty, [Next]_vars PROVE MemoryEmpty'
  OBVIOUS
<1> USE DEF MemoryEmpty, Early, Goto, Refuse
<1>1. CASE Start \/ DiscardTemp \/ DropOrphan \/ Recover \/ CountDurable \/ Open \/ WriteScope
  BY <1>1 DEF Start, DiscardTemp, DropOrphan, Recover, CountDurable, Open, WriteScope
<1>2. CASE Load \/ PruneUnit \/ UnitsPruned \/ PruneAssembly \/ AssembliesPruned
  BY <1>2 DEF Load, PruneUnit, UnitsPruned, PruneAssembly, AssembliesPruned
<1>3. CASE LoadUnit
  <2>1. pc' \notin Early
    BY <1>3 DEF LoadUnit, Merge
  <2> QED
    BY <2>1
<1>4. CASE CommitUnit
  <2>1. pc' \notin Early
    BY <1>4 DEF CommitUnit, Merge
  <2> QED
    BY <2>1
<1>5. CASE PublishAssembly \/ CommitPayload \/ CommitManifest
  BY <1>5 DEF PublishAssembly, CommitPayload, CommitManifest
<1>6. CASE Stop \/ Rerun \/ Edit
  BY <1>6 DEF Stop, Rerun, Edit
<1>7. CASE UNCHANGED vars
  BY <1>7 DEF vars
<1> QED
  BY <1>1, <1>2, <1>3, <1>4, <1>5, <1>6, <1>7 DEF Next, Process

\* The files there are, of one kind.
Present(files) == {n \in Units : files[n] # None}

(* They are finitely many. *)
LEMMA PresentIsFinite ==
  ASSUME NEW files
  PROVE  IsFiniteSet(Present(files)) /\ Cardinality(Present(files)) \in Nat
<1>1. IsFiniteSet(Units)
  BY FS_Interval, NAssumption DEF Units
<1>2. Present(files) \subseteq Units
  BY DEF Present
<1> QED
  BY <1>1, <1>2, FS_Subset, FS_CardinalityType

(* A file that is removed is one less. *)
LEMMA FileRemoved ==
  ASSUME NEW files, NEW after, NEW n \in Units, files[n] # None, after[n] = None,
         \A m \in Units : m # n => after[m] = files[m]
  PROVE  Cardinality(Present(after)) = Cardinality(Present(files)) - 1
<1>1. n \in Present(files) /\ Present(after) = Present(files) \ {n}
  BY DEF Present
<1> QED
  BY <1>1, PresentIsFinite, FS_RemoveElement

(* A file that is written is at most one more. *)
LEMMA FileWritten ==
  ASSUME NEW files, NEW after, NEW n \in Units,
         \A m \in Units : m # n => after[m] = files[m]
  PROVE  Cardinality(Present(after)) <= Cardinality(Present(files)) + 1
<1>1. Present(after) \subseteq Present(files) \cup {n}
  BY DEF Present
<1>2. /\ IsFiniteSet(Present(files) \cup {n})
      /\ Cardinality(Present(files) \cup {n}) <= Cardinality(Present(files)) + 1
      /\ Cardinality(Present(files) \cup {n}) \in Nat
  <2>1. IsFiniteSet(Present(files) \cup {n})
    BY PresentIsFinite, FS_AddElement
  <2>2. Cardinality(Present(files) \cup {n})
          \in {Cardinality(Present(files)), Cardinality(Present(files)) + 1}
    BY PresentIsFinite, FS_AddElement
  <2> QED
    BY <2>1, <2>2, PresentIsFinite, FS_CardinalityType
<1>3. Cardinality(Present(after)) <= Cardinality(Present(files) \cup {n})
  BY <1>1, <1>2, FS_Subset
<1> QED
  BY <1>2, <1>3, PresentIsFinite

(* There are finitely many temporary files. *)
LEMMA TempsAreFinite ==
  ASSUME TypeOK
  PROVE  IsFiniteSet(temps) /\ Cardinality(temps) \in Nat
<1>1. IsFiniteSet(Units)
  BY FS_Interval, NAssumption DEF Units
<1>2. IsFiniteSet({"unit"}) /\ IsFiniteSet({"payload", "manifest"}) /\ IsFiniteSet({ScopeTmp})
  <2>1. \A x : IsFiniteSet({x})
    BY FS_Singleton
  <2>2. IsFiniteSet({"payload"} \cup {"manifest"})
    BY <2>1, FS_AddElement
  <2>3. {"payload", "manifest"} = {"payload"} \cup {"manifest"}
    OBVIOUS
  <2>4. IsFiniteSet({"payload", "manifest"})
    BY <2>2, <2>3
  <2> QED
    BY <2>1, <2>4
<1>3. IsFiniteSet(UnitTmps) /\ IsFiniteSet(AssemblyTmps)
  BY <1>1, <1>2, FS_Product DEF UnitTmps, AssemblyTmps
<1>4. IsFiniteSet(TempFiles)
  BY <1>2, <1>3, FS_Union DEF TempFiles
<1> QED
  BY <1>4, FS_Subset, FS_CardinalityType DEF TypeOK

\* What is counted, and that these are numbers.
Counted ==
  /\ Removable = Cardinality(temps) + Cardinality(Present(unit))
                   + Cardinality(Present(payload)) + Cardinality(Present(manifest))
  /\ Removable \in Nat /\ Cardinality(temps) \in Nat
  /\ StepsAhead = 6 * (N - Len(merged)) + Stage(pc)
  /\ Len(merged) \in Nat /\ Stage(pc) \in 0..14

LEMMA Counts == TypeOK => Counted
<1> SUFFICES ASSUME TypeOK PROVE Counted
  OBVIOUS
<1>1. Removable = Cardinality(temps) + Cardinality(Present(unit))
                    + Cardinality(Present(payload)) + Cardinality(Present(manifest))
  BY DEF Removable, Present, Assemblies
<1>2. Removable \in Nat
  BY <1>1, TempsAreFinite, PresentIsFinite
<1>3. StepsAhead = 6 * (N - Len(merged)) + Stage(pc)
  BY DEF StepsAhead, Stage
<1>4. Stage(pc) \in 0..14
  BY DEF TypeOK, Labels, Stage
<1>5. Len(merged) \in Nat
  BY MergedFacts, NAssumption
<1> QED
  BY <1>1, <1>2, <1>3, <1>4, <1>5, TempsAreFinite DEF Counted

(* And in the state after a step. *)
LEMMA CountsAfter ==
  ASSUME TypeOK'
  PROVE  /\ Removable' \in Nat /\ Cardinality(temps') \in Nat
         /\ Removable' = Cardinality(temps') + Cardinality(Present(unit'))
                           + Cardinality(Present(payload')) + Cardinality(Present(manifest'))
         /\ StepsAhead' = 6 * (N - Len(merged')) + Stage(pc')
         /\ Len(merged') \in Nat /\ Stage(pc') \in 0..14
<1>1. TypeOK' => Counted'
  BY Counts, PTL
<1>2. Stage(pc)' = Stage(pc')
  BY DEF Stage
<1>3. Counted'
  BY <1>1
<1> QED
  BY <1>2, <1>3 DEF Counted, Present

\* The measure of RunsShrink falls.
Shrinks == 2 * StepsAhead' + Removable' < 2 * StepsAhead + Removable

(* The control flow moves on and writes at most one file. *)
LEMMA MovingOnShrinks ==
  ASSUME TypeOK, TypeOK',
         6 * Len(merged) + Stage(pc') < 6 * Len(merged') + Stage(pc),
         Removable' <= Removable + 1
  PROVE  Shrinks
<1>1. /\ Removable \in Nat /\ Len(merged) \in Nat /\ Stage(pc) \in Int
      /\ StepsAhead = 6 * (N - Len(merged)) + Stage(pc)
  BY Counts DEF Counted
<1>2. /\ Removable' \in Nat /\ Len(merged') \in Nat /\ Stage(pc') \in Int
      /\ StepsAhead' = 6 * (N - Len(merged')) + Stage(pc')
  BY CountsAfter
<1>3. StepsAhead' < StepsAhead /\ StepsAhead \in Int /\ StepsAhead' \in Int
  BY <1>1, <1>2, NAssumption, SMTT(30)
<1> QED
  BY <1>1, <1>2, <1>3, SMTT(30) DEF Shrinks

(* The control flow stays and one file is removed. *)
LEMMA RemovalShrinks ==
  ASSUME TypeOK, UNCHANGED <<pc, merged>>, Removable' = Removable - 1
  PROVE  Shrinks
<1>1. StepsAhead' = StepsAhead
  BY DEF StepsAhead
<1>2. /\ Stage(pc) \in Int /\ Len(merged) \in Int /\ N \in Int
      /\ StepsAhead = 6 * (N - Len(merged)) + Stage(pc) /\ Removable \in Int
  BY Counts, NAssumption DEF Counted
<1>3. StepsAhead \in Int
  BY <1>2
<1> QED
  BY <1>1, <1>2, <1>3 DEF Shrinks

(* A step that touches no file moves on. *)
LEMMA CheckShrinks ==
  ASSUME TypeOK, TypeOK', UNCHANGED disk, merged' = merged, Stage(pc') < Stage(pc)
  PROVE  Shrinks
<1>1. Removable' = Removable
  BY DEF Removable, Assemblies, disk
<1>2. /\ Removable \in Nat /\ Len(merged) \in Nat
      /\ Stage(pc) \in Int /\ Stage(pc') \in Int
  BY Counts, CountsAfter, SMTT(30) DEF Counted
<1> QED
  BY <1>1, <1>2, MovingOnShrinks

(* The invariant types every variable. *)
LEMMA InvariantTyped == IInv => TypeOK
  BY Typed DEF IInv, FilesInv, ProcessInv

(* Every step of the process shrinks what is ahead of it. *)
LEMMA ProcessShrinks ==
  ASSUME IInv, MemoryEmpty, Process
  PROVE  Shrinks
<1>1. TypeOK /\ TypeOK'
  <2>1. IInv'
    BY NextKeeps DEF Next
  <2>2. IInv' => TypeOK'
    BY InvariantTyped, PTL
  <2> QED
    BY <2>1, <2>2, InvariantTyped
<1>2. /\ DOMAIN payload = Units /\ DOMAIN manifest = Units /\ DOMAIN unit = Units
      /\ Len(merged) \in Nat /\ IsFiniteSet(temps)
  BY <1>1, Counts, TempsAreFinite DEF TypeOK, Counted
<1>3. /\ Removable = Cardinality(temps) + Cardinality(Present(unit))
                       + Cardinality(Present(payload)) + Cardinality(Present(manifest))
      /\ Removable' = Cardinality(temps') + Cardinality(Present(unit'))
                       + Cardinality(Present(payload')) + Cardinality(Present(manifest'))
  BY <1>1, Counts, CountsAfter DEF Counted
<1>4. /\ Cardinality(temps) \in Nat /\ Cardinality(temps') \in Nat
      /\ \A f : Cardinality(Present(f)) \in Nat
      /\ Removable \in Nat /\ Len(merged') \in Nat
      /\ Stage(pc) \in Int /\ Stage(pc') \in Int
  <2>1. \A f : Cardinality(Present(f)) \in Nat
    BY PresentIsFinite
  <2>2. /\ Cardinality(temps) \in Nat /\ Removable \in Nat /\ Stage(pc) \in Int
    BY <1>1, Counts DEF Counted
  <2>3. Cardinality(temps') \in Nat /\ Len(merged') \in Nat /\ Stage(pc') \in Int
    BY <1>1, CountsAfter
  <2> QED
    BY <2>1, <2>2, <2>3
<1>5. ASSUME UNCHANGED <<disk, committed, fixed>>,
             \/ \E l : Goto(l) /\ Stage(l) < Stage(pc)
             \/ \E why : Refuse(why) /\ Stage("refused") < Stage(pc)
      PROVE  Shrinks
  BY <1>1, <1>5, CheckShrinks DEF Goto, Refuse
<1>6. Stage("refused") = 0
  BY DEF Stage
<1>7. CASE Start
  <2>1. Stage("recover") < Stage(pc)
    BY <1>7 DEF Start, Stage
  <2> QED
    BY <1>5, <1>7, <2>1 DEF Start
<1>8. CASE DiscardTemp
  <2>1. PICK t \in temps : temps' = temps \ {t}
    BY <1>8 DEF DiscardTemp
  <2>2. Cardinality(temps') = Cardinality(temps) - 1
    BY <1>2, <2>1, FS_RemoveElement
  <2>3. UNCHANGED <<unit, payload, manifest, pc, merged>>
    BY <1>8 DEF DiscardTemp
  <2>4. Removable' = Removable - 1
    BY <1>3, <1>4, <2>2, <2>3, SMTT(30)
  <2> QED
    BY <1>1, <2>3, <2>4, RemovalShrinks
<1>9. CASE DropOrphan
  <2>1. PICK n \in Orphans : payload' = [payload EXCEPT ![n] = None]
    BY <1>9 DEF DropOrphan
  <2>2. n \in Units /\ payload[n] # None /\ payload'[n] = None
        /\ \A m \in Units : m # n => payload'[m] = payload[m]
    BY <1>2, <2>1 DEF Orphans
  <2>3. Cardinality(Present(payload')) = Cardinality(Present(payload)) - 1
    BY <2>2, FileRemoved
  <2>4. UNCHANGED <<unit, temps, manifest, pc, merged>>
    BY <1>9 DEF DropOrphan
  <2>5. Removable' = Removable - 1
    BY <1>3, <1>4, <2>3, <2>4, SMTT(30)
  <2> QED
    BY <1>1, <2>4, <2>5, RemovalShrinks
<1>10. CASE Recover
  <2>1. /\ Stage("open") < Stage(pc) /\ Stage("recoverUnits") < Stage(pc)
        /\ Stage("recoverAssemblies") < Stage(pc) /\ Stage("refused") < Stage(pc)
    BY <1>10 DEF Recover, Stage
  <2>2. Refuse("unscoped") \/ Refuse("assembly") \/ Goto("open")
        \/ Goto("recoverUnits") \/ Goto("recoverAssemblies")
    BY <1>10 DEF Recover
  <2> QED
    BY <1>5, <1>10, <2>1, <2>2 DEF Recover
<1>11. CASE CountDurable
  <2>1. Stage("open") < Stage(pc) /\ Stage("refused") < Stage(pc)
    BY <1>11 DEF CountDurable, Stage
  <2>2. Refuse("gap") \/ Refuse("evidence") \/ Goto("open")
    BY <1>11 DEF CountDurable
  <2> QED
    BY <1>5, <1>11, <2>1, <2>2 DEF CountDurable
<1>12. CASE Open
  <2>1. /\ Stage("load") < Stage(pc) /\ Stage("writeScope") < Stage(pc)
        /\ Stage("refused") < Stage(pc)
    BY <1>12 DEF Open, Stage
  <2>2. Refuse("scope") \/ Refuse("unscoped") \/ Goto("load") \/ Goto("writeScope")
    BY <1>12 DEF Open
  <2> QED
    BY <1>5, <1>12, <2>1, <2>2 DEF Open
<1>13. CASE WriteScope
  <2>1. Stage(pc') < Stage(pc)
    BY <1>13 DEF WriteScope, Goto, Stage
  <2>2. UNCHANGED <<unit, payload, manifest, temps, merged>>
    BY <1>13 DEF WriteScope, Goto
  <2>3. Removable' = Removable
    BY <1>3, <2>2
  <2>4. 6 * Len(merged) + Stage(pc') < 6 * Len(merged') + Stage(pc)
    BY <1>2, <1>4, <2>1, <2>2
  <2> QED
    BY <1>1, <1>3, <1>4, <2>3, <2>4, MovingOnShrinks
<1>14. CASE Load
  <2>1. CASE ~AssembliesValid
    <3>1. Stage("refused") < Stage(pc)
      BY <1>14 DEF Load, Stage
    <3> QED
      BY <1>5, <1>14, <2>1, <3>1 DEF Load
  <2>2. CASE AssembliesValid
    <3>1. pc = "load" /\ pc' \in {"loadUnits", "run"} /\ UNCHANGED disk
      BY <1>14, <2>2 DEF Load
    <3>2. Stage(pc) = 7 /\ Stage(pc') \in {1, 2}
      BY <3>1 DEF Stage
    <3>4. Removable' = Removable
      BY <3>1 DEF Removable, Assemblies, disk
    <3>5. Len(merged) = 0
      BY <3>1 DEF MemoryEmpty, Early
    <3> QED
      BY <1>1, <1>4, <3>2, <3>4, <3>5, MovingOnShrinks
  <2> QED
    BY <2>1, <2>2
<1>15. CASE PruneUnit
  <2>1. PICK u \in Units : unit[u] # None /\ unit' = [unit EXCEPT ![u] = None]
    BY <1>15 DEF PruneUnit
  <2>2. unit'[u] = None /\ \A m \in Units : m # u => unit'[m] = unit[m]
    BY <1>2, <2>1
  <2>3. Cardinality(Present(unit')) = Cardinality(Present(unit)) - 1
    BY <2>1, <2>2, FileRemoved
  <2>4. UNCHANGED <<payload, temps, manifest, pc, merged>>
    BY <1>15 DEF PruneUnit
  <2>5. Removable' = Removable - 1
    BY <1>3, <1>4, <2>3, <2>4, SMTT(30)
  <2> QED
    BY <1>1, <2>4, <2>5, RemovalShrinks
<1>16. CASE UnitsPruned
  <2>1. \/ pc = "recoverUnits" /\ Goto("recoverAssemblies")
        \/ pc \in {"loadUnits", "pruneUnits"} /\ Goto("done")
    BY <1>16 DEF UnitsPruned
  <2>2. /\ Stage("recoverUnits") = 12 /\ Stage("recoverAssemblies") = 11
        /\ Stage("loadUnits") = 1 /\ Stage("pruneUnits") = 1 /\ Stage("done") = 0
    BY DEF Stage
  <2>3. \E l : Goto(l) /\ Stage(l) < Stage(pc)
    BY <2>1, <2>2
  <2> QED
    BY <1>5, <1>16, <2>3 DEF UnitsPruned
<1>17. CASE PruneAssembly
  <2>1. PICK n \in Superseded : PruneNext(n)
    BY <1>17 DEF PruneAssembly
  <2>2. n \in Units /\ (manifest[n] # None \/ payload[n] # None)
    <3>1. Keep \in Int /\ Keep <= N
      <4>1. CASE pc = "pruneAssemblies"
        BY <1>1, <4>1, MergedFacts, NAssumption DEF Keep
      <4>2. CASE pc # "pruneAssemblies"
        BY <4>2, LatestFacts, NAssumption DEF Keep, IInv, FilesInv
      <4> QED
        BY <4>1, <4>2
    <3> QED
      BY <2>1, <3>1, NAssumption DEF Superseded, Units
  <2>3. UNCHANGED <<unit, temps, pc, merged>>
    BY <1>17 DEF PruneAssembly
  <2>4. CASE manifest[n] # None
    <3>1. manifest' = [manifest EXCEPT ![n] = None] /\ UNCHANGED payload
      BY <2>1, <2>4 DEF PruneNext
    <3>2. manifest'[n] = None /\ \A m \in Units : m # n => manifest'[m] = manifest[m]
      BY <1>2, <2>2, <3>1
    <3>3. Cardinality(Present(manifest')) = Cardinality(Present(manifest)) - 1
      BY <2>2, <2>4, <3>2, FileRemoved
    <3>4. Removable' = Removable - 1
      BY <1>3, <1>4, <2>3, <3>1, <3>3, SMTT(30)
    <3> QED
      BY <1>1, <2>3, <3>4, RemovalShrinks
  <2>5. CASE manifest[n] = None
    <3>1. payload' = [payload EXCEPT ![n] = None] /\ UNCHANGED manifest
      BY <2>1, <2>5 DEF PruneNext
    <3>2. payload'[n] = None /\ \A m \in Units : m # n => payload'[m] = payload[m]
      BY <1>2, <2>2, <3>1
    <3>3. Cardinality(Present(payload')) = Cardinality(Present(payload)) - 1
      BY <2>2, <2>5, <3>2, FileRemoved
    <3>4. Removable' = Removable - 1
      BY <1>3, <1>4, <2>3, <3>1, <3>3, SMTT(30)
    <3> QED
      BY <1>1, <2>3, <3>4, RemovalShrinks
  <2> QED
    BY <2>4, <2>5
<1>18. CASE AssembliesPruned
  <2>1. \/ pc = "recoverAssemblies" /\ Goto("recoverCount")
        \/ pc = "pruneAssemblies" /\ (Goto("pruneUnits") \/ Goto("run"))
    BY <1>18 DEF AssembliesPruned
  <2>2. /\ Stage("recoverAssemblies") = 11 /\ Stage("recoverCount") = 10
        /\ Stage("pruneAssemblies") = 3 /\ Stage("pruneUnits") = 1 /\ Stage("run") = 2
    BY DEF Stage
  <2>3. \E l : Goto(l) /\ Stage(l) < Stage(pc)
    BY <2>1, <2>2
  <2> QED
    BY <1>5, <1>18, <2>3 DEF AssembliesPruned
<1>19. ASSUME pc \in {"run", "writeUnit"}, NEW w, Merge(w), Removable' <= Removable + 1
       PROVE  Shrinks
  <2>1. merged \in Seq(Worlds) /\ merged' = Append(merged, w) /\ pc' \in {"run", "publish"}
    BY <1>1, <1>19, MergedFacts DEF Merge
  <2>2. Len(merged') = Len(merged) + 1
    BY <2>1
  <2>3. Stage(pc) \in {1, 2} /\ Stage(pc') \in {2, 6}
    BY <1>19, <2>1 DEF Stage
  <2> QED
    BY <1>1, <1>2, <1>19, <2>2, <2>3, MovingOnShrinks
<1>20. CASE LoadUnit
  <2> DEFINE u == Len(merged) + 1
  <2>1. /\ pc = "run" /\ UNCHANGED <<disk, committed, fixed>>
        /\ Goto("writeUnit") \/ Refuse("evidence") \/ Merge(unit[u])
    BY <1>20 DEF LoadUnit
  <2>2. Stage("run") = 2 /\ Stage("writeUnit") = 1
    BY DEF Stage
  <2>3. Removable' = Removable
    BY <2>1 DEF Removable, Assemblies, disk
  <2>4. CASE Merge(unit[u])
    BY <1>3, <1>4, <1>19, <2>1, <2>3, <2>4
  <2>5. CASE Goto("writeUnit") \/ Refuse("evidence")
    BY <1>5, <1>6, <2>1, <2>2, <2>5
  <2> QED
    BY <2>1, <2>4, <2>5
<1>21. CASE CommitUnit
  <2> DEFINE u == Len(merged) + 1
  <2>1. pc = "writeUnit" /\ UNCHANGED <<scope, payload, manifest, temps, fixed>>
    BY <1>21 DEF CommitUnit
  <2>2. Stage("writeUnit") = 1
    BY DEF Stage
  <2>3. CASE unit[u] # None
    <3>1. Refuse("exists") /\ UNCHANGED <<unit, committed>>
      BY <1>21, <2>3 DEF CommitUnit
    <3> QED
      BY <1>5, <1>6, <2>1, <2>2, <3>1 DEF disk
  <2>4. CASE unit[u] = None
    <3>1. unit' = [unit EXCEPT ![u] = inputs] /\ Merge(inputs)
      BY <1>21, <2>4 DEF CommitUnit
    <3>2. u \in Units
      BY <1>2, <2>1, NAssumption DEF IInv, ProcessInv, InMemory, Units
    <3> HIDE DEF u
    <3>3. \A m \in Units : m # u => unit'[m] = unit[m]
      BY <1>2, <3>1
    <3>4. Cardinality(Present(unit')) <= Cardinality(Present(unit)) + 1
      BY <3>2, <3>3, FileWritten
    <3>5. Removable' <= Removable + 1
      BY <1>3, <1>4, <2>1, <3>4, SMTT(30)
    <3> QED
      BY <1>19, <2>1, <3>1, <3>5
  <2> QED
    BY <2>3, <2>4
<1>22. CASE PublishAssembly
  <2>1. Refuse("exists") \/ Refuse("missing") \/ Goto("writePayload")
    BY <1>22 DEF PublishAssembly
  <2>2. pc = "publish" /\ Stage("publish") = 6 /\ Stage("writePayload") = 5
    BY <1>22 DEF PublishAssembly, Stage
  <2> QED
    BY <1>5, <1>6, <1>22, <2>1, <2>2 DEF PublishAssembly
<1>23. CASE CommitPayload
  <2>1. /\ pc = "writePayload" /\ pc' = "writeManifest"
        /\ payload' = [payload EXCEPT ![Len(merged)] = merged]
        /\ UNCHANGED <<unit, manifest, temps, merged>>
    BY <1>23 DEF CommitPayload, Goto
  <2>2. Len(merged) \in Units
    BY <2>1 DEF IInv, ProcessInv, InMemory
  <2>3. \A m \in Units : m # Len(merged) => payload'[m] = payload[m]
    BY <1>2, <2>1
  <2>4. Cardinality(Present(payload')) <= Cardinality(Present(payload)) + 1
    BY <2>2, <2>3, FileWritten
  <2>5. Removable' <= Removable + 1
    BY <1>3, <1>4, <2>1, <2>4, SMTT(30)
  <2>6. Stage(pc) = 5 /\ Stage(pc') = 4
    BY <2>1 DEF Stage
  <2> QED
    BY <1>1, <1>2, <2>1, <2>5, <2>6, MovingOnShrinks
<1>24. CASE CommitManifest
  <2>1. /\ pc = "writeManifest" /\ pc' = "pruneAssemblies"
        /\ \A m \in Units : m # Len(merged) => manifest'[m] = manifest[m]
        /\ UNCHANGED <<unit, payload, temps, merged>>
    BY <1>2, <1>24 DEF CommitManifest, Goto
  <2>2. Len(merged) \in Units
    BY <2>1 DEF IInv, ProcessInv, InMemory
  <2>3. Cardinality(Present(manifest')) <= Cardinality(Present(manifest)) + 1
    BY <2>1, <2>2, FileWritten
  <2>4. Removable' <= Removable + 1
    BY <1>3, <1>4, <2>1, <2>3, SMTT(30)
  <2>5. Stage(pc) = 4 /\ Stage(pc') = 3
    BY <2>1 DEF Stage
  <2> QED
    BY <1>1, <1>2, <2>1, <2>4, <2>5, MovingOnShrinks
<1> QED
  BY <1>7, <1>8, <1>9, <1>10, <1>11, <1>12, <1>13, <1>14, <1>15, <1>16, <1>17, <1>18,
     <1>20, <1>21, <1>22, <1>23, <1>24 DEF Process

(* Every step that a run takes by itself brings it nearer to its end, for
   every plan and whatever earlier runs left behind (recover_existing to
   prune_assemblies). *)
THEOREM ProgressRunsShrink == Spec => RunsShrink
<1>1. Init => MemoryEmpty
  BY DEF Init, MemoryEmpty
<1>2. Spec => []MemoryEmpty
  BY <1>1, NextKeepsMemoryEmpty, PTL DEF Spec
<1>3. IInv /\ MemoryEmpty /\ [Next]_vars =>
        [pc' # "down" =>
           2 * StepsAhead' + Removable' < 2 * StepsAhead + Removable]_vars
  BY ProcessShrinks DEF Next, Stop, Rerun, Edit, Shrinks
<1> QED
  BY <1>2, <1>3, ProgressInvariant, PTL DEF Spec, RunsShrink
=============================================================================
