--------------------------- MODULE IndexerProgress ---------------------------
(***************************************************************************)
(* The durable progress of a compiler-backed semantic index: one checkpoint*)
(* file per compiler unit, and at phase boundaries an assembly (a payload, *)
(* then the manifest that commits it) which supersedes the assemblies and, *)
(* once it covers the whole plan, the unit checkpoints as well.  A process *)
(* may stop between any two file operations and the run is started again.  *)
(*                                                                         *)
(* SemanticProgressStore (semantic_indexer_progress*.rs) and the Go driver *)
(* that uses it: go_variant_execution_order recovers the store of every    *)
(* planned variant, then run_go_compiler_world opens it and works it off.  *)
(***************************************************************************)
EXTENDS Naturals, Sequences, FiniteSets

CONSTANTS
  N,           \* compiler units in the plan: document shards, then pairs
  Boundaries,  \* unit counts at which an assembly is published
  Worlds,      \* compiler inputs a store can be asked to work for
  None,        \* an absent file
  MaxCrashes   \* bound on the stops of a running process

ASSUME NAssumption == N \in Nat \ {0}
ASSUME BoundariesAssumption == Boundaries \subseteq 1..N /\ N \in Boundaries
ASSUME MaxCrashesAssumption == MaxCrashes \in Nat

Units == 1..N

\* The units of a prefix of the plan, each with the inputs it was indexed from.
Prefixes == UNION {[1..n -> Worlds] : n \in 0..N}

Manifests == [units : Prefixes, payload : Prefixes]

ASSUME NoneAssumption ==
  None \notin Worlds /\ None \notin Prefixes /\ None \notin Manifests

VARIABLES
  inputs,     \* the compiler inputs the run is for
  scope,      \* scope.json: the inputs the store belongs to
  unit,       \* units/<u>.json: the inputs the checkpoint was indexed from
  payload,    \* assemblies/assembly-<n>.payload.json: the merged units
  manifest,   \* assemblies/assembly-<n>.json: units and payload it commits
  temps,      \* the <file>.tmp left behind
  pc,         \* where the process is
  merged,     \* the merged index in memory: the inputs of its units
  reason,     \* why the store refused
  committed,  \* history: the units whose checkpoint was ever committed
  crashes

disk == <<scope, unit, payload, manifest, temps>>
fixed == <<inputs, crashes>>
vars == <<inputs, scope, unit, payload, manifest, temps, pc, merged, reason,
          committed, crashes>>

ScopeTmp == <<"scope", 0>>
UnitTmp(u) == <<"unit", u>>
PayloadTmp(n) == <<"payload", n>>
ManifestTmp(n) == <<"manifest", n>>
AssemblyTmps == ({"payload", "manifest"} \X Units)
UnitTmps == ({"unit"} \X Units)

Init ==
  /\ inputs \in Worlds
  /\ scope = None
  /\ unit = [u \in Units |-> None]
  /\ payload = [n \in Units |-> None]
  /\ manifest = [n \in Units |-> None]
  /\ temps = {}
  /\ pc = "down"
  /\ merged = << >>
  /\ reason = "none"
  /\ committed = {}
  /\ crashes = 0

-----------------------------------------------------------------------------
(* What the code reads off the directory.                                  *)

Assemblies == {n \in Units : manifest[n] # None}

\* The orphans remove_assembly_temps deletes with the temporary files.
Orphans == {n \in Units : payload[n] # None /\ manifest[n] = None}

\* The count of the last assembly load_assembly_normalized meets.
LastIn(counts) ==
  IF counts = {} THEN 0
  ELSE CHOOSE n \in counts : \A m \in counts : m <= n

Latest == LastIn(Assemblies)

UnitsMatch(n) ==
  \A u \in 1..n : unit[u] # None /\ unit[u] = manifest[n].units[u]

\* validate_assembly_checkpoint: only a full assembly does without its units.
AssemblyValid(n) ==
  /\ n # N => UnitsMatch(n)
  /\ payload[n] = manifest[n].payload

AssembliesValid == \A n \in Assemblies : AssemblyValid(n)

\* Where a committed unit counts from, as recover_existing counts it.
Durable ==
  CHOOSE d \in Latest..N :
    /\ \A u \in (Latest + 1)..d : unit[u] # None
    /\ d < N => unit[d + 1] = None

\* The temporary files the function that is running discards.
Discarded ==
  (IF pc \in {"recover", "open"} THEN {ScopeTmp} ELSE {})
    \cup (IF pc = "recover" /\ scope # None
          THEN UnitTmps \cup AssemblyTmps ELSE {})
    \cup (IF pc \in {"load", "publish"} THEN AssemblyTmps ELSE {})
    \cup (IF pc = "run" THEN {UnitTmp(Len(merged) + 1)} ELSE {})

SweepsOrphans ==
  (pc = "recover" /\ scope # None) \/ pc \in {"load", "publish"}

Clean ==
  /\ temps \cap Discarded = {}
  /\ SweepsOrphans => Orphans = {}

\* The file write_atomic_new is writing; a stop may leave its .tmp behind.
InFlight ==
  CASE pc = "writeScope"    -> {ScopeTmp}
    [] pc = "writeUnit"     -> {UnitTmp(Len(merged) + 1)}
    [] pc = "writePayload"  -> {PayloadTmp(Len(merged))}
    [] pc = "writeManifest" -> {ManifestTmp(Len(merged))}
    [] OTHER                -> {}

-----------------------------------------------------------------------------
Goto(l) == pc' = l /\ UNCHANGED <<reason, merged>>

Refuse(why) ==
  /\ pc' = "refused"
  /\ reason' = why
  /\ UNCHANGED merged

Start ==
  /\ pc = "down"
  /\ Goto("recover")
  /\ UNCHANGED <<disk, committed, fixed>>

DiscardTemp ==
  /\ \E t \in temps \cap Discarded : temps' = temps \ {t}
  /\ UNCHANGED <<scope, unit, payload, manifest, pc, merged, reason, committed,
                 fixed>>

DropOrphan ==
  /\ SweepsOrphans
  /\ \E n \in Orphans : payload' = [payload EXCEPT ![n] = None]
  /\ UNCHANGED <<scope, unit, manifest, temps, pc, merged, reason, committed,
                 fixed>>

\* recover_existing, up to what load_assembly_normalized finds.
Recover ==
  /\ pc = "recover" /\ Clean
  /\ IF scope = None
       THEN IF \/ \E u \in Units : unit[u] # None
               \/ \E n \in Units : payload[n] # None \/ manifest[n] # None
               \/ temps # {}
              THEN Refuse("unscoped")
              ELSE Goto("open")
       ELSE IF ~AssembliesValid
              THEN Refuse("assembly")
              ELSE Goto(IF Latest = N THEN "recoverUnits"
                                      ELSE "recoverAssemblies")
  /\ UNCHANGED <<disk, committed, fixed>>

\* *Mutant*: the count is repeated by a recovery of its own, without end.
CountDurableAgain ==
  /\ pc = "recoverCount"
  /\ Goto("recover")
  /\ UNCHANGED <<disk, committed, fixed>>

\* recover_existing, its last part: the unit checkpoints form a prefix.
CountDurable ==
  /\ pc = "recoverCount"
  /\ IF \E u \in (Latest + 1)..N :
           unit[u] # None /\ \E v \in (Latest + 1)..u : unit[v] = None
       THEN Refuse("gap")
       ELSE IF \E u \in (Latest + 1)..N : unit[u] \notin {None, scope}
              THEN Refuse("evidence")
              ELSE Goto("open")
  /\ UNCHANGED <<disk, committed, fixed>>

\* *Mutant*: a store written for other inputs is opened all the same.
OpenAnyScope ==
  /\ pc = "open" /\ Clean
  /\ Goto(IF scope # None THEN "load" ELSE "writeScope")
  /\ UNCHANGED <<disk, committed, fixed>>

\* *Mutant*: a store written for other inputs is bound to the new ones.
OpenRebinding ==
  /\ pc = "open" /\ Clean
  /\ Goto(IF scope = inputs THEN "load" ELSE "writeScope")
  /\ UNCHANGED <<disk, committed, fixed>>

Open ==
  /\ pc = "open" /\ Clean
  /\ IF scope # None
       THEN IF scope # inputs THEN Refuse("scope") ELSE Goto("load")
       ELSE IF temps \cap UnitTmps # {} \/ \E u \in Units : unit[u] # None
              THEN Refuse("unscoped")
              ELSE Goto("writeScope")
  /\ UNCHANGED <<disk, committed, fixed>>

WriteScope ==
  /\ pc = "writeScope"
  /\ scope' = inputs
  /\ Goto("load")
  /\ UNCHANGED <<unit, payload, manifest, temps, committed, fixed>>

\* *Mutant*: the driver forgets to resume from the assembly.
LoadWithoutAssembly ==
  /\ pc = "load" /\ Clean
  /\ IF ~AssembliesValid THEN Refuse("assembly") ELSE Goto("run")
  /\ UNCHANGED <<disk, committed, fixed>>

\* load_assembly, and the driver that resumes from what it returns.
Load ==
  /\ pc = "load" /\ Clean
  /\ IF ~AssembliesValid
       THEN Refuse("assembly")
       ELSE /\ pc' = (IF Latest = N THEN "loadUnits" ELSE "run")
            /\ merged' = (IF Latest = 0 THEN << >> ELSE payload[Latest])
            /\ UNCHANGED reason
  /\ UNCHANGED <<disk, committed, fixed>>

\* prune_completed_unit_checkpoints, one file a step, in the plan's order.
PruneUnit ==
  /\ pc \in {"recoverUnits", "loadUnits", "pruneUnits"}
  /\ \E u \in Units :
       /\ unit[u] # None
       /\ \A v \in 1..(u - 1) : unit[v] = None
       /\ unit' = [unit EXCEPT ![u] = None]
  /\ UNCHANGED <<scope, payload, manifest, temps, pc, merged, reason,
                 committed, fixed>>

UnitsPruned ==
  /\ \A u \in Units : unit[u] = None
  /\ \/ pc = "recoverUnits" /\ Goto("recoverAssemblies")
     \/ pc \in {"loadUnits", "pruneUnits"} /\ Goto("done")
  /\ UNCHANGED <<disk, committed, fixed>>

\* prune_assemblies(keep): ascending, the manifest before its payload.
Keep == IF pc = "pruneAssemblies" THEN Len(merged) ELSE Latest

PruneNext(n) ==
  IF manifest[n] # None
    THEN manifest' = [manifest EXCEPT ![n] = None] /\ UNCHANGED payload
    ELSE payload' = [payload EXCEPT ![n] = None] /\ UNCHANGED manifest

\* *Mutant*: the assembly that is to be kept is pruned with the others.
SupersededAndKept == {n \in 1..Keep : manifest[n] # None \/ payload[n] # None}

Superseded == {n \in 1..(Keep - 1) : manifest[n] # None \/ payload[n] # None}

PruneAssembly ==
  /\ pc \in {"recoverAssemblies", "pruneAssemblies"}
  /\ \E n \in Superseded :
       /\ \A m \in Superseded : n <= m
       /\ PruneNext(n)
  /\ UNCHANGED <<scope, unit, temps, pc, merged, reason, committed, fixed>>

AssembliesPruned ==
  /\ Superseded = {}
  /\ \/ pc = "recoverAssemblies" /\ Goto("recoverCount")
     \/ pc = "pruneAssemblies"
        /\ Goto(IF Len(merged) = N THEN "pruneUnits" ELSE "run")
  /\ UNCHANGED <<disk, committed, fixed>>

-----------------------------------------------------------------------------
(* The driver's loop over the units that are not assembled yet.            *)

\* should_publish_go_assembly, after the next unit was merged.
Merge(w) ==
  /\ merged' = Append(merged, w)
  /\ pc' = (IF Len(merged) + 1 \in Boundaries THEN "publish" ELSE "run")

\* load: the checkpoint of an earlier run, or the indexer has to run.
LoadUnit ==
  /\ pc = "run" /\ Clean
  /\ LET u == Len(merged) + 1
     IN  CASE unit[u] = None  -> Goto("writeUnit")
           [] unit[u] = scope -> Merge(unit[u]) /\ UNCHANGED reason
           [] OTHER           -> Refuse("evidence")
  /\ UNCHANGED <<disk, committed, fixed>>

\* The indexer ran; publish commits its checkpoint.
CommitUnit ==
  /\ pc = "writeUnit"
  /\ LET u == Len(merged) + 1
     IN  IF unit[u] # None
           THEN Refuse("exists") /\ UNCHANGED <<unit, committed>>
           ELSE /\ unit' = [unit EXCEPT ![u] = inputs]
                /\ committed' = committed \cup {u}
                /\ Merge(inputs)
                /\ UNCHANGED reason
  /\ UNCHANGED <<scope, payload, manifest, temps, fixed>>

\* publish_assembly, before its first write.
PublishAssembly ==
  /\ pc = "publish" /\ Clean
  /\ CASE manifest[Len(merged)] # None -> Refuse("exists")
       [] \E u \in 1..Len(merged) : unit[u] = None -> Refuse("missing")
       [] OTHER -> Goto("writePayload")
  /\ UNCHANGED <<disk, committed, fixed>>

CommitPayload ==
  /\ pc = "writePayload"
  /\ payload' = [payload EXCEPT ![Len(merged)] = merged]
  /\ Goto("writeManifest")
  /\ UNCHANGED <<scope, unit, manifest, temps, committed, fixed>>

\* *Mutant*: the units of a full assembly go before the older assemblies.
CommitManifestUnitsFirst ==
  /\ pc = "writeManifest"
  /\ manifest' = [manifest EXCEPT ![Len(merged)] =
                    [units   |-> [u \in 1..Len(merged) |-> unit[u]],
                     payload |-> merged]]
  /\ Goto(IF Len(merged) = N THEN "pruneUnits" ELSE "pruneAssemblies")
  /\ UNCHANGED <<scope, unit, payload, temps, committed, fixed>>

CommitManifest ==
  /\ pc = "writeManifest"
  /\ manifest' = [manifest EXCEPT ![Len(merged)] =
                    [units   |-> [u \in 1..Len(merged) |-> unit[u]],
                     payload |-> merged]]
  /\ Goto("pruneAssemblies")
  /\ UNCHANGED <<scope, unit, payload, temps, committed, fixed>>

-----------------------------------------------------------------------------
(* The world around the process.                                           *)

Process ==
  \/ Start \/ DiscardTemp \/ DropOrphan
  \/ Recover \/ CountDurable \/ Open \/ WriteScope \/ Load
  \/ PruneUnit \/ UnitsPruned \/ PruneAssembly \/ AssembliesPruned
  \/ LoadUnit \/ CommitUnit \/ PublishAssembly \/ CommitPayload
  \/ CommitManifest

Ended == pc \in {"done", "refused"}

\* A crash, an indexer that fails, an I/O error: the process is gone.
Stop ==
  /\ pc # "down" /\ ~Ended
  /\ crashes < MaxCrashes
  /\ crashes' = crashes + 1
  /\ temps' \in {temps, temps \cup InFlight}
  /\ pc' = "down"
  /\ merged' = << >>
  /\ UNCHANGED <<scope, unit, payload, manifest, reason, committed, inputs>>

\* A finished or refused run is asked for again.
Rerun ==
  /\ Ended
  /\ pc' = "down"
  /\ merged' = << >>
  /\ reason' = "none"
  /\ UNCHANGED <<disk, committed, fixed>>

\* The sources or the toolchain change between two runs.
Edit ==
  /\ pc = "down"
  /\ inputs' \in Worlds \ {inputs}
  /\ UNCHANGED <<disk, pc, merged, reason, committed, crashes>>

Next == Process \/ Stop \/ Rerun \/ Edit

Spec == Init /\ [][Next]_vars

FairSpec == Spec /\ WF_vars(Process)

-----------------------------------------------------------------------------
TempFiles == {ScopeTmp} \cup UnitTmps \cup AssemblyTmps

Labels == {"down", "recover", "recoverUnits", "recoverAssemblies",
           "recoverCount", "open", "writeScope", "load", "loadUnits", "run",
           "writeUnit", "publish", "writePayload", "writeManifest",
           "pruneAssemblies", "pruneUnits", "done", "refused"}

Reasons == {"none", "scope", "unscoped", "assembly", "gap", "evidence",
            "exists", "missing"}

\* The type of every variable.
TypeOK ==
  /\ inputs \in Worlds
  /\ scope \in Worlds \cup {None}
  /\ unit \in [Units -> Worlds \cup {None}]
  /\ DOMAIN payload = Units
  /\ \A n \in Units : payload[n] = None \/ payload[n] \in [1..n -> Worlds]
  /\ DOMAIN manifest = Units
  /\ \A n \in Units :
       \/ manifest[n] = None
       \/ manifest[n] \in [units : [1..n -> Worlds], payload : [1..n -> Worlds]]
  /\ temps \subseteq TempFiles
  /\ pc \in Labels
  /\ \E n \in 0..N : merged \in [1..n -> Worlds]
  /\ reason \in Reasons
  /\ committed \subseteq Units
  /\ crashes \in 0..MaxCrashes

\* Whatever the pruning has removed so far and wherever the process stopped,
\* a unit whose checkpoint was committed is still in its checkpoint or in the
\* payload of an assembly that covers it (publish, prune_assemblies and
\* prune_completed_unit_checkpoints).
UnitsStayRecoverable ==
  \A u \in committed :
    \/ unit[u] # None
    \/ \E n \in Assemblies : u <= n /\ payload[n] = manifest[n].payload

\* The indexer never runs again for a unit that an earlier run has committed,
\* the purpose of the store (run_or_resume_go_unit).
NoUnitIsIndexedTwice == pc = "writeUnit" => Len(merged) + 1 \notin committed

\* An index that is handed over was merged, unit for unit, from the inputs
\* the run is for, though its parts may come from several runs and the
\* inputs may have changed and changed back in between (the scope check of
\* SemanticProgressStore::open).
ResultIsCurrent == pc = "done" => merged = [u \in Units |-> inputs]

\* A store that only crashes touch is refused for one of two causes: it was
\* written for other inputs, or the final pruning was cut short after the
\* units were gone and before the older manifest was, which takes two crashes.
\* A gap, an unscoped unit, a checkpoint or manifest that is already there,
\* and evidence that changed are refused by the code and never come about.
OnlyFinalPruningBlocks ==
  pc = "refused" =>
    \/ reason = "scope" /\ scope # inputs
    \/ /\ reason = "assembly"
       /\ N \in Assemblies /\ \E n \in Assemblies : n < N
       /\ crashes >= 2

\* The store, read off the disk alone, implements the ledger: bound to its
\* inputs once, and every unit durable in order and for good.
Ledger == INSTANCE UnitLedger WITH world <- scope, durable <- Durable

ImplementsUnitLedger == Ledger!Spec

\* The steps of the control flow that a run has ahead of it: six for every unit
\* that is not merged, and those of the phase it is in.
StepsAhead ==
  6 * (N - Len(merged)) +
    CASE pc = "down" -> 14 [] pc = "recover" -> 13 [] pc = "recoverUnits" -> 12
      [] pc = "recoverAssemblies" -> 11 [] pc = "recoverCount" -> 10
      [] pc = "open" -> 9 [] pc = "writeScope" -> 8 [] pc = "load" -> 7
      [] pc = "publish" -> 6 [] pc = "writePayload" -> 5 [] pc = "writeManifest" -> 4
      [] pc = "pruneAssemblies" -> 3 [] pc = "run" -> 2
      [] pc \in {"writeUnit", "loadUnits", "pruneUnits"} -> 1
      [] pc \in {"done", "refused"} -> 0

\* The files a pruning or a sweep may have to remove.
Removable ==
  Cardinality(temps) + Cardinality({u \in Units : unit[u] # None})
    + Cardinality({n \in Units : payload[n] # None}) + Cardinality(Assemblies)

\* Every step that a run takes by itself brings it nearer to its end, whatever
\* an earlier run left behind: no recovery, load or pruning goes over the
\* same files for ever, and the files a run writes, and prunes again, are paid
\* for by the units it merges (recover_existing to prune_assemblies).
RunsShrink ==
  [][pc' # "down" =>
       2 * StepsAhead' + Removable' < 2 * StepsAhead + Removable]_vars

\* Once crashes are over every run ends: finished, or refused.
RunsEnd == []<>Ended
=============================================================================
