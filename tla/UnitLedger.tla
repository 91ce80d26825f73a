----------------------------- MODULE UnitLedger -----------------------------
(***************************************************************************)
(* What the progress store of a semantic index promises, without files,    *)
(* assemblies, temporary files or crashes: the store belongs to one set of *)
(* compiler inputs from its first commit on, and its compiler units become *)
(* durable one after the other, in the order of the plan, and stay so.     *)
(***************************************************************************)
EXTENDS Naturals

CONSTANTS N, Worlds, None

VARIABLES
  world,   \* the compiler inputs the store is bound to, or None
  durable  \* how many units of the plan are durable

vars == <<world, durable>>

Init == world = None /\ durable = 0

Bind(w) ==
  /\ world = None
  /\ world' = w
  /\ UNCHANGED durable

Commit ==
  /\ world # None
  /\ durable < N
  /\ durable' = durable + 1
  /\ UNCHANGED world

Next == Commit \/ \E w \in Worlds : Bind(w)

Spec == Init /\ [][Next]_vars
=============================================================================
