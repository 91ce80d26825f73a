---------------------------- MODULE ReviewLedger ----------------------------
(***************************************************************************)
(* What the method-review stage promises, without journal, batches, tasks, *)
(* budget or crashes.  For every scan and method there is a durable        *)
(* status; a run of the stage may publish a result.  Three promises:       *)
(*   - a final review is final: its status never changes again;            *)
(*   - a method is reviewed to a final result once: a scan that needs a    *)
(*     method which another scan has finished under the same review        *)
(*     context takes that result over;                                     *)
(*   - a published result covers every method of its scan, and says of     *)
(*     each method what the durable status says.                           *)
(***************************************************************************)
EXTENDS Naturals

CONSTANTS Scans, Units, UnitsOf, ContextOf, NoReport

VARIABLES
  status,  \* what is durable about every method of every scan
  report   \* the published result: the scan and its unresolved methods

vars == <<status, report>>

Init ==
  /\ status = [s \in Scans |-> [u \in Units |-> "none"]]
  /\ report = NoReport

\* Some scan under the review context of s has finished u.
FinishedElsewhere(s, u) ==
  \E r \in Scans : ContextOf[r] = ContextOf[s] /\ status[r][u] = "final"

Settle(s, u, v) ==
  /\ status[s][u] # "final"
  /\ v \in {"retryable", "final"}
  /\ FinishedElsewhere(s, u) => v = "final"
  /\ status' = [status EXCEPT ![s][u] = v]
  /\ report = NoReport /\ UNCHANGED report

Publish(s) ==
  /\ report = NoReport
  /\ \A u \in UnitsOf[s] : status[s][u] # "none"
  /\ report' = [scan |-> s,
                unresolved |-> {u \in UnitsOf[s] : status[s][u] = "retryable"}]
  /\ UNCHANGED status

Withdraw ==
  /\ report # NoReport
  /\ report' = NoReport
  /\ UNCHANGED status

Next ==
  \/ \E s \in Scans, u \in Units, v \in {"retryable", "final"} : Settle(s, u, v)
  \/ \E s \in Scans : Publish(s)
  \/ Withdraw

Spec == Init /\ [][Next]_vars
=============================================================================
