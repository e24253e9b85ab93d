--------------------------- MODULE PlanLifecycle ---------------------------
(***************************************************************************)
(* What the execution of an ExecutionPlan promises: an open plan is        *)
(* cancelled or crosses the network boundary, not both and neither twice.  *)
(* A plan that has crossed sends at most one request and settles with one  *)
(* outcome, which is a success only if the request was sent.  A plan that  *)
(* never settles after crossing stays in doubt.                            *)
(***************************************************************************)
EXTENDS Naturals

VARIABLES
  status,   \* "open", "cancelled", "crossed" or "settled"
  outcome,  \* "none" until the plan settles
  sent      \* number of requests sent

lifecycleVars == <<status, outcome, sent>>

Init == status = "open" /\ outcome = "none" /\ sent = 0

Cancel ==
  /\ status = "open"
  /\ status' = "cancelled"
  /\ UNCHANGED <<outcome, sent>>

Cross ==
  /\ status = "open"
  /\ status' = "crossed"
  /\ UNCHANGED <<outcome, sent>>

Send ==
  /\ status = "crossed"
  /\ sent = 0
  /\ sent' = 1
  /\ UNCHANGED <<status, outcome>>

Settle ==
  /\ status = "crossed"
  /\ status' = "settled"
  /\ \/ outcome' = "failed"
     \/ outcome' = "succeeded" /\ sent = 1
  /\ UNCHANGED sent

Next == Cancel \/ Cross \/ Send \/ Settle

Spec == Init /\ [][Next]_lifecycleVars
=============================================================================
