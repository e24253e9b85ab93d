--------------------------- MODULE MCResearchTask ---------------------------
(***************************************************************************)
(* Instance of ResearchTask for TLC: a health plan, and a baseline that    *)
(* needs it and whose intent ends earlier.                                 *)
(***************************************************************************)
EXTENDS ResearchTask, TLC

CONSTANTS health, baseline, i1, i2

IntentOfPlan == [p \in Plan |-> IF p = health THEN i2 ELSE i1]
NeedsOf == [p \in Plan |-> IF p = baseline THEN {health} ELSE {}]
EndOf == [i \in Intent |-> IF i = i1 THEN MaxSetBack + 1 ELSE MaxSetBack + 2]

\* What an authorization says is not looked at while it does not stand.
Bound == permission.stands \/ permission.digest = 0

Symmetry == Permutations(Operator) \cup Permutations(Number)
=============================================================================
