-------------------------- MODULE MCPlanExecution --------------------------
(***************************************************************************)
(* Instances of PlanExecution for TLC.                                     *)
(***************************************************************************)
EXTENDS PlanExecution, TLC

\* Workers are interchangeable: no property names one.
Symmetry == Permutations(Worker)
=============================================================================
