------------------------- MODULE MCNetworkAdmission -------------------------
(***************************************************************************)
(* Instances of NetworkAdmission for TLC.                                  *)
(***************************************************************************)
EXTENDS NetworkAdmission, TLC

\* Calls are interchangeable: no property names one.
Symmetry == Permutations(Call)
=============================================================================
