--------------------------- MODULE MCVerification ---------------------------
(* Instance of Verification for TLC.                                       *)
EXTENDS Verification, TLC

\* Dispatchers are interchangeable.
Symmetry == Permutations(Dispatcher)
=============================================================================
