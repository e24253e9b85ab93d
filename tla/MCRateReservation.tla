------------------------- MODULE MCRateReservation -------------------------
(***************************************************************************)
(* Instances of RateReservation for TLC.                                   *)
(***************************************************************************)
EXTENDS RateReservation, TLC

\* Callers are interchangeable: no property names one.
Symmetry == Permutations(Caller)
=============================================================================
