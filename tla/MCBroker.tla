------------------------------ MODULE MCBroker ------------------------------
(***************************************************************************)
(* Instances of Broker for TLC.                                            *)
(***************************************************************************)
EXTENDS Broker, TLC

\* Operation ids are interchangeable: no property names one.
Symmetry == Permutations(Op)
=============================================================================
