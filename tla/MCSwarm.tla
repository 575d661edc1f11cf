------------------------------ MODULE MCSwarm ------------------------------
(***************************************************************************)
(* Instances of Swarm for TLC.                                             *)
(***************************************************************************)
EXTENDS Swarm, TLC

CONSTANTS d1, n1

OnePlace == {<<d1, n1>>}
Times == 0..(Quantum * MaxOffer)
Sessions == Permutations(Session)
=============================================================================
