----------------------------- MODULE MCJobService -----------------------------
(***************************************************************************)
(* Instances of JobService for TLC.                                        *)
(***************************************************************************)
EXTENDS JobService, TLC

CONSTANTS d1, d2, n1, n2

\* Submissions from two places that share nothing, or share the network.
OnePlace == {<<d1, n1>>}
SharedNetwork == {<<d1, n1>>, <<d2, n1>>}

ServiceSymmetry == Permutations(Request) \cup Permutations(Lease)
=============================================================================
