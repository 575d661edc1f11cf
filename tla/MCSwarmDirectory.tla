--------------------------- MODULE MCSwarmDirectory ---------------------------
(***************************************************************************)
(* Instances of SwarmDirectory for TLC.                                    *)
(***************************************************************************)
EXTENDS SwarmDirectory, TLC

CONSTANTS d1, d2, n1, n2

\* Submissions from two places, and every mixture of two devices and networks.
TwoPlaces == {<<d1, n1>>, <<d2, n2>>}
AnyPlace == Device \X Network

\* Symmetric where Origins is.
SwarmSymmetry == Permutations(Job) \cup Permutations(Session)
Symmetry == Permutations(Job) \cup Permutations(Device)
            \cup Permutations(Network) \cup Permutations(Session)
=============================================================================
