--------------------------- MODULE MCLocalSolver ---------------------------
(* Instances of LocalSolver for TLC.                                       *)
EXTENDS LocalSolver

CONSTANTS sat, unsat, bad

MCBatches == [f \in File |-> IF f = sat THEN 2 ELSE IF f = unsat THEN 1 ELSE 0]
=============================================================================
