-------------------------------- MODULE Cnf --------------------------------
(***************************************************************************)
(* Formulas in conjunctive normal form and what they mean: the reference   *)
(* the verifiers are compared with.                                        *)
(*                                                                         *)
(* A literal is a variable or its negative, as in DIMACS; a clause is a    *)
(* sequence of literals, which may repeat or contradict each other; a      *)
(* formula is a sequence of clauses. A total assignment is the set of the  *)
(* literals it makes true.                                                 *)
(***************************************************************************)
EXTENDS Integers, Sequences

CONSTANT Variable
ASSUME VariableAssumption == Variable \subseteq Nat \ {0}

Literal == Variable \cup {-v : v \in Variable}
Clause == Seq(Literal)

Assignment == {m \in SUBSET Literal : \A l \in Literal : (l \in m) # (-l \in m)}

Satisfies(m, clause) == \E i \in DOMAIN clause : clause[i] \in m
SatisfiesAll(m, clauses) == \A i \in DOMAIN clauses : Satisfies(m, clauses[i])

Unsatisfiable(clauses) == \A m \in Assignment : ~SatisfiesAll(m, clauses)

\* The clauses that hold under a cube: one unit clause for each of its literals.
UnitClauses(cube) == [i \in DOMAIN cube |-> <<cube[i]>>]
=============================================================================
