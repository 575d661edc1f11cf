----------------------------- MODULE ModelCheck -----------------------------
(***************************************************************************)
(* The check of a model against a cube and a formula at the end of         *)
(* verifySatOnce (worker/result-verifier.ts), one clause at a time. A      *)
(* literal of the cube is checked like a clause of its own; the literals   *)
(* looked at are counted against a budget, those after the true one of a   *)
(* clause included.                                                        *)
(***************************************************************************)
EXTENDS Cnf

CONSTANT MaxChecks       \* maxLiteralChecks
ASSUME BudgetAssumption == MaxChecks \in Nat

VARIABLES
  model,       \* decodedModel.assignment
  cursor,      \* clauses checked
  spent,       \* checkedLiterals
  opinion      \* the answer, "reading" before it

modelVars == <<model, cursor, spent, opinion>>

Opinions == {"reading", "valid", "invalid", "limit"}

ModelCheckStart == cursor = 0 /\ spent = 0 /\ opinion = "reading"
ModelCheckStarts == cursor' = 0 /\ spent' = 0 /\ opinion' = "reading" /\ UNCHANGED model

CheckClause(clauses) ==
  /\ opinion = "reading" /\ cursor < Len(clauses)
  /\ cursor' = cursor + 1
  /\ spent' = spent + Len(clauses[cursor + 1])
  /\ opinion' = IF spent' > MaxChecks THEN "limit"
                ELSE IF ~Satisfies(model, clauses[cursor + 1]) THEN "invalid"
                ELSE "reading"
  /\ UNCHANGED model

\* Slip: one clause more is waited for.
OneMoreChecked(clauses) ==
  /\ opinion = "reading" /\ cursor > Len(clauses)
  /\ opinion' = "valid"
  /\ UNCHANGED <<model, cursor, spent>>

AllChecked(clauses) ==
  /\ opinion = "reading" /\ cursor = Len(clauses)
  /\ opinion' = "valid"
  /\ UNCHANGED <<model, cursor, spent>>
=============================================================================
