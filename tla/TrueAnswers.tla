----------------------------- MODULE TrueAnswers -----------------------------
(***************************************************************************)
(* What ResultVerifierDO (worker/result-verifier.ts) may tell the          *)
(* coordinator of a formula.  The formula is the set of its models; a cube *)
(* is the set of the literals that were assumed.                           *)
(*                                                                         *)
(* ResultVerifier has the verifier itself; that it says nothing else is    *)
(* proved in ResultVerifier_proofs.                                        *)
(***************************************************************************)
EXTENDS Integers

CONSTANTS
    NumVars,        \* variables of the formula (variable_count)
    Models,         \* the assignments that satisfy the formula
    FormulaParses   \* whether the stored formula passes the verifier's checks

Assignment == [1..NumVars -> BOOLEAN]

ASSUME FormulaAssumption ==
    /\ NumVars \in Nat
    /\ Models \subseteq Assignment
    /\ FormulaParses \in BOOLEAN

Literal == {x \in -NumVars..NumVars : x # 0}

Satisfies(m, x) == IF x > 0 THEN m[x] ELSE ~m[-x]
Covers(cube, m) == \A x \in cube : Satisfies(m, x)
HasModel(cube) == \E m \in Models : Covers(cube, m)

\* VerifySatResult and VerifyUnsatResult, by status
Answer == {"VALID_SAT", "INVALID_MODEL", "VALID_UNSAT", "INVALID_PROOF",
           "OWNER_CHECK_REQUIRED", "INVALID_FORMULA", "VERIFICATION_TIMEOUT"}

\* What ResultVerifierDO, or a failed read of an artifact before it, may answer
\* of a model or a proof a browser sent.  A stored formula that can be opened is
\* assumed to be read to its end.
SatAnswers(cube) ==
    {"VERIFICATION_TIMEOUT", "INVALID_MODEL"}
    \cup (IF FormulaParses THEN {} ELSE {"INVALID_FORMULA"})
    \cup (IF FormulaParses /\ HasModel(cube) THEN {"VALID_SAT"} ELSE {})

\* Slip: the proof may be of a cube of its sender's choice.
UnsatAnswersUnbound(cube) ==
    IF FormulaParses /\ \E c \in SUBSET Literal : ~HasModel(c)
    THEN {"VERIFICATION_TIMEOUT", "OWNER_CHECK_REQUIRED", "INVALID_PROOF", "VALID_UNSAT"}
    ELSE {"VERIFICATION_TIMEOUT"}
UnsatAnswers(cube) ==
    {"VERIFICATION_TIMEOUT", "OWNER_CHECK_REQUIRED", "INVALID_PROOF"}
    \cup (IF FormulaParses THEN {} ELSE {"INVALID_FORMULA"})
    \cup (IF FormulaParses /\ ~HasModel(cube) THEN {"VALID_UNSAT"} ELSE {})
=============================================================================
