----------------------------- MODULE LratCheck -----------------------------
(***************************************************************************)
(* The LRAT checker of shared/lrat-check.ts: verifyTextLrat and     *)
(* checkRupChain, one line of the proof and one hint of a line at a time.  *)
(*                                                                         *)
(* The proof is whatever the prover sent, so that every line is one of     *)
(* those the constants allow. Lines that are not even numbers are one kind *)
(* of line, "malformed".                                                   *)
(***************************************************************************)
EXTENDS Cnf

CONSTANTS
  Formulas,      \* what may have to be refuted: sequences of clauses
  LineId,        \* identifiers in the lines of a proof
  LineClause,    \* clauses in the lines of a proof
  LineHints,     \* hint lists in the lines of a proof
  MaxDerived,    \* maxDerivedClauses
  MaxHints       \* maxHints

ASSUME CheckerAssumption ==
  /\ Formulas \subseteq Seq(Clause)
  /\ LineId \subseteq Nat \ {0}
  /\ LineClause \subseteq Clause
  /\ LineHints \subseteq Seq(Int)
  /\ MaxDerived \in Nat /\ MaxHints \in Nat

VARIABLES
  formula,       \* originalClauses
  clauses,       \* the Map `clauses`, by identifier
  chain,         \* the addition being checked: its line, the hints left, `assignment`
  derived,       \* derivedClauses
  hinted,        \* checkedHints
  refuted,       \* reachedEmptyClause
  judgement      \* the answer, "reading" before it

checkerVars == <<formula, clauses, chain, derived, hinted, refuted, judgement>>

Judgements == {"reading", "valid", "invalid", "limit", "full"}

NoChain == [open |-> FALSE, id |-> 0, clause |-> <<>>, hints |-> <<>>, trail |-> {}]
Chain == [open : BOOLEAN, id : Nat, clause : Clause, hints : Seq(Int), trail : SUBSET Literal]

\* verifyTextLrat before the first line: the clauses are numbered from 1.
Numbered(f) == [i \in DOMAIN f |-> f[i]]

CheckerStart(f) ==
  /\ formula = f
  /\ clauses = Numbered(f)
  /\ chain = NoChain
  /\ derived = 0 /\ hinted = 0
  /\ refuted = FALSE
  /\ judgement = "reading"

\* The same, in a step.
CheckerStarts ==
  /\ clauses' = Numbered(formula)
  /\ chain' = NoChain
  /\ derived' = 0 /\ hinted' = 0
  /\ refuted' = FALSE
  /\ judgement' = "reading"
  /\ UNCHANGED formula
-----------------------------------------------------------------------------
(* Ends of the check.                                                      *)

Judge(j) == judgement' = j /\ chain' = NoChain /\ UNCHANGED <<formula, clauses, derived, hinted, refuted>>

Reading == judgement = "reading" /\ ~chain.open

\* A line whose identifier, deletions, zeros or numbers are not as they must be.
MalformedLine == Reading /\ Judge("invalid")

\* A line with a negative hint needs the full checker.
RatLine == Reading /\ Judge("full")

EndOfProof == Reading /\ Judge(IF refuted THEN "valid" ELSE "invalid")
-----------------------------------------------------------------------------
(* A deletion.                                                             *)

Without(map, ids) == [i \in DOMAIN map \ ids |-> map[i]]

\* Deleting what is not there changes nothing, like a comment.
Delete(ids) ==
  /\ Reading
  /\ ids # {} /\ ids \subseteq DOMAIN clauses
  /\ clauses' = Without(clauses, ids)
  /\ UNCHANGED <<formula, chain, derived, hinted, refuted, judgement>>
-----------------------------------------------------------------------------
(* An addition.                                                            *)

With(map, id, clause) ==
  [i \in DOMAIN map \cup {id} |-> IF i = id THEN clause ELSE map[i]]

\* Slip: any clause derived counts as the empty one.
AnyAccepted(id, clause) ==
  /\ clauses' = With(clauses, id, clause)
  /\ refuted' = TRUE
  /\ chain' = NoChain

\* The clause follows; it may replace one of the same identifier.
Accepted(id, clause) ==
  /\ clauses' = With(clauses, id, clause)
  /\ refuted' = (refuted \/ clause = <<>>)
  /\ chain' = NoChain

Negated(clause) == {-clause[i] : i \in DOMAIN clause}

\* Negating a clause that contradicts itself fails: it holds anyway.
Tautology(clause) == \E i, j \in DOMAIN clause : clause[i] = -clause[j]

Add(id, clause, hints) ==
  /\ Reading
  /\ derived' = derived + 1
  /\ hinted' = hinted + Len(hints)
  /\ IF derived' > MaxDerived \/ hinted' > MaxHints
     THEN judgement' = "limit" /\ UNCHANGED <<clauses, refuted, chain>>
     ELSE /\ UNCHANGED judgement
          /\ IF Tautology(clause)
             THEN Accepted(id, clause)
             ELSE /\ chain' = [open |-> TRUE, id |-> id, clause |-> clause, hints |-> hints,
                               trail |-> Negated(clause)]
                  /\ UNCHANGED <<clauses, refuted>>
  /\ UNCHANGED formula

\* The positions of a clause whose literals have no value yet: a literal that is
\* there twice counts twice.
Unassigned(clause, trail) ==
  {i \in DOMAIN clause : clause[i] \notin trail /\ -clause[i] \notin trail}

\* Slip: one more open literal is overlooked.
UsableAnyhow(clause, trail) == \A i \in DOMAIN clause : clause[i] \notin trail

\* An antecedent is of use if none of its literals is true and at most one open.
Usable(clause, trail) ==
  /\ \A i \in DOMAIN clause : clause[i] \notin trail
  /\ \A i, j \in Unassigned(clause, trail) : i = j

Hint ==
  /\ judgement = "reading" /\ chain.open /\ chain.hints # <<>>
  /\ LET h == Head(chain.hints)
         open == Unassigned(clauses[h], chain.trail)
     IN  IF h \notin DOMAIN clauses THEN Judge("invalid")
         ELSE IF ~Usable(clauses[h], chain.trail) THEN Judge("invalid")
         ELSE IF open = {}
         THEN Accepted(chain.id, chain.clause) /\ UNCHANGED <<formula, derived, hinted, judgement>>
         ELSE /\ chain' = [chain EXCEPT !.hints = Tail(@),
                                        !.trail = @ \cup {clauses[h][i] : i \in open}]
              /\ UNCHANGED <<formula, clauses, derived, hinted, refuted, judgement>>

\* No conflict was reached with the hints given.
HintsExhausted ==
  /\ judgement = "reading" /\ chain.open /\ chain.hints = <<>>
  /\ Judge("invalid")

CheckStep ==
  \/ MalformedLine \/ RatLine \/ EndOfProof
  \/ \E ids \in SUBSET LineId : Delete(ids)
  \/ \E id \in LineId, clause \in LineClause, hints \in LineHints : Add(id, clause, hints)
  \/ Hint \/ HintsExhausted
=============================================================================
