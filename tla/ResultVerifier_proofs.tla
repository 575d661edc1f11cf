------------------------- MODULE ResultVerifier_proofs -------------------------
(***************************************************************************)
(* What holds of ResultVerifier for every formula, cube, proof, model and  *)
(* budget and for any number of callers: the verifier keeps its types, it  *)
(* announces and stores "valid" only of a true claim, and it implements    *)
(* Judge.                                                                  *)
(*                                                                         *)
(* The core is that a chain of hints is sound: every assignment that       *)
(* satisfies the formula satisfies every clause the checker holds          *)
(* (Follows), and if it falsifies the clause being added it makes all of   *)
(* the trail true (Forced).  At the end this meets what the coordinator    *)
(* assumes of its verifiers (TrueAnswers).                                 *)
(***************************************************************************)
EXTENDS ResultVerifier, TLAPS

\* The assignments under which everything that was given holds.
Models == {m \in Assignment : SatisfiesAll(m, formula)}

\* Whatever the checker holds follows from the formula.
Follows == \A m \in Models : \A i \in DOMAIN clauses : Satisfies(m, clauses[i])

\* What a counterexample to the clause being added would have to make true.
Forced == chain.open => \A m \in Models : ~Satisfies(m, chain.clause) => chain.trail \subseteq m

RefutedIsTrue == refuted \/ judgement = "valid" => Unsatisfiable(formula)

CheckerSound == Follows /\ Forced /\ RefutedIsTrue

\* The clauses read so far are satisfied.
ModelSound ==
  /\ opinion = "reading" => /\ cursor <= Len(formula)
                            /\ \A i \in 1..cursor : Satisfies(model, formula[i])
  /\ opinion = "valid" => SatisfiesAll(model, formula)

\* An answer is found once, stored and only then returned.
OneAnswer ==
  /\ memory.stage \in {"streams", "checking", "storing"} => stored = "none"
  /\ memory.stage = "storing" => memory.result # "none"
  /\ memory.stage = "resolved" => memory.result = stored /\ stored # "none"
  /\ published \subseteq {stored} \ {"none"}

FoundIsTrue == memory.result = "valid" => Claim

IInv ==
  /\ VerifierTypeOK
  /\ CheckerSound /\ ModelSound
  /\ OneAnswer /\ FoundIsTrue /\ StoredIsTrue
-----------------------------------------------------------------------------
(* Literals and clauses.                                                   *)

\* The opposite of a literal is one, and the opposite of that is the first.
LEMMA Opposites ==
  ASSUME NEW l \in Literal PROVE -l \in Literal /\ -(-l) = l /\ l \in Int
BY VariableAssumption DEF Literal

\* Of a literal and its opposite an assignment makes one true.
LEMMA OneOfTwo ==
  ASSUME NEW m \in Assignment, NEW l \in Literal PROVE (l \in m) # (-l \in m)
BY DEF Assignment

\* A clause's members are literals.
LEMMA ClauseLiterals ==
  ASSUME NEW clause \in Clause, NEW i \in DOMAIN clause PROVE clause[i] \in Literal
BY DEF Clause

\* An assignment that falsifies a clause makes all of its opposites true.
LEMMA FalsifiedIsNegated ==
  ASSUME NEW m \in Assignment, NEW clause \in Clause, ~Satisfies(m, clause)
  PROVE  Negated(clause) \subseteq m
<1>1. ASSUME NEW i \in DOMAIN clause PROVE -clause[i] \in m
  <2>1. clause[i] \in Literal BY ClauseLiterals
  <2>2. clause[i] \notin m BY DEF Satisfies
  <2>. QED BY <2>1, <2>2, OneOfTwo
<1>. QED BY <1>1 DEF Negated

\* A clause that contradicts itself holds under every assignment.
LEMMA TautologyHolds ==
  ASSUME NEW m \in Assignment, NEW clause \in Clause, Tautology(clause)
  PROVE  Satisfies(m, clause)
<1>1. PICK i \in DOMAIN clause, j \in DOMAIN clause : clause[i] = -clause[j]
  BY DEF Tautology
<1>2. clause[j] \in Literal BY ClauseLiterals
<1>3. clause[j] \in m \/ clause[i] \in m BY <1>1, <1>2, OneOfTwo
<1>. QED BY <1>3 DEF Satisfies

\* The literals of opposites are literals.
LEMMA NegatedLiterals ==
  ASSUME NEW clause \in Clause PROVE Negated(clause) \subseteq Literal
BY ClauseLiterals, Opposites DEF Negated

\* If the trail is true and a clause holds, one of its open literals is true.
LEMMA OpenLiteralHolds ==
  ASSUME NEW m \in Assignment, NEW clause \in Clause, NEW trail \in SUBSET Literal,
         trail \subseteq m, Satisfies(m, clause),
         \A i \in DOMAIN clause : clause[i] \notin trail
  PROVE  \E i \in Unassigned(clause, trail) : clause[i] \in m
<1>1. PICK i \in DOMAIN clause : clause[i] \in m
  BY DEF Satisfies
<1>2. clause[i] \in Literal BY ClauseLiterals
<1>3. -clause[i] \notin m BY <1>1, <1>2, OneOfTwo
<1>4. i \in Unassigned(clause, trail) BY <1>1, <1>3 DEF Unassigned
<1>. QED BY <1>1, <1>4
-----------------------------------------------------------------------------
(* The steps of the checker.                                               *)

CheckerTypeOK ==
  /\ formula \in Seq(Clause)
  /\ clauses \in [DOMAIN clauses -> Clause] /\ DOMAIN clauses \subseteq Nat
  /\ chain \in Chain
  /\ derived \in Nat /\ hinted \in Nat
  /\ refuted \in BOOLEAN /\ judgement \in Judgements

\* A judgement that is not "valid", or that is deserved, disturbs nothing.
LEMMA JudgeSound ==
  ASSUME CheckerTypeOK, CheckerSound,
         NEW j \in Judgements, Judge(j), j = "valid" => refuted
  PROVE  CheckerTypeOK' /\ CheckerSound'
<1>1. UNCHANGED <<formula, clauses, derived, hinted, refuted>> /\ chain' = NoChain /\ judgement' = j
  BY DEF Judge
<1>2. NoChain \in Chain
  <2>1. <<>> \in Clause /\ <<>> \in Seq(Int) BY DEF Clause
  <2>. QED BY <2>1 DEF NoChain, Chain
<1>3. CheckerTypeOK'
  BY <1>1, <1>2 DEF CheckerTypeOK
<1>4. Follows'
  BY <1>1 DEF CheckerSound, Follows, Models
<1>5. Forced'
  BY <1>1 DEF Forced, NoChain
<1>6. RefutedIsTrue'
  BY <1>1 DEF CheckerSound, RefutedIsTrue
<1>. QED BY <1>3, <1>4, <1>5, <1>6 DEF CheckerSound

\* A clause that follows may be added.
LEMMA AcceptedSound ==
  ASSUME CheckerTypeOK, CheckerSound,
         NEW id \in Nat, NEW clause \in Clause, Accepted(id, clause),
         UNCHANGED <<formula, judgement>>, derived' \in Nat, hinted' \in Nat,
         \A m \in Models : Satisfies(m, clause)
  PROVE  CheckerTypeOK' /\ CheckerSound'
<1>1. /\ clauses' = With(clauses, id, clause)
      /\ refuted' = (refuted \/ clause = <<>>)
      /\ chain' = NoChain
  BY DEF Accepted
<1>2. DOMAIN clauses' = DOMAIN clauses \cup {id}
  BY <1>1 DEF With
<1>3. \A i \in DOMAIN clauses' : clauses'[i] = IF i = id THEN clause ELSE clauses[i]
  BY <1>1, <1>2 DEF With
<1>4. NoChain \in Chain
  <2>1. <<>> \in Clause /\ <<>> \in Seq(Int) BY DEF Clause
  <2>. QED BY <2>1 DEF NoChain, Chain
<1>5. CheckerTypeOK'
  <2>1. clauses' \in [DOMAIN clauses' -> Clause]
    <3>1. \A i \in DOMAIN clauses' : clauses'[i] \in Clause
      BY <1>2, <1>3 DEF CheckerTypeOK
    <3>. QED BY <1>1, <3>1 DEF With
  <2>2. DOMAIN clauses' \subseteq Nat BY <1>2 DEF CheckerTypeOK
  <2>3. refuted' \in BOOLEAN BY <1>1
  <2>. QED BY <1>1, <1>4, <2>1, <2>2, <2>3 DEF CheckerTypeOK
<1>6. Models' = Models
  BY DEF Models
<1>7. Follows'
  <2>1. ASSUME NEW m \in Models, NEW i \in DOMAIN clauses' PROVE Satisfies(m, clauses'[i])
    <3>1. CASE i = id BY <1>3, <3>1
    <3>2. CASE i # id BY <1>2, <1>3, <3>2 DEF CheckerSound, Follows
    <3>. QED BY <3>1, <3>2
  <2>. QED BY <1>6, <2>1 DEF Follows
<1>8. Forced'
  BY <1>1 DEF Forced, NoChain
<1>9. RefutedIsTrue'
  <2>1. CASE clause # <<>>
    <3>1. refuted' = refuted BY <1>1, <2>1 DEF CheckerTypeOK
    <3>. QED BY <3>1 DEF CheckerSound, RefutedIsTrue
  <2>2. CASE clause = <<>>
    <3>1. \A m : ~Satisfies(m, <<>>) BY DEF Satisfies
    <3>2. Models = {} BY <2>2, <3>1
    <3>3. Unsatisfiable(formula) BY <3>2 DEF Models, Unsatisfiable
    <3>. QED BY <3>3 DEF RefutedIsTrue
  <2>. QED BY <2>1, <2>2
<1>. QED BY <1>5, <1>7, <1>8, <1>9 DEF CheckerSound

\* Fewer clauses follow as well.
LEMMA DeleteSound ==
  ASSUME CheckerTypeOK, CheckerSound, NEW ids, Delete(ids)
  PROVE  CheckerTypeOK' /\ CheckerSound'
<1>1. /\ clauses' = Without(clauses, ids)
      /\ UNCHANGED <<formula, chain, derived, hinted, refuted, judgement>>
  BY DEF Delete
<1>2. DOMAIN clauses' = DOMAIN clauses \ ids /\ \A i \in DOMAIN clauses' : clauses'[i] = clauses[i]
  BY <1>1 DEF Without
<1>3. CheckerTypeOK'
  <2>1. clauses' \in [DOMAIN clauses' -> Clause]
    <3>1. \A i \in DOMAIN clauses' : clauses'[i] \in Clause BY <1>2 DEF CheckerTypeOK
    <3>. QED BY <1>1, <3>1 DEF Without
  <2>. QED BY <1>1, <1>2, <2>1 DEF CheckerTypeOK
<1>4. Follows'
  BY <1>1, <1>2 DEF CheckerSound, Follows, Models
<1>5. Forced' /\ RefutedIsTrue'
  BY <1>1 DEF CheckerSound, Forced, Models, RefutedIsTrue
<1>. QED BY <1>3, <1>4, <1>5 DEF CheckerSound

\* A self-contradicting clause is taken at once; any other one opens a chain
\* whose trail is what a counterexample makes true.
LEMMA AddSound ==
  ASSUME CheckerTypeOK, CheckerSound,
         NEW id \in LineId, NEW clause \in LineClause, NEW hints \in LineHints,
         Add(id, clause, hints)
  PROVE  CheckerTypeOK' /\ CheckerSound'
<1>1. id \in Nat /\ clause \in Clause /\ hints \in Seq(Int)
  BY CheckerAssumption
<1>2. derived' \in Nat /\ hinted' \in Nat /\ formula' = formula
  <2>1. Len(hints) \in Nat BY <1>1
  <2>. QED BY <2>1 DEF Add, CheckerTypeOK
<1>3. CASE judgement' = "limit" /\ UNCHANGED <<clauses, refuted, chain>>
  <2>1. CheckerTypeOK'
    BY <1>2, <1>3 DEF CheckerTypeOK, Judgements
  <2>2. Models' = Models BY <1>2 DEF Models
  <2>3. Follows' /\ Forced' /\ RefutedIsTrue'
    BY <1>2, <1>3, <2>2 DEF CheckerSound, Follows, Forced, RefutedIsTrue
  <2>. QED BY <2>1, <2>3 DEF CheckerSound
<1>4. CASE UNCHANGED judgement /\ Tautology(clause) /\ Accepted(id, clause)
  <2>1. \A m \in Models : Satisfies(m, clause)
    BY <1>1, <1>4, TautologyHolds DEF Models
  <2>. QED BY <1>1, <1>2, <1>4, <2>1, AcceptedSound
<1>5. CASE /\ UNCHANGED <<judgement, clauses, refuted>>
           /\ chain' = [open |-> TRUE, id |-> id, clause |-> clause, hints |-> hints,
                        trail |-> Negated(clause)]
  <2>1. CheckerTypeOK'
    <3>1. Negated(clause) \in SUBSET Literal BY <1>1, NegatedLiterals
    <3>2. chain' \in Chain BY <1>1, <1>5, <3>1 DEF Chain
    <3>. QED BY <1>2, <1>5, <3>2 DEF CheckerTypeOK
  <2>2. Models' = Models BY <1>2 DEF Models
  <2>3. Follows' /\ RefutedIsTrue'
    BY <1>2, <1>5, <2>2 DEF CheckerSound, Follows, RefutedIsTrue
  <2>4. Forced'
    <3>1. \A m \in Models : ~Satisfies(m, clause) => Negated(clause) \subseteq m
      BY <1>1, FalsifiedIsNegated DEF Models
    <3>2. chain'.clause = clause /\ chain'.trail = Negated(clause) BY <1>5
    <3>. QED BY <2>2, <3>1, <3>2 DEF Forced
  <2>. QED BY <2>1, <2>3, <2>4 DEF CheckerSound
<1>6. \/ judgement' = "limit" /\ UNCHANGED <<clauses, refuted, chain>>
      \/ UNCHANGED judgement /\ Tautology(clause) /\ Accepted(id, clause)
      \/ /\ UNCHANGED <<judgement, clauses, refuted>>
         /\ chain' = [open |-> TRUE, id |-> id, clause |-> clause, hints |-> hints,
                      trail |-> Negated(clause)]
  BY DEF Add
<1>. QED BY <1>3, <1>4, <1>5, <1>6

\* An antecedent all of whose literals are false refutes the counterexample; one
\* with a single open literal forces it.
LEMMA HintSound ==
  ASSUME CheckerTypeOK, CheckerSound, Hint
  PROVE  CheckerTypeOK' /\ CheckerSound'
<1> DEFINE h == Head(chain.hints)
           open == Unassigned(clauses[h], chain.trail)
<1>1. judgement = "reading" /\ chain.open /\ chain.hints # <<>> /\ chain \in Chain
  BY DEF Hint, CheckerTypeOK
<1>2. chain.clause \in Clause /\ chain.trail \in SUBSET Literal /\ chain.id \in Nat
  BY <1>1 DEF Chain
<1>3. CASE Judge("invalid")
  BY <1>3, JudgeSound DEF Judgements
<1>4. CASE h \in DOMAIN clauses /\ Usable(clauses[h], chain.trail)
  <2>1. clauses[h] \in Clause BY <1>4 DEF CheckerTypeOK
  <2>2. ASSUME NEW m \in Models, ~Satisfies(m, chain.clause)
        PROVE  chain.trail \subseteq m /\ \E i \in open : clauses[h][i] \in m
    <3>1. chain.trail \subseteq m BY <1>1, <2>2 DEF CheckerSound, Forced
    <3>2. Satisfies(m, clauses[h]) BY <1>4 DEF CheckerSound, Follows
    <3>3. \A i \in DOMAIN clauses[h] : clauses[h][i] \notin chain.trail BY <1>4 DEF Usable
    <3>4. m \in Assignment BY DEF Models
    <3>. QED BY <1>2, <2>1, <3>1, <3>2, <3>3, <3>4, OpenLiteralHolds
  <2>3. CASE /\ open = {} /\ Accepted(chain.id, chain.clause)
             /\ UNCHANGED <<formula, derived, hinted, judgement>>
    <3>1. \A m \in Models : Satisfies(m, chain.clause) BY <2>2, <2>3
    <3>2. derived' \in Nat /\ hinted' \in Nat BY <2>3 DEF CheckerTypeOK
    <3>. QED BY <1>2, <2>3, <3>1, <3>2, AcceptedSound
  <2>4. CASE /\ chain' = [chain EXCEPT !.hints = Tail(@),
                                       !.trail = @ \cup {clauses[h][i] : i \in open}]
             /\ UNCHANGED <<formula, clauses, derived, hinted, refuted, judgement>>
    <3>1. /\ chain'.open = chain.open /\ chain'.clause = chain.clause
          /\ chain'.trail = chain.trail \cup {clauses[h][i] : i \in open}
      BY <1>1, <2>4 DEF Chain
    <3>2. CheckerTypeOK'
      <4>1. Tail(chain.hints) \in Seq(Int) BY <1>1 DEF Chain
      <4>2. {clauses[h][i] : i \in open} \subseteq Literal
        BY <2>1, ClauseLiterals DEF Unassigned
      <4>3. chain' \in Chain BY <1>1, <1>2, <2>4, <4>1, <4>2 DEF Chain
      <4>. QED BY <2>4, <4>3 DEF CheckerTypeOK
    <3>3. Models' = Models BY <2>4 DEF Models
    <3>4. ASSUME NEW m \in Models, ~Satisfies(m, chain.clause)
          PROVE  chain'.trail \subseteq m
      <4>1. chain.trail \subseteq m /\ \E i \in open : clauses[h][i] \in m BY <2>2, <3>4
      <4>2. \A i, j \in open : i = j BY <1>4 DEF Usable
      <4>3. \A i \in open : clauses[h][i] \in m BY <4>1, <4>2
      <4>. QED BY <3>1, <4>1, <4>3
    <3>5. Forced' BY <3>1, <3>3, <3>4 DEF Forced
    <3>6. Follows' /\ RefutedIsTrue'
      BY <2>4, <3>3 DEF CheckerSound, Follows, RefutedIsTrue
    <3>. QED BY <3>2, <3>5, <3>6 DEF CheckerSound
  <2>. QED BY <1>4, <2>3, <2>4 DEF Hint
<1>. QED BY <1>3, <1>4 DEF Hint

\* Every step of the checker is sound.
LEMMA CheckStepSound ==
  ASSUME CheckerTypeOK, CheckerSound, CheckStep
  PROVE  CheckerTypeOK' /\ CheckerSound'
<1>1. CASE MalformedLine
  BY <1>1, JudgeSound DEF MalformedLine, Judgements
<1>2. CASE RatLine
  BY <1>2, JudgeSound DEF RatLine, Judgements
<1>3. CASE EndOfProof
  <2> DEFINE j == IF refuted THEN "valid" ELSE "invalid"
  <2>1. j \in Judgements /\ (j = "valid" => refuted) BY DEF Judgements
  <2>2. Judge(j) BY <1>3 DEF EndOfProof
  <2> HIDE DEF j
  <2>. QED BY <2>1, <2>2, JudgeSound
<1>4. CASE \E ids \in SUBSET LineId : Delete(ids)
  BY <1>4, DeleteSound
<1>5. CASE \E id \in LineId, clause \in LineClause, hints \in LineHints : Add(id, clause, hints)
  BY <1>5, AddSound
<1>6. CASE Hint
  BY <1>6, HintSound
<1>7. CASE HintsExhausted
  BY <1>7, JudgeSound DEF HintsExhausted, Judgements
<1>. QED BY <1>1, <1>2, <1>3, <1>4, <1>5, <1>6, <1>7 DEF CheckStep
-----------------------------------------------------------------------------
(* The check of a model, and the start of both checks.                     *)

ModelTypeOK == model \subseteq Literal /\ cursor \in Nat /\ spent \in Nat /\ opinion \in Opinions

\* A clause is counted as read only if the model satisfies it.
LEMMA CheckClauseSound ==
  ASSUME formula \in Seq(Clause), ModelTypeOK, ModelSound,
         CheckClause(formula) \/ AllChecked(formula), UNCHANGED formula
  PROVE  ModelTypeOK' /\ ModelSound'
<1>1. DOMAIN formula = 1..Len(formula) /\ Len(formula) \in Nat
  OBVIOUS
<1>2. CASE CheckClause(formula)
  <2>1. /\ opinion = "reading" /\ cursor < Len(formula)
        /\ cursor' = cursor + 1 /\ model' = model
        /\ spent' = spent + Len(formula[cursor + 1])
        /\ opinion' \in {"limit", "invalid", "reading"}
        /\ opinion' = "reading" => Satisfies(model, formula[cursor + 1])
    BY <1>2 DEF CheckClause
  <2>2. cursor + 1 \in 1..Len(formula) BY <1>1, <2>1 DEF ModelTypeOK
  <2>3. formula[cursor + 1] \in Seq(Literal) BY <2>2 DEF Clause
  <2>4. Len(formula[cursor + 1]) \in Nat BY <2>3
  <2>5. ModelTypeOK' BY <2>1, <2>4 DEF ModelTypeOK, Opinions
  <2>6. ModelSound'
    <3>1. ASSUME opinion' = "reading", NEW i \in 1..(cursor + 1) PROVE Satisfies(model, formula[i])
      <4>1. CASE i = cursor + 1 BY <2>1, <3>1, <4>1
      <4>2. CASE i \in 1..cursor BY <2>1, <4>2 DEF ModelSound
      <4>. QED BY <4>1, <4>2 DEF ModelTypeOK
    <3>2. opinion' # "valid" BY <2>1
    <3>3. cursor' <= Len(formula) BY <1>1, <2>2, <2>1
    <3>. QED BY <2>1, <3>1, <3>2, <3>3 DEF ModelSound
  <2>. QED BY <2>5, <2>6
<1>3. CASE AllChecked(formula)
  <2>1. /\ opinion = "reading" /\ cursor = Len(formula)
        /\ opinion' = "valid" /\ UNCHANGED <<model, cursor, spent>>
    BY <1>3 DEF AllChecked
  <2>2. SatisfiesAll(model, formula) BY <1>1, <2>1 DEF ModelSound, SatisfiesAll
  <2>. QED BY <2>1, <2>2 DEF ModelTypeOK, ModelSound, Opinions
<1>. QED BY <1>2, <1>3

\* The numbered clauses are those of the formula.
LEMMA NumberedClauses ==
  ASSUME NEW f \in Seq(Clause)
  PROVE  /\ Numbered(f) \in [DOMAIN Numbered(f) -> Clause]
         /\ DOMAIN Numbered(f) \subseteq Nat
         /\ \A m : SatisfiesAll(m, f) => \A i \in DOMAIN Numbered(f) : Satisfies(m, Numbered(f)[i])
<1>1. DOMAIN f = 1..Len(f) /\ \A i \in DOMAIN f : f[i] \in Clause
  OBVIOUS
<1>2. DOMAIN Numbered(f) = DOMAIN f /\ \A i \in DOMAIN f : Numbered(f)[i] = f[i]
  BY DEF Numbered
<1>3. Numbered(f) \in [DOMAIN Numbered(f) -> Clause]
  BY <1>1, <1>2 DEF Numbered
<1>. QED BY <1>1, <1>2, <1>3 DEF SatisfiesAll

\* A check that starts over is sound.
LEMMA StartsSound ==
  ASSUME CheckerTypeOK, ModelTypeOK, CheckerStarts, ModelCheckStarts
  PROVE  CheckerTypeOK' /\ CheckerSound' /\ ModelTypeOK' /\ ModelSound'
<1>1. /\ formula' = formula /\ clauses' = Numbered(formula) /\ chain' = NoChain
      /\ derived' = 0 /\ hinted' = 0 /\ refuted' = FALSE /\ judgement' = "reading"
      /\ cursor' = 0 /\ spent' = 0 /\ opinion' = "reading" /\ model' = model
  BY DEF CheckerStarts, ModelCheckStarts
<1>2. formula \in Seq(Clause) BY DEF CheckerTypeOK
<1>3. NoChain \in Chain
  <2>1. <<>> \in Clause /\ <<>> \in Seq(Int) BY DEF Clause
  <2>. QED BY <2>1 DEF NoChain, Chain
<1>4. CheckerTypeOK'
  BY <1>1, <1>2, <1>3, NumberedClauses DEF CheckerTypeOK, Judgements
<1>5. CheckerSound'
  <2>1. Follows' BY <1>1, <1>2, NumberedClauses DEF Follows, Models
  <2>2. Forced' BY <1>1 DEF Forced, NoChain
  <2>3. RefutedIsTrue' BY <1>1 DEF RefutedIsTrue
  <2>. QED BY <2>1, <2>2, <2>3 DEF CheckerSound
<1>6. ModelTypeOK' BY <1>1 DEF ModelTypeOK, Opinions
<1>7. ModelSound'
  <2>1. Len(formula) \in Nat BY <1>2
  <2>. QED BY <1>1, <2>1 DEF ModelSound
<1>. QED BY <1>4, <1>5, <1>6, <1>7
-----------------------------------------------------------------------------
(* The verifier.                                                           *)

PromiseTypeOK ==
  /\ kind \in Kinds
  /\ memory \in Promise /\ waiting \subseteq Caller
  /\ stored \in Answers \cup {"none"} /\ published \subseteq Answers

LEMMA TypeParts == VerifierTypeOK <=> CheckerTypeOK /\ ModelTypeOK /\ PromiseTypeOK
BY DEF VerifierTypeOK, CheckerTypeOK, ModelTypeOK, PromiseTypeOK

\* The claim is about inputs that no step changes.
Inputs == <<formula, model, kind>>

LEMMA InputsStay == [Next]_vars => UNCHANGED Inputs
<1> SUFFICES ASSUME [Next]_vars PROVE UNCHANGED Inputs
  OBVIOUS
<1>1. CASE \E c \in Caller : Return(c) \/ \E m \in Manifests : Call(c, m)
  BY <1>1 DEF Return, Call, Unchecked, Inputs
<1>2. CASE LookUp \/ (\E a \in Answers : Refuse(a)) \/ BeginCheck \/ StorageFails
  BY <1>2 DEF LookUp, Refuse, BeginCheck, StorageFails, Settles, Unchecked, Inputs
<1>3. CASE CheckProof
  <2>1. CheckStep => formula' = formula
    BY DEF CheckStep, MalformedLine, RatLine, EndOfProof, Judge, Delete, Add, Hint, HintsExhausted
  <2>. QED BY <1>3, <2>1 DEF CheckProof, Inputs
<1>4. CASE CheckModel
  BY <1>4 DEF CheckModel, CheckClause, AllChecked, Inputs
<1>5. CASE Conclude \/ Restart
  BY <1>5 DEF Conclude, Restart, CheckerStarts, ModelCheckStarts, Inputs
<1>6. CASE Store
  BY <1>6 DEF Store, Unchecked, Inputs
<1>7. CASE UNCHANGED vars
  BY <1>7 DEF vars, Inputs
<1>. QED BY <1>1, <1>2, <1>3, <1>4, <1>5, <1>6, <1>7 DEF Next, Verify

LEMMA ClaimStays == UNCHANGED Inputs => (Claim' <=> Claim)
BY DEF Inputs, Claim

\* The clauses of the formula and of the cube, in either order.
LEMMA CheckedIsFormula ==
  ASSUME NEW k, NEW f \in Formulas, NEW cube \in Cubes
  PROVE  Checked(k, f, cube) \in Seq(Clause)
<1>1. f \in Seq(Clause) /\ cube \in Seq(Literal)
  BY CheckerAssumption, VerifierAssumption
<1>2. UnitClauses(cube) \in Seq(Clause)
  <2>1. DOMAIN cube = 1..Len(cube) /\ Len(cube) \in Nat BY <1>1
  <2>2. \A i \in 1..Len(cube) : <<cube[i]>> \in Clause BY <1>1 DEF Clause
  <2>3. UnitClauses(cube) = [i \in 1..Len(cube) |-> <<cube[i]>>] BY <2>1 DEF UnitClauses
  <2>4. UnitClauses(cube) \in [1..Len(cube) -> Clause] BY <2>2, <2>3
  <2>. QED BY <2>1, <2>4
<1>. QED BY <1>1, <1>2 DEF Checked

LEMMA InitSound == Init => IInv
<1> SUFFICES ASSUME Init PROVE IInv
  OBVIOUS
<1>1. PICK f \in Formulas, cube \in Cubes : CheckerStart(Checked(kind, f, cube))
  BY DEF Init
<1>2. /\ formula \in Seq(Clause) /\ clauses = Numbered(formula) /\ chain = NoChain
      /\ derived = 0 /\ hinted = 0 /\ refuted = FALSE /\ judgement = "reading"
  BY <1>1, CheckedIsFormula DEF CheckerStart
<1>3. NoChain \in Chain
  <2>1. <<>> \in Clause /\ <<>> \in Seq(Int) BY DEF Clause
  <2>. QED BY <2>1 DEF NoChain, Chain
<1>4. CheckerTypeOK
  BY <1>2, <1>3, NumberedClauses DEF CheckerTypeOK, Judgements
<1>5. CheckerSound
  <2>1. Follows BY <1>2, NumberedClauses DEF Follows, Models
  <2>2. Forced BY <1>2 DEF Forced, NoChain
  <2>3. RefutedIsTrue BY <1>2 DEF RefutedIsTrue
  <2>. QED BY <2>1, <2>2, <2>3 DEF CheckerSound
<1>6. ModelTypeOK /\ ModelSound
  <2>1. cursor = 0 /\ spent = 0 /\ opinion = "reading" BY DEF Init, ModelCheckStart
  <2>2. model \subseteq Literal BY DEF Init, Assignment
  <2>3. Len(formula) \in Nat BY <1>2
  <2>. QED BY <2>1, <2>2, <2>3 DEF ModelTypeOK, ModelSound, Opinions
<1>7. PromiseTypeOK
  <2>1. NoPromise \in Promise BY DEF NoPromise, Promise, Stages, Honest, Manifest
  <2>. QED BY <2>1 DEF Init, PromiseTypeOK
<1>8. OneAnswer /\ FoundIsTrue /\ StoredIsTrue
  BY DEF Init, NoPromise, OneAnswer, FoundIsTrue, StoredIsTrue
<1>. QED BY <1>4, <1>5, <1>6, <1>7, <1>8, TypeParts DEF IInv

\* A step that leaves the checks alone keeps what is said of them.
LEMMA UncheckedKeeps ==
  ASSUME CheckerTypeOK, CheckerSound, ModelTypeOK, ModelSound, Unchecked
  PROVE  CheckerTypeOK' /\ CheckerSound' /\ ModelTypeOK' /\ ModelSound'
<1>1. CheckerTypeOK' /\ ModelTypeOK'
  BY DEF Unchecked, CheckerTypeOK, ModelTypeOK
<1>2. Models' = Models
  BY DEF Unchecked, Models
<1>3. CheckerSound'
  BY <1>2 DEF Unchecked, CheckerSound, Follows, Forced, RefutedIsTrue
<1>4. ModelSound'
  BY DEF Unchecked, ModelSound
<1>. QED BY <1>1, <1>3, <1>4

\* The fields of a promise that is replaced.
LEMMA PromiseFields ==
  ASSUME memory \in Promise,
         NEW s \in Stages, NEW r \in Answers \cup {"none"}
  PROVE  /\ [memory EXCEPT !.stage = s] \in Promise
         /\ [memory EXCEPT !.stage = s].stage = s
         /\ [memory EXCEPT !.stage = s].result = memory.result
         /\ [memory EXCEPT !.stage = s, !.result = r] \in Promise
         /\ [memory EXCEPT !.stage = s, !.result = r].stage = s
         /\ [memory EXCEPT !.stage = s, !.result = r].result = r
BY DEF Promise

\* Before the check nothing is found to be valid.
LEMMA ReadingIsNotValid ==
  ASSUME NEW r, Reads(r) PROVE r # "valid" /\ r \in Answers \cup {"none"} /\ memory.stage = "streams"
BY DEF Reads, ModelReading, ProofReading, Answers

\* The steps of the calls and of the promise.
LEMMA PromiseStep ==
  ASSUME IInv,
         \/ \E c \in Caller : Return(c) \/ \E m \in Manifests : Call(c, m)
         \/ LookUp \/ (\E a \in Answers : Refuse(a)) \/ BeginCheck \/ Store \/ StorageFails
  PROVE  IInv'
<1>1. /\ CheckerTypeOK /\ CheckerSound /\ ModelTypeOK /\ ModelSound
      /\ PromiseTypeOK /\ OneAnswer /\ FoundIsTrue /\ StoredIsTrue
  BY TypeParts DEF IInv
<1>2. Unchecked /\ kind' = kind
  BY DEF Return, Call, LookUp, Refuse, BeginCheck, Store, StorageFails, Settles
<1>3. CheckerTypeOK' /\ CheckerSound' /\ ModelTypeOK' /\ ModelSound'
  BY <1>1, <1>2, UncheckedKeeps
<1>4. Claim' <=> Claim
  BY <1>2, ClaimStays DEF Unchecked, Inputs
<1> SUFFICES PromiseTypeOK' /\ OneAnswer' /\ FoundIsTrue' /\ StoredIsTrue'
  BY <1>3, TypeParts DEF IInv, VerifierTypeOK, CheckerTypeOK, ModelTypeOK, PromiseTypeOK
<1> USE DEF PromiseTypeOK, OneAnswer, FoundIsTrue, StoredIsTrue
<1>5. ASSUME NEW c \in Caller, Return(c)
      PROVE  PromiseTypeOK' /\ OneAnswer' /\ FoundIsTrue' /\ StoredIsTrue'
  <2>1. memory' = memory /\ stored' = stored /\ waiting' = waiting \ {c} BY <1>5 DEF Return
  <2>2. memory.stage = "resolved" => memory.result = stored /\ stored \in Answers BY <1>1
  <2>3. published' \subseteq published \cup ({stored} \ {"none"}) /\ published' \subseteq Answers
    BY <1>1, <1>5, <2>2 DEF Return, Answers
  <2>. QED BY <1>1, <1>2, <1>4, <2>1, <2>3
<1>6. ASSUME NEW c \in Caller, NEW m \in Manifests, Call(c, m)
      PROVE  PromiseTypeOK' /\ OneAnswer' /\ FoundIsTrue' /\ StoredIsTrue'
  <2>1. stored' = stored /\ published' = published /\ waiting' = waiting \cup {c} BY <1>6 DEF Call
  <2>2. CASE memory' = memory BY <1>1, <1>2, <1>4, <2>1, <2>2
  <2>3. CASE memory' = [NoPromise EXCEPT !.stage = "lookup", !.input = m]
    <3>1. memory' = [stage |-> "lookup", input |-> m, result |-> "none"] BY <2>3 DEF NoPromise
    <3>2. memory' \in Promise BY <3>1, VerifierAssumption DEF Promise, Stages
    <3>. QED BY <1>1, <1>2, <1>4, <2>1, <3>1, <3>2
  <2>. QED BY <1>6, <2>2, <2>3 DEF Call
<1>7. CASE LookUp
  <2>1. memory.stage = "lookup" /\ UNCHANGED <<waiting, stored, published>> BY <1>7 DEF LookUp, Settles
  <2>2. CASE stored = "none" /\ memory' = [memory EXCEPT !.stage = "streams"]
    <3>1. memory' \in Promise /\ memory'.stage = "streams" /\ memory'.result = memory.result
      BY <1>1, <2>2, PromiseFields DEF Stages
    <3>. QED BY <1>1, <1>2, <1>4, <2>1, <2>2, <3>1
  <2>3. CASE stored # "none" /\ memory' = [memory EXCEPT !.stage = "resolved", !.result = stored]
    <3>1. memory' \in Promise /\ memory'.stage = "resolved" /\ memory'.result = stored
      BY <1>1, <2>3, PromiseFields DEF Stages
    <3>. QED BY <1>1, <1>2, <1>4, <2>1, <2>3, <3>1
  <2>. QED BY <1>7, <2>2, <2>3 DEF LookUp, Settles
<1>8. ASSUME NEW a \in Answers, Refuse(a)
      PROVE  PromiseTypeOK' /\ OneAnswer' /\ FoundIsTrue' /\ StoredIsTrue'
  <2>1. a # "valid" /\ a # "none" /\ memory.stage = "streams" BY <1>8, ReadingIsNotValid DEF Refuse
  <2>2. memory' = Found(a) /\ UNCHANGED <<waiting, stored, published>> BY <1>8 DEF Refuse, Settles
  <2>3. memory' \in Promise /\ memory'.stage = "storing" /\ memory'.result = a
    BY <1>1, <2>2, PromiseFields DEF Found, Stages
  <2>. QED BY <1>1, <1>2, <2>1, <2>2, <2>3
<1>9. CASE BeginCheck
  <2>1. memory.stage = "streams" BY <1>9 DEF BeginCheck, Reads
  <2>2. memory' = [memory EXCEPT !.stage = "checking"] /\ UNCHANGED <<waiting, stored, published>>
    BY <1>9 DEF BeginCheck, Settles
  <2>3. memory' \in Promise /\ memory'.stage = "checking" /\ memory'.result = memory.result
    BY <1>1, <2>2, PromiseFields DEF Stages
  <2>. QED BY <1>1, <1>2, <1>4, <2>1, <2>2, <2>3
<1>10. CASE Store
  <2>1. /\ memory.stage = "storing" /\ stored' = memory.result
        /\ memory' = [memory EXCEPT !.stage = "resolved"] /\ UNCHANGED <<waiting, published>>
    BY <1>10 DEF Store
  <2>2. memory' \in Promise /\ memory'.stage = "resolved" /\ memory'.result = memory.result
    BY <1>1, <2>1, PromiseFields DEF Stages
  <2>3. memory.result \in Answers BY <1>1, <2>1 DEF Promise
  <2>4. published = {} BY <1>1, <2>1
  <2>. QED BY <1>1, <1>2, <1>4, <2>1, <2>2, <2>3, <2>4
<1>11. CASE StorageFails
  <2>1. memory' = [memory EXCEPT !.stage = "rejected"] /\ UNCHANGED <<waiting, stored, published>>
    BY <1>11 DEF StorageFails, Settles
  <2>2. memory' \in Promise /\ memory'.stage = "rejected" /\ memory'.result = memory.result
    BY <1>1, <2>1, PromiseFields DEF Stages
  <2>. QED BY <1>1, <1>2, <1>4, <2>1, <2>2
<1>. QED BY <1>5, <1>6, <1>7, <1>8, <1>9, <1>10, <1>11

\* The steps of the check, its end and a restart.
LEMMA CheckStepsKeep ==
  ASSUME IInv, [Next]_vars, CheckProof \/ CheckModel \/ Conclude \/ Restart
  PROVE  IInv'
<1>1. /\ CheckerTypeOK /\ CheckerSound /\ ModelTypeOK /\ ModelSound
      /\ PromiseTypeOK /\ OneAnswer /\ FoundIsTrue /\ StoredIsTrue
  BY TypeParts DEF IInv
<1>2. Claim' <=> Claim
  BY InputsStay, ClaimStays
<1> SUFFICES /\ CheckerTypeOK' /\ CheckerSound' /\ ModelTypeOK' /\ ModelSound'
             /\ PromiseTypeOK' /\ OneAnswer' /\ FoundIsTrue' /\ StoredIsTrue'
  BY DEF IInv, VerifierTypeOK, CheckerTypeOK, ModelTypeOK, PromiseTypeOK
<1> USE DEF PromiseTypeOK, OneAnswer, FoundIsTrue, StoredIsTrue
<1>3. CASE CheckProof
  <2>1. CheckStep /\ UNCHANGED <<model, cursor, spent, opinion, kind, memory, waiting, stored, published>>
    BY <1>3 DEF CheckProof
  <2>2. CheckerTypeOK' /\ CheckerSound'
    BY <1>1, <2>1, CheckStepSound
  <2>3. ModelTypeOK' BY <1>1, <2>1 DEF ModelTypeOK
  <2>4. formula' = formula BY InputsStay DEF Inputs
  <2>5. ModelSound' BY <1>1, <2>1, <2>4 DEF ModelSound
  <2>. QED BY <1>1, <1>2, <2>1, <2>2, <2>3, <2>5
<1>4. CASE CheckModel
  <2>1. /\ CheckClause(formula) \/ AllChecked(formula)
        /\ UNCHANGED <<formula, clauses, chain, derived, hinted, refuted, judgement,
                       kind, memory, waiting, stored, published>>
    BY <1>4 DEF CheckModel
  <2>2. ModelTypeOK' /\ ModelSound'
    BY <1>1, <2>1, CheckClauseSound DEF CheckerTypeOK
  <2>3. CheckerTypeOK' BY <1>1, <2>1 DEF CheckerTypeOK
  <2>4. Models' = Models BY <2>1 DEF Models
  <2>5. CheckerSound' BY <1>1, <2>1, <2>4 DEF CheckerSound, Follows, Forced, RefutedIsTrue
  <2>. QED BY <1>1, <1>2, <2>1, <2>2, <2>3, <2>5
<1>5. CASE Conclude
  <2> DEFINE answer == IF kind = "SAT" THEN ModelAnswer ELSE ProofAnswer
  <2>1. /\ memory.stage = "checking" /\ memory' = Found(answer)
        /\ CheckerStarts /\ ModelCheckStarts
        /\ UNCHANGED <<kind, waiting, stored, published>>
    BY <1>5 DEF Conclude
  <2>2. CheckerTypeOK' /\ CheckerSound' /\ ModelTypeOK' /\ ModelSound'
    BY <1>1, <2>1, StartsSound
  <2>3. answer \in Answers BY DEF ModelAnswer, ProofAnswer, Answers
  <2>4. answer # "none" BY DEF ModelAnswer, ProofAnswer
  <2>5. answer = "valid" => Claim
    <3>1. kind \in {"SAT", "UNSAT"} BY <1>1, VerifierAssumption
    <3>2. CASE kind = "SAT"
      <4>1. ModelAnswer = "valid" => opinion = "valid" BY DEF ModelAnswer
      <4>. QED BY <1>1, <3>2, <4>1 DEF ModelSound, Claim
    <3>3. CASE kind = "UNSAT"
      <4>1. ProofAnswer = "valid" => judgement = "valid" BY DEF ProofAnswer
      <4>. QED BY <1>1, <3>3, <4>1 DEF CheckerSound, RefutedIsTrue, Claim
    <3>. QED BY <3>1, <3>2, <3>3
  <2> HIDE DEF answer
  <2>6. memory' \in Promise /\ memory'.stage = "storing" /\ memory'.result = answer
    BY <1>1, <2>1, <2>3, PromiseFields DEF Found, Stages
  <2>. QED BY <1>1, <1>2, <2>1, <2>2, <2>3, <2>4, <2>5, <2>6
<1>6. CASE Restart
  <2>1. /\ memory' = NoPromise /\ waiting' = {}
        /\ CheckerStarts /\ ModelCheckStarts
        /\ UNCHANGED <<kind, stored, published>>
    BY <1>6 DEF Restart
  <2>2. CheckerTypeOK' /\ CheckerSound' /\ ModelTypeOK' /\ ModelSound'
    BY <1>1, <2>1, StartsSound
  <2>3. NoPromise \in Promise /\ NoPromise.stage = "none" /\ NoPromise.result = "none"
    BY DEF NoPromise, Promise, Stages, Honest, Manifest
  <2>. QED BY <1>1, <1>2, <2>1, <2>2, <2>3
<1>. QED BY <1>3, <1>4, <1>5, <1>6

LEMMA StutterKeeps == IInv /\ UNCHANGED vars => IInv'
<1> SUFFICES ASSUME IInv, UNCHANGED vars PROVE IInv'
  OBVIOUS
<1>1. VerifierTypeOK' BY DEF IInv, VerifierTypeOK, vars
<1>2. CheckerSound'
  BY DEF IInv, vars, CheckerSound, Follows, Forced, RefutedIsTrue, Models
<1>3. ModelSound' BY DEF IInv, vars, ModelSound
<1>4. Claim' <=> Claim BY InputsStay, ClaimStays
<1>5. OneAnswer' /\ FoundIsTrue' /\ StoredIsTrue'
  BY <1>4 DEF IInv, vars, OneAnswer, FoundIsTrue, StoredIsTrue
<1>. QED BY <1>1, <1>2, <1>3, <1>5 DEF IInv

LEMMA NextKeeps == IInv /\ [Next]_vars => IInv'
BY PromiseStep, CheckStepsKeep, StutterKeeps DEF Next, Verify

LEMMA Inductive == Spec => []IInv
BY InitSound, NextKeeps, PTL DEF Spec
-----------------------------------------------------------------------------
(* Theorems.                                                               *)

\* The verifier's state keeps its shape for any formula, proof and callers.
THEOREM TypeCorrect == Spec => []VerifierTypeOK
<1>1. IInv => VerifierTypeOK BY DEF IInv
<1>. QED BY <1>1, Inductive, PTL

\* lrat-check.ts and the model check are sound: a "valid" that a caller has seen
\* is true, whatever lines and hints the proof has.
THEOREM ValidAnswersAreTrue == Spec => []ValidIsTrue
<1>1. IInv => ValidIsTrue
  BY DEF IInv, OneAnswer, StoredIsTrue, ValidIsTrue
<1>. QED BY <1>1, Inductive, PTL

\* So is a "valid" in the storage, which outlives a restart.
THEOREM StoredAnswersAreTrue == Spec => []StoredIsTrue
<1>1. IInv => StoredIsTrue BY DEF IInv
<1>. QED BY <1>1, Inductive, PTL

\* ResultVerifierDO implements Judge: one answer for all callers and restarts, and
\* "valid" only of a true claim.
THEOREM Refinement == Spec => ImplementsJudge
<1>1. Init => J!Init
  <2>1. Claim \in BOOLEAN BY DEF Claim, Unsatisfiable, SatisfiesAll
  <2>. QED BY <2>1 DEF Init, J!Init
<1>2. IInv /\ IInv' /\ [Next]_vars => [J!Next]_<<Claim, published>>
  <2> SUFFICES ASSUME IInv, IInv', [Next]_vars PROVE [J!Next]_<<Claim, published>>
    OBVIOUS
  <2>1. Claim' = Claim
    BY InputsStay DEF Inputs, Claim
  <2>2. CASE published' = published
    BY <2>1, <2>2
  <2>3. CASE published' # published
    <3>1. PICK c \in Caller : Return(c)
      BY <2>3 DEF Next, vars, Verify, Call, LookUp, Refuse, BeginCheck, CheckProof, CheckModel,
                  Conclude, Store, StorageFails, Settles, Restart
    <3>2. memory.stage = "resolved" /\ published' = published \cup {memory.result}
      BY <2>3, <3>1 DEF Return
    <3>3. memory.result = stored /\ stored \in Answers /\ published \subseteq {stored}
      BY <3>2 DEF IInv, OneAnswer, VerifierTypeOK
    <3>4. published = {} /\ published' = {stored}
      BY <2>3, <3>2, <3>3
    <3>5. stored = "valid" => Claim
      BY DEF IInv, StoredIsTrue
    <3>6. stored \in (Answers \ {"valid"}) \cup {"valid"}
      BY <3>3
    <3>. QED BY <2>1, <3>4, <3>5, <3>6 DEF J!Next, J!Answer
  <2>. QED BY <2>2, <2>3
<1>. QED BY <1>1, <1>2, Inductive, PTL DEF Spec, ImplementsJudge, J!Spec
-----------------------------------------------------------------------------
(* What the coordinator is told.                                           *)

\* A formula and a cube as JobCoordinator has them (TrueAnswers): the models of
\* the formula as functions, the literals of the cube as a set.
AsFunction(m) == [v \in Variable |-> v \in m]
ModelsOf(f) == {AsFunction(m) : m \in {x \in Assignment : SatisfiesAll(x, f)}}
LiteralsOf(cube) == {cube[i] : i \in DOMAIN cube}

Told(n, f) == INSTANCE TrueAnswers
  WITH NumVars <- n, Models <- ModelsOf(f), FormulaParses <- TRUE

\* The answers of the method that was called.
Own == IF kind = "SAT" THEN {"valid", "INVALID_MODEL", "INVALID_FORMULA", "VERIFICATION_TIMEOUT"}
       ELSE {"valid", "INVALID_PROOF", "INVALID_FORMULA", "OWNER_CHECK_REQUIRED",
             "VERIFICATION_TIMEOUT"}
OfItsKind == memory.result \in Own \cup {"none"} /\ stored \in Own \cup {"none"} /\ published \subseteq Own

\* The status it is wrapped in.
Status(a) == IF a # "valid" THEN a ELSE IF kind = "SAT" THEN "VALID_SAT" ELSE "VALID_UNSAT"

LEMMA OwnKeeps == IInv /\ OfItsKind /\ [Next]_vars => OfItsKind'
<1>. SUFFICES ASSUME IInv, OfItsKind, [Next]_vars PROVE OfItsKind'
  OBVIOUS
<1>1. Own' = Own
  BY InputsStay DEF Inputs, Own
<1>2. memory \in Promise
  BY DEF IInv, VerifierTypeOK
<1>3. ASSUME NEW r \in Own \cup {"none"}, NEW s \in Stages
      PROVE  /\ [memory EXCEPT !.stage = s].result \in Own \cup {"none"}
             /\ [memory EXCEPT !.stage = s, !.result = r].result \in Own \cup {"none"}
  BY <1>2 DEF Promise, OfItsKind
<1>4. ASSUME NEW c \in Caller, Return(c)
      PROVE  OfItsKind'
  <2>1. /\ memory' = memory /\ stored' = stored
        /\ published' \subseteq published \cup {memory.result}
        /\ memory.stage # "resolved" => published' = published
    BY <1>4 DEF Return
  <2>2. memory.stage = "resolved" => memory.result # "none"
    BY DEF IInv, OneAnswer
  <2>3. memory.stage = "resolved" => memory.result \in Own
    BY <2>2 DEF OfItsKind
  <2>4. published' \subseteq Own
    BY <2>1, <2>3 DEF OfItsKind
  <2>. QED BY <1>1, <2>1, <2>4 DEF OfItsKind
<1>5. ASSUME NEW c \in Caller, NEW m \in Manifests, Call(c, m)
      PROVE  OfItsKind'
  <2>1. stored' = stored /\ published' = published
        /\ (memory' = memory \/ memory'.result = "none")
    BY <1>5 DEF Call, NoPromise
  <2>. QED BY <1>1, <2>1 DEF OfItsKind
<1>6. CASE LookUp \/ BeginCheck \/ StorageFails
  <2>1. stored' = stored /\ published' = published
    BY <1>6 DEF LookUp, BeginCheck, StorageFails, Settles
  <2>2. memory'.result \in Own \cup {"none"}
    BY <1>3, <1>6 DEF LookUp, BeginCheck, StorageFails, Settles, Stages, OfItsKind
  <2>. QED BY <1>1, <2>1, <2>2 DEF OfItsKind
<1>7. ASSUME NEW a \in Answers, Refuse(a)
      PROVE  OfItsKind'
  <2>1. a \in Own
    BY <1>7 DEF Refuse, Reads, ModelReading, ProofReading, Own
  <2>2. stored' = stored /\ published' = published /\ memory' = Found(a)
    BY <1>7 DEF Refuse, Settles
  <2>3. memory'.result \in Own \cup {"none"}
    BY <1>3, <2>1, <2>2 DEF Found, Stages
  <2>. QED BY <1>1, <2>2, <2>3 DEF OfItsKind
<1>8. CASE CheckProof \/ CheckModel \/ UNCHANGED vars
  BY <1>1, <1>8 DEF CheckProof, CheckModel, vars, OfItsKind
<1>9. CASE Conclude
  <2>1. ModelAnswer \in {"valid", "INVALID_MODEL", "VERIFICATION_TIMEOUT"}
    BY DEF ModelAnswer
  <2>2. ProofAnswer \in {"valid", "INVALID_PROOF", "OWNER_CHECK_REQUIRED", "VERIFICATION_TIMEOUT"}
    BY DEF ProofAnswer
  <2>3. PICK r : r = (IF kind = "SAT" THEN ModelAnswer ELSE ProofAnswer)
    OBVIOUS
  <2>4. r \in Own
    BY <2>1, <2>2, <2>3 DEF Own
  <2>5. stored' = stored /\ published' = published /\ memory' = Found(r)
    BY <1>9, <2>3 DEF Conclude
  <2>6. memory'.result \in Own \cup {"none"}
    BY <1>3, <2>4, <2>5 DEF Found, Stages
  <2>. QED BY <1>1, <2>5, <2>6 DEF OfItsKind
<1>10. CASE Store
  <2>1. stored' = memory.result /\ published' = published
        /\ memory' = [memory EXCEPT !.stage = "resolved"]
    BY <1>10 DEF Store
  <2>2. memory'.result \in Own \cup {"none"}
    BY <1>3, <2>1 DEF Stages, OfItsKind
  <2>. QED BY <1>1, <2>1, <2>2 DEF OfItsKind
<1>11. CASE Restart
  BY <1>1, <1>11 DEF Restart, NoPromise, OfItsKind
<1>. QED BY <1>4, <1>5, <1>6, <1>7, <1>8, <1>9, <1>10, <1>11 DEF Next, Verify

LEMMA OwnInductive == Spec => []OfItsKind
<1>1. Init => OfItsKind
  BY DEF Init, OfItsKind, NoPromise
<1>. QED BY <1>1, OwnKeeps, Inductive, PTL DEF Spec

\* A total assignment makes a literal true as its function does.
LEMMA LiteralAgrees ==
  ASSUME NEW n \in Nat, Variable = 1..n, NEW f, NEW m \in Assignment, NEW l \in Literal
  PROVE  Told(n, f)!Satisfies(AsFunction(m), l) <=> l \in m
<1>1. CASE l \in Variable
  <2>1. l > 0 /\ AsFunction(m)[l] = (l \in m)
    BY <1>1 DEF AsFunction
  <2>. QED BY <2>1 DEF Told!Satisfies
<1>2. CASE -l \in Variable
  <2>1. l \in Int /\ ~(l > 0)
    BY <1>2, Opposites
  <2>2. AsFunction(m)[-l] <=> -l \in m
    BY <1>2 DEF AsFunction
  <2>3. Told(n, f)!Satisfies(AsFunction(m), l) <=> ~AsFunction(m)[-l]
    BY <2>1 DEF Told!Satisfies
  <2>4. (l \in m) # (-l \in m)
    BY OneOfTwo
  <2>. QED BY <2>2, <2>3, <2>4
<1>3. l \in Variable \/ -l \in Variable
  <2>1. CASE l \notin Variable
    <3>1. PICK v \in Variable : l = -v
      BY <2>1 DEF Literal
    <3>2. -l = v
      BY <3>1, VariableAssumption
    <3>. QED BY <3>2
  <2>. QED BY <2>1
<1>. QED BY <1>1, <1>2, <1>3

\* The checked clauses hold exactly if those of the formula and the cube do.
LEMMA CheckedSatisfied ==
  ASSUME NEW k, NEW f \in Seq(Clause), NEW cube \in Seq(Literal), NEW m \in Assignment
  PROVE  SatisfiesAll(m, Checked(k, f, cube)) <=>
           SatisfiesAll(m, f) /\ LiteralsOf(cube) \subseteq m
<1>. DEFINE u == UnitClauses(cube)
<1>1. u \in Seq(Clause) /\ Len(u) = Len(cube) /\ \A i \in 1..Len(cube) : u[i] = <<cube[i]>>
  <2>1. DOMAIN cube = 1..Len(cube) /\ Len(cube) \in Nat
    OBVIOUS
  <2>2. \A i \in 1..Len(cube) : <<cube[i]>> \in Clause
    BY DEF Clause
  <2>3. u = [i \in 1..Len(cube) |-> <<cube[i]>>]
    BY <2>1 DEF UnitClauses
  <2>4. u \in [1..Len(cube) -> Clause]
    BY <2>2, <2>3
  <2>. HIDE DEF u
  <2>5. PICK size \in Nat : size = Len(cube)
    BY <2>1
  <2>6. u \in Seq(Clause)
    BY <2>4, <2>5
  <2>7. Len(u) = Len(cube)
    BY <2>4, <2>5
  <2>8. \A i \in 1..Len(cube) : u[i] = <<cube[i]>>
    BY <2>3
  <2>. QED BY <2>6, <2>7, <2>8
<1>2. SatisfiesAll(m, u) <=> LiteralsOf(cube) \subseteq m
  <2>1. \A i \in 1..Len(cube) : Satisfies(m, u[i]) <=> cube[i] \in m
    BY <1>1 DEF Satisfies
  <2>2. DOMAIN u = 1..Len(cube) /\ DOMAIN cube = 1..Len(cube)
    BY <1>1
  <2>. HIDE DEF u
  <2>. QED BY <2>1, <2>2 DEF SatisfiesAll, LiteralsOf
<1>. HIDE DEF u
<1>3. ASSUME NEW a \in Seq(Clause), NEW b \in Seq(Clause)
      PROVE  SatisfiesAll(m, a \o b) <=> SatisfiesAll(m, a) /\ SatisfiesAll(m, b)
  <2>1. /\ DOMAIN a = 1..Len(a) /\ DOMAIN b = 1..Len(b) /\ DOMAIN (a \o b) = 1..(Len(a) + Len(b))
        /\ Len(a) \in Nat /\ Len(b) \in Nat
    OBVIOUS
  <2>2. /\ \A i \in 1..Len(a) : (a \o b)[i] = a[i]
        /\ \A i \in 1..Len(b) : (a \o b)[Len(a) + i] = b[i]
    OBVIOUS
  <2>3. \A i \in 1..(Len(a) + Len(b)) :
          i \in 1..Len(a) \/ \E j \in 1..Len(b) : i = Len(a) + j
    <3>1. SUFFICES ASSUME NEW i \in 1..(Len(a) + Len(b)), i \notin 1..Len(a)
                   PROVE  \E j \in 1..Len(b) : i = Len(a) + j
      OBVIOUS
    <3>2. i - Len(a) \in 1..Len(b) /\ i = Len(a) + (i - Len(a))
      BY <2>1, <3>1
    <3>. QED BY <3>2
  <2>4. ASSUME SatisfiesAll(m, a \o b)
        PROVE  SatisfiesAll(m, a) /\ SatisfiesAll(m, b)
    <3>1. \A i \in 1..Len(a) : i \in 1..(Len(a) + Len(b))
      BY <2>1
    <3>2. \A i \in 1..Len(b) : Len(a) + i \in 1..(Len(a) + Len(b))
      BY <2>1
    <3>. QED BY <2>1, <2>2, <2>4, <3>1, <3>2 DEF SatisfiesAll
  <2>5. ASSUME SatisfiesAll(m, a), SatisfiesAll(m, b)
        PROVE  SatisfiesAll(m, a \o b)
    <3>1. SUFFICES ASSUME NEW i \in 1..(Len(a) + Len(b)) PROVE Satisfies(m, (a \o b)[i])
      BY <2>1 DEF SatisfiesAll
    <3>2. CASE i \in 1..Len(a)
      BY <2>1, <2>2, <2>5, <3>2 DEF SatisfiesAll
    <3>3. ASSUME NEW j \in 1..Len(b), i = Len(a) + j
          PROVE  Satisfies(m, (a \o b)[i])
      BY <2>1, <2>2, <2>5, <3>3 DEF SatisfiesAll
    <3>. QED BY <2>3, <3>2, <3>3
  <2>. QED BY <2>4, <2>5
<1>. QED BY <1>1, <1>2, <1>3 DEF Checked, u

\* The formula has a model in the cube, for the coordinator, exactly if the
\* clauses the verifier checks are satisfied by some assignment.
LEMMA SameModels ==
  ASSUME NEW n \in Nat, Variable = 1..n, NEW k,
         NEW f \in Seq(Clause), NEW cube \in Seq(Literal)
  PROVE  Told(n, f)!HasModel(LiteralsOf(cube)) <=>
           \E m \in Assignment : SatisfiesAll(m, Checked(k, f, cube))
<1>1. LiteralsOf(cube) \subseteq Literal
  BY DEF LiteralsOf
<1>2. ASSUME NEW m \in Assignment
      PROVE  Told(n, f)!Covers(LiteralsOf(cube), AsFunction(m)) <=> LiteralsOf(cube) \subseteq m
  BY <1>1, LiteralAgrees DEF Told!Covers
<1>. QED BY <1>2, CheckedSatisfied DEF Told!HasModel, ModelsOf

\* The assignments and literals are those of the coordinator: what TrueAnswers
\* assumes of its constants holds.
LEMMA ToldIsWellFormed ==
  ASSUME NEW n \in Nat, Variable = 1..n, NEW f, NEW cube \in Cubes
  PROVE  /\ ModelsOf(f) \subseteq Told(n, f)!Assignment
         /\ LiteralsOf(cube) \subseteq Told(n, f)!Literal
<1>1. ModelsOf(f) \subseteq Told(n, f)!Assignment
  <2>1. ASSUME NEW m \in Assignment
        PROVE  AsFunction(m) \in [Variable -> BOOLEAN]
    BY DEF AsFunction
  <2>. QED BY <2>1 DEF ModelsOf, Told!Assignment
<1>2. LiteralsOf(cube) \subseteq Told(n, f)!Literal
  <2>1. LiteralsOf(cube) \subseteq Literal
    BY VerifierAssumption DEF LiteralsOf
  <2>2. ASSUME NEW l \in Literal
        PROVE  l \in -n..n /\ l # 0
    <3>1. CASE l \in 1..n
      BY <3>1
    <3>2. CASE l \notin 1..n
      <4>1. PICK v \in 1..n : l = -v
        BY <2>2, <3>2 DEF Literal
      <4>. QED BY <4>1
    <3>. QED BY <3>1, <3>2
  <2>. QED BY <2>1, <2>2 DEF Told!Literal
<1>. QED BY <1>1, <1>2

\* What has been answered of a formula f and the literals of a cube is among
\* what the coordinator allows for.  A formula stream that breaks is the one
\* answer it leaves out.
ToldInBounds(n, f, cube) ==
  \A a \in published \ {"INVALID_FORMULA"} :
     Status(a) \in IF kind = "SAT" THEN Told(n, f)!SatAnswers(LiteralsOf(cube))
                   ELSE Told(n, f)!UnsatAnswers(LiteralsOf(cube))

\* What JobCoordinator takes for granted of its verifiers holds of them: with
\* the variables numbered from 1, verifySat and verifyUnsat of result-verifier.ts
\* answer of a formula and the cube that was leased only what SatAnswers and
\* UnsatAnswers list, so that VALID_UNSAT excludes every model in the cube and
\* VALID_SAT shows one.
THEOREM CoordinatorIsToldTheTruth ==
  ASSUME NEW n \in Nat, Variable = 1..n, NEW f \in Formulas, NEW cube \in Cubes
  PROVE  Spec /\ formula = Checked(kind, f, cube) => []ToldInBounds(n, f, cube)
<1>. DEFINE About == /\ formula = Checked(kind, f, cube)
                     /\ kind = "SAT" => model \in Assignment
<1>1. About /\ [Next]_vars => About'
  BY InputsStay DEF Inputs
<1>2. IInv /\ OfItsKind /\ About => ToldInBounds(n, f, cube)
  <2>. SUFFICES ASSUME IInv, OfItsKind, About, NEW a \in published, a # "INVALID_FORMULA"
                PROVE  Status(a) \in IF kind = "SAT" THEN Told(n, f)!SatAnswers(LiteralsOf(cube))
                                     ELSE Told(n, f)!UnsatAnswers(LiteralsOf(cube))
    BY DEF ToldInBounds
  <2>1. f \in Seq(Clause) /\ cube \in Seq(Literal)
    BY CheckerAssumption, VerifierAssumption
  <2>2. Told(n, f)!HasModel(LiteralsOf(cube)) <=> \E m \in Assignment : SatisfiesAll(m, formula)
    BY <2>1, SameModels
  <2>3. a = "valid" => Claim
    BY DEF IInv, OneAnswer, StoredIsTrue
  <2>4. CASE kind = "SAT"
    <3>1. a = "valid" => Told(n, f)!HasModel(LiteralsOf(cube))
      BY <2>2, <2>3, <2>4 DEF Claim
    <3>2. a \in {"valid", "INVALID_MODEL", "VERIFICATION_TIMEOUT"}
      BY <2>4 DEF OfItsKind, Own
    <3>. QED BY <2>4, <3>1, <3>2 DEF Status, Told!SatAnswers
  <2>5. CASE kind # "SAT"
    <3>1. kind = "UNSAT"
      BY <2>5, VerifierAssumption DEF IInv, VerifierTypeOK
    <3>2. a = "valid" => ~Told(n, f)!HasModel(LiteralsOf(cube))
      BY <2>2, <2>3, <3>1 DEF Claim, Unsatisfiable
    <3>3. a \in {"valid", "INVALID_PROOF", "OWNER_CHECK_REQUIRED", "VERIFICATION_TIMEOUT"}
      BY <2>5 DEF OfItsKind, Own
    <3>. QED BY <2>5, <3>2, <3>3 DEF Status, Told!UnsatAnswers
  <2>. QED BY <2>4, <2>5
<1>3. Init /\ formula = Checked(kind, f, cube) => About
  BY DEF Init
<1>. QED BY <1>1, <1>2, <1>3, Inductive, OwnInductive, PTL DEF Spec
=============================================================================
