--------------------------- MODULE ResultVerifier ---------------------------
(***************************************************************************)
(* ResultVerifierDO (worker/result-verifier.ts): one object for one piece  *)
(* of evidence, a model or a proof. It remembers what it found, first in a *)
(* map of promises, then in its storage, and gives the same answer to      *)
(* every caller; the work is done on the input of the first.               *)
(*                                                                         *)
(* The checks themselves are those of LratCheck and ModelCheck. They run   *)
(* without an await: no call comes between their steps, only a restart.    *)
(***************************************************************************)
EXTENDS LratCheck, ModelCheck

CONSTANTS
  Caller,       \* results of the coordinator that ask about this evidence
  Kinds,        \* the kinds of evidence considered
  Cubes,        \* the cubes considered
  Manifests     \* what callers may say about the evidence

\* Whether the manifest is bound to the leased cube, declares sizes within the
\* server's limits, is exact about the artifact, and numbers the clauses right.
Manifest == [bound : BOOLEAN, small : BOOLEAN, exact : BOOLEAN, numbered : BOOLEAN]
Honest == [bound |-> TRUE, small |-> TRUE, exact |-> TRUE, numbered |-> TRUE]

ASSUME VerifierAssumption ==
  /\ Kinds \subseteq {"SAT", "UNSAT"}
  /\ Cubes \subseteq Seq(Literal)
  /\ Manifests \subseteq Manifest

VARIABLES
  kind,         \* "SAT" or "UNSAT", by the method called
  memory,       \* satInFlight and unsatInFlight: the promise of the only key
  waiting,      \* callers that await the promise
  stored,       \* the answer in the storage, "none" before it
  published     \* history: the answers given to callers

vars == <<formula, clauses, chain, derived, hinted, refuted, judgement,
          model, cursor, spent, opinion,
          kind, memory, waiting, stored, published>>

Answers == {"valid", "INVALID_MODEL", "INVALID_PROOF", "INVALID_FORMULA",
            "OWNER_CHECK_REQUIRED", "VERIFICATION_TIMEOUT"}

Stages == {"none", "lookup", "streams", "checking", "storing", "resolved", "rejected"}
NoPromise == [stage |-> "none", input |-> Honest, result |-> "none"]
Promise == [stage : Stages, input : Manifest, result : Answers \cup {"none"}]

\* The order in which each method takes the clauses and the cube's literals.
Checked(k, clauseList, cube) ==
  IF k = "SAT" THEN UnitClauses(cube) \o clauseList ELSE clauseList \o UnitClauses(cube)

Init ==
  /\ kind \in Kinds
  /\ \E f \in Formulas, cube \in Cubes : CheckerStart(Checked(kind, f, cube))
  /\ model \in IF kind = "SAT" THEN Assignment ELSE {{}}
  /\ ModelCheckStart
  /\ memory = NoPromise
  /\ waiting = {}
  /\ stored = "none"
  /\ published = {}

Unchecked == UNCHANGED <<formula, clauses, chain, derived, hinted, refuted, judgement,
                         model, cursor, spent, opinion>>
-----------------------------------------------------------------------------
(* verifySat and verifyUnsat.                                              *)

Call(c, manifest) ==
  /\ memory.stage # "checking"
  /\ c \notin waiting
  /\ waiting' = waiting \cup {c}
  /\ memory' = IF memory.stage = "none"
               THEN [NoPromise EXCEPT !.stage = "lookup", !.input = manifest]
               ELSE memory
  /\ Unchecked /\ UNCHANGED <<kind, stored, published>>

Settles(promise) ==
  memory' = promise /\ Unchecked /\ UNCHANGED <<kind, waiting, stored, published>>

Found(result) == [memory EXCEPT !.stage = "storing", !.result = result]

\* Slip: what is stored is not looked up.
LookUpNothing ==
  /\ memory.stage = "lookup"
  /\ Settles([memory EXCEPT !.stage = "streams"])

\* The storage is read.
LookUp ==
  /\ memory.stage = "lookup"
  /\ Settles(IF stored = "none" THEN [memory EXCEPT !.stage = "streams"]
             ELSE [memory EXCEPT !.stage = "resolved", !.result = stored])

\* What may be found before the check itself. A model whose stream breaks or is
\* too long counts as invalid; a proof's does not; a formula's always does.
ModelReading(m) ==
  {"INVALID_MODEL"} \cup (IF m.exact /\ m.bound THEN {"INVALID_FORMULA", "none"} ELSE {})

ProofReading(m) ==
  IF ~m.bound THEN {"INVALID_PROOF"}
  ELSE IF ~m.small THEN {"OWNER_CHECK_REQUIRED"}
  ELSE {"VERIFICATION_TIMEOUT"} \cup
       (IF ~m.exact THEN {"INVALID_PROOF"}
        ELSE {"INVALID_FORMULA", IF m.numbered THEN "none" ELSE "INVALID_PROOF"})

Reads(result) ==
  /\ memory.stage = "streams"
  /\ result \in IF kind = "SAT" THEN ModelReading(memory.input) ELSE ProofReading(memory.input)

Refuse(result) == result # "none" /\ Reads(result) /\ Settles(Found(result))

BeginCheck == Reads("none") /\ Settles([memory EXCEPT !.stage = "checking"])
-----------------------------------------------------------------------------
(* The check.                                                              *)

CheckProof ==
  /\ memory.stage = "checking" /\ kind = "UNSAT"
  /\ CheckStep
  /\ UNCHANGED <<model, cursor, spent, opinion, kind, memory, waiting, stored, published>>

CheckModel ==
  /\ memory.stage = "checking" /\ kind = "SAT"
  /\ CheckClause(formula) \/ AllChecked(formula)
  /\ UNCHANGED <<formula, clauses, chain, derived, hinted, refuted, judgement,
                 kind, memory, waiting, stored, published>>

ProofAnswer ==
  CASE judgement = "valid" -> "valid" [] judgement = "invalid" -> "INVALID_PROOF"
    [] judgement = "limit" -> "VERIFICATION_TIMEOUT" [] OTHER -> "OWNER_CHECK_REQUIRED"

ModelAnswer ==
  CASE opinion = "valid" -> "valid" [] opinion = "invalid" -> "INVALID_MODEL"
    [] OTHER -> "VERIFICATION_TIMEOUT"

\* verifySatOnce and verifyUnsatOnce return; what they had computed is gone.
Conclude ==
  /\ memory.stage = "checking"
  /\ IF kind = "SAT" THEN opinion # "reading" ELSE judgement # "reading"
  /\ memory' = Found(IF kind = "SAT" THEN ModelAnswer ELSE ProofAnswer)
  /\ CheckerStarts /\ ModelCheckStarts
  /\ UNCHANGED <<kind, waiting, stored, published>>
-----------------------------------------------------------------------------
(* The answer.                                                             *)

Store ==
  /\ memory.stage = "storing"
  /\ stored' = memory.result
  /\ memory' = [memory EXCEPT !.stage = "resolved"]
  /\ Unchecked /\ UNCHANGED <<kind, waiting, published>>

\* The storage fails: the promise in the map stays rejected.
StorageFails ==
  /\ memory.stage \in {"lookup", "storing"}
  /\ Settles([memory EXCEPT !.stage = "rejected"])

\* A caller gets the answer, or the exception.
Return(c) ==
  /\ c \in waiting
  /\ memory.stage \in {"resolved", "rejected"}
  /\ waiting' = waiting \ {c}
  /\ published' = IF memory.stage = "resolved" THEN published \cup {memory.result} ELSE published
  /\ Unchecked /\ UNCHANGED <<kind, memory, stored>>

\* The object is evicted or its machine dies: every call fails, the storage stays.
Restart ==
  /\ memory.stage # "none"
  /\ memory' = NoPromise
  /\ waiting' = {}
  /\ CheckerStarts /\ ModelCheckStarts
  /\ UNCHANGED <<kind, stored, published>>
-----------------------------------------------------------------------------
Verify == LookUp \/ (\E a \in Answers : Refuse(a)) \/ BeginCheck \/ CheckProof \/ CheckModel
          \/ Conclude \/ Store

Next ==
  \/ \E c \in Caller : Return(c) \/ \E m \in Manifests : Call(c, m)
  \/ Verify \/ StorageFails \/ Restart

Spec == Init /\ [][Next]_vars

\* The object runs as long as it has something to do.
Fairness == WF_vars(Verify) /\ \A c \in Caller : WF_vars(Return(c))
FairSpec == Spec /\ Fairness
-----------------------------------------------------------------------------
(* Properties.                                                             *)

\* Types; result-verifier.ts and lrat-check.ts keep nothing else.
VerifierTypeOK ==
  /\ formula \in Seq(Clause)
  /\ clauses \in [DOMAIN clauses -> Clause] /\ DOMAIN clauses \subseteq Nat
  /\ chain \in Chain
  /\ derived \in Nat /\ hinted \in Nat
  /\ refuted \in BOOLEAN /\ judgement \in Judgements
  /\ model \subseteq Literal /\ cursor \in Nat /\ spent \in Nat /\ opinion \in Opinions
  /\ kind \in Kinds
  /\ memory \in Promise /\ waiting \subseteq Caller
  /\ stored \in Answers \cup {"none"} /\ published \subseteq Answers

\* What the evidence is said to show.
Claim == IF kind = "UNSAT" THEN Unsatisfiable(formula) ELSE SatisfiesAll(model, formula)

\* A published "valid" is true: no assignment satisfies a formula whose proof was
\* accepted (verifyTextLrat: deletions, replaced clauses, repeated literals and
\* unused hints included), and an accepted model satisfies every clause and the cube.
ValidIsTrue == "valid" \in published => Claim

\* The same for what is kept for later callers and lives through a restart.
StoredIsTrue == stored = "valid" => Claim

\* However the calls, the storage's failures and the restarts fall, the object
\* answers one thing only about its evidence, and "valid" only of a true claim.
J == INSTANCE Judge WITH claim <- Claim, answers <- published, Rejections <- Answers \ {"valid"}
ImplementsJudge == J!Spec

\* Every call of verifySat or verifyUnsat ends, with an answer or an exception.
EveryCallEnds == \A c \in Caller : c \in waiting ~> c \notin waiting
=============================================================================
