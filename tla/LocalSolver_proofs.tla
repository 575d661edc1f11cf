------------------------- MODULE LocalSolver_proofs -------------------------
(***************************************************************************)
(* What holds of the local solver of the home page (LocalSolver.tla) for   *)
(* every set of files, every number of clause batches and every bound: the *)
(* types, that no search runs on a part of a formula, and that a model is  *)
(* shown of a satisfiable formula only.                                    *)
(***************************************************************************)
EXTENDS LocalSolver, SequenceTheorems, TLAPS

(* The types, with the records of both workers and of what they say. *)
PageRecord ==
  [phase : Phases, file : MaybeFile, formula : MaybeFile, request : 0..MaxRequests,
   sequence : 0..MaxRequests, loaded : BOOLEAN, finished : BOOLEAN, verdict : Verdicts]
Parsed == [type : {"error", "completed"}, request : 0..MaxRequests, file : File]
ParserRecord ==
  [alive : BOOLEAN, request : 0..MaxRequests, file : MaybeFile, outbox : Seq(Parsed)]
Report == [type : {"ready", "error", "result"}, request : 0..MaxRequests, verdict : Verdicts]
SolverRecord ==
  [alive : BOOLEAN, file : MaybeFile, inbox : Seq(Message), chain : Seq(Message),
   outbox : Seq(Report), request : 0..MaxRequests, added : Nat, paused : BOOLEAN,
   solving : BOOLEAN]

Typed ==
  /\ page \in PageRecord /\ parser \in ParserRecord /\ hashing \subseteq Parsed
  /\ solver \in SolverRecord

\* The page by itself: a request under way has a number, a result a verdict.
PageGood(p) ==
  /\ p.request <= p.sequence
  /\ p.phase = "result" => p.verdict # "none"
  /\ p.phase \in {"distributing", "solving"} => p.request # 0
-----------------------------------------------------------------------------
(* The solver worker by itself.  The formula comes first in its inbox; k    *)
(* messages of it are there still, and with those of the chain they are     *)
(* what is left of it.                                                      *)
IsPart(m) == m.type \in {"initialize", "clause-batch"}

Left(w, k) == Len(w.chain) + k

\* What is left, and what has been added, never exceed the formula: initialize
\* is the first of the messages, and nothing is counted before it.
Owed(w, k) ==
  /\ \A i \in 1..Len(w.inbox) : IsPart(w.inbox[i]) <=> i <= k
  /\ \A i \in 1..Len(w.chain) : IsPart(w.chain[i])
  /\ Left(w, k) <= Batches[w.file] + 1
  /\ \A i \in 1..Len(w.chain) :
       w.chain[i].type = "initialize" <=> i = 1 /\ Left(w, k) = Batches[w.file] + 1
  /\ \A i \in 1..k :
       w.inbox[i].type = "initialize" <=>
         i = 1 /\ w.chain = <<>> /\ Left(w, k) = Batches[w.file] + 1
  /\ Left(w, k) = Batches[w.file] + 1 => w.request = 0
  /\ w.request = 0 => w.added = 0
  /\ w.request # 0 => w.added + Left(w, k) <= Batches[w.file]

\* The formula is all there.
Whole(w) ==
  /\ w.request # 0 /\ w.added = Batches[w.file] /\ w.chain = <<>>
  /\ \A i \in 1..Len(w.inbox) : ~IsPart(w.inbox[i])

\* Whoever may start a search has seen the whole formula.
Armed(w) ==
  /\ w.solving => Whole(w)
  /\ \A i \in 1..Len(w.inbox) : w.inbox[i].type = "solve" => Whole(w)
  /\ \A i \in 1..Len(w.outbox) : w.outbox[i].type = "ready" =>
       Whole(w) /\ w.outbox[i].request # 0

\* A verdict is that of the file.
Honest(w) ==
  \A i \in 1..Len(w.outbox) : w.outbox[i].type = "result" =>
    /\ w.outbox[i].verdict # "none"
    /\ w.outbox[i].verdict = "SAT" => w.file \in Sat

SolverGood(w) ==
  /\ w.alive => w.file \in File
  /\ ~w.alive => w = NoSolver
  /\ w.alive => \E k \in 0..Len(w.inbox) : Owed(w, k)
  /\ Armed(w) /\ Honest(w)

LocalInv ==
  /\ Typed
  /\ PageGood(page)
  /\ Len(parser.outbox) \in 0..1
  /\ SolverGood(solver)
  /\ page.loaded => Whole(solver)
  /\ ShownModelIsReal

-----------------------------------------------------------------------------
(* Lemmas about the worker's steps.                                        *)

\* A worker that is there keeps its shape: what SolverGood and the types say.
Fit(w) == w \in SolverRecord /\ w.alive /\ SolverGood(w)

\* What a sequence is left with when its head is taken.
LEMMA TailOf ==
  ASSUME NEW S, NEW s \in Seq(S), s # <<>>
  PROVE  /\ Tail(s) \in Seq(S) /\ Len(Tail(s)) = Len(s) - 1 /\ Head(s) = s[1]
         /\ Head(s) \in S /\ Len(s) \in Nat /\ Len(s) >= 1
         /\ \A i \in 1..Len(Tail(s)) : Tail(s)[i] = s[i + 1]
BY HeadTailProperties, ElementOfSeq, LenProperties, EmptySeq

\* No worker: nothing is on its way.
LEMMA NoSolverGood == NoSolver \in SolverRecord /\ SolverGood(NoSolver)
BY LocalAssumption DEF NoSolver, SolverRecord, SolverGood, Armed, Honest, MaybeFile

\* A new worker has the whole formula before it.
LEMMA LoadingGood ==
  ASSUME NEW f \in File, NEW id \in 1..MaxRequests
  PROVE  Fit(Loading(f, id))
<1> DEFINE first == [type |-> "initialize", request |-> id]
           batch == [type |-> "clause-batch", request |-> id]
           batches == [i \in 1..Batches[f] |-> batch]
           w == Loading(f, id)
<1>1. Batches[f] \in Nat
  BY LocalAssumption
<1>2. <<first>> \in Seq(Message) /\ batches \in Seq(Message) /\ Len(batches) = Batches[f]
  <2>1. first \in Message /\ batch \in Message
    BY DEF Message
  <2>2. batches \in [1..Batches[f] -> Message]
    BY <2>1
  <2>3. batches \in Seq(Message)
    BY <1>1, <2>2, SeqDef
  <2> QED
    BY <1>1, <2>1, <2>2, <2>3, LenProperties
<1>3. <<first>> \o batches \in Seq(Message) /\ Len(<<first>> \o batches) = Batches[f] + 1
      /\ \A i \in 1..Batches[f] + 1 : (<<first>> \o batches)[i] = IF i = 1 THEN first ELSE batch
  BY <1>1, <1>2
<1>4. /\ w.alive /\ w.file = f /\ w.inbox = <<first>> \o batches /\ w.chain = <<>>
      /\ w.outbox = <<>> /\ w.request = 0 /\ w.added = 0 /\ ~w.solving
      /\ w = [alive |-> TRUE, file |-> f, inbox |-> <<first>> \o batches, chain |-> <<>>,
              outbox |-> <<>>, request |-> 0, added |-> 0, paused |-> TRUE, solving |-> FALSE]
  <2>1. w = [NoSolver EXCEPT !.alive = TRUE, !.file = f, !.inbox = <<first>> \o batches]
    BY DEF Loading
  <2> QED
    BY <2>1 DEF NoSolver
<1>5. w \in SolverRecord
  <2>1. /\ f \in MaybeFile /\ <<>> \in Seq(Message) /\ <<>> \in Seq(Report) /\ 0 \in Nat
        /\ 0 \in 0..MaxRequests
    BY LocalAssumption DEF MaybeFile
  <2> HIDE DEF w, batches, first
  <2> QED
    BY <1>3, <1>4, <2>1 DEF SolverRecord
<1> HIDE DEF w
<1>6. Owed(w, Batches[f] + 1)
  BY <1>1, <1>3, <1>4 DEF Owed, IsPart, Left
<1>7. Armed(w) /\ Honest(w)
  <2>0. first.type # "solve" /\ batch.type # "solve" /\ w.inbox = <<first>> \o batches
    BY <1>4
  <2> HIDE DEF first, batch, batches
  <2>1. \A i \in 1..Len(w.inbox) : w.inbox[i].type # "solve"
    BY <1>1, <1>3, <2>0
  <2>2. Len(w.outbox) = 0 /\ ~w.solving
    BY <1>4
  <2>3. Armed(w) /\ Honest(w)
    BY <2>1, <2>2 DEF Armed, Honest
  <2> QED
    BY <2>3
<1>8. \E k \in 0..Len(w.inbox) : Owed(w, k)
  BY <1>1, <1>3, <1>4, <1>6
<1>9. Fit(w)
  BY <1>4, <1>5, <1>7, <1>8 DEF Fit, SolverGood
<1> QED
  BY <1>9 DEF w

\* A message of the client changes nothing of the formula.
LEMMA PostedGood ==
  ASSUME NEW w, Fit(w), NEW m \in Message, ~IsPart(m), m.type = "solve" => Whole(w)
  PROVE  Fit(Posted(w, m)) /\ (Whole(w) => Whole(Posted(w, m)))
<1> DEFINE v == Posted(w, m)
<1>1. w \in SolverRecord /\ w.alive /\ SolverGood(w)
  BY DEF Fit
<1>2. /\ v \in SolverRecord /\ v.inbox = Append(w.inbox, m)
      /\ v.alive = w.alive /\ v.file = w.file /\ v.chain = w.chain /\ v.outbox = w.outbox
      /\ v.request = w.request /\ v.added = w.added /\ v.solving = w.solving
  <2>1. Append(w.inbox, m) \in Seq(Message)
    BY <1>1 DEF SolverRecord
  <2>2. v = [w EXCEPT !.inbox = Append(w.inbox, m)]
    BY DEF Posted
  <2> HIDE DEF v
  <2> QED
    BY <1>1, <2>1, <2>2 DEF SolverRecord
<1>3. /\ w.inbox \in Seq(Message) /\ Len(v.inbox) = Len(w.inbox) + 1 /\ Len(w.inbox) \in Nat
      /\ \A i \in 1..Len(w.inbox) : v.inbox[i] = w.inbox[i]
      /\ v.inbox[Len(w.inbox) + 1] = m
  BY <1>1, <1>2 DEF SolverRecord
<1> HIDE DEF v
<1>4. Whole(w) => Whole(v)
  BY <1>2, <1>3 DEF Whole
<1>5. \E k \in 0..Len(v.inbox) : Owed(v, k)
  <2>1. PICK k \in 0..Len(w.inbox) : Owed(w, k)
    BY <1>1 DEF SolverGood
  <2>2. Owed(v, k)
    BY <1>2, <1>3, <2>1 DEF Owed, Left, IsPart
  <2> QED
    BY <1>3, <2>1, <2>2
<1>6. Armed(v) /\ Honest(v)
  <2>1. Armed(w) /\ Honest(w)
    BY <1>1 DEF SolverGood
  <2>2. Armed(v)
    <3>1. \A i \in 1..Len(v.inbox) : i \in 1..Len(w.inbox) \/ v.inbox[i] = m
      BY <1>3
    <3>2. \A i \in 1..Len(v.inbox) : v.inbox[i].type = "solve" => Whole(v)
      BY <1>3, <1>4, <2>1, <3>1 DEF Armed
    <3> QED
      BY <1>2, <1>4, <2>1, <3>2 DEF Armed
  <2>3. Honest(v)
    BY <1>2, <2>1 DEF Honest
  <2> QED
    BY <2>2, <2>3
<1> QED
  BY <1>1, <1>2, <1>4, <1>5, <1>6 DEF SolverGood, Fit, v

\* A report adds to the outbox.
LEMMA ReportedGood ==
  ASSUME NEW w, Fit(w), NEW m \in Report,
         m.type = "ready" => Whole(w) /\ m.request # 0,
         m.type = "result" => m.verdict # "none" /\ (m.verdict = "SAT" => w.file \in Sat)
  PROVE  LET v == [w EXCEPT !.outbox = Append(@, m)]
         IN  Fit(v) /\ (Whole(w) => Whole(v))
<1> DEFINE v == [w EXCEPT !.outbox = Append(@, m)]
<1>1. w \in SolverRecord /\ w.alive /\ SolverGood(w)
  BY DEF Fit
<1>2. /\ v \in SolverRecord /\ v.outbox = Append(w.outbox, m)
      /\ v.alive = w.alive /\ v.file = w.file /\ v.chain = w.chain /\ v.inbox = w.inbox
      /\ v.request = w.request /\ v.added = w.added /\ v.solving = w.solving
  <2>1. v = [w EXCEPT !.outbox = Append(w.outbox, m)]
    OBVIOUS
  <2> HIDE DEF v
  <2>2. Append(w.outbox, m) \in Seq(Report)
    BY <1>1 DEF SolverRecord
  <2> QED
    BY <1>1, <2>1, <2>2 DEF SolverRecord
<1>3. /\ w.outbox \in Seq(Report) /\ Len(v.outbox) = Len(w.outbox) + 1 /\ Len(w.outbox) \in Nat
      /\ \A i \in 1..Len(w.outbox) : v.outbox[i] = w.outbox[i]
      /\ v.outbox[Len(w.outbox) + 1] = m
  BY <1>1, <1>2 DEF SolverRecord
<1> HIDE DEF v
<1>5. Whole(w) => Whole(v)
  BY <1>2 DEF Whole
<1>6. \E k \in 0..Len(v.inbox) : Owed(v, k)
  BY <1>1, <1>2 DEF SolverGood, Owed, Left
<1>7. Armed(v) /\ Honest(v)
  BY <1>1, <1>2, <1>3, <1>5 DEF SolverGood, Armed, Honest
<1> QED
  BY <1>1, <1>2, <1>5, <1>6, <1>7 DEF SolverGood, Fit, v

\* Says is such a report.
LEMMA SaysGood ==
  ASSUME NEW w, Fit(w), NEW type \in {"ready", "error", "result"}, NEW verdict \in Verdicts,
         type = "ready" => Whole(w),
         type = "result" => verdict # "none" /\ (verdict = "SAT" => w.file \in Sat)
  PROVE  Fit(Says(w, type, verdict)) /\ (Whole(w) => Whole(Says(w, type, verdict)))
<1> DEFINE m == [type |-> type, request |-> w.request, verdict |-> verdict]
<1>1. m \in Report /\ m.type = type /\ m.verdict = verdict /\ m.request = w.request
  BY DEF Report, Fit, SolverRecord
<1>2. Says(w, type, verdict) = [w EXCEPT !.outbox = Append(@, m)]
  BY DEF Says
<1> HIDE DEF m
<1> QED
  BY <1>1, <1>2, ReportedGood DEF Whole

\* What is taken from the outbox leaves the rest as it was.
LEMMA HeardGood ==
  ASSUME NEW w, Fit(w), w.outbox # <<>>
  PROVE  LET v == [w EXCEPT !.outbox = Tail(@)]
         IN  Fit(v) /\ (Whole(w) => Whole(v))
<1> DEFINE v == [w EXCEPT !.outbox = Tail(@)]
<1>1. w \in SolverRecord /\ w.alive /\ SolverGood(w)
  BY DEF Fit
<1>2. w.outbox \in Seq(Report)
  BY <1>1 DEF SolverRecord
<1>3. /\ Tail(w.outbox) \in Seq(Report) /\ Len(Tail(w.outbox)) = Len(w.outbox) - 1
      /\ Len(w.outbox) \in Nat
      /\ \A i \in 1..Len(Tail(w.outbox)) : Tail(w.outbox)[i] = w.outbox[i + 1]
  BY <1>2, TailOf
<1>4. /\ v \in SolverRecord /\ v.outbox = Tail(w.outbox)
      /\ v.alive = w.alive /\ v.file = w.file /\ v.chain = w.chain /\ v.inbox = w.inbox
      /\ v.request = w.request /\ v.added = w.added /\ v.solving = w.solving
  BY <1>1, <1>3 DEF SolverRecord
<1> HIDE DEF v
<1>5. Whole(w) => Whole(v)
  BY <1>4 DEF Whole
<1>6. \E k \in 0..Len(v.inbox) : Owed(v, k)
  BY <1>1, <1>4 DEF SolverGood, Owed, Left
<1>7. \A i \in 1..Len(v.outbox) : i + 1 \in 1..Len(w.outbox) /\ v.outbox[i] = w.outbox[i + 1]
  BY <1>3, <1>4
<1>8. Armed(v) /\ Honest(v)
  BY <1>1, <1>4, <1>5, <1>7 DEF SolverGood, Armed, Honest
<1> QED
  BY <1>1, <1>4, <1>5, <1>6, <1>8 DEF SolverGood, Fit, v

\* The search is started and stopped: only a whole formula is searched.
LEMMA TurnedGood ==
  ASSUME NEW w, Fit(w), NEW p \in BOOLEAN, NEW s \in BOOLEAN, s => Whole(w)
  PROVE  LET v == [w EXCEPT !.paused = p, !.solving = s]
         IN  Fit(v) /\ (Whole(w) => Whole(v))
<1> DEFINE v == [w EXCEPT !.paused = p, !.solving = s]
<1>1. w \in SolverRecord /\ w.alive /\ SolverGood(w)
  BY DEF Fit
<1>2. /\ v \in SolverRecord /\ v.solving = s
      /\ v.alive = w.alive /\ v.file = w.file /\ v.chain = w.chain /\ v.inbox = w.inbox
      /\ v.request = w.request /\ v.added = w.added /\ v.outbox = w.outbox
  BY <1>1 DEF SolverRecord
<1> HIDE DEF v
<1>3. Whole(w) => Whole(v)
  BY <1>2 DEF Whole
<1>4. \E k \in 0..Len(v.inbox) : Owed(v, k)
  BY <1>1, <1>2 DEF SolverGood, Owed, Left
<1>5. Armed(v) /\ Honest(v)
  BY <1>1, <1>2, <1>3 DEF SolverGood, Armed, Honest
<1> QED
  BY <1>1, <1>2, <1>3, <1>4, <1>5 DEF SolverGood, Fit, v

\* A batch of slices.
LEMMA BatchGood ==
  ASSUME NEW w, Fit(w), Whole(w), NEW v \in Batch(w)
  PROVE  Fit(v) /\ Whole(v)
<1> DEFINE verdict == IF w.file \in Sat THEN "SAT" ELSE "UNSAT"
           said == Says(w, "result", verdict)
<1>1. w \in SolverRecord
  BY DEF Fit
<1>2. w.paused \in BOOLEAN
  BY <1>1 DEF SolverRecord
<1>3. CASE v = [w EXCEPT !.solving = TRUE]
  <2>1. v = [w EXCEPT !.paused = w.paused, !.solving = TRUE]
    BY <1>1, <1>3 DEF SolverRecord
  <2> QED
    BY <1>2, <2>1, TurnedGood
<1>4. CASE v = [w EXCEPT !.solving = FALSE]
  <2>1. v = [w EXCEPT !.paused = w.paused, !.solving = FALSE]
    BY <1>1, <1>4 DEF SolverRecord
  <2> QED
    BY <1>2, <2>1, TurnedGood
<1>5. CASE v = [said EXCEPT !.paused = TRUE, !.solving = FALSE]
  <2>1. verdict \in Verdicts /\ verdict # "none" /\ (verdict = "SAT" => w.file \in Sat)
    BY DEF Verdicts
  <2>2. Fit(said) /\ Whole(said)
    BY <2>1, SaysGood
  <2> HIDE DEF said
  <2> QED
    BY <1>5, <2>2, TurnedGood
<1> QED
  BY <1>3, <1>4, <1>5 DEF Batch

\* The worker takes a message: solve finds the whole formula, or is not asked.
LEMMA TakenGood ==
  ASSUME NEW w, Fit(w), w.inbox # <<>>, NEW u \in Taken(w)
  PROVE  Fit(u) /\ (Whole(w) => Whole(u))
<1> DEFINE m == Head(w.inbox)
           v == [w EXCEPT !.inbox = Tail(@)]
           c == [v EXCEPT !.chain = Append(@, m)]
<1>1. w \in SolverRecord /\ w.alive /\ SolverGood(w)
  BY DEF Fit
<1>2. w.inbox \in Seq(Message) /\ w.chain \in Seq(Message)
  BY <1>1 DEF SolverRecord
<1>3. /\ Tail(w.inbox) \in Seq(Message) /\ Len(Tail(w.inbox)) = Len(w.inbox) - 1
      /\ Len(w.inbox) \in Nat /\ Len(w.inbox) >= 1 /\ m = w.inbox[1] /\ m \in Message
      /\ \A i \in 1..Len(Tail(w.inbox)) : Tail(w.inbox)[i] = w.inbox[i + 1]
  BY <1>2, TailOf
<1>4. /\ v \in SolverRecord /\ v.inbox = Tail(w.inbox)
      /\ v.alive = w.alive /\ v.file = w.file /\ v.chain = w.chain /\ v.outbox = w.outbox
      /\ v.request = w.request /\ v.added = w.added /\ v.solving = w.solving
      /\ v.paused = w.paused
  BY <1>1, <1>3 DEF SolverRecord
<1> HIDE DEF v
<1>5. PICK k \in 0..Len(w.inbox) : Owed(w, k)
  BY <1>1 DEF SolverGood
<1>6. CASE ~IsPart(m)
  <2> HIDE DEF m
  <2>1. k = 0
    BY <1>3, <1>5, <1>6 DEF Owed
  <2>2. Owed(v, 0) /\ 0 \in 0..Len(v.inbox)
    BY <1>3, <1>4, <1>5, <2>1 DEF Owed, Left
  <2>3. Whole(w) => Whole(v)
    BY <1>3, <1>4 DEF Whole
  <2>4. \A i \in 1..Len(v.inbox) : i + 1 \in 1..Len(w.inbox) /\ v.inbox[i] = w.inbox[i + 1]
    BY <1>3, <1>4
  <2>5. Armed(v) /\ Honest(v)
    BY <1>1, <1>4, <2>3, <2>4 DEF SolverGood, Armed, Honest
  <2>6. Fit(v)
    BY <1>1, <1>4, <2>2, <2>5 DEF SolverGood, Fit
  <2>7. v.paused \in BOOLEAN /\ v.solving \in BOOLEAN /\ (v.solving => Whole(v))
    BY <1>4, <2>5 DEF SolverRecord, Armed
  <2>8. m.type = "solve" => Whole(v)
    BY <1>1, <1>3, <2>3 DEF SolverGood, Armed
  <2>9. \/ u = v
        \/ u = [v EXCEPT !.paused = TRUE]
        \/ m.type = "solve" /\ u = [v EXCEPT !.paused = FALSE]
        \/ m.type = "solve" /\ u \in Batch([v EXCEPT !.paused = FALSE])
    BY <1>3, <1>6 DEF Taken, IsPart, Message, v, m
  <2>10. ASSUME NEW p \in BOOLEAN
         PROVE  /\ Fit([v EXCEPT !.paused = p])
                /\ Whole(v) => Whole([v EXCEPT !.paused = p])
    <3>1. [v EXCEPT !.paused = p] = [v EXCEPT !.paused = p, !.solving = v.solving]
      BY <1>4 DEF SolverRecord
    <3> QED
      BY <2>6, <2>7, <3>1, TurnedGood
  <2> QED
    BY <2>3, <2>6, <2>8, <2>9, <2>10, BatchGood
<1>7. CASE IsPart(m)
  <2>1. u = c
    BY <1>7 DEF Taken, IsPart, v, m
  <2> HIDE DEF m
  <2>2. 1 <= k
    BY <1>3, <1>5, <1>7 DEF Owed
  <2>3. Append(w.chain, m) \in Seq(Message) /\ Len(w.chain) \in Nat
        /\ Len(Append(w.chain, m)) = Len(w.chain) + 1
        /\ (\A i \in 1..Len(w.chain) : Append(w.chain, m)[i] = w.chain[i])
        /\ Append(w.chain, m)[Len(w.chain) + 1] = m
    BY <1>2, <1>3
  <2>4. /\ u \in SolverRecord /\ u.chain = Append(w.chain, m)
        /\ u.inbox = Tail(w.inbox)
        /\ u.alive = w.alive /\ u.file = w.file /\ u.outbox = w.outbox
        /\ u.request = w.request /\ u.added = w.added /\ u.solving = w.solving
    BY <1>4, <2>1, <2>3 DEF SolverRecord
  <2>5. ~Whole(w)
    BY <1>3, <1>7 DEF Whole
  <2>6. Armed(u) /\ Honest(u)
    BY <1>1, <1>3, <2>4, <2>5 DEF SolverGood, Armed, Honest
  <2>7. Owed(u, k - 1)
    <3>1. Left(u, k - 1) = Left(w, k)
      BY <2>2, <2>3, <2>4 DEF Left
    <3>2. w.chain = <<>> <=> Len(w.chain) = 0
      BY <1>2, EmptySeq
    <3>3. m.type = "initialize" <=> w.chain = <<>> /\ Left(w, k) = Batches[w.file] + 1
      BY <1>3, <1>5, <2>2 DEF Owed
    <3>4. \A i \in 1..Len(u.chain) : IsPart(u.chain[i]) /\
            (u.chain[i].type = "initialize" <=> i = 1 /\ Left(w, k) = Batches[w.file] + 1)
      BY <1>5, <1>7, <2>3, <2>4, <3>2, <3>3 DEF Owed
    <3>5. \A i \in 1..Len(u.inbox) : i + 1 \in 1..Len(w.inbox) /\ u.inbox[i] = w.inbox[i + 1]
      BY <1>3, <2>4
    <3>6. \A i \in 1..Len(u.inbox) : IsPart(u.inbox[i]) <=> i <= k - 1
      BY <1>5, <3>5 DEF Owed
    <3>7. u.chain # <<>>
      BY <2>3, <2>4, EmptySeq
    <3>8. \A i \in 1..k - 1 : u.inbox[i].type # "initialize"
      BY <1>3, <1>5, <3>5, <2>4 DEF Owed
    <3> QED
      BY <1>5, <2>4, <3>1, <3>4, <3>6, <3>7, <3>8 DEF Owed
  <2>8. k - 1 \in 0..Len(u.inbox)
    BY <1>3, <2>2, <2>4
  <2> QED
    BY <1>1, <2>4, <2>5, <2>6, <2>7, <2>8 DEF SolverGood, Fit
<1> QED
  BY <1>6, <1>7

\* A message of the chain is dealt with: nothing is left of it.
LEMMA TurnGood ==
  ASSUME NEW w, Fit(w), w.chain # <<>>
  PROVE  LET m == Head(w.chain)
             v == [w EXCEPT !.chain = Tail(@)]
         IN  /\ m \in Message /\ ~Whole(w) /\ ~v.solving /\ v \in SolverRecord
             /\ v.alive /\ v.file \in File /\ v.file = w.file /\ v.request = w.request
             /\ v.added = w.added /\ v.outbox = w.outbox
             /\ Honest(v)
             /\ \A i \in 1..Len(v.inbox) : v.inbox[i].type # "solve"
             /\ \A i \in 1..Len(v.outbox) : v.outbox[i].type # "ready"
             /\ \E k \in 0..Len(v.inbox) :
                  /\ Owed(w, k)
                  /\ Left(v, k) = Left(w, k) - 1
                  /\ Left(w, k) = Batches[w.file] + 1 <=> m.type = "initialize"
                  /\ \A i \in 1..Len(v.chain) : v.chain[i].type = "clause-batch"
                  /\ \A i \in 1..k : v.inbox[i].type = "clause-batch"
                  /\ \A i \in 1..Len(v.inbox) : IsPart(v.inbox[i]) <=> i <= k
<1> DEFINE m == Head(w.chain)
           v == [w EXCEPT !.chain = Tail(@)]
<1>1. w \in SolverRecord /\ w.alive /\ SolverGood(w)
  BY DEF Fit
<1>2. w.chain \in Seq(Message) /\ w.inbox \in Seq(Message)
  BY <1>1 DEF SolverRecord
<1>3. /\ Tail(w.chain) \in Seq(Message) /\ Len(Tail(w.chain)) = Len(w.chain) - 1
      /\ Len(w.chain) \in Nat /\ Len(w.chain) >= 1 /\ m = w.chain[1] /\ m \in Message
      /\ \A i \in 1..Len(Tail(w.chain)) : Tail(w.chain)[i] = w.chain[i + 1]
  BY <1>2, TailOf
<1>4. /\ v \in SolverRecord /\ v.chain = Tail(w.chain)
      /\ v.alive = w.alive /\ v.file = w.file /\ v.inbox = w.inbox /\ v.outbox = w.outbox
      /\ v.request = w.request /\ v.added = w.added /\ v.solving = w.solving
  BY <1>1, <1>3 DEF SolverRecord
<1>5. ~Whole(w)
  BY DEF Whole
<1> HIDE DEF v, m
<1>6. /\ ~w.solving /\ w.solving \in BOOLEAN
      /\ \A i \in 1..Len(w.inbox) : w.inbox[i].type # "solve"
      /\ \A i \in 1..Len(w.outbox) : w.outbox[i].type # "ready"
  BY <1>1, <1>5 DEF SolverGood, Armed, SolverRecord
<1>7. PICK k \in 0..Len(w.inbox) : Owed(w, k)
  BY <1>1 DEF SolverGood
<1>8. Left(v, k) = Left(w, k) - 1
  BY <1>3, <1>4 DEF Left
<1>9. Left(w, k) = Batches[w.file] + 1 <=> m.type = "initialize"
  BY <1>3, <1>7 DEF Owed
<1>10. \A i \in 1..Len(v.chain) : v.chain[i].type = "clause-batch"
  <2>1. \A i \in 1..Len(v.chain) : i + 1 \in 1..Len(w.chain) /\ v.chain[i] = w.chain[i + 1]
    BY <1>3, <1>4
  <2> QED
    BY <1>7, <2>1 DEF Owed, IsPart
<1>11. \A i \in 1..k : i \in 1..Len(w.inbox) /\ w.inbox[i].type = "clause-batch"
  <2>1. k <= Len(w.inbox) /\ Len(w.inbox) \in Nat
    BY <1>2, <1>7
  <2> QED
    BY <1>7, <2>1 DEF Owed, IsPart
<1>12. Honest(v)
  BY <1>1, <1>4 DEF SolverGood, Honest
<1>13. \A i \in 1..Len(v.inbox) : IsPart(v.inbox[i]) <=> i <= k
  BY <1>4, <1>7 DEF Owed
<1>14. v.file \in File
  BY <1>1, <1>4 DEF SolverGood
<1>15. /\ m \in Message /\ ~Whole(w) /\ ~v.solving /\ v \in SolverRecord
       /\ v.alive /\ v.file \in File /\ v.file = w.file /\ v.request = w.request
       /\ v.added = w.added /\ v.outbox = w.outbox /\ Honest(v)
       /\ \A i \in 1..Len(v.inbox) : v.inbox[i].type # "solve"
       /\ \A i \in 1..Len(v.outbox) : v.outbox[i].type # "ready"
  BY <1>1, <1>3, <1>4, <1>5, <1>6, <1>12, <1>14
<1>16. \E j \in 0..Len(v.inbox) :
         /\ Owed(w, j)
         /\ Left(v, j) = Left(w, j) - 1
         /\ Left(w, j) = Batches[w.file] + 1 <=> m.type = "initialize"
         /\ \A i \in 1..Len(v.chain) : v.chain[i].type = "clause-batch"
         /\ \A i \in 1..j : v.inbox[i].type = "clause-batch"
         /\ \A i \in 1..Len(v.inbox) : IsPart(v.inbox[i]) <=> i <= j
  <2>1. k \in 0..Len(v.inbox) /\ \A i \in 1..k : v.inbox[i].type = "clause-batch"
    BY <1>4, <1>7, <1>11
  <2> QED
    BY <1>7, <1>8, <1>9, <1>10, <1>13, <2>1
<1> QED
  BY <1>15, <1>16 DEF v, m

\* What the worker is when it is done with a message of the chain.
Settles(u, v) ==
  /\ u.request = 0 => u.added = 0
  /\ u.alive = v.alive /\ u.file = v.file /\ u.inbox = v.inbox /\ u.chain = v.chain
  /\ u.outbox = v.outbox /\ u.solving = v.solving /\ u \in SolverRecord

LEMMA SettledGood ==
  ASSUME NEW w, Fit(w), w.chain # <<>>, NEW u,
         Settles(u, [w EXCEPT !.chain = Tail(@)]),
         \/ Head(w.chain).type = "initialize" /\ u.added = 0
         \/ /\ Head(w.chain).type # "initialize" /\ u.request = w.request
            /\ w.request # 0 => u.added <= w.added + 1
  PROVE  /\ Fit(u)
         /\ u.request # 0 /\ u.added = Batches[u.file] => Whole(u)
<1> DEFINE m == Head(w.chain)
           v == [w EXCEPT !.chain = Tail(@)]
<1>1. /\ v \in SolverRecord /\ v.alive /\ v.file \in File /\ v.file = w.file
      /\ ~v.solving /\ Honest(v)
      /\ \A i \in 1..Len(v.inbox) : v.inbox[i].type # "solve"
      /\ \A i \in 1..Len(v.outbox) : v.outbox[i].type # "ready"
  BY TurnGood
<1>2. PICK k \in 0..Len(v.inbox) :
        /\ Owed(w, k) /\ Left(v, k) = Left(w, k) - 1
        /\ Left(w, k) = Batches[w.file] + 1 <=> m.type = "initialize"
        /\ \A i \in 1..Len(v.chain) : v.chain[i].type = "clause-batch"
        /\ \A i \in 1..k : v.inbox[i].type = "clause-batch"
        /\ \A i \in 1..Len(v.inbox) : IsPart(v.inbox[i]) <=> i <= k
  BY TurnGood
<1> HIDE DEF v, m
<1>3. /\ u.alive = v.alive /\ u.file = v.file /\ u.inbox = v.inbox /\ u.chain = v.chain
      /\ u.outbox = v.outbox /\ u.solving = v.solving /\ u \in SolverRecord
      /\ u.request = 0 => u.added = 0
  BY DEF Settles, v
<1>4. /\ Batches[w.file] \in Nat /\ Left(w, k) \in Nat /\ Len(v.chain) \in Nat
      /\ Len(v.inbox) \in Nat /\ u.added \in Nat /\ w.added \in Nat /\ k \in Nat
  <2>1. w \in SolverRecord
    BY DEF Fit
  <2>2. Batches[w.file] \in Nat /\ u.added \in Nat /\ w.added \in Nat
    BY <1>1, <1>3, <2>1, LocalAssumption DEF SolverRecord
  <2>3. /\ w.chain \in Seq(Message) /\ v.chain \in Seq(Message) /\ v.inbox \in Seq(Message)
    BY <1>1, <2>1 DEF SolverRecord
  <2>4. Len(w.chain) \in Nat /\ Len(v.chain) \in Nat /\ Len(v.inbox) \in Nat
    BY <2>3, LenProperties
  <2>5. k \in Nat
    BY <1>2, <2>4
  <2> QED
    BY <2>2, <2>4, <2>5 DEF Left
<1>5. Left(u, k) = Left(w, k) - 1 /\ Left(u, k) = Len(u.chain) + k
  BY <1>2, <1>3 DEF Left
<1>6. Left(u, k) < Batches[u.file] + 1
  BY <1>1, <1>2, <1>3, <1>4, <1>5 DEF Owed
<1>7. u.request # 0 => u.added + Left(u, k) <= Batches[u.file]
  <2>1. CASE m.type = "initialize"
    <3>1. u.added = 0
      BY <2>1 DEF m
    <3>2. Batches[u.file] \in Nat /\ Left(u, k) \in Int
      BY <1>1, <1>3, <1>4, <1>5
    <3> QED
      BY <1>6, <3>1, <3>2
  <2>2. CASE m.type # "initialize"
    <3>1. u.request = w.request /\ (w.request # 0 => u.added <= w.added + 1)
      BY <2>2 DEF m
    <3>2. w.request # 0 => w.added + Left(w, k) <= Batches[w.file]
      BY <1>2 DEF Owed
    <3>3. /\ w.added \in Nat /\ u.added \in Nat /\ Left(w, k) \in Nat
          /\ Batches[w.file] \in Nat /\ u.file = w.file /\ Left(u, k) = Left(w, k) - 1
      BY <1>1, <1>3, <1>4, <1>5
    <3> QED
      BY <3>1, <3>2, <3>3
  <2> QED
    BY <2>1, <2>2
<1>8. Owed(u, k)
  <2>1. \A i \in 1..Len(u.chain) : u.chain[i].type = "clause-batch"
    BY <1>2, <1>3
  <2>2. \A i \in 1..k : u.inbox[i].type = "clause-batch"
    BY <1>2, <1>3
  <2>3. \A i \in 1..Len(u.inbox) : IsPart(u.inbox[i]) <=> i <= k
    BY <1>2, <1>3
  <2>4. Left(u, k) # Batches[u.file] + 1 /\ Left(u, k) <= Batches[u.file] + 1
    BY <1>1, <1>3, <1>4, <1>5, <1>6
  <2> QED
    BY <1>3, <1>7, <2>1, <2>2, <2>3, <2>4 DEF Owed, IsPart
<1>9. Armed(u) /\ Honest(u)
  BY <1>1, <1>3 DEF Armed, Honest
<1>10. Fit(u)
  BY <1>1, <1>2, <1>3, <1>8, <1>9 DEF Fit, SolverGood
<1>11. ASSUME u.request # 0, u.added = Batches[u.file]
       PROVE  Whole(u)
  <2>1. Len(u.chain) = 0 /\ k = 0
    BY <1>1, <1>3, <1>4, <1>5, <1>7, <1>11
  <2>2. u.chain = <<>>
    BY <1>3, <2>1, EmptySeq DEF SolverRecord
  <2> QED
    BY <1>2, <1>3, <1>11, <2>1, <2>2 DEF Whole
<1> QED
  BY <1>10, <1>11

\* initialize or a clause batch: ready is said of a whole formula.
LEMMA ChainedGood ==
  ASSUME NEW w, Fit(w), w.chain # <<>>
  PROVE  Fit(Chained(w)) /\ ~Whole(w)
<1> DEFINE m == Head(w.chain)
           v == [w EXCEPT !.chain = Tail(@)]
           u == IF m.type = "initialize" THEN [v EXCEPT !.request = m.request, !.added = 0]
                ELSE IF m.request = w.request THEN [v EXCEPT !.added = @ + 1] ELSE v
<1>1. /\ m \in Message /\ v \in SolverRecord /\ ~Whole(w) /\ v.request = w.request
      /\ v.file = w.file /\ v.added = w.added
  BY TurnGood
<1>2. m.request \in Nat /\ m.request # 0 /\ m.request \in 0..MaxRequests
  BY <1>1, LocalAssumption DEF Message
<1>3. w \in SolverRecord /\ (w.request = 0 => w.added = 0)
  <2>1. \E k \in 0..Len(w.inbox) : Owed(w, k)
    BY DEF Fit, SolverGood
  <2> QED
    BY <2>1 DEF Fit, Owed
<1>4. w.added \in Nat /\ v.added \in Nat
  BY <1>1, <1>3 DEF SolverRecord
<1>5. Chained(w) = IF u.request = m.request /\ u.added = Batches[w.file]
                   THEN Says(u, "ready", "none") ELSE u
  BY DEF Chained
<1> HIDE DEF v, m
<1>6. /\ Settles(u, v) /\ u.file = w.file
      /\ \/ m.type = "initialize" /\ u.added = 0
         \/ /\ m.type # "initialize" /\ u.request = w.request
            /\ w.request # 0 => u.added <= w.added + 1
  <2>1. CASE m.type = "initialize"
    <3>1. u = [v EXCEPT !.request = m.request, !.added = 0]
      BY <2>1
    <3> HIDE DEF u
    <3> QED
      BY <1>1, <1>2, <2>1, <3>1 DEF Settles, SolverRecord
  <2>2. CASE m.type # "initialize" /\ m.request = w.request
    <3>1. u = [v EXCEPT !.added = v.added + 1]
      BY <2>2
    <3> HIDE DEF u
    <3>2. v.added + 1 \in Nat /\ v.added + 1 <= w.added + 1
      BY <1>1, <1>4
    <3>3. /\ u \in SolverRecord /\ u.added = v.added + 1 /\ u.request = v.request
          /\ u.alive = v.alive /\ u.file = v.file /\ u.inbox = v.inbox /\ u.chain = v.chain
          /\ u.outbox = v.outbox /\ u.solving = v.solving
      BY <1>1, <3>1, <3>2 DEF SolverRecord
    <3> QED
      BY <1>1, <1>2, <2>2, <3>2, <3>3 DEF Settles
  <2>3. CASE m.type # "initialize" /\ m.request # w.request
    <3>1. u = v
      BY <2>3
    <3> HIDE DEF u
    <3> QED
      BY <1>1, <1>3, <1>4, <2>3, <3>1 DEF Settles
  <2> QED
    BY <2>1, <2>2, <2>3
<1> HIDE DEF u
<1>7. Fit(u) /\ (u.request # 0 /\ u.added = Batches[u.file] => Whole(u))
  BY <1>6, SettledGood DEF v, m
<1>8. CASE u.request = m.request /\ u.added = Batches[w.file]
  BY <1>2, <1>5, <1>6, <1>7, <1>8, <1>1, SaysGood DEF Verdicts
<1>9. CASE ~(u.request = m.request /\ u.added = Batches[w.file])
  BY <1>5, <1>7, <1>9, <1>1
<1> QED
  BY <1>8, <1>9

\* Loading may fail at a message: then it is never ready.
LEMMA LoadingFailsGood ==
  ASSUME NEW w, Fit(w), w.chain # <<>>
  PROVE  LET u == [w EXCEPT !.chain = Tail(@), !.outbox =
                     Append(@, [type |-> "error", request |-> Head(w.chain).request,
                                verdict |-> "none"])]
         IN  Fit(u) /\ ~Whole(w)
<1> DEFINE m == Head(w.chain)
           v == [w EXCEPT !.chain = Tail(@)]
           e == [type |-> "error", request |-> m.request, verdict |-> "none"]
<1>1. m \in Message /\ v \in SolverRecord /\ ~Whole(w) /\ v.request = w.request /\ v.added = w.added
  BY TurnGood
<1>2. \E k \in 0..Len(v.inbox) :
         Owed(w, k) /\ (Left(w, k) = Batches[w.file] + 1 <=> m.type = "initialize")
  BY TurnGood
<1>3. e \in Report /\ e.type = "error"
  <2> HIDE DEF m
  <2> QED
    BY <1>1 DEF Report, Message, Verdicts
<1>4. /\ w.request = 0 => w.added = 0
      /\ m.type = "initialize" => w.added = 0
  BY <1>2 DEF Owed
<1>5. w.added \in Nat
  BY DEF Fit, SolverRecord
<1>6. Fit(v)
  <2>1. Settles(v, v)
    BY <1>1, <1>4 DEF Settles
  <2>2. \/ m.type = "initialize" /\ v.added = 0
        \/ /\ m.type # "initialize" /\ v.request = w.request
           /\ w.request # 0 => v.added <= w.added + 1
    BY <1>1, <1>4, <1>5
  <2> QED
    BY <2>1, <2>2, SettledGood
<1>7. [w EXCEPT !.chain = Tail(@), !.outbox = Append(@, e)] = [v EXCEPT !.outbox = Append(@, e)]
  BY DEF Fit, SolverRecord
<1> HIDE DEF v, e
<1>8. Fit([v EXCEPT !.outbox = Append(@, e)])
  BY <1>3, <1>6, ReportedGood
<1> QED
  BY <1>1, <1>7, <1>8 DEF e

\* Where anything is on its way, or searched, there is a worker.
LEMMA WorkerThere ==
  ASSUME NEW w, w \in SolverRecord, SolverGood(w),
         \/ w.alive \/ w.inbox # <<>> \/ w.chain # <<>> \/ w.outbox # <<>> \/ w.solving
         \/ Whole(w)
  PROVE  Fit(w)
BY DEF Fit, SolverGood, NoSolver, Whole
-----------------------------------------------------------------------------
(* The steps.                                                              *)

\* The initial state.
LEMMA InitGood == Init => LocalInv
<1> SUFFICES ASSUME Init PROVE LocalInv
  OBVIOUS
<1>1. page \in PageRecord /\ PageGood(page) /\ ~page.loaded
  BY LocalAssumption DEF Init, EmptyPage, PageRecord, PageGood, Phases, Verdicts, MaybeFile
<1>2. parser \in ParserRecord /\ Len(parser.outbox) \in 0..1
  BY LocalAssumption DEF Init, NoParser, ParserRecord, MaybeFile
<1> QED
  BY <1>1, <1>2, NoSolverGood DEF Init, LocalInv, Typed, ShownModelIsReal, EmptyPage

\* What a state needs to be one of the invariant's, part by part.
LEMMA Assembled ==
  ASSUME page' \in PageRecord, PageGood(page'),
         parser' \in ParserRecord, Len(parser'.outbox) \in 0..1, hashing' \subseteq Parsed,
         solver' \in SolverRecord, SolverGood(solver'), page'.loaded => Whole(solver'),
         ShownModelIsReal'
  PROVE  LocalInv'
BY DEF LocalInv, Typed

\* No parser: nothing is on its way.
LEMMA NoParserGood == NoParser \in ParserRecord /\ Len(NoParser.outbox) \in 0..1
BY LocalAssumption DEF NoParser, ParserRecord, MaybeFile

\* fail: whatever went wrong, both workers are gone.
LEMMA FailGood ==
  ASSUME LocalInv, Fail(page), hashing' \subseteq Parsed
  PROVE  LocalInv'
<1>1. page \in PageRecord /\ PageGood(page)
  BY DEF LocalInv, Typed
<1>2. page' \in PageRecord /\ PageGood(page') /\ ~page'.loaded /\ page'.phase = "error"
  <2>1. page' = [page EXCEPT !.phase = "error", !.verdict = "none", !.loaded = FALSE,
                             !.finished = FALSE, !.request = 0]
    BY DEF Fail
  <2>2. "error" \in Phases /\ "none" \in Verdicts /\ 0 \in 0..MaxRequests
    BY LocalAssumption DEF Phases, Verdicts
  <2>3. page' \in PageRecord
    BY <1>1, <2>1, <2>2 DEF PageRecord
  <2>4. /\ page'.phase = "error" /\ page'.request = 0 /\ page'.sequence = page.sequence
        /\ ~page'.loaded
    BY <1>1, <2>1 DEF PageRecord
  <2>5. page.sequence \in Nat
    BY <1>1, LocalAssumption DEF PageRecord
  <2> QED
    BY <2>3, <2>4, <2>5 DEF PageGood
<1>3. parser' = NoParser /\ solver' = NoSolver
  BY DEF Fail, DisposeRuntime
<1> QED
  BY <1>2, <1>3, NoParserGood, NoSolverGood, Assembled DEF ShownModelIsReal

\* prepare: a new parser, and no solver.
LEMMA PrepareGood ==
  ASSUME LocalInv, NEW p \in PageRecord, PageGood(p), p.file \in File, Prepare(p), UNCHANGED hashing
  PROVE  LocalInv'
<1>1. p.sequence + 1 \in 1..MaxRequests /\ p.sequence \in Nat
  BY LocalAssumption DEF Prepare, PageRecord
<1>2. /\ page' = [p EXCEPT !.formula = NoFile, !.loaded = FALSE, !.finished = FALSE,
                           !.request = p.sequence + 1, !.phase = "preparing",
                           !.verdict = "none", !.sequence = p.sequence + 1]
  BY DEF Prepare, Disposed, PageRecord
<1>3. page' \in PageRecord /\ PageGood(page') /\ ~page'.loaded /\ page'.phase = "preparing"
  <2>1. "preparing" \in Phases /\ "none" \in Verdicts /\ NoFile \in MaybeFile
    BY DEF Phases, Verdicts, MaybeFile
  <2>2. p.sequence + 1 \in 0..MaxRequests
    BY <1>1, LocalAssumption
  <2>3. page' \in PageRecord
    BY <1>2, <2>1, <2>2 DEF PageRecord
  <2>4. /\ page'.phase = "preparing" /\ ~page'.loaded
        /\ page'.request = p.sequence + 1 /\ page'.sequence = p.sequence + 1
    BY <1>2 DEF PageRecord
  <2> QED
    BY <1>1, <2>3, <2>4 DEF PageGood
<1>4. parser' \in ParserRecord /\ Len(parser'.outbox) \in 0..1
  <2>1. parser' = [alive |-> TRUE, request |-> p.sequence + 1, file |-> p.file, outbox |-> <<>>]
    BY DEF Prepare, NoParser
  <2>2. p.sequence + 1 \in 0..MaxRequests
    BY <1>1, LocalAssumption
  <2> QED
    BY <2>1, <2>2 DEF ParserRecord, MaybeFile
<1>5. hashing' \subseteq Parsed /\ solver' = NoSolver
  BY DEF LocalInv, Typed, Prepare
<1> QED
  BY <1>3, <1>4, <1>5, NoSolverGood, Assembled DEF ShownModelIsReal

\* The user's buttons.
LEMMA UserGood == LocalInv /\ User => LocalInv'
<1> SUFFICES ASSUME LocalInv, User PROVE LocalInv'
  OBVIOUS
<1>1. /\ page \in PageRecord /\ PageGood(page) /\ parser \in ParserRecord
      /\ Len(parser.outbox) \in 0..1 /\ hashing \subseteq Parsed
      /\ solver \in SolverRecord /\ SolverGood(solver)
      /\ page.loaded => Whole(solver)
  BY DEF LocalInv, Typed
<1>2. page.request \in 0..MaxRequests /\ page.sequence \in 0..MaxRequests /\ MaxRequests \in Nat
  BY <1>1, LocalAssumption DEF PageRecord
<1>3. ASSUME NEW f \in File, Select(f) PROVE LocalInv'
  <2> DEFINE p == [page EXCEPT !.phase = "ready", !.file = f]
  <2>1. p \in PageRecord /\ PageGood(p) /\ p.file \in File
    BY <1>1 DEF PageRecord, PageGood, Phases, MaybeFile
  <2>2. Prepare(p) /\ UNCHANGED hashing
    BY <1>3 DEF Select
  <2> HIDE DEF p
  <2> QED
    BY <2>1, <2>2, PrepareGood
<1>4. ASSUME PrepareAgain PROVE LocalInv'
  <2>1. page.file \in File
    BY <1>1, <1>4 DEF PrepareAgain, PageRecord, MaybeFile
  <2> QED
    BY <1>1, <1>4, <2>1, PrepareGood DEF PrepareAgain
<1>5. ASSUME SolveLocally PROVE LocalInv'
  <2>1. UNCHANGED <<parser, hashing>> /\ page.formula \in File
    BY <1>1, <1>5 DEF SolveLocally, PageRecord, MaybeFile
  <2>2. CASE CanResume(page, solver)
    <3> DEFINE m == [type |-> "solve", request |-> page.request]
    <3>1. page' = [page EXCEPT !.phase = "solving", !.verdict = "none"] /\ solver' = Posted(solver, m)
      BY <1>5, <2>2 DEF SolveLocally, Resume
    <3>2. m \in Message /\ m.type = "solve" /\ ~IsPart(m) /\ page.request # 0
      BY <1>2, <2>2 DEF Message, IsPart, CanResume
    <3>3. Fit(solver) /\ Whole(solver)
      BY <1>1, <2>2, WorkerThere DEF CanResume
    <3> HIDE DEF m
    <3>4. Fit(solver') /\ Whole(solver')
      BY <3>1, <3>2, <3>3, PostedGood
    <3>5. page' \in PageRecord /\ PageGood(page') /\ page'.phase = "solving"
      BY <1>1, <3>1, <3>2 DEF PageRecord, PageGood, Phases, Verdicts
    <3> QED
      BY <1>1, <2>1, <3>4, <3>5, Assembled DEF Fit, ShownModelIsReal
  <2>3. CASE ~CanResume(page, solver)
    <3> DEFINE fresh == page.request = 0
               id == IF fresh THEN page.sequence + 1 ELSE page.request
               last == IF fresh THEN page.sequence + 1 ELSE page.sequence
    <3>1. /\ fresh => page.sequence < MaxRequests
          /\ page' = [page EXCEPT !.phase = "distributing", !.verdict = "none", !.loaded = FALSE,
                                  !.finished = FALSE, !.request = id, !.sequence = last]
          /\ solver' = Loading(page.formula, id)
      BY <1>1, <1>5, <2>3 DEF SolveLocally, Load, PageRecord
    <3>2. id \in 1..MaxRequests /\ id <= last /\ last \in 0..MaxRequests /\ id \in 0..MaxRequests
      BY <1>1, <1>2, <3>1 DEF PageGood
    <3> HIDE DEF id, last
    <3>3. Fit(solver')
      BY <2>1, <3>1, <3>2, LoadingGood
    <3>4. page' \in PageRecord
      BY <1>1, <3>1, <3>2 DEF PageRecord, Phases, Verdicts
    <3>5. PageGood(page') /\ ~page'.loaded /\ page'.phase = "distributing"
      BY <1>1, <3>1, <3>2 DEF PageRecord, PageGood
    <3> QED
      BY <1>1, <2>1, <3>3, <3>4, <3>5, Assembled DEF Fit, ShownModelIsReal
  <2> QED
    BY <2>2, <2>3
<1>6. ASSUME CancelSearch PROVE LocalInv'
  <2> DEFINE m == [type |-> "pause", request |-> page.request]
  <2>1. /\ page' = [page EXCEPT !.phase = "prepared", !.verdict = "none"]
        /\ solver' = Posted(solver, m) /\ UNCHANGED <<parser, hashing>>
    BY <1>6 DEF CancelSearch
  <2>2. page.request # 0 /\ solver.alive
    BY <1>1, <1>6 DEF CancelSearch, PageGood
  <2>3. m \in Message /\ m.type = "pause" /\ ~IsPart(m)
    BY <1>2, <2>2 DEF Message, IsPart
  <2> HIDE DEF m
  <2>4. Fit(solver') /\ (Whole(solver) => Whole(solver'))
    BY <1>1, <2>1, <2>2, <2>3, PostedGood, WorkerThere
  <2>5. /\ page' \in PageRecord /\ PageGood(page') /\ page'.phase = "prepared"
        /\ page'.loaded = page.loaded
    BY <1>1, <2>1 DEF PageRecord, PageGood, Phases, Verdicts
  <2> QED
    BY <1>1, <2>1, <2>4, <2>5, Assembled DEF Fit, ShownModelIsReal
<1>7. ASSUME CancelParse PROVE LocalInv'
  <2>1. /\ page' = [page EXCEPT !.phase = "ready", !.request = 0, !.verdict = "none"]
        /\ parser' = NoParser /\ UNCHANGED <<hashing, solver>>
    BY <1>7 DEF CancelParse
  <2>2. page' \in PageRecord
    <3>1. "ready" \in Phases /\ "none" \in Verdicts /\ 0 \in 0..MaxRequests
      BY <1>2 DEF Phases, Verdicts
    <3> QED
      BY <1>1, <2>1, <3>1 DEF PageRecord
  <2>3. PageGood(page') /\ page'.phase = "ready" /\ page'.loaded = page.loaded
    BY <1>1, <1>2, <2>1 DEF PageRecord, PageGood
  <2> QED
    BY <1>1, <2>1, <2>2, <2>3, NoParserGood, Assembled DEF ShownModelIsReal
<1>8. ASSUME Reset PROVE LocalInv'
  <2>1. /\ page' = [EmptyPage EXCEPT !.sequence = page.sequence]
        /\ parser' = NoParser /\ solver' = NoSolver /\ UNCHANGED hashing
    BY <1>8 DEF Reset, DisposeRuntime
  <2>2. page' \in PageRecord /\ PageGood(page') /\ ~page'.loaded /\ page'.phase = "empty"
    <3>1. page' = [phase |-> "empty", file |-> NoFile, formula |-> NoFile, request |-> 0,
                   sequence |-> page.sequence, loaded |-> FALSE, finished |-> FALSE,
                   verdict |-> "none"]
      BY <2>1 DEF EmptyPage
    <3>2. /\ "empty" \in Phases /\ "none" \in Verdicts /\ 0 \in 0..MaxRequests
          /\ NoFile \in MaybeFile
      BY <1>2 DEF Phases, Verdicts, MaybeFile
    <3>3. page' \in PageRecord
      BY <1>2, <3>1, <3>2 DEF PageRecord
    <3> QED
      BY <1>2, <3>1, <3>3 DEF PageGood
  <2> QED
    BY <1>1, <2>1, <2>2, NoParserGood, NoSolverGood, Assembled DEF ShownModelIsReal
<1> QED
  BY <1>3, <1>4, <1>5, <1>6, <1>7, <1>8 DEF User

\* The formula worker, and its answer on both sides of the await.
LEMMA ParserGood ==
  ASSUME LocalInv, Parse \/ ParserCrashes \/ FormulaMessage \/ \E m \in hashing : Hashed(m)
  PROVE  LocalInv'
<1>1. /\ page \in PageRecord /\ PageGood(page) /\ parser \in ParserRecord
      /\ Len(parser.outbox) \in 0..1 /\ hashing \subseteq Parsed
      /\ solver \in SolverRecord /\ SolverGood(solver)
      /\ page.loaded => Whole(solver)
  BY DEF LocalInv, Typed
<1>2. ASSUME Parse PROVE LocalInv'
  <2> DEFINE m == [type |-> IF parser.file \in Malformed THEN "error" ELSE "completed",
                   request |-> parser.request, file |-> parser.file]
  <2>1. parser' = [parser EXCEPT !.file = NoFile, !.outbox = <<m>>]
        /\ UNCHANGED <<page, hashing, solver>> /\ parser.file # NoFile
    BY <1>2 DEF Parse
  <2>2. m \in Parsed
    BY <1>1, <2>1 DEF ParserRecord, Parsed, MaybeFile
  <2> HIDE DEF m
  <2>3. parser' \in ParserRecord /\ Len(parser'.outbox) \in 0..1
    <3>1. <<m>> \in Seq(Parsed) /\ Len(<<m>>) = 1
      BY <2>2
    <3>2. parser' \in ParserRecord
      BY <1>1, <2>1, <3>1 DEF ParserRecord, MaybeFile
    <3>3. parser'.outbox = <<m>>
      BY <1>1, <2>1 DEF ParserRecord
    <3> QED
      BY <3>1, <3>2, <3>3
  <2> QED
    BY <1>1, <2>1, <2>3, Assembled DEF LocalInv, ShownModelIsReal
<1>3. ASSUME ParserCrashes PROVE LocalInv'
  BY <1>1, <1>3, FailGood DEF ParserCrashes
<1>4. ASSUME FormulaMessage PROVE LocalInv'
  <2> DEFINE m == Head(parser.outbox)
  <2>1. parser.outbox \in Seq(Parsed) /\ parser.outbox # <<>>
    BY <1>1, <1>4 DEF FormulaMessage, ParserRecord
  <2>2. /\ m \in Parsed /\ Tail(parser.outbox) \in Seq(Parsed)
        /\ Len(Tail(parser.outbox)) \in 0..1
    BY <1>1, <2>1, TailOf
  <2>3. CASE m.type = "error" /\ m.request = page.request
    BY <1>1, <1>4, <2>3, FailGood DEF FormulaMessage
  <2>4. CASE ~(m.type = "error" /\ m.request = page.request)
    <3>1. /\ parser' = [parser EXCEPT !.outbox = Tail(parser.outbox)]
          /\ hashing' = hashing \cup {m} \/ hashing' = hashing
          /\ UNCHANGED <<page, solver>>
      BY <1>4, <2>4 DEF FormulaMessage
    <3> HIDE DEF m
    <3>2. parser' \in ParserRecord /\ Len(parser'.outbox) \in 0..1 /\ hashing' \subseteq Parsed
      BY <1>1, <2>2, <3>1 DEF ParserRecord
    <3> QED
      BY <1>1, <3>1, <3>2, Assembled DEF LocalInv, ShownModelIsReal
  <2> QED
    BY <2>3, <2>4
<1>5. ASSUME NEW m \in hashing, Hashed(m) PROVE LocalInv'
  <2>1. /\ page' = [page EXCEPT !.formula = m.file, !.phase = "prepared"]
        /\ hashing' \subseteq Parsed /\ parser' = NoParser /\ UNCHANGED solver /\ m \in Parsed
    BY <1>1, <1>5 DEF Hashed
  <2>2. page' \in PageRecord
    BY <1>1, <2>1 DEF PageRecord, Phases, Parsed, MaybeFile
  <2>3. PageGood(page') /\ page'.phase = "prepared" /\ page'.loaded = page.loaded
    BY <1>1, <2>1 DEF PageRecord, PageGood
  <2> QED
    BY <1>1, <2>1, <2>2, <2>3, NoParserGood, Assembled DEF ShownModelIsReal
<1> QED
  BY <1>2, <1>3, <1>4, <1>5

\* The solver worker by itself: the page does not change.
LEMMA WorkerGood ==
  ASSUME LocalInv, WorkerTakes \/ WorkerLoads \/ WorkerSearches \/ LoadingFails
  PROVE  LocalInv'
<1>1. /\ page \in PageRecord /\ PageGood(page) /\ parser \in ParserRecord
      /\ Len(parser.outbox) \in 0..1 /\ hashing \subseteq Parsed
      /\ solver \in SolverRecord /\ SolverGood(solver)
      /\ page.loaded => Whole(solver)
  BY DEF LocalInv, Typed
<1>2. UNCHANGED <<page, parser, hashing>>
  BY DEF WorkerTakes, WorkerLoads, WorkerSearches, LoadingFails
<1>3. Fit(solver)
  BY <1>1, WorkerThere DEF WorkerTakes, WorkerLoads, WorkerSearches, LoadingFails
<1>4. Fit(solver') /\ (Whole(solver) => Whole(solver'))
  <2>1. ASSUME WorkerTakes PROVE Fit(solver') /\ (Whole(solver) => Whole(solver'))
    BY <1>3, <2>1, TakenGood DEF WorkerTakes
  <2>2. ASSUME WorkerLoads PROVE Fit(solver') /\ (Whole(solver) => Whole(solver'))
    BY <1>3, <2>2, ChainedGood DEF WorkerLoads
  <2>3. ASSUME LoadingFails PROVE Fit(solver') /\ (Whole(solver) => Whole(solver'))
    BY <1>3, <2>3, LoadingFailsGood DEF LoadingFails
  <2>4. ASSUME WorkerSearches PROVE Fit(solver') /\ (Whole(solver) => Whole(solver'))
    <3>1. Whole(solver)
      BY <1>1, <2>4 DEF WorkerSearches, SolverGood, Armed
    <3>2. CASE solver.paused
      <4>1. solver' = [solver EXCEPT !.paused = solver.paused, !.solving = FALSE]
        BY <1>1, <2>4, <3>2 DEF WorkerSearches, SolverRecord
      <4> QED
        BY <1>1, <1>3, <4>1, TurnedGood DEF SolverRecord
    <3>3. CASE ~solver.paused
      BY <1>3, <2>4, <3>1, <3>3, BatchGood DEF WorkerSearches
    <3> QED
      BY <3>2, <3>3
  <2> QED
    BY <2>1, <2>2, <2>3, <2>4
<1> QED
  BY <1>1, <1>2, <1>4, Assembled DEF Fit, LocalInv, ShownModelIsReal

\* Nothing happens.
LEMMA StutterGood ==
  ASSUME LocalInv, UNCHANGED vars
  PROVE  LocalInv'
<1>1. page' = page /\ parser' = parser /\ hashing' = hashing /\ solver' = solver
  BY DEF vars
<1> QED
  BY <1>1, Assembled DEF LocalInv, Typed, ShownModelIsReal

\* onSolverMessage: what is heard is acted on by a page that still waits for it.
LEMMA MessageGood ==
  ASSUME LocalInv, SolverMessage \/ SolverCrashes
  PROVE  LocalInv'
<1>1. /\ page \in PageRecord /\ PageGood(page) /\ parser \in ParserRecord
      /\ Len(parser.outbox) \in 0..1 /\ hashing \subseteq Parsed
      /\ solver \in SolverRecord /\ SolverGood(solver)
      /\ page.loaded => Whole(solver)
  BY DEF LocalInv, Typed
<1>2. ASSUME SolverCrashes PROVE LocalInv'
  BY <1>1, <1>2, FailGood DEF SolverCrashes
<1>3. ASSUME SolverMessage PROVE LocalInv'
  <2> DEFINE m == Head(solver.outbox)
             w == [solver EXCEPT !.outbox = Tail(@)]
  <2>1. solver.outbox # <<>> /\ UNCHANGED hashing /\ solver.outbox \in Seq(Report)
    BY <1>1, <1>3 DEF SolverMessage, SolverRecord
  <2>2. m \in Report /\ m = solver.outbox[1] /\ 1 \in 1..Len(solver.outbox)
    BY <2>1, TailOf
  <2>3. Fit(solver)
    BY <1>1, <2>1, WorkerThere
  <2>4. Fit(w) /\ (Whole(solver) => Whole(w)) /\ w.file = solver.file
    BY <2>1, <2>3, HeardGood DEF Fit, SolverRecord
  <2>5. /\ m.type = "ready" => Whole(solver) /\ m.request # 0
        /\ m.type = "result" => m.verdict # "none"
        /\ m.type = "result" /\ m.verdict = "SAT" => w.file \in Sat
    BY <1>1, <2>2, <2>4 DEF SolverGood, Armed, Honest
  <2>6. \/ m.request # page.request /\ solver' = w /\ UNCHANGED <<page, parser>>
        \/ m.request = page.request /\ m.type = "ready" /\ Ready(page, w) /\ UNCHANGED parser
        \/ Fail(page)
        \/ m.type = "result" /\ Verdict(page, w, m.verdict)
    BY <1>3 DEF SolverMessage
  <2> HIDE DEF m, w
  <2>7. CASE Fail(page)
    BY <1>1, <2>1, <2>7, FailGood
  <2>8. CASE solver' = w /\ UNCHANGED <<page, parser>>
    BY <1>1, <2>1, <2>4, <2>8, Assembled DEF Fit, LocalInv, ShownModelIsReal
  <2>9. CASE m.request = page.request /\ m.type = "ready" /\ Ready(page, w) /\ UNCHANGED parser
    <3> DEFINE o == [type |-> "solve", request |-> page.request]
    <3>1. Whole(w) /\ page.request # 0 /\ page.request \in 0..MaxRequests
      BY <1>1, <2>4, <2>5, <2>9 DEF PageRecord
    <3>2. o \in Message /\ o.type = "solve" /\ ~IsPart(o)
      BY <3>1, LocalAssumption DEF Message, IsPart
    <3>3. page' = [page EXCEPT !.loaded = TRUE, !.phase = "solving"] /\ solver' = Posted(w, o)
      BY <2>9 DEF Ready
    <3> HIDE DEF o
    <3>4. Fit(solver') /\ Whole(solver')
      BY <2>4, <3>1, <3>2, <3>3, PostedGood
    <3>5. page' \in PageRecord /\ PageGood(page') /\ page'.phase = "solving"
      BY <1>1, <3>1, <3>3 DEF PageRecord, PageGood, Phases
    <3> QED
      BY <1>1, <2>1, <2>9, <3>4, <3>5, Assembled DEF Fit, ShownModelIsReal
  <2>10. CASE m.type = "result" /\ Verdict(page, w, m.verdict) /\ ~Fail(page)
    <3> DEFINE shown == [page EXCEPT !.finished = TRUE, !.phase = "result", !.verdict = m.verdict]
    <3>1. /\ page.formula # NoFile /\ page' = shown /\ solver' = w /\ UNCHANGED parser
          /\ m.verdict = "UNSAT" \/ TRUE \in ModelFits(w, page.formula)
      BY <2>10 DEF Verdict
    <3>2. m.verdict \in Verdicts /\ m.verdict # "none"
      BY <2>2, <2>5, <2>10 DEF Report
    <3>3. /\ page' \in PageRecord /\ PageGood(page') /\ page'.phase = "result"
          /\ page'.verdict = m.verdict /\ page'.formula = page.formula
          /\ page'.loaded = page.loaded
      BY <1>1, <3>1, <3>2 DEF PageRecord, PageGood, Phases
    <3>4. m.verdict = "SAT" => page.formula \in Sat
      BY <2>5, <2>10, <3>1 DEF ModelFits
    <3>5. ShownModelIsReal'
      BY <3>3, <3>4 DEF ShownModelIsReal
    <3> QED
      BY <1>1, <2>1, <2>4, <3>1, <3>3, <3>5, Assembled DEF Fit
  <2> QED
    BY <2>6, <2>7, <2>8, <2>9, <2>10
<1> QED
  BY <1>2, <1>3

\* Every step.
LEMMA StepGood == LocalInv /\ [Next]_vars => LocalInv'
BY UserGood, ParserGood, WorkerGood, MessageGood, StutterGood DEF Next, Work
-----------------------------------------------------------------------------
(* The results.                                                            *)

\* Every state of the client and its workers satisfies the invariant.
LEMMA LocalInductive == Spec => []LocalInv
BY InitGood, StepGood, PTL DEF Spec

\* The fields of the client and of its workers keep their types: no handler
\* stores anything but a phase, a file, a request number or a verdict where one
\* belongs (solver.ts, formula.worker.ts, solver.worker.ts).
THEOREM LocalTypeCorrect == Spec => []LocalTypeOK
<1>1. LocalInv => LocalTypeOK
  <2> SUFFICES ASSUME LocalInv PROVE LocalTypeOK
    OBVIOUS
  <2>1. /\ page \in PageRecord /\ PageGood(page) /\ parser \in ParserRecord
        /\ Len(parser.outbox) \in 0..1 /\ solver \in SolverRecord
    BY DEF LocalInv, Typed
  <2>2. page.request \in 0..page.sequence
    BY <2>1, LocalAssumption DEF PageRecord, PageGood
  <2> QED
    BY <2>1, <2>2 DEF LocalTypeOK, PageRecord, PageGood, ParserRecord, SolverRecord
<1> QED
  BY <1>1, LocalInductive, PTL

\* The solver never searches a formula it has been given a part of, although
\* solve and pause overtake the clause batches in the worker (solver.worker.ts:164)
\* and the client resumes searches it has cancelled: for every number of batches,
\* files and requests, and wherever loading fails.
THEOREM WholeFormulaSolved == Spec => []SolvesWholeFormula
<1>1. LocalInv => SolvesWholeFormula
  BY DEF LocalInv, SolverGood, Armed, Whole, SolvesWholeFormula
<1> QED
  BY <1>1, LocalInductive, PTL

\* A SAT verdict is shown for a satisfiable formula only, even where a formula that
\* was hashed late has replaced the one that was solved (solver.ts:320, 374).
THEOREM ModelShownIsReal == Spec => []ShownModelIsReal
<1>1. LocalInv => ShownModelIsReal
  BY DEF LocalInv
<1> QED
  BY <1>1, LocalInductive, PTL

=============================================================================
