---------------------------- MODULE LocalSolver ----------------------------
(***************************************************************************)
(* The local solver of the home page: BrowserSolverClient (src/lib/        *)
(* solver.ts) with the workers it starts (src/workers/formula.worker.ts    *)
(* and solver.worker.ts) and the buttons of HomePage.tsx that call it.     *)
(*                                                                         *)
(* A file stands for itself, its formula, its hash and its metadata; a     *)
(* file is parsed into as many clause batches as Batches says. Workers and *)
(* page exchange messages in order; terminating a worker drops all that    *)
(* was on its way in either direction. What only shows progress is left    *)
(* out, and so are the paused and cancelled messages, which do nothing.    *)
(***************************************************************************)
EXTENDS Naturals, Sequences

CONSTANTS
  File,
  NoFile,
  Sat,            \* the files whose formula is satisfiable
  Malformed,      \* the files the parser refuses
  Batches,        \* clause batches per file
  MaxRequests,    \* bound on requestSequence
  MaxQueued,      \* bound on the messages from and to a solver worker
  SolverTraps     \* whether CaDiCaL may fail while it searches

ASSUME LocalAssumption ==
  /\ NoFile \notin File
  /\ Sat \subseteq File /\ Malformed \subseteq File
  /\ Batches \in [File -> Nat]
  /\ MaxRequests \in Nat /\ MaxQueued \in Nat /\ SolverTraps \in BOOLEAN

VARIABLES
  page,       \* the client and its snapshot
  parser,     \* formulaWorker
  hashing,    \* onFormulaMessage at its await: completed messages being hashed
  solver      \* solverWorker

vars == <<page, parser, hashing, solver>>

MaybeFile == File \cup {NoFile}
Phases == {"empty", "ready", "preparing", "prepared", "distributing", "solving", "result", "error"}
Verdicts == {"SAT", "UNSAT", "none"}

EmptyPage ==
  [phase |-> "empty", file |-> NoFile, formula |-> NoFile, request |-> 0, sequence |-> 0,
   loaded |-> FALSE, finished |-> FALSE, verdict |-> "none"]

NoParser == [alive |-> FALSE, request |-> 0, file |-> NoFile, outbox |-> <<>>]

NoSolver ==
  [alive |-> FALSE, file |-> NoFile, inbox |-> <<>>, chain |-> <<>>, outbox |-> <<>>,
   request |-> 0, added |-> 0, paused |-> TRUE, solving |-> FALSE]

Init == page = EmptyPage /\ parser = NoParser /\ hashing = {} /\ solver = NoSolver
-----------------------------------------------------------------------------
(* The client.                                                             *)

\* disposeRuntime: both workers are gone, the formula with them.
Disposed(p) == [p EXCEPT !.formula = NoFile, !.loaded = FALSE, !.finished = FALSE, !.request = 0]
DisposeRuntime == parser' = NoParser /\ solver' = NoSolver

\* fail keeps the formula.
Fail(p) ==
  /\ page' = [p EXCEPT !.phase = "error", !.verdict = "none",
                       !.loaded = FALSE, !.finished = FALSE, !.request = 0]
  /\ DisposeRuntime

Prepare(p) ==
  /\ p.sequence < MaxRequests
  /\ page' = [Disposed(p) EXCEPT !.phase = "preparing", !.verdict = "none",
                                 !.request = p.sequence + 1, !.sequence = @ + 1]
  /\ parser' = [NoParser EXCEPT !.alive = TRUE, !.request = p.sequence + 1, !.file = p.file]
  /\ solver' = NoSolver

\* selectFile: select, then prepare.
Select(f) ==
  /\ page.phase \in {"empty", "ready"}
  /\ Prepare([page EXCEPT !.phase = "ready", !.file = f])
  /\ UNCHANGED hashing

PrepareAgain ==
  /\ page.file # NoFile
  /\ page.phase = "ready" \/ (page.phase = "error" /\ page.formula = NoFile)
  /\ Prepare(page)
  /\ UNCHANGED hashing

Posted(w, message) == [w EXCEPT !.inbox = Append(@, message)]

\* A new solver worker with its first messages.
Loading(f, id) ==
  [NoSolver EXCEPT !.alive = TRUE, !.file = f,
     !.inbox = <<[type |-> "initialize", request |-> id]>>
               \o [i \in 1..Batches[f] |-> [type |-> "clause-batch", request |-> id]]]

Resume ==
  /\ page' = [page EXCEPT !.phase = "solving", !.verdict = "none"]
  /\ solver' = Posted(solver, [type |-> "solve", request |-> page.request])

Load ==
  LET fresh == page.request = 0
      id == IF fresh THEN page.sequence + 1 ELSE page.request
  IN  /\ fresh => page.sequence < MaxRequests
      /\ page' = [page EXCEPT !.phase = "distributing", !.verdict = "none", !.loaded = FALSE,
                              !.finished = FALSE, !.request = id,
                              !.sequence = IF fresh THEN @ + 1 ELSE @]
      /\ solver' = Loading(page.formula, id)

\* Slip: whether the solver has been loaded is not asked.
SolvesAnyhow(p, w) == w.alive /\ ~p.finished /\ p.request # 0

CanResume(p, w) == w.alive /\ p.loaded /\ ~p.finished /\ p.request # 0

\* solveLocally; every button that calls it is there only if a formula is.
SolveLocally ==
  /\ page.file # NoFile /\ page.formula # NoFile
  /\ page.phase \in {"prepared", "result", "error"}
  /\ IF CanResume(page, solver) THEN Resume ELSE Load
  /\ UNCHANGED <<parser, hashing>>

OnTheWay(w) == Len(w.inbox) + Len(w.chain) + Len(w.outbox)

CancelSearch ==
  /\ page.phase \in {"distributing", "solving"} /\ solver.alive
  /\ OnTheWay(solver) < MaxQueued
  /\ page' = [page EXCEPT !.phase = "prepared", !.verdict = "none"]
  /\ solver' = Posted(solver, [type |-> "pause", request |-> page.request])
  /\ UNCHANGED <<parser, hashing>>

\* The parser is there until its formula has been hashed.
CancelParse ==
  /\ page.phase = "preparing" /\ parser.alive
  /\ page' = [page EXCEPT !.phase = "ready", !.request = 0, !.verdict = "none"]
  /\ parser' = NoParser
  /\ UNCHANGED <<hashing, solver>>

Reset ==
  /\ page.file # NoFile
  /\ page.phase \in {"ready", "prepared", "result", "error"}
  /\ page' = [EmptyPage EXCEPT !.sequence = page.sequence]
  /\ DisposeRuntime
  /\ UNCHANGED hashing
-----------------------------------------------------------------------------
(* The formula worker and its answer.                                      *)

\* parseFormula, from the cache or not, ends in an answer.
Parse ==
  /\ parser.alive /\ parser.file # NoFile
  /\ parser' = [parser EXCEPT !.file = NoFile, !.outbox =
                  <<[type |-> IF parser.file \in Malformed THEN "error" ELSE "completed",
                     request |-> parser.request, file |-> parser.file]>>]
  /\ UNCHANGED <<page, hashing, solver>>

ParserCrashes ==
  /\ parser.alive
  /\ Fail(page)
  /\ UNCHANGED hashing

\* onFormulaMessage up to its await.
FormulaMessage ==
  /\ parser.outbox # <<>>
  /\ LET m == Head(parser.outbox) IN
     IF m.type = "error" /\ m.request = page.request
     THEN Fail(page) /\ UNCHANGED hashing
     ELSE /\ parser' = [parser EXCEPT !.outbox = Tail(@)]
          /\ hashing' = IF m.type = "completed" /\ m.request = page.request
                        THEN hashing \cup {m} ELSE hashing
          /\ UNCHANGED <<page, solver>>

\* ... and after it, whatever the page has done since.
Hashed(m) ==
  /\ m \in hashing
  /\ hashing' = hashing \ {m}
  /\ page' = [page EXCEPT !.formula = m.file, !.phase = "prepared"]
  /\ parser' = NoParser
  /\ UNCHANGED solver
-----------------------------------------------------------------------------
(* The solver worker.                                                      *)

Says(w, type, verdict) ==
  [w EXCEPT !.outbox = Append(@, [type |-> type, request |-> w.request, verdict |-> verdict])]

\* What a batch of slices may come to: no verdict, a verdict, or a failure of
\* CaDiCaL, which no handler sees (`void solveInSlices`).
Batch(w) ==
  {[w EXCEPT !.solving = TRUE],
   [Says(w, "result", IF w.file \in Sat THEN "SAT" ELSE "UNSAT")
      EXCEPT !.paused = TRUE, !.solving = FALSE]}
  \cup (IF SolverTraps THEN {[w EXCEPT !.solving = FALSE]} ELSE {})

\* A message event: solve and pause are handled at once, others in their order.
Taken(w) ==
  LET m == Head(w.inbox)
      v == [w EXCEPT !.inbox = Tail(@)]
  IN  IF m.type \notin {"solve", "pause"} THEN {[v EXCEPT !.chain = Append(@, m)]}
      ELSE IF m.request # w.request THEN {v}
      ELSE IF m.type = "pause" THEN {[v EXCEPT !.paused = TRUE]}
      ELSE IF w.solving THEN {[v EXCEPT !.paused = FALSE]}
      ELSE Batch([v EXCEPT !.paused = FALSE])

WorkerTakes ==
  /\ solver.inbox # <<>>
  /\ solver' \in Taken(solver)
  /\ UNCHANGED <<page, parser, hashing>>

\* initialize or addClauses is done: with the last batch the solver is ready.
Chained(w) ==
  LET m == Head(w.chain)
      v == [w EXCEPT !.chain = Tail(@)]
      u == IF m.type = "initialize" THEN [v EXCEPT !.request = m.request, !.added = 0]
           ELSE IF m.request = w.request THEN [v EXCEPT !.added = @ + 1] ELSE v
  IN  IF u.request = m.request /\ u.added = Batches[w.file] THEN Says(u, "ready", "none") ELSE u

WorkerLoads ==
  /\ solver.chain # <<>>
  /\ solver' = Chained(solver)
  /\ UNCHANGED <<page, parser, hashing>>

\* The module cannot be loaded, or memory is short: the error says which request.
LoadingFails ==
  /\ solver.chain # <<>>
  /\ Head(solver.chain).type = "clause-batch" => Head(solver.chain).request = solver.request
  /\ solver' = [solver EXCEPT !.chain = Tail(@), !.outbox =
                  Append(@, [type |-> "error", request |-> Head(solver.chain).request,
                             verdict |-> "none"])]
  /\ UNCHANGED <<page, parser, hashing>>

\* The loop goes on after a timeout, or ends if it has been paused.
WorkerSearches ==
  /\ solver.solving
  /\ solver' \in IF solver.paused THEN {[solver EXCEPT !.solving = FALSE]} ELSE Batch(solver)
  /\ UNCHANGED <<page, parser, hashing>>

SolverCrashes ==
  /\ solver.alive
  /\ Fail(page)
  /\ UNCHANGED hashing
-----------------------------------------------------------------------------
(* onSolverMessage.                                                        *)

\* Slip: the search is not started.
ReadyOnly(p, w) ==
  /\ page' = [p EXCEPT !.loaded = TRUE, !.phase = "solving"]
  /\ solver' = w

Ready(p, w) ==
  /\ page' = [p EXCEPT !.loaded = TRUE, !.phase = "solving"]
  /\ solver' = Posted(w, [type |-> "solve", request |-> p.request])

\* Slip: a model is believed.
BelieveModel(w, f) == {TRUE}

\* verifySatModel: a model of one formula may be a model of another that has one.
ModelFits(w, f) == IF w.file = f THEN {TRUE} ELSE IF f \in Sat THEN BOOLEAN ELSE {FALSE}

Verdict(p, w, verdict) ==
  LET shown == [p EXCEPT !.finished = TRUE, !.phase = "result", !.verdict = verdict] IN
  IF p.formula = NoFile THEN Fail(p)
  ELSE \/ /\ verdict = "UNSAT" \/ TRUE \in ModelFits(w, p.formula)
          /\ page' = shown /\ solver' = w /\ UNCHANGED parser
       \/ /\ verdict = "SAT" /\ FALSE \in ModelFits(w, p.formula)
          /\ Fail(p)

SolverMessage ==
  /\ solver.outbox # <<>>
  /\ LET m == Head(solver.outbox)
         w == [solver EXCEPT !.outbox = Tail(@)]
     IN  IF m.request # page.request THEN solver' = w /\ UNCHANGED <<page, parser>>
         ELSE \/ m.type = "ready" /\ Ready(page, w) /\ UNCHANGED parser
              \/ m.type = "error" /\ Fail(page)
              \/ m.type = "result" /\ Verdict(page, w, m.verdict)
  /\ UNCHANGED hashing
-----------------------------------------------------------------------------
User == (\E f \in File : Select(f)) \/ PrepareAgain \/ SolveLocally \/ CancelSearch
        \/ CancelParse \/ Reset

Work == Parse \/ FormulaMessage \/ (\E m \in hashing : Hashed(m))
        \/ WorkerTakes \/ WorkerLoads \/ WorkerSearches \/ SolverMessage

Next == User \/ Work \/ ParserCrashes \/ SolverCrashes \/ LoadingFails

Spec == Init /\ [][Next]_vars

\* Workers run, messages arrive and a hash is computed; a search that is not
\* stopped ends, since every formula is decided sooner or later.
Decides == solver.solving /\ WorkerSearches /\ ~solver'.solving
Fairness ==
  /\ WF_vars(Parse) /\ WF_vars(FormulaMessage)
  /\ \A r \in 1..MaxRequests, f \in File :
       WF_vars(Hashed([type |-> "completed", request |-> r, file |-> f]))
  /\ WF_vars(WorkerTakes) /\ WF_vars(WorkerLoads) /\ WF_vars(Decides) /\ WF_vars(SolverMessage)
FairSpec == Spec /\ Fairness
-----------------------------------------------------------------------------
(* Properties.                                                             *)

\* Types of the client's fields and of the two workers (solver.ts, solver.worker.ts).
Message == [type : {"initialize", "clause-batch", "solve", "pause"}, request : 1..MaxRequests]
LocalTypeOK ==
  /\ page.phase \in Phases /\ page.file \in MaybeFile /\ page.formula \in MaybeFile
  /\ page.request \in 0..page.sequence /\ page.sequence \in 0..MaxRequests
  /\ page.loaded \in BOOLEAN /\ page.finished \in BOOLEAN /\ page.verdict \in Verdicts
  /\ page.phase = "result" => page.verdict # "none"
  /\ parser.alive \in BOOLEAN /\ parser.file \in MaybeFile /\ Len(parser.outbox) \in 0..1
  /\ solver.file \in MaybeFile /\ solver.inbox \in Seq(Message) /\ solver.chain \in Seq(Message)
  /\ solver.request \in 0..MaxRequests /\ solver.added \in Nat

\* The solver never searches a formula it has been given a part of: solve and pause
\* overtake the clause batches in the worker (solver.worker.ts:164), so that the
\* client must not resume a search it has cancelled while the solver was loading.
SolvesWholeFormula == solver.solving => solver.added = Batches[solver.file]

\* A SAT verdict is shown for a satisfiable formula only, even where a formula that
\* was hashed late has replaced the one being solved (solver.ts:320, 374).
ShownModelIsReal == page.phase = "result" /\ page.verdict = "SAT" => page.formula \in Sat

\* Loading, parsing and solving end: in a result, an error or by the user
\* (no await, lost request or terminated worker leaves the page busy for ever).
BusyEnds ==
  \A phase \in {"preparing", "distributing", "solving"} : page.phase = phase ~> page.phase # phase

\* What is prepared or shown belongs to the file the page names.  The code
\* breaks this (README, stale_formula): no run checks it.
PreparedIsOfFile == page.phase \in {"prepared", "result"} => page.formula = page.file
=============================================================================
