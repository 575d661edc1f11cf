----------------------------- MODULE CubeWorker -----------------------------
(***************************************************************************)
(* The dedicated worker that searches one cube at a time:                  *)
(* src/workers/cube.worker.ts with the search loop of                      *)
(* src/lib/distributed/cubeSearchLoop.ts.                                  *)
(*                                                                         *)
(* A worker has an event queue (`inbox`) and, behind it, the promise chain *)
(* `operation`: initialisations and runs queue up there and are executed   *)
(* one after the other, while "stop" and "grant-split" are handled as soon *)
(* as their event is delivered, which is whenever the search loop yields.  *)
(*                                                                         *)
(* A thread is a record:                                                   *)
(*   inbox    events posted by the page and not delivered yet              *)
(*   chain    operations delivered and waiting for the running one         *)
(*   mode     "none" before the first initialisation, then what the solver *)
(*            was created for                                              *)
(*   run      the work being searched (activeTaskId, activeLeaseId)        *)
(*   stopped  the flag `stopped`                                           *)
(*   permit   splitPermitId # null                                         *)
(*   out      events posted to the page and not delivered yet              *)
(*                                                                         *)
(* A proof worker is initialised anew before every proof task, so that     *)
(* `proofTaskId` never differs from the task of a run and is left out.     *)
(* Progress reports carry telemetry only and are left out too.             *)
(***************************************************************************)
EXTENDS Naturals, Sequences, SequencesExt

CONSTANT MaxLeases      \* bound: leases ever issued for a slot
ASSUME MaxLeasesType == MaxLeases \in Nat \ {0}

Modes == {"SEARCH", "PROOF_FINISHER"}
Verdicts == {"SAT", "UNSAT"}

\* A task under a lease: the number of the lease among those of its slot, and
\* the purpose of the task. The lease identifies the task.
Work == [lease : 1..MaxLeases, purpose : Modes]
NoWork == [lease |-> 0, purpose |-> "none"]

Command == [type : {"initialize"}, mode : Modes]
             \cup [type : {"run", "grant-split"}, work : Work]
             \cup [type : {"stop"}]
Report == [type : {"ready", "error"}]
            \cup [type : {"split", "yield"}, work : Work]
            \cup [type : {"result"}, work : Work, verdict : Verdicts]

NewThread == [inbox |-> <<>>, chain |-> <<>>, mode |-> "none", run |-> NoWork,
              stopped |-> FALSE, permit |-> FALSE, out |-> <<>>]

Thread == [inbox : Seq(Command), chain : Seq(Command), mode : Modes \cup {"none"},
           run : Work \cup {NoWork}, stopped : BOOLEAN, permit : BOOLEAN,
           out : Seq(Report)]

Reported(t, r) == [t EXCEPT !.out = Append(@, r)]

\* runCube's finally: nothing is active, and no permit is kept.
Ended(t, r) == Reported([t EXCEPT !.run = NoWork, !.permit = FALSE], r)
-----------------------------------------------------------------------------
(***************************************************************************)
(* The event listener.                                                     *)
(***************************************************************************)

Stopped(t) == [t EXCEPT !.stopped = @ \/ t.mode # "none"]

Granted(t, w) ==
  [t EXCEPT !.permit = @ \/ (t.mode = "SEARCH" /\ t.run = w)]

Queued(t, c) == [t EXCEPT !.chain = Append(@, c)]

\* The next event is delivered.
Delivered(t) ==
  LET c == Head(t.inbox)
      u == [t EXCEPT !.inbox = Tail(@)]
  IN  CASE c.type = "stop" -> Stopped(u)
        [] c.type = "grant-split" -> Granted(u, c.work)
        [] OTHER -> Queued(u, c)
-----------------------------------------------------------------------------
(***************************************************************************)
(* The promise chain.                                                      *)
(***************************************************************************)

\* Events reach the listener while a run searches, while an initialisation, the
\* first of the chain, creates its solver, or when there is nothing to do.
Attentive(t) == (t.run = NoWork /\ t.chain # <<>>) => Head(t.chain).type = "initialize"

\* A new solver with all clauses loaded: initialize and the clause batches,
\* which the page posts in one piece.
Initialized(t, mode) ==
  Reported([t EXCEPT !.mode = mode, !.stopped = FALSE, !.permit = FALSE],
           [type |-> "ready"])

\* runCube up to the first slice. A stop that came while the run was queued is
\* forgotten here.
Started(t, w) ==
  LET u == [t EXCEPT !.stopped = FALSE, !.permit = FALSE]
  IN  IF t.mode = w.purpose
      THEN [u EXCEPT !.run = w]
      ELSE Reported(u, [type |-> "yield", work |-> w])

\* The running operation has ended and the next one begins.
Begun(t) ==
  LET c == Head(t.chain)
      u == [t EXCEPT !.chain = Tail(@)]
  IN  IF c.type = "initialize" THEN Initialized(u, c.mode) ELSE Started(u, c.work)
-----------------------------------------------------------------------------
(***************************************************************************)
(* A slice of runCubeSearchLoop and what follows its outcome.              *)
(***************************************************************************)

\* The loop sees the flag before it calls the solver.
Interrupted(t) == Ended(t, [type |-> "yield", work |-> t.run])

\* The solver decides the cube.
Decided(t) ==
  {Ended(t, [type |-> "result", work |-> t.run, verdict |-> v]) : v \in Verdicts}

\* A permit is used up by one lookahead, whether it finds a literal or not.
SplitOutcomes(t) ==
  IF t.permit
  THEN {Ended(t, [type |-> "split", work |-> t.run]), [t EXCEPT !.permit = FALSE]}
  ELSE {}

\* A proof that cannot be produced or is too large is given up; an exception of
\* a search reaches the page as an error.
GivenUp(t) ==
  IF t.run.purpose = "PROOF_FINISHER"
  THEN {Ended(t, [type |-> "yield", work |-> t.run])}
  ELSE {Ended(t, [type |-> "error"])}

\* Everything a slice may lead to when it was not interrupted.
Slices(t) == Decided(t) \cup SplitOutcomes(t) \cup GivenUp(t)
=============================================================================
