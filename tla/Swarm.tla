------------------------------- MODULE Swarm -------------------------------
(***************************************************************************)
(* The swarm: browsers that run PublicSwarmRuntime                         *)
(* (src/lib/publicSwarmRuntime.ts) over SwarmDirectorySocket               *)
(* (src/lib/swarmDirectorySocket.ts), with the SwarmDirectory they ask for *)
(* assignments.                                                            *)
(*                                                                         *)
(* A browser is one session. It asks the directory over a connection that  *)
(* carries one HELLO and one answer, works an assignment off with a cube   *)
(* runtime, measures the time its workers were busy and reports it with    *)
(* the next HELLO. Of the cube runtime this module keeps whether it has    *)
(* joined the job's coordinator, how many of its workers are busy and      *)
(* whether it has ended; CubeRuntime has the rest.                         *)
(***************************************************************************)
EXTENDS SwarmDirectory

CONSTANTS
    Capacity,      \* the most workers a browser keeps busy, whatever it was granted
    MaxLate        \* how late a timer of the browser may fire

ASSUME BrowserAssumption == Capacity \in Nat /\ MaxLate \in Nat

VARIABLES
    browser,       \* the runtime of each session
    worked         \* history: worker time really spent on each assignment

swarmVars == <<db, alarm, now, browser, worked>>

RunPhase == {"idle", "directory", "reconnecting", "computing", "no-work", "paused", "error"}

\* What the directory answers.
Answer == [kind: {"none", "no-work", "invalid", "assignment"},
           assignment: 0..MaxAssignments, job: Job \cup {NoJob}, workers: 0..MaxWorkers]
Silence == [kind |-> "none", assignment |-> 0, job |-> NoJob, workers |-> 0]
Refusal(kind) == [Silence EXCEPT !.kind = kind]

\* asking    the directory's socket: HELLO under way, answer under way, none
\* answer    the answer under way, or the assignment worked on
\* current   currentAssignmentId, 0 for null; cube: the cube runtime
\* active    lastActiveWorkers; since: lastIntegratedAt; spent: assignmentWorkerMs
\* deadline  when the assignment's timer is due
\* previous  previousAssignment
Browser == [phase: RunPhase, asking: {"no", "sent", "answered"}, answer: Answer,
            current: 0..MaxAssignments, cube: {"none", "loading", "joined"},
            active: 0..Capacity, since: Nat \cup {Never}, spent: Nat, deadline: Nat,
            previous: [assignment: 0..MaxAssignments, actual: Nat]]
NewBrowser == [phase |-> "idle", asking |-> "no", answer |-> Silence, current |-> 0,
               cube |-> "none", active |-> 0, since |-> Never, spent |-> 0,
               deadline |-> 0, previous |-> NoReport]

SwarmInit ==
    /\ Init
    /\ browser = [s \in Session |-> NewBrowser]
    /\ worked = [a \in AssignmentId |-> 0]
-----------------------------------------------------------------------------
(* The runtime, one handler at a time.                                     *)

\* integrateWorkerTime()
Integrated(b) ==
    IF b.since = Never THEN b
    ELSE [b EXCEPT !.spent = @ + (now - b.since) * b.active, !.since = now]

\* finishCube()
\* Slip: the cube runtime is left running.
LeaveCube(b) == [b EXCEPT !.active = 0, !.since = Never]
FinishCube(b) == [b EXCEPT !.cube = "none", !.active = 0, !.since = Never]

\* connectDirectory(): a socket is opened, HELLO is sent on it.
ConnectDirectory(b) ==
    [FinishCube(b) EXCEPT !.phase = "directory", !.asking = "sent", !.answer = Silence]

ReportOf(b) == [assignment |-> b.current, actual |-> b.spent]

\* Slip: the time since the last change of the workers is forgotten.
PausedUnmeasured(b) ==
    [FinishCube([b EXCEPT !.previous = IF b.current # 0 THEN ReportOf(b) ELSE @, !.current = 0])
       EXCEPT !.phase = "paused", !.asking = "no", !.answer = Silence]
Paused(b) ==
    LET c == Integrated(b)
        d == [c EXCEPT !.previous = IF c.current # 0 THEN ReportOf(c) ELSE @, !.current = 0]
    IN  [FinishCube(d) EXCEPT !.phase = "paused", !.asking = "no", !.answer = Silence]

\* beginAssignment()
\* Slip: the time spent goes on from the last assignment.
BeginOnTop(b) ==
    [b EXCEPT !.phase = "computing", !.current = b.answer.assignment,
              !.since = now, !.active = 0, !.cube = "loading", !.deadline = now + Quantum]
BeginAssignment(b) ==
    [b EXCEPT !.phase = "computing", !.spent = 0, !.current = b.answer.assignment,
              !.since = now, !.active = 0, !.cube = "loading", !.deadline = now + Quantum]

\* completeAssignment(): straight to the directory, or after a pause if the cube
\* runtime failed.
CompleteAssignment(b, failed) ==
    LET c == Integrated(b)
        d == FinishCube([c EXCEPT !.previous = ReportOf(c), !.current = 0, !.answer = Silence])
    IN  IF failed THEN [d EXCEPT !.phase = "reconnecting"] ELSE ConnectDirectory(d)

Becomes(s, b) ==
    /\ browser' = [browser EXCEPT ![s] = b]
    /\ UNCHANGED <<db, alarm, now, worked>>
-----------------------------------------------------------------------------
(* The user.                                                               *)

StartRuntime(s) ==
    /\ browser[s].phase \in {"idle", "paused", "error", "no-work"}
    /\ Becomes(s, ConnectDirectory(browser[s]))

PauseRuntime(s) ==
    /\ browser[s].phase \notin {"idle", "paused"}
    /\ Becomes(s, Paused(browser[s]))

\* What was worked since the last report is never reported.
StopRuntime(s) ==
    /\ browser[s].phase # "idle"
    /\ Becomes(s, [Paused(browser[s]) EXCEPT !.phase = "idle", !.previous = NoReport, !.spent = 0])

\* reconfigureWorkers(): pause and start in one go.
Reconfigure(s) ==
    /\ browser[s].phase \in {"directory", "reconnecting", "computing", "no-work"}
    /\ Becomes(s, ConnectDirectory(Paused(browser[s])))
-----------------------------------------------------------------------------
(* The directory's socket.                                                 *)

Answered(s, answer) ==
    browser' = [browser EXCEPT ![s] = [@ EXCEPT !.asking = "answered", !.answer = answer]]

\* The directory handles the HELLO: one of the outcomes of assign().
DirectoryHandles(s) ==
    /\ browser[s].asking = "sent"
    /\ UNCHANGED worked
    /\ LET report == browser[s].previous
       IN  \/ AssignInvalid(s, report) /\ Answered(s, Refusal("invalid"))
           \/ AssignNothing(s, report) /\ Answered(s, Refusal("no-work"))
           \/ \E offer \in 1..MaxOffer, a \in AssignmentId :
                /\ db.row[a].status = "NONE"
                /\ Assign(s, offer, report)
                /\ db'.row[a].status = "PENDING"
                /\ Answered(s, [kind |-> "assignment", assignment |-> a,
                                job |-> db'.row[a].job, workers |-> db'.row[a].workers])

\* The connection ends with an answer, which is acted on only now ...
DirectoryAnswers(s) ==
    /\ browser[s].asking = "answered"
    /\ LET b == [browser[s] EXCEPT !.asking = "no"]
       IN  Becomes(s, CASE b.answer.kind = "assignment" ->
                             BeginAssignment([b EXCEPT !.previous = NoReport])
                        [] b.answer.kind = "no-work" ->
                             [b EXCEPT !.phase = "no-work", !.previous = NoReport, !.answer = Silence]
                        [] OTHER -> [b EXCEPT !.phase = "error", !.answer = Silence])

\* ... or without one: HELLO or the answer is lost.
DirectoryLost(s) ==
    /\ browser[s].asking # "no"
    /\ Becomes(s, [browser[s] EXCEPT !.asking = "no", !.answer = Silence, !.phase = "reconnecting"])

\* The retry timer after an empty directory or a failure.
Retry(s) ==
    /\ browser[s].phase \in {"no-work", "reconnecting"}
    /\ Becomes(s, ConnectDirectory(browser[s]))
-----------------------------------------------------------------------------
(* The cube runtime.                                                       *)

Observed(b, active) == [Integrated(b) EXCEPT !.active = active]

\* Its HELLO: the coordinator activates the assignment, or refuses, and then
\* the cube runtime fails.
Join(s) ==
    /\ browser[s].cube = "loading"
    /\ LET a == browser[s].current
       IN  /\ Activate(a, s, browser[s].answer.job)
           /\ browser' = [browser EXCEPT ![s] =
                IF Live(ExpireAssignments(db), a)
                THEN [@ EXCEPT !.cube = "joined"] ELSE CompleteAssignment(@, TRUE)]
    /\ UNCHANGED worked

\* Workers get or lose work.
Work(s, active) ==
    /\ browser[s].cube = "joined"
    /\ active # browser[s].active
    /\ active <= browser[s].answer.workers
    /\ Becomes(s, Observed(browser[s], active))

\* The job is over, or the cube runtime fails.
CubeEnds(s, failed) ==
    /\ browser[s].cube # "none"
    /\ Becomes(s, CompleteAssignment(browser[s], failed))

\* The assignment's timer.
QuantumEnds(s) ==
    /\ browser[s].cube # "none"
    /\ browser[s].deadline <= now
    /\ Becomes(s, CompleteAssignment(browser[s], FALSE))
-----------------------------------------------------------------------------
(* Time, and jobs that come and go.                                        *)

Overdue(s) == browser[s].cube # "none" /\ now >= browser[s].deadline + MaxLate

TimePasses ==
    /\ \A s \in Session : ~Overdue(s)
    /\ Tick
    /\ worked' = [a \in AssignmentId |-> worked[a] +
         IF \E s \in Session : browser[s].current = a
         THEN browser[CHOOSE s \in Session : browser[s].current = a].active ELSE 0]
    /\ UNCHANGED browser

BrowserStep(s) ==
    \/ StartRuntime(s) \/ PauseRuntime(s) \/ StopRuntime(s) \/ Reconfigure(s)
    \/ DirectoryHandles(s) \/ DirectoryAnswers(s) \/ DirectoryLost(s) \/ Retry(s)
    \/ Join(s) \/ \E active \in 0..Capacity : Work(s, active)
    \/ CubeEnds(s, TRUE) \/ CubeEnds(s, FALSE) \/ QuantumEnds(s)

SwarmNext ==
    \/ \E s \in Session : BrowserStep(s)
    \/ (AdmissionStep \/ Alarm) /\ UNCHANGED <<browser, worked>>
    \/ TimePasses

SwarmSpec == SwarmInit /\ [][SwarmNext]_swarmVars
-----------------------------------------------------------------------------
(* Properties.                                                             *)

\* Every field has its type.
SwarmTypeOK == browser \in [Session -> Browser] /\ worked \in [AssignmentId -> Nat]

\* A browser that only reports what it measured is never refused as invalid
\* (swarm-directory.ts:533: settled rows "must not strand a healthy browser in
\* INVALID_ASSIGNMENT"): not after an answer was lost, a job closed, a row
\* expired, a pause or a change of the workers.
ReportIsAccepted ==
    \A s \in Session : browser[s].answer.kind # "invalid"

\* The directory settles an assignment with the time its workers were busy, no
\* more and no less, wherever the time was cut off.
ReportedTimeIsWorked ==
    \A a \in AssignmentId :
      db.row[a].status = "COMPLETE" => db.row[a].actual = worked[a]

\* What a browser works on or has yet to report was reserved for it, and no two
\* browsers have the same assignment.
Claimed(s) == {browser[s].current, browser[s].previous.assignment} \ {0}
ClaimsAreReserved ==
    /\ \A s \in Session : \A a \in Claimed(s) : db.row[a].session = s
    /\ \A s \in Session : browser[s].cube # "none" =>
         /\ browser[s].current # 0
         /\ db.row[browser[s].current].status # "COMPLETE"
=============================================================================
