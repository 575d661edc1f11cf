------------------------- MODULE JobCoordinator_proofs -------------------------
(***************************************************************************)
(* What holds of JobCoordinator for every number of sessions, slots, tasks *)
(* and leases and every formula: the tables keep their types, certificates *)
(* and verdicts are true, a closed job is idle, the coordinator implements *)
(* JobVerdict, no slot has two leases, and quarantine stops work.          *)
(*                                                                         *)
(* Most of what a handler does is bookkeeping of leases, permits and the   *)
(* queue.  Bookkeeping(d, e) says what such a change leaves alone; each    *)
(* helper of the model is shown to be one, bookkeeping is shown to keep    *)
(* the invariant Good, and what remains are the few steps that split a     *)
(* task, certify one, or close the job.                                    *)
(*                                                                         *)
(* The last part asks which slots a step serves: Narrows(d, e) says that   *)
(* leases are only closed, Serves(d, e, served) that they are opened on    *)
(* the slots served alone; every handler narrows and then dispatches.      *)
(***************************************************************************)
EXTENDS JobCoordinator, FiniteSetTheorems, TLAPS

\* Tasks, leases and proof artifacts exist only for the rows written so far.
Known(d) ==
    /\ \A t \in Task : d.state[t] # "ABSENT" \/ d.holder[t] # NoLease => t <= d.rows
    /\ \A l \in LeaseId : d.lease[l].status # "NONE" \/ d.artifact[l] # "NONE" => TaskOf(l) <= d.rows

\* e has the tree of d: the same rows and cubes, no task moved into or out of
\* the tree and none newly certified.
SameTree(d, e) ==
    /\ e.rows = d.rows /\ e.parent = d.parent /\ e.cube = d.cube
    /\ \A t \in Task :
          e.state[t] = d.state[t] \/ (e.state[t] \notin Certified \cup {"ABSENT"} /\ t <= d.rows)
    /\ \A t \in Task : e.holder[t] # NoLease => t <= d.rows
    /\ \A l \in LeaseId : e.lease[l].status # "NONE" \/ e.artifact[l] # "NONE" => TaskOf(l) <= d.rows

\* The bookkeeping of leases, permits and the queue also leaves the job where
\* it is, or starts it, and leases nothing for a job that does not run.
Bookkeeping(d, e) ==
    /\ SameTree(d, e)
    /\ e.job = d.job \/ (Running(d) /\ e.job = "RUNNING")
    /\ \A l \in LeaseId : Active(e, l) => Active(d, l) \/ Running(e)

-----------------------------------------------------------------------------
(* Elementary facts.                                                       *)

\* The ids of leases are pairs of a task and a number, and NoLease is not one.
LEMMA LeaseIds ==
    /\ \A l \in LeaseId : TaskOf(l) \in Task
    /\ NoLease \notin LeaseId
    /\ \A t \in Task, n \in 1..MaxLeases : <<t, n>> \in LeaseId /\ TaskOf(<<t, n>>) = t
BY SizesAssumption DEF LeaseId, TaskOf, NoLease, Task

\* Bookkeeping done in two goes is bookkeeping.
LEMMA BookkeepingTransitive ==
    ASSUME NEW d, NEW e, NEW f, Bookkeeping(d, e), Bookkeeping(e, f)
    PROVE  Bookkeeping(d, f)
BY DEF Bookkeeping, SameTree, Running

\* Doing nothing is bookkeeping.
LEMMA BookkeepingReflexive ==
    ASSUME NEW d, Known(d) PROVE Bookkeeping(d, d)
BY DEF Bookkeeping, SameTree, Known

\* Bookkeeping keeps every task, lease and artifact within the rows written.
LEMMA BookkeepingKnown ==
    ASSUME NEW d, NEW e, Known(d), Bookkeeping(d, e) PROVE Known(e)
BY DEF Bookkeeping, SameTree, Known

-----------------------------------------------------------------------------
(* The shared row updates are bookkeeping.                                 *)

\* Closing a set of leases keeps the lease table's type and opens no lease.
LEMMA CloseLeasesType ==
    ASSUME NEW d \in Database, NEW ls, NEW s \in LeaseStatus
    PROVE  /\ CloseLeases(d, ls, s) \in [LeaseId -> LeaseRow]
           /\ \A l \in LeaseId :
                 /\ CloseLeases(d, ls, s)[l].status \in {d.lease[l].status, s}
                 /\ d.lease[l].status = "NONE" => CloseLeases(d, ls, s)[l].status = "NONE"
                 /\ l \in ls /\ s # "ACTIVE" => CloseLeases(d, ls, s)[l].status # "ACTIVE"
BY DEF CloseLeases, Database, LeaseRow, Active

\* So does closing the leases of one task.
LEMMA CloseTaskLeasesType ==
    ASSUME NEW d \in Database, NEW l \in LeaseId
    PROVE  /\ CloseTaskLeases(d, l) \in [LeaseId -> LeaseRow]
           /\ \A k \in LeaseId :
                 /\ CloseTaskLeases(d, l)[k].status \in {d.lease[k].status, "RESULT", "SUPERSEDED"}
                 /\ d.lease[k].status = "NONE" => CloseTaskLeases(d, l)[k].status = "NONE"
BY DEF CloseTaskLeases, Database, LeaseRow, LeaseStatus, Active

\* Withdrawing permits changes no lease's status.
LEMMA DropPermitsType ==
    ASSUME NEW rows \in [LeaseId -> LeaseRow], NEW ls
    PROVE  /\ DropPermits(rows, ls) \in [LeaseId -> LeaseRow]
           /\ \A l \in LeaseId : DropPermits(rows, ls)[l].status = rows[l].status
BY DEF DropPermits, LeaseRow

\* Requeueing the tasks of closed leases is bookkeeping.
LEMMA RequeueBookkeeping ==
    ASSUME NEW d \in Database, Known(d), NEW ls, NoLease \notin ls,
           NEW s \in LeaseStatus, s \notin {"ACTIVE", "NONE"}
    PROVE  Requeue(d, ls, s) \in Database /\ Bookkeeping(d, Requeue(d, ls, s))
<1> DEFINE e == Requeue(d, ls, s)
<1>1. /\ e.rows = d.rows /\ e.parent = d.parent /\ e.cube = d.cube
      /\ e.artifact = d.artifact /\ e.job = d.job
      /\ e.lease = CloseLeases(d, ls, s)
      /\ e.state = [t \in Task |-> IF d.holder[t] \in ls THEN "READY" ELSE d.state[t]]
      /\ e.holder = [t \in Task |-> IF d.holder[t] \in ls THEN NoLease ELSE d.holder[t]]
  BY DEF Requeue, Database
<1>2. e \in Database
  BY CloseLeasesType DEF Requeue, Database, TaskState
<1>3. \A t \in Task : d.holder[t] \in ls => t <= d.rows
  BY DEF Known
<1>4. Bookkeeping(d, e)
  BY <1>1, <1>3, CloseLeasesType DEF Bookkeeping, SameTree, Known, Active, Certified
<1> QED BY <1>2, <1>4

-----------------------------------------------------------------------------
(* Dispatch is bookkeeping.                                                *)

\* A slot that may be served: a declared slot of some session.
Slots == Session \X Slot

\* Requeueing takes back only slots that exist, so idle slots do.
LEMMA AssignmentsShape ==
    ASSUME NEW d \in Database, NEW served \in SUBSET Slots, NEW w \in Assignments(d, served)
    PROVE  /\ DOMAIN w \subseteq Slots
           /\ \A p \in DOMAIN w : w[p] # NoTask =>
                 w[p] \in Task /\ d.state[w[p]] = "READY" /\ d.count[w[p]] < MaxLeases /\ Running(d)
<1>1. PICK ready, idle :
        /\ ready = Leasable(d)
        /\ idle = (IF Running(d) THEN IdleSlots(d, served) ELSE {})
        /\ w \in [idle -> ready \cup {NoTask}]
  BY DEF Assignments
<1>2. idle \subseteq Slots
  BY <1>1 DEF IdleSlots
<1>3. \A t \in ready : t \in Task /\ d.state[t] = "READY" /\ d.count[t] < MaxLeases
  BY <1>1 DEF Leasable
<1> QED BY <1>1, <1>2, <1>3

\* Leasing READY tasks to idle slots of a running job is bookkeeping, and
\* every task handed out is held by its new lease.
LEMMA WithWorkBookkeeping ==
    ASSUME NEW d \in Database, Known(d), NEW served \in SUBSET Slots,
           NEW w \in Assignments(d, served)
    PROVE  /\ WithWork(d, w) \in Database
           /\ Bookkeeping(d, WithWork(d, w))
           /\ \A p \in DOMAIN w : w[p] # NoTask => WithWork(d, w).holder[w[p]] \in LeaseId
<1> DEFINE e == WithWork(d, w)
           taken == {t \in Task : \E p \in DOMAIN w : w[p] = t}
           slotFor(t) == CHOOSE p \in DOMAIN w : w[p] = t
           new == {l \in LeaseId : TaskOf(l) \in taken /\ l[2] = d.count[TaskOf(l)] + 1}
           row(l) == [status |-> "ACTIVE", session |-> slotFor(TaskOf(l))[1],
                      slot |-> slotFor(TaskOf(l))[2], lapsed |-> FALSE, permit |-> NoSlot]
<1>1. /\ e.rows = d.rows /\ e.parent = d.parent /\ e.cube = d.cube /\ e.artifact = d.artifact
      /\ e.proof = d.proof /\ e.provers = d.provers
      /\ e.quarantined = d.quarantined /\ e.processed = d.processed
      /\ e.job = (IF taken # {} THEN "RUNNING" ELSE d.job)
      /\ e.state = [t \in Task |-> IF t \in taken THEN "LEASED" ELSE d.state[t]]
      /\ e.holder = [t \in Task |-> IF t \in taken THEN <<t, d.count[t] + 1>> ELSE d.holder[t]]
      /\ e.count = [t \in Task |-> IF t \in taken THEN d.count[t] + 1 ELSE d.count[t]]
      /\ e.lease = [l \in LeaseId |-> IF l \in new THEN row(l) ELSE d.lease[l]]
      /\ e = [d EXCEPT !.job = e.job, !.state = e.state, !.holder = e.holder,
                       !.count = e.count, !.lease = e.lease]
  BY DEF WithWork, Database
<1> HIDE DEF e, slotFor
<1>2. \A t \in taken : /\ d.state[t] = "READY" /\ d.count[t] < MaxLeases /\ Running(d)
                       /\ t <= d.rows
                       /\ slotFor(t) \in Slots
  <2> SUFFICES ASSUME NEW t \in taken
               PROVE  /\ d.state[t] = "READY" /\ d.count[t] < MaxLeases /\ Running(d)
                      /\ t <= d.rows /\ slotFor(t) \in Slots
    OBVIOUS
  <2>1. t \in Task /\ t # NoTask
    BY DEF Task, NoTask
  <2>2. slotFor(t) \in DOMAIN w /\ w[slotFor(t)] = t
    BY DEF slotFor
  <2> QED BY <2>1, <2>2, AssignmentsShape DEF Known
<1>3. \A t \in taken : d.count[t] + 1 \in 1..MaxLeases
  BY <1>2, SizesAssumption DEF Database
<1>4. \A t \in taken : <<t, d.count[t] + 1>> \in LeaseId
  BY <1>3, LeaseIds
<1>5. \A l \in new : row(l) \in LeaseRow
  BY <1>2 DEF LeaseRow, LeaseStatus, Slots
<1>6. e \in Database
  <2>1. /\ e.job \in JobState
        /\ e.state \in [Task -> TaskState]
        /\ e.holder \in [Task -> LeaseId \cup {NoLease}]
        /\ e.count \in [Task -> 0..MaxLeases]
        /\ e.lease \in [LeaseId -> LeaseRow]
    <3>1. e.job \in JobState BY <1>1 DEF Database, JobState
    <3>2. e.state \in [Task -> TaskState] BY <1>1 DEF Database, TaskState
    <3>3. e.holder \in [Task -> LeaseId \cup {NoLease}] BY <1>1, <1>4 DEF Database
    <3>4. e.count \in [Task -> 0..MaxLeases] BY <1>1, <1>3 DEF Database
    <3>5. e.lease \in [LeaseId -> LeaseRow] BY <1>1, <1>5 DEF Database
    <3> QED BY <3>1, <3>2, <3>3, <3>4, <3>5
  <2> QED BY <1>1, <2>1 DEF Database
<1> HIDE DEF row, taken
<1>7. Bookkeeping(d, e)
  <2>1. taken # {} => Running(d) /\ e.job = "RUNNING"
    BY <1>1, <1>2
  <2>2. \A l \in new : TaskOf(l) \in taken /\ TaskOf(l) <= d.rows
    BY <1>2
  <2>3. \A l \in LeaseId : Active(e, l) => Active(d, l) \/ Running(e)
    BY <1>1, <2>1 DEF Active, Running
  <2>4. \A l \in LeaseId :
          e.lease[l].status # "NONE" \/ e.artifact[l] # "NONE" => TaskOf(l) <= d.rows
    BY <1>1, <2>2 DEF Known
  <2>5. \A t \in Task : e.holder[t] # NoLease => t <= d.rows
    BY <1>1, <1>2 DEF Known
  <2>6. \A t \in Task :
          e.state[t] = d.state[t] \/ (e.state[t] \notin Certified \cup {"ABSENT"} /\ t <= d.rows)
    BY <1>1, <1>2 DEF Certified
  <2>7. e.job = d.job \/ (Running(d) /\ e.job = "RUNNING")
    BY <1>1, <2>1
  <2> QED BY <1>1, <2>3, <2>4, <2>5, <2>6, <2>7 DEF Bookkeeping, SameTree
<1>8. ASSUME NEW p \in DOMAIN w, w[p] # NoTask PROVE e.holder[w[p]] \in LeaseId
  <2>1. w[p] \in taken /\ w[p] \in Task
    BY <1>8, AssignmentsShape DEF taken
  <2> QED BY <1>1, <1>4, <2>1
<1> QED BY <1>6, <1>7, <1>8 DEF e

\* Issuing permits is bookkeeping.
LEMMA WithPermitsBookkeeping ==
    ASSUME NEW d \in Database, Known(d), NEW P
    PROVE  WithPermits(d, P) \in Database /\ Bookkeeping(d, WithPermits(d, P))
<1> DEFINE e == WithPermits(d, P)
           lease == [l \in LeaseId |->
                       IF l \in P THEN [d.lease[l] EXCEPT !.permit = d.lease[l].slot] ELSE d.lease[l]]
<1>1. e = [d EXCEPT !.lease = lease]
  BY DEF WithPermits
<1>2. lease \in [LeaseId -> LeaseRow] /\ \A l \in LeaseId : lease[l].status = d.lease[l].status
  BY DEF Database, LeaseRow
<1> HIDE DEF lease
<1>3. e \in Database
  BY <1>1, <1>2 DEF Database
<1>4. /\ e.rows = d.rows /\ e.parent = d.parent /\ e.cube = d.cube /\ e.artifact = d.artifact
      /\ e.job = d.job /\ e.state = d.state /\ e.holder = d.holder /\ e.lease = lease
  BY <1>1 DEF Database
<1>5. Bookkeeping(d, e)
  BY <1>2, <1>4 DEF Bookkeeping, SameTree, Known, Active
<1> QED BY <1>3, <1>5

\* Handing out work and taking it back, because its send threw, is bookkeeping.
LEMMA UndeliveredBookkeeping ==
    ASSUME NEW d \in Database, Known(d), NEW failing \in SUBSET Slots,
           NEW e \in Undelivered(d, failing)
    PROVE  e \in Database /\ Bookkeeping(d, e)
<1>1. CASE failing = {}
  BY <1>1, BookkeepingReflexive DEF Undelivered
<1>2. CASE failing # {}
  <2>1. PICK w \in Assignments(d, failing) :
          e = Requeue(WithWork(d, w),
                      {WithWork(d, w).holder[w[p]] : p \in {q \in DOMAIN w : w[q] # NoTask}},
                      "EXPIRED")
    BY <1>2 DEF Undelivered
  <2> DEFINE f == WithWork(d, w)
             ls == {f.holder[w[p]] : p \in {q \in DOMAIN w : w[q] # NoTask}}
  <2>2. f \in Database /\ Bookkeeping(d, f) /\ ls \subseteq LeaseId
    BY WithWorkBookkeeping
  <2>3. Known(f) /\ NoLease \notin ls
    BY <2>2, BookkeepingKnown, LeaseIds
  <2>4. "EXPIRED" \in LeaseStatus
    BY DEF LeaseStatus
  <2> HIDE DEF f, ls
  <2>5. Requeue(f, ls, "EXPIRED") \in Database /\ Bookkeeping(f, Requeue(f, ls, "EXPIRED"))
    BY <2>2, <2>3, <2>4, RequeueBookkeeping
  <2>6. Bookkeeping(d, Requeue(f, ls, "EXPIRED"))
    BY <2>2, <2>5, BookkeepingTransitive
  <2> QED BY <2>1, <2>5, <2>6 DEF f, ls
<1> QED BY <1>1, <1>2

\* A whole round of work and permits is bookkeeping.
LEMMA DispatchedToBookkeeping ==
    ASSUME NEW d \in Database, Known(d), NEW conn, NEW served \in SUBSET Slots,
           NEW e \in DispatchedTo(d, conn, served)
    PROVE  e \in Database /\ Bookkeeping(d, e)
<1>1. PICK w \in Assignments(d, served) :
        \E P \in PermitSets(WithWork(d, w), conn) : e = WithPermits(WithWork(d, w), P)
  BY DEF DispatchedTo
<1>1a. PICK P : e = WithPermits(WithWork(d, w), P)
  BY <1>1
<1> DEFINE f == WithWork(d, w)
<1>2. f \in Database /\ Bookkeeping(d, f)
  BY WithWorkBookkeeping
<1>3. Known(f)
  BY <1>2, BookkeepingKnown
<1> HIDE DEF f
<1>4. WithPermits(f, P) \in Database /\ Bookkeeping(f, WithPermits(f, P))
  BY <1>2, <1>3, WithPermitsBookkeeping
<1> QED BY <1>1a, <1>2, <1>4, BookkeepingTransitive DEF f

\* dispatchPendingWork, whatever sockets throw, is bookkeeping.
LEMMA DispatchBookkeeping ==
    ASSUME NEW d \in Database, Known(d), NEW conn, NEW welcomed \in SUBSET Slots,
           NEW e \in Dispatch(d, conn, welcomed)
    PROVE  e \in Database /\ Bookkeeping(d, e)
<1>1. \E failing, served \in SUBSET Slots : \E f \in Undelivered(d, failing) :
        e \in DispatchedTo(f, conn, served)
  <2> DEFINE connected == ConnectedSlots(d, conn)
             failing(broken) == {p \in connected \ welcomed : p[1] \in broken}
             served(broken) == (connected \cup welcomed) \ failing(broken)
  <2>1. connected \subseteq Slots
    BY DEF ConnectedSlots, Slots
  <2>2. PICK broken : e \in DispatchRound(d, conn, welcomed, broken)
    BY DEF Dispatch
  <2>2a. \E f \in Undelivered(d, failing(broken)) : e \in DispatchedTo(f, conn, served(broken))
    BY <2>2 DEF DispatchRound
  <2>3. failing(broken) \in SUBSET Slots /\ served(broken) \in SUBSET Slots
    BY <2>1
  <2> QED BY <2>2a, <2>3
<1>1a. PICK failing \in SUBSET Slots, served \in SUBSET Slots :
         \E f \in Undelivered(d, failing) : e \in DispatchedTo(f, conn, served)
  BY <1>1
<1>1b. PICK f \in Undelivered(d, failing) : e \in DispatchedTo(f, conn, served)
  BY <1>1a
<1>2. f \in Database /\ Bookkeeping(d, f)
  BY UndeliveredBookkeeping
<1>3. Known(f)
  BY <1>2, BookkeepingKnown
<1>4. e \in Database /\ Bookkeeping(f, e)
  BY <1>1b, <1>2, <1>3, DispatchedToBookkeeping
<1> QED BY <1>2, <1>4, BookkeepingTransitive

-----------------------------------------------------------------------------
(* The invariant of the database, and that bookkeeping keeps it.           *)

\* The root's cube is empty and a task is older than its children.
Tree(d) ==
    /\ d.cube[Root] = {}
    /\ \A t \in Task : d.parent[t] < t

CertificatesTrue(d) == \A t \in Task : d.state[t] \in Certified => ~HasModel(d.cube[t])

JobTrue(job) ==
    /\ job = "SAT_VERIFIED" => Models # {} /\ FormulaParses
    /\ job \in Certified => Models = {} /\ FormulaParses
    /\ job = "INVALID" => ~FormulaParses

Good(d) ==
    /\ d \in Database
    /\ Known(d)
    /\ Tree(d)
    /\ CertificatesTrue(d)
    /\ JobTrue(d.job)
    /\ Closed(d) => \A l \in LeaseId : ~Active(d, l)
    /\ d.job = "DELETED" => d.rows = 0

\* What an onlooker is shown of the job (Announced, of any database).
Shown(d) ==
    CASE d.job \in {"UPLOADING", "QUEUED", "RUNNING"} -> "OPEN"
      [] d.job = "SAT_VERIFIED" -> "SAT"
      [] d.job \in Certified -> "UNSAT"
      [] OTHER -> d.job

\* e keeps the invariant and the rows, and shows what d does.
Keeps(d, e) == Good(e) /\ e.rows = d.rows /\ Shown(e) = Shown(d)

\* A change that only keeps books keeps the invariant.
LEMMA BookkeepingKeeps ==
    ASSUME NEW d, Good(d), NEW e \in Database, Bookkeeping(d, e) PROVE Keeps(d, e)
<1>1. Known(e)
  BY BookkeepingKnown DEF Good
<1>2. Tree(e)
  BY DEF Good, Bookkeeping, SameTree, Tree
<1>3. CertificatesTrue(e)
  BY DEF Good, Bookkeeping, SameTree, CertificatesTrue
<1>4. JobTrue(e.job)
  BY DEF Good, Bookkeeping, JobTrue, Certified
<1>5. Closed(e) => \A l \in LeaseId : ~Active(e, l)
  BY DEF Good, Bookkeeping, Closed, Running, Terminal, Verdict
<1>6. e.job = "DELETED" => e.rows = 0
  BY DEF Good, Bookkeeping, SameTree
<1>7. Shown(e) = Shown(d)
  BY DEF Bookkeeping, Running, Shown, Certified
<1>8. e.rows = d.rows
  BY DEF Bookkeeping, SameTree
<1> QED BY <1>1, <1>2, <1>3, <1>4, <1>5, <1>6, <1>7, <1>8 DEF Good, Keeps

\* Bookkeeping of the database, or bookkeeping and then a dispatch, keeps it too.
LEMMA DispatchKeeps ==
    ASSUME NEW d, Good(d), NEW f \in Database, Bookkeeping(d, f),
           NEW conn, NEW welcomed \in SUBSET Slots, NEW e \in Dispatch(f, conn, welcomed)
    PROVE  Keeps(d, e)
<1>1. Keeps(d, f)
  BY BookkeepingKeeps
<1>2. e \in Database /\ Bookkeeping(f, e)
  BY <1>1, DispatchBookkeeping DEF Keeps, Good
<1> QED BY <1>1, <1>2, BookkeepingKeeps DEF Keeps

\* dispatchPendingWork alone.
LEMMA DispatchAllKeeps ==
    ASSUME NEW d, Good(d), NEW conn, NEW e \in DispatchAll(d, conn) PROVE Keeps(d, e)
<1>1. d \in Database /\ Bookkeeping(d, d)
  BY BookkeepingReflexive DEF Good
<1> QED BY <1>1, DispatchKeeps DEF DispatchAll, Slots

\* A change that closes the job keeps the invariant if the verdict is true and
\* no lease is left.
LEMMA ClosingKeeps ==
    ASSUME NEW d, Good(d), NEW e \in Database, SameTree(d, e), JobTrue(e.job),
           e.job # "DELETED", \A l \in LeaseId : ~Active(e, l)
    PROVE  Good(e)
BY DEF Good, SameTree, Known, Tree, CertificatesTrue

-----------------------------------------------------------------------------
(* Sessions come, go and report.                                           *)

\* A mutation is remembered in the idempotency table and nothing else changes.
LEMMA RecordedBookkeeping ==
    ASSUME NEW d \in Database, Known(d), NEW l \in LeaseId, NEW kind \in MessageKind
    PROVE  Recorded(d, l, kind) \in Database /\ Bookkeeping(d, Recorded(d, l, kind))
<1> DEFINE e == Recorded(d, l, kind)
<1>1. e = [d EXCEPT !.processed = d.processed \cup {<<l, kind>>}]
  BY DEF Recorded
<1>2. e \in Database
  BY <1>1 DEF Database
<1>3. /\ e.rows = d.rows /\ e.parent = d.parent /\ e.cube = d.cube /\ e.artifact = d.artifact
      /\ e.job = d.job /\ e.state = d.state /\ e.holder = d.holder /\ e.lease = d.lease
  BY <1>1 DEF Database
<1>4. Bookkeeping(d, e)
  BY <1>3 DEF Bookkeeping, SameTree, Known, Active
<1> QED BY <1>2, <1>4

\* A change of the lease table alone that opens no lease.
LEMMA LeaseBookkeeping ==
    ASSUME NEW d \in Database, Known(d), NEW rows \in [LeaseId -> LeaseRow],
           \A l \in LeaseId : /\ d.lease[l].status = "NONE" => rows[l].status = "NONE"
                              /\ rows[l].status = "ACTIVE" => d.lease[l].status = "ACTIVE"
    PROVE  LET e == [d EXCEPT !.lease = rows] IN e \in Database /\ Bookkeeping(d, e)
<1> DEFINE e == [d EXCEPT !.lease = rows]
<1>1. e \in Database
  BY DEF Database
<1>2. /\ e.rows = d.rows /\ e.parent = d.parent /\ e.cube = d.cube /\ e.artifact = d.artifact
      /\ e.job = d.job /\ e.state = d.state /\ e.holder = d.holder /\ e.lease = rows
  BY DEF Database
<1>3. Bookkeeping(d, e)
  BY <1>2 DEF Bookkeeping, SameTree, Known, Active
<1> QED BY <1>1, <1>3

\* Whether a session is known as a prover is bookkeeping.
LEMMA ProversBookkeeping ==
    ASSUME NEW d \in Database, Known(d), NEW S \in SUBSET Session
    PROVE  LET e == [d EXCEPT !.provers = S] IN e \in Database /\ Bookkeeping(d, e)
<1> DEFINE e == [d EXCEPT !.provers = S]
<1>1. e \in Database
  BY DEF Database
<1>2. /\ e.rows = d.rows /\ e.parent = d.parent /\ e.cube = d.cube /\ e.artifact = d.artifact
      /\ e.job = d.job /\ e.state = d.state /\ e.holder = d.holder /\ e.lease = d.lease
  BY DEF Database
<1>3. Bookkeeping(d, e)
  BY <1>2 DEF Bookkeeping, SameTree, Known, Active
<1> QED BY <1>1, <1>3

\* Moving the leases of a reconnecting session to its slots, and yielding
\* those left over, is bookkeeping.
LEMMA WithSlotsBookkeeping ==
    ASSUME NEW d \in Database, Known(d), NEW s, NEW slots \in SUBSET Slot,
           NEW r \in Reconciled(d, s, slots)
    PROVE  WithSlots(d, r) \in Database /\ Bookkeeping(d, WithSlots(d, r))
<1> DEFINE kept == {l \in DOMAIN r : r[l] # NoSlot}
           e == Requeue(d, DOMAIN r \ kept, "YIELDED")
           rows == [l \in LeaseId |-> IF l \in kept THEN [e.lease[l] EXCEPT !.slot = r[l]] ELSE e.lease[l]]
<1>1. DOMAIN r \subseteq LeaseId /\ \A l \in DOMAIN r : r[l] \in Slot \cup {NoSlot}
  BY DEF Reconciled, SessionLeases
<1>2. NoLease \notin DOMAIN r \ kept /\ "YIELDED" \in LeaseStatus
  BY <1>1, LeaseIds DEF LeaseStatus
<1>3. e \in Database /\ Bookkeeping(d, e)
  BY <1>2, RequeueBookkeeping
<1>4. Known(e)
  BY <1>3, BookkeepingKnown
<1>5. WithSlots(d, r) = [e EXCEPT !.lease = rows]
  BY DEF WithSlots
<1> HIDE DEF e
<1>6. rows \in [LeaseId -> LeaseRow] /\ \A l \in LeaseId : rows[l].status = e.lease[l].status
  <2>1. e.lease \in [LeaseId -> LeaseRow] /\ \A l \in kept : r[l] \in Slot \cup {NoSlot}
    BY <1>1, <1>3 DEF Database
  <2> HIDE DEF kept
  <2> QED BY <2>1 DEF LeaseRow
<1> HIDE DEF rows
<1>7. [e EXCEPT !.lease = rows] \in Database /\ Bookkeeping(e, [e EXCEPT !.lease = rows])
  BY <1>3, <1>4, <1>6, LeaseBookkeeping
<1> QED BY <1>3, <1>5, <1>7, BookkeepingTransitive
-----------------------------------------------------------------------------
(* The inductive invariant, and the steps that are bookkeeping.            *)

IInv ==
    /\ Good(db)
    /\ sockets \in [Session -> SUBSET Slot]
    /\ calls \subseteq Call
    /\ \A c \in calls : c.kind # "HELLO" => TaskOf(c.lease) <= db.rows

\* A step of JobVerdict, or none, between the verdicts shown.
VerdictStep(d, e) ==
    \/ Shown(e) = Shown(d)
    \/ Shown(d) \in {"OPEN", "CANCELLED"} /\ Shown(e) = Abstract!Truth
    \/ Shown(d) # "DELETED" /\ Shown(e) = "CANCELLED"
    \/ Shown(e) = "DELETED"

Sound == IInv' /\ VerdictStep(db, db')

\* A step that only keeps books is sound.
LEMMA KeepsSound ==
    ASSUME IInv, Keeps(db, db'), sockets' \in [Session -> SUBSET Slot], calls' \subseteq Call,
           \A c \in calls' : c \in calls \/ (c.kind # "HELLO" => TaskOf(c.lease) <= db.rows)
    PROVE  Sound
BY DEF IInv, Sound, Keeps, VerdictStep

\* So is one that leaves sockets and handlers alone and ends in a dispatch.
LEMMA RespondSound ==
    ASSUME IInv, NEW d \in Database, Bookkeeping(db, d), Respond(d), UNCHANGED <<sockets, calls>>
    PROVE  Sound
<1>1. Keeps(db, db')
  BY DispatchKeeps DEF IInv, Respond, DispatchAll, Slots
<1> QED BY <1>1, KeepsSound DEF IInv

\* The lease table as a heartbeat, a lapse or a withdrawn permit leaves it.
LEMMA RowsRespondSound ==
    ASSUME IInv, NEW rows \in [LeaseId -> LeaseRow],
           \A l \in LeaseId : /\ db.lease[l].status = "NONE" => rows[l].status = "NONE"
                              /\ rows[l].status = "ACTIVE" => db.lease[l].status = "ACTIVE",
           \/ Respond([db EXCEPT !.lease = rows])
           \/ db' = [db EXCEPT !.lease = rows],
           UNCHANGED <<sockets, calls>>
    PROVE  Sound
<1> DEFINE d == [db EXCEPT !.lease = rows]
<1>1. d \in Database /\ Bookkeeping(db, d)
  BY LeaseBookkeeping DEF IInv, Good
<1> HIDE DEF d
<1>2. CASE Respond(d)
  BY <1>1, <1>2, RespondSound
<1>3. CASE db' = d
  <2>1. Keeps(db, db')
    BY <1>1, <1>3, BookkeepingKeeps DEF IInv
  <2> QED BY <2>1, KeepsSound DEF IInv
<1> QED BY <1>2, <1>3 DEF d

\* The rest of handleHello.
LEMMA WelcomeKeeps ==
    ASSUME IInv, NEW h \in Hello, Welcome(h)
    PROVE  Keeps(db, db') /\ sockets' \in [Session -> SUBSET Slot]
<1> DEFINE s == h.session
           conn == [sockets EXCEPT ![s] = h.slots]
           S == IF h.prover THEN db.provers \cup {s} ELSE db.provers \ {s}
           profiled == [db EXCEPT !.provers = S]
<1>1. s \in Session /\ h.slots \in SUBSET Slot
  BY DEF Hello
<1>2. S \in SUBSET Session
  BY <1>1 DEF IInv, Good, Database
<1>3. profiled \in Database /\ Bookkeeping(db, profiled)
  BY <1>2, ProversBookkeeping DEF IInv, Good
<1>4. Known(profiled)
  BY <1>3, BookkeepingKnown DEF IInv, Good
<1>5. PICK r \in Reconciled(profiled, s, h.slots) :
        db' \in Dispatch(WithSlots(profiled, r), conn, {s} \X h.slots)
  BY DEF Welcome
<1>6. sockets' = conn
  BY DEF Welcome
<1> HIDE DEF profiled, S
<1>7. WithSlots(profiled, r) \in Database /\ Bookkeeping(profiled, WithSlots(profiled, r))
  BY <1>1, <1>3, <1>4, WithSlotsBookkeeping
<1>8. Bookkeeping(db, WithSlots(profiled, r))
  BY <1>3, <1>7, BookkeepingTransitive
<1>9. {s} \X h.slots \in SUBSET Slots
  BY <1>1 DEF Slots
<1>10. Keeps(db, db')
  BY <1>5, <1>7, <1>8, <1>9, DispatchKeeps DEF IInv
<1> QED BY <1>1, <1>6, <1>10 DEF IInv

\* HELLO, with or without an assignment.
LEMMA HelloSound ==
    ASSUME IInv, NEW h \in HelloMessages,
           HelloAlone(h) \/ HelloAssigned(h) \/ HelloActivated(h) \/ HelloRefused(h)
    PROVE  Sound
<1>1. h \in Hello
  BY InputsAssumption
<1>2. [kind |-> "HELLO", hello |-> h] \in Call
  BY <1>1 DEF Call
<1>3. CASE HelloAlone(h)
  BY <1>1, <1>3, WelcomeKeeps, KeepsSound DEF HelloAlone, IInv
<1>4. CASE HelloActivated(h)
  <2>1. calls' \subseteq calls /\ Welcome(h)
    BY <1>4 DEF HelloActivated
  <2> QED BY <1>1, <2>1, WelcomeKeeps, KeepsSound DEF IInv
<1>5. CASE HelloAssigned(h) \/ HelloRefused(h)
  <2>1. Keeps(db, db')
    BY <1>5 DEF HelloAssigned, HelloRefused, Keeps, IInv
  <2>2. calls' \subseteq calls \cup {[kind |-> "HELLO", hello |-> h]} /\ sockets' = sockets
    BY <1>5 DEF HelloAssigned, HelloRefused
  <2> QED BY <1>2, <2>1, <2>2, KeepsSound DEF IInv
<1> QED BY <1>3, <1>4, <1>5

\* A socket that drops.
LEMMA DisconnectSound == ASSUME IInv, NEW s \in Session, Disconnect(s) PROVE Sound
<1>1. Keeps(db, db') /\ sockets' \in [Session -> SUBSET Slot] /\ calls' = calls
  BY DEF Disconnect, Keeps, IInv
<1> QED BY <1>1, KeepsSound DEF IInv

\* The leases a session holds are leases.
LEMMA SessionLeasesAre ==
    ASSUME NEW d, NEW s PROVE SessionLeases(d, s) \subseteq LeaseId /\ NoLease \notin SessionLeases(d, s)
BY LeaseIds DEF SessionLeases

\* Closing leases, requeueing their tasks and withdrawing their permits.
LEMMA ReleaseBookkeeping ==
    ASSUME NEW d \in Database, Known(d), NEW ls \in SUBSET LeaseId,
           NEW s \in LeaseStatus, s \notin {"ACTIVE", "NONE"}
    PROVE  LET freed == Requeue(d, ls, s)
               e == [freed EXCEPT !.lease = DropPermits(freed.lease, ls)]
           IN  e \in Database /\ Bookkeeping(d, e)
<1> DEFINE freed == Requeue(d, ls, s)
           rows == DropPermits(freed.lease, ls)
<1>1. freed \in Database /\ Bookkeeping(d, freed)
  BY RequeueBookkeeping, LeaseIds
<1>2. Known(freed)
  BY <1>1, BookkeepingKnown
<1> HIDE DEF freed
<1>3. rows \in [LeaseId -> LeaseRow] /\ \A l \in LeaseId : rows[l].status = freed.lease[l].status
  BY <1>1, DropPermitsType DEF Database
<1> HIDE DEF rows
<1>4. [freed EXCEPT !.lease = rows] \in Database /\ Bookkeeping(freed, [freed EXCEPT !.lease = rows])
  BY <1>1, <1>2, <1>3, LeaseBookkeeping
<1>5. Bookkeeping(d, [freed EXCEPT !.lease = rows])
  BY <1>1, <1>4, BookkeepingTransitive
<1> QED BY <1>4, <1>5 DEF freed, rows

\* A client that stops.
LEMMA ClientStoppedSound == ASSUME IInv, NEW s \in Session, ClientStopped(s) PROVE Sound
<1> DEFINE mine == SessionLeases(db, s)
           freed == Requeue(db, mine, "YIELDED")
           d == [freed EXCEPT !.lease = DropPermits(freed.lease, mine)]
           conn == [sockets EXCEPT ![s] = {}]
<1>1. mine \in SUBSET LeaseId /\ "YIELDED" \in LeaseStatus
  BY SessionLeasesAre DEF LeaseStatus
<1>2. db' \in DispatchAll(d, conn) /\ sockets' = conn /\ calls' = calls
  BY DEF ClientStopped
<1> HIDE DEF mine
<1>3. d \in Database /\ Bookkeeping(db, d)
  BY <1>1, ReleaseBookkeeping DEF IInv, Good
<1> HIDE DEF d
<1>4. Keeps(db, db')
  BY <1>2, <1>3, DispatchKeeps DEF IInv, DispatchAll, Slots
<1>5. sockets' \in [Session -> SUBSET Slot]
  BY <1>2 DEF IInv
<1> QED BY <1>2, <1>4, <1>5, KeepsSound DEF IInv

\* SESSION_HEARTBEAT.
LEMMA HeartbeatSound ==
    ASSUME IInv, NEW s \in Session, NEW renewed, SessionHeartbeat(s, renewed) PROVE Sound
<1> DEFINE rows == [l \in LeaseId |->
                      IF l \in renewed THEN [db.lease[l] EXCEPT !.lapsed = FALSE] ELSE db.lease[l]]
<1>1. Respond([db EXCEPT !.lease = rows]) /\ UNCHANGED <<sockets, calls>>
  BY DEF SessionHeartbeat
<1>2. rows \in [LeaseId -> LeaseRow] /\ \A l \in LeaseId : rows[l].status = db.lease[l].status
  <2>1. db.lease \in [LeaseId -> LeaseRow]
    BY DEF IInv, Good, Database
  <2> QED BY <2>1 DEF LeaseRow
<1> HIDE DEF rows
<1> QED BY <1>1, <1>2, RowsRespondSound

-----------------------------------------------------------------------------
(* What leases report.                                                     *)

\* The lease row of l after a change of its permit and its deadline only.
LEMMA OneRowSound ==
    ASSUME IInv, NEW l \in LeaseId, NEW row \in LeaseRow, row.status = db.lease[l].status,
           \/ Respond([db EXCEPT !.lease = [db.lease EXCEPT ![l] = row]])
           \/ db' = [db EXCEPT !.lease = [db.lease EXCEPT ![l] = row]],
           UNCHANGED <<sockets, calls>>
    PROVE  Sound
<1> DEFINE rows == [db.lease EXCEPT ![l] = row]
<1>1. rows \in [LeaseId -> LeaseRow] /\ \A k \in LeaseId : rows[k].status = db.lease[k].status
  BY DEF IInv, Good, Database
<1> HIDE DEF rows
<1>2. Respond([db EXCEPT !.lease = rows]) \/ db' = [db EXCEPT !.lease = rows]
  BY DEF rows
<1> QED BY <1>1, <1>2, RowsRespondSound

\* A refused SPLIT, a lapsed permit, a lapsed lease.
LEMMA RowStepsSound ==
    ASSUME IInv, NEW l \in LeaseId, SplitRefused(l) \/ PermitLapses(l) \/ LeaseLapses(l)
    PROVE  Sound
<1> DEFINE row == db.lease[l]
           withdrawn == [row EXCEPT !.permit = NoSlot]
           lapsed == [row EXCEPT !.lapsed = TRUE, !.permit = NoSlot]
<1>1. row \in LeaseRow
  BY DEF IInv, Good, Database
<1>2. withdrawn \in LeaseRow /\ withdrawn.status = row.status
  BY <1>1 DEF LeaseRow
<1>3. lapsed \in LeaseRow /\ lapsed.status = row.status
  BY <1>1 DEF LeaseRow
<1>4. CASE SplitRefused(l) \/ PermitLapses(l)
  <2>1. \/ Respond([db EXCEPT !.lease = [db.lease EXCEPT ![l] = withdrawn]])
        \/ db' = [db EXCEPT !.lease = [db.lease EXCEPT ![l] = withdrawn]]
    BY <1>4 DEF SplitRefused, PermitLapses
  <2>2. UNCHANGED <<sockets, calls>>
    BY <1>4 DEF SplitRefused, PermitLapses
  <2> HIDE DEF withdrawn
  <2> QED BY <1>2, <2>1, <2>2, OneRowSound
<1>5. CASE LeaseLapses(l)
  <2>1. db' = [db EXCEPT !.lease = [db.lease EXCEPT ![l] = lapsed]] /\ UNCHANGED <<sockets, calls>>
    BY <1>5 DEF LeaseLapses
  <2> HIDE DEF lapsed
  <2> QED BY <1>3, <2>1, OneRowSound
<1> QED BY <1>4, <1>5

\* YIELD.
LEMMA YieldSound ==
    ASSUME IInv, NEW l \in LeaseId, NEW unsupported, Yield(l, unsupported) PROVE Sound
<1> DEFINE freed == Requeue(db, {l}, "YIELDED")
           dropped == [freed EXCEPT !.lease = DropPermits(freed.lease, {l})]
           S == IF unsupported THEN freed.provers \ {db.lease[l].session} ELSE freed.provers
           d == [dropped EXCEPT !.provers = S]
<1>1. "YIELDED" \in LeaseStatus /\ "YIELD" \in MessageKind
  BY DEF LeaseStatus, MessageKind
<1>2. dropped \in Database /\ Bookkeeping(db, dropped)
  BY <1>1, ReleaseBookkeeping DEF IInv, Good
<1>3. freed \in Database
  BY <1>1, RequeueBookkeeping, LeaseIds DEF IInv, Good
<1>4. Respond(Recorded(d, l, "YIELD")) /\ UNCHANGED <<sockets, calls>>
  BY <1>3 DEF Yield, Database
<1> HIDE DEF freed
<1>5. S \in SUBSET Session
  BY <1>3 DEF Database
<1> HIDE DEF S, dropped
<1>6. Known(dropped)
  BY <1>2, BookkeepingKnown DEF IInv, Good
<1>7. d \in Database /\ Bookkeeping(dropped, d)
  BY <1>2, <1>5, <1>6, ProversBookkeeping
<1>8. Known(d)
  BY <1>6, <1>7, BookkeepingKnown
<1> HIDE DEF d
<1>9. Recorded(d, l, "YIELD") \in Database /\ Bookkeeping(d, Recorded(d, l, "YIELD"))
  BY <1>1, <1>7, <1>8, RecordedBookkeeping
<1>10. Bookkeeping(db, Recorded(d, l, "YIELD"))
  BY <1>2, <1>7, <1>9, BookkeepingTransitive
<1> QED BY <1>4, <1>9, <1>10, RespondSound

\* A task that moves from one queue or verifier to another.
LEMMA MoveBookkeeping ==
    ASSUME NEW d \in Database, Known(d), NEW t \in Task, t <= d.rows,
           NEW state \in TaskState, state \notin Certified \cup {"ABSENT"},
           NEW holder \in {NoLease, d.holder[t]}, NEW proof \in [Task -> BOOLEAN],
           NEW rows \in [LeaseId -> LeaseRow], NEW artifact \in [LeaseId -> ProofStatus],
           \A l \in LeaseId :
              /\ d.lease[l].status = "NONE" => rows[l].status = "NONE"
              /\ rows[l].status = "ACTIVE" => d.lease[l].status = "ACTIVE"
              /\ artifact[l] # "NONE" => TaskOf(l) <= d.rows
    PROVE  LET e == [d EXCEPT !.state = [d.state EXCEPT ![t] = state],
                              !.holder = [d.holder EXCEPT ![t] = holder],
                              !.proof = proof, !.lease = rows, !.artifact = artifact]
           IN  e \in Database /\ Bookkeeping(d, e)
<1> DEFINE states == [d.state EXCEPT ![t] = state]
           holders == [d.holder EXCEPT ![t] = holder]
           e == [d EXCEPT !.state = states, !.holder = holders,
                          !.proof = proof, !.lease = rows, !.artifact = artifact]
<1>1. /\ states \in [Task -> TaskState]
      /\ \A u \in Task : states[u] = IF u = t THEN state ELSE d.state[u]
  BY DEF Database
<1>2. /\ holders \in [Task -> LeaseId \cup {NoLease}]
      /\ \A u \in Task : holders[u] = IF u = t THEN holder ELSE d.holder[u]
  BY DEF Database
<1> HIDE DEF states, holders
<1>3. e \in Database
  BY <1>1, <1>2 DEF Database
<1>4. /\ e.rows = d.rows /\ e.parent = d.parent /\ e.cube = d.cube /\ e.artifact = artifact
      /\ e.job = d.job /\ e.state = states /\ e.holder = holders /\ e.lease = rows
  BY DEF Database
<1> HIDE DEF e
<1>5. Bookkeeping(d, e)
  BY <1>1, <1>2, <1>4 DEF Bookkeeping, SameTree, Known, Active
<1> QED BY <1>3, <1>5 DEF e, states, holders

\* A lease that was ever issued belongs to a task that exists.
LEMMA IssuedKnown ==
    ASSUME IInv, NEW l \in LeaseId, db.lease[l].status # "NONE"
    PROVE  TaskOf(l) \in Task /\ TaskOf(l) <= db.rows
BY LeaseIds DEF IInv, Good, Known

\* Handing a task to a verifier is bookkeeping.
LEMMA VerifyingBookkeeping ==
    ASSUME IInv, NEW l \in LeaseId, db.lease[l].status # "NONE",
           NEW state \in {"VERIFYING_SAT", "VERIFYING_UNSAT"}
    PROVE  Verifying(l, state) \in Database /\ Bookkeeping(db, Verifying(l, state))
<1> DEFINE t == TaskOf(l)
           rows == CloseTaskLeases(db, l)
<1>1. t \in Task /\ t <= db.rows /\ db \in Database /\ Known(db)
  BY IssuedKnown DEF IInv, Good
<1>2. state \in TaskState /\ state \notin Certified \cup {"ABSENT"}
  BY DEF TaskState, Certified
<1>3. /\ rows \in [LeaseId -> LeaseRow]
      /\ \A k \in LeaseId : /\ db.lease[k].status = "NONE" => rows[k].status = "NONE"
                            /\ rows[k].status = "ACTIVE" => db.lease[k].status = "ACTIVE"
  BY <1>1, CloseTaskLeasesType
<1>4. Verifying(l, state) =
        [db EXCEPT !.state = [db.state EXCEPT ![t] = state],
                   !.holder = [db.holder EXCEPT ![t] = NoLease],
                   !.proof = db.proof, !.lease = rows, !.artifact = db.artifact]
  BY <1>1 DEF Verifying, Database
<1>5. db.proof \in [Task -> BOOLEAN] /\ db.artifact \in [LeaseId -> ProofStatus]
  BY <1>1 DEF Database
<1>6. \A k \in LeaseId : db.artifact[k] # "NONE" => TaskOf(k) <= db.rows
  BY <1>1 DEF Known
<1> DEFINE e == [db EXCEPT !.state = [db.state EXCEPT ![t] = state],
                           !.holder = [db.holder EXCEPT ![t] = NoLease],
                           !.proof = db.proof, !.lease = rows, !.artifact = db.artifact]
<1> HIDE DEF t, rows
<1>7. e \in Database /\ Bookkeeping(db, e)
  BY <1>1, <1>2, <1>3, <1>5, <1>6, MoveBookkeeping
<1> HIDE DEF e
<1> QED BY <1>4, <1>7 DEF e, t, rows

\* RESULT, SAT: the task waits for its model to be checked.
LEMMA SatResultSound == ASSUME IInv, NEW l \in LeaseId, SatResult(l) PROVE Sound
<1> DEFINE c == Verification(l, "SAT")
<1>1. db.lease[l].status # "NONE"
  BY DEF SatResult, MayReport
<1>2. Keeps(db, db')
  BY <1>1, VerifyingBookkeeping, BookkeepingKeeps DEF SatResult, IInv
<1>3. calls' = calls \cup {c} /\ sockets' = sockets
  BY DEF SatResult
<1>4. c \in Call /\ TaskOf(c.lease) <= db.rows
  BY <1>1, IssuedKnown DEF SatResult, MayReport, FromSession, Verification, Call
<1> QED BY <1>2, <1>3, <1>4, KeepsSound DEF IInv

\* RESULT with a proof: the task waits for the proof to be checked.
LEMMA UnsatProofSound == ASSUME IInv, NEW l \in LeaseId, UnsatProof(l) PROVE Sound
<1> DEFINE c == Verification(l, "PROOF")
           d == Verifying(l, "VERIFYING_UNSAT")
           rows == DropPermits(d.lease, {k \in LeaseId : TaskOf(k) = TaskOf(l)})
<1>1. db.lease[l].status # "NONE"
  BY DEF UnsatProof, MayReport
<1>2. d \in Database /\ Bookkeeping(db, d)
  BY <1>1, VerifyingBookkeeping
<1>3. db' = [d EXCEPT !.lease = rows] /\ calls' = calls \cup {c} /\ sockets' = sockets
  BY DEF UnsatProof
<1> HIDE DEF d
<1>4. rows \in [LeaseId -> LeaseRow] /\ \A k \in LeaseId : rows[k].status = d.lease[k].status
  BY <1>2, DropPermitsType DEF Database
<1>5. Known(d)
  BY <1>2, BookkeepingKnown DEF IInv, Good
<1> HIDE DEF rows
<1>6. db' \in Database /\ Bookkeeping(d, db')
  BY <1>2, <1>3, <1>4, <1>5, LeaseBookkeeping
<1>7. Keeps(db, db')
  BY <1>2, <1>6, BookkeepingTransitive, BookkeepingKeeps DEF IInv
<1>8. c \in Call /\ TaskOf(c.lease) <= db.rows
  BY <1>1, IssuedKnown DEF UnsatProof, MayReport, FromSession, Verification, Call
<1> QED BY <1>3, <1>7, <1>8, KeepsSound DEF IInv

\* RESULT without a proof: the task becomes proof work, or nothing happens.
LEMMA UnsatCandidateSound == ASSUME IInv, NEW l \in LeaseId, UnsatCandidate(l) PROVE Sound
<1> DEFINE t == TaskOf(l)
           closed == CloseTaskLeases(db, l)
           rows == DropPermits(closed, {l})
           proof == [db.proof EXCEPT ![t] = TRUE]
           promoted == [db EXCEPT !.state = [db.state EXCEPT ![t] = "READY"],
                                  !.holder = [db.holder EXCEPT ![t] = NoLease],
                                  !.proof = proof, !.lease = rows, !.artifact = db.artifact]
<1>1. db.lease[l].status # "NONE" /\ db \in Database /\ Known(db)
  BY DEF UnsatCandidate, MayReport, IInv, Good
<1>2. t \in Task /\ t <= db.rows /\ "CANDIDATE" \in MessageKind
  BY <1>1, IssuedKnown DEF MessageKind
<1>3. PICK d \in {promoted, db} :
        Respond(Recorded(d, l, "CANDIDATE")) /\ UNCHANGED <<sockets, calls>>
  BY <1>1 DEF UnsatCandidate, Database
<1>4. /\ closed \in [LeaseId -> LeaseRow]
      /\ \A k \in LeaseId : /\ db.lease[k].status = "NONE" => closed[k].status = "NONE"
                            /\ closed[k].status = "ACTIVE" => db.lease[k].status = "ACTIVE"
  BY <1>1, CloseTaskLeasesType
<1> HIDE DEF closed
<1>5. /\ rows \in [LeaseId -> LeaseRow]
      /\ \A k \in LeaseId : /\ db.lease[k].status = "NONE" => rows[k].status = "NONE"
                            /\ rows[k].status = "ACTIVE" => db.lease[k].status = "ACTIVE"
  BY <1>4, DropPermitsType
<1>6. proof \in [Task -> BOOLEAN] /\ db.artifact \in [LeaseId -> ProofStatus]
  BY <1>1 DEF Database
<1>7. "READY" \in TaskState /\ "READY" \notin Certified \cup {"ABSENT"}
  BY DEF TaskState, Certified
<1> HIDE DEF rows, proof, t
<1>8. promoted \in Database /\ Bookkeeping(db, promoted)
  BY <1>1, <1>2, <1>5, <1>6, <1>7, MoveBookkeeping DEF Known
<1> HIDE DEF promoted
<1>9. d \in Database /\ Bookkeeping(db, d)
  BY <1>1, <1>8, BookkeepingReflexive
<1>10. Recorded(d, l, "CANDIDATE") \in Database /\ Bookkeeping(d, Recorded(d, l, "CANDIDATE"))
  BY <1>1, <1>2, <1>9, BookkeepingKnown, RecordedBookkeeping
<1>11. Bookkeeping(db, Recorded(d, l, "CANDIDATE"))
  BY <1>9, <1>10, BookkeepingTransitive
<1> QED BY <1>3, <1>10, <1>11, RespondSound

\* A proof is stored for a lease that holds its task.
LEMMA StoreProofSound == ASSUME IInv, NEW l \in LeaseId, StoreProof(l) PROVE Sound
<1> DEFINE t == TaskOf(l)
           artifact == [db.artifact EXCEPT ![l] = "UPLOADED"]
<1>1. db.lease[l].status # "NONE" /\ db \in Database /\ Known(db) /\ db.state[t] = "LEASED"
  BY DEF StoreProof, Active, IInv, Good
<1>2. t \in Task /\ t <= db.rows
  BY <1>1, IssuedKnown
<1>3. artifact \in [LeaseId -> ProofStatus] /\ \A k \in LeaseId : artifact[k] # "NONE" => TaskOf(k) <= db.rows
  BY <1>1, <1>2 DEF Database, ProofStatus, Known
<1>3a. /\ db.state = [db.state EXCEPT ![t] = "LEASED"]
       /\ db.holder = [db.holder EXCEPT ![t] = db.holder[t]]
  BY <1>1, <1>2 DEF Database
<1>3b. db' = [db EXCEPT !.artifact = artifact]
  BY DEF StoreProof
<1>3c. db' = [db EXCEPT !.state = db.state, !.holder = db.holder,
                        !.proof = db.proof, !.lease = db.lease, !.artifact = artifact]
  BY <1>1, <1>3b DEF Database
<1>4. db' = [db EXCEPT !.state = [db.state EXCEPT ![t] = "LEASED"],
                       !.holder = [db.holder EXCEPT ![t] = db.holder[t]],
                       !.proof = db.proof, !.lease = db.lease, !.artifact = artifact]
  BY <1>3a, <1>3c
<1>5. /\ "LEASED" \in TaskState /\ "LEASED" \notin Certified \cup {"ABSENT"}
      /\ db.proof \in [Task -> BOOLEAN] /\ db.lease \in [LeaseId -> LeaseRow]
  BY <1>1 DEF TaskState, Certified, Database
<1> HIDE DEF artifact, t
<1>6. db' \in Database /\ Bookkeeping(db, db')
  BY <1>1, <1>2, <1>3, <1>4, <1>5, MoveBookkeeping
<1>7. Keeps(db, db') /\ UNCHANGED <<sockets, calls>>
  BY <1>6, BookkeepingKeeps DEF IInv, StoreProof
<1> QED BY <1>7, KeepsSound DEF IInv

\* The alarm's batch.
LEMMA AlarmSound == ASSUME IInv, Alarm PROVE Sound
<1>1. PICK batch \in SUBSET LeaseId : Respond(Requeue(db, batch, "EXPIRED"))
  BY DEF Alarm
<1>2. UNCHANGED <<sockets, calls>> /\ "EXPIRED" \in LeaseStatus
  BY DEF Alarm, LeaseStatus
<1>3. Requeue(db, batch, "EXPIRED") \in Database /\ Bookkeeping(db, Requeue(db, batch, "EXPIRED"))
  BY <1>2, RequeueBookkeeping, LeaseIds DEF IInv, Good
<1> QED BY <1>1, <1>2, <1>3, RespondSound

-----------------------------------------------------------------------------
(* Certificates climb the tree soundly.                                    *)

\* A non-empty set of tasks has a youngest one.
LEMMA YoungestTask ==
    ASSUME NEW S \in SUBSET Task, S # {}
    PROVE  \E m \in S : \A k \in S : k <= m
<1> DEFINE T == {MaxTasks - k : k \in S}
<1>1. \A k \in S : k \in Nat /\ k <= MaxTasks /\ MaxTasks \in Nat
  BY SizesAssumption DEF Task
<1>2. T \subseteq Nat /\ T # {}
  BY <1>1
<1>3. PICK x \in T : \A y \in T : <<y, x>> \notin OpToRel(<, Nat)
  BY <1>2, NatLessThanWellFounded, WFMin
<1>4. \A y \in T : ~(y < x)
  BY <1>2, <1>3 DEF OpToRel
<1>5. PICK m \in S : x = MaxTasks - m
  OBVIOUS
<1>6. \A k \in S : ~(MaxTasks - k < MaxTasks - m)
  BY <1>4, <1>5
<1>7. \A k \in S : k <= m
  BY <1>1, <1>6
<1> QED BY <1>7

\* A model of a cube is a model of one of the two branches of its split.
LEMMA BranchesCover ==
    ASSUME NEW cube, NEW x \in Literal, HasModel(cube)
    PROVE  HasModel(cube \cup {x}) \/ HasModel(cube \cup {-x})
<1>1. PICK m \in Models : Covers(cube, m)
  BY DEF HasModel
<1>2. x \in Int /\ -x \in Int /\ -(-x) = x /\ x # 0
  BY SizesAssumption DEF Literal
<1>3. Satisfies(m, x) \/ Satisfies(m, -x)
  <2>1. CASE x > 0
    <3>1. Satisfies(m, x) = m[x]
      BY <2>1 DEF Satisfies
    <3>2. ~(-x > 0)
      BY <1>2, <2>1
    <3>3. Satisfies(m, -x) = ~m[x]
      BY <1>2, <3>2 DEF Satisfies
    <3> QED BY <3>1, <3>3
  <2>2. CASE ~(x > 0)
    <3>1. Satisfies(m, x) = ~m[-x]
      BY <2>2 DEF Satisfies
    <3>2. -x > 0
      BY <1>2, <2>2
    <3>3. Satisfies(m, -x) = m[-x]
      BY <3>2 DEF Satisfies
    <3> QED BY <3>1, <3>3
  <2> QED BY <2>1, <2>2
<1>4. Covers(cube \cup {x}, m) \/ Covers(cube \cup {-x}, m)
  BY <1>1, <1>3 DEF Covers
<1> QED BY <1>4 DEF HasModel

\* No label of a climb certifies a cube with a model: the youngest task whose
\* label did would have a child whose certificate was false already.
LEMMA ClimbSound ==
    ASSUME NEW d \in Database, Tree(d), CertificatesTrue(d), NEW t \in Task, NEW s \in Climbs(d, t)
    PROVE  /\ DOMAIN s = {p \in Task : d.state[p] = "SPLIT"}
           /\ \A p \in DOMAIN s : /\ s[p] \in Certified \cup {"SPLIT"}
                                  /\ s[p] \in Certified => ~HasModel(d.cube[p])
<1> DEFINE False == {p \in DOMAIN s : s[p] \in Certified /\ HasModel(d.cube[p])}
<1>1. /\ DOMAIN s = {p \in Task : d.state[p] = "SPLIT"}
      /\ \A p \in DOMAIN s :
            /\ s[p] \in Certified \cup {"SPLIT"}
            /\ s[p] # "SPLIT" => ExactPair(d, p) /\ AllCertified(Labels(d, s, p))
  BY DEF Climbs
<1>2. SUFFICES ASSUME False # {} PROVE FALSE
  BY <1>1
<1>3. PICK p \in False : \A q \in False : q <= p
  BY <1>1, <1>2, YoungestTask
<1>4. p \in Task /\ ExactPair(d, p) /\ AllCertified(Labels(d, s, p)) /\ HasModel(d.cube[p])
  BY <1>1, <1>3 DEF Certified
<1>5. ASSUME NEW c \in Children(d, p) PROVE ~HasModel(d.cube[c])
  <2>1. c \in Task /\ p < c
    BY DEF Children, Tree
  <2>2. Relabelled(d, s, c) \in Certified
    BY <1>4 DEF AllCertified, Labels
  <2>3. CASE c \in DOMAIN s
    <3>1. s[c] \in Certified
      BY <2>2, <2>3 DEF Relabelled
    <3>2. ~(c <= p)
      BY <1>4, <2>1, SizesAssumption DEF Task
    <3> QED BY <1>3, <2>3, <3>1, <3>2
  <2>4. CASE c \notin DOMAIN s
    BY <2>1, <2>2, <2>4 DEF Relabelled, CertificatesTrue
  <2> QED BY <2>3, <2>4
<1>6. PICK a, b \in Task : \E x \in Literal :
        /\ Children(d, p) = {a, b}
        /\ d.cube[a] = d.cube[p] \cup {x}
        /\ d.cube[b] = d.cube[p] \cup {-x}
  BY <1>4 DEF ExactPair
<1>7. ~HasModel(d.cube[a]) /\ ~HasModel(d.cube[b])
  BY <1>5, <1>6
<1> QED BY <1>4, <1>6, <1>7, BranchesCover

-----------------------------------------------------------------------------
(* The steps that close the job.                                           *)

\* A job that shows the truth takes an allowed step.
LEMMA TruthStep ==
    ASSUME NEW d, NEW e, Good(d), d.job # "DELETED", Shown(e) = Abstract!Truth
    PROVE  VerdictStep(d, e)
<1>1. d.job \in JobState
  BY DEF Good, Database
<1>2. CASE d.job \in {"UPLOADING", "QUEUED", "RUNNING", "CANCELLED"}
  BY <1>2 DEF VerdictStep, Shown, Certified
<1>3. CASE d.job \in {"SAT_VERIFIED", "UNSAT_CERTIFIED", "UNSAT_OWNER_VERIFIED", "INVALID"}
  BY <1>3 DEF VerdictStep, Shown, Certified, Good, JobTrue, Abstract!Truth
<1> QED BY <1>1, <1>2, <1>3 DEF JobState

\* A database whose rows hold a task is not deleted.
LEMMA NotGone ==
    ASSUME NEW d, Good(d), NEW t \in Task, t <= d.rows PROVE d.job # "DELETED"
BY SizesAssumption DEF Good, Task

\* A certificate for a task without a model keeps the invariant.
LEMMA CertifyKeeps ==
    ASSUME NEW d, Good(d), NEW t \in Task, t <= d.rows, NEW state \in Certified \cup {d.state[t]},
           state \in Certified => ~HasModel(d.cube[t]),
           NEW artifact \in [LeaseId -> ProofStatus],
           \A l \in LeaseId : artifact[l] # "NONE" => TaskOf(l) <= d.rows
    PROVE  Keeps(d, [d EXCEPT !.artifact = artifact, !.state = [d.state EXCEPT ![t] = state]])
<1> DEFINE states == [d.state EXCEPT ![t] = state]
           e == [d EXCEPT !.artifact = artifact, !.state = states]
<1>1. d \in Database
  BY DEF Good
<1>2. /\ states \in [Task -> TaskState]
      /\ \A u \in Task : states[u] = IF u = t THEN state ELSE d.state[u]
  BY <1>1 DEF Database, TaskState, Certified
<1> HIDE DEF states
<1>3. e \in Database
  BY <1>1, <1>2 DEF Database
<1>4. /\ e.rows = d.rows /\ e.parent = d.parent /\ e.cube = d.cube /\ e.artifact = artifact
      /\ e.job = d.job /\ e.state = states /\ e.holder = d.holder /\ e.lease = d.lease
  BY <1>1 DEF Database
<1> HIDE DEF e
<1>5. Known(e) /\ Tree(e) /\ JobTrue(e.job)
  BY <1>2, <1>4 DEF Good, Known, Tree, JobTrue
<1>6. CertificatesTrue(e)
  BY <1>2, <1>4 DEF Good, CertificatesTrue
<1>7. Good(e)
  BY <1>3, <1>4, <1>5, <1>6 DEF Good, Closed, Active
<1>8. Shown(e) = Shown(d)
  BY <1>4 DEF Shown
<1> QED BY <1>4, <1>7, <1>8 DEF Keeps, e, states

\* Closing the leases of everybody leaves none active.
LEMMA AllClosed ==
    ASSUME NEW d \in Database, Known(d), NEW s \in LeaseStatus \ {"ACTIVE", "NONE"}
    PROVE  /\ CloseLeases(d, LeaseId, s) \in [LeaseId -> LeaseRow]
           /\ \A l \in LeaseId :
                 /\ CloseLeases(d, LeaseId, s)[l].status # "ACTIVE"
                 /\ CloseLeases(d, LeaseId, s)[l].status # "NONE" \/ d.artifact[l] # "NONE"
                    => TaskOf(l) <= d.rows
BY CloseLeasesType DEF Known

\* A database with the rows of d, a new verdict, no active lease, and tasks
\* moved within the tree.
WithVerdict(d, job, s, states, holders) ==
    [d EXCEPT !.job = job, !.state = states, !.holder = holders,
              !.lease = CloseLeases(d, LeaseId, s)]

\* Such a change keeps the invariant if the verdict is true.
LEMMA CloseJob ==
    ASSUME NEW d, Good(d), NEW job \in JobState \ {"DELETED"}, NEW s \in LeaseStatus \ {"ACTIVE", "NONE"},
           NEW states \in [Task -> TaskState], NEW holders \in [Task -> LeaseId \cup {NoLease}],
           \A u \in Task : \/ states[u] = d.state[u]
                           \/ states[u] \notin Certified \cup {"ABSENT"} /\ u <= d.rows,
           \A u \in Task : holders[u] \in {NoLease, d.holder[u]},
           JobTrue(job)
    PROVE  LET e == WithVerdict(d, job, s, states, holders)
           IN  Good(e) /\ e.rows = d.rows /\ e.job = job
<1> DEFINE e == WithVerdict(d, job, s, states, holders)
           rows == CloseLeases(d, LeaseId, s)
<1>1. d \in Database /\ Known(d)
  BY DEF Good
<1>2. /\ rows \in [LeaseId -> LeaseRow]
      /\ \A l \in LeaseId :
            /\ rows[l].status # "ACTIVE"
            /\ rows[l].status # "NONE" \/ d.artifact[l] # "NONE" => TaskOf(l) <= d.rows
  BY <1>1, AllClosed
<1> HIDE DEF rows
<1>3. e \in Database
  BY <1>1, <1>2 DEF Database, rows, WithVerdict
<1>4. /\ e.rows = d.rows /\ e.parent = d.parent /\ e.cube = d.cube /\ e.artifact = d.artifact
      /\ e.job = job /\ e.state = states /\ e.holder = holders /\ e.lease = rows
  BY <1>1 DEF Database, rows, WithVerdict
<1> HIDE DEF e
<1>5. SameTree(d, e) /\ JobTrue(e.job)
  BY <1>1, <1>2, <1>4 DEF SameTree, JobTrue, Known
<1>6. Good(e)
  BY <1>2, <1>3, <1>4, <1>5, ClosingKeeps DEF Active
<1> QED BY <1>4, <1>6 DEF e

\* closeUnsatJob, when the root is certified.
LEMMA CloseUnsatJobGood ==
    ASSUME NEW d, Good(d), FormulaParses, d.state[Root] \in Certified
    PROVE  Good(CloseUnsatJob(d)) /\ CloseUnsatJob(d).rows = d.rows
           /\ Shown(CloseUnsatJob(d)) = Abstract!Truth
<1> DEFINE open == {t \in Task : d.state[t] \in {"READY", "LEASED"}}
           states == [t \in Task |-> IF t \in open THEN "CANCELLED" ELSE d.state[t]]
           holders == [t \in Task |-> IF t \in open THEN NoLease ELSE d.holder[t]]
           job == d.state[Root]
<1>1. d \in Database /\ Known(d)
  BY DEF Good
<1>2. Models = {}
  <2>1. Root \in Task
    BY SizesAssumption DEF Root, Task
  <2>2. ~HasModel({})
    BY <2>1 DEF Good, Tree, CertificatesTrue
  <2> QED BY <2>2 DEF HasModel, Covers
<1>3. states \in [Task -> TaskState] /\ holders \in [Task -> LeaseId \cup {NoLease}]
  BY <1>1 DEF Database, TaskState
<1>4. \A u \in Task : \/ states[u] = d.state[u]
                      \/ states[u] \notin Certified \cup {"ABSENT"} /\ u <= d.rows
  BY <1>1 DEF Known, Certified
<1>5. \A u \in Task : holders[u] \in {NoLease, d.holder[u]}
  OBVIOUS
<1>6. job \in JobState \ {"DELETED"} /\ "SUPERSEDED" \in LeaseStatus \ {"ACTIVE", "NONE"}
      /\ job # "SAT_VERIFIED" /\ job # "INVALID"
  BY DEF JobState, LeaseStatus, Certified
<1>7. CloseUnsatJob(d) = WithVerdict(d, job, "SUPERSEDED", states, holders) /\ JobTrue(job)
  BY <1>2, <1>6 DEF CloseUnsatJob, WithVerdict, JobTrue
<1> HIDE DEF states, holders, job
<1>8. Good(CloseUnsatJob(d)) /\ CloseUnsatJob(d).rows = d.rows /\ CloseUnsatJob(d).job = job
  BY <1>3, <1>4, <1>5, <1>6, <1>7, CloseJob
<1>9. Shown(CloseUnsatJob(d)) = "UNSAT" /\ Abstract!Truth = "UNSAT"
  BY <1>2, <1>8 DEF Shown, Certified, job, Abstract!Truth
<1> QED BY <1>8, <1>9

\* propagateUnsatCoverage.
LEMMA PropagateGood ==
    ASSUME NEW d, Good(d), FormulaParses, NEW t \in Task, NEW e \in Propagate(d, t)
    PROVE  Good(e) /\ e.rows = d.rows /\ VerdictStep(d, e)
<1>1. d \in Database /\ Known(d) /\ Tree(d) /\ CertificatesTrue(d)
  BY DEF Good
<1>2. PICK s \in Climbs(d, t) :
        LET f == [d EXCEPT !.state = [c \in Task |-> Relabelled(d, s, c)]]
        IN  e = f \/ (f.state[Root] \in Certified /\ e = CloseUnsatJob(f))
  BY DEF Propagate
<1> DEFINE states == [c \in Task |-> Relabelled(d, s, c)]
           f == [d EXCEPT !.state = states]
<1>3. \A p \in Task : /\ p \in DOMAIN s <=> d.state[p] = "SPLIT"
                      /\ p \in DOMAIN s => /\ s[p] \in Certified \cup {"SPLIT"}
                                           /\ s[p] \in Certified => ~HasModel(d.cube[p])
  BY <1>1, ClimbSound
<1>4. /\ states \in [Task -> TaskState]
      /\ \A p \in Task : /\ states[p] \in Certified => ~HasModel(d.cube[p])
                         /\ states[p] # "ABSENT" => d.state[p] # "ABSENT"
  BY <1>1, <1>3 DEF Relabelled, CertificatesTrue, Database, TaskState, Certified
<1> HIDE DEF states
<1>5. f \in Database
  BY <1>1, <1>4 DEF Database
<1>6. /\ f.rows = d.rows /\ f.parent = d.parent /\ f.cube = d.cube /\ f.artifact = d.artifact
      /\ f.job = d.job /\ f.state = states /\ f.holder = d.holder /\ f.lease = d.lease
  BY <1>1 DEF Database
<1>7. e = f \/ (f.state[Root] \in Certified /\ e = CloseUnsatJob(f))
  BY <1>2 DEF states
<1> HIDE DEF f
<1>8. Good(f)
  <2>1. Known(f)
    BY <1>1, <1>4, <1>6 DEF Known
  <2>2. CertificatesTrue(f)
    BY <1>4, <1>6 DEF CertificatesTrue
  <2> QED BY <1>5, <1>6, <2>1, <2>2 DEF Good, Tree, JobTrue, Closed, Active
<1>9. CASE e = f
  BY <1>6, <1>8, <1>9 DEF VerdictStep, Shown
<1>10. CASE f.state[Root] \in Certified /\ e = CloseUnsatJob(f)
  <2>1. Good(e) /\ e.rows = d.rows /\ Shown(e) = Abstract!Truth
    BY <1>6, <1>8, <1>10, CloseUnsatJobGood
  <2>2. Root \in Task /\ f.state[Root] # "ABSENT"
    BY <1>10, SizesAssumption DEF Root, Task, Certified
  <2>3. d.job # "DELETED"
    BY <1>6, <1>8, <2>2, NotGone DEF Good, Known
  <2> QED BY <2>1, <2>3, TruthStep
<1> QED BY <1>7, <1>9, <1>10

-----------------------------------------------------------------------------
(* Verifiers and the owner answer.                                         *)

\* Quarantining a session and taking back its leases is bookkeeping.
LEMMA QuarantineBookkeeping ==
    ASSUME NEW d \in Database, Known(d), NEW s \in Session
    PROVE  Quarantine(d, s) \in Database /\ Bookkeeping(d, Quarantine(d, s))
<1> DEFINE mine == SessionLeases(d, s)
           back == {t \in Task : d.state[t] = "LEASED" /\ d.holder[t] \in mine}
           states == [t \in Task |-> IF t \in back THEN "READY" ELSE d.state[t]]
           holders == [t \in Task |-> IF t \in back THEN NoLease ELSE d.holder[t]]
           closed == CloseLeases(d, mine, "SUPERSEDED")
           rows == DropPermits(closed, mine)
           e == Quarantine(d, s)
<1>1. e = [d EXCEPT !.quarantined = d.quarantined \cup {s}, !.state = states,
                    !.holder = holders, !.lease = rows]
  BY DEF Quarantine
<1>2. /\ closed \in [LeaseId -> LeaseRow]
      /\ \A l \in LeaseId : /\ d.lease[l].status = "NONE" => closed[l].status = "NONE"
                            /\ closed[l].status = "ACTIVE" => d.lease[l].status = "ACTIVE"
  <2>1. "SUPERSEDED" \in LeaseStatus
    BY DEF LeaseStatus
  <2> QED BY <2>1, CloseLeasesType
<1> HIDE DEF closed
<1>3. /\ rows \in [LeaseId -> LeaseRow]
      /\ \A l \in LeaseId : /\ d.lease[l].status = "NONE" => rows[l].status = "NONE"
                            /\ rows[l].status = "ACTIVE" => d.lease[l].status = "ACTIVE"
  BY <1>2, DropPermitsType
<1>4. /\ states \in [Task -> TaskState]
      /\ \A t \in Task : \/ states[t] = d.state[t]
                         \/ states[t] \notin Certified \cup {"ABSENT"} /\ t <= d.rows
  BY DEF Database, TaskState, Known, Certified
<1>5. /\ holders \in [Task -> LeaseId \cup {NoLease}]
      /\ \A t \in Task : holders[t] # NoLease => t <= d.rows
  BY DEF Database, Known
<1> HIDE DEF rows, states, holders, e
<1>6. e \in Database
  BY <1>1, <1>3, <1>4, <1>5 DEF Database
<1>7. /\ e.rows = d.rows /\ e.parent = d.parent /\ e.cube = d.cube /\ e.artifact = d.artifact
      /\ e.job = d.job /\ e.state = states /\ e.holder = holders /\ e.lease = rows
  BY <1>1 DEF Database
<1>8. Bookkeeping(d, e)
  BY <1>3, <1>4, <1>5, <1>7 DEF Bookkeeping, SameTree, Known, Active
<1> QED BY <1>6, <1>8 DEF e

\* What a handler leaves behind once its verifier answered: the invariant
\* holds and the verdict moved as JobVerdict allows.
Fair(d, e) == Good(e) /\ e.rows = d.rows /\ VerdictStep(d, e)

\* Bookkeeping, and every step that keeps the verdict, is fair.
LEMMA KeepsFair ==
    ASSUME NEW d, NEW e, NEW f, Fair(d, e), Keeps(e, f) PROVE Fair(d, f)
BY DEF Fair, Keeps, VerdictStep

\* Bookkeeping from a good database is fair.
LEMMA BookkeepingFair ==
    ASSUME NEW d, Good(d), NEW e \in Database, Bookkeeping(d, e) PROVE Fair(d, e)
BY BookkeepingKeeps DEF Fair, Keeps, VerdictStep

\* A verified model ends the job with a true verdict.
LEMMA SatVerifiedFair ==
    ASSUME NEW d, Good(d), NEW t \in Task, t <= d.rows, FormulaParses, HasModel(d.cube[t])
    PROVE  Fair(d, SatVerified(d, t))
<1> DEFINE states == [u \in Task |-> IF u \in {t, Root} THEN "SAT_VERIFIED"
                                     ELSE IF d.state[u] \in {"ABSENT", "SAT_VERIFIED"} THEN d.state[u]
                                     ELSE "CANCELLED"]
           holders == [u \in Task |-> NoLease]
           e == SatVerified(d, t)
<1>1. d \in Database /\ Known(d) /\ Models # {}
  BY DEF Good, HasModel
<1>2. t \in Nat /\ Root <= t
  BY DEF Task, Root
<1>3. states \in [Task -> TaskState] /\ holders \in [Task -> LeaseId \cup {NoLease}]
  BY <1>1 DEF Database, TaskState
<1>4. \A u \in Task : \/ states[u] = d.state[u]
                      \/ states[u] \notin Certified \cup {"ABSENT"} /\ u <= d.rows
  <2>1. \A u \in {t, Root} : u <= d.rows
    BY <1>1, <1>2 DEF Database, Root
  <2> QED BY <1>1, <2>1 DEF Known, Certified
<1>5. \A u \in Task : holders[u] \in {NoLease, d.holder[u]}
  OBVIOUS
<1>6. /\ "SAT_VERIFIED" \in JobState \ {"DELETED"} /\ "SUPERSEDED" \in LeaseStatus \ {"ACTIVE", "NONE"}
      /\ JobTrue("SAT_VERIFIED")
  BY <1>1 DEF JobState, LeaseStatus, JobTrue, Certified
<1>7. e = WithVerdict(d, "SAT_VERIFIED", "SUPERSEDED", states, holders)
  BY DEF SatVerified, WithVerdict
<1> HIDE DEF states, holders, e
<1>8. Good(e) /\ e.rows = d.rows /\ e.job = "SAT_VERIFIED"
  BY <1>3, <1>4, <1>5, <1>6, <1>7, CloseJob
<1>9. Shown(e) = "SAT" /\ Abstract!Truth = "SAT"
  BY <1>1, <1>8 DEF Shown, Certified, Abstract!Truth
<1>10. VerdictStep(d, e)
  BY <1>9, NotGone, TruthStep
<1> QED BY <1>8, <1>10 DEF Fair, e

\* So does a formula that turns out not to be one.
LEMMA InvalidFormulaFair ==
    ASSUME NEW d, Good(d), NEW t \in Task, t <= d.rows, ~FormulaParses
    PROVE  Fair(d, InvalidFormula(d))
<1> DEFINE open == {u \in Existing(d) : d.state[u] # "CANCELLED"}
           states == [u \in Task |-> IF u \in open THEN "UNKNOWN" ELSE d.state[u]]
           holders == [u \in Task |-> IF u \in open THEN NoLease ELSE d.holder[u]]
           e == InvalidFormula(d)
<1>1. d \in Database /\ Known(d)
  BY DEF Good
<1>2. \A u \in open : u \in Task /\ u <= d.rows
  BY <1>1 DEF Existing, Known
<1>3. states \in [Task -> TaskState] /\ holders \in [Task -> LeaseId \cup {NoLease}]
  BY <1>1 DEF Database, TaskState
<1>4. \A u \in Task : \/ states[u] = d.state[u]
                      \/ states[u] \notin Certified \cup {"ABSENT"} /\ u <= d.rows
  BY <1>2 DEF Certified
<1>5. \A u \in Task : holders[u] \in {NoLease, d.holder[u]}
  OBVIOUS
<1>6. /\ "INVALID" \in JobState \ {"DELETED"} /\ "SUPERSEDED" \in LeaseStatus \ {"ACTIVE", "NONE"}
      /\ JobTrue("INVALID")
  BY DEF JobState, LeaseStatus, JobTrue, Certified
<1>7. e = WithVerdict(d, "INVALID", "SUPERSEDED", states, holders)
  BY DEF InvalidFormula, WithVerdict
<1> HIDE DEF states, holders, e
<1>8. Good(e) /\ e.rows = d.rows /\ e.job = "INVALID"
  BY <1>3, <1>4, <1>5, <1>6, <1>7, CloseJob
<1>9. Shown(e) = "INVALID" /\ Abstract!Truth = "INVALID"
  BY <1>8 DEF Shown, Certified, Abstract!Truth
<1>10. VerdictStep(d, e)
  BY <1>9, NotGone, TruthStep
<1> QED BY <1>8, <1>10 DEF Fair, e

\* The reply and the dispatch that follow.
LEMMA AnsweredSound ==
    ASSUME IInv, NEW l \in LeaseId, NEW kind \in MessageKind, NEW after,
           \A d \in after : Fair(db, d),
           Answered(l, kind, after), calls' \subseteq calls, sockets' = sockets
    PROVE  Sound
<1>1. PICK d \in after : \/ db' \in DispatchAll(Recorded(d, l, kind), sockets)
                         \/ db' = Recorded(d, l, kind)
  BY DEF Answered
<1>2. Fair(db, d) /\ d \in Database /\ Known(d)
  BY DEF Fair, Good
<1>3. Fair(db, Recorded(d, l, kind))
  BY <1>2, RecordedBookkeeping, BookkeepingKeeps, KeepsFair DEF Fair
<1>4. Fair(db, db')
  BY <1>1, <1>3, DispatchAllKeeps, KeepsFair DEF Fair
<1> QED BY <1>4 DEF Fair, Sound, IInv

\* A suspended verification belongs to a task that exists and to a session.
LEMMA VerificationKnown ==
    ASSUME IInv, NEW l \in LeaseId, NEW kind \in {"SAT", "PROOF"}, Verification(l, kind) \in calls
    PROVE  TaskOf(l) \in Task /\ TaskOf(l) <= db.rows /\ db.lease[l].session \in Session
<1>1. Verification(l, kind) \in Call
  BY DEF IInv
<1>2. Verification(l, kind) = [kind |-> kind, lease |-> l, session |-> db.lease[l].session]
  BY DEF Verification
<1>3. db.lease[l].session \in Session
  BY <1>1, <1>2 DEF Call
<1>4. TaskOf(l) <= db.rows
  BY <1>2 DEF IInv
<1> QED BY <1>3, <1>4, LeaseIds

\* A task goes back to the queue.
LEMMA ReadyFair ==
    ASSUME NEW d, Good(d), NEW t \in Task, t <= d.rows, NEW holder \in {NoLease, d.holder[t]},
           NEW proof \in [Task -> BOOLEAN], NEW artifact \in [LeaseId -> ProofStatus],
           \A l \in LeaseId : artifact[l] # "NONE" => TaskOf(l) <= d.rows
    PROVE  LET e == [d EXCEPT !.state = [d.state EXCEPT ![t] = "READY"],
                              !.holder = [d.holder EXCEPT ![t] = holder],
                              !.proof = proof, !.lease = d.lease, !.artifact = artifact]
           IN  Bookkeeping(d, e) /\ e \in Database /\ Known(e)
<1>1. /\ "READY" \in TaskState /\ "READY" \notin Certified \cup {"ABSENT"}
      /\ d.lease \in [LeaseId -> LeaseRow] /\ d \in Database /\ Known(d)
  BY DEF TaskState, Certified, Good, Database
<1> DEFINE e == [d EXCEPT !.state = [d.state EXCEPT ![t] = "READY"],
                          !.holder = [d.holder EXCEPT ![t] = holder],
                          !.proof = proof, !.lease = d.lease, !.artifact = artifact]
<1>2. e \in Database /\ Bookkeeping(d, e)
  BY <1>1, MoveBookkeeping
<1> HIDE DEF e
<1>3. Known(e)
  BY <1>1, <1>2, BookkeepingKnown
<1> QED BY <1>2, <1>3 DEF e

\* What follows the answer about a model.
LEMMA AfterSatFair ==
    ASSUME IInv, NEW l \in LeaseId, Verification(l, "SAT") \in calls,
           NEW answer \in SatAnswers(db.cube[TaskOf(l)])
    PROVE  Fair(db, AfterSat(l, answer))
<1> DEFINE t == TaskOf(l)
           ready == [db EXCEPT !.state = [db.state EXCEPT ![t] = "READY"],
                               !.holder = [db.holder EXCEPT ![t] = NoLease],
                               !.proof = db.proof, !.lease = db.lease, !.artifact = db.artifact]
           requeued == IF db.state[t] = "VERIFYING_SAT" THEN ready ELSE db
           s == db.lease[l].session
<1>1. t \in Task /\ t <= db.rows /\ s \in Session
  BY VerificationKnown
<1>2. Good(db) /\ db \in Database /\ Known(db)
  BY DEF IInv, Good
<1>3. /\ db.proof \in [Task -> BOOLEAN] /\ db.artifact \in [LeaseId -> ProofStatus]
      /\ \A k \in LeaseId : db.artifact[k] # "NONE" => TaskOf(k) <= db.rows
  BY <1>2 DEF Database, Known
<1>4. [db EXCEPT !.state[t] = "READY", !.holder[t] = NoLease] = ready
  BY <1>2 DEF Database
<1>5. /\ answer = "VALID_SAT" => AfterSat(l, answer) = SatVerified(db, t)
      /\ answer = "INVALID_FORMULA" => AfterSat(l, answer) = InvalidFormula(db)
      /\ answer = "INVALID_MODEL" => AfterSat(l, answer) = Quarantine(requeued, s)
      /\ answer = "VERIFICATION_TIMEOUT" => AfterSat(l, answer) = requeued
  BY <1>4 DEF AfterSat
<1>6. /\ answer \in {"VALID_SAT", "INVALID_FORMULA", "INVALID_MODEL", "VERIFICATION_TIMEOUT"}
      /\ answer = "VALID_SAT" => FormulaParses /\ HasModel(db.cube[t])
      /\ answer = "INVALID_FORMULA" => ~FormulaParses
  BY DEF SatAnswers
<1> HIDE DEF t, s
<1>7. Bookkeeping(db, ready) /\ ready \in Database /\ Known(ready)
  BY <1>1, <1>2, <1>3, ReadyFair
<1> HIDE DEF ready
<1>8. Bookkeeping(db, requeued) /\ requeued \in Database /\ Known(requeued)
  BY <1>2, <1>7, BookkeepingReflexive
<1> HIDE DEF requeued
<1>9. Quarantine(requeued, s) \in Database /\ Bookkeeping(db, Quarantine(requeued, s))
  BY <1>1, <1>8, QuarantineBookkeeping, BookkeepingTransitive
<1>10. CASE answer = "VALID_SAT"
  BY <1>1, <1>2, <1>5, <1>6, <1>10, SatVerifiedFair
<1>11. CASE answer = "INVALID_FORMULA"
  BY <1>1, <1>2, <1>5, <1>6, <1>11, InvalidFormulaFair
<1>12. CASE answer = "INVALID_MODEL"
  BY <1>2, <1>5, <1>9, <1>12, BookkeepingFair
<1>13. CASE answer = "VERIFICATION_TIMEOUT"
  BY <1>2, <1>5, <1>8, <1>13, BookkeepingFair
<1> QED BY <1>6, <1>10, <1>11, <1>12, <1>13

\* The rest of a SAT result's handler keeps the invariant and the promise.
LEMMA SatAnsweredSound ==
    ASSUME IInv, NEW l \in LeaseId, NEW answer, SatAnswered(l, answer) PROVE Sound
<1>1. /\ Verification(l, "SAT") \in calls
      /\ answer \in SatAnswers(db.cube[TaskOf(l)])
      /\ Answered(l, "SAT", {AfterSat(l, answer)})
      /\ calls' \subseteq calls /\ sockets' = sockets
  BY DEF SatAnswered
<1>2. \A d \in {AfterSat(l, answer)} : Fair(db, d)
  BY <1>1, AfterSatFair
<1>3. "SAT" \in MessageKind
  BY DEF MessageKind
<1> QED BY <1>1, <1>2, <1>3, AnsweredSound

\* A certificate for one task, and what climbs from it.
LEMMA CertifiedFair ==
    ASSUME NEW d, Good(d), FormulaParses, NEW t \in Task, t <= d.rows,
           NEW state \in Certified \cup {d.state[t]}, state \in Certified => ~HasModel(d.cube[t]),
           NEW artifact \in [LeaseId -> ProofStatus],
           \A l \in LeaseId : artifact[l] # "NONE" => TaskOf(l) <= d.rows,
           NEW e \in Propagate([d EXCEPT !.artifact = artifact,
                                         !.state = [d.state EXCEPT ![t] = state]], t)
    PROVE  Fair(d, e)
<1> DEFINE f == [d EXCEPT !.artifact = artifact, !.state = [d.state EXCEPT ![t] = state]]
<1>1. Keeps(d, f)
  BY CertifyKeeps
<1> HIDE DEF f
<1>2. e \in Propagate(f, t)
  BY DEF f
<1>3. Good(e) /\ e.rows = f.rows /\ VerdictStep(f, e)
  BY <1>1, <1>2, PropagateGood DEF Keeps
<1> QED BY <1>1, <1>3 DEF Keeps, Fair, VerdictStep

\* What follows the answer about a proof.
LEMMA AfterProofFair ==
    ASSUME IInv, NEW l \in LeaseId, Verification(l, "PROOF") \in calls,
           NEW answer \in UnsatAnswers(db.cube[TaskOf(l)]), NEW e \in AfterProof(l, answer)
    PROVE  Fair(db, e)
<1> DEFINE t == TaskOf(l)
           s == db.lease[l].session
           proof == [db.proof EXCEPT ![t] = TRUE]
           artifact(status) == [db.artifact EXCEPT ![l] = status]
           asked == [db EXCEPT !.artifact = artifact("OWNER_CHECK_REQUIRED"),
                               !.state = [db.state EXCEPT ![t] = db.state[t]]]
           certified == [db EXCEPT !.artifact = artifact("SERVER_CERTIFIED"),
                                   !.state = [db.state EXCEPT ![t] = "UNSAT_CERTIFIED"]]
           ready == [db EXCEPT !.state = [db.state EXCEPT ![t] = "READY"],
                               !.holder = [db.holder EXCEPT ![t] = db.holder[t]],
                               !.proof = proof, !.lease = db.lease, !.artifact = db.artifact]
           refused == [db EXCEPT !.state = [db.state EXCEPT ![t] = "READY"],
                                 !.holder = [db.holder EXCEPT ![t] = NoLease],
                                 !.proof = proof, !.lease = db.lease, !.artifact = artifact("INVALID")]
<1>1. t \in Task /\ t <= db.rows /\ s \in Session
  BY VerificationKnown
<1>2. Good(db) /\ db \in Database /\ Known(db)
  BY DEF IInv, Good
<1>3. /\ proof \in [Task -> BOOLEAN] /\ db.artifact \in [LeaseId -> ProofStatus]
      /\ \A k \in LeaseId : db.artifact[k] # "NONE" => TaskOf(k) <= db.rows
  BY <1>2 DEF Database, Known
<1>4. ASSUME NEW status \in {"OWNER_CHECK_REQUIRED", "SERVER_CERTIFIED", "INVALID"}
      PROVE  /\ artifact(status) \in [LeaseId -> ProofStatus]
             /\ \A k \in LeaseId : artifact(status)[k] # "NONE" => TaskOf(k) <= db.rows
  BY <1>1, <1>3 DEF ProofStatus
<1>5. /\ db.state = [db.state EXCEPT ![t] = db.state[t]]
      /\ db.holder = [db.holder EXCEPT ![t] = db.holder[t]]
  BY <1>1, <1>2 DEF Database
<1>6. /\ answer = "VALID_UNSAT" => e \in Propagate(certified, t)
      /\ answer = "OWNER_CHECK_REQUIRED" => e = [db EXCEPT !.artifact = artifact("OWNER_CHECK_REQUIRED")]
      /\ answer = "INVALID_FORMULA" => e = InvalidFormula(db)
      /\ answer = "INVALID_PROOF" =>
            e = Quarantine([db EXCEPT !.state = [db.state EXCEPT ![t] = "READY"], !.proof = proof,
                                      !.artifact = artifact("INVALID"),
                                      !.holder = [db.holder EXCEPT ![t] = NoLease]], s)
      /\ answer = "VERIFICATION_TIMEOUT" =>
            e = [db EXCEPT !.state = [db.state EXCEPT ![t] = "READY"], !.proof = proof]
  BY <1>2 DEF AfterProof, Database
<1>7. /\ [db EXCEPT !.artifact = artifact("OWNER_CHECK_REQUIRED")] = asked
      /\ [db EXCEPT !.state = [db.state EXCEPT ![t] = "READY"], !.proof = proof] = ready
      /\ [db EXCEPT !.state = [db.state EXCEPT ![t] = "READY"], !.proof = proof,
                    !.artifact = artifact("INVALID"),
                    !.holder = [db.holder EXCEPT ![t] = NoLease]] = refused
  BY <1>2, <1>5 DEF Database
<1>8. /\ answer \in {"VALID_UNSAT", "OWNER_CHECK_REQUIRED", "INVALID_FORMULA",
                     "INVALID_PROOF", "VERIFICATION_TIMEOUT"}
      /\ answer = "VALID_UNSAT" => FormulaParses /\ ~HasModel(db.cube[t])
      /\ answer = "INVALID_FORMULA" => ~FormulaParses
  BY DEF UnsatAnswers
<1> HIDE DEF t, s, proof, artifact
<1>9. /\ Bookkeeping(db, ready) /\ ready \in Database
      /\ Bookkeeping(db, refused) /\ refused \in Database /\ Known(refused)
  BY <1>1, <1>2, <1>3, <1>4, ReadyFair
<1>10. Keeps(db, asked)
  <2>1. db.state[t] \in Certified => ~HasModel(db.cube[t])
    BY <1>1, <1>2 DEF Good, CertificatesTrue
  <2> QED BY <1>1, <1>2, <1>4, <2>1, CertifyKeeps
<1>11. CASE answer = "VALID_UNSAT"
  <2>1. "UNSAT_CERTIFIED" \in Certified
    BY DEF Certified
  <2> QED BY <1>1, <1>2, <1>4, <1>6, <1>8, <1>11, <2>1, CertifiedFair
<1>12. CASE answer = "OWNER_CHECK_REQUIRED"
  BY <1>6, <1>7, <1>10, <1>12 DEF Fair, Keeps, VerdictStep
<1>13. CASE answer = "INVALID_FORMULA"
  BY <1>1, <1>2, <1>6, <1>8, <1>13, InvalidFormulaFair
<1>14. CASE answer = "INVALID_PROOF"
  <2> HIDE DEF refused
  <2>1. e = Quarantine(refused, s)
    BY <1>6, <1>7, <1>14
  <2>2. e \in Database /\ Bookkeeping(db, e)
    BY <1>1, <1>9, <2>1, QuarantineBookkeeping, BookkeepingTransitive
  <2> QED BY <1>2, <2>2, BookkeepingFair
<1>15. CASE answer = "VERIFICATION_TIMEOUT"
  BY <1>2, <1>6, <1>7, <1>9, <1>15, BookkeepingFair
<1> QED BY <1>8, <1>11, <1>12, <1>13, <1>14, <1>15

\* So does the rest of a proof's handler.
LEMMA ProofAnsweredSound ==
    ASSUME IInv, NEW l \in LeaseId, NEW answer, ProofAnswered(l, answer) PROVE Sound
<1>1. /\ Verification(l, "PROOF") \in calls
      /\ answer \in UnsatAnswers(db.cube[TaskOf(l)])
      /\ Answered(l, "PROOF", AfterProof(l, answer))
      /\ calls' \subseteq calls /\ sockets' = sockets
  BY DEF ProofAnswered
<1>2. \A d \in AfterProof(l, answer) : Fair(db, d)
  BY <1>1, AfterProofFair
<1>3. "PROOF" \in MessageKind
  BY DEF MessageKind
<1> QED BY <1>1, <1>2, <1>3, AnsweredSound

\* The owner confirms a proof.
LEMMA ConfirmOwnerProofSound == ASSUME IInv, NEW l \in LeaseId, ConfirmOwnerProof(l) PROVE Sound
<1> DEFINE t == TaskOf(l)
           artifact == [db.artifact EXCEPT ![l] = "OWNER_VERIFIED"]
           state == IF db.state[t] = "VERIFYING_UNSAT" THEN "UNSAT_OWNER_VERIFIED" ELSE db.state[t]
           f == [db EXCEPT !.artifact = artifact, !.state = [db.state EXCEPT ![t] = state]]
<1>1. Good(db) /\ db \in Database /\ Known(db) /\ t \in Task
  BY LeaseIds DEF IInv, Good
<1>2. /\ db.artifact[l] # "NONE" /\ FormulaParses /\ ~HasModel(db.cube[t])
      /\ UNCHANGED <<sockets, calls>> /\ db' \in Propagate(f, t)
  BY DEF ConfirmOwnerProof
<1>3. t <= db.rows
  BY <1>1, <1>2 DEF Known
<1>4. /\ artifact \in [LeaseId -> ProofStatus]
      /\ \A k \in LeaseId : artifact[k] # "NONE" => TaskOf(k) <= db.rows
  BY <1>1, <1>3 DEF Database, ProofStatus, Known
<1>5. state \in Certified \cup {db.state[t]}
  BY DEF Certified
<1> HIDE DEF t, artifact, state
<1>6. Fair(db, db')
  BY <1>1, <1>2, <1>3, <1>4, <1>5, CertifiedFair
<1> QED BY <1>2, <1>6 DEF Fair, Sound, IInv

-----------------------------------------------------------------------------
(* Splits, and the steps of the job's life.                                *)

\* The database once the two children of a split have their rows.
Branched(l, x) ==
    LET t == TaskOf(l)
        pos == db.rows + 1
        neg == db.rows + 2
    IN  [db EXCEPT
            !.rows = neg,
            !.state = [@ EXCEPT ![t] = "SPLIT", ![pos] = "READY", ![neg] = "READY"],
            !.parent = [@ EXCEPT ![pos] = t, ![neg] = t],
            !.cube = [@ EXCEPT ![pos] = db.cube[t] \cup {x}, ![neg] = NegativeBranch(db.cube[t], x)],
            !.holder[t] = NoLease,
            !.lease[l] = [@ EXCEPT !.status = "SPLIT", !.permit = NoSlot]]

\* What it has in common with the database before, and what is new.
BranchedFrom(d, l, x) ==
    LET t == TaskOf(l)
        pos == db.rows + 1
        neg == db.rows + 2
    IN  /\ t \in Task /\ pos \in Task /\ neg \in Task /\ pos # neg /\ t # pos /\ t # neg
        /\ t <= db.rows /\ ~(pos <= db.rows) /\ ~(neg <= db.rows) /\ d.rows = neg
        /\ d.job = db.job /\ d.artifact = db.artifact /\ d.count = db.count
        /\ d.proof = db.proof /\ d.processed = db.processed
        /\ \A u \in Task :
              /\ d.state[u] = IF u \in {pos, neg} THEN "READY"
                             ELSE IF u = t THEN "SPLIT" ELSE db.state[u]
              /\ d.parent[u] = IF u \in {pos, neg} THEN t ELSE db.parent[u]
              /\ d.cube[u] = IF u = pos THEN db.cube[t] \cup {x}
                             ELSE IF u = neg THEN NegativeBranch(db.cube[t], x) ELSE db.cube[u]
              /\ d.holder[u] = IF u = t THEN NoLease ELSE db.holder[u]
        /\ \A k \in LeaseId :
              /\ d.lease[k].status = IF k = l THEN "SPLIT" ELSE db.lease[k].status
              /\ d.lease[k].session = db.lease[k].session

\* It has two younger children whose cubes are in nobody's certificate.
LEMMA BranchedGood ==
    ASSUME IInv, NEW l \in LeaseId, NEW x \in Literal, Split(l, x)
    PROVE  LET d == Branched(l, x)
           IN  BranchedFrom(d, l, x) /\ Good(d) /\ d.rows = db.rows + 2 /\ Shown(d) = Shown(db)
<1> DEFINE t == TaskOf(l)
           pos == db.rows + 1
           neg == db.rows + 2
           row == [db.lease[l] EXCEPT !.status = "SPLIT", !.permit = NoSlot]
           cubeNeg == NegativeBranch(db.cube[t], x)
           d == Branched(l, x)
<1>1. Good(db) /\ db \in Database /\ Known(db) /\ t \in Task
  BY LeaseIds DEF IInv, Good
<1>2. db.state[t] = "LEASED" /\ Active(db, l)
  BY DEF Split, MaySplit, Owns, Current
<1>3. db.rows <= MaxTasks - 2
  BY DEF Split, RoomForPair
<1>4. t <= db.rows
  BY <1>1, <1>2 DEF Known
<1>5. /\ t \in Nat /\ 1 <= t /\ db.rows \in Nat /\ MaxTasks \in Nat
      /\ pos \in Task /\ neg \in Task /\ neg \in 0..MaxTasks
      /\ t < pos /\ t < neg /\ Root < pos /\ Root < neg /\ pos # neg
      /\ ~(pos <= db.rows) /\ ~(neg <= db.rows)
  <2>1. db.rows \in 0..MaxTasks
    BY <1>1 DEF Database
  <2>2. t \in 1..MaxTasks /\ MaxTasks \in Nat
    BY <1>1, SizesAssumption DEF Task
  <2> QED BY <1>3, <1>4, <2>1, <2>2 DEF Task, Root
<1>6. row \in LeaseRow /\ row.status = "SPLIT" /\ row.session = db.lease[l].session
  <2>1. db.lease[l] \in LeaseRow
    BY <1>1 DEF Database
  <2> QED BY <2>1 DEF LeaseRow, LeaseStatus
<1>7. db.cube[t] \cup {x} \subseteq Literal /\ cubeNeg \subseteq Literal
  <2>1. -x \in Literal
    BY FormulaAssumption DEF Literal
  <2>2. db.cube[t] \subseteq Literal
    BY <1>1 DEF Database
  <2> QED BY <2>1, <2>2 DEF NegativeBranch
<1> HIDE DEF t, cubeNeg, row
<1>8. /\ d.rows = neg /\ d.job = db.job /\ d.artifact = db.artifact
      /\ d.count = db.count /\ d.proof = db.proof /\ d.processed = db.processed
      /\ d.state \in [Task -> TaskState] /\ d.parent \in [Task -> Task \cup {NoTask}]
      /\ d.cube \in [Task -> SUBSET Literal]
      /\ d.holder \in [Task -> LeaseId \cup {NoLease}] /\ d.lease \in [LeaseId -> LeaseRow]
      /\ \A u \in Task :
            /\ d.state[u] = IF u \in {pos, neg} THEN "READY" ELSE IF u = t THEN "SPLIT" ELSE db.state[u]
            /\ d.parent[u] = IF u \in {pos, neg} THEN t ELSE db.parent[u]
            /\ d.cube[u] = IF u = pos THEN db.cube[t] \cup {x} ELSE IF u = neg THEN cubeNeg ELSE db.cube[u]
            /\ d.holder[u] = IF u = t THEN NoLease ELSE db.holder[u]
      /\ \A k \in LeaseId : d.lease[k] = IF k = l THEN row ELSE db.lease[k]
  <2>1. /\ d.rows = neg /\ d.job = db.job /\ d.artifact = db.artifact
        /\ d.count = db.count /\ d.proof = db.proof /\ d.processed = db.processed
    BY <1>1 DEF Database, Branched
  <2>2. d.state = [db.state EXCEPT ![t] = "SPLIT", ![pos] = "READY", ![neg] = "READY"]
    BY <1>1 DEF Database, Branched, t, pos, neg
  <2>3. d.parent = [db.parent EXCEPT ![pos] = t, ![neg] = t]
    BY <1>1 DEF Database, Branched, t, pos, neg
  <2>4. d.cube = [db.cube EXCEPT ![pos] = db.cube[t] \cup {x}, ![neg] = cubeNeg]
    BY <1>1 DEF Database, Branched, t, pos, neg, cubeNeg
  <2>5. d.holder = [db.holder EXCEPT ![t] = NoLease]
    BY <1>1 DEF Database, Branched, t, pos, neg
  <2>6. d.lease = [db.lease EXCEPT ![l] = row]
    BY <1>1 DEF Database, Branched, row
  <2> HIDE DEF d
  <2>7. /\ d.state \in [Task -> TaskState]
        /\ \A u \in Task : d.state[u] = IF u \in {pos, neg} THEN "READY"
                                        ELSE IF u = t THEN "SPLIT" ELSE db.state[u]
    BY <1>1, <1>5, <2>2 DEF Database, TaskState
  <2>8. /\ d.parent \in [Task -> Task \cup {NoTask}]
        /\ \A u \in Task : d.parent[u] = IF u \in {pos, neg} THEN t ELSE db.parent[u]
    BY <1>1, <1>5, <2>3 DEF Database
  <2>9. /\ d.cube \in [Task -> SUBSET Literal]
        /\ \A u \in Task : d.cube[u] = IF u = pos THEN db.cube[t] \cup {x}
                                        ELSE IF u = neg THEN cubeNeg ELSE db.cube[u]
    <3>1. db.cube \in [Task -> SUBSET Literal]
      BY <1>1 DEF Database
    <3>2. db.cube[t] \cup {x} \in SUBSET Literal /\ cubeNeg \in SUBSET Literal
      BY <1>7
    <3> HIDE DEF pos, neg
    <3> QED BY <1>5, <2>4, <3>1, <3>2
  <2>10. /\ d.holder \in [Task -> LeaseId \cup {NoLease}]
         /\ \A u \in Task : d.holder[u] = IF u = t THEN NoLease ELSE db.holder[u]
    BY <1>1, <1>5, <2>5 DEF Database
  <2>11. /\ d.lease \in [LeaseId -> LeaseRow]
         /\ \A k \in LeaseId : d.lease[k] = IF k = l THEN row ELSE db.lease[k]
    BY <1>1, <1>6, <2>6 DEF Database
  <2> QED BY <2>1, <2>7, <2>8, <2>9, <2>10, <2>11
<1>9. d \in Database
  <2>1. d = [db EXCEPT !.rows = d.rows, !.state = d.state, !.parent = d.parent, !.cube = d.cube,
                       !.holder = d.holder, !.lease = d.lease]
    BY <1>1 DEF Database, Branched
  <2> HIDE DEF d
  <2> QED BY <1>1, <1>5, <1>8, <2>1 DEF Database
<1> HIDE DEF d, pos, neg
<1>10. Known(d)
  <2>1. db.rows <= d.rows /\ pos <= d.rows /\ neg <= d.rows /\ d.rows \in Nat
    BY <1>5, <1>8 DEF pos, neg
  <2>2. ASSUME NEW u \in Task, d.state[u] # "ABSENT" \/ d.holder[u] # NoLease PROVE u <= d.rows
    <3>1. CASE u \in {pos, neg, t}
      BY <1>4, <1>5, <2>1, <3>1
    <3>2. CASE u \notin {pos, neg, t}
      <4>1. u <= db.rows
        BY <1>1, <1>8, <2>2, <3>2 DEF Known
      <4> QED BY <1>5, <2>1, <4>1 DEF Task
    <3> QED BY <3>1, <3>2
  <2>3. ASSUME NEW k \in LeaseId, d.lease[k].status # "NONE" \/ d.artifact[k] # "NONE"
        PROVE  TaskOf(k) <= d.rows
    <3>1. TaskOf(k) <= db.rows
      BY <1>1, <1>2, <1>4, <1>8, <2>3 DEF Known, Active, t
    <3>2. TaskOf(k) \in Nat
      BY LeaseIds DEF Task
    <3> QED BY <1>5, <2>1, <3>1, <3>2
  <2> QED BY <2>2, <2>3 DEF Known
<1>11. Tree(d)
  <2>1. Root \in Task /\ Root \notin {pos, neg}
    BY <1>5, SizesAssumption DEF Root, Task
  <2> QED BY <1>1, <1>5, <1>8, <2>1 DEF Good, Tree
<1>12. CertificatesTrue(d)
  BY <1>1, <1>8 DEF Good, CertificatesTrue, Certified
<1>13. Closed(d) => \A k \in LeaseId : ~Active(d, k)
  BY <1>1, <1>6, <1>8 DEF Good, Closed, Active
<1>14. db.job # "DELETED"
  BY <1>1, <1>4, NotGone
<1>15. Good(d) /\ Shown(d) = Shown(db)
  BY <1>1, <1>8, <1>9, <1>10, <1>11, <1>12, <1>13, <1>14 DEF Good, Shown
<1>16. \A k \in LeaseId : /\ d.lease[k].status = IF k = l THEN "SPLIT" ELSE db.lease[k].status
                          /\ d.lease[k].session = db.lease[k].session
  BY <1>6, <1>8
<1>17. BranchedFrom(d, l, x)
  BY <1>1, <1>4, <1>5, <1>8, <1>16 DEF BranchedFrom, t, pos, neg, cubeNeg
<1> QED BY <1>8, <1>15, <1>17 DEF d, neg

\* So a split keeps the invariant.
LEMMA SplitSound == ASSUME IInv, NEW l \in LeaseId, NEW x \in Literal, Split(l, x) PROVE Sound
<1> DEFINE d == Branched(l, x)
           e == Recorded(d, l, "SPLIT")
<1>1. Respond(e) /\ UNCHANGED <<sockets, calls>>
  BY DEF Split, Branched
<1>2. Good(d) /\ d.rows = db.rows + 2 /\ Shown(d) = Shown(db) /\ d \in Database /\ Known(d)
  <2>1. Good(d) /\ d.rows = db.rows + 2 /\ Shown(d) = Shown(db)
    BY BranchedGood
  <2> HIDE DEF d
  <2> QED BY <2>1 DEF Good
<1>3. "SPLIT" \in MessageKind /\ db.rows \in Nat
  BY SizesAssumption DEF MessageKind, IInv, Good, Database
<1> HIDE DEF d
<1>4. e \in Database /\ Bookkeeping(d, e)
  BY <1>2, <1>3, RecordedBookkeeping
<1> HIDE DEF e
<1>5. Keeps(d, db')
  BY <1>1, <1>2, <1>4, DispatchKeeps DEF Respond, DispatchAll, Slots
<1>6. \A c \in calls : c.kind # "HELLO" => TaskOf(c.lease) <= db.rows + 2
  <2>1. ASSUME NEW c \in calls, c.kind # "HELLO" PROVE TaskOf(c.lease) <= db.rows + 2
    <3>1. c \in Call /\ TaskOf(c.lease) <= db.rows
      BY <2>1 DEF IInv
    <3>2. c.lease \in LeaseId
      BY <2>1, <3>1 DEF Call
    <3>3. TaskOf(c.lease) \in Nat
      BY <3>2, LeaseIds DEF Task
    <3> QED BY <1>3, <3>1, <3>3
  <2> QED BY <2>1
<1>7. Good(db') /\ db'.rows = db.rows + 2 /\ Shown(db') = Shown(db)
  BY <1>2, <1>5 DEF Keeps
<1> QED BY <1>1, <1>6, <1>7 DEF Sound, IInv, VerdictStep

\* The upload is complete.
LEMMA CompleteUploadSound == ASSUME IInv, CompleteUpload PROVE Sound
<1>1. Good(db) /\ db \in Database /\ db.job = "UPLOADING"
      /\ db' = [db EXCEPT !.job = "QUEUED"] /\ UNCHANGED <<sockets, calls>>
  BY DEF CompleteUpload, IInv, Good
<1>2. db' \in Database
  BY <1>1 DEF Database, JobState
<1>3. /\ db'.rows = db.rows /\ db'.parent = db.parent /\ db'.cube = db.cube
      /\ db'.artifact = db.artifact /\ db'.job = "QUEUED" /\ db'.state = db.state
      /\ db'.holder = db.holder /\ db'.lease = db.lease
  BY <1>1 DEF Database
<1>4. Good(db')
  BY <1>1, <1>2, <1>3 DEF Good, Known, Tree, CertificatesTrue, JobTrue, Certified,
                          Closed, Terminal, Verdict
<1>5. Shown(db') = Shown(db)
  BY <1>1, <1>3 DEF Shown, Certified
<1> QED BY <1>1, <1>3, <1>4, <1>5 DEF Sound, IInv, VerdictStep

\* The owner cancels.
LEMMA CancelSound == ASSUME IInv, Cancel PROVE Sound
<1> DEFINE states == [t \in Task |-> IF db.state[t] = "ABSENT" THEN "ABSENT" ELSE "CANCELLED"]
           holders == [t \in Task |-> NoLease]
<1>1. Good(db) /\ db \in Database /\ Known(db) /\ db.job # "DELETED" /\ UNCHANGED <<sockets, calls>>
  BY DEF Cancel, IInv, Good
<1>2. states \in [Task -> TaskState] /\ holders \in [Task -> LeaseId \cup {NoLease}]
  BY <1>1 DEF Database, TaskState
<1>3. \A u \in Task : \/ states[u] = db.state[u]
                      \/ states[u] \notin Certified \cup {"ABSENT"} /\ u <= db.rows
  BY <1>1 DEF Known, Certified
<1>4. \A u \in Task : holders[u] \in {NoLease, db.holder[u]}
  OBVIOUS
<1>5. /\ "CANCELLED" \in JobState \ {"DELETED"} /\ "CANCELLED" \in LeaseStatus \ {"ACTIVE", "NONE"}
      /\ JobTrue("CANCELLED")
  BY DEF JobState, LeaseStatus, JobTrue, Certified
<1>6. db' = WithVerdict(db, "CANCELLED", "CANCELLED", states, holders)
  BY DEF Cancel, WithVerdict
<1> HIDE DEF states, holders
<1>7. Good(db') /\ db'.rows = db.rows /\ db'.job = "CANCELLED"
  BY <1>1, <1>2, <1>3, <1>4, <1>5, <1>6, CloseJob
<1>8. Shown(db') = "CANCELLED"
  BY <1>7 DEF Shown, Certified
<1>9. Shown(db) # "DELETED"
  BY <1>1 DEF Shown, Certified
<1> QED BY <1>1, <1>7, <1>8, <1>9 DEF Sound, IInv, VerdictStep

\* The job expires and everything is deleted.
LEMMA ExpireSound == ASSUME IInv, Expire PROVE Sound
<1>1. /\ db \in Database
      /\ db' = [db EXCEPT !.job = "DELETED", !.rows = 0,
                          !.state = [t \in Task |-> "ABSENT"],
                          !.lease = [l \in LeaseId |-> NoRow],
                          !.artifact = [l \in LeaseId |-> "NONE"],
                          !.holder = [t \in Task |-> NoLease],
                          !.count = [t \in Task |-> 0],
                          !.parent = [t \in Task |-> NoTask],
                          !.cube = [t \in Task |-> {}],
                          !.proof = [t \in Task |-> FALSE],
                          !.provers = {}, !.quarantined = {}, !.processed = {}]
      /\ sockets' = [s \in Session |-> {}] /\ calls' = {}
  BY DEF Expire, IInv, Good
<1>2. NoRow \in LeaseRow /\ NoRow.status = "NONE"
  BY DEF NoRow, LeaseRow, LeaseStatus
<1>3. db' \in Database
  <2>1. /\ "DELETED" \in JobState /\ 0 \in 0..MaxTasks /\ 0 \in 0..MaxLeases
        /\ [t \in Task |-> "ABSENT"] \in [Task -> TaskState]
        /\ [l \in LeaseId |-> "NONE"] \in [LeaseId -> ProofStatus]
    BY SizesAssumption DEF JobState, TaskState, ProofStatus
  <2>2. /\ [t \in Task |-> 0] \in [Task -> 0..MaxLeases]
        /\ [t \in Task |-> NoTask] \in [Task -> Task \cup {NoTask}]
        /\ [t \in Task |-> {}] \in [Task -> SUBSET Literal]
        /\ [t \in Task |-> FALSE] \in [Task -> BOOLEAN]
        /\ [t \in Task |-> NoLease] \in [Task -> LeaseId \cup {NoLease}]
        /\ [l \in LeaseId |-> NoRow] \in [LeaseId -> LeaseRow]
    BY <2>1, <1>2
  <2> QED BY <1>1, <2>1, <2>2 DEF Database
<1>4. /\ db'.rows = 0 /\ db'.parent = [t \in Task |-> NoTask] /\ db'.cube = [t \in Task |-> {}]
      /\ db'.artifact = [l \in LeaseId |-> "NONE"] /\ db'.job = "DELETED"
      /\ db'.state = [t \in Task |-> "ABSENT"] /\ db'.holder = [t \in Task |-> NoLease]
      /\ db'.lease = [l \in LeaseId |-> NoRow]
  BY <1>1 DEF Database
<1>5. Root \in Task /\ \A t \in Task : NoTask < t
  BY SizesAssumption DEF Root, Task, NoTask
<1>6. Known(db') /\ Tree(db')
  BY <1>2, <1>4, <1>5 DEF Known, Tree
<1>7. CertificatesTrue(db') /\ JobTrue(db'.job) /\ \A l \in LeaseId : ~Active(db', l)
  BY <1>2, <1>4 DEF CertificatesTrue, JobTrue, Certified, Active
<1>8. Good(db')
  BY <1>3, <1>4, <1>6, <1>7 DEF Good
<1>9. Shown(db') = "DELETED"
  BY <1>4 DEF Shown, Certified
<1> QED BY <1>1, <1>8, <1>9 DEF Sound, IInv, VerdictStep

\* The object is evicted.
LEMMA RestartSound == ASSUME IInv, Restart PROVE Sound
BY DEF Restart, Sound, IInv, VerdictStep

-----------------------------------------------------------------------------
(* The theorems.                                                           *)

\* The invariant holds when the job is created.
LEMMA InitIInv == Init => IInv
<1> SUFFICES ASSUME Init PROVE IInv
  OBVIOUS
<1>1. Root \in Task /\ NoTask < Root /\ \A t \in Task : NoTask < t
  BY SizesAssumption DEF Root, Task, NoTask
<1>2. NoRow \in LeaseRow /\ NoRow.status = "NONE"
  BY DEF NoRow, LeaseRow, LeaseStatus
<1>3. db \in Database
  BY <1>1, <1>2, SizesAssumption DEF Init, Database, JobState, TaskState, ProofStatus
<1>4. Known(db) /\ Tree(db)
  BY <1>1, <1>2, SizesAssumption DEF Init, Known, Tree, Root, Task
<1>5. CertificatesTrue(db) /\ JobTrue(db.job) /\ ~Closed(db) /\ db.job # "DELETED"
  BY DEF Init, CertificatesTrue, JobTrue, Certified, Closed, Terminal, Verdict
<1> QED BY <1>3, <1>4, <1>5 DEF Init, Good, IInv

\* Every step of every handler keeps it and moves the verdict as JobVerdict allows.
LEMMA StepSound == IInv /\ [Next]_vars => Sound
<1> SUFFICES ASSUME IInv, [Next]_vars PROVE Sound
  OBVIOUS
<1>1. CASE OwnerStep
  BY <1>1, CompleteUploadSound, ConfirmOwnerProofSound, CancelSound DEF OwnerStep
<1>2. CASE SocketStep
  BY <1>2, HelloSound, DisconnectSound, ClientStoppedSound, HeartbeatSound DEF SocketStep
<1>3. CASE LeaseStep
  BY <1>3, SplitSound, RowStepsSound, YieldSound, SatResultSound, UnsatCandidateSound,
     StoreProofSound, UnsatProofSound DEF LeaseStep
<1>4. CASE VerifierStep
  BY <1>4, SatAnsweredSound, ProofAnsweredSound DEF VerifierStep
<1>5. CASE ClockStep
  BY <1>5, RowStepsSound, AlarmSound, ExpireSound DEF ClockStep
<1>6. CASE Restart
  BY <1>6, RestartSound
<1>7. CASE UNCHANGED vars
  BY <1>7 DEF vars, Sound, IInv, VerdictStep, Good, Known, Tree, CertificatesTrue, JobTrue,
              Closed, Active, Shown, Database
<1> QED BY <1>1, <1>2, <1>3, <1>4, <1>5, <1>6, <1>7 DEF Next, Deleted

\* Every state the coordinator reaches satisfies the invariant.
LEMMA Inductive == Spec => []IInv
<1>1. IInv /\ [Next]_vars => IInv'
  BY StepSound DEF Sound
<1> QED BY <1>1, InitIInv, PTL DEF Spec

\* The tables keep the types the schema declares, with any number of sessions,
\* slots, tasks, leases and variables.
THEOREM TypeCorrect == Spec => []TypeOK
<1>1. IInv => TypeOK
  BY DEF IInv, Good, TypeOK
<1> QED BY <1>1, Inductive, PTL

\* No task is ever certified whose cube has a model.
THEOREM CertificatesAreSound == Spec => []CertificateSound
<1>1. IInv => CertificateSound
  BY DEF IInv, Good, CertificatesTrue, CertificateSound
<1> QED BY <1>1, Inductive, PTL

\* No job ever shows a verdict that is not the truth about its formula.
THEOREM VerdictsAreSound == Spec => []VerdictSound
<1>1. IInv => VerdictSound
  BY DEF IInv, Good, JobTrue, VerdictSound, Certified, Verdict
<1> QED BY <1>1, Inductive, PTL

\* No lease stays active after the job is over.
THEOREM ClosedJobsAreIdle == Spec => []ClosedJobIsIdle
<1>1. IInv => ClosedJobIsIdle
  BY DEF IInv, Good, ClosedJobIsIdle
<1> QED BY <1>1, Inductive, PTL

\* The coordinator implements the promise made to onlookers.
THEOREM Refinement == Spec => ImplementsJobVerdict
<1>1. Init => Abstract!Init
  <2>1. Init => db.job = "UPLOADING"
    BY DEF Init
  <2>2. db.job = "UPLOADING" => Announced = "OPEN"
    BY DEF Announced, Certified
  <2> QED BY <2>1, <2>2 DEF Abstract!Init
<1>2. IInv /\ [Next]_vars => [Abstract!Next]_Announced
  <2>1. Announced = Shown(db) /\ Announced' = Shown(db')
    BY DEF Announced, Shown
  <2>2. IInv /\ [Next]_vars => VerdictStep(db, db')
    BY StepSound DEF Sound
  <2> QED BY <2>1, <2>2 DEF VerdictStep, Abstract!Next, Abstract!Announce, Abstract!Cancel,
                            Abstract!Expire
<1> QED BY <1>1, <1>2, Inductive, PTL DEF Spec, ImplementsJobVerdict, Abstract!Spec

-----------------------------------------------------------------------------
(* Slots: who is given a lease, and how many a slot has.                   *)

\* The slot of a session a lease is on.
Seat(d, l) == <<d.lease[l].session, d.lease[l].slot>>

\* The slots some browser declares in its HELLO.
Declared == {p \in Slots : \E h \in HelloMessages : h.session = p[1] /\ p[2] \in h.slots}

\* Leases are renewed in time, and a browser reconnects with the slots it had.
Stable ==
    /\ "lapse" \notin Faults
    /\ \A h, k \in HelloMessages : h.session = k.session => h.slots = k.slots

\* No lease is overdue, and no declared slot has two.
Alone(d) ==
    /\ \A l \in LeaseId : Active(d, l) => ~d.lease[l].lapsed /\ Seat(d, l) \in Declared
    /\ \A k, l \in LeaseId : Active(d, k) /\ Active(d, l) /\ Seat(d, k) = Seat(d, l) => k = l

\* From d to e leases are closed, never opened, moved or made overdue, and no
\* session is pardoned.
Narrows(d, e) ==
    /\ d.quarantined \subseteq e.quarantined
    /\ \A l \in LeaseId : Active(e, l) =>
          /\ Active(d, l)
          /\ e.lease[l].session = d.lease[l].session /\ e.lease[l].slot = d.lease[l].slot
          /\ e.lease[l].lapsed = d.lease[l].lapsed \/ ~e.lease[l].lapsed

\* From d to e a lease was opened on, or moved to, one of the slots served and
\* no other, and a slot that was alone with its lease still is.
Serves(d, e, served) ==
    /\ \A l \in LeaseId : Active(e, l) =>
          Seat(e, l) \in served \/ (Active(d, l) /\ Seat(e, l) = Seat(d, l))
    /\ Stable /\ served \subseteq Declared /\ Alone(d) => Alone(e)

\* What is done in two goes serves the slots of both.
LEMMA ServesTransitive ==
    ASSUME NEW d, NEW e, NEW f, NEW S, NEW T, NEW U,
           Serves(d, e, S), Serves(e, f, T), S \subseteq U, T \subseteq U
    PROVE  Serves(d, f, U)
BY DEF Serves

\* Closing leases serves nobody.
LEMMA NarrowsServes ==
    ASSUME NEW d, NEW e, Narrows(d, e), NEW served PROVE Serves(d, e, served)
BY DEF Narrows, Serves, Alone, Seat

\* Closing some leases and then others.
LEMMA NarrowsTransitive ==
    ASSUME NEW d, NEW e, NEW f, Narrows(d, e), Narrows(e, f) PROVE Narrows(d, f)
BY DEF Narrows

\* A change that leaves the leases alone and pardons nobody.
LEMMA SameLeasesNarrow ==
    ASSUME NEW d, NEW e, e.lease = d.lease, d.quarantined \subseteq e.quarantined
    PROVE  Narrows(d, e)
BY DEF Narrows, Active

\* Closing leases, those of a task, and withdrawing permits.
LEMMA CloseLeasesNarrow ==
    ASSUME NEW d \in Database, NEW e, NEW ls, NEW s, s # "ACTIVE",
           e.lease = CloseLeases(d, ls, s), d.quarantined \subseteq e.quarantined
    PROVE  Narrows(d, e)
BY DEF Narrows, Active, CloseLeases, Database, LeaseRow

LEMMA CloseTaskLeasesNarrow ==
    ASSUME NEW d \in Database, NEW e, NEW l,
           e.lease = CloseTaskLeases(d, l), d.quarantined \subseteq e.quarantined
    PROVE  Narrows(d, e)
BY DEF Narrows, Active, CloseTaskLeases, Database, LeaseRow

LEMMA DropPermitsNarrow ==
    ASSUME NEW d \in Database, NEW e, NEW ls,
           e.lease = DropPermits(d.lease, ls), d.quarantined \subseteq e.quarantined
    PROVE  Narrows(d, e)
BY DEF Narrows, Active, DropPermits, Database, LeaseRow

\* Requeueing the tasks of a set of leases, which are closed.
LEMMA RequeueNarrows ==
    ASSUME NEW d \in Database, NEW ls, NEW s, s # "ACTIVE" PROVE Narrows(d, Requeue(d, ls, s))
<1>1. Requeue(d, ls, s).lease = CloseLeases(d, ls, s) /\ Requeue(d, ls, s).quarantined = d.quarantined
  BY DEF Requeue, Database
<1> QED BY <1>1, CloseLeasesNarrow

\* Leasing tasks to idle slots serves only those: an idle slot has no lease,
\* and each is given at most one task.
LEMMA WithWorkServes ==
    ASSUME NEW d \in Database, NEW served \in SUBSET Slots, NEW w \in Assignments(d, served)
    PROVE  /\ Serves(d, WithWork(d, w), served)
           /\ WithWork(d, w).quarantined = d.quarantined
<1> DEFINE e == WithWork(d, w)
           taken == {t \in Task : \E p \in DOMAIN w : w[p] = t}
           slotFor(t) == CHOOSE p \in DOMAIN w : w[p] = t
           new == {l \in LeaseId : TaskOf(l) \in taken /\ l[2] = d.count[TaskOf(l)] + 1}
           row(l) == [status |-> "ACTIVE", session |-> slotFor(TaskOf(l))[1],
                      slot |-> slotFor(TaskOf(l))[2], lapsed |-> FALSE, permit |-> NoSlot]
<1>1. /\ e.lease = [l \in LeaseId |-> IF l \in new THEN row(l) ELSE d.lease[l]]
      /\ e.quarantined = d.quarantined
  BY DEF WithWork, Database
<1> HIDE DEF e, slotFor
<1>2. /\ DOMAIN w \subseteq served
      /\ \A p \in DOMAIN w : \A l \in BusyLeases(d) : p # Seat(d, l)
  BY DEF Assignments, IdleSlots, Seat
<1>3. \A t \in taken : slotFor(t) \in DOMAIN w /\ w[slotFor(t)] = t
  BY DEF slotFor
<1>4. \A l \in new : /\ l \in LeaseId /\ Seat(e, l) = slotFor(TaskOf(l))
                     /\ ~e.lease[l].lapsed /\ Active(e, l)
  BY <1>1, <1>2, <1>3 DEF Seat, Slots, Active
<1>5. \A l \in LeaseId \ new : e.lease[l] = d.lease[l]
  BY <1>1
<1>6. \A k, l \in new : TaskOf(k) = TaskOf(l) => k = l
  BY DEF LeaseId, TaskOf
<1> HIDE DEF new, taken
<1>7. \A l \in new : Seat(e, l) \in DOMAIN w /\ w[Seat(e, l)] = TaskOf(l)
  BY <1>3, <1>4 DEF new
<1>8. ASSUME NEW l \in LeaseId, Active(e, l)
      PROVE  Seat(e, l) \in served \/ (Active(d, l) /\ Seat(e, l) = Seat(d, l))
  BY <1>2, <1>5, <1>7, <1>8 DEF Active, Seat
<1>9. ASSUME served \subseteq Declared, Alone(d) PROVE Alone(e)
  <2>1. \A l \in LeaseId \ new : Active(e, l) =>
           /\ Active(d, l) /\ Seat(e, l) = Seat(d, l)
           /\ e.lease[l].lapsed = d.lease[l].lapsed
           /\ l \in BusyLeases(d)
    BY <1>5, <1>9 DEF Active, Seat, Alone, BusyLeases, Current
  <2>2. \A l \in LeaseId : Active(e, l) => ~e.lease[l].lapsed /\ Seat(e, l) \in Declared
    BY <1>2, <1>4, <1>7, <1>9, <2>1 DEF Alone
  <2>3. ASSUME NEW k \in LeaseId, NEW l \in LeaseId, Active(e, k), Active(e, l), Seat(e, k) = Seat(e, l)
        PROVE  k = l
    <3>1. CASE k \in new /\ l \in new
      BY <1>6, <1>7, <2>3, <3>1
    <3>2. CASE k \notin new /\ l \notin new
      BY <1>9, <2>1, <2>3, <3>2 DEF Alone
    <3>3. CASE k \in new /\ l \notin new
      BY <1>2, <1>7, <2>1, <2>3, <3>3
    <3>4. CASE k \notin new /\ l \in new
      BY <1>2, <1>7, <2>1, <2>3, <3>4
    <3> QED BY <3>1, <3>2, <3>3, <3>4
  <2> QED BY <2>2, <2>3 DEF Alone
<1> QED BY <1>1, <1>8, <1>9 DEF Serves, e

\* Permits open no lease.
LEMMA WithPermitsNarrows ==
    ASSUME NEW d \in Database, NEW P PROVE Narrows(d, WithPermits(d, P))
<1>1. /\ WithPermits(d, P).lease =
           [l \in LeaseId |-> IF l \in P THEN [d.lease[l] EXCEPT !.permit = d.lease[l].slot] ELSE d.lease[l]]
      /\ WithPermits(d, P).quarantined = d.quarantined
  BY DEF WithPermits, Database
<1> QED BY <1>1 DEF Narrows, Active, Database, LeaseRow

\* Work whose send threw is taken back: its slots are served for a moment.
LEMMA UndeliveredServes ==
    ASSUME NEW d \in Database, Known(d), NEW failing \in SUBSET Slots,
           NEW e \in Undelivered(d, failing)
    PROVE  Serves(d, e, failing)
<1>1. CASE failing = {}
  <2>1. Narrows(d, e)
    BY <1>1, SameLeasesNarrow DEF Undelivered
  <2> QED BY <2>1, NarrowsServes
<1>2. CASE failing # {}
  <2>1. PICK w \in Assignments(d, failing) :
          \E ls : e = Requeue(WithWork(d, w), ls, "EXPIRED")
    BY <1>2 DEF Undelivered
  <2>2. PICK ls : e = Requeue(WithWork(d, w), ls, "EXPIRED")
    BY <2>1
  <2> DEFINE f == WithWork(d, w)
  <2>3. f \in Database /\ Serves(d, f, failing)
    BY WithWorkBookkeeping, WithWorkServes
  <2> HIDE DEF f
  <2>4. Serves(f, Requeue(f, ls, "EXPIRED"), failing)
    BY <2>3, RequeueNarrows, NarrowsServes
  <2> QED BY <2>2, <2>3, <2>4, ServesTransitive DEF f
<1> QED BY <1>1, <1>2

\* A whole round of work and permits.
LEMMA DispatchedToServes ==
    ASSUME NEW d \in Database, Known(d), NEW conn, NEW served \in SUBSET Slots,
           NEW e \in DispatchedTo(d, conn, served)
    PROVE  Serves(d, e, served)
<1>1. PICK w \in Assignments(d, served) : \E P : e = WithPermits(WithWork(d, w), P)
  BY DEF DispatchedTo
<1>2. PICK P : e = WithPermits(WithWork(d, w), P)
  BY <1>1
<1> DEFINE f == WithWork(d, w)
<1>3. f \in Database /\ Serves(d, f, served)
  BY WithWorkBookkeeping, WithWorkServes
<1> HIDE DEF f
<1>4. Serves(f, WithPermits(f, P), served)
  BY <1>3, WithPermitsNarrows, NarrowsServes
<1> QED BY <1>2, <1>3, <1>4, ServesTransitive DEF f

\* dispatchPendingWork serves the slots that are connected and those welcomed.
LEMMA DispatchServes ==
    ASSUME NEW d \in Database, Known(d), NEW conn, NEW welcomed \in SUBSET Slots,
           NEW e \in Dispatch(d, conn, welcomed)
    PROVE  Serves(d, e, ConnectedSlots(d, conn) \cup welcomed)
<1> DEFINE connected == ConnectedSlots(d, conn)
           all == connected \cup welcomed
<1>1. connected \in SUBSET Slots
  BY DEF ConnectedSlots, Slots
<1>2. \E failing, served \in SUBSET all : \E f \in Undelivered(d, failing) :
        e \in DispatchedTo(f, conn, served)
  <2>1. PICK broken : e \in DispatchRound(d, conn, welcomed, broken)
    BY DEF Dispatch
  <2> DEFINE failing == {p \in connected \ welcomed : p[1] \in broken}
             served == (connected \cup welcomed) \ failing
  <2>2. \E f \in Undelivered(d, failing) : e \in DispatchedTo(f, conn, served)
    BY <2>1 DEF DispatchRound
  <2>3. failing \in SUBSET all /\ served \in SUBSET all
    OBVIOUS
  <2> QED BY <2>2, <2>3
<1>3. PICK failing \in SUBSET all, served \in SUBSET all :
        \E f \in Undelivered(d, failing) : e \in DispatchedTo(f, conn, served)
  BY <1>2
<1>4. PICK f \in Undelivered(d, failing) : e \in DispatchedTo(f, conn, served)
  BY <1>3
<1>5. failing \in SUBSET Slots /\ served \in SUBSET Slots
  BY <1>1
<1> HIDE DEF connected
<1>6. f \in Database /\ Known(f) /\ Serves(d, f, failing)
  BY <1>5, UndeliveredBookkeeping, BookkeepingKnown, UndeliveredServes
<1>7. Serves(f, e, served)
  BY <1>4, <1>5, <1>6, DispatchedToServes
<1>8. failing \subseteq all /\ served \subseteq all
  OBVIOUS
<1> HIDE DEF all
<1>9. Serves(d, e, all)
  BY <1>6, <1>7, <1>8, ServesTransitive
<1> QED BY <1>9 DEF all, connected

-----------------------------------------------------------------------------
(* What each handler serves.                                               *)

\* The slots on an open socket are slots that somebody declared.
Declares == \A s \in Session : \A x \in sockets[s] : <<s, x>> \in Declared

\* The slots a step may serve: those connected, of sessions in good standing.
Trusted == ConnectedSlots(db, sockets)

\* A handler that changes the leases no further than Narrows and then dispatches.
LEMMA DispatchTrusted ==
    ASSUME NEW d \in Database, Known(d), Narrows(db, d),
           NEW conn, \A s \in Session : conn[s] \subseteq sockets[s],
           db' \in DispatchAll(d, conn)
    PROVE  Serves(db, db', Trusted)
<1>1. Serves(d, db', ConnectedSlots(d, conn) \cup {})
  BY DispatchServes DEF DispatchAll, Slots
<1>2. ConnectedSlots(d, conn) \cup {} \subseteq Trusted
  BY DEF ConnectedSlots, Trusted, Narrows
<1>3. Serves(db, d, Trusted)
  BY NarrowsServes
<1> QED BY <1>1, <1>2, <1>3, ServesTransitive

LEMMA RespondTrusted ==
    ASSUME NEW d \in Database, Known(d), Narrows(db, d), Respond(d)
    PROVE  Serves(db, db', Trusted)
BY DispatchTrusted DEF Respond

\* A step that only closes leases.
LEMMA QuietTrusted == ASSUME Narrows(db, db') PROVE Serves(db, db', Trusted)
BY NarrowsServes

\* A reconnect gives every current lease of the session a place in some order.
LEMMA Placed ==
    ASSUME NEW d \in Database, NEW s, NEW slots \in SUBSET Slot, NEW r \in Reconciled(d, s, slots),
           NEW l \in DOMAIN r
    PROVE  /\ l \in LeaseId /\ Active(d, l) /\ d.lease[l].session = s
           /\ r[l] \in slots \cup {NoSlot}
           /\ d.lease[l].slot \in slots => r[l] = d.lease[l].slot
<1> DEFINE mine == {k \in SessionLeases(d, s) : ~d.lease[k].lapsed}
           n == Cardinality(mine)
<1>1. r \in [mine -> slots \cup {NoSlot}] /\ mine \subseteq LeaseId
  BY DEF Reconciled, SessionLeases
<1>2. PICK o \in [1..n -> mine] :
        /\ \A i, j \in 1..n : o[i] = o[j] => i = j
        /\ \A i \in 1..n : d.lease[o[i]].slot \in slots => r[o[i]] = d.lease[o[i]].slot
  BY DEF Reconciled
<1>3. l \in LeaseId /\ Active(d, l) /\ d.lease[l].session = s
  BY <1>1 DEF SessionLeases
<1>4. IsFiniteSet(mine)
  <2>1. IsFiniteSet(1..MaxTasks) /\ IsFiniteSet(1..MaxLeases)
    <3>1. MaxTasks \in Int /\ MaxLeases \in Int /\ 1 \in Int
      BY SizesAssumption
    <3> QED BY <3>1, FS_Interval
  <2>2. IsFiniteSet(LeaseId)
    BY <2>1, FS_Product DEF LeaseId, Task
  <2> QED BY <1>1, <2>2, FS_Subset
<1> HIDE DEF mine
<1>5. o \in Surjection(1..n, mine)
  <2>1. n \in Nat
    BY <1>4, FS_CardinalityType
  <2>2. Cardinality(1..n) = n
    BY <2>1, FS_Interval
  <2>3. o \in Injection(1..n, mine)
    BY <1>2 DEF Injection, IsInjective
  <2> QED BY <1>4, <2>2, <2>3, FS_Injection
<1>6. PICK i \in 1..n : o[i] = l
  BY <1>1, <1>5 DEF Surjection
<1> QED BY <1>1, <1>2, <1>3, <1>6

\* handleHello moves the session's leases to the slots it declares; a browser
\* that declares the slots it had keeps each lease where it was.
LEMMA WithSlotsServes ==
    ASSUME NEW d \in Database, Known(d), NEW h \in HelloMessages,
           NEW r \in Reconciled(d, h.session, h.slots)
    PROVE  /\ Serves(d, WithSlots(d, r), {h.session} \X h.slots)
           /\ WithSlots(d, r).quarantined = d.quarantined
<1> DEFINE s == h.session
           kept == {l \in DOMAIN r : r[l] # NoSlot}
           e == Requeue(d, DOMAIN r \ kept, "YIELDED")
           f == WithSlots(d, r)
<1>1. h.slots \in SUBSET Slot /\ s \in Session
  BY InputsAssumption DEF Hello
<1>2. \A l \in DOMAIN r : /\ l \in LeaseId /\ Active(d, l) /\ d.lease[l].session = s
                          /\ r[l] \in h.slots \cup {NoSlot}
                          /\ d.lease[l].slot \in h.slots => r[l] = d.lease[l].slot
  BY <1>1, Placed
<1>3. Narrows(d, e)
  BY RequeueNarrows
<1>4. e.lease \in [LeaseId -> LeaseRow] /\ e.quarantined = d.quarantined
  <2>1. NoLease \notin DOMAIN r \ kept /\ "YIELDED" \in LeaseStatus
    BY <1>2, LeaseIds DEF LeaseStatus
  <2>2. e \in Database
    BY <2>1, RequeueBookkeeping
  <2> QED BY <2>2 DEF Database, Requeue
<1>5. /\ f.quarantined = e.quarantined
      /\ f.lease = [l \in LeaseId |-> IF l \in kept THEN [e.lease[l] EXCEPT !.slot = r[l]] ELSE e.lease[l]]
  BY DEF WithSlots, Requeue, Database
<1> HIDE DEF e, f
<1>6. \A l \in LeaseId :
        /\ f.lease[l].status = e.lease[l].status /\ f.lease[l].session = e.lease[l].session
        /\ f.lease[l].lapsed = e.lease[l].lapsed
        /\ f.lease[l].slot = IF l \in kept THEN r[l] ELSE e.lease[l].slot
  BY <1>4, <1>5 DEF LeaseRow
<1>7. \A l \in LeaseId : Active(f, l) =>
        /\ Active(d, l) /\ f.lease[l].session = d.lease[l].session
        /\ f.lease[l].lapsed = d.lease[l].lapsed \/ ~f.lease[l].lapsed
        /\ f.lease[l].slot = IF l \in kept THEN r[l] ELSE d.lease[l].slot
  BY <1>3, <1>6 DEF Narrows, Active
<1>8. \A l \in LeaseId : Active(f, l) =>
        Seat(f, l) \in {s} \X h.slots \/ (Active(d, l) /\ Seat(f, l) = Seat(d, l))
  BY <1>2, <1>7 DEF Seat
<1>9. ASSUME Stable, Alone(d) PROVE Alone(f)
  <2>1. ASSUME NEW l \in LeaseId, Active(f, l) PROVE Seat(f, l) = Seat(d, l)
    <3>1. CASE l \in kept
      <4>1. Seat(d, l) \in Declared /\ d.lease[l].session = s
        BY <1>2, <1>9, <3>1 DEF Alone
      <4>2. PICK k \in HelloMessages : k.session = s /\ d.lease[l].slot \in k.slots
        BY <4>1 DEF Declared, Seat
      <4>3. d.lease[l].slot \in h.slots
        BY <1>9, <4>2 DEF Stable
      <4> QED BY <1>2, <1>7, <2>1, <3>1, <4>3 DEF Seat
    <3>2. CASE l \notin kept
      BY <1>7, <2>1, <3>2 DEF Seat
    <3> QED BY <3>1, <3>2
  <2> QED BY <1>7, <1>9, <2>1 DEF Alone
<1> QED BY <1>4, <1>5, <1>8, <1>9 DEF Serves, f

\* The rest of handleHello serves the slots of the newcomer and those connected.
LEMMA WelcomeServes ==
    ASSUME IInv, NEW h \in HelloMessages, Welcome(h)
    PROVE  Serves(db, db', Trusted \cup ({h.session} \X h.slots))
<1> DEFINE s == h.session
           here == {s} \X h.slots
           conn == [sockets EXCEPT ![s] = h.slots]
           S == IF h.prover THEN db.provers \cup {s} ELSE db.provers \ {s}
           profiled == [db EXCEPT !.provers = S]
<1>1. s \in Session /\ h.slots \in SUBSET Slot
  BY InputsAssumption DEF Hello
<1>2. db \in Database /\ Known(db) /\ sockets \in [Session -> SUBSET Slot]
  BY DEF IInv, Good
<1>3. S \in SUBSET Session
  BY <1>1, <1>2 DEF Database
<1>4. profiled \in Database /\ Known(profiled)
  BY <1>2, <1>3, ProversBookkeeping, BookkeepingKnown
<1>5. profiled.lease = db.lease /\ profiled.quarantined = db.quarantined
  BY <1>2 DEF Database
<1>6. PICK r \in Reconciled(profiled, s, h.slots) :
        db' \in Dispatch(WithSlots(profiled, r), conn, here)
  BY DEF Welcome
<1> DEFINE d == WithSlots(profiled, r)
<1> HIDE DEF profiled, S
<1>7. d \in Database /\ Known(d)
  BY <1>1, <1>4, WithSlotsBookkeeping, BookkeepingKnown
<1>8. Serves(profiled, d, here) /\ d.quarantined = profiled.quarantined
  BY <1>4, WithSlotsServes
<1>9. Serves(db, profiled, here)
  BY <1>5, SameLeasesNarrow, NarrowsServes
<1> HIDE DEF d
<1>10. here \in SUBSET Slots
  BY <1>1 DEF Slots
<1>11. Serves(d, db', ConnectedSlots(d, conn) \cup here)
  BY <1>6, <1>7, <1>10, DispatchServes DEF d
<1>12. ConnectedSlots(d, conn) \cup here \subseteq Trusted \cup here
  <2>1. \A z \in Session : conn[z] = IF z = s THEN h.slots ELSE sockets[z]
    BY <1>2
  <2>2. d.quarantined = db.quarantined
    BY <1>5, <1>8
  <2> HIDE DEF conn
  <2>3. ASSUME NEW p \in Session \X Slot, p[2] \in conn[p[1]], p[1] \notin db.quarantined
        PROVE  p \in Trusted \cup here
    <3>1. CASE p[1] = s
      BY <2>1, <2>3, <3>1
    <3>2. CASE p[1] # s
      BY <2>1, <2>3, <3>2 DEF Trusted, ConnectedSlots
    <3> QED BY <3>1, <3>2
  <2> QED BY <2>2, <2>3 DEF ConnectedSlots
<1> HIDE DEF here
<1> HIDE DEF conn
<1>13. Serves(db, d, here)
  BY <1>8, <1>9, ServesTransitive
<1>14. Serves(db, db', Trusted \cup here)
  BY <1>11, <1>12, <1>13, ServesTransitive
<1> QED BY <1>14 DEF here

-----------------------------------------------------------------------------
(* Every step serves only whom it may.                                     *)

\* A HELLO that is welcomed.
Welcomes(h) == HelloAlone(h) \/ HelloActivated(h)

\* What a step serves: the connected slots of sessions in good standing, and
\* those of a HELLO it welcomes.
Fitting ==
    \/ Serves(db, db', Trusted)
    \/ \E h \in HelloMessages :
          Welcomes(h) /\ Serves(db, db', Trusted \cup ({h.session} \X h.slots))

\* HELLO.
LEMMA HelloFits ==
    ASSUME IInv, NEW h \in HelloMessages,
           HelloAlone(h) \/ HelloAssigned(h) \/ HelloActivated(h) \/ HelloRefused(h)
    PROVE  Fitting
<1>1. CASE Welcomes(h)
  <2>1. Welcome(h)
    BY <1>1 DEF Welcomes, HelloAlone, HelloActivated
  <2> QED BY <1>1, <2>1, WelcomeServes DEF Fitting
<1>2. CASE HelloAssigned(h) \/ HelloRefused(h)
  <2>1. db' = db
    BY <1>2 DEF HelloAssigned, HelloRefused
  <2> QED BY <2>1, SameLeasesNarrow, QuietTrusted DEF Fitting
<1> QED BY <1>1, <1>2 DEF Welcomes

\* A session's leases are released, with their permits.
LEMMA ReleaseNarrows ==
    ASSUME NEW d \in Database, Known(d), NEW ls \in SUBSET LeaseId,
           NEW s \in LeaseStatus \ {"ACTIVE", "NONE"},
           NEW e, e.lease = DropPermits(Requeue(d, ls, s).lease, ls), e.quarantined = d.quarantined
    PROVE  Narrows(d, e)
<1> DEFINE freed == Requeue(d, ls, s)
<1>1. freed \in Database
  BY RequeueBookkeeping, LeaseIds
<1>2. Narrows(d, freed) /\ freed.quarantined = d.quarantined
  BY RequeueNarrows DEF Requeue, Database
<1> HIDE DEF freed
<1>3. Narrows(freed, e)
  BY <1>1, <1>2, DropPermitsNarrow DEF freed
<1> QED BY <1>2, <1>3, NarrowsTransitive

\* A client that stops.
LEMMA ClientStoppedTrusted ==
    ASSUME IInv, NEW s \in Session, ClientStopped(s) PROVE Serves(db, db', Trusted)
<1> DEFINE mine == SessionLeases(db, s)
           freed == Requeue(db, mine, "YIELDED")
           d == [freed EXCEPT !.lease = DropPermits(freed.lease, mine)]
           conn == [sockets EXCEPT ![s] = {}]
<1>1. mine \in SUBSET LeaseId /\ "YIELDED" \in LeaseStatus \ {"ACTIVE", "NONE"}
  BY SessionLeasesAre DEF LeaseStatus
<1>2. db' \in DispatchAll(d, conn)
  BY DEF ClientStopped
<1>3. db \in Database /\ Known(db) /\ sockets \in [Session -> SUBSET Slot]
  BY DEF IInv, Good
<1>4. d.lease = DropPermits(freed.lease, mine) /\ d.quarantined = db.quarantined
  BY <1>3 DEF Requeue, Database
<1> HIDE DEF mine
<1>5. d \in Database /\ Known(d)
  BY <1>1, <1>3, ReleaseBookkeeping, BookkeepingKnown
<1> HIDE DEF d
<1>6. Narrows(db, d)
  BY <1>1, <1>3, <1>4, ReleaseNarrows
<1>7. \A z \in Session : conn[z] \subseteq sockets[z]
  BY <1>3
<1> HIDE DEF conn
<1> QED BY <1>2, <1>5, <1>6, <1>7, DispatchTrusted

\* A change of single lease rows that neither opens, moves nor delays a lease.
LEMMA RowsTrusted ==
    ASSUME IInv, NEW rows \in [LeaseId -> LeaseRow],
           \A l \in LeaseId :
              /\ rows[l].status = db.lease[l].status /\ rows[l].session = db.lease[l].session
              /\ rows[l].slot = db.lease[l].slot
              /\ rows[l].lapsed = db.lease[l].lapsed \/ ~rows[l].lapsed,
           \/ Respond([db EXCEPT !.lease = rows])
           \/ db' = [db EXCEPT !.lease = rows]
    PROVE  Serves(db, db', Trusted)
<1> DEFINE d == [db EXCEPT !.lease = rows]
<1>1. db \in Database /\ Known(db)
  BY DEF IInv, Good
<1>2. d \in Database /\ Known(d)
  BY <1>1, LeaseBookkeeping, BookkeepingKnown
<1>3. d.lease = rows /\ d.quarantined = db.quarantined
  BY <1>1 DEF Database
<1> HIDE DEF d
<1>4. Narrows(db, d)
  BY <1>3 DEF Narrows, Active
<1>5. Respond(d) \/ db' = d
  BY DEF d
<1> QED BY <1>2, <1>4, <1>5, RespondTrusted, QuietTrusted

\* SESSION_HEARTBEAT.
LEMMA HeartbeatTrusted ==
    ASSUME IInv, NEW s \in Session, NEW renewed, SessionHeartbeat(s, renewed)
    PROVE  Serves(db, db', Trusted)
<1> DEFINE rows == [l \in LeaseId |->
                      IF l \in renewed THEN [db.lease[l] EXCEPT !.lapsed = FALSE] ELSE db.lease[l]]
<1>1. Respond([db EXCEPT !.lease = rows])
  BY DEF SessionHeartbeat
<1>2. db.lease \in [LeaseId -> LeaseRow]
  BY DEF IInv, Good, Database
<1>3. /\ rows \in [LeaseId -> LeaseRow]
      /\ \A l \in LeaseId :
            /\ rows[l].status = db.lease[l].status /\ rows[l].session = db.lease[l].session
            /\ rows[l].slot = db.lease[l].slot
            /\ rows[l].lapsed = db.lease[l].lapsed \/ ~rows[l].lapsed
  BY <1>2 DEF LeaseRow
<1> HIDE DEF rows
<1> QED BY <1>1, <1>3, RowsTrusted

\* A refused SPLIT and a permit that lapses.
LEMMA PermitTrusted ==
    ASSUME IInv, NEW l \in LeaseId, SplitRefused(l) \/ PermitLapses(l)
    PROVE  Serves(db, db', Trusted)
<1> DEFINE rows == [db.lease EXCEPT ![l] = [db.lease[l] EXCEPT !.permit = NoSlot]]
<1>1. Respond([db EXCEPT !.lease = rows]) \/ db' = [db EXCEPT !.lease = rows]
  BY DEF SplitRefused, PermitLapses
<1>2. db.lease \in [LeaseId -> LeaseRow]
  BY DEF IInv, Good, Database
<1>3. /\ rows \in [LeaseId -> LeaseRow]
      /\ \A k \in LeaseId :
            /\ rows[k].status = db.lease[k].status /\ rows[k].session = db.lease[k].session
            /\ rows[k].slot = db.lease[k].slot
            /\ rows[k].lapsed = db.lease[k].lapsed \/ ~rows[k].lapsed
  BY <1>2 DEF LeaseRow
<1> HIDE DEF rows
<1> QED BY <1>1, <1>3, RowsTrusted

\* A lease that lapses stays on its slot.
LEMMA LeaseLapsesTrusted ==
    ASSUME IInv, "lapse" \in Faults, NEW l \in LeaseId, LeaseLapses(l)
    PROVE  Serves(db, db', Trusted)
<1>1. db \in Database
  BY DEF IInv, Good
<1>2. db'.lease = [db.lease EXCEPT ![l] = [db.lease[l] EXCEPT !.lapsed = TRUE, !.permit = NoSlot]]
  BY <1>1 DEF LeaseLapses, Database
<1>3. \A k \in LeaseId : /\ db'.lease[k].status = db.lease[k].status
                         /\ db'.lease[k].session = db.lease[k].session
                         /\ db'.lease[k].slot = db.lease[k].slot
  BY <1>1, <1>2 DEF Database, LeaseRow
<1> QED BY <1>3 DEF Serves, Stable, Active, Seat

\* Remembering a mutation and then dispatching.
LEMMA RecordedTrusted ==
    ASSUME IInv, NEW d \in Database, Known(d), Narrows(db, d),
           NEW l \in LeaseId, NEW kind \in MessageKind,
           Respond(Recorded(d, l, kind)) \/ db' = Recorded(d, l, kind)
    PROVE  Serves(db, db', Trusted)
<1> DEFINE e == Recorded(d, l, kind)
<1>1. e \in Database /\ Known(e)
  BY RecordedBookkeeping, BookkeepingKnown
<1>2. e.lease = d.lease /\ e.quarantined = d.quarantined
  BY DEF Recorded, Database
<1> HIDE DEF e
<1>3. Narrows(db, e)
  BY <1>2, SameLeasesNarrow, NarrowsTransitive
<1>4. Respond(e) \/ db' = e
  BY DEF e
<1> QED BY <1>1, <1>3, <1>4, RespondTrusted, QuietTrusted

\* YIELD.
LEMMA YieldTrusted ==
    ASSUME IInv, NEW l \in LeaseId, NEW unsupported, Yield(l, unsupported)
    PROVE  Serves(db, db', Trusted)
<1> DEFINE freed == Requeue(db, {l}, "YIELDED")
           dropped == [freed EXCEPT !.lease = DropPermits(freed.lease, {l})]
           S == IF unsupported THEN freed.provers \ {db.lease[l].session} ELSE freed.provers
           d == [dropped EXCEPT !.provers = S]
<1>1. /\ "YIELDED" \in LeaseStatus \ {"ACTIVE", "NONE"} /\ "YIELD" \in MessageKind
      /\ db \in Database /\ Known(db)
  BY DEF LeaseStatus, MessageKind, IInv, Good
<1>2. dropped \in Database /\ Known(dropped)
  BY <1>1, ReleaseBookkeeping, BookkeepingKnown
<1>3. freed \in Database
  BY <1>1, RequeueBookkeeping, LeaseIds
<1>4. Respond(Recorded(d, l, "YIELD"))
  BY <1>3 DEF Yield, Database
<1>5. /\ d.lease = DropPermits(freed.lease, {l})
      /\ d.quarantined = db.quarantined
  BY <1>1 DEF Requeue, Database
<1>6. S \in SUBSET Session
  BY <1>3 DEF Database
<1> HIDE DEF S, dropped
<1>7. d \in Database /\ Known(d)
  BY <1>2, <1>6, ProversBookkeeping, BookkeepingKnown
<1> HIDE DEF d
<1>8. Narrows(db, d)
  BY <1>1, <1>5, ReleaseNarrows
<1> QED BY <1>1, <1>4, <1>7, <1>8, RecordedTrusted

\* RESULT, SAT, and RESULT with a proof: the leases of the task are closed.
LEMMA ReportTrusted ==
    ASSUME IInv, NEW l \in LeaseId, SatResult(l) \/ UnsatProof(l)
    PROVE  Serves(db, db', Trusted)
<1> DEFINE d(state) == Verifying(l, state)
<1>1. db \in Database
  BY DEF IInv, Good
<1>2. \A state \in {"VERIFYING_SAT", "VERIFYING_UNSAT"} :
        /\ d(state).lease = CloseTaskLeases(db, l) /\ d(state).quarantined = db.quarantined
        /\ d(state) = [d(state) EXCEPT !.lease = d(state).lease]
  BY <1>1 DEF Verifying, Database
<1>3. CloseTaskLeases(db, l) \in [LeaseId -> LeaseRow]
  BY <1>1, CloseTaskLeasesType
<1>4. CASE SatResult(l)
  <2>1. db'.lease = CloseTaskLeases(db, l) /\ db'.quarantined = db.quarantined
    BY <1>2, <1>4 DEF SatResult
  <2> QED BY <1>1, <2>1, CloseTaskLeasesNarrow, QuietTrusted
<1>5. CASE UnsatProof(l)
  <2>1. PICK ls : db' = [d("VERIFYING_UNSAT") EXCEPT !.lease = DropPermits(d("VERIFYING_UNSAT").lease, ls)]
    BY <1>5 DEF UnsatProof
  <2>2. db'.lease = DropPermits(CloseTaskLeases(db, l), ls) /\ db'.quarantined = db.quarantined
    BY <1>1, <1>2, <2>1 DEF Verifying, Database
  <2>3. \A k \in LeaseId : LET row == CloseTaskLeases(db, l)[k] IN
          /\ db'.lease[k].status = row.status /\ db'.lease[k].session = row.session
          /\ db'.lease[k].slot = row.slot /\ db'.lease[k].lapsed = row.lapsed
    BY <1>3, <2>2 DEF DropPermits, LeaseRow
  <2>4. Narrows(db, d("VERIFYING_UNSAT"))
    BY <1>1, <1>2, CloseTaskLeasesNarrow
  <2>5. Narrows(db, db')
    BY <1>2, <2>2, <2>3, <2>4 DEF Narrows, Active
  <2> QED BY <2>5, QuietTrusted
<1> QED BY <1>4, <1>5

\* RESULT without a proof.
LEMMA UnsatCandidateTrusted ==
    ASSUME IInv, NEW l \in LeaseId, UnsatCandidate(l) PROVE Serves(db, db', Trusted)
<1> DEFINE t == TaskOf(l)
           closed == CloseTaskLeases(db, l)
           rows == DropPermits(closed, {l})
           proof == [db.proof EXCEPT ![t] = TRUE]
           promoted == [db EXCEPT !.state = [db.state EXCEPT ![t] = "READY"],
                                  !.holder = [db.holder EXCEPT ![t] = NoLease],
                                  !.proof = proof, !.lease = rows, !.artifact = db.artifact]
<1>1. db.lease[l].status # "NONE" /\ db \in Database /\ Known(db)
  BY DEF UnsatCandidate, MayReport, IInv, Good
<1>2. t \in Task /\ t <= db.rows /\ "CANDIDATE" \in MessageKind
  BY <1>1, IssuedKnown DEF MessageKind
<1>3. PICK d \in {promoted, db} : Respond(Recorded(d, l, "CANDIDATE"))
  BY <1>1 DEF UnsatCandidate, Database
<1>4. /\ closed \in [LeaseId -> LeaseRow]
      /\ \A k \in LeaseId : /\ db.lease[k].status = "NONE" => closed[k].status = "NONE"
                            /\ closed[k].status = "ACTIVE" => db.lease[k].status = "ACTIVE"
  BY <1>1, CloseTaskLeasesType
<1>5. \A k \in LeaseId : closed[k].status = "ACTIVE" =>
        /\ closed[k].session = db.lease[k].session /\ closed[k].slot = db.lease[k].slot
        /\ closed[k].lapsed = db.lease[k].lapsed
  BY <1>1 DEF CloseTaskLeases, Database, LeaseRow
<1> HIDE DEF closed
<1>6. /\ rows \in [LeaseId -> LeaseRow]
      /\ \A k \in LeaseId : /\ rows[k].status = closed[k].status /\ rows[k].session = closed[k].session
                            /\ rows[k].slot = closed[k].slot /\ rows[k].lapsed = closed[k].lapsed
  BY <1>4 DEF DropPermits, LeaseRow
<1>6a. \A k \in LeaseId : /\ db.lease[k].status = "NONE" => rows[k].status = "NONE"
                          /\ rows[k].status = "ACTIVE" => db.lease[k].status = "ACTIVE"
                          /\ db.artifact[k] # "NONE" => TaskOf(k) <= db.rows
  BY <1>1, <1>4, <1>6 DEF Known
<1>7. proof \in [Task -> BOOLEAN] /\ db.artifact \in [LeaseId -> ProofStatus]
  BY <1>1 DEF Database
<1>8. "READY" \in TaskState /\ "READY" \notin Certified \cup {"ABSENT"}
  BY DEF TaskState, Certified
<1> HIDE DEF rows, proof, t
<1>9. promoted \in Database /\ Known(promoted)
  <2>1. promoted \in Database /\ Bookkeeping(db, promoted)
    BY <1>1, <1>2, <1>6, <1>6a, <1>7, <1>8, MoveBookkeeping
  <2> HIDE DEF promoted
  <2> QED BY <1>1, <2>1, BookkeepingKnown
<1>10. promoted.lease = rows /\ promoted.quarantined = db.quarantined
  BY <1>1 DEF Database
<1> HIDE DEF promoted
<1>11. Narrows(db, d)
  BY <1>4, <1>5, <1>6, <1>10 DEF Narrows, Active
<1> QED BY <1>1, <1>2, <1>3, <1>9, <1>11, RecordedTrusted

\* A split closes the lease of the task it splits.
LEMMA SplitTrusted ==
    ASSUME IInv, NEW l \in LeaseId, NEW x \in Literal, Split(l, x)
    PROVE  Serves(db, db', Trusted)
<1> DEFINE d == Branched(l, x)
<1>1. Respond(Recorded(d, l, "SPLIT"))
  BY DEF Split, Branched
<1>2. db \in Database
  BY DEF IInv, Good
<1>3. /\ d.lease = [db.lease EXCEPT ![l] = [db.lease[l] EXCEPT !.status = "SPLIT", !.permit = NoSlot]]
      /\ d.quarantined = db.quarantined
  BY <1>2 DEF Branched, Database
<1>4. Good(d)
  BY BranchedGood
<1> HIDE DEF d
<1>5. Narrows(db, d)
  BY <1>2, <1>3 DEF Narrows, Active, Database, LeaseRow
<1>6. d \in Database /\ Known(d) /\ "SPLIT" \in MessageKind
  BY <1>4 DEF Good, MessageKind
<1> QED BY <1>1, <1>5, <1>6, RecordedTrusted

\* The alarm closes a batch of leases.
LEMMA AlarmTrusted == ASSUME IInv, Alarm PROVE Serves(db, db', Trusted)
<1>1. PICK batch \in SUBSET LeaseId : Respond(Requeue(db, batch, "EXPIRED"))
  BY DEF Alarm
<1>2. db \in Database /\ Known(db) /\ "EXPIRED" \in LeaseStatus
  BY DEF IInv, Good, LeaseStatus
<1> DEFINE d == Requeue(db, batch, "EXPIRED")
<1>3. d \in Database /\ Known(d) /\ Narrows(db, d)
  BY <1>2, RequeueBookkeeping, BookkeepingKnown, RequeueNarrows, LeaseIds
<1> HIDE DEF d
<1>4. Respond(d)
  BY <1>1 DEF d
<1> QED BY <1>3, <1>4, RespondTrusted

\* Propagation and the end of the job only close leases.
LEMMA PropagateNarrows ==
    ASSUME NEW d \in Database, NEW t, NEW e \in Propagate(d, t) PROVE Narrows(d, e)
<1>1. PICK states :
        LET f == [d EXCEPT !.state = states] IN e = f \/ e = CloseUnsatJob(f)
  BY DEF Propagate
<1> DEFINE f == [d EXCEPT !.state = states]
<1>2. f.lease = d.lease /\ f.quarantined = d.quarantined
  BY DEF Database
<1>3. CASE e = f
  BY <1>2, <1>3, SameLeasesNarrow
<1>4. CASE e = CloseUnsatJob(f)
  <2>1. e.lease = CloseLeases(f, LeaseId, "SUPERSEDED") /\ e.quarantined = f.quarantined
    BY <1>4 DEF CloseUnsatJob, Database
  <2>2. CloseLeases(f, LeaseId, "SUPERSEDED") = CloseLeases(d, LeaseId, "SUPERSEDED")
    BY <1>2 DEF CloseLeases, Active
  <2> HIDE DEF f
  <2> QED BY <1>2, <2>1, <2>2, CloseLeasesNarrow
<1> QED BY <1>1, <1>3, <1>4

\* What the owner, the clock and the end of the job do to leases.
LEMMA QuietSteps ==
    ASSUME IInv, \/ CompleteUpload \/ Cancel \/ Expire \/ Restart \/ db' = db
                 \/ \E l \in LeaseId : ConfirmOwnerProof(l) \/ StoreProof(l)
                 \/ \E s \in Session : Disconnect(s)
    PROVE  Serves(db, db', Trusted)
<1>1. db \in Database
  BY DEF IInv, Good
<1>2. CASE \/ CompleteUpload \/ Restart \/ db' = db
           \/ (\E l \in LeaseId : StoreProof(l)) \/ (\E s \in Session : Disconnect(s))
  <2>1. db'.lease = db.lease /\ db'.quarantined = db.quarantined
    BY <1>1, <1>2 DEF CompleteUpload, Restart, StoreProof, Disconnect, Database
  <2> QED BY <2>1, SameLeasesNarrow, QuietTrusted
<1>3. CASE Cancel
  <2>1. db'.lease = CloseLeases(db, LeaseId, "CANCELLED") /\ db'.quarantined = db.quarantined
    BY <1>1, <1>3 DEF Cancel, Database
  <2> QED BY <1>1, <2>1, CloseLeasesNarrow, QuietTrusted
<1>4. CASE Expire
  <2>1. \A l \in LeaseId : ~Active(db', l)
    BY <1>1, <1>4 DEF Expire, Database, Active, NoRow
  <2> QED BY <2>1 DEF Serves, Alone
<1>5. ASSUME NEW l \in LeaseId, ConfirmOwnerProof(l) PROVE Serves(db, db', Trusted)
  <2> DEFINE confirmed == [db EXCEPT
               !.artifact[l] = "OWNER_VERIFIED",
               !.state[TaskOf(l)] = IF db.state[TaskOf(l)] = "VERIFYING_UNSAT" THEN "UNSAT_OWNER_VERIFIED"
                                    ELSE db.state[TaskOf(l)]]
  <2>1. db' \in Propagate(confirmed, TaskOf(l))
    BY <1>5 DEF ConfirmOwnerProof
  <2>2. confirmed \in Database /\ confirmed.lease = db.lease /\ confirmed.quarantined = db.quarantined
    BY <1>1 DEF Database, ProofStatus, TaskState
  <2> HIDE DEF confirmed
  <2>3. Narrows(db, db')
    BY <2>1, <2>2, PropagateNarrows, SameLeasesNarrow, NarrowsTransitive
  <2> QED BY <2>3, QuietTrusted
<1> QED BY <1>2, <1>3, <1>4, <1>5

\* A session in quarantine loses its leases.
LEMMA QuarantineNarrows ==
    ASSUME NEW d \in Database, NEW s PROVE Narrows(d, Quarantine(d, s))
<1> DEFINE mine == SessionLeases(d, s)
           e == Quarantine(d, s)
<1>1. /\ e.lease = DropPermits(CloseLeases(d, mine, "SUPERSEDED"), mine)
      /\ e.quarantined = d.quarantined \cup {s}
  BY DEF Quarantine, Database
<1> HIDE DEF mine, e
<1>2. \A l \in LeaseId : e.lease[l].status = "ACTIVE" =>
        /\ d.lease[l].status = "ACTIVE" /\ e.lease[l].session = d.lease[l].session
        /\ e.lease[l].slot = d.lease[l].slot /\ e.lease[l].lapsed = d.lease[l].lapsed
  BY <1>1 DEF DropPermits, CloseLeases, Active, Database, LeaseRow
<1> QED BY <1>1, <1>2 DEF Narrows, Active, e

\* What follows the answer about a model.
LEMMA AfterSatNarrows ==
    ASSUME IInv, NEW l \in LeaseId, NEW answer \in SatAnswers(db.cube[TaskOf(l)])
    PROVE  Narrows(db, AfterSat(l, answer))
<1> DEFINE t == TaskOf(l)
           requeued == IF db.state[t] = "VERIFYING_SAT"
                       THEN [db EXCEPT !.state[t] = "READY", !.holder[t] = NoLease] ELSE db
<1>1. db \in Database
  BY DEF IInv, Good
<1>2. requeued \in Database /\ requeued.lease = db.lease /\ requeued.quarantined = db.quarantined
  BY <1>1 DEF Database, TaskState
<1>3. Narrows(db, requeued)
  BY <1>2, SameLeasesNarrow
<1>4. answer \in {"VALID_SAT", "INVALID_FORMULA", "INVALID_MODEL", "VERIFICATION_TIMEOUT"}
  BY DEF SatAnswers
<1>5. /\ answer = "VALID_SAT" => AfterSat(l, answer) = SatVerified(db, t)
      /\ answer = "INVALID_FORMULA" => AfterSat(l, answer) = InvalidFormula(db)
      /\ answer = "INVALID_MODEL" => AfterSat(l, answer) = Quarantine(requeued, db.lease[l].session)
      /\ answer = "VERIFICATION_TIMEOUT" => AfterSat(l, answer) = requeued
  BY DEF AfterSat
<1> HIDE DEF requeued
<1>6. \A e \in {SatVerified(db, t), InvalidFormula(db)} :
        e.lease = CloseLeases(db, LeaseId, "SUPERSEDED") /\ e.quarantined = db.quarantined
  BY <1>1 DEF SatVerified, InvalidFormula, Database
<1> HIDE DEF t
<1>7. \A e \in {SatVerified(db, t), InvalidFormula(db)} : Narrows(db, e)
  BY <1>1, <1>6, CloseLeasesNarrow
<1>8. Narrows(db, Quarantine(requeued, db.lease[l].session))
  BY <1>2, <1>3, QuarantineNarrows, NarrowsTransitive
<1> QED BY <1>3, <1>4, <1>5, <1>7, <1>8

\* What follows the answer about a proof.
LEMMA AfterProofNarrows ==
    ASSUME IInv, NEW l \in LeaseId, NEW answer \in UnsatAnswers(db.cube[TaskOf(l)]),
           NEW e \in AfterProof(l, answer)
    PROVE  Narrows(db, e)
<1> DEFINE t == TaskOf(l)
           ready == [db EXCEPT !.state[t] = "READY", !.proof[t] = TRUE]
           refused == [ready EXCEPT !.artifact[l] = "INVALID", !.holder[t] = NoLease]
           certified == [db EXCEPT !.artifact[l] = "SERVER_CERTIFIED", !.state[t] = "UNSAT_CERTIFIED"]
           asked == [db EXCEPT !.artifact[l] = "OWNER_CHECK_REQUIRED"]
<1>1. db \in Database
  BY DEF IInv, Good
<1>2. \A d \in {ready, refused, certified, asked} :
        d \in Database /\ d.lease = db.lease /\ d.quarantined = db.quarantined
  <2>1. ready \in Database /\ ready.lease = db.lease /\ ready.quarantined = db.quarantined
    BY <1>1 DEF Database, TaskState
  <2>2. certified \in Database /\ certified.lease = db.lease /\ certified.quarantined = db.quarantined
    BY <1>1 DEF Database, TaskState, ProofStatus
  <2>3. asked \in Database /\ asked.lease = db.lease /\ asked.quarantined = db.quarantined
    BY <1>1 DEF Database, ProofStatus
  <2> HIDE DEF ready
  <2>4. refused \in Database /\ refused.lease = ready.lease /\ refused.quarantined = ready.quarantined
    BY <2>1 DEF Database, ProofStatus
  <2> QED BY <2>1, <2>2, <2>3, <2>4
<1>3. answer \in {"VALID_UNSAT", "OWNER_CHECK_REQUIRED", "INVALID_FORMULA",
                  "INVALID_PROOF", "VERIFICATION_TIMEOUT"}
  BY DEF UnsatAnswers
<1>4. /\ answer = "VALID_UNSAT" => e \in Propagate(certified, t)
      /\ answer = "OWNER_CHECK_REQUIRED" => e = asked
      /\ answer = "INVALID_FORMULA" => e = InvalidFormula(db)
      /\ answer = "INVALID_PROOF" => e = Quarantine(refused, db.lease[l].session)
      /\ answer = "VERIFICATION_TIMEOUT" => e = ready
  BY DEF AfterProof
<1> HIDE DEF ready, refused, certified, asked
<1>5. \A d \in {ready, refused, certified, asked} : Narrows(db, d)
  BY <1>2, SameLeasesNarrow
<1>6. Narrows(db, InvalidFormula(db))
  <2>1. /\ InvalidFormula(db).lease = CloseLeases(db, LeaseId, "SUPERSEDED")
        /\ InvalidFormula(db).quarantined = db.quarantined
    BY <1>1 DEF InvalidFormula, Database
  <2> QED BY <1>1, <2>1, CloseLeasesNarrow
<1>7. Narrows(db, Quarantine(refused, db.lease[l].session))
  BY <1>2, <1>5, QuarantineNarrows, NarrowsTransitive
<1>8. \A f \in Propagate(certified, t) : Narrows(db, f)
  BY <1>2, <1>5, PropagateNarrows, NarrowsTransitive
<1> QED BY <1>3, <1>4, <1>5, <1>6, <1>7, <1>8

\* The rest of a RESULT's handler.
LEMMA AnsweredTrusted ==
    ASSUME IInv, NEW l \in LeaseId, NEW answer, SatAnswered(l, answer) \/ ProofAnswered(l, answer)
    PROVE  Serves(db, db', Trusted)
<1>1. CASE SatAnswered(l, answer)
  <2> DEFINE d == AfterSat(l, answer)
  <2>1. /\ Verification(l, "SAT") \in calls /\ answer \in SatAnswers(db.cube[TaskOf(l)])
        /\ Respond(Recorded(d, l, "SAT")) \/ db' = Recorded(d, l, "SAT")
    BY <1>1 DEF SatAnswered, Answered, Respond
  <2>2. Good(d) /\ Narrows(db, d)
    BY <2>1, AfterSatFair, AfterSatNarrows DEF Fair
  <2> HIDE DEF d
  <2>3. d \in Database /\ Known(d) /\ "SAT" \in MessageKind
    BY <2>2 DEF Good, MessageKind
  <2> QED BY <2>1, <2>2, <2>3, RecordedTrusted
<1>2. CASE ProofAnswered(l, answer)
  <2>1. /\ Verification(l, "PROOF") \in calls /\ answer \in UnsatAnswers(db.cube[TaskOf(l)])
        /\ Answered(l, "PROOF", AfterProof(l, answer))
    BY <1>2 DEF ProofAnswered
  <2>2. PICK d \in AfterProof(l, answer) :
          Respond(Recorded(d, l, "PROOF")) \/ db' = Recorded(d, l, "PROOF")
    BY <2>1 DEF Answered, Respond
  <2>3. Good(d) /\ Narrows(db, d)
    BY <2>1, AfterProofFair, AfterProofNarrows DEF Fair
  <2>4. d \in Database /\ Known(d) /\ "PROOF" \in MessageKind
    BY <2>3 DEF Good, MessageKind
  <2> QED BY <2>2, <2>3, <2>4, RecordedTrusted
<1> QED BY <1>1, <1>2

\* Every step of every handler is fitting.
LEMMA StepFits == IInv /\ [Next]_vars => Fitting
<1> SUFFICES ASSUME IInv, [Next]_vars PROVE Fitting
  OBVIOUS
<1>1. CASE OwnerStep
  BY <1>1, QuietSteps DEF OwnerStep, Fitting
<1>2. CASE SocketStep
  BY <1>2, HelloFits, QuietSteps, ClientStoppedTrusted, HeartbeatTrusted DEF SocketStep, Fitting
<1>3. CASE LeaseStep
  BY <1>3, SplitTrusted, PermitTrusted, YieldTrusted, ReportTrusted, UnsatCandidateTrusted,
     QuietSteps DEF LeaseStep, Fitting
<1>4. CASE VerifierStep
  BY <1>4, AnsweredTrusted DEF VerifierStep, Fitting
<1>5. CASE ClockStep
  BY <1>5, LeaseLapsesTrusted, PermitTrusted, AlarmTrusted, QuietSteps DEF ClockStep, Fitting
<1>6. CASE Restart
  BY <1>6, QuietSteps DEF Fitting
<1>7. CASE UNCHANGED vars
  BY <1>7, QuietSteps DEF vars, Fitting
<1> QED BY <1>1, <1>2, <1>3, <1>4, <1>5, <1>6, <1>7 DEF Next, Deleted

-----------------------------------------------------------------------------
(* The theorems about slots.                                               *)

\* A socket only gains the slots of a HELLO that is welcomed.
LEMMA SocketsNarrow ==
    ASSUME IInv, [Next]_vars
    PROVE  \/ \A s \in Session : sockets'[s] \subseteq sockets[s]
           \/ \E h \in HelloMessages : sockets' = [sockets EXCEPT ![h.session] = h.slots]
<1>1. sockets \in [Session -> SUBSET Slot]
  BY DEF IInv
<1>2. CASE sockets' = sockets
  BY <1>2
<1>3. ASSUME NEW h \in HelloMessages, HelloAlone(h) \/ HelloActivated(h)
      PROVE  sockets' = [sockets EXCEPT ![h.session] = h.slots]
  BY <1>3 DEF HelloAlone, HelloActivated, Welcome
<1>4. ASSUME NEW s \in Session, Disconnect(s) \/ ClientStopped(s)
      PROVE  sockets' = [sockets EXCEPT ![s] = {}]
  BY <1>4 DEF Disconnect, ClientStopped
<1>5. CASE Expire \/ Restart
  BY <1>5 DEF Expire, Restart
<1>6. CASE OwnerStep
  BY <1>2, <1>6 DEF OwnerStep, CompleteUpload, ConfirmOwnerProof, Cancel
<1>7. CASE SocketStep
  BY <1>1, <1>2, <1>3, <1>4, <1>7 DEF SocketStep, HelloAssigned, HelloRefused, SessionHeartbeat
<1>8. CASE LeaseStep
  BY <1>2, <1>8 DEF LeaseStep, Split, SplitRefused, Yield, SatResult, UnsatCandidate, StoreProof,
                    UnsatProof
<1>9. CASE VerifierStep
  BY <1>2, <1>9 DEF VerifierStep, SatAnswered, ProofAnswered
<1>10. CASE ClockStep
  BY <1>2, <1>5, <1>10 DEF ClockStep, LeaseLapses, PermitLapses, Alarm
<1>11. CASE UNCHANGED vars
  BY <1>2, <1>11 DEF vars
<1> QED BY <1>5, <1>6, <1>7, <1>8, <1>9, <1>10, <1>11 DEF Next, Deleted

\* So the connected slots stay declared ones.
LEMMA StepDeclares == IInv /\ Declares /\ [Next]_vars => Declares'
<1> SUFFICES ASSUME IInv, Declares, [Next]_vars, NEW s \in Session, NEW x \in sockets'[s]
             PROVE  <<s, x>> \in Declared
  BY DEF Declares
<1>1. CASE \A z \in Session : sockets'[z] \subseteq sockets[z]
  BY <1>1 DEF Declares
<1>2. ASSUME NEW h \in HelloMessages, sockets' = [sockets EXCEPT ![h.session] = h.slots]
      PROVE  <<s, x>> \in Declared
  <2>1. h.slots \subseteq Slot
    BY InputsAssumption DEF Hello
  <2>2. CASE s = h.session
    BY <1>2, <2>1, <2>2 DEF Declared, Slots, IInv
  <2>3. CASE s # h.session
    BY <1>2, <2>3 DEF Declares, IInv
  <2> QED BY <2>2, <2>3
<1> QED BY <1>1, <1>2, SocketsNarrow

\* Where leases are renewed in time and browsers keep their slots, no slot has
\* two leases.
Seated == IInv /\ Declares /\ Alone(db)

LEMMA StepSeated == ASSUME Stable PROVE Seated /\ [Next]_vars => Seated'
<1> SUFFICES ASSUME Seated, [Next]_vars PROVE Seated'
  OBVIOUS
<1>1. IInv' /\ Declares'
  BY StepSound, StepDeclares DEF Seated, Sound
<1>2. Trusted \subseteq Declared
  BY DEF Trusted, ConnectedSlots, Declares, Seated
<1>3. \A h \in HelloMessages : {h.session} \X h.slots \subseteq Declared
  BY InputsAssumption DEF Hello, Declared, Slots
<1>4. Alone(db')
  BY <1>2, <1>3, StepFits DEF Fitting, Serves, Seated
<1> QED BY <1>1, <1>4 DEF Seated, Alone, Active, Seat

\* dispatchPendingWork never leases a second task to a slot that has one: as
\* long as no lease goes past its deadline and each browser comes back with the
\* slots it had, whatever sockets, verifiers and evictions do.
THEOREM SlotsHaveOneLease ==
    ASSUME "lapse" \notin Faults,
           \A h, k \in HelloMessages : h.session = k.session => h.slots = k.slots
    PROVE  Spec => []OneLeasePerSlot
<1>1. Stable
  BY DEF Stable
<1>2. Init => Seated
  <2>1. Init => \A l \in LeaseId : ~Active(db, l)
    BY DEF Init, Active, NoRow
  <2>2. Init => Declares
    BY DEF Init, Declares
  <2> QED BY <2>1, <2>2, InitIInv DEF Seated, Alone
<1>3. Seated /\ [Next]_vars => Seated'
  BY <1>1, StepSeated
<1>4. Seated => OneLeasePerSlot
  BY DEF Seated, Alone, OneLeasePerSlot, BusyLeases, Current, Seat
<1> QED BY <1>2, <1>3, <1>4, PTL DEF Spec

\* What it takes to lease to a session in quarantine: a HELLO that waited.
LEMMA QuarantineStep ==
    ASSUME IInv, [Next]_vars, NEW l \in LeaseId, ~Active(db, l), db'.lease[l].status = "ACTIVE",
           db'.lease[l].session \in db.quarantined
    PROVE  \E h \in HelloMessages : h.session = db'.lease[l].session /\ HelloActivated(h)
<1>1. Active(db', l) /\ Seat(db', l) \notin Trusted
  BY DEF Active, Seat, Trusted, ConnectedSlots
<1>2. PICK h \in HelloMessages : Welcomes(h) /\ Seat(db', l) \in {h.session} \X h.slots
  BY <1>1, StepFits DEF Fitting, Serves
<1>3. h.session = db'.lease[l].session
  BY <1>2 DEF Seat
<1>4. ~HelloAlone(h)
  BY <1>3 DEF HelloAlone, Admissible
<1> QED BY <1>2, <1>3, <1>4 DEF Welcomes

\* handleHello tests the quarantine before it awaits the directory and not
\* after: that is the one way work reaches a session in quarantine.
THEOREM OnlyTheWaitingSlipThrough == Spec => CondemnedWhileWaiting
<1>1. IInv /\ [Next]_vars =>
        [\A l \in LeaseId :
            ~Active(db, l) /\ db'.lease[l].status = "ACTIVE" /\ db'.lease[l].session \in db.quarantined
            => \E h \in HelloMessages : h.session = db'.lease[l].session /\ HelloActivated(h)]_vars
  BY QuarantineStep
<1> QED BY <1>1, Inductive, PTL DEF Spec, CondemnedWhileWaiting

\* Only a HELLO with an assignment waits for the directory.
Waiting == \A h \in HelloMessages : [kind |-> "HELLO", hello |-> h] \in calls => h.assigned

LEMMA StepWaiting == IInv /\ Waiting /\ [Next]_vars => Waiting'
<1> SUFFICES ASSUME IInv, Waiting, [Next]_vars,
                    NEW h \in HelloMessages, [kind |-> "HELLO", hello |-> h] \in calls'
             PROVE  h.assigned
  BY DEF Waiting
<1> DEFINE c == [kind |-> "HELLO", hello |-> h]
<1>1. CASE calls' \subseteq calls
  BY <1>1 DEF Waiting
<1>2. ASSUME NEW k \in HelloMessages, HelloAssigned(k) PROVE h.assigned
  <2>1. CASE c \in calls
    BY <2>1 DEF Waiting
  <2>2. CASE c = [kind |-> "HELLO", hello |-> k]
    <3>1. c.hello = h /\ c.hello = k
      BY <2>2
    <3> QED BY <1>2, <3>1 DEF HelloAssigned
  <2> QED BY <1>2, <2>1, <2>2 DEF HelloAssigned
<1>3. ASSUME NEW l \in LeaseId, SatResult(l) \/ UnsatProof(l) PROVE h.assigned
  <2>1. PICK kind \in {"SAT", "PROOF"} : calls' = calls \cup {Verification(l, kind)}
    BY <1>3 DEF SatResult, UnsatProof
  <2>2. c # Verification(l, kind)
    <3>1. c.kind = "HELLO" /\ Verification(l, kind).kind = kind
      BY DEF Verification
    <3> QED BY <3>1
  <2> QED BY <2>1, <2>2 DEF Waiting
<1>4. CASE OwnerStep
  BY <1>1, <1>4 DEF OwnerStep, CompleteUpload, ConfirmOwnerProof, Cancel
<1>5. CASE SocketStep
  BY <1>1, <1>2, <1>5 DEF SocketStep, HelloAlone, HelloActivated, HelloRefused, Disconnect,
                          ClientStopped, SessionHeartbeat
<1>6. CASE LeaseStep
  BY <1>1, <1>3, <1>6 DEF LeaseStep, Split, SplitRefused, Yield, UnsatCandidate, StoreProof
<1>7. CASE VerifierStep
  BY <1>1, <1>7 DEF VerifierStep, SatAnswered, ProofAnswered
<1>8. CASE ClockStep
  BY <1>1, <1>8 DEF ClockStep, LeaseLapses, PermitLapses, Alarm, Expire
<1>9. CASE Restart \/ UNCHANGED vars
  BY <1>1, <1>9 DEF Restart, vars
<1> QED BY <1>4, <1>5, <1>6, <1>7, <1>8, <1>9 DEF Next, Deleted

\* So where browsers come on their own, a session that sent a false model or
\* proof is given no work any more.
THEOREM QuarantineStops ==
    ASSUME \A h \in HelloMessages : ~h.assigned PROVE Spec => QuarantineStopsWork
<1>1. Init => Waiting
  BY DEF Init, Waiting
<1>2. Spec => []Waiting
  BY <1>1, StepWaiting, Inductive, PTL DEF Spec
<1>3. IInv /\ Waiting /\ [Next]_vars =>
        [\A l \in LeaseId : ~Active(db, l) /\ db'.lease[l].status = "ACTIVE" =>
            db'.lease[l].session \notin db.quarantined]_vars
  BY QuarantineStep DEF HelloActivated, Waiting
<1> QED BY <1>2, <1>3, Inductive, PTL DEF Spec, QuarantineStopsWork

=============================================================================
