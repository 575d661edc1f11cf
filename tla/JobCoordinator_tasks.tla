------------------------- MODULE JobCoordinator_tasks -------------------------
(***************************************************************************)
(* What becomes of the tasks of a JobCoordinator, for every number of      *)
(* sessions, slots, tasks and leases and every formula: an UNSAT verdict   *)
(* rests on checked proofs that cover every assignment, no part of the     *)
(* search space is forgotten, a task has one owner, a split has one pair.  *)
(*                                                                         *)
(* As in JobCoordinator_proofs most of a handler is bookkeeping.  Shift    *)
(* says what the bookkeeping of leases and the queue may do to a task, in  *)
(* the terms these invariants need; every helper of the model is shown to  *)
(* be one, every shift keeps the invariant, and each handler is then a     *)
(* change of its own followed by a shift.                                  *)
(***************************************************************************)
EXTENDS JobCoordinator_proofs

\* The task waits in the queue, or the lease that holds it is ACTIVE.
Held(d, t) ==
    \/ d.state[t] = "READY"
    \/ /\ d.state[t] = "LEASED"
       /\ d.holder[t] \in LeaseId /\ TaskOf(d.holder[t]) = t /\ Active(d, d.holder[t])

\* The ACTIVE leases are the holders of the leased tasks.
Sole(d) ==
    \A l \in LeaseId : Active(d, l) =>
        d.state[TaskOf(l)] = "LEASED" /\ d.holder[TaskOf(l)] = l

\* The leases issued for a task are numbered up to its count.
Issued(d) == \A l \in LeaseId : d.lease[l].status # "NONE" => l[2] <= d.count[TaskOf(l)]

\* A lease, once issued, stays on record with its session, and new ones count.
Issues(d, e) ==
    /\ \A t \in Task : d.count[t] <= e.count[t]
    /\ \A l \in LeaseId :
          /\ d.lease[l].status # "NONE" =>
                e.lease[l].status # "NONE" /\ e.lease[l].session = d.lease[l].session
          /\ e.lease[l].status # "NONE" =>
                d.lease[l].status # "NONE" \/ l[2] <= e.count[TaskOf(l)]

\* The tree and the proofs are those of d.
SameProofs(d, e) ==
    /\ e.rows = d.rows /\ e.parent = d.parent /\ e.cube = d.cube
    /\ e.proof = d.proof /\ e.artifact = d.artifact
    /\ \A l \in LeaseId : <<l, "PROOF">> \in e.processed <=> <<l, "PROOF">> \in d.processed

\* e is d after work was handed out or taken back: a task whose state changed
\* is in the queue or held, and one that nobody holds stays where it is unless
\* it waits in the queue.
Shift(d, e) ==
    /\ SameProofs(d, e) /\ Issues(d, e)
    /\ e.job = d.job \/ (Running(d) /\ e.job = "RUNNING")
    /\ \A t \in Task :
          /\ Held(d, t) \/ e.state[t] # d.state[t] => Held(e, t)
          /\ d.holder[t] = NoLease /\ d.state[t] # "READY" =>
                e.state[t] = d.state[t] /\ e.holder[t] = NoLease
    /\ Sole(d) => Sole(e)

-----------------------------------------------------------------------------
(* The row updates handlers share are shifts.                              *)

\* Counts are numbers.
LEMMA CountsAreNumbers ==
    ASSUME NEW d \in Database
    PROVE  /\ \A t \in Task : d.count[t] \in Nat
           /\ \A l \in LeaseId : l[2] \in Nat /\ TaskOf(l) \in Task /\ l # NoLease
BY SizesAssumption, LeaseIds DEF Database, LeaseId

\* Doing nothing is a shift.
LEMMA ShiftReflexive ==
    ASSUME NEW d \in Database PROVE Shift(d, d)
BY CountsAreNumbers DEF Shift, SameProofs, Issues

\* Two shifts are one.
LEMMA ShiftTransitive ==
    ASSUME NEW d \in Database, NEW e \in Database, NEW f \in Database, Shift(d, e), Shift(e, f)
    PROVE  Shift(d, f)
<1>1. SameProofs(d, f)
  BY DEF Shift, SameProofs
<1>2. Issues(d, f)
  <2>1. \A t \in Task : d.count[t] <= e.count[t] /\ e.count[t] <= f.count[t]
                        /\ d.count[t] \in Nat /\ e.count[t] \in Nat /\ f.count[t] \in Nat
    BY CountsAreNumbers DEF Shift, Issues
  <2>2. \A l \in LeaseId :
          /\ l[2] \in Nat /\ TaskOf(l) \in Task
          /\ d.lease[l].status # "NONE" =>
                e.lease[l].status # "NONE" /\ e.lease[l].session = d.lease[l].session
          /\ e.lease[l].status # "NONE" =>
                f.lease[l].status # "NONE" /\ f.lease[l].session = e.lease[l].session
          /\ e.lease[l].status # "NONE" => d.lease[l].status # "NONE" \/ l[2] <= e.count[TaskOf(l)]
          /\ f.lease[l].status # "NONE" => e.lease[l].status # "NONE" \/ l[2] <= f.count[TaskOf(l)]
    BY CountsAreNumbers DEF Shift, Issues
  <2>3. \A t \in Task : d.count[t] <= f.count[t]
    BY <2>1
  <2>4. ASSUME NEW l \in LeaseId, f.lease[l].status # "NONE", d.lease[l].status = "NONE"
        PROVE  l[2] <= f.count[TaskOf(l)]
    BY <2>1, <2>2, <2>4
  <2>5. \A l \in LeaseId : d.lease[l].status # "NONE" =>
          f.lease[l].status # "NONE" /\ f.lease[l].session = d.lease[l].session
    BY <2>2
  <2> QED BY <2>3, <2>4, <2>5 DEF Issues
<1>3. f.job = d.job \/ (Running(d) /\ f.job = "RUNNING")
  BY DEF Shift, Running
<1>4. ASSUME NEW t \in Task
      PROVE  /\ Held(d, t) \/ f.state[t] # d.state[t] => Held(f, t)
             /\ d.holder[t] = NoLease /\ d.state[t] # "READY" =>
                   f.state[t] = d.state[t] /\ f.holder[t] = NoLease
  BY DEF Shift
<1>5. Sole(d) => Sole(f)
  BY DEF Shift
<1> QED BY <1>1, <1>2, <1>3, <1>4, <1>5 DEF Shift

\* A lease issued before a shift is one after it.
LEMMA ShiftIssued ==
    ASSUME NEW d \in Database, NEW e \in Database, Issues(d, e), Issued(d) PROVE Issued(e)
<1> SUFFICES ASSUME NEW l \in LeaseId, e.lease[l].status # "NONE"
             PROVE  l[2] <= e.count[TaskOf(l)]
  BY DEF Issued
<1>1. /\ l[2] \in Nat /\ d.count[TaskOf(l)] \in Nat /\ e.count[TaskOf(l)] \in Nat
      /\ d.count[TaskOf(l)] <= e.count[TaskOf(l)]
  BY CountsAreNumbers DEF Issues
<1>2. d.lease[l].status # "NONE" => l[2] <= d.count[TaskOf(l)]
  BY DEF Issued
<1> QED BY <1>1, <1>2 DEF Issues

\* A change of the lease table that closes no lease and opens none.
LEMMA RowsShift ==
    ASSUME NEW d \in Database, NEW rows \in [LeaseId -> LeaseRow],
           \A l \in LeaseId : /\ rows[l].status = d.lease[l].status
                              /\ rows[l].session = d.lease[l].session
    PROVE  Shift(d, [d EXCEPT !.lease = rows])
<1> DEFINE e == [d EXCEPT !.lease = rows]
<1>1. /\ e.rows = d.rows /\ e.parent = d.parent /\ e.cube = d.cube /\ e.artifact = d.artifact
      /\ e.proof = d.proof /\ e.processed = d.processed /\ e.count = d.count
      /\ e.job = d.job /\ e.state = d.state /\ e.holder = d.holder /\ e.lease = rows
  BY DEF Database
<1> HIDE DEF e
<1>2. SameProofs(d, e) /\ Issues(d, e)
  BY <1>1, CountsAreNumbers DEF SameProofs, Issues
<1>3. \A l \in LeaseId : Active(e, l) <=> Active(d, l)
  BY <1>1 DEF Active
<1>4. \A t \in Task : Held(d, t) => Held(e, t)
  BY <1>1, <1>3 DEF Held
<1>5. Sole(d) => Sole(e)
  BY <1>1, <1>3 DEF Sole
<1>6. Shift(d, e)
  BY <1>1, <1>2, <1>4, <1>5 DEF Shift
<1> QED BY <1>6 DEF e

\* A change of the prover and quarantine flags, or of the messages remembered
\* other than proofs.
LEMMA FlagsShift ==
    ASSUME NEW d \in Database, NEW e \in Database,
           e.rows = d.rows, e.parent = d.parent, e.cube = d.cube, e.artifact = d.artifact,
           e.proof = d.proof, e.count = d.count, e.job = d.job, e.state = d.state,
           e.holder = d.holder, e.lease = d.lease,
           \A l \in LeaseId : <<l, "PROOF">> \in e.processed <=> <<l, "PROOF">> \in d.processed
    PROVE  Shift(d, e)
<1>1. SameProofs(d, e) /\ Issues(d, e)
  BY CountsAreNumbers DEF SameProofs, Issues
<1>2. \A t \in Task : Held(d, t) => Held(e, t)
  BY DEF Held, Active
<1>3. Sole(d) => Sole(e)
  BY DEF Sole, Active
<1> QED BY <1>1, <1>2, <1>3 DEF Shift

\* Requeueing the tasks of closed leases is a shift.
LEMMA RequeueShift ==
    ASSUME NEW d \in Database, NEW ls, NoLease \notin ls,
           NEW s \in LeaseStatus, s \notin {"ACTIVE", "NONE"}
    PROVE  Shift(d, Requeue(d, ls, s))
<1> DEFINE e == Requeue(d, ls, s)
<1>1. /\ e.rows = d.rows /\ e.parent = d.parent /\ e.cube = d.cube
      /\ e.artifact = d.artifact /\ e.proof = d.proof /\ e.processed = d.processed
      /\ e.count = d.count /\ e.job = d.job
      /\ e.lease = CloseLeases(d, ls, s)
      /\ e.state = [t \in Task |-> IF d.holder[t] \in ls THEN "READY" ELSE d.state[t]]
      /\ e.holder = [t \in Task |-> IF d.holder[t] \in ls THEN NoLease ELSE d.holder[t]]
  BY DEF Requeue, Database
<1> HIDE DEF e
<1>2. \A l \in LeaseId :
        /\ e.lease[l].session = d.lease[l].session
        /\ d.lease[l].status = "NONE" <=> e.lease[l].status = "NONE"
        /\ Active(e, l) <=> Active(d, l) /\ l \notin ls
  <2>1. d.lease \in [LeaseId -> LeaseRow]
    BY DEF Database
  <2> QED BY <1>1, <2>1 DEF CloseLeases, LeaseRow, Active
<1>3. SameProofs(d, e) /\ Issues(d, e)
  BY <1>1, <1>2, CountsAreNumbers DEF SameProofs, Issues
<1>4. \A t \in Task : Held(d, t) \/ e.state[t] # d.state[t] => Held(e, t)
  BY <1>1, <1>2 DEF Held
<1>5. Sole(d) => Sole(e)
  BY <1>1, <1>2, LeaseIds DEF Sole
<1>6. Shift(d, e)
  BY <1>1, <1>3, <1>4, <1>5 DEF Shift
<1> QED BY <1>6 DEF e

-----------------------------------------------------------------------------
(* Dispatch is a shift.                                                    *)

\* Leasing READY tasks to idle slots is a shift.
LEMMA WithWorkShift ==
    ASSUME NEW d \in Database, Issued(d), NEW served \in SUBSET Slots,
           NEW w \in Assignments(d, served)
    PROVE  Shift(d, WithWork(d, w))
<1> DEFINE e == WithWork(d, w)
           taken == {t \in Task : \E p \in DOMAIN w : w[p] = t}
           slotFor(t) == CHOOSE p \in DOMAIN w : w[p] = t
           new == {l \in LeaseId : TaskOf(l) \in taken /\ l[2] = d.count[TaskOf(l)] + 1}
           row(l) == [status |-> "ACTIVE", session |-> slotFor(TaskOf(l))[1],
                      slot |-> slotFor(TaskOf(l))[2], lapsed |-> FALSE, permit |-> NoSlot]
<1>1. /\ e.rows = d.rows /\ e.parent = d.parent /\ e.cube = d.cube /\ e.artifact = d.artifact
      /\ e.proof = d.proof /\ e.processed = d.processed
      /\ e.job = (IF taken # {} THEN "RUNNING" ELSE d.job)
      /\ e.state = [t \in Task |-> IF t \in taken THEN "LEASED" ELSE d.state[t]]
      /\ e.holder = [t \in Task |-> IF t \in taken THEN <<t, d.count[t] + 1>> ELSE d.holder[t]]
      /\ e.count = [t \in Task |-> IF t \in taken THEN d.count[t] + 1 ELSE d.count[t]]
      /\ e.lease = [l \in LeaseId |-> IF l \in new THEN row(l) ELSE d.lease[l]]
  BY DEF WithWork, Database
<1> HIDE DEF e, slotFor
<1>2. \A t \in taken : /\ d.state[t] = "READY" /\ d.count[t] < MaxLeases /\ Running(d)
                       /\ d.count[t] \in Nat /\ d.count[t] + 1 \in 1..MaxLeases
  <2> SUFFICES ASSUME NEW t \in taken
               PROVE  /\ d.state[t] = "READY" /\ d.count[t] < MaxLeases /\ Running(d)
                      /\ d.count[t] \in Nat /\ d.count[t] + 1 \in 1..MaxLeases
    OBVIOUS
  <2>1. t \in Task /\ t # NoTask
    BY DEF Task, NoTask
  <2>2. d.state[t] = "READY" /\ d.count[t] < MaxLeases /\ Running(d)
    BY <2>1, AssignmentsShape
  <2> QED BY <2>1, <2>2, CountsAreNumbers, SizesAssumption
<1>3. \A t \in taken : /\ <<t, d.count[t] + 1>> \in new
                       /\ TaskOf(<<t, d.count[t] + 1>>) = t
  <2>1. ASSUME NEW t \in taken
        PROVE  <<t, d.count[t] + 1>> \in LeaseId /\ TaskOf(<<t, d.count[t] + 1>>) = t
    BY <1>2, <2>1, LeaseIds
  <2> QED BY <2>1
<1>4. \A l \in new : d.lease[l].status = "NONE" /\ l = <<TaskOf(l), d.count[TaskOf(l)] + 1>>
  <2> SUFFICES ASSUME NEW l \in new
               PROVE  d.lease[l].status = "NONE" /\ l = <<TaskOf(l), d.count[TaskOf(l)] + 1>>
    OBVIOUS
  <2>1. d.count[TaskOf(l)] \in Nat /\ l[2] = d.count[TaskOf(l)] + 1
    BY <1>2
  <2>2. ~(l[2] <= d.count[TaskOf(l)])
    BY <2>1
  <2>3. l = <<l[1], l[2]>>
    BY DEF LeaseId
  <2> QED BY <2>1, <2>2, <2>3 DEF Issued, TaskOf
<1>5. \A l \in LeaseId : /\ l \in new => Active(e, l) /\ e.lease[l].status # "NONE"
                         /\ l \notin new => e.lease[l] = d.lease[l] /\ (Active(e, l) <=> Active(d, l))
  BY <1>1 DEF Active
<1> HIDE DEF row, new
<1>6. Issues(d, e)
  <2>1. \A t \in Task : d.count[t] <= e.count[t]
    BY <1>1, CountsAreNumbers
  <2>2. \A l \in LeaseId : d.lease[l].status # "NONE" =>
          e.lease[l].status # "NONE" /\ e.lease[l].session = d.lease[l].session
    BY <1>4, <1>5
  <2>3. ASSUME NEW l \in LeaseId, e.lease[l].status # "NONE", d.lease[l].status = "NONE"
        PROVE  l[2] <= e.count[TaskOf(l)]
    <3>1. l \in new
      BY <1>5, <2>3
    <3>2. TaskOf(l) \in taken /\ l[2] = d.count[TaskOf(l)] + 1
      BY <3>1 DEF new
    <3> QED BY <1>1, <1>2, <3>2
  <2> QED BY <2>1, <2>2, <2>3 DEF Issues
<1>7. \A t \in taken : Held(e, t) /\ d.state[t] = "READY"
  <2> SUFFICES ASSUME NEW t \in taken PROVE Held(e, t) /\ d.state[t] = "READY"
    OBVIOUS
  <2>1. e.state[t] = "LEASED" /\ e.holder[t] = <<t, d.count[t] + 1>>
    BY <1>1
  <2>2. e.holder[t] \in new /\ TaskOf(e.holder[t]) = t /\ e.holder[t] \in LeaseId
    BY <1>3, <2>1 DEF new
  <2> QED BY <1>2, <1>5, <2>1, <2>2 DEF Held
<1>8. \A t \in Task \ taken : /\ e.state[t] = d.state[t] /\ e.holder[t] = d.holder[t]
                              /\ Held(d, t) => Held(e, t)
  <2> SUFFICES ASSUME NEW t \in Task \ taken
               PROVE  /\ e.state[t] = d.state[t] /\ e.holder[t] = d.holder[t]
                      /\ Held(d, t) => Held(e, t)
    OBVIOUS
  <2>1. e.state[t] = d.state[t] /\ e.holder[t] = d.holder[t]
    BY <1>1
  <2>2. \A l \in new : TaskOf(l) # t
    BY DEF new
  <2> QED BY <1>5, <2>1, <2>2 DEF Held
<1>9. Sole(d) => Sole(e)
  <2> SUFFICES ASSUME Sole(d), NEW l \in LeaseId, Active(e, l)
               PROVE  e.state[TaskOf(l)] = "LEASED" /\ e.holder[TaskOf(l)] = l
    BY DEF Sole
  <2>0. TaskOf(l) \in Task
    BY LeaseIds
  <2>1. CASE l \in new
    <3>1. TaskOf(l) \in taken
      BY <2>1 DEF new
    <3> QED BY <1>1, <1>4, <2>1, <3>1
  <2>2. CASE l \notin new
    <3>1. d.state[TaskOf(l)] = "LEASED" /\ d.holder[TaskOf(l)] = l
      BY <1>5, <2>2 DEF Sole
    <3>2. TaskOf(l) \notin taken
      BY <1>2, <3>1
    <3> QED BY <1>8, <2>0, <3>1, <3>2
  <2> QED BY <2>1, <2>2
<1>10. SameProofs(d, e) /\ (e.job = d.job \/ (Running(d) /\ e.job = "RUNNING"))
  BY <1>1, <1>2 DEF SameProofs
<1> HIDE DEF taken
<1>11. Shift(d, e)
  BY <1>6, <1>7, <1>8, <1>9, <1>10 DEF Shift
<1> QED BY <1>11 DEF e

\* Issuing permits is a shift.
LEMMA WithPermitsShift ==
    ASSUME NEW d \in Database, NEW P PROVE Shift(d, WithPermits(d, P))
<1> DEFINE rows == [l \in LeaseId |->
                      IF l \in P THEN [d.lease[l] EXCEPT !.permit = d.lease[l].slot] ELSE d.lease[l]]
<1>1. rows \in [LeaseId -> LeaseRow]
      /\ \A l \in LeaseId : rows[l].status = d.lease[l].status /\ rows[l].session = d.lease[l].session
  BY DEF Database, LeaseRow
<1>2. WithPermits(d, P) = [d EXCEPT !.lease = rows]
  BY DEF WithPermits
<1> HIDE DEF rows
<1> QED BY <1>1, <1>2, RowsShift

\* What a database must be for work to be handed out.
Ready(d) == d \in Database /\ Known(d) /\ Issued(d)

\* Bookkeeping that is a shift leaves it so.
LEMMA ReadyStays ==
    ASSUME NEW d, Ready(d), NEW e \in Database, Bookkeeping(d, e), Shift(d, e) PROVE Ready(e)
BY BookkeepingKnown, ShiftIssued DEF Ready, Shift

\* Handing out work and taking it back is a shift.
LEMMA UndeliveredShift ==
    ASSUME NEW d, Ready(d), NEW failing \in SUBSET Slots, NEW e \in Undelivered(d, failing)
    PROVE  Shift(d, e)
<1>0. d \in Database /\ Known(d) /\ Issued(d)
  BY DEF Ready
<1>1. CASE failing = {}
  BY <1>0, <1>1, ShiftReflexive DEF Undelivered
<1>2. CASE failing # {}
  <2>1. PICK w \in Assignments(d, failing) :
          e = Requeue(WithWork(d, w),
                      {WithWork(d, w).holder[w[p]] : p \in {q \in DOMAIN w : w[q] # NoTask}},
                      "EXPIRED")
    BY <1>2 DEF Undelivered
  <2> DEFINE f == WithWork(d, w)
             ls == {f.holder[w[p]] : p \in {q \in DOMAIN w : w[q] # NoTask}}
  <2>2. f \in Database /\ Bookkeeping(d, f) /\ ls \subseteq LeaseId
    BY <1>0, WithWorkBookkeeping
  <2>3. Shift(d, f) /\ NoLease \notin ls
    BY <1>0, <2>2, WithWorkShift, LeaseIds
  <2>4. "EXPIRED" \in LeaseStatus /\ Known(f)
    BY <1>0, <2>2, BookkeepingKnown DEF LeaseStatus
  <2> HIDE DEF f, ls
  <2>5. Shift(f, Requeue(f, ls, "EXPIRED")) /\ Requeue(f, ls, "EXPIRED") \in Database
    BY <2>2, <2>3, <2>4, RequeueShift, RequeueBookkeeping
  <2>6. Shift(d, Requeue(f, ls, "EXPIRED"))
    BY <1>0, <2>2, <2>3, <2>5, ShiftTransitive
  <2> QED BY <2>1, <2>6 DEF f, ls
<1> QED BY <1>1, <1>2

\* A round of work and permits is a shift.
LEMMA DispatchedToShift ==
    ASSUME NEW d, Ready(d), NEW conn, NEW served \in SUBSET Slots,
           NEW e \in DispatchedTo(d, conn, served)
    PROVE  Shift(d, e)
<1>0. d \in Database /\ Known(d) /\ Issued(d)
  BY DEF Ready
<1>1. PICK w \in Assignments(d, served) :
        \E P \in PermitSets(WithWork(d, w), conn) : e = WithPermits(WithWork(d, w), P)
  BY DEF DispatchedTo
<1>1a. PICK P : e = WithPermits(WithWork(d, w), P)
  BY <1>1
<1> DEFINE f == WithWork(d, w)
<1>2. f \in Database /\ Bookkeeping(d, f) /\ Shift(d, f)
  BY <1>0, WithWorkBookkeeping, WithWorkShift
<1>3. Known(f)
  BY <1>0, <1>2, BookkeepingKnown
<1> HIDE DEF f
<1>4. WithPermits(f, P) \in Database /\ Shift(f, WithPermits(f, P))
  BY <1>2, <1>3, WithPermitsBookkeeping, WithPermitsShift
<1> QED BY <1>0, <1>1a, <1>2, <1>4, ShiftTransitive DEF f

\* dispatchPendingWork is a shift.
LEMMA DispatchShift ==
    ASSUME NEW d, Ready(d), NEW conn, NEW welcomed \in SUBSET Slots,
           NEW e \in Dispatch(d, conn, welcomed)
    PROVE  e \in Database /\ Bookkeeping(d, e) /\ Shift(d, e) /\ Ready(e)
<1>0. d \in Database /\ Known(d) /\ Issued(d)
  BY DEF Ready
<1>1. \E failing, served \in SUBSET Slots : \E f \in Undelivered(d, failing) :
        e \in DispatchedTo(f, conn, served)
  <2> DEFINE connected == ConnectedSlots(d, conn)
             failing(broken) == {p \in connected \ welcomed : p[1] \in broken}
             served(broken) == (connected \cup welcomed) \ failing(broken)
  <2>1. connected \subseteq Slots
    BY DEF ConnectedSlots, Slots
  <2>2. PICK broken : e \in DispatchRound(d, conn, welcomed, broken)
    BY DEF Dispatch
  <2>2a. \E f \in Undelivered(d, failing(broken)) : e \in DispatchedTo(f, conn, served(broken))
    BY <2>2 DEF DispatchRound
  <2>3. failing(broken) \in SUBSET Slots /\ served(broken) \in SUBSET Slots
    BY <2>1
  <2> QED BY <2>2a, <2>3
<1>1a. PICK failing \in SUBSET Slots, served \in SUBSET Slots :
         \E f \in Undelivered(d, failing) : e \in DispatchedTo(f, conn, served)
  BY <1>1
<1>1b. PICK f \in Undelivered(d, failing) : e \in DispatchedTo(f, conn, served)
  BY <1>1a
<1>2. f \in Database /\ Bookkeeping(d, f) /\ Shift(d, f)
  BY <1>0, UndeliveredBookkeeping, UndeliveredShift
<1>3. Ready(f)
  BY <1>2, ReadyStays
<1>4. Shift(f, e)
  BY <1>1b, <1>3, DispatchedToShift
<1>5. e \in Database /\ Bookkeeping(d, e)
  BY <1>0, DispatchBookkeeping
<1>6. Shift(d, e)
  BY <1>0, <1>2, <1>4, <1>5, ShiftTransitive
<1> QED BY <1>5, <1>6, ReadyStays

\* Quarantining a session and taking back its leases is a shift.
LEMMA QuarantineShift ==
    ASSUME NEW d \in Database, NEW s \in Session
    PROVE  Shift(d, Quarantine(d, s))
<1> DEFINE mine == SessionLeases(d, s)
           back == {t \in Task : d.state[t] = "LEASED" /\ d.holder[t] \in mine}
           closed == CloseLeases(d, mine, "SUPERSEDED")
           rows == DropPermits(closed, mine)
           e == Quarantine(d, s)
<1>1. /\ e.rows = d.rows /\ e.parent = d.parent /\ e.cube = d.cube /\ e.artifact = d.artifact
      /\ e.proof = d.proof /\ e.processed = d.processed /\ e.count = d.count /\ e.job = d.job
      /\ e.state = [t \in Task |-> IF t \in back THEN "READY" ELSE d.state[t]]
      /\ e.holder = [t \in Task |-> IF t \in back THEN NoLease ELSE d.holder[t]]
      /\ e.lease = rows
  BY DEF Quarantine, Database
<1>2. \A l \in LeaseId :
        /\ rows[l].session = d.lease[l].session
        /\ rows[l].status = IF l \in mine THEN "SUPERSEDED" ELSE d.lease[l].status
        /\ l \in mine => Active(d, l)
  <2>1. d.lease \in [LeaseId -> LeaseRow]
    BY DEF Database
  <2>2. \A l \in LeaseId : closed[l] = IF l \in mine THEN [d.lease[l] EXCEPT !.status = "SUPERSEDED"]
                                       ELSE d.lease[l]
    BY DEF CloseLeases, SessionLeases
  <2>3. \A l \in LeaseId : l \in mine => Active(d, l)
    BY DEF SessionLeases
  <2> HIDE DEF closed, mine
  <2>4. \A l \in LeaseId : rows[l] = IF l \in mine THEN [closed[l] EXCEPT !.permit = NoSlot] ELSE closed[l]
    BY DEF DropPermits
  <2>5. \A l \in LeaseId : /\ closed[l].session = d.lease[l].session
                           /\ closed[l].status = IF l \in mine THEN "SUPERSEDED" ELSE d.lease[l].status
                           /\ closed[l] \in LeaseRow
    BY <2>1, <2>2 DEF LeaseRow, LeaseStatus
  <2> HIDE DEF rows
  <2> QED BY <2>3, <2>4, <2>5 DEF LeaseRow
<1> HIDE DEF e, rows, closed, mine
<1>3. \A l \in LeaseId : /\ e.lease[l].session = d.lease[l].session
                         /\ d.lease[l].status = "NONE" <=> e.lease[l].status = "NONE"
                         /\ Active(e, l) <=> Active(d, l) /\ l \notin mine
  BY <1>1, <1>2 DEF Active
<1>4. SameProofs(d, e) /\ Issues(d, e)
  BY <1>1, <1>3, CountsAreNumbers DEF SameProofs, Issues
<1>5. \A t \in Task : Held(d, t) \/ e.state[t] # d.state[t] => Held(e, t)
  BY <1>1, <1>3 DEF Held
<1>6. \A t \in Task : d.holder[t] = NoLease => e.holder[t] = NoLease /\ e.state[t] = d.state[t]
  BY <1>1, LeaseIds DEF mine, SessionLeases
<1>7. Sole(d) => Sole(e)
  BY <1>1, <1>3, LeaseIds DEF Sole
<1>8. Shift(d, e)
  BY <1>1, <1>4, <1>5, <1>6, <1>7 DEF Shift
<1> QED BY <1>8 DEF e

-----------------------------------------------------------------------------
(* The invariant of the tasks, and that a shift keeps it.                  *)

\* A checked proof covers m; one only the owner checked counts for that label.
Proved(d, m, label) ==
    \E l \in LeaseId :
        /\ Covers(d.cube[TaskOf(l)], m)
        /\ \/ d.artifact[l] = "SERVER_CERTIFIED"
           \/ d.artifact[l] = "OWNER_VERIFIED" /\ label = "UNSAT_OWNER_VERIFIED"

\* Certificates, and the job's verdict, rest on proofs that cover them.
Evidence(d) ==
    /\ \A t \in Task : d.state[t] \in Certified =>
          \A m \in Assignment : Covers(d.cube[t], m) => Proved(d, m, d.state[t])
    /\ d.job \in Certified => \A m \in Assignment : Proved(d, m, d.job)

\* The handler of a report of lease l.
Report(d, l, kind) == [kind |-> kind, lease |-> l, session |-> d.lease[l].session]

\* A report is of a lease on record and names its session; a proof is judged
\* once: it waits for its answer, or it has one and is remembered.
Filed(d, c) ==
    /\ \A x \in c : x.kind # "HELLO" =>
          /\ x.lease \in LeaseId
          /\ d.lease[x.lease].status # "NONE" /\ x.session = d.lease[x.lease].session
          /\ x.kind = "PROOF" => /\ d.artifact[x.lease] = "UPLOADED"
                                 /\ <<x.lease, "PROOF">> \notin d.processed
    /\ \A l \in LeaseId :
          d.artifact[l] \notin {"NONE", "UPLOADED"} => <<l, "PROOF">> \in d.processed

\* Somebody has the task or will get it (Pending, of any database).
Waits(d, c, t) ==
    \/ Held(d, t)
    \/ \E l \in LeaseId : TaskOf(l) = t /\
          \/ d.state[t] = "VERIFYING_SAT" /\ Report(d, l, "SAT") \in c
          \/ d.state[t] = "VERIFYING_UNSAT" /\ Report(d, l, "PROOF") \in c
          \/ d.state[t] = "VERIFYING_UNSAT" /\ d.artifact[l] = "OWNER_CHECK_REQUIRED"

Open(job) == job \in {"UPLOADING", "QUEUED", "RUNNING"}

\* No part of the search space of an open job is forgotten.
Searched(d, c) ==
    Open(d.job) =>
        \A m \in Assignment : \E t \in Task :
            Covers(d.cube[t], m) /\ (d.state[t] \in Certified \/ Waits(d, c, t))

\* Where a task with children is not found any more.
InUse == {"READY", "LEASED", "VERIFYING_SAT", "VERIFYING_UNSAT"}

\* While no model is reported: a task with children has the exact pair, nobody
\* works on it, and it is not proof work.
Whole(d, c) ==
    /\ \A t \in Task : d.state[t] = "ABSENT" => d.holder[t] = NoLease /\ ~d.proof[t]
    /\ \A t \in Task : d.state[t] = "SPLIT" => Children(d, t) # {}
    /\ \A t \in Task : Children(d, t) # {} =>
          ExactPair(d, t) /\ ~d.proof[t] /\ d.holder[t] = NoLease /\ d.state[t] \notin InUse
    /\ \A x \in c : x.kind # "SAT" /\ (x.kind = "PROOF" => d.proof[TaskOf(x.lease)])

\* While no proof is reported, there are none.
Unproved(d, c) ==
    /\ \A l \in LeaseId : d.artifact[l] = "NONE"
    /\ \A x \in c : x.kind # "PROOF"

Work(d, c) ==
    /\ Issued(d) /\ Filed(d, c) /\ Evidence(d)
    /\ "restart" \notin Faults => Searched(d, c)
    /\ "SAT" \notin Sends => Whole(d, c)
    /\ "PROOF" \notin Sends => Sole(d) /\ Unproved(d, c)

\* Evidence and the ledger of proofs, after a shift.
LEMMA ShiftFiled ==
    ASSUME NEW d \in Database, NEW e \in Database, Shift(d, e), NEW c, Filed(d, c)
    PROVE  Filed(e, c)
BY DEF Shift, SameProofs, Issues, Filed

LEMMA ShiftEvidence ==
    ASSUME NEW d \in Database, NEW e \in Database, Shift(d, e), Evidence(d)
    PROVE  Evidence(e)
<1>1. \A m, label : Proved(e, m, label) <=> Proved(d, m, label)
  BY DEF Shift, SameProofs, Proved
<1>2. \A t \in Task : e.state[t] \in Certified => e.state[t] = d.state[t] /\ e.cube[t] = d.cube[t]
  BY DEF Shift, SameProofs, Held, Certified
<1>3. e.job \in Certified => e.job = d.job
  BY DEF Shift, Certified
<1> QED BY <1>1, <1>2, <1>3 DEF Evidence

\* A task that waits still does.
LEMMA ShiftWaits ==
    ASSUME NEW d \in Database, NEW e \in Database, Shift(d, e), NEW c, Filed(d, c),
           NEW t \in Task, d.state[t] \in Certified \/ Waits(d, c, t)
    PROVE  e.state[t] \in Certified \/ Waits(e, c, t)
<1>1. CASE e.state[t] # d.state[t] \/ Held(d, t)
  BY <1>1 DEF Shift, Waits
<1>2. CASE e.state[t] = d.state[t] /\ ~Held(d, t)
  <2>1. ASSUME NEW l \in LeaseId, NEW kind \in {"SAT", "PROOF"}, Report(d, l, kind) \in c
        PROVE  Report(e, l, kind) \in c
    <3>1. d.lease[l].status # "NONE"
      BY <2>1 DEF Report, Filed
    <3>2. e.lease[l].session = d.lease[l].session
      BY <3>1 DEF Shift, Issues
    <3> QED BY <2>1, <3>2 DEF Report
  <2>2. e.artifact = d.artifact
    BY DEF Shift, SameProofs
  <2> QED BY <1>2, <2>1, <2>2 DEF Waits
<1> QED BY <1>1, <1>2

LEMMA ShiftSearched ==
    ASSUME NEW d \in Database, NEW e \in Database, Shift(d, e), NEW c, Filed(d, c), Searched(d, c)
    PROVE  Searched(e, c)
<1>1. Open(e.job) => Open(d.job)
  BY DEF Shift, Open, Running
<1>2. e.cube = d.cube
  BY DEF Shift, SameProofs
<1> QED BY <1>1, <1>2, ShiftWaits DEF Searched

\* The same tasks exist, so a task has the same children.
LEMMA SameChildren ==
    ASSUME NEW d, NEW e, e.parent = d.parent, e.cube = d.cube,
           \A t \in Task : e.state[t] = "ABSENT" <=> d.state[t] = "ABSENT"
    PROVE  /\ \A t : Children(e, t) = Children(d, t)
           /\ \A t : ExactPair(e, t) <=> ExactPair(d, t)
<1>1. \A t : Children(e, t) = Children(d, t)
  BY DEF Children
<1> QED BY <1>1 DEF ExactPair

LEMMA ShiftWhole ==
    ASSUME NEW d \in Database, NEW e \in Database, Shift(d, e), NEW c, Whole(d, c)
    PROVE  Whole(e, c)
<1>1. \A t \in Task : d.holder[t] = NoLease /\ d.state[t] # "READY" =>
                          e.state[t] = d.state[t] /\ e.holder[t] = NoLease
  BY DEF Shift
<1>2. \A t \in Task : e.state[t] # d.state[t] => e.state[t] \in {"READY", "LEASED"}
  BY DEF Shift, Held
<1>3. \A t \in Task : e.state[t] = "ABSENT" <=> d.state[t] = "ABSENT"
  BY <1>1, <1>2 DEF Whole
<1>4. e.parent = d.parent /\ e.cube = d.cube /\ e.proof = d.proof
  BY DEF Shift, SameProofs
<1>5. /\ \A t : Children(e, t) = Children(d, t)
      /\ \A t : ExactPair(e, t) <=> ExactPair(d, t)
  BY <1>3, <1>4, SameChildren
<1>6. \A t \in Task : Children(e, t) # {} =>
        ExactPair(e, t) /\ ~e.proof[t] /\ e.holder[t] = NoLease /\ e.state[t] \notin InUse
  BY <1>1, <1>4, <1>5 DEF Whole, InUse
<1>7. \A t \in Task : e.state[t] = "ABSENT" => e.holder[t] = NoLease /\ ~e.proof[t]
  BY <1>1, <1>3, <1>4 DEF Whole
<1>8. \A t \in Task : e.state[t] = "SPLIT" => Children(e, t) # {}
  BY <1>2, <1>5 DEF Whole
<1> QED BY <1>4, <1>6, <1>7, <1>8 DEF Whole

\* A shift keeps the invariant.
LEMMA ShiftWork ==
    ASSUME NEW d \in Database, NEW e \in Database, Shift(d, e), NEW c, Work(d, c)
    PROVE  Work(e, c)
<1>1. Issued(e)
  BY ShiftIssued DEF Work, Shift
<1>2. Filed(e, c) /\ Evidence(e)
  BY ShiftFiled, ShiftEvidence DEF Work
<1>3. "restart" \notin Faults => Searched(e, c)
  BY ShiftSearched DEF Work
<1>4. "SAT" \notin Sends => Whole(e, c)
  BY ShiftWhole DEF Work
<1>5. "PROOF" \notin Sends => Sole(e) /\ Unproved(e, c)
  BY DEF Work, Shift, SameProofs, Unproved
<1> QED BY <1>1, <1>2, <1>3, <1>4, <1>5 DEF Work

\* So does a dispatch.
LEMMA DispatchWork ==
    ASSUME NEW d \in Database, Known(d), NEW c, Work(d, c),
           NEW conn, NEW welcomed \in SUBSET Slots, NEW e \in Dispatch(d, conn, welcomed)
    PROVE  e \in Database /\ Work(e, c)
<1>1. Ready(d)
  BY DEF Ready, Work
<1> QED BY <1>1, DispatchShift, ShiftWork

-----------------------------------------------------------------------------
(* Closing the job, and the climb of certificates.                         *)

\* States of the tasks of a job that is over.
Final == {"CANCELLED", "UNKNOWN", "SAT_VERIFIED"}

\* A change that closes the job keeps the invariant, if an UNSAT verdict has
\* its proofs.
LEMMA ClosingWork ==
    ASSUME NEW d \in Database, NEW e \in Database, NEW c, Work(d, c),
           e.parent = d.parent, e.cube = d.cube, e.proof = d.proof, e.artifact = d.artifact,
           e.processed = d.processed, e.count = d.count,
           \A l \in LeaseId : /\ ~Active(e, l) /\ e.lease[l].session = d.lease[l].session
                              /\ e.lease[l].status = "NONE" <=> d.lease[l].status = "NONE",
           \A t \in Task : e.state[t] = d.state[t] \/ e.state[t] \in Final,
           "SAT" \notin Sends => \A t \in Task : d.state[t] = "ABSENT" => e.state[t] = "ABSENT",
           \A t \in Task : e.holder[t] \in {NoLease, d.holder[t]},
           ~Open(e.job), e.job \in Certified => \A m \in Assignment : Proved(d, m, e.job)
    PROVE  Work(e, c)
<1>1. Issued(e)
  BY DEF Work, Issued
<1>2. Filed(e, c)
  BY DEF Work, Filed
<1>3. Evidence(e)
  <2>1. \A m, label : Proved(e, m, label) <=> Proved(d, m, label)
    BY DEF Proved
  <2>2. \A t \in Task : e.state[t] \in Certified => e.state[t] = d.state[t]
    BY DEF Final, Certified
  <2> QED BY <2>1, <2>2 DEF Work, Evidence
<1>4. Searched(e, c)
  BY DEF Searched
<1>5. ASSUME "SAT" \notin Sends PROVE Whole(e, c)
  <2>0. Whole(d, c)
    BY <1>5 DEF Work
  <2>1. \A t \in Task : e.state[t] = "ABSENT" <=> d.state[t] = "ABSENT"
    BY <1>5 DEF Final
  <2>2. /\ \A t : Children(e, t) = Children(d, t)
        /\ \A t : ExactPair(e, t) <=> ExactPair(d, t)
    BY <2>1, SameChildren
  <2>3. \A t \in Task : e.state[t] = "SPLIT" => d.state[t] = "SPLIT"
    BY DEF Final
  <2>4. \A t \in Task : e.state[t] \in InUse => d.state[t] \in InUse
    BY DEF Final, InUse
  <2>5. \A t \in Task : d.holder[t] = NoLease => e.holder[t] = NoLease
    OBVIOUS
  <2> QED BY <2>0, <2>1, <2>2, <2>3, <2>4, <2>5 DEF Whole
<1>6. "PROOF" \notin Sends => Sole(e) /\ Unproved(e, c)
  BY DEF Work, Sole, Unproved
<1> QED BY <1>1, <1>2, <1>3, <1>4, <1>5, <1>6 DEF Work

\* What closing the leases of everybody leaves of the lease table.
LEMMA AllClosedRows ==
    ASSUME NEW d \in Database, NEW s \in LeaseStatus \ {"ACTIVE", "NONE"}
    PROVE  \A l \in LeaseId :
              LET row == CloseLeases(d, LeaseId, s)[l] IN
              /\ row.status # "ACTIVE" /\ row.session = d.lease[l].session
              /\ row.status = "NONE" <=> d.lease[l].status = "NONE"
<1>1. d.lease \in [LeaseId -> LeaseRow]
  BY DEF Database
<1> QED BY <1>1 DEF CloseLeases, LeaseRow, Active

\* An assignment of a cube lies in one of the two branches of its split.
LEMMA OneBranch ==
    ASSUME NEW cube, NEW x \in Literal, NEW m, Covers(cube, m)
    PROVE  Covers(cube \cup {x}, m) \/ Covers(cube \cup {-x}, m)
<1>1. x \in Int /\ -x \in Int /\ -(-x) = x /\ x # 0
  BY SizesAssumption DEF Literal
<1>2. Satisfies(m, x) \/ Satisfies(m, -x)
  <2>1. CASE x > 0
    <3>1. Satisfies(m, x) = m[x]
      BY <2>1 DEF Satisfies
    <3>2. ~(-x > 0)
      BY <1>1, <2>1
    <3>3. Satisfies(m, -x) = ~m[x]
      BY <1>1, <3>2 DEF Satisfies
    <3> QED BY <3>1, <3>3
  <2>2. CASE ~(x > 0)
    <3>1. Satisfies(m, x) = ~m[-x]
      BY <2>2 DEF Satisfies
    <3>2. -x > 0
      BY <1>1, <2>2
    <3>3. Satisfies(m, -x) = m[-x]
      BY <3>2 DEF Satisfies
    <3> QED BY <3>1, <3>3
  <2> QED BY <2>1, <2>2
<1> QED BY <1>2 DEF Covers

\* The proofs under a label of the climb cover its cube: the youngest task for
\* which they did not would have a child of which that was true already.
LEMMA ClimbCovered ==
    ASSUME NEW d \in Database, Tree(d), Evidence(d), NEW t \in Task, NEW s \in Climbs(d, t)
    PROVE  /\ DOMAIN s = {p \in Task : d.state[p] = "SPLIT"}
           /\ \A p \in DOMAIN s : /\ s[p] \in Certified \cup {"SPLIT"}
                                  /\ s[p] \in Certified =>
                                        \A m \in Assignment : Covers(d.cube[p], m) => Proved(d, m, s[p])
<1> DEFINE Bare == {p \in DOMAIN s : s[p] \in Certified /\
                      \E m \in Assignment : Covers(d.cube[p], m) /\ ~Proved(d, m, s[p])}
<1>1. /\ DOMAIN s = {p \in Task : d.state[p] = "SPLIT"}
      /\ \A p \in DOMAIN s :
            /\ s[p] \in Certified \cup {"SPLIT"}
            /\ s[p] # "SPLIT" => /\ ExactPair(d, p) /\ AllCertified(Labels(d, s, p))
                                 /\ s[p] = PairLabel(Labels(d, s, p))
  BY DEF Climbs
<1>2. SUFFICES ASSUME Bare # {} PROVE FALSE
  BY <1>1
<1>3. PICK p \in Bare : \A q \in Bare : q <= p
  BY <1>1, <1>2, YoungestTask
<1>4. /\ p \in Task /\ ExactPair(d, p) /\ AllCertified(Labels(d, s, p))
      /\ s[p] = PairLabel(Labels(d, s, p))
  BY <1>1, <1>3 DEF Certified
<1>4a. PICK m \in Assignment : Covers(d.cube[p], m) /\ ~Proved(d, m, s[p])
  BY <1>3
<1>5. ASSUME NEW c \in Children(d, p), Covers(d.cube[c], m) PROVE Proved(d, m, s[p])
  <2>1. c \in Task /\ p < c
    BY DEF Children, Tree
  <2>2. Relabelled(d, s, c) \in Certified /\ Relabelled(d, s, c) \in Labels(d, s, p)
    BY <1>4 DEF AllCertified, Labels
  <2>3. Proved(d, m, Relabelled(d, s, c))
    <3>1. CASE c \in DOMAIN s
      <4>1. s[c] \in Certified
        BY <2>2, <3>1 DEF Relabelled
      <4>2. ~(c <= p)
        BY <1>4, <2>1, SizesAssumption DEF Task
      <4>3. Proved(d, m, s[c])
        BY <1>3, <1>5, <3>1, <4>1, <4>2
      <4> QED BY <3>1, <4>3 DEF Relabelled
    <3>2. CASE c \notin DOMAIN s
      BY <1>5, <2>1, <2>2, <3>2 DEF Relabelled, Evidence
    <3> QED BY <3>1, <3>2
  <2>4. Relabelled(d, s, c) = "UNSAT_OWNER_VERIFIED" => s[p] = "UNSAT_OWNER_VERIFIED"
    BY <1>4, <2>2 DEF PairLabel
  <2> QED BY <2>3, <2>4 DEF Proved
<1>6. PICK a, b \in Task, x \in Literal :
        /\ Children(d, p) = {a, b}
        /\ d.cube[a] = d.cube[p] \cup {x}
        /\ d.cube[b] = d.cube[p] \cup {-x}
  BY <1>4 DEF ExactPair
<1>7. Covers(d.cube[a], m) \/ Covers(d.cube[b], m)
  BY <1>4a, <1>6, OneBranch
<1> QED BY <1>4a, <1>5, <1>6, <1>7

\* closeUnsatJob, when the root is certified.
LEMMA CloseUnsatJobWork ==
    ASSUME NEW d \in Database, Tree(d), CloseUnsatJob(d) \in Database,
           NEW c, Work(d, c), d.state[Root] \in Certified
    PROVE  Work(CloseUnsatJob(d), c)
<1> DEFINE e == CloseUnsatJob(d)
           open == {t \in Task : d.state[t] \in {"READY", "LEASED"}}
<1>1. /\ e.parent = d.parent /\ e.cube = d.cube /\ e.proof = d.proof /\ e.artifact = d.artifact
      /\ e.processed = d.processed /\ e.count = d.count
      /\ e.job = d.state[Root] /\ e.lease = CloseLeases(d, LeaseId, "SUPERSEDED")
      /\ e.state = [t \in Task |-> IF t \in open THEN "CANCELLED" ELSE d.state[t]]
      /\ e.holder = [t \in Task |-> IF t \in open THEN NoLease ELSE d.holder[t]]
  BY DEF CloseUnsatJob, Database
<1> HIDE DEF e
<1>2. "SUPERSEDED" \in LeaseStatus \ {"ACTIVE", "NONE"}
  BY DEF LeaseStatus
<1>3. \A l \in LeaseId : /\ ~Active(e, l) /\ e.lease[l].session = d.lease[l].session
                         /\ e.lease[l].status = "NONE" <=> d.lease[l].status = "NONE"
  BY <1>1, <1>2, AllClosedRows DEF Active
<1>4. /\ \A t \in Task : e.state[t] = d.state[t] \/ e.state[t] \in Final
      /\ \A t \in Task : d.state[t] = "ABSENT" => e.state[t] = "ABSENT"
      /\ \A t \in Task : e.holder[t] \in {NoLease, d.holder[t]}
  BY <1>1 DEF Final
<1>5. ~Open(e.job)
  BY <1>1 DEF Open, Certified
<1>6. \A m \in Assignment : Proved(d, m, e.job)
  <2>1. Root \in Task /\ \A m : Covers(d.cube[Root], m)
    BY SizesAssumption DEF Root, Task, Tree, Covers
  <2> QED BY <1>1, <2>1 DEF Work, Evidence
<1>7. e \in Database
  BY DEF e
<1>8. Work(e, c)
  BY <1>1, <1>3, <1>4, <1>5, <1>6, <1>7, ClosingWork
<1> QED BY <1>8 DEF e

\* propagateUnsatCoverage keeps the invariant.
LEMMA PropagateWork ==
    ASSUME NEW d, Good(d), FormulaParses, NEW c, Work(d, c), NEW t \in Task, NEW e \in Propagate(d, t)
    PROVE  Work(e, c)
<1>1. d \in Database /\ Known(d) /\ Tree(d) /\ Evidence(d)
  BY DEF Good, Work
<1>2. PICK s \in Climbs(d, t) :
        LET f == [d EXCEPT !.state = [u \in Task |-> Relabelled(d, s, u)]]
        IN  e = f \/ (f.state[Root] \in Certified /\ e = CloseUnsatJob(f))
  BY DEF Propagate
<1> DEFINE states == [u \in Task |-> Relabelled(d, s, u)]
           f == [d EXCEPT !.state = states]
<1>3. \A p \in Task :
        /\ states[p] = d.state[p] \/ (d.state[p] = "SPLIT" /\ states[p] \in Certified)
        /\ states[p] \in Certified =>
              \A m \in Assignment : Covers(d.cube[p], m) => Proved(d, m, states[p])
  <2>1. ASSUME NEW p \in Task, p \in DOMAIN s
        PROVE  states[p] = s[p] /\ d.state[p] = "SPLIT" /\ s[p] \in Certified \cup {"SPLIT"}
    BY <1>1, <2>1, ClimbCovered DEF Relabelled
  <2>2. ASSUME NEW p \in Task, p \notin DOMAIN s PROVE states[p] = d.state[p]
    BY <2>2 DEF Relabelled
  <2> HIDE DEF states
  <2>3. ASSUME NEW p \in Task, states[p] \in Certified,
               NEW m \in Assignment, Covers(d.cube[p], m)
        PROVE  Proved(d, m, states[p])
    <3>1. CASE p \in DOMAIN s
      <4>1. states[p] = s[p]
        BY <2>1, <3>1
      <4>2. Proved(d, m, s[p])
        BY <1>1, <2>3, <3>1, <4>1, ClimbCovered
      <4> QED BY <4>1, <4>2
    <3>2. CASE p \notin DOMAIN s
      <4>1. states[p] = d.state[p]
        BY <2>2, <3>2
      <4>2. Proved(d, m, d.state[p])
        BY <1>1, <2>3, <4>1 DEF Evidence
      <4> QED BY <4>1, <4>2
    <3> QED BY <3>1, <3>2
  <2>4. ASSUME NEW p \in Task
        PROVE  states[p] = d.state[p] \/ (d.state[p] = "SPLIT" /\ states[p] \in Certified)
    BY <2>1, <2>2, <2>4
  <2> QED BY <2>3, <2>4
<1> HIDE DEF states
<1>4. states \in [Task -> TaskState]
  <2>1. DOMAIN states = Task /\ states = [u \in Task |-> states[u]]
    BY DEF states
  <2> QED BY <1>1, <1>3, <2>1 DEF Database, TaskState, Certified
<1>5. f \in Database
  BY <1>1, <1>4 DEF Database
<1>6. /\ f.rows = d.rows /\ f.parent = d.parent /\ f.cube = d.cube /\ f.artifact = d.artifact
      /\ f.job = d.job /\ f.state = states /\ f.holder = d.holder /\ f.lease = d.lease
      /\ f.proof = d.proof /\ f.processed = d.processed /\ f.count = d.count
  BY <1>1 DEF Database
<1>7. e = f \/ (f.state[Root] \in Certified /\ e = CloseUnsatJob(f))
  BY <1>2 DEF states
<1> HIDE DEF f
<1>8. Work(f, c)
  <2>1. Issued(f) /\ Filed(f, c)
    BY <1>6 DEF Work, Issued, Filed
  <2>2. Evidence(f)
    <3>1. \A m, label : Proved(f, m, label) <=> Proved(d, m, label)
      BY <1>6 DEF Proved
    <3> QED BY <1>1, <1>3, <1>6, <3>1 DEF Evidence
  <2>3. "restart" \notin Faults => Searched(f, c)
    <3>1. ASSUME NEW u \in Task, d.state[u] \in Certified \/ Waits(d, c, u)
          PROVE  f.state[u] \in Certified \/ Waits(f, c, u)
      BY <1>3, <1>6, <3>1 DEF Waits, Held, Active, Report, Certified
    <3> QED BY <1>6, <3>1 DEF Work, Searched
  <2>4. "SAT" \notin Sends => Whole(f, c)
    <3> SUFFICES ASSUME "SAT" \notin Sends PROVE Whole(f, c)
      OBVIOUS
    <3>0. Whole(d, c)
      BY DEF Work
    <3>1. \A u \in Task : f.state[u] = "ABSENT" <=> d.state[u] = "ABSENT"
      BY <1>3, <1>6 DEF Certified
    <3>2. /\ \A u : Children(f, u) = Children(d, u)
          /\ \A u : ExactPair(f, u) <=> ExactPair(d, u)
      BY <1>6, <3>1, SameChildren
    <3>3. \A u \in Task : /\ f.state[u] = "SPLIT" => d.state[u] = "SPLIT"
                          /\ f.state[u] \in InUse => d.state[u] \in InUse
      BY <1>3, <1>6 DEF Certified, InUse
    <3> QED BY <1>6, <3>0, <3>1, <3>2, <3>3 DEF Whole
  <2>5. "PROOF" \notin Sends => Sole(f) /\ Unproved(f, c)
    <3>1. \A u \in Task : d.state[u] = "LEASED" => f.state[u] = "LEASED"
      BY <1>3, <1>6
    <3> QED BY <1>6, <3>1, LeaseIds DEF Work, Sole, Unproved, Active
  <2> QED BY <2>1, <2>2, <2>3, <2>4, <2>5 DEF Work
<1>9. CASE e = f
  BY <1>8, <1>9
<1>10. CASE f.state[Root] \in Certified /\ e = CloseUnsatJob(f)
  <2>1. Good(e)
    BY PropagateGood
  <2>2. Tree(f) /\ e \in Database
    BY <1>1, <1>6, <2>1 DEF Tree, Good
  <2> QED BY <1>5, <1>8, <1>10, <2>2, CloseUnsatJobWork
<1> QED BY <1>7, <1>9, <1>10

-----------------------------------------------------------------------------
(* Every step keeps the invariant: the bookkeeping of sessions.            *)

\* A database that can be dispatched from.
Settled(d, c) == d \in Database /\ Known(d) /\ Work(d, c)

Tasks == IInv /\ Work(db, calls)

\* Bookkeeping that is a shift leaves it settled.
LEMMA ShiftSettled ==
    ASSUME NEW d, NEW c, Settled(d, c), NEW e \in Database, Bookkeeping(d, e), Shift(d, e)
    PROVE  Settled(e, c)
<1>1. d \in Database /\ Known(d) /\ Work(d, c)
  BY DEF Settled
<1> QED BY <1>1, BookkeepingKnown, ShiftWork DEF Settled

\* So the steps that end in a dispatch of a settled database are done with.
LEMMA RespondWork ==
    ASSUME NEW d, Settled(d, calls), Respond(d), UNCHANGED <<sockets, calls>>
    PROVE  Work(db', calls')
<1>1. db' \in Dispatch(d, sockets, {}) /\ {} \in SUBSET Slots /\ calls' = calls
  BY DEF Respond, DispatchAll
<1>2. d \in Database /\ Known(d) /\ Work(d, calls)
  BY DEF Settled
<1>3. Work(db', calls)
  BY <1>1, <1>2, DispatchWork
<1> QED BY <1>1, <1>3

\* The database is settled between steps.
LEMMA SettledNow == Tasks => Settled(db, calls)
BY DEF Tasks, IInv, Good, Settled

\* Which HELLOs wait for the directory does not matter.
LEMMA HelloCallsWork ==
    ASSUME NEW d, NEW c, NEW k, Work(d, c),
           \A x : x \in c \/ x \in k => (x \in c <=> x \in k) \/ x.kind = "HELLO"
    PROVE  Work(d, k)
<1>1. \A x : x.kind # "HELLO" => (x \in c <=> x \in k)
  OBVIOUS
<1>2. \A l, kind : kind # "HELLO" => (Report(d, l, kind) \in c <=> Report(d, l, kind) \in k)
  BY <1>1 DEF Report
<1>3. Filed(d, k)
  BY <1>1 DEF Work, Filed
<1>4. "restart" \notin Faults => Searched(d, k)
  BY <1>2 DEF Work, Searched, Waits
<1>5. "SAT" \notin Sends => Whole(d, k)
  BY <1>1 DEF Work, Whole
<1>6. "PROOF" \notin Sends => Unproved(d, k)
  BY <1>1 DEF Work, Unproved
<1> QED BY <1>3, <1>4, <1>5, <1>6 DEF Work

\* Moving the leases of a reconnecting session to its slots is a shift.
LEMMA WithSlotsShift ==
    ASSUME NEW d \in Database, Known(d), NEW s, NEW slots \in SUBSET Slot,
           NEW r \in Reconciled(d, s, slots)
    PROVE  Shift(d, WithSlots(d, r))
<1> DEFINE kept == {l \in DOMAIN r : r[l] # NoSlot}
           e == Requeue(d, DOMAIN r \ kept, "YIELDED")
           rows == [l \in LeaseId |-> IF l \in kept THEN [e.lease[l] EXCEPT !.slot = r[l]] ELSE e.lease[l]]
<1>1. DOMAIN r \subseteq LeaseId /\ \A l \in DOMAIN r : r[l] \in Slot \cup {NoSlot}
  BY DEF Reconciled, SessionLeases
<1>2. NoLease \notin DOMAIN r \ kept /\ "YIELDED" \in LeaseStatus
  BY <1>1, LeaseIds DEF LeaseStatus
<1>3. e \in Database /\ Shift(d, e)
  BY <1>2, RequeueBookkeeping, RequeueShift
<1>4. WithSlots(d, r) = [e EXCEPT !.lease = rows]
  BY DEF WithSlots
<1>5. WithSlots(d, r) \in Database
  BY WithSlotsBookkeeping
<1> HIDE DEF e
<1>6. /\ rows \in [LeaseId -> LeaseRow]
      /\ \A l \in LeaseId : rows[l].status = e.lease[l].status /\ rows[l].session = e.lease[l].session
  <2>1. e.lease \in [LeaseId -> LeaseRow] /\ \A l \in kept : r[l] \in Slot \cup {NoSlot}
    BY <1>1, <1>3 DEF Database
  <2> HIDE DEF kept
  <2> QED BY <2>1 DEF LeaseRow
<1> HIDE DEF rows
<1>7. Shift(e, [e EXCEPT !.lease = rows])
  BY <1>3, <1>6, RowsShift
<1> QED BY <1>3, <1>4, <1>5, <1>7, ShiftTransitive

\* Whether a session is a prover.
LEMMA ProversShift ==
    ASSUME NEW d \in Database, NEW S \in SUBSET Session
    PROVE  Shift(d, [d EXCEPT !.provers = S])
<1> DEFINE e == [d EXCEPT !.provers = S]
<1>1. e \in Database
  BY DEF Database
<1>2. /\ e.rows = d.rows /\ e.parent = d.parent /\ e.cube = d.cube /\ e.artifact = d.artifact
      /\ e.proof = d.proof /\ e.count = d.count /\ e.job = d.job /\ e.state = d.state
      /\ e.holder = d.holder /\ e.lease = d.lease /\ e.processed = d.processed
  BY DEF Database
<1> HIDE DEF e
<1>3. Shift(d, e)
  BY <1>1, <1>2, FlagsShift
<1> QED BY <1>3 DEF e

\* A message other than a proof is remembered.
LEMMA RecordedShift ==
    ASSUME NEW d \in Database, NEW l \in LeaseId, NEW kind \in MessageKind, kind # "PROOF"
    PROVE  Shift(d, Recorded(d, l, kind))
<1> DEFINE e == Recorded(d, l, kind)
<1>1. e = [d EXCEPT !.processed = d.processed \cup {<<l, kind>>}]
  BY DEF Recorded
<1>2. e \in Database
  BY <1>1 DEF Database
<1>3. /\ e.rows = d.rows /\ e.parent = d.parent /\ e.cube = d.cube /\ e.artifact = d.artifact
      /\ e.proof = d.proof /\ e.count = d.count /\ e.job = d.job /\ e.state = d.state
      /\ e.holder = d.holder /\ e.lease = d.lease
      /\ e.processed = d.processed \cup {<<l, kind>>}
  BY <1>1 DEF Database
<1> HIDE DEF e
<1>4. \A k \in LeaseId : <<k, "PROOF">> \in e.processed <=> <<k, "PROOF">> \in d.processed
  BY <1>3
<1>5. Shift(d, e)
  BY <1>2, <1>3, <1>4, FlagsShift
<1> QED BY <1>5 DEF e

\* The rest of handleHello.
LEMMA WelcomeWork ==
    ASSUME Tasks, NEW h \in Hello, Welcome(h)
    PROVE  Work(db', calls)
<1> DEFINE s == h.session
           conn == [sockets EXCEPT ![s] = h.slots]
           S == IF h.prover THEN db.provers \cup {s} ELSE db.provers \ {s}
           profiled == [db EXCEPT !.provers = S]
<1>1. s \in Session /\ h.slots \in SUBSET Slot
  BY DEF Hello
<1>2. db \in Database /\ Known(db) /\ Settled(db, calls)
  BY SettledNow DEF Tasks, IInv, Good
<1>3. S \in SUBSET Session
  BY <1>1, <1>2 DEF Database
<1>4. profiled \in Database /\ Bookkeeping(db, profiled) /\ Shift(db, profiled)
  BY <1>2, <1>3, ProversBookkeeping, ProversShift
<1>5. PICK r \in Reconciled(profiled, s, h.slots) :
        db' \in Dispatch(WithSlots(profiled, r), conn, {s} \X h.slots)
  BY DEF Welcome
<1> HIDE DEF profiled, S
<1>6. Settled(profiled, calls)
  BY <1>2, <1>4, ShiftSettled
<1>7. profiled \in Database /\ Known(profiled)
  BY <1>6 DEF Settled
<1> DEFINE e == WithSlots(profiled, r)
<1>8. e \in Database /\ Bookkeeping(profiled, e) /\ Shift(profiled, e)
  BY <1>1, <1>7, WithSlotsBookkeeping, WithSlotsShift
<1> HIDE DEF e
<1>9. Settled(e, calls)
  BY <1>6, <1>8, ShiftSettled
<1>10. {s} \X h.slots \in SUBSET Slots
  BY <1>1 DEF Slots
<1>11. db' \in Dispatch(e, conn, {s} \X h.slots)
  BY <1>5 DEF e
<1> QED BY <1>9, <1>10, <1>11, DispatchWork DEF Settled

\* HELLO, with or without an assignment.
LEMMA HelloWork ==
    ASSUME Tasks, NEW h \in HelloMessages,
           HelloAlone(h) \/ HelloAssigned(h) \/ HelloActivated(h) \/ HelloRefused(h)
    PROVE  Work(db', calls')
<1> DEFINE hello == [kind |-> "HELLO", hello |-> h]
<1>1. h \in Hello /\ hello.kind = "HELLO"
  BY InputsAssumption
<1>2. calls' \in {calls, calls \cup {hello}, calls \ {hello}}
  BY DEF HelloAlone, HelloAssigned, HelloActivated, HelloRefused
<1>3. Work(db', calls)
  <2>1. CASE HelloAlone(h) \/ HelloActivated(h)
    BY <1>1, <2>1, WelcomeWork DEF HelloAlone, HelloActivated
  <2>2. CASE HelloAssigned(h) \/ HelloRefused(h)
    <3>1. db' = db
      BY <2>2 DEF HelloAssigned, HelloRefused
    <3> QED BY <3>1 DEF Tasks
  <2> QED BY <2>1, <2>2
<1> HIDE DEF hello
<1>4. \A x : x \in calls \/ x \in calls' => (x \in calls <=> x \in calls') \/ x.kind = "HELLO"
  BY <1>1, <1>2
<1> QED BY <1>3, <1>4, HelloCallsWork

\* A socket that drops.
LEMMA DisconnectWork == ASSUME Tasks, NEW s \in Session, Disconnect(s) PROVE Work(db', calls')
<1>1. db' = db /\ calls' = calls
  BY DEF Disconnect
<1> QED BY <1>1 DEF Tasks

\* Closing leases, requeueing their tasks and withdrawing their permits.
LEMMA ReleaseSettled ==
    ASSUME NEW d, NEW c, Settled(d, c), NEW ls \in SUBSET LeaseId,
           NEW s \in LeaseStatus, s \notin {"ACTIVE", "NONE"}
    PROVE  LET freed == Requeue(d, ls, s)
           IN  Settled([freed EXCEPT !.lease = DropPermits(freed.lease, ls)], c)
<1> DEFINE freed == Requeue(d, ls, s)
           rows == DropPermits(freed.lease, ls)
           e == [freed EXCEPT !.lease = rows]
<1>1. d \in Database /\ Known(d) /\ NoLease \notin ls
  BY LeaseIds DEF Settled
<1>2. freed \in Database /\ Shift(d, freed)
  BY <1>1, RequeueBookkeeping, RequeueShift
<1>3. e \in Database /\ Bookkeeping(d, e)
  BY <1>1, ReleaseBookkeeping
<1> HIDE DEF freed
<1>4. /\ rows \in [LeaseId -> LeaseRow]
      /\ \A l \in LeaseId : rows[l].status = freed.lease[l].status /\ rows[l].session = freed.lease[l].session
  <2>1. freed.lease \in [LeaseId -> LeaseRow]
    BY <1>2 DEF Database
  <2> QED BY <2>1 DEF DropPermits, LeaseRow
<1> HIDE DEF rows
<1>5. Shift(freed, e)
  BY <1>2, <1>4, RowsShift
<1>6. Shift(d, e)
  BY <1>1, <1>2, <1>3, <1>5, ShiftTransitive
<1> HIDE DEF e
<1>7. Settled(e, c)
  BY <1>3, <1>6, ShiftSettled
<1> QED BY <1>7 DEF e, freed, rows

\* A client that stops.
LEMMA ClientStoppedWork == ASSUME Tasks, NEW s \in Session, ClientStopped(s) PROVE Work(db', calls')
<1> DEFINE mine == SessionLeases(db, s)
           freed == Requeue(db, mine, "YIELDED")
           d == [freed EXCEPT !.lease = DropPermits(freed.lease, mine)]
           conn == [sockets EXCEPT ![s] = {}]
<1>1. mine \in SUBSET LeaseId /\ "YIELDED" \in LeaseStatus
  BY SessionLeasesAre DEF LeaseStatus
<1>2. db' \in Dispatch(d, conn, {}) /\ calls' = calls
  BY DEF ClientStopped, DispatchAll
<1> HIDE DEF mine
<1>3. Settled(d, calls)
  BY <1>1, ReleaseSettled, SettledNow
<1> HIDE DEF d
<1>4. {} \in SUBSET Slots
  OBVIOUS
<1> QED BY <1>2, <1>3, <1>4, DispatchWork DEF Settled

\* The lease table as a heartbeat, a lapse or a withdrawn permit leaves it.
LEMMA RowsRespondWork ==
    ASSUME Tasks, NEW rows \in [LeaseId -> LeaseRow],
           \A l \in LeaseId : rows[l].status = db.lease[l].status /\ rows[l].session = db.lease[l].session,
           \/ Respond([db EXCEPT !.lease = rows])
           \/ db' = [db EXCEPT !.lease = rows],
           UNCHANGED <<sockets, calls>>
    PROVE  Work(db', calls')
<1> DEFINE d == [db EXCEPT !.lease = rows]
<1>1. db \in Database /\ Known(db) /\ Settled(db, calls)
  BY SettledNow DEF Settled
<1>2. d \in Database /\ Bookkeeping(db, d) /\ Shift(db, d)
  BY <1>1, LeaseBookkeeping, RowsShift
<1> HIDE DEF d
<1>3. Settled(d, calls)
  BY <1>1, <1>2, ShiftSettled
<1>4. CASE Respond(d)
  BY <1>3, <1>4, RespondWork
<1>5. CASE db' = d
  BY <1>3, <1>5 DEF Settled
<1> QED BY <1>4, <1>5 DEF d

\* SESSION_HEARTBEAT.
LEMMA HeartbeatWork ==
    ASSUME Tasks, NEW s \in Session, NEW renewed, SessionHeartbeat(s, renewed)
    PROVE  Work(db', calls')
<1> DEFINE rows == [l \in LeaseId |->
                      IF l \in renewed THEN [db.lease[l] EXCEPT !.lapsed = FALSE] ELSE db.lease[l]]
<1>1. Respond([db EXCEPT !.lease = rows]) /\ UNCHANGED <<sockets, calls>>
  BY DEF SessionHeartbeat
<1>2. /\ rows \in [LeaseId -> LeaseRow]
      /\ \A l \in LeaseId : rows[l].status = db.lease[l].status /\ rows[l].session = db.lease[l].session
  <2>1. db.lease \in [LeaseId -> LeaseRow]
    BY DEF Tasks, IInv, Good, Database
  <2> QED BY <2>1 DEF LeaseRow
<1> HIDE DEF rows
<1> QED BY <1>1, <1>2, RowsRespondWork

\* One row of the lease table, with the status and session it had.
LEMMA OneRowWork ==
    ASSUME Tasks, NEW l \in LeaseId, NEW row \in LeaseRow,
           row.status = db.lease[l].status, row.session = db.lease[l].session,
           \/ Respond([db EXCEPT !.lease = [db.lease EXCEPT ![l] = row]])
           \/ db' = [db EXCEPT !.lease = [db.lease EXCEPT ![l] = row]],
           UNCHANGED <<sockets, calls>>
    PROVE  Work(db', calls')
<1> DEFINE rows == [db.lease EXCEPT ![l] = row]
<1>1. /\ rows \in [LeaseId -> LeaseRow]
      /\ \A k \in LeaseId : rows[k].status = db.lease[k].status /\ rows[k].session = db.lease[k].session
  BY DEF Tasks, IInv, Good, Database
<1> HIDE DEF rows
<1>2. Respond([db EXCEPT !.lease = rows]) \/ db' = [db EXCEPT !.lease = rows]
  BY DEF rows
<1> QED BY <1>1, <1>2, RowsRespondWork

\* A refused SPLIT, a lapsed permit, a lapsed lease.
LEMMA RowStepsWork ==
    ASSUME Tasks, NEW l \in LeaseId, SplitRefused(l) \/ PermitLapses(l) \/ LeaseLapses(l)
    PROVE  Work(db', calls')
<1> DEFINE row == db.lease[l]
           withdrawn == [row EXCEPT !.permit = NoSlot]
           lapsed == [row EXCEPT !.lapsed = TRUE, !.permit = NoSlot]
<1>1. row \in LeaseRow
  BY DEF Tasks, IInv, Good, Database
<1>2. withdrawn \in LeaseRow /\ withdrawn.status = row.status /\ withdrawn.session = row.session
  BY <1>1 DEF LeaseRow
<1>3. lapsed \in LeaseRow /\ lapsed.status = row.status /\ lapsed.session = row.session
  BY <1>1 DEF LeaseRow
<1>4. CASE SplitRefused(l) \/ PermitLapses(l)
  <2>1. \/ Respond([db EXCEPT !.lease = [db.lease EXCEPT ![l] = withdrawn]])
        \/ db' = [db EXCEPT !.lease = [db.lease EXCEPT ![l] = withdrawn]]
    BY <1>4 DEF SplitRefused, PermitLapses
  <2>2. UNCHANGED <<sockets, calls>>
    BY <1>4 DEF SplitRefused, PermitLapses
  <2> HIDE DEF withdrawn
  <2> QED BY <1>2, <2>1, <2>2, OneRowWork
<1>5. CASE LeaseLapses(l)
  <2>1. db' = [db EXCEPT !.lease = [db.lease EXCEPT ![l] = lapsed]] /\ UNCHANGED <<sockets, calls>>
    BY <1>5 DEF LeaseLapses
  <2> HIDE DEF lapsed
  <2> QED BY <1>3, <2>1, OneRowWork
<1> QED BY <1>4, <1>5

\* A message other than a proof is remembered, and the answer dispatches.
LEMMA RecordedWork ==
    ASSUME NEW d, Settled(d, calls), NEW l \in LeaseId, NEW kind \in MessageKind, kind # "PROOF",
           Respond(Recorded(d, l, kind)), UNCHANGED <<sockets, calls>>
    PROVE  Work(db', calls')
<1> DEFINE e == Recorded(d, l, kind)
<1>1. d \in Database /\ Known(d)
  BY DEF Settled
<1>2. e \in Database /\ Bookkeeping(d, e) /\ Shift(d, e)
  BY <1>1, RecordedBookkeeping, RecordedShift
<1> HIDE DEF e
<1>3. Settled(e, calls)
  BY <1>2, ShiftSettled
<1> QED BY <1>3, RespondWork DEF e

\* YIELD.
LEMMA YieldWork ==
    ASSUME Tasks, NEW l \in LeaseId, NEW unsupported, Yield(l, unsupported) PROVE Work(db', calls')
<1> DEFINE freed == Requeue(db, {l}, "YIELDED")
           dropped == [freed EXCEPT !.lease = DropPermits(freed.lease, {l})]
           S == IF unsupported THEN freed.provers \ {db.lease[l].session} ELSE freed.provers
           d == [dropped EXCEPT !.provers = S]
<1>1. "YIELDED" \in LeaseStatus /\ "YIELD" \in MessageKind
  BY DEF LeaseStatus, MessageKind
<1>2. freed \in Database
  BY <1>1, RequeueBookkeeping, LeaseIds DEF Tasks, IInv, Good
<1>3. Settled(dropped, calls)
  BY <1>1, ReleaseSettled, SettledNow
<1>4. Respond(Recorded(d, l, "YIELD")) /\ UNCHANGED <<sockets, calls>>
  BY <1>2 DEF Yield, Database
<1> HIDE DEF freed
<1>5. S \in SUBSET Session
  BY <1>2 DEF Database
<1> HIDE DEF S, dropped
<1>6. dropped \in Database /\ Known(dropped)
  BY <1>3 DEF Settled
<1>7. d \in Database /\ Bookkeeping(dropped, d) /\ Shift(dropped, d)
  BY <1>5, <1>6, ProversBookkeeping, ProversShift
<1> HIDE DEF d
<1>8. Settled(d, calls)
  BY <1>3, <1>7, ShiftSettled
<1> QED BY <1>1, <1>4, <1>8, RecordedWork

\* The alarm's batch.
LEMMA AlarmWork == ASSUME Tasks, Alarm PROVE Work(db', calls')
<1>1. PICK batch \in SUBSET LeaseId : Respond(Requeue(db, batch, "EXPIRED"))
  BY DEF Alarm
<1>2. UNCHANGED <<sockets, calls>> /\ "EXPIRED" \in LeaseStatus
  BY DEF Alarm, LeaseStatus
<1>3. Settled(db, calls) /\ db \in Database /\ Known(db) /\ NoLease \notin batch
  BY SettledNow, LeaseIds DEF Settled
<1> DEFINE d == Requeue(db, batch, "EXPIRED")
<1>4. d \in Database /\ Bookkeeping(db, d) /\ Shift(db, d)
  BY <1>2, <1>3, RequeueBookkeeping, RequeueShift
<1> HIDE DEF d
<1>5. Settled(d, calls)
  BY <1>3, <1>4, ShiftSettled
<1> QED BY <1>1, <1>2, <1>5, RespondWork DEF d

-----------------------------------------------------------------------------
(* A task goes to a verifier, comes back, or becomes proof work.           *)

\* From d to e only task t moved, with its leases and their proofs; no proof
\* that was checked is touched.
Moves(d, e, t) ==
    /\ e.parent = d.parent /\ e.cube = d.cube /\ e.count = d.count /\ e.job = d.job
    /\ \A u \in Task \ {t} :
          e.state[u] = d.state[u] /\ e.holder[u] = d.holder[u] /\ e.proof[u] = d.proof[u]
    /\ e.holder[t] \in {NoLease, d.holder[t]}
    /\ \A l \in LeaseId :
          /\ e.lease[l].session = d.lease[l].session
          /\ e.lease[l].status = "NONE" <=> d.lease[l].status = "NONE"
          /\ TaskOf(l) # t => e.lease[l].status = d.lease[l].status /\ e.artifact[l] = d.artifact[l]
          /\ d.artifact[l] \in {"SERVER_CERTIFIED", "OWNER_VERIFIED"} => e.artifact[l] = d.artifact[l]

\* What such a move may do to t when nobody reports models.
MovesLeaf(d, e, t) ==
    \/ e.state[t] = d.state[t] /\ e.holder[t] = d.holder[t] /\ e.proof[t] = d.proof[t]
    \/ /\ Children(d, t) = {} /\ d.state[t] # "ABSENT"
       /\ e.state[t] \notin {"ABSENT", "SPLIT"}

LEMMA MoveWork ==
    ASSUME NEW d \in Database, NEW e, NEW c, NEW k, NEW t \in Task,
           Work(d, c), Moves(d, e, t), Filed(e, k),
           e.state[t] \in Certified => \/ e.state[t] = d.state[t]
                                       \/ \A m : Covers(d.cube[t], m) => Proved(e, m, e.state[t]),
           \A l \in LeaseId, kind \in {"SAT", "PROOF"} :
              TaskOf(l) # t /\ Report(d, l, kind) \in c => Report(d, l, kind) \in k,
           Waits(d, c, t) => e.state[t] \in Certified \/ Waits(e, k, t),
           d.state[t] \in Certified => e.state[t] \in Certified \/ Waits(e, k, t) \/ ~Open(d.job),
           "SAT" \notin Sends => /\ MovesLeaf(d, e, t)
                                 /\ \A x \in k : x.kind # "SAT" /\ (x.kind = "PROOF" => e.proof[TaskOf(x.lease)]),
           "PROOF" \notin Sends => Sole(e) /\ Unproved(e, k)
    PROVE  Work(e, k)
<1>1. Issued(e)
  BY DEF Work, Issued, Moves
<1>2. Evidence(e)
  <2>1. \A m, label : Proved(d, m, label) => Proved(e, m, label)
    BY DEF Moves, Proved
  <2>2. Evidence(d) /\ e.cube = d.cube /\ e.job = d.job
    BY DEF Work, Moves
  <2>3. ASSUME NEW u \in Task, e.state[u] \in Certified, NEW m \in Assignment, Covers(e.cube[u], m)
        PROVE  Proved(e, m, e.state[u])
    <3>1. CASE e.state[u] = d.state[u]
      BY <2>1, <2>2, <2>3, <3>1 DEF Evidence
    <3>2. CASE e.state[u] # d.state[u]
      <4>1. u = t
        BY <3>2 DEF Moves
      <4> QED BY <2>2, <2>3, <3>2, <4>1
    <3> QED BY <3>1, <3>2
  <2>4. e.job \in Certified => \A m \in Assignment : Proved(e, m, e.job)
    BY <2>1, <2>2 DEF Evidence
  <2> QED BY <2>3, <2>4 DEF Evidence
<1>3. "restart" \notin Faults => Searched(e, k)
  <2>1. ASSUME Open(d.job), NEW u \in Task, d.state[u] \in Certified \/ Waits(d, c, u)
        PROVE  e.state[u] \in Certified \/ Waits(e, k, u)
    <3>1. CASE u = t
      BY <2>1, <3>1
    <3>2. CASE u # t
      <4>1. /\ e.state[u] = d.state[u] /\ e.holder[u] = d.holder[u]
            /\ \A l \in LeaseId : TaskOf(l) = u =>
                  /\ Active(e, l) <=> Active(d, l)
                  /\ e.artifact[l] = d.artifact[l]
                  /\ \A kind \in {"SAT", "PROOF"} : Report(d, l, kind) \in c => Report(e, l, kind) \in k
        BY <3>2 DEF Moves, Active, Report
      <4> QED BY <2>1, <4>1 DEF Waits, Held
    <3> QED BY <3>1, <3>2
  <2> QED BY <2>1 DEF Searched, Work, Moves
<1>4. ASSUME "SAT" \notin Sends PROVE Whole(e, k)
  <2>0. Whole(d, c) /\ MovesLeaf(d, e, t)
    BY <1>4 DEF Work
  <2>1. \A u \in Task : e.state[u] = "ABSENT" <=> d.state[u] = "ABSENT"
    BY <2>0 DEF Moves, MovesLeaf
  <2>2. /\ \A u : Children(e, u) = Children(d, u)
        /\ \A u : ExactPair(e, u) <=> ExactPair(d, u)
    BY <2>1, SameChildren DEF Moves
  <2>3. ASSUME NEW u \in Task
        PROVE  /\ e.state[u] = "ABSENT" => e.holder[u] = NoLease /\ ~e.proof[u]
               /\ e.state[u] = "SPLIT" => Children(e, u) # {}
               /\ Children(e, u) # {} =>
                     ExactPair(e, u) /\ ~e.proof[u] /\ e.holder[u] = NoLease /\ e.state[u] \notin InUse
    <3>1. CASE e.state[u] = d.state[u] /\ e.holder[u] = d.holder[u] /\ e.proof[u] = d.proof[u]
      BY <2>0, <2>2, <3>1 DEF Whole
    <3>2. CASE ~(e.state[u] = d.state[u] /\ e.holder[u] = d.holder[u] /\ e.proof[u] = d.proof[u])
      <4>1. u = t
        BY <3>2 DEF Moves
      <4> QED BY <2>0, <2>2, <3>2, <4>1 DEF MovesLeaf
    <3> QED BY <3>1, <3>2
  <2> QED BY <1>4, <2>3 DEF Whole
<1> QED BY <1>1, <1>2, <1>3, <1>4 DEF Work

\* A task with a report of its own is one of the tree, and its handler's.
LEMMA LeaseTask ==
    ASSUME Tasks, NEW l \in LeaseId
    PROVE  /\ TaskOf(l) \in Task /\ db \in Database /\ Known(db) /\ Good(db)
           /\ Issued(db) /\ Filed(db, calls) /\ Evidence(db)
BY LeaseIds DEF Tasks, IInv, Good, Work

\* A task nobody may have split: its proof is wanted, or a lease holds it.
LEMMA Leaf ==
    ASSUME NEW d, NEW c, Whole(d, c), NEW t \in Task, d.proof[t] \/ d.holder[t] # NoLease
    PROVE  Children(d, t) = {} /\ d.state[t] \notin {"ABSENT", "SPLIT"}
BY DEF Whole

\* The leases of a task, closed.
LEMMA TaskClosed ==
    ASSUME NEW d \in Database, NEW l \in LeaseId
    PROVE  LET rows == CloseTaskLeases(d, l) IN
           /\ rows \in [LeaseId -> LeaseRow]
           /\ \A k \in LeaseId :
                 /\ rows[k].session = d.lease[k].session
                 /\ rows[k].status = "NONE" <=> d.lease[k].status = "NONE"
                 /\ TaskOf(k) = TaskOf(l) => rows[k].status # "ACTIVE"
                 /\ TaskOf(k) # TaskOf(l) => rows[k].status = d.lease[k].status
<1>1. d.lease \in [LeaseId -> LeaseRow]
  BY DEF Database
<1>2. CloseTaskLeases(d, l) \in [LeaseId -> LeaseRow]
  BY CloseTaskLeasesType
<1> QED BY <1>1, <1>2 DEF CloseTaskLeases, Active, LeaseRow

\* A task whose leases are closed owes nobody a lease.
LEMMA ClosedSole ==
    ASSUME NEW d, NEW e, NEW t \in Task, Sole(d), Moves(d, e, t),
           \A k \in LeaseId : TaskOf(k) = t => ~Active(e, k)
    PROVE  Sole(e)
BY LeaseIds DEF Sole, Moves, Active

\* What a handler of a report leaves behind when it starts to wait.
LEMMA VerifyingFields ==
    ASSUME Tasks, NEW l \in LeaseId, NEW state \in {"VERIFYING_SAT", "VERIFYING_UNSAT"}
    PROVE  LET e == Verifying(l, state) IN
           /\ Moves(db, e, TaskOf(l))
           /\ e.state[TaskOf(l)] = state /\ e.holder[TaskOf(l)] = NoLease
           /\ e.artifact = db.artifact /\ e.processed = db.processed /\ e.proof = db.proof
           /\ \A k \in LeaseId : TaskOf(k) = TaskOf(l) => ~Active(e, k)
<1> DEFINE t == TaskOf(l)
           e == Verifying(l, state)
<1>1. t \in Task /\ db \in Database
  BY LeaseTask
<1>2. /\ e.parent = db.parent /\ e.cube = db.cube /\ e.count = db.count /\ e.job = db.job
      /\ e.artifact = db.artifact /\ e.processed = db.processed /\ e.proof = db.proof
      /\ e.state = [db.state EXCEPT ![t] = state]
      /\ e.holder = [db.holder EXCEPT ![t] = NoLease]
      /\ e.lease = CloseTaskLeases(db, l)
  BY <1>1 DEF Verifying, Database
<1>3. DOMAIN db.state = Task /\ DOMAIN db.holder = Task
  BY <1>1 DEF Database
<1> HIDE DEF e
<1>4. \A k \in LeaseId :
        /\ e.lease[k].session = db.lease[k].session
        /\ e.lease[k].status = "NONE" <=> db.lease[k].status = "NONE"
        /\ TaskOf(k) = t => e.lease[k].status # "ACTIVE"
        /\ TaskOf(k) # t => e.lease[k].status = db.lease[k].status
  BY <1>1, <1>2, TaskClosed
<1> HIDE DEF t
<1>5. Moves(db, e, t)
  BY <1>1, <1>2, <1>3, <1>4 DEF Moves
<1>6. \A k \in LeaseId : TaskOf(k) = t => ~Active(e, k)
  BY <1>4 DEF Active
<1> QED BY <1>1, <1>2, <1>3, <1>5, <1>6 DEF e, t

\* RESULT, SAT: the task waits for its model to be checked.
LEMMA SatResultWork ==
    ASSUME Tasks, "SAT" \in Sends, NEW l \in LeaseId, SatResult(l) PROVE Work(db', calls')
<1> DEFINE t == TaskOf(l)
           v == Verification(l, "SAT")
           e == Verifying(l, "VERIFYING_SAT")
<1>1. /\ t \in Task /\ db \in Database /\ Filed(db, calls) /\ Work(db, calls)
      /\ db.lease[l].status # "NONE"
  BY LeaseTask DEF Tasks, SatResult, MayReport
<1>2. db' = e /\ calls' = calls \cup {v}
  BY DEF SatResult
<1>3. /\ Moves(db, e, t) /\ e.state[t] = "VERIFYING_SAT"
      /\ e.artifact = db.artifact /\ e.processed = db.processed
      /\ \A k \in LeaseId : TaskOf(k) = t => ~Active(e, k)
  BY VerifyingFields
<1> HIDE DEF e
<1>4. /\ v.kind = "SAT" /\ v.lease = l /\ v.session = db.lease[l].session
      /\ v = Report(e, l, "SAT")
  BY <1>3 DEF Verification, Report, Moves
<1> HIDE DEF v
<1>5. Filed(e, calls')
  <2>1. \A k \in LeaseId : /\ e.lease[k].session = db.lease[k].session
                           /\ e.lease[k].status = "NONE" <=> db.lease[k].status = "NONE"
    BY <1>3 DEF Moves
  <2> QED BY <1>1, <1>2, <1>3, <1>4, <2>1 DEF Filed
<1>6. Waits(e, calls', t) /\ e.state[t] \notin Certified
  BY <1>2, <1>3, <1>4 DEF Waits, Certified
<1>7. "PROOF" \notin Sends => Sole(e) /\ Unproved(e, calls')
  BY <1>1, <1>2, <1>3, <1>4, ClosedSole DEF Work, Unproved
<1> HIDE DEF t
<1>8. Work(e, calls')
  BY <1>1, <1>2, <1>3, <1>5, <1>6, <1>7, MoveWork
<1> QED BY <1>2, <1>8

\* RESULT with a proof: the task waits for the proof to be checked.
LEMMA UnsatProofWork ==
    ASSUME Tasks, "PROOF" \in Sends, NEW l \in LeaseId, UnsatProof(l) PROVE Work(db', calls')
<1> DEFINE t == TaskOf(l)
           v == Verification(l, "PROOF")
           f == Verifying(l, "VERIFYING_UNSAT")
           rows == DropPermits(f.lease, {k \in LeaseId : TaskOf(k) = TaskOf(l)})
           e == [f EXCEPT !.lease = rows]
<1>1. /\ t \in Task /\ db \in Database /\ Filed(db, calls) /\ Work(db, calls)
      /\ db.lease[l].status # "NONE" /\ db.proof[t] /\ db.artifact[l] = "UPLOADED"
      /\ <<l, "PROOF">> \notin db.processed
  <2>1. db.artifact[l] # "NONE" /\ <<l, "PROOF">> \notin db.processed /\ db.lease[l].status # "NONE"
        /\ db.proof[t]
    BY DEF UnsatProof, MayReport
  <2> QED BY <2>1, LeaseTask DEF Tasks, Filed
<1>2. db' = e /\ calls' = calls \cup {v}
  BY DEF UnsatProof
<1>3. /\ Moves(db, f, t) /\ f.state[t] = "VERIFYING_UNSAT"
      /\ f.artifact = db.artifact /\ f.processed = db.processed /\ f.proof = db.proof
  BY VerifyingFields
<1>4. f \in Database
  BY <1>1, VerifyingBookkeeping DEF Tasks
<1> HIDE DEF f
<1>5. \A k \in LeaseId : rows[k].session = f.lease[k].session /\ rows[k].status = f.lease[k].status
  <2>1. f.lease \in [LeaseId -> LeaseRow]
    BY <1>4 DEF Database
  <2> QED BY <2>1 DEF DropPermits, LeaseRow
<1> HIDE DEF rows
<1>6. /\ e.parent = f.parent /\ e.cube = f.cube /\ e.count = f.count /\ e.job = f.job
      /\ e.artifact = f.artifact /\ e.processed = f.processed /\ e.proof = f.proof
      /\ e.state = f.state /\ e.holder = f.holder /\ e.lease = rows
  BY <1>4 DEF Database
<1> HIDE DEF e
<1>7. Moves(db, e, t)
  BY <1>3, <1>5, <1>6 DEF Moves
<1>8. /\ v.kind = "PROOF" /\ v.lease = l /\ v.session = db.lease[l].session
      /\ v = Report(e, l, "PROOF")
  BY <1>7 DEF Verification, Report, Moves
<1> HIDE DEF v
<1>9. Filed(e, calls')
  <2>1. \A k \in LeaseId : /\ e.lease[k].session = db.lease[k].session
                           /\ e.lease[k].status = "NONE" <=> db.lease[k].status = "NONE"
    BY <1>7 DEF Moves
  <2> QED BY <1>1, <1>2, <1>3, <1>6, <1>8, <2>1 DEF Filed
<1>10. Waits(e, calls', t) /\ e.state[t] \notin Certified /\ e.state[t] \notin {"ABSENT", "SPLIT"}
  BY <1>2, <1>3, <1>6, <1>8 DEF Waits, Certified
<1>11. ASSUME "SAT" \notin Sends
       PROVE  /\ MovesLeaf(db, e, t)
              /\ \A x \in calls' : x.kind # "SAT" /\ (x.kind = "PROOF" => e.proof[TaskOf(x.lease)])
  <2>1. Whole(db, calls)
    BY <1>1, <1>11 DEF Work
  <2>2. Children(db, t) = {} /\ db.state[t] # "ABSENT"
    BY <1>1, <2>1, Leaf
  <2> QED BY <1>1, <1>2, <1>3, <1>6, <1>8, <1>10, <2>1, <2>2 DEF Whole, MovesLeaf
<1> HIDE DEF t
<1>12. Work(e, calls')
  BY <1>1, <1>2, <1>7, <1>9, <1>10, <1>11, MoveWork
<1> QED BY <1>2, <1>12

\* A proof is stored for a lease that holds its task.
LEMMA StoreProofWork ==
    ASSUME Tasks, "PROOF" \in Sends, NEW l \in LeaseId, StoreProof(l) PROVE Work(db', calls')
<1> DEFINE t == TaskOf(l)
           artifact == [db.artifact EXCEPT ![l] = "UPLOADED"]
           e == [db EXCEPT !.artifact = artifact]
<1>1. /\ t \in Task /\ db \in Database /\ Filed(db, calls) /\ Work(db, calls)
      /\ db.artifact[l] = "NONE"
  BY LeaseTask DEF Tasks, StoreProof
<1>2. db' = e /\ calls' = calls
  BY DEF StoreProof
<1>3. /\ e.parent = db.parent /\ e.cube = db.cube /\ e.count = db.count /\ e.job = db.job
      /\ e.processed = db.processed /\ e.proof = db.proof /\ e.lease = db.lease
      /\ e.state = db.state /\ e.holder = db.holder /\ e.artifact = artifact
  BY <1>1 DEF Database
<1>4. \A k \in LeaseId : artifact[k] = IF k = l THEN "UPLOADED" ELSE db.artifact[k]
  BY <1>1 DEF Database
<1> HIDE DEF e, artifact
<1>5. Moves(db, e, t)
  BY <1>1, <1>3, <1>4 DEF Moves
<1>6. Filed(e, calls)
  BY <1>1, <1>3, <1>4 DEF Filed
<1>7. MovesLeaf(db, e, t)
  BY <1>3 DEF MovesLeaf
<1>8. \A k \in LeaseId : \A kind : Report(e, k, kind) = Report(db, k, kind)
  BY <1>3 DEF Report
<1>9. Waits(db, calls, t) => Waits(e, calls, t)
  BY <1>1, <1>3, <1>4, <1>8 DEF Waits, Held, Active
<1>10. "SAT" \notin Sends =>
          \A x \in calls : x.kind # "SAT" /\ (x.kind = "PROOF" => e.proof[TaskOf(x.lease)])
  BY <1>1, <1>3 DEF Work, Whole
<1> HIDE DEF t
<1>11. Work(e, calls)
  BY <1>1, <1>3, <1>5, <1>6, <1>7, <1>9, <1>10, MoveWork
<1> QED BY <1>2, <1>11

\* RESULT without a proof: the task becomes proof work, or nothing happens.
LEMMA UnsatCandidateWork ==
    ASSUME Tasks, NEW l \in LeaseId, UnsatCandidate(l) PROVE Work(db', calls')
<1> DEFINE t == TaskOf(l)
           closed == CloseTaskLeases(db, l)
           rows == DropPermits(closed, {l})
           proof == [db.proof EXCEPT ![t] = TRUE]
           e == [db EXCEPT !.state = [db.state EXCEPT ![t] = "READY"],
                           !.holder = [db.holder EXCEPT ![t] = NoLease],
                           !.proof = proof, !.lease = rows, !.artifact = db.artifact]
<1>1. /\ t \in Task /\ db \in Database /\ Known(db) /\ Filed(db, calls) /\ Work(db, calls)
      /\ db.lease[l].status # "NONE"
  BY LeaseTask DEF Tasks, UnsatCandidate, MayReport
<1>2. "CANDIDATE" \in MessageKind /\ t <= db.rows
  BY <1>1, IssuedKnown DEF Tasks, MessageKind
<1>3. /\ UNCHANGED <<sockets, calls>>
      /\ \/ Respond(Recorded(db, l, "CANDIDATE"))
         \/ db.holder[t] = l /\ Respond(Recorded(e, l, "CANDIDATE"))
  BY <1>1 DEF UnsatCandidate, Database
<1>4. /\ closed \in [LeaseId -> LeaseRow]
      /\ \A k \in LeaseId :
            /\ closed[k].session = db.lease[k].session
            /\ closed[k].status = "NONE" <=> db.lease[k].status = "NONE"
            /\ TaskOf(k) = t => closed[k].status # "ACTIVE"
            /\ TaskOf(k) # t => closed[k].status = db.lease[k].status
  BY <1>1, TaskClosed
<1> HIDE DEF closed
<1>5. /\ rows \in [LeaseId -> LeaseRow]
      /\ \A k \in LeaseId : rows[k].session = closed[k].session /\ rows[k].status = closed[k].status
  BY <1>4 DEF DropPermits, LeaseRow
<1> HIDE DEF rows
<1>6. CASE Respond(Recorded(db, l, "CANDIDATE"))
  <2>1. Settled(db, calls)
    BY SettledNow
  <2> QED BY <1>2, <1>3, <1>6, <2>1, RecordedWork
<1>7. CASE db.holder[t] = l /\ Respond(Recorded(e, l, "CANDIDATE"))
  <2>1. /\ e.parent = db.parent /\ e.cube = db.cube /\ e.count = db.count /\ e.job = db.job
        /\ e.artifact = db.artifact /\ e.processed = db.processed /\ e.lease = rows
        /\ \A u \in Task : e.state[u] = IF u = t THEN "READY" ELSE db.state[u]
        /\ \A u \in Task : e.holder[u] = IF u = t THEN NoLease ELSE db.holder[u]
        /\ \A u \in Task : e.proof[u] = IF u = t THEN TRUE ELSE db.proof[u]
    BY <1>1 DEF Database
  <2>2. e \in Database /\ Known(e)
    <3>1. /\ proof \in [Task -> BOOLEAN] /\ db.artifact \in [LeaseId -> ProofStatus]
          /\ "READY" \in TaskState /\ "READY" \notin Certified \cup {"ABSENT"}
          /\ \A k \in LeaseId : db.artifact[k] # "NONE" => TaskOf(k) <= db.rows
      BY <1>1 DEF Database, TaskState, Certified, Known
    <3>2. \A k \in LeaseId : /\ db.lease[k].status = "NONE" => rows[k].status = "NONE"
                             /\ rows[k].status = "ACTIVE" => db.lease[k].status = "ACTIVE"
      BY <1>4, <1>5
    <3> HIDE DEF proof, t, e
    <3>3. e \in Database /\ Bookkeeping(db, e)
      BY <1>1, <1>2, <1>5, <3>1, <3>2, MoveBookkeeping DEF e
    <3> QED BY <1>1, <3>3, BookkeepingKnown
  <2> HIDE DEF e
  <2>2a. \A k \in LeaseId :
           /\ e.lease[k].session = db.lease[k].session
           /\ e.lease[k].status = "NONE" <=> db.lease[k].status = "NONE"
           /\ TaskOf(k) # t => e.lease[k].status = db.lease[k].status
    BY <1>4, <1>5, <2>1
  <2>3. Moves(db, e, t)
    <3> HIDE DEF t
    <3> QED BY <1>1, <2>1, <2>2a DEF Moves
  <2>4. Filed(e, calls)
    BY <1>1, <2>1, <2>2a DEF Filed
  <2>5. \A k \in LeaseId : \A kind : Report(e, k, kind) = Report(db, k, kind)
    BY <1>4, <1>5, <2>1 DEF Report
  <2>6. e.state[t] \notin Certified /\ Waits(e, calls, t)
    BY <1>1, <2>1 DEF Waits, Held, Certified
  <2>7. ASSUME "SAT" \notin Sends
        PROVE  /\ MovesLeaf(db, e, t)
               /\ \A x \in calls : x.kind # "SAT" /\ (x.kind = "PROOF" => e.proof[TaskOf(x.lease)])
    <3>1. Whole(db, calls)
      BY <1>1, <2>7 DEF Work
    <3>2. Children(db, t) = {} /\ db.state[t] # "ABSENT"
      BY <1>1, <1>7, <3>1, Leaf, LeaseIds
    <3>3. \A x \in calls : x.kind = "PROOF" => TaskOf(x.lease) \in Task
      BY <1>1, LeaseIds DEF Filed
    <3> QED BY <1>1, <2>1, <3>1, <3>2, <3>3 DEF Whole, MovesLeaf
  <2>8. "PROOF" \notin Sends => Sole(e) /\ Unproved(e, calls)
    <3>1. \A k \in LeaseId : TaskOf(k) = t => ~Active(e, k)
      BY <1>4, <1>5, <2>1 DEF Active
    <3> QED BY <1>1, <2>1, <2>3, <3>1, ClosedSole DEF Work, Unproved
  <2> HIDE DEF t
  <2>9. Work(e, calls)
    BY <1>1, <2>3, <2>4, <2>6, <2>7, <2>8, MoveWork
  <2> QED BY <1>2, <1>3, <1>7, <2>2, <2>9, RecordedWork DEF Settled
<1> QED BY <1>3, <1>6, <1>7

-----------------------------------------------------------------------------
(* The verifiers' answers.                                                 *)

\* A model is being checked only if browsers report models, a proof only if
\* they report proofs.
LEMMA ReportsAreSent ==
    ASSUME NEW d, NEW c, Work(d, c), NEW x \in c
    PROVE  /\ x.kind = "SAT" => "SAT" \in Sends
           /\ x.kind = "PROOF" => "PROOF" \in Sends
BY DEF Work, Whole, Unproved

\* Once the job is over, a handler that ends is missed by nobody.
LEMMA FewerCallsWork ==
    ASSUME NEW d, NEW c, Work(d, c), ~Open(d.job), NEW k \in SUBSET c
    PROVE  Work(d, k)
<1>1. Filed(d, k)
  BY DEF Work, Filed
<1>2. Searched(d, k)
  BY DEF Searched
<1>3. "SAT" \notin Sends => Whole(d, k)
  BY DEF Work, Whole
<1>4. "PROOF" \notin Sends => Unproved(d, k)
  BY DEF Work, Unproved
<1> QED BY <1>1, <1>2, <1>3, <1>4 DEF Work

\* A verified model closes the job.
LEMMA SatVerifiedWork ==
    ASSUME NEW d \in Database, NEW t \in Task, SatVerified(d, t) \in Database,
           NEW c, Work(d, c), "SAT" \in Sends
    PROVE  Work(SatVerified(d, t), c)
<1> DEFINE e == SatVerified(d, t)
<1>1. /\ e.parent = d.parent /\ e.cube = d.cube /\ e.proof = d.proof /\ e.artifact = d.artifact
      /\ e.processed = d.processed /\ e.count = d.count /\ e.job = "SAT_VERIFIED"
      /\ e.lease = CloseLeases(d, LeaseId, "SUPERSEDED")
      /\ \A u \in Task : e.state[u] = IF u \in {t, Root} THEN "SAT_VERIFIED"
                                      ELSE IF d.state[u] \in {"ABSENT", "SAT_VERIFIED"} THEN d.state[u]
                                      ELSE "CANCELLED"
      /\ \A u \in Task : e.holder[u] = NoLease
  BY DEF SatVerified, Database
<1> HIDE DEF e
<1>2. "SUPERSEDED" \in LeaseStatus \ {"ACTIVE", "NONE"}
  BY DEF LeaseStatus
<1>3. \A l \in LeaseId : /\ ~Active(e, l) /\ e.lease[l].session = d.lease[l].session
                         /\ e.lease[l].status = "NONE" <=> d.lease[l].status = "NONE"
  BY <1>1, <1>2, AllClosedRows DEF Active
<1>4. \A u \in Task : e.state[u] = d.state[u] \/ e.state[u] \in Final
  BY <1>1 DEF Final
<1>5. ~Open(e.job) /\ e.job \notin Certified
  BY <1>1 DEF Open, Certified
<1>6. e \in Database
  BY DEF e
<1>7. Work(e, c)
  BY <1>1, <1>3, <1>4, <1>5, <1>6, ClosingWork
<1> QED BY <1>7 DEF e

\* So does a formula that turns out not to be one.
LEMMA InvalidFormulaWork ==
    ASSUME NEW d \in Database, InvalidFormula(d) \in Database, NEW c, Work(d, c)
    PROVE  Work(InvalidFormula(d), c) /\ InvalidFormula(d).job = "INVALID"
<1> DEFINE e == InvalidFormula(d)
<1>1. /\ e.parent = d.parent /\ e.cube = d.cube /\ e.proof = d.proof /\ e.artifact = d.artifact
      /\ e.processed = d.processed /\ e.count = d.count /\ e.job = "INVALID"
      /\ e.lease = CloseLeases(d, LeaseId, "SUPERSEDED")
      /\ \A u \in Task : e.state[u] = IF d.state[u] \notin {"ABSENT", "CANCELLED"} THEN "UNKNOWN"
                                      ELSE d.state[u]
      /\ \A u \in Task : e.holder[u] \in {NoLease, d.holder[u]}
  BY DEF InvalidFormula, Existing, Database
<1> HIDE DEF e
<1>2. "SUPERSEDED" \in LeaseStatus \ {"ACTIVE", "NONE"}
  BY DEF LeaseStatus
<1>3. \A l \in LeaseId : /\ ~Active(e, l) /\ e.lease[l].session = d.lease[l].session
                         /\ e.lease[l].status = "NONE" <=> d.lease[l].status = "NONE"
  BY <1>1, <1>2, AllClosedRows DEF Active
<1>4. /\ \A u \in Task : e.state[u] = d.state[u] \/ e.state[u] \in Final
      /\ \A u \in Task : d.state[u] = "ABSENT" => e.state[u] = "ABSENT"
  BY <1>1 DEF Final
<1>5. ~Open(e.job) /\ e.job \notin Certified
  BY <1>1 DEF Open, Certified
<1>6. e \in Database
  BY DEF e
<1>7. Work(e, c)
  BY <1>1, <1>3, <1>4, <1>5, <1>6, ClosingWork
<1> QED BY <1>1, <1>7 DEF e

\* A model that did not convince, or was not checked: its task, if it still
\* waits for it, goes back to the queue.
Returned(d, t) ==
    IF d.state[t] = "VERIFYING_SAT"
    THEN [d EXCEPT !.state = [d.state EXCEPT ![t] = "READY"],
                   !.holder = [d.holder EXCEPT ![t] = NoLease],
                   !.proof = d.proof, !.lease = d.lease, !.artifact = d.artifact]
    ELSE d

LEMMA SatReturnedWork ==
    ASSUME NEW d \in Database, NEW c, Work(d, c), NEW l \in LeaseId, Report(d, l, "SAT") \in c
    PROVE  Work(Returned(d, TaskOf(l)), c \ {Report(d, l, "SAT")})
<1> DEFINE t == TaskOf(l)
           v == Report(d, l, "SAT")
           k == c \ {v}
<1> SUFFICES ASSUME NEW e, e = Returned(d, t) PROVE Work(e, k)
  OBVIOUS
<1>1. t \in Task /\ Filed(d, c) /\ v.kind = "SAT" /\ v.lease = l
  BY LeaseIds DEF Work, Report
<1>2. "SAT" \in Sends
  BY <1>1, ReportsAreSent
<1>3. /\ e.parent = d.parent /\ e.cube = d.cube /\ e.count = d.count /\ e.job = d.job
      /\ e.artifact = d.artifact /\ e.processed = d.processed /\ e.lease = d.lease
      /\ e.proof = d.proof
      /\ \A u \in Task \ {t} : e.state[u] = d.state[u] /\ e.holder[u] = d.holder[u]
      /\ e.holder[t] \in {NoLease, d.holder[t]}
      /\ \/ d.state[t] = "VERIFYING_SAT" /\ e.state[t] = "READY"
         \/ d.state[t] # "VERIFYING_SAT" /\ e.state[t] = d.state[t] /\ e.holder[t] = d.holder[t]
  <2>1. CASE d.state[t] # "VERIFYING_SAT"
    BY <2>1 DEF Returned
  <2>2. CASE d.state[t] = "VERIFYING_SAT"
    <3>1. e = [d EXCEPT !.state = [d.state EXCEPT ![t] = "READY"],
                        !.holder = [d.holder EXCEPT ![t] = NoLease],
                        !.proof = d.proof, !.lease = d.lease, !.artifact = d.artifact]
      BY <2>2 DEF Returned
    <3> HIDE DEF t
    <3>2. /\ e.parent = d.parent /\ e.cube = d.cube /\ e.count = d.count /\ e.job = d.job
          /\ e.artifact = d.artifact /\ e.processed = d.processed /\ e.lease = d.lease
          /\ e.proof = d.proof
          /\ e.state = [d.state EXCEPT ![t] = "READY"]
          /\ e.holder = [d.holder EXCEPT ![t] = NoLease]
      BY <3>1 DEF Database
    <3>3. DOMAIN d.state = Task /\ DOMAIN d.holder = Task
      BY DEF Database
    <3> QED BY <1>1, <2>2, <3>2, <3>3
  <2> QED BY <2>1, <2>2
<1>3a. \/ d.state[t] = "VERIFYING_SAT" /\ e.state[t] = "READY"
       \/ d.state[t] # "VERIFYING_SAT" /\ e.state[t] = d.state[t] /\ e.holder[t] = d.holder[t]
  BY <1>3
<1>4. Moves(d, e, t)
  BY <1>3 DEF Moves
<1>5. \A x \in c : (x.kind # "SAT" \/ TaskOf(x.lease) # t) => x \in k
  BY <1>1
<1>6. \A i \in LeaseId : \A kind :
        /\ Report(d, i, kind) = Report(e, i, kind)
        /\ Report(d, i, kind).kind = kind /\ Report(d, i, kind).lease = i
  BY <1>3 DEF Report
<1>7. Filed(e, k)
  BY <1>1, <1>3 DEF Filed
<1> HIDE DEF v, k
<1>8. \A i \in LeaseId, kind \in {"SAT", "PROOF"} :
         TaskOf(i) # t /\ Report(d, i, kind) \in c => Report(d, i, kind) \in k
  BY <1>5, <1>6
<1>9. CASE d.state[t] = "VERIFYING_SAT" /\ e.state[t] = "READY"
  <2>1. Waits(e, k, t)
    BY <1>9 DEF Waits, Held
  <2>2. e.state[t] \notin Certified
    BY <1>9 DEF Certified
  <2>3. "PROOF" \notin Sends => Sole(e) /\ Unproved(e, k)
    <3>1. ASSUME Sole(d), NEW i \in LeaseId, TaskOf(i) = t PROVE ~Active(e, i)
      BY <1>3, <1>9, <3>1 DEF Sole, Active
    <3>2. "PROOF" \notin Sends => Unproved(e, k)
      BY <1>3 DEF Work, Unproved, k
    <3> QED BY <1>1, <1>4, <3>1, <3>2, ClosedSole DEF Work
  <2> HIDE DEF t
  <2>4. Work(e, k)
    BY <1>1, <1>2, <1>4, <1>7, <1>8, <2>1, <2>2, <2>3, MoveWork
  <2> QED BY <2>4 DEF k, v
<1>10. CASE d.state[t] # "VERIFYING_SAT" /\ e.state[t] = d.state[t] /\ e.holder[t] = d.holder[t]
  <2>1. Waits(d, c, t) => Waits(e, k, t)
    BY <1>3, <1>5, <1>6, <1>10 DEF Waits, Held, Active
  <2>2. "PROOF" \notin Sends => Sole(e) /\ Unproved(e, k)
    BY <1>1, <1>3, <1>10, LeaseIds DEF Work, Sole, Active, Unproved, k
  <2> HIDE DEF t
  <2>3. e.state[t] = d.state[t]
    BY <1>10
  <2>4. Work(e, k)
    BY <1>1, <1>2, <1>4, <1>7, <1>8, <2>1, <2>2, <2>3, MoveWork
  <2> QED BY <2>4 DEF k, v
<1> HIDE DEF t
<1> QED BY <1>3a, <1>9, <1>10 DEF k, v

\* The reply and the dispatch that follow.
LEMMA AnsweredWork ==
    ASSUME Tasks, NEW l \in LeaseId, NEW kind \in MessageKind, NEW after, Answered(l, kind, after),
           \A d \in after : Fair(db, d) /\ Work(Recorded(d, l, kind), calls')
    PROVE  Work(db', calls')
<1>1. PICK d \in after : \/ db' \in DispatchAll(Recorded(d, l, kind), sockets)
                         \/ db' = Recorded(d, l, kind)
  BY DEF Answered
<1> DEFINE r == Recorded(d, l, kind)
<1>2. d \in Database /\ Known(d) /\ Work(r, calls')
  BY DEF Fair, Good
<1>3. r \in Database /\ Known(r)
  BY <1>2, RecordedBookkeeping, BookkeepingKnown
<1> HIDE DEF r
<1>4. {} \in SUBSET Slots
  OBVIOUS
<1>5. CASE db' \in Dispatch(r, sockets, {})
  BY <1>2, <1>3, <1>4, <1>5, DispatchWork
<1> QED BY <1>1, <1>2, <1>5 DEF r, DispatchAll

\* The rest of a SAT result's handler.
LEMMA SatAnsweredWork ==
    ASSUME Tasks, NEW l \in LeaseId, NEW answer, SatAnswered(l, answer) PROVE Work(db', calls')
<1> DEFINE t == TaskOf(l)
           v == Verification(l, "SAT")
           ready == [db EXCEPT !.state = [db.state EXCEPT ![t] = "READY"],
                               !.holder = [db.holder EXCEPT ![t] = NoLease],
                               !.proof = db.proof, !.lease = db.lease, !.artifact = db.artifact]
           requeued == Returned(db, t)
           s == db.lease[l].session
           e == AfterSat(l, answer)
<1>1. /\ v \in calls /\ calls' = calls \ {v} /\ Answered(l, "SAT", {e})
      /\ answer \in SatAnswers(db.cube[t])
  BY DEF SatAnswered
<1>2. /\ t \in Task /\ db \in Database /\ Known(db) /\ Good(db) /\ Work(db, calls)
      /\ t <= db.rows /\ s \in Session
  BY <1>1, LeaseTask, VerificationKnown DEF Tasks
<1>3. Fair(db, e) /\ "SAT" \in MessageKind
  BY <1>1, AfterSatFair DEF Tasks, MessageKind
<1>4. v = Report(db, l, "SAT") /\ v.kind = "SAT"
  BY DEF Verification, Report
<1>5. "SAT" \in Sends
  BY <1>1, <1>2, <1>4, ReportsAreSent
<1>6. [db EXCEPT !.state[t] = "READY", !.holder[t] = NoLease] = ready
  BY <1>2 DEF Database
<1>7. /\ answer = "VALID_SAT" => e = SatVerified(db, t)
      /\ answer = "INVALID_FORMULA" => e = InvalidFormula(db)
      /\ answer = "INVALID_MODEL" => e = Quarantine(requeued, s)
      /\ answer = "VERIFICATION_TIMEOUT" => e = requeued
  BY <1>6 DEF AfterSat, Returned
<1>8. answer \in {"VALID_SAT", "INVALID_FORMULA", "INVALID_MODEL", "VERIFICATION_TIMEOUT"}
  BY <1>1 DEF SatAnswers
<1>9. e \in Database
  BY <1>3 DEF Fair, Good
<1> HIDE DEF e
<1>10. Work(requeued, calls') /\ requeued \in Database
  <2>1. ready \in Database
    <3>1. /\ db.proof \in [Task -> BOOLEAN] /\ db.artifact \in [LeaseId -> ProofStatus]
          /\ \A k \in LeaseId : db.artifact[k] # "NONE" => TaskOf(k) <= db.rows
      BY <1>2 DEF Database, Known
    <3> HIDE DEF t
    <3> QED BY <1>2, <3>1, ReadyFair
  <2>2. requeued \in Database
    BY <1>2, <2>1 DEF Returned
  <2>3. Work(requeued, calls \ {Report(db, l, "SAT")})
    BY <1>1, <1>2, <1>4, SatReturnedWork
  <2> HIDE DEF requeued
  <2> QED BY <1>1, <1>4, <2>2, <2>3
<1> HIDE DEF requeued, t, s
<1>11. Work(e, calls')
  <2>1. CASE answer = "VALID_SAT"
    <3>1. Work(e, calls) /\ ~Open(e.job)
      <4>1. e.job = "SAT_VERIFIED"
        BY <1>2, <1>7, <2>1 DEF SatVerified, Database
      <4> QED BY <1>2, <1>5, <1>7, <1>9, <2>1, <4>1, SatVerifiedWork DEF Open
    <3> QED BY <1>1, <3>1, FewerCallsWork
  <2>2. CASE answer = "INVALID_FORMULA"
    <3>1. Work(e, calls) /\ ~Open(e.job)
      BY <1>2, <1>7, <1>9, <2>2, InvalidFormulaWork DEF Open
    <3> QED BY <1>1, <3>1, FewerCallsWork
  <2>3. CASE answer = "INVALID_MODEL"
    BY <1>2, <1>7, <1>9, <1>10, <2>3, QuarantineShift, ShiftWork
  <2>4. CASE answer = "VERIFICATION_TIMEOUT"
    BY <1>7, <1>10, <2>4
  <2> QED BY <1>8, <2>1, <2>2, <2>3, <2>4
<1>12. Work(Recorded(e, l, "SAT"), calls')
  <2>1. Known(e)
    BY <1>3 DEF Fair, Good
  <2> QED BY <1>3, <1>9, <1>11, <2>1, RecordedBookkeeping, RecordedShift, ShiftWork
<1>13. \A d \in {e} : Fair(db, d) /\ Work(Recorded(d, l, "SAT"), calls')
  BY <1>3, <1>12
<1> QED BY <1>1, <1>3, <1>13, AnsweredWork

\* The database once the proof of lease l has been judged and the message
\* remembered, before anything climbs.
Ruled(d, l, state, holder, proof, status) ==
    [d EXCEPT !.state = [d.state EXCEPT ![TaskOf(l)] = state],
              !.holder = [d.holder EXCEPT ![TaskOf(l)] = holder],
              !.proof = [d.proof EXCEPT ![TaskOf(l)] = proof],
              !.artifact = [d.artifact EXCEPT ![l] = status]]
Judged(d, l, state, holder, proof, status) ==
    Recorded(Ruled(d, l, state, holder, proof, status), l, "PROOF")

\* The only handler of a proof is its lease's.
LEMMA OneJudge ==
    ASSUME NEW d, NEW c \in SUBSET Call, Filed(d, c), NEW x \in c, x.kind = "PROOF"
    PROVE  x = Report(d, x.lease, "PROOF")
<1>1. x \in [kind: {"SAT", "PROOF"}, lease: LeaseId, session: Session]
  BY DEF Call
<1>2. x.session = d.lease[x.lease].session
  BY DEF Filed
<1> QED BY <1>1, <1>2 DEF Report

\* A verdict on a proof keeps the invariant: a certified task has its proof, a
\* refused one is queued, one left to its owner waits for the owner.
LEMMA JudgedWork ==
    ASSUME NEW d \in Database, NEW c \in SUBSET Call, Work(d, c), NEW l \in LeaseId,
           Report(d, l, "PROOF") \in c,
           NEW state, NEW holder \in {NoLease, d.holder[TaskOf(l)]},
           NEW proof \in {TRUE, d.proof[TaskOf(l)]}, NEW status,
           \/ state = "READY"
           \/ state = "UNSAT_CERTIFIED" /\ status = "SERVER_CERTIFIED"
           \/ /\ state = d.state[TaskOf(l)] /\ holder = d.holder[TaskOf(l)]
              /\ status = "OWNER_CHECK_REQUIRED"
    PROVE  Work(Judged(d, l, state, holder, proof, status), c \ {Report(d, l, "PROOF")})
<1> DEFINE t == TaskOf(l)
           v == Report(d, l, "PROOF")
           k == c \ {v}
           e == Judged(d, l, state, holder, proof, status)
<1>1. t \in Task /\ Filed(d, c) /\ v.kind = "PROOF" /\ v.lease = l
  BY LeaseIds DEF Work, Report
<1>2. "PROOF" \in Sends
  BY <1>1, ReportsAreSent
<1>3. d.artifact[l] = "UPLOADED"
  BY <1>1 DEF Filed
<1>4. /\ e.parent = d.parent /\ e.cube = d.cube /\ e.count = d.count /\ e.job = d.job
      /\ e.lease = d.lease /\ e.processed = d.processed \cup {<<l, "PROOF">>}
      /\ e.state = [d.state EXCEPT ![t] = state] /\ e.holder = [d.holder EXCEPT ![t] = holder]
      /\ e.proof = [d.proof EXCEPT ![t] = proof] /\ e.artifact = [d.artifact EXCEPT ![l] = status]
  BY DEF Judged, Ruled, Recorded, Database
<1>5. /\ DOMAIN d.state = Task /\ DOMAIN d.holder = Task /\ DOMAIN d.proof = Task
      /\ DOMAIN d.artifact = LeaseId
  BY DEF Database
<1> HIDE DEF e
<1>6. /\ \A u \in Task : /\ e.state[u] = IF u = t THEN state ELSE d.state[u]
                         /\ e.holder[u] = IF u = t THEN holder ELSE d.holder[u]
                         /\ e.proof[u] = IF u = t THEN proof ELSE d.proof[u]
      /\ \A i \in LeaseId : e.artifact[i] = IF i = l THEN status ELSE d.artifact[i]
  BY <1>1, <1>4, <1>5
<1>7. Moves(d, e, t)
  BY <1>1, <1>3, <1>4, <1>6 DEF Moves
<1>8. Filed(e, k)
  <2>1. ASSUME NEW x \in k, x.kind # "HELLO"
        PROVE  /\ x.lease \in LeaseId
               /\ e.lease[x.lease].status # "NONE" /\ x.session = e.lease[x.lease].session
               /\ x.kind = "PROOF" => /\ e.artifact[x.lease] = "UPLOADED"
                                      /\ <<x.lease, "PROOF">> \notin e.processed
    <3>1. /\ x.lease \in LeaseId
          /\ d.lease[x.lease].status # "NONE" /\ x.session = d.lease[x.lease].session
          /\ x.kind = "PROOF" => /\ d.artifact[x.lease] = "UPLOADED"
                                 /\ <<x.lease, "PROOF">> \notin d.processed
      BY <1>1, <2>1 DEF Filed
    <3>2. x.kind = "PROOF" => x.lease # l
      BY <1>1, <2>1, OneJudge
    <3> QED BY <1>4, <1>6, <3>1, <3>2
  <2>2. ASSUME NEW i \in LeaseId, e.artifact[i] \notin {"NONE", "UPLOADED"}
        PROVE  <<i, "PROOF">> \in e.processed
    BY <1>1, <1>4, <1>6, <2>2 DEF Filed
  <2> QED BY <2>1, <2>2 DEF Filed
<1>9. \A i \in LeaseId : \A kind :
        /\ Report(d, i, kind) = Report(e, i, kind)
        /\ Report(d, i, kind).lease = i /\ Report(d, i, kind).kind = kind
  BY <1>4 DEF Report
<1>10. \A i \in LeaseId, kind \in {"SAT", "PROOF"} :
          (TaskOf(i) # t \/ kind # "PROOF") /\ Report(d, i, kind) \in c => Report(d, i, kind) \in k
  BY <1>1, <1>9
<1>11. e.state[t] \in Certified => \/ e.state[t] = d.state[t]
                                   \/ \A m : Covers(d.cube[t], m) => Proved(e, m, e.state[t])
  <2>1. CASE state = "UNSAT_CERTIFIED" /\ status = "SERVER_CERTIFIED"
    BY <1>1, <1>4, <1>6, <2>1 DEF Proved
  <2>2. CASE state = "READY" \/ state = d.state[t]
    BY <1>1, <1>6, <2>2 DEF Certified
  <2> QED BY <2>1, <2>2
<1>12. Waits(d, c, t) \/ d.state[t] \in Certified => e.state[t] \in Certified \/ Waits(e, k, t)
  <2>1. CASE state = "READY" \/ state = "UNSAT_CERTIFIED"
    BY <1>1, <1>6, <2>1 DEF Waits, Held, Certified
  <2>2. CASE state = d.state[t] /\ holder = d.holder[t] /\ status = "OWNER_CHECK_REQUIRED"
    <3>1. e.state[t] = d.state[t] /\ e.holder[t] = d.holder[t] /\ e.artifact[l] = "OWNER_CHECK_REQUIRED"
      BY <1>1, <1>6, <2>2
    <3>2. CASE d.state[t] = "VERIFYING_UNSAT"
      BY <3>1, <3>2 DEF Waits
    <3>3. CASE d.state[t] # "VERIFYING_UNSAT"
      BY <1>4, <1>9, <1>10, <3>1, <3>3 DEF Waits, Held, Active
    <3> QED BY <3>2, <3>3
  <2> QED BY <2>1, <2>2
<1>13. ASSUME "SAT" \notin Sends
       PROVE  /\ MovesLeaf(d, e, t)
              /\ \A x \in k : x.kind # "SAT" /\ (x.kind = "PROOF" => e.proof[TaskOf(x.lease)])
  <2>1. Whole(d, c) /\ d.proof[t]
    BY <1>1, <1>13 DEF Work, Whole
  <2>2. Children(d, t) = {} /\ d.state[t] \notin {"ABSENT", "SPLIT"}
    BY <1>1, <2>1, Leaf
  <2>3. e.state[t] \notin {"ABSENT", "SPLIT"}
    BY <1>1, <1>6, <2>2
  <2>4. \A u \in Task : d.proof[u] => e.proof[u]
    BY <1>6, <2>1
  <2>5. \A x \in c : x.kind = "PROOF" => TaskOf(x.lease) \in Task
    BY <1>1, LeaseIds DEF Filed
  <2> QED BY <2>1, <2>2, <2>3, <2>4, <2>5 DEF Whole, MovesLeaf
<1> HIDE DEF t, k, v
<1>14. Work(e, k)
  BY <1>1, <1>2, <1>7, <1>8, <1>10, <1>11, <1>12, <1>13, MoveWork
<1> QED BY <1>14 DEF e, k, v

\* Remembering a message changes nothing that the climb, or a quarantine,
\* looks at: it may as well come first.
LEMMA RecordedPropagate ==
    ASSUME NEW d \in Database, NEW t, NEW l, NEW kind, NEW e \in Propagate(d, t)
    PROVE  Recorded(e, l, kind) \in Propagate(Recorded(d, l, kind), t)
<1> DEFINE r == Recorded(d, l, kind)
           seen == d.processed \cup {<<l, kind>>}
           states(s) == [c \in Task |-> Relabelled(d, s, c)]
<1>1. PICK s \in Climbs(d, t) :
        e = LET f == [d EXCEPT !.state = states(s)]
            IN  IF f.state[Root] \in Certified /\ (t = Root \/ d.state[Root] = "SPLIT")
                THEN CloseUnsatJob(f) ELSE f
  BY DEF Propagate
<1>2. r = [d EXCEPT !.processed = seen]
  BY DEF Recorded
<1>3. r.state = d.state /\ r.parent = d.parent /\ r.cube = d.cube /\ r.holder = d.holder
      /\ r.lease = d.lease
  BY <1>2 DEF Database
<1> HIDE DEF r, seen
<1>4. /\ \A p : Children(r, p) = Children(d, p)
      /\ \A p : ExactPair(r, p) <=> ExactPair(d, p)
  BY <1>3, SameChildren
<1>5. \A q, c : Relabelled(r, q, c) = Relabelled(d, q, c)
  BY <1>3 DEF Relabelled
<1>6. \A q, p : Labels(r, q, p) = Labels(d, q, p)
  BY <1>4, <1>5 DEF Labels
<1>7. s \in Climbs(r, t)
  BY <1>3, <1>4, <1>6 DEF Climbs
<1> DEFINE x == states(s)
           f == [d EXCEPT !.state = x]
           g == [r EXCEPT !.state = x]
<1>8. x = [c \in Task |-> Relabelled(r, s, c)]
  BY <1>5
<1> HIDE DEF x
<1>9. (IF g.state[Root] \in Certified /\ (t = Root \/ r.state[Root] = "SPLIT")
       THEN CloseUnsatJob(g) ELSE g) \in Propagate(r, t)
  BY <1>7, <1>8 DEF Propagate
<1>10. /\ f.state = x /\ g.state = x /\ f.holder = d.holder /\ g.holder = d.holder
       /\ f.lease = d.lease /\ g.lease = d.lease /\ f.processed = d.processed
       /\ g = [f EXCEPT !.processed = seen]
  BY <1>2, <1>3 DEF Database
<1>11. Recorded(f, l, kind) = g
  BY <1>10 DEF Recorded, seen
<1>12. Recorded(CloseUnsatJob(f), l, kind) = CloseUnsatJob(g)
  <2> DEFINE open == {u \in Task : x[u] \in {"READY", "LEASED"}}
             closedStates == [u \in Task |-> IF u \in open THEN "CANCELLED" ELSE x[u]]
             closedHolders == [u \in Task |-> IF u \in open THEN NoLease ELSE d.holder[u]]
             rows == CloseLeases(d, LeaseId, "SUPERSEDED")
  <2>1. CloseLeases(f, LeaseId, "SUPERSEDED") = rows /\ CloseLeases(g, LeaseId, "SUPERSEDED") = rows
    BY <1>10 DEF CloseLeases, Active
  <2>2. /\ CloseUnsatJob(f) = [f EXCEPT !.job = x[Root], !.state = closedStates,
                                        !.holder = closedHolders, !.lease = rows]
        /\ CloseUnsatJob(g) = [g EXCEPT !.job = x[Root], !.state = closedStates,
                                        !.holder = closedHolders, !.lease = rows]
    <3> HIDE DEF f, g
    <3>1. ASSUME NEW q, q.state = x, q.holder = d.holder,
                 CloseLeases(q, LeaseId, "SUPERSEDED") = rows
          PROVE  CloseUnsatJob(q) = [q EXCEPT !.job = x[Root], !.state = closedStates,
                                              !.holder = closedHolders, !.lease = rows]
      <4>1. {u \in Task : q.state[u] \in {"READY", "LEASED"}} = open
        BY <3>1
      <4>2. /\ closedStates = [u \in Task |-> IF u \in open THEN "CANCELLED" ELSE q.state[u]]
            /\ closedHolders = [u \in Task |-> IF u \in open THEN NoLease ELSE q.holder[u]]
        BY <3>1
      <4> HIDE DEF closedStates, closedHolders, open, rows
      <4> QED BY <3>1, <4>1, <4>2 DEF CloseUnsatJob
    <3> HIDE DEF closedStates, closedHolders, rows
    <3> QED BY <1>10, <2>1, <3>1
  <2> HIDE DEF closedStates, closedHolders, rows
  <2>3. /\ CloseUnsatJob(f) = [d EXCEPT !.job = x[Root], !.state = closedStates,
                                        !.holder = closedHolders, !.lease = rows]
        /\ CloseUnsatJob(g) = [d EXCEPT !.processed = seen, !.job = x[Root], !.state = closedStates,
                                        !.holder = closedHolders, !.lease = rows]
    BY <1>2, <2>2 DEF Database
  <2>4. /\ CloseUnsatJob(f).processed = d.processed
        /\ CloseUnsatJob(g) = [CloseUnsatJob(f) EXCEPT !.processed = seen]
    <3> DEFINE h == CloseUnsatJob(f)
    <3>1. /\ h = [d EXCEPT !.job = x[Root], !.state = closedStates,
                           !.holder = closedHolders, !.lease = rows]
          /\ CloseUnsatJob(g) = [d EXCEPT !.processed = seen, !.job = x[Root],
                                          !.state = closedStates, !.holder = closedHolders,
                                          !.lease = rows]
      BY <2>3
    <3> HIDE DEF f, g, h
    <3>2. h.processed = d.processed
      BY <3>1 DEF Database
    <3>3. CloseUnsatJob(g) = [h EXCEPT !.processed = seen]
      BY <3>1 DEF Database
    <3> QED BY <3>2, <3>3 DEF h
  <2> QED BY <2>4 DEF Recorded, seen
<1>13. e = IF g.state[Root] \in Certified /\ (t = Root \/ r.state[Root] = "SPLIT")
           THEN CloseUnsatJob(f) ELSE f
  BY <1>1, <1>3, <1>10 DEF x
<1> HIDE DEF f, g
<1> QED BY <1>9, <1>11, <1>12, <1>13 DEF r

LEMMA RecordedQuarantine ==
    ASSUME NEW d \in Database, NEW s, NEW l, NEW kind
    PROVE  Recorded(Quarantine(d, s), l, kind) = Quarantine(Recorded(d, l, kind), s)
<1> DEFINE r == Recorded(d, l, kind)
           seen == d.processed \cup {<<l, kind>>}
           mine == SessionLeases(d, s)
           back == {t \in Task : d.state[t] = "LEASED" /\ d.holder[t] \in mine}
           states == [t \in Task |-> IF t \in back THEN "READY" ELSE d.state[t]]
           holders == [t \in Task |-> IF t \in back THEN NoLease ELSE d.holder[t]]
           rows == DropPermits(CloseLeases(d, mine, "SUPERSEDED"), mine)
           flagged == d.quarantined \cup {s}
<1>1. r = [d EXCEPT !.processed = seen]
  BY DEF Recorded
<1>2. /\ r.state = d.state /\ r.holder = d.holder /\ r.lease = d.lease
      /\ r.quarantined = d.quarantined
  BY <1>1 DEF Database
<1> HIDE DEF r
<1>3. SessionLeases(r, s) = mine
  BY <1>2 DEF SessionLeases, Active
<1>4. CloseLeases(r, mine, "SUPERSEDED") = CloseLeases(d, mine, "SUPERSEDED")
  BY <1>2 DEF CloseLeases, Active
<1>5. /\ Quarantine(d, s) = [d EXCEPT !.quarantined = flagged, !.state = states,
                                      !.holder = holders, !.lease = rows]
      /\ Quarantine(r, s) = [r EXCEPT !.quarantined = flagged, !.state = states,
                                      !.holder = holders, !.lease = rows]
  BY <1>2, <1>3, <1>4 DEF Quarantine
<1> HIDE DEF flagged, states, holders, rows, seen
<1>6. Quarantine(d, s).processed = d.processed
  BY <1>5 DEF Database
<1>7. Quarantine(r, s) = [Quarantine(d, s) EXCEPT !.processed = seen]
  BY <1>1, <1>5 DEF Database
<1> QED BY <1>6, <1>7 DEF Recorded, r, seen

\* The handler of a proof of a job that is over.
LEMMA LateProofWork ==
    ASSUME NEW d \in Database, NEW c \in SUBSET Call, Work(d, c), NEW l \in LeaseId,
           Report(d, l, "PROOF") \in c, ~Open(d.job)
    PROVE  Work(Recorded(d, l, "PROOF"), c \ {Report(d, l, "PROOF")})
<1> DEFINE v == Report(d, l, "PROOF")
           k == c \ {v}
           e == Recorded(d, l, "PROOF")
<1>1. Work(d, k) /\ Filed(d, k) /\ Filed(d, c)
  BY FewerCallsWork DEF Work
<1>2. e = [d EXCEPT !.processed = d.processed \cup {<<l, "PROOF">>}]
  BY DEF Recorded
<1>3. /\ e.parent = d.parent /\ e.cube = d.cube /\ e.artifact = d.artifact
      /\ e.proof = d.proof /\ e.count = d.count /\ e.job = d.job /\ e.state = d.state
      /\ e.holder = d.holder /\ e.lease = d.lease
      /\ e.processed = d.processed \cup {<<l, "PROOF">>}
  BY <1>2 DEF Database
<1> HIDE DEF e
<1>4. \A x \in k : x.kind = "PROOF" => x.lease # l
  BY <1>1, OneJudge
<1>5. Filed(e, k)
  BY <1>1, <1>3, <1>4 DEF Filed
<1>6. Evidence(e)
  BY <1>1, <1>3 DEF Work, Evidence, Proved
<1>7. Searched(e, k) /\ Issued(e)
  BY <1>1, <1>3 DEF Work, Searched, Issued
<1>8. "SAT" \notin Sends => Whole(e, k)
  BY <1>1, <1>3, SameChildren DEF Work, Whole
<1>9. "PROOF" \notin Sends => Sole(e) /\ Unproved(e, k)
  BY <1>1, <1>3 DEF Work, Sole, Active, Unproved
<1>10. Work(e, k)
  BY <1>5, <1>6, <1>7, <1>8, <1>9 DEF Work
<1> QED BY <1>10 DEF e

\* What follows the answer about a proof.
LEMMA AfterProofWork ==
    ASSUME Tasks, NEW l \in LeaseId, Verification(l, "PROOF") \in calls,
           NEW answer \in UnsatAnswers(db.cube[TaskOf(l)]), NEW e \in AfterProof(l, answer)
    PROVE  Work(Recorded(e, l, "PROOF"), calls \ {Verification(l, "PROOF")})
<1> DEFINE t == TaskOf(l)
           s == db.lease[l].session
           k == calls \ {Verification(l, "PROOF")}
           artifact(status) == [db.artifact EXCEPT ![l] = status]
           certified == [db EXCEPT !.artifact = artifact("SERVER_CERTIFIED"),
                                   !.state = [db.state EXCEPT ![t] = "UNSAT_CERTIFIED"]]
           asked == [db EXCEPT !.artifact = artifact("OWNER_CHECK_REQUIRED")]
           ready == [db EXCEPT !.state = [db.state EXCEPT ![t] = "READY"],
                               !.proof = [db.proof EXCEPT ![t] = TRUE]]
           refused == [db EXCEPT !.state = [db.state EXCEPT ![t] = "READY"],
                                 !.proof = [db.proof EXCEPT ![t] = TRUE],
                                 !.artifact = artifact("INVALID"),
                                 !.holder = [db.holder EXCEPT ![t] = NoLease]]
<1>1. /\ t \in Task /\ db \in Database /\ Known(db) /\ Good(db) /\ Work(db, calls)
      /\ t <= db.rows /\ s \in Session /\ calls \in SUBSET Call
      /\ Verification(l, "PROOF") = Report(db, l, "PROOF")
  BY LeaseTask, VerificationKnown DEF Tasks, IInv, Verification, Report
<1>2. /\ answer = "VALID_UNSAT" => e \in Propagate(certified, t)
      /\ answer = "OWNER_CHECK_REQUIRED" => e = asked
      /\ answer = "INVALID_FORMULA" => e = InvalidFormula(db)
      /\ answer = "INVALID_PROOF" => e = Quarantine(refused, s)
      /\ answer = "VERIFICATION_TIMEOUT" => e = ready
  BY <1>1 DEF AfterProof, Database
<1>3. /\ answer \in {"VALID_UNSAT", "OWNER_CHECK_REQUIRED", "INVALID_FORMULA",
                     "INVALID_PROOF", "VERIFICATION_TIMEOUT"}
      /\ answer = "VALID_UNSAT" => FormulaParses /\ ~HasModel(db.cube[t])
  BY DEF UnsatAnswers
<1>4. /\ db.state = [db.state EXCEPT ![t] = db.state[t]]
      /\ db.holder = [db.holder EXCEPT ![t] = db.holder[t]]
      /\ db.proof = [db.proof EXCEPT ![t] = db.proof[t]]
      /\ db.artifact = [db.artifact EXCEPT ![l] = db.artifact[l]]
  BY <1>1 DEF Database
<1>5. /\ certified = Ruled(db, l, "UNSAT_CERTIFIED", db.holder[t], db.proof[t], "SERVER_CERTIFIED")
      /\ asked = Ruled(db, l, db.state[t], db.holder[t], db.proof[t], "OWNER_CHECK_REQUIRED")
      /\ ready = Ruled(db, l, "READY", db.holder[t], TRUE, db.artifact[l])
      /\ refused = Ruled(db, l, "READY", NoLease, TRUE, "INVALID")
  <2>1. certified = Ruled(db, l, "UNSAT_CERTIFIED", db.holder[t], db.proof[t], "SERVER_CERTIFIED")
    BY <1>1, <1>4 DEF Ruled, Database
  <2>2. asked = Ruled(db, l, db.state[t], db.holder[t], db.proof[t], "OWNER_CHECK_REQUIRED")
    BY <1>1, <1>4 DEF Ruled, Database
  <2>3. ready = Ruled(db, l, "READY", db.holder[t], TRUE, db.artifact[l])
    BY <1>1, <1>4 DEF Ruled, Database
  <2>4. refused = Ruled(db, l, "READY", NoLease, TRUE, "INVALID")
    BY <1>1 DEF Ruled, Database
  <2> QED BY <2>1, <2>2, <2>3, <2>4
<1>6. /\ Recorded(certified, l, "PROOF") =
            Judged(db, l, "UNSAT_CERTIFIED", db.holder[t], db.proof[t], "SERVER_CERTIFIED")
      /\ Recorded(asked, l, "PROOF") =
            Judged(db, l, db.state[t], db.holder[t], db.proof[t], "OWNER_CHECK_REQUIRED")
      /\ Recorded(ready, l, "PROOF") =
            Judged(db, l, "READY", db.holder[t], TRUE, db.artifact[l])
      /\ Recorded(refused, l, "PROOF") = Judged(db, l, "READY", NoLease, TRUE, "INVALID")
  <2> HIDE DEF certified, asked, ready, refused
  <2> QED BY <1>5 DEF Judged
<1>6a. /\ Work(Recorded(certified, l, "PROOF"), k)
       /\ Work(Recorded(asked, l, "PROOF"), k)
       /\ Work(Recorded(ready, l, "PROOF"), k)
       /\ Work(Recorded(refused, l, "PROOF"), k)
  <2> HIDE DEF certified, asked, ready, refused
  <2>0. k = calls \ {Report(db, l, "PROOF")} /\ Report(db, l, "PROOF") \in calls
    BY <1>1
  <2> HIDE DEF k
  <2>1. ASSUME NEW state, NEW holder \in {NoLease, db.holder[TaskOf(l)]},
               NEW proof \in {TRUE, db.proof[TaskOf(l)]}, NEW status,
               \/ state = "READY"
               \/ state = "UNSAT_CERTIFIED" /\ status = "SERVER_CERTIFIED"
               \/ /\ state = db.state[TaskOf(l)] /\ holder = db.holder[TaskOf(l)]
                  /\ status = "OWNER_CHECK_REQUIRED"
        PROVE  Work(Judged(db, l, state, holder, proof, status), k)
    BY <1>1, <2>0, <2>1, JudgedWork
  <2>2. Work(Judged(db, l, "UNSAT_CERTIFIED", db.holder[t], db.proof[t], "SERVER_CERTIFIED"), k)
    BY <2>1
  <2>3. Work(Judged(db, l, db.state[t], db.holder[t], db.proof[t], "OWNER_CHECK_REQUIRED"), k)
    BY <2>1
  <2>4. Work(Judged(db, l, "READY", db.holder[t], TRUE, db.artifact[l]), k)
    BY <2>1
  <2>5. Work(Judged(db, l, "READY", NoLease, TRUE, "INVALID"), k)
    BY <2>1
  <2> QED BY <1>6, <2>2, <2>3, <2>4, <2>5
<1>7. CASE answer = "VALID_UNSAT"
  <2>1. /\ artifact("SERVER_CERTIFIED") \in [LeaseId -> ProofStatus]
        /\ \A i \in LeaseId : artifact("SERVER_CERTIFIED")[i] # "NONE" => TaskOf(i) <= db.rows
        /\ "UNSAT_CERTIFIED" \in Certified
    BY <1>1 DEF Database, ProofStatus, Known, Certified
  <2>2. Keeps(db, certified)
    <3> HIDE DEF t, artifact
    <3> QED BY <1>1, <1>3, <1>7, <2>1, CertifyKeeps
  <2> HIDE DEF certified
  <2>3. Good(certified) /\ certified \in Database /\ Known(certified) /\ "PROOF" \in MessageKind
    BY <2>2 DEF Keeps, Good, MessageKind
  <2>4. Good(Recorded(certified, l, "PROOF"))
    BY <2>3, RecordedBookkeeping, BookkeepingKeeps DEF Keeps
  <2>5. Work(Recorded(certified, l, "PROOF"), k)
    BY <1>6a
  <2>6. Recorded(e, l, "PROOF") \in Propagate(Recorded(certified, l, "PROOF"), t)
    BY <1>2, <1>7, <2>3, RecordedPropagate
  <2> HIDE DEF k
  <2>7. Work(Recorded(e, l, "PROOF"), k)
    BY <1>1, <1>3, <1>7, <2>4, <2>5, <2>6, PropagateWork
  <2> QED BY <2>7 DEF k
<1>8. CASE answer = "OWNER_CHECK_REQUIRED"
  <2> HIDE DEF asked
  <2> QED BY <1>2, <1>6a, <1>8
<1>9. CASE answer = "INVALID_FORMULA"
  <2>1. e \in Database
    BY AfterProofFair DEF Tasks, Fair, Good
  <2>2. Work(e, calls) /\ ~Open(e.job)
    BY <1>1, <1>2, <1>9, <2>1, InvalidFormulaWork DEF Open
  <2>3. Report(e, l, "PROOF") = Report(db, l, "PROOF")
    <3>1. e.lease = CloseLeases(db, LeaseId, "SUPERSEDED") /\ "SUPERSEDED" \in LeaseStatus \ {"ACTIVE", "NONE"}
      BY <1>1, <1>2, <1>9 DEF InvalidFormula, Database, LeaseStatus
    <3>2. e.lease[l].session = db.lease[l].session
      BY <1>1, <3>1, AllClosedRows
    <3> QED BY <3>2 DEF Report
  <2> QED BY <1>1, <2>1, <2>2, <2>3, LateProofWork
<1>10. CASE answer = "INVALID_PROOF"
  <2> DEFINE r == Recorded(refused, l, "PROOF")
  <2>1. refused \in Database /\ Known(refused)
    <3>1. /\ [db.proof EXCEPT ![t] = TRUE] \in [Task -> BOOLEAN]
          /\ artifact("INVALID") \in [LeaseId -> ProofStatus]
          /\ \A i \in LeaseId : artifact("INVALID")[i] # "NONE" => TaskOf(i) <= db.rows
      BY <1>1 DEF Database, ProofStatus, Known
    <3>2. refused = [db EXCEPT !.state = [db.state EXCEPT ![t] = "READY"],
                               !.holder = [db.holder EXCEPT ![t] = NoLease],
                               !.proof = [db.proof EXCEPT ![t] = TRUE], !.lease = db.lease,
                               !.artifact = artifact("INVALID")]
      BY <1>1 DEF Database
    <3> DEFINE wanted == [db.proof EXCEPT ![t] = TRUE]
    <3> HIDE DEF refused, t, artifact, wanted
    <3>3. /\ wanted \in [Task -> BOOLEAN]
          /\ refused = [db EXCEPT !.state = [db.state EXCEPT ![t] = "READY"],
                               !.holder = [db.holder EXCEPT ![t] = NoLease],
                               !.proof = wanted, !.lease = db.lease,
                               !.artifact = artifact("INVALID")]
      BY <3>1, <3>2 DEF wanted
    <3> QED BY <1>1, <3>1, <3>3, ReadyFair
  <2> HIDE DEF refused
  <2>2. "PROOF" \in MessageKind
    BY DEF MessageKind
  <2>3. r \in Database /\ Known(r)
    BY <2>1, <2>2, RecordedBookkeeping, BookkeepingKnown
  <2>4. Work(r, k)
    BY <1>6a
  <2>5. Recorded(e, l, "PROOF") = Quarantine(r, s)
    BY <1>2, <1>10, <2>1, RecordedQuarantine
  <2> HIDE DEF r, k
  <2>6. Work(Quarantine(r, s), k)
    BY <1>1, <2>3, <2>4, QuarantineBookkeeping, QuarantineShift, ShiftWork
  <2> QED BY <2>5, <2>6 DEF k
<1>11. CASE answer = "VERIFICATION_TIMEOUT"
  <2> HIDE DEF ready
  <2> QED BY <1>2, <1>6a, <1>11
<1> QED BY <1>3, <1>7, <1>8, <1>9, <1>10, <1>11

\* The rest of a proof's handler.
LEMMA ProofAnsweredWork ==
    ASSUME Tasks, NEW l \in LeaseId, NEW answer, ProofAnswered(l, answer) PROVE Work(db', calls')
<1>1. /\ Verification(l, "PROOF") \in calls /\ calls' = calls \ {Verification(l, "PROOF")}
      /\ Answered(l, "PROOF", AfterProof(l, answer))
      /\ answer \in UnsatAnswers(db.cube[TaskOf(l)])
  BY DEF ProofAnswered
<1>2. \A e \in AfterProof(l, answer) : Fair(db, e) /\ Work(Recorded(e, l, "PROOF"), calls')
  BY <1>1, AfterProofFair, AfterProofWork DEF Tasks
<1>3. "PROOF" \in MessageKind
  BY DEF MessageKind
<1> QED BY <1>1, <1>2, <1>3, AnsweredWork

-----------------------------------------------------------------------------
(* The owner's check, the split, and the steps of the job's life.          *)

\* The owner checked a proof: its artifact and its task are marked.
LEMMA ConfirmOwnerProofWork ==
    ASSUME Tasks, NEW l \in LeaseId, ConfirmOwnerProof(l) PROVE Work(db', calls')
<1> DEFINE t == TaskOf(l)
           artifact == [db.artifact EXCEPT ![l] = "OWNER_VERIFIED"]
           state == IF db.state[t] = "VERIFYING_UNSAT" THEN "UNSAT_OWNER_VERIFIED" ELSE db.state[t]
           f == [db EXCEPT !.artifact = artifact, !.state = [db.state EXCEPT ![t] = state]]
<1>1. /\ t \in Task /\ db \in Database /\ Known(db) /\ Good(db) /\ Filed(db, calls)
      /\ Work(db, calls)
  BY LeaseTask DEF Tasks
<1>2. /\ db.artifact[l] = "OWNER_CHECK_REQUIRED" /\ FormulaParses /\ ~HasModel(db.cube[t])
      /\ UNCHANGED <<sockets, calls>> /\ db' \in Propagate(f, t)
  BY DEF ConfirmOwnerProof
<1>3. /\ t <= db.rows
      /\ artifact \in [LeaseId -> ProofStatus]
      /\ \A k \in LeaseId : artifact[k] = IF k = l THEN "OWNER_VERIFIED" ELSE db.artifact[k]
      /\ \A k \in LeaseId : artifact[k] # "NONE" => TaskOf(k) <= db.rows
  BY <1>1, <1>2 DEF Database, ProofStatus, Known
<1>4. /\ state \in Certified \cup {db.state[t]}
      /\ state = db.state[t] \/ (state = "UNSAT_OWNER_VERIFIED" /\ db.state[t] = "VERIFYING_UNSAT")
      /\ db.state[t] = "VERIFYING_UNSAT" => state = "UNSAT_OWNER_VERIFIED"
  BY DEF Certified
<1>5. /\ f.parent = db.parent /\ f.cube = db.cube /\ f.count = db.count /\ f.job = db.job
      /\ f.artifact = artifact /\ f.processed = db.processed /\ f.lease = db.lease
      /\ f.holder = db.holder /\ f.proof = db.proof
      /\ \A u \in Task : f.state[u] = IF u = t THEN state ELSE db.state[u]
  BY <1>1 DEF Database
<1>6. Good(f)
  <2> HIDE DEF t, artifact, state
  <2> QED BY <1>1, <1>2, <1>3, <1>4, CertifyKeeps DEF Keeps
<1> HIDE DEF t, artifact, state, f
<1>7. Moves(db, f, t)
  BY <1>1, <1>2, <1>3, <1>5 DEF Moves, t
<1>8. Filed(f, calls)
  <2>1. \A x \in calls : x.kind = "PROOF" => x.lease # l
    BY <1>1, <1>2 DEF Filed
  <2>2. <<l, "PROOF">> \in db.processed
    BY <1>1, <1>2 DEF Filed
  <2> QED BY <1>1, <1>3, <1>5, <2>1, <2>2 DEF Filed
<1>9. state = "UNSAT_OWNER_VERIFIED" =>
        \A m : Covers(db.cube[t], m) => Proved(f, m, "UNSAT_OWNER_VERIFIED")
  BY <1>3, <1>5 DEF Proved, t
<1>10. Waits(db, calls, t) => f.state[t] \in Certified \/ Waits(f, calls, t)
  <2>1. CASE db.state[t] = "VERIFYING_UNSAT"
    BY <1>1, <1>4, <1>5, <2>1 DEF Certified
  <2>2. CASE db.state[t] # "VERIFYING_UNSAT"
    <3>1. /\ f.state[t] = db.state[t] /\ f.holder = db.holder /\ f.lease = db.lease
          /\ \A k, kind : Report(f, k, kind) = Report(db, k, kind)
      BY <1>1, <1>4, <1>5, <2>2 DEF Report
    <3> QED BY <2>2, <3>1 DEF Waits, Held, Active
  <2> QED BY <2>1, <2>2
<1>11. db.state[t] \in Certified => f.state[t] \in Certified
  BY <1>1, <1>4, <1>5 DEF Certified
<1>12. ASSUME "SAT" \notin Sends
       PROVE  /\ MovesLeaf(db, f, t)
              /\ \A x \in calls : x.kind # "SAT" /\ (x.kind = "PROOF" => f.proof[TaskOf(x.lease)])
  <2>1. Whole(db, calls)
    BY <1>1, <1>12 DEF Work
  <2>2. MovesLeaf(db, f, t)
    BY <1>1, <1>4, <1>5, <2>1 DEF MovesLeaf, Whole, InUse
  <2> QED BY <1>5, <2>1, <2>2 DEF Whole
<1>13. "PROOF" \in Sends
  BY <1>1, <1>2 DEF Work, Unproved
<1>14. f.state[t] \in Certified => \/ f.state[t] = db.state[t]
                                   \/ \A m : Covers(db.cube[t], m) => Proved(f, m, f.state[t])
  BY <1>1, <1>4, <1>5, <1>9
<1>15. Work(f, calls)
  BY <1>1, <1>7, <1>8, <1>10, <1>11, <1>12, <1>13, <1>14, MoveWork
<1>16. Work(db', calls)
  BY <1>1, <1>2, <1>6, <1>15, PropagateWork
<1> QED BY <1>2, <1>16

\* A split keeps what its task stood for: an assignment of its cube lies in the
\* cube of one of its children, which wait in the queue.
LEMMA SplitWork ==
    ASSUME Tasks, NEW l \in LeaseId, NEW x \in Literal, Split(l, x) PROVE Work(db', calls')
<1> DEFINE t == TaskOf(l)
           pos == db.rows + 1
           neg == db.rows + 2
           d == Branched(l, x)
<1>1. /\ IInv /\ Good(db) /\ db \in Database /\ Known(db) /\ Tree(db) /\ Work(db, calls)
      /\ Filed(db, calls)
  BY LeaseTask DEF Tasks, Good
<1>1a. BranchedFrom(d, l, x) /\ Good(d)
  BY BranchedGood DEF Tasks
<1> HIDE DEF d
<1>2. /\ t \in Task /\ pos \in Task /\ neg \in Task /\ pos # neg /\ t # pos /\ t # neg
      /\ t <= db.rows /\ ~(pos <= db.rows) /\ ~(neg <= db.rows)
      /\ d.job = db.job /\ d.artifact = db.artifact /\ d.count = db.count
      /\ d.proof = db.proof /\ d.processed = db.processed
  BY <1>1a DEF BranchedFrom
<1>3. \A u \in Task :
        /\ d.state[u] = IF u \in {pos, neg} THEN "READY" ELSE IF u = t THEN "SPLIT" ELSE db.state[u]
        /\ d.parent[u] = IF u \in {pos, neg} THEN t ELSE db.parent[u]
        /\ d.cube[u] = IF u = pos THEN db.cube[t] \cup {x}
                       ELSE IF u = neg THEN NegativeBranch(db.cube[t], x) ELSE db.cube[u]
        /\ d.holder[u] = IF u = t THEN NoLease ELSE db.holder[u]
  BY <1>1a DEF BranchedFrom
<1>4. /\ \A k \in LeaseId : /\ d.lease[k].status = IF k = l THEN "SPLIT" ELSE db.lease[k].status
                            /\ d.lease[k].session = db.lease[k].session
      /\ Good(d)
  BY <1>1a DEF BranchedFrom
<1>5. /\ Active(db, l) /\ db.state[t] = "LEASED" /\ db.holder[t] = l /\ ~db.proof[t]
      /\ Respond(Recorded(d, l, "SPLIT")) /\ UNCHANGED <<sockets, calls>>
  BY DEF Split, MaySplit, Owns, Current, Branched, d
<1>6. NegativeBranch(db.cube[t], x) = db.cube[t] \cup {-x}
  BY DEF NegativeBranch
<1> HIDE DEF t, pos, neg
<1>7. /\ db.state[pos] = "ABSENT" /\ db.state[neg] = "ABSENT"
      /\ db.holder[pos] = NoLease /\ db.holder[neg] = NoLease
      /\ \A k \in LeaseId : TaskOf(k) \in {pos, neg} =>
            db.lease[k].status = "NONE" /\ db.artifact[k] = "NONE"
  BY <1>1, <1>2 DEF Known
<1>8. /\ \A k \in LeaseId : Active(d, k) <=> Active(db, k) /\ k # l
      /\ \A k, kind : k \in LeaseId => Report(d, k, kind) = Report(db, k, kind)
      /\ \A k \in LeaseId : d.lease[k].status = "NONE" <=> db.lease[k].status = "NONE"
  BY <1>4, <1>5 DEF Active, Report
<1>9. Issued(d) /\ Filed(d, calls)
  <2>1. Issued(d)
    BY <1>1, <1>2, <1>8 DEF Work, Issued
  <2> QED BY <1>1, <1>2, <1>4, <1>8, <2>1 DEF Filed
<1>10. Evidence(d)
  <2>1. ASSUME NEW m, NEW label, Proved(db, m, label) PROVE Proved(d, m, label)
    <3>1. PICK k \in LeaseId :
            /\ Covers(db.cube[TaskOf(k)], m)
            /\ \/ db.artifact[k] = "SERVER_CERTIFIED"
               \/ db.artifact[k] = "OWNER_VERIFIED" /\ label = "UNSAT_OWNER_VERIFIED"
      BY <2>1 DEF Proved
    <3>2. TaskOf(k) \in Task /\ TaskOf(k) \notin {pos, neg}
      BY <1>7, <3>1, LeaseIds
    <3>3. d.cube[TaskOf(k)] = db.cube[TaskOf(k)]
      BY <1>3, <3>2
    <3> QED BY <1>2, <3>1, <3>3 DEF Proved
  <2>2. ASSUME NEW u \in Task, d.state[u] \in Certified
        PROVE  d.state[u] = db.state[u] /\ d.cube[u] = db.cube[u]
    BY <1>3, <2>2 DEF Certified
  <2>3. Evidence(db)
    BY <1>1 DEF Work
  <2>4. d.job = db.job
    BY <1>2
  <2>5. ASSUME NEW u \in Task, d.state[u] \in Certified, NEW m \in Assignment, Covers(d.cube[u], m)
        PROVE  Proved(d, m, d.state[u])
    BY <2>1, <2>2, <2>3, <2>5 DEF Evidence
  <2> QED BY <2>1, <2>3, <2>4, <2>5 DEF Evidence
<1>11. "restart" \notin Faults => Searched(d, calls)
  <2> SUFFICES ASSUME "restart" \notin Faults, Open(d.job), NEW m \in Assignment
               PROVE  \E u \in Task :
                         Covers(d.cube[u], m) /\ (d.state[u] \in Certified \/ Waits(d, calls, u))
    BY DEF Searched
  <2>1. PICK u \in Task : Covers(db.cube[u], m) /\ (db.state[u] \in Certified \/ Waits(db, calls, u))
    BY <1>1, <1>2 DEF Work, Searched
  <2>2. u \notin {pos, neg}
    BY <1>7, <2>1 DEF Waits, Held, Certified
  <2>3. CASE u = t
    <3>1. Covers(db.cube[t] \cup {x}, m) \/ Covers(db.cube[t] \cup {-x}, m)
      BY <2>1, <2>3, OneBranch
    <3>2. Covers(d.cube[pos], m) \/ Covers(d.cube[neg], m)
      BY <1>2, <1>3, <1>6, <3>1
    <3>3. Waits(d, calls, pos) /\ Waits(d, calls, neg)
      BY <1>2, <1>3 DEF Waits, Held
    <3> QED BY <1>2, <3>2, <3>3
  <2>4. CASE u # t
    <3>1. d.state[u] = db.state[u] /\ d.cube[u] = db.cube[u] /\ d.holder[u] = db.holder[u]
      BY <1>3, <2>2, <2>4
    <3>2. Held(db, u) => Held(d, u)
      BY <1>8, <2>4, <3>1 DEF Held, t
    <3>3. Waits(db, calls, u) => Waits(d, calls, u)
      BY <1>2, <1>8, <3>1, <3>2 DEF Waits
    <3> QED BY <2>1, <3>1, <3>3
  <2> QED BY <2>3, <2>4
<1>12. ASSUME "SAT" \notin Sends PROVE Whole(d, calls)
  <2>1. Whole(db, calls)
    BY <1>1, <1>12 DEF Work
  <2>2. Children(db, t) = {}
    BY <1>2, <1>5, <2>1 DEF Whole, InUse
  <2>3. Children(d, t) = {pos, neg}
    BY <1>2, <1>3, <1>5, <2>2 DEF Children
  <2>4. ASSUME NEW u \in Task, u # t PROVE Children(d, u) = Children(db, u)
    BY <1>2, <1>3, <1>5, <1>7, <2>4 DEF Children
  <2>5. ASSUME NEW u \in {pos, neg} PROVE Children(db, u) = {}
    <3> SUFFICES ASSUME NEW c \in Children(db, u) PROVE FALSE
      OBVIOUS
    <3>1. c \in Task /\ db.state[c] # "ABSENT" /\ u < c
      BY <1>1 DEF Children, Tree
    <3>2. c <= db.rows
      BY <1>1, <3>1 DEF Known
    <3>3. u \in Nat /\ c \in Nat /\ db.rows \in Nat
      BY <1>1, <1>2, <3>1, SizesAssumption DEF Task, Database
    <3> QED BY <1>2, <3>1, <3>2, <3>3
  <2>6. ExactPair(d, t)
    <3>1. d.cube[pos] = d.cube[t] \cup {x} /\ d.cube[neg] = d.cube[t] \cup {-x}
      BY <1>2, <1>3, <1>6
    <3> QED BY <1>2, <2>3, <3>1 DEF ExactPair
  <2>7. ASSUME NEW u \in Task, u \notin {t, pos, neg}, Children(db, u) # {}
        PROVE  ExactPair(d, u)
    <3>1. Children(d, u) = Children(db, u)
      BY <2>4, <2>7
    <3>2. PICK a, b \in Task, y \in Literal :
            /\ a # b /\ Children(db, u) = {a, b}
            /\ db.cube[a] = db.cube[u] \cup {y} /\ db.cube[b] = db.cube[u] \cup {-y}
      BY <2>1, <2>7 DEF Whole, ExactPair
    <3>3. a \notin {pos, neg} /\ b \notin {pos, neg}
      BY <1>7, <3>2 DEF Children
    <3>4. d.cube[a] = db.cube[a] /\ d.cube[b] = db.cube[b] /\ d.cube[u] = db.cube[u]
      BY <1>3, <2>7, <3>3
    <3> QED BY <3>1, <3>2, <3>4 DEF ExactPair
  <2>8. \A u \in Task : d.state[u] = "ABSENT" => d.holder[u] = NoLease /\ ~d.proof[u]
    BY <1>2, <1>3, <2>1 DEF Whole
  <2>9. \A u \in Task : d.state[u] = "SPLIT" => Children(d, u) # {}
    BY <1>3, <2>1, <2>3, <2>4 DEF Whole
  <2>10. ASSUME NEW u \in Task, Children(d, u) # {}
         PROVE  ExactPair(d, u) /\ ~d.proof[u] /\ d.holder[u] = NoLease /\ d.state[u] \notin InUse
    <3>1. CASE u = t
      BY <1>2, <1>3, <1>5, <2>6, <3>1 DEF InUse
    <3>2. CASE u # t
      <4>1. u \notin {pos, neg}
        BY <2>4, <2>5, <2>10, <3>2
      <4> QED BY <1>2, <1>3, <2>1, <2>4, <2>7, <2>10, <3>2, <4>1 DEF Whole
    <3> QED BY <3>1, <3>2
  <2> QED BY <1>2, <2>1, <2>8, <2>9, <2>10 DEF Whole
<1>13. ASSUME "PROOF" \notin Sends PROVE Sole(d) /\ Unproved(d, calls)
  <2>1. Sole(db) /\ Unproved(db, calls)
    BY <1>1, <1>13 DEF Work
  <2>2. ASSUME NEW k \in LeaseId, Active(d, k)
        PROVE  d.state[TaskOf(k)] = "LEASED" /\ d.holder[TaskOf(k)] = k
    <3>1. Active(db, k) /\ k # l
      BY <1>8, <2>2
    <3>2. TaskOf(k) \in Task /\ db.state[TaskOf(k)] = "LEASED" /\ db.holder[TaskOf(k)] = k
      BY <2>1, <3>1, LeaseIds DEF Sole
    <3>3. TaskOf(k) \notin {t, pos, neg}
      BY <1>5, <1>7, <3>1, <3>2
    <3> QED BY <1>3, <3>2, <3>3
  <2> QED BY <1>2, <2>1, <2>2 DEF Sole, Unproved
<1>14. Work(d, calls)
  BY <1>9, <1>10, <1>11, <1>12, <1>13 DEF Work
<1>15. Settled(d, calls) /\ "SPLIT" \in MessageKind
  BY <1>4, <1>14 DEF Settled, Good, MessageKind
<1> QED BY <1>5, <1>15, RecordedWork

\* The upload is complete.
LEMMA CompleteUploadWork == ASSUME Tasks, CompleteUpload PROVE Work(db', calls')
<1> DEFINE e == [db EXCEPT !.job = "QUEUED"]
<1>1. /\ db \in Database /\ Work(db, calls) /\ db.job = "UPLOADING"
      /\ db' = e /\ UNCHANGED <<sockets, calls>>
  BY DEF CompleteUpload, Tasks, IInv, Good
<1>2. /\ e.parent = db.parent /\ e.cube = db.cube /\ e.artifact = db.artifact
      /\ e.proof = db.proof /\ e.count = db.count /\ e.state = db.state
      /\ e.holder = db.holder /\ e.lease = db.lease /\ e.processed = db.processed
      /\ e.job = "QUEUED"
  BY <1>1 DEF Database
<1> HIDE DEF e
<1>3. Issued(e) /\ Filed(e, calls)
  BY <1>1, <1>2 DEF Work, Issued, Filed
<1>4. Evidence(e)
  <2>1. \A m, label : Proved(e, m, label) <=> Proved(db, m, label)
    BY <1>2 DEF Proved
  <2> QED BY <1>1, <1>2, <2>1 DEF Work, Evidence, Certified
<1>5. "restart" \notin Faults => Searched(e, calls)
  <2>1. \A t \in Task : Waits(e, calls, t) <=> Waits(db, calls, t)
    BY <1>2 DEF Waits, Held, Active, Report
  <2> QED BY <1>1, <1>2, <2>1 DEF Work, Searched, Open
<1>6. "SAT" \notin Sends => Whole(e, calls)
  BY <1>1, <1>2, SameChildren DEF Work, Whole
<1>7. "PROOF" \notin Sends => Sole(e) /\ Unproved(e, calls)
  BY <1>1, <1>2 DEF Work, Sole, Unproved, Active
<1> QED BY <1>1, <1>3, <1>4, <1>5, <1>6, <1>7 DEF Work

\* The owner cancels.
LEMMA CancelWork == ASSUME Tasks, Cancel PROVE Work(db', calls')
<1> DEFINE e == db'
<1>1. db \in Database /\ Work(db, calls) /\ UNCHANGED calls
  BY DEF Cancel, Tasks, IInv, Good
<1>2. /\ e.parent = db.parent /\ e.cube = db.cube /\ e.proof = db.proof
      /\ e.artifact = db.artifact /\ e.processed = db.processed /\ e.count = db.count
      /\ e.job = "CANCELLED" /\ e.lease = CloseLeases(db, LeaseId, "CANCELLED")
      /\ e.state = [t \in Task |-> IF db.state[t] = "ABSENT" THEN "ABSENT" ELSE "CANCELLED"]
      /\ e.holder = [t \in Task |-> NoLease]
  BY <1>1 DEF Cancel, Database
<1>3. e \in Database
  BY CancelSound DEF Tasks, Sound, IInv, Good
<1>4. "CANCELLED" \in LeaseStatus \ {"ACTIVE", "NONE"}
  BY DEF LeaseStatus
<1>5. \A l \in LeaseId : /\ ~Active(e, l) /\ e.lease[l].session = db.lease[l].session
                         /\ e.lease[l].status = "NONE" <=> db.lease[l].status = "NONE"
  BY <1>1, <1>2, <1>4, AllClosedRows DEF Active
<1> HIDE DEF e
<1>6. /\ \A t \in Task : e.state[t] = db.state[t] \/ e.state[t] \in Final
      /\ \A t \in Task : db.state[t] = "ABSENT" => e.state[t] = "ABSENT"
      /\ \A t \in Task : e.holder[t] \in {NoLease, db.holder[t]}
  BY <1>2 DEF Final
<1>7. ~Open(e.job) /\ e.job \notin Certified
  BY <1>2 DEF Open, Certified
<1>8. Work(e, calls)
  BY <1>1, <1>2, <1>3, <1>5, <1>6, <1>7, ClosingWork
<1> QED BY <1>1, <1>8 DEF e

\* The job expires: nothing is left to promise anything about.
LEMMA ExpireWork == ASSUME Tasks, Expire PROVE Work(db', calls')
<1> DEFINE e == db'
<1>1. db \in Database
  BY DEF Tasks, IInv, Good
<1>2. /\ e.artifact = [l \in LeaseId |-> "NONE"] /\ e.job = "DELETED"
      /\ e.state = [t \in Task |-> "ABSENT"] /\ e.holder = [t \in Task |-> NoLease]
      /\ e.proof = [t \in Task |-> FALSE] /\ e.lease = [l \in LeaseId |-> NoRow]
      /\ calls' = {}
  BY <1>1 DEF Expire, Database
<1> HIDE DEF e
<1>3. \A l \in LeaseId : e.lease[l].status = "NONE" /\ e.artifact[l] = "NONE" /\ ~Active(e, l)
  BY <1>2 DEF NoRow, Active
<1>4. \A t \in Task : e.state[t] = "ABSENT" /\ e.holder[t] = NoLease /\ ~e.proof[t]
  BY <1>2
<1>5. \A t : Children(e, t) = {}
  BY <1>4 DEF Children
<1>6. Issued(e) /\ Filed(e, calls') /\ Evidence(e) /\ Searched(e, calls')
  BY <1>2, <1>3, <1>4 DEF Issued, Filed, Evidence, Searched, Certified, Open
<1>7. Whole(e, calls') /\ Sole(e) /\ Unproved(e, calls')
  BY <1>2, <1>3, <1>4, <1>5 DEF Whole, Sole, Unproved
<1> QED BY <1>6, <1>7 DEF Work, e

\* The object is evicted with its handlers: their tasks may be forgotten.
LEMMA RestartWork == ASSUME Tasks, "restart" \in Faults, Restart PROVE Work(db', calls')
<1>1. db' = db /\ calls' = {} /\ Work(db, calls)
  BY DEF Restart, Tasks
<1>2. Filed(db, {})
  BY <1>1 DEF Work, Filed
<1>3. "SAT" \notin Sends => Whole(db, {})
  BY <1>1 DEF Work, Whole
<1>4. "PROOF" \notin Sends => Sole(db) /\ Unproved(db, {})
  BY <1>1 DEF Work, Unproved
<1>5. Work(db, {})
  BY <1>1, <1>2, <1>3, <1>4 DEF Work
<1> QED BY <1>1, <1>5

-----------------------------------------------------------------------------
(* The theorems.                                                           *)

\* The invariant holds when the job is created.
LEMMA InitWork == Init => Work(db, calls)
<1> SUFFICES ASSUME Init PROVE Work(db, calls)
  OBVIOUS
<1>1. Root \in Task
  BY SizesAssumption DEF Root, Task
<1>2. /\ db.job = "UPLOADING" /\ calls = {}
      /\ \A t \in Task : /\ db.state[t] = IF t = Root THEN "READY" ELSE "ABSENT"
                         /\ db.holder[t] = NoLease /\ ~db.proof[t] /\ db.cube[t] = {}
                         /\ db.parent[t] = NoTask
      /\ \A l \in LeaseId : db.lease[l].status = "NONE" /\ db.artifact[l] = "NONE"
  BY DEF Init, NoRow
<1>3. \A t \in Task : Children(db, t) = {}
  BY <1>2, SizesAssumption DEF Children, NoTask, Task
<1>4. Issued(db) /\ Filed(db, calls) /\ Evidence(db)
  BY <1>2 DEF Issued, Filed, Evidence, Certified
<1>5. Searched(db, calls)
  <2>1. \A m : Covers(db.cube[Root], m)
    BY <1>1, <1>2 DEF Covers
  <2>2. Waits(db, calls, Root)
    BY <1>1, <1>2 DEF Waits, Held
  <2> QED BY <1>1, <2>1, <2>2 DEF Searched
<1>6. Whole(db, calls) /\ Sole(db) /\ Unproved(db, calls)
  BY <1>2, <1>3 DEF Whole, Sole, Unproved, Active
<1> QED BY <1>4, <1>5, <1>6 DEF Work

\* Every step of every handler keeps it.
LEMMA StepWork == Tasks /\ [Next]_vars => Work(db', calls')
<1> SUFFICES ASSUME Tasks, [Next]_vars PROVE Work(db', calls')
  OBVIOUS
<1>1. CASE OwnerStep
  BY <1>1, CompleteUploadWork, ConfirmOwnerProofWork, CancelWork DEF OwnerStep
<1>2. CASE SocketStep
  BY <1>2, HelloWork, DisconnectWork, ClientStoppedWork, HeartbeatWork DEF SocketStep
<1>3. CASE LeaseStep
  BY <1>3, SplitWork, RowStepsWork, YieldWork, SatResultWork, UnsatCandidateWork,
     StoreProofWork, UnsatProofWork DEF LeaseStep
<1>4. CASE VerifierStep
  BY <1>4, SatAnsweredWork, ProofAnsweredWork DEF VerifierStep
<1>5. CASE ClockStep
  BY <1>5, RowStepsWork, AlarmWork, ExpireWork DEF ClockStep
<1>6. CASE "restart" \in Faults /\ Restart
  BY <1>6, RestartWork
<1>7. CASE UNCHANGED vars
  BY <1>7 DEF vars, Tasks
<1> QED BY <1>1, <1>2, <1>3, <1>4, <1>5, <1>6, <1>7 DEF Next, Deleted

\* Every state the coordinator reaches satisfies the invariant.
LEMMA TasksInductive == Spec => []Tasks
<1>1. Init => Tasks
  BY InitIInv, InitWork DEF Tasks
<1>2. Tasks /\ [Next]_vars => Tasks'
  BY StepSound, StepWork DEF Tasks, Sound
<1> QED BY <1>1, <1>2, PTL DEF Spec

\* An UNSAT verdict rests on proofs that were checked and that cover every
\* assignment, and UNSAT_CERTIFIED on none that only the owner checked,
\* whatever browsers report and whatever is lost.
THEOREM ProofsCover == Spec => []ProofsCoverVerdict
<1>1. Tasks => ProofsCoverVerdict
  BY DEF Tasks, Work, Evidence, Proved, ProofsCoverVerdict
<1> QED BY <1>1, TasksInductive, PTL

\* Unless the object is evicted in the middle of a verification, every
\* assignment of an open job lies in the cube of a task that is certified or
\* that somebody has or will get.
THEOREM NothingIsForgotten ==
    ASSUME "restart" \notin Faults PROVE Spec => []NoCubeLost
<1>1. Tasks => NoCubeLost
  <2> SUFFICES ASSUME Tasks PROVE NoCubeLost
    OBVIOUS
  <2>1. Searched(db, calls)
    BY DEF Tasks, Work
  <2>2. \A t \in Task : Waits(db, calls, t) => Pending(t)
    BY DEF Waits, Held, Pending, Report, Verification
  <2> QED BY <2>1, <2>2 DEF Searched, Open, NoCubeLost
<1> QED BY <1>1, TasksInductive, PTL

\* As long as no proof is reported, two leases never own a task at once.
THEOREM TasksHaveOneOwner ==
    ASSUME "PROOF" \notin Sends PROVE Spec => []OneOwnerPerTask
<1>1. Tasks => OneOwnerPerTask
  BY DEF Tasks, Work, Sole, OneOwnerPerTask, BusyLeases, Current
<1> QED BY <1>1, TasksInductive, PTL

\* As long as no model is reported, a task that was split keeps the two exact
\* children of its split, ...
THEOREM SplitsHaveOnePair ==
    ASSUME "SAT" \notin Sends PROVE Spec => []SplitHasOnePair
<1>1. Tasks => SplitHasOnePair
  BY DEF Tasks, Work, Whole, SplitHasOnePair
<1> QED BY <1>1, TasksInductive, PTL

\* ... and is not queued or leased a second time.
THEOREM SplitsStayClosed ==
    ASSUME "SAT" \notin Sends PROVE Spec => []SplitIsNotReopened
<1>1. Tasks => SplitIsNotReopened
  BY DEF Tasks, Work, Whole, InUse, SplitIsNotReopened
<1> QED BY <1>1, TasksInductive, PTL

=============================================================================
