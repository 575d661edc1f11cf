---------------------------- MODULE JobCoordinator ----------------------------
(***************************************************************************)
(* One JobCoordinatorDO (worker/job-coordinator.ts): the Durable Object    *)
(* that owns the cube tree of one public job, its leases, its split        *)
(* permits and its verdict.                                                *)
(*                                                                         *)
(*  - The object runs one event at a time, but an event that awaits the    *)
(*    artifact store, a verifier or the directory lets other events in:    *)
(*    such a handler is two actions, joined by a record in "calls".        *)
(*  - "db" is the object's SQLite database, kept across restarts;          *)
(*    "sockets" the slots each session declared on its open WebSocket;     *)
(*    "calls" the handlers that are suspended at an await.                 *)
(*  - Every message handler ends in dispatchPendingWork, so every action   *)
(*    here ends in Dispatch.                                               *)
(*  - Time is abstract: a deadline passes in the actions LeaseLapses,      *)
(*    PermitLapses and Expire.  A formula is the set of its models, and    *)
(*    what a verifier may answer is in TrueAnswers.                        *)
(*  - An operator marked "Slip" is a plausible mistake in the one below    *)
(*    it.  Nothing uses it: PROJECT.json swaps it in to see which property *)
(*    notices.                                                             *)
(***************************************************************************)
EXTENDS TrueAnswers, FiniteSets

CONSTANTS
    Session,        \* browser sessions (sessionId)
    Slot,           \* worker slots a session may declare (slotId)
    MaxTasks,       \* COORDINATOR_MAX_TASKS
    MaxDepth,       \* COORDINATOR_MAX_CUBE_DEPTH
    MaxFrontier,    \* COORDINATOR_MAX_FRONTIER
    AlarmBatch,     \* COORDINATOR_ALARM_BATCH_SIZE
    MaxLeases,      \* bound of the model: leases ever issued for one task
    MaxIssued,      \* bound of the model: leases after which none is issued
    HelloMessages,  \* the HELLOs browsers send
    Sends,          \* the kinds of task messages browsers send
    Faults          \* what else happens to the job, see Fault

ASSUME SizesAssumption ==
    /\ MaxTasks \in Nat \ {0}
    /\ {MaxLeases, MaxIssued} \subseteq Nat
    /\ {MaxDepth, MaxFrontier, AlarmBatch} \subseteq Nat

\* A HELLO: its slots, whether the browser can produce proofs, and whether it
\* carries an assignment the directory has to activate.
Hello == [session: Session, slots: SUBSET Slot \ {{}}, prover: BOOLEAN, assigned: BOOLEAN]

\* A client keeps one message id per mutation until it is acknowledged, so a
\* message is named by its lease and its kind.
MessageKind == {"SPLIT", "YIELD", "SAT", "CANDIDATE", "PROOF"}

\* A socket that drops or is closed by its client, a send on an open socket
\* that throws, a lease whose deadline passes, an eviction of the object, the
\* owner's cancellation, and the job's own expiry.
Fault == {"drop", "stop", "throw", "lapse", "restart", "cancel", "expire"}

ASSUME InputsAssumption ==
    /\ HelloMessages \subseteq Hello
    /\ Sends \subseteq MessageKind
    /\ Faults \subseteq Fault

-----------------------------------------------------------------------------
(* Tables.                                                                 *)

Task == 1..MaxTasks
Root == 1
NoTask == 0

\* The n-th lease of task t: the code draws a random id per lease and counts
\* the leases of a task in lease_count.
LeaseId == Task \X (1..MaxLeases)
NoLease == <<0, 0>>
TaskOf(l) == l[1]

NoSlot == "no slot"
NoSession == "no session"

JobState == {"UPLOADING", "QUEUED", "RUNNING", "SAT_VERIFIED", "UNSAT_CERTIFIED",
             "UNSAT_OWNER_VERIFIED", "INVALID", "CANCELLED", "DELETED"}
Verdict == {"SAT_VERIFIED", "UNSAT_CERTIFIED", "UNSAT_OWNER_VERIFIED"}
Terminal == Verdict \cup {"INVALID", "CANCELLED"}
Certified == {"UNSAT_CERTIFIED", "UNSAT_OWNER_VERIFIED"}

TaskState == {"ABSENT", "READY", "LEASED", "SPLIT", "VERIFYING_SAT",
              "VERIFYING_UNSAT", "SAT_VERIFIED", "UNSAT_CERTIFIED",
              "UNSAT_OWNER_VERIFIED", "UNKNOWN", "CANCELLED"}

LeaseStatus == {"NONE", "ACTIVE", "EXPIRED", "YIELDED", "SPLIT", "RESULT",
                "SUPERSEDED", "CANCELLED"}

\* "permit" is the slot of the lease's ACTIVE row in split_permits, if any.
LeaseRow == [status: LeaseStatus, session: Session \cup {NoSession},
             slot: Slot \cup {NoSlot}, lapsed: BOOLEAN,
             permit: Slot \cup {NoSlot}]
NoRow == [status |-> "NONE", session |-> NoSession, slot |-> NoSlot,
          lapsed |-> FALSE, permit |-> NoSlot]

ProofStatus == {"NONE", "UPLOADED", "SERVER_CERTIFIED", "OWNER_CHECK_REQUIRED",
                "OWNER_VERIFIED", "INVALID"}

Database == [
    job: JobState,
    rows: 0..MaxTasks,                           \* tasks are numbered 1..rows
    state: [Task -> TaskState],
    parent: [Task -> Task \cup {NoTask}],
    cube: [Task -> SUBSET Literal],              \* assumptions_json
    proof: [Task -> BOOLEAN],                    \* proof_required
    holder: [Task -> LeaseId \cup {NoLease}],    \* active_lease_id
    count: [Task -> 0..MaxLeases],               \* lease_count
    lease: [LeaseId -> LeaseRow],
    artifact: [LeaseId -> ProofStatus],          \* proof_artifacts
    provers: SUBSET Session,                     \* proof_generation = 1
    quarantined: SUBSET Session,
    processed: SUBSET (LeaseId \X MessageKind)]  \* processed_messages

Call == [kind: {"SAT", "PROOF"}, lease: LeaseId, session: Session]
        \cup [kind: {"HELLO"}, hello: Hello]

VARIABLES db, sockets, calls
vars == <<db, sockets, calls>>

-----------------------------------------------------------------------------
(* Queries on the tables.                                                  *)

\* Slip: work goes out for any job that is not gone.
NotDeleted(d) == d.job \notin {"UPLOADING", "DELETED"}
Running(d) == d.job \in {"QUEUED", "RUNNING"}
Closed(d) == d.job \in Terminal \cup {"DELETED"}
Active(d, l) == d.lease[l].status = "ACTIVE"

\* ACTIVE with expires_at > now: what leaseWorkForSlot and the split budget count.
Current(d, l) == Active(d, l) /\ ~d.lease[l].lapsed

\* activeLease(): the lease that still owns its task.
Owns(d, l) ==
    /\ Current(d, l)
    /\ d.state[TaskOf(l)] = "LEASED"
    /\ d.holder[TaskOf(l)] = l

Depth(d, t) == Cardinality(d.cube[t])
Children(d, t) == {c \in Task : d.state[c] # "ABSENT" /\ d.parent[c] = t}
Frontier(d) == {t \in Task : ~d.proof[t] /\ d.state[t] \in {"READY", "LEASED"}}

\* Slip: sessions in quarantine still count.
OpenSlots(d, conn) == {p \in Session \X Slot : p[2] \in conn[p[1]]}

\* connectedSessions(): the (session, slot) pairs of the sockets that are open
\* and whose session is not quarantined.
ConnectedSlots(d, conn) ==
    {p \in Session \X Slot : p[2] \in conn[p[1]] /\ p[1] \notin d.quarantined}

BusyLeases(d) == {l \in LeaseId : Current(d, l)}
FrontierTarget(connected) ==
    IF 2 * connected <= MaxFrontier THEN 2 * connected ELSE MaxFrontier

\* Slip: a split adds two tasks, not one.
RoomForOne(d) == d.rows <= MaxTasks - 1

\* The task ceiling leaves room for two more children.
RoomForPair(d) == d.rows <= MaxTasks - 2

\* The two demand conditions handleSplit and issueSplitPermits share.
SplitDemand(d, conn) ==
    LET connected == Cardinality(ConnectedSlots(d, conn)) IN
    /\ connected > Cardinality(BusyLeases(d))
    /\ Cardinality(Frontier(d)) < FrontierTarget(connected)

-----------------------------------------------------------------------------
(* Row updates several handlers share.                                     *)

\* UPDATE leases SET status = ... WHERE task_id = t AND status = 'ACTIVE'
CloseTaskLeases(d, l) ==
    [k \in LeaseId |->
        IF TaskOf(k) = TaskOf(l) /\ Active(d, k)
        THEN [d.lease[k] EXCEPT !.status = IF k = l THEN "RESULT" ELSE "SUPERSEDED"]
        ELSE d.lease[k]]

\* UPDATE leases SET status = s WHERE status = 'ACTIVE' (and k is in ls)
CloseLeases(d, ls, s) ==
    [k \in LeaseId |->
        IF k \in ls /\ Active(d, k) THEN [d.lease[k] EXCEPT !.status = s] ELSE d.lease[k]]

DropPermits(rows, ls) ==
    [k \in LeaseId |-> IF k \in ls THEN [rows[k] EXCEPT !.permit = NoSlot] ELSE rows[k]]

\* Slip: the leases stay ACTIVE.
RequeueOnly(d, ls, s) ==
    [d EXCEPT !.state = [t \in Task |-> IF d.holder[t] \in ls THEN "READY" ELSE d.state[t]],
              !.holder = [t \in Task |-> IF d.holder[t] \in ls THEN NoLease ELSE d.holder[t]]]

\* Slip: the holder is cleared first, and the guarded update of the state
\* then finds no row.
ReleaseOnly(d, ls, s) ==
    [d EXCEPT !.lease = CloseLeases(d, ls, s),
              !.holder = [t \in Task |-> IF d.holder[t] \in ls THEN NoLease ELSE d.holder[t]]]

\* The leases of ls are closed with status s; the tasks they still hold go
\* back to READY and lose their holder.
Requeue(d, ls, s) ==
    LET back == {t \in Task : d.holder[t] \in ls} IN
    [d EXCEPT !.lease = CloseLeases(d, ls, s),
              !.state = [t \in Task |-> IF t \in back THEN "READY" ELSE d.state[t]],
              !.holder = [t \in Task |-> IF t \in back THEN NoLease ELSE d.holder[t]]]

SessionLeases(d, s) == {l \in LeaseId : Active(d, l) /\ d.lease[l].session = s}

-----------------------------------------------------------------------------
(* dispatchPendingWork: every idle slot is offered a task, then permits.   *)

\* Slip: busy slots are served too.
ServedSlots(d, served) == served

IdleSlots(d, served) ==
    served \ {<<d.lease[l].session, d.lease[l].slot>> : l \in BusyLeases(d)}

\* The tasks a new lease may take, within the bounds of the model.
Leasable(d) ==
    IF Cardinality({l \in LeaseId : d.lease[l].status # "NONE"}) >= MaxIssued THEN {}
    ELSE {t \in Task : d.state[t] = "READY" /\ d.count[t] < MaxLeases}

\* A session without proof generation is never given proof-required work.
Offered(d, p) == {t \in Leasable(d) : d.proof[t] => p[1] \in d.provers}

\* ORDER BY proof_required DESC, depth; created_at and task_id break the
\* remaining ties, and the model breaks them either way.
Before(d, t, u) ==
    \/ d.proof[t] /\ ~d.proof[u]
    \/ d.proof[t] = d.proof[u] /\ Depth(d, t) < Depth(d, u)

\* Slip: the loop breaks off at a slot it finds nothing for.
AssignmentsUpToGap(d, served) ==
    LET idle == IF Running(d) THEN IdleSlots(d, served) ELSE {}
    IN  {w \in [idle -> Leasable(d) \cup {NoTask}] :
            /\ \A p \in idle : w[p] # NoTask => w[p] \in Offered(d, p)
            /\ \A p, q \in idle : w[p] = w[q] /\ w[p] # NoTask => p = q
            /\ (\E p \in idle : Offered(d, p) = {}) => \A p \in idle : w[p] = NoTask}

\* What the loop over sessions and slots can hand out: no task twice, no slot
\* idle while it could work, no task passed over for one that sorts after it.
Assignments(d, served) ==
    LET idle == IF Running(d) THEN IdleSlots(d, served) ELSE {}
        ready == Leasable(d)
    IN  {w \in [idle -> ready \cup {NoTask}] :
            /\ \A p \in idle : w[p] = NoTask \/ w[p] \in Offered(d, p)
            /\ \A p, q \in idle : w[p] = w[q] /\ w[p] # NoTask => p = q
            /\ \A p \in idle : \A t \in Offered(d, p) \ {w[q] : q \in idle} :
                  w[p] # NoTask /\ ~Before(d, t, w[p])}

\* leaseWorkForSlot for the pairs of w that found a task.
WithWork(d, w) ==
    LET taken == {t \in Task : \E p \in DOMAIN w : w[p] = t}
        slotFor(t) == CHOOSE p \in DOMAIN w : w[p] = t
        new == {l \in LeaseId : TaskOf(l) \in taken /\ l[2] = d.count[TaskOf(l)] + 1}
    IN  [d EXCEPT
          !.job = IF taken # {} THEN "RUNNING" ELSE d.job,
          !.state = [t \in Task |-> IF t \in taken THEN "LEASED" ELSE d.state[t]],
          !.holder = [t \in Task |-> IF t \in taken THEN <<t, d.count[t] + 1>> ELSE d.holder[t]],
          !.count = [t \in Task |-> IF t \in taken THEN d.count[t] + 1 ELSE d.count[t]],
          !.lease = [l \in LeaseId |->
                       IF l \in new
                       THEN [status |-> "ACTIVE", session |-> slotFor(TaskOf(l))[1],
                             slot |-> slotFor(TaskOf(l))[2], lapsed |-> FALSE, permit |-> NoSlot]
                       ELSE d.lease[l]]]

\* issueSplitPermits: at most one ACTIVE permit per lease, and together with
\* the frontier never more than the target.  The one second of compute a lease
\* must have behind it may or may not have passed.
PermitSets(d, conn) ==
    LET connected == Cardinality(ConnectedSlots(d, conn))
        idle == connected - Cardinality(BusyLeases(d))
        outstanding == Cardinality({l \in LeaseId : d.lease[l].permit # NoSlot})
        room == FrontierTarget(connected) - Cardinality(Frontier(d)) - outstanding
        candidates == {l \in LeaseId :
                         /\ Owns(d, l)
                         /\ ~d.proof[TaskOf(l)]
                         /\ Depth(d, TaskOf(l)) < MaxDepth
                         /\ d.lease[l].permit = NoSlot
                         /\ conn[d.lease[l].session] # {}
                         /\ d.lease[l].session \notin d.quarantined}
    IN  IF idle <= 0 \/ room <= 0 \/ ~RoomForPair(d) THEN {{}}
        ELSE {P \in SUBSET candidates : Cardinality(P) <= idle /\ Cardinality(P) <= room}

WithPermits(d, P) ==
    [d EXCEPT !.lease = [l \in LeaseId |->
        IF l \in P THEN [d.lease[l] EXCEPT !.permit = d.lease[l].slot] ELSE d.lease[l]]]

\* rollbackUndeliveredLease: the send of WORK threw for the slots of failing.
\* The loop may serve them at any place; the model serves them first.
Undelivered(d, failing) ==
    IF failing = {} THEN {d}
    ELSE {LET e == WithWork(d, w)
          IN  Requeue(e, {e.holder[w[p]] : p \in {q \in DOMAIN w : w[q] # NoTask}}, "EXPIRED") :
            w \in Assignments(d, failing)}

DispatchedTo(d, conn, served) ==
    UNION {LET e == WithWork(d, w) IN {WithPermits(e, P) : P \in PermitSets(e, conn)} :
             w \in Assignments(d, served)}

\* One run of the loop in which every send to a session in "broken" throws.
DispatchRound(d, conn, welcomed, broken) ==
    LET connected == ConnectedSlots(d, conn)
        failing == {p \in connected \ welcomed : p[1] \in broken}
        served == (connected \cup welcomed) \ failing
    IN  UNION {DispatchedTo(e, conn, served) : e \in Undelivered(d, failing)}

MayBreak(d, conn, welcomed) ==
    IF "throw" \in Faults
    THEN {p[1] : p \in IdleSlots(d, ConnectedSlots(d, conn) \ welcomed)}
    ELSE {}

\* The databases dispatchPendingWork can leave behind.  "welcomed" are slots
\* handleHello serves first, whose work rides in WELCOME.
Dispatch(d, conn, welcomed) ==
    UNION {DispatchRound(d, conn, welcomed, broken) :
             broken \in SUBSET MayBreak(d, conn, welcomed)}

DispatchAll(d, conn) == Dispatch(d, conn, {})

-----------------------------------------------------------------------------
(* propagateUnsatCoverage and closeUnsatJob.                               *)

\* Exactly two children, each the parent's cube and one branch literal, the
\* two literals opposite.
ExactPair(d, p) ==
    \E a, b \in Task, x \in Literal :
        /\ a # b
        /\ Children(d, p) = {a, b}
        /\ d.cube[a] = d.cube[p] \cup {x}
        /\ d.cube[b] = d.cube[p] \cup {-x}

\* The state of c once the SPLIT tasks are relabelled by s.
Relabelled(d, s, c) == IF c \in DOMAIN s THEN s[c] ELSE d.state[c]
Labels(d, s, p) == {Relabelled(d, s, c) : c \in Children(d, p)}

\* An owner-verified child marks its parent.
PairLabel(labels) ==
    IF "UNSAT_OWNER_VERIFIED" \in labels THEN "UNSAT_OWNER_VERIFIED" ELSE "UNSAT_CERTIFIED"

\* Slip: one certified child is enough.
SomeCertified(labels) == labels \cap Certified # {}
AllCertified(labels) == labels \subseteq Certified

\* The loop that climbs from the parent of t: a SPLIT ancestor is certified
\* when both its children are.
Climbs(d, t) ==
    LET split == {p \in Task : d.state[p] = "SPLIT"} IN
    {s \in [split -> Certified \cup {"SPLIT"}] : \A p \in split :
        LET reached == p = d.parent[t] \/ \E c \in Children(d, p) \cap split : s[c] \in Certified
        IN  s[p] = IF reached /\ ExactPair(d, p) /\ AllCertified(Labels(d, s, p))
                   THEN PairLabel(Labels(d, s, p)) ELSE "SPLIT"}

CloseUnsatJob(d) ==
    LET open == {t \in Task : d.state[t] \in {"READY", "LEASED"}} IN
    [d EXCEPT !.job = d.state[Root],
              !.state = [t \in Task |-> IF t \in open THEN "CANCELLED" ELSE d.state[t]],
              !.holder = [t \in Task |-> IF t \in open THEN NoLease ELSE d.holder[t]],
              !.lease = CloseLeases(d, LeaseId, "SUPERSEDED")]

\* The databases propagation can leave behind after a change to task t.  The
\* job closes when the climb certifies the root, or began at a certified root.
Propagate(d, t) ==
    {LET e == [d EXCEPT !.state = [c \in Task |-> Relabelled(d, s, c)]]
     IN  IF e.state[Root] \in Certified /\ (t = Root \/ d.state[Root] = "SPLIT")
         THEN CloseUnsatJob(e) ELSE e : s \in Climbs(d, t)}

-----------------------------------------------------------------------------
(* The upload that opens the job, and its owner.                           *)

Init ==
    /\ db = [job |-> "UPLOADING", rows |-> 1,
             state |-> [t \in Task |-> IF t = Root THEN "READY" ELSE "ABSENT"],
             parent |-> [t \in Task |-> NoTask],
             cube |-> [t \in Task |-> {}],
             proof |-> [t \in Task |-> FALSE],
             holder |-> [t \in Task |-> NoLease],
             count |-> [t \in Task |-> 0],
             lease |-> [l \in LeaseId |-> NoRow],
             artifact |-> [l \in LeaseId |-> "NONE"],
             provers |-> {}, quarantined |-> {}, processed |-> {}]
    /\ sockets = [s \in Session |-> {}]
    /\ calls = {}

\* completeUpload / storeFormula's commit
CompleteUpload ==
    /\ db.job = "UPLOADING"
    /\ db' = [db EXCEPT !.job = "QUEUED"]
    /\ UNCHANGED <<sockets, calls>>

\* Slip: the leases are left to expire.
CancelTasksOnly ==
    /\ db.job \notin {"CANCELLED", "DELETED"}
    /\ db' = [db EXCEPT
                !.job = "CANCELLED",
                !.state = [t \in Task |-> IF db.state[t] = "ABSENT" THEN "ABSENT" ELSE "CANCELLED"],
                !.holder = [t \in Task |-> NoLease]]
    /\ UNCHANGED <<sockets, calls>>

\* cancel(): any state but CANCELLED, a verdict included.
Cancel ==
    /\ db.job \notin {"CANCELLED", "DELETED"}
    /\ db' = [db EXCEPT
                !.job = "CANCELLED",
                !.state = [t \in Task |-> IF db.state[t] = "ABSENT" THEN "ABSENT" ELSE "CANCELLED"],
                !.holder = [t \in Task |-> NoLease],
                !.lease = CloseLeases(db, LeaseId, "CANCELLED")]
    /\ UNCHANGED <<sockets, calls>>

\* confirmOwnerProof(): the owner checked the proof in the owner's browser.
ConfirmOwnerProof(l) ==
    LET t == TaskOf(l)
        confirmed == [db EXCEPT
            !.artifact[l] = "OWNER_VERIFIED",
            !.state[t] = IF db.state[t] = "VERIFYING_UNSAT" THEN "UNSAT_OWNER_VERIFIED"
                         ELSE db.state[t]]
    IN  /\ db.artifact[l] = "OWNER_CHECK_REQUIRED"
        /\ FormulaParses /\ ~HasModel(db.cube[t])   \* the owner's checker is sound
        /\ db' \in Propagate(confirmed, t)
        /\ UNCHANGED <<sockets, calls>>

-----------------------------------------------------------------------------
(* Sockets: fetch, handleHello, webSocketClose.                            *)

\* The slot each current lease of the session ends up on: its own if it was
\* declared again, else a declared one not claimed yet, else none.  "order" is
\* the order the leases were issued in.
Reconciled(d, s, slots) ==
    LET mine == {l \in SessionLeases(d, s) : ~d.lease[l].lapsed}
        n == Cardinality(mine)
        orders == {o \in [1..n -> mine] : \A i, j \in 1..n : o[i] = o[j] => i = j}
    IN  {r \in [mine -> slots \cup {NoSlot}] : \E o \in orders : \A i \in 1..n :
            LET unclaimed == slots \ {r[o[j]] : j \in 1..(i - 1)} IN
            IF d.lease[o[i]].slot \in slots THEN r[o[i]] = d.lease[o[i]].slot
            ELSE IF unclaimed # {} THEN r[o[i]] \in unclaimed
            ELSE r[o[i]] = NoSlot}

\* Leases keep or change their slot; those left without one are yielded.
WithSlots(d, r) ==
    LET kept == {l \in DOMAIN r : r[l] # NoSlot}
        e == Requeue(d, DOMAIN r \ kept, "YIELDED")
    IN  [e EXCEPT !.lease = [l \in LeaseId |->
            IF l \in kept THEN [e.lease[l] EXCEPT !.slot = r[l]] ELSE e.lease[l]]]

\* A socket opens only while the job runs, and a quarantined session is told so.
Admissible(h) == Running(db) /\ h.session \notin db.quarantined

\* The rest of handleHello: the new socket replaces the session's old one, its
\* slots are served first, then everybody's.
Welcome(h) ==
    LET s == h.session
        conn == [sockets EXCEPT ![s] = h.slots]
        profiled == [db EXCEPT !.provers = IF h.prover THEN @ \cup {s} ELSE @ \ {s}]
    IN  /\ \E r \in Reconciled(profiled, s, h.slots) :
              db' \in Dispatch(WithSlots(profiled, r), conn, {s} \X h.slots)
        /\ sockets' = conn

\* A HELLO without an assignment is handled in one go.
HelloAlone(h) ==
    /\ ~h.assigned
    /\ Admissible(h)
    /\ Welcome(h)
    /\ UNCHANGED calls

\* With one, the handler waits for the directory's activate().  The model
\* keeps at most one such HELLO per session waiting.
HelloAssigned(h) ==
    /\ h.assigned
    /\ Admissible(h)
    /\ \A c \in calls : c.kind = "HELLO" => c.hello.session # h.session
    /\ calls' = calls \cup {[kind |-> "HELLO", hello |-> h]}
    /\ UNCHANGED <<db, sockets>>

HelloActivated(h) ==
    /\ [kind |-> "HELLO", hello |-> h] \in calls
    /\ Welcome(h)
    /\ calls' = calls \ {[kind |-> "HELLO", hello |-> h]}

\* activate() answered false: the socket is closed.
HelloRefused(h) ==
    /\ [kind |-> "HELLO", hello |-> h] \in calls
    /\ calls' = calls \ {[kind |-> "HELLO", hello |-> h]}
    /\ UNCHANGED <<db, sockets>>

\* The socket drops: leases are kept for a reconnect.
Disconnect(s) ==
    /\ sockets[s] # {}
    /\ sockets' = [sockets EXCEPT ![s] = {}]
    /\ UNCHANGED <<db, calls>>

\* webSocketClose with 1000 "Client stopped": every lease of the session is
\* yielded and its permit cancelled.
ClientStopped(s) ==
    LET conn == [sockets EXCEPT ![s] = {}]
        mine == SessionLeases(db, s)
        freed == Requeue(db, mine, "YIELDED")
        d == [freed EXCEPT !.lease = DropPermits(freed.lease, mine)]
    IN  /\ sockets[s] # {}
        /\ sockets' = conn
        /\ db' \in DispatchAll(d, conn)
        /\ UNCHANGED calls

-----------------------------------------------------------------------------
(* Messages of a connected session: SESSION_HEARTBEAT, SPLIT, YIELD.       *)

\* The sender of a message about lease l: it has to be the lease's session.
FromSession(l) == \E s \in Session : db.lease[l].session = s /\ sockets[s] # {}

\* The handler of a RESULT for lease l, suspended until its verifier answers.
Verification(l, kind) == [kind |-> kind, lease |-> l, session |-> db.lease[l].session]

Respond(d) == db' \in DispatchAll(d, sockets)
Recorded(d, l, kind) == [d EXCEPT !.processed = @ \cup {<<l, kind>>}]

Renewable(s) == {l \in SessionLeases(db, s) : db.lease[l].lapsed}

\* A heartbeat renews leases that are near their deadline, or past it as long
\* as the alarm has not closed them.  One that renews none, like any refused
\* or repeated message, still dispatches.
SessionHeartbeat(s, renewed) ==
    /\ sockets[s] # {}
    /\ Respond([db EXCEPT !.lease = [l \in LeaseId |->
                  IF l \in renewed THEN [db.lease[l] EXCEPT !.lapsed = FALSE] ELSE db.lease[l]]])
    /\ UNCHANGED <<sockets, calls>>

\* handleSplit up to the permit
MaySplit(l) ==
    /\ Owns(db, l) /\ FromSession(l)
    /\ ~db.proof[TaskOf(l)]
    /\ Depth(db, TaskOf(l)) < MaxDepth

Permitted(l) ==
    /\ db.lease[l].permit = db.lease[l].slot
    /\ SplitDemand(db, sockets)

\* Slip: both children take the same branch.
SameBranch(cube, x) == cube \cup {x}
NegativeBranch(cube, x) == cube \cup {-x}

Split(l, x) ==
    LET t == TaskOf(l)
        pos == db.rows + 1
        neg == db.rows + 2
        d == [db EXCEPT
                !.rows = neg,
                !.state = [@ EXCEPT ![t] = "SPLIT", ![pos] = "READY", ![neg] = "READY"],
                !.parent = [@ EXCEPT ![pos] = t, ![neg] = t],
                !.cube = [@ EXCEPT ![pos] = db.cube[t] \cup {x}, ![neg] = NegativeBranch(db.cube[t], x)],
                !.holder[t] = NoLease,
                !.lease[l] = [@ EXCEPT !.status = "SPLIT", !.permit = NoSlot]]
    IN  /\ MaySplit(l) /\ Permitted(l)
        /\ RoomForPair(db)
        /\ x \notin db.cube[t] /\ -x \notin db.cube[t]
        /\ Respond(Recorded(d, l, "SPLIT"))
        /\ UNCHANGED <<sockets, calls>>

\* SPLIT_NOT_NEEDED or TASK_LIMIT: the permit is withdrawn, the lease goes on.
SplitRefused(l) ==
    /\ MaySplit(l)
    /\ db.lease[l].permit = db.lease[l].slot
    /\ ~SplitDemand(db, sockets) \/ ~RoomForPair(db)
    /\ Respond([db EXCEPT !.lease[l].permit = NoSlot])
    /\ UNCHANGED <<sockets, calls>>

\* handleYield; an UNSUPPORTED yield also marks the session as no prover.
Yield(l, unsupported) ==
    LET freed == Requeue(db, {l}, "YIELDED")
        d == [freed EXCEPT !.lease = DropPermits(freed.lease, {l}),
                           !.provers = IF unsupported THEN @ \ {db.lease[l].session} ELSE @]
    IN  /\ Owns(db, l) /\ FromSession(l)
        /\ Respond(Recorded(d, l, "YIELD"))
        /\ UNCHANGED <<sockets, calls>>

-----------------------------------------------------------------------------
(* RESULT messages.  Any lease the session ever held may report, late or   *)
(* not: only the job and the task have to be open.                         *)

MayReport(l, kind) ==
    /\ db.lease[l].status # "NONE" /\ FromSession(l)
    /\ <<l, kind>> \notin db.processed
    /\ Verification(l, kind) \notin calls
    /\ ~Closed(db)
    /\ db.state[TaskOf(l)] # "CANCELLED"

\* The task goes to its VERIFYING state whatever state it is in, and its
\* ACTIVE leases are closed.
Verifying(l, state) ==
    [db EXCEPT !.state[TaskOf(l)] = state,
               !.holder[TaskOf(l)] = NoLease,
               !.lease = CloseTaskLeases(db, l)]

\* handleResult, SAT, up to the await
SatResult(l) ==
    /\ MayReport(l, "SAT")
    /\ db' = Verifying(l, "VERIFYING_SAT")
    /\ calls' = calls \cup {Verification(l, "SAT")}
    /\ UNCHANGED sockets

\* handleUnsatResult: an unproved UNSAT turns the task into proof work, if it
\* comes from the lease that holds the task.
UnsatCandidate(l) ==
    LET t == TaskOf(l)
        promoted == [db EXCEPT !.state[t] = "READY", !.proof[t] = TRUE, !.holder[t] = NoLease,
                               !.lease = DropPermits(CloseTaskLeases(db, l), {l})]
    IN  /\ MayReport(l, "CANDIDATE")
        /\ ~db.proof[t]
        /\ Respond(Recorded(IF Active(db, l) /\ db.holder[t] = l /\ db.state[t] # "VERIFYING_SAT"
                            THEN promoted ELSE db, l, "CANDIDATE"))
        /\ UNCHANGED <<sockets, calls>>

\* storeProof / recordProofUpload at their commit, which repeats the check of
\* authorizeProofUpload.
StoreProof(l) ==
    /\ Active(db, l)
    /\ db.holder[TaskOf(l)] = l
    /\ db.state[TaskOf(l)] = "LEASED"
    /\ db.proof[TaskOf(l)]
    /\ db.artifact[l] = "NONE"
    /\ db' = [db EXCEPT !.artifact[l] = "UPLOADED"]
    /\ UNCHANGED <<sockets, calls>>

\* handleUnsatProof up to the await
UnsatProof(l) ==
    LET d == Verifying(l, "VERIFYING_UNSAT")
        ofTask == {k \in LeaseId : TaskOf(k) = TaskOf(l)}
    IN  /\ MayReport(l, "PROOF")
        /\ db.proof[TaskOf(l)]
        /\ db.artifact[l] # "NONE"
        /\ db' = [d EXCEPT !.lease = DropPermits(d.lease, ofTask)]
        /\ calls' = calls \cup {Verification(l, "PROOF")}
        /\ UNCHANGED sockets

-----------------------------------------------------------------------------
(* The rest of a RESULT handler, once its verifier has answered.           *)

Existing(d) == {t \in Task : d.state[t] # "ABSENT"}

\* VALID_SAT: the job is over, whatever state it was in.
SatVerified(d, t) ==
    [d EXCEPT !.job = "SAT_VERIFIED",
              !.state = [u \in Task |-> IF u \in {t, Root} THEN "SAT_VERIFIED"
                                        ELSE IF d.state[u] \in {"ABSENT", "SAT_VERIFIED"} THEN d.state[u]
                                        ELSE "CANCELLED"],
              !.holder = [u \in Task |-> NoLease],
              !.lease = CloseLeases(d, LeaseId, "SUPERSEDED")]

InvalidFormula(d) ==
    LET open == {t \in Existing(d) : d.state[t] # "CANCELLED"} IN
    [d EXCEPT !.job = "INVALID",
              !.state = [t \in Task |-> IF t \in open THEN "UNKNOWN" ELSE d.state[t]],
              !.holder = [t \in Task |-> IF t \in open THEN NoLease ELSE d.holder[t]],
              !.lease = CloseLeases(d, LeaseId, "SUPERSEDED")]

\* quarantined = 1 and releaseQuarantinedSessionLeases
Quarantine(d, s) ==
    LET mine == SessionLeases(d, s)
        back == {t \in Task : d.state[t] = "LEASED" /\ d.holder[t] \in mine}
    IN  [d EXCEPT
          !.quarantined = @ \cup {s},
          !.state = [t \in Task |-> IF t \in back THEN "READY" ELSE d.state[t]],
          !.holder = [t \in Task |-> IF t \in back THEN NoLease ELSE d.holder[t]],
          !.lease = DropPermits(CloseLeases(d, mine, "SUPERSEDED"), mine)]

AfterSat(l, answer) ==
    LET t == TaskOf(l)
        requeued == IF db.state[t] = "VERIFYING_SAT"
                    THEN [db EXCEPT !.state[t] = "READY", !.holder[t] = NoLease] ELSE db
    IN  CASE answer = "VALID_SAT" -> SatVerified(db, t)
          [] answer = "INVALID_FORMULA" -> InvalidFormula(db)
          [] answer = "INVALID_MODEL" -> Quarantine(requeued, db.lease[l].session)
          [] answer = "VERIFICATION_TIMEOUT" -> requeued

\* The databases a proof's answer can leave behind.  Only VALID_UNSAT climbs;
\* a timeout leaves the holder column as it is.
AfterProof(l, answer) ==
    LET t == TaskOf(l)
        ready == [db EXCEPT !.state[t] = "READY", !.proof[t] = TRUE]
    IN  CASE answer = "VALID_UNSAT" ->
               Propagate([db EXCEPT !.artifact[l] = "SERVER_CERTIFIED",
                                    !.state[t] = "UNSAT_CERTIFIED"], t)
          [] answer = "OWNER_CHECK_REQUIRED" ->
               {[db EXCEPT !.artifact[l] = "OWNER_CHECK_REQUIRED"]}
          [] answer = "INVALID_FORMULA" -> {InvalidFormula(db)}
          [] answer = "INVALID_PROOF" ->
               {Quarantine([ready EXCEPT !.artifact[l] = "INVALID", !.holder[t] = NoLease],
                           db.lease[l].session)}
          [] answer = "VERIFICATION_TIMEOUT" -> {ready}

\* The reply goes to the reporting socket first: if that one has been closed
\* or replaced meanwhile, the send throws and nothing is dispatched.
Answered(l, kind, after) ==
    \E d \in after :
        \/ db' \in DispatchAll(Recorded(d, l, kind), sockets)
        \/ db' = Recorded(d, l, kind)

SatAnswered(l, answer) ==
    /\ Verification(l, "SAT") \in calls
    /\ answer \in SatAnswers(db.cube[TaskOf(l)])
    /\ Answered(l, "SAT", {AfterSat(l, answer)})
    /\ calls' = calls \ {Verification(l, "SAT")}
    /\ UNCHANGED sockets

ProofAnswered(l, answer) ==
    /\ Verification(l, "PROOF") \in calls
    /\ answer \in UnsatAnswers(db.cube[TaskOf(l)])
    /\ Answered(l, "PROOF", AfterProof(l, answer))
    /\ calls' = calls \ {Verification(l, "PROOF")}
    /\ UNCHANGED sockets

-----------------------------------------------------------------------------
(* Time, the alarm, and restarts.                                          *)

\* now reaches expires_at.  A permit never outlives the deadline its lease had.
LeaseLapses(l) ==
    /\ Current(db, l)
    /\ db' = [db EXCEPT !.lease[l] = [@ EXCEPT !.lapsed = TRUE, !.permit = NoSlot]]
    /\ UNCHANGED <<sockets, calls>>

\* A permit whose expires_at has passed counts for nothing any more.
PermitLapses(l) ==
    /\ db.lease[l].permit # NoSlot
    /\ db' = [db EXCEPT !.lease[l].permit = NoSlot]
    /\ UNCHANGED <<sockets, calls>>

\* Slip: the continuation starts one short of the batch.
ShortBatchSize(due) ==
    IF Cardinality(due) <= AlarmBatch THEN Cardinality(due) ELSE AlarmBatch - 1
BatchSize(due) == IF Cardinality(due) <= AlarmBatch THEN Cardinality(due) ELSE AlarmBatch

\* alarm() before the job's expiry: a batch of lapsed leases is closed.
Alarm ==
    LET due == {l \in LeaseId : Active(db, l) /\ db.lease[l].lapsed}
    IN  /\ db.job \notin {"CANCELLED", "DELETED"}
        /\ \E batch \in SUBSET due :
             /\ Cardinality(batch) = BatchSize(due)
             /\ Respond(Requeue(db, batch, "EXPIRED"))
        /\ UNCHANGED <<sockets, calls>>

\* alarm() at the job's expiry: deleteAll, after which a suspended handler can
\* only throw.
Expire ==
    /\ db.job # "DELETED"
    /\ db' = [db EXCEPT !.job = "DELETED", !.rows = 0,
                        !.state = [t \in Task |-> "ABSENT"],
                        !.lease = [l \in LeaseId |-> NoRow],
                        !.artifact = [l \in LeaseId |-> "NONE"],
                        !.holder = [t \in Task |-> NoLease],
                        !.count = [t \in Task |-> 0],
                        !.parent = [t \in Task |-> NoTask],
                        !.cube = [t \in Task |-> {}],
                        !.proof = [t \in Task |-> FALSE],
                        !.provers = {}, !.quarantined = {}, !.processed = {}]
    /\ sockets' = [s \in Session |-> {}]
    /\ calls' = {}

\* The object is evicted or crashes: suspended handlers and sockets are lost,
\* the database is not.
Restart ==
    /\ db.job # "DELETED"
    /\ sockets' = [s \in Session |-> {}]
    /\ calls' = {}
    /\ UNCHANGED db

Deleted ==
    /\ db.job = "DELETED"
    /\ UNCHANGED vars

-----------------------------------------------------------------------------
SocketStep ==
    \/ \E h \in HelloMessages :
          HelloAlone(h) \/ HelloAssigned(h) \/ HelloActivated(h) \/ HelloRefused(h)
    \/ \E s \in Session :
          \/ "drop" \in Faults /\ Disconnect(s)
          \/ "stop" \in Faults /\ ClientStopped(s)
          \/ \E renewed \in SUBSET Renewable(s) : SessionHeartbeat(s, renewed)

LeaseStep == \E l \in LeaseId :
    \/ "SPLIT" \in Sends /\ ((\E x \in Literal : Split(l, x)) \/ SplitRefused(l))
    \/ "YIELD" \in Sends /\ \E unsupported \in BOOLEAN : Yield(l, unsupported)
    \/ "SAT" \in Sends /\ SatResult(l)
    \/ "CANDIDATE" \in Sends /\ UnsatCandidate(l)
    \/ "PROOF" \in Sends /\ (StoreProof(l) \/ UnsatProof(l))

VerifierStep == \E l \in LeaseId :
    \E answer \in Answer : SatAnswered(l, answer) \/ ProofAnswered(l, answer)

ClockStep ==
    \/ "lapse" \in Faults /\ \E l \in LeaseId : LeaseLapses(l) \/ PermitLapses(l)
    \/ Alarm
    \/ "expire" \in Faults /\ Expire

OwnerStep ==
    \/ CompleteUpload
    \/ \E l \in LeaseId : ConfirmOwnerProof(l)
    \/ "cancel" \in Faults /\ Cancel

Next ==
    \/ OwnerStep \/ SocketStep \/ LeaseStep \/ VerifierStep \/ ClockStep
    \/ "restart" \in Faults /\ Restart
    \/ Deleted

Spec == Init /\ [][Next]_vars

\* A call to a verifier returns or fails, a connected browser sends its
\* heartbeats, the platform runs alarms that are due.  Nothing else must happen.
Fairness ==
    /\ WF_vars(VerifierStep)
    /\ \A s \in Session : WF_vars(SessionHeartbeat(s, {}))
    /\ WF_vars(Alarm)

FairSpec == Spec /\ Fairness

-----------------------------------------------------------------------------
(* Invariants.                                                             *)

\* Every table and in-flight handler has the shape the schema declares.
TypeOK ==
    /\ db \in Database
    /\ sockets \in [Session -> SUBSET Slot]
    /\ calls \subseteq Call

\* A verdict the job shows is the truth about its formula, whatever browsers
\* report, in whatever order verifications, cancellations and restarts fall.
VerdictSound ==
    /\ db.job = "SAT_VERIFIED" => Models # {}
    /\ db.job \in Certified => Models = {}
    /\ db.job \in Verdict => FormulaParses

\* A task that is certified unsatisfiable, by a proof of its own or through
\* its children, has no model in its cube.
CertificateSound ==
    \A t \in Task : db.state[t] \in Certified => ~HasModel(db.cube[t])

\* An UNSAT verdict rests on proofs that were checked: the cubes they prove
\* cover every assignment, and UNSAT_CERTIFIED uses none only its owner checked.
ProofsCoverVerdict ==
    db.job \in Certified =>
        \A m \in Assignment : \E l \in LeaseId :
            /\ Covers(db.cube[TaskOf(l)], m)
            /\ \/ db.artifact[l] = "SERVER_CERTIFIED"
               \/ db.artifact[l] = "OWNER_VERIFIED" /\ db.job = "UNSAT_OWNER_VERIFIED"

\* Somebody has the task or will get it: it waits in the queue, an ACTIVE lease
\* holds it, a verifier is at its result, or its owner is asked to check a proof.
Pending(t) ==
    \/ db.state[t] = "READY"
    \/ \E l \in LeaseId : TaskOf(l) = t /\
          \/ db.state[t] = "LEASED" /\ db.holder[t] = l /\ Active(db, l)
          \/ db.state[t] = "VERIFYING_SAT" /\ Verification(l, "SAT") \in calls
          \/ db.state[t] = "VERIFYING_UNSAT" /\ Verification(l, "PROOF") \in calls
          \/ db.state[t] = "VERIFYING_UNSAT" /\ db.artifact[l] = "OWNER_CHECK_REQUIRED"

\* While the job runs, no part of the search space is forgotten, whichever
\* lease, socket, handler or verification is lost: every assignment lies in
\* the cube of a task that is certified or still pending.
\* (docs/guide/08-launch-hardening.md:153: "Object eviction and restart
\* preserve lease and verification state.")
NoCubeLost ==
    db.job \in {"UPLOADING", "QUEUED", "RUNNING"} =>
        \A m \in Assignment : \E t \in Task :
            Covers(db.cube[t], m) /\ (db.state[t] \in Certified \/ Pending(t))

\* Two browsers never own a cube at once: a task goes back to READY, as
\* docs/guide/03-distributed-cubes.md:60 draws it, by "safe yield, omitted
\* slot, or expiry", each of which closes the lease first.
OneOwnerPerTask ==
    \A k, l \in BusyLeases(db) : TaskOf(k) = TaskOf(l) => k = l

\* One slot of a session never has two current leases.
OneLeasePerSlot ==
    \A k, l \in BusyLeases(db) :
        /\ db.lease[k].session = db.lease[l].session
        /\ db.lease[k].slot = db.lease[l].slot
        => k = l

\* The search tree is what propagation needs it to be: a split task has the
\* two exact children of its split and never a second pair.
SplitHasOnePair ==
    \A t \in Task : db.state[t] = "SPLIT" => ExactPair(db, t)

\* docs/coordinator-protocol.md:65: "A stale progress or tree mutation is
\* rejected."  So a task that was split is never queued or leased again.  The
\* code breaks this (README, late_model): no run checks it.
SplitIsNotReopened ==
    \A t \in Task : Children(db, t) # {} => db.state[t] \notin {"READY", "LEASED"}

\* A job that is over has no lease left running: nobody computes for it.
ClosedJobIsIdle ==
    Closed(db) => \A l \in LeaseId : ~Active(db, l)

-----------------------------------------------------------------------------
(* Action properties and refinement.                                       *)

\* A session that sent a false model or proof is given no work any more
\* (docs/guide/08-launch-hardening.md:35: "Invalid models or proofs quarantine
\* the reporting session").
QuarantineStopsWork ==
    [][\A l \in LeaseId : ~Active(db, l) /\ db'.lease[l].status = "ACTIVE" =>
          db'.lease[l].session \notin db.quarantined]_vars

\* With assignments, which the directory has to activate, one way is left: the
\* HELLO of a session that was condemned while the directory was asked.  By no
\* other step, of whatever handler, does work reach a session in quarantine.
CondemnedWhileWaiting ==
    [][\A l \in LeaseId :
          ~Active(db, l) /\ db'.lease[l].status = "ACTIVE" /\ db'.lease[l].session \in db.quarantined
          => \E h \in HelloMessages : h.session = db'.lease[l].session /\ HelloActivated(h)]_vars

\* docs/coordinator-protocol.md:28: "Work owned by a slot omitted from the
\* reconnect is safely requeued."  The code breaks this (README,
\* omitted_slot): no run checks it.
OmittedSlotIsRequeued ==
    [][\A l \in BusyLeases(db) :
          LET now == sockets'[db.lease[l].session]
          IN  now # {} /\ now # sockets[db.lease[l].session] /\ db.lease[l].slot \notin now
              => db'.lease[l].status # "ACTIVE"]_vars

\* The verdict part of the job's state.
Announced ==
    CASE db.job \in {"UPLOADING", "QUEUED", "RUNNING"} -> "OPEN"
      [] db.job = "SAT_VERIFIED" -> "SAT"
      [] db.job \in Certified -> "UNSAT"
      [] OTHER -> db.job

Abstract == INSTANCE JobVerdict
    WITH verdict <- Announced, Satisfiable <- Models # {}, Parses <- FormulaParses

\* The coordinator keeps what JobVerdict promises: no step of any handler
\* announces an untruth, or reopens a job that has a verdict or was cancelled.
ImplementsJobVerdict == Abstract!Spec

-----------------------------------------------------------------------------
(* Liveness.                                                               *)

\* An idle slot never waits for ever beside a task it could be given, whatever
\* was lost with a broken reply, a stalled proof or a session without provers.
WorkIsPushed ==
    \A p \in Session \X Slot :
        LET starving == /\ Running(db) /\ p \in ConnectedSlots(db, sockets)
                        /\ p \in IdleSlots(db, {p}) /\ Offered(db, p) # {}
        IN  starving ~> ~starving

\* A lease past its deadline ends, or its browser comes back and renews it,
\* even when more leases are due than one alarm handles.
LapsedLeaseEnds ==
    \A l \in LeaseId :
        LET overdue == Active(db, l) /\ db.lease[l].lapsed IN overdue ~> ~overdue

=============================================================================
