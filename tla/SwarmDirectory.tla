---------------------------- MODULE SwarmDirectory ----------------------------
(***************************************************************************)
(* SwarmDirectoryDO (worker/swarm-directory.ts) with its scheduler         *)
(* (worker/fair-scheduler.ts): the one Durable Object that admits public   *)
(* jobs and sends each browser that asks to the job that has had the least *)
(* service.                                                                *)
(*                                                                         *)
(*  - Every operation runs to its end before the next one starts, the      *)
(*    alarm it arms at last included: an operation is one action.          *)
(*  - "db" is its SQLite database, "alarm" the time of its alarm, "now"    *)
(*    the clock.  Time is counted in units of some number of milliseconds. *)
(*  - A sum of workers is the size of the set of their seats, see Seats.   *)
(*  - An operator marked "Slip" is a plausible mistake in the one below    *)
(*    it.  Nothing uses it: PROJECT.json swaps it in to see which property *)
(*    notices.                                                             *)
(***************************************************************************)
EXTENDS Integers, FiniteSets

CONSTANTS
    Job,             \* job ids, drawn at random for each admission
    Device, Network, \* digests of what a job was submitted from
    Session,         \* browser sessions
    Challenge,       \* digests of Turnstile tokens
    Quantum,         \* SWARM_ASSIGNMENT_QUANTUM_MS
    Activation,      \* SWARM_ASSIGNMENT_ACTIVATION_MS
    MaxWorkers,      \* SWARM_MAX_JOB_WORKERS
    MaxOffer,        \* the most workers a browser offers (capabilities.maxWorkers)
    AgingDivisor,    \* a job waits this long for one unit of aging credit
    Lifetime,        \* JOB_LIFETIME_MS, which is also CREATION_WINDOW_MS
    Retention,       \* TURNSTILE_REPLAY_RETENTION_MS
    MaxCreations,    \* MAX_CREATIONS_PER_WINDOW
    Ceiling,         \* MAX_ACTIVE_JOBS
    Origins,         \* the <<device, network>> pairs requests come from
    ReportedTimes,   \* the worker times browsers report
    JobEvents,       \* what happens to a job once it is admitted, see JobEvent
    MaxAssignments,  \* bound of the model: assignments ever made
    Horizon          \* bound of the model: the last instant of the clock

ASSUME SizesAssumption ==
    /\ {Quantum, Activation, Lifetime, Retention, MaxCreations, Ceiling} \subseteq Nat
    /\ {MaxAssignments, Horizon} \subseteq Nat
    /\ {MaxWorkers, MaxOffer, AgingDivisor} \subseteq Nat \ {0}
    /\ Activation < Quantum

\* The coordinator could not be set up; it closes the job; it waits for the
\* owner to check a proof.
JobEvent == {"rollback", "close", "suspend"}

ASSUME InputsAssumption ==
    /\ JobEvents \subseteq JobEvent
    /\ Origins \subseteq Device \X Network
    /\ ReportedTimes \subseteq 0..(Quantum * MaxOffer)

-----------------------------------------------------------------------------
(* Tables.                                                                 *)

NoDigest == "no digest"
NoJob == "no job"
NoSession == "no session"
Never == -1

ASSUME NamesAssumption ==
    NoJob \notin Job /\ NoSession \notin Session /\ NoDigest \notin Device \cup Network

\* What admit() writes once of a job, in active_jobs and creation_events: its
\* origin, created_at, and the virtual runtime it starts with.  The model keeps
\* it when the rows are gone, as a history.
Birth == [device: Device \cup {NoDigest}, network: Network \cup {NoDigest},
          at: Nat \cup {Never}, virtual: Nat]
Unborn == [device |-> NoDigest, network |-> NoDigest, at |-> Never, virtual |-> 0]

\* The columns of active_jobs that change: eligible, virtual_worker_ms,
\* assigned_workers, last_service_at.  Nothing reads reserved_worker_ms.
Account == [eligible: BOOLEAN, virtual: Nat, assigned: 0..MaxWorkers, serviced: Nat]
NoAccount == [eligible |-> FALSE, virtual |-> 0, assigned |-> 0, serviced |-> 0]

AssignmentId == 1..MaxAssignments

\* reserved_worker_ms is Quantum * workers in every row.
AssignmentRow == [
    status: {"NONE", "PENDING", "ACTIVE", "COMPLETE", "EXPIRED", "CANCELLED"},
    job: Job \cup {NoJob}, session: Session \cup {NoSession},
    workers: 0..MaxWorkers, actual: Nat, assigned: Nat, expires: Nat]
NoRow == [status |-> "NONE", job |-> NoJob, session |-> NoSession,
          workers |-> 0, actual |-> 0, assigned |-> 0, expires |-> 0]

Database == [
    births: [Job -> Birth],
    listed: SUBSET Job,                    \* active_jobs
    account: [Job -> Account],
    created: SUBSET Job,                   \* creation_events
    row: [AssignmentId -> AssignmentRow],  \* assignments
    replays: [Challenge -> Nat \cup {Never}]]  \* turnstile_replays: expires_at

VARIABLES db, alarm, now
vars == <<db, alarm, now>>

-----------------------------------------------------------------------------
(* Queries.                                                                *)

Least(x, y) == IF x <= y THEN x ELSE y
Greatest(x, y) == IF x >= y THEN x ELSE y
NotNegative(x) == Greatest(0, x)

Live(d, a) == d.row[a].status \in {"PENDING", "ACTIVE"}

\* One seat for each worker of the assignments in ids that serve job j.
Seats(d, ids, j) ==
    {p \in ids \X (1..MaxWorkers) : d.row[p[1]].job = j /\ p[2] <= d.row[p[1]].workers}
Workers(d, ids, j) == Cardinality(Seats(d, ids, j))

LiveIds(d) == {a \in AssignmentId : Live(d, a)}
DueIds(d) == {a \in LiveIds(d) : d.row[a].expires <= now}
Reserved(d, a) == Quantum * d.row[a].workers

\* The jobs snapshot() counts.
EligibleJobs(d) == {j \in d.listed : d.account[j].eligible}

\* activeFairJobs()
FairJobs(d) == {j \in d.listed : d.account[j].eligible /\ d.account[j].assigned < MaxWorkers}

-----------------------------------------------------------------------------
(* The fair scheduler.                                                     *)

\* agingCreditMs, times AgingDivisor
AgingCredit(account) ==
    Least(AgingDivisor * Quantum, NotNegative(now - account.serviced))

\* fairServiceScore, times AgingDivisor
Score(account) == AgingDivisor * account.virtual - AgingCredit(account)

\* Slip: the wait alone decides.
PrecedesByWait(x, y) == x.serviced <= y.serviced

\* The order selectFairJob sorts by.  Equal jobs go by their random ids, that
\* is, either way.
Precedes(x, y) ==
    \/ Score(x) < Score(y)
    \/ Score(x) = Score(y) /\ x.serviced <= y.serviced

FairChoices(d) ==
    {j \in FairJobs(d) : \A k \in FairJobs(d) : Precedes(d.account[j], d.account[k])}

\* Slip: the offer is taken as it comes, up to the ceiling of one job.
AllOffered(account, offer) == Least(offer, MaxWorkers)
GrantedWorkers(account, offer) ==
    Greatest(1, Least(offer, MaxWorkers - account.assigned))

\* newJobVirtualRuntime: the values it may return.
NewJobVirtualRuntimes(d) ==
    IF FairJobs(d) = {} THEN {0}
    ELSE {d.account[j].virtual : j \in
            {k \in FairJobs(d) : \A i \in FairJobs(d) : d.account[k].virtual <= d.account[i].virtual}}

\* Slip: the reservation stays charged next to the actual time.
OverchargedRuntime(virtual, reserved, actual) ==
    NotNegative(virtual + NotNegative(Least(reserved, actual)))
ReconciledVirtualRuntime(virtual, reserved, actual) ==
    NotNegative(virtual - reserved + NotNegative(Least(reserved, actual)))

-----------------------------------------------------------------------------
(* Updates the operations share.                                           *)

\* A job leaves active_jobs.
Unlist(d, js) ==
    [d EXCEPT !.listed = @ \ js,
              !.account = [j \in Job |-> IF j \in js THEN NoAccount ELSE d.account[j]]]

\* expireAssignments(): every assignment past its deadline gives its workers
\* back, and one that was never activated also its charge.
ExpireAssignments(d) ==
    LET due == DueIds(d)
        unused == {a \in due : d.row[a].status = "PENDING"}
    IN  [d EXCEPT
          !.account = [j \in Job |->
             IF j \in d.listed
             THEN [d.account[j] EXCEPT
                     !.virtual = NotNegative(@ - Quantum * Workers(d, unused, j)),
                     !.assigned = NotNegative(@ - Workers(d, due, j))]
             ELSE d.account[j]],
          !.row = [a \in AssignmentId |->
             IF a \in due THEN [d.row[a] EXCEPT !.status = "EXPIRED"] ELSE d.row[a]]]

\* Slip: the workers stay counted.
SettledLedger(account, r, actual) ==
    [account EXCEPT !.virtual = ReconciledVirtualRuntime(@, Quantum * r.workers, actual)]

\* The account of a job once assignment r has been reported on.
SettledAccount(account, r, actual) ==
    [account EXCEPT !.virtual = ReconciledVirtualRuntime(@, Quantum * r.workers, actual),
                    !.assigned = NotNegative(@ - r.workers)]

\* reconcile(), where it does not answer INVALID_ASSIGNMENT.  A row that is
\* not live any more has already been settled.
Reconcile(d, a, actual) ==
    IF ~Live(d, a) THEN d
    ELSE [d EXCEPT
           !.account = [j \in Job |->
              IF j = d.row[a].job /\ j \in d.listed
              THEN SettledAccount(d.account[j], d.row[a], actual) ELSE d.account[j]],
           !.row[a] = [@ EXCEPT !.status = "COMPLETE", !.actual = actual]]

\* assign(): the reservation of workers for session s on job j.
Reserve(d, a, s, j, workers) ==
    [d EXCEPT
      !.row[a] = [status |-> "PENDING", job |-> j, session |-> s, workers |-> workers,
                  actual |-> 0, assigned |-> now, expires |-> now + Activation],
      !.account[j] = [d.account[j] EXCEPT !.virtual = @ + Quantum * workers,
                                          !.assigned = @ + workers,
                                          !.serviced = now]]

\* What scheduleNextAlarm() takes the minimum of.
Deadlines(d) ==
    {d.births[j].at + Lifetime : j \in d.listed \cup d.created}
    \cup {d.row[a].expires : a \in LiveIds(d)}
    \cup {d.replays[c] : c \in {x \in Challenge : d.replays[x] # Never}}

\* Slip: an alarm that is armed already is left alone.
ArmOnce(d) ==
    \/ /\ alarm # Never
       /\ alarm' = alarm
    \/ /\ alarm = Never
       /\ alarm' \in Deadlines(d) \cup {Never}
       /\ \A t \in Deadlines(d) : alarm' # Never /\ alarm' <= t

\* scheduleNextAlarm()
ScheduleNextAlarm(d) ==
    \/ /\ Deadlines(d) = {}
       /\ alarm' = Never
    \/ /\ alarm' \in Deadlines(d)
       /\ \A t \in Deadlines(d) : alarm' <= t

-----------------------------------------------------------------------------
(* Admission.                                                              *)

Init ==
    /\ db = [births |-> [j \in Job |-> Unborn], listed |-> {},
             account |-> [j \in Job |-> NoAccount], created |-> {},
             row |-> [a \in AssignmentId |-> NoRow],
             replays |-> [c \in Challenge |-> Never]]
    /\ alarm = Never
    /\ now = 0

\* replays without the rows whose retention is over
CurrentReplays ==
    [c \in Challenge |-> IF db.replays[c] <= now THEN Never ELSE db.replays[c]]

\* consumeTurnstile(): INSERT OR IGNORE
ConsumeTurnstile(c) ==
    LET kept == CurrentReplays
        d == [db EXCEPT !.replays =
                IF kept[c] = Never THEN [kept EXCEPT ![c] = now + Retention] ELSE kept]
    IN  /\ db' = d
        /\ ScheduleNextAlarm(d)
        /\ UNCHANGED now

\* Slip: a creation goes out of the books with its job.
ListedCreations == {j \in db.created \cap db.listed : db.births[j].at > now - Lifetime}

\* DELETE FROM creation_events WHERE created_at <= windowStart
RecentCreations == {j \in db.created : db.births[j].at > now - Lifetime}

SameOrigin(js, device, network) ==
    {j \in js : db.births[j].device = device \/ db.births[j].network = network}

\* admit() for a request created just now
Admissible(device, network) ==
    /\ Cardinality(db.listed) < Ceiling
    /\ SameOrigin(db.listed, device, network) = {}
    /\ Cardinality(SameOrigin(RecentCreations, device, network)) < MaxCreations

Admit(j, device, network) ==
    /\ db.births[j] = Unborn
    /\ Admissible(device, network)
    /\ \E virtual \in NewJobVirtualRuntimes(db) :
         LET d == [db EXCEPT
               !.births[j] = [device |-> device, network |-> network, at |-> now, virtual |-> virtual],
               !.listed = @ \cup {j},
               !.account[j] = [eligible |-> FALSE, virtual |-> virtual, assigned |-> 0, serviced |-> now],
               !.created = RecentCreations \cup {j}]
         IN  db' = d /\ ScheduleNextAlarm(d)
    /\ UNCHANGED now

\* A refusal has forgotten the old creations all the same, and arms no alarm.
AdmitRefused(device, network) ==
    /\ ~Admissible(device, network)
    /\ db' = [db EXCEPT !.created = RecentCreations]
    /\ UNCHANGED <<alarm, now>>

\* rollback(): the coordinator of a job just admitted could not be set up, so
\* nobody has its upload token.
Rollback(j) ==
    /\ j \in db.listed
    /\ ~db.account[j].eligible
    /\ \A a \in AssignmentId : db.row[a].job # j
    /\ LET d == [Unlist(db, {j}) EXCEPT !.births[j] = Unborn, !.created = @ \ {j}]
       IN  db' = d /\ ScheduleNextAlarm(d)
    /\ UNCHANGED now

\* markReady() and setEligible()
SetEligible(j, eligible) ==
    /\ j \in db.listed
    /\ db.account[j].eligible # eligible
    /\ db' = [db EXCEPT !.account[j] = [@ EXCEPT !.eligible = eligible, !.serviced = now]]
    /\ UNCHANGED <<alarm, now>>

\* close(): the job has a verdict, was cancelled or has expired, perhaps after
\* the directory's own alarm has unlisted it.
Close(j) ==
    /\ db.births[j] # Unborn
    /\ LET d == [Unlist(db, {j}) EXCEPT !.row = [a \in AssignmentId |->
                   IF Live(db, a) /\ db.row[a].job = j
                   THEN [db.row[a] EXCEPT !.status = "CANCELLED"] ELSE db.row[a]]]
       IN  db' = d /\ ScheduleNextAlarm(d)
    /\ UNCHANGED now

-----------------------------------------------------------------------------
(* SWARM_HELLO and the coordinator's activate().                           *)

NoReport == [assignment |-> 0, actual |-> 0]

\* previousAssignment: an assignment and the worker time spent on it, which
\* the protocol bounds by a quantum of the largest offer.
Report == [assignment: AssignmentId, actual: ReportedTimes]

Acceptable(d, s, report) ==
    /\ d.row[report.assignment].session = s
    /\ report.actual <= Reserved(d, report.assignment)

\* The table a request is decided on.
Settled(s, report) ==
    LET d == ExpireAssignments(db) IN
    IF report = NoReport THEN d ELSE Reconcile(d, report.assignment, report.actual)

\* assign(): INVALID_ASSIGNMENT
AssignInvalid(s, report) ==
    LET d == ExpireAssignments(db) IN
    /\ report # NoReport
    /\ ~Acceptable(d, s, report)
    /\ db' = d
    /\ ScheduleNextAlarm(d)
    /\ UNCHANGED now

ReportAccepted(s, report) ==
    report # NoReport => Acceptable(ExpireAssignments(db), s, report)

\* assign(): NO_WORK
AssignNothing(s, report) ==
    LET d == Settled(s, report) IN
    /\ ReportAccepted(s, report)
    /\ FairJobs(d) = {}
    /\ db' = d
    /\ ScheduleNextAlarm(d)
    /\ UNCHANGED now

\* assign(): an assignment.  Ids are numbered in the order they are drawn.
Assign(s, offer, report) ==
    LET d == Settled(s, report) IN
    /\ ReportAccepted(s, report)
    /\ \E j \in FairChoices(d), a \in AssignmentId :
         /\ \A b \in AssignmentId : d.row[b].status = "NONE" <=> b >= a
         /\ LET e == Reserve(d, a, s, j, GrantedWorkers(d.account[j], offer))
            IN  db' = e /\ ScheduleNextAlarm(e)
    /\ UNCHANGED now

\* activate(): a coordinator tells of the HELLO of session s on job j.
Activate(a, s, j) ==
    LET e == ExpireAssignments(db)
        d == IF e.row[a].session = s /\ e.row[a].job = j /\ e.row[a].status = "PENDING"
             THEN [e EXCEPT !.row[a] = [@ EXCEPT !.status = "ACTIVE", !.assigned = now,
                                                 !.expires = now + Quantum]]
             ELSE e
    IN  /\ db' = d
        /\ ScheduleNextAlarm(d)
        /\ UNCHANGED now

-----------------------------------------------------------------------------
(* Time.                                                                   *)

\* alarm(), which may run late
Alarm ==
    LET over == {j \in db.listed : db.births[j].at + Lifetime <= now}
        d == [Unlist(ExpireAssignments(db), over)
                EXCEPT !.created = RecentCreations, !.replays = CurrentReplays]
    IN  /\ alarm # Never /\ alarm <= now
        /\ db' = d
        /\ ScheduleNextAlarm(d)
        /\ UNCHANGED now

Tick ==
    /\ now < Horizon
    /\ now' = now + 1
    /\ UNCHANGED <<db, alarm>>

-----------------------------------------------------------------------------
AdmissionStep ==
    \/ \E c \in Challenge : ConsumeTurnstile(c)
    \/ \E origin \in Origins :
         \/ AdmitRefused(origin[1], origin[2])
         \/ \E j \in Job : Admit(j, origin[1], origin[2])
    \/ \E j \in Job :
         \/ "rollback" \in JobEvents /\ Rollback(j)
         \/ "close" \in JobEvents /\ Close(j)
         \/ SetEligible(j, TRUE)
         \/ "suspend" \in JobEvents /\ SetEligible(j, FALSE)

SwarmStep ==
    \E s \in Session :
      \/ \E report \in Report \cup {NoReport} :
           \/ AssignInvalid(s, report)
           \/ AssignNothing(s, report)
           \/ \E offer \in 1..MaxOffer : Assign(s, offer, report)
      \/ \E a \in AssignmentId, j \in Job : Activate(a, s, j)

Next == AdmissionStep \/ SwarmStep \/ Alarm \/ Tick

Spec == Init /\ [][Next]_vars

-----------------------------------------------------------------------------
(* Invariants.                                                             *)

\* Every table has the shape its schema declares; no counter is negative, and
\* no job has more workers assigned than its ceiling.
TypeOK ==
    /\ db \in Database
    /\ alarm \in Nat \cup {Never}
    /\ now \in Nat

\* The directory's count of a job's workers is exactly what its pending and
\* active assignments hold, so that seats are neither lost nor given out twice
\* (docs/guide/05-fair-swarm-scheduling.md:110: "No job may hold more than
\* eight assigned workers at once").
WorkersAreAccounted ==
    \A j \in db.listed :
        /\ db.account[j].assigned = Workers(db, LiveIds(db), j)
        /\ db.account[j].assigned <= MaxWorkers

\* What an assignment has cost its job: the reservation while it is live or
\* when its browser never came back, the reported time when it did, nothing
\* when it was never activated.
Charge(a) ==
    LET r == db.row[a] IN
    CASE r.status \in {"PENDING", "ACTIVE"} -> Reserved(db, a)
      [] r.status = "COMPLETE" -> r.actual
      [] r.status = "EXPIRED" /\ r.expires = r.assigned + Quantum -> Reserved(db, a)
      [] OTHER -> 0

\* The ledger of a job is what it started with and what its assignments have
\* cost, through any order of expiry, activation and late report.
ServiceIsAccounted ==
    \A j \in db.listed :
        db.account[j].virtual = db.births[j].virtual
            + Cardinality({p \in AssignmentId \X (1..(Quantum * MaxWorkers)) :
                              db.row[p[1]].job = j /\ p[2] <= Charge(p[1])})

\* One device, and one network, has at most one listed job, and has started at
\* most MaxCreations jobs within any window, closed and expired ones included.
OriginsAreLimited ==
    \A j \in Job : LET b == db.births[j] IN
        b.at # Never =>
            LET window == {k \in Job : db.births[k].at > b.at - Lifetime /\ db.births[k].at <= b.at}
            IN  \A js \in {{k \in Job : db.births[k].device = b.device},
                           {k \in Job : db.births[k].network = b.network}} :
                    /\ Cardinality(js \cap window) <= MaxCreations
                    /\ Cardinality(js \cap db.listed) <= 1

\* No deadline is forgotten: whichever tables an operation touched, the alarm
\* stands at or before every expiry that is still to be handled.
AlarmCoversDeadlines ==
    \A t \in Deadlines(db) : alarm # Never /\ alarm <= t

-----------------------------------------------------------------------------
(* Action properties.                                                      *)

\* The assignments a step makes, with the job's ledger before the charge.
Served(a) == db.row[a].status = "NONE" /\ db'.row[a].status = "PENDING"
LedgerBefore(a) ==
    db'.account[db'.row[a].job].virtual - Quantum * db'.row[a].workers

\* Service goes to the job that has had the least of it, up to an aging credit
\* of one quantum (docs/guide/05-fair-swarm-scheduling.md:107: "the cap
\* prevents old age from creating an unlimited priority debt"): no job with
\* free seats is passed over for one that is more than a quantum ahead of it.
PriorityDebtIsBounded ==
    [][\A a \in AssignmentId : Served(a) =>
          \A k \in FairJobs(db') \ {db'.row[a].job} :
              LedgerBefore(a) <= db'.account[k].virtual + Quantum]_vars

\* docs/guide/05-fair-swarm-scheduling.md:103: "HiveSAT inserts a new job at
\* the current minimum virtual runtime" of the jobs that are scheduled.  The
\* code breaks this (README, new_job): no run checks it.
NewJobStartsAtMinimum ==
    [][\A j \in db'.listed \ db.listed :
          EligibleJobs(db) # {} =>
              \E k \in EligibleJobs(db) : db'.account[j].virtual >= db.account[k].virtual]_vars

=============================================================================
