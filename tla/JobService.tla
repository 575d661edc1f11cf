------------------------------ MODULE JobService ------------------------------
(***************************************************************************)
(* The life of public jobs over three stores: the HTTP API                 *)
(* (worker/index.ts), the upload, cancellation and expiry operations of    *)
(* the job coordinators (worker/job-coordinator.ts), and the artifacts in  *)
(* key-value storage (worker/job-artifacts.ts), composed with the swarm    *)
(* directory.                                                              *)
(*                                                                         *)
(*  - "office" holds the coordinator of each job, "kv" the stored objects. *)
(*    What happens between sockets and coordinator (JobCoordinator) is     *)
(*    here only: leases come and go, and some day there is a verdict.      *)
(*  - "desk" holds the requests under way.  A request is suspended at each *)
(*    call to another object or to storage, and what it goes on with may   *)
(*    be stale by then.  "bell" is the coordinators' alarm handler, which  *)
(*    awaits too.                                                          *)
(*  - Faults: a request dies at any await, with whatever object was        *)
(*    serving it; a call fails with or without effect; an alarm handler    *)
(*    fails and is retried.                                                *)
(*  - Time is the directory's clock; the seconds a coordinator waits       *)
(*    between two batches of deletions are less than its unit.             *)
(***************************************************************************)
EXTENDS SwarmDirectory

CONSTANTS
    Request,       \* requests the service works on at once
    Lease,         \* leases of a job that upload something
    ProofSizes,    \* sizes of the proofs they upload
    Budget,        \* MAX_UNSAT_PROOF_COMPRESSED_BYTES
    MinKv,         \* MIN_KV_EXPIRATION_SECONDS
    ArtifactBatch, \* ARTIFACT_DELETE_BATCH_SIZE
    MaxDraws,      \* bound of the model: object keys ever drawn
    MaxFaults      \* bound of the model: faults

ASSUME ServiceAssumption ==
    /\ {Budget, MinKv, MaxDraws, MaxFaults} \subseteq Nat
    /\ ProofSizes \subseteq Nat \ {0}
    /\ ArtifactBatch \in Nat \ {0}

VARIABLES
    office,   \* the coordinators' databases and alarms
    kv,       \* JOB_ARTIFACTS: the objects whose expiration is still to come
    desk,     \* requests under way
    bell,     \* alarm handlers under way
    told,     \* jobs whose tokens have reached their owner
    drawn,    \* how many object keys have been drawn
    faults
service == <<office, kv, desk, bell, told, drawn, faults>>
serviceVars == <<vars, service>>

-----------------------------------------------------------------------------
(* Coordinators.                                                           *)

NoLease == "no lease"

\* An object key ends in a random part; drawn numbers it.
Key == [job: Job, kind: {"formula", "model", "proof"},
        lease: Lease \cup {NoLease}, draw: 1..MaxDraws]
NoKey == [job |-> NoJob, kind |-> "none", lease |-> NoLease, draw |-> 0]

\* proof[l].size is the size of the proof_artifacts row of lease l, 0 without
\* one; a row outlives its object.
Office == [
    state: {"ABSENT", "UPLOADING", "OPEN", "VERDICT", "INVALID", "CANCELLED"},
    formula: Key \cup {NoKey},
    model: [Lease -> Key \cup {NoKey}],
    proof: [Lease -> [key: Key \cup {NoKey}, size: Nat]],
    lease: [Lease -> {"NONE", "ACTIVE", "OVER"}],
    expires: Nat, wake: Nat \cup {Never}]

NoOffice == [state |-> "ABSENT", formula |-> NoKey,
             model |-> [l \in Lease |-> NoKey],
             proof |-> [l \in Lease |-> [key |-> NoKey, size |-> 0]],
             lease |-> [l \in Lease |-> "NONE"],
             expires |-> 0, wake |-> Never]

\* initialize(), with the createdAt the directory was given
Opened(j) == [NoOffice EXCEPT !.state = "UPLOADING",
                              !.expires = db.births[j].at + Lifetime,
                              !.wake = db.births[j].at + Lifetime]

\* artifactObjectKeys()
Keys(o) ==
    ({o.formula} \cup {o.model[l] : l \in Lease} \cup {o.proof[l].key : l \in Lease}) \ {NoKey}

\* The rows cleanupArtifactBatch() forgets once the objects in ks are deleted.
Forgotten(o, ks) ==
    [o EXCEPT
      !.formula = IF @ \in ks THEN NoKey ELSE @,
      !.model = [l \in Lease |-> IF @[l] \in ks THEN NoKey ELSE @[l]],
      !.proof = [l \in Lease |->
                   IF @[l].key \in ks THEN [@[l] EXCEPT !.key = NoKey] ELSE @[l]]]

\* The batches cleanupArtifactBatch() may delete.
Batches(o) ==
    {ks \in SUBSET Keys(o) :
        Cardinality(ks) = Least(ArtifactBatch, Cardinality(Keys(o)))}

\* A sum of sizes is the size of a set with one member for each unit of each.
Space(o) == UNION {{l} \X (1..o.proof[l].size) : l \in Lease}
UsedSpace(o) == Cardinality(Space(o))

LeasesOver(o) ==
    [o EXCEPT !.lease = [l \in Lease |-> IF @[l] = "ACTIVE" THEN "OVER" ELSE @[l]]]

\* known()
Known(j) == j \in db.created /\ db.births[j].at >= now - Lifetime

-----------------------------------------------------------------------------
(* Requests.                                                               *)

NoRequest == [op |-> "none", at |-> "none", job |-> NoJob, key |-> NoKey, size |-> 0,
              batch |-> {}]

Ops == {"create", "formula", "model", "proof", "cancel", "verdict"}
Steps == {"admit", "initialize", "rollback", "answer",
          "put", "commit", "discard", "ready", "verify", "trim", "clean", "close", "erase"}

Activity == [
    op: Ops \cup {"none"}, at: Steps \cup {"none"}, job: Job \cup {NoJob},
    key: Key \cup {NoKey}, size: Nat, batch: SUBSET Key]

Idle(r) == desk[r] = NoRequest
At(r, op, step) == desk[r].op = op /\ desk[r].at = step
Done(r) == desk' = [desk EXCEPT ![r] = NoRequest]
GoOn(r, step) == desk' = [desk EXCEPT ![r] = [@ EXCEPT !.at = step]]

ServiceInit ==
    /\ Init
    /\ office = [j \in Job |-> NoOffice]
    /\ kv = {}
    /\ desk = [r \in Request |-> NoRequest]
    /\ bell = [j \in Job |-> NoRequest]
    /\ told = {}
    /\ drawn = 0
    /\ faults = 0

-----------------------------------------------------------------------------
(* createJob.                                                              *)

\* Jobs whose random id has not been drawn.
Fresh == {j \in Job : db.births[j] = Unborn /\ office[j] = NoOffice}
Admitting == {r \in Request : At(r, "create", "admit")}

\* A challenge that has been used is refused.  Bounds of the model: no job
\* outlives the clock, and a request comes only if there is an id left for it or
\* a listed job in its way.
CreateBegins(r, c) ==
    /\ Idle(r)
    /\ now + Lifetime <= Horizon
    /\ Cardinality(Admitting) < Cardinality(Fresh \cup db.listed)
    /\ ConsumeTurnstile(c)
    /\ IF CurrentReplays[c] = Never
       THEN desk' = [desk EXCEPT ![r] = [@ EXCEPT !.op = "create", !.at = "admit"]]
       ELSE UNCHANGED desk
    /\ UNCHANGED <<office, kv, bell, told, drawn, faults>>

CreateAdmits(r, j, origin) ==
    /\ At(r, "create", "admit")
    /\ j \in Fresh
    /\ Admit(j, origin[1], origin[2])
    /\ desk' = [desk EXCEPT ![r] = [@ EXCEPT !.at = "initialize", !.job = j]]
    /\ UNCHANGED <<office, kv, bell, told, drawn, faults>>

CreateRefused(r, origin) ==
    /\ At(r, "create", "admit")
    /\ AdmitRefused(origin[1], origin[2])
    /\ Done(r)
    /\ UNCHANGED <<office, kv, bell, told, drawn, faults>>

Initialize(r) ==
    /\ At(r, "create", "initialize")
    /\ office' = [office EXCEPT ![desk[r].job] = Opened(desk[r].job)]
    /\ GoOn(r, "answer")
    /\ UNCHANGED <<vars, kv, bell, told, drawn, faults>>

\* initialize() throws, or its answer is lost.
InitializeFails(r) ==
    /\ At(r, "create", "initialize")
    /\ faults < MaxFaults
    /\ faults' = faults + 1
    /\ \E o \in {NoOffice, Opened(desk[r].job)} : office' = [office EXCEPT ![desk[r].job] = o]
    /\ GoOn(r, "rollback")
    /\ UNCHANGED <<vars, kv, bell, told, drawn>>

\* rollback(), which finds nothing when the job has expired meanwhile.
CreateRollsBack(r) ==
    /\ At(r, "create", "rollback")
    /\ \/ Rollback(desk[r].job)
       \/ desk[r].job \notin db.listed /\ UNCHANGED vars
    /\ Done(r)
    /\ UNCHANGED <<office, kv, bell, told, drawn, faults>>

CreateAnswers(r) ==
    /\ At(r, "create", "answer")
    /\ told' = told \cup {desk[r].job}
    /\ Done(r)
    /\ UNCHANGED <<vars, office, kv, bell, drawn, faults>>

-----------------------------------------------------------------------------
(* storeFormula, storeModel, storeProof: authorised, put, authorised again  *)
(* and committed, or taken back.                                            *)

\* Slip: the key of a lease's artifact has no random part.
PlainKey(j, kind, l) == [job |-> j, kind |-> kind, lease |-> l, draw |-> 1]
NewKey(j, kind, l) == [job |-> j, kind |-> kind, lease |-> l, draw |-> drawn + 1]

\* authorizeUpload, authorizeModelUpload and authorizeProofUpload; the last
\* one with the test of the size against what is left of the budget.
Authorized(j, kind, l, size) ==
    LET o == office[j] IN
    CASE kind = "formula" -> o.state = "UPLOADING"
      [] kind = "model" -> o.lease[l] # "NONE" /\ o.state = "OPEN" /\ now < o.expires
      [] kind = "proof" -> /\ o.lease[l] = "ACTIVE" /\ o.state = "OPEN" /\ now < o.expires
                           /\ UsedSpace(o) + size <= Budget

\* What an upload brings: the lease and the size matter to proofs, a size is
\* not kept of the others.
Uploads == {<<"formula", NoLease, 0>>}
           \cup {<<"model", l, 0>> : l \in Lease}
           \cup {<<"proof", l, size>> : l \in Lease, size \in ProofSizes}

\* The tokens are the owner's and the lease's: nobody else gets this far.
UploadBegins(r, j, kind, l, size) ==
    /\ Idle(r)
    /\ drawn < MaxDraws
    /\ j \in told /\ Known(j)
    /\ Authorized(j, kind, l, size)
    /\ kind = "model" => office[j].model[l] = NoKey
    /\ office[j].expires - now >= MinKv
    /\ drawn' = drawn + 1
    /\ desk' = [desk EXCEPT ![r] = [@ EXCEPT !.op = kind, !.at = "put", !.job = j,
                                            !.key = NewKey(j, kind, l), !.size = size]]
    /\ UNCHANGED <<vars, office, kv, bell, told, faults>>

\* The objects of job j have expired.
KvExpired(j) == db.births[j].at + Lifetime <= now

\* The body is stored, and deleted again when it is not as long as declared.
Put(r) ==
    /\ desk[r].at = "put"
    /\ kv' = IF KvExpired(desk[r].job) THEN kv ELSE kv \cup {desk[r].key}
    /\ \E step \in {"commit", "discard"} : GoOn(r, step)
    /\ UNCHANGED <<vars, office, bell, told, drawn, faults>>

\* Storage throws, and perhaps it has stored the object.
PutFails(r) ==
    /\ desk[r].at = "put"
    /\ faults < MaxFaults
    /\ faults' = faults + 1
    /\ \E stored \in {{}, {desk[r].key}} :
          kv' = IF KvExpired(desk[r].job) THEN kv ELSE kv \cup stored
    /\ Done(r)
    /\ UNCHANGED <<vars, office, bell, told, drawn>>

\* Slip: once authorised, always authorised.
AlreadyAuthorized(key, size) == office[key.job].state # "ABSENT"

\* The second authorisation, and INSERT OR IGNORE.
StillAuthorized(key, size) ==
    /\ Authorized(key.job, key.kind, key.lease, size)
    /\ key.kind = "model" => office[key.job].model[key.lease] = NoKey
    /\ key.kind = "proof" => office[key.job].proof[key.lease].size = 0

Recorded(o, key, size) ==
    CASE key.kind = "formula" -> [o EXCEPT !.formula = key, !.state = "OPEN"]
      [] key.kind = "model" -> [o EXCEPT !.model[key.lease] = key]
      [] key.kind = "proof" -> [o EXCEPT !.proof[key.lease] = [key |-> key, size |-> size]]

Commit(r) ==
    LET key == desk[r].key IN
    /\ desk[r].at = "commit"
    /\ StillAuthorized(key, desk[r].size)
    /\ office' = [office EXCEPT ![key.job] = Recorded(@, key, desk[r].size)]
    /\ IF key.kind = "formula" THEN GoOn(r, "ready") ELSE Done(r)
    /\ UNCHANGED <<vars, kv, bell, told, drawn, faults>>

CommitRefused(r) ==
    /\ desk[r].at = "commit"
    /\ ~StillAuthorized(desk[r].key, desk[r].size)
    /\ GoOn(r, "discard")
    /\ UNCHANGED <<vars, office, kv, bell, told, drawn, faults>>

\* Slip: the refused object stays where it is.
LeaveStored(key) == kv
TakenBack(key) == kv \ {key}

Discard(r) ==
    /\ desk[r].at = "discard"
    /\ kv' = TakenBack(desk[r].key)
    /\ Done(r)
    /\ UNCHANGED <<vars, office, bell, told, drawn, faults>>

\* uploadFormula goes on: markReady()
Ready(r) ==
    /\ desk[r].at = "ready"
    /\ \/ SetEligible(desk[r].job, TRUE)
       \/ desk[r].job \notin db.listed \ EligibleJobs(db) /\ UNCHANGED vars
    /\ Done(r)
    /\ UNCHANGED <<office, kv, bell, told, drawn, faults>>

-----------------------------------------------------------------------------
(* cancelJob: the coordinator first, then the directory.                   *)

\* cancel() up to its first await; a repeated one only closes again.
CancelBegins(r, j) ==
    LET o == office[j] IN
    /\ Idle(r)
    /\ j \in told /\ Known(j)
    /\ o.state # "ABSENT"
    /\ IF o.state = "CANCELLED"
       THEN /\ desk' = [desk EXCEPT ![r] = [@ EXCEPT !.op = "cancel", !.at = "close", !.job = j]]
            /\ UNCHANGED office
       ELSE /\ office' = [office EXCEPT ![j] = [LeasesOver(o) EXCEPT !.state = "CANCELLED"]]
            /\ \E batch \in Batches(o) :
                 desk' = [desk EXCEPT ![r] = [@ EXCEPT !.op = "cancel", !.at = "clean",
                                                       !.job = j, !.batch = batch]]
    /\ UNCHANGED <<vars, kv, bell, told, drawn, faults>>

\* Slip: with nothing left to delete, nothing is left to do.
RearmedForRest(o) == [o EXCEPT !.wake = IF Keys(o) = {} THEN Never ELSE now]

\* The alarm of a job whose artifacts have been cleaned up, or not all of them.
Rearmed(o) == [o EXCEPT !.wake = IF Keys(o) = {} THEN o.expires ELSE now]

\* The rest of cancel(); it throws when the job is deleted by now.
CancelCleans(r) ==
    LET j == desk[r].job IN
    /\ At(r, "cancel", "clean")
    /\ kv' = kv \ desk[r].batch
    /\ IF office[j].state = "ABSENT"
       THEN UNCHANGED office /\ Done(r)
       ELSE /\ office' = [office EXCEPT ![j] = Rearmed(Forgotten(@, desk[r].batch))]
            /\ desk' = [desk EXCEPT ![r] = [@ EXCEPT !.at = "close", !.batch = {}]]
    /\ UNCHANGED <<vars, bell, told, drawn, faults>>

\* The call of directory.close() that ends a cancellation and a verdict.
\* Slip: the coordinator knows, the directory is not told.
KeepListed(j) == UNCHANGED vars
CloseListing(j) == Close(j)

Closes(r) ==
    /\ desk[r].at = "close"
    /\ CloseListing(desk[r].job)
    /\ Done(r)
    /\ UNCHANGED <<office, kv, bell, told, drawn, faults>>

-----------------------------------------------------------------------------
(* Leases and results, as far as artifacts depend on them.                 *)

\* The directory sends a browser, and the coordinator has work for it.
Granted(j, l) ==
    /\ j \in EligibleJobs(db)
    /\ office[j].state = "OPEN" /\ now < office[j].expires
    /\ office[j].lease[l] = "NONE"
    /\ office' = [office EXCEPT ![j] = [@ EXCEPT !.lease[l] = "ACTIVE"]]
    /\ UNCHANGED <<vars, kv, desk, bell, told, drawn, faults>>

\* It expires, or is given back.
Ended(j, l) ==
    /\ office[j].lease[l] = "ACTIVE"
    /\ office' = [office EXCEPT ![j] = [@ EXCEPT !.lease[l] = "OVER"]]
    /\ UNCHANGED <<vars, kv, desk, bell, told, drawn, faults>>

\* handleSatResult, handleUnsatResult: the lease is closed, and the verifier
\* asked.
ResultBegins(r, j, key) ==
    /\ Idle(r)
    /\ office[j].state = "OPEN"
    /\ key \in Keys(office[j]) /\ key.kind # "formula"
    /\ office' = [office EXCEPT ![j] = [@ EXCEPT !.lease[key.lease] = "OVER"]]
    /\ desk' = [desk EXCEPT ![r] = [@ EXCEPT !.op = "verdict", !.at = "verify", !.job = j, !.key = key]]
    /\ UNCHANGED <<vars, kv, bell, told, drawn, faults>>

\* scheduleNextAlarm(), where leases and permits are left out
Scheduled(o) == [o EXCEPT !.wake = o.expires]

\* The verifier's answer ends the job, whatever has become of it meanwhile, and
\* arms the alarm as if nothing but the expiry were left to do.
ResultDecides(r) ==
    LET j == desk[r].job IN
    /\ At(r, "verdict", "verify")
    /\ office[j].state # "ABSENT"
    /\ \E state \in {"VERDICT", "INVALID"} :
         office' = [office EXCEPT ![j] = Scheduled([LeasesOver(@) EXCEPT !.state = state])]
    /\ GoOn(r, "close")
    /\ UNCHANGED <<vars, kv, bell, told, drawn, faults>>

\* It rejects the model or the proof, whose object is deleted.
ResultRejected(r) ==
    LET j == desk[r].job IN
    /\ At(r, "verdict", "verify")
    /\ office[j].state # "ABSENT"
    /\ kv' = kv \ {desk[r].key}
    /\ office' = [office EXCEPT ![j] = Scheduled(Forgotten(@, {desk[r].key}))]
    /\ Done(r)
    /\ UNCHANGED <<vars, bell, told, drawn, faults>>

\* It has no answer, or finds the job deleted.
ResultDropped(r) ==
    LET j == desk[r].job IN
    /\ At(r, "verdict", "verify")
    /\ office' = [office EXCEPT ![j] =
                    IF @.state = "ABSENT" THEN @ ELSE Scheduled(@)]
    /\ Done(r)
    /\ UNCHANGED <<vars, kv, bell, told, drawn, faults>>

-----------------------------------------------------------------------------
(* The coordinator's alarm(), as far as it cleans up.                      *)

CleansUp(o) == o.state = "CANCELLED" \/ now >= o.expires

AlarmRings(j) ==
    LET o == office[j] IN
    /\ bell[j] = NoRequest
    /\ o.wake # Never /\ o.wake <= now
    /\ IF CleansUp(o)
       THEN /\ office' = [office EXCEPT ![j] = [@ EXCEPT !.wake = Never]]
            /\ \E batch \in Batches(o) :
                 bell' = [bell EXCEPT ![j] = [@ EXCEPT
                            !.at = IF now < o.expires THEN "trim" ELSE "clean",
                            !.job = j, !.batch = batch]]
       ELSE /\ office' = [office EXCEPT ![j] = Scheduled(@)]
            /\ UNCHANGED bell
    /\ UNCHANGED <<vars, kv, desk, told, drawn, faults>>

\* A batch is deleted and forgotten; what remains is left to the next alarm.
AlarmCleans(j) ==
    LET o == Forgotten(office[j], bell[j].batch)
        over == bell[j].at = "clean" /\ Keys(o) = {}
    IN  /\ bell[j].at \in {"trim", "clean"}
        /\ kv' = kv \ bell[j].batch
        /\ office' = [office EXCEPT ![j] = IF over THEN o ELSE Rearmed(o)]
        /\ bell' = [bell EXCEPT ![j] =
                      IF over THEN [@ EXCEPT !.at = "close", !.batch = {}] ELSE NoRequest]
        /\ UNCHANGED <<vars, desk, told, drawn, faults>>

\* The directory has never heard of a job that was rolled back.
AlarmCloses(j) ==
    /\ bell[j].at = "close"
    /\ \/ Close(j)
       \/ db.births[j] = Unborn /\ UNCHANGED vars
    /\ bell' = [bell EXCEPT ![j] = [@ EXCEPT !.at = "erase"]]
    /\ UNCHANGED <<office, kv, desk, told, drawn, faults>>

\* deleteAll()
AlarmErases(j) ==
    /\ bell[j].at = "erase"
    /\ office' = [office EXCEPT ![j] = NoOffice]
    /\ bell' = [bell EXCEPT ![j] = NoRequest]
    /\ UNCHANGED <<vars, kv, desk, told, drawn, faults>>

-----------------------------------------------------------------------------
(* Faults and time.                                                        *)

\* A request dies where it waits.
Abandoned(r) ==
    /\ ~Idle(r)
    /\ faults < MaxFaults
    /\ faults' = faults + 1
    /\ Done(r)
    /\ UNCHANGED <<vars, office, kv, bell, told, drawn>>

\* An alarm handler that throws is run again.
AlarmFails(j) ==
    /\ bell[j] # NoRequest
    /\ faults < MaxFaults
    /\ faults' = faults + 1
    /\ bell' = [bell EXCEPT ![j] = NoRequest]
    /\ office' = [office EXCEPT ![j] = [@ EXCEPT !.wake = now]]
    /\ UNCHANGED <<vars, kv, desk, told, drawn>>

DirectoryAlarm == Alarm /\ UNCHANGED service

\* Time passes, and storage drops what has expired.  The createdAt of a job is
\* read just before it is admitted: no unit of time goes by in between.
TimePasses ==
    /\ Admitting = {}
    /\ Tick
    /\ kv' = {key \in kv : db.births[key.job].at + Lifetime > now'}
    /\ UNCHANGED <<office, desk, bell, told, drawn, faults>>

-----------------------------------------------------------------------------
RequestBegins(r) ==
    \/ \E c \in Challenge : CreateBegins(r, c)
    \/ \E j \in Job :
         \/ \E u \in Uploads : UploadBegins(r, j, u[1], u[2], u[3])
         \/ \E key \in Keys(office[j]) : ResultBegins(r, j, key)
         \/ CancelBegins(r, j)

RequestProceeds(r) ==
    \/ \E origin \in Origins :
         \/ \E j \in Job : CreateAdmits(r, j, origin)
         \/ CreateRefused(r, origin)
    \/ Initialize(r) \/ CreateRollsBack(r) \/ CreateAnswers(r)
    \/ Put(r) \/ Commit(r) \/ CommitRefused(r) \/ Discard(r) \/ Ready(r)
    \/ ResultDecides(r) \/ ResultRejected(r) \/ ResultDropped(r)
    \/ CancelCleans(r) \/ Closes(r)

AlarmProceeds(j) == AlarmRings(j) \/ AlarmCleans(j) \/ AlarmCloses(j) \/ AlarmErases(j)

ServiceNext ==
    \/ \E r \in Request :
         \/ RequestBegins(r) \/ RequestProceeds(r)
         \/ InitializeFails(r) \/ PutFails(r) \/ Abandoned(r)
    \/ \E j \in Job :
         \/ AlarmProceeds(j) \/ AlarmFails(j)
         \/ \E l \in Lease : Granted(j, l) \/ Ended(j, l)
    \/ DirectoryAlarm
    \/ TimePasses

ServiceSpec == ServiceInit /\ [][ServiceNext]_serviceVars

-----------------------------------------------------------------------------
(* Invariants.                                                             *)

ServiceTypeOK ==
    /\ TypeOK
    /\ office \in [Job -> Office]
    /\ kv \subseteq Key
    /\ desk \in [Request -> Activity]
    /\ bell \in [Job -> Activity]
    /\ told \subseteq Job
    /\ drawn \in 0..MaxDraws
    /\ faults \in 0..MaxFaults

\* What the coordinator offers is there: while a job is neither cancelled nor
\* rejected nor expired, every object one of its rows names is stored, however
\* many uploads of the same thing have raced and lost (job-coordinator.ts:577:
\* a loser deletes its own object).
OfferedIsStored ==
    \A j \in Job :
        office[j].state \in {"OPEN", "VERDICT"} /\ ~KvExpired(j) => Keys(office[j]) \subseteq kv

\* Unless something failed, a stored object is named by a row or in the hands
\* of a request, so that the job's cleanup finds it (docs/operator-runbook.md:116:
\* "An orphan is a cleanup incident"): no race of an upload with a cancellation,
\* a result or another upload leaves an object behind.
NoStrayArtifact ==
    faults = 0 =>
        kv \subseteq UNION ({Keys(office[j]) : j \in Job}
                            \cup {{desk[r].key} \cup desk[r].batch : r \in Request}
                            \cup {bell[j].batch : j \in Job})

\* The proofs of a job never take more space than its budget, although the
\* budget is read before a body is stored and several are stored at once
\* (job-coordinator.ts:596, 646).
ProofSpaceBounded == \A j \in Job : UsedSpace(office[j]) <= Budget

\* The directory sends browsers only to a job whose coordinator has a formula
\* and is open, unless the request that ends the job is just about to tell it,
\* or something failed.
EligibleIsOpen ==
    \A j \in EligibleJobs(db) :
        \/ office[j].state = "OPEN" /\ office[j].formula # NoKey
        \/ KvExpired(j)
        \/ \E r \in Request : desk[r].job = j /\ desk[r].at \in {"clean", "close"}
        \/ faults > 0

\* A coordinator is not forgotten with what it stores: whichever of requests,
\* results and batches of deletions set the alarm last, and whatever failed, it
\* stands at or before the job's expiry, or the handler is at work.
CleanupIsScheduled ==
    \A j \in Job :
        office[j].state # "ABSENT" /\ bell[j] = NoRequest =>
            office[j].wake # Never /\ office[j].wake <= Greatest(now, office[j].expires)

=============================================================================
