---------------------------- MODULE CubeRuntime ----------------------------
(***************************************************************************)
(* The browser side of one job: DistributedCubeRuntime                     *)
(* (src/lib/distributed/cubeRuntime.ts) with its JobCoordinatorSocket, its *)
(* dedicated workers (CubeWorker) and what the job coordinator does for    *)
(* the one session of this runtime.                                        *)
(*                                                                         *)
(* The page runs one handler at a time; between two of them anything of    *)
(* the others may happen: a worker's slice, a frame on the socket in       *)
(* either direction, the end of a download or of an upload.                *)
(*                                                                         *)
(* The coordinator is reduced to what a session sees of it: which lease    *)
(* each slot holds, which mutations were answered, and that a lease may be *)
(* lost at any time. JobCoordinator has the whole of it. The session's     *)
(* heartbeats only renew leases, which here are lost or kept anyway, so    *)
(* that only their timer is kept. A slot's n-th lease identifies its task. *)
(***************************************************************************)
EXTENDS CubeWorker, FiniteSets, FiniteSetsExt

CONSTANTS
  Slot,            \* the slots of the runtime, `capacity` of them
  Purposes,        \* the purposes of the tasks leased, a subset of Modes
  FetchAnswers,    \* how a fetch may end: "answered", "rejected"
  MaxLifecycles,   \* bound: lifecycles begun by start()
  MaxDrops,        \* bound: connections lost
  MaxPermits       \* bound: split permits issued for a slot

ASSUME ConstantsType ==
  /\ IsFiniteSet(Slot) /\ Slot # {}
  /\ Purposes \subseteq Modes
  /\ FetchAnswers \subseteq {"answered", "rejected"}
  /\ {MaxLifecycles, MaxDrops, MaxPermits} \subseteq Nat

VARIABLES
  page,    \* the fields of DistributedCubeRuntime and of its socket
  up,      \* frames on their way to the coordinator
  late,    \* frames of a connection the page has closed, the close frame last
  down,    \* frames on their way to the page
  hub,     \* the coordinator's state of the session
  drops    \* connections lost so far

vars == <<page, up, late, down, hub, drops>>

Phases == {"idle", "loading", "connecting", "running", "paused", "complete", "error"}
Active == {"loading", "connecting", "running"}

\* A message that waits for its acknowledgement. Its messageId is the pair of
\* its slot and the number `id` among the mutations of the runtime.
Actions == {"SPLIT", "YIELD", "RESULT"}
MutationOf(id, action, slot, work, verdict) ==
  [type |-> action, id |-> id, slot |-> slot, work |-> work, verdict |-> verdict]

NewSeat == [ready |-> FALSE, mode |-> "SEARCH", work |-> NoWork, waiting |-> FALSE,
            mutation |-> 0, thread |-> NewThread]
NoSeats == [s \in {} |-> NewSeat]

NewPage == [phase |-> "idle", lifecycle |-> 0, formula |-> FALSE, slots |-> NoSeats,
            outbox |-> {}, sent |-> 0, beating |-> FALSE, loads |-> {}, uploads |-> {},
            link |-> "none"]

NewHub == [granted |-> [s \in Slot |-> NoWork], issued |-> [s \in Slot |-> 0],
           permits |-> [s \in Slot |-> 0], known |-> FALSE, attached |-> FALSE,
           over |-> FALSE, processed |-> {}, verifying |-> {}]

Init == /\ page = NewPage
        /\ up = <<>> /\ late = <<>> /\ down = <<>>
        /\ hub = NewHub
        /\ drops = 0
-----------------------------------------------------------------------------
(***************************************************************************)
(* One slot of the page.                                                   *)
(***************************************************************************)

Posted(e, c) == [e EXCEPT !.thread.inbox = Append(@, c)]

InitializeSlot(e, mode) ==
  Posted([e EXCEPT !.ready = FALSE, !.mode = mode], [type |-> "initialize", mode |-> mode])

StartWorkerTask(e) ==
  IF e.ready /\ e.work # NoWork THEN Posted(e, [type |-> "run", work |-> e.work]) ELSE e

\* Slip: a proof worker is used again for the next proof.
ReusedTask(e, w) ==
  LET f == [e EXCEPT !.work = w, !.waiting = FALSE]
  IN  IF f.mode # w.purpose \/ ~f.ready
      THEN InitializeSlot([f EXCEPT !.waiting = TRUE], w.purpose)
      ELSE StartWorkerTask(f)

\* A proof task always gets a worker initialised anew.
RunTask(e, w) ==
  LET f == [e EXCEPT !.work = w, !.waiting = FALSE]
  IN  IF w.purpose = "PROOF_FINISHER" \/ f.mode # w.purpose \/ ~f.ready
      THEN InitializeSlot([f EXCEPT !.waiting = TRUE], w.purpose)
      ELSE StartWorkerTask(f)

Halted(e) == IF e.work # NoWork THEN Posted(e, [type |-> "stop"]) ELSE e

Freed(e) == [e EXCEPT !.work = NoWork, !.waiting = FALSE]

StopAndRelease(e) == Freed(Halted(e))

ReplaceSlotWork(e, w) == RunTask(Freed(Halted([e EXCEPT !.mutation = 0])), w)
-----------------------------------------------------------------------------
(***************************************************************************)
(* The page as a whole. A handler is a function of the page and yields the *)
(* page together with the frames it puts on the socket.                    *)
(***************************************************************************)

\* JobCoordinatorSocket.send drops what finds no open socket.
Send(p, frames) == IF p.link = "open" THEN up \o frames ELSE up

WithoutMutation(p, s) ==
  {m \in p.outbox : ~(m.slot = s /\ m.id = p.slots[s].mutation)}

SendMutation(p, s, action, w, verdict) ==
  LET m == MutationOf(p.sent + 1, action, s, w, verdict)
  IN  [p EXCEPT !.sent = m.id, !.outbox = @ \cup {m}, !.slots[s].mutation = m.id]

\* The outbox is a Map: its messages are resent in the order they were added.
OutboxInOrder(p) ==
  SetToSortSeq(p.outbox, LAMBDA m, n : m.id < n.id)

\* The socket's stop(): what comes from the coordinator is not received any
\* more; what was sent on an open socket may still arrive, the close frame
\* (1000 "Client stopped") last. A connection closed before its HELLO was
\* handled never counts.

\* Slip: the heartbeat goes on.
StillBeating(p) == [p EXCEPT !.link = "none"]
Unplugged(p) == [p EXCEPT !.link = "none", !.beating = FALSE]
ClosedBehind ==
  IF page.link # "open" THEN {late}
  ELSE IF hub.attached THEN {Append(up, [type |-> "CLOSE"])} ELSE {<<>>}

Disposed(p) ==
  [Unplugged(p) EXCEPT !.lifecycle = @ + 1, !.slots = NoSeats, !.outbox = {}, !.formula = FALSE]

Failed(p) == [Disposed(p) EXCEPT !.phase = "error"]

CreateSlots(p) ==
  IF DOMAIN p.slots = {}
  THEN [p EXCEPT !.slots = [s \in Slot |-> InitializeSlot(NewSeat, "SEARCH")]]
  ELSE p

Connect(p) ==
  IF p.link = "none" /\ p.phase \in Active
  THEN [p EXCEPT !.phase = "connecting", !.link = "connecting"]
  ELSE p

\* The coordinator's side of a connection that is gone.
Detached(h) ==
  [h EXCEPT !.attached = FALSE, !.verifying = {[v EXCEPT !.live = FALSE] : v \in @}]

\* The page takes its next state and sends frames ...
Becomes(p, frames) == page' = p /\ up' = Send(p, frames) /\ UNCHANGED <<late, hub, drops>>

\* ... or takes it with its socket stopped.
Hangs(p) ==
  /\ page' = p
  /\ up' = <<>> /\ down' = <<>>
  /\ late' \in ClosedBehind \cup {<<>>}
  /\ hub' = Detached(hub)
  /\ UNCHANGED drops
-----------------------------------------------------------------------------
(***************************************************************************)
(* What the user and the browser do: start, pause, stop, the download.     *)
(***************************************************************************)

\* After a pause the verified formula is still there.
Start ==
  /\ page.phase \in {"idle", "paused", "error"}
  /\ page.lifecycle < MaxLifecycles
  /\ IF page.phase = "paused" /\ page.formula
     THEN /\ Becomes(CreateSlots([page EXCEPT !.lifecycle = @ + 1, !.phase = "loading"]), <<>>)
          /\ UNCHANGED down
     ELSE Hangs([Disposed(page) EXCEPT !.phase = "loading",
                                       !.loads = @ \cup {page.lifecycle + 1}])

\* loadFormula ends, its retries included; nothing comes of it if the runtime
\* was paused, stopped or failed in the meantime.
LoadAnswered(life, loaded) ==
  /\ life \in page.loads
  /\ LET p == [page EXCEPT !.loads = @ \ {life}]
     IN  IF life # page.lifecycle \/ (loaded /\ page.phase # "loading")
         THEN Becomes(p, <<>>) /\ UNCHANGED down
         ELSE IF loaded
         THEN Becomes(CreateSlots([p EXCEPT !.formula = TRUE]), <<>>) /\ UNCHANGED down
         ELSE Hangs(Failed(p))

Pause ==
  /\ page.phase \in Active
  /\ Hangs([Unplugged(page) EXCEPT !.phase = "paused", !.lifecycle = @ + 1,
                                   !.slots = NoSeats, !.outbox = {}])

Stop ==
  /\ page.lifecycle < MaxLifecycles
  /\ Hangs([Disposed(page) EXCEPT !.phase = "idle"])
-----------------------------------------------------------------------------
(***************************************************************************)
(* onWorkerMessage. A result passes two awaits, the hash of its evidence   *)
(* and, for a model or a proof, its upload, before it becomes a mutation.  *)
(***************************************************************************)

\* The slot is ready: its waiting task runs; with all slots ready the runtime
\* connects.
Readied(p, s) ==
  LET q == [p EXCEPT !.slots[s].ready = TRUE]
  IN  IF q.slots[s].waiting
      THEN [q EXCEPT !.slots[s] = StartWorkerTask([@ EXCEPT !.waiting = FALSE])]
      ELSE IF \A r \in Slot : q.slots[r].ready THEN Connect(q) ELSE q

SendAll(p, ids) == SelectSeq(OutboxInOrder(p), LAMBDA m : m.id \in ids)

\* sendMutation does nothing while another mutation of the slot is pending.
Mutates(p, s, action, w, verdict) ==
  IF p.slots[s].mutation # 0
  THEN Becomes(p, <<>>)
  ELSE LET q == SendMutation(p, s, action, w, verdict)
       IN  Becomes(q, SendAll(q, {q.sent}))

NoVerdict == "none"

WorkerReport(s) ==
  /\ s \in DOMAIN page.slots
  /\ page.slots[s].thread.out # <<>>
  /\ LET r == Head(page.slots[s].thread.out)
         p == [page EXCEPT !.slots[s].thread.out = Tail(@)]
     IN  IF r.type = "error" THEN Hangs(Failed(p))
         ELSE /\ UNCHANGED down
              /\ IF r.type = "ready" THEN Becomes(Readied(p, s), <<>>)
                 ELSE IF p.slots[s].work # r.work THEN Becomes(p, <<>>)
                 ELSE IF r.type = "result"
                 THEN Becomes([p EXCEPT !.uploads = @ \cup
                                 {[slot |-> s, lifecycle |-> p.lifecycle, work |-> r.work,
                                   verdict |-> r.verdict, stage |-> "hash"]}], <<>>)
                 ELSE Mutates(p, s, IF r.type = "split" THEN "SPLIT" ELSE "YIELD",
                              r.work, NoVerdict)

IsCurrentResult(p, u) ==
  p.lifecycle = u.lifecycle /\ u.slot \in DOMAIN p.slots /\ p.slots[u.slot].work = u.work

HasArtifact(u) == u.verdict = "SAT" \/ u.work.purpose = "PROOF_FINISHER"

WithoutUpload(u) == [page EXCEPT !.uploads = @ \ {u}]

\* The hashes are there: a model or a proof is uploaded, a candidate is sent.
ResultHashed(u) ==
  /\ u \in page.uploads /\ u.stage = "hash"
  /\ UNCHANGED down
  /\ LET p == WithoutUpload(u)
     IN  IF ~IsCurrentResult(p, u) THEN Becomes(p, <<>>)
         ELSE IF HasArtifact(u)
         THEN Becomes([p EXCEPT !.uploads = @ \cup {[u EXCEPT !.stage = "upload"]}], <<>>)
         ELSE Mutates(p, u.slot, "RESULT", u.work, u.verdict)

\* The upload is authorised by the lease, which must be active.
UploadHandled(u) ==
  /\ u \in page.uploads /\ u.stage = "upload"
  /\ LET accepted == hub.granted[u.slot] = u.work /\ ~hub.over
     IN  page' = [WithoutUpload(u) EXCEPT !.uploads =
                    @ \cup {[u EXCEPT !.stage = IF accepted THEN "stored" ELSE "refused"]}]
  /\ UNCHANGED <<up, late, down, hub, drops>>

\* The upload's fetch ends. When it throws, nothing more happens: the promise
\* of onWorkerMessage is not awaited by anyone.
UploadAnswered(u, answer) ==
  /\ u \in page.uploads /\ u.stage # "hash"
  /\ answer = "answered" => u.stage \in {"stored", "refused"}
  /\ LET p == WithoutUpload(u)
     IN  IF answer = "rejected" \/ ~IsCurrentResult(p, u)
         THEN Becomes(p, <<>>) /\ UNCHANGED down
         ELSE IF u.stage = "refused" THEN Hangs(Failed(p))
         ELSE Mutates(p, u.slot, "RESULT", u.work, u.verdict) /\ UNCHANGED down
-----------------------------------------------------------------------------
(***************************************************************************)
(* The workers.                                                            *)
(***************************************************************************)

Continues(s, threads) ==
  /\ \E t \in threads : page' = [page EXCEPT !.slots[s].thread = t]
  /\ UNCHANGED <<up, late, down, hub, drops>>

\* An event is delivered between two slices or while a solver is being created,
\* but not before a queued run that can begin has begun.
Deliver(s) ==
  /\ s \in DOMAIN page.slots
  /\ LET t == page.slots[s].thread
     IN  t.inbox # <<>> /\ Attentive(t) /\ Continues(s, {Delivered(t)})

\* It begins its next operation when none is running ...
Begin(s) ==
  /\ s \in DOMAIN page.slots
  /\ LET t == page.slots[s].thread
     IN  t.run = NoWork /\ t.chain # <<>> /\ Continues(s, {Begun(t)})

\* ... ends a run that was told to stop ...
Interrupt(s) ==
  /\ s \in DOMAIN page.slots
  /\ LET t == page.slots[s].thread
     IN  t.run # NoWork /\ t.stopped /\ Continues(s, {Interrupted(t)})

\* ... or searches on until something comes of it.
Slice(s) ==
  /\ s \in DOMAIN page.slots
  /\ LET t == page.slots[s].thread
     IN  t.run # NoWork /\ ~t.stopped /\ Continues(s, Slices(t))
-----------------------------------------------------------------------------
(***************************************************************************)
(* The socket.                                                             *)
(***************************************************************************)

Hello == [type |-> "HELLO"]

\* A connection is opened, at first or after the back-off. The coordinator
\* refuses it when the job is over: the page tries again, without end.
SocketOpened ==
  /\ page.link \in {"connecting", "retry"}
  /\ ~hub.over
  /\ page' = [page EXCEPT !.link = "open"]
  /\ up' = <<Hello>> /\ down' = <<>>
  /\ UNCHANGED <<late, hub, drops>>

\* The connection breaks; frames in flight are lost. Leases are kept.
SocketLost ==
  /\ page.link = "open"
  /\ drops < MaxDrops
  /\ drops' = drops + 1
  /\ page' = [page EXCEPT !.link = "retry", !.phase = "connecting"]
  /\ up' = <<>> /\ down' = <<>>
  /\ hub' = Detached(hub)
  /\ UNCHANGED late
-----------------------------------------------------------------------------
(***************************************************************************)
(* onCoordinatorMessage.                                                   *)
(***************************************************************************)

\* WELCOME tells for every slot the lease it holds. A mutation under that lease
\* is kept, to be sent again; the work at hand goes on if it is of that lease.
Resumed(p, s, w) ==
  LET e == p.slots[s]
      pending == \E m \in p.outbox : m.slot = s /\ m.id = e.mutation /\ m.work = w
      f == IF pending THEN e ELSE [e EXCEPT !.mutation = 0]
  IN  IF w = NoWork THEN StopAndRelease(f)
      ELSE IF f.mutation # 0 \/ f.work = w THEN f
      ELSE ReplaceSlotWork(f, w)

Welcomed(p, granted) ==
  LET slots == [s \in Slot |-> Resumed(p, s, granted[s])]
  IN  [p EXCEPT !.phase = "running", !.beating = TRUE, !.slots = slots,
                !.outbox = {m \in @ : slots[m.slot].mutation = m.id}]

\* Slip: the pending message stays in the outbox.
AssignedWithAll(p, s, w) ==
  IF p.slots[s].work = w THEN p ELSE [p EXCEPT !.slots[s] = ReplaceSlotWork(@, w)]

\* WORK replaces whatever the slot is doing, its pending mutation included.
Assigned(p, s, w) ==
  IF p.slots[s].work = w THEN p
  ELSE [p EXCEPT !.outbox = WithoutMutation(p, s), !.slots[s] = ReplaceSlotWork(@, w)]

Permitted(p, s, w) ==
  IF p.slots[s].work = w /\ p.slots[s].mutation = 0
  THEN [p EXCEPT !.slots[s] = Posted(@, [type |-> "grant-split", work |-> w])]
  ELSE p

\* The mutation an answer is about, if the outbox still has it.
Pending(p, id) == {m \in p.outbox : m.id = id}

\* The mutation of the slot, if it is this one, is pending no more.
Settled(e, m) == IF e.mutation = m.id THEN [e EXCEPT !.mutation = 0] ELSE e

\* acknowledgeMutation and handleMutationError both take the mutation off the
\* outbox and, one case apart, release its slot.
Answered(p, m) ==
  [p EXCEPT !.outbox = @ \ {m}, !.slots[m.slot] = Freed(Settled(@, m))]

Acknowledged(p, id, action) ==
  IF \E m \in Pending(p, id) : m.type = action
  THEN Answered(p, CHOOSE m \in Pending(p, id) : TRUE)
  ELSE p

\* Slip: the slot waits for more work instead.
NotResplit(p, m) ==
  [p EXCEPT !.outbox = @ \ {m}, !.slots[m.slot] = Settled(@, m)]

\* A split that was not needed puts the slot back to its search.
Resplit(p, m) ==
  [p EXCEPT !.outbox = @ \ {m}, !.slots[m.slot] = StartWorkerTask(Settled(@, m))]

Benign == {"STALE_LEASE", "INVALID_STATE"}

\* The whole runtime fails when an answer that must not be retried is about a
\* mutation it no longer has.
ErrorIsFatal(p, f) == ~f.retryable /\ (Pending(p, f.id) = {} \/ f.code \notin Benign)

Erred(p, f) ==
  IF Pending(p, f.id) = {} THEN p
  ELSE LET m == CHOOSE m \in Pending(p, f.id) : TRUE
       IN  IF m.type = "SPLIT" /\ f.code = "SPLIT_NOT_NEEDED" THEN Resplit(p, m)
           ELSE Answered(p, m)

Receive ==
  /\ down # <<>>
  /\ LET f == Head(down)
     IN  CASE f.type = "WELCOME" ->
                LET p == Welcomed(page, f.granted)
                IN  Becomes(p, OutboxInOrder(p)) /\ down' = Tail(down)
           [] f.type = "WORK" -> Becomes(Assigned(page, f.slot, f.work), <<>>) /\ down' = Tail(down)
           [] f.type = "SPLIT_PERMIT" ->
                Becomes(Permitted(page, f.slot, f.work), <<>>) /\ down' = Tail(down)
           [] f.type = "ACK" -> Becomes(Acknowledged(page, f.id, f.action), <<>>) /\ down' = Tail(down)
           [] f.type = "ERROR" ->
                IF ErrorIsFatal(page, f)
                THEN Hangs(Failed(page))
                ELSE Becomes(Erred(page, f), <<>>) /\ down' = Tail(down)
           [] f.type = "JOB_OVER" -> Hangs([Disposed(page) EXCEPT !.phase = "complete"])
-----------------------------------------------------------------------------
(***************************************************************************)
(* The coordinator, as far as this session sees it.                        *)
(***************************************************************************)

Push(h, frames) == IF h.attached THEN down \o frames ELSE down

Held(h, m) == ~h.over /\ h.granted[m.slot] = m.work

Leased(h, s, w) == [h EXCEPT !.granted[s] = w, !.issued[s] = w.lease]

\* A lease for an idle slot.
Grants(h, s) ==
  {w \in Work : h.granted[s] = NoWork /\ w.lease = h.issued[s] + 1 /\ w.purpose \in Purposes}

\* handleHello keeps the session's leases and may lease more to idle slots.
Greeted(h, leases) ==
  [h EXCEPT !.granted = leases, !.known = TRUE, !.attached = TRUE,
            !.issued = [s \in Slot |-> IF leases[s] = NoWork THEN @[s] ELSE leases[s].lease]]

Offers(h) ==
  {leases \in [Slot -> Work \cup {NoWork}] :
     \A s \in Slot : leases[s] \in {h.granted[s]} \cup (IF h.over THEN {} ELSE Grants(h, s))}

\* The answer to a mutation, and what it does: a mutation under the lease of
\* its slot ends the lease, save that a split may not be needed. A result that
\* must be verified ends it at once and is answered later.
\* Slip: every acknowledgement says RESULT.
AckedResult(m) == [type |-> "ACK", id |-> m.id, action |-> "RESULT"]
AckOf(m) == [type |-> "ACK", id |-> m.id, action |-> m.type]
ErrorOf(m, code, retryable) ==
  [type |-> "ERROR", id |-> m.id, code |-> code, retryable |-> retryable]

Closed(h, m) == [h EXCEPT !.granted[m.slot] = NoWork]
Processed(h, m) == [h EXCEPT !.processed = @ \cup {m.id}]

\* The outcomes of handling a mutation: the next state and the frames sent. A
\* repeated message gets its stored answer again; a result that is being
\* verified gets its answer when the first one does.
Outcomes(h, m) ==
  IF m.id \in h.processed THEN {<<h, <<AckOf(m)>>>>}
  ELSE IF \E v \in h.verifying : v.m = m
  THEN {<<[h EXCEPT !.verifying = {v \in @ : v.m # m} \cup {[m |-> m, live |-> h.attached]}], <<>>>>}
  ELSE IF m.type = "RESULT" /\ h.over THEN {<<h, <<ErrorOf(m, "INVALID_STATE", FALSE)>>>>}
  ELSE IF m.type = "RESULT" /\ HasArtifact(m)
  THEN {<<[(IF Held(h, m) THEN Closed(h, m) ELSE h) EXCEPT
             !.verifying = @ \cup {[m |-> m, live |-> h.attached]}], <<>>>>}
  ELSE IF Held(h, m)
  THEN {<<Processed(Closed(h, m), m), <<AckOf(m)>>>>}
         \cup (IF m.type = "SPLIT" THEN {<<h, <<ErrorOf(m, "SPLIT_NOT_NEEDED", TRUE)>>>>} ELSE {})
  ELSE IF m.type = "RESULT"
  THEN {<<Processed(h, m), <<AckOf(m)>>>>, <<h, <<ErrorOf(m, "INVALID_STATE", FALSE)>>>>}
  ELSE {<<h, <<ErrorOf(m, "STALE_LEASE", FALSE)>>>>}

\* A HELLO of a quarantined session or of an expired assignment is refused.
Refusal == [type |-> "ERROR", id |-> 0, code |-> "REFUSED", retryable |-> FALSE]

\* Frames of the current connection.
HubReceive ==
  /\ up # <<>>
  /\ up' = Tail(up)
  /\ IF Head(up).type = "HELLO"
     THEN \/ \E leases \in Offers(hub) :
               /\ hub' = Greeted(hub, leases)
               /\ down' = Append(down, [type |-> "WELCOME", granted |-> leases])
          \/ hub' = hub /\ down' = Append(down, Refusal)
     ELSE \E o \in Outcomes(hub, Head(up)) : hub' = o[1] /\ down' = Push(hub, o[2])
  /\ UNCHANGED <<page, late, drops>>

\* Frames of a connection the page has closed. Its answers reach nobody. The
\* close releases the leases of the session, unless it is back already.
HubReceiveLate ==
  /\ late # <<>>
  /\ late' = Tail(late)
  /\ IF Head(late).type = "CLOSE"
     THEN hub' = IF hub.attached THEN hub
                 ELSE [hub EXCEPT !.granted = [s \in Slot |-> NoWork], !.known = FALSE]
     ELSE \E o \in Outcomes(hub, Head(late)) : hub' = o[1]
  /\ UNCHANGED <<page, up, down, drops>>

\* A verification ends, whatever the verdict.
Verified(v) ==
  /\ v \in hub.verifying
  /\ hub' = Processed([hub EXCEPT !.verifying = @ \ {v}], v.m)
  /\ down' = IF v.live THEN Push(hub, <<AckOf(v.m)>>) ELSE down
  /\ UNCHANGED <<page, up, late, drops>>

\* Work for an idle slot is pushed; over a dead connection the frame is lost.
Assign(s) ==
  /\ hub.known /\ ~hub.over
  /\ \E w \in Grants(hub, s) :
       /\ hub' = Leased(hub, s, w)
       /\ down' = Push(hub, <<[type |-> "WORK", slot |-> s, work |-> w]>>)
  /\ UNCHANGED <<page, up, late, drops>>

Permit(s) ==
  /\ hub.known /\ ~hub.over
  /\ hub.granted[s] # NoWork /\ hub.granted[s].purpose = "SEARCH"
  /\ hub.permits[s] < MaxPermits
  /\ hub' = [hub EXCEPT !.permits[s] = @ + 1]
  /\ down' = Push(hub, <<[type |-> "SPLIT_PERMIT", slot |-> s, work |-> hub.granted[s]]>>)
  /\ UNCHANGED <<page, up, late, drops>>

\* A lease expires, or its task is settled by another lease.
Expire(s) ==
  /\ hub.granted[s] # NoWork
  /\ hub' = [hub EXCEPT !.granted[s] = NoWork]
  /\ UNCHANGED <<page, up, late, down, drops>>

\* The job is cancelled, suspended or decided, and whoever is connected hears
\* it; or its formula is found invalid, of which nobody is told.
EndJob ==
  /\ ~hub.over
  /\ hub' = [hub EXCEPT !.over = TRUE, !.granted = [s \in Slot |-> NoWork]]
  /\ down' \in {down, Push(hub, <<[type |-> "JOB_OVER"]>>)}
  /\ UNCHANGED <<page, up, late, drops>>
-----------------------------------------------------------------------------
PageStep ==
  \/ Start \/ Pause \/ Stop
  \/ \E life \in page.loads : LoadAnswered(life, TRUE) \/ LoadAnswered(life, FALSE)
  \/ \E s \in Slot : WorkerReport(s)
  \/ \E u \in page.uploads : ResultHashed(u) \/ UploadHandled(u)
  \/ \E u \in page.uploads, answer \in FetchAnswers : UploadAnswered(u, answer)
  \/ SocketOpened \/ SocketLost \/ Receive

WorkerStep == \E s \in Slot : Deliver(s) \/ Begin(s) \/ Interrupt(s) \/ Slice(s)

HubStep ==
  \/ HubReceive \/ HubReceiveLate
  \/ \E v \in hub.verifying : Verified(v)
  \/ \E s \in Slot : Assign(s) \/ Permit(s) \/ Expire(s)
  \/ EndJob

Next == PageStep \/ WorkerStep \/ HubStep

Spec == Init /\ [][Next]_vars
-----------------------------------------------------------------------------
(***************************************************************************)
(* Fairness. The browser runs its event handlers and its workers' queues,  *)
(* the network delivers on an open connection, and the coordinator answers *)
(* what it gets. A search may go on for ever, nobody has to press a button,*)
(* and neither leases nor permits nor the end of the job ever have to come.*)
(***************************************************************************)
Fairness ==
  /\ WF_vars(SocketOpened) /\ WF_vars(Receive)
  /\ WF_vars(HubReceive) /\ WF_vars(\E v \in hub.verifying : Verified(v))
  /\ \A s \in Slot : /\ WF_vars(WorkerReport(s)) /\ WF_vars(Deliver(s))
                     /\ WF_vars(Begin(s)) /\ WF_vars(Interrupt(s))

FairSpec == Spec /\ Fairness
-----------------------------------------------------------------------------
(***************************************************************************)
(* Properties.                                                             *)
(***************************************************************************)

Mutation == [type : Actions, id : Nat \ {0}, slot : Slot, work : Work,
             verdict : Verdicts \cup {NoVerdict}]

\* Every field of the page and of the coordinator has its type.
TypeOK ==
  /\ page.phase \in Phases /\ page.lifecycle \in Nat /\ page.loads \subseteq Nat
  /\ {page.formula, page.beating, hub.known, hub.attached, hub.over} \subseteq BOOLEAN
  /\ page.link \in {"none", "connecting", "open", "retry"}
  /\ page.slots \in [Slot -> [ready : BOOLEAN, mode : Modes, work : Work \cup {NoWork},
                              waiting : BOOLEAN, mutation : Nat, thread : Thread]]
                      \cup {NoSeats}
  /\ page.outbox \subseteq Mutation
  /\ hub.granted \in [Slot -> Work \cup {NoWork}]
  /\ \A v \in hub.verifying : v.m \in Mutation
  /\ drops \in 0..MaxDrops

\* The outbox and the slots tell the same story: every message that waits for
\* its answer is the pending mutation of its slot, for the very work the slot
\* holds, and the other way round. Six handlers keep the two in step; a message
\* left behind would be answered to a slot that has moved on (cubeRuntime.ts
\* acknowledgeMutation releases whatever the slot holds).
OutboxMatchesSlots ==
  /\ \A m \in page.outbox : /\ page.slots[m.slot].mutation = m.id
                            /\ page.slots[m.slot].work = m.work
  /\ \A s \in DOMAIN page.slots :
       page.slots[s].mutation # 0 => \E m \in page.outbox : m.slot = s

\* A runtime that is not active holds nothing of the job but, when paused, its
\* formula: no worker, no socket, no timer, no message.
QuietWhenInactive ==
  page.phase \notin Active =>
    /\ page.slots = NoSeats /\ page.outbox = {} /\ page.link = "none" /\ ~page.beating
    /\ down = <<>>
    /\ page.formula => page.phase = "paused"

\* A run finds the solver it needs however tasks were replaced in the queue:
\* before every run of the worker's queue the last initialisation was for its
\* purpose, and a proof's run is the first after its initialisation.
Commands(t) == t.chain \o t.inbox
Runs(t) == {i \in DOMAIN Commands(t) : Commands(t)[i].type = "run"}
LastInitialize(t, i) ==
  Max({0} \cup {j \in 1..i : Commands(t)[j].type = "initialize"})

RunsFindTheirSolver ==
  \A s \in DOMAIN page.slots : LET t == page.slots[s].thread IN
    /\ t.run # NoWork => t.run.purpose = t.mode
    /\ \A i \in Runs(t) :
         LET j == LastInitialize(t, i)
             w == Commands(t)[i].work
         IN  /\ w.purpose = IF j = 0 THEN t.mode ELSE Commands(t)[j].mode
             /\ w.purpose = "PROOF_FINISHER" =>
                  \A k \in Runs(t) : k < i => k < j

\* What waits for an answer gets one, whatever is lost on the way: the message
\* is sent again on every connection until then. Unless the job has ended.
PendingIsSettled == \A s \in Slot : (\E m \in page.outbox : m.slot = s) ~>
                      (hub.over \/ ~\E m \in page.outbox : m.slot = s)

\* Work a slot holds is being searched, or what came of it is on its way to
\* the coordinator - now or some time later, unless the slot loses the work.
\* A slot that did neither would sit on its lease until the lease expires.
Holds(s, w) == s \in DOMAIN page.slots /\ page.slots[s].work = w
Proceeds(s, w) ==
  \/ page.slots[s].thread.run = w
  \/ page.slots[s].mutation # 0
  \/ \E u \in page.uploads : u.slot = s /\ u.work = w /\ u.lifecycle = page.lifecycle
HeldWorkProceeds ==
  \A s \in Slot, w \in Work : Holds(s, w) ~> (~Holds(s, w) \/ Proceeds(s, w))
=============================================================================
