-------------------------- MODULE CubeRuntime_proofs --------------------------
(***************************************************************************)
(* What holds of the browser of one job (CubeRuntime.tla) for every number *)
(* of slots, leases, connections and lifecycles: outbox and slots agree, a *)
(* runtime that is not active holds nothing, and every run finds a solver  *)
(* that was made for it.                                                   *)
(*                                                                         *)
(* The first two are about the page and its socket, the third about the    *)
(* queue of each worker.  What has to hold of a queue, a thread, a seat    *)
(* and the page is stated of a value of its own (c, t, e, p), so that a    *)
(* handler, which is a function of the page, is a fact about records.      *)
(***************************************************************************)
EXTENDS CubeRuntime, SequenceTheorems, TLAPS

MaybeWork == Work \cup {NoWork}
Seat == [ready : BOOLEAN, mode : Modes, work : MaybeWork, waiting : BOOLEAN,
         mutation : Nat, thread : Thread]
Stages == {"hash", "upload", "stored", "refused"}
Upload == [slot : Slot, lifecycle : Nat, work : Work, verdict : Verdicts, stage : Stages]
Page == [phase : Phases, lifecycle : Nat, formula : BOOLEAN,
         slots : [Slot -> Seat] \cup {NoSeats}, outbox : SUBSET Mutation, sent : Nat,
         beating : BOOLEAN, loads : SUBSET Nat, uploads : SUBSET Upload,
         link : {"none", "connecting", "open", "retry"}]

IsInit(c, i) == c[i].type = "initialize"
IsRun(c, i) == c[i].type = "run"

\* A run that came after the first i commands of c would find a solver for x,
\* in a worker that has one for m.
Finds(c, m, i, x) ==
  \E j \in 0..i : /\ IF j = 0 THEN x = m ELSE IsInit(c, j) /\ x = c[j].mode
                  /\ \A k \in 1..i : k > j => ~IsInit(c, k)

\* No run of the first i commands would have the solver of a run after them.
Fresh(c, i) ==
  \A k \in 1..i : IsRun(c, k) => \E j \in k..i : IsInit(c, j)

\* Every run finds its solver, and a proof's a fresh one.
Served(c, m) ==
  \A i \in 1..Len(c) : IsRun(c, i) =>
    /\ Finds(c, m, i, c[i].work.purpose)
    /\ c[i].work.purpose = "PROOF_FINISHER" => Fresh(c, i - 1)

\* A worker holds permits, and reports splits, of searches only.
ThreadFine(t) ==
  /\ t \in Thread
  /\ Served(Commands(t), t.mode)
  /\ \A i \in 1..Len(t.chain) : IsInit(t.chain, i) \/ IsRun(t.chain, i)
  /\ t.run # NoWork => t.run.purpose = t.mode
  /\ t.permit => t.mode = "SEARCH"
  /\ \A i \in 1..Len(t.out) : t.out[i].type = "split" => t.out[i].work.purpose = "SEARCH"

\* The page knows what the last initialisation it posted was for, its task is of
\* that kind, and nothing of the queue runs between the two if it is a proof.
SeatFine(e) ==
  LET c == Commands(e.thread) IN
  /\ e \in Seat /\ ThreadFine(e.thread)
  /\ Finds(c, e.thread.mode, Len(c), e.mode)
  /\ e.work # NoWork => e.work.purpose = e.mode
  /\ e.waiting /\ e.mode = "PROOF_FINISHER" => Fresh(c, Len(c))

\* Outbox and slots agree, and a message is known by its number.
Filed(p) ==
  /\ \A m \in p.outbox :
       /\ m.slot \in DOMAIN p.slots /\ m.id <= p.sent
       /\ p.slots[m.slot].mutation = m.id /\ p.slots[m.slot].work = m.work
       /\ m.type = "SPLIT" => m.work.purpose = "SEARCH"
  /\ \A m, n \in p.outbox : m.id = n.id => m = n
  /\ \A s \in DOMAIN p.slots : p.slots[s].mutation # 0 => \E m \in p.outbox : m.slot = s

Plugged(p) == p.link # "none" => p.phase \in Active /\ DOMAIN p.slots = Slot

Quiet(p) ==
  p.phase \notin Active =>
    /\ p.slots = NoSeats /\ p.outbox = {} /\ ~p.beating
    /\ p.formula => p.phase = "paused"

PageFine(p) ==
  /\ p \in Page
  /\ \A s \in DOMAIN p.slots : SeatFine(p.slots[s])
  /\ Filed(p) /\ Plugged(p) /\ Quiet(p)

\* A frame for the page can be read by it.
FrameFine(f) ==
  \/ f.type = "WELCOME" /\ f.granted \in [Slot -> MaybeWork]
  \/ f.type \in {"WORK", "SPLIT_PERMIT"} /\ f.slot \in Slot /\ f.work \in Work
  \/ f.type \in {"ACK", "ERROR", "JOB_OVER"}
Frames(d) == \E S : d \in Seq(S) /\ \A f \in S : FrameFine(f)

\* The coordinator's record, as far as the page depends on it.
HubFine(h) ==
  /\ h = [granted |-> h.granted, issued |-> h.issued, permits |-> h.permits,
          known |-> h.known, attached |-> h.attached, over |-> h.over,
          processed |-> h.processed, verifying |-> h.verifying]
  /\ h.granted \in [Slot -> MaybeWork] /\ h.attached \in BOOLEAN

\* Frames are on their way on an open socket only.
Wired(link, u, d, h) == u # <<>> \/ d # <<>> \/ h.attached => link = "open"

RuntimeInv ==
  /\ PageFine(page) /\ HubFine(hub) /\ Frames(down)
  /\ Wired(page.link, up, down, hub)

-----------------------------------------------------------------------------
(* Queues of commands.                                                     *)

\* What is behind a position is of no interest to it.
LEMMA PrefixKept ==
  ASSUME NEW c, NEW d, NEW i \in Nat, \A k \in 1..i : d[k] = c[k]
  PROVE  /\ \A m, x : Finds(c, m, i, x) => Finds(d, m, i, x)
         /\ Fresh(c, i) => Fresh(d, i)
BY DEF Finds, Fresh, IsInit, IsRun

\* A command that is neither an initialisation nor a run changes nothing, ...
LEMMA OneMore ==
  ASSUME NEW c, NEW i \in Nat, ~IsInit(c, i + 1)
  PROVE  /\ \A m, x : Finds(c, m, i, x) => Finds(c, m, i + 1, x)
         /\ Fresh(c, i) /\ ~IsRun(c, i + 1) => Fresh(c, i + 1)
<1>1. ASSUME NEW m, NEW x, Finds(c, m, i, x) PROVE Finds(c, m, i + 1, x)
  <2>1. PICK j \in 0..i : /\ IF j = 0 THEN x = m ELSE IsInit(c, j) /\ x = c[j].mode
                          /\ \A k \in 1..i : k > j => ~IsInit(c, k)
    BY <1>1 DEF Finds
  <2>2. \A k \in 1..i + 1 : k > j => ~IsInit(c, k)
    <3> TAKE k \in 1..i + 1
    <3>1. k \in 1..i \/ k = i + 1
      OBVIOUS
    <3> QED BY <2>1, <3>1
  <2>3. j \in 0..i + 1
    OBVIOUS
  <2> QED BY <2>1, <2>2, <2>3 DEF Finds
<1>2. ASSUME Fresh(c, i), ~IsRun(c, i + 1) PROVE Fresh(c, i + 1)
  <2> SUFFICES ASSUME NEW k \in 1..i + 1, IsRun(c, k) PROVE \E j \in k..i + 1 : IsInit(c, j)
    BY DEF Fresh
  <2>1. k \in 1..i
    BY <1>2
  <2>2. PICK j \in k..i : IsInit(c, j)
    BY <1>2, <2>1 DEF Fresh
  <2> QED BY <2>2
<1> QED BY <1>1, <1>2

\* ... and an initialisation decides all.
LEMMA OneInit ==
  ASSUME NEW c, NEW i \in Nat, IsInit(c, i + 1)
  PROVE  /\ \A m : Finds(c, m, i + 1, c[i + 1].mode)
         /\ Fresh(c, i + 1)
BY DEF Finds, Fresh

-----------------------------------------------------------------------------
(* Threads: what the page posts.                                           *)

Inboxed(t, c) == [t EXCEPT !.inbox = Append(@, c)]

\* A command that is posted is the last one.
LEMMA InboxedLast ==
  ASSUME NEW t \in Thread, NEW c \in Command
  PROVE  LET u == Inboxed(t, c)
             d == Commands(u)
         IN  /\ u \in Thread
             /\ u.chain = t.chain /\ u.mode = t.mode /\ u.run = t.run /\ u.permit = t.permit
             /\ u.out = t.out /\ u.stopped = t.stopped
             /\ Len(Commands(t)) \in Nat
             /\ Len(d) = Len(Commands(t)) + 1 /\ d[Len(Commands(t)) + 1] = c
             /\ \A i \in 1..Len(Commands(t)) : d[i] = Commands(t)[i]
<1> DEFINE u == Inboxed(t, c)
<1>1. t.inbox \in Seq(Command) /\ t.chain \in Seq(Command)
  BY DEF Thread
<1>2. Append(t.inbox, c) \in Seq(Command)
  BY <1>1
<1>3. /\ u \in Thread /\ u.inbox = Append(t.inbox, c)
      /\ u.chain = t.chain /\ u.mode = t.mode /\ u.run = t.run /\ u.permit = t.permit
      /\ u.out = t.out /\ u.stopped = t.stopped
  BY <1>2 DEF Inboxed, Thread
<1>4. /\ Len(t.chain \o t.inbox) \in Nat
      /\ Len(t.chain \o Append(t.inbox, c)) = Len(t.chain \o t.inbox) + 1
      /\ (t.chain \o Append(t.inbox, c))[Len(t.chain \o t.inbox) + 1] = c
      /\ \A i \in 1..Len(t.chain \o t.inbox) :
           (t.chain \o Append(t.inbox, c))[i] = (t.chain \o t.inbox)[i]
  <2> DEFINE a == t.chain
             b == t.inbox
             x == Append(b, c)
  <2>1. Len(a) \in Nat /\ Len(b) \in Nat /\ x \in Seq(Command) /\ Len(x) = Len(b) + 1
        /\ x[Len(b) + 1] = c /\ \A i \in 1..Len(b) : x[i] = b[i]
    BY <1>1
  <2>2. Len(a \o b) = Len(a) + Len(b)
        /\ \A i \in 1..Len(a) + Len(b) : (a \o b)[i] = IF i <= Len(a) THEN a[i] ELSE b[i - Len(a)]
    BY <1>1, ConcatProperties
  <2>3. Len(a \o x) = Len(a) + Len(x)
        /\ \A i \in 1..Len(a) + Len(x) : (a \o x)[i] = IF i <= Len(a) THEN a[i] ELSE x[i - Len(a)]
    BY <1>1, <2>1, ConcatProperties
  <2> HIDE DEF a, b, x
  <2>4. Len(a \o b) \in Nat /\ Len(a \o x) = Len(a \o b) + 1
    BY <2>1, <2>2, <2>3
  <2>5. (a \o x)[Len(a \o b) + 1] = c
    BY <2>1, <2>2, <2>3
  <2>6. \A i \in 1..Len(a \o b) : (a \o x)[i] = (a \o b)[i]
    BY <2>1, <2>2, <2>3
  <2> QED BY <2>4, <2>5, <2>6 DEF a, b, x
<1> QED BY <1>3, <1>4 DEF Commands

\* What is served stays served when a command is added behind it.
LEMMA ServedBehind ==
  ASSUME NEW c, NEW d, NEW m, Len(c) \in Nat, Len(d) = Len(c) + 1,
         \A i \in 1..Len(c) : d[i] = c[i], Served(c, m),
         IsRun(d, Len(c) + 1) =>
           /\ Finds(d, m, Len(c) + 1, d[Len(c) + 1].work.purpose)
           /\ d[Len(c) + 1].work.purpose = "PROOF_FINISHER" => Fresh(d, Len(c))
  PROVE  Served(d, m)
<1> SUFFICES ASSUME NEW i \in 1..Len(c) + 1, IsRun(d, i)
             PROVE  /\ Finds(d, m, i, d[i].work.purpose)
                    /\ d[i].work.purpose = "PROOF_FINISHER" => Fresh(d, i - 1)
  BY DEF Served
<1>1. CASE i = Len(c) + 1
  BY <1>1
<1>2. CASE i \in 1..Len(c)
  <2>1. IsRun(c, i) /\ d[i] = c[i]
    BY <1>2 DEF IsRun
  <2>2. Finds(c, m, i, d[i].work.purpose)
        /\ (d[i].work.purpose = "PROOF_FINISHER" => Fresh(c, i - 1))
    BY <1>2, <2>1 DEF Served
  <2>3. i \in Nat /\ i - 1 \in Nat /\ (\A k \in 1..i : d[k] = c[k])
        /\ (\A k \in 1..i - 1 : d[k] = c[k])
    BY <1>2
  <2>4. Finds(d, m, i, d[i].work.purpose)
    <3>1. \A x : Finds(c, m, i, x) => Finds(d, m, i, x)
      BY <2>3, PrefixKept
    <3> QED BY <2>2, <3>1
  <2>5. Fresh(c, i - 1) => Fresh(d, i - 1)
    BY <2>3, PrefixKept
  <2> QED BY <2>2, <2>4, <2>5
<1> QED BY <1>1, <1>2

LEMMA StopPosted ==
  ASSUME NEW t, ThreadFine(t), NEW c \in Command, c.type \in {"stop", "grant-split"}
  PROVE  LET u == Inboxed(t, c)
             n == Len(Commands(t))
         IN  /\ ThreadFine(u) /\ u.mode = t.mode /\ Len(Commands(u)) = n + 1
             /\ \A x : Finds(Commands(t), t.mode, n, x) => Finds(Commands(u), t.mode, n + 1, x)
             /\ Fresh(Commands(t), n) => Fresh(Commands(u), n + 1)
<1> DEFINE u == Inboxed(t, c)
           n == Len(Commands(t))
           d == Commands(u)
<1>1. t \in Thread
  BY DEF ThreadFine
<1>2. /\ u \in Thread
      /\ u.chain = t.chain /\ u.mode = t.mode /\ u.run = t.run /\ u.permit = t.permit
      /\ u.out = t.out
      /\ n \in Nat /\ Len(d) = n + 1 /\ d[n + 1] = c
      /\ \A i \in 1..n : d[i] = Commands(t)[i]
  BY <1>1, InboxedLast
<1>3. ~IsInit(d, n + 1) /\ ~IsRun(d, n + 1)
  BY <1>2 DEF IsInit, IsRun
<1> HIDE DEF u, d, n
<1>4. Served(d, t.mode)
  BY <1>2, <1>3, ServedBehind DEF ThreadFine, n
<1>5. ThreadFine(u)
  BY <1>2, <1>4 DEF ThreadFine, d
<1>6. /\ \A x : Finds(Commands(t), t.mode, n, x) => Finds(d, t.mode, n, x)
      /\ Fresh(Commands(t), n) => Fresh(d, n)
  BY <1>2, PrefixKept
<1>7. /\ \A x : Finds(d, t.mode, n, x) => Finds(d, t.mode, n + 1, x)
      /\ Fresh(d, n) => Fresh(d, n + 1)
  BY <1>2, <1>3, OneMore
<1> QED BY <1>2, <1>5, <1>6, <1>7 DEF u, d, n

LEMMA InitializePosted ==
  ASSUME NEW t, ThreadFine(t), NEW m \in Modes
  PROVE  LET u == Inboxed(t, [type |-> "initialize", mode |-> m])
         IN  /\ ThreadFine(u)
             /\ Finds(Commands(u), u.mode, Len(Commands(u)), m)
             /\ Fresh(Commands(u), Len(Commands(u)))
<1> DEFINE c == [type |-> "initialize", mode |-> m]
           u == Inboxed(t, c)
           n == Len(Commands(t))
           d == Commands(u)
<1>1. t \in Thread /\ c \in Command /\ c.type = "initialize" /\ c.mode = m
  BY DEF ThreadFine, Command
<1> HIDE DEF c
<1>2. /\ u \in Thread
      /\ u.chain = t.chain /\ u.mode = t.mode /\ u.run = t.run /\ u.permit = t.permit
      /\ u.out = t.out
      /\ n \in Nat /\ Len(d) = n + 1 /\ d[n + 1] = c
      /\ \A i \in 1..n : d[i] = Commands(t)[i]
  BY <1>1, InboxedLast
<1>3. IsInit(d, n + 1) /\ ~IsRun(d, n + 1)
  BY <1>1, <1>2 DEF IsInit, IsRun
<1> HIDE DEF u, d, n
<1>4. Served(d, t.mode)
  BY <1>2, <1>3, ServedBehind DEF ThreadFine, n
<1>5. ThreadFine(u)
  BY <1>2, <1>4 DEF ThreadFine, d
<1>6. Finds(d, u.mode, n + 1, m) /\ Fresh(d, n + 1)
  BY <1>1, <1>2, <1>3, OneInit
<1> QED BY <1>2, <1>5, <1>6 DEF u, d, n, c

LEMMA RunPosted ==
  ASSUME NEW t, ThreadFine(t), NEW w \in Work,
         Finds(Commands(t), t.mode, Len(Commands(t)), w.purpose),
         w.purpose = "PROOF_FINISHER" => Fresh(Commands(t), Len(Commands(t)))
  PROVE  LET u == Inboxed(t, [type |-> "run", work |-> w])
         IN  /\ ThreadFine(u)
             /\ Finds(Commands(u), u.mode, Len(Commands(u)), w.purpose)
<1> DEFINE c == [type |-> "run", work |-> w]
           u == Inboxed(t, c)
           n == Len(Commands(t))
           d == Commands(u)
<1>1. t \in Thread /\ c \in Command /\ c.type = "run" /\ c.work = w
  BY DEF ThreadFine, Command
<1> HIDE DEF c
<1>2. /\ u \in Thread
      /\ u.chain = t.chain /\ u.mode = t.mode /\ u.run = t.run /\ u.permit = t.permit
      /\ u.out = t.out
      /\ n \in Nat /\ Len(d) = n + 1 /\ d[n + 1] = c
      /\ \A i \in 1..n : d[i] = Commands(t)[i]
  BY <1>1, InboxedLast
<1>3. ~IsInit(d, n + 1)
  BY <1>1, <1>2 DEF IsInit
<1> HIDE DEF u, d, n
<1>4. /\ \A x : Finds(Commands(t), t.mode, n, x) => Finds(d, t.mode, n, x)
      /\ Fresh(Commands(t), n) => Fresh(d, n)
  BY <1>2, PrefixKept
<1>5. \A x : Finds(d, t.mode, n, x) => Finds(d, t.mode, n + 1, x)
  BY <1>2, <1>3, OneMore
<1>6. Finds(d, t.mode, n + 1, w.purpose) /\ (w.purpose = "PROOF_FINISHER" => Fresh(d, n))
  BY <1>4, <1>5 DEF n
<1>7. Served(d, t.mode)
  BY <1>1, <1>2, <1>6, ServedBehind DEF ThreadFine, n
<1>8. ThreadFine(u)
  BY <1>2, <1>7 DEF ThreadFine, d
<1> QED BY <1>2, <1>6, <1>8 DEF u, d, n, c

-----------------------------------------------------------------------------
(* Seats.                                                                  *)

\* No work is no task under a lease.
LEMMA NotWork == NoWork \notin Work /\ \A w \in Work : w.purpose \in Modes
BY DEF NoWork, Work, Modes

LEMMA PostedSeat ==
  ASSUME NEW e \in Seat, NEW c \in Command
  PROVE  LET f == Posted(e, c)
         IN  /\ f \in Seat /\ f.thread = Inboxed(e.thread, c)
             /\ f.ready = e.ready /\ f.mode = e.mode /\ f.work = e.work
             /\ f.waiting = e.waiting /\ f.mutation = e.mutation
<1>1. Inboxed(e.thread, c) \in Thread
  BY InboxedLast DEF Seat
<1>2. Posted(e, c) = [e EXCEPT !.thread = Inboxed(e.thread, c)]
  BY DEF Posted, Inboxed, Seat
<1> QED BY <1>1, <1>2 DEF Seat

\* A stop, or a permit, leaves a seat as it is.
LEMMA StoppedSeat ==
  ASSUME NEW e, SeatFine(e), NEW c \in Command, c.type \in {"stop", "grant-split"}
  PROVE  LET f == Posted(e, c)
         IN  /\ SeatFine(f) /\ f.work = e.work /\ f.mutation = e.mutation
             /\ f.ready = e.ready /\ f.waiting = e.waiting /\ f.mode = e.mode
<1> DEFINE f == Posted(e, c)
           u == Inboxed(e.thread, c)
<1>1. e \in Seat /\ ThreadFine(e.thread)
  BY DEF SeatFine
<1>2. /\ f \in Seat /\ f.thread = u /\ f.ready = e.ready /\ f.mode = e.mode
      /\ f.work = e.work /\ f.waiting = e.waiting /\ f.mutation = e.mutation
  BY <1>1, PostedSeat
<1>3. /\ ThreadFine(u) /\ u.mode = e.thread.mode
      /\ Len(Commands(u)) = Len(Commands(e.thread)) + 1
      /\ \A x : Finds(Commands(e.thread), e.thread.mode, Len(Commands(e.thread)), x)
                  => Finds(Commands(u), u.mode, Len(Commands(u)), x)
      /\ Fresh(Commands(e.thread), Len(Commands(e.thread)))
                  => Fresh(Commands(u), Len(Commands(u)))
  BY <1>1, StopPosted
<1> HIDE DEF f, u
<1>4. SeatFine(f)
  BY <1>2, <1>3 DEF SeatFine
<1> QED BY <1>2, <1>4 DEF f

\* An initialisation makes a seat for the tasks of its kind.
LEMMA InitializedSeat ==
  ASSUME NEW e \in Seat, ThreadFine(e.thread), NEW m \in Modes,
         e.work # NoWork => e.work.purpose = m
  PROVE  LET f == InitializeSlot(e, m)
         IN  /\ SeatFine(f) /\ f.work = e.work /\ f.mutation = e.mutation
<1> DEFINE c == [type |-> "initialize", mode |-> m]
           g == [e EXCEPT !.ready = FALSE, !.mode = m]
           f == Posted(g, c)
           u == Inboxed(e.thread, c)
<1>1. /\ g \in Seat /\ g.thread = e.thread /\ g.mode = m /\ g.work = e.work
      /\ g.mutation = e.mutation
  BY DEF Seat
<1>2. c \in Command
  BY DEF Command
<1> HIDE DEF c, g
<1>3. f \in Seat /\ f.thread = u /\ f.mode = m /\ f.work = e.work /\ f.mutation = e.mutation
  BY <1>1, <1>2, PostedSeat
<1>4. /\ ThreadFine(u)
      /\ Finds(Commands(u), u.mode, Len(Commands(u)), m)
      /\ Fresh(Commands(u), Len(Commands(u)))
  BY InitializePosted DEF c
<1> HIDE DEF f, u
<1>5. SeatFine(f)
  BY <1>3, <1>4 DEF SeatFine
<1> QED BY <1>3, <1>5 DEF InitializeSlot, f, g, c

\* So does a run, of a search or right behind its initialisation.
LEMMA StartedSeat ==
  ASSUME NEW e, SeatFine(e), e.mode = "PROOF_FINISHER" =>
           ~e.waiting /\ Fresh(Commands(e.thread), Len(Commands(e.thread)))
  PROVE  LET f == StartWorkerTask(e)
         IN  /\ SeatFine(f) /\ f.work = e.work /\ f.mutation = e.mutation
             /\ f.ready = e.ready /\ f.mode = e.mode /\ f.waiting = e.waiting
<1>1. CASE ~(e.ready /\ e.work # NoWork)
  BY <1>1 DEF StartWorkerTask
<1>2. CASE e.ready /\ e.work # NoWork
  <2> DEFINE c == [type |-> "run", work |-> e.work]
             f == Posted(e, c)
             u == Inboxed(e.thread, c)
  <2>1. e \in Seat /\ ThreadFine(e.thread) /\ e.work \in Work
        /\ Finds(Commands(e.thread), e.thread.mode, Len(Commands(e.thread)), e.work.purpose)
        /\ e.work.purpose = e.mode
    BY <1>2 DEF SeatFine, Seat, MaybeWork
  <2>2. c \in Command
    BY <2>1 DEF Command
  <2>3. /\ f \in Seat /\ f.thread = u /\ f.ready = e.ready /\ f.mode = e.mode
        /\ f.work = e.work /\ f.waiting = e.waiting /\ f.mutation = e.mutation
    BY <2>1, <2>2, PostedSeat
  <2>4. ThreadFine(u) /\ Finds(Commands(u), u.mode, Len(Commands(u)), e.work.purpose)
    BY <2>1, RunPosted
  <2> HIDE DEF f, u
  <2>5. SeatFine(f)
    BY <2>1, <2>3, <2>4 DEF SeatFine
  <2> QED BY <1>2, <2>3, <2>5 DEF StartWorkerTask, f
<1> QED BY <1>1, <1>2

\* A seat without its task, and without its mutation, is a seat.
LEMMA FreedSeat ==
  ASSUME NEW e, SeatFine(e)
  PROVE  LET f == Freed(e)
         IN  SeatFine(f) /\ f.work = NoWork /\ ~f.waiting /\ f.mutation = e.mutation
<1> DEFINE f == Freed(e)
<1>1. e \in Seat /\ NoWork \in MaybeWork
  BY DEF SeatFine, MaybeWork
<1>2. /\ f \in Seat /\ f.thread = e.thread /\ f.mode = e.mode /\ f.work = NoWork
      /\ f.waiting = FALSE /\ f.mutation = e.mutation
  BY <1>1 DEF Freed, Seat
<1> HIDE DEF f
<1>3. SeatFine(f)
  BY <1>2 DEF SeatFine
<1> QED BY <1>2, <1>3 DEF f

LEMMA MutedSeat ==
  ASSUME NEW e, SeatFine(e), NEW n \in Nat
  PROVE  LET f == [e EXCEPT !.mutation = n]
         IN  /\ SeatFine(f) /\ f.work = e.work /\ f.mutation = n
             /\ f.waiting = e.waiting /\ f.mode = e.mode /\ f.thread = e.thread
             /\ f.ready = e.ready
<1> DEFINE f == [e EXCEPT !.mutation = n]
<1>1. /\ f \in Seat /\ f.thread = e.thread /\ f.mode = e.mode /\ f.work = e.work
      /\ f.waiting = e.waiting /\ f.mutation = n /\ f.ready = e.ready
  BY DEF SeatFine, Seat
<1> HIDE DEF f
<1>2. SeatFine(f)
  BY <1>1 DEF SeatFine
<1> QED BY <1>1, <1>2 DEF f

LEMMA ReleasedSeat ==
  ASSUME NEW e, SeatFine(e)
  PROVE  LET f == StopAndRelease(e)
         IN  SeatFine(f) /\ f.work = NoWork /\ ~f.waiting /\ f.mutation = e.mutation
<1> DEFINE g == Halted(e)
<1>1. SeatFine(g) /\ g.mutation = e.mutation
  <2>1. [type |-> "stop"] \in Command
    BY DEF Command
  <2> QED BY <2>1, StoppedSeat DEF Halted
<1> HIDE DEF g
<1> QED BY <1>1, FreedSeat DEF StopAndRelease, g

\* The task a seat is given is run at once or after an initialisation.
LEMMA ReplacedSeat ==
  ASSUME NEW e, SeatFine(e), NEW w \in Work
  PROVE  LET f == ReplaceSlotWork(e, w)
         IN  SeatFine(f) /\ f.work = w /\ f.mutation = 0
<1> DEFINE a == [e EXCEPT !.mutation = 0]
           b == StopAndRelease(a)
           f == [b EXCEPT !.work = w, !.waiting = FALSE]
<1>1. SeatFine(a) /\ a.mutation = 0
  BY MutedSeat
<1> HIDE DEF a
<1>2. SeatFine(b) /\ b.work = NoWork /\ b.mutation = 0
  BY <1>1, ReleasedSeat
<1>3. w \in MaybeWork /\ w # NoWork /\ w.purpose \in Modes
  BY NotWork DEF MaybeWork
<1>4. ReplaceSlotWork(e, w) = RunTask(b, w)
  BY DEF ReplaceSlotWork, StopAndRelease, a
<1> HIDE DEF b
<1>5. b \in Seat /\ ThreadFine(b.thread)
  BY <1>2 DEF SeatFine
<1>6. /\ f \in Seat /\ f.thread = b.thread /\ f.work = w /\ ~f.waiting /\ f.mutation = 0
      /\ f.mode = b.mode /\ f.ready = b.ready
  BY <1>2, <1>3, <1>5 DEF Seat
<1> HIDE DEF f
<1>7. CASE w.purpose = "PROOF_FINISHER" \/ f.mode # w.purpose \/ ~f.ready
  <2> DEFINE g == [f EXCEPT !.waiting = TRUE]
  <2>1. g \in Seat /\ g.thread = f.thread /\ g.work = w /\ g.mutation = 0
    BY <1>6 DEF Seat
  <2> HIDE DEF g
  <2>2. SeatFine(InitializeSlot(g, w.purpose)) /\ InitializeSlot(g, w.purpose).work = w
        /\ InitializeSlot(g, w.purpose).mutation = 0
    BY <1>3, <1>5, <1>6, <2>1, InitializedSeat
  <2>3. RunTask(b, w) = InitializeSlot(g, w.purpose)
    BY <1>7 DEF RunTask, f, g
  <2> QED BY <1>4, <2>2, <2>3
<1>8. CASE ~(w.purpose = "PROOF_FINISHER" \/ f.mode # w.purpose \/ ~f.ready)
  <2>1. f.mode = w.purpose /\ f.mode # "PROOF_FINISHER"
    BY <1>8
  <2>2. SeatFine(f)
    BY <1>2, <1>6, <2>1 DEF SeatFine
  <2>3. SeatFine(StartWorkerTask(f)) /\ StartWorkerTask(f).work = w
        /\ StartWorkerTask(f).mutation = 0
    BY <1>6, <2>1, <2>2, StartedSeat
  <2>4. RunTask(b, w) = StartWorkerTask(f)
    BY <1>8 DEF RunTask, f
  <2> QED BY <1>4, <2>3, <2>4
<1> QED BY <1>7, <1>8

\* A new seat.
LEMMA FirstSeat ==
  LET f == InitializeSlot(NewSeat, "SEARCH")
  IN  SeatFine(f) /\ f.work = NoWork /\ f.mutation = 0
<1>1. NewThread \in Thread /\ NewThread.chain = <<>> /\ NewThread.inbox = <<>>
      /\ NewThread.out = <<>> /\ NewThread.run = NoWork /\ ~NewThread.permit
  BY DEF NewThread, Thread
<1>2. Commands(NewThread) = <<>>
  BY <1>1 DEF Commands
<1>3. ThreadFine(NewThread)
  BY <1>1, <1>2 DEF ThreadFine, Served
<1>4. /\ NewSeat \in Seat /\ NewSeat.thread = NewThread /\ NewSeat.work = NoWork
      /\ NewSeat.mutation = 0 /\ "SEARCH" \in Modes
  BY <1>1 DEF NewSeat, Seat, Modes, MaybeWork
<1> QED BY <1>3, <1>4, InitializedSeat

-----------------------------------------------------------------------------
(* Threads: what the worker takes.                                         *)

\* d is c without the command at position p.
Without(c, p, d) ==
  /\ Len(c) \in Nat /\ p \in 1..Len(c) /\ Len(d) = Len(c) - 1
  /\ \A i \in 1..Len(d) : d[i] = IF i < p THEN c[i] ELSE c[i + 1]

\* Nothing changes for the commands behind one that is no initialisation, ...
LEMMA Squeezed ==
  ASSUME NEW c, NEW d, NEW p, Without(c, p, d), ~IsInit(c, p), NEW i \in p - 1..Len(d)
  PROVE  /\ \A m, x : Finds(c, m, i + 1, x) => Finds(d, m, i, x)
         /\ Fresh(c, i + 1) => Fresh(d, i)
<1>1. /\ Len(c) \in Nat /\ p \in 1..Len(c) /\ Len(d) = Len(c) - 1 /\ i \in Nat /\ i <= Len(d)
      /\ p <= i + 1
  BY DEF Without
<1>2. \A k \in 1..i : /\ k < p => d[k] = c[k]
                      /\ k >= p => d[k] = c[k + 1]
  <2> TAKE k \in 1..i
  <2>1. k \in 1..Len(d) /\ (k >= p <=> ~(k < p))
    BY <1>1
  <2> QED BY <2>1 DEF Without
<1>3. ASSUME NEW m, NEW x, Finds(c, m, i + 1, x) PROVE Finds(d, m, i, x)
  <2>1. PICK j \in 0..i + 1 : /\ IF j = 0 THEN x = m ELSE IsInit(c, j) /\ x = c[j].mode
                              /\ \A k \in 1..i + 1 : k > j => ~IsInit(c, k)
    BY <1>3 DEF Finds
  <2>2. j # p
    BY <1>1, <2>1
  <2>3. CASE j < p
    <3>1. j \in 0..i /\ (IF j = 0 THEN x = m ELSE IsInit(d, j) /\ x = d[j].mode)
      BY <1>1, <1>2, <2>1, <2>3 DEF IsInit
    <3>2. ASSUME NEW k \in 1..i, k > j PROVE ~IsInit(d, k)
      <4>1. k \in 1..i + 1 /\ k + 1 \in 1..i + 1 /\ k + 1 > j
        BY <1>1, <2>1, <3>2
      <4>2. ~IsInit(c, k) /\ ~IsInit(c, k + 1)
        BY <2>1, <3>2, <4>1
      <4>3. d[k] = c[k] \/ d[k] = c[k + 1]
        BY <1>1, <1>2
      <4> QED BY <4>2, <4>3 DEF IsInit
    <3> QED BY <3>1, <3>2 DEF Finds
  <2>4. CASE j > p
    <3>1. j - 1 \in 1..i /\ d[j - 1] = c[j]
      BY <1>1, <1>2, <2>1, <2>4
    <3>2. j - 1 # 0 /\ IsInit(d, j - 1) /\ x = d[j - 1].mode
      BY <1>1, <2>1, <2>4, <3>1 DEF IsInit
    <3>3. \A k \in 1..i : k > j - 1 => ~IsInit(d, k)
      BY <1>1, <1>2, <2>1, <2>4 DEF IsInit
    <3> QED BY <3>1, <3>2, <3>3 DEF Finds
  <2> QED BY <1>1, <2>1, <2>2, <2>3, <2>4
<1>4. ASSUME Fresh(c, i + 1) PROVE Fresh(d, i)
  <2> SUFFICES ASSUME NEW k \in 1..i, IsRun(d, k) PROVE \E j \in k..i : IsInit(d, j)
    BY DEF Fresh
  <2> DEFINE o == IF k < p THEN k ELSE k + 1
  <2>1. o \in 1..i + 1 /\ IsRun(c, o)
    BY <1>1, <1>2 DEF IsRun
  <2>2. PICK j \in o..i + 1 : IsInit(c, j)
    BY <1>4, <2>1 DEF Fresh
  <2>3. j # p
    BY <2>2
  <2>4. CASE j < p
    <3>1. j \in k..i /\ d[j] = c[j]
      BY <1>1, <1>2, <2>2, <2>4
    <3> QED BY <2>2, <3>1 DEF IsInit
  <2>5. CASE j > p
    <3>1. j - 1 \in k..i /\ d[j - 1] = c[j]
      BY <1>1, <1>2, <2>1, <2>2, <2>5
    <3> QED BY <2>2, <3>1 DEF IsInit
  <2> QED BY <1>1, <2>2, <2>3, <2>4, <2>5
<1> QED BY <1>3, <1>4

\* ... and a worker that takes an initialisation has a solver for what follows.
LEMMA Opened ==
  ASSUME NEW c, NEW d, Without(c, 1, d), IsInit(c, 1), NEW i \in 0..Len(d)
  PROVE  /\ \A m, x : Finds(c, m, i + 1, x) => Finds(d, c[1].mode, i, x)
         /\ Fresh(c, i + 1) => Fresh(d, i)
<1>1. Len(c) \in Nat /\ Len(d) = Len(c) - 1 /\ i \in Nat /\ i <= Len(d) /\ 1 <= Len(c)
  BY DEF Without
<1>2. \A k \in 1..i : d[k] = c[k + 1]
  <2> SUFFICES ASSUME NEW k \in 1..i PROVE d[k] = c[k + 1]
    OBVIOUS
  <2>1. k \in 1..Len(d) /\ ~(k < 1)
    BY <1>1
  <2> QED BY <2>1 DEF Without
<1>3. ASSUME NEW m, NEW x, Finds(c, m, i + 1, x) PROVE Finds(d, c[1].mode, i, x)
  <2>1. PICK j \in 0..i + 1 : /\ IF j = 0 THEN x = m ELSE IsInit(c, j) /\ x = c[j].mode
                              /\ \A k \in 1..i + 1 : k > j => ~IsInit(c, k)
    BY <1>3 DEF Finds
  <2>2. j >= 1
    BY <1>1, <2>1
  <2>3. \A k \in 1..i : k > j - 1 => ~IsInit(d, k)
    BY <1>1, <1>2, <2>1 DEF IsInit
  <2>4. j - 1 \in 0..i
    BY <2>2
  <2>5. IF j - 1 = 0 THEN x = c[1].mode ELSE IsInit(d, j - 1) /\ x = d[j - 1].mode
    BY <1>1, <1>2, <2>1, <2>2 DEF IsInit
  <2> QED BY <2>3, <2>4, <2>5 DEF Finds
<1>4. ASSUME Fresh(c, i + 1) PROVE Fresh(d, i)
  <2> SUFFICES ASSUME NEW k \in 1..i, IsRun(d, k) PROVE \E j \in k..i : IsInit(d, j)
    BY DEF Fresh
  <2>1. k + 1 \in 1..i + 1 /\ IsRun(c, k + 1)
    BY <1>1, <1>2 DEF IsRun
  <2>2. PICK j \in k + 1..i + 1 : IsInit(c, j)
    BY <1>4, <2>1 DEF Fresh
  <2>3. j - 1 \in k..i /\ d[j - 1] = c[j]
    BY <1>1, <1>2, <2>2
  <2> QED BY <2>2, <2>3 DEF IsInit
<1> QED BY <1>3, <1>4

\* So what is served is served without a command that is no initialisation, ...
LEMMA ServedWithout ==
  ASSUME NEW c, NEW d, NEW p, Without(c, p, d), ~IsInit(c, p), NEW m, Served(c, m)
  PROVE  Served(d, m)
<1> SUFFICES ASSUME NEW i \in 1..Len(d), IsRun(d, i)
             PROVE  /\ Finds(d, m, i, d[i].work.purpose)
                    /\ d[i].work.purpose = "PROOF_FINISHER" => Fresh(d, i - 1)
  BY DEF Served
<1>1. /\ Len(c) \in Nat /\ p \in 1..Len(c) /\ Len(d) = Len(c) - 1 /\ i \in Nat /\ i <= Len(d)
  BY DEF Without
<1>2. CASE i < p
  <2>1. d[i] = c[i] /\ i \in 1..Len(c) /\ IsRun(c, i)
    BY <1>1, <1>2 DEF Without, IsRun
  <2>2. Finds(c, m, i, d[i].work.purpose)
        /\ (d[i].work.purpose = "PROOF_FINISHER" => Fresh(c, i - 1))
    BY <2>1 DEF Served
  <2>3. i - 1 \in Nat /\ (\A k \in 1..i : d[k] = c[k]) /\ (\A k \in 1..i - 1 : d[k] = c[k])
    <3>1. \A k \in 1..i : k \in 1..Len(d) /\ k < p
      BY <1>1, <1>2
    <3>2. \A k \in 1..i : d[k] = c[k]
      BY <3>1 DEF Without
    <3> QED BY <1>1, <3>2
  <2>4. \A x : Finds(c, m, i, x) => Finds(d, m, i, x)
    BY <1>1, <2>3, PrefixKept
  <2>5. Fresh(c, i - 1) => Fresh(d, i - 1)
    BY <2>3, PrefixKept
  <2> QED BY <2>2, <2>4, <2>5
<1>3. CASE i >= p
  <2>1. d[i] = c[i + 1] /\ i + 1 \in 1..Len(c) /\ IsRun(c, i + 1)
    BY <1>1, <1>3 DEF Without, IsRun
  <2>2. Finds(c, m, i + 1, d[i].work.purpose)
        /\ (d[i].work.purpose = "PROOF_FINISHER" => Fresh(c, i))
    BY <1>1, <2>1 DEF Served
  <2>3. \A x : Finds(c, m, i + 1, x) => Finds(d, m, i, x)
    <3>1. i \in p - 1..Len(d)
      BY <1>1, <1>3
    <3> QED BY <3>1, Squeezed
  <2>4. Fresh(c, i) => Fresh(d, i - 1)
    <3>1. i - 1 \in p - 1..Len(d) /\ (i - 1) + 1 = i
      BY <1>1, <1>3
    <3>2. Fresh(c, (i - 1) + 1) => Fresh(d, i - 1)
      BY <3>1, Squeezed
    <3> QED BY <3>1, <3>2
  <2> QED BY <2>2, <2>3, <2>4
<1> QED BY <1>1, <1>2, <1>3

\* ... and behind one by the solver made then.
LEMMA ServedOpened ==
  ASSUME NEW c, NEW d, Without(c, 1, d), IsInit(c, 1), NEW m, Served(c, m)
  PROVE  Served(d, c[1].mode)
<1> SUFFICES ASSUME NEW i \in 1..Len(d), IsRun(d, i)
             PROVE  /\ Finds(d, c[1].mode, i, d[i].work.purpose)
                    /\ d[i].work.purpose = "PROOF_FINISHER" => Fresh(d, i - 1)
  BY DEF Served
<1>1. Len(c) \in Nat /\ Len(d) = Len(c) - 1 /\ i \in Nat /\ i <= Len(d) /\ i >= 1
  BY DEF Without
<1>2. d[i] = c[i + 1] /\ i + 1 \in 1..Len(c) /\ IsRun(c, i + 1)
  <2>1. i \in 1..Len(d) /\ ~(i < 1) /\ i + 1 \in 1..Len(c)
    BY <1>1
  <2>2. d[i] = c[i + 1]
    BY <2>1 DEF Without
  <2> QED BY <2>1, <2>2 DEF IsRun
<1>3. Finds(c, m, i + 1, d[i].work.purpose)
      /\ (d[i].work.purpose = "PROOF_FINISHER" => Fresh(c, i))
  BY <1>1, <1>2 DEF Served
<1>4. \A x : Finds(c, m, i + 1, x) => Finds(d, c[1].mode, i, x)
  <2>1. i \in 0..Len(d)
    BY <1>1
  <2> QED BY <2>1, Opened
<1>5. Fresh(c, i) => Fresh(d, i - 1)
  <2>1. i - 1 \in 0..Len(d) /\ (i - 1) + 1 = i
    BY <1>1
  <2>2. Fresh(c, (i - 1) + 1) => Fresh(d, i - 1)
    BY <2>1, Opened
  <2> QED BY <2>1, <2>2
<1> QED BY <1>3, <1>4, <1>5

-----------------------------------------------------------------------------
(* Threads: the worker's steps.                                            *)

\* A thread with the same queue ahead, as far as its seat is concerned.
Keeps(t, u) ==
  /\ ThreadFine(u)
  /\ \A x \in Modes : Finds(Commands(t), t.mode, Len(Commands(t)), x)
                        => Finds(Commands(u), u.mode, Len(Commands(u)), x)
  /\ Fresh(Commands(t), Len(Commands(t))) => Fresh(Commands(u), Len(Commands(u)))

\* What becomes of the queue when an event is delivered or an operation begins.
LEMMA QueueMoves ==
  ASSUME NEW S, NEW a \in Seq(S), NEW b \in Seq(S)
  PROVE  /\ Len(a \o b) \in Nat
         /\ b # <<>> => /\ Without(a \o b, Len(a) + 1, a \o Tail(b))
                        /\ (a \o b)[Len(a) + 1] = Head(b)
                        /\ Append(a, Head(b)) \o Tail(b) = a \o b
                        /\ Tail(b) \in Seq(S) /\ Head(b) \in S
         /\ a # <<>> => /\ Without(a \o b, 1, Tail(a) \o b)
                        /\ (a \o b)[1] = Head(a) /\ Head(a) = a[1]
                        /\ Tail(a) \in Seq(S) /\ Head(a) \in S
                        /\ \A i \in 1..Len(Tail(a)) : Tail(a)[i] = a[i + 1]
<1>1. /\ Len(a) \in Nat /\ Len(b) \in Nat /\ a \o b \in Seq(S) /\ Len(a \o b) = Len(a) + Len(b)
      /\ \A i \in 1..Len(a) + Len(b) : (a \o b)[i] = IF i <= Len(a) THEN a[i] ELSE b[i - Len(a)]
  BY ConcatProperties, LenProperties
<1>2. ASSUME b # <<>>
      PROVE  /\ Without(a \o b, Len(a) + 1, a \o Tail(b))
             /\ (a \o b)[Len(a) + 1] = Head(b)
             /\ Append(a, Head(b)) \o Tail(b) = a \o b
             /\ Tail(b) \in Seq(S) /\ Head(b) \in S
  <2> DEFINE r == Tail(b)
             h == Head(b)
             x == Append(a, h)
  <2>1. /\ r \in Seq(S) /\ Len(r) = Len(b) - 1 /\ h \in S /\ h = b[1] /\ Len(b) >= 1
        /\ \A i \in 1..Len(r) : r[i] = b[i + 1]
    BY <1>2, HeadTailProperties, EmptySeq
  <2>2. x \in Seq(S) /\ Len(x) = Len(a) + 1 /\ x[Len(a) + 1] = h /\ \A i \in 1..Len(a) : x[i] = a[i]
    BY <2>1
  <2> HIDE DEF r, h, x
  <2>3. /\ Len(a \o r) = Len(a) + Len(r)
        /\ \A i \in 1..Len(a) + Len(r) : (a \o r)[i] = IF i <= Len(a) THEN a[i] ELSE r[i - Len(a)]
    BY <2>1, ConcatProperties
  <2>4. /\ x \o r \in Seq(S) /\ Len(x \o r) = Len(x) + Len(r)
        /\ \A i \in 1..Len(x) + Len(r) : (x \o r)[i] = IF i <= Len(x) THEN x[i] ELSE r[i - Len(x)]
    BY <2>1, <2>2, ConcatProperties
  <2>5. (a \o b)[Len(a) + 1] = h
    BY <1>1, <2>1
  <2>6. Without(a \o b, Len(a) + 1, a \o r)
    <3>1. \A i \in 1..Len(a \o r) :
            (a \o r)[i] = IF i < Len(a) + 1 THEN (a \o b)[i] ELSE (a \o b)[i + 1]
      <4> TAKE i \in 1..Len(a \o r)
      <4>1. CASE i <= Len(a)
        BY <1>1, <2>1, <2>3, <4>1
      <4>2. CASE i > Len(a)
        <5>1. (a \o r)[i] = r[i - Len(a)] /\ (a \o b)[i + 1] = b[(i + 1) - Len(a)]
          BY <1>1, <2>1, <2>3, <4>2
        <5>2. PICK n \in 1..Len(r) : n = i - Len(a) /\ n + 1 = (i + 1) - Len(a)
          <6>1. i - Len(a) \in 1..Len(r) /\ (i - Len(a)) + 1 = (i + 1) - Len(a)
            BY <1>1, <2>1, <2>3, <4>2
          <6> QED BY <6>1
        <5>3. r[n] = b[n + 1] /\ ~(i < Len(a) + 1)
          BY <1>1, <2>1, <4>2
        <5> QED BY <5>1, <5>2, <5>3
      <4>3. i <= Len(a) \/ i > Len(a)
        BY <1>1, <2>1, <2>3
      <4> QED BY <4>1, <4>2, <4>3
    <3> QED BY <1>1, <2>1, <2>3, <3>1 DEF Without
  <2>7. x \o r = a \o b
    <3>1. Len(x \o r) = Len(a \o b)
      BY <1>1, <2>1, <2>2, <2>4
    <3>2. \A i \in 1..Len(x \o r) : (x \o r)[i] = (a \o b)[i]
      <4> TAKE i \in 1..Len(x \o r)
      <4>1. CASE i <= Len(a)
        BY <1>1, <2>1, <2>2, <2>4, <4>1
      <4>2. CASE i = Len(a) + 1
        BY <1>1, <2>1, <2>2, <2>4, <2>5, <4>2
      <4>3. CASE i > Len(a) + 1
        <5>1. (x \o r)[i] = r[i - Len(x)] /\ (a \o b)[i] = b[i - Len(a)]
          BY <1>1, <2>1, <2>2, <2>4, <4>3
        <5>2. i - Len(x) \in 1..Len(r) /\ (i - Len(x)) + 1 = i - Len(a)
          BY <1>1, <2>1, <2>2, <2>4, <4>3
        <5> QED BY <2>1, <5>1, <5>2
      <4>4. i <= Len(a) \/ i = Len(a) + 1 \/ i > Len(a) + 1
        BY <1>1, <2>1, <2>2, <2>4
      <4> QED BY <4>1, <4>2, <4>3, <4>4
    <3> QED BY <1>1, <2>4, <3>1, <3>2, SeqEqual
  <2> QED BY <2>1, <2>5, <2>6, <2>7 DEF r, h, x
<1>3. ASSUME a # <<>>
      PROVE  /\ Without(a \o b, 1, Tail(a) \o b)
             /\ (a \o b)[1] = Head(a) /\ Head(a) = a[1]
             /\ Tail(a) \in Seq(S) /\ Head(a) \in S
             /\ \A i \in 1..Len(Tail(a)) : Tail(a)[i] = a[i + 1]
  <2> DEFINE r == Tail(a)
  <2>1. /\ r \in Seq(S) /\ Len(r) = Len(a) - 1 /\ Head(a) \in S /\ Head(a) = a[1] /\ Len(a) >= 1
        /\ \A i \in 1..Len(r) : r[i] = a[i + 1]
    BY <1>3, HeadTailProperties, EmptySeq
  <2> HIDE DEF r
  <2>2. /\ Len(r \o b) = Len(r) + Len(b)
        /\ \A i \in 1..Len(r) + Len(b) : (r \o b)[i] = IF i <= Len(r) THEN r[i] ELSE b[i - Len(r)]
    BY <2>1, ConcatProperties
  <2>3. (a \o b)[1] = Head(a)
    BY <1>1, <2>1
  <2>4. Without(a \o b, 1, r \o b)
    <3>1. \A i \in 1..Len(r \o b) : (r \o b)[i] = (a \o b)[i + 1] /\ ~(i < 1)
      <4> TAKE i \in 1..Len(r \o b)
      <4>1. CASE i <= Len(r)
        BY <1>1, <2>1, <2>2, <4>1
      <4>2. CASE i > Len(r)
        <5>1. (r \o b)[i] = b[i - Len(r)] /\ (a \o b)[i + 1] = b[(i + 1) - Len(a)]
          BY <1>1, <2>1, <2>2, <4>2
        <5>2. i - Len(r) = (i + 1) - Len(a)
          BY <1>1, <2>1, <2>2, <4>2
        <5>3. ~(i < 1)
          BY <1>1, <2>1, <2>2
        <5> QED BY <5>1, <5>2, <5>3
      <4>3. i \in Nat
        BY <1>1, <2>1, <2>2
      <4> QED BY <1>1, <2>1, <4>1, <4>2, <4>3
    <3> QED BY <1>1, <2>1, <2>2, <3>1 DEF Without
  <2> QED BY <2>1, <2>3, <2>4 DEF r
<1>4. Len(a \o b) \in Nat
  BY <1>1
<1> QED BY <1>2, <1>3, <1>4

\* Whatever leaves the queue alone.
LEMMA SameQueue ==
  ASSUME NEW t, ThreadFine(t), NEW u \in Thread,
         u.chain = t.chain, u.inbox = t.inbox, u.mode = t.mode,
         u.run # NoWork => u.run.purpose = u.mode, u.permit => u.mode = "SEARCH",
         \A i \in 1..Len(u.out) : u.out[i].type = "split" => u.out[i].work.purpose = "SEARCH"
  PROVE  Keeps(t, u)
<1>1. Commands(u) = Commands(t)
  BY DEF Commands
<1> QED BY <1>1 DEF ThreadFine, Keeps

\* Keeping is transitive.
LEMMA KeepsOn ==
  ASSUME NEW t, NEW u, NEW v, Keeps(t, u), Keeps(u, v)
  PROVE  Keeps(t, v)
BY DEF Keeps

\* The listener: an event that is handled at once, or joins the operations.
LEMMA DeliveredKeeps ==
  ASSUME NEW t, ThreadFine(t), t.inbox # <<>>
  PROVE  Keeps(t, Delivered(t))
<1> DEFINE c == Head(t.inbox)
           u == [t EXCEPT !.inbox = Tail(@)]
<1>1. t \in Thread /\ t.inbox \in Seq(Command) /\ t.chain \in Seq(Command)
  BY DEF ThreadFine, Thread
<1>2. /\ Len(Commands(t)) \in Nat
      /\ Without(Commands(t), Len(t.chain) + 1, t.chain \o Tail(t.inbox))
      /\ Commands(t)[Len(t.chain) + 1] = c
      /\ Append(t.chain, c) \o Tail(t.inbox) = Commands(t)
      /\ Tail(t.inbox) \in Seq(Command) /\ c \in Command
  <2> DEFINE a == t.chain
             b == t.inbox
  <2>1. a \in Seq(Command) /\ b \in Seq(Command) /\ b # <<>>
    BY <1>1
  <2> HIDE DEF a, b
  <2>2. /\ Len(a \o b) \in Nat /\ Without(a \o b, Len(a) + 1, a \o Tail(b))
        /\ (a \o b)[Len(a) + 1] = Head(b) /\ Append(a, Head(b)) \o Tail(b) = a \o b
        /\ Tail(b) \in Seq(Command) /\ Head(b) \in Command
    BY <2>1, QueueMoves, ZenonT(60)
  <2> QED BY <2>2 DEF a, b, Commands
<1>3. /\ u \in Thread /\ u.inbox = Tail(t.inbox) /\ u.chain = t.chain /\ u.mode = t.mode
      /\ u.run = t.run /\ u.permit = t.permit /\ u.out = t.out /\ u.stopped = t.stopped
  BY <1>1, <1>2 DEF Thread
<1> HIDE DEF u
<1>4. CASE c.type \in {"stop", "grant-split"}
  <2> DEFINE n == Len(Commands(t))
             p == Len(t.chain) + 1
             d == Commands(u)
  <2>1. ~IsInit(Commands(t), p) /\ Without(Commands(t), p, d)
    BY <1>2, <1>3, <1>4 DEF IsInit, Commands
  <2>2. n \in Nat /\ p \in 1..n /\ Len(d) = n - 1
    BY <1>2, <2>1 DEF Without
  <2>3. n - 1 \in p - 1..Len(d) /\ (n - 1) + 1 = n
    BY <2>2
  <2> HIDE DEF d
  <2>4. /\ \A m, x : Finds(Commands(t), m, n, x) => Finds(d, m, n - 1, x)
        /\ Fresh(Commands(t), n) => Fresh(d, n - 1)
    <3>1. /\ \A m, x : Finds(Commands(t), m, (n - 1) + 1, x) => Finds(d, m, n - 1, x)
          /\ Fresh(Commands(t), (n - 1) + 1) => Fresh(d, n - 1)
      BY <2>1, <2>3, Squeezed
    <3> QED BY <2>3, <3>1
  <2>5. Served(d, t.mode)
    BY <2>1, ServedWithout DEF ThreadFine
  <2>6. ThreadFine(u)
    BY <1>3, <2>5 DEF ThreadFine, d
  <2>7. Keeps(t, u)
    BY <1>3, <2>2, <2>4, <2>6 DEF Keeps, d
  <2>8. Delivered(t) = IF c.type = "stop" THEN Stopped(u) ELSE Granted(u, c.work)
    BY <1>4 DEF Delivered, u
  <2>9. Keeps(u, Stopped(u))
    <3> DEFINE v == Stopped(u)
    <3>1. /\ v \in Thread /\ v.chain = u.chain /\ v.inbox = u.inbox /\ v.mode = u.mode
          /\ v.run = u.run /\ v.permit = u.permit /\ v.out = u.out
      BY <1>3 DEF Stopped, Thread
    <3> HIDE DEF v
    <3>2. Keeps(u, v)
      BY <2>6, <3>1, SameQueue DEF ThreadFine
    <3> QED BY <3>2 DEF v
  <2>10. Keeps(u, Granted(u, c.work))
    <3> DEFINE v == Granted(u, c.work)
    <3>1. u.permit \/ (u.mode = "SEARCH" /\ u.run = c.work) \in BOOLEAN
      BY <1>3 DEF Thread
    <3>2. /\ v \in Thread /\ v.chain = u.chain /\ v.inbox = u.inbox /\ v.mode = u.mode
          /\ v.run = u.run /\ v.permit = (u.permit \/ (u.mode = "SEARCH" /\ u.run = c.work))
          /\ v.out = u.out
      BY <1>3, <3>1 DEF Granted, Thread
    <3> HIDE DEF v
    <3>3. Keeps(u, v)
      BY <2>6, <3>2, SameQueue DEF ThreadFine
    <3> QED BY <3>3 DEF v
  <2> QED BY <2>7, <2>8, <2>9, <2>10, KeepsOn
<1>5. CASE c.type \notin {"stop", "grant-split"}
  <2> DEFINE v == Queued(u, c)
  <2>1. Delivered(t) = v
    BY <1>5 DEF Delivered, u
  <2>2. Append(t.chain, c) \in Seq(Command) /\ c.type \in {"initialize", "run"}
    BY <1>1, <1>2, <1>5 DEF Command
  <2>3. /\ v \in Thread /\ v.inbox = Tail(t.inbox) /\ v.chain = Append(t.chain, c)
        /\ v.mode = t.mode /\ v.run = t.run /\ v.permit = t.permit /\ v.out = t.out
    BY <1>3, <2>2 DEF Queued, Thread
  <2> HIDE DEF v
  <2>4. Commands(v) = Commands(t)
    BY <1>2, <2>3 DEF Commands
  <2>5. \A i \in 1..Len(v.chain) : IsInit(v.chain, i) \/ IsRun(v.chain, i)
    <3>1. /\ Len(t.chain) \in Nat /\ Len(v.chain) = Len(t.chain) + 1
          /\ v.chain[Len(t.chain) + 1] = c
          /\ \A i \in 1..Len(t.chain) : v.chain[i] = t.chain[i]
      BY <1>1, <1>2, <2>3
    <3> TAKE i \in 1..Len(v.chain)
    <3>2. i = Len(t.chain) + 1 \/ i \in 1..Len(t.chain)
      BY <3>1
    <3>3. \A k \in 1..Len(t.chain) : IsInit(t.chain, k) \/ IsRun(t.chain, k)
      BY DEF ThreadFine
    <3> QED BY <2>2, <3>1, <3>2, <3>3 DEF IsInit, IsRun
  <2>6. ThreadFine(v)
    BY <2>3, <2>4, <2>5 DEF ThreadFine
  <2> QED BY <2>1, <2>3, <2>4, <2>6 DEF Keeps
<1> QED BY <1>4, <1>5

\* What the worker says about its run.
LEMMA ReportedKeeps ==
  ASSUME NEW t, ThreadFine(t), NEW r \in Report, r.type = "split" => r.work.purpose = "SEARCH"
  PROVE  Keeps(t, Reported(t, r))
<1> DEFINE u == Reported(t, r)
<1>1. t \in Thread /\ t.out \in Seq(Report)
  BY DEF ThreadFine, Thread
<1>2. Append(t.out, r) \in Seq(Report)
  BY <1>1
<1>3. /\ u \in Thread /\ u.chain = t.chain /\ u.inbox = t.inbox /\ u.mode = t.mode
      /\ u.run = t.run /\ u.permit = t.permit /\ u.out = Append(t.out, r)
  BY <1>1, <1>2 DEF Reported, Thread
<1>4. ASSUME NEW i \in 1..Len(Append(t.out, r)), Append(t.out, r)[i].type = "split"
      PROVE  Append(t.out, r)[i].work.purpose = "SEARCH"
  <2>1. \A k \in 1..Len(t.out) : t.out[k].type = "split" => t.out[k].work.purpose = "SEARCH"
    BY DEF ThreadFine
  <2>2. Len(t.out) \in Nat /\ Len(Append(t.out, r)) = Len(t.out) + 1
        /\ Append(t.out, r)[Len(t.out) + 1] = r
        /\ \A k \in 1..Len(t.out) : Append(t.out, r)[k] = t.out[k]
    BY <1>1
  <2>3. i = Len(t.out) + 1 \/ i \in 1..Len(t.out)
    BY <2>2
  <2> QED BY <1>4, <2>1, <2>2, <2>3
<1> HIDE DEF u
<1>5. Keeps(t, u)
  BY <1>3, <1>4, SameQueue DEF ThreadFine
<1> QED BY <1>5 DEF u

LEMMA EndedKeeps ==
  ASSUME NEW t, ThreadFine(t), NEW r \in Report, r.type = "split" => r.work.purpose = "SEARCH"
  PROVE  Keeps(t, Ended(t, r))
<1> DEFINE u == [t EXCEPT !.run = NoWork, !.permit = FALSE]
<1>1. t \in Thread
  BY DEF ThreadFine
<1>2. /\ u \in Thread /\ u.chain = t.chain /\ u.inbox = t.inbox /\ u.mode = t.mode
      /\ u.run = NoWork /\ u.permit = FALSE /\ u.out = t.out
  BY <1>1 DEF Thread
<1> HIDE DEF u
<1>3. Keeps(t, u)
  BY <1>2, SameQueue DEF ThreadFine
<1>4. Keeps(u, Reported(u, r))
  BY <1>3, ReportedKeeps DEF Keeps
<1> QED BY <1>3, <1>4, KeepsOn DEF Ended, u

\* What comes of a slice, and of one that was told to stop.
LEMMA SlicesKeep ==
  ASSUME NEW t, ThreadFine(t), t.run # NoWork
  PROVE  Keeps(t, Interrupted(t)) /\ \A u \in Slices(t) : Keeps(t, u)
<1>1. /\ t \in Thread /\ t.run \in Work /\ t.run.purpose = t.mode
      /\ t.permit => t.mode = "SEARCH"
  BY DEF ThreadFine, Thread
<1>2. /\ [type |-> "yield", work |-> t.run] \in Report
      /\ [type |-> "split", work |-> t.run] \in Report
      /\ \A v \in Verdicts : [type |-> "result", work |-> t.run, verdict |-> v] \in Report
      /\ [type |-> "error"] \in Report
  BY <1>1 DEF Report
<1>3. Keeps(t, Interrupted(t))
  BY <1>2, EndedKeeps DEF Interrupted
<1>4. \A u \in Decided(t) : Keeps(t, u)
  BY <1>2, EndedKeeps DEF Decided
<1>5. \A u \in SplitOutcomes(t) : Keeps(t, u)
  <2>1. CASE ~t.permit
    BY <2>1 DEF SplitOutcomes
  <2>2. CASE t.permit
    <3>1. Keeps(t, Ended(t, [type |-> "split", work |-> t.run]))
      BY <1>1, <1>2, <2>2, EndedKeeps
    <3> DEFINE u == [t EXCEPT !.permit = FALSE]
    <3>2. /\ u \in Thread /\ u.chain = t.chain /\ u.inbox = t.inbox /\ u.mode = t.mode
          /\ u.run = t.run /\ u.permit = FALSE /\ u.out = t.out
      BY <1>1 DEF Thread
    <3> HIDE DEF u
    <3>3. Keeps(t, u)
      BY <3>2, SameQueue DEF ThreadFine
    <3> QED BY <2>2, <3>1, <3>3 DEF SplitOutcomes, u
  <2> QED BY <2>1, <2>2
<1>6. \A u \in GivenUp(t) : Keeps(t, u)
  BY <1>2, EndedKeeps DEF GivenUp
<1> QED BY <1>3, <1>4, <1>5, <1>6 DEF Slices

\* An operation that begins: an initialisation, or a run that finds its solver.
LEMMA BegunKeeps ==
  ASSUME NEW t, ThreadFine(t), t.run = NoWork, t.chain # <<>>
  PROVE  Keeps(t, Begun(t))
<1> DEFINE c == Head(t.chain)
           q == Commands(t)
           d == Tail(t.chain) \o t.inbox
           n == Len(q)
           u == [t EXCEPT !.chain = Tail(@)]
<1>1. t \in Thread /\ t.inbox \in Seq(Command) /\ t.chain \in Seq(Command)
  BY DEF ThreadFine, Thread
<1>2. /\ n \in Nat /\ Without(q, 1, d) /\ q[1] = c /\ c = t.chain[1]
      /\ Tail(t.chain) \in Seq(Command) /\ c \in Command
      /\ \A i \in 1..Len(Tail(t.chain)) : Tail(t.chain)[i] = t.chain[i + 1]
  <2> DEFINE a == t.chain
             b == t.inbox
  <2>1. a \in Seq(Command) /\ b \in Seq(Command) /\ a # <<>>
    BY <1>1
  <2> HIDE DEF a, b
  <2>2. /\ Len(a \o b) \in Nat /\ Without(a \o b, 1, Tail(a) \o b)
        /\ (a \o b)[1] = Head(a) /\ Head(a) = a[1]
        /\ Tail(a) \in Seq(Command) /\ Head(a) \in Command
        /\ \A i \in 1..Len(Tail(a)) : Tail(a)[i] = a[i + 1]
    BY <2>1, QueueMoves, ZenonT(60)
  <2> QED BY <2>2 DEF a, b, Commands
<1>3. /\ u \in Thread /\ u.inbox = t.inbox /\ u.chain = Tail(t.chain) /\ u.mode = t.mode
      /\ u.run = NoWork /\ u.permit = t.permit /\ u.out = t.out
  BY <1>1, <1>2 DEF Thread
<1>4. \A i \in 1..Len(u.chain) : IsInit(u.chain, i) \/ IsRun(u.chain, i)
  <2>1. Len(t.chain) \in Nat /\ Len(Tail(t.chain)) = Len(t.chain) - 1
    BY <1>1, HeadTailProperties, LenProperties
  <2>2. \A i \in 1..Len(t.chain) : IsInit(t.chain, i) \/ IsRun(t.chain, i)
    BY DEF ThreadFine
  <2> TAKE i \in 1..Len(u.chain)
  <2>3. i + 1 \in 1..Len(t.chain) /\ u.chain[i] = t.chain[i + 1]
    BY <1>2, <1>3, <2>1
  <2> QED BY <2>2, <2>3 DEF IsInit, IsRun
<1>5. n >= 1 /\ Len(d) = n - 1 /\ (IsInit(q, 1) \/ IsRun(q, 1))
  <2>1. Len(t.chain) \in Nat /\ Len(t.chain) >= 1
    BY <1>1, EmptySeq
  <2>2. IsInit(t.chain, 1) \/ IsRun(t.chain, 1)
    BY <2>1 DEF ThreadFine
  <2>3. Len(d) = n - 1 /\ 1 \in 1..n
    BY <1>2 DEF Without
  <2>4. n >= 1
    BY <1>2, <2>3
  <2>5. IsInit(q, 1) \/ IsRun(q, 1)
    BY <1>2, <2>2 DEF IsInit, IsRun
  <2> QED BY <2>3, <2>4, <2>5
<1>6. \A v : v.inbox = u.inbox /\ v.chain = u.chain => Commands(v) = d
  BY <1>3 DEF Commands
<1>7. Served(q, t.mode)
  BY DEF ThreadFine
<1>8. ThreadFine(t) => \A i \in 1..Len(t.out) : t.out[i].type = "split" => t.out[i].work.purpose = "SEARCH"
  BY DEF ThreadFine
<1> HIDE DEF u, d, q, n, c
<1>9. CASE c.type = "initialize"
  <2> DEFINE v == [u EXCEPT !.mode = c.mode, !.stopped = FALSE, !.permit = FALSE]
  <2>1. c.mode \in Modes
    BY <1>2, <1>9 DEF Command
  <2>2. /\ v \in Thread /\ v.inbox = u.inbox /\ v.chain = u.chain /\ v.mode = c.mode
        /\ v.run = NoWork /\ v.permit = FALSE /\ v.out = t.out
    BY <1>3, <2>1 DEF Thread
  <2> HIDE DEF v
  <2>3. IsInit(q, 1) /\ Commands(v) = d
    BY <1>2, <1>6, <1>9, <2>2 DEF IsInit
  <2>4. Served(d, c.mode)
    BY <1>2, <1>7, <2>3, ServedOpened
  <2>5. /\ \A m, x : Finds(q, m, n, x) => Finds(d, c.mode, n - 1, x)
        /\ Fresh(q, n) => Fresh(d, n - 1)
    <3>1. n - 1 \in 0..Len(d) /\ (n - 1) + 1 = n
      BY <1>2, <1>5
    <3>2. /\ \A m, x : Finds(q, m, (n - 1) + 1, x) => Finds(d, c.mode, n - 1, x)
          /\ Fresh(q, (n - 1) + 1) => Fresh(d, n - 1)
      BY <1>2, <2>3, <3>1, Opened
    <3> QED BY <3>1, <3>2
  <2>6. ThreadFine(v)
    BY <1>3, <1>4, <1>8, <2>2, <2>3, <2>4 DEF ThreadFine
  <2>7. Keeps(t, v)
    BY <1>5, <2>2, <2>3, <2>5, <2>6 DEF Keeps, q, n
  <2>8. [type |-> "ready"] \in Report
    BY DEF Report
  <2>9. Keeps(v, Reported(v, [type |-> "ready"]))
    BY <2>6, <2>8, ReportedKeeps
  <2>10. Begun(t) = Reported(v, [type |-> "ready"])
    BY <1>9 DEF Begun, Initialized, v, u, c
  <2> QED BY <2>7, <2>9, <2>10, KeepsOn
<1>10. CASE c.type = "run"
  <2> DEFINE w == c.work
             v == [u EXCEPT !.stopped = FALSE, !.permit = FALSE]
             x == [v EXCEPT !.run = w]
  <2>1. w \in Work
    BY <1>2, <1>10 DEF Command
  <2>2. /\ v \in Thread /\ v.inbox = u.inbox /\ v.chain = u.chain /\ v.mode = t.mode
        /\ v.run = NoWork /\ v.permit = FALSE /\ v.out = t.out
    BY <1>3 DEF Thread
  <2>3. ~IsInit(q, 1) /\ Commands(v) = d
    BY <1>2, <1>6, <1>10, <2>2 DEF IsInit
  <2>4. Served(d, t.mode)
    BY <1>2, <1>7, <2>3, ServedWithout
  <2>5. /\ \A m, y : Finds(q, m, n, y) => Finds(d, m, n - 1, y)
        /\ Fresh(q, n) => Fresh(d, n - 1)
    <3>1. n - 1 \in 1 - 1..Len(d) /\ (n - 1) + 1 = n
      BY <1>2, <1>5
    <3>2. /\ \A m, y : Finds(q, m, (n - 1) + 1, y) => Finds(d, m, n - 1, y)
          /\ Fresh(q, (n - 1) + 1) => Fresh(d, n - 1)
      BY <1>2, <2>3, <3>1, Squeezed
    <3> QED BY <3>1, <3>2
  <2>6. ThreadFine(v) /\ Keeps(t, v)
    <3> HIDE DEF v
    <3>1. ThreadFine(v)
      BY <1>3, <1>4, <1>8, <2>2, <2>3, <2>4 DEF ThreadFine
    <3>2. Keeps(t, v)
      BY <1>5, <2>2, <2>3, <2>5, <3>1 DEF Keeps, q, n
    <3> QED BY <3>1, <3>2
  <2>7. CASE v.mode = w.purpose
    <3>1. /\ x \in Thread /\ x.inbox = v.inbox /\ x.chain = v.chain /\ x.mode = v.mode
          /\ x.run = w /\ x.permit = FALSE /\ x.out = v.out
      BY <2>1, <2>2 DEF Thread
    <3>2. Begun(t) = x
      BY <1>10, <2>2, <2>7, <1>3 DEF Begun, Started, u, c
    <3> HIDE DEF v, x
    <3>3. Keeps(v, x)
      BY <2>6, <2>7, <3>1, SameQueue DEF ThreadFine
    <3> QED BY <2>6, <3>2, <3>3, KeepsOn
  <2>8. CASE v.mode # w.purpose
    <3>1. [type |-> "yield", work |-> w] \in Report
      BY <2>1 DEF Report
    <3>2. Begun(t) = Reported(v, [type |-> "yield", work |-> w])
      BY <1>10, <2>2, <2>8, <1>3 DEF Begun, Started, u, c
    <3> HIDE DEF v, x
    <3>3. Keeps(v, Reported(v, [type |-> "yield", work |-> w]))
      BY <2>6, <3>1, ReportedKeeps
    <3> QED BY <2>6, <3>2, <3>3, KeepsOn
  <2> QED BY <2>7, <2>8
<1> QED BY <1>2, <1>5, <1>9, <1>10 DEF IsInit, IsRun

\* A report leaves the worker.
LEMMA TakenKeeps ==
  ASSUME NEW t, ThreadFine(t), t.out # <<>>
  PROVE  /\ Keeps(t, [t EXCEPT !.out = Tail(@)])
         /\ Head(t.out) \in Report
         /\ Head(t.out).type = "split" => Head(t.out).work.purpose = "SEARCH"
<1> DEFINE u == [t EXCEPT !.out = Tail(@)]
<1>1. t \in Thread /\ t.out \in Seq(Report)
  BY DEF ThreadFine, Thread
<1>2. /\ Tail(t.out) \in Seq(Report) /\ Len(Tail(t.out)) = Len(t.out) - 1
      /\ Head(t.out) \in Report /\ Head(t.out) = t.out[1]
      /\ Len(t.out) \in Nat /\ Len(t.out) >= 1
      /\ \A i \in 1..Len(Tail(t.out)) : Tail(t.out)[i] = t.out[i + 1]
  BY <1>1, HeadTailProperties, EmptySeq
<1>3. \A i \in 1..Len(t.out) : t.out[i].type = "split" => t.out[i].work.purpose = "SEARCH"
  BY DEF ThreadFine
<1>4. /\ u \in Thread /\ u.chain = t.chain /\ u.inbox = t.inbox /\ u.mode = t.mode
      /\ u.run = t.run /\ u.permit = t.permit /\ u.out = Tail(t.out)
  BY <1>1, <1>2 DEF Thread
<1>5. ASSUME NEW i \in 1..Len(u.out), u.out[i].type = "split"
      PROVE  u.out[i].work.purpose = "SEARCH"
  <2>1. i + 1 \in 1..Len(t.out) /\ u.out[i] = t.out[i + 1]
    BY <1>2, <1>4
  <2> QED BY <1>3, <1>5, <2>1
<1> HIDE DEF u
<1>6. Keeps(t, u)
  BY <1>4, <1>5, SameQueue DEF ThreadFine
<1>7. 1 \in 1..Len(t.out)
  BY <1>2
<1> QED BY <1>2, <1>3, <1>6, <1>7 DEF u

\* A seat whose worker goes on.
LEMMA WorkingSeat ==
  ASSUME NEW e, SeatFine(e), NEW u, Keeps(e.thread, u)
  PROVE  LET f == [e EXCEPT !.thread = u]
         IN  /\ SeatFine(f) /\ f.work = e.work /\ f.mutation = e.mutation
             /\ f.ready = e.ready /\ f.waiting = e.waiting /\ f.mode = e.mode
<1> DEFINE f == [e EXCEPT !.thread = u]
<1>1. e \in Seat /\ e.mode \in Modes /\ u \in Thread
  BY DEF SeatFine, Seat, Keeps, ThreadFine
<1>2. /\ f \in Seat /\ f.thread = u /\ f.work = e.work /\ f.mutation = e.mutation
      /\ f.ready = e.ready /\ f.waiting = e.waiting /\ f.mode = e.mode
  BY <1>1 DEF Seat
<1> HIDE DEF f
<1>3. SeatFine(f)
  BY <1>1, <1>2 DEF SeatFine, Keeps
<1> QED BY <1>2, <1>3 DEF f

\* A slot that is ready runs the task it was waiting with.
LEMMA ReadySeat ==
  ASSUME NEW e, SeatFine(e)
  PROVE  LET f == [e EXCEPT !.ready = TRUE]
             g == StartWorkerTask([f EXCEPT !.waiting = FALSE])
         IN  /\ SeatFine(f) /\ f.work = e.work /\ f.mutation = e.mutation
             /\ f.waiting = e.waiting
             /\ f.waiting => SeatFine(g) /\ g.work = e.work /\ g.mutation = e.mutation
<1> DEFINE f == [e EXCEPT !.ready = TRUE]
           h == [f EXCEPT !.waiting = FALSE]
<1>1. e \in Seat
  BY DEF SeatFine
<1>2. /\ f \in Seat /\ f.thread = e.thread /\ f.work = e.work /\ f.mutation = e.mutation
      /\ f.mode = e.mode /\ f.waiting = e.waiting
  BY <1>1 DEF Seat
<1>3. /\ h \in Seat /\ h.thread = e.thread /\ h.work = e.work /\ h.mutation = e.mutation
      /\ h.mode = e.mode /\ h.waiting = FALSE
  BY <1>2 DEF Seat
<1> HIDE DEF f, h
<1>4. SeatFine(f) /\ SeatFine(h)
  BY <1>2, <1>3 DEF SeatFine
<1>5. ASSUME f.waiting
      PROVE  /\ SeatFine(StartWorkerTask(h)) /\ StartWorkerTask(h).work = e.work
             /\ StartWorkerTask(h).mutation = e.mutation
  <2>1. h.mode = "PROOF_FINISHER" =>
          ~h.waiting /\ Fresh(Commands(h.thread), Len(Commands(h.thread)))
    BY <1>2, <1>3, <1>5 DEF SeatFine
  <2> QED BY <1>3, <1>4, <2>1, StartedSeat
<1> QED BY <1>2, <1>4, <1>5 DEF f, h

-----------------------------------------------------------------------------
(* The page.                                                               *)

\* Where there is a seat there is one for every slot.
LEMMA SlotsOf ==
  ASSUME NEW p \in Page, NEW s \in DOMAIN p.slots
  PROVE  s \in Slot /\ DOMAIN p.slots = Slot /\ p.slots \in [Slot -> Seat] /\ p.slots # NoSeats
<1>1. DOMAIN NoSeats = {}
  BY DEF NoSeats
<1> QED BY <1>1 DEF Page

\* Without seats, messages and a socket there is nothing to go wrong.
LEMMA EmptyPage ==
  ASSUME NEW p \in Page, p.slots = NoSeats, p.outbox = {}, p.link = "none", ~p.beating,
         p.phase \notin Active /\ p.formula => p.phase = "paused"
  PROVE  PageFine(p)
<1>1. DOMAIN NoSeats = {}
  BY DEF NoSeats
<1> QED BY <1>1 DEF PageFine, Filed, Plugged, Quiet

LEMMA DisposedPage ==
  ASSUME NEW p \in Page, NEW phase \in {"idle", "error", "complete", "loading"}
  PROVE  LET q == [Disposed(p) EXCEPT !.phase = phase]
         IN  PageFine(q) /\ q.link = "none"
<1> DEFINE q == [Disposed(p) EXCEPT !.phase = phase]
<1>1. phase \in Phases /\ {} \in SUBSET Mutation
  BY DEF Phases
<1>2. /\ q \in Page /\ q.slots = NoSeats /\ q.outbox = {} /\ q.link = "none" /\ q.beating = FALSE
      /\ q.formula = FALSE
  <2> DEFINE a == Unplugged(p)
             b == Disposed(p)
  <2>1. /\ a \in Page /\ a.link = "none" /\ a.beating = FALSE /\ a.lifecycle \in Nat
    BY DEF Unplugged, Page
  <2>2. b = [a EXCEPT !.lifecycle = a.lifecycle + 1, !.slots = NoSeats, !.outbox = {},
                      !.formula = FALSE]
    BY DEF Disposed
  <2> HIDE DEF a, b
  <2>3. a.lifecycle + 1 \in Nat
    BY <2>1
  <2>4. /\ b \in Page /\ b.slots = NoSeats /\ b.outbox = {} /\ b.link = "none"
        /\ b.beating = FALSE /\ b.formula = FALSE
    BY <1>1, <2>1, <2>2, <2>3 DEF Page
  <2>5. q = [b EXCEPT !.phase = phase]
    BY DEF b
  <2> QED BY <1>1, <2>4, <2>5 DEF Page
<1> HIDE DEF q
<1>3. PageFine(q)
  BY <1>2, EmptyPage
<1> QED BY <1>2, <1>3 DEF q

\* A seat that keeps its task and its mutation may change as it likes.
LEMMA SameTasks ==
  ASSUME NEW p, PageFine(p), NEW q \in Page,
         DOMAIN q.slots = DOMAIN p.slots, p.slots = NoSeats => q.slots = NoSeats,
         \A s \in DOMAIN p.slots :
           /\ SeatFine(q.slots[s]) /\ q.slots[s].work = p.slots[s].work
           /\ q.slots[s].mutation = p.slots[s].mutation,
         q.outbox = p.outbox, q.sent = p.sent, q.phase = p.phase, q.link = p.link,
         q.beating = p.beating, q.formula = p.formula
  PROVE  PageFine(q)
<1>1. Filed(q)
  BY DEF PageFine, Filed
<1>2. Plugged(q) /\ Quiet(q)
  BY DEF PageFine, Plugged, Quiet
<1> QED BY <1>1, <1>2 DEF PageFine

\* One seat of the page is changed.
LEMMA PutSeat ==
  ASSUME NEW p \in Page, NEW s \in DOMAIN p.slots, NEW e \in Seat
  PROVE  LET q == [p EXCEPT !.slots[s] = e]
         IN  /\ q \in Page /\ DOMAIN q.slots = DOMAIN p.slots /\ q.slots[s] = e
             /\ q.slots = [p.slots EXCEPT ![s] = e]
             /\ \A r \in DOMAIN p.slots : r # s => q.slots[r] = p.slots[r]
             /\ q.outbox = p.outbox /\ q.sent = p.sent /\ q.phase = p.phase
             /\ q.link = p.link /\ q.beating = p.beating /\ q.formula = p.formula
             /\ q.lifecycle = p.lifecycle /\ q.loads = p.loads /\ q.uploads = p.uploads
<1>1. s \in Slot /\ DOMAIN p.slots = Slot /\ p.slots \in [Slot -> Seat]
  BY SlotsOf
<1>2. /\ [p.slots EXCEPT ![s] = e] \in [Slot -> Seat] /\ [p.slots EXCEPT ![s] = e][s] = e
      /\ \A r \in Slot : r # s => [p.slots EXCEPT ![s] = e][r] = p.slots[r]
  BY <1>1
<1> QED BY <1>1, <1>2 DEF Page

LEMMA SeatPut ==
  ASSUME NEW p, PageFine(p), NEW s \in DOMAIN p.slots, NEW e, SeatFine(e),
         e.work = p.slots[s].work, e.mutation = p.slots[s].mutation
  PROVE  PageFine([p EXCEPT !.slots[s] = e])
<1> DEFINE q == [p EXCEPT !.slots[s] = e]
<1>1. p \in Page /\ e \in Seat /\ \A r \in DOMAIN p.slots : SeatFine(p.slots[r])
  BY DEF PageFine, SeatFine
<1>2. /\ q \in Page /\ DOMAIN q.slots = DOMAIN p.slots /\ q.slots[s] = e
      /\ \A r \in DOMAIN p.slots : r # s => q.slots[r] = p.slots[r]
      /\ q.outbox = p.outbox /\ q.sent = p.sent /\ q.phase = p.phase
      /\ q.link = p.link /\ q.beating = p.beating /\ q.formula = p.formula
  BY <1>1, PutSeat
<1>3. p.slots # NoSeats
  BY <1>1, SlotsOf
<1> HIDE DEF q
<1>4. PageFine(q)
  BY <1>1, <1>2, <1>3, SameTasks
<1> QED BY <1>4 DEF q

\* The page's own lists matter to nobody else.
LEMMA ListsChange ==
  ASSUME NEW p, PageFine(p), NEW loads \in SUBSET Nat, NEW uploads \in SUBSET Upload
  PROVE  PageFine([p EXCEPT !.loads = loads]) /\ PageFine([p EXCEPT !.uploads = uploads])
<1>1. p \in Page
  BY DEF PageFine
<1>2. ASSUME NEW q \in {[p EXCEPT !.loads = loads], [p EXCEPT !.uploads = uploads]}
      PROVE  PageFine(q)
  <2>1. /\ q \in Page /\ q.slots = p.slots /\ q.outbox = p.outbox /\ q.sent = p.sent
        /\ q.phase = p.phase /\ q.link = p.link /\ q.beating = p.beating
        /\ q.formula = p.formula
    BY <1>1, <1>2 DEF Page
  <2> QED BY <2>1 DEF PageFine, Filed, Plugged, Quiet
<1> QED BY <1>2

\* One mutation of a slot is under way, and it is of the slot's own task.
LEMMA MutationSent ==
  ASSUME NEW p, PageFine(p), NEW s \in DOMAIN p.slots, p.slots[s].mutation = 0,
         NEW w \in Work, p.slots[s].work = w, NEW action \in Actions,
         NEW verdict \in Verdicts \cup {NoVerdict},
         action = "SPLIT" => w.purpose = "SEARCH"
  PROVE  LET q == SendMutation(p, s, action, w, verdict)
         IN  PageFine(q) /\ q.link = p.link
<1> DEFINE m == MutationOf(p.sent + 1, action, s, w, verdict)
           e == [p.slots[s] EXCEPT !.mutation = m.id]
           q == SendMutation(p, s, action, w, verdict)
<1>1. /\ p \in Page /\ SeatFine(p.slots[s]) /\ s \in Slot /\ DOMAIN p.slots = Slot
      /\ p.slots \in [Slot -> Seat] /\ p.slots # NoSeats
  BY SlotsOf DEF PageFine
<1>2. p.sent \in Nat /\ p.outbox \in SUBSET Mutation
  BY <1>1 DEF Page
<1>3. /\ m \in Mutation /\ m.id = p.sent + 1 /\ m.slot = s /\ m.work = w /\ m.type = action
  BY <1>1, <1>2 DEF MutationOf, Mutation
<1> HIDE DEF m
<1>4. SeatFine(e) /\ e.work = w /\ e.mutation = m.id /\ e \in Seat
  <2>1. m.id \in Nat
    BY <1>2, <1>3
  <2>2. SeatFine(e) /\ e.work = p.slots[s].work /\ e.mutation = m.id
    BY <1>1, <2>1, MutedSeat
  <2> QED BY <2>2 DEF SeatFine
<1> HIDE DEF e
<1>5. [p.slots EXCEPT ![s] = e] \in [Slot -> Seat] /\ p.outbox \cup {m} \in SUBSET Mutation
      /\ m.id \in Nat
  BY <1>1, <1>2, <1>3, <1>4
<1>6. q = [p EXCEPT !.sent = m.id, !.outbox = p.outbox \cup {m}, !.slots = [p.slots EXCEPT ![s] = e]]
  BY <1>1 DEF SendMutation, m, e, Page
<1>7. /\ q \in Page /\ q.sent = m.id /\ q.outbox = p.outbox \cup {m}
      /\ q.slots = [p.slots EXCEPT ![s] = e] /\ q.phase = p.phase /\ q.link = p.link
      /\ q.beating = p.beating /\ q.formula = p.formula
  BY <1>1, <1>5, <1>6 DEF Page
<1> HIDE DEF q
<1>8. /\ DOMAIN q.slots = Slot /\ q.slots[s] = e
      /\ \A r \in Slot : r # s => q.slots[r] = p.slots[r]
  BY <1>1, <1>7
<1>9. \A n \in p.outbox : n.slot # s /\ n.id <= p.sent /\ n.id # 0 /\ n.id \in Nat
  BY <1>2 DEF PageFine, Filed, Mutation
<1>10. Filed(q)
  <2>1. ASSUME NEW n \in q.outbox
        PROVE  /\ n.slot \in DOMAIN q.slots /\ n.id <= q.sent
               /\ q.slots[n.slot].mutation = n.id /\ q.slots[n.slot].work = n.work
               /\ n.type = "SPLIT" => n.work.purpose = "SEARCH"
    <3>1. CASE n = m
      BY <1>1, <1>2, <1>3, <1>4, <1>7, <1>8, <3>1
    <3>2. CASE n \in p.outbox
      <4>1. /\ n.slot \in Slot /\ n.slot # s /\ n.id <= p.sent /\ n.id \in Nat
            /\ p.slots[n.slot].mutation = n.id /\ p.slots[n.slot].work = n.work
            /\ n.type = "SPLIT" => n.work.purpose = "SEARCH"
        BY <1>1, <1>9, <3>2 DEF PageFine, Filed
      <4>2. n.id <= q.sent
        BY <1>2, <1>3, <1>7, <4>1
      <4> QED BY <1>8, <4>1, <4>2
    <3> QED BY <1>7, <2>1, <3>1, <3>2
  <2>2. \A n, o \in q.outbox : n.id = o.id => n = o
    <3>1. \A n \in p.outbox : n.id # m.id
      BY <1>2, <1>3, <1>9
    <3>2. \A n, o \in p.outbox : n.id = o.id => n = o
      BY DEF PageFine, Filed
    <3> QED BY <1>7, <3>1, <3>2
  <2>3. ASSUME NEW r \in DOMAIN q.slots, q.slots[r].mutation # 0
        PROVE  \E n \in q.outbox : n.slot = r
    <3>1. CASE r = s
      BY <1>3, <1>7, <3>1
    <3>2. CASE r # s
      BY <1>1, <1>7, <1>8, <2>3, <3>2 DEF PageFine, Filed
    <3> QED BY <3>1, <3>2
  <2> QED BY <2>1, <2>2, <2>3 DEF Filed
<1>11. \A r \in DOMAIN q.slots : SeatFine(q.slots[r])
  BY <1>1, <1>4, <1>8 DEF PageFine
<1>12. Plugged(q) /\ Quiet(q)
  BY <1>1, <1>7, <1>8 DEF PageFine, Plugged, Quiet
<1>13. PageFine(q)
  BY <1>7, <1>10, <1>11, <1>12 DEF PageFine
<1> QED BY <1>7, <1>13 DEF q

-----------------------------------------------------------------------------
(* The page: what the coordinator says.                                    *)

OthersOf(p, s) == {m \in p.outbox : m.slot # s}

\* A slot's only message is its pending mutation.
LEMMA OnlyMessage ==
  ASSUME NEW p, PageFine(p), NEW s \in DOMAIN p.slots
  PROVE  /\ WithoutMutation(p, s) = OthersOf(p, s)
         /\ \A m \in p.outbox : m.slot = s => p.outbox \ {m} = OthersOf(p, s)
<1>1. \A m \in p.outbox : p.slots[m.slot].mutation = m.id
  BY DEF PageFine, Filed
<1>2. \A m, n \in p.outbox : m.id = n.id => m = n
  BY DEF PageFine, Filed
<1>3. WithoutMutation(p, s) = OthersOf(p, s)
  BY <1>1 DEF WithoutMutation, OthersOf
<1>4. ASSUME NEW m \in p.outbox, m.slot = s PROVE p.outbox \ {m} = OthersOf(p, s)
  <2>1. \A n \in p.outbox : n.slot = s => n = m
    BY <1>1, <1>2, <1>4
  <2> QED BY <1>4, <2>1 DEF OthersOf
<1> QED BY <1>3, <1>4

\* The message goes, and the seat has none left.
LEMMA MessageGone ==
  ASSUME NEW p, PageFine(p), NEW s \in DOMAIN p.slots, NEW e, SeatFine(e), e.mutation = 0
  PROVE  LET q == [p EXCEPT !.outbox = OthersOf(p, s), !.slots[s] = e]
         IN  PageFine(q) /\ q.link = p.link
<1> DEFINE q == [p EXCEPT !.outbox = OthersOf(p, s), !.slots[s] = e]
<1>1. /\ p \in Page /\ s \in Slot /\ DOMAIN p.slots = Slot
      /\ p.slots \in [Slot -> Seat] /\ p.slots # NoSeats /\ e \in Seat
  BY SlotsOf DEF PageFine, SeatFine
<1>2. OthersOf(p, s) \in SUBSET Mutation /\ [p.slots EXCEPT ![s] = e] \in [Slot -> Seat]
  BY <1>1 DEF Page, OthersOf
<1>3. q = [p EXCEPT !.outbox = OthersOf(p, s), !.slots = [p.slots EXCEPT ![s] = e]]
  BY <1>1 DEF Page
<1>4. /\ q \in Page /\ q.outbox = OthersOf(p, s) /\ q.slots = [p.slots EXCEPT ![s] = e]
      /\ q.sent = p.sent /\ q.phase = p.phase /\ q.link = p.link /\ q.beating = p.beating
      /\ q.formula = p.formula
  BY <1>1, <1>2, <1>3 DEF Page
<1> HIDE DEF q
<1>5. /\ DOMAIN q.slots = Slot /\ q.slots[s] = e
      /\ \A r \in Slot : r # s => q.slots[r] = p.slots[r]
  BY <1>1, <1>4
<1>6. Filed(q)
  <2>1. ASSUME NEW n \in q.outbox
        PROVE  /\ n \in p.outbox /\ n.slot # s /\ n.slot \in DOMAIN q.slots /\ n.id <= q.sent
               /\ q.slots[n.slot].mutation = n.id /\ q.slots[n.slot].work = n.work
               /\ n.type = "SPLIT" => n.work.purpose = "SEARCH"
    BY <1>1, <1>4, <1>5 DEF PageFine, Filed, OthersOf
  <2>2. \A n, o \in q.outbox : n.id = o.id => n = o
    BY <2>1 DEF PageFine, Filed
  <2>3. ASSUME NEW r \in DOMAIN q.slots, q.slots[r].mutation # 0
        PROVE  \E n \in q.outbox : n.slot = r
    <3>1. r # s /\ r \in Slot /\ p.slots[r].mutation # 0
      BY <1>5, <2>3
    <3>2. PICK n \in p.outbox : n.slot = r
      BY <1>1, <3>1 DEF PageFine, Filed
    <3> QED BY <1>4, <3>1, <3>2 DEF OthersOf
  <2> QED BY <2>1, <2>2, <2>3 DEF Filed
<1>7. \A r \in DOMAIN q.slots : SeatFine(q.slots[r])
  BY <1>1, <1>5 DEF PageFine
<1>8. Plugged(q) /\ Quiet(q)
  BY <1>1, <1>4, <1>5 DEF PageFine, Plugged, Quiet
<1>9. PageFine(q)
  BY <1>4, <1>6, <1>7, <1>8 DEF PageFine
<1> QED BY <1>4, <1>9 DEF q

\* WORK.
LEMMA AssignedFine ==
  ASSUME NEW p, PageFine(p), NEW s \in DOMAIN p.slots, NEW w \in Work
  PROVE  PageFine(Assigned(p, s, w)) /\ Assigned(p, s, w).link = p.link
<1> DEFINE e == ReplaceSlotWork(p.slots[s], w)
<1>1. SeatFine(e) /\ e.mutation = 0
  BY ReplacedSeat DEF PageFine
<1>2. p.slots[s].work # w =>
        Assigned(p, s, w) = [p EXCEPT !.outbox = OthersOf(p, s), !.slots[s] = e]
  BY OnlyMessage DEF Assigned
<1> HIDE DEF e
<1>3. PageFine([p EXCEPT !.outbox = OthersOf(p, s), !.slots[s] = e])
      /\ [p EXCEPT !.outbox = OthersOf(p, s), !.slots[s] = e].link = p.link
  BY <1>1, MessageGone
<1> QED BY <1>2, <1>3 DEF Assigned

\* SPLIT_PERMIT.
LEMMA PermittedFine ==
  ASSUME NEW p, PageFine(p), NEW s \in DOMAIN p.slots, NEW w \in Work
  PROVE  PageFine(Permitted(p, s, w)) /\ Permitted(p, s, w).link = p.link
<1> DEFINE c == [type |-> "grant-split", work |-> w]
           e == Posted(p.slots[s], c)
<1>1. c \in Command /\ c.type = "grant-split"
  BY DEF Command
<1> HIDE DEF c
<1>2. SeatFine(e) /\ e.work = p.slots[s].work /\ e.mutation = p.slots[s].mutation
  BY <1>1, StoppedSeat DEF PageFine
<1> HIDE DEF e
<1>3. PageFine([p EXCEPT !.slots[s] = e])
  BY <1>2, SeatPut
<1>4. p \in Page
  BY DEF PageFine
<1>5. [p EXCEPT !.slots[s] = e].link = p.link
  BY <1>4 DEF Page
<1> QED BY <1>3, <1>5 DEF Permitted, e, c

\* The answer to a mutation.
LEMMA AnsweredFine ==
  ASSUME NEW p, PageFine(p), NEW m \in p.outbox
  PROVE  PageFine(Answered(p, m)) /\ Answered(p, m).link = p.link
<1> DEFINE a(s) == Settled(p.slots[s], m)
<1>1. PICK s : s = m.slot
  OBVIOUS
<1>2. s \in DOMAIN p.slots /\ p.slots[s].mutation = m.id /\ SeatFine(p.slots[s])
  BY <1>1 DEF PageFine, Filed
<1>3. SeatFine(a(s)) /\ a(s).mutation = 0
  <2>1. a(s) = [p.slots[s] EXCEPT !.mutation = 0]
    BY <1>2 DEF Settled
  <2> QED BY <1>2, <2>1, MutedSeat
<1>4. p.outbox \ {m} = OthersOf(p, s)
  BY <1>1, <1>2, OnlyMessage
<1>5. Answered(p, m) = [p EXCEPT !.outbox = p.outbox \ {m}, !.slots[s] = Freed(a(s))]
  BY <1>1 DEF Answered
<1> HIDE DEF a
<1>6. SeatFine(Freed(a(s))) /\ Freed(a(s)).mutation = 0
  BY <1>3, FreedSeat
<1>7. PICK e : e = Freed(a(s))
  OBVIOUS
<1>8. SeatFine(e) /\ e.mutation = 0
  BY <1>6, <1>7
<1>9. LET q == [p EXCEPT !.outbox = OthersOf(p, s), !.slots[s] = e]
      IN  PageFine(q) /\ q.link = p.link
  BY <1>2, <1>8, MessageGone
<1> QED BY <1>4, <1>5, <1>7, <1>9

\* A split that was not needed: the search goes on.
LEMMA ResplitFine ==
  ASSUME NEW p, PageFine(p), NEW m \in p.outbox, m.type = "SPLIT"
  PROVE  PageFine(Resplit(p, m)) /\ Resplit(p, m).link = p.link
<1> DEFINE a(s) == Settled(p.slots[s], m)
<1>1. PICK s : s = m.slot
  OBVIOUS
<1>2. /\ s \in DOMAIN p.slots /\ p.slots[s].mutation = m.id /\ SeatFine(p.slots[s])
      /\ p.slots[s].work = m.work /\ m.work.purpose = "SEARCH" /\ m.work \in Work
  BY <1>1 DEF PageFine, Filed, Page, Mutation
<1>3. SeatFine(a(s)) /\ a(s).mutation = 0 /\ a(s).work = m.work
  <2>1. a(s) = [p.slots[s] EXCEPT !.mutation = 0]
    BY <1>2 DEF Settled
  <2> QED BY <1>2, <2>1, MutedSeat
<1>4. p.outbox \ {m} = OthersOf(p, s)
  BY <1>1, <1>2, OnlyMessage
<1>5. Resplit(p, m) = [p EXCEPT !.outbox = p.outbox \ {m}, !.slots[s] = StartWorkerTask(a(s))]
  BY <1>1 DEF Resplit
<1> HIDE DEF a
<1>6. a(s).mode = "SEARCH"
  BY <1>2, <1>3, NotWork DEF SeatFine
<1>7. SeatFine(StartWorkerTask(a(s))) /\ StartWorkerTask(a(s)).mutation = 0
  BY <1>3, <1>6, StartedSeat
<1>8. PICK e : e = StartWorkerTask(a(s))
  OBVIOUS
<1>9. SeatFine(e) /\ e.mutation = 0
  BY <1>7, <1>8
<1>10. LET q == [p EXCEPT !.outbox = OthersOf(p, s), !.slots[s] = e]
       IN  PageFine(q) /\ q.link = p.link
  BY <1>2, <1>9, MessageGone
<1> QED BY <1>4, <1>5, <1>8, <1>10

\* ACK and ERROR.
LEMMA RepliesFine ==
  ASSUME NEW p, PageFine(p)
  PROVE  /\ \A id, action : PageFine(Acknowledged(p, id, action))
                            /\ Acknowledged(p, id, action).link = p.link
         /\ \A f : PageFine(Erred(p, f)) /\ Erred(p, f).link = p.link
<1>1. ASSUME NEW id, Pending(p, id) # {}
      PROVE  (CHOOSE m \in Pending(p, id) : TRUE) \in p.outbox
  BY <1>1 DEF Pending
<1>2. ASSUME NEW id, NEW action
      PROVE  PageFine(Acknowledged(p, id, action)) /\ Acknowledged(p, id, action).link = p.link
  <2>1. CASE \E m \in Pending(p, id) : m.type = action
    <3> DEFINE m == CHOOSE m \in Pending(p, id) : TRUE
    <3>1. m \in p.outbox
      BY <1>1, <2>1
    <3>2. Acknowledged(p, id, action) = Answered(p, m)
      BY <2>1 DEF Acknowledged
    <3> HIDE DEF m
    <3> QED BY <3>1, <3>2, AnsweredFine
  <2>2. CASE ~\E m \in Pending(p, id) : m.type = action
    BY <2>2 DEF Acknowledged
  <2> QED BY <2>1, <2>2
<1>3. ASSUME NEW f
      PROVE  PageFine(Erred(p, f)) /\ Erred(p, f).link = p.link
  <2>1. CASE Pending(p, f.id) = {}
    BY <2>1 DEF Erred
  <2>2. CASE Pending(p, f.id) # {}
    <3> DEFINE m == CHOOSE m \in Pending(p, f.id) : TRUE
    <3>1. m \in p.outbox
      BY <1>1, <2>2
    <3>2. Erred(p, f) = IF m.type = "SPLIT" /\ f.code = "SPLIT_NOT_NEEDED"
                        THEN Resplit(p, m) ELSE Answered(p, m)
      BY <2>2 DEF Erred
    <3> HIDE DEF m
    <3> QED BY <3>1, <3>2, AnsweredFine, ResplitFine
  <2> QED BY <2>1, <2>2
<1> QED BY <1>2, <1>3

-----------------------------------------------------------------------------
(* The frames for the page.                                                *)

LEMMA FramesTaken ==
  ASSUME NEW d, Frames(d), d # <<>>
  PROVE  FrameFine(Head(d)) /\ Frames(Tail(d))
<1>1. PICK S : d \in Seq(S) /\ \A f \in S : FrameFine(f)
  BY DEF Frames
<1>2. Head(d) \in S /\ Tail(d) \in Seq(S)
  BY <1>1, HeadTailProperties
<1> QED BY <1>1, <1>2 DEF Frames

LEMMA FramesSent ==
  /\ Frames(<<>>)
  /\ \A f : FrameFine(f) => Frames(<<f>>)
  /\ \A d, e : Frames(d) /\ Frames(e) => Frames(d \o e)
  /\ \A d, f : Frames(d) /\ FrameFine(f) => Frames(Append(d, f))
<1>1. Frames(<<>>)
  <2>1. PICK S : S = {}
    OBVIOUS
  <2>2. <<>> \in Seq(S)
    BY EmptySeq
  <2>3. \A f \in S : FrameFine(f)
    BY <2>1
  <2> QED BY <2>2, <2>3 DEF Frames
<1>2. ASSUME NEW f, FrameFine(f) PROVE Frames(<<f>>)
  <2>1. PICK S : S = {f}
    OBVIOUS
  <2>2. <<f>> \in Seq(S)
    BY <2>1
  <2>3. \A g \in S : FrameFine(g)
    BY <1>2, <2>1
  <2> QED BY <2>2, <2>3 DEF Frames
<1>3. ASSUME NEW d, NEW e, Frames(d), Frames(e) PROVE Frames(d \o e)
  <2>1. PICK S : d \in Seq(S) /\ \A f \in S : FrameFine(f)
    BY <1>3 DEF Frames
  <2>2. PICK T : e \in Seq(T) /\ \A f \in T : FrameFine(f)
    BY <1>3 DEF Frames
  <2>3. S \subseteq S \cup T /\ T \subseteq S \cup T
    OBVIOUS
  <2>4. d \in Seq(S \cup T) /\ e \in Seq(S \cup T)
    BY <2>1, <2>2, <2>3, SeqMonotonic
  <2>5. d \o e \in Seq(S \cup T)
    BY <2>4, ConcatProperties
  <2> QED BY <2>1, <2>2, <2>5 DEF Frames
<1>4. ASSUME NEW d, NEW f, Frames(d), FrameFine(f) PROVE Frames(Append(d, f))
  <2>1. PICK S : d \in Seq(S) /\ \A g \in S : FrameFine(g)
    BY <1>4 DEF Frames
  <2>2. S \subseteq S \cup {f} /\ f \in S \cup {f}
    OBVIOUS
  <2>3. d \in Seq(S \cup {f})
    BY <2>1, <2>2, SeqMonotonic
  <2>4. Append(d, f) \in Seq(S \cup {f})
    BY <2>2, <2>3
  <2> QED BY <1>4, <2>1, <2>4 DEF Frames
<1> QED BY <1>1, <1>2, <1>3, <1>4

-----------------------------------------------------------------------------
(* The coordinator.                                                        *)

\* Its connection is as it was.
HubStays(h, g) == HubFine(g) /\ g.attached = h.attached

LEMMA HubChanges ==
  ASSUME NEW h, HubFine(h)
  PROVE  /\ HubStays(h, h)
         /\ \A v : HubStays(h, [h EXCEPT !.verifying = v])
         /\ \A v : HubStays(h, [h EXCEPT !.processed = v])
         /\ \A v : HubStays(h, [h EXCEPT !.permits = v])
         /\ \A g \in [Slot -> MaybeWork] : \A x :
              /\ HubStays(h, [h EXCEPT !.granted = g])
              /\ HubStays(h, [h EXCEPT !.granted = g, !.known = x])
              /\ HubStays(h, [h EXCEPT !.granted = g, !.issued = x])
              /\ HubStays(h, [h EXCEPT !.over = x, !.granted = g])
<1>1. /\ h.granted \in [Slot -> MaybeWork] /\ h.attached \in BOOLEAN
      /\ h = [granted |-> h.granted, issued |-> h.issued, permits |-> h.permits,
              known |-> h.known, attached |-> h.attached, over |-> h.over,
              processed |-> h.processed, verifying |-> h.verifying]
  BY DEF HubFine
<1>2. HubStays(h, h)
  BY DEF HubStays
<1>3. ASSUME NEW v PROVE HubStays(h, [h EXCEPT !.verifying = v])
  <2> DEFINE g == [h EXCEPT !.verifying = v]
  <2>1. /\ g = [granted |-> h.granted, issued |-> h.issued, permits |-> h.permits,
                known |-> h.known, attached |-> h.attached, over |-> h.over,
                processed |-> h.processed, verifying |-> v]
    BY <1>1
  <2> HIDE DEF g
  <2>2. HubStays(h, g)
    BY <1>1, <2>1 DEF HubStays, HubFine
  <2> QED BY <2>2 DEF g
<1>4. ASSUME NEW v PROVE HubStays(h, [h EXCEPT !.processed = v])
  <2> DEFINE g == [h EXCEPT !.processed = v]
  <2>1. /\ g = [granted |-> h.granted, issued |-> h.issued, permits |-> h.permits,
                known |-> h.known, attached |-> h.attached, over |-> h.over,
                processed |-> v, verifying |-> h.verifying]
    BY <1>1
  <2> HIDE DEF g
  <2>2. HubStays(h, g)
    BY <1>1, <2>1 DEF HubStays, HubFine
  <2> QED BY <2>2 DEF g
<1>5. ASSUME NEW v PROVE HubStays(h, [h EXCEPT !.permits = v])
  <2> DEFINE g == [h EXCEPT !.permits = v]
  <2>1. /\ g = [granted |-> h.granted, issued |-> h.issued, permits |-> v,
                known |-> h.known, attached |-> h.attached, over |-> h.over,
                processed |-> h.processed, verifying |-> h.verifying]
    BY <1>1
  <2> HIDE DEF g
  <2>2. HubStays(h, g)
    BY <1>1, <2>1 DEF HubStays, HubFine
  <2> QED BY <2>2 DEF g
<1>6. ASSUME NEW g \in [Slot -> MaybeWork], NEW x,
             NEW k \in {[h EXCEPT !.granted = g], [h EXCEPT !.granted = g, !.known = x],
                        [h EXCEPT !.granted = g, !.issued = x],
                        [h EXCEPT !.over = x, !.granted = g]}
      PROVE  HubStays(h, k)
  <2>1. /\ k = [granted |-> g, issued |-> k.issued, permits |-> h.permits,
                known |-> k.known, attached |-> h.attached, over |-> k.over,
                processed |-> h.processed, verifying |-> h.verifying]
    BY <1>1, <1>6
  <2> QED BY <1>1, <1>6, <2>1 DEF HubStays, HubFine
<1> QED BY <1>2, <1>3, <1>4, <1>5, <1>6

LEMMA DetachedFine ==
  ASSUME NEW h, HubFine(h)
  PROVE  HubFine(Detached(h)) /\ Detached(h).attached = FALSE
<1> DEFINE v == {[x EXCEPT !.live = FALSE] : x \in h.verifying}
           g == Detached(h)
<1>1. g = [h EXCEPT !.attached = FALSE, !.verifying = v]
  BY DEF Detached
<1> HIDE DEF v, g
<1>2. g = [granted |-> h.granted, issued |-> h.issued, permits |-> h.permits,
           known |-> h.known, attached |-> FALSE, over |-> h.over,
           processed |-> h.processed, verifying |-> v]
  BY <1>1 DEF HubFine
<1>3. HubFine(g)
  BY <1>2 DEF HubFine
<1> QED BY <1>2, <1>3 DEF g

LEMMA GreetedFine ==
  ASSUME NEW h, HubFine(h), NEW leases \in [Slot -> MaybeWork]
  PROVE  HubFine(Greeted(h, leases))
<1> DEFINE x == [s \in Slot |-> IF leases[s] = NoWork THEN h.issued[s] ELSE leases[s].lease]
           g == Greeted(h, leases)
<1>1. g = [h EXCEPT !.granted = leases, !.known = TRUE, !.attached = TRUE, !.issued = x]
  BY DEF Greeted
<1> HIDE DEF x, g
<1>2. g = [granted |-> leases, issued |-> x, permits |-> h.permits,
           known |-> TRUE, attached |-> TRUE, over |-> h.over,
           processed |-> h.processed, verifying |-> h.verifying]
  BY <1>1 DEF HubFine
<1>3. HubFine(g)
  BY <1>2 DEF HubFine
<1> QED BY <1>3 DEF g

\* Whatever frame the coordinator handles.
LEMMA OutcomesFine ==
  ASSUME NEW h, HubFine(h), NEW m, NEW o \in Outcomes(h, m)
  PROVE  HubStays(h, o[1]) /\ Frames(o[2])
<1>1. /\ Frames(<<>>) /\ Frames(<<AckOf(m)>>)
      /\ \A code, r : Frames(<<ErrorOf(m, code, r)>>)
  <2>1. FrameFine(AckOf(m)) /\ \A code, r : FrameFine(ErrorOf(m, code, r))
    BY DEF FrameFine, AckOf, ErrorOf
  <2> QED BY <2>1, FramesSent
<1>2. HubStays(h, h) /\ HubStays(h, Closed(h, m))
  <2> DEFINE g == [h.granted EXCEPT ![m.slot] = NoWork]
  <2>1. g \in [Slot -> MaybeWork]
    BY DEF HubFine, MaybeWork
  <2>2. Closed(h, m) = [h EXCEPT !.granted = g]
    BY DEF Closed
  <2> HIDE DEF g
  <2> QED BY <2>1, <2>2, HubChanges
<1>3. \A g : HubStays(h, g) => HubStays(h, Processed(g, m))
             /\ \A v : HubStays(h, [g EXCEPT !.verifying = v])
  <2> SUFFICES ASSUME NEW g, HubStays(h, g)
               PROVE  HubStays(h, Processed(g, m))
                      /\ \A v : HubStays(h, [g EXCEPT !.verifying = v])
    OBVIOUS
  <2>1. HubFine(g) /\ g.attached = h.attached
    BY DEF HubStays
  <2>2. /\ HubStays(g, [g EXCEPT !.processed = g.processed \cup {m.id}])
        /\ \A v : HubStays(g, [g EXCEPT !.verifying = v])
    BY <2>1, HubChanges
  <2> QED BY <2>1, <2>2 DEF HubStays, Processed
<1> DEFINE Good(x) == \E g, f : x = <<g, f>> /\ HubStays(h, g) /\ Frames(f)
<1>4. /\ Good(<<h, <<AckOf(m)>>>>) /\ \A code, r : Good(<<h, <<ErrorOf(m, code, r)>>>>)
      /\ Good(<<Processed(h, m), <<AckOf(m)>>>>)
      /\ Good(<<Processed(Closed(h, m), m), <<AckOf(m)>>>>)
  BY <1>1, <1>2, <1>3
<1>5. \A v : Good(<<[h EXCEPT !.verifying = v], <<>>>>)
             /\ Good(<<[Closed(h, m) EXCEPT !.verifying = v], <<>>>>)
  BY <1>1, <1>2, <1>3
<1>6. \/ o = <<h, <<AckOf(m)>>>> \/ \E code, r : o = <<h, <<ErrorOf(m, code, r)>>>>
      \/ o = <<Processed(h, m), <<AckOf(m)>>>>
      \/ o = <<Processed(Closed(h, m), m), <<AckOf(m)>>>>
      \/ \E v : o = <<[h EXCEPT !.verifying = v], <<>>>>
      \/ \E v : o = <<[Closed(h, m) EXCEPT !.verifying = v], <<>>>>
  BY DEF Outcomes
<1> HIDE DEF Good
<1>7. Good(o)
  BY <1>4, <1>5, <1>6
<1>8. PICK g, f : o = <<g, f>> /\ HubStays(h, g) /\ Frames(f)
  BY <1>7 DEF Good
<1>9. o[1] = g /\ o[2] = f
  BY <1>8
<1> QED BY <1>8, <1>9

-----------------------------------------------------------------------------
(* The page: slots, connections and what WELCOME says.                     *)

LEMMA CreatedFine ==
  ASSUME NEW p, PageFine(p), p.phase \in Active
  PROVE  PageFine(CreateSlots(p)) /\ CreateSlots(p).link = p.link
<1>1. CASE DOMAIN p.slots # {}
  BY <1>1 DEF CreateSlots
<1>2. CASE DOMAIN p.slots = {}
  <2>1. PICK e : e = InitializeSlot(NewSeat, "SEARCH")
    OBVIOUS
  <2>2. SeatFine(e) /\ e \in Seat /\ e.work = NoWork /\ e.mutation = 0
    BY <2>1, FirstSeat DEF SeatFine
  <2> DEFINE q == [p EXCEPT !.slots = [s \in Slot |-> e]]
  <2>3. CreateSlots(p) = q
    BY <1>2, <2>1 DEF CreateSlots
  <2>4. p \in Page /\ [s \in Slot |-> e] \in [Slot -> Seat]
    BY <2>2 DEF PageFine
  <2>5. /\ q \in Page /\ q.slots = [s \in Slot |-> e] /\ q.outbox = p.outbox
        /\ q.phase = p.phase /\ q.link = p.link
    BY <2>4 DEF Page
  <2> HIDE DEF q
  <2>6. p.outbox = {}
    BY <1>2 DEF PageFine, Filed
  <2>7. DOMAIN q.slots = Slot /\ \A s \in Slot : q.slots[s] = e
    BY <2>5
  <2>8. Filed(q)
    BY <2>2, <2>5, <2>6, <2>7 DEF Filed
  <2>9. Plugged(q) /\ Quiet(q)
    BY <2>5, <2>7 DEF Plugged, Quiet
  <2>10. PageFine(q)
    BY <2>2, <2>5, <2>7, <2>8, <2>9 DEF PageFine
  <2> QED BY <2>3, <2>5, <2>10
<1> QED BY <1>1, <1>2

\* A page with all its slots may have a socket.
LEMMA LinkedFine ==
  ASSUME NEW p, PageFine(p), DOMAIN p.slots = Slot,
         NEW phase \in Active, NEW link \in {"connecting", "open", "retry"}
  PROVE  LET q == [p EXCEPT !.phase = phase, !.link = link]
         IN  PageFine(q) /\ q.link = link
<1> DEFINE q == [p EXCEPT !.phase = phase, !.link = link]
<1>1. p \in Page /\ phase \in Phases
  BY DEF PageFine, Active, Phases
<1>2. /\ q \in Page /\ q.slots = p.slots /\ q.outbox = p.outbox /\ q.sent = p.sent
      /\ q.phase = phase /\ q.link = link
  BY <1>1 DEF Page
<1> HIDE DEF q
<1>3. PageFine(q)
  BY <1>2 DEF PageFine, Filed, Plugged, Quiet
<1> QED BY <1>2, <1>3 DEF q

LEMMA ConnectFine ==
  ASSUME NEW p, PageFine(p), DOMAIN p.slots = Slot
  PROVE  PageFine(Connect(p)) /\ (p.link = "open" => Connect(p).link = "open")
<1>1. CASE ~(p.link = "none" /\ p.phase \in Active)
  BY <1>1 DEF Connect
<1>2. CASE p.link = "none" /\ p.phase \in Active
  <2>1. "connecting" \in Active
    BY DEF Active
  <2>2. PageFine([p EXCEPT !.phase = "connecting", !.link = "connecting"])
    BY <2>1, LinkedFine
  <2>3. Connect(p) = [p EXCEPT !.phase = "connecting", !.link = "connecting"]
    BY <1>2 DEF Connect
  <2> QED BY <1>2, <2>2, <2>3
<1> QED BY <1>1, <1>2

LEMMA ReadiedFine ==
  ASSUME NEW p, PageFine(p), NEW s \in DOMAIN p.slots
  PROVE  PageFine(Readied(p, s)) /\ (p.link = "open" => Readied(p, s).link = "open")
<1>1. PICK f : f = [p.slots[s] EXCEPT !.ready = TRUE]
  OBVIOUS
<1>2. PICK g : g = StartWorkerTask([f EXCEPT !.waiting = FALSE])
  OBVIOUS
<1>3. /\ SeatFine(f) /\ f.work = p.slots[s].work /\ f.mutation = p.slots[s].mutation
      /\ f.waiting => SeatFine(g) /\ g.work = f.work /\ g.mutation = f.mutation
  <2>1. SeatFine(p.slots[s])
    BY DEF PageFine
  <2> QED BY <1>1, <1>2, <2>1, ReadySeat
<1>4. PICK q : q = [p EXCEPT !.slots[s] = f]
  OBVIOUS
<1>5. p \in Page /\ f \in Seat
  BY <1>3 DEF PageFine, SeatFine
<1>6. DOMAIN q.slots = Slot /\ q.slots[s] = f /\ q.link = p.link /\ s \in DOMAIN q.slots
  BY <1>4, <1>5, PutSeat, SlotsOf
<1>7. PageFine(q)
  BY <1>3, <1>4, SeatPut
<1>8. Readied(p, s) = IF q.slots[s].waiting
                      THEN [q EXCEPT !.slots[s] = StartWorkerTask([q.slots[s] EXCEPT !.waiting = FALSE])]
                      ELSE IF \A r \in Slot : q.slots[r].ready THEN Connect(q) ELSE q
  BY <1>1, <1>4, <1>5 DEF Readied, Page
<1>9. CASE f.waiting
  <2>1. Readied(p, s) = [q EXCEPT !.slots[s] = g]
    BY <1>2, <1>6, <1>8, <1>9
  <2>2. SeatFine(g) /\ g.work = q.slots[s].work /\ g.mutation = q.slots[s].mutation
    BY <1>3, <1>6, <1>9
  <2>3. PageFine([q EXCEPT !.slots[s] = g])
    BY <1>6, <1>7, <2>2, SeatPut
  <2>4. [q EXCEPT !.slots[s] = g].link = q.link
    BY <1>7 DEF PageFine, Page
  <2> QED BY <1>6, <2>1, <2>3, <2>4
<1>10. CASE ~f.waiting
  <2>1. Readied(p, s) = Connect(q) \/ Readied(p, s) = q
    BY <1>6, <1>8, <1>10
  <2> QED BY <1>6, <1>7, <2>1, ConnectFine
<1> QED BY <1>9, <1>10

\* WELCOME: a mutation that is kept is of the lease the slot holds.
LEMMA ResumedSeat ==
  ASSUME NEW p, PageFine(p), NEW s \in DOMAIN p.slots, NEW w \in MaybeWork
  PROVE  LET f == Resumed(p, s, w)
         IN  /\ SeatFine(f)
             /\ f.mutation # 0 => f = p.slots[s]
<1> DEFINE pending == \E m \in p.outbox : m.slot = s /\ m.id = p.slots[s].mutation /\ m.work = w
<1>1. SeatFine(p.slots[s])
  BY DEF PageFine
<1>2. CASE pending
  <2>1. PICK m \in p.outbox : m.slot = s /\ m.id = p.slots[s].mutation /\ m.work = w
    BY <1>2
  <2>2. m \in Mutation
    BY <2>1 DEF PageFine, Page
  <2>3. w # NoWork /\ p.slots[s].mutation # 0
    BY <2>1, <2>2, NotWork DEF Mutation
  <2>4. Resumed(p, s, w) = p.slots[s]
    BY <1>2, <2>3 DEF Resumed
  <2> QED BY <1>1, <2>4
<1>3. CASE ~pending
  <2>1. PICK f : f = [p.slots[s] EXCEPT !.mutation = 0]
    OBVIOUS
  <2>2. SeatFine(f) /\ f.mutation = 0
    BY <1>1, <2>1, MutedSeat
  <2>3. Resumed(p, s, w) = IF w = NoWork THEN StopAndRelease(f)
                           ELSE IF f.mutation # 0 \/ f.work = w THEN f
                           ELSE ReplaceSlotWork(f, w)
    BY <1>3, <2>1 DEF Resumed
  <2>4. SeatFine(StopAndRelease(f)) /\ StopAndRelease(f).mutation = 0
    BY <2>2, ReleasedSeat
  <2>5. w # NoWork => SeatFine(ReplaceSlotWork(f, w)) /\ ReplaceSlotWork(f, w).mutation = 0
    BY <2>2, ReplacedSeat DEF MaybeWork
  <2> QED BY <2>2, <2>3, <2>4, <2>5
<1> QED BY <1>2, <1>3

LEMMA WelcomedFine ==
  ASSUME NEW p, PageFine(p), p.link # "none", NEW granted \in [Slot -> MaybeWork]
  PROVE  PageFine(Welcomed(p, granted)) /\ Welcomed(p, granted).link = p.link
<1>1. PICK slots : slots = [s \in Slot |-> Resumed(p, s, granted[s])]
  OBVIOUS
<1>2. PICK outbox : outbox = {m \in p.outbox : slots[m.slot].mutation = m.id}
  OBVIOUS
<1> DEFINE q == [p EXCEPT !.phase = "running", !.beating = TRUE, !.slots = slots,
                          !.outbox = outbox]
<1>3. Welcomed(p, granted) = q
  BY <1>1, <1>2 DEF Welcomed
<1>4. p \in Page /\ DOMAIN p.slots = Slot
  BY DEF PageFine, Plugged
<1>5. ASSUME NEW s \in Slot
      PROVE  /\ SeatFine(slots[s]) /\ slots[s] \in Seat
             /\ slots[s].mutation # 0 => slots[s] = p.slots[s]
  <2>1. granted[s] \in MaybeWork /\ slots[s] = Resumed(p, s, granted[s])
    BY <1>1
  <2>2. SeatFine(slots[s]) /\ (slots[s].mutation # 0 => slots[s] = p.slots[s])
    BY <1>4, <2>1, ResumedSeat
  <2> QED BY <2>2 DEF SeatFine
<1>6. slots \in [Slot -> Seat] /\ DOMAIN slots = Slot
  BY <1>1, <1>5
<1>7. outbox \in SUBSET Mutation /\ "running" \in Phases /\ "running" \in Active
  BY <1>2, <1>4 DEF Page, Phases, Active
<1>8. /\ q \in Page /\ q.phase = "running" /\ q.slots = slots /\ q.outbox = outbox
      /\ q.sent = p.sent /\ q.link = p.link
  BY <1>4, <1>6, <1>7 DEF Page
<1> HIDE DEF q
<1>9. ASSUME NEW m \in outbox
      PROVE  /\ m \in p.outbox /\ m.slot \in Slot /\ m.id <= q.sent
             /\ slots[m.slot].mutation = m.id /\ slots[m.slot].work = m.work
             /\ m.type = "SPLIT" => m.work.purpose = "SEARCH"
  <2>1. m \in p.outbox /\ slots[m.slot].mutation = m.id
    BY <1>2
  <2>2. m.id # 0 /\ m.slot \in Slot
    BY <1>7 DEF Mutation
  <2>3. slots[m.slot] = p.slots[m.slot]
    BY <1>5, <2>1, <2>2
  <2> QED BY <1>8, <2>1, <2>2, <2>3 DEF PageFine, Filed
<1>10. \A m, n \in outbox : m.id = n.id => m = n
  BY <1>9 DEF PageFine, Filed
<1>11. ASSUME NEW s \in Slot, slots[s].mutation # 0
       PROVE  \E m \in outbox : m.slot = s
  <2>1. slots[s] = p.slots[s]
    BY <1>5, <1>11
  <2>2. PICK m \in p.outbox : m.slot = s
    BY <1>4, <1>11, <2>1 DEF PageFine, Filed
  <2>3. p.slots[s].mutation = m.id
    BY <2>2 DEF PageFine, Filed
  <2> QED BY <1>2, <2>1, <2>2, <2>3
<1>12. Filed(q)
  BY <1>6, <1>8, <1>9, <1>10, <1>11 DEF Filed
<1>13. Plugged(q) /\ Quiet(q)
  BY <1>6, <1>7, <1>8 DEF Plugged, Quiet
<1>14. PageFine(q)
  BY <1>5, <1>6, <1>8, <1>12, <1>13 DEF PageFine
<1> QED BY <1>3, <1>8, <1>14

-----------------------------------------------------------------------------
(* What a step is made of.                                                 *)

\* The page takes its next state; a frame may have been taken for it.
LEMMA BecomesFine ==
  ASSUME RuntimeInv, NEW p, PageFine(p), page.link = "open" => p.link = "open",
         NEW frames, Becomes(p, frames),
         down' = down \/ (down # <<>> /\ down' = Tail(down))
  PROVE  RuntimeInv'
<1>1. /\ page' = p /\ up' = Send(p, frames) /\ hub' = hub
      /\ HubFine(hub) /\ Frames(down) /\ Wired(page.link, up, down, hub)
  BY DEF Becomes, RuntimeInv
<1>2. Frames(down')
  BY <1>1, FramesTaken
<1>3. Wired(p.link, up', down', hub)
  <2>1. CASE p.link = "open"
    BY <2>1 DEF Wired
  <2>2. CASE p.link # "open"
    BY <1>1, <2>2 DEF Wired, Send
  <2> QED BY <2>1, <2>2
<1> QED BY <1>1, <1>2, <1>3 DEF RuntimeInv

\* The page takes it with its socket stopped.
LEMMA HangsFine ==
  ASSUME RuntimeInv, NEW p, PageFine(p), Hangs(p)
  PROVE  RuntimeInv'
<1>1. /\ page' = p /\ up' = <<>> /\ down' = <<>> /\ hub' = Detached(hub) /\ HubFine(hub)
  BY DEF Hangs, RuntimeInv
<1>2. HubFine(hub') /\ hub'.attached = FALSE /\ Frames(down')
  BY <1>1, DetachedFine, FramesSent
<1> QED BY <1>1, <1>2 DEF RuntimeInv, Wired

\* The coordinator does something and pushes frames, if it is connected.
LEMMA HubStepFine ==
  ASSUME RuntimeInv, HubStays(hub, hub'), NEW frames, Frames(frames),
         down' \in {down, Push(hub, frames)}, up' = up \/ (up # <<>> /\ up' = Tail(up)),
         page' = page
  PROVE  RuntimeInv'
<1>1. /\ PageFine(page) /\ HubFine(hub') /\ hub'.attached = hub.attached /\ hub.attached \in BOOLEAN
      /\ Frames(down) /\ Wired(page.link, up, down, hub)
  BY DEF RuntimeInv, HubStays, HubFine
<1>2. Frames(down')
  BY <1>1, FramesSent DEF Push
<1>3. Wired(page.link, up', down', hub')
  BY <1>1 DEF Wired, Push
<1> QED BY <1>1, <1>2, <1>3 DEF RuntimeInv

LEMMA MutatesFine ==
  ASSUME RuntimeInv, NEW p, PageFine(p), p.link = page.link,
         NEW s \in DOMAIN p.slots, NEW w \in Work, p.slots[s].work = w,
         NEW action \in Actions, NEW verdict \in Verdicts \cup {NoVerdict},
         action = "SPLIT" => w.purpose = "SEARCH",
         Mutates(p, s, action, w, verdict), down' = down
  PROVE  RuntimeInv'
<1>1. CASE p.slots[s].mutation # 0
  <2>1. Becomes(p, <<>>)
    BY <1>1 DEF Mutates
  <2> QED BY <2>1, BecomesFine
<1>2. CASE p.slots[s].mutation = 0
  <2>1. PICK q : q = SendMutation(p, s, action, w, verdict)
    OBVIOUS
  <2>2. PageFine(q) /\ q.link = p.link
    BY <1>2, <2>1, MutationSent
  <2>3. Becomes(q, SendAll(q, {q.sent}))
    BY <1>2, <2>1 DEF Mutates
  <2> QED BY <2>2, <2>3, BecomesFine
<1> QED BY <1>1, <1>2

-----------------------------------------------------------------------------
(* The steps of the user and of the browser.                               *)

LEMMA StartFine ==
  ASSUME RuntimeInv, Start
  PROVE  RuntimeInv'
<1>1. PageFine(page) /\ page \in Page
  BY DEF RuntimeInv, PageFine
<1>2. CASE page.phase = "paused" /\ page.formula
  <2>1. PICK p : p = [page EXCEPT !.lifecycle = page.lifecycle + 1, !.phase = "loading"]
    OBVIOUS
  <2>2. page.lifecycle + 1 \in Nat /\ "loading" \in Phases /\ "loading" \in Active
    BY <1>1 DEF Page, Phases, Active
  <2>3. /\ p \in Page /\ p.phase = "loading" /\ p.slots = page.slots /\ p.outbox = page.outbox
        /\ p.link = page.link /\ p.beating = page.beating
    BY <1>1, <2>1, <2>2 DEF Page
  <2>4. /\ page.slots = NoSeats /\ page.outbox = {} /\ page.link = "none" /\ ~page.beating
    BY <1>1, <1>2 DEF PageFine, Quiet, Plugged, Active
  <2>5. PageFine(p)
    BY <2>2, <2>3, <2>4, EmptyPage
  <2>6. PageFine(CreateSlots(p)) /\ CreateSlots(p).link = page.link
    BY <2>2, <2>3, <2>5, CreatedFine
  <2>7. Becomes(CreateSlots(p), <<>>) /\ down' = down
    BY <1>2, <2>1 DEF Start
  <2> QED BY <2>6, <2>7, BecomesFine
<1>3. CASE ~(page.phase = "paused" /\ page.formula)
  <2>1. PICK p : p = [Disposed(page) EXCEPT !.phase = "loading"]
    OBVIOUS
  <2>2. PageFine(p)
    BY <1>1, <2>1, DisposedPage
  <2> DEFINE loads == p.loads \cup {page.lifecycle + 1}
             q == [p EXCEPT !.loads = loads]
  <2>3. page.lifecycle + 1 \in Nat /\ p \in Page
    BY <1>1, <2>2 DEF Page, PageFine
  <2>4. loads \in SUBSET Nat
    BY <2>3 DEF Page
  <2>5. PageFine(q)
    BY <2>2, <2>4, ListsChange
  <2>6. Disposed(page).loads = page.loads /\ p.loads = page.loads
    BY <1>1, <2>1 DEF Disposed, Unplugged, Page
  <2>7. [Disposed(page) EXCEPT !.phase = "loading",
                               !.loads = Disposed(page).loads \cup {page.lifecycle + 1}] = q
    BY <2>1, <2>6
  <2>8. Hangs(q)
    BY <1>3, <2>7 DEF Start
  <2> QED BY <2>5, <2>8, HangsFine
<1> QED BY <1>2, <1>3

LEMMA LoadFine ==
  ASSUME RuntimeInv, NEW life, NEW loaded \in BOOLEAN, LoadAnswered(life, loaded)
  PROVE  RuntimeInv'
<1>1. PageFine(page) /\ page \in Page
  BY DEF RuntimeInv, PageFine
<1>2. PICK p : p = [page EXCEPT !.loads = page.loads \ {life}]
  OBVIOUS
<1>3. page.loads \ {life} \in SUBSET Nat
  BY <1>1 DEF Page
<1>4. PageFine(p)
  BY <1>1, <1>2, <1>3, ListsChange
<1>5. p \in Page /\ p.link = page.link /\ p.phase = page.phase
  BY <1>1, <1>2, <1>4 DEF Page, PageFine
<1>6. IF life # page.lifecycle \/ (loaded /\ page.phase # "loading")
      THEN Becomes(p, <<>>) /\ down' = down
      ELSE IF loaded
      THEN Becomes(CreateSlots([p EXCEPT !.formula = TRUE]), <<>>) /\ down' = down
      ELSE Hangs(Failed(p))
  BY <1>2 DEF LoadAnswered
<1>7. CASE life # page.lifecycle \/ (loaded /\ page.phase # "loading")
  BY <1>4, <1>5, <1>6, <1>7, BecomesFine
<1>8. CASE ~(life # page.lifecycle \/ (loaded /\ page.phase # "loading")) /\ loaded
  <2>1. PICK q : q = [p EXCEPT !.formula = TRUE]
    OBVIOUS
  <2>2. /\ q \in Page /\ q.slots = p.slots /\ q.outbox = p.outbox /\ q.sent = p.sent
        /\ q.phase = p.phase /\ q.link = p.link /\ p.phase \in Active
    BY <1>5, <1>8, <2>1 DEF Page, Active
  <2>3. PageFine(q)
    BY <1>4, <2>2 DEF PageFine, Filed, Plugged, Quiet
  <2>4. PageFine(CreateSlots(q)) /\ CreateSlots(q).link = page.link
    BY <1>5, <2>2, <2>3, CreatedFine
  <2>5. Becomes(CreateSlots(q), <<>>) /\ down' = down
    BY <1>6, <1>8, <2>1
  <2> QED BY <2>4, <2>5, BecomesFine
<1>9. CASE ~(life # page.lifecycle \/ (loaded /\ page.phase # "loading")) /\ ~loaded
  <2>1. PageFine(Failed(p))
    BY <1>5, DisposedPage DEF Failed
  <2>2. Hangs(Failed(p))
    BY <1>6, <1>9
  <2> QED BY <2>1, <2>2, HangsFine
<1> QED BY <1>7, <1>8, <1>9

LEMMA PauseFine ==
  ASSUME RuntimeInv, Pause
  PROVE  RuntimeInv'
<1>1. page \in Page
  BY DEF RuntimeInv, PageFine
<1>2. PICK p : p = Unplugged(page)
  OBVIOUS
<1>3. p \in Page /\ p.link = "none" /\ p.beating = FALSE
  BY <1>1, <1>2 DEF Unplugged, Page
<1>4. PICK q : q = [p EXCEPT !.phase = "paused", !.lifecycle = p.lifecycle + 1,
                             !.slots = NoSeats, !.outbox = {}]
  OBVIOUS
<1>5. p.lifecycle + 1 \in Nat /\ "paused" \in Phases /\ {} \in SUBSET Mutation
  BY <1>3 DEF Page, Phases
<1>6. /\ q \in Page /\ q.slots = NoSeats /\ q.outbox = {} /\ q.link = "none"
      /\ q.beating = FALSE /\ q.phase = "paused"
  BY <1>3, <1>4, <1>5 DEF Page
<1>7. PageFine(q)
  BY <1>6, EmptyPage
<1>8. Hangs(q)
  BY <1>2, <1>4 DEF Pause
<1> QED BY <1>7, <1>8, HangsFine

LEMMA StopFine ==
  ASSUME RuntimeInv, Stop
  PROVE  RuntimeInv'
<1>1. page \in Page
  BY DEF RuntimeInv, PageFine
<1>2. PageFine([Disposed(page) EXCEPT !.phase = "idle"])
  BY <1>1, DisposedPage
<1>3. Hangs([Disposed(page) EXCEPT !.phase = "idle"])
  BY DEF Stop
<1> QED BY <1>2, <1>3, HangsFine

-----------------------------------------------------------------------------
(* The reports of the workers and what becomes of them.                    *)

LEMMA ReportFine ==
  ASSUME RuntimeInv, NEW s, WorkerReport(s)
  PROVE  RuntimeInv'
<1>1. /\ PageFine(page) /\ page \in Page /\ s \in DOMAIN page.slots
      /\ SeatFine(page.slots[s]) /\ page.slots[s] \in Seat
      /\ ThreadFine(page.slots[s].thread) /\ page.slots[s].thread.out # <<>>
  BY DEF RuntimeInv, PageFine, SeatFine, WorkerReport
<1>2. PICK r : r = Head(page.slots[s].thread.out)
  OBVIOUS
<1>3. PICK u : u = [page.slots[s].thread EXCEPT !.out = Tail(page.slots[s].thread.out)]
  OBVIOUS
<1>4. Keeps(page.slots[s].thread, u) /\ r \in Report /\ (r.type = "split" => r.work.purpose = "SEARCH")
  BY <1>1, <1>2, <1>3, TakenKeeps
<1>5. PICK e : e = [page.slots[s] EXCEPT !.thread = u]
  OBVIOUS
<1>6. SeatFine(e) /\ e \in Seat /\ e.work = page.slots[s].work /\ e.mutation = page.slots[s].mutation
  <2>1. /\ SeatFine(e) /\ e.work = page.slots[s].work /\ e.mutation = page.slots[s].mutation
    BY <1>1, <1>4, <1>5, WorkingSeat
  <2> QED BY <2>1 DEF SeatFine
<1>7. PICK p : p = [page EXCEPT !.slots[s] = e]
  OBVIOUS
<1>8. PageFine(p)
  BY <1>1, <1>6, <1>7, SeatPut
<1>9. /\ p \in Page /\ s \in DOMAIN p.slots /\ s \in Slot /\ p.slots[s] = e /\ p.link = page.link
  BY <1>1, <1>6, <1>7, PutSeat, SlotsOf
<1>10. [page EXCEPT !.slots[s].thread.out = Tail(page.slots[s].thread.out)] = p
  BY <1>1, <1>3, <1>5, <1>7
<1>11. IF r.type = "error" THEN Hangs(Failed(p))
       ELSE /\ UNCHANGED down
            /\ IF r.type = "ready" THEN Becomes(Readied(p, s), <<>>)
               ELSE IF p.slots[s].work # r.work THEN Becomes(p, <<>>)
               ELSE IF r.type = "result"
               THEN Becomes([p EXCEPT !.uploads = p.uploads \cup
                               {[slot |-> s, lifecycle |-> p.lifecycle, work |-> r.work,
                                 verdict |-> r.verdict, stage |-> "hash"]}], <<>>)
               ELSE Mutates(p, s, IF r.type = "split" THEN "SPLIT" ELSE "YIELD",
                            r.work, NoVerdict)
  BY <1>2, <1>10 DEF WorkerReport
<1>12. CASE r.type = "error"
  <2>1. PageFine(Failed(p))
    BY <1>9, DisposedPage DEF Failed
  <2> QED BY <1>11, <1>12, <2>1, HangsFine
<1>13. CASE r.type = "ready"
  <2>1. Becomes(Readied(p, s), <<>>) /\ down' = down
    BY <1>11, <1>13
  <2>2. PageFine(Readied(p, s)) /\ (page.link = "open" => Readied(p, s).link = "open")
    BY <1>8, <1>9, ReadiedFine
  <2> QED BY <2>1, <2>2, BecomesFine
<1>14. CASE r.type \notin {"error", "ready"} /\ p.slots[s].work # r.work
  <2>1. Becomes(p, <<>>) /\ down' = down
    BY <1>11, <1>14
  <2> QED BY <1>8, <1>9, <2>1, BecomesFine
<1>15. CASE r.type = "result" /\ p.slots[s].work = r.work
  <2> DEFINE x == [slot |-> s, lifecycle |-> p.lifecycle, work |-> r.work,
                   verdict |-> r.verdict, stage |-> "hash"]
  <2>1. x \in Upload
    BY <1>4, <1>9, <1>15 DEF Upload, Report, Page, Stages
  <2>2. PICK q : q = [p EXCEPT !.uploads = p.uploads \cup {x}]
    OBVIOUS
  <2>3. p.uploads \cup {x} \in SUBSET Upload
    BY <1>9, <2>1 DEF Page
  <2>4. Becomes(q, <<>>) /\ down' = down
    BY <1>11, <1>15, <2>2
  <2>5. PageFine(q)
    BY <1>8, <2>2, <2>3, ListsChange
  <2>6. q.link = page.link
    BY <1>9, <2>2 DEF Page
  <2> QED BY <2>4, <2>5, <2>6, BecomesFine
<1>16. CASE r.type \in {"split", "yield"} /\ p.slots[s].work = r.work
  <2>1. PICK action : action = IF r.type = "split" THEN "SPLIT" ELSE "YIELD"
    OBVIOUS
  <2>2. action \in Actions /\ (action = "SPLIT" => r.work.purpose = "SEARCH")
        /\ NoVerdict \in Verdicts \cup {NoVerdict}
    BY <1>4, <2>1 DEF Actions
  <2>3. r.work \in Work
    BY <1>4, <1>16 DEF Report
  <2>4. Mutates(p, s, action, r.work, NoVerdict) /\ down' = down
    BY <1>11, <1>16, <2>1
  <2> QED BY <1>8, <1>9, <1>16, <2>2, <2>3, <2>4, MutatesFine
<1>17. r.type \in {"error", "ready", "result", "split", "yield"}
  BY <1>4 DEF Report
<1> QED BY <1>12, <1>13, <1>14, <1>15, <1>16, <1>17

\* An upload is forgotten.
LEMMA ForgottenFine ==
  ASSUME RuntimeInv, NEW u \in page.uploads
  PROVE  /\ PageFine(WithoutUpload(u)) /\ WithoutUpload(u).link = page.link
         /\ WithoutUpload(u) \in Page /\ u \in Upload
         /\ IsCurrentResult(WithoutUpload(u), u) =>
              /\ u.slot \in DOMAIN WithoutUpload(u).slots
              /\ WithoutUpload(u).slots[u.slot].work = u.work
<1>1. PageFine(page) /\ page \in Page
  BY DEF RuntimeInv, PageFine
<1>2. page.uploads \ {u} \in SUBSET Upload /\ u \in Upload
  BY <1>1 DEF Page
<1>3. PageFine(WithoutUpload(u))
  BY <1>1, <1>2, ListsChange DEF WithoutUpload
<1>4. WithoutUpload(u).link = page.link
  BY <1>1 DEF WithoutUpload, Page
<1> QED BY <1>2, <1>3, <1>4 DEF IsCurrentResult, PageFine

LEMMA HashedFine ==
  ASSUME RuntimeInv, NEW u \in page.uploads, ResultHashed(u)
  PROVE  RuntimeInv'
<1>1. PICK p : p = WithoutUpload(u)
  OBVIOUS
<1>2. /\ PageFine(p) /\ p.link = page.link /\ p \in Page /\ u \in Upload
      /\ IsCurrentResult(p, u) => u.slot \in DOMAIN p.slots /\ p.slots[u.slot].work = u.work
  BY <1>1, ForgottenFine
<1>3. /\ down' = down
      /\ IF ~IsCurrentResult(p, u) THEN Becomes(p, <<>>)
         ELSE IF HasArtifact(u)
         THEN Becomes([p EXCEPT !.uploads = p.uploads \cup {[u EXCEPT !.stage = "upload"]}], <<>>)
         ELSE Mutates(p, u.slot, "RESULT", u.work, u.verdict)
  BY <1>1 DEF ResultHashed
<1>4. CASE ~IsCurrentResult(p, u)
  BY <1>2, <1>3, <1>4, BecomesFine
<1>5. CASE IsCurrentResult(p, u) /\ HasArtifact(u)
  <2>1. [u EXCEPT !.stage = "upload"] \in Upload
    BY <1>2 DEF Upload, Stages
  <2>2. PICK q : q = [p EXCEPT !.uploads = p.uploads \cup {[u EXCEPT !.stage = "upload"]}]
    OBVIOUS
  <2>3. p.uploads \cup {[u EXCEPT !.stage = "upload"]} \in SUBSET Upload
    BY <1>2, <2>1 DEF Page
  <2>4. PageFine(q)
    BY <1>2, <2>2, <2>3, ListsChange
  <2>5. q.link = page.link
    BY <1>2, <2>2 DEF Page
  <2>6. Becomes(q, <<>>)
    BY <1>3, <1>5, <2>2
  <2> QED BY <1>3, <2>4, <2>5, <2>6, BecomesFine
<1>6. CASE IsCurrentResult(p, u) /\ ~HasArtifact(u)
  <2>1. "RESULT" \in Actions /\ u.work \in Work /\ u.verdict \in Verdicts \cup {NoVerdict}
    BY <1>2 DEF Actions, Upload
  <2>2. Mutates(p, u.slot, "RESULT", u.work, u.verdict)
    BY <1>3, <1>6
  <2> QED BY <1>2, <1>3, <1>6, <2>1, <2>2, MutatesFine
<1> QED BY <1>4, <1>5, <1>6

LEMMA UploadFine ==
  ASSUME RuntimeInv, NEW u \in page.uploads, UploadHandled(u)
  PROVE  RuntimeInv'
<1>1. PICK p : p = WithoutUpload(u)
  OBVIOUS
<1>2. PageFine(p) /\ p.link = page.link /\ p \in Page /\ u \in Upload
  BY <1>1, ForgottenFine
<1>3. PICK stage \in Stages :
        /\ page' = [p EXCEPT !.uploads = p.uploads \cup {[u EXCEPT !.stage = stage]}]
        /\ UNCHANGED <<up, down, hub>>
  BY <1>1 DEF UploadHandled, Stages
<1>4. [u EXCEPT !.stage = stage] \in Upload
  BY <1>2 DEF Upload
<1>5. p.uploads \cup {[u EXCEPT !.stage = stage]} \in SUBSET Upload
  BY <1>2, <1>4 DEF Page
<1>6. PageFine(page')
  BY <1>2, <1>3, <1>5, ListsChange
<1>7. page'.link = page.link
  BY <1>2, <1>3 DEF Page
<1> QED BY <1>3, <1>6, <1>7 DEF RuntimeInv

LEMMA AnswerFine ==
  ASSUME RuntimeInv, NEW u \in page.uploads, NEW answer, UploadAnswered(u, answer)
  PROVE  RuntimeInv'
<1>1. PICK p : p = WithoutUpload(u)
  OBVIOUS
<1>2. /\ PageFine(p) /\ p.link = page.link /\ p \in Page /\ u \in Upload
      /\ IsCurrentResult(p, u) => u.slot \in DOMAIN p.slots /\ p.slots[u.slot].work = u.work
  BY <1>1, ForgottenFine
<1>3. IF answer = "rejected" \/ ~IsCurrentResult(p, u)
      THEN Becomes(p, <<>>) /\ down' = down
      ELSE IF u.stage = "refused" THEN Hangs(Failed(p))
      ELSE Mutates(p, u.slot, "RESULT", u.work, u.verdict) /\ down' = down
  BY <1>1 DEF UploadAnswered
<1>4. CASE answer = "rejected" \/ ~IsCurrentResult(p, u)
  BY <1>2, <1>3, <1>4, BecomesFine
<1>5. CASE ~(answer = "rejected" \/ ~IsCurrentResult(p, u)) /\ u.stage = "refused"
  <2>1. PageFine(Failed(p))
    BY <1>2, DisposedPage DEF Failed
  <2>2. Hangs(Failed(p))
    BY <1>3, <1>5
  <2> QED BY <2>1, <2>2, HangsFine
<1>6. CASE ~(answer = "rejected" \/ ~IsCurrentResult(p, u)) /\ u.stage # "refused"
  <2>1. "RESULT" \in Actions /\ u.work \in Work /\ u.verdict \in Verdicts \cup {NoVerdict}
    BY <1>2 DEF Actions, Upload
  <2>2. Mutates(p, u.slot, "RESULT", u.work, u.verdict) /\ down' = down
    BY <1>3, <1>6
  <2> QED BY <1>2, <1>6, <2>1, <2>2, MutatesFine
<1> QED BY <1>4, <1>5, <1>6

-----------------------------------------------------------------------------
(* The steps of the workers and of the socket.                             *)

LEMMA ContinuesFine ==
  ASSUME RuntimeInv, NEW s \in DOMAIN page.slots, NEW threads,
         \A t \in threads : Keeps(page.slots[s].thread, t), Continues(s, threads)
  PROVE  RuntimeInv'
<1>1. PageFine(page) /\ page \in Page /\ SeatFine(page.slots[s])
  BY DEF RuntimeInv, PageFine
<1>2. PICK t \in threads : page' = [page EXCEPT !.slots[s].thread = t]
  BY DEF Continues
<1>3. PICK e : e = [page.slots[s] EXCEPT !.thread = t]
  OBVIOUS
<1>4. SeatFine(e) /\ e.work = page.slots[s].work /\ e.mutation = page.slots[s].mutation
  BY <1>1, <1>3, WorkingSeat
<1>5. page' = [page EXCEPT !.slots[s] = e]
  BY <1>2, <1>3
<1>6. PageFine(page')
  BY <1>1, <1>4, <1>5, SeatPut
<1>7. page'.link = page.link
  BY <1>1, <1>5 DEF Page
<1>8. up' = up /\ down' = down /\ hub' = hub
  BY DEF Continues
<1> QED BY <1>6, <1>7, <1>8 DEF RuntimeInv

LEMMA WorkersFine ==
  ASSUME RuntimeInv, NEW s, Deliver(s) \/ Begin(s) \/ Interrupt(s) \/ Slice(s)
  PROVE  RuntimeInv'
<1>1. PICK t : t = page.slots[s].thread
  OBVIOUS
<1>2. s \in DOMAIN page.slots /\ ThreadFine(t)
  BY <1>1 DEF RuntimeInv, PageFine, SeatFine, Deliver, Begin, Interrupt, Slice
<1>3. CASE Deliver(s)
  <2>1. Keeps(t, Delivered(t)) /\ Continues(s, {Delivered(t)})
    BY <1>1, <1>2, <1>3, DeliveredKeeps DEF Deliver
  <2>2. PICK threads : threads = {Delivered(t)}
    OBVIOUS
  <2> QED BY <1>1, <1>2, <2>1, <2>2, ContinuesFine
<1>4. CASE Begin(s)
  <2>1. Keeps(t, Begun(t)) /\ Continues(s, {Begun(t)})
    BY <1>1, <1>2, <1>4, BegunKeeps DEF Begin
  <2>2. PICK threads : threads = {Begun(t)}
    OBVIOUS
  <2> QED BY <1>1, <1>2, <2>1, <2>2, ContinuesFine
<1>5. CASE Interrupt(s)
  <2>1. Keeps(t, Interrupted(t)) /\ Continues(s, {Interrupted(t)})
    BY <1>1, <1>2, <1>5, SlicesKeep DEF Interrupt
  <2>2. PICK threads : threads = {Interrupted(t)}
    OBVIOUS
  <2> QED BY <1>1, <1>2, <2>1, <2>2, ContinuesFine
<1>6. CASE Slice(s)
  <2>1. (\A u \in Slices(t) : Keeps(t, u)) /\ Continues(s, Slices(t))
    BY <1>1, <1>2, <1>6, SlicesKeep DEF Slice
  <2>2. PICK threads : threads = Slices(t)
    OBVIOUS
  <2> QED BY <1>1, <1>2, <2>1, <2>2, ContinuesFine
<1> QED BY <1>3, <1>4, <1>5, <1>6

LEMMA OpenedFine ==
  ASSUME RuntimeInv, SocketOpened
  PROVE  RuntimeInv'
<1>1. PageFine(page) /\ page \in Page /\ page.link # "none" /\ HubFine(hub)
  BY DEF RuntimeInv, PageFine, SocketOpened
<1>2. page.phase \in Active /\ DOMAIN page.slots = Slot
  BY <1>1 DEF PageFine, Plugged
<1>3. PICK q : q = [page EXCEPT !.phase = page.phase, !.link = "open"]
  OBVIOUS
<1>4. PageFine(q) /\ q.link = "open"
  BY <1>1, <1>2, <1>3, LinkedFine
<1>5. page' = q /\ down' = <<>> /\ hub' = hub
  BY <1>1, <1>3 DEF SocketOpened, Page
<1> QED BY <1>1, <1>4, <1>5, FramesSent DEF RuntimeInv, Wired

LEMMA LostFine ==
  ASSUME RuntimeInv, SocketLost
  PROVE  RuntimeInv'
<1>1. PageFine(page) /\ page \in Page /\ page.link # "none" /\ HubFine(hub)
  BY DEF RuntimeInv, PageFine, SocketLost
<1>2. "connecting" \in Active /\ DOMAIN page.slots = Slot
  BY <1>1 DEF PageFine, Plugged, Active
<1>3. PICK q : q = [page EXCEPT !.phase = "connecting", !.link = "retry"]
  OBVIOUS
<1>4. PageFine(q) /\ q.link = "retry"
  BY <1>1, <1>2, <1>3, LinkedFine
<1>5. page' = q /\ up' = <<>> /\ down' = <<>> /\ hub' = Detached(hub)
  BY <1>1, <1>3 DEF SocketLost, Page
<1>6. HubFine(hub') /\ hub'.attached = FALSE
  BY <1>1, <1>5, DetachedFine
<1> QED BY <1>4, <1>5, <1>6, FramesSent DEF RuntimeInv, Wired

LEMMA ReceiveFine ==
  ASSUME RuntimeInv, Receive
  PROVE  RuntimeInv'
<1>1. PICK f : f = Head(down)
  OBVIOUS
<1>2. down # <<>> /\ PageFine(page) /\ page \in Page /\ FrameFine(f) /\ page.link = "open"
  BY <1>1, FramesTaken DEF Receive, RuntimeInv, PageFine, Wired
<1>3. DOMAIN page.slots = Slot
  BY <1>2 DEF PageFine, Plugged
<1>4. ASSUME NEW p, PageFine(p), p.link = page.link, NEW frames,
             Becomes(p, frames), down' = Tail(down)
      PROVE  RuntimeInv'
  BY <1>2, <1>4, BecomesFine
<1>5. CASE f.type = "WELCOME"
  <2>1. PICK p : p = Welcomed(page, f.granted)
    OBVIOUS
  <2>2. Becomes(p, OutboxInOrder(p)) /\ down' = Tail(down)
    BY <1>1, <1>5, <2>1 DEF Receive
  <2>3. f.granted \in [Slot -> MaybeWork]
    BY <1>2, <1>5 DEF FrameFine
  <2>4. PageFine(p) /\ p.link = page.link
    BY <1>2, <2>1, <2>3, WelcomedFine
  <2> QED BY <1>4, <2>2, <2>4
<1>6. CASE f.type = "WORK"
  <2>1. Becomes(Assigned(page, f.slot, f.work), <<>>) /\ down' = Tail(down)
    BY <1>1, <1>6 DEF Receive
  <2>2. f.slot \in DOMAIN page.slots /\ f.work \in Work
    BY <1>2, <1>3, <1>6 DEF FrameFine
  <2>3. PageFine(Assigned(page, f.slot, f.work)) /\ Assigned(page, f.slot, f.work).link = page.link
    BY <1>2, <2>2, AssignedFine
  <2> QED BY <1>4, <2>1, <2>3
<1>7. CASE f.type = "SPLIT_PERMIT"
  <2>1. Becomes(Permitted(page, f.slot, f.work), <<>>) /\ down' = Tail(down)
    BY <1>1, <1>7 DEF Receive
  <2>2. f.slot \in DOMAIN page.slots /\ f.work \in Work
    BY <1>2, <1>3, <1>7 DEF FrameFine
  <2>3. PageFine(Permitted(page, f.slot, f.work)) /\ Permitted(page, f.slot, f.work).link = page.link
    BY <1>2, <2>2, PermittedFine
  <2> QED BY <1>4, <2>1, <2>3
<1>8. CASE f.type = "ACK"
  <2>1. Becomes(Acknowledged(page, f.id, f.action), <<>>) /\ down' = Tail(down)
    BY <1>1, <1>8 DEF Receive
  <2>2. /\ PageFine(Acknowledged(page, f.id, f.action))
        /\ Acknowledged(page, f.id, f.action).link = page.link
    BY <1>2, RepliesFine
  <2> QED BY <1>4, <2>1, <2>2
<1>9. CASE f.type = "ERROR" /\ ErrorIsFatal(page, f)
  <2>1. Hangs(Failed(page))
    BY <1>1, <1>9 DEF Receive
  <2>2. PageFine(Failed(page))
    BY <1>2, DisposedPage DEF Failed
  <2> QED BY <2>1, <2>2, HangsFine
<1>10. CASE f.type = "ERROR" /\ ~ErrorIsFatal(page, f)
  <2>1. Becomes(Erred(page, f), <<>>) /\ down' = Tail(down)
    BY <1>1, <1>10 DEF Receive
  <2>2. PageFine(Erred(page, f)) /\ Erred(page, f).link = page.link
    BY <1>2, RepliesFine
  <2> QED BY <1>4, <2>1, <2>2
<1>11. CASE f.type = "JOB_OVER"
  <2>1. Hangs([Disposed(page) EXCEPT !.phase = "complete"])
    BY <1>1, <1>11 DEF Receive
  <2>2. PageFine([Disposed(page) EXCEPT !.phase = "complete"])
    BY <1>2, DisposedPage
  <2> QED BY <2>1, <2>2, HangsFine
<1>12. f.type \in {"WELCOME", "WORK", "SPLIT_PERMIT", "ACK", "ERROR", "JOB_OVER"}
  BY <1>2 DEF FrameFine
<1> QED BY <1>5, <1>6, <1>7, <1>8, <1>9, <1>10, <1>11, <1>12

-----------------------------------------------------------------------------
(* The steps of the coordinator.                                           *)

LEMMA HubReceiveFine ==
  ASSUME RuntimeInv, HubReceive
  PROVE  RuntimeInv'
<1>1. /\ PageFine(page) /\ HubFine(hub) /\ Frames(down) /\ up # <<>> /\ page.link = "open"
      /\ up' = Tail(up) /\ page' = page
  BY DEF RuntimeInv, Wired, HubReceive
<1>2. ASSUME NEW leases \in Offers(hub), hub' = Greeted(hub, leases),
             down' = Append(down, [type |-> "WELCOME", granted |-> leases])
      PROVE  RuntimeInv'
  <2>1. leases \in [Slot -> MaybeWork]
    BY <1>2 DEF Offers, MaybeWork
  <2>2. HubFine(hub')
    BY <1>1, <1>2, <2>1, GreetedFine
  <2>3. FrameFine([type |-> "WELCOME", granted |-> leases])
    BY <2>1 DEF FrameFine
  <2>4. Frames(down')
    BY <1>1, <1>2, <2>3, FramesSent
  <2> QED BY <1>1, <2>2, <2>4 DEF RuntimeInv, Wired
<1>3. ASSUME hub' = hub, down' = Append(down, Refusal)
      PROVE  RuntimeInv'
  <2>1. FrameFine(Refusal)
    BY DEF FrameFine, Refusal
  <2>2. Frames(down')
    BY <1>1, <1>3, <2>1, FramesSent
  <2> QED BY <1>1, <1>3, <2>2 DEF RuntimeInv, Wired
<1>4. ASSUME NEW o \in Outcomes(hub, Head(up)), hub' = o[1], down' = Push(hub, o[2])
      PROVE  RuntimeInv'
  <2>1. HubStays(hub, hub') /\ Frames(o[2])
    BY <1>1, <1>4, OutcomesFine
  <2>2. PICK frames : frames = o[2]
    OBVIOUS
  <2> QED BY <1>1, <1>4, <2>1, <2>2, HubStepFine
<1> QED BY <1>2, <1>3, <1>4 DEF HubReceive

LEMMA HubReceiveLateFine ==
  ASSUME RuntimeInv, HubReceiveLate
  PROVE  RuntimeInv'
<1>1. HubFine(hub) /\ down' = down /\ up' = up /\ page' = page
  BY DEF RuntimeInv, HubReceiveLate
<1>2. HubStays(hub, hub')
  <2>1. CASE Head(late).type = "CLOSE"
    <3> DEFINE g == [s \in Slot |-> NoWork]
    <3>1. g \in [Slot -> MaybeWork]
      BY DEF MaybeWork
    <3>2. hub' = hub \/ hub' = [hub EXCEPT !.granted = g, !.known = FALSE]
      BY <2>1 DEF HubReceiveLate
    <3> HIDE DEF g
    <3>3. HubStays(hub, hub)
      BY <1>1, HubChanges
    <3>4. \A x : HubStays(hub, [hub EXCEPT !.granted = g, !.known = x])
      BY <1>1, <3>1, HubChanges
    <3> QED BY <3>2, <3>3, <3>4
  <2>2. CASE Head(late).type # "CLOSE"
    <3>1. PICK o \in Outcomes(hub, Head(late)) : hub' = o[1]
      BY <2>2 DEF HubReceiveLate
    <3> QED BY <1>1, <3>1, OutcomesFine
  <2> QED BY <2>1, <2>2
<1>3. Frames(<<>>)
  BY FramesSent
<1> QED BY <1>1, <1>2, <1>3, HubStepFine

LEMMA VerifiedFine ==
  ASSUME RuntimeInv, NEW v, Verified(v)
  PROVE  RuntimeInv'
<1>1. HubFine(hub) /\ up' = up /\ page' = page
  BY DEF RuntimeInv, Verified
<1>2. PICK g : g = [hub EXCEPT !.verifying = hub.verifying \ {v}]
  OBVIOUS
<1>3. HubStays(hub, g)
  BY <1>1, <1>2, HubChanges
<1>4. HubStays(g, [g EXCEPT !.processed = g.processed \cup {v.m.id}])
  BY <1>3, HubChanges DEF HubStays
<1>5. hub' = [g EXCEPT !.processed = g.processed \cup {v.m.id}]
  BY <1>2 DEF Verified, Processed
<1>6. HubStays(hub, hub')
  BY <1>3, <1>4, <1>5 DEF HubStays
<1>7. Frames(<<AckOf(v.m)>>)
  <2>1. FrameFine(AckOf(v.m))
    BY DEF FrameFine, AckOf
  <2> QED BY <2>1, FramesSent
<1>8. PICK frames : frames = <<AckOf(v.m)>>
  OBVIOUS
<1>9. down' \in {down, Push(hub, frames)}
  BY <1>8 DEF Verified
<1> QED BY <1>1, <1>6, <1>7, <1>8, <1>9, HubStepFine

LEMMA AssignFine ==
  ASSUME RuntimeInv, NEW s \in Slot, Assign(s)
  PROVE  RuntimeInv'
<1>1. HubFine(hub) /\ up' = up /\ page' = page
  BY DEF RuntimeInv, Assign
<1>2. PICK w \in Grants(hub, s) :
        /\ hub' = Leased(hub, s, w)
        /\ down' = Push(hub, <<[type |-> "WORK", slot |-> s, work |-> w]>>)
  BY DEF Assign
<1>3. w \in Work
  BY <1>2 DEF Grants
<1> DEFINE g == [hub.granted EXCEPT ![s] = w]
           x == [hub.issued EXCEPT ![s] = w.lease]
<1>4. g \in [Slot -> MaybeWork]
  BY <1>1, <1>3 DEF HubFine, MaybeWork
<1>5. hub' = [hub EXCEPT !.granted = g, !.issued = x]
  BY <1>1, <1>2 DEF Leased, HubFine
<1> HIDE DEF g, x
<1>6. HubStays(hub, hub')
  BY <1>1, <1>4, <1>5, HubChanges
<1>7. FrameFine([type |-> "WORK", slot |-> s, work |-> w])
  BY <1>3 DEF FrameFine
<1>8. PICK frames : frames = <<[type |-> "WORK", slot |-> s, work |-> w]>>
  OBVIOUS
<1>9. Frames(frames)
  BY <1>7, <1>8, FramesSent
<1>10. down' \in {down, Push(hub, frames)}
  BY <1>2, <1>8
<1> QED BY <1>1, <1>6, <1>9, <1>10, HubStepFine

LEMMA PermitFine ==
  ASSUME RuntimeInv, NEW s \in Slot, Permit(s)
  PROVE  RuntimeInv'
<1>1. HubFine(hub) /\ up' = up /\ page' = page
  BY DEF RuntimeInv, Permit
<1>2. hub.granted[s] \in Work
  BY <1>1 DEF Permit, HubFine, MaybeWork
<1> DEFINE x == [hub.permits EXCEPT ![s] = hub.permits[s] + 1]
<1>3. hub' = [hub EXCEPT !.permits = x]
  BY <1>1 DEF Permit, HubFine
<1> HIDE DEF x
<1>4. HubStays(hub, hub')
  BY <1>1, <1>3, HubChanges
<1>5. FrameFine([type |-> "SPLIT_PERMIT", slot |-> s, work |-> hub.granted[s]])
  BY <1>2 DEF FrameFine
<1>6. PICK frames : frames = <<[type |-> "SPLIT_PERMIT", slot |-> s, work |-> hub.granted[s]]>>
  OBVIOUS
<1>7. Frames(frames)
  BY <1>5, <1>6, FramesSent
<1>8. down' \in {down, Push(hub, frames)}
  BY <1>6 DEF Permit
<1> QED BY <1>1, <1>4, <1>7, <1>8, HubStepFine

LEMMA ExpireFine ==
  ASSUME RuntimeInv, NEW s \in Slot, Expire(s)
  PROVE  RuntimeInv'
<1>1. HubFine(hub) /\ up' = up /\ page' = page /\ down' = down
  BY DEF RuntimeInv, Expire
<1> DEFINE g == [hub.granted EXCEPT ![s] = NoWork]
<1>2. g \in [Slot -> MaybeWork]
  BY <1>1 DEF HubFine, MaybeWork
<1>3. hub' = [hub EXCEPT !.granted = g]
  BY <1>1 DEF Expire, HubFine
<1> HIDE DEF g
<1>4. HubStays(hub, hub')
  BY <1>1, <1>2, <1>3, HubChanges
<1> QED BY <1>1, <1>4, FramesSent, HubStepFine

LEMMA EndJobFine ==
  ASSUME RuntimeInv, EndJob
  PROVE  RuntimeInv'
<1>1. HubFine(hub) /\ up' = up /\ page' = page
  BY DEF RuntimeInv, EndJob
<1> DEFINE g == [s \in Slot |-> NoWork]
<1>2. g \in [Slot -> MaybeWork]
  BY DEF MaybeWork
<1>3. hub' = [hub EXCEPT !.over = TRUE, !.granted = g]
  BY DEF EndJob
<1> HIDE DEF g
<1>4. HubStays(hub, hub')
  BY <1>1, <1>2, <1>3, HubChanges
<1>5. FrameFine([type |-> "JOB_OVER"])
  BY DEF FrameFine
<1>6. PICK frames : frames = <<[type |-> "JOB_OVER"]>>
  OBVIOUS
<1>7. Frames(frames)
  BY <1>5, <1>6, FramesSent
<1>8. down' \in {down, Push(hub, frames)}
  BY <1>6 DEF EndJob
<1> QED BY <1>1, <1>4, <1>7, <1>8, HubStepFine

-----------------------------------------------------------------------------
(* The invariant, and what it is for.                                      *)

LEMMA InitFine == Init => RuntimeInv
<1> SUFFICES ASSUME Init PROVE RuntimeInv
  OBVIOUS
<1>1. page = NewPage /\ up = <<>> /\ down = <<>> /\ hub = NewHub
  BY DEF Init
<1>2. page \in Page
  BY <1>1 DEF NewPage, Page, Phases
<1>3. /\ page.slots = NoSeats /\ page.outbox = {} /\ page.link = "none" /\ ~page.beating
      /\ page.formula = FALSE
  BY <1>1 DEF NewPage
<1>4. PageFine(page)
  BY <1>2, <1>3, EmptyPage
<1>5. HubFine(hub) /\ hub.attached = FALSE
  BY <1>1 DEF NewHub, HubFine, MaybeWork
<1> QED BY <1>1, <1>4, <1>5, FramesSent DEF RuntimeInv, Wired

LEMMA NextFine == RuntimeInv /\ [Next]_vars => RuntimeInv'
<1> SUFFICES ASSUME RuntimeInv, [Next]_vars PROVE RuntimeInv'
  OBVIOUS
<1>1. CASE PageStep
  <2>1. CASE Start
    BY <2>1, StartFine
  <2>2. CASE Pause
    BY <2>2, PauseFine
  <2>3. CASE Stop
    BY <2>3, StopFine
  <2>4. ASSUME NEW life \in page.loads, LoadAnswered(life, TRUE) \/ LoadAnswered(life, FALSE)
        PROVE  RuntimeInv'
    <3>1. PICK loaded \in BOOLEAN : LoadAnswered(life, loaded)
      BY <2>4
    <3> QED BY <3>1, LoadFine
  <2>5. ASSUME NEW s \in Slot, WorkerReport(s) PROVE RuntimeInv'
    BY <2>5, ReportFine
  <2>6. ASSUME NEW u \in page.uploads, ResultHashed(u) PROVE RuntimeInv'
    BY <2>6, HashedFine
  <2>7. ASSUME NEW u \in page.uploads, UploadHandled(u) PROVE RuntimeInv'
    BY <2>7, UploadFine
  <2>8. ASSUME NEW u \in page.uploads, NEW answer, UploadAnswered(u, answer) PROVE RuntimeInv'
    BY <2>8, AnswerFine
  <2>9. CASE SocketOpened
    BY <2>9, OpenedFine
  <2>10. CASE SocketLost
    BY <2>10, LostFine
  <2>11. CASE Receive
    BY <2>11, ReceiveFine
  <2> QED BY <1>1, <2>1, <2>2, <2>3, <2>4, <2>5, <2>6, <2>7, <2>8, <2>9, <2>10, <2>11 DEF PageStep
<1>2. CASE WorkerStep
  BY <1>2, WorkersFine DEF WorkerStep
<1>3. CASE HubStep
  <2>1. CASE HubReceive
    BY <2>1, HubReceiveFine
  <2>2. CASE HubReceiveLate
    BY <2>2, HubReceiveLateFine
  <2>3. ASSUME NEW v \in hub.verifying, Verified(v) PROVE RuntimeInv'
    BY <2>3, VerifiedFine
  <2>4. ASSUME NEW s \in Slot, Assign(s) PROVE RuntimeInv'
    BY <2>4, AssignFine
  <2>5. ASSUME NEW s \in Slot, Permit(s) PROVE RuntimeInv'
    BY <2>5, PermitFine
  <2>6. ASSUME NEW s \in Slot, Expire(s) PROVE RuntimeInv'
    BY <2>6, ExpireFine
  <2>7. CASE EndJob
    BY <2>7, EndJobFine
  <2> QED BY <1>3, <2>1, <2>2, <2>3, <2>4, <2>5, <2>6, <2>7 DEF HubStep
<1>4. CASE UNCHANGED vars
  BY <1>4 DEF vars, RuntimeInv
<1> QED BY <1>1, <1>2, <1>3, <1>4 DEF Next

LEMMA RuntimeInductive == Spec => []RuntimeInv
<1>1. Init => RuntimeInv
  BY InitFine
<1>2. RuntimeInv /\ [Next]_vars => RuntimeInv'
  BY NextFine
<1> QED BY <1>1, <1>2, PTL DEF Spec

\* The messages that wait for their answers and the mutations the slots wait
\* with are the same, and of the very work the slot holds: no answer reaches a
\* slot that has moved on, whatever was lost, sent again or assigned meanwhile
\* (sendMutation, acknowledgeMutation, clearSlotWork and the WELCOME handler of
\* cubeRuntime.ts).
THEOREM OutboxAgrees == Spec => []OutboxMatchesSlots
<1>1. RuntimeInv => OutboxMatchesSlots
  BY DEF RuntimeInv, PageFine, Filed, OutboxMatchesSlots
<1> QED BY <1>1, RuntimeInductive, PTL

\* A runtime that was paused, was stopped, failed or has seen its job end holds
\* no worker, no socket, no timer, no message and, unless paused, no formula
\* (dispose, fail and pause of cubeRuntime.ts), and no frame reaches it.
THEOREM QuietInactive == Spec => []QuietWhenInactive
<1>1. RuntimeInv => QuietWhenInactive
  <2> SUFFICES ASSUME RuntimeInv, page.phase \notin Active
               PROVE  /\ page.slots = NoSeats /\ page.outbox = {} /\ page.link = "none"
                      /\ ~page.beating /\ down = <<>>
                      /\ page.formula => page.phase = "paused"
    BY DEF QuietWhenInactive
  <2>1. Quiet(page) /\ Plugged(page) /\ Wired(page.link, up, down, hub)
    BY DEF RuntimeInv, PageFine
  <2>2. page.link = "none"
    BY <2>1 DEF Plugged
  <2>3. down = <<>>
    BY <2>1, <2>2 DEF Wired
  <2> QED BY <2>1, <2>2, <2>3 DEF Quiet
<1> QED BY <1>1, RuntimeInductive, PTL

\* What Finds and Fresh say is what the property says.
LEMMA SolverFound ==
  ASSUME NEW t, ThreadFine(t), NEW i \in Runs(t)
  PROVE  LET j == LastInitialize(t, i)
             w == Commands(t)[i].work
         IN  /\ w.purpose = IF j = 0 THEN t.mode ELSE Commands(t)[j].mode
             /\ w.purpose = "PROOF_FINISHER" => \A k \in Runs(t) : k < i => k < j
<1>1. PICK c : c = Commands(t)
  OBVIOUS
<1>2. c \in Seq(Command) /\ Served(c, t.mode)
  <2>1. t.chain \in Seq(Command) /\ t.inbox \in Seq(Command)
    BY DEF ThreadFine, Thread
  <2> QED BY <1>1, <2>1, ConcatProperties DEF Commands, ThreadFine
<1>3. DOMAIN c = 1..Len(c) /\ Len(c) \in Nat
  BY <1>2, LenProperties
<1>4. i \in 1..Len(c) /\ IsRun(c, i)
  BY <1>1, <1>3 DEF Runs, IsRun
<1>5. /\ Finds(c, t.mode, i, c[i].work.purpose)
      /\ c[i].work.purpose = "PROOF_FINISHER" => Fresh(c, i - 1)
  BY <1>2, <1>4 DEF Served
<1>6. PICK j \in 0..i : /\ IF j = 0 THEN c[i].work.purpose = t.mode
                           ELSE IsInit(c, j) /\ c[i].work.purpose = c[j].mode
                        /\ \A k \in 1..i : k > j => ~IsInit(c, k)
  BY <1>5 DEF Finds
<1>7. PICK S : S = {0} \cup {k \in 1..i : c[k].type = "initialize"}
  OBVIOUS
<1>8. j \in S /\ \A k \in S : k \in Int /\ j >= k
  BY <1>4, <1>6, <1>7 DEF IsInit
<1>9. Max(S) \in S /\ \A k \in S : Max(S) >= k
  <2>1. \E x \in S : \A y \in S : x >= y
    BY <1>8
  <2> QED BY <2>1 DEF Max
<1>10. LastInitialize(t, i) = j
  <2>1. PICK x : x = Max(S)
    OBVIOUS
  <2>2. x \in Int /\ j \in Int /\ x >= j /\ j >= x
    BY <1>8, <1>9, <2>1
  <2>3. Max(S) = j
    BY <2>1, <2>2
  <2> QED BY <1>1, <1>7, <2>3 DEF LastInitialize
<1>11. ASSUME c[i].work.purpose = "PROOF_FINISHER", NEW k \in Runs(t), k < i
       PROVE  k < j
  <2>1. k \in 1..i - 1 /\ IsRun(c, k)
    BY <1>1, <1>3, <1>4, <1>11 DEF Runs, IsRun
  <2>2. PICK l \in k..i - 1 : IsInit(c, l)
    BY <1>5, <1>11, <2>1 DEF Fresh
  <2>3. l # k
    BY <2>1, <2>2 DEF IsInit, IsRun
  <2>4. l \in S
    BY <1>4, <1>7, <2>1, <2>2 DEF IsInit
  <2> QED BY <1>6, <1>8, <2>1, <2>2, <2>3, <2>4
<1>12. c[i].work.purpose = IF j = 0 THEN t.mode ELSE c[j].mode
  BY <1>6
<1> QED BY <1>1, <1>10, <1>11, <1>12

\* Whatever was posted to a worker and however its tasks were replaced, a run
\* finds a solver that was made for its purpose, and a proof's run a solver that
\* no other run has used (initializeSlot, runTask and replaceSlotWork of
\* cubeRuntime.ts against the promise chain of cube.worker.ts).
THEOREM RunsFind == Spec => []RunsFindTheirSolver
<1>1. RuntimeInv => RunsFindTheirSolver
  <2> SUFFICES ASSUME RuntimeInv, NEW s \in DOMAIN page.slots,
                      NEW t, t = page.slots[s].thread
               PROVE  /\ t.run # NoWork => t.run.purpose = t.mode
                      /\ \A i \in Runs(t) :
                           LET j == LastInitialize(t, i)
                               w == Commands(t)[i].work
                           IN  /\ w.purpose = IF j = 0 THEN t.mode ELSE Commands(t)[j].mode
                               /\ w.purpose = "PROOF_FINISHER" =>
                                    \A k \in Runs(t) : k < i => k < j
    BY DEF RunsFindTheirSolver
  <2>1. ThreadFine(t)
    BY DEF RuntimeInv, PageFine, SeatFine
  <2>2. t.run # NoWork => t.run.purpose = t.mode
    BY <2>1 DEF ThreadFine
  <2> QED BY <2>1, <2>2, SolverFound
<1> QED BY <1>1, RuntimeInductive, PTL

=============================================================================
