----------------------------- MODULE Swarm_proofs -----------------------------
(***************************************************************************)
(* What holds of the swarm (Swarm.tla) for every number of browsers, jobs  *)
(* and assignments: a directory settles an assignment with the time that   *)
(* was worked on it, what a browser claims was reserved for it, and a      *)
(* browser whose timers fire when they are due is never refused.           *)
(*                                                                         *)
(* The directory's own invariant (SwarmDirectory_proofs) is carried along: *)
(* every step of a browser leaves the directory alone or is one of its     *)
(* operations.  Of its tables the rest needs only what becomes of a row    *)
(* (Moves).  What has to hold of a browser is stated of a record b, the    *)
(* rows, the clock t and the history w, so that a handler is a fact about  *)
(* records.                                                                *)
(***************************************************************************)
EXTENDS Swarm, SwarmDirectory_proofs

\* A cube runtime is there exactly as long as there is a current assignment,
\* the one of the answer, and what was worked before has been reported by then.
Shaped(b) ==
    /\ b.cube # "none" <=> b.current # 0
    /\ b.cube = "none" => b.active = 0 /\ b.since = Never
    /\ b.cube # "none" =>
         /\ b.phase = "computing" /\ b.asking = "no"
         /\ b.answer.kind = "assignment" /\ b.current = b.answer.assignment
         /\ b.previous = NoReport
    /\ b.answer.kind = "assignment" =>
         /\ b.asking = "answered" \/ b.cube # "none"
         /\ b.answer.assignment \in AssignmentId /\ b.answer.job \in Job
    /\ b.previous.assignment = 0 => b.previous = NoReport

\* The assignment at work began a quantum before its deadline, and no more than
\* all its workers were busy ever since.
Clocked(b, t) ==
    b.cube # "none" =>
      /\ b.since \in Nat /\ b.since <= t
      /\ b.deadline <= b.since + Quantum /\ t <= b.deadline + MaxLate
      /\ b.active <= b.answer.workers
      /\ b.spent <= b.answer.workers * (b.since - (b.deadline - Quantum))

Reserves(s, r) == r.status # "NONE" /\ r.session = s

\* What a browser would measure now.
Measured(b, t) == b.spent + (t - b.since) * b.active

\* What a browser was granted is a row of its own, not settled yet, and what it
\* has measured so far is what was worked.
Granted(s, b, row, t, w) ==
    b.answer.kind = "assignment" =>
      LET a == b.answer.assignment IN
      /\ Reserves(s, row[a]) /\ row[a].status # "COMPLETE"
      /\ row[a].job = b.answer.job /\ row[a].workers = b.answer.workers
      /\ a # b.previous.assignment
      /\ w[a] = IF b.cube = "none" THEN 0 ELSE Measured(b, t)

\* What a browser has yet to report is a row of its own and what was worked on
\* it, no more than its workers can do in a quantum and the delay of a timer.
Reports(s, b, row, w) ==
    b.previous.assignment # 0 =>
      LET a == b.previous.assignment IN
      /\ Reserves(s, row[a])
      /\ w[a] = b.previous.actual
      /\ b.previous.actual <= row[a].workers * (Quantum + MaxLate)

Fine(s, b, row, t, w) ==
    /\ b \in Browser
    /\ Shaped(b) /\ Clocked(b, t) /\ Granted(s, b, row, t, w) /\ Reports(s, b, row, w)
    /\ MaxLate = 0 => b.answer.kind # "invalid"

\* A row nobody has drawn was not worked on, and a settled one has its time.
Settling(row, w) ==
    \A a \in AssignmentId :
        /\ row[a].status = "NONE" => w[a] = 0
        /\ row[a].status = "COMPLETE" => row[a].actual = w[a]

SwarmInv ==
    /\ IInv /\ SwarmTypeOK
    /\ \A s \in Session : Fine(s, browser[s], db.row, now, worked)
    /\ Settling(db.row, worked)

\* What becomes of the rows: one that is drawn stays with its browser, and none
\* is settled but that of the report, with the time of the report.
Moves(report, row, next) ==
    \A a \in AssignmentId :
        /\ row[a].status # "NONE" =>
             /\ next[a].status # "NONE" /\ next[a].session = row[a].session
             /\ next[a].job = row[a].job /\ next[a].workers = row[a].workers
        /\ next[a].status = "COMPLETE" =>
             \/ row[a].status = "COMPLETE" /\ next[a].actual = row[a].actual
             \/ a = report.assignment /\ next[a].actual = report.actual

-----------------------------------------------------------------------------
(* Worker time.                                                            *)

LEMMA TimesGrow ==
    ASSUME NEW k \in Nat, NEW a \in Nat, NEW w \in Nat, a <= w
    PROVE  k * a <= k * w /\ k * a \in Nat /\ k * w \in Nat
<1>1. k * (w - a) \in Nat
  <2>1. w - a \in Nat
    OBVIOUS
  <2>. QED BY <2>1
<1>2. k * w = k * a + k * (w - a)
  OBVIOUS
<1>3. k * a \in Nat /\ k * w \in Nat
  OBVIOUS
<1>. QED BY <1>1, <1>2, <1>3

\* As long as no more than w workers are busy, k units add at most k * w.
LEMMA NoMoreThanAll ==
    ASSUME NEW spent \in Nat, NEW w \in Nat, NEW a \in Nat, a <= w,
           NEW x \in Int, NEW since \in Int, NEW t \in Int, since <= t,
           spent <= w * (since - x)
    PROVE  spent + (t - since) * a <= w * (t - x) /\ spent + (t - since) * a \in Nat
<1>1. PICK k \in Nat : k = t - since
  <2>1. t - since \in Nat
    OBVIOUS
  <2>. QED BY <2>1
<1>2. k * a <= k * w /\ k * a \in Nat /\ k * w \in Nat
  BY TimesGrow
<1>3. w * (t - x) = w * (since - x) + k * w
  <2>1. t - x = (since - x) + k
    BY <1>1
  <2>2. PICK y \in Int : y = since - x
    OBVIOUS
  <2>3. w * (y + k) = w * y + k * w
    OBVIOUS
  <2>. QED BY <2>1, <2>2, <2>3
<1>4. w * (since - x) \in Int
  OBVIOUS
<1>. QED BY <1>1, <1>2, <1>3, <1>4

-----------------------------------------------------------------------------
(* A browser's handlers.                                                   *)

LEMMA BrowserTypes ==
    ASSUME NEW b \in Browser
    PROVE  /\ b.phase \in RunPhase /\ b.asking \in {"no", "sent", "answered"} /\ b.answer \in Answer
           /\ b.current \in 0..MaxAssignments /\ b.cube \in {"none", "loading", "joined"}
           /\ b.active \in 0..Capacity /\ b.active \in Nat /\ b.since \in Nat \cup {Never}
           /\ b.spent \in Nat /\ b.deadline \in Nat
           /\ b.previous \in [assignment: 0..MaxAssignments, actual: Nat]
           /\ b.answer.workers \in Nat
  BY SizesAssumption, BrowserAssumption DEF Browser, Answer

LEMMA AtRest ==
    /\ Silence \in Answer /\ Silence.kind = "none"
    /\ NoReport \in [assignment: 0..MaxAssignments, actual: Nat] /\ NoReport.assignment = 0
    /\ 0 \in 0..MaxAssignments /\ 0 \in 0..Capacity
    /\ Never \notin Nat
  BY SizesAssumption, BrowserAssumption DEF Silence, Answer, NoReport, Never

\* A browser between assignments, whatever it does: no cube runtime, nothing
\* current, and no assignment is on its way to it.
LEMMA Resting ==
    ASSUME NEW s, NEW row, NEW t, NEW w, NEW b \in Browser,
           b.cube = "none", b.current = 0, b.active = 0, b.since = Never,
           b.answer.kind # "assignment", MaxLate = 0 => b.answer.kind # "invalid",
           b.previous.assignment = 0 => b.previous = NoReport, Reports(s, b, row, w)
    PROVE  Fine(s, b, row, t, w)
  BY DEF Fine, Shaped, Clocked, Granted

\* integrateWorkerTime(): what was measured is what was worked, up to now.
LEMMA IntegratedFine ==
    ASSUME NEW s, NEW row, NEW t \in Nat, t = now, NEW w, NEW b, Fine(s, b, row, t, w)
    PROVE  LET c == Integrated(b) IN
           /\ c \in Browser /\ c.answer = b.answer /\ c.previous = b.previous
           /\ c.current = b.current /\ c.cube = b.cube /\ c.active = b.active
           /\ c.asking = b.asking /\ c.phase = b.phase /\ c.deadline = b.deadline
           /\ b.cube = "none" => c = b
           /\ b.cube # "none" =>
                /\ c.since = now /\ w[b.current] = c.spent
                /\ c.spent <= b.answer.workers * (now - (b.deadline - Quantum))
                /\ c.spent <= b.answer.workers * (Quantum + MaxLate)
<1>. DEFINE c == Integrated(b)
            more == (now - b.since) * b.active
<1>1. b \in Browser /\ Shaped(b) /\ Clocked(b, t)
  BY DEF Fine
<1>2. CASE b.cube = "none"
  BY <1>1, <1>2 DEF Integrated, Shaped
<1>3. CASE b.cube # "none"
  <2>1. /\ b.since \in Nat /\ b.since <= now /\ now <= b.deadline + MaxLate
        /\ b.spent <= b.answer.workers * (b.since - (b.deadline - Quantum))
        /\ b.active <= b.answer.workers
    BY <1>1, <1>3 DEF Clocked
  <2>2. PICK x \in Int : x = b.deadline - Quantum
    BY <1>1, BrowserTypes, SizesAssumption
  <2>3. /\ b.spent + more <= b.answer.workers * (now - x)
        /\ b.spent + more \in Nat
    BY <1>1, <2>1, <2>2, BrowserTypes, NoMoreThanAll
  <2>4. b.answer.workers * (now - x) <= b.answer.workers * (Quantum + MaxLate)
    <3>1. PICK y \in Nat : y = (Quantum + MaxLate) - (now - x)
      BY <1>1, <2>1, <2>2, BrowserTypes, SizesAssumption, BrowserAssumption
    <3>2. b.answer.workers * y \in Nat
      BY <1>1, BrowserTypes
    <3>3. PICK z \in Int : z = now - x
      BY <2>2
    <3>4. b.answer.workers * (z + y) = b.answer.workers * z + b.answer.workers * y
      BY <1>1, <3>1, <3>3, BrowserTypes
    <3>5. Quantum + MaxLate = z + y
      BY <3>1, <3>3, <2>2, SizesAssumption, BrowserAssumption
    <3>6. b.answer.workers * z \in Int
      BY <1>1, <3>3, BrowserTypes
    <3>. QED BY <3>2, <3>3, <3>4, <3>5, <3>6
  <2>5. c = [b EXCEPT !.spent = b.spent + more, !.since = now]
    BY <2>1, AtRest DEF Integrated
  <2>6. w[b.current] = b.spent + more
    BY <1>1, <1>3 DEF Fine, Granted, Shaped, Measured
  <2>. HIDE DEF c
  <2>7. PICK spent \in Nat : spent = b.spent + more
    BY <2>3
  <2>8. c = [b EXCEPT !.spent = spent, !.since = now]
    BY <2>5, <2>7
  <2>. HIDE DEF more
  <2>9. /\ c \in Browser /\ c.answer = b.answer /\ c.previous = b.previous
        /\ c.current = b.current /\ c.cube = b.cube /\ c.active = b.active
        /\ c.asking = b.asking /\ c.phase = b.phase /\ c.deadline = b.deadline
        /\ c.since = now /\ c.spent = spent
    BY <1>1, <2>8 DEF Browser
  <2>10. spent <= b.answer.workers * (now - x)
    BY <2>3, <2>7
  <2>11. spent <= b.answer.workers * (Quantum + MaxLate)
    <3>1. b.answer.workers * (now - x) \in Int /\ b.answer.workers * (Quantum + MaxLate) \in Int
      BY <1>1, <2>2, BrowserTypes, SizesAssumption, BrowserAssumption
    <3>. QED BY <2>4, <2>10, <3>1
  <2>. QED BY <1>3, <2>2, <2>6, <2>7, <2>9, <2>10, <2>11 DEF c
<1>. QED BY <1>2, <1>3

\* finishCube(), once nothing is current any more.
LEMMA FinishFacts ==
    ASSUME NEW b \in Browser
    PROVE  LET c == FinishCube(b) IN
           /\ c \in Browser /\ c.cube = "none" /\ c.active = 0 /\ c.since = Never
           /\ c.answer = b.answer /\ c.previous = b.previous /\ c.current = b.current
           /\ c.asking = b.asking /\ c.phase = b.phase /\ c.spent = b.spent
  BY AtRest DEF FinishCube, Browser

LEMMA ConnectFine ==
    ASSUME NEW s, NEW row, NEW t, NEW w, NEW b \in Browser, b.current = 0,
           b.previous.assignment = 0 => b.previous = NoReport, Reports(s, b, row, w)
    PROVE  Fine(s, ConnectDirectory(b), row, t, w)
<1>. DEFINE f == FinishCube(b)
            c == ConnectDirectory(b)
<1>1. /\ f \in Browser /\ f.cube = "none" /\ f.active = 0 /\ f.since = Never
      /\ f.previous = b.previous /\ f.current = b.current
  BY FinishFacts
<1>2. c = [f EXCEPT !.phase = "directory", !.asking = "sent", !.answer = Silence]
  BY DEF ConnectDirectory
<1>. HIDE DEF f, c
<1>3. /\ c \in Browser /\ c.cube = "none" /\ c.active = 0 /\ c.since = Never
      /\ c.previous = b.previous /\ c.current = 0 /\ c.answer = Silence
  BY <1>1, <1>2, AtRest DEF Browser, RunPhase
<1>4. Reports(s, c, row, w)
  BY <1>3 DEF Reports
<1>. QED BY <1>3, <1>4, AtRest, Resting DEF c

\* What is measured when an assignment ends is what is left to report.
LEMMA MeasuredReports ==
    ASSUME NEW s, NEW row, NEW t \in Nat, t = now, NEW w, NEW b, Fine(s, b, row, t, w),
           b.cube # "none", NEW c, c.previous = ReportOf(Integrated(b))
    PROVE  Reports(s, c, row, w) /\ (c.previous.assignment = 0 => c.previous = NoReport)
           /\ ReportOf(Integrated(b)) \in [assignment: 0..MaxAssignments, actual: Nat]
<1>. DEFINE i == Integrated(b)
<1>1. b \in Browser /\ Shaped(b) /\ Granted(s, b, row, t, w)
  BY DEF Fine
<1>2. /\ i \in Browser /\ i.current = b.current /\ w[b.current] = i.spent
      /\ i.spent <= b.answer.workers * (Quantum + MaxLate)
  BY IntegratedFine
<1>. HIDE DEF i
<1>3. b.current # 0 /\ b.current = b.answer.assignment /\ b.answer.kind = "assignment"
  BY <1>1 DEF Shaped
<1>4. Reserves(s, row[b.current]) /\ row[b.current].workers = b.answer.workers
  BY <1>1, <1>3 DEF Granted
<1>5. c.previous.assignment = b.current /\ c.previous.actual = i.spent
  BY <1>2 DEF ReportOf, i
<1>6. ReportOf(i) \in [assignment: 0..MaxAssignments, actual: Nat]
  BY <1>2, BrowserTypes DEF ReportOf
<1>. QED BY <1>2, <1>3, <1>4, <1>5, <1>6 DEF Reports, i

\* pause()
LEMMA PausedFine ==
    ASSUME NEW s, NEW row, NEW t \in Nat, t = now, NEW w, NEW b, Fine(s, b, row, t, w)
    PROVE  /\ Fine(s, Paused(b), row, t, w) /\ Paused(b) \in Browser
           /\ Paused(b).cube = "none" /\ Paused(b).current = 0
           /\ Paused(b).active = 0 /\ Paused(b).since = Never
           /\ Paused(b).answer = Silence
           /\ Reports(s, Paused(b), row, w)
           /\ Paused(b).previous.assignment = 0 => Paused(b).previous = NoReport
<1>. DEFINE c == Integrated(b)
            report == IF c.current # 0 THEN ReportOf(c) ELSE c.previous
            d == [c EXCEPT !.previous = IF c.current # 0 THEN ReportOf(c) ELSE @, !.current = 0]
            f == FinishCube(d)
            p == Paused(b)
<1>1. b \in Browser /\ Shaped(b) /\ Reports(s, b, row, w)
  BY DEF Fine
<1>2. c \in Browser /\ c.previous = b.previous /\ c.current = b.current
  BY IntegratedFine
<1>3. p = [f EXCEPT !.phase = "paused", !.asking = "no", !.answer = Silence]
  BY DEF Paused
<1>4. d = [c EXCEPT !.previous = report, !.current = 0]
  BY <1>2 DEF Browser
<1>5. report = IF b.cube # "none" THEN ReportOf(Integrated(b)) ELSE b.previous
  BY <1>1, <1>2 DEF Shaped
<1>6. report \in [assignment: 0..MaxAssignments, actual: Nat]
  <2>1. b.cube # "none" => ReportOf(Integrated(b)) \in [assignment: 0..MaxAssignments, actual: Nat]
    BY <1>2, BrowserTypes DEF ReportOf
  <2>. QED BY <1>1, <1>5, <2>1, BrowserTypes
<1>. HIDE DEF c, report, d, f, p
<1>7. d \in Browser /\ d.previous = report /\ d.current = 0
  BY <1>2, <1>4, <1>6, AtRest DEF Browser
<1>8. /\ f \in Browser /\ f.cube = "none" /\ f.active = 0 /\ f.since = Never
      /\ f.previous = report /\ f.current = 0
  BY <1>7, FinishFacts DEF f
<1>9. /\ p \in Browser /\ p.cube = "none" /\ p.active = 0 /\ p.since = Never
      /\ p.previous = report /\ p.current = 0 /\ p.answer = Silence
  BY <1>3, <1>8, AtRest DEF Browser, RunPhase
<1>10. Reports(s, p, row, w) /\ (p.previous.assignment = 0 => p.previous = NoReport)
  <2>1. CASE b.cube # "none"
    BY <1>5, <1>9, <2>1, MeasuredReports
  <2>2. CASE b.cube = "none"
    BY <1>1, <1>5, <1>9, <2>2 DEF Reports, Shaped
  <2>. QED BY <2>1, <2>2
<1>11. Fine(s, p, row, t, w)
  BY <1>9, <1>10, AtRest, Resting
<1>. QED BY <1>9, <1>10, <1>11 DEF p

\* completeAssignment()
LEMMA CompleteFine ==
    ASSUME NEW s, NEW row, NEW t \in Nat, t = now, NEW w, NEW b, Fine(s, b, row, t, w),
           b.cube # "none", NEW failed \in BOOLEAN
    PROVE  Fine(s, CompleteAssignment(b, failed), row, t, w)
<1>. DEFINE c == Integrated(b)
            e == [c EXCEPT !.previous = ReportOf(c), !.current = 0, !.answer = Silence]
            d == FinishCube(e)
<1>1. c \in Browser
  BY IntegratedFine
<1>2. ReportOf(c) \in [assignment: 0..MaxAssignments, actual: Nat]
  BY <1>1, BrowserTypes DEF ReportOf
<1>3. /\ CompleteAssignment(b, failed) =
            IF failed THEN [d EXCEPT !.phase = "reconnecting"] ELSE ConnectDirectory(d)
  BY DEF CompleteAssignment
<1>. HIDE DEF c
<1>4. e \in Browser /\ e.previous = ReportOf(c) /\ e.current = 0 /\ e.answer = Silence
  BY <1>1, <1>2, AtRest DEF Browser
<1>. HIDE DEF e
<1>5. /\ d \in Browser /\ d.cube = "none" /\ d.active = 0 /\ d.since = Never
      /\ d.previous = ReportOf(c) /\ d.current = 0 /\ d.answer = Silence
  BY <1>4, FinishFacts
<1>. HIDE DEF d
<1>6. ASSUME NEW x, x.previous = ReportOf(c)
      PROVE  Reports(s, x, row, w) /\ (x.previous.assignment = 0 => x.previous = NoReport)
  BY <1>6, MeasuredReports DEF c
<1>7. CASE failed
  <2>. DEFINE r == [d EXCEPT !.phase = "reconnecting"]
  <2>1. /\ r \in Browser /\ r.cube = "none" /\ r.active = 0 /\ r.since = Never
        /\ r.previous = ReportOf(c) /\ r.current = 0 /\ r.answer = Silence
    BY <1>5 DEF Browser, RunPhase
  <2>. HIDE DEF r
  <2>2. Fine(s, r, row, t, w)
    BY <1>6, <2>1, AtRest, Resting
  <2>. QED BY <1>3, <1>7, <2>2 DEF r
<1>8. CASE ~failed
  <2>1. Fine(s, ConnectDirectory(d), row, t, w)
    BY <1>5, <1>6, ConnectFine
  <2>. QED BY <1>3, <1>8, <2>1
<1>. QED BY <1>7, <1>8

\* beginAssignment(), when an assignment has arrived: what was worked before is
\* with the directory, and nothing of the new one has been worked.
LEMMA BeginFine ==
    ASSUME NEW s, NEW row, NEW t \in Nat, t = now, NEW w, NEW b, Fine(s, b, row, t, w),
           b.asking = "answered", b.answer.kind = "assignment"
    PROVE  Fine(s, BeginAssignment([b EXCEPT !.asking = "no", !.previous = NoReport]), row, t, w)
<1>. DEFINE e == [b EXCEPT !.asking = "no", !.previous = NoReport]
            c == BeginAssignment(e)
<1>1. b \in Browser /\ Shaped(b) /\ Granted(s, b, row, t, w)
  BY DEF Fine
<1>2. e \in Browser /\ e.answer = b.answer /\ e.asking = "no" /\ e.previous = NoReport
  BY <1>1, AtRest DEF Browser
<1>3. c = [e EXCEPT !.phase = "computing", !.spent = 0, !.current = e.answer.assignment,
                    !.since = now, !.active = 0, !.cube = "loading", !.deadline = now + Quantum]
  BY DEF BeginAssignment
<1>. HIDE DEF e, c
<1>4. b.answer.assignment \in AssignmentId /\ b.answer.job \in Job
  BY <1>1 DEF Shaped
<1>5. b.answer.assignment \in 0..MaxAssignments /\ b.answer.assignment # 0
  BY <1>4, SizesAssumption DEF AssignmentId
<1>6. now + Quantum \in Nat /\ now \in Nat
  BY SizesAssumption
<1>7. /\ c \in Browser /\ c.answer = b.answer /\ c.asking = "no" /\ c.previous = NoReport
      /\ c.phase = "computing" /\ c.spent = 0 /\ c.current = b.answer.assignment
      /\ c.since = now /\ c.active = 0 /\ c.cube = "loading" /\ c.deadline = now + Quantum
  <2>1. PICK deadline \in Nat : deadline = now + Quantum
    BY <1>6
  <2>2. c = [e EXCEPT !.phase = "computing", !.spent = 0, !.current = b.answer.assignment,
                      !.since = now, !.active = 0, !.cube = "loading", !.deadline = deadline]
    BY <1>2, <1>3, <2>1
  <2>3. "computing" \in RunPhase /\ 0 \in Nat
    BY DEF RunPhase
  <2>. QED BY <1>2, <1>5, <1>6, <2>1, <2>2, <2>3, AtRest DEF Browser
<1>8. Shaped(c)
  BY <1>4, <1>5, <1>7 DEF Shaped
<1>9. Clocked(c, t)
  <2>1. c.answer.workers * (c.since - (c.deadline - Quantum)) = 0
    <3>1. c.since - (c.deadline - Quantum) = 0
      BY <1>6, <1>7, SizesAssumption
    <3>2. c.answer.workers \in Nat
      BY <1>7, BrowserTypes
    <3>. QED BY <3>1, <3>2
  <2>2. /\ c.since \in Nat /\ c.since <= t /\ c.deadline <= c.since + Quantum
        /\ t <= c.deadline + MaxLate /\ c.active <= c.answer.workers
    BY <1>6, <1>7, BrowserTypes, SizesAssumption, BrowserAssumption
  <2>. QED BY <1>7, <2>1, <2>2 DEF Clocked
<1>10. Granted(s, c, row, t, w)
  <2>1. b.cube = "none"
    BY <1>1 DEF Shaped
  <2>2. (t - c.since) * c.active = 0
    BY <1>6, <1>7
  <2>3. w[b.answer.assignment] = c.spent + (t - c.since) * c.active
    BY <1>1, <1>7, <2>1, <2>2 DEF Granted
  <2>. QED BY <1>1, <1>5, <1>7, <2>3, AtRest DEF Granted, Measured
<1>11. Reports(s, c, row, w)
  BY <1>7, AtRest DEF Reports
<1>. QED BY <1>7, <1>8, <1>9, <1>10, <1>11 DEF Fine, c, e

\* A change of the workers at work is measured first.
LEMMA ObservedFine ==
    ASSUME NEW s, NEW row, NEW t \in Nat, t = now, NEW w, NEW b, Fine(s, b, row, t, w),
           b.cube # "none", NEW active \in 0..Capacity, active <= b.answer.workers
    PROVE  Fine(s, Observed(b, active), row, t, w)
<1>. DEFINE i == Integrated(b)
            c == Observed(b, active)
<1>1. b \in Browser /\ Shaped(b) /\ Clocked(b, t) /\ Granted(s, b, row, t, w)
  BY DEF Fine
<1>2. /\ i \in Browser /\ i.answer = b.answer /\ i.previous = b.previous
      /\ i.current = b.current /\ i.cube = b.cube
      /\ i.asking = b.asking /\ i.phase = b.phase /\ i.deadline = b.deadline
      /\ i.since = now /\ w[b.current] = i.spent
      /\ i.spent <= b.answer.workers * (now - (b.deadline - Quantum))
  BY IntegratedFine
<1>3. c = [i EXCEPT !.active = active]
  BY DEF Observed
<1>. HIDE DEF i, c
<1>4. /\ c \in Browser /\ c.answer = b.answer /\ c.previous = b.previous
      /\ c.current = b.current /\ c.cube = b.cube
      /\ c.asking = b.asking /\ c.phase = b.phase /\ c.deadline = b.deadline
      /\ c.since = now /\ c.spent = i.spent /\ c.active = active
  BY <1>2, <1>3 DEF Browser
<1>5. Shaped(c)
  BY <1>1, <1>4 DEF Shaped
<1>6. Clocked(c, t)
  <2>1. b.since \in Nat /\ b.since <= t /\ b.deadline <= b.since + Quantum
        /\ t <= b.deadline + MaxLate
    BY <1>1 DEF Clocked
  <2>2. b.deadline <= now + Quantum
    BY <1>1, <2>1, BrowserTypes, SizesAssumption
  <2>. QED BY <1>2, <1>4, <2>1, <2>2 DEF Clocked
<1>7. Granted(s, c, row, t, w)
  <2>1. (t - c.since) * c.active = 0
    BY <1>4
  <2>2. b.answer.kind = "assignment" /\ b.current = b.answer.assignment
    BY <1>1 DEF Shaped
  <2>3. w[c.answer.assignment] = c.spent + (t - c.since) * c.active
    BY <1>2, <1>4, <2>1, <2>2, BrowserTypes
  <2>. QED BY <1>1, <1>4, <2>2, <2>3 DEF Granted, Measured
<1>8. Reports(s, c, row, w)
  BY <1>4 DEF Fine, Reports
<1>. QED BY <1>4, <1>5, <1>6, <1>7, <1>8 DEF Fine, c

\* A step of one browser that leaves everything else as it is.
LEMMA BecomesKeeps ==
    ASSUME SwarmInv, NEW s \in Session, NEW b, Fine(s, b, db.row, now, worked), Becomes(s, b)
    PROVE  SwarmInv'
<1>1. /\ db' = db /\ alarm' = alarm /\ now' = now /\ worked' = worked
      /\ browser' = [browser EXCEPT ![s] = b] /\ browser \in [Session -> Browser]
  BY DEF Becomes, SwarmInv, SwarmTypeOK
<1>2. b \in Browser
  BY DEF Fine
<1>3. \A q \in Session : browser'[q] = IF q = s THEN b ELSE browser[q]
  BY <1>1
<1>4. IInv'
  BY <1>1, KeptAlarm DEF SwarmInv, IInv
<1>5. SwarmTypeOK'
  BY <1>1, <1>2 DEF SwarmInv, SwarmTypeOK
<1>6. ASSUME NEW q \in Session
      PROVE  Fine(q, browser'[q], db'.row, now', worked')
  BY <1>1, <1>3 DEF SwarmInv
<1>7. Settling(db'.row, worked')
  BY <1>1 DEF SwarmInv
<1>. QED BY <1>4, <1>5, <1>6, <1>7 DEF SwarmInv

-----------------------------------------------------------------------------
(* What becomes of the rows.                                               *)

LEMMA MovesTwice ==
    ASSUME NEW report, NEW r1, NEW r2, NEW r3,
           \/ Moves(NoReport, r1, r2) /\ Moves(report, r2, r3)
           \/ Moves(report, r1, r2) /\ Moves(NoReport, r2, r3)
    PROVE  Moves(report, r1, r3)
<1>1. NoReport.assignment \notin AssignmentId
  BY AtRest, SizesAssumption DEF AssignmentId
<1>. QED BY <1>1 DEF Moves

LEMMA SameRowsMove == \A report, row : Moves(report, row, row)
  BY DEF Moves

LEMMA ExpireMoves ==
    ASSUME NEW d, Good(d)
    PROVE  Moves(NoReport, d.row, ExpireAssignments(d).row)
<1>. DEFINE row == ExpireAssignments(d).row
<1>1. row = [a \in AssignmentId |->
               IF a \in DueIds(d) THEN [d.row[a] EXCEPT !.status = "EXPIRED"] ELSE d.row[a]]
  BY DEF ExpireAssignments, Good, Database
<1>2. \A a \in AssignmentId : d.row[a] \in AssignmentRow
  BY GoodTypes
<1>. HIDE DEF row
<1>. QED BY <1>1, <1>2 DEF Moves, AssignmentRow, row

LEMMA ReconcileMoves ==
    ASSUME NEW d, Good(d), NEW report, report.assignment \in AssignmentId
    PROVE  Moves(report, d.row, Reconcile(d, report.assignment, report.actual).row)
<1>. DEFINE a == report.assignment
            row == Reconcile(d, a, report.actual).row
<1>1. CASE ~Live(d, a)
  BY <1>1, SameRowsMove DEF Reconcile
<1>2. CASE Live(d, a)
  <2>1. row = [d.row EXCEPT ![a] = [@ EXCEPT !.status = "COMPLETE", !.actual = report.actual]]
    BY <1>2 DEF Reconcile, Good, Database
  <2>2. \A b \in AssignmentId : d.row[b] \in AssignmentRow
    BY GoodTypes
  <2>3. d.row \in [AssignmentId -> AssignmentRow]
    BY GoodTypes
  <2>. HIDE DEF row
  <2>4. /\ \A b \in AssignmentId : b # a => row[b] = d.row[b]
        /\ row[a].status = "COMPLETE" /\ row[a].actual = report.actual
        /\ row[a].session = d.row[a].session /\ row[a].job = d.row[a].job
        /\ row[a].workers = d.row[a].workers
    BY <2>1, <2>2, <2>3 DEF AssignmentRow
  <2>. QED BY <2>4 DEF Moves, row
<1>. QED BY <1>1, <1>2

LEMMA ReserveMoves ==
    ASSUME NEW d, Good(d), NEW a \in AssignmentId, d.row[a].status = "NONE",
           NEW s, NEW j, NEW workers
    PROVE  /\ Moves(NoReport, d.row, Reserve(d, a, s, j, workers).row)
           /\ Reserve(d, a, s, j, workers).row[a] =
                [status |-> "PENDING", job |-> j, session |-> s, workers |-> workers,
                 actual |-> 0, assigned |-> now, expires |-> now + Activation]
           /\ \A b \in AssignmentId : b # a => Reserve(d, a, s, j, workers).row[b] = d.row[b]
<1>. DEFINE row == Reserve(d, a, s, j, workers).row
            r == [status |-> "PENDING", job |-> j, session |-> s, workers |-> workers,
                  actual |-> 0, assigned |-> now, expires |-> now + Activation]
<1>1. row = [d.row EXCEPT ![a] = r]
  BY DEF Reserve, Good, Database
<1>2. d.row \in [AssignmentId -> AssignmentRow]
  BY GoodTypes
<1>. HIDE DEF row
<1>3. row[a] = r /\ \A b \in AssignmentId : b # a => row[b] = d.row[b]
  BY <1>1, <1>2
<1>4. row[a].status = "PENDING"
  BY <1>3
<1>. HIDE DEF r
<1>5. Moves(NoReport, d.row, row)
  BY <1>3, <1>4 DEF Moves
<1>. QED BY <1>3, <1>5 DEF row, r

LEMMA SettledMoves ==
    ASSUME IInv, NEW s \in Session, NEW report \in AnyReport
    PROVE  Moves(report, db.row, Settled(s, report).row)
<1>. DEFINE d == ExpireAssignments(db)
<1>1. Good(d) /\ Moves(NoReport, db.row, d.row)
  BY ExpireGood, ExpireMoves DEF IInv
<1>2. CASE report = NoReport
  BY <1>1, <1>2 DEF Settled
<1>3. CASE report # NoReport
  <2>1. report.assignment \in AssignmentId
    BY <1>3 DEF AnyReport
  <2>. HIDE DEF d
  <2>2. Moves(report, d.row, Reconcile(d, report.assignment, report.actual).row)
    BY <1>1, <2>1, ReconcileMoves
  <2>3. Moves(report, db.row, Reconcile(d, report.assignment, report.actual).row)
    BY <1>1, <2>2, MovesTwice
  <2>. QED BY <1>3, <2>3 DEF Settled, d
<1>. QED BY <1>2, <1>3

LEMMA ActivateMoves ==
    ASSUME IInv, NEW a \in AssignmentId, NEW s, NEW j, Activate(a, s, j)
    PROVE  Moves(NoReport, db.row, db'.row)
<1>. DEFINE e == ExpireAssignments(db)
            r == [e.row[a] EXCEPT !.status = "ACTIVE", !.assigned = now, !.expires = now + Quantum]
<1>1. Good(e) /\ Moves(NoReport, db.row, e.row)
  BY ExpireGood, ExpireMoves DEF IInv
<1>2. \/ db' = e
      \/ db' = [e EXCEPT !.row[a] = r] /\ e.row[a].status = "PENDING"
  BY DEF Activate
<1>. HIDE DEF e
<1>3. Moves(NoReport, e.row, db'.row)
  <2>1. CASE db' = e
    BY <2>1, SameRowsMove
  <2>2. CASE db' = [e EXCEPT !.row[a] = r] /\ e.row[a].status = "PENDING"
    <3>1. e.row \in [AssignmentId -> AssignmentRow] /\ e.row[a] \in AssignmentRow
      BY <1>1, GoodTypes
    <3>2. db'.row = [e.row EXCEPT ![a] = r]
      BY <1>1, <2>2 DEF Good, Database
    <3>3. /\ r.status = "ACTIVE" /\ r.session = e.row[a].session /\ r.job = e.row[a].job
          /\ r.workers = e.row[a].workers
      BY <3>1 DEF AssignmentRow
    <3>. HIDE DEF r
    <3>4. \A b \in AssignmentId : db'.row[b] = IF b = a THEN r ELSE e.row[b]
      BY <3>1, <3>2
    <3>. QED BY <3>3, <3>4 DEF Moves
  <2>. QED BY <1>2, <2>1, <2>2
<1>. QED BY <1>1, <1>3, MovesTwice

LEMMA AlarmMoves ==
    ASSUME IInv, Alarm
    PROVE  Moves(NoReport, db.row, db'.row)
<1>. DEFINE over == {j \in db.listed : db.births[j].at + Lifetime <= now}
            e == ExpireAssignments(db)
            u == Unlist(e, over)
<1>1. Good(e) /\ Moves(NoReport, db.row, e.row)
  BY ExpireGood, ExpireMoves DEF IInv
<1>2. over \in SUBSET Job
  BY GoodTypes DEF IInv
<1>3. db' = [u EXCEPT !.created = RecentCreations, !.replays = CurrentReplays]
  BY DEF Alarm
<1>. HIDE DEF e, over
<1>4. Good(u) /\ u.row = e.row
  BY <1>1, <1>2, UnlistGood
<1>. HIDE DEF u
<1>5. db'.row = e.row
  BY <1>3, <1>4 DEF Good, Database
<1>. QED BY <1>1, <1>5

LEMMA AdmissionMoves ==
    ASSUME IInv, AdmissionStep
    PROVE  Moves(NoReport, db.row, db'.row) /\ now' = now
<1>1. ASSUME NEW c \in Challenge, ConsumeTurnstile(c)
      PROVE  db'.row = db.row /\ now' = now
  BY <1>1 DEF ConsumeTurnstile, IInv, Good, Database
<1>2. ASSUME NEW origin \in Origins, AdmitRefused(origin[1], origin[2])
      PROVE  db'.row = db.row /\ now' = now
  BY <1>2 DEF AdmitRefused, IInv, Good, Database
<1>3. ASSUME NEW origin \in Origins, NEW j \in Job, Admit(j, origin[1], origin[2])
      PROVE  db'.row = db.row /\ now' = now
  BY <1>3 DEF Admit, IInv, Good, Database
<1>4. ASSUME NEW j \in Job, Rollback(j)
      PROVE  db'.row = db.row /\ now' = now
  <2>. DEFINE u == Unlist(db, {j})
  <2>1. Good(u) /\ u.row = db.row
    BY UnlistGood DEF IInv
  <2>2. db' = [u EXCEPT !.births[j] = Unborn, !.created = @ \ {j}]
    BY <1>4 DEF Rollback
  <2>. HIDE DEF u
  <2>. QED BY <1>4, <2>1, <2>2 DEF Good, Database, Rollback
<1>5. ASSUME NEW j \in Job, NEW eligible \in BOOLEAN, SetEligible(j, eligible)
      PROVE  db'.row = db.row /\ now' = now
  BY <1>5 DEF SetEligible, IInv, Good, Database
<1>6. ASSUME NEW j \in Job, Close(j)
      PROVE  Moves(NoReport, db.row, db'.row) /\ now' = now
  <2>. DEFINE u == Unlist(db, {j})
              rows == [a \in AssignmentId |->
                         IF Live(db, a) /\ db.row[a].job = j
                         THEN [db.row[a] EXCEPT !.status = "CANCELLED"] ELSE db.row[a]]
  <2>1. Good(u)
    BY UnlistGood DEF IInv
  <2>2. db' = [u EXCEPT !.row = rows] /\ now' = now
    BY <1>6 DEF Close
  <2>. HIDE DEF u
  <2>3. db'.row = rows
    BY <2>1, <2>2 DEF Good, Database
  <2>4. \A a \in AssignmentId : db.row[a] \in AssignmentRow
    BY GoodTypes DEF IInv
  <2>. QED BY <2>2, <2>3, <2>4 DEF Moves, AssignmentRow
<1>. QED BY <1>1, <1>2, <1>3, <1>4, <1>5, <1>6, SameRowsMove DEF AdmissionStep

-----------------------------------------------------------------------------
(* The steps.                                                              *)

\* A browser is as fine as before if the rows move, unless its own assignment
\* is settled.
LEMMA FineMoves ==
    ASSUME NEW s, NEW b, NEW row, NEW next, NEW t, NEW w, NEW report,
           Fine(s, b, row, t, w), Moves(report, row, next),
           b.answer.kind = "assignment" => b.answer.assignment # report.assignment
    PROVE  Fine(s, b, next, t, w)
<1>1. b \in Browser /\ Shaped(b)
  BY DEF Fine
<1>2. Granted(s, b, next, t, w)
  <2>1. b.answer.kind = "assignment" => b.answer.assignment \in AssignmentId
    BY <1>1 DEF Shaped
  <2>. QED BY <2>1 DEF Fine, Granted, Reserves, Moves
<1>3. Reports(s, b, next, w)
  <2>1. b.previous.assignment # 0 => b.previous.assignment \in AssignmentId
    BY <1>1, BrowserTypes, SizesAssumption DEF AssignmentId
  <2>. QED BY <2>1 DEF Fine, Reports, Reserves, Moves
<1>. QED BY <1>1, <1>2, <1>3 DEF Fine

\* The directory does something that concerns no browser.
LEMMA UntouchedKeeps ==
    ASSUME SwarmInv, IInv', now' = now, browser' = browser, worked' = worked,
           Moves(NoReport, db.row, db'.row)
    PROVE  SwarmInv'
<1>1. \A a \in AssignmentId : a # NoReport.assignment
  BY AtRest, SizesAssumption DEF AssignmentId
<1>2. ASSUME NEW q \in Session
      PROVE  Fine(q, browser'[q], db'.row, now', worked')
  <2>. DEFINE b == browser[q]
  <2>1. Fine(q, b, db.row, now, worked)
    BY DEF SwarmInv
  <2>. HIDE DEF b
  <2>2. b.answer.kind = "assignment" => b.answer.assignment # NoReport.assignment
    BY <1>1, <2>1 DEF Fine, Shaped
  <2>3. Fine(q, b, db'.row, now, worked)
    BY <2>1, <2>2, FineMoves
  <2>. QED BY <2>3 DEF b
<1>3. Settling(db'.row, worked')
  BY <1>1 DEF SwarmInv, Settling, Moves
<1>. QED BY <1>2, <1>3 DEF SwarmInv, SwarmTypeOK

\* The directory does something for one browser, and settles no more than what
\* that browser reports.
LEMMA HandledKeeps ==
    ASSUME SwarmInv, IInv', now' = now, worked' = worked,
           NEW s \in Session, NEW b, browser' = [browser EXCEPT ![s] = b],
           NEW report, report.assignment = 0 \/ report = browser[s].previous,
           Moves(report, db.row, db'.row), Fine(s, b, db'.row, now, worked)
    PROVE  SwarmInv'
<1>1. browser \in [Session -> Browser]
  BY DEF SwarmInv, SwarmTypeOK
<1>2. \A q \in Session : browser'[q] = IF q = s THEN b ELSE browser[q]
  BY <1>1
<1>3. \A a \in AssignmentId : a # 0
  BY SizesAssumption DEF AssignmentId
<1>4. Fine(s, browser[s], db.row, now, worked)
  BY DEF SwarmInv
<1>5. ASSUME NEW a \in AssignmentId, a = report.assignment
      PROVE  db.row[a].session = s /\ worked[a] = report.actual
  BY <1>3, <1>4, <1>5 DEF Fine, Reports, Reserves
<1>6. ASSUME NEW q \in Session, q # s
      PROVE  Fine(q, browser[q], db'.row, now, worked)
  <2>. DEFINE c == browser[q]
  <2>1. Fine(q, c, db.row, now, worked)
    BY DEF SwarmInv
  <2>. HIDE DEF c
  <2>2. c.answer.kind = "assignment" => /\ c.answer.assignment \in AssignmentId
                                        /\ db.row[c.answer.assignment].session = q
    BY <2>1 DEF Fine, Shaped, Granted, Reserves
  <2>3. c.answer.kind = "assignment" => c.answer.assignment # report.assignment
    BY <1>5, <1>6, <2>2
  <2>4. Fine(q, c, db'.row, now, worked)
    BY <2>1, <2>3, FineMoves
  <2>. QED BY <2>4 DEF c
<1>7. \A q \in Session : Fine(q, browser'[q], db'.row, now', worked')
  BY <1>2, <1>6
<1>8. Settling(db'.row, worked')
  <2>1. ASSUME NEW a \in AssignmentId, db'.row[a].status = "COMPLETE"
        PROVE  db'.row[a].actual = worked[a]
    BY <1>5, <2>1 DEF SwarmInv, Settling, Moves
  <2>2. ASSUME NEW a \in AssignmentId, db'.row[a].status = "NONE"
        PROVE  worked[a] = 0
    BY <2>2 DEF SwarmInv, Settling, Moves
  <2>. QED BY <2>1, <2>2 DEF Settling
<1>9. SwarmTypeOK'
  <2>1. b \in Browser
    BY DEF Fine
  <2>. QED BY <1>1, <2>1 DEF SwarmInv, SwarmTypeOK
<1>. QED BY <1>7, <1>8, <1>9 DEF SwarmInv

\* A browser that waits for the directory has no assignment.
LEMMA AskingFacts ==
    ASSUME SwarmInv, NEW s \in Session, browser[s].asking # "no"
    PROVE  /\ browser[s] \in Browser /\ browser[s].cube = "none" /\ browser[s].current = 0
           /\ browser[s].active = 0 /\ browser[s].since = Never
           /\ browser[s].previous \in AnyReport
           /\ browser[s].previous.assignment = 0 => browser[s].previous = NoReport
  BY SizesAssumption, BrowserTypes DEF SwarmInv, Fine, Shaped, AnyReport, AssignmentId

\* What a browser that is refused or has no work is left with.
LEMMA RefusedFine ==
    ASSUME SwarmInv, NEW s \in Session, browser[s].asking # "no",
           NEW kind \in {"no-work", "invalid"},
           MaxLate = 0 => kind # "invalid", NEW row, Moves(browser[s].previous, db.row, row),
           NEW b, b = [browser[s] EXCEPT !.asking = "answered", !.answer = Refusal(kind)]
    PROVE  Fine(s, b, row, now, worked)
<1>1. /\ browser[s] \in Browser /\ browser[s].cube = "none" /\ browser[s].current = 0
      /\ browser[s].active = 0 /\ browser[s].since = Never
      /\ browser[s].previous.assignment = 0 => browser[s].previous = NoReport
  BY AskingFacts
<1>2. Refusal(kind) \in Answer /\ Refusal(kind).kind = kind
  BY AtRest DEF Refusal, Answer
<1>3. /\ b \in Browser /\ b.cube = "none" /\ b.current = 0 /\ b.active = 0 /\ b.since = Never
      /\ b.previous = browser[s].previous /\ b.answer.kind = kind
  BY <1>1, <1>2 DEF Browser
<1>4. Reports(s, browser[s], db.row, worked)
  BY DEF SwarmInv, Fine
<1>5. Reports(s, b, row, worked)
  <2>1. b.previous.assignment # 0 => b.previous.assignment \in AssignmentId
    BY <1>3, AskingFacts, AtRest DEF AnyReport
  <2>. QED BY <1>3, <1>4, <2>1 DEF Reports, Reserves, Moves
<1>. QED BY <1>1, <1>3, <1>5, Resting

\* A timer that fires when it is due leaves nothing to refuse.
LEMMA NeverInvalid ==
    ASSUME SwarmInv, NEW s \in Session, browser[s].asking # "no", MaxLate = 0
    PROVE  ~AssignInvalid(s, browser[s].previous)
<1>. DEFINE report == browser[s].previous
            a == report.assignment
            d == ExpireAssignments(db)
<1>1. SUFFICES ASSUME report # NoReport
               PROVE  Acceptable(d, s, report)
  BY DEF AssignInvalid
<1>2. a \in AssignmentId /\ report.actual \in Nat
  BY <1>1, AskingFacts DEF AnyReport
<1>3. a # 0
  BY <1>2, SizesAssumption DEF AssignmentId
<1>4. /\ Reserves(s, db.row[a]) /\ report.actual <= db.row[a].workers * (Quantum + MaxLate)
  BY <1>3 DEF SwarmInv, Fine, Reports
<1>5. Good(db) /\ Moves(NoReport, db.row, d.row)
  BY ExpireMoves DEF SwarmInv, IInv
<1>6. d.row[a].session = s /\ d.row[a].workers = db.row[a].workers
  BY <1>2, <1>4, <1>5 DEF Moves, Reserves
<1>7. db.row[a].workers * (Quantum + MaxLate) = Quantum * db.row[a].workers
  <2>1. db.row[a].workers \in Nat
    BY <1>2, <1>5, RowWorkers, SizesAssumption
  <2>2. Quantum + MaxLate = Quantum /\ Quantum \in Nat
    BY SizesAssumption
  <2>. QED BY <2>1, <2>2
<1>. QED BY <1>4, <1>6, <1>7 DEF Acceptable, Reserved

\* An assignment is on its way to the browser: a row nobody has worked on.
LEMMA AssignedFine ==
    ASSUME SwarmInv, NEW s \in Session, browser[s].asking # "no", NEW offer \in 1..MaxOffer,
           Assign(s, offer, browser[s].previous),
           NEW a \in AssignmentId, db.row[a].status = "NONE", db'.row[a].status = "PENDING",
           NEW b, b = [browser[s] EXCEPT !.asking = "answered",
                         !.answer = [kind |-> "assignment", assignment |-> a,
                                     job |-> db'.row[a].job, workers |-> db'.row[a].workers]]
    PROVE  /\ Moves(browser[s].previous, db.row, db'.row)
           /\ Fine(s, b, db'.row, now, worked)
<1>. DEFINE report == browser[s].previous
            d == Settled(s, report)
            answer == [kind |-> "assignment", assignment |-> a,
                       job |-> db'.row[a].job, workers |-> db'.row[a].workers]
<1>1. /\ browser[s] \in Browser /\ browser[s].cube = "none" /\ browser[s].current = 0
      /\ browser[s].active = 0 /\ browser[s].since = Never /\ report \in AnyReport
      /\ report.assignment = 0 => report = NoReport
  BY AskingFacts
<1>2. /\ IInv /\ Good(d) /\ Moves(report, db.row, d.row)
      /\ \A c \in AssignmentId : d.row[c].status = "PENDING" => db.row[c].status = "PENDING"
  BY <1>1, SettledGood, SettledMoves, SettledPending DEF SwarmInv
<1>. HIDE DEF d
<1>3. PICK j \in FairChoices(d), x \in AssignmentId, workers \in 1..MaxWorkers :
        /\ d.row[x].status = "NONE"
        /\ db' = Reserve(d, x, s, j, workers)
  BY <1>1, <1>2, AssignFacts DEF d
<1>4. /\ Moves(NoReport, d.row, db'.row)
      /\ db'.row[x] = [status |-> "PENDING", job |-> j, session |-> s, workers |-> workers,
                       actual |-> 0, assigned |-> now, expires |-> now + Activation]
      /\ \A c \in AssignmentId : c # x => db'.row[c] = d.row[c]
  BY <1>2, <1>3, ReserveMoves
<1>5. a = x
  BY <1>2, <1>4
<1>6. Moves(report, db.row, db'.row)
  BY <1>2, <1>4, MovesTwice
<1>7. /\ db'.row[a].status = "PENDING" /\ db'.row[a].session = s
      /\ db'.row[a].job = j /\ db'.row[a].workers = workers
  BY <1>4, <1>5
<1>8. j \in Job
  BY <1>2, GoodTypes DEF FairChoices, FairJobs
<1>9. answer \in Answer
  BY <1>7, <1>8, SizesAssumption DEF Answer, AssignmentId
<1>10. /\ answer.kind = "assignment" /\ answer.assignment = a
       /\ answer.job = db'.row[a].job /\ answer.workers = db'.row[a].workers
  OBVIOUS
<1>11. b = [browser[s] EXCEPT !.asking = "answered", !.answer = answer]
  OBVIOUS
<1>. HIDE DEF answer
<1>12. /\ b \in Browser /\ b.cube = "none" /\ b.current = 0 /\ b.active = 0 /\ b.since = Never
       /\ b.previous = report /\ b.answer = answer /\ b.asking = "answered"
  BY <1>1, <1>9, <1>11 DEF Browser
<1>13. Reports(s, browser[s], db.row, worked)
  BY DEF SwarmInv, Fine
<1>14. a # 0
  BY SizesAssumption DEF AssignmentId
<1>15. a # report.assignment
  BY <1>13, <1>14 DEF Reports, Reserves
<1>16. Reports(s, b, db'.row, worked)
  <2>1. report.assignment # 0 => report.assignment \in AssignmentId
    BY <1>1, AtRest DEF AnyReport
  <2>. QED BY <1>6, <1>12, <1>13, <2>1 DEF Reports, Reserves, Moves
<1>17. worked[a] = 0
  BY DEF SwarmInv, Settling
<1>18. Granted(s, b, db'.row, now, worked)
  BY <1>7, <1>10, <1>12, <1>15, <1>17 DEF Granted, Reserves
<1>19. Shaped(b) /\ Clocked(b, now)
  BY <1>1, <1>7, <1>8, <1>10, <1>12 DEF Shaped, Clocked
<1>. QED BY <1>6, <1>10, <1>12, <1>16, <1>18, <1>19 DEF Fine

LEMMA DirectoryHandlesKeeps ==
    ASSUME SwarmInv, NEW s \in Session, DirectoryHandles(s)
    PROVE  SwarmInv'
<1>. DEFINE report == browser[s].previous
<1>1. /\ browser[s].asking = "sent" /\ worked' = worked /\ report \in AnyReport
      /\ IInv /\ browser[s].asking # "no"
  BY AskingFacts DEF DirectoryHandles, SwarmInv
<1>2. ASSUME NEW kind \in {"no-work", "invalid"}, Answered(s, Refusal(kind)),
             MaxLate = 0 => kind # "invalid", Moves(report, db.row, db'.row), IInv', now' = now
      PROVE  SwarmInv'
  <2>1. PICK b : b = [browser[s] EXCEPT !.asking = "answered", !.answer = Refusal(kind)]
    OBVIOUS
  <2>2. browser' = [browser EXCEPT ![s] = b]
    BY <1>2, <2>1 DEF Answered, SwarmInv, SwarmTypeOK
  <2>3. Fine(s, b, db'.row, now, worked)
    BY <1>1, <1>2, <2>1, RefusedFine
  <2>. QED BY <1>1, <1>2, <2>2, <2>3, HandledKeeps
<1>3. CASE AssignInvalid(s, report) /\ Answered(s, Refusal("invalid"))
  <2>1. MaxLate # 0
    BY <1>1, <1>3, NeverInvalid
  <2>2. db' = ExpireAssignments(db) /\ now' = now
    BY <1>3 DEF AssignInvalid
  <2>3. Moves(NoReport, db.row, db'.row)
    BY <1>1, <2>2, ExpireMoves DEF IInv
  <2>4. Moves(report, db.row, db'.row)
    BY <2>3, SameRowsMove, MovesTwice
  <2>5. IInv'
    BY <1>1, <1>3, NoAssignmentGood
  <2>. QED BY <1>2, <1>3, <2>1, <2>2, <2>4, <2>5
<1>4. CASE AssignNothing(s, report) /\ Answered(s, Refusal("no-work"))
  <2>1. db' = Settled(s, report) /\ now' = now
    BY <1>4 DEF AssignNothing
  <2>2. Moves(report, db.row, db'.row)
    BY <1>1, <2>1, SettledMoves
  <2>3. IInv'
    BY <1>1, <1>4, NoAssignmentGood
  <2>. QED BY <1>2, <1>4, <2>1, <2>2, <2>3
<1>5. ASSUME NEW offer \in 1..MaxOffer, NEW a \in AssignmentId, db.row[a].status = "NONE",
             Assign(s, offer, report), db'.row[a].status = "PENDING",
             Answered(s, [kind |-> "assignment", assignment |-> a,
                          job |-> db'.row[a].job, workers |-> db'.row[a].workers])
      PROVE  SwarmInv'
  <2>1. PICK b : b = [browser[s] EXCEPT !.asking = "answered",
                         !.answer = [kind |-> "assignment", assignment |-> a,
                                     job |-> db'.row[a].job, workers |-> db'.row[a].workers]]
    OBVIOUS
  <2>2. browser' = [browser EXCEPT ![s] = b]
    BY <1>5, <2>1 DEF Answered, SwarmInv, SwarmTypeOK
  <2>3. Moves(report, db.row, db'.row) /\ Fine(s, b, db'.row, now, worked)
    BY <1>1, <1>5, <2>1, AssignedFine
  <2>4. IInv'
    BY <1>1, <1>5, AssignGood
  <2>5. now' = now
    BY <1>5 DEF Assign
  <2>. QED BY <1>1, <2>2, <2>3, <2>4, <2>5, HandledKeeps
<1>. QED BY <1>3, <1>4, <1>5 DEF DirectoryHandles

\* The coordinator activates the assignment of the browser, or refuses it.
LEMMA JoinKeeps ==
    ASSUME SwarmInv, NEW s \in Session, Join(s)
    PROVE  SwarmInv'
<1>. DEFINE b == browser[s]
            a == b.current
            c == IF Live(ExpireAssignments(db), a)
                 THEN [b EXCEPT !.cube = "joined"] ELSE CompleteAssignment(b, TRUE)
<1>1. /\ b.cube = "loading" /\ worked' = worked /\ Activate(a, s, b.answer.job)
      /\ browser' = [browser EXCEPT ![s] = c]
  BY DEF Join, SwarmInv, SwarmTypeOK
<1>2. Fine(s, b, db.row, now, worked) /\ IInv
  BY DEF SwarmInv
<1>. HIDE DEF c
<1>3. a \in AssignmentId /\ b.answer.job \in Job
  BY <1>1, <1>2 DEF Fine, Shaped
<1>4. IInv' /\ Moves(NoReport, db.row, db'.row)
  BY <1>1, <1>2, <1>3, ActivateGood, ActivateMoves
<1>5. now' = now /\ now \in Nat
  BY <1>1, <1>2 DEF Activate, IInv
<1>6. Fine(s, c, db.row, now, worked)
  <2>1. CASE Live(ExpireAssignments(db), a)
    <3>. DEFINE j == [b EXCEPT !.cube = "joined"]
    <3>1. b \in Browser
      BY <1>2 DEF Fine
    <3>2. /\ j \in Browser /\ j.cube = "joined" /\ j.answer = b.answer /\ j.previous = b.previous
          /\ j.current = b.current /\ j.active = b.active /\ j.since = b.since
          /\ j.spent = b.spent /\ j.deadline = b.deadline /\ j.asking = b.asking
          /\ j.phase = b.phase
      BY <3>1 DEF Browser
    <3>. HIDE DEF j, b
    <3>3. Shaped(j)
      BY <1>1, <1>2, <3>2 DEF Fine, Shaped
    <3>4. Clocked(j, now)
      BY <1>1, <1>2, <3>2 DEF Fine, Clocked
    <3>5. Granted(s, j, db.row, now, worked)
      BY <1>1, <1>2, <3>2 DEF Fine, Granted, Measured
    <3>6. Reports(s, j, db.row, worked)
      BY <1>2, <3>2 DEF Fine, Reports
    <3>7. Fine(s, j, db.row, now, worked)
      BY <1>2, <3>2, <3>3, <3>4, <3>5, <3>6 DEF Fine
    <3>. QED BY <2>1, <3>7 DEF c, j
  <2>2. CASE ~Live(ExpireAssignments(db), a)
    <3>1. Fine(s, CompleteAssignment(b, TRUE), db.row, now, worked)
      BY <1>1, <1>2, <1>5, CompleteFine
    <3>. QED BY <2>2, <3>1 DEF c
  <2>. QED BY <2>1, <2>2
<1>7. c.answer.kind = "assignment" => c.answer.assignment # NoReport.assignment
  BY <1>6, AtRest, SizesAssumption DEF Fine, Shaped, AssignmentId
<1>8. Fine(s, c, db'.row, now, worked)
  BY <1>4, <1>6, <1>7, FineMoves
<1>. QED BY <1>1, <1>4, <1>5, <1>8, AtRest, HandledKeeps

\* Two browsers do not work on the same assignment, so that the worker time a
\* tick adds to an assignment is that of the one browser that works on it.
LEMMA OneWorker ==
    ASSUME SwarmInv, NEW s \in Session, NEW q \in Session,
           browser[s].current # 0, browser[q].current = browser[s].current
    PROVE  q = s
<1>1. ASSUME NEW x \in Session, browser[x].current # 0
      PROVE  db.row[browser[x].current].session = x
  BY <1>1 DEF SwarmInv, Fine, Shaped, Granted, Reserves
<1>. QED BY <1>1

LEMMA WorkAdded ==
    ASSUME SwarmInv, TimePasses, NEW a \in AssignmentId
    PROVE  /\ \A s \in Session : browser[s].current = a => worked'[a] = worked[a] + browser[s].active
           /\ (\A s \in Session : browser[s].current # a) => worked'[a] = worked[a]
           /\ worked'[a] \in Nat
<1>1. /\ worked'[a] = worked[a] + IF \E s \in Session : browser[s].current = a
                        THEN browser[CHOOSE s \in Session : browser[s].current = a].active ELSE 0
      /\ worked[a] \in Nat
  BY DEF TimePasses, SwarmInv, SwarmTypeOK
<1>2. ASSUME NEW s \in Session, browser[s].current = a
      PROVE  (CHOOSE x \in Session : browser[x].current = a) = s
  <2>1. /\ (CHOOSE x \in Session : browser[x].current = a) \in Session
        /\ browser[CHOOSE x \in Session : browser[x].current = a].current = a
    BY <1>2
  <2>2. a # 0
    BY SizesAssumption DEF AssignmentId
  <2>. QED BY <1>2, <2>1, <2>2, OneWorker
<1>3. ASSUME NEW s \in Session
      PROVE  browser[s].active \in Nat
  BY BrowserTypes DEF SwarmInv, Fine
<1>4. ASSUME NEW s \in Session, browser[s].current = a
      PROVE  worked'[a] = worked[a] + browser[s].active /\ worked'[a] \in Nat
  <2>1. worked'[a] = worked[a] + browser[CHOOSE x \in Session : browser[x].current = a].active
    BY <1>1, <1>4
  <2>2. worked'[a] = worked[a] + browser[s].active
    BY <1>2, <1>4, <2>1
  <2>. QED BY <1>1, <1>3, <2>2
<1>5. ASSUME \A s \in Session : browser[s].current # a
      PROVE  worked'[a] = worked[a] /\ worked'[a] \in Nat
  <2>1. worked'[a] = worked[a] + 0
    BY <1>1, <1>5
  <2>. QED BY <1>1, <2>1
<1>. QED BY <1>4, <1>5

LEMMA TimePassesKeeps ==
    ASSUME SwarmInv, TimePasses
    PROVE  SwarmInv'
<1>1. /\ db' = db /\ browser' = browser /\ now' = now + 1 /\ now \in Nat
      /\ \A s \in Session : browser[s].cube # "none" => now < browser[s].deadline + MaxLate
  <2>1. ASSUME NEW s \in Session, browser[s].cube # "none"
        PROVE  now < browser[s].deadline + MaxLate
    <3>1. ~(now >= browser[s].deadline + MaxLate)
      BY <2>1 DEF TimePasses, Overdue
    <3>2. browser[s].deadline \in Nat /\ now \in Nat /\ MaxLate \in Nat
      BY BrowserTypes, BrowserAssumption DEF SwarmInv, Fine, IInv
    <3>. QED BY <3>1, <3>2
  <2>. QED BY <2>1 DEF TimePasses, Tick, SwarmInv, IInv
<1>2. IInv'
  BY TickGood DEF TimePasses, SwarmInv
<1>3. SwarmTypeOK'
  <2>1. DOMAIN worked' = AssignmentId /\ worked' = [a \in AssignmentId |-> worked'[a]]
    BY DEF TimePasses
  <2>2. \A a \in AssignmentId : worked'[a] \in Nat
    BY WorkAdded
  <2>3. worked' \in [AssignmentId -> Nat]
    BY <2>1, <2>2
  <2>. QED BY <1>1, <2>3 DEF SwarmInv, SwarmTypeOK
<1>4. ASSUME NEW s \in Session
      PROVE  Fine(s, browser[s], db.row, now + 1, worked')
  <2>. DEFINE b == browser[s]
  <2>1. /\ b \in Browser /\ Shaped(b) /\ Clocked(b, now) /\ Granted(s, b, db.row, now, worked)
        /\ Reports(s, b, db.row, worked) /\ (MaxLate = 0 => b.answer.kind # "invalid")
    BY DEF SwarmInv, Fine
  <2>2. Clocked(b, now + 1)
    BY <1>1, <2>1, BrowserTypes, BrowserAssumption DEF Clocked
  <2>3. ASSUME NEW a \in AssignmentId, db.row[a].session = s, b.current # a
        PROVE  worked'[a] = worked[a]
    <3>1. ASSUME NEW q \in Session, browser[q].current = a
          PROVE  FALSE
      <4>1. a # 0
        BY SizesAssumption DEF AssignmentId
      <4>2. db.row[a].session = q
        BY <3>1, <4>1 DEF SwarmInv, Fine, Shaped, Granted, Reserves
      <4>. QED BY <2>3, <3>1, <4>2
    <3>. QED BY <3>1, WorkAdded
  <2>4. Granted(s, b, db.row, now + 1, worked')
    <3>1. CASE b.cube # "none"
      <4>1. /\ b.answer.kind = "assignment" /\ b.current = b.answer.assignment
            /\ b.current \in AssignmentId
        BY <2>1, <3>1 DEF Shaped
      <4>2. worked'[b.current] = worked[b.current] + b.active
        BY <4>1, WorkAdded
      <4>3. worked[b.current] = Measured(b, now)
        BY <2>1, <3>1, <4>1 DEF Granted
      <4>4. Measured(b, now + 1) = Measured(b, now) + b.active
        <5>1. PICK k \in Int : k = now - b.since
          BY <1>1, <2>1, <3>1 DEF Clocked
        <5>2. PICK y \in Nat : y = b.active
          BY <2>1, BrowserTypes
        <5>3. (k + 1) * y = k * y + y
          OBVIOUS
        <5>4. (now + 1) - b.since = k + 1
          BY <1>1, <2>1, <3>1, <5>1 DEF Clocked
        <5>5. b.spent \in Nat
          BY <2>1, BrowserTypes
        <5>6. Measured(b, now) = b.spent + k * y /\ k * y \in Int
          BY <5>1, <5>2 DEF Measured
        <5>7. Measured(b, now + 1) = b.spent + (k + 1) * y
          BY <5>2, <5>4 DEF Measured
        <5>. QED BY <5>2, <5>3, <5>5, <5>6, <5>7
      <4>5. worked'[b.current] = Measured(b, now + 1)
        BY <4>2, <4>3, <4>4
      <4>. HIDE DEF b
      <4>. QED BY <2>1, <3>1, <4>1, <4>5 DEF Granted
    <3>2. CASE b.cube = "none" /\ b.answer.kind = "assignment"
      <4>1. b.current = 0 /\ b.answer.assignment \in AssignmentId
        BY <2>1, <3>2 DEF Shaped
      <4>2. b.answer.assignment # 0
        BY <4>1, SizesAssumption DEF AssignmentId
      <4>3. db.row[b.answer.assignment].session = s /\ worked[b.answer.assignment] = 0
        BY <2>1, <3>2 DEF Granted, Reserves
      <4>4. worked'[b.answer.assignment] = 0
        BY <2>3, <4>1, <4>2, <4>3
      <4>. QED BY <2>1, <3>2, <4>4 DEF Granted
    <3>. QED BY <3>1, <3>2 DEF Granted
  <2>5. Reports(s, b, db.row, worked')
    <3>1. SUFFICES ASSUME b.previous.assignment # 0
                   PROVE  worked'[b.previous.assignment] = worked[b.previous.assignment]
      BY <2>1 DEF Reports
    <3>2. b.previous.assignment \in AssignmentId
      BY <2>1, <3>1, BrowserTypes, SizesAssumption DEF AssignmentId
    <3>3. db.row[b.previous.assignment].session = s
      BY <2>1, <3>1 DEF Reports, Reserves
    <3>4. b.current # b.previous.assignment
      BY <2>1, <3>1, AtRest DEF Shaped
    <3>. QED BY <2>3, <3>2, <3>3, <3>4
  <2>. QED BY <2>1, <2>2, <2>4, <2>5 DEF Fine
<1>5. Settling(db.row, worked')
  <2>1. ASSUME NEW a \in AssignmentId, db.row[a].status \in {"NONE", "COMPLETE"}
        PROVE  worked'[a] = worked[a]
    <3>1. ASSUME NEW q \in Session, browser[q].current = a
          PROVE  FALSE
      <4>1. a # 0
        BY SizesAssumption DEF AssignmentId
      <4>2. db.row[a].status # "NONE" /\ db.row[a].status # "COMPLETE"
        BY <3>1, <4>1 DEF SwarmInv, Fine, Shaped, Granted, Reserves
      <4>. QED BY <2>1, <4>2
    <3>. QED BY <3>1, WorkAdded
  <2>. QED BY <2>1 DEF SwarmInv, Settling
<1>. QED BY <1>1, <1>2, <1>3, <1>4, <1>5 DEF SwarmInv

\* Every step of the swarm.
LEMMA BrowserStepKeeps ==
    ASSUME SwarmInv, NEW s \in Session, BrowserStep(s)
    PROVE  SwarmInv'
<1>. DEFINE b == browser[s]
<1>1. /\ Fine(s, b, db.row, now, worked) /\ now \in Nat /\ b \in Browser
      /\ Shaped(b) /\ Reports(s, b, db.row, worked)
  BY DEF SwarmInv, IInv, Fine
<1>2. ASSUME NEW c, Fine(s, c, db.row, now, worked), Becomes(s, c)
      PROVE  SwarmInv'
  BY <1>2, BecomesKeeps
<1>3. b.cube = "none" => Fine(s, ConnectDirectory(b), db.row, now, worked)
  BY <1>1, ConnectFine DEF Shaped
<1>4. CASE StartRuntime(s)
  <2>1. b.cube = "none"
    BY <1>1, <1>4 DEF StartRuntime, Shaped
  <2>. QED BY <1>2, <1>3, <1>4, <2>1 DEF StartRuntime
<1>5. CASE PauseRuntime(s)
  BY <1>1, <1>2, <1>5, PausedFine DEF PauseRuntime
<1>6. CASE StopRuntime(s)
  <2>. DEFINE p == Paused(b)
              c == [p EXCEPT !.phase = "idle", !.previous = NoReport, !.spent = 0]
  <2>1. /\ p \in Browser /\ p.cube = "none" /\ p.current = 0 /\ p.active = 0
        /\ p.since = Never /\ p.answer = Silence
    BY <1>1, PausedFine
  <2>. HIDE DEF p
  <2>2. /\ c \in Browser /\ c.cube = "none" /\ c.current = 0 /\ c.active = 0
        /\ c.since = Never /\ c.answer = Silence /\ c.previous = NoReport
    BY <2>1, AtRest DEF Browser, RunPhase
  <2>. HIDE DEF c
  <2>3. Reports(s, c, db.row, worked)
    BY <2>2, AtRest DEF Reports
  <2>4. Fine(s, c, db.row, now, worked)
    BY <2>2, <2>3, AtRest, Resting
  <2>. QED BY <1>2, <1>6, <2>4 DEF StopRuntime, c, p
<1>7. CASE Reconfigure(s)
  <2>. DEFINE p == Paused(b)
  <2>1. /\ p \in Browser /\ p.current = 0 /\ Reports(s, p, db.row, worked)
        /\ p.previous.assignment = 0 => p.previous = NoReport
    BY <1>1, PausedFine
  <2>. HIDE DEF p
  <2>2. Fine(s, ConnectDirectory(p), db.row, now, worked)
    BY <2>1, ConnectFine
  <2>. QED BY <1>2, <1>7, <2>2 DEF Reconfigure, p
<1>8. CASE DirectoryHandles(s)
  BY <1>8, DirectoryHandlesKeeps
<1>9. CASE DirectoryAnswers(s)
  <2>. DEFINE e == [b EXCEPT !.asking = "no"]
              taken == [b EXCEPT !.asking = "no", !.previous = NoReport]
              idle == [e EXCEPT !.phase = "no-work", !.previous = NoReport, !.answer = Silence]
              refused == [e EXCEPT !.phase = "error", !.answer = Silence]
  <2>1. /\ b.cube = "none" /\ b.current = 0 /\ b.active = 0 /\ b.since = Never
        /\ b.previous.assignment = 0 => b.previous = NoReport
        /\ b.asking = "answered"
    BY <1>1, <1>9 DEF DirectoryAnswers, Shaped
  <2>2. e.answer = b.answer
    BY <1>1 DEF Browser
  <2>3. \/ b.answer.kind = "assignment" /\ Becomes(s, BeginAssignment([e EXCEPT !.previous = NoReport]))
        \/ Becomes(s, idle)
        \/ Becomes(s, refused)
    BY <1>9, <2>2 DEF DirectoryAnswers
  <2>4. CASE b.answer.kind = "assignment" /\ Becomes(s, BeginAssignment([e EXCEPT !.previous = NoReport]))
    <3>1. [e EXCEPT !.previous = NoReport] = taken
      BY <1>1 DEF Browser
    <3>2. Fine(s, BeginAssignment(taken), db.row, now, worked)
      BY <1>1, <2>1, <2>4, BeginFine
    <3>. QED BY <1>2, <2>4, <3>1, <3>2
  <2>5. CASE Becomes(s, idle)
    <3>1. /\ idle \in Browser /\ idle.cube = "none" /\ idle.current = 0 /\ idle.active = 0
          /\ idle.since = Never /\ idle.answer = Silence /\ idle.previous = NoReport
      BY <1>1, <2>1, AtRest DEF Browser, RunPhase
    <3>. HIDE DEF idle
    <3>2. Reports(s, idle, db.row, worked)
      BY <3>1, AtRest DEF Reports
    <3>3. Fine(s, idle, db.row, now, worked)
      BY <3>1, <3>2, AtRest, Resting
    <3>. QED BY <1>2, <2>5, <3>3
  <2>6. CASE Becomes(s, refused)
    <3>1. /\ refused \in Browser /\ refused.cube = "none" /\ refused.current = 0
          /\ refused.active = 0 /\ refused.since = Never /\ refused.answer = Silence
          /\ refused.previous = b.previous
      BY <1>1, <2>1, AtRest DEF Browser, RunPhase
    <3>. HIDE DEF refused
    <3>2. Reports(s, refused, db.row, worked)
      BY <1>1, <3>1 DEF Reports
    <3>3. Fine(s, refused, db.row, now, worked)
      BY <2>1, <3>1, <3>2, AtRest, Resting
    <3>. QED BY <1>2, <2>6, <3>3
  <2>. QED BY <2>3, <2>4, <2>5, <2>6
<1>10. CASE DirectoryLost(s)
  <2>. DEFINE c == [b EXCEPT !.asking = "no", !.answer = Silence, !.phase = "reconnecting"]
  <2>1. /\ b.cube = "none" /\ b.current = 0 /\ b.active = 0 /\ b.since = Never
        /\ b.previous.assignment = 0 => b.previous = NoReport
    BY <1>1, <1>10 DEF DirectoryLost, Shaped
  <2>2. /\ c \in Browser /\ c.cube = "none" /\ c.current = 0 /\ c.active = 0
        /\ c.since = Never /\ c.answer = Silence /\ c.previous = b.previous
    BY <1>1, <2>1, AtRest DEF Browser, RunPhase
  <2>. HIDE DEF c
  <2>3. Reports(s, c, db.row, worked)
    BY <1>1, <2>2 DEF Reports
  <2>4. Fine(s, c, db.row, now, worked)
    BY <2>1, <2>2, <2>3, AtRest, Resting
  <2>. QED BY <1>2, <1>10, <2>4 DEF DirectoryLost, c
<1>11. CASE Retry(s)
  <2>1. b.cube = "none"
    BY <1>1, <1>11 DEF Retry, Shaped
  <2>. QED BY <1>2, <1>3, <1>11, <2>1 DEF Retry
<1>12. CASE Join(s)
  BY <1>12, JoinKeeps
<1>13. ASSUME NEW active \in 0..Capacity, Work(s, active)
       PROVE  SwarmInv'
  <2>1. Fine(s, Observed(b, active), db.row, now, worked)
    BY <1>1, <1>13, ObservedFine DEF Work
  <2>. QED BY <1>2, <1>13, <2>1 DEF Work
<1>14. ASSUME NEW failed \in BOOLEAN, b.cube # "none", Becomes(s, CompleteAssignment(b, failed))
       PROVE  SwarmInv'
  <2>1. Fine(s, CompleteAssignment(b, failed), db.row, now, worked)
    BY <1>1, <1>14, CompleteFine
  <2>. QED BY <1>2, <1>14, <2>1
<1>15. CASE CubeEnds(s, TRUE) \/ CubeEnds(s, FALSE) \/ QuantumEnds(s)
  BY <1>14, <1>15 DEF CubeEnds, QuantumEnds
<1>. QED BY <1>4, <1>5, <1>6, <1>7, <1>8, <1>9, <1>10, <1>11, <1>12, <1>13, <1>15 DEF BrowserStep

LEMMA SwarmNextKeeps == SwarmInv /\ [SwarmNext]_swarmVars => SwarmInv'
<1>. SUFFICES ASSUME SwarmInv, [SwarmNext]_swarmVars
              PROVE  SwarmInv'
  OBVIOUS
<1>1. IInv
  BY DEF SwarmInv
<1>2. ASSUME NEW s \in Session, BrowserStep(s)
      PROVE  SwarmInv'
  BY <1>2, BrowserStepKeeps
<1>3. CASE AdmissionStep /\ UNCHANGED <<browser, worked>>
  <2>1. Moves(NoReport, db.row, db'.row) /\ now' = now
    BY <1>1, <1>3, AdmissionMoves
  <2>2. IInv'
    BY <1>1, <1>3, NextGood DEF Next
  <2>. QED BY <1>3, <2>1, <2>2, UntouchedKeeps
<1>4. CASE Alarm /\ UNCHANGED <<browser, worked>>
  <2>1. Moves(NoReport, db.row, db'.row) /\ now' = now
    BY <1>1, <1>4, AlarmMoves DEF Alarm
  <2>2. IInv'
    BY <1>1, <1>4, AlarmGood
  <2>. QED BY <1>4, <2>1, <2>2, UntouchedKeeps
<1>5. CASE TimePasses
  BY <1>5, TimePassesKeeps
<1>6. CASE UNCHANGED swarmVars
  <2>1. /\ db' = db /\ alarm' = alarm /\ now' = now /\ browser' = browser /\ worked' = worked
    BY <1>6 DEF swarmVars
  <2>2. IInv'
    BY <1>1, <2>1, KeptAlarm DEF IInv
  <2>. QED BY <2>1, <2>2, SameRowsMove, UntouchedKeeps
<1>. QED BY <1>2, <1>3, <1>4, <1>5, <1>6 DEF SwarmNext

LEMMA SwarmInitGood == SwarmInit => SwarmInv
<1>. SUFFICES ASSUME SwarmInit
              PROVE  SwarmInv
  OBVIOUS
<1>1. /\ IInv /\ browser = [s \in Session |-> NewBrowser] /\ worked = [a \in AssignmentId |-> 0]
      /\ db.row = [a \in AssignmentId |-> NoRow]
  BY InitGood DEF SwarmInit, Init
<1>2. /\ NewBrowser \in Browser /\ NewBrowser.cube = "none" /\ NewBrowser.current = 0
      /\ NewBrowser.active = 0 /\ NewBrowser.since = Never /\ NewBrowser.answer = Silence
      /\ NewBrowser.previous = NoReport
  BY AtRest DEF NewBrowser, Browser, RunPhase
<1>3. \A s \in Session : Reports(s, NewBrowser, db.row, worked)
  BY <1>2, AtRest DEF Reports
<1>4. \A s \in Session : Fine(s, browser[s], db.row, now, worked)
  BY <1>1, <1>2, <1>3, AtRest, Resting
<1>5. Settling(db.row, worked)
  BY <1>1 DEF Settling, NoRow
<1>6. SwarmTypeOK
  BY <1>1, <1>2 DEF SwarmTypeOK
<1>. QED BY <1>1, <1>4, <1>5, <1>6 DEF SwarmInv

-----------------------------------------------------------------------------
(* What holds.                                                             *)

LEMMA SwarmInductive == SwarmSpec => []SwarmInv
  BY SwarmInitGood, SwarmNextKeeps, PTL DEF SwarmSpec

\* Every field has its type, and the worker time measured is a number, for any
\* number of browsers, jobs and assignments.
THEOREM SwarmTypeCorrect == SwarmSpec => []SwarmTypeOK
<1>1. SwarmInv => SwarmTypeOK
  BY DEF SwarmInv
<1>. QED BY <1>1, SwarmInductive, PTL

\* The directory settles an assignment with exactly the time its workers were
\* busy (publicSwarmRuntime.ts, integrateWorkerTime), wherever pauses, changes
\* of the workers, lost answers, failures and timers cut it off.
THEOREM TimeReportedIsWorked == SwarmSpec => []ReportedTimeIsWorked
<1>1. SwarmInv => ReportedTimeIsWorked
  BY DEF SwarmInv, Settling, ReportedTimeIsWorked
<1>. QED BY <1>1, SwarmInductive, PTL

\* What a browser works on or has yet to report is reserved for it, and is not
\* settled behind its back while it works (publicSwarmRuntime.ts,
\* currentAssignmentId and previousAssignment).
THEOREM ClaimsReserved == SwarmSpec => []ClaimsAreReserved
<1>1. SwarmInv => ClaimsAreReserved
  <2>. SUFFICES ASSUME SwarmInv
                PROVE  ClaimsAreReserved
    OBVIOUS
  <2>1. ASSUME NEW s \in Session
        PROVE  /\ browser[s].current # 0 => db.row[browser[s].current].session = s
               /\ browser[s].previous.assignment # 0 =>
                    db.row[browser[s].previous.assignment].session = s
               /\ browser[s].cube # "none" =>
                    /\ browser[s].current # 0
                    /\ db.row[browser[s].current].status # "COMPLETE"
    BY DEF SwarmInv, Fine, Shaped, Granted, Reports, Reserves
  <2>. QED BY <2>1 DEF ClaimsAreReserved, Claimed
<1>. QED BY <1>1, SwarmInductive, PTL

\* If timers fire when they are due, no browser is refused as invalid
\* (swarm-directory.ts:533): what it measured never exceeds what was reserved.
\* A timer that fires late may be refused, see README, late_timer.
THEOREM ReportsAccepted ==
    ASSUME MaxLate = 0
    PROVE  SwarmSpec => []ReportIsAccepted
<1>1. SwarmInv => ReportIsAccepted
  BY DEF SwarmInv, Fine, ReportIsAccepted
<1>. QED BY <1>1, SwarmInductive, PTL

\* However late a timer fires, a browser reports no more than its workers can do
\* in a quantum and that delay.
ReportsAreBounded ==
    \A s \in Session : LET report == browser[s].previous IN
        report.assignment # 0 =>
            report.actual <= db.row[report.assignment].workers * (Quantum + MaxLate)

THEOREM ReportsBounded == SwarmSpec => []ReportsAreBounded
<1>1. SwarmInv => ReportsAreBounded
  BY DEF SwarmInv, Fine, Reports, ReportsAreBounded
<1>. QED BY <1>1, SwarmInductive, PTL

-----------------------------------------------------------------------------
(* The swarm is a use of the directory.                                    *)

\* A report is one the directory's protocol lets through: what a browser can
\* have worked, late timers included, is within the bound of the message.
LEMMA ReportsConform ==
    ASSUME SwarmInv, NEW s \in Session,
           ReportedTimes = 0..(Quantum * MaxOffer),
           MaxWorkers * (Quantum + MaxLate) <= Quantum * MaxOffer
    PROVE  browser[s].previous \in Report \cup {NoReport}
<1>. DEFINE b == browser[s]
            r == b.previous
<1>1. /\ b \in Browser /\ Shaped(b) /\ Reports(s, b, db.row, worked)
      /\ db.row \in [AssignmentId -> AssignmentRow]
  BY DEF SwarmInv, Fine, IInv, Good, Database
<1>2. r \in [assignment: 0..MaxAssignments, actual: Nat]
  BY <1>1, BrowserTypes
<1>3. CASE r.assignment = 0
  BY <1>1, <1>3 DEF Shaped
<1>4. CASE r.assignment # 0
  <2>1. MaxAssignments \in Nat /\ MaxWorkers \in Nat /\ Quantum + MaxLate \in Nat
        /\ Quantum * MaxOffer \in Nat
    <3>1. /\ MaxAssignments \in Nat /\ MaxWorkers \in Nat /\ MaxOffer \in Nat
          /\ Quantum \in Nat /\ MaxLate \in Nat
      BY SizesAssumption, BrowserAssumption
    <3>. QED BY <3>1
  <2>2. r.assignment \in 0..MaxAssignments /\ r.actual \in Nat
    BY <1>2
  <2>3. r.assignment \in AssignmentId
    BY <1>4, <2>1, <2>2 DEF AssignmentId
  <2>4. PICK w \in 0..MaxWorkers : w = db.row[r.assignment].workers
    BY <1>1, <2>3 DEF AssignmentRow
  <2>5. PICK q \in Nat : q = Quantum + MaxLate
    BY <2>1
  <2>6. PICK most \in Nat : most = Quantum * MaxOffer
    BY <2>1
  <2>7. r.actual <= w * q
    BY <1>1, <1>4, <2>4, <2>5 DEF Reports
  <2>8. w * q <= MaxWorkers * q
    <3>1. w \in Nat /\ w <= MaxWorkers
      BY <2>1
    <3>2. q * w <= q * MaxWorkers
      BY <2>1, <2>5, <3>1, TimesGrow
    <3>3. ASSUME NEW k \in Nat
          PROVE  q * k = k * q
      BY <2>5
    <3>. QED BY <2>1, <3>1, <3>2, <3>3
  <2>9. MaxWorkers * q <= most
    BY <2>5, <2>6
  <2>10. r.actual <= most
    <3>1. w * q \in Nat /\ MaxWorkers * q \in Nat
      BY <2>1
    <3>. QED BY <2>2, <2>7, <2>8, <2>9, <3>1
  <2>11. r.actual \in ReportedTimes
    BY <2>2, <2>6, <2>10
  <2>. QED BY <1>2, <2>3, <2>11 DEF Report
<1>. QED BY <1>3, <1>4

\* With browsers that lose answers, pause, are late and leave, the directory
\* does what it may do on its own: publicSwarmRuntime.ts reports no time that
\* the protocol does not let through.  So whatever is proved of the directory
\* holds here too.  The bound of a report, a quantum of 32 workers
\* (swarm-protocol.ts:113), is wider than what a job's eight workers can do
\* before their timer, up to three quanta late, is handled.
THEOREM SwarmImplementsDirectory ==
    ASSUME ReportedTimes = 0..(Quantum * MaxOffer),
           MaxWorkers * (Quantum + MaxLate) <= Quantum * MaxOffer
    PROVE  SwarmSpec => Spec
<1>1. SwarmInit => Init
  BY DEF SwarmInit
<1>2. SwarmInv /\ [SwarmNext]_swarmVars => [Next]_vars
  <2>. SUFFICES ASSUME SwarmInv, SwarmNext PROVE Next \/ UNCHANGED vars
    BY DEF swarmVars, vars
  <2>1. ASSUME NEW s \in Session, DirectoryHandles(s) PROVE Next
    <3>. DEFINE report == browser[s].previous
    <3>1. report \in Report \cup {NoReport}
      BY ReportsConform
    <3>2. \/ AssignInvalid(s, report) \/ AssignNothing(s, report)
          \/ \E offer \in 1..MaxOffer : Assign(s, offer, report)
      BY <2>1 DEF DirectoryHandles
    <3>. HIDE DEF report
    <3>3. SwarmStep
      BY <3>1, <3>2 DEF SwarmStep
    <3>. QED BY <3>3 DEF Next
  <2>2. ASSUME NEW s \in Session, Join(s) PROVE Next
    <3>1. /\ Activate(browser[s].current, s, browser[s].answer.job)
          /\ browser[s].cube # "none"
      BY <2>2 DEF Join
    <3>2. browser[s].current \in AssignmentId /\ browser[s].answer.job \in Job
      BY <3>1 DEF SwarmInv, Fine, Shaped
    <3>3. SwarmStep
      BY <3>1, <3>2 DEF SwarmStep
    <3>. QED BY <3>3 DEF Next
  <2>3. ASSUME NEW s \in Session, BrowserStep(s), ~DirectoryHandles(s), ~Join(s)
        PROVE  UNCHANGED vars
    BY <2>3 DEF BrowserStep, StartRuntime, PauseRuntime, StopRuntime, Reconfigure,
       DirectoryAnswers, DirectoryLost, Retry, Work, CubeEnds, QuantumEnds, Becomes, vars
  <2>4. CASE (AdmissionStep \/ Alarm) /\ UNCHANGED <<browser, worked>>
    BY <2>4 DEF Next
  <2>5. CASE TimePasses
    BY <2>5 DEF TimePasses, Next
  <2>. QED BY <2>1, <2>2, <2>3, <2>4, <2>5 DEF SwarmNext
<1>. QED BY <1>1, <1>2, SwarmInductive, PTL DEF SwarmSpec, Spec

=============================================================================
