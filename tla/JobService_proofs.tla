--------------------------- MODULE JobService_proofs ---------------------------
(***************************************************************************)
(* What holds of JobService for every number of jobs, requests, leases,    *)
(* objects and faults, and every lifetime, budget and batch: what a job    *)
(* offers is stored, no race leaves an object behind, proofs stay in their *)
(* budget, browsers are sent to open jobs only, and a coordinator that     *)
(* stores something has an alarm.                                          *)
(*                                                                         *)
(* The directory's own invariant (SwarmDirectory_proofs) is carried along; *)
(* of the directory the rest needs little (Quiet).  No race goes wrong     *)
(* because an object key is in one pair of hands from the moment it is     *)
(* drawn: an upload's until it is committed, a row's afterwards            *)
(* (InFlight); and because a job whose tokens are out keeps its dates for  *)
(* ever (Created, Dating).                                                 *)
(***************************************************************************)
EXTENDS JobService, SwarmDirectory_proofs

Creating(r) == desk[r].at \in {"initialize", "rollback", "answer"}
Uploading(r) == desk[r].at \in {"put", "commit", "discard"}

\* A job that was told to its owner, or is about to be, stays in the directory's
\* history, and nobody else creates it.
Created ==
    /\ \A j \in told : db.births[j].at # Never
    /\ \A r \in Request : Creating(r) =>
         /\ desk[r].job \in Job \ told
         /\ db.births[desk[r].job].at # Never
         /\ desk[r].at = "initialize" => office[desk[r].job].state = "ABSENT"
    /\ \A r, s \in Request :
         Creating(r) /\ Creating(s) /\ desk[r].job = desk[s].job => r = s

\* A coordinator dates its job as the directory does, and is forgotten only
\* when the job has expired.
Dated(j) ==
    IF office[j].state = "ABSENT" THEN KvExpired(j)
    ELSE office[j].expires = db.births[j].at + Lifetime

Dating ==
    /\ \A j \in told : Dated(j)
    /\ \A r \in Request : desk[r].at = "answer" => Dated(desk[r].job)

\* A coordinator whose tokens are not out has stored nothing yet, and what its rows
\* name are its own objects.
Records ==
    \A j \in Job :
        /\ office[j].state = "ABSENT" => office[j] = NoOffice
        /\ j \notin told => office[j].state \in {"ABSENT", "UPLOADING"} /\ Keys(office[j]) = {}
        /\ office[j].state = "UPLOADING" => office[j].formula = NoKey
        /\ office[j].formula # NoKey => office[j].formula.kind = "formula"
        /\ \A l \in Lease : office[j].proof[l].size = 0 => office[j].proof[l].key = NoKey
        /\ \A k \in Keys(office[j]) :
              k.job = j /\ k.draw <= drawn /\ (k.kind # "formula" => k.lease \in Lease)

\* What the alarm handler of a job is at.
Ringing ==
    \A j \in Job :
        /\ bell[j] # NoRequest => office[j].state # "ABSENT"
        /\ bell[j].at \in {"clean", "close", "erase"} => office[j].expires <= now
        /\ bell[j].at = "trim" => office[j].state \notin {"UPLOADING", "OPEN"}
        /\ \A k \in bell[j].batch : k.job = j /\ k.draw <= drawn

\* What the requests have in hand.
Working ==
    \A r \in Request :
        /\ desk[r].at \notin {"none", "admit"} => desk[r].job \in Job
        /\ ~Creating(r) /\ desk[r].at \notin {"none", "admit"} => desk[r].job \in told
        /\ desk[r].at \in {"none", "admit"} => desk[r].key = NoKey /\ desk[r].batch = {}
        /\ desk[r].key # NoKey => desk[r].key.draw <= drawn
        /\ desk[r].at = "verify" =>
             desk[r].key \in Key /\ desk[r].key.job = desk[r].job /\ desk[r].key.kind # "formula"
        /\ \A k \in desk[r].batch : k.job = desk[r].job /\ k.draw <= drawn

\* The key of an upload that is not committed yet is nobody else's.
InFlight ==
    \A r \in Request : Uploading(r) =>
        LET k == desk[r].key IN
        /\ k \in Key /\ k.job = desk[r].job
        /\ k.kind # "formula" => k.lease \in Lease
        /\ k.kind = "proof" => desk[r].size # 0
        /\ \A j \in Job : k \notin Keys(office[j]) /\ k \notin bell[j].batch
        /\ \A s \in Request : k \notin desk[s].batch /\ (s # r => k # desk[s].key)
        /\ desk[r].at = "commit" => k \in kv \/ KvExpired(k.job)

\* What is stored is of a job that lives, and, unless something failed, named
\* by a row or held by an upload.
Stored ==
    /\ \A k \in kv : k.job \in told /\ ~KvExpired(k.job)
    /\ faults = 0 =>
         \A k \in kv : \/ \E j \in Job : k \in Keys(office[j])
                      \/ \E r \in Request : desk[r].at \in {"commit", "discard"} /\ desk[r].key = k

\* A row names an object that is stored, whatever the state of the job: rows and
\* objects are deleted together.
RowsAreStored == \A j \in Job : ~KvExpired(j) => Keys(office[j]) \subseteq kv

\* A job that is, or is about to be, listed as eligible.
Offers(j) ==
    \/ j \in EligibleJobs(db)
    \/ j \in db.listed /\ \E r \in Request : desk[r].at = "ready" /\ desk[r].job = j
Kept(j) ==
    \/ office[j].state = "OPEN" /\ office[j].formula # NoKey
    \/ KvExpired(j)
    \/ \E r \in Request : desk[r].job = j /\ desk[r].at \in {"clean", "close"}
    \/ faults > 0
Listed == \A j \in Job : Offers(j) => j \in told /\ Kept(j)

SpaceBounded == \A j \in Job : IsFiniteSet(Space(office[j])) /\ UsedSpace(office[j]) <= Budget

ServiceInv ==
    /\ IInv /\ ServiceTypeOK
    /\ Created /\ Dating /\ Records /\ Ringing /\ Working /\ InFlight
    /\ Stored /\ RowsAreStored /\ Listed /\ SpaceBounded /\ CleanupIsScheduled

-----------------------------------------------------------------------------
(* Coordinators.                                                           *)

\* An object key is not the absence of one.
LEMMA KeysAreKeys ==
    /\ NoKey \notin Key
    /\ \A o \in Office : Keys(o) \subseteq Key
<1>1. NoKey \notin Key
  BY DEF NoKey, Key
<1>. QED BY <1>1 DEF Keys, Office

\* What is offered, and the space it takes, depends on three columns.
LEMMA SameRows ==
    ASSUME NEW o, NEW p, p.formula = o.formula, p.model = o.model, p.proof = o.proof
    PROVE  Keys(p) = Keys(o) /\ Space(p) = Space(o)
  BY DEF Keys, Space

\* Deleted objects leave the rows, and nothing else does.
Cleaned(o, ks, p) ==
    /\ Keys(p) = Keys(o) \ ks
    /\ Space(p) = Space(o) /\ UsedSpace(p) = UsedSpace(o)
    /\ p.state = o.state /\ p.expires = o.expires
    /\ p.formula = IF o.formula \in ks THEN NoKey ELSE o.formula
    /\ \A l \in Lease : /\ p.proof[l].size = o.proof[l].size
                        /\ p.proof[l].key \in {o.proof[l].key, NoKey}

LEMMA ForgottenRows ==
    ASSUME NEW o \in Office, NEW ks \in SUBSET Key
    PROVE  LET p == Forgotten(o, ks) IN p \in Office /\ p.wake = o.wake /\ Cleaned(o, ks, p)
<1>. DEFINE p == Forgotten(o, ks)
            model == [l \in Lease |-> IF o.model[l] \in ks THEN NoKey ELSE o.model[l]]
            row(l) == IF o.proof[l].key \in ks THEN [o.proof[l] EXCEPT !.key = NoKey] ELSE o.proof[l]
            proof == [l \in Lease |-> row(l)]
<1>1. /\ p.formula = IF o.formula \in ks THEN NoKey ELSE o.formula
      /\ p.model = model /\ p.proof = proof
      /\ p.state = o.state /\ p.expires = o.expires /\ p.wake = o.wake /\ p.lease = o.lease
      /\ p = [o EXCEPT !.formula = p.formula, !.model = p.model, !.proof = p.proof]
  BY DEF Forgotten, Office
<1>2. \A l \in Lease : /\ row(l) \in [key: Key \cup {NoKey}, size: Nat]
                       /\ row(l).size = o.proof[l].size
                       /\ row(l).key = IF o.proof[l].key \in ks THEN NoKey ELSE o.proof[l].key
  BY DEF Office
<1>. HIDE DEF p, row
<1>3. p \in Office
  <2>1. p.proof \in [Lease -> [key: Key \cup {NoKey}, size: Nat]]
    BY <1>1, <1>2
  <2>2. p.model \in [Lease -> Key \cup {NoKey}] /\ p.formula \in Key \cup {NoKey}
    BY <1>1 DEF Office
  <2>. QED BY <1>1, <2>1, <2>2 DEF Office
<1>4. Keys(p) = Keys(o) \ ks
  <2>1. {p.proof[l].key : l \in Lease} \ {NoKey} = ({o.proof[l].key : l \in Lease} \ {NoKey}) \ ks
    BY <1>1, <1>2
  <2>2. {p.model[l] : l \in Lease} \ {NoKey} = ({o.model[l] : l \in Lease} \ {NoKey}) \ ks
    BY <1>1
  <2>3. {p.formula} \ {NoKey} = ({o.formula} \ {NoKey}) \ ks
    BY <1>1
  <2>4. \A q : Keys(q) = ({q.formula} \ {NoKey}) \cup ({q.model[l] : l \in Lease} \ {NoKey})
                        \cup ({q.proof[l].key : l \in Lease} \ {NoKey})
    BY DEF Keys
  <2>. QED BY <2>1, <2>2, <2>3, <2>4
<1>5. Space(p) = Space(o)
  BY <1>1, <1>2 DEF Space
<1>. QED BY <1>1, <1>2, <1>3, <1>4, <1>5 DEF Cleaned, UsedSpace, p

\* A committed upload is one more row.
LEMMA RecordedRows ==
    ASSUME NEW o \in Office, NEW key \in Key, NEW size \in Nat,
           key.kind # "formula" => key.lease \in Lease,
           key.kind = "formula" => o.formula = NoKey,
           key.kind = "model" => o.model[key.lease] = NoKey,
           key.kind = "proof" => o.proof[key.lease].size = 0 /\ o.proof[key.lease].key = NoKey
    PROVE  LET p == Recorded(o, key, size) IN
           /\ p \in Office
           /\ Keys(p) = Keys(o) \cup {key}
           /\ p.expires = o.expires /\ p.wake = o.wake /\ p.lease = o.lease
           /\ p.state = IF key.kind = "formula" THEN "OPEN" ELSE o.state
           /\ p.formula = IF key.kind = "formula" THEN key ELSE o.formula
           /\ \A l \in Lease : (key.kind = "proof" /\ l = key.lease) \/ p.proof[l] = o.proof[l]
           /\ key.kind = "proof" =>
                p.proof[key.lease] = [key |-> key, size |-> size]
<1>. DEFINE p == Recorded(o, key, size)
<1>1. key # NoKey
  BY KeysAreKeys
<1>2. CASE key.kind = "formula"
  <2>1. p = [o EXCEPT !.formula = key, !.state = "OPEN"]
    BY <1>2 DEF Recorded
  <2>2. p \in Office /\ p.model = o.model /\ p.proof = o.proof /\ p.formula = key
    BY <2>1 DEF Office
  <2>3. Keys(p) = Keys(o) \cup {key}
    BY <1>1, <1>2, <2>2 DEF Keys
  <2>. QED BY <1>2, <2>1, <2>2, <2>3 DEF Office
<1>3. CASE key.kind = "model"
  <2>. DEFINE model == [o.model EXCEPT ![key.lease] = key]
  <2>1. /\ o.model \in [Lease -> Key \cup {NoKey}] /\ o.model[key.lease] = NoKey
        /\ key.lease \in Lease
    BY <1>3 DEF Office
  <2>2. p = [o EXCEPT !.model = model]
    BY <1>3 DEF Recorded, Office
  <2>3. model \in [Lease -> Key \cup {NoKey}]
    BY <2>1
  <2>4. \A l \in Lease : model[l] = IF l = key.lease THEN key ELSE o.model[l]
    BY <2>1
  <2>. HIDE DEF p, model
  <2>5. /\ p \in Office /\ p.formula = o.formula /\ p.proof = o.proof /\ p.model = model
        /\ p.expires = o.expires /\ p.wake = o.wake /\ p.lease = o.lease /\ p.state = o.state
    BY <2>2, <2>3 DEF Office
  <2>6. Keys(p) = Keys(o) \cup {key}
    <3>1. {p.model[l] : l \in Lease} \ {NoKey} = ({o.model[l] : l \in Lease} \ {NoKey}) \cup {key}
      BY <1>1, <2>1, <2>4, <2>5
    <3>. QED BY <1>1, <2>5, <3>1 DEF Keys
  <2>. QED BY <1>3, <2>5, <2>6 DEF p
<1>4. CASE key.kind = "proof"
  <2>. DEFINE proof == [o.proof EXCEPT ![key.lease] = [key |-> key, size |-> size]]
  <2>1. p = [o EXCEPT !.proof = proof]
    BY <1>4 DEF Recorded, Office
  <2>2. proof \in [Lease -> [key: Key \cup {NoKey}, size: Nat]]
    BY DEF Office
  <2>. HIDE DEF p
  <2>3. p \in Office /\ p.formula = o.formula /\ p.model = o.model
        /\ p.proof = [o.proof EXCEPT ![key.lease] = [key |-> key, size |-> size]]
        /\ p.expires = o.expires /\ p.wake = o.wake /\ p.lease = o.lease /\ p.state = o.state
    BY <2>1, <2>2 DEF Office
  <2>4. Keys(p) = Keys(o) \cup {key}
    <3>1. /\ p.proof[key.lease].key = key /\ o.proof[key.lease].key = NoKey /\ key.lease \in Lease
          /\ \A l \in Lease : l = key.lease \/ p.proof[l].key = o.proof[l].key
      BY <1>4, <2>3 DEF Office
    <3>2. {p.proof[l].key : l \in Lease} \ {NoKey} = ({o.proof[l].key : l \in Lease} \ {NoKey}) \cup {key}
      BY <1>1, <3>1
    <3>. QED BY <1>1, <2>3, <3>2 DEF Keys
  <2>. QED BY <1>4, <2>3, <2>4 DEF Office, p
<1>5. key.kind \in {"formula", "model", "proof"}
  BY DEF Key
<1>. QED BY <1>2, <1>3, <1>4, <1>5

\* A proof of size n takes n more units.
LEMMA RecordedSpace ==
    ASSUME NEW o \in Office, NEW key \in Key, NEW size \in Nat, key.lease \in Lease,
           key.kind = "proof", o.proof[key.lease].size = 0, IsFiniteSet(Space(o))
    PROVE  LET p == Recorded(o, key, size) IN
           IsFiniteSet(Space(p)) /\ UsedSpace(p) = UsedSpace(o) + size
<1>. DEFINE p == Recorded(o, key, size)
            new == {key.lease} \X (1..size)
<1>1. p.proof = [o.proof EXCEPT ![key.lease] = [key |-> key, size |-> size]]
  BY DEF Recorded, Office
<1>2. 1..o.proof[key.lease].size = {}
  OBVIOUS
<1>3. Space(p) = Space(o) \cup new
  BY <1>1, <1>2 DEF Space, Office
<1>4. Space(o) \cap new = {}
  BY <1>2 DEF Space
<1>5. IsFiniteSet(new) /\ Cardinality(new) = size
  <2>1. IsFiniteSet({key.lease}) /\ Cardinality({key.lease}) = 1
    BY FS_Singleton
  <2>2. IsFiniteSet(1..size) /\ Cardinality(1..size) = IF 1 > size THEN 0 ELSE size - 1 + 1
    BY FS_Interval
  <2>3. IsFiniteSet(new) /\ Cardinality(new) = Cardinality({key.lease}) * Cardinality(1..size)
    BY <2>1, <2>2, FS_Product
  <2>4. Cardinality(1..size) = size
    BY <2>2
  <2>. QED BY <2>1, <2>3, <2>4
<1>. HIDE DEF p, new
<1>6. IsFiniteSet(Space(p))
      /\ Cardinality(Space(p)) = Cardinality(Space(o)) + Cardinality(new) - Cardinality(Space(o) \cap new)
  BY <1>3, <1>5, FS_Union
<1>7. Cardinality(Space(o) \cap new) = 0 /\ Cardinality(Space(o)) \in Nat
  BY <1>4, FS_EmptySet, FS_CardinalityType
<1>. QED BY <1>5, <1>6, <1>7 DEF UsedSpace, p

\* A coordinator that has been set up, or erased, has no rows.
LEMMA NoRows ==
    ASSUME NEW o, o.formula = NoKey, o.model = NoOffice.model, o.proof = NoOffice.proof
    PROVE  /\ Keys(o) = {} /\ Space(o) = {} /\ IsFiniteSet(Space(o)) /\ UsedSpace(o) = 0
           /\ \A l \in Lease : o.proof[l].size = 0 /\ o.proof[l].key = NoKey
<1>1. /\ \A l \in Lease : o.model[l] = NoKey
      /\ \A l \in Lease : o.proof[l].size = 0 /\ o.proof[l].key = NoKey
  BY DEF NoOffice
<1>2. Keys(o) = {}
  BY <1>1 DEF Keys
<1>3. Space(o) = {}
  BY <1>1 DEF Space
<1>. QED BY <1>1, <1>2, <1>3, FS_EmptySet DEF UsedSpace

\* The coordinator that is not there.
LEMMA Nobody ==
    /\ NoOffice \in Office /\ NoOffice.state = "ABSENT" /\ NoOffice.formula = NoKey
    /\ Keys(NoOffice) = {} /\ IsFiniteSet(Space(NoOffice)) /\ UsedSpace(NoOffice) = 0
    /\ \A l \in Lease : NoOffice.proof[l].size = 0 /\ NoOffice.proof[l].key = NoKey
<1>1. NoOffice \in Office /\ NoOffice.state = "ABSENT" /\ NoOffice.formula = NoKey
  BY DEF NoOffice, Office, Never
<1>. QED BY <1>1, NoRows

\* The coordinator as initialize() leaves it.
LEMMA OpenedOffice ==
    ASSUME NEW j, db.births[j].at \in Nat
    PROVE  LET o == Opened(j) IN
           /\ o \in Office /\ o.state = "UPLOADING" /\ o.formula = NoKey
           /\ o.expires = db.births[j].at + Lifetime /\ o.wake = o.expires /\ o.wake # Never
           /\ Keys(o) = {} /\ IsFiniteSet(Space(o)) /\ UsedSpace(o) = 0
           /\ \A l \in Lease : o.proof[l].size = 0 /\ o.proof[l].key = NoKey
<1>. DEFINE o == Opened(j)
<1>1. db.births[j].at + Lifetime \in Nat
  BY SizesAssumption
<1>2. /\ o \in Office /\ o.state = "UPLOADING" /\ o.formula = NoKey
      /\ o.model = NoOffice.model /\ o.proof = NoOffice.proof
      /\ o.expires = db.births[j].at + Lifetime /\ o.wake = db.births[j].at + Lifetime
  BY <1>1, Nobody DEF Opened, Office
<1>3. o.wake # Never
  BY <1>1, <1>2 DEF Never
<1>. HIDE DEF o
<1>4. /\ Keys(o) = {} /\ IsFiniteSet(Space(o)) /\ UsedSpace(o) = 0
      /\ \A l \in Lease : o.proof[l].size = 0 /\ o.proof[l].key = NoKey
  BY <1>2, NoRows
<1>. QED BY <1>2, <1>3, <1>4 DEF o

\* What most changes of a coordinator leave alone.
SameHoldings(o, p) ==
    /\ p.expires = o.expires /\ p.formula = o.formula /\ p.proof = o.proof
    /\ Keys(p) = Keys(o) /\ Space(p) = Space(o) /\ UsedSpace(p) = UsedSpace(o)

LEMMA OfficeTimes ==
    \A o \in Office : o.expires \in Nat /\ o.expires # Never /\ o.wake \in Nat \cup {Never}
  BY DEF Office, Never

LEMMA AlarmSet ==
    ASSUME NEW o \in Office, NEW wake \in Nat \cup {Never}, NEW p, p = [o EXCEPT !.wake = wake]
    PROVE  p \in Office /\ p.wake = wake /\ p.state = o.state /\ SameHoldings(o, p)
<1>1. /\ p \in Office /\ p.wake = wake /\ p.state = o.state /\ p.expires = o.expires
      /\ p.formula = o.formula /\ p.model = o.model /\ p.proof = o.proof
  BY DEF Office
<1>. QED BY <1>1, SameRows DEF SameHoldings, UsedSpace

\* A coordinator after a batch of deletions, its alarm set again.
CleanedOut(o, ks, wake) == [Forgotten(o, ks) EXCEPT !.wake = wake]

LEMMA CleanedUp ==
    ASSUME NEW o \in Office, NEW ks \in SUBSET Key, NEW wake \in Nat \cup {Never}
    PROVE  /\ CleanedOut(o, ks, wake) \in Office /\ CleanedOut(o, ks, wake).wake = wake
           /\ Cleaned(o, ks, CleanedOut(o, ks, wake))
<1>. DEFINE q == Forgotten(o, ks)
            p == CleanedOut(o, ks, wake)
<1>0. p = [q EXCEPT !.wake = wake]
  BY DEF CleanedOut
<1>1. q \in Office /\ Cleaned(o, ks, q)
  BY ForgottenRows
<1>. HIDE DEF q, p
<1>2. /\ p \in Office /\ p.wake = wake /\ p.state = q.state /\ p.expires = q.expires
      /\ p.formula = q.formula /\ p.model = q.model /\ p.proof = q.proof
  BY <1>0, <1>1 DEF Office
<1>3. Keys(p) = Keys(q) /\ Space(p) = Space(q)
  BY <1>2, SameRows
<1>4. p \in Office /\ p.wake = wake /\ Cleaned(o, ks, p)
  BY <1>1, <1>2, <1>3 DEF Cleaned, UsedSpace
<1>. QED BY <1>4 DEF p

LEMMA LeaseSet ==
    ASSUME NEW o \in Office, NEW l \in Lease, NEW status \in {"NONE", "ACTIVE", "OVER"}, NEW p,
           p = [o EXCEPT !.lease[l] = status]
    PROVE  p \in Office /\ p.wake = o.wake /\ p.state = o.state /\ SameHoldings(o, p)
<1>1. [o.lease EXCEPT ![l] = status] \in [Lease -> {"NONE", "ACTIVE", "OVER"}]
  BY DEF Office
<1>2. /\ p \in Office /\ p.wake = o.wake /\ p.state = o.state /\ p.expires = o.expires
      /\ p.formula = o.formula /\ p.model = o.model /\ p.proof = o.proof
  BY <1>1 DEF Office
<1>. QED BY <1>2, SameRows DEF SameHoldings, UsedSpace

\* A coordinator whose job is over.
JobEnded(o, state) == [LeasesOver(o) EXCEPT !.state = state]

LEMMA LeasesEnd ==
    ASSUME NEW o \in Office, NEW state \in {"VERDICT", "INVALID", "CANCELLED"}
    PROVE  /\ JobEnded(o, state) \in Office /\ JobEnded(o, state).wake = o.wake
           /\ JobEnded(o, state).state = state /\ SameHoldings(o, JobEnded(o, state))
<1>. DEFINE over == [l \in Lease |-> IF o.lease[l] = "ACTIVE" THEN "OVER" ELSE o.lease[l]]
            p == JobEnded(o, state)
<1>1. over \in [Lease -> {"NONE", "ACTIVE", "OVER"}]
  BY DEF Office
<1>2. p = [o EXCEPT !.lease = over, !.state = state]
  BY DEF LeasesOver, Office, JobEnded
<1>. HIDE DEF over, p
<1>3. /\ p \in Office /\ p.wake = o.wake /\ p.state = state /\ p.expires = o.expires
      /\ p.formula = o.formula /\ p.model = o.model /\ p.proof = o.proof
  BY <1>1, <1>2 DEF Office
<1>4. p \in Office /\ p.wake = o.wake /\ p.state = state /\ SameHoldings(o, p)
  BY <1>3, SameRows DEF SameHoldings, UsedSpace
<1>. QED BY <1>4 DEF p

-----------------------------------------------------------------------------
(* Requests.                                                               *)

\* A request that is over has nothing in hand.
LEMMA Resting ==
    /\ NoRequest \in Activity
    /\ NoRequest.at = "none" /\ NoRequest.job = NoJob /\ NoRequest.key = NoKey
    /\ NoRequest.batch = {}
  BY DEF NoRequest, Activity

\* A request that goes on keeps what it has in hand.
LEMMA GoesOn ==
    ASSUME ServiceTypeOK, NEW r \in Request, NEW step \in Steps, GoOn(r, step)
    PROVE  \E a \in Activity :
             /\ desk' = [desk EXCEPT ![r] = a]
             /\ a.at = step /\ a.job = desk[r].job /\ a.key = desk[r].key
             /\ a.size = desk[r].size /\ a.batch = desk[r].batch
<1>1. desk[r] \in Activity
  BY DEF ServiceTypeOK
<1>2. [desk[r] EXCEPT !.at = step] \in Activity
  BY <1>1 DEF Activity
<1>. QED BY <1>1, <1>2 DEF GoOn, Activity, ServiceTypeOK

\* What the requests and the alarms have in hand are objects.
LEMMA Hands ==
    ASSUME ServiceTypeOK
    PROVE  /\ \A r \in Request : desk[r].key \in Key \cup {NoKey} /\ desk[r].batch \subseteq Key
           /\ \A j \in Job : bell[j].batch \subseteq Key
           /\ \A j \in Job : Keys(office[j]) \subseteq Key
  BY KeysAreKeys DEF ServiceTypeOK, Activity

\* What an upload brings.
LEMMA UploadKinds ==
    ASSUME NEW u \in Uploads
    PROVE  /\ u[1] \in {"formula", "model", "proof"} /\ u[3] \in Nat
           /\ u[1] = "formula" => u[2] = NoLease
           /\ u[1] # "formula" => u[2] \in Lease
           /\ u[1] = "proof" => u[3] # 0
  BY ServiceAssumption DEF Uploads

-----------------------------------------------------------------------------
(* The directory.                                                          *)

\* Most steps admit no job, and offer none that was not offered.
Quiet ==
    /\ now' = now /\ db'.births = db.births
    /\ db'.listed \subseteq db.listed /\ EligibleJobs(db') \subseteq EligibleJobs(db)

LEMMA QuietDirectory ==
    ASSUME IInv,
           \/ UNCHANGED vars
           \/ \E c \in Challenge : ConsumeTurnstile(c)
           \/ \E origin \in Origins : AdmitRefused(origin[1], origin[2])
           \/ \E j \in Job : Close(j)
           \/ Alarm
    PROVE  Quiet /\ IInv'
<1>1. CASE UNCHANGED vars
  <2>1. db' = db /\ alarm' = alarm /\ now' = now
    BY <1>1 DEF vars
  <2>. QED BY <2>1, KeptAlarm DEF Quiet, IInv
<1>2. ASSUME NEW c \in Challenge, ConsumeTurnstile(c) PROVE Quiet /\ IInv'
  BY <1>2, ConsumeTurnstileGood DEF ConsumeTurnstile, Quiet, EligibleJobs, IInv, Good, Database
<1>3. ASSUME NEW origin \in Origins, AdmitRefused(origin[1], origin[2]) PROVE Quiet /\ IInv'
  BY <1>3, AdmitRefusedGood DEF AdmitRefused, Quiet, EligibleJobs, IInv, Good, Database
<1>4. ASSUME NEW j \in Job, Close(j) PROVE Quiet /\ IInv'
  BY <1>4, CloseGood DEF Close, Unlist, Quiet, EligibleJobs, IInv, Good, Database
<1>5. CASE Alarm
  <2>. DEFINE e == ExpireAssignments(db)
  <2>1. /\ e \in Database /\ e.births = db.births /\ e.listed = db.listed
        /\ \A j \in Job : e.account[j].eligible = db.account[j].eligible
    <3>1. e \in Database
      BY ExpireGood DEF IInv, Good
    <3>2. e.births = db.births /\ e.listed = db.listed
      BY DEF ExpireAssignments, IInv, Good, Database
    <3>3. ASSUME NEW j \in Job PROVE e.account[j].eligible = db.account[j].eligible
      <4>1. db.account[j] \in Account
        BY GoodTypes DEF IInv
      <4>. QED BY <4>1 DEF ExpireAssignments, Account, IInv, Good, Database
    <3>. QED BY <3>1, <3>2, <3>3
  <2>. HIDE DEF e
  <2>2. /\ now' = now /\ db'.births = e.births /\ db'.listed \subseteq e.listed
        /\ \A j \in db'.listed : db'.account[j] = e.account[j]
    BY <1>5, <2>1 DEF Alarm, Unlist, Database, e
  <2>. QED BY <1>5, <2>1, <2>2, AlarmGood, GoodTypes DEF Quiet, EligibleJobs, IInv
<1>. QED BY <1>1, <1>2, <1>3, <1>4, <1>5

\* The dates of the directory are where its tables say.
LEMMA Dates ==
    ASSUME IInv
    PROVE  /\ \A j \in Job : db.births[j].at \in Nat \cup {Never}
           /\ db.listed \in SUBSET Job /\ EligibleJobs(db) \in SUBSET db.listed
           /\ \A j \in db.listed : db.births[j].at # Never
           /\ now \in Nat
  BY GoodTypes DEF IInv, Good, Admitted, EligibleJobs, Birth

\* admit() lists a job nobody has heard of, and does not offer it yet.
LEMMA AdmittedJob ==
    ASSUME IInv, NEW j \in Job, NEW origin \in Origins, Admit(j, origin[1], origin[2])
    PROVE  /\ IInv' /\ now' = now
           /\ db.births[j].at = Never /\ j \notin db.listed
           /\ db'.births[j].at = now
           /\ \A i \in Job : i # j => db'.births[i] = db.births[i]
           /\ db'.listed = db.listed \cup {j} /\ EligibleJobs(db') = EligibleJobs(db)
<1>1. db.births[j].at = Never /\ j \notin db.listed
  BY Dates DEF Admit, Unborn
<1>2. IInv'
  BY OriginsAreTyped, AdmitGood
<1>3. /\ now' = now
      /\ db'.births[j].at = now
      /\ \A i \in Job : i # j => db'.births[i] = db.births[i]
      /\ db'.listed = db.listed \cup {j}
      /\ db'.account[j].eligible = FALSE
      /\ \A i \in Job : i # j => db'.account[i] = db.account[i]
  BY GoodTypes DEF Admit, IInv, Good, Database
<1>4. EligibleJobs(db') = EligibleJobs(db)
  BY <1>1, <1>3, Dates DEF EligibleJobs
<1>. QED BY <1>1, <1>2, <1>3, <1>4

\* rollback() makes the directory forget the job, and nothing else.
LEMMA RolledBack ==
    ASSUME IInv, NEW j \in Job, Rollback(j)
    PROVE  /\ IInv' /\ now' = now
           /\ \A i \in Job : i # j => db'.births[i] = db.births[i]
           /\ db'.births[j].at = Never
           /\ db'.listed = db.listed \ {j} /\ EligibleJobs(db') \subseteq EligibleJobs(db)
<1>1. IInv'
  BY RollbackGood
<1>2. /\ now' = now
      /\ \A i \in Job : i # j => db'.births[i] = db.births[i]
      /\ db'.births[j] = Unborn
      /\ db'.listed = db.listed \ {j}
      /\ \A i \in Job : i # j => db'.account[i] = db.account[i]
  BY GoodTypes DEF Rollback, Unlist, IInv, Good, Database
<1>3. EligibleJobs(db') \subseteq EligibleJobs(db)
  BY <1>2, Dates DEF EligibleJobs
<1>. QED BY <1>1, <1>2, <1>3 DEF Unborn

\* markReady() offers one job.
LEMMA Offered ==
    ASSUME IInv, NEW j \in Job, SetEligible(j, TRUE)
    PROVE  /\ IInv' /\ now' = now /\ db'.births = db.births
           /\ j \in db.listed /\ db'.listed = db.listed
           /\ EligibleJobs(db') \subseteq EligibleJobs(db) \cup {j}
<1>1. IInv'
  BY SetEligibleGood
<1>2. /\ now' = now /\ db'.births = db.births /\ j \in db.listed /\ db'.listed = db.listed
      /\ \A i \in Job : i # j => db'.account[i] = db.account[i]
  BY GoodTypes DEF SetEligible, IInv, Good, Database
<1>. QED BY <1>1, <1>2, Dates DEF EligibleJobs

-----------------------------------------------------------------------------
(* createJob.                                                              *)

\* createJob consumes a challenge.
LEMMA CreateBeginsKeeps ==
    ASSUME ServiceInv, NEW r \in Request, NEW c \in Challenge, CreateBegins(r, c)
    PROVE  ServiceInv'
<1>1. Quiet /\ IInv'
  BY QuietDirectory DEF ServiceInv, CreateBegins, vars
<1>2. /\ office' = office /\ kv' = kv /\ bell' = bell /\ told' = told /\ drawn' = drawn
      /\ faults' = faults
      /\ desk[r] = NoRequest
  BY DEF CreateBegins, Idle
<1>3. PICK a \in Activity :
        /\ desk' = [desk EXCEPT ![r] = a]
        /\ a.at \in {"none", "admit"} /\ a.job = NoJob /\ a.key = NoKey /\ a.batch = {}
  <2>. DEFINE new == [NoRequest EXCEPT !.op = "create", !.at = "admit"]
  <2>1. desk' = [desk EXCEPT ![r] = NoRequest] \/ desk' = [desk EXCEPT ![r] = new]
    BY <1>2 DEF CreateBegins, ServiceInv, ServiceTypeOK
  <2>2. new \in Activity
    BY DEF NoRequest, Activity, Ops, Steps
  <2>3. new.at = "admit" /\ new.job = NoJob /\ new.key = NoKey /\ new.batch = {}
    BY DEF NoRequest
  <2>. QED BY <2>1, <2>2, <2>3, Resting
<1>4. ServiceTypeOK'
  BY <1>1, <1>2, <1>3, Resting DEF ServiceInv, ServiceTypeOK, TypeOK, IInv, Good, Quiet
<1>5. Created'
  BY <1>1, <1>2, <1>3, Resting DEF ServiceInv, ServiceTypeOK, Created, Creating, Quiet
<1>6. Dating'
  BY <1>1, <1>2, <1>3, Resting
     DEF ServiceInv, ServiceTypeOK, Dating, Created, Creating, Dated, KvExpired, Quiet
<1>7. Records'
  BY <1>1, <1>2, <1>3, Resting DEF ServiceInv, ServiceTypeOK, Records, Created, Creating, Quiet
<1>8. Ringing'
  BY <1>1, <1>2, <1>3, Resting DEF ServiceInv, ServiceTypeOK, Ringing, Quiet
<1>9. Working'
  BY <1>1, <1>2, <1>3, Resting, KeysAreKeys
     DEF ServiceInv, ServiceTypeOK, Working, Creating, Quiet
<1>10. InFlight'
  BY <1>1, <1>2, <1>3, Resting, KeysAreKeys
     DEF ServiceInv, ServiceTypeOK, InFlight, Uploading, KvExpired, Quiet
<1>11. Stored'
  BY <1>1, <1>2, <1>3, Resting, KeysAreKeys
     DEF ServiceInv, ServiceTypeOK, Stored, KvExpired, Quiet
<1>12. RowsAreStored'
  BY <1>1, <1>2, <1>3, Resting DEF ServiceInv, ServiceTypeOK, RowsAreStored, KvExpired, Quiet
<1>13. Listed'
  BY <1>1, <1>2, <1>3, Resting, Dates
     DEF ServiceInv, ServiceTypeOK, Listed, Offers, Kept, KvExpired, Quiet
<1>14. SpaceBounded'
  BY <1>1, <1>2, <1>3, Resting DEF ServiceInv, ServiceTypeOK, SpaceBounded
<1>15. CleanupIsScheduled'
  BY <1>1, <1>2, <1>3, Resting, Dates
     DEF ServiceInv, ServiceTypeOK, CleanupIsScheduled, Greatest, Quiet
<1>. QED BY <1>1, <1>4, <1>5, <1>6, <1>7, <1>8, <1>9, <1>10, <1>11, <1>12, <1>13, <1>14, <1>15
       DEF ServiceInv

\* admit() lists the job: its id is new, to the directory and to every request.
LEMMA CreateAdmitsKeeps ==
    ASSUME ServiceInv, NEW r \in Request, NEW j \in Job, NEW origin \in Origins,
           CreateAdmits(r, j, origin)
    PROVE  ServiceInv'
<1>1. /\ IInv' /\ now' = now
      /\ db.births[j].at = Never /\ j \notin db.listed
      /\ db'.births[j].at = now
      /\ \A i \in Job : i # j => db'.births[i] = db.births[i]
      /\ db'.listed = db.listed \cup {j} /\ EligibleJobs(db') = EligibleJobs(db)
  BY AdmittedJob DEF ServiceInv, CreateAdmits
<1>2. /\ office' = office /\ kv' = kv /\ bell' = bell /\ told' = told /\ drawn' = drawn
      /\ faults' = faults
      /\ office[j] = NoOffice /\ desk[r].at = "admit"
  BY DEF CreateAdmits, Fresh, At
<1>3. PICK a \in Activity :
        /\ desk' = [desk EXCEPT ![r] = a]
        /\ a.at = "initialize" /\ a.job = j /\ a.key = desk[r].key /\ a.batch = desk[r].batch
  <2>. DEFINE new == [desk[r] EXCEPT !.at = "initialize", !.job = j]
  <2>1. desk' = [desk EXCEPT ![r] = new] /\ desk[r] \in Activity
    BY DEF CreateAdmits, ServiceInv, ServiceTypeOK
  <2>2. new \in Activity
    BY <2>1 DEF Activity, Steps
  <2>3. new.at = "initialize" /\ new.job = j /\ new.key = desk[r].key /\ new.batch = desk[r].batch
    BY <2>1 DEF Activity
  <2>. QED BY <2>1, <2>2, <2>3
<1>4. j \notin told
  BY <1>1 DEF ServiceInv, Created
<1>5. ServiceTypeOK'
  BY <1>1, <1>2, <1>3, <1>4, Nobody, Dates DEF ServiceInv, ServiceTypeOK, TypeOK, IInv, Good
<1>6. Created'
  BY <1>1, <1>2, <1>3, <1>4, Nobody, Dates
     DEF ServiceInv, ServiceTypeOK, Created, Creating, Never
<1>7. Dating'
  BY <1>1, <1>2, <1>3, <1>4, Nobody, Dates
     DEF ServiceInv, ServiceTypeOK, Dating, Created, Creating, Dated, KvExpired
<1>8. Records'
  BY <1>1, <1>2, <1>3, <1>4, Nobody, Dates
     DEF ServiceInv, ServiceTypeOK, Records, Created, Creating
<1>9. Ringing'
  BY <1>1, <1>2, <1>3, <1>4, Nobody, Dates DEF ServiceInv, ServiceTypeOK, Ringing
<1>10. Working'
  BY <1>1, <1>2, <1>3, <1>4, Nobody, Dates, KeysAreKeys
     DEF ServiceInv, ServiceTypeOK, Working, Creating
<1>11. InFlight'
  BY <1>1, <1>2, <1>3, <1>4, Nobody, Dates, KeysAreKeys
     DEF ServiceInv, ServiceTypeOK, InFlight, Uploading, KvExpired, Working, Creating
<1>12. Stored'
  BY <1>1, <1>2, <1>3, <1>4, Nobody, Dates, KeysAreKeys
     DEF ServiceInv, ServiceTypeOK, Stored, KvExpired
<1>13. RowsAreStored'
  BY <1>1, <1>2, <1>3, <1>4, Nobody, Dates
     DEF ServiceInv, ServiceTypeOK, RowsAreStored, KvExpired
<1>14. Listed'
  BY <1>1, <1>2, <1>3, <1>4, Nobody, Dates
     DEF ServiceInv, ServiceTypeOK, Listed, Offers, Kept, KvExpired, Created, Working, Creating
<1>15. SpaceBounded'
  BY <1>1, <1>2, <1>3, <1>4, Nobody, Dates DEF ServiceInv, ServiceTypeOK, SpaceBounded
<1>16. CleanupIsScheduled'
  BY <1>1, <1>2, <1>3, <1>4, Nobody, Dates
     DEF ServiceInv, ServiceTypeOK, CleanupIsScheduled, Greatest
<1>. QED BY <1>1, <1>5, <1>6, <1>7, <1>8, <1>9, <1>10, <1>11, <1>12, <1>13, <1>14, <1>15, <1>16
       DEF ServiceInv

\* admit() refuses the job.
LEMMA CreateRefusedKeeps ==
    ASSUME ServiceInv, NEW r \in Request, NEW origin \in Origins, CreateRefused(r, origin)
    PROVE  ServiceInv'
<1>1. Quiet /\ IInv'
  BY QuietDirectory DEF ServiceInv, CreateRefused, vars
<1>2. /\ office' = office /\ kv' = kv /\ bell' = bell /\ told' = told /\ drawn' = drawn
      /\ faults' = faults
      /\ desk[r].at = "admit" /\ desk' = [desk EXCEPT ![r] = NoRequest]
  BY DEF CreateRefused, Done, At
<1>3. ServiceTypeOK'
  BY <1>1, <1>2, Resting DEF ServiceInv, ServiceTypeOK, TypeOK, IInv, Good, Quiet
<1>4. Created'
  BY <1>1, <1>2, Resting DEF ServiceInv, ServiceTypeOK, Created, Creating, Quiet
<1>5. Dating'
  BY <1>1, <1>2, Resting
     DEF ServiceInv, ServiceTypeOK, Dating, Created, Creating, Dated, KvExpired, Quiet
<1>6. Records'
  BY <1>1, <1>2, Resting DEF ServiceInv, ServiceTypeOK, Records, Created, Creating, Quiet
<1>7. Ringing'
  BY <1>1, <1>2, Resting DEF ServiceInv, ServiceTypeOK, Ringing, Quiet
<1>8. Working'
  BY <1>1, <1>2, Resting, KeysAreKeys DEF ServiceInv, ServiceTypeOK, Working, Creating, Quiet
<1>9. InFlight'
  BY <1>1, <1>2, Resting, KeysAreKeys
     DEF ServiceInv, ServiceTypeOK, InFlight, Uploading, KvExpired, Quiet
<1>10. Stored'
  BY <1>1, <1>2, Resting, KeysAreKeys DEF ServiceInv, ServiceTypeOK, Stored, KvExpired, Quiet
<1>11. RowsAreStored'
  BY <1>1, <1>2, Resting DEF ServiceInv, ServiceTypeOK, RowsAreStored, KvExpired, Quiet
<1>12. Listed'
  BY <1>1, <1>2, Resting, Dates
     DEF ServiceInv, ServiceTypeOK, Listed, Offers, Kept, KvExpired, Quiet
<1>13. SpaceBounded'
  BY <1>1, <1>2, Resting DEF ServiceInv, ServiceTypeOK, SpaceBounded
<1>14. CleanupIsScheduled'
  BY <1>1, <1>2, Resting, Dates
     DEF ServiceInv, ServiceTypeOK, CleanupIsScheduled, Greatest, Quiet
<1>. QED BY <1>1, <1>3, <1>4, <1>5, <1>6, <1>7, <1>8, <1>9, <1>10, <1>11, <1>12, <1>13, <1>14
       DEF ServiceInv

\* The coordinator is set up: it dates the job as the directory does.
LEMMA InitializeKeeps ==
    ASSUME ServiceInv, NEW r \in Request, Initialize(r)
    PROVE  ServiceInv'
<1>1. Quiet /\ IInv'
  BY QuietDirectory DEF ServiceInv, Initialize, vars
<1>2. PICK a \in Activity :
        /\ desk' = [desk EXCEPT ![r] = a]
        /\ a.at = "answer" /\ a.job = desk[r].job /\ a.key = desk[r].key
        /\ a.size = desk[r].size /\ a.batch = desk[r].batch
  BY GoesOn DEF ServiceInv, Steps, Initialize, At
<1>3. /\ kv' = kv /\ bell' = bell /\ told' = told /\ drawn' = drawn /\ faults' = faults
      /\ desk[r].at = "initialize" /\ desk[r].job \in Job /\ desk[r].job \notin told
      /\ desk[r].job # NoJob
      /\ db.births[desk[r].job].at \in Nat /\ office[desk[r].job].state = "ABSENT"
  BY Dates, NamesAssumption DEF ServiceInv, Created, Creating, Initialize, At, Never
<1>4. PICK o \in Office :
        /\ office' = [office EXCEPT ![desk[r].job] = o]
        /\ o.state = "UPLOADING" /\ o.formula = NoKey
        /\ o.expires = db.births[desk[r].job].at + Lifetime /\ o.wake = o.expires
        /\ o.wake # Never
        /\ Keys(o) = {} /\ IsFiniteSet(Space(o)) /\ UsedSpace(o) = 0
        /\ \A l \in Lease : o.proof[l].size = 0 /\ o.proof[l].key = NoKey
  BY <1>3, OpenedOffice, SizesAssumption DEF Initialize, Never
<1>5. ServiceTypeOK'
  BY <1>1, <1>2, <1>3, <1>4 DEF ServiceInv, ServiceTypeOK, TypeOK, IInv, Good, Quiet
<1>6. Created'
  BY <1>1, <1>2, <1>3, <1>4 DEF ServiceInv, ServiceTypeOK, Created, Creating, Quiet
<1>7. Dating'
  BY <1>1, <1>2, <1>3, <1>4
     DEF ServiceInv, ServiceTypeOK, Dating, Created, Creating, Dated, KvExpired, Quiet
<1>8. Records'
  BY <1>1, <1>2, <1>3, <1>4 DEF ServiceInv, ServiceTypeOK, Records, Created, Creating, Quiet
<1>9. Ringing'
  BY <1>1, <1>2, <1>3, <1>4, Resting, Nobody, Dates, KeysAreKeys
     DEF ServiceInv, ServiceTypeOK, Ringing, Quiet
<1>10. Working'
  BY <1>1, <1>2, <1>3, <1>4, KeysAreKeys DEF ServiceInv, ServiceTypeOK, Working, Creating, Quiet
<1>11. InFlight'
  BY <1>1, <1>2, <1>3, <1>4, KeysAreKeys
     DEF ServiceInv, ServiceTypeOK, InFlight, Uploading, KvExpired, Quiet
<1>12. Stored'
  BY <1>1, <1>2, <1>3, <1>4, KeysAreKeys
     DEF ServiceInv, ServiceTypeOK, Stored, KvExpired, Quiet, Records
<1>13. RowsAreStored'
  BY <1>1, <1>2, <1>3, <1>4 DEF ServiceInv, ServiceTypeOK, RowsAreStored, KvExpired, Quiet
<1>14. Listed'
  BY <1>1, <1>2, <1>3, <1>4, Dates
     DEF ServiceInv, ServiceTypeOK, Listed, Offers, Kept, KvExpired, Quiet
<1>15. SpaceBounded'
  BY <1>1, <1>2, <1>3, <1>4, ServiceAssumption DEF ServiceInv, ServiceTypeOK, SpaceBounded
<1>16. CleanupIsScheduled'
  BY <1>1, <1>2, <1>3, <1>4, Dates
     DEF ServiceInv, ServiceTypeOK, CleanupIsScheduled, Greatest, Quiet, Office
<1>. QED BY <1>1, <1>5, <1>6, <1>7, <1>8, <1>9, <1>10, <1>11, <1>12, <1>13, <1>14, <1>15, <1>16
       DEF ServiceInv

\* It may be set up although the call has failed.
LEMMA InitializeFailsKeeps ==
    ASSUME ServiceInv, NEW r \in Request, InitializeFails(r)
    PROVE  ServiceInv'
<1>1. Quiet /\ IInv'
  BY QuietDirectory DEF ServiceInv, InitializeFails, vars
<1>2. PICK a \in Activity :
        /\ desk' = [desk EXCEPT ![r] = a]
        /\ a.at = "rollback" /\ a.job = desk[r].job /\ a.key = desk[r].key
        /\ a.size = desk[r].size /\ a.batch = desk[r].batch
  BY GoesOn DEF ServiceInv, Steps, InitializeFails, At
<1>3. /\ kv' = kv /\ bell' = bell /\ told' = told /\ drawn' = drawn
      /\ faults' = faults + 1 /\ faults' \in 0..MaxFaults
      /\ desk[r].at = "initialize" /\ desk[r].job \in Job /\ desk[r].job \notin told
      /\ desk[r].job # NoJob
      /\ db.births[desk[r].job].at \in Nat /\ office[desk[r].job].state = "ABSENT"
  BY Dates, NamesAssumption, ServiceAssumption
     DEF ServiceInv, ServiceTypeOK, Created, Creating, InitializeFails, At, Never
<1>4. PICK o \in Office :
        /\ office' = [office EXCEPT ![desk[r].job] = o]
        /\ \/ o = NoOffice
           \/ /\ o.state = "UPLOADING" /\ o.formula = NoKey
              /\ o.expires = db.births[desk[r].job].at + Lifetime
              /\ o.wake = o.expires /\ o.wake # Never
        /\ Keys(o) = {} /\ IsFiniteSet(Space(o)) /\ UsedSpace(o) = 0
        /\ \A l \in Lease : o.proof[l].size = 0 /\ o.proof[l].key = NoKey
  <2>1. PICK o \in {NoOffice, Opened(desk[r].job)} : office' = [office EXCEPT ![desk[r].job] = o]
    BY DEF InitializeFails
  <2>. QED BY <1>3, <2>1, OpenedOffice, Nobody, SizesAssumption DEF Never
<1>5. ServiceTypeOK'
  BY <1>1, <1>2, <1>3, <1>4, Nobody DEF ServiceInv, ServiceTypeOK, TypeOK, IInv, Good, Quiet
<1>6. Created'
  BY <1>1, <1>2, <1>3, <1>4, Nobody DEF ServiceInv, ServiceTypeOK, Created, Creating, Quiet
<1>7. Dating'
  BY <1>1, <1>2, <1>3, <1>4, Nobody
     DEF ServiceInv, ServiceTypeOK, Dating, Created, Creating, Dated, KvExpired, Quiet
<1>8. Records'
  BY <1>1, <1>2, <1>3, <1>4, Nobody
     DEF ServiceInv, ServiceTypeOK, Records, Created, Creating, Quiet
<1>9. Ringing'
  BY <1>1, <1>2, <1>3, <1>4, Resting, Nobody, Dates, KeysAreKeys
     DEF ServiceInv, ServiceTypeOK, Ringing, Quiet
<1>10. Working'
  BY <1>1, <1>2, <1>3, <1>4, Nobody, KeysAreKeys
     DEF ServiceInv, ServiceTypeOK, Working, Creating, Quiet
<1>11. InFlight'
  BY <1>1, <1>2, <1>3, <1>4, Nobody, KeysAreKeys
     DEF ServiceInv, ServiceTypeOK, InFlight, Uploading, KvExpired, Quiet
<1>12. Stored'
  BY <1>1, <1>2, <1>3, <1>4, Nobody, KeysAreKeys
     DEF ServiceInv, ServiceTypeOK, Stored, KvExpired, Quiet, Records
<1>13. RowsAreStored'
  BY <1>1, <1>2, <1>3, <1>4, Nobody
     DEF ServiceInv, ServiceTypeOK, RowsAreStored, KvExpired, Quiet
<1>14. Listed'
  BY <1>1, <1>2, <1>3, <1>4, Nobody, Dates
     DEF ServiceInv, ServiceTypeOK, Listed, Offers, Kept, KvExpired, Quiet
<1>15. SpaceBounded'
  BY <1>1, <1>2, <1>3, <1>4, ServiceAssumption, Nobody
     DEF ServiceInv, ServiceTypeOK, SpaceBounded
<1>16. CleanupIsScheduled'
  BY <1>1, <1>2, <1>3, <1>4, Nobody, Dates
     DEF ServiceInv, ServiceTypeOK, CleanupIsScheduled, Greatest, Quiet, Office
<1>. QED BY <1>1, <1>5, <1>6, <1>7, <1>8, <1>9, <1>10, <1>11, <1>12, <1>13, <1>14, <1>15, <1>16
       DEF ServiceInv

\* The directory forgets a job that nobody else knows of.
LEMMA CreateRollsBackKeeps ==
    ASSUME ServiceInv, NEW r \in Request, CreateRollsBack(r)
    PROVE  ServiceInv'
<1>1. /\ office' = office /\ kv' = kv /\ bell' = bell /\ told' = told /\ drawn' = drawn
      /\ faults' = faults
      /\ desk' = [desk EXCEPT ![r] = NoRequest]
      /\ desk[r].at = "rollback" /\ desk[r].job \in Job /\ desk[r].job \notin told
  BY DEF ServiceInv, Created, Creating, CreateRollsBack, Done, At
<1>2. /\ IInv' /\ now' = now
      /\ \A i \in Job : i # desk[r].job => db'.births[i] = db.births[i]
      /\ db'.births[desk[r].job].at \in {Never, db.births[desk[r].job].at}
      /\ db'.listed \subseteq db.listed /\ EligibleJobs(db') \subseteq EligibleJobs(db)
  BY <1>1, RolledBack, QuietDirectory DEF ServiceInv, CreateRollsBack, Quiet
<1>3. ServiceTypeOK'
  BY <1>1, <1>2, Resting, Dates DEF ServiceInv, ServiceTypeOK, TypeOK, IInv, Good, Quiet
<1>4. Created'
  BY <1>1, <1>2, Resting, Dates DEF ServiceInv, ServiceTypeOK, Created, Creating, Quiet
<1>5. Dating'
  BY <1>1, <1>2, Resting, Dates
     DEF ServiceInv, ServiceTypeOK, Dating, Created, Creating, Dated, KvExpired, Quiet
<1>6. Records'
  BY <1>1, <1>2, Resting, Dates DEF ServiceInv, ServiceTypeOK, Records, Created, Creating, Quiet
<1>7. Ringing'
  BY <1>1, <1>2, Resting, Dates DEF ServiceInv, ServiceTypeOK, Ringing, Quiet
<1>8. Working'
  BY <1>1, <1>2, Resting, Dates, KeysAreKeys
     DEF ServiceInv, ServiceTypeOK, Working, Creating, Quiet
<1>9. InFlight'
  BY <1>1, <1>2, Resting, Dates, KeysAreKeys
     DEF ServiceInv, ServiceTypeOK, InFlight, Uploading, KvExpired, Quiet, Working, Creating
<1>10. Stored'
  BY <1>1, <1>2, Resting, Dates, KeysAreKeys
     DEF ServiceInv, ServiceTypeOK, Stored, KvExpired, Quiet
<1>11. RowsAreStored'
  BY <1>1, <1>2, Resting, Dates
     DEF ServiceInv, ServiceTypeOK, RowsAreStored, KvExpired, Quiet, Records
<1>12. Listed'
  BY <1>1, <1>2, Resting, Dates
     DEF ServiceInv, ServiceTypeOK, Listed, Offers, Kept, KvExpired, Quiet
<1>13. SpaceBounded'
  BY <1>1, <1>2, Resting, Dates DEF ServiceInv, ServiceTypeOK, SpaceBounded
<1>14. CleanupIsScheduled'
  BY <1>1, <1>2, Resting, Dates
     DEF ServiceInv, ServiceTypeOK, CleanupIsScheduled, Greatest, Quiet
<1>. QED BY <1>2, <1>3, <1>4, <1>5, <1>6, <1>7, <1>8, <1>9, <1>10, <1>11, <1>12, <1>13, <1>14
       DEF ServiceInv

\* The tokens go out: from here on the job keeps its dates.
LEMMA CreateAnswersKeeps ==
    ASSUME ServiceInv, NEW r \in Request, CreateAnswers(r)
    PROVE  ServiceInv'
<1>1. Quiet /\ IInv'
  BY QuietDirectory DEF ServiceInv, CreateAnswers, vars
<1>2. /\ office' = office /\ kv' = kv /\ bell' = bell /\ drawn' = drawn /\ faults' = faults
      /\ desk' = [desk EXCEPT ![r] = NoRequest]
      /\ desk[r].at = "answer" /\ desk[r].job \in Job /\ told' = told \cup {desk[r].job}
  BY DEF ServiceInv, Created, Creating, CreateAnswers, Done, At
<1>3. ServiceTypeOK'
  BY <1>1, <1>2, Resting DEF ServiceInv, ServiceTypeOK, TypeOK, IInv, Good, Quiet
<1>4. Created'
  BY <1>1, <1>2, Resting DEF ServiceInv, ServiceTypeOK, Created, Creating, Quiet
<1>5. Dating'
  BY <1>1, <1>2, Resting
     DEF ServiceInv, ServiceTypeOK, Dating, Created, Creating, Dated, KvExpired, Quiet
<1>6. Records'
  BY <1>1, <1>2, Resting DEF ServiceInv, ServiceTypeOK, Records, Created, Creating, Quiet
<1>7. Ringing'
  BY <1>1, <1>2, Resting DEF ServiceInv, ServiceTypeOK, Ringing, Quiet
<1>8. Working'
  BY <1>1, <1>2, Resting, KeysAreKeys DEF ServiceInv, ServiceTypeOK, Working, Creating, Quiet
<1>9. InFlight'
  BY <1>1, <1>2, Resting, KeysAreKeys
     DEF ServiceInv, ServiceTypeOK, InFlight, Uploading, KvExpired, Quiet
<1>10. Stored'
  BY <1>1, <1>2, Resting, KeysAreKeys DEF ServiceInv, ServiceTypeOK, Stored, KvExpired, Quiet
<1>11. RowsAreStored'
  BY <1>1, <1>2, Resting DEF ServiceInv, ServiceTypeOK, RowsAreStored, KvExpired, Quiet
<1>12. Listed'
  BY <1>1, <1>2, Resting, Dates
     DEF ServiceInv, ServiceTypeOK, Listed, Offers, Kept, KvExpired, Quiet
<1>13. SpaceBounded'
  BY <1>1, <1>2, Resting DEF ServiceInv, ServiceTypeOK, SpaceBounded
<1>14. CleanupIsScheduled'
  BY <1>1, <1>2, Resting, Dates
     DEF ServiceInv, ServiceTypeOK, CleanupIsScheduled, Greatest, Quiet
<1>. QED BY <1>1, <1>3, <1>4, <1>5, <1>6, <1>7, <1>8, <1>9, <1>10, <1>11, <1>12, <1>13, <1>14
       DEF ServiceInv

-----------------------------------------------------------------------------
(* Uploads.                                                                *)

\* An upload draws a key that nobody has in hand.
LEMMA UploadBeginsKeeps ==
    ASSUME ServiceInv, NEW r \in Request, NEW j \in Job, NEW u \in Uploads, UploadBegins(r,
           j, u[1], u[2], u[3])
    PROVE  ServiceInv'
<1>1. Quiet /\ IInv'
  BY QuietDirectory DEF ServiceInv, UploadBegins, vars
<1>2. /\ office' = office /\ kv' = kv /\ bell' = bell /\ told' = told /\ faults' = faults
      /\ drawn' = drawn + 1 /\ drawn' \in 0..MaxDraws
      /\ desk[r] = NoRequest /\ j \in told /\ office[j].state # "ABSENT"
  <2>1. office[j].state # "ABSENT"
    BY UploadKinds DEF UploadBegins, Authorized
  <2>. QED BY <2>1, ServiceAssumption DEF ServiceInv, ServiceTypeOK, UploadBegins, Idle
<1>3. \A k \in Key : k.draw <= drawn => k.draw <= drawn'
  BY <1>2 DEF ServiceInv, ServiceTypeOK, Key
<1>4. PICK k \in Key :
        /\ k.job = j /\ k.draw <= drawn' /\ ~(k.draw <= drawn)
        /\ k.kind # "formula" => k.lease \in Lease
        /\ \E a \in Activity :
             /\ desk' = [desk EXCEPT ![r] = a]
             /\ a.at = "put" /\ a.job = j /\ a.key = k /\ a.batch = {}
             /\ k.kind = "proof" => a.size # 0
  <2>. DEFINE k == NewKey(j, u[1], u[2])
              new == [NoRequest EXCEPT !.op = u[1], !.at = "put", !.job = j, !.key = k, !.size = u[3]]
  <2>1. desk' = [desk EXCEPT ![r] = new] /\ drawn < MaxDraws /\ drawn \in Nat
    BY <1>2 DEF UploadBegins, ServiceInv, ServiceTypeOK
  <2>2. k \in Key /\ k.job = j /\ k.draw = drawn + 1 /\ k.kind = u[1] /\ k.lease = u[2]
    BY <2>1, UploadKinds, ServiceAssumption DEF NewKey, Key
  <2>. HIDE DEF k
  <2>3. new \in Activity
    BY <2>2, UploadKinds DEF NoRequest, Activity, Ops, Steps
  <2>4. new.at = "put" /\ new.job = j /\ new.key = k /\ new.batch = {} /\ new.size = u[3]
    BY DEF NoRequest
  <2>5. k.draw <= drawn' /\ ~(k.draw <= drawn)
    BY <1>2, <2>1, <2>2
  <2>6. k.kind # "formula" => k.lease \in Lease
    BY <2>2, UploadKinds
  <2>7. k.kind = "proof" => new.size # 0
    BY <2>2, <2>4, UploadKinds
  <2>. HIDE DEF new
  <2>. QED BY <2>1, <2>2, <2>3, <2>4, <2>5, <2>6, <2>7
<1>5. ServiceTypeOK'
  BY <1>1, <1>2, <1>3, <1>4, Resting DEF ServiceInv, ServiceTypeOK, TypeOK, IInv, Good, Quiet
<1>6. Created'
  BY <1>1, <1>2, <1>3, <1>4, Resting DEF ServiceInv, ServiceTypeOK, Created, Creating, Quiet
<1>7. Dating'
  BY <1>1, <1>2, <1>3, <1>4, Resting
     DEF ServiceInv, ServiceTypeOK, Dating, Created, Creating, Dated, KvExpired, Quiet
<1>8. Records'
  BY <1>1, <1>2, <1>3, <1>4, Resting, Nobody, Dates, KeysAreKeys
     DEF ServiceInv, ServiceTypeOK, Records, Created, Creating, Quiet
<1>9. Ringing'
  BY <1>1, <1>2, <1>3, <1>4, Hands, Resting DEF ServiceInv, ServiceTypeOK, Ringing, Quiet
<1>10. Working'
  BY <1>1, <1>2, <1>3, <1>4, Hands, Resting, KeysAreKeys
     DEF ServiceInv, ServiceTypeOK, Working, Creating, Quiet
<1>11. InFlight'
  BY <1>1, <1>2, <1>3, <1>4, Hands, Resting, KeysAreKeys
     DEF ServiceInv, ServiceTypeOK, InFlight, Uploading, KvExpired, Quiet, Records, Working,
         Ringing
<1>12. Stored'
  BY <1>1, <1>2, <1>3, <1>4, Resting, KeysAreKeys
     DEF ServiceInv, ServiceTypeOK, Stored, KvExpired, Quiet
<1>13. RowsAreStored'
  BY <1>1, <1>2, <1>3, <1>4, Resting
     DEF ServiceInv, ServiceTypeOK, RowsAreStored, KvExpired, Quiet
<1>14. Listed'
  BY <1>1, <1>2, <1>3, <1>4, Resting, Dates
     DEF ServiceInv, ServiceTypeOK, Listed, Offers, Kept, KvExpired, Quiet
<1>15. SpaceBounded'
  BY <1>1, <1>2, <1>3, <1>4, Resting DEF ServiceInv, ServiceTypeOK, SpaceBounded
<1>16. CleanupIsScheduled'
  BY <1>1, <1>2, <1>3, <1>4, Resting, Dates
     DEF ServiceInv, ServiceTypeOK, CleanupIsScheduled, Greatest, Quiet
<1>. QED BY <1>1, <1>5, <1>6, <1>7, <1>8, <1>9, <1>10, <1>11, <1>12, <1>13, <1>14, <1>15, <1>16
       DEF ServiceInv

\* The upload's own object is stored, unless the job has expired.
LEMMA PutKeeps ==
    ASSUME ServiceInv, NEW r \in Request, Put(r)
    PROVE  ServiceInv'
<1>1. Quiet /\ IInv'
  BY QuietDirectory DEF ServiceInv, Put, vars
<1>2. /\ office' = office /\ bell' = bell /\ told' = told /\ drawn' = drawn /\ faults' = faults
      /\ desk[r].at = "put" /\ kv' = IF KvExpired(desk[r].job) THEN kv ELSE kv \cup {desk[r].key}
      /\ desk[r].key \in Key /\ desk[r].key.job = desk[r].job /\ desk[r].job \in told
  BY DEF ServiceInv, Put, InFlight, Uploading, Working, Creating
<1>3. PICK a \in Activity :
        /\ desk' = [desk EXCEPT ![r] = a]
        /\ a.at \in {"commit", "discard"} /\ a.job = desk[r].job /\ a.key = desk[r].key
        /\ a.size = desk[r].size /\ a.batch = desk[r].batch
  BY GoesOn DEF ServiceInv, Steps, Put, At
<1>4. ServiceTypeOK'
  BY <1>1, <1>2, <1>3 DEF ServiceInv, ServiceTypeOK, TypeOK, IInv, Good, Quiet
<1>5. Created'
  BY <1>1, <1>2, <1>3 DEF ServiceInv, ServiceTypeOK, Created, Creating, Quiet
<1>6. Dating'
  BY <1>1, <1>2, <1>3
     DEF ServiceInv, ServiceTypeOK, Dating, Created, Creating, Dated, KvExpired, Quiet
<1>7. Records'
  BY <1>1, <1>2, <1>3 DEF ServiceInv, ServiceTypeOK, Records, Created, Creating, Quiet
<1>8. Ringing'
  BY <1>1, <1>2, <1>3 DEF ServiceInv, ServiceTypeOK, Ringing, Quiet
<1>9. Working'
  BY <1>1, <1>2, <1>3, KeysAreKeys DEF ServiceInv, ServiceTypeOK, Working, Creating, Quiet
<1>10. InFlight'
  BY <1>1, <1>2, <1>3, KeysAreKeys
     DEF ServiceInv, ServiceTypeOK, InFlight, Uploading, KvExpired, Quiet
<1>11. Stored'
  BY <1>1, <1>2, <1>3, KeysAreKeys DEF ServiceInv, ServiceTypeOK, Stored, KvExpired, Quiet
<1>12. RowsAreStored'
  BY <1>1, <1>2, <1>3 DEF ServiceInv, ServiceTypeOK, RowsAreStored, KvExpired, Quiet
<1>13. Listed'
  BY <1>1, <1>2, <1>3, Dates
     DEF ServiceInv, ServiceTypeOK, Listed, Offers, Kept, KvExpired, Quiet
<1>14. SpaceBounded'
  BY <1>1, <1>2, <1>3 DEF ServiceInv, ServiceTypeOK, SpaceBounded
<1>15. CleanupIsScheduled'
  BY <1>1, <1>2, <1>3, Dates DEF ServiceInv, ServiceTypeOK, CleanupIsScheduled, Greatest, Quiet
<1>. QED BY <1>1, <1>4, <1>5, <1>6, <1>7, <1>8, <1>9, <1>10, <1>11, <1>12, <1>13, <1>14, <1>15
       DEF ServiceInv

\* A put that fails may leave an object behind.
LEMMA PutFailsKeeps ==
    ASSUME ServiceInv, NEW r \in Request, PutFails(r)
    PROVE  ServiceInv'
<1>1. Quiet /\ IInv'
  BY QuietDirectory DEF ServiceInv, PutFails, vars
<1>2. /\ office' = office /\ bell' = bell /\ told' = told /\ drawn' = drawn
      /\ faults' = faults + 1 /\ faults' \in 0..MaxFaults
      /\ desk[r].at = "put" /\ desk' = [desk EXCEPT ![r] = NoRequest]
      /\ kv \subseteq kv' /\ kv' \subseteq kv \cup {desk[r].key} /\ (KvExpired(desk[r].job) => kv' = kv)
      /\ desk[r].key \in Key /\ desk[r].key.job = desk[r].job /\ desk[r].job \in told
  BY ServiceAssumption
     DEF ServiceInv, ServiceTypeOK, PutFails, Done, InFlight, Uploading, Working, Creating
<1>3. ServiceTypeOK'
  BY <1>1, <1>2, Resting DEF ServiceInv, ServiceTypeOK, TypeOK, IInv, Good, Quiet
<1>4. Created'
  BY <1>1, <1>2, Resting DEF ServiceInv, ServiceTypeOK, Created, Creating, Quiet
<1>5. Dating'
  BY <1>1, <1>2, Resting
     DEF ServiceInv, ServiceTypeOK, Dating, Created, Creating, Dated, KvExpired, Quiet
<1>6. Records'
  BY <1>1, <1>2, Resting DEF ServiceInv, ServiceTypeOK, Records, Created, Creating, Quiet
<1>7. Ringing'
  BY <1>1, <1>2, Resting DEF ServiceInv, ServiceTypeOK, Ringing, Quiet
<1>8. Working'
  BY <1>1, <1>2, Resting, KeysAreKeys DEF ServiceInv, ServiceTypeOK, Working, Creating, Quiet
<1>9. InFlight'
  BY <1>1, <1>2, Resting, KeysAreKeys
     DEF ServiceInv, ServiceTypeOK, InFlight, Uploading, KvExpired, Quiet
<1>10. Stored'
  BY <1>1, <1>2, Resting, KeysAreKeys DEF ServiceInv, ServiceTypeOK, Stored, KvExpired, Quiet
<1>11. RowsAreStored'
  BY <1>1, <1>2, Resting DEF ServiceInv, ServiceTypeOK, RowsAreStored, KvExpired, Quiet
<1>12. Listed'
  BY <1>1, <1>2, Resting, Dates
     DEF ServiceInv, ServiceTypeOK, Listed, Offers, Kept, KvExpired, Quiet
<1>13. SpaceBounded'
  BY <1>1, <1>2, Resting DEF ServiceInv, ServiceTypeOK, SpaceBounded
<1>14. CleanupIsScheduled'
  BY <1>1, <1>2, Resting, Dates
     DEF ServiceInv, ServiceTypeOK, CleanupIsScheduled, Greatest, Quiet
<1>. QED BY <1>1, <1>3, <1>4, <1>5, <1>6, <1>7, <1>8, <1>9, <1>10, <1>11, <1>12, <1>13, <1>14
       DEF ServiceInv

\* The second authorisation decides: the key passes from the upload to a row.
LEMMA CommitKeeps ==
    ASSUME ServiceInv, NEW r \in Request, Commit(r)
    PROVE  ServiceInv'
<1>1. Quiet /\ IInv'
  BY QuietDirectory DEF ServiceInv, Commit, vars
<1>2. /\ kv' = kv /\ bell' = bell /\ told' = told /\ drawn' = drawn /\ faults' = faults
      /\ desk[r].at = "commit" /\ desk[r].job \in told
  BY DEF Commit, ServiceInv, Working, Creating
<1>3. PICK key \in Key, size \in Nat, j \in Job :
        key = desk[r].key /\ size = desk[r].size /\ j = key.job /\ j = desk[r].job
  <2>1. desk[r].key \in Key /\ desk[r].key.job = desk[r].job
    BY <1>2 DEF ServiceInv, InFlight, Uploading
  <2>2. desk[r].size \in Nat
    BY DEF ServiceInv, ServiceTypeOK, Activity
  <2>3. desk[r].job \in Job
    BY <1>2 DEF ServiceInv, ServiceTypeOK
  <2>. QED BY <2>1, <2>2, <2>3
<1>4. /\ key # NoKey /\ key.kind \in {"formula", "model", "proof"}
      /\ key.kind # "formula" => key.lease \in Lease
      /\ key.kind = "proof" => size # 0
      /\ \A i \in Job : key \notin Keys(office[i]) /\ key \notin bell[i].batch
      /\ \A s \in Request : key \notin desk[s].batch /\ (s # r => key # desk[s].key)
      /\ key.draw <= drawn
      /\ key \in kv \/ KvExpired(j)
  BY <1>2, <1>3, KeysAreKeys DEF ServiceInv, InFlight, Uploading, Working, Key
<1>5. /\ office[j].state = IF key.kind = "formula" THEN "UPLOADING" ELSE "OPEN"
      /\ key.kind = "formula" => office[j].formula = NoKey
      /\ key.kind = "model" => office[j].model[key.lease] = NoKey
      /\ key.kind = "proof" => /\ office[j].proof[key.lease].size = 0
                               /\ office[j].proof[key.lease].key = NoKey
                               /\ UsedSpace(office[j]) + size <= Budget
  <2>1. StillAuthorized(key, size)
    BY <1>3 DEF Commit
  <2>2. CASE key.kind = "formula"
    BY <1>3, <2>1, <2>2 DEF StillAuthorized, Authorized, ServiceInv, Records
  <2>3. CASE key.kind = "model"
    BY <1>3, <2>1, <2>3 DEF StillAuthorized, Authorized
  <2>4. CASE key.kind = "proof"
    BY <1>3, <1>4, <2>1, <2>4 DEF StillAuthorized, Authorized, ServiceInv, Records
  <2>. QED BY <1>4, <2>2, <2>3, <2>4
<1>6. PICK o \in Office :
        /\ office' = [office EXCEPT ![j] = o]
        /\ o.expires = office[j].expires /\ o.wake = office[j].wake
        /\ o.state = "OPEN" /\ Keys(o) = Keys(office[j]) \cup {key}
        /\ o.formula = IF key.kind = "formula" THEN key ELSE office[j].formula
        /\ \A l \in Lease : o.proof[l].size = 0 => o.proof[l].key = NoKey
        /\ IsFiniteSet(Space(o)) /\ UsedSpace(o) <= Budget
  <2>. DEFINE old == office[j]
              o == Recorded(old, key, size)
  <2>1. office' = [office EXCEPT ![j] = o]
    BY <1>3 DEF Commit
  <2>2. /\ old \in Office /\ IsFiniteSet(Space(old)) /\ UsedSpace(old) <= Budget
        /\ \A l \in Lease : old.proof[l].size = 0 => old.proof[l].key = NoKey
    BY DEF ServiceInv, ServiceTypeOK, SpaceBounded, Records
  <2>3. /\ o \in Office /\ Keys(o) = Keys(old) \cup {key}
        /\ o.expires = old.expires /\ o.wake = old.wake
        /\ o.state = IF key.kind = "formula" THEN "OPEN" ELSE old.state
        /\ o.formula = IF key.kind = "formula" THEN key ELSE old.formula
        /\ \A l \in Lease : (key.kind = "proof" /\ l = key.lease) \/ o.proof[l] = old.proof[l]
        /\ key.kind = "proof" => o.proof[key.lease] = [key |-> key, size |-> size]
    BY <1>4, <1>5, <2>2, RecordedRows
  <2>4. CASE key.kind = "proof"
    <3>1. IsFiniteSet(Space(o)) /\ UsedSpace(o) = UsedSpace(old) + size
      BY <1>4, <1>5, <2>2, <2>4, RecordedSpace
    <3>. HIDE DEF o
    <3>2. UsedSpace(o) <= Budget
      BY <1>5, <2>4, <3>1
    <3>3. ASSUME NEW l \in Lease, o.proof[l].size = 0 PROVE o.proof[l].key = NoKey
      BY <1>4, <2>2, <2>3, <2>4, <3>3
    <3>4. o.state = "OPEN" /\ o.formula = old.formula
      BY <1>5, <2>3, <2>4
    <3>. QED BY <2>1, <2>3, <2>4, <3>1, <3>2, <3>3, <3>4
  <2>5. CASE key.kind # "proof"
    <3>. HIDE DEF o
    <3>1. Space(o) = Space(old)
      BY <2>3, <2>5 DEF Space
    <3>. QED BY <1>4, <1>5, <2>1, <2>2, <2>3, <2>5, <3>1 DEF UsedSpace
  <2>. QED BY <2>4, <2>5
<1>7. PICK a \in Activity :
        /\ desk' = [desk EXCEPT ![r] = a]
        /\ \/ a = NoRequest
           \/ /\ a.at = "ready" /\ a.job = j /\ a.key = key /\ a.batch = desk[r].batch
              /\ key.kind = "formula"
  <2>1. CASE key.kind = "formula"
    <3>1. GoOn(r, "ready")
      BY <1>3, <2>1 DEF Commit
    <3>. QED BY <1>3, <2>1, <3>1, GoesOn DEF ServiceInv, Steps
  <2>2. CASE key.kind # "formula"
    BY <1>3, <2>2, Resting DEF Commit, Done
  <2>. QED
    BY <2>1, <2>2
<1>8. ServiceTypeOK'
  <2>1. office' \in [Job -> Office]
    BY <1>6 DEF ServiceInv, ServiceTypeOK
  <2>2. desk' \in [Request -> Activity]
    BY <1>7 DEF ServiceInv, ServiceTypeOK
  <2>3. TypeOK'
    BY <1>1 DEF TypeOK, IInv, Good
  <2>. QED BY <1>2, <2>1, <2>2, <2>3 DEF ServiceInv, ServiceTypeOK
<1>9. Created'
  <2>1. ASSUME NEW q \in Request, Creating(q)'
        PROVE  q # r /\ Creating(q) /\ desk'[q] = desk[q]
    BY <1>7, <2>1, Resting DEF ServiceInv, ServiceTypeOK, Creating
  <2>2. office'[j].state # "ABSENT" /\ \A i \in Job : i # j => office'[i] = office[i]
    BY <1>6 DEF ServiceInv, ServiceTypeOK
  <2>3. j \in told
    BY <1>2, <1>3
  <2>. QED BY <1>1, <1>2, <2>1, <2>2, <2>3 DEF ServiceInv, Created, Quiet
<1>10. Dating'
  <2>1. o.state # "ABSENT" /\ office[j].state # "ABSENT" /\ office[j].expires = o.expires
    BY <1>4, <1>5, <1>6
  <2>2. a.at # "answer"
    BY <1>7, Resting
  <2>. QED BY <1>1, <1>2, <1>6, <1>7, <2>1, <2>2
       DEF ServiceInv, ServiceTypeOK, Dating, Created, Creating, Dated, KvExpired, Quiet
<1>11. Records'
  <2>1. ASSUME NEW i \in Job, i # j
        PROVE  office'[i] = office[i]
    BY <1>6, <2>1 DEF ServiceInv, ServiceTypeOK
  <2>2. office'[j] = o
    BY <1>3, <1>6 DEF ServiceInv, ServiceTypeOK
  <2>3. j \in told
    BY <1>2, <1>3
  <2>4. ASSUME NEW k \in Keys(o)
        PROVE  k.job = j /\ k.draw <= drawn /\ (k.kind # "formula" => k.lease \in Lease)
    BY <1>3, <1>4, <1>6 DEF ServiceInv, Records
  <2>5. o.formula # NoKey => o.formula.kind = "formula"
    BY <1>6 DEF ServiceInv, Records
  <2>. QED BY <1>2, <1>6, <2>1, <2>2, <2>3, <2>4, <2>5 DEF ServiceInv, Records
<1>12. Ringing'
  BY <1>1, <1>2, <1>3, <1>4, <1>5, <1>6, <1>7, Resting
     DEF ServiceInv, ServiceTypeOK, Ringing, Quiet
<1>13. Working'
  BY <1>1, <1>2, <1>3, <1>4, <1>5, <1>6, <1>7, Resting, KeysAreKeys
     DEF ServiceInv, ServiceTypeOK, Working, Creating, Quiet
<1>14. InFlight'
  <2>1. ASSUME NEW q \in Request, Uploading(q)'
        PROVE  q # r /\ Uploading(q) /\ desk'[q] = desk[q]
    BY <1>7, <2>1, Resting DEF ServiceInv, ServiceTypeOK, Uploading
  <2>2. \A q \in Request : /\ desk'[q].batch \subseteq desk[q].batch
                            /\ desk'[q].key \in {desk[q].key, NoKey}
    BY <1>3, <1>7, Resting DEF ServiceInv, ServiceTypeOK
  <2>3. \A i \in Job : Keys(office'[i]) \subseteq Keys(office[i]) \cup {key}
    BY <1>6 DEF ServiceInv, ServiceTypeOK
  <2>4. \A i : KvExpired(i)' = KvExpired(i)
    BY <1>1 DEF KvExpired, Quiet
  <2>5. \A q \in Request : q # r => desk[q].key # key
    BY <1>4
  <2>. QED BY <1>2, <2>1, <2>2, <2>3, <2>4, <2>5, KeysAreKeys DEF ServiceInv, InFlight
<1>15. Stored'
  BY <1>1, <1>2, <1>3, <1>4, <1>5, <1>6, <1>7, Resting, KeysAreKeys
     DEF ServiceInv, ServiceTypeOK, Stored, KvExpired, Quiet
<1>16. RowsAreStored'
  BY <1>1, <1>2, <1>3, <1>4, <1>5, <1>6, <1>7, Resting
     DEF ServiceInv, ServiceTypeOK, RowsAreStored, KvExpired, Quiet
<1>17. Listed'
  BY <1>1, <1>2, <1>3, <1>4, <1>5, <1>6, <1>7, Resting, Dates
     DEF ServiceInv, ServiceTypeOK, Listed, Offers, Kept, KvExpired, Quiet, Records, Working
<1>18. SpaceBounded'
  BY <1>1, <1>2, <1>3, <1>4, <1>5, <1>6, <1>7, Resting
     DEF ServiceInv, ServiceTypeOK, SpaceBounded
<1>19. CleanupIsScheduled'
  BY <1>1, <1>2, <1>3, <1>4, <1>5, <1>6, <1>7, Resting, Dates
     DEF ServiceInv, ServiceTypeOK, CleanupIsScheduled, Greatest, Quiet
<1>. QED BY <1>1, <1>8, <1>9, <1>10, <1>11, <1>12, <1>13, <1>14, <1>15, <1>16, <1>17, <1>18,
       <1>19 DEF ServiceInv

\* The upload keeps its key, to take the object back.
LEMMA CommitRefusedKeeps ==
    ASSUME ServiceInv, NEW r \in Request, CommitRefused(r)
    PROVE  ServiceInv'
<1>1. Quiet /\ IInv'
  BY QuietDirectory DEF ServiceInv, CommitRefused, vars
<1>2. PICK a \in Activity :
        /\ desk' = [desk EXCEPT ![r] = a]
        /\ a.at = "discard" /\ a.job = desk[r].job /\ a.key = desk[r].key
        /\ a.size = desk[r].size /\ a.batch = desk[r].batch
  BY GoesOn DEF ServiceInv, Steps, CommitRefused, At
<1>3. /\ office' = office /\ kv' = kv /\ bell' = bell /\ told' = told /\ drawn' = drawn
      /\ faults' = faults
      /\ desk[r].at = "commit"
  BY DEF CommitRefused
<1>4. ServiceTypeOK'
  BY <1>1, <1>2, <1>3 DEF ServiceInv, ServiceTypeOK, TypeOK, IInv, Good, Quiet
<1>5. Created'
  BY <1>1, <1>2, <1>3 DEF ServiceInv, ServiceTypeOK, Created, Creating, Quiet
<1>6. Dating'
  BY <1>1, <1>2, <1>3
     DEF ServiceInv, ServiceTypeOK, Dating, Created, Creating, Dated, KvExpired, Quiet
<1>7. Records'
  BY <1>1, <1>2, <1>3 DEF ServiceInv, ServiceTypeOK, Records, Created, Creating, Quiet
<1>8. Ringing'
  BY <1>1, <1>2, <1>3 DEF ServiceInv, ServiceTypeOK, Ringing, Quiet
<1>9. Working'
  BY <1>1, <1>2, <1>3, KeysAreKeys DEF ServiceInv, ServiceTypeOK, Working, Creating, Quiet
<1>10. InFlight'
  BY <1>1, <1>2, <1>3, KeysAreKeys
     DEF ServiceInv, ServiceTypeOK, InFlight, Uploading, KvExpired, Quiet
<1>11. Stored'
  BY <1>1, <1>2, <1>3, KeysAreKeys DEF ServiceInv, ServiceTypeOK, Stored, KvExpired, Quiet
<1>12. RowsAreStored'
  BY <1>1, <1>2, <1>3 DEF ServiceInv, ServiceTypeOK, RowsAreStored, KvExpired, Quiet
<1>13. Listed'
  BY <1>1, <1>2, <1>3, Dates
     DEF ServiceInv, ServiceTypeOK, Listed, Offers, Kept, KvExpired, Quiet
<1>14. SpaceBounded'
  BY <1>1, <1>2, <1>3 DEF ServiceInv, ServiceTypeOK, SpaceBounded
<1>15. CleanupIsScheduled'
  BY <1>1, <1>2, <1>3, Dates DEF ServiceInv, ServiceTypeOK, CleanupIsScheduled, Greatest, Quiet
<1>. QED BY <1>1, <1>4, <1>5, <1>6, <1>7, <1>8, <1>9, <1>10, <1>11, <1>12, <1>13, <1>14, <1>15
       DEF ServiceInv

\* The object taken back is in no row, and in no other hands.
LEMMA DiscardKeeps ==
    ASSUME ServiceInv, NEW r \in Request, Discard(r)
    PROVE  ServiceInv'
<1>1. Quiet /\ IInv'
  BY QuietDirectory DEF ServiceInv, Discard, vars
<1>2. /\ office' = office /\ bell' = bell /\ told' = told /\ drawn' = drawn /\ faults' = faults
      /\ desk[r].at = "discard" /\ desk' = [desk EXCEPT ![r] = NoRequest]
      /\ kv' = kv \ {desk[r].key}
  BY DEF Discard, TakenBack, Done
<1>3. ServiceTypeOK'
  BY <1>1, <1>2, Resting DEF ServiceInv, ServiceTypeOK, TypeOK, IInv, Good, Quiet
<1>4. Created'
  BY <1>1, <1>2, Resting DEF ServiceInv, ServiceTypeOK, Created, Creating, Quiet
<1>5. Dating'
  BY <1>1, <1>2, Resting
     DEF ServiceInv, ServiceTypeOK, Dating, Created, Creating, Dated, KvExpired, Quiet
<1>6. Records'
  BY <1>1, <1>2, Resting DEF ServiceInv, ServiceTypeOK, Records, Created, Creating, Quiet
<1>7. Ringing'
  BY <1>1, <1>2, Resting DEF ServiceInv, ServiceTypeOK, Ringing, Quiet
<1>8. Working'
  BY <1>1, <1>2, Resting, KeysAreKeys DEF ServiceInv, ServiceTypeOK, Working, Creating, Quiet
<1>9. InFlight'
  BY <1>1, <1>2, Resting, KeysAreKeys
     DEF ServiceInv, ServiceTypeOK, InFlight, Uploading, KvExpired, Quiet
<1>10. Stored'
  BY <1>1, <1>2, Resting, KeysAreKeys DEF ServiceInv, ServiceTypeOK, Stored, KvExpired, Quiet
<1>11. RowsAreStored'
  BY <1>1, <1>2, Resting
     DEF ServiceInv, ServiceTypeOK, RowsAreStored, KvExpired, Quiet, InFlight, Uploading
<1>12. Listed'
  BY <1>1, <1>2, Resting, Dates
     DEF ServiceInv, ServiceTypeOK, Listed, Offers, Kept, KvExpired, Quiet
<1>13. SpaceBounded'
  BY <1>1, <1>2, Resting DEF ServiceInv, ServiceTypeOK, SpaceBounded
<1>14. CleanupIsScheduled'
  BY <1>1, <1>2, Resting, Dates
     DEF ServiceInv, ServiceTypeOK, CleanupIsScheduled, Greatest, Quiet
<1>. QED BY <1>1, <1>3, <1>4, <1>5, <1>6, <1>7, <1>8, <1>9, <1>10, <1>11, <1>12, <1>13, <1>14
       DEF ServiceInv

\* markReady(): the job is open, or being closed.
LEMMA ReadyKeeps ==
    ASSUME ServiceInv, NEW r \in Request, Ready(r)
    PROVE  ServiceInv'
<1>1. /\ office' = office /\ kv' = kv /\ bell' = bell /\ told' = told /\ drawn' = drawn
      /\ faults' = faults
      /\ desk[r].at = "ready" /\ desk[r].job \in Job /\ desk' = [desk EXCEPT ![r] = NoRequest]
  BY DEF ServiceInv, Working, Ready, Done
<1>2. /\ IInv' /\ now' = now /\ db'.births = db.births
      /\ db'.listed \subseteq db.listed
      /\ EligibleJobs(db') \subseteq EligibleJobs(db) \cup ({desk[r].job} \cap db.listed)
  BY <1>1, Offered, QuietDirectory DEF ServiceInv, Ready, Quiet
<1>3. ServiceTypeOK'
  BY <1>1, <1>2, Resting DEF ServiceInv, ServiceTypeOK, TypeOK, IInv, Good, Quiet
<1>4. Created'
  BY <1>1, <1>2, Resting DEF ServiceInv, ServiceTypeOK, Created, Creating, Quiet
<1>5. Dating'
  BY <1>1, <1>2, Resting
     DEF ServiceInv, ServiceTypeOK, Dating, Created, Creating, Dated, KvExpired, Quiet
<1>6. Records'
  BY <1>1, <1>2, Resting DEF ServiceInv, ServiceTypeOK, Records, Created, Creating, Quiet
<1>7. Ringing'
  BY <1>1, <1>2, Resting DEF ServiceInv, ServiceTypeOK, Ringing, Quiet
<1>8. Working'
  BY <1>1, <1>2, Resting, KeysAreKeys DEF ServiceInv, ServiceTypeOK, Working, Creating, Quiet
<1>9. InFlight'
  BY <1>1, <1>2, Resting, KeysAreKeys
     DEF ServiceInv, ServiceTypeOK, InFlight, Uploading, KvExpired, Quiet
<1>10. Stored'
  BY <1>1, <1>2, Resting, KeysAreKeys DEF ServiceInv, ServiceTypeOK, Stored, KvExpired, Quiet
<1>11. RowsAreStored'
  BY <1>1, <1>2, Resting DEF ServiceInv, ServiceTypeOK, RowsAreStored, KvExpired, Quiet
<1>12. Listed'
  BY <1>1, <1>2, Resting, Dates
     DEF ServiceInv, ServiceTypeOK, Listed, Offers, Kept, KvExpired, Quiet
<1>13. SpaceBounded'
  BY <1>1, <1>2, Resting DEF ServiceInv, ServiceTypeOK, SpaceBounded
<1>14. CleanupIsScheduled'
  BY <1>1, <1>2, Resting, Dates
     DEF ServiceInv, ServiceTypeOK, CleanupIsScheduled, Greatest, Quiet
<1>. QED BY <1>2, <1>3, <1>4, <1>5, <1>6, <1>7, <1>8, <1>9, <1>10, <1>11, <1>12, <1>13, <1>14
       DEF ServiceInv

-----------------------------------------------------------------------------
(* Cancellation.                                                           *)

\* cancel() takes a batch of what the rows name.
LEMMA CancelBeginsKeeps ==
    ASSUME ServiceInv, NEW r \in Request, NEW j \in Job, CancelBegins(r, j)
    PROVE  ServiceInv'
<1>1. Quiet /\ IInv'
  BY QuietDirectory DEF ServiceInv, CancelBegins, vars
<1>2. /\ kv' = kv /\ bell' = bell /\ told' = told /\ drawn' = drawn /\ faults' = faults
      /\ desk[r] = NoRequest /\ j \in told /\ office[j].state # "ABSENT" /\ office[j] \in Office
  BY DEF CancelBegins, Idle, ServiceInv, ServiceTypeOK
<1>3. PICK o \in Office :
        /\ office' = [office EXCEPT ![j] = o]
        /\ SameHoldings(office[j], o)
        /\ o.wake = office[j].wake /\ o.state = "CANCELLED"
  <2>1. CASE office[j].state = "CANCELLED"
    <3>1. office' = [office EXCEPT ![j] = office[j]]
      BY <2>1 DEF CancelBegins, ServiceInv, ServiceTypeOK
    <3>. QED BY <1>2, <2>1, <3>1 DEF SameHoldings
  <2>2. CASE office[j].state # "CANCELLED"
    <3>. DEFINE p == JobEnded(office[j], "CANCELLED")
    <3>1. office' = [office EXCEPT ![j] = p]
      BY <2>2, Zenon DEF CancelBegins, JobEnded
    <3>2. p \in Office /\ p.wake = office[j].wake /\ p.state = "CANCELLED" /\ SameHoldings(office[j], p)
      BY <1>2, LeasesEnd
    <3>. HIDE DEF p
    <3>. QED BY <3>1, <3>2
  <2>. QED BY <2>1, <2>2
<1>4. PICK a \in Activity :
        /\ desk' = [desk EXCEPT ![r] = a]
        /\ a.at \in {"clean", "close"} /\ a.job = j /\ a.key = NoKey
        /\ a.batch \subseteq Keys(office[j])
  <2>. DEFINE closing == [NoRequest EXCEPT !.op = "cancel", !.at = "close", !.job = j]
              cleaning(batch) == [NoRequest EXCEPT !.op = "cancel", !.at = "clean", !.job = j,
                                                   !.batch = batch]
  <2>1. \/ desk' = [desk EXCEPT ![r] = closing]
        \/ \E batch \in SUBSET Keys(office[j]) : desk' = [desk EXCEPT ![r] = cleaning(batch)]
    BY <1>2 DEF CancelBegins, Batches
  <2>2. closing \in Activity /\ closing.at = "close" /\ closing.job = j /\ closing.key = NoKey
        /\ closing.batch = {}
    BY DEF NoRequest, Activity, Ops, Steps
  <2>3. ASSUME NEW batch \in SUBSET Keys(office[j])
        PROVE  /\ cleaning(batch) \in Activity /\ cleaning(batch).at = "clean"
               /\ cleaning(batch).job = j /\ cleaning(batch).key = NoKey
               /\ cleaning(batch).batch = batch
    BY <1>2, KeysAreKeys DEF NoRequest, Activity, Ops, Steps
  <2>. HIDE DEF closing, cleaning
  <2>. QED BY <2>1, <2>2, <2>3
<1>5. ServiceTypeOK'
  BY <1>1, <1>2, <1>3, <1>4, Resting DEF ServiceInv, ServiceTypeOK, TypeOK, IInv, Good, Quiet
<1>6. Created'
  BY <1>1, <1>2, <1>3, <1>4, Resting
     DEF ServiceInv, ServiceTypeOK, Created, Creating, Quiet, SameHoldings
<1>7. Dating'
  BY <1>1, <1>2, <1>3, <1>4, Resting
     DEF ServiceInv, ServiceTypeOK, Dating, Created, Creating, Dated, KvExpired, Quiet,
         SameHoldings
<1>8. Records'
  BY <1>1, <1>2, <1>3, <1>4, Resting
     DEF ServiceInv, ServiceTypeOK, Records, Created, Creating, Quiet, SameHoldings
<1>9. Ringing'
  BY <1>1, <1>2, <1>3, <1>4, Resting DEF ServiceInv, ServiceTypeOK, Ringing, Quiet, SameHoldings
<1>10. Working'
  BY <1>1, <1>2, <1>3, <1>4, Resting, KeysAreKeys
     DEF ServiceInv, ServiceTypeOK, Working, Creating, Quiet, Records
<1>11. InFlight'
  BY <1>1, <1>2, <1>3, <1>4, Resting, KeysAreKeys
     DEF ServiceInv, ServiceTypeOK, InFlight, Uploading, KvExpired, Quiet, SameHoldings
<1>12. Stored'
  BY <1>1, <1>2, <1>3, <1>4, Resting, KeysAreKeys
     DEF ServiceInv, ServiceTypeOK, Stored, KvExpired, Quiet, SameHoldings
<1>13. RowsAreStored'
  BY <1>1, <1>2, <1>3, <1>4, Resting
     DEF ServiceInv, ServiceTypeOK, RowsAreStored, KvExpired, Quiet, SameHoldings
<1>14. Listed'
  BY <1>1, <1>2, <1>3, <1>4, Resting, Dates
     DEF ServiceInv, ServiceTypeOK, Listed, Offers, Kept, KvExpired, Quiet, SameHoldings
<1>15. SpaceBounded'
  BY <1>1, <1>2, <1>3, <1>4, Resting DEF ServiceInv, ServiceTypeOK, SpaceBounded, SameHoldings
<1>16. CleanupIsScheduled'
  BY <1>1, <1>2, <1>3, <1>4, Resting, Dates
     DEF ServiceInv, ServiceTypeOK, CleanupIsScheduled, Greatest, Quiet, SameHoldings
<1>. QED BY <1>1, <1>5, <1>6, <1>7, <1>8, <1>9, <1>10, <1>11, <1>12, <1>13, <1>14, <1>15, <1>16
       DEF ServiceInv

\* A batch of objects is deleted and forgotten in one step, at the end of a cancel
\* or of a rejection.
CleanStep(r, j, o, a, batch) ==
    /\ desk[r].job = j /\ j \in told
    /\ office' = [office EXCEPT ![j] = o] /\ desk' = [desk EXCEPT ![r] = a]
    /\ kv' = kv \ batch
    /\ bell' = bell /\ told' = told /\ drawn' = drawn /\ faults' = faults
    /\ Cleaned(office[j], batch, o)
    /\ \/ office[j].state = "ABSENT" /\ o = office[j]
       \/ office[j].state # "ABSENT" /\ o.wake \in {now, o.expires}
    /\ \/ /\ desk[r].at = "clean" /\ batch = desk[r].batch
          /\ \/ a = NoRequest /\ office[j].state = "ABSENT"
             \/ a.at = "close" /\ a.job = j /\ a.key = desk[r].key /\ a.batch = {}
       \/ /\ desk[r].at = "verify" /\ batch = {desk[r].key} /\ desk[r].key.job = j
          /\ desk[r].key.kind # "formula" /\ a = NoRequest /\ o.state # "ABSENT"

LEMMA CleanedKeeps ==
    ASSUME ServiceInv, Quiet, IInv',
           NEW r \in Request, NEW j \in Job, NEW o \in Office, NEW a \in Activity,
           NEW batch \in SUBSET Key, CleanStep(r, j, o, a, batch)
    PROVE  ServiceInv'
<1>1. office' = [office EXCEPT ![j] = o] /\ office \in [Job -> Office]
  BY DEF CleanStep, ServiceInv, ServiceTypeOK
<1>2. desk' = [desk EXCEPT ![r] = a] /\ desk \in [Request -> Activity]
  BY DEF CleanStep, ServiceInv, ServiceTypeOK
<1>3. Cleaned(office[j], batch, o) /\ kv' = kv \ batch
  BY DEF CleanStep
<1>4. /\ bell' = bell /\ told' = told /\ drawn' = drawn /\ faults' = faults
      /\ j = desk[r].job /\ j \in told
  BY DEF CleanStep
<1>5. a.at \in {"none", "close"} /\ a.batch = {}
  BY Resting DEF CleanStep
<1>6. a.at = "close" => a.job = j /\ a.key = desk[r].key
  BY Resting DEF CleanStep
<1>7. a.at = "none" => a = NoRequest
  BY Resting DEF CleanStep
<1>8. /\ \A k \in batch : k.job = j /\ k.draw <= drawn
      /\ \A q \in Request : Uploading(q) => desk[q].key \notin batch
      /\ desk[r].at \in {"clean", "verify"} /\ \A k \in batch : k # NoKey
  <2>1. \A k \in batch : k # NoKey
    BY KeysAreKeys
  <2>2. CASE desk[r].at = "clean" /\ batch = desk[r].batch
    BY <1>4, <2>1, <2>2 DEF ServiceInv, Working, InFlight
  <2>3. CASE desk[r].at = "verify" /\ batch = {desk[r].key} /\ desk[r].key.job = j
    BY <1>4, <2>1, <2>3 DEF ServiceInv, Working, InFlight, Uploading
  <2>. QED BY <2>2, <2>3 DEF CleanStep
<1>9. o.state = office[j].state /\ o.expires = office[j].expires
  BY DEF CleanStep, Cleaned
<1>10. Keys(o) = Keys(office[j]) \ batch
  BY DEF CleanStep, Cleaned
<1>11. ServiceTypeOK'
  BY <1>1, <1>2, <1>3, <1>4 DEF ServiceInv, ServiceTypeOK, TypeOK, IInv, Good, Quiet
<1>12. Created'
  BY <1>1, <1>2, <1>4, <1>5, <1>9 DEF ServiceInv, Created, Creating, Quiet
<1>13. Dating'
  BY <1>1, <1>2, <1>4, <1>5, <1>9 DEF ServiceInv, Dating, Dated, KvExpired, Quiet
<1>14. Records'
  <2>1. office[j].state = "ABSENT" => o = NoOffice
    BY DEF CleanStep, ServiceInv, Records
  <2>2. /\ o.formula \in {office[j].formula, NoKey}
        /\ \A l \in Lease : /\ o.proof[l].size = office[j].proof[l].size
                            /\ o.proof[l].key \in {office[j].proof[l].key, NoKey}
    BY <1>3 DEF Cleaned
  <2>3. \A i \in Job : i # j => office'[i] = office[i]
    BY <1>1
  <2>4. office'[j] = o
    BY <1>1
  <2>5. Keys(o) \subseteq Keys(office[j])
    BY <1>10
  <2>6. ASSUME NEW i \in Job
        PROVE  /\ office'[i].state = "ABSENT" => office'[i] = NoOffice
               /\ office'[i].state = "UPLOADING" => office'[i].formula = NoKey
               /\ office'[i].formula # NoKey => office'[i].formula.kind = "formula"
    BY <1>9, <2>1, <2>2, <2>3, <2>4 DEF ServiceInv, Records
  <2>7. ASSUME NEW i \in Job, i \notin told
        PROVE  office'[i].state \in {"ABSENT", "UPLOADING"} /\ Keys(office'[i]) = {}
    BY <1>4, <2>3, <2>7 DEF ServiceInv, Records
  <2>8. ASSUME NEW i \in Job
        PROVE  \A l \in Lease : office'[i].proof[l].size = 0 => office'[i].proof[l].key = NoKey
    BY <2>2, <2>3, <2>4 DEF ServiceInv, Records
  <2>9. ASSUME NEW i \in Job, NEW k \in Keys(office'[i])
        PROVE  k.job = i /\ k.draw <= drawn /\ (k.kind # "formula" => k.lease \in Lease)
    BY <2>3, <2>4, <2>5, <2>9 DEF ServiceInv, Records
  <2>. QED BY <1>4, <2>6, <2>7, <2>8, <2>9 DEF Records
<1>15. Ringing'
  <2>1. bell[j] # NoRequest => o.state # "ABSENT"
    BY <1>9 DEF ServiceInv, Ringing
  <2>. QED BY <1>1, <1>4, <1>9, <2>1 DEF ServiceInv, Ringing, Quiet
<1>16. Working'
  BY <1>2, <1>4, <1>5, <1>6, <1>7, Resting DEF ServiceInv, Working, Creating
<1>17. InFlight'
  <2>1. ASSUME NEW q \in Request, Uploading(q)'
        PROVE  q # r /\ Uploading(q) /\ desk'[q] = desk[q]
    BY <1>2, <1>5, <2>1 DEF Uploading
  <2>2. \A k, i : i \in Job /\ k \notin Keys(office[i]) => k \notin Keys(office'[i])
    BY <1>1, <1>10
  <2>3. \A q \in Request : desk'[q].batch \subseteq desk[q].batch
    BY <1>2, <1>5
  <2>4. \A q \in Request : desk'[q].key \in {desk[q].key, NoKey}
    BY <1>2, <1>5, <1>6, <1>7, Resting
  <2>5. \A k : k \in kv => k \in kv' \/ k \in batch
    BY <1>3
  <2>6. \A i : KvExpired(i)' = KvExpired(i)
    BY DEF KvExpired, Quiet
  <2>. QED BY <1>4, <1>8, <2>1, <2>2, <2>3, <2>4, <2>5, <2>6, KeysAreKeys
           DEF ServiceInv, InFlight
<1>18. Stored'
  <2>1. \A k, i : i \in Job /\ k \in Keys(office[i]) => k \in Keys(office'[i]) \/ k \in batch
    BY <1>1, <1>10
  <2>2. \A q \in Request : desk[q].at \in {"commit", "discard"} => desk'[q] = desk[q]
    BY <1>2, <1>8
  <2>3. \A i : KvExpired(i)' = KvExpired(i)
    BY DEF KvExpired, Quiet
  <2>. QED BY <1>3, <1>4, <2>1, <2>2, <2>3 DEF ServiceInv, Stored
<1>19. RowsAreStored'
  <2>1. ASSUME NEW i \in Job, i # j, ~KvExpired(i), NEW k \in Keys(office[i])
        PROVE  k \in kv'
    BY <1>3, <1>8, <2>1 DEF ServiceInv, RowsAreStored, Records
  <2>2. ~KvExpired(j) => Keys(o) \subseteq kv'
    BY <1>3, <1>10 DEF ServiceInv, RowsAreStored
  <2>3. \A i : KvExpired(i)' = KvExpired(i)
    BY DEF KvExpired, Quiet
  <2>. QED BY <1>1, <2>1, <2>2, <2>3 DEF RowsAreStored
<1>20. Listed'
  <2>1. \A i : KvExpired(i)' = KvExpired(i)
    BY DEF KvExpired, Quiet
  <2>2. ASSUME NEW i \in Job, Offers(i)'
        PROVE  Offers(i)
    BY <1>2, <1>5, <2>2 DEF Offers, Quiet
  <2>3. ASSUME NEW i \in Job, NEW q \in Request, q # r, desk[q].job = i,
               desk[q].at \in {"clean", "close"}
        PROVE  Kept(i)'
    BY <1>2, <2>3 DEF Kept
  <2>4. a.at = "close" => Kept(j)'
    BY <1>2, <1>6 DEF Kept
  <2>5. desk[r].at = "clean" => Kept(j)'
    <3>1. office[j].state = "ABSENT" => KvExpired(j)
      BY <1>4 DEF ServiceInv, Dating, Dated
    <3>. QED BY <2>1, <2>4, <3>1 DEF Kept, CleanStep
  <2>6. office[j].state = "OPEN" /\ office[j].formula # NoKey => Kept(j)'
    <3>1. CASE desk[r].at = "clean"
      BY <2>5, <3>1
    <3>2. ASSUME desk[r].at # "clean", office[j].formula # NoKey
          PROVE  office[j].formula \notin batch
      BY <3>2 DEF CleanStep, ServiceInv, Records
    <3>3. ASSUME desk[r].at # "clean", office[j].formula # NoKey
          PROVE  o.formula = office[j].formula
      BY <1>3, <3>2, <3>3 DEF Cleaned
    <3>4. office'[j] = o
      BY <1>1
    <3>. QED BY <1>9, <3>1, <3>3, <3>4 DEF Kept
  <2>7. ASSUME NEW i \in Job, i # j
        PROVE  office'[i] = office[i]
    BY <1>1, <2>7
  <2>8. ASSUME NEW i \in Job, Kept(i)
        PROVE  Kept(i)'
    <3>1. CASE office[i].state = "OPEN" /\ office[i].formula # NoKey
      BY <2>6, <2>7, <3>1 DEF Kept
    <3>2. CASE KvExpired(i) \/ faults > 0
      BY <1>4, <2>1, <3>2 DEF Kept
    <3>3. CASE \E q \in Request : desk[q].job = i /\ desk[q].at \in {"clean", "close"}
      <4>1. desk[r].at # "close"
        BY <1>8
      <4>. QED BY <1>4, <2>3, <2>5, <3>3, <4>1
    <3>. QED BY <2>8, <3>1, <3>2, <3>3 DEF Kept
  <2>. QED BY <1>4, <2>2, <2>8 DEF ServiceInv, Listed
<1>21. SpaceBounded'
  BY <1>1, <1>3 DEF ServiceInv, SpaceBounded, Cleaned
<1>22. CleanupIsScheduled'
  BY <1>1, <1>9, <1>10, OfficeTimes, Dates
     DEF ServiceInv, CleanupIsScheduled, Greatest, Quiet, CleanStep, Never
<1>. QED BY <1>11, <1>12, <1>13, <1>14, <1>15, <1>16, <1>17, <1>18, <1>19, <1>20, <1>21, <1>22
       DEF ServiceInv

\* A batch is deleted and forgotten in one step.
LEMMA CancelCleansKeeps ==
    ASSUME ServiceInv, NEW r \in Request, CancelCleans(r)
    PROVE  ServiceInv'
<1>1. Quiet /\ IInv'
  BY QuietDirectory DEF ServiceInv, CancelCleans, vars
<1>2. /\ bell' = bell /\ told' = told /\ drawn' = drawn /\ faults' = faults
      /\ desk[r].at = "clean" /\ desk[r].job \in told /\ desk[r].batch \subseteq Key
      /\ kv' = kv \ desk[r].batch
  BY Hands DEF CancelCleans, At, ServiceInv, ServiceTypeOK, Working, Creating
<1>3. PICK j \in Job : j = desk[r].job
  BY <1>2 DEF ServiceInv, ServiceTypeOK
<1>4. PICK o \in Office :
        /\ office' = [office EXCEPT ![j] = o]
        /\ Cleaned(office[j], desk[r].batch, o)
        /\ IF office[j].state = "ABSENT" THEN o = office[j] ELSE o.wake \in {now, o.expires}
  <2>1. office[j] \in Office
    BY DEF ServiceInv, ServiceTypeOK
  <2>2. CASE office[j].state = "ABSENT"
    <3>1. office' = [office EXCEPT ![j] = office[j]]
      BY <1>3, <2>2 DEF CancelCleans, ServiceInv, ServiceTypeOK
    <3>2. office[j] = NoOffice
      BY <2>2 DEF ServiceInv, ServiceTypeOK, Records
    <3>3. NoKey \notin desk[r].batch
      BY <1>2, KeysAreKeys
    <3>. QED BY <2>1, <2>2, <3>1, <3>2, <3>3, Nobody DEF Cleaned
  <2>3. CASE office[j].state # "ABSENT"
    <3>. DEFINE q == Forgotten(office[j], desk[r].batch)
                wake == IF Keys(q) = {} THEN q.expires ELSE now
                p == [q EXCEPT !.wake = wake]
    <3>1. office' = [office EXCEPT ![j] = p]
      BY <1>3, <2>3 DEF CancelCleans, Rearmed
    <3>2. q \in Office
      BY <1>2, <2>1, ForgottenRows
    <3>. HIDE DEF q
    <3>3. wake \in Nat \cup {Never} /\ wake \in {now, q.expires}
      BY <3>2, OfficeTimes, Dates DEF ServiceInv
    <3>. HIDE DEF wake
    <3>4. p \in Office /\ p.wake = wake /\ Cleaned(office[j], desk[r].batch, p)
      <4>1. p = CleanedOut(office[j], desk[r].batch, wake)
        BY DEF q, CleanedOut
      <4>2. desk[r].batch \in SUBSET Key
        BY <1>2
      <4>. HIDE DEF p
      <4>. QED BY <2>1, <3>3, <4>1, <4>2, CleanedUp
    <3>5. q.expires = p.expires
      BY <3>2 DEF Office
    <3>. HIDE DEF p
    <3>. QED BY <2>3, <3>1, <3>3, <3>4, <3>5
  <2>. QED BY <2>2, <2>3
<1>5. PICK a \in Activity :
        /\ desk' = [desk EXCEPT ![r] = a]
        /\ \/ a = NoRequest /\ office[j].state = "ABSENT"
           \/ a.at = "close" /\ a.job = j /\ a.key = desk[r].key /\ a.batch = {}
  <2>. DEFINE new == [desk[r] EXCEPT !.at = "close", !.batch = {}]
  <2>1. desk[r] \in Activity
    BY DEF ServiceInv, ServiceTypeOK
  <2>2. new \in Activity /\ new.at = "close" /\ new.job = desk[r].job /\ new.key = desk[r].key /\ new.batch = {}
    BY <2>1 DEF Activity, Steps
  <2>. QED BY <1>3, <2>2, Resting DEF CancelCleans, Done
<1>. QED BY <1>1, <1>2, <1>3, <1>4, <1>5, Resting, CleanedKeeps DEF CleanStep

\* The directory is told that a job is over.
LEMMA ClosesKeeps ==
    ASSUME ServiceInv, NEW r \in Request, Closes(r)
    PROVE  ServiceInv'
<1>1. /\ office' = office /\ kv' = kv /\ bell' = bell /\ told' = told /\ drawn' = drawn
      /\ faults' = faults
      /\ desk[r].at = "close" /\ desk[r].job \in Job /\ desk' = [desk EXCEPT ![r] = NoRequest]
      /\ Close(desk[r].job)
  BY DEF ServiceInv, Working, Creating, Closes, CloseListing, Done
<1>2. Quiet /\ IInv'
  BY <1>1, QuietDirectory DEF ServiceInv, vars
<1>3. desk[r].job \notin db'.listed /\ EligibleJobs(db') \subseteq db'.listed
  BY <1>1 DEF Close, Unlist, ServiceInv, IInv, Good, Database, EligibleJobs
<1>4. ServiceTypeOK'
  BY <1>1, <1>2, <1>3, Resting DEF ServiceInv, ServiceTypeOK, TypeOK, IInv, Good, Quiet
<1>5. Created'
  BY <1>1, <1>2, <1>3, Resting DEF ServiceInv, ServiceTypeOK, Created, Creating, Quiet
<1>6. Dating'
  BY <1>1, <1>2, <1>3, Resting
     DEF ServiceInv, ServiceTypeOK, Dating, Created, Creating, Dated, KvExpired, Quiet
<1>7. Records'
  BY <1>1, <1>2, <1>3, Resting DEF ServiceInv, ServiceTypeOK, Records, Created, Creating, Quiet
<1>8. Ringing'
  BY <1>1, <1>2, <1>3, Resting DEF ServiceInv, ServiceTypeOK, Ringing, Quiet
<1>9. Working'
  BY <1>1, <1>2, <1>3, Resting, KeysAreKeys
     DEF ServiceInv, ServiceTypeOK, Working, Creating, Quiet
<1>10. InFlight'
  BY <1>1, <1>2, <1>3, Resting, KeysAreKeys
     DEF ServiceInv, ServiceTypeOK, InFlight, Uploading, KvExpired, Quiet
<1>11. Stored'
  BY <1>1, <1>2, <1>3, Resting, KeysAreKeys
     DEF ServiceInv, ServiceTypeOK, Stored, KvExpired, Quiet
<1>12. RowsAreStored'
  BY <1>1, <1>2, <1>3, Resting DEF ServiceInv, ServiceTypeOK, RowsAreStored, KvExpired, Quiet
<1>13. Listed'
  BY <1>1, <1>2, <1>3, Resting, Dates
     DEF ServiceInv, ServiceTypeOK, Listed, Offers, Kept, KvExpired, Quiet
<1>14. SpaceBounded'
  BY <1>1, <1>2, <1>3, Resting DEF ServiceInv, ServiceTypeOK, SpaceBounded
<1>15. CleanupIsScheduled'
  BY <1>1, <1>2, <1>3, Resting, Dates
     DEF ServiceInv, ServiceTypeOK, CleanupIsScheduled, Greatest, Quiet
<1>. QED BY <1>2, <1>4, <1>5, <1>6, <1>7, <1>8, <1>9, <1>10, <1>11, <1>12, <1>13, <1>14, <1>15
       DEF ServiceInv

-----------------------------------------------------------------------------
(* Leases and results.                                                     *)

\* A lease is granted.
LEMMA GrantedKeeps ==
    ASSUME ServiceInv, NEW j \in Job, NEW l \in Lease, Granted(j, l)
    PROVE  ServiceInv'
<1>1. Quiet /\ IInv'
  BY QuietDirectory DEF ServiceInv, Granted, vars
<1>2. /\ kv' = kv /\ desk' = desk /\ bell' = bell /\ told' = told /\ drawn' = drawn
      /\ faults' = faults
      /\ office[j] \in Office /\ office[j].state # "ABSENT"
  BY DEF Granted, ServiceInv, ServiceTypeOK
<1>3. PICK o \in Office :
        /\ office' = [office EXCEPT ![j] = o]
        /\ SameHoldings(office[j], o)
        /\ o.wake = office[j].wake /\ o.state = office[j].state
  <2>. DEFINE p == [office[j] EXCEPT !.lease[l] = "ACTIVE"]
  <2>1. office' = [office EXCEPT ![j] = p]
    BY DEF Granted
  <2>2. p \in Office /\ p.wake = office[j].wake /\ p.state = office[j].state /\ SameHoldings(office[j], p)
    BY <1>2, LeaseSet
  <2>. HIDE DEF p
  <2>. QED BY <2>1, <2>2
<1>4. ServiceTypeOK'
  BY <1>1, <1>2, <1>3 DEF ServiceInv, ServiceTypeOK, TypeOK, IInv, Good, Quiet
<1>5. Created'
  BY <1>1, <1>2, <1>3 DEF ServiceInv, ServiceTypeOK, Created, Creating, Quiet, SameHoldings
<1>6. Dating'
  BY <1>1, <1>2, <1>3
     DEF ServiceInv, ServiceTypeOK, Dating, Created, Creating, Dated, KvExpired, Quiet,
         SameHoldings
<1>7. Records'
  BY <1>1, <1>2, <1>3
     DEF ServiceInv, ServiceTypeOK, Records, Created, Creating, Quiet, SameHoldings
<1>8. Ringing'
  BY <1>1, <1>2, <1>3 DEF ServiceInv, ServiceTypeOK, Ringing, Quiet, SameHoldings
<1>9. Working'
  BY <1>1, <1>2, <1>3, KeysAreKeys DEF ServiceInv, ServiceTypeOK, Working, Creating, Quiet
<1>10. InFlight'
  BY <1>1, <1>2, <1>3, KeysAreKeys
     DEF ServiceInv, ServiceTypeOK, InFlight, Uploading, KvExpired, Quiet, SameHoldings
<1>11. Stored'
  BY <1>1, <1>2, <1>3, KeysAreKeys
     DEF ServiceInv, ServiceTypeOK, Stored, KvExpired, Quiet, SameHoldings
<1>12. RowsAreStored'
  BY <1>1, <1>2, <1>3
     DEF ServiceInv, ServiceTypeOK, RowsAreStored, KvExpired, Quiet, SameHoldings
<1>13. Listed'
  BY <1>1, <1>2, <1>3, Dates
     DEF ServiceInv, ServiceTypeOK, Listed, Offers, Kept, KvExpired, Quiet, SameHoldings
<1>14. SpaceBounded'
  BY <1>1, <1>2, <1>3 DEF ServiceInv, ServiceTypeOK, SpaceBounded, SameHoldings
<1>15. CleanupIsScheduled'
  BY <1>1, <1>2, <1>3, OfficeTimes, Dates
     DEF ServiceInv, ServiceTypeOK, CleanupIsScheduled, Greatest, Quiet, SameHoldings
<1>. QED BY <1>1, <1>4, <1>5, <1>6, <1>7, <1>8, <1>9, <1>10, <1>11, <1>12, <1>13, <1>14, <1>15
       DEF ServiceInv

\* A lease ends.
LEMMA EndedKeeps ==
    ASSUME ServiceInv, NEW j \in Job, NEW l \in Lease, Ended(j, l)
    PROVE  ServiceInv'
<1>1. Quiet /\ IInv'
  BY QuietDirectory DEF ServiceInv, Ended, vars
<1>2. /\ kv' = kv /\ desk' = desk /\ bell' = bell /\ told' = told /\ drawn' = drawn
      /\ faults' = faults
      /\ office[j] \in Office /\ office[j].state # "ABSENT"
  BY DEF Ended, ServiceInv, ServiceTypeOK, Records, NoOffice
<1>3. PICK o \in Office :
        /\ office' = [office EXCEPT ![j] = o]
        /\ SameHoldings(office[j], o)
        /\ o.wake = office[j].wake /\ o.state = office[j].state
  <2>. DEFINE p == [office[j] EXCEPT !.lease[l] = "OVER"]
  <2>1. office' = [office EXCEPT ![j] = p]
    BY DEF Ended
  <2>2. p \in Office /\ p.wake = office[j].wake /\ p.state = office[j].state /\ SameHoldings(office[j], p)
    BY <1>2, LeaseSet
  <2>. HIDE DEF p
  <2>. QED BY <2>1, <2>2
<1>4. ServiceTypeOK'
  BY <1>1, <1>2, <1>3, Nobody DEF ServiceInv, ServiceTypeOK, TypeOK, IInv, Good, Quiet
<1>5. Created'
  BY <1>1, <1>2, <1>3, Nobody
     DEF ServiceInv, ServiceTypeOK, Created, Creating, Quiet, SameHoldings
<1>6. Dating'
  BY <1>1, <1>2, <1>3, Nobody
     DEF ServiceInv, ServiceTypeOK, Dating, Created, Creating, Dated, KvExpired, Quiet,
         SameHoldings
<1>7. Records'
  BY <1>1, <1>2, <1>3, Nobody
     DEF ServiceInv, ServiceTypeOK, Records, Created, Creating, Quiet, SameHoldings
<1>8. Ringing'
  BY <1>1, <1>2, <1>3, Nobody DEF ServiceInv, ServiceTypeOK, Ringing, Quiet, SameHoldings
<1>9. Working'
  BY <1>1, <1>2, <1>3, Nobody, KeysAreKeys
     DEF ServiceInv, ServiceTypeOK, Working, Creating, Quiet
<1>10. InFlight'
  BY <1>1, <1>2, <1>3, Nobody, KeysAreKeys
     DEF ServiceInv, ServiceTypeOK, InFlight, Uploading, KvExpired, Quiet, SameHoldings
<1>11. Stored'
  BY <1>1, <1>2, <1>3, Nobody, KeysAreKeys
     DEF ServiceInv, ServiceTypeOK, Stored, KvExpired, Quiet, SameHoldings
<1>12. RowsAreStored'
  BY <1>1, <1>2, <1>3, Nobody
     DEF ServiceInv, ServiceTypeOK, RowsAreStored, KvExpired, Quiet, SameHoldings
<1>13. Listed'
  BY <1>1, <1>2, <1>3, Nobody, Dates
     DEF ServiceInv, ServiceTypeOK, Listed, Offers, Kept, KvExpired, Quiet, SameHoldings
<1>14. SpaceBounded'
  BY <1>1, <1>2, <1>3, Nobody DEF ServiceInv, ServiceTypeOK, SpaceBounded, SameHoldings
<1>15. CleanupIsScheduled'
  BY <1>1, <1>2, <1>3, OfficeTimes, Nobody, Dates
     DEF ServiceInv, ServiceTypeOK, CleanupIsScheduled, Greatest, Quiet, SameHoldings
<1>. QED BY <1>1, <1>4, <1>5, <1>6, <1>7, <1>8, <1>9, <1>10, <1>11, <1>12, <1>13, <1>14, <1>15
       DEF ServiceInv

\* A result is handed to the verifier.
LEMMA ResultBeginsKeeps ==
    ASSUME ServiceInv, NEW r \in Request, NEW j \in Job, NEW key \in Keys(office[j]),
           ResultBegins(r, j, key)
    PROVE  ServiceInv'
<1>1. Quiet /\ IInv'
  BY QuietDirectory DEF ServiceInv, ResultBegins, vars
<1>2. /\ kv' = kv /\ bell' = bell /\ told' = told /\ drawn' = drawn /\ faults' = faults
      /\ desk[r] = NoRequest /\ key \in Key /\ key.kind # "formula" /\ j \in told
      /\ office[j].state = "OPEN" /\ office[j] \in Office
  BY KeysAreKeys DEF ServiceInv, ServiceTypeOK, Records, ResultBegins, Idle
<1>3. PICK o \in Office :
        /\ office' = [office EXCEPT ![j] = o]
        /\ SameHoldings(office[j], o)
        /\ o.wake = office[j].wake /\ o.state = office[j].state
  <2>1. office' = [office EXCEPT ![j] = [office[j] EXCEPT !.lease[key.lease] = "OVER"]]
    BY DEF ResultBegins
  <2>2. key.lease \in Lease
    BY <1>2 DEF ServiceInv, Records
  <2>. DEFINE p == [office[j] EXCEPT !.lease[key.lease] = "OVER"]
  <2>3. p \in Office /\ p.wake = office[j].wake /\ p.state = office[j].state /\ SameHoldings(office[j], p)
    BY <1>2, <2>2, LeaseSet
  <2>. HIDE DEF p
  <2>. QED BY <2>1, <2>3 DEF p
<1>4. PICK a \in Activity :
        /\ desk' = [desk EXCEPT ![r] = a]
        /\ a.at = "verify" /\ a.job = j /\ a.key = key /\ a.batch = {}
  <2>. DEFINE new == [NoRequest EXCEPT !.op = "verdict", !.at = "verify", !.job = j, !.key = key]
  <2>1. desk' = [desk EXCEPT ![r] = new]
    BY <1>2 DEF ResultBegins
  <2>2. new \in Activity /\ new.at = "verify" /\ new.job = j /\ new.key = key /\ new.batch = {}
    BY <1>2 DEF NoRequest, Activity, Ops, Steps
  <2>. HIDE DEF new
  <2>. QED BY <2>1, <2>2
<1>5. ServiceTypeOK'
  BY <1>1, <1>2, <1>3, <1>4, Resting DEF ServiceInv, ServiceTypeOK, TypeOK, IInv, Good, Quiet
<1>6. Created'
  BY <1>1, <1>2, <1>3, <1>4, Resting
     DEF ServiceInv, ServiceTypeOK, Created, Creating, Quiet, SameHoldings
<1>7. Dating'
  BY <1>1, <1>2, <1>3, <1>4, Resting
     DEF ServiceInv, ServiceTypeOK, Dating, Created, Creating, Dated, KvExpired, Quiet,
         SameHoldings
<1>8. Records'
  BY <1>1, <1>2, <1>3, <1>4, Resting
     DEF ServiceInv, ServiceTypeOK, Records, Created, Creating, Quiet, SameHoldings
<1>9. Ringing'
  BY <1>1, <1>2, <1>3, <1>4, Resting DEF ServiceInv, ServiceTypeOK, Ringing, Quiet, SameHoldings
<1>10. Working'
  BY <1>1, <1>2, <1>3, <1>4, Resting, KeysAreKeys
     DEF ServiceInv, ServiceTypeOK, Working, Creating, Quiet, Records
<1>11. InFlight'
  BY <1>1, <1>2, <1>3, <1>4, Resting, KeysAreKeys
     DEF ServiceInv, ServiceTypeOK, InFlight, Uploading, KvExpired, Quiet, SameHoldings
<1>12. Stored'
  BY <1>1, <1>2, <1>3, <1>4, Resting, KeysAreKeys
     DEF ServiceInv, ServiceTypeOK, Stored, KvExpired, Quiet, SameHoldings
<1>13. RowsAreStored'
  BY <1>1, <1>2, <1>3, <1>4, Resting
     DEF ServiceInv, ServiceTypeOK, RowsAreStored, KvExpired, Quiet, SameHoldings
<1>14. Listed'
  BY <1>1, <1>2, <1>3, <1>4, Resting, Dates
     DEF ServiceInv, ServiceTypeOK, Listed, Offers, Kept, KvExpired, Quiet, SameHoldings
<1>15. SpaceBounded'
  BY <1>1, <1>2, <1>3, <1>4, Resting DEF ServiceInv, ServiceTypeOK, SpaceBounded, SameHoldings
<1>16. CleanupIsScheduled'
  BY <1>1, <1>2, <1>3, <1>4, OfficeTimes, Resting, Dates
     DEF ServiceInv, ServiceTypeOK, CleanupIsScheduled, Greatest, Quiet, SameHoldings
<1>. QED BY <1>1, <1>5, <1>6, <1>7, <1>8, <1>9, <1>10, <1>11, <1>12, <1>13, <1>14, <1>15, <1>16
       DEF ServiceInv

\* The verdict ends the job, whatever has become of it meanwhile.
LEMMA ResultDecidesKeeps ==
    ASSUME ServiceInv, NEW r \in Request, ResultDecides(r)
    PROVE  ServiceInv'
<1>1. Quiet /\ IInv'
  BY QuietDirectory DEF ServiceInv, ResultDecides, vars
<1>2. PICK a \in Activity :
        /\ desk' = [desk EXCEPT ![r] = a]
        /\ a.at = "close" /\ a.job = desk[r].job /\ a.key = desk[r].key
        /\ a.size = desk[r].size /\ a.batch = desk[r].batch
  BY GoesOn DEF ServiceInv, Steps, ResultDecides, At
<1>3. /\ kv' = kv /\ bell' = bell /\ told' = told /\ drawn' = drawn /\ faults' = faults
      /\ desk[r].at = "verify" /\ desk[r].job \in told /\ office[desk[r].job] \in Office
      /\ office[desk[r].job].state # "ABSENT"
  BY DEF ServiceInv, ServiceTypeOK, Working, Creating, ResultDecides, At
<1>4. PICK o \in Office :
        /\ office' = [office EXCEPT ![desk[r].job] = o]
        /\ SameHoldings(office[desk[r].job], o)
        /\ o.state \in {"VERDICT", "INVALID"} /\ o.wake = o.expires
  <2>1. PICK state \in {"VERDICT", "INVALID"} :
          office' = [office EXCEPT ![desk[r].job] = Scheduled([LeasesOver(@) EXCEPT !.state = state])]
    BY DEF ResultDecides
  <2>. DEFINE p == JobEnded(office[desk[r].job], state)
  <2>2. p \in Office /\ p.state = state /\ SameHoldings(office[desk[r].job], p)
    BY <1>3, LeasesEnd
  <2>3. office' = [office EXCEPT ![desk[r].job] = [p EXCEPT !.wake = p.expires]]
    BY <2>1 DEF Scheduled, JobEnded
  <2>. HIDE DEF p
  <2>4. p.expires \in Nat \cup {Never}
    BY <2>2, OfficeTimes
  <2>. DEFINE o == [p EXCEPT !.wake = p.expires]
  <2>5. o \in Office /\ o.wake = p.expires /\ o.state = p.state /\ SameHoldings(p, o)
    BY <2>2, <2>4, AlarmSet
  <2>. HIDE DEF o
  <2>. QED BY <2>2, <2>3, <2>5 DEF SameHoldings, o
<1>5. ServiceTypeOK'
  BY <1>1, <1>2, <1>3, <1>4 DEF ServiceInv, ServiceTypeOK, TypeOK, IInv, Good, Quiet
<1>6. Created'
  BY <1>1, <1>2, <1>3, <1>4
     DEF ServiceInv, ServiceTypeOK, Created, Creating, Quiet, SameHoldings
<1>7. Dating'
  BY <1>1, <1>2, <1>3, <1>4
     DEF ServiceInv, ServiceTypeOK, Dating, Created, Creating, Dated, KvExpired, Quiet,
         SameHoldings
<1>8. Records'
  BY <1>1, <1>2, <1>3, <1>4
     DEF ServiceInv, ServiceTypeOK, Records, Created, Creating, Quiet, SameHoldings
<1>9. Ringing'
  BY <1>1, <1>2, <1>3, <1>4 DEF ServiceInv, ServiceTypeOK, Ringing, Quiet, SameHoldings
<1>10. Working'
  BY <1>1, <1>2, <1>3, <1>4, KeysAreKeys DEF ServiceInv, ServiceTypeOK, Working, Creating, Quiet
<1>11. InFlight'
  BY <1>1, <1>2, <1>3, <1>4, KeysAreKeys
     DEF ServiceInv, ServiceTypeOK, InFlight, Uploading, KvExpired, Quiet, SameHoldings
<1>12. Stored'
  BY <1>1, <1>2, <1>3, <1>4, KeysAreKeys
     DEF ServiceInv, ServiceTypeOK, Stored, KvExpired, Quiet, SameHoldings
<1>13. RowsAreStored'
  BY <1>1, <1>2, <1>3, <1>4
     DEF ServiceInv, ServiceTypeOK, RowsAreStored, KvExpired, Quiet, SameHoldings
<1>14. Listed'
  BY <1>1, <1>2, <1>3, <1>4, Dates
     DEF ServiceInv, ServiceTypeOK, Listed, Offers, Kept, KvExpired, Quiet, SameHoldings
<1>15. SpaceBounded'
  BY <1>1, <1>2, <1>3, <1>4 DEF ServiceInv, ServiceTypeOK, SpaceBounded, SameHoldings
<1>16. CleanupIsScheduled'
  BY <1>1, <1>2, <1>3, <1>4, OfficeTimes, Dates
     DEF ServiceInv, ServiceTypeOK, CleanupIsScheduled, Greatest, Quiet, SameHoldings
<1>. QED BY <1>1, <1>5, <1>6, <1>7, <1>8, <1>9, <1>10, <1>11, <1>12, <1>13, <1>14, <1>15, <1>16
       DEF ServiceInv

\* A rejected artifact is deleted and forgotten; it is not the formula.
LEMMA ResultRejectedKeeps ==
    ASSUME ServiceInv, NEW r \in Request, ResultRejected(r)
    PROVE  ServiceInv'
<1>1. Quiet /\ IInv'
  BY QuietDirectory DEF ServiceInv, ResultRejected, vars
<1>2. /\ bell' = bell /\ told' = told /\ drawn' = drawn /\ faults' = faults
      /\ desk[r].at = "verify" /\ desk[r].job \in told /\ desk' = [desk EXCEPT ![r] = NoRequest]
      /\ kv' = kv \ {desk[r].key} /\ desk[r].key \in Key
      /\ desk[r].key.kind # "formula" /\ desk[r].key.job = desk[r].job
  BY DEF ServiceInv, ServiceTypeOK, Working, Creating, ResultRejected, At, Done
<1>3. PICK j \in Job : j = desk[r].job
  BY <1>2 DEF ServiceInv, ServiceTypeOK
<1>4. PICK o \in Office :
        /\ office' = [office EXCEPT ![j] = o]
        /\ Cleaned(office[j], {desk[r].key}, o)
        /\ o.wake = o.expires /\ o.state # "ABSENT"
  <2>. DEFINE q == Forgotten(office[j], {desk[r].key})
              p == [q EXCEPT !.wake = q.expires]
  <2>1. office[j] \in Office
    BY DEF ServiceInv, ServiceTypeOK
  <2>2. office' = [office EXCEPT ![j] = p] /\ office[j].state # "ABSENT"
    BY <1>3 DEF ResultRejected, Scheduled
  <2>3. q \in Office
    BY <1>2, <2>1, ForgottenRows
  <2>. HIDE DEF q
  <2>4. q.expires \in Nat \cup {Never}
    BY <2>3, OfficeTimes
  <2>6. q.expires = p.expires
    BY <2>3 DEF Office
  <2>7. p = CleanedOut(office[j], {desk[r].key}, q.expires) /\ {desk[r].key} \in SUBSET Key
    BY <1>2 DEF q, CleanedOut
  <2>. HIDE DEF p
  <2>5. p \in Office /\ p.wake = q.expires /\ Cleaned(office[j], {desk[r].key}, p)
    BY <2>1, <2>4, <2>7, CleanedUp
  <2>. QED BY <2>2, <2>5, <2>6 DEF Cleaned
<1>5. CleanStep(r, j, o, NoRequest, {desk[r].key})
  <2>1. o.state = office[j].state
    BY <1>4 DEF Cleaned
  <2>. QED BY <1>2, <1>3, <1>4, <2>1 DEF CleanStep
<1>. QED BY <1>1, <1>2, <1>5, Resting, CleanedKeeps

\* The verifier has no answer.
LEMMA ResultDroppedKeeps ==
    ASSUME ServiceInv, NEW r \in Request, ResultDropped(r)
    PROVE  ServiceInv'
<1>1. Quiet /\ IInv'
  BY QuietDirectory DEF ServiceInv, ResultDropped, vars
<1>2. /\ kv' = kv /\ bell' = bell /\ told' = told /\ drawn' = drawn /\ faults' = faults
      /\ desk[r].at = "verify" /\ desk[r].job \in told /\ office[desk[r].job] \in Office
      /\ desk' = [desk EXCEPT ![r] = NoRequest]
  BY DEF ServiceInv, ServiceTypeOK, Working, Creating, ResultDropped, At, Done
<1>3. PICK o \in Office :
        /\ office' = [office EXCEPT ![desk[r].job] = o]
        /\ SameHoldings(office[desk[r].job], o)
        /\ o.state = office[desk[r].job].state
        /\ IF office[desk[r].job].state = "ABSENT" THEN o = office[desk[r].job] ELSE o.wake = o.expires
  <2>. DEFINE old == office[desk[r].job]
  <2>1. CASE old.state = "ABSENT"
    BY <1>2, <2>1 DEF ResultDropped, SameHoldings
  <2>2. CASE old.state # "ABSENT"
    <3>1. office' = [office EXCEPT ![desk[r].job] = [old EXCEPT !.wake = old.expires]]
      BY <2>2 DEF ResultDropped, Scheduled
    <3>2. old.expires \in Nat \cup {Never}
      BY <1>2, OfficeTimes
    <3>. DEFINE p == [old EXCEPT !.wake = old.expires]
    <3>3. p \in Office /\ p.wake = old.expires /\ p.state = old.state /\ SameHoldings(old, p)
      BY <1>2, <3>2, AlarmSet
    <3>. HIDE DEF p
    <3>. QED BY <2>2, <3>1, <3>3 DEF SameHoldings, p
  <2>. QED BY <2>1, <2>2
<1>4. ServiceTypeOK'
  BY <1>1, <1>2, <1>3, Resting DEF ServiceInv, ServiceTypeOK, TypeOK, IInv, Good, Quiet
<1>5. Created'
  BY <1>1, <1>2, <1>3, Resting
     DEF ServiceInv, ServiceTypeOK, Created, Creating, Quiet, SameHoldings
<1>6. Dating'
  BY <1>1, <1>2, <1>3, Resting
     DEF ServiceInv, ServiceTypeOK, Dating, Created, Creating, Dated, KvExpired, Quiet,
         SameHoldings
<1>7. Records'
  BY <1>1, <1>2, <1>3, Resting
     DEF ServiceInv, ServiceTypeOK, Records, Created, Creating, Quiet, SameHoldings
<1>8. Ringing'
  BY <1>1, <1>2, <1>3, Resting DEF ServiceInv, ServiceTypeOK, Ringing, Quiet, SameHoldings
<1>9. Working'
  BY <1>1, <1>2, <1>3, Resting, KeysAreKeys
     DEF ServiceInv, ServiceTypeOK, Working, Creating, Quiet
<1>10. InFlight'
  BY <1>1, <1>2, <1>3, Resting, KeysAreKeys
     DEF ServiceInv, ServiceTypeOK, InFlight, Uploading, KvExpired, Quiet, SameHoldings
<1>11. Stored'
  BY <1>1, <1>2, <1>3, Resting, KeysAreKeys
     DEF ServiceInv, ServiceTypeOK, Stored, KvExpired, Quiet, SameHoldings
<1>12. RowsAreStored'
  BY <1>1, <1>2, <1>3, Resting
     DEF ServiceInv, ServiceTypeOK, RowsAreStored, KvExpired, Quiet, SameHoldings
<1>13. Listed'
  BY <1>1, <1>2, <1>3, Resting, Dates
     DEF ServiceInv, ServiceTypeOK, Listed, Offers, Kept, KvExpired, Quiet, SameHoldings
<1>14. SpaceBounded'
  BY <1>1, <1>2, <1>3, Resting DEF ServiceInv, ServiceTypeOK, SpaceBounded, SameHoldings
<1>15. CleanupIsScheduled'
  BY <1>1, <1>2, <1>3, OfficeTimes, Resting, Dates
     DEF ServiceInv, ServiceTypeOK, CleanupIsScheduled, Greatest, Quiet, SameHoldings
<1>. QED BY <1>1, <1>4, <1>5, <1>6, <1>7, <1>8, <1>9, <1>10, <1>11, <1>12, <1>13, <1>14, <1>15
       DEF ServiceInv

-----------------------------------------------------------------------------
(* The coordinators' alarm.                                                *)

\* The alarm handler takes a batch, or sets the alarm again.
LEMMA AlarmRingsKeeps ==
    ASSUME ServiceInv, NEW j \in Job, AlarmRings(j)
    PROVE  ServiceInv'
<1>1. Quiet /\ IInv'
  BY QuietDirectory DEF ServiceInv, AlarmRings, vars
<1>2. /\ kv' = kv /\ desk' = desk /\ told' = told /\ drawn' = drawn /\ faults' = faults
      /\ bell[j] = NoRequest /\ office[j] \in Office /\ office[j].state # "ABSENT"
  <2>1. NoOffice.wake = Never
    BY DEF NoOffice
  <2>. QED BY <2>1 DEF ServiceInv, ServiceTypeOK, Records, AlarmRings
<1>3. PICK o \in Office :
        /\ office' = [office EXCEPT ![j] = o]
        /\ SameHoldings(office[j], o)
        /\ o.state = office[j].state
        /\ o.wake \in {Never, o.expires}
  <2>. DEFINE old == office[j]
  <2>1. old.expires \in Nat \cup {Never}
    BY <1>2, OfficeTimes
  <2>2. \/ office' = [office EXCEPT ![j] = [old EXCEPT !.wake = Never]]
        \/ office' = [office EXCEPT ![j] = [old EXCEPT !.wake = old.expires]]
    BY DEF AlarmRings, Scheduled
  <2>. DEFINE off == [old EXCEPT !.wake = Never]
              armed == [old EXCEPT !.wake = old.expires]
  <2>3. off \in Office /\ off.wake = Never /\ off.state = old.state /\ SameHoldings(old, off)
    BY <1>2, AlarmSet
  <2>4. armed \in Office /\ armed.wake = old.expires /\ armed.state = old.state /\ SameHoldings(old, armed)
    BY <1>2, <2>1, AlarmSet
  <2>. HIDE DEF off, armed
  <2>. QED BY <2>2, <2>3, <2>4 DEF SameHoldings, off, armed
<1>4. PICK b \in Activity :
        /\ bell' = [bell EXCEPT ![j] = b]
        /\ b.batch \subseteq Keys(office[j])
        /\ \/ b = NoRequest /\ o.wake = o.expires
           \/ b.at = "clean" /\ office[j].expires <= now
           \/ b.at = "trim" /\ office[j].state = "CANCELLED"
  <2>. DEFINE old == office[j]
              step == IF now < old.expires THEN "trim" ELSE "clean"
              new(batch) == [NoRequest EXCEPT !.at = step, !.job = j, !.batch = batch]
  <2>1. CASE CleansUp(old)
    <3>1. PICK batch \in SUBSET Keys(old) : bell' = [bell EXCEPT ![j] = new(batch)]
      BY <1>2, <2>1 DEF AlarmRings, Batches
    <3>2. new(batch) \in Activity /\ new(batch).at = step /\ new(batch).batch = batch
      BY <1>2, KeysAreKeys DEF NoRequest, Activity, Steps
    <3>3. \/ step = "clean" /\ old.expires <= now
          \/ step = "trim" /\ old.state = "CANCELLED"
      BY <1>2, <2>1, OfficeTimes, Dates DEF CleansUp, ServiceInv
    <3>. HIDE DEF new, step
    <3>. QED BY <3>1, <3>2, <3>3
  <2>2. CASE ~CleansUp(old)
    <3>1. bell' = [bell EXCEPT ![j] = NoRequest]
      BY <1>2, <2>2 DEF AlarmRings, ServiceInv, ServiceTypeOK
    <3>2. office'[j] = [old EXCEPT !.wake = old.expires]
      BY <1>2, <2>2 DEF AlarmRings, Scheduled, ServiceInv, ServiceTypeOK
    <3>3. o.wake = o.expires
      BY <1>2, <1>3, <3>2 DEF Office, ServiceInv, ServiceTypeOK
    <3>. QED BY <3>1, <3>3, Resting
  <2>. QED BY <2>1, <2>2
<1>5. ServiceTypeOK'
  BY <1>1, <1>2, <1>3, <1>4, Resting, Nobody
     DEF ServiceInv, ServiceTypeOK, TypeOK, IInv, Good, Quiet
<1>6. Created'
  BY <1>1, <1>2, <1>3, <1>4, Resting, Nobody
     DEF ServiceInv, ServiceTypeOK, Created, Creating, Quiet, SameHoldings
<1>7. Dating'
  BY <1>1, <1>2, <1>3, <1>4, Resting, Nobody
     DEF ServiceInv, ServiceTypeOK, Dating, Created, Creating, Dated, KvExpired, Quiet,
         SameHoldings
<1>8. Records'
  BY <1>1, <1>2, <1>3, <1>4, Resting, Nobody
     DEF ServiceInv, ServiceTypeOK, Records, Created, Creating, Quiet, SameHoldings
<1>9. Ringing'
  BY <1>1, <1>2, <1>3, <1>4, Hands, Resting, Nobody
     DEF ServiceInv, ServiceTypeOK, Ringing, Quiet, SameHoldings, Records
<1>10. Working'
  BY <1>1, <1>2, <1>3, <1>4, Resting, Nobody, KeysAreKeys
     DEF ServiceInv, ServiceTypeOK, Working, Creating, Quiet
<1>11. InFlight'
  BY <1>1, <1>2, <1>3, <1>4, Hands, Resting, Nobody, KeysAreKeys
     DEF ServiceInv, ServiceTypeOK, InFlight, Uploading, KvExpired, Quiet, SameHoldings, Records
<1>12. Stored'
  BY <1>1, <1>2, <1>3, <1>4, Resting, Nobody, KeysAreKeys
     DEF ServiceInv, ServiceTypeOK, Stored, KvExpired, Quiet, SameHoldings
<1>13. RowsAreStored'
  BY <1>1, <1>2, <1>3, <1>4, Resting, Nobody
     DEF ServiceInv, ServiceTypeOK, RowsAreStored, KvExpired, Quiet, SameHoldings
<1>14. Listed'
  BY <1>1, <1>2, <1>3, <1>4, Resting, Nobody, Dates
     DEF ServiceInv, ServiceTypeOK, Listed, Offers, Kept, KvExpired, Quiet, SameHoldings
<1>15. SpaceBounded'
  BY <1>1, <1>2, <1>3, <1>4, Resting, Nobody
     DEF ServiceInv, ServiceTypeOK, SpaceBounded, SameHoldings
<1>16. CleanupIsScheduled'
  BY <1>1, <1>2, <1>3, <1>4, OfficeTimes, Resting, Nobody, Dates
     DEF ServiceInv, ServiceTypeOK, CleanupIsScheduled, Greatest, Quiet, SameHoldings
<1>. QED BY <1>1, <1>5, <1>6, <1>7, <1>8, <1>9, <1>10, <1>11, <1>12, <1>13, <1>14, <1>15, <1>16
       DEF ServiceInv

\* A batch is deleted and forgotten; unless nothing is left, the alarm is set again.
LEMMA AlarmCleansKeeps ==
    ASSUME ServiceInv, NEW j \in Job, AlarmCleans(j)
    PROVE  ServiceInv'
<1>1. Quiet /\ IInv'
  BY QuietDirectory DEF ServiceInv, AlarmCleans, vars
<1>2. /\ desk' = desk /\ told' = told /\ drawn' = drawn /\ faults' = faults
      /\ bell[j].at \in {"trim", "clean"} /\ bell[j].batch \subseteq Key
      /\ kv' = kv \ bell[j].batch
      /\ office[j] \in Office /\ office[j].state # "ABSENT"
  BY Hands, Resting DEF ServiceInv, ServiceTypeOK, Ringing, AlarmCleans
<1>3. PICK o \in Office :
        /\ office' = [office EXCEPT ![j] = o]
        /\ Cleaned(office[j], bell[j].batch, o)
        /\ \E b \in Activity :
             /\ bell' = [bell EXCEPT ![j] = b]
             /\ \/ b = NoRequest /\ o.wake \in {now, o.expires}
                \/ b # NoRequest /\ b.at = "close" /\ b.batch = {} /\ bell[j].at = "clean"
  <2>. DEFINE q == Forgotten(office[j], bell[j].batch)
              wake == IF Keys(q) = {} THEN q.expires ELSE now
              p == [q EXCEPT !.wake = wake]
              closing == [bell[j] EXCEPT !.at = "close", !.batch = {}]
  <2>1. \/ /\ office' = [office EXCEPT ![j] = q]
           /\ bell' = [bell EXCEPT ![j] = closing] /\ bell[j].at = "clean"
        \/ /\ office' = [office EXCEPT ![j] = p]
           /\ bell' = [bell EXCEPT ![j] = NoRequest]
    BY DEF AlarmCleans, Rearmed
  <2>2. q \in Office /\ Cleaned(office[j], bell[j].batch, q)
    BY <1>2, ForgottenRows
  <2>. HIDE DEF q
  <2>3. wake \in Nat \cup {Never} /\ wake \in {now, q.expires}
    BY <2>2, OfficeTimes, Dates DEF ServiceInv
  <2>. HIDE DEF wake
  <2>4. p \in Office /\ p.wake = wake /\ Cleaned(office[j], bell[j].batch, p)
    <3>1. p = CleanedOut(office[j], bell[j].batch, wake)
      BY DEF q, CleanedOut
    <3>. HIDE DEF p
    <3>. QED BY <1>2, <2>3, <3>1, CleanedUp
  <2>5. q.expires = p.expires
    BY <2>2, <2>4 DEF Cleaned
  <2>6. closing \in Activity /\ closing.at = "close" /\ closing.batch = {} /\ closing # NoRequest
    <3>1. bell[j] \in Activity
      BY DEF ServiceInv, ServiceTypeOK
    <3>. QED BY <3>1, Resting DEF Activity, Steps
  <2>. HIDE DEF p, closing
  <2>. QED BY <2>1, <2>2, <2>3, <2>4, <2>5, <2>6, Resting
<1>4. ServiceTypeOK'
  BY <1>1, <1>2, <1>3, Resting DEF ServiceInv, ServiceTypeOK, TypeOK, IInv, Good, Quiet
<1>5. Created'
  BY <1>1, <1>2, <1>3, Hands, Resting
     DEF ServiceInv, ServiceTypeOK, Created, Creating, Quiet, Cleaned
<1>6. Dating'
  BY <1>1, <1>2, <1>3, Hands, Resting
     DEF ServiceInv, ServiceTypeOK, Dating, Created, Creating, Dated, KvExpired, Quiet, Cleaned
<1>7. Records'
  BY <1>1, <1>2, <1>3, Hands, Resting
     DEF ServiceInv, ServiceTypeOK, Records, Created, Creating, Quiet, Cleaned
<1>8. Ringing'
  BY <1>1, <1>2, <1>3, Hands, Resting DEF ServiceInv, ServiceTypeOK, Ringing, Quiet, Cleaned
<1>9. Working'
  BY <1>1, <1>2, <1>3, Resting, KeysAreKeys
     DEF ServiceInv, ServiceTypeOK, Working, Creating, Quiet
<1>10. InFlight'
  BY <1>1, <1>2, <1>3, Hands, Resting, KeysAreKeys
     DEF ServiceInv, ServiceTypeOK, InFlight, Uploading, KvExpired, Quiet, Cleaned
<1>11. Stored'
  BY <1>1, <1>2, <1>3, Hands, Resting, KeysAreKeys
     DEF ServiceInv, ServiceTypeOK, Stored, KvExpired, Quiet, Cleaned
<1>12. RowsAreStored'
  BY <1>1, <1>2, <1>3, Resting
     DEF ServiceInv, ServiceTypeOK, RowsAreStored, KvExpired, Quiet, Cleaned, Records, Working,
         Ringing
<1>13. Listed'
  BY <1>1, <1>2, <1>3, Resting, Dates
     DEF ServiceInv, ServiceTypeOK, Listed, Offers, Kept, KvExpired, Quiet, Cleaned, Records,
         Dating, Dated, Ringing
<1>14. SpaceBounded'
  BY <1>1, <1>2, <1>3, Hands, Resting DEF ServiceInv, ServiceTypeOK, SpaceBounded, Cleaned
<1>15. CleanupIsScheduled'
  BY <1>1, <1>2, <1>3, OfficeTimes, Resting, Dates
     DEF ServiceInv, ServiceTypeOK, CleanupIsScheduled, Greatest, Quiet, Cleaned, Never
<1>. QED BY <1>1, <1>4, <1>5, <1>6, <1>7, <1>8, <1>9, <1>10, <1>11, <1>12, <1>13, <1>14, <1>15
       DEF ServiceInv

\* The directory is told that a job has expired.
LEMMA AlarmClosesKeeps ==
    ASSUME ServiceInv, NEW j \in Job, AlarmCloses(j)
    PROVE  ServiceInv'
<1>1. /\ office' = office /\ kv' = kv /\ desk' = desk /\ told' = told /\ drawn' = drawn
      /\ faults' = faults
      /\ bell[j].at = "close"
  BY DEF AlarmCloses
<1>2. Quiet /\ IInv'
  BY QuietDirectory DEF ServiceInv, AlarmCloses, vars
<1>3. PICK a \in Activity :
        /\ bell' = [bell EXCEPT ![j] = a]
        /\ a.at = "erase" /\ a.batch = bell[j].batch /\ a # NoRequest
  BY Resting DEF ServiceInv, ServiceTypeOK, AlarmCloses, Activity, Steps
<1>4. ServiceTypeOK'
  BY <1>1, <1>2, <1>3, Resting DEF ServiceInv, ServiceTypeOK, TypeOK, IInv, Good, Quiet
<1>5. Created'
  BY <1>1, <1>2, <1>3, Resting DEF ServiceInv, ServiceTypeOK, Created, Creating, Quiet
<1>6. Dating'
  BY <1>1, <1>2, <1>3, Resting
     DEF ServiceInv, ServiceTypeOK, Dating, Created, Creating, Dated, KvExpired, Quiet
<1>7. Records'
  BY <1>1, <1>2, <1>3, Resting DEF ServiceInv, ServiceTypeOK, Records, Created, Creating, Quiet
<1>8. Ringing'
  BY <1>1, <1>2, <1>3, Resting DEF ServiceInv, ServiceTypeOK, Ringing, Quiet
<1>9. Working'
  BY <1>1, <1>2, <1>3, Resting, KeysAreKeys
     DEF ServiceInv, ServiceTypeOK, Working, Creating, Quiet
<1>10. InFlight'
  BY <1>1, <1>2, <1>3, Resting, KeysAreKeys
     DEF ServiceInv, ServiceTypeOK, InFlight, Uploading, KvExpired, Quiet
<1>11. Stored'
  BY <1>1, <1>2, <1>3, Resting, KeysAreKeys
     DEF ServiceInv, ServiceTypeOK, Stored, KvExpired, Quiet
<1>12. RowsAreStored'
  BY <1>1, <1>2, <1>3, Resting DEF ServiceInv, ServiceTypeOK, RowsAreStored, KvExpired, Quiet
<1>13. Listed'
  BY <1>1, <1>2, <1>3, Resting, Dates
     DEF ServiceInv, ServiceTypeOK, Listed, Offers, Kept, KvExpired, Quiet
<1>14. SpaceBounded'
  BY <1>1, <1>2, <1>3, Resting DEF ServiceInv, ServiceTypeOK, SpaceBounded
<1>15. CleanupIsScheduled'
  BY <1>1, <1>2, <1>3, Resting, Dates
     DEF ServiceInv, ServiceTypeOK, CleanupIsScheduled, Greatest, Quiet
<1>. QED BY <1>2, <1>4, <1>5, <1>6, <1>7, <1>8, <1>9, <1>10, <1>11, <1>12, <1>13, <1>14, <1>15
       DEF ServiceInv

\* The coordinator of an expired job is erased.
LEMMA AlarmErasesKeeps ==
    ASSUME ServiceInv, NEW j \in Job, AlarmErases(j)
    PROVE  ServiceInv'
<1>1. Quiet /\ IInv'
  BY QuietDirectory DEF ServiceInv, AlarmErases, vars
<1>2. /\ kv' = kv /\ desk' = desk /\ told' = told /\ drawn' = drawn /\ faults' = faults
      /\ office' = [office EXCEPT ![j] = NoOffice] /\ bell' = [bell EXCEPT ![j] = NoRequest]
      /\ office[j].state # "ABSENT" /\ office[j].expires <= now
  BY Resting DEF ServiceInv, Ringing, AlarmErases
<1>3. j \in told => KvExpired(j)
  BY <1>2 DEF ServiceInv, Dating, Dated, KvExpired
<1>4. ServiceTypeOK'
  BY <1>1, <1>2, <1>3, Resting, Nobody DEF ServiceInv, ServiceTypeOK, TypeOK, IInv, Good, Quiet
<1>5. Created'
  BY <1>1, <1>2, <1>3, Resting, Nobody DEF ServiceInv, ServiceTypeOK, Created, Creating, Quiet
<1>6. Dating'
  BY <1>1, <1>2, <1>3, Resting, Nobody
     DEF ServiceInv, ServiceTypeOK, Dating, Created, Creating, Dated, KvExpired, Quiet
<1>7. Records'
  BY <1>1, <1>2, <1>3, Resting, Nobody
     DEF ServiceInv, ServiceTypeOK, Records, Created, Creating, Quiet
<1>8. Ringing'
  BY <1>1, <1>2, <1>3, Resting, Nobody DEF ServiceInv, ServiceTypeOK, Ringing, Quiet
<1>9. Working'
  BY <1>1, <1>2, <1>3, Resting, Nobody, KeysAreKeys
     DEF ServiceInv, ServiceTypeOK, Working, Creating, Quiet
<1>10. InFlight'
  BY <1>1, <1>2, <1>3, Resting, Nobody, KeysAreKeys
     DEF ServiceInv, ServiceTypeOK, InFlight, Uploading, KvExpired, Quiet
<1>11. Stored'
  BY <1>1, <1>2, <1>3, Resting, Nobody, KeysAreKeys
     DEF ServiceInv, ServiceTypeOK, Stored, KvExpired, Quiet, Records
<1>12. RowsAreStored'
  BY <1>1, <1>2, <1>3, Resting, Nobody
     DEF ServiceInv, ServiceTypeOK, RowsAreStored, KvExpired, Quiet
<1>13. Listed'
  BY <1>1, <1>2, <1>3, Resting, Nobody, Dates
     DEF ServiceInv, ServiceTypeOK, Listed, Offers, Kept, KvExpired, Quiet
<1>14. SpaceBounded'
  BY <1>1, <1>2, <1>3, ServiceAssumption, Resting, Nobody
     DEF ServiceInv, ServiceTypeOK, SpaceBounded
<1>15. CleanupIsScheduled'
  BY <1>1, <1>2, <1>3, Resting, Nobody, Dates
     DEF ServiceInv, ServiceTypeOK, CleanupIsScheduled, Greatest, Quiet
<1>. QED BY <1>1, <1>4, <1>5, <1>6, <1>7, <1>8, <1>9, <1>10, <1>11, <1>12, <1>13, <1>14, <1>15
       DEF ServiceInv

-----------------------------------------------------------------------------
(* Faults and time.                                                        *)

\* A request dies where it waits.
LEMMA AbandonedKeeps ==
    ASSUME ServiceInv, NEW r \in Request, Abandoned(r)
    PROVE  ServiceInv'
<1>1. Quiet /\ IInv'
  BY QuietDirectory DEF ServiceInv, Abandoned, vars
<1>2. /\ office' = office /\ kv' = kv /\ bell' = bell /\ told' = told /\ drawn' = drawn
      /\ faults' = faults + 1 /\ faults' \in 0..MaxFaults
      /\ desk' = [desk EXCEPT ![r] = NoRequest]
  BY ServiceAssumption DEF ServiceInv, ServiceTypeOK, Abandoned, Done
<1>3. ServiceTypeOK'
  BY <1>1, <1>2, Resting DEF ServiceInv, ServiceTypeOK, TypeOK, IInv, Good, Quiet
<1>4. Created'
  BY <1>1, <1>2, Resting DEF ServiceInv, ServiceTypeOK, Created, Creating, Quiet
<1>5. Dating'
  BY <1>1, <1>2, Resting
     DEF ServiceInv, ServiceTypeOK, Dating, Created, Creating, Dated, KvExpired, Quiet
<1>6. Records'
  BY <1>1, <1>2, Resting DEF ServiceInv, ServiceTypeOK, Records, Created, Creating, Quiet
<1>7. Ringing'
  BY <1>1, <1>2, Resting DEF ServiceInv, ServiceTypeOK, Ringing, Quiet
<1>8. Working'
  BY <1>1, <1>2, Resting, KeysAreKeys DEF ServiceInv, ServiceTypeOK, Working, Creating, Quiet
<1>9. InFlight'
  BY <1>1, <1>2, Resting, KeysAreKeys
     DEF ServiceInv, ServiceTypeOK, InFlight, Uploading, KvExpired, Quiet
<1>10. Stored'
  BY <1>1, <1>2, Resting, KeysAreKeys DEF ServiceInv, ServiceTypeOK, Stored, KvExpired, Quiet
<1>11. RowsAreStored'
  BY <1>1, <1>2, Resting DEF ServiceInv, ServiceTypeOK, RowsAreStored, KvExpired, Quiet
<1>12. Listed'
  BY <1>1, <1>2, Resting, Dates
     DEF ServiceInv, ServiceTypeOK, Listed, Offers, Kept, KvExpired, Quiet
<1>13. SpaceBounded'
  BY <1>1, <1>2, Resting DEF ServiceInv, ServiceTypeOK, SpaceBounded
<1>14. CleanupIsScheduled'
  BY <1>1, <1>2, Resting, Dates
     DEF ServiceInv, ServiceTypeOK, CleanupIsScheduled, Greatest, Quiet
<1>. QED BY <1>1, <1>3, <1>4, <1>5, <1>6, <1>7, <1>8, <1>9, <1>10, <1>11, <1>12, <1>13, <1>14
       DEF ServiceInv

\* An alarm handler dies and is due at once.
LEMMA AlarmFailsKeeps ==
    ASSUME ServiceInv, NEW j \in Job, AlarmFails(j)
    PROVE  ServiceInv'
<1>1. Quiet /\ IInv'
  BY QuietDirectory DEF ServiceInv, AlarmFails, vars
<1>2. /\ kv' = kv /\ desk' = desk /\ told' = told /\ drawn' = drawn
      /\ faults' = faults + 1 /\ faults' \in 0..MaxFaults
      /\ bell' = [bell EXCEPT ![j] = NoRequest] /\ bell[j] # NoRequest
      /\ office[j] \in Office /\ office[j].state # "ABSENT" /\ now \in Nat \cup {Never}
      /\ now # Never
  BY ServiceAssumption, Dates DEF ServiceInv, ServiceTypeOK, Ringing, AlarmFails, Never
<1>3. PICK o \in Office :
        /\ office' = [office EXCEPT ![j] = o]
        /\ SameHoldings(office[j], o)
        /\ o.wake = now /\ o.state = office[j].state
  <2>. DEFINE p == [office[j] EXCEPT !.wake = now]
  <2>1. office' = [office EXCEPT ![j] = p]
    BY DEF AlarmFails
  <2>2. p \in Office /\ p.wake = now /\ p.state = office[j].state /\ SameHoldings(office[j], p)
    BY <1>2, AlarmSet
  <2>. HIDE DEF p
  <2>. QED BY <2>1, <2>2
<1>4. ServiceTypeOK'
  BY <1>1, <1>2, <1>3, Resting DEF ServiceInv, ServiceTypeOK, TypeOK, IInv, Good, Quiet
<1>5. Created'
  BY <1>1, <1>2, <1>3, Resting
     DEF ServiceInv, ServiceTypeOK, Created, Creating, Quiet, SameHoldings
<1>6. Dating'
  BY <1>1, <1>2, <1>3, Resting
     DEF ServiceInv, ServiceTypeOK, Dating, Created, Creating, Dated, KvExpired, Quiet,
         SameHoldings
<1>7. Records'
  BY <1>1, <1>2, <1>3, Resting
     DEF ServiceInv, ServiceTypeOK, Records, Created, Creating, Quiet, SameHoldings
<1>8. Ringing'
  BY <1>1, <1>2, <1>3, Resting DEF ServiceInv, ServiceTypeOK, Ringing, Quiet, SameHoldings
<1>9. Working'
  BY <1>1, <1>2, <1>3, Resting, KeysAreKeys
     DEF ServiceInv, ServiceTypeOK, Working, Creating, Quiet
<1>10. InFlight'
  BY <1>1, <1>2, <1>3, Resting, KeysAreKeys
     DEF ServiceInv, ServiceTypeOK, InFlight, Uploading, KvExpired, Quiet, SameHoldings
<1>11. Stored'
  BY <1>1, <1>2, <1>3, Resting, KeysAreKeys
     DEF ServiceInv, ServiceTypeOK, Stored, KvExpired, Quiet, SameHoldings
<1>12. RowsAreStored'
  BY <1>1, <1>2, <1>3, Resting
     DEF ServiceInv, ServiceTypeOK, RowsAreStored, KvExpired, Quiet, SameHoldings
<1>13. Listed'
  BY <1>1, <1>2, <1>3, Resting, Dates
     DEF ServiceInv, ServiceTypeOK, Listed, Offers, Kept, KvExpired, Quiet, SameHoldings
<1>14. SpaceBounded'
  BY <1>1, <1>2, <1>3, Resting DEF ServiceInv, ServiceTypeOK, SpaceBounded, SameHoldings
<1>15. CleanupIsScheduled'
  BY <1>1, <1>2, <1>3, OfficeTimes, Resting, Dates
     DEF ServiceInv, ServiceTypeOK, CleanupIsScheduled, Greatest, Quiet, SameHoldings
<1>. QED BY <1>1, <1>4, <1>5, <1>6, <1>7, <1>8, <1>9, <1>10, <1>11, <1>12, <1>13, <1>14, <1>15
       DEF ServiceInv

\* The directory's own alarm.
LEMMA DirectoryAlarmKeeps ==
    ASSUME ServiceInv, DirectoryAlarm
    PROVE  ServiceInv'
<1>1. Quiet /\ IInv'
  BY QuietDirectory DEF ServiceInv, DirectoryAlarm, vars
<1>2. /\ office' = office /\ kv' = kv /\ desk' = desk /\ bell' = bell /\ told' = told
      /\ drawn' = drawn /\ faults' = faults
  BY DEF DirectoryAlarm, service
<1>3. ServiceTypeOK'
  BY <1>1, <1>2 DEF ServiceInv, ServiceTypeOK, TypeOK, IInv, Good, Quiet
<1>4. Created'
  BY <1>1, <1>2 DEF ServiceInv, ServiceTypeOK, Created, Creating, Quiet
<1>5. Dating'
  BY <1>1, <1>2
     DEF ServiceInv, ServiceTypeOK, Dating, Created, Creating, Dated, KvExpired, Quiet
<1>6. Records'
  BY <1>1, <1>2 DEF ServiceInv, ServiceTypeOK, Records, Created, Creating, Quiet
<1>7. Ringing'
  BY <1>1, <1>2 DEF ServiceInv, ServiceTypeOK, Ringing, Quiet
<1>8. Working'
  BY <1>1, <1>2, KeysAreKeys DEF ServiceInv, ServiceTypeOK, Working, Creating, Quiet
<1>9. InFlight'
  BY <1>1, <1>2, KeysAreKeys
     DEF ServiceInv, ServiceTypeOK, InFlight, Uploading, KvExpired, Quiet
<1>10. Stored'
  BY <1>1, <1>2, KeysAreKeys DEF ServiceInv, ServiceTypeOK, Stored, KvExpired, Quiet
<1>11. RowsAreStored'
  BY <1>1, <1>2 DEF ServiceInv, ServiceTypeOK, RowsAreStored, KvExpired, Quiet
<1>12. Listed'
  BY <1>1, <1>2, Dates DEF ServiceInv, ServiceTypeOK, Listed, Offers, Kept, KvExpired, Quiet
<1>13. SpaceBounded'
  BY <1>1, <1>2 DEF ServiceInv, ServiceTypeOK, SpaceBounded
<1>14. CleanupIsScheduled'
  BY <1>1, <1>2, Dates DEF ServiceInv, ServiceTypeOK, CleanupIsScheduled, Greatest, Quiet
<1>. QED BY <1>1, <1>3, <1>4, <1>5, <1>6, <1>7, <1>8, <1>9, <1>10, <1>11, <1>12, <1>13, <1>14
       DEF ServiceInv

\* Time passes, and storage drops what has expired.
LEMMA TimePassesKeeps ==
    ASSUME ServiceInv, TimePasses
    PROVE  ServiceInv'
<1>1. /\ IInv' /\ now' = now + 1 /\ now \in Nat /\ db' = db
      /\ office' = office /\ desk' = desk /\ bell' = bell /\ told' = told /\ drawn' = drawn
      /\ faults' = faults
  BY TickGood, Dates DEF ServiceInv, TimePasses, Tick
<1>2. \A j \in Job : db.births[j].at + Lifetime <= now => db.births[j].at + Lifetime <= now'
  BY <1>1, SizesAssumption, Dates DEF ServiceInv, KvExpired, Never
<1>3. kv' = {key \in kv : ~(db.births[key.job].at + Lifetime <= now')}
  BY <1>1, SizesAssumption, Dates
     DEF ServiceInv, ServiceTypeOK, Key, TimePasses, KvExpired, Never
<1>4. ServiceTypeOK'
  BY <1>1, <1>2, <1>3, Dates DEF ServiceInv, ServiceTypeOK, TypeOK, IInv, Good
<1>5. Created'
  BY <1>1, <1>2, <1>3, Dates DEF ServiceInv, ServiceTypeOK, Created, Creating
<1>6. Dating'
  BY <1>1, <1>2, <1>3, Dates
     DEF ServiceInv, ServiceTypeOK, Dating, Created, Creating, Dated, KvExpired
<1>7. Records'
  BY <1>1, <1>2, <1>3, Dates DEF ServiceInv, ServiceTypeOK, Records, Created, Creating
<1>8. Ringing'
  BY <1>1, <1>2, <1>3, OfficeTimes, Dates DEF ServiceInv, ServiceTypeOK, Ringing
<1>9. Working'
  BY <1>1, <1>2, <1>3, Dates, KeysAreKeys DEF ServiceInv, ServiceTypeOK, Working, Creating
<1>10. InFlight'
  BY <1>1, <1>2, <1>3, Dates, KeysAreKeys
     DEF ServiceInv, ServiceTypeOK, InFlight, Uploading, KvExpired, Working, Creating
<1>11. Stored'
  BY <1>1, <1>2, <1>3, Dates, KeysAreKeys DEF ServiceInv, ServiceTypeOK, Stored, KvExpired
<1>12. RowsAreStored'
  BY <1>1, <1>2, <1>3, Hands, Dates
     DEF ServiceInv, ServiceTypeOK, RowsAreStored, KvExpired, Records
<1>13. Listed'
  BY <1>1, <1>2, <1>3, Dates DEF ServiceInv, ServiceTypeOK, Listed, Offers, Kept, KvExpired
<1>14. SpaceBounded'
  BY <1>1, <1>2, <1>3, Dates DEF ServiceInv, ServiceTypeOK, SpaceBounded
<1>15. CleanupIsScheduled'
  BY <1>1, <1>2, <1>3, OfficeTimes, Dates
     DEF ServiceInv, ServiceTypeOK, CleanupIsScheduled, Greatest
<1>. QED BY <1>1, <1>4, <1>5, <1>6, <1>7, <1>8, <1>9, <1>10, <1>11, <1>12, <1>13, <1>14, <1>15
       DEF ServiceInv

-----------------------------------------------------------------------------
(* Every step, and what follows.                                           *)

LEMMA ServiceInitGood == ServiceInit => ServiceInv
<1>. SUFFICES ASSUME ServiceInit PROVE ServiceInv
  OBVIOUS
<1>1. IInv /\ db.listed = {}
  BY InitGood DEF ServiceInit, Init
<1>2. /\ \A j \in Job : office[j] = NoOffice /\ bell[j] = NoRequest
      /\ \A r \in Request : desk[r] = NoRequest
      /\ kv = {} /\ told = {} /\ drawn = 0 /\ faults = 0
  BY DEF ServiceInit
<1>3. ServiceTypeOK
  <2>1. TypeOK
    BY <1>1 DEF IInv, Good, TypeOK
  <2>. QED BY <2>1, Nobody, Resting, ServiceAssumption DEF ServiceTypeOK, ServiceInit
<1>4. Created /\ Dating
  BY <1>2, Resting DEF Created, Dating, Creating
<1>5. Records
  BY <1>2, Nobody DEF Records
<1>6. Ringing /\ Working /\ InFlight
  BY <1>2, Resting DEF Ringing, Working, InFlight, Uploading, Creating
<1>7. Stored /\ RowsAreStored
  BY <1>2, Nobody DEF Stored, RowsAreStored
<1>8. Listed
  BY <1>1, Dates DEF Listed, Offers
<1>9. SpaceBounded /\ CleanupIsScheduled
  BY <1>2, Nobody, ServiceAssumption DEF SpaceBounded, CleanupIsScheduled
<1>. QED BY <1>1, <1>3, <1>4, <1>5, <1>6, <1>7, <1>8, <1>9 DEF ServiceInv

LEMMA ServiceStutter == ServiceInv /\ UNCHANGED serviceVars => ServiceInv'
<1>. SUFFICES ASSUME ServiceInv, UNCHANGED serviceVars PROVE ServiceInv'
  OBVIOUS
<1>1. UNCHANGED vars /\ UNCHANGED service
  BY DEF serviceVars
<1>2. IInv'
  BY <1>1, QuietDirectory DEF ServiceInv
<1>3. /\ db' = db /\ alarm' = alarm /\ now' = now
      /\ office' = office /\ kv' = kv /\ desk' = desk /\ bell' = bell /\ told' = told
      /\ drawn' = drawn /\ faults' = faults
  BY <1>1 DEF vars, service
<1>4. ServiceTypeOK' /\ Created' /\ Dating'
  BY <1>3 DEF ServiceInv, ServiceTypeOK, TypeOK, Created, Creating, Dating, Dated, KvExpired
<1>5. Records' /\ Ringing' /\ Working' /\ InFlight'
  BY <1>3 DEF ServiceInv, Records, Ringing, Working, Creating, InFlight, Uploading, KvExpired
<1>6. Stored' /\ RowsAreStored'
  BY <1>3 DEF ServiceInv, Stored, RowsAreStored, KvExpired
<1>7. Listed' /\ SpaceBounded' /\ CleanupIsScheduled'
  BY <1>3 DEF ServiceInv, Listed, Offers, Kept, KvExpired, SpaceBounded, CleanupIsScheduled
<1>. QED BY <1>2, <1>4, <1>5, <1>6, <1>7 DEF ServiceInv

LEMMA ServiceNextGood == ServiceInv /\ [ServiceNext]_serviceVars => ServiceInv'
<1>. SUFFICES ASSUME ServiceInv, ServiceNext PROVE ServiceInv'
  BY ServiceStutter
<1>1. ASSUME NEW r \in Request, RequestBegins(r) PROVE ServiceInv'
  BY <1>1, CreateBeginsKeeps, UploadBeginsKeeps, ResultBeginsKeeps, CancelBeginsKeeps
     DEF RequestBegins
<1>2. ASSUME NEW r \in Request, RequestProceeds(r) PROVE ServiceInv'
  <2>1. CASE \E origin \in Origins : \/ \E j \in Job : CreateAdmits(r, j, origin)
                                     \/ CreateRefused(r, origin)
    BY <2>1, CreateAdmitsKeeps, CreateRefusedKeeps
  <2>2. CASE Initialize(r) \/ CreateRollsBack(r) \/ CreateAnswers(r)
    BY <2>2, InitializeKeeps, CreateRollsBackKeeps, CreateAnswersKeeps
  <2>3. CASE Put(r) \/ Commit(r) \/ CommitRefused(r) \/ Discard(r) \/ Ready(r)
    BY <2>3, PutKeeps, CommitKeeps, CommitRefusedKeeps, DiscardKeeps, ReadyKeeps
  <2>4. CASE ResultDecides(r) \/ ResultRejected(r) \/ ResultDropped(r)
    BY <2>4, ResultDecidesKeeps, ResultRejectedKeeps, ResultDroppedKeeps
  <2>5. CASE CancelCleans(r) \/ Closes(r)
    BY <2>5, CancelCleansKeeps, ClosesKeeps
  <2>. QED BY <1>2, <2>1, <2>2, <2>3, <2>4, <2>5 DEF RequestProceeds
<1>3. ASSUME NEW r \in Request, InitializeFails(r) \/ PutFails(r) \/ Abandoned(r)
      PROVE  ServiceInv'
  BY <1>3, InitializeFailsKeeps, PutFailsKeeps, AbandonedKeeps
<1>4. ASSUME NEW j \in Job, AlarmProceeds(j) \/ AlarmFails(j) PROVE ServiceInv'
  BY <1>4, AlarmRingsKeeps, AlarmCleansKeeps, AlarmClosesKeeps, AlarmErasesKeeps, AlarmFailsKeeps
     DEF AlarmProceeds
<1>5. ASSUME NEW j \in Job, NEW l \in Lease, Granted(j, l) \/ Ended(j, l) PROVE ServiceInv'
  BY <1>5, GrantedKeeps, EndedKeeps
<1>6. CASE DirectoryAlarm \/ TimePasses
  BY <1>6, DirectoryAlarmKeeps, TimePassesKeeps
<1>. QED BY <1>1, <1>2, <1>3, <1>4, <1>5, <1>6 DEF ServiceNext

THEOREM ServiceInductive == ServiceSpec => []ServiceInv
<1>. QED BY ServiceInitGood, ServiceNextGood, PTL DEF ServiceSpec

\* Coordinators, storage, requests and alarm handlers keep their types, whatever
\* fails where.
THEOREM ServiceTypeCorrect == ServiceSpec => []ServiceTypeOK
<1>1. ServiceInv => ServiceTypeOK
  BY DEF ServiceInv
<1>. QED BY <1>1, ServiceInductive, PTL

\* An object a live job's row names is stored: the loser of a race of uploads
\* deletes its own object only, and a batch of deletions leaves with its rows.
THEOREM OffersStored == ServiceSpec => []OfferedIsStored
<1>1. ServiceInv => OfferedIsStored
  BY DEF ServiceInv, RowsAreStored, OfferedIsStored
<1>. QED BY <1>1, ServiceInductive, PTL

\* Until something fails, no interleaving of uploads, results, cancellations and
\* alarms leaves an object that neither a row nor a request knows of.
THEOREM NothingStrays == ServiceSpec => []NoStrayArtifact
<1>1. ServiceInv => NoStrayArtifact
  <2>. SUFFICES ASSUME ServiceInv, faults = 0, NEW k \in kv
                PROVE  \/ \E j \in Job : k \in Keys(office[j])
                       \/ \E r \in Request : k \in {desk[r].key} \cup desk[r].batch
                       \/ \E j \in Job : k \in bell[j].batch
    BY Zenon DEF NoStrayArtifact
  <2>. QED BY DEF ServiceInv, Stored
<1>. QED BY <1>1, ServiceInductive, PTL

\* However many proofs are being stored at once, those committed fit in the
\* budget: the sum is read again with the row that adds to it.
THEOREM ProofsFit == ServiceSpec => []ProofSpaceBounded
<1>1. ServiceInv => ProofSpaceBounded
  BY DEF ServiceInv, SpaceBounded, ProofSpaceBounded
<1>. QED BY <1>1, ServiceInductive, PTL

\* The directory offers a job only while its coordinator is open and has its
\* formula, up to the request that is about to close it, expiry and failures.
THEOREM OfferedJobsAreOpen == ServiceSpec => []EligibleIsOpen
<1>1. ServiceInv => EligibleIsOpen
  BY Dates DEF ServiceInv, Listed, Offers, Kept, EligibleIsOpen
<1>. QED BY <1>1, ServiceInductive, PTL

\* A coordinator that exists has an alarm at or before its expiry, or a handler
\* at work, whoever set the alarm last and whatever failed.
THEOREM CleanupScheduled == ServiceSpec => []CleanupIsScheduled
<1>1. ServiceInv => CleanupIsScheduled
  BY DEF ServiceInv
<1>. QED BY <1>1, ServiceInductive, PTL

\* Composed with uploads, cancellations, alarms and crashes, the directory does
\* what it may do on its own, so that whatever is proved of it holds here too.
THEOREM ServiceImplementsDirectory ==
    ASSUME {"rollback", "close"} \subseteq JobEvents
    PROVE  ServiceSpec => Spec
<1>1. ServiceInit => Init
  BY DEF ServiceInit
<1>2. ServiceInv /\ [ServiceNext]_serviceVars => [Next]_vars
  <2>. SUFFICES ASSUME ServiceInv, ServiceNext PROVE Next \/ UNCHANGED vars
    BY DEF serviceVars
  <2>1. ASSUME NEW r \in Request, RequestBegins(r) PROVE Next \/ UNCHANGED vars
    <3>1. CASE \E c \in Challenge : CreateBegins(r, c)
      BY <3>1 DEF CreateBegins, Next, AdmissionStep
    <3>2. ASSUME NEW j \in Job, NEW u \in Uploads, UploadBegins(r, j, u[1], u[2], u[3])
          PROVE  UNCHANGED vars
      BY <3>2 DEF UploadBegins
    <3>3. ASSUME NEW j \in Job, NEW key \in Keys(office[j]), ResultBegins(r, j, key)
          PROVE  UNCHANGED vars
      BY <3>3 DEF ResultBegins
    <3>4. ASSUME NEW j \in Job, CancelBegins(r, j) PROVE UNCHANGED vars
      BY <3>4 DEF CancelBegins
    <3>. QED BY <2>1, <3>1, <3>2, <3>3, <3>4 DEF RequestBegins
  <2>2. ASSUME NEW r \in Request, RequestProceeds(r) PROVE Next \/ UNCHANGED vars
    <3>1. CASE \E origin \in Origins : \/ \E j \in Job : CreateAdmits(r, j, origin)
                                       \/ CreateRefused(r, origin)
      BY <3>1 DEF CreateAdmits, CreateRefused, Next, AdmissionStep
    <3>2. CASE Initialize(r) \/ CreateAnswers(r) \/ Put(r) \/ Commit(r) \/ CommitRefused(r)
               \/ Discard(r) \/ ResultDecides(r) \/ ResultRejected(r) \/ ResultDropped(r)
               \/ CancelCleans(r)
      BY <3>2 DEF Initialize, CreateAnswers, Put, Commit, CommitRefused, Discard, ResultDecides,
                  ResultRejected, ResultDropped, CancelCleans
    <3>3. CASE CreateRollsBack(r) \/ Ready(r) \/ Closes(r)
      <4>1. desk[r].job \in Job
        BY <3>3 DEF CreateRollsBack, Ready, Closes, At, ServiceInv, Working
      <4>. QED BY <3>3, <4>1 DEF CreateRollsBack, Ready, Closes, CloseListing, Next, AdmissionStep
    <3>. QED BY <2>2, <3>1, <3>2, <3>3 DEF RequestProceeds
  <2>3. ASSUME NEW r \in Request, InitializeFails(r) \/ PutFails(r) \/ Abandoned(r)
        PROVE  UNCHANGED vars
    BY <2>3 DEF InitializeFails, PutFails, Abandoned
  <2>4. ASSUME NEW j \in Job, AlarmProceeds(j) \/ AlarmFails(j) PROVE Next \/ UNCHANGED vars
    BY <2>4 DEF AlarmProceeds, AlarmRings, AlarmCleans, AlarmCloses, AlarmErases, AlarmFails,
                Next, AdmissionStep
  <2>5. ASSUME NEW j \in Job, NEW l \in Lease, Granted(j, l) \/ Ended(j, l) PROVE UNCHANGED vars
    BY <2>5 DEF Granted, Ended
  <2>6. CASE DirectoryAlarm \/ TimePasses
    BY <2>6 DEF DirectoryAlarm, TimePasses, Next
  <2>. QED BY <2>1, <2>2, <2>3, <2>4, <2>5, <2>6 DEF ServiceNext
<1>. QED BY <1>1, <1>2, ServiceInductive, PTL DEF ServiceSpec, Spec
=============================================================================
