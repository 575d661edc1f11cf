------------------------- MODULE SwarmDirectory_proofs -------------------------
(***************************************************************************)
(* What holds of SwarmDirectory for every number of jobs, sessions and     *)
(* assignments and every quantum: the tables keep their types, the count   *)
(* of a job's workers is what its live assignments hold and never above    *)
(* the ceiling, the alarm covers every deadline, the scheduler passes no   *)
(* job over for one more than a quantum ahead of it, no origin has more    *)
(* jobs than it may, and a job's ledger is what it started with and what   *)
(* its assignments have cost.                                              *)
(*                                                                         *)
(* Workers are counted as a set of seats and cost as a set of units, so    *)
(* that what an expiry, a report or a reservation does to a sum is a fact  *)
(* about the sizes of disjoint finite sets.                                *)
(***************************************************************************)
EXTENDS SwarmDirectory, FiniteSetTheorems, TLAPS

\* A job in a table was admitted, and so was the job of every assignment.
Admitted(d) ==
    /\ \A j \in d.listed \cup d.created : d.births[j].at # Never
    /\ \A a \in AssignmentId : d.row[a].job \in Job => d.births[d.row[a].job].at # Never

\* The workers counted for a job are those its live assignments hold.
Counted(d) ==
    \A j \in d.listed : d.account[j].assigned = Workers(d, LiveIds(d), j)

Good(d) == d \in Database /\ Admitted(d) /\ Counted(d)

IInv ==
    /\ Good(db)
    /\ alarm \in Nat \cup {Never}
    /\ now \in Nat
    /\ AlarmCoversDeadlines

-----------------------------------------------------------------------------
(* Counting workers.                                                       *)

\* The seats of some assignments are finitely many.
LEMMA SeatsFinite ==
    ASSUME NEW d, NEW ids \in SUBSET AssignmentId, NEW j
    PROVE  IsFiniteSet(Seats(d, ids, j)) /\ Workers(d, ids, j) \in Nat
<1>. MaxAssignments \in Int /\ MaxWorkers \in Int /\ 1 \in Int
  BY SizesAssumption
<1>1. IsFiniteSet(1..MaxAssignments) /\ IsFiniteSet(1..MaxWorkers)
  BY FS_Interval
<1>2. IsFiniteSet(AssignmentId \X (1..MaxWorkers))
  BY <1>1, FS_Product DEF AssignmentId
<1>3. Seats(d, ids, j) \in SUBSET (AssignmentId \X (1..MaxWorkers))
  BY DEF Seats
<1>. QED BY <1>2, <1>3, FS_Subset, FS_CardinalityType DEF Workers

\* The workers of two disjoint sets of assignments add up.
LEMMA WorkersAdd ==
    ASSUME NEW d, NEW A \in SUBSET AssignmentId, NEW B \in SUBSET AssignmentId, NEW j,
           A \cap B = {}
    PROVE  Workers(d, A \cup B, j) = Workers(d, A, j) + Workers(d, B, j)
<1>1. Seats(d, A \cup B, j) = Seats(d, A, j) \cup Seats(d, B, j)
  BY DEF Seats
<1>2. Seats(d, A, j) \cap Seats(d, B, j) = {}
  BY DEF Seats
<1>3. IsFiniteSet(Seats(d, A, j)) /\ IsFiniteSet(Seats(d, B, j))
  BY SeatsFinite
<1>4. Cardinality(Seats(d, A, j) \cap Seats(d, B, j)) = 0
  BY <1>2, FS_EmptySet
<1>5. Workers(d, A, j) \in Nat /\ Workers(d, B, j) \in Nat
  BY SeatsFinite
<1>6. Workers(d, A \cup B, j) =
        Workers(d, A, j) + Workers(d, B, j) - Cardinality(Seats(d, A, j) \cap Seats(d, B, j))
  BY <1>1, <1>3, FS_Union DEF Workers
<1>. QED BY <1>4, <1>5, <1>6

\* Workers depend only on the job and workers columns.
LEMMA WorkersSame ==
    ASSUME NEW d, NEW e, NEW ids \in SUBSET AssignmentId, NEW j,
           \A a \in ids : e.row[a].job = d.row[a].job /\ e.row[a].workers = d.row[a].workers
    PROVE  Workers(e, ids, j) = Workers(d, ids, j)
<1>1. Seats(e, ids, j) = Seats(d, ids, j)
  BY DEF Seats
<1>. QED BY <1>1 DEF Workers

\* One assignment holds its workers for its own job and none for another.
LEMMA WorkersOfOne ==
    ASSUME NEW d, NEW a \in AssignmentId, NEW j, d.row[a].workers \in 0..MaxWorkers
    PROVE  Workers(d, {a}, j) = IF d.row[a].job = j THEN d.row[a].workers ELSE 0
<1>. DEFINE w == d.row[a].workers
<1>. MaxWorkers \in Nat
  BY SizesAssumption
<1>1. CASE d.row[a].job = j
  <2>1. Seats(d, {a}, j) = {a} \X (1..w)
    <3>1. \A n \in 1..MaxWorkers : n <= w <=> n \in 1..w
      OBVIOUS
    <3>2. 1..w \subseteq 1..MaxWorkers
      OBVIOUS
    <3>. HIDE DEF w
    <3>3. Seats(d, {a}, j) = {p \in {a} \X (1..MaxWorkers) : p[2] <= w}
      BY <1>1 DEF Seats, w
    <3>. QED BY <3>1, <3>2, <3>3
  <2>2. IsFiniteSet({a}) /\ Cardinality({a}) = 1
    BY FS_Singleton
  <2>3. IsFiniteSet(1..w) /\ Cardinality(1..w) = w
    <3>1. w \in Int /\ 1 \in Int /\ w >= 0
      OBVIOUS
    <3>2. IsFiniteSet(1..w) /\ Cardinality(1..w) = IF 1 > w THEN 0 ELSE w - 1 + 1
      BY <3>1, FS_Interval
    <3>. QED BY <3>1, <3>2
  <2>4. Cardinality({a} \X (1..w)) = w
    <3>. HIDE DEF w
    <3>1. Cardinality({a} \X (1..w)) = Cardinality({a}) * Cardinality(1..w)
      BY <2>2, <2>3, FS_Product
    <3>2. w \in Nat
      BY DEF w
    <3>. QED BY <2>2, <2>3, <3>1, <3>2
  <2>. QED BY <1>1, <2>1, <2>4 DEF Workers
<1>2. CASE d.row[a].job # j
  <2>1. Seats(d, {a}, j) = {}
    BY <1>2 DEF Seats
  <2>. QED BY <1>2, <2>1, FS_EmptySet DEF Workers
<1>. QED BY <1>1, <1>2

\* No live assignment is for a job that was not admitted.
LEMMA NoWorkersUnborn ==
    ASSUME NEW d, Admitted(d), NEW ids \in SUBSET AssignmentId, NEW j \in Job,
           d.births[j].at = Never
    PROVE  Workers(d, ids, j) = 0
<1>1. Seats(d, ids, j) = {}
  BY DEF Seats, Admitted
<1>. QED BY <1>1, FS_EmptySet DEF Workers

-----------------------------------------------------------------------------
(* The updates keep the tables good.                                       *)

\* The types of the parts of a good database.
LEMMA GoodTypes ==
    ASSUME NEW d, Good(d)
    PROVE  /\ d.births \in [Job -> Birth]
           /\ d.listed \in SUBSET Job
           /\ d.account \in [Job -> Account]
           /\ d.created \in SUBSET Job
           /\ d.row \in [AssignmentId -> AssignmentRow]
           /\ d.replays \in [Challenge -> Nat \cup {Never}]
  BY DEF Good, Database

\* A row's workers, and the live ids.
LEMMA RowWorkers ==
    ASSUME NEW d, Good(d), NEW a \in AssignmentId
    PROVE  d.row[a].workers \in 0..MaxWorkers
  BY GoodTypes DEF AssignmentRow

\* Leaving out some of the live assignments takes their workers away.
LEMMA WorkersLeft ==
    ASSUME NEW d, NEW A \in SUBSET AssignmentId, NEW B \in SUBSET A, NEW j
    PROVE  /\ Workers(d, A \ B, j) = Workers(d, A, j) - Workers(d, B, j)
           /\ Workers(d, A \ B, j) \in Nat /\ Workers(d, A, j) \in Nat
           /\ Workers(d, B, j) \in Nat
<1>1. Workers(d, B \cup (A \ B), j) = Workers(d, B, j) + Workers(d, A \ B, j)
  BY WorkersAdd
<1>2. B \cup (A \ B) = A
  OBVIOUS
<1>3. Workers(d, A \ B, j) \in Nat /\ Workers(d, A, j) \in Nat /\ Workers(d, B, j) \in Nat
  BY SeatsFinite
<1>. QED BY <1>1, <1>2, <1>3

\* Expiry gives back exactly what the assignments past their deadline hold.
LEMMA ExpireGood ==
    ASSUME NEW d, Good(d)
    PROVE  Good(ExpireAssignments(d))
<1>. DEFINE e == ExpireAssignments(d)
            due == DueIds(d)
            unused == {a \in due : d.row[a].status = "PENDING"}
<1>1. due \in SUBSET LiveIds(d) /\ LiveIds(d) \in SUBSET AssignmentId /\ unused \in SUBSET AssignmentId
  BY DEF DueIds, LiveIds
<1>2. /\ e.births = d.births /\ e.listed = d.listed /\ e.created = d.created
      /\ e.replays = d.replays
      /\ e = [d EXCEPT !.account = e.account, !.row = e.row]
  BY DEF ExpireAssignments, Good, Database
<1>3. e.row = [a \in AssignmentId |->
                 IF a \in due THEN [d.row[a] EXCEPT !.status = "EXPIRED"] ELSE d.row[a]]
  BY DEF ExpireAssignments, Good, Database
<1>4. e.account = [j \in Job |->
             IF j \in d.listed
             THEN [d.account[j] EXCEPT
                     !.virtual = NotNegative(@ - Quantum * Workers(d, unused, j)),
                     !.assigned = NotNegative(@ - Workers(d, due, j))]
             ELSE d.account[j]]
  BY DEF ExpireAssignments, Good, Database
<1>. HIDE DEF e, due, unused
<1>5. e.row \in [AssignmentId -> AssignmentRow]
      /\ \A a \in AssignmentId : e.row[a].job = d.row[a].job /\ e.row[a].workers = d.row[a].workers
  BY <1>3, GoodTypes DEF AssignmentRow
<1>6. LiveIds(e) = LiveIds(d) \ due
  BY <1>1, <1>3, GoodTypes DEF LiveIds, Live, AssignmentRow
<1>7. ASSUME NEW j \in d.listed
      PROVE  /\ Workers(e, LiveIds(e), j) = d.account[j].assigned - Workers(d, due, j)
             /\ Workers(e, LiveIds(e), j) \in Nat
             /\ Workers(d, due, j) \in Nat /\ Workers(d, unused, j) \in Nat
  <2>1. Workers(d, LiveIds(d) \ due, j) = Workers(d, LiveIds(d), j) - Workers(d, due, j)
        /\ Workers(d, LiveIds(d) \ due, j) \in Nat /\ Workers(d, due, j) \in Nat
    BY <1>1, WorkersLeft
  <2>2. Workers(e, LiveIds(d) \ due, j) = Workers(d, LiveIds(d) \ due, j)
    BY <1>1, <1>5, WorkersSame
  <2>3. d.account[j].assigned = Workers(d, LiveIds(d), j)
    BY DEF Good, Counted
  <2>4. Workers(d, unused, j) \in Nat
    BY <1>1, SeatsFinite
  <2>. QED BY <1>6, <2>1, <2>2, <2>3, <2>4
<1>8. ASSUME NEW j \in d.listed
      PROVE  e.account[j] \in Account /\ e.account[j].assigned = Workers(e, LiveIds(e), j)
  <2>1. d.account[j] \in Account /\ j \in Job
    BY GoodTypes
  <2>2. Quantum * Workers(d, unused, j) \in Int
    BY <1>7, SizesAssumption
  <2>3. NotNegative(d.account[j].virtual - Quantum * Workers(d, unused, j)) \in Nat
    BY <2>1, <2>2 DEF NotNegative, Greatest, Account
  <2>4. NotNegative(d.account[j].assigned - Workers(d, due, j)) = Workers(e, LiveIds(e), j)
        /\ Workers(e, LiveIds(e), j) \in 0..MaxWorkers
    BY <2>1, <1>7, SizesAssumption DEF NotNegative, Greatest, Account
  <2>. QED BY <1>4, <2>1, <2>3, <2>4 DEF Account
<1>9. e.account \in [Job -> Account]
  <2>1. ASSUME NEW j \in Job, j \notin d.listed
        PROVE  e.account[j] \in Account
    <3>1. e.account[j] = d.account[j]
      BY <1>4, <2>1
    <3>. QED BY <3>1, GoodTypes
  <2>2. \A j \in Job : e.account[j] \in Account
    BY <1>8, <2>1
  <2>3. e.account = [j \in Job |-> e.account[j]]
    BY <1>4, Zenon
  <2>. QED BY <2>2, <2>3
<1>10. e \in Database
  BY <1>2, <1>5, <1>9 DEF Database, Good
<1>11. Admitted(e) /\ Counted(e)
  BY <1>2, <1>5, <1>8 DEF Admitted, Counted, Good
<1>. QED BY <1>10, <1>11 DEF Good, e

\* A report gives back the workers of its assignment, and no others.
LEMMA ReconcileGood ==
    ASSUME NEW d, Good(d), NEW a \in AssignmentId, NEW actual \in Nat
    PROVE  Good(Reconcile(d, a, actual))
<1>1. CASE ~Live(d, a)
  BY <1>1 DEF Reconcile
<1>2. CASE Live(d, a)
  <2>. DEFINE e == Reconcile(d, a, actual)
              w == d.row[a].workers
  <2>1. /\ e.births = d.births /\ e.listed = d.listed /\ e.created = d.created
        /\ e.replays = d.replays
        /\ e = [d EXCEPT !.account = e.account, !.row = e.row]
    BY <1>2 DEF Reconcile, Good, Database
  <2>2. e.row = [d.row EXCEPT ![a] = [@ EXCEPT !.status = "COMPLETE", !.actual = actual]]
    BY <1>2 DEF Reconcile, Good, Database
  <2>3. e.account = [j \in Job |->
              IF j = d.row[a].job /\ j \in d.listed
              THEN SettledAccount(d.account[j], d.row[a], actual) ELSE d.account[j]]
    BY <1>2 DEF Reconcile, Good, Database
  <2>. HIDE DEF e
  <2>4. /\ e.row \in [AssignmentId -> AssignmentRow]
        /\ \A b \in AssignmentId : e.row[b].job = d.row[b].job /\ e.row[b].workers = d.row[b].workers
    <3>1. d.row \in [AssignmentId -> AssignmentRow]
      BY GoodTypes
    <3>2. [d.row[a] EXCEPT !.status = "COMPLETE", !.actual = actual] \in AssignmentRow
      BY <3>1 DEF AssignmentRow
    <3>. QED BY <2>2, <3>1, <3>2 DEF AssignmentRow
  <2>5. LiveIds(e) = LiveIds(d) \ {a} /\ {a} \in SUBSET LiveIds(d) /\ LiveIds(d) \in SUBSET AssignmentId
    BY <1>2, <2>2, GoodTypes DEF LiveIds, Live, AssignmentRow
  <2>6. ASSUME NEW j \in d.listed
        PROVE  /\ Workers(e, LiveIds(e), j) =
                    d.account[j].assigned - (IF d.row[a].job = j THEN w ELSE 0)
               /\ Workers(e, LiveIds(e), j) \in Nat
    <3>1. Workers(d, LiveIds(d) \ {a}, j) = Workers(d, LiveIds(d), j) - Workers(d, {a}, j)
          /\ Workers(d, LiveIds(d) \ {a}, j) \in Nat
      BY <2>5, WorkersLeft
    <3>2. Workers(e, LiveIds(d) \ {a}, j) = Workers(d, LiveIds(d) \ {a}, j)
      BY <2>4, <2>5, WorkersSame
    <3>3. Workers(d, {a}, j) = IF d.row[a].job = j THEN w ELSE 0
      BY RowWorkers, WorkersOfOne
    <3>4. d.account[j].assigned = Workers(d, LiveIds(d), j)
      BY DEF Good, Counted
    <3>. QED BY <2>5, <3>1, <3>2, <3>3, <3>4
  <2>7. ASSUME NEW j \in d.listed
        PROVE  e.account[j] \in Account /\ e.account[j].assigned = Workers(e, LiveIds(e), j)
    <3>1. d.account[j] \in Account /\ j \in Job /\ w \in 0..MaxWorkers
      BY GoodTypes, RowWorkers
    <3>2. CASE j # d.row[a].job
      BY <2>3, <2>6, <3>1, <3>2, SizesAssumption DEF Account
    <3>3. CASE j = d.row[a].job
      <4>1. e.account[j] = [d.account[j] EXCEPT
                  !.virtual = ReconciledVirtualRuntime(@, Quantum * w, actual),
                  !.assigned = NotNegative(@ - w)]
        BY <2>3, <3>1, <3>3 DEF SettledAccount
      <4>2. Quantum * w \in Int
        BY <3>1, SizesAssumption
      <4>3. ReconciledVirtualRuntime(d.account[j].virtual, Quantum * w, actual) \in Nat
        BY <3>1, <4>2 DEF ReconciledVirtualRuntime, NotNegative, Greatest, Least, Account
      <4>4. NotNegative(d.account[j].assigned - w) = Workers(e, LiveIds(e), j)
            /\ Workers(e, LiveIds(e), j) \in 0..MaxWorkers
        BY <2>6, <3>1, <3>3, SizesAssumption DEF NotNegative, Greatest, Account
      <4>. QED BY <3>1, <4>1, <4>3, <4>4 DEF Account
    <3>. QED BY <3>2, <3>3
  <2>8. e.account \in [Job -> Account]
    <3>1. \A j \in Job \ d.listed : e.account[j] \in Account
      BY <2>3, GoodTypes
    <3>2. \A j \in Job : e.account[j] \in Account
      BY <2>7, <3>1
    <3>3. e.account = [j \in Job |-> e.account[j]]
      BY <2>3, Zenon
    <3>. QED BY <3>2, <3>3
  <2>9. e \in Database
    BY <2>1, <2>4, <2>8 DEF Database, Good
  <2>10. Admitted(e) /\ Counted(e)
    BY <2>1, <2>4, <2>7 DEF Admitted, Counted, Good
  <2>. QED BY <2>9, <2>10 DEF Good, e
<1>. QED BY <1>1, <1>2

\* What is granted fits under the ceiling of a job that has a free seat.
LEMMA GrantFits ==
    ASSUME NEW account \in Account, account.assigned < MaxWorkers, NEW offer \in 1..MaxOffer
    PROVE  /\ GrantedWorkers(account, offer) \in 1..MaxWorkers
           /\ account.assigned + GrantedWorkers(account, offer) <= MaxWorkers
  BY SizesAssumption DEF Account, GrantedWorkers, Greatest, Least

\* A reservation that fits under the ceiling counts its workers.
LEMMA ReserveGood ==
    ASSUME NEW d, Good(d), now \in Nat, NEW a \in AssignmentId, d.row[a].status = "NONE",
           NEW s \in Session, NEW j \in d.listed, NEW w \in 1..MaxWorkers,
           d.account[j].assigned + w <= MaxWorkers
    PROVE  Good(Reserve(d, a, s, j, w))
<1>. DEFINE e == Reserve(d, a, s, j, w)
            r == [status |-> "PENDING", job |-> j, session |-> s, workers |-> w,
                  actual |-> 0, assigned |-> now, expires |-> now + Activation]
            acc == [d.account[j] EXCEPT !.virtual = @ + Quantum * w, !.assigned = @ + w,
                                        !.serviced = now]
<1>1. /\ e.births = d.births /\ e.listed = d.listed /\ e.created = d.created
      /\ e.replays = d.replays
      /\ e = [d EXCEPT !.account = e.account, !.row = e.row]
  BY DEF Reserve, Good, Database
<1>2. e.row = [d.row EXCEPT ![a] = r]
  BY DEF Reserve, Good, Database
<1>3. e.account = [d.account EXCEPT ![j] = acc]
  <2>1. e = [d EXCEPT !.row[a] = r, !.account[j] = acc]
    BY DEF Reserve
  <2>. HIDE DEF e, r, acc
  <2>. QED BY <2>1 DEF Good, Database
<1>. HIDE DEF e
<1>4. r \in AssignmentRow /\ r.job = j /\ r.workers = w /\ r.status = "PENDING"
  BY SizesAssumption, GoodTypes DEF AssignmentRow
<1>5. acc \in Account /\ acc.assigned = d.account[j].assigned + w
  <2>1. d.account[j] \in Account
    BY GoodTypes
  <2>2. Quantum * w \in Nat
    BY SizesAssumption
  <2>3. d.account[j].assigned + w \in 0..MaxWorkers /\ d.account[j].virtual + Quantum * w \in Nat
    BY <2>1, <2>2, SizesAssumption DEF Account
  <2>. QED BY <2>1, <2>3 DEF Account
<1>. HIDE DEF r, acc
<1>6. e.row \in [AssignmentId -> AssignmentRow]
  BY <1>2, <1>4, GoodTypes
<1>7. e.account \in [Job -> Account]
  BY <1>3, <1>5, GoodTypes
<1>8. LiveIds(e) = LiveIds(d) \cup {a} /\ a \notin LiveIds(d)
  BY <1>2, <1>4, GoodTypes DEF LiveIds, Live
<1>9. ASSUME NEW k \in d.listed
      PROVE  e.account[k].assigned = Workers(e, LiveIds(e), k)
  <2>1. Workers(e, LiveIds(e), k) = Workers(e, LiveIds(d), k) + Workers(e, {a}, k)
    BY <1>8, WorkersAdd DEF LiveIds
  <2>2. Workers(e, LiveIds(d), k) = Workers(d, LiveIds(d), k)
    <3>1. \A b \in LiveIds(d) : e.row[b].job = d.row[b].job /\ e.row[b].workers = d.row[b].workers
      BY <1>2, <1>8, GoodTypes DEF LiveIds
    <3>. QED BY <3>1, WorkersSame DEF LiveIds
  <2>3. e.row[a] = r
    BY <1>2, GoodTypes
  <2>4. Workers(e, {a}, k) = IF j = k THEN w ELSE 0
    BY <2>3, <1>4, WorkersOfOne
  <2>5. d.account[k].assigned = Workers(d, LiveIds(d), k) /\ d.account[k].assigned \in Nat
    BY GoodTypes, SizesAssumption DEF Good, Counted, Account
  <2>6. e.account[k].assigned = d.account[k].assigned + (IF j = k THEN w ELSE 0)
    BY <1>3, <1>5, <2>5, GoodTypes
  <2>. QED BY <2>1, <2>2, <2>4, <2>5, <2>6
<1>10. e \in Database
  BY <1>1, <1>6, <1>7 DEF Database, Good
<1>11. Admitted(e)
  <2>1. \A b \in AssignmentId : b # a => e.row[b] = d.row[b]
    BY <1>2, GoodTypes
  <2>2. e.row[a].job = j
    BY <1>2, <1>4, GoodTypes
  <2>3. d.births[j].at # Never
    BY DEF Good, Admitted
  <2>. QED BY <1>1, <2>1, <2>2, <2>3 DEF Good, Admitted
<1>. QED BY <1>1, <1>9, <1>10, <1>11 DEF Good, Counted, e

\* The jobs that stay listed are not affected by the others that leave.
LEMMA UnlistGood ==
    ASSUME NEW d, Good(d), NEW js \in SUBSET Job
    PROVE  /\ Good(Unlist(d, js))
           /\ Unlist(d, js).listed = d.listed \ js
           /\ Unlist(d, js).row = d.row /\ Unlist(d, js).created = d.created
<1>. DEFINE e == Unlist(d, js)
            left == [j \in Job |-> IF j \in js THEN NoAccount ELSE d.account[j]]
<1>1. e = [d EXCEPT !.listed = d.listed \ js, !.account = left]
  BY DEF Unlist
<1>2. NoAccount \in Account
  BY SizesAssumption DEF NoAccount, Account
<1>3. left \in [Job -> Account]
  BY <1>2, GoodTypes
<1>4. \A j \in d.listed \ js : left[j] = d.account[j]
  BY GoodTypes
<1>. HIDE DEF e, left
<1>5. /\ e \in Database /\ e.listed = d.listed \ js /\ e.row = d.row /\ e.births = d.births
      /\ e.created = d.created /\ e.account = left
  BY <1>1, <1>3 DEF Good, Database
<1>6. Admitted(e)
  BY <1>5 DEF Good, Admitted
<1>7. ASSUME NEW j \in e.listed
      PROVE  e.account[j].assigned = Workers(e, LiveIds(e), j)
  <2>1. LiveIds(e) = LiveIds(d)
    BY <1>5 DEF LiveIds, Live
  <2>2. Workers(e, LiveIds(d), j) = Workers(d, LiveIds(d), j)
    BY <1>5, WorkersSame DEF LiveIds
  <2>. QED BY <1>4, <1>5, <2>1, <2>2 DEF Good, Counted
<1>. QED BY <1>5, <1>6, <1>7 DEF Good, Counted, e

-----------------------------------------------------------------------------
(* The alarm.                                                              *)

\* Every deadline is a time.
LEMMA DeadlinesAreTimes ==
    ASSUME NEW d, Good(d)
    PROVE  Deadlines(d) \subseteq Nat
<1>1. \A j \in d.listed \cup d.created : d.births[j].at \in Nat
  BY GoodTypes DEF Good, Admitted, Birth
<1>2. \A j \in d.listed \cup d.created : d.births[j].at + Lifetime \in Nat
  BY <1>1, SizesAssumption
<1>3. \A a \in LiveIds(d) : d.row[a].expires \in Nat
  BY GoodTypes DEF LiveIds, AssignmentRow
<1>4. \A c \in Challenge : d.replays[c] # Never => d.replays[c] \in Nat
  BY GoodTypes
<1>. QED BY <1>2, <1>3, <1>4 DEF Deadlines

\* An operation that arms the alarm arms it for the first deadline.
LEMMA AlarmIsFirst ==
    ASSUME NEW d, Good(d), ScheduleNextAlarm(d)
    PROVE  /\ alarm' \in Nat \cup {Never}
           /\ \A t \in Deadlines(d) : alarm' # Never /\ alarm' <= t
<1>1. Deadlines(d) \subseteq Nat
  BY DeadlinesAreTimes
<1>. QED BY <1>1 DEF ScheduleNextAlarm, Never

\* A good database is good in the next state, which Good does not refer to.
LEMMA GoodNow ==
    ASSUME NEW d, Good(d), db' = d
    PROVE  Good(db)'
<1>1. (db \in Database)' /\ Admitted(db)'
  BY DEF Good, Admitted
<1>2. Counted(db)'
  BY DEF Good, Counted, Workers, Seats, LiveIds, Live
<1>. QED BY <1>1, <1>2 DEF Good

\* An operation that leaves a good database and arms the alarm keeps IInv.
LEMMA Armed ==
    ASSUME NEW d, Good(d), db' = d, ScheduleNextAlarm(d), now' \in Nat
    PROVE  IInv'
<1>1. Deadlines(db)' = Deadlines(d)
  BY DEF Deadlines, LiveIds, Live
<1>2. Good(db)'
  BY GoodNow
<1>3. AlarmCoversDeadlines'
  BY <1>1, AlarmIsFirst DEF AlarmCoversDeadlines
<1>. QED BY <1>2, <1>3, AlarmIsFirst DEF IInv

\* An operation that arms no alarm keeps IInv when it adds no deadline.
LEMMA KeptAlarm ==
    ASSUME IInv, NEW d, Good(d), db' = d, alarm' = alarm, now' \in Nat,
           Deadlines(d) \subseteq Deadlines(db)
    PROVE  IInv'
<1>1. Deadlines(db)' = Deadlines(d)
  BY DEF Deadlines, LiveIds, Live
<1>2. Good(db)'
  BY GoodNow
<1>3. AlarmCoversDeadlines'
  BY <1>1 DEF IInv, AlarmCoversDeadlines
<1>. QED BY <1>2, <1>3 DEF IInv

-----------------------------------------------------------------------------
(* One lemma per operation.                                                *)

\* Forgetting old creations and old challenges keeps the database good.
LEMMA ForgetGood ==
    ASSUME NEW d, Good(d), NEW created \in SUBSET d.created,
           NEW replays \in [Challenge -> Nat \cup {Never}]
    PROVE  Good([d EXCEPT !.created = created, !.replays = replays])
<1>. DEFINE e == [d EXCEPT !.created = created, !.replays = replays]
<1>0. d \in Database
  BY DEF Good
<1>1. /\ e \in Database /\ e.births = d.births /\ e.listed = d.listed
      /\ e.account = d.account /\ e.created \subseteq d.created /\ e.row = d.row
  <2>1. created \in SUBSET Job
    BY <1>0 DEF Database
  <2>2. e \in Database
    BY <1>0, <2>1 DEF Database
  <2>. QED BY <1>0, <2>2 DEF Database
<1>. HIDE DEF e
<1>2. Admitted(e)
  BY <1>1 DEF Good, Admitted
<1>3. Counted(e)
  <2>1. LiveIds(e) = LiveIds(d) /\ \A j : Seats(e, LiveIds(d), j) = Seats(d, LiveIds(d), j)
    BY <1>1 DEF LiveIds, Live, Seats
  <2>. QED BY <1>1, <2>1 DEF Good, Counted, Workers
<1>. QED BY <1>1, <1>2, <1>3 DEF Good, e

\* Nothing is listed, assigned or due at first.
LEMMA InitGood == Init => IInv
<1>. SUFFICES ASSUME Init PROVE IInv
  OBVIOUS
<1>1. Unborn \in Birth /\ NoAccount \in Account /\ NoRow \in AssignmentRow
  BY SizesAssumption DEF Unborn, Birth, NoAccount, Account, NoRow, AssignmentRow, Never
<1>2. db \in Database
  BY <1>1 DEF Database, Init, Never
<1>3. Admitted(db) /\ Counted(db)
  BY NamesAssumption DEF Init, Admitted, Counted, NoRow
<1>4. Deadlines(db) = {}
  BY DEF Init, Deadlines, LiveIds, Live, NoRow
<1>. QED BY <1>2, <1>3, <1>4 DEF Init, IInv, Good, AlarmCoversDeadlines

\* The challenge is in the table or its row is new.
LEMMA ConsumeTurnstileGood ==
    ASSUME IInv, NEW c \in Challenge, ConsumeTurnstile(c)
    PROVE  IInv'
<1>. DEFINE kept == CurrentReplays
            new == IF kept[c] = Never THEN [kept EXCEPT ![c] = now + Retention] ELSE kept
            d == [db EXCEPT !.replays = new]
<1>1. kept \in [Challenge -> Nat \cup {Never}]
  BY GoodTypes DEF IInv, CurrentReplays
<1>2. new \in [Challenge -> Nat \cup {Never}]
  BY <1>1, SizesAssumption DEF IInv
<1>3. db' = d /\ ScheduleNextAlarm(d) /\ now' = now
  BY DEF ConsumeTurnstile
<1>. HIDE DEF kept, new
<1>4. d = [db EXCEPT !.created = db.created, !.replays = new] /\ db.created \in SUBSET db.created
  BY DEF IInv, Good, Database
<1>5. Good(d)
  BY <1>2, <1>4, ForgetGood DEF IInv
<1>. QED BY <1>3, <1>5, Armed DEF IInv

\* A new job has no assignment yet.
LEMMA AdmitGood ==
    ASSUME IInv, NEW j \in Job, NEW device \in Device, NEW network \in Network,
           Admit(j, device, network)
    PROVE  IInv'
<1>1. PICK virtual \in NewJobVirtualRuntimes(db) :
        LET d == [db EXCEPT
               !.births[j] = [device |-> device, network |-> network, at |-> now, virtual |-> virtual],
               !.listed = @ \cup {j},
               !.account[j] = [eligible |-> FALSE, virtual |-> virtual, assigned |-> 0, serviced |-> now],
               !.created = RecentCreations \cup {j}]
        IN  db' = d /\ ScheduleNextAlarm(d)
  BY DEF Admit
<1>. DEFINE birth == [device |-> device, network |-> network, at |-> now, virtual |-> virtual]
            acc == [eligible |-> FALSE, virtual |-> virtual, assigned |-> 0, serviced |-> now]
            recent == RecentCreations \cup {j}
            d == [db EXCEPT !.births[j] = birth, !.listed = @ \cup {j}, !.account[j] = acc,
                            !.created = recent]
<1>2. db' = d /\ ScheduleNextAlarm(d) /\ now' = now /\ db.births[j] = Unborn
  BY <1>1 DEF Admit
<1>3. virtual \in Nat
  BY GoodTypes DEF NewJobVirtualRuntimes, FairJobs, Account, IInv
<1>4. birth \in Birth /\ acc \in Account /\ birth.at # Never /\ acc.assigned = 0
  BY <1>3, SizesAssumption DEF Birth, Account, IInv, Never
<1>5. recent \in SUBSET Job /\ recent \subseteq db.created \cup {j}
  BY GoodTypes DEF RecentCreations, IInv
<1>. HIDE DEF birth, acc, recent
<1>6. /\ d.births = [db.births EXCEPT ![j] = birth] /\ d.listed = db.listed \cup {j}
      /\ d.account = [db.account EXCEPT ![j] = acc] /\ d.created = recent
      /\ d.row = db.row /\ d.replays = db.replays
      /\ d \in Database
  <2>1. [db.births EXCEPT ![j] = birth] \in [Job -> Birth]
        /\ [db.account EXCEPT ![j] = acc] \in [Job -> Account]
        /\ db.listed \cup {j} \in SUBSET Job
    BY <1>4, GoodTypes DEF IInv
  <2>. QED BY <1>5, <2>1 DEF IInv, Good, Database
<1>. HIDE DEF d
<1>7. \A k \in Job : k # j => d.births[k] = db.births[k] /\ d.account[k] = db.account[k]
  BY <1>6, GoodTypes DEF IInv
<1>8. d.births[j] = birth /\ d.account[j] = acc
  BY <1>6, GoodTypes DEF IInv
<1>9. Admitted(d)
  <2>1. \A k \in d.listed \cup d.created : k \in Job /\ (k = j \/ k \in db.listed \cup db.created)
    BY <1>5, <1>6, GoodTypes DEF IInv
  <2>. QED BY <1>4, <1>6, <1>7, <1>8, <2>1 DEF IInv, Good, Admitted
<1>10. ASSUME NEW k \in d.listed
       PROVE  d.account[k].assigned = Workers(d, LiveIds(d), k)
  <2>1. LiveIds(d) = LiveIds(db) /\ LiveIds(db) \in SUBSET AssignmentId
    BY <1>6 DEF LiveIds, Live
  <2>2. Workers(d, LiveIds(d), k) = Workers(db, LiveIds(db), k)
    BY <1>6, <2>1, WorkersSame
  <2>3. CASE k = j
    <3>1. Workers(db, LiveIds(db), j) = 0
      BY <1>2, <2>1, NoWorkersUnborn DEF IInv, Good, Unborn
    <3>. QED BY <1>4, <1>8, <2>2, <2>3, <3>1
  <2>4. CASE k # j
    BY <1>6, <1>7, <2>2, <2>4, GoodTypes DEF IInv, Good, Counted
  <2>. QED BY <2>3, <2>4
<1>. QED BY <1>2, <1>6, <1>9, <1>10, Armed DEF Good, Counted, IInv

\* The tables that have a deadline only lose rows.
LEMMA AdmitRefusedGood ==
    ASSUME IInv, NEW device, NEW network, AdmitRefused(device, network)
    PROVE  IInv'
<1>. DEFINE d == [db EXCEPT !.created = RecentCreations]
<1>1. db' = d /\ alarm' = alarm /\ now' = now
  BY DEF AdmitRefused
<1>2. RecentCreations \in SUBSET db.created
  BY DEF RecentCreations
<1>3. d = [db EXCEPT !.created = RecentCreations, !.replays = db.replays]
      /\ db.replays \in [Challenge -> Nat \cup {Never}]
  BY DEF IInv, Good, Database
<1>4. Good(d)
  BY <1>2, <1>3, ForgetGood DEF IInv
<1>5. /\ d.births = db.births /\ d.listed = db.listed /\ d.row = db.row
      /\ d.replays = db.replays /\ d.created \subseteq db.created
  BY <1>2 DEF IInv, Good, Database
<1>. HIDE DEF d
<1>6. Deadlines(d) \subseteq Deadlines(db)
  BY <1>5 DEF Deadlines, LiveIds, Live
<1>. QED BY <1>1, <1>4, <1>6, KeptAlarm DEF IInv

\* Nothing of the job is left.
LEMMA RollbackGood ==
    ASSUME IInv, NEW j \in Job, Rollback(j)
    PROVE  IInv'
<1>. DEFINE u == Unlist(db, {j})
            d == [u EXCEPT !.births[j] = Unborn, !.created = @ \ {j}]
<1>1. db' = d /\ ScheduleNextAlarm(d) /\ now' = now /\ \A a \in AssignmentId : db.row[a].job # j
  BY DEF Rollback
<1>2. Good(u) /\ u.listed = db.listed \ {j} /\ u.row = db.row
  BY UnlistGood DEF IInv
<1>. HIDE DEF u
<1>3. Unborn \in Birth
  BY DEF Unborn, Birth, Never
<1>4. /\ d \in Database /\ d.births = [u.births EXCEPT ![j] = Unborn] /\ d.listed = u.listed
      /\ d.created = u.created \ {j} /\ d.row = u.row /\ d.account = u.account
  BY <1>2, <1>3 DEF Good, Database
<1>. HIDE DEF d
<1>5. Admitted(d)
  BY <1>1, <1>2, <1>4, GoodTypes DEF Good, Admitted
<1>6. Counted(d)
  BY <1>2, <1>4 DEF Good, Counted, Workers, Seats, LiveIds, Live
<1>. QED BY <1>1, <1>4, <1>5, <1>6, Armed DEF Good, IInv

\* Eligibility moves no worker and no deadline.
LEMMA SetEligibleGood ==
    ASSUME IInv, NEW j \in Job, NEW eligible \in BOOLEAN, SetEligible(j, eligible)
    PROVE  IInv'
<1>. DEFINE acc == [db.account[j] EXCEPT !.eligible = eligible, !.serviced = now]
            d == [db EXCEPT !.account[j] = acc]
<1>1. db' = d /\ alarm' = alarm /\ now' = now
  BY DEF SetEligible
<1>2. acc \in Account /\ acc.assigned = db.account[j].assigned
  <2>1. db.account[j] \in Account /\ now \in Nat
    BY GoodTypes DEF IInv
  <2>. QED BY <2>1 DEF Account
<1>. HIDE DEF acc
<1>3. /\ d \in Database /\ d.births = db.births /\ d.listed = db.listed /\ d.created = db.created
      /\ d.account = [db.account EXCEPT ![j] = acc] /\ d.row = db.row /\ d.replays = db.replays
  BY <1>2 DEF IInv, Good, Database
<1>. HIDE DEF d
<1>4. Admitted(d)
  BY <1>3 DEF IInv, Good, Admitted
<1>5. \A k \in Job : d.account[k].assigned = db.account[k].assigned
  BY <1>2, <1>3, GoodTypes DEF IInv
<1>6. ASSUME NEW k \in d.listed
      PROVE  d.account[k].assigned = Workers(d, LiveIds(d), k)
  <2>1. LiveIds(d) = LiveIds(db)
    BY <1>3 DEF LiveIds, Live
  <2>2. Workers(d, LiveIds(db), k) = Workers(db, LiveIds(db), k)
    BY <1>3, WorkersSame DEF LiveIds
  <2>. QED BY <1>3, <1>5, <2>1, <2>2, GoodTypes DEF IInv, Good, Counted
<1>7. Deadlines(d) = Deadlines(db)
  BY <1>3 DEF Deadlines, LiveIds, Live
<1>. QED BY <1>1, <1>3, <1>4, <1>6, <1>7, KeptAlarm DEF IInv, Good, Counted

\* A closed job takes its own assignments along.
LEMMA CloseGood ==
    ASSUME IInv, NEW j \in Job, Close(j)
    PROVE  IInv'
<1>. DEFINE u == Unlist(db, {j})
            rows == [a \in AssignmentId |->
                       IF Live(db, a) /\ db.row[a].job = j
                       THEN [db.row[a] EXCEPT !.status = "CANCELLED"] ELSE db.row[a]]
            d == [u EXCEPT !.row = rows]
<1>1. db' = d /\ ScheduleNextAlarm(d) /\ now' = now
  BY DEF Close
<1>2. Good(u) /\ u.listed = db.listed \ {j} /\ u.row = db.row
  BY UnlistGood DEF IInv
<1>. HIDE DEF u
<1>3. /\ rows \in [AssignmentId -> AssignmentRow]
      /\ \A a \in AssignmentId : rows[a].job = u.row[a].job /\ rows[a].workers = u.row[a].workers
  <2>1. db.row \in [AssignmentId -> AssignmentRow]
    BY GoodTypes DEF IInv
  <2>2. ASSUME NEW a \in AssignmentId
        PROVE  /\ rows[a] \in AssignmentRow
               /\ rows[a].job = db.row[a].job /\ rows[a].workers = db.row[a].workers
    BY <2>1 DEF AssignmentRow
  <2>. QED BY <1>2, <2>2
<1>4. {a \in AssignmentId : rows[a].status \in {"PENDING", "ACTIVE"}} =
        {a \in LiveIds(u) : u.row[a].job # j}
  BY <1>2, GoodTypes DEF IInv, LiveIds, Live, AssignmentRow
<1>. HIDE DEF rows
<1>5. /\ d \in Database /\ d.births = u.births /\ d.listed = u.listed
      /\ d.created = u.created /\ d.row = rows /\ d.account = u.account
  BY <1>2, <1>3 DEF Good, Database
<1>. HIDE DEF d
<1>6. Admitted(d)
  BY <1>2, <1>3, <1>5 DEF Good, Admitted
<1>7. ASSUME NEW k \in d.listed
      PROVE  d.account[k].assigned = Workers(d, LiveIds(d), k)
  <2>1. k # j
    BY <1>2, <1>5
  <2>2. LiveIds(d) = {a \in LiveIds(u) : u.row[a].job # j}
    BY <1>4, <1>5 DEF LiveIds, Live
  <2>3. Seats(d, LiveIds(d), k) = Seats(u, LiveIds(u), k)
    BY <1>3, <1>5, <2>1, <2>2 DEF Seats, LiveIds
  <2>. QED BY <1>2, <1>5, <2>3 DEF Good, Counted, Workers
<1>. QED BY <1>1, <1>5, <1>6, <1>7, Armed DEF Good, Counted, IInv

\* A report of any time: what the protocol lets a browser say is one.
AnyReport == [assignment: AssignmentId, actual: Nat] \cup {NoReport}

LEMMA ReportsAreAny == Report \cup {NoReport} \subseteq AnyReport
<1>1. ReportedTimes \subseteq Nat
  BY SizesAssumption, InputsAssumption
<1>. QED BY <1>1 DEF Report, AnyReport

\* What a request is decided on.
LEMMA SettledGood ==
    ASSUME IInv, NEW s \in Session, NEW report \in AnyReport
    PROVE  Good(Settled(s, report))
<1>1. Good(ExpireAssignments(db))
  BY ExpireGood DEF IInv
<1>2. CASE report = NoReport
  BY <1>1, <1>2 DEF Settled
<1>3. CASE report # NoReport
  <2>1. report.assignment \in AssignmentId /\ report.actual \in Nat
    BY <1>3 DEF AnyReport
  <2>. QED BY <1>1, <1>3, <2>1, ReconcileGood DEF Settled
<1>. QED BY <1>2, <1>3

\* The answers without an assignment.
LEMMA NoAssignmentGood ==
    ASSUME IInv, NEW s \in Session, NEW report \in AnyReport,
           AssignInvalid(s, report) \/ AssignNothing(s, report)
    PROVE  IInv'
<1>1. CASE AssignInvalid(s, report)
  <2>1. Good(ExpireAssignments(db))
    BY ExpireGood DEF IInv
  <2>. QED BY <1>1, <2>1, Armed DEF AssignInvalid, IInv
<1>2. CASE AssignNothing(s, report)
  BY <1>2, SettledGood, Armed DEF AssignNothing, IInv
<1>. QED BY <1>1, <1>2

\* What assign() does when it finds a job.
LEMMA AssignFacts ==
    ASSUME IInv, NEW s \in Session, NEW offer \in 1..MaxOffer,
           NEW report \in AnyReport, Assign(s, offer, report),
           NEW d, d = Settled(s, report)
    PROVE  \E j \in FairChoices(d), a \in AssignmentId, w \in 1..MaxWorkers :
             /\ d.row[a].status = "NONE" /\ d.account[j].assigned + w <= MaxWorkers
             /\ db' = Reserve(d, a, s, j, w) /\ ScheduleNextAlarm(Reserve(d, a, s, j, w))
             /\ now' = now
<1>1. PICK j \in FairChoices(d), a \in AssignmentId :
        /\ \A b \in AssignmentId : d.row[b].status = "NONE" <=> b >= a
        /\ db' = Reserve(d, a, s, j, GrantedWorkers(d.account[j], offer))
        /\ ScheduleNextAlarm(Reserve(d, a, s, j, GrantedWorkers(d.account[j], offer)))
  BY DEF Assign
<1>2. Good(d)
  BY SettledGood
<1>3. d.account[j] \in Account /\ d.account[j].assigned < MaxWorkers
  BY <1>2, GoodTypes DEF FairChoices, FairJobs
<1>4. /\ GrantedWorkers(d.account[j], offer) \in 1..MaxWorkers
      /\ d.account[j].assigned + GrantedWorkers(d.account[j], offer) <= MaxWorkers
  BY <1>3, GrantFits
<1>5. d.row[a].status = "NONE"
  BY <1>1, SizesAssumption DEF AssignmentId
<1>6. now' = now
  BY DEF Assign
<1>. QED BY <1>1, <1>4, <1>5, <1>6

\* An assignment is reserved for a job with a free seat.
LEMMA AssignGood ==
    ASSUME IInv, NEW s \in Session, NEW offer \in 1..MaxOffer,
           NEW report \in AnyReport, Assign(s, offer, report)
    PROVE  IInv'
<1>. DEFINE d == Settled(s, report)
<1>1. Good(d)
  BY SettledGood
<1>. HIDE DEF d
<1>2. PICK j \in FairChoices(d), a \in AssignmentId, w \in 1..MaxWorkers :
        /\ d.row[a].status = "NONE" /\ d.account[j].assigned + w <= MaxWorkers
        /\ db' = Reserve(d, a, s, j, w) /\ ScheduleNextAlarm(Reserve(d, a, s, j, w))
        /\ now' = now
  BY AssignFacts DEF d
<1>3. j \in d.listed
  BY DEF FairChoices, FairJobs
<1>4. Good(Reserve(d, a, s, j, w))
  BY <1>1, <1>2, <1>3, ReserveGood DEF IInv
<1>. QED BY <1>2, <1>4, Armed DEF IInv

\* An activated assignment holds the workers it held.
LEMMA ActivateGood ==
    ASSUME IInv, NEW a \in AssignmentId, NEW s \in Session, NEW j \in Job, Activate(a, s, j)
    PROVE  IInv'
<1>. DEFINE e == ExpireAssignments(db)
            r == [e.row[a] EXCEPT !.status = "ACTIVE", !.assigned = now, !.expires = now + Quantum]
            d == [e EXCEPT !.row = [e.row EXCEPT ![a] = r]]
<1>1. Good(e)
  BY ExpireGood DEF IInv
<1>2. now' = now /\ \/ db' = e /\ ScheduleNextAlarm(e)
                    \/ e.row[a].status = "PENDING" /\ db' = d /\ ScheduleNextAlarm(d)
  BY DEF Activate
<1>. HIDE DEF e
<1>3. ASSUME e.row[a].status = "PENDING"
      PROVE  Good(d)
  <2>1. r \in AssignmentRow /\ r.job = e.row[a].job /\ r.workers = e.row[a].workers
        /\ r.status = "ACTIVE"
    <3>1. e.row[a] \in AssignmentRow /\ now \in Nat /\ now + Quantum \in Nat
      BY <1>1, GoodTypes, SizesAssumption DEF IInv
    <3>. QED BY <3>1 DEF AssignmentRow
  <2>. HIDE DEF r
  <2>2. d.row = [e.row EXCEPT ![a] = r] /\ d.births = e.births /\ d.listed = e.listed
        /\ d.created = e.created /\ d.account = e.account /\ d \in Database
    BY <1>1, <2>1 DEF Good, Database
  <2>. HIDE DEF d
  <2>3. \A b \in AssignmentId : d.row[b].job = e.row[b].job /\ d.row[b].workers = e.row[b].workers
    BY <1>1, <2>1, <2>2, GoodTypes
  <2>4. LiveIds(d) = LiveIds(e)
    BY <1>1, <1>3, <2>1, <2>2, GoodTypes DEF LiveIds, Live
  <2>5. ASSUME NEW k \in d.listed
        PROVE  Workers(d, LiveIds(d), k) = Workers(e, LiveIds(e), k)
    <3>1. LiveIds(e) \in SUBSET AssignmentId
      BY DEF LiveIds
    <3>. QED BY <2>3, <2>4, <3>1, WorkersSame
  <2>. QED BY <1>1, <2>2, <2>3, <2>5 DEF Good, Admitted, Counted
<1>. QED BY <1>1, <1>2, <1>3, Armed DEF IInv

\* The alarm expires, unlists and forgets.
LEMMA AlarmGood ==
    ASSUME IInv, Alarm
    PROVE  IInv'
<1>. DEFINE over == {j \in db.listed : db.births[j].at + Lifetime <= now}
            u == Unlist(ExpireAssignments(db), over)
            d == [u EXCEPT !.created = RecentCreations, !.replays = CurrentReplays]
<1>1. db' = d /\ ScheduleNextAlarm(d) /\ now' = now
  BY DEF Alarm
<1>2. Good(ExpireAssignments(db)) /\ over \in SUBSET Job
  BY ExpireGood, GoodTypes DEF IInv
<1>3. Good(u)
  BY <1>2, UnlistGood
<1>4. u.created = db.created
  <2>1. ExpireAssignments(db).created = db.created
    BY DEF ExpireAssignments, Good, Database, IInv
  <2>. QED BY <1>2, <2>1, UnlistGood
<1>5. RecentCreations \in SUBSET u.created /\ CurrentReplays \in [Challenge -> Nat \cup {Never}]
  BY <1>4, GoodTypes DEF RecentCreations, CurrentReplays, IInv
<1>. HIDE DEF u
<1>6. Good(d)
  BY <1>3, <1>5, ForgetGood
<1>. QED BY <1>1, <1>6, Armed DEF IInv

\* Time passes.
LEMMA TickGood ==
    ASSUME IInv, Tick
    PROVE  IInv'
  BY KeptAlarm DEF Tick, IInv

-----------------------------------------------------------------------------
(* The invariants.                                                         *)

\* The origin of a request names a device and a network.
LEMMA OriginsAreTyped ==
    ASSUME NEW origin \in Origins
    PROVE  origin[1] \in Device /\ origin[2] \in Network
  BY InputsAssumption

LEMMA NextGood == IInv /\ [Next]_vars => IInv'
<1>. SUFFICES ASSUME IInv, [Next]_vars PROVE IInv'
  OBVIOUS
<1>1. CASE UNCHANGED vars
  <2>1. db' = db /\ alarm' = alarm /\ now' = now
    BY <1>1 DEF vars
  <2>. QED BY <2>1, KeptAlarm DEF IInv
<1>2. CASE AdmissionStep
  <2>1. ASSUME NEW c \in Challenge, ConsumeTurnstile(c) PROVE IInv'
    BY <2>1, ConsumeTurnstileGood
  <2>2. ASSUME NEW origin \in Origins, AdmitRefused(origin[1], origin[2]) PROVE IInv'
    BY <2>2, AdmitRefusedGood
  <2>3. ASSUME NEW origin \in Origins, NEW j \in Job, Admit(j, origin[1], origin[2]) PROVE IInv'
    BY <2>3, OriginsAreTyped, AdmitGood
  <2>4. ASSUME NEW j \in Job, Rollback(j) PROVE IInv'
    BY <2>4, RollbackGood
  <2>5. ASSUME NEW j \in Job, Close(j) PROVE IInv'
    BY <2>5, CloseGood
  <2>6. ASSUME NEW j \in Job, SetEligible(j, TRUE) \/ SetEligible(j, FALSE) PROVE IInv'
    BY <2>6, SetEligibleGood
  <2>. QED BY <1>2, <2>1, <2>2, <2>3, <2>4, <2>5, <2>6 DEF AdmissionStep
<1>3. CASE SwarmStep
  <2>1. ASSUME NEW s \in Session, NEW report \in Report \cup {NoReport},
               AssignInvalid(s, report) \/ AssignNothing(s, report)
        PROVE  IInv'
    BY <2>1, NoAssignmentGood, ReportsAreAny
  <2>2. ASSUME NEW s \in Session, NEW report \in Report \cup {NoReport},
               NEW offer \in 1..MaxOffer, Assign(s, offer, report)
        PROVE  IInv'
    BY <2>2, AssignGood, ReportsAreAny
  <2>3. ASSUME NEW s \in Session, NEW a \in AssignmentId, NEW j \in Job, Activate(a, s, j)
        PROVE  IInv'
    BY <2>3, ActivateGood
  <2>. QED BY <1>3, <2>1, <2>2, <2>3 DEF SwarmStep
<1>4. CASE Alarm
  BY <1>4, AlarmGood
<1>5. CASE Tick
  BY <1>5, TickGood
<1>. QED BY <1>1, <1>2, <1>3, <1>4, <1>5 DEF Next

LEMMA Inductive == Spec => []IInv
  BY InitGood, NextGood, PTL DEF Spec

\* Every table keeps the shape its schema declares, and no job is assigned
\* more workers than its ceiling, for any number of jobs, sessions and
\* assignments.
THEOREM TypeCorrect == Spec => []TypeOK
<1>1. IInv => TypeOK
  BY DEF IInv, Good, TypeOK
<1>. QED BY <1>1, Inductive, PTL

LEMMA CountsHold == IInv => WorkersAreAccounted
<1>. SUFFICES ASSUME IInv, NEW j \in db.listed
              PROVE  /\ db.account[j].assigned = Workers(db, LiveIds(db), j)
                     /\ db.account[j].assigned <= MaxWorkers
  BY DEF WorkersAreAccounted
<1>1. db.account[j] \in Account
  BY GoodTypes DEF IInv
<1>. QED BY <1>1, SizesAssumption DEF IInv, Good, Counted, Account

\* The count of a job's workers is what its live assignments hold, and fits
\* under the ceiling, whatever expires, is reported, activated or closed.
THEOREM WorkersCounted == Spec => []WorkersAreAccounted
<1>. QED BY CountsHold, Inductive, PTL

\* The alarm stands at or before every deadline of every table.
THEOREM AlarmCovers == Spec => []AlarmCoversDeadlines
<1>1. IInv => AlarmCoversDeadlines
  BY DEF IInv
<1>. QED BY <1>1, Inductive, PTL

-----------------------------------------------------------------------------
(* The scheduler.                                                          *)

\* Multiplication by the divisor preserves the order.
LEMMA Divide ==
    ASSUME NEW k \in Nat \ {0}, NEW x \in Int, NEW y \in Int, k * x <= k * y
    PROVE  x <= y
<1>. SUFFICES ASSUME x > y PROVE FALSE
  OBVIOUS
<1>1. x - y >= 1 /\ k >= 1
  OBVIOUS
<1>2. k * (x - y) >= 1
  BY <1>1
<1>3. k * (x - y) = k * x - k * y
  OBVIOUS
<1>. QED BY <1>2, <1>3

\* A job that precedes another is at most a quantum ahead of it.
LEMMA AtMostAQuantumAhead ==
    ASSUME now \in Nat, NEW x \in Account, NEW y \in Account, Precedes(x, y)
    PROVE  x.virtual <= y.virtual + Quantum
<1>. DEFINE D == AgingDivisor
<1>1. /\ D \in Nat \ {0} /\ Quantum \in Nat
      /\ x.virtual \in Int /\ y.virtual \in Int /\ x.serviced \in Int /\ y.serviced \in Int
  BY SizesAssumption DEF Account
<1>2. D * x.virtual \in Int /\ D * y.virtual \in Int /\ D * Quantum \in Nat
  BY <1>1
<1>3. AgingCredit(x) <= D * Quantum /\ AgingCredit(y) >= 0
      /\ AgingCredit(x) \in Int /\ AgingCredit(y) \in Int
  BY <1>1, <1>2 DEF AgingCredit, Least, NotNegative, Greatest
<1>4. Score(x) <= Score(y) /\ Score(x) = D * x.virtual - AgingCredit(x)
      /\ Score(y) = D * y.virtual - AgingCredit(y)
  BY <1>2, <1>3 DEF Precedes, Score
<1>5. D * x.virtual <= D * y.virtual + D * Quantum
  BY <1>2, <1>3, <1>4
<1>6. D * y.virtual + D * Quantum = D * (y.virtual + Quantum)
  BY <1>1
<1>7. D * x.virtual <= D * (y.virtual + Quantum) /\ y.virtual + Quantum \in Int
  BY <1>1, <1>5, <1>6
<1>. QED BY <1>1, <1>7, Divide

\* Expiry and reports draw no assignment.
LEMMA ExpirePending ==
    ASSUME Good(db), NEW a \in AssignmentId
    PROVE  ExpireAssignments(db).row[a].status = "PENDING" => db.row[a].status = "PENDING"
  BY GoodTypes DEF ExpireAssignments, AssignmentRow, Good, Database

LEMMA SettledPending ==
    ASSUME IInv, NEW s \in Session, NEW report \in AnyReport, NEW a \in AssignmentId
    PROVE  Settled(s, report).row[a].status = "PENDING" => db.row[a].status = "PENDING"
<1>. DEFINE e == ExpireAssignments(db)
<1>1. Good(e)
  BY ExpireGood DEF IInv
<1>2. e.row[a].status = "PENDING" => db.row[a].status = "PENDING"
  BY ExpirePending DEF IInv
<1>. HIDE DEF e
<1>3. ASSUME NEW b, NEW actual
      PROVE  Reconcile(e, b, actual).row[a].status = "PENDING" => e.row[a].status = "PENDING"
  BY <1>1, GoodTypes DEF Reconcile, AssignmentRow, Good, Database
<1>. QED BY <1>2, <1>3 DEF Settled, e

\* What a scheduling step may not do, without the box.
DebtIsBounded ==
    \A a \in AssignmentId : Served(a) =>
        \A k \in FairJobs(db') \ {db'.row[a].job} :
            LedgerBefore(a) <= db'.account[k].virtual + Quantum

\* The steps that draw no assignment.
LEMMA NoneServed ==
    ASSUME \A a \in AssignmentId : db'.row[a].status = "PENDING" => db.row[a].status = "PENDING"
    PROVE  DebtIsBounded
  BY DEF DebtIsBounded, Served

\* The assignment drawn, the ledger before its charge, and the jobs passed over.
LEMMA AssignBounded ==
    ASSUME IInv, NEW s \in Session, NEW offer \in 1..MaxOffer,
           NEW report \in Report \cup {NoReport}, Assign(s, offer, report)
    PROVE  DebtIsBounded
<1>. DEFINE d == Settled(s, report)
<1>1. Good(d) /\ \A b \in AssignmentId : d.row[b].status = "PENDING" => db.row[b].status = "PENDING"
  BY SettledGood, SettledPending, ReportsAreAny
<1>. HIDE DEF d
<1>2. PICK j \in FairChoices(d), a \in AssignmentId, w \in 1..MaxWorkers :
        db' = Reserve(d, a, s, j, w)
  BY AssignFacts, ReportsAreAny DEF d
<1>3. j \in d.listed /\ j \in Job /\ w \in Nat
  BY <1>1, GoodTypes, SizesAssumption DEF FairChoices, FairJobs
<1>4. /\ db'.listed = d.listed
      /\ \A b \in AssignmentId : b # a => db'.row[b] = d.row[b]
      /\ db'.row[a].job = j /\ db'.row[a].workers = w
      /\ \A k \in Job : k # j => db'.account[k] = d.account[k]
      /\ db'.account[j].virtual = d.account[j].virtual + Quantum * w
  BY <1>1, <1>2, <1>3, GoodTypes DEF Reserve, Good, Database, AssignmentRow, Account
<1>5. ASSUME NEW b \in AssignmentId, Served(b)
      PROVE  b = a
  BY <1>1, <1>4, <1>5 DEF Served
<1>6. LedgerBefore(a) = d.account[j].virtual
  <2>1. d.account[j].virtual \in Nat /\ Quantum * w \in Int
    BY <1>1, <1>3, GoodTypes, SizesAssumption DEF Account
  <2>. QED BY <1>4, <2>1 DEF LedgerBefore
<1>7. ASSUME NEW k \in FairJobs(db') \ {j}
      PROVE  d.account[j].virtual <= db'.account[k].virtual + Quantum
  <2>1. k \in FairJobs(d) /\ k \in Job /\ db'.account[k] = d.account[k]
    BY <1>1, <1>4, GoodTypes DEF FairJobs
  <2>2. Precedes(d.account[j], d.account[k])
    BY <2>1 DEF FairChoices
  <2>3. d.account[j] \in Account /\ d.account[k] \in Account
    BY <1>1, <1>3, <2>1, GoodTypes
  <2>. QED BY <2>1, <2>2, <2>3, AtMostAQuantumAhead DEF IInv
<1>. QED BY <1>4, <1>5, <1>6, <1>7 DEF DebtIsBounded

\* No other step draws an assignment.
LEMMA StepBounded == IInv /\ Next => DebtIsBounded
<1>. SUFFICES ASSUME IInv, Next PROVE DebtIsBounded
  OBVIOUS
<1>. DEFINE NoneDrawn ==
       \A a \in AssignmentId : db'.row[a].status = "PENDING" => db.row[a].status = "PENDING"
<1>0. \A a \in AssignmentId :
        ExpireAssignments(db).row[a].status = "PENDING" => db.row[a].status = "PENDING"
  BY ExpirePending DEF IInv
<1>1. CASE AdmissionStep
  <2>1. ASSUME \/ \E c \in Challenge : ConsumeTurnstile(c)
               \/ \E origin \in Origins, j \in Job : Admit(j, origin[1], origin[2])
               \/ \E origin \in Origins : AdmitRefused(origin[1], origin[2])
               \/ \E j \in Job : \/ Rollback(j)
                                 \/ SetEligible(j, TRUE) \/ SetEligible(j, FALSE)
        PROVE  db'.row = db.row
    <3>0. db \in Database
      BY DEF IInv, Good
    <3>1. ASSUME NEW c \in Challenge, ConsumeTurnstile(c) PROVE db'.row = db.row
      BY <3>0, <3>1 DEF ConsumeTurnstile, Database
    <3>2. ASSUME NEW origin \in Origins, NEW j \in Job, Admit(j, origin[1], origin[2])
          PROVE  db'.row = db.row
      BY <3>0, <3>2 DEF Admit, Database
    <3>3. ASSUME NEW origin \in Origins, AdmitRefused(origin[1], origin[2])
          PROVE  db'.row = db.row
      BY <3>0, <3>3 DEF AdmitRefused, Database
    <3>4. ASSUME NEW j \in Job, Rollback(j) PROVE db'.row = db.row
      BY <3>0, <3>4 DEF Rollback, Unlist, Database
    <3>5. ASSUME NEW j \in Job, NEW eligible \in BOOLEAN, SetEligible(j, eligible)
          PROVE  db'.row = db.row
      BY <3>0, <3>5 DEF SetEligible, Database
    <3>. QED BY <2>1, <3>1, <3>2, <3>3, <3>4, <3>5
  <2>2. ASSUME NEW j \in Job, Close(j) PROVE NoneDrawn
    BY <2>2 DEF Close, Unlist, IInv, Good, Database, AssignmentRow
  <2>3. NoneDrawn
    BY <1>1, <2>1, <2>2 DEF AdmissionStep
  <2>. QED BY <2>3, NoneServed
<1>2. CASE SwarmStep
  <2>1. ASSUME NEW s \in Session, NEW report \in Report \cup {NoReport}, AssignInvalid(s, report)
        PROVE  DebtIsBounded
    BY <1>0, <2>1, NoneServed DEF AssignInvalid
  <2>2. ASSUME NEW s \in Session, NEW report \in Report \cup {NoReport}, AssignNothing(s, report)
        PROVE  DebtIsBounded
    BY <2>2, SettledPending, ReportsAreAny, NoneServed DEF AssignNothing
  <2>3. ASSUME NEW s \in Session, NEW report \in Report \cup {NoReport},
               NEW offer \in 1..MaxOffer, Assign(s, offer, report)
        PROVE  DebtIsBounded
    BY <2>3, AssignBounded
  <2>4. ASSUME NEW s \in Session, NEW b \in AssignmentId, NEW j \in Job, Activate(b, s, j)
        PROVE  DebtIsBounded
    <3>. DEFINE e == ExpireAssignments(db)
                r == [e.row[b] EXCEPT !.status = "ACTIVE", !.assigned = now,
                                      !.expires = now + Quantum]
    <3>1. Good(e)
      BY ExpireGood DEF IInv
    <3>2. db' = e \/ db' = [e EXCEPT !.row = [e.row EXCEPT ![b] = r]]
      BY <2>4 DEF Activate
    <3>3. \A a \in AssignmentId : e.row[a].status = "PENDING" => db.row[a].status = "PENDING"
      BY <1>0
    <3>. HIDE DEF e
    <3>4. e.row[b] \in AssignmentRow /\ e.row \in [AssignmentId -> AssignmentRow]
      BY <3>1, GoodTypes
    <3>5. r.status = "ACTIVE"
      BY <3>4 DEF AssignmentRow
    <3>. HIDE DEF r
    <3>6. db'.row = e.row \/ db'.row = [e.row EXCEPT ![b] = r]
      BY <3>1, <3>2 DEF Good, Database
    <3>7. NoneDrawn
      BY <3>3, <3>4, <3>5, <3>6
    <3>. QED BY <3>7, NoneServed
  <2>. QED BY <1>2, <2>1, <2>2, <2>3, <2>4 DEF SwarmStep
<1>3. CASE Alarm
  <2>1. db'.row = ExpireAssignments(db).row
    <3>1. Good(ExpireAssignments(db))
      BY ExpireGood DEF IInv
    <3>. QED BY <1>3, <3>1 DEF Alarm, Unlist, Good, Database
  <2>. QED BY <1>0, <2>1, NoneServed
<1>4. CASE Tick
  BY <1>4, NoneServed DEF Tick
<1>. QED BY <1>1, <1>2, <1>3, <1>4 DEF Next

\* No job with a free seat is ever passed over for one that is more than a
\* quantum of service ahead of it, whatever the clock and the aging divisor.
THEOREM DebtBounded == Spec => PriorityDebtIsBounded
<1>1. IInv /\ [Next]_vars => [DebtIsBounded]_vars
  BY StepBounded
<1>2. Spec => [][DebtIsBounded]_vars
  BY <1>1, Inductive, PTL DEF Spec
<1>. QED BY <1>2 DEF PriorityDebtIsBounded, DebtIsBounded

-----------------------------------------------------------------------------
(* Origins.                                                                *)

\* A job is in the history with all it was admitted with, its creation is in the
\* books as long as it counts, and one origin has not too many of either.
Booked ==
    /\ \A k \in Job : db.births[k] # Unborn =>
         /\ db.births[k].device \in Device /\ db.births[k].network \in Network
         /\ db.births[k].at \in 0..now
         /\ db.births[k].at > now - Lifetime => k \in db.created
    /\ \A k \in db.listed : db.births[k] # Unborn
    /\ IsFiniteSet({k \in Job : db.births[k] # Unborn})
    /\ OriginsAreLimited

LEMMA FewerAreFew ==
    ASSUME NEW S, NEW n \in Nat, IsFiniteSet(S), Cardinality(S) <= n, NEW T \in SUBSET S
    PROVE  IsFiniteSet(T) /\ Cardinality(T) <= n
  BY FS_Subset, FS_CardinalityType

LEMMA OneMore ==
    ASSUME NEW S, NEW n \in Nat, IsFiniteSet(S), Cardinality(S) < n, NEW x, NEW T \in SUBSET (S \cup {x})
    PROVE  IsFiniteSet(T) /\ Cardinality(T) <= n
<1>1. IsFiniteSet(S \cup {x}) /\ Cardinality(S \cup {x}) \in Nat /\ Cardinality(S) \in Nat
      /\ Cardinality(S \cup {x}) <= Cardinality(S) + 1
  BY FS_AddElement, FS_CardinalityType
<1>2. IsFiniteSet(T) /\ Cardinality(T) <= Cardinality(S \cup {x}) /\ Cardinality(T) \in Nat
  BY <1>1, FS_Subset, FS_CardinalityType
<1>. QED BY <1>1, <1>2

\* The creations of one device, or one network, that count against each other.
Rivals(j) ==
    {{k \in Job : db.births[k].device = db.births[j].device},
     {k \in Job : db.births[k].network = db.births[j].network}}
Window(j) ==
    {k \in Job : /\ db.births[k].at > db.births[j].at - Lifetime
                 /\ db.births[k].at <= db.births[j].at}
Limited(js, j) ==
    /\ Cardinality(js \cap Window(j)) <= MaxCreations
    /\ Cardinality(js \cap db.listed) <= 1

LEMMA LimitsApart ==
    OriginsAreLimited <=>
        \A j \in Job : db.births[j].at # Never => \A js \in Rivals(j) : Limited(js, j)
  BY DEF OriginsAreLimited, Rivals, Window, Limited

\* Rivals were admitted.
LEMMA RivalsWereBorn ==
    ASSUME Booked, NEW j \in Job, db.births[j] # Unborn, NEW js \in Rivals(j)
    PROVE  js \subseteq {k \in Job : db.births[k] # Unborn} /\ IsFiniteSet(js)
<1>1. js \subseteq {k \in Job : db.births[k] # Unborn}
  BY NamesAssumption DEF Booked, Rivals, Unborn
<1>. QED BY <1>1, FS_Subset DEF Booked

\* A step that admits no job keeps the books: time passes, jobs leave, and
\* creations are forgotten when they do not count any more.
Ages ==
    /\ now' \in Nat /\ now <= now'
    /\ \A k \in Job : db'.births[k] = db.births[k] \/ db'.births[k] = Unborn
    /\ db'.listed \subseteq db.listed
    /\ \A k \in db'.listed : db'.births[k] # Unborn
    /\ \A k \in db.created :
         db'.births[k] # Unborn /\ db.births[k].at > now - Lifetime => k \in db'.created

LEMMA Aged ==
    ASSUME IInv, Booked, Ages
    PROVE  Booked'
<1>1. ASSUME NEW k \in Job, db'.births[k] # Unborn
      PROVE  /\ db.births[k] # Unborn /\ db'.births[k] = db.births[k]
             /\ db'.births[k].device \in Device /\ db'.births[k].network \in Network
             /\ db'.births[k].at \in 0..now'
             /\ db'.births[k].at > now' - Lifetime => k \in db'.created
  BY <1>1, SizesAssumption DEF IInv, Ages, Booked
<1>2. {k \in Job : db'.births[k] # Unborn} \subseteq {k \in Job : db.births[k] # Unborn}
  BY <1>1
<1>3. IsFiniteSet({k \in Job : db'.births[k] # Unborn})
  BY <1>2, FS_Subset DEF Booked
<1>4. ASSUME NEW j \in Job, db'.births[j].at # Never, NEW js \in Rivals(j)'
      PROVE  Limited(js, j)'
  <2>1. db'.births[j] # Unborn /\ db'.births[j] = db.births[j] /\ db.births[j].at # Never
    BY <1>1, <1>4 DEF Unborn
  <2>2. PICK old \in Rivals(j) : js \subseteq old
    <3>1. CASE js = {k \in Job : db'.births[k].device = db'.births[j].device}
      <4>. DEFINE old == {k \in Job : db.births[k].device = db.births[j].device}
      <4>1. old \in Rivals(j)
        BY DEF Rivals
      <4>2. js \subseteq old
        BY <1>1, <2>1, <3>1, NamesAssumption DEF Ages, Unborn
      <4>. QED BY <4>1, <4>2
    <3>2. CASE js = {k \in Job : db'.births[k].network = db'.births[j].network}
      <4>. DEFINE old == {k \in Job : db.births[k].network = db.births[j].network}
      <4>1. old \in Rivals(j)
        BY DEF Rivals
      <4>2. js \subseteq old
        BY <1>1, <2>1, <3>2, NamesAssumption DEF Ages, Unborn
      <4>. QED BY <4>1, <4>2
    <3>. QED BY <1>4, <3>1, <3>2 DEF Rivals
  <2>3. js \subseteq Job /\ \A k \in js : db'.births[k] # Unborn
    <3>1. js \in {{k \in Job : db'.births[k].device = db'.births[j].device},
                  {k \in Job : db'.births[k].network = db'.births[j].network}}
      BY <1>4 DEF Rivals
    <3>. QED BY <3>1, <1>1, <2>1, NamesAssumption DEF Unborn
  <2>4. js \cap Window(j)' \subseteq old \cap Window(j)
    BY <1>1, <2>1, <2>2, <2>3 DEF Window
  <2>5. js \cap db'.listed \subseteq old \cap db.listed
    BY <2>2 DEF Ages
  <2>6. Limited(old, j) /\ IsFiniteSet(old)
    BY <2>1, <2>2, LimitsApart, RivalsWereBorn DEF Booked
  <2>7. IsFiniteSet(old \cap Window(j)) /\ IsFiniteSet(old \cap db.listed)
    BY <2>6, FS_Subset
  <2>8. MaxCreations \in Nat /\ 1 \in Nat
    BY SizesAssumption
  <2>9. Cardinality(js \cap Window(j)') <= MaxCreations
    BY <2>4, <2>6, <2>7, <2>8, FewerAreFew DEF Limited
  <2>10. Cardinality(js \cap db'.listed) <= 1
    BY <2>5, <2>6, <2>7, <2>8, FewerAreFew DEF Limited
  <2>. QED BY <2>9, <2>10 DEF Limited
<1>5. OriginsAreLimited'
  <2>1. OriginsAreLimited' <=>
          \A j \in Job : db'.births[j].at # Never => \A js \in Rivals(j)' : Limited(js, j)'
    BY DEF OriginsAreLimited, Rivals, Window, Limited
  <2>. QED BY <1>4, <2>1
<1>6. \A k \in db'.listed : db'.births[k] # Unborn
  BY DEF Ages
<1>. QED BY <1>1, <1>3, <1>5, <1>6 DEF Booked

\* The one step that admits a job counts what its origin has listed and created.
LEMMA AdmissionBooked ==
    ASSUME IInv, Booked, NEW n \in Job, NEW device \in Device, NEW network \in Network,
           Admit(n, device, network)
    PROVE  Booked'
<1>. DEFINE recent == SameOrigin(RecentCreations, device, network)
            listed == SameOrigin(db.listed, device, network)
<1>1. /\ db.births[n] = Unborn /\ now' = now /\ now \in Nat
      /\ listed = {} /\ Cardinality(recent) < MaxCreations
      /\ db'.births \in [Job -> Birth]
      /\ \A k \in Job : k # n => db'.births[k] = db.births[k]
      /\ db'.births[n].device = device /\ db'.births[n].network = network
      /\ db'.births[n].at = now
      /\ db'.listed = db.listed \cup {n} /\ db'.created = RecentCreations \cup {n}
  <2>1. \E virtual \in Nat :
          LET birth == [device |-> device, network |-> network, at |-> now, virtual |-> virtual]
          IN  /\ db'.births = [db.births EXCEPT ![n] = birth] /\ birth \in Birth
              /\ db'.listed = db.listed \cup {n} /\ db'.created = RecentCreations \cup {n}
    <3>1. NewJobVirtualRuntimes(db) \subseteq Nat /\ now \in Nat
      BY GoodTypes DEF IInv, NewJobVirtualRuntimes, FairJobs, Account
    <3>2. db \in Database
      BY DEF IInv, Good
    <3>3. PICK virtual \in Nat :
            LET birth == [device |-> device, network |-> network, at |-> now, virtual |-> virtual]
            IN  db' = [db EXCEPT
                         !.births = [db.births EXCEPT ![n] = birth],
                         !.listed = db.listed \cup {n},
                         !.account[n] = [eligible |-> FALSE, virtual |-> virtual,
                                         assigned |-> 0, serviced |-> now],
                         !.created = RecentCreations \cup {n}]
      BY <3>1 DEF Admit
    <3>4. [device |-> device, network |-> network, at |-> now, virtual |-> virtual] \in Birth
      BY <3>1, <3>3 DEF Birth
    <3>. QED BY <3>2, <3>3, <3>4 DEF Database
  <2>2. db.births \in [Job -> Birth]
    BY GoodTypes DEF IInv
  <2>. QED BY <2>1, <2>2 DEF Admit, Admissible, IInv
<1>2. db'.births[n] # Unborn
  BY <1>1 DEF Unborn, Never
<1>3. {k \in Job : db'.births[k] # Unborn} = {k \in Job : db.births[k] # Unborn} \cup {n}
  BY <1>1, <1>2
<1>4. IsFiniteSet({k \in Job : db'.births[k] # Unborn})
  BY <1>3, FS_AddElement DEF Booked
<1>5. ASSUME NEW k \in Job, db'.births[k] # Unborn
      PROVE  /\ db'.births[k].device \in Device /\ db'.births[k].network \in Network
             /\ db'.births[k].at \in 0..now'
             /\ db'.births[k].at > now' - Lifetime => k \in db'.created
  BY <1>1, <1>5 DEF Booked, RecentCreations
<1>6. \A k \in db'.listed : db'.births[k] # Unborn
  BY <1>1, <1>2, GoodTypes DEF Booked, IInv
<1>7. recent \subseteq {k \in Job : db.births[k] # Unborn} /\ n \notin recent
  <2>1. \A k \in recent : k \in Job /\ db.births[k].at # Never
    BY GoodTypes DEF RecentCreations, SameOrigin, IInv, Good, Admitted
  <2>. QED BY <1>1, <2>1 DEF Unborn
<1>8. IsFiniteSet(recent)
  BY <1>7, FS_Subset DEF Booked
<1>. HIDE DEF recent, listed
<1>9. ASSUME NEW j \in Job, db'.births[j].at # Never, NEW js \in Rivals(j)'
      PROVE  Limited(js, j)'
  <2>1. db'.births[j] # Unborn
    BY <1>9 DEF Unborn
  <2>2. js \subseteq Job /\ \A k \in js : db'.births[k] # Unborn
    <3>1. js \in {{k \in Job : db'.births[k].device = db'.births[j].device},
                  {k \in Job : db'.births[k].network = db'.births[j].network}}
      BY <1>9 DEF Rivals
    <3>. QED BY <3>1, <1>5, <2>1, NamesAssumption DEF Unborn
  <2>3. MaxCreations \in Nat /\ 1 \in Nat
    BY SizesAssumption
  \* Either the origin is the new job's, or nothing has changed for it.
  <2>4. CASE n \in js
    <3>1. \A k \in js : k # n =>
            db.births[k].device = device \/ db.births[k].network = network
      <4>1. CASE js = {k \in Job : db'.births[k].device = db'.births[j].device}
        BY <1>1, <1>5, <2>2, <2>4, <4>1
      <4>2. CASE js = {k \in Job : db'.births[k].network = db'.births[j].network}
        BY <1>1, <1>5, <2>2, <2>4, <4>2
      <4>. QED BY <1>9, <4>1, <4>2 DEF Rivals
    <3>2. js \cap db'.listed \subseteq {n}
      BY <1>1, <2>2, <3>1 DEF SameOrigin, listed
    <3>3. Cardinality(js \cap db'.listed) <= 1
      <4>1. IsFiniteSet({n}) /\ Cardinality({n}) = 1
        BY FS_Singleton
      <4>. QED BY <2>3, <3>2, <4>1, FewerAreFew
    <3>4. CASE db'.births[j].at = now
      <4>1. js \cap Window(j)' \subseteq recent \cup {n}
        <5>. SUFFICES ASSUME NEW k \in js \cap Window(j)', k # n
                      PROVE  k \in recent
          OBVIOUS
        <5>1. k \in Job /\ db.births[k] = db'.births[k] /\ db.births[k] # Unborn
          BY <1>1, <2>2
        <5>2. db.births[k].at > now - Lifetime
          BY <3>4, <5>1 DEF Window
        <5>3. k \in RecentCreations
          BY <5>1, <5>2 DEF Booked, RecentCreations
        <5>. QED BY <3>1, <5>3 DEF SameOrigin, recent
      <4>2. Cardinality(js \cap Window(j)') <= MaxCreations
        BY <1>1, <1>8, <2>3, <4>1, OneMore
      <4>. QED BY <3>3, <4>2 DEF Limited
    <3>5. CASE db'.births[j].at # now
      <4>1. j # n /\ db'.births[j] = db.births[j] /\ db.births[j] # Unborn
            /\ db.births[j].at \in Nat /\ db.births[j].at < now
        BY <1>1, <2>1, <3>5 DEF Booked
      <4>2. PICK old \in Rivals(j) : js \subseteq old \cup {n}
        <5>1. {k \in Job : db'.births[k].device = db'.births[j].device}
                \subseteq {k \in Job : db.births[k].device = db.births[j].device} \cup {n}
          BY <1>1, <4>1
        <5>2. {k \in Job : db'.births[k].network = db'.births[j].network}
                \subseteq {k \in Job : db.births[k].network = db.births[j].network} \cup {n}
          BY <1>1, <4>1
        <5>. QED BY <1>9, <5>1, <5>2 DEF Rivals
      <4>3. js \cap Window(j)' \subseteq old \cap Window(j)
        <5>1. n \notin Window(j)'
          BY <1>1, <4>1 DEF Window
        <5>. QED BY <1>1, <2>2, <4>1, <4>2, <5>1 DEF Window
      <4>4. Limited(old, j) /\ IsFiniteSet(old)
        <5>1. db.births[j].at # Never
          BY <1>9, <4>1
        <5>. QED BY <4>1, <4>2, <5>1, LimitsApart, RivalsWereBorn DEF Booked
      <4>5. IsFiniteSet(old \cap Window(j))
        BY <4>4, FS_Subset
      <4>6. Cardinality(js \cap Window(j)') <= MaxCreations
        BY <2>3, <4>3, <4>4, <4>5, FewerAreFew DEF Limited
      <4>. QED BY <3>3, <4>6 DEF Limited
    <3>. QED BY <3>4, <3>5
  <2>5. CASE n \notin js
    <3>1. j # n /\ db'.births[j] = db.births[j] /\ db.births[j] # Unborn
      <4>1. j \in js
        BY <1>9 DEF Rivals
      <4>. QED BY <1>1, <2>1, <2>5, <4>1
    <3>2. PICK old \in Rivals(j) : js \subseteq old
      <4>1. CASE js = {k \in Job : db'.births[k].device = db'.births[j].device}
        <5>1. js \subseteq {k \in Job : db.births[k].device = db.births[j].device}
          BY <1>1, <2>5, <3>1, <4>1
        <5>. QED BY <5>1 DEF Rivals
      <4>2. CASE js = {k \in Job : db'.births[k].network = db'.births[j].network}
        <5>1. js \subseteq {k \in Job : db.births[k].network = db.births[j].network}
          BY <1>1, <2>5, <3>1, <4>2
        <5>. QED BY <5>1 DEF Rivals
      <4>. QED BY <1>9, <4>1, <4>2 DEF Rivals
    <3>3. js \cap Window(j)' \subseteq old \cap Window(j)
          /\ js \cap db'.listed \subseteq old \cap db.listed
      BY <1>1, <2>2, <2>5, <3>1, <3>2 DEF Window
    <3>4. Limited(old, j) /\ IsFiniteSet(old)
      <4>1. db.births[j].at # Never
        BY <1>9, <3>1
      <4>. QED BY <3>1, <3>2, <4>1, LimitsApart, RivalsWereBorn DEF Booked
    <3>5. IsFiniteSet(old \cap Window(j)) /\ IsFiniteSet(old \cap db.listed)
      BY <3>4, FS_Subset
    <3>6. Cardinality(js \cap Window(j)') <= MaxCreations
      BY <2>3, <3>3, <3>4, <3>5, FewerAreFew DEF Limited
    <3>7. Cardinality(js \cap db'.listed) <= 1
      BY <2>3, <3>3, <3>4, <3>5, FewerAreFew DEF Limited
    <3>. QED BY <3>6, <3>7 DEF Limited
  <2>. QED BY <2>4, <2>5
<1>10. OriginsAreLimited'
  <2>1. OriginsAreLimited' <=>
          \A j \in Job : db'.births[j].at # Never => \A js \in Rivals(j)' : Limited(js, j)'
    BY DEF OriginsAreLimited, Rivals, Window, Limited
  <2>. QED BY <1>9, <2>1
<1>. QED BY <1>4, <1>5, <1>6, <1>10 DEF Booked

\* What browsers ask for neither admits nor unlists a job.
LEMMA SwarmStepsKeep ==
    ASSUME IInv, SwarmStep
    PROVE  db'.births = db.births /\ db'.listed = db.listed /\ db'.created = db.created /\ now' = now
<1>. DEFINE Same(d) == d.births = db.births /\ d.listed = db.listed /\ d.created = db.created
<1>1. Good(ExpireAssignments(db)) /\ Same(ExpireAssignments(db))
  BY ExpireGood DEF ExpireAssignments, IInv, Good, Database
<1>2. ASSUME NEW s \in Session, NEW report \in Report \cup {NoReport}
      PROVE  Same(Settled(s, report))
  <2>. DEFINE e == ExpireAssignments(db)
  <2>1. Good(e) /\ Same(e)
    BY <1>1
  <2>. HIDE DEF e
  <2>2. ASSUME NEW a, NEW actual
        PROVE  Same(Reconcile(e, a, actual))
    BY <2>1 DEF Reconcile, Good, Database
  <2>. HIDE DEF Same
  <2>. QED BY <2>1, <2>2 DEF Settled, e
<1>3. ASSUME NEW s \in Session, NEW report \in Report \cup {NoReport},
             AssignInvalid(s, report) \/ AssignNothing(s, report)
      PROVE  Same(db') /\ now' = now
  BY <1>1, <1>2, <1>3 DEF AssignInvalid, AssignNothing
<1>4. ASSUME NEW s \in Session, NEW offer \in 1..MaxOffer, NEW report \in Report \cup {NoReport},
             Assign(s, offer, report)
      PROVE  Same(db') /\ now' = now
  <2>. DEFINE d == Settled(s, report)
  <2>1. Good(d) /\ Same(d)
    BY <1>2, SettledGood, ReportsAreAny
  <2>. HIDE DEF d
  <2>2. /\ now' = now
        /\ \E j \in FairChoices(d), a \in AssignmentId, w \in 1..MaxWorkers :
             db' = Reserve(d, a, s, j, w)
    BY <1>4, AssignFacts, ReportsAreAny DEF d
  <2>. QED BY <2>1, <2>2 DEF Reserve, Good, Database
<1>5. ASSUME NEW s \in Session, NEW a \in AssignmentId, NEW j \in Job, Activate(a, s, j)
      PROVE  Same(db') /\ now' = now
  <2>. DEFINE e == ExpireAssignments(db)
  <2>. HIDE DEF e
  <2>1. now' = now /\ \/ db' = e
                       \/ \E row : db' = [e EXCEPT !.row[a] = row]
    BY <1>5 DEF Activate, e
  <2>2. Good(e) /\ Same(e)
    BY <1>1 DEF e
  <2>. QED BY <2>1, <2>2 DEF Good, Database
<1>. QED BY <1>3, <1>4, <1>5 DEF SwarmStep

\* Every other step only ages.
LEMMA NextBooked == IInv /\ Booked /\ [Next]_vars => Booked'
<1>. SUFFICES ASSUME IInv, Booked, [Next]_vars PROVE Booked'
  OBVIOUS
<1>0. now \in Nat /\ db.listed \subseteq Job /\ db.created \subseteq Job
  BY GoodTypes DEF IInv
<1>1. ASSUME NEW origin \in Origins, NEW j \in Job, Admit(j, origin[1], origin[2])
      PROVE  Booked'
  BY <1>1, OriginsAreTyped, AdmissionBooked
<1>2. ASSUME \/ UNCHANGED vars
             \/ \E c \in Challenge : ConsumeTurnstile(c)
             \/ \E j \in Job, eligible \in BOOLEAN : SetEligible(j, eligible)
             \/ Tick
      PROVE  Ages
  <2>1. /\ db'.births = db.births /\ db'.listed = db.listed /\ db'.created = db.created
        /\ now' \in Nat /\ now <= now'
    <3>1. CASE UNCHANGED vars \/ Tick
      BY <1>0, <3>1 DEF vars, Tick
    <3>2. CASE \E c \in Challenge : ConsumeTurnstile(c)
      BY <1>0, <3>2 DEF ConsumeTurnstile, IInv, Good, Database
    <3>3. CASE \E j \in Job, eligible \in BOOLEAN : SetEligible(j, eligible)
      BY <1>0, <3>3 DEF SetEligible, IInv, Good, Database
    <3>. QED BY <1>2, <3>1, <3>2, <3>3
  <2>. QED BY <2>1 DEF Ages, Booked
<1>3. ASSUME NEW origin \in Origins, AdmitRefused(origin[1], origin[2])
      PROVE  Ages
  BY <1>0, <1>3 DEF AdmitRefused, RecentCreations, Ages, Booked, IInv, Good, Database
<1>4. ASSUME NEW j \in Job, Rollback(j)
      PROVE  Ages
  <2>1. /\ db'.births = [db.births EXCEPT ![j] = Unborn] /\ db'.listed = db.listed \ {j}
        /\ db'.created = db.created \ {j} /\ now' = now
    BY <1>4 DEF Rollback, Unlist, IInv, Good, Database
  <2>. QED BY <1>0, <2>1, GoodTypes DEF Ages, Booked, IInv
<1>5. ASSUME NEW j \in Job, Close(j)
      PROVE  Ages
  <2>1. /\ db'.births = db.births /\ db'.listed = db.listed \ {j}
        /\ db'.created = db.created /\ now' = now
    BY <1>5 DEF Close, Unlist, IInv, Good, Database
  <2>. QED BY <1>0, <2>1 DEF Ages, Booked
<1>6. ASSUME SwarmStep
      PROVE  Ages
  <2>1. db'.births = db.births /\ db'.listed = db.listed /\ db'.created = db.created /\ now' = now
    BY <1>6, SwarmStepsKeep
  <2>. QED BY <1>0, <2>1 DEF Ages, Booked
<1>7. ASSUME Alarm
      PROVE  Ages
  <2>. DEFINE e == ExpireAssignments(db)
  <2>1. e \in Database /\ e.births = db.births /\ e.listed = db.listed
    BY ExpireGood DEF ExpireAssignments, IInv, Good, Database
  <2>. HIDE DEF e
  <2>2. /\ db'.births = db.births /\ db'.listed \subseteq db.listed
        /\ db'.created = RecentCreations /\ now' = now
    BY <1>7, <2>1 DEF Alarm, Unlist, Database, e
  <2>. QED BY <1>0, <2>2 DEF Ages, Booked, RecentCreations
<1>. QED BY <1>1, <1>2, <1>3, <1>4, <1>5, <1>6, <1>7, Aged DEF Next, AdmissionStep

\* Nothing is in the books at first.
LEMMA InitBooked == Init => Booked
<1>. SUFFICES ASSUME Init PROVE Booked
  OBVIOUS
<1>1. (\A k \in Job : db.births[k] = Unborn) /\ db.listed = {}
  BY DEF Init
<1>2. {k \in Job : db.births[k] # Unborn} = {}
  BY <1>1
<1>. QED BY <1>1, <1>2, FS_EmptySet DEF Booked, OriginsAreLimited, Unborn

\* No device and no network has two listed jobs, or starts more than MaxCreations
\* within a window, whatever is closed, rolled back, expired or forgotten.
THEOREM OriginsLimited == Spec => []OriginsAreLimited
<1>1. IInv /\ Booked /\ [Next]_vars => IInv' /\ Booked'
  BY NextGood, NextBooked
<1>2. Init => IInv /\ Booked
  BY InitGood, InitBooked
<1>3. Spec => [](IInv /\ Booked)
  BY <1>1, <1>2, PTL DEF Spec
<1>4. Booked => OriginsAreLimited
  BY DEF Booked
<1>. QED BY <1>3, <1>4, PTL

-----------------------------------------------------------------------------
(* Service.                                                                *)

\* What an assignment of database d has cost, a unit for each part of it, and
\* the cost of some assignments to a job.
ChargeIn(d, a) ==
    LET r == d.row[a] IN
    CASE r.status \in {"PENDING", "ACTIVE"} -> Reserved(d, a)
      [] r.status = "COMPLETE" -> r.actual
      [] r.status = "EXPIRED" /\ r.expires = r.assigned + Quantum -> Reserved(d, a)
      [] OTHER -> 0
Units(d, ids, j) ==
    {p \in ids \X (1..(Quantum * MaxWorkers)) : d.row[p[1]].job = j /\ p[2] <= ChargeIn(d, p[1])}
Cost(d, ids, j) == Cardinality(Units(d, ids, j))

\* The deadline of a row tells whether it was activated, and no report is of more
\* than was reserved.
Timed(r) ==
    /\ r.status = "PENDING" => r.expires = r.assigned + Activation
    /\ r.status = "ACTIVE" => r.expires = r.assigned + Quantum
    /\ r.status = "COMPLETE" => r.actual <= Quantum * r.workers
RowsAreTimed(d) == \A a \in AssignmentId : Timed(d.row[a])
Billed(d) ==
    \A j \in d.listed : d.account[j].virtual = d.births[j].virtual + Cost(d, AssignmentId, j)
Fair(d) == RowsAreTimed(d) /\ Billed(d)

LEMMA QuantumIsPositive ==
    Quantum \in Nat /\ Quantum # 0 /\ MaxWorkers \in Nat /\ Quantum * MaxWorkers \in Nat
<1>1. Quantum \in Nat /\ Quantum # 0 /\ MaxWorkers \in Nat
  BY SizesAssumption
<1>. QED BY <1>1

\* Every number up to a multiple of q lies in one row and one column.
LEMMA GridHolds ==
    ASSUME NEW q \in Nat \ {0}, NEW w \in Nat, NEW s \in 1..w, NEW c \in 1..q
    PROVE  q * (s - 1) + c \in 1..(q * w)
<1>1. s \in Nat /\ s - 1 \in Nat /\ w - s \in Nat
  OBVIOUS
<1>2. q * (s - 1) \in Nat /\ q * (w - s) \in Nat
  BY <1>1
<1>3. q * w = q * (s - 1) + q + q * (w - s)
  BY <1>1
<1>. QED BY <1>2, <1>3

LEMMA GridIsOneToOne ==
    ASSUME NEW q \in Nat \ {0}, NEW s \in Nat \ {0}, NEW t \in Nat \ {0},
           NEW c \in 1..q, NEW e \in 1..q, q * (s - 1) + c = q * (t - 1) + e
    PROVE  s = t /\ c = e
<1>1. ASSUME NEW x \in Nat \ {0}, NEW y \in Nat \ {0}, x < y
      PROVE  q * (x - 1) + q <= q * (y - 1)
  <2>1. y - 1 - x \in Nat
    BY <1>1
  <2>2. q * (y - 1 - x) \in Nat
    BY <2>1
  <2>3. q * (y - 1) = q * (x - 1) + q + q * (y - 1 - x)
    OBVIOUS
  <2>4. q * (x - 1) \in Nat /\ q * (y - 1) \in Nat
    OBVIOUS
  <2>. QED BY <2>2, <2>3, <2>4
<1>2. q * (s - 1) \in Nat /\ q * (t - 1) \in Nat
  OBVIOUS
<1>3. ~(s < t)
  <2>. SUFFICES ASSUME s < t PROVE FALSE
    OBVIOUS
  <2>1. q * (s - 1) + q <= q * (t - 1)
    BY <1>1
  <2>. QED BY <1>2, <2>1
<1>4. ~(t < s)
  <2>. SUFFICES ASSUME t < s PROVE FALSE
    OBVIOUS
  <2>1. q * (t - 1) + q <= q * (s - 1)
    BY <1>1
  <2>. QED BY <1>2, <2>1
<1>5. s = t
  BY <1>3, <1>4
<1>. QED BY <1>2, <1>5

LEMMA GridIsFull ==
    ASSUME NEW q \in Nat \ {0}, NEW w \in Nat, NEW n \in 1..(q * w)
    PROVE  \E s \in 1..w, c \in 1..q : n = q * (s - 1) + c
<1>. DEFINE s == ((n - 1) \div q) + 1
            c == ((n - 1) % q) + 1
<1>1. n - 1 \in Nat /\ q \in Nat /\ q > 0 /\ q * w \in Nat
  OBVIOUS
<1>2. (n - 1) \div q \in Nat /\ (n - 1) % q \in 0..(q - 1)
      /\ n - 1 = q * ((n - 1) \div q) + ((n - 1) % q)
  BY <1>1
<1>3. n = q * (s - 1) + c /\ c \in 1..q /\ s \in Nat /\ s >= 1
  BY <1>1, <1>2
<1>4. s <= w
  <2>. SUFFICES ASSUME w < s PROVE FALSE
    BY <1>3
  <2>. HIDE DEF s, c
  <2>1. s - 1 - w \in Nat
    BY <1>3
  <2>2. q * (s - 1 - w) \in Nat
    BY <2>1
  <2>3. q * (s - 1) = q * w + q * (s - 1 - w)
    BY <1>3
  <2>. QED BY <1>1, <1>3, <2>2, <2>3
<1>5. s \in 1..w
  BY <1>3, <1>4
<1>. HIDE DEF s, c
<1>. QED BY <1>3, <1>5

LEMMA UnitsFinite ==
    ASSUME NEW d, NEW ids \in SUBSET AssignmentId, NEW j
    PROVE  IsFiniteSet(Units(d, ids, j)) /\ Cost(d, ids, j) \in Nat
<1>1. MaxAssignments \in Int /\ Quantum * MaxWorkers \in Int /\ 1 \in Int
  BY QuantumIsPositive, SizesAssumption
<1>2. IsFiniteSet(1..MaxAssignments) /\ IsFiniteSet(1..(Quantum * MaxWorkers))
  BY <1>1, FS_Interval
<1>3. IsFiniteSet(AssignmentId \X (1..(Quantum * MaxWorkers)))
  BY <1>2, FS_Product DEF AssignmentId
<1>4. Units(d, ids, j) \in SUBSET (AssignmentId \X (1..(Quantum * MaxWorkers)))
  BY DEF Units
<1>. QED BY <1>3, <1>4, FS_Subset, FS_CardinalityType DEF Cost

\* The costs of two disjoint sets of assignments add up.
LEMMA CostsAdd ==
    ASSUME NEW d, NEW A \in SUBSET AssignmentId, NEW B \in SUBSET A, NEW j
    PROVE  Cost(d, A, j) = Cost(d, A \ B, j) + Cost(d, B, j)
<1>1. Units(d, A, j) = Units(d, A \ B, j) \cup Units(d, B, j)
  BY DEF Units
<1>2. Units(d, A \ B, j) \cap Units(d, B, j) = {}
  BY DEF Units
<1>3. /\ IsFiniteSet(Units(d, A \ B, j)) /\ IsFiniteSet(Units(d, B, j))
      /\ Cost(d, A \ B, j) \in Nat /\ Cost(d, B, j) \in Nat
  BY UnitsFinite
<1>4. Cardinality(Units(d, A \ B, j) \cap Units(d, B, j)) = 0
  BY <1>2, FS_EmptySet
<1>5. Cost(d, A, j) = Cost(d, A \ B, j) + Cost(d, B, j)
                        - Cardinality(Units(d, A \ B, j) \cap Units(d, B, j))
  BY <1>1, <1>3, FS_Union DEF Cost
<1>. QED BY <1>3, <1>4, <1>5

\* The cost to a job depends on what its own assignments are charged.
LEMMA CostSame ==
    ASSUME NEW d, NEW e, NEW ids \in SUBSET AssignmentId, NEW j,
           \A a \in ids : e.row[a].job = d.row[a].job,
           \A a \in ids : d.row[a].job = j => ChargeIn(e, a) = ChargeIn(d, a)
    PROVE  Cost(e, ids, j) = Cost(d, ids, j)
<1>1. Units(e, ids, j) = Units(d, ids, j)
  BY DEF Units
<1>. QED BY <1>1 DEF Cost

LEMMA NoCost ==
    ASSUME NEW d, NEW ids \in SUBSET AssignmentId, NEW j,
           \A a \in ids : d.row[a].job = j => ChargeIn(d, a) = 0
    PROVE  Cost(d, ids, j) = 0
<1>1. Units(d, ids, j) = {}
  BY QuantumIsPositive DEF Units
<1>. QED BY <1>1, FS_EmptySet DEF Cost

LEMMA Reservations ==
    ASSUME NEW d, Good(d), NEW a \in AssignmentId
    PROVE  /\ Reserved(d, a) = Quantum * d.row[a].workers
           /\ Reserved(d, a) \in 0..(Quantum * MaxWorkers)
<1>1. d.row[a].workers \in 0..MaxWorkers
  BY RowWorkers
<1>. DEFINE w == d.row[a].workers
<1>. HIDE DEF w
<1>2. w \in Nat /\ MaxWorkers - w \in Nat
  BY <1>1, QuantumIsPositive DEF w
<1>3. Quantum * w \in Nat /\ Quantum * (MaxWorkers - w) \in Nat
      /\ Quantum * MaxWorkers = Quantum * w + Quantum * (MaxWorkers - w)
  BY <1>2, QuantumIsPositive
<1>4. Quantum * w \in 0..(Quantum * MaxWorkers)
  BY <1>3, QuantumIsPositive
<1>. QED BY <1>4 DEF Reserved, w

LEMMA ChargesFit ==
    ASSUME NEW d, Good(d), RowsAreTimed(d), NEW a \in AssignmentId
    PROVE  ChargeIn(d, a) \in 0..(Quantum * MaxWorkers)
<1>1. d.row[a] \in AssignmentRow /\ Timed(d.row[a])
  BY GoodTypes DEF RowsAreTimed
<1>2. d.row[a].actual \in Nat /\ (d.row[a].status = "COMPLETE" => d.row[a].actual <= Reserved(d, a))
  BY <1>1, Reservations DEF Timed, AssignmentRow
<1>3. Reserved(d, a) \in 0..(Quantum * MaxWorkers) /\ Quantum * MaxWorkers \in Nat
  BY Reservations, QuantumIsPositive
<1>4. \/ ChargeIn(d, a) = Reserved(d, a)
      \/ ChargeIn(d, a) = 0
      \/ d.row[a].status = "COMPLETE" /\ ChargeIn(d, a) = d.row[a].actual
  BY <1>1 DEF ChargeIn, AssignmentRow
<1>. QED BY <1>2, <1>3, <1>4

LEMMA CostOfOne ==
    ASSUME NEW d, NEW a \in AssignmentId, NEW j, ChargeIn(d, a) \in 0..(Quantum * MaxWorkers)
    PROVE  Cost(d, {a}, j) = IF d.row[a].job = j THEN ChargeIn(d, a) ELSE 0
<1>1. CASE d.row[a].job # j
  BY <1>1, NoCost
<1>2. CASE d.row[a].job = j
  <2>. DEFINE c == ChargeIn(d, a)
              top == Quantum * MaxWorkers
  <2>1. c \in 0..top /\ top \in Nat
    BY QuantumIsPositive
  <2>2. Units(d, {a}, j) = {p \in {a} \X (1..top) : p[2] <= c}
    BY <1>2 DEF Units
  <2>. HIDE DEF c, top
  <2>3. \A n \in 1..top : n <= c <=> n \in 1..c
    BY <2>1
  <2>4. 1..c \subseteq 1..top
    BY <2>1
  <2>5. Units(d, {a}, j) = {a} \X (1..c)
    BY <2>2, <2>3, <2>4
  <2>6. IsFiniteSet({a}) /\ Cardinality({a}) = 1
    BY FS_Singleton
  <2>7. IsFiniteSet(1..c) /\ Cardinality(1..c) = IF 1 > c THEN 0 ELSE c - 1 + 1
    BY <2>1, FS_Interval
  <2>8. Cardinality({a} \X (1..c)) = Cardinality({a}) * Cardinality(1..c)
    BY <2>6, <2>7, FS_Product
  <2>9. Cardinality(1..c) = c /\ c \in Nat
    BY <2>1, <2>7
  <2>10. Cardinality({a}) * Cardinality(1..c) = c
    BY <2>6, <2>9
  <2>. QED BY <1>2, <2>5, <2>8, <2>10 DEF Cost, c
<1>. QED BY <1>1, <1>2

\* A reservation costs a quantum for each of its workers.
LEMMA ReservationsCost ==
    ASSUME NEW d, Good(d), NEW ids \in SUBSET AssignmentId, NEW j,
           \A a \in ids : ChargeIn(d, a) = Reserved(d, a)
    PROVE  Cost(d, ids, j) = Quantum * Workers(d, ids, j)
<1>. DEFINE S == Seats(d, ids, j) \X (1..Quantum)
            U == Units(d, ids, j)
            unit(x) == <<x[1][1], Quantum * (x[1][2] - 1) + x[2]>>
            f == [x \in S |-> unit(x)]
<1>1. Quantum \in Nat \ {0} /\ MaxWorkers \in Nat
  BY QuantumIsPositive
<1>2. \A a \in ids : d.row[a].workers \in 0..MaxWorkers
                     /\ ChargeIn(d, a) = Quantum * d.row[a].workers
                     /\ ChargeIn(d, a) \in 0..(Quantum * MaxWorkers)
  BY RowWorkers, Reservations
<1>3. ASSUME NEW x \in S
      PROVE  /\ x = <<<<x[1][1], x[1][2]>>, x[2]>>
             /\ x[1][1] \in ids /\ x[1][2] \in 1..d.row[x[1][1]].workers /\ x[2] \in 1..Quantum
             /\ d.row[x[1][1]].job = j
  BY <1>1, <1>2 DEF Seats
<1>4. ASSUME NEW x \in S
      PROVE  unit(x) \in U
  <2>1. d.row[x[1][1]].workers \in Nat
    BY <1>2, <1>3
  <2>2. Quantum * (x[1][2] - 1) + x[2] \in 1..(Quantum * d.row[x[1][1]].workers)
    BY <1>1, <1>3, <2>1, GridHolds
  <2>3. Quantum * d.row[x[1][1]].workers \in 0..(Quantum * MaxWorkers)
    BY <1>2, <1>3
  <2>. DEFINE n == Quantum * (x[1][2] - 1) + x[2]
              c == Quantum * d.row[x[1][1]].workers
  <2>. HIDE DEF n, c
  <2>4. n \in 1..(Quantum * MaxWorkers) /\ n <= c
    BY <2>2, <2>3, QuantumIsPositive DEF n, c
  <2>5. n <= ChargeIn(d, x[1][1])
    BY <1>2, <1>3, <2>4 DEF c
  <2>. QED BY <1>3, <2>4, <2>5 DEF Units, n
<1>5. ASSUME NEW x \in S, NEW y \in S, unit(x) = unit(y)
      PROVE  x = y
  <2>1. x[1][2] \in Nat \ {0} /\ y[1][2] \in Nat \ {0}
    BY <1>2, <1>3
  <2>2. x[1][1] = y[1][1] /\ Quantum * (x[1][2] - 1) + x[2] = Quantum * (y[1][2] - 1) + y[2]
    BY <1>5
  <2>3. x[1][2] = y[1][2] /\ x[2] = y[2]
    BY <1>1, <1>3, <2>1, <2>2, GridIsOneToOne
  <2>. QED BY <1>3, <2>2, <2>3
<1>6. ASSUME NEW p \in U
      PROVE  \E x \in S : unit(x) = p
  <2>1. /\ p = <<p[1], p[2]>> /\ p[1] \in ids /\ d.row[p[1]].job = j
        /\ p[2] \in 1..(Quantum * MaxWorkers) /\ p[2] <= ChargeIn(d, p[1])
    BY DEF Units
  <2>2. d.row[p[1]].workers \in Nat /\ p[2] \in 1..(Quantum * d.row[p[1]].workers)
    <3>1. /\ d.row[p[1]].workers \in 0..MaxWorkers
          /\ ChargeIn(d, p[1]) = Quantum * d.row[p[1]].workers
      BY <1>2, <2>1
    <3>2. p[2] \in Nat /\ p[2] >= 1
      BY <2>1, QuantumIsPositive
    <3>3. Quantum * d.row[p[1]].workers \in Nat
      BY <1>1, <3>1
    <3>. QED BY <1>1, <2>1, <3>1, <3>2, <3>3
  <2>3. PICK s \in 1..d.row[p[1]].workers, c \in 1..Quantum : p[2] = Quantum * (s - 1) + c
    BY <1>1, <2>2, GridIsFull
  <2>4. <<p[1], s>> \in Seats(d, ids, j)
    BY <1>1, <1>2, <2>1, <2>3 DEF Seats
  <2>5. <<<<p[1], s>>, c>> \in S
    BY <2>3, <2>4
  <2>6. unit(<<<<p[1], s>>, c>>) = p
    BY <2>1, <2>3
  <2>. QED BY <2>5, <2>6
<1>. HIDE DEF S, U, unit
<1>7. f \in Bijection(S, U)
  <2>1. f \in [S -> U] /\ \A x \in S : f[x] = unit(x)
    BY <1>4
  <2>2. \A x, y \in S : f[x] = f[y] => x = y
    BY <1>5, <2>1
  <2>3. \A p \in U : \E x \in S : f[x] = p
    BY <1>6, <2>1
  <2>4. \A x, y \in DOMAIN f : f[x] = f[y] => x = y
    BY <2>2
  <2>. HIDE DEF f
  <2>5. f \in Injection(S, U)
    BY <2>1, <2>2 DEF Injection, IsInjective
  <2>6. f \in Surjection(S, U)
    BY <2>1, <2>3 DEF Surjection
  <2>. QED BY <2>5, <2>6 DEF Bijection
<1>8. IsFiniteSet(Seats(d, ids, j)) /\ IsFiniteSet(1..Quantum) /\ Cardinality(1..Quantum) = Quantum
  <2>1. IsFiniteSet(1..Quantum) /\ Cardinality(1..Quantum) = IF 1 > Quantum THEN 0 ELSE Quantum - 1 + 1
    BY <1>1, FS_Interval
  <2>. QED BY <1>1, <2>1, SeatsFinite
<1>9. IsFiniteSet(S) /\ Cardinality(S) = Workers(d, ids, j) * Quantum
  BY <1>8, FS_Product DEF S, Workers
<1>10. Cardinality(U) = Cardinality(S)
  BY <1>7, <1>9, FS_Bijection DEF ExistsBijection
<1>. QED BY <1>1, <1>9, <1>10, SeatsFinite DEF Cost, U

\* What has no effect on assignments and charges has none on the bills.
LEMMA SameBills ==
    ASSUME NEW d, NEW e, Fair(d), e.row = d.row, e.listed \subseteq d.listed,
           \A j \in e.listed : /\ e.account[j].virtual = d.account[j].virtual
                               /\ e.births[j].virtual = d.births[j].virtual
    PROVE  Fair(e)
<1>1. RowsAreTimed(e)
  BY DEF Fair, RowsAreTimed
<1>2. ASSUME NEW j \in e.listed
      PROVE  Cost(e, AssignmentId, j) = Cost(d, AssignmentId, j)
  BY CostSame DEF ChargeIn, Reserved
<1>. QED BY <1>1, <1>2 DEF Fair, Billed

LEMMA UnlistFair ==
    ASSUME NEW d, Good(d), Fair(d), NEW js \in SUBSET Job
    PROVE  Fair(Unlist(d, js))
<1>1. \A j \in d.listed \ js : Unlist(d, js).account[j] = d.account[j]
  BY GoodTypes DEF Unlist, Good, Database
<1>2. Unlist(d, js).births = d.births
  BY DEF Unlist, Good, Database
<1>. QED BY <1>1, <1>2, UnlistGood, SameBills

\* An assignment that was never activated is taken off the bill when it expires;
\* one that was stays on it.
LEMMA ExpireFair ==
    ASSUME NEW d, Good(d), Fair(d)
    PROVE  Fair(ExpireAssignments(d))
<1>. DEFINE e == ExpireAssignments(d)
            due == DueIds(d)
            unused == {a \in due : d.row[a].status = "PENDING"}
            rest == AssignmentId \ unused
<1>1. unused \in SUBSET AssignmentId /\ rest \in SUBSET AssignmentId
  BY DEF DueIds, LiveIds
<1>2. e.births = d.births /\ e.listed = d.listed
  BY DEF ExpireAssignments, Good, Database
<1>3. \A a \in AssignmentId :
        e.row[a] = IF a \in due THEN [d.row[a] EXCEPT !.status = "EXPIRED"] ELSE d.row[a]
  BY DEF ExpireAssignments, Good, Database
<1>4. \A j \in d.listed :
        e.account[j].virtual = NotNegative(d.account[j].virtual - Quantum * Workers(d, unused, j))
  <2>1. \A j \in d.listed : j \in Job /\ d.account[j] \in Account
    BY GoodTypes
  <2>2. \A j \in d.listed :
          e.account[j] = [d.account[j] EXCEPT
                            !.virtual = NotNegative(@ - Quantum * Workers(d, unused, j)),
                            !.assigned = NotNegative(@ - Workers(d, due, j))]
    BY <2>1 DEF ExpireAssignments, Good, Database
  <2>. HIDE DEF e, due, unused
  <2>. QED BY <2>1, <2>2 DEF Account
<1>. HIDE DEF e
<1>5. ASSUME NEW a \in AssignmentId
      PROVE  /\ Timed(e.row[a]) /\ e.row[a].job = d.row[a].job
             /\ a \in unused => ChargeIn(d, a) = Reserved(d, a) /\ ChargeIn(e, a) = 0
             /\ a \notin unused => ChargeIn(e, a) = ChargeIn(d, a)
  <2>1. d.row[a] \in AssignmentRow /\ Timed(d.row[a])
    BY GoodTypes DEF Fair, RowsAreTimed
  <2>2. CASE a \notin due
    BY <1>3, <2>1, <2>2 DEF ChargeIn, Reserved
  <2>3. CASE a \in due
    <3>1. /\ e.row[a].status = "EXPIRED" /\ e.row[a].job = d.row[a].job
          /\ e.row[a].workers = d.row[a].workers /\ e.row[a].expires = d.row[a].expires
          /\ e.row[a].assigned = d.row[a].assigned
      BY <1>3, <2>1, <2>3 DEF AssignmentRow
    <3>2. d.row[a].status \in {"PENDING", "ACTIVE"}
      BY <2>3 DEF DueIds, LiveIds, Live
    <3>3. d.row[a].status = "PENDING" => e.row[a].expires # e.row[a].assigned + Quantum
      BY <2>1, <3>1, SizesAssumption DEF Timed, AssignmentRow
    <3>4. d.row[a].status = "ACTIVE" => e.row[a].expires = e.row[a].assigned + Quantum
      BY <2>1, <3>1 DEF Timed
    <3>. QED BY <2>3, <3>1, <3>2, <3>3, <3>4 DEF ChargeIn, Reserved, Timed
  <2>. QED BY <2>2, <2>3
<1>. HIDE DEF due
<1>6. ASSUME NEW j \in d.listed
      PROVE  e.account[j].virtual = e.births[j].virtual + Cost(e, AssignmentId, j)
  <2>1. /\ Cost(d, AssignmentId, j) = Cost(d, rest, j) + Cost(d, unused, j)
        /\ Cost(e, AssignmentId, j) = Cost(e, rest, j) + Cost(e, unused, j)
    BY <1>1, CostsAdd
  <2>2. Cost(d, unused, j) = Quantum * Workers(d, unused, j)
    BY <1>1, <1>5, ReservationsCost
  <2>3. Cost(e, unused, j) = 0
    BY <1>1, <1>5, NoCost
  <2>4. Cost(e, rest, j) = Cost(d, rest, j)
    BY <1>1, <1>5, CostSame
  <2>5. Cost(d, rest, j) \in Nat /\ Cost(d, unused, j) \in Nat /\ Cost(d, AssignmentId, j) \in Nat
    BY <1>1, UnitsFinite
  <2>6. d.account[j].virtual = d.births[j].virtual + Cost(d, AssignmentId, j)
        /\ d.births[j].virtual \in Nat
    BY GoodTypes DEF Fair, Billed, Birth
  <2>7. e.account[j].virtual = NotNegative(d.account[j].virtual - Cost(d, unused, j))
    BY <1>4, <2>2
  <2>. QED BY <1>2, <2>1, <2>3, <2>4, <2>5, <2>6, <2>7 DEF NotNegative, Greatest
<1>. QED BY <1>2, <1>5, <1>6 DEF Fair, RowsAreTimed, Billed, e

\* One row changes, and the ledger of its job by as much as its charge.
LEMMA OneBill ==
    ASSUME NEW d, Good(d), Fair(d), NEW e, Good(e), NEW a \in AssignmentId,
           \A b \in AssignmentId : b # a => e.row[b] = d.row[b],
           Timed(e.row[a]), e.listed = d.listed, e.births = d.births,
           \A j \in d.listed : e.account[j].virtual =
             d.account[j].virtual - (IF d.row[a].job = j THEN ChargeIn(d, a) ELSE 0)
                                  + (IF e.row[a].job = j THEN ChargeIn(e, a) ELSE 0)
    PROVE  Fair(e)
<1>1. RowsAreTimed(d) /\ RowsAreTimed(e)
  BY DEF Fair, RowsAreTimed
<1>2. ChargeIn(d, a) \in 0..(Quantum * MaxWorkers) /\ ChargeIn(e, a) \in 0..(Quantum * MaxWorkers)
  BY <1>1, ChargesFit
<1>. DEFINE rest == AssignmentId \ {a}
<1>3. ASSUME NEW j \in d.listed
      PROVE  e.account[j].virtual = e.births[j].virtual + Cost(e, AssignmentId, j)
  <2>1. /\ Cost(d, AssignmentId, j) = Cost(d, rest, j) + Cost(d, {a}, j)
        /\ Cost(e, AssignmentId, j) = Cost(e, rest, j) + Cost(e, {a}, j)
    BY CostsAdd
  <2>2. Cost(e, rest, j) = Cost(d, rest, j)
    BY CostSame DEF ChargeIn, Reserved
  <2>3. /\ Cost(d, {a}, j) = (IF d.row[a].job = j THEN ChargeIn(d, a) ELSE 0)
        /\ Cost(e, {a}, j) = (IF e.row[a].job = j THEN ChargeIn(e, a) ELSE 0)
    BY <1>2, CostOfOne
  <2>4. Cost(d, rest, j) \in Nat /\ Cost(d, {a}, j) \in Nat /\ Cost(e, {a}, j) \in Nat
    BY UnitsFinite
  <2>5. d.account[j].virtual = d.births[j].virtual + Cost(d, AssignmentId, j)
        /\ d.births[j].virtual \in Nat
    BY GoodTypes DEF Fair, Billed, Birth
  <2>6. e.account[j].virtual = d.account[j].virtual - Cost(d, {a}, j) + Cost(e, {a}, j)
    BY <2>3
  <2>. QED BY <2>1, <2>2, <2>4, <2>5, <2>6
<1>. QED BY <1>1, <1>3 DEF Fair, Billed

\* A report puts the time worked in the place of the time reserved.
LEMMA ReconcileFair ==
    ASSUME NEW d, Good(d), Fair(d), NEW a \in AssignmentId, NEW actual \in Nat,
           actual <= Reserved(d, a)
    PROVE  Fair(Reconcile(d, a, actual))
<1>1. CASE ~Live(d, a)
  BY <1>1 DEF Reconcile
<1>2. CASE Live(d, a)
  <2>. DEFINE e == Reconcile(d, a, actual)
  <2>0. Good(e)
    BY ReconcileGood
  <2>1. e.births = d.births /\ e.listed = d.listed
    BY <1>2 DEF Reconcile, Good, Database
  <2>2. e.row = [d.row EXCEPT ![a] = [@ EXCEPT !.status = "COMPLETE", !.actual = actual]]
    BY <1>2 DEF Reconcile, Good, Database
  <2>3. \A j \in d.listed : e.account[j] =
          IF j = d.row[a].job THEN SettledAccount(d.account[j], d.row[a], actual) ELSE d.account[j]
    BY <1>2, GoodTypes DEF Reconcile, Good, Database
  <2>. HIDE DEF e
  <2>4. d.row[a] \in AssignmentRow /\ d.row \in [AssignmentId -> AssignmentRow]
    BY GoodTypes
  <2>5. /\ e.row[a].status = "COMPLETE" /\ e.row[a].actual = actual
        /\ e.row[a].job = d.row[a].job /\ e.row[a].workers = d.row[a].workers
        /\ \A b \in AssignmentId : b # a => e.row[b] = d.row[b]
    BY <2>2, <2>4 DEF AssignmentRow
  <2>6. Timed(e.row[a]) /\ ChargeIn(e, a) = actual /\ ChargeIn(d, a) = Reserved(d, a)
    BY <1>2, <2>5 DEF Timed, ChargeIn, Reserved, Live
  <2>7. ASSUME NEW j \in d.listed, d.row[a].job = j
        PROVE  e.account[j].virtual = d.account[j].virtual - ChargeIn(d, a) + actual
    <3>1. Reserved(d, a) \in Nat /\ Reserved(d, a) = Quantum * d.row[a].workers
      BY Reservations, QuantumIsPositive
    <3>2. d.account[j] \in Account
      BY GoodTypes
    <3>3. e.account[j].virtual = ReconciledVirtualRuntime(d.account[j].virtual, Reserved(d, a), actual)
      BY <2>3, <2>7, <3>1, <3>2 DEF SettledAccount, Account
    <3>4. ChargeIn(d, a) <= d.account[j].virtual
      <4>1. Cost(d, AssignmentId, j) = Cost(d, AssignmentId \ {a}, j) + Cost(d, {a}, j)
        BY CostsAdd
      <4>2. Cost(d, AssignmentId \ {a}, j) \in Nat /\ Cost(d, {a}, j) \in Nat
        BY UnitsFinite
      <4>3. Cost(d, {a}, j) = ChargeIn(d, a)
        BY <2>7, ChargesFit, CostOfOne DEF Fair
      <4>4. d.account[j].virtual = d.births[j].virtual + Cost(d, AssignmentId, j)
            /\ d.births[j].virtual \in Nat
        BY GoodTypes DEF Fair, Billed, Birth
      <4>. QED BY <4>1, <4>2, <4>3, <4>4
    <3>. QED BY <2>6, <3>1, <3>2, <3>3, <3>4
         DEF ReconciledVirtualRuntime, NotNegative, Greatest, Least, Account
  <2>8. \A j \in d.listed : e.account[j].virtual =
             d.account[j].virtual - (IF d.row[a].job = j THEN ChargeIn(d, a) ELSE 0)
                                  + (IF e.row[a].job = j THEN ChargeIn(e, a) ELSE 0)
    <3>1. ASSUME NEW j \in d.listed, d.row[a].job # j
          PROVE  e.account[j].virtual = d.account[j].virtual /\ d.account[j].virtual \in Nat
      BY <2>3, <3>1, GoodTypes DEF Account
    <3>. QED BY <2>5, <2>6, <2>7, <3>1
  <2>. QED BY <2>0, <2>1, <2>5, <2>6, <2>8, OneBill, GoodTypes DEF e
<1>. QED BY <1>1, <1>2

\* A reservation is charged in full.
LEMMA ReserveFair ==
    ASSUME NEW d, Good(d), Fair(d), now \in Nat, NEW a \in AssignmentId, d.row[a].status = "NONE",
           NEW s \in Session, NEW j \in d.listed, NEW w \in 1..MaxWorkers,
           d.account[j].assigned + w <= MaxWorkers
    PROVE  Fair(Reserve(d, a, s, j, w))
<1>. DEFINE e == Reserve(d, a, s, j, w)
<1>0. Good(e)
  BY ReserveGood
<1>1. j \in Job /\ d.account[j] \in Account /\ Quantum * w \in Nat
  BY GoodTypes, QuantumIsPositive
<1>2. /\ e.births = d.births /\ e.listed = d.listed
      /\ \A b \in AssignmentId : b # a => e.row[b] = d.row[b]
      /\ e.row[a] = [status |-> "PENDING", job |-> j, session |-> s, workers |-> w,
                     actual |-> 0, assigned |-> now, expires |-> now + Activation]
      /\ \A k \in d.listed : k # j => e.account[k] = d.account[k]
      /\ e.account[j] = [d.account[j] EXCEPT !.virtual = @ + Quantum * w, !.assigned = @ + w,
                                             !.serviced = now]
  BY <1>1, GoodTypes DEF Reserve, Good, Database
<1>. HIDE DEF e
<1>3. e.row[a].job = j /\ Timed(e.row[a]) /\ ChargeIn(e, a) = Quantum * w /\ ChargeIn(d, a) = 0
  BY <1>2 DEF Timed, ChargeIn, Reserved
<1>4. e.account[j].virtual = d.account[j].virtual + Quantum * w
  BY <1>1, <1>2 DEF Account
<1>5. \A k \in d.listed : d.account[k].virtual \in Nat
  BY GoodTypes DEF Account
<1>6. \A k \in d.listed : e.account[k].virtual =
             d.account[k].virtual - (IF d.row[a].job = k THEN ChargeIn(d, a) ELSE 0)
                                  + (IF e.row[a].job = k THEN ChargeIn(e, a) ELSE 0)
  <2>. SUFFICES ASSUME NEW k \in d.listed
                PROVE  e.account[k].virtual =
                         d.account[k].virtual + (IF k = j THEN Quantum * w ELSE 0)
    BY <1>1, <1>3, <1>5
  <2>1. CASE k = j
    BY <1>4, <2>1
  <2>2. CASE k # j
    <3>1. e.account[k] = d.account[k] /\ d.account[k].virtual \in Nat
      BY <1>2, <1>5, <2>2
    <3>. QED BY <2>2, <3>1
  <2>. QED BY <2>1, <2>2
<1>. QED BY <1>0, <1>2, <1>3, <1>6, OneBill DEF e

LEMMA SettledFair ==
    ASSUME IInv, Fair(db), NEW s \in Session, NEW report \in Report \cup {NoReport},
           ReportAccepted(s, report)
    PROVE  Fair(Settled(s, report))
<1>. DEFINE e == ExpireAssignments(db)
<1>1. Good(e) /\ Fair(e)
  BY ExpireGood, ExpireFair DEF IInv
<1>2. report # NoReport => /\ report.assignment \in AssignmentId /\ report.actual \in Nat
                           /\ report.actual <= Reserved(e, report.assignment)
  <2>1. ReportedTimes \subseteq Nat
    BY SizesAssumption, InputsAssumption
  <2>. QED BY <2>1 DEF Report, ReportAccepted, Acceptable
<1>. HIDE DEF e
<1>. QED BY <1>1, <1>2, ReconcileFair DEF Settled, e

\* Fair refers to the tables of the database it is given only.
LEMMA FairNow ==
    ASSUME NEW d, Fair(d), db' = d
    PROVE  Fair(db)'
<1>1. RowsAreTimed(db)'
  BY DEF Fair, RowsAreTimed, Timed
<1>2. Billed(db)'
  BY DEF Fair, Billed, Cost, Units, ChargeIn, Reserved
<1>. QED BY <1>1, <1>2 DEF Fair

LEMMA AdmitFair ==
    ASSUME IInv, Fair(db), NEW n \in Job, NEW device, NEW network, Admit(n, device, network)
    PROVE  Fair(db')
<1>1. PICK virtual \in NewJobVirtualRuntimes(db) :
        /\ db'.births[n].virtual = virtual /\ db'.account[n].virtual = virtual
        /\ \A j \in Job : j # n => db'.births[j] = db.births[j] /\ db'.account[j] = db.account[j]
        /\ db'.listed = db.listed \cup {n} /\ db'.row = db.row
  BY DEF Admit, IInv, Good, Database
<1>2. virtual \in Nat /\ db.births[n].at = Never
  BY GoodTypes DEF Admit, Unborn, NewJobVirtualRuntimes, FairJobs, Account, IInv
<1>3. \A a \in AssignmentId : db.row[a].job # n
  BY <1>2 DEF IInv, Good, Admitted
<1>4. Cost(db', AssignmentId, n) = 0
  BY <1>1, <1>3, NoCost
<1>5. ASSUME NEW j \in Job
      PROVE  Cost(db', AssignmentId, j) = Cost(db, AssignmentId, j)
  BY <1>1, CostSame DEF ChargeIn, Reserved
<1>6. db'.account[n].virtual = db'.births[n].virtual + Cost(db', AssignmentId, n)
  BY <1>1, <1>2, <1>4
<1>7. ASSUME NEW j \in db.listed, j # n
      PROVE  db'.account[j].virtual = db'.births[j].virtual + Cost(db', AssignmentId, j)
  BY <1>1, <1>5, <1>7, GoodTypes DEF Fair, Billed, IInv
<1>. QED BY <1>1, <1>6, <1>7 DEF Fair, RowsAreTimed, Billed

LEMMA CloseFair ==
    ASSUME IInv, Fair(db), NEW n \in Job, Close(n)
    PROVE  Fair(db')
<1>1. /\ db'.births = db.births /\ db'.listed = db.listed \ {n}
      /\ \A j \in Job : j # n => db'.account[j] = db.account[j]
      /\ \A a \in AssignmentId : db'.row[a] =
           IF Live(db, a) /\ db.row[a].job = n
           THEN [db.row[a] EXCEPT !.status = "CANCELLED"] ELSE db.row[a]
  BY DEF Close, Unlist, IInv, Good, Database
<1>2. ASSUME NEW a \in AssignmentId
      PROVE  /\ Timed(db'.row[a]) /\ db'.row[a].job = db.row[a].job
             /\ db.row[a].job # n => db'.row[a] = db.row[a]
  <2>1. db.row[a] \in AssignmentRow /\ Timed(db.row[a])
    BY GoodTypes DEF IInv, Fair, RowsAreTimed
  <2>. QED BY <1>1, <2>1 DEF AssignmentRow, Timed
<1>3. ASSUME NEW j \in db'.listed
      PROVE  Cost(db', AssignmentId, j) = Cost(db, AssignmentId, j)
  BY <1>1, <1>2, CostSame DEF ChargeIn, Reserved
<1>4. ASSUME NEW j \in db'.listed
      PROVE  db'.account[j].virtual = db'.births[j].virtual + Cost(db', AssignmentId, j)
  <2>1. j \in db.listed /\ j # n /\ j \in Job
    BY <1>1, GoodTypes DEF IInv
  <2>. QED BY <1>1, <1>3, <2>1 DEF Fair, Billed
<1>. QED BY <1>2, <1>4 DEF Fair, RowsAreTimed, Billed

LEMMA ActivateFair ==
    ASSUME IInv, Fair(db), NEW a \in AssignmentId, NEW s \in Session, NEW j \in Job,
           Activate(a, s, j)
    PROVE  Fair(db')
<1>. DEFINE e == ExpireAssignments(db)
            r == [e.row[a] EXCEPT !.status = "ACTIVE", !.assigned = now, !.expires = now + Quantum]
            d == [e EXCEPT !.row = [e.row EXCEPT ![a] = r]]
<1>1. Good(e) /\ Fair(e)
  BY ExpireGood, ExpireFair DEF IInv
<1>2. db' = e \/ (e.row[a].status = "PENDING" /\ db' = d)
  BY DEF Activate
<1>. HIDE DEF e
<1>3. ASSUME e.row[a].status = "PENDING"
      PROVE  Fair(d)
  <2>1. e.row[a] \in AssignmentRow
    BY <1>1, GoodTypes
  <2>2. /\ d.births = e.births /\ d.listed = e.listed /\ d.account = e.account
        /\ d.row = [e.row EXCEPT ![a] = r]
    BY <1>1 DEF Good, Database
  <2>3. /\ r.status = "ACTIVE" /\ r.job = e.row[a].job /\ r.workers = e.row[a].workers
        /\ r.expires = r.assigned + Quantum
    BY <2>1 DEF AssignmentRow
  <2>. HIDE DEF r, d
  <2>4. d.row[a] = r /\ \A b \in AssignmentId : b # a => d.row[b] = e.row[b]
    BY <1>1, <2>2, GoodTypes
  <2>5. RowsAreTimed(d)
    BY <1>1, <2>3, <2>4 DEF Fair, RowsAreTimed, Timed
  <2>6. \A b \in AssignmentId : d.row[b].job = e.row[b].job /\ ChargeIn(d, b) = ChargeIn(e, b)
    BY <1>3, <2>3, <2>4 DEF ChargeIn, Reserved
  <2>7. \A k \in e.listed : Cost(d, AssignmentId, k) = Cost(e, AssignmentId, k)
    BY <2>6, CostSame
  <2>. QED BY <1>1, <2>2, <2>5, <2>7 DEF Fair, Billed
<1>. QED BY <1>1, <1>2, <1>3

LEMMA NextFair == IInv /\ Fair(db) /\ [Next]_vars => Fair(db)'
<1>. SUFFICES ASSUME IInv, Fair(db), [Next]_vars PROVE Fair(db')
  BY FairNow
<1>1. CASE UNCHANGED vars \/ Tick
  BY <1>1 DEF vars, Tick
<1>2. CASE AdmissionStep
  <2>1. ASSUME \/ \E c \in Challenge : ConsumeTurnstile(c)
               \/ \E origin \in Origins : AdmitRefused(origin[1], origin[2])
        PROVE  Fair(db')
    <3>1. db'.row = db.row /\ db'.listed = db.listed /\ db'.account = db.account
          /\ db'.births = db.births
      BY <2>1 DEF ConsumeTurnstile, AdmitRefused, IInv, Good, Database
    <3>. QED BY <3>1, SameBills
  <2>2. ASSUME NEW j \in Job, Rollback(j) PROVE Fair(db')
    <3>1. /\ db'.row = db.row /\ db'.listed = db.listed \ {j}
          /\ \A k \in Job : k # j => db'.account[k] = db.account[k] /\ db'.births[k] = db.births[k]
      BY <2>2 DEF Rollback, Unlist, IInv, Good, Database
    <3>2. \A k \in db'.listed : k \in Job /\ k # j
      BY <3>1, GoodTypes DEF IInv
    <3>. QED BY <3>1, <3>2, SameBills
  <2>3. ASSUME NEW j \in Job, NEW eligible \in BOOLEAN, SetEligible(j, eligible) PROVE Fair(db')
    <3>1. db.account \in [Job -> Account] /\ db.listed \subseteq Job
      BY GoodTypes DEF IInv
    <3>2. db'.row = db.row /\ db'.listed = db.listed /\ db'.births = db.births
          /\ db'.account = [db.account EXCEPT ![j] = [@ EXCEPT !.eligible = eligible, !.serviced = now]]
      BY <2>3 DEF SetEligible, IInv, Good, Database
    <3>3. \A k \in db'.listed : db'.account[k].virtual = db.account[k].virtual
      BY <3>1, <3>2 DEF Account
    <3>. QED BY <3>2, <3>3, SameBills
  <2>. QED BY <1>2, <2>1, <2>2, <2>3, AdmitFair, CloseFair DEF AdmissionStep
<1>3. CASE SwarmStep
  <2>1. ASSUME NEW s \in Session, NEW report \in Report \cup {NoReport},
               AssignInvalid(s, report) \/ AssignNothing(s, report)
        PROVE  Fair(db')
    BY <2>1, ExpireFair, SettledFair DEF AssignInvalid, AssignNothing, IInv
  <2>2. ASSUME NEW s \in Session, NEW offer \in 1..MaxOffer,
               NEW report \in Report \cup {NoReport}, Assign(s, offer, report)
        PROVE  Fair(db')
    <3>. DEFINE d == Settled(s, report)
    <3>1. Good(d) /\ Fair(d)
      BY <2>2, SettledGood, SettledFair, ReportsAreAny DEF Assign
    <3>. HIDE DEF d
    <3>2. PICK j \in FairChoices(d), a \in AssignmentId, w \in 1..MaxWorkers :
            /\ d.row[a].status = "NONE" /\ d.account[j].assigned + w <= MaxWorkers
            /\ db' = Reserve(d, a, s, j, w)
      BY <2>2, AssignFacts, ReportsAreAny DEF d
    <3>3. j \in d.listed
      BY DEF FairChoices, FairJobs
    <3>. QED BY <3>1, <3>2, <3>3, ReserveFair DEF IInv
  <2>. QED BY <1>3, <2>1, <2>2, ActivateFair DEF SwarmStep
<1>4. CASE Alarm
  <2>. DEFINE over == {j \in db.listed : db.births[j].at + Lifetime <= now}
              u == Unlist(ExpireAssignments(db), over)
  <2>1. Good(u) /\ Fair(u)
    <3>1. over \in SUBSET Job
      BY GoodTypes DEF IInv
    <3>. QED BY <3>1, ExpireGood, ExpireFair, UnlistGood, UnlistFair DEF IInv
  <2>2. db' = [u EXCEPT !.created = RecentCreations, !.replays = CurrentReplays]
    BY <1>4 DEF Alarm
  <2>. HIDE DEF u
  <2>3. db'.row = u.row /\ db'.listed = u.listed /\ db'.account = u.account /\ db'.births = u.births
    BY <2>1, <2>2 DEF Good, Database
  <2>. QED BY <2>1, <2>3, SameBills
<1>. QED BY <1>1, <1>2, <1>3, <1>4 DEF Next

LEMMA InitFair == Init => Fair(db)
  BY DEF Init, Fair, RowsAreTimed, Timed, Billed, NoRow

\* A job's ledger is what it started with and what its assignments have cost it:
\* no expiry, late report or activation charges it twice or gives back too much.
THEOREM ServiceAccounted == Spec => []ServiceIsAccounted
<1>1. IInv /\ Fair(db) /\ [Next]_vars => IInv' /\ Fair(db)'
  BY NextGood, NextFair
<1>2. Spec => [](IInv /\ Fair(db))
  BY <1>1, InitGood, InitFair, PTL DEF Spec
<1>3. Fair(db) => ServiceIsAccounted
  BY DEF Fair, Billed, Cost, Units, ChargeIn, ServiceIsAccounted, Charge
<1>. QED BY <1>2, <1>3, PTL

=============================================================================
