--------------------------- MODULE TaskStoreProofs ---------------------------
(***************************************************************************)
(* Theorems about the task table, for every set of tasks and workers.      *)
(***************************************************************************)
EXTENDS TaskStoreFence, TLAPS

(***************************************************************************)
(* The inductive invariant, row by row.  Beyond the checked invariants it  *)
(* says that no attempt has been handed out ahead of the counter, and that *)
(* an id without a row has no past: both are needed for stealTask and      *)
(* assignTask to hand out a number nobody has.                             *)
(***************************************************************************)
Owned(t) ==
  /\ InFlight(t) <=> rows[t].lease # NoLease
  /\ InFlight(t) => rows[t].worker # NoWorker
  /\ rows[t].status = "PENDING" => rows[t].worker = NoWorker

InBudget(t) == rows[t].status = "PENDING" => rows[t].retryCount < MaxRetries

Fenced(t) == \A g, h \in granted[t] : g[1] = h[1] => g = h

HoldsCurrent(t) ==
  /\ InFlight(t) => <<Attempt(t), rows[t].worker>> \in granted[t]
  /\ rows[t].status = "PENDING" => \A g \in granted[t] : g[1] < Attempt(t)

Logged(t) == rows[t].retryCount <= rows[t].logged

PastOnly(t) ==
  /\ \A g \in granted[t] : g[1] <= Attempt(t)
  /\ rows[t].status = "ABSENT" => rows[t] = NoRow /\ granted[t] = {}

TaskInv(t) ==
  /\ Owned(t)
  /\ InBudget(t)
  /\ Fenced(t)
  /\ HoldsCurrent(t)
  /\ Logged(t)
  /\ PastOnly(t)

IInv == TypeOK /\ \A t \in Tasks : TaskInv(t)

-----------------------------------------------------------------------------

LEMMA NoRowType == NoRow \in Row
  BY DEF NoRow, Row, Status, InFlightStatus, Terminal

\* What an operation writes into the status, worker and lease columns.
LEMMA ColumnTypes ==
  /\ InFlightStatus \cup Terminal \subseteq Status
  /\ Workers \subseteq Workers \cup {NoWorker}
  /\ DefaultLease \in Int \cup {NoLease}
  /\ Leases \subseteq Int \cup {NoLease}
  BY TaskStoreAssumption DEF Status

LEMMA ReclaimedType ==
  ASSUME NEW row \in Row
  PROVE  Reclaimed(row) \in Row
  <1> DEFINE st == IF row.retryCount + 1 >= MaxRetries THEN "FAILED"
                   ELSE "PENDING"
  <1>1. st \in Status /\ row.retryCount + 1 \in Nat /\ row.logged + 1 \in Nat
    BY DEF Row, Status, InFlightStatus, Terminal
  <1>2. Reclaimed(row) = [row EXCEPT !.status = st, !.worker = NoWorker,
                                     !.retryCount = row.retryCount + 1,
                                     !.lease = NoLease,
                                     !.logged = row.logged + 1]
    BY DEF Reclaimed
  <1> HIDE DEF st
  <1> QED  BY <1>1, <1>2 DEF Row

LEMMA ReclaimAllType ==
  ASSUME TypeOK, NEW S, ReclaimAll(S)
  PROVE  TypeOK'
  <1>1. \A t \in Tasks : rows[t] \in Row  BY DEF TypeOK
  <1>2. \A t \in Tasks : Reclaimed(rows[t]) \in Row  BY <1>1, ReclaimedType
  <1> QED  BY <1>1, <1>2 DEF TypeOK, ReclaimAll

LEMMA GrantedType ==
  ASSUME TypeOK, rows' \in [Tasks -> Row],
         NEW t \in Tasks, NEW w \in Workers, Granted(t, w)
  PROVE  TypeOK'
  <1>1. <<rows'[t].retryCount + 1, w>> \in Nat \X Workers
    BY DEF Row
  <1> QED  BY <1>1 DEF TypeOK, Granted

\* Every step keeps the table a table of rows.
LEMMA NextType ==
  ASSUME TypeOK, [Next]_storeVars
  PROVE  TypeOK'
  <1> USE TaskStoreAssumption DEF TypeOK
  <1>1. ASSUME NEW t \in Tasks, NEW deps \in SUBSET Tasks, CreateTask(t, deps)
        PROVE  TypeOK'
    <2>1. [NoRow EXCEPT !.status = "PENDING", !.deps = deps] \in Row
      BY DEF NoRow, Row, Status, InFlightStatus, Terminal
    <2> QED  BY <1>1, <2>1 DEF CreateTask
  <1>2. ASSUME NEW t \in Tasks, NEW w \in Workers, NEW d \in Leases,
               AssignTask(t, w, d)
        PROVE  TypeOK'
    <2>1. [rows[t] EXCEPT !.status = "ASSIGNED", !.worker = w, !.lease = d]
            \in Row
      <3>1. rows[t] \in Row  OBVIOUS
      <3>2. "ASSIGNED" \in Status /\ d \in Int \cup {NoLease}
        BY ColumnTypes DEF InFlightStatus
      <3> QED  BY ONLY <3>1, <3>2, w \in Workers DEF Row
    <2>2. rows' \in [Tasks -> Row]
      BY <1>2, <2>1 DEF AssignTask
    <2> QED  BY <1>2, <2>2, GrantedType DEF AssignTask
  <1>3. ASSUME NEW t \in Tasks, StartTask(t)  PROVE  TypeOK'
    <2>1. [rows[t] EXCEPT !.status = "RUNNING", !.lease = DefaultLease] \in Row
      <3>1. rows[t] \in Row  OBVIOUS
      <3>2. "RUNNING" \in Status  BY DEF Status, InFlightStatus
      <3> QED  BY ONLY <3>1, <3>2, ColumnTypes DEF Row
    <2> QED  BY <1>3, <2>1 DEF StartTask
  <1>4. ASSUME NEW t \in Tasks, NEW w \in Workers, StealTask(t, w)
        PROVE  TypeOK'
    <2>1. [rows[t] EXCEPT !.status = "ASSIGNED", !.worker = w,
                          !.retryCount = @ + 1, !.lease = DefaultLease,
                          !.logged = @ + 1] \in Row
      <3>1. rows[t] \in Row  OBVIOUS
      <3>2. "ASSIGNED" \in Status  BY DEF Status, InFlightStatus
      <3>3. rows[t].retryCount + 1 \in Nat /\ rows[t].logged + 1 \in Nat
        BY <3>1 DEF Row
      <3> DEFINE n == rows[t].retryCount + 1
                 k == rows[t].logged + 1
      <3>4. n \in Nat /\ k \in Nat  BY <3>3
      <3> HIDE DEF n, k
      <3>5. [rows[t] EXCEPT !.status = "ASSIGNED", !.worker = w,
                            !.retryCount = n, !.lease = DefaultLease,
                            !.logged = k] \in Row
        BY ONLY <3>1, <3>2, <3>4, w \in Workers, ColumnTypes DEF Row
      <3> QED  BY <3>5 DEF n, k
    <2>2. rows' \in [Tasks -> Row]
      BY <1>4, <2>1 DEF StealTask
    <2> QED  BY <1>4, <2>2, GrantedType DEF StealTask
  <1>5. ASSUME NEW t \in Tasks, RenewLease(t)  PROVE  TypeOK'
    <2>1. [rows[t] EXCEPT !.lease = DefaultLease] \in Row
      <3>1. rows[t] \in Row  OBVIOUS
      <3> QED  BY ONLY <3>1, ColumnTypes DEF Row
    <2> QED  BY <1>5, <2>1 DEF RenewLease
  <1>6. ASSUME NEW w \in Workers, RenewWorkerLeases(w)  PROVE  TypeOK'
    BY <1>6 DEF RenewWorkerLeases, Row
  <1>7. ASSUME NEW t \in Tasks, CompleteTask(t)  PROVE  TypeOK'
    <2>1. [rows[t] EXCEPT !.status = "COMPLETED", !.lease = NoLease] \in Row
      <3>1. rows[t] \in Row  OBVIOUS
      <3>2. "COMPLETED" \in Status  BY DEF Status, Terminal
      <3> QED  BY ONLY <3>1, <3>2 DEF Row
    <2> QED  BY <1>7, <2>1 DEF CompleteTask
  <1>8. ASSUME NEW t \in Tasks, NEW st \in Terminal, CloseTask(t, st)
        PROVE  TypeOK'
    <2> DEFINE k == rows[t].logged + 1
    <2>1. rows[t] \in Row  OBVIOUS
    <2>2. k \in Nat  BY <2>1 DEF Row
    <2>3. st \in Status  BY ColumnTypes
    <2> HIDE DEF k
    <2>4. [rows[t] EXCEPT !.status = st, !.lease = NoLease, !.logged = k] \in Row
      BY ONLY <2>1, <2>2, <2>3 DEF Row
    <2> QED  BY <1>8, <2>4 DEF CloseTask, k
  <1>9. ASSUME NEW t \in Tasks, NEW w \in Workers, NEW x \in BOOLEAN,
               RecordTaskFailure(t, w, x)
        PROVE  TypeOK'
    <2>1. Reclaimed(rows[t]) \in Row  BY ReclaimedType
    <2>2. Excluding(Reclaimed(rows[t]), w, x) \in Row
      BY <2>1 DEF Row, Excluding
    <2> QED  BY <1>9, <2>2 DEF RecordTaskFailure
  <1>10. CASE Tick
    BY <1>10 DEF Tick, Row
  <1>11. CASE \/ \E w \in Workers : RecoverWorkerLoss(w)
              \/ RecoverExpiredLeases
              \/ RecoverInFlightTasks
    BY <1>11, ReclaimAllType
       DEF RecoverWorkerLoss, RecoverExpiredLeases, RecoverInFlightTasks
  <1>12. CASE UNCHANGED storeVars
    BY <1>12 DEF storeVars
  <1> QED
    BY <1>1, <1>2, <1>3, <1>4, <1>5, <1>6, <1>7, <1>8, <1>9, <1>10, <1>11, <1>12
       DEF Next, ClientStep, FailTask, AbandonTask, Terminal

\* The table is a table of rows, and its history one of handed-out attempts,
\* whatever operations the daemon calls in whatever order.
THEOREM TypeCorrect == Spec => []TypeOK
  <1>1. Init => TypeOK
    BY NoRowType DEF Init, TypeOK
  <1>2. TypeOK /\ [Next]_storeVars => TypeOK'
    BY NextType
  <1> QED  BY <1>1, <1>2, PTL DEF Spec

-----------------------------------------------------------------------------

\* A step that leaves a row and its history alone keeps the row's invariant.
LEMMA UntouchedKeeps ==
  ASSUME NEW s \in Tasks, TaskInv(s),
         rows'[s] = rows[s], granted'[s] = granted[s]
  PROVE  TaskInv(s)'
  BY DEF TaskInv, Owned, InBudget, Fenced, HoldsCurrent, Logged, PastOnly,
         InFlight, Attempt

\* So does one that ends the current attempt and advances the counter.
LEMMA ReclaimedKeeps ==
  ASSUME TypeOK, NEW s \in Tasks, TaskInv(s), rows[s].status # "ABSENT",
         NEW excluded, rows'[s] = [Reclaimed(rows[s]) EXCEPT !.excluded = excluded],
         granted'[s] = granted[s]
  PROVE  TaskInv(s)'
  <1> DEFINE row == rows[s]
  <1>1. row \in Row /\ granted[s] \subseteq Nat \X Workers
    BY DEF TypeOK
  <1>2. /\ rows'[s].retryCount = row.retryCount + 1
        /\ rows'[s].logged = row.logged + 1
        /\ rows'[s].lease = NoLease
        /\ rows'[s].worker = NoWorker
        /\ rows'[s].status = IF row.retryCount + 1 >= MaxRetries
                             THEN "FAILED" ELSE "PENDING"
    BY <1>1 DEF Reclaimed, Row
  <1>3. row.retryCount \in Nat /\ row.logged \in Nat
    BY <1>1 DEF Row
  <1> HIDE DEF row
  <1>4. Owned(s)' /\ InBudget(s)'
    BY <1>2, <1>3, TaskStoreAssumption
       DEF Owned, InBudget, InFlight, InFlightStatus
  <1>5. Fenced(s)'
    BY DEF TaskInv, Fenced
  <1>6. Logged(s)'
    BY <1>2, <1>3 DEF TaskInv, Logged, row
  <1>7. \A g \in granted[s] : g[1] < row.retryCount + 2
    BY <1>1, <1>3 DEF TaskInv, PastOnly, Attempt, row
  <1>8. HoldsCurrent(s)' /\ PastOnly(s)'
    BY <1>1, <1>2, <1>3, <1>7
       DEF HoldsCurrent, PastOnly, InFlight, InFlightStatus, Attempt
  <1> QED  BY <1>4, <1>5, <1>6, <1>8 DEF TaskInv

\* So does one that hands out an attempt number above all earlier ones.
LEMMA HandOutKeeps ==
  ASSUME TypeOK, NEW s \in Tasks, TaskInv(s), NEW w \in Workers,
         rows'[s].status = "ASSIGNED",
         rows'[s].worker = w,
         rows'[s].lease \in Nat,
         rows'[s].retryCount \in Nat,
         rows'[s].retryCount <= rows'[s].logged,
         \A g \in granted[s] : g[1] < rows'[s].retryCount + 1,
         granted'[s] = granted[s] \cup {<<rows'[s].retryCount + 1, w>>}
  PROVE  TaskInv(s)'
  <1>1. granted[s] \subseteq Nat \X Workers
    BY DEF TypeOK
  <1>2. Owned(s)' /\ InBudget(s)' /\ Logged(s)'
    BY TaskStoreAssumption
       DEF Owned, InBudget, Logged, InFlight, InFlightStatus
  <1>3. Fenced(s)'
    BY <1>1 DEF TaskInv, Fenced
  <1>4. HoldsCurrent(s)' /\ PastOnly(s)'
    BY <1>1 DEF HoldsCurrent, PastOnly, InFlight, Attempt
  <1> QED  BY <1>2, <1>3, <1>4 DEF TaskInv

\* So does one that only moves the lease of an in-flight row, or starts it.
LEMMA RenewedKeeps ==
  ASSUME TypeOK, NEW s \in Tasks, TaskInv(s), InFlight(s), InFlight(s)',
         rows'[s].lease \in Int,
         rows'[s].worker = rows[s].worker,
         rows'[s].retryCount = rows[s].retryCount,
         rows'[s].logged = rows[s].logged,
         granted'[s] = granted[s]
  PROVE  TaskInv(s)'
  <1>1. Owned(s)' /\ InBudget(s)' /\ Logged(s)'
    BY TaskStoreAssumption
       DEF TaskInv, Owned, InBudget, Logged, InFlight, InFlightStatus
  <1>2. Fenced(s)' /\ HoldsCurrent(s)' /\ PastOnly(s)'
    BY DEF TaskInv, Fenced, HoldsCurrent, PastOnly, InFlight, InFlightStatus,
           Attempt
  <1> QED  BY <1>1, <1>2 DEF TaskInv

\* So does one that closes the row.
LEMMA ClosedKeeps ==
  ASSUME TypeOK, NEW s \in Tasks, TaskInv(s),
         rows'[s].status \in Terminal,
         rows'[s].lease = NoLease,
         rows'[s].retryCount = rows[s].retryCount,
         rows'[s].logged \in {rows[s].logged, rows[s].logged + 1},
         granted'[s] = granted[s]
  PROVE  TaskInv(s)'
  <1>1. rows[s].retryCount \in Nat /\ rows[s].logged \in Nat
    BY DEF TypeOK, Row
  <1>2. Owned(s)' /\ InBudget(s)' /\ Logged(s)'
    BY <1>1 DEF TaskInv, Owned, InBudget, Logged, InFlight, InFlightStatus,
                Terminal
  <1>3. Fenced(s)' /\ HoldsCurrent(s)' /\ PastOnly(s)'
    BY DEF TaskInv, Fenced, HoldsCurrent, PastOnly, InFlight, InFlightStatus,
           Attempt, Terminal
  <1> QED  BY <1>2, <1>3 DEF TaskInv

LEMMA ReclaimAllKeeps ==
  ASSUME IInv, NEW S, ReclaimAll(S), NEW s \in Tasks,
         s \in S => rows[s].status # "ABSENT"
  PROVE  TaskInv(s)'
  <1>1. CASE s \notin S
    BY <1>1, UntouchedKeeps DEF IInv, ReclaimAll
  <1>2. CASE s \in S
    <2>1. rows'[s] = Reclaimed(rows[s])
      BY <1>2 DEF ReclaimAll
    <2>2. rows[s] \in Row
      BY DEF IInv, TypeOK
    <2>3. Reclaimed(rows[s]) =
            [Reclaimed(rows[s]) EXCEPT !.excluded = Reclaimed(rows[s]).excluded]
      BY <2>2, ReclaimedType DEF Row
    <2> QED
      BY <1>2, <2>1, <2>3, ReclaimedKeeps DEF IInv, ReclaimAll
  <1> QED  BY <1>1, <1>2

LEMMA NextInv ==
  ASSUME IInv, [Next]_storeVars
  PROVE  IInv'
  <1>1. TypeOK'
    BY NextType DEF IInv
  <1>2. SUFFICES ASSUME NEW s \in Tasks  PROVE  TaskInv(s)'
    BY <1>1 DEF IInv
  <1>3. /\ TypeOK /\ TaskInv(s)
        /\ rows \in [Tasks -> Row] /\ rows[s] \in Row
        /\ granted \in [Tasks -> SUBSET (Nat \X Workers)]
    BY DEF IInv, TypeOK
  <1>4. ASSUME NEW t \in Tasks, t # s, NEW row,
               rows' = [rows EXCEPT ![t] = row],
               \/ granted' = granted
               \/ \E w \in Workers : Granted(t, w)
        PROVE  TaskInv(s)'
    BY <1>3, <1>4, UntouchedKeeps DEF Granted
  <1>5. ASSUME NEW t \in Tasks, NEW deps \in SUBSET Tasks, CreateTask(t, deps)
        PROVE  TaskInv(s)'
    <2>1. CASE t # s
      BY <1>4, <1>5, <2>1 DEF CreateTask
    <2>2. CASE t = s
      <3>1. /\ granted'[s] = {}
            /\ rows'[s] = [NoRow EXCEPT !.status = "PENDING", !.deps = deps]
        BY <1>3, <1>5, <2>2 DEF CreateTask, TaskInv, PastOnly
      <3> QED
        BY <3>1, TaskStoreAssumption
           DEF TaskInv, Owned, InBudget, Fenced, HoldsCurrent, Logged, PastOnly,
               InFlight, InFlightStatus, Attempt, NoRow
    <2> QED  BY <2>1, <2>2
  <1>6. ASSUME NEW t \in Tasks, NEW w \in Workers, NEW d \in Leases,
               AssignTask(t, w, d)
        PROVE  TaskInv(s)'
    <2>1. CASE t # s
      BY <1>4, <1>6, <2>1 DEF AssignTask
    <2>2. CASE t = s
      <3>1. /\ rows'[s].status = "ASSIGNED"
            /\ rows'[s].worker = w
            /\ rows'[s].lease = d
            /\ rows'[s].retryCount = rows[s].retryCount
            /\ rows'[s].logged = rows[s].logged
        BY <1>3, <1>6, <2>2 DEF AssignTask, Row
      <3>2. d \in Nat /\ rows[s].retryCount \in Nat
        BY <1>3, TaskStoreAssumption DEF Row
      <3>3. granted'[s] = granted[s] \cup {<<rows'[s].retryCount + 1, w>>}
        BY <1>3, <1>6, <2>2 DEF AssignTask, Granted
      <3>4. \A g \in granted[s] : g[1] < rows'[s].retryCount + 1
        BY <1>3, <1>6, <2>2, <3>1 DEF AssignTask, TaskInv, HoldsCurrent, Attempt
      <3>5. rows'[s].retryCount <= rows'[s].logged
        BY <1>3, <3>1 DEF TaskInv, Logged
      <3> QED  BY <1>3, <3>1, <3>2, <3>3, <3>4, <3>5, HandOutKeeps
    <2> QED  BY <2>1, <2>2
  <1>7. ASSUME NEW t \in Tasks, StartTask(t) \/ RenewLease(t)
        PROVE  TaskInv(s)'
    <2>1. CASE t # s
      BY <1>4, <1>7, <2>1 DEF StartTask, RenewLease
    <2>2. CASE t = s
      <3>1. /\ InFlight(s) /\ InFlight(s)'
            /\ rows'[s].lease = DefaultLease
            /\ rows'[s].worker = rows[s].worker
            /\ rows'[s].retryCount = rows[s].retryCount
            /\ rows'[s].logged = rows[s].logged
            /\ granted'[s] = granted[s]
        BY <1>3, <1>7, <2>2
           DEF StartTask, RenewLease, InFlight, InFlightStatus, Row
      <3> QED  BY <1>3, <3>1, TaskStoreAssumption, RenewedKeeps
    <2> QED  BY <2>1, <2>2
  <1>8. ASSUME NEW t \in Tasks, NEW w \in Workers, StealTask(t, w)
        PROVE  TaskInv(s)'
    <2>1. CASE t # s
      BY <1>4, <1>8, <2>1 DEF StealTask
    <2>2. CASE t = s
      <3>1. /\ rows'[s].status = "ASSIGNED"
            /\ rows'[s].worker = w
            /\ rows'[s].lease = DefaultLease
            /\ rows'[s].retryCount = rows[s].retryCount + 1
            /\ rows'[s].logged = rows[s].logged + 1
        BY <1>3, <1>8, <2>2 DEF StealTask, Row
      <3>2. rows[s].retryCount \in Nat /\ rows[s].logged \in Nat
        BY <1>3 DEF Row
      <3>3. granted'[s] = granted[s] \cup {<<rows'[s].retryCount + 1, w>>}
        BY <1>3, <1>8, <2>2 DEF StealTask, Granted
      <3>4. \A g \in granted[s] : g[1] < rows'[s].retryCount + 1
        BY <1>3, <3>1, <3>2 DEF TaskInv, PastOnly, Attempt
      <3>5. rows'[s].retryCount <= rows'[s].logged
        BY <1>3, <3>1, <3>2 DEF TaskInv, Logged
      <3> QED
        BY <1>3, <3>1, <3>2, <3>3, <3>4, <3>5, TaskStoreAssumption, HandOutKeeps
    <2> QED  BY <2>1, <2>2
  <1>9. ASSUME NEW w \in Workers, RenewWorkerLeases(w)
        PROVE  TaskInv(s)'
    <2>1. CASE ~(InFlight(s) /\ rows[s].worker = w)
      BY <1>3, <1>9, <2>1, UntouchedKeeps DEF RenewWorkerLeases
    <2>2. CASE InFlight(s) /\ rows[s].worker = w
      <3>1. rows'[s] = [rows[s] EXCEPT !.lease = DefaultLease]
            /\ granted'[s] = granted[s]
        BY <1>9, <2>2 DEF RenewWorkerLeases
      <3>2. /\ InFlight(s) /\ InFlight(s)'
            /\ rows'[s].lease = DefaultLease
            /\ rows'[s].worker = rows[s].worker
            /\ rows'[s].retryCount = rows[s].retryCount
            /\ rows'[s].logged = rows[s].logged
        BY <1>3, <2>2, <3>1 DEF InFlight, Row
      <3>3. rows'[s].lease \in Int
        BY <3>2, TaskStoreAssumption
      <3> QED  BY ONLY <1>3, <3>1, <3>2, <3>3, RenewedKeeps
    <2> QED  BY <2>1, <2>2
  <1>10. ASSUME NEW t \in Tasks,
                \/ CompleteTask(t)
                \/ FailTask(t)
                \/ AbandonTask(t)
         PROVE  TaskInv(s)'
    <2>1. CASE t # s
      BY <1>4, <1>10, <2>1 DEF CompleteTask, FailTask, AbandonTask, CloseTask
    <2>2. CASE t = s
      <3>1. /\ rows'[s].status \in Terminal
            /\ rows'[s].lease = NoLease
            /\ rows'[s].retryCount = rows[s].retryCount
            /\ rows'[s].logged \in {rows[s].logged, rows[s].logged + 1}
            /\ granted'[s] = granted[s]
        BY <1>3, <1>10, <2>2
           DEF CompleteTask, FailTask, AbandonTask, CloseTask, Terminal, Row
      <3> QED  BY <1>3, <3>1, ClosedKeeps
    <2> QED  BY <2>1, <2>2
  <1>11. ASSUME NEW t \in Tasks, NEW w \in Workers, NEW x \in BOOLEAN,
                RecordTaskFailure(t, w, x)
         PROVE  TaskInv(s)'
    <2>1. CASE t # s
      BY <1>4, <1>11, <2>1 DEF RecordTaskFailure
    <2>2. CASE t = s
      <3> DEFINE excluded == Reclaimed(rows[s]).excluded \cup (IF x THEN {w} ELSE {})
      <3>1. /\ rows'[s] = [Reclaimed(rows[s]) EXCEPT !.excluded = excluded]
            /\ rows[s].status # "ABSENT"
            /\ granted'[s] = granted[s]
        BY <1>3, <1>11, <2>2 DEF RecordTaskFailure, Excluding
      <3> HIDE DEF excluded
      <3> QED  BY <1>3, <3>1, ReclaimedKeeps
    <2> QED  BY <2>1, <2>2
  <1>12. CASE \/ \E w \in Workers : RecoverWorkerLoss(w)
              \/ RecoverExpiredLeases
              \/ RecoverInFlightTasks
    <2>1. PICK S : ReclaimAll(S) /\ \A t \in S : InFlight(t)
      <3>1. ASSUME NEW w \in Workers, RecoverWorkerLoss(w)
            PROVE  \E S : ReclaimAll(S) /\ \A t \in S : InFlight(t)
        <4> WITNESS {t \in Tasks : InFlight(t) /\ rows[t].worker = w}
        <4> QED  BY <3>1 DEF RecoverWorkerLoss
      <3>2. CASE RecoverExpiredLeases
        <4> WITNESS {t \in Tasks : Expired(t)}
        <4> QED  BY <3>2 DEF RecoverExpiredLeases, Expired
      <3>3. CASE RecoverInFlightTasks
        <4> WITNESS {t \in Tasks : InFlight(t)}
        <4> QED  BY <3>3 DEF RecoverInFlightTasks
      <3> QED  BY <1>12, <3>1, <3>2, <3>3
    <2>2. s \in S => rows[s].status # "ABSENT"
      BY <2>1 DEF InFlight, InFlightStatus
    <2> QED  BY <2>1, <2>2, ReclaimAllKeeps
  <1>13. CASE Tick
    <2>1. CASE ~(InFlight(s) /\ rows[s].lease # NoLease /\ ~Expired(s))
      BY <1>3, <1>13, <2>1, UntouchedKeeps DEF Tick
    <2>2. CASE InFlight(s) /\ rows[s].lease # NoLease /\ ~Expired(s)
      <3>1. rows'[s] = [rows[s] EXCEPT !.lease = @ - 1] /\ granted'[s] = granted[s]
        BY <1>13, <2>2 DEF Tick
      <3>2. rows[s].lease \in Int
        BY <1>3, <2>2 DEF Row
      <3>3. /\ InFlight(s) /\ InFlight(s)'
            /\ rows'[s].lease = rows[s].lease - 1
            /\ rows'[s].worker = rows[s].worker
            /\ rows'[s].retryCount = rows[s].retryCount
            /\ rows'[s].logged = rows[s].logged
        BY <1>3, <2>2, <3>1 DEF InFlight, Row
      <3>4. rows'[s].lease \in Int
        BY <3>2, <3>3
      <3> QED  BY ONLY <1>3, <3>1, <3>3, <3>4, RenewedKeeps
    <2> QED  BY <2>1, <2>2
  <1>14. CASE UNCHANGED storeVars
    BY <1>3, <1>14, UntouchedKeeps DEF storeVars
  <1> QED
    BY <1>5, <1>6, <1>7, <1>8, <1>9, <1>10, <1>11, <1>12, <1>13, <1>14
       DEF Next, ClientStep

LEMMA InitInv == Init => IInv
  <1> SUFFICES ASSUME Init  PROVE  IInv
    OBVIOUS
  <1>1. TypeOK
    BY NoRowType DEF Init, TypeOK
  <1>2. ASSUME NEW t \in Tasks  PROVE  TaskInv(t)
    <2>1. rows[t] = NoRow /\ granted[t] = {}
      BY DEF Init
    <2> QED
      BY <2>1 DEF TaskInv, Owned, InBudget, Fenced, HoldsCurrent, Logged, PastOnly,
                  InFlight, InFlightStatus, NoRow
  <1> QED  BY <1>1, <1>2 DEF IInv

\* The inductive invariant holds in every state the table can reach.
THEOREM Invariance == Spec => []IInv
  BY InitInv, NextInv, PTL DEF Spec

\* Recovery by worker and recovery by lease between them reach every in-flight
\* row, and only those (LeaseMatchesOwnership).
THEOREM OwnershipTheorem == Spec => []LeaseMatchesOwnership
  <1>1. IInv => LeaseMatchesOwnership
    BY DEF IInv, TaskInv, Owned, LeaseMatchesOwnership
  <1> QED  BY <1>1, Invariance, PTL

\* No task waits with its retry budget spent (RetryBudget).
THEOREM RetryBudgetTheorem == Spec => []RetryBudget
  <1>1. IInv => RetryBudget
    BY DEF IInv, TaskInv, InBudget, RetryBudget
  <1> QED  BY <1>1, Invariance, PTL

\* An attempt number of a task belongs to one worker (AttemptFencing).
THEOREM FencingTheorem == Spec => []AttemptFencing
  <1>1. IInv => AttemptFencing
    BY DEF IInv, TaskInv, Fenced, AttemptFencing
  <1> QED  BY <1>1, Invariance, PTL

\* The owner of a row is the worker that holds its current attempt
\* (OwnerHoldsCurrentAttempt).
THEOREM CurrentAttemptTheorem == Spec => []OwnerHoldsCurrentAttempt
  <1>1. IInv => OwnerHoldsCurrentAttempt
    BY DEF IInv, TaskInv, HoldsCurrent, OwnerHoldsCurrentAttempt
  <1> QED  BY <1>1, Invariance, PTL

\* The retry counter never runs ahead of the attempt history
\* (AttemptsAreLogged).
THEOREM LoggedTheorem == Spec => []AttemptsAreLogged
  <1>1. IInv => AttemptsAreLogged
    BY DEF IInv, TaskInv, Logged, AttemptsAreLogged
  <1> QED  BY <1>1, Invariance, PTL

-----------------------------------------------------------------------------
\* Dependencies.

\* Only createTask writes the dependencies column.
LEMMA DepsKept ==
  ASSUME TypeOK, [Next]_storeVars,
         ~ \E t \in Tasks, deps \in SUBSET Tasks : CreateTask(t, deps),
         NEW s \in Tasks
  PROVE  rows'[s].deps = rows[s].deps
  <1>1. rows \in [Tasks -> Row] /\ rows[s] \in Row
    BY DEF TypeOK
  <1>2. Reclaimed(rows[s]).deps = rows[s].deps
    BY <1>1 DEF Reclaimed, Row
  <1>3. ASSUME NEW S, ReclaimAll(S)  PROVE  rows'[s].deps = rows[s].deps
    BY <1>2, <1>3 DEF ReclaimAll
  <1>4. CASE \E t \in Tasks, w \in Workers, d \in Leases : AssignTask(t, w, d)
    BY <1>1, <1>4 DEF AssignTask, Row
  <1>5. CASE \E t \in Tasks : StartTask(t) \/ RenewLease(t) \/ CompleteTask(t)
    BY <1>1, <1>5 DEF StartTask, RenewLease, CompleteTask, Row
  <1>6. CASE \E t \in Tasks, w \in Workers : StealTask(t, w)
    BY <1>1, <1>6 DEF StealTask, Row
  <1>7. CASE \E w \in Workers : RenewWorkerLeases(w)
    BY <1>1, <1>7 DEF RenewWorkerLeases, Row
  <1>8. CASE \E t \in Tasks : FailTask(t) \/ AbandonTask(t)
    BY <1>1, <1>8 DEF FailTask, AbandonTask, CloseTask, Row
  <1>9. CASE \E t \in Tasks, w \in Workers, x \in BOOLEAN :
               RecordTaskFailure(t, w, x)
    <2>1. PICK t \in Tasks, w \in Workers, x \in BOOLEAN :
            RecordTaskFailure(t, w, x)
      BY <1>9
    <2>2. Reclaimed(rows[t]) \in Row
      BY ReclaimedType DEF TypeOK
    <2>3. Excluding(Reclaimed(rows[t]), w, x).deps = Reclaimed(rows[t]).deps
      BY <2>2 DEF Excluding, Row
    <2> QED  BY <1>1, <1>2, <2>1, <2>3 DEF RecordTaskFailure
  <1>10. CASE Tick
    BY <1>1, <1>10 DEF Tick, Row
  <1>11. CASE \/ \E w \in Workers : RecoverWorkerLoss(w)
              \/ RecoverExpiredLeases
              \/ RecoverInFlightTasks
    BY <1>3, <1>11
       DEF RecoverWorkerLoss, RecoverExpiredLeases, RecoverInFlightTasks
  <1>12. CASE UNCHANGED storeVars
    BY <1>12 DEF storeVars
  <1> QED
    BY <1>4, <1>5, <1>6, <1>7, <1>8, <1>9, <1>10, <1>11, <1>12
       DEF Next, ClientStep

\* The table never comes to hold tasks that wait for one another: every set of
\* tasks has one that waits for none of them (validateDagCycle).
THEOREM AcyclicTheorem == Spec => []DependenciesAcyclic
  <1>1. Init => DependenciesAcyclic
    BY DEF Init, DependenciesAcyclic, NoRow
  <1>2. TypeOK /\ DependenciesAcyclic /\ [Next]_storeVars => DependenciesAcyclic'
    <2> SUFFICES ASSUME TypeOK, DependenciesAcyclic, [Next]_storeVars,
                        NEW S \in SUBSET Tasks, S # {}
                 PROVE  \E s \in S : rows'[s].deps \cap S = {}
      BY DEF DependenciesAcyclic
    <2>1. PICK s \in S : rows[s].deps \cap S = {}
      BY DEF DependenciesAcyclic
    <2>2. CASE ~ \E t \in Tasks, deps \in SUBSET Tasks : CreateTask(t, deps)
      BY <2>1, <2>2, DepsKept
    <2>3. ASSUME NEW t \in Tasks, NEW deps \in SUBSET Tasks, CreateTask(t, deps)
          PROVE  \E u \in S : rows'[u].deps \cap S = {}
      <3>1. \A u \in Tasks :
              rows'[u].deps = IF u = t THEN deps ELSE rows[u].deps
        <4>1. [NoRow EXCEPT !.status = "PENDING", !.deps = deps].deps = deps
          BY DEF NoRow
        <4> QED  BY <2>3, <4>1 DEF CreateTask, TypeOK
      <3>2. CASE t \in S
        <4>1. ~ \A u \in S : (IF u = t THEN deps ELSE rows[u].deps) \cap S # {}
          BY <2>3, <3>2 DEF CreateTask, CycleFrom
        <4> QED  BY <3>1, <4>1
      <3>3. CASE t \notin S
        BY <2>1, <3>1, <3>3
      <3> QED  BY <3>2, <3>3
    <2> QED  BY <2>2, <2>3
  <1> QED  BY <1>1, <1>2, TypeCorrect, PTL DEF Spec

-----------------------------------------------------------------------------
\* What an operation does to a row, in the columns that the callers read.

Untouched(t) ==
  /\ rows'[t].status = rows[t].status
  /\ rows'[t].worker = rows[t].worker
  /\ rows'[t].retryCount = rows[t].retryCount

Opened(t) ==
  /\ rows[t].status = "ABSENT" /\ rows'[t].status = "PENDING"
  /\ rows'[t].retryCount = rows[t].retryCount

HandedOut(t, w) ==
  /\ rows[t].status = "PENDING" /\ rows'[t].status = "ASSIGNED"
  /\ rows'[t].worker = w
  /\ rows'[t].retryCount = rows[t].retryCount

Finished(t) ==
  /\ InFlight(t) /\ rows'[t].status = "COMPLETED"
  /\ rows'[t].retryCount = rows[t].retryCount

TakenBack(t) ==
  /\ rows[t].status # "ABSENT" /\ rows'[t].status \in {"PENDING", "FAILED"}
  /\ rows'[t].retryCount = rows[t].retryCount + 1

\* The operations on one row leave the others alone.
OthersUntouched(t) == \A s \in Tasks \ {t} : Untouched(s)

LEMMA OpenEffect ==
  ASSUME IInv, NEW t \in Tasks, CreateTask(t, {})
  PROVE  Opened(t) /\ OthersUntouched(t)
  <1>1. rows \in [Tasks -> Row] /\ rows[t] = NoRow
    BY DEF IInv, TypeOK, TaskInv, PastOnly, CreateTask
  <1> QED  BY <1>1 DEF CreateTask, Opened, OthersUntouched, Untouched, NoRow

LEMMA HandOutEffect ==
  ASSUME TypeOK, NEW t \in Tasks, NEW w \in Workers, NEW d \in Leases,
         AssignTask(t, w, d)
  PROVE  HandedOut(t, w) /\ OthersUntouched(t)
  BY DEF TypeOK, AssignTask, HandedOut, OthersUntouched, Untouched, Row

LEMMA FinishEffect ==
  ASSUME TypeOK, NEW t \in Tasks, CompleteTask(t)
  PROVE  Finished(t) /\ OthersUntouched(t)
  BY DEF TypeOK, CompleteTask, Finished, OthersUntouched, Untouched, Row

LEMMA FailureEffect ==
  ASSUME TypeOK, NEW t \in Tasks, NEW w \in Workers, NEW x \in BOOLEAN,
         RecordTaskFailure(t, w, x)
  PROVE  TakenBack(t) /\ OthersUntouched(t)
  <1>1. rows[t] \in Row /\ rows \in [Tasks -> Row]
    BY DEF TypeOK
  <1>2. Reclaimed(rows[t]) \in Row
    BY <1>1, ReclaimedType
  <1>3. /\ Excluding(Reclaimed(rows[t]), w, x).status = Reclaimed(rows[t]).status
        /\ Excluding(Reclaimed(rows[t]), w, x).retryCount = Reclaimed(rows[t]).retryCount
    BY <1>2 DEF Excluding, Row
  <1>4. /\ Reclaimed(rows[t]).status \in {"PENDING", "FAILED"}
        /\ Reclaimed(rows[t]).retryCount = rows[t].retryCount + 1
    BY <1>1 DEF Reclaimed, Row
  <1>5. rows'[t] = Excluding(Reclaimed(rows[t]), w, x)
    BY <1>1 DEF RecordTaskFailure
  <1> QED
    BY <1>1, <1>3, <1>4, <1>5 DEF RecordTaskFailure, TakenBack, OthersUntouched, Untouched

LEMMA ReclaimEffect ==
  ASSUME TypeOK, NEW S, ReclaimAll(S), \A s \in S : InFlight(s), NEW s \in Tasks
  PROVE  IF s \in S THEN TakenBack(s) ELSE Untouched(s)
  <1>1. rows[s] \in Row
    BY DEF TypeOK
  <1>2. /\ Reclaimed(rows[s]).status \in {"PENDING", "FAILED"}
        /\ Reclaimed(rows[s]).retryCount = rows[s].retryCount + 1
    BY <1>1 DEF Reclaimed, Row
  <1> QED
    BY <1>2 DEF ReclaimAll, TakenBack, Untouched, InFlight, InFlightStatus

LEMMA ClockEffect ==
  ASSUME TypeOK,
         Tick \/ (\E w \in Workers : RenewWorkerLeases(w)) \/ UNCHANGED storeVars,
         NEW s \in Tasks
  PROVE  Untouched(s)
  <1>1. rows \in [Tasks -> Row]
    BY DEF TypeOK
  <1>2. CASE Tick
    BY <1>1, <1>2 DEF Tick, Row, Untouched
  <1>3. CASE \E w \in Workers : RenewWorkerLeases(w)
    BY <1>1, <1>3 DEF RenewWorkerLeases, Row, Untouched
  <1>4. CASE UNCHANGED storeVars
    BY <1>4 DEF Untouched, storeVars
  <1> QED  BY <1>2, <1>3, <1>4

-----------------------------------------------------------------------------
\* The table implements FencedOwnership.

Owner(t) == IF InFlight(t) THEN rows[t].worker ELSE NoWorker

\* A step that changes none of the three columns the mapping reads.
LEMMA StutterStep ==
  ASSUME \A s \in Tasks : /\ Phase(s)' = Phase(s)
                          /\ Owner(s)' = Owner(s)
                          /\ Attempt(s)' = Attempt(s)
  PROVE  [Fence!Next]_(Fence!fenceVars)
  BY DEF Fence!fenceVars, Owner

\* Recovery takes the attempts in flight away, under new numbers.
LEMMA RevokeStep ==
  ASSUME TypeOK, NEW S \in SUBSET Tasks,
         \A s \in S : /\ rows[s].status # "ABSENT"
                      /\ rows'[s].status \in {"PENDING", "FAILED"}
                      /\ rows'[s].retryCount = rows[s].retryCount + 1,
         \A s \in Tasks \ S : rows'[s] = rows[s]
  PROVE  Fence!Next
  <1> DEFINE K == {s \in S : rows'[s].status = "PENDING"}
  <1>1. \A s \in S : Phase(s) # "new"
    BY DEF Phase, InFlight, InFlightStatus
  <1>2. \A s \in Tasks : Phase(s)' = IF s \in K THEN "free"
                                     ELSE IF s \in S THEN "closed" ELSE Phase(s)
    BY DEF Phase, InFlight, InFlightStatus
  <1>3. \A s \in Tasks : Owner(s)' = IF s \in S THEN NoWorker ELSE Owner(s)
    BY DEF Owner, InFlight, InFlightStatus
  <1>4. \A s \in Tasks : Attempt(s)' = IF s \in S THEN Attempt(s) + 1
                                       ELSE Attempt(s)
    BY DEF Attempt
  <1>5. K \in SUBSET S  OBVIOUS
  <1>6. Fence!Revoke(S, K)
    BY <1>1, <1>2, <1>3, <1>4, <1>5 DEF Fence!Revoke, Owner
  <1> HIDE DEF K
  <1>7. \E X \in SUBSET Tasks : \E Y \in SUBSET X : Fence!Revoke(X, Y)
    BY <1>5, <1>6, Zenon DEF Fence!Revoke
  <1> QED  BY <1>7, Zenon DEF Fence!Next

LEMMA NextRefines ==
  ASSUME IInv, [Next]_storeVars
  PROVE  [Fence!Next]_(Fence!fenceVars)
  <1>1. rows \in [Tasks -> Row] /\ TypeOK
    BY DEF IInv, TypeOK
  <1>2. \A s \in Tasks : rows[s].retryCount \in Nat
    BY <1>1 DEF Row
  <1>3. ASSUME NEW t \in Tasks, NEW deps \in SUBSET Tasks, CreateTask(t, deps)
        PROVE  Fence!Next
    <2>1. rows'[t].status = "PENDING" /\ rows'[t].retryCount = 0
      BY <1>1, <1>3 DEF CreateTask, NoRow
    <2>2. rows[t].status = "ABSENT" /\ rows[t].retryCount = 0
      BY <1>3 DEF CreateTask, IInv, TaskInv, PastOnly, NoRow
    <2>3. \A s \in Tasks \ {t} : rows'[s] = rows[s]
      BY <1>1, <1>3 DEF CreateTask
    <2>4. /\ Phase(t) = "new"
          /\ \A s \in Tasks : Phase(s)' = IF s = t THEN "free" ELSE Phase(s)
          /\ \A s \in Tasks : Owner(s)' = Owner(s)
          /\ \A s \in Tasks : Attempt(s)' = Attempt(s)
      BY <2>1, <2>2, <2>3 DEF Phase, Owner, Attempt, InFlight, InFlightStatus
    <2>5. Fence!Open(t)
      BY <2>4 DEF Fence!Open, Owner
    <2> QED  BY <2>5 DEF Fence!Next
  <1>4. ASSUME NEW t \in Tasks, NEW w \in Workers, NEW d \in Leases,
               AssignTask(t, w, d)
        PROVE  Fence!Next
    <2>1. /\ rows[t].status = "PENDING"
          /\ rows'[t].status = "ASSIGNED"
          /\ rows'[t].worker = w
          /\ rows'[t].retryCount = rows[t].retryCount
          /\ \A s \in Tasks \ {t} : rows'[s] = rows[s]
      BY <1>1, <1>4 DEF AssignTask, Row
    <2>2. /\ Phase(t) = "free"
          /\ \A s \in Tasks : Phase(s)' = IF s = t THEN "owned" ELSE Phase(s)
          /\ \A s \in Tasks : Owner(s)' = IF s = t THEN w ELSE Owner(s)
          /\ \A s \in Tasks : Attempt(s)' = Attempt(s)
      BY <2>1 DEF Phase, Owner, Attempt, InFlight, InFlightStatus
    <2>3. Fence!Acquire(t, w)
      BY <2>2 DEF Fence!Acquire, Owner
    <2> QED  BY <2>3 DEF Fence!Next
  <1>5. ASSUME NEW t \in Tasks, NEW w \in Workers, StealTask(t, w)
        PROVE  Fence!Next
    <2>1. /\ InFlight(t)
          /\ rows'[t].status = "ASSIGNED"
          /\ rows'[t].worker = w
          /\ rows'[t].retryCount = rows[t].retryCount + 1
          /\ \A s \in Tasks \ {t} : rows'[s] = rows[s]
      BY <1>1, <1>5 DEF StealTask, Row
    <2>2. /\ Phase(t) = "owned"
          /\ \A s \in Tasks : Phase(s)' = Phase(s)
          /\ \A s \in Tasks : Owner(s)' = IF s = t THEN w ELSE Owner(s)
          /\ \A s \in Tasks : Attempt(s)' = IF s = t THEN Attempt(s) + 1
                                             ELSE Attempt(s)
      BY <2>1 DEF Phase, Owner, Attempt, InFlight, InFlightStatus
    <2>3. Fence!Transfer(t, w)
      BY <2>2 DEF Fence!Transfer, Owner
    <2> QED  BY <2>3 DEF Fence!Next
  <1>6. ASSUME NEW t \in Tasks,
               \/ CompleteTask(t)
               \/ FailTask(t)
               \/ AbandonTask(t)
        PROVE  Fence!Next
    <2>1. /\ rows[t].status \in {"PENDING"} \cup InFlightStatus
          /\ rows'[t].status \in Terminal
          /\ rows'[t].retryCount = rows[t].retryCount
          /\ \A s \in Tasks \ {t} : rows'[s] = rows[s]
      BY <1>1, <1>6 DEF CompleteTask, FailTask, AbandonTask, CloseTask, Terminal,
                        InFlight, Row
    <2>2. /\ Phase(t) \in {"free", "owned"}
          /\ \A s \in Tasks : Phase(s)' = IF s = t THEN "closed" ELSE Phase(s)
          /\ \A s \in Tasks : Owner(s)' = IF s = t THEN NoWorker ELSE Owner(s)
          /\ \A s \in Tasks : Attempt(s)' = Attempt(s)
      BY <2>1 DEF Phase, Owner, Attempt, InFlight, InFlightStatus, Terminal
    <2>3. Fence!Finish(t)
      BY <2>2 DEF Fence!Finish, Owner
    <2> QED  BY <2>3 DEF Fence!Next
  <1>7. ASSUME NEW t \in Tasks, NEW w \in Workers, NEW x \in BOOLEAN,
               RecordTaskFailure(t, w, x)
        PROVE  Fence!Next
    <2>1. Reclaimed(rows[t]) \in Row
      BY <1>1, ReclaimedType
    <2>2. rows'[t] = Excluding(Reclaimed(rows[t]), w, x)
      BY <1>1, <1>7 DEF RecordTaskFailure
    <2>3. /\ rows'[t].status = Reclaimed(rows[t]).status
          /\ rows'[t].retryCount = Reclaimed(rows[t]).retryCount
      BY <2>1, <2>2 DEF Excluding, Row
    <2>4. /\ rows[t].status # "ABSENT"
          /\ rows'[t].status \in {"PENDING", "FAILED"}
          /\ rows'[t].retryCount = rows[t].retryCount + 1
          /\ \A s \in Tasks \ {t} : rows'[s] = rows[s]
      BY <1>1, <1>7, <2>3 DEF RecordTaskFailure, Reclaimed, Row
    <2> QED  BY <1>1, <2>4, RevokeStep
  <1>8. ASSUME NEW S \in SUBSET Tasks, ReclaimAll(S), \A s \in S : InFlight(s)
        PROVE  Fence!Next
    <2>1. \A s \in S : /\ rows[s].status # "ABSENT"
                       /\ rows'[s].status \in {"PENDING", "FAILED"}
                       /\ rows'[s].retryCount = rows[s].retryCount + 1
      <3> TAKE s \in S
      <3>1. rows'[s] = Reclaimed(rows[s])
        BY <1>8 DEF ReclaimAll
      <3>2. rows[s] \in Row  BY <1>1
      <3>3. /\ Reclaimed(rows[s]).status \in {"PENDING", "FAILED"}
            /\ Reclaimed(rows[s]).retryCount = rows[s].retryCount + 1
        BY <3>2 DEF Reclaimed, Row
      <3> QED  BY <1>8, <3>1, <3>3 DEF InFlight, InFlightStatus
    <2>2. \A s \in Tasks \ S : rows'[s] = rows[s]
      BY <1>8 DEF ReclaimAll
    <2> QED  BY <1>1, <2>1, <2>2, RevokeStep
  <1>9. ASSUME NEW w \in Workers, RecoverWorkerLoss(w)
        PROVE  Fence!Next
    BY <1>8, <1>9 DEF RecoverWorkerLoss
  <1>10. CASE RecoverExpiredLeases
    BY <1>8, <1>10 DEF RecoverExpiredLeases, Expired
  <1>11. CASE RecoverInFlightTasks
    BY <1>8, <1>11 DEF RecoverInFlightTasks
  <1>12. CASE \/ \E t \in Tasks : StartTask(t) \/ RenewLease(t)
              \/ \E w \in Workers : RenewWorkerLeases(w)
              \/ Tick
              \/ UNCHANGED storeVars
    <2>1. \A s \in Tasks :
            /\ rows'[s].worker = rows[s].worker
            /\ rows'[s].retryCount = rows[s].retryCount
            /\ \/ rows'[s].status = rows[s].status
               \/ InFlight(s) /\ rows'[s].status \in InFlightStatus
      <3>1. CASE \E t \in Tasks : StartTask(t) \/ RenewLease(t)
        BY <1>1, <3>1 DEF StartTask, RenewLease, Row, InFlight, InFlightStatus
      <3>2. CASE \E w \in Workers : RenewWorkerLeases(w)
        BY <1>1, <3>2 DEF RenewWorkerLeases, Row
      <3>3. CASE Tick
        BY <1>1, <3>3 DEF Tick, Row
      <3>4. CASE UNCHANGED storeVars
        BY <3>4 DEF storeVars
      <3> QED  BY <1>12, <3>1, <3>2, <3>3, <3>4
    <2>2. \A s \in Tasks : /\ Phase(s)' = Phase(s)
                           /\ Owner(s)' = Owner(s)
                           /\ Attempt(s)' = Attempt(s)
      BY <2>1 DEF Phase, Owner, Attempt, InFlight, InFlightStatus
    <2> QED  BY <2>2, StutterStep
  <1> QED
    BY <1>3, <1>4, <1>5, <1>6, <1>7, <1>9, <1>10, <1>11, <1>12
       DEF Next, ClientStep

\* Every behaviour of the table is one of FencedOwnership: an attempt number is
\* never used for two owners, and no owner is replaced under its own number,
\* whatever the daemon's callers do and whenever it crashes.
THEOREM FenceRefinement == Spec => ImplementsFence
  <1>1. Init => Fence!Init
    BY DEF Init, Fence!Init, Phase, Attempt, InFlight, InFlightStatus, NoRow
  <1>2. IInv /\ [Next]_storeVars => [Fence!Next]_(Fence!fenceVars)
    BY NextRefines
  <1> QED  BY <1>1, <1>2, Invariance, PTL DEF Spec, ImplementsFence, Fence!Spec

=============================================================================
