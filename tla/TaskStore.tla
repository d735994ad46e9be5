------------------------------ MODULE TaskStore ------------------------------
(***************************************************************************)
(* The durable task table of the Core daemon (core/src/db/task_store.ts).  *)
(*                                                                         *)
(* Every public operation of the class is one SQLite transaction, so every *)
(* operation is one action.  An operation that throws, or returns without  *)
(* writing, changes nothing and is the action being disabled.  The         *)
(* callers (scheduler, dispatch loops, watchdog, pipeline) are modelled in *)
(* modules that extend this one; here they are an arbitrary client.        *)
(*                                                                         *)
(* Time is relative: a lease is the time it has left, Tick lets time pass, *)
(* and a lease below zero is one with lease_expires_at_ms < now.           *)
(***************************************************************************)
EXTENDS Integers, FiniteSets

CONSTANTS
  Tasks,         \* task ids
  Workers,       \* worker device ids
  Silent,        \* the workers that send no heartbeat: they never renew a lease
  NoWorker,      \* assigned_worker_id IS NULL
  NoLease,       \* lease_expires_at_ms IS NULL
  MaxRetries,    \* DEFAULT_MAX_RETRIES, which every caller passes
  Leases,        \* the lease durations callers of assignTask ask for
  DefaultLease,  \* DEFAULT_LEASE_DURATION_MS
  MaxAttempts    \* bound: no attempt number above it is modelled

ASSUME TaskStoreAssumption ==
  /\ Silent \subseteq Workers
  /\ NoWorker \notin Workers
  /\ NoLease \notin Int
  /\ MaxRetries \in Nat \ {0}
  /\ Leases \subseteq Nat
  /\ DefaultLease \in Nat
  /\ MaxAttempts \in Nat

VARIABLES
  rows,     \* the tasks table, a row per id
  granted   \* history: the <<attempt, worker>> pairs each task was handed out as

storeVars == <<rows, granted>>

InFlightStatus == {"ASSIGNED", "RUNNING"}
Terminal == {"COMPLETED", "FAILED", "ABANDONED"}
Status == {"ABSENT", "PENDING"} \cup InFlightStatus \cup Terminal

(***************************************************************************)
(* A row.  attempt_history_json is kept as its length (logged) and the     *)
(* workers getExcludedWorkerIds reads out of it (excluded).                *)
(***************************************************************************)
Row == [status     : Status,
        worker     : Workers \cup {NoWorker},
        retryCount : Nat,
        lease      : Int \cup {NoLease},
        deps       : SUBSET Tasks,
        logged     : Nat,
        excluded   : SUBSET Workers]

NoRow == [status |-> "ABSENT", worker |-> NoWorker, retryCount |-> 0,
          lease |-> NoLease, deps |-> {}, logged |-> 0, excluded |-> {}]

InFlight(t) == rows[t].status \in InFlightStatus

\* The generation counter a result must carry to be accepted.
Attempt(t) == rows[t].retryCount + 1

Expired(t) == /\ InFlight(t)
              /\ rows[t].lease # NoLease
              /\ rows[t].lease < 0

AreDependenciesSatisfied(t) ==
  \A d \in rows[t].deps : rows[d].status = "COMPLETED"

\* Mutant of CycleFrom: only a task that depends on itself is refused.
SelfCycle(parents, t) == t \in parents[t]

\* The depth-first search of validateDagCycle succeeds iff an endless walk
\* along dependencies starts at t: iff t is in a set none of whose members is
\* without a dependency in the set.
CycleFrom(parents, t) ==
  \E S \in SUBSET Tasks :
    t \in S /\ \A s \in S : parents[s] \cap S # {}

\* Hand task t to worker w; the status guard is the caller's.
Granted(t, w) ==
  granted' = [granted EXCEPT ![t] = @ \cup {<<rows'[t].retryCount + 1, w>>}]

\* Mutant of Reclaimed: the budget is compared with > instead of >=.
ReclaimedOnceMore(row) ==
  [row EXCEPT !.status = IF row.retryCount + 1 > MaxRetries
                         THEN "FAILED" ELSE "PENDING",
              !.worker = NoWorker,
              !.retryCount = @ + 1,
              !.lease = NoLease,
              !.logged = @ + 1]

\* Mutant of Reclaimed: the attempt counter is not advanced.
ReclaimedSameAttempt(row) ==
  [row EXCEPT !.status = IF row.retryCount + 1 >= MaxRetries
                         THEN "FAILED" ELSE "PENDING",
              !.worker = NoWorker,
              !.lease = NoLease,
              !.logged = @ + 1]

(***************************************************************************)
(* The update the three recoveries and recordTaskFailure share: the        *)
(* attempt is over, the next one is PENDING unless the budget is spent.    *)
(***************************************************************************)
Reclaimed(row) ==
  [row EXCEPT !.status = IF row.retryCount + 1 >= MaxRetries
                         THEN "FAILED" ELSE "PENDING",
              !.worker = NoWorker,
              !.retryCount = @ + 1,
              !.lease = NoLease,
              !.logged = @ + 1]

\* Only a validation or execution error excludes the worker from the next
\* placements of the task.
Excluding(row, w, excludes) ==
  [row EXCEPT !.excluded = @ \cup (IF excludes THEN {w} ELSE {})]

ReclaimAll(S) ==
  /\ rows' = [t \in Tasks |-> IF t \in S THEN Reclaimed(rows[t]) ELSE rows[t]]
  /\ UNCHANGED granted

-----------------------------------------------------------------------------

Init ==
  /\ rows = [t \in Tasks |-> NoRow]
  /\ granted = [t \in Tasks |-> {}]

CreateTask(t, deps) ==
  /\ rows[t].status = "ABSENT"
  /\ ~CycleFrom([s \in Tasks |-> IF s = t THEN deps ELSE rows[s].deps], t)
  /\ rows' = [rows EXCEPT ![t] = [NoRow EXCEPT !.status = "PENDING",
                                               !.deps = deps]]
  /\ UNCHANGED granted

AssignTask(t, w, duration) ==
  /\ rows[t].status = "PENDING"
  /\ AreDependenciesSatisfied(t)
  /\ rows' = [rows EXCEPT ![t].status = "ASSIGNED",
                          ![t].worker = w,
                          ![t].lease = duration]
  /\ Granted(t, w)

StartTask(t) ==
  /\ rows[t].status = "ASSIGNED"
  /\ rows' = [rows EXCEPT ![t].status = "RUNNING",
                          ![t].lease = DefaultLease]
  /\ UNCHANGED granted

\* Mutant of StealTask: the thief inherits the victim's attempt number.
StealTaskSameAttempt(t, w) ==
  /\ InFlight(t)
  /\ rows' = [rows EXCEPT ![t].status = "ASSIGNED",
                          ![t].worker = w,
                          ![t].lease = DefaultLease,
                          ![t].logged = @ + 1]
  /\ Granted(t, w)

\* No retry budget is consulted: a task may be stolen past MaxRetries.
StealTask(t, w) ==
  /\ InFlight(t)
  /\ Attempt(t) < MaxAttempts
  /\ rows' = [rows EXCEPT ![t].status = "ASSIGNED",
                          ![t].worker = w,
                          ![t].retryCount = @ + 1,
                          ![t].lease = DefaultLease,
                          ![t].logged = @ + 1]
  /\ Granted(t, w)

RenewLease(t) ==
  /\ InFlight(t)
  /\ rows[t].worker \notin Silent
  /\ rows' = [rows EXCEPT ![t].lease = DefaultLease]
  /\ UNCHANGED granted

\* A heartbeat renews every lease the worker holds, to the default duration
\* whatever duration the task was assigned with.
RenewWorkerLeases(w) ==
  /\ w \notin Silent
  /\ rows' = [t \in Tasks |->
                IF InFlight(t) /\ rows[t].worker = w
                THEN [rows[t] EXCEPT !.lease = DefaultLease]
                ELSE rows[t]]
  /\ UNCHANGED granted

\* Mutant of CompleteTask: the lease is left behind.
CompleteTaskKeepsLease(t) ==
  /\ InFlight(t)
  /\ rows' = [rows EXCEPT ![t].status = "COMPLETED"]
  /\ UNCHANGED granted

CompleteTask(t) ==
  /\ InFlight(t)
  /\ rows' = [rows EXCEPT ![t].status = "COMPLETED", ![t].lease = NoLease]
  /\ UNCHANGED granted

\* failTask and abandonTask: any task that is not terminal, the attempt number
\* and the worker stay.
CloseTask(t, status) ==
  /\ rows[t].status \in {"PENDING"} \cup InFlightStatus
  /\ rows' = [rows EXCEPT ![t].status = status,
                          ![t].lease = NoLease,
                          ![t].logged = @ + 1]
  /\ UNCHANGED granted

FailTask(t) == CloseTask(t, "FAILED")
AbandonTask(t) == CloseTask(t, "ABANDONED")

\* Mutant of RecoverWorkerLoss: every row that names the worker, whatever its
\* status.
RecoverAllOfWorker(w) == ReclaimAll({t \in Tasks : rows[t].worker = w})

RecoverWorkerLoss(w) ==
  ReclaimAll({t \in Tasks : InFlight(t) /\ rows[t].worker = w})

\* Mutant of RecoverExpiredLeases: only tasks that a worker has started.
RecoverRunningLeases ==
  ReclaimAll({t \in Tasks : Expired(t) /\ rows[t].status = "RUNNING"})

RecoverExpiredLeases == ReclaimAll({t \in Tasks : Expired(t)})

\* Run once at start-up, before any server listens.
RecoverInFlightTasks == ReclaimAll({t \in Tasks : InFlight(t)})

\* Takes a task in any status, a COMPLETED one included.
RecordTaskFailure(t, w, excludes) ==
  /\ rows[t].status # "ABSENT"
  /\ Attempt(t) < MaxAttempts
  /\ rows' = [rows EXCEPT ![t] = Excluding(Reclaimed(rows[t]), w, excludes)]
  /\ UNCHANGED granted

\* Time passes; an expired lease stays expired.
Tick ==
  /\ \E t \in Tasks : InFlight(t) /\ ~Expired(t)
  /\ rows' = [t \in Tasks |->
                IF InFlight(t) /\ rows[t].lease # NoLease /\ ~Expired(t)
                THEN [rows[t] EXCEPT !.lease = @ - 1]
                ELSE rows[t]]
  /\ UNCHANGED granted

ClientStep ==
  \/ \E t \in Tasks, deps \in SUBSET Tasks : CreateTask(t, deps)
  \/ \E t \in Tasks, w \in Workers, d \in Leases : AssignTask(t, w, d)
  \/ \E t \in Tasks : StartTask(t)
  \/ \E t \in Tasks, w \in Workers : StealTask(t, w)
  \/ \E t \in Tasks : RenewLease(t)
  \/ \E w \in Workers : RenewWorkerLeases(w)
  \/ \E t \in Tasks : CompleteTask(t)
  \/ \E t \in Tasks : FailTask(t)
  \/ \E t \in Tasks : AbandonTask(t)
  \/ \E w \in Workers : RecoverWorkerLoss(w)
  \/ \E t \in Tasks, w \in Workers, x \in BOOLEAN : RecordTaskFailure(t, w, x)

Next == ClientStep \/ RecoverExpiredLeases \/ RecoverInFlightTasks \/ Tick

Spec == Init /\ [][Next]_storeVars

-----------------------------------------------------------------------------

TypeOK ==
  /\ rows \in [Tasks -> Row]
  /\ granted \in [Tasks -> SUBSET (Nat \X Workers)]

(***************************************************************************)
(* A task is owned exactly while it is in flight: an in-flight row has a   *)
(* worker and a lease, so the worker-loss recovery and the lease watchdog  *)
(* can both find it, and no other row has a lease left behind for the      *)
(* watchdog to act on.  A PENDING row names no worker, so no result for it *)
(* passes as its owner's.                                                  *)
(***************************************************************************)
LeaseMatchesOwnership ==
  \A t \in Tasks :
    /\ InFlight(t) <=> rows[t].lease # NoLease
    /\ InFlight(t) => rows[t].worker # NoWorker
    /\ rows[t].status = "PENDING" => rows[t].worker = NoWorker

(***************************************************************************)
(* The retry budget: whatever mixture of crashes, lost workers, expired    *)
(* leases, steals and failures a task went through, it waits for another   *)
(* assignment only while the budget is not spent.                          *)
(***************************************************************************)
RetryBudget ==
  \A t \in Tasks :
    rows[t].status = "PENDING" => rows[t].retryCount < MaxRetries

(***************************************************************************)
(* Fencing: an attempt number of a task is handed to one worker only, so   *)
(* the attempt number a result carries names the assignment it belongs to. *)
(* This is what the stale-attempt check of handleTaskResult relies on.     *)
(***************************************************************************)
AttemptFencing ==
  \A t \in Tasks : \A g, h \in granted[t] : g[1] = h[1] => g = h

(***************************************************************************)
(* The worker of an in-flight row was handed the row's current attempt,    *)
(* and a task that waits has an attempt number nobody holds yet.           *)
(***************************************************************************)
OwnerHoldsCurrentAttempt ==
  \A t \in Tasks :
    /\ InFlight(t) => <<Attempt(t), rows[t].worker>> \in granted[t]
    /\ rows[t].status = "PENDING" => \A g \in granted[t] : g[1] < Attempt(t)

(***************************************************************************)
(* Every attempt that ended without a result is in the attempt history:    *)
(* the retry counter never runs ahead of the log.                          *)
(***************************************************************************)
AttemptsAreLogged == \A t \in Tasks : rows[t].retryCount <= rows[t].logged

(***************************************************************************)
(* The dependency graph of the table has no cycle, also when tasks name    *)
(* dependencies that are created after them (validateDagCycle).            *)
(***************************************************************************)
DependenciesAcyclic ==
  \A S \in SUBSET Tasks :
    S # {} => \E s \in S : rows[s].deps \cap S = {}

=============================================================================
