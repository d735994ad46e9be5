------------------------------ MODULE SingleTask ------------------------------
(***************************************************************************)
(* Workloads that are dispatched as one task (core/src/ipc_server.ts,      *)
(* executeWorkload without chunks): the request, its promise and timer,    *)
(* the reservation, the result pipeline and the list of recent workloads,  *)
(* on top of the task table.  A task is placed once: a request makes its   *)
(* own task, and nothing is dispatched again.                              *)
(*                                                                         *)
(* Core is one event loop, as in ChunkDispatch: a macrotask starts when no *)
(* continuation is pending, and the states inside one turn are not Quiet.  *)
(***************************************************************************)
EXTENDS TaskStore, Sequences

CONSTANTS
  Names,        \* workload ids clients use; several requests may use the same
  SimWorkers,   \* virtual workers, DEVICE_ID among them
  Timeout,      \* dynamicWorkloadTimeoutMs: both the timer and the lease
  MaxRecent,    \* length of the list of recent workloads (50)
  MaxEvents     \* bound: connections lost, cancelWorkload and setSimulationMode
                \* requests, together

ASSUME SingleTaskAssumption ==
  /\ SimWorkers \subseteq Workers
  /\ Timeout \in Leases
  /\ MaxRecent \in Nat \ {0}
  /\ MaxEvents \in Nat

VARIABLES
  request,   \* the request each task was made for
  work,      \* what has become of the only execution of each task
  listener,  \* tasks with a completion listener in the pipeline
  reserved,  \* DistributionDecisionEngine.workerInFlight
  link,      \* the socket of each worker, as Core sees it
  simulated, \* the simulation is on and the virtual workers are registered
  recent,    \* recentWorkloads: what the clients are shown
  events     \* how many of those there have been

environment == <<link, simulated, events>>
singleVars == <<request, work, listener, reserved, recent, environment>>
vars == <<rows, granted, request, work, listener, reserved, recent, link,
          simulated, events>>

Remote == Workers \ SimWorkers

Request == [pc      : {"idle", "place", "send", "await", "over"},
            name    : Names,
            worker  : Workers \cup {NoWorker},
            promise : {"pending", "ok", "failed", "timeout"},
            timer   : Nat,
            answer  : {"none", "completed", "failed"}]

\* ordered: the worker has or will get it; sent: the result is under way;
\* checked: past handleTaskResult's checks, before its validation is awaited.
Work == [stage : {"none", "ordered", "sent", "checked", "gone"}, valid : BOOLEAN]

Event == [name : Names, status : {"RUNNING", "COMPLETE", "FAILED"}]

Settled(t) == request[t].pc = "await" /\ request[t].promise # "pending"
Turn == {t \in Tasks : request[t].pc \in {"place", "send"}}
NoContinuation == Turn = {} /\ \A t \in Tasks : ~Settled(t)
Quiet == NoContinuation /\ \A t \in Tasks : work[t].stage # "checked"

\* A continuation runs when the turn that is running has ended.
Resumes == Turn = {} /\ \A t \in Tasks : work[t].stage # "checked"

Resolved(r, outcome) ==
  IF r.pc = "await" /\ r.promise = "pending"
  THEN [r EXCEPT !.promise = outcome, !.timer = 0] ELSE r

Release(w) == reserved' = [reserved EXCEPT ![w] = IF @ <= 1 THEN 0 ELSE @ - 1]

Push(list, e) == LET longer == Append(list, e)
                 IN IF Len(longer) > MaxRecent THEN Tail(longer) ELSE longer

\* The first entry of that workload is overwritten, or one is added.
RecordEvent(name, status) ==
  LET same == {i \in DOMAIN recent : recent[i].name = name} IN
  IF same = {}
  THEN recent' = Push(recent, [name |-> name, status |-> status])
  ELSE LET first == CHOOSE i \in same : \A j \in same : i <= j
       IN recent' = [recent EXCEPT ![first].status = status]

-----------------------------------------------------------------------------

SingleInit ==
  /\ \E names \in [Tasks -> Names] :
       request = [t \in Tasks |->
         [pc |-> "idle", name |-> names[t], worker |-> NoWorker,
          promise |-> "pending", timer |-> 0, answer |-> "none"]]
  /\ work = [t \in Tasks |-> [stage |-> "none", valid |-> FALSE]]
  /\ listener = {}
  /\ reserved = [w \in Workers |-> 0]
  /\ link = [w \in Workers |-> "open"]
  /\ simulated \in BOOLEAN
  /\ recent = <<>>
  /\ events = 0

InitAll == Init /\ SingleInit

\* An executeWorkload request whose decision is to distribute it makes a task.
\* Its id is the workload id, or a new one if that has a row already.
Submit(t) ==
  /\ Quiet
  /\ request[t].pc = "idle"
  /\ CreateTask(t, {})
  /\ request' = [request EXCEPT ![t].pc = "place"]
  /\ UNCHANGED <<work, listener, reserved, recent, environment>>

Candidates == {w \in Remote : link[w] \in {"open", "closing"}}
                \cup (IF simulated THEN SimWorkers ELSE {})

\* assignTask, acquireReservation, setTimeout and onTaskFinished.
PlaceSingle(t, w) ==
  /\ request[t].pc = "place"
  /\ w \in Candidates
  /\ AssignTask(t, w, Timeout)
  /\ reserved' = [reserved EXCEPT ![w] = @ + 1]
  /\ listener' = listener \cup {t}
  /\ request' = [request EXCEPT ![t].pc = "send", ![t].worker = w,
                                ![t].timer = Timeout]
  /\ UNCHANGED <<work, recent, environment>>

\* scheduleTask finds nobody: the row stays PENDING.
NoPlacement(t) ==
  /\ request[t].pc = "place"
  /\ Candidates = {}
  /\ request' = [request EXCEPT ![t].pc = "over", ![t].answer = "failed"]
  /\ UNCHANGED <<storeVars, work, listener, reserved, recent, environment>>

SendSingle(t) ==
  /\ request[t].pc = "send"
  /\ request[t].worker \in SimWorkers \/ link[request[t].worker] = "open"
  /\ work' = [work EXCEPT ![t].stage = "ordered"]
  /\ request' = [request EXCEPT ![t].pc = "await"]
  /\ RecordEvent(request[t].name, "RUNNING")
  /\ UNCHANGED <<storeVars, listener, reserved, environment>>

\* Mutant of SendFails: the early return is not covered by the finally block.
SendFailsReserved(t) ==
  /\ request[t].pc = "send"
  /\ request[t].worker \in Remote /\ link[request[t].worker] # "open"
  /\ RecordTaskFailure(t, request[t].worker, FALSE)
  /\ request' = [request EXCEPT ![t].pc = "over", ![t].answer = "failed"]
  /\ UNCHANGED <<work, listener, reserved, recent, environment>>

\* sendExecuteTask returns false; the listener and the timer stay.
SendFails(t) ==
  /\ request[t].pc = "send"
  /\ request[t].worker \in Remote /\ link[request[t].worker] # "open"
  /\ RecordTaskFailure(t, request[t].worker, FALSE)
  /\ Release(request[t].worker)
  /\ request' = [request EXCEPT ![t].pc = "over", ![t].answer = "failed"]
  /\ UNCHANGED <<work, listener, recent, environment>>

\* Mutant of Answer: only a completed workload is recorded as over.
AnswerUnrecorded(t, outcome, status) ==
  /\ request' = [request EXCEPT ![t].pc = "over", ![t].answer = outcome]
  /\ IF outcome = "completed" THEN RecordEvent(request[t].name, status)
     ELSE UNCHANGED recent
  /\ Release(request[t].worker)
  /\ UNCHANGED <<storeVars, work, listener, environment>>

\* The event, the response and the finally block.
Answer(t, outcome, status) ==
  /\ request' = [request EXCEPT ![t].pc = "over", ![t].answer = outcome]
  /\ RecordEvent(request[t].name, status)
  /\ Release(request[t].worker)
  /\ UNCHANGED <<storeVars, work, listener, environment>>

\* The task table is not touched, whatever the promise was resolved with.
Resume(t) ==
  /\ Resumes /\ Settled(t)
  /\ IF request[t].promise = "ok" THEN Answer(t, "completed", "COMPLETE")
     ELSE Answer(t, "failed", "FAILED")

\* Mutant of TimerFires: a task the table no longer has in flight is skipped.
TimerFiresIfOwned(t) ==
  /\ Quiet
  /\ InFlight(t)
  /\ request[t].pc = "await" /\ request[t].timer = 0
  /\ request' = [request EXCEPT ![t] = Resolved(@, "timeout")]
  /\ UNCHANGED <<storeVars, work, listener, reserved, recent, environment>>

TimerFires(t) ==
  /\ Quiet
  /\ request[t].pc = "await" /\ request[t].timer = 0
  /\ request' = [request EXCEPT ![t] = Resolved(@, "timeout")]
  /\ UNCHANGED <<storeVars, work, listener, reserved, recent, environment>>

\* No workload of that id is registered with the pipeline, so all that happens
\* is that the list gets another entry.
CancelSingle(name) ==
  /\ Quiet
  /\ events < MaxEvents /\ events' = events + 1
  /\ recent' = Push(recent, [name |-> name, status |-> "FAILED"])
  /\ UNCHANGED <<storeVars, request, work, listener, reserved, link,
                 simulated>>

\* The virtual workers come and go; what runs on them goes on.
SetSimulationMode ==
  /\ Quiet
  /\ events < MaxEvents /\ events' = events + 1
  /\ simulated' = ~simulated
  /\ UNCHANGED <<storeVars, request, work, listener, reserved, link, recent>>

-----------------------------------------------------------------------------
\* The result pipeline.

\* The attempt number is the one of the row as it was created; a simulated
\* worker sends none.
Acceptable(t) ==
  /\ rows[t].status # "COMPLETED"
  /\ rows[t].worker \in {NoWorker, request[t].worker}
  /\ request[t].worker \in SimWorkers \/ Attempt(t) = 1

\* A result is read; the checks up to the await.
ReceiveResult(t) ==
  /\ NoContinuation
  /\ work[t].stage = "sent" /\ link[request[t].worker] = "open"
  /\ work' = [work EXCEPT ![t].stage = IF Acceptable(t) THEN "checked" ELSE "gone"]
  /\ UNCHANGED <<storeVars, request, listener, reserved, recent, environment>>

Notify(t, outcome) ==
  /\ listener' = listener \ {t}
  /\ request' = IF t \in listener
                THEN [request EXCEPT ![t] = Resolved(@, outcome)] ELSE request

\* Mutant of ProcessResult: the listener is told before the row is completed,
\* which it may not be able to.
NotifyFirst(t) ==
  /\ work[t].stage = "checked"
  /\ work' = [work EXCEPT ![t].stage = "gone"]
  /\ \/ /\ work[t].valid
        /\ IF InFlight(t) THEN CompleteTask(t) ELSE UNCHANGED storeVars
        /\ Notify(t, "ok")
     \/ /\ ~work[t].valid
        /\ RecordTaskFailure(t, request[t].worker, TRUE)
        /\ Notify(t, "failed")
  /\ UNCHANGED <<reserved, recent, environment>>

\* The rest of handleTaskResult.  completeTask throws for a row that is not in
\* flight; the simulation path records that as a failure.
ProcessResult(t) ==
  /\ work[t].stage = "checked"
  /\ work' = [work EXCEPT ![t].stage = "gone"]
  /\ \/ /\ work[t].valid /\ InFlight(t)
        /\ CompleteTask(t)
        /\ Notify(t, "ok")
     \/ /\ work[t].valid /\ ~InFlight(t)
        /\ IF request[t].worker \in SimWorkers
           THEN RecordTaskFailure(t, request[t].worker, FALSE)
           ELSE UNCHANGED storeVars
        /\ UNCHANGED <<request, listener, simulated>>
     \/ /\ ~work[t].valid
        /\ RecordTaskFailure(t, request[t].worker, TRUE)
        /\ Notify(t, "failed")
  /\ UNCHANGED <<reserved, recent, environment>>

-----------------------------------------------------------------------------
\* Workers, the watchdog, time.

RemoteReplies(t, valid) ==
  /\ Quiet
  /\ work[t].stage = "ordered" /\ request[t].worker \in Remote
  /\ work' = [work EXCEPT ![t] = [stage |-> "sent", valid |-> valid]]
  /\ UNCHANGED <<storeVars, request, listener, reserved, recent, environment>>

\* The adapter's answer goes straight through the checks.
SimulationAnswers(t, valid) ==
  /\ Quiet
  /\ work[t].stage = "ordered" /\ request[t].worker \in SimWorkers
  /\ work' = [work EXCEPT ![t] =
       [stage |-> IF Acceptable(t) THEN "checked" ELSE "gone", valid |-> valid]]
  /\ UNCHANGED <<storeVars, request, listener, reserved, recent, environment>>

\* executeTask rejects: the failure is recorded, the promise waits on.
SimulationRejects(t) ==
  /\ Quiet
  /\ work[t].stage = "ordered" /\ request[t].worker \in SimWorkers
  /\ work' = [work EXCEPT ![t].stage = "gone"]
  /\ RecordTaskFailure(t, request[t].worker, FALSE)
  /\ UNCHANGED <<request, listener, reserved, recent, environment>>

\* What a worker has not delivered can be lost with its connection.
WorkLost(t) ==
  /\ Quiet
  /\ work[t].stage \in {"ordered", "sent"}
  /\ request[t].worker \in Remote /\ link[request[t].worker] # "open"
  /\ work' = [work EXCEPT ![t].stage = "gone"]
  /\ UNCHANGED <<storeVars, request, listener, reserved, recent, environment>>

ConnectionDrops(w) ==
  /\ Quiet
  /\ w \in Remote /\ link[w] = "open"
  /\ events < MaxEvents /\ events' = events + 1
  /\ link' = [link EXCEPT ![w] = "closing"]
  /\ UNCHANGED <<storeVars, request, work, listener, reserved, recent,
                 simulated>>

\* The close event: unregister and recoverWorkerLoss.
WorkerLost(w) ==
  /\ Quiet
  /\ w \in Remote /\ link[w] = "closing"
  /\ link' = [link EXCEPT ![w] = "down"]
  /\ RecoverWorkerLoss(w)
  /\ UNCHANGED <<request, work, listener, reserved, recent,
                 events, simulated>>

Reconnect(w) ==
  /\ Quiet
  /\ link[w] = "down"
  /\ link' = [link EXCEPT ![w] = "open"]
  /\ UNCHANGED <<storeVars, request, work, listener, reserved, recent,
                 events, simulated>>

\* A virtual worker reports once, when the simulation is switched on.
Telemetry(w) ==
  /\ Quiet
  /\ w \in Remote /\ link[w] = "open"
  /\ RenewWorkerLeases(w)
  /\ UNCHANGED singleVars

LeaseWatchdog ==
  /\ Quiet
  /\ RecoverExpiredLeases
  /\ UNCHANGED singleVars

TimePasses ==
  /\ Quiet
  /\ \/ Tick
     \/ /\ \E t \in Tasks : request[t].timer > 0
        /\ \A t \in Tasks : InFlight(t) => Expired(t)
        /\ UNCHANGED storeVars
  /\ request' = [t \in Tasks |->
       [request[t] EXCEPT !.timer = IF @ > 0 THEN @ - 1 ELSE 0]]
  /\ UNCHANGED <<work, listener, reserved, recent, environment>>

-----------------------------------------------------------------------------

RequestStep(t) ==
  \/ \E w \in Workers : PlaceSingle(t, w)
  \/ NoPlacement(t)
  \/ SendSingle(t)
  \/ SendFails(t)
  \/ Resume(t)

SingleNext ==
  \/ \E t \in Tasks : Submit(t) \/ RequestStep(t) \/ TimerFires(t)
  \/ \E name \in Names : CancelSingle(name)
  \/ SetSimulationMode
  \/ \E t \in Tasks : \/ ReceiveResult(t) \/ ProcessResult(t)
                      \/ SimulationRejects(t) \/ WorkLost(t)
  \/ \E t \in Tasks, valid \in BOOLEAN :
       RemoteReplies(t, valid) \/ SimulationAnswers(t, valid)
  \/ \E w \in Workers : \/ ConnectionDrops(w) \/ WorkerLost(w)
                        \/ Reconnect(w) \/ Telemetry(w)
  \/ LeaseWatchdog
  \/ TimePasses

SingleSpec == InitAll /\ [][SingleNext]_vars

(***************************************************************************)
(* Continuations run, the timers of the requests and the watchdog's        *)
(* interval fire, time passes.                                             *)
(***************************************************************************)
FairSingleSpec ==
  /\ SingleSpec
  /\ \A t \in Tasks : /\ WF_vars(RequestStep(t)) /\ WF_vars(TimerFires(t))
                      /\ WF_vars(ProcessResult(t))
  /\ WF_vars(LeaseWatchdog)
  /\ WF_vars(TimePasses)

-----------------------------------------------------------------------------

SingleTypeOK ==
  /\ TypeOK
  /\ request \in [Tasks -> Request]
  /\ work \in [Tasks -> Work]
  /\ listener \subseteq Tasks
  /\ reserved \in [Workers -> Nat]
  /\ link \in [Workers -> {"open", "closing", "down"}]
  /\ simulated \in BOOLEAN
  /\ recent \in Seq(Event) /\ Len(recent) <= MaxRecent
  /\ events \in 0 .. MaxEvents

(***************************************************************************)
(* A reservation is held exactly while a request is between assignTask and *)
(* its answer: the finally block covers every way out.                     *)
(***************************************************************************)
ReservationsBalanced ==
  \A w \in Workers :
    reserved[w] = Cardinality({t \in Tasks : request[t].pc \in {"send", "await"}
                                              /\ request[t].worker = w})

(***************************************************************************)
(* A client that was told COMPLETED has a COMPLETED row behind it, for     *)
(* good: no recovery, late failure or lost worker takes it back            *)
(* (handleTaskResult, recordTaskFailure in the simulation's catch).        *)
(***************************************************************************)
CompletedAnswerStands ==
  \A t \in Tasks : request[t].answer = "completed" => rows[t].status = "COMPLETED"

(***************************************************************************)
(* A workload the client is shown as RUNNING is one that some request is   *)
(* waiting for, also when requests share a workload id, a cancellation has *)
(* added an entry of the same id, or the list, which never grows beyond    *)
(* its limit, has dropped entries (recordWorkloadEvent).                   *)
(***************************************************************************)
RunningIsAwaited ==
  /\ Len(recent) <= MaxRecent
  /\ \A i \in DOMAIN recent : recent[i].status = "RUNNING" =>
       \E t \in Tasks : request[t].name = recent[i].name /\ request[t].pc = "await"

(***************************************************************************)
(* Every request is answered, whatever its worker does (the timer).        *)
(***************************************************************************)
RequestsAnswered ==
  \A t \in Tasks : request[t].pc = "await" ~> request[t].pc = "over"

(***************************************************************************)
(* A row that outlived its request on a worker that renews no lease does   *)
(* not stay in flight: the request records no failure, so the watchdog is  *)
(* the only one to take it back (recoverExpiredLeases).                    *)
(***************************************************************************)
OrphansAreReclaimed ==
  \A t \in Tasks, w \in Silent \cup SimWorkers :
    (request[t].pc = "over" /\ InFlight(t) /\ rows[t].worker = w) ~> ~InFlight(t)

=============================================================================
