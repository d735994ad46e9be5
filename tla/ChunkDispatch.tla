---------------------------- MODULE ChunkDispatch ----------------------------
(***************************************************************************)
(* One chunked workload in the Core daemon: the dispatch loop of each      *)
(* chunk (core/src/ipc_server.ts), the result pipeline that settles it     *)
(* (core/src/workload_pipeline.ts), the lease watchdog and the worker-loss *)
(* recovery (core/src/transport_server.ts), the reservations               *)
(* (core/src/decision_engine.ts), and the workers, real and simulated, on  *)
(* top of the task table of TaskStore.  The tasks are the workload's       *)
(* chunks.                                                                 *)
(*                                                                         *)
(* Core is one Node.js event loop.  A macrotask (a timer, a socket event,  *)
(* an IPC request) starts only when no continuation is pending: Quiet.     *)
(* Between an await and its continuation only the continuations queued     *)
(* before it run, and the messages that arrived in the same read.          *)
(*                                                                         *)
(* Each action makes at most one step of the task table; where the code    *)
(* makes several in one go, the states in between are not Quiet.           *)
(***************************************************************************)
EXTENDS TaskStore, FiniteSetsExt

CONSTANTS
  SimWorkers,    \* virtual workers of the simulation adapter, always registered
  SimFallback,   \* SimulationWorkerAdapter.DEVICE_ID, or NoWorker: not enabled
  Pools,         \* how many chunks may be dispatched at once
  MaxLoop,       \* maxRetries of the dispatch loop: MaxLoop + 1 placements
  ChunkTimeout,  \* dynamicChunkTimeoutMs: both the timer and the lease
  MaxDrops,      \* bound: connections lost
  MaxCopies,     \* bound: results a worker sends twice
  MaxCrashes     \* bound: crashes of Core

\* A workload is an array of chunks: there are finitely many.
ASSUME ChunkDispatchAssumption ==
  /\ IsFiniteSet(Tasks)
  /\ SimWorkers \subseteq Workers
  /\ SimFallback \in SimWorkers \cup {NoWorker}
  /\ Pools \subseteq 1 .. Cardinality(Tasks)
  /\ MaxLoop \in Nat
  /\ ChunkTimeout \in Leases
  /\ MaxDrops \in Nat /\ MaxCopies \in Nat /\ MaxCrashes \in Nat

VARIABLES
  disp,       \* the dispatch loop of each chunk
  listener,   \* chunks with a completion listener in the pipeline
  reserved,   \* DistributionDecisionEngine.workerInFlight
  link,       \* the socket of each worker, as Core sees it
  orders,     \* EXECUTE_TASK messages the workers have or will get
  replies,    \* results of remote workers on their way to Core
  checking,   \* results past handleTaskResult's checks, awaiting validation
  workload,   \* ActiveWorkloadState and what the IPC client was told
  budget      \* what is left of the bounded environment

dispatchVars == <<disp, listener, reserved, link, orders, replies, checking,
                  workload, budget>>
vars == <<rows, granted, disp, listener, reserved, link, orders, replies,
          checking, workload, budget>>

Remote == Workers \ SimWorkers

\* Control points of a dispatch loop; at "await" it waits for its promise.
Quiescent == {"idle", "await", "done", "failed"}
Dispatch == [pc      : Quiescent \cup {"begin", "place", "send"},
             loop    : 0 .. MaxLoop,             \* attempt of the for loop
             target  : Workers \cup {NoWorker},  \* task.assignedWorkerId
             known   : Nat,                      \* task.retryCount as read once
             promise : {"pending", "ok", "bad", "timeout"},
             timer   : Nat]

IdleDispatch == [pc |-> "idle", loop |-> 0, target |-> NoWorker, known |-> 0,
                 promise |-> "pending", timer |-> 0]

\* An order remembers, as history, the attempt number the table had for it.
\* A simulated worker gets no attempt number: NoAttempt.
NoAttempt == 0
Order == [task : Tasks, worker : Workers, attempt : Nat, gen : Nat]
Reply == [order : Order, valid : BOOLEAN]

IdleWorkload == [status |-> "idle", pool |-> 0, tracked |-> {}, completed |-> 0,
                 failed |-> 0, cancelled |-> FALSE]

Settled(c) == disp[c].pc = "await" /\ disp[c].promise # "pending"
NoContinuation == \A c \in Tasks : disp[c].pc \in Quiescent /\ ~Settled(c)
Quiet == NoContinuation /\ checking = {}

\* A loop runs from one await to the next without another loop in between.
NoOtherRuns(c) == \A d \in Tasks \ {c} : disp[d].pc \notin {"place", "send"}

\* The listener of a chunk resolves the promise it was made for: once.
Resolved(d, outcome) ==
  IF d.pc = "await" /\ d.promise = "pending"
  THEN [d EXCEPT !.promise = outcome, !.timer = 0]
  ELSE d

Release(w) == reserved' = [reserved EXCEPT ![w] = IF @ <= 1 THEN 0 ELSE @ - 1]

\* Mutant of Conclude: Promise.allSettled, whose results nobody looks at.
ConcludeAllSettled(d) ==
  workload' = [workload EXCEPT !.status =
    IF @ = "running" /\ \A c \in Tasks : d[c].pc \in {"done", "failed"}
    THEN "completed" ELSE @]

\* Promise.all: the first failed chunk fails the workload for the client,
\* the last finished one completes it.
Conclude(d) ==
  workload' = [workload EXCEPT !.status =
    IF @ = "running" /\ \E c \in Tasks : d[c].pc = "failed" THEN "failed"
    ELSE IF @ = "running" /\ \A c \in Tasks : d[c].pc = "done" THEN "completed"
    ELSE @]

-----------------------------------------------------------------------------

DispatchInit ==
  /\ disp = [c \in Tasks |-> IdleDispatch]
  /\ listener = {}
  /\ reserved = [w \in Workers |-> 0]
  /\ link = [w \in Workers |-> "open"]
  /\ orders = {}
  /\ replies = {}
  /\ checking = {}
  /\ workload = IdleWorkload
  /\ budget = [drops |-> MaxDrops, copies |-> MaxCopies, crashes |-> MaxCrashes]

InitAll == Init /\ DispatchInit

\* executeWorkload reaches the chunked path: registerWorkload, then dispatch loops
\* run up to their first await: of every chunk of a matrix or an image, of as many
\* chunks of a video as there are consumers.  The others are pendingSpecs.
Submit ==
  /\ Quiet
  /\ workload.status = "idle"
  /\ \E first \in UNION {kSubset(n, Tasks) : n \in Pools} :
       /\ workload' = [IdleWorkload EXCEPT !.status = "running",
                                           !.pool = Cardinality(first)]
       /\ disp' = [c \in Tasks |-> [IdleDispatch EXCEPT
                     !.pc = IF c \in first THEN "begin" ELSE "idle"]]
  /\ UNCHANGED <<storeVars, listener, reserved, link, orders, replies, checking,
                 budget>>

\* The chunk's row is read, or created; the copy of the task is never re-read.
BeginChunk(c) ==
  /\ disp[c].pc = "begin" /\ NoOtherRuns(c)
  /\ IF rows[c].status = "ABSENT" THEN CreateTask(c, {}) ELSE UNCHANGED storeVars
  /\ disp' = [disp EXCEPT ![c].pc = "place", ![c].known = rows[c].retryCount]
  /\ workload' = [workload EXCEPT !.tracked = @ \cup {c}]
  /\ UNCHANGED <<listener, reserved, link, orders, replies, checking, budget>>

\* A worker is registered until its socket's close event, not its closing.
Registered(w) == w \in SimWorkers \/ link[w] \in {"open", "closing"}

Candidates(c) ==
  LET pool == {w \in Workers : Registered(w) /\ w \notin rows[c].excluded}
  IN IF pool = {} THEN {SimFallback} \ {NoWorker} ELSE pool

\* scheduleTask, assignTask, acquireReservation, onTaskFinished, setTimeout.
PlaceChunk(c, w) ==
  /\ disp[c].pc = "place"
  /\ w \in Candidates(c)
  /\ AssignTask(c, w, ChunkTimeout)
  /\ reserved' = [reserved EXCEPT ![w] = @ + 1]
  /\ listener' = listener \cup {c}
  /\ disp' = [disp EXCEPT ![c].pc = "send", ![c].target = w,
                          ![c].promise = "pending", ![c].timer = ChunkTimeout]
  /\ UNCHANGED <<link, orders, replies, checking, workload, budget>>

\* No worker, or assignTask throws because the row is not PENDING.
PlacementThrows(c) ==
  /\ disp[c].pc = "place"
  /\ Candidates(c) = {} \/ rows[c].status # "PENDING"
  /\ disp' = [disp EXCEPT ![c].pc = "failed"]
  /\ Conclude(disp')
  /\ UNCHANGED <<storeVars, listener, reserved, link, orders, replies, checking,
                 budget>>

NewOrder(c) ==
  [task |-> c, worker |-> disp[c].target, gen |-> Attempt(c),
   attempt |-> IF disp[c].target \in SimWorkers THEN NoAttempt
               ELSE disp[c].known + 1]

SendChunk(c) ==
  /\ disp[c].pc = "send"
  /\ disp[c].target \in SimWorkers \/ link[disp[c].target] = "open"
  /\ orders' = orders \cup {NewOrder(c)}
  /\ disp' = [disp EXCEPT ![c].pc = "await"]
  /\ UNCHANGED <<storeVars, listener, reserved, link, replies, checking,
                 workload, budget>>

\* The socket is closing: TRANSPORT_SEND_FAILED ends the loop, not the attempt.
SendFails(c) ==
  /\ disp[c].pc = "send"
  /\ disp[c].target \in Remote
  /\ link[disp[c].target] # "open"
  /\ RecordTaskFailure(c, disp[c].target, FALSE)
  /\ Release(disp[c].target)
  /\ disp' = [disp EXCEPT ![c].pc = "failed"]
  /\ Conclude(disp')
  /\ UNCHANGED <<listener, link, orders, replies, checking, budget>>

\* executeTask rejects at once: SIMULATION_ERROR, and nobody tells the loop.
SimulationRejects(c) ==
  /\ disp[c].pc = "send"
  /\ disp[c].target \in SimWorkers
  /\ RecordTaskFailure(c, disp[c].target, FALSE)
  /\ disp' = [disp EXCEPT ![c].pc = "await"]
  /\ UNCHANGED <<listener, reserved, link, orders, replies, checking, workload,
                 budget>>

\* Mutant of TakesNext: every consumer serves one chunk.
TakesNone(c) == disp' = [disp EXCEPT ![c].pc = "done"]

\* Chunks no loop has begun; what a consumer that has finished chunk c takes next.
Pending == {c \in Tasks : disp[c].pc = "idle"}
TakesNext(c) ==
  IF Pending = {} THEN disp' = [disp EXCEPT ![c].pc = "done"]
  ELSE \E d \in Pending : disp' = [disp EXCEPT ![c].pc = "done", ![d].pc = "begin"]

ResumeCompleted(c) ==
  /\ checking = {} /\ NoOtherRuns(c)
  /\ Settled(c) /\ disp[c].promise = "ok"
  /\ Release(disp[c].target)
  /\ TakesNext(c)
  /\ Conclude(disp')
  /\ UNCHANGED <<storeVars, listener, link, orders, replies, checking, budget>>

\* The attempt of the for loop has failed: the next one, if there is one.
GoesRound(d) ==
  IF d.loop < MaxLoop
  THEN [d EXCEPT !.pc = "place", !.loop = @ + 1]
  ELSE [d EXCEPT !.pc = "failed"]

\* Mutant of ResumeFailed: the reservation is released on success only.
ResumeFailedReserved(c) ==
  /\ checking = {} /\ NoOtherRuns(c)
  /\ Settled(c) /\ disp[c].promise # "ok"
  /\ RecordTaskFailure(c, disp[c].target, FALSE)
  /\ disp' = [disp EXCEPT ![c] = GoesRound(@)]
  /\ Conclude(disp')
  /\ UNCHANGED <<reserved, listener, link, orders, replies, checking, budget>>

\* Mutant of ResumeFailed: the failed attempt is not recorded, as on the path
\* of executeWorkload that dispatches a single task.
ResumeFailedUnrecorded(c) ==
  /\ checking = {} /\ NoOtherRuns(c)
  /\ Settled(c) /\ disp[c].promise # "ok"
  /\ Release(disp[c].target)
  /\ disp' = [disp EXCEPT ![c] = GoesRound(@)]
  /\ Conclude(disp')
  /\ UNCHANGED <<storeVars, listener, link, orders, replies, checking, budget>>

\* Timed out, failed validation or cancelled: EXECUTION_FAILED is recorded
\* whatever was recorded before, and the loop goes round.
ResumeFailed(c) ==
  /\ checking = {} /\ NoOtherRuns(c)
  /\ Settled(c) /\ disp[c].promise # "ok"
  /\ RecordTaskFailure(c, disp[c].target, FALSE)
  /\ Release(disp[c].target)
  /\ disp' = [disp EXCEPT ![c] = GoesRound(@)]
  /\ Conclude(disp')
  /\ UNCHANGED <<listener, link, orders, replies, checking, budget>>

\* Mutant of TimerFires: the watchdog took the chunk, so the timer is skipped.
TimerFiresIfOwned(c) ==
  /\ Quiet
  /\ InFlight(c)
  /\ disp[c].pc = "await" /\ disp[c].timer = 0
  /\ disp' = [disp EXCEPT ![c] = Resolved(@, "timeout")]
  /\ UNCHANGED <<storeVars, listener, reserved, link, orders, replies, checking,
                 workload, budget>>

\* The timeout resolves the promise; the listener stays in the pipeline.
TimerFires(c) ==
  /\ Quiet
  /\ disp[c].pc = "await" /\ disp[c].timer = 0
  /\ disp' = [disp EXCEPT ![c] = Resolved(@, "timeout")]
  /\ UNCHANGED <<storeVars, listener, reserved, link, orders, replies, checking,
                 workload, budget>>

-----------------------------------------------------------------------------
\* The result pipeline.

\* The simulation adapter reads the worker id from the loop's task object when
\* the result is ready, a remote worker's message comes from its own socket.
Sender(r) ==
  IF r.order.worker \in SimWorkers THEN disp[r.order.task].target
  ELSE r.order.worker

\* Mutant of Acceptable: the attempt number is not compared.
AcceptableOfAnyAttempt(r) ==
  LET row == rows[r.order.task] IN
  /\ row.status # "COMPLETED"
  /\ row.worker \in {NoWorker, Sender(r)}

\* The checks of handleTaskResult: completed already, another worker's task,
\* another attempt.
Acceptable(r) ==
  LET row == rows[r.order.task] IN
  /\ row.status # "COMPLETED"
  /\ row.worker \in {NoWorker, Sender(r)}
  /\ r.order.attempt \in {NoAttempt, row.retryCount + 1}

\* handleTaskResult up to its await.  A worker may send a result twice.
ReceiveResult(r) ==
  /\ NoContinuation
  /\ r \in replies
  /\ link[r.order.worker] = "open"
  /\ \A h \in checking : h.reply.order.worker = r.order.worker
  /\ checking' = IF Acceptable(r)
                 THEN checking \cup {[reply |-> r, copy |-> budget.copies]}
                 ELSE checking
  /\ \/ /\ replies' = replies \ {r}
        /\ UNCHANGED budget
     \/ /\ budget.copies > 0
        /\ budget' = [budget EXCEPT !.copies = @ - 1]
        /\ UNCHANGED replies
  /\ UNCHANGED <<storeVars, disp, listener, reserved, link, orders, workload>>

\* A simulated worker's thread answers, and the answer goes straight through
\* handleTaskResult's checks.  A message of the thread settles every execution
\* of that chunk that listens to the thread; one that gave up waiting, or
\* computes in process, settles alone.  So: any of them, with one output.
SimulationAnswers(c, s, valid) ==
  /\ Quiet
  /\ \E batch \in SUBSET {o \in orders : o.task = c /\ o.worker = s} :
       /\ batch # {}
       /\ orders' = orders \ batch
       /\ checking' = {[reply |-> r, copy |-> 0] :
                        r \in {r \in {[order |-> o, valid |-> valid] : o \in batch} :
                               Acceptable(r)}}
  /\ UNCHANGED <<storeVars, disp, listener, reserved, link, replies, workload,
                 budget>>

Notify(c, outcome) ==
  /\ listener' = listener \ {c}
  /\ disp' = IF c \in listener
             THEN [disp EXCEPT ![c] = Resolved(@, outcome)] ELSE disp

\* The rest of handleTaskResult for a valid result.
AcceptResult(h) ==
  LET c == h.reply.order.task IN
  /\ h \in checking
  /\ h.reply.valid
  /\ checking' = checking \ {h}
  /\ CompleteTask(c)
  /\ workload' = IF c \notin workload.tracked THEN workload
                 ELSE [workload EXCEPT !.tracked = @ \ {c}, !.completed = @ + 1]
  /\ Notify(c, "ok")
  /\ UNCHANGED <<reserved, link, orders, replies, budget>>

\* completeTask throws: the task is not in flight (any more).  The message
\* handler reports a remote result, the simulation path records a failure.
AcceptThrows(h) ==
  LET c == h.reply.order.task IN
  /\ h \in checking
  /\ h.reply.valid
  /\ ~InFlight(c)
  /\ checking' = checking \ {h}
  /\ IF h.reply.order.worker \in SimWorkers
     THEN RecordTaskFailure(c, h.reply.order.worker, FALSE)
     ELSE UNCHANGED storeVars
  /\ UNCHANGED <<disp, listener, reserved, link, orders, replies, workload,
                 budget>>

\* Mutant of RejectResult: the chunk is dropped without being counted as failed.
RejectResultUncounted(h) ==
  LET c == h.reply.order.task IN
  /\ h \in checking
  /\ ~h.reply.valid
  /\ checking' = checking \ {h}
  /\ RecordTaskFailure(c, Sender(h.reply), TRUE)
  /\ workload' = [workload EXCEPT !.tracked = @ \ {c}]
  /\ Notify(c, "bad")
  /\ UNCHANGED <<reserved, link, orders, replies, budget>>

\* The result fails validation: VALIDATION_TOLERANCE_EXCEEDED, the worker is
\* excluded from this task.
RejectResult(h) ==
  LET c == h.reply.order.task IN
  /\ h \in checking
  /\ ~h.reply.valid
  /\ checking' = checking \ {h}
  /\ RecordTaskFailure(c, Sender(h.reply), TRUE)
  /\ workload' = IF c \notin workload.tracked THEN workload
                 ELSE [workload EXCEPT !.tracked = @ \ {c}, !.failed = @ + 1]
  /\ Notify(c, "bad")
  /\ UNCHANGED <<reserved, link, orders, replies, budget>>

\* Every tracked chunk that is not terminal is told ABANDONED; its row is not
\* touched and the loops are not stopped.
CancelWorkload ==
  LET told == {c \in workload.tracked \cap listener :
                 rows[c].status \in {"PENDING"} \cup InFlightStatus}
  IN
  /\ Quiet
  /\ workload.status # "idle" /\ ~workload.cancelled
  /\ workload' = [workload EXCEPT !.cancelled = TRUE, !.tracked = {}]
  /\ listener' = listener \ told
  /\ disp' = [c \in Tasks |->
                IF c \in told THEN Resolved(disp[c], "bad") ELSE disp[c]]
  /\ UNCHANGED <<storeVars, reserved, link, orders, replies, checking, budget>>

-----------------------------------------------------------------------------
\* Workers, connections, the watchdog, time.

\* A remote worker computes what it was sent; the result is valid or it is not.
WorkerReplies(o, valid) ==
  /\ Quiet
  /\ o \in orders /\ o.worker \in Remote
  /\ orders' = orders \ {o}
  /\ replies' = replies \cup {[order |-> o, valid |-> valid]}
  /\ UNCHANGED <<storeVars, disp, listener, reserved, link, checking, workload,
                 budget>>

\* What a remote worker has not delivered can be lost with it.
MessageLost ==
  /\ Quiet
  /\ \E w \in Remote : link[w] # "open" /\
       \/ /\ \E o \in orders : o.worker = w /\ orders' = orders \ {o}
          /\ UNCHANGED replies
       \/ /\ \E r \in replies : r.order.worker = w /\ replies' = replies \ {r}
          /\ UNCHANGED orders
  /\ UNCHANGED <<storeVars, disp, listener, reserved, link, checking, workload,
                 budget>>

ConnectionDrops(w) ==
  /\ Quiet
  /\ w \in Remote /\ link[w] = "open" /\ budget.drops > 0
  /\ link' = [link EXCEPT ![w] = "closing"]
  /\ budget' = [budget EXCEPT !.drops = @ - 1]
  /\ UNCHANGED <<storeVars, disp, listener, reserved, orders, replies, checking,
                 workload>>

\* The close event, or the watchdog's sweep of a worker whose socket is not
\* open or whose heartbeat has stopped: unregister, recoverWorkerLoss.
WorkerLost(w) ==
  /\ Quiet
  /\ w \in Remote
  /\ link[w] = "closing" \/ (link[w] = "open" /\ w \in Silent)
  /\ link' = [link EXCEPT ![w] = "down"]
  /\ RecoverWorkerLoss(w)
  /\ UNCHANGED <<disp, listener, reserved, orders, replies, checking, workload,
                 budget>>

Reconnect(w) ==
  /\ Quiet
  /\ link[w] = "down" /\ w \notin Silent
  /\ link' = [link EXCEPT ![w] = "open"]
  /\ UNCHANGED <<storeVars, disp, listener, reserved, orders, replies, checking,
                 workload, budget>>

Telemetry(w) ==
  /\ Quiet
  /\ w \in Remote /\ link[w] = "open"
  /\ RenewWorkerLeases(w)
  /\ UNCHANGED dispatchVars

LeaseWatchdog ==
  /\ Quiet
  /\ RecoverExpiredLeases
  /\ UNCHANGED dispatchVars

\* Leases and timers run down together.
TimePasses ==
  /\ Quiet
  /\ \/ Tick
     \/ /\ \E c \in Tasks : disp[c].timer > 0
        /\ \A c \in Tasks : InFlight(c) => Expired(c)
        /\ UNCHANGED storeVars
  /\ disp' = [c \in Tasks |->
                [disp[c] EXCEPT !.timer = IF @ > 0 THEN @ - 1 ELSE 0]]
  /\ UNCHANGED <<listener, reserved, link, orders, replies, checking, workload,
                 budget>>

\* Core dies and is started again: recoverInFlightTasks, everything else that
\* it knew is gone, and the IPC client may submit the workload again.
CrashRestart ==
  /\ budget.crashes > 0
  /\ RecoverInFlightTasks
  /\ disp' = [c \in Tasks |-> IdleDispatch]
  /\ listener' = {}
  /\ reserved' = [w \in Workers |-> 0]
  /\ link' = [w \in Workers |-> IF w \in Remote THEN "down" ELSE link[w]]
  /\ orders' = {o \in orders : o.worker \in Remote}
  /\ UNCHANGED replies
  /\ checking' = {}
  /\ workload' = IdleWorkload
  /\ budget' = [budget EXCEPT !.crashes = @ - 1]

-----------------------------------------------------------------------------

LoopStep(c) ==
  \/ BeginChunk(c)
  \/ \E w \in Workers : PlaceChunk(c, w)
  \/ PlacementThrows(c)
  \/ SendChunk(c)
  \/ SendFails(c)
  \/ SimulationRejects(c)
  \/ ResumeCompleted(c)
  \/ ResumeFailed(c)

PipelineStep ==
  \E h \in checking : AcceptResult(h) \/ AcceptThrows(h) \/ RejectResult(h)

DispatchNext ==
  \/ Submit
  \/ \E c \in Tasks : LoopStep(c) \/ TimerFires(c)
  \/ \E r \in replies : ReceiveResult(r)
  \/ \E c \in Tasks, s \in SimWorkers, valid \in BOOLEAN :
       SimulationAnswers(c, s, valid)
  \/ PipelineStep
  \/ CancelWorkload
  \/ \E o \in orders, valid \in BOOLEAN : WorkerReplies(o, valid)
  \/ MessageLost
  \/ \E w \in Workers : \/ ConnectionDrops(w) \/ WorkerLost(w)
                        \/ Reconnect(w) \/ Telemetry(w)
  \/ LeaseWatchdog
  \/ TimePasses
  \/ CrashRestart

DispatchSpec == InitAll /\ [][DispatchNext]_vars

(***************************************************************************)
(* Continuations run, timers and intervals fire, time passes.  Nothing is  *)
(* assumed of workers, connections or clients.                             *)
(***************************************************************************)
FairDispatchSpec ==
  /\ DispatchSpec
  /\ \A c \in Tasks : WF_vars(LoopStep(c)) /\ WF_vars(TimerFires(c))
  /\ WF_vars(PipelineStep)
  /\ WF_vars(TimePasses)

-----------------------------------------------------------------------------

DispatchTypeOK ==
  /\ TypeOK
  /\ disp \in [Tasks -> Dispatch]
  /\ listener \subseteq Tasks
  /\ reserved \in [Workers -> Nat]
  /\ link \in [Workers -> {"open", "closing", "down"}]
  /\ orders \subseteq Order
  /\ replies \subseteq Reply
  /\ checking \subseteq [reply : Reply, copy : Nat]
  /\ workload \in [status : {"idle", "running", "completed", "failed"},
                   pool : Nat, tracked : SUBSET Tasks, completed : Nat, failed : Nat,
                   cancelled : BOOLEAN]
  /\ budget \in [drops : Nat, copies : Nat, crashes : Nat]

(***************************************************************************)
(* A reservation is held exactly while a loop is between assignTask and    *)
(* the end of that attempt, on whichever path the attempt ends: the        *)
(* decision engine's queue estimate never drifts.                          *)
(***************************************************************************)
Holding(w) == {c \in Tasks : disp[c].pc \in {"send", "await"}
                              /\ disp[c].target = w}
ReservationsBalanced ==
  \A w \in Workers : reserved[w] = Cardinality(Holding(w))

(***************************************************************************)
(* No row is left in flight with nobody to settle it: a chunk that is      *)
(* ASSIGNED or RUNNING has a dispatch loop that waits for that very        *)
(* worker, across timeouts, cancellation, lost workers and crashes.        *)
(***************************************************************************)
InFlightIsAwaited ==
  \A c \in Tasks : InFlight(c) =>
    /\ disp[c].pc \in {"send", "await"}
    /\ disp[c].target = rows[c].worker

(***************************************************************************)
(* What handleTaskResult checked before its await still holds after it: a  *)
(* result that is being validated, and whose chunk is still in flight, is  *)
(* a result of the chunk's current attempt by its current worker. It is    *)
(* about workers that name themselves: a simulated one answers under the   *)
(* name the row has by then, and one thread message can answer twice.      *)
(***************************************************************************)
CheckedResultIsCurrent ==
  \A h \in checking :
    LET o == h.reply.order IN
    InFlight(o.task) => /\ o.gen = Attempt(o.task)
                        /\ o.worker = rows[o.task].worker

(***************************************************************************)
(* A chunk that is COMPLETED in the table stays so: no late failure,       *)
(* duplicate result or recovery reopens it and runs it again.              *)
(* recordTaskFailure itself would: it takes a row in any status. And it    *)
(* does, where one thread message settles two executions of a chunk on the *)
(* same simulated worker: the second cannot complete the row any more, and *)
(* its error is recorded as a failure. So this too is of real workers.     *)
(***************************************************************************)
CompletedIsFinal ==
  [][\A c \in Tasks : rows[c].status = "COMPLETED"
                         => rows'[c].status = "COMPLETED"]_vars

(***************************************************************************)
(* The progress that a client polls (getWorkloadProgress) accounts for     *)
(* every chunk once, whatever order loops, answers and retries come in:    *)
(* completed, failed, tracked and not yet begun add up to the workload,    *)
(* until it is cancelled, which drops the tracked ones; and a chunk that   *)
(* has ended well is not shown as in flight.                               *)
(***************************************************************************)
Fresh == {c \in Tasks : disp[c].pc \in {"idle", "begin"}}
ProgressAddsUp ==
  LET counted == workload.completed + workload.failed
      open    == Cardinality(workload.tracked) + Cardinality(Fresh)
  IN /\ counted + open <= Cardinality(Tasks)
     /\ ~workload.cancelled => counted + open = Cardinality(Tasks)
     /\ \A c \in workload.tracked : disp[c].pc # "done"

(***************************************************************************)
(* The consumers of a workload serve its queue: never more chunks are in   *)
(* the hands of dispatch loops than there are consumers, and while the     *)
(* client waits there is one (workerPool of executeChunkedVideoAnalysis:   *)
(* a consumer whose chunk fails stops, the others go on).                  *)
(***************************************************************************)
Busy == {c \in Tasks : disp[c].pc \notin {"idle", "done", "failed"}}
PoolServesQueue ==
  /\ Cardinality(Busy) <= workload.pool
  /\ workload.status = "running" => Busy # {}

(***************************************************************************)
(* The client always gets an answer: every dispatch loop ends, whatever    *)
(* workers and connections do, unless Core itself dies.                    *)
(***************************************************************************)
LoopsEnd ==
  \A c \in Tasks :
    disp[c].pc = "begin" ~> disp[c].pc \in {"done", "failed", "idle"}

(***************************************************************************)
(* CLAIM of the dispatch loop and the stale-attempt check: an order that   *)
(* is for the chunk's current attempt carries that attempt's number, so    *)
(* its answer will not be taken for a stale one.                           *)
(***************************************************************************)
CurrentOrderCarriesItsAttempt ==
  \A o \in orders :
    o.worker \in Remote /\ InFlight(o.task) /\ o.gen = Attempt(o.task)
      => o.attempt = Attempt(o.task)

=============================================================================
