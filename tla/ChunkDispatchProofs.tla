------------------------- MODULE ChunkDispatchProofs -------------------------
(***************************************************************************)
(* Theorems about a chunked workload, for every set of chunks, workers     *)
(* real and simulated, pool sizes, retry limits and fault budgets.         *)
(***************************************************************************)
EXTENDS ChunkDispatchContract, TaskStoreProofs, FiniteSetTheorems

\* The orders that Core may still hear of.
Answers == replies \cup {h.reply : h \in checking}
Known == orders \cup {r.order : r \in Answers}

(***************************************************************************)
(* Whom the table will be told about: a loop past its placement has a      *)
(* target, and so has, for as long as the order lives, one that has sent   *)
(* an order to a simulated worker.  Before a workload there is neither.    *)
(***************************************************************************)
Named ==
  /\ \A c \in Tasks : disp[c].pc \in {"send", "await"} => disp[c].target \in Workers
  /\ \A o \in Known : o.worker \in SimWorkers => disp[o.task].target \in Workers
  /\ \A r \in replies : r.order.worker \in Remote
  /\ workload.status = "idle" =>
       \A c \in Tasks : disp[c].pc = "idle" /\ disp[c].target = NoWorker

\* The event loop: one dispatch loop is between two awaits, and the pipeline is
\* not between its own meanwhile.
Turns ==
  /\ \A c, d \in Tasks : disp[c].pc \in {"place", "send"} /\ disp[d].pc \in {"place", "send"}
                           => c = d
  /\ (\E c \in Tasks : disp[c].pc \notin Quiescent) => checking = {}

(***************************************************************************)
(* A loop and its row: the row in flight is the one the loop has placed,   *)
(* until the promise is resolved by its result; the copy of the retry      *)
(* counter is never ahead of the row.                                      *)
(***************************************************************************)
InTouch(c) ==
  /\ InFlight(c) => /\ disp[c].pc \in {"send", "await"}
                    /\ disp[c].target = rows[c].worker
  /\ disp[c].pc = "send" => InFlight(c) /\ disp[c].promise = "pending"
  /\ disp[c].pc = "await" /\ disp[c].promise = "ok" => ~InFlight(c)
  /\ disp[c].pc \in {"place", "send", "await"} => disp[c].known <= rows[c].retryCount

(***************************************************************************)
(* An order that lives is of no attempt later than the row's; of the row's *)
(* own only once it was sent, and until that attempt ends without result.  *)
(* The number that a real worker is given may lag behind the attempt's.    *)
(***************************************************************************)
Past(o) ==
  /\ o.gen <= Attempt(o.task)
  /\ o.gen = Attempt(o.task) => /\ InFlight(o.task) \/ rows[o.task].status = "COMPLETED"
                                /\ disp[o.task].pc # "send"
  /\ o.worker \in Remote => o.attempt \in 1 .. o.gen

\* A real worker's result that is being validated carries its attempt's number,
\* and is its row's as long as the row is in flight.
Checked(h) ==
  LET o == h.reply.order IN
  o.worker \in Remote =>
    /\ o.attempt = o.gen
    /\ InFlight(o.task) => o.gen = Attempt(o.task) /\ o.worker = rows[o.task].worker

-----------------------------------------------------------------------------
\* Where the calls of the dispatch code go: steps of the task table.

\* What is known after a step: the orders known before and the one just sent.
LEMMA KnownStep ==
  ASSUME DispatchTypeOK, [DispatchNext]_vars
  PROVE  \A o \in Known' :
           o \in Known \/ \E c \in Tasks : SendChunk(c) /\ o = NewOrder(c)
  <1> SUFFICES ASSUME NEW o \in Known', o \notin Known
               PROVE  \E c \in Tasks : SendChunk(c) /\ o = NewOrder(c)
    OBVIOUS
  <1>1. ASSUME orders' \subseteq orders,
               \A r \in replies' : r.order \in Known,
               \A h \in checking' : h.reply.order \in Known
        PROVE  FALSE
    BY <1>1 DEF Known, Answers
  <1>2. /\ \A r \in replies : r.order \in Known
        /\ \A h \in checking : h.reply.order \in Known
        /\ orders \subseteq Known
    BY DEF Known, Answers
  <1>3. ASSUME orders' \subseteq orders, replies' \subseteq replies,
               checking' \subseteq checking
        PROVE  FALSE
    BY <1>1, <1>2, <1>3
  <1>4. ASSUME NEW r \in replies, ReceiveResult(r)  PROVE  FALSE
    <2>1. /\ orders' = orders /\ replies' \subseteq replies
          /\ \A h \in checking' : h \in checking \/ h.reply = r
      BY <1>4 DEF ReceiveResult
    <2> QED  BY <1>1, <1>2, <2>1
  <1>5. ASSUME NEW c \in Tasks, NEW s \in SimWorkers, NEW valid \in BOOLEAN,
               SimulationAnswers(c, s, valid)
        PROVE  FALSE
    <2>1. PICK batch \in SUBSET {o2 \in orders : o2.task = c /\ o2.worker = s} :
            /\ orders' = orders \ batch
            /\ checking' = {[reply |-> r, copy |-> 0] :
                              r \in {r \in {[order |-> o2, valid |-> valid] : o2 \in batch} :
                                     Acceptable(r)}}
      BY <1>5 DEF SimulationAnswers
    <2>2. \A h \in checking' : h.reply.order \in orders
      BY <2>1
    <2>3. replies' = replies
      BY <1>5 DEF SimulationAnswers
    <2> QED  BY <1>1, <1>2, <2>1, <2>2, <2>3
  <1>6. ASSUME NEW o2 \in orders, NEW valid \in BOOLEAN, WorkerReplies(o2, valid)
        PROVE  FALSE
    <2>1. /\ orders' \subseteq orders /\ checking' = checking
          /\ \A r \in replies' : r \in replies \/ r.order = o2
      BY <1>6 DEF WorkerReplies
    <2> QED  BY <1>1, <1>2, <2>1
  <1>7. ASSUME NEW c \in Tasks, SendChunk(c)  PROVE  o = NewOrder(c)
    BY <1>7 DEF SendChunk, Known, Answers
  <1>8. ASSUME NEW h \in checking, AcceptResult(h) \/ AcceptThrows(h) \/ RejectResult(h)
        PROVE  FALSE
    BY <1>3, <1>8 DEF AcceptResult, AcceptThrows, RejectResult
  <1>9. CASE MessageLost \/ CrashRestart
    <2>1. orders' \subseteq orders /\ replies' \subseteq replies /\ checking' \subseteq checking
      BY <1>9 DEF MessageLost, CrashRestart
    <2> QED  BY <1>3, <2>1
  <1>10. CASE UNCHANGED <<orders, replies, checking>>
    BY <1>3, <1>10
  <1> QED
    BY <1>4, <1>5, <1>6, <1>7, <1>8, <1>9, <1>10
       DEF DispatchNext, LoopStep, PipelineStep, Submit, BeginChunk, PlaceChunk,
           PlacementThrows, SendFails, SimulationRejects, ResumeCompleted, ResumeFailed,
           TimerFires, CancelWorkload, ConnectionDrops, WorkerLost, Reconnect, Telemetry,
           LeaseWatchdog, TimePasses, dispatchVars, vars

\* Each step of a loop, the pipeline or the watchdog is one operation of the task
\* table, or none.
LEMMA StoreStep ==
  ASSUME DispatchTypeOK, Named, [DispatchNext]_vars
  PROVE  [Next]_storeVars
  <1> USE DEF Next, ClientStep
  <1>1. ASSUME NEW c \in Tasks, BeginChunk(c)  PROVE  [Next]_storeVars
    <2>1. CreateTask(c, {}) \/ UNCHANGED storeVars
      BY <1>1 DEF BeginChunk
    <2>2. {} \in SUBSET Tasks
      OBVIOUS
    <2> QED  BY <2>1, <2>2, Zenon
  <1>2. ASSUME NEW c \in Tasks, NEW w \in Workers, PlaceChunk(c, w)  PROVE  Next
    <2>1. AssignTask(c, w, ChunkTimeout) /\ ChunkTimeout \in Leases
      BY <1>2, ChunkDispatchAssumption DEF PlaceChunk
    <2> QED  BY <2>1, Zenon
  <1>3. ASSUME NEW c \in Tasks, NEW w \in Workers, NEW x \in BOOLEAN,
               RecordTaskFailure(c, w, x)
        PROVE  Next
    BY <1>3, Zenon
  <1>4. ASSUME NEW c \in Tasks, SendFails(c) \/ SimulationRejects(c) \/ ResumeFailed(c)
        PROVE  Next
    <2>1. disp[c].target \in Workers /\ RecordTaskFailure(c, disp[c].target, FALSE)
      BY <1>4 DEF SendFails, SimulationRejects, ResumeFailed, Settled, Named
    <2> QED  BY <1>3, <2>1
  <1>5. ASSUME NEW h \in checking  PROVE  /\ h.reply \in Reply /\ h.reply.order \in Order
                                           /\ h.reply.order.task \in Tasks
                                           /\ Sender(h.reply) \in Workers
    <2>1. h.reply \in Reply
      BY DEF DispatchTypeOK
    <2>2. h.reply.order \in Order
      BY <2>1 DEF Reply
    <2>3. h.reply.order.worker \in Workers /\ h.reply.order.task \in Tasks
      BY <2>2 DEF Order
    <2>4. h.reply.order \in Known
      BY DEF Known, Answers
    <2> QED  BY <2>1, <2>2, <2>3, <2>4 DEF Sender, Named
  <1>6. ASSUME NEW h \in checking, AcceptResult(h)  PROVE  Next
    <2>1. CompleteTask(h.reply.order.task)
      BY <1>6 DEF AcceptResult
    <2> QED  BY <1>5, <2>1, Zenon
  <1>7. ASSUME NEW h \in checking, AcceptThrows(h)  PROVE  [Next]_storeVars
    <2>1. \/ RecordTaskFailure(h.reply.order.task, h.reply.order.worker, FALSE)
          \/ UNCHANGED storeVars
      BY <1>7 DEF AcceptThrows
    <2>2. h.reply.order.worker \in Workers
      BY <1>5 DEF Order
    <2> QED  BY <1>3, <1>5, <2>1, <2>2
  <1>8. ASSUME NEW h \in checking, RejectResult(h)  PROVE  Next
    <2>1. RecordTaskFailure(h.reply.order.task, Sender(h.reply), TRUE)
      BY <1>8 DEF RejectResult
    <2> QED  BY <1>3, <1>5, <2>1
  <1>9. ASSUME NEW w \in Workers, WorkerLost(w) \/ Telemetry(w)  PROVE  Next
    BY <1>9, Zenon DEF WorkerLost, Telemetry
  <1>10. CASE LeaseWatchdog \/ CrashRestart
    BY <1>10 DEF LeaseWatchdog, CrashRestart
  <1>11. CASE TimePasses
    BY <1>11 DEF TimePasses
  <1>12. CASE UNCHANGED storeVars
    BY <1>12
  <1> QED
    BY <1>1, <1>2, <1>4, <1>6, <1>7, <1>8, <1>9, <1>10, <1>11, <1>12
       DEF DispatchNext, LoopStep, PipelineStep, Submit, PlacementThrows, SendChunk,
           ResumeCompleted, TimerFires, ReceiveResult, SimulationAnswers, CancelWorkload,
           WorkerReplies, MessageLost, ConnectionDrops, Reconnect, vars, storeVars

-----------------------------------------------------------------------------
\* What a step does to one chunk: to its dispatch loop, its listener and its row.

Moves(s, pc) ==
  /\ disp'[s].pc = pc
  /\ disp'[s].target = disp[s].target /\ disp'[s].known = disp[s].known

\* The promise stays what it is, and the listener if the loop still needs it.
Rests(s, pc) ==
  /\ Moves(s, pc)
  /\ disp'[s].promise = disp[s].promise
  /\ disp[s].pc \in {"send", "await"} /\ s \in listener => s \in listener'

\* The listener is called, if there is one, with the outcome.
Told(s, outcome) ==
  /\ Moves(s, disp[s].pc) /\ s \notin listener'
  /\ disp'[s].promise = IF s \in listener /\ disp[s].pc = "await" /\ disp[s].promise = "pending"
                        THEN outcome ELSE disp[s].promise

Resting(s) == Untouched(s) /\ Rests(s, disp[s].pc)

Submitted(s) ==
  /\ workload.status = "idle" /\ Quiet /\ Untouched(s)
  /\ disp'[s].pc \in {"idle", "begin"}

Begun(s) ==
  /\ disp[s].pc = "begin" /\ (Opened(s) \/ Untouched(s))
  /\ disp'[s].pc = "place" /\ disp'[s].known = rows'[s].retryCount
  /\ disp'[s].target = disp[s].target

Given(s, w) ==
  /\ disp[s].pc = "place" /\ HandedOut(s, w)
  /\ disp'[s].pc = "send" /\ disp'[s].target = w /\ disp'[s].known = disp[s].known
  /\ disp'[s].promise = "pending" /\ s \in listener'

Unplaced(s) == disp[s].pc = "place" /\ Untouched(s) /\ Rests(s, "failed")

Sent(s) ==
  disp[s].pc = "send" /\ (Untouched(s) \/ (SimWorkers # {} /\ TakenBack(s))) /\ Rests(s, "await")

Unsent(s) == disp[s].pc = "send" /\ TakenBack(s) /\ Rests(s, "failed")

Done(s) ==
  /\ disp[s].pc = "await" /\ disp[s].promise = "ok"
  /\ Untouched(s) /\ Rests(s, "done")

Taken(s) == disp[s].pc = "idle" /\ Untouched(s) /\ Rests(s, "begin")

Retried(s) ==
  /\ disp[s].pc = "await" /\ disp[s].promise \in {"bad", "timeout"} /\ checking = {}
  /\ TakenBack(s) /\ (Rests(s, "place") \/ Rests(s, "failed"))

Interrupted(s) ==
  /\ Quiet /\ Untouched(s) /\ Moves(s, disp[s].pc)
  /\ disp[s].pc = "await" /\ disp[s].promise = "pending"
  /\ disp'[s].promise \in {"bad", "timeout"}

Accepted(s) ==
  /\ \E h \in checking : h.reply.order.task = s /\ AcceptResult(h)
  /\ Finished(s) /\ Told(s, "ok")

Rejected(s) ==
  /\ \E h \in checking : h.reply.order.task = s /\ RejectResult(h)
  /\ TakenBack(s) /\ Told(s, "bad")

\* A simulated worker's answer that comes too late.
Refused(s) ==
  /\ \E h \in checking : h.reply.order.task = s /\ AcceptThrows(h)
  /\ SimWorkers # {} /\ ~InFlight(s) /\ TakenBack(s) /\ Rests(s, disp[s].pc)

Lost(s) == Quiet /\ InFlight(s) /\ TakenBack(s) /\ Rests(s, disp[s].pc)

Crashed(s) ==
  /\ CrashRestart
  /\ IF InFlight(s) THEN TakenBack(s) ELSE Untouched(s)
  /\ disp'[s] = IdleDispatch

ChunkMove(s) ==
  \/ Resting(s) \/ Submitted(s) \/ Begun(s) \/ \E w \in Workers : Given(s, w)
  \/ Unplaced(s) \/ Sent(s) \/ Unsent(s) \/ Done(s) \/ Taken(s) \/ Retried(s)
  \/ Interrupted(s) \/ Accepted(s) \/ Rejected(s) \/ Refused(s) \/ Lost(s) \/ Crashed(s)

\* Setting the control point of one loop leaves everything else about the loops
\* alone.
LEMMA SetPc ==
  ASSUME disp \in [Tasks -> Dispatch], listener' = listener, NEW c \in Tasks, NEW pc,
         disp' = [disp EXCEPT ![c].pc = pc]
  PROVE  Rests(c, pc) /\ \A s \in Tasks \ {c} : Rests(s, disp[s].pc)
  BY DEF Rests, Moves, Dispatch

\* What resolving the promise of one loop changes.
LEMMA NotifyEffect ==
  ASSUME disp \in [Tasks -> Dispatch], NEW c \in Tasks, NEW outcome \in {"ok", "bad"},
         Notify(c, outcome)
  PROVE  Told(c, outcome) /\ \A s \in Tasks \ {c} : Rests(s, disp[s].pc)
  <1>1. disp[c] \in Dispatch
    OBVIOUS
  <1>2. CASE c \in listener /\ disp[c].pc = "await" /\ disp[c].promise = "pending"
    <2>1. disp' = [disp EXCEPT ![c] = [@ EXCEPT !.promise = outcome, !.timer = 0]]
      BY <1>2 DEF Notify, Resolved
    <2>2. disp'[c] = [disp[c] EXCEPT !.promise = outcome, !.timer = 0]
      BY <2>1
    <2> QED  BY <1>1, <1>2, <2>1, <2>2 DEF Notify, Told, Rests, Moves, Dispatch
  <1>3. CASE ~ (c \in listener /\ disp[c].pc = "await" /\ disp[c].promise = "pending")
    <2>1. disp' = disp
      BY <1>3 DEF Notify, Resolved
    <2> QED  BY <1>3, <2>1 DEF Notify, Told, Rests, Moves
  <1> QED  BY <1>2, <1>3

\* A task that no answer is about rests, when one chunk's row is written.
LEMMA OthersRest ==
  ASSUME NEW c \in Tasks, OthersUntouched(c),
         \A s \in Tasks \ {c} : Rests(s, disp[s].pc)
  PROVE  \A s \in Tasks \ {c} : Resting(s)
  BY DEF OthersUntouched, Resting

\* Every step of the dispatch code is, for each chunk, one of the moves above.
LEMMA ChunkMoves ==
  ASSUME DispatchTypeOK, IInv, Named, [DispatchNext]_vars, NEW s \in Tasks
  PROVE  ChunkMove(s)
  <1>0. /\ disp \in [Tasks -> Dispatch] /\ disp[s] \in Dispatch
        /\ rows \in [Tasks -> Row] /\ TypeOK
    BY DEF DispatchTypeOK, TypeOK
  <1>1. ASSUME Untouched(s), disp' = disp, listener' = listener  PROVE  ChunkMove(s)
    BY <1>1 DEF ChunkMove, Resting, Rests, Moves
  <1>2. ASSUME UNCHANGED storeVars  PROVE  \A u \in Tasks : Untouched(u)
    BY <1>2 DEF storeVars, Untouched
  <1>3. CASE Submit
    <2>1. disp'[s].pc \in {"idle", "begin"}
      BY <1>3 DEF Submit, IdleDispatch
    <2> QED  BY <1>2, <1>3, <2>1 DEF Submit, ChunkMove, Submitted
  <1>4. ASSUME NEW c \in Tasks, BeginChunk(c)  PROVE  ChunkMove(s)
    <2>1. (Opened(c) \/ Untouched(c)) /\ OthersUntouched(c)
      BY <1>2, <1>4, OpenEffect DEF BeginChunk, OthersUntouched
    <2>2. /\ disp'[c].pc = "place" /\ disp'[c].known = rows[c].retryCount
          /\ disp'[c].target = disp[c].target
          /\ \A u \in Tasks \ {c} : Rests(u, disp[u].pc)
      BY <1>0, <1>4 DEF BeginChunk, Rests, Moves, Dispatch
    <2>3. rows'[c].retryCount = rows[c].retryCount
      BY <2>1 DEF Opened, Untouched
    <2>4. Begun(c)
      BY <1>4, <2>1, <2>2, <2>3 DEF BeginChunk, Begun
    <2> QED  BY <2>1, <2>2, <2>4, OthersRest DEF ChunkMove
  <1>5. ASSUME NEW c \in Tasks, NEW w \in Workers, PlaceChunk(c, w)  PROVE  ChunkMove(s)
    <2>1. HandedOut(c, w) /\ OthersUntouched(c)
      BY <1>0, <1>5, HandOutEffect, ChunkDispatchAssumption DEF PlaceChunk
    <2>2. /\ disp'[c].pc = "send" /\ disp'[c].target = w
          /\ disp'[c].known = disp[c].known /\ disp'[c].promise = "pending"
          /\ c \in listener'
          /\ \A u \in Tasks \ {c} : Rests(u, disp[u].pc)
      BY <1>0, <1>5 DEF PlaceChunk, Rests, Moves, Dispatch
    <2>3. Given(c, w)
      BY <1>5, <2>1, <2>2 DEF PlaceChunk, Given
    <2> QED  BY <2>1, <2>2, <2>3, OthersRest DEF ChunkMove
  <1>6. ASSUME NEW c \in Tasks, PlacementThrows(c)  PROVE  ChunkMove(s)
    <2>1. Rests(c, "failed") /\ \A u \in Tasks \ {c} : Rests(u, disp[u].pc)
      BY <1>0, <1>6, SetPc DEF PlacementThrows
    <2> QED  BY <1>2, <1>6, <2>1 DEF PlacementThrows, ChunkMove, Unplaced, Resting
  <1>7. ASSUME NEW c \in Tasks, SendChunk(c)  PROVE  ChunkMove(s)
    <2>1. Rests(c, "await") /\ \A u \in Tasks \ {c} : Rests(u, disp[u].pc)
      BY <1>0, <1>7, SetPc DEF SendChunk
    <2> QED  BY <1>2, <1>7, <2>1 DEF SendChunk, ChunkMove, Sent, Resting
  <1>8. ASSUME NEW c \in Tasks, SendFails(c)  PROVE  ChunkMove(s)
    <2>1. Rests(c, "failed") /\ \A u \in Tasks \ {c} : Rests(u, disp[u].pc)
      BY <1>0, <1>8, SetPc DEF SendFails
    <2>2. TakenBack(c) /\ OthersUntouched(c)
      BY <1>0, <1>8, FailureEffect DEF SendFails, Named
    <2>3. Unsent(c)
      BY <1>8, <2>1, <2>2 DEF SendFails, Unsent
    <2> QED  BY <2>1, <2>2, <2>3, OthersRest DEF ChunkMove
  <1>9. ASSUME NEW c \in Tasks, SimulationRejects(c)  PROVE  ChunkMove(s)
    <2>1. Rests(c, "await") /\ \A u \in Tasks \ {c} : Rests(u, disp[u].pc)
      BY <1>0, <1>9, SetPc DEF SimulationRejects
    <2>2. TakenBack(c) /\ OthersUntouched(c)
      BY <1>0, <1>9, FailureEffect DEF SimulationRejects, Named
    <2>3. Sent(c)
      BY <1>9, <2>1, <2>2 DEF SimulationRejects, Sent
    <2> QED  BY <2>1, <2>2, <2>3, OthersRest DEF ChunkMove
  <1>10. ASSUME NEW c \in Tasks, ResumeCompleted(c)  PROVE  ChunkMove(s)
    <2>1. /\ disp[c].pc = "await" /\ disp[c].promise = "ok" /\ Untouched(s)
          /\ listener' = listener
      BY <1>2, <1>10 DEF ResumeCompleted, Settled
    <2>2. CASE disp' = [disp EXCEPT ![c].pc = "done"]
      <3>1. Rests(c, "done") /\ \A u \in Tasks \ {c} : Rests(u, disp[u].pc)
        BY <1>0, <2>1, <2>2, SetPc
      <3> QED  BY <2>1, <3>1 DEF ChunkMove, Done, Resting
    <2>3. ASSUME NEW d \in Pending, disp' = [disp EXCEPT ![c].pc = "done", ![d].pc = "begin"]
          PROVE  ChunkMove(s)
      <3>1. d \in Tasks /\ disp[d].pc = "idle" /\ d # c
        BY <2>1 DEF Pending
      <3>2. /\ Rests(c, "done") /\ Rests(d, "begin")
            /\ \A u \in Tasks \ {c, d} : Rests(u, disp[u].pc)
        BY <1>0, <2>1, <2>3, <3>1 DEF Rests, Moves, Dispatch
      <3> QED  BY <2>1, <3>1, <3>2 DEF ChunkMove, Done, Taken, Resting
    <2> QED  BY <1>10, <2>2, <2>3 DEF ResumeCompleted, TakesNext
  <1>11. ASSUME NEW c \in Tasks, ResumeFailed(c)  PROVE  ChunkMove(s)
    <2>1. /\ disp[c].pc = "await" /\ disp[c].promise \in {"bad", "timeout"} /\ checking = {}
          /\ listener' = listener /\ RecordTaskFailure(c, disp[c].target, FALSE)
      BY <1>0, <1>11 DEF ResumeFailed, Settled, Dispatch
    <2>2. TakenBack(c) /\ OthersUntouched(c)
      BY <1>0, <2>1, FailureEffect DEF Named
    <2>3. disp' = [disp EXCEPT ![c] = GoesRound(disp[c])]
      BY <1>11 DEF ResumeFailed
    <2>4. \/ disp'[c] = [disp[c] EXCEPT !.pc = "place", !.loop = disp[c].loop + 1]
          \/ disp'[c] = [disp[c] EXCEPT !.pc = "failed"]
      BY <1>0, <2>3 DEF GoesRound
    <2>5. Rests(c, "place") \/ Rests(c, "failed")
      BY <1>0, <2>1, <2>4 DEF Rests, Moves, Dispatch
    <2>6. \A u \in Tasks \ {c} : Rests(u, disp[u].pc)
      BY <1>0, <2>1, <2>3 DEF Rests, Moves
    <2>7. Retried(c)
      BY <2>1, <2>2, <2>5 DEF Retried
    <2> QED  BY <2>2, <2>6, <2>7, OthersRest DEF ChunkMove
  <1>12. ASSUME NEW c \in Tasks, TimerFires(c)  PROVE  ChunkMove(s)
    <2>1. disp[c].pc = "await" /\ disp[c].promise = "pending"
      BY <1>12 DEF TimerFires, Quiet, NoContinuation, Settled
    <2>2. disp' = [disp EXCEPT ![c] = [disp[c] EXCEPT !.promise = "timeout", !.timer = 0]]
      BY <1>12, <2>1 DEF TimerFires, Resolved
    <2>3. Moves(c, disp[c].pc) /\ disp'[c].promise = "timeout"
      BY <1>0, <2>2 DEF Moves, Dispatch
    <2>4. \A u \in Tasks \ {c} : Rests(u, disp[u].pc)
      BY <1>0, <1>12, <2>2 DEF TimerFires, Rests, Moves
    <2>5. Quiet /\ Untouched(s)
      BY <1>2, <1>12 DEF TimerFires
    <2> QED  BY <2>1, <2>3, <2>4, <2>5 DEF ChunkMove, Interrupted, Resting
  <1>13. CASE CancelWorkload
    <2>1. PICK told \in SUBSET Tasks :
            /\ listener' = listener \ told
            /\ disp' = [c \in Tasks |->
                          IF c \in told THEN Resolved(disp[c], "bad") ELSE disp[c]]
      <3>1. workload.tracked \subseteq Tasks
        BY DEF DispatchTypeOK
      <3> QED  BY <1>13, <3>1 DEF CancelWorkload
    <2>2. CASE s \in told /\ disp[s].pc = "await" /\ disp[s].promise = "pending"
      <3>1. disp'[s] = [disp[s] EXCEPT !.promise = "bad", !.timer = 0]
        BY <2>1, <2>2 DEF Resolved
      <3>2. Moves(s, disp[s].pc) /\ disp'[s].promise = "bad"
        BY <1>0, <3>1 DEF Moves, Dispatch
      <3> QED  BY <1>2, <1>13, <2>2, <3>2 DEF CancelWorkload, ChunkMove, Interrupted
    <2>3. CASE ~ (s \in told /\ disp[s].pc = "await" /\ disp[s].promise = "pending")
      <3>1. disp'[s] = disp[s]
        BY <2>1, <2>3 DEF Resolved
      <3> QED
        BY <1>0, <1>13, <2>1, <2>3, <3>1
           DEF CancelWorkload, Quiet, NoContinuation, Settled, Quiescent, ChunkMove,
               Resting, Rests, Moves, Untouched, storeVars
    <2> QED  BY <2>2, <2>3
  <1>14. ASSUME NEW h \in checking  PROVE  /\ h.reply \in Reply /\ h.reply.order \in Order
                                            /\ h.reply.order.task \in Tasks
                                            /\ h.reply.order.worker \in Workers
                                            /\ Sender(h.reply) \in Workers
    <2>1. h.reply \in Reply
      BY DEF DispatchTypeOK
    <2>2. h.reply.order \in Order
      BY <2>1 DEF Reply
    <2>3. h.reply.order.worker \in Workers /\ h.reply.order.task \in Tasks
      BY <2>2 DEF Order
    <2>4. h.reply.order \in Known
      BY DEF Known, Answers
    <2> QED  BY <2>1, <2>2, <2>3, <2>4 DEF Sender, Named
  <1>15. ASSUME NEW h \in checking, AcceptResult(h)  PROVE  ChunkMove(s)
    <2> DEFINE c == h.reply.order.task
    <2>1. c \in Tasks /\ CompleteTask(c) /\ Notify(c, "ok")
      BY <1>14, <1>15 DEF AcceptResult
    <2>2. Finished(c) /\ OthersUntouched(c)
      BY <1>0, <2>1, FinishEffect
    <2>3. Told(c, "ok") /\ \A u \in Tasks \ {c} : Rests(u, disp[u].pc)
      BY <1>0, <2>1, NotifyEffect
    <2>4. Accepted(c)
      BY <1>15, <2>2, <2>3 DEF Accepted
    <2> QED  BY <2>1, <2>2, <2>3, <2>4, OthersRest DEF ChunkMove
  <1>16. ASSUME NEW h \in checking, RejectResult(h)  PROVE  ChunkMove(s)
    <2> DEFINE c == h.reply.order.task
    <2>1. /\ c \in Tasks /\ Sender(h.reply) \in Workers
          /\ RecordTaskFailure(c, Sender(h.reply), TRUE) /\ Notify(c, "bad")
      BY <1>14, <1>16 DEF RejectResult
    <2>2. TakenBack(c) /\ OthersUntouched(c)
      BY <1>0, <2>1, FailureEffect
    <2>3. Told(c, "bad") /\ \A u \in Tasks \ {c} : Rests(u, disp[u].pc)
      BY <1>0, <2>1, NotifyEffect
    <2>4. Rejected(c)
      BY <1>16, <2>2, <2>3 DEF Rejected
    <2> QED  BY <2>1, <2>2, <2>3, <2>4, OthersRest DEF ChunkMove
  <1>17. ASSUME NEW h \in checking, AcceptThrows(h)  PROVE  ChunkMove(s)
    <2> DEFINE c == h.reply.order.task
    <2>1. /\ c \in Tasks /\ h.reply.order.worker \in Workers /\ ~InFlight(c)
          /\ disp' = disp /\ listener' = listener
      BY <1>14, <1>17 DEF AcceptThrows
    <2>2. CASE UNCHANGED storeVars
      BY <1>1, <1>2, <2>1, <2>2
    <2>3. CASE /\ h.reply.order.worker \in SimWorkers
               /\ RecordTaskFailure(c, h.reply.order.worker, FALSE)
      <3>1. TakenBack(c) /\ OthersUntouched(c)
        BY <1>0, <2>1, <2>3, FailureEffect
      <3>2. Refused(c)
        BY <1>17, <2>1, <2>3, <3>1 DEF Refused, Rests, Moves
      <3> QED  BY <1>1, <2>1, <3>1, <3>2 DEF ChunkMove, OthersUntouched
    <2> QED  BY <1>17, <2>2, <2>3 DEF AcceptThrows
  <1>18. ASSUME NEW S, ReclaimAll(S), \A u \in S : InFlight(u), Quiet,
                disp' = disp, listener' = listener
         PROVE  ChunkMove(s)
    <2>1. IF s \in S THEN TakenBack(s) ELSE Untouched(s)
      BY <1>0, <1>18, ReclaimEffect
    <2> QED  BY <1>1, <1>18, <2>1 DEF ChunkMove, Lost, Rests, Moves
  <1>19. ASSUME NEW w \in Workers, WorkerLost(w)  PROVE  ChunkMove(s)
    BY <1>18, <1>19 DEF WorkerLost, RecoverWorkerLoss
  <1>20. CASE LeaseWatchdog
    BY <1>18, <1>20 DEF LeaseWatchdog, RecoverExpiredLeases, Expired, dispatchVars
  <1>21. CASE CrashRestart
    <2>1. IF s \in {t \in Tasks : InFlight(t)} THEN TakenBack(s) ELSE Untouched(s)
      BY <1>0, <1>21, ReclaimEffect DEF CrashRestart, RecoverInFlightTasks
    <2>2. disp'[s] = IdleDispatch
      BY <1>21 DEF CrashRestart
    <2> QED  BY <1>21, <2>1, <2>2 DEF ChunkMove, Crashed
  <1>22. CASE TimePasses
    <2>1. Untouched(s)
      BY <1>0, <1>22, ClockEffect DEF TimePasses
    <2>2. disp'[s] = [disp[s] EXCEPT !.timer = IF disp[s].timer > 0 THEN disp[s].timer - 1
                                               ELSE 0]
      BY <1>22 DEF TimePasses
    <2> QED
      BY <1>0, <1>22, <2>1, <2>2 DEF TimePasses, ChunkMove, Resting, Rests, Moves, Dispatch
  <1>23. ASSUME NEW w \in Workers, Telemetry(w)  PROVE  ChunkMove(s)
    BY <1>0, <1>1, <1>23, ClockEffect DEF Telemetry, dispatchVars
  <1>24. CASE UNCHANGED <<rows, granted, disp, listener>>
    BY <1>1, <1>2, <1>24 DEF storeVars
  <1> QED
    BY <1>3, <1>4, <1>5, <1>6, <1>7, <1>8, <1>9, <1>10, <1>11, <1>12, <1>13, <1>15,
       <1>16, <1>17, <1>19, <1>20, <1>21, <1>22, <1>23, <1>24
       DEF DispatchNext, LoopStep, PipelineStep, ReceiveResult, SimulationAnswers,
           WorkerReplies, MessageLost, ConnectionDrops, Reconnect, vars, storeVars

\* A step in which no dispatch loop runs, a workload begins or Core dies: it
\* moves no loop, and no reservation.
Standstill == ~Submit /\ ~CrashRestart /\ \A c \in Tasks : ~LoopStep(c)

\* A step that runs no loop moves no loop and no reservation.
LEMMA LoopsStand ==
  ASSUME DispatchTypeOK, [DispatchNext]_vars, Standstill
  PROVE  /\ \A s \in Tasks : Moves(s, disp[s].pc)
         /\ reserved' = reserved
         /\ workload'.status = workload.status /\ workload'.pool = workload.pool
  <1> DEFINE Stands == /\ \A s \in Tasks : Moves(s, disp[s].pc)
                       /\ reserved' = reserved
                       /\ workload'.status = workload.status
                       /\ workload'.pool = workload.pool
  <1>0. disp \in [Tasks -> Dispatch] /\ \A s \in Tasks : disp[s] \in Dispatch
    BY DEF DispatchTypeOK
  <1>1. ASSUME NEW c \in Tasks, TimerFires(c)  PROVE  Stands
    <2>1. /\ disp' = [disp EXCEPT ![c] = Resolved(disp[c], "timeout")]
          /\ reserved' = reserved /\ workload' = workload
      BY <1>1 DEF TimerFires
    <2>2. disp'[c] \in {disp[c], [disp[c] EXCEPT !.promise = "timeout", !.timer = 0]}
      BY <1>0, <2>1 DEF Resolved
    <2>3. Moves(c, disp[c].pc)
      BY <1>0, <2>2 DEF Moves, Dispatch
    <2>4. \A s \in Tasks \ {c} : Moves(s, disp[s].pc)
      BY <1>0, <2>1 DEF Moves
    <2> QED  BY <2>1, <2>3, <2>4
  <1>2. ASSUME NEW h \in checking, AcceptResult(h) \/ RejectResult(h)  PROVE  Stands
    <2> DEFINE c == h.reply.order.task
    <2>1. c \in Tasks
      BY DEF DispatchTypeOK, Reply, Order
    <2>2. Notify(c, "ok") \/ Notify(c, "bad")
      BY <1>2 DEF AcceptResult, RejectResult
    <2>3. \A s \in Tasks : Moves(s, disp[s].pc)
      BY <1>0, <2>1, <2>2, NotifyEffect DEF Told, Rests
    <2>4. workload'.status = workload.status /\ workload'.pool = workload.pool
      BY <1>2 DEF AcceptResult, RejectResult, DispatchTypeOK
    <2> QED  BY <1>2, <2>3, <2>4 DEF AcceptResult, RejectResult
  <1>3. CASE CancelWorkload
    <2>1. PICK told : disp' = [c \in Tasks |->
                          IF c \in told THEN Resolved(disp[c], "bad") ELSE disp[c]]
      BY <1>3 DEF CancelWorkload
    <2>2. ASSUME NEW s \in Tasks  PROVE  Moves(s, disp[s].pc)
      <3>1. disp'[s] \in {disp[s], [disp[s] EXCEPT !.promise = "bad", !.timer = 0]}
        BY <2>1 DEF Resolved
      <3> QED  BY <1>0, <3>1 DEF Moves, Dispatch
    <2>3. workload'.status = workload.status /\ workload'.pool = workload.pool
      BY <1>3 DEF CancelWorkload, DispatchTypeOK
    <2> QED  BY <1>3, <2>2, <2>3 DEF CancelWorkload
  <1>4. CASE TimePasses
    <2>1. ASSUME NEW s \in Tasks  PROVE  Moves(s, disp[s].pc)
      <3>1. disp'[s] = [disp[s] EXCEPT !.timer = IF disp[s].timer > 0
                                                 THEN disp[s].timer - 1 ELSE 0]
        BY <1>4 DEF TimePasses
      <3> QED  BY <1>0, <3>1 DEF Moves, Dispatch
    <2> QED  BY <1>4, <2>1 DEF TimePasses
  <1>5. CASE UNCHANGED <<disp, reserved, workload>>
    BY <1>5 DEF Moves
  <1> QED
    BY <1>1, <1>2, <1>3, <1>4, <1>5
       DEF DispatchNext, Standstill, PipelineStep, ReceiveResult, SimulationAnswers, AcceptThrows,
           WorkerReplies, MessageLost, ConnectionDrops, WorkerLost, Reconnect, Telemetry,
           LeaseWatchdog, dispatchVars, vars

\* The control points that a loop moves between; only a consumer that takes its
\* next chunk moves another loop too.
LEMMA OneMoves ==
  ASSUME DispatchTypeOK, NEW c \in Tasks, LoopStep(c), ~ResumeCompleted(c)
  PROVE  /\ \A d \in Tasks \ {c} : disp'[d] = disp[d]
         /\ \/ /\ BeginChunk(c) \/ (\E w \in Workers : PlaceChunk(c, w))
               /\ <<disp[c].pc, disp'[c].pc>> \in {<<"begin", "place">>, <<"place", "send">>}
            \/ /\ SendChunk(c) \/ SimulationRejects(c)
               /\ disp[c].pc = "send" /\ disp'[c].pc = "await"
               /\ disp'[c].target = disp[c].target
            \/ /\ PlacementThrows(c) /\ disp[c].pc = "place" /\ disp'[c].pc = "failed"
            \/ /\ SendFails(c) /\ disp[c].pc = "send" /\ disp'[c].pc = "failed"
            \/ /\ ResumeFailed(c) /\ disp[c].pc = "await"
               /\ disp'[c].pc \in {"place", "failed"}
  <1> DEFINE Others == \A d \in Tasks \ {c} : disp'[d] = disp[d]
  <1>0. disp \in [Tasks -> Dispatch] /\ disp[c] \in Dispatch
    BY DEF DispatchTypeOK
  <1>1. ASSUME BeginChunk(c)
        PROVE  Others /\ disp[c].pc = "begin" /\ disp'[c].pc = "place"
    BY <1>0, <1>1 DEF BeginChunk, Dispatch
  <1>2. ASSUME NEW w \in Workers, PlaceChunk(c, w)
        PROVE  Others /\ disp[c].pc = "place" /\ disp'[c].pc = "send"
    BY <1>0, <1>2 DEF PlaceChunk, Dispatch
  <1>3. ASSUME SendChunk(c) \/ SimulationRejects(c)
        PROVE  /\ Others /\ disp[c].pc = "send" /\ disp'[c].pc = "await"
               /\ disp'[c].target = disp[c].target
    BY <1>0, <1>3 DEF SendChunk, SimulationRejects, Dispatch
  <1>4. ASSUME PlacementThrows(c)
        PROVE  Others /\ disp[c].pc = "place" /\ disp'[c].pc = "failed"
    BY <1>0, <1>4 DEF PlacementThrows, Dispatch
  <1>5. ASSUME SendFails(c)
        PROVE  Others /\ disp[c].pc = "send" /\ disp'[c].pc = "failed"
    BY <1>0, <1>5 DEF SendFails, Dispatch
  <1>6. ASSUME ResumeFailed(c)
        PROVE  Others /\ disp[c].pc = "await" /\ disp'[c].pc \in {"place", "failed"}
    <2>1. disp' = [disp EXCEPT ![c] = GoesRound(disp[c])] /\ disp[c].pc = "await"
      BY <1>6 DEF ResumeFailed, Settled
    <2>2. GoesRound(disp[c]).pc \in {"place", "failed"}
      BY <1>0 DEF GoesRound, Dispatch
    <2> QED  BY <1>0, <2>1, <2>2
  <1> QED  BY <1>1, <1>2, <1>3, <1>4, <1>5, <1>6 DEF LoopStep

\* A consumer takes one chunk that nobody has begun with, or none.
LEMMA TakesEffect ==
  ASSUME DispatchTypeOK, NEW c \in Tasks, ResumeCompleted(c)
  PROVE  /\ disp[c].pc = "await" /\ disp'[c].pc = "done"
         /\ \A d \in Tasks : disp'[d].target = disp[d].target
         /\ \/ /\ Pending = {}
               /\ \A d \in Tasks \ {c} : disp'[d].pc = disp[d].pc
            \/ \E e \in Pending \ {c} :
                 /\ disp[e].pc = "idle" /\ disp'[e].pc = "begin"
                 /\ \A d \in Tasks \ {c, e} : disp'[d].pc = disp[d].pc
  <1>0. disp \in [Tasks -> Dispatch] /\ \A d \in Tasks : disp[d] \in Dispatch
    BY DEF DispatchTypeOK
  <1>1. disp[c].pc = "await" /\ c \notin Pending
    BY DEF ResumeCompleted, Settled, Pending
  <1>2. CASE Pending = {} /\ disp' = [disp EXCEPT ![c].pc = "done"]
    <2>1. /\ disp'[c] = [disp[c] EXCEPT !.pc = "done"]
          /\ \A d \in Tasks \ {c} : disp'[d] = disp[d]
      BY <1>0, <1>2
    <2> QED  BY <1>0, <1>1, <1>2, <2>1 DEF Dispatch
  <1>3. ASSUME NEW e \in Pending, disp' = [disp EXCEPT ![c].pc = "done", ![e].pc = "begin"]
        PROVE  /\ disp'[c].pc = "done" /\ disp'[e].pc = "begin" /\ disp[e].pc = "idle"
               /\ \A d \in Tasks : disp'[d].target = disp[d].target
               /\ \A d \in Tasks \ {c, e} : disp'[d].pc = disp[d].pc
    <2>1. e \in Tasks /\ e # c /\ disp[e].pc = "idle"
      BY <1>1 DEF Pending
    <2>2. /\ disp'[c] = [disp[c] EXCEPT !.pc = "done"]
          /\ disp'[e] = [disp[e] EXCEPT !.pc = "begin"]
          /\ \A d \in Tasks \ {c, e} : disp'[d] = disp[d]
      BY <1>0, <1>3, <2>1
    <2> QED  BY <1>0, <2>1, <2>2 DEF Dispatch
  <1> QED  BY <1>1, <1>2, <1>3 DEF ResumeCompleted, TakesNext

-----------------------------------------------------------------------------
\* Loops, turns and rows.

\* At most one loop is between two awaits, after every step.
LEMMA TurnsStep ==
  ASSUME DispatchTypeOK, IInv, Named, Turns, [DispatchNext]_vars
  PROVE  Turns'
  <1>0. disp \in [Tasks -> Dispatch]
    BY DEF DispatchTypeOK
  <1> DEFINE Runs(c) == disp[c].pc \in {"place", "send"}
  <1>1. ASSUME \A c \in Tasks : Runs(c)' => Runs(c),
               checking' # {} => /\ \A c \in Tasks : disp[c].pc \in Quiescent
                                 /\ \A c \in Tasks : disp'[c].pc \in Quiescent
        PROVE  Turns'
    BY <1>1 DEF Turns
  <1>2. ASSUME NEW c \in Tasks, NoOtherRuns(c), checking' = {},
               \A d \in Tasks \ {c} : Runs(d)' => Runs(d)
        PROVE  Turns'
    BY <1>2 DEF Turns, NoOtherRuns
  <1>3. ASSUME NEW c \in Tasks, BeginChunk(c)  PROVE  Turns'
    <2>1. checking = {}
      BY <1>3 DEF BeginChunk, Turns, Quiescent
    <2>2. \A d \in Tasks \ {c} : disp'[d] = disp[d]
      BY <1>0, <1>3 DEF BeginChunk
    <2> QED  BY <1>2, <1>3, <2>1, <2>2 DEF BeginChunk
  <1>4. ASSUME NEW c \in Tasks, disp[c].pc \in {"place", "send"}, checking' = checking,
               \A d \in Tasks \ {c} : disp'[d].pc = disp[d].pc
        PROVE  Turns'
    <2>1. checking = {}
      BY <1>4 DEF Turns, Quiescent
    <2>2. NoOtherRuns(c)
      BY <1>4 DEF Turns, NoOtherRuns
    <2> QED  BY <1>2, <1>4, <2>1, <2>2
  <1>5. ASSUME NEW c \in Tasks, NEW w \in Workers, PlaceChunk(c, w)  PROVE  Turns'
    BY <1>0, <1>4, <1>5 DEF PlaceChunk
  <1>6. ASSUME NEW c \in Tasks, PlacementThrows(c) \/ SendChunk(c) \/ SendFails(c)
                                \/ SimulationRejects(c)
        PROVE  Turns'
    <2>1. /\ disp[c].pc \in {"place", "send"} /\ checking' = checking
          /\ \A d \in Tasks \ {c} : disp'[d] = disp[d]
      BY <1>0, <1>6 DEF PlacementThrows, SendChunk, SendFails, SimulationRejects
    <2> QED  BY <1>4, <2>1
  <1>7. ASSUME NEW c \in Tasks, ResumeCompleted(c)  PROVE  Turns'
    <2>1. NoOtherRuns(c) /\ checking' = {} /\ checking = {}
      BY <1>7 DEF ResumeCompleted
    <2>2. \/ disp' = [disp EXCEPT ![c].pc = "done"]
          \/ \E d \in Pending : disp' = [disp EXCEPT ![c].pc = "done", ![d].pc = "begin"]
      BY <1>7 DEF ResumeCompleted, TakesNext
    <2>3. \A d \in Tasks \ {c} : disp'[d].pc \in {disp[d].pc, "begin"}
      BY <1>0, <2>2 DEF Dispatch, Pending
    <2> QED  BY <1>2, <2>1, <2>3
  <1>8. ASSUME NEW c \in Tasks, ResumeFailed(c)  PROVE  Turns'
    <2>1. \A d \in Tasks \ {c} : disp'[d] = disp[d]
      BY <1>0, <1>8 DEF ResumeFailed
    <2> QED  BY <1>2, <1>8, <2>1 DEF ResumeFailed
  <1>9. CASE Submit \/ CrashRestart
    <2>1. checking' = {}
      BY <1>9 DEF Submit, CrashRestart, Quiet
    <2>2. ASSUME Submit, NEW c \in Tasks  PROVE  disp'[c].pc \in {"idle", "begin"}
      BY <2>2 DEF Submit, IdleDispatch
    <2>3. ASSUME CrashRestart, NEW c \in Tasks  PROVE  disp'[c].pc \in {"idle", "begin"}
      <3>1. disp' = [d \in Tasks |-> IdleDispatch]
        BY <2>3 DEF CrashRestart
      <3> QED  BY <3>1 DEF IdleDispatch
    <2>4. \A c \in Tasks : disp'[c].pc \in {"idle", "begin"}
      BY <1>9, <2>2, <2>3
    <2> QED  BY <1>1, <2>1, <2>4
  <1>10. CASE Standstill
    <2>1. \A c \in Tasks : disp'[c].pc = disp[c].pc
      BY <1>10, LoopsStand DEF Moves
    <2>2. checking' \subseteq checking \/ NoContinuation
      BY <1>10
         DEF DispatchNext, Standstill, PipelineStep, TimerFires, ReceiveResult, SimulationAnswers,
             AcceptResult, AcceptThrows, RejectResult, CancelWorkload, WorkerReplies,
             MessageLost, ConnectionDrops, WorkerLost, Reconnect, Telemetry,
             LeaseWatchdog, TimePasses, Quiet, dispatchVars, vars
    <2>3. checking' # {} => \A c \in Tasks : disp[c].pc \in Quiescent
      BY <2>2 DEF Turns, NoContinuation
    <2> QED  BY <1>1, <2>1, <2>3
  <1> QED
    BY <1>3, <1>5, <1>6, <1>7, <1>8, <1>9, <1>10 DEF Standstill, LoopStep

\* A chunk in flight stays that of the loop that placed it.
LEMMA InTouchStep ==
  ASSUME DispatchTypeOK, IInv, Named, Turns, \A c \in Tasks : InTouch(c),
         [DispatchNext]_vars, NEW s \in Tasks
  PROVE  InTouch(s)'
  <1>0. /\ InTouch(s) /\ ChunkMove(s)
        /\ rows[s].retryCount \in Nat /\ rows'[s].retryCount \in Nat
        /\ disp[s].known \in Nat
    <2>1. IInv'
      BY StoreStep, NextInv
    <2> QED  BY <2>1, ChunkMoves DEF IInv, TypeOK, Row, DispatchTypeOK, Dispatch
  <1> USE DEF InTouch, InFlight, InFlightStatus
  <1>1. CASE Resting(s) \/ Unplaced(s) \/ Taken(s) \/ Done(s)
    BY <1>0, <1>1 DEF Resting, Unplaced, Taken, Done, Rests, Moves, Untouched
  <1>2. CASE Submitted(s)
    BY <1>0, <1>2 DEF Submitted, Untouched, Named, IdleDispatch
  <1>3. CASE Begun(s)
    BY <1>0, <1>3 DEF Begun, Opened, Untouched
  <1>4. CASE \E w \in Workers : Given(s, w)
    BY <1>0, <1>4 DEF Given, HandedOut
  <1>5. CASE Sent(s) \/ Unsent(s)
    BY <1>0, <1>5 DEF Sent, Unsent, Rests, Moves, Untouched, TakenBack
  <1>6. CASE Retried(s)
    BY <1>0, <1>6 DEF Retried, Rests, Moves, TakenBack
  <1>7. CASE Interrupted(s)
    BY <1>0, <1>7 DEF Interrupted, Moves, Untouched
  <1>8. ASSUME checking # {} \/ Quiet  PROVE  disp[s].pc # "send"
    BY <1>8 DEF Turns, Quiescent, Quiet, NoContinuation
  <1>9. CASE Accepted(s) \/ Rejected(s) \/ Refused(s) \/ Lost(s)
    <2>1. disp[s].pc # "send"
      BY <1>8, <1>9 DEF Accepted, Rejected, Refused, Lost
    <2> QED
      BY <1>0, <1>9, <2>1
         DEF Accepted, Rejected, Refused, Lost, Finished, TakenBack, Told, Rests, Moves
  <1>10. CASE Crashed(s)
    BY <1>0, <1>10 DEF Crashed, IdleDispatch, TakenBack, Untouched
  <1> QED
    BY <1>0, <1>1, <1>2, <1>3, <1>4, <1>5, <1>6, <1>7, <1>9, <1>10 DEF ChunkMove

\* Loops past their placement and orders to simulated workers keep a target.
LEMMA NamedStep ==
  ASSUME DispatchTypeOK, IInv, Named, [DispatchNext]_vars
  PROVE  Named'
  <1>0. /\ disp \in [Tasks -> Dispatch]
        /\ \A s \in Tasks : ChunkMove(s)
        /\ \A s \in Tasks : disp[s].target \in Workers \cup {NoWorker}
    BY ChunkMoves DEF DispatchTypeOK, Dispatch
  <1>1. ASSUME NEW s \in Tasks, disp'[s].pc \in {"send", "await"}
        PROVE  disp'[s].target \in Workers
    BY <1>0, <1>1, TaskStoreAssumption
       DEF ChunkMove, Named, Resting, Submitted, Begun, Given, Unplaced, Sent, Unsent, Done,
           Taken, Retried, Interrupted, Accepted, Rejected, Refused, Lost, Crashed,
           Rests, Told, Moves, IdleDispatch
  <1>2. \A o \in Known : o \in Order
    <2>1. /\ orders \subseteq Order /\ \A r \in replies : r.order \in Order
          /\ \A h \in checking : h.reply \in Reply
      BY DEF DispatchTypeOK, Reply
    <2>2. \A h \in checking : h.reply.order \in Order
      BY <2>1 DEF Reply
    <2> QED  BY <2>1, <2>2 DEF Known, Answers
  <1>3. ASSUME NEW c \in Tasks, SendChunk(c)
        PROVE  LET o == NewOrder(c) IN
               o.task = c /\ o.worker = disp[c].target /\ disp[c].target \in Workers
    BY <1>3 DEF SendChunk, NewOrder, Named
  <1>4. ASSUME NEW o \in Known', o.worker \in SimWorkers
        PROVE  disp'[o.task].target \in Workers
    <2>1. CASE o \in Known
      <3>1. o.task \in Tasks /\ disp[o.task].target \in Workers
        BY <1>2, <1>4, <2>1 DEF Named, Order
      <3>2. ~Submitted(o.task)
        BY <3>1, TaskStoreAssumption DEF Submitted, Named
      <3>3. ~CrashRestart
        <4>1. ASSUME CrashRestart  PROVE  \A q \in Known' : q.worker \in Remote
          BY <4>1 DEF CrashRestart, Known, Answers, Named
        <4> QED  BY <1>4, <4>1 DEF Remote
      <3> QED
        BY <1>0, <3>1, <3>2, <3>3
           DEF ChunkMove, Resting, Begun, Given, Unplaced, Sent, Unsent, Done, Taken, Retried,
               Interrupted, Accepted, Rejected, Refused, Lost, Crashed, Rests, Told, Moves
    <2>2. ASSUME NEW c \in Tasks, SendChunk(c), o = NewOrder(c)
          PROVE  disp'[o.task].target \in Workers
      <3>1. o.task = c /\ disp[c].target \in Workers /\ disp'[c].target = disp[c].target
        BY <1>0, <1>3, <2>2, SetPc DEF SendChunk, Rests, Moves
      <3> QED  BY <3>1
    <2> QED  BY <2>1, <2>2, KnownStep
  <1>5. ASSUME NEW r \in replies'  PROVE  r.order.worker \in Remote
    <2>1. ASSUME NEW o \in orders, NEW valid \in BOOLEAN, WorkerReplies(o, valid)
          PROVE  r \in replies \/ r.order.worker \in Remote
      BY <2>1 DEF WorkerReplies
    <2>2. ASSUME NEW q \in replies, ReceiveResult(q)  PROVE  r \in replies
      BY <2>2 DEF ReceiveResult
    <2>3. CASE MessageLost
      <3>1. replies' \subseteq replies
        BY <2>3 DEF MessageLost
      <3> QED  BY <3>1 DEF Named
    <2>4. CASE UNCHANGED replies
      BY <2>4 DEF Named
    <2> QED
      BY <2>1, <2>2, <2>3, <2>4
         DEF Named, DispatchNext, LoopStep, PipelineStep, Submit, BeginChunk, PlaceChunk,
             PlacementThrows, SendChunk, SendFails, SimulationRejects, ResumeCompleted,
             ResumeFailed, TimerFires, SimulationAnswers, AcceptResult, AcceptThrows,
             RejectResult, CancelWorkload, ConnectionDrops, WorkerLost, Reconnect,
             Telemetry, LeaseWatchdog, TimePasses, CrashRestart, dispatchVars, vars
  <1>6. ASSUME workload'.status = "idle", NEW s \in Tasks
        PROVE  disp'[s].pc = "idle" /\ disp'[s].target = NoWorker
    <2>1. CASE Standstill
      <3>1. workload.status = "idle" /\ Moves(s, disp[s].pc)
        BY <1>6, <2>1, LoopsStand
      <3> QED  BY <3>1 DEF Named, Moves
    <2>2. CASE CrashRestart
      <3>1. disp'[s] = IdleDispatch
        BY <2>2 DEF CrashRestart
      <3> QED  BY <3>1 DEF IdleDispatch
    <2>3. CASE Submit
      BY <1>6, <2>3 DEF Submit, IdleWorkload
    <2>4. ASSUME NEW c \in Tasks, LoopStep(c)  PROVE  FALSE
      <3>1. disp[c].pc # "idle"
        BY <2>4
           DEF LoopStep, BeginChunk, PlaceChunk, PlacementThrows, SendChunk, SendFails,
               SimulationRejects, ResumeCompleted, ResumeFailed, Settled
      <3>2. workload.status # "idle"
        BY <3>1 DEF Named
      <3>3. \/ workload' = workload \/ Conclude(disp')
            \/ workload' = [workload EXCEPT !.tracked = @ \cup {c}]
        BY <2>4
           DEF LoopStep, BeginChunk, PlaceChunk, PlacementThrows, SendChunk, SendFails,
               SimulationRejects, ResumeCompleted, ResumeFailed
      <3>4. workload'.status \in {workload.status, "failed", "completed"}
        BY <3>3 DEF Conclude, DispatchTypeOK
      <3> QED  BY <1>6, <3>2, <3>4
    <2> QED  BY <2>1, <2>2, <2>3, <2>4 DEF Standstill
  <1> QED  BY <1>1, <1>4, <1>5, <1>6 DEF Named

-----------------------------------------------------------------------------
\* Types.

\* The state of each loop keeps its type.
LEMMA DispType ==
  ASSUME DispatchTypeOK, [DispatchNext]_vars
  PROVE  disp' \in [Tasks -> Dispatch]
  <1>0. /\ disp \in [Tasks -> Dispatch] /\ TypeOK
        /\ \A c \in Tasks : disp[c] \in Dispatch /\ rows[c].retryCount \in Nat
    BY DEF DispatchTypeOK, TypeOK, Row
  <1>1. ASSUME NEW c \in Tasks, NEW d \in Dispatch, disp' = [disp EXCEPT ![c] = d]
        PROVE  disp' \in [Tasks -> Dispatch]
    BY <1>0, <1>1
  <1>2. ASSUME NEW d \in Dispatch, NEW pc \in Quiescent \cup {"begin", "place", "send"}
        PROVE  [d EXCEPT !.pc = pc] \in Dispatch
    BY DEF Dispatch
  <1>3. ASSUME NEW d \in Dispatch, NEW outcome \in {"ok", "bad", "timeout"}
        PROVE  Resolved(d, outcome) \in Dispatch
    BY DEF Resolved, Dispatch
  <1>4. CASE Submit
    <2>1. PICK first : disp' = [c \in Tasks |-> [IdleDispatch EXCEPT
                         !.pc = IF c \in first THEN "begin" ELSE "idle"]]
      BY <1>4 DEF Submit
    <2>2. IdleDispatch \in Dispatch
      BY ChunkDispatchAssumption DEF IdleDispatch, Dispatch, Quiescent
    <2> QED  BY <1>2, <2>1, <2>2 DEF Quiescent
  <1>5. ASSUME NEW c \in Tasks, BeginChunk(c)  PROVE  disp' \in [Tasks -> Dispatch]
    <2>1. disp' = [disp EXCEPT ![c] = [disp[c] EXCEPT !.pc = "place",
                                                      !.known = rows[c].retryCount]]
      BY <1>0, <1>5 DEF BeginChunk
    <2>2. [disp[c] EXCEPT !.pc = "place", !.known = rows[c].retryCount] \in Dispatch
      BY <1>0 DEF Dispatch
    <2> QED  BY <1>1, <2>1, <2>2
  <1>6. ASSUME NEW c \in Tasks, NEW w \in Workers, PlaceChunk(c, w)
        PROVE  disp' \in [Tasks -> Dispatch]
    <2>1. disp' = [disp EXCEPT ![c] = [disp[c] EXCEPT !.pc = "send", !.target = w,
                                         !.promise = "pending", !.timer = ChunkTimeout]]
      BY <1>0, <1>6 DEF PlaceChunk
    <2>2. ChunkTimeout \in Nat
      BY ChunkDispatchAssumption, TaskStoreAssumption
    <2>3. [disp[c] EXCEPT !.pc = "send", !.target = w, !.promise = "pending",
                          !.timer = ChunkTimeout] \in Dispatch
      BY <1>0, <2>2 DEF Dispatch
    <2> QED  BY <1>1, <2>1, <2>3
  <1>7. ASSUME NEW c \in Tasks, NEW pc \in Quiescent \cup {"begin", "place", "send"},
               disp' = [disp EXCEPT ![c].pc = pc]
        PROVE  disp' \in [Tasks -> Dispatch]
    BY <1>0, <1>2, <1>7
  <1>8. ASSUME NEW c \in Tasks, PlacementThrows(c) \/ SendChunk(c) \/ SendFails(c)
                                \/ SimulationRejects(c)
        PROVE  disp' \in [Tasks -> Dispatch]
    BY <1>7, <1>8 DEF PlacementThrows, SendChunk, SendFails, SimulationRejects, Quiescent
  <1>9. ASSUME NEW c \in Tasks, ResumeCompleted(c)  PROVE  disp' \in [Tasks -> Dispatch]
    <2>1. ASSUME NEW d \in Pending, disp' = [disp EXCEPT ![c].pc = "done", ![d].pc = "begin"]
          PROVE  disp' \in [Tasks -> Dispatch]
      BY <1>0, <1>2, <2>1 DEF Pending, Quiescent
    <2> QED  BY <1>7, <1>9, <2>1 DEF ResumeCompleted, TakesNext, Quiescent
  <1>10. ASSUME NEW c \in Tasks, ResumeFailed(c)  PROVE  disp' \in [Tasks -> Dispatch]
    <2>1. disp' = [disp EXCEPT ![c] = GoesRound(disp[c])]
      BY <1>10 DEF ResumeFailed
    <2>2. CASE disp[c].loop < MaxLoop
      <3>1. disp[c].loop + 1 \in 0 .. MaxLoop
        BY <1>0, <2>2, ChunkDispatchAssumption DEF Dispatch
      <3>2. GoesRound(disp[c]) = [disp[c] EXCEPT !.pc = "place", !.loop = disp[c].loop + 1]
        BY <2>2 DEF GoesRound
      <3>3. GoesRound(disp[c]) \in Dispatch
        BY <1>0, <3>1, <3>2 DEF Dispatch
      <3> QED  BY <1>1, <2>1, <3>3
    <2>3. CASE ~ (disp[c].loop < MaxLoop)
      <3>1. GoesRound(disp[c]) \in Dispatch
        BY <1>0, <1>2, <2>3 DEF GoesRound, Quiescent
      <3> QED  BY <1>1, <2>1, <3>1
    <2> QED  BY <2>2, <2>3
  <1>11. ASSUME NEW c \in Tasks, TimerFires(c)  PROVE  disp' \in [Tasks -> Dispatch]
    BY <1>0, <1>1, <1>3, <1>11 DEF TimerFires
  <1>12. ASSUME NEW h \in checking, AcceptResult(h) \/ RejectResult(h)
         PROVE  disp' \in [Tasks -> Dispatch]
    <2> DEFINE c == h.reply.order.task
    <2>1. c \in Tasks
      BY DEF DispatchTypeOK, Reply, Order
    <2>2. Notify(c, "ok") \/ Notify(c, "bad")
      BY <1>12 DEF AcceptResult, RejectResult
    <2> HIDE DEF c
    <2>3. \/ disp' = disp
          \/ disp' = [disp EXCEPT ![c] = Resolved(disp[c], "ok")]
          \/ disp' = [disp EXCEPT ![c] = Resolved(disp[c], "bad")]
      BY <2>2 DEF Notify
    <2>4. Resolved(disp[c], "ok") \in Dispatch /\ Resolved(disp[c], "bad") \in Dispatch
      BY <1>0, <1>3, <2>1
    <2> QED  BY <1>0, <1>1, <2>1, <2>3, <2>4
  <1>13. CASE CancelWorkload
    BY <1>0, <1>3, <1>13 DEF CancelWorkload
  <1>14. CASE TimePasses
    <2>1. ASSUME NEW d \in Dispatch
          PROVE  [d EXCEPT !.timer = IF @ > 0 THEN @ - 1 ELSE 0] \in Dispatch
      <3>1. (IF d.timer > 0 THEN d.timer - 1 ELSE 0) \in Nat
        BY DEF Dispatch
      <3> QED  BY <3>1 DEF Dispatch
    <2> QED  BY <1>0, <1>14, <2>1 DEF TimePasses
  <1>15. CASE CrashRestart
    BY <1>15, ChunkDispatchAssumption DEF CrashRestart, IdleDispatch, Dispatch, Quiescent
  <1>16. CASE UNCHANGED disp
    BY <1>0, <1>16
  <1> QED
    BY <1>4, <1>5, <1>6, <1>8, <1>9, <1>10, <1>11, <1>12, <1>13, <1>14, <1>15, <1>16
       DEF DispatchNext, LoopStep, PipelineStep, ReceiveResult, SimulationAnswers,
           AcceptThrows, WorkerReplies, MessageLost, ConnectionDrops, WorkerLost, Reconnect,
           Telemetry, LeaseWatchdog, dispatchVars, vars

\* The orders and the results on their way.
LEMMA MessageType ==
  ASSUME DispatchTypeOK, Named, [DispatchNext]_vars
  PROVE  /\ orders' \subseteq Order /\ replies' \subseteq Reply
         /\ checking' \subseteq [reply : Reply, copy : Nat]
  <1> DEFINE Typed == /\ orders' \subseteq Order /\ replies' \subseteq Reply
                      /\ checking' \subseteq [reply : Reply, copy : Nat]
  <1>0. /\ orders \subseteq Order /\ replies \subseteq Reply
        /\ checking \subseteq [reply : Reply, copy : Nat]
        /\ budget.copies \in Nat /\ TypeOK
    BY DEF DispatchTypeOK
  <1>1. ASSUME orders' \subseteq orders, replies' \subseteq replies,
               checking' \subseteq checking
        PROVE  Typed
    BY <1>0, <1>1
  <1>2. ASSUME NEW c \in Tasks, SendChunk(c)  PROVE  Typed
    <2>1. /\ disp[c].target \in Workers /\ disp[c].known \in Nat /\ rows[c].retryCount \in Nat
      BY <1>0, <1>2 DEF SendChunk, Named, DispatchTypeOK, Dispatch, TypeOK, Row
    <2>2. NewOrder(c) \in Order
      BY <2>1 DEF NewOrder, Order, Attempt, NoAttempt
    <2> QED  BY <1>0, <1>2, <2>2 DEF SendChunk
  <1>3. ASSUME NEW r \in replies, ReceiveResult(r)  PROVE  Typed
    <2>1. [reply |-> r, copy |-> budget.copies] \in [reply : Reply, copy : Nat]
      BY <1>0
    <2>2. /\ checking' \subseteq checking \cup {[reply |-> r, copy |-> budget.copies]}
          /\ orders' = orders /\ replies' \subseteq replies
      BY <1>3 DEF ReceiveResult
    <2> QED  BY <1>0, <2>1, <2>2
  <1>4. ASSUME NEW o \in orders, NEW valid \in BOOLEAN
        PROVE  [order |-> o, valid |-> valid] \in Reply
    BY <1>0 DEF Reply
  <1>5. ASSUME NEW c \in Tasks, NEW s \in SimWorkers, NEW valid \in BOOLEAN,
               SimulationAnswers(c, s, valid)
        PROVE  Typed
    <2>1. PICK batch \in SUBSET {o \in orders : o.task = c /\ o.worker = s} :
            /\ orders' = orders \ batch
            /\ checking' = {[reply |-> r, copy |-> 0] :
                              r \in {r \in {[order |-> o, valid |-> valid] : o \in batch} :
                                     Acceptable(r)}}
      BY <1>5 DEF SimulationAnswers
    <2>2. replies' = replies
      BY <1>5 DEF SimulationAnswers
    <2>3. {[order |-> o, valid |-> valid] : o \in batch} \subseteq Reply
      BY <1>4
    <2> QED  BY <1>0, <2>1, <2>2, <2>3
  <1>6. ASSUME NEW o \in orders, NEW valid \in BOOLEAN, WorkerReplies(o, valid)
        PROVE  Typed
    BY <1>0, <1>4, <1>6 DEF WorkerReplies
  <1>7. ASSUME NEW h \in checking, AcceptResult(h) \/ AcceptThrows(h) \/ RejectResult(h)
        PROVE  Typed
    BY <1>1, <1>7 DEF AcceptResult, AcceptThrows, RejectResult
  <1>8. CASE MessageLost \/ CrashRestart
    <2>1. orders' \subseteq orders /\ replies' \subseteq replies /\ checking' \subseteq checking
      BY <1>8 DEF MessageLost, CrashRestart
    <2> QED  BY <1>1, <2>1
  <1>9. CASE UNCHANGED <<orders, replies, checking>>
    BY <1>1, <1>9
  <1> QED
    BY <1>2, <1>3, <1>5, <1>6, <1>7, <1>8, <1>9
       DEF DispatchNext, LoopStep, PipelineStep, Submit, BeginChunk, PlaceChunk,
           PlacementThrows, SendFails, SimulationRejects, ResumeCompleted, ResumeFailed,
           TimerFires, CancelWorkload, ConnectionDrops, WorkerLost, Reconnect, Telemetry,
           LeaseWatchdog, TimePasses, dispatchVars, vars

\* What Core counts and remembers of workers and workloads.
LEMMA BookType ==
  ASSUME DispatchTypeOK, Named, [DispatchNext]_vars
  PROVE  /\ listener' \subseteq Tasks
         /\ reserved' \in [Workers -> Nat]
         /\ link' \in [Workers -> {"open", "closing", "down"}]
         /\ budget' \in [drops : Nat, copies : Nat, crashes : Nat]
  <1>0. /\ listener \subseteq Tasks /\ reserved \in [Workers -> Nat]
        /\ link \in [Workers -> {"open", "closing", "down"}]
        /\ budget \in [drops : Nat, copies : Nat, crashes : Nat]
    BY DEF DispatchTypeOK
  <1>1. listener' \subseteq Tasks
    <2>1. ASSUME NEW c \in Tasks, NEW w \in Workers, PlaceChunk(c, w)
          PROVE  listener' \subseteq Tasks
      BY <1>0, <2>1 DEF PlaceChunk
    <2>2. ASSUME NEW h \in checking, AcceptResult(h) \/ RejectResult(h)
          PROVE  listener' \subseteq Tasks
      BY <1>0, <2>2 DEF AcceptResult, RejectResult, Notify
    <2>3. CASE CancelWorkload
      <3>1. listener' \subseteq listener
        BY <2>3 DEF CancelWorkload
      <3> QED  BY <1>0, <3>1
    <2>4. CASE CrashRestart \/ UNCHANGED listener
      BY <1>0, <2>4 DEF CrashRestart
    <2> QED
      BY <2>1, <2>2, <2>3, <2>4
         DEF DispatchNext, LoopStep, PipelineStep, Submit, BeginChunk, PlacementThrows,
             SendChunk, SendFails, SimulationRejects, ResumeCompleted, ResumeFailed,
             TimerFires, ReceiveResult, SimulationAnswers, AcceptThrows, WorkerReplies,
             MessageLost, ConnectionDrops, WorkerLost, Reconnect, Telemetry,
             LeaseWatchdog, TimePasses, dispatchVars, vars
  <1>2. reserved' \in [Workers -> Nat]
    <2>1. ASSUME NEW w, Release(w)  PROVE  reserved' \in [Workers -> Nat]
      <3>1. \A v \in Workers : (IF reserved[v] <= 1 THEN 0 ELSE reserved[v] - 1) \in Nat
        BY <1>0
      <3> QED  BY <1>0, <2>1, <3>1 DEF Release
    <2>2. ASSUME NEW c \in Tasks, NEW w \in Workers, PlaceChunk(c, w)
          PROVE  reserved' \in [Workers -> Nat]
      BY <1>0, <2>2 DEF PlaceChunk
    <2>3. CASE CrashRestart \/ UNCHANGED reserved
      BY <1>0, <2>3 DEF CrashRestart
    <2> QED
      BY <2>1, <2>2, <2>3
         DEF DispatchNext, LoopStep, PipelineStep, Submit, BeginChunk, PlacementThrows,
             SendChunk, SendFails, SimulationRejects, ResumeCompleted, ResumeFailed,
             TimerFires, ReceiveResult, SimulationAnswers, AcceptResult, AcceptThrows,
             RejectResult, CancelWorkload, WorkerReplies, MessageLost, ConnectionDrops,
             WorkerLost, Reconnect, Telemetry, LeaseWatchdog, TimePasses, dispatchVars,
             vars
  <1>3. link' \in [Workers -> {"open", "closing", "down"}]
    <2>1. ASSUME NEW w \in Workers, ConnectionDrops(w) \/ WorkerLost(w) \/ Reconnect(w)
          PROVE  link' \in [Workers -> {"open", "closing", "down"}]
      BY <1>0, <2>1 DEF ConnectionDrops, WorkerLost, Reconnect
    <2>2. CASE CrashRestart \/ UNCHANGED link
      BY <1>0, <2>2 DEF CrashRestart
    <2> QED
      BY <2>1, <2>2
         DEF DispatchNext, LoopStep, PipelineStep, Submit, BeginChunk, PlaceChunk,
             PlacementThrows, SendChunk, SendFails, SimulationRejects, ResumeCompleted,
             ResumeFailed, TimerFires, ReceiveResult, SimulationAnswers, AcceptResult,
             AcceptThrows, RejectResult, CancelWorkload, WorkerReplies, MessageLost,
             Telemetry, LeaseWatchdog, TimePasses, dispatchVars, vars
  <1>4. budget' \in [drops : Nat, copies : Nat, crashes : Nat]
    <2>1. ASSUME NEW w \in Workers, ConnectionDrops(w)
          PROVE  budget' \in [drops : Nat, copies : Nat, crashes : Nat]
      <3>1. budget.drops - 1 \in Nat
        BY <1>0, <2>1 DEF ConnectionDrops
      <3> QED  BY <1>0, <2>1, <3>1 DEF ConnectionDrops
    <2>2. ASSUME NEW r \in replies, ReceiveResult(r)
          PROVE  budget' \in [drops : Nat, copies : Nat, crashes : Nat]
      <3>1. CASE budget' = budget
        BY <1>0, <3>1
      <3>2. CASE budget.copies > 0 /\ budget' = [budget EXCEPT !.copies = @ - 1]
        <4>1. budget.copies - 1 \in Nat
          BY <1>0, <3>2
        <4> QED  BY <1>0, <3>2, <4>1
      <3> QED  BY <2>2, <3>1, <3>2 DEF ReceiveResult
    <2>3. CASE CrashRestart
      <3>1. budget.crashes - 1 \in Nat
        BY <1>0, <2>3 DEF CrashRestart
      <3> QED  BY <1>0, <2>3, <3>1 DEF CrashRestart
    <2>4. CASE UNCHANGED budget
      BY <1>0, <2>4
    <2> QED
      BY <2>1, <2>2, <2>3, <2>4
         DEF DispatchNext, LoopStep, PipelineStep, Submit, BeginChunk, PlaceChunk,
             PlacementThrows, SendChunk, SendFails, SimulationRejects, ResumeCompleted,
             ResumeFailed, TimerFires, SimulationAnswers, AcceptResult, AcceptThrows,
             RejectResult, CancelWorkload, WorkerReplies, MessageLost, WorkerLost,
             Reconnect, Telemetry, LeaseWatchdog, TimePasses, dispatchVars, vars
  <1> QED  BY <1>1, <1>2, <1>3, <1>4

\* The chunks that begin at once are some, and the pool is as many.
LEMMA SubmitEffect ==
  ASSUME Submit
  PROVE  \E first \in SUBSET Tasks :
           /\ first # {} /\ IsFiniteSet(first) /\ Cardinality(first) \in Nat
           /\ workload' = [IdleWorkload EXCEPT !.status = "running",
                                               !.pool = Cardinality(first)]
           /\ \A c \in Tasks : disp'[c].pc = IF c \in first THEN "begin" ELSE "idle"
  <1>1. PICK first \in UNION {kSubset(n, Tasks) : n \in Pools} :
          /\ workload' = [IdleWorkload EXCEPT !.status = "running",
                                              !.pool = Cardinality(first)]
          /\ disp' = [c \in Tasks |-> [IdleDispatch EXCEPT
                        !.pc = IF c \in first THEN "begin" ELSE "idle"]]
    BY DEF Submit
  <1>2. PICK n \in Pools : first \in kSubset(n, Tasks)
    BY <1>1
  <1>3. first \in SUBSET Tasks /\ Cardinality(first) = n
    BY <1>2 DEF kSubset
  <1>4. IsFiniteSet(first)
    BY <1>3, FS_Subset, ChunkDispatchAssumption
  <1>5. Cardinality(Tasks) \in Nat
    BY FS_CardinalityType, ChunkDispatchAssumption
  <1>6. n \in 1 .. Cardinality(Tasks)
    BY <1>2, ChunkDispatchAssumption
  <1>7. first # {} /\ Cardinality(first) \in Nat
    BY <1>3, <1>5, <1>6, FS_EmptySet
  <1>8. \A c \in Tasks : disp'[c].pc = IF c \in first THEN "begin" ELSE "idle"
    BY <1>1 DEF IdleDispatch
  <1> QED  BY <1>1, <1>3, <1>4, <1>7, <1>8

WorkloadState ==
  [status : {"idle", "running", "completed", "failed"}, pool : Nat, tracked : SUBSET Tasks,
   completed : Nat, failed : Nat, cancelled : BOOLEAN]

\* What is kept of the workload keeps its type.
LEMMA WorkloadType ==
  ASSUME DispatchTypeOK, [DispatchNext]_vars
  PROVE  workload' \in WorkloadState
  <1>0. workload \in WorkloadState
    BY DEF DispatchTypeOK, WorkloadState
  <1>1. ASSUME NEW d, Conclude(d)  PROVE  workload' \in WorkloadState
    <2>1. (IF workload.status = "running" /\ \E c \in Tasks : d[c].pc = "failed" THEN "failed"
           ELSE IF workload.status = "running" /\ \A c \in Tasks : d[c].pc = "done"
                THEN "completed" ELSE workload.status)
          \in {"idle", "running", "completed", "failed"}
      BY <1>0 DEF WorkloadState
    <2> QED  BY <1>0, <1>1, <2>1 DEF Conclude, WorkloadState
  <1>2. CASE Submit
    <2>1. PICK first \in SUBSET Tasks :
            /\ Cardinality(first) \in Nat
            /\ workload' = [IdleWorkload EXCEPT !.status = "running",
                                                !.pool = Cardinality(first)]
      BY <1>2, SubmitEffect
    <2> QED  BY <2>1 DEF IdleWorkload, WorkloadState
  <1>3. ASSUME NEW c \in Tasks, BeginChunk(c)  PROVE  workload' \in WorkloadState
    BY <1>0, <1>3 DEF BeginChunk, WorkloadState
  <1>4. ASSUME NEW h \in checking, AcceptResult(h) \/ RejectResult(h)
        PROVE  workload' \in WorkloadState
    <2>1. workload.completed + 1 \in Nat /\ workload.failed + 1 \in Nat
      BY <1>0 DEF WorkloadState
    <2>2. CASE AcceptResult(h)
      BY <1>0, <2>1, <2>2 DEF AcceptResult, WorkloadState
    <2>3. CASE RejectResult(h)
      BY <1>0, <2>1, <2>3 DEF RejectResult, WorkloadState
    <2> QED  BY <1>4, <2>2, <2>3
  <1>5. CASE CancelWorkload
    BY <1>0, <1>5 DEF CancelWorkload, WorkloadState
  <1>6. CASE CrashRestart
    BY <1>6 DEF CrashRestart, IdleWorkload, WorkloadState
  <1>7. CASE UNCHANGED workload
    BY <1>0, <1>7
  <1> QED
    BY <1>1, <1>2, <1>3, <1>4, <1>5, <1>6, <1>7
       DEF DispatchNext, LoopStep, PipelineStep, PlaceChunk, PlacementThrows, SendChunk,
           SendFails, SimulationRejects, ResumeCompleted, ResumeFailed, TimerFires,
           ReceiveResult, SimulationAnswers, AcceptThrows, WorkerReplies, MessageLost,
           ConnectionDrops, WorkerLost, Reconnect, Telemetry, LeaseWatchdog, TimePasses,
           dispatchVars, vars

\* The type invariant, from its parts.
LEMMA DispatchType ==
  ASSUME DispatchTypeOK, IInv, Named, [DispatchNext]_vars
  PROVE  DispatchTypeOK'
  <1>1. TypeOK'
    BY StoreStep, NextInv DEF IInv
  <1> QED
    BY <1>1, DispType, MessageType, BookType, WorkloadType
       DEF DispatchTypeOK, WorkloadState

-----------------------------------------------------------------------------
\* Orders and the attempts they are of.

\* An order Core may hear of is of a task, a worker and an attempt.
LEMMA KnownType ==
  ASSUME DispatchTypeOK
  PROVE  /\ \A o \in Known : /\ o \in Order /\ o.task \in Tasks /\ o.worker \in Workers
                             /\ o.gen \in Nat /\ o.attempt \in Nat
         /\ \A r \in Answers : r \in Reply /\ r.order \in Known
         /\ \A h \in checking : h.reply \in Answers
  <1>1. Answers \subseteq Reply /\ orders \subseteq Order
    BY DEF DispatchTypeOK, Answers
  <1>2. Known \subseteq Order
    BY <1>1 DEF Known, Reply
  <1> QED  BY <1>1, <1>2 DEF Known, Answers, Order

\* What becomes of a row in flight or completed: it is no longer either, or it is
\* still on the attempt it was on, and its loop is not about to send.
LEMMA AttemptMoves ==
  ASSUME DispatchTypeOK, IInv, Named, Turns, [DispatchNext]_vars,
         NEW s \in Tasks, InTouch(s)
  PROVE  /\ Attempt(s) \in Nat /\ Attempt(s)' \in {Attempt(s), Attempt(s) + 1}
         /\ Attempt(s)' = Attempt(s) /\ (InFlight(s) \/ rows[s].status = "COMPLETED") =>
              /\ (InFlight(s) \/ rows[s].status = "COMPLETED")'
              /\ disp'[s].pc = "send" => disp[s].pc = "send"
  <1>1. ChunkMove(s)
    BY ChunkMoves
  <1>2. rows[s].retryCount \in Nat
    BY DEF DispatchTypeOK, TypeOK, Row
  <1>3. rows'[s].retryCount \in {rows[s].retryCount, rows[s].retryCount + 1}
    BY <1>1
       DEF ChunkMove, Resting, Submitted, Begun, Given, Unplaced, Sent, Unsent, Done, Taken,
           Retried, Interrupted, Accepted, Rejected, Refused, Lost, Crashed, Untouched,
           Opened, HandedOut, Finished, TakenBack
  <1>4. CASE TakenBack(s)
    BY <1>2, <1>3, <1>4 DEF Attempt, TakenBack
  <1>5. CASE ~TakenBack(s) /\ (InFlight(s) \/ rows[s].status = "COMPLETED")
    <2>1. (InFlight(s) \/ rows[s].status = "COMPLETED")'
      BY <1>1, <1>5
         DEF ChunkMove, Resting, Submitted, Begun, Given, Unplaced, Sent, Unsent, Done,
             Taken, Retried, Interrupted, Accepted, Rejected, Refused, Lost, Crashed,
             Untouched, Opened, HandedOut, Finished, InFlight, InFlightStatus
    <2>2. disp'[s].pc = "send" => disp[s].pc = "send"
      BY <1>1, <1>5
         DEF ChunkMove, Resting, Submitted, Begun, Given, Unplaced, Sent, Unsent, Done,
             Taken, Retried, Interrupted, Accepted, Rejected, Refused, Lost, Crashed,
             HandedOut, InFlight, InFlightStatus, Rests, Told, Moves, IdleDispatch
    <2> QED  BY <1>2, <1>3, <2>1, <2>2 DEF Attempt
  <1> QED  BY <1>2, <1>3, <1>4, <1>5 DEF Attempt

\* No order Core may hear of is ahead of its row, after every step.
LEMMA PastStep ==
  ASSUME DispatchTypeOK, IInv, Named, Turns, \A c \in Tasks : InTouch(c),
         \A o \in Known : Past(o), [DispatchNext]_vars
  PROVE  \A o \in Known' : Past(o)'
  <1>1. ASSUME NEW o \in Known  PROVE  Past(o)'
    <2> DEFINE s == o.task
    <2>1. s \in Tasks /\ o.gen \in Nat /\ Past(o) /\ InTouch(s)
      BY KnownType
    <2>2. /\ Attempt(s) \in Nat /\ Attempt(s)' \in {Attempt(s), Attempt(s) + 1}
          /\ Attempt(s)' = Attempt(s) /\ (InFlight(s) \/ rows[s].status = "COMPLETED") =>
              /\ (InFlight(s) \/ rows[s].status = "COMPLETED")'
              /\ disp'[s].pc = "send" => disp[s].pc = "send"
      BY <2>1, AttemptMoves
    <2>3. o.gen <= Attempt(s)
      BY <2>1 DEF Past
    <2>4. o.gen <= Attempt(s)'
      BY <2>1, <2>2, <2>3
    <2>5. ASSUME o.gen = Attempt(s)'
          PROVE  /\ (InFlight(s) \/ rows[s].status = "COMPLETED")'
                 /\ disp'[s].pc # "send"
      <3>1. o.gen = Attempt(s) /\ Attempt(s)' = Attempt(s)
        BY <2>1, <2>2, <2>3, <2>5
      <3> QED  BY <2>1, <2>2, <3>1 DEF Past
    <2> QED  BY <2>1, <2>4, <2>5 DEF Past
  <1>2. ASSUME NEW c \in Tasks, SendChunk(c), NEW o, o = NewOrder(c)  PROVE  Past(o)'
    <2>1. /\ disp[c].pc = "send" /\ InFlight(c) /\ disp[c].known <= rows[c].retryCount
          /\ disp[c].known \in Nat /\ rows[c].retryCount \in Nat
      BY <1>2 DEF SendChunk, InTouch, DispatchTypeOK, Dispatch, TypeOK, Row
    <2>2. rows' = rows /\ disp'[c].pc = "await"
      BY <1>2 DEF SendChunk, storeVars, DispatchTypeOK, Dispatch
    <2>3. /\ o.task = c /\ o.gen = Attempt(c)
          /\ o.worker \in Remote => o.attempt = disp[c].known + 1
      BY <1>2 DEF NewOrder, Remote
    <2>4. Attempt(c)' = Attempt(c) /\ Attempt(c) \in Nat /\ InFlight(c)'
      BY <2>1, <2>2 DEF Attempt, InFlight
    <2>5. o.worker \in Remote => o.attempt \in 1 .. o.gen
      BY <2>1, <2>3 DEF Attempt
    <2> QED  BY <2>2, <2>3, <2>4, <2>5 DEF Past
  <1> QED  BY <1>1, <1>2, KnownStep

\* A real worker's result under validation stays its row's while that is in flight.
LEMMA CheckedStep ==
  ASSUME DispatchTypeOK, IInv, Named, Turns, \A c \in Tasks : InTouch(c),
         \A o \in Known : Past(o), \A h \in checking : Checked(h), [DispatchNext]_vars
  PROVE  \A h \in checking' : Checked(h)'
  <1>1. ASSUME NEW h \in checking  PROVE  Checked(h)'
    <2> DEFINE s == h.reply.order.task
    <2>1. s \in Tasks /\ h.reply.order.gen \in Nat /\ Checked(h) /\ ChunkMove(s)
      BY KnownType, ChunkMoves
    <2>2. disp[s].pc \in Quiescent
      BY <2>1 DEF Turns
    <2>3. InFlight(s)' => /\ InFlight(s) /\ rows'[s].worker = rows[s].worker
                          /\ rows'[s].retryCount = rows[s].retryCount
      BY <2>1, <2>2
         DEF ChunkMove, Resting, Submitted, Begun, Given, Unplaced, Sent, Unsent, Done,
             Taken, Retried, Interrupted, Accepted, Rejected, Refused, Lost, Crashed,
             Untouched, Finished, TakenBack, InFlight, InFlightStatus, Quiescent
    <2> QED  BY <2>1, <2>3 DEF Checked, Attempt
  <1>2. ASSUME NEW r \in replies, Acceptable(r), rows' = rows,
               NEW h, h.reply = r
        PROVE  Checked(h)'
    <2> DEFINE o == r.order
    <2>1. /\ o \in Known /\ o.task \in Tasks /\ o.gen \in Nat /\ o.attempt \in Nat
          /\ Past(o) /\ o.worker \in Remote
      BY KnownType DEF Answers, Named
    <2>2. /\ rows[o.task].status # "COMPLETED"
          /\ rows[o.task].worker \in {NoWorker, o.worker}
          /\ o.attempt \in {NoAttempt, Attempt(o.task)}
      BY <1>2, <2>1 DEF Acceptable, Sender, Attempt, Remote
    <2>3. o.attempt \in 1 .. o.gen /\ o.gen <= Attempt(o.task)
      BY <2>1 DEF Past
    <2>4. rows[o.task].retryCount \in Nat
      BY <2>1 DEF DispatchTypeOK, TypeOK, Row
    <2>5. o.attempt = o.gen /\ o.gen = Attempt(o.task)
      BY <2>1, <2>2, <2>3, <2>4 DEF NoAttempt, Attempt
    <2>6. InFlight(o.task) => o.worker = rows[o.task].worker
      BY <2>1, <2>2 DEF IInv, TaskInv, Owned
    <2> QED  BY <1>2, <2>5, <2>6 DEF Checked, Attempt, InFlight
  <1>3. ASSUME NEW r \in replies, ReceiveResult(r), NEW h \in checking'
        PROVE  Checked(h)'
    <2>1. h \in checking \/ (Acceptable(r) /\ h.reply = r)
      BY <1>3 DEF ReceiveResult
    <2>2. rows' = rows
      BY <1>3 DEF ReceiveResult, storeVars
    <2> QED  BY <1>1, <1>2, <2>1, <2>2
  <1>4. ASSUME NEW c \in Tasks, NEW s \in SimWorkers, NEW valid \in BOOLEAN,
               SimulationAnswers(c, s, valid), NEW h \in checking'
        PROVE  Checked(h)'
    <2>1. PICK batch \in SUBSET {o \in orders : o.task = c /\ o.worker = s} :
            checking' = {[reply |-> r, copy |-> 0] :
                              r \in {r \in {[order |-> o, valid |-> valid] : o \in batch} :
                                     Acceptable(r)}}
      BY <1>4 DEF SimulationAnswers
    <2>2. h.reply.order.worker \in SimWorkers
      BY <2>1
    <2> QED  BY <2>2 DEF Checked, Remote
  <1>5. CASE checking' \subseteq checking
    BY <1>1, <1>5
  <1> QED
    BY <1>3, <1>4, <1>5
       DEF DispatchNext, LoopStep, PipelineStep, Submit, BeginChunk, PlaceChunk,
           PlacementThrows, SendChunk, SendFails, SimulationRejects, ResumeCompleted,
           ResumeFailed, TimerFires, AcceptResult, AcceptThrows, RejectResult,
           CancelWorkload, WorkerReplies, MessageLost, ConnectionDrops, WorkerLost,
           Reconnect, Telemetry, LeaseWatchdog, TimePasses, CrashRestart, dispatchVars,
           vars

-----------------------------------------------------------------------------
\* Reservations.

Holds(c) == disp[c].pc \in {"send", "await"}

\* The chunks on a worker can be counted.
LEMMA HoldingFinite ==
  \A w : IsFiniteSet(Holding(w)) /\ Cardinality(Holding(w)) \in Nat
  <1>1. ASSUME NEW w  PROVE  IsFiniteSet(Holding(w))
    BY FS_Subset, ChunkDispatchAssumption DEF Holding
  <1> QED  BY <1>1, FS_CardinalityType

\* A step that moves no loop into or out of an attempt leaves the counts.
LEMMA SameHolding ==
  ASSUME ReservationsBalanced, reserved' = reserved,
         \A c \in Tasks : /\ Holds(c)' <=> Holds(c)
                          /\ Holds(c) => disp'[c].target = disp[c].target
  PROVE  ReservationsBalanced'
  <1>1. \A w \in Workers : Holding(w)' = Holding(w)
    BY DEF Holding, Holds
  <1> QED  BY <1>1 DEF ReservationsBalanced

\* The loop that ends its attempt gives its own reservation back.
LEMMA ReleaseBalances ==
  ASSUME DispatchTypeOK, ReservationsBalanced, NEW c \in Tasks,
         disp[c].target \in Workers, Holds(c), ~Holds(c)', Release(disp[c].target),
         \A d \in Tasks \ {c} : /\ Holds(d)' <=> Holds(d)
                                /\ disp'[d].target = disp[d].target
  PROVE  ReservationsBalanced'
  <1>1. reserved \in [Workers -> Nat]
    BY DEF DispatchTypeOK
  <1>2. ASSUME NEW w \in Workers, w # disp[c].target
        PROVE   reserved'[w] = Cardinality(Holding(w)')
    <2>1. Holding(w)' = Holding(w)
      BY <1>2 DEF Holding, Holds
    <2> QED  BY <1>1, <1>2, <2>1 DEF Release, ReservationsBalanced
  <1>3. ASSUME NEW v \in Workers, v = disp[c].target
        PROVE  reserved'[v] = Cardinality(Holding(v)')
    <2>1. Holding(v)' = Holding(v) \ {c} /\ c \in Holding(v)
      BY <1>3 DEF Holding, Holds
    <2>2. Cardinality(Holding(v) \ {c}) = Cardinality(Holding(v)) - 1
      BY <2>1, HoldingFinite, FS_RemoveElement
    <2>3. Cardinality(Holding(v) \ {c}) \in Nat
      BY HoldingFinite, FS_RemoveElement, FS_CardinalityType
    <2>4. reserved'[v] = IF reserved[v] <= 1 THEN 0 ELSE reserved[v] - 1
      BY <1>1, <1>3 DEF Release
    <2>5. reserved[v] = Cardinality(Holding(v))
      BY DEF ReservationsBalanced
    <2> QED  BY <1>1, <2>1, <2>2, <2>3, <2>4, <2>5
  <1> QED  BY <1>2, <1>3 DEF ReservationsBalanced

\* Every step keeps the reservations balanced.
LEMMA BalancedStep ==
  ASSUME DispatchTypeOK, IInv, Named, ReservationsBalanced, [DispatchNext]_vars
  PROVE  ReservationsBalanced'
  <1>0. disp \in [Tasks -> Dispatch] /\ reserved \in [Workers -> Nat]
    BY DEF DispatchTypeOK
  <1>1. ASSUME NEW c \in Tasks, NEW w \in Workers, PlaceChunk(c, w)
        PROVE  ReservationsBalanced'
    <2>1. /\ disp[c].pc = "place" /\ disp'[c].pc = "send" /\ disp'[c].target = w
          /\ \A d \in Tasks \ {c} : disp'[d] = disp[d]
          /\ reserved' = [reserved EXCEPT ![w] = @ + 1]
      BY <1>0, <1>1 DEF PlaceChunk, Dispatch
    <2>2. ASSUME NEW v \in Workers, v # w  PROVE  reserved'[v] = Cardinality(Holding(v)')
      <3>1. Holding(v)' = Holding(v)
        BY <2>1, <2>2 DEF Holding
      <3> QED  BY <1>0, <2>1, <2>2, <3>1 DEF ReservationsBalanced
    <2>3. reserved'[w] = Cardinality(Holding(w)')
      <3>1. Holding(w)' = Holding(w) \cup {c} /\ c \notin Holding(w)
        BY <2>1 DEF Holding
      <3>2. Cardinality(Holding(w) \cup {c}) = Cardinality(Holding(w)) + 1
        BY <3>1, HoldingFinite, FS_AddElement
      <3> QED  BY <1>0, <2>1, <3>1, <3>2 DEF ReservationsBalanced
    <2> QED  BY <2>2, <2>3 DEF ReservationsBalanced
  <1>2. ASSUME NEW c \in Tasks, ResumeCompleted(c)  PROVE  ReservationsBalanced'
    <2>1. /\ Holds(c) /\ ~Holds(c)' /\ disp[c].target \in Workers
          /\ \A d \in Tasks \ {c} : /\ Holds(d)' <=> Holds(d)
                                    /\ disp'[d].target = disp[d].target
      BY <1>2, TakesEffect DEF Holds, Named
    <2> QED  BY <1>2, <2>1, ReleaseBalances DEF ResumeCompleted
  <1>3. ASSUME NEW c \in Tasks, LoopStep(c), ~ResumeCompleted(c)
        PROVE  ReservationsBalanced'
    <2>1. \A d \in Tasks \ {c} : disp'[d] = disp[d]
      BY <1>3, OneMoves
    <2>2. CASE BeginChunk(c) /\ <<disp[c].pc, disp'[c].pc>> \in {<<"begin", "place">>, <<"place", "send">>}
      <3>1. disp[c].pc = "begin" /\ disp'[c].pc = "place" /\ reserved' = reserved
        BY <2>2 DEF BeginChunk
      <3> QED  BY <2>1, <3>1, SameHolding DEF Holds
    <2>3. CASE /\ SendChunk(c) \/ SimulationRejects(c)
               /\ disp[c].pc = "send" /\ disp'[c].pc = "await"
               /\ disp'[c].target = disp[c].target
      <3>1. reserved' = reserved
        BY <2>3 DEF SendChunk, SimulationRejects
      <3> QED  BY <2>1, <2>3, <3>1, SameHolding DEF Holds
    <2>4. CASE PlacementThrows(c) /\ disp[c].pc = "place" /\ disp'[c].pc = "failed"
      <3>1. reserved' = reserved
        BY <2>4 DEF PlacementThrows
      <3> QED  BY <2>1, <2>4, <3>1, SameHolding DEF Holds
    <2>5. CASE \/ SendFails(c) /\ disp[c].pc = "send" /\ disp'[c].pc = "failed"
               \/ ResumeFailed(c) /\ disp[c].pc = "await" /\ disp'[c].pc \in {"place", "failed"}
      <3>1. Release(disp[c].target) /\ Holds(c) /\ ~Holds(c)' /\ disp[c].target \in Workers
        BY <2>5 DEF SendFails, ResumeFailed, Holds, Named
      <3> QED  BY <2>1, <3>1, ReleaseBalances DEF Holds
    <2> QED  BY <1>1, <1>3, <2>2, <2>3, <2>4, <2>5, OneMoves
  <1>6. CASE Submit
    <2>1. reserved' = reserved /\ \A c \in Tasks : disp[c].pc = "idle"
      BY <1>6 DEF Submit, Named
    <2>2. \A c \in Tasks : disp'[c].pc \in {"idle", "begin"}
      BY <1>6, SubmitEffect
    <2> QED  BY <2>1, <2>2, SameHolding DEF Holds
  <1>7. CASE CrashRestart
    <2>1. disp' = [c \in Tasks |-> IdleDispatch] /\ reserved' = [w \in Workers |-> 0]
      BY <1>7 DEF CrashRestart
    <2>2. \A w \in Workers : Holding(w)' = {}
      BY <2>1 DEF Holding, IdleDispatch
    <2> QED  BY <2>1, <2>2, FS_EmptySet DEF ReservationsBalanced
  <1>8. CASE Standstill
    BY <1>8, LoopsStand, SameHolding DEF Moves, Holds
  <1> QED
    BY <1>2, <1>3, <1>6, <1>7, <1>8 DEF Standstill

-----------------------------------------------------------------------------
\* Progress, and the consumers of a workload.

(***************************************************************************)
(* Progress: the chunks still to be counted are the tracked ones and those *)
(* no loop has begun with, which are not tracked; with those counted they  *)
(* are all chunks, or were before a cancellation.                          *)
(***************************************************************************)
Counted == workload.completed + workload.failed
Uncounted == workload.tracked \cup Fresh

Progress ==
  /\ workload.tracked \cap Fresh = {}
  /\ Counted + Cardinality(Uncounted) <= Cardinality(Tasks)
  /\ ~workload.cancelled => Counted + Cardinality(Uncounted) = Cardinality(Tasks)

\* A chunk whose loop was told of success, and has ended with it, is not tracked.
OffTheList(c) ==
  c \in workload.tracked =>
    disp[c].pc # "done" /\ ~(disp[c].pc = "await" /\ disp[c].promise = "ok")

\* What is known of the size of a set of chunks.
LEMMA ChunkSets ==
  ASSUME NEW S \in SUBSET Tasks
  PROVE  /\ IsFiniteSet(S) /\ Cardinality(S) \in Nat /\ Cardinality(Tasks) \in Nat
         /\ \A T \in SUBSET S : Cardinality(T) <= Cardinality(S)
         /\ \A x \in S : Cardinality(S \ {x}) = Cardinality(S) - 1
         /\ \A x \in Tasks \ S : Cardinality(S \cup {x}) = Cardinality(S) + 1
  <1>1. IsFiniteSet(S)
    BY FS_Subset, ChunkDispatchAssumption
  <1> QED
    BY <1>1, FS_Subset, FS_RemoveElement, FS_AddElement, FS_CardinalityType,
       ChunkDispatchAssumption

\* What a step of the pipeline or of one loop does to the progress record.
SameProgress ==
  /\ workload'.tracked = workload.tracked /\ workload'.completed = workload.completed
  /\ workload'.failed = workload.failed /\ workload'.cancelled = workload.cancelled

\* One chunk is taken off the list and counted.
CountsOne(c) ==
  /\ c \in workload.tracked /\ workload'.tracked = workload.tracked \ {c}
  /\ Counted' = Counted + 1 /\ workload'.cancelled = workload.cancelled

\* The progress record changes when a workload begins, or Core dies; when a loop
\* begins; when a result is processed; when the workload is cancelled.
LEMMA ProgressMoves ==
  ASSUME DispatchTypeOK, [DispatchNext]_vars
  PROVE  \/ Submit \/ CrashRestart
         \/ \E c \in Tasks : BeginChunk(c) /\ workload' = [workload EXCEPT !.tracked = @ \cup {c}]
         \/ SameProgress /\ Fresh' = Fresh
         \/ \E h \in checking : /\ AcceptResult(h) \/ RejectResult(h)
                                /\ CountsOne(h.reply.order.task) /\ Fresh' = Fresh
         \/ CancelWorkload /\ Fresh' = Fresh
  <1>0. /\ disp \in [Tasks -> Dispatch] /\ workload \in WorkloadState
    BY DEF DispatchTypeOK, WorkloadState
  <1>1. ASSUME NEW d, Conclude(d)  PROVE  SameProgress
    BY <1>0, <1>1 DEF Conclude, WorkloadState, SameProgress
  <1>2. ASSUME NEW c \in Tasks, LoopStep(c), ~BeginChunk(c)
        PROVE  SameProgress /\ Fresh' = Fresh
    <2>1. SameProgress
      BY <1>1, <1>2
         DEF LoopStep, PlaceChunk, PlacementThrows, SendChunk, SendFails, SimulationRejects,
             ResumeCompleted, ResumeFailed, SameProgress
    <2>2. Fresh' = Fresh
      <3>1. CASE ResumeCompleted(c)
        BY <3>1, TakesEffect DEF Fresh
      <3>2. CASE ~ResumeCompleted(c)
        <4>1. /\ \A d \in Tasks \ {c} : disp'[d] = disp[d]
              /\ disp[c].pc \notin {"idle", "begin"} /\ disp'[c].pc \notin {"idle", "begin"}
          BY <1>2, <3>2, OneMoves DEF PlaceChunk
        <4> QED  BY <4>1 DEF Fresh
      <3> QED  BY <3>1, <3>2
    <2> QED  BY <2>1, <2>2
  <1>3. CASE Standstill
    <2>1. Fresh' = Fresh
      BY <1>3, LoopsStand DEF Moves, Fresh
    <2>2. ASSUME NEW h \in checking, AcceptResult(h) \/ RejectResult(h)
          PROVE  SameProgress \/ CountsOne(h.reply.order.task)
      <3> DEFINE c == h.reply.order.task
      <3>1. CASE c \notin workload.tracked
        BY <2>2, <3>1 DEF AcceptResult, RejectResult, SameProgress
      <3>2. CASE c \in workload.tracked
        <4>1. \/ workload' = [workload EXCEPT !.tracked = @ \ {c}, !.completed = @ + 1]
              \/ workload' = [workload EXCEPT !.tracked = @ \ {c}, !.failed = @ + 1]
          BY <2>2, <3>2 DEF AcceptResult, RejectResult
        <4>2. workload.completed \in Nat /\ workload.failed \in Nat
          BY <1>0 DEF WorkloadState
        <4>3. /\ workload'.tracked = workload.tracked \ {c}
              /\ workload'.cancelled = workload.cancelled
              /\ \/ /\ workload'.completed = workload.completed + 1
                    /\ workload'.failed = workload.failed
                 \/ /\ workload'.completed = workload.completed
                    /\ workload'.failed = workload.failed + 1
          BY <1>0, <4>1 DEF WorkloadState
        <4>4. Counted' = Counted + 1
          BY <4>2, <4>3 DEF Counted
        <4> QED  BY <3>2, <4>3, <4>4 DEF CountsOne
      <3> QED  BY <3>1, <3>2
    <2>3. CASE CancelWorkload
      BY <2>1, <2>3
    <2>4. CASE UNCHANGED workload
      BY <2>1, <2>4 DEF SameProgress
    <2> QED
      BY <1>3, <2>1, <2>2, <2>3, <2>4
         DEF Standstill, DispatchNext, PipelineStep, TimerFires, ReceiveResult,
             SimulationAnswers, AcceptThrows, WorkerReplies, MessageLost, ConnectionDrops,
             WorkerLost, Reconnect, Telemetry, LeaseWatchdog, TimePasses, dispatchVars, vars
  <1>4. ASSUME NEW c \in Tasks, BeginChunk(c)
        PROVE  workload' = [workload EXCEPT !.tracked = @ \cup {c}]
    BY <1>4 DEF BeginChunk
  <1> QED
    BY <1>2, <1>3, <1>4 DEF Standstill

\* No step counts a chunk a second time, and none loses one.
LEMMA ProgressStep ==
  ASSUME DispatchTypeOK, Progress, [DispatchNext]_vars
  PROVE  Progress'
  <1>0. /\ disp \in [Tasks -> Dispatch] /\ workload \in WorkloadState
        /\ workload.tracked \in SUBSET Tasks /\ Counted \in Nat
        /\ Fresh \in SUBSET Tasks /\ Uncounted \in SUBSET Tasks
    BY DEF DispatchTypeOK, WorkloadState, Fresh, Counted, Uncounted
  <1>1. ASSUME workload'.tracked \cap Fresh' = {}, Uncounted' = Uncounted,
               Counted' = Counted, workload'.cancelled = workload.cancelled
        PROVE  Progress'
    BY <1>1 DEF Progress
  <1>2. CASE Submit \/ CrashRestart
    <2>1. /\ workload'.tracked = {} /\ workload'.completed = 0 /\ workload'.failed = 0
          /\ Fresh' = Tasks
      <3>1. CASE Submit
        BY <3>1, SubmitEffect DEF IdleWorkload, Fresh
      <3>2. CASE CrashRestart
        BY <3>2 DEF CrashRestart, IdleWorkload, IdleDispatch, Fresh
      <3> QED  BY <1>2, <3>1, <3>2
    <2>2. Uncounted' = Tasks /\ Counted' = 0
      BY <2>1 DEF Uncounted, Counted
    <2>3. Cardinality(Tasks) \in Nat
      BY ChunkSets
    <2> QED  BY <2>1, <2>2, <2>3 DEF Progress
  <1>3. ASSUME NEW c \in Tasks, BeginChunk(c),
               workload' = [workload EXCEPT !.tracked = @ \cup {c}]
        PROVE  Progress'
    <2>1. /\ disp[c].pc = "begin" /\ disp'[c].pc = "place"
          /\ \A d \in Tasks \ {c} : disp'[d] = disp[d]
      BY <1>0, <1>3 DEF BeginChunk, Dispatch
    <2>2. /\ workload'.tracked = workload.tracked \cup {c}
          /\ workload'.completed = workload.completed /\ workload'.failed = workload.failed
          /\ workload'.cancelled = workload.cancelled
      BY <1>0, <1>3 DEF WorkloadState
    <2>3. Fresh' = Fresh \ {c} /\ c \in Fresh
      BY <2>1 DEF Fresh
    <2>4. Uncounted' = Uncounted /\ Counted' = Counted
      BY <2>2, <2>3 DEF Uncounted, Counted
    <2> QED  BY <1>1, <2>2, <2>3, <2>4 DEF Progress
  <1>4. CASE SameProgress /\ Fresh' = Fresh
    BY <1>1, <1>4 DEF SameProgress, Uncounted, Counted, Progress
  <1>5. ASSUME NEW c, CountsOne(c), Fresh' = Fresh
        PROVE  Progress'
    <2>1. c \in Uncounted /\ Uncounted' = Uncounted \ {c}
      BY <1>5 DEF CountsOne, Uncounted, Progress
    <2>2. /\ Cardinality(Uncounted') = Cardinality(Uncounted) - 1
          /\ Cardinality(Uncounted) \in Nat /\ Cardinality(Tasks) \in Nat
      BY <1>0, <2>1, ChunkSets
    <2>3. Counted' + Cardinality(Uncounted') = Counted + Cardinality(Uncounted)
      BY <1>0, <1>5, <2>2 DEF CountsOne
    <2> QED  BY <1>5, <2>3 DEF CountsOne, Progress
  <1>6. CASE CancelWorkload /\ Fresh' = Fresh
    <2>1. /\ workload'.tracked = {} /\ workload'.cancelled = TRUE
          /\ workload'.completed = workload.completed /\ workload'.failed = workload.failed
      BY <1>0, <1>6 DEF CancelWorkload, WorkloadState
    <2>2. Uncounted' \in SUBSET Uncounted /\ Counted' = Counted
      BY <1>6, <2>1 DEF Uncounted, Counted
    <2>3. Cardinality(Uncounted') <= Cardinality(Uncounted)
      BY <1>0, <2>2, ChunkSets
    <2>4. Cardinality(Uncounted') \in Nat /\ Cardinality(Uncounted) \in Nat
          /\ Cardinality(Tasks) \in Nat
      BY <1>0, <2>2, ChunkSets
    <2> QED  BY <1>0, <2>1, <2>2, <2>3, <2>4 DEF Progress
  <1> QED
    BY <1>2, <1>3, <1>4, <1>5, <1>6, ProgressMoves

\* A loop is told of success by the step that takes its chunk off the list, and
\* none begins twice.
LEMMA OffTheListStep ==
  ASSUME DispatchTypeOK, IInv, Named, [DispatchNext]_vars, NEW s \in Tasks,
         InTouch(s), OffTheList(s)
  PROVE  OffTheList(s)'
  <1>0. workload \in WorkloadState
    BY DEF DispatchTypeOK, WorkloadState
  <1>1. CASE Submit \/ CrashRestart
    <2>1. workload'.tracked = {}
      <3>1. CASE Submit
        BY <3>1, SubmitEffect DEF IdleWorkload
      <3>2. CASE CrashRestart
        BY <3>2 DEF CrashRestart, IdleWorkload
      <3> QED  BY <1>1, <3>1, <3>2
    <2> QED  BY <2>1 DEF OffTheList
  <1>2. CASE s \in workload'.tracked => s \in workload.tracked
    <2>1. CASE \E h \in checking : h.reply.order.task = s /\ AcceptResult(h)
      BY <1>0, <2>1 DEF AcceptResult, OffTheList, WorkloadState
    <2>2. CASE ~CrashRestart /\ ~Submit
               /\ ~\E h \in checking : h.reply.order.task = s /\ AcceptResult(h)
      <3>1. ChunkMove(s)
        BY ChunkMoves
      <3>2. ~Crashed(s) /\ ~Accepted(s)
        BY <2>2 DEF Crashed, Accepted
      <3> QED
        BY <1>2, <3>1, <3>2
           DEF ChunkMove, Resting, Submitted, Begun, Given, Unplaced, Sent, Unsent, Done,
               Taken, Retried, Interrupted, Rejected, Refused, Lost, Rests, Moves, Told,
               OffTheList, InTouch
    <2> QED  BY <1>1, <2>1, <2>2
  <1>3. ASSUME NEW c \in Tasks, BeginChunk(c)
        PROVE  OffTheList(s)'
    <2>1. /\ disp'[c].pc = "place"
          /\ \A d \in Tasks \ {c} : disp'[d] = disp[d]
          /\ workload'.tracked = workload.tracked \cup {c}
      BY <1>0, <1>3 DEF BeginChunk, Dispatch, DispatchTypeOK, WorkloadState
    <2> QED  BY <2>1 DEF OffTheList
  <1>4. CASE CancelWorkload
    BY <1>0, <1>4 DEF CancelWorkload, WorkloadState, OffTheList
  <1> QED
    BY <1>1, <1>2, <1>3, <1>4, ProgressMoves DEF SameProgress, CountsOne

\* What the client is told: nothing changes but the status, which stays "running"
\* only while no chunk has failed and some are not done.
LEMMA ConcludeEffect ==
  ASSUME DispatchTypeOK, NEW d, Conclude(d)
  PROVE  /\ workload'.pool = workload.pool
         /\ workload'.status = "running" =>
              /\ workload.status = "running"
              /\ \A c \in Tasks : d[c].pc # "failed"
              /\ \E c \in Tasks : d[c].pc # "done"
  BY DEF Conclude, DispatchTypeOK

\* Every step keeps the consumers at their queue.
LEMMA PoolStep ==
  ASSUME DispatchTypeOK, PoolServesQueue, [DispatchNext]_vars
  PROVE  PoolServesQueue'
  <1> DEFINE Idles(pc) == pc \in {"idle", "done", "failed"}
  <1>0. /\ Busy \in SUBSET Tasks /\ workload.pool \in Nat
        /\ disp' \in [Tasks -> Dispatch]
    BY DispType DEF Busy, DispatchTypeOK
  <1>1. ASSUME Busy' = Busy, workload'.pool = workload.pool,
               workload'.status = "running" => workload.status = "running"
        PROVE  PoolServesQueue'
    BY <1>1 DEF PoolServesQueue
  \* A consumer that stops leaves one place in the pool empty.
  <1>2. ASSUME NEW c \in Busy, Busy' = Busy \ {c}, workload'.pool = workload.pool,
               workload'.status = "running" => Busy' # {}
        PROVE  PoolServesQueue'
    <2>1. /\ Cardinality(Busy') = Cardinality(Busy) - 1 /\ Cardinality(Busy) \in Nat
      BY <1>0, <1>2, ChunkSets
    <2> QED  BY <1>0, <1>2, <2>1 DEF PoolServesQueue
  <1>3. CASE Submit
    <2>1. PICK first \in SUBSET Tasks :
           /\ first # {} /\ Cardinality(first) \in Nat
           /\ workload' = [IdleWorkload EXCEPT !.status = "running",
                                               !.pool = Cardinality(first)]
           /\ \A c \in Tasks : disp'[c].pc = IF c \in first THEN "begin" ELSE "idle"
      BY <1>3, SubmitEffect
    <2>2. Busy' = first
      BY <2>1 DEF Busy
    <2>3. workload'.pool = Cardinality(first)
      BY <2>1 DEF IdleWorkload
    <2> QED  BY <2>1, <2>2, <2>3 DEF PoolServesQueue
  <1>4. CASE CrashRestart
    <2>1. disp' = [c \in Tasks |-> IdleDispatch] /\ workload' = IdleWorkload
      BY <1>4 DEF CrashRestart
    <2>2. Busy' = {}
      BY <2>1 DEF Busy, IdleDispatch
    <2> QED  BY <2>1, <2>2, FS_EmptySet DEF PoolServesQueue, IdleWorkload
  <1>5. ASSUME NEW c \in Tasks, ResumeCompleted(c)  PROVE  PoolServesQueue'
    <2>1. /\ c \in Busy /\ disp'[c].pc = "done" /\ Conclude(disp')
      BY <1>5, TakesEffect DEF Busy, ResumeCompleted
    <2>2. /\ workload'.pool = workload.pool
          /\ workload'.status = "running" =>
              /\ \A d \in Tasks : disp'[d].pc # "failed"
              /\ \E d \in Tasks : disp'[d].pc # "done"
      BY <2>1, ConcludeEffect
    <2>3. CASE Pending = {} /\ \A d \in Tasks \ {c} : disp'[d].pc = disp[d].pc
      <3>1. Busy' = Busy \ {c}
        BY <2>1, <2>3 DEF Busy
      <3>2. \A d \in Tasks : disp'[d].pc # "idle"
        BY <2>1, <2>3 DEF Pending
      <3>3. workload'.status = "running" => Busy' # {}
        BY <2>2, <3>2 DEF Busy
      <3> QED  BY <1>2, <2>1, <2>2, <3>1, <3>3
    <2>4. ASSUME NEW e \in Pending \ {c}, disp[e].pc = "idle", disp'[e].pc = "begin",
                 \A d \in Tasks \ {c, e} : disp'[d].pc = disp[d].pc
          PROVE  PoolServesQueue'
      <3>1. e \in Tasks /\ e \notin Busy
        BY <2>4 DEF Busy, Pending
      <3>2. Busy' = (Busy \ {c}) \cup {e}
        BY <2>1, <2>4, <3>1 DEF Busy
      <3>3. /\ Cardinality(Busy \ {c}) = Cardinality(Busy) - 1
            /\ Cardinality((Busy \ {c}) \cup {e}) = Cardinality(Busy \ {c}) + 1
            /\ Cardinality(Busy) \in Nat
        <4>1. e \in Tasks \ (Busy \ {c}) /\ Busy \ {c} \in SUBSET Tasks
          BY <1>0, <3>1
        <4> QED  BY <1>0, <2>1, <4>1, ChunkSets
      <3> QED  BY <1>0, <2>2, <3>2, <3>3 DEF PoolServesQueue
    <2> QED  BY <1>5, <2>3, <2>4, TakesEffect
  <1>6. ASSUME NEW c \in Tasks, LoopStep(c), ~ResumeCompleted(c)
        PROVE  PoolServesQueue'
    <2>1. \A d \in Tasks \ {c} : disp'[d] = disp[d]
      BY <1>6, OneMoves
    <2>2. CASE disp'[c].pc # "failed"
      <3>1. disp[c].pc \in {"begin", "place", "send", "await"}
            /\ disp'[c].pc \in {"place", "send", "await"}
        BY <1>6, <2>2, OneMoves
      <3>2. Busy' = Busy
        BY <2>1, <3>1 DEF Busy
      <3>3. \/ workload' = workload \/ Conclude(disp')
            \/ workload' = [workload EXCEPT !.tracked = @ \cup {c}]
        BY <1>6
           DEF LoopStep, BeginChunk, PlaceChunk, PlacementThrows, SendChunk, SendFails,
               SimulationRejects, ResumeFailed
      <3>4. workload'.pool = workload.pool
            /\ (workload'.status = "running" => workload.status = "running")
        BY <3>3, ConcludeEffect DEF DispatchTypeOK
      <3> QED  BY <1>1, <3>2, <3>4
    <2>3. CASE disp'[c].pc = "failed"
      <3>1. disp[c].pc \in {"place", "send", "await"}
            /\ (PlacementThrows(c) \/ SendFails(c) \/ ResumeFailed(c))
        BY <1>6, <2>3, OneMoves
      <3>2. Conclude(disp')
        BY <3>1 DEF PlacementThrows, SendFails, ResumeFailed
      <3>3. workload'.pool = workload.pool /\ workload'.status # "running"
        BY <2>3, <3>2, ConcludeEffect
      <3>4. c \in Busy /\ Busy' = Busy \ {c}
        BY <2>1, <2>3, <3>1 DEF Busy
      <3> QED  BY <1>2, <3>3, <3>4
    <2> QED  BY <2>2, <2>3
  <1>7. CASE Standstill
    <2>1. Busy' = Busy
      BY <1>7, LoopsStand DEF Moves, Busy
    <2> QED  BY <1>1, <1>7, <2>1, LoopsStand
  <1> QED  BY <1>3, <1>4, <1>5, <1>6, <1>7 DEF Standstill

-----------------------------------------------------------------------------
(***************************************************************************)
(* Without simulated workers.  A simulated worker answers for every        *)
(* execution of a chunk it has on its hands at once, and a late answer of  *)
(* it is recorded as a failure whatever the row's status is: with one, a   *)
(* completed chunk can be reopened.  A real worker's order is answered     *)
(* once.                                                                   *)
(***************************************************************************)

\* Copies of an answer are the only answers to its order, which the worker no
\* longer has.
AnsweredOnce ==
  /\ \A r, q \in Answers : r.order = q.order => r = q
  /\ \A r \in Answers : r.order \notin orders

(***************************************************************************)
(* A loop that waits has a listener; its row is completed only if it was   *)
(* told so; and one that was told otherwise resumes before the pipeline    *)
(* could still complete its row.                                           *)
(***************************************************************************)
Listened(c) ==
  /\ disp[c].pc = "send" => c \in listener
  /\ disp[c].pc = "await" =>
       /\ disp[c].promise = "pending" => c \in listener
       /\ disp[c].promise # "ok" => rows[c].status # "COMPLETED"
       /\ disp[c].promise \in {"bad", "timeout"} => checking = {} \/ ~InFlight(c)

\* Results of one chunk that are being validated are copies of one answer.
OneAnswer ==
  /\ \A h, g \in checking : h.reply.order.task = g.reply.order.task => h.reply = g.reply
  /\ \A h \in checking : ~h.reply.valid => rows[h.reply.order.task].status # "COMPLETED"

AnswerInv == AnsweredOnce /\ (\A c \in Tasks : Listened(c)) /\ OneAnswer

\* Answers come from workers that have the order, and are received one by one.
LEMMA AnswerMoves ==
  ASSUME SimWorkers = {}, DispatchTypeOK, [DispatchNext]_vars
  PROVE  /\ \/ Answers' \subseteq Answers /\ orders' \subseteq orders
            \/ \E c \in Tasks : /\ SendChunk(c) /\ Answers' = Answers
                                /\ orders' = orders \cup {NewOrder(c)}
            \/ \E o \in orders, valid \in BOOLEAN :
                 /\ Answers' = Answers \cup {[order |-> o, valid |-> valid]}
                 /\ orders' = orders \ {o}
         /\ \/ checking' \subseteq checking
            \/ \E r \in replies : ReceiveResult(r)
  <1>1. ASSUME NEW r \in replies, ReceiveResult(r)
        PROVE  Answers' \subseteq Answers /\ orders' \subseteq orders
    <2>1. /\ orders' = orders /\ replies' \subseteq replies
          /\ \A h \in checking' : h \in checking \/ h.reply = r
      BY <1>1 DEF ReceiveResult
    <2> QED  BY <2>1 DEF Answers
  <1>2. ASSUME NEW c \in Tasks, SendChunk(c)
        PROVE  /\ Answers' = Answers /\ orders' = orders \cup {NewOrder(c)}
               /\ checking' = checking
    BY <1>2 DEF SendChunk, Answers
  <1>3. ASSUME NEW o \in orders, NEW valid \in BOOLEAN, WorkerReplies(o, valid)
        PROVE  /\ Answers' = Answers \cup {[order |-> o, valid |-> valid]}
               /\ orders' = orders \ {o}
               /\ checking' = checking
    BY <1>3 DEF WorkerReplies, Answers
  <1>4. ASSUME orders' \subseteq orders, replies' \subseteq replies,
               checking' \subseteq checking
        PROVE  Answers' \subseteq Answers /\ orders' \subseteq orders
    BY <1>4 DEF Answers
  <1>5. ASSUME NEW h \in checking, AcceptResult(h) \/ AcceptThrows(h) \/ RejectResult(h)
        PROVE  orders' \subseteq orders /\ replies' \subseteq replies /\ checking' \subseteq checking
    BY <1>5 DEF AcceptResult, AcceptThrows, RejectResult
  <1>6. CASE MessageLost \/ CrashRestart
    <2>1. orders' \subseteq orders /\ replies' \subseteq replies /\ checking' \subseteq checking
      BY <1>6 DEF MessageLost, CrashRestart
    <2> QED  BY <1>4, <2>1
  <1>7. CASE UNCHANGED <<orders, replies, checking>>
    BY <1>4, <1>7
  <1>8. \/ \E r \in replies : ReceiveResult(r)
        \/ \E c \in Tasks : SendChunk(c)
        \/ \E o \in orders, valid \in BOOLEAN : WorkerReplies(o, valid)
        \/ \E h \in checking : AcceptResult(h) \/ AcceptThrows(h) \/ RejectResult(h)
        \/ MessageLost \/ CrashRestart
        \/ UNCHANGED <<orders, replies, checking>>
    <2> DEFINE Silence == UNCHANGED <<orders, replies, checking>>
    <2>1. ASSUME NEW c \in Tasks, LoopStep(c)  PROVE  SendChunk(c) \/ Silence
      BY <2>1 DEF LoopStep, BeginChunk, PlaceChunk, PlacementThrows, SendFails,
                  SimulationRejects, ResumeCompleted, ResumeFailed
    <2>2. Submit \/ CancelWorkload \/ LeaseWatchdog \/ TimePasses
            \/ (\E c \in Tasks : TimerFires(c)) \/ UNCHANGED vars
            \/ (\E w \in Workers : \/ ConnectionDrops(w) \/ WorkerLost(w)
                                  \/ Reconnect(w) \/ Telemetry(w))
            => Silence
      BY DEF Submit, CancelWorkload, LeaseWatchdog, TimePasses, TimerFires, ConnectionDrops,
             WorkerLost, Reconnect, Telemetry, dispatchVars, vars
    <2> QED  BY <2>1, <2>2 DEF DispatchNext, PipelineStep
  <1>9. CASE MessageLost \/ CrashRestart
    BY <1>6, <1>9 DEF MessageLost, CrashRestart
  <1> QED  BY <1>1, <1>2, <1>3, <1>4, <1>5, <1>7, <1>8, <1>9

\* An answer stays the only one to its order.
LEMMA OnceStep ==
  ASSUME SimWorkers = {}, DispatchTypeOK, AnsweredOnce, \A c \in Tasks : InTouch(c),
         \A o \in Known : Past(o), [DispatchNext]_vars
  PROVE  AnsweredOnce'
  <1>1. CASE Answers' \subseteq Answers /\ orders' \subseteq orders
    BY <1>1 DEF AnsweredOnce
  <1>2. ASSUME NEW c \in Tasks, SendChunk(c), Answers' = Answers,
               orders' = orders \cup {NewOrder(c)}
        PROVE  AnsweredOnce'
    <2>1. ASSUME NEW r \in Answers, r.order = NewOrder(c)  PROVE  FALSE
      <3>1. r.order.task = c /\ r.order.gen = Attempt(c)
        BY <2>1 DEF NewOrder
      <3>2. Past(r.order) /\ disp[c].pc = "send"
        BY <1>2, KnownType DEF SendChunk
      <3> QED  BY <3>1, <3>2 DEF Past
    <2> QED  BY <1>2, <2>1 DEF AnsweredOnce
  <1>3. ASSUME NEW o \in orders, NEW valid \in BOOLEAN,
               Answers' = Answers \cup {[order |-> o, valid |-> valid]},
               orders' = orders \ {o}
        PROVE  AnsweredOnce'
    <2>1. \A r \in Answers' : r \in Answers \/ r = [order |-> o, valid |-> valid]
      BY <1>3
    <2>2. \A r \in Answers : r.order # o
      BY DEF AnsweredOnce
    <2> QED  BY <1>3, <2>1, <2>2 DEF AnsweredOnce
  <1> QED  BY <1>1, <1>2, <1>3, AnswerMoves

\* A loop that waits stays in line with its listener and its row.
LEMMA ListenedStep ==
  ASSUME SimWorkers = {}, DispatchTypeOK, IInv, Named, Turns,
         [DispatchNext]_vars, NEW s \in Tasks, InTouch(s), Listened(s)
  PROVE  Listened(s)'
  <1>1. ChunkMove(s) /\ disp[s] \in Dispatch
    BY ChunkMoves DEF DispatchTypeOK
  <1>2. checking' \subseteq checking \/ (NoContinuation /\ disp' = disp)
    BY AnswerMoves DEF ReceiveResult
  <1>3. ASSUME Settled(s), Rests(s, disp[s].pc)  PROVE  checking' \subseteq checking
    BY <1>2, <1>3 DEF NoContinuation
  <1> USE DEF Listened, InFlight, InFlightStatus
  <1>4. CASE Resting(s)
    BY <1>3, <1>4 DEF Resting, Rests, Moves, Untouched, Settled
  <1>5. CASE \E w \in Workers : Given(s, w)
    BY <1>5 DEF Given
  <1>6. CASE Sent(s)
    BY <1>6 DEF Sent, Rests, Moves, Untouched, InTouch
  <1>7. CASE Interrupted(s)
    <2>1. checking' \subseteq checking
      BY <1>2, <1>7 DEF Interrupted
    <2> QED  BY <1>7, <2>1 DEF Interrupted, Moves, Untouched, Quiet
  <1>8. ASSUME checking # {} \/ Quiet  PROVE  disp[s].pc # "send"
    BY <1>8 DEF Turns, Quiescent, Quiet, NoContinuation
  <1>9. CASE Accepted(s)
    <2>1. checking # {} /\ disp[s].pc # "send" /\ InFlight(s)
      BY <1>8, <1>9 DEF Accepted, Finished
    <2>2. disp[s].pc = "await" => disp'[s].promise = "ok"
      BY <1>1, <1>9, <2>1 DEF Accepted, Told, Dispatch
    <2> QED  BY <1>9, <2>1, <2>2 DEF Accepted, Told, Moves
  <1>10. CASE Rejected(s)
    <2>1. checking # {} /\ disp[s].pc # "send"
      BY <1>8, <1>10 DEF Rejected
    <2> QED  BY <1>10, <2>1 DEF Rejected, Told, Moves, TakenBack
  <1>11. CASE Lost(s)
    <2>1. disp[s].pc # "send"
      BY <1>8, <1>11 DEF Lost
    <2> QED  BY <1>11, <2>1 DEF Lost, Rests, Moves, TakenBack
  <1>12. CASE \/ Submitted(s) \/ Begun(s) \/ Unplaced(s) \/ Unsent(s) \/ Done(s)
              \/ Taken(s) \/ Retried(s) \/ Crashed(s)
    <2>1. disp'[s].pc \notin {"send", "await"}
      BY <1>12
         DEF Submitted, Begun, Unplaced, Unsent, Done, Taken, Retried, Crashed, Rests,
             Moves, IdleDispatch
    <2> QED  BY <2>1
  <1> QED
    BY <1>1, <1>4, <1>5, <1>6, <1>7, <1>9, <1>10, <1>11, <1>12 DEF ChunkMove, Refused

\* Results under validation stay copies of one answer.
LEMMA OneAnswerStep ==
  ASSUME SimWorkers = {}, DispatchTypeOK, IInv, Named, \A c \in Tasks : InTouch(c),
         \A o \in Known : Past(o), \A h \in checking : Checked(h), AnswerInv,
         [DispatchNext]_vars
  PROVE  OneAnswer'
  <1>0. /\ \A h \in checking : /\ h.reply \in Answers /\ h.reply.order \in Known
                               /\ h.reply.order \in Order /\ h.reply.order.task \in Tasks
                               /\ h.reply.order.worker \in Remote /\ Checked(h)
        /\ \A r \in replies : /\ r \in Answers /\ r.order \in Known
                              /\ r.order \in Order /\ r.order.task \in Tasks
                              /\ r.order.worker \in Remote /\ Past(r.order)
    BY KnownType DEF Remote, Answers
  <1>1. ASSUME NEW r \in replies, ReceiveResult(r)  PROVE  OneAnswer'
    <2> DEFINE o == r.order
    <2>1. /\ \A h \in checking' : h \in checking \/ h.reply = r
          /\ \A h \in checking : h.reply.order.worker = o.worker
          /\ rows' = rows
          /\ checking' \subseteq checking \/ Acceptable(r)
      BY <1>1 DEF ReceiveResult, storeVars
    <2>2. CASE checking' \subseteq checking
      BY <2>1, <2>2 DEF AnswerInv, OneAnswer
    <2>3. CASE Acceptable(r)
      <3>1. /\ rows[o.task].status # "COMPLETED"
            /\ o.attempt \in {NoAttempt, Attempt(o.task)}
        BY <2>3 DEF Acceptable, Attempt
      <3>2. /\ o.attempt \in 1 .. o.gen /\ o.gen <= Attempt(o.task)
            /\ o.gen \in Nat /\ o.attempt \in Nat /\ Attempt(o.task) \in Nat
            /\ o.gen = Attempt(o.task) => InFlight(o.task) \/ rows[o.task].status = "COMPLETED"
        <4>1. o.task \in Tasks /\ Past(o) /\ o \in Order /\ o.worker \in Remote
          BY <1>0
        <4>2. rows[o.task].retryCount \in Nat
          BY <4>1 DEF DispatchTypeOK, TypeOK, Row
        <4> QED  BY <4>1, <4>2 DEF Past, Order, Attempt
      <3>3. /\ o.attempt = Attempt(o.task) /\ o.gen = Attempt(o.task) /\ InFlight(o.task)
        BY <3>1, <3>2 DEF NoAttempt
      <3>4. ASSUME NEW h \in checking, h.reply.order.task = o.task  PROVE  h.reply = r
        <4>1. /\ h.reply.order.gen = o.gen /\ h.reply.order.attempt = o.attempt
              /\ h.reply.order.worker = o.worker
          BY <1>0, <2>1, <3>3, <3>4 DEF Checked
        <4>2. h.reply.order = o
          BY <1>0, <3>4, <4>1 DEF Order
        <4> QED  BY <1>0, <4>2 DEF AnswerInv, AnsweredOnce
      <3> HIDE DEF o
      <3>5. ASSUME NEW h \in checking', NEW g \in checking',
                   h.reply.order.task = g.reply.order.task
            PROVE  h.reply = g.reply
        BY <2>1, <3>4, <3>5 DEF AnswerInv, OneAnswer, o
      <3>6. ASSUME NEW h \in checking', ~h.reply.valid
            PROVE  rows'[h.reply.order.task].status # "COMPLETED"
        BY <2>1, <3>1, <3>6 DEF AnswerInv, OneAnswer, o
      <3> QED  BY <3>5, <3>6 DEF OneAnswer
    <2> QED  BY <2>1, <2>2, <2>3
  <1>2. CASE checking' \subseteq checking
    <2>1. \A h, g \in checking' : h.reply.order.task = g.reply.order.task => h.reply = g.reply
      BY <1>2 DEF AnswerInv, OneAnswer
    <2>2. ASSUME NEW h \in checking', ~h.reply.valid
          PROVE  rows'[h.reply.order.task].status # "COMPLETED"
      <3> DEFINE s == h.reply.order.task
      <3>1. h \in checking /\ s \in Tasks /\ rows[s].status # "COMPLETED" /\ ChunkMove(s)
        BY <1>0, <1>2, <2>2, ChunkMoves DEF AnswerInv, OneAnswer
      <3>2. ~Accepted(s)
        <4>1. ASSUME NEW g \in checking, g.reply.order.task = s, AcceptResult(g)  PROVE  FALSE
          <5>1. g.reply.valid /\ g.reply = h.reply
            BY <3>1, <4>1 DEF AcceptResult, AnswerInv, OneAnswer
          <5> QED  BY <2>2, <5>1
        <4> QED  BY <4>1 DEF Accepted
      <3> QED
        BY <3>1, <3>2
           DEF ChunkMove, Resting, Submitted, Begun, Given, Unplaced, Sent, Unsent, Done,
               Taken, Retried, Interrupted, Rejected, Refused, Lost, Crashed, Untouched,
               Opened, HandedOut, TakenBack
    <2> QED  BY <2>1, <2>2 DEF OneAnswer
  <1> QED  BY <1>1, <1>2, AnswerMoves

-----------------------------------------------------------------------------
\* The inductive invariant.

DispatchInv ==
  /\ DispatchTypeOK
  /\ IInv
  /\ Named
  /\ Turns
  /\ \A c \in Tasks : InTouch(c)
  /\ \A o \in Known : Past(o)
  /\ \A h \in checking : Checked(h)
  /\ ReservationsBalanced
  /\ Progress
  /\ \A c \in Tasks : OffTheList(c)
  /\ PoolServesQueue

\* The invariants hold when Core starts.
LEMMA DispatchInitInv == InitAll => DispatchInv /\ AnswerInv
  <1> SUFFICES ASSUME InitAll  PROVE  DispatchInv /\ AnswerInv
    OBVIOUS
  <1>1. IInv
    BY InitInv DEF InitAll
  <1>2. /\ disp = [c \in Tasks |-> IdleDispatch] /\ listener = {}
        /\ reserved = [w \in Workers |-> 0] /\ link = [w \in Workers |-> "open"]
        /\ orders = {} /\ replies = {} /\ checking = {} /\ workload = IdleWorkload
        /\ budget = [drops |-> MaxDrops, copies |-> MaxCopies, crashes |-> MaxCrashes]
        /\ \A c \in Tasks : rows[c].status = "ABSENT"
    BY DEF InitAll, Init, DispatchInit, NoRow
  <1>3. \A c \in Tasks : disp[c] = IdleDispatch
    BY <1>2
  <1>4. DispatchTypeOK
    <2>1. IdleDispatch \in Dispatch
      BY ChunkDispatchAssumption DEF IdleDispatch, Dispatch, Quiescent
    <2> QED
      BY <1>1, <1>2, <2>1, ChunkDispatchAssumption DEF DispatchTypeOK, IInv, IdleWorkload
  <1>5. Known = {} /\ Answers = {}
    BY <1>2 DEF Known, Answers
  <1>6. Named /\ Turns
    BY <1>2, <1>3, <1>5 DEF Named, Turns, IdleDispatch
  <1>7. \A c \in Tasks : InTouch(c) /\ Listened(c)
    BY <1>2, <1>3 DEF InTouch, Listened, IdleDispatch, InFlight, InFlightStatus
  <1>8. ReservationsBalanced
    <2>1. \A w \in Workers : Holding(w) = {}
      BY <1>3 DEF Holding, IdleDispatch
    <2> QED  BY <1>2, <2>1, FS_EmptySet DEF ReservationsBalanced
  <1>9. Progress
    <2>1. /\ workload.tracked = {} /\ workload.completed = 0 /\ workload.failed = 0
          /\ Fresh = Tasks
      BY <1>2, <1>3 DEF IdleWorkload, Fresh, IdleDispatch
    <2>2. Uncounted = Tasks /\ Counted = 0 /\ Cardinality(Tasks) \in Nat
      BY <2>1, ChunkSets DEF Uncounted, Counted
    <2> QED  BY <2>1, <2>2 DEF Progress
  <1>10. PoolServesQueue
    <2>1. Busy = {}
      BY <1>3 DEF Busy, IdleDispatch
    <2> QED  BY <1>2, <2>1, FS_EmptySet DEF PoolServesQueue, IdleWorkload
  <1>11. AnswerInv /\ \A c \in Tasks : OffTheList(c)
    BY <1>2, <1>5, <1>7 DEF AnswerInv, AnsweredOnce, OneAnswer, OffTheList, IdleWorkload
  <1> QED
    BY <1>1, <1>2, <1>4, <1>5, <1>6, <1>7, <1>8, <1>9, <1>10, <1>11 DEF DispatchInv

\* Every step keeps the inductive invariant.
LEMMA DispatchStep ==
  ASSUME DispatchInv, [DispatchNext]_vars
  PROVE  DispatchInv'
  <1>1. DispatchTypeOK' /\ IInv'
    BY DispatchType, StoreStep, NextInv DEF DispatchInv
  <1>2. Named' /\ Turns' /\ (\A c \in Tasks : InTouch(c))'
    BY NamedStep, TurnsStep, InTouchStep DEF DispatchInv
  <1>3. (\A o \in Known : Past(o))' /\ (\A h \in checking : Checked(h))'
    BY PastStep, CheckedStep DEF DispatchInv
  <1>4. ReservationsBalanced' /\ Progress' /\ PoolServesQueue'
    BY BalancedStep, ProgressStep, PoolStep DEF DispatchInv
  <1>5. (\A c \in Tasks : OffTheList(c))'
    BY OffTheListStep DEF DispatchInv
  <1> QED  BY <1>1, <1>2, <1>3, <1>4, <1>5 DEF DispatchInv

\* The inductive invariant of the dispatch loops, the pipeline and the table
\* (DispatchInv) holds in every behaviour, simulated workers and crashes included.
THEOREM DispatchInvariance == DispatchSpec => []DispatchInv
  BY DispatchInitInv, DispatchStep, PTL DEF DispatchSpec

\* Every variable of the dispatch code stays what it is declared as
\* (DispatchTypeOK); the for loop never makes a placement too many.
THEOREM DispatchTypeTheorem == DispatchSpec => []DispatchTypeOK
  <1>1. DispatchInv => DispatchTypeOK
    BY DEF DispatchInv
  <1> QED  BY <1>1, DispatchInvariance, PTL

\* The dispatch loops, the pipeline, the watchdog and the recoveries use the task
\* table as TaskStore says its callers do, so every theorem about the table is one
\* about the running daemon.
THEOREM DispatchUsesTable == DispatchSpec => Spec
  <1>1. InitAll => Init
    BY DEF InitAll
  <1>2. DispatchInv /\ [DispatchNext]_vars => [Next]_storeVars
    BY StoreStep DEF DispatchInv
  <1> QED  BY <1>1, <1>2, DispatchInvariance, PTL DEF DispatchSpec, Spec

\* An attempt of a chunk has one owner, whatever loops, timers, lost workers and
\* crashes do (FencedOwnership).
THEOREM DispatchFence == DispatchSpec => ImplementsFence
  BY DispatchUsesTable, FenceRefinement, PTL

\* The decision engine's count of a worker is the number of chunks that are on
\* it (ReservationsBalanced).
THEOREM DispatchReservations == DispatchSpec => []ReservationsBalanced
  <1>1. DispatchInv => ReservationsBalanced
    BY DEF DispatchInv
  <1> QED  BY <1>1, DispatchInvariance, PTL

\* A chunk in flight has a dispatch loop that waits for its worker
\* (InFlightIsAwaited).
THEOREM DispatchAwaited == DispatchSpec => []InFlightIsAwaited
  <1>1. DispatchInv => InFlightIsAwaited
    BY DEF DispatchInv, InTouch, InFlightIsAwaited
  <1> QED  BY <1>1, DispatchInvariance, PTL

\* A workload that runs has a consumer at work, and never more than its pool
\* (PoolServesQueue).
THEOREM DispatchPool == DispatchSpec => []PoolServesQueue
  <1>1. DispatchInv => PoolServesQueue
    BY DEF DispatchInv
  <1> QED  BY <1>1, DispatchInvariance, PTL

\* The progress a client polls accounts for every chunk once: those completed, failed,
\* tracked and not yet begun add up to the workload until it is cancelled, and no
\* chunk that has ended well is shown in flight (ProgressAddsUp).
THEOREM DispatchProgress == DispatchSpec => []ProgressAddsUp
  <1>1. DispatchInv => ProgressAddsUp
    <2> SUFFICES ASSUME DispatchInv  PROVE  ProgressAddsUp
      OBVIOUS
    <2>1. /\ workload.tracked \in SUBSET Tasks /\ Fresh \in SUBSET Tasks
          /\ workload.completed \in Nat /\ workload.failed \in Nat
          /\ Progress /\ \A c \in Tasks : OffTheList(c)
      BY DEF DispatchInv, DispatchTypeOK, Fresh
    <2>2. /\ IsFiniteSet(workload.tracked) /\ Cardinality(workload.tracked) \in Nat
          /\ IsFiniteSet(Fresh) /\ Cardinality(Fresh) \in Nat
          /\ Cardinality(Tasks) \in Nat
      BY <2>1, ChunkSets
    <2>3. Cardinality(Uncounted) = Cardinality(workload.tracked) + Cardinality(Fresh)
      BY <2>1, <2>2, FS_Union, FS_EmptySet DEF Uncounted, Progress
    <2>4. \A c \in workload.tracked : disp[c].pc # "done"
      BY <2>1 DEF OffTheList
    <2> QED  BY <2>1, <2>2, <2>3, <2>4 DEF Progress, Counted, ProgressAddsUp
  <1> QED  BY <1>1, DispatchInvariance, PTL

\* A result that a worker sent and handleTaskResult has let through is, until it
\* has been validated, of the attempt the row is on and of the row's worker
\* (CheckedResultIsCurrent), where no worker is simulated.
THEOREM DispatchChecked ==
  ASSUME SimWorkers = {}
  PROVE  DispatchSpec => []CheckedResultIsCurrent
  <1>1. DispatchInv => CheckedResultIsCurrent
    <2> SUFFICES ASSUME DispatchInv, NEW h \in checking
                 PROVE  LET o == h.reply.order IN
                        InFlight(o.task) => /\ o.gen = Attempt(o.task)
                                            /\ o.worker = rows[o.task].worker
      BY DEF CheckedResultIsCurrent
    <2>1. h.reply.order.worker \in Remote /\ Checked(h)
      BY KnownType DEF DispatchInv, Remote
    <2> QED  BY <2>1 DEF Checked
  <1> QED  BY <1>1, DispatchInvariance, PTL

\* Where no worker is simulated, what is known of answers is kept, and no move of a
\* chunk reopens its COMPLETED row.
LEMMA AnswerStep ==
  ASSUME SimWorkers = {}, DispatchInv, AnswerInv, [DispatchNext]_vars
  PROVE  DispatchInv' /\ AnswerInv'
  <1>1. AnsweredOnce' /\ OneAnswer'
    BY OnceStep, OneAnswerStep DEF DispatchInv, AnswerInv
  <1>2. \A c \in Tasks : Listened(c)'
    BY ListenedStep DEF DispatchInv, AnswerInv
  <1> QED  BY <1>1, <1>2, DispatchStep DEF AnswerInv

LEMMA CompletedStays ==
  ASSUME SimWorkers = {}, DispatchInv, AnswerInv, [DispatchNext]_vars,
         NEW c \in Tasks, rows[c].status = "COMPLETED"
  PROVE  rows'[c].status = "COMPLETED"
  <1>1. ChunkMove(c) /\ InTouch(c) /\ Listened(c)
    BY ChunkMoves DEF DispatchInv, AnswerInv
  <1>2. disp[c].pc # "send"
    BY <1>1 DEF InTouch, InFlight, InFlightStatus
  <1>3. ~Retried(c)
    BY <1>1 DEF Retried, Listened
  <1>4. ~Rejected(c)
    BY DEF Rejected, RejectResult, AnswerInv, OneAnswer
  <1>5. Untouched(c)
    BY <1>1, <1>2, <1>3, <1>4
       DEF ChunkMove, Resting, Submitted, Begun, Given, Unplaced, Sent, Unsent, Done, Taken,
           Interrupted, Accepted, Refused, Lost, Crashed, Opened, HandedOut, Finished,
           InFlight, InFlightStatus
  <1> QED  BY <1>5 DEF Untouched

\* Where no worker is simulated, a COMPLETED chunk stays so: neither the failure
\* that a loop records when it goes round, nor a rejected duplicate, nor a
\* recovery reopens it (CompletedIsFinal).
THEOREM DispatchCompleted ==
  ASSUME SimWorkers = {}
  PROVE  DispatchSpec => CompletedIsFinal
  <1>1. InitAll => DispatchInv /\ AnswerInv
    BY DispatchInitInv
  <1>2. DispatchInv /\ AnswerInv /\ [DispatchNext]_vars => DispatchInv' /\ AnswerInv'
    BY AnswerStep
  <1>3. DispatchInv /\ AnswerInv /\ [DispatchNext]_vars =>
          [\A c \in Tasks : rows[c].status = "COMPLETED"
                              => rows'[c].status = "COMPLETED"]_vars
    BY CompletedStays
  <1> QED  BY <1>1, <1>2, <1>3, PTL DEF DispatchSpec, CompletedIsFinal

-----------------------------------------------------------------------------
\* What the client of a chunked workload is told.

(***************************************************************************)
(* A loop that was told of success, and one that has ended with it, has a  *)
(* completed row; a workload is completed by loops that have all ended so. *)
(***************************************************************************)
Succeeded(c) ==
  (disp[c].pc = "await" /\ disp[c].promise = "ok") \/ disp[c].pc = "done"
    => rows[c].status = "COMPLETED"

Delivered ==
  /\ \A c \in Tasks : Succeeded(c)
  /\ workload.status = "completed" => \A c \in Tasks : disp[c].pc = "done"

\* A loop hears of success in the step that completes its row.
LEMMA SucceededStep ==
  ASSUME SimWorkers = {}, DispatchInv, AnswerInv, [DispatchNext]_vars,
         NEW c \in Tasks, Succeeded(c)
  PROVE  Succeeded(c)'
  <1>1. ChunkMove(c) /\ InTouch(c)
    BY ChunkMoves DEF DispatchInv
  <1>2. rows[c].status = "COMPLETED" => rows'[c].status = "COMPLETED"
    BY CompletedStays
  <1> USE DEF Succeeded, Rests, Moves
  <1>3. CASE Accepted(c)
    BY <1>3 DEF Accepted, Finished
  <1>4. CASE Rejected(c)
    BY <1>2, <1>4 DEF Rejected, Told
  <1>5. CASE Interrupted(c)
    BY <1>5 DEF Interrupted
  <1>6. CASE Crashed(c)
    BY <1>6 DEF Crashed, IdleDispatch
  <1>7. CASE Done(c)
    BY <1>2, <1>7 DEF Done
  <1>8. CASE Sent(c)
    BY <1>1, <1>8 DEF Sent, InTouch
  <1>9. CASE Resting(c) \/ Lost(c)
    BY <1>2, <1>9 DEF Resting, Lost
  <1> QED
    BY <1>1, <1>3, <1>4, <1>5, <1>6, <1>7, <1>8, <1>9
       DEF ChunkMove, Submitted, Begun, Given, Unplaced, Unsent, Taken, Retried, Refused

\* A loop that has ended stays so until Core dies.
LEMMA DoneStays ==
  ASSUME DispatchInv, [DispatchNext]_vars, NEW c \in Tasks, disp[c].pc = "done",
         workload.status # "idle"
  PROVE  disp'[c].pc = "done" \/ CrashRestart
  <1>1. ChunkMove(c)
    BY ChunkMoves DEF DispatchInv
  <1> QED
    BY <1>1
       DEF ChunkMove, Resting, Submitted, Begun, Given, Unplaced, Sent, Unsent, Done, Taken,
           Retried, Interrupted, Accepted, Rejected, Refused, Lost, Crashed, Rests, Moves, Told

\* A workload becomes completed only where all loops have ended with success.
LEMMA ConcludedStep ==
  ASSUME DispatchInv, [DispatchNext]_vars, workload'.status = "completed",
         workload.status # "completed"
  PROVE  \A c \in Tasks : disp'[c].pc = "done"
  <1>0. DispatchTypeOK /\ workload \in WorkloadState
    BY DEF DispatchInv, DispatchTypeOK, WorkloadState
  <1>1. ~Standstill
    BY <1>0, LoopsStand
  <1>2. ~Submit
    BY DEF Submit, IdleWorkload
  <1>3. ~CrashRestart
    BY DEF CrashRestart, IdleWorkload
  <1>4. PICK c \in Tasks : LoopStep(c)
    BY <1>1, <1>2, <1>3 DEF Standstill
  <1>5. Conclude(disp') \/ workload'.status = workload.status
    BY <1>0, <1>4
       DEF LoopStep, BeginChunk, PlaceChunk, PlacementThrows, SendChunk, SendFails,
           SimulationRejects, ResumeCompleted, ResumeFailed, WorkloadState
  <1> QED  BY <1>0, <1>5 DEF Conclude, WorkloadState

\* The loops of a workload that is completed have all ended with success, with
\* simulated workers and after cancellations too.
AllEnded == workload.status = "completed" => \A c \in Tasks : disp[c].pc = "done"

LEMMA AllEndedStep ==
  ASSUME DispatchInv, AllEnded, [DispatchNext]_vars
  PROVE  AllEnded'
  <1> SUFFICES ASSUME workload'.status = "completed"
               PROVE  \A c \in Tasks : disp'[c].pc = "done"
    BY DEF AllEnded
  <1>1. ~CrashRestart
    BY DEF CrashRestart, IdleWorkload
  <1>2. CASE workload.status = "completed"
    BY <1>1, <1>2, DoneStays DEF AllEnded
  <1> QED  BY <1>2, ConcludedStep

\* What the daemon keeps of a workload agrees once the client is told that it is
\* completed: no chunk is shown as in flight, and where the client did not cancel
\* every chunk is counted, as completed or as failed: a chunk whose first answer was
\* refused stays counted as failed although a retry succeeded (handleTaskResult
\* takes it off the list, and the retry does not put it back).
THEOREM DispatchSettled ==
  DispatchSpec => [](workload.status = "completed" =>
                       /\ workload.tracked = {}
                       /\ ~workload.cancelled =>
                            workload.completed + workload.failed = Cardinality(Tasks))
  <1> DEFINE Agrees == workload.status = "completed" =>
                         /\ workload.tracked = {}
                         /\ ~workload.cancelled =>
                              workload.completed + workload.failed = Cardinality(Tasks)
  <1>1. InitAll => DispatchInv /\ AllEnded
    BY DispatchInitInv DEF InitAll, DispatchInit, IdleWorkload, AllEnded
  <1>2. DispatchInv /\ AllEnded /\ [DispatchNext]_vars => DispatchInv' /\ AllEnded'
    BY DispatchStep, AllEndedStep
  <1>3. DispatchInv /\ AllEnded => Agrees
    <2> SUFFICES ASSUME DispatchInv, AllEnded, workload.status = "completed"
                 PROVE  /\ workload.tracked = {}
                        /\ ~workload.cancelled =>
                             workload.completed + workload.failed = Cardinality(Tasks)
      OBVIOUS
    <2>1. /\ \A c \in Tasks : disp[c].pc = "done" /\ OffTheList(c)
          /\ workload.tracked \in SUBSET Tasks
          /\ workload.completed \in Nat /\ workload.failed \in Nat /\ Progress
      BY DEF AllEnded, DispatchInv, DispatchTypeOK
    <2>2. workload.tracked = {} /\ Fresh = {}
      BY <2>1 DEF OffTheList, Fresh
    <2>3. Cardinality(Uncounted) = 0
      BY <2>2, FS_EmptySet DEF Uncounted
    <2> QED  BY <2>1, <2>2, <2>3 DEF Progress, Counted
  <1> QED  BY <1>1, <1>2, <1>3, PTL DEF DispatchSpec

\* What was delivered stays so, in every step.
LEMMA DeliveredStep ==
  ASSUME SimWorkers = {}, DispatchInv, AnswerInv, Delivered, [DispatchNext]_vars
  PROVE  Delivered'
  <1>1. \A c \in Tasks : Succeeded(c)'
    BY SucceededStep DEF Delivered
  <1>2. AllEnded'
    BY AllEndedStep DEF Delivered, AllEnded
  <1> QED  BY <1>1, <1>2 DEF Delivered, AllEnded

\* The three invariants together, where no worker is simulated.
ServedInv == DispatchInv /\ AnswerInv /\ Delivered

\* They hold always.
LEMMA ServedInvariance ==
  ASSUME SimWorkers = {}
  PROVE  DispatchSpec => []ServedInv
  <1>1. InitAll => ServedInv
    <2>1. InitAll => Delivered
      BY DEF InitAll, DispatchInit, Delivered, Succeeded, IdleDispatch, IdleWorkload
    <2> QED  BY <2>1, DispatchInitInv DEF ServedInv
  <1>2. ServedInv /\ [DispatchNext]_vars => ServedInv'
    BY AnswerStep, DeliveredStep DEF ServedInv
  <1> QED  BY <1>1, <1>2, PTL DEF DispatchSpec

\* A chunked workload that the client was told is completed has a COMPLETED row for
\* each of its chunks, and keeps it, where no worker is simulated: the Promise.all
\* of the parent is resolved by loops that have ended with a result the table took
\* (executeChunkedMatMul, dispatchChunkWithRetry, handleTaskResult).
THEOREM DispatchDelivered ==
  ASSUME SimWorkers = {}
  PROVE  DispatchSpec => [](workload.status = "completed" =>
                              \A c \in Tasks : rows[c].status = "COMPLETED")
  <1>1. ServedInv => (workload.status = "completed" =>
                        \A c \in Tasks : rows[c].status = "COMPLETED")
    BY DEF ServedInv, Delivered, Succeeded
  <1> QED  BY <1>1, ServedInvariance, PTL

-----------------------------------------------------------------------------
\* The dispatch of a chunked workload implements WorkloadContract.

\* A chunk is completed by an accepted result only.
LEMMA NewlyCompleted ==
  ASSUME DispatchInv, [DispatchNext]_vars, NEW c \in Tasks,
         rows[c].status # "COMPLETED", rows'[c].status = "COMPLETED"
  PROVE  \E h \in checking : h.reply.order.task = c /\ AcceptResult(h)
  <1>1. ChunkMove(c)
    BY ChunkMoves DEF DispatchInv
  <1>2. ~Untouched(c) /\ ~TakenBack(c) /\ ~Opened(c) /\ \A w \in Workers : ~HandedOut(c, w)
    BY DEF Untouched, TakenBack, Opened, HandedOut
  <1> QED
    BY <1>1, <1>2
       DEF ChunkMove, Resting, Submitted, Begun, Given, Unplaced, Sent, Unsent, Done, Taken,
           Retried, Interrupted, Accepted, Rejected, Refused, Lost, Crashed

\* An accepted result finishes its chunk, which nobody has finished before, in a
\* workload that was asked for.
LEMMA AcceptFinishes ==
  ASSUME SimWorkers = {}, ServedInv, NEW h \in checking, AcceptResult(h),
         [DispatchNext]_vars
  PROVE  \E c \in Tasks : Contract!Finish(c)
  <1> DEFINE c == h.reply.order.task
  <1>1. c \in Tasks
    BY DEF ServedInv, DispatchInv, DispatchTypeOK, Reply, Order
  <1>2. InFlight(c) /\ rows' = [rows EXCEPT ![c].status = "COMPLETED", ![c].lease = NoLease]
    BY DEF AcceptResult, CompleteTask
  <1>3. workload.status # "idle"
    BY <1>1, <1>2 DEF ServedInv, DispatchInv, Named, InTouch
  <1>4. workload'.status = workload.status
    BY DEF AcceptResult, ServedInv, DispatchInv, DispatchTypeOK
  <1>5. c \notin CompletedChunks
    BY <1>2 DEF CompletedChunks, InFlight, InFlightStatus
  <1>6. CompletedChunks' = CompletedChunks \cup {c}
    <2>1. rows \in [Tasks -> Row]
      BY DEF ServedInv, DispatchInv, IInv, TypeOK
    <2>2. rows'[c] = [rows[c] EXCEPT !.status = "COMPLETED", !.lease = NoLease]
      BY ONLY <1>1, <1>2, <2>1
    <2>3. rows'[c].status = "COMPLETED"
      <3>1. rows[c] \in Row
        BY <1>1, <2>1
      <3> QED  BY ONLY <2>2, <3>1 DEF Row
    <2>4. \A d \in Tasks \ {c} : rows'[d] = rows[d]
      BY ONLY <1>1, <1>2, <2>1
    <2> QED  BY <1>1, <2>3, <2>4 DEF CompletedChunks
  <1>7. Contract!Finish(c)
    BY <1>3, <1>4, <1>5, <1>6 DEF Contract!Finish
  <1> QED  BY <1>1, <1>7

\* Any other step finishes no chunk and reopens none.
LEMMA OthersFinishNothing ==
  ASSUME SimWorkers = {}, ServedInv, [DispatchNext]_vars,
         \A h \in checking : ~AcceptResult(h)
  PROVE  CompletedChunks' = CompletedChunks
  BY NewlyCompleted, CompletedStays DEF ServedInv, CompletedChunks

\* The client is told something when a loop ends, and completion by loops that
\* have a completed row each.
LEMMA LoopAnswers ==
  ASSUME ServedInv, Delivered', [DispatchNext]_vars, CompletedChunks' = CompletedChunks,
         NEW c \in Tasks, LoopStep(c)
  PROVE  [Contract!Next]_(Contract!contractVars)
  <1>0. DispatchTypeOK /\ workload \in WorkloadState
    BY DEF ServedInv, DispatchInv, DispatchTypeOK, WorkloadState
  <1>1. Conclude(disp') \/ workload'.status = workload.status
    BY <1>0
       DEF LoopStep, BeginChunk, PlaceChunk, PlacementThrows, SendChunk, SendFails,
           SimulationRejects, ResumeCompleted, ResumeFailed, WorkloadState
  <1>2. CASE workload'.status = workload.status
    BY <1>2 DEF Contract!contractVars
  <1>3. CASE workload.status = "running" /\ workload'.status = "failed"
    BY <1>3 DEF Contract!Next, Contract!Serve, Contract!GiveUp
  <1>4. CASE workload.status = "running" /\ workload'.status = "completed"
    <2>1. CompletedChunks' = Tasks
      BY <1>4 DEF Delivered, Succeeded, CompletedChunks
    <2> QED  BY <1>4, <2>1 DEF Contract!Next, Contract!Serve, Contract!Deliver
  <1> QED  BY <1>0, <1>1, <1>2, <1>3, <1>4 DEF Conclude, WorkloadState

\* Every step of the dispatch is one of WorkloadContract or invisible in it.
LEMMA ContractStep ==
  ASSUME SimWorkers = {}, ServedInv, Delivered', [DispatchNext]_vars
  PROVE  [Contract!Next]_(Contract!contractVars)
  <1>1. CASE \E h \in checking : AcceptResult(h)
    BY <1>1, AcceptFinishes DEF Contract!Next, Contract!Serve
  <1>2. CASE \A h \in checking : ~AcceptResult(h)
    <2>1. CompletedChunks' = CompletedChunks
      BY <1>2, OthersFinishNothing
    <2>2. CASE Submit
      BY <2>1, <2>2
         DEF Submit, IdleWorkload, Contract!Next, Contract!Serve, Contract!Ask
    <2>3. CASE CrashRestart
      BY <2>1, <2>3 DEF CrashRestart, IdleWorkload, Contract!Next, Contract!Restart
    <2>4. ASSUME NEW c \in Tasks, LoopStep(c)
          PROVE  [Contract!Next]_(Contract!contractVars)
      BY <2>1, <2>4, LoopAnswers
    <2>5. CASE Standstill
      BY <2>1, <2>5, LoopsStand DEF ServedInv, DispatchInv, Contract!contractVars
    <2> QED  BY <2>2, <2>3, <2>4, <2>5 DEF Standstill
  <1> QED  BY <1>1, <1>2

\* The client of a chunked workload gets what WorkloadContract promises, where no
\* worker is simulated: the loops, the pipeline, the recoveries and a crash of
\* Core between any two of their steps look to it like parts that are finished
\* one by one and once, and an answer that counts them (ImplementsContract).
THEOREM DispatchContract ==
  ASSUME SimWorkers = {}
  PROVE  DispatchSpec => ImplementsContract
  <1>1. InitAll => Contract!Init
    BY DEF InitAll, Init, NoRow, DispatchInit, IdleWorkload, Contract!Init, CompletedChunks
  <1>2. ServedInv /\ ServedInv' /\ [DispatchNext]_vars =>
          [Contract!Next]_(Contract!contractVars)
    BY ContractStep DEF ServedInv
  <1> QED
    BY <1>1, <1>2, ServedInvariance, PTL DEF DispatchSpec, ImplementsContract, Contract!Spec

=============================================================================
