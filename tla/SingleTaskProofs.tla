--------------------------- MODULE SingleTaskProofs ---------------------------
(***************************************************************************)
(* Theorems about workloads that are dispatched as one task, for every set *)
(* of tasks (infinite ones included), workers and workload ids.            *)
(***************************************************************************)
EXTENDS SingleTaskContract, TaskStoreProofs, FiniteSetTheorems

\* A request that has been placed, or whose task has been sent, names a worker.
Placed(t) ==
  request[t].pc \in {"send", "await"} \/ work[t].stage # "none"
    => request[t].worker \in Workers

(***************************************************************************)
(* The only execution of a task and its row: it begins after the send, a   *)
(* row is completed by the step that ends it, and success is told of       *)
(* completed rows only.                                                    *)
(***************************************************************************)
Executed(t) ==
  /\ request[t].pc \in {"idle", "place", "send"} => work[t].stage = "none"
  /\ rows[t].status = "COMPLETED" => work[t].stage = "gone"
  /\ request[t].promise = "ok" \/ request[t].answer = "completed"
       => rows[t].status = "COMPLETED"

RequestInv == \A t \in Tasks : Placed(t) /\ Executed(t)

\* The requests that hold a reservation of a worker are finitely many, and
\* counted.
Holders(w) == {t \in Tasks : request[t].pc \in {"send", "await"}
                              /\ request[t].worker = w}

Counted(w) == IsFiniteSet(Holders(w)) /\ reserved[w] = Cardinality(Holders(w))

(***************************************************************************)
(* Only the first entry of a workload id can be shown as RUNNING, which is *)
(* the one recordWorkloadEvent overwrites: the answer takes it back.       *)
(***************************************************************************)
FirstOf(list, i) == \A j \in DOMAIN list : j < i => list[j].name # list[i].name

Awaited(name) == \E t \in Tasks : request[t].name = name /\ request[t].pc = "await"

Shown ==
  \A i \in DOMAIN recent : recent[i].status = "RUNNING" =>
    FirstOf(recent, i) /\ Awaited(recent[i].name)

-----------------------------------------------------------------------------
\* Where the calls of the dispatch code go: steps of the task table.

\* A set of naturals that is not empty has a least element.
LEMMA SmallestIndex ==
  ASSUME NEW S \in SUBSET Nat, S # {}
  PROVE  \E i \in S : \A j \in S : i <= j
  <1> DEFINE F == {1 .. i : i \in S}
  <1>1. F \subseteq FiniteSubsetsOf(Nat) /\ F # {}
    <2>1. ASSUME NEW i \in S  PROVE  1 .. i \in FiniteSubsetsOf(Nat)
      <3>1. IsFiniteSet(1 .. i)  BY FS_Interval
      <3>2. 1 .. i \in SUBSET Nat  OBVIOUS
      <3> QED  BY <3>1, <3>2, Zenon DEF FiniteSubsetsOf
    <2> QED  BY <2>1, Zenon
  <1>2. PICK m \in F : \A y \in F : <<y, m>> \notin StrictSubsetOrdering(Nat)
    BY <1>1, FS_StrictSubsetOrderingWellFounded, WFMin
  <1>3. PICK i \in S : m = 1 .. i
    OBVIOUS
  <1>4. ASSUME NEW j \in S, j < i  PROVE  FALSE
    <2>1. 1 .. j \in F /\ 1 .. j \subseteq 1 .. i /\ 1 .. j # 1 .. i
      <3>1. i \in 1 .. i /\ i \notin 1 .. j
        BY <1>4
      <3> QED  BY <1>4, <3>1
    <2> QED  BY <1>1, <1>2, <1>3, <2>1 DEF StrictSubsetOrdering, FiniteSubsetsOf
  <1> QED  BY <1>4

-----------------------------------------------------------------------------
\* The list of recent workloads.

\* Push puts the entry behind the others, and drops the first of too many.
LEMMA PushShape ==
  ASSUME NEW list \in Seq(Event), Len(list) <= MaxRecent, NEW e \in Event
  PROVE  /\ Push(list, e) \in Seq(Event)
         /\ Len(Push(list, e)) <= MaxRecent
         /\ \E k \in {0, 1} : \A i \in 1 .. Len(Push(list, e)) :
              /\ i + k \in 1 .. Len(list) + 1
              /\ Push(list, e)[i] = IF i + k = Len(list) + 1 THEN e ELSE list[i + k]
  <1> DEFINE longer == Append(list, e)
  <1>1. /\ longer \in Seq(Event) /\ Len(longer) = Len(list) + 1
        /\ \A i \in 1 .. Len(list) + 1 :
             longer[i] = IF i = Len(list) + 1 THEN e ELSE list[i]
    OBVIOUS
  <1>2. Push(list, e) = IF Len(longer) > MaxRecent THEN Tail(longer) ELSE longer
    BY DEF Push
  <1> HIDE DEF longer
  <1>3. CASE Len(longer) > MaxRecent
    <2>1. /\ Push(list, e) = Tail(longer) /\ longer # <<>>
      BY <1>1, <1>2, <1>3
    <2>2. /\ Tail(longer) \in Seq(Event) /\ Len(Tail(longer)) = Len(list)
          /\ \A i \in 1 .. Len(list) : Tail(longer)[i] = longer[i + 1]
      BY <1>1, <2>1
    <2>3. \A i \in 1 .. Len(Push(list, e)) :
            /\ i + 1 \in 1 .. Len(list) + 1
            /\ Push(list, e)[i] = IF i + 1 = Len(list) + 1 THEN e ELSE list[i + 1]
      BY <1>1, <2>1, <2>2
    <2> QED  BY <2>1, <2>2, <2>3
  <1>4. CASE ~ (Len(longer) > MaxRecent)
    <2>1. \A i \in 1 .. Len(Push(list, e)) :
            /\ i + 0 \in 1 .. Len(list) + 1
            /\ Push(list, e)[i] = IF i + 0 = Len(list) + 1 THEN e ELSE list[i + 0]
      BY <1>1, <1>2, <1>4
    <2> QED  BY <1>1, <1>2, <1>4, <2>1, SingleTaskAssumption
  <1> QED  BY <1>3, <1>4

\* What a new entry does to the entries shown as RUNNING.
LEMMA PushKeeps ==
  ASSUME NEW list \in Seq(Event), Len(list) <= MaxRecent, NEW e \in Event,
         \A i \in DOMAIN list : list[i].status = "RUNNING" => FirstOf(list, i),
         e.status = "RUNNING" => \A i \in DOMAIN list : list[i].name # e.name,
         NEW new, new = Push(list, e),
         NEW i \in DOMAIN new, new[i].status = "RUNNING"
  PROVE  FirstOf(new, i) /\ (new[i] = e \/ \E j \in DOMAIN list : new[i] = list[j])
  <1>0. /\ Push(list, e) \in Seq(Event)
        /\ \E k \in {0, 1} : \A j \in 1 .. Len(Push(list, e)) :
              /\ j + k \in 1 .. Len(list) + 1
              /\ Push(list, e)[j] = IF j + k = Len(list) + 1 THEN e ELSE list[j + k]
    BY PushShape
  <1>1. PICK k \in {0, 1} : \A j \in 1 .. Len(new) :
              /\ j + k \in 1 .. Len(list) + 1
              /\ new[j] = IF j + k = Len(list) + 1 THEN e ELSE list[j + k]
    BY <1>0
  <1>2. new \in Seq(Event)
    BY <1>0
  <1>3. /\ DOMAIN new = 1 .. Len(new) /\ Len(new) \in Nat
        /\ DOMAIN list = 1 .. Len(list) /\ Len(list) \in Nat
    BY <1>2
  <1>4. ASSUME NEW j \in DOMAIN new, j < i
        PROVE  j + k \in DOMAIN list /\ j + k < i + k /\ new[j] = list[j + k]
    <2>1. /\ j \in 1 .. Len(new) /\ i \in 1 .. Len(new)
      BY <1>3
    <2>2. /\ i + k \in 1 .. Len(list) + 1 /\ j + k \in 1 .. Len(list) + 1
          /\ new[j] = IF j + k = Len(list) + 1 THEN e ELSE list[j + k]
      BY <1>1, <2>1
    <2>3. j + k # Len(list) + 1 /\ j + k < i + k
      BY <1>3, <1>4, <2>1, <2>2
    <2> QED  BY <1>3, <2>2, <2>3
  <1>5. /\ i + k \in 1 .. Len(list) + 1
        /\ new[i] = IF i + k = Len(list) + 1 THEN e ELSE list[i + k]
    BY <1>1, <1>3
  <1>6. CASE i + k = Len(list) + 1
    <2>1. new[i] = e
      BY <1>5, <1>6
    <2>2. \A j \in DOMAIN new : j < i => new[j].name # e.name
      BY <1>4, <2>1
    <2> QED  BY <2>1, <2>2 DEF FirstOf
  <1>7. CASE i + k # Len(list) + 1
    <2>1. i + k \in DOMAIN list /\ new[i] = list[i + k]
      BY <1>3, <1>5, <1>7
    <2>2. FirstOf(list, i + k)
      BY <2>1
    <2>3. \A j \in DOMAIN new : j < i => new[j].name # new[i].name
      BY <1>4, <2>1, <2>2 DEF FirstOf
    <2> QED  BY <2>1, <2>3 DEF FirstOf
  <1> QED  BY <1>6, <1>7

\* recordWorkloadEvent keeps the list a list, and leaves of the workload it
\* records no entry shown as RUNNING unless it records it as such.
LEMMA RecordKeeps ==
  ASSUME recent \in Seq(Event), Len(recent) <= MaxRecent,
         NEW name \in Names, NEW status \in {"RUNNING", "COMPLETE", "FAILED"},
         RecordEvent(name, status)
  PROVE  /\ recent' \in Seq(Event) /\ Len(recent') <= MaxRecent
         /\ (\A i \in DOMAIN recent : recent[i].status = "RUNNING" => FirstOf(recent, i))
            => \A i \in DOMAIN recent' : recent'[i].status = "RUNNING" =>
                 /\ FirstOf(recent', i)
                 /\ \/ recent'[i].name = name /\ status = "RUNNING"
                    \/ /\ recent'[i].name # name
                       /\ \E j \in DOMAIN recent : recent'[i] = recent[j]
  <1> DEFINE same == {i \in DOMAIN recent : recent[i].name = name}
             e == [name |-> name, status |-> status]
             first == CHOOSE i \in same : \A j \in same : i <= j
  <1>1. e \in Event /\ e.name = name /\ e.status = status
    BY DEF Event
  <1>2. CASE same = {}
    <2>1. recent' = Push(recent, e)
      BY <1>2 DEF RecordEvent
    <2>2. \A i \in DOMAIN recent : recent[i].name # e.name
      BY <1>1, <1>2
    <2> HIDE DEF same, e, first
    <2>3. recent' \in Seq(Event) /\ Len(recent') <= MaxRecent
      BY <1>1, <2>1, PushShape
    <2>4. ASSUME \A i \in DOMAIN recent :
                   recent[i].status = "RUNNING" => FirstOf(recent, i),
                 NEW i \in DOMAIN recent', recent'[i].status = "RUNNING"
          PROVE  /\ FirstOf(recent', i)
                 /\ \/ recent'[i] = e
                    \/ \E j \in DOMAIN recent : recent'[i] = recent[j]
      BY <1>1, <2>1, <2>2, <2>4, PushKeeps
    <2>5. ASSUME \A i \in DOMAIN recent :
                   recent[i].status = "RUNNING" => FirstOf(recent, i),
                 NEW i \in DOMAIN recent', recent'[i].status = "RUNNING"
          PROVE  /\ FirstOf(recent', i)
                 /\ \/ recent'[i].name = name /\ status = "RUNNING"
                    \/ /\ recent'[i].name # name
                       /\ \E j \in DOMAIN recent : recent'[i] = recent[j]
      <3>1. CASE recent'[i] = e
        BY <1>1, <2>4, <2>5, <3>1
      <3>2. CASE \E j \in DOMAIN recent : recent'[i] = recent[j]
        BY <1>1, <2>2, <2>4, <2>5, <3>2
      <3> QED  BY <2>4, <2>5, <3>1, <3>2
    <2> QED  BY <2>3, <2>5
  <1>3. CASE same # {}
    <2>1. recent' = [recent EXCEPT ![first].status = status]
      BY <1>3 DEF RecordEvent
    <2>2. DOMAIN recent = 1 .. Len(recent)
      OBVIOUS
    <2>3. same \in SUBSET Nat
      BY <2>2
    <2>4. \E i \in same : \A j \in same : i <= j
      BY <1>3, <2>3, SmallestIndex
    <2>5. first \in same /\ \A j \in same : first <= j
      BY <2>4
    <2>6. first \in DOMAIN recent /\ recent[first].name = name
      BY <2>5
    <2>7. \A i \in DOMAIN recent : recent[i].name = name => first <= i
      BY <2>5
    <2> HIDE DEF same, e, first
    <2>8. \A i \in DOMAIN recent : i < first => recent[i].name # name
      BY <2>2, <2>6, <2>7
    <2>9. \A i \in DOMAIN recent : recent[i] \in Event
      OBVIOUS
    <2>10. [recent[first] EXCEPT !.status = status] \in Event
      BY <2>6, <2>9 DEF Event
    <2>11. /\ recent' \in Seq(Event) /\ Len(recent') = Len(recent)
           /\ DOMAIN recent' = DOMAIN recent
      BY <2>1, <2>2, <2>6, <2>10
    <2>12. \A i \in DOMAIN recent :
             /\ recent'[i].name = recent[i].name
             /\ i = first => recent'[i].status = status
             /\ i # first => recent'[i] = recent[i]
      BY <2>1, <2>6, <2>9 DEF Event
    <2> QED  BY <2>2, <2>6, <2>7, <2>8, <2>11, <2>12 DEF FirstOf
  <1> QED  BY <1>2, <1>3

-----------------------------------------------------------------------------
\* What the dispatch code does to the table.

\* Each of its steps is one operation of the task table, or none.
LEMMA StoreStep ==
  ASSUME SingleTypeOK, \A t \in Tasks : Placed(t), [SingleNext]_vars
  PROVE  [Next]_storeVars
  <1> USE DEF Next, ClientStep
  <1>1. ASSUME NEW t \in Tasks, Submit(t)  PROVE  Next
    <2>1. CreateTask(t, {}) /\ {} \in SUBSET Tasks
      BY <1>1 DEF Submit
    <2> QED  BY <2>1, Zenon
  <1>2. ASSUME NEW t \in Tasks, NEW w \in Workers, PlaceSingle(t, w)  PROVE  Next
    <2>1. AssignTask(t, w, Timeout) /\ Timeout \in Leases
      BY <1>2, SingleTaskAssumption DEF PlaceSingle
    <2> QED  BY <2>1, Zenon
  <1>3. ASSUME NEW t \in Tasks, NEW x \in BOOLEAN, request[t].worker \in Workers,
               RecordTaskFailure(t, request[t].worker, x)
        PROVE  Next
    BY <1>3, Zenon
  <1>4. ASSUME NEW t \in Tasks, SendFails(t)  PROVE  Next
    <2>1. request[t].worker \in Workers /\ RecordTaskFailure(t, request[t].worker, FALSE)
      BY <1>4 DEF SendFails, Placed
    <2> QED  BY <1>3, <2>1
  <1>5. ASSUME NEW t \in Tasks, SimulationRejects(t)  PROVE  Next
    <2>1. request[t].worker \in Workers /\ RecordTaskFailure(t, request[t].worker, FALSE)
      BY <1>5 DEF SimulationRejects, Placed
    <2> QED  BY <1>3, <2>1
  <1>6. ASSUME NEW t \in Tasks, ProcessResult(t)  PROVE  [Next]_storeVars
    <2>1. request[t].worker \in Workers
      BY <1>6 DEF ProcessResult, Placed
    <2>2. \/ CompleteTask(t)
          \/ RecordTaskFailure(t, request[t].worker, FALSE)
          \/ RecordTaskFailure(t, request[t].worker, TRUE)
          \/ UNCHANGED storeVars
      BY <1>6 DEF ProcessResult
    <2>3. CASE CompleteTask(t)
      BY <2>3, Zenon
    <2> QED  BY <1>3, <2>1, <2>2, <2>3
  <1>7. ASSUME NEW w \in Workers, WorkerLost(w) \/ Telemetry(w)  PROVE  Next
    BY <1>7, Zenon DEF WorkerLost, Telemetry
  <1>8. CASE LeaseWatchdog
    BY <1>8 DEF LeaseWatchdog
  <1>9. CASE TimePasses
    BY <1>9 DEF TimePasses
  <1>10. CASE \/ \E t \in Tasks : \/ NoPlacement(t) \/ SendSingle(t) \/ Resume(t)
                                  \/ TimerFires(t) \/ ReceiveResult(t) \/ WorkLost(t)
              \/ \E name \in Names : CancelSingle(name)
              \/ SetSimulationMode
              \/ \E t \in Tasks, valid \in BOOLEAN :
                   RemoteReplies(t, valid) \/ SimulationAnswers(t, valid)
              \/ \E w \in Workers : ConnectionDrops(w) \/ Reconnect(w)
              \/ UNCHANGED vars
    BY <1>10 DEF NoPlacement, SendSingle, Resume, Answer, TimerFires, ReceiveResult,
                 WorkLost, CancelSingle, SetSimulationMode, RemoteReplies,
                 SimulationAnswers, ConnectionDrops, Reconnect, vars, storeVars
  <1> QED
    BY <1>1, <1>2, <1>4, <1>5, <1>6, <1>7, <1>8, <1>9, <1>10
       DEF SingleNext, RequestStep

\* The rows that are COMPLETED stay so and no others become so.
DoneKept == \A s \in Tasks : rows'[s].status = "COMPLETED" <=> rows[s].status = "COMPLETED"

\* An operation keeps them unless it completes a row, or takes a COMPLETED one
\* back.
LEMMA EffectKeepsDone ==
  ASSUME \A s \in Tasks : \/ Untouched(s) \/ Opened(s)
                          \/ \E w \in Workers : HandedOut(s, w)
                          \/ TakenBack(s) /\ rows[s].status # "COMPLETED"
  PROVE  DoneKept
  BY DEF DoneKept, Untouched, Opened, HandedOut, TakenBack

-----------------------------------------------------------------------------
\* Types.

\* The requests keep their types.
LEMMA RequestType ==
  ASSUME SingleTypeOK, [SingleNext]_vars
  PROVE  request' \in [Tasks -> Request]
  <1>1. request \in [Tasks -> Request]
    BY DEF SingleTypeOK
  <1>2. ASSUME NEW t \in Tasks, NEW r \in Request, request' = [request EXCEPT ![t] = r]
        PROVE  request' \in [Tasks -> Request]
    BY <1>1, <1>2
  <1>3. ASSUME NEW t \in Tasks, NEW outcome \in {"ok", "failed", "timeout"}
        PROVE  Resolved(request[t], outcome) \in Request
    BY <1>1, <1>3 DEF Resolved, Request
  <1>4. ASSUME NEW t \in Tasks, Submit(t) \/ SendSingle(t)
        PROVE  request' \in [Tasks -> Request]
    <2>1. \A p \in {"place", "await"} : [request[t] EXCEPT !.pc = p] \in Request
      BY <1>1 DEF Request
    <2> QED  BY <1>2, <1>4, <2>1 DEF Submit, SendSingle
  <1>5. ASSUME NEW t \in Tasks, NEW w \in Workers, PlaceSingle(t, w)
        PROVE  request' \in [Tasks -> Request]
    <2>1. [request[t] EXCEPT !.pc = "send", !.worker = w, !.timer = Timeout] \in Request
      BY <1>1, SingleTaskAssumption, TaskStoreAssumption DEF Request
    <2> QED  BY <1>1, <1>5, <2>1 DEF PlaceSingle
  <1>6. ASSUME NEW t \in Tasks, NoPlacement(t) \/ SendFails(t) \/ Resume(t)
        PROVE  request' \in [Tasks -> Request]
    <2>1. \A a \in {"completed", "failed"} :
            [request[t] EXCEPT !.pc = "over", !.answer = a] \in Request
      BY <1>1 DEF Request
    <2> QED  BY <1>1, <1>6, <2>1 DEF NoPlacement, SendFails, Resume, Answer
  <1>7. ASSUME NEW t \in Tasks, TimerFires(t)
        PROVE  request' \in [Tasks -> Request]
    BY <1>2, <1>3, <1>7 DEF TimerFires
  <1>8. ASSUME NEW t \in Tasks, ProcessResult(t)
        PROVE  request' \in [Tasks -> Request]
    BY <1>1, <1>2, <1>3, <1>8 DEF ProcessResult, Notify
  <1>9. CASE TimePasses
    <2>1. \A t \in Tasks : [request[t] EXCEPT !.timer =
                              IF request[t].timer > 0 THEN request[t].timer - 1 ELSE 0]
                             \in Request
      BY <1>1 DEF Request
    <2> QED  BY <1>9, <2>1 DEF TimePasses
  <1>10. CASE UNCHANGED request
    BY <1>1, <1>10
  <1> QED
    BY <1>4, <1>5, <1>6, <1>7, <1>8, <1>9, <1>10
       DEF SingleNext, RequestStep, CancelSingle, SetSimulationMode, ReceiveResult,
           SimulationRejects, WorkLost, RemoteReplies, SimulationAnswers,
           ConnectionDrops, WorkerLost, Reconnect, Telemetry, LeaseWatchdog,
           singleVars, vars

\* So do the answers on their way.
LEMMA WorkType ==
  ASSUME SingleTypeOK, [SingleNext]_vars
  PROVE  work' \in [Tasks -> Work]
  <1>1. work \in [Tasks -> Work]
    BY DEF SingleTypeOK
  <1>2. ASSUME NEW t \in Tasks, NEW s \in {"ordered", "checked", "gone"},
               work' = [work EXCEPT ![t].stage = s]
        PROVE  work' \in [Tasks -> Work]
    BY <1>1, <1>2 DEF Work
  <1>3. ASSUME NEW t \in Tasks, NEW s \in {"sent", "checked", "gone"},
               NEW valid \in BOOLEAN,
               work' = [work EXCEPT ![t] = [stage |-> s, valid |-> valid]]
        PROVE  work' \in [Tasks -> Work]
    BY <1>1, <1>3 DEF Work
  <1>4. ASSUME NEW t \in Tasks, \/ SendSingle(t) \/ ReceiveResult(t) \/ ProcessResult(t)
                                \/ SimulationRejects(t) \/ WorkLost(t)
        PROVE  work' \in [Tasks -> Work]
    BY <1>2, <1>4
       DEF SendSingle, ReceiveResult, ProcessResult, SimulationRejects, WorkLost
  <1>5. ASSUME NEW t \in Tasks, NEW valid \in BOOLEAN,
               RemoteReplies(t, valid) \/ SimulationAnswers(t, valid)
        PROVE  work' \in [Tasks -> Work]
    BY <1>3, <1>5 DEF RemoteReplies, SimulationAnswers
  <1>6. CASE UNCHANGED work
    BY <1>1, <1>6
  <1> QED
    BY <1>4, <1>5, <1>6
       DEF SingleNext, RequestStep, Submit, PlaceSingle, NoPlacement, SendFails,
           Resume, Answer, TimerFires, CancelSingle, SetSimulationMode,
           ConnectionDrops, WorkerLost, Reconnect, Telemetry, LeaseWatchdog,
           TimePasses, singleVars, vars

\* So does the list, which its limit keeps short.
LEMMA RecentType ==
  ASSUME SingleTypeOK, [SingleNext]_vars
  PROVE  recent' \in Seq(Event) /\ Len(recent') <= MaxRecent
  <1>1. /\ recent \in Seq(Event) /\ Len(recent) <= MaxRecent
        /\ \A t \in Tasks : request[t].name \in Names
    BY DEF SingleTypeOK, Request
  <1>2. ASSUME NEW t \in Tasks, SendSingle(t) \/ Resume(t)
        PROVE  recent' \in Seq(Event) /\ Len(recent') <= MaxRecent
    BY <1>1, <1>2, RecordKeeps DEF SendSingle, Resume, Answer
  <1>3. ASSUME NEW name \in Names, CancelSingle(name)
        PROVE  recent' \in Seq(Event) /\ Len(recent') <= MaxRecent
    <2>1. [name |-> name, status |-> "FAILED"] \in Event
      BY DEF Event
    <2> QED  BY <1>1, <1>3, <2>1, PushShape DEF CancelSingle
  <1>4. CASE UNCHANGED recent
    BY <1>1, <1>4
  <1> QED
    BY <1>2, <1>3, <1>4
       DEF SingleNext, RequestStep, Submit, PlaceSingle, NoPlacement, SendFails,
           TimerFires, SetSimulationMode, ReceiveResult, ProcessResult,
           SimulationRejects, WorkLost, RemoteReplies, SimulationAnswers,
           ConnectionDrops, WorkerLost, Reconnect, Telemetry, LeaseWatchdog,
           TimePasses, singleVars, vars

\* The type invariant, from its parts.
LEMMA SingleType ==
  ASSUME SingleTypeOK, \A t \in Tasks : Placed(t), [SingleNext]_vars
  PROVE  SingleTypeOK'
  <1>1. TypeOK'
    BY StoreStep, NextType DEF SingleTypeOK
  <1>2. request' \in [Tasks -> Request] /\ work' \in [Tasks -> Work]
    BY RequestType, WorkType
  <1>3. recent' \in Seq(Event) /\ Len(recent') <= MaxRecent
    BY RecentType
  <1>4. /\ listener \subseteq Tasks /\ reserved \in [Workers -> Nat]
        /\ link \in [Workers -> {"open", "closing", "down"}]
        /\ simulated \in BOOLEAN /\ events \in 0 .. MaxEvents
    BY DEF SingleTypeOK
  <1>5. listener' \subseteq Tasks
    BY <1>4
       DEF SingleNext, RequestStep, Submit, PlaceSingle, NoPlacement, SendSingle,
           SendFails, Resume, Answer, TimerFires, CancelSingle, SetSimulationMode,
           ReceiveResult, ProcessResult, Notify, SimulationRejects, WorkLost,
           RemoteReplies, SimulationAnswers, ConnectionDrops, WorkerLost, Reconnect,
           Telemetry, LeaseWatchdog, TimePasses, singleVars, vars
  <1>6. reserved' \in [Workers -> Nat]
    <2>1. ASSUME NEW w, Release(w)  PROVE  reserved' \in [Workers -> Nat]
      <3>1. \A v \in Workers : (IF reserved[v] <= 1 THEN 0 ELSE reserved[v] - 1) \in Nat
        BY <1>4
      <3> QED  BY <1>4, <2>1, <3>1 DEF Release
    <2>2. ASSUME NEW t \in Tasks, NEW w \in Workers, PlaceSingle(t, w)
          PROVE  reserved' \in [Workers -> Nat]
      BY <1>4, <2>2 DEF PlaceSingle
    <2>3. CASE UNCHANGED reserved
      BY <1>4, <2>3
    <2> QED
      BY <2>1, <2>2, <2>3
         DEF SingleNext, RequestStep, Submit, NoPlacement, SendSingle,
             SendFails, Resume, Answer, TimerFires, CancelSingle,
             SetSimulationMode, ReceiveResult, ProcessResult, SimulationRejects,
             WorkLost, RemoteReplies, SimulationAnswers, ConnectionDrops, WorkerLost,
             Reconnect, Telemetry, LeaseWatchdog, TimePasses, singleVars, vars
  <1>7. /\ link' \in [Workers -> {"open", "closing", "down"}]
        /\ simulated' \in BOOLEAN /\ events' \in 0 .. MaxEvents
    <2>1. CASE UNCHANGED environment
      BY <1>4, <2>1 DEF environment
    <2>2. CASE \/ SetSimulationMode
               \/ \E name \in Names : CancelSingle(name)
               \/ \E w \in Workers : ConnectionDrops(w)
      <3>1. events < MaxEvents /\ events' = events + 1
        BY <2>2 DEF SetSimulationMode, CancelSingle, ConnectionDrops
      <3>2. events' \in 0 .. MaxEvents
        BY <1>4, <3>1, SingleTaskAssumption
      <3>3. /\ link' \in [Workers -> {"open", "closing", "down"}]
            /\ simulated' \in BOOLEAN
        BY <1>4, <2>2 DEF SetSimulationMode, CancelSingle, ConnectionDrops
      <3> QED  BY <3>2, <3>3
    <2>3. CASE \E w \in Workers : WorkerLost(w) \/ Reconnect(w)
      BY <1>4, <2>3 DEF WorkerLost, Reconnect
    <2>4. ASSUME NEW t \in Tasks, ProcessResult(t)
          PROVE  UNCHANGED environment
      BY <2>4 DEF ProcessResult
    <2> QED
      BY <2>1, <2>2, <2>3, <2>4
         DEF SingleNext, RequestStep, Submit, PlaceSingle, NoPlacement, SendSingle,
             SendFails, Resume, Answer, TimerFires, ReceiveResult,
             SimulationRejects, WorkLost, RemoteReplies, SimulationAnswers,
             Telemetry, LeaseWatchdog, TimePasses, environment, singleVars, vars
  <1> QED  BY <1>1, <1>2, <1>3, <1>5, <1>6, <1>7 DEF SingleTypeOK

-----------------------------------------------------------------------------
\* Requests, executions and rows.

\* A row becomes COMPLETED only as its result is processed, and stays so.
LEMMA StepDone ==
  ASSUME SingleTypeOK, IInv, RequestInv, [SingleNext]_vars
  PROVE  DoneKept \/ \E t \in Tasks : ProcessResult(t) /\ CompleteTask(t)
  <1>1. TypeOK
    BY DEF SingleTypeOK
  <1>2. ASSUME NEW t \in Tasks, NEW x \in BOOLEAN, request[t].worker \in Workers,
               rows[t].status # "COMPLETED",
               RecordTaskFailure(t, request[t].worker, x)
        PROVE  DoneKept
    <2>1. TakenBack(t) /\ OthersUntouched(t)
      BY <1>1, <1>2, FailureEffect
    <2> QED  BY <1>2, <2>1, EffectKeepsDone DEF OthersUntouched
  <1>3. ASSUME NEW t \in Tasks, SendFails(t) \/ SimulationRejects(t)
        PROVE  DoneKept
    <2>1. /\ request[t].worker \in Workers /\ rows[t].status # "COMPLETED"
          /\ RecordTaskFailure(t, request[t].worker, FALSE)
      BY <1>3 DEF SendFails, SimulationRejects, RequestInv, Placed, Executed
    <2> QED  BY <1>2, <2>1
  <1>4. ASSUME UNCHANGED storeVars  PROVE  DoneKept
    BY <1>4 DEF storeVars, DoneKept
  <1>5. ASSUME NEW t \in Tasks, ProcessResult(t)
        PROVE  DoneKept \/ CompleteTask(t)
    <2>1. request[t].worker \in Workers /\ rows[t].status # "COMPLETED"
      BY <1>5 DEF ProcessResult, RequestInv, Placed, Executed
    <2> QED  BY <1>2, <1>4, <1>5, <2>1 DEF ProcessResult
  <1>6. CASE LeaseWatchdog \/ \E w \in Workers : WorkerLost(w)
    <2>1. ASSUME NEW S, ReclaimAll(S), \A s \in S : InFlight(s)  PROVE  DoneKept
      <3>1. \A s \in Tasks : Untouched(s) \/ (TakenBack(s) /\ InFlight(s))
        BY <1>1, <2>1, ReclaimEffect
      <3> QED  BY <3>1, EffectKeepsDone DEF InFlight, InFlightStatus
    <2>2. CASE LeaseWatchdog
      BY <2>1, <2>2 DEF LeaseWatchdog, RecoverExpiredLeases, Expired
    <2>3. ASSUME NEW w \in Workers, WorkerLost(w)  PROVE  DoneKept
      BY <2>1, <2>3 DEF WorkerLost, RecoverWorkerLoss
    <2> QED  BY <1>6, <2>2, <2>3
  <1>7. CASE TimePasses \/ \E w \in Workers : Telemetry(w)
    <2>1. \A s \in Tasks : Untouched(s)
      BY <1>1, <1>7, ClockEffect DEF TimePasses, Telemetry
    <2> QED  BY <2>1, EffectKeepsDone
  <1>8. ASSUME NEW t \in Tasks, Submit(t)  PROVE  DoneKept
    <2>1. Opened(t) /\ OthersUntouched(t)
      BY <1>8, OpenEffect DEF Submit
    <2> QED  BY <2>1, EffectKeepsDone DEF OthersUntouched
  <1>9. ASSUME NEW t \in Tasks, NEW w \in Workers, PlaceSingle(t, w)
        PROVE  DoneKept
    <2>1. HandedOut(t, w) /\ OthersUntouched(t)
      BY <1>1, <1>9, SingleTaskAssumption, HandOutEffect DEF PlaceSingle
    <2> QED  BY <2>1, EffectKeepsDone DEF OthersUntouched
  <1> QED
    BY <1>3, <1>4, <1>5, <1>6, <1>7, <1>8, <1>9
       DEF SingleNext, RequestStep, NoPlacement, SendSingle, Resume, Answer,
           TimerFires, CancelSingle, SetSimulationMode, ReceiveResult, WorkLost,
           RemoteReplies, SimulationAnswers, ConnectionDrops, Reconnect, vars,
           storeVars

\* What resolving a promise changes.
LEMMA ResolvedFields ==
  ASSUME NEW r \in Request, NEW outcome \in {"ok", "failed", "timeout"}
  PROVE  LET q == Resolved(r, outcome) IN
         /\ q.pc = r.pc /\ q.name = r.name /\ q.worker = r.worker
         /\ q.answer = r.answer
         /\ q.promise \in {r.promise, outcome}
  BY DEF Resolved, Request

\* Every step keeps each request in line with its row.
LEMMA RequestInvStep ==
  ASSUME SingleTypeOK, IInv, RequestInv, [SingleNext]_vars
  PROVE  RequestInv'
  <1>0. /\ request \in [Tasks -> Request] /\ work \in [Tasks -> Work]
        /\ rows \in [Tasks -> Row]
    BY DEF SingleTypeOK, TypeOK
  <1> SUFFICES ASSUME NEW s \in Tasks  PROVE  Placed(s)' /\ Executed(s)'
    BY DEF RequestInv
  <1>1. Placed(s) /\ Executed(s)
    BY DEF RequestInv
  \* A step that changes neither the request nor the execution.
  <1>2. ASSUME DoneKept, request'[s] = request[s], work'[s] = work[s]
        PROVE  Placed(s)' /\ Executed(s)'
    BY <1>1, <1>2 DEF DoneKept, Placed, Executed
  <1>3. ASSUME NEW t \in Tasks, Submit(t), DoneKept
        PROVE  Placed(s)' /\ Executed(s)'
    BY <1>0, <1>1, <1>3 DEF Submit, DoneKept, Placed, Executed, Request
  <1>4. ASSUME NEW t \in Tasks, NEW w \in Workers, PlaceSingle(t, w), DoneKept
        PROVE  Placed(s)' /\ Executed(s)'
    BY <1>0, <1>1, <1>4 DEF PlaceSingle, DoneKept, Placed, Executed, Request
  <1>5. ASSUME NEW t \in Tasks, NoPlacement(t) \/ SendFails(t), DoneKept
        PROVE  Placed(s)' /\ Executed(s)'
    <2>1. CASE NoPlacement(t)
      BY <1>0, <1>1, <1>5, <2>1 DEF NoPlacement, DoneKept, Placed, Executed, Request
    <2>2. CASE SendFails(t)
      BY <1>0, <1>1, <1>5, <2>2 DEF SendFails, DoneKept, Placed, Executed, Request
    <2> QED  BY <1>5, <2>1, <2>2
  <1>6. ASSUME NEW t \in Tasks, SendSingle(t), DoneKept
        PROVE  Placed(s)' /\ Executed(s)'
    BY <1>0, <1>1, <1>6 DEF SendSingle, DoneKept, Placed, Executed, Request, Work
  <1>7. ASSUME NEW t \in Tasks, Resume(t), DoneKept
        PROVE  Placed(s)' /\ Executed(s)'
    BY <1>0, <1>1, <1>7 DEF Resume, Answer, Settled, DoneKept, Placed, Executed, Request
  <1>8. ASSUME NEW t \in Tasks, TimerFires(t), DoneKept
        PROVE  Placed(s)' /\ Executed(s)'
    <2>1. request' = [request EXCEPT ![t] = Resolved(request[t], "timeout")]
      BY <1>8 DEF TimerFires
    <2>2. work' = work /\ \A u \in Tasks \ {t} : request'[u] = request[u]
      BY <1>0, <1>8 DEF TimerFires
    <2>3. request'[t] = Resolved(request[t], "timeout") /\ request[t] \in Request
      BY <1>0, <2>1
    <2>4. CASE s = t
      <3> DEFINE q == Resolved(request[t], "timeout")
      <3>1. /\ q.pc = request[t].pc /\ q.worker = request[t].worker
            /\ q.answer = request[t].answer
            /\ q.promise \in {request[t].promise, "timeout"}
        BY <2>3, ResolvedFields
      <3>2. request'[s] = q
        BY <2>3, <2>4
      <3> HIDE DEF q
      <3> QED  BY <1>1, <1>8, <2>2, <2>4, <3>1, <3>2 DEF DoneKept, Placed, Executed
    <2> QED  BY <1>2, <1>8, <2>2, <2>4
  <1>9. ASSUME NEW t \in Tasks, DoneKept,
               \/ ReceiveResult(t) \/ SimulationRejects(t) \/ WorkLost(t)
               \/ \E valid \in BOOLEAN : RemoteReplies(t, valid)
               \/ \E valid \in BOOLEAN : SimulationAnswers(t, valid)
        PROVE  Placed(s)' /\ Executed(s)'
    <2>1. request' = request /\ work[t].stage \in {"ordered", "sent"}
      BY <1>9 DEF ReceiveResult, SimulationRejects, WorkLost, RemoteReplies,
                  SimulationAnswers
    <2>2. \/ \E stage \in {"checked", "gone"} : work' = [work EXCEPT ![t].stage = stage]
          \/ \E stage \in {"sent", "checked", "gone"}, valid \in BOOLEAN :
               work' = [work EXCEPT ![t] = [stage |-> stage, valid |-> valid]]
      BY <1>9 DEF ReceiveResult, SimulationRejects, WorkLost, RemoteReplies,
                  SimulationAnswers
    <2>3. /\ work'[t].stage \in {"sent", "checked", "gone"}
          /\ \A u \in Tasks \ {t} : work'[u] = work[u]
      BY <1>0, <2>2 DEF Work
    <2> QED  BY <1>1, <1>9, <2>1, <2>3 DEF DoneKept, Placed, Executed
  <1>10. ASSUME NEW t \in Tasks, ProcessResult(t), DoneKept \/ CompleteTask(t)
         PROVE  Placed(s)' /\ Executed(s)'
    <2>1. /\ work[t].stage = "checked" /\ work'[t].stage = "gone"
          /\ \A u \in Tasks \ {t} : work'[u] = work[u]
      BY <1>0, <1>10 DEF ProcessResult, Work
    <2>2. /\ \A u \in Tasks \ {t} : request'[u] = request[u]
          /\ \/ request'[t] = request[t] \/ request'[t] = Resolved(request[t], "failed")
             \/ CompleteTask(t) /\ request'[t] = Resolved(request[t], "ok")
      BY <1>0, <1>10 DEF ProcessResult, Notify
    <2>3. CASE CompleteTask(t)
      <3>1. /\ rows'[t].status = "COMPLETED"
            /\ \A u \in Tasks \ {t} : rows'[u] = rows[u]
        BY <1>0, <2>3 DEF CompleteTask, Row
      <3> QED  BY <1>0, <1>1, <2>1, <2>2, <3>1, ResolvedFields DEF Placed, Executed
    <2>4. CASE DoneKept /\ ~CompleteTask(t)
      BY <1>0, <1>1, <2>1, <2>2, <2>4, ResolvedFields DEF DoneKept, Placed, Executed
    <2> QED  BY <1>10, <2>3, <2>4
  <1>11. CASE TimePasses /\ DoneKept
    <2>1. /\ work' = work
          /\ request'[s] = [request[s] EXCEPT !.timer =
                              IF request[s].timer > 0 THEN request[s].timer - 1 ELSE 0]
      BY <1>11 DEF TimePasses
    <2> QED  BY <1>0, <1>1, <1>11, <2>1 DEF DoneKept, Placed, Executed, Request
  <1>12. CASE /\ DoneKept
              /\ \/ \E name \in Names : CancelSingle(name)
                 \/ SetSimulationMode
                 \/ \E w \in Workers : \/ ConnectionDrops(w) \/ WorkerLost(w)
                                       \/ Reconnect(w) \/ Telemetry(w)
                 \/ LeaseWatchdog
                 \/ UNCHANGED vars
    BY <1>2, <1>12
       DEF CancelSingle, SetSimulationMode, ConnectionDrops, WorkerLost, Reconnect,
           Telemetry, LeaseWatchdog, singleVars, vars
  <1>13. ASSUME NEW t \in Tasks, ProcessResult(t)
         PROVE  Placed(s)' /\ Executed(s)'
    <2>1. DoneKept \/ \E u \in Tasks : ProcessResult(u) /\ CompleteTask(u)
      BY StepDone
    <2> QED  BY <1>10, <1>13, <2>1
  <1>14. CASE ~ \E t \in Tasks : ProcessResult(t)
    <2>1. DoneKept
      BY <1>14, StepDone
    <2> QED
      BY <1>3, <1>4, <1>5, <1>6, <1>7, <1>8, <1>9, <1>11, <1>12, <1>14, <2>1
         DEF SingleNext, RequestStep
  <1> QED  BY <1>13, <1>14

-----------------------------------------------------------------------------
\* Reservations.

\* A step that moves no request into or out of the window leaves the count.
LEMMA SameHolders ==
  ASSUME NEW w \in Workers, Counted(w), reserved'[w] = reserved[w],
         \A t \in Tasks : t \in Holders(w)' <=> t \in Holders(w)
  PROVE  Counted(w)'
  <1>1. Holders(w)' = Holders(w)
    BY DEF Holders
  <1> QED  BY <1>1 DEF Counted

\* The request that leaves the window gives its own reservation back.
LEMMA ReleaseCounts ==
  ASSUME SingleTypeOK, \A w \in Workers : Counted(w), NEW t \in Tasks,
         t \in Holders(request[t].worker), request[t].worker \in Workers,
         NEW a, request' = [request EXCEPT ![t].pc = "over", ![t].answer = a],
         Release(request[t].worker), NEW w \in Workers
  PROVE  Counted(w)'
  <1> DEFINE v == request[t].worker
  <1>1. request \in [Tasks -> Request] /\ reserved \in [Workers -> Nat]
    BY DEF SingleTypeOK
  <1>2. /\ request'[t].pc = "over"
        /\ \A u \in Tasks \ {t} : request'[u] = request[u]
    BY <1>1 DEF Request
  <1>3. CASE w # v
    <2>1. \A u \in Tasks : u \in Holders(w)' <=> u \in Holders(w)
      BY <1>2, <1>3 DEF Holders
    <2>2. reserved'[w] = reserved[w]
      BY <1>1, <1>3 DEF Release
    <2> QED  BY <2>1, <2>2, SameHolders
  <1>4. CASE w = v
    <2>1. Holders(w)' = Holders(w) \ {t}
      BY <1>2 DEF Holders
    <2>2. IsFiniteSet(Holders(w)) /\ reserved[w] = Cardinality(Holders(w))
      BY DEF Counted
    <2>3. /\ IsFiniteSet(Holders(w) \ {t})
          /\ Cardinality(Holders(w) \ {t}) = Cardinality(Holders(w)) - 1
      BY <1>4, <2>2, FS_RemoveElement
    <2>4. Cardinality(Holders(w) \ {t}) \in Nat
      BY <2>3, FS_CardinalityType
    <2>5. reserved'[w] = IF reserved[w] <= 1 THEN 0 ELSE reserved[w] - 1
      BY <1>1, <1>4 DEF Release
    <2>6. reserved'[w] = Cardinality(Holders(w) \ {t})
      BY <1>1, <2>2, <2>3, <2>4, <2>5
    <2> QED  BY <2>1, <2>3, <2>6 DEF Counted
  <1> QED  BY <1>3, <1>4

\* Every step keeps the reservations counted.
LEMMA CountedStep ==
  ASSUME SingleTypeOK, RequestInv, \A w \in Workers : Counted(w), [SingleNext]_vars
  PROVE  \A w \in Workers : Counted(w)'
  <1> SUFFICES ASSUME NEW w \in Workers  PROVE  Counted(w)'
    OBVIOUS
  <1>1. request \in [Tasks -> Request] /\ reserved \in [Workers -> Nat]
    BY DEF SingleTypeOK
  <1>2. ASSUME NEW t \in Tasks, NEW v \in Workers, PlaceSingle(t, v)
        PROVE  Counted(w)'
    <2>1. /\ request[t].pc = "place" /\ request'[t].pc = "send" /\ request'[t].worker = v
          /\ \A u \in Tasks \ {t} : request'[u] = request[u]
      BY <1>1, <1>2 DEF PlaceSingle, Request
    <2>2. t \notin Holders(w)
      BY <2>1 DEF Holders
    <2>3. CASE w # v
      <3>1. \A u \in Tasks : u \in Holders(w)' <=> u \in Holders(w)
        BY <2>1, <2>3 DEF Holders
      <3>2. reserved'[w] = reserved[w]
        BY <1>1, <1>2, <2>3 DEF PlaceSingle
      <3> QED  BY <3>1, <3>2, SameHolders
    <2>4. CASE w = v
      <3>1. Holders(w)' = Holders(w) \cup {t}
        BY <2>1, <2>4 DEF Holders
      <3>2. IsFiniteSet(Holders(w)) /\ reserved[w] = Cardinality(Holders(w))
        BY DEF Counted
      <3>3. /\ IsFiniteSet(Holders(w) \cup {t})
            /\ Cardinality(Holders(w) \cup {t}) = Cardinality(Holders(w)) + 1
        BY <2>2, <3>2, FS_AddElement
      <3>4. reserved'[w] = reserved[w] + 1
        BY <1>1, <1>2, <2>4 DEF PlaceSingle
      <3> QED  BY <3>1, <3>2, <3>3, <3>4 DEF Counted
    <2> QED  BY <2>3, <2>4
  <1>3. ASSUME NEW t \in Tasks, SendFails(t)  PROVE  Counted(w)'
    <2>1. t \in Holders(request[t].worker) /\ request[t].worker \in Workers
      BY <1>3 DEF SendFails, Holders, RequestInv, Placed
    <2> QED  BY <1>3, <2>1, ReleaseCounts DEF SendFails
  <1>4. ASSUME NEW t \in Tasks, Resume(t)  PROVE  Counted(w)'
    <2>1. t \in Holders(request[t].worker) /\ request[t].worker \in Workers
      BY <1>4 DEF Resume, Settled, Holders, RequestInv, Placed
    <2> QED  BY <1>4, <2>1, ReleaseCounts DEF Resume, Answer
  <1>5. ASSUME reserved' = reserved,
               \A t \in Tasks :
                 /\ request'[t].pc \in {"send", "await"} <=> request[t].pc \in {"send", "await"}
                 /\ request'[t].worker = request[t].worker
        PROVE  Counted(w)'
    BY <1>5, SameHolders DEF Holders
  <1>6. ASSUME NEW t \in Tasks, Submit(t) \/ NoPlacement(t) \/ SendSingle(t)
        PROVE  Counted(w)'
    <2>1. /\ reserved' = reserved
          /\ \A u \in Tasks \ {t} : request'[u] = request[u]
          /\ request'[t].worker = request[t].worker
          /\ \/ request[t].pc = "idle" /\ request'[t].pc = "place"
             \/ request[t].pc = "place" /\ request'[t].pc = "over"
             \/ request[t].pc = "send" /\ request'[t].pc = "await"
      BY <1>1, <1>6 DEF Submit, NoPlacement, SendSingle, Request
    <2>2. request'[t].pc \in {"send", "await"} <=> request[t].pc \in {"send", "await"}
      BY <2>1
    <2> QED  BY <1>5, <2>1, <2>2
  <1>7. ASSUME NEW t \in Tasks, TimerFires(t) \/ ProcessResult(t)
        PROVE  Counted(w)'
    <2>1. /\ reserved' = reserved
          /\ \/ request' = request
             \/ \E outcome \in {"ok", "failed", "timeout"} :
                  request' = [request EXCEPT ![t] = Resolved(request[t], outcome)]
      BY <1>7 DEF TimerFires, ProcessResult, Notify
    <2>2. \A u \in Tasks : /\ request'[u].pc = request[u].pc
                           /\ request'[u].worker = request[u].worker
      BY <1>1, <2>1, ResolvedFields
    <2> QED  BY <1>5, <2>1, <2>2
  <1>8. CASE TimePasses
    <2>1. \A u \in Tasks : /\ request'[u].pc = request[u].pc
                           /\ request'[u].worker = request[u].worker
      BY <1>1, <1>8 DEF TimePasses, Request
    <2> QED  BY <1>5, <1>8, <2>1 DEF TimePasses
  <1>9. CASE UNCHANGED <<request, reserved>>
    BY <1>5, <1>9
  <1> QED
    BY <1>2, <1>3, <1>4, <1>6, <1>7, <1>8, <1>9
       DEF SingleNext, RequestStep, CancelSingle, SetSimulationMode, ReceiveResult,
           SimulationRejects, WorkLost, RemoteReplies, SimulationAnswers,
           ConnectionDrops, WorkerLost, Reconnect, Telemetry, LeaseWatchdog,
           singleVars, vars

-----------------------------------------------------------------------------
\* The list that clients see.

\* Every step keeps what is shown as running awaited.
LEMMA ShownStep ==
  ASSUME SingleTypeOK, Shown, [SingleNext]_vars
  PROVE  Shown'
  <1>1. /\ request \in [Tasks -> Request]
        /\ recent \in Seq(Event) /\ Len(recent) <= MaxRecent
    BY DEF SingleTypeOK
  <1>2. \A i \in DOMAIN recent : recent[i].status = "RUNNING" => FirstOf(recent, i)
    BY DEF Shown
  \* A request that waits goes on waiting.
  <1>3. ASSUME recent' = recent,
               \A t \in Tasks : /\ request'[t].name = request[t].name
                                /\ request[t].pc = "await" => request'[t].pc = "await"
        PROVE  Shown'
    BY <1>3 DEF Shown, Awaited, FirstOf
  <1>4. ASSUME NEW t \in Tasks, SendSingle(t)  PROVE  Shown'
    <2>1. /\ request[t].name \in Names /\ RecordEvent(request[t].name, "RUNNING")
          /\ request'[t].name = request[t].name /\ request'[t].pc = "await"
          /\ \A u \in Tasks \ {t} : request'[u] = request[u]
      BY <1>1, <1>4 DEF SendSingle, Request
    <2>2. \A i \in DOMAIN recent' : recent'[i].status = "RUNNING" =>
            /\ FirstOf(recent', i)
            /\ \/ recent'[i].name = request[t].name
               \/ \E j \in DOMAIN recent : recent'[i] = recent[j]
      BY <1>1, <1>2, <2>1, RecordKeeps
    <2>3. \A name : name = request[t].name \/ Awaited(name) => Awaited(name)'
      BY <2>1 DEF Awaited
    <2> QED  BY <2>2, <2>3 DEF Shown, FirstOf
  <1>5. ASSUME NEW t \in Tasks, Resume(t)  PROVE  Shown'
    <2>1. \E status \in {"COMPLETE", "FAILED"}, outcome \in {"completed", "failed"} :
            Answer(t, outcome, status)
      BY <1>5 DEF Resume
    <2>2. PICK status \in {"COMPLETE", "FAILED"} : RecordEvent(request[t].name, status)
      BY <2>1 DEF Answer
    <2>3. /\ request[t].name \in Names
          /\ \A u \in Tasks \ {t} : request'[u] = request[u]
      BY <1>1, <2>1 DEF Answer, Request
    <2>4. \A i \in DOMAIN recent' : recent'[i].status = "RUNNING" =>
            /\ FirstOf(recent', i)
            /\ recent'[i].name # request[t].name
            /\ \E j \in DOMAIN recent : recent'[i] = recent[j]
      BY <1>1, <1>2, <2>2, <2>3, RecordKeeps
    <2>5. \A name : name # request[t].name /\ Awaited(name) => Awaited(name)'
      BY <2>3 DEF Awaited
    <2> QED  BY <2>4, <2>5 DEF Shown, FirstOf
  <1>6. ASSUME NEW name \in Names, CancelSingle(name)  PROVE  Shown'
    <2> DEFINE e == [name |-> name, status |-> "FAILED"]
    <2>1. e \in Event /\ e.status # "RUNNING" /\ recent' = Push(recent, e)
      BY <1>6 DEF Event, CancelSingle
    <2> HIDE DEF e
    <2>2. ASSUME NEW i \in DOMAIN recent', recent'[i].status = "RUNNING"
          PROVE  FirstOf(recent', i) /\ \E j \in DOMAIN recent : recent'[i] = recent[j]
      <3>1. FirstOf(recent', i) /\ (recent'[i] = e \/ \E j \in DOMAIN recent :
                                                        recent'[i] = recent[j])
        BY <1>1, <1>2, <2>1, <2>2, PushKeeps
      <3> QED  BY <2>1, <2>2, <3>1
    <2>3. request' = request
      BY <1>6 DEF CancelSingle
    <2> QED  BY <2>2, <2>3 DEF Shown, Awaited, FirstOf
  <1>7. ASSUME NEW t \in Tasks, Submit(t) \/ NoPlacement(t) \/ SendFails(t)
        PROVE  Shown'
    <2>1. /\ recent' = recent /\ request[t].pc # "await"
          /\ request'[t].name = request[t].name
          /\ \A u \in Tasks \ {t} : request'[u] = request[u]
      BY <1>1, <1>7 DEF Submit, NoPlacement, SendFails, Request
    <2> QED  BY <1>3, <2>1
  <1>8. ASSUME NEW t \in Tasks, NEW w \in Workers, PlaceSingle(t, w)
        PROVE  Shown'
    <2>1. /\ recent' = recent /\ request[t].pc # "await"
          /\ request'[t].name = request[t].name
          /\ \A u \in Tasks \ {t} : request'[u] = request[u]
      BY <1>1, <1>8 DEF PlaceSingle, Request
    <2> QED  BY <1>3, <2>1
  <1>9. ASSUME NEW t \in Tasks, TimerFires(t) \/ ProcessResult(t)
        PROVE  Shown'
    <2>1. /\ recent' = recent
          /\ \/ request' = request
             \/ \E outcome \in {"ok", "failed", "timeout"} :
                  request' = [request EXCEPT ![t] = Resolved(request[t], outcome)]
      BY <1>9 DEF TimerFires, ProcessResult, Notify
    <2>2. \A u \in Tasks : /\ request'[u].pc = request[u].pc
                           /\ request'[u].name = request[u].name
      BY <1>1, <2>1, ResolvedFields
    <2> QED  BY <1>3, <2>1, <2>2
  <1>10. CASE TimePasses
    <2>1. \A u \in Tasks : /\ request'[u].pc = request[u].pc
                           /\ request'[u].name = request[u].name
      BY <1>1, <1>10 DEF TimePasses, Request
    <2> QED  BY <1>3, <1>10, <2>1 DEF TimePasses
  <1>11. CASE UNCHANGED <<request, recent>>
    BY <1>3, <1>11
  <1> QED
    BY <1>4, <1>5, <1>6, <1>7, <1>8, <1>9, <1>10, <1>11
       DEF SingleNext, RequestStep, SetSimulationMode, ReceiveResult,
           SimulationRejects, WorkLost, RemoteReplies, SimulationAnswers,
           ConnectionDrops, WorkerLost, Reconnect, Telemetry, LeaseWatchdog,
           singleVars, vars

-----------------------------------------------------------------------------
\* The theorems.

SingleInv ==
  /\ SingleTypeOK
  /\ IInv
  /\ RequestInv
  /\ \A w \in Workers : Counted(w)
  /\ Shown

\* The invariant holds when Core starts.
LEMMA SingleInitInv == InitAll => SingleInv
  <1> SUFFICES ASSUME InitAll  PROVE  SingleInv
    OBVIOUS
  <1>0. IInv
    BY InitInv DEF InitAll
  <1>1. \A t \in Tasks : /\ request[t] \in Request
                         /\ request[t].pc = "idle" /\ request[t].promise = "pending"
                         /\ request[t].answer = "none"
    BY DEF InitAll, SingleInit, Request
  <1>2. SingleTypeOK
    <2>1. TypeOK
      BY <1>0 DEF IInv
    <2>2. request \in [Tasks -> Request]
      BY <1>1 DEF InitAll, SingleInit
    <2>3. recent \in Seq(Event) /\ Len(recent) <= MaxRecent
      BY SingleTaskAssumption DEF InitAll, SingleInit
    <2> QED
      BY <2>1, <2>2, <2>3, SingleTaskAssumption
         DEF SingleTypeOK, InitAll, SingleInit, Work
  <1>3. RequestInv
    BY <1>1 DEF InitAll, SingleInit, Init, NoRow, RequestInv, Placed, Executed
  <1>4. \A w \in Workers : Counted(w)
    <2> TAKE w \in Workers
    <2>1. Holders(w) = {} /\ reserved[w] = 0
      BY <1>1 DEF Holders, InitAll, SingleInit
    <2> QED  BY <2>1, FS_EmptySet DEF Counted
  <1>5. Shown
    BY DEF Shown, InitAll, SingleInit
  <1> QED  BY <1>0, <1>2, <1>3, <1>4, <1>5 DEF SingleInv

\* Every step keeps the inductive invariant.
LEMMA SingleStep ==
  ASSUME SingleInv, [SingleNext]_vars
  PROVE  SingleInv'
  <1>1. SingleTypeOK'
    BY SingleType DEF SingleInv, RequestInv
  <1>0. IInv'
    BY StoreStep, NextInv DEF SingleInv, RequestInv
  <1>2. RequestInv'
    BY RequestInvStep DEF SingleInv
  <1>3. (\A w \in Workers : Counted(w))'
    BY CountedStep DEF SingleInv
  <1>4. Shown'
    BY ShownStep DEF SingleInv
  <1> QED  BY <1>0, <1>1, <1>2, <1>3, <1>4 DEF SingleInv

\* The inductive invariant of the single-task path.
THEOREM SingleInvariance == SingleSpec => []SingleInv
  <1>1. SingleInv /\ [SingleNext]_vars => SingleInv'
    BY SingleStep
  <1> QED  BY <1>1, SingleInitInv, PTL DEF SingleSpec

\* Whatever clients, workers, connections and timers do, the state of the
\* single-task path is well typed and its list never longer than its limit
\* (SingleTypeOK).
THEOREM SingleTypeTheorem == SingleSpec => []SingleTypeOK
  <1>1. SingleInv => SingleTypeOK
    BY DEF SingleInv
  <1> QED  BY <1>1, SingleInvariance, PTL

\* The single-task path uses the task table by its operations only, one at a
\* time: what is proved of the table is true of it (Spec).
THEOREM SingleUsesTable == SingleSpec => Spec
  <1>1. InitAll => Init
    BY DEF InitAll
  <1>2. SingleInv /\ [SingleNext]_vars => [Next]_storeVars
    BY StoreStep DEF SingleInv, RequestInv
  <1> QED  BY <1>1, <1>2, SingleInvariance, PTL DEF SingleSpec, Spec

\* So ownership of its tasks is fenced by attempt numbers, and a worker's late
\* answer is told from the owner's (ImplementsFence).
THEOREM SingleFence == SingleSpec => ImplementsFence
  BY SingleUsesTable, FenceRefinement, PTL

\* The queue estimate of the decision engine never drifts: a worker's count is
\* the number of requests between assignTask and their answer
\* (ReservationsBalanced).
THEOREM SingleReservations == SingleSpec => []ReservationsBalanced
  <1>1. SingleInv => ReservationsBalanced
    BY DEF SingleInv, Counted, Holders, ReservationsBalanced
  <1> QED  BY <1>1, SingleInvariance, PTL

\* Who was told COMPLETED has a COMPLETED row behind it
\* (CompletedAnswerStands).
THEOREM SingleCompleted == SingleSpec => []CompletedAnswerStands
  <1>1. SingleInv => CompletedAnswerStands
    BY DEF SingleInv, RequestInv, Executed, CompletedAnswerStands
  <1> QED  BY <1>1, SingleInvariance, PTL

\* No step takes a COMPLETED row back: recordTaskFailure, which would, is not
\* called for one.
THEOREM SingleCompletedStays ==
  SingleSpec => [][\A t \in Tasks : rows[t].status = "COMPLETED"
                                      => rows'[t].status = "COMPLETED"]_vars
  <1>1. SingleInv /\ [SingleNext]_vars =>
          \A t \in Tasks : rows[t].status = "COMPLETED" => rows'[t].status = "COMPLETED"
    <2> SUFFICES ASSUME SingleInv, [SingleNext]_vars, NEW t \in Tasks,
                        rows[t].status = "COMPLETED"
                 PROVE  rows'[t].status = "COMPLETED"
      OBVIOUS
    <2>1. DoneKept \/ \E u \in Tasks : CompleteTask(u)
      BY StepDone DEF SingleInv
    <2>2. ASSUME NEW u \in Tasks, CompleteTask(u)
          PROVE  rows'[t].status = "COMPLETED"
      BY <2>2 DEF CompleteTask, SingleInv, SingleTypeOK, TypeOK, Row
    <2> QED  BY <2>1, <2>2 DEF DoneKept
  <1> QED  BY <1>1, SingleInvariance, PTL DEF SingleSpec

\* What a client is shown as RUNNING some request is waiting for, however many
\* requests and cancellations share its id and whatever the list has dropped
\* (RunningIsAwaited).
THEOREM SingleRunning == SingleSpec => []RunningIsAwaited
  <1>1. SingleInv => RunningIsAwaited
    BY DEF SingleInv, SingleTypeOK, Shown, Awaited, RunningIsAwaited
  <1> QED  BY <1>1, SingleInvariance, PTL

-----------------------------------------------------------------------------
\* A request that is dispatched as one task implements WorkloadContract.

\* What a step does to one request: nothing, one of its stages, or its answer.
Stays(t) == request'[t].pc = request[t].pc /\ request'[t].answer = request[t].answer

GoesOn(t) ==
  /\ <<request[t].pc, request'[t].pc>> \in {<<"place", "send">>, <<"send", "await">>}
  /\ request'[t].answer = request[t].answer

Opens(t) ==
  /\ request[t].pc = "idle" /\ request'[t].pc = "place"
  /\ request'[t].answer = request[t].answer

Fails(t) ==
  /\ request[t].pc \in {"place", "send", "await"}
  /\ request'[t].pc = "over" /\ request'[t].answer = "failed"

Succeeds(t) ==
  /\ request[t].pc = "await" /\ request[t].promise = "ok"
  /\ request'[t].pc = "over" /\ request'[t].answer = "completed"

RequestMove(t) == Stays(t) \/ GoesOn(t) \/ Opens(t) \/ Fails(t) \/ Succeeds(t)

\* Every step is one of these to every request.
LEMMA RequestMoves ==
  ASSUME SingleTypeOK, [SingleNext]_vars, NEW s \in Tasks
  PROVE  RequestMove(s)
  <1>0. request \in [Tasks -> Request] /\ request[s] \in Request
    BY DEF SingleTypeOK
  <1>1. ASSUME NEW t \in Tasks, NEW q, request' = [request EXCEPT ![t] = q],
               q.pc = request[t].pc, q.answer = request[t].answer
        PROVE  Stays(s)
    BY <1>0, <1>1 DEF Stays
  <1>2. ASSUME NEW t \in Tasks, NEW outcome \in {"ok", "failed", "timeout"},
               request' = [request EXCEPT ![t] = Resolved(request[t], outcome)]
        PROVE  Stays(s)
    <2>1. request[t] \in Request
      BY <1>0
    <2> QED  BY <1>1, <1>2, <2>1, ResolvedFields
  <1>3. ASSUME UNCHANGED request  PROVE  Stays(s)
    BY <1>3 DEF Stays
  <1>4. ASSUME NEW t \in Tasks, Submit(t)  PROVE  RequestMove(s)
    BY <1>0, <1>4 DEF Submit, RequestMove, Stays, Opens, Request
  <1>5. ASSUME NEW t \in Tasks, NEW w \in Workers, PlaceSingle(t, w)
        PROVE  RequestMove(s)
    BY <1>0, <1>5 DEF PlaceSingle, RequestMove, Stays, GoesOn, Request
  <1>6. ASSUME NEW t \in Tasks, SendSingle(t)  PROVE  RequestMove(s)
    BY <1>0, <1>6 DEF SendSingle, RequestMove, Stays, GoesOn, Request
  <1>7. ASSUME NEW t \in Tasks, NoPlacement(t) \/ SendFails(t)
        PROVE  RequestMove(s)
    <2>1. /\ request[t].pc \in {"place", "send"}
          /\ request' = [request EXCEPT ![t].pc = "over", ![t].answer = "failed"]
      BY <1>7 DEF NoPlacement, SendFails
    <2> QED  BY <1>0, <2>1 DEF RequestMove, Stays, Fails, Request
  <1>8. ASSUME NEW t \in Tasks, Resume(t)  PROVE  RequestMove(s)
    <2>1. PICK outcome \in {"completed", "failed"} :
            /\ request[t].pc = "await"
            /\ outcome = "completed" => request[t].promise = "ok"
            /\ request' = [request EXCEPT ![t].pc = "over", ![t].answer = outcome]
      BY <1>8 DEF Resume, Answer, Settled
    <2> QED  BY <1>0, <2>1 DEF RequestMove, Stays, Fails, Succeeds, Request
  <1>9. ASSUME NEW t \in Tasks, TimerFires(t)  PROVE  Stays(s)
    <2>1. request' = [request EXCEPT ![t] = Resolved(request[t], "timeout")]
      BY <1>9 DEF TimerFires
    <2> QED  BY <1>2, <2>1
  <1>10. ASSUME NEW t \in Tasks, ProcessResult(t)  PROVE  Stays(s)
    <2>1. \/ request' = request
          \/ request' = [request EXCEPT ![t] = Resolved(request[t], "ok")]
          \/ request' = [request EXCEPT ![t] = Resolved(request[t], "failed")]
      BY <1>10 DEF ProcessResult, Notify
    <2>2. CASE request' = [request EXCEPT ![t] = Resolved(request[t], "ok")]
      BY <1>2, <2>2
    <2>3. CASE request' = [request EXCEPT ![t] = Resolved(request[t], "failed")]
      BY <1>2, <2>3
    <2> QED  BY <1>3, <2>1, <2>2, <2>3
  <1>11. CASE TimePasses
    <2>1. request'[s] = [request[s] EXCEPT !.timer = IF @ > 0 THEN @ - 1 ELSE 0]
      BY <1>11 DEF TimePasses
    <2> QED  BY <1>0, <2>1 DEF RequestMove, Stays, Request
  <1> QED
    BY <1>3, <1>4, <1>5, <1>6, <1>7, <1>8, <1>9, <1>10, <1>11
       DEF RequestMove, SingleNext, RequestStep, CancelSingle, SetSimulationMode,
           ReceiveResult, SimulationRejects, WorkLost, RemoteReplies, SimulationAnswers,
           ConnectionDrops, WorkerLost, Reconnect, Telemetry, LeaseWatchdog,
           singleVars, vars

\* A client that still waits has been told nothing.
Unanswered == \A t \in Tasks : request[t].pc # "over" => request[t].answer = "none"

ServedInv == SingleInv /\ Unanswered

\* Both hold always.
LEMMA ServedInvariance == SingleSpec => []ServedInv
  <1>1. InitAll => ServedInv
    BY SingleInitInv DEF InitAll, SingleInit, ServedInv, Unanswered
  <1>2. ServedInv /\ [SingleNext]_vars => ServedInv'
    <2> SUFFICES ASSUME ServedInv, [SingleNext]_vars, NEW t \in Tasks,
                        request'[t].pc # "over"
                 PROVE  request'[t].answer = "none"
      BY SingleStep DEF ServedInv, Unanswered
    <2>1. RequestMove(t)
      BY RequestMoves DEF ServedInv, SingleInv
    <2> QED
      BY <2>1 DEF ServedInv, Unanswered, RequestMove, Stays, GoesOn, Opens, Fails, Succeeds
  <1> QED  BY <1>1, <1>2, PTL DEF SingleSpec

\* The part of a request is its task, if its row is COMPLETED.
Result(t) == {u \in {t} : rows[u].status = "COMPLETED"}

\* A result that is recorded is one part finished of the one request it is for.
LEMMA CompleteFinishes ==
  ASSUME ServedInv, [SingleNext]_vars, NEW t \in Tasks, NEW s \in Tasks,
         ProcessResult(t), CompleteTask(t)
  PROVE  [Contract(s)!Serve]_(Contract(s)!contractVars)
  <1>0. /\ rows \in [Tasks -> Row] /\ request \in [Tasks -> Request]
        /\ \A u \in Tasks : request[u] \in Request
    BY DEF ServedInv, SingleInv, SingleTypeOK, TypeOK
  <1>1. Told(s)' = Told(s)
    <2>1. request' \in {request, [request EXCEPT ![t] = Resolved(request[t], "ok")],
                        [request EXCEPT ![t] = Resolved(request[t], "failed")]}
      BY DEF ProcessResult, Notify
    <2>2. Stays(s)
      BY <1>0, <2>1, ResolvedFields DEF Stays
    <2> QED  BY <2>2 DEF Stays, Told
  <1>2. /\ rows'[t].status = "COMPLETED"
        /\ \A u \in Tasks \ {t} : rows'[u] = rows[u]
    BY <1>0 DEF CompleteTask, Row
  <1>3. CASE s = t
    <2>1. Told(s) # "idle"
      BY <1>3 DEF ProcessResult, ServedInv, SingleInv, RequestInv, Executed, Told,
                  Unanswered, SingleTypeOK, Request
    <2>2. s \notin Result(s) /\ Result(s)' = Result(s) \cup {s}
      BY <1>2, <1>3 DEF Result, CompleteTask, InFlight, InFlightStatus
    <2>3. Contract(s)!Finish(s)
      BY <1>1, <2>1, <2>2 DEF Contract!Finish, Result
    <2> QED  BY <2>3 DEF Contract!Serve
  <1>4. CASE s # t
    <2>1. rows'[s] = rows[s]
      BY <1>2, <1>4
    <2> QED  BY <1>1, <2>1 DEF Contract!contractVars
  <1> QED  BY <1>3, <1>4

\* Any other step is a step towards an answer, or invisible.
LEMMA RequestServed ==
  ASSUME ServedInv, [SingleNext]_vars, DoneKept, NEW s \in Tasks
  PROVE  [Contract(s)!Serve]_(Contract(s)!contractVars)
  <1>1. RequestMove(s)
    BY RequestMoves DEF ServedInv, SingleInv
  <1>2. /\ request[s].pc # "over" => request[s].answer = "none"
        /\ request[s].promise = "ok" => rows[s].status = "COMPLETED"
    BY DEF ServedInv, SingleInv, Unanswered, RequestInv, Executed
  <1>3. Result(s)' = Result(s)
    BY DEF DoneKept, Result
  <1>4. CASE Stays(s) \/ GoesOn(s)
    <2>1. Told(s)' = Told(s)
      BY <1>2, <1>4 DEF Stays, GoesOn, Told
    <2> QED  BY <1>3, <2>1 DEF Contract!contractVars, Result
  <1>5. CASE Opens(s)
    <2>1. Told(s) = "idle" /\ Told(s)' = "running"
      BY <1>2, <1>5 DEF Opens, Told
    <2>2. Contract(s)!Ask
      BY <1>3, <2>1 DEF Contract!Ask, Result
    <2> QED  BY <2>2 DEF Contract!Serve
  <1>6. CASE Fails(s)
    <2>1. Told(s) = "running" /\ Told(s)' = "failed"
      BY <1>2, <1>6 DEF Fails, Told
    <2>2. Contract(s)!GiveUp
      BY <1>3, <2>1 DEF Contract!GiveUp, Result
    <2> QED  BY <2>2 DEF Contract!Serve
  <1>7. CASE Succeeds(s)
    <2>1. Told(s) = "running" /\ Told(s)' = "completed"
      BY <1>2, <1>7 DEF Succeeds, Told
    <2>2. Result(s) = {s}
      BY <1>2, <1>7 DEF Succeeds, Result
    <2>3. Contract(s)!Deliver
      BY <1>3, <2>1, <2>2 DEF Contract!Deliver, Result
    <2> QED  BY <2>3 DEF Contract!Serve
  <1> QED  BY <1>1, <1>4, <1>5, <1>6, <1>7 DEF RequestMove

\* Every client whose workload is one task gets what WorkloadContract promises,
\* on real and on virtual workers, whatever the other requests, the recoveries
\* and late results do (ImplementsContract).
THEOREM SingleContract == SingleSpec => ImplementsContract
  <1>1. InitAll => \A t \in Tasks : Contract(t)!Init
    BY DEF InitAll, SingleInit, Init, NoRow, Contract!Init, Told
  <1>2. ServedInv /\ [SingleNext]_vars =>
          [\A t \in Tasks : [Contract(t)!Serve]_(Contract(t)!contractVars)]_vars
    <2> SUFFICES ASSUME ServedInv, [SingleNext]_vars, NEW s \in Tasks
                 PROVE  [Contract(s)!Serve]_(Contract(s)!contractVars)
      OBVIOUS
    <2>1. DoneKept \/ \E t \in Tasks : ProcessResult(t) /\ CompleteTask(t)
      BY StepDone DEF ServedInv, SingleInv
    <2> QED  BY <2>1, CompleteFinishes, RequestServed
  <1> QED  BY <1>1, <1>2, ServedInvariance, PTL DEF SingleSpec, ImplementsContract

=============================================================================
