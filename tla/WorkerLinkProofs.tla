---------------------------- MODULE WorkerLinkProofs ----------------------------
(***************************************************************************)
(* Theorems about the link between a worker and Core, for any number of    *)
(* connections and pairings, any faults, any number of them, half-open     *)
(* connections included.                                                   *)
(***************************************************************************)
EXTENDS WorkerLink, TLAPS

(***************************************************************************)
(* The inductive invariant.  SocketIsOpen: the connection in the map of    *)
(* the device is one whose close event is still to come and which that     *)
(* event will find to be the device's: this is why the close event of the  *)
(* current connection always unregisters the device.  Reachable: the       *)
(* property, with a connection instead of an open one.                     *)
(***************************************************************************)
SocketIsOpen == socket # 0 => socket \in open /\ socket \in known

Reachable == registered => current \in sessions /\ socket # 0

IInv == TypeOK /\ SocketIsOpen /\ Reachable

(***************************************************************************)
(* The second invariant, for KeysAgree, needs more: what is on its way.    *)
(* Once: no name is asked for, or confirmed, twice in the queues of the    *)
(* worker's connection, and all of them are still pending in Core (Asked): *)
(* so no confirmation is refused.  Ends: the last message of a type names  *)
(* n.  The worker's keys are those of its last confirmation (Keyed), so    *)
(* when Core has handled that one they are those of the current session    *)
(* (Paired), and the last success on its way is the current session's.     *)
(* OneOpen is what ~HalfOpen gives, and what it is needed for: a           *)
(* connection Core hears from is the one the worker has.                   *)
(***************************************************************************)
Never(q, type) == \A i \in 1 .. Len(q) : q[i].type # type

Ends(q, type, n) ==
  \A i \in 1 .. Len(q) :
    q[i].type = type /\ (\A j \in i + 1 .. Len(q) : q[j].type # type) => q[i].id = n

Once(q, type) ==
  \A i, j \in 1 .. Len(q) :
    q[i].type = type /\ q[j].type = type /\ q[i].id = q[j].id => i = j

Ids(q, type) == {q[i].id : i \in {j \in 1 .. Len(q) : q[j].type = type}}

OneOpen == \A a, b \in open : a = b

Joined == conn # 0 /\ conn \in up

Asked ==
  Joined =>
    LET asked == Ids(toWorker[conn], "PAIRING_REQUEST")
        confirmed == Ids(toCore[conn], "PAIRING_CONFIRM")
    IN /\ Once(toWorker[conn], "PAIRING_REQUEST")
       /\ Once(toCore[conn], "PAIRING_CONFIRM")
       /\ asked \cap confirmed = {} /\ asked \cup confirmed \subseteq inits

Keyed == Joined => keys = 0 \/ Ends(toCore[conn], "PAIRING_CONFIRM", keys)

Paired ==
  Joined /\ registered =>
    /\ Never(toCore[conn], "PAIRING_CONFIRM") => keys \in {0, current}
    /\ Ends(toWorker[conn], "PAIRING_SUCCESS", current)
    /\ Never(toWorker[conn], "PAIRING_SUCCESS") => session \in {0, current}

KeysInv == IInv /\ OneOpen /\ Asked /\ Keyed /\ Paired

-----------------------------------------------------------------------------

\* Sending and receiving keep a queue a queue.
LEMMA QueueFacts ==
  ASSUME NEW S, NEW q \in Seq(S)
  PROVE  /\ q # <<>> => Head(q) \in S /\ Tail(q) \in Seq(S)
         /\ \A m \in S : Append(q, m) \in Seq(S)
         /\ <<>> \in Seq(S)
         /\ \A m \in S : <<m>> \in Seq(S)
  OBVIOUS

\* The messages have their types.
LEMMA Messages ==
  /\ Beacon \in ToCore /\ UnknownSession \in ToWorker
  /\ \A n \in Pairings : /\ Confirm(n) \in ToCore
                         /\ Request(n) \in ToWorker /\ Success(n) \in ToWorker
  /\ \A s, k \in Pairings : Telemetry(s, k) \in ToCore
  BY DEF ToCore, ToWorker

\* Sending, receiving and losing keep a family of queues one.
LEMMA QueueTypes ==
  ASSUME NEW S, NEW q \in [Conns -> Seq(S)], NEW c \in Conns
  PROVE  /\ \A m \in S : [q EXCEPT ![c] = Append(@, m)] \in [Conns -> Seq(S)]
         /\ \A m \in S : [q EXCEPT ![c] = <<m>>] \in [Conns -> Seq(S)]
         /\ [q EXCEPT ![c] = <<>>] \in [Conns -> Seq(S)]
         /\ q[c] # <<>> => [q EXCEPT ![c] = Tail(@)] \in [Conns -> Seq(S)]
  <1>1. q[c] \in Seq(S)  OBVIOUS
  <1> QED  BY <1>1, QueueFacts

\* A message sent keeps the type of the queues.
LEMMA SentType ==
  ASSUME NEW S, NEW q \in [Conns -> Seq(S)], NEW c \in Conns, NEW m \in S
  PROVE  Sent(q, c, m) \in [Conns -> Seq(S)]
  BY QueueTypes DEF Sent

\* A name that is fresh is not the current one.
LEMMA FreshFacts ==
  /\ Fresh \subseteq Pairings /\ current \notin Fresh
  /\ Fresh # {} => NextName \in Fresh
  BY DEF Fresh, NextName, Mentioned

\* 0 is no connection and no name.
LEMMA Numbers ==
  /\ 0 \notin Conns /\ 0 \notin Pairings
  /\ Conns \subseteq Nat /\ Pairings \subseteq Nat
  BY LinkAssumption

\* Counting a fault keeps the type.
LEMMA FaultType ==
  ASSUME TypeOK, NEW kind, Fault(kind)
  PROVE  faults' \in FaultCounts
  BY LinkAssumption DEF TypeOK, Fault, FaultCounts

-----------------------------------------------------------------------------
(* The steps of the network, one lemma each. *)

\* A new connection keeps the invariant.
LEMMA ConnectsInv ==
  ASSUME IInv, NEW c \in Conns, WorkerConnects(c)
  PROVE  IInv'
  <1>1. TypeOK'
    BY QueueTypes, Messages DEF IInv, TypeOK, WorkerConnects, core
  <1>2. SocketIsOpen' /\ Reachable'
    BY DEF IInv, SocketIsOpen, Reachable, WorkerConnects, core
  <1> QED  BY <1>1, <1>2 DEF IInv

\* So does the loss of a connection.
LEMMA LostInv ==
  ASSUME IInv, NEW c \in Conns, ConnectionLost(c)
  PROVE  IInv'
  <1>1. TypeOK'
    <2>1. /\ toCore \in [Conns -> Seq(ToCore)]
          /\ toWorker \in [Conns -> Seq(ToWorker)]
      BY DEF IInv, TypeOK
    <2>2. /\ toCore' \in [Conns -> Seq(ToCore)]
          /\ toWorker' \in [Conns -> Seq(ToWorker)]
      <3>1. /\ [toCore EXCEPT ![c] = <<>>] \in [Conns -> Seq(ToCore)]
            /\ [toWorker EXCEPT ![c] = <<>>] \in [Conns -> Seq(ToWorker)]
        BY <2>1, QueueTypes
      <3>2. toWorker' = [toWorker EXCEPT ![c] = <<>>]  BY DEF ConnectionLost
      <3>3. toCore' = toCore \/ toCore' = [toCore EXCEPT ![c] = <<>>]
        BY DEF ConnectionLost
      <3>4. toCore' \in [Conns -> Seq(ToCore)]  BY <2>1, <3>1, <3>3
      <3> QED  BY <3>1, <3>2, <3>4
    <2>3. faults' \in FaultCounts
      BY FaultType DEF IInv, ConnectionLost
    <2> QED  BY <2>2, <2>3 DEF IInv, TypeOK, ConnectionLost, core, worker
  <1>2. SocketIsOpen' /\ Reachable'
    BY DEF IInv, SocketIsOpen, Reachable, ConnectionLost, core
  <1> QED  BY <1>1, <1>2 DEF IInv

\* So does the worker noticing it.
LEMMA NoticesInv ==
  ASSUME IInv, WorkerNotices
  PROVE  IInv'
  <1>1. TypeOK'
    BY QueueTypes, Numbers DEF IInv, TypeOK, WorkerNotices, core
  <1>2. SocketIsOpen' /\ Reachable'
    BY DEF IInv, SocketIsOpen, Reachable, WorkerNotices, core
  <1> QED  BY <1>1, <1>2 DEF IInv

\* So does a restart of the worker.
LEMMA RestartsInv ==
  ASSUME IInv, WorkerRestarts \/ CoreRestarts
  PROVE  IInv'
  <1>1. CASE WorkerRestarts
    <2>1. toWorker' \in [Conns -> Seq(ToWorker)]
      BY <1>1, QueueFacts DEF IInv, TypeOK, WorkerRestarts
    <2>2. TypeOK'
      BY <1>1, <2>1, FaultType DEF IInv, TypeOK, WorkerRestarts, core
    <2>3. SocketIsOpen' /\ Reachable'
      BY <1>1 DEF IInv, SocketIsOpen, Reachable, WorkerRestarts, core
    <2> QED  BY <2>2, <2>3 DEF IInv
  <1>2. CASE CoreRestarts
    <2>1. toCore' \in [Conns -> Seq(ToCore)]
      BY <1>2, QueueFacts DEF CoreRestarts
    <2>2. TypeOK'
      BY <1>2, <2>1, FaultType DEF IInv, TypeOK, CoreRestarts, worker
    <2>3. SocketIsOpen' /\ Reachable'
      BY <1>2 DEF SocketIsOpen, Reachable, CoreRestarts
    <2> QED  BY <2>2, <2>3 DEF IInv
  <1> QED  BY <1>1, <1>2

-----------------------------------------------------------------------------
(* The steps of Core. *)

\* The close event of the connection in the map finds the device known on it.
LEMMA CloseInv ==
  ASSUME IInv, NEW c \in Conns, CloseEvent(c)
  PROVE  IInv'
  <1>1. TypeOK'
    BY QueueTypes, Numbers DEF IInv, TypeOK, CloseEvent, worker
  <1>2. SocketIsOpen' /\ Reachable'
    BY DEF IInv, TypeOK, SocketIsOpen, Reachable, CloseEvent
  <1> QED  BY <1>1, <1>2 DEF IInv

\* Whatever is received, the map entry is the connection it came on.
LEMMA Received ==
  ASSUME IInv, NEW c \in Conns, NEW m, ReceivesOn(c, m)
  PROVE  /\ up' \subseteq open' /\ open' \subseteq Conns /\ known' \subseteq Conns
         /\ toCore' \in [Conns -> Seq(ToCore)]
         /\ socket' = c /\ c \in open' /\ c \in known' /\ c # 0
         /\ conn' \in Conns \cup {0}
         /\ session' \in Pairings \cup {0} /\ keys' \in Pairings \cup {0}
         /\ reporting' \in BOOLEAN /\ beaconing' \in BOOLEAN /\ wipes' \in Nat
         /\ faults' \in FaultCounts
  BY QueueTypes, Numbers DEF IInv, TypeOK, ReceivesOn, worker

\* So does every message Core handles.
LEMMA ReceiveInv ==
  ASSUME IInv, NEW c \in Conns,
         \/ DiscoveryBeacon(c)
         \/ \E n \in Pairings : PairingConfirm(c, n)
         \/ \E s, k \in Pairings : EncryptedTelemetry(c, s, k)
  PROVE  IInv'
  <1>1. CASE DiscoveryBeacon(c)
    <2>1. immediate' \in BOOLEAN  BY <1>1 DEF DiscoveryBeacon
    <2> QED
      BY <1>1, <2>1, Received
      DEF IInv, TypeOK, SocketIsOpen, Reachable, DiscoveryBeacon
  <1>2. ASSUME NEW n \in Pairings, PairingConfirm(c, n)  PROVE IInv'
    <2>1. ReceivesOn(c, Confirm(n))  BY <1>2 DEF PairingConfirm
    <2>2. toWorker' \in [Conns -> Seq(ToWorker)]
      <3>1. toWorker \in [Conns -> Seq(ToWorker)] /\ Success(n) \in ToWorker
        BY Messages DEF IInv, TypeOK
      <3>2. Sent(toWorker, c, Success(n)) \in [Conns -> Seq(ToWorker)]
        BY <3>1, SentType
      <3> QED  BY <1>2, <3>1, <3>2 DEF PairingConfirm
    <2>3. /\ registered' \in BOOLEAN /\ inits' \subseteq Pairings
          /\ sessions' \subseteq Pairings /\ current' \in Pairings \cup {0}
          /\ immediate' \in BOOLEAN
      BY <1>2 DEF IInv, TypeOK, PairingConfirm
    <2>4. TypeOK'  BY <2>1, <2>2, <2>3, Received DEF TypeOK
    <2>5. registered' => current' \in sessions'
      <3>1. CASE n \in inits  BY <1>2, <3>1 DEF PairingConfirm
      <3>2. CASE n \notin inits
        <4>1. registered' = registered /\ current' = current /\ sessions' = sessions
          BY <1>2, <3>2 DEF PairingConfirm
        <4> QED  BY <4>1 DEF IInv, Reachable
      <3> QED  BY <3>1, <3>2
    <2> QED  BY <2>1, <2>4, <2>5, Received DEF IInv, SocketIsOpen, Reachable
  <1>3. ASSUME NEW s \in Pairings, NEW k \in Pairings, EncryptedTelemetry(c, s, k)
        PROVE  IInv'
    <2>1. ReceivesOn(c, Telemetry(s, k))  BY <1>3 DEF EncryptedTelemetry
    <2>2. toWorker' \in [Conns -> Seq(ToWorker)]
      BY <1>3, SentType, Messages DEF IInv, TypeOK, EncryptedTelemetry
    <2>3. TypeOK'
      BY <1>3, <2>1, <2>2, Received DEF IInv, TypeOK, EncryptedTelemetry
    <2>4. Reachable' /\ SocketIsOpen'
      BY <1>3, <2>1, Received DEF IInv, Reachable, SocketIsOpen, EncryptedTelemetry
    <2> QED  BY <2>3, <2>4 DEF IInv
  <1> QED  BY <1>1, <1>2, <1>3

\* Names in use are not given to a new initiation, so the current session stays.
LEMMA AskInv ==
  ASSUME IInv, AskForPairing, immediate' \in BOOLEAN, faults' \in FaultCounts
  PROVE  IInv'
  <1>1. NextName \in Pairings  BY FreshFacts DEF AskForPairing
  <1>2. toWorker' \in [Conns -> Seq(ToWorker)]
    <2>1. /\ toWorker \in [Conns -> Seq(ToWorker)] /\ socket \in Conns \cup {0}
          /\ Request(NextName) \in ToWorker
      BY <1>1, Messages DEF IInv, TypeOK
    <2>2. socket # 0 =>
            Sent(toWorker, socket, Request(NextName)) \in [Conns -> Seq(ToWorker)]
      BY <2>1, SentType
    <2> QED  BY <2>1, <2>2 DEF AskForPairing
  <1>3. inits' \subseteq Pairings /\ sessions' \subseteq Pairings
    BY <1>1 DEF IInv, TypeOK, AskForPairing
  <1>4. TypeOK'
    BY <1>2, <1>3 DEF IInv, TypeOK, AskForPairing, worker
  <1>5. SocketIsOpen' /\ Reachable'
    BY FreshFacts DEF IInv, SocketIsOpen, Reachable, AskForPairing
  <1> QED  BY <1>4, <1>5 DEF IInv

\* So does a revocation.
LEMMA RevokeInv ==
  ASSUME IInv, RevokeWorker
  PROVE  IInv'
  <1>1. TypeOK'
    BY FaultType DEF IInv, TypeOK, RevokeWorker, net, worker
  <1>2. SocketIsOpen' /\ Reachable'
    BY DEF IInv, SocketIsOpen, Reachable, RevokeWorker, net
  <1> QED  BY <1>1, <1>2 DEF IInv

\* So does the sweep of dead workers.
LEMMA SweepInv ==
  ASSUME IInv, SweepDeadWorkers
  PROVE  IInv'
  BY DEF IInv, TypeOK, SocketIsOpen, Reachable, SweepDeadWorkers, worker

-----------------------------------------------------------------------------
(* The steps of the worker: none of Core's variables changes. *)

\* A step that leaves Core's side alone keeps the invariant.
LEMMA WorkerInv ==
  ASSUME IInv, UNCHANGED <<up, open, known, core, conn>>,
         toCore' \in [Conns -> Seq(ToCore)], toWorker' \in [Conns -> Seq(ToWorker)],
         session' \in Pairings \cup {0}, keys' \in Pairings \cup {0},
         reporting' \in BOOLEAN, beaconing' \in BOOLEAN, wipes' \in Nat,
         faults' = faults
  PROVE  IInv'
  BY DEF IInv, TypeOK, SocketIsOpen, Reachable, core

\* So every step of the worker keeps the invariant.
LEMMA WorkerStepInv ==
  ASSUME IInv,
         \/ \E n \in Pairings : PairingRequest(n) \/ PairingSuccess(n)
         \/ SessionInvalidated \/ RunWipe
         \/ SendDiscoveryBeacon \/ SendTelemetryReport
  PROVE  IInv'
  <1>0. /\ toCore \in [Conns -> Seq(ToCore)] /\ toWorker \in [Conns -> Seq(ToWorker)]
        /\ session \in Pairings \cup {0} /\ keys \in Pairings \cup {0}
        /\ reporting \in BOOLEAN /\ beaconing \in BOOLEAN /\ wipes \in Nat
        /\ conn \in Conns \cup {0}
    BY DEF IInv, TypeOK
  <1>1. ASSUME NEW m, WorkerReceives(m)
        PROVE  toWorker' \in [Conns -> Seq(ToWorker)] /\ conn \in Conns
    BY <1>0, <1>1, QueueTypes DEF WorkerReceives
  <1>2. ASSUME NEW n \in Pairings, PairingRequest(n) \/ PairingSuccess(n)  PROVE IInv'
    <2>1. toCore' \in [Conns -> Seq(ToCore)]
      <3>1. conn \in Conns /\ Confirm(n) \in ToCore
        BY <1>1, <1>2, Messages DEF PairingRequest, PairingSuccess
      <3>2. Sent(toCore, conn, Confirm(n)) \in [Conns -> Seq(ToCore)]
        BY <1>0, <3>1, SentType
      <3> QED  BY <1>0, <1>2, <3>2 DEF PairingRequest, PairingSuccess
    <2> QED
      BY <1>0, <1>1, <1>2, <2>1, WorkerInv
      DEF PairingRequest, PairingSuccess, WorkerReceives
  <1>3. CASE SessionInvalidated
    BY <1>0, <1>1, <1>3, WorkerInv DEF SessionInvalidated, WorkerReceives
  <1>4. CASE RunWipe
    <2>1. toCore' \in [Conns -> Seq(ToCore)]
      <3>1. conn # 0 => Sent(toCore, conn, Beacon) \in [Conns -> Seq(ToCore)]
        BY <1>0, SentType, Messages
      <3> QED  BY <1>0, <1>4, <3>1 DEF RunWipe
    <2>2. wipes' \in Nat  BY <1>0, <1>4 DEF RunWipe
    <2> QED  BY <1>0, <1>4, <2>1, <2>2, WorkerInv DEF RunWipe
  <1>5. ASSUME NEW m \in ToCore, WorkerTimer(m), conn # 0  PROVE IInv'
    <2>1. toCore' \in [Conns -> Seq(ToCore)]
      BY <1>0, <1>5, QueueTypes DEF WorkerTimer
    <2> QED  BY <1>0, <1>5, <2>1, WorkerInv DEF WorkerTimer, worker
  <1>6. CASE SendDiscoveryBeacon
    BY <1>5, <1>6, Messages DEF SendDiscoveryBeacon
  <1>7. CASE SendTelemetryReport
    BY <1>0, <1>5, <1>7, Messages DEF SendTelemetryReport
  <1> QED  BY <1>2, <1>3, <1>4, <1>6, <1>7

-----------------------------------------------------------------------------

\* The invariant holds at the start.
LEMMA InitInv == Init => IInv
  <1> SUFFICES ASSUME Init  PROVE IInv  OBVIOUS
  <1>1. /\ toCore \in [Conns -> Seq(ToCore)]
        /\ toWorker \in [Conns -> Seq(ToWorker)]
    BY QueueFacts DEF Init
  <1>2. [number |-> 0, revoked |-> FALSE] \in FaultCounts
    BY LinkAssumption DEF FaultCounts
  <1>3. TypeOK  BY <1>1, <1>2 DEF Init, TypeOK
  <1> QED  BY <1>3 DEF IInv, Init, SocketIsOpen, Reachable

\* Every step keeps it.
LEMMA NextInv == IInv /\ [Next]_vars => IInv'
  <1> SUFFICES ASSUME IInv, [Next]_vars  PROVE IInv'  OBVIOUS
  <1>1. CASE UNCHANGED vars
    BY <1>1 DEF vars, net, core, worker, IInv, TypeOK, SocketIsOpen, Reachable
  <1>2. CASE CoreStep
    <2>1. CASE RunImmediate
      BY <2>1, AskInv DEF RunImmediate, IInv, TypeOK
    <2> QED  BY <1>2, <2>1, CloseInv, ReceiveInv, SweepInv DEF CoreStep
  <1>3. CASE WorkerStep
    BY <1>3, ConnectsInv, NoticesInv, WorkerStepInv DEF WorkerStep
  <1>4. CASE FaultStep
    <2>1. CASE UserPairs
      BY <2>1, AskInv, FaultType DEF UserPairs, IInv, TypeOK
    <2> QED  BY <1>4, <2>1, LostInv, RestartsInv, RevokeInv DEF FaultStep
  <1> QED  BY <1>1, <1>2, <1>3, <1>4 DEF Next

\* The inductive invariant holds in every reachable state, whatever is lost,
\* restarted, paired and revoked (the map of sockets in transport_server.ts).
THEOREM Invariance == Spec => []IInv
  BY InitInv, NextInv, PTL DEF Spec

\* The variables of both sides and the messages between them have their types.
THEOREM TypeCorrect == Spec => []TypeOK
  <1>1. IInv => TypeOK  BY DEF IInv
  <1> QED  BY <1>1, Invariance, PTL

\* A registered worker has a session, and a connection whose close Core will hear
\* of: the registry holds no worker that cannot be sent work (close handler,
\* sweepDeadWorkers, PAIRING_CONFIRM).
THEOREM ReachableTheorem == Spec => []RegisteredIsReachable
  <1>1. IInv => RegisteredIsReachable
    BY DEF IInv, SocketIsOpen, Reachable, RegisteredIsReachable
  <1> QED  BY <1>1, Invariance, PTL

-----------------------------------------------------------------------------
(* Queues: what sending and receiving a message keeps. *)

\* From q to r, a message of the type that names id comes last.
Grows(q, r, type, id) ==
  /\ ~Never(r, type) /\ Ends(r, type, id)
  /\ Ids(r, type) = Ids(q, type) \cup {id}
  /\ Once(q, type) /\ id \notin Ids(q, type) => Once(r, type)

\* Nothing of the type comes or goes.
Silent(q, r, type) ==
  /\ Never(r, type) <=> Never(q, type)
  /\ \A n : Ends(q, type, n) => Ends(r, type, n)
  /\ Ids(r, type) = Ids(q, type)
  /\ Once(q, type) => Once(r, type)

\* The first message, of type first and naming id, goes.
Shrinks(q, r, type, first, id) ==
  /\ \A n : Ends(q, type, n) => Ends(r, type, n)
  /\ Once(q, type) => Once(r, type)
  /\ Ids(r, type) \subseteq Ids(q, type)
  /\ first # type /\ Never(r, type) => Never(q, type)
  /\ first = type => /\ id \in Ids(q, type)
                     /\ Once(q, type) => id \notin Ids(r, type)
                     /\ \A n : Never(r, type) /\ Ends(q, type, n) => id = n

\* A message sent is the last of its type, and names it.
LEMMA SendFacts ==
  ASSUME NEW S, NEW q \in Seq(S), NEW m \in S, NEW type, m.type = type
  PROVE  Grows(q, Append(q, m), type, m.id)
  <1> DEFINE r == Append(q, m)
  <1>0. /\ Len(q) \in Nat /\ Len(r) = Len(q) + 1 /\ r[Len(q) + 1] = m
        /\ \A i \in 1 .. Len(q) : r[i] = q[i]
    OBVIOUS
  <1> HIDE DEF r
  <1>1. ~Never(r, type) /\ Ends(r, type, m.id)  BY <1>0 DEF Never, Ends
  <1>2. Ids(r, type) = Ids(q, type) \cup {m.id}
    <2>1. \A i \in 1 .. Len(r) : i \in 1 .. Len(q) \/ i = Len(q) + 1  BY <1>0
    <2>2. Len(q) + 1 \in 1 .. Len(r) /\ 1 .. Len(q) \subseteq 1 .. Len(r)  BY <1>0
    <2> QED  BY <1>0, <2>1, <2>2 DEF Ids
  <1>3. Once(q, type) /\ m.id \notin Ids(q, type) => Once(r, type)
    <2>1. \A i \in 1 .. Len(r) : i \in 1 .. Len(q) \/ i = Len(q) + 1  BY <1>0
    <2>2. ASSUME m.id \notin Ids(q, type), NEW i \in 1 .. Len(q), q[i].type = type
          PROVE  q[i].id # m.id
      BY <2>2 DEF Ids
    <2> QED  BY <1>0, <2>1, <2>2 DEF Once
  <1> QED  BY <1>1, <1>2, <1>3 DEF r, Grows

\* The other types do not notice it.
LEMMA SendOther ==
  ASSUME NEW S, NEW q \in Seq(S), NEW m \in S, NEW type, m.type # type
  PROVE  Silent(q, Append(q, m), type)
  <1> DEFINE r == Append(q, m)
  <1>0. /\ Len(q) \in Nat /\ Len(r) = Len(q) + 1 /\ r[Len(q) + 1] = m
        /\ \A i \in 1 .. Len(q) : r[i] = q[i]
    OBVIOUS
  <1> HIDE DEF r
  <1>1. \A i \in 1 .. Len(r) : r[i].type = type => i \in 1 .. Len(q)
    BY <1>0
  <1>2. 1 .. Len(q) \subseteq 1 .. Len(r)  BY <1>0
  <1>3. Never(r, type) <=> Never(q, type)  BY <1>0, <1>1, <1>2 DEF Never
  <1>4. \A n : Ends(q, type, n) => Ends(r, type, n)
    <2> SUFFICES ASSUME NEW n, Ends(q, type, n), NEW i \in 1 .. Len(r), r[i].type = type,
                        \A j \in i + 1 .. Len(r) : r[j].type # type
                 PROVE  r[i].id = n
      BY DEF Ends
    <2>1. i \in 1 .. Len(q)  BY <1>1
    <2>2. \A j \in i + 1 .. Len(q) : q[j].type # type  BY <1>0, <2>1
    <2> QED  BY <1>0, <2>1, <2>2 DEF Ends
  <1>5. Ids(r, type) = Ids(q, type)  BY <1>0, <1>1, <1>2 DEF Ids
  <1>6. Once(q, type) => Once(r, type)  BY <1>0, <1>1 DEF Once
  <1> QED  BY <1>3, <1>4, <1>5, <1>6 DEF r, Silent

\* A message received: the rest keeps its last; if it has none left, it was the last.
LEMMA ReceiveFacts ==
  ASSUME NEW S, NEW q \in Seq(S), q # <<>>, NEW type
  PROVE  Shrinks(q, Tail(q), type, Head(q).type, Head(q).id)
  <1> DEFINE m == Head(q)
             r == Tail(q)
  <1>1. /\ Len(q) \in Nat /\ Len(q) > 0 /\ Len(r) = Len(q) - 1 /\ m = q[1]
        /\ \A i \in 1 .. Len(r) : r[i] = q[i + 1]
    OBVIOUS
  <1> HIDE DEF m, r
  <1>2. 1 \in 1 .. Len(q) /\ \A i \in 1 .. Len(r) : i + 1 \in 1 .. Len(q)  BY <1>1
  <1>3. \A i \in 2 .. Len(q) : i - 1 \in 1 .. Len(r) /\ r[i - 1] = q[i]  BY <1>1
  <1>4. \A n : Ends(q, type, n) => Ends(r, type, n)
    <2> SUFFICES ASSUME NEW n, Ends(q, type, n), NEW i \in 1 .. Len(r), r[i].type = type,
                        \A j \in i + 1 .. Len(r) : r[j].type # type
                 PROVE  r[i].id = n
      BY DEF Ends
    <2>1. ASSUME NEW j \in i + 2 .. Len(q)  PROVE q[j].type # type
      <3>1. j - 1 \in i + 1 .. Len(r) /\ j \in 2 .. Len(q)  BY <1>1
      <3> QED  BY <1>3, <3>1
    <2>2. (i + 1) + 1 = i + 2  OBVIOUS
    <2> QED  BY <1>1, <1>2, <2>1, <2>2 DEF Ends
  <1>5. Once(q, type) => Once(r, type)
    <2> SUFFICES ASSUME Once(q, type), NEW i \in 1 .. Len(r), NEW j \in 1 .. Len(r),
                        r[i].type = type, r[j].type = type, r[i].id = r[j].id
                 PROVE  i = j
      BY DEF Once
    <2>1. i + 1 = j + 1  BY <1>1, <1>2 DEF Once
    <2> QED  BY <2>1
  <1>6. Ids(r, type) \subseteq Ids(q, type)  BY <1>1, <1>2 DEF Ids
  <1>7. m.type # type /\ Never(r, type) => Never(q, type)
    <2> SUFFICES ASSUME m.type # type, Never(r, type), NEW i \in 1 .. Len(q)
                 PROVE  q[i].type # type
      BY DEF Never
    <2>1. i = 1 \/ i \in 2 .. Len(q)  BY <1>1
    <2> QED  BY <1>1, <1>3, <2>1 DEF Never
  <1>8. m.type = type => m.id \in Ids(q, type)  BY <1>1, <1>2 DEF Ids
  <1>9. m.type = type /\ Once(q, type) => m.id \notin Ids(r, type)
    <2> SUFFICES ASSUME m.type = type, Once(q, type), NEW i \in 1 .. Len(r),
                        r[i].type = type, m.id = r[i].id
                 PROVE  FALSE
      BY DEF Ids
    <2>1. i + 1 = 1  BY <1>1, <1>2 DEF Once
    <2> QED  BY <2>1
  <1>10. \A n : m.type = type /\ Never(r, type) /\ Ends(q, type, n) => m.id = n
    <2> SUFFICES ASSUME NEW n, m.type = type, Never(r, type), Ends(q, type, n)
                 PROVE  m.id = n
      OBVIOUS
    <2>1. \A j \in 1 + 1 .. Len(q) : q[j].type # type  BY <1>3 DEF Never
    <2> QED  BY <1>1, <1>2, <2>1 DEF Ends
  <1> QED  BY <1>4, <1>5, <1>6, <1>7, <1>8, <1>9, <1>10 DEF m, r, Shrinks

\* An empty queue names nothing.
LEMMA EmptyFacts ==
  ASSUME NEW type, NEW n
  PROVE  /\ Never(<<>>, type) /\ Ends(<<>>, type, n) /\ Once(<<>>, type)
         /\ Ids(<<>>, type) = {}
  BY DEF Never, Ends, Once, Ids

\* What the messages are called and carry.
LEMMA MessageFacts ==
  /\ Beacon.type = "DISCOVERY_BEACON" /\ UnknownSession.type = "ERROR"
  /\ \A n : /\ Confirm(n).type = "PAIRING_CONFIRM" /\ Confirm(n).id = n
            /\ Request(n).type = "PAIRING_REQUEST" /\ Request(n).id = n
            /\ Success(n).type = "PAIRING_SUCCESS" /\ Success(n).id = n
  /\ \A s, k : Telemetry(s, k).type = "ENCRYPTED_TELEMETRY"
  BY DEF Beacon, UnknownSession, Confirm, Request, Success, Telemetry

\* A name that is asked for, or confirmed, in a queue is not given out again.
LEMMA NamesInUse ==
  ASSUME TypeOK, NEW c \in Conns
  PROVE  /\ Ids(toWorker[c], "PAIRING_REQUEST") \cap Fresh = {}
         /\ Ids(toCore[c], "PAIRING_CONFIRM") \cap Fresh = {}
  <1>1. toCore[c] \in Seq(ToCore) /\ toWorker[c] \in Seq(ToWorker)  BY DEF TypeOK
  <1>2. ASSUME NEW i \in 1 .. Len(toWorker[c]), toWorker[c][i].type = "PAIRING_REQUEST"
        PROVE  Mentioned(toWorker[c][i].id)
    <2>1. toWorker[c][i] \in ToSet(toWorker[c])  BY <1>1 DEF ToSet
    <2>2. toWorker[c][i] # UnknownSession  BY <1>2, MessageFacts
    <2> QED  BY <2>1, <2>2 DEF Mentioned
  <1>3. ASSUME NEW i \in 1 .. Len(toCore[c]), toCore[c][i].type = "PAIRING_CONFIRM"
        PROVE  Mentioned(toCore[c][i].id)
    <2>1. toCore[c][i] \in ToSet(toCore[c])  BY <1>1 DEF ToSet
    <2>2. toCore[c][i] # Beacon  BY <1>3, MessageFacts
    <2> QED  BY <2>1, <2>2 DEF Mentioned
  <1> QED  BY <1>2, <1>3 DEF Ids, Fresh

-----------------------------------------------------------------------------
(* The steps keep the second invariant. *)

\* With one connection open at most, the one the worker has is the one in the map.
LEMMA OneLink ==
  ASSUME KeysInv, Joined
  PROVE  /\ conn \in Conns /\ conn \in open /\ \A c \in open : c = conn
         /\ socket \in {0, conn}
         /\ toCore[conn] \in Seq(ToCore) /\ toWorker[conn] \in Seq(ToWorker)
  BY DEF KeysInv, IInv, TypeOK, OneOpen, Joined, SocketIsOpen

\* Steps that cut the connection, or leave it and what goes over it alone.
LEMMA QuietKeys ==
  ASSUME KeysInv,
         Joined' => /\ Joined /\ conn' = conn
                    /\ toCore'[conn] = toCore[conn] /\ toWorker'[conn] = toWorker[conn]
                    /\ inits' = inits /\ keys' = keys /\ session' = session
                    /\ registered' => registered /\ current' = current
  PROVE  Asked' /\ Keyed' /\ Paired'
  BY DEF KeysInv, Asked, Keyed, Paired

\* The connection comes and goes; Core forgets, revokes and sweeps.
LEMMA NetworkKeys ==
  ASSUME KeysInv, ~HalfOpen,
         \/ \E c \in Conns : WorkerConnects(c) \/ ConnectionLost(c) \/ CloseEvent(c)
         \/ WorkerNotices \/ WorkerRestarts \/ CoreRestarts
         \/ RevokeWorker \/ SweepDeadWorkers
  PROVE  OneOpen' /\ Asked' /\ Keyed' /\ Paired'
  <1>0. /\ toCore \in [Conns -> Seq(ToCore)] /\ toWorker \in [Conns -> Seq(ToWorker)]
        /\ up \subseteq open /\ open \subseteq Conns
    BY DEF KeysInv, IInv, TypeOK
  <1>1. ASSUME NEW c \in Conns, WorkerConnects(c)
        PROVE  OneOpen' /\ Asked' /\ Keyed' /\ Paired'
    <2>1. open = {} /\ ~registered
      BY <1>1 DEF WorkerConnects, KeysInv, IInv, SocketIsOpen, Reachable
    <2>2. /\ conn' = c /\ open' = {c} /\ registered' = FALSE
          /\ toCore'[c] = <<Beacon>> /\ toWorker'[c] = <<>>
      BY <1>0, <1>1, <2>1 DEF WorkerConnects, core
    <2>3. /\ Once(<<Beacon>>, "PAIRING_CONFIRM") /\ Ids(<<Beacon>>, "PAIRING_CONFIRM") = {}
          /\ Ends(<<Beacon>>, "PAIRING_CONFIRM", keys')
      BY MessageFacts DEF Once, Ids, Ends
    <2> QED  BY <2>2, <2>3, EmptyFacts DEF OneOpen, Asked, Keyed, Paired
  <1>2. ASSUME NEW c \in Conns, ConnectionLost(c)
        PROVE  OneOpen' /\ Asked' /\ Keyed' /\ Paired'
    <2>1. Joined' => /\ Joined /\ conn' = conn
                     /\ toCore'[conn] = toCore[conn] /\ toWorker'[conn] = toWorker[conn]
      BY <1>0, <1>2 DEF ConnectionLost, Joined, worker
    <2> QED
      BY <1>2, <2>1, QuietKeys DEF ConnectionLost, KeysInv, OneOpen, core, worker
  <1>3. ASSUME NEW c \in Conns, CloseEvent(c)
        PROVE  OneOpen' /\ Asked' /\ Keyed' /\ Paired'
    <2>1. Joined' => /\ Joined /\ conn' = conn
                     /\ toCore'[conn] = toCore[conn] /\ toWorker'[conn] = toWorker[conn]
      BY <1>0, <1>3 DEF CloseEvent, Joined, worker
    <2> QED  BY <1>3, <2>1, QuietKeys DEF CloseEvent, KeysInv, OneOpen, worker
  <1>4. CASE WorkerNotices \/ WorkerRestarts \/ CoreRestarts
    <2>1. ~Joined'
      BY <1>4 DEF WorkerNotices, WorkerRestarts, CoreRestarts, Joined
    <2>2. open' \subseteq open
      BY <1>4 DEF WorkerNotices, WorkerRestarts, CoreRestarts
    <2> QED  BY <2>1, <2>2 DEF KeysInv, OneOpen, Asked, Keyed, Paired
  <1>5. CASE RevokeWorker
    <2>1. Joined' => Joined  BY <1>5 DEF RevokeWorker, Joined, net, worker
    <2> QED
      BY <1>5, <2>1, QuietKeys DEF RevokeWorker, KeysInv, OneOpen, net, worker
  <1>6. CASE SweepDeadWorkers
    <2>1. Joined' => Joined  BY <1>6 DEF SweepDeadWorkers, Joined, worker
    <2> QED  BY <1>6, <2>1, QuietKeys DEF SweepDeadWorkers, KeysInv, OneOpen, worker
  <1> QED  BY <1>1, <1>2, <1>3, <1>4, <1>5, <1>6

\* Core handles a message; a pending confirmation makes the current session, and if
\* none follows it is that of the worker's keys.
LEMMA ReceiveKeys ==
  ASSUME KeysInv, NEW c \in Conns,
         \/ DiscoveryBeacon(c)
         \/ \E n \in Pairings : PairingConfirm(c, n)
         \/ \E s, k \in Pairings : EncryptedTelemetry(c, s, k)
  PROVE  OneOpen' /\ Asked' /\ Keyed' /\ Paired'
  <1>0. PICK m : ReceivesOn(c, m)
    BY DEF DiscoveryBeacon, PairingConfirm, EncryptedTelemetry
  <1>1. /\ OneOpen' /\ conn' = conn /\ session' = session /\ keys' = keys
        /\ Joined' => Joined
    BY <1>0 DEF ReceivesOn, KeysInv, OneOpen, Joined, worker
  <1> SUFFICES ASSUME Joined, Joined'  PROVE Asked' /\ Keyed' /\ Paired'
    BY <1>1 DEF Asked, Keyed, Paired
  <1>2. /\ c = conn /\ toCore[conn] \in Seq(ToCore) /\ toWorker[conn] \in Seq(ToWorker)
        /\ toCore[conn] # <<>> /\ m = Head(toCore[conn])
        /\ toCore'[conn] = Tail(toCore[conn])
    BY <1>0, OneLink DEF ReceivesOn, KeysInv, IInv, TypeOK
  <1>3. /\ Once(toWorker[conn], "PAIRING_REQUEST") /\ Once(toCore[conn], "PAIRING_CONFIRM")
        /\ Ids(toWorker[conn], "PAIRING_REQUEST") \cap Ids(toCore[conn], "PAIRING_CONFIRM") = {}
        /\ Ids(toWorker[conn], "PAIRING_REQUEST") \subseteq inits
        /\ Ids(toCore[conn], "PAIRING_CONFIRM") \subseteq inits
    BY DEF KeysInv, Asked
  <1>4. Shrinks(toCore[conn], toCore'[conn], "PAIRING_CONFIRM", m.type, m.id)
    BY <1>2, ReceiveFacts
  <1>5. /\ Once(toCore'[conn], "PAIRING_CONFIRM")
        /\ Ids(toCore'[conn], "PAIRING_CONFIRM") \subseteq Ids(toCore[conn], "PAIRING_CONFIRM")
    BY <1>3, <1>4 DEF Shrinks
  <1>6. Keyed'  BY <1>1, <1>4 DEF Shrinks, KeysInv, Keyed
  <1>7. ASSUME m.type # "PAIRING_CONFIRM",
               UNCHANGED <<registered, inits, current>>,
               \/ toWorker'[conn] = toWorker[conn]
               \/ toWorker'[conn] = Append(toWorker[conn], UnknownSession)
        PROVE  Asked' /\ Paired'
    <2>1. ASSUME NEW type, type # "ERROR"
          PROVE  Silent(toWorker[conn], toWorker'[conn], type)
      <3>1. UnknownSession \in ToWorker /\ UnknownSession.type # type
        BY <2>1, Messages, MessageFacts
      <3>2. Silent(toWorker[conn], Append(toWorker[conn], UnknownSession), type)
        BY <1>2, <3>1, SendOther
      <3>3. Silent(toWorker[conn], toWorker[conn], type)  BY DEF Silent
      <3> QED  BY <1>7, <3>2, <3>3
    <2>2. Silent(toWorker[conn], toWorker'[conn], "PAIRING_REQUEST")  BY <2>1
    <2>3. Silent(toWorker[conn], toWorker'[conn], "PAIRING_SUCCESS")  BY <2>1
    <2>4. Asked'  BY <1>1, <1>3, <1>5, <1>7, <2>2 DEF Asked, Silent
    <2>5. Paired'  BY <1>1, <1>4, <1>7, <2>3 DEF KeysInv, Paired, Silent, Shrinks
    <2> QED  BY <2>4, <2>5
  <1>8. CASE DiscoveryBeacon(c)
    <2>1. m = Beacon  BY <1>0, <1>8 DEF DiscoveryBeacon, ReceivesOn
    <2> QED  BY <1>6, <1>7, <1>8, <2>1, MessageFacts DEF DiscoveryBeacon
  <1>9. ASSUME NEW s \in Pairings, NEW k \in Pairings, EncryptedTelemetry(c, s, k)
        PROVE  Asked' /\ Keyed' /\ Paired'
    <2>1. m = Telemetry(s, k)  BY <1>0, <1>9 DEF EncryptedTelemetry, ReceivesOn
    <2>2. \/ toWorker'[conn] = toWorker[conn]
          \/ toWorker'[conn] = Append(toWorker[conn], UnknownSession)
      BY <1>2, <1>9, OneLink DEF EncryptedTelemetry, Sent, KeysInv, IInv, TypeOK
    <2> QED  BY <1>6, <1>7, <1>9, <2>1, <2>2, MessageFacts DEF EncryptedTelemetry
  <1>10. ASSUME NEW n \in Pairings, PairingConfirm(c, n)
         PROVE  Asked' /\ Keyed' /\ Paired'
    <2>1. m = Confirm(n) /\ m.type = "PAIRING_CONFIRM" /\ m.id = n
      BY <1>0, <1>10, MessageFacts DEF PairingConfirm, ReceivesOn
    <2>2. /\ n \in Ids(toCore[conn], "PAIRING_CONFIRM")
          /\ n \notin Ids(toCore'[conn], "PAIRING_CONFIRM")
      BY <1>3, <1>4, <2>1 DEF Shrinks
    <2>3. /\ inits' = inits \ {n} /\ current' = n
          /\ toWorker'[conn] = Append(toWorker[conn], Success(n))
      BY <1>2, <1>3, <1>10, <2>2, OneLink
      DEF PairingConfirm, Sent, Joined, KeysInv, IInv, TypeOK
    <2>4. Success(n) \in ToWorker /\ Success(n).type = "PAIRING_SUCCESS" /\ Success(n).id = n
      BY Messages, MessageFacts
    <2>5. Grows(toWorker[conn], toWorker'[conn], "PAIRING_SUCCESS", n)
      BY <1>2, <2>3, <2>4, SendFacts
    <2>6. Silent(toWorker[conn], toWorker'[conn], "PAIRING_REQUEST")
      BY <1>2, <2>3, <2>4, SendOther
    <2>7. Never(toCore'[conn], "PAIRING_CONFIRM") => keys \in {0, n}
      BY <1>4, <2>1 DEF KeysInv, Keyed, Shrinks
    <2>8. Asked'  BY <1>1, <1>3, <1>5, <2>2, <2>3, <2>6 DEF Asked, Silent
    <2>9. Paired'  BY <1>1, <2>3, <2>5, <2>7 DEF Paired, Grows
    <2> QED  BY <1>6, <2>8, <2>9
  <1> QED  BY <1>8, <1>9, <1>10

\* What the worker's timers and its wipe send is no confirmation.
LEMMA SayKeys ==
  ASSUME KeysInv, NEW m \in ToCore, m.type # "PAIRING_CONFIRM",
         conn' = conn, up' = up, open' = open, UNCHANGED <<registered, inits, current>>,
         toWorker' = toWorker,
         Joined => toCore'[conn] \in {toCore[conn], Append(toCore[conn], m)},
         keys' \in {0, keys}, session' \in {0, session}
  PROVE  OneOpen' /\ Asked' /\ Keyed' /\ Paired'
  <1>1. OneOpen' /\ (Joined' <=> Joined)  BY DEF KeysInv, OneOpen, Joined
  <1> SUFFICES ASSUME Joined  PROVE Asked' /\ Keyed' /\ Paired'
    BY <1>1 DEF Asked, Keyed, Paired
  <1>2. Silent(toCore[conn], toCore'[conn], "PAIRING_CONFIRM")
    <2>1. Silent(toCore[conn], Append(toCore[conn], m), "PAIRING_CONFIRM")
      BY OneLink, SendOther
    <2>2. Silent(toCore[conn], toCore[conn], "PAIRING_CONFIRM")  BY DEF Silent
    <2> QED  BY <2>1, <2>2
  <1>3. Asked'  BY <1>2 DEF KeysInv, Asked, Silent
  <1>4. Keyed'  BY <1>2 DEF KeysInv, Keyed, Silent
  <1>5. Paired'  BY <1>2 DEF KeysInv, Paired, Silent
  <1> QED  BY <1>3, <1>4, <1>5

\* A new name is asked for: no message names it yet, and it is pending.
LEMMA AskKeys ==
  ASSUME KeysInv, AskForPairing
  PROVE  OneOpen' /\ Asked' /\ Keyed' /\ Paired'
  <1>1. /\ OneOpen' /\ (Joined' <=> Joined)
        /\ UNCHANGED <<conn, keys, session, registered, current, toCore>>
    BY DEF AskForPairing, KeysInv, OneOpen, Joined, worker
  <1> SUFFICES ASSUME Joined  PROVE Asked' /\ Keyed' /\ Paired'
    BY <1>1 DEF Asked, Keyed, Paired
  <1> DEFINE W == toWorker[conn]
             new == NextName
  <1>2. /\ conn \in Conns /\ toWorker \in [Conns -> Seq(ToWorker)]
        /\ W \in Seq(ToWorker) /\ toCore[conn] \in Seq(ToCore)
    BY OneLink DEF KeysInv, IInv, TypeOK
  <1>3. /\ Request(new) \in ToWorker
        /\ Request(new).type = "PAIRING_REQUEST" /\ Request(new).id = new
    BY FreshFacts, Messages, MessageFacts DEF AskForPairing
  <1>4. /\ new \in Fresh
        /\ Ids(W, "PAIRING_REQUEST") \cap Fresh = {}
        /\ Ids(toCore[conn], "PAIRING_CONFIRM") \cap Fresh = {}
    BY <1>2, FreshFacts, NamesInUse DEF AskForPairing, KeysInv, IInv
  <1>5. toWorker'[conn] = W \/ toWorker'[conn] = Append(W, Request(new))
    BY <1>2, OneLink DEF AskForPairing, Sent
  <1>6. inits' = (inits \ Fresh) \cup {new}  BY DEF AskForPairing
  <1> HIDE DEF W, new
  <1>7. \/ toWorker'[conn] = W
        \/ Grows(W, toWorker'[conn], "PAIRING_REQUEST", new)
    BY <1>2, <1>3, <1>5, SendFacts
  <1>8. Silent(W, toWorker'[conn], "PAIRING_SUCCESS")
    <2>1. Silent(W, Append(W, Request(new)), "PAIRING_SUCCESS")
      BY <1>2, <1>3, SendOther
    <2>2. Silent(W, W, "PAIRING_SUCCESS")  BY DEF Silent
    <2> QED  BY <1>5, <2>1, <2>2
  <1>9. Asked'
    <2>1. /\ Once(W, "PAIRING_REQUEST") /\ Once(toCore[conn], "PAIRING_CONFIRM")
          /\ Ids(W, "PAIRING_REQUEST") \cap Ids(toCore[conn], "PAIRING_CONFIRM") = {}
          /\ Ids(W, "PAIRING_REQUEST") \cup Ids(toCore[conn], "PAIRING_CONFIRM") \subseteq inits
      BY DEF KeysInv, Asked, W
    <2>2. Once(toWorker'[conn], "PAIRING_REQUEST")
      BY <1>4, <1>7, <2>1 DEF Grows
    <2>3. Ids(toWorker'[conn], "PAIRING_REQUEST") \subseteq Ids(W, "PAIRING_REQUEST") \cup {new}
      BY <1>7 DEF Grows
    <2> QED  BY <1>1, <1>4, <1>6, <2>1, <2>2, <2>3 DEF Asked
  <1>10. Keyed'  BY <1>1 DEF KeysInv, Keyed
  <1>11. Paired'  BY <1>1, <1>8 DEF KeysInv, Paired, Silent, W
  <1> QED  BY <1>9, <1>10, <1>11

\* The worker answers a request with a confirmation of the same name, by which its
\* keys go; a success gives it the session it names.
LEMMA WorkerKeys ==
  ASSUME KeysInv,
         \/ \E n \in Pairings : PairingRequest(n) \/ PairingSuccess(n)
         \/ SessionInvalidated \/ RunWipe
         \/ SendDiscoveryBeacon \/ SendTelemetryReport
  PROVE  OneOpen' /\ Asked' /\ Keyed' /\ Paired'
  <1>0. /\ toCore \in [Conns -> Seq(ToCore)] /\ toWorker \in [Conns -> Seq(ToWorker)]
        /\ conn \in Conns \cup {0}
        /\ keys \in Pairings \cup {0} /\ session \in Pairings \cup {0}
    BY DEF KeysInv, IInv, TypeOK
  <1>1. ASSUME NEW m, WorkerReceives(m), conn' = conn
        PROVE  /\ OneOpen' /\ (Joined' <=> Joined)
               /\ toWorker[conn] \in Seq(ToWorker) /\ toCore[conn] \in Seq(ToCore)
               /\ toWorker[conn] # <<>> /\ m = Head(toWorker[conn])
               /\ toWorker'[conn] = Tail(toWorker[conn])
               /\ UNCHANGED <<registered, inits, current>>
    BY <1>0, <1>1 DEF WorkerReceives, KeysInv, OneOpen, Joined, core
  <1>2. ASSUME NEW m, WorkerReceives(m), conn' = conn
        PROVE  \A type : Shrinks(toWorker[conn], toWorker'[conn], type, m.type, m.id)
    <2>1. /\ toWorker[conn] \in Seq(ToWorker) /\ toWorker[conn] # <<>>
          /\ m = Head(toWorker[conn]) /\ toWorker'[conn] = Tail(toWorker[conn])
      BY <1>1, <1>2
    <2>2. ASSUME NEW type
          PROVE  Shrinks(toWorker[conn], Tail(toWorker[conn]), type,
                         Head(toWorker[conn]).type, Head(toWorker[conn]).id)
      BY <2>1, ReceiveFacts
    <2> QED  BY <2>1, <2>2
  <1>3. ASSUME NEW n \in Pairings, PairingRequest(n)
        PROVE  OneOpen' /\ Asked' /\ Keyed' /\ Paired'
    <2>1. WorkerReceives(Request(n)) /\ conn' = conn /\ keys' = n /\ session' = session
      BY <1>3 DEF PairingRequest, WorkerReceives
    <2> SUFFICES ASSUME Joined  PROVE Asked' /\ Keyed' /\ Paired'
      BY <1>1, <2>1 DEF Asked, Keyed, Paired
    <2>2. /\ Request(n).type = "PAIRING_REQUEST" /\ Request(n).id = n
          /\ Confirm(n).type = "PAIRING_CONFIRM" /\ Confirm(n).id = n /\ Confirm(n) \in ToCore
      BY Messages, MessageFacts
    <2>3. toCore'[conn] = Append(toCore[conn], Confirm(n))
      BY <1>0, <1>3 DEF PairingRequest, Sent, Joined
    <2>4. /\ Once(toWorker[conn], "PAIRING_REQUEST") /\ Once(toCore[conn], "PAIRING_CONFIRM")
          /\ Ids(toWorker[conn], "PAIRING_REQUEST") \cap Ids(toCore[conn], "PAIRING_CONFIRM") = {}
          /\ Ids(toWorker[conn], "PAIRING_REQUEST") \subseteq inits
          /\ Ids(toCore[conn], "PAIRING_CONFIRM") \subseteq inits
      BY DEF KeysInv, Asked
    <2>5. /\ n \in Ids(toWorker[conn], "PAIRING_REQUEST")
          /\ n \notin Ids(toWorker'[conn], "PAIRING_REQUEST")
      BY <1>2, <2>1, <2>2, <2>4 DEF Shrinks
    <2>6. Grows(toCore[conn], toCore'[conn], "PAIRING_CONFIRM", n)
      BY <1>1, <2>1, <2>2, <2>3, SendFacts
    <2>7. Asked'
      <3>1. Once(toCore'[conn], "PAIRING_CONFIRM")
        BY <2>4, <2>5, <2>6 DEF Grows
      <3>2. Ids(toCore'[conn], "PAIRING_CONFIRM")
              = Ids(toCore[conn], "PAIRING_CONFIRM") \cup {n}
        BY <2>6 DEF Grows
      <3>3. Shrinks(toWorker[conn], toWorker'[conn], "PAIRING_REQUEST", Request(n).type,
                    Request(n).id)
        BY <1>2, <2>1
      <3> QED  BY <1>1, <2>1, <2>4, <2>5, <3>1, <3>2, <3>3 DEF Asked, Shrinks
    <2>8. Keyed'  BY <2>1, <2>6 DEF Keyed, Grows
    <2>9. Paired'
      <3>1. Shrinks(toWorker[conn], toWorker'[conn], "PAIRING_SUCCESS", "PAIRING_REQUEST", n)
        BY <1>2, <2>1, <2>2
      <3> QED  BY <1>1, <2>1, <2>6, <3>1 DEF KeysInv, Paired, Grows, Shrinks
    <2> QED  BY <2>7, <2>8, <2>9
  <1>4. ASSUME NEW n \in Pairings, PairingSuccess(n)
        PROVE  OneOpen' /\ Asked' /\ Keyed' /\ Paired'
    <2>1. /\ WorkerReceives(Success(n)) /\ conn' = conn
          /\ keys' = keys /\ session' = n /\ toCore' = toCore
      BY <1>4 DEF PairingSuccess, WorkerReceives
    <2> SUFFICES ASSUME Joined  PROVE Asked' /\ Keyed' /\ Paired'
      BY <1>1, <2>1 DEF Asked, Keyed, Paired
    <2>2. Success(n).type = "PAIRING_SUCCESS" /\ Success(n).id = n  BY MessageFacts
    <2>3. /\ Shrinks(toWorker[conn], toWorker'[conn], "PAIRING_REQUEST", "PAIRING_SUCCESS", n)
          /\ Shrinks(toWorker[conn], toWorker'[conn], "PAIRING_SUCCESS", "PAIRING_SUCCESS", n)
      BY <1>2, <2>1, <2>2
    <2>4. Asked'  BY <1>1, <2>1, <2>3 DEF KeysInv, Asked, Shrinks
    <2>5. Keyed'  BY <2>1 DEF KeysInv, Keyed
    <2>6. Paired'  BY <1>1, <2>1, <2>3 DEF KeysInv, Paired, Shrinks
    <2> QED  BY <2>4, <2>5, <2>6
  <1>5. CASE SessionInvalidated
    <2>1. /\ WorkerReceives(UnknownSession) /\ conn' = conn
          /\ keys' = keys /\ session' = session /\ toCore' = toCore
      BY <1>5 DEF SessionInvalidated, WorkerReceives
    <2>2. \A type : Shrinks(toWorker[conn], toWorker'[conn], type, "ERROR", UnknownSession.id)
      BY <1>2, <2>1, MessageFacts
    <2>3. Asked'  BY <1>1, <2>1, <2>2 DEF KeysInv, Asked, Shrinks
    <2>4. Keyed'  BY <1>1, <2>1 DEF KeysInv, Keyed
    <2>5. Paired'  BY <1>1, <2>1, <2>2 DEF KeysInv, Paired, Shrinks
    <2> QED  BY <1>1, <2>1, <2>3, <2>4, <2>5
  <1>6. CASE RunWipe
    <2>1. Beacon \in ToCore /\ Beacon.type # "PAIRING_CONFIRM"
      BY Messages, MessageFacts
    <2>2. Joined => toCore'[conn] \in {toCore[conn], Append(toCore[conn], Beacon)}
      BY <1>0, <1>6 DEF RunWipe, Sent, Joined
    <2> QED  BY <1>6, <2>1, <2>2, SayKeys DEF RunWipe, core
  <1>7. ASSUME NEW m \in ToCore, m.type # "PAIRING_CONFIRM", WorkerTimer(m)
        PROVE  OneOpen' /\ Asked' /\ Keyed' /\ Paired'
    <2>1. Joined => toCore'[conn] = Append(toCore[conn], m)
      BY <1>0, <1>7 DEF WorkerTimer, Joined
    <2> QED  BY <1>7, <2>1, SayKeys DEF WorkerTimer, core, worker
  <1>8. CASE SendDiscoveryBeacon
    BY <1>7, <1>8, Messages, MessageFacts DEF SendDiscoveryBeacon
  <1>9. CASE SendTelemetryReport
    <2>1. session \in Pairings /\ keys \in Pairings
      BY <1>0, <1>9 DEF SendTelemetryReport
    <2> QED  BY <1>7, <1>9, <2>1, Messages, MessageFacts DEF SendTelemetryReport
  <1> QED  BY <1>3, <1>4, <1>5, <1>6, <1>8, <1>9

\* The invariant of keys and sessions holds at the start.
LEMMA KeysInit == Init => KeysInv
  <1>1. Init => OneOpen /\ Asked /\ Keyed /\ Paired
    BY DEF Init, OneOpen, Joined, Asked, Keyed, Paired
  <1> QED  BY <1>1, InitInv DEF KeysInv

\* Every step keeps it when no connection is half-open.
LEMMA KeysNext ==
  ASSUME ~HalfOpen, KeysInv, [Next]_vars
  PROVE  KeysInv'
  <1>0. IInv'  BY NextInv DEF KeysInv
  <1>1. CASE UNCHANGED vars
    BY <1>0, <1>1
    DEF vars, net, core, worker, KeysInv, OneOpen, Joined, Asked, Keyed, Paired
  <1>2. CASE CoreStep
    <2>1. CASE RunImmediate  BY <1>0, <2>1, AskKeys DEF RunImmediate, KeysInv
    <2> QED  BY <1>0, <1>2, <2>1, NetworkKeys, ReceiveKeys DEF CoreStep, KeysInv
  <1>3. CASE WorkerStep
    BY <1>0, <1>3, NetworkKeys, WorkerKeys DEF WorkerStep, KeysInv
  <1>4. CASE FaultStep
    <2>1. CASE UserPairs  BY <1>0, <2>1, AskKeys DEF UserPairs, KeysInv
    <2> QED  BY <1>0, <1>4, <2>1, NetworkKeys DEF FaultStep, KeysInv
  <1> QED  BY <1>1, <1>2, <1>3, <1>4 DEF Next

\* When Core sees a connection close before the worker is back, a registered worker
\* and Core use one session and one set of keys as soon as no pairing is under way,
\* whatever was lost, restarted, paired again and revoked before (KeysAgree).
THEOREM KeysTheorem ==
  ASSUME ~HalfOpen
  PROVE  Spec => []KeysAgree
  <1>1. KeysInv => KeysAgree
    <2> SUFFICES ASSUME KeysInv, registered, Settled, session # 0, keys # 0
                 PROVE  session = current /\ keys = current
      BY DEF KeysAgree
    <2>1. Joined /\ toCore[conn] \in Seq(ToCore)
      BY OneLink DEF Settled, Joined
    <2>2. Never(toCore[conn], "PAIRING_CONFIRM")
      BY <2>1 DEF Settled, Never, ToSet
    <2>3. Never(toWorker[conn], "PAIRING_SUCCESS")
      BY EmptyFacts DEF Settled
    <2> QED  BY <2>1, <2>2, <2>3 DEF KeysInv, Paired
  <1>2. KeysInv /\ [Next]_vars => KeysInv'  BY KeysNext
  <1> QED  BY <1>1, <1>2, KeysInit, PTL DEF Spec

=============================================================================
