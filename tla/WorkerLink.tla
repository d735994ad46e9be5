------------------------------- MODULE WorkerLink -------------------------------
(***************************************************************************)
(* One worker device and Core: connections, pairing, sessions, the         *)
(* registry and the watchdog (core/src/transport_server.ts,                *)
(* pairing_service.ts, worker_manager.ts and the macOS worker's            *)
(* SwarmClient.swift, PairingManager.swift).  Everything Core keeps here   *)
(* is keyed by the device, so one device shows it all.                     *)
(*                                                                         *)
(* A pairing is named by its initiation: the keys both sides derive from   *)
(* it and the session confirmPairing makes of it have the same name.  A    *)
(* name nobody can mention any more is used again.  Envelopes are the      *)
(* telemetry; a connection delivers in order or loses a suffix.            *)
(***************************************************************************)
EXTENDS Naturals, Sequences, FiniteSets, SequencesExt

CONSTANTS
  Conns,      \* names of connections, \subseteq 1 .. n; used again when both ends forgot
  Pairings,   \* names of initiations, keys and sessions
  Loopback,   \* whether a beacon may come from the host itself: then Core pairs
              \* without the user; {TRUE} is a worker that runs on the host
  HalfOpen,   \* the worker may reconnect before Core saw the old connection close
  MaxQueue,   \* bound: messages under way when a timer of the worker fires
  Faults,     \* what may happen besides: subset of FaultKinds
  MaxFaults   \* bound: how often

FaultKinds == {"connection", "worker", "core", "pair", "revoke"}

ASSUME LinkAssumption ==
  /\ Conns \subseteq Nat \ {0} /\ Pairings \subseteq Nat \ {0}
  /\ Loopback \subseteq BOOLEAN /\ Loopback # {} /\ HalfOpen \in BOOLEAN
  /\ MaxQueue \in Nat \ {0}
  /\ Faults \subseteq FaultKinds /\ MaxFaults \in Nat

VARIABLES
  up,          \* connections that carry messages
  open,        \* connections whose close event Core has not handled
  known,       \* connections on which Core learnt the device (_workerDeviceId)
  toCore, toWorker,
  registered,  \* the device is in WorkerManager.workers
  socket,      \* workerSockets.get(device), 0 if absent
  inits,       \* _pending_init_*
  sessions,    \* activeSessions, by session
  current,     \* activeSessions, by device, 0 if absent
  immediate,   \* a setImmediate callback will ask for pairing
  conn,        \* the worker's connection, 0 if it has none
  session,     \* activeSessionId, 0 for nil
  keys,        \* the derived keys, 0 for nil
  reporting,   \* the telemetry timer runs
  beaconing,   \* the discovery timer runs
  wipes,       \* main-queue blocks that will forget the session
  faults       \* how many happened, and whether the user revoked the worker

net == <<up, open, known, toCore, toWorker>>
core == <<registered, socket, inits, sessions, current, immediate>>
worker == <<conn, session, keys, reporting, beaconing, wipes>>
vars == <<net, core, worker, faults>>

Beacon == [type |-> "DISCOVERY_BEACON"]
Confirm(n) == [type |-> "PAIRING_CONFIRM", id |-> n]
Telemetry(s, k) == [type |-> "ENCRYPTED_TELEMETRY", id |-> s, key |-> k]
Request(n) == [type |-> "PAIRING_REQUEST", id |-> n]
Success(n) == [type |-> "PAIRING_SUCCESS", id |-> n]
UnknownSession == [type |-> "ERROR"]

ToCore == {Beacon} \cup {Confirm(n) : n \in Pairings}
            \cup {Telemetry(s, k) : s \in Pairings, k \in Pairings}
ToWorker == {UnknownSession} \cup {Request(n) : n \in Pairings}
              \cup {Success(n) : n \in Pairings}

Init ==
  /\ up = {} /\ open = {} /\ known = {}
  /\ toCore = [c \in Conns |-> <<>>] /\ toWorker = [c \in Conns |-> <<>>]
  /\ registered = FALSE /\ socket = 0
  /\ inits = {} /\ sessions = {} /\ current = 0 /\ immediate = FALSE
  /\ conn = 0 /\ session = 0 /\ keys = 0
  /\ reporting = FALSE /\ beaconing = FALSE /\ wipes = 0
  /\ faults = [number |-> 0, revoked |-> FALSE]

-----------------------------------------------------------------------------
(* Helpers. *)

\* A message sent on a connection that is down is lost.
Sent(queues, c, m) ==
  IF c \in up THEN [queues EXCEPT ![c] = Append(@, m)] ELSE queues

FaultCounts == [number : 0 .. MaxFaults, revoked : BOOLEAN]

Fault(kind) ==
  /\ kind \in Faults /\ faults.number < MaxFaults
  /\ faults' = [number |-> faults.number + 1,
                revoked |-> faults.revoked \/ kind = "revoke"]

Mentioned(n) ==
  \/ n \in {current, session, keys}
  \/ \E c \in Conns :
       \/ \E m \in ToSet(toWorker[c]) : m # UnknownSession /\ m.id = n
       \/ \E m \in ToSet(toCore[c]) :
            m # Beacon /\ (m.id = n \/ (m.type = "ENCRYPTED_TELEMETRY" /\ m.key = n))

Fresh == {n \in Pairings : ~Mentioned(n)}
NextName == CHOOSE n \in Fresh : TRUE

-----------------------------------------------------------------------------
(* The connection. *)

\* connect, and what the worker does when it is ready; a beacon announces it.  It
\* waited two seconds: Core has handled what reached it on the old connection.
WorkerConnects(c) ==
  /\ conn = 0 /\ c \notin open
  /\ HalfOpen \/ open = {}
  /\ \A d \in open : toCore[d] = <<>>
  /\ conn' = c
  /\ up' = up \cup {c} /\ open' = open \cup {c} /\ known' = known \ {c}
  /\ toCore' = [toCore EXCEPT ![c] = <<Beacon>>]
  /\ toWorker' = [toWorker EXCEPT ![c] = <<>>]
  /\ reporting' = FALSE
  /\ beaconing' = (session = 0)
  /\ UNCHANGED <<core, session, keys, wipes, faults>>

\* The network loses the connection; Core may have received what was sent.
ConnectionLost(c) ==
  /\ Fault("connection")
  /\ c \in up
  /\ up' = up \ {c}
  /\ toWorker' = [toWorker EXCEPT ![c] = <<>>]
  /\ \/ UNCHANGED toCore
     \/ toCore' = [toCore EXCEPT ![c] = <<>>]
  /\ UNCHANGED <<open, known, core, worker>>

WorkerNotices ==
  /\ conn # 0 /\ conn \notin up
  /\ conn' = 0
  /\ beaconing' = FALSE
  /\ toWorker' = [toWorker EXCEPT ![conn] = <<>>]
  /\ UNCHANGED <<up, open, known, toCore, core, session, keys, reporting, wipes, faults>>

WorkerRestarts ==
  /\ Fault("worker")
  /\ conn' = 0 /\ up' = up \ {conn}
  /\ session' = 0 /\ keys' = 0
  /\ reporting' = FALSE /\ beaconing' = FALSE /\ wipes' = 0
  /\ toWorker' = [c \in Conns |-> IF c = conn THEN <<>> ELSE toWorker[c]]
  /\ UNCHANGED <<open, known, toCore, core>>

CoreRestarts ==
  /\ Fault("core")
  /\ up' = {} /\ open' = {} /\ known' = {}
  /\ toCore' = [c \in Conns |-> <<>>]
  /\ registered' = FALSE /\ socket' = 0
  /\ inits' = {} /\ sessions' = {} /\ current' = 0 /\ immediate' = FALSE
  /\ UNCHANGED <<toWorker, worker>>

\* Mutant: the device stays registered when its connection closes.
CloseEventForgets(c) ==
  /\ c \in open \ up
  /\ open' = open \ {c}
  /\ toCore' = [toCore EXCEPT ![c] = <<>>]
  /\ socket' = IF socket = c THEN 0 ELSE socket
  /\ UNCHANGED <<up, known, toWorker, registered, inits, sessions, current, immediate,
                 worker, faults>>

\* The close event.  It unregisters the device of the connection, whether or not
\* the device has another connection by now.
CloseEvent(c) ==
  /\ c \in open \ up
  /\ open' = open \ {c}
  /\ toCore' = [toCore EXCEPT ![c] = <<>>]
  /\ socket' = IF c \in known /\ socket = c THEN 0 ELSE socket
  /\ registered' = (registered /\ c \notin known)
  /\ UNCHANGED <<up, known, toWorker, inits, sessions, current, immediate, worker, faults>>

-----------------------------------------------------------------------------
(* Core handles a message.  The map entry comes first: another connection of *)
(* the device is closed and replaced.                                        *)

ReceivesOn(c, m) ==
  /\ c \in open
  /\ toCore[c] # <<>> /\ m = Head(toCore[c])
  /\ toCore' = [toCore EXCEPT ![c] = Tail(@)]
  /\ up' = IF socket \in {0, c} THEN up ELSE up \ {socket}
  /\ socket' = c
  /\ known' = known \cup {c}
  /\ UNCHANGED <<open, worker, faults>>

DiscoveryBeacon(c) ==
  /\ ReceivesOn(c, Beacon)
  /\ ~immediate
  /\ \E isLoopback \in Loopback : immediate' = (isLoopback /\ ~registered)
  /\ UNCHANGED <<toWorker, registered, inits, sessions, current>>

\* Mutant: a session the device already has stays current.
ConfirmKeepsSession(c, n) ==
  /\ ReceivesOn(c, Confirm(n))
  /\ IF n \in inits
     THEN /\ inits' = inits \ {n}
          /\ sessions' = sessions \cup {n}
          /\ current' = IF current = 0 THEN n ELSE current
          /\ registered' = TRUE
          /\ toWorker' = Sent(toWorker, c, Success(n))
     ELSE UNCHANGED <<inits, sessions, current, registered, toWorker>>
  /\ UNCHANGED immediate

\* Mutant: a device that had a session is taken to be registered.
ConfirmRegistersNew(c, n) ==
  /\ ReceivesOn(c, Confirm(n))
  /\ IF n \in inits
     THEN /\ inits' = inits \ {n}
          /\ sessions' = sessions \cup {n}
          /\ current' = n
          /\ registered' = (registered \/ current = 0)
          /\ toWorker' = Sent(toWorker, c, Success(n))
     ELSE UNCHANGED <<inits, sessions, current, registered, toWorker>>
  /\ UNCHANGED immediate

\* confirmPairing and registerWorker.  An initiation that is not pending throws;
\* the worker ignores the error.
PairingConfirm(c, n) ==
  /\ ReceivesOn(c, Confirm(n))
  /\ IF n \in inits
     THEN /\ inits' = inits \ {n}
          /\ sessions' = sessions \cup {n}
          /\ current' = n
          /\ registered' = TRUE
          /\ toWorker' = Sent(toWorker, c, Success(n))
     ELSE UNCHANGED <<inits, sessions, current, registered, toWorker>>
  /\ UNCHANGED immediate

\* decryptEnvelope throws for an unknown session or the wrong key, updateTelemetry
\* for a device that is not registered; the worker reacts only to the first.
EncryptedTelemetry(c, s, k) ==
  /\ ReceivesOn(c, Telemetry(s, k))
  /\ toWorker' = IF s \in sessions THEN toWorker ELSE Sent(toWorker, c, UnknownSession)
  /\ UNCHANGED <<registered, inits, sessions, current, immediate>>

\* createPairingInitiation and sendPairingRequest.
AskForPairing ==
  /\ Fresh # {}
  /\ inits' = (inits \ Fresh) \cup {NextName}
  /\ sessions' = sessions \ Fresh
  /\ IF socket # 0 THEN toWorker' = Sent(toWorker, socket, Request(NextName))
                   ELSE UNCHANGED toWorker
  /\ UNCHANGED <<up, open, known, toCore, registered, socket, current, worker>>

RunImmediate ==
  /\ immediate /\ immediate' = FALSE
  /\ AskForPairing
  /\ UNCHANGED faults

\* The IPC requests initiatePairing and revokeWorker.
UserPairs == Fault("pair") /\ AskForPairing /\ UNCHANGED immediate

RevokeWorker ==
  /\ Fault("revoke")
  /\ sessions' = sessions \ {current}
  /\ current' = 0
  /\ registered' = FALSE
  /\ UNCHANGED <<net, socket, inits, immediate, worker>>

\* Five telemetry periods fit in the heartbeat timeout, and it outlasts messages
\* under way: a worker that can report, or will when they arrive, is in time.
InTime ==
  /\ conn # 0 /\ conn \in up
  /\ \/ reporting /\ session # 0 /\ keys = session /\ session \in sessions
     \/ toCore[conn] # <<>> \/ toWorker[conn] # <<>> \/ immediate \/ wipes > 0

SweepDeadWorkers ==
  /\ registered
  /\ socket = 0 \/ socket \notin up \/ ~InTime
  /\ registered' = FALSE
  /\ socket' = 0
  /\ up' = up \ {socket}
  /\ UNCHANGED <<open, known, toCore, toWorker, inits, sessions, current, immediate,
                 worker, faults>>

-----------------------------------------------------------------------------
(* The worker. *)

WorkerReceives(m) ==
  /\ conn # 0
  /\ toWorker[conn] # <<>> /\ m = Head(toWorker[conn])
  /\ toWorker' = [toWorker EXCEPT ![conn] = Tail(@)]
  /\ UNCHANGED <<up, open, known, core, conn, faults>>

\* initiatePairing with auto-pairing: the new keys replace those of the session.
PairingRequest(n) ==
  /\ WorkerReceives(Request(n))
  /\ keys' = n
  /\ toCore' = Sent(toCore, conn, Confirm(n))
  /\ UNCHANGED <<session, reporting, beaconing, wipes>>

PairingSuccess(n) ==
  /\ WorkerReceives(Success(n))
  /\ session' = n
  /\ beaconing' = FALSE
  /\ reporting' = TRUE
  /\ UNCHANGED <<toCore, keys, wipes>>

SessionInvalidated ==
  /\ WorkerReceives(UnknownSession)
  /\ wipes' = wipes + 1
  /\ UNCHANGED <<toCore, session, keys, reporting, beaconing>>

\* The main queue forgets the session and announces the worker again, later than
\* the network queue saw the error.
RunWipe ==
  /\ wipes > 0 /\ wipes' = wipes - 1
  /\ reporting' = FALSE /\ session' = 0 /\ keys' = 0
  /\ IF conn # 0 THEN toCore' = Sent(toCore, conn, Beacon) ELSE UNCHANGED toCore
  /\ UNCHANGED <<up, open, known, toWorker, core, conn, beaconing, faults>>

\* A timer of the main queue fires, seconds after the last one.
WorkerTimer(m) ==
  /\ conn \in up /\ wipes = 0
  /\ Len(toCore[conn]) + Len(toWorker[conn]) < MaxQueue
  /\ ~immediate
  /\ toCore' = [toCore EXCEPT ![conn] = Append(@, m)]
  /\ UNCHANGED <<up, open, known, toWorker, core, worker, faults>>

SendDiscoveryBeacon ==
  /\ beaconing /\ session = 0
  /\ conn # 0
  /\ WorkerTimer(Beacon)

SendTelemetryReport ==
  /\ reporting /\ session # 0 /\ keys # 0 /\ conn # 0
  /\ WorkerTimer(Telemetry(session, keys))

-----------------------------------------------------------------------------

CoreStep ==
  \/ \E c \in Conns :
       \/ CloseEvent(c) \/ DiscoveryBeacon(c)
       \/ \E n \in Pairings : PairingConfirm(c, n)
       \/ \E s, k \in Pairings : EncryptedTelemetry(c, s, k)
  \/ RunImmediate \/ SweepDeadWorkers

WorkerStep ==
  \/ \E c \in Conns : WorkerConnects(c)
  \/ WorkerNotices
  \/ \E n \in Pairings : PairingRequest(n) \/ PairingSuccess(n)
  \/ SessionInvalidated \/ RunWipe
  \/ SendDiscoveryBeacon \/ SendTelemetryReport

FaultStep ==
  \/ \E c \in Conns : ConnectionLost(c)
  \/ WorkerRestarts \/ CoreRestarts \/ UserPairs \/ RevokeWorker

Next == CoreStep \/ WorkerStep \/ FaultStep

\* Timers fire, queues are served, a lost connection is noticed.  Nothing is fair
\* about the network, the user and the restarts.
Fairness ==
  /\ \A c \in Conns :
       /\ WF_vars(CloseEvent(c)) /\ WF_vars(WorkerConnects(c))
       /\ WF_vars(\/ DiscoveryBeacon(c)
                  \/ \E n \in Pairings : PairingConfirm(c, n)
                  \/ \E s, k \in Pairings : EncryptedTelemetry(c, s, k))
  /\ WF_vars(RunImmediate) /\ WF_vars(SweepDeadWorkers)
  /\ WF_vars(WorkerNotices)
  /\ WF_vars(SessionInvalidated \/ \E n \in Pairings : PairingRequest(n) \/ PairingSuccess(n))
  /\ WF_vars(RunWipe)
  /\ WF_vars(SendDiscoveryBeacon) /\ WF_vars(SendTelemetryReport)

Spec == Init /\ [][Next]_vars
FairSpec == Spec /\ Fairness

-----------------------------------------------------------------------------

\* Every variable has its type.
TypeOK ==
  /\ up \subseteq open /\ open \subseteq Conns /\ known \subseteq Conns
  /\ toCore \in [Conns -> Seq(ToCore)] /\ toWorker \in [Conns -> Seq(ToWorker)]
  /\ registered \in BOOLEAN /\ socket \in Conns \cup {0}
  /\ inits \subseteq Pairings /\ sessions \subseteq Pairings
  /\ current \in Pairings \cup {0} /\ immediate \in BOOLEAN
  /\ conn \in Conns \cup {0}
  /\ session \in Pairings \cup {0} /\ keys \in Pairings \cup {0}
  /\ reporting \in BOOLEAN /\ beaconing \in BOOLEAN /\ wipes \in Nat
  /\ faults \in FaultCounts

\* A registered worker can be sent work: there is a session to encrypt it with and
\* a connection whose close Core will still hear of (sendExecuteTask relies on the
\* registry; encryptEnvelope throws without a session).
RegisteredIsReachable ==
  registered => /\ current \in sessions
                /\ socket \in open

\* When no pairing is under way, a registered worker with a session uses the keys
\* and the session Core uses (activateSession, computeSharedSecretAndSas).
Settled ==
  /\ conn # 0 /\ conn \in up /\ socket = conn
  /\ toWorker[conn] = <<>> /\ wipes = 0
  /\ \A m \in ToSet(toCore[conn]) : m.type # "PAIRING_CONFIRM"

KeysAgree ==
  registered /\ Settled /\ session # 0 /\ keys # 0 =>
    session = current /\ keys = current

\* A worker on the host that lost its registration is registered again, unless the
\* user revoked it (sweepDeadWorkers, DISCOVERY_BEACON, scheduleAutoReconnect).
WorkerComesBack == ~registered /\ ~faults.revoked ~> registered \/ faults.revoked

=============================================================================
