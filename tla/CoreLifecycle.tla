----------------------------- MODULE CoreLifecycle -----------------------------
(***************************************************************************)
(* The Core daemons of one machine and the editor extension that starts,   *)
(* probes, stops and restarts them (vscode-extension: process_manager.ts,  *)
(* core_ipc_client.ts, extension.ts; core: index.ts and the start and stop *)
(* of ipc_server.ts and transport_server.ts).                              *)
(*                                                                         *)
(* A Core takes the transport port, then the socket path.  The extension   *)
(* knows a Core by the child process it spawned and by what answers on the *)
(* socket path; the two need not be the same Core.                         *)
(*                                                                         *)
(* The extension is one event loop: an event or a timer is handled only    *)
(* when no continuation is ready (Quiet).  Its processes are the user's    *)
(* commands and the refresh timer; each awaits one thing at a time.  What  *)
(* a Core does between two steps of the extension it may as well do before *)
(* the first of them, so Cores take their steps when the loop is quiet.    *)
(***************************************************************************)
EXTENDS Naturals

CONSTANTS
  Own,         \* Cores the extension can spawn
  External,    \* Cores somebody starts in a terminal
  Commands,    \* the user's commands, 1 .. n, issued in this order
  MaxPolls,    \* probes of a Core that was spawned (20)
  PromptExit,  \* a Core told to stop is gone before the next one is spawned
  MaxCrashes,  \* bound: Cores that die by themselves or are ended elsewhere
  Nowhere      \* the end of a socket that was refused

Cores == Own \cup External
RefreshTimer == 0
Procs == Commands \cup {RefreshTimer}
None == 0

ASSUME LifecycleAssumption ==
  /\ Cores \subseteq Nat \ {0} /\ Own \cap External = {}
  /\ Commands \subseteq Nat \ {0}
  /\ MaxPolls \in Nat \ {0} /\ PromptExit \in BOOLEAN /\ MaxCrashes \in Nat
  /\ Nowhere \notin Cores \cup {None}

VARIABLES
  phase,      \* how far each Core is
  termed,     \* Cores with a signal they have not handled
  port,       \* the Core that listens on the transport port
  file,       \* the Core whose socket is at the path; a dead one's file is stale
  crashes,
  process,    \* ProcessManager.coreProcess
  owned,      \* ProcessManager.coreOwned
  stopped,    \* Cores stopCore sent a signal to and whose exit is still to come, as history
  open,       \* how many connected sockets the client has to each Core
  refused,    \* how many sockets had their error, not yet their close event
  socket,     \* CoreIpcClient.socket, by the Core it leads to
  connected,  \* CoreIpcClient.isConnected
  proc        \* commands and the refresh timer

coreVars == <<phase, termed, port, file, crashes>>
managerVars == <<process, owned, stopped>>
clientVars == <<open, refused, socket, connected>>
vars == <<coreVars, managerVars, clientVars, proc>>

Phase == {"unborn", "booting", "listening", "serving", "stopping", "exited", "reaped"}
Alive(k) == phase[k] \notin {"unborn", "exited", "reaped"}

\* Where a socket leads: the kernel accepts or refuses it when it is made.

Ends == Cores \cup {Nowhere}

\* What a process runs, why it asks Core, and where the socket it waits on leads.
Ready == {"check", "healthy", "unhealthy"}
Proc == [pc : Ready \cup {"idle", "delay", "connecting", "asking", "polling", "done"},
         command : {"start", "stop", "restart", "refresh"},
         for : {"first", "probe", "view"},
         polls : 0 .. MaxPolls - 1,
         to : Ends \cup {None}]
Idle == [pc |-> "idle", command |-> "refresh", for |-> "view", polls |-> 0,
         to |-> None]

Quiet == \A p \in Procs : proc[p].pc \notin Ready

Init ==
  /\ phase = [k \in Cores |-> "unborn"]
  /\ termed = {} /\ port = None /\ file = None /\ crashes = 0
  /\ process = None /\ owned = FALSE /\ stopped = {}
  /\ open = [k \in Cores |-> 0] /\ refused = 0
  /\ socket = None /\ connected = FALSE
  /\ proc = [p \in Procs |-> Idle]

-----------------------------------------------------------------------------
(* Core. *)

StartExternal(k) ==
  /\ Quiet
  /\ k \in External /\ phase[k] = "unborn"
  /\ phase' = [phase EXCEPT ![k] = "booting"]
  /\ UNCHANGED <<termed, port, file, crashes, managerVars, clientVars, proc>>

ReleasePort(k) == port' = IF port = k THEN None ELSE port

Dies(k) ==
  /\ phase' = [phase EXCEPT ![k] = "exited"]
  /\ ReleasePort(k)
  /\ termed' = termed \ {k}

\* TransportServer.start: a port in use is an uncaught error.
TakePort(k) ==
  /\ Quiet
  /\ phase[k] = "booting"
  /\ IF port = None
     THEN /\ port' = k /\ phase' = [phase EXCEPT ![k] = "listening"]
          /\ UNCHANGED termed
     ELSE Dies(k)
  /\ UNCHANGED <<file, crashes, managerVars, clientVars, proc>>

\* Mutant: the IPC server is started before the transport server.
ServeBeforePort(k) ==
  /\ Quiet
  /\ phase[k] \in {"booting", "listening"}
  /\ file' = k
  /\ phase' = [phase EXCEPT ![k] = "serving"]
  /\ UNCHANGED <<termed, port, crashes, managerVars, clientVars, proc>>

\* IpcServer.start removes whatever is at the path.
Serve(k) ==
  /\ Quiet
  /\ phase[k] = "listening"
  /\ file' = k
  /\ phase' = [phase EXCEPT ![k] = "serving"]
  /\ UNCHANGED <<termed, port, crashes, managerVars, clientVars, proc>>

\* SIGTERM or SIGINT: before the handlers are installed it ends the process.  Shutdown
\* destroys the clients' sockets and closes the IPC server, which removes the path.
HandleSignal(k) ==
  /\ Quiet
  /\ k \in termed /\ Alive(k)
  /\ IF phase[k] = "serving"
     THEN /\ phase' = [phase EXCEPT ![k] = "stopping"]
          /\ termed' = termed \ {k}
          /\ file' = None
          /\ UNCHANGED port
     ELSE Dies(k) /\ UNCHANGED file
  /\ UNCHANGED <<crashes, managerVars, clientVars, proc>>

\* The transport server is closed when its announcement has been withdrawn.
ClosePort(k) ==
  /\ Quiet
  /\ phase[k] = "stopping" /\ port = k
  /\ ReleasePort(k)
  /\ UNCHANGED <<phase, termed, file, crashes, managerVars, clientVars, proc>>

\* The servers have closed, and the callback has removed what is at the path by then,
\* another Core's socket too; or it was too late for that.
Exit(k) ==
  /\ Quiet
  /\ phase[k] = "stopping"
  /\ Dies(k)
  /\ file' \in {None, file}
  /\ UNCHANGED <<crashes, managerVars, clientVars, proc>>

\* Crashed, killed, or never spawned: the error event does what the exit event does.
Crash(k) ==
  /\ Quiet
  /\ Alive(k) /\ phase[k] # "stopping" /\ k \notin termed
  /\ crashes < MaxCrashes /\ crashes' = crashes + 1
  /\ Dies(k)
  /\ UNCHANGED <<file, managerVars, clientVars, proc>>

-----------------------------------------------------------------------------
(* The client: CoreIpcClient. *)

\* request(): nothing is sent without a socket.
Ask(p) == IF socket = None THEN [proc[p] EXCEPT !.pc = "unhealthy", !.to = None]
                           ELSE [proc[p] EXCEPT !.pc = "asking", !.to = socket]

\* connect(): the new socket takes the place of the old one, which stays open.
Connect(p) ==
  /\ socket' = IF file # None /\ phase[file] = "serving" THEN file ELSE Nowhere
  /\ proc' = [proc EXCEPT ![p].pc = "connecting", ![p].to = socket']
  /\ UNCHANGED <<open, refused, connected>>

\* The connection callback; what awaited it asks for the status, on whatever
\* socket the client has by now.
Opens(p) ==
  /\ Quiet
  /\ proc[p].pc = "connecting" /\ proc[p].to \in Cores
  /\ open' = [open EXCEPT ![proc[p].to] = @ + 1]
  /\ connected' = TRUE
  /\ proc' = [proc EXCEPT ![p] = Ask(p)]
  /\ UNCHANGED <<coreVars, managerVars, refused, socket>>

\* The error event rejects connect(); the close event follows.
Refused(p) ==
  /\ Quiet
  /\ proc[p].pc = "connecting" /\ proc[p].to = Nowhere
  /\ refused' = refused + 1
  /\ connected' = FALSE
  /\ proc' = [proc EXCEPT ![p].pc = "unhealthy", ![p].to = None]
  /\ UNCHANGED <<coreVars, managerVars, open, socket>>

Gone(k) == phase[k] \in {"stopping", "exited", "reaped"}

\* A socket that was refused, or whose Core is gone, closes.
Closing ==
  \/ refused > 0 /\ refused' = refused - 1 /\ UNCHANGED open
  \/ /\ \E k \in Cores : Gone(k) /\ open[k] > 0 /\ open' = [open EXCEPT ![k] = @ - 1]
     /\ UNCHANGED refused

\* Mutant: pending requests are forgotten, not rejected.
ClosesSilently ==
  /\ Quiet
  /\ Closing
  /\ connected' = FALSE
  /\ socket' = None
  /\ UNCHANGED <<coreVars, managerVars, proc>>

\* Mutant: the flag is left to the error event.
ClosesConnected ==
  /\ Quiet
  /\ Closing
  /\ socket' = None
  /\ proc' = [p \in Procs |-> IF proc[p].pc = "asking"
                              THEN [proc[p] EXCEPT !.pc = "unhealthy", !.to = None]
                              ELSE proc[p]]
  /\ UNCHANGED <<coreVars, managerVars, connected>>

\* The close event of any socket forgets the client's socket and rejects every
\* pending request, whatever socket it was sent on.
Closes ==
  /\ Quiet
  /\ Closing
  /\ connected' = FALSE
  /\ socket' = None
  /\ proc' = [p \in Procs |-> IF proc[p].pc = "asking"
                              THEN [proc[p] EXCEPT !.pc = "unhealthy", !.to = None]
                              ELSE proc[p]]
  /\ UNCHANGED <<coreVars, managerVars>>

Answered(p) ==
  /\ Quiet
  /\ proc[p].pc = "asking"
  /\ proc[p].to \in Cores /\ phase[proc[p].to] = "serving"
  /\ proc' = [proc EXCEPT ![p].pc = "healthy", ![p].to = None]
  /\ UNCHANGED <<coreVars, managerVars, clientVars>>

-----------------------------------------------------------------------------
(* ProcessManager and the commands. *)

\* checkCoreHealth up to its first await; a command's own refresh connects again
\* even when the client is connected (tryConnect), the timer's does not.
Check(p) ==
  /\ proc[p].pc = "check"
  /\ UNCHANGED <<coreVars, managerVars>>
  /\ LET health == proc[p].for # "view"
         again == ~health /\ p # RefreshTimer
     IN \/ /\ health /\ file = None
           /\ proc' = [proc EXCEPT ![p].pc = "unhealthy"]
           /\ UNCHANGED clientVars
        \/ /\ health => file # None
           /\ connected /\ ~again
           /\ proc' = [proc EXCEPT ![p] = Ask(p)]
           /\ UNCHANGED clientVars
        \/ /\ health => file # None
           /\ ~connected \/ again
           /\ Connect(p)

\* What a process does next: another step of startCore, its refresh, or nothing.
Goes(p, pc, for) == [proc EXCEPT ![p].pc = pc, ![p].for = for]
Views(p) == [proc EXCEPT ![p] = [Idle EXCEPT !.pc = "check"]]
Finished(p) ==
  [proc EXCEPT ![p] = IF p = RefreshTimer THEN Idle ELSE [Idle EXCEPT !.pc = "done"]]

\* Core answered.  startCore takes a Core that answers at its first probe for one
\* somebody else manages.
Healthy(p) ==
  /\ proc[p].pc = "healthy"
  /\ proc' = IF proc[p].for = "view" THEN Finished(p) ELSE Views(p)
  /\ owned' = (owned /\ proc[p].for # "first")
  /\ UNCHANGED <<process, stopped, coreVars, clientVars>>

\* startCore without an answer: a child that is there is taken to be starting.
AlreadyStarting(p) ==
  /\ proc[p].pc = "unhealthy" /\ proc[p].for = "first"
  /\ process # None
  /\ proc' = Views(p)
  /\ UNCHANGED <<coreVars, managerVars, clientVars>>

\* The next Core the extension can spawn.
Unborn == {k \in Own : phase[k] = "unborn"}
NextBorn(k) == k \in Unborn /\ \A j \in Unborn : k <= j

\* Mutant: spawns whatever child there is.
SpawnAlways(p) ==
  /\ proc[p].pc = "unhealthy" /\ proc[p].for = "first"
  /\ \E k \in Own :
       /\ NextBorn(k)
       /\ phase' = [phase EXCEPT ![k] = "booting"]
       /\ process' = k
  /\ owned' = TRUE
  /\ file' = None
  /\ proc' = Goes(p, "polling", "probe")
  /\ UNCHANGED <<termed, port, crashes, stopped, clientVars>>

\* The socket file is removed, stale or not, and a Core is spawned.
Spawn(p) ==
  /\ proc[p].pc = "unhealthy" /\ proc[p].for = "first"
  /\ process = None
  /\ \E k \in Own :
       /\ NextBorn(k)
       /\ phase' = [phase EXCEPT ![k] = "booting"]
       /\ process' = k
  /\ owned' = TRUE
  /\ file' = None
  /\ proc' = Goes(p, "polling", "probe")
  /\ UNCHANGED <<termed, port, crashes, stopped, clientVars>>

PollTimer(p) ==
  /\ Quiet
  /\ proc[p].pc = "polling"
  /\ proc' = Goes(p, "check", "probe")
  /\ UNCHANGED <<coreVars, managerVars, clientVars>>

\* The last probe ends the call; restartCore's caller refreshes all the same.
ProbeFails(p) ==
  /\ proc[p].pc = "unhealthy" /\ proc[p].for = "probe"
  /\ \/ /\ proc[p].polls + 1 < MaxPolls
        /\ proc' = [Goes(p, "polling", "probe") EXCEPT ![p].polls = @ + 1]
     \/ /\ proc[p].polls + 1 = MaxPolls
        /\ proc' = IF proc[p].command = "restart" THEN Views(p) ELSE Finished(p)
  /\ UNCHANGED <<coreVars, managerVars, clientVars>>

RefreshFails(p) ==
  /\ proc[p].pc = "unhealthy" /\ proc[p].for = "view"
  /\ proc' = Finished(p)
  /\ UNCHANGED <<coreVars, managerVars, clientVars>>

\* The exit event of a child clears the child the manager has by now.
ExitEvent(k) ==
  /\ Quiet
  /\ phase[k] = "exited"
  /\ phase' = [phase EXCEPT ![k] = "reaped"]
  /\ stopped' = stopped \ {k}
  /\ process' = None
  /\ owned' = FALSE
  /\ UNCHANGED <<termed, port, file, crashes, clientVars, proc>>

StopCore ==
  IF owned /\ process # None
  THEN /\ termed' = IF Alive(process) THEN termed \cup {process} ELSE termed
       /\ stopped' = stopped \cup {process}
       /\ process' = None /\ owned' = FALSE
  ELSE UNCHANGED <<termed, stopped, process, owned>>

\* Timing: see PromptExit.  A start is on its way to spawn a Core until it has found
\* one.
Starting(p) == proc[p].for = "first" /\ proc[p].pc # "delay"
MayStart == PromptExit => stopped = {}
MayStop == PromptExit /\ owned /\ process # None => ~\E p \in Procs : Starting(p)

Issued(p) ==
  /\ Quiet
  /\ p \in Commands /\ proc[p].pc = "idle"
  /\ \A q \in Commands : q < p => proc[q].pc # "idle"

CommandStart(p) ==
  /\ Issued(p) /\ MayStart
  /\ proc' = [proc EXCEPT ![p] = [Idle EXCEPT !.pc = "check", !.command = "start",
                                              !.for = "first"]]
  /\ UNCHANGED <<coreVars, managerVars, clientVars>>

CommandStop(p) ==
  /\ Issued(p) /\ MayStop
  /\ StopCore
  /\ proc' = [proc EXCEPT ![p] = [Idle EXCEPT !.pc = "check", !.command = "stop"]]
  /\ UNCHANGED <<phase, port, file, crashes, clientVars>>

CommandRestart(p) ==
  /\ Issued(p) /\ MayStop
  /\ StopCore
  /\ proc' = [proc EXCEPT ![p] = [Idle EXCEPT !.pc = "delay", !.command = "restart",
                                              !.for = "first"]]
  /\ UNCHANGED <<phase, port, file, crashes, clientVars>>

\* The second restartCore waits.
RestartTimer(p) ==
  /\ Quiet
  /\ proc[p].pc = "delay" /\ MayStart
  /\ proc' = Goes(p, "check", "first")
  /\ UNCHANGED <<coreVars, managerVars, clientVars>>

\* Two seconds after the last refresh nothing else is under way.  A command may be
\* given, and a Core may stop, while a refresh waits.
Settled ==
  /\ \A p \in Commands : proc[p].pc \in {"idle", "done"}
  /\ refused = 0
  /\ \A k \in Cores : phase[k] \in {"unborn", "serving", "exited", "reaped"} /\ k \notin termed
                     /\ (Gone(k) => open[k] = 0)
  /\ \A k \in Own : phase[k] # "exited"

Refresh ==
  /\ Quiet
  /\ proc[RefreshTimer].pc = "idle"
  /\ Settled
  /\ proc' = [proc EXCEPT ![RefreshTimer].pc = "check"]
  /\ UNCHANGED <<coreVars, managerVars, clientVars>>

\* Somebody ends a Core in its terminal.
StopExternal(k) ==
  /\ Quiet
  /\ k \in External \ termed /\ Alive(k) /\ phase[k] # "stopping"
  /\ crashes < MaxCrashes /\ crashes' = crashes + 1
  /\ termed' = termed \cup {k}
  /\ UNCHANGED <<phase, port, file, managerVars, clientVars, proc>>

-----------------------------------------------------------------------------

Boot(k) == TakePort(k) \/ Serve(k)
Shutdown(k) == HandleSignal(k) \/ ClosePort(k) \/ Exit(k)
Continue(p) ==
  \/ Check(p) \/ Healthy(p) \/ AlreadyStarting(p) \/ Spawn(p)
  \/ ProbeFails(p) \/ RefreshFails(p)
ConnectEnds(p) == Opens(p) \/ Refused(p)
Command(p) == CommandStart(p) \/ CommandStop(p) \/ CommandRestart(p)

\* What the daemons and the extension do by themselves.
Work ==
  \/ \E k \in Cores : Boot(k) \/ Shutdown(k)
  \/ \E k \in Own : ExitEvent(k)
  \/ \E p \in Procs : Continue(p) \/ ConnectEnds(p) \/ Answered(p)
  \/ Closes
  \/ \E p \in Commands : PollTimer(p) \/ RestartTimer(p)
  \/ Refresh

Next ==
  \/ Work
  \/ \E k \in Own : Crash(k)
  \/ \E k \in External : StartExternal(k) \/ StopExternal(k)
  \/ \E p \in Commands : Command(p)

\* The machine does not rest while a Core can boot, stop or answer, or an event, a
\* timer or a continuation is due.  Nothing is fair about the user and crashes.
Fairness == WF_vars(Work)

Spec == Init /\ [][Next]_vars
FairSpec == Spec /\ Fairness

-----------------------------------------------------------------------------

\* Every variable has its type.
TypeOK ==
  /\ phase \in [Cores -> Phase] /\ termed \subseteq Cores
  /\ port \in Cores \cup {None} /\ file \in Cores \cup {None}
  /\ crashes \in 0 .. MaxCrashes
  /\ process \in Own \cup {None} /\ owned \in BOOLEAN
  /\ stopped \subseteq Own
  /\ open \in [Cores -> Nat] /\ refused \in Nat /\ socket \in Ends \cup {None}
  /\ connected \in BOOLEAN
  /\ proc \in [Procs -> Proc]

\* Two Cores never serve clients of the socket path at once: the second one dies of
\* the port before it takes the path (index.ts starts the transport first).
AtMostOneServes ==
  \A j, k \in Cores : phase[j] = "serving" /\ phase[k] = "serving" => j = k

\* Whoever waits for an answer will hear: its request went out on a socket whose
\* close event, which rejects it, is still to come (CoreIpcClient).
WaitersWillHear ==
  \A p \in Procs : proc[p].pc = "asking" =>
    \/ proc[p].to \in Cores /\ open[proc[p].to] > 0
    \/ proc[p].to = Nowhere /\ refused > 0
    \/ \E q \in Procs : proc[q].pc = "connecting" /\ proc[q].to = proc[p].to

\* A Core the extension spawned and has not told to stop is the child it knows of: a
\* second start finds it, and it is not spawned twice (startCore, the exit event).
\* Needs PromptExit.
ChildIsKnown ==
  \A k \in Own : Alive(k) /\ k \notin stopped => process = k

\* Every command ends, whatever Cores do: connect() and getStatus settle, and the
\* probes are counted (startCore, restartCore).  Then the client has found the Core
\* that serves, or noticed that there is none (the refresh timer of extension.ts, the
\* error and close events).
CommandsOver == \A p \in Commands : proc[p].pc \in {"idle", "done"}
ClientAgrees ==
  /\ (\E k \in Cores : phase[k] = "serving" /\ file = k) => connected
  /\ (\A k \in Cores : ~Alive(k)) => ~connected

ComesToRest == []<>(CommandsOver /\ ClientAgrees)

=============================================================================
