-------------------------- MODULE CoreLifecycleProofs --------------------------
(***************************************************************************)
(* Theorems about the Cores of one machine and the extension, for any      *)
(* number of Cores, commands, probes and crashes.  Only KnownTheorem needs *)
(* that a Core that was told to stop is gone in time.                      *)
(***************************************************************************)
EXTENDS CoreLifecycle, TLAPS

(***************************************************************************)
(* The inductive invariant.                                                *)
(*  - PortFirst: a Core that listens or serves holds the port.      *)
(*  - Ending(s): a close event of a socket to s is still to come.          *)
(*  - SocketWillClose: it is, of the socket the client has.                *)
(***************************************************************************)
PortFirst ==
  \A k \in Cores : phase[k] \in {"listening", "serving"} => port = k

Ending(s) ==
  \/ s \in Cores /\ open[s] > 0
  \/ s = Nowhere /\ refused > 0
  \/ \E q \in Procs : proc[q].pc = "connecting" /\ proc[q].to = s

SocketWillClose == socket # None => Ending(socket)
AskersWillHear == \A p \in Procs : proc[p].pc = "asking" => Ending(proc[p].to)

Hearing == SocketWillClose /\ AskersWillHear
IInv == TypeOK /\ PortFirst /\ Hearing

-----------------------------------------------------------------------------

\* What a process asks, when it asks.
LEMMA AskType ==
  ASSUME TypeOK, NEW p \in Procs
  PROVE  Ask(p) \in Proc
  BY DEF TypeOK, Ask, Proc, Ready, Ends

\* A process at rest has its type.
LEMMA IdleType == Idle \in Proc
  BY LifecycleAssumption DEF LifecycleAssumption, Idle, Proc, Ready, None

\* Every variable has its type at first.
LEMMA InitType == Init => TypeOK
<1> SUFFICES ASSUME Init PROVE TypeOK
  OBVIOUS
<1>1. proc \in [Procs -> Proc]
  BY IdleType DEF Init
<1>2. phase \in [Cores -> Phase] /\ open \in [Cores -> Nat]
  BY DEF Init, Phase
<1>3. crashes \in 0 .. MaxCrashes /\ refused \in Nat
  BY LifecycleAssumption DEF LifecycleAssumption, Init
<1> QED
  BY <1>1, <1>2, <1>3 DEF Init, TypeOK

\* A step keeps the types.
LEMMA NextType ==
  ASSUME TypeOK, Next
  PROVE  TypeOK'
<1> USE LifecycleAssumption DEF LifecycleAssumption, None
<1>1. ASSUME NEW k \in Cores, StartExternal(k) PROVE TypeOK'
  BY <1>1 DEF StartExternal, TypeOK, Phase, coreVars, managerVars, clientVars
<1>2. ASSUME NEW k \in Cores, TakePort(k) PROVE TypeOK'
  BY <1>2 DEF TakePort, TypeOK, Dies, ReleasePort, Phase, coreVars, managerVars, clientVars
<1>3. ASSUME NEW k \in Cores, Serve(k) PROVE TypeOK'
  BY <1>3 DEF Serve, TypeOK, Phase, coreVars, managerVars, clientVars
<1>4. ASSUME NEW k \in Cores, HandleSignal(k) PROVE TypeOK'
  BY <1>4 DEF HandleSignal, TypeOK, Dies, ReleasePort, Phase, coreVars, managerVars,
     clientVars
<1>5. ASSUME NEW k \in Cores, Exit(k) PROVE TypeOK'
  BY <1>5 DEF Exit, TypeOK, Dies, ReleasePort, Phase, coreVars, managerVars, clientVars
<1>6. ASSUME NEW k \in Cores, Crash(k) PROVE TypeOK'
  BY <1>6 DEF Crash, TypeOK, Dies, ReleasePort, Phase, coreVars, managerVars, clientVars
<1>7. ASSUME NEW k \in Cores, ExitEvent(k) PROVE TypeOK'
  BY <1>7 DEF ExitEvent, TypeOK, Phase, coreVars, managerVars, clientVars
<1>8. ASSUME NEW k \in Cores, StopExternal(k) PROVE TypeOK'
  BY <1>8 DEF StopExternal, TypeOK, coreVars, managerVars, clientVars
<1>9. ASSUME NEW p \in Procs, Check(p) PROVE TypeOK'
  <2>1. CASE proc' = [proc EXCEPT ![p].pc = "unhealthy"] /\ UNCHANGED clientVars
    BY <1>9, <2>1 DEF TypeOK, Proc, Ready, coreVars, managerVars, clientVars, Check
  <2>2. CASE proc' = [proc EXCEPT ![p] = Ask(p)] /\ UNCHANGED clientVars
    BY <1>9, <2>2, AskType DEF TypeOK, coreVars, managerVars, clientVars, Check
  <2>3. CASE Connect(p)
    <3>1. socket' \in Ends
      BY <2>3 DEF Connect, TypeOK, Ends
    <3>2. proc' \in [Procs -> Proc]
      <4> DEFINE new == [proc[p] EXCEPT !.pc = "connecting", !.to = socket']
      <4>0. proc[p] \in Proc
        BY DEF TypeOK
      <4>1. new \in Proc
        BY ONLY <3>1, <4>0 DEF Proc, Ready
      <4>2. proc' = [proc EXCEPT ![p] = new]
        BY <2>3 DEF Connect, TypeOK, Proc
      <4> QED
        BY <4>1, <4>2 DEF TypeOK
    <3> QED
      BY <1>9, <2>3, <3>1, <3>2 DEF Check, Connect, TypeOK, coreVars, managerVars
  <2> QED
    BY <1>9, <2>1, <2>2, <2>3 DEF Check
<1>10. ASSUME NEW p \in Procs, Opens(p) PROVE TypeOK'
  <2>1. proc' \in [Procs -> Proc]
    BY <1>10, AskType DEF TypeOK, Opens
  <2>2. open' \in [Cores -> Nat]
    <3>1. proc[p].to \in Cores /\ open[proc[p].to] \in Nat
      BY <1>10 DEF TypeOK, Opens
    <3>2. open[proc[p].to] + 1 \in Nat
      BY <3>1
    <3> QED
      BY <1>10, <3>1, <3>2 DEF TypeOK, Opens
  <2> QED
    BY <1>10, <2>1, <2>2 DEF TypeOK, coreVars, managerVars, Opens
<1>11. ASSUME NEW p \in Procs, Refused(p) PROVE TypeOK'
  <2>1. [proc[p] EXCEPT !.pc = "unhealthy", !.to = None] \in Proc
    <3>1. proc[p] \in Proc
      BY DEF TypeOK
    <3> QED
      BY ONLY <3>1 DEF Proc, Ready
  <2>2. proc' \in [Procs -> Proc]
    BY <1>11, <2>1 DEF Refused, TypeOK
  <2>3. refused' \in Nat /\ connected' \in BOOLEAN
    <3>1. refused' = refused + 1 /\ connected' = FALSE
      BY <1>11 DEF Refused
    <3>2. refused \in Nat
      BY DEF TypeOK
    <3>3. connected' \in BOOLEAN
      BY ONLY <3>1, Zenon
    <3>4. refused' \in Nat
      BY ONLY <3>1, <3>2
    <3> QED
      BY ONLY <3>3, <3>4
  <2> QED
    BY <1>11, <2>2, <2>3 DEF Refused, TypeOK, coreVars, managerVars
<1>12. CASE Closes
  <2>1. proc' \in [Procs -> Proc]
    <3> SUFFICES ASSUME NEW q \in Procs PROVE proc'[q] \in Proc
      BY <1>12 DEF Closes
    <3> DEFINE ended == [proc[q] EXCEPT !.pc = "unhealthy", !.to = None]
    <3>1. proc[q] \in Proc
      BY DEF TypeOK
    <3>2. ended \in Proc
      BY ONLY <3>1 DEF Proc, Ready
    <3>3. proc'[q] = ended \/ proc'[q] = proc[q]
      BY <1>12 DEF Closes, Ends
    <3> QED
      BY ONLY <3>1, <3>2, <3>3
  <2>2. open' \in [Cores -> Nat] /\ refused' \in Nat
    <3>1. CASE refused > 0 /\ refused' = refused - 1 /\ UNCHANGED open
      BY <3>1 DEF TypeOK
    <3>2. ASSUME NEW k \in Cores, open[k] > 0, UNCHANGED refused,
                 open' = [open EXCEPT ![k] = @ - 1]
          PROVE  open' \in [Cores -> Nat] /\ refused' \in Nat
      <4>1. open[k] \in Nat
        BY DEF TypeOK
      <4>2. open[k] - 1 \in Nat
        BY <4>1, <3>2
      <4> QED
        BY <3>2, <4>2 DEF TypeOK
    <3> QED
      BY <1>12, <3>1, <3>2 DEF Closes, Closing
  <2> QED
    BY <1>12, <2>1, <2>2 DEF TypeOK, coreVars, managerVars, Closes
<1>13. ASSUME NEW p \in Procs, Answered(p) PROVE TypeOK'
  BY <1>13 DEF Answered, TypeOK, Proc, Ready, coreVars, managerVars,
     clientVars
<1>14. ASSUME NEW p \in Procs, Healthy(p) PROVE TypeOK'
  BY <1>14 DEF Healthy, TypeOK, Views, Finished, Idle, Proc, Ready, coreVars,
     managerVars, clientVars
<1>15. ASSUME NEW p \in Procs, AlreadyStarting(p) PROVE TypeOK'
  BY <1>15 DEF AlreadyStarting, TypeOK, Views, Idle, Proc, Ready, coreVars,
     managerVars, clientVars
<1>16. ASSUME NEW p \in Procs, Spawn(p) PROVE TypeOK'
  BY <1>16 DEF Spawn, TypeOK, Goes, Phase, Proc, Ready, coreVars, managerVars,
     clientVars
<1>17. ASSUME NEW p \in Procs, PollTimer(p) PROVE TypeOK'
  <2> DEFINE new == [proc[p] EXCEPT !.pc = "check", !.for = "probe"]
  <2>1. new \in Proc
    BY DEF TypeOK, Proc, Ready
  <2>2. proc' = [proc EXCEPT ![p] = new]
    BY <1>17 DEF PollTimer, Goes, TypeOK, Proc
  <2> QED
    BY <1>17, <2>1, <2>2 DEF PollTimer, TypeOK, coreVars, managerVars, clientVars
<1>18. ASSUME NEW p \in Procs, ProbeFails(p) PROVE TypeOK'
  BY <1>18 DEF ProbeFails, TypeOK, Goes, Views, Finished, Idle, Proc, Ready,
     coreVars, managerVars, clientVars
<1>19. ASSUME NEW p \in Procs, RefreshFails(p) PROVE TypeOK'
  BY <1>19 DEF RefreshFails, TypeOK, Finished, Idle, Proc, Ready, coreVars,
     managerVars, clientVars
<1>20. ASSUME NEW p \in Procs, CommandStart(p) PROVE TypeOK'
  BY <1>20, IdleType DEF TypeOK, Proc, Ready, Idle, coreVars, managerVars, clientVars, CommandStart
<1>21. ASSUME NEW p \in Procs, CommandStop(p) PROVE TypeOK'
  <2>1. proc' \in [Procs -> Proc]
    BY <1>21, IdleType DEF TypeOK, Proc, Ready, Idle, CommandStop
  <2> QED
    BY <1>21, <2>1 DEF TypeOK, Cores, coreVars, managerVars, clientVars, CommandStop, StopCore
<1>22. ASSUME NEW p \in Procs, CommandRestart(p) PROVE TypeOK'
  <2>1. proc' \in [Procs -> Proc]
    BY <1>22, IdleType DEF TypeOK, Proc, Ready, Idle, CommandRestart
  <2> QED
    BY <1>22, <2>1 DEF TypeOK, Cores, coreVars, managerVars, clientVars, CommandRestart, StopCore
<1>23. ASSUME NEW p \in Procs, RestartTimer(p) PROVE TypeOK'
  <2> DEFINE new == [proc[p] EXCEPT !.pc = "check", !.for = "first"]
  <2>1. new \in Proc
    BY DEF TypeOK, Proc, Ready
  <2>2. proc' = [proc EXCEPT ![p] = new]
    BY <1>23 DEF RestartTimer, Goes, TypeOK, Proc
  <2> QED
    BY <1>23, <2>1, <2>2 DEF RestartTimer, TypeOK, coreVars, managerVars, clientVars
<1>24. CASE Refresh
  BY <1>24 DEF Refresh, TypeOK, Procs, Proc, Ready, coreVars, managerVars,
     clientVars
<1>25. ASSUME NEW k \in Cores, ClosePort(k) PROVE TypeOK'
  BY <1>25 DEF ClosePort, TypeOK, ReleasePort, managerVars, clientVars
<1> QED
  BY <1>1, <1>2, <1>3, <1>4, <1>5, <1>6, <1>7, <1>8, <1>9, <1>10, <1>11,
     <1>12, <1>13, <1>14, <1>15, <1>16, <1>17, <1>18, <1>19, <1>20, <1>21,
     <1>22, <1>23, <1>24, <1>25
  DEF Next, Work, Boot, Shutdown, Continue, ConnectEnds, Command, Cores, Procs

\* A Core listens only after it has taken the port, and gives it up when it stops or dies.
LEMMA NextPort ==
  ASSUME TypeOK, PortFirst, Next
  PROVE  PortFirst'
<1> USE DEF TypeOK, PortFirst
<1>1. ASSUME NEW k \in Cores, StartExternal(k) PROVE PortFirst'
  BY <1>1 DEF StartExternal
<1>2. ASSUME NEW k \in Cores, TakePort(k) PROVE PortFirst'
  <2>1. CASE port = None
    BY <1>2, <2>1, LifecycleAssumption DEF TakePort, None, Cores, LifecycleAssumption
  <2>2. CASE port # None
    BY <1>2, <2>2 DEF TakePort, Dies, ReleasePort
  <2> QED
    BY <2>1, <2>2
<1>3. ASSUME NEW k \in Cores, Serve(k) PROVE PortFirst'
  BY <1>3 DEF Serve
<1>4. ASSUME NEW k \in Cores, HandleSignal(k) PROVE PortFirst'
  BY <1>4 DEF HandleSignal, Dies, ReleasePort
<1>5. ASSUME NEW k \in Cores, Exit(k) PROVE PortFirst'
  BY <1>5 DEF Exit, Dies, ReleasePort
<1>6. ASSUME NEW k \in Cores, Crash(k) PROVE PortFirst'
  BY <1>6 DEF Crash, Dies, ReleasePort
<1>7. ASSUME NEW k \in Cores, ExitEvent(k) PROVE PortFirst'
  BY <1>7 DEF ExitEvent
<1>8. ASSUME NEW p \in Procs, Spawn(p) PROVE PortFirst'
  BY <1>8 DEF Spawn
<1>9. ASSUME UNCHANGED <<phase, port>> PROVE PortFirst'
  BY <1>9
<1>10. ASSUME NEW p \in Procs,
              Check(p) \/ Opens(p) \/ Refused(p) \/ Answered(p) \/
                Healthy(p) \/ AlreadyStarting(p) \/ PollTimer(p) \/
                ProbeFails(p) \/ RefreshFails(p) \/ CommandStart(p) \/
                CommandStop(p) \/ CommandRestart(p) \/ RestartTimer(p)
     PROVE  UNCHANGED <<phase, port>>
  BY <1>10 DEF Check, Opens, Refused, Answered, Healthy, AlreadyStarting,
     PollTimer, ProbeFails, RefreshFails, CommandStart, CommandStop,
     CommandRestart, RestartTimer, Connect, coreVars
<1>11. ASSUME NEW k \in Cores, StopExternal(k)
     PROVE  UNCHANGED <<phase, port>>
  BY <1>11 DEF StopExternal, coreVars
<1>12. CASE Closes \/ Refresh
  BY <1>12, <1>9 DEF Closes, Refresh, coreVars
<1>13. ASSUME NEW k \in Cores, ClosePort(k) PROVE PortFirst'
  BY <1>13 DEF ClosePort, ReleasePort
<1> QED
  BY <1>1, <1>2, <1>3, <1>4, <1>5, <1>6, <1>7, <1>8, <1>9, <1>10, <1>11, <1>12,
     <1>13
  DEF Next, Work, Boot, Shutdown, Continue, ConnectEnds, Command, Cores, Procs

\* A process that goes on without the client, and was not connecting, takes nothing
\* from those who wait.
LEMMA OthersHear ==
  ASSUME TypeOK, Hearing, NEW p \in Procs, UNCHANGED clientVars,
         proc[p].pc # "connecting", proc'[p].pc # "asking",
         \A q \in Procs \ {p} : proc'[q] = proc[q]
  PROVE  Hearing'
  BY DEF TypeOK, Hearing, SocketWillClose, AskersWillHear, Ending, Proc, clientVars

\* Sockets are counted before they are forgotten.
LEMMA NextHears ==
  ASSUME TypeOK, Hearing, Next
  PROVE  Hearing'
<1> USE LifecycleAssumption DEF LifecycleAssumption, None
<1>1. ASSUME NEW k \in Cores,
              StartExternal(k) \/ TakePort(k) \/ Serve(k) \/
                HandleSignal(k) \/ ClosePort(k) \/ Exit(k) \/ Crash(k) \/
                ExitEvent(k) \/ StopExternal(k)
     PROVE  Hearing'
  <2>1. UNCHANGED <<clientVars, proc>>
    BY <1>1 DEF StartExternal, TakePort, Serve, HandleSignal, ClosePort, Exit,
       Crash, ExitEvent, StopExternal
  <2> QED
    BY <2>1 DEF Hearing, SocketWillClose, AskersWillHear, Ending, clientVars
<1>2. ASSUME NEW p \in Procs, Check(p) PROVE Hearing'
  <2>1. CASE proc' = [proc EXCEPT ![p].pc = "unhealthy"] /\ UNCHANGED clientVars
    BY <1>2, <2>1 DEF Hearing, SocketWillClose, AskersWillHear, Ending, TypeOK, Proc,
       clientVars, Check
  <2>2. CASE proc' = [proc EXCEPT ![p] = Ask(p)] /\ UNCHANGED clientVars
    BY <1>2, <2>2 DEF Hearing, SocketWillClose, AskersWillHear, Ending, TypeOK, Proc,
       clientVars, Check, Ask
  <2>3. CASE Connect(p)
    <3>1. proc'[p].pc = "connecting" /\ proc'[p].to = socket'
      BY <2>3 DEF Connect, TypeOK, Proc
    <3>2. ASSUME NEW q \in Procs, q # p PROVE proc'[q] = proc[q]
      BY <2>3, <3>2 DEF Connect, TypeOK
    <3>3. UNCHANGED <<open, refused>> /\ proc[p].pc = "check"
      BY <1>2, <2>3 DEF Connect, Check
    <3>4. ASSUME NEW s, Ending(s) PROVE Ending(s)'
      BY <3>1, <3>2, <3>3, <3>4 DEF Ending
    <3> QED
      BY <3>1, <3>2, <3>4 DEF Hearing, SocketWillClose, AskersWillHear, Ending
  <2> QED
    BY <1>2, <2>1, <2>2, <2>3 DEF Check
<1>3. ASSUME NEW p \in Procs, Opens(p) PROVE Hearing'
  BY <1>3 DEF Opens, Ask, Hearing, SocketWillClose, AskersWillHear, Ending,
     TypeOK, Proc, clientVars
<1>4. ASSUME NEW p \in Procs, Refused(p) PROVE Hearing'
  BY <1>4 DEF Refused, Ask, Hearing, SocketWillClose, AskersWillHear, Ending,
     TypeOK, Proc, clientVars
<1>5. CASE Closes
  <2>1. socket' = None /\ \A q \in Procs : proc'[q].pc # "asking"
    BY <1>5 DEF Closes, TypeOK, Proc
  <2> QED
    BY <2>1 DEF Hearing, SocketWillClose, AskersWillHear
<1>6. ASSUME NEW p \in Procs, Answered(p) PROVE Hearing'
  BY <1>6, OthersHear DEF Answered, Proc, TypeOK
<1>7. ASSUME NEW p \in Procs, Healthy(p) PROVE Hearing'
  BY <1>7, OthersHear DEF Healthy, Views, Finished, Idle, Proc, TypeOK
<1>8. ASSUME NEW p \in Procs, AlreadyStarting(p) PROVE Hearing'
  BY <1>8, OthersHear DEF AlreadyStarting, Views, Idle, Proc, TypeOK
<1>9. ASSUME NEW p \in Procs, Spawn(p) PROVE Hearing'
  BY <1>9, OthersHear DEF Spawn, Goes, Proc, TypeOK
<1>10. ASSUME NEW p \in Procs, PollTimer(p) PROVE Hearing'
  BY <1>10, OthersHear DEF PollTimer, Goes, Proc, TypeOK
<1>11. ASSUME NEW p \in Procs, ProbeFails(p) PROVE Hearing'
  BY <1>11, OthersHear DEF ProbeFails, Goes, Views, Finished, Idle, Proc,
     TypeOK
<1>12. ASSUME NEW p \in Procs, RefreshFails(p) PROVE Hearing'
  BY <1>12, OthersHear DEF RefreshFails, Finished, Idle, Proc, TypeOK
<1>13. ASSUME NEW p \in Procs, CommandStart(p) PROVE Hearing'
  BY <1>13, OthersHear DEF CommandStart, Issued, Idle, Proc, TypeOK
<1>14. ASSUME NEW p \in Procs, CommandStop(p) PROVE Hearing'
  BY <1>14, OthersHear DEF CommandStop, Issued, Idle, Proc, TypeOK
<1>15. ASSUME NEW p \in Procs, CommandRestart(p) PROVE Hearing'
  BY <1>15, OthersHear DEF CommandRestart, Issued, Idle, Proc, TypeOK
<1>16. ASSUME NEW p \in Procs, RestartTimer(p) PROVE Hearing'
  BY <1>16, OthersHear DEF RestartTimer, Goes, Proc, TypeOK
<1>17. CASE Refresh
  BY <1>17, OthersHear DEF Refresh, TypeOK, Procs, Proc
<1> QED
  BY <1>1, <1>2, <1>3, <1>4, <1>5, <1>6, <1>7, <1>8, <1>9, <1>10, <1>11,
     <1>12, <1>13, <1>14, <1>15, <1>16, <1>17
  DEF Next, Work, Boot, Shutdown, Continue, ConnectEnds, Command, Cores, Procs

-----------------------------------------------------------------------------

\* The invariant holds at first, and a step keeps it.
LEMMA InitInv == Init => IInv
  BY InitType DEF Init, IInv, PortFirst, Hearing, SocketWillClose, AskersWillHear, Idle,
     None

LEMMA NextInv == IInv /\ [Next]_vars => IInv'
<1> SUFFICES ASSUME IInv, [Next]_vars PROVE IInv'
  OBVIOUS
<1>1. CASE Next
  BY <1>1, NextType, NextPort, NextHears DEF IInv
<1>2. CASE UNCHANGED vars
  BY <1>2 DEF IInv, TypeOK, PortFirst, Hearing, SocketWillClose, AskersWillHear, Ending,
     vars, coreVars, managerVars, clientVars
<1> QED
  BY <1>1, <1>2

\* The inductive invariant holds in every reachable state, fairness or not.
THEOREM Invariance == Spec => []IInv
<1>1. IInv /\ [Next]_vars => IInv'
  BY NextInv
<1> QED
  BY InitInv, <1>1, PTL DEF Spec

\* Every variable of the Cores, the manager, the client and the commands keeps its
\* type.
THEOREM TypeCorrect == Spec => []TypeOK
<1>1. IInv => TypeOK
  BY DEF IInv
<1> QED
  BY Invariance, <1>1, PTL

\* Two Cores never serve the socket path at once, however many are started, by whom
\* and in whatever order they stop: index.ts starts the transport first.
THEOREM OneServesTheorem == Spec => []AtMostOneServes
<1>1. IInv => AtMostOneServes
  BY DEF IInv, PortFirst, AtMostOneServes
<1> QED
  BY Invariance, <1>1, PTL

\* Whoever waits for an answer will hear: the close event that rejects the request
\* is still to come (CoreIpcClient).
THEOREM HearingTheorem == Spec => []WaitersWillHear
<1>1. IInv => WaitersWillHear
  BY DEF IInv, Hearing, AskersWillHear, Ending, WaitersWillHear
<1> QED
  BY Invariance, <1>1, PTL

-----------------------------------------------------------------------------
(***************************************************************************)
(* The child is known, under PromptExit.                                   *)
(*  - OthersStopped: a Core of the extension that is not reaped was told   *)
(*    to stop, or is its child.                                            *)
(*  - GoneInTime: while one that was told to stop is still to exit there   *)
(*    is no child, and nobody is about to spawn one.                       *)
(***************************************************************************)
OthersStopped ==
  \A k \in Own : phase[k] \notin {"unborn", "reaped"} /\ k \notin stopped => process = k
GoneInTime ==
  stopped # {} => process = None /\ \A p \in Procs : ~Starting(p)
Known == OthersStopped /\ GoneInTime

\* A step that spawns, reaps and stops nothing, and starts no start.
LEMMA OthersKnown ==
  ASSUME Known, UNCHANGED <<process, stopped>>,
         \A k \in Own : phase'[k] \notin {"unborn", "reaped"} =>
                          phase[k] \notin {"unborn", "reaped"},
         \A p \in Procs : Starting(p)' => Starting(p)
  PROVE  Known'
  BY DEF Known, OthersStopped, GoneInTime

\* What the manager knows of its children stays right.
LEMMA NextKnown ==
  ASSUME PromptExit, TypeOK, Known, Next
  PROVE  Known'
<1> USE LifecycleAssumption DEF LifecycleAssumption, None, managerVars
<1>1. ASSUME NEW k \in Cores,
              StartExternal(k) \/ TakePort(k) \/ Serve(k) \/
                HandleSignal(k) \/ ClosePort(k) \/ Exit(k) \/ Crash(k) \/
                StopExternal(k)
     PROVE  Known'
  <2>1. UNCHANGED <<process, stopped, proc>>
    BY <1>1 DEF StartExternal, TakePort, Serve, HandleSignal, ClosePort, Exit,
       Crash, StopExternal
  <2>2. ASSUME NEW j \in Own, phase'[j] \notin {"unborn", "reaped"}
        PROVE  phase[j] \notin {"unborn", "reaped"}
    <3>1. CASE StartExternal(k)
      BY <2>2, <3>1 DEF StartExternal, TypeOK, Cores
    <3>2. CASE TakePort(k) \/ Serve(k) \/ Exit(k)
      BY <2>2, <3>2 DEF TakePort, Serve, Exit, Dies, TypeOK, Cores
    <3>3. CASE Crash(k)
      BY <2>2, <3>3 DEF Crash, Alive, Dies, TypeOK, Cores
    <3>4. CASE HandleSignal(k)
      BY <2>2, <3>4 DEF HandleSignal, Alive, Dies, TypeOK, Cores
    <3>5. CASE ClosePort(k) \/ StopExternal(k)
      BY <2>2, <3>5 DEF ClosePort, StopExternal
    <3> QED
      BY <1>1, <3>1, <3>2, <3>3, <3>4, <3>5
  <2>3. \A p \in Procs : Starting(p)' => Starting(p)
    BY <2>1 DEF Starting
  <2> QED
    BY <2>1, <2>2, <2>3, OthersKnown
<1>2. ASSUME NEW k \in Own, ExitEvent(k) PROVE Known'
  <2>1. process = None \/ process = k
    BY <1>2 DEF Known, OthersStopped, GoneInTime, ExitEvent
  <2>2. ASSUME NEW j \in Own, phase'[j] \notin {"unborn", "reaped"}, j \notin stopped'
        PROVE  FALSE
    BY <1>2, <2>1, <2>2 DEF Known, OthersStopped, ExitEvent, TypeOK, Cores
  <2>3. GoneInTime'
    BY <1>2 DEF Known, GoneInTime, ExitEvent, Starting
  <2> QED
    BY <2>2, <2>3 DEF Known, OthersStopped
<1>3. ASSUME NEW p \in Procs, Spawn(p) PROVE Known'
  <2>1. stopped' = {} /\ process = None
    BY <1>3 DEF Spawn, Known, GoneInTime, Starting
  <2>2. PICK k \in Own : phase' = [phase EXCEPT ![k] = "booting"] /\ process' = k
    BY <1>3 DEF Spawn
  <2>3. ASSUME NEW j \in Own, j # k, phase'[j] \notin {"unborn", "reaped"}
        PROVE  FALSE
    <3>1. phase[j] \notin {"unborn", "reaped"} /\ j \notin stopped
      BY <1>3, <2>1, <2>2, <2>3 DEF Spawn, TypeOK, Cores
    <3>2. process = j
      BY <3>1 DEF Known, OthersStopped
    <3> QED
      BY <2>1, <3>2 DEF Cores
  <2> QED
    BY <2>1, <2>2, <2>3 DEF Known, OthersStopped, GoneInTime
<1>4. ASSUME NEW p \in Procs, CommandStop(p) \/ CommandRestart(p) PROVE Known'
  <2>1. CASE owned /\ process # None
    <3>1. \A q \in Procs : ~Starting(q)
      BY <1>4, <2>1 DEF CommandStop, CommandRestart, MayStop
    <3>2. ASSUME NEW q \in Procs PROVE ~Starting(q)'
      <4>1. proc \in [Procs -> Proc]
        BY DEF TypeOK
      <4>2. CASE CommandStop(p)
        BY <3>1, <4>1, <4>2 DEF CommandStop, Starting, Idle
      <4>3. CASE CommandRestart(p)
        BY <3>1, <4>1, <4>3 DEF CommandRestart, Starting, Idle
      <4> QED
        BY <1>4, <4>2, <4>3
    <3>3. stopped' = stopped \cup {process} /\ process' = None /\ phase' = phase
      BY <1>4, <2>1 DEF CommandStop, CommandRestart, StopCore
    <3> QED
      BY <3>2, <3>3 DEF Known, OthersStopped, GoneInTime
  <2>2. CASE ~(owned /\ process # None)
    <3>1. UNCHANGED <<process, stopped, phase>>
      BY <1>4, <2>2 DEF CommandStop, CommandRestart, StopCore
    <3>2. ASSUME NEW q \in Procs, Starting(q)' PROVE Starting(q)
      <4>1. proc \in [Procs -> Proc]
        BY DEF TypeOK
      <4>2. CASE CommandStop(p)
        BY <3>2, <4>1, <4>2 DEF CommandStop, Starting, Idle
      <4>3. CASE CommandRestart(p)
        BY <3>2, <4>1, <4>3 DEF CommandRestart, Starting, Idle
      <4> QED
        BY <1>4, <4>2, <4>3
    <3> QED
      BY <3>1, <3>2, OthersKnown
  <2> QED
    BY <2>1, <2>2
<1>5. ASSUME NEW p \in Procs, CommandStart(p) \/ RestartTimer(p) PROVE Known'
  <2>1. stopped = {} /\ UNCHANGED <<process, stopped, phase>>
    BY <1>5 DEF CommandStart, RestartTimer, MayStart, coreVars
  <2> QED
    BY <2>1 DEF Known, OthersStopped, GoneInTime
<1>6. ASSUME NEW p \in Procs,
              Check(p) \/ Opens(p) \/ Refused(p) \/ Answered(p) \/
                Healthy(p) \/ AlreadyStarting(p) \/ PollTimer(p) \/
                ProbeFails(p) \/ RefreshFails(p)
     PROVE  Known'
  <2>1. UNCHANGED <<process, stopped, phase>>
    BY <1>6 DEF Check, Opens, Refused, Answered, Healthy, AlreadyStarting,
       PollTimer, ProbeFails, RefreshFails, coreVars
  <2>2. \A q \in Procs \ {p} : proc'[q] = proc[q]
    BY <1>6 DEF Check, Connect, Opens, Refused, Answered, Healthy, AlreadyStarting,
       PollTimer, ProbeFails, RefreshFails, Goes, Views, Finished, TypeOK
  <2>3. Starting(p)' => Starting(p)
    <3>1. CASE Check(p)
      <4> DEFINE old == proc[p]
      <4>1. old.pc = "check" /\ old \in Proc /\ p \in DOMAIN proc
        BY <3>1 DEF Check, TypeOK
      <4>2. CASE proc' = [proc EXCEPT ![p].pc = "unhealthy"]
        BY <4>1, <4>2 DEF Starting, Proc
      <4>3. CASE proc' = [proc EXCEPT ![p] = Ask(p)]
        <5>1. Ask(p).for = old.for
          BY <4>1 DEF Ask, Proc
        <5>2. proc'[p] = Ask(p)
          BY <4>1, <4>3
        <5> QED
          BY <4>1, <5>1, <5>2 DEF Starting
      <4>4. CASE Connect(p)
        BY <4>1, <4>4 DEF Connect, Starting, Proc
      <4> QED
        BY <3>1, <4>2, <4>3, <4>4 DEF Check
    <3>5. CASE Opens(p)
      BY <3>5 DEF Opens, Ask, Starting, TypeOK, Proc
    <3>2. CASE Refused(p) \/ Answered(p) \/ PollTimer(p)
      BY <3>2 DEF Refused, Answered, PollTimer, Goes, Starting, TypeOK, Proc
    <3>3. CASE Healthy(p) \/ AlreadyStarting(p)
      BY <3>3 DEF Healthy, AlreadyStarting, Views, Finished, Idle, Starting, TypeOK,
         Proc
    <3>4. CASE ProbeFails(p) \/ RefreshFails(p)
      BY <3>4 DEF ProbeFails, RefreshFails, Goes, Views, Finished, Idle, Starting,
         TypeOK, Proc
    <3> QED
      BY <1>6, <3>1, <3>2, <3>3, <3>4, <3>5
  <2> QED
    BY <2>1, <2>2, <2>3, OthersKnown DEF Starting
<1>7. CASE Closes
  <2>1. UNCHANGED <<process, stopped, phase>>
    BY <1>7 DEF Closes, coreVars
  <2>2. \A q \in Procs : Starting(q)' => Starting(q)
    BY <1>7 DEF Closes, Starting, TypeOK, Proc
  <2> QED
    BY <2>1, <2>2, OthersKnown
<1>8. CASE Refresh
  <2>1. UNCHANGED <<process, stopped, phase>>
    BY <1>8 DEF Refresh, coreVars
  <2>2. \A q \in Procs : Starting(q)' => Starting(q)
    BY <1>8 DEF Refresh, Starting, TypeOK, Proc, Procs
  <2> QED
    BY <2>1, <2>2, OthersKnown
<1> QED
  BY <1>1, <1>2, <1>3, <1>4, <1>5, <1>6, <1>7, <1>8
  DEF Next, Work, Boot, Shutdown, Continue, ConnectEnds, Command, Cores, Procs

\* When a Core that was told to stop is gone before the next one is spawned, every
\* Core the extension spawned and did not stop is the child it knows of, for any
\* number of Cores, commands and crashes (startCore, stopCore, the exit event).
THEOREM KnownTheorem ==
  ASSUME PromptExit
  PROVE  Spec => []ChildIsKnown
<1>1. Init => Known
  BY DEF Init, Known, OthersStopped, GoneInTime, Cores
<1>2. IInv /\ Known /\ [Next]_vars => Known'
  <2>1. CASE IInv /\ Known /\ Next
    BY <2>1, NextKnown DEF IInv
  <2>2. CASE Known /\ UNCHANGED vars
    BY <2>2 DEF Known, OthersStopped, GoneInTime, Starting, vars, coreVars, managerVars
  <2> QED
    BY <2>1, <2>2
<1>3. Known => ChildIsKnown
  BY DEF Known, OthersStopped, ChildIsKnown, Alive
<1> QED
  BY Invariance, <1>1, <1>2, <1>3, PTL DEF Spec

=============================================================================
