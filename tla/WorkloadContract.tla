--------------------------- MODULE WorkloadContract ---------------------------
(***************************************************************************)
(* What Core promises the client of a workload, with none of its tasks,    *)
(* workers or attempts: the workload has parts, each is done at most once  *)
(* and stays done; the client is told of completion only when all parts    *)
(* are done, it is told one thing, and nothing is done before it asks.     *)
(* A restart of Core forgets the client but none of the parts.             *)
(*                                                                         *)
(* ChunkDispatch and SingleTask implement this (the mappings are in        *)
(* ChunkDispatchContract.tla and SingleTaskContract.tla).                  *)
(***************************************************************************)

CONSTANT Parts

VARIABLES
  answer,  \* what the client was told: "idle" before it has asked
  done     \* the parts whose results are recorded

contractVars == <<answer, done>>

Init == answer = "idle" /\ done = {}

Ask ==
  /\ answer = "idle"
  /\ answer' = "running"
  /\ UNCHANGED done

\* Parts are finished for as long as anybody works on them, which may be
\* longer than the client waits.
Finish(p) ==
  /\ answer # "idle"
  /\ p \notin done
  /\ done' = done \cup {p}
  /\ UNCHANGED answer

Deliver ==
  /\ answer = "running"
  /\ done = Parts
  /\ answer' = "completed"
  /\ UNCHANGED done

GiveUp ==
  /\ answer = "running"
  /\ answer' = "failed"
  /\ UNCHANGED done

Restart ==
  /\ answer' = "idle"
  /\ UNCHANGED done

\* What happens while Core lives, and with its crashes.
Serve == Ask \/ (\E p \in Parts : Finish(p)) \/ Deliver \/ GiveUp

Next == Serve \/ Restart

Spec == Init /\ [][Next]_contractVars

=============================================================================
