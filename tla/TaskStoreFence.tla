--------------------------- MODULE TaskStoreFence ---------------------------
(***************************************************************************)
(* The mapping under which the task table implements FencedOwnership: an   *)
(* in-flight row is owned by its worker, and the number of an ownership is *)
(* the attempt number.  createTask opens a thing, assignTask acquires it,  *)
(* stealTask transfers it, completeTask, failTask and abandonTask finish   *)
(* it, and the recoveries and recordTaskFailure revoke it.                 *)
(***************************************************************************)
EXTENDS TaskStore

Phase(t) ==
  CASE rows[t].status = "ABSENT"  -> "new"
    [] rows[t].status = "PENDING" -> "free"
    [] InFlight(t)                -> "owned"
    [] OTHER                      -> "closed"

Fence == INSTANCE FencedOwnership WITH
  Things <- Tasks,
  Owners <- Workers,
  Nobody <- NoWorker,
  phase  <- [t \in Tasks |-> Phase(t)],
  owner  <- [t \in Tasks |-> IF InFlight(t) THEN rows[t].worker ELSE NoWorker],
  number <- [t \in Tasks |-> Attempt(t)]

\* Every step of the table is a step of FencedOwnership or invisible in it:
\* no attempt number is reused and no owner is replaced under its own number.
ImplementsFence == Fence!Spec

=============================================================================
