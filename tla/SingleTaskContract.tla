-------------------------- MODULE SingleTaskContract --------------------------
(***************************************************************************)
(* The mapping under which each request that is dispatched as one task     *)
(* implements WorkloadContract: its task is its only part.                 *)
(***************************************************************************)
EXTENDS SingleTask

Told(t) ==
  IF request[t].pc = "idle" THEN "idle"
  ELSE IF request[t].answer = "none" THEN "running"
  ELSE request[t].answer

Contract(t) == INSTANCE WorkloadContract WITH
  Parts  <- {t},
  answer <- Told(t),
  done   <- {u \in {t} : rows[u].status = "COMPLETED"}

(***************************************************************************)
(* Every request is answered once and truthfully, whatever the others do:  *)
(* COMPLETED only when its result is recorded, which it stays.  Each step  *)
(* serves each request or does not concern it (TLC takes no quantifier     *)
(* over temporal formulas, hence the form).                                *)
(***************************************************************************)
ImplementsContract ==
  /\ \A t \in Tasks : Contract(t)!Init
  /\ [][\A t \in Tasks : [Contract(t)!Serve]_(Contract(t)!contractVars)]_vars

=============================================================================
