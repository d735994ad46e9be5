----------------------------- MODULE MCWorkerLink -----------------------------
(* Instances of WorkerLink for TLC. *)
EXTENDS WorkerLink

TwoConns == {1, 2}

\* More names than are ever in use at once: with ten the states are the same.
EightPairings == 1 .. 8

AllFaults == FaultKinds
LostConnections == {"connection"}
=============================================================================
