---------------------------- MODULE MCCoreLifecycle ----------------------------
(* Instances of CoreLifecycle for TLC. *)
EXTENDS CoreLifecycle

OneExternal == {9}
UpTo2 == 1 .. 2
=============================================================================
