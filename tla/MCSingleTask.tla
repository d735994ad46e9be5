----------------------------- MODULE MCSingleTask -----------------------------
(***************************************************************************)
(* The instance of SingleTask for TLC is given by MCSingleTask.cfg.        *)
(***************************************************************************)
EXTENDS SingleTaskContract

=============================================================================
