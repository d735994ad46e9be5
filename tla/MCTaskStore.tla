----------------------------- MODULE MCTaskStore -----------------------------
(***************************************************************************)
(* Instances of the task table for TLC.                                    *)
(***************************************************************************)
EXTENDS TaskStoreFence, TLC

Symmetry == Permutations(Tasks) \cup Permutations(Workers)

=============================================================================
