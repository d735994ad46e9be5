--------------------------- MODULE MCChunkDispatch ---------------------------
(***************************************************************************)
(* Instances of ChunkDispatch for TLC.                                     *)
(***************************************************************************)
EXTENDS ChunkDispatchContract, TLC

Symmetry == Permutations(Tasks)

=============================================================================
