---------------------------- MODULE MCChunkEngine ----------------------------
(***************************************************************************)
(* Instances of the chunk engine for TLC.                                  *)
(***************************************************************************)
EXTENDS ChunkedWorkload

UpTo7 == 1 .. 7
UpTo4 == 1 .. 4
UpTo3 == 0 .. 3
UpTo5 == 1 .. 5
Sizes == {-1} \cup 1 .. 4
OneToThree == 1 .. 3

=============================================================================
