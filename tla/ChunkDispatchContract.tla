------------------------ MODULE ChunkDispatchContract ------------------------
(***************************************************************************)
(* The mapping under which the dispatch of a chunked workload implements   *)
(* WorkloadContract: the parts are the chunks, one is done when its row is *)
(* COMPLETED, and the answer is the state of the workload.  What           *)
(* handleTaskResult accepts finishes a part, Promise.all delivers or gives *)
(* up, a crash restarts.                                                   *)
(***************************************************************************)
EXTENDS ChunkDispatch

CompletedChunks == {c \in Tasks : rows[c].status = "COMPLETED"}

Contract == INSTANCE WorkloadContract WITH
  Parts  <- Tasks,
  answer <- workload.status,
  done   <- CompletedChunks

(***************************************************************************)
(* Every step of the dispatch is a step of WorkloadContract or invisible   *)
(* in it, where no worker is simulated: the client is told of completion   *)
(* only with every chunk's result recorded, no recorded result is lost,    *)
(* and no chunk is finished that this Core was not asked for.              *)
(***************************************************************************)
ImplementsContract == Contract!Spec

=============================================================================
