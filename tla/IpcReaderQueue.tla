--------------------------- MODULE IpcReaderQueue ---------------------------
(***************************************************************************)
(* The mapping under which the reader of an IPC connection implements      *)
(* RequestQueue: a request is in hand while its handleMessage is awaited,  *)
(* and the connection is given up when the catch block has thrown the      *)
(* buffer away.  Reads, and loops that find nothing, cannot be seen.       *)
(***************************************************************************)
EXTENDS IpcReader

Queue == INSTANCE RequestQueue WITH
  asked   <- Len(sent),
  serving <- awaiting # {},
  answers <- replied,
  open    <- ~discarded

(***************************************************************************)
(* However the stream is cut and whatever is read while handleMessage is   *)
(* awaited, the connection is a queue: one request in hand, answers in the *)
(* order of the requests and one for each, and bytes are lost only between *)
(* two requests.  The Python client depends on it, which takes the next    *)
(* response for the answer to its last request and compares no ids.        *)
(***************************************************************************)
ImplementsQueue == Queue!Spec

=============================================================================
