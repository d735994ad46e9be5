------------------------------ MODULE MCIpcReader ------------------------------
(***************************************************************************)
(* Instances of IpcReader for TLC.  Three requests of 8 to 15 bytes reach  *)
(* every way a read can end: before, in and after a header, inside the     *)
(* rest of a request, and in the header of the next but one.               *)
(***************************************************************************)
EXTENDS IpcReaderQueue

ShortRequests == {8, 9, 15}

=============================================================================
