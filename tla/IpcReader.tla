------------------------------- MODULE IpcReader -------------------------------
(***************************************************************************)
(* One connection of the Core's IPC socket (core/src/ipc_server.ts, the    *)
(* data handler and processBuffer): requests arrive as a byte stream cut   *)
(* anywhere, are collected in a list of chunks, taken off one by one and   *)
(* handled; a client may send on before it is answered.                    *)
(*                                                                         *)
(* A request is its length, kept as the position in the stream it ends at: *)
(* a binary frame and a JSON line are both complete when all their bytes   *)
(* are there, and every request has at least the 8 bytes of a frame        *)
(* header.  Of the chunk list only the length of the first chunk and the   *)
(* total matter.                                                           *)
(***************************************************************************)
EXTENDS Naturals, Sequences

CONSTANTS
  Lengths,      \* lengths of requests, in bytes
  MaxRequests   \* bound: requests on the connection

ASSUME IpcReaderAssumption ==
  /\ Lengths \subseteq Nat /\ \A l \in Lengths : l >= 8
  /\ MaxRequests \in Nat

VARIABLES
  sent,        \* where in the stream each request the client has written ends
  wire,        \* bytes written and not yet read
  total,       \* totalBufferedBytes
  first,       \* chunkList[0].length, 0 if there is none
  next,        \* the request the buffered bytes begin with
  processing,  \* the flag of that name
  running,     \* a loop of processBuffer is in its turn, not at its await
  awaiting,    \* requests handed to handleMessage and not answered
  replied,     \* the requests that were answered, in that order
  discarded,   \* the catch block has thrown the buffer away
  short        \* history: a read left bytes in the socket and brought less than 7

vars == <<sent, wire, total, first, next, processing, running, awaiting,
          replied, discarded, short>>

Init ==
  /\ sent = <<>> /\ wire = 0
  /\ total = 0 /\ first = 0 /\ next = 1
  /\ processing = FALSE /\ running = FALSE
  /\ awaiting = {} /\ replied = <<>>
  /\ discarded = FALSE /\ short = FALSE

Ended(i) == IF i = 0 THEN 0 ELSE sent[i]
Length(i) == Ended(i) - Ended(i - 1)

Complete == next <= Len(sent) /\ total >= Length(next)

\* Mutant of Merged: the chunks are never joined.
NeverMerged == first

\* The first chunk, when it is looked at: joined with the others if the header
\* is there but not all of it in this chunk.
Merged == IF first < 8 /\ total >= 8 THEN total ELSE first

\* Reading the magic, or the length behind it, beyond the end of the first chunk.
OutOfRange == (total >= 4 /\ Merged < 4) \/ (total >= 8 /\ Merged < 8)

-----------------------------------------------------------------------------

ClientSends(length) ==
  /\ Len(sent) < MaxRequests
  /\ sent' = Append(sent, Ended(Len(sent)) + length)
  /\ wire' = wire + length
  /\ UNCHANGED <<total, first, next, processing, running, awaiting, replied,
                 discarded, short>>

\* Mutant of Data: every read starts a loop of its own.
DataStartsLoop(size) ==
  /\ ~running /\ ~discarded
  /\ size <= wire
  /\ short' = (short \/ (size < 7 /\ size < wire))
  /\ wire' = wire - size
  /\ total' = total + size
  /\ first' = IF total = 0 THEN size ELSE first
  /\ processing' = TRUE
  /\ running' = TRUE
  /\ UNCHANGED <<sent, next, awaiting, replied, discarded>>

\* The data event.  A loop that is at its await will look again.
Data(size) ==
  /\ ~running /\ ~discarded
  /\ size <= wire
  /\ short' = (short \/ (size < 7 /\ size < wire))
  /\ wire' = wire - size
  /\ total' = total + size
  /\ first' = IF total = 0 THEN size ELSE first
  /\ processing' = TRUE
  /\ running' = ~processing
  /\ UNCHANGED <<sent, next, awaiting, replied, discarded>>

\* The catch block: what is buffered is lost, and the rest of it, when it comes,
\* is not recognised (from here on the model says no more).
ReadThrows ==
  /\ running /\ OutOfRange
  /\ total' = 0 /\ first' = 0
  /\ discarded' = TRUE
  /\ processing' = FALSE /\ running' = FALSE
  /\ UNCHANGED <<sent, wire, next, awaiting, replied, short>>

\* No complete request: the loop ends.
Break ==
  /\ running /\ ~OutOfRange
  /\ ~Complete
  /\ first' = Merged
  /\ processing' = FALSE /\ running' = FALSE
  /\ UNCHANGED <<sent, wire, total, next, awaiting, replied, discarded, short>>

\* Mutant of Take: what follows the request in its chunk is not kept.
TakeAll ==
  /\ running /\ ~OutOfRange
  /\ Complete
  /\ total' = 0 /\ first' = 0
  /\ next' = next + 1
  /\ awaiting' = awaiting \cup {next}
  /\ running' = FALSE
  /\ UNCHANGED <<sent, wire, processing, replied, discarded, short>>

\* The request is taken off, what is left becomes the only chunk, and
\* handleMessage is awaited.
Take ==
  /\ running /\ ~OutOfRange
  /\ Complete
  /\ total' = total - Length(next) /\ first' = total - Length(next)
  /\ next' = next + 1
  /\ awaiting' = awaiting \cup {next}
  /\ running' = FALSE
  /\ UNCHANGED <<sent, wire, processing, replied, discarded, short>>

\* Mutant of Reply: the loop ends with the request, the next read starts another.
ReplyEnds(i) ==
  /\ ~running
  /\ i \in awaiting
  /\ awaiting' = awaiting \ {i}
  /\ replied' = Append(replied, i)
  /\ processing' = FALSE
  /\ UNCHANGED <<sent, wire, total, first, next, running, discarded, short>>

\* handleMessage returns, the response is written, the loop goes round.
Reply(i) ==
  /\ ~running
  /\ i \in awaiting
  /\ awaiting' = awaiting \ {i}
  /\ replied' = Append(replied, i)
  /\ running' = TRUE
  /\ UNCHANGED <<sent, wire, total, first, next, processing, discarded, short>>

LoopStep == ReadThrows \/ Break \/ Take

Next ==
  \/ \E length \in Lengths : ClientSends(length)
  \/ \E size \in 1 .. wire : Data(size)
  \/ LoopStep
  \/ \E i \in awaiting : Reply(i)

Spec == Init /\ [][Next]_vars

(***************************************************************************)
(* What was written is read, loops run on, and every request is answered   *)
(* some time (executeWorkload by its timer).  Clients need not send.       *)
(***************************************************************************)
FairSpec ==
  /\ Spec
  /\ WF_vars(\E size \in 1 .. wire : Data(size))
  /\ WF_vars(LoopStep)
  /\ WF_vars(\E i \in awaiting : Reply(i))

-----------------------------------------------------------------------------

TypeOK ==
  /\ sent \in Seq(Nat) /\ \A i \in DOMAIN sent : Length(i) \in Lengths
  /\ wire \in Nat /\ total \in Nat /\ first \in 0 .. total
  /\ next \in 1 .. Len(sent) + 1
  /\ processing \in BOOLEAN /\ running \in BOOLEAN
  /\ discarded \in BOOLEAN /\ short \in BOOLEAN
  /\ awaiting \subseteq 1 .. Len(sent)
  /\ replied \in Seq(1 .. Len(sent))

(***************************************************************************)
(* A client's bytes are thrown away only if the stream was cut very finely *)
(* (processBuffer's catch): the first bytes of a request must have come in *)
(* a read of less than seven bytes that did not empty the socket.          *)
(***************************************************************************)
DiscardsAfterShortReads == discarded => short

(***************************************************************************)
(* Responses leave in the order of the requests, although handleMessage is *)
(* awaited and reads go on meanwhile: the Python client takes the next     *)
(* response on its connection for the answer and compares no ids.          *)
(***************************************************************************)
RepliesInOrder ==
  /\ \A i \in DOMAIN replied : replied[i] = i
  /\ \A i \in awaiting : i = Len(replied) + 1

(***************************************************************************)
(* A complete request is not left in the buffer when no loop is going to   *)
(* look at it: neither the bytes behind a request nor those that arrived   *)
(* during its handling are forgotten.                                      *)
(***************************************************************************)
NothingStranded == Complete => running \/ awaiting # {} \/ discarded

(***************************************************************************)
(* Every request on the connection is answered, unless bytes were lost.    *)
(***************************************************************************)
EveryRequestAnswered ==
  \A i \in 1 .. MaxRequests : Len(sent) >= i ~> Len(replied) >= i \/ discarded

=============================================================================
