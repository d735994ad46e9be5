----------------------------- MODULE VideoWorkload -----------------------------
(***************************************************************************)
(* A video analysis: the plan of its chunks (partitionVideoFrames of       *)
(* core/src/chunk_engine.ts), the consumers that take them in turn         *)
(* (executeChunkedVideoAnalysis of core/src/ipc_server.ts), what a worker  *)
(* finds in a chunk, and how the answers become one list of frames again   *)
(* (assembleVideoAnalysis).                                                *)
(*                                                                         *)
(* Placement, retries and timeouts of a chunk are those of ChunkDispatch;  *)
(* here a chunk is answered or has failed.  A frame's metrics are the      *)
(* number it is given, the frame of the buffer they were computed from and *)
(* the one its motion was compared with.                                   *)
(***************************************************************************)
EXTENDS Integers, SequencesExt

CONSTANTS
  Totals,      \* totalFrames
  ChunkSizes,  \* chunkSize; 0 is the default of 30
  Consumers    \* effectiveWorkerCount, at least 1

ASSUME VideoAssumption ==
  /\ Totals \subseteq Nat \ {0}
  /\ ChunkSizes \subseteq Int \ {0}
  /\ Consumers \subseteq Nat \ {0}

VARIABLES
  totalFrames, chunkSize, supplied,  \* frames asked for, per chunk, in the buffer
  concurrency,
  left,          \* rows an earlier submission of this workload id has left PENDING
  stage,         \* where the workload is
  nextSpec,      \* the first chunk of pendingSpecs
  working,       \* the chunks the consumers wait for
  chunkResults   \* in the order they were answered

videoParams == <<totalFrames, chunkSize, supplied, concurrency, left>>
videoVars == <<videoParams, stage, nextSpec, working, chunkResults>>

NoFrame == -1
Smaller(m, n) == IF m <= n THEN m ELSE n

\* The chunks of a plan.
ActualSize(size) == IF size < 1 THEN 1 ELSE size
TotalChunks(size) == (totalFrames + ActualSize(size) - 1) \div ActualSize(size)
Plan(size) ==
  [c \in 0 .. TotalChunks(size) - 1 |->
     [startFrameIndex |-> c * ActualSize(size),
      frameCount |-> Smaller(ActualSize(size), totalFrames - c * ActualSize(size))]]

chunkSpecs == Plan(chunkSize)
totalChunks == TotalChunks(chunkSize)

VideoInit ==
  /\ totalFrames \in Totals /\ chunkSize \in ChunkSizes
  /\ supplied \in {totalFrames - 1, totalFrames}
  /\ concurrency \in Consumers
  /\ \E size \in ChunkSizes : \E ids \in SUBSET DOMAIN Plan(size) :
       left = [c \in ids |-> Plan(size)[c]]
  /\ stage = "plan" /\ nextSpec = 0 /\ working = {} /\ chunkResults = <<>>

-----------------------------------------------------------------------------

\* The consumers that are free take the next chunks, in order.
Take(busy, from) ==
  LET n == Smaller(from + concurrency - Cardinality(busy), totalChunks) IN
  /\ working' = busy \cup (from .. n - 1)
  /\ nextSpec' = n

Partition ==
  /\ stage = "plan"
  /\ supplied >= totalFrames
  /\ stage' = "work"
  /\ Take({}, 0)
  /\ UNCHANGED <<videoParams, chunkResults>>

PartitionThrows ==
  /\ stage = "plan"
  /\ supplied < totalFrames
  /\ stage' = "refused"
  /\ UNCHANGED <<videoParams, nextSpec, working, chunkResults>>

\* What a worker is told of a chunk is in its row, which is not created again.
Told(c) == IF c \in DOMAIN left THEN left[c] ELSE chunkSpecs[c]

\* The kernel starts without a previous frame, and answers nothing when it is told
\* of more frames than it was given.
Metrics(c) ==
  IF Told(c).frameCount > chunkSpecs[c].frameCount THEN <<>>
  ELSE [f \in 1 .. Told(c).frameCount |->
          LET frame == chunkSpecs[c].startFrameIndex + f - 1 IN
          [frameIndex |-> Told(c).startFrameIndex + f - 1,
           of |-> frame,
           previous |-> IF f = 1 THEN NoFrame ELSE frame - 1]]

\* A simulated worker's answer is a Buffer, which the assembler does not parse.
Answers(c) == {[chunkIndex |-> c, metrics |-> Metrics(c), by |-> "macOS"],
               [chunkIndex |-> c, metrics |-> <<>>, by |-> "simulated"]}

\* The consumer keeps the answer and takes the next chunk.
ChunkAnswered(c, answer) ==
  /\ stage = "work"
  /\ c \in working
  /\ chunkResults' = Append(chunkResults, answer)
  /\ Take(working \ {c}, nextSpec)
  /\ UNCHANGED <<videoParams, stage>>

\* The retries are used up: Promise.all rejects.
ChunkFails(c) ==
  /\ stage = "work"
  /\ c \in working
  /\ stage' = "failed"
  /\ UNCHANGED <<videoParams, nextSpec, working, chunkResults>>

\* Mutant of Sorted: the results are taken as they came.
AsReceived == chunkResults

\* How many results are not after the n-th one, in the order of the chunks.
Rank(results, n) ==
  Cardinality({m \in DOMAIN results :
                 \/ results[m].chunkIndex < results[n].chunkIndex
                 \/ results[m].chunkIndex = results[n].chunkIndex /\ m <= n})

ByChunkIndex(results) ==
  [k \in DOMAIN results |->
     results[CHOOSE n \in DOMAIN results : Rank(results, n) = k]]

Sorted == ByChunkIndex(chunkResults)
Aggregated == FlattenSeq([n \in DOMAIN Sorted |-> Sorted[n].metrics])

\* The assembler checks the indexes, its caller the number of frames.
Assembles ==
  /\ \A n \in DOMAIN Sorted : Sorted[n].chunkIndex = n - 1
  /\ Len(Aggregated) = totalFrames

Assemble ==
  /\ stage = "work"
  /\ working = {}
  /\ stage' = IF Assembles THEN "completed" ELSE "refused"
  /\ UNCHANGED <<videoParams, nextSpec, working, chunkResults>>

VideoNext ==
  \/ Partition \/ PartitionThrows
  \/ \E c \in working : ChunkFails(c) \/ \E answer \in Answers(c) : ChunkAnswered(c, answer)
  \/ Assemble

VideoSpec == VideoInit /\ [][VideoNext]_videoVars

-----------------------------------------------------------------------------

SamePlan == \A c \in DOMAIN left \cap DOMAIN chunkSpecs : left[c] = chunkSpecs[c]

\* Only the chunk indexes and the number of frames are checked, and still: when the
\* client gets an analysis, every frame of its video is in it once, in order,
\* compared with the frame before it unless it begins a chunk, and numbered right
\* unless a row is left over from another plan.  When it gets none, the buffer was
\* too short, a simulated worker answered or such a row was there
\* (assembleVideoAnalysis, executeChunkedVideoAnalysis).
VideoIsWhole ==
  /\ stage = "completed" =>
       /\ Len(Aggregated) = totalFrames
       /\ \A n \in 1 .. totalFrames :
            /\ Aggregated[n].of = n - 1
            /\ Aggregated[n].previous =
                 IF (n - 1) % ActualSize(chunkSize) = 0 THEN NoFrame ELSE n - 2
            /\ SamePlan => Aggregated[n].frameIndex = n - 1
  /\ stage = "refused" =>
       \/ supplied < totalFrames
       \/ \E n \in DOMAIN chunkResults : chunkResults[n].by = "simulated"
       \/ ~SamePlan

=============================================================================
