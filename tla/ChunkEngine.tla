------------------------------ MODULE ChunkEngine ------------------------------
(***************************************************************************)
(* Splitting a matrix or an image into chunks of rows and putting the      *)
(* results together again (core/src/chunk_engine.ts), with what the blur   *)
(* kernel computes on a chunk.  A behaviour is one workload: the loop that *)
(* plans the chunks, the workers' answers in any order, and the loop that  *)
(* checks and copies the results.                                          *)
(*                                                                         *)
(* A row of the result is represented by the rows of the input it is       *)
(* computed from, one for each offset -radius .. radius.  A matrix is the  *)
(* case of radius 0.  Columns and bytes are left out: a buffer is a number *)
(* of rows, and the length checks compare those.                           *)
(***************************************************************************)
EXTENDS Integers, FiniteSets

CONSTANTS
  Heights,   \* rows of the matrix or the image
  Requests,  \* totalChunks asked for
  Radii      \* radius of the image filter

ASSUME ChunkEngineAssumption ==
  /\ Heights \subseteq Nat \ {0}
  /\ Requests \subseteq Nat \ {0}
  /\ Radii \subseteq Nat

VARIABLES
  height, radius, total,  \* M or height, radius, actualChunks
  phase,                  \* where the workload is
  i,                      \* index of the loop of the phase
  currentRow,             \* of the planning loop
  spec,                   \* the chunks planned so far
  result,                 \* the outputBuffer of the chunks in answered
  answered,
  expectedNextRow,        \* of the assembling loop
  finalBuffer             \* allocUnsafe: a row nobody wrote is Garbage

params == <<height, radius, total>>
vars == <<height, radius, total, phase, i, currentRow, spec, result, answered,
          expectedNextRow, finalBuffer>>

Chunks == 0 .. total - 1
Phases == {"plan", "work", "assemble", "done", "rejected"}

Least(m, n) == IF m <= n THEN m ELSE n
Greatest(m, n) == IF m <= n THEN n ELSE m
Clamp(n, high) == Greatest(0, Least(high, n))

NoSpec == [outRowStart |-> 0, outRowEnd |-> 0, inRowStart |-> 0, inRowEnd |-> 0]
NoResult == [rows |-> 0, row |-> <<>>]
Garbage == <<>>

-----------------------------------------------------------------------------

\* The rows the filter reads for row y of a buffer of h rows: beyond an edge it
\* reads the edge.
Window(y, h) == [k \in -radius .. radius |-> Clamp(y + k, h - 1)]

\* Mutant: the row that leaves is the first one still in the window.
SlidingEarly(h) ==
  LET sum[y \in 0 .. h - 1] ==
        IF y = 0
        THEN [r \in 0 .. h - 1 |->
               Cardinality({k \in -radius .. radius : Clamp(k, h - 1) = r})]
        ELSE [r \in 0 .. h - 1 |-> sum[y - 1][r]
               + (IF r = Clamp(y + radius, h - 1) THEN 1 ELSE 0)
               - (IF r = Clamp(y - radius, h - 1) THEN 1 ELSE 0)]
  IN sum

\* The kernel keeps the sum while it slides down: one row enters, one leaves.
\* Sliding(h)[y][r] is how often row r is in windowSum at row y.
Sliding(h) ==
  LET sum[y \in 0 .. h - 1] ==
        IF y = 0
        THEN [r \in 0 .. h - 1 |->
               Cardinality({k \in -radius .. radius : Clamp(k, h - 1) = r})]
        ELSE [r \in 0 .. h - 1 |-> sum[y - 1][r]
               + (IF r = Clamp(y + radius, h - 1) THEN 1 ELSE 0)
               - (IF r = Clamp(y - radius - 1, h - 1) THEN 1 ELSE 0)]
  IN sum

-----------------------------------------------------------------------------

\* actualChunks is clamped so that no chunk is empty.
Init ==
  /\ height \in Heights /\ radius \in Radii
  /\ \E n \in Requests : total = Least(n, height)
  /\ phase = "plan" /\ i = 0 /\ currentRow = 0
  /\ spec = [c \in Chunks |-> NoSpec]
  /\ result = [c \in Chunks |-> NoResult]
  /\ answered = {}
  /\ expectedNextRow = 0
  /\ finalBuffer = [y \in 0 .. height - 1 |-> Garbage]

\* Mutant: the rows that are left over go to the last chunks.
RowCountLate(c) ==
  height \div total + (IF c >= total - (height % total) THEN 1 ELSE 0)

RowCount(c) == height \div total + (IF c < (height % total) THEN 1 ELSE 0)

\* Mutant: the halo below misses a row.
HaloedShort(start, end) ==
  [outRowStart |-> start, outRowEnd |-> end,
   inRowStart  |-> Greatest(0, start - radius),
   inRowEnd    |-> Least(height, Greatest(end, end + radius - 1))]

Haloed(start, end) ==
  [outRowStart |-> start, outRowEnd |-> end,
   inRowStart  |-> Greatest(0, start - radius),
   inRowEnd    |-> Least(height, end + radius)]

PlanChunk ==
  /\ phase = "plan"
  /\ spec' = [spec EXCEPT ![i] = Haloed(currentRow, currentRow + RowCount(i))]
  /\ currentRow' = currentRow + RowCount(i)
  /\ i' = i + 1
  /\ phase' = IF i + 1 = total THEN "work" ELSE "plan"
  /\ UNCHANGED <<params, result, answered, expectedNextRow, finalBuffer>>

InRowCount(c) == spec[c].inRowEnd - spec[c].inRowStart
TopHalo(c) == spec[c].outRowStart - spec[c].inRowStart

\* The chunk's own rows, blurred as if they were the image; n of them.
Blurred(c, n) ==
  [rows |-> n,
   row  |-> [y \in 0 .. n - 1 |->
              [k \in -radius .. radius |->
                 spec[c].inRowStart + Window(y, InRowCount(c))[k]]]]

\* A worker may answer with a buffer that is too short.
WorkerAnswers(c, n) ==
  /\ phase = "work"
  /\ c \notin answered
  /\ n \in {InRowCount(c), InRowCount(c) - 1}
  /\ result' = [result EXCEPT ![c] = Blurred(c, n)]
  /\ answered' = answered \cup {c}
  /\ UNCHANGED <<params, phase, i, currentRow, spec, expectedNextRow, finalBuffer>>

\* Promise.all of the chunks; the results are in the order of the chunks.
StartAssembly ==
  /\ phase = "work"
  /\ answered = Chunks
  /\ phase' = "assemble"
  /\ i' = 0
  /\ UNCHANGED <<params, currentRow, spec, result, answered, expectedNextRow,
                 finalBuffer>>

\* Mutant: the length is compared with the rows that are kept.
FitsKept(c) ==
  /\ spec[c].outRowStart = expectedNextRow
  /\ result[c].rows = spec[c].outRowEnd - spec[c].outRowStart

Fits(c) ==
  /\ spec[c].outRowStart = expectedNextRow
  /\ result[c].rows = InRowCount(c)

\* Mutant: the halo is not skipped.
CopiedFromTop(c) ==
  [y \in 0 .. height - 1 |->
     IF y \in spec[c].outRowStart .. spec[c].outRowEnd - 1
     THEN result[c].row[y - spec[c].outRowStart] ELSE finalBuffer[y]]

Copied(c) ==
  [y \in 0 .. height - 1 |->
     IF y \in spec[c].outRowStart .. spec[c].outRowEnd - 1
     THEN result[c].row[TopHalo(c) + y - spec[c].outRowStart] ELSE finalBuffer[y]]

CopyChunk ==
  /\ phase = "assemble"
  /\ i < total /\ Fits(i)
  /\ finalBuffer' = Copied(i)
  /\ expectedNextRow' = spec[i].outRowEnd
  /\ i' = i + 1
  /\ UNCHANGED <<params, phase, currentRow, spec, result, answered>>

RejectChunk ==
  /\ phase = "assemble"
  /\ i < total /\ ~Fits(i)
  /\ phase' = "rejected"
  /\ UNCHANGED <<params, i, currentRow, spec, result, answered, expectedNextRow,
                 finalBuffer>>

FinishAssembly ==
  /\ phase = "assemble"
  /\ i = total
  /\ phase' = IF expectedNextRow = height THEN "done" ELSE "rejected"
  /\ UNCHANGED <<params, i, currentRow, spec, result, answered, expectedNextRow,
                 finalBuffer>>

Next ==
  \/ PlanChunk
  \/ \E c \in Chunks, n \in 0 .. height : WorkerAnswers(c, n)
  \/ StartAssembly \/ CopyChunk \/ RejectChunk \/ FinishAssembly

Spec == Init /\ [][Next]_vars

-----------------------------------------------------------------------------

Planned == phase # "plan"
Size(c) == spec[c].outRowEnd - spec[c].outRowStart

\* The chunks are not empty, follow each other without gap or overlap, cover all
\* rows, and the earliest ones take the rows that are left over
\* (partitionMatrixMultiply: "Cover every row exactly once", partitionImageFilter).
PlanPartitions ==
  Planned =>
    /\ spec[0].outRowStart = 0 /\ spec[total - 1].outRowEnd = height
    /\ \A c \in Chunks : Size(c) > 0
    /\ \A c \in Chunks \ {0} :
         /\ spec[c].outRowStart = spec[c - 1].outRowEnd
         /\ Size(c) \in {Size(c - 1), Size(c - 1) - 1}

\* What is assembled is what the kernel computes on the undivided input: each row
\* is written, and from the same input rows, however the rows are split and in
\* whatever order the chunks are answered (assembleImageChunks).
AssembledIsWhole ==
  phase = "done" =>
    \A y \in 0 .. height - 1 : finalBuffer[y] = Window(y, height)

\* The assembler refuses nothing the planner made: if it rejects, a worker's
\* answer had the wrong length (assembleMatrixChunks, assembleImageChunks).
AcceptsOwnPlan ==
  phase = "rejected" => \E c \in Chunks : result[c].rows # InRowCount(c)

\* The incremental sum of the kernel is the sum of the window (computeBoxBlur).
SlidingIsWindow ==
  \A y, r \in 0 .. height - 1 :
    Sliding(height)[y][r] =
      Cardinality({k \in -radius .. radius : Window(y, height)[k] = r})

=============================================================================
