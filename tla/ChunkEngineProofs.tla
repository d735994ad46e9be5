--------------------------- MODULE ChunkEngineProofs ---------------------------
(***************************************************************************)
(* Theorems about splitting and assembling, for every height, every number *)
(* of chunks and every radius.                                             *)
(***************************************************************************)
EXTENDS ChunkedWorkload, FunctionTheorems, FiniteSetTheorems, WellFoundedInduction, TLAPS

(***************************************************************************)
(* The planning loop in closed form: Start(c) is currentRow before the     *)
(* c-th iteration.  The inductive invariant says that the planned chunks   *)
(* are the closed form, that the answers are the blurred chunks, and that  *)
(* the assembled rows are right up to the row the loop expects next.       *)
(***************************************************************************)
Base == height \div total
Left == height % total
Start(c) == c * Base + Least(c, Left)

Params == height \in Nat \ {0} /\ radius \in Nat /\ total \in 1 .. height

PlanInv ==
  /\ i \in 0 .. total
  /\ DOMAIN spec = Chunks
  /\ phase = "plan" =>
       /\ i < total
       /\ currentRow = Start(i)
       /\ \A c \in 0 .. i - 1 : spec[c] = Haloed(Start(c), Start(c + 1))
  /\ Planned => \A c \in Chunks : spec[c] = Haloed(Start(c), Start(c + 1))

AnswerInv ==
  /\ answered \subseteq Chunks
  /\ DOMAIN result = Chunks
  /\ phase = "plan" => answered = {}
  /\ \A c \in answered : \E n \in 0 .. height : result[c] = Blurred(c, n)

AssembleInv ==
  /\ DOMAIN finalBuffer = 0 .. height - 1
  /\ phase = "assemble" =>
       /\ answered = Chunks
       /\ expectedNextRow = Start(i)
       /\ \A y \in 0 .. Start(i) - 1 : finalBuffer[y] = Window(y, height)

IInv == /\ Params
        /\ phase \in Phases
        /\ PlanInv
        /\ AnswerInv
        /\ phase \in {"plan", "work"} => expectedNextRow = 0
        /\ AssembleInv
        /\ AssembledIsWhole
        /\ AcceptsOwnPlan

-----------------------------------------------------------------------------
(* Arithmetic of the plan. *)

\* Quotient and remainder of the height.
LEMMA Division ==
  ASSUME Params
  PROVE  /\ Base \in Nat \ {0}
         /\ Left \in 0 .. total - 1
         /\ height = total * Base + Left
  BY Z3 DEF Params, Base, Left

\* The row a chunk starts at.
LEMMA StartAt ==
  ASSUME Params
  PROVE  /\ Start(0) = 0
         /\ Start(total) = height
         /\ \A c \in 0 .. total : Start(c) \in Nat /\ Start(c) <= height
         /\ \A c \in Chunks : /\ Start(c + 1) = Start(c) + RowCount(c)
                              /\ Start(c) < Start(c + 1)
  <1>1. /\ Base \in Nat \ {0} /\ Left \in 0 .. total - 1
        /\ height = total * Base + Left /\ total \in Nat
    BY Division DEF Params
  <1>2. Start(0) = 0  BY <1>1 DEF Start, Least
  <1>3. Start(total) = height  BY <1>1 DEF Start, Least
  <1>4. ASSUME NEW c \in 0 .. total PROVE Start(c) \in Nat /\ Start(c) <= height
    <2>1. c * Base \in Nat  BY <1>1
    <2>2. Least(c, Left) \in Nat /\ Least(c, Left) <= Left
      BY <1>1 DEF Least
    <2>3. c * Base <= total * Base
      <3>1. (total - c) * Base >= 0  BY <1>1
      <3>2. (total - c) * Base = total * Base - c * Base  BY <1>1
      <3> QED  BY <1>1, <3>1, <3>2
    <2>4. total * Base \in Nat  BY <1>1
    <2> QED  BY <1>1, <2>1, <2>2, <2>3, <2>4 DEF Start
  <1>5. ASSUME NEW c \in Chunks
        PROVE Start(c + 1) = Start(c) + RowCount(c) /\ Start(c) < Start(c + 1)
    <2>1. c \in Nat /\ c * Base \in Nat  BY <1>1 DEF Chunks
    <2>2. (c + 1) * Base = c * Base + Base  BY <1>1, <2>1
    <2>3. RowCount(c) = Base + (IF c < Left THEN 1 ELSE 0)
      BY DEF RowCount, Base, Left
    <2>4. Least(c + 1, Left) = Least(c, Left) + (IF c < Left THEN 1 ELSE 0)
      BY <1>1, <2>1 DEF Least
    <2>5. Least(c, Left) \in Nat  BY <1>1, <2>1 DEF Least
    <2> QED  BY <1>1, <2>1, <2>2, <2>3, <2>4, <2>5 DEF Start
  <1> QED  BY <1>2, <1>3, <1>4, <1>5

\* What the planning loop writes, once the closed form is known.
LEMMA SpecFacts ==
  ASSUME Params, NEW c \in Chunks, spec[c] = Haloed(Start(c), Start(c + 1))
  PROVE  /\ spec[c].outRowStart = Start(c) /\ spec[c].outRowEnd = Start(c + 1)
         /\ spec[c].inRowStart = Greatest(0, Start(c) - radius)
         /\ spec[c].inRowEnd = Least(height, Start(c + 1) + radius)
         /\ Start(c) \in Nat /\ Start(c + 1) \in Nat
         /\ Start(c) < Start(c + 1) /\ Start(c + 1) <= height
  <1>1. c \in 0 .. total /\ c + 1 \in 0 .. total  BY DEF Chunks, Params
  <1>2. /\ Start(c) \in Nat /\ Start(c + 1) \in Nat
        /\ Start(c) < Start(c + 1) /\ Start(c + 1) <= height
    BY <1>1, StartAt
  <1> QED  BY <1>2 DEF Haloed

\* At offset k from row y, a chunk that is to produce the rows s .. e - 1 has the
\* row that the whole input of h rows has.
SameRow(h, rad, s, e, y, k) ==
  LET in == Greatest(0, s - rad)
      n == Least(h, e + rad) - in
  IN  /\ y - in \in 0 .. n - 1
      /\ in + Clamp(y - in + k, n - 1) = Clamp(y + k, h - 1)

\* The heart of the matter: within the chunk's own rows, blurring the chunk reads
\* the rows that blurring the whole input reads.
LEMMA HalosSuffice ==
  ASSUME NEW h \in Nat, NEW rad \in Nat, NEW s \in Nat, NEW e \in Nat,
         s < e, e <= h,
         NEW y \in s .. e - 1, NEW k \in -rad .. rad
  PROVE  SameRow(h, rad, s, e, y, k)
  BY DEF SameRow, Greatest, Least, Clamp

-----------------------------------------------------------------------------
(* Each step keeps the invariant. *)

\* The invariant holds before the plan is made.
LEMMA InitInv == Init => IInv
  <1> SUFFICES ASSUME Init PROVE IInv  OBVIOUS
  <1>1. Params
    BY ChunkEngineAssumption DEF Init, Params, Least
  <1>2. PlanInv
    BY <1>1, StartAt DEF Init, PlanInv, Params, Planned
  <1> QED  BY <1>1, <1>2 DEF Init, IInv, Phases, AnswerInv, AssembleInv,
                AssembledIsWhole, AcceptsOwnPlan

\* One turn of the planning loop keeps the closed form.
LEMMA PlanKeeps ==
  ASSUME IInv, PlanChunk
  PROVE  IInv'
  <1> USE DEF PlanChunk
  <1>1. Params /\ Params' /\ i \in Chunks /\ i + 1 \in 0 .. total /\ i \in Nat
    BY DEF IInv, Params, PlanInv, Chunks, params
  <1>2. \A c : Start(c)' = Start(c) /\ (\A a, b : Haloed(a, b)' = Haloed(a, b))
    BY DEF Start, Base, Left, Haloed, params
  <1>3. currentRow = Start(i) /\ Start(i + 1) = Start(i) + RowCount(i)
    BY <1>1, StartAt DEF IInv, PlanInv
  <1>4. \A c \in 0 .. i : spec'[c] = Haloed(Start(c), Start(c + 1))
    BY <1>1, <1>3 DEF IInv, PlanInv, Chunks
  <1>5. PlanInv'
    <2>1. i' = i + 1 /\ i' \in 0 .. total' /\ (phase' = "plan" <=> i' # total)
          /\ (phase' = "plan" => i' < total')
      <3>1. i' = i + 1 /\ total' = total  BY DEF params
      <3>2. phase' = "plan" <=> i + 1 # total  OBVIOUS
      <3>3. total \in Nat  BY <1>1 DEF Params
      <3> QED  BY ONLY <1>1, <3>1, <3>2, <3>3
    <2>2. currentRow' = Start(i)'
      <3>1. Start(i)' = Start(i + 1)  BY DEF Start, Base, Left, params
      <3> QED  BY <1>3, <3>1
    <2>3. Chunks' = Chunks /\ DOMAIN spec' = Chunks'
      BY DEF Chunks, params, IInv, PlanInv
    <2>4. 0 .. i' - 1 = 0 .. i  BY <1>1
    <2>5. Planned' => Chunks' = 0 .. i
      BY <1>1, <2>1, <2>3 DEF Chunks, Planned
    <2>6. ASSUME NEW c \in 0 .. i
          PROVE  spec'[c] = Haloed(Start(c), Start(c + 1))'
      BY <1>4 DEF Start, Base, Left, Haloed, params
    <2> QED  BY <2>1, <2>2, <2>3, <2>4, <2>5, <2>6 DEF PlanInv
  <1>6. AnswerInv' /\ (phase \in Phases)' /\ expectedNextRow' = 0 /\ AssembleInv'
        /\ phase' \in {"plan", "work"}
    BY DEF IInv, AnswerInv, AssembleInv, Phases, Chunks, params
  <1> QED  BY <1>1, <1>5, <1>6 DEF IInv, AssembledIsWhole, AcceptsOwnPlan

\* The steps after planning leave the plan alone.
LEMMA PlanStays ==
  ASSUME IInv, UNCHANGED params, UNCHANGED spec, Planned, Planned', i' \in 0 .. total
  PROVE  /\ Params' /\ PlanInv' /\ Chunks' = Chunks
         /\ \A c : Start(c)' = Start(c) /\ InRowCount(c)' = InRowCount(c)
         /\ \A y, h : Window(y, h)' = Window(y, h)
         /\ \A c, n : Blurred(c, n)' = Blurred(c, n)
  <1>1. Params' /\ Chunks' = Chunks  BY DEF IInv, Params, params, Chunks
  <1>2. \A c : Start(c)' = Start(c) /\ (\A a, b : Haloed(a, b)' = Haloed(a, b))
    BY DEF Start, Base, Left, Haloed, params
  <1>3. PlanInv'
    BY <1>1, <1>2 DEF IInv, PlanInv, Planned, params
  <1>4. \A c : InRowCount(c)' = InRowCount(c)  BY DEF InRowCount
  <1>5. \A y, h : Window(y, h)' = Window(y, h)  BY DEF Window, params
  <1>6. \A c, n : Blurred(c, n)' = Blurred(c, n)
    BY DEF Blurred, InRowCount, Window, params
  <1> QED  BY <1>1, <1>2, <1>3, <1>4, <1>5, <1>6

\* A worker answers the rows of its chunk.
LEMMA AnswerKeeps ==
  ASSUME IInv, NEW c \in Chunks, NEW n \in 0 .. height, WorkerAnswers(c, n)
  PROVE  IInv'
  <1> USE DEF WorkerAnswers
  <1>1. Planned /\ Planned' /\ i' \in 0 .. total
    BY DEF Planned, IInv, PlanInv
  <1>2. /\ Params' /\ PlanInv' /\ Chunks' = Chunks
        /\ \A d, m : Blurred(d, m)' = Blurred(d, m)
    BY <1>1, PlanStays
  <1>3. AnswerInv'
    BY <1>2 DEF IInv, AnswerInv, params
  <1>4. AssembleInv'  BY DEF IInv, AssembleInv, params
  <1> QED  BY <1>2, <1>3, <1>4 DEF IInv, Phases, AssembledIsWhole, AcceptsOwnPlan

\* Assembly begins with no row copied.
LEMMA StartKeeps ==
  ASSUME IInv, StartAssembly
  PROVE  IInv'
  <1> USE DEF StartAssembly
  <1>1. Planned /\ Planned' /\ i' \in 0 .. total
    BY DEF Planned, IInv, Params
  <1>2. /\ Params' /\ PlanInv' /\ Chunks' = Chunks
        /\ \A c : Start(c)' = Start(c)
        /\ \A d, m : Blurred(d, m)' = Blurred(d, m)
    BY <1>1, PlanStays
  <1>3. AnswerInv'  BY <1>2 DEF IInv, AnswerInv, params
  <1>4. AssembleInv'
    <2>1. Start(0) = 0  BY StartAt DEF IInv
    <2> QED  BY <1>2, <2>1 DEF IInv, AssembleInv, params
  <1> QED  BY <1>2, <1>3, <1>4 DEF IInv, Phases, AssembledIsWhole, AcceptsOwnPlan

\* Copying a chunk keeps the rows copied so far right.
LEMMA CopyKeeps ==
  ASSUME IInv, CopyChunk
  PROVE  IInv'
  <1> USE DEF CopyChunk
  <1>1. Planned /\ Planned' /\ i \in Nat /\ i \in Chunks /\ i' \in 0 .. total
    BY DEF Planned, IInv, Params, PlanInv, Chunks
  <1>2. /\ Params' /\ PlanInv' /\ Chunks' = Chunks
        /\ \A c : Start(c)' = Start(c)
        /\ \A y, h : Window(y, h)' = Window(y, h)
        /\ \A d, m : Blurred(d, m)' = Blurred(d, m)
    BY <1>1, PlanStays
  <1>3. AnswerInv'  BY <1>2 DEF IInv, AnswerInv, params
  <1> DEFINE s == Start(i)
             e == Start(i + 1)
             in == Greatest(0, s - radius)
             n == Least(height, e + radius) - in
  <1>4. /\ Params
        /\ spec[i].outRowStart = s /\ spec[i].outRowEnd = e
        /\ spec[i].inRowStart = in /\ InRowCount(i) = n
        /\ s \in Nat /\ e \in Nat /\ s < e /\ e <= height
    BY <1>1, SpecFacts DEF IInv, PlanInv, InRowCount
  <1>5. PICK m \in 0 .. height : result[i] = Blurred(i, m)
    BY <1>1 DEF IInv, AnswerInv, AssembleInv
  <1>6. m = n
    <2>1. result[i].rows = m  BY <1>5 DEF Blurred
    <2> QED  BY <1>4, <2>1 DEF Fits
  <1>7. ASSUME NEW y \in s .. e - 1
        PROVE  finalBuffer'[y] = Window(y, height)
    <2>1. y \in 0 .. height - 1
      <3>1. height \in Nat  BY <1>4 DEF Params
      <3> QED  BY ONLY <1>4, <1>7, <3>1
    <2>2. finalBuffer'[y] = result[i].row[TopHalo(i) + y - s]
      <3>1. y \in spec[i].outRowStart .. spec[i].outRowEnd - 1
        BY <1>4, <1>7
      <3>2. finalBuffer'[y] = result[i].row[TopHalo(i) + y - spec[i].outRowStart]
        BY <2>1, <3>1 DEF Copied
      <3> QED  BY <1>4, <3>2
    <2>3. TopHalo(i) + y - s = y - in
      BY <1>4, <1>7 DEF TopHalo, Greatest, IInv, Params
    <2>4. y - in \in 0 .. n - 1
          /\ \A k \in -radius .. radius :
               in + Clamp(y - in + k, n - 1) = Clamp(y + k, height - 1)
      <3>1. height \in Nat /\ radius \in Nat  BY <1>4 DEF Params
      <3>2. s \in Nat /\ e \in Nat /\ s < e /\ e <= height  BY <1>4
      <3>3. ASSUME NEW k \in -radius .. radius
            PROVE  /\ y - in \in 0 .. n - 1
                   /\ in + Clamp(y - in + k, n - 1) = Clamp(y + k, height - 1)
        <4> HIDE DEF s, e
        <4>1. SameRow(height, radius, s, e, y, k)
          BY <1>7, <3>1, <3>2, <3>3, HalosSuffice
        <4> QED  BY <4>1 DEF SameRow
      <3>4. 0 \in -radius .. radius  BY ONLY <3>1
      <3> QED  BY <3>3, <3>4
    <2>5. result[i].row[y - in] =
            [k \in -radius .. radius |-> in + Window(y - in, n)[k]]
      BY <1>4, <1>5, <1>6, <2>4 DEF Blurred
    <2>6. \A k \in -radius .. radius : Window(y - in, n)[k] = Clamp(y - in + k, n - 1)
      BY DEF Window
    <2> HIDE DEF in, n
    <2>7. [k \in -radius .. radius |-> in + Window(y - in, n)[k]]
            = [k \in -radius .. radius |-> Clamp(y + k, height - 1)]
      BY <2>4, <2>6
    <2> QED  BY <2>2, <2>3, <2>5, <2>7 DEF Window
  <1>8. AssembleInv'
    <2>1. ASSUME NEW y \in 0 .. s - 1
          PROVE  finalBuffer'[y] = finalBuffer[y]
      <3>1. y \in 0 .. height - 1 /\ y \notin s .. e - 1
        BY <1>4 DEF Params
      <3>2. y \notin spec[i].outRowStart .. spec[i].outRowEnd - 1
        BY <1>4, <3>1
      <3> QED  BY <3>1, <3>2 DEF Copied
    <2>2. \A y \in 0 .. s - 1 : finalBuffer[y] = Window(y, height)
      BY DEF IInv, AssembleInv
    <2>3. \A y \in 0 .. e - 1 : y \in 0 .. s - 1 \/ y \in s .. e - 1
      BY <1>4
    <2>4. \A y \in 0 .. e - 1 : finalBuffer'[y] = Window(y, height)
      BY <1>7, <2>1, <2>2, <2>3
    <2>5. DOMAIN finalBuffer' = 0 .. height - 1  BY DEF Copied
    <2>6. Start(i)' = e  BY DEF Start, Base, Left, params
    <2>7. expectedNextRow' = e  BY <1>4
    <2>8. height' = height /\ answered' = Chunks'
      BY <1>2 DEF IInv, AssembleInv, params
    <2>9. \A y : Window(y, height)' = Window(y, height)
      BY DEF Window, params
    <2> HIDE DEF s, e
    <2> QED  BY <2>4, <2>5, <2>6, <2>7, <2>8, <2>9 DEF AssembleInv
  <1> QED  BY <1>2, <1>3, <1>8 DEF IInv, Phases, AssembledIsWhole, AcceptsOwnPlan

\* Only a buffer of the wrong length is rejected.
LEMMA RejectKeeps ==
  ASSUME IInv, RejectChunk
  PROVE  IInv'
  <1> USE DEF RejectChunk
  <1>1. Planned /\ Planned' /\ i' \in 0 .. total /\ i \in Chunks
    BY DEF Planned, IInv, PlanInv, Params, Chunks
  <1>2. /\ Params' /\ PlanInv' /\ Chunks' = Chunks
        /\ \A c : InRowCount(c)' = InRowCount(c)
        /\ \A d, m : Blurred(d, m)' = Blurred(d, m)
    BY <1>1, PlanStays
  <1>3. AnswerInv'  BY <1>2 DEF IInv, AnswerInv, params
  <1>4. AssembleInv'  BY DEF IInv, AssembleInv, params
  <1>5. AcceptsOwnPlan'
    <2>1. spec[i].outRowStart = expectedNextRow
      BY <1>1, SpecFacts DEF IInv, PlanInv, AssembleInv
    <2>2. result[i].rows # InRowCount(i)  BY <2>1 DEF Fits
    <2> QED  BY <1>1, <1>2, <2>2 DEF AcceptsOwnPlan
  <1> QED  BY <1>2, <1>3, <1>4, <1>5 DEF IInv, Phases, AssembledIsWhole

\* When all chunks are copied the image is whole.
LEMMA FinishKeeps ==
  ASSUME IInv, FinishAssembly
  PROVE  IInv'
  <1> USE DEF FinishAssembly
  <1>1. Planned /\ Planned' /\ i' \in 0 .. total
    BY DEF Planned, IInv, PlanInv
  <1>2. /\ Params' /\ PlanInv' /\ Chunks' = Chunks
        /\ \A y, h : Window(y, h)' = Window(y, h)
        /\ \A d, m : Blurred(d, m)' = Blurred(d, m)
    BY <1>1, PlanStays
  <1>3. Start(total) = height  BY StartAt DEF IInv
  <1>4. phase' = "done"  BY <1>3 DEF IInv, AssembleInv
  <1>5. AssembledIsWhole'
    BY <1>2, <1>3 DEF IInv, AssembleInv, AssembledIsWhole, params
  <1>6. AnswerInv'  BY <1>2, <1>4 DEF IInv, AnswerInv, params
  <1>7. AssembleInv'  BY <1>4 DEF IInv, AssembleInv, params
  <1> QED  BY <1>2, <1>4, <1>5, <1>6, <1>7 DEF IInv, Phases, AcceptsOwnPlan

\* Every step keeps the invariant.
LEMMA NextKeeps == IInv /\ [Next]_vars => IInv'
  <1> SUFFICES ASSUME IInv, [Next]_vars PROVE IInv'  OBVIOUS
  <1>1. CASE PlanChunk  BY <1>1, PlanKeeps
  <1>2. ASSUME NEW c \in Chunks, NEW n \in 0 .. height, WorkerAnswers(c, n)
        PROVE IInv'
    BY <1>2, AnswerKeeps
  <1>3. CASE StartAssembly  BY <1>3, StartKeeps
  <1>4. CASE CopyChunk  BY <1>4, CopyKeeps
  <1>5. CASE RejectChunk  BY <1>5, RejectKeeps
  <1>6. CASE FinishAssembly  BY <1>6, FinishKeeps
  <1>7. CASE UNCHANGED vars
    <2> USE <1>7 DEF vars
    <2>1. Chunks' = Chunks /\ Planned' = Planned /\ Params' = Params
      BY DEF Chunks, Planned, Params
    <2>2. PlanInv' = PlanInv
      BY DEF PlanInv, Planned, Chunks, Haloed, Start, Base, Left
    <2>3. AnswerInv' = AnswerInv
      BY DEF AnswerInv, Chunks, Blurred, InRowCount, Window
    <2>4. AssembleInv' = AssembleInv
      BY DEF AssembleInv, Chunks, Start, Base, Left, Window
    <2>5. AssembledIsWhole' = AssembledIsWhole
      BY DEF AssembledIsWhole, Window
    <2>6. AcceptsOwnPlan' = AcceptsOwnPlan
      BY DEF AcceptsOwnPlan, Chunks, InRowCount
    <2> QED  BY <2>1, <2>2, <2>3, <2>4, <2>5, <2>6 DEF IInv
  <1> QED  BY <1>1, <1>2, <1>3, <1>4, <1>5, <1>6, <1>7 DEF Next

\* The inductive invariant of planning and assembly holds in every behaviour.
THEOREM Invariance == Spec => []IInv
  BY InitInv, NextKeeps, PTL DEF Spec

\* For every height, number of chunks and radius, the chunks cover each row once,
\* in order, and none is empty.
THEOREM PartitionTheorem == Spec => []PlanPartitions
  <1>1. IInv => PlanPartitions
    <2> SUFFICES ASSUME IInv, Planned PROVE
          /\ spec[0].outRowStart = 0 /\ spec[total - 1].outRowEnd = height
          /\ \A c \in Chunks : Size(c) > 0
          /\ \A c \in Chunks \ {0} :
               /\ spec[c].outRowStart = spec[c - 1].outRowEnd
               /\ Size(c) \in {Size(c - 1), Size(c - 1) - 1}
      BY DEF PlanPartitions
    <2>1. Params /\ total \in Nat /\ 0 \in Chunks /\ total - 1 \in Chunks
          /\ total - 1 + 1 = total
      BY DEF IInv, Params, Chunks
    <2>2. \A c \in Chunks :
            /\ spec[c].outRowStart = Start(c) /\ spec[c].outRowEnd = Start(c + 1)
            /\ Start(c) \in Nat /\ Start(c + 1) \in Nat /\ Start(c) < Start(c + 1)
      BY <2>1, SpecFacts DEF IInv, PlanInv
    <2>3. spec[0].outRowStart = 0 /\ spec[total - 1].outRowEnd = height
      BY <2>1, <2>2, StartAt
    <2>4. \A c \in Chunks : Size(c) = Start(c + 1) - Start(c) /\ Size(c) > 0
      BY <2>2 DEF Size
    <2>5. ASSUME NEW c \in Chunks \ {0}
          PROVE  /\ spec[c].outRowStart = spec[c - 1].outRowEnd
                 /\ Size(c) \in {Size(c - 1), Size(c - 1) - 1}
      <3>1. c - 1 \in Chunks /\ c - 1 + 1 = c /\ c \in Nat
        BY <2>1, <2>5 DEF Chunks
      <3>2. spec[c].outRowStart = spec[c - 1].outRowEnd  BY <2>2, <3>1
      <3>3. Size(c) = RowCount(c) /\ Size(c - 1) = RowCount(c - 1)
        <4>1. Start(c + 1) = Start(c) + RowCount(c)  BY <2>1, StartAt
        <4>2. Start(c - 1 + 1) = Start(c - 1) + RowCount(c - 1)
          BY <2>1, <3>1, StartAt
        <4>3. RowCount(c) \in Int /\ RowCount(c - 1) \in Int
          BY <2>1, Division DEF RowCount, Base, Left
        <4> QED  BY <2>2, <2>4, <3>1, <4>1, <4>2, <4>3
      <3>4. RowCount(c) \in {RowCount(c - 1), RowCount(c - 1) - 1}
        BY <2>1, <3>1, Division DEF RowCount, Base, Left
      <3> QED  BY <3>2, <3>3, <3>4
    <2> QED  BY <2>3, <2>4, <2>5
  <1> QED  BY Invariance, <1>1, PTL

\* For every height, number of chunks and radius, what is assembled is what one
\* pass over the whole input computes, seams included.
THEOREM AssemblyTheorem == Spec => []AssembledIsWhole
  <1>1. IInv => AssembledIsWhole  BY DEF IInv
  <1> QED  BY Invariance, <1>1, PTL

\* The assembler rejects only buffers of the wrong length, never its own plan.
THEOREM AcceptanceTheorem == Spec => []AcceptsOwnPlan
  <1>1. IInv => AcceptsOwnPlan  BY DEF IInv
  <1> QED  BY Invariance, <1>1, PTL

-----------------------------------------------------------------------------
(***************************************************************************)
(* The kernel's sliding sum.  It is a recursive function: Summed is what   *)
(* one step makes of a candidate, and the function is a fixed point of it  *)
(* because there is one, the sums of the windows (Counts).  That it is no  *)
(* other follows from the least row where they differ.                     *)
(***************************************************************************)
Covers(y, r) == {n \in y - radius .. y + radius : Clamp(n, height - 1) = r}

Hits(y, r) == {k \in -radius .. radius : Clamp(y + k, height - 1) = r}

Rows == 0 .. height - 1

Counts == [y \in Rows |-> [r \in Rows |-> Cardinality(Hits(y, r))]]

Enters(y, r) == IF r = Clamp(y + radius, height - 1) THEN 1 ELSE 0
Leaves(y, r) == IF r = Clamp(y - radius - 1, height - 1) THEN 1 ELSE 0

Summed(f) ==
  [y \in Rows |->
     IF y = 0
     THEN [r \in Rows |->
            Cardinality({k \in -radius .. radius : Clamp(k, height - 1) = r})]
     ELSE [r \in Rows |-> f[y - 1][r] + Enters(y, r) - Leaves(y, r)]]

\* The offsets at which the window at row y hits row r are as many as the rows of
\* the window that are clamped to r: each is shifted by y.
LEMMA HitsCovers ==
  ASSUME Params, NEW y \in Rows, NEW r \in Rows
  PROVE  /\ IsFiniteSet(Covers(y, r))
         /\ Cardinality(Hits(y, r)) = Cardinality(Covers(y, r))
         /\ Cardinality(Hits(y, r)) \in Nat
  <1>1. IsFiniteSet(-radius .. radius) /\ Hits(y, r) \in SUBSET (-radius .. radius)
    BY FS_Interval DEF Params, Hits
  <1>2. IsFiniteSet(Hits(y, r))  BY <1>1, FS_Subset
  <1> DEFINE shift == [k \in Hits(y, r) |-> k + y]
  <1>3. shift \in Bijection(Hits(y, r), Covers(y, r))
    <2>1. /\ y \in Int /\ radius \in Int
          /\ \A k \in Hits(y, r) : k \in Int /\ shift[k] = k + y
      BY DEF Params, Hits, Rows
    <2>2. shift \in [Hits(y, r) -> Covers(y, r)]
      <3> SUFFICES ASSUME NEW k \in Hits(y, r)  PROVE k + y \in Covers(y, r)
        OBVIOUS
      <3>1. /\ k + y = y + k /\ k + y \in y - radius .. y + radius
            /\ Clamp(y + k, height - 1) = r
        BY <2>1 DEF Hits
      <3> QED  BY <3>1 DEF Covers
    <2>3. ASSUME NEW j \in Hits(y, r), NEW k \in Hits(y, r), shift[j] = shift[k]
          PROVE  j = k
      <3>1. j \in Int /\ k \in Int /\ j + y = k + y  BY <2>1, <2>3
      <3> QED  BY <2>1, <3>1
    <2>4. ASSUME NEW n \in Covers(y, r)  PROVE \E k \in Hits(y, r) : shift[k] = n
      <3>1. /\ n \in Int /\ n - y \in -radius .. radius /\ y + (n - y) = n
            /\ Clamp(n, height - 1) = r
        BY <2>1 DEF Covers
      <3>2. n - y \in Hits(y, r)  BY <3>1 DEF Hits
      <3> QED  BY <2>1, <3>1, <3>2
    <2> QED  BY <2>2, <2>3, <2>4, Fun_IsBij
  <1>4. ExistsBijection(Hits(y, r), Covers(y, r))
    BY <1>3 DEF ExistsBijection
  <1> QED  BY <1>2, <1>4, FS_Bijection, FS_CardinalityType

\* From one row to the next one row enters the window and one leaves it.
LEMMA WindowSlides ==
  ASSUME Params, NEW y \in Rows, y # 0, NEW r \in Rows
  PROVE  Cardinality(Hits(y, r)) =
           Cardinality(Hits(y - 1, r)) + Enters(y, r) - Leaves(y, r)
  <1> DEFINE low == y - radius - 1
             high == y + radius
             both == {n \in low + 1 .. high - 1 : Clamp(n, height - 1) = r}
  <1>0. /\ y \in Nat /\ radius \in Nat /\ y - 1 \in Rows
        /\ low \in Int /\ high \in Int /\ low < high
    BY DEF Params, Rows
  <1>1. IsFiniteSet(both)
    <2>1. IsFiniteSet(low + 1 .. high - 1)  BY <1>0, FS_Interval
    <2> QED  BY <2>1, FS_Subset
  <1>2. high \notin both /\ low \notin both  BY <1>0
  <1>3. Covers(y, r) = IF Enters(y, r) = 1 THEN both \cup {high} ELSE both
    BY <1>0 DEF Covers, Enters
  <1>4. Covers(y - 1, r) = IF Leaves(y, r) = 1 THEN both \cup {low} ELSE both
    BY <1>0 DEF Covers, Leaves
  <1>5. Enters(y, r) \in {0, 1} /\ Leaves(y, r) \in {0, 1}  BY DEF Enters, Leaves
  <1>6. Cardinality(both) \in Nat  BY <1>1, FS_CardinalityType
  <1> HIDE DEF both, low, high
  <1>7. /\ Cardinality(Covers(y, r)) = Cardinality(both) + Enters(y, r)
        /\ Cardinality(Covers(y - 1, r)) = Cardinality(both) + Leaves(y, r)
    <2>1. /\ Cardinality(both \cup {high}) = Cardinality(both) + 1
          /\ Cardinality(both \cup {low}) = Cardinality(both) + 1
      BY <1>1, <1>2, FS_AddElement
    <2>2. CASE Enters(y, r) = 1 /\ Leaves(y, r) = 1
      BY <1>3, <1>4, <2>1, <2>2
    <2>3. CASE Enters(y, r) = 1 /\ Leaves(y, r) = 0
      BY <1>3, <1>4, <1>6, <2>1, <2>3
    <2>4. CASE Enters(y, r) = 0 /\ Leaves(y, r) = 1
      <3>1. Covers(y, r) = both /\ Covers(y - 1, r) = both \cup {low}
        BY <1>3, <1>4, <2>4
      <3>2. /\ Cardinality(Covers(y, r)) = Cardinality(both)
            /\ Cardinality(Covers(y - 1, r)) = Cardinality(both) + 1
        BY <2>1, <3>1
      <3> QED  BY <1>6, <2>4, <3>2
    <2>5. CASE Enters(y, r) = 0 /\ Leaves(y, r) = 0
      BY <1>3, <1>4, <1>6, <2>5
    <2> QED  BY <1>5, <2>2, <2>3, <2>4, <2>5
  <1>8. /\ Cardinality(Hits(y, r)) = Cardinality(Covers(y, r))
        /\ Cardinality(Hits(y - 1, r)) = Cardinality(Covers(y - 1, r))
    BY <1>0, HitsCovers
  <1> QED  BY <1>5, <1>6, <1>7, <1>8

\* A set of rows that is not empty has a least one.
LEMMA LeastRow ==
  ASSUME NEW S \in SUBSET Nat, S # {}
  PROVE  \E n \in S : \A m \in S : n <= m
  <1> DEFINE F == {0 .. n : n \in S}
  <1>1. F \subseteq FiniteSubsetsOf(Nat) /\ F # {}
    <2>1. ASSUME NEW n \in S  PROVE  0 .. n \in FiniteSubsetsOf(Nat)
      <3>1. IsFiniteSet(0 .. n) /\ 0 .. n \in SUBSET Nat  BY FS_Interval
      <3> QED  BY <3>1, Zenon DEF FiniteSubsetsOf
    <2> QED  BY <2>1, Zenon
  <1>2. PICK least \in F : \A f \in F : <<f, least>> \notin StrictSubsetOrdering(Nat)
    BY <1>1, FS_StrictSubsetOrderingWellFounded, WFMin
  <1>3. PICK n \in S : least = 0 .. n
    OBVIOUS
  <1>4. ASSUME NEW m \in S, m < n  PROVE  FALSE
    <2>1. n \in 0 .. n /\ n \notin 0 .. m /\ 0 .. m \subseteq 0 .. n
      BY <1>4
    <2>2. <<0 .. m, 0 .. n>> \in StrictSubsetOrdering(Nat)
      BY <2>1 DEF StrictSubsetOrdering
    <2> QED  BY <1>2, <1>3, <2>2
  <1> QED  BY <1>4

\* A fixed point of the kernel's loop counts the window at every row.
LEMMA FixedPointCounts ==
  ASSUME Params, NEW f, f = Summed(f)
  PROVE  f = Counts
  <1>1. ASSUME NEW y \in Rows
        PROVE  f[y] = IF y = 0 THEN [r \in Rows |-> Cardinality(Hits(0, r))]
                      ELSE [r \in Rows |-> f[y - 1][r] + Enters(y, r) - Leaves(y, r)]
    <2>1. \A k \in -radius .. radius : 0 + k = k  BY DEF Params
    <2>2. \A r \in Rows : Hits(0, r) = {k \in -radius .. radius : Clamp(k, height - 1) = r}
      BY <2>1 DEF Hits
    <2>3. f[y] = Summed(f)[y]  OBVIOUS
    <2> QED  BY <2>2, <2>3 DEF Summed
  <1>2. \A y \in Rows : f[y] = Counts[y]
    <2> SUFFICES ASSUME NEW z \in Rows, f[z] # Counts[z]  PROVE FALSE
      OBVIOUS
    <2> DEFINE wrong == {y \in Rows : f[y] # Counts[y]}
    <2>1. wrong \in SUBSET Nat /\ wrong # {}  BY DEF Rows
    <2>2. PICK y \in wrong : \A m \in wrong : y <= m  BY <2>1, LeastRow
    <2>3. y \in Rows /\ f[y] # Counts[y]  OBVIOUS
    <2>4. CASE y = 0
      BY <1>1, <2>3, <2>4 DEF Counts
    <2>5. CASE y # 0
      <3>1. y - 1 \in Rows /\ y - 1 \notin wrong
        BY <2>2, <2>3, <2>5 DEF Rows, Params
      <3>2. f[y - 1] = Counts[y - 1]  BY <3>1
      <3>3. \A r \in Rows : f[y - 1][r] + Enters(y, r) - Leaves(y, r) = Cardinality(Hits(y, r))
        BY <2>3, <2>5, <3>1, <3>2, WindowSlides DEF Counts
      <3> QED  BY <1>1, <2>3, <2>5, <3>3 DEF Counts
    <2> QED  BY <2>4, <2>5
  <1> QED  BY <1>2 DEF Summed, Counts

\* The sums of the windows are a fixed point of the kernel's loop.
LEMMA CountsFixed ==
  ASSUME Params
  PROVE  Counts = Summed(Counts)
  <1>1. \A k \in -radius .. radius : 0 + k = k  BY DEF Params
  <1>2. \A r \in Rows : Hits(0, r) = {k \in -radius .. radius : Clamp(k, height - 1) = r}
    BY <1>1 DEF Hits
  <1>3. ASSUME NEW y \in Rows, y # 0
        PROVE  y - 1 \in Rows /\ \A r \in Rows :
                 Cardinality(Hits(y, r)) = Counts[y - 1][r] + Enters(y, r) - Leaves(y, r)
    <2>1. y - 1 \in Rows  BY <1>3 DEF Rows, Params
    <2> QED  BY <1>3, <2>1, WindowSlides DEF Counts
  <1>4. ASSUME NEW y \in Rows  PROVE Counts[y] = Summed(Counts)[y]
    <2>1. CASE y = 0  BY <1>2, <2>1 DEF Counts, Summed
    <2>2. CASE y # 0  BY <1>3, <2>2 DEF Counts, Summed
    <2> QED  BY <2>1, <2>2
  <1> QED  BY <1>4 DEF Counts, Summed

\* The kernel's running sum counts each row as often as the window covers it.
LEMMA SlidingCounts ==
  ASSUME Params
  PROVE  Sliding(height) = Counts
  <1>1. Sliding(height) = CHOOSE f : f = Summed(f)
    BY DEF Sliding, Summed, Enters, Leaves, Rows
  <1>2. \E f : f = Summed(f)  BY CountsFixed
  <1>3. Sliding(height) = Summed(Sliding(height))  BY <1>1, <1>2
  <1> QED  BY <1>3, FixedPointCounts

\* The sum the kernel carries down the rows is at every row the sum of the window
\* there, edges repeated, for every height and radius (computeBoxBlur).
THEOREM SlidingTheorem == Spec => []SlidingIsWindow
  <1>1. IInv => SlidingIsWindow
    <2> SUFFICES ASSUME Params, NEW y \in 0 .. height - 1, NEW r \in 0 .. height - 1
                 PROVE  Sliding(height)[y][r] =
                          Cardinality({k \in -radius .. radius : Window(y, height)[k] = r})
      BY DEF IInv, SlidingIsWindow
    <2>1. Hits(y, r) = {k \in -radius .. radius : Window(y, height)[k] = r}
      BY DEF Hits, Window
    <2>2. Sliding(height)[y][r] = Cardinality(Hits(y, r))
      <3>1. Sliding(height) = Counts  BY SlidingCounts
      <3>2. y \in Rows /\ r \in Rows  BY DEF Rows
      <3>3. Counts[y][r] = Cardinality(Hits(y, r))  BY <3>2 DEF Counts
      <3> QED  BY <3>1, <3>3
    <2> QED  BY <2>1, <2>2
  <1> QED  BY <1>1, Invariance, PTL

-----------------------------------------------------------------------------
(***************************************************************************)
(* A video.  Flattening is a recursive function again: there is a sequence *)
(* of the first i sequences put together for every i, by the least i for   *)
(* which there would be none.                                              *)
(***************************************************************************)
Joins(f, seqs, n) ==
  f = [m \in 1 .. n |-> IF m = 1 THEN seqs[m] ELSE f[m - 1] \o seqs[m]]

\* Sequences can be joined one after the other: there is no least number that cannot.
LEMMA JoinsExist ==
  ASSUME NEW seqs, NEW n \in Nat
  PROVE  \E f : Joins(f, seqs, n)
  <1> SUFFICES ASSUME ~\E f : Joins(f, seqs, n)  PROVE FALSE
    OBVIOUS
  <1> DEFINE none == {m \in Nat : ~\E f : Joins(f, seqs, m)}
  <1>1. none \in SUBSET Nat /\ none # {}  OBVIOUS
  <1>2. PICK m \in none : \A k \in none : m <= k  BY <1>1, LeastRow
  <1>3. m # 0
    <2>1. Joins([k \in 1 .. 0 |-> IF k = 1 THEN seqs[k] ELSE <<>>], seqs, 0)
      BY DEF Joins
    <2> QED  BY <2>1
  <1>4. m - 1 \in Nat /\ m - 1 \notin none  BY <1>2, <1>3
  <1>5. PICK f : Joins(f, seqs, m - 1)  BY <1>4
  <1> DEFINE last == IF m = 1 THEN seqs[m] ELSE f[m - 1] \o seqs[m]
             g == [k \in 1 .. m |-> IF k = m THEN last ELSE f[k]]
  <1>6. \A k \in 1 .. m - 1 : f[k] = IF k = 1 THEN seqs[k] ELSE f[k - 1] \o seqs[k]
    BY <1>5, Zenon DEF Joins
  <1>7. m \in 1 .. m /\ \A k \in 1 .. m : k # m => k \in 1 .. m - 1
    BY <1>3
  <1>8. \A k \in 1 .. m : k # 1 => k - 1 \in 1 .. m /\ k - 1 # m
    BY <1>3
  <1> HIDE DEF last
  <1>9. \A k \in 1 .. m : g[k] = IF k = 1 THEN seqs[k] ELSE g[k - 1] \o seqs[k]
    <2> SUFFICES ASSUME NEW k \in 1 .. m
                 PROVE  g[k] = IF k = 1 THEN seqs[k] ELSE g[k - 1] \o seqs[k]
      OBVIOUS
    <2>1. CASE k = 1
      <3>1. CASE m = 1  BY <2>1, <3>1 DEF last
      <3>2. CASE m # 1  BY <1>6, <1>7, <2>1, <3>2
      <3> QED  BY <3>1, <3>2
    <2>2. CASE k # 1
      <3>1. k - 1 \in 1 .. m /\ k - 1 # m /\ g[k - 1] = f[k - 1]  BY <1>8, <2>2
      <3>2. CASE k = m  BY <2>2, <3>1, <3>2 DEF last
      <3>3. CASE k # m  BY <1>6, <1>7, <2>2, <3>1, <3>3
      <3> QED  BY <3>2, <3>3
    <2> QED  BY <2>1, <2>2
  <1>10. Joins(g, seqs, m)  BY <1>9 DEF Joins
  <1> QED  BY <1>2, <1>10

\* What a sequence of sequences flattens to, step by step.
LEMMA FlattenJoins ==
  ASSUME NEW seqs, Len(seqs) \in Nat \ {0}
  PROVE  \E f : Joins(f, seqs, Len(seqs)) /\ FlattenSeq(seqs) = f[Len(seqs)]
  <1> DEFINE f == CHOOSE g : Joins(g, seqs, Len(seqs))
  <1>1. Joins(f, seqs, Len(seqs))  BY JoinsExist
  <1>2. FlattenSeq(seqs) = f[Len(seqs)]
    BY DEF FlattenSeq, Joins
  <1> QED  BY <1>1, <1>2

-----------------------------------------------------------------------------
(* Sorting by a key that no two results share, and that are all of 0 .. n - 1. *)

Keyed(results, n) ==
  /\ \A j \in DOMAIN results : results[j].chunkIndex \in 0 .. n - 1
  /\ \A j, k \in DOMAIN results :
       results[j].chunkIndex = results[k].chunkIndex => j = k
  /\ \A c \in 0 .. n - 1 : \E j \in DOMAIN results : results[j].chunkIndex = c

\* With all answers in, the rank of an answer is the number of its chunk.
LEMMA RankIs ==
  ASSUME NEW S, NEW results \in Seq(S), NEW n \in Nat, Keyed(results, n),
         NEW j \in DOMAIN results
  PROVE  Rank(results, j) = results[j].chunkIndex + 1
  <1> DEFINE key(k) == results[k].chunkIndex
             before == {m \in DOMAIN results :
                          \/ key(m) < key(j)
                          \/ key(m) = key(j) /\ m <= j}
             f == [m \in before |-> key(m)]
  <1>1. /\ DOMAIN results \subseteq Nat
        /\ \A k \in DOMAIN results : key(k) \in 0 .. n - 1 /\ key(k) \in Nat
    BY DEF Keyed
  <1>2. before = {m \in DOMAIN results : key(m) \in 0 .. key(j)}
    <2>1. \A m \in DOMAIN results : key(m) = key(j) => m = j  BY DEF Keyed
    <2> QED  BY <1>1, <2>1
  <1>3. f \in Bijection(before, 0 .. key(j))
    <2>1. f \in [before -> 0 .. key(j)]  BY <1>2
    <2>2. \A a, b \in before : f[a] = f[b] => a = b  BY DEF Keyed
    <2>3. ASSUME NEW c \in 0 .. key(j)  PROVE \E m \in before : f[m] = c
      <3>1. c \in 0 .. n - 1  BY <1>1
      <3>2. PICK m \in DOMAIN results : key(m) = c  BY <3>1 DEF Keyed
      <3>3. m \in before  BY <1>2, <3>2
      <3> QED  BY <3>2, <3>3
    <2> QED  BY <2>1, <2>2, <2>3, Fun_IsBij
  <1>4. ExistsBijection(0 .. key(j), before)
    BY <1>3, Fun_ExistsBijSymmetric DEF ExistsBijection
  <1>5. IsFiniteSet(0 .. key(j)) /\ Cardinality(0 .. key(j)) = key(j) + 1
    <2>1. key(j) \in Nat  BY <1>1
    <2>2. 0 \in Int /\ key(j) \in Int /\ ~(0 > key(j)) /\ key(j) - 0 + 1 = key(j) + 1
      BY <2>1
    <2> QED  BY <2>2, FS_Interval
  <1>6. Cardinality(before) = key(j) + 1  BY <1>4, <1>5, FS_Bijection
  <1> QED  BY <1>6 DEF Rank

\* With all answers in, the sorted answers are those of chunks 0, 1, 2 and so on.
LEMMA SortedIs ==
  ASSUME NEW S, NEW results \in Seq(S), NEW n \in Nat, Keyed(results, n)
  PROVE  /\ Len(results) = n
         /\ \A k \in 1 .. n : \E j \in DOMAIN results :
              ByChunkIndex(results)[k] = results[j] /\ results[j].chunkIndex = k - 1
  <1> DEFINE key(j) == results[j].chunkIndex
             f == [j \in DOMAIN results |-> key(j)]
  <1>1. DOMAIN results = 1 .. Len(results) /\ Len(results) \in Nat  OBVIOUS
  <1>2. f \in Bijection(DOMAIN results, 0 .. n - 1)
    <2>1. f \in [DOMAIN results -> 0 .. n - 1]  BY DEF Keyed
    <2>2. \A a, b \in DOMAIN results : f[a] = f[b] => a = b  BY DEF Keyed
    <2>3. \A c \in 0 .. n - 1 : \E j \in DOMAIN results : f[j] = c  BY DEF Keyed
    <2> QED  BY <2>1, <2>2, <2>3, Fun_IsBij
  <1>3. Len(results) = n
    <2>1. Cardinality(0 .. n - 1) = Len(results)
      <3>1. ExistsBijection(1 .. Len(results), 0 .. n - 1)
        BY <1>1, <1>2 DEF ExistsBijection
      <3> QED  BY <1>1, <3>1, FS_CountingElements
    <2>2. Cardinality(0 .. n - 1) = n
      <3>1. 0 \in Int /\ n - 1 \in Int /\ (0 > n - 1 => n = 0) /\ (n - 1) - 0 + 1 = n
        OBVIOUS
      <3> QED  BY <3>1, FS_Interval
    <2> QED  BY <2>1, <2>2
  <1>4. ASSUME NEW k \in 1 .. n
        PROVE  \E j \in DOMAIN results :
                 ByChunkIndex(results)[k] = results[j] /\ key(j) = k - 1
    <2>1. k - 1 \in 0 .. n - 1 /\ k \in DOMAIN results  BY <1>1, <1>3
    <2>2. ASSUME NEW m \in DOMAIN results
          PROVE  Rank(results, m) = key(m) + 1 /\ key(m) \in 0 .. n - 1
      <3>1. Rank(results, m) = key(m) + 1  BY RankIs
      <3> QED  BY <3>1 DEF Keyed
    <2>3. \E j \in DOMAIN results : Rank(results, j) = k
      <3>1. PICK m \in DOMAIN results : key(m) = k - 1  BY <2>1 DEF Keyed
      <3>2. Rank(results, m) = (k - 1) + 1  BY <2>2, <3>1
      <3>3. (k - 1) + 1 = k  OBVIOUS
      <3> QED  BY <3>2, <3>3
    <2> DEFINE j == CHOOSE m \in DOMAIN results : Rank(results, m) = k
    <2>4. j \in DOMAIN results /\ Rank(results, j) = k  BY <2>3
    <2>5. ByChunkIndex(results)[k] = results[j]  BY <2>1, Zenon DEF ByChunkIndex
    <2> HIDE DEF j
    <2>6. key(j) = k - 1  BY <2>2, <2>4
    <2> QED  BY <2>4, <2>5, <2>6
  <1> QED  BY <1>3, <1>4

-----------------------------------------------------------------------------
(***************************************************************************)
(* The plan of a video: End(c) frames are in the first c chunks.           *)
(***************************************************************************)
VideoParams == /\ totalFrames \in Nat \ {0} /\ chunkSize \in Int
               /\ concurrency \in Nat \ {0}

Step == ActualSize(chunkSize)
End(c) == Smaller(c * Step, totalFrames)

\* So many chunks are enough, and one less is not.
LEMMA CeilingDivision ==
  ASSUME NEW t \in Nat \ {0}, NEW a \in Nat \ {0}
  PROVE  LET n == (t + a - 1) \div a IN
         n \in Nat \ {0} /\ (n - 1) * a < t /\ t <= n * a
  <1> DEFINE n == (t + a - 1) \div a
             r == (t + a - 1) % a
  <1>1. n \in Int /\ r \in 0 .. a - 1 /\ t + a - 1 = n * a + r
    BY Z3
  <1> HIDE DEF n, r
  <1>2. (n - 1) * a = n * a - a /\ n * a \in Int  BY <1>1
  <1>3. (n - 1) * a < t /\ t <= n * a  BY <1>1, <1>2
  <1>4. n > 0
    <2>1. n <= 0 => n * a <= 0  BY <1>1
    <2> QED  BY <1>1, <1>3, <2>1
  <1> QED  BY <1>1, <1>3, <1>4 DEF n

\* A plan has a chunk, and its chunks have frames.
LEMMA PlanOf ==
  ASSUME VideoParams, NEW size \in Int
  PROVE  /\ TotalChunks(size) \in Nat \ {0}
         /\ \A c \in DOMAIN Plan(size) :
              /\ Plan(size)[c].startFrameIndex \in Nat
              /\ Plan(size)[c].frameCount \in Nat \ {0}
  <1> DEFINE a == ActualSize(size)
  <1>1. a \in Nat \ {0}  BY DEF ActualSize
  <1>2. /\ TotalChunks(size) \in Nat \ {0}
        /\ (TotalChunks(size) - 1) * a < totalFrames
    BY <1>1, CeilingDivision DEF TotalChunks, VideoParams
  <1>3. ASSUME NEW c \in 0 .. TotalChunks(size) - 1
        PROVE  c * a \in Nat /\ c * a < totalFrames
    <2>1. c * a <= (TotalChunks(size) - 1) * a  BY <1>1, <1>2
    <2> QED  BY <1>1, <1>2, <2>1 DEF VideoParams
  <1>4. totalFrames \in Nat  BY DEF VideoParams
  <1> HIDE DEF a
  <1>5. ASSUME NEW c \in DOMAIN Plan(size)
        PROVE  /\ Plan(size)[c].startFrameIndex \in Nat
               /\ Plan(size)[c].frameCount \in Nat \ {0}
    <2>1. c \in 0 .. TotalChunks(size) - 1  BY DEF Plan
    <2>2. /\ Plan(size)[c].startFrameIndex = c * a
          /\ Plan(size)[c].frameCount = Smaller(a, totalFrames - c * a)
      BY <2>1 DEF Plan, a
    <2> QED  BY <1>1, <1>3, <1>4, <2>1, <2>2 DEF Smaller
  <1> QED  BY <1>2, <1>5

\* Where a chunk of the plan starts and ends.
LEMMA SpecOf ==
  ASSUME VideoParams
  PROVE  /\ Step \in Nat \ {0} /\ totalChunks \in Nat \ {0}
         /\ DOMAIN chunkSpecs = 0 .. totalChunks - 1
         /\ End(0) = 0 /\ End(totalChunks) = totalFrames
         /\ \A c \in 0 .. totalChunks - 1 :
              /\ chunkSpecs[c].startFrameIndex = c * Step
              /\ chunkSpecs[c].frameCount \in 1 .. Step
              /\ End(c) = c * Step /\ End(c) \in Nat
              /\ End(c + 1) = End(c) + chunkSpecs[c].frameCount
  <1>1. Step \in Nat \ {0}  BY DEF Step, ActualSize, VideoParams
  <1>2. totalFrames \in Nat \ {0}  BY DEF VideoParams
  <1>3. /\ totalChunks \in Nat \ {0}
        /\ (totalChunks - 1) * Step < totalFrames /\ totalFrames <= totalChunks * Step
    BY <1>1, <1>2, CeilingDivision DEF totalChunks, TotalChunks, Step
  <1>4. DOMAIN chunkSpecs = 0 .. totalChunks - 1
    BY DEF chunkSpecs, Plan, totalChunks
  <1>5. End(0) = 0
    <2>1. 0 * Step = 0  BY <1>1
    <2> QED  BY <1>2, <2>1 DEF End, Smaller
  <1>6. End(totalChunks) = totalFrames
    <2>1. totalChunks * Step \in Nat  BY <1>1, <1>3
    <2> QED  BY <1>2, <1>3, <2>1 DEF End, Smaller
  <1>7. ASSUME NEW c \in 0 .. totalChunks - 1
        PROVE  /\ chunkSpecs[c].startFrameIndex = c * Step
               /\ chunkSpecs[c].frameCount \in 1 .. Step
               /\ End(c) = c * Step /\ End(c) \in Nat
               /\ End(c + 1) = End(c) + chunkSpecs[c].frameCount
    <2>1. c * Step \in Nat /\ c * Step <= (totalChunks - 1) * Step
      BY <1>1, <1>3
    <2>2. (c + 1) * Step = c * Step + Step  BY <1>1
    <2>3. (totalChunks - 1) * Step \in Int  BY <1>1, <1>3
    <2>4. c * Step < totalFrames  BY <1>2, <1>3, <2>1, <2>3
    <2>5. /\ chunkSpecs[c].startFrameIndex = c * Step
          /\ chunkSpecs[c].frameCount = Smaller(Step, totalFrames - c * Step)
      BY DEF chunkSpecs, Plan, totalChunks, Step
    <2>6. End(c) = c * Step  BY <1>2, <2>1, <2>4 DEF End, Smaller
    <2>7. End(c + 1) = Smaller(c * Step + Step, totalFrames)  BY <2>2 DEF End
    <2>8. chunkSpecs[c].frameCount \in 1 .. Step
      BY <1>1, <1>2, <2>1, <2>4, <2>5 DEF Smaller
    <2>9. Smaller(c * Step + Step, totalFrames)
            = c * Step + Smaller(Step, totalFrames - c * Step)
      BY <1>1, <1>2, <2>1, <2>4 DEF Smaller
    <2> QED  BY <2>1, <2>5, <2>6, <2>7, <2>8, <2>9
  <1> QED  BY <1>1, <1>3, <1>4, <1>5, <1>6, <1>7

\* The place of a frame in its chunk.
LEMMA Modulo ==
  ASSUME NEW a \in Nat \ {0}, NEW c \in Nat, NEW g \in 0 .. a - 1
  PROVE  (c * a + g) % a = g
  <1> DEFINE x == c * a + g
             q == x \div a
             r == x % a
  <1>1. x \in Nat /\ c * a \in Nat  OBVIOUS
  <1> HIDE DEF x
  <1>2. q \in Int /\ r \in 0 .. a - 1 /\ x = q * a + r  BY <1>1, Z3
  <1> HIDE DEF q, r
  <1>3. c * a + g = q * a + r  BY <1>2 DEF x
  <1>4. (q - c) * a = g - r
    <2>1. (q - c) * a = q * a - c * a /\ q * a \in Int  BY <1>2
    <2> QED  BY <1>1, <1>2, <1>3, <2>1
  <1>5. q - c < 1
    <2>1. q - c >= 1 => (q - c) * a >= a  BY <1>2
    <2> QED  BY <1>2, <1>4, <2>1
  <1>6. q - c > -1
    <2>1. q - c <= -1 => (q - c) * a <= -a  BY <1>2
    <2> QED  BY <1>2, <1>4, <2>1
  <1>7. q = c  BY <1>2, <1>5, <1>6
  <1>8. r = g  BY <1>1, <1>2, <1>3, <1>7
  <1> QED  BY <1>8 DEF r, x

-----------------------------------------------------------------------------
(***************************************************************************)
(* What the chunks' answers put together come to.  An answer has at most   *)
(* the frames of its chunk (Part); put in order, the first k have at most  *)
(* the frames of the first k chunks, and if they have as many then every   *)
(* one has its own, and each frame is where it belongs (Good).             *)
(***************************************************************************)
FrameMetrics == [frameIndex : Int, of : Int, previous : Int]

Good(m, n) ==
  /\ m.of = n - 1
  /\ m.previous = IF (n - 1) % Step = 0 THEN NoFrame ELSE n - 2
  /\ SamePlan => m.frameIndex = n - 1

Part(c, metrics) ==
  /\ Len(metrics) <= chunkSpecs[c].frameCount
  /\ Len(metrics) = chunkSpecs[c].frameCount =>
       \A f \in 1 .. Len(metrics) : Good(metrics[f], End(c) + f)

LeftRows == \A c \in DOMAIN left : /\ left[c].startFrameIndex \in Nat
                                  /\ left[c].frameCount \in Nat \ {0}

\* What an answer to a chunk holds.
LEMMA AnswerOf ==
  ASSUME VideoParams, LeftRows, NEW c \in 0 .. totalChunks - 1, NEW r \in Answers(c)
  PROVE  /\ r.chunkIndex = c
         /\ r.metrics \in Seq(FrameMetrics)
         /\ Part(c, r.metrics)
         /\ SamePlan /\ r.by # "simulated" => Len(r.metrics) = chunkSpecs[c].frameCount
  <1> DEFINE told == Told(c)
             own == chunkSpecs[c]
  <1>1. /\ Step \in Nat \ {0} /\ c \in DOMAIN chunkSpecs /\ c \in Nat
        /\ own.startFrameIndex = c * Step /\ own.frameCount \in 1 .. Step
        /\ End(c) = c * Step /\ End(c) \in Nat
    BY SpecOf
  <1>2. told.startFrameIndex \in Nat /\ told.frameCount \in Nat \ {0}
    <2>1. own.startFrameIndex \in Nat /\ own.frameCount \in Nat \ {0}  BY <1>1
    <2>2. CASE c \in DOMAIN left  BY <2>2 DEF Told, LeftRows
    <2>3. CASE c \notin DOMAIN left  BY <2>1, <2>3 DEF Told
    <2> QED  BY <2>2, <2>3
  <1>3. SamePlan => told = own  BY <1>1 DEF SamePlan, Told
  <1>4. \/ r = [chunkIndex |-> c, metrics |-> Metrics(c), by |-> "macOS"]
        \/ r = [chunkIndex |-> c, metrics |-> <<>>, by |-> "simulated"]
    BY DEF Answers
  <1>5. CASE r.metrics = <<>> /\ (r.by = "simulated" \/ told.frameCount > own.frameCount)
    <2>1. r.metrics \in Seq(FrameMetrics) /\ Len(r.metrics) = 0  BY <1>5
    <2>2. Part(c, r.metrics)  BY <1>1, <2>1 DEF Part
    <2>3. SamePlan => r.by = "simulated"  BY <1>1, <1>3, <1>5
    <2> QED  BY <1>4, <2>1, <2>2, <2>3
  <1>6. CASE r.metrics = Metrics(c) /\ ~(told.frameCount > own.frameCount)
    <2> DEFINE k == told.frameCount
               frame(f) == own.startFrameIndex + f - 1
               m == [f \in 1 .. k |->
                       [frameIndex |-> told.startFrameIndex + f - 1,
                        of |-> frame(f),
                        previous |-> IF f = 1 THEN NoFrame ELSE frame(f) - 1]]
    <2>1. r.metrics = m  BY <1>6 DEF Metrics
    <2>2. k \in Nat \ {0} /\ k <= own.frameCount  BY <1>1, <1>2, <1>6
    <2>3. \A f \in 1 .. k : /\ frame(f) \in Int /\ told.startFrameIndex + f - 1 \in Int
                            /\ frame(f) = c * Step + (f - 1)
      BY <1>1, <1>2
    <2> HIDE DEF k, frame
    <2>4. m \in [1 .. k -> FrameMetrics]
      BY <2>3 DEF FrameMetrics, NoFrame
    <2>5. m \in Seq(FrameMetrics) /\ Len(m) = k  BY <2>2, <2>4
    <2>6. ASSUME k = own.frameCount, NEW f \in 1 .. k  PROVE Good(m[f], End(c) + f)
      <3>1. f - 1 \in 0 .. Step - 1 /\ f \in Nat  BY <1>1, <2>2, <2>6
      <3>2. (c * Step + (f - 1)) % Step = f - 1  BY <1>1, <3>1, Modulo
      <3>3. /\ (End(c) + f) - 1 = c * Step + (f - 1)
            /\ (End(c) + f) - 2 = (c * Step + (f - 1)) - 1
        BY <1>1, <3>1
      <3>4. /\ m[f].of = c * Step + (f - 1)
            /\ m[f].previous = IF f = 1 THEN NoFrame ELSE (c * Step + (f - 1)) - 1
            /\ m[f].frameIndex = told.startFrameIndex + f - 1
        BY <2>3
      <3>5. SamePlan => m[f].frameIndex = c * Step + (f - 1)
        BY <1>1, <1>3, <3>1, <3>4
      <3>6. f = 1 <=> f - 1 = 0  BY <3>1
      <3> HIDE DEF m
      <3> QED  BY <3>2, <3>3, <3>4, <3>5, <3>6 DEF Good
    <2> HIDE DEF m
    <2>7. Part(c, r.metrics)  BY <2>1, <2>2, <2>5, <2>6 DEF Part
    <2>8. SamePlan => k = own.frameCount  BY <1>3 DEF k
    <2> QED  BY <1>4, <2>1, <2>5, <2>7, <2>8
  <1> QED
    <2>1. Metrics(c) = <<>> \/ ~(told.frameCount > own.frameCount)  BY DEF Metrics
    <2> QED  BY <1>4, <1>5, <1>6, <2>1

\* The parts put together: all frames are there only if each part is whole.
LEMMA Together ==
  ASSUME VideoParams, NEW parts \in Seq(Seq(FrameMetrics)), Len(parts) = totalChunks,
         \A k \in 1 .. totalChunks : Part(k - 1, parts[k])
  PROVE  LET all == FlattenSeq(parts)
         IN /\ Len(all) = totalFrames => \A n \in 1 .. totalFrames : Good(all[n], n)
            /\ (\A k \in 1 .. totalChunks :
                  Len(parts[k]) = chunkSpecs[k - 1].frameCount)
                 => Len(all) = totalFrames
  <1> DEFINE whole == \A k \in 1 .. totalChunks :
                        Len(parts[k]) = chunkSpecs[k - 1].frameCount
  <1>1. /\ totalChunks \in Nat \ {0} /\ End(0) = 0 /\ End(totalChunks) = totalFrames
        /\ \A k \in 1 .. totalChunks :
             /\ End(k - 1) \in Nat /\ chunkSpecs[k - 1].frameCount \in Nat
             /\ End(k) = End(k - 1) + chunkSpecs[k - 1].frameCount
    <2>1. ASSUME NEW k \in 1 .. totalChunks
          PROVE  /\ End(k - 1) \in Nat /\ chunkSpecs[k - 1].frameCount \in Nat
                 /\ End(k) = End(k - 1) + chunkSpecs[k - 1].frameCount
      <3>1. k - 1 \in 0 .. totalChunks - 1 /\ (k - 1) + 1 = k  BY SpecOf
      <3>2. /\ End(k - 1) \in Nat /\ chunkSpecs[k - 1].frameCount \in 1 .. Step
            /\ End((k - 1) + 1) = End(k - 1) + chunkSpecs[k - 1].frameCount
        BY <3>1, SpecOf
      <3> QED  BY <3>1, <3>2, SpecOf
    <2> QED  BY <2>1, SpecOf
  <1>2. PICK f : Joins(f, parts, totalChunks) /\ FlattenSeq(parts) = f[totalChunks]
    BY <1>1, FlattenJoins
  <1>3. \A k \in 1 .. totalChunks :
          f[k] = IF k = 1 THEN parts[k] ELSE f[k - 1] \o parts[k]
    BY <1>2, Zenon DEF Joins
  <1>4. \A k \in 1 .. totalChunks : parts[k] \in Seq(FrameMetrics)  OBVIOUS
  <1> DEFINE right(k) ==
        /\ f[k] \in Seq(FrameMetrics) /\ Len(f[k]) <= End(k)
        /\ Len(f[k]) = End(k) => \A n \in 1 .. End(k) : Good(f[k][n], n)
        /\ whole => Len(f[k]) = End(k)
  <1> HIDE DEF whole
  <1>5. ASSUME NEW k \in 1 .. totalChunks, k # 1 => right(k - 1)
        PROVE  right(k)
    <2> DEFINE fc == chunkSpecs[k - 1].frameCount
               low == End(k - 1)
    <2>1. /\ parts[k] \in Seq(FrameMetrics) /\ Len(parts[k]) \in Nat
          /\ Len(parts[k]) <= fc /\ (whole => Len(parts[k]) = fc)
          /\ Len(parts[k]) = fc => \A g \in 1 .. fc : Good(parts[k][g], low + g)
          /\ low \in Nat /\ fc \in Nat /\ End(k) = low + fc
      <3>1. parts[k] \in Seq(FrameMetrics) /\ Len(parts[k]) \in Nat  BY <1>4
      <3>2. /\ Part(k - 1, parts[k]) /\ low \in Nat /\ fc \in Nat /\ End(k) = low + fc
        BY <1>1
      <3>3. whole => Len(parts[k]) = fc  BY DEF whole
      <3> QED  BY <3>1, <3>2, <3>3 DEF Part
    <2> HIDE DEF fc, low
    <2>2. CASE k = 1
      <3>1. f[k] = parts[k] /\ low = 0  BY <1>1, <1>3, <2>2 DEF low
      <3>2. End(k) = fc /\ \A g \in 1 .. fc : low + g = g  BY <2>1, <3>1
      <3>3. Len(f[k]) = End(k) => \A n \in 1 .. End(k) : Good(f[k][n], n)
        BY <2>1, <3>1, <3>2
      <3> QED  BY <2>1, <3>1, <3>2, <3>3
    <2>3. CASE k # 1
      <3> DEFINE a == f[k - 1]
                 b == parts[k]
      <3>1. f[k] = a \o b  BY <1>3, <2>3
      <3>2. /\ a \in Seq(FrameMetrics) /\ Len(a) <= low
            /\ Len(a) = low => \A n \in 1 .. low : Good(a[n], n)
            /\ whole => Len(a) = low
        BY <1>5, <2>3 DEF low
      <3>3. b \in Seq(FrameMetrics)  BY <2>1
      <3> HIDE DEF a, right
      <3>4. /\ a \o b \in Seq(FrameMetrics)
            /\ Len(a \o b) = Len(a) + Len(b)
            /\ Len(a) \in Nat /\ Len(b) \in Nat
            /\ \A n \in 1 .. Len(a) : (a \o b)[n] = a[n]
            /\ \A n \in 1 .. Len(b) : (a \o b)[Len(a) + n] = b[n]
        BY <3>2, <3>3
      <3>5. Len(f[k]) <= End(k) /\ (whole => Len(f[k]) = End(k))
        <4>1. Len(f[k]) = Len(a) + Len(b) /\ Len(b) <= fc /\ (whole => Len(b) = fc)
          BY <2>1, <3>1, <3>4
        <4>2. Len(f[k]) <= End(k)  BY <2>1, <3>2, <3>4, <4>1
        <4>3. ASSUME whole  PROVE Len(f[k]) = End(k)
          <5>1. Len(a) = low /\ Len(b) = fc  BY <3>2, <4>1, <4>3
          <5> QED  BY <2>1, <4>1, <5>1
        <4> QED  BY <4>2, <4>3
      <3>6. ASSUME Len(f[k]) = End(k), NEW n \in 1 .. End(k)  PROVE Good(f[k][n], n)
        <4>1. Len(a) = low /\ Len(b) = fc
          BY <2>1, <3>1, <3>2, <3>4, <3>6
        <4>2. CASE n \in 1 .. low
          BY <3>1, <3>2, <3>4, <4>1, <4>2
        <4>3. CASE n \notin 1 .. low
          <5>1. n - low \in 1 .. fc /\ low + (n - low) = n
            BY <2>1, <4>3
          <5>2. (a \o b)[low + (n - low)] = b[n - low]  BY <3>4, <4>1, <5>1
          <5>3. Good(b[n - low], low + (n - low))  BY <2>1, <4>1, <5>1
          <5> QED  BY <3>1, <5>1, <5>2, <5>3
        <4> QED  BY <4>2, <4>3
      <3> QED  BY <3>1, <3>4, <3>5, <3>6 DEF right
    <2> QED  BY <2>2, <2>3
  <1> HIDE DEF right
  <1>6. \A k \in 1 .. totalChunks : right(k)
    <2> SUFFICES ASSUME NEW z \in 1 .. totalChunks, ~right(z)  PROVE FALSE
      OBVIOUS
    <2> DEFINE wrong == {k \in 1 .. totalChunks : ~right(k)}
    <2>1. wrong \in SUBSET Nat /\ wrong # {}
      <3>1. 1 .. totalChunks \subseteq Nat  BY <1>1
      <3>2. z \in wrong  BY Zenon
      <3> QED  BY <3>1, <3>2
    <2>2. PICK k \in wrong : \A m \in wrong : k <= m  BY <2>1, LeastRow
    <2>3. k \in 1 .. totalChunks /\ ~right(k)  OBVIOUS
    <2>4. k # 1 => k - 1 \in 1 .. totalChunks /\ k - 1 \notin wrong
      BY <1>1, <2>2, <2>3
    <2> QED  BY <1>5, <2>3, <2>4
  <1>7. right(totalChunks)  BY <1>1, <1>6
  <1> QED  BY <1>1, <1>2, <1>7 DEF right, whole

-----------------------------------------------------------------------------
(***************************************************************************)
(* The consumers.  Handed: the chunks taken are those waited for and those *)
(* answered, each once, and while chunks are left somebody is at work; so  *)
(* when nobody is, every chunk has one answer (Complete).                  *)
(***************************************************************************)
AllAnswers == UNION {Answers(c) : c \in 0 .. totalChunks - 1}

Genuine ==
  /\ chunkResults \in Seq(AllAnswers)
  /\ \A n \in DOMAIN chunkResults : chunkResults[n] \in Answers(chunkResults[n].chunkIndex)

Complete == Genuine /\ Keyed(chunkResults, totalChunks)

Handed ==
  /\ Genuine
  /\ nextSpec \in 0 .. totalChunks /\ working \subseteq 0 .. nextSpec - 1
  /\ IsFiniteSet(working) /\ Cardinality(working) <= concurrency
  /\ nextSpec < totalChunks => working # {}
  /\ \A n \in DOMAIN chunkResults :
       chunkResults[n].chunkIndex \in (0 .. nextSpec - 1) \ working
  /\ \A m, n \in DOMAIN chunkResults :
       chunkResults[m].chunkIndex = chunkResults[n].chunkIndex => m = n
  /\ \A c \in (0 .. nextSpec - 1) \ working :
       \E n \in DOMAIN chunkResults : chunkResults[n].chunkIndex = c

Outcome ==
  /\ stage = "work" => Handed
  /\ stage = "completed" => Complete /\ Assembles
  /\ stage = "refused" => supplied < totalFrames \/ (Complete /\ ~Assembles)

VideoInv == /\ VideoParams /\ LeftRows
            /\ stage = "plan" => chunkResults = <<>>
            /\ Outcome

\* All answers in: what the assembler lets through is the whole video, and what it
\* refuses has an answer that was simulated or of another plan.
LEMMA CompleteOutcome ==
  ASSUME VideoParams, LeftRows, Complete
  PROVE  /\ Assembles =>
              /\ Len(Aggregated) = totalFrames
              /\ \A n \in 1 .. totalFrames : Good(Aggregated[n], n)
         /\ ~Assembles =>
              \/ \E n \in DOMAIN chunkResults : chunkResults[n].by = "simulated"
              \/ ~SamePlan
  <1>1. totalChunks \in Nat \ {0}  BY SpecOf
  <1>2. /\ Len(chunkResults) = totalChunks
        /\ \A k \in 1 .. totalChunks : \E j \in DOMAIN chunkResults :
             Sorted[k] = chunkResults[j] /\ chunkResults[j].chunkIndex = k - 1
    BY <1>1, SortedIs DEF Complete, Genuine, Sorted
  <1>3. DOMAIN chunkResults = 1 .. totalChunks
    BY <1>2 DEF Complete, Genuine
  <1>4. DOMAIN Sorted = 1 .. totalChunks
    BY <1>3 DEF Sorted, ByChunkIndex
  <1> DEFINE parts == [n \in DOMAIN Sorted |-> Sorted[n].metrics]
  <1>5. ASSUME NEW k \in 1 .. totalChunks
        PROVE  /\ Sorted[k].chunkIndex = k - 1
               /\ Sorted[k].metrics \in Seq(FrameMetrics)
               /\ Part(k - 1, Sorted[k].metrics)
               /\ SamePlan /\ (\A n \in DOMAIN chunkResults : chunkResults[n].by # "simulated")
                    => Len(Sorted[k].metrics) = chunkSpecs[k - 1].frameCount
    <2>1. PICK j \in DOMAIN chunkResults :
            Sorted[k] = chunkResults[j] /\ chunkResults[j].chunkIndex = k - 1
      BY <1>2
    <2>2. Sorted[k] \in Answers(k - 1)  BY <2>1 DEF Complete, Genuine
    <2>3. k - 1 \in 0 .. totalChunks - 1  BY <1>1
    <2> QED  BY <2>1, <2>2, <2>3, AnswerOf
  <1>6. /\ parts \in Seq(Seq(FrameMetrics)) /\ Len(parts) = totalChunks
        /\ \A k \in 1 .. totalChunks : parts[k] = Sorted[k].metrics
    <2>1. parts \in [1 .. totalChunks -> Seq(FrameMetrics)]  BY <1>4, <1>5
    <2>2. DOMAIN parts = 1 .. totalChunks /\ totalChunks \in Nat  BY <1>1, <1>4
    <2> QED  BY <1>4, <2>1, <2>2
  <1>7. Aggregated = FlattenSeq(parts)  BY DEF Aggregated
  <1> HIDE DEF parts
  <1>8. /\ Len(Aggregated) = totalFrames =>
              \A n \in 1 .. totalFrames : Good(Aggregated[n], n)
        /\ (\A k \in 1 .. totalChunks :
              Len(parts[k]) = chunkSpecs[k - 1].frameCount)
             => Len(Aggregated) = totalFrames
    <2>1. \A k \in 1 .. totalChunks : Part(k - 1, parts[k])  BY <1>5, <1>6
    <2> QED  BY <1>6, <1>7, <2>1, Together
  <1>9. Assembles <=> Len(Aggregated) = totalFrames
    <2>1. \A n \in DOMAIN Sorted : Sorted[n].chunkIndex = n - 1  BY <1>4, <1>5
    <2> QED  BY <2>1 DEF Assembles
  <1>10. ASSUME SamePlan, \A n \in DOMAIN chunkResults : chunkResults[n].by # "simulated"
         PROVE  Len(Aggregated) = totalFrames
    BY <1>5, <1>6, <1>8, <1>10
  <1> QED  BY <1>8, <1>9, <1>10

\* The video invariant holds before the plan is made.
LEMMA VideoInitInv == VideoInit => VideoInv
  <1> SUFFICES ASSUME VideoInit  PROVE VideoInv
    OBVIOUS
  <1>1. VideoParams  BY VideoAssumption DEF VideoInit, VideoParams
  <1>2. LeftRows
    <2>1. PICK size \in ChunkSizes : \E ids \in SUBSET DOMAIN Plan(size) :
            left = [c \in ids |-> Plan(size)[c]]
      BY DEF VideoInit
    <2>2. size \in Int  BY VideoAssumption
    <2>3. \A c \in DOMAIN Plan(size) : /\ Plan(size)[c].startFrameIndex \in Nat
                                      /\ Plan(size)[c].frameCount \in Nat \ {0}
      BY <1>1, <2>2, PlanOf
    <2> QED  BY <2>1, <2>3 DEF LeftRows
  <1>3. Outcome  BY DEF Outcome, VideoInit
  <1> QED  BY <1>1, <1>2, <1>3 DEF VideoInv, VideoInit

\* The consumers that are free take chunks until there are none or they are busy.
LEMMA TakeKeeps ==
  ASSUME VideoParams, NEW busy, NEW from \in 0 .. totalChunks,
         busy \subseteq 0 .. from - 1, IsFiniteSet(busy), Cardinality(busy) <= concurrency,
         Take(busy, from)
  PROVE  /\ nextSpec' \in from .. totalChunks
         /\ working' = busy \cup (from .. nextSpec' - 1)
         /\ working' \subseteq 0 .. nextSpec' - 1
         /\ IsFiniteSet(working') /\ Cardinality(working') <= concurrency
         /\ nextSpec' < totalChunks => working' # {}
  <1> DEFINE n == Smaller(from + concurrency - Cardinality(busy), totalChunks)
  <1>1. /\ totalChunks \in Nat \ {0} /\ concurrency \in Nat \ {0}
        /\ Cardinality(busy) \in Nat
    BY SpecOf, FS_CardinalityType DEF VideoParams
  <1>2. /\ n \in from .. totalChunks /\ n - from <= concurrency - Cardinality(busy)
        /\ n < totalChunks => n = from + concurrency - Cardinality(busy)
    BY <1>1 DEF Smaller
  <1>3. working' = busy \cup (from .. n - 1) /\ nextSpec' = n
    BY DEF Take
  <1> HIDE DEF n
  <1>4. IsFiniteSet(from .. n - 1) /\ Cardinality(from .. n - 1) = n - from
    <2>1. /\ from \in Int /\ n - 1 \in Int /\ (n - 1) - from + 1 = n - from
          /\ from > n - 1 => n - from = 0
      BY <1>1, <1>2
    <2> QED  BY <2>1, FS_Interval
  <1>5. busy \cap (from .. n - 1) = {}  BY <1>1, <1>2
  <1>6. IsFiniteSet(working') /\ Cardinality(working') = Cardinality(busy) + (n - from)
    <2> DEFINE taken == from .. n - 1
    <2>1. IsFiniteSet(taken) /\ Cardinality(taken) = n - from /\ busy \cap taken = {}
      BY <1>4, <1>5
    <2>2. working' = busy \cup taken  BY <1>3
    <2> HIDE DEF taken
    <2>3. /\ IsFiniteSet(busy \cup taken)
          /\ Cardinality(busy \cup taken) =
               Cardinality(busy) + Cardinality(taken) - Cardinality(busy \cap taken)
      BY <2>1, FS_Union
    <2>4. Cardinality(busy \cap taken) = 0  BY <2>1, FS_EmptySet
    <2> QED  BY <1>1, <1>2, <2>1, <2>2, <2>3, <2>4
  <1>7. ASSUME n < totalChunks  PROVE working' # {}
    <2>1. Cardinality(working') = concurrency  BY <1>1, <1>2, <1>6, <1>7
    <2> QED  BY <1>1, <1>6, <2>1, FS_EmptySet
  <1> QED  BY <1>1, <1>2, <1>3, <1>6, <1>7

\* Nothing of the plan changes.
LEMMA SamePlanning ==
  ASSUME UNCHANGED videoParams
  PROVE  /\ VideoParams' = VideoParams /\ LeftRows' = LeftRows
         /\ totalChunks' = totalChunks /\ AllAnswers' = AllAnswers
         /\ \A c : Answers(c)' = Answers(c)
  <1> USE DEF videoParams
  <1>1. chunkSpecs' = chunkSpecs
    BY DEF chunkSpecs, Plan, TotalChunks
  <1>2. totalChunks' = totalChunks
    BY DEF totalChunks, TotalChunks
  <1>3. \A c : Answers(c)' = Answers(c)
    BY <1>1 DEF Answers, Metrics, Told
  <1>4. AllAnswers' = AllAnswers  BY <1>2, <1>3 DEF AllAnswers
  <1> QED  BY <1>2, <1>3, <1>4 DEF VideoParams, LeftRows

\* The plan and the first chunks taken keep it.
LEMMA PartitionKeeps ==
  ASSUME VideoInv, Partition
  PROVE  VideoInv'
  <1>1. /\ VideoParams' /\ LeftRows' /\ totalChunks' = totalChunks
        /\ chunkResults' = <<>> /\ stage' = "work"
    BY SamePlanning DEF VideoInv, Partition
  <1>2. 0 \in 0 .. totalChunks /\ concurrency \in Nat /\ concurrency' = concurrency
    BY SpecOf DEF VideoInv, VideoParams, Partition, videoParams
  <1>3. /\ nextSpec' \in 0 .. totalChunks /\ working' = {} \cup (0 .. nextSpec' - 1)
        /\ IsFiniteSet(working') /\ Cardinality(working') <= concurrency
        /\ nextSpec' < totalChunks => working' # {}
    <2>1. IsFiniteSet({}) /\ Cardinality({}) <= concurrency  BY <1>2, FS_EmptySet
    <2>2. {} \subseteq 0 .. 0 - 1  OBVIOUS
    <2> QED  BY <1>2, <2>1, <2>2, TakeKeeps DEF VideoInv, Partition
  <1>4. Genuine'
    <2>1. <<>> \in Seq(AllAnswers') /\ DOMAIN <<>> = {}  OBVIOUS
    <2> QED  BY <1>1, <2>1 DEF Genuine
  <1>5. Handed'
    <2>1. DOMAIN chunkResults' = {}  BY <1>1
    <2> QED  BY <1>1, <1>2, <1>3, <1>4, <2>1 DEF Handed
  <1> QED  BY <1>1, <1>5 DEF VideoInv, Outcome

\* An answer is a new one, for a chunk that was waited for.
LEMMA AnsweredKeeps ==
  ASSUME VideoInv, NEW c \in working, NEW answer \in Answers(c), ChunkAnswered(c, answer)
  PROVE  VideoInv'
  <1> DEFINE busy == working \ {c}
             old == chunkResults
             new == chunkResults'
             key(r) == r.chunkIndex
  <1>1. /\ VideoParams' /\ LeftRows' /\ totalChunks' = totalChunks
        /\ AllAnswers' = AllAnswers /\ (\A d : Answers(d)' = Answers(d))
        /\ stage = "work" /\ stage' = "work" /\ concurrency' = concurrency
        /\ new = Append(old, answer) /\ Take(busy, nextSpec)
    BY SamePlanning DEF VideoInv, ChunkAnswered, videoParams
  <1>2. Handed  BY <1>1 DEF VideoInv, Outcome
  <1>3. /\ nextSpec \in 0 .. totalChunks /\ totalChunks \in Nat \ {0}
        /\ c \in 0 .. nextSpec - 1 /\ c \in 0 .. totalChunks - 1
        /\ busy \subseteq 0 .. nextSpec - 1
        /\ concurrency \in Nat
    BY <1>2, SpecOf DEF Handed, VideoInv, VideoParams
  <1>4. IsFiniteSet(busy) /\ Cardinality(busy) <= concurrency
    <2>1. /\ IsFiniteSet(working) /\ Cardinality(working) \in Nat
          /\ Cardinality(working) <= concurrency
      BY <1>2, FS_CardinalityType DEF Handed
    <2>2. IsFiniteSet(busy) /\ Cardinality(busy) = Cardinality(working) - 1
      BY <2>1, FS_RemoveElement
    <2> QED  BY <1>3, <2>1, <2>2
  <1>5. /\ nextSpec' \in nextSpec .. totalChunks
        /\ working' = busy \cup (nextSpec .. nextSpec' - 1)
        /\ working' \subseteq 0 .. nextSpec' - 1
        /\ IsFiniteSet(working') /\ Cardinality(working') <= concurrency
        /\ nextSpec' < totalChunks => working' # {}
    BY <1>1, <1>3, <1>4, TakeKeeps DEF VideoInv
  <1>6. (0 .. nextSpec' - 1) \ working' = ((0 .. nextSpec - 1) \ working) \cup {c}
    BY <1>3, <1>5
  <1>7. key(answer) = c /\ answer \in AllAnswers
    <2>1. key(answer) = c  BY <1>3, AnswerOf DEF VideoInv
    <2> QED  BY <1>3, <2>1 DEF AllAnswers
  <1>8. /\ old \in Seq(AllAnswers) /\ new \in Seq(AllAnswers)
        /\ DOMAIN old = 1 .. Len(old) /\ Len(old) \in Nat
        /\ DOMAIN new = DOMAIN old \cup {Len(old) + 1}
        /\ new[Len(old) + 1] = answer /\ \A n \in DOMAIN old : new[n] = old[n]
    BY <1>1, <1>2, <1>7 DEF Handed, Genuine
  <1>9. /\ \A n \in DOMAIN old : /\ old[n] \in Answers(key(old[n]))
                                /\ key(old[n]) \in (0 .. nextSpec - 1) \ working
        /\ \A m, n \in DOMAIN old : key(old[m]) = key(old[n]) => m = n
        /\ \A d \in (0 .. nextSpec - 1) \ working : \E n \in DOMAIN old : key(old[n]) = d
    BY <1>2 DEF Handed, Genuine
  <1> HIDE DEF old, new, busy
  <1>10. Genuine'
    <2>1. \A n \in DOMAIN new : new[n] \in Answers(key(new[n]))
      BY <1>7, <1>8, <1>9
    <2> QED  BY <1>1, <1>8, <2>1 DEF Genuine, new
  <1>11. \A n \in DOMAIN new : key(new[n]) \in (0 .. nextSpec' - 1) \ working'
    BY <1>6, <1>7, <1>8, <1>9
  <1>12. \A m, n \in DOMAIN new : key(new[m]) = key(new[n]) => m = n
    <2>1. \A n \in DOMAIN old : key(old[n]) # c  BY <1>9
    <2> QED  BY <1>7, <1>8, <1>9, <2>1
  <1>13. ASSUME NEW d \in (0 .. nextSpec' - 1) \ working'
         PROVE  \E n \in DOMAIN new : key(new[n]) = d
    <2>1. CASE d = c  BY <1>7, <1>8, <2>1
    <2>2. CASE d # c  BY <1>6, <1>8, <1>9, <2>2
    <2> QED  BY <2>1, <2>2
  <1>14. nextSpec' \in 0 .. totalChunks  BY <1>3, <1>5
  <1>15. Handed'
    BY <1>1, <1>5, <1>10, <1>11, <1>12, <1>13, <1>14 DEF Handed, new
  <1> QED  BY <1>1, <1>15 DEF VideoInv, Outcome

\* When nobody is at work, every chunk has been taken and answered.
LEMMA AssembleSettles ==
  ASSUME VideoInv, Assemble
  PROVE  VideoInv'
  <1>1. /\ VideoParams' /\ LeftRows' /\ totalChunks' = totalChunks
        /\ AllAnswers' = AllAnswers /\ (\A d : Answers(d)' = Answers(d))
        /\ UNCHANGED <<chunkResults, totalFrames>>
        /\ working = {} /\ stage' = IF Assembles THEN "completed" ELSE "refused"
    BY SamePlanning DEF VideoInv, Assemble, videoParams
  <1>2. Handed  BY DEF Assemble, VideoInv, Outcome
  <1>3. nextSpec = totalChunks
    BY <1>1, <1>2, SpecOf DEF Handed, VideoInv
  <1>4. Complete
    BY <1>1, <1>2, <1>3 DEF Handed, Complete, Keyed
  <1>5. Complete'
    <2>1. Genuine'  BY <1>1, <1>4 DEF Complete, Genuine
    <2> QED  BY <1>1, <1>4, <2>1 DEF Complete
  <1>6. Assembles' <=> Assembles
    BY <1>1 DEF Assembles, Aggregated, Sorted
  <1> QED  BY <1>1, <1>5, <1>6 DEF VideoInv, Outcome

\* Every step keeps it.
LEMMA VideoNextKeeps == VideoInv /\ [VideoNext]_videoVars => VideoInv'
  <1> SUFFICES ASSUME VideoInv, [VideoNext]_videoVars  PROVE VideoInv'
    OBVIOUS
  <1>1. CASE Partition  BY <1>1, PartitionKeeps
  <1>2. CASE PartitionThrows
    <2>1. /\ UNCHANGED videoParams /\ supplied < totalFrames
          /\ stage' = "refused"
      BY <1>2 DEF PartitionThrows
    <2>2. UNCHANGED <<supplied, totalFrames>>  BY <2>1 DEF videoParams
    <2>3. VideoParams' /\ LeftRows'  BY <2>1, SamePlanning DEF VideoInv
    <2>4. supplied' < totalFrames'  BY <2>1, <2>2
    <2> QED  BY <2>1, <2>3, <2>4 DEF VideoInv, Outcome
  <1>3. ASSUME NEW c \in working, ChunkFails(c)  PROVE VideoInv'
    <2>1. VideoParams' /\ LeftRows' /\ stage' = "failed"
      BY <1>3, SamePlanning DEF VideoInv, ChunkFails
    <2> QED  BY <2>1 DEF VideoInv, Outcome
  <1>4. ASSUME NEW c \in working, NEW answer \in Answers(c), ChunkAnswered(c, answer)
        PROVE  VideoInv'
    BY <1>4, AnsweredKeeps
  <1>5. CASE Assemble  BY <1>5, AssembleSettles
  <1>6. CASE UNCHANGED videoVars
    <2>1. /\ VideoParams' /\ LeftRows' /\ totalChunks' = totalChunks
          /\ AllAnswers' = AllAnswers /\ (\A d : Answers(d)' = Answers(d))
          /\ UNCHANGED <<chunkResults, totalFrames, supplied, concurrency,
                         stage, nextSpec, working>>
      BY <1>6, SamePlanning DEF VideoInv, videoVars, videoParams
    <2>2. Genuine' <=> Genuine  BY <2>1 DEF Genuine
    <2>3. Complete' <=> Complete  BY <2>1, <2>2 DEF Complete
    <2>4. Assembles' <=> Assembles  BY <2>1 DEF Assembles, Aggregated, Sorted
    <2>5. Handed' <=> Handed  BY <2>1, <2>2 DEF Handed
    <2> QED  BY <2>1, <2>3, <2>4, <2>5 DEF VideoInv, Outcome
  <1> QED  BY <1>1, <1>2, <1>3, <1>4, <1>5, <1>6 DEF VideoNext

\* For every number of frames, chunk size and number of consumers, whatever rows an
\* earlier plan left behind and in whatever order the answers come: an analysis the
\* client gets has each frame once, in order, and one that is refused had too few
\* frames, a simulated answer or a row of another plan (VideoIsWhole).
THEOREM VideoTheorem == VideoSpec => []VideoIsWhole
  <1>1. VideoInv => VideoIsWhole
    <2> SUFFICES ASSUME VideoInv  PROVE VideoIsWhole
      OBVIOUS
    <2>1. CASE stage = "completed"
      <3>1. Complete /\ Assembles  BY <2>1 DEF VideoInv, Outcome
      <3>2. /\ Len(Aggregated) = totalFrames
            /\ \A n \in 1 .. totalFrames : Good(Aggregated[n], n)
        BY <3>1, CompleteOutcome DEF VideoInv
      <3> QED  BY <2>1, <3>2 DEF VideoIsWhole, Good, Step
    <2>2. CASE stage = "refused"
      <3>1. supplied < totalFrames \/ (Complete /\ ~Assembles)
        BY <2>2 DEF VideoInv, Outcome
      <3>2. \/ supplied < totalFrames
            \/ \E n \in DOMAIN chunkResults : chunkResults[n].by = "simulated"
            \/ ~SamePlan
        BY <3>1, CompleteOutcome DEF VideoInv
      <3> QED  BY <2>2, <3>2 DEF VideoIsWhole
    <2>3. CASE stage \notin {"completed", "refused"}
      BY <2>3 DEF VideoIsWhole
    <2> QED  BY <2>1, <2>2, <2>3
  <1> QED  BY <1>1, VideoInitInv, VideoNextKeeps, PTL DEF VideoSpec

\* A chunked workload goes the way of rows or the way of frames: what holds of
\* either holds of it (executeWorkload looks at the kernel).
THEOREM WorkloadTheorem == WorkloadSpec => Spec /\ VideoSpec
  <1>1. WorkloadInit => Init /\ VideoInit  BY DEF WorkloadInit
  <1>2. [ExecuteRows \/ ExecuteVideo]_workloadVars => [Next]_vars /\ [VideoNext]_videoVars
    BY DEF ExecuteRows, ExecuteVideo, workloadVars
  <1> QED  BY <1>1, <1>2, PTL DEF WorkloadSpec, Spec, VideoSpec

=============================================================================
