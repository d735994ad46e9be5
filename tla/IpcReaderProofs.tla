---------------------------- MODULE IpcReaderProofs ----------------------------
(***************************************************************************)
(* Theorems about the reader of an IPC connection, for requests of any     *)
(* lengths from 8 bytes up, any number of them and any way the stream is   *)
(* cut.                                                                    *)
(***************************************************************************)
EXTENDS IpcReaderQueue, TLAPS

(***************************************************************************)
(* The inductive invariant.                                                *)
(*  - OneLoop: a loop of processBuffer is in its turn, or at its await     *)
(*    with the request taken last, or there is none; the flag tells which. *)
(*  - Counted: what was taken has been answered, but for that one.         *)
(*  - NothingLeft: a loop ends only when no complete request is buffered.  *)
(*  - Stream: what is buffered and on the wire is what follows the         *)
(*    requests taken, so behind the last request there is nothing.         *)
(*  - Chunks: a first chunk that is not all of the buffer comes with a     *)
(*    whole header, unless a short read left bytes in the socket.          *)
(***************************************************************************)
OneLoop ==
  /\ awaiting = {} \/ (next > 1 /\ awaiting = {next - 1})
  /\ processing <=> running \/ awaiting # {}
  /\ running => awaiting = {}
  /\ discarded => ~processing

Counted ==
  /\ Len(replied) = IF awaiting = {} THEN next - 1 ELSE next - 2
  /\ \A i \in DOMAIN replied : replied[i] = i

NothingLeft == ~processing /\ ~discarded => ~Complete

Stream ==
  /\ \A i \in 0 .. Len(sent) : Ended(i) \in Nat
  /\ \A i \in 0 .. Len(sent) : i < Len(sent) => Ended(i) + 8 <= Ended(Len(sent))
  /\ ~discarded => total + wire = Ended(Len(sent)) - Ended(next - 1)

Chunks ==
  /\ first = 0 <=> total = 0
  /\ ~short /\ ~discarded /\ first < total => total >= 8

IInv ==
  /\ TypeOK
  /\ OneLoop
  /\ Counted
  /\ NothingLeft
  /\ Stream
  /\ Chunks
  /\ DiscardsAfterShortReads

-----------------------------------------------------------------------------

LEMMA AppendFacts ==
  ASSUME NEW S, NEW seq \in Seq(S), NEW e \in S
  PROVE  /\ Append(seq, e) \in Seq(S)
         /\ Len(Append(seq, e)) = Len(seq) + 1
         /\ \A i \in 1 .. Len(seq) : Append(seq, e)[i] = seq[i]
         /\ Append(seq, e)[Len(seq) + 1] = e
         /\ Len(seq) \in Nat /\ DOMAIN seq = 1 .. Len(seq)
         /\ DOMAIN Append(seq, e) = 1 .. Len(seq) + 1
  OBVIOUS

LEMMA SeqGrows ==
  ASSUME NEW S, NEW T, S \subseteq T, NEW seq \in Seq(S)
  PROVE  seq \in Seq(T)
  OBVIOUS

\* The requests that are buffered have the bytes of a header at least.
LEMMA LengthFacts ==
  ASSUME TypeOK, Stream, next <= Len(sent)
  PROVE  /\ Len(sent) \in Nat /\ next \in 1 .. Len(sent)
         /\ Length(next) \in Nat /\ Length(next) >= 8
         /\ Ended(next) = Ended(next - 1) + Length(next)
  <1>1. Len(sent) \in Nat /\ next \in 1 .. Len(sent) /\ DOMAIN sent = 1 .. Len(sent)
    BY DEF TypeOK
  <1>2. Ended(next) \in Nat /\ Ended(next - 1) \in Nat
    BY <1>1 DEF Stream
  <1>3. Length(next) \in Lengths
    BY <1>1 DEF TypeOK
  <1> QED
    BY <1>1, <1>2, <1>3, IpcReaderAssumption DEF Length

LEMMA InitInv == Init => IInv
  <1> SUFFICES ASSUME Init  PROVE IInv  OBVIOUS
  <1>1. /\ sent = <<>> /\ replied = <<>> /\ Len(sent) = 0 /\ Len(replied) = 0
        /\ DOMAIN sent = {} /\ DOMAIN replied = {}
    BY DEF Init
  <1>2. TypeOK
    <2>1. sent \in Seq(Nat) /\ replied \in Seq(1 .. Len(sent))  BY <1>1
    <2>2. 0 \in 0 .. 0 /\ 1 \in 1 .. 0 + 1  OBVIOUS
    <2> QED  BY <1>1, <2>1, <2>2 DEF Init, TypeOK
  <1>3. OneLoop /\ Counted /\ NothingLeft
    BY <1>1 DEF Init, OneLoop, Counted, NothingLeft, Complete
  <1>4. Stream  BY <1>1 DEF Init, Stream, Ended
  <1>5. Chunks /\ DiscardsAfterShortReads
    BY DEF Init, Chunks, DiscardsAfterShortReads
  <1> QED  BY <1>2, <1>3, <1>4, <1>5 DEF IInv

-----------------------------------------------------------------------------
(* One lemma per step. *)

\* A request that arrives lies behind those the buffer begins with.
LEMMA SendsInv ==
  ASSUME IInv, NEW length \in Lengths, ClientSends(length)
  PROVE  IInv'
  <1> USE DEF IInv
  <1>0. length \in Nat /\ length >= 8
    BY IpcReaderAssumption
  <1>a. PICK n \in Nat : n = Len(sent)
    BY DEF TypeOK
  <1>b. PICK k \in 0 .. n : k = next - 1
    BY <1>a DEF TypeOK
  <1>1. DOMAIN sent = 1 .. n /\ Ended(n) \in Nat /\ Ended(k) \in Nat
    BY <1>a DEF TypeOK, Stream
  <1>2. /\ sent' \in Seq(Nat) /\ Len(sent') = n + 1
        /\ \A i \in 1 .. n : sent'[i] = sent[i]
        /\ sent'[n + 1] = Ended(n) + length
        /\ DOMAIN sent' = 1 .. n + 1
    <2>1. sent \in Seq(Nat) /\ Ended(n) + length \in Nat
      BY <1>0, <1>1 DEF TypeOK
    <2> QED  BY <1>a, <2>1, AppendFacts DEF ClientSends
  <1>3. /\ \A i \in 0 .. n : Ended(i)' = Ended(i)
        /\ Ended(n + 1)' = Ended(n) + length
    BY <1>1, <1>2 DEF Ended
  <1>4. /\ \A i \in 1 .. n : Length(i)' = Length(i)
        /\ Length(n + 1)' = length
    <2>1. \A i \in 1 .. n : i - 1 \in 0 .. n /\ i \in 0 .. n  OBVIOUS
    <2>2. \A i \in 1 .. n : Length(i)' = Length(i)
      BY <1>3, <2>1 DEF Length
    <2>3. n + 1 - 1 = n /\ n \in 0 .. n  OBVIOUS
    <2> QED  BY <1>0, <1>1, <1>3, <2>2, <2>3 DEF Length
  <1>5. TypeOK'
    <2>1. \A i \in DOMAIN sent' : Length(i)' \in Lengths
      <3>1. \A i \in 1 .. n : Length(i) \in Lengths  BY <1>1 DEF TypeOK
      <3>2. \A i \in 1 .. n + 1 : i \in 1 .. n \/ i = n + 1  OBVIOUS
      <3> QED  BY <1>2, <1>4, <3>1, <3>2
    <2>2. replied' \in Seq(1 .. Len(sent'))
      <3>1. 1 .. n \subseteq 1 .. n + 1  OBVIOUS
      <3> QED  BY <1>a, <1>2, <3>1, SeqGrows DEF TypeOK, ClientSends
    <2>3. wire' \in Nat /\ total' \in Nat /\ first' \in 0 .. total'
      BY <1>0 DEF TypeOK, ClientSends
    <2>4. next' \in 1 .. Len(sent') + 1 /\ awaiting' \subseteq 1 .. Len(sent')
      BY <1>a, <1>2 DEF TypeOK, ClientSends
    <2> QED  BY <1>2, <2>1, <2>2, <2>3, <2>4 DEF TypeOK, ClientSends
  <1>6. Stream'
    <2>1. \A i \in 0 .. n + 1 : Ended(i)' \in Nat
      <3>1. \A i \in 0 .. n : Ended(i) \in Nat  BY <1>a DEF Stream
      <3>2. \A i \in 0 .. n + 1 : i \in 0 .. n \/ i = n + 1  OBVIOUS
      <3>3. ASSUME NEW i \in 0 .. n  PROVE  Ended(i)' \in Nat
        BY <1>0, <1>1, <1>3, <3>1, <3>3
      <3>4. Ended(n + 1)' \in Nat
        BY <1>0, <1>1, <1>3, <3>1
      <3> QED  BY <3>2, <3>3, <3>4
    <2>2. \A i \in 0 .. n : Ended(i)' + 8 <= Ended(n + 1)'
      <3>1. \A i \in 0 .. n : Ended(i) \in Nat /\ Ended(i) <= Ended(n)
        BY <1>a, <1>1 DEF Stream
      <3> QED  BY <1>0, <1>1, <1>3, <3>1
    <2>3. ~discarded => total + (wire + length) = Ended(n + 1)' - Ended(k)'
      <3>1. ~discarded => total + wire = Ended(n) - Ended(k)
        BY <1>a, <1>b DEF Stream
      <3>2. Ended(k)' = Ended(k) /\ total \in Nat /\ wire \in Nat
        BY <1>3 DEF TypeOK
      <3> QED  BY <1>0, <1>1, <1>3, <3>1, <3>2
    <2>4. k = next' - 1 /\ total' = total /\ wire' = wire + length
          /\ discarded' = discarded
      BY <1>b DEF ClientSends
    <2>5. \A i \in 0 .. n + 1 : i < n + 1 => i \in 0 .. n  OBVIOUS
    <2>6. \A i \in 0 .. n + 1 : i < n + 1 => Ended(i)' + 8 <= Ended(n + 1)'
      BY <2>2, <2>5
    <2>7. /\ Len(sent') = n + 1 /\ Ended(Len(sent))' = Ended(n + 1)'
          /\ Ended(next - 1)' = Ended(k)'
      BY <1>2, <2>4 DEF Ended
    <2>8. ~discarded' => total' + wire' = Ended(Len(sent))' - Ended(next - 1)'
      BY <2>3, <2>4, <2>7
    <2> QED  BY <2>1, <2>6, <2>7, <2>8 DEF Stream
  <1>7. NothingLeft'
    <2> SUFFICES ASSUME ~processing, ~discarded, ~Complete
                 PROVE  ~Complete'
      BY DEF NothingLeft, ClientSends
    <2>0. next' = next /\ total' = total /\ total \in Nat
      BY DEF ClientSends, TypeOK
    <2>1. CASE next \in 1 .. n
      <3>1. Length(next)' = Length(next)  BY <1>4, <2>0, <2>1
      <3> QED  BY <1>a, <1>2, <2>0, <2>1, <3>1 DEF Complete
    <2>2. CASE next = n + 1
      <3>1. total = 0
        BY <1>a, <1>1, <2>2 DEF Stream, TypeOK
      <3>2. Length(next)' = length  BY <1>4, <2>0, <2>2
      <3> QED  BY <1>0, <2>0, <3>1, <3>2 DEF Complete
    <2> QED  BY <1>a, <2>1, <2>2 DEF TypeOK
  <1>8. OneLoop' /\ Counted' /\ Chunks' /\ DiscardsAfterShortReads'
    BY DEF ClientSends, OneLoop, Counted, Chunks, DiscardsAfterShortReads
  <1> QED  BY <1>5, <1>6, <1>7, <1>8

\* Steps that leave the stream alone do not change what its positions say.
LEMMA StreamKept ==
  ASSUME TypeOK, UNCHANGED sent
  PROVE  /\ \A i : Ended(i)' = Ended(i) /\ Length(i)' = Length(i)
         /\ Len(sent') = Len(sent)
  BY DEF Ended, Length

LEMMA DataInv ==
  ASSUME IInv, NEW size \in 1 .. wire, Data(size)
  PROVE  IInv'
  <1> DEFINE n == Len(sent)
  <1> USE DEF IInv
  <1>1. /\ wire \in Nat /\ total \in Nat /\ first \in 0 .. total
        /\ size \in Nat /\ size >= 1 /\ size <= wire
        /\ wire' = wire - size /\ total' = total + size
        /\ n \in Nat /\ ~discarded /\ ~discarded'
    BY DEF TypeOK, Data
  <1>2. first' \in 0 .. total' /\ (first' = 0 <=> total' = 0)
    BY <1>1 DEF Data, Chunks
  <1>3. TypeOK'
    <2>1. \A i \in DOMAIN sent' : Length(i)' \in Lengths
      BY StreamKept DEF Data, TypeOK
    <2> QED  BY <1>1, <1>2, <2>1 DEF TypeOK, Data
  <1>4. Stream'
    <2>1. total' + wire' = total + wire  BY <1>1
    <2> QED  BY <1>1, <2>1, StreamKept DEF Stream, Data
  <1>5. Chunks'
    <2> SUFFICES ASSUME ~short', first' < total'  PROVE total' >= 8
      BY <1>2 DEF Chunks
    <2>1. total >= 1
      BY <1>1 DEF Data
    <2>2. CASE size >= 7
      BY <1>1, <2>1, <2>2
    <2>3. CASE size < 7
      <3>0. ~ (size < 7 /\ size < wire)  BY DEF Data
      <3>1. size = wire /\ wire' = 0  BY <1>1, <2>3, <3>0
      <3>2. total' = Ended(n) - Ended(next - 1) /\ total' # 0
        BY <1>1, <3>1 DEF Stream
      <3>3. next - 1 \in 0 .. n /\ next \in Nat
        BY <1>1 DEF TypeOK
      <3>4. Ended(n) \in Nat /\ Ended(next - 1) \in Nat
        BY <1>1, <3>3 DEF Stream
      <3>5. next - 1 < n
        BY <1>1, <3>2, <3>3, <3>4
      <3>6. Ended(next - 1) + 8 <= Ended(n)
        BY <3>3, <3>5 DEF Stream
      <3> QED  BY <3>2, <3>4, <3>6
    <2> QED  BY <1>1, <2>2, <2>3
  <1>6. OneLoop' /\ NothingLeft'
    BY DEF Data, OneLoop, NothingLeft
  <1>7. Counted' /\ DiscardsAfterShortReads'
    BY DEF Data, Counted, DiscardsAfterShortReads
  <1> QED  BY <1>3, <1>4, <1>5, <1>6, <1>7

\* The catch block is entered only when the first chunk does not hold what is
\* read from it, and Chunks says when that can be.
LEMMA ThrowsInv ==
  ASSUME IInv, ReadThrows
  PROVE  IInv'
  <1> USE DEF IInv
  <1>1. short
    <2>1. first \in Nat /\ total \in Nat /\ first <= total  BY DEF TypeOK
    <2>2. ~discarded  BY DEF OneLoop, ReadThrows
    <2> QED  BY <2>1, <2>2 DEF ReadThrows, OutOfRange, Merged, Chunks
  <1>2. TypeOK'
    <2>1. \A i \in DOMAIN sent' : Length(i)' \in Lengths
      BY StreamKept DEF ReadThrows, TypeOK
    <2>2. 0 \in 0 .. 0  OBVIOUS
    <2> QED  BY <2>1, <2>2 DEF TypeOK, ReadThrows
  <1>3. Stream'  BY StreamKept DEF Stream, ReadThrows
  <1>4. OneLoop' /\ Counted' /\ NothingLeft'
    BY DEF ReadThrows, OneLoop, Counted, NothingLeft
  <1>5. Chunks' /\ DiscardsAfterShortReads'
    BY <1>1 DEF ReadThrows, Chunks, DiscardsAfterShortReads
  <1> QED  BY <1>2, <1>3, <1>4, <1>5

LEMMA BreakInv ==
  ASSUME IInv, Break
  PROVE  IInv'
  <1> USE DEF IInv
  <1>1. /\ first \in Nat /\ total \in Nat /\ first <= total
        /\ Merged \in {first, total}
    BY DEF TypeOK, Merged
  <1>2. /\ first' \in 0 .. total' /\ (first' = 0 <=> total' = 0)
        /\ first' < total' => first < total
    BY <1>1 DEF Break, Chunks
  <1>3. TypeOK'
    <2>1. \A i \in DOMAIN sent' : Length(i)' \in Lengths
      BY StreamKept DEF Break, TypeOK
    <2> QED  BY <1>2, <2>1 DEF TypeOK, Break
  <1>4. Stream'  BY StreamKept DEF Stream, Break
  <1>5. NothingLeft'
    BY StreamKept DEF NothingLeft, Break, Complete
  <1>6. OneLoop' /\ Counted' /\ DiscardsAfterShortReads'
    BY DEF Break, OneLoop, Counted, DiscardsAfterShortReads
  <1>7. Chunks'
    BY <1>2 DEF Break, Chunks
  <1> QED  BY <1>3, <1>4, <1>5, <1>6, <1>7

LEMMA TakeInv ==
  ASSUME IInv, Take
  PROVE  IInv'
  <1> DEFINE n == Len(sent)
  <1> USE DEF IInv
  <1>1. /\ n \in Nat /\ next \in 1 .. n
        /\ Length(next) \in Nat /\ Length(next) >= 8
        /\ Ended(next) = Ended(next - 1) + Length(next)
        /\ total \in Nat /\ total >= Length(next)
        /\ wire \in Nat /\ ~discarded
    BY LengthFacts DEF Take, Complete, TypeOK, OneLoop
  <1>2. /\ total' \in Nat /\ first' = total' /\ total' = total - Length(next)
        /\ next' = next + 1 /\ awaiting = {} /\ awaiting' = {next}
    BY <1>1 DEF Take, OneLoop
  <1>3. TypeOK'
    <2>1. \A i \in DOMAIN sent' : Length(i)' \in Lengths
      BY StreamKept DEF Take, TypeOK
    <2>2. /\ next' \in 1 .. n + 1 /\ awaiting' \subseteq 1 .. n
          /\ first' \in 0 .. total' /\ n = Len(sent')
      BY <1>1, <1>2 DEF Take
    <2> QED  BY <1>1, <1>2, <2>1, <2>2 DEF TypeOK, Take
  <1>4. Stream'
    <2>1. next - 1 \in 0 .. n /\ Ended(next - 1) \in Nat /\ Ended(n) \in Nat
      BY <1>1 DEF Stream
    <2>2. total' + wire = Ended(n) - Ended(next)
      <3>1. total + wire = Ended(n) - Ended(next - 1)  BY <1>1 DEF Stream
      <3>2. /\ total \in Nat /\ wire \in Nat /\ Length(next) \in Nat
            /\ total' = total - Length(next)
            /\ Ended(next) = Ended(next - 1) + Length(next)
        BY ONLY <1>1, <1>2
      <3> DEFINE l == Length(next)
                 b == Ended(next - 1)
                 e == Ended(n)
      <3>3. l \in Nat /\ b \in Nat /\ e \in Nat  BY ONLY <2>1, <3>2
      <3>4. total' = total - l /\ Ended(next) = b + l /\ total + wire = e - b
        BY ONLY <3>1, <3>2
      <3> HIDE DEF l, b, e
      <3>5. total' + wire = e - (b + l)  BY ONLY <3>2, <3>3, <3>4
      <3> QED  BY ONLY <3>4, <3>5 DEF e
    <2>3. next' - 1 = next  BY <1>1, <1>2
    <2> QED  BY <2>2, <2>3, StreamKept DEF Stream, Take
  <1>5. OneLoop'
    BY <1>1, <1>2 DEF Take, OneLoop
  <1>6. Counted'
    BY <1>1, <1>2 DEF Take, Counted
  <1>7. Chunks' /\ NothingLeft' /\ DiscardsAfterShortReads'
    BY <1>1, <1>2 DEF Take, OneLoop, Chunks, NothingLeft, DiscardsAfterShortReads
  <1> QED  BY <1>3, <1>4, <1>5, <1>6, <1>7

LEMMA ReplyInv ==
  ASSUME IInv, NEW i \in awaiting, Reply(i)
  PROVE  IInv'
  <1> DEFINE n == Len(sent)
  <1> USE DEF IInv
  <1>1. /\ n \in Nat /\ next \in 1 .. n + 1 /\ next > 1
        /\ i = next - 1 /\ i \in 1 .. n /\ awaiting' = {}
        /\ Len(replied) = next - 2
        /\ processing /\ ~discarded
    BY DEF Reply, OneLoop, Counted, TypeOK
  <1>2. /\ replied' \in Seq(1 .. n) /\ Len(replied') = next - 1
        /\ \A j \in 1 .. next - 2 : replied'[j] = replied[j]
        /\ replied'[next - 1] = i
        /\ DOMAIN replied = 1 .. next - 2
        /\ DOMAIN replied' = 1 .. next - 1
    <2>1. replied \in Seq(1 .. n)  BY DEF TypeOK
    <2> QED  BY <1>1, <2>1, AppendFacts DEF Reply
  <1>3. TypeOK'
    <2>1. \A k \in DOMAIN sent' : Length(k)' \in Lengths
      BY StreamKept DEF Reply, TypeOK
    <2> QED  BY <1>1, <1>2, <2>1 DEF TypeOK, Reply
  <1>4. Counted'
    BY <1>1, <1>2 DEF Reply, Counted
  <1>5. Stream'  BY StreamKept DEF Stream, Reply
  <1>6. OneLoop' /\ NothingLeft'
    BY <1>1 DEF Reply, OneLoop, NothingLeft
  <1>7. Chunks' /\ DiscardsAfterShortReads'
    BY DEF Reply, Chunks, DiscardsAfterShortReads
  <1> QED  BY <1>3, <1>4, <1>5, <1>6, <1>7

LEMMA NextInv == IInv /\ [Next]_vars => IInv'
  <1> SUFFICES ASSUME IInv, [Next]_vars  PROVE IInv'  OBVIOUS
  <1>1. CASE UNCHANGED vars
    BY <1>1 DEF vars, IInv, TypeOK, OneLoop, Counted, NothingLeft, Stream, Chunks,
      DiscardsAfterShortReads, Complete, Ended, Length
  <1>2. CASE Next
    BY <1>2, SendsInv, DataInv, ThrowsInv, BreakInv, TakeInv, ReplyInv
    DEF Next, LoopStep
  <1> QED  BY <1>1, <1>2

-----------------------------------------------------------------------------

\* The inductive invariant holds: one loop at a time reads a connection, and it
\* knows where in the stream it is (processBuffer).
THEOREM Invariance == Spec => []IInv
  BY InitInv, NextInv, PTL DEF Spec

\* The reader's variables have their types (TypeOK).
THEOREM TypeCorrect == Spec => []TypeOK
  <1>1. IInv => TypeOK  BY DEF IInv
  <1> QED  BY <1>1, Invariance, PTL

\* Bytes are thrown away only after a read too short to be the rest of a header
\* that left bytes in the socket (processBuffer's catch block).
THEOREM DiscardTheorem == Spec => []DiscardsAfterShortReads
  <1>1. IInv => DiscardsAfterShortReads  BY DEF IInv
  <1> QED  BY <1>1, Invariance, PTL

\* Responses leave in the order of the requests, however reads and handlers
\* interleave (processBuffer, the processing flag).
THEOREM OrderTheorem == Spec => []RepliesInOrder
  <1>1. IInv => RepliesInOrder
    BY DEF IInv, TypeOK, OneLoop, Counted, RepliesInOrder
  <1> QED  BY <1>1, Invariance, PTL

\* No complete request waits in the buffer with no loop to look at it (the data
\* handler and processBuffer).
THEOREM StrandedTheorem == Spec => []NothingStranded
  <1>1. IInv => NothingStranded
    BY DEF IInv, OneLoop, NothingLeft, NothingStranded
  <1> QED  BY <1>1, Invariance, PTL

-----------------------------------------------------------------------------
\* The reader implements RequestQueue.

\* A request that is taken is the one after the last answered, and was written.
LEMMA TakeBegins ==
  ASSUME IInv, Take
  PROVE  Queue!Begin
  <1>1. /\ awaiting = {} /\ Len(replied) = next - 1 /\ ~discarded
        /\ next \in Nat \ {0} /\ Len(sent) \in Nat
    BY DEF IInv, TypeOK, OneLoop, Counted, Take
  <1>2. next <= Len(sent)
    BY DEF Take, Complete
  <1>3. Len(replied) < Len(sent)
    BY <1>1, <1>2
  <1>4. awaiting' # {} /\ UNCHANGED <<sent, replied, discarded>>
    BY DEF Take
  <1> QED  BY <1>1, <1>3, <1>4 DEF Queue!Begin

\* The request that is answered is the one in hand, and the next in order.
LEMMA ReplyAnswers ==
  ASSUME IInv, NEW i \in awaiting, Reply(i)
  PROVE  Queue!Answer
  <1>1. /\ awaiting = {i} /\ i = next - 1 /\ next \in Nat /\ next > 1
    BY DEF IInv, TypeOK, OneLoop
  <1>2. Len(replied) = next - 2
    BY <1>1 DEF IInv, Counted
  <1>3. i = Len(replied) + 1 /\ awaiting # {}
    BY <1>1, <1>2
  <1>4. awaiting' = {} /\ replied' = Append(replied, i) /\ UNCHANGED <<sent, discarded>>
    BY <1>1 DEF Reply
  <1> QED  BY <1>3, <1>4 DEF Queue!Answer

LEMMA QueueStep ==
  ASSUME IInv, [Next]_vars
  PROVE  [Queue!Next]_(Queue!queueVars)
  <1>1. ASSUME NEW length \in Lengths, ClientSends(length)  PROVE Queue!Ask
    <2>1. Len(sent') = Len(sent) + 1
      <3>1. Ended(Len(sent)) + length \in Nat
        <4>1. Ended(Len(sent)) \in Nat
          BY DEF IInv, Stream, TypeOK
        <4> QED  BY <4>1, IpcReaderAssumption
      <3> QED  BY <1>1, <3>1, AppendFacts DEF IInv, TypeOK, ClientSends
    <2> QED  BY <1>1, <2>1 DEF ClientSends, Queue!Ask
  <1>2. ASSUME NEW size \in 1 .. wire, Data(size)  PROVE UNCHANGED Queue!queueVars
    BY <1>2 DEF Data, Queue!queueVars
  <1>3. ASSUME ReadThrows  PROVE Queue!GiveUp
    BY <1>3 DEF ReadThrows, IInv, OneLoop, Queue!GiveUp
  <1>4. ASSUME Break  PROVE UNCHANGED Queue!queueVars
    BY <1>4 DEF Break, Queue!queueVars
  <1>5. CASE UNCHANGED vars
    BY <1>5 DEF vars, Queue!queueVars
  <1> QED
    BY <1>1, <1>2, <1>3, <1>4, <1>5, TakeBegins, ReplyAnswers DEF Next, LoopStep, Queue!Next

\* A connection is a queue to its client, for requests of any lengths from eight
\* bytes up, any number of them and any cuts of the stream: one request is in hand at
\* a time, each is answered once and in order, and bytes are thrown away only between
\* two requests (processBuffer awaits handleMessage; ImplementsQueue).
THEOREM QueueRefinement == Spec => ImplementsQueue
  <1>1. Init => Queue!Init
    BY DEF Init, Queue!Init
  <1>2. IInv /\ [Next]_vars => [Queue!Next]_(Queue!queueVars)
    BY QueueStep
  <1> QED  BY <1>1, <1>2, Invariance, PTL DEF Spec, ImplementsQueue, Queue!Spec

=============================================================================
