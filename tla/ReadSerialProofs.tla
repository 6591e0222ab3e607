-------------------------- MODULE ReadSerialProofs --------------------------
(***************************************************************************)
(* Proofs about read_serial, for any fifo, any caller's buffer, any bytes  *)
(* and any deadline.                                                       *)
(***************************************************************************)
EXTENDS ReadSerial, TLAPS

\* Every poll stores from the start of buf, so the buffer holds what the call
\* took exactly as long as only one poll took something: a poll that goes on
\* storing while polls = 1 started with nothing read.
OnePollStores ==
  /\ polls = 0 => Len(got) = 0
  /\ pc = "byte_fifo_read" /\ n_bytes_read > 0 /\ polls = 1 => read_bytes = 0
  /\ polls = 1 => \A i \in 1 .. Len(got) : mem[base + i - 1] = got[i]

IInv == TypeOK /\ StaysInBuffer /\ OnePollStores

\* No call has begun when the module is loaded.
LEMMA InitIInv == Init => IInv
<1> SUFFICES ASSUME Init PROVE IInv
  OBVIOUS
<1>1. (CHOOSE b \in Byte : TRUE) \in Byte
  BY ReadSerialAssumption
<1>2. TypeOK
  BY <1>1, ReadSerialAssumption DEF Init, TypeOK
<1>3. StaysInBuffer /\ OnePollStores
  BY ReadSerialAssumption DEF Init, StaysInBuffer, OnePollStores
<1> QED BY <1>2, <1>3 DEF IInv

\* The receive callback only changes the fifo, and keeps its bound.
LEMMA ReceiveIInv ==
  ASSUME IInv, NEW b \in Byte, Receive(b)
  PROVE  IInv'
<1>1. rx' \in Seq(Byte) /\ Len(rx') <= RxSize
  <2>1. CASE Len(rx) < RxSize
    BY <2>1, ReadSerialAssumption DEF Receive, IInv, TypeOK
  <2>2. CASE ~(Len(rx) < RxSize)
    <3>1. rx # <<>> /\ Len(rx) = RxSize
      BY <2>2, ReadSerialAssumption DEF IInv, TypeOK
    <3>2. Tail(rx) \in Seq(Byte) /\ Len(Tail(rx)) = Len(rx) - 1
      BY <3>1 DEF IInv, TypeOK
    <3> QED BY <2>2, <3>1, <3>2, ReadSerialAssumption DEF Receive, IInv, TypeOK
  <2> QED BY <2>1, <2>2
<1> QED
  BY <1>1 DEF Receive, call, IInv, TypeOK, StaysInBuffer, OnePollStores

\* One byte moves from the fifo to the buffer.
LEMMA TakeIInv ==
  ASSUME IInv, Take
  PROVE  IInv'
<1> DEFINE n == n_bytes_read
<1> USE ReadSerialAssumption DEF IInv, TypeOK, StaysInBuffer
<1>1. Head(rx) \in Byte /\ Tail(rx) \in Seq(Byte) /\ Len(Tail(rx)) = Len(rx) - 1
  BY DEF Take
<1>2. /\ got' \in Seq(Byte) /\ Len(got') = Len(got) + 1
      /\ got'[Len(got) + 1] = Head(rx)
      /\ \A i \in 1 .. Len(got) : got'[i] = got[i]
  BY <1>1 DEF Take
<1>3. base + n \in 0 .. BufSize - 1
  BY DEF Take
<1>4. TypeOK'
  BY <1>1, <1>2, <1>3 DEF Take
<1>5. StaysInBuffer'
  BY <1>2 DEF Take
<1>6. OnePollStores'
  <2>1. polls' # 0 /\ (polls' = 1 => read_bytes = 0 /\ n = Len(got))
    BY DEF Take, OnePollStores
  <2>2. ASSUME polls' = 1 PROVE \A i \in 1 .. Len(got') : mem'[base' + i - 1] = got'[i]
    <3> TAKE i \in 1 .. Len(got')
    <3>1. CASE i = Len(got) + 1
      BY <1>2, <1>3, <2>1, <2>2, <3>1 DEF Take
    <3>2. CASE i \in 1 .. Len(got)
      <4>1. polls = 1
        BY <2>1, <2>2, <3>2 DEF Take, OnePollStores
      <4>2. base + i - 1 \in 0 .. BufSize - 1 /\ base + i - 1 # base + n
        BY <2>1, <2>2, <3>2 DEF Take
      <4> QED BY <1>2, <3>2, <4>1, <4>2 DEF Take, OnePollStores
    <3> QED BY <1>2, <3>1, <3>2
  <2> QED BY <2>1, <2>2 DEF Take, OnePollStores
<1> QED BY <1>4, <1>5, <1>6

\* Every step of the call, the callback and the clock preserves the invariant.
LEMMA NextIInv == IInv /\ [Next]_vars => IInv'
<1> SUFFICES ASSUME IInv, [Next]_vars PROVE IInv'
  OBVIOUS
<1> USE DEF call
<1>1. CASE \E b \in Byte : Receive(b)
  BY <1>1, ReceiveIInv
<1>2. CASE Flush
  BY <1>2, ReadSerialAssumption
     DEF Flush, IInv, TypeOK, StaysInBuffer, OnePollStores
<1>3. ASSUME NEW b \in 0 .. BufSize, NEW c \in 0 .. BufSize,
             b + c <= BufSize, Start(b, c)
      PROVE  IInv'
  BY <1>3 DEF Start, IInv, TypeOK, StaysInBuffer, OnePollStores
<1>4. CASE While
  BY <1>4 DEF While, IInv, TypeOK, StaysInBuffer, OnePollStores
<1>5. CASE Take
  BY <1>5, TakeIInv
<1>6. CASE EndPoll
  BY <1>6 DEF EndPoll, IInv, TypeOK, StaysInBuffer, OnePollStores
<1>7. CASE Return
  BY <1>7 DEF Return, ETIMEDOUT, IInv, TypeOK, StaysInBuffer, OnePollStores
<1>8. CASE Tick
  BY <1>8 DEF Tick, IInv, TypeOK, StaysInBuffer, OnePollStores
<1>9. CASE UNCHANGED vars
  BY <1>9 DEF vars, IInv, TypeOK, StaysInBuffer, OnePollStores
<1> QED
  BY <1>1, <1>2, <1>3, <1>4, <1>5, <1>6, <1>7, <1>8, <1>9 DEF Next, Step

\* The invariant holds in every state of read_serial.
THEOREM Invariance == Spec => []IInv
BY InitIInv, NextIInv, PTL DEF Spec

\* The fifo never outgrows rx_fifo and the counts stay numbers.
THEOREM TypeCorrect == Spec => []TypeOK
<1>1. IInv => TypeOK
  BY DEF IInv
<1> QED BY <1>1, Invariance, PTL

\* read_serial never stores outside buf[0 .. count - 1], and never loses count
\* of the bytes it took, however the deadline and the callback interleave.
THEOREM BufferSafe == Spec => []StaysInBuffer
<1>1. IInv => StaysInBuffer
  BY DEF IInv
<1> QED BY <1>1, Invariance, PTL

\* A call that found all its bytes in one poll of the fifo returns them in the
\* order in which they came.
THEOREM OnePollDelivers == Spec => []SinglePollExact
<1>1. IInv => SinglePollExact
  BY DEF IInv, OnePollStores, SinglePollExact
<1> QED BY <1>1, Invariance, PTL
=============================================================================
