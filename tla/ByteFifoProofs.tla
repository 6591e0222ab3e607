--------------------------- MODULE ByteFifoProofs ---------------------------
(***************************************************************************)
(* Proofs about the receive fifo, for every ring size and every bound.     *)
(* The safety invariants of ByteFifo are proved together, as one inductive *)
(* invariant; the one fact to add is what the producer still has in hand.  *)
(***************************************************************************)
EXTENDS ByteFifo, SequenceTheorems, TLAPS

\* The batch in hand continues the stream where the ring left off; between
\* two calls there is neither a batch nor a count.
BatchContinues ==
  /\ ~writing => bytes = <<>> /\ n_bytes_overwritten = 0
  /\ Len(bytes) <= received
  /\ \A i \in 1 .. Len(bytes) : bytes[i] = Accepted + i

IInv ==
  /\ TypeOK
  /\ BatchContinues
  /\ RingHoldsNewest
  /\ DeliveredInOrder
  /\ Accounting

\* The wrap test of byte_fifo.c keeps an index inside the ring.
LEMMA AdvanceInRing ==
  ASSUME NEW i \in Index
  PROVE  Advance(i) \in Index
BY FifoAssumption DEF Advance, Index

\* The empty sequence has no elements.
LEMMA LenEmpty == Len(<<>>) = 0
OBVIOUS

\* byte_fifo_init leaves an empty ring that satisfies the invariant.
LEMMA InitIInv == Init => IInv
<1> SUFFICES ASSUME Init PROVE IInv
  OBVIOUS
<1>1. TypeOK
  BY FifoAssumption DEF Init, TypeOK, Index
<1>2. BatchContinues
  BY LenEmpty DEF Init, BatchContinues, Accepted
<1>3. RingHoldsNewest
  BY LenEmpty, FifoAssumption DEF Init, RingHoldsNewest, Accepted, Slot
<1>4. DeliveredInOrder
  BY LenEmpty DEF Init, DeliveredInOrder, Accepted
<1>5. Accounting
  <2>1. /\ received = 0 /\ Len(bytes) = 0 /\ taken = 0 /\ reported = 0
        /\ n_bytes_overwritten = 0 /\ flushed = 0 /\ n_elements = 0
    BY LenEmpty DEF Init
  <2> QED BY <2>1 DEF Accounting, Accepted
<1> QED BY <1>1, <1>2, <1>3, <1>4, <1>5 DEF IInv

\* Every critical section leaves indices, counts and buffers in their types.
LEMMA NextTypeOK == TypeOK /\ BatchContinues /\ [Next]_vars => TypeOK'
<1> SUFFICES ASSUME TypeOK, BatchContinues, [Next]_vars PROVE TypeOK'
  OBVIOUS
<1> USE FifoAssumption DEF TypeOK
<1>1. ASSUME NEW len \in 0 .. MaxBatch, WriteCall(len) PROVE TypeOK'
  <2>1. [i \in 1 .. len |-> received + i] \in Seq(Nat)
    OBVIOUS
  <2> QED BY <1>1, <2>1 DEF WriteCall, fifo, reader
<1>2. CASE WriteStore
  <2>1. Head(bytes) \in Nat /\ Tail(bytes) \in Seq(Nat)
    BY <1>2, HeadTailProperties DEF WriteStore
  <2>2. data' \in [Index -> Nat] /\ write_index' \in Index
    BY <1>2, <2>1, AdvanceInRing DEF WriteStore
  <2>3. n_elements' \in 0 .. Size
    BY <1>2 DEF WriteStore, byte_fifo_is_available
  <2> QED BY <1>2, <2>1, <2>2, <2>3 DEF WriteStore, reader, history
<1>3. CASE WriteDrop
  BY <1>3, AdvanceInRing DEF WriteDrop, byte_fifo_is_available, reader, history
<1>4. CASE WriteReturn
  <2>1. reported' \in Nat /\ n_bytes_overwritten' \in Nat
    BY <1>4 DEF WriteReturn
  <2> QED BY <1>4, <2>1 DEF WriteReturn, fifo, reader
<1>5. ASSUME NEW len \in 0 .. MaxLen, ReadCall(len) PROVE TypeOK'
  BY <1>5 DEF ReadCall, fifo, writer, history
<1>6. CASE ReadTake
  <2>1. data[read_index] \in Nat
    OBVIOUS
  <2>2. buffer' \in Seq(Nat) /\ read_index' \in Index /\ last_out' \in Nat
    BY <1>6, <2>1, AdvanceInRing DEF ReadTake
  <2>3. n_elements' \in 0 .. Size /\ taken' \in Nat
    BY <1>6 DEF ReadTake
  <2> QED BY <1>6, <2>2, <2>3 DEF ReadTake, writer
<1>7. CASE ReadReturn
  BY <1>7 DEF ReadReturn, fifo, writer, history
<1>8. CASE byte_fifo_reset
  BY <1>8 DEF byte_fifo_reset, writer, reader, Index
<1>9. CASE UNCHANGED vars
  BY <1>9 DEF vars, fifo, writer, reader, history
<1> QED
  BY <1>1, <1>2, <1>3, <1>4, <1>5, <1>6, <1>7, <1>8, <1>9
  DEF Next, Producer, Consumer

\* Distinct places behind the read index are distinct slots of the ring, and
\* the slot after the k-th is the (k+1)-st.
LEMMA SlotFacts ==
  ASSUME TypeOK
  PROVE  /\ \A k \in 0 .. Size - 1 : Slot(k) \in Index
         /\ \A j, k \in 0 .. Size - 1 : Slot(j) = Slot(k) => j = k
         /\ \A k \in 0 .. Size - 1 : Advance(Slot(k)) = Slot(k + 1)
         /\ Slot(0) = read_index
BY FifoAssumption DEF TypeOK, Slot, Index, Advance

\* Moving the read index to the next slot shifts the places by one.
LEMMA SlotShift ==
  ASSUME TypeOK, read_index' = Advance(read_index)
  PROVE  \A k \in 0 .. Size - 1 : Slot(k)' = Slot(k + 1)
BY FifoAssumption DEF TypeOK, Slot, Index, Advance

\* A step that changes neither the ring, nor the stream position, nor what the
\* reader has got keeps the invariants of ring and delivery.
LEMMA RingFrame ==
  ASSUME IInv, UNCHANGED fifo, Accepted' = Accepted
  PROVE  RingHoldsNewest'
BY DEF IInv, fifo, RingHoldsNewest, Slot

\* Removing the oldest byte of a non-empty ring leaves the newest ones.
LEMMA RingShrinks ==
  ASSUME IInv, n_elements > 0, read_index' = Advance(read_index),
         n_elements' = n_elements - 1, UNCHANGED <<data, write_index>>,
         Accepted' = Accepted
  PROVE  RingHoldsNewest'
<1> USE FifoAssumption DEF IInv
<1>1. Accepted \in Nat
  BY DEF TypeOK, BatchContinues, Accepted
<1>2. n_elements \in 1 .. Size
  BY DEF TypeOK
<1>3. write_index' = Slot(n_elements)'
  BY <1>2, SlotShift DEF RingHoldsNewest
<1>4. n_elements' <= Accepted'
  BY <1>1, <1>2 DEF RingHoldsNewest
<1>5. ASSUME NEW k \in 0 .. n_elements' - 1
      PROVE  data'[Slot(k)'] = Accepted' - n_elements' + k + 1
  <2>1. k + 1 \in 0 .. n_elements - 1 /\ k \in 0 .. Size - 1
    BY <1>2
  <2>2. data'[Slot(k)'] = data[Slot(k + 1)]
    BY <2>1, SlotShift
  <2>3. data[Slot(k + 1)] = Accepted - n_elements + (k + 1) + 1
    BY <2>1 DEF RingHoldsNewest
  <2> QED BY <1>1, <1>2, <2>2, <2>3
<1> QED BY <1>3, <1>4, <1>5 DEF RingHoldsNewest

\* One critical section of byte_fifo_write that stores a byte.
LEMMA WriteStoreIInv == IInv /\ WriteStore => IInv'
<1> SUFFICES ASSUME IInv, WriteStore PROVE IInv'
  OBVIOUS
<1> USE FifoAssumption DEF IInv
<1>1. TypeOK'
  BY NextTypeOK DEF Next, Producer
<1>2. /\ Head(bytes) = bytes[1]
      /\ Len(bytes) \in Nat \ {0}
      /\ Len(bytes') = Len(bytes) - 1
      /\ \A i \in 1 .. Len(bytes') : bytes'[i] = bytes[i + 1]
  BY HeadTailProperties, EmptySeq DEF WriteStore, TypeOK
<1>3. Accepted \in Nat /\ Accepted' = Accepted + 1
  BY <1>2 DEF WriteStore, history, Accepted, TypeOK, BatchContinues
<1>4. Head(bytes) = Accepted + 1
  BY <1>2 DEF BatchContinues
<1>5. BatchContinues'
  <2>1. writing'
    BY DEF WriteStore
  <2>2. Len(bytes') <= received'
    BY <1>2 DEF WriteStore, history, BatchContinues, TypeOK
  <2>3. ASSUME NEW i \in 1 .. Len(bytes') PROVE bytes'[i] = Accepted' + i
    <3>1. i + 1 \in 1 .. Len(bytes)
      BY <1>2
    <3>2. bytes'[i] = Accepted + (i + 1)
      BY <1>2, <3>1 DEF BatchContinues
    <3> QED BY <1>3, <3>2
  <2> QED BY <2>1, <2>2, <2>3 DEF BatchContinues
<1>6. RingHoldsNewest'
  <2>1. n_elements \in 0 .. Size - 1 /\ n_elements' = n_elements + 1
    BY DEF WriteStore, byte_fifo_is_available, TypeOK
  <2>2. \A k : Slot(k)' = Slot(k)
    BY DEF WriteStore, Slot
  <2>3. write_index' = Slot(n_elements)'
    <3>1. write_index' = Slot(n_elements + 1)
      BY <2>1, SlotFacts DEF WriteStore, RingHoldsNewest
    <3> QED BY <3>1, <2>1 DEF WriteStore, Slot
  <2>4. ASSUME NEW k \in 0 .. n_elements' - 1
        PROVE  data'[Slot(k)'] = Accepted' - n_elements' + k + 1
    <3>1. CASE k = n_elements
      <4>1. data'[Slot(k)] = Head(bytes)
        BY <3>1, <2>1, SlotFacts DEF WriteStore, RingHoldsNewest, TypeOK
      <4> QED BY <4>1, <3>1, <2>1, <2>2, <1>3, <1>4
    <3>2. CASE k # n_elements
      <4>1. k \in 0 .. n_elements - 1
        BY <3>2, <2>1
      <4>2. Slot(k) # write_index /\ Slot(k) \in Index
        BY <4>1, <2>1, SlotFacts DEF RingHoldsNewest
      <4>3. data'[Slot(k)] = data[Slot(k)]
        BY <4>2 DEF WriteStore, TypeOK
      <4>4. data[Slot(k)] = Accepted - n_elements + k + 1
        BY <4>1 DEF RingHoldsNewest
      <4> QED BY <4>1, <4>3, <4>4, <2>1, <2>2, <1>3
    <3> QED BY <3>1, <3>2
  <2>5. n_elements' <= Accepted'
    BY <2>1, <1>3 DEF RingHoldsNewest
  <2> QED BY <2>3, <2>4, <2>5 DEF RingHoldsNewest
<1>7. DeliveredInOrder'
  <2>1. last_out' <= Accepted' - n_elements'
    BY <1>3 DEF WriteStore, history, DeliveredInOrder, TypeOK
  <2> QED BY <2>1 DEF WriteStore, reader, history, DeliveredInOrder
<1>8. Accounting'
  BY <1>3 DEF WriteStore, history, Accounting, TypeOK
<1> QED BY <1>1, <1>5, <1>6, <1>7, <1>8

\* One critical section of byte_fifo_write that drops the oldest byte.
LEMMA WriteDropIInv == IInv /\ WriteDrop => IInv'
<1> SUFFICES ASSUME IInv, WriteDrop PROVE IInv'
  OBVIOUS
<1> USE FifoAssumption DEF IInv
<1>1. TypeOK'
  BY NextTypeOK DEF Next, Producer
<1>2. Accepted \in Nat /\ Accepted' = Accepted
  BY DEF WriteDrop, history, Accepted, TypeOK, BatchContinues
<1>3. n_elements \in 1 .. Size
  BY DEF WriteDrop, byte_fifo_is_available, TypeOK
<1>4. BatchContinues'
  BY <1>2 DEF WriteDrop, history, BatchContinues
<1>5. RingHoldsNewest'
  BY <1>2, <1>3, RingShrinks DEF WriteDrop
<1>6. DeliveredInOrder'
  <2>1. last_out' <= Accepted' - n_elements'
    BY <1>2, <1>3 DEF WriteDrop, history, DeliveredInOrder, TypeOK
  <2> QED BY <2>1 DEF WriteDrop, reader, history, DeliveredInOrder
<1>7. Accounting'
  BY <1>2, <1>3 DEF WriteDrop, history, Accounting, TypeOK
<1> QED BY <1>1, <1>4, <1>5, <1>6, <1>7

\* The critical section of byte_fifo_read that takes a byte.
LEMMA ReadTakeIInv == IInv /\ ReadTake => IInv'
<1> SUFFICES ASSUME IInv, ReadTake PROVE IInv'
  OBVIOUS
<1> USE FifoAssumption DEF IInv
<1>1. TypeOK'
  BY NextTypeOK DEF Next, Consumer
<1>2. Accepted \in Nat /\ Accepted' = Accepted
  BY DEF ReadTake, writer, Accepted, TypeOK, BatchContinues
<1>3. n_elements \in 1 .. Size
  BY DEF ReadTake, TypeOK
<1>4. BatchContinues'
  BY <1>2 DEF ReadTake, writer, BatchContinues
<1>5. RingHoldsNewest'
  BY <1>2, <1>3, RingShrinks DEF ReadTake
<1>6. last_out' = Accepted - n_elements + 1
  <2>1. data[Slot(0)] = Accepted - n_elements + 0 + 1
    BY <1>3 DEF RingHoldsNewest
  <2> QED BY <1>2, <1>3, <2>1, SlotFacts DEF ReadTake
<1>7. DeliveredInOrder'
  <2>1. last_out < last_out' /\ last_out' <= Accepted' - n_elements'
    BY <1>2, <1>3, <1>6 DEF ReadTake, DeliveredInOrder, TypeOK
  <2>2. /\ Len(buffer') = Len(buffer) + 1 /\ Len(buffer) \in Nat
        /\ buffer'[Len(buffer) + 1] = last_out'
        /\ \A i \in 1 .. Len(buffer) : buffer'[i] = buffer[i] /\ buffer[i] \in Nat
    BY DEF ReadTake, TypeOK
  <2>3. last_out \in Nat /\ last_out' \in Nat
    BY <1>1 DEF TypeOK
  <2>4. ASSUME NEW i \in 1 .. Len(buffer') PROVE buffer'[i] <= last_out'
    BY <2>1, <2>2, <2>3 DEF DeliveredInOrder
  <2>5. ASSUME NEW i \in 1 .. Len(buffer'), NEW j \in 1 .. Len(buffer'), i < j
        PROVE  buffer'[i] < buffer'[j]
    <3>1. i \in 1 .. Len(buffer)
      BY <2>2, <2>5
    <3>2. CASE j = Len(buffer) + 1
      BY <2>1, <2>2, <2>3, <3>1, <3>2 DEF DeliveredInOrder
    <3>3. CASE j # Len(buffer) + 1
      <4>1. j \in 1 .. Len(buffer)
        BY <2>2, <3>3
      <4> QED BY <2>2, <2>5, <3>1, <4>1 DEF DeliveredInOrder
    <3> QED BY <3>2, <3>3
  <2> QED BY <2>1, <2>4, <2>5 DEF DeliveredInOrder
<1>8. Accounting'
  BY <1>2, <1>3 DEF ReadTake, writer, Accounting, TypeOK
<1> QED BY <1>1, <1>4, <1>5, <1>7, <1>8

\* byte_fifo_reset empties the ring and accounts for what it threw away.
LEMMA ResetIInv == IInv /\ byte_fifo_reset => IInv'
<1> SUFFICES ASSUME IInv, byte_fifo_reset PROVE IInv'
  OBVIOUS
<1> USE FifoAssumption DEF IInv
<1>1. TypeOK'
  BY NextTypeOK DEF Next, Consumer
<1>2. Accepted \in Nat /\ Accepted' = Accepted
  BY DEF byte_fifo_reset, writer, Accepted, TypeOK, BatchContinues
<1>3. n_elements \in 0 .. Size /\ n_elements' = 0
  BY DEF byte_fifo_reset, TypeOK
<1>4. BatchContinues'
  BY <1>2 DEF byte_fifo_reset, writer, BatchContinues
<1>5. RingHoldsNewest'
  BY <1>2, <1>3 DEF byte_fifo_reset, RingHoldsNewest, Slot
<1>6. DeliveredInOrder'
  <2>1. last_out' <= Accepted' - n_elements'
    BY <1>2, <1>3 DEF byte_fifo_reset, DeliveredInOrder, TypeOK
  <2> QED BY <2>1 DEF byte_fifo_reset, reader, DeliveredInOrder
<1>7. Accounting'
  BY <1>2, <1>3 DEF byte_fifo_reset, writer, Accounting, TypeOK
<1> QED BY <1>1, <1>4, <1>5, <1>6, <1>7

\* A receive callback that starts has nothing in hand yet.
LEMMA WriteCallIInv ==
  ASSUME IInv, NEW len \in 0 .. MaxBatch, WriteCall(len) PROVE IInv'
<1> USE FifoAssumption DEF IInv
<1>1. TypeOK'
  BY NextTypeOK DEF Next, Producer
<1>2. /\ Len(bytes') = len /\ len \in Nat /\ Len(bytes) = 0
      /\ \A i \in 1 .. len : bytes'[i] = received + i
  BY LenEmpty DEF WriteCall, BatchContinues
<1>3. Accepted \in Nat /\ Accepted' = Accepted /\ Accepted = received
  BY <1>2 DEF WriteCall, Accepted, TypeOK, BatchContinues
<1>4. BatchContinues'
  <2>1. writing' /\ received' = received + len
    BY DEF WriteCall
  <2> QED BY <1>2, <1>3, <2>1 DEF BatchContinues, TypeOK
<1>5. RingHoldsNewest'
  BY <1>3, RingFrame DEF WriteCall
<1>6. DeliveredInOrder'
  BY <1>3 DEF WriteCall, fifo, reader, DeliveredInOrder
<1>7. Accounting'
  BY <1>3 DEF WriteCall, fifo, Accounting, BatchContinues
<1> QED BY <1>1, <1>4, <1>5, <1>6, <1>7

\* The callback returns and reports what it overwrote.
LEMMA WriteReturnIInv == IInv /\ WriteReturn => IInv'
<1> SUFFICES ASSUME IInv, WriteReturn PROVE IInv'
  OBVIOUS
<1> USE FifoAssumption DEF IInv
<1>1. TypeOK'
  BY NextTypeOK DEF Next, Producer
<1>2. Accepted' = Accepted
  BY DEF WriteReturn, Accepted
<1>3. BatchContinues'
  BY <1>2 DEF WriteReturn, BatchContinues
<1>4. RingHoldsNewest'
  BY <1>2, RingFrame DEF WriteReturn
<1>5. DeliveredInOrder'
  BY <1>2 DEF WriteReturn, fifo, reader, DeliveredInOrder
<1>6. Accounting'
  BY <1>2 DEF WriteReturn, fifo, Accounting, TypeOK
<1> QED BY <1>1, <1>3, <1>4, <1>5, <1>6

\* Entering and leaving byte_fifo_read touches neither ring nor stream.
LEMMA ReadFrameIInv ==
  ASSUME IInv, TypeOK', UNCHANGED <<fifo, writer, history>>,
         buffer' = buffer \/ buffer' = <<>>
  PROVE  IInv'
<1> USE DEF IInv
<1>1. Accepted' = Accepted
  BY DEF Accepted, writer, history
<1>2. BatchContinues'
  BY <1>1 DEF writer, history, BatchContinues
<1>3. RingHoldsNewest'
  BY <1>1, RingFrame
<1>4. DeliveredInOrder'
  <2>1. last_out' = last_out /\ n_elements' = n_elements
    BY DEF fifo, history
  <2>2. CASE buffer' = buffer
    BY <1>1, <2>1, <2>2 DEF DeliveredInOrder
  <2>3. CASE buffer' = <<>>
    BY <1>1, <2>1, <2>3, LenEmpty DEF DeliveredInOrder
  <2> QED BY <2>2, <2>3
<1>5. Accounting'
  BY <1>1 DEF fifo, writer, history, Accounting
<1> QED BY <1>2, <1>3, <1>4, <1>5

\* Every step of either thread preserves the invariant.
LEMMA NextIInv == IInv /\ [Next]_vars => IInv'
<1> SUFFICES ASSUME IInv, [Next]_vars PROVE IInv'
  OBVIOUS
<1>0. TypeOK'
  BY NextTypeOK DEF IInv
<1>1. ASSUME NEW len \in 0 .. MaxBatch, WriteCall(len) PROVE IInv'
  BY <1>1, WriteCallIInv
<1>2. CASE WriteStore
  BY <1>2, WriteStoreIInv
<1>3. CASE WriteDrop
  BY <1>3, WriteDropIInv
<1>4. CASE WriteReturn
  BY <1>4, WriteReturnIInv
<1>5. ASSUME NEW len \in 0 .. MaxLen, ReadCall(len) PROVE IInv'
  BY <1>0, <1>5, ReadFrameIInv DEF ReadCall
<1>6. CASE ReadTake
  BY <1>6, ReadTakeIInv
<1>7. CASE ReadReturn
  BY <1>0, <1>7, ReadFrameIInv DEF ReadReturn
<1>8. CASE byte_fifo_reset
  BY <1>8, ResetIInv
<1>9. CASE UNCHANGED vars
  BY <1>0, <1>9, ReadFrameIInv DEF vars, reader
<1> QED
  BY <1>1, <1>2, <1>3, <1>4, <1>5, <1>6, <1>7, <1>8, <1>9
  DEF Next, Producer, Consumer

\* The conjunction of the fifo's invariants holds in every reachable state.
THEOREM Invariance == Spec => []IInv
BY InitIInv, NextIInv, PTL DEF Spec

\* byte_fifo.c keeps its indices inside the ring and its count within the
\* capacity, for every ring size and every interleaving.
THEOREM TypeCorrect == Spec => []TypeOK
<1>1. IInv => TypeOK
  BY DEF IInv
<1> QED BY <1>1, Invariance, PTL

\* byte_fifo_write: the ring always holds the newest accepted bytes in order.
THEOREM NewestKept == Spec => []RingHoldsNewest
<1>1. IInv => RingHoldsNewest
  BY DEF IInv
<1> QED BY <1>1, Invariance, PTL

\* byte_fifo_read: bytes are delivered in order and at most once.
THEOREM InOrder == Spec => []DeliveredInOrder
<1>1. IInv => DeliveredInOrder
  BY DEF IInv
<1> QED BY <1>1, Invariance, PTL

\* byte_fifo_write's count: no accepted byte is lost without being counted.
THEOREM NothingLostSilently == Spec => []Accounting
<1>1. IInv => Accounting
  BY DEF IInv
<1> QED BY <1>1, Invariance, PTL
-----------------------------------------------------------------------------
(* The ring implements the bounded drop-oldest queue.                      *)

\* The abstraction of the ring is a sequence of n_elements bytes.
LEMMA ContentsSeq ==
  ASSUME TypeOK
  PROVE  /\ Contents \in Seq(Nat)
         /\ Len(Contents) = n_elements
         /\ \A k \in 1 .. n_elements : Contents[k] = data[Slot(k - 1)]
<1>1. \A k \in 1 .. n_elements : data[Slot(k - 1)] \in Nat
  BY FifoAssumption, SlotFacts DEF TypeOK
<1>2. n_elements \in Nat
  BY DEF TypeOK
<1> QED BY <1>1, <1>2 DEF Contents

\* A step that leaves the ring alone leaves its abstraction alone.
LEMMA ContentsFrame ==
  ASSUME UNCHANGED fifo
  PROVE  Contents' = Contents
BY DEF fifo, Contents, Slot

\* Taking or dropping the oldest byte is Tail on the abstraction.
LEMMA ContentsTail ==
  ASSUME IInv, TypeOK', n_elements > 0, read_index' = Advance(read_index),
         n_elements' = n_elements - 1, data' = data
  PROVE  /\ Contents # <<>>
         /\ Head(Contents) = data[read_index]
         /\ Contents' = Tail(Contents)
<1>1. TypeOK /\ n_elements \in 1 .. Size
  BY FifoAssumption DEF IInv, TypeOK
<1>2. Contents # <<>>
  BY <1>1, ContentsSeq, LenEmpty
<1>3. Head(Contents) = data[read_index]
  <2>1. Contents[1] = data[Slot(0)]
    BY <1>1, ContentsSeq
  <2> QED BY <1>1, <1>2, <2>1, ContentsSeq, SlotFacts, HeadTailProperties
<1>4. /\ Tail(Contents) \in Seq(Nat)
      /\ Len(Tail(Contents)) = n_elements - 1
      /\ \A k \in 1 .. n_elements - 1 : Tail(Contents)[k] = Contents[k + 1]
  BY <1>1, <1>2, ContentsSeq, HeadTailProperties
<1>5. ASSUME NEW k \in 1 .. n_elements - 1
      PROVE  data'[Slot(k - 1)'] = Contents[k + 1] /\ Contents[k + 1] \in Nat
  <2>1. /\ k - 1 \in 0 .. Size - 1
        /\ k + 1 \in 1 .. n_elements
        /\ (k - 1) + 1 = k /\ (k + 1) - 1 = k
    BY <1>1, FifoAssumption
  <2>2. Slot(k - 1)' = Slot(k)
    BY <1>1, <2>1, SlotShift
  <2>3. Contents[k + 1] = data[Slot(k)]
    BY <1>1, <2>1, ContentsSeq
  <2>4. Contents[k + 1] \in Nat
    BY <1>1, <2>1, ContentsSeq, ElementOfSeq
  <2> QED BY <2>2, <2>3, <2>4
<1>6. /\ Contents' \in Seq(Nat)
      /\ Len(Contents') = n_elements - 1
      /\ \A k \in 1 .. n_elements - 1 : Contents'[k] = Contents[k + 1]
  <2>1. Contents' = [k \in 1 .. n_elements - 1 |-> data'[Slot(k - 1)']]
    BY DEF Contents
  <2>2. Contents' = [k \in 1 .. n_elements - 1 |-> Contents[k + 1]]
    BY <2>1, <1>5
  <2>3. n_elements - 1 \in Nat
    BY <1>1
  <2> QED BY <2>2, <2>3, <1>5
<1>7. Contents' = Tail(Contents)
  BY <1>4, <1>5, <1>6, SeqEqual
<1> QED BY <1>2, <1>3, <1>7
\* Storing a byte is Append on the abstraction.
LEMMA ContentsAppend ==
  ASSUME IInv, WriteStore
  PROVE  Contents' = Append(Contents, Head(bytes))
<1>1. TypeOK /\ n_elements \in 0 .. Size - 1 /\ n_elements' = n_elements + 1
  BY FifoAssumption DEF IInv, TypeOK, WriteStore, byte_fifo_is_available
<1>2. Head(bytes) \in Nat
  BY <1>1, HeadTailProperties DEF WriteStore, TypeOK
<1> DEFINE grown == Append(Contents, Head(bytes))
<1>3. /\ grown \in Seq(Nat)
      /\ Len(grown) = n_elements + 1
      /\ \A k \in 1 .. n_elements : grown[k] = Contents[k]
      /\ grown[n_elements + 1] = Head(bytes)
  BY <1>1, <1>2, ContentsSeq, AppendProperties
<1> HIDE DEF grown
<1>4. ASSUME NEW k \in 1 .. n_elements + 1
      PROVE  data'[Slot(k - 1)] = grown[k]
  <2>1. k - 1 \in 0 .. Size - 1
    BY <1>1, FifoAssumption
  <2>2. CASE k = n_elements + 1
    <3>1. Slot(k - 1) = write_index
      BY <1>1, <2>2 DEF IInv, RingHoldsNewest
    <3>2. data'[write_index] = Head(bytes)
      BY <1>1 DEF WriteStore, TypeOK
    <3> QED BY <3>1, <3>2, <2>2, <1>3
  <2>3. CASE k # n_elements + 1
    <3>1. k \in 1 .. n_elements /\ k - 1 # n_elements
      BY <1>1, <2>3
    <3>2. Slot(k - 1) # write_index
      BY <1>1, <2>1, <3>1, SlotFacts, FifoAssumption DEF IInv, RingHoldsNewest
    <3>3. data'[Slot(k - 1)] = data[Slot(k - 1)]
      BY <1>1, <2>1, <3>2, SlotFacts DEF WriteStore, TypeOK
    <3> QED BY <1>1, <1>3, <3>1, <3>3, ContentsSeq
  <2> QED BY <2>2, <2>3
<1>5. Contents' = [k \in 1 .. n_elements + 1 |-> grown[k]]
  <2>1. Contents' = [k \in 1 .. n_elements + 1 |-> data'[Slot(k - 1)]]
    BY <1>1 DEF Contents, Slot, WriteStore
  <2> QED BY <2>1, <1>4
<1>6. grown = [k \in 1 .. n_elements + 1 |-> grown[k]]
  BY <1>1, <1>3, LenProperties
<1> QED BY <1>5, <1>6 DEF grown

\* Every critical section of the ring is a step of the queue, or no step.
LEMMA StepSimulation ==
  IInv /\ IInv' /\ [Next]_vars => [Queue!Next]_(Queue!vars)
<1> SUFFICES ASSUME IInv, IInv', [Next]_vars
             PROVE  Queue!Next \/ UNCHANGED Queue!vars
  BY DEF IInv
<1>0. TypeOK /\ TypeOK'
  BY DEF IInv
<1>1. ASSUME NEW len \in 0 .. MaxBatch, WriteCall(len) PROVE Queue!Submit
  <2>1. bytes = <<>> /\ bytes' \in Seq(Nat)
    BY <1>0, <1>1 DEF WriteCall, IInv, BatchContinues, TypeOK
  <2> QED BY <1>1, <2>1, ContentsFrame DEF WriteCall, reader, Queue!Submit
<1>2. CASE WriteStore
  <2>1. Len(Contents) < Size
    BY <1>0, <1>2, ContentsSeq DEF WriteStore, byte_fifo_is_available
  <2>2. Queue!Accept
    BY <1>2, <2>1, ContentsAppend DEF WriteStore, reader, Queue!Accept
  <2> QED BY <2>2 DEF Queue!Next
<1>3. CASE WriteDrop
  <2>1. n_elements = Size /\ n_elements > 0
    BY <1>0, <1>3, FifoAssumption DEF WriteDrop, byte_fifo_is_available, TypeOK
  <2>2. Contents' = Tail(Contents)
    BY <1>0, <1>3, <2>1, ContentsTail DEF WriteDrop
  <2>3. Len(Contents) = Size
    BY <1>0, <2>1, ContentsSeq
  <2>4. Queue!Evict
    BY <1>3, <2>2, <2>3 DEF WriteDrop, reader, Queue!Evict
  <2> QED BY <2>4 DEF Queue!Next
<1>4. CASE WriteReturn
  BY <1>4, ContentsFrame DEF WriteReturn, reader, Queue!vars
<1>5. ASSUME NEW len \in 0 .. MaxLen, ReadCall(len) PROVE Queue!Request
  BY <1>5, ContentsFrame DEF ReadCall, writer, Queue!Request
<1>6. CASE ReadTake
  <2>1. /\ Contents # <<>>
        /\ Head(Contents) = data[read_index]
        /\ Contents' = Tail(Contents)
    BY <1>0, <1>6, ContentsTail DEF ReadTake
  <2>2. Queue!Take
    BY <1>6, <2>1 DEF ReadTake, writer, Queue!Take
  <2> QED BY <2>2 DEF Queue!Next
<1>7. CASE ReadReturn
  BY <1>7, ContentsFrame DEF ReadReturn, writer, Queue!vars
<1>8. CASE byte_fifo_reset
  <2>1. Contents' = <<>>
    BY <1>8 DEF byte_fifo_reset, Contents
  <2>2. Queue!Clear
    BY <1>8, <2>1 DEF byte_fifo_reset, writer, reader, Queue!Clear
  <2> QED BY <2>2 DEF Queue!Next
<1>9. CASE UNCHANGED vars
  BY <1>9, ContentsFrame DEF vars, writer, reader, Queue!vars
<1> QED
  BY <1>1, <1>2, <1>3, <1>4, <1>5, <1>6, <1>7, <1>8, <1>9
  DEF Next, Producer, Consumer, Queue!Next

\* byte_fifo.c implements the bounded drop-oldest queue: what a caller sees of
\* the ring is what it would see of that queue, byte by byte.
THEOREM RefinesQueue == Spec => ImplementsQueue
<1>1. Init => Queue!Init
  <2>1. Init => Contents = <<>>
    BY DEF Init, Contents
  <2> QED BY <2>1 DEF Init, Queue!Init
<1> QED
  BY <1>1, Invariance, StepSimulation, PTL DEF Spec, ImplementsQueue, Queue!Spec
=============================================================================
