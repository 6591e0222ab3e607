------------------------------ MODULE ByteFifo ------------------------------
(***************************************************************************)
(* The receive fifo of the driver (serial_driver/byte_fifo.c): a ring of   *)
(* Size bytes shared by two threads.                                       *)
(*                                                                         *)
(*   - the producer is the serdev receive callback, which calls            *)
(*     byte_fifo_write with the bytes the line delivered;                  *)
(*   - the consumer is the thread that holds modbus_lock: it calls         *)
(*     byte_fifo_read or byte_fifo_reset (through read_serial).            *)
(*                                                                         *)
(* fifo->lock is taken and released once per byte, so one action is one    *)
(* critical section and the two loops interleave between any two bytes.    *)
(*                                                                         *)
(* A byte is modelled by its position in the received stream (1, 2, ...),  *)
(* which is what order, loss and duplication are stated with; 0 is the     *)
(* byte memset leaves.                                                     *)
(***************************************************************************)
EXTENDS Naturals, Sequences

CONSTANTS
  Size,         \* fifo->size (BUFFER_LENGTH in the driver)
  MaxReceived,  \* bound: bytes the line delivers in all
  MaxBatch,     \* bound: bytes of one receive callback
  MaxLen        \* bound: bytes one byte_fifo_read asks for

ASSUME FifoAssumption ==
  /\ Size \in Nat \ {0}
  /\ MaxReceived \in Nat
  /\ MaxBatch \in Nat
  /\ MaxLen \in Nat

VARIABLES
  \* struct byte_fifo_t
  data, write_index, read_index, n_elements,
  \* byte_fifo_write, in the receive callback
  writing, bytes, n_bytes_overwritten,
  \* byte_fifo_read, in the holder of modbus_lock
  reading, max_len, buffer,
  \* history: stream length, last byte handed to the consumer, and the number
  \* of bytes taken, reported overwritten by finished writes, and reset away
  received, last_out, taken, reported, flushed

fifo == <<data, write_index, read_index, n_elements>>
writer == <<writing, bytes, n_bytes_overwritten>>
reader == <<reading, max_len, buffer>>
history == <<received, last_out, taken, reported, flushed>>
vars == <<fifo, writer, reader, history>>

Index == 0 .. Size - 1

\* Mutant of Advance: the wrap test is off by one.
AdvanceLate(i) == IF i <= Size - 1 THEN i + 1 ELSE 0

\* (i < (fifo->size - 1)) ? i + 1 : 0
Advance(i) == IF i < Size - 1 THEN i + 1 ELSE 0

\* byte_fifo_is_available: the test byte_fifo_write makes under the lock.
byte_fifo_is_available == n_elements < Size

Init ==
  /\ data = [i \in Index |-> 0]
  /\ write_index = 0
  /\ read_index = 0
  /\ n_elements = 0
  /\ writing = FALSE
  /\ bytes = <<>>
  /\ n_bytes_overwritten = 0
  /\ reading = FALSE
  /\ max_len = 0
  /\ buffer = <<>>
  /\ received = 0
  /\ last_out = 0
  /\ taken = 0
  /\ reported = 0
  /\ flushed = 0
-----------------------------------------------------------------------------
(* The producer: byte_fifo_write(fifo, bytes, len).                        *)

WriteCall(len) ==
  /\ ~writing
  /\ received + len <= MaxReceived
  /\ writing' = TRUE
  /\ bytes' = [i \in 1 .. len |-> received + i]
  /\ received' = received + len
  /\ n_bytes_overwritten' = 0
  /\ UNCHANGED <<fifo, reader, last_out, taken, reported, flushed>>

\* One iteration of the loop that finds room.
WriteStore ==
  /\ writing
  /\ bytes # <<>>
  /\ byte_fifo_is_available
  /\ data' = [data EXCEPT ![write_index] = Head(bytes)]
  /\ write_index' = Advance(write_index)
  /\ n_elements' = n_elements + 1
  /\ bytes' = Tail(bytes)
  /\ UNCHANGED <<read_index, writing, n_bytes_overwritten, reader, history>>

\* Mutant of WriteDrop: the read index stays on the dropped byte.
WriteDropKeepsIndex ==
  /\ writing
  /\ bytes # <<>>
  /\ ~byte_fifo_is_available
  /\ n_elements' = n_elements - 1
  /\ n_bytes_overwritten' = n_bytes_overwritten + 1
  /\ UNCHANGED <<data, write_index, read_index, writing, bytes, reader, history>>

\* Mutant of WriteDrop: the loss is not counted.
WriteDropUncounted ==
  /\ writing
  /\ bytes # <<>>
  /\ ~byte_fifo_is_available
  /\ read_index' = Advance(read_index)
  /\ n_elements' = n_elements - 1
  /\ UNCHANGED <<data, write_index, writer, reader, history>>

\* Mutant of WriteDrop: the newest byte is dropped instead of the oldest.
WriteDropNewest ==
  /\ writing
  /\ bytes # <<>>
  /\ ~byte_fifo_is_available
  /\ bytes' = Tail(bytes)
  /\ n_bytes_overwritten' = n_bytes_overwritten + 1
  /\ UNCHANGED <<fifo, writing, reader, history>>

\* Mutant of WriteDrop: the producer spins until there is room.
WriteDropSpins ==
  /\ writing
  /\ bytes # <<>>
  /\ ~byte_fifo_is_available
  /\ UNCHANGED vars

\* One iteration that finds the ring full: it drops the oldest byte and
\* leaves the byte to store to a later iteration, after an unlock.
WriteDrop ==
  /\ writing
  /\ bytes # <<>>
  /\ ~byte_fifo_is_available
  /\ read_index' = Advance(read_index)
  /\ n_elements' = n_elements - 1
  /\ n_bytes_overwritten' = n_bytes_overwritten + 1
  /\ UNCHANGED <<data, write_index, writing, bytes, reader, history>>

\* The loop ends; the callback reports the bytes overwritten.
WriteReturn ==
  /\ writing
  /\ bytes = <<>>
  /\ writing' = FALSE
  /\ reported' = reported + n_bytes_overwritten
  /\ n_bytes_overwritten' = 0
  /\ UNCHANGED <<fifo, bytes, reader, received, last_out, taken, flushed>>
-----------------------------------------------------------------------------
(* The consumer: byte_fifo_read(fifo, buffer, max_len), byte_fifo_reset.   *)

ReadCall(len) ==
  /\ ~reading
  /\ reading' = TRUE
  /\ max_len' = len
  /\ buffer' = <<>>
  /\ UNCHANGED <<fifo, writer, history>>

ReadTake ==
  /\ reading
  /\ Len(buffer) < max_len
  /\ n_elements > 0
  /\ buffer' = Append(buffer, data[read_index])
  /\ read_index' = Advance(read_index)
  /\ n_elements' = n_elements - 1
  /\ last_out' = data[read_index]
  /\ taken' = taken + 1
  /\ UNCHANGED <<data, write_index, writer, reading, max_len,
                 received, reported, flushed>>

\* max_len bytes were read, or the ring was found empty.
ReadReturn ==
  /\ reading
  /\ Len(buffer) < max_len => n_elements = 0
  /\ reading' = FALSE
  /\ UNCHANGED <<fifo, writer, max_len, buffer, history>>

\* Mutant of byte_fifo_reset: the read index is not reset.
ResetKeepsReadIndex ==
  /\ ~reading
  /\ write_index' = 0
  /\ n_elements' = 0
  /\ data' = [i \in Index |-> 0]
  /\ flushed' = flushed + n_elements
  /\ UNCHANGED <<read_index, writer, reader, received, last_out, taken, reported>>

byte_fifo_reset ==
  /\ ~reading
  /\ write_index' = 0
  /\ read_index' = 0
  /\ n_elements' = 0
  /\ data' = [i \in Index |-> 0]
  /\ flushed' = flushed + n_elements
  /\ UNCHANGED <<writer, reader, received, last_out, taken, reported>>
-----------------------------------------------------------------------------
Producer ==
  \/ \E len \in 0 .. MaxBatch : WriteCall(len)
  \/ WriteStore
  \/ WriteDrop
  \/ WriteReturn

Consumer ==
  \/ \E len \in 0 .. MaxLen : ReadCall(len)
  \/ ReadTake
  \/ ReadReturn
  \/ byte_fifo_reset

Next == Producer \/ Consumer

Spec == Init /\ [][Next]_vars

(***************************************************************************)
(* A thread inside a call keeps running: nothing in the loops blocks but   *)
(* fifo->lock, which is held for one byte at a time.  Nobody is bound to   *)
(* make a call.                                                            *)
(***************************************************************************)
Fairness ==
  /\ WF_vars(WriteStore \/ WriteDrop \/ WriteReturn)
  /\ WF_vars(ReadTake \/ ReadReturn)

FairSpec == Spec /\ Fairness
-----------------------------------------------------------------------------
(* Derived state.                                                          *)

\* The slot k places after the read index.
Slot(k) ==
  IF read_index + k < Size THEN read_index + k ELSE read_index + k - Size

\* How many bytes of the stream have been stored in the ring so far.
Accepted == received - Len(bytes)

\* The bytes in the ring, oldest first.
Contents == [k \in 1 .. n_elements |-> data[Slot(k - 1)]]

Queue == INSTANCE ByteQueue WITH queue <- Contents, Byte <- Nat
-----------------------------------------------------------------------------
(* Properties.                                                             *)

TypeOK ==
  /\ data \in [Index -> Nat]
  /\ write_index \in Index
  /\ read_index \in Index
  /\ n_elements \in 0 .. Size
  /\ writing \in BOOLEAN
  /\ bytes \in Seq(Nat)
  /\ n_bytes_overwritten \in Nat
  /\ reading \in BOOLEAN
  /\ max_len \in Nat
  /\ buffer \in Seq(Nat)
  /\ received \in Nat
  /\ last_out \in Nat
  /\ taken \in Nat
  /\ reported \in Nat
  /\ flushed \in Nat

\* byte_fifo_write: the ring always holds the newest bytes accepted, in the
\* order received, without a gap and without a repetition, however the two
\* loops, the drops and the resets interleave.
RingHoldsNewest ==
  /\ write_index = Slot(n_elements)
  /\ n_elements <= Accepted
  /\ \A k \in 0 .. n_elements - 1 :
       data[Slot(k)] = Accepted - n_elements + k + 1

\* byte_fifo_read: a byte handed to the consumer is never handed out again
\* and no older byte follows it; what is left in the ring is newer.
DeliveredInOrder ==
  /\ last_out <= Accepted - n_elements
  /\ \A i, j \in 1 .. Len(buffer) : i < j => buffer[i] < buffer[j]
  /\ \A i \in 1 .. Len(buffer) : buffer[i] <= last_out

\* byte_fifo_write's return value: every byte the ring accepted was read, is
\* still there, was thrown away by a reset, or was counted as overwritten.
Accounting ==
  Accepted = taken + reported + n_bytes_overwritten + flushed + n_elements

\* The ring implements the bounded drop-oldest queue.
ImplementsQueue == Queue!Spec

\* byte_fifo_write: the iteration that drops a byte does not shorten the
\* remaining batch, yet every call ends, and so does byte_fifo_read.
TransfersEnd ==
  /\ writing ~> ~writing
  /\ reading ~> ~reading
=============================================================================
