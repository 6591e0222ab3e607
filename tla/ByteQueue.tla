----------------------------- MODULE ByteQueue -----------------------------
(***************************************************************************)
(* What byte_fifo.c promises: a bounded first-in first-out queue of bytes  *)
(* between one producer and one consumer.  When it is full the oldest byte *)
(* makes room for the newest one.  Producer and consumer interleave byte   *)
(* by byte, because the lock of the fifo is released after each byte.      *)
(***************************************************************************)
EXTENDS Naturals, Sequences

CONSTANTS
  Size,   \* capacity of the queue
  Byte    \* the values it transports

VARIABLES
  queue,   \* the bytes waiting, oldest first
  bytes,   \* what the producer's current call still has to hand over
  buffer   \* what the consumer's current call has got so far

vars == <<queue, bytes, buffer>>

Init ==
  /\ queue = <<>>
  /\ bytes = <<>>
  /\ buffer = <<>>

\* The producer calls with a new batch.
Submit ==
  /\ bytes = <<>>
  /\ bytes' \in Seq(Byte)
  /\ UNCHANGED <<queue, buffer>>

\* There is room: one byte of the batch is queued.
Accept ==
  /\ bytes # <<>>
  /\ Len(queue) < Size
  /\ queue' = Append(queue, Head(bytes))
  /\ bytes' = Tail(bytes)
  /\ UNCHANGED buffer

\* There is no room: the oldest byte is lost.
Evict ==
  /\ bytes # <<>>
  /\ Len(queue) = Size
  /\ queue' = Tail(queue)
  /\ UNCHANGED <<bytes, buffer>>

\* The consumer calls with an empty buffer.
Request ==
  /\ buffer' = <<>>
  /\ UNCHANGED <<queue, bytes>>

\* The consumer gets the oldest byte.
Take ==
  /\ queue # <<>>
  /\ buffer' = Append(buffer, Head(queue))
  /\ queue' = Tail(queue)
  /\ UNCHANGED bytes

\* The consumer throws away what is queued.
Clear ==
  /\ queue' = <<>>
  /\ UNCHANGED <<bytes, buffer>>

Next == Submit \/ Accept \/ Evict \/ Request \/ Take \/ Clear

Spec == Init /\ [][Next]_vars

=============================================================================
