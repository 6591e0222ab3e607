----------------------------- MODULE ReadSerial -----------------------------
(***************************************************************************)
(* read_serial of serial_modbus_main.c: the platform.read the driver gives *)
(* nanomodbus.  It polls the receive fifo until count bytes were read or   *)
(* the deadline of the call has passed, while the receive callback fills   *)
(* the fifo.  The fifo is the queue ByteFifo is proved to implement.       *)
(*                                                                         *)
(* Time: a call reads the clock several times and only ever compares it    *)
(* with its own deadline timestamp_timeout, so the clock is the position   *)
(* of now relative to the deadline.  It may move at any point of the call. *)
(***************************************************************************)
EXTENDS Integers, Sequences

CONSTANTS
  Byte,     \* values of a byte on the line
  RxSize,   \* size of rx_fifo
  BufSize   \* size of the caller's buffer (msg.buf of nanomodbus)

ASSUME ReadSerialAssumption ==
  /\ RxSize \in Nat \ {0}
  /\ BufSize \in Nat \ {0}
  /\ Byte # {}

VARIABLES
  rx,            \* contents of rx_fifo, oldest first
  mem,           \* the buffer that buf points into
  pc,            \* where the call is
  base,          \* buf, as an index of mem
  count,         \* bytes asked for
  clk,           \* now, relative to timestamp_timeout
  read_bytes,    \* bytes read by the finished polls
  n_bytes_read,  \* bytes read by the byte_fifo_read under way
  ret,           \* return value of the last call
  got, polls     \* history: bytes taken by the call, polls that took some

call == <<base, count, got, polls>>
vars == <<rx, mem, pc, clk, read_bytes, n_bytes_read, ret, call>>

ETIMEDOUT == 110

Init ==
  /\ rx = <<>>
  /\ mem \in [0 .. BufSize - 1 -> {CHOOSE b \in Byte : TRUE}]
  /\ pc = "idle"
  /\ base = 0 /\ count = 0
  /\ clk = "before"
  /\ read_bytes = 0 /\ n_bytes_read = 0
  /\ ret = 0
  /\ got = <<>> /\ polls = 0
-----------------------------------------------------------------------------
\* Mutant of Receive: a full fifo grows.
ReceiveGrows(b) ==
  /\ rx' = Append(rx, b)
  /\ UNCHANGED <<mem, pc, clk, read_bytes, n_bytes_read, ret, call>>

\* serdev_serial_recv hands one byte to the fifo, which drops its oldest byte
\* when it is full.
Receive(b) ==
  /\ rx' = IF Len(rx) < RxSize THEN Append(rx, b) ELSE Append(Tail(rx), b)
  /\ UNCHANGED <<mem, pc, clk, read_bytes, n_bytes_read, ret, call>>

\* byte_timeout_ms = 0: the call empties the fifo and returns.  The result is
\* not recorded: flush of nanomodbus.c ignores it.
Flush ==
  /\ pc = "idle"
  /\ rx' = <<>>
  /\ UNCHANGED <<mem, pc, clk, read_bytes, n_bytes_read, ret, call>>

\* byte_timeout_ms > 0: the deadline is computed from the clock.
Start(b, c) ==
  /\ pc = "idle"
  /\ pc' = "while"
  /\ base' = b /\ count' = c
  /\ clk' = "before"
  /\ read_bytes' = 0 /\ n_bytes_read' = 0
  /\ got' = <<>> /\ polls' = 0
  /\ UNCHANGED <<rx, mem, ret>>

\* Mutant of While: the deadline does not end the loop.
WhileNoDeadline ==
  /\ pc = "while"
  /\ pc' = IF read_bytes < count THEN "byte_fifo_read" ELSE "check"
  /\ n_bytes_read' = 0
  /\ UNCHANGED <<rx, mem, clk, read_bytes, ret, call>>

\* The loop condition, evaluated after every msleep.
While ==
  /\ pc = "while"
  /\ pc' = IF read_bytes < count /\ clk = "before"
             THEN "byte_fifo_read" ELSE "check"
  /\ n_bytes_read' = 0
  /\ UNCHANGED <<rx, mem, clk, read_bytes, ret, call>>

\* Mutant of Take: every poll asks for count bytes again.
TakeIgnoresLeft ==
  /\ pc = "byte_fifo_read"
  /\ n_bytes_read < count
  /\ rx # <<>>
  /\ mem' = [mem EXCEPT ![base + n_bytes_read] = Head(rx)]
  /\ rx' = Tail(rx)
  /\ n_bytes_read' = n_bytes_read + 1
  /\ got' = Append(got, Head(rx))
  /\ polls' = IF n_bytes_read = 0 THEN polls + 1 ELSE polls
  /\ UNCHANGED <<pc, base, count, clk, read_bytes, ret>>

\* Mutant of Take: the index is advanced before the store.
TakeSkipsFirst ==
  /\ pc = "byte_fifo_read"
  /\ n_bytes_read < count - read_bytes
  /\ rx # <<>>
  /\ mem' = [mem EXCEPT ![base + n_bytes_read + 1] = Head(rx)]
  /\ rx' = Tail(rx)
  /\ n_bytes_read' = n_bytes_read + 1
  /\ got' = Append(got, Head(rx))
  /\ polls' = IF n_bytes_read = 0 THEN polls + 1 ELSE polls
  /\ UNCHANGED <<pc, base, count, clk, read_bytes, ret>>

\* byte_fifo_read takes one byte.  Each poll stores from the start of buf.
Take ==
  /\ pc = "byte_fifo_read"
  /\ n_bytes_read < count - read_bytes
  /\ rx # <<>>
  /\ mem' = [mem EXCEPT ![base + n_bytes_read] = Head(rx)]
  /\ rx' = Tail(rx)
  /\ n_bytes_read' = n_bytes_read + 1
  /\ got' = Append(got, Head(rx))
  /\ polls' = IF n_bytes_read = 0 THEN polls + 1 ELSE polls
  /\ UNCHANGED <<pc, base, count, clk, read_bytes, ret>>

\* byte_fifo_read returns; the call sleeps before it looks again.
EndPoll ==
  /\ pc = "byte_fifo_read"
  /\ n_bytes_read < count - read_bytes => rx = <<>>
  /\ read_bytes' = read_bytes + n_bytes_read
  /\ pc' = "while"
  /\ UNCHANGED <<rx, mem, clk, n_bytes_read, ret, call>>

\* The clock is read once more; a passed deadline wins over what was read.
Return ==
  /\ pc = "check"
  /\ ret' = IF clk = "after" THEN -ETIMEDOUT ELSE read_bytes
  /\ pc' = "idle"
  /\ UNCHANGED <<rx, mem, clk, read_bytes, n_bytes_read, call>>

\* Time passes.
Tick ==
  /\ pc # "idle"
  /\ \/ clk = "before" /\ clk' \in {"at", "after"}
     \/ clk = "at" /\ clk' = "after"
  /\ UNCHANGED <<rx, mem, pc, read_bytes, n_bytes_read, ret, call>>

Step == While \/ Take \/ EndPoll \/ Return

Next ==
  \/ \E b \in Byte : Receive(b)
  \/ Flush
  \/ \E b \in 0 .. BufSize, c \in 0 .. BufSize : b + c <= BufSize /\ Start(b, c)
  \/ Step
  \/ Tick

Spec == Init /\ [][Next]_vars

\* The caller's thread keeps running and time keeps passing.
FairSpec == Spec /\ WF_vars(Step) /\ WF_vars(Tick)
-----------------------------------------------------------------------------
Returned == pc = "idle"

TypeOK ==
  /\ rx \in Seq(Byte) /\ Len(rx) <= RxSize
  /\ mem \in [0 .. BufSize - 1 -> Byte]
  /\ pc \in {"idle", "while", "byte_fifo_read", "check"}
  /\ base \in 0 .. BufSize /\ count \in 0 .. BufSize
  /\ clk \in {"before", "at", "after"}
  /\ read_bytes \in Nat /\ n_bytes_read \in Nat
  /\ ret \in Int
  /\ got \in Seq(Byte) /\ polls \in Nat

\* read_serial never stores outside the bytes it was asked for, and its two
\* counts add up to the bytes it has taken out of the fifo.
StaysInBuffer ==
  /\ base + count <= BufSize
  /\ pc = "byte_fifo_read" =>
       /\ read_bytes + n_bytes_read <= count
       /\ read_bytes + n_bytes_read = Len(got)
  /\ pc # "byte_fifo_read" => read_bytes = Len(got) /\ read_bytes <= count

\* A call that found all its bytes in one poll returns them in order.
SinglePollExact ==
  Returned /\ polls = 1 /\ ret >= 0 =>
    \A i \in 1 .. Len(got) : mem[base + i - 1] = got[i]

\* Every call ends, even when no byte ever comes.
CallReturns == ~Returned ~> Returned

\* serial_modbus_main.c, 81: "keep reading until all expected bytes were read":
\* a call that reports count bytes delivered those count bytes.
DeliversWhatItReports ==
  Returned /\ ret = count =>
    \A i \in 1 .. count : mem[base + i - 1] = got[i]
=============================================================================
