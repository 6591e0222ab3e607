---------------------------- MODULE ModbusClient ----------------------------
(***************************************************************************)
(* The nanomodbus RTU client as the driver uses it: one nmbs_t, requests   *)
(* 3 (nmbs_read_holding_registers) and 16 (nmbs_write_multiple_registers), *)
(* answers read piece by piece with recv, which calls read_serial.         *)
(*                                                                         *)
(* The device at the other end and the line are external: the device       *)
(* answers a request, answers with an exception, or not at all, sooner or  *)
(* later; the line loses or garbles bytes.                                 *)
(***************************************************************************)
EXTENDS ModbusFrames

CONSTANTS
  Requests,     \* requests a caller may make
  Addresses,    \* registers the device has
  Exceptions,   \* codes an exception answer may carry
  Noise,        \* bytes a garbled byte may turn into
  RxSize,       \* size of rx_fifo
  BufSize,      \* size of msg.buf
  MaxRequests,  \* bound: calls
  MaxFaults     \* bound: faults of line and device

ASSUME ClientAssumption ==
  /\ RxSize \in Nat \ {0} /\ BufSize \in Nat \ {0}
  /\ \A r \in Requests :
       /\ r.fc \in {3, 16} /\ r.address \in Nat /\ r.quantity \in Nat
       /\ r.data \in Seq(DataByte)
       /\ Len(r.data) = IF r.fc = 3 THEN 0 ELSE 2 * r.quantity
  /\ Noise \subseteq DataByte
  /\ Exceptions \subseteq 0 .. 255

VARIABLES
  \* read_serial, see module ReadSerial; mem is nmbs.msg.buf
  rx, mem, pc, base, count, clk, read_bytes, n_bytes_read, ret, got, polls,
  \* the client call under way
  stage,         \* where it is
  req,           \* its arguments
  buf_idx,       \* msg.buf_idx
  byte_timeout,  \* nmbs.byte_timeout_ms: the byte timeout, or the read timeout
  registers,     \* the caller's register array, as bytes
  err,           \* its result
  \* external: device and line
  device,        \* contents of its registers
  inbox,         \* requests that have reached it
  line,          \* bytes of its answers on their way
  \* history and bounds
  answers,       \* checksummed parts of all answers
  quiet,         \* nothing was under way when the request was flushed
  calls, faults

serial == <<rx, mem, pc, base, count, clk, read_bytes, n_bytes_read, ret, got, polls>>
client == <<stage, req, buf_idx, byte_timeout, registers, err, quiet, calls>>
world == <<device, inbox, line, answers, faults>>
vars == <<serial, client, world>>

RS == INSTANCE ReadSerial WITH Byte <- {<<0>>}

\* The bytes of msg.buf from i to j - 1.
Buf(i, j) == [k \in 1 .. j - i |-> mem[i + k - 1]]

Init ==
  /\ RS!Init
  /\ stage = "idle"
  /\ req = NoRequest
  /\ buf_idx = 0
  /\ byte_timeout = "byte"
  /\ registers = <<>>
  /\ err = "NONE"
  /\ device = [a \in Addresses |-> put_2(0)]
  /\ inbox = <<>>
  /\ line = <<>>
  /\ answers = {}
  /\ quiet = TRUE
  /\ calls = 0
  /\ faults = 0
-----------------------------------------------------------------------------
(* The request.                                                            *)

\* The call ends with result e.
Finish(e) == stage' = "done" /\ err' = e

\* A caller enters one of the two functions.
Request(r) ==
  /\ stage = "idle"
  /\ calls < MaxRequests
  /\ calls' = calls + 1
  /\ req' = r
  /\ registers' = <<>>
  /\ IF ArgumentsOK(r) THEN stage' = "flush" /\ err' = "NONE"
                       ELSE Finish("INVALID_ARGUMENT")
  /\ UNCHANGED <<serial, buf_idx, byte_timeout, quiet, world>>

\* Mutant of MsgStateReq: nothing is flushed.
MsgStateReqNoFlush ==
  /\ stage = "flush"
  /\ stage' = "send"
  /\ buf_idx' = 0
  /\ quiet' = (line = <<>> /\ inbox = <<>>)
  /\ UNCHANGED <<serial, req, byte_timeout, registers, err, calls, world>>

\* msg_state_req.
MsgStateReq ==
  /\ stage = "flush"
  /\ RS!Flush
  /\ stage' = "send"
  /\ buf_idx' = 0
  /\ quiet' = (line = <<>> /\ inbox = <<>>)
  /\ UNCHANGED <<req, byte_timeout, registers, err, calls, world>>

\* What send makes of a write_serial that is short or fails.
SendErrors == {"TIMEOUT", "TRANSPORT"}

\* write_serial: serdev_device_write_buf takes the whole frame, a part of it,
\* which the device ignores, or none.  res is what send makes of it.
write_serial(res) ==
  \/ /\ res = "NONE"
     /\ inbox' = Append(inbox, req)
     /\ UNCHANGED faults
  \/ /\ res \in SendErrors
     /\ faults < MaxFaults
     /\ faults' = faults + 1
     /\ UNCHANGED inbox

\* put_req_header .. send_msg.
SendMsg ==
  LET frame == RequestBody(req) \o crc_calc(RequestBody(req)) IN
  /\ stage = "send"
  /\ mem' = [i \in DOMAIN mem |-> IF i < Len(frame) THEN frame[i + 1] ELSE mem[i]]
  /\ buf_idx' = Len(frame)
  /\ \E res \in {"NONE"} \cup SendErrors :
       /\ write_serial(res)
       /\ IF res = "NONE" THEN stage' = "recv" /\ UNCHANGED err ELSE Finish(res)
  /\ UNCHANGED <<rx, pc, base, count, clk, read_bytes, n_bytes_read, ret, got, polls,
                 req, byte_timeout, registers, quiet, calls,
                 device, line, answers>>
-----------------------------------------------------------------------------
(* The answer.                                                             *)

\* recv(nmbs, n), at the place called s: msg.buf + buf_idx is filled.
recv(s, idx, n) ==
  /\ stage' = s
  /\ buf_idx' = idx
  /\ RS!Start(idx, n)

\* What recv makes of the return value of read_serial.
RecvResult ==
  CASE ret = count              -> "NONE"
    [] ret < count /\ ret >= 0  -> "TIMEOUT"
    [] OTHER                    -> "TRANSPORT"

\* recv at s has returned.
Returned(s) == stage = s /\ pc = "idle"

\* recv failed: every caller passes its error on.
RecvFails(s) ==
  /\ Returned(s)
  /\ RecvResult # "NONE"
  /\ Finish(RecvResult)
  /\ byte_timeout' = "byte"
  /\ UNCHANGED <<serial, buf_idx, req, registers, quiet, calls, world>>

Reject(s, e) ==
  /\ Returned(s)
  /\ Finish(e)
  /\ UNCHANGED <<serial, buf_idx, byte_timeout, req, registers, quiet, calls, world>>

\* recv_msg_header: the first byte is awaited for the read timeout.
RecvMsgHeader ==
  /\ stage = "recv"
  /\ byte_timeout' = "read"
  /\ recv("unit_id", 0, 1)
  /\ UNCHANGED <<req, registers, err, quiet, calls, world>>

RecvUnitId ==
  /\ Returned("unit_id")
  /\ RecvResult = "NONE"
  /\ byte_timeout' = "byte"
  /\ recv("fc", 1, 1)
  /\ UNCHANGED <<req, registers, err, quiet, calls, world>>

\* recv_res_header, after the two header bytes.
RecvResHeader ==
  /\ Returned("fc")
  /\ RecvResult = "NONE"
  /\ \/ /\ mem[0] # unit_id
        /\ Reject("fc", "INVALID_UNIT_ID")
     \/ /\ mem[0] = unit_id
        /\ mem[1] = <<req.fc>>
        /\ IF req.fc = 3 THEN recv("registers_bytes", 2, 1) ELSE recv("echo", 2, 4)
        /\ UNCHANGED <<byte_timeout, req, registers, err, quiet, calls, world>>
     \/ /\ mem[0] = unit_id
        /\ mem[1] = <<req.fc + 128>>
        /\ recv("exception", 2, 1)
        /\ UNCHANGED <<byte_timeout, req, registers, err, quiet, calls, world>>
     \/ /\ mem[0] = unit_id
        /\ mem[1] \notin {<<req.fc>>, <<req.fc + 128>>}
        /\ Reject("fc", "INVALID_RESPONSE")

\* Mutant of RecvRegistersBytes: the byte count is not limited.
RecvRegistersBytesUnchecked ==
  /\ Returned("registers_bytes")
  /\ RecvResult = "NONE"
  /\ recv("registers", 3, mem[2][1])
  /\ UNCHANGED <<byte_timeout, req, registers, err, quiet, calls, world>>

\* recv_read_registers_res, the byte count.
RecvRegistersBytes ==
  /\ Returned("registers_bytes")
  /\ RecvResult = "NONE"
  /\ \/ /\ mem[2][1] > 250
        /\ Reject("registers_bytes", "INVALID_RESPONSE")
     \/ /\ mem[2][1] <= 250
        /\ recv("registers", 3, mem[2][1])
        /\ UNCHANGED <<byte_timeout, req, registers, err, quiet, calls, world>>

\* The registers are stored in the caller's array before the checksum of the
\* frame and the byte count are looked at.
RecvRegisters ==
  /\ Returned("registers")
  /\ RecvResult = "NONE"
  /\ registers' = Buf(3, 3 + 2 * (mem[2][1] \div 2))
  /\ recv("footer", 3 + 2 * (mem[2][1] \div 2), 2)
  /\ UNCHANGED <<byte_timeout, req, err, quiet, calls, world>>

\* recv_write_single_register_res, which also reads the answer to request 16.
RecvEcho ==
  /\ Returned("echo")
  /\ RecvResult = "NONE"
  /\ recv("footer", 6, 2)
  /\ UNCHANGED <<byte_timeout, req, registers, err, quiet, calls, world>>

RecvException ==
  /\ Returned("exception")
  /\ RecvResult = "NONE"
  /\ recv("footer", 3, 2)
  /\ UNCHANGED <<byte_timeout, req, registers, err, quiet, calls, world>>

\* The checks after a good checksum.
Verdict ==
  CASE mem[1] = <<req.fc + 128>> ->
         IF mem[2][1] \in 1 .. 4 THEN "EXCEPTION" ELSE "INVALID_RESPONSE"
    [] mem[1] = <<req.fc>> /\ req.fc = 3 ->
         IF mem[2] = <<2 * req.quantity>> THEN "NONE" ELSE "INVALID_RESPONSE"
    [] OTHER ->
         IF Buf(2, 6) = put_2(req.address) \o put_2(req.quantity)
           THEN "NONE" ELSE "INVALID_RESPONSE"

\* Mutant of RecvMsgFooter: the checksum is not compared.
RecvMsgFooterNoCrc ==
  /\ Returned("footer")
  /\ RecvResult = "NONE"
  /\ Reject("footer", Verdict)

\* Mutant of RecvMsgFooter: the byte count of the answer is not compared.
RecvMsgFooterNoVerdict ==
  /\ Returned("footer")
  /\ RecvResult = "NONE"
  /\ Reject("footer",
            IF Buf(buf_idx, buf_idx + 2) = crc_calc(Buf(0, buf_idx))
              THEN "NONE" ELSE "CRC")

\* recv_msg_footer and the rest of the function that called it.
RecvMsgFooter ==
  /\ Returned("footer")
  /\ RecvResult = "NONE"
  /\ Reject("footer",
            IF Buf(buf_idx, buf_idx + 2) = crc_calc(Buf(0, buf_idx))
              THEN Verdict ELSE "CRC")

\* The caller has its result.
Return ==
  /\ stage = "done"
  /\ stage' = "idle"
  /\ quiet' = TRUE
  /\ UNCHANGED <<serial, buf_idx, byte_timeout, req, registers, err, calls, world>>

Stages == {"unit_id", "fc", "registers_bytes", "registers", "echo", "exception", "footer"}

\* A step of the thread that is inside the client.
ClientStep ==
  \/ MsgStateReq \/ SendMsg
  \/ RecvMsgHeader \/ RecvUnitId \/ RecvResHeader \/ RecvRegistersBytes
  \/ RecvRegisters \/ RecvEcho \/ RecvException \/ RecvMsgFooter
  \/ \E s \in Stages : RecvFails(s)
  \/ RS!Step /\ UNCHANGED <<client, world>>
-----------------------------------------------------------------------------
(* External: device, line and clock.                                       *)

\* The device carries out a request, or refuses it, and answers.  An answer
\* may be lost as a whole.
DeviceAnswer ==
  LET r == Head(inbox)
      Deliver(body) ==
        \/ line' = line \o body \o crc_calc(body) /\ UNCHANGED faults
        \/ faults < MaxFaults /\ faults' = faults + 1 /\ UNCHANGED line
  IN
  /\ inbox # <<>>
  /\ inbox' = Tail(inbox)
  /\ \/ /\ Touched(r) \subseteq Addresses
        /\ device' = Apply(device, r)
        /\ answers' = answers \cup {AnswerBody(r, Stored(device, r))}
        /\ Deliver(AnswerBody(r, Stored(device, r)))
     \/ /\ ~(Touched(r) \subseteq Addresses)
        /\ \E e \in Exceptions : Deliver(<< unit_id, <<r.fc + 128>>, <<e>> >>)
        /\ UNCHANGED <<device, answers>>
  /\ UNCHANGED <<serial, client>>

\* A byte arrives, unchanged or garbled.
LineDeliver ==
  /\ line # <<>>
  /\ line' = Tail(line)
  /\ \/ RS!Receive(Head(line)) /\ UNCHANGED faults
     \/ /\ faults < MaxFaults
        /\ faults' = faults + 1
        /\ \/ \E b \in Noise : RS!Receive(b)
           \/ UNCHANGED serial
  /\ UNCHANGED <<client, device, inbox, answers>>

Time == RS!Tick /\ UNCHANGED <<client, world>>

\* All the calls of the bound are made and nothing is under way.
Terminating ==
  /\ stage = "idle"
  /\ calls = MaxRequests
  /\ inbox = <<>> /\ line = <<>>
  /\ UNCHANGED vars

Next ==
  \/ \E r \in Requests : Request(r)
  \/ ClientStep
  \/ Return
  \/ DeviceAnswer
  \/ LineDeliver
  \/ Time
  \/ Terminating

Spec == Init /\ [][Next]_vars
-----------------------------------------------------------------------------
(* Properties.                                                             *)

TypeOK ==
  /\ Len(rx) <= RxSize
  /\ DOMAIN mem = 0 .. BufSize - 1
  /\ base + count <= BufSize
  /\ stage \in Stages \cup {"idle", "flush", "send", "recv", "done"}
  /\ buf_idx \in 0 .. BufSize
  /\ byte_timeout \in {"byte", "read"}
  /\ err \in {"NONE", "INVALID_ARGUMENT", "TIMEOUT", "TRANSPORT", "CRC",
              "INVALID_UNIT_ID", "INVALID_RESPONSE", "EXCEPTION"}

Succeeded == stage = "done" /\ err = "NONE"

\* A call that succeeds hands out what the device put in one answer: no mix of
\* two answers, of old and new contents of msg.buf, or of garbled bytes, even
\* though read_serial stores the bytes of each poll over those of the last.
IntactAnswer == Succeeded => AnswerBody(req, registers) \in answers

\* If no earlier request or answer is under way when msg_state_req flushes,
\* the result is true: the registers read are those of the device, a write
\* that succeeds was carried out, and an exception means it was refused.
FreshAnswer ==
  stage = "done" /\ quiet => Truthful(err, req, registers, device)

\* The client keeps its promise.
phase ==
  CASE stage \in {"idle", "done"}  -> stage
    [] stage \in {"flush", "send"} -> "busy"
    [] OTHER                       -> "sent"

Promise == INSTANCE Transaction
             WITH req <- IF stage = "idle" THEN NoRequest ELSE req,
                  registers <- IF Succeeded THEN registers ELSE <<>>,
                  err <- IF stage = "done" THEN err ELSE "NONE"

\* nanomodbus over read_serial implements the transaction of the abstract
\* specification, whatever line, device and clock do.
ImplementsTransaction == Promise!Spec

\* The registers of an answer fit the array the caller has for the quantity it
\* asked for: recv_read_registers_res stores as many as the answer says it has.
StoreFitsCaller == req.fc = 3 => Len(registers) <= 2 * req.quantity
=============================================================================
