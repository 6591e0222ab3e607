------------------------------ MODULE ModbusBus ------------------------------
(***************************************************************************)
(* An RTU bus: a nanomodbus client, a nanomodbus server with address 1     *)
(* that is polled for ever, and another server, unit 2, which is external. *)
(* Everyone hears everyone.  A frame reaches its listeners whole, loses a  *)
(* byte or all of them, or has a byte garbled; a receiver may give up      *)
(* whenever it has too few bytes.  platform.read and platform.write, the   *)
(* line and the clock are external: read hands out the bytes asked for, or *)
(* those there are when its time is up.                                    *)
(***************************************************************************)
EXTENDS ModbusPdu, Bags

CONSTANTS
  Plans,      \* what may happen: [calls, faults], the sets each call is chosen
              \* from, and bound: faults of the line
  Failures,   \* exception codes a callback may end in
  Value,      \* the data the callbacks give
  Noise       \* bytes a garbled byte may turn into

VARIABLES
  client,    \* its nmbs_t and the call under way
  server,    \* its nmbs_t and how far nmbs_server_poll is
  other,     \* external: requests unit 2 has heard
  \* history and bounds
  sent,      \* bag of requests sent
  executed,  \* bag of requests the server has called callbacks for
  served,    \* the last answer of the server in this call: [request, frame]
  plan, calls, faults

vars == <<client, server, other, sent, executed, served, plan, calls, faults>>

uint8_t == 0 .. 255
uint16_t == 0 .. 65535

\* The arguments have the types of the parameters: uint8_t, or uint16_t for
\* addresses, quantities, registers and records.
WellFormed(r) ==
  /\ r.to \in DataByte /\ r.fc \in uint8_t /\ r.data \in Seq(DataByte)
  /\ r.arg \in Seq(IF r.raw \/ r.fc = 43 THEN uint8_t ELSE uint16_t)
  /\ IF r.raw THEN Len(r.arg) = 1
     ELSE /\ r.fc \in Functions
          /\ Len(r.arg) = CASE r.fc \in {20, 21, 43} -> 3 [] r.fc = 23 -> 4 [] OTHER -> 2
          /\ r.fc = 43 => r.arg[1] \in 1 .. 4

ASSUME BusAssumption ==
  /\ CrcByte \in 0 .. 255 /\ Value \in DataByte /\ Noise \subseteq DataByte
  /\ Failures \subseteq 0 .. 255
  /\ PageSize \in 0 .. 246
  /\ DOMAIN Objects \subseteq 0 .. 255
  \* An object larger than an answer would never be sent.
  /\ \A id \in DOMAIN Objects : Objects[id] \in Seq(DataByte) /\ 2 + Len(Objects[id]) <= PageSize
  /\ \A p \in Plans : /\ Len(p.calls) \in Nat
                       /\ \A i \in 1 .. Len(p.calls) : \A r \in p.calls[i] : WellFormed(r)

NoCall == [to |-> <<1>>, fc |-> 0, arg |-> <<>>, data |-> <<>>, raw |-> TRUE]

Polling == [at |-> "req", rx |-> <<>>, buf |-> <<>>, want |-> NoRes]

Idle == [at |-> "idle", r |-> NoCall, rx |-> <<>>, buf |-> <<>>, err |-> "NONE",
         object |-> 0, ids |-> <<>>, fresh |-> FALSE, early |-> FALSE, faults |-> 0]

Unserved == [request |-> <<>>, frame |-> <<>>]

Init ==
  /\ client = Idle
  /\ server = Polling
  /\ other = <<>>
  /\ sent = EmptyBag
  /\ executed = EmptyBag
  /\ served = Unserved
  /\ plan \in Plans
  /\ calls = 0
  /\ faults = 0

\* What may arrive of the frame f.
Arrivals(f) ==
  {f, <<>>} \cup {RemoveAt(f, i) : i \in DOMAIN f}
            \cup {ReplaceAt(f, i, n) : i \in DOMAIN f, n \in Noise}

\* f is put on the line, h arrives.
Transmit(f, h) ==
  /\ h # f => faults < plan.faults
  /\ faults' = IF h = f THEN faults ELSE faults + 1

\* The write fails, nothing arrives.
TransmitFails == faults < plan.faults /\ faults' = faults + 1

SendErrors == {"TIMEOUT", "TRANSPORT"}

\* buf after a recv up to length t, when rx holds enough.
Enough(q, t) == Len(q.buf) + Len(q.rx) >= t
Taken(q, t) == q.buf \o SubSeq(q.rx, 1, t - Len(q.buf))
Left(q, t) == SubSeq(q.rx, t - Len(q.buf) + 1, Len(q.rx))
-----------------------------------------------------------------------------
(* The client.                                                             *)

\* Nothing of an earlier call is under way.
BusQuiet == server.at = "req" /\ server.rx = <<>> /\ server.buf = <<>> /\ other = <<>>

\* The client function r calls, for identification at this object and with so
\* many objects received.
Function(r, object, received) ==
  IF r.raw THEN nmbs_send_raw_pdu(r)
  ELSE CASE r.fc \in {1, 2} -> read_discrete(r)
         [] r.fc \in {3, 4} -> read_registers(r)
         [] r.fc = 5        -> nmbs_write_single_coil(r)
         [] r.fc = 6        -> nmbs_write_single_register(r)
         [] r.fc = 15       -> nmbs_write_multiple_coils(r)
         [] r.fc = 16       -> nmbs_write_multiple_registers(r)
         [] r.fc = 20       -> nmbs_read_file_record(r)
         [] r.fc = 21       -> nmbs_write_file_record(r)
         [] r.fc = 23       -> nmbs_read_write_registers(r)
         [] r.fc = 43 ->
              CASE r.arg[1] = 1 -> nmbs_read_device_identification_basic(r, object)
                [] r.arg[1] = 2 -> nmbs_read_device_identification_regular(r, object)
                [] r.arg[1] = 3 -> nmbs_read_device_identification_extended(r, object, received)
                [] r.arg[1] = 4 -> nmbs_read_device_identification(r, object)

Finish(e) == client' = [client EXCEPT !.at = "done", !.err = e]

\* msg_state_req for the next message of call r, about identification object.
MsgStateReq(r, object, ids, fresh, started) ==
  client' = [client EXCEPT !.at = "send", !.r = r, !.rx = <<>>, !.buf = <<>>,
                           !.err = "NONE", !.object = object, !.ids = ids, !.fresh = fresh /\ BusQuiet,
                           !.early = FALSE, !.faults = started]

\* The identification functions start with a fixed object or the caller's.
FirstObject(r) ==
  IF r.fc # 43 \/ r.raw THEN 0
  ELSE CASE r.arg[1] = 1 -> 0 [] r.arg[1] = 2 -> 3 [] OTHER -> r.arg[2]

Call(r) ==
  /\ client.at = "idle"
  /\ calls' = calls + 1
  /\ served' = Unserved
  /\ IF Function(r, FirstObject(r), 0).bad
       THEN client' = [client EXCEPT !.at = "done", !.r = r, !.err = "INVALID_ARGUMENT"]
       ELSE MsgStateReq(r, FirstObject(r), <<>>, TRUE, faults)
  /\ UNCHANGED <<server, other, sent, executed, plan, faults>>

RequestFrame(r, object) == Frame(r.to, r.fc, Function(r, object, 0).pdu)

\* The writes do not wait for the answer to a broadcast.
AwaitsAnswer(r) == r.to # Broadcast \/ r.raw \/ r.fc \notin {5, 6, 15, 16, 21, 23}

\* send_msg, and what the function does next.
Send ==
  LET r == client.r
      f == RequestFrame(r, client.object)
  IN
  /\ client.at = "send"
  /\ \/ \E h \in Arrivals(f) :
          /\ Transmit(f, h)
          /\ server' = [server EXCEPT !.rx = @ \o h]
          /\ other' = IF h = f /\ r.to = <<2>> THEN Append(other, f) ELSE other
          /\ sent' = sent (+) SetToBag({Body(f)})
          /\ client' = [client EXCEPT !.at = IF AwaitsAnswer(r) THEN "recv" ELSE "done"]
     \/ /\ TransmitFails
        /\ \E e \in SendErrors : Finish(e)
        /\ UNCHANGED <<server, other, sent>>
  /\ UNCHANGED <<executed, served, plan, calls>>

\* What the client is waiting for, and how far it wants to get next.
Awaited == Function(client.r, client.object, Len(client.ids)).res
ClientTarget == AnswerTarget(Awaited, client.buf)

\* The ids of the objects in the answer b.
ObjectIds(b) ==  [i \in 1 .. num(b[8]) |-> num(b[ObjectEnds(b)[i - 1] + 1])]

\* An answer with identification objects is complete, q still to be read: the
\* loops of the identification functions, once round.
Page(b, q) ==
  LET code == client.r.arg[1]
      ids == client.ids \o ObjectIds(b)
      next == IF b[6] = <<0>> THEN 127 ELSE num(b[7])
      Ends(e) ==
        client' = [client EXCEPT !.at = "done", !.err = e, !.buf = b, !.ids = ids, !.rx = q]
  IN
  IF \/ code = 1 /\ Len(ids) > 3
     \/ code = 2 /\ Len(ids) > 4
     \/ code \in {1, 2} /\ ObjectIds(b) = <<>>
    THEN Ends("INVALID_RESPONSE")
  ELSE IF code < 4 /\ next # 127
    THEN MsgStateReq(client.r, next, ids, client.fresh, client.faults)
  ELSE Ends("NONE")

\* recv returns what was asked for.
ClientRecv ==
  LET w == Awaited
      b == Taken(client, ClientTarget)
      rest == Left(client, ClientTarget)
      verdict == AnswerCheck(w, b)
  IN
  /\ client.at = "recv"
  /\ Enough(client, ClientTarget)
  /\ \/ /\ verdict = "more"
        /\ client' = [client EXCEPT !.buf = b, !.rx = rest]
     \/ /\ verdict = "NONE" /\ w.form = "objects"
        /\ Page(b, rest)
     \/ /\ verdict # "more" /\ ~(verdict = "NONE" /\ w.form = "objects")
        /\ client' = [client EXCEPT !.at = "done", !.err = verdict, !.buf = b, !.rx = rest]
  /\ UNCHANGED <<server, other, sent, executed, served, plan, calls, faults>>

\* Mutant of ClientTimeout: the wait begins again.
ClientTimeoutWaits ==
  /\ client.at = "recv"
  /\ ~Enough(client, ClientTarget)
  /\ client' = [client EXCEPT !.buf = <<>>, !.rx = <<>>]
  /\ UNCHANGED <<server, other, sent, executed, served, plan, calls, faults>>

\* recv returns less: the read timeout, or the byte timeout, is over.
ClientTimeout ==
  /\ client.at = "recv"
  /\ ~Enough(client, ClientTarget)
  /\ client' = [client EXCEPT !.at = "done", !.err = "TIMEOUT", !.rx = <<>>, !.early = ~BusQuiet]
  /\ UNCHANGED <<server, other, sent, executed, served, plan, calls, faults>>

Return ==
  /\ client.at = "done"
  /\ client' = [Idle EXCEPT !.rx = client.rx]
  /\ UNCHANGED <<server, other, sent, executed, served, plan, calls, faults>>

ClientStep == Send \/ ClientRecv \/ ClientTimeout \/ Return
-----------------------------------------------------------------------------
(* The server: nmbs_server_poll, called again and again.  m is the message *)
(* as it is after the next recv, v what the receiver makes of it, q the    *)
(* bytes that remain to be read.                                           *)

ServerTarget ==
  IF server.at = "req" THEN RequestTarget(server.buf) ELSE AnswerTarget(server.want, server.buf)

Verdict(m) ==
  IF server.at = "res" THEN AnswerCheck(server.want, m)
  ELSE IF Len(m) = 2 /\ Code(m) \notin Functions THEN "unknown"
  ELSE IF Len(m) <= 2 THEN "more"
  ELSE RequestCheck(m)

\* A poll ends.
EndPoll(q) == server' = [Polling EXCEPT !.rx = q]

ServerReceives(m, v, q) ==
  /\ v = "more"
  /\ server' = [server EXCEPT !.buf = m, !.rx = q]
  /\ UNCHANGED <<client, other, sent, executed, served, plan, calls, faults>>

\* Mutant of ServerRejects: nothing is flushed.
ServerRejectsNoFlush(m, v, q) ==
  /\ v \notin {"more", "NONE", "unknown"}
  /\ EndPoll(q)
  /\ UNCHANGED <<client, other, sent, executed, served, plan, calls, faults>>

\* Any error but a timeout ends the poll with a flush.
ServerRejects(m, v, q) ==
  /\ v \notin {"more", "NONE", "unknown"}
  /\ EndPoll(<<>>)
  /\ UNCHANGED <<client, other, sent, executed, served, plan, calls, faults>>

\* The answer to another unit's request is complete, and forgotten.
ServerOverhears(m, v, q) ==
  /\ server.at = "res"
  /\ v = "NONE"
  /\ EndPoll(q)
  /\ UNCHANGED <<client, other, sent, executed, served, plan, calls, faults>>

\* send_msg of the answer f to the request b.
ServerSends(b, f, q) ==
  /\ \/ \E h \in Arrivals(f) :
          /\ Transmit(f, h)
          /\ client' = [client EXCEPT !.rx = @ \o h]
          /\ served' = [request |-> b, frame |-> f]
          /\ EndPoll(q)
     \/ /\ TransmitFails
        /\ \E e \in SendErrors : EndPoll(IF e = "TIMEOUT" THEN q ELSE <<>>)
        /\ UNCHANGED <<client, served>>
  /\ UNCHANGED <<other, sent, plan, calls>>

ignored(m) == m[1] \notin {<<1>>, Broadcast}

\* A function the server does not know: what follows is flushed.
ServerDefault(m, v) ==
  /\ v = "unknown"
  /\ IF ignored(m) \/ m[1] = Broadcast
       THEN EndPoll(<<>>) /\ UNCHANGED <<client, other, sent, served, plan, calls, faults>>
       ELSE ServerSends(m, send_exception_msg(m, 1), <<>>)
  /\ UNCHANGED executed

\* A request for another unit: its answer is to be received.
ServerIgnores(m, handler, q) ==
  /\ ignored(m)
  /\ server' = [at |-> "res", rx |-> q, buf |-> <<>>, want |-> handler.overheard]
  /\ UNCHANGED <<client, other, sent, executed, served, plan, calls, faults>>

\* A check of the handler fails: an exception, to a broadcast too.
ServerRefuses(m, handler, q) ==
  /\ ~ignored(m) /\ handler.refusal # 0
  /\ ServerSends(Body(m), send_exception_msg(m, handler.refusal), q)
  /\ UNCHANGED executed

\* A callback fails, or the map lacks an object: an exception, even after
\* other callbacks of the same request have succeeded.
ServerFails(m, handler, q) ==
  /\ ~ignored(m) /\ handler.refusal = 0
  /\ ~(Code(m) = 43 /\ m[1] = Broadcast)
  /\ \E e \in Failures \cup (IF Code(m) = 43 THEN {MapFailure(m)} \ {0} ELSE {}) :
       ServerSends(Body(m), send_exception_msg(m, e), q)
  /\ executed' = executed (+) SetToBag({Body(m)})

\* The callbacks succeed: the answer.
ServerExecutes(m, handler, q) ==
  /\ ~ignored(m) /\ handler.refusal = 0
  /\ m[1] # Broadcast
  /\ Code(m) = 43 => MapFailure(m) = 0
  /\ ServerSends(Body(m), Frame(m[1], Code(m), handler.answer), q)
  /\ executed' = executed (+) SetToBag({Body(m)})

\* A broadcast has no answer; that of function 43 no effect either.
ServerBroadcast(m, handler, q) ==
  /\ m[1] = Broadcast /\ handler.refusal = 0
  /\ EndPoll(q)
  /\ executed' = IF Code(m) = 43 THEN executed ELSE executed (+) SetToBag({Body(m)})
  /\ UNCHANGED <<client, other, sent, served, plan, calls, faults>>

\* A request whose checksum is right.
ServerHandles(m, q) ==
  LET handler == handle_req_fc(m, Value) IN
  \/ ServerIgnores(m, handler, q)
  \/ ServerRefuses(m, handler, q)
  \/ ServerFails(m, handler, q)
  \/ ServerExecutes(m, handler, q)
  \/ ServerBroadcast(m, handler, q)

\* recv returns less than was asked for: no flush.
ServerTimeout ==
  /\ ~Enough(server, ServerTarget)
  /\ server.at = "res" \/ server.buf # <<>> \/ server.rx # <<>>
  /\ EndPoll(<<>>)
  /\ UNCHANGED <<client, other, sent, executed, served, plan, calls, faults>>

ServerStep ==
  \/ /\ Enough(server, ServerTarget)
     /\ LET m == Taken(server, ServerTarget)
            q == Left(server, ServerTarget)
            v == Verdict(m)
        IN \/ ServerReceives(m, v, q)
           \/ ServerRejects(m, v, q)
           \/ ServerOverhears(m, v, q)
           \/ ServerDefault(m, v)
           \/ server.at = "req" /\ v = "NONE" /\ ServerHandles(m, q)
  \/ ServerTimeout
-----------------------------------------------------------------------------
(* External: unit 2 answers a request that is complete, any with an        *)
(* exception perhaps, or does not answer at all.                           *)

OtherAnswers ==
  LET b == Head(other)
      complete == Code(b) \in Functions /\ RequestTarget(b) = 0 /\ Len(b) = RequestEnd(b) + 2
      answers == IF complete
                   THEN {Frame(b[1], Code(b), handle_req_fc(b, Value).answer)} ELSE {}
  IN
  /\ other # <<>>
  /\ other' = Tail(other)
  /\ \/ \E g \in answers \cup {send_exception_msg(b, 2)} : \E h \in Arrivals(g) :
          /\ Transmit(g, h)
          /\ client' = [client EXCEPT !.rx = @ \o h]
          /\ server' = [server EXCEPT !.rx = @ \o h]
     \/ UNCHANGED <<client, server, faults>>
  /\ UNCHANGED <<sent, executed, served, plan, calls>>

\* All the calls of the bound are made and nothing is under way.
Terminating ==
  /\ client.at = "idle" /\ calls = Len(plan.calls) /\ BusQuiet
  /\ UNCHANGED vars

Next ==
  \/ /\ calls < Len(plan.calls)
     /\ \E r \in plan.calls[calls + 1] : Call(r)
  \/ ClientStep
  \/ ServerStep
  \/ OtherAnswers
  \/ Terminating

(***************************************************************************)
(* The thread inside a client function keeps running, and platform.read    *)
(* returns when its time is up; nothing is assumed of the servers.         *)
(***************************************************************************)
Spec == Init /\ [][Next]_vars /\ WF_vars(ClientStep)
-----------------------------------------------------------------------------
(* Properties.                                                             *)

Done(results) == client.at = "done" /\ client.err \in results
ToServer == client.r.to = <<1>> /\ client.err # "INVALID_ARGUMENT"

\* If nothing was under way when msg_state_req flushed, a result is the
\* server's: the answer was given to the request just sent and arrived
\* unharmed, and an identification lists every object the server has.
EndToEnd ==
  Done({"NONE", "EXCEPTION"}) /\ ToServer /\ client.fresh =>
    /\ served = [request |-> Body(RequestFrame(client.r, client.object)), frame |-> client.buf]
    /\ client.r.fc = 43 /\ ~client.r.raw /\ client.r.arg[1] < 4 /\ client.err = "NONE" =>
         client.ids = SetToSortSeq(Listed(RequestFrame(client.r, FirstObject(client.r))), <)

\* The server calls a callback only for a request addressed to it, and no more
\* often than it was sent, whatever is lost, garbled, late or overheard.
ExecutedWasSent ==
  /\ executed \sqsubseteq sent
  /\ \A b \in BagToSet(executed) : b[1] \in {<<1>>, Broadcast}

\* Without faults of the line the server starts to read at the first byte of a
\* message, though it must guess where the messages of others end.
InSync ==
  faults = 0 /\ server.at = "req" /\ server.buf = <<>> /\ server.rx # <<>> =>
    LET i == SelectInSeq(server.rx, LAMBDA x : x[1] = 257)
    IN i > 2 /\ CrcOK(SubSeq(server.rx, 1, i))

\* On a bus that was quiet and has no faults, a call to the server ends with
\* the answer or an exception if the client waits long enough.
CalmCallAnswered ==
  client.at = "done" /\ ToServer /\ ~client.r.raw
    /\ client.fresh /\ ~client.early /\ faults = client.faults =>
      client.err \in {"NONE", "EXCEPTION"}

\* What is received fits msg.buf, 260 bytes.  handle_write_multiple_registers
\* looks at the byte count too late: 2 bytes more.  The objects of an
\* identification have no such bound.
RecvFitsBuffer ==
  /\ server.at = "req" /\ Len(server.buf) >= 2 =>
       ServerTarget <= IF Code(server.buf) = 16 THEN 262 ELSE 260
  /\ server.at = "res" /\ server.want.form # "objects" => ServerTarget <= 260
  /\ client.at = "recv" /\ (client.r.raw \/ client.r.fc # 43) => ClientTarget <= 260

\* Every call of the client ends, an identification of many answers too.
CallReturns == client.at # "idle" ~> client.at = "idle"
=============================================================================
