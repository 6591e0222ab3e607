------------------------------ MODULE ModbusPdu ------------------------------
(***************************************************************************)
(* The functions of nanomodbus on bytes: what each client function sends   *)
(* and expects, how a receiver cuts a message into pieces and checks it,   *)
(* and what each handler of the server makes of a request.                 *)
(*                                                                         *)
(* A message b is the bytes received so far, b[1] the unit, b[2] the       *)
(* function code.  A receiver asks for bytes up to the length ...Target(b) *)
(* and looks at what it has with ...Check(b): "more" to go on, else the    *)
(* result.  A byte of the checksum that is taken for a number has the      *)
(* value CrcByte.                                                          *)
(***************************************************************************)
EXTENDS ModbusFrames, FiniteSetsExt, SequencesExt

CONSTANTS
  CrcByte,    \* the number a checksum byte is read as
  Callbacks,  \* function codes the server has callbacks for
  Objects,    \* identification objects of the server: id -> bytes
  PageSize    \* bytes of objects in an answer: 253 - 7

num(x) == IF Len(x) = 1 THEN x[1] ELSE CrcByte
get_2(b, i) == 256 * num(b[i]) + num(b[i + 1])

\* The k-th two-byte field after the function code.
Field(b, k) == get_2(b, 2 * k + 1)

Code(b) == num(b[2])
Broadcast == <<0>>

BadQuantity(q, max) == q < 1 \/ q > max
BadRange(address, q) == address + q > 65536
BadRecord(file, record, length, max) == file = 0 \/ record > 9999 \/ length > max

\* Bytes for q coils.
Packed(q) == (q + 7) \div 8

Body(b) == SubSeq(b, 1, Len(b) - 2)
CrcOK(b) == SubSeq(b, Len(b) - 1, Len(b)) = crc_calc(Body(b))
Frame(unit, fc, pdu) == LET p == << unit, <<fc>> >> \o pdu IN p \o crc_calc(p)
-----------------------------------------------------------------------------
(* Answers as the recv_..._res functions receive them, for a client or for *)
(* a server that overhears them; h is the unit and the function code.      *)
(* fixed is the bytes after the function code that are known beforehand,   *)
(* room the objects or bytes there is room for.                            *)

Res(h, form, fixed, room) ==
  [unit |-> h[1], fc |-> h[2], form |-> form, fixed |-> fixed, room |-> room]

recv_read_discrete_res(h) == Res(h, "discrete", <<>>, 0)
recv_read_registers_res(h, quantity) == Res(h, "registers", << <<2 * quantity>> >>, 0)
recv_write_single_coil_res(h, fields) == Res(h, "echo", fields, 0)
recv_write_single_register_res(h, fields) == Res(h, "echo", fields, 0)
recv_write_multiple_coils_res(h, fields) == Res(h, "echo", fields, 0)
recv_write_multiple_registers_res(h, fields) == Res(h, "echo", fields, 0)
\* count is -1 when the registers are not wanted.
recv_read_file_record_res(h, count) == Res(h, "read_file", <<>>, count)
recv_write_file_record_res(h, record) == Res(h, "write_file", record, 0)
recv_read_device_identification_res(h, buffers_count) == Res(h, "objects", <<>>, buffers_count)
nmbs_receive_raw_pdu_response(h, data_out_len) == Res(h, "raw", <<>>, data_out_len)

NoRes == Res(<< <<0>>, 0 >>, "none", <<>>, 0)

IsException(w, b) == Code(b) = w.fc + 128

\* The length of the object whose id and length come after the byte e of b, 0
\* as long as it is not known.
LengthAfter(b, e) == IF e + 2 <= Len(b) THEN num(b[e + 2]) ELSE 0

\* The objects of the answer b that can have begun, having two bytes or more.
Begun(b) == Min({num(b[8]), (Len(b) - 6) \div 2})

\* Where each of them ends, the header at 0.
ObjectEnds(b) ==
  LET after == [e \in Nat |-> e + 2 + LengthAfter(b, e)]
      end[i \in 0 .. Begun(b)] == IF i = 0 THEN 8 ELSE after[end[i - 1]]
  IN end

\* recv_read_device_identification_res receives its objects one by one, first id
\* and length and then the rest, and the checksum: the next of these marks.
\* -1 when an object is longer than res_size_left, which is an uint8_t.
ObjectTarget(b) ==
  LET end == ObjectEnds(b)
      marks == {end[i] : i \in 1 .. Begun(b)} \cup {end[i] + 2 : i \in 0 .. Begun(b)}
      ahead == {t \in marks : t \in Len(b) + 1 .. Len(b) + 255}
  IN IF \E i \in 1 .. Begun(b) : LengthAfter(b, end[i - 1]) > (246 - 2 * i) % 256 THEN -1
     ELSE IF ahead = {} THEN 0 ELSE Min(ahead)

\* How far the receiver wants to get next; 0 when it has the checksum.
AnswerTarget(w, b) ==
  LET Then(fixed, rest) ==   \* a fixed part, the rest, the checksum
        IF Len(b) < fixed THEN fixed
        ELSE IF Len(b) < fixed + rest THEN fixed + rest
        ELSE IF Len(b) < fixed + rest + 2 THEN fixed + rest + 2 ELSE 0
  IN
  IF Len(b) < 2 THEN 2
  ELSE IF IsException(w, b) THEN Then(3, 0)
  ELSE CASE w.form = "echo"    -> Then(6, 0)
         [] w.form = "raw"     -> Then(2, w.room)
         [] w.form = "objects" -> IF Len(b) < 8 THEN 8 ELSE ObjectTarget(b)
         [] OTHER              -> Then(3, IF Len(b) < 3 THEN 0 ELSE num(b[3]))

\* The receivers that take the fields out of the buffer one by one compute the
\* checksum up to the last of them; it differs when that is not the end.
Covered(w, b) ==
  LET n == Len(b) - 2 IN
  CASE w.form = "registers"  -> num(b[3]) % 2 = 0
    [] w.form = "read_file"  -> n >= 5 /\ 5 + ((num(b[4]) - 1) % 256) = n
    [] w.form = "write_file" -> n >= 10 /\ 10 + 2 * get_2(b, 9) = n
    [] OTHER                 -> TRUE

\* The comparisons with the request, after the checksum.
Agrees(w, b) ==
  /\ IsPrefix(w.fixed, SubSeq(b, 3, Len(b) - 2))
  /\ w.form = "read_file" /\ w.room >= 0 =>
       b[5] = <<6>> /\ (num(b[4]) - 1) \div 2 = w.room

BadObjectHeader(b) ==
  \/ b[3] # <<14>>
  \/ num(b[4]) \notin 1 .. 4
  \/ num(b[5]) \notin (1 .. 3) \cup (129 .. 131)
  \/ b[6] \notin {<<0>>, <<255>>}

\* What stops the receiver before the message is complete.
EarlyVerdict(w, b) ==
  LET normal == Len(b) > 2 /\ ~IsException(w, b)
      counted == w.form \in {"discrete", "registers", "read_file", "write_file"}
  IN
  IF \/ Len(b) = 2 /\ b[1] # w.unit
    THEN "INVALID_UNIT_ID"
  ELSE IF \/ Len(b) = 2 /\ Code(b) \notin {w.fc, w.fc + 128}
          \/ /\ normal /\ counted /\ Len(b) = 3
             /\ num(b[3]) > IF w.form = "write_file" THEN 251 ELSE 250
          \/ normal /\ w.form = "objects" /\ Len(b) = 8 /\ BadObjectHeader(b)
          \/ normal /\ w.form = "objects" /\ AnswerTarget(w, b) = -1
    THEN "INVALID_RESPONSE"
  ELSE IF normal /\ w.form = "objects" /\ Len(b) = 8 /\ w.room > 0 /\ num(b[8]) > w.room
    THEN "INVALID_ARGUMENT"
  ELSE "more"

\* Mutant of AnswerCheck: the checksum is not compared.
AnswerCheckNoCrc(w, b) ==
  IF AnswerTarget(w, b) # 0 THEN EarlyVerdict(w, b)
  ELSE IF IsException(w, b) THEN "EXCEPTION"
  ELSE IF Agrees(w, b) THEN "NONE" ELSE "INVALID_RESPONSE"

\* recv_res_header and the function that called it, b having been received.
AnswerCheck(w, b) ==
  IF AnswerTarget(w, b) # 0 THEN EarlyVerdict(w, b)
  ELSE IF ~CrcOK(b) THEN "CRC"
  ELSE IF IsException(w, b)
    THEN IF num(b[3]) \in 1 .. 4 THEN "EXCEPTION" ELSE "INVALID_RESPONSE"
  ELSE IF ~Covered(w, b) THEN "CRC"
  ELSE IF Agrees(w, b) THEN "NONE" ELSE "INVALID_RESPONSE"
-----------------------------------------------------------------------------
(* The client functions.  A call r is [to, fc, arg, data, raw]; a function *)
(* refuses its arguments, or sends pdu after the header and expects res.   *)

Sends(bad, pdu, res) == [bad |-> bad, pdu |-> pdu, res |-> res]

To(r) == <<r.to, r.fc>>
Fields(r) == [i \in 1 .. 2 * Len(r.arg) |-> put_2(r.arg[(i + 1) \div 2])[2 - (i % 2)]]

read_discrete(r) ==
  Sends(BadQuantity(r.arg[2], 2000) \/ BadRange(r.arg[1], r.arg[2]),
        Fields(r), recv_read_discrete_res(To(r)))

read_registers(r) ==
  Sends(BadQuantity(r.arg[2], 125) \/ BadRange(r.arg[1], r.arg[2]),
        Fields(r), recv_read_registers_res(To(r), r.arg[2]))

nmbs_write_single_coil(r) ==
  LET pdu == put_2(r.arg[1]) \o put_2(IF r.arg[2] = 0 THEN 0 ELSE 65280)
  IN Sends(FALSE, pdu, recv_write_single_coil_res(To(r), pdu))

nmbs_write_single_register(r) ==
  Sends(FALSE, Fields(r), recv_write_single_register_res(To(r), Fields(r)))

nmbs_write_multiple_coils(r) ==
  Sends(BadQuantity(r.arg[2], 1968) \/ BadRange(r.arg[1], r.arg[2]),
        Fields(r) \o << <<Packed(r.arg[2])>> >> \o r.data,
        recv_write_multiple_coils_res(To(r), Fields(r)))

nmbs_write_multiple_registers(r) ==
  Sends(BadQuantity(r.arg[2], 123) \/ BadRange(r.arg[1], r.arg[2]),
        Fields(r) \o << <<2 * r.arg[2]>> >> \o r.data,
        recv_write_multiple_registers_res(To(r), Fields(r)))

nmbs_read_file_record(r) ==
  Sends(BadRecord(r.arg[1], r.arg[2], r.arg[3], 124),
        << <<7>>, <<6>> >> \o Fields(r), recv_read_file_record_res(To(r), r.arg[3]))

nmbs_write_file_record(r) ==
  LET pdu == << <<7 + 2 * r.arg[3]>>, <<6>> >> \o Fields(r) \o r.data
  IN Sends(BadRecord(r.arg[1], r.arg[2], r.arg[3], 122),
           pdu, recv_write_file_record_res(To(r), pdu))

\* Mutant of nmbs_read_write_registers: the answer to a write is expected.
ReadWriteExpectsEcho(r) ==
  Sends(BadQuantity(r.arg[2], 125) \/ BadRange(r.arg[1], r.arg[2])
          \/ BadQuantity(r.arg[4], 121) \/ BadRange(r.arg[3], r.arg[4]),
        Fields(r) \o << <<2 * r.arg[4]>> >> \o r.data,
        recv_write_multiple_registers_res(To(r), SubSeq(Fields(r), 5, 8)))

nmbs_read_write_registers(r) ==
  Sends(BadQuantity(r.arg[2], 125) \/ BadRange(r.arg[1], r.arg[2])
          \/ BadQuantity(r.arg[4], 121) \/ BadRange(r.arg[3], r.arg[4]),
        Fields(r) \o << <<2 * r.arg[4]>> >> \o r.data,
        recv_read_registers_res(To(r), r.arg[2]))

\* Device identification, level arg[1] from object arg[2] on, with room for
\* arg[3] objects; object is the one to ask for now, room what is left.
Identification(bad, r, object, room) ==
  Sends(bad, << <<14>>, <<r.arg[1]>>, <<object>> >>,
        recv_read_device_identification_res(To(r), room))

nmbs_read_device_identification_basic(r, object) == Identification(FALSE, r, object, 3)
nmbs_read_device_identification_regular(r, object) == Identification(FALSE, r, object, 4)
nmbs_read_device_identification_extended(r, object, total_received) ==
  Identification(r.arg[2] < 128, r, object, (r.arg[3] - total_received) % 256)
nmbs_read_device_identification(r, object) == Identification(r.arg[2] \in 7 .. 127, r, object, 1)

\* nmbs_receive_raw_pdu_response follows, with room for arg[1] bytes.
nmbs_send_raw_pdu(r) == Sends(FALSE, r.data, nmbs_receive_raw_pdu_response(To(r), r.arg[1]))
-----------------------------------------------------------------------------
(* A request as the server receives it.                                    *)

Functions == {1, 2, 3, 4, 5, 6, 15, 16, 20, 21, 23, 43}
Counted == {15, 16, 20, 21, 23}

\* Fixed part of a request; of some functions its last byte counts the rest.
FixedPart(fc) ==
  CASE fc \in 1 .. 6     -> 4
    [] fc \in {15, 16}   -> 5
    [] fc \in {20, 21}   -> 1
    [] fc = 23           -> 9
    [] fc = 43           -> 3

ByteCount(b) == num(b[2 + FixedPart(Code(b))])

MaxBytes(fc) ==
  CASE fc \in {15, 16} -> 246
    [] fc = 20         -> 245
    [] fc = 21         -> 251
    [] fc = 23         -> 242

RequestEnd(b) == 2 + FixedPart(Code(b)) + IF Code(b) \in Counted THEN ByteCount(b) ELSE 0

\* How far the handler wants to get next; 0 when it has the checksum.
RequestTarget(b) ==
  IF Len(b) < 2 THEN 2
  ELSE IF Len(b) < 2 + FixedPart(Code(b)) THEN 2 + FixedPart(Code(b))
  ELSE IF Len(b) < RequestEnd(b) THEN RequestEnd(b)
  ELSE IF Len(b) < RequestEnd(b) + 2 THEN RequestEnd(b) + 2 ELSE 0

\* The limit of the byte count is checked before the rest is received, by
\* handle_write_multiple_registers after it.
OverLimit(b) ==
  /\ Len(b) > 2 /\ Code(b) \in Counted
  /\ Len(b) = IF Code(b) = 16 THEN RequestEnd(b) ELSE 2 + FixedPart(Code(b))
  /\ ByteCount(b) > MaxBytes(Code(b))

\* Registers are taken out of the buffer in pairs of bytes, so that the
\* checksum of an odd number of bytes is computed one byte short.
OddRegisters(b) == Code(b) \in {16, 23} /\ ByteCount(b) % 2 = 1

\* Mutant of RequestCheck: the checksum is not compared.
RequestCheckNoCrc(b) ==
  IF OverLimit(b) THEN "INVALID_REQUEST"
  ELSE IF RequestTarget(b) # 0 THEN "more" ELSE "NONE"

\* Mutant of RequestCheck: no limit to the byte count.
RequestCheckNoLimit(b) ==
  IF RequestTarget(b) # 0 THEN "more"
  ELSE IF CrcOK(b) /\ ~OddRegisters(b) THEN "NONE" ELSE "CRC"

RequestCheck(b) ==
  IF OverLimit(b) THEN "INVALID_REQUEST"
  ELSE IF RequestTarget(b) # 0 THEN "more"
  ELSE IF CrcOK(b) /\ ~OddRegisters(b) THEN "NONE" ELSE "CRC"
-----------------------------------------------------------------------------
(* The handlers.  refusal is the exception code the checks end in, 0 if    *)
(* they pass; answer what follows the header when the callbacks succeed    *)
(* and fill the data they are asked for with v; overheard the answer that  *)
(* is received if the request is for another unit.                         *)

Handler(refusal, answer, overheard) ==
  [refusal |-> refusal, answer |-> IF refusal = 0 THEN answer ELSE <<>>, overheard |-> overheard]

\* The code of the first check that fails, 0 if none does.
FirstFailure(checks) ==
  LET failed == {i \in DOMAIN checks : checks[i][1]}
  IN IF failed = {} THEN 0 ELSE checks[Min(failed)][2]

NoCallback(fc) == <<fc \notin Callbacks, 1>>
From(b) == <<b[1], Code(b)>>
Data(n, v) == << <<n>> >> \o [i \in 1 .. n |-> v]

handle_read_discrete(b, v) ==
  Handler(FirstFailure(<< <<BadQuantity(Field(b, 2), 2000), 3>>,
                          <<BadRange(Field(b, 1), Field(b, 2)), 2>>, NoCallback(Code(b)) >>),
          Data(Packed(Field(b, 2)), v), recv_read_discrete_res(From(b)))

handle_read_registers(b, v) ==
  Handler(FirstFailure(<< <<BadQuantity(Field(b, 2), 125), 3>>,
                          <<BadRange(Field(b, 1), Field(b, 2)), 2>>, NoCallback(Code(b)) >>),
          Data(2 * Field(b, 2), v), recv_read_registers_res(From(b), Field(b, 2)))

handle_write_single_coil(b) ==
  Handler(FirstFailure(<< NoCallback(5), <<Field(b, 2) \notin {0, 65280}, 3>> >>),
          SubSeq(b, 3, 6), recv_write_single_coil_res(From(b), SubSeq(b, 3, 6)))

handle_write_single_register(b) ==
  Handler(FirstFailure(<< NoCallback(6) >>),
          SubSeq(b, 3, 6), recv_write_single_register_res(From(b), SubSeq(b, 3, 6)))

handle_write_multiple_coils(b) ==
  Handler(FirstFailure(<< <<BadQuantity(Field(b, 2), 1968), 3>>,
                          <<BadRange(Field(b, 1), Field(b, 2)), 2>>,
                          <<ByteCount(b) # Packed(Field(b, 2)), 3>>, NoCallback(15) >>),
          SubSeq(b, 3, 6), recv_write_multiple_coils_res(From(b), SubSeq(b, 3, 6)))

handle_write_multiple_registers(b) ==
  Handler(FirstFailure(<< <<BadQuantity(Field(b, 2), 123), 3>>,
                          <<BadRange(Field(b, 1), Field(b, 2)), 2>>,
                          <<ByteCount(b) # 2 * Field(b, 2), 3>>, NoCallback(16) >>),
          SubSeq(b, 3, 6), recv_write_multiple_registers_res(From(b), SubSeq(b, 3, 6)))

\* The record whose description starts at byte s.
BadSubRequest(b, s, max) ==
  num(b[s]) # 6 \/ BadRecord(get_2(b, s + 1), get_2(b, s + 3), get_2(b, s + 5), max)

handle_read_file_record(b, v) ==
  LET subreq_count == ByteCount(b) \div 7
      start(i) == 7 * i - 3
      size(i) == 2 * get_2(b, start(i) + 5)
      Record(i) == << <<size(i) + 1>>, <<6>> >> \o [k \in 1 .. size(i) |-> v]
      all == FlattenSeq([i \in 1 .. subreq_count |-> Record(i)])
  IN Handler(FirstFailure(<< <<ByteCount(b) % 7 # 0 \/ ByteCount(b) < 7, 3>>,
                             <<\E i \in 1 .. subreq_count : BadSubRequest(b, start(i), 124), 2>>,
                             NoCallback(20) >>),
             << <<Len(all) % 256>> >> \o all, recv_read_file_record_res(From(b), -1))

\* The checks of handle_write_file_record; size is what is left.  A record
\* longer than that makes size, an unsigned number, very large: the walk goes
\* on in the bytes behind the request until one of its checks fails.
WriteRecordFailure(b) ==
  LET walk[size \in 0 .. 255] ==
        LET s == 4 + ByteCount(b) - size
            used == 7 + 2 * get_2(b, s + 5)
        IN IF size = 0 THEN 0
           ELSE IF size < 7 THEN 3
           ELSE IF BadSubRequest(b, s, 122) \/ used > size THEN 2
           ELSE walk[size - used]
  IN IF ByteCount(b) < 7 THEN 3 ELSE walk[ByteCount(b)]

handle_write_file_record(b) ==
  Handler(FirstFailure(<< <<WriteRecordFailure(b) = 3, 3>>, <<WriteRecordFailure(b) = 2, 2>>,
                          NoCallback(21) >>),
          SubSeq(b, 3, 3 + ByteCount(b)), recv_write_file_record_res(From(b), <<>>))

\* An overheard answer is taken for that of a write.
handle_read_write_registers(b, v) ==
  Handler(FirstFailure(<< <<BadQuantity(Field(b, 2), 125), 3>>, <<BadQuantity(Field(b, 4), 123), 3>>,
                          <<ByteCount(b) # 2 * Field(b, 4), 3>>,
                          <<BadRange(Field(b, 1), Field(b, 2)), 2>>,
                          <<BadRange(Field(b, 3), Field(b, 4)), 2>>,
                          NoCallback(16), NoCallback(3) >>),
          Data(2 * Field(b, 2), v), recv_write_multiple_registers_res(From(b), SubSeq(b, 7, 10)))

\* The objects the server has from b's object on.
Listed(b) ==
  LET last == CASE b[4] = <<1>> -> 2 [] b[4] = <<2>> -> 7 [] OTHER -> 255
  IN {id \in DOMAIN Objects : num(b[5]) <= id /\ id <= last}

ObjectBytes(ids) == MapThenSumSet(LAMBDA id : 2 + Len(Objects[id]), ids)

\* The first of them, as many as fit in one answer.
Fitting(b) == {id \in Listed(b) : ObjectBytes({i \in Listed(b) : i <= id}) <= PageSize}

\* The checks of handle_read_device_identification that need the map.
MapFailure(b) ==
  LET code == num(b[4])
      object == num(b[5])
  IN FirstFailure(<<
       <<code = 4 /\ object \notin DOMAIN Objects, 2>>,
       <<code = 1 /\ object > 2, 2>>,
       <<code = 2 /\ object \notin 3 .. 7, 2>>,
       <<code = 3 /\ object < 128, 2>>,
       <<code = 1 /\ \E id \in object .. 2 :
           /\ id \notin DOMAIN Objects
           /\ ObjectBytes({i \in object .. id - 1 : i \in DOMAIN Objects}) <= PageSize, 4>> >>)

Object(id) == << <<id>>, <<Len(Objects[id])>> >> \o Objects[id]

\* The k-th of a set of ids.
Nth(ids, k) == CHOOSE id \in ids : Cardinality({i \in ids : i <= id}) = k

\* One object, or as many as fit, in the order of their ids, and where to go on.
IdentificationPdu(b) ==
  LET page == Fitting(b)
      rest == Listed(b) \ page
  IN << <<14>>, b[4], <<131>> >> \o
     IF b[4] = <<4>> THEN << <<0>>, <<0>>, <<1>> >> \o Object(num(b[5]))
     ELSE << <<IF rest = {} THEN 0 ELSE 255>>, <<IF rest = {} THEN 0 ELSE Min(rest)>>,
             <<Cardinality(page)>> >>
          \o FlattenSeq([k \in 1 .. Cardinality(page) |-> Object(Nth(page, k))])

handle_read_device_identification(b) ==
  Handler(FirstFailure(<< NoCallback(43), <<num(b[3]) # 14, 1>>, <<num(b[4]) \notin 1 .. 4, 3>>,
                          <<num(b[5]) \in 7 .. 127, 2>> >>),
          IF MapFailure(b) = 0 THEN IdentificationPdu(b) ELSE <<>>,
          recv_read_device_identification_res(From(b), 0))

handle_req_fc(b, v) ==
  CASE Code(b) \in {1, 2} -> handle_read_discrete(b, v)
    [] Code(b) \in {3, 4} -> handle_read_registers(b, v)
    [] Code(b) = 5        -> handle_write_single_coil(b)
    [] Code(b) = 6        -> handle_write_single_register(b)
    [] Code(b) = 15       -> handle_write_multiple_coils(b)
    [] Code(b) = 16       -> handle_write_multiple_registers(b)
    [] Code(b) = 20       -> handle_read_file_record(b, v)
    [] Code(b) = 21       -> handle_write_file_record(b)
    [] Code(b) = 23       -> handle_read_write_registers(b, v)
    [] Code(b) = 43       -> handle_read_device_identification(b)

send_exception_msg(b, exception) == Frame(b[1], (Code(b) + 128) % 256, << <<exception>> >>)
=============================================================================
