------------------------- MODULE ModbusClientProofs --------------------------
(***************************************************************************)
(* Proofs about the nanomodbus client over read_serial, for any requests,  *)
(* any device, any fifo and any faults of the line.  The buffer is that of *)
(* the code: nmbs.msg.buf has 260 bytes.                                   *)
(***************************************************************************)
EXTENDS ModbusClient, SequenceTheorems, TLAPS

\* Bytes that are not part of a checksum, and the checksum bytes of P.
PlainBytes == {<<n>> : n \in Nat}
Crcs(P) == {<<256, p>> : p \in P} \cup {<<257, p>> : p \in P}

ExceptionBodies == {<< unit_id, <<fc + 128>>, <<e>> >> : fc \in {3, 16}, e \in Exceptions}
RequestBodies == {RequestBody(r) : r \in Requests}

\* What can be on the line and in the fifo, and what can be in msg.buf.
WireBytes == PlainBytes \cup Crcs(answers \cup ExceptionBodies)
StoredBytes == WireBytes \cup Crcs(RequestBodies)

\* What the device says about the request under way, once it has got it.
FreshBodies ==
  IF inbox # <<>> THEN {}
  ELSE IF Touched(req) \subseteq Addresses THEN {AnswerBody(req, Stored(device, req))}
  ELSE ExceptionBodies
FreshBytes == PlainBytes \cup Crcs(FreshBodies)

\* read_serial stores only what came over the line, and only where it was told.
SerialInv ==
  /\ rx \in Seq(WireBytes) /\ Len(rx) <= RxSize
  /\ mem \in [0 .. BufSize - 1 -> StoredBytes]
  /\ pc \in {"idle", "while", "byte_fifo_read", "check"}
  /\ base \in Nat /\ count \in Nat /\ base + count <= BufSize
  /\ read_bytes \in Nat /\ n_bytes_read \in Nat
  /\ ret \in Int

\* The line carries answers, the device holds registers of two bytes.
WorldInv ==
  /\ line \in Seq(WireBytes)
  /\ inbox \in Seq(Requests)
  /\ DOMAIN device = Addresses
  /\ \A a \in Addresses : device[a][1] \in PlainBytes /\ device[a][2] \in PlainBytes

\* Where the call is, and where in msg.buf the recv under way stores.
StageInv ==
  /\ stage \in Stages \cup {"idle", "flush", "send", "recv", "done"}
  /\ stage \notin Stages => pc = "idle"
  /\ stage # "idle" => req \in Requests
  /\ stage \notin {"idle", "done"} => ArgumentsOK(req)
  /\ buf_idx \in 0 .. BufSize
  /\ byte_timeout \in {"byte", "read"}
  /\ err \in {"NONE", "INVALID_ARGUMENT", "TIMEOUT", "TRANSPORT", "CRC",
              "INVALID_UNIT_ID", "INVALID_RESPONSE", "EXCEPTION"}
  /\ stage \notin {"idle", "done"} => err = "NONE"
  /\ stage # "idle" /\ req.fc # 3 => registers = <<>>
  /\ stage \in Stages => base = buf_idx
  /\ stage = "fc" => base = 1
  /\ stage \in {"registers_bytes", "echo", "exception"} => base = 2
  /\ stage = "registers" => base = 3
  /\ stage = "footer" => base >= 3 /\ count = 2

\* What the bytes before those have been found to be.
HeaderInv ==
  /\ stage \in {"registers_bytes", "registers", "echo", "exception", "footer"} => mem[0] = unit_id
  /\ stage \in {"registers_bytes", "registers"} => mem[1] = <<req.fc>> /\ req.fc = 3
  /\ stage = "registers" => mem[2][1] <= 250
  /\ stage = "echo" => mem[1] = <<req.fc>> /\ req.fc = 16
  /\ stage = "exception" => mem[1] = <<req.fc + 128>>
  /\ stage = "footer" =>
       \/ mem[1] = <<req.fc + 128>> /\ buf_idx = 3
       \/ /\ mem[1] = <<req.fc>> /\ req.fc = 3
          /\ buf_idx = 3 + 2 * (mem[2][1] \div 2) /\ registers = Buf(3, buf_idx)
       \/ mem[1] = <<req.fc>> /\ req.fc = 16 /\ buf_idx = 6

\* Nothing was under way when the call flushed: then nothing but the answer to
\* its request comes, and the byte a recv is judged by came in that recv.
QuietInv ==
  /\ stage = "send" /\ quiet => inbox = <<>> /\ line = <<>> /\ rx = <<>>
  /\ stage \in Stages \cup {"recv"} /\ quiet =>
       /\ inbox \in {<<>>, <<req>>}
       /\ line \in Seq(FreshBytes) /\ rx \in Seq(FreshBytes)
       /\ inbox = <<>> /\ req.fc = 16 /\ Touched(req) \subseteq Addresses =>
            Stored(device, req) = req.data
  /\ stage = "footer" /\ quiet =>
       /\ pc = "byte_fifo_read" /\ n_bytes_read > 0 => mem[base] \in FreshBytes
       /\ pc # "idle" /\ read_bytes > 0 => mem[base] \in FreshBytes
       /\ pc = "idle" /\ ret > 0 => mem[base] \in FreshBytes

\* The result: an answer the device gave, and on a quiet line the truth.
ResultInv ==
  /\ IntactAnswer
  /\ stage = "done" /\ quiet /\ err = "NONE" => inbox = <<>>
  /\ FreshAnswer

IInv == SerialInv /\ WorldInv /\ StageInv /\ HeaderInv /\ QuietInv /\ ResultInv
-----------------------------------------------------------------------------
(* Bytes and frames.                                                       *)

\* A checksum byte tells which bytes it covers.
LEMMA CrcUnique ==
  /\ \A n, p : <<n>> # <<256, p>>
  /\ \A p, q : <<256, p>> = <<256, q>> => p = q
  /\ \A p, q : <<256, p>> # <<257, q>>
OBVIOUS

\* Only the bytes in P have their checksum among plain bytes and those of P.
LEMMA CrcCovers ==
  ASSUME NEW P, NEW p, <<256, p>> \in PlainBytes \cup Crcs(P)
  PROVE  p \in P
<1>1. <<256, p>> \notin PlainBytes
  BY CrcUnique DEF PlainBytes
<1>2. PICK q \in P : <<256, p>> = <<256, q>>
  BY <1>1, CrcUnique DEF Crcs
<1> QED BY <1>2, CrcUnique

\* Every byte has a number.
LEMMA ByteValue ==
  ASSUME NEW b \in StoredBytes
  PROVE  b[1] \in Nat
<1>1. CASE b \in PlainBytes
  BY <1>1 DEF PlainBytes
<1>2. ASSUME NEW P, b \in Crcs(P) PROVE b[1] \in Nat
  BY <1>2 DEF Crcs
<1> QED BY <1>1, <1>2 DEF StoredBytes, WireBytes

\* Bytes of data, numbers of two bytes.
LEMMA PlainData ==
  /\ DataByte \subseteq PlainBytes
  /\ \A n \in Nat : <<n>> \in PlainBytes
  /\ \A n \in Nat : put_2(n) \in Seq(PlainBytes) /\ Len(put_2(n)) = 2
<1>1. DataByte \subseteq PlainBytes
  BY DEF DataByte, PlainBytes
<1>2. \A n \in Nat : <<n>> \in PlainBytes
  BY DEF PlainBytes
<1>3. ASSUME NEW n \in Nat PROVE put_2(n) \in Seq(PlainBytes) /\ Len(put_2(n)) = 2
  <2>1. n \div 256 \in Nat /\ n % 256 \in Nat
    OBVIOUS
  <2>2. <<n \div 256>> \in PlainBytes /\ <<n % 256>> \in PlainBytes
    BY <1>2, <2>1
  <2> QED BY <2>2 DEF put_2
<1> QED BY <1>1, <1>2, <1>3

\* What follows a header leaves it in place.
LEMMA Concat ==
  \A s, t \in Seq(PlainBytes) : Len(s) >= 2 =>
    /\ s \o t \in Seq(PlainBytes) /\ Len(s \o t) >= 2
    /\ Len(s \o t) = Len(s) + Len(t) /\ (s \o t)[2] = s[2]
OBVIOUS

\* A header of two bytes and two numbers of two bytes.
LEMMA ConcatHeader ==
  ASSUME NEW h \in Seq(PlainBytes), Len(h) = 2, NEW m \in Nat, NEW n \in Nat
  PROVE  LET s == h \o put_2(m) \o put_2(n) IN
         s \in Seq(PlainBytes) /\ Len(s) >= 2 /\ Len(s) = 6 /\ s[2] = h[2]
<1> DEFINE a == put_2(m)
           q == put_2(n)
<1>1. a \in Seq(PlainBytes) /\ q \in Seq(PlainBytes) /\ Len(a) = 2 /\ Len(q) = 2
  BY PlainData, Zenon
<1>2. Len(h) >= 2
  OBVIOUS
<1> HIDE DEF a, q
<1>3. /\ h \o a \in Seq(PlainBytes) /\ Len(h \o a) >= 2
      /\ Len(h \o a) = Len(h) + Len(a) /\ (h \o a)[2] = h[2]
  BY <1>1, <1>2, Concat, Zenon
<1>4. /\ h \o a \o q \in Seq(PlainBytes) /\ Len(h \o a \o q) >= 2
      /\ Len(h \o a \o q) = Len(h \o a) + Len(q) /\ (h \o a \o q)[2] = (h \o a)[2]
  BY <1>1, <1>3, Concat, Zenon
<1>5. Len(h \o a \o q) = 6
  BY <1>1, <1>3, <1>4
<1> QED BY <1>3, <1>4, <1>5, Zenon DEF a, q

\* The same with data after it.
LEMMA ConcatData ==
  ASSUME NEW h \in Seq(PlainBytes), Len(h) = 2, NEW m \in Nat, NEW n \in Nat,
         NEW d \in Seq(PlainBytes)
  PROVE  LET s == h \o put_2(m) \o put_2(n) \o d IN
         s \in Seq(PlainBytes) /\ Len(s) = 6 + Len(d) /\ s[2] = h[2]
<1> DEFINE s == h \o put_2(m) \o put_2(n)
<1>1. s \in Seq(PlainBytes) /\ Len(s) >= 2 /\ Len(s) = 6 /\ s[2] = h[2]
  BY ConcatHeader, Zenon
<1> HIDE DEF s
<1>2. s \o d \in Seq(PlainBytes) /\ Len(s \o d) = Len(s) + Len(d) /\ (s \o d)[2] = s[2]
  BY <1>1, Concat, Zenon
<1>3. Len(s \o d) = 6 + Len(d)
  BY <1>1, <1>2
<1> QED BY <1>1, <1>2, <1>3, Zenon DEF s

\* A request on the line, before its checksum.
LEMMA RequestShape ==
  ASSUME NEW r \in Requests
  PROVE  /\ RequestBody(r) \in Seq(PlainBytes)
         /\ RequestBody(r)[2] = <<r.fc>>
         /\ Len(RequestBody(r)) = IF r.fc = 3 THEN 6 ELSE 7 + 2 * r.quantity
<1>1. /\ r.fc \in {3, 16} /\ r.address \in Nat /\ r.quantity \in Nat
      /\ r.data \in Seq(DataByte)
      /\ Len(r.data) = IF r.fc = 3 THEN 0 ELSE 2 * r.quantity
  BY ClientAssumption
<1> DEFINE h == << unit_id, <<r.fc>> >>
           d == IF r.fc = 3 THEN <<>> ELSE << <<2 * r.quantity>> >> \o r.data
           s == h \o put_2(r.address) \o put_2(r.quantity) \o d
<1>2. h \in Seq(PlainBytes) /\ Len(h) = 2 /\ h[2] = <<r.fc>>
  <2>1. unit_id \in PlainBytes /\ <<r.fc>> \in PlainBytes
    BY <1>1, PlainData DEF unit_id
  <2> QED BY <2>1
<1>3. d \in Seq(PlainBytes) /\ Len(d) = IF r.fc = 3 THEN 0 ELSE 1 + 2 * r.quantity
  <2>1. << <<2 * r.quantity>> >> \in Seq(PlainBytes)
    BY <1>1, PlainData
  <2>2. r.data \in Seq(PlainBytes)
    BY <1>1, PlainData
  <2>3. CASE r.fc = 3
    BY <2>3
  <2>4. CASE r.fc # 3
    <3>1. d = << <<2 * r.quantity>> >> \o r.data
      BY <2>4
    <3> QED BY <1>1, <2>1, <2>2, <2>4, <3>1
  <2> QED BY <2>3, <2>4
<1>4. s \in Seq(PlainBytes) /\ Len(s) = 6 + Len(d) /\ s[2] = h[2]
  <2> HIDE DEF h, d
  <2> QED BY <1>1, <1>2, <1>3, ConcatData, Zenon
<1>5. RequestBody(r) = s
  BY DEF RequestBody
<1> HIDE DEF h, d, s
<1>6. Len(s) = IF r.fc = 3 THEN 6 ELSE 7 + 2 * r.quantity
  BY <1>1, <1>3, <1>4
<1> QED BY <1>2, <1>4, <1>5, <1>6, Zenon

\* An answer on the line, before its checksum.
LEMMA AnswerShape ==
  ASSUME NEW r \in Requests, NEW data \in Seq(PlainBytes)
  PROVE  /\ AnswerBody(r, data) \in Seq(PlainBytes)
         /\ AnswerBody(r, data)[2] = <<r.fc>>
         /\ Len(AnswerBody(r, data)) = IF r.fc = 3 THEN 3 + Len(data) ELSE 6
<1>1. r.fc \in {3, 16} /\ r.address \in Nat /\ r.quantity \in Nat
  BY ClientAssumption
<1>2. CASE r.fc = 3
  <2> DEFINE h == << unit_id, <<3>>, <<2 * r.quantity>> >>
  <2>1. unit_id \in PlainBytes /\ <<3>> \in PlainBytes /\ <<2 * r.quantity>> \in PlainBytes
    BY <1>1, PlainData DEF unit_id
  <2>2. h \in Seq(PlainBytes) /\ Len(h) = 3 /\ Len(h) >= 2 /\ h[2] = <<3>>
    BY <2>1
  <2>3. AnswerBody(r, data) = h \o data
    BY <1>2 DEF AnswerBody
  <2> HIDE DEF h
  <2>4. h \o data \in Seq(PlainBytes) /\ Len(h \o data) = Len(h) + Len(data) /\ (h \o data)[2] = h[2]
    BY <2>2, Concat, Zenon
  <2>5. Len(h \o data) = 3 + Len(data)
    BY <2>2, <2>4
  <2>6. (h \o data)[2] = <<3>>
    BY <2>2, <2>4, Zenon
  <2> QED BY <1>2, <2>3, <2>4, <2>5, <2>6
<1>3. CASE r.fc = 16
  <2> DEFINE h == << unit_id, <<16>> >>
             b == h \o put_2(r.address) \o put_2(r.quantity)
  <2>1. unit_id \in PlainBytes /\ <<16>> \in PlainBytes
    BY PlainData DEF unit_id
  <2>2. h \in Seq(PlainBytes) /\ Len(h) = 2 /\ h[2] = <<16>>
    BY <2>1
  <2>3. AnswerBody(r, data) = b
    BY <1>3 DEF AnswerBody
  <2>4. b \in Seq(PlainBytes) /\ Len(b) >= 2 /\ Len(b) = 6 /\ b[2] = h[2]
    <3> HIDE DEF h
    <3> QED BY <1>1, <2>2, ConcatHeader, Zenon
  <2> HIDE DEF h, b
  <2>5. b[2] = <<16>>
    BY <2>2, <2>4, Zenon
  <2> QED BY <1>3, <2>3, <2>4, <2>5
<1> QED BY <1>1, <1>2, <1>3

\* An exception on the line.
LEMMA ExceptionShape ==
  ASSUME NEW b \in ExceptionBodies
  PROVE  b \in Seq(PlainBytes) /\ Len(b) = 3 /\ b[2] \in {<<131>>, <<144>>}
<1>1. PICK fc \in {3, 16}, e \in Exceptions : b = << unit_id, <<fc + 128>>, <<e>> >>
  BY DEF ExceptionBodies
<1>2. unit_id \in PlainBytes /\ <<fc + 128>> \in PlainBytes /\ <<e>> \in PlainBytes
  BY PlainData, ClientAssumption DEF unit_id
<1> QED BY <1>1, <1>2

\* Lengths add up.
LEMMA LenConcat ==
  \A S, T : \A u \in Seq(S), v \in Seq(T) : Len(u \o v) = Len(u) + Len(v)
OBVIOUS

\* A body followed by its checksum.
LEMMA FrameBytes ==
  ASSUME NEW P, NEW p \in P, p \in Seq(PlainBytes)
  PROVE  p \o crc_calc(p) \in Seq(PlainBytes \cup Crcs(P))
<1>1. crc_calc(p) \in Seq(PlainBytes \cup Crcs(P))
  BY DEF crc_calc, Crcs
<1>2. p \in Seq(PlainBytes \cup Crcs(P))
  OBVIOUS
<1> HIDE DEF Crcs
<1> QED BY <1>1, <1>2
-----------------------------------------------------------------------------
(* The contents of msg.buf.                                                *)

\* A part of msg.buf is a sequence of bytes.
LEMMA BufSeq ==
  ASSUME SerialInv, NEW i \in Nat, NEW j \in Nat, i <= j, j <= BufSize
  PROVE  /\ Buf(i, j) \in Seq(StoredBytes) /\ Len(Buf(i, j)) = j - i
         /\ \A k \in 1 .. j - i : Buf(i, j)[k] = mem[i + k - 1]
<1>1. BufSize \in Nat
  BY ClientAssumption
<1>2. mem \in [0 .. BufSize - 1 -> StoredBytes]
  BY DEF SerialInv
<1>3. j - i \in Nat
  OBVIOUS
<1>4. \A k \in 1 .. j - i : mem[i + k - 1] \in StoredBytes
  BY <1>1, <1>2
<1>5. Buf(i, j) \in [1 .. j - i -> StoredBytes]
  BY <1>4 DEF Buf
<1> QED BY <1>3, <1>5 DEF Buf

\* How a sequence is put together.
LEMMA Join ==
  ASSUME NEW S, NEW a \in Seq(S), NEW b \in Seq(S), NEW c \in Seq(S),
         Len(c) = Len(a) + Len(b),
         \A k \in 1 .. Len(a) : c[k] = a[k],
         \A k \in 1 .. Len(b) : c[Len(a) + k] = b[k]
  PROVE  c = a \o b
<1>1. Len(a) \in Nat /\ Len(b) \in Nat
  OBVIOUS
<1>2. ASSUME NEW k \in 1 .. Len(c) PROVE (a \o b)[k] = c[k]
  <2>1. CASE k <= Len(a)
    BY <2>1
  <2>2. CASE k > Len(a)
    <3>1. k - Len(a) \in 1 .. Len(b)
      BY <1>1, <2>2
    <3>2. c[Len(a) + (k - Len(a))] = b[k - Len(a)]
      BY <3>1
    <3>3. Len(a) + (k - Len(a)) = k
      BY <1>1
    <3> QED BY <2>2, <3>1, <3>2, <3>3
  <2> QED BY <1>1, <2>1, <2>2
<1>3. a \o b \in Seq(S) /\ Len(a \o b) = Len(c)
  OBVIOUS
<1> QED BY <1>2, <1>3, SeqEqual

\* Two parts next to each other are one part.
LEMMA BufSplit ==
  ASSUME SerialInv, NEW i \in Nat, NEW j \in Nat, i <= j, j <= BufSize
  PROVE  Buf(0, j) = Buf(0, i) \o Buf(i, j)
<1> DEFINE a == Buf(0, i)
           b == Buf(i, j)
           c == Buf(0, j)
<1>1. BufSize \in Nat /\ i <= BufSize
  BY ClientAssumption
<1>2. /\ a \in Seq(StoredBytes) /\ Len(a) = i
      /\ \A k \in 1 .. i : a[k] = mem[k - 1]
  BY <1>1, BufSeq
<1>3. /\ b \in Seq(StoredBytes) /\ Len(b) = j - i
      /\ \A k \in 1 .. j - i : b[k] = mem[i + k - 1]
  BY BufSeq
<1>4. /\ c \in Seq(StoredBytes) /\ Len(c) = j
      /\ \A k \in 1 .. j : c[k] = mem[k - 1]
  BY <1>1, BufSeq
<1> HIDE DEF a, b, c
<1>5. Len(c) = Len(a) + Len(b)
  BY <1>2, <1>3, <1>4
<1>6. ASSUME NEW k \in 1 .. Len(a) PROVE c[k] = a[k]
  <2>1. k \in 1 .. i /\ k \in 1 .. j
    BY <1>2
  <2> QED BY <1>2, <1>4, <2>1, Zenon
<1>7. ASSUME NEW k \in 1 .. Len(b) PROVE c[Len(a) + k] = b[k]
  <2>1. k \in 1 .. j - i /\ Len(a) + k \in 1 .. j /\ Len(a) + k - 1 = i + k - 1
    BY <1>2, <1>3
  <2>2. c[Len(a) + k] = mem[Len(a) + k - 1] /\ b[k] = mem[i + k - 1]
    BY <1>3, <1>4, <2>1
  <2> QED BY <2>1, <2>2
<1>8. c = a \o b
  BY <1>2, <1>3, <1>4, <1>5, <1>6, <1>7, Join
<1> QED BY <1>8 DEF a, b, c

\* A frame that carries as many bytes as were asked for is an answer.
LEMMA ReadBody ==
  ASSUME SerialInv, NEW r \in Requests, r.fc = 3, 3 + 2 * r.quantity <= BufSize,
         mem[0] = unit_id, mem[1] = << 3 >>, mem[2] = <<2 * r.quantity>>
  PROVE  AnswerBody(r, Buf(3, 3 + 2 * r.quantity)) = Buf(0, 3 + 2 * r.quantity)
<1> DEFINE n == 3 + 2 * r.quantity
<1>1. r.quantity \in Nat
  BY ClientAssumption
<1>2. n \in Nat /\ 3 <= n /\ n <= BufSize
  BY <1>1
<1>3. Buf(0, 3) = << unit_id, <<3>>, <<2 * r.quantity>> >>
  BY DEF Buf
<1>4. AnswerBody(r, Buf(3, n)) = << unit_id, <<3>>, <<2 * r.quantity>> >> \o Buf(3, n)
  BY DEF AnswerBody
<1> HIDE DEF n
<1>5. Buf(0, n) = Buf(0, 3) \o Buf(3, n)
  BY <1>2, BufSplit
<1> QED BY <1>3, <1>4, <1>5 DEF n

\* A frame that repeats address and quantity of a write is an answer.
LEMMA WriteBody ==
  ASSUME SerialInv, NEW r \in Requests, r.fc = 16, 6 <= BufSize, NEW data,
         mem[0] = unit_id, mem[1] = << 16 >>,
         Buf(2, 6) = put_2(r.address) \o put_2(r.quantity)
  PROVE  AnswerBody(r, data) = Buf(0, 6)
<1> DEFINE h == << unit_id, <<16>> >>
           a == put_2(r.address)
           q == put_2(r.quantity)
<1>1. Buf(0, 2) = h
  BY DEF Buf
<1>2. AnswerBody(r, data) = h \o a \o q
  BY DEF AnswerBody
<1>3. h \in Seq(PlainBytes)
  BY PlainData DEF unit_id
<1>4. a \in Seq(PlainBytes) /\ q \in Seq(PlainBytes)
  BY ClientAssumption, PlainData
<1>5. Buf(0, 6) = Buf(0, 2) \o Buf(2, 6)
  BY BufSplit
<1> HIDE DEF h, a, q
<1>6. (h \o a) \o q = h \o (a \o q)
  BY <1>3, <1>4, ConcatAssociative
<1> QED BY <1>1, <1>2, <1>5, <1>6 DEF a, q

\* A checksum byte in msg.buf covers a frame that was on the line.
LEMMA Covered ==
  ASSUME NEW p, <<256, p>> \in StoredBytes
  PROVE  p \in answers \cup ExceptionBodies \cup RequestBodies
<1>1. CASE <<256, p>> \in PlainBytes \cup Crcs(answers \cup ExceptionBodies)
  BY <1>1, CrcCovers
<1>2. CASE <<256, p>> \in PlainBytes \cup Crcs(RequestBodies)
  BY <1>2, CrcCovers
<1> QED BY <1>1, <1>2 DEF StoredBytes, WireBytes

\* What the device stores is plain bytes, two for each register.
LEMMA StoredShape ==
  ASSUME WorldInv, NEW r \in Requests, Touched(r) \subseteq Addresses
  PROVE  Stored(device, r) \in Seq(PlainBytes) /\ Len(Stored(device, r)) = 2 * r.quantity
<1>1. r.address \in Nat /\ r.quantity \in Nat
  BY ClientAssumption
<1> DEFINE n == 2 * r.quantity
<1>2. n \in Nat
  BY <1>1
<1>3. ASSUME NEW i \in 1 .. n
      PROVE  device[r.address + (i - 1) \div 2][2 - (i % 2)] \in PlainBytes
  <2>1. r.address + (i - 1) \div 2 \in r.address .. r.address + r.quantity - 1
    BY <1>1
  <2>2. r.address + (i - 1) \div 2 \in Addresses
    BY <2>1 DEF Touched
  <2>3. 2 - (i % 2) \in {1, 2}
    BY <1>2
  <2> QED BY <2>2, <2>3 DEF WorldInv
<1>4. Stored(device, r) = [i \in 1 .. n |-> device[r.address + (i - 1) \div 2][2 - (i % 2)]]
  BY DEF Stored
<1> HIDE DEF n
<1>5. Stored(device, r) \in [1 .. n -> PlainBytes]
  BY <1>3, <1>4
<1>6. Stored(device, r) \in Seq(PlainBytes) /\ Len(Stored(device, r)) = n
  BY <1>2, <1>4, <1>5
<1> QED BY <1>6 DEF n

\* Where the checks of recv_msg_footer and its caller find nothing wrong, the
\* buffer holds the answer, whole.
LEMMA BodyFound ==
  ASSUME SerialInv, StageInv, HeaderInv, BufSize >= 260, stage = "footer", Verdict = "NONE"
  PROVE  /\ AnswerBody(req, registers) = Buf(0, buf_idx)
         /\ mem[1] = <<req.fc>>
         /\ buf_idx = IF req.fc = 3 THEN 3 + 2 * req.quantity ELSE 6
<1>1. req \in Requests /\ req.fc \in {3, 16} /\ req.quantity \in Nat
  BY ClientAssumption DEF StageInv
<1>2. mem[0] = unit_id /\ mem[1] # <<req.fc + 128>>
  BY DEF HeaderInv, Verdict
<1>3. CASE req.fc = 3
  <2>1. /\ mem[1] = <<3>> /\ buf_idx = 3 + 2 * (mem[2][1] \div 2)
        /\ registers = Buf(3, buf_idx)
    BY <1>2, <1>3 DEF HeaderInv
  <2>2. mem[2] = <<2 * req.quantity>>
    BY <1>2, <1>3, <2>1 DEF Verdict
  <2>3. buf_idx = 3 + 2 * req.quantity
    BY <1>1, <2>1, <2>2
  <2>4. 3 + 2 * req.quantity <= BufSize
    BY <2>3, <1>1, ClientAssumption DEF StageInv
  <2> QED BY <1>1, <1>2, <1>3, <2>1, <2>2, <2>3, <2>4, ReadBody
<1>4. CASE req.fc = 16
  <2>1. mem[1] = <<16>> /\ buf_idx = 6
    BY <1>2, <1>4 DEF HeaderInv
  <2>2. Buf(2, 6) = put_2(req.address) \o put_2(req.quantity)
    BY <1>2, <1>4, <2>1 DEF Verdict
  <2>3. 6 <= BufSize
    BY ClientAssumption
  <2>4. AnswerBody(req, registers) = Buf(0, 6)
    BY <1>1, <1>2, <1>4, <2>1, <2>2, <2>3, WriteBody
  <2> QED BY <1>4, <2>1, <2>4
<1> QED BY <1>1, <1>3, <1>4

\* The second byte and the length of what the checksum in the buffer covers.
LEMMA FrameRead ==
  ASSUME SerialInv, StageInv, stage = "footer", BufSize >= 260
  PROVE  Len(Buf(0, buf_idx)) = buf_idx /\ Buf(0, buf_idx)[2] = mem[1]
<1>1. BufSize \in Nat /\ buf_idx \in Nat /\ buf_idx <= BufSize /\ buf_idx >= 3
  BY ClientAssumption DEF StageInv, Stages
<1>2. /\ Len(Buf(0, buf_idx)) = buf_idx - 0
      /\ \A k \in 1 .. buf_idx - 0 : Buf(0, buf_idx)[k] = mem[0 + k - 1]
  BY <1>1, BufSeq
<1> QED BY <1>1, <1>2

\* A frame found good is an answer the device gave: it is too long or too
\* short for a request and its second byte is not that of an exception.
LEMMA BodyAnswered ==
  ASSUME SerialInv, StageInv, HeaderInv, BufSize >= 260, stage = "footer", Verdict = "NONE",
         mem[buf_idx] = <<256, Buf(0, buf_idx)>>
  PROVE  AnswerBody(req, registers) \in answers
<1> DEFINE b == Buf(0, buf_idx)
<1>1. /\ AnswerBody(req, registers) = b
      /\ b[2] = <<req.fc>>
      /\ Len(b) = IF req.fc = 3 THEN 3 + 2 * req.quantity ELSE 6
  BY BodyFound, FrameRead
<1>2. req.fc \in {3, 16} /\ req.quantity \in Nat
  BY ClientAssumption DEF StageInv
<1>3. b \in answers \cup ExceptionBodies \cup RequestBodies
  <2>1. buf_idx \in 0 .. BufSize - 1
    BY ClientAssumption DEF SerialInv, StageInv, Stages
  <2>2. mem \in [0 .. BufSize - 1 -> StoredBytes]
    BY DEF SerialInv
  <2>3. mem[buf_idx] \in StoredBytes
    BY <2>1, <2>2
  <2> QED BY <2>3, Covered
<1> HIDE DEF b
<1>4. b \notin ExceptionBodies
  BY <1>1, <1>2, ExceptionShape
<1>5. b \notin RequestBodies
  <2> SUFFICES ASSUME NEW r \in Requests, b = RequestBody(r) PROVE FALSE
    BY DEF RequestBodies
  <2>1. r.fc \in {3, 16} /\ r.quantity \in Nat
    BY ClientAssumption
  <2>2. r.fc = req.fc
    BY <1>1, RequestShape
  <2>3. Len(b) = IF r.fc = 3 THEN 6 ELSE 7 + 2 * r.quantity
    BY RequestShape
  <2>4. (IF req.fc = 3 THEN 3 + 2 * req.quantity ELSE 6)
          = IF r.fc = 3 THEN 6 ELSE 7 + 2 * r.quantity
    BY <1>1, <2>3
  <2>5. CASE req.fc = 3
    <3>1. 3 + 2 * req.quantity = 6
      BY <2>2, <2>4, <2>5
    <3> QED BY <1>2, <3>1
  <2>6. CASE req.fc = 16
    <3>1. 6 = 7 + 2 * r.quantity
      BY <2>2, <2>4, <2>6
    <3> QED BY <2>1, <3>1
  <2> QED BY <1>2, <2>5, <2>6
<1> QED BY <1>1, <1>3, <1>4, <1>5

\* Only one read of registers gives a given answer.
LEMMA SameAnswer ==
  ASSUME NEW S, PlainBytes \subseteq S, NEW r \in Requests, r.fc = 3,
         NEW s \in Seq(S), NEW t \in Seq(S), AnswerBody(r, s) = AnswerBody(r, t)
  PROVE  s = t
<1> DEFINE h == << unit_id, <<3>>, <<2 * r.quantity>> >>
<1>1. unit_id \in S /\ <<3>> \in S /\ <<2 * r.quantity>> \in S
  BY ClientAssumption, PlainData DEF unit_id
<1>2. h \in Seq(S)
  BY <1>1
<1>3. h \o s = h \o t
  BY DEF AnswerBody
<1> HIDE DEF h
<1> QED BY <1>2, <1>3, ConcatSimplifications

\* On a quiet line the result is true of the device.
LEMMA BodyFresh ==
  ASSUME SerialInv, WorldInv, StageInv, HeaderInv, QuietInv, BufSize >= 260,
         stage = "footer", quiet, pc = "idle", ret > 0,
         mem[buf_idx] = <<256, Buf(0, buf_idx)>>
  PROVE  /\ Verdict = "NONE" => inbox = <<>>
         /\ Truthful(Verdict, req, registers, device)
<1> DEFINE b == Buf(0, buf_idx)
<1>1. req \in Requests /\ req.fc \in {3, 16} /\ req.quantity \in Nat
  BY ClientAssumption DEF StageInv
<1>2. b \in FreshBodies
  <2>1. mem[buf_idx] \in FreshBytes
    BY DEF QuietInv, StageInv, Stages
  <2> QED BY <2>1, CrcCovers DEF FreshBytes
<1>3. b[2] = mem[1]
  BY FrameRead
<1>4. inbox = <<>>
  BY <1>2 DEF FreshBodies
<1>5. CASE Touched(req) \subseteq Addresses
  <2>1. b = AnswerBody(req, Stored(device, req))
    BY <1>2, <1>4, <1>5 DEF FreshBodies
  <2>2. Stored(device, req) \in Seq(PlainBytes)
    BY <1>1, <1>5, StoredShape
  <2>3. mem[1] = <<req.fc>>
    BY <1>1, <1>3, <2>1, <2>2, AnswerShape
  <2>4. mem[1] # <<req.fc + 128>>
    BY <1>1, <2>3
  <2>5. Verdict # "EXCEPTION"
    BY <2>4 DEF Verdict
  <2>6. ASSUME Verdict = "NONE", req.fc = 16 PROVE Stored(device, req) = req.data
    BY <1>4, <1>5, <2>6 DEF QuietInv, Stages
  <2>7. ASSUME Verdict = "NONE", req.fc = 3 PROVE registers = Stored(device, req)
    <3>1. AnswerBody(req, registers) = AnswerBody(req, Stored(device, req))
      BY <2>1, <2>7, BodyFound
    <3>2. registers = Buf(3, buf_idx)
      BY <1>1, <2>4, <2>7 DEF HeaderInv
    <3>3. registers \in Seq(StoredBytes)
      <4>1. buf_idx \in Nat /\ 3 <= buf_idx /\ buf_idx <= BufSize
        BY ClientAssumption DEF StageInv, Stages
      <4> QED BY <3>2, <4>1, BufSeq
    <3>4. PlainBytes \subseteq StoredBytes
      BY DEF StoredBytes, WireBytes
    <3>5. Stored(device, req) \in Seq(StoredBytes)
      BY <2>2, <3>4
    <3> QED BY <1>1, <2>7, <3>1, <3>3, <3>4, <3>5, SameAnswer
  <2> QED BY <1>4, <2>5, <2>6, <2>7 DEF Truthful
<1>6. CASE ~(Touched(req) \subseteq Addresses)
  <2>1. b \in ExceptionBodies
    BY <1>2, <1>4, <1>6 DEF FreshBodies
  <2>2. mem[1] \in {<<131>>, <<144>>}
    BY <1>3, <2>1, ExceptionShape
  <2>3. Verdict # "NONE"
    <3> SUFFICES ASSUME Verdict = "NONE" PROVE FALSE
      OBVIOUS
    <3>1. mem[1] = <<req.fc>>
      BY BodyFound
    <3> QED BY <1>1, <2>2, <3>1
  <2>4. DOMAIN device = Addresses
    BY DEF WorldInv
  <2> QED BY <1>6, <2>3, <2>4 DEF Truthful
<1> QED BY <1>5, <1>6
-----------------------------------------------------------------------------
(* The device.                                                             *)

\* The two bytes a write puts in a register.
LEMMA ApplyAt ==
  ASSUME NEW r, r.fc = 16, NEW a \in DOMAIN device, a \in Touched(r)
  PROVE  Apply(device, r)[a] =
           SubSeq(r.data, 2 * (a - r.address) + 1, 2 * (a - r.address) + 2)
<1>1. r.fc # 3
  OBVIOUS
<1> QED BY <1>1, Zenon DEF Apply

\* A write that is carried out leaves in the device what it carried.
LEMMA ApplyStores ==
  ASSUME WorldInv, NEW r \in Requests, r.fc = 16, Touched(r) \subseteq Addresses
  PROVE  Stored(Apply(device, r), r) = r.data
<1>1. /\ r.address \in Nat /\ r.quantity \in Nat
      /\ r.data \in Seq(DataByte) /\ Len(r.data) = 2 * r.quantity
  BY ClientAssumption
<1> DEFINE d == Apply(device, r)
           At(i) == r.address + (i - 1) \div 2
<1>2. ASSUME NEW a \in Touched(r)
      PROVE  d[a] = SubSeq(r.data, 2 * (a - r.address) + 1, 2 * (a - r.address) + 2)
  BY ApplyAt DEF WorldInv
<1>3. ASSUME NEW a \in Touched(r)
      PROVE  /\ d[a][1] = r.data[2 * (a - r.address) + 1]
             /\ d[a][2] = r.data[2 * (a - r.address) + 2]
  <2> DEFINE m == 2 * (a - r.address) + 1
             n == 2 * (a - r.address) + 2
  <2>1. a - r.address \in 0 .. r.quantity - 1
    BY <1>1 DEF Touched
  <2>2. m \in Int /\ n \in Int /\ n = m + 1 /\ m >= 1 /\ n <= Len(r.data)
    BY <1>1, <2>1
  <2>3. d[a] = SubSeq(r.data, m, n)
    BY <1>2
  <2> HIDE DEF m, n, d
  <2>4. SubSeq(r.data, m, n)[1] = r.data[m] /\ SubSeq(r.data, m, n)[2] = r.data[n]
    BY <1>1, <2>2
  <2> QED BY <2>3, <2>4 DEF m, n
<1> HIDE DEF d
<1>4. ASSUME NEW i \in 1 .. 2 * r.quantity
      PROVE  d[At(i)][2 - (i % 2)] = r.data[i]
  <2>1. At(i) \in Touched(r) /\ At(i) - r.address = (i - 1) \div 2
    BY <1>1 DEF Touched
  <2>2. CASE i % 2 = 1
    <3>1. 2 * ((i - 1) \div 2) + 1 = i
      BY <1>1, <2>2
    <3> QED BY <1>3, <2>1, <2>2, <3>1
  <2>3. CASE i % 2 = 0
    <3>1. 2 * ((i - 1) \div 2) + 2 = i
      BY <1>1, <2>3
    <3> QED BY <1>3, <2>1, <2>3, <3>1
  <2>4. i % 2 \in {0, 1}
    BY <1>1
  <2> QED BY <2>2, <2>3, <2>4
<1>5. Stored(d, r) = [i \in 1 .. 2 * r.quantity |-> d[At(i)][2 - (i % 2)]]
  BY DEF Stored
<1>6. r.data = [i \in 1 .. 2 * r.quantity |-> r.data[i]]
  BY <1>1
<1> QED BY <1>4, <1>5, <1>6 DEF d

\* The device keeps its registers, of two bytes each.
LEMMA ApplyShape ==
  ASSUME WorldInv, NEW r \in Requests, Touched(r) \subseteq Addresses
  PROVE  /\ DOMAIN Apply(device, r) = Addresses
         /\ \A a \in Addresses : /\ Apply(device, r)[a][1] \in PlainBytes
                                 /\ Apply(device, r)[a][2] \in PlainBytes
<1>1. /\ r.address \in Nat /\ r.quantity \in Nat /\ r.fc \in {3, 16}
      /\ r.data \in Seq(DataByte) /\ (r.fc = 16 => Len(r.data) = 2 * r.quantity)
  BY ClientAssumption
<1> DEFINE d == Apply(device, r)
<1>2. CASE r.fc = 3
  BY <1>2 DEF Apply, WorldInv
<1>3. CASE r.fc = 16
  <2>1. DOMAIN d = Addresses
    BY <1>3 DEF Apply, WorldInv
  <2>2. ASSUME NEW a \in Addresses, a \notin Touched(r)
        PROVE  d[a][1] \in PlainBytes /\ d[a][2] \in PlainBytes
    BY <1>3, <2>2 DEF Apply, WorldInv
  <2>3. ASSUME NEW a \in Addresses, a \in Touched(r)
        PROVE  d[a][1] \in PlainBytes /\ d[a][2] \in PlainBytes
    <3> DEFINE m == 2 * (a - r.address) + 1
               n == 2 * (a - r.address) + 2
    <3>1. a - r.address \in 0 .. r.quantity - 1
      BY <1>1, <2>3 DEF Touched
    <3>2. m \in Int /\ n \in Int /\ n = m + 1 /\ m >= 1 /\ n <= Len(r.data)
      BY <1>1, <1>3, <3>1
    <3>3. d[a] = SubSeq(r.data, m, n)
      BY <1>3, <2>3, ApplyAt DEF WorldInv
    <3> HIDE DEF m, n, d
    <3>4. /\ SubSeq(r.data, m, n)[1] = r.data[m] /\ SubSeq(r.data, m, n)[2] = r.data[n]
          /\ r.data[m] \in DataByte /\ r.data[n] \in DataByte
      BY <1>1, <3>2
    <3> QED BY <3>3, <3>4, PlainData
  <2> QED BY <2>1, <2>2, <2>3
<1> QED BY <1>1, <1>2, <1>3
-----------------------------------------------------------------------------
(* What the steps leave alone.                                             *)

\* No answer is given: the same bytes can be on the line.
LEMMA SameWire == UNCHANGED answers => WireBytes' = WireBytes /\ StoredBytes' = StoredBytes
BY DEF WireBytes, StoredBytes

\* Answers are never taken back.
LEMMA MoreWire ==
  answers \subseteq answers' => WireBytes \subseteq WireBytes' /\ StoredBytes \subseteq StoredBytes'
BY DEF WireBytes, StoredBytes, Crcs

\* The device does nothing: the answer awaited is the same.
LEMMA SameFresh ==
  UNCHANGED <<inbox, req, device>> => FreshBodies' = FreshBodies /\ FreshBytes' = FreshBytes
BY DEF FreshBodies, FreshBytes

\* A step that leaves read_serial and its buffer alone keeps what is in them.
LEMMA SerialSame == SerialInv /\ UNCHANGED <<serial, answers>> => SerialInv'
BY SameWire DEF serial, SerialInv

\* A step that leaves device and line alone keeps what is in them.
LEMMA WorldSame == WorldInv /\ UNCHANGED world => WorldInv'
BY SameWire DEF world, WorldInv
-----------------------------------------------------------------------------
(* The request.                                                            *)

\* A call begins, or is refused.
LEMMA RequestIInv ==
  ASSUME IInv, NEW r \in Requests, Request(r)
  PROVE  IInv'
<1>1. SerialInv' /\ WorldInv'
  BY SerialSame, WorldSame DEF IInv, Request, world
<1>2. /\ stage = "idle" /\ req' = r /\ registers' = <<>>
      /\ UNCHANGED <<serial, buf_idx, byte_timeout, quiet, world>>
      /\ \/ ArgumentsOK(r) /\ stage' = "flush" /\ err' = "NONE"
         \/ stage' = "done" /\ err' = "INVALID_ARGUMENT"
  BY DEF Request, Finish
<1>3. ArgumentsOK(r) => ArgumentsOK(req')
  BY <1>2
<1>4. StageInv'
  <2> HIDE DEF ArgumentsOK
  <2> QED BY <1>2, <1>3 DEF IInv, StageInv, Stages, serial
<1>5. HeaderInv' /\ QuietInv'
  BY <1>2 DEF HeaderInv, QuietInv, Stages
<1>6. ResultInv'
  BY <1>2 DEF ResultInv, IntactAnswer, Succeeded, FreshAnswer, Truthful
<1> QED BY <1>1, <1>4, <1>5, <1>6 DEF IInv

\* msg_state_req empties the fifo.
LEMMA FlushIInv ==
  ASSUME IInv, MsgStateReq
  PROVE  IInv'
<1>1. /\ stage = "flush" /\ stage' = "send" /\ buf_idx' = 0 /\ rx' = <<>>
      /\ UNCHANGED <<mem, pc, base, count, read_bytes, n_bytes_read, ret>>
      /\ UNCHANGED <<req, byte_timeout, registers, err, world>>
      /\ quiet' = (line = <<>> /\ inbox = <<>>)
  BY DEF MsgStateReq, RS!Flush, RS!call
<1>2. SerialInv'
  <2>1. RxSize \in Nat
    BY ClientAssumption
  <2> QED BY <1>1, <2>1, SameWire DEF IInv, SerialInv, world
<1>3. WorldInv'
  BY <1>1, WorldSame DEF IInv
<1>4. StageInv'
  <2>1. ArgumentsOK(req)' <=> ArgumentsOK(req)
    BY <1>1
  <2>2. 0 \in 0 .. BufSize
    BY ClientAssumption
  <2> QED BY <1>1, <2>1, <2>2 DEF IInv, StageInv, Stages
<1>5. HeaderInv'
  BY <1>1 DEF HeaderInv
<1>6. QuietInv'
  BY <1>1 DEF QuietInv, Stages, world
<1>7. ResultInv'
  BY <1>1 DEF ResultInv, IntactAnswer, Succeeded, FreshAnswer
<1> QED BY <1>2, <1>3, <1>4, <1>5, <1>6, <1>7 DEF IInv

\* The request is put in the buffer, which holds it, and sent.
LEMMA SendIInv ==
  ASSUME BufSize >= 260, IInv, SendMsg
  PROVE  IInv'
<1> DEFINE frame == RequestBody(req) \o crc_calc(RequestBody(req))
<1>1. /\ stage = "send"
      /\ mem' = [i \in DOMAIN mem |-> IF i < Len(frame) THEN frame[i + 1] ELSE mem[i]]
      /\ buf_idx' = Len(frame)
      /\ UNCHANGED <<rx, pc, base, count, read_bytes, n_bytes_read, ret,
                     req, byte_timeout, registers, quiet, device, line, answers>>
      /\ \/ stage' = "recv" /\ err' = err /\ inbox' = Append(inbox, req)
         \/ stage' = "done" /\ err' \in {"TIMEOUT", "TRANSPORT"} /\ inbox' = inbox
  BY DEF SendMsg, write_serial, SendErrors, Finish
<1>2. /\ req \in Requests /\ req.fc \in {3, 16} /\ req.quantity \in Nat
      /\ req.quantity <= IF req.fc = 3 THEN 125 ELSE 123
  <2>1. req \in Requests /\ ArgumentsOK(req)
    BY <1>1 DEF IInv, StageInv
  <2>2. req.quantity <= IF req.fc = 3 THEN 125 ELSE 123
    BY <2>1 DEF ArgumentsOK
  <2> QED BY <2>1, <2>2, ClientAssumption
<1>3. RequestBody(req) \in Seq(PlainBytes) /\ RequestBody(req) \in RequestBodies
  BY <1>2, RequestShape DEF RequestBodies
<1>4. frame \in Seq(StoredBytes)
  <2>1. frame \in Seq(PlainBytes \cup Crcs(RequestBodies))
    BY <1>3, FrameBytes
  <2>2. PlainBytes \cup Crcs(RequestBodies) \subseteq StoredBytes
    BY DEF StoredBytes, WireBytes
  <2> HIDE DEF frame
  <2> QED BY <2>1, <2>2
<1>5. Len(frame) \in 0 .. BufSize
  <2>1. Len(RequestBody(req)) = IF req.fc = 3 THEN 6 ELSE 7 + 2 * req.quantity
    BY <1>2, RequestShape
  <2>2. crc_calc(RequestBody(req)) \in Seq({<<256, RequestBody(req)>>, <<257, RequestBody(req)>>})
    BY DEF crc_calc
  <2>3. Len(crc_calc(RequestBody(req))) = 2
    BY DEF crc_calc
  <2>4. Len(frame) = Len(RequestBody(req)) + Len(crc_calc(RequestBody(req)))
    <3> HIDE DEF RequestBody, crc_calc
    <3> QED BY <1>3, <2>2, LenConcat
  <2>5. Len(frame) <= 255 /\ Len(frame) \in Nat
    <3> HIDE DEF frame
    <3> QED BY <1>2, <2>1, <2>3, <2>4
  <2> QED BY <2>5, ClientAssumption
<1> HIDE DEF frame
<1>6. SerialInv'
  <2>1. mem \in [0 .. BufSize - 1 -> StoredBytes]
    BY DEF IInv, SerialInv
  <2>2. mem' \in [0 .. BufSize - 1 -> StoredBytes]
    <3>1. ASSUME NEW i \in 0 .. BufSize - 1, i < Len(frame) PROVE frame[i + 1] \in StoredBytes
      <4>1. i + 1 \in 1 .. Len(frame)
        BY <1>5, <3>1, ClientAssumption
      <4> QED BY <1>4, <4>1
    <3> QED BY <1>1, <2>1, <3>1
  <2> QED BY <1>1, <2>2, SameWire DEF IInv, SerialInv
<1>7. WorldInv'
  <2>1. inbox \in Seq(Requests) => Append(inbox, req) \in Seq(Requests)
    BY <1>2
  <2>2. inbox' \in Seq(Requests)
    BY <1>1, <2>1 DEF IInv, WorldInv
  <2> QED BY <1>1, <2>2, SameWire DEF IInv, WorldInv
<1>8. StageInv'
  <2>1. ArgumentsOK(req)' <=> ArgumentsOK(req)
    BY <1>1
  <2> QED BY <1>1, <1>5, <2>1 DEF IInv, StageInv, Stages
<1>9. HeaderInv'
  BY <1>1 DEF HeaderInv
<1>10. QuietInv'
  <2>1. CASE stage' = "done"
    BY <2>1 DEF QuietInv, Stages
  <2>2. CASE stage' = "recv" /\ inbox' = Append(inbox, req)
    <3>1. quiet => inbox = <<>> /\ line' = <<>> /\ rx' = <<>>
      BY <1>1 DEF IInv, QuietInv
    <3>2. quiet => inbox' = <<req>>
      BY <2>2, <3>1
    <3>3. ASSUME quiet'
          PROVE  /\ inbox' \in {<<>>, <<req>>'} /\ inbox' # <<>>
                 /\ line' \in Seq(FreshBytes') /\ rx' \in Seq(FreshBytes')
      BY <1>1, <3>1, <3>2, <3>3
    <3> QED BY <2>2, <3>3 DEF QuietInv, Stages
  <2> QED BY <1>1, <2>1, <2>2
<1>11. ResultInv'
  BY <1>1 DEF ResultInv, IntactAnswer, Succeeded, FreshAnswer, Truthful
<1> QED BY <1>6, <1>7, <1>8, <1>9, <1>10, <1>11 DEF IInv
-----------------------------------------------------------------------------
(* The answer.                                                             *)

\* A recv begins where the buffer has room.
LEMMA StartIInv ==
  ASSUME IInv, stage \in Stages \cup {"recv"}, NEW s \in Stages, NEW i \in Nat, NEW n \in Nat,
         i + n <= BufSize, recv(s, i, n), UNCHANGED <<req, err, quiet, world>>,
         StageInv', HeaderInv'
  PROVE  IInv'
<1>1. /\ pc' = "while" /\ base' = i /\ count' = n /\ read_bytes' = 0 /\ n_bytes_read' = 0
      /\ UNCHANGED <<rx, mem, ret>> /\ stage' = s
  BY DEF recv, RS!Start
<1>2. SerialInv'
  BY <1>1, SameWire DEF IInv, SerialInv, world
<1>3. WorldInv'
  BY WorldSame DEF IInv
<1>4. QuietInv'
  <2>1. FreshBytes' = FreshBytes
    BY SameFresh DEF world
  <2>2. stage' # "send" /\ stage' \in Stages
    BY <1>1 DEF Stages
  <2>3. ASSUME quiet'
        PROVE  /\ inbox' \in {<<>>, <<req>>'}
               /\ line' \in Seq(FreshBytes') /\ rx' \in Seq(FreshBytes')
               /\ inbox' = <<>> /\ req'.fc = 16 /\ Touched(req)' \subseteq Addresses =>
                    Stored(device, req)' = req'.data
    BY <1>1, <2>1, <2>3 DEF IInv, QuietInv, world
  <2> QED BY <1>1, <2>2, <2>3 DEF QuietInv
<1>5. ResultInv'
  BY <1>1 DEF ResultInv, IntactAnswer, Succeeded, FreshAnswer, Stages
<1> QED BY <1>2, <1>3, <1>4, <1>5 DEF IInv

\* The call ends while it awaits an answer.
LEMMA EndIInv ==
  ASSUME IInv, stage \in Stages, pc = "idle",
         UNCHANGED <<serial, buf_idx, req, registers, quiet, world>>,
         stage' = "done", byte_timeout' \in {"byte", "read"},
         err' \in {"NONE", "TIMEOUT", "TRANSPORT", "CRC",
                   "INVALID_UNIT_ID", "INVALID_RESPONSE", "EXCEPTION"},
         ResultInv'
  PROVE  IInv'
<1>1. SerialInv' /\ WorldInv'
  BY SerialSame, WorldSame DEF IInv, world
<1>2. StageInv'
  BY DEF IInv, StageInv, Stages, serial
<1>3. HeaderInv' /\ QuietInv'
  BY DEF HeaderInv, QuietInv, Stages
<1> QED BY <1>1, <1>2, <1>3 DEF IInv

\* The result is neither success nor an exception of the device.
LEMMA ErrorIInv ==
  ASSUME stage' = "done",
         err' \in {"TIMEOUT", "TRANSPORT", "CRC", "INVALID_UNIT_ID", "INVALID_RESPONSE"}
  PROVE  ResultInv'
BY DEF ResultInv, IntactAnswer, Succeeded, FreshAnswer, Truthful

\* recv failed.
LEMMA RecvFailsIInv ==
  ASSUME IInv, NEW s \in Stages, RecvFails(s)
  PROVE  IInv'
<1>1. /\ stage \in Stages /\ pc = "idle" /\ stage' = "done"
      /\ UNCHANGED <<serial, buf_idx, req, registers, quiet, world>>
      /\ byte_timeout' \in {"byte", "read"} /\ err' \in {"TIMEOUT", "TRANSPORT"}
  BY DEF RecvFails, Returned, RecvResult, Finish
<1> QED BY <1>1, EndIInv, ErrorIInv

\* The answer is rejected for one of its bytes.
LEMMA RejectIInv ==
  ASSUME IInv, NEW s \in Stages, NEW e \in {"INVALID_UNIT_ID", "INVALID_RESPONSE"},
         Reject(s, e)
  PROVE  IInv'
<1>1. /\ stage \in Stages /\ pc = "idle" /\ stage' = "done" /\ err' = e
      /\ UNCHANGED <<serial, buf_idx, req, registers, quiet, world>>
      /\ byte_timeout' = byte_timeout
  BY DEF Reject, Returned, Finish
<1>2. byte_timeout' \in {"byte", "read"}
  BY <1>1 DEF IInv, StageInv
<1> QED BY <1>1, <1>2, EndIInv, ErrorIInv

\* The checks of the footer.
LEMMA FooterIInv ==
  ASSUME BufSize >= 260, IInv, RecvMsgFooter
  PROVE  IInv'
<1> DEFINE good == Buf(buf_idx, buf_idx + 2) = crc_calc(Buf(0, buf_idx))
<1>1. /\ stage = "footer" /\ pc = "idle" /\ ret = count /\ stage' = "done"
      /\ err' = IF good THEN Verdict ELSE "CRC"
      /\ UNCHANGED <<serial, buf_idx, byte_timeout, req, registers, quiet, world>>
  BY DEF RecvMsgFooter, Reject, Returned, RecvResult, Finish
<1>2. Verdict \in {"NONE", "INVALID_RESPONSE", "EXCEPTION"}
  BY DEF Verdict
<1>3. good => mem[buf_idx] = <<256, Buf(0, buf_idx)>>
  <2>1. buf_idx \in Nat /\ buf_idx + 2 - buf_idx = 2
    BY ClientAssumption DEF IInv, StageInv
  <2>2. Buf(buf_idx, buf_idx + 2)[1] = mem[buf_idx]
    BY <2>1 DEF Buf
  <2>3. crc_calc(Buf(0, buf_idx))[1] = <<256, Buf(0, buf_idx)>>
    BY DEF crc_calc
  <2> QED BY <2>2, <2>3
<1> HIDE DEF good
<1>4. ResultInv'
  <2>1. CASE err' = "NONE"
    <3>1. good /\ Verdict = "NONE"
      BY <1>1, <1>2, <2>1
    <3>2. AnswerBody(req, registers) \in answers
      BY <1>1, <1>3, <3>1, BodyAnswered DEF IInv
    <3>3. quiet => inbox = <<>> /\ Truthful("NONE", req, registers, device)
      <4>1. ret > 0
        BY <1>1 DEF IInv, StageInv
      <4> QED BY <1>1, <1>3, <3>1, <4>1, BodyFresh DEF IInv
    <3>4. IntactAnswer'
      BY <1>1, <3>2 DEF IntactAnswer, world
    <3>5. quiet' => inbox' = <<>> /\ Truthful(err, req, registers, device)'
      BY <1>1, <2>1, <3>3 DEF world
    <3> QED BY <1>1, <3>4, <3>5 DEF ResultInv, FreshAnswer
  <2>2. CASE err' = "EXCEPTION"
    <3>1. good /\ Verdict = "EXCEPTION"
      BY <1>1, <1>2, <2>2
    <3>2. quiet => Truthful("EXCEPTION", req, registers, device)
      <4>1. ret > 0
        BY <1>1 DEF IInv, StageInv
      <4> QED BY <1>1, <1>3, <3>1, <4>1, BodyFresh DEF IInv
    <3>3. quiet' => Truthful(err, req, registers, device)'
      BY <1>1, <2>2, <3>2 DEF world
    <3> QED BY <1>1, <2>2, <3>3 DEF ResultInv, IntactAnswer, Succeeded, FreshAnswer
  <2>3. CASE err' \in {"CRC", "INVALID_RESPONSE"}
    BY <1>1, <2>3, ErrorIInv
  <2> QED BY <1>1, <1>2, <2>1, <2>2, <2>3
<1>5. byte_timeout' \in {"byte", "read"}
  BY <1>1 DEF IInv, StageInv
<1>6. stage \in Stages /\ err' \in {"NONE", "CRC", "INVALID_RESPONSE", "EXCEPTION"}
  BY <1>1, <1>2 DEF Stages
<1> QED BY <1>1, <1>4, <1>5, <1>6, EndIInv

\* Where a recv may begin: in bounds, and where the stage says.
LEMMA StartStage ==
  ASSUME IInv, stage \in Stages \cup {"recv"}, NEW s \in Stages, NEW i \in Nat, NEW n \in Nat,
         i + n <= BufSize, recv(s, i, n), UNCHANGED <<req, err, world>>,
         byte_timeout' \in {"byte", "read"}, req.fc # 3 => registers' = <<>>,
         s = "fc" => i = 1,
         s \in {"registers_bytes", "echo", "exception"} => i = 2,
         s = "registers" => i = 3,
         s = "footer" => i >= 3 /\ n = 2
  PROVE  StageInv'
<1>1. base' = i /\ count' = n /\ stage' = s /\ buf_idx' = i
  BY DEF recv, RS!Start
<1>2. ArgumentsOK(req)' <=> ArgumentsOK(req)
  OBVIOUS
<1>3. i \in 0 .. BufSize
  BY ClientAssumption
<1> QED BY <1>1, <1>2, <1>3 DEF IInv, StageInv, Stages

\* The two header bytes are asked for.
LEMMA HeaderStartIInv ==
  ASSUME BufSize >= 260, IInv, RecvMsgHeader \/ RecvUnitId
  PROVE  IInv'
<1>1. BufSize \in Nat /\ 0 + 1 <= BufSize /\ 1 + 1 <= BufSize
  BY ClientAssumption
<1>2. req.fc # 3 => registers' = <<>>
  BY DEF RecvMsgHeader, RecvUnitId, Returned, IInv, StageInv
<1>3. CASE RecvMsgHeader
  <2>1. /\ stage \in Stages \cup {"recv"} /\ recv("unit_id", 0, 1) /\ "unit_id" \in Stages
        /\ byte_timeout' \in {"byte", "read"} /\ UNCHANGED <<req, err, quiet, world>>
    BY <1>3 DEF RecvMsgHeader, Stages
  <2>2. StageInv'
    BY <1>1, <1>2, <2>1, StartStage
  <2>3. HeaderInv'
    BY <2>1 DEF recv, HeaderInv
  <2> QED BY <1>1, <2>1, <2>2, <2>3, StartIInv
<1>4. CASE RecvUnitId
  <2>1. /\ stage \in Stages \cup {"recv"} /\ recv("fc", 1, 1) /\ "fc" \in Stages
        /\ byte_timeout' \in {"byte", "read"} /\ UNCHANGED <<req, err, quiet, world>>
    BY <1>4 DEF RecvUnitId, Returned, Stages
  <2>2. StageInv'
    BY <1>1, <1>2, <2>1, StartStage
  <2>3. HeaderInv'
    BY <2>1 DEF recv, HeaderInv
  <2> QED BY <1>1, <2>1, <2>2, <2>3, StartIInv
<1> QED BY <1>3, <1>4

\* The header is looked at and the next bytes are asked for.
LEMMA ResHeaderIInv ==
  ASSUME BufSize >= 260, IInv, RecvResHeader
  PROVE  IInv'
<1>1. BufSize \in Nat /\ 2 + 1 <= BufSize /\ 2 + 4 <= BufSize
  BY ClientAssumption
<1>2. stage = "fc" /\ "fc" \in Stages /\ req \in Requests /\ req.fc \in {3, 16}
  BY ClientAssumption DEF RecvResHeader, Returned, IInv, StageInv, Stages
<1>3. CASE Reject("fc", "INVALID_UNIT_ID") \/ Reject("fc", "INVALID_RESPONSE")
  BY <1>2, <1>3, RejectIInv
<1> DEFINE Same == UNCHANGED <<byte_timeout, req, registers, err, quiet, world>>
<1>4. ASSUME NEW s \in {"registers_bytes", "echo", "exception"}, NEW n \in {1, 4}, recv(s, 2, n),
             Same, mem[0] = unit_id,
             s = "registers_bytes" => mem[1] = <<req.fc>> /\ req.fc = 3,
             s = "echo" => mem[1] = <<req.fc>> /\ req.fc = 16,
             s = "exception" => mem[1] = <<req.fc + 128>>
      PROVE  IInv'
  <2>1. s \in Stages /\ stage \in Stages /\ 2 + n <= BufSize
    BY <1>1, <1>2 DEF Stages
  <2>2. byte_timeout' \in {"byte", "read"} /\ (req.fc # 3 => registers' = <<>>)
    BY <1>2, <1>4 DEF IInv, StageInv
  <2>3. StageInv'
    BY <1>4, <2>1, <2>2, StartStage
  <2>4. mem' = mem /\ stage' = s
    BY <1>4 DEF recv, RS!Start
  <2>5. HeaderInv'
    BY <1>4, <2>4 DEF HeaderInv
  <2> QED BY <1>4, <2>1, <2>3, <2>5, StartIInv
<1>5. \/ Reject("fc", "INVALID_UNIT_ID") \/ Reject("fc", "INVALID_RESPONSE")
      \/ mem[0] = unit_id /\ mem[1] = <<req.fc>> /\ req.fc = 3 /\ recv("registers_bytes", 2, 1) /\ Same
      \/ mem[0] = unit_id /\ mem[1] = <<req.fc>> /\ req.fc # 3 /\ recv("echo", 2, 4) /\ Same
      \/ mem[0] = unit_id /\ mem[1] = <<req.fc + 128>> /\ recv("exception", 2, 1) /\ Same
  BY DEF RecvResHeader
<1> HIDE DEF Same
<1> QED BY <1>2, <1>3, <1>4, <1>5

\* The byte count is looked at and the registers are asked for.
LEMMA RegistersBytesIInv ==
  ASSUME BufSize >= 260, IInv, RecvRegistersBytes
  PROVE  IInv'
<1>1. stage = "registers_bytes" /\ stage \in Stages /\ mem[0] = unit_id
      /\ mem[1] = <<req.fc>> /\ req.fc = 3
  BY DEF RecvRegistersBytes, Returned, IInv, HeaderInv, Stages
<1>2. mem[2][1] \in Nat
  <2>1. mem[2] \in StoredBytes
    BY ClientAssumption DEF IInv, SerialInv
  <2> QED BY <2>1, ByteValue
<1>3. CASE Reject("registers_bytes", "INVALID_RESPONSE")
  BY <1>1, <1>3, RejectIInv
<1>4. CASE /\ mem[2][1] <= 250
           /\ recv("registers", 3, mem[2][1])
           /\ UNCHANGED <<byte_timeout, req, registers, err, quiet, world>>
  <2>1. "registers" \in Stages /\ 3 + mem[2][1] <= BufSize
    BY <1>2, <1>4, ClientAssumption DEF Stages
  <2>2. byte_timeout' \in {"byte", "read"}
    BY <1>4 DEF IInv, StageInv
  <2>3. StageInv'
    BY <1>1, <1>2, <1>4, <2>1, <2>2, StartStage
  <2>4. mem' = mem /\ stage' = "registers"
    BY <1>4 DEF recv, RS!Start
  <2>5. HeaderInv'
    BY <1>1, <1>4, <2>4 DEF HeaderInv
  <2> QED BY <1>1, <1>2, <1>4, <2>1, <2>3, <2>5, StartIInv
<1> QED BY <1>3, <1>4 DEF RecvRegistersBytes

\* The registers are stored in the caller's array and the footer is asked for.
LEMMA RegistersIInv ==
  ASSUME BufSize >= 260, IInv, RecvRegisters
  PROVE  IInv'
<1> DEFINE n == 3 + 2 * (mem[2][1] \div 2)
<1>1. /\ stage = "registers" /\ stage \in Stages /\ "footer" \in Stages /\ mem[0] = unit_id
      /\ mem[1] = <<req.fc>> /\ req.fc = 3 /\ mem[2][1] <= 250
  BY DEF RecvRegisters, Returned, IInv, HeaderInv, Stages
<1>2. mem[2][1] \in Nat
  <2>1. mem[2] \in StoredBytes
    BY ClientAssumption DEF IInv, SerialInv
  <2> QED BY <2>1, ByteValue
<1>3. n \in Nat /\ n >= 3 /\ n + 2 <= BufSize
  BY <1>1, <1>2, ClientAssumption
<1>4. /\ recv("footer", n, 2) /\ registers' = Buf(3, n)
      /\ UNCHANGED <<byte_timeout, req, err, quiet, world>>
  BY DEF RecvRegisters
<1>5. n = 3 + 2 * (mem[2][1] \div 2)
  OBVIOUS
<1> HIDE DEF n
<1>6. byte_timeout' \in {"byte", "read"}
  BY <1>4 DEF IInv, StageInv
<1>7. StageInv'
  BY <1>1, <1>3, <1>4, <1>6, StartStage
<1>8. mem' = mem /\ stage' = "footer" /\ buf_idx' = n
  BY <1>4 DEF recv, RS!Start
<1>9. Buf(3, buf_idx)' = Buf(3, n)
  BY <1>8 DEF Buf
<1>10. HeaderInv'
  BY <1>1, <1>4, <1>5, <1>8, <1>9 DEF HeaderInv
<1> QED BY <1>1, <1>3, <1>4, <1>7, <1>10, StartIInv

\* The echo of a write, or the code of an exception, is there and the footer
\* is asked for.
LEMMA EchoIInv ==
  ASSUME BufSize >= 260, IInv, RecvEcho \/ RecvException
  PROVE  IInv'
<1>1. BufSize \in Nat /\ 6 + 2 <= BufSize /\ 3 + 2 <= BufSize
  BY ClientAssumption
<1>2. "footer" \in Stages
  BY DEF Stages
<1>3. ASSUME NEW n \in {3, 6}, stage \in {"echo", "exception"}, recv("footer", n, 2),
             UNCHANGED <<byte_timeout, req, registers, err, quiet, world>>,
             stage = "echo" <=> n = 6
      PROVE  IInv'
  <2>1. stage \in Stages /\ n + 2 <= BufSize /\ n >= 3 /\ n \in Nat
    BY <1>1, <1>3 DEF Stages
  <2>2. byte_timeout' \in {"byte", "read"} /\ (req.fc # 3 => registers' = <<>>)
    BY <1>3 DEF IInv, StageInv
  <2>3. StageInv'
    BY <1>2, <1>3, <2>1, <2>2, StartStage
  <2>4. mem' = mem /\ stage' = "footer" /\ buf_idx' = n
    BY <1>3 DEF recv, RS!Start
  <2>5. HeaderInv'
    BY <1>3, <2>4 DEF IInv, HeaderInv
  <2> QED BY <1>2, <1>3, <2>1, <2>3, <2>5, StartIInv
<1> QED BY <1>3 DEF RecvEcho, RecvException, Returned
-----------------------------------------------------------------------------
(* read_serial, the device and the line.                                   *)

\* read_serial polls, ends a poll or returns.
LEMMA PollIInv ==
  ASSUME IInv, RS!While \/ RS!EndPoll \/ RS!Return, UNCHANGED <<client, world>>
  PROVE  IInv'
<1>1. /\ UNCHANGED <<rx, mem, base, count>>
      /\ \/ /\ pc = "while" /\ pc' \in {"byte_fifo_read", "check"} /\ n_bytes_read' = 0
            /\ UNCHANGED <<read_bytes, ret>>
         \/ /\ pc = "byte_fifo_read" /\ pc' = "while" /\ read_bytes' = read_bytes + n_bytes_read
            /\ UNCHANGED <<n_bytes_read, ret>>
         \/ /\ pc = "check" /\ pc' = "idle" /\ ret' \in {-110, read_bytes}
            /\ UNCHANGED <<read_bytes, n_bytes_read>>
  BY DEF RS!While, RS!EndPoll, RS!Return, RS!call, RS!ETIMEDOUT
<1>2. SerialInv'
  BY <1>1, SameWire DEF IInv, SerialInv, world
<1>3. WorldInv'
  BY WorldSame DEF IInv
<1>4. StageInv'
  <2>1. ArgumentsOK(req)' <=> ArgumentsOK(req)
    BY DEF client
  <2>2. stage \in Stages
    BY <1>1 DEF IInv, StageInv
  <2> QED BY <1>1, <2>1, <2>2 DEF IInv, StageInv, client
<1>5. HeaderInv'
  <2>1. Buf(3, buf_idx)' = Buf(3, buf_idx)
    BY <1>1 DEF Buf, client
  <2> QED BY <1>1, <2>1 DEF IInv, HeaderInv, client
<1>6. QuietInv'
  <2>1. FreshBytes' = FreshBytes
    BY SameFresh DEF client, world
  <2>2. read_bytes \in Nat /\ n_bytes_read \in Nat
    BY DEF IInv, SerialInv
  <2>3. UNCHANGED <<stage, quiet, inbox, line, req, device, rx, mem, base>>
    BY <1>1 DEF client, world
  <2>4. Stored(device, req)' = Stored(device, req) /\ Touched(req)' = Touched(req)
    BY <2>3
  <2>5. ASSUME stage = "footer", quiet
        PROVE  /\ pc' = "byte_fifo_read" /\ n_bytes_read' > 0 => mem'[base'] \in FreshBytes'
               /\ pc' # "idle" /\ read_bytes' > 0 => mem'[base'] \in FreshBytes'
               /\ pc' = "idle" /\ ret' > 0 => mem'[base'] \in FreshBytes'
    BY <1>1, <2>1, <2>2, <2>3, <2>5 DEF IInv, QuietInv
  <2> QED BY <2>1, <2>3, <2>4, <2>5 DEF IInv, QuietInv
<1>7. ResultInv'
  BY DEF IInv, ResultInv, IntactAnswer, Succeeded, FreshAnswer, client, world
<1> QED BY <1>2, <1>3, <1>4, <1>5, <1>6, <1>7 DEF IInv

\* read_serial stores a byte.
LEMMA TakeIInv ==
  ASSUME IInv, RS!Take, UNCHANGED <<client, world>>
  PROVE  IInv'
<1>1. /\ pc = "byte_fifo_read" /\ n_bytes_read < count - read_bytes /\ rx # <<>>
      /\ mem' = [mem EXCEPT ![base + n_bytes_read] = Head(rx)]
      /\ rx' = Tail(rx) /\ n_bytes_read' = n_bytes_read + 1
      /\ UNCHANGED <<pc, base, count, read_bytes, ret>>
  BY DEF RS!Take
<1>2. /\ base \in Nat /\ count \in Nat /\ base + count <= BufSize
      /\ read_bytes \in Nat /\ n_bytes_read \in Nat /\ BufSize \in Nat
      /\ mem \in [0 .. BufSize - 1 -> StoredBytes]
      /\ rx \in Seq(WireBytes) /\ Len(rx) <= RxSize /\ RxSize \in Nat
  BY ClientAssumption DEF IInv, SerialInv
<1>3. base + n_bytes_read \in 0 .. BufSize - 1
  BY <1>1, <1>2
<1>4. \A i \in 0 .. BufSize - 1 :
        mem'[i] = IF i = base + n_bytes_read THEN Head(rx) ELSE mem[i]
  BY <1>1, <1>2
<1>5. Head(rx) \in WireBytes /\ Tail(rx) \in Seq(WireBytes) /\ Len(Tail(rx)) <= RxSize
  BY <1>1, <1>2
<1>6. WireBytes \subseteq StoredBytes
  BY DEF StoredBytes
<1>7. SerialInv'
  <2>1. mem' \in [0 .. BufSize - 1 -> StoredBytes]
    BY <1>1, <1>2, <1>5, <1>6
  <2> QED BY <1>1, <1>2, <1>5, <2>1, SameWire DEF IInv, SerialInv, world
<1>8. WorldInv'
  BY WorldSame DEF IInv
<1>9. stage \in Stages /\ base = buf_idx
  BY <1>1 DEF IInv, StageInv
<1>10. StageInv'
  <2>1. ArgumentsOK(req)' <=> ArgumentsOK(req)
    BY DEF client
  <2> QED BY <1>1, <1>9, <2>1 DEF IInv, StageInv, client
<1>11. \A i \in 0 .. BufSize - 1 : i < base => mem'[i] = mem[i]
  BY <1>2, <1>4
<1>12. HeaderInv'
  <2>1. base >= 2 => mem'[0] = mem[0] /\ mem'[1] = mem[1]
    BY <1>2, <1>11
  <2>2. base >= 3 => mem'[2] = mem[2]
    BY <1>2, <1>11
  <2>3. stage = "footer" => Buf(3, buf_idx)' = Buf(3, buf_idx)
    <3>1. \A k \in 1 .. buf_idx - 3 : mem'[3 + k - 1] = mem[3 + k - 1]
      BY <1>2, <1>9, <1>11
    <3> QED BY <3>1 DEF Buf, client
  <2>4. /\ stage \in {"registers_bytes", "echo", "exception"} => base = 2
        /\ stage = "registers" => base = 3
        /\ stage = "footer" => base >= 3
    BY DEF IInv, StageInv
  <2> QED BY <1>2, <2>1, <2>2, <2>3, <2>4 DEF IInv, HeaderInv, client
<1>13. QuietInv'
  <2>1. FreshBytes' = FreshBytes
    BY SameFresh DEF client, world
  <2>2. UNCHANGED <<stage, quiet, inbox, line, req, device, pc, base, read_bytes>>
    BY <1>1 DEF client, world
  <2>3. Stored(device, req)' = Stored(device, req) /\ Touched(req)' = Touched(req)
    BY <2>2
  <2>4. ASSUME quiet
        PROVE  /\ inbox \in {<<>>, <<req>>} /\ line \in Seq(FreshBytes) /\ rx \in Seq(FreshBytes)
               /\ inbox = <<>> /\ req.fc = 16 /\ Touched(req) \subseteq Addresses =>
                    Stored(device, req) = req.data
    BY <1>9, <2>4 DEF IInv, QuietInv
  <2>5. quiet => Head(rx) \in FreshBytes /\ Tail(rx) \in Seq(FreshBytes)
    BY <1>1, <2>4
  <2>6. ASSUME stage = "footer", quiet PROVE mem'[base] \in FreshBytes
    <3>1. base \in 0 .. BufSize - 1
      BY <1>1, <1>2
    <3>2. CASE n_bytes_read = 0
      BY <1>2, <1>4, <2>5, <2>6, <3>1, <3>2
    <3>3. CASE n_bytes_read > 0
      <4>1. mem[base] \in FreshBytes
        BY <1>1, <2>6, <3>3 DEF IInv, QuietInv
      <4> QED BY <1>2, <1>4, <3>1, <3>3, <4>1
    <3> QED BY <1>2, <3>2, <3>3
  <2>7. stage # "send"
    BY <1>9 DEF Stages
  <2> QED BY <1>1, <2>1, <2>2, <2>3, <2>4, <2>5, <2>6, <2>7 DEF QuietInv
<1>14. ResultInv'
  BY DEF IInv, ResultInv, IntactAnswer, Succeeded, FreshAnswer, client, world
<1> QED BY <1>7, <1>8, <1>10, <1>12, <1>13, <1>14 DEF IInv

\* Time passes, or nothing happens.
LEMMA IdleIInv ==
  ASSUME IInv, UNCHANGED <<rx, mem, pc, base, count, read_bytes, n_bytes_read, ret, client, world>>
  PROVE  IInv'
<1>1. SerialInv'
  BY SameWire DEF IInv, SerialInv, world
<1>2. WorldInv'
  BY WorldSame DEF IInv
<1>3. StageInv'
  <2>1. ArgumentsOK(req)' <=> ArgumentsOK(req)
    BY DEF client
  <2> QED BY <2>1 DEF IInv, StageInv, client
<1>4. HeaderInv'
  <2>1. Buf(3, buf_idx)' = Buf(3, buf_idx)
    BY DEF Buf, client
  <2> QED BY <2>1 DEF IInv, HeaderInv, client
<1>5. QuietInv'
  <2>1. FreshBytes' = FreshBytes
    BY SameFresh DEF client, world
  <2> QED BY <2>1 DEF IInv, QuietInv, client, world
<1>6. ResultInv'
  BY DEF IInv, ResultInv, IntactAnswer, Succeeded, FreshAnswer, client, world
<1> QED BY <1>1, <1>2, <1>3, <1>4, <1>5, <1>6 DEF IInv

\* The caller has its result.
LEMMA ReturnIInv ==
  ASSUME IInv, Return
  PROVE  IInv'
<1>1. /\ stage = "done" /\ stage' = "idle"
      /\ UNCHANGED <<serial, buf_idx, byte_timeout, req, registers, err, world>>
  BY DEF Return
<1>2. SerialInv' /\ WorldInv'
  BY <1>1, SerialSame, WorldSame DEF IInv, world
<1>3. StageInv'
  BY <1>1 DEF IInv, StageInv, Stages, serial
<1>4. HeaderInv' /\ QuietInv' /\ ResultInv'
  BY <1>1 DEF HeaderInv, QuietInv, ResultInv, IntactAnswer, Succeeded, FreshAnswer, Stages
<1> QED BY <1>2, <1>3, <1>4 DEF IInv

\* The fifo takes a byte, and never grows beyond its size.
LEMMA ReceiveShape ==
  ASSUME NEW S, NEW q \in Seq(S), Len(q) <= RxSize, NEW b \in S
  PROVE  LET r == IF Len(q) < RxSize THEN Append(q, b) ELSE Append(Tail(q), b) IN
         r \in Seq(S) /\ Len(r) <= RxSize
<1>1. RxSize \in Nat /\ RxSize > 0
  BY ClientAssumption
<1>2. CASE Len(q) < RxSize
  BY <1>1, <1>2
<1>3. CASE Len(q) >= RxSize
  <2>1. q # <<>> /\ Len(q) = RxSize
    BY <1>1, <1>3
  <2>2. Tail(q) \in Seq(S) /\ Len(Tail(q)) = RxSize - 1
    BY <2>1
  <2> DEFINE t == Tail(q)
  <2> HIDE DEF t
  <2>3. Append(t, b) \in Seq(S) /\ Len(Append(t, b)) = RxSize
    BY <1>1, <2>2 DEF t
  <2> QED BY <1>1, <1>3, <2>3 DEF t
<1> QED BY <1>1, <1>2, <1>3

\* A byte arrives, garbled or not, or is lost.
LEMMA LineIInv ==
  ASSUME IInv, LineDeliver
  PROVE  IInv'
<1>1. /\ line # <<>> /\ line' = Tail(line)
      /\ UNCHANGED <<mem, pc, base, count, read_bytes, n_bytes_read, ret>>
      /\ UNCHANGED <<client, device, inbox, answers>>
      /\ \/ rx' = rx
         \/ \E b \in {Head(line)} \cup Noise :
              rx' = IF Len(rx) < RxSize THEN Append(rx, b) ELSE Append(Tail(rx), b)
  BY DEF LineDeliver, RS!Receive, RS!call, serial
<1>2. Noise \subseteq PlainBytes
  BY ClientAssumption, PlainData
<1>3. ASSUME NEW S, PlainBytes \subseteq S, line \in Seq(S), rx \in Seq(S), Len(rx) <= RxSize
      PROVE  line' \in Seq(S) /\ rx' \in Seq(S) /\ Len(rx') <= RxSize
  <2>1. Head(line) \in S /\ Tail(line) \in Seq(S)
    BY <1>1, <1>3
  <2>2. ASSUME NEW b \in {Head(line)} \cup Noise,
               rx' = IF Len(rx) < RxSize THEN Append(rx, b) ELSE Append(Tail(rx), b)
        PROVE  rx' \in Seq(S) /\ Len(rx') <= RxSize
    <3>1. b \in S
      BY <1>2, <1>3, <2>1
    <3> QED BY <1>3, <2>2, <3>1, ReceiveShape
  <2> QED BY <1>1, <1>3, <2>1, <2>2
<1>4. PlainBytes \subseteq WireBytes /\ PlainBytes \subseteq FreshBytes
  BY DEF WireBytes, FreshBytes
<1>5. line' \in Seq(WireBytes) /\ rx' \in Seq(WireBytes) /\ Len(rx') <= RxSize
  BY <1>3, <1>4 DEF IInv, SerialInv, WorldInv
<1>6. SerialInv'
  BY <1>1, <1>5, SameWire DEF IInv, SerialInv
<1>7. WorldInv'
  BY <1>1, <1>5, SameWire DEF IInv, WorldInv
<1>8. StageInv'
  <2>1. ArgumentsOK(req)' <=> ArgumentsOK(req)
    BY <1>1 DEF client
  <2> QED BY <1>1, <2>1 DEF IInv, StageInv, client
<1>9. HeaderInv'
  <2>1. Buf(3, buf_idx)' = Buf(3, buf_idx)
    BY <1>1 DEF Buf, client
  <2> QED BY <1>1, <2>1 DEF IInv, HeaderInv, client
<1>10. QuietInv'
  <2>1. FreshBytes' = FreshBytes
    BY <1>1, SameFresh DEF client
  <2>2. Stored(device, req)' = Stored(device, req) /\ Touched(req)' = Touched(req)
    BY <1>1 DEF client
  <2>3. UNCHANGED <<stage, quiet, inbox, req, mem, pc, base, read_bytes, n_bytes_read, ret>>
    BY <1>1 DEF client
  <2>4. ~(stage = "send" /\ quiet)
    BY <1>1 DEF IInv, QuietInv
  <2>5. ASSUME stage \in Stages \cup {"recv"}, quiet
        PROVE  line' \in Seq(FreshBytes) /\ rx' \in Seq(FreshBytes)
    BY <1>3, <1>4, <2>5 DEF IInv, QuietInv, SerialInv
  <2> QED BY <2>1, <2>2, <2>3, <2>4, <2>5 DEF IInv, QuietInv
<1>11. ResultInv'
  BY <1>1 DEF IInv, ResultInv, IntactAnswer, Succeeded, FreshAnswer, client
<1> QED BY <1>6, <1>7, <1>8, <1>9, <1>10, <1>11 DEF IInv

\* The device answers: what it says is the truth about its registers.
LEMMA DeviceIInv ==
  ASSUME IInv, DeviceAnswer
  PROVE  IInv'
<1> DEFINE r == Head(inbox)
           known == Touched(r) \subseteq Addresses
           Bodies == IF known THEN {AnswerBody(r, Stored(device, r))} ELSE ExceptionBodies
<1>1. /\ inbox # <<>> /\ inbox' = Tail(inbox) /\ UNCHANGED <<serial, client>>
      /\ device' = IF known THEN Apply(device, r) ELSE device
      /\ answers' = IF known THEN answers \cup {AnswerBody(r, Stored(device, r))} ELSE answers
  BY DEF DeviceAnswer
<1>2. r \in Requests /\ r.fc \in {3, 16} /\ inbox' \in Seq(Requests)
  BY <1>1, ClientAssumption DEF IInv, WorldInv
<1>3. line' = line \/ \E b \in Bodies : line' = line \o b \o crc_calc(b)
  <2>1. CASE known
    BY <2>1 DEF DeviceAnswer
  <2>2. CASE ~known
    <3>1. PICK e \in Exceptions :
            LET b == << unit_id, <<r.fc + 128>>, <<e>> >> IN
            line' = line \/ line' = line \o b \o crc_calc(b)
      BY <2>2 DEF DeviceAnswer
    <3>2. << unit_id, <<r.fc + 128>>, <<e>> >> \in ExceptionBodies
      BY <1>2 DEF ExceptionBodies
    <3> QED BY <2>2, <3>1, <3>2
  <2> QED BY <2>1, <2>2
<1>4. \A b \in Bodies : b \in Seq(PlainBytes)
  <2>1. CASE known
    BY <1>2, <2>1, StoredShape, AnswerShape DEF IInv
  <2>2. CASE ~known
    BY <2>2, ExceptionShape
  <2> QED BY <2>1, <2>2
<1> HIDE DEF Bodies
<1>5. ASSUME NEW S, PlainBytes \cup Crcs(Bodies) \subseteq S, line \in Seq(S)
      PROVE  line' \in Seq(S)
  <2> SUFFICES ASSUME NEW b \in Bodies, line' = line \o b \o crc_calc(b) PROVE line' \in Seq(S)
    BY <1>3, <1>5
  <2> DEFINE f == b \o crc_calc(b)
             c == crc_calc(b)
  <2>1. f \in Seq(PlainBytes \cup Crcs(Bodies))
    BY <1>4, FrameBytes
  <2>2. b \in Seq(S) /\ c \in Seq(S)
    <3>1. b \in Seq(S)
      BY <1>4, <1>5
    <3>2. <<256, b>> \in S /\ <<257, b>> \in S
      BY <1>5 DEF Crcs
    <3> QED BY <3>1, <3>2 DEF crc_calc
  <2>3. line' = line \o b \o c
    OBVIOUS
  <2> HIDE DEF c
  <2> QED BY <1>5, <2>2, <2>3
<1>6. answers \subseteq answers' /\ Bodies \subseteq answers' \cup ExceptionBodies
  BY <1>1 DEF Bodies
<1>7. WireBytes \subseteq WireBytes' /\ StoredBytes \subseteq StoredBytes'
  BY <1>6, MoreWire
<1>8. SerialInv'
  <2>1. rx' \in Seq(WireBytes')
    <3>1. rx \in Seq(WireBytes) /\ rx' = rx
      BY <1>1 DEF IInv, SerialInv, serial
    <3> QED BY <1>7, <3>1
  <2>2. mem' \in [0 .. BufSize - 1 -> StoredBytes']
    <3>1. mem \in [0 .. BufSize - 1 -> StoredBytes] /\ mem' = mem
      BY <1>1 DEF IInv, SerialInv, serial
    <3> QED BY <1>7, <3>1
  <2> QED BY <1>1, <2>1, <2>2 DEF IInv, SerialInv, serial
<1>9. WorldInv'
  <2>1. PlainBytes \cup Crcs(Bodies) \subseteq WireBytes'
    BY <1>6 DEF WireBytes, Crcs
  <2>2. line \in Seq(WireBytes')
    BY <1>7 DEF IInv, WorldInv
  <2>3. line' \in Seq(WireBytes')
    BY <1>5, <2>1, <2>2
  <2>4. /\ DOMAIN device' = Addresses
        /\ \A a \in Addresses : device'[a][1] \in PlainBytes /\ device'[a][2] \in PlainBytes
    <3>1. CASE known
      BY <1>1, <1>2, <3>1, ApplyShape DEF IInv
    <3>2. CASE ~known
      BY <1>1, <3>2 DEF IInv, WorldInv
    <3> QED BY <3>1, <3>2
  <2> QED BY <1>2, <2>3, <2>4 DEF WorldInv
<1>10. StageInv'
  <2>1. ArgumentsOK(req)' <=> ArgumentsOK(req)
    BY <1>1 DEF client
  <2> QED BY <1>1, <2>1 DEF IInv, StageInv, client, serial
<1>11. HeaderInv'
  <2>1. Buf(3, buf_idx)' = Buf(3, buf_idx)
    BY <1>1 DEF Buf, client, serial
  <2> QED BY <1>1, <2>1 DEF IInv, HeaderInv, client, serial
<1>12. QuietInv'
  <2>1. UNCHANGED <<stage, quiet, req, rx, mem, pc, base, read_bytes, n_bytes_read, ret>>
    BY <1>1 DEF client, serial
  <2>2. ~(stage = "send" /\ quiet)
    BY <1>1 DEF IInv, QuietInv
  <2>3. ASSUME stage \in Stages \cup {"recv"}, quiet
        PROVE  /\ inbox' = <<>>
               /\ line' \in Seq(FreshBytes') /\ rx' \in Seq(FreshBytes')
               /\ req.fc = 16 /\ Touched(req) \subseteq Addresses => Stored(device', req) = req.data
               /\ FreshBytes \subseteq FreshBytes'
    <3>1. inbox = <<req>> /\ line \in Seq(FreshBytes) /\ rx \in Seq(FreshBytes)
      BY <1>1, <2>3 DEF IInv, QuietInv
    <3>2. r = req /\ inbox' = <<>>
      BY <1>1, <3>1
    <3>3. FreshBytes = PlainBytes
      BY <1>1 DEF FreshBytes, FreshBodies, Crcs
    <3>4. FreshBodies' = Bodies
      <4>1. CASE known
        <5>1. FreshBodies' = {AnswerBody(req, Stored(device', req))}
          BY <2>1, <3>2, <4>1 DEF FreshBodies
        <5>2. AnswerBody(req, Stored(device', req)) = AnswerBody(req, Stored(device, req))
          BY <1>1, <3>2, <4>1 DEF AnswerBody, Apply
        <5> QED BY <3>2, <4>1, <5>1, <5>2 DEF Bodies
      <4>2. CASE ~known
        BY <2>1, <3>2, <4>2 DEF FreshBodies, Bodies
      <4> QED BY <4>1, <4>2
    <3>5. FreshBytes' = PlainBytes \cup Crcs(Bodies)
      BY <3>4 DEF FreshBytes
    <3>6. line \in Seq(FreshBytes') /\ rx \in Seq(FreshBytes')
      BY <3>1, <3>3, <3>5
    <3>7. line' \in Seq(FreshBytes')
      BY <1>5, <3>5, <3>6
    <3>8. req.fc = 16 /\ Touched(req) \subseteq Addresses => Stored(device', req) = req.data
      BY <1>1, <1>2, <3>2, ApplyStores DEF IInv
    <3> QED BY <2>1, <3>2, <3>3, <3>5, <3>6, <3>7, <3>8
  <2>4. stage = "footer" => stage \in Stages
    BY DEF Stages
  <2>5. ASSUME stage = "footer", quiet
        PROVE  /\ pc = "byte_fifo_read" /\ n_bytes_read > 0 => mem[base] \in FreshBytes'
               /\ pc # "idle" /\ read_bytes > 0 => mem[base] \in FreshBytes'
               /\ pc = "idle" /\ ret > 0 => mem[base] \in FreshBytes'
    BY <2>3, <2>4, <2>5 DEF IInv, QuietInv
  <2> QED BY <2>1, <2>2, <2>3, <2>5 DEF QuietInv
<1>13. ResultInv'
  <2>1. UNCHANGED <<stage, err, req, registers, quiet>>
    BY <1>1 DEF client
  <2>2. IntactAnswer'
    BY <1>6, <2>1 DEF IInv, ResultInv, IntactAnswer, Succeeded
  <2>3. ~(stage = "done" /\ quiet /\ err = "NONE")
    BY <1>1 DEF IInv, ResultInv
  <2>4. DOMAIN device' = DOMAIN device
    BY <1>9 DEF IInv, WorldInv
  <2>5. FreshAnswer'
    BY <2>1, <2>3, <2>4 DEF IInv, ResultInv, FreshAnswer, Truthful
  <2> QED BY <2>1, <2>2, <2>3, <2>5 DEF ResultInv
<1> QED BY <1>8, <1>9, <1>10, <1>11, <1>12, <1>13 DEF IInv
-----------------------------------------------------------------------------
(* The theorems.                                                           *)

\* The client starts idle, with an empty line.
LEMMA InitIInv == Init => IInv
<1> SUFFICES ASSUME Init PROVE IInv
  OBVIOUS
<1>1. /\ rx = <<>> /\ pc = "idle" /\ base = 0 /\ count = 0 /\ read_bytes = 0
      /\ n_bytes_read = 0 /\ ret = 0 /\ stage = "idle" /\ buf_idx = 0
      /\ byte_timeout = "byte" /\ err = "NONE" /\ inbox = <<>> /\ line = <<>>
  BY DEF Init, RS!Init
<1>2. <<0>> \in StoredBytes
  BY PlainData DEF StoredBytes, WireBytes
<1>3. mem \in [0 .. BufSize - 1 -> StoredBytes]
  <2>1. (CHOOSE b \in {<<0>>} : TRUE) = <<0>>
    OBVIOUS
  <2> QED BY <1>2, <2>1 DEF Init, RS!Init
<1>4. SerialInv
  BY <1>1, <1>3, ClientAssumption DEF SerialInv
<1>5. WorldInv
  <2>1. \A a \in Addresses : device[a] = put_2(0)
    BY DEF Init
  <2>2. put_2(0)[1] \in PlainBytes /\ put_2(0)[2] \in PlainBytes
    BY PlainData
  <2> QED BY <1>1, <2>1, <2>2 DEF Init, WorldInv
<1>6. StageInv
  BY <1>1, ClientAssumption DEF StageInv, Stages
<1>7. HeaderInv /\ QuietInv /\ ResultInv
  BY <1>1 DEF HeaderInv, QuietInv, ResultInv, IntactAnswer, Succeeded, FreshAnswer, Stages
<1> QED BY <1>4, <1>5, <1>6, <1>7 DEF IInv

\* Every step keeps the invariant.
LEMMA NextIInv ==
  ASSUME BufSize >= 260
  PROVE  IInv /\ [Next]_vars => IInv'
<1> SUFFICES ASSUME IInv, [Next]_vars PROVE IInv'
  OBVIOUS
<1>1. ASSUME NEW r \in Requests, Request(r) PROVE IInv'
  BY <1>1, RequestIInv
<1>2. CASE MsgStateReq
  BY <1>2, FlushIInv
<1>3. CASE SendMsg
  BY <1>3, SendIInv
<1>4. CASE RecvMsgHeader \/ RecvUnitId
  BY <1>4, HeaderStartIInv
<1>5. CASE RecvResHeader
  BY <1>5, ResHeaderIInv
<1>6. CASE RecvRegistersBytes
  BY <1>6, RegistersBytesIInv
<1>7. CASE RecvRegisters
  BY <1>7, RegistersIInv
<1>8. CASE RecvEcho \/ RecvException
  BY <1>8, EchoIInv
<1>9. CASE RecvMsgFooter
  BY <1>9, FooterIInv
<1>10. ASSUME NEW s \in Stages, RecvFails(s) PROVE IInv'
  BY <1>10, RecvFailsIInv
<1>11. CASE RS!Step /\ UNCHANGED <<client, world>>
  BY <1>11, PollIInv, TakeIInv DEF RS!Step
<1>12. CASE Return
  BY <1>12, ReturnIInv
<1>13. CASE DeviceAnswer
  BY <1>13, DeviceIInv
<1>14. CASE LineDeliver
  BY <1>14, LineIInv
<1>15. CASE Time \/ UNCHANGED vars
  <2>1. UNCHANGED <<rx, mem, pc, base, count, read_bytes, n_bytes_read, ret, client, world>>
    BY <1>15 DEF Time, RS!Tick, RS!call, vars, serial
  <2> QED BY <2>1, IdleIInv
<1>16. CASE Terminating
  BY <1>15, <1>16 DEF Terminating
<1> QED BY <1>1, <1>2, <1>3, <1>4, <1>5, <1>6, <1>7, <1>8, <1>9, <1>10, <1>11, <1>12,
           <1>13, <1>14, <1>15, <1>16 DEF Next, ClientStep

\* The invariant holds in every reachable state of a client with the buffer of
\* nanomodbus.
THEOREM Invariance ==
  ASSUME BufSize >= 260
  PROVE  Spec => []IInv
BY InitIInv, NextIInv, PTL DEF Spec

\* The fifo, msg.buf and the results keep their types: no recv is asked for
\* bytes beyond the end of msg.buf, whatever byte count an answer carries.
THEOREM TypeCorrect ==
  ASSUME BufSize >= 260
  PROVE  Spec => []TypeOK
<1>1. IInv => TypeOK
  BY DEF IInv, SerialInv, StageInv, TypeOK
<1> QED BY <1>1, Invariance, PTL

\* A call that succeeds hands out one whole answer of the device.
THEOREM AnswersIntact ==
  ASSUME BufSize >= 260
  PROVE  Spec => []IntactAnswer
<1>1. IInv => IntactAnswer
  BY DEF IInv, ResultInv
<1> QED BY <1>1, Invariance, PTL

\* A call that finds the line quiet returns the truth about the device.
THEOREM AnswersFresh ==
  ASSUME BufSize >= 260
  PROVE  Spec => []FreshAnswer
<1>1. IInv => FreshAnswer
  BY DEF IInv, ResultInv
<1> QED BY <1>1, Invariance, PTL
-----------------------------------------------------------------------------
(* The client implements the transaction.                                  *)

\* What follows a part is left when the part is dropped.
LEMMA DropHeader ==
  ASSUME NEW S, NEW h \in Seq(S), NEW t \in Seq(S)
  PROVE  SubSeq(h \o t, Len(h) + 1, Len(h \o t)) = t
<1> DEFINE b == h \o t
           u == SubSeq(b, Len(h) + 1, Len(b))
<1>1. Len(h) \in Nat /\ Len(t) \in Nat
  OBVIOUS
<1>2. b \in Seq(S) /\ Len(b) = Len(h) + Len(t)
  OBVIOUS
<1>3. ASSUME NEW k \in 1 .. Len(t) PROVE b[Len(h) + k] = t[k]
  BY <1>1
<1> HIDE DEF b
<1>4. u \in Seq(S) /\ Len(u) = Len(t)
  BY <1>1, <1>2
<1>5. ASSUME NEW k \in 1 .. Len(t) PROVE u[k] = b[Len(h) + k]
  BY <1>1, <1>2
<1> HIDE DEF u
<1>6. u = t
  BY <1>3, <1>4, <1>5, SeqEqual
<1> QED BY <1>6 DEF u, b

\* The registers of an answer to a read are what follows its three bytes.
LEMMA AnswerData ==
  ASSUME NEW S, PlainBytes \subseteq S, NEW r \in Requests, r.fc = 3, NEW data \in Seq(S)
  PROVE  SubSeq(AnswerBody(r, data), 4, Len(AnswerBody(r, data))) = data
<1> DEFINE h == << unit_id, <<3>>, <<2 * r.quantity>> >>
<1>1. unit_id \in S /\ <<3>> \in S /\ <<2 * r.quantity>> \in S
  BY ClientAssumption, PlainData DEF unit_id
<1>2. h \in Seq(S) /\ Len(h) + 1 = 4
  BY <1>1
<1>3. AnswerBody(r, data) = h \o data
  BY DEF AnswerBody
<1> HIDE DEF h
<1>4. SubSeq(h \o data, Len(h) + 1, Len(h \o data)) = data
  BY <1>2, DropHeader
<1> QED BY <1>2, <1>3, <1>4, Zenon

\* Client and transaction speak of the same frames.
LEMMA SameFrames ==
  /\ Promise!NoRequest = NoRequest
  /\ \A n : Promise!put_2(n) = put_2(n)
  /\ \A r : Promise!ArgumentsOK(r) <=> ArgumentsOK(r)
  /\ \A r, data : Promise!AnswerBody(r, data) = AnswerBody(r, data)
  /\ \A r : Promise!Touched(r) = Touched(r)
  /\ \A regs, r : Promise!Stored(regs, r) = Stored(regs, r)
  /\ \A regs, r : Promise!Apply(regs, r) = Apply(regs, r)
  /\ \A e, r, data, regs : Promise!Truthful(e, r, data, regs) <=> Truthful(e, r, data, regs)
<1>1. Promise!NoRequest = NoRequest
  BY DEF Promise!NoRequest, NoRequest
<1>2. \A n : Promise!put_2(n) = put_2(n)
  BY Zenon DEF Promise!put_2, put_2
<1>3. \A r : Promise!ArgumentsOK(r) <=> ArgumentsOK(r)
  BY DEF Promise!ArgumentsOK, ArgumentsOK
<1>4. \A r, data : Promise!AnswerBody(r, data) = AnswerBody(r, data)
  BY <1>2, Zenon DEF Promise!AnswerBody, AnswerBody, Promise!unit_id, unit_id
<1>5. \A r : Promise!Touched(r) = Touched(r)
  BY Zenon DEF Promise!Touched, Touched
<1>6. \A regs, r : Promise!Stored(regs, r) = Stored(regs, r)
  BY Zenon DEF Promise!Stored, Stored
<1>7. \A regs, r : Promise!Apply(regs, r) = Apply(regs, r)
  BY <1>5, Zenon DEF Promise!Apply, Apply
<1>8. \A e, r, data, regs : Promise!Truthful(e, r, data, regs) <=> Truthful(e, r, data, regs)
  BY <1>5, <1>6 DEF Promise!Truthful, Truthful
<1> QED BY <1>1, <1>2, <1>3, <1>4, <1>5, <1>6, <1>7, <1>8

\* The client starts as the abstract one does.
LEMMA InitImplements == Init => Promise!Init
<1>1. Promise!NoRequest = NoRequest /\ Promise!put_2(0) = put_2(0)
  BY DEF Promise!NoRequest, NoRequest, Promise!put_2, put_2
<1> QED BY <1>1 DEF Init, Promise!Init, phase, Succeeded

\* A step inside the wait for an answer is no step of the transaction.
LEMMA WaitImplements ==
  ASSUME stage \in Stages \cup {"recv"}, stage' \in Stages \cup {"recv"},
         UNCHANGED <<req, quiet, device, inbox, answers, calls>>
  PROVE  UNCHANGED Promise!vars
BY DEF Promise!vars, phase, Succeeded, Stages

\* The call ends with an error.
LEMMA FailImplements ==
  ASSUME stage \in Stages \cup {"send"}, stage' = "done",
         err' \in {"TIMEOUT", "TRANSPORT", "CRC", "INVALID_UNIT_ID", "INVALID_RESPONSE",
                   "EXCEPTION"},
         UNCHANGED <<req, quiet, device, inbox, answers, calls>>, FreshAnswer'
  PROVE  Promise!Fail
<1>1. phase \in {"busy", "sent"} /\ phase' = "done" /\ stage # "idle" /\ stage # "done"
  BY DEF phase, Stages
<1>2. ~Succeeded /\ ~Succeeded'
  BY <1>1 DEF Succeeded
<1>3. quiet /\ err' = "EXCEPTION" => ~(Touched(req) \subseteq DOMAIN device)
  BY DEF FreshAnswer, Truthful
<1>4. quiet /\ err' = "EXCEPTION" => Promise!Truthful(err', req, <<>>, device)
  BY <1>3, SameFrames DEF Truthful
<1> QED BY <1>1, <1>2, <1>4 DEF Promise!Fail, Promise!Errors

\* The call succeeds.
LEMMA SucceedImplements ==
  ASSUME IInv, IInv', stage \in Stages, stage' = "done", err' = "NONE",
         req.fc = 3 => registers' \in Seq(StoredBytes),
         UNCHANGED <<req, quiet, device, inbox, answers, calls>>
  PROVE  Promise!Succeed
<1>1. phase = "sent" /\ phase' = "done" /\ stage # "idle" /\ stage # "done"
  BY DEF phase, Stages
<1>2. ~Succeeded /\ Succeeded'
  BY <1>1 DEF Succeeded
<1>3. AnswerBody(req, registers') \in answers
  BY <1>2 DEF IInv, ResultInv, IntactAnswer
<1>4. req \in Requests /\ (req.fc # 3 => registers' = <<>>)
  BY <1>1 DEF IInv, StageInv
<1>5. registers' \in {<<>>} \cup {SubSeq(b, 4, Len(b)) : b \in answers}
  <2>1. CASE req.fc = 3
    <3>1. PlainBytes \subseteq StoredBytes
      BY DEF StoredBytes, WireBytes
    <3>2. SubSeq(AnswerBody(req, registers'), 4, Len(AnswerBody(req, registers'))) = registers'
      BY <1>4, <2>1, <3>1, AnswerData
    <3> QED BY <1>3, <3>2
  <2>2. CASE req.fc # 3
    BY <1>4, <2>2
  <2> QED BY <2>1, <2>2
<1>6. quiet => Truthful("NONE", req, registers', device) /\ inbox = <<>>
  BY DEF IInv, ResultInv, FreshAnswer
<1>7. /\ Promise!AnswerBody(req, registers') \in answers
      /\ quiet => Promise!Truthful("NONE", req, registers', device) /\ inbox = <<>>
  BY <1>3, <1>6, SameFrames
<1> QED BY <1>1, <1>2, <1>4, <1>5, <1>7 DEF Promise!Succeed

\* A call begins.
LEMMA RequestImplements ==
  ASSUME NEW r \in Requests, Request(r)
  PROVE  Promise!Request(r)
<1>1. /\ stage = "idle" /\ req' = r /\ calls < MaxRequests /\ calls' = calls + 1
      /\ UNCHANGED <<quiet, device, inbox, answers>>
      /\ IF ArgumentsOK(r) THEN stage' = "flush" /\ err' = "NONE"
                           ELSE stage' = "done" /\ err' = "INVALID_ARGUMENT"
  BY DEF Request, Finish, world
<1>2. Promise!ArgumentsOK(r) <=> ArgumentsOK(r)
  BY SameFrames
<1> HIDE DEF ArgumentsOK
<1> QED BY <1>1, <1>2 DEF Promise!Request, phase, Succeeded

\* The request is flushed and sent, or not.
LEMMA SendImplements ==
  ASSUME IInv', MsgStateReq \/ SendMsg
  PROVE  Promise!Flush \/ Promise!Send \/ Promise!Fail
<1>1. CASE MsgStateReq
  <2>1. /\ stage = "flush" /\ stage' = "send"
        /\ UNCHANGED <<req, registers, err, device, inbox, answers, calls>>
        /\ quiet' = (line = <<>> /\ inbox = <<>>)
    BY <1>1 DEF MsgStateReq, world
  <2>2. quiet' \in BOOLEAN /\ (quiet' => inbox = <<>>)
    BY <2>1
  <2> QED BY <2>1, <2>2 DEF Promise!Flush, phase, Succeeded
<1>2. CASE SendMsg
  <2>1. /\ stage = "send" /\ UNCHANGED <<req, registers, quiet, device, answers, calls>>
        /\ \/ stage' = "recv" /\ err' = err /\ inbox' = Append(inbox, req)
           \/ stage' = "done" /\ err' \in {"TIMEOUT", "TRANSPORT"} /\ inbox' = inbox
    BY <1>2 DEF SendMsg, write_serial, SendErrors, Finish
  <2>2. CASE stage' = "recv" /\ inbox' = Append(inbox, req)
    BY <2>1, <2>2 DEF Promise!Send, phase, Succeeded
  <2>3. CASE stage' = "done" /\ err' \in {"TIMEOUT", "TRANSPORT"} /\ inbox' = inbox
    <3>1. FreshAnswer'
      BY DEF IInv, ResultInv
    <3> QED BY <2>1, <2>3, <3>1, FailImplements
  <2> QED BY <2>1, <2>2, <2>3
<1> QED BY <1>1, <1>2

\* The footer decides: the call succeeds or fails.
LEMMA FooterImplements ==
  ASSUME BufSize >= 260, IInv, IInv', RecvMsgFooter
  PROVE  Promise!Succeed \/ Promise!Fail
<1> DEFINE good == Buf(buf_idx, buf_idx + 2) = crc_calc(Buf(0, buf_idx))
<1>1. /\ stage = "footer" /\ stage' = "done"
      /\ err' = IF good THEN Verdict ELSE "CRC"
      /\ UNCHANGED <<buf_idx, mem, req, registers, quiet, device, inbox, answers, calls>>
  BY DEF RecvMsgFooter, Reject, Returned, Finish, world, serial
<1>2. Verdict \in {"NONE", "INVALID_RESPONSE", "EXCEPTION"}
  BY DEF Verdict
<1>3. stage \in Stages
  BY <1>1 DEF Stages
<1> HIDE DEF good
<1>4. CASE err' = "NONE"
  <2>1. good /\ Verdict = "NONE"
    BY <1>1, <1>2, <1>4
  <2>2. ASSUME req.fc = 3 PROVE registers' \in Seq(StoredBytes)
    <3>1. req \in Requests /\ mem[1] # <<req.fc + 128>>
      BY <1>1, <2>1 DEF IInv, StageInv, Verdict
    <3>2. registers = Buf(3, buf_idx)
      BY <1>1, <2>2, <3>1 DEF IInv, HeaderInv
    <3>3. buf_idx \in Nat /\ 3 <= buf_idx /\ buf_idx <= BufSize
      BY <1>1, <1>3, ClientAssumption DEF IInv, StageInv
    <3> QED BY <1>1, <3>2, <3>3, BufSeq DEF IInv
  <2> QED BY <1>1, <1>3, <1>4, <2>2, SucceedImplements
<1>5. CASE err' \in {"CRC", "INVALID_RESPONSE", "EXCEPTION"}
  <2>1. FreshAnswer'
    BY DEF IInv, ResultInv
  <2> QED BY <1>1, <1>3, <1>5, <2>1, FailImplements
<1> QED BY <1>1, <1>2, <1>4, <1>5

\* The device carries out a request, the caller gets its result.
LEMMA DeviceImplements ==
  ASSUME IInv, DeviceAnswer
  PROVE  Promise!Execute
<1> DEFINE r == Head(inbox)
<1>1. /\ inbox # <<>> /\ inbox' = Tail(inbox)
      /\ IF Touched(r) \subseteq Addresses
           THEN /\ device' = Apply(device, r)
                /\ answers' = answers \cup {AnswerBody(r, Stored(device, r))}
           ELSE UNCHANGED <<device, answers>>
  BY DEF DeviceAnswer
<1>2. UNCHANGED <<stage, req, registers, err, quiet, calls>>
  BY DEF DeviceAnswer, client
<1>3. /\ Promise!Touched(r) = Touched(r) /\ Promise!Apply(device, r) = Apply(device, r)
      /\ Promise!AnswerBody(r, Promise!Stored(device, r)) = AnswerBody(r, Stored(device, r))
  BY SameFrames
<1> HIDE DEF r
<1>4. IF Promise!Touched(r) \subseteq Addresses
        THEN /\ device' = Promise!Apply(device, r)
             /\ answers' = answers \cup {Promise!AnswerBody(r, Promise!Stored(device, r))}
        ELSE UNCHANGED <<device, answers>>
  BY <1>1, <1>3
<1>5. /\ phase' = phase /\ (Succeeded' <=> Succeeded)
  BY <1>2 DEF phase, Succeeded
<1> QED BY <1>1, <1>2, <1>4, <1>5 DEF Promise!Execute, r

\* The call returns.
LEMMA ReturnImplements ==
  ASSUME Return
  PROVE  Promise!Return
<1>1. /\ stage = "done" /\ stage' = "idle" /\ quiet' = TRUE
      /\ UNCHANGED <<device, inbox, answers, calls>>
  BY DEF Return, world
<1> QED BY <1>1, SameFrames DEF Promise!Return, phase, Succeeded

\* The bytes before the last are awaited, one recv after the other, or the
\* wait fails.
LEMMA AnswerImplements ==
  ASSUME IInv', RecvMsgHeader \/ RecvUnitId \/ RecvResHeader \/ RecvRegistersBytes
                \/ RecvRegisters \/ RecvEcho \/ RecvException \/ \E s \in Stages : RecvFails(s)
  PROVE  Promise!Fail \/ UNCHANGED Promise!vars
<1>1. FreshAnswer'
  BY DEF IInv, ResultInv
<1>2. ASSUME NEW s \in Stages, NEW e \in {"INVALID_UNIT_ID", "INVALID_RESPONSE"}, Reject(s, e)
      PROVE  Promise!Fail
  <2>1. /\ stage \in Stages /\ stage' = "done" /\ err' = e
        /\ UNCHANGED <<req, quiet, device, inbox, answers, calls>>
    BY <1>2 DEF Reject, Returned, Finish, world
  <2> QED BY <1>1, <2>1, FailImplements
<1>3. ASSUME NEW s \in Stages, RecvFails(s) PROVE Promise!Fail
  <2>1. /\ stage \in Stages /\ stage' = "done" /\ err' \in {"TIMEOUT", "TRANSPORT"}
        /\ UNCHANGED <<req, quiet, device, inbox, answers, calls>>
    BY <1>3 DEF RecvFails, Returned, RecvResult, Finish, world
  <2> QED BY <1>1, <2>1, FailImplements
<1>4. ASSUME NEW s \in Stages, NEW i, NEW n, recv(s, i, n), stage \in Stages \cup {"recv"},
             UNCHANGED <<req, quiet, calls, world>>
      PROVE  UNCHANGED Promise!vars
  <2>1. stage' \in Stages \cup {"recv"} /\ UNCHANGED <<req, quiet, device, inbox, answers, calls>>
    BY <1>4 DEF recv, world
  <2> QED BY <1>4, <2>1, WaitImplements
<1>5. CASE RecvMsgHeader \/ RecvUnitId
  BY <1>4, <1>5 DEF RecvMsgHeader, RecvUnitId, Returned, Stages
<1>6. CASE RecvResHeader
  BY <1>2, <1>4, <1>6 DEF RecvResHeader, Returned, Stages
<1>7. CASE RecvRegistersBytes
  BY <1>2, <1>4, <1>7 DEF RecvRegistersBytes, Returned, Stages
<1>8. CASE RecvRegisters \/ RecvEcho \/ RecvException
  BY <1>4, <1>8 DEF RecvRegisters, RecvEcho, RecvException, Returned, Stages
<1> QED BY <1>3, <1>5, <1>6, <1>7, <1>8

\* read_serial, the line and the clock work below the transaction.
LEMMA BelowImplements ==
  ASSUME UNCHANGED <<client, device, inbox, answers>>
  PROVE  UNCHANGED Promise!vars
BY DEF client, Promise!vars, phase, Succeeded

\* Every step of the client is a step of the transaction or none.
LEMMA NextImplements ==
  ASSUME BufSize >= 260
  PROVE  IInv /\ IInv' /\ [Next]_vars => [Promise!Next]_(Promise!vars)
<1> SUFFICES ASSUME IInv, IInv', [Next]_vars PROVE Promise!Next \/ UNCHANGED Promise!vars
  OBVIOUS
<1>1. ASSUME NEW r \in Requests, Request(r) PROVE Promise!Next
  BY <1>1, RequestImplements DEF Promise!Next
<1>2. CASE MsgStateReq \/ SendMsg
  BY <1>2, SendImplements DEF Promise!Next
<1>3. CASE RecvMsgHeader \/ RecvUnitId \/ RecvResHeader \/ RecvRegistersBytes
           \/ RecvRegisters \/ RecvEcho \/ RecvException \/ \E s \in Stages : RecvFails(s)
  BY <1>3, AnswerImplements DEF Promise!Next
<1>4. CASE RecvMsgFooter
  BY <1>4, FooterImplements DEF Promise!Next
<1>5. CASE Return
  BY <1>5, ReturnImplements DEF Promise!Next
<1>6. CASE DeviceAnswer
  BY <1>6, DeviceImplements DEF Promise!Next
<1>7. CASE \/ RS!Step /\ UNCHANGED <<client, world>>
           \/ LineDeliver \/ Time \/ Terminating \/ UNCHANGED vars
  <2>1. UNCHANGED <<client, device, inbox, answers>>
    BY <1>7 DEF LineDeliver, Time, Terminating, vars, world
  <2> QED BY <2>1, BelowImplements
<1> QED BY <1>1, <1>2, <1>3, <1>4, <1>5, <1>6, <1>7 DEF Next, ClientStep

\* nanomodbus over read_serial implements the transaction, for any requests,
\* any device, any fifo and any faults of the line.
THEOREM ClientImplementsTransaction ==
  ASSUME BufSize >= 260
  PROVE  Spec => ImplementsTransaction
BY InitImplements, NextImplements, Invariance, PTL DEF Spec, ImplementsTransaction, Promise!Spec
=============================================================================
