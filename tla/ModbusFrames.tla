---------------------------- MODULE ModbusFrames ----------------------------
(***************************************************************************)
(* The two RTU exchanges the driver uses, at the level of bytes: request 3 *)
(* (read holding registers) and request 16 (write multiple registers).     *)
(* A request is [fc, address, quantity, data], data the bytes of the       *)
(* registers to write.                                                     *)
(*                                                                         *)
(* A byte is <<n>>.  The checksum is an ideal one: its two bytes are       *)
(* <<256, p>> and <<257, p>> for the bytes p it covers, different for      *)
(* every p and different from every other byte.                            *)
(***************************************************************************)
EXTENDS Integers, Sequences

NoRequest == [fc |-> 0, address |-> 0, quantity |-> 0, data |-> <<>>]

\* Bytes of data, which the ideal checksum tells from its own.
DataByte == {<<n>> : n \in 0 .. 255}

\* nmbs_set_destination_rtu_address(&nmbs, 0x01)
unit_id == <<1>>

\* High byte first.
put_2(n) == << <<n \div 256>>, <<n % 256>> >>

crc_calc(p) == << <<256, p>>, <<257, p>> >>

\* The argument checks of read_registers and nmbs_write_multiple_registers.
ArgumentsOK(r) ==
  /\ r.quantity >= 1
  /\ r.quantity <= IF r.fc = 3 THEN 125 ELSE 123
  /\ r.address + r.quantity <= 65536

\* put_req_header and what the two functions put after it.
RequestBody(r) ==
  << unit_id, <<r.fc>> >> \o put_2(r.address) \o put_2(r.quantity)
    \o (IF r.fc = 3 THEN <<>> ELSE << <<2 * r.quantity>> >> \o r.data)

\* What a correct answer to r carries before its checksum.
AnswerBody(r, data) ==
  IF r.fc = 3 THEN << unit_id, <<3>>, <<2 * r.quantity>> >> \o data
              ELSE << unit_id, <<16>> >> \o put_2(r.address) \o put_2(r.quantity)

\* External: a device whose registers hold regs.

Touched(r) == r.address .. r.address + r.quantity - 1

\* The bytes of the registers r is about.
Stored(regs, r) ==
  [i \in 1 .. 2 * r.quantity |-> regs[r.address + (i - 1) \div 2][2 - (i % 2)]]

\* The registers after r.
Apply(regs, r) ==
  IF r.fc = 3 THEN regs
  ELSE [a \in DOMAIN regs |->
          IF a \in Touched(r)
            THEN SubSeq(r.data, 2 * (a - r.address) + 1, 2 * (a - r.address) + 2)
            ELSE regs[a]]

\* The result e with registers data is true of the device.
Truthful(e, r, data, regs) ==
  /\ e = "NONE" /\ r.fc = 3 => data = Stored(regs, r)
  /\ e = "NONE" /\ r.fc = 16 => Stored(regs, r) = r.data
  /\ e = "EXCEPTION" => ~(Touched(r) \subseteq DOMAIN regs)
=============================================================================
