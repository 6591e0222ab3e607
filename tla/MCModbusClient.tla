--------------------------- MODULE MCModbusClient ---------------------------
(* One client, one device with two registers, frames of one or two         *)
(* registers.                                                              *)
EXTENDS ModbusClient

Read(a, q) == [fc |-> 3, address |-> a, quantity |-> q, data |-> <<>>]
Write(a, d) == [fc |-> 16, address |-> a, quantity |-> Len(d) \div 2, data |-> d]

MCAddresses == {0, 1}

\* Reads of one and of two registers, a write, a read of a register that does
\* not exist, a read of no register.
MCRequests ==
  { Read(0, 1), Read(0, 2), Write(1, << <<0>>, <<5>> >>), Read(2, 1), Read(0, 0) }

MCNoise == { <<4>>, <<255>> }
=============================================================================
