--------------------------- MODULE MCModbusDriver ---------------------------
(* Two threads, one file, a device with two registers.                     *)
EXTENDS ModbusDriver

MCFill == { <<5>> }
=============================================================================
