---------------------------- MODULE MCReadSerial ----------------------------
(* read_serial over a fifo of a few bytes with two byte values.            *)
EXTENDS ReadSerial
=============================================================================
