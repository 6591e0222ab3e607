-------------------------- MODULE MCSerialControl ---------------------------
(* Mapping files of two lines and a few commands, on scaled-down integers. *)
EXTENDS SerialControl
=============================================================================
