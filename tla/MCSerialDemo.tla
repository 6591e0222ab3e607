---------------------------- MODULE MCSerialDemo ----------------------------
(* The demo, any number of times, while module and device come and go.     *)
EXTENDS SerialDemo
=============================================================================
