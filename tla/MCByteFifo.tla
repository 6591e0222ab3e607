----------------------------- MODULE MCByteFifo -----------------------------
(* The fifo with a ring small enough to wrap and to overflow often.        *)
EXTENDS ByteFifo
=============================================================================
