------------------------- MODULE MCRequestCoalescer -------------------------
(* A small instance of RequestCoalescer. *)
EXTENDS RequestCoalescer

CONSTANTS c1, c2, c3, k1, k2
=============================================================================
