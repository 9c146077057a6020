--------------------------- MODULE MCJsonSession ---------------------------
(* Small instances of JsonSession. *)
EXTENDS JsonSession

CONSTANTS k1, k2
=============================================================================
