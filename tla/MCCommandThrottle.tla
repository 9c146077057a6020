-------------------------- MODULE MCCommandThrottle --------------------------
(* Small instances of CommandThrottle. *)
EXTENDS CommandThrottle, TLC

CONSTANTS c1, c2, c3, c4, a1, a2
CommandSymmetry == Permutations({c1, c2, c3, c4}) \cup Permutations({a1, a2})
=============================================================================
