----------------------------- MODULE MCSendPath -----------------------------
(* Small instances of SendPath. *)
EXTENDS SendPath, TLC

CONSTANTS c1, c2, level, ramp, low, high

Call(b, v, d, r, p) == [batch |-> b, value |-> v, direct |-> d, retry |-> r, purge |-> p]

\* c1: a collector with one paramset of two parameters, or with two paramsets and
\* retry off.
\* c2: a direct send of either value, or a CRITICAL command of a collector that
\* is not retried.
TwoCommands ==
    (c1 :> {Call(<<<<level, ramp>>>>, high, FALSE, TRUE, FALSE),
            Call(<<<<level>>, <<ramp>>>>, high, FALSE, FALSE, FALSE)})
    @@ (c2 :> {Call(<<<<level>>>>, v, TRUE, TRUE, FALSE) : v \in {low, high}}
              \cup {Call(<<<<level>>>>, low, FALSE, FALSE, TRUE)})
=============================================================================
