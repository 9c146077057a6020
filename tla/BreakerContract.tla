--------------------------- MODULE BreakerContract ---------------------------
(***************************************************************************)
(* What a circuit breaker promises to the traffic of one proxy, without    *)
(* counters or error classes:                                              *)
(*   - while it is open no ordinary request starts;                        *)
(*   - it leaves "open" only when Cooldown ticks have passed since the     *)
(*     last failure it saw, or by an explicit reset;                       *)
(*   - it opens only at the moment a failure is seen, and closes again     *)
(*     only from "half_open" or by a reset.                                *)
(* The bypass methods (ping, init, ...) are not ordinary requests.         *)
(***************************************************************************)
EXTENDS Naturals

CONSTANTS Caller,    \* the tasks that may have a request in flight
          Cooldown,  \* recovery_timeout, in ticks
          Never      \* no failure has been seen

VARIABLES phase,     \* "closed", "open" or "half_open"
          quiet,     \* ticks since the last failure, saturating at Cooldown
          sending    \* the callers whose ordinary request is in flight

contractVars == <<phase, quiet, sending>>

ContractInit == phase = "closed" /\ quiet = Never /\ sending = {}

\* A call moves an open breaker to half_open once the cooldown is over; it is
\* either sent (Start) or fails before it reaches the wire (Fail).
Probe == IF phase = "open" /\ quiet = Cooldown THEN "half_open" ELSE phase

Start(c) == /\ Probe # "open"
            /\ c \notin sending
            /\ phase' = Probe
            /\ sending' = sending \cup {c}
            /\ quiet' = quiet

\* A failure: seen by a request that ends, or by one that never started.
Fail == /\ quiet' = 0
        /\ \/ phase' = "open"
           \/ phase = "closed" /\ phase' = "closed"
        /\ sending' \subseteq sending

\* A success may close a half-open breaker; any answer ends its request.
Succeed == /\ \/ phase' = phase
              \/ phase = "half_open" /\ phase' = "closed"
           /\ sending' \subseteq sending
           /\ quiet' = quiet

ForceClosed == phase' = "closed" /\ quiet' = Never /\ sending' = sending

Elapse == /\ quiet # Never
          /\ quiet < Cooldown
          /\ quiet' = quiet + 1
          /\ UNCHANGED <<phase, sending>>

ContractNext == (\E c \in Caller : Start(c)) \/ Fail \/ Succeed \/ ForceClosed \/ Elapse

ContractSpec == ContractInit /\ [][ContractNext]_contractVars
=============================================================================
