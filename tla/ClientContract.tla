--------------------------- MODULE ClientContract ---------------------------
(***************************************************************************)
(* A client as the recovery coordinator relies on it, without proxy,       *)
(* requests, error counts or events:                                       *)
(*   - at most one task at a time is inside reconnect() or the first       *)
(*     connection, and it alone takes the client from RECONNECTING to      *)
(*     CONNECTING and on to CONNECTED or FAILED;                           *)
(*   - in between nobody else touches the client: the connection check     *)
(*     disconnects it only while it is CONNECTED;                          *)
(*   - a reconnect begins from every other state a created client is in.   *)
(* ClientLifecycle implements this with its proxy, and ConnectionRecovery  *)
(* assumes no more of the client of each interface.                        *)
(***************************************************************************)
CONSTANT Task        \* the tasks that reconnect the client

VARIABLES phase,     \* the client's state; "CREATED" before it is initialised, and
                     \* "STOPPED" from the moment it is being stopped
          inside     \* the task inside reconnect() or the first connection

contractVars == <<phase, inside>>

ContractInit == phase = "CREATED" /\ inside = {}

\* Created and initialised; the start of the central also tries to connect it.
Created == /\ phase = "CREATED" /\ phase' \in {"INITIALIZED", "CONNECTED", "FAILED"}
           /\ inside = {} /\ UNCHANGED inside

Connects(t) == /\ phase = "INITIALIZED" /\ phase' = "CONNECTING"
               /\ inside = {} /\ inside' = {t}

Reconnects(t) == /\ phase \in {"INITIALIZED", "CONNECTED", "DISCONNECTED", "FAILED"}
                 /\ phase' = "RECONNECTING"
                 /\ inside = {} /\ inside' = {t}

Reinitialises(t) == /\ phase = "RECONNECTING" /\ phase' = "CONNECTING"
                    /\ inside = {t} /\ UNCHANGED inside

Settles(t) == /\ phase = "CONNECTING" /\ phase' \in {"CONNECTED", "FAILED"}
              /\ inside = {t} /\ inside' = {}

Disconnected == /\ phase = "CONNECTED" /\ phase' = "DISCONNECTED"
                /\ inside = {} /\ UNCHANGED inside

Stopped == phase' = "STOPPED" /\ inside' = {}

ContractNext ==
    \/ Created \/ Disconnected \/ Stopped
    \/ \E t \in Task : Connects(t) \/ Reconnects(t) \/ Reinitialises(t) \/ Settles(t)

ContractSpec == ContractInit /\ [][ContractNext]_contractVars
=============================================================================
