-------------------------- MODULE ClientLifecycle --------------------------
(***************************************************************************)
(* InterfaceClient of ONE interface (aiohomematic/client/                  *)
(* interface_client.py) on its ClientStateMachine (client/                 *)
(* state_machine.py), with the central's handler of client state changes   *)
(* (central/central_unit.py, _on_system_status_event).                     *)
(*                                                                         *)
(* Three kinds of actors await the same proxy: the tasks that reconnect    *)
(* the client, the scheduler's connection check and stop_clients().  The   *)
(* proxy has one worker thread (const.py, DEFAULT_MAX_WORKERS), so their   *)
(* requests reach the CCU one after the other, in the order of sending;    *)
(* each actor runs from one await to the next without interruption.        *)
(* State changes reach the central as events, delivered later and in       *)
(* order.                                                                  *)
(***************************************************************************)
EXTENDS Integers, Sequences, FiniteSetsExt

CONSTANTS Task,            \* the tasks that reconnect the client
          ErrorThreshold,  \* connectivity_error_threshold
          MaxEvents        \* bound: undelivered events

ASSUME LifecycleAssumption ==
    /\ ErrorThreshold \in Nat
    /\ Task \cap {"check", "stop"} = {}

VARIABLES
    state,       \* _state_machine.state
    callback,    \* backend.capabilities.rpc_callback
    fresh,       \* modified_at # INIT_DATETIME
    newer,       \* modified_at > modified_at_before_init, for the init in flight
    errors,      \* _connection_error_count, counted up to the threshold + 1
    forced,      \* the devices of the interface are FORCE_FALSE
    events,      \* published, undelivered state changes
    rpc,         \* requests handed to the proxy, in order
    pc,          \* where each actor awaits
    raised,      \* the actors an InvalidStateTransitionError has ended
    registered   \* the CCU has this client's callback address

clientVars == <<state, fresh, newer, errors, forced, events>>
vars == <<state, callback, fresh, newer, errors, forced, events, rpc, pc, raised,
          registered>>

Actor == Task \cup {"check", "stop"}
States == {"CREATED", "INITIALIZING", "INITIALIZED", "CONNECTING", "CONNECTED",
           "DISCONNECTED", "RECONNECTING", "STOPPING", "STOPPED", "FAILED"}
Kinds == {"ping", "deinit", "init", "list"}
Points == {"idle", "asleep", "probe", "ping", "deinit", "init", "released", "stopping",
           "ended"}

TypeOK ==
    /\ state \in States
    /\ callback \in BOOLEAN /\ fresh \in BOOLEAN /\ newer \in BOOLEAN
    /\ errors \in 0..(ErrorThreshold + 1)
    /\ forced \in BOOLEAN /\ registered \in BOOLEAN
    /\ events \in Seq(States \X States)
    /\ rpc \in Seq([who : Actor, kind : Kinds, done : BOOLEAN, stamped : BOOLEAN])
    /\ pc \in [Actor -> Points]
    /\ raised \subseteq Actor

-----------------------------------------------------------------------------
(* ClientStateMachine *)

VALID_TRANSITIONS ==
    [CREATED      |-> {"INITIALIZING"},
     INITIALIZING |-> {"INITIALIZED", "FAILED"},
     INITIALIZED  |-> {"CONNECTING", "DISCONNECTED"},
     CONNECTING   |-> {"CONNECTED", "FAILED"},
     CONNECTED    |-> {"DISCONNECTED", "RECONNECTING", "STOPPING"},
     DISCONNECTED |-> {"CONNECTING", "DISCONNECTED", "RECONNECTING", "STOPPING"},
     RECONNECTING |-> {"CONNECTED", "DISCONNECTED", "FAILED", "CONNECTING"},
     STOPPING     |-> {"STOPPED"},
     STOPPED      |-> {},
     FAILED       |-> {"INITIALIZING", "CONNECTING", "RECONNECTING", "DISCONNECTED"}]

Available(s) == s \in {"CONNECTED", "RECONNECTING"}

\* Mutant: reconnect() does not ask can_reconnect.
CanReconnectAlways(s) == TRUE

CanReconnect(s) == "RECONNECTING" \in VALID_TRANSITIONS[s]

\* Mutant: transition_to does not validate its target.
LengthForced(path) == Len(path)

\* transition_to called along a path of targets: the first invalid one raises, and
\* the transitions before it stay.
Length(path) ==
    Max({n \in 1..Len(path) :
            \A i \in 1..(n - 1) : path[i + 1] \in VALID_TRANSITIONS[path[i]]})

Blocked(path) == Length(path) < Len(path)

TransitionTo(path) ==
    /\ state' = path[Length(path)]
    /\ events' = events \o [i \in 1..(Length(path) - 1) |-> <<path[i], path[i + 1]>>]

\* No actor awaits while the loop is too far behind with the events.
Room == Len(events) + 2 <= MaxEvents

Init ==
    /\ state = "CREATED"
    /\ callback \in BOOLEAN
    /\ fresh = FALSE /\ newer = FALSE /\ errors = 0 /\ forced = FALSE
    /\ events = <<>> /\ rpc = <<>>
    /\ pc = [a \in Actor |-> "idle"]
    /\ raised = {}
    /\ registered = FALSE

-----------------------------------------------------------------------------
(* Actors *)

\* Actor a goes to point p; the InvalidStateTransitionError of a blocked path ends it.
Arrive(a, path, p) ==
    IF Blocked(path)
    THEN /\ pc' = [pc EXCEPT ![a] = IF a = "stop" THEN "ended" ELSE "idle"]
         /\ raised' = raised \cup {a}
    ELSE /\ pc' = [pc EXCEPT ![a] = p]
         /\ UNCHANGED raised

Request(a, kind) ==
    [who |-> a, kind |-> kind, done |-> FALSE, stamped |-> kind = "init" /\ fresh']

\* init_proxy, up to its await: path leads from the state to CONNECTING, queue holds
\* the requests before its own.
InitProxy(t, path, queue) ==
    /\ TransitionTo(path)
    /\ Arrive(t, path, "init")
    /\ rpc' = IF Blocked(path) THEN queue
              ELSE Append(queue, Request(t, IF callback THEN "init" ELSE "list"))
    /\ newer' = (newer /\ Blocked(path))
    /\ UNCHANGED <<errors, forced>>

InitClient ==
    /\ state = "CREATED"
    /\ TransitionTo(<<state, "INITIALIZING", "INITIALIZED">>)
    /\ UNCHANGED <<callback, fresh, newer, errors, forced, rpc, pc, raised, registered>>

\* _init_clients connects a client for the first time.
StartClient(t) ==
    /\ state = "INITIALIZED" /\ pc[t] = "idle"
    /\ fresh' = fresh
    /\ InitProxy(t, <<state, "CONNECTING">>, rpc)
    /\ UNCHANGED <<callback, registered>>

\* The checks of a recovery before it reconnects: check_connection_availability.
Probe(t) ==
    /\ Room
    /\ pc[t] = "idle" /\ state \notin {"CREATED", "STOPPING", "STOPPED"}
    /\ fresh' = fresh
    /\ pc' = [pc EXCEPT ![t] = "probe"]
    /\ rpc' = Append(rpc, Request(t, "ping"))
    /\ UNCHANGED <<state, callback, newer, errors, forced, events, raised, registered>>

\* reconnect() up to the backoff sleep.
Reconnect(t) ==
    LET path == IF state = "INITIALIZED" THEN <<state, "DISCONNECTED">> ELSE <<state>>
    IN  /\ Room
        /\ pc[t] = "idle" /\ state # "CREATED"
        /\ CanReconnect(path[Len(path)])
        /\ TransitionTo(Append(path, "RECONNECTING"))
        /\ Arrive(t, Append(path, "RECONNECTING"), "asleep")
        /\ UNCHANGED <<callback, fresh, newer, errors, forced, rpc, registered>>

\* reinit_proxy after the sleep: deinit_proxy up to its await or, where it awaits
\* nothing, init_proxy.
Wake(t) ==
    /\ Room
    /\ pc[t] = "asleep"
    /\ fresh' = fresh
    /\ \/ /\ callback /\ fresh
          /\ pc' = [pc EXCEPT ![t] = "deinit"]
          /\ rpc' = Append(rpc, Request(t, "deinit"))
          /\ UNCHANGED <<state, newer, errors, forced, events, raised>>
       \/ /\ callback /\ ~fresh
          /\ InitProxy(t, <<state, "CONNECTING">>, rpc)
       \/ /\ ~callback
          /\ InitProxy(t, <<state, "DISCONNECTED", "CONNECTING">>, rpc)
    /\ UNCHANGED <<callback, registered>>

\* The scheduler's is_connected(), only for a client that calls itself available.
CheckConnection ==
    /\ Room
    /\ pc["check"] = "idle" /\ pc["stop"] = "idle" /\ Available(state)
    /\ fresh' = fresh
    /\ pc' = [pc EXCEPT !["check"] = "ping"]
    /\ rpc' = Append(rpc, Request("check", "ping"))
    /\ UNCHANGED <<state, callback, newer, errors, forced, events, raised, registered>>

\* central.stop() cancels the scheduler and with it the check, then stop_clients runs
\* deinit_proxy of the client up to its await.
StopClients ==
    /\ Room
    /\ pc["stop"] = "idle" /\ state # "CREATED"
    /\ fresh' = fresh
    /\ \/ /\ ~callback
          /\ TransitionTo(<<state, "DISCONNECTED">>)
          /\ pc' = [pc EXCEPT !["check"] = "idle",
                               !["stop"] = IF Blocked(<<state, "DISCONNECTED">>) THEN "ended"
                                           ELSE "released"]
          /\ raised' = IF Blocked(<<state, "DISCONNECTED">>) THEN raised \cup {"stop"}
                       ELSE raised
          /\ UNCHANGED rpc
       \/ /\ callback /\ ~fresh
          /\ pc' = [pc EXCEPT !["check"] = "idle", !["stop"] = "released"]
          /\ UNCHANGED <<state, events, rpc, raised>>
       \/ /\ callback /\ fresh
          /\ pc' = [pc EXCEPT !["check"] = "idle", !["stop"] = "deinit"]
          /\ rpc' = Append(rpc, Request("stop", "deinit"))
          /\ UNCHANGED <<state, events, raised>>
    /\ UNCHANGED <<callback, newer, errors, forced, registered>>

\* stop(), once every client of the central was de-initialized; backend.stop() then
\* waits for the tasks of the looper.
StopClient ==
    /\ Room
    /\ pc["stop"] = "released"
    /\ TransitionTo(<<state, "STOPPING">>)
    /\ Arrive("stop", <<state, "STOPPING">>, "stopping")
    /\ UNCHANGED <<callback, fresh, newer, errors, forced, rpc, registered>>

StopEnds ==
    /\ Room
    /\ pc["stop"] = "stopping"
    /\ callback => rpc = <<>> /\ \A t \in Task : pc[t] = "idle"
    /\ TransitionTo(<<state, "STOPPED">>)
    /\ Arrive("stop", <<state, "STOPPED">>, "ended")
    /\ UNCHANGED <<callback, fresh, newer, errors, forced, rpc, registered>>

-----------------------------------------------------------------------------
(* The CCU and its answers *)

\* The request in the worker's hands takes effect on the CCU.
CcuServes ==
    /\ rpc # <<>> /\ ~rpc[1].done
    /\ rpc' = [rpc EXCEPT ![1].done = TRUE]
    /\ registered' = (rpc[1].kind = "init" \/ (registered /\ rpc[1].kind # "deinit"))
    /\ UNCHANGED <<clientVars, callback, pc, raised>>

\* A restarted CCU has forgotten its callers.
CcuRestarts ==
    /\ registered
    /\ registered' = FALSE
    /\ UNCHANGED <<clientVars, callback, rpc, pc, raised>>

\* An event of the CCU sets modified_at (central/decorators.py).
Callback ==
    /\ registered /\ state # "STOPPED"
    /\ fresh' = TRUE /\ newer' = TRUE
    /\ UNCHANGED <<state, callback, errors, forced, events, rpc, pc, raised, registered>>

\* The i-th request ends: answered once it took effect, or failed, which it may also
\* before (refused by the breaker) or after that (the answer is lost).
Ends(i, ok) ==
    /\ Room
    /\ i \in DOMAIN rpc
    /\ ok => i = 1 /\ rpc[1].done

Rest(i) == SubSeq(rpc, 1, i - 1) \o SubSeq(rpc, i + 1, Len(rpc))

\* check_connection_availability: modified_at becomes the time the check began, or
\* INIT_DATETIME.  Against a time stamped before the init it may be later or earlier.
Stamp(ok) ==
    /\ fresh' = ok
    /\ newer' \in IF \E i \in DOMAIN rpc : ok /\ rpc[i].stamped THEN BOOLEAN ELSE {ok}

Probed(i, ok) ==
    LET t == rpc[i].who
    IN  /\ Ends(i, ok)
        /\ t \in Task /\ pc[t] = "probe"
        /\ Stamp(ok)
        /\ pc' = [pc EXCEPT ![t] = "idle"]
        /\ rpc' = Rest(i)
        /\ UNCHANGED <<state, callback, errors, forced, events, raised, registered>>

\* Mutant: the state is not asked again after the ping.
DisconnectsUnasked(lost) == lost

\* A client that is reconnecting by the time the ping fails is left alone.
Disconnects(lost) == lost /\ state = "CONNECTED"

\* is_connected after the ping.
Checked(i, ok) ==
    LET count == IF ok THEN 0 ELSE Min({errors + 1, ErrorThreshold + 1})
        lost  == count > ErrorThreshold
    IN  /\ Ends(i, ok)
        /\ rpc[i].who = "check" /\ pc["check"] = "ping"
        /\ Stamp(ok)
        /\ errors' = count
        /\ forced' = (forced \/ lost)
        /\ TransitionTo(IF Disconnects(lost) THEN <<state, "DISCONNECTED">>
                        ELSE <<state>>)
        /\ pc' = [pc EXCEPT !["check"] = "idle"]
        /\ rpc' = Rest(i)
        /\ UNCHANGED <<callback, raised, registered>>

\* Nobody awaits the answer to a cancelled check.
Discarded(i, ok) ==
    /\ Ends(i, ok)
    /\ rpc[i].who = "check" /\ pc["check"] = "idle"
    /\ rpc' = Rest(i)
    /\ UNCHANGED <<clientVars, callback, pc, raised, registered>>

\* reinit_proxy after the await of deinit_proxy; it goes on with init_proxy.
DeinitEnds(i, ok) ==
    LET t    == rpc[i].who
        path == IF ok THEN <<state, "DISCONNECTED", "CONNECTING">> ELSE <<state, "CONNECTING">>
    IN  /\ Ends(i, ok)
        /\ t \in Task /\ pc[t] = "deinit"
        /\ fresh' = (fresh /\ (ok => Blocked(<<state, "DISCONNECTED">>)))
        /\ InitProxy(t, path, Rest(i))
        /\ UNCHANGED <<callback, registered>>

\* Mutant: reconnect() does not reset _connection_error_count.
InitEndsKeepsErrors(i, ok) ==
    LET t    == rpc[i].who
        good == ok \/ (rpc[i].kind = "init" /\ newer)
        path == <<state, IF good THEN "CONNECTED" ELSE "FAILED">>
    IN  /\ Ends(i, ok)
        /\ t \in Task /\ pc[t] = "init"
        /\ TransitionTo(path)
        /\ Arrive(t, path, "idle")
        /\ fresh' = IF rpc[i].kind = "init" THEN good ELSE fresh
        /\ forced' = (forced \/ ~good)
        /\ newer' = FALSE
        /\ rpc' = Rest(i)
        /\ UNCHANGED <<callback, errors, registered>>

\* init_proxy after its await (for a client without callbacks, of the devices and of their
\* addition), and the end of reconnect().  A failed init counts as
\* done if modified_at moved on since it began.
InitEnds(i, ok) ==
    LET t    == rpc[i].who
        good == ok \/ (rpc[i].kind = "init" /\ newer)
        path == <<state, IF good THEN "CONNECTED" ELSE "FAILED">>
    IN  /\ Ends(i, ok)
        /\ t \in Task /\ pc[t] = "init"
        /\ TransitionTo(path)
        /\ Arrive(t, path, "idle")
        /\ fresh' = IF rpc[i].kind = "init" THEN good ELSE fresh
        /\ errors' = IF good THEN 0 ELSE errors
        /\ forced' = (forced \/ ~good)
        /\ newer' = FALSE
        /\ rpc' = Rest(i)
        /\ UNCHANGED <<callback, registered>>

\* deinit_proxy of stop_clients after its await.
StopDeinitEnds(i, ok) ==
    LET path == IF ok THEN <<state, "DISCONNECTED">> ELSE <<state>>
    IN  /\ Ends(i, ok)
        /\ rpc[i].who = "stop"
        /\ TransitionTo(path)
        /\ Arrive("stop", path, "released")
        /\ fresh' = (fresh /\ (ok => Blocked(path)))
        /\ rpc' = Rest(i)
        /\ UNCHANGED <<callback, newer, errors, forced, registered>>

-----------------------------------------------------------------------------
(* The central's handler of client state changes *)

\* Mutant: the way back over CONNECTING is forgotten.
ReconnectedDirectly(old, new) ==
    new = "CONNECTED" /\ old \in {"DISCONNECTED", "FAILED", "RECONNECTING"}

\* A client that came back makes its devices available again.
Reconnected(old, new) ==
    new = "CONNECTED" /\ old \in {"CONNECTING", "DISCONNECTED", "FAILED", "RECONNECTING"}

\* Only if the client still is where the event says it went.
Lost(new) == new \in {"DISCONNECTED", "FAILED"} /\ state \in {"DISCONNECTED", "FAILED"}

OnSystemStatusEvent ==
    /\ events # <<>>
    /\ events' = Tail(events)
    /\ LET old == events[1][1]
           new == events[1][2]
       IN  forced' = ((forced \/ Lost(new)) /\ ~Reconnected(old, new))
    /\ UNCHANGED <<state, callback, fresh, newer, errors, rpc, pc, raised, registered>>

-----------------------------------------------------------------------------

Next ==
    \/ InitClient
    \/ \E t \in Task : StartClient(t) \/ Probe(t) \/ Reconnect(t) \/ Wake(t)
    \/ CheckConnection
    \/ StopClients \/ StopClient \/ StopEnds
    \/ CcuServes \/ CcuRestarts \/ Callback
    \/ \E i \in DOMAIN rpc, ok \in BOOLEAN :
           \/ Probed(i, ok) \/ Checked(i, ok) \/ Discarded(i, ok)
           \/ DeinitEnds(i, ok) \/ InitEnds(i, ok) \/ StopDeinitEnds(i, ok)
    \/ OnSystemStatusEvent

Spec == Init /\ [][Next]_vars

-----------------------------------------------------------------------------
(* Properties *)

\* Until the client is stopped no actor ever asks for a transition the table forbids,
\* however the reconnecting tasks, the check and the answers of the CCU interleave
\* (transition_to would raise out of reconnect, init_proxy or is_connected).
NoInvalidTransition == pc["stop"] = "idle" => raised = {}

\* When every event is delivered, the devices are available if the client is
\* connected, and forced unavailable if it is disconnected or failed
\* (_on_system_status_event, _mark_all_devices_forced_availability).
DevicesFollowClient ==
    events = <<>> =>
        /\ state = "CONNECTED" => ~forced
        /\ state \in {"DISCONNECTED", "FAILED"} => forced

\* Once stop() is under way the CCU never gets this client's address again: a reconnect
\* that slept through the de-initialization does not register the client behind it
\* (stop, reinit_proxy, init_proxy).
StoppingNeverRegisters ==
    [][(state \in {"STOPPING", "STOPPED"} /\ ~registered) => ~(registered')]_vars

\* Until it is stopped the client is the one of ClientContract: however the reconnecting
\* tasks, the connection check and the answers of the CCU interleave, one task at a time
\* reconnects it and nobody else moves it meanwhile (reconnect, init_proxy, is_connected).
Contract == INSTANCE ClientContract WITH
    phase <- IF pc["stop"] = "idle" THEN state ELSE "STOPPED",
    inside <- IF pc["stop"] = "idle" THEN {t \in Task : pc[t] \in {"asleep", "deinit", "init"}}
              ELSE {}
ImplementsClient == Contract!ContractSpec

\* A connected client has the error budget of connectivity_error_threshold left: pings
\* that failed before it came back never disconnect it again (is_connected, reconnect).
ConnectedIsTolerant == state = "CONNECTED" => errors <= ErrorThreshold
=============================================================================
