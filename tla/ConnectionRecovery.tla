------------------------- MODULE ConnectionRecovery -------------------------
(***************************************************************************)
(* ConnectionRecoveryCoordinator, the central state machine it drives, the *)
(* scheduler's connection check that feeds it, and the clients as far as   *)
(* these three can see them (aiohomematic/central/coordinators/            *)
(* connection_recovery.py, central/state_machine.py, central_unit.py,      *)
(* central/scheduler.py).                                                  *)
(*                                                                         *)
(* Everything runs on one event loop, so an action is what happens between *)
(* two awaits.  A recovery task is one _start_recovery ("one", its retries *)
(* by recursion included) or one _recover_all_interfaces ("all").  The CCU *)
(* is up or down; what a step asks of it succeeds exactly when it is up.   *)
(***************************************************************************)
EXTENDS Naturals, FiniteSets, FiniteSetsExt

CONSTANTS Interface,      \* the configured interface ids
          JsonUrl,        \* the id under which the JSON-RPC client's breaker reports
          Trippable,      \* the ids whose breaker may trip
          Task,           \* bound: the recovery tasks alive at once
          MaxAttempts,    \* MAX_RECOVERY_ATTEMPTS
          MaxConcurrent,  \* MAX_CONCURRENT_RECOVERIES
          MaxBeats        \* bound: heartbeat loops counted up to here

Target == Interface \cup {JsonUrl}

\* validate_config_and_get_system_information refuses a configuration without interfaces.
ASSUME RecoveryAssumption ==
    /\ Interface # {} /\ JsonUrl \notin Interface
    /\ Trippable \subseteq Target
    /\ MaxAttempts \in Nat \ {0}
    /\ MaxConcurrent \in Nat \ {0}
    /\ MaxBeats \in Nat \ {0}

VARIABLES central,     \* CentralStateMachine._state
          client,      \* id -> state of the registered client, or "missing"
          known,       \* the keys of _recovery_states
          attempts,    \* id -> InterfaceRecoveryState.attempt_count
          active,      \* _active_recoveries
          inFailed,    \* _in_failed_state
          beats,       \* heartbeat loops running
          kind,        \* task -> "free", "one" or "all"
          stage,       \* task -> id -> where its recovery is
          lost,        \* ConnectionLostEvents on their way
          tripped,     \* CircuitBreakerTrippedEvents on their way
          evaluate,    \* a client state event is on its way to the central
          startFailed, \* the INITIALIZING -> FAILED event is on its way
          shutdown,    \* _shutdown
          ccuUp,
          overlapped   \* history: a recovery was scheduled while another was under way

tasks  == <<kind, stage, overlapped>>
events == <<lost, tripped, startFailed>>
budget == <<known, attempts>>
vars == <<central, client, known, attempts, active, inFailed, beats, kind, stage, lost,
          tripped, evaluate, startFailed, shutdown, ccuUp, overlapped>>

\* The states of a client the coordinator can meet; "missing": not created.
ClientStates == {"missing", "INITIALIZED", "CONNECTING", "CONNECTED", "DISCONNECTED",
                 "RECONNECTING", "FAILED"}
CentralStates == {"INITIALIZING", "RUNNING", "DEGRADED", "RECOVERING", "FAILED", "STOPPED"}
\* "out": the task does not recover this id; "retry": asleep before the next attempt.
Held   == {"check", "reconnect", "sleep", "connect", "load"}   \* inside the semaphore
Stages == Held \cup {"out", "scheduled", "wait", "ok", "fail", "retry"}

TypeOK ==
    /\ central \in CentralStates
    /\ client \in [Target -> ClientStates] /\ client[JsonUrl] = "missing"
    /\ known \subseteq Target
    /\ attempts \in [Target -> Nat]
    /\ active \subseteq Target
    /\ beats \in 0..MaxBeats
    /\ kind \in [Task -> {"free", "one", "all"}]
    /\ stage \in [Task -> [Target -> Stages]]
    /\ lost \subseteq Interface
    /\ tripped \subseteq Target
    /\ {inFailed, evaluate, startFailed, shutdown, ccuUp, overlapped} \subseteq BOOLEAN

\* start() has been called and entered INITIALIZING.
Init ==
    /\ central = "INITIALIZING"
    /\ client = [i \in Target |-> "missing"]
    /\ known = {}
    /\ attempts = [i \in Target |-> 0]
    /\ active = {}
    /\ inFailed = FALSE
    /\ beats = 0
    /\ kind = [t \in Task |-> "free"]
    /\ stage = [t \in Task |-> [i \in Target |-> "out"]]
    /\ lost = {}
    /\ tripped = {}
    /\ evaluate = FALSE
    /\ startFailed = FALSE
    /\ shutdown = FALSE
    /\ ccuUp \in BOOLEAN
    /\ overlapped = FALSE

-----------------------------------------------------------------------------
(* Central state machine *)

VALID_CENTRAL_TRANSITIONS ==
    [INITIALIZING |-> {"RUNNING", "DEGRADED", "FAILED", "STOPPED"},
     RUNNING      |-> {"DEGRADED", "RECOVERING", "STOPPED"},
     DEGRADED     |-> {"RUNNING", "RECOVERING", "FAILED", "STOPPED"},
     RECOVERING   |-> {"RUNNING", "DEGRADED", "FAILED", "STOPPED"},
     FAILED       |-> {"RECOVERING", "STOPPED"},
     STOPPED      |-> {}]

CanTransition(state) == state \in VALID_CENTRAL_TRANSITIONS[central]

\* if can_transition_to(target): transition_to(target)
TransitionTo(state) == central' = IF CanTransition(state) THEN state ELSE central

Clients(cs) == {i \in Target : cs[i] # "missing"}
AllConnected(cs) == Clients(cs) # {} /\ \A i \in Clients(cs) : cs[i] = "CONNECTED"
AnyConnected(cs) == \E i \in Clients(cs) : cs[i] = "CONNECTED"
Available(i) == client[i] \in {"CONNECTED", "RECONNECTING"}

\* What _evaluate_central_state makes of the client states cs.
Evaluated(cs, fromStart) ==
    IF AllConnected(cs) /\ (fromStart \/ active = {}) /\ CanTransition("RUNNING")
      THEN "RUNNING"
    ELSE IF /\ AnyConnected(cs) /\ ~AllConnected(cs)
            /\ fromStart \/ central = "RUNNING"
            /\ CanTransition("DEGRADED")
      THEN "DEGRADED"
    ELSE IF /\ ~AnyConnected(cs)
            /\ fromStart \/ central \in {"RUNNING", "DEGRADED"}
            /\ CanTransition("FAILED")
      THEN "FAILED"
    ELSE central

\* _on_system_status_event: events only say that clients changed; the evaluation
\* reads their states when it runs, so any number of events is one flag.
OnClientStateEvent ==
    /\ evaluate
    /\ evaluate' = FALSE
    /\ central' = IF central = "STOPPED" THEN central ELSE Evaluated(client, FALSE)
    /\ UNCHANGED <<client, budget, active, inFailed, beats, tasks, events, shutdown, ccuUp>>

\* start(): either every client is created and its proxy initialised or failed, or
\* some client cannot be created and start_clients gives up before init_proxy.
StartOutcome(cs) ==
    \/ \A i \in Interface : cs[i] \in {"CONNECTED", "FAILED"}
    \/ /\ \E i \in Interface : cs[i] = "missing"
       /\ \A i \in Interface : cs[i] \in {"missing", "INITIALIZED"}

Start ==
    /\ central = "INITIALIZING"
    /\ \E cs \in [Target -> {"missing", "INITIALIZED", "CONNECTED", "FAILED"}] :
          /\ cs[JsonUrl] = "missing"
          /\ StartOutcome(cs)
          /\ client' = cs
          /\ central' = Evaluated(cs, TRUE)
    /\ startFailed' = (central' = "FAILED")
    /\ UNCHANGED <<budget, active, inFailed, beats, tasks, lost, tripped, evaluate, shutdown,
                   ccuUp>>

-----------------------------------------------------------------------------
(* Tasks *)

Free(t) == kind[t] = "free"
Members(t) == {i \in Target : stage[t][i] # "out"}
\* A task is scheduled; it runs later.
Spawn(t, k, ids) ==
    /\ Free(t)
    /\ kind' = [kind EXCEPT ![t] = k]
    /\ stage' = [stage EXCEPT ![t] = [i \in Target |-> IF i \in ids THEN "scheduled" ELSE "out"]]
    /\ overlapped' = (overlapped \/ \E u \in Task : ~Free(u))
Ends(t) ==
    /\ kind' = [kind EXCEPT ![t] = "free"]
    /\ stage' = [stage EXCEPT ![t] = [i \in Target |-> "out"]]
    /\ UNCHANGED overlapped
Goto(t, i, place) ==
    /\ stage' = [stage EXCEPT ![t][i] = place]
    /\ UNCHANGED <<kind, overlapped>>

\* Everything the event loop has ready has run.  The cooldown (30 s), the heartbeat
\* (60 s) and the connection check (15 s) are timers that long outlast the delivery of
\* an event; an event that finds no free task is beyond the bound and does not count.
Settled ==
    /\ ~startFailed /\ ~evaluate
    /\ (\E t \in Task : Free(t)) => lost = {} /\ tripped = {}
    /\ \A t \in Task, i \in Target : stage[t][i] # "scheduled"

\* _start_heartbeat_timer: create_task returns None, so the loop already running is
\* never seen and each call starts one more.
StartHeartbeat == beats' = Min({beats + 1, MaxBeats})

-----------------------------------------------------------------------------
(* Event handlers *)

\* The handlers of a lost connection and of a tripped breaker return early otherwise.
Relevant(i) == i \notin active /\ ~shutdown

OnConnectionLost(i) ==
    /\ i \in lost
    /\ lost' = lost \ {i}
    /\ IF Relevant(i) THEN \E t \in Task : Spawn(t, "one", {i}) ELSE UNCHANGED tasks
    /\ UNCHANGED <<central, client, budget, active, inFailed, beats, tripped, evaluate,
                   startFailed, shutdown, ccuUp>>

OnTripped(i) ==
    /\ i \in tripped
    /\ tripped' = tripped \ {i}
    /\ IF Relevant(i) THEN \E t \in Task : Spawn(t, "one", {i}) ELSE UNCHANGED tasks
    /\ UNCHANGED <<central, client, budget, active, inFailed, beats, lost, evaluate,
                   startFailed, shutdown, ccuUp>>

\* _on_central_state_changed acts on INITIALIZING -> FAILED only.
OnStartFailed ==
    /\ startFailed
    /\ startFailed' = FALSE
    /\ IF shutdown
         THEN UNCHANGED <<inFailed, beats, known>>
         ELSE inFailed' = TRUE /\ StartHeartbeat /\ known' = known \cup Interface
    /\ UNCHANGED <<central, client, attempts, active, tasks, lost, tripped, evaluate, shutdown,
                   ccuUp>>

\* _heartbeat_loop wakes up; the handler of its event schedules the recovery.
Exhausted(i) == attempts[i] >= MaxAttempts
\* Mutant: the heartbeat looks at exhausted interfaces only.
NeedsHeartbeatExhausted(i) == i \in known /\ Exhausted(i)

NeedsHeartbeat(i) == i \in known /\ (Exhausted(i) \/ ~Available(i))

Heartbeat ==
    /\ beats > 0
    /\ Settled
    /\ LET failed == {i \in Target : NeedsHeartbeat(i)} IN
       IF ~inFailed \/ shutdown
         THEN beats' = beats - 1 /\ UNCHANGED <<attempts, tasks>>
         ELSE /\ failed # {}
              /\ attempts' = [i \in Target |-> IF i \in failed THEN MaxAttempts - 1
                                                               ELSE attempts[i]]
              /\ \E t \in Task : Spawn(t, "all", failed)
              /\ UNCHANGED beats
    /\ UNCHANGED <<central, client, known, active, inFailed, events, evaluate, shutdown, ccuUp>>

-----------------------------------------------------------------------------
(* _start_recovery *)

\* Mutant: FAILED is entered and no heartbeat started.
HandleMaxRetriesSilent ==
    /\ inFailed' = TRUE
    /\ TransitionTo("FAILED")
    /\ UNCHANGED beats

\* _handle_max_retries_reached.  The event published between flag and heartbeat changes
\* nothing of the model; its await is left out.
HandleMaxRetries ==
    /\ inFailed' = TRUE
    /\ TransitionTo("FAILED")
    /\ StartHeartbeat

\* A new task or, after the backoff, the recursive call.  get_client raises for an id
\* without a client, after the id was added to _active_recoveries and before the try.
BeginOne(t, i) ==
    /\ kind[t] = "one"
    /\ stage[t][i] \in {"scheduled", "retry"}
    /\ known' = IF shutdown THEN known ELSE known \cup {i}
    /\ \/ /\ shutdown
          /\ active' = IF stage[t][i] = "retry" THEN active \ {i} ELSE active
          /\ Ends(t)
          /\ UNCHANGED <<central, inFailed, beats>>
       \/ /\ ~shutdown /\ Exhausted(i)
          /\ active' = IF stage[t][i] = "retry" THEN active \ {i} ELSE active
          /\ HandleMaxRetries
          /\ Ends(t)
       \/ /\ ~shutdown /\ ~Exhausted(i)
          /\ active' = active \cup {i}
          /\ TransitionTo("RECOVERING")
          /\ IF i \in Clients(client) THEN Goto(t, i, "wait") ELSE Ends(t)
          /\ UNCHANGED <<inFailed, beats>>
    /\ UNCHANGED <<client, attempts, events, evaluate, shutdown, ccuUp>>

\* Success: reset, discard, _transition_after_recovery (whose _stop_heartbeat_timer
\* finds no task to cancel).
FinishOk(t, i) ==
    /\ kind[t] = "one" /\ stage[t][i] = "ok"
    /\ attempts' = [attempts EXCEPT ![i] = 0]
    /\ active' = active \ {i}
    /\ IF active' = {}
         THEN TransitionTo("RUNNING") /\ inFailed' = FALSE
         ELSE UNCHANGED <<central, inFailed>>
    /\ Ends(t)
    /\ UNCHANGED <<client, known, beats, events, evaluate, shutdown, ccuUp>>

\* Mutant: the interface stays in _active_recoveries after its last attempt.
FinishFailKeeps(t, i) ==
    /\ kind[t] = "one" /\ stage[t][i] = "fail"
    /\ IF Exhausted(i)
         THEN HandleMaxRetries /\ Ends(t) /\ UNCHANGED active
         ELSE Goto(t, i, "retry") /\ UNCHANGED <<central, active, inFailed, beats>>
    /\ UNCHANGED <<client, budget, events, evaluate, shutdown, ccuUp>>

\* Mutant: reset() after a failure too, so that a retry always follows.
FinishFailForever(t, i) ==
    /\ kind[t] = "one" /\ stage[t][i] = "fail"
    /\ Goto(t, i, "retry")
    /\ attempts' = [attempts EXCEPT ![i] = 0]
    /\ UNCHANGED <<client, known, central, active, inFailed, beats, events, evaluate, shutdown,
                   ccuUp>>

FinishFail(t, i) ==
    /\ kind[t] = "one" /\ stage[t][i] = "fail"
    /\ IF Exhausted(i)
         THEN HandleMaxRetries /\ active' = active \ {i} /\ Ends(t)
         ELSE Goto(t, i, "retry") /\ UNCHANGED <<central, active, inFailed, beats>>
    /\ UNCHANGED <<client, budget, events, evaluate, shutdown, ccuUp>>

-----------------------------------------------------------------------------
(* _recover_all_interfaces *)

\* Mutant: stop() is not looked at.
BeginAllUnguarded(t) ==
    /\ kind[t] = "all"
    /\ \A i \in Members(t) : stage[t][i] = "scheduled"
    /\ active' = active \cup Members(t)
    /\ TransitionTo("RECOVERING")
    /\ stage' = [stage EXCEPT ![t] = [i \in Target |->
                    IF i \in Members(t) THEN "wait" ELSE "out"]]
    /\ UNCHANGED <<kind, overlapped, client, budget, inFailed, beats, events, evaluate, shutdown,
                   ccuUp>>

\* Mutant: the central is not taken through RECOVERING.
BeginAllDirect(t) ==
    /\ kind[t] = "all"
    /\ \A i \in Members(t) : stage[t][i] = "scheduled"
    /\ active' = active \cup Members(t)
    /\ stage' = [stage EXCEPT ![t] = [i \in Target |->
                    IF i \in Members(t) THEN "wait" ELSE "out"]]
    /\ UNCHANGED <<kind, overlapped, central, client, budget, inFailed, beats, events, evaluate,
                   shutdown, ccuUp>>

BeginAll(t) ==
    /\ kind[t] = "all"
    /\ \A i \in Members(t) : stage[t][i] = "scheduled"
    /\ IF shutdown
         THEN Ends(t) /\ UNCHANGED <<central, active>>
         ELSE /\ active' = active \cup Members(t)
              /\ TransitionTo("RECOVERING")
              /\ stage' = [stage EXCEPT ![t] = [i \in Target |->
                              IF i \in Members(t) THEN "wait" ELSE "out"]]
              /\ UNCHANGED <<kind, overlapped>>
    /\ UNCHANGED <<client, budget, inFailed, beats, events, evaluate, shutdown, ccuUp>>

\* The attempt counters are left at MaxAttempts - 1, and nothing follows when no
\* interface recovered.
FinishAll(t) ==
    /\ kind[t] = "all"
    /\ \A i \in Members(t) : stage[t][i] \in {"ok", "fail"}
    /\ active' = active \ Members(t)
    /\ LET ok == {i \in Members(t) : stage[t][i] = "ok"} IN
       IF ok = Members(t) THEN inFailed' = FALSE /\ TransitionTo("RUNNING")
       ELSE IF ok # {} THEN TransitionTo("DEGRADED") /\ UNCHANGED inFailed
       ELSE UNCHANGED <<central, inFailed>>
    /\ Ends(t)
    /\ UNCHANGED <<client, budget, beats, events, evaluate, shutdown, ccuUp>>

-----------------------------------------------------------------------------
(* _execute_recovery_stages of task t for id i *)

Holders == {p \in Task \X Target : stage[p[1]][p[2]] \in Held}

Acquire(t, i) ==
    /\ stage[t][i] = "wait"
    /\ Cardinality(Holders) < MaxConcurrent
    /\ Goto(t, i, "check")
    /\ UNCHANGED <<central, client, budget, active, inFailed, beats, events, evaluate, shutdown,
                   ccuUp>>

\* The stages are over; _start_recovery records the attempt at once.
Over(t, i, result) ==
    /\ Goto(t, i, result)
    /\ attempts' = [attempts EXCEPT ![i] = IF kind[t] = "one" THEN @ + 1 ELSE @]

\* Cooldown, TCP check, RPC check, warm-up, stability check.  No port is configured
\* for an id that is no interface.
Check(t, i) ==
    /\ stage[t][i] = "check"
    /\ Settled
    /\ IF ccuUp /\ i \in Interface
         THEN Goto(t, i, "reconnect") /\ UNCHANGED attempts
         ELSE Over(t, i, "fail")
    /\ UNCHANGED <<central, client, known, active, inFailed, beats, events, evaluate, shutdown,
                   ccuUp>>

\* Mutant: a reconnect under way does not keep a second one out.
CanReconnectTwice(i) ==
    client[i] \in {"INITIALIZED", "CONNECTED", "DISCONNECTED", "FAILED", "RECONNECTING"}

CanReconnect(i) == client[i] \in {"INITIALIZED", "CONNECTED", "DISCONNECTED", "FAILED"}

\* _stage_reconnect: create a missing client (it ends INITIALIZED, which is not
\* available), call client.reconnect() and wait, or, if that refuses because another
\* reconnect is under way, believe client.available.
Reconnect(t, i) ==
    /\ stage[t][i] = "reconnect"
    /\ \/ /\ client[i] = "missing"
          /\ client' = [client EXCEPT ![i] = IF ccuUp THEN "INITIALIZED" ELSE @]
          /\ evaluate' = (evaluate \/ ccuUp)
          /\ Over(t, i, "fail")
       \/ /\ CanReconnect(i)
          /\ client' = [client EXCEPT ![i] = "RECONNECTING"]
          /\ evaluate' = TRUE
          /\ Goto(t, i, "sleep")
          /\ UNCHANGED attempts
       \/ /\ client[i] = "RECONNECTING"
          /\ Goto(t, i, "load")
          /\ UNCHANGED <<client, evaluate, attempts>>
       \/ /\ client[i] = "CONNECTING"
          /\ Over(t, i, "fail")
          /\ UNCHANGED <<client, evaluate>>
    /\ UNCHANGED <<central, known, active, inFailed, beats, events, shutdown, ccuUp>>

\* reconnect(): after the delay, deinit_proxy and the start of init_proxy.
Reinit(t, i) ==
    /\ stage[t][i] = "sleep"
    /\ client' = [client EXCEPT ![i] = "CONNECTING"]
    /\ evaluate' = TRUE
    /\ Goto(t, i, "connect")
    /\ UNCHANGED <<central, budget, active, inFailed, beats, events, shutdown, ccuUp>>

\* init_proxy is answered, or fails.
InitProxyEnds(t, i) ==
    /\ stage[t][i] = "connect"
    /\ client' = [client EXCEPT ![i] = IF ccuUp THEN "CONNECTED" ELSE "FAILED"]
    /\ evaluate' = TRUE
    /\ IF ccuUp THEN Goto(t, i, "load") /\ UNCHANGED attempts ELSE Over(t, i, "fail")
    /\ UNCHANGED <<central, known, active, inFailed, beats, events, shutdown, ccuUp>>

DataLoad(t, i) ==
    /\ stage[t][i] = "load"
    /\ Over(t, i, IF ccuUp THEN "ok" ELSE "fail")
    /\ UNCHANGED <<central, client, known, active, inFailed, beats, events, evaluate, shutdown,
                   ccuUp>>

-----------------------------------------------------------------------------
(* What feeds the coordinator *)

\* The scheduler runs its jobs in RUNNING and DEGRADED only.
Operational == central \in {"RUNNING", "DEGRADED"} /\ ~shutdown
AllClientsActive == Interface \subseteq Clients(client)

\* What one pass of _check_connection may find: clients that are not available are
\* reported; with all clients created each is also asked for its connection and its
\* callbacks, and is_connected() disconnects a client once its ping failed twice.
Unavailable == {i \in Clients(client) : ~Available(i)}
Suspect ==
    IF AllClientsActive
      THEN Unavailable \cup {i \in Clients(client) : ~ccuUp \/ client[i] = "RECONNECTING"}
      ELSE Unavailable

\* The pass is repeated every 15 s.
CheckConnection ==
    /\ Operational
    /\ Settled
    /\ \E reported \in SUBSET Suspect :
          /\ Unavailable \subseteq reported /\ reported # {}
          /\ lost' = lost \cup reported
          /\ \E dropped \in SUBSET {i \in reported : client[i] = "CONNECTED"} :
                /\ client' = [i \in Target |-> IF i \in dropped THEN "DISCONNECTED" ELSE client[i]]
                /\ evaluate' = (evaluate \/ dropped # {})
    /\ UNCHANGED <<central, budget, active, inFailed, beats, tasks, tripped, startFailed,
                   shutdown, ccuUp>>

\* Enough requests failed in a row.
BreakerTrips(i) ==
    /\ ~ccuUp
    /\ i \in Trippable \ tripped
    /\ i \in Interface => i \in Clients(client)
    /\ central # "INITIALIZING" /\ ~shutdown
    /\ tripped' = tripped \cup {i}
    /\ UNCHANGED <<central, client, budget, active, inFailed, beats, tasks, lost, evaluate,
                   startFailed, shutdown, ccuUp>>

CcuChanges ==
    /\ ccuUp' = ~ccuUp
    /\ UNCHANGED <<central, client, budget, active, inFailed, beats, tasks, events, evaluate,
                   shutdown>>

\* stop(): the coordinator is stopped first; at the end the clients are gone and the
\* tasks cancelled.
Stop ==
    /\ central # "INITIALIZING" /\ ~shutdown
    /\ shutdown' = TRUE
    /\ UNCHANGED <<central, client, budget, active, inFailed, beats, tasks, events, evaluate,
                   ccuUp>>

Stopped ==
    /\ shutdown /\ central # "STOPPED"
    /\ TransitionTo("STOPPED")
    /\ active' = active \ UNION {Members(t) : t \in Task}
    /\ kind' = [t \in Task |-> "free"]
    /\ stage' = [t \in Task |-> [i \in Target |-> "out"]]
    /\ beats' = 0
    /\ client' = [i \in Target |-> "missing"]
    /\ UNCHANGED <<budget, inFailed, events, evaluate, shutdown, ccuUp, overlapped>>

-----------------------------------------------------------------------------
Step(t, i) ==
    \/ BeginOne(t, i) \/ FinishOk(t, i) \/ FinishFail(t, i)
    \/ Check(t, i) \/ Reconnect(t, i) \/ Reinit(t, i) \/ InitProxyEnds(t, i) \/ DataLoad(t, i)

Next ==
    \/ Start \/ OnClientStateEvent \/ OnStartFailed \/ Heartbeat \/ CheckConnection
    \/ \E i \in Target : OnConnectionLost(i) \/ OnTripped(i) \/ BreakerTrips(i)
    \/ \E t \in Task, i \in Target : Step(t, i) \/ Acquire(t, i)
    \/ \E t \in Task : BeginAll(t) \/ FinishAll(t)
    \/ CcuChanges \/ Stop \/ Stopped

Spec == Init /\ [][Next]_vars

\* The event loop runs every ready task, timers fire, the semaphore wakes its waiters in
\* order and the scheduler repeats its check; the CCU, the breakers and stop() owe nothing.
FairSpec ==
    /\ Spec
    /\ WF_vars(Start) /\ WF_vars(OnClientStateEvent) /\ WF_vars(OnStartFailed)
    /\ WF_vars(Heartbeat)
    /\ WF_vars(CheckConnection)
    /\ \A i \in Target : WF_vars(OnConnectionLost(i)) /\ WF_vars(OnTripped(i))
    /\ \A t \in Task : /\ WF_vars(BeginAll(t)) /\ WF_vars(FinishAll(t))
                       /\ \A i \in Target : WF_vars(Step(t, i)) /\ SF_vars(Acquire(t, i))

-----------------------------------------------------------------------------
(* Properties *)

Underway == (\E t \in Task : ~Free(t)) \/ lost # {} \/ tripped # {} \/ startFailed \/ evaluate

\* No interface stays in _active_recoveries once its recovery is over: in_recovery would
\* keep the central out of RUNNING and its connection losses would be skipped.
ActiveIsRecovering ==
    \A i \in active \cap Interface : \E t \in Task : stage[t][i] \notin {"out", "scheduled"}

\* As long as _in_failed_state holds a heartbeat loop is alive, although loops end by
\* themselves and nobody keeps their handles.  (The code awaits the delivery of an event
\* between setting the flag and starting the loop; the model has both in one step.)
HeartbeatWhileFailed == inFailed /\ ~shutdown => beats > 0

\* Recoveries of one interface may overlap, but at most one of them is inside
\* client.reconnect(), and a client is left CONNECTING only while one is.
ReconnectExclusive ==
    /\ \A i \in Target : \A t, u \in Task :
          stage[t][i] \in {"sleep", "connect"} /\ stage[u][i] \in {"sleep", "connect"} => t = u
    /\ \A i \in Target : client[i] = "CONNECTING" <=> \E t \in Task : stage[t][i] = "connect"

\* The client of every interface is the one of ClientContract, which ClientLifecycle
\* implements: overlapping recoveries, the connection check and a stop ask nothing of a
\* client that it does not do (_stage_reconnect, _check_connection).
Client(i) == INSTANCE ClientContract WITH
    phase <- IF central = "STOPPED" THEN "STOPPED"
             ELSE IF client[i] = "missing" THEN "CREATED" ELSE client[i],
    inside <- {t \in Task : stage[t][i] \in {"sleep", "connect"}}
UsesClients ==
    /\ \A i \in Interface : Client(i)!ContractInit
    /\ [][\A i \in Interface : [Client(i)!ContractNext]_(Client(i)!contractVars)]_vars

\* After stop() no recovery is begun, the ones that sleep or are scheduled included.
ShutdownStartsNothing ==
    [][shutdown => /\ active' \subseteq active
                   /\ central' # central => central' # "RECOVERING"]_vars

\* With the CCU up for good and the central not stopped, every client is connected
\* again and again, from whatever failed start, FAILED state or half-done recovery.
ClientsReconnect ==
    (<>[]ccuUp /\ []~shutdown) => \A i \in Interface : []<>(client[i] = "CONNECTED")

\* A recovery task ends whatever the CCU does: it runs out of attempts or succeeds.
RecoveriesEnd == \A t \in Task : ~Free(t) ~> Free(t)

\* A heartbeat loop is alive and will find an interface to recover.
HeartbeatHasWork == inFailed /\ beats > 0 /\ \E i \in Target : NeedsHeartbeat(i)

\* The one dead end of a heartbeat: its recovery connected every client it knows and then
\* failed to load the data.  _recover_all_interfaces leaves the central RECOVERING, and
\* the heartbeat finds nothing to recover any more.
ConnectedUnloaded == inFailed /\ central = "RECOVERING" /\ \A i \in known : client[i] = "CONNECTED"

\* The scheduler is paused outside RUNNING and DEGRADED.  Then a recovery, an event that
\* leads on or a heartbeat that has work is left, in all but three cases: the dead end
\* above, two recoveries that overlapped, and an active id of the JSON-RPC client, whose
\* recovery ends unfinished (_heartbeat_loop, _start_recovery, _recover_all_interfaces).
NeverAbandoned ==
    (/\ ~Operational /\ ~shutdown /\ central # "INITIALIZING"
     /\ ~overlapped /\ JsonUrl \notin active /\ ~ConnectedUnloaded)
    => HeartbeatHasWork \/ Underway
=============================================================================
