---------------------- MODULE ConnectionRecoveryProofs ----------------------
(***************************************************************************)
(* Proofs about ConnectionRecovery for any set of interfaces, any number   *)
(* of overlapping recovery tasks and any limits.  The inductive invariant  *)
(* IInv adds to the safety properties what makes them inductive: nothing   *)
(* is under way before start() is over, a task of one interface recovers   *)
(* no other, the interfaces that are reported or recovered singly have a   *)
(* client, only interfaces come as far as a reconnect, and a sleeping      *)
(* reconnect() has set its client RECONNECTING.  FInv says what leads on   *)
(* until two recoveries overlap, WInv that a heartbeat then has work, and  *)
(* BeforeAndAfter, that there is no client before start() and no task      *)
(* after stop(), completes the mapping to ClientContract.                  *)
(***************************************************************************)
EXTENDS ConnectionRecovery, TLAPS

\* The variables that hold more than a flag.
Typed ==
    /\ central \in CentralStates
    /\ client \in [Target -> ClientStates] /\ client[JsonUrl] = "missing"
    /\ attempts \in [Target -> Nat]
    /\ active \subseteq Target
    /\ beats \in 0 .. MaxBeats
    /\ kind \in [Task -> {"free", "one", "all"}]
    /\ stage \in [Task -> [Target -> Stages]]
    /\ lost \subseteq Interface
    /\ tripped \subseteq Target

Quiet ==
    central = "INITIALIZING" =>
        /\ ~startFailed /\ ~evaluate /\ beats = 0
        /\ active = {} /\ lost = {} /\ tripped = {}
        /\ \A t \in Task : kind[t] = "free"

TaskShape ==
    \A t \in Task :
        /\ kind[t] = "free" => \A i \in Target : stage[t][i] = "out"
        /\ kind[t] = "one" => \A i, j \in Target : stage[t][i] # "out" /\ stage[t][j] # "out" => i = j
        /\ \A i \in Target : stage[t][i] = "reconnect" => i \in Interface

HaveClients ==
    ~shutdown => \A i \in Interface :
        i \in lost \cup tripped \/ (\E t \in Task : kind[t] = "one" /\ stage[t][i] # "out")
        => client[i] # "missing"

SleepersReconnect ==
    \A t \in Task, i \in Target : stage[t][i] = "sleep" => client[i] = "RECONNECTING"

IInv == /\ Typed /\ Quiet /\ TaskShape /\ HaveClients /\ SleepersReconnect
        /\ ActiveIsRecovering /\ HeartbeatWhileFailed /\ ReconnectExclusive

LEMMA InitIInv == Init => IInv
<1> SUFFICES ASSUME Init PROVE IInv
  OBVIOUS
<1> USE RecoveryAssumption DEF Init
<1>1. Typed
  <2>1. stage \in [Task -> [Target -> Stages]]
    BY DEF Stages
  <2>2. client \in [Target -> ClientStates] /\ client[JsonUrl] = "missing"
    BY DEF ClientStates, Target
  <2>3. central \in CentralStates /\ kind \in [Task -> {"free", "one", "all"}]
    BY DEF CentralStates
  <2> QED  BY <2>1, <2>2, <2>3 DEF Typed
<1>2. Quiet /\ TaskShape
  BY DEF Quiet, TaskShape
<1>3. HaveClients
  BY DEF HaveClients, Target
<1>4. SleepersReconnect /\ ActiveIsRecovering /\ HeartbeatWhileFailed /\ ReconnectExclusive
  BY DEF SleepersReconnect, ActiveIsRecovering, HeartbeatWhileFailed, ReconnectExclusive
<1> QED  BY <1>1, <1>2, <1>3, <1>4 DEF IInv

-----------------------------------------------------------------------------
(* What the operators of the model do. *)

\* A heartbeat loop more, counted up to the bound.
LEMMA HeartbeatStarts == ASSUME Typed, StartHeartbeat PROVE beats' \in 1 .. MaxBeats
<1>1. beats \in 0 .. MaxBeats /\ MaxBeats \in Nat \ {0}
  BY RecoveryAssumption DEF Typed
<1>2. PICK m \in {beats + 1, MaxBeats} : \A x \in {beats + 1, MaxBeats} : m <= x
  BY <1>1
<1>3. Min({beats + 1, MaxBeats}) \in {beats + 1, MaxBeats}
      /\ \A x \in {beats + 1, MaxBeats} : Min({beats + 1, MaxBeats}) <= x
  BY <1>2 DEF Min
<1> QED  BY <1>1, <1>3 DEF StartHeartbeat

LEMMA GotoPlaces ==
    ASSUME Typed, NEW t \in Task, NEW i \in Target, NEW place \in Stages, Goto(t, i, place)
    PROVE  /\ kind' = kind /\ stage' \in [Task -> [Target -> Stages]]
           /\ \A u \in Task, j \in Target :
                 stage'[u][j] = IF u = t /\ j = i THEN place ELSE stage[u][j]
BY DEF Goto, Typed

LEMMA EndsPlaces ==
    ASSUME Typed, NEW t \in Task, Ends(t)
    PROVE  /\ kind' \in [Task -> {"free", "one", "all"}]
           /\ \A u \in Task : kind'[u] = IF u = t THEN "free" ELSE kind[u]
           /\ stage' \in [Task -> [Target -> Stages]]
           /\ \A u \in Task, j \in Target : stage'[u][j] = IF u = t THEN "out" ELSE stage[u][j]
<1>1. [i \in Target |-> "out"] \in [Target -> Stages]
  BY DEF Stages
<1>2. stage' = [stage EXCEPT ![t] = [i \in Target |-> "out"]]
      /\ kind' = [kind EXCEPT ![t] = "free"]
  BY DEF Ends
<1> QED  BY <1>1, <1>2 DEF Typed

LEMMA SpawnPlaces ==
    ASSUME Typed, NEW t \in Task, NEW k \in {"one", "all"}, NEW ids, Spawn(t, k, ids)
    PROVE  /\ kind[t] = "free"
           /\ kind' \in [Task -> {"free", "one", "all"}]
           /\ \A u \in Task : kind'[u] = IF u = t THEN k ELSE kind[u]
           /\ stage' \in [Task -> [Target -> Stages]]
           /\ \A u \in Task, j \in Target :
                 stage'[u][j] = IF u # t THEN stage[u][j]
                                ELSE IF j \in ids THEN "scheduled" ELSE "out"
<1>1. [i \in Target |-> IF i \in ids THEN "scheduled" ELSE "out"] \in [Target -> Stages]
  BY DEF Stages
<1>2. /\ stage' = [stage EXCEPT ![t] = [i \in Target |-> IF i \in ids THEN "scheduled" ELSE "out"]]
      /\ kind' = [kind EXCEPT ![t] = k] /\ kind[t] = "free"
  BY DEF Spawn, Free
<1> QED  BY <1>1, <1>2 DEF Typed

LEMMA TransitionStays ==
    ASSUME Typed, NEW s \in CentralStates \ {"INITIALIZING"}, TransitionTo(s)
    PROVE  central' \in CentralStates /\ central' \in {s, central}
BY DEF TransitionTo, Typed

LEMMA EvaluatedStays ==
    ASSUME Typed, NEW cs, NEW b
    PROVE  Evaluated(cs, b) \in {"RUNNING", "DEGRADED", "FAILED", central}
BY DEF Evaluated

\* The evaluation at the end of start() always leaves INITIALIZING.
LEMMA StartLeaves ==
    ASSUME NEW cs, central = "INITIALIZING"
    PROVE  Evaluated(cs, TRUE) \in {"RUNNING", "DEGRADED", "FAILED"}
<1>1. CanTransition("RUNNING") /\ CanTransition("DEGRADED") /\ CanTransition("FAILED")
  BY DEF CanTransition, VALID_CENTRAL_TRANSITIONS
<1>2. AllConnected(cs) => AnyConnected(cs)
  BY DEF AllConnected, AnyConnected
<1> QED  BY <1>1, <1>2 DEF Evaluated

-----------------------------------------------------------------------------
(* A task moves, ends or is spawned. *)

\* A recovery task goes on with one of its interfaces.
LEMMA GotoKeeps ==
    ASSUME IInv, NEW t \in Task, NEW i \in Target, NEW place \in Stages \ {"out", "scheduled"},
           stage[t][i] # "out", Goto(t, i, place), active' \in {active, active \cup {i}},
           place = "reconnect" => i \in Interface,
           \A j \in Target : client[j] # "missing" => client'[j] # "missing",
           UNCHANGED <<lost, tripped, shutdown>>,
           central' \in CentralStates, central' = "INITIALIZING" => central = "INITIALIZING"
    PROVE  /\ central' \in CentralStates /\ active' \subseteq Target
           /\ kind' \in [Task -> {"free", "one", "all"}]
           /\ stage' \in [Task -> [Target -> Stages]]
           /\ Quiet' /\ TaskShape' /\ HaveClients' /\ ActiveIsRecovering'
<1>1. /\ kind' = kind /\ stage' \in [Task -> [Target -> Stages]]
      /\ \A u \in Task, j \in Target : stage'[u][j] = IF u = t /\ j = i THEN place ELSE stage[u][j]
  BY GotoPlaces DEF IInv
<1>2. kind[t] # "free" /\ central # "INITIALIZING"
  BY DEF IInv, TaskShape, Quiet
<1>3. Quiet'
  BY <1>2 DEF Quiet
<1>4. \A u \in Task, j \in Target : stage'[u][j] = "out" <=> stage[u][j] = "out"
  BY <1>1
<1>5. TaskShape'
  BY <1>1, <1>4 DEF IInv, TaskShape
<1>6. HaveClients'
  BY <1>1, <1>4 DEF IInv, HaveClients, Target
<1>7. ActiveIsRecovering'
  <2> SUFFICES ASSUME NEW j \in active' \cap Interface
               PROVE  \E u \in Task : stage'[u][j] \notin {"out", "scheduled"}
    BY DEF ActiveIsRecovering
  <2>1. CASE j = i
    BY <1>1, <2>1
  <2>2. CASE j # i
    <3>1. j \in active \cap Interface /\ j \in Target
      BY <2>2 DEF Target
    <3>2. PICK u \in Task : stage[u][j] \notin {"out", "scheduled"}
      BY <3>1 DEF IInv, ActiveIsRecovering
    <3> QED  BY <1>1, <2>2, <3>1, <3>2
  <2> QED  BY <2>1, <2>2
<1> QED  BY <1>1, <1>3, <1>5, <1>6, <1>7 DEF IInv, Typed

\* The reconnect of i is not touched: neither it nor its client changes sides.
LEMMA GotoOutside ==
    ASSUME IInv, NEW t \in Task, NEW i \in Target, NEW place \in Stages \ {"sleep", "connect"},
           stage[t][i] \notin {"sleep", "connect"}, Goto(t, i, place),
           \A j \in Target : client'[j] = client[j]
                             \/ {client[j], client'[j]} \cap {"RECONNECTING", "CONNECTING"} = {}
    PROVE  SleepersReconnect' /\ ReconnectExclusive'
<1>1. \A u \in Task, j \in Target : stage'[u][j] = IF u = t /\ j = i THEN place ELSE stage[u][j]
  BY GotoPlaces DEF IInv
<1>2. \A u \in Task, j \in Target : /\ stage'[u][j] = "sleep" <=> stage[u][j] = "sleep"
                                    /\ stage'[u][j] = "connect" <=> stage[u][j] = "connect"
  BY <1>1
<1>3. \A j \in Target : /\ client'[j] = "RECONNECTING" <=> client[j] = "RECONNECTING"
                        /\ client'[j] = "CONNECTING" <=> client[j] = "CONNECTING"
  OBVIOUS
<1> QED  BY <1>2, <1>3 DEF IInv, SleepersReconnect, ReconnectExclusive

\* A recovery task ends; what it leaves in _active_recoveries is not its own.
LEMMA EndsKeeps ==
    ASSUME IInv, NEW t \in Task, kind[t] # "free", Ends(t), active' \subseteq Target,
           \A i \in Target : stage[t][i] \notin {"sleep", "connect"},
           \A i \in active' \cap Interface : i \in active /\ stage[t][i] \in {"out", "scheduled"},
           UNCHANGED <<client, lost, tripped, shutdown>>,
           central' \in CentralStates, central' = "INITIALIZING" => central = "INITIALIZING"
    PROVE  /\ central' \in CentralStates /\ active' \subseteq Target
           /\ kind' \in [Task -> {"free", "one", "all"}]
           /\ stage' \in [Task -> [Target -> Stages]]
           /\ Quiet' /\ TaskShape' /\ HaveClients' /\ SleepersReconnect'
           /\ ActiveIsRecovering' /\ ReconnectExclusive'
<1>1. /\ kind' \in [Task -> {"free", "one", "all"}]
      /\ \A u \in Task : kind'[u] = IF u = t THEN "free" ELSE kind[u]
      /\ stage' \in [Task -> [Target -> Stages]]
      /\ \A u \in Task, j \in Target : stage'[u][j] = IF u = t THEN "out" ELSE stage[u][j]
  BY EndsPlaces DEF IInv
<1>2. Quiet'
  BY DEF IInv, Quiet
<1>3. TaskShape'
  <2>1. \A u \in Task : u # t => kind'[u] = kind[u] /\ \A j \in Target : stage'[u][j] = stage[u][j]
    BY <1>1
  <2>2. ASSUME NEW u \in Task
        PROVE  /\ kind'[u] = "free" => \A j \in Target : stage'[u][j] = "out"
               /\ kind'[u] = "one" => \A j, k \in Target : stage'[u][j] # "out" /\ stage'[u][k] # "out" => j = k
               /\ \A j \in Target : stage'[u][j] = "reconnect" => j \in Interface
    <3>1. CASE u = t
      BY <1>1, <3>1
    <3>2. CASE u # t
      BY <2>1, <3>2 DEF IInv, TaskShape
    <3> QED  BY <3>1, <3>2
  <2> QED  BY <2>2 DEF TaskShape
<1>4. HaveClients'
  BY <1>1 DEF IInv, HaveClients, Target
<1>5. \A u \in Task, j \in Target : /\ stage'[u][j] = "sleep" <=> stage[u][j] = "sleep"
                                    /\ stage'[u][j] = "connect" <=> stage[u][j] = "connect"
  BY <1>1
<1>6. SleepersReconnect' /\ ReconnectExclusive'
  BY <1>5 DEF IInv, SleepersReconnect, ReconnectExclusive
<1>7. ActiveIsRecovering'
  <2> SUFFICES ASSUME NEW j \in active' \cap Interface
               PROVE  \E u \in Task : stage'[u][j] \notin {"out", "scheduled"}
    BY DEF ActiveIsRecovering
  <2>1. j \in Target /\ stage[t][j] \in {"out", "scheduled"} /\ j \in active \cap Interface
    BY DEF Target
  <2>2. PICK u \in Task : stage[u][j] \notin {"out", "scheduled"}
    BY <2>1 DEF IInv, ActiveIsRecovering
  <2> QED  BY <1>1, <2>1, <2>2
<1> QED  BY <1>1, <1>2, <1>3, <1>4, <1>6, <1>7

\* A free task is scheduled for the interfaces ids.
LEMMA SpawnKeeps ==
    ASSUME IInv, NEW t \in Task, NEW k \in {"one", "all"}, NEW ids, Spawn(t, k, ids),
           central # "INITIALIZING", UNCHANGED <<central, client, active, shutdown>>,
           lost' \subseteq lost, tripped' \subseteq tripped,
           k = "one" => \E i \in Target : /\ ids = {i}
                                          /\ i \in Interface /\ ~shutdown => client[i] # "missing"
    PROVE  /\ kind' \in [Task -> {"free", "one", "all"}]
           /\ stage' \in [Task -> [Target -> Stages]]
           /\ Quiet' /\ TaskShape' /\ HaveClients' /\ SleepersReconnect'
           /\ ActiveIsRecovering' /\ ReconnectExclusive'
<1>1. /\ kind[t] = "free"
      /\ kind' \in [Task -> {"free", "one", "all"}]
      /\ \A u \in Task : kind'[u] = IF u = t THEN k ELSE kind[u]
      /\ stage' \in [Task -> [Target -> Stages]]
      /\ \A u \in Task, j \in Target :
            stage'[u][j] = IF u # t THEN stage[u][j] ELSE IF j \in ids THEN "scheduled" ELSE "out"
  BY SpawnPlaces DEF IInv
<1>2. \A j \in Target : stage[t][j] = "out"
  BY <1>1 DEF IInv, TaskShape
<1>3. Quiet'
  BY DEF Quiet
<1>4. TaskShape'
  BY <1>1 DEF IInv, TaskShape
<1>5. HaveClients'
  <2> SUFFICES ASSUME ~shutdown, NEW i \in Interface,
                      i \in lost \cup tripped \/ (\E u \in Task : kind'[u] = "one" /\ stage'[u][i] # "out")
               PROVE  client[i] # "missing"
    BY DEF HaveClients
  <2>1. i \in Target
    BY DEF Target
  <2>2. CASE i \in lost \cup tripped
    BY <2>2 DEF IInv, HaveClients
  <2>3. ASSUME NEW u \in Task, kind'[u] = "one", stage'[u][i] # "out" PROVE client[i] # "missing"
    <3>1. CASE u = t
      BY <1>1, <2>1, <2>3, <3>1
    <3>2. CASE u # t
      BY <1>1, <2>1, <2>3, <3>2 DEF IInv, HaveClients
    <3> QED  BY <3>1, <3>2
  <2> QED  BY <2>2, <2>3
<1>6. \A u \in Task, j \in Target : /\ stage'[u][j] = "sleep" <=> stage[u][j] = "sleep"
                                    /\ stage'[u][j] = "connect" <=> stage[u][j] = "connect"
                                    /\ stage'[u][j] \in {"out", "scheduled"} <=> stage[u][j] \in {"out", "scheduled"}
  BY <1>1, <1>2
<1>7. SleepersReconnect' /\ ReconnectExclusive'
  BY <1>6 DEF IInv, SleepersReconnect, ReconnectExclusive
<1>8. ActiveIsRecovering'
  BY <1>6 DEF IInv, ActiveIsRecovering, Target
<1> QED  BY <1>1, <1>3, <1>4, <1>5, <1>7, <1>8

\* Nothing is done to the tasks, and clients are not taken away.
LEMMA TasksUntouched ==
    ASSUME IInv, UNCHANGED <<kind, stage, active, shutdown>>,
           \A j \in Target : client[j] # "missing" => client'[j] # "missing",
           \A j \in Target : client'[j] = client[j]
                             \/ {client[j], client'[j]} \cap {"RECONNECTING", "CONNECTING"} = {},
           \A i \in Interface : ~shutdown /\ i \in lost' \cup tripped'
                                => i \in lost \cup tripped \/ client[i] # "missing"
    PROVE  TaskShape' /\ HaveClients' /\ SleepersReconnect' /\ ActiveIsRecovering' /\ ReconnectExclusive'
<1>1. TaskShape' /\ ActiveIsRecovering'
  BY DEF IInv, TaskShape, ActiveIsRecovering
<1>2. HaveClients'
  BY DEF IInv, HaveClients, Target
<1>3. \A j \in Target : /\ client'[j] = "RECONNECTING" <=> client[j] = "RECONNECTING"
                        /\ client'[j] = "CONNECTING" <=> client[j] = "CONNECTING"
  OBVIOUS
<1>4. SleepersReconnect' /\ ReconnectExclusive'
  BY <1>3 DEF IInv, SleepersReconnect, ReconnectExclusive
<1> QED  BY <1>1, <1>2, <1>4

-----------------------------------------------------------------------------
(* The actions outside the tasks. *)

LEMMA OnClientStateEventKeeps == ASSUME IInv, OnClientStateEvent PROVE IInv'
<1>1. /\ evaluate /\ UNCHANGED <<client, attempts, active, inFailed, beats, kind, stage, lost, tripped, shutdown>>
  BY DEF OnClientStateEvent, budget, tasks, events
<1>2. central # "INITIALIZING"
  BY <1>1 DEF IInv, Quiet
<1>3. central' \in {"RUNNING", "DEGRADED", "FAILED", central}
  BY EvaluatedStays DEF OnClientStateEvent, IInv
<1>4. Typed' /\ Quiet' /\ HeartbeatWhileFailed'
  BY <1>1, <1>2, <1>3 DEF IInv, Typed, CentralStates, Quiet, HeartbeatWhileFailed
<1> QED  BY <1>1, <1>4, TasksUntouched DEF IInv

\* start() leaves INITIALIZING and creates clients that are not being reconnected.
LEMMA StartKeeps == ASSUME IInv, Start PROVE IInv'
<1>1. PICK cs \in [Target -> {"missing", "INITIALIZED", "CONNECTED", "FAILED"}] :
        cs[JsonUrl] = "missing" /\ client' = cs /\ central' = Evaluated(cs, TRUE)
  BY DEF Start
<1>2. /\ central = "INITIALIZING"
      /\ UNCHANGED <<attempts, active, inFailed, beats, kind, stage, lost, tripped, shutdown>>
  BY DEF Start, budget, tasks
<1>3. central' \in {"RUNNING", "DEGRADED", "FAILED"}
  BY <1>1, <1>2, StartLeaves
<1>4. /\ beats = 0 /\ active = {} /\ lost = {} /\ tripped = {}
      /\ \A t \in Task, i \in Target : kind[t] = "free" /\ stage[t][i] = "out"
  BY <1>2 DEF IInv, Quiet, TaskShape
<1>5. Typed'
  BY <1>1, <1>2, <1>3 DEF IInv, Typed, CentralStates, ClientStates
<1>6. Quiet' /\ TaskShape' /\ HeartbeatWhileFailed'
  BY <1>2, <1>3 DEF IInv, Quiet, TaskShape, HeartbeatWhileFailed
<1>7. HaveClients' /\ ActiveIsRecovering'
  BY <1>2, <1>4 DEF HaveClients, ActiveIsRecovering, Target
<1>8. SleepersReconnect' /\ ReconnectExclusive'
  BY <1>1, <1>2, <1>4 DEF SleepersReconnect, ReconnectExclusive
<1> QED  BY <1>5, <1>6, <1>7, <1>8 DEF IInv

LEMMA OnStartFailedKeeps == ASSUME IInv, OnStartFailed PROVE IInv'
<1>1. startFailed /\ UNCHANGED <<central, client, attempts, active, kind, stage, lost, tripped, shutdown>>
  BY DEF OnStartFailed, tasks
<1>2. central # "INITIALIZING"
  BY <1>1 DEF IInv, Quiet
<1>3. beats' \in 0 .. MaxBeats /\ HeartbeatWhileFailed'
  <2>1. CASE shutdown
    BY <1>1, <2>1 DEF OnStartFailed, IInv, Typed, HeartbeatWhileFailed
  <2>2. CASE ~shutdown
    <3>1. beats' \in 1 .. MaxBeats
      BY <2>2, HeartbeatStarts DEF OnStartFailed, IInv
    <3> QED  BY <3>1, RecoveryAssumption DEF HeartbeatWhileFailed
  <2> QED  BY <2>1, <2>2
<1>4. Typed' /\ Quiet'
  BY <1>1, <1>2, <1>3 DEF IInv, Typed, Quiet
<1> QED  BY <1>1, <1>3, <1>4, TasksUntouched DEF IInv

LEMMA OnEventKeeps ==
    ASSUME IInv, NEW i \in Target, OnConnectionLost(i) \/ OnTripped(i) PROVE IInv'
<1>1. /\ UNCHANGED <<central, client, attempts, active, inFailed, beats, shutdown>>
      /\ i \in lost \cup tripped /\ lost' \subseteq lost /\ tripped' \subseteq tripped
      /\ (\E t \in Task : Spawn(t, "one", {i})) \/ UNCHANGED <<kind, stage>>
  BY DEF OnConnectionLost, OnTripped, budget, tasks
<1>2. central # "INITIALIZING"
  BY <1>1 DEF IInv, Quiet
<1>3. HeartbeatWhileFailed'
  BY <1>1 DEF IInv, HeartbeatWhileFailed
<1>4. CASE \E t \in Task : Spawn(t, "one", {i})
  <2>1. i \in Interface /\ ~shutdown => client[i] # "missing"
    BY <1>1 DEF IInv, HaveClients
  <2>2. PICK t \in Task : Spawn(t, "one", {i})
    BY <1>4
  <2>3. /\ kind' \in [Task -> {"free", "one", "all"}] /\ stage' \in [Task -> [Target -> Stages]]
        /\ Quiet' /\ TaskShape' /\ HaveClients' /\ SleepersReconnect'
        /\ ActiveIsRecovering' /\ ReconnectExclusive'
    BY <1>1, <1>2, <2>1, <2>2, SpawnKeeps
  <2> QED  BY <1>1, <1>3, <2>3 DEF IInv, Typed
<1>5. CASE UNCHANGED <<kind, stage>>
  <2>1. Typed' /\ Quiet'
    BY <1>1, <1>2, <1>5 DEF IInv, Typed, Quiet
  <2> QED  BY <1>1, <1>3, <1>5, <2>1, TasksUntouched DEF IInv
<1> QED  BY <1>1, <1>4, <1>5

\* A heartbeat loop ends by itself only when it is no longer needed.
LEMMA HeartbeatKeeps == ASSUME IInv, Heartbeat PROVE IInv'
<1> DEFINE failing == {i \in Target : NeedsHeartbeat(i)}
<1>1. /\ beats > 0 /\ UNCHANGED <<central, client, active, inFailed, lost, tripped, shutdown>>
  BY DEF Heartbeat, events
<1>2. central # "INITIALIZING" /\ beats \in Nat
  BY <1>1 DEF IInv, Quiet, Typed
<1>3. CASE ~inFailed \/ shutdown
  <2>1. beats' = beats - 1 /\ UNCHANGED <<attempts, kind, stage>>
    BY <1>3 DEF Heartbeat, tasks
  <2>2. beats' \in 0 .. MaxBeats
    BY <1>1, <2>1, RecoveryAssumption DEF IInv, Typed
  <2>3. Typed' /\ Quiet' /\ HeartbeatWhileFailed'
    BY <1>1, <1>2, <1>3, <2>1, <2>2 DEF IInv, Typed, Quiet, HeartbeatWhileFailed
  <2> QED  BY <1>1, <2>1, <2>3, TasksUntouched DEF IInv
<1>4. CASE ~(~inFailed \/ shutdown)
  <2>1. /\ beats' = beats
        /\ attempts' = [i \in Target |-> IF i \in failing THEN MaxAttempts - 1 ELSE attempts[i]]
        /\ \E t \in Task : Spawn(t, "all", failing)
    BY <1>4 DEF Heartbeat
  <2> HIDE DEF failing
  <2>2. attempts' \in [Target -> Nat]
    BY <2>1, RecoveryAssumption DEF IInv, Typed
  <2>3. PICK t \in Task : Spawn(t, "all", failing)
    BY <2>1
  <2>4. /\ kind' \in [Task -> {"free", "one", "all"}] /\ stage' \in [Task -> [Target -> Stages]]
        /\ Quiet' /\ TaskShape' /\ HaveClients' /\ SleepersReconnect'
        /\ ActiveIsRecovering' /\ ReconnectExclusive'
    BY <1>1, <1>2, <2>3, SpawnKeeps
  <2> QED  BY <1>1, <2>1, <2>2, <2>4 DEF IInv, Typed, HeartbeatWhileFailed
<1> QED  BY <1>3, <1>4

\* The check reports clients that exist and drops only connected ones.
LEMMA CheckConnectionKeeps == ASSUME IInv, CheckConnection PROVE IInv'
<1>1. PICK reported \in SUBSET Suspect :
        /\ lost' = lost \cup reported
        /\ \E dropped \in SUBSET {i \in reported : client[i] = "CONNECTED"} :
              client' = [i \in Target |-> IF i \in dropped THEN "DISCONNECTED" ELSE client[i]]
  BY DEF CheckConnection
<1>2. PICK dropped \in SUBSET {i \in reported : client[i] = "CONNECTED"} :
        client' = [i \in Target |-> IF i \in dropped THEN "DISCONNECTED" ELSE client[i]]
  BY <1>1
<1>3. /\ central \in {"RUNNING", "DEGRADED"}
      /\ UNCHANGED <<central, attempts, active, inFailed, beats, kind, stage, tripped, shutdown>>
  BY DEF CheckConnection, Operational, budget, tasks
<1>4. \A i \in reported : i \in Target /\ client[i] # "missing"
  BY <1>1 DEF Suspect, Unavailable, Clients
<1>5. \A i \in reported : i \in Interface
  BY <1>4 DEF IInv, Typed, Target
<1>6. Typed' /\ Quiet' /\ HeartbeatWhileFailed'
  <2>1. client' \in [Target -> ClientStates]
    BY <1>2 DEF IInv, Typed, ClientStates
  <2>2. client'[JsonUrl] = "missing"
    BY <1>2 DEF IInv, Typed, Target
  <2> QED  BY <1>1, <1>3, <1>5, <2>1, <2>2 DEF IInv, Typed, Quiet, HeartbeatWhileFailed
<1>7. \A j \in Target : /\ client[j] # "missing" => client'[j] # "missing"
                        /\ \/ client'[j] = client[j]
                           \/ {client[j], client'[j]} \cap {"RECONNECTING", "CONNECTING"} = {}
  BY <1>2
<1> QED  BY <1>1, <1>3, <1>4, <1>6, <1>7, TasksUntouched DEF IInv

LEMMA BreakerTripsKeeps == ASSUME IInv, NEW i \in Target, BreakerTrips(i) PROVE IInv'
<1>1. /\ i \in Trippable /\ (i \in Interface => client[i] # "missing")
      /\ central # "INITIALIZING" /\ tripped' = tripped \cup {i}
      /\ UNCHANGED <<central, client, attempts, active, inFailed, beats, kind, stage, lost, shutdown>>
  BY DEF BreakerTrips, Clients, budget, tasks
<1>2. Typed' /\ Quiet' /\ HeartbeatWhileFailed'
  BY <1>1 DEF IInv, Typed, Quiet, HeartbeatWhileFailed
<1> QED  BY <1>1, <1>2, TasksUntouched DEF IInv

LEMMA SurroundingsKeep == ASSUME IInv, CcuChanges \/ Stop \/ Stopped PROVE IInv'
<1>1. CASE CcuChanges
  <2>1. UNCHANGED <<central, client, attempts, active, inFailed, beats, kind, stage, lost, tripped,
                    evaluate, startFailed, shutdown>>
    BY <1>1 DEF CcuChanges, budget, tasks, events
  <2>2. Typed' /\ Quiet' /\ HeartbeatWhileFailed'
    BY <2>1 DEF IInv, Typed, Quiet, HeartbeatWhileFailed
  <2> QED  BY <2>1, <2>2, TasksUntouched DEF IInv
<1>2. CASE Stop
  <2>1. /\ central # "INITIALIZING" /\ shutdown' = TRUE
        /\ UNCHANGED <<central, client, attempts, active, inFailed, beats, kind, stage, lost, tripped>>
    BY <1>2 DEF Stop, budget, tasks, events
  <2>2. Typed' /\ Quiet' /\ HeartbeatWhileFailed' /\ TaskShape' /\ HaveClients'
    BY <2>1 DEF IInv, Typed, Quiet, HeartbeatWhileFailed, TaskShape, HaveClients
  <2>3. SleepersReconnect' /\ ActiveIsRecovering' /\ ReconnectExclusive'
    BY <2>1 DEF IInv, SleepersReconnect, ActiveIsRecovering, ReconnectExclusive
  <2> QED  BY <2>2, <2>3 DEF IInv
<1>3. CASE Stopped
  <2>1. /\ shutdown /\ shutdown' = shutdown /\ TransitionTo("STOPPED") /\ beats' = 0
        /\ active' = active \ UNION {Members(t) : t \in Task}
        /\ kind' = [t \in Task |-> "free"] /\ stage' = [t \in Task |-> [i \in Target |-> "out"]]
        /\ client' = [i \in Target |-> "missing"] /\ UNCHANGED <<attempts, lost, tripped, evaluate, startFailed>>
    BY <1>3 DEF Stopped, budget, events
  <2>2. central' \in CentralStates /\ central' \in {"STOPPED", central}
    BY <2>1, TransitionStays DEF CentralStates, IInv
  <2>3. Typed'
    <3>1. stage' \in [Task -> [Target -> Stages]] /\ kind' \in [Task -> {"free", "one", "all"}]
      BY <2>1 DEF Stages
    <3>2. client' \in [Target -> ClientStates] /\ client'[JsonUrl] = "missing"
      BY <2>1 DEF ClientStates, Target
    <3> QED  BY <2>1, <2>2, <3>1, <3>2, RecoveryAssumption DEF IInv, Typed
  <2>4. Quiet' /\ TaskShape' /\ HaveClients' /\ HeartbeatWhileFailed'
    BY <2>1, <2>2 DEF IInv, Quiet, TaskShape, HaveClients, HeartbeatWhileFailed
  <2>5. SleepersReconnect' /\ ReconnectExclusive'
    BY <2>1 DEF SleepersReconnect, ReconnectExclusive
  <2>6. active' \cap Interface = {}
    <3> SUFFICES ASSUME NEW i \in active \cap Interface PROVE \E t \in Task : i \in Members(t)
      BY <2>1
    <3> QED  BY DEF IInv, ActiveIsRecovering, Members, Target
  <2> QED  BY <2>3, <2>4, <2>5, <2>6 DEF IInv, ActiveIsRecovering
<1> QED  BY <1>1, <1>2, <1>3

-----------------------------------------------------------------------------
(* The steps of a recovery task. *)

\* HandleMaxRetries and the ends of a recovery keep the heartbeat alive.
LEMMA MaxRetriesKeeps ==
    ASSUME IInv, HandleMaxRetries, UNCHANGED shutdown
    PROVE  /\ central' \in CentralStates /\ central' \in {"FAILED", central}
           /\ beats' \in 0 .. MaxBeats /\ HeartbeatWhileFailed'
<1>1. beats' \in 1 .. MaxBeats
  BY HeartbeatStarts DEF HandleMaxRetries, IInv
<1>2. central' \in CentralStates /\ central' \in {"FAILED", central}
  BY TransitionStays DEF HandleMaxRetries, CentralStates, IInv
<1> QED  BY <1>1, <1>2, RecoveryAssumption DEF HeartbeatWhileFailed

\* The only interface of a "one" task.
LEMMA OneMember ==
    ASSUME IInv, NEW t \in Task, NEW i \in Target, kind[t] = "one", stage[t][i] # "out"
    PROVE  \A j \in Target : j # i => stage[t][j] = "out"
BY DEF IInv, TaskShape

LEMMA BeginOneKeeps == ASSUME IInv, NEW t \in Task, NEW i \in Target, BeginOne(t, i) PROVE IInv'
<1>1. /\ kind[t] = "one" /\ stage[t][i] \in {"scheduled", "retry"}
      /\ UNCHANGED <<client, attempts, lost, tripped, startFailed, evaluate, shutdown>>
  BY DEF BeginOne, events
<1>2. \A j \in Target : j # i => stage[t][j] = "out"
  BY <1>1, OneMember
<1>3. CASE shutdown \/ Exhausted(i)
  <2>1. /\ Ends(t) /\ active' = IF stage[t][i] = "retry" THEN active \ {i} ELSE active
        /\ HandleMaxRetries \/ UNCHANGED <<central, inFailed, beats>>
    BY <1>3 DEF BeginOne
  <2>2. /\ central' \in CentralStates /\ central' \in {"FAILED", central}
        /\ beats' \in 0 .. MaxBeats /\ HeartbeatWhileFailed'
    <3>1. CASE HandleMaxRetries
      BY <1>1, <3>1, MaxRetriesKeeps
    <3>2. CASE UNCHANGED <<central, inFailed, beats>>
      BY <1>1, <3>2 DEF IInv, Typed, HeartbeatWhileFailed
    <3> QED  BY <2>1, <3>1, <3>2
  <2>3. active' \subseteq Target
        /\ \A j \in active' \cap Interface : j \in active /\ stage[t][j] \in {"out", "scheduled"}
    BY <1>1, <1>2, <2>1 DEF IInv, Typed, Target
  <2>4. \A j \in Target : stage[t][j] \notin {"sleep", "connect"}
    BY <1>1, <1>2
  <2>5. /\ kind' \in [Task -> {"free", "one", "all"}] /\ stage' \in [Task -> [Target -> Stages]]
        /\ Quiet' /\ TaskShape' /\ HaveClients' /\ SleepersReconnect'
        /\ ActiveIsRecovering' /\ ReconnectExclusive'
    BY <1>1, <2>1, <2>2, <2>3, <2>4, EndsKeeps
  <2> QED  BY <1>1, <2>2, <2>3, <2>5 DEF IInv, Typed
<1>4. CASE ~shutdown /\ ~Exhausted(i)
  <2>1. /\ active' = active \cup {i} /\ TransitionTo("RECOVERING") /\ UNCHANGED <<inFailed, beats>>
        /\ IF i \in Clients(client) THEN Goto(t, i, "wait") ELSE Ends(t)
    BY <1>4 DEF BeginOne
  <2>2. central' \in CentralStates /\ central' \in {"RECOVERING", central}
    BY <2>1, TransitionStays DEF CentralStates, IInv
  <2>3. HeartbeatWhileFailed' /\ beats' \in 0 .. MaxBeats
    BY <1>1, <2>1 DEF IInv, Typed, HeartbeatWhileFailed
  <2>4. CASE i \in Clients(client)
    <3>1. "wait" \in Stages \ {"out", "scheduled", "sleep", "connect"}
      BY DEF Stages
    <3>2. Goto(t, i, "wait")
      BY <2>1, <2>4
    <3>3. /\ central' \in CentralStates /\ active' \subseteq Target
          /\ kind' \in [Task -> {"free", "one", "all"}] /\ stage' \in [Task -> [Target -> Stages]]
          /\ Quiet' /\ TaskShape' /\ HaveClients' /\ ActiveIsRecovering'
      BY <1>1, <2>1, <2>2, <3>1, <3>2, GotoKeeps
    <3>4. SleepersReconnect' /\ ReconnectExclusive'
      BY <1>1, <3>1, <3>2, GotoOutside
    <3> QED  BY <1>1, <2>3, <3>3, <3>4 DEF IInv, Typed
  <2>5. CASE i \notin Clients(client)
    <3>1. i \notin Interface
      BY <1>1, <1>4, <2>5 DEF IInv, HaveClients, Clients
    <3>2. active' \subseteq Target
          /\ \A j \in active' \cap Interface : j \in active /\ stage[t][j] \in {"out", "scheduled"}
      BY <1>2, <2>1, <3>1 DEF IInv, Typed, Target
    <3>3. \A j \in Target : stage[t][j] \notin {"sleep", "connect"}
      BY <1>1, <1>2
    <3>4. /\ kind' \in [Task -> {"free", "one", "all"}] /\ stage' \in [Task -> [Target -> Stages]]
          /\ Quiet' /\ TaskShape' /\ HaveClients' /\ SleepersReconnect'
          /\ ActiveIsRecovering' /\ ReconnectExclusive'
      BY <1>1, <2>1, <2>2, <2>5, <3>2, <3>3, EndsKeeps
    <3> QED  BY <1>1, <2>2, <2>3, <3>2, <3>4 DEF IInv, Typed
  <2> QED  BY <2>4, <2>5
<1> QED  BY <1>3, <1>4

LEMMA FinishOkKeeps == ASSUME IInv, NEW t \in Task, NEW i \in Target, FinishOk(t, i) PROVE IInv'
<1>1. /\ kind[t] = "one" /\ stage[t][i] = "ok" /\ Ends(t) /\ active' = active \ {i}
      /\ attempts' = [attempts EXCEPT ![i] = 0]
      /\ (TransitionTo("RUNNING") /\ inFailed' = FALSE) \/ UNCHANGED <<central, inFailed>>
      /\ UNCHANGED <<client, beats, lost, tripped, shutdown>>
  BY DEF FinishOk, events
<1>2. \A j \in Target : j # i => stage[t][j] = "out"
  BY <1>1, OneMember
<1>3. central' \in CentralStates /\ central' \in {"RUNNING", central}
  <2>1. CASE TransitionTo("RUNNING")
    BY <2>1, TransitionStays DEF CentralStates, IInv
  <2> QED  BY <1>1, <2>1 DEF IInv, Typed
<1>4. HeartbeatWhileFailed' /\ attempts' \in [Target -> Nat]
  BY <1>1 DEF IInv, Typed, HeartbeatWhileFailed
<1>5. active' \subseteq Target
      /\ \A j \in active' \cap Interface : j \in active /\ stage[t][j] \in {"out", "scheduled"}
  BY <1>1, <1>2 DEF IInv, Typed, Target
<1>6. \A j \in Target : stage[t][j] \notin {"sleep", "connect"}
  BY <1>1, <1>2
<1>7. /\ kind' \in [Task -> {"free", "one", "all"}] /\ stage' \in [Task -> [Target -> Stages]]
      /\ Quiet' /\ TaskShape' /\ HaveClients' /\ SleepersReconnect'
      /\ ActiveIsRecovering' /\ ReconnectExclusive'
  BY <1>1, <1>3, <1>5, <1>6, EndsKeeps
<1> QED  BY <1>1, <1>3, <1>4, <1>5, <1>7 DEF IInv, Typed

LEMMA FailedKeeps == ASSUME IInv, NEW t \in Task, NEW i \in Target, FinishFail(t, i) PROVE IInv'
<1>1. /\ kind[t] = "one" /\ stage[t][i] = "fail"
      /\ UNCHANGED <<client, attempts, lost, tripped, shutdown>>
  BY DEF FinishFail, budget, events
<1>2. \A j \in Target : j # i => stage[t][j] = "out"
  BY <1>1, OneMember
<1>3. CASE Exhausted(i)
  <2>1. HandleMaxRetries /\ active' = active \ {i} /\ Ends(t)
    BY <1>3 DEF FinishFail
  <2>2. /\ central' \in CentralStates /\ central' \in {"FAILED", central}
        /\ beats' \in 0 .. MaxBeats /\ HeartbeatWhileFailed'
    BY <1>1, <2>1, MaxRetriesKeeps
  <2>3. active' \subseteq Target
        /\ \A j \in active' \cap Interface : j \in active /\ stage[t][j] \in {"out", "scheduled"}
    BY <1>2, <2>1 DEF IInv, Typed, Target
  <2>4. \A j \in Target : stage[t][j] \notin {"sleep", "connect"}
    BY <1>1, <1>2
  <2>5. /\ kind' \in [Task -> {"free", "one", "all"}] /\ stage' \in [Task -> [Target -> Stages]]
        /\ Quiet' /\ TaskShape' /\ HaveClients' /\ SleepersReconnect'
        /\ ActiveIsRecovering' /\ ReconnectExclusive'
    BY <1>1, <2>1, <2>2, <2>3, <2>4, EndsKeeps
  <2> QED  BY <1>1, <2>2, <2>3, <2>5 DEF IInv, Typed
<1>4. CASE ~Exhausted(i)
  <2>1. Goto(t, i, "retry") /\ UNCHANGED <<central, active, inFailed, beats>>
    BY <1>4 DEF FinishFail
  <2>2. "retry" \in Stages \ {"out", "scheduled", "sleep", "connect"}
    BY DEF Stages
  <2>3. /\ central' \in CentralStates /\ active' \subseteq Target
        /\ kind' \in [Task -> {"free", "one", "all"}] /\ stage' \in [Task -> [Target -> Stages]]
        /\ Quiet' /\ TaskShape' /\ HaveClients' /\ ActiveIsRecovering'
    BY <1>1, <2>1, <2>2, GotoKeeps DEF IInv, Typed
  <2>4. SleepersReconnect' /\ ReconnectExclusive'
    BY <1>1, <2>1, <2>2, GotoOutside
  <2> QED  BY <1>1, <2>1, <2>3, <2>4 DEF IInv, Typed, HeartbeatWhileFailed
<1> QED  BY <1>3, <1>4

LEMMA BeginAllKeeps == ASSUME IInv, NEW t \in Task, BeginAll(t) PROVE IInv'
<1>1. /\ kind[t] = "all" /\ \A i \in Members(t) : stage[t][i] = "scheduled"
      /\ UNCHANGED <<client, attempts, inFailed, beats, lost, tripped, shutdown>>
  BY DEF BeginAll, budget, events
<1>2. central # "INITIALIZING" /\ \A j \in Target : stage[t][j] \in {"out", "scheduled"}
  BY <1>1 DEF IInv, Quiet, Members
<1>3. HeartbeatWhileFailed'
  BY <1>1 DEF IInv, HeartbeatWhileFailed
<1>4. CASE shutdown
  <2>1. Ends(t) /\ UNCHANGED <<central, active>>
    BY <1>4 DEF BeginAll
  <2>2. \A j \in active' \cap Interface : j \in active /\ stage[t][j] \in {"out", "scheduled"}
    BY <1>2, <2>1 DEF Target
  <2>3. /\ active' \subseteq Target /\ central' \in CentralStates
    BY <2>1 DEF IInv, Typed
  <2>4. /\ kind' \in [Task -> {"free", "one", "all"}] /\ stage' \in [Task -> [Target -> Stages]]
        /\ Quiet' /\ TaskShape' /\ HaveClients' /\ SleepersReconnect'
        /\ ActiveIsRecovering' /\ ReconnectExclusive'
    BY <1>1, <1>2, <2>1, <2>2, <2>3, EndsKeeps
  <2> QED  BY <1>1, <1>3, <2>1, <2>4 DEF IInv, Typed
<1>5. CASE ~shutdown
  <2>1. /\ active' = active \cup Members(t) /\ TransitionTo("RECOVERING") /\ kind' = kind
        /\ stage' = [stage EXCEPT ![t] = [i \in Target |-> IF i \in Members(t) THEN "wait" ELSE "out"]]
    BY <1>5 DEF BeginAll
  <2>2. central' \in CentralStates /\ central' \in {"RECOVERING", central}
    BY <2>1, TransitionStays DEF CentralStates, IInv
  <2>3. [i \in Target |-> IF i \in Members(t) THEN "wait" ELSE "out"] \in [Target -> Stages]
    BY DEF Stages
  <2>4. /\ stage' \in [Task -> [Target -> Stages]]
        /\ \A u \in Task, j \in Target :
              stage'[u][j] = IF u # t THEN stage[u][j] ELSE IF j \in Members(t) THEN "wait" ELSE "out"
    BY <2>1, <2>3 DEF IInv, Typed
  <2>5. \A j \in Target : j \in Members(t) <=> stage[t][j] # "out"
    BY DEF Members
  <2>6. \A u \in Task, j \in Target : /\ stage'[u][j] = "out" <=> stage[u][j] = "out"
                                      /\ stage'[u][j] = "sleep" <=> stage[u][j] = "sleep"
                                      /\ stage'[u][j] = "connect" <=> stage[u][j] = "connect"
    BY <1>2, <2>4, <2>5
  <2>7. Typed' /\ Quiet'
    BY <1>1, <1>2, <2>1, <2>2, <2>4 DEF IInv, Typed, Quiet, Members
  <2>8. TaskShape' /\ HaveClients'
    BY <1>1, <2>1, <2>6 DEF IInv, TaskShape, HaveClients, Target
  <2>9. SleepersReconnect' /\ ReconnectExclusive'
    BY <1>1, <2>6 DEF IInv, SleepersReconnect, ReconnectExclusive
  <2>10. ActiveIsRecovering'
    <3> SUFFICES ASSUME NEW j \in active' \cap Interface
                 PROVE  \E u \in Task : stage'[u][j] \notin {"out", "scheduled"}
      BY DEF ActiveIsRecovering
    <3>1. j \in Target
      BY DEF Target
    <3>2. CASE j \in Members(t)
      BY <2>4, <3>1, <3>2
    <3>3. CASE j \notin Members(t)
      <4>1. j \in active \cap Interface
        BY <2>1, <3>3
      <4>2. PICK u \in Task : stage[u][j] \notin {"out", "scheduled"}
        BY <4>1 DEF IInv, ActiveIsRecovering
      <4>3. u # t
        BY <1>2, <3>1, <4>2
      <4> QED  BY <2>4, <3>1, <4>2, <4>3
    <3> QED  BY <3>2, <3>3
  <2> QED  BY <1>3, <2>7, <2>8, <2>9, <2>10 DEF IInv
<1> QED  BY <1>4, <1>5

LEMMA FinishAllKeeps == ASSUME IInv, NEW t \in Task, FinishAll(t) PROVE IInv'
<1>1. /\ kind[t] = "all" /\ \A i \in Members(t) : stage[t][i] \in {"ok", "fail"}
      /\ active' = active \ Members(t) /\ Ends(t)
      /\ UNCHANGED <<client, attempts, beats, lost, tripped, shutdown>>
  BY DEF FinishAll, budget, events
<1>2. /\ inFailed' = FALSE \/ inFailed' = inFailed
      /\ TransitionTo("RUNNING") \/ TransitionTo("DEGRADED") \/ UNCHANGED central
  BY DEF FinishAll
<1>3. central' \in CentralStates /\ central' \in {"RUNNING", "DEGRADED", central}
  <2>1. CASE TransitionTo("RUNNING") \/ TransitionTo("DEGRADED")
    BY <2>1, TransitionStays DEF CentralStates, IInv
  <2> QED  BY <1>2, <2>1 DEF IInv, Typed
<1>4. HeartbeatWhileFailed'
  BY <1>1, <1>2 DEF IInv, HeartbeatWhileFailed
<1>5. \A j \in Target : stage[t][j] \in {"out", "ok", "fail"} /\ (j \notin Members(t) => stage[t][j] = "out")
  BY <1>1 DEF Members
<1>6. active' \subseteq Target
      /\ \A j \in active' \cap Interface : j \in active /\ stage[t][j] \in {"out", "scheduled"}
  BY <1>1, <1>5 DEF IInv, Typed, Target
<1>7. /\ kind' \in [Task -> {"free", "one", "all"}] /\ stage' \in [Task -> [Target -> Stages]]
      /\ Quiet' /\ TaskShape' /\ HaveClients' /\ SleepersReconnect'
      /\ ActiveIsRecovering' /\ ReconnectExclusive'
  BY <1>1, <1>3, <1>5, <1>6, EndsKeeps
<1> QED  BY <1>1, <1>3, <1>4, <1>6, <1>7 DEF IInv, Typed

-----------------------------------------------------------------------------
(* The stages of one recovery. *)

LEMMA OverCounts ==
    ASSUME Typed, NEW t \in Task, NEW i \in Target, NEW result, Over(t, i, result)
    PROVE  attempts' \in [Target -> Nat] /\ Goto(t, i, result)
BY DEF Over, Typed

\* A stage that does not touch the client.
LEMMA StageKeeps ==
    ASSUME IInv, NEW t \in Task, NEW i \in Target, stage[t][i] \notin {"out", "sleep", "connect"},
           NEW place \in Stages \ {"out", "scheduled", "sleep", "connect"}, Goto(t, i, place),
           place = "reconnect" => i \in Interface, attempts' \in [Target -> Nat],
           UNCHANGED <<central, client, active, inFailed, beats, lost, tripped, shutdown>>
    PROVE  IInv'
<1>1. central' \in CentralStates
  BY DEF IInv, Typed
<1>2. /\ central' \in CentralStates /\ active' \subseteq Target
      /\ kind' \in [Task -> {"free", "one", "all"}] /\ stage' \in [Task -> [Target -> Stages]]
      /\ Quiet' /\ TaskShape' /\ HaveClients' /\ ActiveIsRecovering'
  BY <1>1, GotoKeeps
<1>3. SleepersReconnect' /\ ReconnectExclusive'
  BY GotoOutside
<1> QED  BY <1>2, <1>3 DEF IInv, Typed, HeartbeatWhileFailed

\* A stage that sets the client of its interface to s.
LEMMA ClientStageKeeps ==
    ASSUME IInv, NEW t \in Task, NEW i \in Target, stage[t][i] # "out",
           NEW place \in Stages \ {"out", "scheduled", "reconnect"}, Goto(t, i, place),
           NEW s \in ClientStates \ {"missing"}, client' = [client EXCEPT ![i] = s], i # JsonUrl,
           attempts' \in [Target -> Nat], SleepersReconnect', ReconnectExclusive',
           UNCHANGED <<central, active, inFailed, beats, lost, tripped, shutdown>>
    PROVE  IInv'
<1>1. central' \in CentralStates
  BY DEF IInv, Typed
<1>2. /\ client' \in [Target -> ClientStates] /\ client'[JsonUrl] = "missing"
      /\ \A j \in Target : client[j] # "missing" => client'[j] # "missing"
  BY DEF IInv, Typed
<1>3. /\ central' \in CentralStates /\ active' \subseteq Target
      /\ kind' \in [Task -> {"free", "one", "all"}] /\ stage' \in [Task -> [Target -> Stages]]
      /\ Quiet' /\ TaskShape' /\ HaveClients' /\ ActiveIsRecovering'
  BY <1>1, <1>2, GotoKeeps
<1> QED  BY <1>2, <1>3 DEF IInv, Typed, HeartbeatWhileFailed

LEMMA PlainStagesKeep ==
    ASSUME IInv, NEW t \in Task, NEW i \in Target, Acquire(t, i) \/ Check(t, i) \/ DataLoad(t, i)
    PROVE  IInv'
<1>1. /\ stage[t][i] \in {"wait", "check", "load"}
      /\ UNCHANGED <<central, client, active, inFailed, beats, lost, tripped, shutdown>>
  BY DEF Acquire, Check, DataLoad, budget, events
<1>2. \E place \in {"check", "reconnect", "ok", "fail"} :
        /\ Over(t, i, place) \/ (Goto(t, i, place) /\ UNCHANGED attempts)
        /\ place = "reconnect" => i \in Interface
  BY DEF Acquire, Check, DataLoad, budget
<1>3. PICK place \in {"check", "reconnect", "ok", "fail"} :
        Goto(t, i, place) /\ attempts' \in [Target -> Nat] /\ (place = "reconnect" => i \in Interface)
  BY <1>2, OverCounts DEF IInv, Typed
<1>4. place \in Stages \ {"out", "scheduled", "sleep", "connect"}
  BY DEF Stages, Held
<1> QED  BY <1>1, <1>3, <1>4, StageKeeps

\* Only interfaces reconnect: JsonUrl has no port, so its check fails.
LEMMA ReconnectKeeps == ASSUME IInv, NEW t \in Task, NEW i \in Target, Reconnect(t, i) PROVE IInv'
<1>1. /\ stage[t][i] = "reconnect"
      /\ UNCHANGED <<central, active, inFailed, beats, lost, tripped, shutdown>>
  BY DEF Reconnect, events
<1>2. i \in Interface /\ i # JsonUrl
  BY <1>1, RecoveryAssumption DEF IInv, TaskShape
<1>3. {"fail", "load", "sleep"} \subseteq Stages \ {"out", "scheduled", "reconnect"}
  BY DEF Stages, Held
<1>4. CASE client[i] = "missing"
  <2>1. Over(t, i, "fail") /\ client' = [client EXCEPT ![i] = IF ccuUp THEN "INITIALIZED" ELSE @]
    BY <1>4 DEF Reconnect, CanReconnect
  <2>2. attempts' \in [Target -> Nat] /\ Goto(t, i, "fail")
    BY <2>1, OverCounts DEF IInv
  <2>3. CASE ccuUp
    <3>1. client' = [client EXCEPT ![i] = "INITIALIZED"]
      BY <2>1, <2>3
    <3>2. SleepersReconnect' /\ ReconnectExclusive'
      BY <1>1, <1>3, <1>4, <2>2, <3>1, GotoOutside DEF IInv, Typed
    <3>3. "INITIALIZED" \in ClientStates \ {"missing"}
      BY DEF ClientStates
    <3> QED  BY <1>1, <1>2, <1>3, <2>2, <3>1, <3>2, <3>3, ClientStageKeeps
  <2>4. CASE ~ccuUp
    <3>1. client' = client
      BY <2>1, <2>4 DEF IInv, Typed
    <3> QED  BY <1>1, <1>3, <2>2, <3>1, StageKeeps
  <2> QED  BY <2>3, <2>4
<1>5. CASE CanReconnect(i)
  <2>1. /\ client' = [client EXCEPT ![i] = "RECONNECTING"] /\ Goto(t, i, "sleep") /\ UNCHANGED attempts
    BY <1>5 DEF Reconnect, CanReconnect
  <2>2. \A u \in Task, j \in Target : stage'[u][j] = IF u = t /\ j = i THEN "sleep" ELSE stage[u][j]
    BY <1>3, <2>1, GotoPlaces DEF IInv
  <2>3. \A u \in Task : stage[u][i] \notin {"sleep", "connect"}
    BY <1>5 DEF CanReconnect, IInv, SleepersReconnect, ReconnectExclusive
  <2>4. \A j \in Target : client'[j] = IF j = i THEN "RECONNECTING" ELSE client[j]
    BY <2>1 DEF IInv, Typed
  <2>5. SleepersReconnect'
    BY <2>2, <2>4 DEF IInv, SleepersReconnect
  <2>6. ReconnectExclusive'
    <3>1. \A j \in Target : \A u, w \in Task :
             stage'[u][j] \in {"sleep", "connect"} /\ stage'[w][j] \in {"sleep", "connect"} => u = w
      BY <2>2, <2>3 DEF IInv, ReconnectExclusive
    <3>2. \A j \in Target : client'[j] = "CONNECTING" <=> \E u \in Task : stage'[u][j] = "connect"
      BY <1>1, <2>2, <2>3, <2>4 DEF IInv, ReconnectExclusive
    <3> QED  BY <3>1, <3>2 DEF ReconnectExclusive
  <2>7. "RECONNECTING" \in ClientStates \ {"missing"} /\ attempts' \in [Target -> Nat]
    BY <2>1 DEF ClientStates, IInv, Typed
  <2> QED  BY <1>1, <1>2, <1>3, <2>1, <2>5, <2>6, <2>7, ClientStageKeeps
<1>6. CASE client[i] = "RECONNECTING"
  <2>1. Goto(t, i, "load") /\ UNCHANGED <<client, attempts>>
    BY <1>6 DEF Reconnect, CanReconnect
  <2> QED  BY <1>1, <1>3, <2>1, StageKeeps DEF IInv, Typed
<1>7. CASE client[i] = "CONNECTING"
  <2>1. Over(t, i, "fail") /\ UNCHANGED client
    BY <1>7 DEF Reconnect, CanReconnect
  <2>2. attempts' \in [Target -> Nat] /\ Goto(t, i, "fail")
    BY <2>1, OverCounts DEF IInv
  <2> QED  BY <1>1, <1>3, <2>1, <2>2, StageKeeps
<1> QED  BY <1>4, <1>5, <1>6, <1>7 DEF Reconnect

LEMMA ReinitKeeps == ASSUME IInv, NEW t \in Task, NEW i \in Target, Reinit(t, i) PROVE IInv'
<1>1. /\ stage[t][i] = "sleep" /\ client' = [client EXCEPT ![i] = "CONNECTING"] /\ Goto(t, i, "connect")
      /\ UNCHANGED <<central, attempts, active, inFailed, beats, lost, tripped, shutdown>>
  BY DEF Reinit, budget, events
<1>2. "connect" \in Stages \ {"out", "scheduled", "reconnect"} /\ "CONNECTING" \in ClientStates \ {"missing"}
  BY DEF Stages, Held, ClientStates
<1>3. client[i] = "RECONNECTING" /\ i # JsonUrl
  BY <1>1 DEF IInv, Typed, SleepersReconnect
<1>4. \A u \in Task, j \in Target : stage'[u][j] = IF u = t /\ j = i THEN "connect" ELSE stage[u][j]
  BY <1>1, <1>2, GotoPlaces DEF IInv
<1>5. \A j \in Target : client'[j] = IF j = i THEN "CONNECTING" ELSE client[j]
  BY <1>1 DEF IInv, Typed
<1>6. \A u \in Task : stage[u][i] \in {"sleep", "connect"} => u = t
  BY <1>1 DEF IInv, ReconnectExclusive
<1>7. SleepersReconnect'
  BY <1>4, <1>5, <1>6 DEF IInv, SleepersReconnect
<1>8. ReconnectExclusive'
  <2>1. \A j \in Target : \A u, w \in Task :
           stage'[u][j] \in {"sleep", "connect"} /\ stage'[w][j] \in {"sleep", "connect"} => u = w
    BY <1>4, <1>6 DEF IInv, ReconnectExclusive
  <2>2. \A j \in Target : client'[j] = "CONNECTING" <=> \E u \in Task : stage'[u][j] = "connect"
    BY <1>4, <1>5 DEF IInv, ReconnectExclusive
  <2> QED  BY <2>1, <2>2 DEF ReconnectExclusive
<1>9. attempts' \in [Target -> Nat]
  BY <1>1 DEF IInv, Typed
<1> QED  BY <1>1, <1>2, <1>3, <1>7, <1>8, <1>9, ClientStageKeeps

LEMMA InitProxyEndsKeeps ==
    ASSUME IInv, NEW t \in Task, NEW i \in Target, InitProxyEnds(t, i) PROVE IInv'
<1>1. /\ stage[t][i] = "connect"
      /\ client' = [client EXCEPT ![i] = IF ccuUp THEN "CONNECTED" ELSE "FAILED"]
      /\ IF ccuUp THEN Goto(t, i, "load") /\ UNCHANGED attempts ELSE Over(t, i, "fail")
      /\ UNCHANGED <<central, active, inFailed, beats, lost, tripped, shutdown>>
  BY DEF InitProxyEnds, events
<1>2. PICK place \in {"load", "fail"} : Goto(t, i, place) /\ attempts' \in [Target -> Nat]
  BY <1>1, OverCounts DEF IInv, Typed
<1>3. PICK s \in {"CONNECTED", "FAILED"} : client' = [client EXCEPT ![i] = s]
  BY <1>1
<1>4. place \in Stages \ {"out", "scheduled", "reconnect"} /\ s \in ClientStates \ {"missing"}
  BY DEF Stages, Held, ClientStates
<1>5. client[i] = "CONNECTING" /\ i # JsonUrl
  BY <1>1 DEF IInv, Typed, ReconnectExclusive
<1>6. \A u \in Task, j \in Target : stage'[u][j] = IF u = t /\ j = i THEN place ELSE stage[u][j]
  BY <1>2, <1>4, GotoPlaces DEF IInv
<1>7. \A j \in Target : client'[j] = IF j = i THEN s ELSE client[j]
  BY <1>3 DEF IInv, Typed
<1>8. \A u \in Task : stage[u][i] \in {"sleep", "connect"} => u = t
  BY <1>1 DEF IInv, ReconnectExclusive
<1>9. SleepersReconnect'
  BY <1>6, <1>7, <1>8 DEF IInv, SleepersReconnect
<1>10. ReconnectExclusive'
  <2>1. \A j \in Target : \A u, w \in Task :
           stage'[u][j] \in {"sleep", "connect"} /\ stage'[w][j] \in {"sleep", "connect"} => u = w
    BY <1>6 DEF IInv, ReconnectExclusive
  <2>2. \A j \in Target : client'[j] = "CONNECTING" <=> \E u \in Task : stage'[u][j] = "connect"
    BY <1>6, <1>7, <1>8 DEF IInv, ReconnectExclusive
  <2> QED  BY <2>1, <2>2 DEF ReconnectExclusive
<1> QED  BY <1>1, <1>2, <1>3, <1>4, <1>5, <1>9, <1>10, ClientStageKeeps

-----------------------------------------------------------------------------
(* Somebody follows up: until two recoveries overlap, one task at a time is  *)
(* under way and the central is RECOVERING while it is.  Outside, FAILED has *)
(* a heartbeat or something on its way that leads to a recovery, and so has  *)
(* DEGRADED once no client is connected, from where an evaluation goes to    *)
(* FAILED.                                                                   *)

Running(t) == \E i \in Target : stage[t][i] \notin {"out", "scheduled"}

\* A recovery is under way, or an event that starts one.
Pending ==
    startFailed \/ lost # {} \/ tripped # {} \/ \E t \in Task : kind[t] # "free"

OneAtATime ==
    /\ \A t, u \in Task : kind[t] # "free" /\ kind[u] # "free" => t = u
    /\ \A t \in Task : kind[t] # "free" => \E i \in Target : stage[t][i] # "out"
    /\ \A t \in Task, i \in Target :
          stage[t][i] \notin {"out", "scheduled"} => i \in active /\ central = "RECOVERING"
    /\ \A t \in Task : kind[t] = "all" => inFailed

Followed ==
    /\ central = "RECOVERING" => inFailed \/ \E t \in Task : Running(t)
    /\ central = "FAILED" \/ (central = "DEGRADED" /\ ~AnyConnected(client))
       => inFailed \/ Pending

FInv ==
    /\ central = "STOPPED" => shutdown
    /\ ~shutdown /\ ~overlapped =>
          OneAtATime /\ (JsonUrl \notin active => Followed)

LEMMA InitFInv == Init => FInv
BY DEF Init, FInv, OneAtATime, Followed, Running

\* What is left of an active interface is its task.
LEMMA ActiveHasTask ==
    ASSUME IInv, NEW i \in active \cap Interface PROVE \E t \in Task : kind[t] # "free"
BY DEF IInv, ActiveIsRecovering, TaskShape, Target

\* No task changes: the central may move, and events may come.
LEMMA EvaluationFollows == ASSUME IInv, FInv, OnClientStateEvent PROVE FInv'
<1>1. /\ UNCHANGED <<client, active, inFailed, kind, stage, overlapped, lost, tripped,
                     startFailed, shutdown>>
      /\ central' = IF central = "STOPPED" THEN central ELSE Evaluated(client, FALSE)
  BY DEF OnClientStateEvent, budget, tasks, events
<1>2. AllConnected(client) => AnyConnected(client)
  BY DEF AllConnected, AnyConnected
<1>3. \/ central' = central
      \/ central' = "RUNNING" /\ active = {}
      \/ central' = "DEGRADED" /\ AnyConnected(client) /\ central = "RUNNING"
      \/ central' = "FAILED" /\ central = "DEGRADED" /\ ~AnyConnected(client)
  BY <1>1, <1>2 DEF Evaluated, CanTransition, VALID_CENTRAL_TRANSITIONS
<1>4. AnyConnected(client') = AnyConnected(client)
  BY <1>1
<1>5. \A t \in Task : Running(t)' <=> Running(t)
  BY <1>1 DEF Running
<1> QED  BY <1>1, <1>3, <1>4, <1>5 DEF FInv, OneAtATime, Followed, Pending, Running

LEMMA StartFollows == ASSUME IInv, FInv, Start PROVE FInv'
<1>1. PICK cs : client' = cs /\ central' = Evaluated(cs, TRUE)
  BY DEF Start
<1>2. /\ central = "INITIALIZING" /\ startFailed' = (central' = "FAILED")
      /\ UNCHANGED <<active, inFailed, kind, stage, overlapped, lost, tripped, shutdown>>
  BY DEF Start, tasks
<1>3. /\ central' \in {"RUNNING", "DEGRADED", "FAILED"}
      /\ central' = "DEGRADED" => AnyConnected(client')
  BY <1>1, <1>2, StartLeaves DEF Evaluated
<1>4. \A t \in Task, i \in Target : kind[t] = "free" /\ stage[t][i] = "out"
  BY <1>2 DEF IInv, Quiet, TaskShape
<1> QED  BY <1>2, <1>3, <1>4 DEF FInv, OneAtATime, Followed, Pending

LEMMA OnStartFailedFollows == ASSUME IInv, FInv, OnStartFailed PROVE FInv'
<1>1. /\ UNCHANGED <<central, client, active, kind, stage, overlapped, lost, tripped, shutdown>>
      /\ ~shutdown => inFailed'
  BY DEF OnStartFailed, tasks
<1> QED  BY <1>1 DEF FInv, OneAtATime, Followed

LEMMA FeedFollows ==
    ASSUME IInv, FInv,
           CheckConnection \/ CcuChanges \/ \E i \in Target : BreakerTrips(i)
    PROVE  FInv'
<1>1. /\ UNCHANGED <<central, active, inFailed, kind, stage, overlapped, startFailed, shutdown>>
      /\ lost \subseteq lost' /\ tripped \subseteq tripped'
      /\ client' = client \/ lost' # {}
  BY DEF CheckConnection, CcuChanges, BreakerTrips, budget, tasks, events
<1>2. \A t \in Task : Running(t)' <=> Running(t)
  BY <1>1 DEF Running
<1>3. Pending => Pending'
  BY <1>1 DEF Pending
<1>4. client' = client => (AnyConnected(client') <=> AnyConnected(client))
  OBVIOUS
<1>5. lost' # {} => Pending'
  BY DEF Pending
<1>6. Followed => Followed'
  BY <1>1, <1>2, <1>3, <1>4, <1>5 DEF Followed
<1>7. OneAtATime => OneAtATime'
  BY <1>1 DEF OneAtATime
<1> QED  BY <1>1, <1>6, <1>7 DEF FInv

\* A task is scheduled: it is the only one or they overlap.
LEMMA SpawnFollows ==
    ASSUME IInv, FInv, NEW t \in Task, NEW k \in {"one", "all"}, NEW ids, Spawn(t, k, ids),
           ids \cap Target # {}, k = "all" => inFailed,
           UNCHANGED <<central, client, active, inFailed, shutdown>>
    PROVE  FInv'
<1>1. /\ kind[t] = "free"
      /\ kind' \in [Task -> {"free", "one", "all"}]
      /\ \A u \in Task : kind'[u] = IF u = t THEN k ELSE kind[u]
      /\ \A u \in Task, j \in Target :
            stage'[u][j] = IF u # t THEN stage[u][j] ELSE IF j \in ids THEN "scheduled" ELSE "out"
  BY SpawnPlaces DEF IInv
<1>2. overlapped' = (overlapped \/ \E u \in Task : kind[u] # "free")
  BY DEF Spawn, Free
<1> SUFFICES ASSUME ~shutdown, ~overlapped, \A u \in Task : kind[u] = "free"
             PROVE  OneAtATime' /\ (JsonUrl \notin active => Followed')
  BY <1>2 DEF FInv
<1>3. \A u \in Task, j \in Target : stage[u][j] = "out"
  BY DEF IInv, TaskShape
<1>4. \A u \in Task : ~Running(u)
  BY <1>3 DEF Running
<1>5. OneAtATime'
  <2>1. \A u \in Task, j \in Target : stage'[u][j] \in {"out", "scheduled"}
    BY <1>1, <1>3
  <2>2. \A u \in Task : kind'[u] # "free" => u = t
    BY <1>1
  <2>3. \E j \in Target : stage'[t][j] # "out"
    BY <1>1
  <2>4. \A u \in Task : kind'[u] = "all" => inFailed'
    BY <1>1, <2>2
  <2> QED  BY <2>1, <2>2, <2>3, <2>4 DEF OneAtATime
<1>6. Pending'
  BY <1>1 DEF Pending
<1>7. JsonUrl \notin active => Followed'
  BY <1>4, <1>6 DEF FInv, Followed
<1> QED  BY <1>5, <1>7

LEMMA OnEventFollows ==
    ASSUME IInv, FInv, NEW i \in Target, OnConnectionLost(i) \/ OnTripped(i) PROVE FInv'
<1>1. /\ UNCHANGED <<central, client, active, inFailed, startFailed, shutdown>>
      /\ \/ \E t \in Task : Spawn(t, "one", {i})
         \/ ~Relevant(i) /\ UNCHANGED <<kind, stage, overlapped>>
  BY DEF OnConnectionLost, OnTripped, budget, tasks
<1>2. CASE \E t \in Task : Spawn(t, "one", {i})
  BY <1>1, <1>2, SpawnFollows
<1>3. CASE ~Relevant(i) /\ UNCHANGED <<kind, stage, overlapped>>
  <2>1. shutdown \/ JsonUrl \in active \/ \E t \in Task : kind[t] # "free"
    <3>1. shutdown \/ i \in active
      BY <1>3 DEF Relevant
    <3>2. i = JsonUrl \/ i \in Interface
      BY DEF Target
    <3>3. i \in active \cap Interface => \E t \in Task : kind[t] # "free"
      BY ActiveHasTask
    <3> QED  BY <3>1, <3>2, <3>3
  <2>2. \A t \in Task : Running(t)' <=> Running(t)
    BY <1>3 DEF Running
  <2>3. (\E t \in Task : kind[t] # "free") => Pending'
    BY <1>3 DEF Pending
  <2>4. OneAtATime => OneAtATime'
    BY <1>1, <1>3 DEF OneAtATime
  <2>5. Followed /\ Pending' => Followed'
    BY <1>1, <2>2 DEF Followed
  <2> QED  BY <1>1, <1>3, <2>1, <2>3, <2>4, <2>5 DEF FInv
<1> QED  BY <1>1, <1>2, <1>3

LEMMA HeartbeatFollows == ASSUME IInv, FInv, Heartbeat PROVE FInv'
<1> DEFINE failing == {i \in Target : NeedsHeartbeat(i)}
<1>1. UNCHANGED <<central, client, active, inFailed, lost, tripped, startFailed, shutdown>>
  BY DEF Heartbeat, events
<1>2. CASE ~inFailed \/ shutdown
  <2>1. UNCHANGED <<kind, stage, overlapped>>
    BY <1>2 DEF Heartbeat, tasks
  <2> QED  BY <1>1, <2>1 DEF FInv, OneAtATime, Followed, Pending, Running
<1>3. CASE ~(~inFailed \/ shutdown)
  <2>1. failing # {} /\ inFailed /\ \E t \in Task : Spawn(t, "all", failing)
    BY <1>3 DEF Heartbeat
  <2>2. failing \subseteq Target
    OBVIOUS
  <2> HIDE DEF failing
  <2> QED  BY <1>1, <2>1, <2>2, SpawnFollows
<1> QED  BY <1>2, <1>3

\* The task under way goes on with an interface it has taken up.
LEMMA GotoFollows ==
    ASSUME IInv, FInv, NEW t \in Task, NEW i \in Target, stage[t][i] \notin {"out", "scheduled"},
           NEW place \in Stages \ {"out", "scheduled"}, Goto(t, i, place),
           UNCHANGED <<central, active, inFailed, shutdown>>
    PROVE  FInv'
<1>1. /\ kind' = kind
      /\ \A u \in Task, j \in Target : stage'[u][j] = IF u = t /\ j = i THEN place ELSE stage[u][j]
  BY GotoPlaces DEF IInv
<1>2. overlapped' = overlapped
  BY DEF Goto
<1>3. \A u \in Task, j \in Target :
         /\ stage'[u][j] \in {"out", "scheduled"} <=> stage[u][j] \in {"out", "scheduled"}
         /\ stage'[u][j] = "out" <=> stage[u][j] = "out"
  BY <1>1
<1>4. OneAtATime => OneAtATime'
  BY <1>1, <1>3 DEF OneAtATime
<1>5. \A u \in Task : Running(u)' <=> Running(u)
  BY <1>3 DEF Running
<1>6. OneAtATime => central = "RECOVERING"
  BY DEF OneAtATime
<1>7. OneAtATime /\ Followed => Followed'
  BY <1>5, <1>6 DEF Followed
<1> QED  BY <1>2, <1>4, <1>7 DEF FInv

LEMMA StagesFollow ==
    ASSUME IInv, FInv, NEW t \in Task, NEW i \in Target,
           Acquire(t, i) \/ Check(t, i) \/ Reconnect(t, i) \/ Reinit(t, i) \/ InitProxyEnds(t, i)
           \/ DataLoad(t, i)
    PROVE  FInv'
<1>1. /\ stage[t][i] \in {"wait", "check", "reconnect", "sleep", "connect", "load"}
      /\ UNCHANGED <<central, active, inFailed, shutdown>>
  BY DEF Acquire, Check, Reconnect, Reinit, InitProxyEnds, DataLoad
<1>2. \E place \in {"check", "reconnect", "sleep", "connect", "load", "ok", "fail"} :
         Goto(t, i, place)
  BY DEF Acquire, Check, Reconnect, Reinit, InitProxyEnds, DataLoad, Over
<1>3. {"check", "reconnect", "sleep", "connect", "load", "ok", "fail"}
      \subseteq Stages \ {"out", "scheduled"}
  BY DEF Stages, Held
<1> QED  BY <1>1, <1>2, <1>3, GotoFollows

\* The task under way ends: nothing else is under way, and of the active ids at most that
\* of the JSON-RPC client is left.
LEMMA EndsFollows ==
    ASSUME IInv, FInv, NEW t \in Task, kind[t] # "free", Ends(t), UNCHANGED shutdown,
           central' # "STOPPED" \/ central' = central,
           ~shutdown /\ JsonUrl \notin active' /\ OneAtATime => Followed'
    PROVE  FInv'
<1>1. /\ \A u \in Task : kind'[u] = IF u = t THEN "free" ELSE kind[u]
      /\ \A u \in Task, j \in Target : stage'[u][j] = IF u = t THEN "out" ELSE stage[u][j]
  BY EndsPlaces DEF IInv
<1>2. overlapped' = overlapped
  BY DEF Ends
<1>3. OneAtATime => OneAtATime'
  <2> SUFFICES ASSUME OneAtATime PROVE OneAtATime'
    OBVIOUS
  <2>1. \A u \in Task : u # t => kind[u] = "free"
    BY DEF OneAtATime
  <2>2. \A u \in Task : kind'[u] = "free"
    BY <1>1, <2>1
  <2>3. \A u \in Task, j \in Target : stage'[u][j] = "out"
    BY <1>1, <2>1 DEF IInv, TaskShape
  <2> QED  BY <2>2, <2>3 DEF OneAtATime
<1> QED  BY <1>2, <1>3 DEF FInv

LEMMA MaxRetriesFollows ==
    ASSUME FInv, HandleMaxRetries PROVE inFailed' /\ (central' # "STOPPED" \/ central' = central)
BY DEF HandleMaxRetries, TransitionTo

LEMMA BeginOneFollows ==
    ASSUME IInv, FInv, NEW t \in Task, NEW i \in Target, BeginOne(t, i) PROVE FInv'
<1>1. /\ kind[t] = "one" /\ stage[t][i] \in {"scheduled", "retry"}
      /\ UNCHANGED <<client, lost, tripped, startFailed, shutdown>>
  BY DEF BeginOne, events
<1>2. CASE shutdown
  <2>1. Ends(t) /\ UNCHANGED central
    BY <1>2 DEF BeginOne
  <2> QED  BY <1>1, <1>2, <2>1, EndsFollows
<1>3. CASE ~shutdown /\ Exhausted(i)
  <2>1. HandleMaxRetries /\ Ends(t)
    BY <1>3 DEF BeginOne
  <2>2. Followed'
    BY <2>1, MaxRetriesFollows DEF Followed
  <2> QED  BY <1>1, <2>1, <2>2, MaxRetriesFollows, EndsFollows
<1>4. CASE ~shutdown /\ ~Exhausted(i)
  <2>1. /\ active' = active \cup {i} /\ TransitionTo("RECOVERING") /\ UNCHANGED inFailed
        /\ IF i \in Clients(client) THEN Goto(t, i, "wait") ELSE Ends(t)
    BY <1>4 DEF BeginOne
  <2>2. central # "INITIALIZING"
    BY <1>1 DEF IInv, Quiet
  <2>3. central' = "RECOVERING"
    BY <1>4, <2>1, <2>2 DEF FInv, IInv, Typed, CentralStates, TransitionTo, CanTransition,
                            VALID_CENTRAL_TRANSITIONS
  <2>4. CASE i \notin Clients(client)
    <3>1. i = JsonUrl
      BY <1>1, <1>4, <2>4 DEF IInv, HaveClients, Clients, Target
    <3> QED  BY <1>1, <2>1, <2>3, <2>4, <3>1, EndsFollows
  <2>5. CASE i \in Clients(client)
    <3>1. Goto(t, i, "wait") /\ "wait" \in Stages
      BY <2>1, <2>5 DEF Stages
    <3>2. /\ kind' = kind
          /\ \A u \in Task, j \in Target : stage'[u][j] = IF u = t /\ j = i THEN "wait" ELSE stage[u][j]
      BY <3>1, GotoPlaces DEF IInv
    <3>3. overlapped' = overlapped
      BY <3>1 DEF Goto
    <3>4. OneAtATime => OneAtATime'
      BY <1>1, <2>1, <2>3, <3>2 DEF OneAtATime
    <3>5. Followed'
      BY <2>3, <3>2 DEF Followed, Running
    <3> QED  BY <1>1, <2>3, <3>3, <3>4, <3>5 DEF FInv
  <2> QED  BY <2>4, <2>5
<1> QED  BY <1>2, <1>3, <1>4

\* A recovery that succeeds leaves RECOVERING.
LEMMA FinishOkFollows ==
    ASSUME IInv, FInv, NEW t \in Task, NEW i \in Target, FinishOk(t, i) PROVE FInv'
<1>1. /\ kind[t] = "one" /\ stage[t][i] = "ok" /\ Ends(t) /\ active' = active \ {i}
      /\ IF active' = {} THEN TransitionTo("RUNNING") /\ inFailed' = FALSE
                         ELSE UNCHANGED <<central, inFailed>>
      /\ UNCHANGED shutdown
  BY DEF FinishOk
<1>2. ASSUME OneAtATime, JsonUrl \notin active' PROVE Followed'
  <2>1. \A j \in active \cap Interface : j = i
    <3> SUFFICES ASSUME NEW j \in active \cap Interface PROVE j = i
      OBVIOUS
    <3>1. j \in Target
      BY DEF Target
    <3>2. PICK u \in Task : stage[u][j] \notin {"out", "scheduled"}
      BY DEF IInv, ActiveIsRecovering
    <3>3. u = t
      BY <1>1, <1>2, <3>1, <3>2 DEF IInv, TaskShape, OneAtATime
    <3> QED  BY <1>1, <3>1, <3>2, <3>3 DEF IInv, TaskShape
  <2>2. active' = {}
    BY <1>1, <1>2, <2>1 DEF IInv, Typed, Target
  <2>3. central = "RECOVERING"
    BY <1>1, <1>2 DEF OneAtATime
  <2>4. central' = "RUNNING"
    BY <1>1, <2>2, <2>3 DEF TransitionTo, CanTransition, VALID_CENTRAL_TRANSITIONS
  <2> QED  BY <2>4 DEF Followed
<1>3. central' # "STOPPED" \/ central' = central
  BY <1>1 DEF TransitionTo
<1> QED  BY <1>1, <1>2, <1>3, EndsFollows

LEMMA FinishFailFollows ==
    ASSUME IInv, FInv, NEW t \in Task, NEW i \in Target, FinishFail(t, i) PROVE FInv'
<1>1. kind[t] = "one" /\ stage[t][i] = "fail" /\ UNCHANGED shutdown
  BY DEF FinishFail
<1>2. CASE Exhausted(i)
  <2>1. HandleMaxRetries /\ Ends(t)
    BY <1>2 DEF FinishFail
  <2>2. Followed'
    BY <2>1, MaxRetriesFollows DEF Followed
  <2> QED  BY <1>1, <2>1, <2>2, MaxRetriesFollows, EndsFollows
<1>3. CASE ~Exhausted(i)
  <2>1. Goto(t, i, "retry") /\ UNCHANGED <<central, active, inFailed>> /\ "retry" \in Stages
    BY <1>3 DEF FinishFail, Stages
  <2> QED  BY <1>1, <2>1, GotoFollows
<1> QED  BY <1>2, <1>3

LEMMA BeginAllFollows == ASSUME IInv, FInv, NEW t \in Task, BeginAll(t) PROVE FInv'
<1>1. /\ kind[t] = "all" /\ \A i \in Members(t) : stage[t][i] = "scheduled"
      /\ UNCHANGED <<inFailed, shutdown>>
  BY DEF BeginAll
<1>2. CASE shutdown
  <2>1. Ends(t) /\ UNCHANGED central
    BY <1>2 DEF BeginAll
  <2> QED  BY <1>1, <1>2, <2>1, EndsFollows
<1>3. CASE ~shutdown
  <2>1. /\ active' = active \cup Members(t) /\ TransitionTo("RECOVERING")
        /\ stage' = [stage EXCEPT ![t] = [i \in Target |-> IF i \in Members(t) THEN "wait" ELSE "out"]]
        /\ UNCHANGED <<kind, overlapped>>
    BY <1>3 DEF BeginAll
  <2>2. \A u \in Task, j \in Target :
           stage'[u][j] = IF u # t THEN stage[u][j] ELSE IF j \in Members(t) THEN "wait" ELSE "out"
    BY <2>1 DEF IInv, Typed
  <2>3. central # "INITIALIZING"
    BY <1>1 DEF IInv, Quiet
  <2>4. central' = "RECOVERING"
    BY <1>3, <2>1, <2>3 DEF FInv, IInv, Typed, CentralStates, TransitionTo, CanTransition,
                            VALID_CENTRAL_TRANSITIONS
  <2>5. \A j \in Target : j \in Members(t) <=> stage[t][j] # "out"
    BY DEF Members
  <2>6. OneAtATime => OneAtATime'
    BY <1>1, <2>1, <2>2, <2>4, <2>5 DEF OneAtATime
  <2>7. OneAtATime => inFailed'
    BY <1>1 DEF OneAtATime
  <2>8. OneAtATime => Followed'
    BY <2>4, <2>7 DEF Followed
  <2> QED  BY <1>1, <2>1, <2>4, <2>6, <2>8 DEF FInv
<1> QED  BY <1>2, <1>3

\* A heartbeat's recovery leaves RECOVERING or its heartbeat goes on.
LEMMA FinishAllFollows == ASSUME IInv, FInv, NEW t \in Task, FinishAll(t) PROVE FInv'
<1>1. /\ kind[t] = "all" /\ Ends(t) /\ UNCHANGED shutdown
      /\ \A i \in Members(t) : stage[t][i] \in {"ok", "fail"}
      /\ \/ TransitionTo("RUNNING")
         \/ UNCHANGED inFailed /\ (TransitionTo("DEGRADED") \/ UNCHANGED central)
  BY DEF FinishAll
<1>2. ASSUME OneAtATime PROVE Followed'
  <2>1. PICK i \in Target : stage[t][i] # "out"
    BY <1>1, <1>2 DEF OneAtATime
  <2>2. central = "RECOVERING" /\ inFailed
    BY <1>1, <1>2, <2>1 DEF OneAtATime, Members
  <2>3. CASE TransitionTo("RUNNING")
    BY <2>2, <2>3 DEF TransitionTo, CanTransition, VALID_CENTRAL_TRANSITIONS, Followed
  <2>4. CASE UNCHANGED inFailed
    BY <2>2, <2>4 DEF Followed
  <2> QED  BY <1>1, <2>3, <2>4
<1>3. central' # "STOPPED" \/ central' = central
  BY <1>1 DEF TransitionTo
<1> QED  BY <1>1, <1>2, <1>3, EndsFollows

LEMMA NextFollows == IInv /\ FInv /\ [Next]_vars => FInv'
<1> SUFFICES ASSUME IInv, FInv, [Next]_vars PROVE FInv'
  OBVIOUS
<1>1. CASE UNCHANGED vars
  BY <1>1 DEF vars, FInv, OneAtATime, Followed, Pending, Running, AnyConnected, Clients
<1>2. CASE Stop \/ Stopped
  BY <1>2 DEF Stop, Stopped, FInv
<1>3. ASSUME NEW t \in Task, NEW i \in Target, Step(t, i) \/ Acquire(t, i) PROVE FInv'
  BY <1>3, BeginOneFollows, FinishOkFollows, FinishFailFollows, StagesFollow DEF Step
<1>4. CASE Next
  BY <1>2, <1>3, <1>4, StartFollows, EvaluationFollows, OnStartFailedFollows, HeartbeatFollows,
     FeedFollows, OnEventFollows, BeginAllFollows, FinishAllFollows DEF Next
<1> QED  BY <1>1, <1>4

-----------------------------------------------------------------------------
(* The theorems. *)

LEMMA NextKeeps == IInv /\ [Next]_vars => IInv'
<1> SUFFICES ASSUME IInv, [Next]_vars PROVE IInv'
  OBVIOUS
<1>1. CASE UNCHANGED vars
  BY <1>1 DEF vars, IInv, Typed, Quiet, TaskShape, HaveClients, SleepersReconnect, ActiveIsRecovering,
              HeartbeatWhileFailed, ReconnectExclusive
<1>2. ASSUME NEW t \in Task, NEW i \in Target, Step(t, i) \/ Acquire(t, i) PROVE IInv'
  BY <1>2, BeginOneKeeps, FinishOkKeeps, FailedKeeps, PlainStagesKeep, ReconnectKeeps, ReinitKeeps,
     InitProxyEndsKeeps DEF Step
<1>3. CASE Next
  BY <1>2, <1>3, StartKeeps, OnClientStateEventKeeps, OnStartFailedKeeps, HeartbeatKeeps,
     CheckConnectionKeeps, OnEventKeeps, BreakerTripsKeeps, BeginAllKeeps, FinishAllKeeps,
     SurroundingsKeep DEF Next
<1> QED  BY <1>1, <1>3

LEMMA Invariance == Spec => []IInv
BY InitIInv, NextKeeps, PTL DEF Spec

\* However recoveries of the same interface overlap, fail, retry and are stopped, none
\* leaves its interface behind in _active_recoveries (connection_recovery.py:
\* _start_recovery, _recover_all_interfaces).
THEOREM ActiveRecovering == Spec => []ActiveIsRecovering
<1>1. IInv => ActiveIsRecovering
  BY DEF IInv
<1> QED  BY <1>1, Invariance, PTL

\* While the central is in its failed state a heartbeat loop is alive, although the
\* loops end by themselves and no handle is kept (connection_recovery.py:
\* _start_heartbeat_timer, _heartbeat_loop).
THEOREM HeartbeatAlive == Spec => []HeartbeatWhileFailed
<1>1. IInv => HeartbeatWhileFailed
  BY DEF IInv
<1> QED  BY <1>1, Invariance, PTL

\* Any number of overlapping recoveries enter client.reconnect() of an interface one at
\* a time, and a client is CONNECTING exactly while one of them is in init_proxy
\* (connection_recovery.py: _stage_reconnect, interface_client.py: reconnect).
THEOREM ReconnectsExclude == Spec => []ReconnectExclusive
<1>1. IInv => ReconnectExclusive
  BY DEF IInv
<1> QED  BY <1>1, Invariance, PTL

\* Nothing is begun once stop() has set _shutdown.
LEMMA ShutdownStep ==
    ASSUME Next, shutdown
    PROVE  active' \subseteq active /\ (central' # central => central' # "RECOVERING")
<1>1. CASE Start \/ OnClientStateEvent
  <2>1. UNCHANGED active
    BY <1>1 DEF Start, OnClientStateEvent
  <2>2. central' \in {"RUNNING", "DEGRADED", "FAILED", central}
    BY <1>1 DEF Start, OnClientStateEvent, Evaluated
  <2> QED  BY <2>1, <2>2
<1>2. CASE OnStartFailed \/ Heartbeat \/ CheckConnection \/ CcuChanges \/ Stop
  BY <1>2 DEF OnStartFailed, Heartbeat, CheckConnection, CcuChanges, Stop
<1>3. CASE Stopped
  BY <1>3 DEF Stopped, TransitionTo
<1>4. CASE \E i \in Target : OnConnectionLost(i) \/ OnTripped(i) \/ BreakerTrips(i)
  BY <1>4 DEF OnConnectionLost, OnTripped, BreakerTrips
<1>5. ASSUME NEW t \in Task, NEW i \in Target, Step(t, i) \/ Acquire(t, i)
      PROVE  active' \subseteq active /\ (central' # central => central' # "RECOVERING")
  <2>1. CASE BeginOne(t, i)
    BY <2>1 DEF BeginOne
  <2>2. CASE FinishOk(t, i) \/ FinishFail(t, i)
    BY <2>2 DEF FinishOk, FinishFail, HandleMaxRetries, TransitionTo
  <2>3. CASE Acquire(t, i) \/ Check(t, i) \/ Reconnect(t, i) \/ Reinit(t, i) \/ InitProxyEnds(t, i)
             \/ DataLoad(t, i)
    BY <2>3 DEF Acquire, Check, Reconnect, Reinit, InitProxyEnds, DataLoad
  <2> QED  BY <1>5, <2>1, <2>2, <2>3 DEF Step
<1>6. CASE \E t \in Task : BeginAll(t) \/ FinishAll(t)
  BY <1>6 DEF BeginAll, FinishAll, TransitionTo
<1> QED  BY <1>1, <1>2, <1>3, <1>4, <1>5, <1>6 DEF Next

\* After stop() no scheduled, sleeping or retried recovery enters _active_recoveries or
\* takes the central to RECOVERING (connection_recovery.py: the checks of _shutdown).
THEOREM StopIsFinal == Spec => ShutdownStartsNothing
<1> DEFINE Nothing == shutdown => /\ active' \subseteq active
                                  /\ central' # central => central' # "RECOVERING"
<1>1. [Next]_vars => [Nothing]_vars
  BY ShutdownStep
<1>2. ShutdownStartsNothing <=> [][Nothing]_vars
  BY DEF ShutdownStartsNothing
<1> QED  BY <1>1, <1>2, PTL DEF Spec

-----------------------------------------------------------------------------
(* The recoveries use every client as ClientContract says. *)

\* Before start() is over there is no client, and after stop() no task.
BeforeAndAfter ==
    /\ central = "INITIALIZING" => \A i \in Target : client[i] = "missing"
    /\ central = "STOPPED" => shutdown /\ \A t \in Task : kind[t] = "free"

\* The stages inside client.reconnect().
Inner == {"sleep", "connect"}
Inside(i) == {t \in Task : stage[t][i] \in Inner}

\* Nobody enters or leaves a reconnect.
SameSides ==
    \A u \in Task, j \in Target : stage'[u][j] \in Inner <=> stage[u][j] \in Inner

LEMMA GotoSides ==
    ASSUME IInv, NEW t \in Task, NEW i \in Target, stage[t][i] \notin Inner,
           NEW place \in Stages \ Inner, Goto(t, i, place)
    PROVE  SameSides
<1>1. \A u \in Task, j \in Target : stage'[u][j] = IF u = t /\ j = i THEN place ELSE stage[u][j]
  BY GotoPlaces DEF IInv
<1> QED  BY <1>1 DEF SameSides

LEMMA EndsSides ==
    ASSUME IInv, NEW t \in Task, \A j \in Target : stage[t][j] \notin Inner, Ends(t)
    PROVE  SameSides
<1>1. \A u \in Task, j \in Target : stage'[u][j] = IF u = t THEN "out" ELSE stage[u][j]
  BY EndsPlaces DEF IInv
<1> QED  BY <1>1 DEF SameSides, Inner

LEMMA SpawnSides ==
    ASSUME IInv, NEW t \in Task, NEW k \in {"one", "all"}, NEW ids, Spawn(t, k, ids)
    PROVE  SameSides
<1>1. /\ kind[t] = "free"
      /\ \A u \in Task, j \in Target :
            stage'[u][j] = IF u # t THEN stage[u][j] ELSE IF j \in ids THEN "scheduled" ELSE "out"
  BY SpawnPlaces DEF IInv
<1>2. \A j \in Target : stage[t][j] = "out"
  BY <1>1 DEF IInv, TaskShape
<1> QED  BY <1>1, <1>2 DEF SameSides, Inner

\* The steps that neither touch a client nor enter or leave a reconnect.
Plain ==
    \/ OnClientStateEvent \/ OnStartFailed \/ Heartbeat \/ CcuChanges \/ Stop \/ UNCHANGED vars
    \/ \E i \in Target : OnConnectionLost(i) \/ OnTripped(i) \/ BreakerTrips(i)
    \/ \E t \in Task, i \in Target : \/ BeginOne(t, i) \/ FinishOk(t, i) \/ FinishFail(t, i)
                                     \/ Acquire(t, i) \/ Check(t, i) \/ DataLoad(t, i)
    \/ \E t \in Task : BeginAll(t) \/ FinishAll(t)

LEMMA PlainSides == ASSUME IInv, Plain PROVE client' = client /\ SameSides
<1>1. CASE OnClientStateEvent \/ OnStartFailed \/ CcuChanges \/ Stop \/ UNCHANGED vars
           \/ \E i \in Target : BreakerTrips(i)
  BY <1>1 DEF OnClientStateEvent, OnStartFailed, CcuChanges, Stop, BreakerTrips, tasks, vars, SameSides
<1>2. CASE Heartbeat \/ \E i \in Target : OnConnectionLost(i) \/ OnTripped(i)
  <2>1. client' = client
    BY <1>2 DEF Heartbeat, OnConnectionLost, OnTripped
  <2>2. CASE UNCHANGED stage
    BY <2>1, <2>2 DEF SameSides
  <2>3. CASE ~UNCHANGED stage /\ Heartbeat
    <3> DEFINE failed == {j \in Target : NeedsHeartbeat(j)}
    <3>1. PICK t \in Task : Spawn(t, "all", failed)
      BY <2>3 DEF Heartbeat, tasks
    <3> QED  BY <2>1, <3>1, SpawnSides
  <2>4. ASSUME ~UNCHANGED stage, NEW i \in Target, OnConnectionLost(i) \/ OnTripped(i)
        PROVE  SameSides
    <3>1. PICK t \in Task : Spawn(t, "one", {i})
      BY <2>4 DEF OnConnectionLost, OnTripped, tasks
    <3> QED  BY <3>1, SpawnSides
  <2> QED  BY <1>2, <2>1, <2>2, <2>3, <2>4
<1>3. ASSUME NEW t \in Task, NEW i \in Target, BeginOne(t, i) \/ FinishOk(t, i) \/ FinishFail(t, i)
      PROVE  client' = client /\ SameSides
  <2>1. client' = client
    BY <1>3 DEF BeginOne, FinishOk, FinishFail
  <2>2. kind[t] = "one" /\ stage[t][i] \in {"scheduled", "retry", "ok", "fail"}
    BY <1>3 DEF BeginOne, FinishOk, FinishFail
  <2>3. \A j \in Target : stage[t][j] \notin Inner
    BY <2>2, OneMember DEF Inner
  <2>4. Ends(t) \/ Goto(t, i, "wait") \/ Goto(t, i, "retry")
    BY <1>3 DEF BeginOne, FinishOk, FinishFail
  <2>5. {"wait", "retry"} \subseteq Stages \ Inner
    BY DEF Stages, Inner
  <2> QED  BY <2>1, <2>3, <2>4, <2>5, EndsSides, GotoSides
<1>4. ASSUME NEW t \in Task, NEW i \in Target, Acquire(t, i) \/ Check(t, i) \/ DataLoad(t, i)
      PROVE  client' = client /\ SameSides
  <2>1. client' = client /\ stage[t][i] \in {"wait", "check", "load"}
    BY <1>4 DEF Acquire, Check, DataLoad
  <2>2. \E place \in {"check", "reconnect", "ok", "fail"} : Goto(t, i, place)
    BY <1>4 DEF Acquire, Check, DataLoad, Over
  <2>3. {"check", "reconnect", "ok", "fail"} \subseteq Stages \ Inner
    BY DEF Stages, Held, Inner
  <2>4. stage[t][i] \notin Inner
    BY <2>1 DEF Inner
  <2> QED  BY <2>1, <2>2, <2>3, <2>4, GotoSides
<1>5. ASSUME NEW t \in Task, FinishAll(t) PROVE client' = client /\ SameSides
  <2>1. client' = client /\ Ends(t) /\ \A i \in Members(t) : stage[t][i] \in {"ok", "fail"}
    BY <1>5 DEF FinishAll
  <2>2. \A j \in Target : stage[t][j] \notin Inner
    BY <2>1 DEF Members, Inner
  <2> QED  BY <2>1, <2>2, EndsSides
<1>6. ASSUME NEW t \in Task, BeginAll(t) PROVE client' = client /\ SameSides
  <2>1. client' = client /\ \A i \in Members(t) : stage[t][i] = "scheduled"
    BY <1>6 DEF BeginAll
  <2>2. \A j \in Target : stage[t][j] \notin Inner
    BY <2>1 DEF Members, Inner
  <2>3. CASE Ends(t)
    BY <2>1, <2>2, <2>3, EndsSides
  <2>4. CASE stage' = [stage EXCEPT ![t] = [i \in Target |-> IF i \in Members(t) THEN "wait" ELSE "out"]]
    <3>1. \A u \in Task, j \in Target :
            stage'[u][j] = IF u # t THEN stage[u][j] ELSE IF j \in Members(t) THEN "wait" ELSE "out"
      BY <2>4 DEF IInv, Typed
    <3> QED  BY <2>1, <2>2, <3>1 DEF SameSides, Inner
  <2> QED  BY <1>6, <2>3, <2>4 DEF BeginAll
<1> QED  BY <1>1, <1>2, <1>3, <1>4, <1>5, <1>6 DEF Plain

\* Only Stopped leads to STOPPED, nothing back to INITIALIZING or away from STOPPED.
MovesOn == central' # central => central # "STOPPED" /\ central' \notin {"STOPPED", "INITIALIZING"}

LEMMA TransitionMoves ==
    ASSUME NEW s \in {"RUNNING", "DEGRADED", "RECOVERING", "FAILED"}, TransitionTo(s)
    PROVE  MovesOn
BY DEF TransitionTo, CanTransition, VALID_CENTRAL_TRANSITIONS, MovesOn

LEMMA CentralMoves == ASSUME IInv, [Next]_vars, ~Stopped PROVE MovesOn
<1>1. CASE Start
  <2>1. central = "INITIALIZING" /\ \E cs : central' = Evaluated(cs, TRUE)
    BY <1>1 DEF Start
  <2>2. central' \in {"RUNNING", "DEGRADED", "FAILED"}
    BY <2>1, StartLeaves
  <2> QED  BY <2>1, <2>2 DEF MovesOn
<1>2. CASE OnClientStateEvent
  <2>1. central' \in {"RUNNING", "DEGRADED", "FAILED", central}
    BY <1>2, EvaluatedStays DEF OnClientStateEvent, IInv
  <2>2. central = "STOPPED" => central' = central
    BY <1>2 DEF OnClientStateEvent
  <2> QED  BY <2>1, <2>2 DEF MovesOn
<1>3. CASE OnStartFailed \/ Heartbeat \/ CheckConnection \/ CcuChanges \/ Stop \/ UNCHANGED vars
           \/ \E i \in Target : OnConnectionLost(i) \/ OnTripped(i) \/ BreakerTrips(i)
  BY <1>3 DEF OnStartFailed, Heartbeat, CheckConnection, CcuChanges, Stop, vars, OnConnectionLost,
              OnTripped, BreakerTrips, MovesOn
<1>4. ASSUME NEW t \in Task, NEW i \in Target, BeginOne(t, i) \/ FinishOk(t, i) \/ FinishFail(t, i)
      PROVE  MovesOn
  <2>1. central' = central \/ \E s \in {"RUNNING", "RECOVERING", "FAILED"} : TransitionTo(s)
    BY <1>4 DEF BeginOne, FinishOk, FinishFail, HandleMaxRetries
  <2> QED  BY <2>1, TransitionMoves DEF MovesOn
<1>5. ASSUME NEW t \in Task, NEW i \in Target, Acquire(t, i) \/ Check(t, i) \/ Reconnect(t, i)
             \/ Reinit(t, i) \/ InitProxyEnds(t, i) \/ DataLoad(t, i)
      PROVE  MovesOn
  BY <1>5 DEF Acquire, Check, Reconnect, Reinit, InitProxyEnds, DataLoad, MovesOn
<1>6. ASSUME NEW t \in Task, BeginAll(t) \/ FinishAll(t) PROVE MovesOn
  <2>1. central' = central \/ \E s \in {"RUNNING", "DEGRADED", "RECOVERING"} : TransitionTo(s)
    BY <1>6 DEF BeginAll, FinishAll
  <2> QED  BY <2>1, TransitionMoves DEF MovesOn
<1> QED  BY <1>1, <1>2, <1>3, <1>4, <1>5, <1>6 DEF Next, Step

\* With no task under way and the scheduler paused, a step is plain.
LEMMA IdleIsPlain ==
    ASSUME IInv, [Next]_vars, ~Start, ~Stopped, central \notin {"RUNNING", "DEGRADED"},
           \A t \in Task : kind[t] = "free"
    PROVE  Plain
<1>1. \A t \in Task, i \in Target : stage[t][i] = "out"
  BY DEF IInv, TaskShape
<1>2. \A t \in Task, i \in Target : ~Reconnect(t, i) /\ ~Reinit(t, i) /\ ~InitProxyEnds(t, i)
  BY <1>1 DEF Reconnect, Reinit, InitProxyEnds
<1>3. ~CheckConnection
  BY DEF CheckConnection, Operational
<1> QED  BY <1>2, <1>3 DEF Next, Step, Plain

LEMMA InitBeforeAndAfter == Init => BeforeAndAfter
BY DEF Init, BeforeAndAfter

LEMMA NextBeforeAndAfter == IInv /\ BeforeAndAfter /\ [Next]_vars => BeforeAndAfter'
<1> SUFFICES ASSUME IInv, BeforeAndAfter, [Next]_vars PROVE BeforeAndAfter'
  OBVIOUS
<1>1. CASE Stopped
  <2>1. shutdown' /\ (\A t \in Task : kind'[t] = "free") /\ (\A i \in Target : client'[i] = "missing")
    BY <1>1 DEF Stopped
  <2> QED  BY <2>1 DEF BeforeAndAfter
<1>2. CASE ~Stopped
  <2>1. MovesOn
    BY <1>2, CentralMoves
  <2>2. ASSUME central' = "INITIALIZING" PROVE \A i \in Target : client'[i] = "missing"
    <3>1. central = "INITIALIZING"
      BY <2>1, <2>2 DEF MovesOn
    <3>2. ~Start
      BY <2>2, <3>1, StartLeaves DEF Start
    <3>3. Plain
      BY <1>2, <3>1, <3>2, IdleIsPlain DEF IInv, Quiet
    <3> QED  BY <3>1, <3>3, PlainSides DEF BeforeAndAfter
  <2>3. ASSUME central' = "STOPPED" PROVE shutdown' /\ \A t \in Task : kind'[t] = "free"
    <3>1. central = "STOPPED" /\ shutdown /\ \A t \in Task : kind[t] = "free"
      BY <2>1, <2>3 DEF MovesOn, BeforeAndAfter
    <3>2. ~Start
      BY <3>1 DEF Start
    <3>3. Plain
      BY <1>2, <3>1, <3>2, IdleIsPlain
    <3>4. \A t \in Task, i \in Target : stage[t][i] = "out"
      BY <3>1 DEF IInv, TaskShape
    <3>5. ASSUME NEW t \in Task, NEW i \in Target
          PROVE  /\ ~BeginOne(t, i) /\ ~FinishOk(t, i) /\ ~FinishFail(t, i) /\ ~Acquire(t, i)
                 /\ ~Check(t, i) /\ ~DataLoad(t, i) /\ ~BeginAll(t) /\ ~FinishAll(t)
      BY <3>1, <3>4 DEF BeginOne, FinishOk, FinishFail, Acquire, Check, DataLoad, BeginAll, FinishAll
    <3>6. ASSUME NEW t \in Task PROVE ~BeginAll(t) /\ ~FinishAll(t)
      BY <3>1 DEF BeginAll, FinishAll
    <3>7. CASE OnClientStateEvent \/ OnStartFailed \/ CcuChanges \/ Stop \/ UNCHANGED vars
               \/ \E i \in Target : BreakerTrips(i)
      BY <3>1, <3>7 DEF OnClientStateEvent, OnStartFailed, CcuChanges, Stop, BreakerTrips, tasks, vars
    <3>8. CASE Heartbeat \/ \E i \in Target : OnConnectionLost(i) \/ OnTripped(i)
      BY <3>1, <3>8 DEF Heartbeat, OnConnectionLost, OnTripped, Relevant, tasks
    <3> QED  BY <3>3, <3>5, <3>6, <3>7, <3>8 DEF Plain
  <2> QED  BY <2>2, <2>3 DEF BeforeAndAfter
<1> QED  BY <1>1, <1>2

\* Who is inside tells the state of the client.
LEMMA InsideTells ==
    ASSUME IInv, NEW i \in Target
    PROVE  /\ client[i] \notin {"RECONNECTING", "CONNECTING"} => Inside(i) = {}
           /\ \A t \in Task : stage[t][i] \in Inner =>
                 /\ Inside(i) = {t}
                 /\ client[i] = IF stage[t][i] = "sleep" THEN "RECONNECTING" ELSE "CONNECTING"
BY DEF IInv, SleepersReconnect, ReconnectExclusive, Inside, Inner

\* The client of i and who is inside, in the contract's terms.
LEMMA NothingOf ==
    ASSUME NEW i \in Target, MovesOn, client'[i] = client[i], SameSides
    PROVE  UNCHANGED Client(i)!contractVars
<1>1. Inside(i)' = Inside(i)
  BY DEF SameSides, Inside
<1> QED  BY <1>1 DEF Client!contractVars, MovesOn, Inside, Inner

\* start() creates the clients.
LEMMA StartCreates ==
    ASSUME IInv, BeforeAndAfter, Start, NEW i \in Interface
    PROVE  Client(i)!Created \/ UNCHANGED Client(i)!contractVars
<1>1. i \in Target /\ client[i] = "missing" /\ Inside(i) = {}
  BY InsideTells DEF Target, Start, BeforeAndAfter
<1>2. client'[i] \in {"missing", "INITIALIZED", "CONNECTED", "FAILED"} /\ UNCHANGED stage
  BY <1>1 DEF Start, tasks
<1>3. central = "INITIALIZING" /\ central' \in {"RUNNING", "DEGRADED", "FAILED"}
  BY StartLeaves DEF Start
<1>4. Inside(i)' = {}
  BY <1>1, <1>2 DEF Inside
<1>5. CASE client'[i] = "missing"
  BY <1>1, <1>3, <1>4, <1>5 DEF Client!contractVars, Inside, Inner
<1>6. CASE client'[i] # "missing"
  BY <1>1, <1>2, <1>3, <1>4, <1>6 DEF Client!Created, Inside, Inner
<1> QED  BY <1>5, <1>6

\* The connection check disconnects connected clients only.
LEMMA CheckDisconnects ==
    ASSUME IInv, CheckConnection, NEW i \in Interface
    PROVE  Client(i)!Disconnected \/ UNCHANGED Client(i)!contractVars
<1>1. i \in Target /\ UNCHANGED <<central, stage>> /\ central # "STOPPED"
  BY DEF Target, CheckConnection, Operational, tasks
<1>2. client'[i] = client[i] \/ (client[i] = "CONNECTED" /\ client'[i] = "DISCONNECTED")
  BY <1>1 DEF CheckConnection
<1>3. Inside(i)' = Inside(i)
  BY <1>1 DEF Inside
<1>4. CASE client'[i] = client[i]
  BY <1>1, <1>3, <1>4 DEF Client!contractVars, Inside, Inner
<1>5. CASE client[i] = "CONNECTED" /\ client'[i] = "DISCONNECTED"
  <2>1. Inside(i) = {}
    BY <1>1, <1>5, InsideTells
  <2> QED  BY <1>1, <1>3, <1>5, <2>1 DEF Client!Disconnected, Inside, Inner
<1> QED  BY <1>2, <1>4, <1>5

\* A stage of another interface.
LEMMA OtherInterface ==
    ASSUME IInv, NEW t \in Task, NEW j \in Target, NEW i \in Target, i # j,
           Reconnect(t, j) \/ Reinit(t, j) \/ InitProxyEnds(t, j)
    PROVE  UNCHANGED Client(i)!contractVars
<1>1. \E place : Goto(t, j, place)
  BY DEF Reconnect, Reinit, InitProxyEnds, Over
<1>2. \A u \in Task : stage'[u][i] = stage[u][i]
  BY <1>1 DEF Goto, IInv, Typed
<1>3. client'[i] = client[i] /\ UNCHANGED central
  BY DEF Reconnect, Reinit, InitProxyEnds, IInv, Typed
<1> QED  BY <1>2, <1>3 DEF Client!contractVars

\* A stage of the interface itself: it creates the client, begins a reconnect, goes on
\* inside it or leaves it, or finds another task inside and leaves the client alone.
LEMMA StageUses ==
    ASSUME IInv, NEW t \in Task, NEW i \in Target, central # "STOPPED",
           Reconnect(t, i) \/ Reinit(t, i) \/ InitProxyEnds(t, i)
    PROVE  Client(i)!ContractNext \/ UNCHANGED Client(i)!contractVars
<1>t. client \in [Target -> ClientStates] /\ UNCHANGED central
  BY DEF IInv, Typed, Reconnect, Reinit, InitProxyEnds
<1>p. {"fail", "load", "sleep", "connect"} \subseteq Stages
  BY DEF Stages, Held
<1>1. ASSUME NEW place \in {"fail", "load", "sleep", "connect"}, Goto(t, i, place)
      PROVE  Inside(i)' = IF place \in Inner THEN Inside(i) \cup {t} ELSE Inside(i) \ {t}
  <2>1. \A u \in Task : stage'[u][i] = IF u = t THEN place ELSE stage[u][i]
    BY <1>1, <1>p, GotoPlaces DEF IInv
  <2> QED  BY <2>1 DEF Inside
<1>2. CASE Reconnect(t, i)
  <2>0. t \notin Inside(i)
    BY <1>2 DEF Reconnect, Inside, Inner
  <2>1. CASE client[i] = "missing"
    <3>1. client'[i] \in {"missing", "INITIALIZED"} /\ Goto(t, i, "fail")
      BY <1>2, <1>t, <2>1 DEF Reconnect, CanReconnect, Over
    <3>2. Inside(i) = {} /\ Inside(i)' = {}
      <4>1. Inside(i) = {}
        BY <2>1, InsideTells
      <4> QED  BY <1>1, <3>1, <4>1 DEF Inner
    <3>3. CASE client'[i] = "missing"
      BY <1>t, <2>1, <3>2, <3>3 DEF Client!contractVars, Inside, Inner
    <3>4. CASE client'[i] = "INITIALIZED"
      <4>1. Client(i)!Created
        BY <1>t, <2>1, <3>2, <3>4 DEF Client!Created, Inside, Inner
      <4> QED  BY <4>1 DEF Client!ContractNext
    <3> QED  BY <3>1, <3>3, <3>4
  <2>2. CASE CanReconnect(i)
    <3>1. client'[i] = "RECONNECTING" /\ Goto(t, i, "sleep")
      BY <1>2, <1>t, <2>2 DEF Reconnect, CanReconnect
    <3>2. client[i] \in {"INITIALIZED", "CONNECTED", "DISCONNECTED", "FAILED"}
      BY <2>2 DEF CanReconnect
    <3>3. Inside(i) = {} /\ Inside(i)' = {t}
      <4>1. Inside(i) = {}
        BY <3>2, InsideTells
      <4> QED  BY <1>1, <3>1, <4>1 DEF Inner
    <3>4. Client(i)!Reconnects(t)
      BY <1>t, <3>1, <3>2, <3>3 DEF Client!Reconnects, Inside, Inner
    <3> QED  BY <3>4 DEF Client!ContractNext
  <2>3. CASE client[i] \in {"RECONNECTING", "CONNECTING"}
    <3>1. client' = client /\ \E place \in {"load", "fail"} : Goto(t, i, place)
      BY <1>2, <2>3 DEF Reconnect, CanReconnect, Over
    <3>2. Inside(i)' = Inside(i)
      BY <1>1, <2>0, <3>1 DEF Inner
    <3> QED  BY <1>t, <3>1, <3>2 DEF Client!contractVars, Inside, Inner
  <2> QED  BY <1>2, <2>1, <2>2, <2>3 DEF Reconnect
<1>3. CASE Reinit(t, i)
  <2>1. stage[t][i] = "sleep" /\ client'[i] = "CONNECTING" /\ Goto(t, i, "connect")
    BY <1>3, <1>t DEF Reinit
  <2>2. Inside(i) = {t} /\ client[i] = "RECONNECTING"
    BY <2>1, InsideTells DEF Inner
  <2>3. Inside(i)' = {t}
    BY <1>1, <2>1, <2>2 DEF Inner
  <2>4. Client(i)!Reinitialises(t)
    BY <1>t, <2>1, <2>2, <2>3 DEF Client!Reinitialises, Inside, Inner
  <2> QED  BY <2>4 DEF Client!ContractNext
<1>4. CASE InitProxyEnds(t, i)
  <2>1. /\ stage[t][i] = "connect" /\ client'[i] \in {"CONNECTED", "FAILED"}
        /\ \E place \in {"load", "fail"} : Goto(t, i, place)
    BY <1>4, <1>t DEF InitProxyEnds, Over
  <2>2. Inside(i) = {t} /\ client[i] = "CONNECTING"
    BY <2>1, InsideTells DEF Inner
  <2>3. Inside(i)' = {}
    BY <1>1, <2>1, <2>2 DEF Inner
  <2>4. Client(i)!Settles(t)
    BY <1>t, <2>1, <2>2, <2>3 DEF Client!Settles, Inside, Inner
  <2> QED  BY <2>4 DEF Client!ContractNext
<1> QED  BY <1>2, <1>3, <1>4

LEMMA ClientStep ==
    ASSUME IInv, BeforeAndAfter, [Next]_vars, NEW i \in Interface
    PROVE  [Client(i)!ContractNext]_(Client(i)!contractVars)
<1> SUFFICES Client(i)!ContractNext \/ UNCHANGED Client(i)!contractVars
  OBVIOUS
<1>t. i \in Target
  BY DEF Target
<1>1. CASE Stopped
  <2>1. central' = "STOPPED"
    BY <1>1 DEF Stopped, TransitionTo, CanTransition, VALID_CENTRAL_TRANSITIONS, IInv, Typed,
                CentralStates
  <2>2. Inside(i)' = {}
    BY <1>1, <1>t DEF Stopped, Inside, Inner
  <2>3. Client(i)!Stopped
    BY <2>1, <2>2 DEF Client!Stopped, Inside, Inner
  <2> QED  BY <2>3 DEF Client!ContractNext
<1>2. CASE Plain /\ ~Stopped
  BY <1>t, <1>2, CentralMoves, PlainSides, NothingOf
<1>3. CASE Start
  BY <1>3, StartCreates DEF Client!ContractNext
<1>4. CASE CheckConnection
  BY <1>4, CheckDisconnects DEF Client!ContractNext
<1>5. ASSUME NEW t \in Task, NEW j \in Target, Reconnect(t, j) \/ Reinit(t, j) \/ InitProxyEnds(t, j)
      PROVE  Client(i)!ContractNext \/ UNCHANGED Client(i)!contractVars
  <2>1. CASE j # i
    BY <1>t, <1>5, <2>1, OtherInterface
  <2>2. CASE j = i
    <3>1. central # "STOPPED"
      BY <1>5 DEF Reconnect, Reinit, InitProxyEnds, BeforeAndAfter, IInv, TaskShape
    <3> QED  BY <1>t, <1>5, <2>2, <3>1, StageUses
  <2> QED  BY <2>1, <2>2
<1> QED  BY <1>1, <1>2, <1>3, <1>4, <1>5 DEF Next, Step, Plain

\* Whatever recoveries overlap, checks run and stop() interrupts, every interface's client
\* is used as ClientContract says and in no other way: with LifecycleImplementsClient, what
\* the coordinator does to a client is what the client itself does
\* (_stage_reconnect, _check_connection, stop).
THEOREM RecoveryUsesClients == Spec => UsesClients
<1> DEFINE Uses == \A i \in Interface : [Client(i)!ContractNext]_(Client(i)!contractVars)
<1>1. Init => \A i \in Interface : Client(i)!ContractInit
  BY DEF Init, Client!ContractInit, Target
<1>2. IInv /\ BeforeAndAfter /\ [Next]_vars => [Uses]_vars
  BY ClientStep
<1>3. Spec => []BeforeAndAfter
  BY InitBeforeAndAfter, NextBeforeAndAfter, Invariance, PTL DEF Spec
<1>4. UsesClients <=> (\A i \in Interface : Client(i)!ContractInit) /\ [][Uses]_vars
  BY DEF UsesClients
<1> QED  BY <1>1, <1>2, <1>3, <1>4, Invariance, PTL DEF Spec

-----------------------------------------------------------------------------
(* A heartbeat that is alive finds an interface to recover.  WInv says it    *)
(* of FAILED, and of DEGRADED with no client connected; it needs that a      *)
(* client is RECONNECTING only while somebody is inside, and that the        *)
(* coordinator keeps a record of what it recovers.                           *)

Reconnecting ==
    \A i \in Target : client[i] = "RECONNECTING" => \E t \in Task : stage[t][i] \in Inner

\* _start_recovery creates the record when it begins; a heartbeat finds it.
Recorded(t, i) == stage[t][i] # "out" /\ (kind[t] = "all" \/ stage[t][i] # "scheduled")
MembersKnown == \A t \in Task, i \in Target : Recorded(t, i) => i \in known

Uneasy == central = "FAILED" \/ (central = "DEGRADED" /\ ~AnyConnected(client))
LeadsOn ==
    \/ \E i \in Target : NeedsHeartbeat(i)
    \/ startFailed /\ \E i \in Interface : ~Available(i)
    \/ lost # {} \/ tripped # {} \/ \E t \in Task : kind[t] # "free"
HasWork == ~shutdown /\ ~overlapped /\ JsonUrl \notin active => (Uneasy => LeadsOn)

WInv == known \subseteq Target /\ Reconnecting /\ MembersKnown /\ HasWork

LEMMA InitWInv == Init => WInv
BY DEF Init, WInv, Reconnecting, MembersKnown, Recorded, HasWork, Uneasy

LEMMA ReconnectingKept == IInv /\ Reconnecting /\ [Next]_vars => Reconnecting'
<1> SUFFICES ASSUME IInv, Reconnecting, [Next]_vars, NEW i \in Target, client'[i] = "RECONNECTING"
             PROVE  \E t \in Task : stage'[t][i] \in Inner
  BY DEF Reconnecting
<1>1. CASE Plain
  BY <1>1, PlainSides DEF SameSides, Reconnecting
<1>2. CASE Start \/ Stopped
  BY <1>2 DEF Start, Stopped
<1>3. CASE CheckConnection
  <2>1. client[i] = "RECONNECTING" /\ UNCHANGED stage
    BY <1>3 DEF CheckConnection, tasks
  <2> QED  BY <2>1 DEF Reconnecting
<1>4. ASSUME NEW t \in Task, NEW j \in Target, Reconnect(t, j) \/ Reinit(t, j) \/ InitProxyEnds(t, j)
      PROVE  \E u \in Task : stage'[u][i] \in Inner
  <2>1. PICK place \in {"sleep", "connect", "load", "fail"} : Goto(t, j, place)
    BY <1>4 DEF Reconnect, Reinit, InitProxyEnds, Over
  <2>2. \A u \in Task, k \in Target : stage'[u][k] = IF u = t /\ k = j THEN place ELSE stage[u][k]
    BY <2>1, GotoPlaces DEF IInv, Stages, Held
  <2>3. CASE i # j
    <3>1. client[i] = "RECONNECTING"
      BY <1>4, <2>3 DEF Reconnect, Reinit, InitProxyEnds, IInv, Typed
    <3> QED  BY <2>2, <2>3, <3>1 DEF Reconnecting
  <2>4. CASE i = j
    <3>1. Reconnect(t, i)
      BY <1>4, <2>4 DEF Reinit, InitProxyEnds, IInv, Typed
    <3>2. stage[t][i] \notin Inner
      BY <3>1 DEF Reconnect, Inner
    <3>3. CASE client[i] = "RECONNECTING"
      BY <2>2, <3>2, <3>3 DEF Reconnecting
    <3>4. CASE client[i] # "RECONNECTING"
      <4>1. Goto(t, i, "sleep") /\ "sleep" \in Stages
        BY <3>1, <3>4 DEF Reconnect, IInv, Typed, Stages, Held
      <4>2. stage'[t][i] = "sleep"
        BY <4>1, GotoPlaces DEF IInv
      <4> QED  BY <4>2 DEF Inner
    <3> QED  BY <3>3, <3>4
  <2> QED  BY <2>3, <2>4
<1> QED  BY <1>1, <1>2, <1>3, <1>4 DEF Next, Step, Plain

LEMMA KnownGrows ==
    ASSUME IInv, [Next]_vars PROVE known \subseteq known' /\ known' \subseteq known \cup Target
<1>1. CASE OnStartFailed \/ \E t \in Task, i \in Target : BeginOne(t, i)
  BY <1>1 DEF OnStartFailed, BeginOne, Target
<1>2. CASE \/ Start \/ OnClientStateEvent \/ Heartbeat \/ CheckConnection \/ CcuChanges \/ Stop \/ Stopped
           \/ UNCHANGED vars
           \/ \E i \in Target : OnConnectionLost(i) \/ OnTripped(i) \/ BreakerTrips(i)
           \/ \E t \in Task : BeginAll(t) \/ FinishAll(t)
  BY <1>2 DEF Start, OnClientStateEvent, Heartbeat, CheckConnection, CcuChanges, Stop, Stopped, vars,
              OnConnectionLost, OnTripped, BreakerTrips, BeginAll, FinishAll, budget
<1>3. ASSUME NEW t \in Task, NEW i \in Target, Acquire(t, i) \/ FinishOk(t, i) \/ FinishFail(t, i)
             \/ Check(t, i) \/ Reconnect(t, i) \/ Reinit(t, i) \/ InitProxyEnds(t, i) \/ DataLoad(t, i)
      PROVE  known \subseteq known' /\ known' \subseteq known \cup Target
  BY <1>3 DEF Acquire, FinishOk, FinishFail, Check, Reconnect, Reinit, InitProxyEnds, DataLoad, budget
<1>4. ASSUME NEW t \in Task, NEW i \in Target, Step(t, i) \/ Acquire(t, i)
      PROVE  known \subseteq known' /\ known' \subseteq known \cup Target
  BY <1>1, <1>3, <1>4 DEF Step
<1> QED  BY <1>1, <1>2, <1>4 DEF Next

\* A task goes on with an id that has its record, or ends.
LEMMA GotoRecorded ==
    ASSUME IInv, MembersKnown, known \subseteq known', NEW t \in Task, NEW i \in Target,
           NEW place \in Stages, Goto(t, i, place), Recorded(t, i) \/ i \in known'
    PROVE  MembersKnown'
<1>1. /\ kind' = kind
      /\ \A u \in Task, j \in Target : stage'[u][j] = IF u = t /\ j = i THEN place ELSE stage[u][j]
  BY GotoPlaces DEF IInv
<1> QED  BY <1>1 DEF MembersKnown, Recorded

LEMMA EndsRecorded ==
    ASSUME IInv, MembersKnown, known \subseteq known', NEW t \in Task, Ends(t) PROVE MembersKnown'
<1>1. /\ \A u \in Task : kind'[u] = IF u = t THEN "free" ELSE kind[u]
      /\ \A u \in Task, j \in Target : stage'[u][j] = IF u = t THEN "out" ELSE stage[u][j]
  BY EndsPlaces DEF IInv
<1> QED  BY <1>1 DEF MembersKnown, Recorded

LEMMA SpawnRecorded ==
    ASSUME IInv, MembersKnown, known \subseteq known', NEW t \in Task, NEW k \in {"one", "all"},
           NEW ids, Spawn(t, k, ids), k = "all" => ids \subseteq known
    PROVE  MembersKnown'
<1>1. /\ \A u \in Task : kind'[u] = IF u = t THEN k ELSE kind[u]
      /\ \A u \in Task, j \in Target :
            stage'[u][j] = IF u # t THEN stage[u][j] ELSE IF j \in ids THEN "scheduled" ELSE "out"
  BY SpawnPlaces DEF IInv
<1> QED  BY <1>1 DEF MembersKnown, Recorded

LEMMA MembersStayKnown == ASSUME IInv, MembersKnown, [Next]_vars PROVE MembersKnown'
<1> USE KnownGrows
<1>1. CASE UNCHANGED <<kind, stage>>
  BY <1>1 DEF MembersKnown, Recorded
<1>2. CASE Start \/ OnClientStateEvent \/ OnStartFailed \/ CheckConnection \/ CcuChanges \/ Stop
           \/ UNCHANGED vars \/ \E i \in Target : BreakerTrips(i)
  BY <1>1, <1>2 DEF Start, OnClientStateEvent, OnStartFailed, CheckConnection, CcuChanges, Stop, vars,
                    BreakerTrips, tasks
<1>3. CASE Stopped
  BY <1>3 DEF Stopped, MembersKnown, Recorded
<1>4. CASE Heartbeat
  <2> DEFINE failing == {i \in Target : NeedsHeartbeat(i)}
  <2>1. UNCHANGED <<kind, stage>> \/ \E t \in Task : Spawn(t, "all", failing)
    BY <1>4 DEF Heartbeat, tasks
  <2>2. failing \subseteq known
    BY DEF NeedsHeartbeat
  <2> HIDE DEF failing
  <2> QED  BY <1>1, <2>1, <2>2, SpawnRecorded
<1>5. ASSUME NEW i \in Target, OnConnectionLost(i) \/ OnTripped(i) PROVE MembersKnown'
  <2>1. UNCHANGED <<kind, stage>> \/ \E t \in Task : Spawn(t, "one", {i})
    BY <1>5 DEF OnConnectionLost, OnTripped, tasks
  <2> QED  BY <1>1, <2>1, SpawnRecorded
<1>6. ASSUME NEW t \in Task, NEW i \in Target, BeginOne(t, i) \/ FinishOk(t, i) \/ FinishFail(t, i)
      PROVE  MembersKnown'
  <2>1. \/ Ends(t)
        \/ Goto(t, i, "wait") /\ i \in known'
        \/ Goto(t, i, "retry") /\ stage[t][i] = "fail"
    BY <1>6 DEF BeginOne, FinishOk, FinishFail
  <2>2. stage[t][i] = "fail" => Recorded(t, i)
    BY DEF Recorded
  <2>3. {"wait", "retry"} \subseteq Stages
    BY DEF Stages
  <2> QED  BY <2>1, <2>2, <2>3, EndsRecorded, GotoRecorded
<1>7. ASSUME NEW t \in Task, NEW i \in Target, Acquire(t, i) \/ Check(t, i) \/ Reconnect(t, i)
             \/ Reinit(t, i) \/ InitProxyEnds(t, i) \/ DataLoad(t, i)
      PROVE  MembersKnown'
  <2>1. stage[t][i] \in {"wait", "check", "reconnect", "sleep", "connect", "load"}
    BY <1>7 DEF Acquire, Check, Reconnect, Reinit, InitProxyEnds, DataLoad
  <2>2. \E place \in {"check", "reconnect", "sleep", "connect", "load", "ok", "fail"} :
           Goto(t, i, place)
    BY <1>7 DEF Acquire, Check, Reconnect, Reinit, InitProxyEnds, DataLoad, Over
  <2>3. {"check", "reconnect", "sleep", "connect", "load", "ok", "fail"} \subseteq Stages
    BY DEF Stages, Held
  <2>4. Recorded(t, i)
    BY <2>1 DEF Recorded
  <2> QED  BY <2>2, <2>3, <2>4, GotoRecorded
<1>8. ASSUME NEW t \in Task, BeginAll(t) \/ FinishAll(t) PROVE MembersKnown'
  <2>1. CASE Ends(t)
    BY <2>1, EndsRecorded
  <2>2. CASE ~Ends(t)
    <3>1. /\ kind[t] = "all" /\ UNCHANGED kind
          /\ stage' = [stage EXCEPT ![t] = [i \in Target |-> IF i \in Members(t) THEN "wait" ELSE "out"]]
      BY <1>8, <2>2 DEF BeginAll, FinishAll
    <3>2. \A u \in Task, j \in Target :
             stage'[u][j] = IF u # t THEN stage[u][j] ELSE IF j \in Members(t) THEN "wait" ELSE "out"
      BY <3>1 DEF IInv, Typed
    <3>3. \A u \in Task, j \in Target : Recorded(u, j)' => Recorded(u, j)
      BY <3>1, <3>2 DEF Recorded, Members
    <3> QED  BY <3>3 DEF MembersKnown
  <2> QED  BY <2>1, <2>2
<1> QED  BY <1>2, <1>3, <1>4, <1>5, <1>6, <1>7, <1>8 DEF Next, Step

\* Nothing the heartbeat looks at has changed.
LEMMA StillHasWork ==
    ASSUME HasWork, Uneasy, ~shutdown, ~overlapped, JsonUrl \notin active,
           known \subseteq known', UNCHANGED <<client, attempts, kind, lost, tripped, startFailed>>
    PROVE  LeadsOn'
<1>1. LeadsOn
  BY DEF HasWork
<1>2. \A i \in Target : NeedsHeartbeat(i) => NeedsHeartbeat(i)'
  BY DEF NeedsHeartbeat, Exhausted, Available
<1>3. \A i \in Interface : ~Available(i) => ~Available(i)'
  BY DEF Available
<1> QED  BY <1>1, <1>2, <1>3 DEF LeadsOn

\* start() failed: an interface has no connected client.
LEMMA StartHasWork == ASSUME IInv, Start, Uneasy' PROVE LeadsOn'
<1>1. PICK cs \in [Target -> {"missing", "INITIALIZED", "CONNECTED", "FAILED"}] :
         client' = cs /\ central' = Evaluated(cs, TRUE)
  BY DEF Start
<1>2. central = "INITIALIZING" /\ startFailed' = (central' = "FAILED")
  BY DEF Start
<1>3. CanTransition("RUNNING") /\ CanTransition("DEGRADED") /\ CanTransition("FAILED")
  BY <1>2 DEF CanTransition, VALID_CENTRAL_TRANSITIONS
<1>4. AllConnected(cs) => AnyConnected(cs)
  BY DEF AllConnected, AnyConnected
<1>5. ~AnyConnected(cs) /\ central' = "FAILED"
  BY <1>1, <1>2, <1>3, <1>4 DEF Evaluated, Uneasy
<1>6. PICK i \in Interface : TRUE
  BY RecoveryAssumption
<1>7. client'[i] \notin {"CONNECTED", "RECONNECTING"}
  BY <1>1, <1>5 DEF AnyConnected, Clients, Target
<1> QED  BY <1>2, <1>5, <1>7 DEF LeadsOn, Available

\* The last attempt of an interface failed: the heartbeat takes it up.
LEMMA ExhaustedHasWork ==
    ASSUME NEW i \in Target, Exhausted(i), UNCHANGED attempts, i \in known' PROVE LeadsOn'
BY DEF LeadsOn, NeedsHeartbeat, Exhausted

\* The recovery of a heartbeat ended: if it leaves no client connected, it has recovered an
\* interface whose client is not available.
LEMMA FinishAllHasWork ==
    ASSUME IInv, OneAtATime, WInv, NEW t \in Task, FinishAll(t), Uneasy' PROVE LeadsOn'
<1>1. /\ kind[t] = "all" /\ UNCHANGED <<client, known, attempts>>
      /\ \A i \in Members(t) : stage[t][i] \in {"ok", "fail"}
      /\ TransitionTo("RUNNING") \/ TransitionTo("DEGRADED") \/ UNCHANGED central
  BY DEF FinishAll, budget
<1>2. PICK i \in Target : stage[t][i] # "out"
  BY <1>1 DEF OneAtATime
<1>3. stage[t][i] \in {"ok", "fail"} /\ i \in known
  BY <1>1, <1>2 DEF Members, WInv, MembersKnown, Recorded
<1>4. central = "RECOVERING"
  BY <1>3 DEF OneAtATime
<1>5. ~AnyConnected(client)
  BY <1>1, <1>4 DEF TransitionTo, CanTransition, VALID_CENTRAL_TRANSITIONS, Uneasy, AnyConnected,
                    Clients
<1>6. client[i] # "CONNECTED"
  BY <1>5 DEF AnyConnected, Clients
<1>7. client[i] # "RECONNECTING"
  <2> SUFFICES ASSUME client[i] = "RECONNECTING" PROVE FALSE
    OBVIOUS
  <2>1. PICK u \in Task : stage[u][i] \in Inner
    BY DEF WInv, Reconnecting
  <2>2. u = t
    BY <1>1, <2>1 DEF OneAtATime, IInv, TaskShape, Inner
  <2> QED  BY <1>3, <2>1, <2>2 DEF Inner
<1> QED  BY <1>1, <1>3, <1>6, <1>7 DEF LeadsOn, NeedsHeartbeat, Exhausted, Available

LEMMA WorkKept == ASSUME IInv, FInv, WInv, [Next]_vars PROVE HasWork'
<1> SUFFICES ASSUME ~shutdown', ~overlapped', JsonUrl \notin active', Uneasy', lost' = {},
                    tripped' = {}, \A t \in Task : kind'[t] = "free"
             PROVE  LeadsOn'
  BY DEF HasWork, LeadsOn
<1> USE KnownGrows
<1>1. CASE Start
  BY <1>1, StartHasWork
<1>2. CASE OnClientStateEvent
  <2>1. /\ UNCHANGED <<client, attempts, active, kind, lost, tripped, startFailed, shutdown, overlapped>>
        /\ central' = IF central = "STOPPED" THEN central ELSE Evaluated(client, FALSE)
    BY <1>2 DEF OnClientStateEvent, budget, tasks, events
  <2>2. AllConnected(client) => AnyConnected(client)
    BY DEF AllConnected, AnyConnected
  <2>3. \/ central' = central
        \/ central' = "RUNNING"
        \/ central' = "DEGRADED" /\ AnyConnected(client)
        \/ central' = "FAILED" /\ central = "DEGRADED" /\ ~AnyConnected(client)
    BY <2>1, <2>2 DEF Evaluated, CanTransition, VALID_CENTRAL_TRANSITIONS
  <2>4. AnyConnected(client') <=> AnyConnected(client)
    BY <2>1
  <2>5. Uneasy
    BY <2>3, <2>4 DEF Uneasy
  <2> QED  BY <2>1, <2>5, StillHasWork DEF WInv
<1>3. CASE OnStartFailed
  <2>1. /\ UNCHANGED <<central, client, attempts, active, kind, lost, tripped, shutdown, overlapped>>
        /\ known' = known \cup Interface
    BY <1>3 DEF OnStartFailed, tasks
  <2>2. Uneasy
    BY <2>1 DEF Uneasy, AnyConnected, Clients
  <2>3. LeadsOn
    BY <2>1, <2>2 DEF WInv, HasWork
  <2>4. \E i \in Target : i \in known' /\ (Exhausted(i) \/ ~Available(i))
    BY <2>1, <2>3 DEF LeadsOn, NeedsHeartbeat, Target
  <2> QED  BY <2>1, <2>4 DEF LeadsOn, NeedsHeartbeat, Exhausted, Available
<1>4. CASE Heartbeat
  <2>1. ~\E t \in Task : \E ids : Spawn(t, "all", ids)
    BY DEF Spawn, IInv, Typed
  <2>2. UNCHANGED <<central, client, attempts, active, kind, lost, tripped, startFailed, shutdown,
                    overlapped>>
    BY <1>4, <2>1 DEF Heartbeat, events, tasks
  <2>3. Uneasy
    BY <2>2 DEF Uneasy, AnyConnected, Clients
  <2> QED  BY <2>2, <2>3, StillHasWork DEF WInv
<1>5. ASSUME NEW i \in Target, OnConnectionLost(i) \/ OnTripped(i) PROVE LeadsOn'
  <2>1. ~\E t \in Task : Spawn(t, "one", {i})
    BY DEF Spawn, IInv, Typed
  <2>2. i \in active /\ UNCHANGED <<kind, active>>
    BY <1>5, <2>1 DEF OnConnectionLost, OnTripped, Relevant, tasks
  <2>3. i \in active \cap Interface
    BY <2>2 DEF Target
  <2>4. PICK t \in Task : kind[t] # "free"
    BY <2>3, ActiveHasTask
  <2> QED  BY <2>2, <2>4
<1>6. CASE CheckConnection \/ \E i \in Target : BreakerTrips(i)
  BY <1>6 DEF CheckConnection, BreakerTrips
<1>7. CASE CcuChanges \/ UNCHANGED vars
  <2>1. UNCHANGED <<central, client, attempts, active, kind, lost, tripped, startFailed, shutdown,
                    overlapped>>
    BY <1>7 DEF CcuChanges, vars, budget, tasks, events
  <2>2. Uneasy
    BY <2>1 DEF Uneasy, AnyConnected, Clients
  <2> QED  BY <2>1, <2>2, StillHasWork DEF WInv
<1>8. CASE Stop \/ Stopped
  BY <1>8 DEF Stop, Stopped
<1>9. ASSUME NEW t \in Task, NEW i \in Target, BeginOne(t, i) PROVE LeadsOn'
  <2>1. /\ kind[t] = "one" /\ stage[t][i] \in {"scheduled", "retry"} /\ ~shutdown
        /\ UNCHANGED <<client, attempts>> /\ i \in known'
    BY <1>9 DEF BeginOne
  <2>2. CASE Exhausted(i)
    BY <2>1, <2>2, ExhaustedHasWork
  <2>3. CASE ~Exhausted(i)
    <3>1. active' = active \cup {i} /\ (i \in Clients(client) => UNCHANGED kind)
      BY <1>9, <2>1, <2>3 DEF BeginOne, Goto
    <3>2. i \in Interface
      BY <3>1 DEF Target
    <3>3. i \in Clients(client)
      BY <2>1, <3>2 DEF IInv, HaveClients, Clients
    <3> QED  BY <2>1, <3>1, <3>3
  <2> QED  BY <2>2, <2>3
<1>10. ASSUME NEW t \in Task, NEW i \in Target, FinishOk(t, i) PROVE LeadsOn'
  <2>1. /\ stage[t][i] = "ok" /\ UNCHANGED <<shutdown, overlapped>>
        /\ TransitionTo("RUNNING") \/ UNCHANGED central
    BY <1>10 DEF FinishOk, Ends
  <2>2. central = "RECOVERING"
    BY <2>1 DEF FInv, OneAtATime
  <2> QED  BY <2>1, <2>2 DEF TransitionTo, CanTransition, VALID_CENTRAL_TRANSITIONS, Uneasy
<1>11. ASSUME NEW t \in Task, NEW i \in Target, FinishFail(t, i) PROVE LeadsOn'
  <2>1. kind[t] = "one" /\ stage[t][i] = "fail" /\ UNCHANGED attempts
    BY <1>11 DEF FinishFail, budget
  <2>2. Exhausted(i)
    BY <1>11, <2>1 DEF FinishFail, Goto
  <2>3. i \in known'
    BY <2>1 DEF WInv, MembersKnown, Recorded
  <2> QED  BY <2>1, <2>2, <2>3, ExhaustedHasWork
<1>12. ASSUME NEW t \in Task, NEW i \in Target, Acquire(t, i) \/ Check(t, i) \/ Reconnect(t, i)
              \/ Reinit(t, i) \/ InitProxyEnds(t, i) \/ DataLoad(t, i)
       PROVE  LeadsOn'
  <2>1. UNCHANGED kind /\ stage[t][i] # "out"
    BY <1>12 DEF Acquire, Check, Reconnect, Reinit, InitProxyEnds, DataLoad, Over, Goto
  <2> QED  BY <2>1 DEF IInv, TaskShape
<1>13. ASSUME NEW t \in Task, BeginAll(t) PROVE LeadsOn'
  <2>1. kind[t] = "all" /\ UNCHANGED kind
    BY <1>13 DEF BeginAll
  <2> QED  BY <2>1
<1>14. ASSUME NEW t \in Task, FinishAll(t) PROVE LeadsOn'
  <2>1. UNCHANGED <<shutdown, overlapped>>
    BY <1>14 DEF FinishAll, Ends
  <2> QED  BY <1>14, <2>1, FinishAllHasWork DEF FInv
<1> QED  BY <1>1, <1>2, <1>3, <1>4, <1>5, <1>6, <1>7, <1>8, <1>9, <1>10, <1>11, <1>12, <1>13, <1>14
         DEF Next, Step

\* The scheduler does nothing outside RUNNING and DEGRADED.  There, for any interfaces and
\* any number of recoveries one after the other, a recovery or an event is on its way or a
\* heartbeat is alive that finds an interface to recover, unless two recoveries overlapped,
\* one was begun for the JSON-RPC client's id, or a heartbeat's recovery connected every
\* client and failed to load the data (connection_recovery.py: _handle_max_retries_reached,
\* _heartbeat_loop, _transition_after_recovery, _recover_all_interfaces).
THEOREM NobodyAbandoned == Spec => []NeverAbandoned
<1>1. IInv /\ FInv /\ WInv => NeverAbandoned
  <2> SUFFICES ASSUME IInv, FInv, WInv, ~Operational, ~shutdown, central # "INITIALIZING",
                      ~overlapped, JsonUrl \notin active, ~ConnectedUnloaded, ~Underway
               PROVE  HeartbeatHasWork
    BY DEF NeverAbandoned
  <2>1. central \in {"RECOVERING", "FAILED"}
    BY DEF IInv, Typed, CentralStates, Operational, FInv
  <2>2. ~Pending /\ \A t \in Task : kind[t] = "free"
    BY DEF Underway, Pending, Free
  <2>3. \A t \in Task, i \in Target : stage[t][i] = "out"
    BY <2>2 DEF IInv, TaskShape
  <2>4. inFailed /\ beats > 0
    BY <2>1, <2>2, <2>3 DEF FInv, Followed, Running, IInv, HeartbeatWhileFailed
  <2>5. CASE central = "FAILED"
    <3>1. LeadsOn
      BY <2>5 DEF WInv, HasWork, Uneasy
    <3> QED  BY <2>2, <2>4, <3>1 DEF LeadsOn, Pending, HeartbeatHasWork
  <2>6. CASE central = "RECOVERING"
    <3>1. PICK i \in known : client[i] # "CONNECTED"
      BY <2>4, <2>6 DEF ConnectedUnloaded
    <3>2. i \in Target
      BY <3>1 DEF WInv
    <3>3. client[i] # "RECONNECTING"
      BY <2>3, <3>2 DEF WInv, Reconnecting, Inner
    <3> QED  BY <2>4, <3>1, <3>2, <3>3 DEF HeartbeatHasWork, NeedsHeartbeat, Available
  <2> QED  BY <2>1, <2>5, <2>6
<1>2. IInv /\ FInv /\ WInv /\ [Next]_vars => WInv'
  BY KnownGrows, ReconnectingKept, MembersStayKnown, WorkKept DEF WInv
<1>3. Spec => []FInv
  BY NextFollows, InitFInv, Invariance, PTL DEF Spec
<1>4. Spec => []WInv
  BY <1>2, <1>3, InitWInv, Invariance, PTL DEF Spec
<1> QED  BY <1>1, <1>3, <1>4, Invariance, PTL
=============================================================================
