----------------------- MODULE ClientLifecycleProofs -----------------------
(***************************************************************************)
(* Proofs about ClientLifecycle for any number of reconnecting tasks and   *)
(* any error threshold.  The inductive invariant LInv says who may be      *)
(* where: at most one task is inside init_proxy, and then the client is    *)
(* CONNECTING whoever stops it; as long as it is not stopped at most one   *)
(* task is inside reconnect(); every registration on its way to the CCU    *)
(* belongs to a task that awaits it; the undelivered state changes end     *)
(* with the state the client is in.  From it follows that the client       *)
(* implements ClientContract.                                              *)
(***************************************************************************)
EXTENDS ClientLifecycle, SequenceTheorems, TLAPS

-----------------------------------------------------------------------------
(* The state machine: paths of one, two or three states. *)

LEMMA MaxIs == ASSUME NEW S, NEW k \in S, \A x \in S : x \in Int /\ k >= x PROVE Max(S) = k
<1>1. Max(S) \in S /\ \A y \in S : Max(S) >= y
  BY DEF Max
<1> QED  BY <1>1

LEMMA NotEmpty == ASSUME NEW S, NEW s \in Seq(S), Len(s) > 0 PROVE s # <<>>
OBVIOUS

Valid(old, new) == new \in VALID_TRANSITIONS[old]

\* The longest valid start of a path.
LEMMA LengthIs ==
    ASSUME NEW path \in Seq(States), Len(path) \in 1 .. 3, NEW k \in 1 .. Len(path),
           \A i \in 1 .. (k - 1) : Valid(path[i], path[i + 1]),
           k = Len(path) \/ ~Valid(path[k], path[k + 1])
    PROVE  Length(path) = k
<1> DEFINE S == {n \in 1 .. Len(path) :
                    \A i \in 1 .. (n - 1) : path[i + 1] \in VALID_TRANSITIONS[path[i]]}
<1>1. k \in S
  BY DEF Valid
<1>2. ASSUME NEW n \in S PROVE n \in Int /\ k >= n
  <2>1. n \in 1 .. Len(path) /\ Len(path) \in 1 .. 3 /\ k \in 1 .. Len(path)
    OBVIOUS
  <2>2. ASSUME n > k PROVE FALSE
    <3>1. k # Len(path) /\ k \in 1 .. (n - 1)
      BY <2>1, <2>2
    <3> QED  BY <3>1 DEF Valid
  <2> QED  BY <2>1, <2>2
<1>3. Max(S) = k
  BY <1>1, <1>2, MaxIs
<1> QED  BY <1>3 DEF Length

LEMMA LengthExists ==
    ASSUME NEW path \in Seq(States), Len(path) \in 1 .. 3
    PROVE  \E k \in 1 .. Len(path) : /\ Length(path) = k
                                     /\ \A i \in 1 .. (k - 1) : Valid(path[i], path[i + 1])
                                     /\ k = Len(path) \/ ~Valid(path[k], path[k + 1])
<1>1. SUFFICES \E k \in 1 .. Len(path) : /\ \A i \in 1 .. (k - 1) : Valid(path[i], path[i + 1])
                                         /\ k = Len(path) \/ ~Valid(path[k], path[k + 1])
  BY LengthIs
<1>2. CASE Len(path) = 1 \/ ~Valid(path[1], path[2])
  <2>1. 1 \in 1 .. Len(path) /\ \A i \in 1 .. (1 - 1) : Valid(path[i], path[i + 1])
    OBVIOUS
  <2>2. 1 = Len(path) \/ ~Valid(path[1], path[1 + 1])
    BY <1>2
  <2> QED  BY <2>1, <2>2
<1>3. CASE Valid(path[1], path[2]) /\ (Len(path) = 2 \/ (Len(path) = 3 /\ ~Valid(path[2], path[3])))
  <2>1. 2 \in 1 .. Len(path) /\ \A i \in 1 .. (2 - 1) : Valid(path[i], path[i + 1])
    BY <1>3
  <2>2. 2 = Len(path) \/ ~Valid(path[2], path[2 + 1])
    BY <1>3
  <2> QED  BY <2>1, <2>2
<1>4. CASE Len(path) = 3 /\ Valid(path[1], path[2]) /\ Valid(path[2], path[3])
  <2>1. 3 \in 1 .. Len(path) /\ \A i \in 1 .. (3 - 1) : Valid(path[i], path[i + 1])
    BY <1>4
  <2>2. 3 = Len(path)
    BY <1>4
  <2> QED  BY <2>1, <2>2
<1> QED  BY <1>2, <1>3, <1>4

\* What TransitionTo does: nothing, or it publishes changes that end in the new state.
LEMMA Transitions ==
    ASSUME NEW path \in Seq(States), Len(path) \in 1 .. 3, path[1] = state,
           events \in Seq(States \X States), TransitionTo(path)
    PROVE  /\ state' \in States
           /\ state' = path[Length(path)]
           /\ events' \in Seq(States \X States)
           /\ \/ Length(path) = 1 /\ state' = state /\ events' = events
              \/ /\ Length(path) > 1
                 /\ Len(events') > 0
                 /\ events'[Len(events')] = <<path[Length(path) - 1], state'>>
                 /\ Valid(path[Length(path) - 1], state')
<1>1. PICK k \in 1 .. Len(path) : /\ Length(path) = k
                                  /\ \A i \in 1 .. (k - 1) : Valid(path[i], path[i + 1])
  BY LengthExists
<1>2. /\ state' = path[k]
      /\ events' = events \o [i \in 1 .. (k - 1) |-> <<path[i], path[i + 1]>>]
  BY <1>1 DEF TransitionTo
<1>3. \A i \in 1 .. Len(path) : path[i] \in States
  OBVIOUS
<1> DEFINE new == [i \in 1 .. (k - 1) |-> <<path[i], path[i + 1]>>]
<1>4. \A i \in 1 .. (k - 1) : <<path[i], path[i + 1]>> \in States \X States
  BY <1>3
<1>5. k - 1 \in Nat /\ new \in [1 .. (k - 1) -> States \X States]
  BY <1>4
<1>6. new \in Seq(States \X States) /\ Len(new) = k - 1
  BY <1>5
<1>7. CASE k = 1
  BY <1>1, <1>2, <1>3, <1>6, <1>7
<1>8. CASE k > 1
  BY <1>1, <1>2, <1>3, <1>6, <1>8
<1> QED  BY <1>7, <1>8

\* One, two or three states, as the model writes its paths.
LEMMA Path1 == ASSUME NEW a \in States PROVE Length(<<a>>) = 1 /\ ~Blocked(<<a>>)
<1>1. Length(<<a>>) = 1
  <2> DEFINE path == <<a>>
  <2>1. path \in Seq(States) /\ Len(path) = 1
    OBVIOUS
  <2> HIDE DEF path
  <2>2. Length(path) \in 1 .. 1
    BY <2>1, LengthExists
  <2> QED  BY <2>2 DEF path
<1> QED  BY <1>1 DEF Blocked

LEMMA Path2 ==
    ASSUME NEW a \in States, NEW b \in States
    PROVE  /\ Valid(a, b) => Length(<<a, b>>) = 2 /\ ~Blocked(<<a, b>>)
           /\ ~Valid(a, b) => Length(<<a, b>>) = 1 /\ Blocked(<<a, b>>)
<1> DEFINE path == <<a, b>>
<1>1. path \in Seq(States) /\ Len(path) = 2 /\ path[1] = a /\ path[2] = b
  OBVIOUS
<1> HIDE DEF path
<1>2. PICK k \in 1 .. 2 : /\ Length(path) = k
                          /\ \A i \in 1 .. (k - 1) : Valid(path[i], path[i + 1])
                          /\ k = 2 \/ ~Valid(path[k], path[k + 1])
  BY <1>1, LengthExists
<1>3. CASE k = 1
  <2>1. ~Valid(path[1], path[2])
    BY <1>2, <1>3
  <2> QED  BY <1>1, <1>2, <1>3, <2>1 DEF Blocked
<1>4. CASE k = 2
  <2>1. Valid(path[1], path[2])
    BY <1>2, <1>4
  <2> QED  BY <1>1, <1>2, <1>4, <2>1 DEF Blocked
<1> QED  BY <1>3, <1>4 DEF path

LEMMA Path3 ==
    ASSUME NEW a \in States, NEW b \in States, NEW c \in States
    PROVE  /\ Valid(a, b) /\ Valid(b, c) => Length(<<a, b, c>>) = 3 /\ ~Blocked(<<a, b, c>>)
           /\ Valid(a, b) /\ ~Valid(b, c) => Length(<<a, b, c>>) = 2 /\ Blocked(<<a, b, c>>)
           /\ ~Valid(a, b) => Length(<<a, b, c>>) = 1 /\ Blocked(<<a, b, c>>)
<1> DEFINE path == <<a, b, c>>
<1>1. path \in Seq(States) /\ Len(path) = 3 /\ path[1] = a /\ path[2] = b /\ path[3] = c
  OBVIOUS
<1> HIDE DEF path
<1>2. PICK k \in 1 .. 3 : /\ Length(path) = k
                          /\ \A i \in 1 .. (k - 1) : Valid(path[i], path[i + 1])
                          /\ k = 3 \/ ~Valid(path[k], path[k + 1])
  BY <1>1, LengthExists
<1>3. CASE k = 1
  <2>1. ~Valid(path[1], path[2])
    BY <1>2, <1>3
  <2> QED  BY <1>1, <1>2, <1>3, <2>1 DEF Blocked
<1>4. CASE k = 2
  <2>1. Valid(path[1], path[2]) /\ ~Valid(path[2], path[3])
    BY <1>2, <1>4
  <2> QED  BY <1>1, <1>2, <1>4, <2>1 DEF Blocked
<1>5. CASE k = 3
  <2>1. Valid(path[1], path[1 + 1]) /\ Valid(path[2], path[2 + 1])
    BY <1>2, <1>5
  <2> QED  BY <1>1, <1>2, <1>5, <2>1 DEF Blocked
<1> QED  BY <1>3, <1>4, <1>5 DEF path

-----------------------------------------------------------------------------
(* The queue of requests. *)

Requests == [who : Actor, kind : Kinds, done : BOOLEAN, stamped : BOOLEAN]

\* Taking one request out keeps the others, in their order.
LEMMA RestKeeps ==
    ASSUME rpc \in Seq(Requests), NEW i \in DOMAIN rpc
    PROVE  /\ Rest(i) \in Seq(Requests) /\ Len(Rest(i)) = Len(rpc) - 1
           /\ \A j \in DOMAIN Rest(i) : LET k == IF j < i THEN j ELSE j + 1
                                        IN k \in DOMAIN rpc /\ k # i /\ Rest(i)[j] = rpc[k]
<1>1. i \in 1 .. Len(rpc) /\ Len(rpc) \in Nat
  OBVIOUS
<1> DEFINE front == SubSeq(rpc, 1, i - 1)
           back == SubSeq(rpc, i + 1, Len(rpc))
<1>2. /\ front \in Seq(Requests) /\ Len(front) = i - 1
      /\ \A j \in 1 .. (i - 1) : front[j] = rpc[j]
  BY <1>1
<1>3. /\ back \in Seq(Requests) /\ Len(back) = Len(rpc) - i
      /\ \A j \in 1 .. (Len(rpc) - i) : back[j] = rpc[j + i]
  BY <1>1
<1> HIDE DEF front, back
<1>4. /\ front \o back \in Seq(Requests) /\ Len(front \o back) = Len(rpc) - 1
      /\ \A j \in 1 .. (Len(rpc) - 1) :
            (front \o back)[j] = IF j <= i - 1 THEN front[j] ELSE back[j - (i - 1)]
  <2>1. /\ front \o back \in Seq(Requests) /\ Len(front \o back) = Len(front) + Len(back)
        /\ \A j \in 1 .. Len(front) + Len(back) :
              (front \o back)[j] = IF j <= Len(front) THEN front[j] ELSE back[j - Len(front)]
    BY <1>2, <1>3, ConcatProperties
  <2>2. Len(front) = i - 1 /\ Len(front) + Len(back) = Len(rpc) - 1
    BY <1>1, <1>2, <1>3
  <2> QED  BY <2>1, <2>2
<1>5. ASSUME NEW j \in 1 .. (Len(rpc) - 1)
      PROVE  (front \o back)[j] = rpc[IF j < i THEN j ELSE j + 1]
  <2>1. CASE j < i
    BY <1>1, <1>2, <1>4, <2>1
  <2>2. CASE ~(j < i)
    <3>1. j - (i - 1) \in 1 .. (Len(rpc) - i) /\ (j - (i - 1)) + i = j + 1 /\ ~(j <= i - 1)
      BY <1>1, <2>2
    <3>2. back[j - (i - 1)] = rpc[j + 1]
      BY <1>3, <3>1
    <3> QED  BY <1>4, <2>2, <3>1, <3>2
  <2> QED  BY <2>1, <2>2
<1>6. Rest(i) = front \o back
  BY DEF Rest, front, back
<1>7. DOMAIN Rest(i) = 1 .. (Len(rpc) - 1)
  BY <1>1, <1>4, <1>6
<1>8. \A j \in DOMAIN Rest(i) : LET k == IF j < i THEN j ELSE j + 1
                                IN k \in DOMAIN rpc /\ k # i
  BY <1>1, <1>7
<1> QED  BY <1>4, <1>5, <1>6, <1>7, <1>8

\* Every request of a task is awaited by it, one at a time; only a task inside
\* init_proxy has a registration on its way.  q is the queue, p where the actors are.
Awaited(q, p) ==
    /\ \A j \in DOMAIN q : q[j].who \in Task => p[q[j].who] \in {"probe", "deinit", "init"}
    /\ \A j \in DOMAIN q : q[j].kind = "init" => q[j].who \in Task /\ p[q[j].who] = "init"
    /\ \A j, k \in DOMAIN q : q[j].who \in Task /\ q[j].who = q[k].who => j = k

LEMMA RequestTyped ==
    ASSUME NEW a \in Actor, NEW kind \in Kinds
    PROVE  /\ Request(a, kind) \in Requests
           /\ Request(a, kind).who = a /\ Request(a, kind).kind = kind
<1>1. (kind = "init" /\ fresh') \in BOOLEAN
  OBVIOUS
<1> QED  BY <1>1 DEF Request, Requests

\* The i-th request ends, and its actor moves on.
LEMMA AwaitedRest ==
    ASSUME rpc \in Seq(Requests), Awaited(rpc, pc), NEW i \in DOMAIN rpc, NEW p,
           \A t \in Task : t # rpc[i].who => p[t] = pc[t]
    PROVE  /\ Awaited(Rest(i), p) /\ Rest(i) \in Seq(Requests)
           /\ rpc[i].who \in Task => \A j \in DOMAIN Rest(i) : Rest(i)[j].who # rpc[i].who
<1> DEFINE at(j) == IF j < i THEN j ELSE j + 1
<1>1. Rest(i) \in Seq(Requests) /\ DOMAIN Rest(i) \subseteq Nat /\ i \in Nat
  <2>1. Rest(i) \in Seq(Requests)
    BY RestKeeps
  <2>2. DOMAIN Rest(i) = 1 .. Len(Rest(i)) /\ Len(Rest(i)) \in Nat
    BY <2>1, LenProperties
  <2> QED  BY <2>1, <2>2
<1>2. \A j \in DOMAIN Rest(i) : at(j) \in DOMAIN rpc /\ at(j) # i /\ Rest(i)[j] = rpc[at(j)]
  BY RestKeeps
<1>3. \A j, k \in DOMAIN Rest(i) : at(j) = at(k) => j = k
  BY <1>1
<1> HIDE DEF at
<1>4. \A j \in DOMAIN Rest(i) : Rest(i)[j].who \in Task => Rest(i)[j].who # rpc[i].who
  BY <1>2 DEF Awaited
<1>5. /\ \A j \in DOMAIN Rest(i) : Rest(i)[j].who \in Task => p[Rest(i)[j].who] \in {"probe", "deinit", "init"}
      /\ \A j \in DOMAIN Rest(i) : Rest(i)[j].kind = "init"
                                   => Rest(i)[j].who \in Task /\ p[Rest(i)[j].who] = "init"
  BY <1>2, <1>4 DEF Awaited
<1>6. \A j, k \in DOMAIN Rest(i) : Rest(i)[j].who \in Task /\ Rest(i)[j].who = Rest(i)[k].who => j = k
  BY <1>2, <1>3 DEF Awaited
<1> QED  BY <1>1, <1>4, <1>5, <1>6 DEF Awaited

\* A task without a request sends one.
LEMMA AwaitedAppend ==
    ASSUME NEW q \in Seq(Requests), NEW p, NEW o, Awaited(q, o), NEW r \in Requests, r.who \in Task,
           \A j \in DOMAIN q : q[j].who # r.who, \A t \in Task : t # r.who => p[t] = o[t],
           p[r.who] \in {"probe", "deinit", "init"}, r.kind = "init" => p[r.who] = "init"
    PROVE  Awaited(Append(q, r), p) /\ Append(q, r) \in Seq(Requests)
<1>1. /\ Append(q, r) \in Seq(Requests) /\ DOMAIN q = 1 .. Len(q) /\ Len(q) \in Nat
      /\ DOMAIN Append(q, r) = 1 .. (Len(q) + 1)
  OBVIOUS
<1>2. \A j \in 1 .. (Len(q) + 1) : IF j = Len(q) + 1 THEN Append(q, r)[j] = r
                                   ELSE j \in DOMAIN q /\ Append(q, r)[j] = q[j]
  BY <1>1
<1> DEFINE n == Append(q, r)
<1> HIDE DEF n
<1>3. \A j \in DOMAIN n : n[j] = r \/ (j \in DOMAIN q /\ n[j] = q[j])
  BY <1>1, <1>2 DEF n
<1>4. /\ \A j \in DOMAIN n : n[j].who \in Task => p[n[j].who] \in {"probe", "deinit", "init"}
      /\ \A j \in DOMAIN n : n[j].kind = "init" => n[j].who \in Task /\ p[n[j].who] = "init"
  BY <1>3 DEF Awaited
<1>5. \A j, k \in DOMAIN n : n[j].who \in Task /\ n[j].who = n[k].who => j = k
  <2> SUFFICES ASSUME NEW j \in DOMAIN n, NEW k \in DOMAIN n, n[j].who \in Task, n[j].who = n[k].who
               PROVE  j = k
    OBVIOUS
  <2>1. CASE j \in DOMAIN q /\ k \in DOMAIN q
    BY <1>1, <1>2, <2>1 DEF n, Awaited
  <2>2. CASE j \notin DOMAIN q \/ k \notin DOMAIN q
    BY <1>1, <1>2, <2>2 DEF n
  <2> QED  BY <2>1, <2>2
<1> QED  BY <1>1, <1>4, <1>5 DEF Awaited, n

\* The check and stop() send what registers nobody.
LEMMA AwaitedOther ==
    ASSUME NEW q \in Seq(Requests), NEW p, NEW o, Awaited(q, o), NEW r \in Requests, r.who \notin Task,
           r.kind # "init", \A t \in Task : p[t] = o[t]
    PROVE  Awaited(Append(q, r), p) /\ Append(q, r) \in Seq(Requests)
<1>1. /\ Append(q, r) \in Seq(Requests) /\ DOMAIN q = 1 .. Len(q) /\ Len(q) \in Nat
      /\ DOMAIN Append(q, r) = 1 .. (Len(q) + 1)
  OBVIOUS
<1>2. \A j \in 1 .. (Len(q) + 1) : IF j = Len(q) + 1 THEN Append(q, r)[j] = r
                                   ELSE j \in DOMAIN q /\ Append(q, r)[j] = q[j]
  BY <1>1
<1> DEFINE n == Append(q, r)
<1> HIDE DEF n
<1>3. \A j \in DOMAIN n : n[j] = r \/ (j \in DOMAIN q /\ n[j] = q[j])
  BY <1>1, <1>2 DEF n
<1>4. \A j \in DOMAIN n : n[j].who \in Task => j \in DOMAIN q /\ n[j] = q[j]
  BY <1>3
<1> QED  BY <1>1, <1>3, <1>4 DEF Awaited, n

-----------------------------------------------------------------------------
(* The invariant. *)

Typed ==
    /\ state \in States
    /\ events \in Seq(States \X States)
    /\ rpc \in Seq(Requests)
    /\ pc \in [Actor -> Points]
    /\ errors \in 0 .. (ErrorThreshold + 1)

\* Inside reconnect(), or inside the first connection.
Reconnecting == {"asleep", "deinit", "init"}

\* One task at most is inside init_proxy, and nobody takes the client from CONNECTING.
InitAlone ==
    \A t \in Task : pc[t] = "init" => /\ state = "CONNECTING"
                                      /\ \A u \in Task : pc[u] = "init" => u = t

\* Until the client is stopped, one task at most is inside reconnect().
ReconnectAlone ==
    pc["stop"] = "idle" =>
        \A t \in Task : pc[t] \in {"asleep", "deinit"} =>
            state = "RECONNECTING" /\ \A u \in Task : pc[u] \in Reconnecting => u = t

\* What the undelivered changes ev will make of the devices of a client in state st
\* that are unavailable by force or not (fo).
Follows(ev, st, fo) ==
    /\ ev # <<>> => ev[Len(ev)][2] = st
    /\ st = "CONNECTED" => ~fo \/ (ev # <<>> /\ Reconnected(ev[Len(ev)][1], st))
    /\ st \in {"DISCONNECTED", "FAILED"} => fo \/ ev # <<>>

LInv == /\ Typed /\ InitAlone /\ ReconnectAlone /\ Awaited(rpc, pc)
        /\ Follows(events, state, forced) /\ NoInvalidTransition /\ ConnectedIsTolerant

LEMMA Actors == /\ "stop" \in Actor /\ "stop" \notin Task /\ "check" \in Actor /\ "check" \notin Task
                /\ Task \subseteq Actor /\ "stop" # "check"
BY LifecycleAssumption DEF Actor

LEMMA LInvInit == Init => LInv
<1> SUFFICES ASSUME Init PROVE LInv
  OBVIOUS
<1>1. Typed
  BY LifecycleAssumption DEF Init, Typed, States, Points
<1>2. InitAlone /\ ReconnectAlone
  BY Actors DEF Init, InitAlone, ReconnectAlone
<1>3. Awaited(rpc, pc) /\ Follows(events, state, forced)
  BY DEF Init, Awaited, Follows
<1>4. NoInvalidTransition /\ ConnectedIsTolerant
  BY DEF Init, NoInvalidTransition, ConnectedIsTolerant
<1> QED  BY <1>1, <1>2, <1>3, <1>4 DEF LInv

\* The client may come to be CONNECTED only from where the central takes note of it.
LEMMA IntoConnected ==
    ASSUME NEW a \in States, Valid(a, "CONNECTED") PROVE Reconnected(a, "CONNECTED")
BY DEF Valid, VALID_TRANSITIONS, Reconnected, States

\* A transition, with what else happens to the devices.
LEMMA Moves ==
    ASSUME Typed, Follows(events, state, forced), NEW path \in Seq(States), Len(path) \in 1 .. 3,
           path[1] = state, TransitionTo(path),
           (forced' <=> forced) \/ (state' # "CONNECTED" /\ (forced => forced'))
    PROVE  state' \in States /\ events' \in Seq(States \X States) /\ Follows(events', state', forced')
<1>1. /\ state' \in States /\ events' \in Seq(States \X States)
      /\ \/ state' = state /\ events' = events
         \/ /\ Length(path) > 1 /\ Len(events') > 0
            /\ events'[Len(events')] = <<path[Length(path) - 1], state'>>
            /\ Valid(path[Length(path) - 1], state')
  BY Transitions DEF Typed
<1>2. CASE state' = state /\ events' = events
  BY <1>1, <1>2 DEF Follows
<1>3. CASE /\ Length(path) > 1 /\ Len(events') > 0
           /\ events'[Len(events')] = <<path[Length(path) - 1], state'>>
           /\ Valid(path[Length(path) - 1], state')
  <2>1. path[Length(path) - 1] \in States
    <3>1. Length(path) \in 1 .. Len(path) /\ Len(path) \in Nat
      BY LengthExists
    <3> QED  BY <1>3, <3>1
  <2>2. events' # <<>>
    BY <1>3
  <2>3. state' = "CONNECTED" => Reconnected(events'[Len(events')][1], state')
    BY <1>3, <2>1, IntoConnected
  <2> QED  BY <1>1, <1>3, <2>2, <2>3 DEF Follows
<1> QED  BY <1>1, <1>2, <1>3

\* What no task, check or stop() looks at.
LEMMA Aside ==
    ASSUME LInv, UNCHANGED <<state, events, forced, errors, pc, raised>>,
           rpc' \in Seq(Requests), Awaited(rpc', pc)
    PROVE  LInv'
<1>1. Typed' /\ InitAlone' /\ ReconnectAlone'
  BY DEF LInv, Typed, InitAlone, ReconnectAlone
<1>2. Awaited(rpc', pc') /\ Follows(events', state', forced') /\ NoInvalidTransition' /\ ConnectedIsTolerant'
  BY DEF LInv, NoInvalidTransition, ConnectedIsTolerant
<1> QED  BY <1>1, <1>2 DEF LInv

\* An actor that is not inside reconnect() moves to where it is not either; the state
\* stays.
LEMMA AsideMoves ==
    ASSUME LInv, UNCHANGED <<state, events, forced, errors>>, pc' \in [Actor -> Points],
           pc'["stop"] = "idle" => pc["stop"] = "idle" /\ UNCHANGED raised,
           \A t \in Task : pc'[t] = pc[t] \/ pc'[t] \notin Reconnecting,
           rpc' \in Seq(Requests), Awaited(rpc', pc')
    PROVE  LInv'
<1>1. Typed' /\ InitAlone'
  BY DEF LInv, Typed, InitAlone, Reconnecting
<1>2. ReconnectAlone'
  BY DEF LInv, ReconnectAlone, Reconnecting
<1>3. Follows(events', state', forced') /\ NoInvalidTransition' /\ ConnectedIsTolerant'
  BY DEF LInv, NoInvalidTransition, ConnectedIsTolerant
<1> QED  BY <1>1, <1>2, <1>3 DEF LInv

-----------------------------------------------------------------------------
(* The actions that leave the state alone. *)

LEMMA ProbeKeeps == ASSUME LInv, NEW t \in Task, Probe(t) PROVE LInv'
<1>1. /\ pc[t] = "idle" /\ pc' = [pc EXCEPT ![t] = "probe"]
      /\ rpc' = Append(rpc, Request(t, "ping")) /\ UNCHANGED <<state, errors, forced, events, raised>>
  BY DEF Probe
<1>2. /\ Request(t, "ping") \in Requests /\ Request(t, "ping").who = t /\ Request(t, "ping").kind = "ping"
  BY RequestTyped, Actors DEF Kinds
<1>3. /\ pc' \in [Actor -> Points] /\ pc'["stop"] = pc["stop"] /\ pc'[t] = "probe"
      /\ \A u \in Task : u # t => pc'[u] = pc[u]
  BY <1>1, Actors DEF LInv, Typed, Points
<1>4. \A j \in DOMAIN rpc : rpc[j].who # t
  BY <1>1 DEF LInv, Awaited
<1>5. Awaited(rpc', pc') /\ rpc' \in Seq(Requests)
  <2> DEFINE r == Request(t, "ping")
  <2>1. r \in Requests /\ r.who = t /\ r.kind # "init" /\ rpc' = Append(rpc, r)
    BY <1>1, <1>2
  <2>2. rpc \in Seq(Requests) /\ Awaited(rpc, pc)
    BY DEF LInv, Typed
  <2> HIDE DEF r
  <2> QED  BY <1>3, <1>4, <2>1, <2>2, AwaitedAppend
<1> QED  BY <1>1, <1>3, <1>5, AsideMoves DEF Reconnecting

LEMMA CheckConnectionKeeps == ASSUME LInv, CheckConnection PROVE LInv'
<1>1. /\ pc' = [pc EXCEPT !["check"] = "ping"]
      /\ rpc' = Append(rpc, Request("check", "ping")) /\ UNCHANGED <<state, errors, forced, events, raised>>
  BY DEF CheckConnection
<1>2. /\ Request("check", "ping") \in Requests
      /\ Request("check", "ping").who = "check" /\ Request("check", "ping").kind = "ping"
  BY RequestTyped, Actors DEF Kinds
<1>3. /\ pc' \in [Actor -> Points] /\ pc'["stop"] = pc["stop"] /\ \A u \in Task : pc'[u] = pc[u]
  BY <1>1, Actors DEF LInv, Typed, Points
<1>4. Awaited(rpc', pc') /\ rpc' \in Seq(Requests)
  BY <1>1, <1>2, <1>3, Actors, AwaitedOther DEF LInv, Typed
<1> QED  BY <1>1, <1>3, <1>4, AsideMoves

LEMMA CcuKeeps == ASSUME LInv, CcuServes \/ CcuRestarts \/ Callback PROVE LInv'
<1>1. UNCHANGED <<state, events, forced, errors, pc, raised>>
  BY DEF CcuServes, CcuRestarts, Callback, clientVars
<1>2. CASE CcuServes
  <2>1. rpc # <<>> /\ rpc' = [rpc EXCEPT ![1].done = TRUE]
    BY <1>2 DEF CcuServes
  <2>2. 1 \in DOMAIN rpc /\ rpc \in Seq(Requests)
    BY <2>1 DEF LInv, Typed
  <2> DEFINE r == [rpc[1] EXCEPT !.done = TRUE]
  <2>3. rpc' = [rpc EXCEPT ![1] = r]
    BY <2>1
  <2>4. rpc[1] \in Requests
    BY <2>2
  <2>5. r \in Requests /\ r.who = rpc[1].who /\ r.kind = rpc[1].kind
    BY <2>4 DEF Requests
  <2> HIDE DEF r
  <2>6. /\ rpc' \in Seq(Requests) /\ DOMAIN rpc' = DOMAIN rpc
        /\ \A j \in DOMAIN rpc : rpc'[j].who = rpc[j].who /\ rpc'[j].kind = rpc[j].kind
    BY <2>2, <2>3, <2>5
  <2>7. Awaited(rpc', pc)
    BY <2>6 DEF LInv, Awaited
  <2> QED  BY <1>1, <2>6, <2>7, Aside
<1>3. CASE CcuRestarts \/ Callback
  <2>1. UNCHANGED rpc
    BY <1>3 DEF CcuRestarts, Callback
  <2> QED  BY <1>1, <2>1, Aside DEF LInv, Typed
<1> QED  BY <1>2, <1>3

LEMMA ProbedKeeps == ASSUME LInv, NEW i \in DOMAIN rpc, NEW ok, Probed(i, ok) PROVE LInv'
<1> DEFINE t == rpc[i].who
<1>1. /\ t \in Task /\ pc[t] = "probe" /\ pc' = [pc EXCEPT ![t] = "idle"] /\ rpc' = Rest(i)
      /\ UNCHANGED <<state, errors, forced, events, raised>>
  BY DEF Probed
<1>2. /\ pc' \in [Actor -> Points] /\ pc'["stop"] = pc["stop"] /\ pc'[t] = "idle"
      /\ \A u \in Task : u # t => pc'[u] = pc[u]
  BY <1>1, Actors DEF LInv, Typed, Points
<1>3. Awaited(rpc', pc') /\ rpc' \in Seq(Requests)
  BY <1>1, <1>2, AwaitedRest DEF LInv, Typed
<1> QED  BY <1>1, <1>2, <1>3, AsideMoves DEF Reconnecting

LEMMA DiscardedKeeps == ASSUME LInv, NEW i \in DOMAIN rpc, NEW ok, Discarded(i, ok) PROVE LInv'
<1>1. rpc' = Rest(i) /\ UNCHANGED <<state, errors, forced, events, pc, raised>>
  BY DEF Discarded, clientVars
<1>2. Awaited(rpc', pc) /\ rpc' \in Seq(Requests)
  BY <1>1, AwaitedRest DEF LInv, Typed
<1> QED  BY <1>1, <1>2, Aside

\* The central takes note of one change.
LEMMA OnSystemStatusEventKeeps == ASSUME LInv, OnSystemStatusEvent PROVE LInv'
<1>1. /\ events # <<>> /\ events' = Tail(events)
      /\ forced' = ((forced \/ Lost(events[1][2])) /\ ~Reconnected(events[1][1], events[1][2]))
      /\ UNCHANGED <<state, errors, rpc, pc, raised>>
  BY DEF OnSystemStatusEvent
<1>2. /\ events \in Seq(States \X States) /\ Len(events) \in Nat \ {0} /\ events' \in Seq(States \X States)
      /\ Len(events') = Len(events) - 1
  BY <1>1 DEF LInv, Typed
<1>3. Typed' /\ InitAlone' /\ ReconnectAlone' /\ NoInvalidTransition' /\ ConnectedIsTolerant'
  BY <1>1, <1>2 DEF LInv, Typed, InitAlone, ReconnectAlone, NoInvalidTransition, ConnectedIsTolerant
<1>4. Awaited(rpc', pc')
  BY <1>1 DEF LInv
<1>5. Follows(events', state, forced')
  <2>1. CASE Len(events) = 1
    <3>1. events' = <<>> /\ events[1][2] = state
      BY <1>1, <1>2, <2>1 DEF LInv, Follows
    <3>2. state = "CONNECTED" => ~forced'
      BY <1>1, <1>2, <2>1, <3>1 DEF LInv, Follows, Lost
    <3>3. state \in {"DISCONNECTED", "FAILED"} => forced'
      BY <1>1, <3>1 DEF Lost, Reconnected
    <3> QED  BY <3>1, <3>2, <3>3 DEF Follows
  <2>2. CASE Len(events) > 1
    <3>1. events' # <<>> /\ events'[Len(events')] = events[Len(events)]
      <4>1. \A k \in 1 .. Len(Tail(events)) : Tail(events)[k] = events[k + 1]
        BY <1>1, <1>2, HeadTailProperties
      <4>2. Len(events') \in 1 .. Len(Tail(events)) /\ Len(events') + 1 = Len(events)
        BY <1>1, <1>2, <2>2
      <4> DEFINE n == Len(events')
      <4>3. n \in 1 .. Len(Tail(events)) /\ n + 1 = Len(events)
        BY <4>2
      <4>4. events' # <<>>
        <5>1. Len(events') > 0
          BY <1>2, <2>2
        <5> QED  BY <1>2, <5>1, NotEmpty
      <4> HIDE DEF n
      <4>5. events'[n] = events[Len(events)]
        BY <1>1, <4>1, <4>3
      <4> QED  BY <4>4, <4>5 DEF n
    <3>2. state = "CONNECTED" => ~Lost(events[1][2])
      BY DEF Lost
    <3> QED  BY <1>1, <3>1, <3>2 DEF LInv, Follows
  <2> QED  BY <1>2, <2>1, <2>2
<1> QED  BY <1>1, <1>3, <1>4, <1>5 DEF LInv

-----------------------------------------------------------------------------
(* The actions that move the client. *)

\* A move by an actor that does not enter reconnect(): it may take the client away only
\* from where nobody relies on its state.
LEMMA Shifts ==
    ASSUME LInv, pc' \in [Actor -> Points], state' \in States, events' \in Seq(States \X States),
           Follows(events', state', forced'), errors' \in 0 .. (ErrorThreshold + 1),
           rpc' \in Seq(Requests), Awaited(rpc', pc'),
           \A t \in Task : pc'[t] = pc[t] \/ pc'[t] \notin Reconnecting,
           state' # state => \A t \in Task : /\ pc'[t] # "init"
                                             /\ pc'["stop"] = "idle" => pc'[t] \notin Reconnecting,
           pc'["stop"] = "idle" => pc["stop"] = "idle" /\ UNCHANGED raised,
           state' = "CONNECTED" => errors' <= ErrorThreshold
    PROVE  LInv'
<1>1. Typed'
  BY DEF Typed
<1>2. InitAlone'
  BY DEF LInv, InitAlone, Reconnecting
<1>3. ReconnectAlone'
  BY DEF LInv, ReconnectAlone, Reconnecting
<1>4. NoInvalidTransition' /\ ConnectedIsTolerant'
  BY DEF LInv, NoInvalidTransition, ConnectedIsTolerant
<1> QED  BY <1>1, <1>2, <1>3, <1>4 DEF LInv

\* Nobody is inside reconnect() of a client that is neither CONNECTING nor RECONNECTING,
\* as long as it is not stopped.
LEMMA Nobody ==
    ASSUME LInv, state # "CONNECTING"
    PROVE  \A t \in Task : /\ pc[t] # "init"
                           /\ pc["stop"] = "idle" /\ state # "RECONNECTING" => pc[t] \notin Reconnecting
BY DEF LInv, InitAlone, ReconnectAlone, Reconnecting

LEMMA InitClientKeeps == ASSUME LInv, InitClient PROVE LInv'
<1> DEFINE path == <<state, "INITIALIZING", "INITIALIZED">>
<1>1. /\ state = "CREATED" /\ TransitionTo(path)
      /\ UNCHANGED <<errors, forced, rpc, pc, raised>>
  BY DEF InitClient
<1>2. /\ state \in States /\ "INITIALIZING" \in States /\ "INITIALIZED" \in States
      /\ Valid(state, "INITIALIZING") /\ Valid("INITIALIZING", "INITIALIZED")
  BY <1>1 DEF States, Valid, VALID_TRANSITIONS
<1>3. path \in Seq(States) /\ Len(path) = 3 /\ path[1] = state /\ path[3] = "INITIALIZED"
  BY <1>2
<1>4. Length(path) = 3
  BY <1>2, Path3
<1> HIDE DEF path
<1>5. state' = "INITIALIZED"
  BY <1>1, <1>3, <1>4 DEF TransitionTo
<1>6. state' \in States /\ events' \in Seq(States \X States) /\ Follows(events', state', forced')
  BY <1>1, <1>3, Moves DEF LInv
<1>7. \A t \in Task : pc[t] \notin {"init"} /\ (pc["stop"] = "idle" => pc[t] \notin Reconnecting)
  BY <1>1, Nobody
<1>8. pc' \in [Actor -> Points] /\ rpc' \in Seq(Requests) /\ Awaited(rpc', pc')
      /\ errors' \in 0 .. (ErrorThreshold + 1)
  BY <1>1 DEF LInv, Typed
<1> QED  BY <1>1, <1>5, <1>6, <1>7, <1>8, Shifts

\* A path of two states.
LEMMA Step2 ==
    ASSUME LInv, NEW b \in States, TransitionTo(<<state, b>>),
           (forced' <=> forced) \/ (state' # "CONNECTED" /\ (forced => forced'))
    PROVE  /\ state' \in States /\ events' \in Seq(States \X States) /\ Follows(events', state', forced')
           /\ Valid(state, b) => state' = b /\ ~Blocked(<<state, b>>)
           /\ ~Valid(state, b) => state' = state /\ events' = events /\ Blocked(<<state, b>>)
<1> DEFINE path == <<state, b>>
<1>1. state \in States
  BY DEF LInv, Typed
<1>2. path \in Seq(States) /\ Len(path) = 2 /\ path[1] = state /\ path[2] = b
  BY <1>1
<1>3. /\ Valid(state, b) => Length(path) = 2 /\ ~Blocked(path)
      /\ ~Valid(state, b) => Length(path) = 1 /\ Blocked(path)
  BY <1>1, Path2
<1>4. TransitionTo(path)
  OBVIOUS
<1> HIDE DEF path
<1>5. state' \in States /\ events' \in Seq(States \X States) /\ Follows(events', state', forced')
  BY <1>2, <1>4, Moves DEF LInv
<1>6. /\ state' = path[Length(path)]
      /\ Length(path) = 1 => events' = events
  <2>1. events \in Seq(States \X States)
    BY DEF LInv, Typed
  <2>2. Len(path) \in 1 .. 3 /\ path \in Seq(States) /\ path[1] = state
    BY <1>2
  <2> QED  BY <1>4, <2>1, <2>2, Transitions
<1>7. /\ Valid(state, b) => state' = b /\ ~Blocked(path)
      /\ ~Valid(state, b) => state' = state /\ events' = events /\ Blocked(path)
  BY <1>2, <1>3, <1>6
<1> QED  BY <1>5, <1>7 DEF path

\* A path of one state.
LEMMA Step1 ==
    ASSUME LInv, TransitionTo(<<state>>)
    PROVE  state' = state /\ events' = events /\ ~Blocked(<<state>>)
<1> DEFINE path == <<state>>
<1>1. state \in States
  BY DEF LInv, Typed
<1>2. path \in Seq(States) /\ Len(path) = 1 /\ path[1] = state
  BY <1>1
<1>3. Length(path) = 1 /\ ~Blocked(path)
  BY <1>1, Path1
<1>4. TransitionTo(path)
  OBVIOUS
<1> HIDE DEF path
<1>5. state' = state /\ events' = events
  BY <1>2, <1>3, <1>4, Transitions DEF LInv, Typed
<1> QED  BY <1>3, <1>5 DEF path

\* A path of three states whose second step is valid.
LEMMA Step3 ==
    ASSUME LInv, NEW b \in States, NEW c \in States, Valid(b, c), TransitionTo(<<state, b, c>>),
           UNCHANGED forced
    PROVE  /\ state' \in States /\ events' \in Seq(States \X States) /\ Follows(events', state', forced')
           /\ Valid(state, b) => state' = c /\ ~Blocked(<<state, b, c>>)
           /\ ~Valid(state, b) => state' = state /\ events' = events /\ Blocked(<<state, b, c>>)
<1> DEFINE path == <<state, b, c>>
<1>1. state \in States
  BY DEF LInv, Typed
<1>2. path \in Seq(States) /\ Len(path) = 3 /\ path[1] = state /\ path[3] = c
  BY <1>1
<1>3. /\ Valid(state, b) => Length(path) = 3 /\ ~Blocked(path)
      /\ ~Valid(state, b) => Length(path) = 1 /\ Blocked(path)
  BY <1>1, Path3
<1>4. TransitionTo(path)
  OBVIOUS
<1> HIDE DEF path
<1>5. state' \in States /\ events' \in Seq(States \X States) /\ Follows(events', state', forced')
  BY <1>2, <1>4, Moves DEF LInv
<1>6. /\ state' = path[Length(path)]
      /\ Length(path) = 1 => events' = events
  BY <1>2, <1>4, Transitions DEF LInv, Typed
<1>7. /\ Valid(state, b) => state' = c /\ ~Blocked(path)
      /\ ~Valid(state, b) => state' = state /\ events' = events /\ Blocked(path)
  BY <1>2, <1>3, <1>6
<1> QED  BY <1>5, <1>7 DEF path

LEMMA Appended ==
    ASSUME NEW a \in States, NEW b \in States, NEW c \in States
    PROVE  Append(<<a>>, b) = <<a, b>> /\ Append(<<a, b>>, c) = <<a, b, c>>
<1>1. /\ <<a>> \in Seq(States) /\ <<a, b>> \in Seq(States) /\ <<a, b, c>> \in Seq(States)
      /\ Append(<<a>>, b) \in Seq(States) /\ Append(<<a, b>>, c) \in Seq(States)
  OBVIOUS
<1>2. /\ Len(<<a, b>>) = 2 /\ Len(<<a, b, c>>) = 3
      /\ Len(Append(<<a>>, b)) = 2 /\ Len(Append(<<a, b>>, c)) = 3
  OBVIOUS
<1>3. \A i \in 1 .. 2 : Append(<<a>>, b)[i] = <<a, b>>[i]
  OBVIOUS
<1>4. \A i \in 1 .. 3 : Append(<<a, b>>, c)[i] = <<a, b, c>>[i]
  OBVIOUS
<1> QED  BY <1>1, <1>2, <1>3, <1>4, SeqEqual

\* reconnect() begins only where nobody else is inside it.
LEMMA ReconnectKeeps == ASSUME LInv, NEW t \in Task, Reconnect(t) PROVE LInv'
<1> DEFINE path == IF state = "INITIALIZED" THEN <<state, "DISCONNECTED">> ELSE <<state>>
           whole == Append(path, "RECONNECTING")
<1>1. /\ pc[t] = "idle" /\ state # "CREATED" /\ CanReconnect(path[Len(path)])
      /\ TransitionTo(whole) /\ Arrive(t, whole, "asleep")
      /\ UNCHANGED <<errors, forced, rpc>>
  BY DEF Reconnect
<1>2. /\ state \in States /\ "DISCONNECTED" \in States /\ "RECONNECTING" \in States
  BY DEF LInv, Typed, States
<1>3. /\ state' = "RECONNECTING" /\ ~Blocked(whole) /\ state \notin {"CONNECTING", "RECONNECTING"}
      /\ events' \in Seq(States \X States) /\ Follows(events', state', forced')
  <2>1. CASE state = "INITIALIZED"
    <3>1. whole = <<state, "DISCONNECTED", "RECONNECTING">>
      BY <1>2, <2>1, Appended
    <3>2. Valid(state, "DISCONNECTED") /\ Valid("DISCONNECTED", "RECONNECTING")
      BY <2>1 DEF Valid, VALID_TRANSITIONS
    <3>3. TransitionTo(<<state, "DISCONNECTED", "RECONNECTING">>)
      BY <1>1, <3>1
    <3> QED  BY <1>1, <1>2, <2>1, <3>1, <3>2, <3>3, Step3
  <2>2. CASE state # "INITIALIZED"
    <3>1. path = <<state>> /\ Len(path) = 1 /\ path[1] = state /\ whole = <<state, "RECONNECTING">>
      BY <1>2, <2>2, Appended
    <3>2. Valid(state, "RECONNECTING")
      BY <1>1, <3>1 DEF CanReconnect, Valid
    <3>3. state \notin {"CONNECTING", "RECONNECTING"}
      BY <3>2 DEF Valid, VALID_TRANSITIONS
    <3>4. TransitionTo(<<state, "RECONNECTING">>)
      BY <1>1, <3>1
    <3> QED  BY <1>1, <1>2, <3>1, <3>2, <3>3, <3>4, Step2
  <2> QED  BY <2>1, <2>2
<1> HIDE DEF whole, path
<1>4. pc' = [pc EXCEPT ![t] = "asleep"] /\ UNCHANGED raised
  BY <1>1, <1>3 DEF Arrive
<1>5. /\ pc' \in [Actor -> Points] /\ pc'["stop"] = pc["stop"] /\ pc'[t] = "asleep"
      /\ \A u \in Task : u # t => pc'[u] = pc[u]
  BY <1>4, Actors DEF LInv, Typed, Points
<1>6. \A u \in Task : pc[u] # "init" /\ (pc["stop"] = "idle" => pc[u] \notin Reconnecting)
  BY <1>3, Nobody
<1>7. Typed'
  BY <1>1, <1>2, <1>3, <1>5 DEF LInv, Typed
<1>8. InitAlone' /\ ReconnectAlone'
  BY <1>3, <1>5, <1>6 DEF InitAlone, ReconnectAlone, Reconnecting
<1>9. Awaited(rpc', pc')
  <2>1. \A j \in DOMAIN rpc : rpc[j].who # t
    BY <1>1 DEF LInv, Awaited
  <2>2. Awaited(rpc, pc')
    BY <1>5, <2>1 DEF LInv, Awaited
  <2> QED  BY <1>1, <2>2
<1>10. NoInvalidTransition' /\ ConnectedIsTolerant'
  BY <1>3, <1>4, <1>5 DEF LInv, NoInvalidTransition, ConnectedIsTolerant
<1> QED  BY <1>3, <1>7, <1>8, <1>9, <1>10 DEF LInv

\* Who comes to init_proxy: a task on the first connection, or one inside reconnect().
\* Only a client that is being stopped can turn it away.
LEMMA InitProxyKeeps ==
    ASSUME LInv, NEW t \in Task, NEW queue \in Seq(Requests), NEW path, InitProxy(t, path, queue),
           path = <<state, "CONNECTING">> \/ path = <<state, "DISCONNECTED", "CONNECTING">>,
           Awaited(queue, pc), \A j \in DOMAIN queue : queue[j].who # t,
           \/ pc[t] = "idle" /\ state = "INITIALIZED"
           \/ pc[t] \in {"asleep", "deinit"}
    PROVE  LInv'
<1>1. /\ TransitionTo(path) /\ Arrive(t, path, "init") /\ UNCHANGED <<errors, forced>>
      /\ rpc' = IF Blocked(path) THEN queue
                ELSE Append(queue, Request(t, IF callback THEN "init" ELSE "list"))
  BY DEF InitProxy
<1> DEFINE first == IF path = <<state, "CONNECTING">> THEN "CONNECTING" ELSE "DISCONNECTED"
<1>2. /\ state' \in States /\ events' \in Seq(States \X States) /\ Follows(events', state', forced')
      /\ Valid(state, first) => state' = "CONNECTING" /\ ~Blocked(path)
      /\ ~Valid(state, first) => state' = state /\ events' = events /\ Blocked(path)
  <2>1. /\ "CONNECTING" \in States /\ "DISCONNECTED" \in States
        /\ Valid("DISCONNECTED", "CONNECTING")
    BY DEF States, Valid, VALID_TRANSITIONS
  <2>2. CASE path = <<state, "CONNECTING">>
    BY <1>1, <2>1, <2>2, Step2
  <2>3. CASE path # <<state, "CONNECTING">> /\ path = <<state, "DISCONNECTED", "CONNECTING">>
    BY <1>1, <2>1, <2>3, Step3
  <2> QED  BY <2>2, <2>3
<1>3. first \in {"CONNECTING", "DISCONNECTED"}
  OBVIOUS
<1> HIDE DEF first
<1>4. /\ pc["stop"] = "idle" => Valid(state, first)
      /\ Valid(state, first) => state # "CONNECTING"
  <2>1. /\ state \in {"INITIALIZED", "RECONNECTING"} => Valid(state, first)
        /\ Valid(state, first) => state # "CONNECTING"
    BY <1>3 DEF Valid, VALID_TRANSITIONS
  <2> QED  BY <2>1 DEF LInv, ReconnectAlone
<1>5. CASE ~Valid(state, first)
  <2>1. /\ pc' = [pc EXCEPT ![t] = "idle"] /\ rpc' = queue /\ state' = state /\ events' = events
    BY <1>1, <1>2, <1>5, Actors DEF Arrive
  <2>2. /\ pc' \in [Actor -> Points] /\ pc'["stop"] = pc["stop"] /\ pc'[t] = "idle"
        /\ \A u \in Task : u # t => pc'[u] = pc[u]
    BY <2>1, Actors DEF LInv, Typed, Points
  <2>3. Awaited(rpc', pc')
    BY <2>1, <2>2 DEF Awaited
  <2> QED  BY <1>1, <1>4, <1>5, <2>1, <2>2, <2>3, AsideMoves DEF Reconnecting
<1>6. CASE Valid(state, first)
  <2> DEFINE r == Request(t, IF callback THEN "init" ELSE "list")
  <2>1. /\ pc' = [pc EXCEPT ![t] = "init"] /\ rpc' = Append(queue, r) /\ state' = "CONNECTING"
        /\ UNCHANGED raised
    BY <1>1, <1>2, <1>6 DEF Arrive
  <2>2. /\ pc' \in [Actor -> Points] /\ pc'["stop"] = pc["stop"] /\ pc'[t] = "init"
        /\ \A u \in Task : u # t => pc'[u] = pc[u]
    BY <2>1, Actors DEF LInv, Typed, Points
  <2>3. r \in Requests /\ r.who = t
    BY RequestTyped, Actors DEF Kinds
  <2> HIDE DEF r
  <2>4. Awaited(rpc', pc') /\ rpc' \in Seq(Requests)
    <3>1. /\ \A j \in DOMAIN queue : queue[j].who # r.who
          /\ \A u \in Task : u # r.who => pc'[u] = pc[u]
          /\ r.who \in Task /\ pc'[r.who] = "init"
      BY <2>2, <2>3
    <3>2. Awaited(Append(queue, r), pc') /\ Append(queue, r) \in Seq(Requests)
      BY <2>3, <3>1, AwaitedAppend
    <3> QED  BY <2>1, <3>2
  <2>5. Typed'
    BY <1>1, <1>2, <2>2, <2>4 DEF LInv, Typed
  <2>6. \A u \in Task : pc[u] # "init" /\ (pc["stop"] = "idle" /\ u # t => pc[u] \notin Reconnecting)
    <3>1. \A u \in Task : pc[u] # "init"
      BY <1>4, <1>6, Nobody
    <3>2. CASE pc[t] \in {"asleep", "deinit"}
      BY <3>1, <3>2 DEF LInv, ReconnectAlone
    <3>3. CASE pc[t] = "idle" /\ state = "INITIALIZED"
      BY <3>3, Nobody
    <3> QED  BY <3>1, <3>2, <3>3
  <2>7. InitAlone' /\ ReconnectAlone'
    BY <2>1, <2>2, <2>6 DEF InitAlone, ReconnectAlone, Reconnecting
  <2>8. NoInvalidTransition' /\ ConnectedIsTolerant'
    BY <2>1, <2>2 DEF LInv, NoInvalidTransition, ConnectedIsTolerant
  <2> QED  BY <1>2, <2>4, <2>5, <2>7, <2>8 DEF LInv
<1> QED  BY <1>5, <1>6

LEMMA StartClientKeeps == ASSUME LInv, NEW t \in Task, StartClient(t) PROVE LInv'
<1>1. state = "INITIALIZED" /\ pc[t] = "idle" /\ InitProxy(t, <<state, "CONNECTING">>, rpc)
  BY DEF StartClient
<1>2. rpc \in Seq(Requests) /\ Awaited(rpc, pc) /\ \A j \in DOMAIN rpc : rpc[j].who # t
  BY <1>1 DEF LInv, Typed, Awaited
<1> QED  BY <1>1, <1>2, InitProxyKeeps

LEMMA WakeKeeps == ASSUME LInv, NEW t \in Task, Wake(t) PROVE LInv'
<1>1. pc[t] = "asleep"
  BY DEF Wake
<1>2. rpc \in Seq(Requests) /\ Awaited(rpc, pc) /\ \A j \in DOMAIN rpc : rpc[j].who # t
  BY <1>1 DEF LInv, Typed, Awaited
<1>3. CASE \/ InitProxy(t, <<state, "CONNECTING">>, rpc)
           \/ InitProxy(t, <<state, "DISCONNECTED", "CONNECTING">>, rpc)
  BY <1>1, <1>2, <1>3, InitProxyKeeps
<1>4. CASE /\ pc' = [pc EXCEPT ![t] = "deinit"]
           /\ rpc' = Append(rpc, Request(t, "deinit"))
           /\ UNCHANGED <<state, newer, errors, forced, events, raised>>
  <2> DEFINE r == Request(t, "deinit")
  <2>1. /\ pc' \in [Actor -> Points] /\ pc'["stop"] = pc["stop"] /\ pc'[t] = "deinit"
        /\ \A u \in Task : u # t => pc'[u] = pc[u]
    BY <1>4, Actors DEF LInv, Typed, Points
  <2>2. r \in Requests /\ r.who = t /\ r.kind = "deinit"
    BY RequestTyped, Actors DEF Kinds
  <2>3. rpc' = Append(rpc, r)
    BY <1>4
  <2> HIDE DEF r
  <2>4. Awaited(rpc', pc') /\ rpc' \in Seq(Requests)
    <3>1. /\ \A j \in DOMAIN rpc : rpc[j].who # r.who
          /\ \A u \in Task : u # r.who => pc'[u] = pc[u]
          /\ r.who \in Task /\ pc'[r.who] = "deinit" /\ r.kind # "init"
      BY <1>2, <2>1, <2>2
    <3>2. Awaited(Append(rpc, r), pc') /\ Append(rpc, r) \in Seq(Requests)
      BY <1>2, <2>2, <3>1, AwaitedAppend
    <3> QED  BY <2>3, <3>2
  <2>5. Typed'
    BY <1>4, <2>1, <2>4 DEF LInv, Typed
  <2>6. InitAlone' /\ ReconnectAlone'
    BY <1>1, <1>4, <2>1 DEF LInv, InitAlone, ReconnectAlone, Reconnecting
  <2>7. Follows(events', state', forced') /\ NoInvalidTransition' /\ ConnectedIsTolerant'
    BY <1>4, <2>1 DEF LInv, NoInvalidTransition, ConnectedIsTolerant
  <2> QED  BY <2>4, <2>5, <2>6, <2>7 DEF LInv
<1> QED  BY <1>3, <1>4 DEF Wake

LEMMA DeinitEndsKeeps == ASSUME LInv, NEW i \in DOMAIN rpc, NEW ok, DeinitEnds(i, ok) PROVE LInv'
<1> DEFINE t == rpc[i].who
           path == IF ok THEN <<state, "DISCONNECTED", "CONNECTING">> ELSE <<state, "CONNECTING">>
<1>1. t \in Task /\ pc[t] = "deinit" /\ InitProxy(t, path, Rest(i))
  BY DEF DeinitEnds
<1>2. path = <<state, "CONNECTING">> \/ path = <<state, "DISCONNECTED", "CONNECTING">>
  OBVIOUS
<1>3. /\ Rest(i) \in Seq(Requests) /\ Awaited(Rest(i), pc)
      /\ \A j \in DOMAIN Rest(i) : Rest(i)[j].who # t
  BY <1>1, AwaitedRest DEF LInv, Typed
<1> HIDE DEF t, path
<1> DEFINE queue == Rest(i)
<1>4. /\ queue \in Seq(Requests) /\ Awaited(queue, pc) /\ \A j \in DOMAIN queue : queue[j].who # t
      /\ InitProxy(t, path, queue)
  BY <1>1, <1>3
<1> HIDE DEF queue
<1> QED  BY <1>1, <1>2, <1>4, InitProxyKeeps

\* A task that leaves init_proxy was the only one there, and the client was CONNECTING.
LEMMA InitEndsKeeps == ASSUME LInv, NEW i \in DOMAIN rpc, NEW ok, InitEnds(i, ok) PROVE LInv'
<1> DEFINE t == rpc[i].who
           good == ok \/ (rpc[i].kind = "init" /\ newer)
           next == IF good THEN "CONNECTED" ELSE "FAILED"
<1>1. /\ t \in Task /\ pc[t] = "init" /\ TransitionTo(<<state, next>>)
      /\ Arrive(t, <<state, next>>, "idle") /\ errors' = (IF good THEN 0 ELSE errors)
      /\ forced' = (forced \/ ~good) /\ rpc' = Rest(i)
  BY DEF InitEnds
<1>2. state = "CONNECTING" /\ \A u \in Task : pc[u] = "init" => u = t
  BY <1>1 DEF LInv, InitAlone
<1>3. next \in States /\ Valid(state, next) /\ (next = "CONNECTED" => good) /\ (~good => next = "FAILED")
  BY <1>2 DEF States, Valid, VALID_TRANSITIONS
<1> HIDE DEF next
<1>4. state' = next /\ ~Blocked(<<state, next>>)
  <2>1. state \in States /\ Length(<<state, next>>) = 2 /\ ~Blocked(<<state, next>>)
    BY <1>3, Path2 DEF LInv, Typed
  <2> QED  BY <1>1, <2>1 DEF TransitionTo
<1>5. (forced' <=> forced) \/ (state' # "CONNECTED" /\ (forced => forced'))
  <2>1. CASE good
    BY <1>1, <2>1
  <2>2. CASE ~good
    BY <1>1, <1>3, <1>4, <2>2
  <2> QED  BY <2>1, <2>2
<1>6. state' \in States /\ events' \in Seq(States \X States) /\ Follows(events', state', forced')
  BY <1>1, <1>3, <1>5, Step2
<1>7. pc' = [pc EXCEPT ![t] = "idle"] /\ UNCHANGED raised
  BY <1>1, <1>4, Actors DEF Arrive
<1> HIDE DEF good
<1>8. /\ pc' \in [Actor -> Points] /\ pc'["stop"] = pc["stop"] /\ pc'[t] = "idle"
      /\ \A u \in Task : u # t => pc'[u] = pc[u]
  BY <1>1, <1>7, Actors DEF LInv, Typed, Points
<1>9. Awaited(rpc', pc') /\ rpc' \in Seq(Requests)
  BY <1>1, <1>8, AwaitedRest DEF LInv, Typed
<1>10. errors' \in 0 .. (ErrorThreshold + 1) /\ (state' = "CONNECTED" => errors' <= ErrorThreshold)
  BY <1>1, <1>3, <1>4, LifecycleAssumption DEF LInv, Typed
<1>11. \A u \in Task : pc'[u] # "init" /\ (pc'["stop"] = "idle" => pc'[u] \notin Reconnecting)
  BY <1>2, <1>8 DEF LInv, ReconnectAlone, Reconnecting
<1> HIDE DEF t
<1> QED  BY <1>6, <1>7, <1>8, <1>9, <1>10, <1>11, Shifts DEF Reconnecting

LEMMA CheckedKeeps == ASSUME LInv, NEW i \in DOMAIN rpc, NEW ok, Checked(i, ok) PROVE LInv'
<1> DEFINE count == IF ok THEN 0 ELSE Min({errors + 1, ErrorThreshold + 1})
           lost == count > ErrorThreshold
<1>1. /\ rpc[i].who = "check" /\ errors' = count /\ forced' = (forced \/ lost)
      /\ TransitionTo(IF lost /\ state = "CONNECTED" THEN <<state, "DISCONNECTED">> ELSE <<state>>)
      /\ pc' = [pc EXCEPT !["check"] = "idle"] /\ rpc' = Rest(i) /\ UNCHANGED raised
  BY DEF Checked, Disconnects
<1>2. count \in 0 .. (ErrorThreshold + 1)
  <2>1. errors + 1 \in Int /\ ErrorThreshold \in Nat /\ errors \in 0 .. (ErrorThreshold + 1)
    BY LifecycleAssumption DEF LInv, Typed
  <2>2. Min({errors + 1, ErrorThreshold + 1}) \in {errors + 1, ErrorThreshold + 1}
        /\ Min({errors + 1, ErrorThreshold + 1}) <= ErrorThreshold + 1
    <3> DEFINE S == {errors + 1, ErrorThreshold + 1}
    <3>1. \E x \in S : \A y \in S : x <= y
      BY <2>1
    <3>2. Min(S) \in S /\ \A y \in S : Min(S) <= y
      BY <3>1 DEF Min
    <3> QED  BY <3>2
  <2> QED  BY <2>1, <2>2
<1> HIDE DEF count
<1>3. /\ pc' \in [Actor -> Points] /\ pc'["stop"] = pc["stop"] /\ \A u \in Task : pc'[u] = pc[u]
  BY <1>1, Actors DEF LInv, Typed, Points
<1>4. Awaited(rpc', pc') /\ rpc' \in Seq(Requests)
  BY <1>1, <1>3, AwaitedRest DEF LInv, Typed
<1>5. CASE lost /\ state = "CONNECTED"
  <2>1. TransitionTo(<<state, "DISCONNECTED">>) /\ Valid(state, "DISCONNECTED") /\ "DISCONNECTED" \in States
    BY <1>1, <1>5 DEF Valid, VALID_TRANSITIONS, States
  <2>2. state' = "DISCONNECTED"
    <3>1. state \in States /\ Length(<<state, "DISCONNECTED">>) = 2
      BY <2>1, Path2 DEF LInv, Typed
    <3> QED  BY <2>1, <3>1 DEF TransitionTo
  <2>3. (forced' <=> forced) \/ (state' # "CONNECTED" /\ (forced => forced'))
    BY <1>1, <2>2
  <2>4. state' \in States /\ events' \in Seq(States \X States) /\ Follows(events', state', forced')
    BY <2>1, <2>3, Step2
  <2>5. \A u \in Task : pc'[u] # "init" /\ (pc'["stop"] = "idle" => pc'[u] \notin Reconnecting)
    BY <1>3, <1>5, Nobody
  <2> QED  BY <1>1, <1>2, <1>3, <1>4, <2>2, <2>4, <2>5, Shifts
<1>6. CASE ~(lost /\ state = "CONNECTED")
  <2>1. TransitionTo(<<state>>)
    BY <1>1, <1>6
  <2>2. state' = state /\ events' = events
    BY <2>1, Step1
  <2>3. Follows(events', state', forced')
    BY <1>1, <1>6, <2>2 DEF LInv, Follows
  <2>4. state' = "CONNECTED" => errors' <= ErrorThreshold
    BY <1>1, <1>2, <1>6, <2>2, LifecycleAssumption
  <2>5. state' \in States /\ events' \in Seq(States \X States)
    BY <2>2 DEF LInv, Typed
  <2> QED  BY <1>1, <1>2, <1>3, <1>4, <2>2, <2>3, <2>4, <2>5, Shifts
<1> QED  BY <1>5, <1>6

\* What stop_clients() asks for takes nobody's CONNECTING away.
LEMMA StopMoves ==
    ASSUME LInv, NEW b \in {"DISCONNECTED", "STOPPING", "STOPPED"}, TransitionTo(<<state, b>>),
           UNCHANGED <<errors, forced>>, pc' \in [Actor -> Points], pc'["stop"] # "idle",
           \A t \in Task : pc'[t] = pc[t], rpc' \in Seq(Requests), Awaited(rpc', pc')
    PROVE  LInv'
<1>1. b \in States /\ b # "CONNECTED" /\ (Valid(state, b) => state # "CONNECTING")
  BY DEF States, Valid, VALID_TRANSITIONS
<1>2. /\ state' \in States /\ events' \in Seq(States \X States) /\ Follows(events', state', forced')
      /\ Valid(state, b) => state' = b
      /\ ~Valid(state, b) => state' = state
  BY <1>1, Step2
<1>3. state' # state => \A t \in Task : pc'[t] # "init"
  BY <1>1, <1>2, Nobody
<1>4. state' = "CONNECTED" => errors' <= ErrorThreshold
  BY <1>1, <1>2 DEF LInv, ConnectedIsTolerant
<1>5. errors' \in 0 .. (ErrorThreshold + 1)
  BY DEF LInv, Typed
<1> QED  BY <1>2, <1>3, <1>4, <1>5, Shifts

LEMMA StopClientKeeps == ASSUME LInv, StopClient \/ StopEnds PROVE LInv'
<1>1. PICK b \in {"STOPPING", "STOPPED"}, p \in {"stopping", "ended"} :
          /\ TransitionTo(<<state, b>>) /\ Arrive("stop", <<state, b>>, p)
          /\ UNCHANGED <<errors, forced, rpc>>
  BY DEF StopClient, StopEnds
<1>2. PICK q \in {"stopping", "ended"} : pc' = [pc EXCEPT !["stop"] = q]
  BY <1>1 DEF Arrive
<1>3. pc' \in [Actor -> Points] /\ pc'["stop"] # "idle" /\ \A t \in Task : pc'[t] = pc[t]
  BY <1>2, Actors DEF LInv, Typed, Points
<1>4. rpc' \in Seq(Requests) /\ Awaited(rpc', pc')
  <2>1. Awaited(rpc, pc')
    BY <1>3 DEF LInv, Awaited
  <2> QED  BY <1>1, <2>1 DEF LInv, Typed
<1> QED  BY <1>1, <1>3, <1>4, StopMoves

LEMMA StopClientsKeeps == ASSUME LInv, StopClients PROVE LInv'
<1>1. UNCHANGED <<errors, forced>>
  BY DEF StopClients
<1>2. PICK q \in {"ended", "released", "deinit"} :
          pc' = [pc EXCEPT !["check"] = "idle", !["stop"] = q]
  BY DEF StopClients
<1>3. pc' \in [Actor -> Points] /\ pc'["stop"] # "idle" /\ \A t \in Task : pc'[t] = pc[t]
  BY <1>2, Actors DEF LInv, Typed, Points
<1>4. Awaited(rpc, pc') /\ rpc \in Seq(Requests)
  BY <1>3 DEF LInv, Awaited, Typed
<1>5. CASE TransitionTo(<<state, "DISCONNECTED">>) /\ UNCHANGED rpc
  BY <1>1, <1>3, <1>4, <1>5, StopMoves
<1>6. CASE UNCHANGED <<state, events, rpc>>
  BY <1>1, <1>3, <1>4, <1>6, AsideMoves
<1>7. CASE rpc' = Append(rpc, Request("stop", "deinit")) /\ UNCHANGED <<state, events>>
  <2> DEFINE r == Request("stop", "deinit")
  <2>1. r \in Requests /\ r.who = "stop" /\ r.kind = "deinit"
    BY RequestTyped, Actors DEF Kinds
  <2>2. rpc' = Append(rpc, r)
    BY <1>7
  <2> HIDE DEF r
  <2>3. r.who \notin Task /\ r.kind # "init"
    BY <2>1, Actors
  <2>4. Awaited(Append(rpc, r), pc') /\ Append(rpc, r) \in Seq(Requests)
    BY <1>3, <1>4, <2>1, <2>3, AwaitedOther DEF LInv
  <2> QED  BY <1>1, <1>3, <1>7, <2>2, <2>4, AsideMoves
<1> QED  BY <1>5, <1>6, <1>7 DEF StopClients

LEMMA StopDeinitEndsKeeps ==
    ASSUME LInv, NEW i \in DOMAIN rpc, NEW ok, StopDeinitEnds(i, ok) PROVE LInv'
<1> DEFINE path == IF ok THEN <<state, "DISCONNECTED">> ELSE <<state>>
<1>1. /\ rpc[i].who = "stop" /\ TransitionTo(path) /\ Arrive("stop", path, "released")
      /\ rpc' = Rest(i) /\ UNCHANGED <<errors, forced>>
  BY DEF StopDeinitEnds
<1>2. path = <<state, "DISCONNECTED">> \/ path = <<state>>
  OBVIOUS
<1> HIDE DEF path
<1>3. PICK q \in {"released", "ended"} : pc' = [pc EXCEPT !["stop"] = q]
  BY <1>1 DEF Arrive
<1>4. pc' \in [Actor -> Points] /\ pc'["stop"] # "idle" /\ \A t \in Task : pc'[t] = pc[t]
  BY <1>3, Actors DEF LInv, Typed, Points
<1>5. Awaited(rpc', pc') /\ rpc' \in Seq(Requests)
  BY <1>1, <1>4, AwaitedRest DEF LInv, Typed
<1>6. CASE path = <<state, "DISCONNECTED">>
  BY <1>1, <1>4, <1>5, <1>6, StopMoves
<1>7. CASE path = <<state>>
  <2>1. state' = state /\ events' = events
    BY <1>1, <1>7, Step1
  <2> QED  BY <1>1, <1>4, <1>5, <2>1, AsideMoves
<1> QED  BY <1>2, <1>6, <1>7

-----------------------------------------------------------------------------
(* The theorems. *)

LEMMA LInvNext == LInv /\ [Next]_vars => LInv'
<1> SUFFICES ASSUME LInv, [Next]_vars PROVE LInv'
  OBVIOUS
<1>1. CASE UNCHANGED vars
  BY <1>1, Aside DEF vars, LInv, Typed
<1>2. CASE InitClient \/ CheckConnection \/ OnSystemStatusEvent
  BY <1>2, InitClientKeeps, CheckConnectionKeeps, OnSystemStatusEventKeeps
<1>3. CASE \E t \in Task : StartClient(t) \/ Probe(t) \/ Reconnect(t) \/ Wake(t)
  BY <1>3, StartClientKeeps, ProbeKeeps, ReconnectKeeps, WakeKeeps
<1>4. CASE StopClients \/ StopClient \/ StopEnds
  BY <1>4, StopClientsKeeps, StopClientKeeps
<1>5. CASE CcuServes \/ CcuRestarts \/ Callback
  BY <1>5, CcuKeeps
<1>6. CASE \E i \in DOMAIN rpc, ok \in BOOLEAN :
               \/ Probed(i, ok) \/ Checked(i, ok) \/ Discarded(i, ok)
               \/ DeinitEnds(i, ok) \/ InitEnds(i, ok) \/ StopDeinitEnds(i, ok)
  <2>1. PICK i \in DOMAIN rpc, ok \in BOOLEAN :
               \/ Probed(i, ok) \/ Checked(i, ok) \/ Discarded(i, ok)
               \/ DeinitEnds(i, ok) \/ InitEnds(i, ok) \/ StopDeinitEnds(i, ok)
    BY <1>6
  <2> QED  BY <2>1, ProbedKeeps, CheckedKeeps, DiscardedKeeps, DeinitEndsKeeps, InitEndsKeeps,
              StopDeinitEndsKeeps
<1> QED  BY <1>1, <1>2, <1>3, <1>4, <1>5, <1>6 DEF Next

LEMMA LInvHolds == Spec => []LInv
BY LInvInit, LInvNext, PTL DEF Spec

\* No interleaving of reconnects, checks and answers asks for a transition the table
\* forbids before the client is stopped: a task at its backoff, at deinit or at init is
\* alone there and finds the state it left (reconnect, reinit_proxy, init_proxy).
THEOREM TransitionsValid == Spec => []NoInvalidTransition
<1>1. LInv => NoInvalidTransition
  BY DEF LInv
<1> QED  BY <1>1, LInvHolds, PTL

\* Once the central has handled every state change, the devices are available if the
\* client is connected and unavailable if it is disconnected or failed: the last change
\* under way always ends in the client's state (_on_system_status_event).
THEOREM DevicesFollow == Spec => []DevicesFollowClient
<1>1. LInv => DevicesFollowClient
  BY DEF LInv, Follows, DevicesFollowClient
<1> QED  BY <1>1, LInvHolds, PTL

\* A client comes back with its whole error budget (is_connected, reconnect).
THEOREM ConnectedTolerant == Spec => []ConnectedIsTolerant
<1>1. LInv => ConnectedIsTolerant
  BY DEF LInv
<1> QED  BY <1>1, LInvHolds, PTL

\* A registration on its way belongs to a task inside init_proxy, and nobody takes the
\* client from CONNECTING to STOPPING meanwhile (stop, init_proxy).
THEOREM StoppingRegistersNothing == Spec => StoppingNeverRegisters
<1> DEFINE A == (state \in {"STOPPING", "STOPPED"} /\ ~registered) => ~(registered')
<1>1. LInv /\ [Next]_vars => [A]_vars
  <2> SUFFICES ASSUME LInv, Next, state \in {"STOPPING", "STOPPED"}, ~registered, registered'
               PROVE  FALSE
    OBVIOUS
  <2>1. CASE CcuServes
    <3>1. rpc # <<>> /\ rpc[1].kind = "init"
      BY <2>1 DEF CcuServes
    <3>2. 1 \in DOMAIN rpc
      BY <3>1 DEF LInv, Typed
    <3> QED  BY <3>1, <3>2 DEF LInv, Awaited, InitAlone
  <2>2. CASE CcuRestarts
    BY <2>2 DEF CcuRestarts
  <2>3. CASE ~CcuServes /\ ~CcuRestarts
    <3>1. ASSUME NEW t \in Task, StartClient(t) \/ Probe(t) \/ Reconnect(t) \/ Wake(t)
          PROVE  registered' = registered
      BY <3>1 DEF StartClient, Probe, Reconnect, Wake
    <3>2. ASSUME InitClient \/ CheckConnection \/ StopClients \/ StopClient \/ StopEnds
                 \/ Callback \/ OnSystemStatusEvent
          PROVE  registered' = registered
      BY <3>2 DEF InitClient, CheckConnection, StopClients, StopClient, StopEnds, Callback,
                  OnSystemStatusEvent
    <3>3. ASSUME NEW i \in DOMAIN rpc, NEW ok \in BOOLEAN,
                 \/ Probed(i, ok) \/ Checked(i, ok) \/ Discarded(i, ok)
                 \/ DeinitEnds(i, ok) \/ InitEnds(i, ok) \/ StopDeinitEnds(i, ok)
          PROVE  registered' = registered
      BY <3>3 DEF Probed, Checked, Discarded, DeinitEnds, InitEnds, StopDeinitEnds
    <3> QED  BY <2>3, <3>1, <3>2, <3>3 DEF Next
  <2> QED  BY <2>1, <2>2, <2>3
<1>2. StoppingNeverRegisters <=> [][A]_vars
  BY DEF StoppingNeverRegisters
<1> QED  BY <1>1, <1>2, LInvHolds, PTL DEF Spec

-----------------------------------------------------------------------------
(* Until it is stopped, the client implements ClientContract.  A step is read *)
(* off the invariant it leads to: who ends inside init_proxy has made the     *)
(* client CONNECTING, who ends at the backoff has made it RECONNECTING.       *)

\* The tasks inside reconnect() or the first connection.
Inside == {t \in Task : pc[t] \in Reconnecting}

\* No step takes a stop back.
LEMMA StopsForGood ==
    ASSUME LInv, [Next]_vars, pc["stop"] # "idle" PROVE pc'["stop"] # "idle"
<1>t. pc \in [Actor -> Points]
  BY DEF LInv, Typed
<1>1. ASSUME NEW t \in Task, NEW path, NEW queue, InitProxy(t, path, queue)
      PROVE  pc'["stop"] = pc["stop"]
  BY <1>t, <1>1, Actors DEF InitProxy, Arrive
<1>2. ASSUME NEW t \in Task, StartClient(t) \/ Probe(t) \/ Reconnect(t) \/ Wake(t)
      PROVE  pc'["stop"] = pc["stop"]
  <2>1. CASE StartClient(t)
    BY <1>1, <2>1 DEF StartClient
  <2>2. CASE Probe(t)
    BY <1>t, <2>2, Actors DEF Probe
  <2>3. CASE Reconnect(t)
    BY <1>t, <2>3, Actors DEF Reconnect, Arrive
  <2>4. CASE Wake(t)
    BY <1>t, <1>1, <2>4, Actors DEF Wake
  <2> QED  BY <1>2, <2>1, <2>2, <2>3, <2>4
<1>3. CASE InitClient \/ CheckConnection \/ CcuServes \/ CcuRestarts \/ Callback \/ OnSystemStatusEvent
  BY <1>t, <1>3, Actors
     DEF InitClient, CheckConnection, CcuServes, CcuRestarts, Callback, OnSystemStatusEvent
<1>4. CASE StopClients \/ StopClient \/ StopEnds
  BY <1>t, <1>4, Actors DEF StopClients, StopClient, StopEnds, Arrive
<1>5. ASSUME NEW i \in DOMAIN rpc, NEW ok \in BOOLEAN,
             Probed(i, ok) \/ Checked(i, ok) \/ Discarded(i, ok)
      PROVE  pc'["stop"] = pc["stop"]
  BY <1>t, <1>5, Actors DEF Probed, Checked, Discarded
<1>6. ASSUME NEW i \in DOMAIN rpc, NEW ok \in BOOLEAN, DeinitEnds(i, ok) \/ InitEnds(i, ok)
      PROVE  pc'["stop"] = pc["stop"]
  <2>1. CASE DeinitEnds(i, ok)
    BY <1>1, <2>1 DEF DeinitEnds
  <2>2. CASE InitEnds(i, ok)
    BY <1>t, <2>2, Actors DEF InitEnds, Arrive
  <2> QED  BY <1>6, <2>1, <2>2
<1>7. ASSUME NEW i \in DOMAIN rpc, NEW ok \in BOOLEAN, StopDeinitEnds(i, ok)
      PROVE  pc'["stop"] # "idle"
  BY <1>t, <1>7, Actors DEF StopDeinitEnds, Arrive
<1>8. CASE UNCHANGED vars
  BY <1>8 DEF vars
<1> QED  BY <1>2, <1>3, <1>4, <1>5, <1>6, <1>7, <1>8 DEF Next

\* Who is inside tells the state, until the client is stopped.
LEMMA InsideTells ==
    ASSUME LInv, pc["stop"] = "idle"
    PROVE  /\ state \notin {"CONNECTING", "RECONNECTING"} => Inside = {}
           /\ \A t \in Task : pc[t] \in Reconnecting =>
                 /\ Inside = {t}
                 /\ pc[t] = "init" => state = "CONNECTING"
                 /\ pc[t] # "init" => state = "RECONNECTING"
<1>1. \A t \in Task : /\ pc[t] = "init" => state = "CONNECTING"
                      /\ pc[t] \in Reconnecting /\ pc[t] # "init" => state = "RECONNECTING"
  BY DEF LInv, InitAlone, ReconnectAlone, Reconnecting
<1>2. ASSUME NEW t \in Task, NEW u \in Task, pc[t] \in Reconnecting, pc[u] \in Reconnecting
      PROVE  t = u
  <2>1. CASE pc[t] = "init" /\ pc[u] = "init"
    BY <2>1 DEF LInv, InitAlone
  <2>2. CASE pc[t] # "init" \/ pc[u] # "init"
    BY <1>2, <2>2 DEF LInv, ReconnectAlone, Reconnecting
  <2> QED  BY <2>1, <2>2
<1> QED  BY <1>1, <1>2 DEF Inside, Reconnecting

\* The actors that move on elsewhere leave the contract's client alone.
LEMMA Elsewhere ==
    ASSUME pc["stop"] = "idle", pc'["stop"] = "idle", state' = state,
           \A t \in Task : pc'[t] \in Reconnecting <=> pc[t] \in Reconnecting
    PROVE  UNCHANGED Contract!contractVars
BY DEF Contract!contractVars, Reconnecting

LEMMA CreatedStep ==
    ASSUME LInv, InitClient, pc["stop"] = "idle" PROVE Contract!Created
<1> DEFINE path == <<state, "INITIALIZING", "INITIALIZED">>
<1>1. state = "CREATED" /\ TransitionTo(path) /\ UNCHANGED pc
  BY DEF InitClient
<1>2. /\ state \in States /\ "INITIALIZING" \in States /\ "INITIALIZED" \in States
      /\ Valid(state, "INITIALIZING") /\ Valid("INITIALIZING", "INITIALIZED")
  BY <1>1 DEF States, Valid, VALID_TRANSITIONS
<1>3. path[3] = "INITIALIZED" /\ Length(path) = 3
  BY <1>2, Path3
<1> HIDE DEF path
<1>4. state' = "INITIALIZED"
  BY <1>1, <1>3 DEF TransitionTo
<1>5. Inside = {}
  BY <1>1, InsideTells
<1> QED  BY <1>1, <1>4, <1>5 DEF Contract!Created, Inside, Reconnecting

LEMMA ReconnectsStep ==
    ASSUME LInv, LInv', NEW t \in Task, Reconnect(t), pc["stop"] = "idle", pc'["stop"] = "idle"
    PROVE  Contract!Reconnects(t)
<1> DEFINE path == IF state = "INITIALIZED" THEN <<state, "DISCONNECTED">> ELSE <<state>>
           whole == Append(path, "RECONNECTING")
<1>1. pc[t] = "idle" /\ state # "CREATED" /\ CanReconnect(path[Len(path)]) /\ Arrive(t, whole, "asleep")
  BY DEF Reconnect
<1>2. state \in {"INITIALIZED", "CONNECTED", "DISCONNECTED", "FAILED"}
  <2>1. state # "INITIALIZED" => path = <<state>> /\ path[Len(path)] = state
    OBVIOUS
  <2>2. state \in States
    BY DEF LInv, Typed
  <2>3. CASE state # "INITIALIZED"
    BY <1>1, <2>1, <2>2, <2>3 DEF CanReconnect, VALID_TRANSITIONS, States
  <2> QED  BY <2>3
<1> HIDE DEF path, whole
<1>3. pc' = [pc EXCEPT ![t] = "asleep"]
  BY <1>1, Actors DEF Arrive, LInv, NoInvalidTransition
<1>4. pc'[t] = "asleep" /\ \A u \in Task : u # t => pc'[u] = pc[u]
  BY <1>3, Actors DEF LInv, Typed
<1>5. state' = "RECONNECTING"
  BY <1>4 DEF LInv, ReconnectAlone
<1>6. Inside = {} /\ Inside' = {t}
  <2>1. Inside = {}
    BY <1>2, InsideTells
  <2> QED  BY <1>4, <2>1 DEF Inside, Reconnecting
<1> QED  BY <1>2, <1>5, <1>6 DEF Contract!Reconnects, Inside, Reconnecting

\* init_proxy is let in and makes the client CONNECTING.
LEMMA InitProxyStep ==
    ASSUME LInv, LInv', NEW t \in Task, NEW path, NEW queue, InitProxy(t, path, queue),
           pc["stop"] = "idle", pc'["stop"] = "idle",
           \/ pc[t] = "idle" /\ state = "INITIALIZED"
           \/ pc[t] \in {"asleep", "deinit"}
    PROVE  Contract!Connects(t) \/ Contract!Reinitialises(t)
<1>1. pc' = [pc EXCEPT ![t] = "init"]
  BY Actors DEF InitProxy, Arrive, LInv, NoInvalidTransition
<1>2. pc'[t] = "init" /\ \A u \in Task : u # t => pc'[u] = pc[u]
  BY <1>1, Actors DEF LInv, Typed
<1>3. state' = "CONNECTING"
  BY <1>2 DEF LInv, InitAlone
<1>4. CASE pc[t] = "idle" /\ state = "INITIALIZED"
  <2>1. Inside = {}
    BY <1>4, InsideTells
  <2>2. Inside' = {t}
    BY <1>2, <2>1 DEF Inside, Reconnecting
  <2> QED  BY <1>3, <1>4, <2>1, <2>2 DEF Contract!Connects, Inside, Reconnecting
<1>5. CASE pc[t] \in {"asleep", "deinit"}
  <2>1. Inside = {t} /\ state = "RECONNECTING"
    BY <1>5, InsideTells DEF Reconnecting
  <2>2. Inside' = {t}
    BY <1>2, <2>1 DEF Inside, Reconnecting
  <2> QED  BY <1>3, <2>1, <2>2 DEF Contract!Reinitialises, Inside, Reconnecting
<1> QED  BY <1>4, <1>5

LEMMA SettlesStep ==
    ASSUME LInv, NEW i \in DOMAIN rpc, NEW ok, InitEnds(i, ok), pc["stop"] = "idle",
           pc'["stop"] = "idle"
    PROVE  \E t \in Task : Contract!Settles(t)
<1> DEFINE good == ok \/ (rpc[i].kind = "init" /\ newer)
           next == IF good THEN "CONNECTED" ELSE "FAILED"
<1>1. PICK t \in Task : t = rpc[i].who
  BY DEF InitEnds
<1>2. pc[t] = "init" /\ TransitionTo(<<state, next>>) /\ Arrive(t, <<state, next>>, "idle")
  BY <1>1 DEF InitEnds
<1>3. next \in {"CONNECTED", "FAILED"}
  OBVIOUS
<1> HIDE DEF next
<1>4. state = "CONNECTING" /\ Inside = {t}
  BY <1>2, InsideTells DEF Reconnecting
<1>5. state' = next /\ ~Blocked(<<state, next>>)
  <2>1. state \in States /\ next \in States /\ Valid(state, next)
    BY <1>3, <1>4 DEF States, Valid, VALID_TRANSITIONS
  <2>2. Length(<<state, next>>) = 2 /\ ~Blocked(<<state, next>>)
    BY <2>1, Path2
  <2> QED  BY <1>2, <2>2 DEF TransitionTo
<1>6. pc'[t] = "idle" /\ \A u \in Task : u # t => pc'[u] = pc[u]
  BY <1>2, <1>5, Actors DEF Arrive, LInv, Typed
<1>7. Inside' = {}
  BY <1>4, <1>6 DEF Inside, Reconnecting
<1> QED  BY <1>3, <1>4, <1>5, <1>7 DEF Contract!Settles, Inside, Reconnecting

LEMMA CheckedStep ==
    ASSUME LInv, NEW i \in DOMAIN rpc, NEW ok, Checked(i, ok), pc["stop"] = "idle",
           pc'["stop"] = "idle"
    PROVE  Contract!Disconnected \/ UNCHANGED Contract!contractVars
<1> DEFINE count == IF ok THEN 0 ELSE Min({errors + 1, ErrorThreshold + 1})
           lost == count > ErrorThreshold
<1>1. /\ TransitionTo(IF lost /\ state = "CONNECTED" THEN <<state, "DISCONNECTED">> ELSE <<state>>)
      /\ pc' = [pc EXCEPT !["check"] = "idle"]
  BY DEF Checked, Disconnects
<1> HIDE DEF lost
<1>2. \A u \in Task : pc'[u] = pc[u]
  BY <1>1, Actors DEF LInv, Typed
<1>3. CASE lost /\ state = "CONNECTED"
  <2>1. TransitionTo(<<state, "DISCONNECTED">>) /\ Valid(state, "DISCONNECTED")
        /\ state \in States /\ "DISCONNECTED" \in States
    BY <1>1, <1>3 DEF Valid, VALID_TRANSITIONS, States
  <2>2. state' = "DISCONNECTED"
    BY <2>1, Path2 DEF TransitionTo
  <2>3. Inside = {} /\ Inside' = {}
    <3>1. Inside = {}
      BY <1>3, InsideTells
    <3> QED  BY <1>2, <3>1 DEF Inside
  <2> QED  BY <1>3, <2>2, <2>3 DEF Contract!Disconnected, Inside, Reconnecting
<1>4. CASE ~(lost /\ state = "CONNECTED")
  <2>1. state' = state
    BY <1>1, <1>4, Step1
  <2> QED  BY <1>2, <2>1, Elsewhere
<1> QED  BY <1>3, <1>4

\* The steps that only move an actor on elsewhere, or nobody.
LEMMA AsideStep ==
    ASSUME LInv, pc["stop"] = "idle", pc'["stop"] = "idle",
           \/ CheckConnection \/ CcuServes \/ CcuRestarts \/ Callback \/ OnSystemStatusEvent
           \/ UNCHANGED vars
           \/ \E t \in Task : Probe(t)
           \/ \E i \in DOMAIN rpc, ok \in BOOLEAN : Probed(i, ok) \/ Discarded(i, ok)
    PROVE  UNCHANGED Contract!contractVars
<1>t. pc \in [Actor -> Points]
  BY DEF LInv, Typed
<1>1. CASE CcuServes \/ CcuRestarts \/ Callback \/ OnSystemStatusEvent \/ UNCHANGED vars
  <2>1. UNCHANGED <<state, pc>>
    BY <1>1 DEF CcuServes, CcuRestarts, Callback, OnSystemStatusEvent, clientVars, vars
  <2> QED  BY <2>1, Elsewhere
<1>2. CASE CheckConnection
  <2>1. state' = state /\ \A u \in Task : pc'[u] = pc[u]
    BY <1>t, <1>2, Actors DEF CheckConnection
  <2> QED  BY <2>1, Elsewhere
<1>3. ASSUME NEW t \in Task, Probe(t) PROVE UNCHANGED Contract!contractVars
  <2>1. state' = state /\ \A u \in Task : pc'[u] \in Reconnecting <=> pc[u] \in Reconnecting
    BY <1>t, <1>3, Actors DEF Probe, Reconnecting
  <2> QED  BY <2>1, Elsewhere
<1>4. ASSUME NEW i \in DOMAIN rpc, NEW ok \in BOOLEAN, Probed(i, ok) \/ Discarded(i, ok)
      PROVE  UNCHANGED Contract!contractVars
  <2>1. state' = state /\ \A u \in Task : pc'[u] \in Reconnecting <=> pc[u] \in Reconnecting
    BY <1>t, <1>4, Actors DEF Probed, Discarded, clientVars, Reconnecting
  <2> QED  BY <2>1, Elsewhere
<1> QED  BY <1>1, <1>2, <1>3, <1>4

\* A task that begins, wakes up or gets its answer inside reconnect().
LEMMA WakeStep ==
    ASSUME LInv, LInv', NEW t \in Task, StartClient(t) \/ Wake(t), pc["stop"] = "idle",
           pc'["stop"] = "idle"
    PROVE  Contract!ContractNext \/ UNCHANGED Contract!contractVars
<1>1. CASE StartClient(t)
  <2>1. Contract!Connects(t) \/ Contract!Reinitialises(t)
    BY <1>1, InitProxyStep DEF StartClient
  <2> QED  BY <2>1 DEF Contract!ContractNext
<1>2. CASE Wake(t)
  <2>1. pc[t] = "asleep"
    BY <1>2 DEF Wake
  <2>2. CASE pc' = [pc EXCEPT ![t] = "deinit"] /\ UNCHANGED state
    <3>1. \A u \in Task : pc'[u] \in Reconnecting <=> pc[u] \in Reconnecting
      BY <2>1, <2>2, Actors DEF LInv, Typed, Reconnecting
    <3> QED  BY <2>2, <3>1, Elsewhere
  <2>3. ASSUME NEW path, InitProxy(t, path, rpc) PROVE Contract!ContractNext
    <3>1. Contract!Connects(t) \/ Contract!Reinitialises(t)
      BY <2>1, <2>3, InitProxyStep
    <3> QED  BY <3>1 DEF Contract!ContractNext
  <2> QED  BY <1>2, <2>2, <2>3 DEF Wake
<1> QED  BY <1>1, <1>2

LEMMA DeinitEndsStep ==
    ASSUME LInv, LInv', NEW i \in DOMAIN rpc, NEW ok, DeinitEnds(i, ok), pc["stop"] = "idle",
           pc'["stop"] = "idle"
    PROVE  Contract!ContractNext
<1>1. PICK t \in Task : t = rpc[i].who
  BY DEF DeinitEnds
<1>2. PICK path, queue : InitProxy(t, path, queue)
  BY <1>1 DEF DeinitEnds
<1>3. pc[t] = "deinit"
  BY <1>1 DEF DeinitEnds
<1>4. Contract!Connects(t) \/ Contract!Reinitialises(t)
  BY <1>2, <1>3, InitProxyStep
<1> QED  BY <1>4 DEF Contract!ContractNext

LEMMA ClientStep == LInv /\ [Next]_vars => [Contract!ContractNext]_(Contract!contractVars)
<1> SUFFICES ASSUME LInv, [Next]_vars
             PROVE  Contract!ContractNext \/ UNCHANGED Contract!contractVars
  OBVIOUS
<1>0. LInv'
  BY LInvNext
<1>1. CASE pc["stop"] # "idle"
  <2>1. pc'["stop"] # "idle"
    BY <1>1, StopsForGood
  <2> QED  BY <1>1, <2>1 DEF Contract!contractVars
<1>2. CASE pc'["stop"] # "idle"
  <2>1. Contract!Stopped
    BY <1>2 DEF Contract!Stopped
  <2> QED  BY <2>1 DEF Contract!ContractNext
<1>3. CASE pc["stop"] = "idle" /\ pc'["stop"] = "idle"
  <2>1. ASSUME NEW t \in Task, Reconnect(t) PROVE Contract!ContractNext
    BY <1>0, <1>3, <2>1, ReconnectsStep DEF Contract!ContractNext
  <2>2. ASSUME NEW t \in Task, StartClient(t) \/ Wake(t)
        PROVE  Contract!ContractNext \/ UNCHANGED Contract!contractVars
    BY <1>0, <1>3, <2>2, WakeStep
  <2>3. ASSUME NEW i \in DOMAIN rpc, NEW ok \in BOOLEAN,
               Checked(i, ok) \/ DeinitEnds(i, ok) \/ InitEnds(i, ok)
        PROVE  Contract!ContractNext \/ UNCHANGED Contract!contractVars
    <3>1. CASE Checked(i, ok)
      BY <1>3, <3>1, CheckedStep DEF Contract!ContractNext
    <3>2. CASE DeinitEnds(i, ok)
      BY <1>0, <1>3, <3>2, DeinitEndsStep
    <3>3. CASE InitEnds(i, ok)
      <4>1. \E t \in Task : Contract!Settles(t)
        BY <1>3, <3>3, SettlesStep
      <4> QED  BY <4>1 DEF Contract!ContractNext
    <3> QED  BY <2>3, <3>1, <3>2, <3>3
  <2>4. CASE InitClient
    BY <1>3, <2>4, CreatedStep DEF Contract!ContractNext
  <2>5. CASE \/ CheckConnection \/ CcuServes \/ CcuRestarts \/ Callback \/ OnSystemStatusEvent
             \/ UNCHANGED vars
             \/ \E t \in Task : Probe(t)
             \/ \E i \in DOMAIN rpc, ok \in BOOLEAN : Probed(i, ok) \/ Discarded(i, ok)
    BY <1>3, <2>5, AsideStep
  <2>6. ~StopClients /\ ~StopClient /\ ~StopEnds
        /\ \A i \in DOMAIN rpc, ok \in BOOLEAN : ~StopDeinitEnds(i, ok)
    BY <1>3, Actors DEF StopClients, StopClient, StopEnds, StopDeinitEnds, Arrive, LInv, Typed
  <2> QED  BY <2>1, <2>2, <2>3, <2>4, <2>5, <2>6 DEF Next
<1> QED  BY <1>1, <1>2, <1>3

\* Until it is stopped the client does what ClientContract says, and nothing else: for any
\* number of reconnecting tasks one at a time is inside reconnect(), it finds the state it
\* left at every await, and only a connected client is disconnected by the check
\* (reconnect, reinit_proxy, init_proxy, is_connected).
THEOREM LifecycleImplementsClient == Spec => ImplementsClient
<1>1. Init => Contract!ContractInit
  BY Actors DEF Init, Contract!ContractInit
<1>2. Spec => Contract!ContractInit /\ [][Contract!ContractNext]_(Contract!contractVars)
  BY <1>1, LInvHolds, ClientStep, PTL DEF Spec
<1> QED  BY <1>2 DEF ImplementsClient, Contract!ContractSpec
=============================================================================
