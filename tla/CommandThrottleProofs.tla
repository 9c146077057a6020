------------------------ MODULE CommandThrottleProofs ------------------------
(***************************************************************************)
(* Proofs about CommandThrottle for any set of commands and addresses, any *)
(* interval and any burst setting: the invariants, the action properties   *)
(* and that the throttle implements QueueContract.                         *)
(***************************************************************************)
EXTENDS CommandThrottle, FiniteSetTheorems, TLAPS

-----------------------------------------------------------------------------
(* The inductive invariant: besides the properties themselves, what the     *)
(* worker's hand and the heap have to do with each other.                   *)

\* The worker holds a command exactly while it sleeps (or was stopped there).
HandFits ==
    /\ worker \in {"ready", "waiting"} => hand = None
    /\ worker = "sleeping" => hand # None
    /\ hand \notin queue
    /\ stopped => worker = "done"

\* A command that has not been issued has left no trace.
NewIsFresh ==
    \A c \in Command : status[c] = "new" => c \notin queue /\ c # hand /\ inverted[c] = 0

\* Timestamps tell the queued commands apart, and what the worker holds came
\* before the queued commands of its own priority.
Ordered ==
    /\ \A c \in Command : stamp[c] <= arrivals
    /\ \A c, d \in queue : c # d => stamp[c] # stamp[d]
    /\ hand # None => \A c \in queue : priority[c] = priority[hand] => stamp[hand] < stamp[c]

\* A command that was overtaken once is not behind a lower priority any more.
OvertakenOnce ==
    \A c \in queue : inverted[c] = 0 \/ hand = None \/ priority[hand] <= priority[c]

IInv ==
    /\ TypeOK /\ HandFits /\ NewIsFresh /\ Ordered /\ OvertakenOnce
    /\ since <= gap
    /\ NoLostWakeup /\ WaitersHeld /\ AtMostOneInversion

LEMMA InitIInv == Init => IInv
<1> SUFFICES ASSUME Init PROVE IInv
  OBVIOUS
<1>1. TypeOK
  <2>1. since \in 0 .. Interval /\ gap \in 0 .. Interval
    BY ThrottleAssumption DEF Init
  <2>2. /\ status \in [Command -> Statuses] /\ priority \in [Command -> {HIGH, LOW}]
        /\ address \in [Command -> Address \cup {None}]
    BY DEF Init, Statuses
  <2>3. /\ stamp \in [Command -> Nat] /\ arrivals \in Nat /\ inverted \in [Command -> Nat]
        /\ burstAge \in [Command -> (0 .. BurstWindow) \cup {None}]
    BY DEF Init
  <2> QED  BY <2>1, <2>2, <2>3 DEF Init, TypeOK
<1>2. HandFits /\ NewIsFresh
  BY ThrottleAssumption DEF Init, HandFits, NewIsFresh
<1>3. Ordered /\ OvertakenOnce /\ since <= gap
  BY ThrottleAssumption DEF Init, Ordered, OvertakenOnce
<1>4. NoLostWakeup /\ WaitersHeld /\ AtMostOneInversion
  BY DEF Init, NoLostWakeup, WaitersHeld, AtMostOneInversion
<1> QED  BY <1>1, <1>2, <1>3, <1>4 DEF IInv

-----------------------------------------------------------------------------
(* What Fetch and Grant guarantee. *)

\* Fetch takes a least element of q in hand, or goes to sleep on an empty queue.
LEMMA FetchStep ==
    ASSUME IInv, NEW q, q \subseteq queue, NEW event \in BOOLEAN, Fetch(q, event)
    PROVE  /\ queue' \subseteq q /\ q \subseteq queue' \cup {hand'}
           /\ hand' \in q \cup {None} /\ hand' \notin queue'
           /\ worker' \in {"waiting", "sleeping"} /\ available' \in BOOLEAN
           /\ worker' = "waiting" => hand' = None /\ queue' = {}
           /\ worker' = "sleeping" => hand' # None
           /\ hand' # None =>
                \A c \in queue' : /\ priority[hand'] <= priority[c]
                                  /\ priority[c] = priority[hand'] => stamp[hand'] < stamp[c]
<1>t. /\ queue \subseteq Command
      /\ priority \in [Command -> {HIGH, LOW}] /\ stamp \in [Command -> Nat]
      /\ \A c, d \in queue : c # d => stamp[c] # stamp[d]
  BY DEF IInv, TypeOK, Ordered
<1>1. CASE q = {} /\ queue' = {} /\ hand' = None /\ worker' = "waiting" /\ available' = FALSE
  BY <1>1, <1>t, ThrottleAssumption
<1>2. CASE hand' \in First(q) /\ queue' = q \ {hand'} /\ worker' = "sleeping" /\ available' = event
  <2>1. hand' \in q /\ \A d \in q : Before(hand', d)
    BY <1>2 DEF First
  <2>2. hand' # None
    BY <2>1, <1>t, ThrottleAssumption
  <2>3. ASSUME NEW c \in queue'
        PROVE  /\ priority[hand'] <= priority[c]
               /\ priority[c] = priority[hand'] => stamp[hand'] < stamp[c]
    <3>1. c \in Command /\ hand' \in Command /\ c # hand' /\ Before(hand', c)
      BY <1>2, <1>t, <2>1
    <3>2. stamp[c] # stamp[hand'] /\ stamp[c] \in Nat /\ stamp[hand'] \in Nat
      BY <1>2, <1>t, <2>1, <3>1
    <3>3. priority[c] \in Nat /\ priority[hand'] \in Nat
      BY <1>t, <3>1 DEF HIGH, LOW
    <3> QED  BY <3>1, <3>2, <3>3 DEF Before
  <2> QED  BY <1>2, <2>1, <2>2, <2>3
<1> QED  BY <1>1, <1>2 DEF Fetch

\* Grant ends the wait of its command and of no other.
LEMMA GrantStep ==
    ASSUME IInv, NEW c \in Command, Grant(c)
    PROVE  /\ status' \in [Command -> Statuses]
           /\ status'[c] # "waiting"
           /\ \A d \in Command \ {c} : status'[d] = status[d]
           /\ \A d \in Command : status'[d] = "new" => status[d] = "new"
           /\ since' = 0 /\ gap' \in 0 .. Interval
           /\ inverted' \in [Command -> Nat]
           /\ \A d \in Command :
                inverted'[d] = IF /\ status[c] = "waiting" /\ d \in queue \ {c}
                                  /\ priority[d] < priority[c]
                               THEN inverted[d] + 1 ELSE inverted[d]
<1>1. status \in [Command -> Statuses] /\ inverted \in [Command -> Nat] /\ gap \in 0 .. Interval
  BY DEF IInv, TypeOK
<1>2. /\ status' = IF status[c] = "waiting" THEN [status EXCEPT ![c] = "granted"] ELSE status
      /\ gap' = IF status[c] = "waiting" THEN 0 ELSE gap
      /\ since' = 0
      /\ inverted' = [d \in Command |->
                        IF status[c] = "waiting" /\ d \in queue \ {c} /\ priority[d] < priority[c]
                          THEN inverted[d] + 1 ELSE inverted[d]]
  BY DEF Grant
<1>3. /\ status' \in [Command -> Statuses]
      /\ status'[c] # "waiting"
      /\ \A d \in Command \ {c} : status'[d] = status[d]
      /\ \A d \in Command : status'[d] = "new" => status[d] = "new"
  BY <1>1, <1>2 DEF Statuses
<1>4. gap' \in 0 .. Interval
  BY <1>1, <1>2, ThrottleAssumption
<1>5. inverted' \in [Command -> Nat]
  BY <1>1, <1>2
<1> QED  BY <1>2, <1>3, <1>4, <1>5

-----------------------------------------------------------------------------
(* Each action preserves the invariant. *)

\* The worker's step, whichever await it comes from: c, if any, is granted and
\* the next command is fetched from what is left.
LEMMA PassWithoutGrant ==
    ASSUME IInv, NEW event \in BOOLEAN, worker \in {"ready", "waiting"},
           Fetch(queue, event), UNCHANGED <<status, since, gap, inverted>>,
           UNCHANGED <<callVars, stopped>>
    PROVE  IInv'
<1>1. hand = None
  BY DEF IInv, HandFits
<1>2. /\ queue' \subseteq queue /\ queue \subseteq queue' \cup {hand'}
      /\ hand' \in queue \cup {None} /\ hand' \notin queue'
      /\ worker' \in {"waiting", "sleeping"} /\ available' \in BOOLEAN
      /\ worker' = "waiting" => hand' = None /\ queue' = {}
      /\ worker' = "sleeping" => hand' # None
      /\ hand' # None =>
           \A c \in queue' : /\ priority[hand'] <= priority[c]
                             /\ priority[c] = priority[hand'] => stamp[hand'] < stamp[c]
  BY FetchStep
<1>3. UNCHANGED <<status, priority, address, stamp, arrivals, burstAge, stopped, since, gap, inverted>>
  BY DEF callVars, entryVars
<1>4. TypeOK'
  BY <1>2, <1>3 DEF IInv, TypeOK
<1>5. HandFits' /\ NewIsFresh'
  BY <1>2, <1>3, ThrottleAssumption DEF IInv, HandFits, NewIsFresh, TypeOK
<1>6. Ordered' /\ OvertakenOnce'
  BY <1>2, <1>3 DEF IInv, Ordered, OvertakenOnce
<1>7. NoLostWakeup' /\ AtMostOneInversion' /\ (since <= gap)'
  BY <1>2, <1>3 DEF IInv, NoLostWakeup, AtMostOneInversion
<1>8. WaitersHeld'
  BY <1>1, <1>2, <1>3, ThrottleAssumption DEF IInv, WaitersHeld
<1> QED  BY <1>4, <1>5, <1>6, <1>7, <1>8 DEF IInv

\* Only a command that was in hand can overtake, and then nobody in the queue
\* had been overtaken before.
LEMMA OnlyHandOvertakes ==
    ASSUME IInv, NEW c \in Command,
           \/ hand = None /\ c \in First(queue)
           \/ hand = c
    PROVE  \A d \in queue \ {c} : priority[d] < priority[c] => hand = c /\ inverted[d] = 0
<1>t. /\ queue \subseteq Command /\ priority \in [Command -> {HIGH, LOW}]
      /\ inverted \in [Command -> Nat]
  BY DEF IInv, TypeOK
<1>1. CASE hand = None /\ c \in First(queue)
  <2>1. \A d \in queue : priority[c] <= priority[d]
    BY <1>1, <1>t DEF First, Before, HIGH, LOW
  <2> QED  BY <2>1, <1>t DEF HIGH, LOW
<1>2. CASE hand = c
  <2>1. hand # None
    BY <1>2, ThrottleAssumption
  <2>2. \A d \in queue : inverted[d] = 0 \/ priority[c] <= priority[d]
    BY <1>2, <2>1 DEF IInv, OvertakenOnce
  <2> QED  BY <1>2, <2>2, <1>t DEF HIGH, LOW
<1> QED  BY <1>1, <1>2

LEMMA GrantAndFetch ==
    ASSUME IInv, NEW event \in BOOLEAN, NEW c \in Command,
           worker # "done",
           \/ hand = None /\ c \in First(queue)
           \/ hand = c,
           Grant(c), Fetch(queue \ {c}, event), UNCHANGED <<callVars, stopped>>
    PROVE  IInv'
<1> DEFINE q == queue \ {c}
<1>1. /\ queue' \subseteq q /\ q \subseteq queue' \cup {hand'}
      /\ hand' \in q \cup {None} /\ hand' \notin queue'
      /\ worker' \in {"waiting", "sleeping"} /\ available' \in BOOLEAN
      /\ worker' = "waiting" => hand' = None /\ queue' = {}
      /\ worker' = "sleeping" => hand' # None
      /\ hand' # None =>
           \A d \in queue' : /\ priority[hand'] <= priority[d]
                             /\ priority[d] = priority[hand'] => stamp[hand'] < stamp[d]
  <2>1. q \subseteq queue
    OBVIOUS
  <2> HIDE DEF q
  <2> QED  BY <2>1, FetchStep DEF q
<1>2. /\ status' \in [Command -> Statuses]
      /\ status'[c] # "waiting"
      /\ \A d \in Command \ {c} : status'[d] = status[d]
      /\ \A d \in Command : status'[d] = "new" => status[d] = "new"
      /\ since' = 0 /\ gap' \in 0 .. Interval
      /\ inverted' \in [Command -> Nat]
  BY GrantStep
<1>3. \A d \in Command :
        inverted'[d] = IF status[c] = "waiting" /\ d \in queue \ {c} /\ priority[d] < priority[c]
                       THEN inverted[d] + 1 ELSE inverted[d]
  BY GrantStep
<1>4. UNCHANGED <<priority, address, stamp, arrivals, burstAge, stopped>>
  BY DEF callVars, entryVars
<1>t. /\ queue \subseteq Command /\ priority \in [Command -> {HIGH, LOW}]
      /\ inverted \in [Command -> Nat] /\ \A d \in Command : inverted[d] <= 1
  BY DEF IInv, TypeOK, AtMostOneInversion
<1>5. TypeOK'
  BY <1>1, <1>2, <1>4, <1>t, ThrottleAssumption DEF IInv, TypeOK
<1>6. HandFits'
  BY <1>1, <1>4, <1>t, ThrottleAssumption DEF IInv, HandFits
<1>7. Ordered'
  BY <1>1, <1>4 DEF IInv, Ordered
<1>8. \A d \in queue \ {c} : priority[d] < priority[c] => hand = c /\ inverted[d] = 0
  BY OnlyHandOvertakes
<1>9. AtMostOneInversion'
  <2>1. ASSUME NEW d \in Command PROVE inverted'[d] <= 1
    BY <1>3, <1>8, <1>t
  <2> QED  BY <2>1 DEF AtMostOneInversion
<1>10. OvertakenOnce'
  BY <1>1, <1>4 DEF OvertakenOnce
<1>11. NewIsFresh'
  <2> SUFFICES ASSUME NEW d \in Command, status'[d] = "new"
               PROVE  d \notin queue' /\ d # hand' /\ inverted'[d] = 0
    BY DEF NewIsFresh
  <2>1. status[d] = "new" /\ d \notin queue /\ inverted[d] = 0
    BY <1>2 DEF IInv, NewIsFresh
  <2>2. d # None
    BY ThrottleAssumption
  <2> QED  BY <1>1, <1>3, <2>1, <2>2
<1>12. NoLostWakeup' /\ (since <= gap)'
  BY <1>1, <1>2 DEF NoLostWakeup
<1>13. WaitersHeld'
  <2> SUFFICES ASSUME ~stopped, NEW d \in Command, status'[d] = "waiting"
               PROVE  d \in queue' \/ d = hand'
    BY <1>4 DEF WaitersHeld
  <2>1. d # c /\ status[d] = "waiting"
    BY <1>2
  <2>2. d \in queue \/ d = hand
    BY <2>1 DEF IInv, WaitersHeld
  <2>3. d \in queue
    BY <2>1, <2>2, ThrottleAssumption
  <2> QED  BY <1>1, <2>1, <2>3
<1> QED  BY <1>5, <1>6, <1>7, <1>9, <1>10, <1>11, <1>12, <1>13 DEF IInv

LEMMA AcquireKeeps ==
    ASSUME IInv, NEW c \in Command, NEW p \in {HIGH, LOW}, NEW a \in Address, Acquire(c, p, a)
    PROVE  IInv'
<1>1. /\ status[c] = "new" /\ status' = [status EXCEPT ![c] = "waiting"]
      /\ priority' = [priority EXCEPT ![c] = IF DetectBurst(c, p) THEN LOW ELSE p]
      /\ address' = [address EXCEPT ![c] = a]
      /\ arrivals' = arrivals + 1 /\ stamp' = [stamp EXCEPT ![c] = arrivals + 1]
      /\ queue' = queue \cup {c} /\ available' = TRUE
      /\ burstAge' = Window(c, p)
      /\ UNCHANGED <<hand, worker, stopped, since, gap, inverted>>
  BY DEF Acquire
<1>2. c \notin queue /\ c # hand /\ inverted[c] = 0
  BY <1>1 DEF IInv, NewIsFresh
<1>t. /\ status \in [Command -> Statuses] /\ priority \in [Command -> {HIGH, LOW}]
      /\ stamp \in [Command -> Nat] /\ arrivals \in Nat /\ queue \subseteq Command
      /\ hand \in Command \cup {None}
      /\ \A d \in Command : stamp[d] <= arrivals
  BY DEF IInv, TypeOK, Ordered
<1>3. TypeOK'
  <2>1. burstAge' \in [Command -> (0 .. BurstWindow) \cup {None}]
    BY <1>1, ThrottleAssumption DEF IInv, TypeOK, Window
  <2>2. priority' \in [Command -> {HIGH, LOW}] /\ status' \in [Command -> Statuses]
    BY <1>1, <1>t DEF Statuses
  <2>3. stamp' \in [Command -> Nat] /\ arrivals' \in Nat
    BY <1>1, <1>t
  <2>4. address' \in [Command -> Address \cup {None}]
    BY <1>1 DEF IInv, TypeOK
  <2> QED  BY <1>1, <2>1, <2>2, <2>3, <2>4 DEF IInv, TypeOK
<1>4. HandFits'
  BY <1>1, <1>2 DEF IInv, HandFits
<1>5. NewIsFresh'
  BY <1>1, <1>t DEF IInv, NewIsFresh
<1>6. Ordered'
  <2>1. /\ stamp'[c] = arrivals + 1
        /\ \A d \in Command \ {c} : stamp'[d] = stamp[d] /\ priority'[d] = priority[d]
    BY <1>1, <1>t
  <2>2. \A d \in Command : stamp'[d] <= arrivals'
    BY <1>1, <1>t, <2>1
  <2>3. \A d, e \in queue' : d # e => stamp'[d] # stamp'[e]
    <3> SUFFICES ASSUME NEW d \in queue', NEW e \in queue', d # e PROVE stamp'[d] # stamp'[e]
      OBVIOUS
    <3>1. d \in Command /\ e \in Command /\ stamp[d] \in Nat /\ stamp[e] \in Nat
      BY <1>1, <1>t
    <3>2. CASE d = c
      BY <1>t, <2>1, <3>1, <3>2
    <3>3. CASE e = c
      BY <1>t, <2>1, <3>1, <3>3
    <3>4. CASE d # c /\ e # c
      BY <1>1, <2>1, <3>1, <3>4 DEF IInv, Ordered
    <3> QED  BY <3>2, <3>3, <3>4
  <2>4. ASSUME hand' # None, NEW d \in queue', priority'[d] = priority'[hand']
        PROVE  stamp'[hand'] < stamp'[d]
    <3>1. hand \in Command /\ hand' = hand /\ hand # c
      BY <1>1, <1>2, <1>t, <2>4
    <3>2. CASE d = c
      BY <1>t, <2>1, <3>1, <3>2
    <3>3. CASE d # c
      BY <1>1, <1>t, <2>1, <2>4, <3>1, <3>3 DEF IInv, Ordered
    <3> QED  BY <3>2, <3>3
  <2> QED  BY <2>2, <2>3, <2>4 DEF Ordered
<1>7. OvertakenOnce'
  <2> SUFFICES ASSUME NEW d \in queue', inverted'[d] # 0, hand' # None
               PROVE  priority'[hand'] <= priority'[d]
    BY DEF OvertakenOnce
  <2>1. d \in queue /\ d # c /\ hand # c /\ hand \in Command /\ d \in Command
    BY <1>1, <1>2, <1>t
  <2>2. priority[hand] <= priority[d]
    BY <1>1, <2>1 DEF IInv, OvertakenOnce
  <2> QED  BY <1>1, <1>t, <2>1, <2>2
<1>8. NoLostWakeup' /\ AtMostOneInversion' /\ (since <= gap)'
  BY <1>1 DEF IInv, NoLostWakeup, AtMostOneInversion
<1>9. WaitersHeld'
  BY <1>1, <1>t DEF IInv, WaitersHeld
<1> QED  BY <1>3, <1>4, <1>5, <1>6, <1>7, <1>8, <1>9 DEF IInv

\* The calls that only end commands and shrink the queue.
LEMMA EndsKeep ==
    ASSUME IInv, NEW gone, queue' = queue \ gone,
           status' \in [Command -> Statuses],
           \A c \in Command : status'[c] = "waiting" => status[c] = "waiting" /\ c \notin gone,
           \A c \in Command : status'[c] = "new" => status[c] = "new",
           burstAge' \in [Command -> (0 .. BurstWindow) \cup {None}],
           UNCHANGED <<entryVars, stopped, workerVars>>
    PROVE  IInv'
<1>1. UNCHANGED <<priority, address, stamp, arrivals, stopped, hand, worker, available,
                  since, gap, inverted>>
  BY DEF entryVars, workerVars
<1>2. TypeOK'
  BY <1>1 DEF IInv, TypeOK
<1>3. HandFits' /\ NewIsFresh' /\ OvertakenOnce'
  BY <1>1 DEF IInv, HandFits, NewIsFresh, OvertakenOnce
<1>4. Ordered'
  BY <1>1 DEF IInv, Ordered
<1>5. NoLostWakeup' /\ AtMostOneInversion' /\ (since <= gap)'
  BY <1>1 DEF IInv, NoLostWakeup, AtMostOneInversion
<1>6. WaitersHeld'
  BY <1>1 DEF IInv, WaitersHeld
<1> QED  BY <1>2, <1>3, <1>4, <1>5, <1>6 DEF IInv

LEMMA StopKeeps == ASSUME IInv, Stop PROVE IInv'
<1>1. /\ stopped' = TRUE /\ available' = TRUE /\ worker' = "done" /\ queue' = {}
      /\ status' = [c \in Command |-> IF c \in queue /\ status[c] = "waiting"
                                         THEN "rejected" ELSE status[c]]
      /\ UNCHANGED <<priority, address, stamp, arrivals, burstAge, hand, since, gap, inverted>>
  BY DEF Stop, callVars, entryVars
<1>2. TypeOK'
  BY <1>1 DEF IInv, TypeOK, Statuses
<1>3. HandFits' /\ NewIsFresh' /\ OvertakenOnce' /\ Ordered'
  BY <1>1 DEF IInv, HandFits, NewIsFresh, OvertakenOnce, Ordered
<1>4. NoLostWakeup' /\ WaitersHeld' /\ AtMostOneInversion' /\ (since <= gap)'
  BY <1>1 DEF IInv, NoLostWakeup, WaitersHeld, AtMostOneInversion
<1> QED  BY <1>2, <1>3, <1>4 DEF IInv

LEMMA TickKeeps == ASSUME IInv, Tick PROVE IInv'
<1>1. /\ since' = (IF since < Interval THEN since + 1 ELSE since)
      /\ gap' = (IF gap < Interval THEN gap + 1 ELSE gap)
      /\ burstAge' = [c \in Command |-> Evicted(burstAge[c])]
      /\ UNCHANGED <<status, priority, address, stamp, arrivals, queue, hand, worker,
                     available, stopped, inverted>>
  BY DEF Tick, entryVars
<1>2. burstAge' \in [Command -> (0 .. BurstWindow) \cup {None}]
  BY <1>1, ThrottleAssumption DEF IInv, TypeOK, Evicted
<1>3. since' \in 0 .. Interval /\ gap' \in 0 .. Interval /\ (since <= gap)'
  BY <1>1, ThrottleAssumption DEF IInv, TypeOK
<1>4. TypeOK'
  BY <1>1, <1>2, <1>3 DEF IInv, TypeOK
<1>5. HandFits' /\ NewIsFresh' /\ OvertakenOnce' /\ Ordered'
  BY <1>1 DEF IInv, HandFits, NewIsFresh, OvertakenOnce, Ordered
<1>6. NoLostWakeup' /\ WaitersHeld' /\ AtMostOneInversion'
  BY <1>1 DEF IInv, NoLostWakeup, WaitersHeld, AtMostOneInversion
<1> QED  BY <1>3, <1>4, <1>5, <1>6 DEF IInv

LEMMA PassKeeps ==
    ASSUME IInv, NEW event \in BOOLEAN, worker \in {"ready", "waiting"}, Pass(event),
           UNCHANGED <<callVars, stopped>>
    PROVE  IInv'
<1>1. CASE Fetch(queue, event) /\ UNCHANGED <<status, since, gap, inverted>>
  BY <1>1, PassWithoutGrant
<1>2. ASSUME NEW c \in First(queue), Grant(c), Fetch(queue \ {c}, event) PROVE IInv'
  <2>1. hand = None /\ c \in Command
    BY DEF IInv, HandFits, TypeOK, First
  <2>2. worker # "done"
    OBVIOUS
  <2> QED  BY <1>2, <2>1, <2>2, GrantAndFetch
<1> QED  BY <1>1, <1>2 DEF Pass

LEMMA NextIInv == IInv /\ [Next]_vars => IInv'
<1> SUFFICES ASSUME IInv, [Next]_vars PROVE IInv'
  OBVIOUS
<1>t. status \in [Command -> Statuses] /\ available \in BOOLEAN
      /\ burstAge \in [Command -> (0 .. BurstWindow) \cup {None}]
  BY DEF IInv, TypeOK
<1>1. ASSUME NEW c \in Command, NEW p \in {HIGH, LOW}, NEW a \in Address, Acquire(c, p, a)
      PROVE  IInv'
  BY <1>1, AcquireKeeps
<1>2. ASSUME NEW c \in Command, NEW p \in {HIGH, LOW}, AcquireStopped(c, p) PROVE IInv'
  <2> DEFINE nobody == {}
  <2>1. burstAge' \in [Command -> (0 .. BurstWindow) \cup {None}]
    BY <1>2, <1>t, ThrottleAssumption DEF AcquireStopped, Window
  <2>2. /\ status' \in [Command -> Statuses]
        /\ \A d \in Command : status'[d] = "waiting" => status[d] = "waiting" /\ d \notin nobody
        /\ \A d \in Command : status'[d] = "new" => status[d] = "new"
    BY <1>2, <1>t DEF AcquireStopped, Statuses
  <2>3. queue' = queue \ nobody /\ UNCHANGED <<entryVars, stopped, workerVars>>
    BY <1>2 DEF AcquireStopped
  <2> HIDE DEF nobody
  <2> QED  BY <2>1, <2>2, <2>3, EndsKeep
<1>3. ASSUME NEW c \in Command, NEW purge \in SUBSET Address, Critical(c, purge) PROVE IInv'
  <2> DEFINE dropped == {d \in queue : address[d] \in purge}
  <2>1. /\ status' = [d \in Command |->
                        IF d = c THEN "bypassed"
                        ELSE IF d \in dropped /\ status[d] = "waiting" THEN "superseded"
                        ELSE status[d]]
        /\ queue' = queue \ dropped
        /\ burstAge' = burstAge /\ UNCHANGED <<entryVars, stopped, workerVars>>
    BY <1>3 DEF Critical, callVars
  <2> HIDE DEF dropped
  <2>2. /\ status' \in [Command -> Statuses]
        /\ \A d \in Command : status'[d] = "waiting" => status[d] = "waiting" /\ d \notin dropped
        /\ \A d \in Command : status'[d] = "new" => status[d] = "new"
    BY <2>1, <1>t DEF Statuses
  <2> QED  BY <1>t, <2>1, <2>2, EndsKeep
<1>4. ASSUME NEW c \in Command, Abandon(c) PROVE IInv'
  <2> DEFINE nobody == {}
  <2>1. /\ status' \in [Command -> Statuses]
        /\ \A d \in Command : status'[d] = "waiting" => status[d] = "waiting" /\ d \notin nobody
        /\ \A d \in Command : status'[d] = "new" => status[d] = "new"
    BY <1>4, <1>t DEF Abandon, Statuses
  <2>2. queue' = queue \ nobody /\ burstAge' = burstAge /\ UNCHANGED <<entryVars, stopped, workerVars>>
    BY <1>4 DEF Abandon, callVars
  <2> HIDE DEF nobody
  <2> QED  BY <1>t, <2>1, <2>2, EndsKeep
<1>5. ASSUME WorkerStarts PROVE IInv'
  BY <1>5, <1>t, PassKeeps DEF WorkerStarts
<1>6. ASSUME WorkerWakes PROVE IInv'
  BY <1>6, PassKeeps DEF WorkerWakes
<1>7. ASSUME WorkerGrants PROVE IInv'
  <2>1. hand \in Command /\ queue \ {hand} = queue
    BY <1>7 DEF WorkerGrants, IInv, HandFits, TypeOK
  <2>2. /\ Grant(hand) /\ Fetch(queue \ {hand}, available) /\ UNCHANGED <<callVars, stopped>>
        /\ worker # "done"
    BY <1>7, <2>1 DEF WorkerGrants
  <2> QED  BY <1>t, <2>1, <2>2, GrantAndFetch
<1>8. ASSUME Stop PROVE IInv'
  BY <1>8, StopKeeps
<1>9. ASSUME Tick PROVE IInv'
  BY <1>9, TickKeeps
<1>10. ASSUME UNCHANGED vars PROVE IInv'
  <2> DEFINE nobody == {}
  <2>1. queue' = queue \ nobody /\ UNCHANGED <<status, burstAge, entryVars, stopped, workerVars>>
    BY <1>10 DEF vars, entryVars, workerVars
  <2>2. /\ \A d \in Command : status'[d] = "waiting" => status[d] = "waiting" /\ d \notin nobody
        /\ \A d \in Command : status'[d] = "new" => status[d] = "new"
    BY <2>1
  <2>3. status' \in [Command -> Statuses]
        /\ burstAge' \in [Command -> (0 .. BurstWindow) \cup {None}]
    BY <1>t, <2>1
  <2> HIDE DEF nobody
  <2> QED  BY <2>1, <2>2, <2>3, EndsKeep
<1> QED
  BY <1>1, <1>2, <1>3, <1>4, <1>5, <1>6, <1>7, <1>8, <1>9, <1>10 DEF Next, Worker

LEMMA IInvHolds == Spec => []IInv
BY InitIInv, NextIInv, PTL DEF Spec

\* No caller is forgotten: until stop(), whoever waits is in the queue or in the
\* worker's hand, whatever calls and purges interleave (acquire, purge_address, _worker).
THEOREM ThrottleSafety == Spec => [](TypeOK /\ WaitersHeld)
<1>1. IInv => TypeOK /\ WaitersHeld
  BY DEF IInv
<1> QED  BY <1>1, IInvHolds, PTL

\* The worker never sleeps on the event while a command is queued: between its look at
\* the empty queue and its wait no acquire slips through unseen (_worker).
THEOREM ThrottleWakesUp == Spec => []NoLostWakeup
<1>1. IInv => NoLostWakeup
  BY DEF IInv
<1> QED  BY <1>1, IInvHolds, PTL

\* A command is overtaken by at most one of lower priority, the one the worker had in its
\* hand when it arrived (_worker).
THEOREM ThrottleInvertsOnce == Spec => []AtMostOneInversion
<1>1. IInv => AtMostOneInversion
  BY DEF IInv
<1> QED  BY <1>1, IInvHolds, PTL

-----------------------------------------------------------------------------
(* The action properties, from the same invariant. *)

\* A step that grants a waiting command is a grant of that command alone, made
\* by the worker when the interval had elapsed.
LEMMA OnlyWorkerGrants ==
    ASSUME IInv, [Next]_vars, NEW c \in Command, status[c] = "waiting", status'[c] = "granted"
    PROVE  /\ since = Interval /\ ~stopped
           /\ \A d \in Command \ {c} : status'[d] = status[d]
           /\ \A d \in queue \ {c} : Before(c, d) \/ c = hand
           /\ c = hand \/ (hand = None /\ c \in queue)
<1>t. status \in [Command -> Statuses]
  BY DEF IInv, TypeOK
<1>1. ASSUME NEW e \in Command, Grant(e)
      PROVE  c = e /\ \A d \in Command \ {c} : status'[d] = status[d]
  <2>1. \A d \in Command \ {e} : status'[d] = status[d]
    BY <1>1, GrantStep
  <2> QED  BY <2>1
<1>2. ASSUME NEW event, Pass(event)
      PROVE  /\ since = Interval
             /\ \A d \in Command \ {c} : status'[d] = status[d]
             /\ \A d \in queue \ {c} : Before(c, d)
             /\ c \in queue
  <2>1. since = Interval /\ \E e \in First(queue) : Grant(e)
    BY <1>2, <1>t DEF Pass
  <2>2. PICK e \in First(queue) : Grant(e)
    BY <2>1
  <2>3. e \in Command /\ e \in queue /\ \A d \in queue : Before(e, d)
    BY DEF First, IInv, TypeOK
  <2> QED  BY <1>1, <2>1, <2>2, <2>3
<1>3. CASE WorkerStarts \/ WorkerWakes
  BY <1>2, <1>3 DEF WorkerStarts, WorkerWakes, IInv, HandFits
<1>4. CASE WorkerGrants
  <2>1. hand \in Command /\ Grant(hand) /\ since = Interval /\ ~stopped
    BY <1>4 DEF WorkerGrants, IInv, HandFits, TypeOK
  <2> QED  BY <1>1, <2>1
<1>5. \A d \in Command, p \in {HIGH, LOW} : ~AcquireStopped(d, p)
  BY <1>t DEF AcquireStopped
<1>6. \A d \in Command, p \in {HIGH, LOW}, a \in Address : ~Acquire(d, p, a)
  BY <1>t DEF Acquire
<1>7. \A d \in Command, purge \in SUBSET Address : ~Critical(d, purge)
  BY <1>t DEF Critical
<1>8. \A d \in Command : ~Abandon(d)
  BY <1>t DEF Abandon
<1>9. ~Stop /\ ~Tick /\ ~UNCHANGED vars
  BY <1>t DEF Stop, Tick, vars
<1> QED  BY <1>3, <1>4, <1>5, <1>6, <1>7, <1>8, <1>9 DEF Next, Worker

\* Queued commands are granted one at a time and at least Interval apart.
THEOREM ThrottleSpacing == Spec => Spacing
<1> DEFINE sent == {c \in Command : status[c] = "waiting" /\ status'[c] = "granted"}
<1>1. ASSUME IInv, [Next]_vars, sent # {} PROVE gap = Interval /\ Cardinality(sent) = 1
  <2>1. PICK c \in Command : status[c] = "waiting" /\ status'[c] = "granted"
    BY <1>1
  <2>2. since = Interval /\ \A d \in Command \ {c} : status'[d] = status[d]
    BY <1>1, <2>1, OnlyWorkerGrants
  <2>3. sent = {c}
    BY <2>1, <2>2
  <2>4. Cardinality(sent) = 1
    BY <2>3, FS_Singleton
  <2>5. gap = Interval
    BY <1>1, <2>2, ThrottleAssumption DEF IInv, TypeOK
  <2> QED  BY <2>4, <2>5
<1>2. IInv /\ [Next]_vars => [sent # {} => gap = Interval /\ Cardinality(sent) = 1]_vars
  BY <1>1
<1> QED  BY InitIInv, NextIInv, <1>2, PTL DEF Spec, Spacing

\* Among waiting commands of one priority the one that arrived first is granted.
THEOREM ThrottleFifo == Spec => FifoWithinPriority
<1> DEFINE Overtakes(c, d) == /\ status[c] = "waiting" /\ status'[c] = "waiting"
                              /\ status[d] = "waiting" /\ status'[d] = "granted"
                              /\ priority[c] = priority[d]
<1>1. ASSUME IInv, [Next]_vars, NEW c \in Command, NEW d \in Command, Overtakes(c, d)
      PROVE  stamp[d] < stamp[c]
  <2>1. /\ \A e \in queue \ {d} : Before(d, e) \/ d = hand
        /\ d = hand \/ (hand = None /\ d \in queue)
    BY <1>1, OnlyWorkerGrants
  <2>2. c # d
    BY <1>1
  <2>t. stamp \in [Command -> Nat] /\ priority \in [Command -> {HIGH, LOW}]
    BY <1>1 DEF IInv, TypeOK
  <2>3. c \in queue \/ c = hand
    BY <1>1, OnlyWorkerGrants DEF IInv, WaitersHeld
  <2>4. stamp[c] \in Nat /\ stamp[d] \in Nat /\ priority[c] \in Nat /\ priority[d] \in Nat
    BY <2>t DEF HIGH, LOW
  <2>5. CASE d = hand
    <3>1. c \in queue /\ hand # None
      BY <2>2, <2>3, <2>5, ThrottleAssumption
    <3> QED  BY <1>1, <2>5, <3>1 DEF IInv, Ordered
  <2>6. CASE d # hand
    \* the worker had nothing in hand, so c too is in the queue
    <3>1. hand = None
      BY <2>1, <2>6
    <3>2. c \in queue /\ d \in queue
      BY <2>1, <2>3, <2>6, <3>1, ThrottleAssumption
    <3>3. Before(d, c) /\ stamp[c] # stamp[d]
      BY <1>1, <2>1, <2>2, <2>6, <3>2 DEF IInv, Ordered
    <3> QED  BY <1>1, <2>4, <3>3 DEF Before
  <2> QED  BY <2>5, <2>6
<1>2. IInv /\ [Next]_vars => [\A c, d \in Command : Overtakes(c, d) => stamp[d] < stamp[c]]_vars
  BY <1>1
<1> QED  BY InitIInv, NextIInv, <1>2, PTL DEF Spec, FifoWithinPriority

-----------------------------------------------------------------------------
(* The throttle implements QueueContract. *)

\* What the contract calls waiting and overtaken.
Waiting == {c \in Command : status[c] = "waiting"}
Overtaken == {c \in Waiting : inverted[c] > 0}

\* Among the waiting commands of one priority the granted one arrived first.
LEMMA GrantsFirst ==
    ASSUME IInv, ~stopped, NEW c \in Command,
           \/ hand = None /\ c \in First(queue)
           \/ hand = c
    PROVE  \A d \in Waiting \ {c} : /\ d \in queue
                                    /\ priority[d] = priority[c] => stamp[c] < stamp[d]
<1> SUFFICES ASSUME NEW d \in Waiting \ {c}
             PROVE  d \in queue /\ (priority[d] = priority[c] => stamp[c] < stamp[d])
  OBVIOUS
<1>t. /\ queue \subseteq Command /\ d \in Command /\ status[d] = "waiting"
      /\ stamp[c] \in Nat /\ stamp[d] \in Nat /\ priority[c] \in Nat /\ priority[d] \in Nat
  BY DEF IInv, TypeOK, Waiting, HIGH, LOW
<1>1. d \in queue
  BY <1>t, ThrottleAssumption DEF IInv, WaitersHeld
<1>2. CASE hand = None /\ c \in First(queue)
  <2>1. c \in queue /\ Before(c, d)
    BY <1>1, <1>2 DEF First
  <2>2. stamp[c] # stamp[d]
    BY <1>1, <2>1 DEF IInv, Ordered
  <2> QED  BY <1>t, <1>1, <2>1, <2>2 DEF Before
<1>3. CASE hand = c
  BY <1>1, <1>3, ThrottleAssumption DEF IInv, Ordered
<1> QED  BY <1>2, <1>3

\* A grant serves the queue, or leaves it as it was if the caller had given up.
LEMMA GrantServes ==
    ASSUME IInv, ~stopped, since = Interval, NEW c \in Command,
           \/ hand = None /\ c \in First(queue)
           \/ hand = c,
           Grant(c), UNCHANGED callVars
    PROVE  Queue!Served(c) \/ UNCHANGED Queue!contractVars
<1>t. /\ status \in [Command -> Statuses] /\ inverted \in [Command -> Nat]
      /\ priority \in [Command -> {HIGH, LOW}] /\ queue \subseteq Command
      /\ UNCHANGED <<priority, stamp>>
  BY DEF IInv, TypeOK, callVars, entryVars
<1>1. gap = Interval
  BY ThrottleAssumption DEF IInv, TypeOK
<1>2. CASE status[c] = "waiting"
  <2> DEFINE others == Waiting \ {c}
             passed == {d \in others : priority[d] < priority[c]}
  <2>1. status' = [status EXCEPT ![c] = "granted"] /\ gap' = 0
    BY <1>2 DEF Grant
  <2>2. \A d \in Command :
          inverted'[d] = IF d \in queue \ {c} /\ priority[d] < priority[c]
                         THEN inverted[d] + 1 ELSE inverted[d]
    BY <1>2, GrantStep
  <2>3. /\ \A d \in others : d \in queue /\ (priority[d] = priority[c] => stamp[c] < stamp[d])
        /\ \A d \in queue \ {c} : priority[d] < priority[c] => inverted[d] = 0
    BY GrantsFirst, OnlyHandOvertakes
  <2>4. /\ c \in Waiting /\ Waiting' = others
        /\ {d \in Command : status'[d] = "new"} = {d \in Command : status[d] = "new"}
        /\ {d \in Command : status'[d] = "granted"}
              = {d \in Command : status[d] = "granted"} \cup {c}
    BY <1>2, <1>t, <2>1 DEF Waiting
  <2>5. passed \cap Overtaken = {}
    BY <1>t, <2>3 DEF Overtaken, Waiting
  <2>6. Overtaken' = (Overtaken \ {c}) \cup passed
    <3>1. \A d \in others : inverted'[d] > 0 <=> (inverted[d] > 0 \/ d \in passed)
      BY <1>t, <2>2, <2>3 DEF Waiting
    <3>2. Overtaken' = {d \in others : inverted'[d] > 0}
      BY <2>4 DEF Overtaken
    <3> QED  BY <3>1, <3>2 DEF Overtaken
  <2> QED
    BY <1>1, <1>t, <2>1, <2>3, <2>4, <2>5, <2>6 DEF Queue!Served, Waiting, Overtaken
<1>3. CASE status[c] # "waiting"
  <2>1. UNCHANGED <<status, gap, inverted>>
    <3>1. UNCHANGED <<status, gap>>
      BY <1>3 DEF Grant
    <3>2. inverted' = [d \in Command |-> inverted[d]]
      BY <1>3 DEF Grant
    <3> QED  BY <1>t, <3>1, <3>2
  <2> QED  BY <1>t, <2>1 DEF Queue!contractVars
<1> QED  BY <1>2, <1>3

\* An acquired command enters behind every waiting one.
LEMMA AcquireEnters ==
    ASSUME IInv, NEW c \in Command, NEW p \in {HIGH, LOW}, NEW a \in Address, Acquire(c, p, a)
    PROVE  Queue!Enters(c)
<1>t. /\ status \in [Command -> Statuses] /\ stamp \in [Command -> Nat] /\ arrivals \in Nat
      /\ priority \in [Command -> {HIGH, LOW}] /\ status[c] = "new" /\ inverted[c] = 0
      /\ \A d \in Command : stamp[d] <= arrivals
  BY DEF IInv, TypeOK, Acquire, NewIsFresh, Ordered
<1>1. /\ status' = [status EXCEPT ![c] = "waiting"]
      /\ stamp' = [stamp EXCEPT ![c] = arrivals + 1]
      /\ \A d \in Command \ {c} : priority'[d] = priority[d] /\ stamp'[d] = stamp[d]
      /\ UNCHANGED <<gap, inverted>>
  BY <1>t DEF Acquire
<1>2. \A d \in Command : stamp[d] < stamp'[c]
  BY <1>t, <1>1
<1>3. /\ {d \in Command : status'[d] = "new"} = {d \in Command : status[d] = "new"} \ {c}
      /\ {d \in Command : status'[d] = "granted"} = {d \in Command : status[d] = "granted"}
      /\ Waiting' = Waiting \cup {c}
  BY <1>t, <1>1 DEF Waiting
<1>4. Overtaken' = Overtaken
  BY <1>t, <1>1, <1>3 DEF Overtaken
<1> QED  BY <1>t, <1>1, <1>2, <1>3, <1>4 DEF Queue!Enters, Waiting, Overtaken

\* The calls that only end commands let callers leave.
LEMMA EndsLeave ==
    ASSUME IInv,
           \A c \in Command : status'[c] = "waiting" => status[c] = "waiting",
           \A c \in Command : status'[c] = "new" => status[c] = "new",
           \A c \in Command : status'[c] = "granted" <=> status[c] = "granted",
           UNCHANGED <<priority, stamp, gap, inverted>>
    PROVE  Queue!Leave
<1>1. /\ {d \in Command : status'[d] = "new"} \subseteq {d \in Command : status[d] = "new"}
      /\ {d \in Command : status'[d] = "granted"} = {d \in Command : status[d] = "granted"}
      /\ Waiting' \subseteq Waiting
  BY DEF Waiting
<1>2. Overtaken' = Overtaken \cap Waiting'
  BY <1>1 DEF Overtaken
<1> QED  BY <1>1, <1>2 DEF Queue!Leave, Waiting, Overtaken

LEMMA QueueStep == IInv /\ [Next]_vars => [Queue!ContractNext]_(Queue!contractVars)
<1> SUFFICES ASSUME IInv, [Next]_vars
             PROVE  Queue!ContractNext \/ UNCHANGED Queue!contractVars
  OBVIOUS
<1>t. status \in [Command -> Statuses] /\ queue \subseteq Command
  BY DEF IInv, TypeOK
<1>1. ASSUME NEW c \in Command, NEW p \in {HIGH, LOW}, NEW a \in Address, Acquire(c, p, a)
      PROVE  Queue!ContractNext
  BY <1>1, AcquireEnters DEF Queue!ContractNext
<1>2. ASSUME NEW c \in Command, NEW p \in {HIGH, LOW}, AcquireStopped(c, p)
      PROVE  Queue!ContractNext
  <2>1. /\ status' = [status EXCEPT ![c] = "rejected"] /\ status[c] = "new"
        /\ UNCHANGED <<priority, stamp, gap, inverted>>
    BY <1>2 DEF AcquireStopped, entryVars, workerVars
  <2>2. Queue!Leave
    BY <1>t, <2>1, EndsLeave
  <2> QED  BY <2>2 DEF Queue!ContractNext
<1>3. ASSUME NEW c \in Command, NEW purge \in SUBSET Address, Critical(c, purge)
      PROVE  Queue!ContractNext
  <2> DEFINE dropped == {d \in queue : address[d] \in purge}
  <2>1. /\ status' = [d \in Command |->
                        IF d = c THEN "bypassed"
                        ELSE IF d \in dropped /\ status[d] = "waiting" THEN "superseded"
                        ELSE status[d]]
        /\ status[c] = "new"
        /\ UNCHANGED <<priority, stamp, gap, inverted>>
    BY <1>3 DEF Critical, callVars, entryVars, workerVars
  <2> HIDE DEF dropped
  <2>2. Queue!Leave
    BY <1>t, <2>1, EndsLeave
  <2> QED  BY <2>2 DEF Queue!ContractNext
<1>4. ASSUME NEW c \in Command, Abandon(c) PROVE Queue!ContractNext
  <2>1. /\ status' = [status EXCEPT ![c] = "abandoned"] /\ status[c] = "waiting"
        /\ UNCHANGED <<priority, stamp, gap, inverted>>
    BY <1>4 DEF Abandon, callVars, entryVars, workerVars
  <2>2. Queue!Leave
    BY <1>t, <2>1, EndsLeave
  <2> QED  BY <2>2 DEF Queue!ContractNext
<1>5. ASSUME NEW event, Pass(event), worker \in {"ready", "waiting"}, UNCHANGED callVars
      PROVE  Queue!ContractNext \/ UNCHANGED Queue!contractVars
  <2>1. CASE UNCHANGED <<status, since, gap, inverted>>
    BY <1>5, <2>1 DEF callVars, entryVars, Queue!contractVars
  <2>2. ASSUME since = Interval, NEW c \in First(queue), Grant(c)
        PROVE  Queue!ContractNext \/ UNCHANGED Queue!contractVars
    <3>1. c \in Command /\ hand = None /\ ~stopped
      BY <1>t, <1>5 DEF First, IInv, HandFits
    <3>2. Queue!Served(c) \/ UNCHANGED Queue!contractVars
      BY <1>5, <2>2, <3>1, GrantServes
    <3> QED  BY <3>1, <3>2 DEF Queue!ContractNext
  <2> QED  BY <1>5, <2>1, <2>2 DEF Pass
<1>6. CASE WorkerStarts \/ WorkerWakes
  BY <1>5, <1>6 DEF WorkerStarts, WorkerWakes
<1>7. CASE WorkerGrants
  <2>1. /\ hand \in Command /\ Grant(hand) /\ since = Interval /\ ~stopped
        /\ UNCHANGED callVars
    BY <1>7 DEF WorkerGrants, IInv, HandFits, TypeOK
  <2>2. PICK c \in Command : c = hand /\ Grant(c)
    BY <2>1
  <2>3. Queue!Served(c) \/ UNCHANGED Queue!contractVars
    BY <2>1, <2>2, GrantServes
  <2> QED  BY <2>3 DEF Queue!ContractNext
<1>8. CASE Stop
  <2>1. /\ status' = [c \in Command |-> IF c \in queue /\ status[c] = "waiting"
                                            THEN "rejected" ELSE status[c]]
        /\ UNCHANGED <<priority, stamp, gap, inverted>>
    BY <1>8 DEF Stop, callVars, entryVars
  <2>2. Queue!Leave
    BY <1>t, <2>1, EndsLeave
  <2> QED  BY <2>2 DEF Queue!ContractNext
<1>9. CASE Tick
  <2>1. /\ UNCHANGED <<status, priority, stamp, inverted>>
        /\ gap' = IF gap < Interval THEN gap + 1 ELSE gap
    BY <1>9 DEF Tick, entryVars
  <2>2. Queue!Elapse \/ UNCHANGED Queue!contractVars
    BY <2>1 DEF Queue!Elapse, Queue!contractVars
  <2> QED  BY <2>2 DEF Queue!ContractNext
<1>10. CASE UNCHANGED vars
  BY <1>10 DEF vars, Queue!contractVars
<1> QED
  BY <1>1, <1>2, <1>3, <1>4, <1>6, <1>7, <1>8, <1>9, <1>10 DEF Next, Worker

\* The throttle is the queue of QueueContract: for any number of callers, whatever they
\* give up, purge or stop meanwhile, the waiting commands are served one at a time and
\* not faster than the interval, first come first served within a priority, and each is
\* passed by at most one of lower priority (acquire, _worker, purge_address, stop).
THEOREM ThrottleImplementsQueue == Spec => ImplementsQueue
<1>1. Init => Queue!ContractInit
  BY DEF Init, Queue!ContractInit
<1>2. Spec => Queue!ContractInit /\ [][Queue!ContractNext]_(Queue!contractVars)
  BY <1>1, IInvHolds, QueueStep, PTL DEF Spec
<1> QED  BY <1>2 DEF ImplementsQueue, Queue!ContractSpec
=============================================================================
