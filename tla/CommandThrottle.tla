--------------------------- MODULE CommandThrottle ---------------------------
(***************************************************************************)
(* CommandThrottle (aiohomematic/client/command_throttle.py): the rate     *)
(* limiter in front of set_value and put_paramset, with throttling enabled *)
(* (interval > 0; with interval 0 acquire returns at once).                *)
(*                                                                         *)
(* The asyncio.Lock is never held across an await, so every stretch of     *)
(* code between two awaits is one action.  The heap of PrioritizedCommands *)
(* is the set of queued commands; its order is (priority, timestamp).      *)
(* A command is one call of acquire(); each member of Command is used once.*)
(***************************************************************************)
EXTENDS Naturals, FiniteSets

CONSTANTS Command, Address,
          Interval,        \* throttle interval, in ticks
          BurstThreshold,  \* burst_threshold, 0 disables burst detection
          BurstWindow,     \* burst_window, in ticks
          None

ASSUME ThrottleAssumption ==
    /\ Interval \in Nat \ {0}
    /\ BurstThreshold \in Nat
    /\ BurstWindow \in Nat
    /\ None \notin Command /\ None \notin Nat

HIGH == 1
LOW == 2

VARIABLES
    status,     \* command -> what its caller knows: see Statuses
    priority,   \* command -> the priority it was queued with
    address,    \* command -> device_address
    stamp,      \* command -> timestamp: position in the order of arrival
    arrivals,   \* the clock of the timestamps
    queue,      \* the commands in _queue
    hand,       \* the command the worker has popped and not yet granted, or None
    worker,     \* "ready" to run, "waiting" for the event, "sleeping", "done"
    available,  \* _command_available is set
    stopped,    \* _stopped
    since,      \* ticks since _last_command_time, up to Interval
    burstAge,   \* _burst_timestamps: command -> age of its entry, or None
    gap,        \* history: ticks since a queued command was last granted
    inverted    \* history: command -> lower-priority grants while it was queued

vars == <<status, priority, address, stamp, arrivals, queue, hand, worker, available,
          stopped, since, burstAge, gap, inverted>>
entryVars == <<priority, address, stamp, arrivals>>
callVars == <<entryVars, burstAge>>
workerVars == <<hand, worker, available, since, gap, inverted>>

\* new: acquire not called yet.  waiting: awaiting its future.  The others are
\* the ways acquire ends; bypassed is the return of a CRITICAL command.
Statuses == {"new", "waiting", "granted", "bypassed", "superseded", "rejected",
             "abandoned"}

TypeOK ==
    /\ status \in [Command -> Statuses]
    /\ priority \in [Command -> {HIGH, LOW}]
    /\ address \in [Command -> Address \cup {None}]
    /\ stamp \in [Command -> Nat]
    /\ arrivals \in Nat
    /\ queue \subseteq Command
    /\ hand \in Command \cup {None}
    /\ worker \in {"ready", "waiting", "sleeping", "done"}
    /\ available \in BOOLEAN
    /\ stopped \in BOOLEAN
    /\ since \in 0 .. Interval
    /\ burstAge \in [Command -> (0 .. BurstWindow) \cup {None}]
    /\ gap \in 0 .. Interval
    /\ inverted \in [Command -> Nat]

Init ==
    /\ status = [c \in Command |-> "new"]
    /\ priority = [c \in Command |-> LOW]
    /\ address = [c \in Command |-> None]
    /\ stamp = [c \in Command |-> 0]
    /\ arrivals = 0
    /\ queue = {}
    /\ hand = None
    /\ worker = "ready"
    /\ available = FALSE
    /\ stopped = FALSE
    /\ since = Interval
    /\ burstAge = [c \in Command |-> None]
    /\ gap = Interval
    /\ inverted = [c \in Command |-> 0]

-----------------------------------------------------------------------------
(* acquire *)

\* _detect_burst: a HIGH command enters the window and is a burst when the
\* window then holds more than BurstThreshold of them.
Window(c, p) ==
    IF p = HIGH /\ BurstThreshold > 0 THEN [burstAge EXCEPT ![c] = 0] ELSE burstAge

DetectBurst(c, p) ==
    /\ p = HIGH
    /\ BurstThreshold > 0
    /\ Cardinality({d \in Command : Window(c, p)[d] # None}) > BurstThreshold

\* Mutant: the worker is not notified.
AcquireSilent(c, p, a) ==
    /\ status[c] = "new"
    /\ ~stopped
    /\ burstAge' = Window(c, p)
    /\ status' = [status EXCEPT ![c] = "waiting"]
    /\ priority' = [priority EXCEPT ![c] = p]
    /\ address' = [address EXCEPT ![c] = a]
    /\ arrivals' = arrivals + 1
    /\ stamp' = [stamp EXCEPT ![c] = arrivals + 1]
    /\ queue' = queue \cup {c}
    /\ UNCHANGED <<hand, worker, available, stopped, since, gap, inverted>>

\* A HIGH or LOW command: downgraded in a burst, pushed on the heap, the worker
\* is notified, and the caller awaits its future.
Acquire(c, p, a) ==
    /\ status[c] = "new"
    /\ ~stopped
    /\ burstAge' = Window(c, p)
    /\ status' = [status EXCEPT ![c] = "waiting"]
    /\ priority' = [priority EXCEPT ![c] = IF DetectBurst(c, p) THEN LOW ELSE p]
    /\ address' = [address EXCEPT ![c] = a]
    /\ arrivals' = arrivals + 1
    /\ stamp' = [stamp EXCEPT ![c] = arrivals + 1]
    /\ queue' = queue \cup {c}
    /\ available' = TRUE
    /\ UNCHANGED <<hand, worker, stopped, since, gap, inverted>>

\* The same call on a stopped throttle raises CancelledError; the burst window
\* has already been updated.
AcquireStopped(c, p) ==
    /\ status[c] = "new"
    /\ stopped
    /\ burstAge' = Window(c, p)
    /\ status' = [status EXCEPT ![c] = "rejected"]
    /\ UNCHANGED <<entryVars, queue, stopped, workerVars>>

\* Mutant: purged commands are dropped without failing their futures.
CriticalForgets(c, purge) ==
    /\ status[c] = "new"
    /\ status' = [status EXCEPT ![c] = "bypassed"]
    /\ queue' = {d \in queue : address[d] \notin purge}
    /\ UNCHANGED <<callVars, stopped, workerVars>>

\* A CRITICAL command, stopped or not: _purge_commands drops the queued commands
\* of the purged addresses, superseding those whose caller still waits.
Critical(c, purge) ==
    LET dropped == {d \in queue : address[d] \in purge} IN
    /\ status[c] = "new"
    /\ status' = [d \in Command |->
                    IF d = c THEN "bypassed"
                    ELSE IF d \in dropped /\ status[d] = "waiting" THEN "superseded"
                    ELSE status[d]]
    /\ queue' = queue \ dropped
    /\ UNCHANGED <<callVars, stopped, workerVars>>

\* The task awaiting the future is cancelled: the future is done, the command
\* stays in the queue.
Abandon(c) ==
    /\ status[c] = "waiting"
    /\ status' = [status EXCEPT ![c] = "abandoned"]
    /\ UNCHANGED <<callVars, queue, stopped, workerVars>>

-----------------------------------------------------------------------------
(* _worker *)

\* Mutants: the priority, or the timestamp, takes no part in the order.
BeforeFifo(c, d) == stamp[c] <= stamp[d]
BeforePriorityOnly(c, d) == priority[c] <= priority[d]

Before(c, d) ==
    \/ priority[c] < priority[d]
    \/ priority[c] = priority[d] /\ stamp[c] <= stamp[d]

\* heappop
First(q) == {c \in q : \A d \in q : Before(c, d)}

\* One pass of the loop while the interval has not elapsed: sleep with the next
\* command in hand, or wait for the event (one left set is consumed at once).
Fetch(q, event) ==
    \/ /\ q = {}
       /\ queue' = {}
       /\ hand' = None
       /\ worker' = "waiting"
       /\ available' = FALSE
    \/ /\ hand' \in First(q)
       /\ queue' = q \ {hand'}
       /\ worker' = "sleeping"
       /\ available' = event

\* Mutant: _last_command_time is not updated.
GrantUntimed(c) ==
    /\ status' = IF status[c] = "waiting" THEN [status EXCEPT ![c] = "granted"] ELSE status
    /\ gap' = IF status[c] = "waiting" THEN 0 ELSE gap
    /\ UNCHANGED <<since, inverted>>

\* _last_command_time is set and the future resolved unless its caller is gone.
Grant(c) ==
    LET live == status[c] = "waiting" IN
    /\ since' = 0
    /\ status' = IF live THEN [status EXCEPT ![c] = "granted"] ELSE status
    /\ gap' = IF live THEN 0 ELSE gap
    /\ inverted' = [d \in Command |->
                     IF live /\ d \in queue \ {c} /\ priority[d] < priority[c]
                       THEN inverted[d] + 1 ELSE inverted[d]]

\* A pass that starts with nothing in hand; a free slot is granted at once and
\* the loop goes round once more without an await.
Pass(event) ==
    \/ /\ since < Interval \/ queue = {}
       /\ Fetch(queue, event)
       /\ UNCHANGED <<status, since, gap, inverted>>
    \/ /\ since = Interval
       /\ \E c \in First(queue) : Grant(c) /\ Fetch(queue \ {c}, event)

WorkerStarts ==
    /\ worker = "ready"
    /\ Pass(available)
    /\ UNCHANGED <<callVars, stopped>>

WorkerWakes ==
    /\ worker = "waiting"
    /\ available
    /\ Pass(FALSE)
    /\ UNCHANGED <<callVars, stopped>>

WorkerGrants ==
    /\ worker = "sleeping"
    /\ since = Interval
    /\ Grant(hand)
    /\ Fetch(queue, available)
    /\ UNCHANGED <<callVars, stopped>>

\* stop(): the worker task is cancelled where it awaits and the queue rejected.
Stop ==
    /\ ~stopped
    /\ stopped' = TRUE
    /\ available' = TRUE
    /\ worker' = "done"
    /\ status' = [c \in Command |-> IF c \in queue /\ status[c] = "waiting"
                                      THEN "rejected" ELSE status[c]]
    /\ queue' = {}
    /\ UNCHANGED <<callVars, hand, since, gap, inverted>>

\* _detect_burst evicts the entries that are older than the window.
Evicted(age) == IF age = None \/ age = BurstWindow THEN None ELSE age + 1

Tick ==
    /\ since < Interval \/ gap < Interval \/ \E c \in Command : burstAge[c] # None
    /\ since' = IF since < Interval THEN since + 1 ELSE since
    /\ gap' = IF gap < Interval THEN gap + 1 ELSE gap
    /\ burstAge' = [c \in Command |-> Evicted(burstAge[c])]
    /\ UNCHANGED <<status, entryVars, queue, hand, worker, available, stopped, inverted>>

Worker == WorkerStarts \/ WorkerWakes \/ WorkerGrants

Next ==
    \/ \E c \in Command, p \in {HIGH, LOW} :
          AcquireStopped(c, p) \/ \E a \in Address : Acquire(c, p, a)
    \/ \E c \in Command : Abandon(c) \/ \E purge \in SUBSET Address : Critical(c, purge)
    \/ Worker
    \/ Stop
    \/ Tick

Spec == Init /\ [][Next]_vars

\* The event loop runs the worker task and the clock.
FairSpec == Spec /\ WF_vars(Worker) /\ WF_vars(Tick)

-----------------------------------------------------------------------------
(* Properties *)

\* No lost wakeup: the worker never sleeps on the event while a command is
\* queued, although it tests the queue and the event in separate steps and
\* purges empty the queue between set() and the wakeup.
NoLostWakeup == worker = "waiting" /\ ~available => queue = {}

\* Until stop(), a caller that waits is in the queue or is the one command the
\* worker holds, so its future will be resolved.
WaitersHeld ==
    ~stopped => \A c \in Command : status[c] = "waiting" => c \in queue \/ c = hand

\* Commands that went through the queue reach the backend at least Interval
\* apart, and never two in one step.
Spacing ==
    [][LET sent == {c \in Command : status[c] = "waiting" /\ status'[c] = "granted"}
       IN  sent # {} => gap = Interval /\ Cardinality(sent) = 1]_vars

\* command_throttle.py:21 "Within same priority, FIFO order is maintained".
FifoWithinPriority ==
    [][\A c, d \in Command :
          (/\ status[c] = "waiting" /\ status'[c] = "waiting"
           /\ status[d] = "waiting" /\ status'[d] = "granted"
           /\ priority[c] = priority[d])
          => stamp[d] < stamp[c]]_vars

\* A HIGH command waits behind at most one LOW command that comes before it in
\* no order: the one the worker had in hand when the HIGH command arrived.
AtMostOneInversion == \A c \in Command : inverted[c] <= 1

\* To its callers the throttle is the queue of QueueContract: arrivals, purges, callers
\* that give up and a worker that sleeps with a command in its hand only ever serve the
\* waiting commands in that order and at that pace.
Queue == INSTANCE QueueContract WITH
    fresh <- {c \in Command : status[c] = "new"},
    waiting <- {c \in Command : status[c] = "waiting"},
    served <- {c \in Command : status[c] = "granted"},
    rank <- priority, number <- stamp,
    overtaken <- {c \in Command : status[c] = "waiting" /\ inverted[c] > 0}, quiet <- gap
ImplementsQueue == Queue!ContractSpec

\* Every caller is released unless the throttle is stopped.
Served ==
    \A c \in Command : (status[c] = "waiting") ~> (status[c] # "waiting" \/ stopped)
=============================================================================
