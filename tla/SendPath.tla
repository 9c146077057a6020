------------------------------ MODULE SendPath ------------------------------
(***************************************************************************)
(* Sending values to a device, from GenericDataPoint.send_value and        *)
(* CallParameterCollector.send_data through InterfaceClient.set_value and  *)
(* put_paramset to the backend, and back through GenericDataPoint.event:   *)
(* the optimistic values (OptimisticValue), the retry handler              *)
(* (CommandRetry) and the in-flight store.                                 *)
(*                                                                         *)
(* The data points belong to one channel group of a device with events and *)
(* RPC callbacks and have been read once (state_uncertain is False).  A    *)
(* command is one service call and is used once.  A batch is the           *)
(* sequence of paramsets its collector sends; a paramset is the sequence   *)
(* of its data points, which all get the value of the command; a direct    *)
(* send is a batch of one data point.  The throttle is an await that ends  *)
(* with a grant or, when a CRITICAL command purges the queue, with         *)
(* CommandSupersededError (CommandThrottle has the details).               *)
(***************************************************************************)
EXTENDS CommandRetry, OptimisticValue, Sequences, SequencesExt

CONSTANTS Sends,      \* command -> the service calls it may be
          Manual,     \* the data points that are also operated at the device
          MaxChanges  \* bound: value changes at the device itself

\* direct: send_value without a collector.  retry: the effective retry flag.
\* purge: the command is CRITICAL; such a command (the stop of a cover) sends
\* one paramset.  A collector has a paramset from its first parameter on.
ASSUME SendsAssumption ==
    \A s \in UNION {Sends[c] : c \in Command} :
        /\ {s.direct, s.retry, s.purge} \subseteq BOOLEAN
        /\ s.batch \in Seq(Seq(Key) \ {<<>>}) \ {<<>>}
        /\ s.value \in Value
        /\ s.direct => \E d \in Key : s.batch = <<<<d>>>>
        /\ s.purge => Len(s.batch) = 1

VARIABLES
    pc,        \* command -> "new", "throttle", "purged", "sending", "end"
    batch,     \* command -> its batch
    value,     \* command -> the value it sends
    retry,     \* command -> its effective retry flag
    part,      \* command -> index of the paramset it is sending
    applied,   \* the commands whose current call the CCU has carried out
    inFlight,  \* _in_flight_commands: data point -> staged value or None
    opt,       \* data point -> its OptimisticValueTracker
    current,   \* data point -> _current_value
    device,    \* data point -> value at the CCU
    events,    \* data point -> events on their way to the central
    changes,   \* number of changes at the device so far
    reported,  \* history: data point -> value of its last event
    burst,     \* history: data point -> sends since it last showed what was reported, up to 2
    stager,    \* history: data point -> the command that staged it last
    failed     \* history: the data points whose last send ended with an error

sendVars == <<batch, value, retry>>
backVars == <<device, events, changes>>
vars == <<retryVars, pc, sendVars, part, applied, inFlight, opt, current, backVars,
          reported, burst, stager, failed>>

\* The data points of the paramset c is sending, and the key it registers: that
\* of the first parameter.
Part(c) == ToSet(batch[c][part[c]])
PartKey(c) == Head(batch[c][part[c]])

\* All the data points of the batch of c.
Targets(c) == UNION {ToSet(batch[c][i]) : i \in DOMAIN batch[c]}

TypeOK ==
    /\ RetryTypeOK
    /\ pc \in [Command -> {"new", "throttle", "purged", "sending", "end"}]
    /\ value \in [Command -> Value]
    /\ retry \in [Command -> BOOLEAN]
    /\ part \in [Command -> Nat \ {0}]
    /\ applied \subseteq Command
    /\ inFlight \in [Key -> Value \cup {None}]
    /\ opt \in [Key -> Tracker]
    /\ current \in [Key -> Value]
    /\ device \in [Key -> Value]
    /\ events \in [Key -> Seq(Value)]
    /\ stager \in [Key -> Command \cup {NoCommand}]
    /\ failed \subseteq Key

Init ==
    /\ RetryInit
    /\ key = [c \in Command |-> CHOOSE k \in Key : TRUE]
    /\ pc = [c \in Command |-> "new"]
    /\ batch = [c \in Command |-> <<>>]
    /\ value = [c \in Command |-> CHOOSE v \in Value : TRUE]
    /\ retry = [c \in Command |-> TRUE]
    /\ part = [c \in Command |-> 1]
    /\ applied = {}
    /\ inFlight = [d \in Key |-> None]
    /\ opt = [d \in Key |-> NoOptimistic]
    /\ device = [d \in Key |-> CHOOSE v \in Value : TRUE]
    /\ current = device
    /\ events = [d \in Key |-> <<>>]
    /\ changes = 0
    /\ reported = device
    /\ burst = [d \in Key |-> 0]
    /\ stager = [d \in Key |-> NoCommand]
    /\ failed = {}

-----------------------------------------------------------------------------
(* Sending. *)

\* set_value or put_paramset up to throttle.acquire: a CRITICAL command cancels
\* the retries of its channel group and purges the queued commands.  Not queued
\* are one in the worker's hand, one granted and not resumed and one that is
\* CRITICAL itself; the queue is CommandThrottle's, so here any may be spared.
Enter(c, purge) ==
    /\ \E spared \in SUBSET {x \in Command : pc[x] = "throttle"} :
          pc' = [x \in Command |-> IF x = c THEN "throttle"
                                   ELSE IF purge /\ pc[x] = "throttle" /\ x \notin spared
                                     THEN "purged" ELSE pc[x]]
    /\ IF purge THEN CancelRetries(Key) ELSE UNCHANGED retryVars

\* apply_optimistic_value for the data points D.
ApplyOptimistic(D, v) ==
    /\ opt' = [d \in Key |-> IF d \in D THEN Apply(opt[d], v, current[d]) ELSE opt[d]]
    /\ burst' = [d \in Key |-> IF d \in D /\ burst[d] < 2 THEN burst[d] + 1 ELSE burst[d]]

\* GenericDataPoint.send_value without a collector sends nothing if the value is
\* the current one or is already pending.
SendsDirect(d, v) == v # current[d] /\ ~(IsActive(opt[d]) /\ opt[d].value = v)

\* send_value, or CallParameterCollector.send_data: all optimistic values first,
\* then the paramsets one after the other.
Send(c, s) ==
    /\ pc[c] = "new"
    /\ s.direct => SendsDirect(Head(Head(s.batch)), s.value)
    /\ LET targets == UNION {ToSet(s.batch[i]) : i \in DOMAIN s.batch}
       IN ApplyOptimistic(targets, s.value) /\ failed' = failed \ targets
    /\ batch' = [batch EXCEPT ![c] = s.batch]
    /\ value' = [value EXCEPT ![c] = s.value]
    /\ retry' = [retry EXCEPT ![c] = s.retry]
    /\ Enter(c, s.purge)
    /\ UNCHANGED <<part, applied, inFlight, current, backVars, reported,
                   stager>>

\* _stage_in_flight_value and _stage_in_flight_paramset.
Stage(c) ==
    /\ inFlight' = [d \in Key |-> IF d \in Part(c) THEN value[c] ELSE inFlight[d]]
    /\ stager' = [d \in Key |-> IF d \in Part(c) THEN c ELSE stager[d]]

\* The throttle grants the command: it stages its values and the first attempt
\* starts.
Granted(c) ==
    /\ pc[c] = "throttle"
    /\ pc' = [pc EXCEPT ![c] = "sending"]
    /\ Stage(c)
    /\ IF retry[c] THEN Execute(c, PartKey(c)) ELSE ExecuteDirect(c)
    /\ applied' = applied \ {c}
    /\ UNCHANGED <<sendVars, part, opt, current, backVars, reported, burst, failed>>

\* Mutant: the marker goes whoever staged it.
ClearAnyInFlight(c) == inFlight' = [d \in Key |-> IF d \in Part(c) THEN None ELSE inFlight[d]]

\* The values in the in-flight store after c has dropped its own: a marker goes
\* if its value is that of the command.
ClearInFlight(c) ==
    inFlight' = [d \in Key |-> IF d \in Part(c) /\ inFlight[d] = value[c]
                               THEN None ELSE inFlight[d]]

\* send_data goes on with the next paramset, if there is one.
NextPart(c) ==
    IF part[c] < Len(batch[c])
    THEN /\ part' = [part EXCEPT ![c] = @ + 1]
         /\ pc' = [pc EXCEPT ![c] = "throttle"]
    ELSE /\ pc' = [pc EXCEPT ![c] = "end"]
         /\ UNCHANGED part

\* The queued command was purged: set_value returns an empty set.
Purged(c) ==
    /\ pc[c] = "purged"
    /\ NextPart(c)
    /\ UNCHANGED <<retryVars, sendVars, applied, inFlight, opt, current, backVars,
                   reported, burst, stager, failed>>

\* The backend call returned; without wait_for_callback, the default, the batch
\* goes on at once.
Sent(c) ==
    /\ pc[c] = "sending"
    /\ c \in applied
    /\ Return(c)
    /\ applied' = applied \ {c}
    /\ ClearInFlight(c)
    /\ NextPart(c)
    /\ UNCHANGED <<sendVars, opt, current, backVars, reported, burst, stager, failed>>

\* rollback_optimistic_value of the data points D; it ignores inactive ones.
RollbackValues(D) ==
    LET hit == {d \in D : IsActive(opt[d])}
    IN /\ opt' = [d \in Key |-> IF d \in hit THEN Rollback(opt[d]) ELSE opt[d]]
       /\ current' = [d \in Key |-> IF d \in hit THEN opt[d].previous ELSE current[d]]
       /\ burst' = [d \in Key |-> IF d \in hit /\ burst[d] = 1 THEN 0 ELSE burst[d]]

\* The data points of c's paramset that no other command is sending.
Alone(c) ==
    {d \in Part(c) : \A x \in Command \ {c} : d \in Targets(x) => pc[x] \in {"new", "end"}}

\* The last error is one of the library's own: set_value raises ClientException
\* and its @inspector(re_raise=False) turns that into an empty set.  The caller
\* learns of no error: nothing is rolled back and the batch goes on.
Failed(c) ==
    /\ pc[c] = "sending"
    /\ RaiseFinal(c) \/ RaiseExhausted(c) \/ RaiseNoConnection(c)
    /\ ClearInFlight(c)
    /\ NextPart(c)
    /\ failed' = failed \cup Alone(c)
    /\ UNCHANGED <<sendVars, applied, opt, current, backVars, reported, burst, stager>>

\* An unexpected error passes through: the values of this paramset are rolled
\* back and the error ends the batch.
Broken(c) ==
    /\ pc[c] = "sending"
    /\ RaiseFinal(c)
    /\ ClearInFlight(c)
    /\ RollbackValues(Part(c))
    /\ pc' = [pc EXCEPT ![c] = "end"]
    /\ failed' = failed \cup Alone(c)
    /\ UNCHANGED <<sendVars, part, applied, backVars, reported, stager>>

\* CommandSupersededError: set_value returns an empty set, nothing is rolled
\* back and the batch goes on.
Superseded(c) ==
    /\ pc[c] = "sending"
    /\ RaiseSuperseded(c)
    /\ ClearInFlight(c)
    /\ NextPart(c)
    /\ UNCHANGED <<sendVars, applied, opt, current, backVars, reported,
                   burst, stager, failed>>

\* The task of the service call is cancelled at an await: CancelledError is no
\* Exception, so nothing is rolled back.
Cancelled(c) ==
    /\ pc[c] \in {"throttle", "purged", "sending"}
    /\ IF pc[c] = "sending" THEN Abandon(c) /\ ClearInFlight(c)
                            ELSE UNCHANGED <<retryVars, inFlight>>
    /\ pc' = [pc EXCEPT ![c] = "end"]
    /\ UNCHANGED <<sendVars, part, applied, opt, current, backVars, reported,
                   burst, stager, failed>>

-----------------------------------------------------------------------------
(* The retry loop while the command is being sent. *)

otherVars == <<pc, sendVars, part, inFlight, opt, current, backVars, reported,
               burst, stager, failed>>

Transient(c) == (\E w \in {"sleep", "recovery"} : WaitToRetry(c, w)) /\ UNCHANGED <<otherVars, applied>>

Retry(c) == NextAttempt(c) /\ applied' = applied \ {c} /\ UNCHANGED otherVars

WaitOver(c) == (DelayOver(c) \/ RecoveryWaitOver(c)) /\ UNCHANGED <<otherVars, applied>>

Recovered == RecoveryCompleted /\ UNCHANGED <<otherVars, applied>>

\* stop() of the client, with retries to cancel.
Stop ==
    /\ Registered(Key) # {}
    /\ CancelRetries(Key)
    /\ UNCHANGED <<otherVars, applied>>

-----------------------------------------------------------------------------
(* The CCU, the events and the timers. *)

\* The CCU carries out a call, whatever the caller will learn of it; each data
\* point's event is queued or lost.
CcuApplies(c, delivered) ==
    /\ loop[c] \in Calling
    /\ c \notin applied
    /\ applied' = applied \cup {c}
    /\ device' = [d \in Key |-> IF d \in Part(c) THEN value[c] ELSE device[d]]
    /\ events' = [d \in Key |-> IF d \in Part(c) /\ delivered
                                THEN Append(events[d], value[c]) ELSE events[d]]
    /\ UNCHANGED <<retryVars, pc, sendVars, part, inFlight, opt, current, changes,
                   reported, burst, stager, failed>>

\* The value changes at the device.
DeviceChanges(d, v) ==
    /\ d \in Manual
    /\ changes < MaxChanges
    /\ v # device[d]
    /\ changes' = changes + 1
    /\ device' = [device EXCEPT ![d] = v]
    /\ events' = [events EXCEPT ![d] = Append(@, v)]
    /\ UNCHANGED <<retryVars, pc, sendVars, part, applied, inFlight, opt, current,
                   reported, burst, stager, failed>>

\* GenericDataPoint.event: one send is confirmed, whatever the value, which
\* becomes the current one.
Event(d) ==
    /\ events[d] # <<>>
    /\ LET v == Head(events[d])
       IN /\ opt' = [opt EXCEPT ![d] = Confirm(@)]
          /\ burst' = [burst EXCEPT ![d] = IF IsActive(opt'[d]) THEN @ ELSE 0]
          /\ current' = [current EXCEPT ![d] = v]
          /\ reported' = [reported EXCEPT ![d] = v]
    /\ events' = [events EXCEPT ![d] = Tail(@)]
    /\ UNCHANGED <<retryVars, pc, sendVars, part, applied, inFlight, device, changes, stager, failed>>

\* The rollback timer: rollback_optimistic_value with reason timeout.
TimerFires(d) ==
    /\ opt[d].timer
    /\ RollbackValues({d})
    /\ UNCHANGED <<retryVars, pc, sendVars, part, applied, inFlight, backVars, reported, stager, failed>>

-----------------------------------------------------------------------------
Step(c) ==
    \/ Granted(c) \/ Purged(c)
    \/ Sent(c) \/ Failed(c) \/ Broken(c) \/ Superseded(c)
    \/ Transient(c) \/ Retry(c) \/ WaitOver(c)

Next ==
    \/ \E c \in Command :
          \/ \E s \in Sends[c] : Send(c, s)
          \/ Step(c) \/ Cancelled(c)
          \/ \E delivered \in BOOLEAN : CcuApplies(c, delivered)
    \/ Recovered
    \/ Stop
    \/ \E d \in Key :
          \/ Event(d) \/ TimerFires(d)
          \/ \E v \in Value : DeviceChanges(d, v)

Spec == Init /\ [][Next]_vars

\* Every await of a command ends: the throttle serves its queue, a backend call
\* has a timeout, the delays and the recovery wait are timers.
FairSpec == Spec /\ \A c \in Command : WF_vars(Step(c))

-----------------------------------------------------------------------------
(* Properties. *)

\* A command in the retry loop is the one registered for its key or has been told
\* to stop, and the registry holds no command that has left the loop
\* (command_retry.py: _register_retry, the finally clause, _cancel_retry_for_dpk).
RegisteredOrCancelled ==
    /\ \A c \in Command : loop[c] \in Retrying => active[key[c]] = c \/ c \in cancelled
    /\ \A k \in Key : active[k] # NoCommand => /\ loop[active[k]] \in Retrying
                                               /\ key[active[k]] = k

\* An attempt of a retried command is only started while no newer command, purge
\* or stop() has taken its place, however its wait ended
\* (command_retry.py: the check at the head of the loop).
NoAttemptOnceSuperseded ==
    [][\A c \in Command : loop[c] # "call" /\ loop'[c] = "call" => active'[key'[c]] = c]_vars

\* While the command that staged a data point last is being sent, readers of
\* unconfirmed_last_value_send find its value whatever events arrive, as long as
\* no other command sends the same value to that data point
\* (interface_client.py: _stage_in_flight_value, _clear_in_flight_value).
EchoKeepsFallback ==
    \A d \in Key, c \in Command :
        /\ stager[d] = c
        /\ pc[c] = "sending"
        /\ d \in Part(c)
        /\ \A x \in Command \ {c} : d \in Targets(x) => value[x] # value[c]
        => inFlight[d] = value[c]

\* A rollback of the only value that was sent since the data point last showed what
\* the CCU had reported restores that report, whatever events came before and
\* whichever error or timer rolls it back.  A rollback of several sends need not: it
\* goes back to the value before the first of them, and a later one then goes back to
\* that (data_point.py: rollback_optimistic_value, optimistic.py: apply).
LoneRollbackRestoresReported ==
    [][\A d \in Key : IsActive(opt[d]) /\ ~IsActive(opt'[d]) /\ events'[d] = events[d]
                      /\ burst[d] = 1
                      => current'[d] = reported[d]]_vars

\* A command that has begun and not ended can always go on by itself: none waits
\* for an event that need not come, such as a recovery that was over before
\* _wait_for_recovery subscribed or a purge that took it from the queue.  Every
\* step brings a command nearer to its end, so that with FairSpec it ends
\* (command_retry.py: _wait_for_recovery).
NeverStuck == \A c \in Command : pc[c] \notin {"new", "end"} => ENABLED Step(c)

\* The documented answer to a send that ended with an error after all retries:
\* its optimistic value is rolled back at once (generic/data_point.py:223-226,
\* data_point.py:1777-1787).
ErrorRollsBack == \A d \in failed : ~IsActive(opt[d])
=============================================================================
