--------------------------- MODULE SendPathProofs ---------------------------
(***************************************************************************)
(* Proofs about SendPath for any set of commands, data points and values,  *)
(* any batches and any number of attempts.  Three inductive invariants:    *)
(* RetryInv about the registry of the retry handler, BatchInv and EchoInv  *)
(* about the paramsets and the in-flight store, and OptimisticInv about    *)
(* the optimistic values.                                                  *)
(***************************************************************************)
EXTENDS SendPath, TLAPS

-----------------------------------------------------------------------------
(* The retry handler. *)

\* A command that waits has an attempt left.
AttemptsLeft == \A c \in Command : loop[c] \in Waiting => attempt[c] < MaxAttempts

RetryInv == RetryTypeOK /\ AttemptsLeft /\ RegisteredOrCancelled

LEMMA RetryInvInit == RetryInit => RetryInv
BY RetryAssumption DEF RetryInit, RetryInv, RetryTypeOK, AttemptsLeft, RegisteredOrCancelled,
                       Waiting, Retrying

LEMMA ExecuteDirectKeeps ==
    ASSUME RetryInv, NEW c \in Command, ExecuteDirect(c) PROVE RetryInv'
<1>1. RetryTypeOK'
  BY DEF RetryInv, RetryTypeOK, ExecuteDirect
<1>2. AttemptsLeft'
  BY DEF RetryInv, RetryTypeOK, AttemptsLeft, ExecuteDirect, Waiting
<1>3. RegisteredOrCancelled'
  BY DEF RetryInv, RetryTypeOK, RegisteredOrCancelled, ExecuteDirect, Retrying, Waiting
<1> QED  BY <1>1, <1>2, <1>3 DEF RetryInv

\* The command that is pushed out of the registry is told to stop.
LEMMA ExecuteKeeps ==
    ASSUME RetryInv, NEW c \in Command, NEW k \in Key, Execute(c, k) PROVE RetryInv'
<1>1. /\ loop[c] = "idle" /\ loop' = [loop EXCEPT ![c] = "call"]
      /\ active' = [active EXCEPT ![k] = c]
      /\ cancelled' = cancelled \cup ({active[k]} \ {NoCommand})
      /\ attempt' = [attempt EXCEPT ![c] = 1] /\ key' = [key EXCEPT ![c] = k]
  BY DEF Execute
<1>2. RetryTypeOK'
  BY <1>1, RetryAssumption DEF RetryInv, RetryTypeOK, Retrying
<1>3. AttemptsLeft'
  BY <1>1 DEF RetryInv, RetryTypeOK, AttemptsLeft, Waiting
<1>4. ASSUME NEW d \in Command, loop'[d] \in Retrying
      PROVE  active'[key'[d]] = d \/ d \in cancelled'
  <2>1. CASE d = c
    BY <1>1, <2>1 DEF RetryInv, RetryTypeOK
  <2>2. CASE d # c
    <3>1. loop[d] \in Retrying /\ key'[d] = key[d] /\ key[d] \in Key
      BY <1>1, <1>4, <2>2 DEF RetryInv, RetryTypeOK
    <3>2. active[key[d]] = d \/ d \in cancelled
      BY <3>1 DEF RetryInv, RegisteredOrCancelled
    <3>3. d # NoCommand
      BY RetryAssumption
    <3> QED  BY <1>1, <3>1, <3>2, <3>3 DEF RetryInv, RetryTypeOK
  <2> QED  BY <2>1, <2>2
<1>5. ASSUME NEW j \in Key, active'[j] # NoCommand
      PROVE  loop'[active'[j]] \in Retrying /\ key'[active'[j]] = j
  <2>1. CASE j = k
    BY <1>1, <2>1 DEF RetryInv, RetryTypeOK, Retrying
  <2>2. CASE j # k
    <3>1. active'[j] = active[j] /\ active[j] \in Command
      BY <1>1, <1>5, <2>2 DEF RetryInv, RetryTypeOK
    <3>2. loop[active[j]] \in Retrying /\ key[active[j]] = j
      BY <1>5, <3>1 DEF RetryInv, RegisteredOrCancelled
    <3>3. active[j] # c
      BY <1>1, <3>2 DEF Retrying, Waiting
    <3> QED  BY <1>1, <3>1, <3>2, <3>3 DEF RetryInv, RetryTypeOK
  <2> QED  BY <2>1, <2>2
<1> QED  BY <1>2, <1>3, <1>4, <1>5 DEF RetryInv, RegisteredOrCancelled

\* Leaving the loop takes the entry along only if it is the command's own.
LEMMA LeaveKeeps == ASSUME RetryInv, NEW c \in Command, Leave(c) PROVE RetryInv'
<1>1. /\ loop' = [loop EXCEPT ![c] = "idle"] /\ cancelled' = cancelled \ {c}
      /\ attempt' = [attempt EXCEPT ![c] = 0] /\ key' = key
  BY DEF Leave
<1>2. active' = IF loop[c] \in Retrying /\ active[key[c]] = c
                THEN [active EXCEPT ![key[c]] = NoCommand] ELSE active
  BY DEF Leave, Unregister
<1>3. RetryTypeOK'
  <2>1. active' \in [Key -> Command \cup {NoCommand}]
    BY <1>2 DEF RetryInv, RetryTypeOK
  <2>2. loop' \in [Command -> {"idle", "direct"} \cup Retrying]
    BY <1>1 DEF RetryInv, RetryTypeOK
  <2>3. attempt' \in [Command -> 0 .. MaxAttempts]
    BY <1>1, RetryAssumption DEF RetryInv, RetryTypeOK
  <2> QED  BY <1>1, <2>1, <2>2, <2>3 DEF RetryInv, RetryTypeOK
<1>4. AttemptsLeft'
  BY <1>1 DEF RetryInv, RetryTypeOK, AttemptsLeft, Waiting
<1>5. ASSUME NEW k \in Key PROVE active'[k] \in {active[k], NoCommand} /\ active'[k] # c
  BY <1>2, RetryAssumption DEF RetryInv, RetryTypeOK, RegisteredOrCancelled
<1>6. ASSUME NEW k \in Key, active[k] # c PROVE active'[k] = active[k]
  BY <1>2, <1>6 DEF RetryInv, RetryTypeOK
<1>7. \A d \in Command : loop'[d] \in Retrying => d # c /\ loop[d] = loop'[d]
  BY <1>1 DEF RetryInv, RetryTypeOK, Retrying, Waiting
<1>8. ASSUME NEW d \in Command, loop'[d] \in Retrying
      PROVE  active'[key'[d]] = d \/ d \in cancelled'
  BY <1>1, <1>6, <1>7, <1>8 DEF RetryInv, RetryTypeOK, RegisteredOrCancelled
<1>9. ASSUME NEW j \in Key, active'[j] # NoCommand
      PROVE  loop'[active'[j]] \in Retrying /\ key'[active'[j]] = j
  BY <1>1, <1>5, <1>9 DEF RetryInv, RetryTypeOK, RegisteredOrCancelled
<1> QED  BY <1>3, <1>4, <1>8, <1>9 DEF RetryInv, RegisteredOrCancelled

\* A command moves on inside the loop.
LEMMA MovesOn ==
    ASSUME RetryInv, NEW c \in Command, NEW p \in Retrying, loop[c] \in Retrying,
           loop' = [loop EXCEPT ![c] = p], attempt' \in [Command -> 0 .. MaxAttempts],
           \A d \in Command \ {c} : attempt'[d] = attempt[d],
           p \in Waiting => attempt'[c] < MaxAttempts,
           UNCHANGED <<active, cancelled, key>>
    PROVE  RetryInv'
<1>1. RetryTypeOK'
  BY DEF RetryInv, RetryTypeOK
<1>2. AttemptsLeft'
  BY DEF RetryInv, RetryTypeOK, AttemptsLeft
<1>3. \A d \in Command : loop'[d] \in Retrying <=> loop[d] \in Retrying
  BY DEF RetryInv, RetryTypeOK
<1>4. RegisteredOrCancelled'
  BY <1>3 DEF RetryInv, RetryTypeOK, RegisteredOrCancelled
<1> QED  BY <1>1, <1>2, <1>4 DEF RetryInv

LEMMA WaitKeeps ==
    ASSUME RetryInv, NEW c \in Command,
           (\E w \in {"sleep", "recovery"} : WaitToRetry(c, w)) \/ DelayOver(c) \/ RecoveryWaitOver(c)
    PROVE  RetryInv'
<1>1. PICK p \in Waiting : loop' = [loop EXCEPT ![c] = p]
  BY DEF WaitToRetry, DelayOver, RecoveryWaitOver, Waiting
<1>2. loop[c] \in Retrying /\ attempt[c] < MaxAttempts
  BY DEF WaitToRetry, DelayOver, RecoveryWaitOver, Waiting, Retrying, RetryInv, AttemptsLeft
<1>3. UNCHANGED <<active, cancelled, attempt, key>>
  BY DEF WaitToRetry, DelayOver, RecoveryWaitOver
<1>4. p \in Retrying /\ attempt \in [Command -> 0 .. MaxAttempts]
  BY DEF Retrying, RetryInv, RetryTypeOK
<1> QED  BY <1>1, <1>2, <1>3, <1>4, MovesOn

LEMMA NextAttemptKeeps == ASSUME RetryInv, NEW c \in Command, NextAttempt(c) PROVE RetryInv'
<1>1. /\ loop[c] \in Waiting /\ loop' = [loop EXCEPT ![c] = "call"]
      /\ attempt' = [attempt EXCEPT ![c] = attempt[c] + 1]
      /\ UNCHANGED <<active, cancelled, key>>
  BY DEF NextAttempt, Waiting
<1>2. attempt[c] < MaxAttempts /\ attempt[c] \in 0 .. MaxAttempts
  BY <1>1 DEF RetryInv, AttemptsLeft, RetryTypeOK
<1>3. attempt' \in [Command -> 0 .. MaxAttempts] /\ \A d \in Command \ {c} : attempt'[d] = attempt[d]
  BY <1>1, <1>2, RetryAssumption DEF RetryInv, RetryTypeOK
<1>4. loop[c] \in Retrying /\ "call" \in Retrying /\ "call" \notin Waiting
  BY <1>1 DEF Retrying, Waiting
<1> QED  BY <1>1, <1>3, <1>4, MovesOn

LEMMA RecoveryCompletedKeeps == ASSUME RetryInv, RecoveryCompleted PROVE RetryInv'
<1>1. /\ loop' = [c \in Command |-> IF loop[c] \in {"recovery", "expired"}
                                    THEN "recovered" ELSE loop[c]]
      /\ UNCHANGED <<active, cancelled, attempt, key>>
  BY DEF RecoveryCompleted
<1>2. RetryTypeOK'
  BY <1>1 DEF RetryInv, RetryTypeOK, Retrying, Waiting
<1>3. \A c \in Command : /\ loop'[c] \in Retrying <=> loop[c] \in Retrying
                         /\ loop'[c] \in Waiting <=> loop[c] \in Waiting
  BY <1>1 DEF Retrying, Waiting
<1>4. AttemptsLeft' /\ RegisteredOrCancelled'
  BY <1>1, <1>3 DEF RetryInv, RetryTypeOK, AttemptsLeft, RegisteredOrCancelled
<1> QED  BY <1>2, <1>4 DEF RetryInv

\* Whoever loses its entry to a purge or to stop() is told to stop.
LEMMA CancelRetriesKeeps ==
    ASSUME RetryInv, NEW K \in SUBSET Key, CancelRetries(K) PROVE RetryInv'
<1>1. /\ active' = [k \in Key |-> IF k \in K THEN NoCommand ELSE active[k]]
      /\ cancelled' = cancelled \cup ({active[k] : k \in K} \ {NoCommand})
      /\ UNCHANGED <<loop, attempt, key>>
  BY DEF CancelRetries, Registered
<1>2. RetryTypeOK' /\ AttemptsLeft'
  BY <1>1 DEF RetryInv, RetryTypeOK, AttemptsLeft
<1>3. ASSUME NEW d \in Command, loop[d] \in Retrying
      PROVE  active'[key[d]] = d \/ d \in cancelled'
  <2>1. key[d] \in Key /\ d # NoCommand /\ (active[key[d]] = d \/ d \in cancelled)
    BY <1>3, RetryAssumption DEF RetryInv, RetryTypeOK, RegisteredOrCancelled
  <2> QED  BY <1>1, <2>1
<1>4. RegisteredOrCancelled'
  BY <1>1, <1>3 DEF RetryInv, RegisteredOrCancelled
<1> QED  BY <1>2, <1>4 DEF RetryInv

LEMMA RetryUnchanged == ASSUME RetryInv, UNCHANGED retryVars PROVE RetryInv'
BY DEF retryVars, RetryInv, RetryTypeOK, AttemptsLeft, RegisteredOrCancelled

-----------------------------------------------------------------------------
(* The paramsets of a command. *)

Underway == {"throttle", "purged", "sending"}

\* A command has its batch and a paramset of it from its start to its end.
BatchInv ==
    /\ pc \in [Command -> {"new", "end"} \cup Underway]
    /\ batch \in [Command -> Seq(Seq(Key) \ {<<>>})]
    /\ value \in [Command -> Value]
    /\ part \in [Command -> Nat \ {0}]
    /\ \A c \in Command : pc[c] = "new" => batch[c] = <<>> /\ part[c] = 1
    /\ \A c \in Command : pc[c] \in Underway => part[c] \in 1 .. Len(batch[c])

LEMMA BatchInvInit == Init => BatchInv
<1> SUFFICES ASSUME Init PROVE BatchInv
  OBVIOUS
<1>1. (CHOOSE v \in Value : TRUE) \in Value
  BY ValueAssumption
<1> QED  BY <1>1 DEF Init, BatchInv, Underway

\* What the paramset of a command that is under way is made of.
LEMMA PartOfBatch ==
    ASSUME BatchInv, NEW c \in Command, pc[c] \in Underway
    PROVE  PartKey(c) \in Key /\ Part(c) \subseteq Targets(c)
<1>1. /\ batch[c] \in Seq(Seq(Key) \ {<<>>})
      /\ part[c] \in 1 .. Len(batch[c])
  BY DEF BatchInv
<1>2. part[c] \in DOMAIN batch[c] /\ batch[c][part[c]] \in Seq(Key) \ {<<>>}
  BY <1>1
<1>3. PartKey(c) \in Key
  BY <1>2 DEF PartKey
<1>4. Part(c) \in {ToSet(batch[c][i]) : i \in DOMAIN batch[c]}
  BY <1>2 DEF Part
<1> QED  BY <1>3, <1>4 DEF Targets

LEMMA SendKeepsBatch ==
    ASSUME BatchInv, NEW c \in Command, NEW s \in Sends[c], Send(c, s) PROVE BatchInv'
<1>1. /\ pc[c] = "new" /\ batch' = [batch EXCEPT ![c] = s.batch]
      /\ value' = [value EXCEPT ![c] = s.value] /\ part' = part
  BY DEF Send
<1>2. \E spared : pc' = [x \in Command |->
         IF x = c THEN "throttle"
         ELSE IF s.purge /\ pc[x] = "throttle" /\ x \notin spared THEN "purged" ELSE pc[x]]
  BY DEF Send, Enter
<1>3. s.batch \in Seq(Seq(Key) \ {<<>>}) \ {<<>>} /\ s.value \in Value
  BY SendsAssumption
<1>4. 1 \in 1 .. Len(s.batch)
  BY <1>3
<1>5. /\ pc' \in [Command -> {"new", "end"} \cup Underway]
      /\ batch' \in [Command -> Seq(Seq(Key) \ {<<>>})]
      /\ value' \in [Command -> Value]
      /\ part' \in [Command -> Nat \ {0}]
  <2>1. pc' \in [Command -> {"new", "end"} \cup Underway]
    BY <1>2 DEF BatchInv, Underway
  <2> QED  BY <1>1, <1>3, <2>1 DEF BatchInv
<1>6. ASSUME NEW x \in Command, x # c
      PROVE  /\ batch'[x] = batch[x] /\ part'[x] = part[x]
             /\ pc'[x] = "new" => pc[x] = "new"
             /\ pc'[x] \in Underway => pc[x] \in Underway
  BY <1>1, <1>2, <1>6 DEF BatchInv, Underway
<1>7. pc'[c] = "throttle" /\ batch'[c] = s.batch /\ part'[c] = 1
  BY <1>1, <1>2 DEF BatchInv
<1>8. \A x \in Command : pc'[x] = "new" => batch'[x] = <<>> /\ part'[x] = 1
  BY <1>6, <1>7 DEF BatchInv
<1>9. \A x \in Command : pc'[x] \in Underway => part'[x] \in 1 .. Len(batch'[x])
  BY <1>4, <1>6, <1>7 DEF BatchInv
<1> QED  BY <1>5, <1>8, <1>9 DEF BatchInv

\* A step of one command that stays under way or ends.
LEMMA BatchGoesOn ==
    ASSUME BatchInv, NEW c \in Command, pc[c] \in Underway, UNCHANGED <<batch, value>>,
           NEW p \in Underway \cup {"end"}, pc' = [pc EXCEPT ![c] = p],
           \/ UNCHANGED part
           \/ part[c] < Len(batch[c]) /\ part' = [part EXCEPT ![c] = @ + 1]
    PROVE  BatchInv'
<1>1. part[c] \in 1 .. Len(batch[c]) /\ Len(batch[c]) \in Nat
  BY DEF BatchInv
<1>2. part' \in [Command -> Nat \ {0}] /\ part'[c] \in 1 .. Len(batch[c])
  BY <1>1 DEF BatchInv
<1>3. \A x \in Command \ {c} : part'[x] = part[x] /\ pc'[x] = pc[x]
  BY DEF BatchInv
<1>4. pc'[c] = p /\ pc' \in [Command -> {"new", "end"} \cup Underway]
  BY DEF BatchInv
<1>5. \A x \in Command : pc'[x] = "new" => batch'[x] = <<>> /\ part'[x] = 1
  BY <1>3, <1>4 DEF BatchInv, Underway
<1>6. \A x \in Command : pc'[x] \in Underway => part'[x] \in 1 .. Len(batch'[x])
  BY <1>2, <1>3 DEF BatchInv
<1> QED  BY <1>2, <1>4, <1>5, <1>6 DEF BatchInv

LEMMA NextPartKeepsBatch ==
    ASSUME BatchInv, NEW c \in Command, pc[c] \in Underway, UNCHANGED <<batch, value>>, NextPart(c)
    PROVE  BatchInv'
<1>1. CASE part[c] < Len(batch[c])
  <2>1. part' = [part EXCEPT ![c] = @ + 1] /\ pc' = [pc EXCEPT ![c] = "throttle"]
    BY <1>1 DEF NextPart
  <2> QED  BY <1>1, <2>1, BatchGoesOn DEF Underway
<1>2. CASE ~(part[c] < Len(batch[c]))
  <2>1. part' = part /\ pc' = [pc EXCEPT ![c] = "end"]
    BY <1>2 DEF NextPart
  <2> QED  BY <2>1, BatchGoesOn
<1> QED  BY <1>1, <1>2

\* What a step of a command that is under way does to its paramsets.
LEMMA StepKeepsBatch ==
    ASSUME BatchInv, NEW c \in Command, Step(c) \/ Cancelled(c) PROVE BatchInv'
<1>1. CASE Granted(c)
  <2>1. /\ pc[c] = "throttle" /\ pc' = [pc EXCEPT ![c] = "sending"]
        /\ UNCHANGED <<batch, value, part>>
    BY <1>1 DEF Granted, sendVars
  <2> QED  BY <2>1, BatchGoesOn DEF Underway
<1>2. CASE Purged(c) \/ Sent(c) \/ Failed(c) \/ Superseded(c)
  <2>1. pc[c] \in Underway /\ UNCHANGED <<batch, value>> /\ NextPart(c)
    BY <1>2 DEF Purged, Sent, Failed, Superseded, sendVars, Underway
  <2> QED  BY <2>1, NextPartKeepsBatch
<1>3. CASE Broken(c) \/ Cancelled(c)
  <2>1. /\ pc[c] \in Underway /\ pc' = [pc EXCEPT ![c] = "end"]
        /\ UNCHANGED <<batch, value, part>>
    BY <1>3 DEF Broken, Cancelled, sendVars, Underway
  <2> QED  BY <2>1, BatchGoesOn
<1>4. CASE Transient(c) \/ Retry(c) \/ WaitOver(c)
  BY <1>4 DEF Transient, Retry, WaitOver, otherVars, sendVars, BatchInv
<1> QED  BY <1>1, <1>2, <1>3, <1>4 DEF Step

\* The steps that are no command's: recovery, stop(), the CCU, the device, the
\* events and the timers.
Around ==
    \/ \E c \in Command, delivered \in BOOLEAN : CcuApplies(c, delivered)
    \/ Recovered
    \/ Stop
    \/ \E d \in Key : Event(d) \/ TimerFires(d) \/ \E v \in Value : DeviceChanges(d, v)

LEMMA NextCases ==
    ASSUME Next
    PROVE  \/ \E c \in Command : \E s \in Sends[c] : Send(c, s)
           \/ \E c \in Command : Step(c) \/ Cancelled(c)
           \/ Around
BY DEF Next, Around

LEMMA AroundKeepsCommands == ASSUME Around PROVE UNCHANGED <<pc, batch, value, part, inFlight, stager>>
<1>1. CASE \E c \in Command, delivered \in BOOLEAN : CcuApplies(c, delivered)
  BY <1>1 DEF CcuApplies, sendVars
<1>2. CASE Recovered \/ Stop
  BY <1>2 DEF Recovered, Stop, otherVars, sendVars
<1>3. CASE \E d \in Key : Event(d) \/ TimerFires(d) \/ \E v \in Value : DeviceChanges(d, v)
  BY <1>3 DEF Event, TimerFires, DeviceChanges, sendVars
<1> QED  BY <1>1, <1>2, <1>3 DEF Around

LEMMA BatchInvStep == ASSUME BatchInv, [Next]_vars PROVE BatchInv'
<1>1. CASE Next
  <2>1. CASE Around
    BY <2>1, AroundKeepsCommands DEF BatchInv
  <2> QED  BY <1>1, <2>1, NextCases, SendKeepsBatch, StepKeepsBatch
<1>2. CASE UNCHANGED vars
  BY <1>2 DEF vars, sendVars, BatchInv
<1> QED  BY <1>1, <1>2

-----------------------------------------------------------------------------
(* The retry handler along the whole specification. *)

LEMMA StepKeepsRetry ==
    ASSUME BatchInv, RetryInv, NEW c \in Command, Step(c) \/ Cancelled(c) PROVE RetryInv'
<1>1. CASE Granted(c)
  <2>1. PartKey(c) \in Key
    BY <1>1, PartOfBatch DEF Granted, Underway
  <2>2. Execute(c, PartKey(c)) \/ ExecuteDirect(c)
    BY <1>1 DEF Granted
  <2> QED  BY <2>1, <2>2, ExecuteKeeps, ExecuteDirectKeeps
<1>2. CASE Sent(c) \/ Failed(c) \/ Broken(c) \/ Superseded(c)
  <2>1. Leave(c)
    BY <1>2 DEF Sent, Failed, Broken, Superseded, Return, RaiseFinal, RaiseExhausted,
                RaiseNoConnection, RaiseSuperseded
  <2> QED  BY <2>1, LeaveKeeps
<1>3. CASE Cancelled(c)
  <2>1. Leave(c) \/ UNCHANGED retryVars
    BY <1>3 DEF Cancelled, Abandon
  <2> QED  BY <2>1, LeaveKeeps, RetryUnchanged
<1>4. CASE Purged(c)
  <2>1. UNCHANGED retryVars
    BY <1>4 DEF Purged
  <2> QED  BY <2>1, RetryUnchanged
<1>5. CASE Transient(c) \/ WaitOver(c)
  BY <1>5, WaitKeeps DEF Transient, WaitOver
<1>6. CASE Retry(c)
  BY <1>6, NextAttemptKeeps DEF Retry
<1> QED  BY <1>1, <1>2, <1>3, <1>4, <1>5, <1>6 DEF Step

LEMMA AroundKeepsRetry == ASSUME RetryInv, Around PROVE RetryInv'
<1>1. CASE \E c \in Command, delivered \in BOOLEAN : CcuApplies(c, delivered)
  <2>1. UNCHANGED retryVars
    BY <1>1 DEF CcuApplies
  <2> QED  BY <2>1, RetryUnchanged
<1>2. CASE Recovered
  BY <1>2, RecoveryCompletedKeeps DEF Recovered
<1>3. CASE Stop
  BY <1>3, CancelRetriesKeeps DEF Stop
<1>4. CASE \E d \in Key : Event(d) \/ TimerFires(d) \/ \E v \in Value : DeviceChanges(d, v)
  <2>1. UNCHANGED retryVars
    BY <1>4 DEF Event, TimerFires, DeviceChanges
  <2> QED  BY <2>1, RetryUnchanged
<1> QED  BY <1>1, <1>2, <1>3, <1>4 DEF Around

LEMMA RetryInvStep == ASSUME BatchInv, RetryInv, [Next]_vars PROVE RetryInv'
<1>1. CASE Next
  <2>1. CASE \E c \in Command : \E s \in Sends[c] : Send(c, s)
    <3>1. CancelRetries(Key) \/ UNCHANGED retryVars
      BY <2>1 DEF Send, Enter
    <3> QED  BY <3>1, CancelRetriesKeeps, RetryUnchanged
  <2> QED  BY <1>1, <2>1, NextCases, StepKeepsRetry, AroundKeepsRetry
<1>2. CASE UNCHANGED vars
  <2>1. UNCHANGED retryVars
    BY <1>2 DEF vars
  <2> QED  BY <2>1, RetryUnchanged
<1> QED  BY <1>1, <1>2

LEMMA CommandInvariance == Spec => [](BatchInv /\ RetryInv)
<1>1. Init => BatchInv /\ RetryInv
  BY BatchInvInit, RetryInvInit DEF Init
<1>2. BatchInv /\ RetryInv /\ [Next]_vars => (BatchInv /\ RetryInv)'
  BY BatchInvStep, RetryInvStep
<1> QED  BY <1>1, <1>2, PTL DEF Spec

\* Whatever the commands, batches, purges, recoveries and cancellations: a command
\* in the retry loop is the registered one of its key or has been told to stop, and
\* no entry of _active_retries outlives its command (command_retry.py).
THEOREM RetriesRegistered == Spec => []RegisteredOrCancelled
<1>1. BatchInv /\ RetryInv => RegisteredOrCancelled
  BY DEF RetryInv
<1> QED  BY <1>1, CommandInvariance, PTL

\* The only steps into an attempt are the registration of the command and the head
\* of the loop.
LEMMA AttemptStarts ==
    ASSUME BatchInv, RetryInv, [Next]_vars, NEW c \in Command, loop[c] # "call", loop'[c] = "call"
    PROVE  active'[key'[c]] = c
<1>1. loop' # loop
  OBVIOUS
<1>2. Next
  BY <1>1 DEF vars, retryVars
<1>3. ~ \E x \in Command : \E s \in Sends[x] : Send(x, s)
  BY <1>1 DEF Send, Enter, CancelRetries, retryVars
<1>4. CASE Around
  <2>1. RecoveryCompleted
    BY <1>1, <1>4 DEF Around, CcuApplies, Recovered, Stop, CancelRetries, Event, TimerFires,
                      DeviceChanges, retryVars
  <2> QED  BY <2>1 DEF RecoveryCompleted, RetryInv, RetryTypeOK
<1>5. CASE \E x \in Command : Step(x) \/ Cancelled(x)
  <2>1. PICK x \in Command : Step(x) \/ Cancelled(x)
    BY <1>5
  <2>2. loop \in [Command -> {"idle", "direct"} \cup Retrying]
    BY DEF RetryInv, RetryTypeOK
  <2>3. ~Leave(x)
    BY <2>2 DEF Leave
  <2>4. Granted(x) \/ Transient(x) \/ Retry(x) \/ WaitOver(x)
    BY <1>1, <2>1, <2>3 DEF Step, Cancelled, Purged, Sent, Failed, Broken, Superseded, Return,
          RaiseFinal, RaiseExhausted, RaiseNoConnection, RaiseSuperseded, Abandon, retryVars
  <2>5. ~Transient(x) /\ ~WaitOver(x)
    BY <2>2 DEF Transient, WaitOver, WaitToRetry, DelayOver, RecoveryWaitOver
  <2>6. CASE Granted(x)
    <3>1. PartKey(x) \in Key
      BY <2>6, PartOfBatch DEF Granted, Underway
    <3>2. Execute(x, PartKey(x))
      BY <2>2, <2>6 DEF Granted, ExecuteDirect
    <3>3. x = c
      BY <2>2, <3>2 DEF Execute
    <3> QED  BY <3>1, <3>2, <3>3 DEF Execute, RetryInv, RetryTypeOK
  <2>7. CASE Retry(x)
    <3>1. NextAttempt(x)
      BY <2>7 DEF Retry
    <3>2. x = c
      BY <2>2, <3>1 DEF NextAttempt
    <3>3. loop[c] \in Retrying /\ c \notin cancelled
      BY <3>1, <3>2 DEF NextAttempt, Retrying, Waiting
    <3> QED  BY <3>1, <3>3 DEF NextAttempt, RetryInv, RegisteredOrCancelled
  <2> QED  BY <2>4, <2>5, <2>6, <2>7
<1> QED  BY <1>2, <1>3, <1>4, <1>5, NextCases

\* However the wait of a retried command ended, its next attempt starts only while
\* no newer command, purge or stop() has taken its entry (command_retry.py: the check
\* at the head of the loop).
THEOREM AttemptsNotSuperseded == Spec => NoAttemptOnceSuperseded
<1> DEFINE Started == \A c \in Command : loop[c] # "call" /\ loop'[c] = "call" => active'[key'[c]] = c
<1>1. BatchInv /\ RetryInv /\ [Next]_vars => [Started]_vars
  BY AttemptStarts
<1>2. NoAttemptOnceSuperseded <=> [][Started]_vars
  BY DEF NoAttemptOnceSuperseded
<1> QED  BY <1>1, <1>2, CommandInvariance, PTL DEF Spec

-----------------------------------------------------------------------------
(* The in-flight store.  EchoKeepsFallback is inductive given BatchInv: a command *)
(* clears only markers with its own value, and a command that has not begun has   *)
(* no targets.                                                                     *)

\* The premise of EchoKeepsFallback.
Staged(d, c) ==
    /\ stager[d] = c
    /\ pc[c] = "sending"
    /\ d \in Part(c)
    /\ \A x \in Command \ {c} : d \in Targets(x) => value[x] # value[c]

LEMMA EchoIsStaged ==
    EchoKeepsFallback <=> \A d \in Key, c \in Command : Staged(d, c) => inFlight[d] = value[c]
BY DEF EchoKeepsFallback, Staged

LEMMA SendKeepsEcho ==
    ASSUME BatchInv, EchoKeepsFallback, NEW b \in Command, NEW s \in Sends[b], Send(b, s)
    PROVE  EchoKeepsFallback'
<1>1. /\ pc[b] = "new" /\ UNCHANGED <<part, inFlight, stager>>
      /\ batch' = [batch EXCEPT ![b] = s.batch] /\ value' = [value EXCEPT ![b] = s.value]
  BY DEF Send
<1>2. \E spared : pc' = [x \in Command |->
         IF x = b THEN "throttle"
         ELSE IF s.purge /\ pc[x] = "throttle" /\ x \notin spared THEN "purged" ELSE pc[x]]
  BY DEF Send, Enter
<1> SUFFICES ASSUME NEW d \in Key, NEW c \in Command, Staged(d, c)' PROVE inFlight'[d] = value'[c]
  BY DEF EchoKeepsFallback, Staged
<1>3. c # b /\ pc[c] = "sending"
  BY <1>2 DEF Staged
<1>4. \A x \in Command \ {b} : /\ batch'[x] = batch[x] /\ value'[x] = value[x]
                               /\ Targets(x)' = Targets(x) /\ Part(x)' = Part(x)
  BY <1>1 DEF BatchInv, Targets, Part
<1>5. Targets(b) = {}
  BY <1>1 DEF BatchInv, Targets
<1>6. Staged(d, c)
  BY <1>1, <1>3, <1>4, <1>5 DEF Staged
<1> QED  BY <1>1, <1>3, <1>4, <1>6, EchoIsStaged

LEMMA GrantedKeepsEcho ==
    ASSUME BatchInv, EchoKeepsFallback, NEW b \in Command, Granted(b) PROVE EchoKeepsFallback'
<1>1. /\ pc' = [pc EXCEPT ![b] = "sending"] /\ UNCHANGED <<batch, value, part>>
      /\ inFlight' = [d \in Key |-> IF d \in Part(b) THEN value[b] ELSE inFlight[d]]
      /\ stager' = [d \in Key |-> IF d \in Part(b) THEN b ELSE stager[d]]
  BY DEF Granted, Stage, sendVars
<1> SUFFICES ASSUME NEW d \in Key, NEW c \in Command, Staged(d, c)' PROVE inFlight'[d] = value'[c]
  BY DEF EchoKeepsFallback, Staged
<1>2. \A x \in Command : Targets(x)' = Targets(x) /\ Part(x)' = Part(x)
  BY <1>1 DEF Targets, Part
<1>3. CASE d \in Part(b)
  BY <1>1, <1>3 DEF Staged
<1>4. CASE d \notin Part(b)
  <2>1. c # b
    BY <1>2, <1>4 DEF Staged
  <2>2. Staged(d, c)
    BY <1>1, <1>2, <1>4, <2>1 DEF Staged, BatchInv
  <2> QED  BY <1>1, <1>4, <2>2, EchoIsStaged
<1> QED  BY <1>3, <1>4

\* A command that stops sending clears the markers with its own value.
LEMMA ClearKeepsEcho ==
    ASSUME BatchInv, EchoKeepsFallback, NEW b \in Command, pc[b] = "sending", ClearInFlight(b),
           NEW p \in {"throttle", "end"}, pc' = [pc EXCEPT ![b] = p],
           UNCHANGED <<batch, value, stager>>, \A x \in Command \ {b} : part'[x] = part[x]
    PROVE  EchoKeepsFallback'
<1> SUFFICES ASSUME NEW d \in Key, NEW c \in Command, Staged(d, c)' PROVE inFlight'[d] = value'[c]
  BY DEF EchoKeepsFallback, Staged
<1>1. c # b /\ pc[c] = "sending"
  BY DEF Staged, BatchInv
<1>2. Part(c)' = Part(c) /\ \A x \in Command : Targets(x)' = Targets(x)
  BY <1>1 DEF Targets, Part
<1>3. Staged(d, c)
  BY <1>1, <1>2 DEF Staged
<1>4. Part(b) \subseteq Targets(b)
  BY PartOfBatch DEF Underway
<1>5. inFlight[d] = value[c]
  BY <1>3, EchoIsStaged
<1>6. d \in Part(b) => value[b] # value[c]
  BY <1>1, <1>3, <1>4 DEF Staged
<1> QED  BY <1>5, <1>6 DEF ClearInFlight

\* A command that is not sending moves.
LEMMA QueueKeepsEcho ==
    ASSUME BatchInv, EchoKeepsFallback, NEW b \in Command, pc[b] # "sending",
           NEW p \in {"throttle", "end"}, pc' = [pc EXCEPT ![b] = p],
           UNCHANGED <<batch, value, stager, inFlight>>, \A x \in Command \ {b} : part'[x] = part[x]
    PROVE  EchoKeepsFallback'
<1> SUFFICES ASSUME NEW d \in Key, NEW c \in Command, Staged(d, c)' PROVE inFlight'[d] = value'[c]
  BY DEF EchoKeepsFallback, Staged
<1>1. c # b /\ pc[c] = "sending"
  BY DEF Staged, BatchInv
<1>2. Part(c)' = Part(c) /\ \A x \in Command : Targets(x)' = Targets(x)
  BY <1>1 DEF Targets, Part
<1>3. Staged(d, c)
  BY <1>1, <1>2 DEF Staged
<1> QED  BY <1>3, EchoIsStaged

LEMMA NextPartMoves ==
    ASSUME BatchInv, NEW c \in Command, NextPart(c)
    PROVE  /\ \E p \in {"throttle", "end"} : pc' = [pc EXCEPT ![c] = p]
           /\ \A x \in Command \ {c} : part'[x] = part[x]
BY DEF NextPart, BatchInv

LEMMA StepKeepsEcho ==
    ASSUME BatchInv, EchoKeepsFallback, NEW c \in Command, Step(c) \/ Cancelled(c)
    PROVE  EchoKeepsFallback'
<1>1. CASE Granted(c)
  BY <1>1, GrantedKeepsEcho
<1>2. CASE Purged(c)
  <2>1. pc[c] # "sending" /\ UNCHANGED <<batch, value, stager, inFlight>> /\ NextPart(c)
    BY <1>2 DEF Purged, sendVars
  <2> QED  BY <2>1, NextPartMoves, QueueKeepsEcho
<1>3. CASE Sent(c) \/ Failed(c) \/ Superseded(c)
  <2>1. /\ pc[c] = "sending" /\ UNCHANGED <<batch, value, stager>>
        /\ ClearInFlight(c) /\ NextPart(c)
    BY <1>3 DEF Sent, Failed, Superseded, sendVars
  <2> QED  BY <2>1, NextPartMoves, ClearKeepsEcho
<1>4. CASE Broken(c) \/ Cancelled(c)
  <2>1. /\ UNCHANGED <<batch, value, stager, part>> /\ pc' = [pc EXCEPT ![c] = "end"]
        /\ \/ pc[c] = "sending" /\ ClearInFlight(c)
           \/ pc[c] # "sending" /\ UNCHANGED inFlight
    BY <1>4 DEF Broken, Cancelled, sendVars
  <2> QED  BY <2>1, ClearKeepsEcho, QueueKeepsEcho
<1>5. CASE Transient(c) \/ Retry(c) \/ WaitOver(c)
  BY <1>5 DEF Transient, Retry, WaitOver, otherVars, sendVars, EchoKeepsFallback, Part, Targets
<1> QED  BY <1>1, <1>2, <1>3, <1>4, <1>5 DEF Step

\* While the command that staged a data point last is being sent, its value stays in
\* the in-flight store, whatever other commands with other values stage and clear
\* (interface_client.py: _stage_in_flight_value, _clear_in_flight_value).
THEOREM EchoKept == Spec => []EchoKeepsFallback
<1>1. Init => EchoKeepsFallback
  BY DEF Init, EchoKeepsFallback
<1>2. ASSUME BatchInv, EchoKeepsFallback, [Next]_vars PROVE EchoKeepsFallback'
  <2>1. CASE Around \/ UNCHANGED vars
    <3>1. UNCHANGED <<pc, batch, value, part, inFlight, stager>>
      BY <2>1, AroundKeepsCommands DEF vars, sendVars
    <3> QED  BY <1>2, <3>1 DEF EchoKeepsFallback, Part, Targets
  <2> QED  BY <1>2, <2>1, NextCases, SendKeepsEcho, StepKeepsEcho
<1> QED  BY <1>1, <1>2, CommandInvariance, PTL DEF Spec

-----------------------------------------------------------------------------
(* The optimistic values: what holds of one data point with tracker o, current    *)
(* value cur, last report rep and b sends since it last showed what was reported. *)

DataPointOK(o, cur, rep, b) ==
    /\ o \in Tracker /\ cur \in Value /\ rep \in Value /\ b \in 0 .. 2
    /\ ~IsActive(o) => o = NoOptimistic
    /\ IsActive(o) => o.previous \in Value /\ o.pending >= 1
    /\ b = 0 => ~IsActive(o) /\ cur = rep
    /\ b = 1 => IsActive(o) /\ o.pending = 1 /\ o.previous = rep

OptimisticInv ==
    /\ opt = [d \in Key |-> opt[d]]
    /\ current = [d \in Key |-> current[d]]
    /\ reported = [d \in Key |-> reported[d]]
    /\ burst = [d \in Key |-> burst[d]]
    /\ events \in [Key -> Seq(Value)]
    /\ \A d \in Key : DataPointOK(opt[d], current[d], reported[d], burst[d])

LEMMA ApplyOK ==
    ASSUME NEW o, NEW cur, NEW rep, NEW b, NEW v \in Value, DataPointOK(o, cur, rep, b)
    PROVE  DataPointOK(Apply(o, v, cur), cur, rep, IF b < 2 THEN b + 1 ELSE b)
<1> DEFINE n == Apply(o, v, cur)
<1>1. /\ n.value = v /\ n.previous = (IF o.pending = 0 THEN cur ELSE o.previous)
      /\ n.pending = o.pending + 1 /\ n.timer = TRUE
  BY DEF Apply
<1>2. o.pending \in Nat /\ o.previous \in Value \cup {None}
  BY DEF DataPointOK, Tracker
<1>3. IsActive(n)
  BY <1>1, ValueAssumption DEF IsActive
<1>4. CASE IsActive(o)
  <2>1. n.previous = o.previous /\ n.pending >= 1 /\ b \in {1, 2}
    BY <1>1, <1>2, <1>4 DEF DataPointOK
  <2>2. n \in Tracker
    BY <1>2, <1>4 DEF DataPointOK, Apply, Tracker
  <2> QED  BY <1>3, <1>4, <2>1, <2>2 DEF DataPointOK
<1>5. CASE ~IsActive(o)
  <2>1. o = NoOptimistic /\ b \in {0, 2}
    BY <1>5 DEF DataPointOK
  <2>2. n = [value |-> v, previous |-> cur, pending |-> 1, timer |-> TRUE]
    BY <2>1 DEF Apply, NoOptimistic
  <2>3. n \in Tracker
    BY <2>2 DEF DataPointOK, Tracker
  <2> QED  BY <1>3, <2>1, <2>2, <2>3 DEF DataPointOK
<1> QED  BY <1>4, <1>5

LEMMA RollbackOK ==
    ASSUME NEW o, NEW cur, NEW rep, NEW b, DataPointOK(o, cur, rep, b), IsActive(o)
    PROVE  DataPointOK(Rollback(o), o.previous, rep, IF b = 1 THEN 0 ELSE b)
<1>1. NoOptimistic \in Tracker /\ ~IsActive(NoOptimistic)
  BY DEF NoOptimistic, Tracker, IsActive
<1> QED  BY <1>1 DEF DataPointOK, Rollback

LEMMA ConfirmOK ==
    ASSUME NEW o, NEW cur, NEW rep, NEW b, NEW v \in Value, DataPointOK(o, cur, rep, b)
    PROVE  DataPointOK(Confirm(o), v, v, IF IsActive(Confirm(o)) THEN b ELSE 0)
<1>1. CASE ~IsActive(o)
  BY <1>1 DEF Confirm, DataPointOK
<1>2. CASE IsActive(o)
  <2> DEFINE one == ConfirmOne(o)
  <2>1. o.pending \in Nat /\ o.pending >= 1 /\ o.previous \in Value /\ o \in Tracker
    BY <1>2 DEF DataPointOK, Tracker
  <2>2. one = [o EXCEPT !.pending = o.pending - 1]
    BY <2>1 DEF ConfirmOne
  <2>3. CASE o.pending = 1
    <3>1. one.pending = 0
      BY <2>1, <2>2, <2>3 DEF Tracker
    <3>2. Confirm(o) = Clear(one)
      BY <1>2, <3>1 DEF Confirm
    <3>3. Clear(one) = [NoOptimistic EXCEPT !.pending = 0]
      BY <3>1, Zenon DEF Clear
    <3>4. /\ NoOptimistic \in Tracker /\ NoOptimistic.pending = 0
          /\ ~IsActive(NoOptimistic)
      BY DEF NoOptimistic, Tracker, IsActive
    <3>5. ASSUME NEW r \in Tracker, r.pending = 0 PROVE [r EXCEPT !.pending = 0] = r
      BY <3>5 DEF Tracker
    <3> QED  BY <3>2, <3>3, <3>4, <3>5 DEF DataPointOK
  <2>4. CASE o.pending # 1
    <3>1. one.pending = o.pending - 1 /\ one.value = o.value /\ one.previous = o.previous
      BY <2>1, <2>2 DEF Tracker
    <3>2. Confirm(o) = one /\ IsActive(one)
      BY <1>2, <2>1, <2>4, <3>1 DEF Confirm, IsActive
    <3>3. one = [value |-> o.value, previous |-> o.previous, pending |-> o.pending - 1,
                 timer |-> o.timer]
      BY <2>1, <2>2 DEF Tracker
    <3>4. o.value \in Value \cup {None} /\ o.timer \in BOOLEAN /\ o.pending - 1 \in Nat
      BY <2>1 DEF Tracker
    <3> HIDE DEF one
    <3>5. one \in Tracker
      BY <2>1, <3>3, <3>4 DEF Tracker
    <3>6. b = 2
      BY <1>2, <2>4 DEF DataPointOK
    <3> QED  BY <2>1, <2>4, <3>1, <3>2, <3>5, <3>6 DEF DataPointOK
  <2> QED  BY <2>3, <2>4
<1> QED  BY <1>1, <1>2

LEMMA OptimisticInvInit == Init => OptimisticInv
<1> SUFFICES ASSUME Init PROVE OptimisticInv
  OBVIOUS
<1>1. (CHOOSE v \in Value : TRUE) \in Value
  BY ValueAssumption
<1>2. NoOptimistic \in Tracker /\ ~IsActive(NoOptimistic)
  BY DEF NoOptimistic, Tracker, IsActive
<1>3. \A d \in Key : /\ opt[d] = NoOptimistic /\ burst[d] = 0
                     /\ current[d] = reported[d] /\ current[d] \in Value
  BY <1>1 DEF Init
<1>4. \A d \in Key : DataPointOK(opt[d], current[d], reported[d], burst[d])
  BY <1>2, <1>3 DEF DataPointOK
<1>5. /\ opt = [d \in Key |-> opt[d]] /\ current = [d \in Key |-> current[d]]
      /\ reported = [d \in Key |-> reported[d]] /\ burst = [d \in Key |-> burst[d]]
      /\ events \in [Key -> Seq(Value)]
  BY DEF Init
<1> QED  BY <1>4, <1>5 DEF OptimisticInv

LEMMA SendKeepsOptimistic ==
    ASSUME OptimisticInv, NEW c \in Command, NEW s \in Sends[c], Send(c, s) PROVE OptimisticInv'
<1>1. s.value \in Value
  BY SendsAssumption
<1>2. PICK D : /\ opt' = [d \in Key |-> IF d \in D THEN Apply(opt[d], s.value, current[d]) ELSE opt[d]]
               /\ burst' = [d \in Key |-> IF d \in D /\ burst[d] < 2 THEN burst[d] + 1 ELSE burst[d]]
  BY DEF Send, ApplyOptimistic
<1>3. UNCHANGED <<current, reported, events>>
  BY DEF Send, backVars
<1>4. ASSUME NEW d \in Key PROVE DataPointOK(opt'[d], current[d], reported[d], burst'[d])
  <2>1. DataPointOK(opt[d], current[d], reported[d], burst[d])
    BY DEF OptimisticInv
  <2>2. CASE d \in D
    <3>1. opt'[d] = Apply(opt[d], s.value, current[d])
          /\ burst'[d] = IF burst[d] < 2 THEN burst[d] + 1 ELSE burst[d]
      BY <1>2, <2>2
    <3> QED  BY <1>1, <2>1, <3>1, ApplyOK
  <2>3. CASE d \notin D
    <3>1. opt'[d] = opt[d] /\ burst'[d] = burst[d]
      BY <1>2, <2>3
    <3> QED  BY <2>1, <3>1
  <2> QED  BY <2>2, <2>3
<1>5. opt' = [d \in Key |-> opt'[d]] /\ burst' = [d \in Key |-> burst'[d]]
  BY <1>2
<1> QED  BY <1>3, <1>4, <1>5 DEF OptimisticInv

LEMMA RollbackKeepsOptimistic ==
    ASSUME OptimisticInv, NEW D, RollbackValues(D), UNCHANGED <<reported, events>>
    PROVE  OptimisticInv'
<1> DEFINE hit == {d \in D : IsActive(opt[d])}
<1>1. /\ opt' = [d \in Key |-> IF d \in hit THEN Rollback(opt[d]) ELSE opt[d]]
      /\ current' = [d \in Key |-> IF d \in hit THEN opt[d].previous ELSE current[d]]
      /\ burst' = [d \in Key |-> IF d \in hit /\ burst[d] = 1 THEN 0 ELSE burst[d]]
  BY DEF RollbackValues
<1>2. ASSUME NEW d \in Key PROVE DataPointOK(opt'[d], current'[d], reported[d], burst'[d])
  <2>1. DataPointOK(opt[d], current[d], reported[d], burst[d])
    BY DEF OptimisticInv
  <2>2. CASE d \in hit
    <3>1. /\ opt'[d] = Rollback(opt[d]) /\ current'[d] = opt[d].previous
          /\ burst'[d] = (IF burst[d] = 1 THEN 0 ELSE burst[d]) /\ IsActive(opt[d])
      BY <1>1, <2>2
    <3> QED  BY <2>1, <3>1, RollbackOK
  <2>3. CASE d \notin hit
    <3>1. opt'[d] = opt[d] /\ current'[d] = current[d] /\ burst'[d] = burst[d]
      BY <1>1, <2>3
    <3> QED  BY <2>1, <3>1
  <2> QED  BY <2>2, <2>3
<1>3. /\ opt' = [d \in Key |-> opt'[d]] /\ current' = [d \in Key |-> current'[d]]
      /\ burst' = [d \in Key |-> burst'[d]]
  BY <1>1
<1> QED  BY <1>2, <1>3 DEF OptimisticInv

LEMMA EventKeepsOptimistic == ASSUME OptimisticInv, NEW e \in Key, Event(e) PROVE OptimisticInv'
<1> DEFINE v == Head(events[e])
<1>1. /\ events[e] # <<>> /\ opt' = [opt EXCEPT ![e] = Confirm(opt[e])]
      /\ burst' = [burst EXCEPT ![e] = IF IsActive(opt'[e]) THEN burst[e] ELSE 0]
      /\ current' = [current EXCEPT ![e] = v] /\ reported' = [reported EXCEPT ![e] = v]
      /\ events' = [events EXCEPT ![e] = Tail(events[e])]
  BY DEF Event
<1>2. events[e] \in Seq(Value) /\ v \in Value /\ Tail(events[e]) \in Seq(Value)
  BY <1>1 DEF OptimisticInv
<1> HIDE DEF v
<1>3. events' \in [Key -> Seq(Value)]
  BY <1>1, <1>2 DEF OptimisticInv
<1>4. /\ opt' = [d \in Key |-> opt'[d]] /\ current' = [d \in Key |-> current'[d]]
      /\ reported' = [d \in Key |-> reported'[d]] /\ burst' = [d \in Key |-> burst'[d]]
  BY <1>1 DEF OptimisticInv
<1>5. ASSUME NEW d \in Key PROVE DataPointOK(opt'[d], current'[d], reported'[d], burst'[d])
  <2>1. DataPointOK(opt[d], current[d], reported[d], burst[d])
    BY DEF OptimisticInv
  <2>2. CASE d = e
    <3>1. opt'[e] = Confirm(opt[e]) /\ current'[e] = v /\ reported'[e] = v
      BY <1>1 DEF OptimisticInv
    <3>2. burst'[e] = IF IsActive(Confirm(opt[e])) THEN burst[e] ELSE 0
      BY <1>1, <3>1 DEF OptimisticInv
    <3> QED  BY <1>2, <2>1, <2>2, <3>1, <3>2, ConfirmOK
  <2>3. CASE d # e
    <3>1. opt'[d] = opt[d] /\ current'[d] = current[d] /\ reported'[d] = reported[d] /\ burst'[d] = burst[d]
      BY <1>1, <2>3 DEF OptimisticInv
    <3> QED  BY <2>1, <3>1
  <2> QED  BY <2>2, <2>3
<1> QED  BY <1>3, <1>4, <1>5 DEF OptimisticInv

\* The CCU and the device only add events of values.
LEMMA ReportKeepsOptimistic ==
    ASSUME OptimisticInv, UNCHANGED <<opt, current, reported, burst>>, events' \in [Key -> Seq(Value)]
    PROVE  OptimisticInv'
BY DEF OptimisticInv

LEMMA OptimisticInvStep == ASSUME BatchInv, OptimisticInv, [Next]_vars PROVE OptimisticInv'
<1>1. CASE \E c \in Command : \E s \in Sends[c] : Send(c, s)
  BY <1>1, SendKeepsOptimistic
<1>2. ASSUME NEW c \in Command, Broken(c) PROVE OptimisticInv'
  <2>1. RollbackValues(Part(c)) /\ UNCHANGED <<reported, events>>
    BY <1>2 DEF Broken, backVars
  <2> QED  BY <2>1, RollbackKeepsOptimistic
<1>3. ASSUME NEW c \in Command, (Step(c) /\ ~Broken(c)) \/ Cancelled(c) PROVE OptimisticInv'
  <2>1. UNCHANGED <<opt, current, reported, burst, events>>
    BY <1>3 DEF Step, Cancelled, Granted, Purged, Sent, Failed, Superseded, Transient, Retry, WaitOver,
                otherVars, backVars
  <2> QED  BY <2>1 DEF OptimisticInv
<1>4. ASSUME NEW c \in Command, NEW delivered \in BOOLEAN, CcuApplies(c, delivered) PROVE OptimisticInv'
  <2>1. /\ UNCHANGED <<opt, current, reported, burst>>
        /\ events' = [d \in Key |-> IF d \in Part(c) /\ delivered
                                    THEN Append(events[d], value[c]) ELSE events[d]]
    BY <1>4 DEF CcuApplies
  <2>2. \A d \in Key : events[d] \in Seq(Value) /\ Append(events[d], value[c]) \in Seq(Value)
    BY DEF OptimisticInv, BatchInv
  <2> QED  BY <2>1, <2>2, ReportKeepsOptimistic
<1>5. ASSUME NEW d \in Key, NEW v \in Value, DeviceChanges(d, v) PROVE OptimisticInv'
  <2>1. /\ UNCHANGED <<opt, current, reported, burst>>
        /\ events' = [events EXCEPT ![d] = Append(events[d], v)]
    BY <1>5 DEF DeviceChanges
  <2>2. events[d] \in Seq(Value) /\ Append(events[d], v) \in Seq(Value)
    BY DEF OptimisticInv
  <2>3. events' \in [Key -> Seq(Value)]
    BY <2>1, <2>2 DEF OptimisticInv
  <2> QED  BY <2>1, <2>3, ReportKeepsOptimistic
<1>6. ASSUME NEW d \in Key, TimerFires(d) PROVE OptimisticInv'
  <2>1. RollbackValues({d}) /\ UNCHANGED <<reported, events>>
    BY <1>6 DEF TimerFires, backVars
  <2> QED  BY <2>1, RollbackKeepsOptimistic
<1>7. CASE Recovered \/ Stop \/ UNCHANGED vars
  <2>1. UNCHANGED <<opt, current, reported, burst, events>>
    BY <1>7 DEF Recovered, Stop, otherVars, vars, backVars
  <2> QED  BY <2>1 DEF OptimisticInv
<1>8. CASE \E d \in Key : Event(d)
  BY <1>8, EventKeepsOptimistic
<1>9. CASE Around
  BY <1>4, <1>5, <1>6, <1>7, <1>8, <1>9 DEF Around
<1> QED  BY <1>1, <1>2, <1>3, <1>7, <1>9, NextCases

\* A step that ends an optimistic value and takes no event from the queue is a
\* rollback of it.
LEMMA RollbackStep ==
    ASSUME OptimisticInv, [Next]_vars, NEW d \in Key,
           IsActive(opt[d]), ~IsActive(opt'[d]), events'[d] = events[d], burst[d] = 1
    PROVE  current'[d] = reported[d]
<1>1. opt[d].previous = reported[d]
  BY DEF OptimisticInv, DataPointOK
<1>2. ASSUME NEW D, RollbackValues(D) PROVE current'[d] = opt[d].previous
  <2>1. opt' = [e \in Key |-> IF e \in {x \in D : IsActive(opt[x])} THEN Rollback(opt[e]) ELSE opt[e]]
    BY <1>2 DEF RollbackValues
  <2>2. d \in {x \in D : IsActive(opt[x])}
    BY <2>1
  <2> QED  BY <1>2, <2>2 DEF RollbackValues
<1>3. opt' # opt
  OBVIOUS
<1>4. ASSUME NEW c \in Command, NEW s \in Sends[c], Send(c, s) PROVE FALSE
  <2>1. PICK D : opt' = [e \in Key |-> IF e \in D THEN Apply(opt[e], s.value, current[e]) ELSE opt[e]]
    BY <1>4 DEF Send, ApplyOptimistic
  <2>2. opt'[d] = Apply(opt[d], s.value, current[d])
    BY <2>1
  <2>3. s.value # None
    BY SendsAssumption, ValueAssumption
  <2> QED  BY <2>2, <2>3 DEF Apply, IsActive
<1>5. ASSUME NEW c \in Command, Step(c) \/ Cancelled(c) PROVE Broken(c)
  BY <1>3, <1>5 DEF Step, Cancelled, Granted, Purged, Sent, Failed, Superseded, Transient, Retry, WaitOver,
                    otherVars
<1>6. ASSUME NEW e \in Key, Event(e) PROVE FALSE
  <2>1. events' = [events EXCEPT ![e] = Tail(events[e])] /\ events[e] # <<>>
        /\ opt' = [opt EXCEPT ![e] = Confirm(opt[e])]
    BY <1>6 DEF Event
  <2>2. d = e
    BY <2>1 DEF OptimisticInv
  <2>3. events[d] \in Seq(Value) /\ events'[d] = Tail(events[d]) /\ events[d] # <<>>
    BY <2>1, <2>2 DEF OptimisticInv
  <2>4. Len(Tail(events[d])) = Len(events[d]) - 1 /\ Len(events[d]) \in Nat
    BY <2>3
  <2>5. Len(Tail(events[d])) = Len(events[d])
    BY <2>3, Zenon
  <2> QED  BY <2>4, <2>5
<1>7. CASE Around
  BY <1>1, <1>2, <1>3, <1>6, <1>7 DEF Around, CcuApplies, Recovered, Stop, TimerFires, DeviceChanges, otherVars
<1>8. Next
  BY <1>3 DEF vars
<1> QED  BY <1>1, <1>2, <1>4, <1>5, <1>7, <1>8, NextCases DEF Broken

\* Whatever events, errors and timers interleave, the rollback of the only value sent
\* since the data point last showed what the CCU had reported restores that report
\* (data_point.py: rollback_optimistic_value, optimistic.py: apply, confirm_one).
THEOREM LoneRollback == Spec => LoneRollbackRestoresReported
<1> DEFINE Restores ==
      \A d \in Key : IsActive(opt[d]) /\ ~IsActive(opt'[d]) /\ events'[d] = events[d] /\ burst[d] = 1
                     => current'[d] = reported[d]
<1>1. Init => OptimisticInv
  BY OptimisticInvInit
<1>2. BatchInv /\ OptimisticInv /\ [Next]_vars => OptimisticInv'
  BY OptimisticInvStep
<1>3. OptimisticInv /\ [Next]_vars => [Restores]_vars
  BY RollbackStep
<1>4. LoneRollbackRestoresReported <=> [][Restores]_vars
  BY DEF LoneRollbackRestoresReported
<1> QED  BY <1>1, <1>2, <1>3, <1>4, CommandInvariance, PTL DEF Spec
=============================================================================
