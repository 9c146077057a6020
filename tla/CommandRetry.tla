---------------------------- MODULE CommandRetry ----------------------------
(***************************************************************************)
(* CommandRetryHandler (aiohomematic/client/command_retry.py): the retry   *)
(* loop around one backend operation, and the registry that lets a newer   *)
(* command for the same DataPointKey supersede an older one.               *)
(*                                                                         *)
(* A command is one execute_with_retry call; its cancel_event is set when  *)
(* the command is in cancelled.  Between two awaits nothing else runs, but *)
(* a wait that is over resumes its task only later: "elapsed", "recovered" *)
(* and "expired" are the states in between, in which the command may still *)
(* be cancelled.  The metrics and the length of the delays are left out.   *)
(***************************************************************************)
EXTENDS Naturals

CONSTANTS Command, Key,
          MaxAttempts,   \* command_retry_max_attempts
          NoCommand

ASSUME RetryAssumption ==
    /\ MaxAttempts \in Nat \ {0}
    /\ NoCommand \notin Command

VARIABLES
    active,     \* _active_retries: the command whose event is registered for a key
    cancelled,  \* the commands in the loop whose cancel_event is set
    loop,       \* command -> where its execute_with_retry is
    attempt,    \* command -> number of the attempt in the loop
    key         \* command -> the DataPointKey it was registered with

retryVars == <<active, cancelled, loop, attempt, key>>

\* direct: awaiting the operation with retry off.  call: awaiting an attempt.
\* sleep: in _interruptible_sleep.  recovery: in _wait_for_recovery.
Waiting == {"sleep", "elapsed", "recovery", "recovered", "expired"}
Retrying == {"call"} \cup Waiting
Calling == {"direct", "call"}

RetryTypeOK ==
    /\ active \in [Key -> Command \cup {NoCommand}]
    /\ cancelled \subseteq Command
    /\ loop \in [Command -> {"idle", "direct"} \cup Retrying]
    /\ attempt \in [Command -> 0 .. MaxAttempts]
    /\ key \in [Command -> Key]

RetryInit ==
    /\ active = [k \in Key |-> NoCommand]
    /\ cancelled = {}
    /\ loop = [c \in Command |-> "idle"]
    /\ attempt = [c \in Command |-> 0]
    /\ key \in [Command -> Key]

-----------------------------------------------------------------------------
\* execute_with_retry with retry off: the operation is awaited and nothing is
\* registered, so no older retry of the key is superseded.
ExecuteDirect(c) ==
    /\ loop[c] = "idle"
    /\ loop' = [loop EXCEPT ![c] = "direct"]
    /\ UNCHANGED <<active, cancelled, attempt, key>>

\* execute_with_retry up to the first await: _register_retry sets the event of
\* the registered command and takes its place; the event of c is new.
Execute(c, k) ==
    /\ loop[c] = "idle"
    /\ active' = [active EXCEPT ![k] = c]
    /\ cancelled' = cancelled \cup ({active[k]} \ {NoCommand})
    /\ loop' = [loop EXCEPT ![c] = "call"]
    /\ attempt' = [attempt EXCEPT ![c] = 1]
    /\ key' = [key EXCEPT ![c] = k]

\* Mutant: the entry of the key goes, whoever registered it.
UnregisterAny(c) ==
    active' = IF loop[c] \in Retrying THEN [active EXCEPT ![key[c]] = NoCommand] ELSE active

\* The finally clause: the entry goes only if it is still the command's own.
Unregister(c) ==
    active' = IF loop[c] \in Retrying /\ active[key[c]] = c
              THEN [active EXCEPT ![key[c]] = NoCommand] ELSE active

\* execute_with_retry returns or raises; the event goes with the call.
Leave(c) ==
    /\ Unregister(c)
    /\ cancelled' = cancelled \ {c}
    /\ loop' = [loop EXCEPT ![c] = "idle"]
    /\ attempt' = [attempt EXCEPT ![c] = 0]
    /\ UNCHANGED key

\* The operation returned: so does execute_with_retry, superseded or not.
Return(c) == loop[c] \in Calling /\ Leave(c)

\* The operation raised what is_retryable refuses, or retry is off.
RaiseFinal(c) == loop[c] \in Calling /\ Leave(c)

\* The last attempt failed with a transient error.
RaiseExhausted(c) == loop[c] = "call" /\ attempt[c] >= MaxAttempts /\ Leave(c)

\* A transient error with attempts left: wait for the recovery of the connection
\* after a NoConnectionException, else sleep.
WaitToRetry(c, wait) ==
    /\ loop[c] = "call"
    /\ attempt[c] < MaxAttempts
    /\ wait \in {"sleep", "recovery"}
    /\ loop' = [loop EXCEPT ![c] = wait]
    /\ UNCHANGED <<active, cancelled, attempt, key>>

\* The delay of _interruptible_sleep is over: asyncio.timeout cancels the wait.
DelayOver(c) ==
    /\ loop[c] = "sleep"
    /\ loop' = [loop EXCEPT ![c] = "elapsed"]
    /\ UNCHANGED <<active, cancelled, attempt, key>>

\* _on_recovery: RecoveryCompletedEvent reaches the commands subscribed now.
RecoveryCompleted ==
    /\ \E c \in Command : loop[c] \in {"recovery", "expired"}
    /\ loop' = [c \in Command |-> IF loop[c] \in {"recovery", "expired"}
                                  THEN "recovered" ELSE loop[c]]
    /\ UNCHANGED <<active, cancelled, attempt, key>>

\* Mutant: asyncio.wait without a timeout.
RecoveryWaitUnbounded(c) == FALSE /\ UNCHANGED retryVars

\* asyncio.wait ends after command_retry_recovery_wait.
RecoveryWaitOver(c) ==
    /\ loop[c] = "recovery"
    /\ loop' = [loop EXCEPT ![c] = "expired"]
    /\ UNCHANGED <<active, cancelled, attempt, key>>

\* The task resumes with its event set: CommandSupersededError, raised by the
\* sleep, by _wait_for_recovery or by the check at the head of the loop.
RaiseSuperseded(c) == loop[c] \in Waiting /\ c \in cancelled /\ Leave(c)

\* Mutant: the event is only looked at while waiting.
NextAttemptUnchecked(c) ==
    /\ loop[c] \in {"elapsed", "recovered"}
    /\ loop' = [loop EXCEPT ![c] = "call"]
    /\ attempt' = [attempt EXCEPT ![c] = @ + 1]
    /\ UNCHANGED <<active, cancelled, key>>

\* The head of the loop: the next attempt starts.
NextAttempt(c) ==
    /\ loop[c] \in {"elapsed", "recovered"}
    /\ c \notin cancelled
    /\ loop' = [loop EXCEPT ![c] = "call"]
    /\ attempt' = [attempt EXCEPT ![c] = @ + 1]
    /\ UNCHANGED <<active, cancelled, key>>

\* No recovery in time: the last error is raised.
RaiseNoConnection(c) == loop[c] = "expired" /\ c \notin cancelled /\ Leave(c)

\* The task of the caller is cancelled at an await: no error is retryable then.
Abandon(c) == loop[c] # "idle" /\ Leave(c)

\* The commands registered for the keys K.
Registered(K) == {active[k] : k \in K} \ {NoCommand}

\* cancel_retries_for_device, _for_dpk and _for_interface: pop the entries of
\* the keys K and set their events.
CancelRetries(K) ==
    /\ active' = [k \in Key |-> IF k \in K THEN NoCommand ELSE active[k]]
    /\ cancelled' = cancelled \cup Registered(K)
    /\ UNCHANGED <<loop, attempt, key>>
=============================================================================
