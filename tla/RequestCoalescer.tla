-------------------------- MODULE RequestCoalescer --------------------------
(***************************************************************************)
(* RequestCoalescer (aiohomematic/client/request_coalescer.py): concurrent *)
(* execute() calls with one key share one run of the executor.             *)
(*                                                                         *)
(* The lock is never held across an await, so check-and-register is one    *)
(* action.  A call is one execute(); its future, if it creates one, has    *)
(* the call's name.  A task that awaits a plain asyncio future and is      *)
(* cancelled cancels that future: the followers of a call share it.        *)
(***************************************************************************)
EXTENDS Naturals

CONSTANTS Call, Key, None

ASSUME CoalescerAssumption == None \notin Call

VARIABLES pending,    \* _pending: key -> the call whose future is registered, or None
          key,        \* call -> the key it was made with
          pc,         \* call -> where it is: see Places
          follows,    \* call -> the call whose future it awaits, or None
          future,     \* call -> the state of the future it created
          cancelled,  \* history: some call was cancelled
          cleared     \* history: clear() was called while requests were pending

history == <<cancelled, cleared>>
vars == <<pending, key, pc, follows, future, cancelled, cleared>>
disturbed == cancelled \/ cleared

\* "broken": execute() raised InvalidStateError or KeyError of its own making.
Places == {"new", "executing", "waiting", "returned", "raised", "cancelled", "broken"}
FutureStates == {"none", "pending", "result", "exception", "cancelled"}

TypeOK ==
    /\ pending \in [Key -> Call \cup {None}]
    /\ key \in [Call -> Key \cup {None}]
    /\ pc \in [Call -> Places]
    /\ follows \in [Call -> Call \cup {None}]
    /\ future \in [Call -> FutureStates]
    /\ cancelled \in BOOLEAN
    /\ cleared \in BOOLEAN

Init ==
    /\ pending = [k \in Key |-> None]
    /\ key = [c \in Call |-> None]
    /\ pc = [c \in Call |-> "new"]
    /\ follows = [c \in Call |-> None]
    /\ future = [c \in Call |-> "none"]
    /\ cancelled = FALSE
    /\ cleared = FALSE

Goto(c, place) == pc' = [pc EXCEPT ![c] = place]

-----------------------------------------------------------------------------
(* execute: check-and-register *)

\* Mutant: the entry is not looked at before registering.
LeadBlindly(c, k) ==
    /\ pc[c] = "new"
    /\ pending' = [pending EXCEPT ![k] = c]
    /\ key' = [key EXCEPT ![c] = k]
    /\ future' = [future EXCEPT ![c] = "pending"]
    /\ Goto(c, "executing")
    /\ UNCHANGED <<follows, history>>

Lead(c, k) ==
    /\ pc[c] = "new"
    /\ pending[k] = None
    /\ pending' = [pending EXCEPT ![k] = c]
    /\ key' = [key EXCEPT ![c] = k]
    /\ future' = [future EXCEPT ![c] = "pending"]
    /\ Goto(c, "executing")
    /\ UNCHANGED <<follows, history>>

Follow(c, k) ==
    /\ pc[c] = "new"
    /\ pending[k] # None
    /\ key' = [key EXCEPT ![c] = k]
    /\ follows' = [follows EXCEPT ![c] = pending[k]]
    /\ Goto(c, "waiting")
    /\ UNCHANGED <<pending, future, history>>

-----------------------------------------------------------------------------
(* execute: the leader's run ends; "finally" deletes whatever entry the key has *)

\* Mutant: there is no finally clause.
CleanUpMissing(c) == UNCHANGED pending

CleanUp(c) == pending' = [pending EXCEPT ![key[c]] = None]

\* Mutant: the except branch re-raises without failing the future.
FinishSilently(c, outcome) ==
    /\ pc[c] = "executing"
    /\ future[c] = "pending"
    /\ future' = [future EXCEPT ![c] = IF outcome = "result" THEN outcome ELSE @]
    /\ CleanUp(c)
    /\ Goto(c, IF outcome = "result" THEN "returned" ELSE "raised")
    /\ UNCHANGED <<key, follows, history>>

\* The executor returns or raises; the outcome is handed to the future.
Finish(c, outcome) ==
    /\ pc[c] = "executing"
    /\ future[c] = "pending"
    /\ pending[key[c]] # None
    /\ future' = [future EXCEPT ![c] = outcome]
    /\ CleanUp(c)
    /\ Goto(c, IF outcome = "result" THEN "returned" ELSE "raised")
    /\ UNCHANGED <<key, follows, history>>

\* The future was cancelled meanwhile: set_result raises InvalidStateError, and
\* so does set_exception in the except branch; the entry is deleted all the same.
\* Without an entry the del raises KeyError.
FinishBroken(c, outcome) ==
    /\ pc[c] = "executing"
    /\ future[c] # "pending" \/ pending[key[c]] = None
    /\ future' = [future EXCEPT ![c] = IF @ = "pending" THEN outcome ELSE @]
    /\ CleanUp(c)
    /\ Goto(c, "broken")
    /\ UNCHANGED <<key, follows, history>>

\* CancelledError is no Exception: the future is left pending.
CancelLeader(c) ==
    /\ pc[c] = "executing"
    /\ CleanUp(c)
    /\ Goto(c, IF pending[key[c]] = None THEN "broken" ELSE "cancelled")
    /\ cancelled' = TRUE
    /\ UNCHANGED <<key, follows, future, cleared>>

-----------------------------------------------------------------------------
(* execute: a follower *)

\* How "await future" ends.
EndsAs(outcome) ==
    IF outcome = "result" THEN "returned" ELSE IF outcome = "exception" THEN "raised" ELSE "cancelled"

\* Mutant: a follower is resumed although its future is still pending.
ResumeEarly(c) ==
    /\ pc[c] = "waiting"
    /\ Goto(c, "returned")
    /\ UNCHANGED <<pending, key, follows, future, history>>

Resume(c) ==
    /\ pc[c] = "waiting"
    /\ future[follows[c]] # "pending"
    /\ Goto(c, EndsAs(future[follows[c]]))
    /\ UNCHANGED <<pending, key, follows, future, history>>

CancelFollower(c) ==
    /\ pc[c] = "waiting"
    /\ future[follows[c]] = "pending"
    /\ future' = [future EXCEPT ![follows[c]] = "cancelled"]
    /\ Goto(c, "cancelled")
    /\ cancelled' = TRUE
    /\ UNCHANGED <<pending, key, follows, cleared>>

-----------------------------------------------------------------------------
\* clear(): cancel every registered future that is not done, empty _pending.
Clear ==
    /\ \E k \in Key : pending[k] # None
    /\ future' = [c \in Call |->
                    IF future[c] = "pending" /\ \E k \in Key : pending[k] = c
                      THEN "cancelled" ELSE future[c]]
    /\ pending' = [k \in Key |-> None]
    /\ cleared' = TRUE
    /\ UNCHANGED <<key, pc, follows, cancelled>>

Run(c) ==
    \/ \E outcome \in {"result", "exception"} : Finish(c, outcome) \/ FinishBroken(c, outcome)
    \/ Resume(c)

Next ==
    \/ \E c \in Call, k \in Key : Lead(c, k) \/ Follow(c, k)
    \/ \E c \in Call : Run(c) \/ CancelLeader(c) \/ CancelFollower(c)
    \/ Clear

Spec == Init /\ [][Next]_vars

\* The event loop resumes every task whose await is over; executors end, since
\* the proxies' transports have timeouts.
FairSpec == Spec /\ \A c \in Call : WF_vars(Run(c))

-----------------------------------------------------------------------------
(* Properties *)

\* An entry never outlives the run it stands for, so a later call with the key
\* is not made to wait on a dead future.  Holds with cancellations and clear().
NoLeakedEntry == \A k \in Key : pending[k] # None => pc[pending[k]] = "executing"

\* request_coalescer.py:82 "only one actual call is made": until a disturbance,
\* two runs with one key never overlap.
SingleExecution ==
    ~disturbed => \A c, d \in Call :
        (pc[c] = "executing" /\ pc[d] = "executing" /\ key[c] = key[d]) => c = d

\* request_coalescer.py:82-83 and :168: until a disturbance a follower ends the
\* way its leader does, and nobody sees an error of the coalescer itself.
SharedOutcome ==
    ~disturbed => \A c \in Call :
        /\ pc[c] # "broken"
        /\ (follows[c] # None /\ pc[c] # "waiting") => pc[c] = pc[follows[c]]

\* Without disturbances every call ends.
EveryCallEnds ==
    [](~disturbed) => \A c \in Call : (pc[c] \in {"executing", "waiting"}) ~>
                                      (pc[c] \in {"returned", "raised"})
=============================================================================
