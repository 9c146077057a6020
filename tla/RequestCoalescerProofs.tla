----------------------- MODULE RequestCoalescerProofs -----------------------
(***************************************************************************)
(* Proofs about RequestCoalescer for any sets of calls and keys, with      *)
(* cancellations and clear() at any time.                                  *)
(***************************************************************************)
EXTENDS RequestCoalescer, TLAPS

\* The registered entry belongs to a run with that key ...
EntryFits ==
    \A k \in Key : pending[k] # None => pc[pending[k]] = "executing" /\ key[pending[k]] = k

\* ... and until clear() every run is the registered one of its key.
RunsRegistered ==
    ~cleared => \A c \in Call : pc[c] = "executing" => pending[key[c]] = c

\* Runs have a key.
RunsHaveKey == \A c \in Call : pc[c] \in {"executing", "waiting"} => key[c] \in Key

\* Until a disturbance, the state of a future tells where its leader is ...
LeaderTold(c) ==
    /\ future[c] = "pending"   => pc[c] = "executing"
    /\ future[c] = "result"    => pc[c] = "returned"
    /\ future[c] = "exception" => pc[c] = "raised"
    /\ future[c] # "cancelled"
    /\ pc[c] = "executing" => future[c] = "pending"
    /\ pc[c] # "broken"

\* ... and a follower created no future, awaits one, and ends as its creator did.
FollowerTold(c) ==
    /\ pc[c] \in {"new", "executing"} => follows[c] = None
    /\ pc[c] = "waiting" => follows[c] # None
    /\ follows[c] # None =>
          /\ future[c] = "none"
          /\ future[follows[c]] # "none"
          /\ pc[c] # "waiting" => pc[c] = pc[follows[c]] /\ pc[c] \in {"returned", "raised"}

FuturesTell == ~disturbed => \A c \in Call : LeaderTold(c) /\ FollowerTold(c)

Inv == TypeOK /\ EntryFits /\ RunsRegistered /\ RunsHaveKey /\ FuturesTell

LEMMA InvInit == Init => Inv
<1> SUFFICES ASSUME Init PROVE Inv
  OBVIOUS
<1>1. TypeOK
  BY DEF Init, TypeOK, Places, FutureStates
<1>2. EntryFits /\ RunsRegistered /\ RunsHaveKey
  BY DEF Init, EntryFits, RunsRegistered, RunsHaveKey
<1>3. FuturesTell
  BY DEF Init, FuturesTell, LeaderTold, FollowerTold
<1> QED  BY <1>1, <1>2, <1>3 DEF Inv

\* A step on call c leaves the other calls where they are.
LEMMA InvNext == Inv /\ [Next]_vars => Inv'
<1> SUFFICES ASSUME Inv, [Next]_vars PROVE Inv'
  OBVIOUS
<1> USE CoalescerAssumption
<1>1. ASSUME NEW c \in Call, NEW k \in Key, Lead(c, k) PROVE Inv'
  <2> USE <1>1 DEF Lead, Goto, history
  <2>1. TypeOK'
    BY DEF Inv, TypeOK, Places, FutureStates
  <2>2. EntryFits' /\ RunsRegistered' /\ RunsHaveKey'
    BY DEF Inv, TypeOK, EntryFits, RunsRegistered, RunsHaveKey, disturbed
  <2>3. FuturesTell'
    BY DEF Inv, TypeOK, FuturesTell, LeaderTold, FollowerTold, disturbed
  <2> QED  BY <2>1, <2>2, <2>3 DEF Inv
<1>2. ASSUME NEW c \in Call, NEW k \in Key, Follow(c, k) PROVE Inv'
  <2> USE <1>2 DEF Follow, Goto, history
  <2>1. TypeOK'
    BY DEF Inv, TypeOK, Places, FutureStates
  <2>2. EntryFits' /\ RunsRegistered' /\ RunsHaveKey'
    BY DEF Inv, TypeOK, EntryFits, RunsRegistered, RunsHaveKey, disturbed
  <2>3. FuturesTell'
    <3> SUFFICES ASSUME ~disturbed, NEW d \in Call PROVE LeaderTold(d)' /\ FollowerTold(d)'
      BY DEF FuturesTell, disturbed
    <3>1. /\ LeaderTold(c) /\ FollowerTold(c)
          /\ LeaderTold(d) /\ FollowerTold(d)
      BY DEF Inv, FuturesTell
    <3>2. /\ pending[k] \in Call /\ pc[pending[k]] = "executing" /\ LeaderTold(pending[k])
          /\ follows[d] \in Call \cup {None}
      BY DEF Inv, TypeOK, EntryFits, FuturesTell
    <3>3. future[c] = "none" /\ pc[c] = "new"
      BY <3>1 DEF LeaderTold, Inv, TypeOK, FutureStates
    <3>4. LeaderTold(d)'
      BY <3>1, <3>3 DEF LeaderTold, Inv, TypeOK
    <3>5. CASE d = c
      BY <3>2, <3>3, <3>4, <3>5 DEF LeaderTold, FollowerTold, Inv, TypeOK
    <3>6. CASE d # c
      <4>1. follows[d] # c
        BY <3>1, <3>3 DEF FollowerTold
      <4>2. follows'[d] = follows[d] /\ pc'[d] = pc[d] /\ future' = future
        BY <3>6 DEF Inv, TypeOK
      <4>3. follows[d] # None => pc'[follows[d]] = pc[follows[d]]
        BY <3>2, <4>1 DEF Inv, TypeOK
      <4> QED  BY <3>1, <3>4, <4>2, <4>3 DEF FollowerTold
    <3> QED  BY <3>5, <3>6
  <2> QED  BY <2>1, <2>2, <2>3 DEF Inv
<1>3. ASSUME NEW c \in Call, NEW outcome \in {"result", "exception"}, Finish(c, outcome) PROVE Inv'
  <2> USE <1>3 DEF Finish, CleanUp, Goto, history
  <2>1. TypeOK'
    BY DEF Inv, TypeOK, Places, FutureStates
  <2>2. EntryFits' /\ RunsRegistered' /\ RunsHaveKey'
    BY DEF Inv, TypeOK, EntryFits, RunsRegistered, RunsHaveKey, disturbed
  <2>3. FuturesTell'
    BY DEF Inv, TypeOK, FuturesTell, LeaderTold, FollowerTold, disturbed
  <2> QED  BY <2>1, <2>2, <2>3 DEF Inv
<1>4. ASSUME NEW c \in Call, NEW outcome \in {"result", "exception"}, FinishBroken(c, outcome)
      PROVE  Inv'
  <2> USE <1>4 DEF FinishBroken, CleanUp, Goto, history
  <2>1. TypeOK'
    BY DEF Inv, TypeOK, Places, FutureStates
  <2>2. EntryFits' /\ RunsRegistered' /\ RunsHaveKey'
    BY DEF Inv, TypeOK, EntryFits, RunsRegistered, RunsHaveKey, disturbed
  <2>3. FuturesTell'
    BY DEF Inv, TypeOK, RunsRegistered, FuturesTell, LeaderTold, FollowerTold, disturbed
  <2> QED  BY <2>1, <2>2, <2>3 DEF Inv
<1>5. ASSUME NEW c \in Call, CancelLeader(c) PROVE Inv'
  <2> USE <1>5 DEF CancelLeader, CleanUp, Goto
  <2>1. TypeOK'
    BY DEF Inv, TypeOK, Places, FutureStates
  <2>2. EntryFits' /\ RunsRegistered' /\ RunsHaveKey'
    BY DEF Inv, TypeOK, EntryFits, RunsRegistered, RunsHaveKey, disturbed
  <2>3. FuturesTell'
    BY DEF FuturesTell, LeaderTold, FollowerTold, disturbed
  <2> QED  BY <2>1, <2>2, <2>3 DEF Inv
<1>6. ASSUME NEW c \in Call, Resume(c) PROVE Inv'
  <2> USE <1>6 DEF Resume, EndsAs, Goto, history
  <2>1. TypeOK'
    BY DEF Inv, TypeOK, Places, FutureStates
  <2>2. EntryFits' /\ RunsRegistered' /\ RunsHaveKey'
    BY DEF Inv, TypeOK, EntryFits, RunsRegistered, RunsHaveKey, disturbed
  <2>3. FuturesTell'
    <3> SUFFICES ASSUME ~disturbed, NEW d \in Call PROVE LeaderTold(d)' /\ FollowerTold(d)'
      BY DEF FuturesTell, disturbed
    <3>1. /\ LeaderTold(c) /\ FollowerTold(c)
          /\ LeaderTold(d) /\ FollowerTold(d)
          /\ follows[c] \in Call
          /\ LeaderTold(follows[c])
      BY DEF Inv, TypeOK, FuturesTell, FollowerTold
    <3>2. future[c] = "none" /\ future[follows[c]] \in {"result", "exception"}
      BY <3>1 DEF LeaderTold, FollowerTold, Inv, TypeOK, FutureStates
    <3>3. pc' = [pc EXCEPT ![c] = pc[follows[c]]] /\ pc[follows[c]] \in {"returned", "raised"}
      BY <3>1, <3>2 DEF LeaderTold
    <3>4. follows[c] # c
      BY <3>1, <3>2, <3>3
    <3>5. LeaderTold(d)'
      BY <3>1, <3>2, <3>3 DEF LeaderTold, Inv, TypeOK
    <3>6. FollowerTold(d)'
      <4> HIDE <1>6 DEF Resume, EndsAs, Goto, history
      <4>1. UNCHANGED <<follows, future>> /\ pc[c] = "waiting"
        BY <1>6 DEF Resume
      <4>2. CASE d = c
        BY <3>1, <3>2, <3>3, <3>4, <4>1, <4>2 DEF FollowerTold, Inv, TypeOK
      <4>3. CASE d # c
        <5>1. follows[d] # c
          BY <3>1, <3>2 DEF FollowerTold
        <5>2. pc'[d] = pc[d]
          BY <3>3, <4>3 DEF Inv, TypeOK
        <5>3. follows[d] # None => pc'[follows[d]] = pc[follows[d]]
          BY <3>3, <5>1 DEF Inv, TypeOK
        <5> QED  BY <3>1, <4>1, <5>2, <5>3 DEF FollowerTold
      <4> QED  BY <4>2, <4>3
    <3> QED  BY <3>5, <3>6
  <2> QED  BY <2>1, <2>2, <2>3 DEF Inv
<1>7. ASSUME NEW c \in Call, CancelFollower(c) PROVE Inv'
  <2> USE <1>7 DEF CancelFollower, Goto
  <2>1. TypeOK'
    BY DEF Inv, TypeOK, Places, FutureStates
  <2>2. EntryFits' /\ RunsRegistered' /\ RunsHaveKey'
    BY DEF Inv, TypeOK, EntryFits, RunsRegistered, RunsHaveKey, disturbed
  <2>3. FuturesTell'
    BY DEF FuturesTell, LeaderTold, FollowerTold, disturbed
  <2> QED  BY <2>1, <2>2, <2>3 DEF Inv
<1>8. ASSUME Clear PROVE Inv'
  <2> USE <1>8 DEF Clear
  <2>1. TypeOK'
    BY DEF Inv, TypeOK, Places, FutureStates
  <2>2. EntryFits' /\ RunsRegistered' /\ RunsHaveKey' /\ FuturesTell'
    BY DEF Inv, EntryFits, RunsRegistered, RunsHaveKey, FuturesTell, LeaderTold, FollowerTold, disturbed
  <2> QED  BY <2>1, <2>2 DEF Inv
<1>9. ASSUME UNCHANGED vars PROVE Inv'
  BY <1>9
  DEF vars, Inv, TypeOK, EntryFits, RunsRegistered, RunsHaveKey, FuturesTell, LeaderTold, FollowerTold, disturbed
<1> QED
  BY <1>1, <1>2, <1>3, <1>4, <1>5, <1>6, <1>7, <1>8, <1>9 DEF Next, Run

LEMMA InvHolds == Spec => []Inv
BY InvInit, InvNext, PTL DEF Spec

\* No entry outlives its run, with cancellations and clear() at any point of it
\* (execute and its finally).
THEOREM CoalescerLeaksNothing == Spec => []NoLeakedEntry
<1>1. Inv => NoLeakedEntry
  BY DEF Inv, EntryFits, NoLeakedEntry
<1> QED  BY <1>1, InvHolds, PTL

\* Until a cancellation or clear(), runs with one key never overlap (execute).
THEOREM CoalescerSafety == Spec => []SingleExecution
<1>1. Inv => SingleExecution
  BY DEF Inv, RunsRegistered, SingleExecution, disturbed
<1> QED  BY <1>1, InvHolds, PTL

\* Until a cancellation or clear(), every follower ends as its leader did (execute, the
\* shared future).
THEOREM CoalescerShares == Spec => []SharedOutcome
<1>1. Inv => SharedOutcome
  BY DEF Inv, FuturesTell, LeaderTold, FollowerTold, SharedOutcome
<1> QED  BY <1>1, InvHolds, PTL
=============================================================================
