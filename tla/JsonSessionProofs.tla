-------------------------- MODULE JsonSessionProofs --------------------------
(***************************************************************************)
(* Proofs about JsonSession for any set of callers, any number of sessions *)
(* the CCU opens, any session age and any length of the day.               *)
(***************************************************************************)
EXTENDS JsonSession, FiniteSetTheorems, TLAPS

-----------------------------------------------------------------------------
(* The inductive invariant.  OneSession alone is not inductive: a login may *)
(* be granted while the client still has a session, and a renewal brings an *)
(* id back that was given up meanwhile.                                     *)

\* The ids that exist are the ones the CCU has handed out.
Issued == 1 .. opened

IdsIssued ==
    /\ opened \in 0 .. MaxLogins
    /\ session \in Issued \cup {None}
    /\ sid \in [Caller -> Issued \cup {None}]
    /\ outer \in [Caller -> Issued \cup {None}]
    /\ ccu \subseteq Issued /\ discarded \subseteq Issued

CallersTyped ==
    /\ pc \in [Caller -> {"idle", "wait", "backoff", "gone"} \cup Request]
    /\ answer \in [Caller -> Answers]

\* Only the holder of the lock refreshes the session.
Refreshing(c) == pc[c] \in {"login", "backoff", "renew"}
RefreshLocked == \A c \in Caller : Refreshing(c) => lock = c

\* A login has an id once it is granted, and while it is under way the client has
\* no session the CCU knows.
LoginReplaces(c) ==
    pc[c] \in {"login", "backoff"} =>
        /\ session \notin ccu
        /\ sid[c] # None => pc[c] = "login" /\ answer[c] = "ok"

\* A renewal is of the only session there is; a refused one is unknown to the CCU.
RenewsOwn(c) ==
    pc[c] = "renew" =>
        /\ sid[c] # None /\ session \in {sid[c], None}
        /\ answer[c] \in {"no", "denied"} => sid[c] \notin ccu

\* The client has given up every session of the CCU except its own and the one of
\* the login that was granted and not heard of yet.
OthersDiscarded ==
    \A s \in ccu \ discarded : s = session \/ \E c \in Caller : pc[c] = "login" /\ s = sid[c]

IInv ==
    /\ IdsIssued /\ CallersTyped /\ RefreshLocked
    /\ \A c \in Caller : LoginReplaces(c) /\ RenewsOwn(c)
    /\ OthersDiscarded

LEMMA IssuedIsId == ASSUME IdsIssued PROVE Issued \subseteq Id /\ None \notin Issued
BY SessionAssumption DEF IdsIssued, Issued, Id

LEMMA IInvInit == Init => IInv
<1> SUFFICES ASSUME Init PROVE IInv
  OBVIOUS
<1>1. IdsIssued /\ CallersTyped
  BY SessionAssumption DEF Init, IdsIssued, CallersTyped, Answers, Issued
<1>2. /\ RefreshLocked /\ OthersDiscarded
      /\ \A c \in Caller : LoginReplaces(c) /\ RenewsOwn(c)
  BY DEF Init, RefreshLocked, Refreshing, OthersDiscarded, LoginReplaces, RenewsOwn
<1> QED  BY <1>1, <1>2 DEF IInv

-----------------------------------------------------------------------------
(* What the parts of an action do. *)

\* After Ready the caller posts or waits for the lock again.
LEMMA ReadyStep ==
    ASSUME NEW c \in Caller, NEW s, NEW a, NEW q, Ready(c, s, a, q)
    PROVE  /\ \E p \in {"wait", "post"} : pc' = [pc EXCEPT ![c] = p]
           /\ sid' = [sid EXCEPT ![c] = s]
           /\ outer' \in {outer, [outer EXCEPT ![c] = s]}
           /\ answer' = [answer EXCEPT ![c] = "pending"]
BY DEF Ready

\* After Finish it posts with the id it kept or is through.
LEMMA FinishStep ==
    ASSUME NEW c \in Caller, Finish(c)
    PROVE  /\ \E p \in {"idle", "post"} : pc' = [pc EXCEPT ![c] = p]
           /\ sid' = [sid EXCEPT ![c] = outer[c]]
           /\ outer' = [outer EXCEPT ![c] = None]
           /\ answer' = [answer EXCEPT ![c] = "pending"]
BY DEF Finish

\* A caller that stops refreshing, or never did, disturbs nobody else's refresh:
\* it leaves the session alone, clears it, or was the one that held the lock.
LEMMA StepsAside ==
    ASSUME IInv, NEW c \in Caller,
           NEW p \in {"idle", "wait", "post", "logout", "gone"}, pc' = [pc EXCEPT ![c] = p],
           NEW x \in Issued \cup {None}, sid' = [sid EXCEPT ![c] = x],
           outer' \in [Caller -> Issued \cup {None}],
           NEW z \in Answers, answer' = [answer EXCEPT ![c] = z],
           UNCHANGED <<ccu, opened>>,
           lock' \in {lock, None}, lock' # lock => lock = c,
           session' \in Issued \cup {None},
           session' \in {session, None} \/ lock = c,
           discarded' \subseteq Issued,
           OthersDiscarded'
    PROVE  IInv'
<1>1. None \notin Issued /\ Issued' = Issued
  BY IssuedIsId DEF IInv, Issued
<1>2. IdsIssued'
  BY <1>1 DEF IInv, IdsIssued
<1>3. CallersTyped'
  BY DEF IInv, CallersTyped, Request, Answers
<1>4. ASSUME NEW d \in Caller
      PROVE  /\ Refreshing(d)' => lock' = d
             /\ LoginReplaces(d)' /\ RenewsOwn(d)'
  <2>1. CASE d = c
    <3>1. pc'[d] = p
      BY <2>1 DEF IInv, CallersTyped
    <3> QED  BY <3>1 DEF Refreshing, LoginReplaces, RenewsOwn
  <2>2. CASE d # c
    <3>1. pc'[d] = pc[d] /\ sid'[d] = sid[d] /\ answer'[d] = answer[d]
      BY <2>2 DEF IInv, CallersTyped, IdsIssued
    <3>2. (Refreshing(d) => lock = d) /\ LoginReplaces(d) /\ RenewsOwn(d)
      BY DEF IInv, RefreshLocked
    <3>3. Refreshing(d) => lock' = d /\ session' \in {session, None}
      BY <2>2, <3>2
    <3>4. None \notin ccu
      BY <1>1 DEF IInv, IdsIssued
    <3> QED  BY <3>1, <3>2, <3>3, <3>4 DEF Refreshing, LoginReplaces, RenewsOwn
  <2> QED  BY <2>1, <2>2
<1> QED  BY <1>2, <1>3, <1>4 DEF IInv, RefreshLocked

\* A session that is cleared is discarded: what is left is a granted login's.
LEMMA ClearedIsDiscarded ==
    ASSUME IInv, NEW gone \in SUBSET (Issued \cup {None}), ClearSession(gone)
    PROVE  /\ session' = None /\ discarded' \subseteq Issued /\ discarded \subseteq discarded'
           /\ gone \ {None} \subseteq discarded'
           /\ \A s \in ccu \ discarded' : \E c \in Caller : pc[c] = "login" /\ s = sid[c]
BY IssuedIsId DEF IInv, IdsIssued, OthersDiscarded, ClearSession

-----------------------------------------------------------------------------
(* Each action preserves the invariant. *)

\* The fast path, and the second look under the lock.
LEMMA ReadyKeeps ==
    ASSUME IInv, NEW c \in Caller, pc[c] # "login", session # None,
           NEW q, Ready(c, session, age, q), UNCHANGED <<session, lock, ccu, opened, discarded>>
    PROVE  IInv'
<1>1. PICK p \in {"wait", "post"} : pc' = [pc EXCEPT ![c] = p]
  BY ReadyStep
<1>2. /\ sid' = [sid EXCEPT ![c] = session]
      /\ outer' \in {outer, [outer EXCEPT ![c] = session]}
      /\ answer' = [answer EXCEPT ![c] = "pending"]
  BY ReadyStep
<1>3. session \in Issued /\ outer' \in [Caller -> Issued \cup {None}] /\ discarded' \subseteq Issued
  BY <1>2 DEF IInv, IdsIssued
<1>4. OthersDiscarded'
  BY <1>1, <1>2 DEF IInv, OthersDiscarded, CallersTyped, IdsIssued
<1> QED  BY <1>1, <1>2, <1>3, <1>4, StepsAside DEF Answers

LEMMA CallKeeps == ASSUME IInv, NEW c \in Caller, Call(c) PROVE IInv'
<1>1. pc[c] = "idle" /\ UNCHANGED <<session, age, lock, ccu, opened, discarded>>
  BY DEF Call
<1>2. CASE session # None /\ RecentlyRefreshed(age)
  BY <1>1, <1>2, ReadyKeeps DEF Call
<1>3. CASE ~(session # None /\ RecentlyRefreshed(age))
  <2>1. pc' = [pc EXCEPT ![c] = "wait"] /\ UNCHANGED <<sid, outer, answer>>
    BY <1>3 DEF Call
  <2>2. IdsIssued' /\ CallersTyped'
    BY <1>1, <2>1 DEF IInv, IdsIssued, CallersTyped, Issued
  <2>3. RefreshLocked' /\ \A d \in Caller : LoginReplaces(d)' /\ RenewsOwn(d)'
    BY <1>1, <2>1 DEF IInv, CallersTyped, RefreshLocked, Refreshing, LoginReplaces, RenewsOwn
  <2>4. OthersDiscarded'
    BY <1>1, <2>1 DEF IInv, CallersTyped, OthersDiscarded
  <2> QED  BY <2>2, <2>3, <2>4 DEF IInv
<1> QED  BY <1>2, <1>3

\* Whoever has its turn refreshes nothing yet.
LEMMA TurnIsFree == ASSUME IInv, lock = None, NEW d \in Caller PROVE ~Refreshing(d)
BY SessionAssumption DEF IInv, RefreshLocked

\* A caller starts or continues a refresh with the lock: the others do not refresh.
LEMMA Refreshes ==
    ASSUME IInv, NEW c \in Caller, lock \in {None, c}, lock' = c,
           NEW p \in {"login", "backoff", "renew"}, pc' = [pc EXCEPT ![c] = p],
           sid' \in [Caller -> Issued \cup {None}], \A d \in Caller \ {c} : sid'[d] = sid[d],
           answer' \in [Caller -> Answers], UNCHANGED <<outer, ccu, opened>>,
           session' \in Issued \cup {None}, discarded' \subseteq Issued,
           LoginReplaces(c)', RenewsOwn(c)', OthersDiscarded'
    PROVE  IInv'
<1>1. IdsIssued' /\ CallersTyped'
  BY DEF IInv, IdsIssued, CallersTyped, Issued, Request
<1>2. ASSUME NEW d \in Caller, d # c PROVE ~Refreshing(d) /\ pc'[d] = pc[d]
  BY <1>2, SessionAssumption DEF IInv, RefreshLocked, CallersTyped
<1>3. \A d \in Caller : LoginReplaces(d)' /\ RenewsOwn(d)'
  BY <1>2 DEF Refreshing, LoginReplaces, RenewsOwn
<1>4. RefreshLocked'
  BY <1>2 DEF RefreshLocked, Refreshing
<1> QED  BY <1>1, <1>3, <1>4 DEF IInv

\* No login is under way but the holder's.
LEMMA NobodyElseLogsIn ==
    ASSUME IInv, NEW c \in Caller, lock \in {None, c}
    PROVE  \A d \in Caller : pc[d] = "login" => d = c
BY SessionAssumption DEF IInv, RefreshLocked, Refreshing

LEMMA StartLoginKeeps == ASSUME IInv, NEW c \in Caller, StartLogin(c) PROVE IInv'
<1>1. /\ lock = None /\ lock' = c /\ session = None /\ ToLogin(c)
      /\ UNCHANGED <<session, ccu, opened, discarded>>
  BY DEF StartLogin, Turn
<1>2. PICK p \in {"backoff", "login"} : pc' = [pc EXCEPT ![c] = p]
  BY <1>1 DEF ToLogin
<1>3. sid' = [sid EXCEPT ![c] = None] /\ answer' = [answer EXCEPT ![c] = "pending"] /\ UNCHANGED outer
  BY <1>1 DEF ToLogin
<1>4. /\ sid' \in [Caller -> Issued \cup {None}] /\ answer' \in [Caller -> Answers]
      /\ sid'[c] = None /\ pc'[c] = p /\ \A d \in Caller \ {c} : sid'[d] = sid[d]
      /\ session' \in Issued \cup {None} /\ discarded' \subseteq Issued
  BY <1>1, <1>2, <1>3 DEF IInv, IdsIssued, CallersTyped, Answers
<1>5. LoginReplaces(c)' /\ RenewsOwn(c)'
  BY <1>1, <1>2, <1>4, IssuedIsId DEF LoginReplaces, RenewsOwn, IInv, IdsIssued
<1>6. OthersDiscarded'
  <2>1. \A d \in Caller : pc[d] # "login"
    BY <1>1, TurnIsFree DEF Refreshing
  <2> QED  BY <1>1, <2>1 DEF IInv, OthersDiscarded
<1> QED  BY <1>1, <1>2, <1>3, <1>4, <1>5, <1>6, Refreshes

LEMMA AlreadyRefreshedKeeps == ASSUME IInv, NEW c \in Caller, AlreadyRefreshed(c) PROVE IInv'
<1>1. pc[c] # "login"
  BY TurnIsFree DEF AlreadyRefreshed, Turn, Refreshing
<1> QED  BY <1>1, ReadyKeeps DEF AlreadyRefreshed

LEMMA StartRenewKeeps == ASSUME IInv, NEW c \in Caller, StartRenew(c) PROVE IInv'
<1>1. /\ lock = None /\ lock' = c /\ session # None
      /\ pc' = [pc EXCEPT ![c] = "renew"] /\ sid' = [sid EXCEPT ![c] = session]
      /\ answer' = [answer EXCEPT ![c] = "pending"]
      /\ UNCHANGED <<session, outer, ccu, opened, discarded>>
  BY DEF StartRenew, Turn
<1>2. /\ sid' \in [Caller -> Issued \cup {None}] /\ answer' \in [Caller -> Answers]
      /\ \A d \in Caller \ {c} : sid'[d] = sid[d]
      /\ session' \in Issued \cup {None} /\ discarded' \subseteq Issued
  BY <1>1 DEF IInv, IdsIssued, CallersTyped, Answers
<1>3. sid'[c] = session /\ pc'[c] = "renew" /\ answer'[c] = "pending"
  BY <1>1 DEF IInv, IdsIssued, CallersTyped
<1>4. LoginReplaces(c)' /\ RenewsOwn(c)'
  BY <1>1, <1>3 DEF LoginReplaces, RenewsOwn
<1>5. OthersDiscarded'
  <2>1. \A d \in Caller : pc[d] # "login"
    BY <1>1, TurnIsFree DEF Refreshing
  <2> QED  BY <1>1, <2>1 DEF IInv, OthersDiscarded
<1> QED  BY <1>1, <1>2, <1>4, <1>5, Refreshes

LEMMA BackoffOverKeeps == ASSUME IInv, NEW c \in Caller, BackoffOver(c) PROVE IInv'
<1>1. /\ pc[c] = "backoff" /\ pc' = [pc EXCEPT ![c] = "login"]
      /\ UNCHANGED <<session, lock, sid, outer, answer, ccu, opened, discarded>>
  BY DEF BackoffOver
<1>2. lock = c /\ LoginReplaces(c) /\ pc'[c] = "login"
  BY <1>1 DEF IInv, RefreshLocked, Refreshing, CallersTyped
<1>3. LoginReplaces(c)' /\ RenewsOwn(c)'
  BY <1>1, <1>2 DEF LoginReplaces, RenewsOwn
<1>4. OthersDiscarded'
  BY <1>1 DEF IInv, OthersDiscarded, CallersTyped
<1>5. /\ sid' \in [Caller -> Issued \cup {None}] /\ answer' \in [Caller -> Answers]
      /\ session' \in Issued \cup {None} /\ discarded' \subseteq Issued
  BY <1>1 DEF IInv, IdsIssued, CallersTyped
<1> QED  BY <1>1, <1>2, <1>3, <1>4, <1>5, Refreshes

\* The session before a login is none the CCU knows, so the new one replaces it.
LEMMA LoginGrantedKeeps == ASSUME IInv, NEW c \in Caller, LoginGranted(c) PROVE IInv'
<1>1. /\ pc[c] = "login" /\ session' = sid[c] /\ lock' = None
      /\ Ready(c, sid[c], age', queue) /\ UNCHANGED <<ccu, opened, discarded>>
  BY DEF LoginGranted, Release
<1>2. lock = c /\ LoginReplaces(c)
  BY <1>1 DEF IInv, RefreshLocked, Refreshing
<1>3. PICK p \in {"wait", "post"} : pc' = [pc EXCEPT ![c] = p]
  BY <1>1, ReadyStep
<1>4. /\ sid' = [sid EXCEPT ![c] = sid[c]]
      /\ outer' \in {outer, [outer EXCEPT ![c] = sid[c]]}
      /\ answer' = [answer EXCEPT ![c] = "pending"]
  BY <1>1, ReadyStep
<1>5. /\ sid[c] \in Issued \cup {None} /\ outer' \in [Caller -> Issued \cup {None}]
      /\ discarded' \subseteq Issued
  BY <1>1, <1>4 DEF IInv, IdsIssued
<1>6. OthersDiscarded'
  BY <1>1, <1>2, NobodyElseLogsIn DEF IInv, OthersDiscarded, LoginReplaces
<1> QED  BY <1>1, <1>2, <1>3, <1>4, <1>5, <1>6, StepsAside DEF Answers

LEMMA LoginRefusedKeeps == ASSUME IInv, NEW c \in Caller, LoginRefused(c) PROVE IInv'
<1>1. /\ pc[c] = "login" /\ answer[c] = "no" /\ session' = None /\ lock' = None
      /\ Finish(c) /\ UNCHANGED <<ccu, opened, discarded>>
  BY DEF LoginRefused, Release
<1>2. lock = c /\ LoginReplaces(c) /\ sid[c] = None
  BY <1>1 DEF IInv, RefreshLocked, Refreshing, LoginReplaces
<1>3. PICK p \in {"idle", "post"} : pc' = [pc EXCEPT ![c] = p]
  BY <1>1, FinishStep
<1>4. /\ sid' = [sid EXCEPT ![c] = outer[c]] /\ outer' = [outer EXCEPT ![c] = None]
      /\ answer' = [answer EXCEPT ![c] = "pending"]
  BY <1>1, FinishStep
<1>5. /\ outer[c] \in Issued \cup {None} /\ outer' \in [Caller -> Issued \cup {None}]
      /\ discarded' \subseteq Issued
  BY <1>1, <1>4 DEF IInv, IdsIssued
<1>6. OthersDiscarded'
  BY <1>1, <1>2, NobodyElseLogsIn, IssuedIsId DEF IInv, IdsIssued, OthersDiscarded, LoginReplaces
<1> QED  BY <1>1, <1>2, <1>3, <1>4, <1>5, <1>6, StepsAside DEF Answers

\* The request is over and the session given up, with the id of a login if there
\* was one.
LEMMA FinishCleared ==
    ASSUME IInv, NEW c \in Caller, NEW gone \in SUBSET (Issued \cup {None}), ClearSession(gone),
           pc[c] = "login" => sid[c] \in gone \cup {None},
           lock' \in {lock, None}, lock' # lock => lock = c,
           Finish(c), UNCHANGED <<ccu, opened>>
    PROVE  IInv'
<1>1. PICK p \in {"idle", "post"} : pc' = [pc EXCEPT ![c] = p]
  BY FinishStep
<1>2. /\ sid' = [sid EXCEPT ![c] = outer[c]] /\ outer' = [outer EXCEPT ![c] = None]
      /\ answer' = [answer EXCEPT ![c] = "pending"]
  BY FinishStep
<1>3. outer[c] \in Issued \cup {None} /\ outer' \in [Caller -> Issued \cup {None}]
  BY <1>2 DEF IInv, IdsIssued
<1>4. /\ session' = None /\ discarded' \subseteq Issued
      /\ gone \ {None} \subseteq discarded'
      /\ \A s \in ccu \ discarded' : \E d \in Caller : pc[d] = "login" /\ s = sid[d]
  BY ClearedIsDiscarded
<1>5. OthersDiscarded'
  <2> SUFFICES ASSUME NEW s \in ccu \ discarded'
               PROVE  \E d \in Caller : pc'[d] = "login" /\ s = sid'[d]
    BY DEF OthersDiscarded
  <2>1. PICK d \in Caller : pc[d] = "login" /\ s = sid[d]
    BY <1>4
  <2>2. s # None
    BY IssuedIsId DEF IInv, IdsIssued
  <2>3. d # c
    BY <1>4, <2>1, <2>2
  <2> QED  BY <1>1, <1>2, <2>1, <2>3 DEF IInv, CallersTyped, IdsIssued
<1> QED  BY <1>1, <1>2, <1>3, <1>4, <1>5, StepsAside DEF Answers

LEMMA LoginFailedKeeps == ASSUME IInv, NEW c \in Caller, LoginFailed(c) PROVE IInv'
<1>1. /\ pc[c] = "login" /\ answer[c] # "ok" /\ ClearSession({}) /\ lock' = None
      /\ Finish(c) /\ UNCHANGED <<ccu, opened>>
  BY DEF LoginFailed, Release
<1>2. lock = c /\ sid[c] = None
  BY <1>1 DEF IInv, RefreshLocked, Refreshing, LoginReplaces
<1> QED  BY <1>1, <1>2, FinishCleared

LEMMA RenewFailedKeeps == ASSUME IInv, NEW c \in Caller, RenewFailed(c) PROVE IInv'
<1>1. /\ pc[c] = "renew" /\ ClearSession({}) /\ lock' = None
      /\ Finish(c) /\ UNCHANGED <<ccu, opened>>
  BY DEF RenewFailed, Release
<1>2. lock = c
  BY <1>1 DEF IInv, RefreshLocked, Refreshing
<1> QED  BY <1>1, <1>2, FinishCleared

LEMMA BrokenKeeps == ASSUME IInv, NEW c \in Caller, Broken(c) PROVE IInv'
<1> DEFINE gone == IF pc[c] = "login" THEN {sid[c]} ELSE {}
<1>1. ClearSession(gone) /\ Finish(c) /\ UNCHANGED <<ccu, opened>>
  BY DEF Broken
<1>2. lock' \in {lock, None} /\ (lock' # lock => lock = c)
  BY DEF Broken, Release
<1>3. gone \in SUBSET (Issued \cup {None}) /\ (pc[c] = "login" => sid[c] \in gone \cup {None})
  BY DEF IInv, IdsIssued
<1> HIDE DEF gone
<1> QED  BY <1>1, <1>2, <1>3, FinishCleared

\* The id that comes back is the one the holder has renewed: nobody has logged in.
LEMMA RenewedKeeps == ASSUME IInv, NEW c \in Caller, Renewed(c) PROVE IInv'
<1>1. /\ pc[c] = "renew" /\ session' = sid[c] /\ lock' = None
      /\ discarded' = discarded \ {sid[c]}
      /\ Ready(c, sid[c], 0, queue) /\ UNCHANGED <<ccu, opened>>
  BY DEF Renewed, Release
<1>2. lock = c /\ RenewsOwn(c)
  BY <1>1 DEF IInv, RefreshLocked, Refreshing
<1>3. PICK p \in {"wait", "post"} : pc' = [pc EXCEPT ![c] = p]
  BY <1>1, ReadyStep
<1>4. /\ sid' = [sid EXCEPT ![c] = sid[c]]
      /\ outer' \in {outer, [outer EXCEPT ![c] = sid[c]]}
      /\ answer' = [answer EXCEPT ![c] = "pending"]
  BY <1>1, ReadyStep
<1>5. /\ sid[c] \in Issued \cup {None} /\ outer' \in [Caller -> Issued \cup {None}]
      /\ discarded' \subseteq Issued
  BY <1>1, <1>4 DEF IInv, IdsIssued
<1>6. OthersDiscarded'
  <2>1. \A d \in Caller : pc[d] # "login"
    BY <1>1, <1>2, NobodyElseLogsIn
  <2>2. None \notin ccu
    BY IssuedIsId DEF IInv, IdsIssued
  <2> QED  BY <1>1, <1>2, <2>1, <2>2 DEF IInv, OthersDiscarded, RenewsOwn
<1> QED  BY <1>1, <1>2, <1>3, <1>4, <1>5, <1>6, StepsAside DEF Answers

\* The session that could not be renewed is one the CCU does not know.
LEMMA RenewRefusedKeeps == ASSUME IInv, NEW c \in Caller, RenewRefused(c) PROVE IInv'
<1>1. /\ pc[c] = "renew" /\ answer[c] = "no" /\ ToLogin(c)
      /\ UNCHANGED <<session, lock, ccu, opened, discarded>>
  BY DEF RenewRefused
<1>2. PICK p \in {"backoff", "login"} : pc' = [pc EXCEPT ![c] = p]
  BY <1>1 DEF ToLogin
<1>3. sid' = [sid EXCEPT ![c] = None] /\ answer' = [answer EXCEPT ![c] = "pending"] /\ UNCHANGED outer
  BY <1>1 DEF ToLogin
<1>4. lock = c /\ RenewsOwn(c) /\ None \notin ccu
  BY <1>1, IssuedIsId DEF IInv, RefreshLocked, Refreshing, IdsIssued
<1>5. /\ sid' \in [Caller -> Issued \cup {None}] /\ answer' \in [Caller -> Answers]
      /\ sid'[c] = None /\ pc'[c] = p /\ \A d \in Caller \ {c} : sid'[d] = sid[d]
      /\ session' \in Issued \cup {None} /\ discarded' \subseteq Issued
  BY <1>1, <1>2, <1>3 DEF IInv, IdsIssued, CallersTyped, Answers
<1>6. LoginReplaces(c)' /\ RenewsOwn(c)'
  BY <1>1, <1>2, <1>4, <1>5 DEF LoginReplaces, RenewsOwn
<1>7. OthersDiscarded'
  <2>1. \A d \in Caller : pc[d] # "login"
    BY <1>1, <1>4, NobodyElseLogsIn
  <2> QED  BY <1>1, <2>1 DEF IInv, OthersDiscarded
<1> QED  BY <1>1, <1>2, <1>3, <1>4, <1>5, <1>6, <1>7, Refreshes

LEMMA RenewDeniedKeeps == ASSUME IInv, NEW c \in Caller, RenewDenied(c) PROVE IInv'
<1>1. /\ pc[c] = "renew" /\ ClearSession({})
      /\ pc' = [pc EXCEPT ![c] = "logout"] /\ answer' = [answer EXCEPT ![c] = "pending"]
      /\ UNCHANGED <<lock, sid, outer, ccu, opened>>
  BY DEF RenewDenied
<1>2. sid' = [sid EXCEPT ![c] = sid[c]] /\ sid[c] \in Issued \cup {None}
  BY <1>1 DEF IInv, IdsIssued
<1>3. /\ session' = None /\ discarded' \subseteq Issued
      /\ \A s \in ccu \ discarded' : \E d \in Caller : pc[d] = "login" /\ s = sid[d]
  BY <1>1, ClearedIsDiscarded
<1>4. OthersDiscarded'
  BY <1>1, <1>3 DEF IInv, CallersTyped, OthersDiscarded
<1>5. outer' \in [Caller -> Issued \cup {None}]
  BY <1>1 DEF IInv, IdsIssued
<1> QED  BY <1>1, <1>2, <1>3, <1>4, <1>5, StepsAside DEF Answers

LEMMA LogoutKeeps == ASSUME IInv, NEW c \in Caller, Logout(c) PROVE IInv'
<1>1. /\ pc[c] = "idle"
      /\ pc' = [pc EXCEPT ![c] = "logout"] /\ sid' = [sid EXCEPT ![c] = session]
      /\ UNCHANGED <<session, lock, outer, answer, ccu, opened, discarded>>
  BY DEF Logout
<1>2. /\ answer' = [answer EXCEPT ![c] = answer[c]] /\ answer[c] \in Answers
      /\ session \in Issued \cup {None} /\ outer' \in [Caller -> Issued \cup {None}]
      /\ discarded' \subseteq Issued
  BY <1>1 DEF IInv, CallersTyped, IdsIssued
<1>3. OthersDiscarded'
  BY <1>1 DEF IInv, CallersTyped, IdsIssued, OthersDiscarded
<1> QED  BY <1>1, <1>2, <1>3, StepsAside

LEMMA LoggedOutKeeps == ASSUME IInv, NEW c \in Caller, LoggedOut(c) PROVE IInv'
<1>1. pc[c] = "logout" /\ ClearSession({}) /\ UNCHANGED <<lock, ccu, opened>>
  BY DEF LoggedOut
<1>2. CASE lock # c
  <2>1. Finish(c)
    BY <1>2 DEF LoggedOut
  <2> QED  BY <1>1, <2>1, FinishCleared
<1>3. CASE lock = c
  <2>1. ToLogin(c)
    BY <1>3 DEF LoggedOut
  <2>2. PICK p \in {"backoff", "login"} : pc' = [pc EXCEPT ![c] = p]
    BY <2>1 DEF ToLogin
  <2>3. /\ sid' = [sid EXCEPT ![c] = None] /\ answer' = [answer EXCEPT ![c] = "pending"]
        /\ UNCHANGED outer
    BY <2>1 DEF ToLogin
  <2>4. /\ session' = None /\ discarded' \subseteq Issued
        /\ \A s \in ccu \ discarded' : \E d \in Caller : pc[d] = "login" /\ s = sid[d]
    BY <1>1, ClearedIsDiscarded
  <2>5. /\ sid' \in [Caller -> Issued \cup {None}] /\ answer' \in [Caller -> Answers]
        /\ sid'[c] = None /\ pc'[c] = p /\ \A d \in Caller \ {c} : sid'[d] = sid[d]
    BY <2>2, <2>3 DEF IInv, IdsIssued, CallersTyped, Answers
  <2>6. LoginReplaces(c)' /\ RenewsOwn(c)'
    BY <1>1, <2>2, <2>4, <2>5, IssuedIsId DEF LoginReplaces, RenewsOwn, IInv, IdsIssued
  <2>7. OthersDiscarded'
    BY <1>1, <1>3, <2>4, NobodyElseLogsIn DEF OthersDiscarded
  <2> QED  BY <1>1, <1>3, <2>2, <2>3, <2>4, <2>5, <2>6, <2>7, Refreshes
<1> QED  BY <1>2, <1>3

\* Posted and Rejected.
LEMMA PostOverKeeps ==
    ASSUME IInv, NEW c \in Caller, pc[c] = "post", Finish(c),
           UNCHANGED <<session, lock, ccu, opened, discarded>>
    PROVE  IInv'
<1>1. PICK p \in {"idle", "post"} : pc' = [pc EXCEPT ![c] = p]
  BY FinishStep
<1>2. /\ sid' = [sid EXCEPT ![c] = outer[c]] /\ outer' = [outer EXCEPT ![c] = None]
      /\ answer' = [answer EXCEPT ![c] = "pending"]
  BY FinishStep
<1>3. /\ outer[c] \in Issued \cup {None} /\ outer' \in [Caller -> Issued \cup {None}]
      /\ session \in Issued \cup {None} /\ discarded \subseteq Issued
  BY <1>2 DEF IInv, IdsIssued
<1>4. OthersDiscarded'
  BY <1>1, <1>2 DEF IInv, CallersTyped, IdsIssued, OthersDiscarded
<1> QED  BY <1>1, <1>2, <1>3, <1>4, StepsAside DEF Answers

LEMMA CancelledKeeps == ASSUME IInv, NEW c \in Caller, Cancelled(c) PROVE IInv'
<1>1. /\ pc' = [pc EXCEPT ![c] = "gone"] /\ sid' = [sid EXCEPT ![c] = None]
      /\ outer' = [outer EXCEPT ![c] = None] /\ answer' = [answer EXCEPT ![c] = "pending"]
      /\ UNCHANGED <<ccu, opened>>
  BY DEF Cancelled
<1>2. lock' \in {lock, None} /\ (lock' # lock => lock = c)
  BY DEF Cancelled, Release
<1>3. outer' \in [Caller -> Issued \cup {None}]
  BY <1>1 DEF IInv, IdsIssued
<1>4. CASE pc[c] = "logout"
  <2>1. ClearSession({})
    BY <1>4 DEF Cancelled
  <2>2. /\ session' = None /\ discarded' \subseteq Issued
        /\ \A s \in ccu \ discarded' : \E d \in Caller : pc[d] = "login" /\ s = sid[d]
    BY <2>1, ClearedIsDiscarded
  <2>3. OthersDiscarded'
    BY <1>1, <1>4, <2>2 DEF IInv, CallersTyped, IdsIssued, OthersDiscarded
  <2> QED  BY <1>1, <1>2, <1>3, <2>2, <2>3, StepsAside DEF Answers
<1>5. CASE pc[c] # "logout"
  <2>1. /\ session' = session /\ session \in Issued \cup {None} /\ discarded \subseteq discarded'
        /\ discarded' \subseteq Issued
        /\ pc[c] = "login" /\ sid[c] # None => sid[c] \in discarded'
    BY <1>5 DEF Cancelled, IInv, IdsIssued
  <2>2. OthersDiscarded'
    <3> SUFFICES ASSUME NEW s \in ccu \ discarded', s # session
                 PROVE  \E d \in Caller : pc'[d] = "login" /\ s = sid'[d]
      BY <1>1, <2>1 DEF OthersDiscarded
    <3>1. PICK d \in Caller : pc[d] = "login" /\ s = sid[d]
      BY <2>1 DEF IInv, OthersDiscarded
    <3>2. s # None
      BY IssuedIsId DEF IInv, IdsIssued
    <3>3. d # c
      BY <2>1, <3>1, <3>2
    <3> QED  BY <1>1, <3>1, <3>3 DEF IInv, CallersTyped, IdsIssued
  <2> QED  BY <1>1, <1>2, <1>3, <2>1, <2>2, StepsAside DEF Answers
<1> QED  BY <1>4, <1>5

LEMMA ForceLoginKeeps == ASSUME IInv, ForceLogin PROVE IInv'
<1>1. ClearSession({}) /\ UNCHANGED <<lock, pc, sid, outer, answer, ccu, opened>>
  BY DEF ForceLogin
<1>2. /\ session' = None /\ discarded' \subseteq Issued
      /\ \A s \in ccu \ discarded' : \E d \in Caller : pc[d] = "login" /\ s = sid[d]
  BY <1>1, ClearedIsDiscarded
<1>3. IdsIssued' /\ CallersTyped'
  BY <1>1, <1>2 DEF IInv, IdsIssued, CallersTyped, Issued
<1>4. RefreshLocked' /\ OthersDiscarded'
  BY <1>1, <1>2 DEF IInv, RefreshLocked, Refreshing, OthersDiscarded
<1>5. \A c \in Caller : LoginReplaces(c)' /\ RenewsOwn(c)'
  BY <1>1, <1>2, IssuedIsId DEF IInv, IdsIssued, LoginReplaces, RenewsOwn
<1> QED  BY <1>3, <1>4, <1>5 DEF IInv

\* The new id is none that any part of the client knows.
LEMMA CcuOpensKeeps == ASSUME IInv, NEW c \in Caller, CcuOpens(c) PROVE IInv'
<1>1. /\ pc[c] = "login" /\ opened < MaxLogins
      /\ opened' = opened + 1 /\ ccu' = ccu \cup {opened'}
      /\ sid' = [sid EXCEPT ![c] = opened'] /\ answer' = [answer EXCEPT ![c] = "ok"]
      /\ UNCHANGED <<session, lock, pc, outer, discarded>>
  BY DEF CcuOpens
<1>2. opened \in 0 .. MaxLogins /\ opened' \in 0 .. MaxLogins /\ opened' \notin Issued
  BY <1>1, SessionAssumption DEF IInv, IdsIssued, Issued
<1>3. Issued' = Issued \cup {opened'} /\ None \notin Issued'
  BY <1>1, <1>2, SessionAssumption DEF Issued, Id
<1>4. IdsIssued' /\ CallersTyped'
  BY <1>1, <1>2, <1>3 DEF IInv, IdsIssued, CallersTyped, Answers
<1>5. RefreshLocked'
  BY <1>1 DEF IInv, RefreshLocked, Refreshing
<1>6. session \notin {opened'} /\ session \in Issued \cup {None}
  BY <1>2, <1>3 DEF IInv, IdsIssued
<1>7. ASSUME NEW d \in Caller PROVE LoginReplaces(d)' /\ RenewsOwn(d)'
  <2>1. LoginReplaces(d) /\ RenewsOwn(d) /\ sid[d] \in Issued \cup {None} /\ sid[d] # opened'
    BY <1>2, <1>3 DEF IInv, IdsIssued
  <2>2. CASE d = c
    BY <1>1, <1>6, <2>1, <2>2 DEF LoginReplaces, RenewsOwn, IInv, CallersTyped, IdsIssued
  <2>3. CASE d # c
    <3>1. sid'[d] = sid[d] /\ answer'[d] = answer[d] /\ pc'[d] = pc[d]
      BY <1>1, <2>3 DEF IInv, CallersTyped, IdsIssued
    <3> QED  BY <1>1, <1>6, <2>1, <3>1 DEF LoginReplaces, RenewsOwn
  <2> QED  BY <2>2, <2>3
<1>8. OthersDiscarded'
  <2>1. sid'[c] = opened' /\ \A d \in Caller : pc[d] = "login" => d = c
    BY <1>1 DEF IInv, IdsIssued, RefreshLocked, Refreshing
  <2>2. \A s \in ccu \ discarded : s = session
    <3>1. sid[c] = None \/ answer[c] = "ok"
      BY <1>1 DEF IInv, LoginReplaces
    <3>2. answer[c] = "pending"
      BY DEF CcuOpens
    <3>3. None \notin ccu
      BY <1>3 DEF IInv, IdsIssued
    <3> QED  BY <2>1, <3>1, <3>2, <3>3 DEF IInv, OthersDiscarded
  <2> QED  BY <1>1, <2>1, <2>2 DEF OthersDiscarded
<1> QED  BY <1>4, <1>5, <1>7, <1>8 DEF IInv

LEMMA CcuAnswersKeeps == ASSUME IInv, NEW c \in Caller, CcuAnswers(c) PROVE IInv'
<1>1. PICK a \in Answers \ {"pending"} :
         /\ pc[c] = "login" => a # "ok"
         /\ pc[c] # "login" /\ a \in {"no", "denied"} => sid[c] \notin ccu
         /\ answer' = [answer EXCEPT ![c] = a]
         /\ ccu' = IF pc[c] = "logout" /\ a = "ok" THEN ccu \ {sid[c]} ELSE ccu
  BY DEF CcuAnswers
<1>2. /\ ccu' \subseteq ccu /\ answer[c] = "pending"
      /\ UNCHANGED <<session, lock, pc, sid, outer, opened, discarded>>
  BY <1>1 DEF CcuAnswers, clientVars
<1>3. IdsIssued' /\ CallersTyped' /\ RefreshLocked'
  BY <1>1, <1>2 DEF IInv, IdsIssued, CallersTyped, Issued, RefreshLocked, Refreshing
<1>4. ASSUME NEW d \in Caller PROVE LoginReplaces(d)' /\ RenewsOwn(d)'
  <2>1. LoginReplaces(d) /\ RenewsOwn(d)
    BY DEF IInv
  <2>2. CASE d = c
    <3>1. answer'[d] = a
      BY <1>1, <2>2 DEF IInv, CallersTyped
    <3> QED  BY <1>1, <1>2, <2>1, <2>2, <3>1 DEF LoginReplaces, RenewsOwn
  <2>3. CASE d # c
    <3>1. answer'[d] = answer[d]
      BY <1>1, <2>3 DEF IInv, CallersTyped
    <3> QED  BY <1>2, <2>1, <3>1 DEF LoginReplaces, RenewsOwn
  <2> QED  BY <2>2, <2>3
<1>5. OthersDiscarded'
  BY <1>2 DEF IInv, OthersDiscarded
<1> QED  BY <1>3, <1>4, <1>5 DEF IInv

LEMMA CcuForgetsKeeps == ASSUME IInv, CcuForgets PROVE IInv'
<1>1. /\ ccu' \subseteq ccu
      /\ UNCHANGED <<session, lock, pc, sid, outer, answer, opened, discarded>>
  BY DEF CcuForgets, clientVars
<1>2. IdsIssued' /\ CallersTyped' /\ RefreshLocked'
  BY <1>1 DEF IInv, IdsIssued, CallersTyped, Issued, RefreshLocked, Refreshing
<1>3. OthersDiscarded' /\ \A d \in Caller : LoginReplaces(d)' /\ RenewsOwn(d)'
  BY <1>1 DEF IInv, OthersDiscarded, LoginReplaces, RenewsOwn
<1> QED  BY <1>2, <1>3 DEF IInv

LEMMA UnchangedKeeps ==
    ASSUME IInv, UNCHANGED <<session, lock, pc, sid, outer, answer, ccu, opened, discarded>>
    PROVE  IInv'
BY DEF IInv, IdsIssued, CallersTyped, Issued, RefreshLocked, Refreshing, OthersDiscarded,
       LoginReplaces, RenewsOwn

LEMMA IInvNext == IInv /\ [Next]_vars => IInv'
<1> SUFFICES ASSUME IInv, [Next]_vars PROVE IInv'
  OBVIOUS
<1>1. ASSUME NEW c \in Caller, Step(c) PROVE IInv'
  <2>1. CASE AlreadyRefreshed(c) \/ StartLogin(c) \/ StartRenew(c) \/ BackoffOver(c)
    BY <2>1, AlreadyRefreshedKeeps, StartLoginKeeps, StartRenewKeeps, BackoffOverKeeps
  <2>2. CASE LoginGranted(c) \/ LoginRefused(c) \/ LoginFailed(c)
    BY <2>2, LoginGrantedKeeps, LoginRefusedKeeps, LoginFailedKeeps
  <2>3. CASE Renewed(c) \/ RenewRefused(c) \/ RenewDenied(c) \/ RenewFailed(c)
    BY <2>3, RenewedKeeps, RenewRefusedKeeps, RenewDeniedKeeps, RenewFailedKeeps
  <2>4. CASE LoggedOut(c) \/ Broken(c)
    BY <2>4, LoggedOutKeeps, BrokenKeeps
  <2>5. CASE Posted(c) \/ Rejected(c)
    BY <2>5, PostOverKeeps DEF Posted, Rejected
  <2> QED  BY <1>1, <2>1, <2>2, <2>3, <2>4, <2>5 DEF Step
<1>2. ASSUME NEW c \in Caller, Call(c) \/ Logout(c) \/ Cancelled(c) PROVE IInv'
  BY <1>2, CallKeeps, LogoutKeeps, CancelledKeeps
<1>3. ASSUME NEW c \in Caller, CcuOpens(c) \/ CcuAnswers(c) PROVE IInv'
  BY <1>3, CcuOpensKeeps, CcuAnswersKeeps
<1>4. CASE ForceLogin \/ CcuForgets
  BY <1>4, ForceLoginKeeps, CcuForgetsKeeps
<1>5. CASE Tick
  BY <1>5, UnchangedKeeps DEF Tick
<1>6. CASE UNCHANGED vars
  BY <1>6, UnchangedKeeps DEF vars, clientVars
<1> QED  BY <1>1, <1>2, <1>3, <1>4, <1>5, <1>6 DEF Next

\* For any callers and any interleaving of their logins, renewals, logouts, errors
\* and cancellations, the client has at most one session open at the CCU that it has
\* not given up: what _session_lock and the second look under it are for.
THEOREM AtMostOneSession == Spec => []OneSession
<1>1. ASSUME IInv PROVE OneSession
  <2>1. ASSUME NEW s \in ccu \ discarded, NEW u \in ccu \ discarded PROVE s = u
    <3>1. \A c, d \in Caller : pc[c] = "login" /\ pc[d] = "login" => c = d
      BY <1>1 DEF IInv, RefreshLocked, Refreshing
    <3>2. \A c \in Caller : pc[c] = "login" => session \notin ccu
      BY <1>1 DEF IInv, LoginReplaces
    <3> QED  BY <1>1, <3>1, <3>2 DEF IInv, OthersDiscarded
  <2>2. CASE ccu \ discarded = {}
    BY <2>2, FS_EmptySet DEF OneSession
  <2>3. ASSUME NEW s \in ccu \ discarded PROVE OneSession
    <3>1. ccu \ discarded = {s}
      BY <2>1
    <3> QED  BY <3>1, FS_Singleton DEF OneSession
  <2> QED  BY <2>2, <2>3
<1> QED  BY <1>1, IInvInit, IInvNext, PTL DEF Spec
=============================================================================
