---------------------------- MODULE JsonSession ----------------------------
(***************************************************************************)
(* The CCU session of AioJsonRpcAioHttpClient (client/json_rpc.py): every  *)
(* _post first makes sure of a session, logging in or renewing under       *)
(* _session_lock, then posts with the id it read.  The CCU opens and       *)
(* forgets sessions on its own and its answers take time.                  *)
(*                                                                         *)
(* A caller is one task in _post or _post_script (keep_session is never    *)
(* False in the repository), or the logout of CentralUnit.stop.  Ids are   *)
(* numbers the CCU never hands out twice.  Time is counted in ticks and    *)
(* only matters modulo a day, because the age of the session is taken from *)
(* timedelta.seconds.  The request bodies, the HTTP semaphore (never held  *)
(* across another wait) and the length of the login backoff are left out;  *)
(* the circuit breaker is CircuitBreaker.tla, here it may reject a post.   *)
(***************************************************************************)
EXTENDS Naturals, Sequences, SequencesExt, FiniteSets

CONSTANTS Caller,
          MaxLogins,     \* sessions the CCU opens
          SessionAge,    \* JSON_SESSION_AGE, in ticks
          Day,           \* a day, in ticks
          None

Id == 1 .. MaxLogins

ASSUME SessionAssumption ==
    /\ MaxLogins \in Nat
    /\ SessionAge \in Nat /\ Day \in Nat /\ SessionAge < Day
    /\ None \notin Caller \cup Id

VARIABLES
    session,    \* _session_id
    age,        \* ticks since _last_session_id_refresh, modulo Day; None: never
    lock,       \* the holder of _session_lock
    queue,      \* the callers waiting for it, first come first served
    fallback,   \* the login under way is the last line of _do_renew_login
    refused,    \* _failed_login_attempts > 0
    methods,    \* _supported_methods is known
    pc,         \* caller -> where its task is
    sid,        \* caller -> the id it posts, or the one a login was granted
    outer,      \* caller -> the id kept for its own post while it asks for the methods
    answer,     \* caller -> what the CCU answered to its request
    ccu,        \* the sessions open at the CCU
    opened,     \* how many sessions it opened
    discarded   \* history: the ids the client gave up without a logout

clientVars == <<session, age, lock, queue, fallback, refused, methods, pc, sid, outer>>
vars == <<clientVars, answer, ccu, opened, discarded>>

Answers == {"pending", "ok", "no", "denied", "error"}
Request == {"login", "renew", "logout", "post"}

\* Every variable stays in its range.
TypeOK ==
    /\ session \in Id \cup {None}
    /\ age \in (0 .. Day - 1) \cup {None}
    /\ lock \in Caller \cup {None}
    /\ IsInjective(queue) /\ Range(queue) = {c \in Caller : pc[c] = "wait"}
    /\ {fallback, refused, methods} \subseteq BOOLEAN
    /\ pc \in [Caller -> {"idle", "wait", "backoff", "gone"} \cup Request]
    /\ sid \in [Caller -> Id \cup {None}]
    /\ outer \in [Caller -> Id \cup {None}]
    /\ answer \in [Caller -> Answers]
    /\ ccu \in SUBSET Id /\ opened \in 0 .. MaxLogins
    /\ discarded \in SUBSET Id

Init ==
    /\ session = None /\ age = None /\ lock = None /\ queue = <<>>
    /\ fallback = FALSE /\ refused = FALSE /\ methods = FALSE
    /\ pc = [c \in Caller |-> "idle"]
    /\ sid = [c \in Caller |-> None]
    /\ outer = [c \in Caller |-> None]
    /\ answer = [c \in Caller |-> "pending"]
    /\ ccu = {} /\ opened = 0 /\ discarded = {}

-----------------------------------------------------------------------------
\* _has_session_recently_refreshed: timedelta.seconds is the age modulo a day.
RecentlyRefreshed(a) == a # None /\ a < SessionAge

\* clear_session, and the ids of gone that nobody keeps any more.
ClearSession(gone) ==
    /\ session' = None
    /\ discarded' = discarded \cup (({session} \cup gone) \ {None})

\* Mutant: the lock is only released when the refresh succeeds.
ReleaseOnSuccess == lock' = (IF session' = None THEN lock ELSE None) /\ fallback' = FALSE

\* The end of "async with self._session_lock".
Release == lock' = None /\ fallback' = FALSE

\* The request of c is over, whatever became of it.  The question for the
\* methods swallows every error of the client and the post proper follows with
\* the id read before it; else _post returns or raises.
Finish(c) ==
    /\ methods' = (methods \/ outer[c] # None)
    /\ pc' = [pc EXCEPT ![c] = IF outer[c] # None THEN "post" ELSE "idle"]
    /\ sid' = [sid EXCEPT ![c] = outer[c]]
    /\ outer' = [outer EXCEPT ![c] = None]
    /\ answer' = [answer EXCEPT ![c] = "pending"]

\* _login_or_renew returned with session s of age a, and no await follows: the
\* caller posts with s, or first asks for the supported methods, which begins
\* with a _login_or_renew of its own.
Ready(c, s, a, q) ==
    LET ask == ~methods /\ outer[c] = None
    IN  /\ outer' = IF ask THEN [outer EXCEPT ![c] = s] ELSE outer
        /\ IF ask /\ ~RecentlyRefreshed(a)
           THEN pc' = [pc EXCEPT ![c] = "wait"] /\ queue' = Append(q, c)
           ELSE pc' = [pc EXCEPT ![c] = "post"] /\ queue' = q
        /\ sid' = [sid EXCEPT ![c] = s]
        /\ answer' = [answer EXCEPT ![c] = "pending"]
        /\ UNCHANGED methods

\* _do_login up to its request: a refused login makes the next one sleep first.
ToLogin(c) ==
    /\ pc' = [pc EXCEPT ![c] = IF refused THEN "backoff" ELSE "login"]
    /\ sid' = [sid EXCEPT ![c] = None]
    /\ answer' = [answer EXCEPT ![c] = "pending"]
    /\ UNCHANGED <<outer, methods>>

-----------------------------------------------------------------------------
\* _post up to the first wait: the fast path, or the queue of the lock.
Call(c) ==
    /\ pc[c] = "idle"
    /\ IF session # None /\ RecentlyRefreshed(age)
       THEN Ready(c, session, age, queue)
       ELSE /\ pc' = [pc EXCEPT ![c] = "wait"]
            /\ queue' = Append(queue, c)
            /\ UNCHANGED <<sid, outer, answer, methods>>
    /\ UNCHANGED <<session, age, lock, fallback, refused, ccu, opened, discarded>>

\* The lock is c's turn.
Turn(c) == lock = None /\ queue # <<>> /\ Head(queue) = c

\* Under the lock, somebody else has refreshed the session meanwhile.
AlreadyRefreshed(c) ==
    /\ Turn(c)
    /\ session # None /\ RecentlyRefreshed(age)
    /\ Ready(c, session, age, Tail(queue))
    /\ UNCHANGED <<session, age, lock, fallback, refused, ccu, opened, discarded>>

\* Mutant: no second look under the lock, the queued caller logs in.
StartLoginBlindly(c) ==
    /\ Turn(c)
    /\ lock' = c /\ queue' = Tail(queue)
    /\ ToLogin(c)
    /\ UNCHANGED <<session, age, fallback, refused, ccu, opened, discarded>>

\* Under the lock without a session: log in.
StartLogin(c) ==
    /\ Turn(c)
    /\ session = None
    /\ lock' = c /\ queue' = Tail(queue)
    /\ ToLogin(c)
    /\ UNCHANGED <<session, age, fallback, refused, ccu, opened, discarded>>

\* Under the lock with an old session: Session.renew.
StartRenew(c) ==
    /\ Turn(c)
    /\ session # None /\ ~RecentlyRefreshed(age)
    /\ lock' = c /\ queue' = Tail(queue)
    /\ pc' = [pc EXCEPT ![c] = "renew"]
    /\ sid' = [sid EXCEPT ![c] = session]
    /\ answer' = [answer EXCEPT ![c] = "pending"]
    /\ UNCHANGED <<session, age, fallback, refused, methods, outer, ccu, opened, discarded>>

\* The sleep of the rate limit is over.
BackoffOver(c) ==
    /\ pc[c] = "backoff"
    /\ pc' = [pc EXCEPT ![c] = "login"]
    /\ UNCHANGED <<session, age, lock, queue, fallback, refused, methods, sid, outer,
                   answer, ccu, opened, discarded>>

\* A login answered with an id.  _last_session_id_refresh is set by
\* _login_or_renew, not when the login is the fallback of a renewal.
LoginGranted(c) ==
    /\ pc[c] = "login" /\ answer[c] = "ok"
    /\ session' = sid[c]
    /\ age' = IF fallback THEN age ELSE 0
    /\ refused' = FALSE
    /\ Release
    /\ Ready(c, sid[c], age', queue)
    /\ UNCHANGED <<ccu, opened, discarded>>

\* A login answered without an id: the rate limit counts it, _post raises.
LoginRefused(c) ==
    /\ pc[c] = "login" /\ answer[c] = "no"
    /\ session' = None
    /\ age' = IF fallback THEN age ELSE 0
    /\ refused' = TRUE
    /\ Release
    /\ Finish(c)
    /\ UNCHANGED <<queue, ccu, opened, discarded>>

\* A login answered with an error, denied or not: it is raised, uncounted.
LoginFailed(c) ==
    /\ pc[c] = "login" /\ answer[c] \in {"denied", "error"}
    /\ ClearSession({})
    /\ Release
    /\ Finish(c)
    /\ UNCHANGED <<age, queue, refused, ccu, opened>>

\* Session.renew answered true: the id is the session again, even if it was
\* cleared while the renewal was under way.
Renewed(c) ==
    /\ pc[c] = "renew" /\ answer[c] = "ok"
    /\ session' = sid[c]
    /\ age' = 0
    /\ discarded' = discarded \ {sid[c]}
    /\ Release
    /\ Ready(c, sid[c], 0, queue)
    /\ UNCHANGED <<refused, ccu, opened>>

\* Session.renew answered false: log in.
RenewRefused(c) ==
    /\ pc[c] = "renew" /\ answer[c] = "no"
    /\ fallback' = TRUE
    /\ ToLogin(c)
    /\ UNCHANGED <<session, age, lock, queue, refused, ccu, opened, discarded>>

\* Mutant: AuthFailure of the renewal is taken for a session that still works.
RenewDeniedKept(c) ==
    /\ pc[c] = "renew" /\ answer[c] = "denied"
    /\ Release
    /\ Ready(c, sid[c], age, queue)
    /\ UNCHANGED <<session, age, refused, ccu, opened, discarded>>

\* Session.renew raised AuthFailure: clear the session, log the old id out.
RenewDenied(c) ==
    /\ pc[c] = "renew" /\ answer[c] = "denied"
    /\ ClearSession({})
    /\ fallback' = TRUE
    /\ pc' = [pc EXCEPT ![c] = "logout"]
    /\ answer' = [answer EXCEPT ![c] = "pending"]
    /\ UNCHANGED <<age, lock, queue, refused, methods, sid, outer, ccu, opened>>

\* Session.renew answered with another error: clear the session and raise.
RenewFailed(c) ==
    /\ pc[c] = "renew" /\ answer[c] = "error"
    /\ ClearSession({})
    /\ Release
    /\ Finish(c)
    /\ UNCHANGED <<age, queue, refused, ccu, opened>>

\* logout() of CentralUnit.stop, without the lock.
Logout(c) ==
    /\ pc[c] = "idle" /\ session # None
    /\ pc' = [pc EXCEPT ![c] = "logout"]
    /\ sid' = [sid EXCEPT ![c] = session]
    /\ UNCHANGED <<session, age, lock, queue, fallback, refused, methods, outer,
                   answer, ccu, opened, discarded>>

\* Session.logout ended, with an answer or without (its errors are swallowed):
\* whatever session there is now is cleared.  A renewal goes on to log in.
LoggedOut(c) ==
    /\ pc[c] = "logout"
    /\ ClearSession({})
    /\ IF lock = c THEN ToLogin(c) ELSE Finish(c)
    /\ UNCHANGED <<age, lock, queue, fallback, refused, ccu, opened>>

\* A post was answered, perhaps with an error: the session stays as it is.
Posted(c) ==
    /\ pc[c] = "post" /\ answer[c] # "pending"
    /\ Finish(c)
    /\ UNCHANGED <<session, age, lock, queue, fallback, refused, ccu, opened, discarded>>

\* The circuit breaker is open, or the method is unsupported: nothing is sent.
Rejected(c) ==
    /\ pc[c] = "post" /\ answer[c] = "pending"
    /\ Finish(c)
    /\ UNCHANGED <<session, age, lock, queue, fallback, refused, ccu, opened, discarded>>

\* The connection failed, the request timed out or its answer was no JSON: the
\* session is cleared, whoever's it is; a granted login is never heard of.
Broken(c) ==
    /\ pc[c] \in Request \ {"logout"}
    /\ ClearSession(IF pc[c] = "login" THEN {sid[c]} ELSE {})
    /\ IF lock = c THEN Release ELSE UNCHANGED <<lock, fallback>>
    /\ Finish(c)
    /\ UNCHANGED <<age, queue, refused, ccu, opened>>

\* The task of c is cancelled, for good, as the program stops: the lock is left,
\* the session is not cleared unless c was logging out, and a shielded request
\* runs on unheard.
Cancelled(c) ==
    /\ pc[c] \notin {"idle", "gone"}
    /\ IF pc[c] = "logout" THEN ClearSession({})
       ELSE /\ UNCHANGED session
            /\ discarded' = IF pc[c] = "login" THEN discarded \cup ({sid[c]} \ {None})
                            ELSE discarded
    /\ IF lock = c THEN Release ELSE UNCHANGED <<lock, fallback>>
    /\ queue' = SelectSeq(queue, LAMBDA d : d # c)
    /\ pc' = [pc EXCEPT ![c] = "gone"]
    /\ sid' = [sid EXCEPT ![c] = None]
    /\ outer' = [outer EXCEPT ![c] = None]
    /\ answer' = [answer EXCEPT ![c] = "pending"]
    /\ UNCHANGED <<age, refused, methods, ccu, opened>>

\* clear_json_rpc_session: a recovery begins.
ForceLogin ==
    /\ session # None
    /\ ClearSession({})
    /\ UNCHANGED <<age, lock, queue, fallback, refused, methods, pc, sid, outer,
                   answer, ccu, opened>>

-----------------------------------------------------------------------------
\* The CCU opens a session (external).
CcuOpens(c) ==
    /\ pc[c] = "login" /\ answer[c] = "pending"
    /\ opened < MaxLogins
    /\ opened' = opened + 1
    /\ ccu' = ccu \cup {opened'}
    /\ sid' = [sid EXCEPT ![c] = opened']
    /\ answer' = [answer EXCEPT ![c] = "ok"]
    /\ UNCHANGED <<session, age, lock, queue, fallback, refused, methods, pc, outer,
                   discarded>>

\* The CCU answers any other request (external).  A session it does not know is
\* denied; it renews and logs out the ones it knows.
CcuAnswers(c) ==
    /\ pc[c] \in Request /\ answer[c] = "pending"
    /\ \E a \in Answers \ {"pending"} :
          /\ pc[c] = "login" => a # "ok"
          /\ pc[c] # "login" /\ a = "ok" => sid[c] \in ccu
          /\ pc[c] # "login" /\ a \in {"no", "denied"} => sid[c] \notin ccu
          /\ answer' = [answer EXCEPT ![c] = a]
          /\ ccu' = IF pc[c] = "logout" /\ a = "ok" THEN ccu \ {sid[c]} ELSE ccu
    /\ UNCHANGED <<clientVars, opened, discarded>>

\* A session expires at the CCU, or the CCU restarts and forgets them all
\* (external).
CcuForgets ==
    /\ \E gone \in {{s} : s \in ccu} \cup ({ccu} \ {{}}) : ccu' = ccu \ gone
    /\ UNCHANGED <<clientVars, answer, opened, discarded>>

\* A tick passes; a task that has the lock for the taking runs before.
Tick ==
    /\ age # None
    /\ \A c \in Caller : ~Turn(c)
    /\ age' = (age + 1) % Day
    /\ UNCHANGED <<session, lock, queue, fallback, refused, methods, pc, sid, outer,
                   answer, ccu, opened, discarded>>

\* What brings a caller on by itself: every wait ends, a request by ClientTimeout.
Step(c) ==
    \/ AlreadyRefreshed(c) \/ StartLogin(c) \/ StartRenew(c) \/ BackoffOver(c)
    \/ LoginGranted(c) \/ LoginRefused(c) \/ LoginFailed(c)
    \/ Renewed(c) \/ RenewRefused(c) \/ RenewDenied(c) \/ RenewFailed(c)
    \/ LoggedOut(c) \/ Posted(c) \/ Rejected(c) \/ Broken(c)

Next ==
    \/ \E c \in Caller : Step(c)
    \/ \E c \in Caller : Call(c) \/ Logout(c) \/ Cancelled(c)
    \/ \E c \in Caller : CcuOpens(c) \/ CcuAnswers(c)
    \/ ForceLogin \/ CcuForgets \/ Tick

Spec == Init /\ [][Next]_vars

\* A call that begins with an old session, or with none.
RefreshingCall == \E c \in Caller : Call(c) /\ ~RecentlyRefreshed(age)

\* Waits end and time passes.
FairSpec == Spec /\ (\A c \in Caller : WF_vars(Step(c))) /\ WF_vars(Tick)

-----------------------------------------------------------------------------
(* Properties *)

\* The client keeps at most one session open at the CCU: a second one exists only
\* when an error, a cancellation or a forced login made it give up the first.
\* That is what _session_lock and the second look under it are for
\* (json_rpc.py:2201-2207).
OneSession == Cardinality(ccu \ discarded) <= 1

\* Every call ends: whatever fails in a refresh, the lock goes to the next caller
\* (json_rpc.py:2204-2215).
CallEnds == \A c \in Caller : pc[c] # "idle" ~> pc[c] \in {"idle", "gone"}

\* A session the CCU has forgotten does not stay: even one that came back because
\* a renewal was answered before the CCU restarted and delivered after the
\* session was cleared (json_rpc.py:2214) is found out and replaced.  This takes
\* calls that begin when the session was not refreshed recently; the scheduler
\* polls far more often than once a day, so there is always another one.
DeadSessionReplaced ==
    []<><<RefreshingCall>>_vars =>
        (session # None /\ session \notin ccu ~> session = None \/ session \in ccu)
=============================================================================
