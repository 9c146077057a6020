------------------------------ MODULE RpcProxy ------------------------------
(***************************************************************************)
(* AioXmlRpcProxy._async_request (aiohomematic/client/rpc_proxy.py) for    *)
(* the proxies of ONE interface.                                           *)
(*                                                                         *)
(* An interface has two proxies (client/__init__.py: proxy, proxy_read).   *)
(* Each owns a CircuitBreaker, but both report to the SAME entry of        *)
(* CentralConnectionState, which is keyed by interface_id.  A request runs *)
(* in two atomic parts, before and after the await on the executor; other  *)
(* requests, of this proxy or of the other one, run in between.            *)
(***************************************************************************)
EXTENDS CircuitBreaker

CONSTANTS Proxy,    \* the proxies of the interface
          Request   \* the tasks that may have a request in flight

ASSUME ProxyAssumption == "none" \notin Proxy

VARIABLES cb,       \* proxy -> its breaker
          issue,    \* interface_id is in _rpc_proxy_issues
          call,     \* task -> the request it has in flight, or Idle
          result,   \* task -> how its last request ended
          backend   \* what the CCU does with a request: "up", "faulty" or "down"

breakerVars == <<cb, issue>>
vars == <<cb, issue, call, result, backend>>

Idle == [proxy |-> "none", bypass |-> FALSE]
Calls == [proxy : Proxy, bypass : BOOLEAN]
Results == {"none", "ok", "rejected", "no_connection", "client_error", "nothing",
            "cancelled"}

TypeOK ==
    /\ cb \in [Proxy -> Breaker]
    /\ issue \in BOOLEAN
    /\ call \in [Request -> Calls \cup {Idle}]
    /\ result \in [Request -> Results]
    /\ backend \in {"up", "faulty", "down"}

Init ==
    /\ cb = [p \in Proxy |-> Reset]
    /\ issue = FALSE
    /\ call = [r \in Request |-> Idle]
    /\ result = [r \in Request |-> "none"]
    /\ backend = "up"

\* The breaker of p becomes b; its transition, if any, updates the issue entry.
SetBreaker(p, b, entry) ==
    /\ cb' = [cb EXCEPT ![p] = b]
    /\ issue' = IssueAfter(cb[p], b, entry)

End(r, how) ==
    /\ call' = [call EXCEPT ![r] = Idle]
    /\ result' = [result EXCEPT ![r] = how]

-----------------------------------------------------------------------------
(* _async_request up to the await *)

\* is_available is False: record_rejection() is only a metric.
Reject(r, p) ==
    /\ call[r] = Idle
    /\ ~IsAvailable(cb[p])
    /\ result' = [result EXCEPT ![r] = "rejected"]
    /\ UNCHANGED <<cb, issue, call, backend>>

\* The breaker lets the request through (and may have become HALF_OPEN by being
\* asked), but the issue entry blocks it: NoConnectionException is raised and
\* caught again, and counts as a failure.
Refuse(r, p) ==
    /\ call[r] = Idle
    /\ IsAvailable(cb[p])
    /\ issue
    /\ SetBreaker(p, RecordFailure(Probed(cb[p])), issue)
    /\ result' = [result EXCEPT ![r] = "no_connection"]
    /\ UNCHANGED <<call, backend>>

\* Mutant: the issue entry is not looked at.
SendIgnoringIssue(r, p) ==
    /\ call[r] = Idle
    /\ IsAvailable(cb[p])
    /\ SetBreaker(p, Probed(cb[p]), issue)
    /\ call' = [call EXCEPT ![r] = [proxy |-> p, bypass |-> FALSE]]
    /\ UNCHANGED <<result, backend>>

Send(r, p) ==
    /\ call[r] = Idle
    /\ IsAvailable(cb[p])
    /\ ~issue
    /\ SetBreaker(p, Probed(cb[p]), issue)
    /\ call' = [call EXCEPT ![r] = [proxy |-> p, bypass |-> FALSE]]
    /\ UNCHANGED <<result, backend>>

\* _CIRCUIT_BREAKER_BYPASS_METHODS ask neither the breaker nor the issue entry.
SendBypass(r, p) ==
    /\ call[r] = Idle
    /\ call' = [call EXCEPT ![r] = [proxy |-> p, bypass |-> TRUE]]
    /\ UNCHANGED <<cb, issue, result, backend>>

-----------------------------------------------------------------------------
(* _async_request after the await *)

\* Mutant: a success does not remove the entry.
AnsweredKeepsIssue(r) ==
    /\ call[r] # Idle
    /\ backend = "up"
    /\ SetBreaker(call[r].proxy, RecordSuccess(cb[call[r].proxy]), issue)
    /\ End(r, "ok")
    /\ UNCHANGED backend

\* remove_issue() first, then record_success().
Answered(r) ==
    /\ call[r] # Idle
    /\ backend = "up"
    /\ SetBreaker(call[r].proxy, RecordSuccess(cb[call[r].proxy]), FALSE)
    /\ End(r, "ok")
    /\ UNCHANGED backend

\* SSLError and OSError: the listed error codes also add the issue.
\* ImproperConnectionState and the other codes only record the failure.
ConnectionError(r, listed) ==
    /\ call[r] # Idle
    /\ backend = "down"
    /\ SetBreaker(call[r].proxy, RecordFailure(cb[call[r].proxy]), issue \/ listed)
    /\ End(r, "no_connection")
    /\ UNCHANGED backend

\* Fault, TypeError, ExpatError and any other Exception: neither the breaker
\* nor the entry changes.
Fault(r) ==
    /\ call[r] # Idle
    /\ backend = "faulty"
    /\ End(r, "client_error")
    /\ UNCHANGED <<cb, issue, backend>>

\* ProtocolError raises only when no issue is known; with one, the except branch
\* ends without raise and the caller gets None.  Neither case records a failure.
ProtocolError(r) ==
    /\ call[r] # Idle
    /\ backend = "faulty"
    /\ End(r, IF issue THEN "nothing" ELSE "no_connection")
    /\ UNCHANGED <<cb, issue, backend>>

\* The awaiting task is cancelled; CancelledError meets no except branch.
Cancel(r) ==
    /\ call[r] # Idle
    /\ End(r, "cancelled")
    /\ UNCHANGED <<cb, issue, backend>>

-----------------------------------------------------------------------------
\* BaseBackend.reset_circuit_breakers, called after a reconnect and after a
\* firmware update of the CCU.
ResetBreakers ==
    /\ cb' = [p \in Proxy |-> Reset]
    /\ UNCHANGED <<issue, call, result, backend>>

Tick ==
    /\ \E p \in Proxy : Aged(cb[p]) # cb[p]
    /\ cb' = [p \in Proxy |-> Aged(cb[p])]
    /\ UNCHANGED <<issue, call, result, backend>>

BackendChanges ==
    /\ backend' \in {"up", "faulty", "down"}
    /\ UNCHANGED <<cb, issue, call, result>>

Ordinary(r, p) == Reject(r, p) \/ Refuse(r, p) \/ Send(r, p)

Respond(r) ==
    \/ Answered(r)
    \/ \E listed \in BOOLEAN : ConnectionError(r, listed)
    \/ Fault(r)
    \/ ProtocolError(r)

Next ==
    \/ \E r \in Request, p \in Proxy : Ordinary(r, p) \/ SendBypass(r, p)
    \/ \E r \in Request : Respond(r) \/ Cancel(r)
    \/ ResetBreakers
    \/ Tick
    \/ BackendChanges

Spec == Init /\ [][Next]_vars

\* What the runtime guarantees: the clock runs; the executor returns every
\* request (the transports have a timeout) and a task's requests are not all
\* cancelled (callers are cancelled at shutdown only); the scheduler keeps
\* pinging (_check_connection) and ordinary requests keep being made.
Liveness ==
    /\ WF_vars(Tick)
    /\ \A r \in Request, c \in Calls : SF_vars(call[r] = c /\ Respond(r))
    /\ \A p \in Proxy : SF_vars(\E r \in Request : Send(r, p))
    /\ SF_vars(\E r \in Request, p \in Proxy : SendBypass(r, p))

FairSpec == Spec /\ Liveness

-----------------------------------------------------------------------------
(* Properties *)

\* The facts about counters that the transitions of circuit_breaker.py rely on
\* across interleaved requests: a closed breaker is below its failure threshold;
\* an open one knows when its last failure was, so that is_available can ever
\* become True again; a half-open one is below its success threshold; and only a
\* half-open one counts successes.
BreakerShape == \A p \in Proxy : Consistent(cb[p])

\* Each proxy's breaker, with requests of both proxies interleaving and late
\* answers arriving after it tripped, keeps the promises of BreakerContract.
Contract(p) == INSTANCE BreakerContract WITH
    Caller <- Request, Cooldown <- RecoveryTimeout, Never <- NoFailure,
    phase <- cb[p].state, quiet <- cb[p].age,
    sending <- {r \in Request : call[r] = [proxy |-> p, bypass |-> FALSE]}
ImplementsContract ==
    /\ \A p \in Proxy : Contract(p)!ContractInit
    /\ [][\A p \in Proxy : [Contract(p)!ContractNext]_(Contract(p)!contractVars)]_vars

\* While the entry exists no ordinary request starts on either proxy, and the
\* entry disappears only when a request of the interface was answered.
IssueGuardsInterface ==
    [][/\ (issue /\ ~issue') => \E r \in Request : result'[r] = "ok" /\ call[r] # Idle
       /\ \A r \in Request :
            (issue /\ call[r] = Idle /\ call'[r] # Idle) => call'[r].bypass]_vars

\* Once the CCU answers for good, both breakers close and the entry goes away:
\* the pings clear the entry, after which trial requests are really sent.
Recovers == <>[](backend = "up") => <>[](~issue /\ \A p \in Proxy : cb[p].state = "closed")
=============================================================================
