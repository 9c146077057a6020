--------------------------- MODULE RpcProxyProofs ---------------------------
(***************************************************************************)
(* Proofs about RpcProxy for every number of proxies and requests and all  *)
(* thresholds and timeouts.                                                *)
(***************************************************************************)
EXTENDS RpcProxy, TLAPS

Good(b) == b \in Breaker /\ Consistent(b)

-----------------------------------------------------------------------------
(* What the methods of CircuitBreaker preserve. *)

\* A new or reset breaker is consistent.
LEMMA ResetGood == Good(Reset)
BY BreakerAssumption DEF Good, Reset, Breaker, Consistent, CircuitState

\* Reading is_available keeps a breaker consistent.
LEMMA ProbedGood ==
    ASSUME NEW b, Good(b)
    PROVE  Good(Probed(b))
BY BreakerAssumption
DEF Good, Probed, TransitionTo, TimeoutElapsed, Breaker, Consistent, CircuitState

\* A transition to another state zeroes the success count, keeps the age, and
\* zeroes the failure count exactly when the circuit closes.
LEMMA TransitionFields ==
    ASSUME NEW b \in Breaker, NEW new \in CircuitState, b.state # new
    PROVE  LET c == TransitionTo(b, new)
           IN  /\ c \in Breaker
               /\ c.state = new /\ c.successes = 0 /\ c.age = b.age
               /\ c.failures = IF new = "closed" THEN 0 ELSE b.failures
<1> DEFINE f == IF new = "closed" THEN 0 ELSE b.failures
           c == [state |-> new, failures |-> f, successes |-> 0, age |-> b.age]
<1>1. f \in 0 .. FailureThreshold
  BY BreakerAssumption DEF Breaker
<1>2. TransitionTo(b, new) = c
  BY DEF TransitionTo
<1> HIDE DEF f
<1>3. /\ c \in Breaker
      /\ c.state = new /\ c.failures = f /\ c.successes = 0 /\ c.age = b.age
  BY <1>1, BreakerAssumption DEF Breaker
<1> QED  BY <1>2, <1>3 DEF f

\* record_failure keeps a breaker consistent, restarts the cooldown, and leaves
\* the circuit open, or closed as it was.
LEMMA FailureGood ==
    ASSUME NEW b, Good(b)
    PROVE  LET n == RecordFailure(b)
           IN  /\ Good(n)
               /\ n.age = 0
               /\ n.state = "open" \/ (b.state = "closed" /\ n.state = "closed")
<1> DEFINE f == IF b.failures < FailureThreshold THEN b.failures + 1 ELSE b.failures
           c == [state |-> b.state, failures |-> f, successes |-> b.successes, age |-> 0]
           trips == \/ c.state = "closed" /\ c.failures >= FailureThreshold
                    \/ c.state = "half_open"
<1>0. f \in 0 .. FailureThreshold
  BY BreakerAssumption DEF Good, Breaker
<1>2. RecordFailure(b) = IF trips THEN TransitionTo(c, "open") ELSE c
  BY DEF RecordFailure
<1> HIDE DEF f
<1>1. /\ c \in Breaker
      /\ c.state = b.state /\ c.failures = f /\ c.successes = b.successes /\ c.age = 0
  BY <1>0, BreakerAssumption DEF Good, Breaker
<1>3. 0 # NoFailure
  BY BreakerAssumption
<1> HIDE DEF c
<1>4. CASE trips
  <2>1. c.state # "open" /\ "open" \in CircuitState
    BY <1>4 DEF CircuitState
  <2>2. /\ TransitionTo(c, "open") \in Breaker
        /\ TransitionTo(c, "open").state = "open"
        /\ TransitionTo(c, "open").successes = 0
        /\ TransitionTo(c, "open").age = 0
    BY <1>1, <2>1, TransitionFields
  <2> QED  BY <1>2, <1>3, <1>4, <2>2, BreakerAssumption DEF Good, Consistent
<1>5. CASE ~trips
  <2>1. c.state # "half_open" /\ (c.state = "closed" => c.failures < FailureThreshold)
    BY <1>1, <1>5, BreakerAssumption DEF Breaker
  <2>2. c.state \in CircuitState
    BY <1>1 DEF Breaker
  <2> QED  BY <1>1, <1>2, <1>3, <1>5, <2>1, <2>2 DEF Good, Consistent, CircuitState
<1> QED  BY <1>4, <1>5

\* record_success keeps a breaker consistent, leaves the cooldown alone, and can
\* only change the state from half_open to closed.
LEMMA SuccessGood ==
    ASSUME NEW b, Good(b)
    PROVE  LET n == RecordSuccess(b)
           IN  /\ Good(n)
               /\ n.age = b.age
               /\ n.state = b.state \/ (b.state = "half_open" /\ n.state = "closed")
<1> DEFINE c == [b EXCEPT !.successes = @ + 1]
<1>1. CASE b.state = "closed"
  <2>1. RecordSuccess(b) = [b EXCEPT !.failures = 0]
    BY <1>1 DEF RecordSuccess
  <2> QED  BY <1>1, <2>1, BreakerAssumption DEF Good, Breaker, Consistent
<1>2. CASE b.state = "open"
  BY <1>2 DEF RecordSuccess, Good
<1>3. CASE b.state = "half_open"
  <2>1. /\ c \in Breaker
        /\ c.state = "half_open" /\ c.age = b.age /\ c.failures = b.failures
        /\ c.successes = b.successes + 1
    BY <1>3, BreakerAssumption DEF Good, Breaker, Consistent
  <2>2. RecordSuccess(b) =
          IF c.successes >= SuccessThreshold THEN TransitionTo(c, "closed") ELSE c
    BY <1>3 DEF RecordSuccess
  <2> HIDE DEF c
  <2>3. CASE c.successes >= SuccessThreshold
    <3>1. /\ TransitionTo(c, "closed") \in Breaker
          /\ TransitionTo(c, "closed").state = "closed"
          /\ TransitionTo(c, "closed").failures = 0
          /\ TransitionTo(c, "closed").successes = 0
          /\ TransitionTo(c, "closed").age = b.age
      BY <2>1, TransitionFields DEF CircuitState
    <3> QED  BY <1>3, <2>2, <2>3, <3>1, BreakerAssumption DEF Good, Consistent
  <2>4. CASE ~(c.successes >= SuccessThreshold)
    <3>1. c.successes < SuccessThreshold
      BY <2>1, <2>4, BreakerAssumption DEF Breaker
    <3> QED  BY <1>3, <2>1, <2>2, <2>4, <3>1 DEF Good, Consistent
  <2> QED  BY <2>3, <2>4
<1>4. b.state \in CircuitState
  BY DEF Good, Breaker
<1> QED  BY <1>1, <1>2, <1>3, <1>4 DEF CircuitState

\* The passing of time keeps a breaker consistent and its state.
LEMMA AgedGood ==
    ASSUME NEW b, Good(b)
    PROVE  Good(Aged(b)) /\ Aged(b).state = b.state
BY BreakerAssumption DEF Good, Aged, Breaker, Consistent, CircuitState

-----------------------------------------------------------------------------
(* The inductive invariant: TypeOK and BreakerShape need each other, since a *)
(* success count one below its threshold is what keeps it in its range.      *)

Inv == TypeOK /\ BreakerShape

LEMMA InvGood == Inv => \A p \in Proxy : Good(cb[p])
BY DEF Inv, TypeOK, BreakerShape, Good

\* A step that gives one breaker a consistent new value keeps them all so.
LEMMA SetBreakerGood ==
    ASSUME Inv, NEW p \in Proxy, NEW b, Good(b), NEW entry \in BOOLEAN,
           SetBreaker(p, b, entry)
    PROVE  /\ cb' \in [Proxy -> Breaker]
           /\ \A q \in Proxy : Consistent(cb'[q])
           /\ issue' \in BOOLEAN
           /\ cb'[p] = b /\ \A q \in Proxy \ {p} : cb'[q] = cb[q]
<1>1. cb' = [cb EXCEPT ![p] = b]
  BY DEF SetBreaker
<1>2. cb \in [Proxy -> Breaker] /\ b \in Breaker
  BY DEF Inv, TypeOK, Good
<1>3. cb'[p] = b /\ \A q \in Proxy \ {p} : cb'[q] = cb[q]
  BY <1>1, <1>2
<1>4. \A q \in Proxy : Consistent(cb'[q])
  BY <1>3 DEF Inv, BreakerShape, Good
<1>5. issue' \in BOOLEAN
  BY DEF SetBreaker, IssueAfter
<1> QED  BY <1>1, <1>2, <1>3, <1>4, <1>5

LEMMA EndTyped ==
    ASSUME Inv, NEW r \in Request, NEW how \in Results, End(r, how)
    PROVE  call' \in [Request -> Calls \cup {Idle}] /\ result' \in [Request -> Results]
BY DEF Inv, TypeOK, End

LEMMA CallTyped ==
    ASSUME Inv, NEW r \in Request, call[r] # Idle
    PROVE  call[r].proxy \in Proxy
BY DEF Inv, TypeOK, Calls

LEMMA InvInit == Init => Inv
BY ResetGood DEF Init, Inv, TypeOK, BreakerShape, Good, Results

\* The type invariant and the consistency of every breaker are inductive.
LEMMA InvNext == Inv /\ [Next]_vars => Inv'
<1> SUFFICES ASSUME Inv, [Next]_vars PROVE Inv'
  OBVIOUS
<1>g. \A p \in Proxy : Good(cb[p])
  BY InvGood
<1>1. ASSUME NEW r \in Request, NEW p \in Proxy, Reject(r, p) PROVE Inv'
  BY <1>1 DEF Reject, Inv, TypeOK, BreakerShape, Results
<1>2. ASSUME NEW r \in Request, NEW p \in Proxy, Refuse(r, p) PROVE Inv'
  <2>1. Good(RecordFailure(Probed(cb[p])))
    BY <1>g, ProbedGood, FailureGood
  <2>2. issue \in BOOLEAN /\ SetBreaker(p, RecordFailure(Probed(cb[p])), issue)
    BY <1>2 DEF Refuse, Inv, TypeOK
  <2>3. /\ cb' \in [Proxy -> Breaker] /\ issue' \in BOOLEAN
        /\ \A q \in Proxy : Consistent(cb'[q])
    BY <2>1, <2>2, SetBreakerGood
  <2> QED  BY <1>2, <2>3 DEF Refuse, Inv, TypeOK, BreakerShape, Results
<1>3. ASSUME NEW r \in Request, NEW p \in Proxy, Send(r, p) PROVE Inv'
  <2>1. Good(Probed(cb[p]))
    BY <1>g, ProbedGood
  <2>2. issue \in BOOLEAN /\ SetBreaker(p, Probed(cb[p]), issue)
    BY <1>3 DEF Send, Inv, TypeOK
  <2>3. /\ cb' \in [Proxy -> Breaker] /\ issue' \in BOOLEAN
        /\ \A q \in Proxy : Consistent(cb'[q])
    BY <2>1, <2>2, SetBreakerGood
  <2>4. call' \in [Request -> Calls \cup {Idle}]
    BY <1>3 DEF Send, Inv, TypeOK, Calls
  <2> QED  BY <1>3, <2>3, <2>4 DEF Send, Inv, TypeOK, BreakerShape
<1>4. ASSUME NEW r \in Request, NEW p \in Proxy, SendBypass(r, p) PROVE Inv'
  <2>1. call' \in [Request -> Calls \cup {Idle}]
    BY <1>4 DEF SendBypass, Inv, TypeOK, Calls
  <2> QED  BY <1>4, <2>1 DEF SendBypass, Inv, TypeOK, BreakerShape
<1>5. ASSUME NEW r \in Request, Answered(r) PROVE Inv'
  <2>1. call[r].proxy \in Proxy
    BY <1>5, CallTyped DEF Answered
  <2>2. Good(RecordSuccess(cb[call[r].proxy]))
    BY <1>g, <2>1, SuccessGood
  <2>3. SetBreaker(call[r].proxy, RecordSuccess(cb[call[r].proxy]), FALSE)
    BY <1>5 DEF Answered
  <2>4. /\ cb' \in [Proxy -> Breaker] /\ issue' \in BOOLEAN
        /\ \A q \in Proxy : Consistent(cb'[q])
    BY <2>1, <2>2, <2>3, SetBreakerGood
  <2>5. End(r, "ok") /\ "ok" \in Results
    BY <1>5 DEF Answered, Results
  <2>6. call' \in [Request -> Calls \cup {Idle}] /\ result' \in [Request -> Results]
    BY <2>5, EndTyped
  <2> QED  BY <1>5, <2>4, <2>6 DEF Answered, Inv, TypeOK, BreakerShape
<1>6. ASSUME NEW r \in Request, NEW listed \in BOOLEAN, ConnectionError(r, listed)
      PROVE  Inv'
  <2>1. call[r].proxy \in Proxy
    BY <1>6, CallTyped DEF ConnectionError
  <2>2. Good(RecordFailure(cb[call[r].proxy]))
    BY <1>g, <2>1, FailureGood
  <2>3. /\ (issue \/ listed) \in BOOLEAN
        /\ SetBreaker(call[r].proxy, RecordFailure(cb[call[r].proxy]), issue \/ listed)
    BY <1>6 DEF ConnectionError
  <2>4. /\ cb' \in [Proxy -> Breaker] /\ issue' \in BOOLEAN
        /\ \A q \in Proxy : Consistent(cb'[q])
    BY <2>1, <2>2, <2>3, SetBreakerGood
  <2>5. End(r, "no_connection") /\ "no_connection" \in Results
    BY <1>6 DEF ConnectionError, Results
  <2>6. call' \in [Request -> Calls \cup {Idle}] /\ result' \in [Request -> Results]
    BY <2>5, EndTyped
  <2> QED  BY <1>6, <2>4, <2>6 DEF ConnectionError, Inv, TypeOK, BreakerShape
<1>7. ASSUME NEW r \in Request, Fault(r) \/ ProtocolError(r) \/ Cancel(r) PROVE Inv'
  <2>1. PICK how \in Results : End(r, how)
    BY <1>7 DEF Fault, ProtocolError, Cancel, Results
  <2>2. call' \in [Request -> Calls \cup {Idle}] /\ result' \in [Request -> Results]
    BY <2>1, EndTyped
  <2> QED  BY <1>7, <2>2 DEF Fault, ProtocolError, Cancel, Inv, TypeOK, BreakerShape
<1>8. ASSUME ResetBreakers PROVE Inv'
  BY <1>8, ResetGood DEF ResetBreakers, Inv, TypeOK, BreakerShape, Good
<1>9. ASSUME Tick PROVE Inv'
  <2>1. \A p \in Proxy : Good(Aged(cb[p]))
    BY <1>g, AgedGood
  <2> QED  BY <1>9, <2>1 DEF Tick, Inv, TypeOK, BreakerShape, Good
<1>10. ASSUME BackendChanges PROVE Inv'
  BY <1>10 DEF BackendChanges, Inv, TypeOK, BreakerShape
<1>11. ASSUME UNCHANGED vars PROVE Inv'
  BY <1>11 DEF vars, Inv, TypeOK, BreakerShape
<1> QED
  BY <1>1, <1>2, <1>3, <1>4, <1>5, <1>6, <1>7, <1>8, <1>9, <1>10, <1>11
  DEF Next, Ordinary, Respond

\* Whatever requests of either proxy interleave, each breaker's counters agree
\* with its state (circuit_breaker.py relies on it without checking it).
THEOREM BreakerShapeHolds == Spec => [](TypeOK /\ BreakerShape)
<1>1. Inv => TypeOK /\ BreakerShape
  BY DEF Inv
<1> QED  BY InvInit, InvNext, <1>1, PTL DEF Spec

-----------------------------------------------------------------------------
(* Refinement: every breaker implements BreakerContract. *)

Sending(p) == {r \in Request : call[r] = [proxy |-> p, bypass |-> FALSE]}

\* Ending a request takes it out of the requests in flight; one of another proxy
\* was not among them.
LEMMA EndSending ==
    ASSUME Inv, NEW q \in Proxy, NEW r \in Request, NEW how, End(r, how)
    PROVE  /\ Sending(q)' \subseteq Sending(q)
           /\ call[r].proxy # q => Sending(q)' = Sending(q)
<1>1. Idle # [proxy |-> q, bypass |-> FALSE]
  BY ProxyAssumption DEF Idle
<1>2. call' = [call EXCEPT ![r] = Idle] /\ call \in [Request -> Calls \cup {Idle}]
  BY DEF End, Inv, TypeOK
<1>3. /\ call'[r] # [proxy |-> q, bypass |-> FALSE]
      /\ \A s \in Request \ {r} : call'[s] = call[s]
  BY <1>1, <1>2
<1>4. Sending(q)' \subseteq Sending(q)
  BY <1>3 DEF Sending
<1>5. ASSUME call[r].proxy # q PROVE Sending(q)' = Sending(q)
  <2>1. call[r] # [proxy |-> q, bypass |-> FALSE]
    BY <1>5
  <2> QED  BY <1>3, <2>1 DEF Sending
<1> QED  BY <1>4, <1>5

\* A request of another proxy, or a bypass request, adds nothing to the requests
\* in flight; an ordinary request of q adds itself.
LEMMA StartSending ==
    ASSUME Inv, NEW q \in Proxy, NEW r \in Request, NEW p \in Proxy,
           NEW bypass \in BOOLEAN, call[r] = Idle,
           call' = [call EXCEPT ![r] = [proxy |-> p, bypass |-> bypass]]
    PROVE  /\ r \notin Sending(q)
           /\ p = q /\ ~bypass => Sending(q)' = Sending(q) \cup {r}
           /\ p # q \/ bypass => Sending(q)' = Sending(q)
<1>1. Idle # [proxy |-> q, bypass |-> FALSE]
  BY ProxyAssumption DEF Idle
<1>2. call \in [Request -> Calls \cup {Idle}]
  BY DEF Inv, TypeOK
<1>3. /\ call'[r] = [proxy |-> p, bypass |-> bypass]
      /\ \A s \in Request \ {r} : call'[s] = call[s]
  BY <1>2
<1>4. r \notin Sending(q)
  BY <1>1 DEF Sending
<1>5. ASSUME p = q, ~bypass PROVE Sending(q)' = Sending(q) \cup {r}
  <2>1. call'[r] = [proxy |-> q, bypass |-> FALSE]
    BY <1>3, <1>5
  <2> QED  BY <1>3, <2>1 DEF Sending
<1>6. ASSUME p # q \/ bypass PROVE Sending(q)' = Sending(q)
  <2>1. call'[r] # [proxy |-> q, bypass |-> FALSE]
    BY <1>3, <1>6
  <2> QED  BY <1>3, <1>4, <2>1 DEF Sending
<1> QED  BY <1>4, <1>5, <1>6

LEMMA ProbedFields ==
    ASSUME NEW b, Good(b)
    PROVE  /\ Probed(b).age = b.age
           /\ Probed(b).state = IF b.state = "open" /\ b.age = RecoveryTimeout
                                THEN "half_open" ELSE b.state
           /\ IsAvailable(b) => Probed(b).state # "open"
BY BreakerAssumption
DEF Good, Probed, TransitionTo, TimeoutElapsed, IsAvailable, Breaker, Consistent, CircuitState

LEMMA ContractInitial == Init => \A p \in Proxy : Contract(p)!ContractInit
BY ProxyAssumption DEF Init, Contract!ContractInit, Reset, Idle

\* Every step of the proxies is a step of each breaker's contract, or leaves what
\* that contract talks about unchanged.
LEMMA ContractStep ==
    ASSUME Inv, [Next]_vars, NEW q \in Proxy
    PROVE  [Contract(q)!ContractNext]_(Contract(q)!contractVars)
<1> DEFINE Goal == [Contract(q)!ContractNext]_(Contract(q)!contractVars)
           Same == /\ cb'[q].state = cb[q].state /\ cb'[q].age = cb[q].age
                   /\ Sending(q)' = Sending(q)
           Failed == /\ cb'[q].age = 0
                     /\ cb'[q].state = "open" \/ (cb[q].state = "closed" /\ cb'[q].state = "closed")
                     /\ Sending(q)' \subseteq Sending(q)
           Succeeded == /\ cb'[q].age = cb[q].age
                        /\ \/ cb'[q].state = cb[q].state
                           \/ cb[q].state = "half_open" /\ cb'[q].state = "closed"
                        /\ Sending(q)' \subseteq Sending(q)
<1>g. \A p \in Proxy : Good(cb[p])
  BY InvGood
<1>s. Same => Goal
  BY DEF Sending, Contract!contractVars
<1>f. Failed => Goal
  BY DEF Sending, Contract!ContractNext, Contract!Fail
<1>o. Succeeded => Goal
  BY DEF Sending, Contract!ContractNext, Contract!Succeed
<1> HIDE DEF Goal
<1>1. ASSUME NEW r \in Request, NEW p \in Proxy, Reject(r, p) PROVE Goal
  BY <1>1, <1>s DEF Reject, Sending
<1>2. ASSUME NEW r \in Request, NEW p \in Proxy, Refuse(r, p) PROVE Goal
  <2>1. Good(Probed(cb[p]))
    BY <1>g, ProbedGood
  <2>2. issue \in BOOLEAN /\ SetBreaker(p, RecordFailure(Probed(cb[p])), issue)
    BY <1>2 DEF Refuse, Inv, TypeOK
  <2>3. Good(RecordFailure(Probed(cb[p])))
    BY <2>1, FailureGood
  <2>4. cb'[p] = RecordFailure(Probed(cb[p])) /\ \A x \in Proxy \ {p} : cb'[x] = cb[x]
    BY <2>2, <2>3, SetBreakerGood
  <2>5. Sending(q)' = Sending(q)
    BY <1>2 DEF Refuse, Sending
  <2>6. CASE p = q
    <3>1. cb'[q].age = 0
      BY <2>1, <2>4, <2>6, FailureGood
    <3>2. \/ cb'[q].state = "open"
          \/ Probed(cb[q]).state = "closed" /\ cb'[q].state = "closed"
      BY <2>1, <2>4, <2>6, FailureGood
    <3>3. Probed(cb[q]).state = "closed" => cb[q].state = "closed"
      BY <1>g, ProbedFields
    <3> QED  BY <1>f, <2>5, <3>1, <3>2, <3>3
  <2>7. CASE p # q
    BY <1>s, <2>4, <2>5, <2>7
  <2> QED  BY <2>6, <2>7
<1>3. ASSUME NEW r \in Request, NEW p \in Proxy, Send(r, p) PROVE Goal
  <2>1. issue \in BOOLEAN /\ SetBreaker(p, Probed(cb[p]), issue) /\ Good(Probed(cb[p]))
    BY <1>3, <1>g, ProbedGood DEF Send, Inv, TypeOK
  <2>2. cb'[p] = Probed(cb[p]) /\ \A x \in Proxy \ {p} : cb'[x] = cb[x]
    BY <2>1, SetBreakerGood
  <2>3. call[r] = Idle /\ call' = [call EXCEPT ![r] = [proxy |-> p, bypass |-> FALSE]]
    BY <1>3 DEF Send
  <2>4. CASE p = q
    <3>1. r \notin Sending(q) /\ Sending(q)' = Sending(q) \cup {r}
      BY <2>3, <2>4, StartSending
    <3>2. /\ cb'[q].age = cb[q].age
          /\ cb'[q].state = IF cb[q].state = "open" /\ cb[q].age = RecoveryTimeout
                              THEN "half_open" ELSE cb[q].state
          /\ cb'[q].state # "open"
      BY <1>3, <1>g, <2>2, <2>4, ProbedFields DEF Send
    <3>3. Contract(q)!Start(r)
      BY <3>1, <3>2 DEF Sending, Contract!Start, Contract!Probe
    <3> QED  BY <3>3 DEF Goal, Contract!ContractNext
  <2>5. CASE p # q
    <3>1. Sending(q)' = Sending(q)
      BY <2>3, <2>5, StartSending
    <3> QED  BY <1>s, <2>2, <2>5, <3>1
  <2> QED  BY <2>4, <2>5
<1>4. ASSUME NEW r \in Request, NEW p \in Proxy, SendBypass(r, p) PROVE Goal
  <2>1. Sending(q)' = Sending(q)
    BY <1>4, StartSending DEF SendBypass
  <2> QED  BY <1>4, <1>s, <2>1 DEF SendBypass
<1>5. ASSUME NEW r \in Request, Answered(r) PROVE Goal
  <2> DEFINE p == call[r].proxy
  <2>1. p \in Proxy
    BY <1>5, CallTyped DEF Answered
  <2>2. Good(RecordSuccess(cb[p])) /\ SetBreaker(p, RecordSuccess(cb[p]), FALSE)
    BY <1>5, <1>g, <2>1, SuccessGood DEF Answered
  <2> HIDE DEF p
  <2>3. cb'[p] = RecordSuccess(cb[p]) /\ \A x \in Proxy \ {p} : cb'[x] = cb[x]
    BY <2>1, <2>2, SetBreakerGood
  <2>4. Sending(q)' \subseteq Sending(q) /\ (p # q => Sending(q)' = Sending(q))
    BY <1>5, EndSending DEF Answered, p
  <2>5. CASE p = q
    <3>1. /\ cb'[q].age = cb[q].age
          /\ \/ cb'[q].state = cb[q].state
             \/ cb[q].state = "half_open" /\ cb'[q].state = "closed"
      BY <1>g, <2>3, <2>5, SuccessGood
    <3> QED  BY <1>o, <2>4, <3>1
  <2>6. CASE p # q
    BY <1>s, <2>3, <2>4, <2>6
  <2> QED  BY <2>5, <2>6
<1>6. ASSUME NEW r \in Request, NEW listed \in BOOLEAN, ConnectionError(r, listed)
      PROVE  Goal
  <2> DEFINE p == call[r].proxy
  <2>1. p \in Proxy
    BY <1>6, CallTyped DEF ConnectionError
  <2>2. /\ (issue \/ listed) \in BOOLEAN
        /\ Good(RecordFailure(cb[p])) /\ SetBreaker(p, RecordFailure(cb[p]), issue \/ listed)
    BY <1>6, <1>g, <2>1, FailureGood DEF ConnectionError
  <2> HIDE DEF p
  <2>3. cb'[p] = RecordFailure(cb[p]) /\ \A x \in Proxy \ {p} : cb'[x] = cb[x]
    BY <2>1, <2>2, SetBreakerGood
  <2>4. Sending(q)' \subseteq Sending(q) /\ (p # q => Sending(q)' = Sending(q))
    BY <1>6, EndSending DEF ConnectionError, p
  <2>5. CASE p = q
    <3>1. /\ cb'[q].age = 0
          /\ cb'[q].state = "open" \/ (cb[q].state = "closed" /\ cb'[q].state = "closed")
      BY <1>g, <2>3, <2>5, FailureGood
    <3> QED  BY <1>f, <2>4, <3>1
  <2>6. CASE p # q
    BY <1>s, <2>3, <2>4, <2>6
  <2> QED  BY <2>5, <2>6
<1>7. ASSUME NEW r \in Request, Fault(r) \/ ProtocolError(r) \/ Cancel(r) PROVE Goal
  <2>1. PICK how \in Results : End(r, how)
    BY <1>7 DEF Fault, ProtocolError, Cancel, Results
  <2>2. Sending(q)' \subseteq Sending(q)
    BY <2>1, EndSending
  <2>3. cb' = cb
    BY <1>7 DEF Fault, ProtocolError, Cancel
  <2> QED  BY <1>o, <2>2, <2>3
<1>8. ASSUME ResetBreakers PROVE Goal
  <2>1. Contract(q)!ForceClosed
    BY <1>8 DEF ResetBreakers, Contract!ForceClosed, Reset
  <2> QED  BY <2>1 DEF Goal, Contract!ContractNext
<1>9. ASSUME Tick PROVE Goal
  <2>1. cb'[q] = Aged(cb[q]) /\ Sending(q)' = Sending(q) /\ cb'[q].state = cb[q].state
    BY <1>9, <1>g, AgedGood DEF Tick, Sending
  <2>2. CASE cb[q].age # NoFailure /\ cb[q].age < RecoveryTimeout
    <3>1. cb'[q].age = cb[q].age + 1
      BY <1>g, <2>1, <2>2 DEF Aged, Good, Breaker
    <3>2. Contract(q)!Elapse
      BY <2>1, <2>2, <3>1 DEF Sending, Contract!Elapse
    <3> QED  BY <3>2 DEF Goal, Contract!ContractNext
  <2>3. CASE ~(cb[q].age # NoFailure /\ cb[q].age < RecoveryTimeout)
    <3>1. cb'[q].age = cb[q].age
      BY <1>g, <2>1, <2>3 DEF Aged, Good, Breaker
    <3> QED  BY <1>s, <2>1, <3>1
  <2> QED  BY <2>2, <2>3
<1>10. ASSUME BackendChanges PROVE Goal
  BY <1>10, <1>s DEF BackendChanges, Sending
<1>11. ASSUME UNCHANGED vars PROVE Goal
  BY <1>11, <1>s DEF vars, Sending
<1>12. Goal
  BY <1>1, <1>2, <1>3, <1>4, <1>5, <1>6, <1>7, <1>8, <1>9, <1>10, <1>11
  DEF Next, Ordinary, Respond
<1> QED  BY <1>12 DEF Goal

\* For any number of proxies and in-flight requests, each breaker keeps traffic
\* out while open and stays open for the cooldown after its last failure.
THEOREM BreakerRefinement == Spec => ImplementsContract
<1>1. Init => \A p \in Proxy : Contract(p)!ContractInit
  BY ContractInitial
<1>2. Inv /\ [Next]_vars
        => [\A p \in Proxy : [Contract(p)!ContractNext]_(Contract(p)!contractVars)]_vars
  BY ContractStep
<1> QED  BY InvInit, InvNext, <1>1, <1>2, PTL DEF Spec, ImplementsContract

-----------------------------------------------------------------------------
(* The issue entry. *)

\* A failure never clears the entry: no breaker closes by one.
LEMMA FailureKeepsIssue ==
    ASSUME NEW b, NEW n, NEW entry, entry = TRUE, issue' = IssueAfter(b, n, entry),
           n.state = "open" \/ (b.state = "closed" /\ n.state = "closed")
    PROVE  issue'
BY DEF IssueAfter

\* For any number of proxies and in-flight requests: while the entry exists no ordinary
\* request starts on either proxy, and only an answered request makes the entry disappear
\* (rpc_proxy.py:441-447, circuit_breaker.py _transition_to).
THEOREM IssueGuards == Spec => IssueGuardsInterface
<1> DEFINE A == /\ (issue /\ ~issue') => \E r \in Request : result'[r] = "ok" /\ call[r] # Idle
                /\ \A r \in Request :
                      (issue /\ call[r] = Idle /\ call'[r] # Idle) => call'[r].bypass
<1>1. Inv /\ [Next]_vars => [A]_vars
  <2> SUFFICES ASSUME Inv, Next, issue
               PROVE  /\ ~issue' => \E r \in Request : result'[r] = "ok" /\ call[r] # Idle
                      /\ \A r \in Request : (call[r] = Idle /\ call'[r] # Idle) => call'[r].bypass
    OBVIOUS
  <2> DEFINE Quiet == issue' /\ \A x \in Request : call'[x] = call[x] \/ call'[x] = Idle
  <2>g. \A p \in Proxy : Good(cb[p])
    BY InvGood
  <2>t. call \in [Request -> Calls \cup {Idle}] /\ result \in [Request -> Results] /\ issue = TRUE
    BY DEF Inv, TypeOK
  <2>1. ASSUME NEW r \in Request, NEW p \in Proxy, Reject(r, p) PROVE Quiet
    BY <2>1 DEF Reject
  <2>2. ASSUME NEW r \in Request, NEW p \in Proxy, Refuse(r, p) PROVE Quiet
    <3> DEFINE b == cb[p]
               n == RecordFailure(Probed(b))
    <3>1. issue' = IssueAfter(b, n, issue) /\ call' = call
      BY <2>2 DEF Refuse, SetBreaker
    <3>2. /\ n.state = "open" \/ (Probed(b).state = "closed" /\ n.state = "closed")
          /\ Probed(b).state = "closed" => b.state = "closed"
      BY <2>g, ProbedGood, FailureGood, ProbedFields
    <3> HIDE DEF n
    <3> QED  BY <2>t, <3>1, <3>2, FailureKeepsIssue
  <2>3. ASSUME NEW r \in Request, NEW p \in Proxy, Send(r, p) PROVE FALSE
    BY <2>3 DEF Send
  <2>4. ASSUME NEW r \in Request, NEW p \in Proxy, SendBypass(r, p)
        PROVE  issue' /\ \A x \in Request : call'[x] = call[x] \/ call'[x].bypass
    <3>1. issue' = issue /\ call' = [call EXCEPT ![r] = [proxy |-> p, bypass |-> TRUE]]
      BY <2>4 DEF SendBypass
    <3> QED  BY <2>t, <3>1
  <2>5. ASSUME NEW r \in Request, Answered(r)
        PROVE  /\ result'[r] = "ok" /\ call[r] # Idle
               /\ \A x \in Request : call'[x] = call[x] \/ call'[x] = Idle
    BY <2>5, <2>t DEF Answered, End
  <2>6. ASSUME NEW r \in Request, NEW listed \in BOOLEAN, ConnectionError(r, listed) PROVE Quiet
    <3> DEFINE p == call[r].proxy
               b == cb[p]
               n == RecordFailure(b)
               entry == issue \/ listed
    <3>1. issue' = IssueAfter(b, n, entry) /\ call' = [call EXCEPT ![r] = Idle]
      BY <2>6 DEF ConnectionError, SetBreaker, End
    <3>2. p \in Proxy
      BY <2>6, CallTyped DEF ConnectionError
    <3>3. n.state = "open" \/ (b.state = "closed" /\ n.state = "closed")
      BY <2>g, <3>2, FailureGood
    <3>4. entry = TRUE
      OBVIOUS
    <3> HIDE DEF n, entry, b
    <3>5. issue'
      BY <3>1, <3>3, <3>4, FailureKeepsIssue
    <3> QED  BY <2>t, <3>1, <3>5
  <2>7. ASSUME NEW r \in Request, Fault(r) \/ ProtocolError(r) \/ Cancel(r) PROVE Quiet
    BY <2>7, <2>t DEF Fault, ProtocolError, Cancel, End
  <2>8. ASSUME ResetBreakers \/ Tick \/ BackendChanges PROVE Quiet
    BY <2>8 DEF ResetBreakers, Tick, BackendChanges
  <2>9. Quiet => /\ ~issue' => \E r \in Request : result'[r] = "ok" /\ call[r] # Idle
                 /\ \A r \in Request : (call[r] = Idle /\ call'[r] # Idle) => call'[r].bypass
    OBVIOUS
  <2> HIDE DEF Quiet
  <2> QED  BY <2>1, <2>2, <2>3, <2>4, <2>5, <2>6, <2>7, <2>8, <2>9 DEF Next, Ordinary, Respond
<1>2. IssueGuardsInterface <=> [][A]_vars
  BY DEF IssueGuardsInterface
<1> HIDE DEF A
<1> QED  BY <1>1, <1>2, InvInit, InvNext, PTL DEF Spec
=============================================================================
