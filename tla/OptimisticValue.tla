-------------------------- MODULE OptimisticValue --------------------------
(***************************************************************************)
(* OptimisticValueTracker (aiohomematic/model/optimistic.py): the state of *)
(* one data point's optimistic value, as a record and the operators that   *)
(* compute its successor.  The monotonic time of the last send is left out.*)
(***************************************************************************)
EXTENDS Naturals

CONSTANTS Value, None

ASSUME ValueAssumption == None \notin Value /\ Value # {}

\* timer: _timeout_handle is scheduled.
Tracker == [value: Value \cup {None}, previous: Value \cup {None},
            pending: Nat, timer: BOOLEAN]

NoOptimistic == [value |-> None, previous |-> None, pending |-> 0, timer |-> FALSE]

IsActive(o) == o.value # None

\* apply and schedule_rollback: only the first send of a burst captures the
\* value to go back to; every send restarts the timer.
Apply(o, v, current) ==
    [value |-> v, previous |-> IF o.pending = 0 THEN current ELSE o.previous,
     pending |-> o.pending + 1, timer |-> TRUE]

\* Mutant: the last pending send is never counted down.
ConfirmNotLast(o) == [o EXCEPT !.pending = IF @ <= 1 THEN @ ELSE @ - 1]

\* confirm_one counts down one send; it was the last if none is left.
ConfirmOne(o) == [o EXCEPT !.pending = IF @ = 0 THEN 0 ELSE @ - 1]

\* clear: the number of pending sends is left as it is.
Clear(o) == [NoOptimistic EXCEPT !.pending = o.pending]

\* What event() does to the tracker of its data point.
Confirm(o) ==
    LET one == ConfirmOne(o)
    IN IF ~IsActive(o) THEN o ELSE IF one.pending = 0 THEN Clear(one) ELSE one

\* rollback of an active tracker; the value it returns is o.previous.
Rollback(o) == NoOptimistic
=============================================================================
