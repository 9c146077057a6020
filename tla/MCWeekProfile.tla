--------------------------- MODULE MCWeekProfile ---------------------------
(* A day of four hours, three slots, two temperatures. *)
EXTENDS WeekProfile, TLC

CONSTANTS p1, p2
ProfileSymmetry == Permutations({p1, p2})

\* One period from the beginning or behind a gap, of any length, or in the last
\* hour; and two periods that touch.
AnyWeekday ==
    {[base |-> 1, periods |-> {Period(s, e, 2)}] : s \in {0, 1, 3}, e \in Time}
    \cup {[base |-> 2, periods |-> {Period(0, 1, 1), Period(1, 3, temp)}] : temp \in 1..2}

\* One period, one that needs every slot and stops before 24:00, and one with
\* more slots than there are.
Asked ==
    {[base |-> 1, periods |-> {Period(1, 2, 2)}],
     [base |-> 2, periods |-> {Period(i, i + 1, 1) : i \in 0..2}],
     [base |-> 1, periods |-> {Period(1, 2, 2), Period(3, 4, 2)}]}

\* Remains behind 24:00, and a slot without length.
Edited == {<<Slot(2, 2), Slot(4, 1), Slot(3, 2)>>,
           <<Slot(2, 1), Slot(2, 2), Slot(4, 1)>>}
=============================================================================
