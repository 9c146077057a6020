-------------------------- MODULE ClimateSchedule --------------------------
(***************************************************************************)
(* The two forms of one weekday of a thermostat's schedule and the         *)
(* conversions between them (aiohomematic/model/week_profile.py,           *)
(* model/schedule_models.py).                                              *)
(*                                                                         *)
(* The device keeps a fixed number of slots, each with the time it ends    *)
(* and a temperature.  The user sees a base temperature and periods that   *)
(* differ from it.  Times are ticks of the day: "hh:mm" and the minutes of *)
(* the paramset name each of them in exactly one way.                      *)
(***************************************************************************)
EXTENDS Integers, SequencesExt, FiniteSetsExt

CONSTANTS DayEnd,            \* _CLIMATE_MAX_SCHEDULER_TIME, 24:00
          Slots,             \* the slots of a weekday, 13
          MinTemp, MaxTemp,  \* the bounds of the device's setpoint
          Invalid            \* a conversion that raised

ASSUME ScheduleAssumption ==
    /\ DayEnd \in Nat \ {0} /\ Slots \in Nat \ {0}
    /\ MinTemp \in Int /\ MaxTemp \in Int /\ MinTemp =< MaxTemp

Time == 0..DayEnd
Slot(end, temp) == [endtime |-> end, temperature |-> temp]
Period(start, end, temp) == [starttime |-> start, endtime |-> end, temperature |-> temp]

InRange(temp) == MinTemp =< temp /\ temp =< MaxTemp

-----------------------------------------------------------------------------
(* What the two forms mean, the reference both conversions are held to.    *)

\* The device plays the first slot that has not ended; a time behind every
\* slot is in none of them.
PlayedAt(day, t) ==
    LET i == SelectInSeq(day, LAMBDA s : t < s.endtime)
    IN  IF i = 0 THEN Invalid ELSE day[i].temperature

\* base_temperature is "used when no period is active".
ShownAt(simple, t) ==
    LET active == {p \in simple.periods : p.starttime =< t /\ t < p.endtime}
    IN  IF active = {} THEN simple.base ELSE (CHOOSE p \in active : TRUE).temperature

-----------------------------------------------------------------------------
(* From periods to slots.                                                  *)

\* The validators of ClimateSchedulePeriod and ClimateWeekdaySchedule, and
\* the temperature bounds of the conversion.
PeriodOK(p) == p.starttime < p.endtime
Accepted(simple) ==
    /\ InRange(simple.base)
    /\ \A p \in simple.periods : PeriodOK(p) /\ InRange(p.temperature)
    /\ \A p, q \in simple.periods :
          p # q => (p.endtime =< q.starttime \/ q.endtime =< p.starttime)

\* Mutant: the time between two periods gets no slot of its own.
EndsWithoutGaps(periods) == {p.endtime : p \in periods}

\* Where the loop over the sorted periods ends a slot: at the end of each
\* period, and at the start of one that leaves a gap to what was before it.
Ends(periods) ==
    ({p.endtime : p \in periods} \cup {p.starttime : p \in periods}) \ {0}

\* The slots of periods that do not overlap; a gap has the base temperature.
UsedSlots(simple) ==
    LET ends == Ends(simple.periods)
        nth(i) == CHOOSE e \in ends : Cardinality({x \in ends : x < e}) = i - 1
    IN  [i \in 1..Cardinality(ends) |->
            LET closing == {p \in simple.periods : p.endtime = nth(i)}
            IN  Slot(nth(i), IF closing = {} THEN simple.base
                             ELSE (CHOOSE p \in closing : TRUE).temperature)]

\* A slot number the paramset does not have is refused by its name.
Fits(simple) == Len(UsedSlots(simple)) =< Slots

\* _fillup_weekday_data: the slots that are left end at 24:00.
ToSlots(simple) ==
    LET used == UsedSlots(simple)
    IN  [i \in 1..Slots |-> IF i =< Len(used) THEN used[i] ELSE Slot(DayEnd, simple.base)]

-----------------------------------------------------------------------------
(* From slots to periods.                                                  *)

\* Where the slot before i ended.
Start(day, i) == IF i = 1 THEN 0 ELSE day[i - 1].endtime

\* identify_base_temperature: the temperature with the most minutes over all
\* slots, the first one met of several.
Minutes(day, temp) ==
    MapThenSumSet(LAMBDA i : day[i].endtime - Start(day, i),
                  {i \in DOMAIN day : day[i].temperature = temp})
BaseTemperature(day) ==
    LET most == Max({Minutes(day, s.temperature) : s \in Range(day)})
    IN  day[SelectInSeq(day, LAMBDA s : Minutes(day, s.temperature) = most)].temperature

\* _filter_weekday_entries: the slots up to the first that ends at 24:00.
FilterEntries(day) ==
    LET last == SelectInSeq(day, LAMBDA s : s.endtime = DayEnd)
    IN  IF last = 0 THEN day ELSE SubSeq(day, 1, last)

\* _normalize_weekday_data: sorted by the end (equal ends keep their order),
\* filled up with the temperature of the last one.
Normalize(day) ==
    LET before(i) == {j \in DOMAIN day : \/ day[j].endtime < day[i].endtime
                                         \/ day[j].endtime = day[i].endtime /\ j < i}
        nth(n) == day[CHOOSE i \in DOMAIN day : Cardinality(before(i)) = n - 1]
    IN  [n \in 1..Slots |-> IF n =< Len(day) THEN nth(n) ELSE Slot(DayEnd, nth(Len(day)).temperature)]

\* Mutant: a slot without length becomes a period.
AnyPeriod(p) == TRUE

\* ClimateSchedulePeriod refuses a period that ends where it starts, with an
\* error that is not the library's.
Readable(p) == PeriodOK(p)

\* The loop over the normalized slots: the first and the last of neighbours
\* with one temperature other than the base.
Runs(day, base) ==
    {run \in (1..Len(day)) \X (1..Len(day)) :
        LET i == run[1] j == run[2] temp == day[i].temperature
        IN  /\ i =< j /\ temp # base
            /\ \A k \in i..j : day[k].temperature = temp
            /\ i > 1 => day[i - 1].temperature # temp
            /\ j < Len(day) => day[j + 1].temperature # temp}

\* _validate_and_convert_weekday_to_simple: a run opens with the period of its
\* first slot and is extended by the others.
ToSimple(day) ==
    LET base == BaseTemperature(day)
        slots == Normalize(FilterEntries(day))
        runs == Runs(slots, base)
        of(i, j) == Period(Start(slots, i), slots[j].endtime, slots[i].temperature)
    IN  IF InRange(base) /\ \A run \in runs : Readable(of(run[1], run[1]))
        THEN [base |-> base, periods |-> {of(run[1], run[2]) : run \in runs}]
        ELSE Invalid
=============================================================================
