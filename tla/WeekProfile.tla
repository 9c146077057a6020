---------------------------- MODULE WeekProfile ----------------------------
(***************************************************************************)
(* ClimateWeekProfile (aiohomematic/model/week_profile.py): the schedule   *)
(* of one thermostat on the CCU and the copy of it that is shown.          *)
(*                                                                         *)
(* A set_* call converts and sends; the cache is left alone until the CCU  *)
(* reports CONFIG_PENDING and then its end, upon which the device reloads  *)
(* its channels and then the whole schedule.  Calls, reports and reads are *)
(* all in flight at once.                                                  *)
(***************************************************************************)
EXTENDS ClimateSchedule

CONSTANTS Profile, Weekday,
          Before,      \* weekdays earlier sessions may have written
          Inputs,      \* weekdays a user may ask for
          Edits,       \* weekdays of slots other programs write to the CCU
          Empty,       \* a cache that was never loaded, no weekday asked for
          MaxWrites,   \* writes of one behaviour
          MaxReads,    \* reads that wait at once
          MaxFaults    \* calls of the CCU that fail

\* The keys of the paramset, without the number of the slot and its field.
Day == Profile \X Weekday

VARIABLES
    device,    \* day -> its slots on the CCU
    pending,   \* the CCU has configuration to transfer to the device
    reports,   \* CONFIG_PENDING events on their way, oldest first
    known,     \* value of the CONFIG_PENDING data point
    changes,   \* runs of Device.on_config_changed that are still with the channels
    puts,      \* put_paramset calls on their way, oldest first
    reads,     \* get_paramset calls, oldest first
    cache,     \* _schedule_cache
    asked,     \* history: day -> the weekday that the last write meant
    loaded,    \* history: the last read was stored
    missed,    \* history: a change ended without a read, and none was served since
    writes, faults

ccuVars == <<device, pending, asked>>
bounds == <<writes, faults>>
libVars == <<known, changes>>
seenVars == <<cache, loaded>>
vars == <<ccuVars, reports, libVars, puts, reads, seenVars, missed, bounds>>

Init ==
    /\ \/ \E slots \in Edits :
             /\ device = [d \in Day |-> slots]
             /\ asked = [d \in Day |-> Empty]
       \/ \E simple \in Before :
             /\ Accepted(simple) /\ Fits(simple)
             /\ device = [d \in Day |-> ToSlots(simple)]
             /\ asked = [d \in Day |-> simple]
    /\ pending = FALSE /\ reports = <<>> /\ known = FALSE /\ changes = 0
    /\ puts = <<>> /\ reads = <<>>
    /\ cache = Empty
    /\ loaded = FALSE /\ missed = FALSE
    /\ writes = 0 /\ faults = 0

-----------------------------------------------------------------------------
(* Calls of the user.                                                      *)

\* put_paramset with the slots of the weekdays in simple.
Put(simple) == puts' = Append(puts, [d \in DOMAIN simple |->
                                        [slots |-> ToSlots(simple[d]), simple |-> simple[d]]])

\* The conversions raise ValidationException before anything is sent.
Sendable(simple) == \A d \in DOMAIN simple : Accepted(simple[d]) /\ Fits(simple[d])

\* set_weekday, set_profile and set_schedule, which differ in the weekdays
\* they write.
Set(days, simple) ==
    /\ writes < MaxWrites
    /\ writes' = writes + 1
    /\ LET asks == [d \in days |-> simple]
       IN  Sendable(asks) /\ Put(asks)
    /\ UNCHANGED <<ccuVars, reports, libVars, reads, seenVars, missed, faults>>

\* The rest of copy_profile_to once get_profile has returned from shown: a
\* profile that was never loaded is an empty one and nothing is written.
Copied(shown, source, target) ==
    LET asks == [d \in {target} \X Weekday |-> shown[<<source, d[2]>>]]
    IN  IF shown # Empty /\ Sendable(asks) THEN Put(asks) ELSE UNCHANGED puts

\* get_* with force_load, reload_schedule, reload_device_config, and the load
\* at startup: the whole schedule is read.
Read(then) ==
    /\ Len(reads) < MaxReads
    /\ reads' = Append(reads, [data |-> Empty, then |-> then])

Reload ==
    /\ Read(<<>>)
    /\ UNCHANGED <<ccuVars, reports, libVars, puts, seenVars, missed, bounds>>

\* copy_profile_to on the same device: get_profile reads first when the cache
\* is empty.
CopyProfile(source, target) ==
    /\ source # target
    /\ writes < MaxWrites
    /\ writes' = writes + 1
    /\ \/ /\ cache = Empty
          /\ Read(<<source, target>>)
          /\ UNCHANGED puts
       \/ /\ cache # Empty
          /\ Copied(cache, source, target)
          /\ UNCHANGED reads
    /\ UNCHANGED <<ccuVars, reports, libVars, seenVars, missed, faults>>

-----------------------------------------------------------------------------
(* The CCU.                                                                *)

\* A write makes configuration pending, which is reported once.
Pend ==
    /\ pending' = TRUE
    /\ reports' = IF pending THEN reports ELSE Append(reports, TRUE)

\* The CCU takes a put_paramset; the throttle and the proxy, which has one
\* worker, keep their order.
Stored ==
    /\ puts # <<>>
    /\ LET put == Head(puts)
       IN  /\ device' = [d \in Day |-> IF d \in DOMAIN put THEN put[d].slots ELSE device[d]]
           /\ asked' = [d \in Day |-> IF d \in DOMAIN put THEN put[d].simple ELSE asked[d]]
    /\ puts' = Tail(puts)
    /\ Pend
    /\ UNCHANGED <<libVars, reads, seenVars, missed, bounds>>

\* A put_paramset fails: the client logs it and returns an empty set.
NotStored ==
    /\ puts # <<>>
    /\ faults < MaxFaults
    /\ faults' = faults + 1
    /\ puts' = Tail(puts)
    /\ UNCHANGED <<ccuVars, reports, libVars, reads, seenVars, missed, writes>>

\* Another program writes slots, copy_schedule_to from another thermostat
\* among them, which passes raw slots on as they are.
Edit(d, slots) ==
    /\ writes < MaxWrites
    /\ writes' = writes + 1
    /\ device' = [device EXCEPT ![d] = slots]
    /\ asked' = [asked EXCEPT ![d] = Empty]
    /\ Pend
    /\ UNCHANGED <<libVars, puts, reads, seenVars, missed, faults>>

Transferred ==
    /\ pending
    /\ pending' = FALSE
    /\ reports' = Append(reports, FALSE)
    /\ UNCHANGED <<device, asked, libVars, puts, reads, seenVars, missed, bounds>>

\* The proxy for reads has one worker: the oldest request is served.
Serve ==
    /\ \E i \in DOMAIN reads :
          /\ reads[i].data = Empty
          /\ \A j \in 1..(i - 1) : reads[j].data # Empty
          /\ reads' = [reads EXCEPT ![i].data = device]
    /\ missed' = FALSE
    /\ UNCHANGED <<ccuVars, reports, libVars, puts, seenVars, bounds>>

-----------------------------------------------------------------------------
(* What the library does with reports and answers.                         *)

\* Mutant: the beginning of a transfer reloads the schedule, not its end.
ReportedAtBeginning ==
    /\ reports # <<>>
    /\ known' = Head(reports)
    /\ reports' = Tail(reports)
    /\ changes' = IF ~known /\ Head(reports) THEN changes + 1 ELSE changes
    /\ UNCHANGED <<ccuVars, puts, reads, seenVars, missed, bounds>>

\* GenericDataPoint.event of CONFIG_PENDING: Device.on_config_changed when it
\* goes from True to False.
Reported ==
    /\ reports # <<>>
    /\ known' = Head(reports)
    /\ reports' = Tail(reports)
    /\ changes' = IF known /\ ~Head(reports) THEN changes + 1 ELSE changes
    /\ UNCHANGED <<ccuVars, puts, reads, seenVars, missed, bounds>>

\* on_config_changed has awaited every channel: the schedule is read.
ConfigChanged ==
    /\ changes > 0
    /\ changes' = changes - 1
    /\ Read(<<>>)
    /\ UNCHANGED <<ccuVars, reports, known, puts, seenVars, missed, bounds>>

\* A channel asks for its link peers and gets a NoConnectionException or a
\* CircuitBreakerOpenException, which init_link_peer does not catch: it ends
\* on_config_changed, and nobody reads the schedule.
ConfigFails ==
    /\ changes > 0 /\ faults < MaxFaults
    /\ changes' = changes - 1
    /\ faults' = faults + 1
    /\ missed' = TRUE
    /\ UNCHANGED <<ccuVars, reports, known, puts, reads, seenVars, writes>>

\* The whole schedule in the form that is shown.
Shown(data) == [d \in Day |-> ToSimple(data[d])]

\* reload_and_cache_schedule after the await: one weekday that cannot be
\* converted keeps the whole old cache, and its error ends a copy (what the CCU
\* stores is within the bounds, so the error is not a ValidationException).
Loaded ==
    /\ reads # <<>> /\ Head(reads).data # Empty
    /\ LET data == Head(reads).data
           shown == Shown(data)
           then == Head(reads).then
           ok == \A d \in Day : shown[d] # Invalid
       IN  /\ loaded' = ok
           /\ cache' = IF ok THEN shown ELSE cache
           /\ IF then = <<>> \/ ~ok THEN UNCHANGED puts ELSE Copied(shown, then[1], then[2])
    /\ reads' = Tail(reads)
    /\ UNCHANGED <<ccuVars, reports, libVars, missed, bounds>>

\* The read fails and the cache stays.  A ClientException becomes a
\* ValidationException, which reload_and_cache_schedule catches: a copy goes on,
\* with an empty profile if there is none.  Any other error ends the copy.
NotLoaded ==
    /\ reads # <<>> /\ faults < MaxFaults
    /\ faults' = faults + 1
    /\ reads' = Tail(reads)
    /\ loaded' = FALSE
    /\ LET then == Head(reads).then
       IN  UNCHANGED puts \/ (then # <<>> /\ Copied(cache, then[1], then[2]))
    /\ UNCHANGED <<ccuVars, reports, libVars, cache, missed, writes>>

Next ==
    \/ \E days \in {{d} : d \in Day} \cup {{p} \X Weekday : p \in Profile} \cup {Day},
          simple \in Inputs : Set(days, simple)
    \/ \E source, target \in Profile : CopyProfile(source, target)
    \/ \E d \in Day, slots \in Edits : Edit(d, slots)
    \/ Reload
    \/ Stored \/ NotStored \/ Transferred \/ Serve
    \/ Reported \/ ConfigChanged \/ ConfigFails \/ Loaded \/ NotLoaded

Spec == Init /\ [][Next]_vars

-----------------------------------------------------------------------------
(* Properties *)

\* The slots that a set_* or a copy wrote play, up to the end of the last one,
\* what the periods say; they reach 24:00 unless the periods and the gaps
\* between them took every slot.
AskedIsPlayed ==
    \A d \in Day : asked[d] # Empty =>
        /\ \A t \in 0..(Last(device[d]).endtime - 1) :
              PlayedAt(device[d], t) = ShownAt(asked[d], t)
        /\ Last(device[d]).endtime = DayEnd \/ Len(UsedSlots(asked[d])) = Slots

\* With no report, no change and no read on its way, the last read stored and no
\* change left without a read (ConfigFails), the cache shows for every time of
\* the schedule the temperature the CCU has for it, however writes, reports,
\* changes and reads overlapped.
ShownIsPlayed ==
    (/\ ~pending /\ reports = <<>> /\ changes = 0 /\ reads = <<>>
     /\ loaded /\ ~missed) =>
        \A d \in Day, t \in 0..(DayEnd - 1) :
            PlayedAt(device[d], t) \in {ShownAt(cache[d], t), Invalid}

\* A schedule that was read can be written: every weekday in the cache passes
\* the validation of set_* and needs no more slots than the device has, so that
\* a profile shown is a profile that can be copied.
ShownIsWritable ==
    cache # Empty => \A d \in Day : Accepted(cache[d]) /\ Fits(cache[d])
=============================================================================
