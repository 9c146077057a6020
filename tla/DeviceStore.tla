---------------------------- MODULE DeviceStore ----------------------------
(***************************************************************************)
(* The device coordinator (central/coordinators/device.py) between the     *)
(* calls of the CCU, the description caches, their files and the registry  *)
(* of Device objects, for one interface.                                   *)
(*                                                                         *)
(* A task is one run of a coordinator method; it is interrupted where the  *)
(* code awaits something that suspends: a backend call, the semaphore, the *)
(* handlers of an event, a file being written. An address is <<d, c>>:     *)
(* <<d, 0>> is the device's own, the others are channels. "desc" holds the *)
(* addresses with a description, "pars" the ones with all the paramset     *)
(* descriptions they need; an address with no parameters is not told from  *)
(* one that was never looked up.                                           *)
(***************************************************************************)
EXTENDS PersistentCache, FiniteSets

CONSTANTS Device, Channel,
          MaxOps,       \* calls of the CCU and refreshes of one behaviour
          MaxCrashes,   \* process ends without warning
          MaxFaults     \* failures of a fetch, a list or a write

ASSUME DeviceStoreAssumption ==
    /\ Item = Device \X ({0} \cup Channel)
    /\ Store = {"desc", "pars"}
    /\ {MaxOps, MaxCrashes, MaxFaults} \subseteq Nat

\* How a fetch of paramset descriptions ends: with them, with None after an
\* error the client logs, or with an unexpected error.
Outcomes == {"ok", "none", "raise"}

Addresses(d) == {d} \X ({0} \cup Channel)

VARIABLES
    paired,    \* the devices the CCU knows
    up,        \* the central runs and its callbacks are served
    known,     \* the keys of DeviceDescriptionRegistry._addresses
    iface,     \* the paramset cache has a key for the interface
    registry,  \* device -> the channels of its Device object, None: no object
    sem,       \* the task in _device_add_semaphore, or None
    task,      \* task -> where it is
    ops, crashes, faults

coordVars == <<paired, up, known, iface, registry, sem, task, ops, crashes, faults>>
vars == <<cacheVars, coordVars>>

Idle == [pc |-> "idle", op |-> "none", dev |-> None, target |-> None, batch |-> {},
         had |-> {}, cur |-> None, ok |-> FALSE, plan |-> <<>>, new |-> {}]

PCs == {"idle", "list", "wait", "fetch", "save", "load", "finish", "publish", "unregister"}
Ops == {"none", "startup", "add", "refresh", "update", "delete", "repair", "repaired", "abort"}

\* One task is where the code can stop, and the caches hold what they can.
TypeOK ==
    /\ CacheTypeOK
    /\ paired \subseteq Device /\ known \subseteq Device
    /\ up \in BOOLEAN /\ iface \in BOOLEAN
    /\ registry \in [Device -> (SUBSET Item) \cup {None}]
    /\ sem \in Task \cup {None}
    /\ \A t \in Task :
          /\ task[t].pc \in PCs /\ task[t].op \in Ops
          /\ task[t].batch \subseteq Item /\ task[t].cur \in Item \cup {None}
          /\ \A s \in Store : t \in Range(savers[s]) =>
                task[t].pc = "save" /\ task[t].plan # <<>> /\ Head(task[t].plan) = s
    /\ ops \in 0..MaxOps /\ crashes \in 0..MaxCrashes /\ faults \in 0..MaxFaults

Init ==
    /\ CacheInit
    /\ paired = {} /\ up = FALSE /\ known = {} /\ iface = FALSE
    /\ registry = [d \in Device |-> None]
    /\ sem = None
    /\ task = [t \in Task |-> Idle]
    /\ ops = 0 /\ crashes = 0 /\ faults = 0

-----------------------------------------------------------------------------
(* The caches and the registry.                                            *)

\* add_device for several descriptions; an address that is there already
\* is taken out first, which makes the list a new one.
AddDescriptions(as) ==
    /\ SetContent([content EXCEPT !["desc"] = @ \cup as],
                  IF as \cap content["desc"] = {} THEN {} ELSE {"desc"})
    /\ known' = known \cup {a[1] : a \in as}

\* remove_device of both registries for a device with the channels as.
RemoveFromCaches(d, as) ==
    /\ SetContent([content EXCEPT !["desc"] = @ \ (as \cup {<<d, 0>>}),
                                  !["pars"] = @ \ as], {"desc"})
    /\ known' = known \ {d}

\* check_for_new_device_addresses: described, and no Device object yet.
NewDevices == IF iface THEN {d \in known : registry[d] = None} ELSE {}

\* create_devices: Device needs its own description and leaves out the
\* channels that have none.
Created(ds) ==
    [d \in Device |->
        IF d \in ds /\ registry[d] = None /\ <<d, 0>> \in content["desc"]
        THEN content["desc"] \cap Addresses(d) ELSE registry[d]]

Fault ==
    /\ faults < MaxFaults
    /\ faults' = faults + 1

\* A call of the backend answers, or fails.
Outcome(outcome) == IF outcome = "ok" THEN UNCHANGED faults ELSE Fault

Goto(t, r) == task' = [task EXCEPT ![t] = r]

\* save_all of both caches.
SaveAll == <<"desc", "pars">>

-----------------------------------------------------------------------------
(* What the CCU calls, and the refresh of the firmware data.               *)

\* A call schedules a task of its own.
Called(t) ==
    /\ up /\ task[t] = Idle
    /\ ops < MaxOps
    /\ ops' = ops + 1
    /\ UNCHANGED <<crashes, faults>>

\* newDevices: devices are paired, or what listDevices lacked is announced.
Announce(t, batch) ==
    /\ Called(t)
    /\ paired' = paired \cup {a[1] : a \in batch}
    /\ Goto(t, [Idle EXCEPT !.pc = "wait", !.op = "add", !.batch = batch])
    /\ UNCHANGED <<cacheVars, up, known, iface, registry, sem>>

\* deleteDevices looks in the registry of Device objects only; remove_device
\* takes note of the object's channels and publishes the removal.
Retract(t, d) ==
    /\ Called(t)
    /\ d \in paired
    /\ paired' = paired \ {d}
    /\ Goto(t, IF registry[d] = None
               THEN [Idle EXCEPT !.pc = "save", !.op = "delete", !.plan = SaveAll]
               ELSE [Idle EXCEPT !.pc = "publish", !.op = "delete", !.dev = d, !.had = registry[d]])
    /\ UNCHANGED <<cacheVars, up, known, iface, registry, sem>>

\* updateDevice and readdedDevice (old = new), replaceDevice: a device that
\* is registered leaves the caches at once and then the registry.
Update(t, old, new) ==
    /\ Called(t)
    /\ old \in paired
    /\ paired' = (paired \ {old}) \cup {new}
    /\ IF registry[old] = None
       THEN /\ Goto(t, [Idle EXCEPT !.pc = "list", !.op = "update", !.target = new])
            /\ UNCHANGED <<cacheVars, known>>
       ELSE /\ RemoveFromCaches(old, registry[old])
            /\ Goto(t, [Idle EXCEPT !.pc = "publish", !.op = "update", !.dev = old,
                                    !.target = new, !.had = registry[old]])
    /\ UNCHANGED <<up, iface, registry, sem>>

\* refresh_firmware_data of all devices.
Refresh(t) ==
    /\ Called(t)
    /\ Goto(t, [Idle EXCEPT !.pc = "list", !.op = "refresh"])
    /\ UNCHANGED <<cacheVars, paired, up, known, iface, registry, sem>>

-----------------------------------------------------------------------------
(* remove_device.                                                          *)

\* _on_device_removed runs as a handler of the published event.
OnDeviceRemoved(t) ==
    /\ task[t].pc = "publish"
    /\ RemoveFromCaches(task[t].dev, task[t].had)
    /\ Goto(t, [task[t] EXCEPT !.pc = "unregister"])
    /\ UNCHANGED <<paired, up, iface, registry, sem, ops, crashes, faults>>

\* Mutant: the deletion saves the device descriptions only.
AfterRemovalHalf(t) ==
    IF task[t].op = "delete"
    THEN [Idle EXCEPT !.pc = "save", !.op = "delete", !.plan = <<"desc">>]
    ELSE [task[t] EXCEPT !.pc = "list", !.dev = None]

\* A deletion saves the caches, an update asks for the fresh description.
AfterRemoval(t) ==
    IF task[t].op = "delete"
    THEN [Idle EXCEPT !.pc = "save", !.op = "delete", !.plan = SaveAll]
    ELSE [task[t] EXCEPT !.pc = "list", !.dev = None]

\* Mutant: the Device object stays in the registry.
UnregisterNothing(t) ==
    /\ task[t].pc = "unregister"
    /\ Goto(t, AfterRemoval(t))
    /\ UNCHANGED <<cacheVars, paired, up, known, iface, registry, sem, ops, crashes, faults>>

\* The publication is over: the object leaves the registry.
Unregister(t) ==
    /\ task[t].pc = "unregister"
    /\ registry' = [registry EXCEPT ![task[t].dev] = None]
    /\ Goto(t, AfterRemoval(t))
    /\ UNCHANGED <<cacheVars, paired, up, known, iface, sem, ops, crashes, faults>>

-----------------------------------------------------------------------------
(* refresh_device_descriptions_and_create_missing_devices.                 *)

\* The descriptions got: wait for the semaphore, or none: there is nothing
\* to add, and an update goes on to its last save.
Got(t, as) ==
    IF as # {} THEN [task[t] EXCEPT !.pc = "wait", !.batch = as]
    ELSE IF task[t].op = "update" THEN [task[t] EXCEPT !.pc = "save", !.plan = SaveAll]
    ELSE Idle

\* getDeviceDescription answers with the description of the device alone.
GotDescription(t) ==
    /\ task[t].pc = "list"
    /\ task[t].target \in paired
    /\ Goto(t, Got(t, {<<task[t].target, 0>>}))
    /\ UNCHANGED <<cacheVars, paired, up, known, iface, registry, sem, ops, crashes, faults>>

\* listDevices answers: for a refresh, after an error, or for a device that
\* is gone. A refresh keeps to the known addresses if there are any.
GotList(t) ==
    /\ task[t].pc = "list"
    /\ LET all == UNION {Addresses(d) : d \in paired}
           existing == all \cap content["desc"]
       IN Goto(t, Got(t, IF task[t].op = "refresh" /\ existing # {} THEN existing ELSE all))
    /\ UNCHANGED <<cacheVars, paired, up, known, iface, registry, sem, ops, crashes, faults>>

\* Both calls fail.
GotNothing(t) ==
    /\ task[t].pc = "list"
    /\ Fault
    /\ Goto(t, Got(t, {}))
    /\ UNCHANGED <<cacheVars, paired, up, known, iface, registry, sem, ops, crashes>>

-----------------------------------------------------------------------------
(* _add_new_devices.                                                       *)

\* _identify_new_device_descriptions: the device is not known.
NewDescriptions(as) == {a \in as : a[1] \notin known}

\* _identify_missing_device_descriptions: get_addresses has no channels.
MissingDescriptions(as) == as \ {<<d, 0>> : d \in known}

\* _identify_devices_missing_paramsets.
MissingParamsets(as) == as \ content["pars"]

\* descriptions_to_cache.
ToCache(t) ==
    IF task[t].op = "add"
    THEN NewDescriptions(task[t].batch) \cup MissingDescriptions(task[t].batch)
    ELSE task[t].batch

\* The ones of them whose paramset descriptions are fetched.
ToFetch(t) == IF task[t].op = "add" THEN ToCache(t) ELSE NewDescriptions(task[t].batch)

\* A device comes before its channels.
First(as) == {a \in as : a[2] = 0 \/ <<a[1], 0>> \notin as}

\* The batch is cached: announce it, save all, or save nothing when the last
\* fetch raised an error.
Fetched(t, ok) ==
    [task[t] EXCEPT !.pc = "save", !.batch = {}, !.cur = None, !.ok = ok,
                    !.plan = IF ok THEN <<"pars", "desc", "pars">> ELSE <<>>]

\* The semaphore is free. What is known already is cached (here all at once,
\* in the code in the order of the list), then the first description to fetch for.
Acquire(t) ==
    /\ task[t].pc = "wait" /\ task[t].op # "startup"
    /\ sem = None
    /\ ToCache(t) # {}
    /\ sem' = t
    /\ LET kept == ToCache(t) \ ToFetch(t)
       IN IF ToFetch(t) = {}
          THEN AddDescriptions(kept) /\ Goto(t, Fetched(t, TRUE))
          ELSE \E a \in First(ToFetch(t)) :
                  /\ AddDescriptions(kept \cup {a})
                  /\ Goto(t, [task[t] EXCEPT !.pc = "fetch", !.cur = a, !.batch = ToFetch(t) \ {a}])
    /\ UNCHANGED <<paired, up, iface, registry, ops, crashes, faults>>

\* Nothing to cache: fetch the paramsets that are missing, or leave.
AcquireToRepair(t) ==
    /\ task[t].pc = "wait" /\ task[t].op = "add"
    /\ sem = None
    /\ ToCache(t) = {}
    /\ iface' = TRUE
    /\ LET missing == MissingParamsets(task[t].batch)
       IN IF missing = {} THEN Goto(t, Idle) /\ UNCHANGED sem
          ELSE \E a \in First(missing) :
                  /\ sem' = t
                  /\ Goto(t, [task[t] EXCEPT !.pc = "fetch", !.op = "repair", !.cur = a,
                                             !.had = missing, !.batch = missing \ {a}])
    /\ UNCHANGED <<cacheVars, paired, up, known, registry, ops, crashes, faults>>

\* fetch_paramset_descriptions ends in the batch: the next description
\* follows without an interruption.
FetchEnds(t, outcome) ==
    /\ Outcome(outcome)
    /\ task[t].pc = "fetch" /\ task[t].op # "repair"
    /\ LET a == task[t].cur
           withPars == IF outcome = "ok" THEN [content EXCEPT !["pars"] = @ \cup {a}] ELSE content
       IN IF task[t].batch = {}
          THEN /\ SetContent(withPars, {})
               /\ Goto(t, Fetched(t, outcome # "raise"))
               /\ UNCHANGED known
          ELSE \E b \in First(task[t].batch) :
                  /\ SetContent([withPars EXCEPT !["desc"] = @ \cup {b}],
                                IF b \in content["desc"] THEN {"desc"} ELSE {})
                  /\ known' = known \cup {b[1]}
                  /\ Goto(t, [task[t] EXCEPT !.cur = b, !.batch = @ \ {b}])
    /\ iface' = (iface \/ outcome = "ok")
    /\ UNCHANGED <<paired, up, registry, sem, ops, crashes>>

\* The same in the repair, where an error ends the task and leaves out the save of
\* what was fetched before.
RepairFetchEnds(t, outcome) ==
    /\ Outcome(outcome)
    /\ task[t].pc = "fetch" /\ task[t].op = "repair"
    /\ IF outcome = "raise" THEN SaveLeftOut({"pars"}) /\ Goto(t, Idle) /\ sem' = None
       ELSE /\ SetContent(IF outcome = "ok" THEN [content EXCEPT !["pars"] = @ \cup {task[t].cur}]
                          ELSE content, {})
            /\ IF task[t].batch = {}
               THEN Goto(t, [task[t] EXCEPT !.pc = "save", !.cur = None, !.plan = <<"pars">>])
               ELSE \E b \in First(task[t].batch) :
                       Goto(t, [task[t] EXCEPT !.cur = b, !.batch = @ \ {b}])
            /\ UNCHANGED sem
    /\ UNCHANGED <<paired, up, known, iface, registry, ops, crashes>>

-----------------------------------------------------------------------------
(* Saving, one store after the other.                                      *)

\* The part of a plan that begins with a store that has unsaved changes.
Due(plan) ==
    LET dirty == {i \in DOMAIN plan : HasUnsavedChanges(plan[i])}
    IN IF dirty = {} THEN <<>>
       ELSE SubSeq(plan, CHOOSE i \in dirty : \A j \in dirty : i <= j, Len(plan))

Saving(t) == \E s \in Store : t \in Range(savers[s])

BeginSave(t) ==
    /\ task[t].pc = "save" /\ ~Saving(t)
    /\ Due(task[t].plan) # <<>>
    /\ SaveStart(t, Head(Due(task[t].plan)))
    /\ Goto(t, [task[t] EXCEPT !.plan = Due(@)])
    /\ UNCHANGED <<paired, up, known, iface, registry, sem, ops, crashes, faults>>

Write(t, s) ==
    /\ WriteFile(t, s)
    /\ UNCHANGED coordVars

EndSave(t, s) ==
    /\ \/ SaveDone(t, s) /\ UNCHANGED faults
       \/ SaveFails(t, s) /\ Fault
    /\ Goto(t, [task[t] EXCEPT !.plan = Tail(@)])
    /\ UNCHANGED <<paired, up, known, iface, registry, sem, ops, crashes>>

-----------------------------------------------------------------------------
(* The rest of the pipeline.                                               *)

\* async with ends; an update saves once more.
Released(t) ==
    IF task[t].op = "update"
    THEN [Idle EXCEPT !.pc = "save", !.op = "update", !.ok = TRUE, !.plan = SaveAll]
    ELSE Idle

SavesOver(t) ==
    task[t].pc = "save" /\ ~Saving(t) /\ Due(task[t].plan) = <<>>

\* The last save of a deletion or an update: the task is over.
LastSaveOver(t) ==
    /\ SavesOver(t) /\ sem # t
    /\ Goto(t, Idle)
    /\ UNCHANGED <<cacheVars, paired, up, known, iface, registry, sem, ops, crashes, faults>>

\* The repair looks again and saves what it got, to create or to give up.
CheckRepaired(t) ==
    /\ SavesOver(t) /\ sem = t /\ task[t].op = "repair"
    /\ Goto(t, [task[t] EXCEPT !.plan = <<"pars">>, !.had = {}, !.ok = TRUE,
                  !.op = IF MissingParamsets(task[t].had) = {} THEN "repaired" ELSE "abort"])
    /\ UNCHANGED <<cacheVars, paired, up, known, iface, registry, sem, ops, crashes, faults>>

\* Mutant: the early return forgets the semaphore.
AbortRepairHolding(t) ==
    /\ SavesOver(t) /\ sem = t /\ task[t].op = "abort"
    /\ Goto(t, Idle)
    /\ UNCHANGED <<cacheVars, paired, up, known, iface, registry, sem, ops, crashes, faults>>

AbortRepair(t) ==
    /\ SavesOver(t) /\ sem = t /\ task[t].op = "abort"
    /\ sem' = None
    /\ Goto(t, Idle)
    /\ UNCHANGED <<cacheVars, paired, up, known, iface, registry, ops, crashes, faults>>

\* Nothing to create: leave. Otherwise load details and data first.
CheckForNew(t) ==
    /\ SavesOver(t) /\ sem = t /\ task[t].op \notin {"repair", "abort"}
    /\ IF task[t].ok THEN UNCHANGED cacheVars ELSE SaveLeftOut(Store)
    /\ IF NewDevices = {}
       THEN sem' = None /\ Goto(t, Released(t))
       ELSE /\ Goto(t, [task[t] EXCEPT !.pc = "load", !.new = NewDevices, !.plan = <<>>])
            /\ UNCHANGED sem
    /\ UNCHANGED <<paired, up, known, iface, registry, ops, crashes, faults>>

Create(t) ==
    /\ task[t].pc = "load"
    /\ registry' = Created(task[t].new)
    /\ Goto(t, [task[t] EXCEPT !.pc = "finish", !.new = {}])
    /\ UNCHANGED <<cacheVars, paired, up, known, iface, sem, ops, crashes, faults>>

\* finalize_init of the new devices is over.
Finish(t) ==
    /\ task[t].pc = "finish"
    /\ sem' = None
    /\ Goto(t, Released(t))
    /\ UNCHANGED <<cacheVars, paired, up, known, iface, registry, ops, crashes, faults>>

-----------------------------------------------------------------------------
(* The life of the process.                                                *)

\* start_clients: the files are loaded, the interfaces initialised, then
\* check_and_create_devices_from_cache waits for the semaphore.
Start(t) ==
    /\ ~up /\ up' = TRUE
    /\ LoadAll \/ LoadFails
    /\ known' = {a[1] : a \in content'["desc"]}
    /\ iface' = (content'["pars"] # {})
    /\ Goto(t, [Idle EXCEPT !.pc = "wait", !.op = "startup"])
    /\ UNCHANGED <<paired, registry, sem, ops, crashes, faults>>

\* Mutant: the startup creates without waiting for the semaphore.
CreateFromCacheAtOnce(t) ==
    /\ task[t].pc = "wait" /\ task[t].op = "startup"
    /\ registry' = Created(NewDevices)
    /\ Goto(t, Idle)
    /\ UNCHANGED <<cacheVars, paired, up, known, iface, sem, ops, crashes, faults>>

CreateFromCache(t) ==
    /\ task[t].pc = "wait" /\ task[t].op = "startup"
    /\ sem = None
    /\ registry' = Created(NewDevices)
    /\ IF registry' = registry
       THEN Goto(t, Idle) /\ UNCHANGED sem
       ELSE Goto(t, [task[t] EXCEPT !.pc = "finish"]) /\ sem' = t
    /\ UNCHANGED <<cacheVars, paired, up, known, iface, ops, crashes, faults>>

Crash ==
    /\ up /\ crashes < MaxCrashes
    /\ crashes' = crashes + 1
    /\ CacheCrash
    /\ up' = FALSE /\ known' = {} /\ iface' = FALSE
    /\ registry' = [d \in Device |-> None]
    /\ sem' = None
    /\ task' = [t \in Task |-> Idle]
    /\ UNCHANGED <<paired, ops, faults>>

-----------------------------------------------------------------------------
\* What a task does by itself.
Step(t) ==
    \/ OnDeviceRemoved(t) \/ Unregister(t)
    \/ GotDescription(t) \/ GotList(t) \/ GotNothing(t)
    \/ Acquire(t) \/ AcquireToRepair(t) \/ CreateFromCache(t)
    \/ \E outcome \in Outcomes : FetchEnds(t, outcome) \/ RepairFetchEnds(t, outcome)
    \/ BeginSave(t)
    \/ \E s \in Store : Write(t, s) \/ EndSave(t, s)
    \/ LastSaveOver(t) \/ CheckRepaired(t) \/ AbortRepair(t) \/ CheckForNew(t)
    \/ Create(t) \/ Finish(t)

Next ==
    \/ \E t \in Task :
          \/ Start(t) \/ Step(t) \/ Refresh(t)
          \/ \E batch \in SUBSET Item \ {{}} : Announce(t, batch)
          \/ \E d \in Device :
                \/ Retract(t, d)
                \/ \E new \in Device : Update(t, d, new)
    \/ Crash

Spec == Init /\ [][Next]_vars

-----------------------------------------------------------------------------
\* When nothing is under way, every change of the caches is in the files,
\* unless the save of it failed, was left out after an error, or overlapped
\* with the change (device.py:501, 880, 1085-1097, base.py:190-222).
SavedWhenIdle ==
    up /\ (\A t \in Task : task[t] = Idle) =>
        \A s \in Store : overlap[s] # "no" \/ lost[s]
                         \/ content[s] = IF file[s] = None THEN {} ELSE file[s]

\* A Device object is only created when no task is still caching descriptions
\* of its device (device.py:247-254, 1099-1101).
CreatesOnlySettled ==
    [][\A d \in Device : registry[d] = None /\ registry'[d] # None =>
          \A t \in Task : task[t].pc = "fetch" => task[t].cur[1] # d
                                               /\ \A a \in task[t].batch : a[1] # d]_vars

\* A registered device is described, or somebody is about to take it out of
\* the registry: a removal from the caches is always completed (device.py:748-785).
RegistryDescribed ==
    \A d \in Device : registry[d] # None =>
        \/ <<d, 0>> \in content["desc"]
        \/ \E t \in Task : task[t].pc \in {"publish", "unregister"} /\ task[t].dev = d

\* As long as a method of the coordinator is under way, one of them can go
\* on: nobody waits for a semaphore or for the lock of a store that is held by
\* nobody (device.py:257, 943, storage.py:405-406). No method runs in circles,
\* so all of them end.
NeverStuck ==
    (\E t \in Task : task[t] # Idle) => \E t \in Task : ENABLED Step(t)
=============================================================================
