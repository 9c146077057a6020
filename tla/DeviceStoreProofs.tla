------------------------- MODULE DeviceStoreProofs -------------------------
(***************************************************************************)
(* Proofs about DeviceStore for any devices, channels, tasks and bounds.   *)
(* The inductive invariant DInv says of every task where it can be and     *)
(* that it fetches and creates in the semaphore only, of every file how it *)
(* relates to the content, its hash and the saves under way, of every      *)
(* unsaved change which task will save it or give it up, and of every      *)
(* Device object that it is described or about to be removed.              *)
(***************************************************************************)
EXTENDS DeviceStore, SequenceTheorems, TLAPS

-----------------------------------------------------------------------------
(* The invariant: where the tasks are, ... *)

Records ==
    [pc : PCs, op : Ops, dev : Device \cup {None}, target : Device \cup {None},
     batch : SUBSET Item, had : SUBSET Item, cur : Item \cup {None}, ok : BOOLEAN,
     plan : Seq(Store), new : SUBSET Device]

Typed ==
    /\ task \in [Task -> Records]
    /\ known \subseteq Device /\ paired \subseteq Device
    /\ content \in [Store -> SUBSET Item]
    /\ saved \in [Store -> (SUBSET Item) \cup {None}]
    /\ file \in [Store -> (SUBSET Item) \cup {None}]
    /\ savers \in [Store -> Seq(Task)]
    /\ written \in [Store -> BOOLEAN] /\ lost \in [Store -> BOOLEAN]
    /\ snap \in [Task -> (SUBSET Item) \cup {None}]
    /\ overlap \in [Store -> {"no", "stale", "now"}]

\* Where the semaphore is certainly held.
Held == {"fetch", "load", "finish"}

SemHeld == \A t \in Task : task[t].pc \in Held => sem = t

\* Which methods come to which place, and what a removal knows of its device.
Fits(r) ==
    /\ r.pc = "list" => r.op \in {"refresh", "update"}
    /\ r.pc = "wait" => r.op \in {"startup", "add", "refresh", "update"}
    /\ r.pc = "fetch" => /\ r.op \in {"add", "refresh", "update", "repair"}
                         /\ r.cur \in Item
    /\ r.pc \in {"publish", "unregister"} => /\ r.op \in {"delete", "update"} /\ r.dev \in Device
                                             /\ r.had \subseteq Addresses(r.dev)
    /\ Len(r.plan) <= 3

TasksFit == \A t \in Task : Fits(task[t])

\* ... who saves, ...

\* A task in Storage.save saves the first store of its plan, once.
SaversFit ==
    /\ \A s \in Store : \A t \in Range(savers[s]) :
          task[t].pc = "save" /\ task[t].plan # <<>> /\ Head(task[t].plan) = s
    /\ \A s \in Store : IsInjective(savers[s])
    /\ \A s \in Store : written[s] => savers[s] # <<>>

\* ... what the files hold, ...

\* Unless the content changed meanwhile, a save writes what the registry holds; unless
\* the last save was overtaken, the hash is the one of the file.
FilesFit ==
    \A s \in Store :
        /\ overlap[s] # "now" => /\ written[s] => file[s] = content[s]
                                 /\ \A t \in Range(savers[s]) : snap[t] \in {None, content[s]}
        /\ up /\ overlap[s] = "no" /\ ~written[s] => file[s] = saved[s]

\* ... who has yet to save what, ...

\* A task at r, which holds the semaphore or not, saves the store s before it ends, or
\* leaves the save out for an error.
Saves(r, holds, s) ==
    \/ r.pc = "save" /\ s \in Range(r.plan)
    \/ r.pc = "save" /\ holds /\ ~r.ok /\ r.op \notin {"repair", "abort"}
    \/ r.pc = "fetch" /\ (r.op # "repair" \/ s = "pars")
    \/ r.pc \in {"publish", "unregister"}
    \/ r.pc \in {"list", "wait"} /\ r.op = "update"

\* Nothing in memory, and no file.
Blank(s) == content[s] = {} /\ saved[s] = None

Covered ==
    up => \A s \in Store :
        HasUnsavedChanges(s) /\ overlap[s] = "no" /\ ~lost[s] =>
            Blank(s) \/ \E t \in Task : Saves(task[t], sem = t, s)

\* ... and what the registry holds.
RegistryFits ==
    /\ registry \in [Device -> (SUBSET Item) \cup {None}]
    /\ \A d \in Device : registry[d] # None => registry[d] \subseteq Addresses(d)
    /\ ~up => (\A d \in Device : registry[d] = None) /\ (\A t \in Task : task[t] = Idle)

TasksInv == Typed /\ SemHeld /\ TasksFit /\ SaversFit /\ FilesFit /\ Covered
RegistryInv == RegistryFits /\ RegistryDescribed
DInv == TasksInv /\ RegistryInv

-----------------------------------------------------------------------------
(* Sequences. *)

LEMMA RangeAppend ==
    ASSUME NEW S, NEW q \in Seq(S), NEW e \in S
    PROVE  /\ Append(q, e) \in Seq(S) /\ Append(q, e) # <<>>
           /\ Range(Append(q, e)) = Range(q) \cup {e}
           /\ IsInjective(q) /\ e \notin Range(q) => IsInjective(Append(q, e))
<1> DEFINE n == Append(q, e)
<1>1. /\ n \in Seq(S) /\ DOMAIN n = 1 .. (Len(q) + 1) /\ DOMAIN q = 1 .. Len(q) /\ Len(q) \in Nat
      /\ Len(n) = Len(q) + 1
  OBVIOUS
<1>2. /\ \A i \in DOMAIN q : i \in DOMAIN n /\ n[i] = q[i]
      /\ Len(q) + 1 \in DOMAIN n /\ n[Len(q) + 1] = e
      /\ \A i \in DOMAIN n : i \in DOMAIN q \/ i = Len(q) + 1
  BY <1>1
<1>3. n # <<>>
  BY <1>1
<1> HIDE DEF n
<1>4. Range(n) = Range(q) \cup {e}
  BY <1>2 DEF Range
<1>5. ASSUME IsInjective(q), e \notin Range(q) PROVE IsInjective(n)
  BY <1>2, <1>5 DEF IsInjective, Range
<1> QED  BY <1>1, <1>3, <1>4, <1>5 DEF n

LEMMA RangeTail ==
    ASSUME NEW S, NEW q \in Seq(S), q # <<>>
    PROVE  /\ Tail(q) \in Seq(S) /\ Len(Tail(q)) = Len(q) - 1 /\ Head(q) \in Range(q)
           /\ Range(q) = {Head(q)} \cup Range(Tail(q))
           /\ IsInjective(q) => IsInjective(Tail(q)) /\ Head(q) \notin Range(Tail(q))
<1> DEFINE n == Tail(q)
<1>1. /\ n \in Seq(S) /\ DOMAIN n = 1 .. (Len(q) - 1) /\ DOMAIN q = 1 .. Len(q) /\ Len(q) \in Nat \ {0}
      /\ Head(q) = q[1] /\ Len(n) = Len(q) - 1
  OBVIOUS
<1>2. /\ \A i \in DOMAIN n : i + 1 \in DOMAIN q /\ n[i] = q[i + 1] /\ i + 1 # 1
      /\ \A i \in DOMAIN q : i = 1 \/ (i - 1 \in DOMAIN n /\ n[i - 1] = q[i])
      /\ 1 \in DOMAIN q /\ \A i, j \in DOMAIN n : i + 1 = j + 1 => i = j
  BY <1>1
<1> HIDE DEF n
<1>3. Head(q) \in Range(q) /\ Range(q) = {Head(q)} \cup Range(n)
  <2>1. \A x \in Range(q) : x = q[1] \/ x \in Range(n)
    BY <1>2 DEF Range
  <2>2. q[1] \in Range(q) /\ \A x \in Range(n) : x \in Range(q)
    BY <1>2 DEF Range
  <2> QED  BY <1>1, <2>1, <2>2
<1>4. ASSUME IsInjective(q) PROVE IsInjective(n) /\ Head(q) \notin Range(n)
  BY <1>1, <1>2, <1>4 DEF IsInjective, Range
<1> QED  BY <1>1, <1>3, <1>4 DEF n

LEMMA RangeEmpty == Range(<<>>) = {} /\ IsInjective(<<>>)
BY DEF Range, IsInjective

\* What is due keeps every store of the plan that has unsaved changes.
LEMMA DueFits ==
    ASSUME NEW plan \in Seq(Store), Len(plan) <= 3
    PROVE  /\ Due(plan) \in Seq(Store) /\ Len(Due(plan)) <= 3
           /\ \A s \in Range(plan) : HasUnsavedChanges(s) => s \in Range(Due(plan))
           /\ Due(plan) # <<>> => HasUnsavedChanges(Head(Due(plan)))
<1> DEFINE dirty == {i \in DOMAIN plan : HasUnsavedChanges(plan[i])}
<1>1. DOMAIN plan = 1 .. Len(plan) /\ Len(plan) \in 0 .. 3 /\ Len(plan) \in Nat
  <2>1. DOMAIN plan = 1 .. Len(plan) /\ Len(plan) \in Nat
    BY LenProperties
  <2> QED  BY <2>1
<1>2. CASE dirty = {}
  <2>1. Due(plan) = <<>>
    BY <1>2 DEF Due
  <2>2. \A s \in Range(plan) : ~HasUnsavedChanges(s)
    BY <1>2 DEF Range
  <2> QED  BY <2>1, <2>2
<1>3. CASE dirty # {}
  <2>1. \E i \in dirty : \A j \in dirty : i <= j
    <3>1. dirty \subseteq 1 .. 3
      BY <1>1
    <3> HIDE DEF dirty
    <3>2. CASE 1 \in dirty
      <4>1. \A j \in dirty : 1 <= j
        BY <3>1
      <4> QED  BY <3>2, <4>1
    <3>3. CASE 1 \notin dirty /\ 2 \in dirty
      <4>1. \A j \in dirty : 2 <= j
        BY <3>1, <3>3
      <4> QED  BY <3>3, <4>1
    <3>4. CASE 1 \notin dirty /\ 2 \notin dirty
      <4>1. \A j \in dirty : j = 3
        BY <3>1, <3>4
      <4>2. 3 \in dirty
        BY <1>3, <4>1
      <4> QED  BY <4>1, <4>2
    <3> QED  BY <3>2, <3>3, <3>4
  <2> DEFINE k == CHOOSE i \in dirty : \A j \in dirty : i <= j
  <2>2. k \in dirty /\ \A j \in dirty : k <= j
    BY <2>1
  <2>3. Due(plan) = SubSeq(plan, k, Len(plan))
    BY <1>3 DEF Due
  <2> HIDE DEF k
  <2>4. k \in 1 .. Len(plan) /\ HasUnsavedChanges(plan[k])
    BY <1>1, <2>2
  <2> DEFINE due == SubSeq(plan, k, Len(plan))
  <2>5. /\ due \in Seq(Store) /\ Len(due) = Len(plan) - k + 1
        /\ \A i \in 1 .. (Len(plan) - k + 1) : due[i] = plan[k + i - 1]
    BY <1>1, <2>4
  <2> HIDE DEF due
  <2>6. DOMAIN due = 1 .. (Len(plan) - k + 1)
    BY <1>1, <2>4, <2>5
  <2>7. ASSUME NEW s \in Range(plan), HasUnsavedChanges(s) PROVE s \in Range(due)
    <3>1. PICK j \in dirty : plan[j] = s
      BY <2>7 DEF Range
    <3>2. j - k + 1 \in 1 .. (Len(plan) - k + 1) /\ k + (j - k + 1) - 1 = j
      BY <1>1, <2>2, <2>4, <3>1
    <3>3. due[j - k + 1] = s
      BY <2>5, <3>1, <3>2
    <3> QED  BY <2>6, <3>2, <3>3 DEF Range
  <2>8. HasUnsavedChanges(Head(due)) /\ Len(due) <= 3
    <3>1. 1 \in 1 .. (Len(plan) - k + 1) /\ k + 1 - 1 = k
      BY <1>1, <2>4
    <3>2. due[1] = plan[k]
      BY <2>5, <3>1
    <3>3. Head(due) = plan[k]
      BY <2>5, <3>2
    <3>4. Len(due) <= 3
      BY <1>1, <2>4, <2>5
    <3> QED  BY <2>4, <3>3, <3>4
  <2> QED  BY <2>3, <2>5, <2>7, <2>8 DEF due
<1> QED  BY <1>2, <1>3

-----------------------------------------------------------------------------
(* A step of one task. *)

\* The other tasks keep what they rely on: nobody takes the semaphore from them.
LEMMA TasksKeep ==
    ASSUME Typed, SemHeld, TasksFit, NEW t \in Task, NEW r \in Records,
           task' = [task EXCEPT ![t] = r], Fits(r), sem' = sem \/ sem \in {None, t},
           r.pc \in Held => sem' = t
    PROVE  /\ task' \in [Task -> Records] /\ task'[t] = r /\ \A u \in Task : u # t => task'[u] = task[u]
           /\ SemHeld' /\ TasksFit'
           /\ \A u \in Task : u # t => (sem = u => sem' = u)
<1>1. /\ task' \in [Task -> Records] /\ task'[t] = r /\ \A u \in Task : u # t => task'[u] = task[u]
  BY DEF Typed
<1>2. TasksFit'
  BY <1>1 DEF TasksFit
<1>3. \A u \in Task : u # t => (sem = u => sem' = u)
  BY CacheAssumption
<1>4. SemHeld'
  BY <1>1, <1>3 DEF SemHeld
<1> QED  BY <1>1, <1>2, <1>3, <1>4

\* A task that is not in Storage.save moves on, and who saves stays.
LEMMA SaversKeep ==
    ASSUME Typed, SaversFit, NEW t \in Task, ~Saving(t), UNCHANGED <<savers, written>>,
           \A u \in Task : u # t => task'[u] = task[u]
    PROVE  SaversFit'
<1>1. \A s \in Store : t \notin Range(savers[s])
  BY DEF Saving
<1>2. \A s \in Store : Range(savers[s]) \subseteq Task
  BY RangeOfSeq DEF Typed
<1>3. \A s \in Store : \A u \in Range(savers[s]) :
          task'[u].pc = "save" /\ task'[u].plan # <<>> /\ Head(task'[u].plan) = s
  BY <1>1, <1>2 DEF SaversFit
<1> QED  BY <1>3 DEF SaversFit

\* Every store that somebody had to save is saved by somebody still, given that task t
\* cares for what it changed and for what it had to save.
LEMMA CoveredKeeps ==
    ASSUME Covered, NEW t \in Task, UNCHANGED up,
           \A u \in Task : u # t => task'[u] = task[u] /\ (sem = u => sem' = u),
           \A s \in Store :
              \/ overlap'[s] # "no"
              \/ lost'[s]
              \/ saved'[s] = content'[s]
              \/ Saves(task'[t], sem' = t, s)
              \/ /\ content'[s] = content[s] /\ overlap'[s] = overlap[s] /\ saved'[s] = saved[s]
                 /\ lost[s] => lost'[s]
                 /\ HasUnsavedChanges(s) => ~Saves(task[t], sem = t, s)
    PROVE  Covered'
<1> SUFFICES ASSUME up', NEW s \in Store, saved'[s] # content'[s], overlap'[s] = "no", ~lost'[s],
                    ~(content'[s] = {} /\ saved'[s] = None)
             PROVE  \E u \in Task : Saves(task'[u], sem' = u, s)
  BY DEF Covered, HasUnsavedChanges, Blank
<1>1. CASE Saves(task'[t], sem' = t, s)
  BY <1>1
<1>2. CASE /\ content'[s] = content[s] /\ overlap'[s] = overlap[s] /\ saved'[s] = saved[s]
           /\ lost[s] => lost'[s]
           /\ HasUnsavedChanges(s) => ~Saves(task[t], sem = t, s)
  <2>1. HasUnsavedChanges(s) /\ ~lost[s] /\ ~Blank(s) /\ overlap[s] = "no" /\ up
    BY <1>2 DEF HasUnsavedChanges, Blank
  <2>2. PICK u \in Task : Saves(task[u], sem = u, s)
    BY <2>1 DEF Covered
  <2>3. u # t
    BY <1>2, <2>1, <2>2
  <2>4. task'[u] = task[u] /\ (sem = u => sem' = u)
    BY <2>3
  <2>5. Saves(task'[u], sem' = u, s)
    BY <2>2, <2>4 DEF Saves
  <2> QED  BY <2>5
<1> QED  BY <1>1, <1>2

\* The caches stay, but for what a task gives up for lost.
LEMMA QuietKeeps ==
    ASSUME TasksInv, NEW t \in Task, NEW r \in Records, task' = [task EXCEPT ![t] = r], Fits(r),
           ~Saving(t), sem' = sem \/ sem \in {None, t}, r.pc \in Held => sem' = t,
           UNCHANGED <<content, saved, file, savers, written, snap, overlap, up>>,
           lost' \in [Store -> BOOLEAN], \A s \in Store : lost[s] => lost'[s],
           known' \subseteq Device, paired' \subseteq Device,
           \A s \in Store : HasUnsavedChanges(s) /\ Saves(task[t], sem = t, s)
                            => lost'[s] \/ Saves(r, sem' = t, s)
    PROVE  TasksInv'
<1>1. /\ task' \in [Task -> Records] /\ task'[t] = r /\ \A u \in Task : u # t => task'[u] = task[u]
      /\ SemHeld' /\ TasksFit' /\ \A u \in Task : u # t => (sem = u => sem' = u)
  BY TasksKeep DEF TasksInv
<1>2. Typed'
  BY <1>1 DEF TasksInv, Typed
<1>3. SaversFit'
  BY <1>1, SaversKeep DEF TasksInv
<1>4. FilesFit'
  BY DEF TasksInv, FilesFit
<1>5. Covered'
  BY <1>1, CoveredKeeps DEF TasksInv
<1> QED  BY <1>1, <1>2, <1>3, <1>4, <1>5 DEF TasksInv

\* The contents become others; the list of the device descriptions may be a new one.
ContentSet ==
    /\ content' \in [Store -> SUBSET Item]
    /\ \E replaced \in SUBSET {"desc"} : SetContent(content', replaced)

\* The contents change: a save under way takes note of it, and the task cares for the rest.
LEMMA ContentKeeps ==
    ASSUME TasksInv, NEW t \in Task, NEW r \in Records, task' = [task EXCEPT ![t] = r], Fits(r),
           ~Saving(t), sem' = sem \/ sem \in {None, t}, r.pc \in Held => sem' = t,
           ContentSet, UNCHANGED up, known' \subseteq Device, paired' \subseteq Device,
           \A s \in Store : \/ Saves(r, sem' = t, s)
                            \/ content'[s] = content[s] /\ ~Saves(task[t], sem = t, s)
    PROVE  TasksInv'
<1> DEFINE new == content'
<1>0. PICK replaced \in SUBSET {"desc"} : SetContent(new, replaced)
  BY DEF ContentSet
<1>1. /\ task' \in [Task -> Records] /\ task'[t] = r /\ \A u \in Task : u # t => task'[u] = task[u]
      /\ SemHeld' /\ TasksFit' /\ \A u \in Task : u # t => (sem = u => sem' = u)
  BY TasksKeep DEF TasksInv
<1>2. /\ content' = new /\ UNCHANGED <<saved, file, savers, written, lost>>
      /\ overlap' = [s \in Store |->
            IF savers[s] # <<>> /\ new[s] # content[s] THEN "now" ELSE overlap[s]]
      /\ snap' = [u \in Task |->
            IF snap[u] = None /\ (\E s \in replaced : u \in Range(savers[s]))
            THEN content[CHOOSE s \in replaced : u \in Range(savers[s])] ELSE snap[u]]
  BY <1>0 DEF SetContent
<1>3. \A s \in replaced : s \in Store /\ s = "desc"
  BY DeviceStoreAssumption
<1>4. ASSUME NEW u \in Task
      PROVE  \/ snap'[u] = snap[u]
             \/ u \in Range(savers["desc"]) /\ "desc" \in Store /\ snap'[u] = content["desc"]
  <2>1. CASE snap[u] = None /\ (\E s \in replaced : u \in Range(savers[s]))
    <3> DEFINE c == CHOOSE s \in replaced : u \in Range(savers[s])
    <3>1. c \in replaced /\ u \in Range(savers[c])
      BY <2>1
    <3>2. snap'[u] = content[c]
      BY <1>2, <2>1
    <3> HIDE DEF c
    <3>3. c = "desc" /\ c \in Store
      BY <1>3, <3>1
    <3> QED  BY <3>1, <3>2, <3>3
  <2>2. CASE ~(snap[u] = None /\ (\E s \in replaced : u \in Range(savers[s])))
    BY <1>2, <2>2
  <2> QED  BY <2>1, <2>2
<1>5. Typed'
  <2>1. overlap' \in [Store -> {"no", "stale", "now"}]
    BY <1>2 DEF TasksInv, Typed
  <2>2. \A u \in Task : snap'[u] \in (SUBSET Item) \cup {None}
    BY <1>4 DEF TasksInv, Typed
  <2>3. snap' \in [Task -> (SUBSET Item) \cup {None}]
    BY <1>2, <2>2
  <2> QED  BY <1>1, <1>2, <2>1, <2>3 DEF TasksInv, Typed, ContentSet
<1>6. SaversFit'
  BY <1>1, <1>2, SaversKeep DEF TasksInv
<1>7. FilesFit'
  <2> SUFFICES ASSUME NEW s \in Store
               PROVE  /\ overlap'[s] # "now" => /\ written[s] => file[s] = new[s]
                                                /\ \A u \in Range(savers[s]) : snap'[u] \in {None, new[s]}
                      /\ up /\ overlap'[s] = "no" /\ ~written[s] => file[s] = saved[s]
    BY <1>2 DEF FilesFit
  <2>1. Range(savers[s]) \subseteq Task
    BY RangeOfSeq DEF TasksInv, Typed
  <2>2. overlap'[s] # "now" => overlap'[s] = overlap[s] /\ (savers[s] # <<>> => new[s] = content[s])
    BY <1>2
  <2>3. overlap[s] = "now" => overlap'[s] = "now"
    BY <1>2
  <2>4. ASSUME overlap'[s] # "now", written[s] PROVE file[s] = new[s]
    BY <2>2, <2>4 DEF TasksInv, FilesFit, SaversFit
  <2>5. ASSUME overlap'[s] # "now", NEW u \in Range(savers[s]) PROVE snap'[u] \in {None, new[s]}
    <3>1. savers[s] # <<>>
      BY <2>5, RangeEmpty
    <3>2. new[s] = content[s] /\ snap[u] \in {None, content[s]} /\ u \in Task
      BY <2>1, <2>2, <2>5, <3>1 DEF TasksInv, FilesFit
    <3>3. u \in Range(savers["desc"]) /\ "desc" \in Store => s = "desc"
      BY <2>5 DEF TasksInv, SaversFit
    <3> QED  BY <1>4, <3>2, <3>3
  <2>6. up /\ overlap'[s] = "no" /\ ~written[s] => file[s] = saved[s]
    BY <2>2 DEF TasksInv, FilesFit
  <2> QED  BY <2>4, <2>5, <2>6
<1>8. Covered'
  <2>1. \A s \in Store : new[s] = content[s] => content'[s] = content[s] /\ overlap'[s] = overlap[s]
    BY <1>2
  <2> QED  BY <1>1, <1>2, <2>1, CoveredKeeps DEF TasksInv
<1> QED  BY <1>1, <1>5, <1>6, <1>7, <1>8 DEF TasksInv

-----------------------------------------------------------------------------
(* Saving. *)

LEMMA PlanChanged ==
    ASSUME NEW x \in Records, NEW p \in Seq(Store), Fits(x), x.pc = "save", Len(p) <= 3
    PROVE  LET r == [x EXCEPT !.plan = p]
           IN  /\ r \in Records /\ r.plan = p /\ r.pc = "save" /\ r.op = x.op /\ r.ok = x.ok /\ Fits(r)
<1> DEFINE r == [x EXCEPT !.plan = p]
<1>1. r \in Records /\ r.plan = p /\ r.pc = "save" /\ r.op = x.op /\ r.ok = x.ok
  BY DEF Records
<1> HIDE DEF r
<1>2. Fits(r)
  BY <1>1 DEF Fits
<1> QED  BY <1>1, <1>2 DEF r

LEMMA BeginSaveKeeps == ASSUME TasksInv, NEW t \in Task, BeginSave(t) PROVE TasksInv'
<1> DEFINE x == task[t]
           due == Due(x.plan)
           r == [x EXCEPT !.plan = due]
           s0 == Head(due)
<1>1. /\ x.pc = "save" /\ ~Saving(t) /\ due # <<>> /\ SaveStart(t, s0)
      /\ task' = [task EXCEPT ![t] = r] /\ UNCHANGED <<paired, up, known, sem>>
  BY DEF BeginSave, Goto
<1>2. x \in Records /\ x.plan \in Seq(Store) /\ Fits(x) /\ Len(x.plan) <= 3
  BY DEF TasksInv, Typed, TasksFit, Records, Fits
<1>3. /\ due \in Seq(Store) /\ Len(due) <= 3
      /\ \A s \in Range(x.plan) : HasUnsavedChanges(s) => s \in Range(due)
  BY <1>2, DueFits
<1>4. r \in Records /\ r.plan = due /\ r.pc = "save" /\ r.op = x.op /\ r.ok = x.ok /\ Fits(r)
  BY <1>1, <1>2, <1>3, PlanChanged
<1>5. s0 \in Store
  BY <1>1, <1>3
<1> HIDE DEF r, due
<1>6. /\ task' \in [Task -> Records] /\ task'[t] = r /\ \A u \in Task : u # t => task'[u] = task[u]
      /\ SemHeld' /\ TasksFit'
  BY <1>1, <1>4, TasksKeep DEF TasksInv, Held
<1>7. /\ savers' = [savers EXCEPT ![s0] = Append(savers[s0], t)] /\ snap' = [snap EXCEPT ![t] = None]
      /\ UNCHANGED <<content, saved, file, written, overlap, lost>>
  BY <1>1 DEF SaveStart
<1>8. /\ savers[s0] \in Seq(Task) /\ t \notin Range(savers[s0]) /\ IsInjective(savers[s0])
  BY <1>1, <1>5 DEF TasksInv, Typed, Saving, SaversFit
<1>9. /\ savers'[s0] \in Seq(Task) /\ savers'[s0] # <<>> /\ Range(savers'[s0]) = Range(savers[s0]) \cup {t}
      /\ IsInjective(savers'[s0]) /\ \A s \in Store : s # s0 => savers'[s] = savers[s]
  <2>1. savers'[s0] = Append(savers[s0], t) /\ \A s \in Store : s # s0 => savers'[s] = savers[s]
    BY <1>5, <1>7 DEF TasksInv, Typed
  <2> QED  BY <1>8, <2>1, RangeAppend
<1> HIDE DEF s0
<1>10. savers' \in [Store -> Seq(Task)] /\ snap' \in [Task -> (SUBSET Item) \cup {None}]
  BY <1>5, <1>7, <1>9 DEF TasksInv, Typed
<1>11. Typed'
  BY <1>1, <1>6, <1>7, <1>10 DEF TasksInv, Typed
<1>12. \A s \in Store : /\ Range(savers[s]) \subseteq Task /\ t \notin Range(savers[s])
                        /\ \A u \in Range(savers'[s]) : u \in Range(savers[s]) \/ (u = t /\ s = s0)
  <2>1. \A s \in Store : Range(savers[s]) \subseteq Task
    BY RangeOfSeq DEF TasksInv, Typed
  <2> QED  BY <1>1, <1>9, <2>1 DEF Saving
<1>13. SaversFit'
  <2>1. ASSUME NEW s \in Store, NEW u \in Range(savers'[s])
        PROVE  task'[u].pc = "save" /\ task'[u].plan # <<>> /\ Head(task'[u].plan) = s
    <3>1. CASE u \in Range(savers[s])
      BY <1>6, <1>12, <3>1 DEF TasksInv, SaversFit
    <3>2. CASE u = t /\ s = s0
      BY <1>1, <1>4, <1>6, <3>2 DEF s0
    <3> QED  BY <1>12, <3>1, <3>2
  <2>2. \A s \in Store : IsInjective(savers'[s]) /\ (written'[s] => savers'[s] # <<>>)
    BY <1>7, <1>9 DEF TasksInv, SaversFit
  <2> QED  BY <2>1, <2>2 DEF SaversFit
<1>14. FilesFit'
  <2>1. snap'[t] = None /\ \A u \in Task : u # t => snap'[u] = snap[u]
    BY <1>7 DEF TasksInv, Typed
  <2> QED  BY <1>1, <1>7, <1>12, <2>1 DEF TasksInv, FilesFit
<1>15. Covered'
  <2>1. \A s \in Store : HasUnsavedChanges(s) /\ Saves(x, sem = t, s) => Saves(r, sem' = t, s)
    BY <1>1, <1>3, <1>4 DEF Saves
  <2>2. \A u \in Task : u # t => task'[u] = task[u] /\ (sem = u => sem' = u)
    BY <1>1, <1>6
  <2> QED  BY <1>1, <1>6, <1>7, <2>1, <2>2, CoveredKeeps DEF TasksInv
<1> QED  BY <1>6, <1>11, <1>13, <1>14, <1>15 DEF TasksInv

LEMMA WriteKeeps == ASSUME TasksInv, NEW t \in Task, NEW s0 \in Store, Write(t, s0) PROVE TasksInv'
<1>1. /\ savers[s0] # <<>> /\ Head(savers[s0]) = t /\ ~written[s0]
      /\ file' = [file EXCEPT ![s0] = IF snap[t] = None THEN content[s0] ELSE snap[t]]
      /\ written' = [written EXCEPT ![s0] = TRUE]
      /\ UNCHANGED <<content, saved, savers, snap, overlap, lost, paired, up, known, sem, task>>
  BY DEF Write, WriteFile, coordVars
<1>2. t \in Range(savers[s0])
  <2>1. savers[s0] \in Seq(Task)
    BY DEF TasksInv, Typed
  <2> QED  BY <1>1, <2>1, RangeTail
<1>3. /\ file'[s0] = (IF snap[t] = None THEN content[s0] ELSE snap[t]) /\ written'[s0]
      /\ \A s \in Store : s # s0 => file'[s] = file[s] /\ written'[s] = written[s]
  BY <1>1 DEF TasksInv, Typed
<1>4. Typed'
  <2>1. content[s0] \in SUBSET Item /\ snap[t] \in (SUBSET Item) \cup {None}
    BY DEF TasksInv, Typed
  <2>2. file' \in [Store -> (SUBSET Item) \cup {None}] /\ written' \in [Store -> BOOLEAN]
    BY <1>1, <2>1 DEF TasksInv, Typed
  <2> QED  BY <1>1, <2>2 DEF TasksInv, Typed
<1>5. SemHeld' /\ TasksFit' /\ Covered'
  BY <1>1 DEF TasksInv, SemHeld, TasksFit, Covered, HasUnsavedChanges, Blank
<1>6. SaversFit'
  BY <1>1, <1>3 DEF TasksInv, SaversFit
<1>7. FilesFit'
  <2>1. overlap[s0] # "now" => file'[s0] = content[s0]
    BY <1>2, <1>3 DEF TasksInv, FilesFit
  <2> QED  BY <1>1, <1>3, <2>1 DEF TasksInv, FilesFit
<1> QED  BY <1>4, <1>5, <1>6, <1>7 DEF TasksInv

LEMMA EndSaveKeeps == ASSUME TasksInv, NEW t \in Task, NEW s0 \in Store, EndSave(t, s0) PROVE TasksInv'
<1> DEFINE x == task[t]
           r == [x EXCEPT !.plan = Tail(x.plan)]
<1>1. /\ savers[s0] # <<>> /\ Head(savers[s0]) = t /\ task' = [task EXCEPT ![t] = r]
      /\ savers' = [savers EXCEPT ![s0] = Tail(savers[s0])]
      /\ UNCHANGED <<content, file, snap, paired, up, known, sem>>
      /\ \/ /\ written[s0] /\ saved' = [saved EXCEPT ![s0] = content[s0]]
            /\ written' = [written EXCEPT ![s0] = FALSE]
            /\ overlap' = [overlap EXCEPT ![s0] = OverlapAfter(s0, TRUE)]
            /\ lost' = [lost EXCEPT ![s0] = FALSE]
         \/ /\ ~written[s0] /\ UNCHANGED <<saved, written>>
            /\ overlap' = [overlap EXCEPT ![s0] = OverlapAfter(s0, FALSE)]
            /\ lost' = [lost EXCEPT ![s0] = TRUE]
  BY DEF EndSave, SaveDone, SaveFails, Goto
<1>2. savers[s0] \in Seq(Task) /\ IsInjective(savers[s0])
  BY DEF TasksInv, Typed, SaversFit
<1>3. /\ Tail(savers[s0]) \in Seq(Task) /\ IsInjective(Tail(savers[s0])) /\ t \notin Range(Tail(savers[s0]))
      /\ t \in Range(savers[s0]) /\ Range(savers[s0]) = {t} \cup Range(Tail(savers[s0]))
  BY <1>1, <1>2, RangeTail
<1>4. x.pc = "save" /\ x.plan # <<>> /\ Head(x.plan) = s0
  BY <1>3 DEF TasksInv, SaversFit
<1>5. x \in Records /\ x.plan \in Seq(Store) /\ Fits(x) /\ Len(x.plan) <= 3
  BY DEF TasksInv, Typed, TasksFit, Records, Fits
<1>6. /\ Tail(x.plan) \in Seq(Store) /\ Len(Tail(x.plan)) <= 3
      /\ Range(x.plan) = {s0} \cup Range(Tail(x.plan))
  <2>1. /\ Tail(x.plan) \in Seq(Store) /\ Len(Tail(x.plan)) = Len(x.plan) - 1
        /\ Range(x.plan) = {s0} \cup Range(Tail(x.plan))
    BY <1>4, <1>5, RangeTail
  <2>2. Len(x.plan) \in Nat
    BY <1>5
  <2> QED  BY <1>5, <2>1, <2>2
<1>7. r \in Records /\ r.plan = Tail(x.plan) /\ r.pc = "save" /\ r.op = x.op /\ r.ok = x.ok /\ Fits(r)
  BY <1>4, <1>5, <1>6, PlanChanged
<1> HIDE DEF r
<1>8. /\ task' \in [Task -> Records] /\ task'[t] = r /\ \A u \in Task : u # t => task'[u] = task[u]
      /\ SemHeld' /\ TasksFit'
  BY <1>1, <1>7, TasksKeep DEF TasksInv, Held
<1>9. /\ savers'[s0] = Tail(savers[s0])
      /\ \A s \in Store : s # s0 => /\ savers'[s] = savers[s] /\ saved'[s] = saved[s]
                                    /\ written'[s] = written[s] /\ overlap'[s] = overlap[s]
                                    /\ lost'[s] = lost[s]
      /\ ~written'[s0]
  BY <1>1 DEF TasksInv, Typed
<1>10. /\ \/ overlap'[s0] = OverlapAfter(s0, TRUE) /\ saved'[s0] = content[s0] /\ written[s0]
          \/ overlap'[s0] = OverlapAfter(s0, FALSE) /\ saved'[s0] = saved[s0] /\ ~written[s0] /\ lost'[s0]
  BY <1>1 DEF TasksInv, Typed
<1>11. Typed'
  <2>1. OverlapAfter(s0, TRUE) \in {"no", "stale", "now"} /\ OverlapAfter(s0, FALSE) \in {"no", "stale", "now"}
    BY DEF OverlapAfter, TasksInv, Typed
  <2>2. savers' \in [Store -> Seq(Task)]
    BY <1>1, <1>3 DEF TasksInv, Typed
  <2>3. written' \in [Store -> BOOLEAN] /\ lost' \in [Store -> BOOLEAN]
    BY <1>1 DEF TasksInv, Typed
  <2>4. overlap' \in [Store -> {"no", "stale", "now"}]
    BY <1>1, <2>1 DEF TasksInv, Typed
  <2>5. saved' \in [Store -> (SUBSET Item) \cup {None}]
    <3>1. content[s0] \in SUBSET Item
      BY DEF TasksInv, Typed
    <3> QED  BY <1>1, <3>1 DEF TasksInv, Typed
  <2> QED  BY <1>1, <1>8, <2>2, <2>3, <2>4, <2>5 DEF TasksInv, Typed
<1>12. \A s \in Store : /\ Range(savers[s]) \subseteq Task /\ Range(savers'[s]) \subseteq Range(savers[s])
                        /\ t \notin Range(savers'[s])
  <2>1. \A s \in Store : Range(savers[s]) \subseteq Task
    BY RangeOfSeq DEF TasksInv, Typed
  <2>2. \A s \in Store : s # s0 => t \notin Range(savers[s])
    BY <1>4 DEF TasksInv, SaversFit
  <2> QED  BY <1>3, <1>9, <2>1, <2>2
<1>13. SaversFit'
  <2>1. \A s \in Store : \A u \in Range(savers'[s]) :
            task'[u].pc = "save" /\ task'[u].plan # <<>> /\ Head(task'[u].plan) = s
    BY <1>8, <1>12 DEF TasksInv, SaversFit
  <2>2. \A s \in Store : IsInjective(savers'[s]) /\ (written'[s] => savers'[s] # <<>>)
    BY <1>3, <1>9 DEF TasksInv, SaversFit
  <2> QED  BY <2>1, <2>2 DEF SaversFit
<1>14. FilesFit'
  <2>1. ASSUME overlap'[s0] # "now", NEW u \in Range(savers'[s0]) PROVE snap[u] \in {None, content[s0]}
    <3>1. overlap[s0] = "now" => ~(Len(savers[s0]) > 1)
      BY <1>10, <2>1 DEF OverlapAfter
    <3>2. ASSUME ~(Len(savers[s0]) > 1) PROVE FALSE
      <4>1. Len(savers[s0]) \in Nat /\ Len(Tail(savers[s0])) = Len(savers[s0]) - 1
        BY <1>1, <1>2, RangeTail
      <4> DEFINE q == Tail(savers[s0])
                 n == Len(savers[s0])
      <4>2. q \in Seq(Task) /\ Len(q) \in Nat /\ n \in Nat /\ Len(q) = n - 1 /\ ~(n > 1)
        BY <1>3, <3>2, <4>1, LenProperties
      <4> HIDE DEF q, n
      <4>3. Len(q) = 0
        BY <4>2
      <4>4. q = <<>>
        BY <4>2, <4>3, EmptySeq
      <4> QED  BY <1>9, <2>1, <4>4, RangeEmpty DEF q
    <3> QED  BY <1>12, <2>1, <3>1, <3>2 DEF TasksInv, FilesFit
  <2>2. ASSUME up, overlap'[s0] = "no" PROVE file[s0] = saved'[s0]
    <3>1. overlap[s0] # "now" /\ (overlap[s0] = "no" \/ (saved'[s0] = content[s0] /\ written[s0]))
      BY <1>10, <2>2 DEF OverlapAfter
    <3> QED  BY <1>10, <2>2, <3>1 DEF TasksInv, FilesFit
  <2> QED  BY <1>1, <1>9, <2>1, <2>2 DEF TasksInv, FilesFit
<1>15. Covered'
  <2>1. \A s \in Store : s # s0 /\ Saves(x, sem = t, s) => Saves(r, sem' = t, s)
    BY <1>1, <1>4, <1>6, <1>7 DEF Saves
  <2>2. \A u \in Task : u # t => task'[u] = task[u] /\ (sem = u => sem' = u)
    BY <1>1, <1>8
  <2>3. saved'[s0] = content'[s0] \/ lost'[s0]
    BY <1>1, <1>10
  <2> QED  BY <1>1, <1>8, <1>9, <2>1, <2>2, <2>3, CoveredKeeps DEF TasksInv
<1> QED  BY <1>8, <1>11, <1>13, <1>14, <1>15 DEF TasksInv

-----------------------------------------------------------------------------
(* The life of the process. *)

LEMMA IdleFits == Idle \in Records /\ Fits(Idle) /\ Idle.pc = "idle" /\ Idle.plan = <<>>
<1>1. Idle \in Records /\ Idle.pc = "idle" /\ Idle.plan = <<>>
  BY DEF Idle, Records, PCs, Ops
<1> QED  BY <1>1 DEF Fits

\* Nobody saves for an idle central.
LEMMA NoSavers ==
    ASSUME Typed, SaversFit, \A t \in Task : task[t] = Idle
    PROVE  \A s \in Store : savers[s] = <<>> /\ Range(savers[s]) = {} /\ ~written[s]
<1> SUFFICES ASSUME NEW s \in Store PROVE savers[s] = <<>> /\ Range(savers[s]) = {} /\ ~written[s]
  OBVIOUS
<1>1. savers[s] \in Seq(Task) /\ Range(savers[s]) \subseteq Task
  BY RangeOfSeq DEF Typed
<1>2. Range(savers[s]) = {}
  BY <1>1, IdleFits DEF SaversFit
<1>3. savers[s] = <<>>
  <2> SUFFICES ASSUME savers[s] # <<>> PROVE FALSE
    OBVIOUS
  <2>1. Head(savers[s]) \in Range(savers[s])
    BY <1>1, RangeTail
  <2> QED  BY <1>2, <2>1
<1> QED  BY <1>2, <1>3 DEF SaversFit

LEMMA DInvInit == Init => DInv
<1> SUFFICES ASSUME Init PROVE DInv
  OBVIOUS
<1>1. /\ task = [t \in Task |-> Idle] /\ registry = [d \in Device |-> None] /\ up = FALSE
      /\ known = {} /\ paired = {} /\ content = [s \in Store |-> {}] /\ saved = [s \in Store |-> None]
      /\ file = [s \in Store |-> None] /\ savers = [s \in Store |-> <<>>]
      /\ written = [s \in Store |-> FALSE] /\ lost = [s \in Store |-> FALSE]
      /\ snap = [t \in Task |-> None] /\ overlap = [s \in Store |-> "no"]
  BY DEF Init, CacheInit
<1>2. Typed
  <2>1. task \in [Task -> Records]
    BY <1>1, IdleFits
  <2>2. savers \in [Store -> Seq(Task)]
    BY <1>1
  <2> QED  BY <1>1, <2>1, <2>2 DEF Typed
<1>3. SemHeld /\ TasksFit
  BY <1>1, IdleFits DEF SemHeld, TasksFit, Held
<1>4. SaversFit /\ FilesFit /\ Covered
  BY <1>1, RangeEmpty DEF SaversFit, FilesFit, Covered
<1>5. RegistryFits /\ RegistryDescribed
  BY <1>1 DEF RegistryFits, RegistryDescribed
<1> QED  BY <1>2, <1>3, <1>4, <1>5 DEF DInv, TasksInv, RegistryInv

LEMMA CrashKeeps == ASSUME DInv, Crash PROVE DInv'
<1>1. /\ task' = [t \in Task |-> Idle] /\ registry' = [d \in Device |-> None] /\ up' = FALSE
      /\ known' = {} /\ content' = [s \in Store |-> {}] /\ saved' = [s \in Store |-> None]
      /\ savers' = [s \in Store |-> <<>>]
      /\ written' = [s \in Store |-> FALSE] /\ lost' = [s \in Store |-> FALSE]
      /\ snap' = [t \in Task |-> None] /\ overlap' = [s \in Store |-> "no"]
      /\ UNCHANGED <<file, paired>>
  BY DEF Crash, CacheCrash
<1>2. Typed'
  <2>1. task' \in [Task -> Records]
    BY <1>1, IdleFits
  <2>2. savers' \in [Store -> Seq(Task)]
    BY <1>1
  <2> QED  BY <1>1, <2>1, <2>2 DEF DInv, TasksInv, Typed
<1>3. SemHeld' /\ TasksFit'
  BY <1>1, IdleFits DEF SemHeld, TasksFit, Held
<1>4. SaversFit' /\ FilesFit' /\ Covered'
  BY <1>1, RangeEmpty DEF SaversFit, FilesFit, Covered
<1>5. RegistryFits' /\ RegistryDescribed'
  BY <1>1 DEF RegistryFits, RegistryDescribed
<1> QED  BY <1>2, <1>3, <1>4, <1>5 DEF DInv, TasksInv, RegistryInv

LEMMA StartKeeps == ASSUME DInv, NEW t \in Task, Start(t) PROVE DInv'
<1> DEFINE r == [Idle EXCEPT !.pc = "wait", !.op = "startup"]
<1>1. /\ ~up /\ up' = TRUE /\ (LoadAll \/ LoadFails) /\ known' = {a[1] : a \in content'["desc"]}
      /\ task' = [task EXCEPT ![t] = r] /\ UNCHANGED <<paired, registry, sem>>
  BY DEF Start, Goto
<1>2. /\ UNCHANGED <<savers, written, snap, overlap, lost>>
      /\ \A s \in Store : file'[s] = saved'[s] /\ content'[s] = IF file'[s] = None THEN {} ELSE file'[s]
      /\ content' \in [Store -> SUBSET Item] /\ saved' \in [Store -> (SUBSET Item) \cup {None}]
      /\ file' \in [Store -> (SUBSET Item) \cup {None}]
  <2>1. CASE LoadAll
    <3>1. /\ content' = [s \in Store |-> IF file[s] = None THEN {} ELSE file[s]]
          /\ saved' = file /\ UNCHANGED <<file, savers, written, snap, overlap, lost>>
      BY <2>1 DEF LoadAll
    <3>2. file \in [Store -> (SUBSET Item) \cup {None}]
      BY DEF DInv, TasksInv, Typed
    <3> QED  BY <3>1, <3>2
  <2>2. CASE LoadFails
    BY <2>2 DEF LoadFails
  <2> QED  BY <1>1, <2>1, <2>2
<1>3. r \in Records /\ r.pc = "wait" /\ r.op = "startup" /\ r.plan = <<>>
  <2>1. ASSUME NEW x \in Records
        PROVE  LET y == [x EXCEPT !.pc = "wait", !.op = "startup"]
               IN  y \in Records /\ y.pc = "wait" /\ y.op = "startup" /\ y.plan = x.plan
    BY DEF Records, PCs, Ops
  <2> QED  BY <2>1, IdleFits
<1>4. Fits(r)
  BY <1>3 DEF Fits
<1> HIDE DEF r
<1>5. /\ \A u \in Task : task[u] = Idle
      /\ \A d \in Device : registry[d] = None
  BY <1>1 DEF DInv, RegistryInv, RegistryFits
<1>6. \A s \in Store : savers[s] = <<>> /\ Range(savers[s]) = {} /\ ~written[s]
  BY <1>5, NoSavers DEF DInv, TasksInv
<1>7. task' \in [Task -> Records] /\ SemHeld' /\ TasksFit'
  BY <1>1, <1>3, <1>4, TasksKeep DEF DInv, TasksInv, Held
<1>8. known' \subseteq Device
  <2>1. content'["desc"] \subseteq Device \X ({0} \cup Channel)
    BY <1>2, DeviceStoreAssumption
  <2> QED  BY <1>1, <2>1
<1>9. Typed'
  BY <1>1, <1>2, <1>7, <1>8 DEF DInv, TasksInv, Typed
<1>10. SaversFit' /\ FilesFit'
  BY <1>2, <1>6, RangeEmpty DEF SaversFit, FilesFit
<1>11. Covered'
  BY <1>2 DEF Covered, HasUnsavedChanges, Blank
<1>12. RegistryFits' /\ RegistryDescribed'
  BY <1>1, <1>5 DEF DInv, RegistryInv, RegistryFits, RegistryDescribed
<1> QED  BY <1>7, <1>9, <1>10, <1>11, <1>12 DEF DInv, TasksInv, RegistryInv

-----------------------------------------------------------------------------
(* The registry of Device objects. *)

Removing == {"publish", "unregister"}

\* Only a running central has tasks under way.
LEMMA BusyIsUp == ASSUME RegistryInv, NEW t \in Task, task[t].pc # "idle" PROVE up
BY IdleFits DEF RegistryInv, RegistryFits

LEMMA RegistryKeeps ==
    ASSUME Typed, RegistryInv, NEW t \in Task, NEW r, task' = [task EXCEPT ![t] = r],
           up, up' = up, UNCHANGED registry,
           \A d \in Device : <<d, 0>> \in content["desc"] =>
               <<d, 0>> \in content'["desc"] \/ (r.pc \in Removing /\ r.dev = d),
           task[t].pc \in Removing => r.pc \in Removing /\ r.dev = task[t].dev
    PROVE  RegistryInv'
<1>1. task'[t] = r /\ \A u \in Task : u # t => task'[u] = task[u]
  BY DEF Typed
<1>2. RegistryFits'
  BY DEF RegistryInv, RegistryFits
<1>3. ASSUME NEW d \in Device, registry[d] # None
      PROVE  \/ <<d, 0>> \in content'["desc"]
             \/ \E u \in Task : task'[u].pc \in Removing /\ task'[u].dev = d
  <2>1. CASE <<d, 0>> \in content["desc"]
    BY <1>1, <2>1
  <2>2. CASE <<d, 0>> \notin content["desc"]
    <3>1. PICK u \in Task : task[u].pc \in Removing /\ task[u].dev = d
      BY <1>3, <2>2 DEF RegistryInv, RegistryDescribed, Removing
    <3>2. task'[u].pc \in Removing /\ task'[u].dev = d
      BY <1>1, <3>1
    <3> QED  BY <3>2
  <2> QED  BY <2>1, <2>2
<1>4. RegistryDescribed'
  BY <1>3 DEF RegistryDescribed, Removing
<1> QED  BY <1>2, <1>4 DEF RegistryInv

\* Objects are created for described devices only.
LEMMA RegistryCreates ==
    ASSUME Typed, RegistryInv, NEW t \in Task, NEW r, task' = [task EXCEPT ![t] = r],
           up, up' = up, UNCHANGED content, NEW ds, registry' = Created(ds),
           task[t].pc \notin Removing
    PROVE  RegistryInv'
<1>1. task'[t] = r /\ \A u \in Task : u # t => task'[u] = task[u]
  BY DEF Typed
<1>2. \A d \in Device :
          \/ registry'[d] = registry[d]
          \/ <<d, 0>> \in content["desc"] /\ registry'[d] = content["desc"] \cap Addresses(d)
  BY DEF Created
<1>3. content["desc"] \in SUBSET Item
  BY DeviceStoreAssumption DEF Typed
<1>4. RegistryFits'
  <2>1. \A d \in Device : registry'[d] \in (SUBSET Item) \cup {None}
                          /\ (registry'[d] # None => registry'[d] \subseteq Addresses(d))
    BY <1>2, <1>3 DEF RegistryInv, RegistryFits
  <2>2. registry' \in [Device -> (SUBSET Item) \cup {None}]
    BY <2>1 DEF Created
  <2> QED  BY <2>1, <2>2 DEF RegistryFits
<1>5. ASSUME NEW d \in Device, registry'[d] # None
      PROVE  \/ <<d, 0>> \in content["desc"]
             \/ \E u \in Task : task'[u].pc \in Removing /\ task'[u].dev = d
  <2> SUFFICES ASSUME <<d, 0>> \notin content["desc"]
               PROVE  \E u \in Task : task'[u].pc \in Removing /\ task'[u].dev = d
    OBVIOUS
  <2>1. registry[d] # None
    BY <1>2, <1>5
  <2>2. PICK u \in Task : task[u].pc \in Removing /\ task[u].dev = d
    BY <2>1 DEF RegistryInv, RegistryDescribed, Removing
  <2>3. u # t
    BY <2>2
  <2>4. task'[u].pc \in Removing /\ task'[u].dev = d
    BY <1>1, <2>2, <2>3
  <2> QED  BY <2>4
<1>6. RegistryDescribed'
  BY <1>5 DEF RegistryDescribed, Removing
<1> QED  BY <1>4, <1>6 DEF RegistryInv

\* A removal ends with the object out of the registry.
LEMMA RegistryRemoves ==
    ASSUME Typed, RegistryInv, NEW t \in Task, NEW r, task' = [task EXCEPT ![t] = r],
           up, up' = up, UNCHANGED content, task[t].dev \in Device,
           registry' = [registry EXCEPT ![task[t].dev] = None]
    PROVE  RegistryInv'
<1>1. task'[t] = r /\ \A u \in Task : u # t => task'[u] = task[u]
  BY DEF Typed
<1>2. /\ registry' \in [Device -> (SUBSET Item) \cup {None}] /\ registry'[task[t].dev] = None
      /\ \A d \in Device : d # task[t].dev => registry'[d] = registry[d]
  BY DEF RegistryInv, RegistryFits
<1>3. RegistryFits'
  BY <1>2 DEF RegistryInv, RegistryFits
<1>4. ASSUME NEW d \in Device, registry'[d] # None
      PROVE  \/ <<d, 0>> \in content["desc"]
             \/ \E u \in Task : task'[u].pc \in Removing /\ task'[u].dev = d
  <2> SUFFICES ASSUME <<d, 0>> \notin content["desc"]
               PROVE  \E u \in Task : task'[u].pc \in Removing /\ task'[u].dev = d
    OBVIOUS
  <2>1. d # task[t].dev /\ registry[d] # None
    BY <1>2, <1>4
  <2>2. PICK u \in Task : task[u].pc \in Removing /\ task[u].dev = d
    BY <2>1 DEF RegistryInv, RegistryDescribed, Removing
  <2>3. u # t
    BY <2>1, <2>2
  <2>4. task'[u].pc \in Removing /\ task'[u].dev = d
    BY <1>1, <2>2, <2>3
  <2> QED  BY <2>4
<1>5. RegistryDescribed'
  BY <1>4 DEF RegistryDescribed, Removing
<1> QED  BY <1>3, <1>5 DEF RegistryInv

-----------------------------------------------------------------------------
(* The steps that leave the caches alone. *)

LEMMA NotSaving == ASSUME TasksInv, NEW t \in Task, task[t].pc # "save" PROVE ~Saving(t)
BY DEF TasksInv, SaversFit, Saving

LEMMA Plans ==
    /\ SaveAll \in Seq(Store) /\ Len(SaveAll) <= 3 /\ Range(SaveAll) = Store
    /\ <<"pars", "desc", "pars">> \in Seq(Store) /\ Len(<<"pars", "desc", "pars">>) <= 3
    /\ Range(<<"pars", "desc", "pars">>) = Store
    /\ <<"pars">> \in Seq(Store) /\ Len(<<"pars">>) <= 3 /\ "pars" \in Range(<<"pars">>)
<1>1. Store = {"desc", "pars"}
  BY DeviceStoreAssumption
<1>2. SaveAll \in Seq(Store) /\ Len(SaveAll) <= 3 /\ Range(SaveAll) = Store
  <2>1. SaveAll \in Seq(Store) /\ Len(SaveAll) = 2 /\ SaveAll[1] = "desc" /\ SaveAll[2] = "pars"
        /\ DOMAIN SaveAll = 1 .. 2
    BY <1>1 DEF SaveAll
  <2>2. \A i \in 1 .. 2 : i = 1 \/ i = 2
    OBVIOUS
  <2>3. SaveAll[1] \in Range(SaveAll) /\ SaveAll[2] \in Range(SaveAll)
    BY <2>1 DEF Range
  <2>4. \A s \in Range(SaveAll) : s \in Store
    BY <1>1, <2>1, <2>2 DEF Range
  <2>5. Range(SaveAll) = Store
    BY <1>1, <2>1, <2>3, <2>4
  <2> QED  BY <2>1, <2>5
<1>3. /\ <<"pars", "desc", "pars">> \in Seq(Store) /\ Len(<<"pars", "desc", "pars">>) <= 3
      /\ Range(<<"pars", "desc", "pars">>) = Store
  <2> DEFINE p == <<"pars", "desc", "pars">>
  <2>1. p \in Seq(Store) /\ Len(p) = 3 /\ p[1] = "pars" /\ p[2] = "desc" /\ p[3] = "pars"
        /\ DOMAIN p = 1 .. 3
    BY <1>1
  <2> HIDE DEF p
  <2>2. \A i \in 1 .. 3 : i = 1 \/ i = 2 \/ i = 3
    OBVIOUS
  <2>3. p[1] \in Range(p) /\ p[2] \in Range(p)
    BY <2>1 DEF Range
  <2>4. \A s \in Range(p) : s \in Store
    BY <1>1, <2>1, <2>2 DEF Range
  <2>5. Range(p) = Store
    BY <1>1, <2>1, <2>3, <2>4
  <2> QED  BY <2>1, <2>5 DEF p
<1>4. <<"pars">> \in Seq(Store) /\ Len(<<"pars">>) <= 3 /\ "pars" \in Range(<<"pars">>)
  BY <1>1 DEF Range
<1> QED  BY <1>2, <1>3, <1>4

LEMMA QuietStep ==
    ASSUME DInv, NEW t \in Task, NEW r \in Records, task' = [task EXCEPT ![t] = r], Fits(r),
           ~Saving(t), sem' = sem \/ sem \in {None, t}, r.pc \in Held => sem' = t, up,
           UNCHANGED <<content, saved, file, savers, written, snap, overlap, up, registry>>,
           lost' \in [Store -> BOOLEAN], \A s \in Store : lost[s] => lost'[s],
           known' \subseteq Device, paired' \subseteq Device,
           task[t].pc \in Removing => r.pc \in Removing /\ r.dev = task[t].dev,
           \A s \in Store : HasUnsavedChanges(s) /\ Saves(task[t], sem = t, s)
                            => lost'[s] \/ Saves(r, sem' = t, s)
    PROVE  DInv'
<1>1. TasksInv'
  BY QuietKeeps DEF DInv
<1>2. RegistryInv'
  BY RegistryKeeps DEF DInv, TasksInv
<1> QED  BY <1>1, <1>2 DEF DInv

\* What the CCU calls finds the task idle.
LEMMA CallStep ==
    ASSUME DInv, NEW t \in Task, NEW r \in Records, task' = [task EXCEPT ![t] = r], Fits(r), Called(t),
           r.pc \notin Held, UNCHANGED <<cacheVars, up, known, registry, sem>>, paired' \subseteq Device
    PROVE  DInv'
<1>1. up /\ task[t] = Idle
  BY DEF Called
<1>2. task[t].pc = "idle" /\ ~Saving(t)
  BY <1>1, IdleFits, NotSaving DEF DInv
<1>3. UNCHANGED <<content, saved, file, savers, written, snap, overlap, lost>>
  BY DEF cacheVars
<1>4. \A s \in Store : ~Saves(task[t], sem = t, s)
  BY <1>2 DEF Saves
<1>5. lost' \in [Store -> BOOLEAN] /\ (\A s \in Store : lost[s] => lost'[s]) /\ known' \subseteq Device
  BY <1>3 DEF DInv, TasksInv, Typed
<1>6. task[t].pc \notin Removing
  BY <1>2 DEF Removing
<1> QED  BY <1>1, <1>2, <1>3, <1>4, <1>5, <1>6, QuietStep

LEMMA AnnounceKeeps ==
    ASSUME DInv, NEW t \in Task, NEW batch \in SUBSET Item, Announce(t, batch) PROVE DInv'
<1> DEFINE r == [Idle EXCEPT !.pc = "wait", !.op = "add", !.batch = batch]
<1>1. /\ Called(t) /\ paired' = paired \cup {a[1] : a \in batch} /\ task' = [task EXCEPT ![t] = r]
      /\ UNCHANGED <<cacheVars, up, known, registry, sem>>
  BY DEF Announce, Goto
<1>2. r \in Records /\ r.pc = "wait" /\ r.op = "add" /\ r.plan = <<>>
  <2>1. ASSUME NEW x \in Records
        PROVE  LET y == [x EXCEPT !.pc = "wait", !.op = "add", !.batch = batch]
               IN  y \in Records /\ y.pc = "wait" /\ y.op = "add" /\ y.plan = x.plan
    BY DEF Records, PCs, Ops
  <2> QED  BY <2>1, IdleFits
<1> HIDE DEF r
<1>3. Fits(r) /\ r.pc \notin Held
  BY <1>2 DEF Fits, Held
<1>4. paired' \subseteq Device
  BY <1>1, DeviceStoreAssumption DEF DInv, TasksInv, Typed
<1> QED  BY <1>1, <1>2, <1>3, <1>4, CallStep

LEMMA RefreshKeeps == ASSUME DInv, NEW t \in Task, Refresh(t) PROVE DInv'
<1> DEFINE r == [Idle EXCEPT !.pc = "list", !.op = "refresh"]
<1>1. /\ Called(t) /\ task' = [task EXCEPT ![t] = r]
      /\ UNCHANGED <<cacheVars, paired, up, known, registry, sem>>
  BY DEF Refresh, Goto
<1>2. r \in Records /\ r.pc = "list" /\ r.op = "refresh" /\ r.plan = <<>>
  <2>1. ASSUME NEW x \in Records
        PROVE  LET y == [x EXCEPT !.pc = "list", !.op = "refresh"]
               IN  y \in Records /\ y.pc = "list" /\ y.op = "refresh" /\ y.plan = x.plan
    BY DEF Records, PCs, Ops
  <2> QED  BY <2>1, IdleFits
<1> HIDE DEF r
<1>3. Fits(r) /\ r.pc \notin Held
  BY <1>2 DEF Fits, Held
<1>4. paired' \subseteq Device
  BY <1>1 DEF DInv, TasksInv, Typed
<1> QED  BY <1>1, <1>2, <1>3, <1>4, CallStep

LEMMA RetractKeeps == ASSUME DInv, NEW t \in Task, NEW d \in Device, Retract(t, d) PROVE DInv'
<1> DEFINE save == [Idle EXCEPT !.pc = "save", !.op = "delete", !.plan = SaveAll]
           publish == [Idle EXCEPT !.pc = "publish", !.op = "delete", !.dev = d, !.had = registry[d]]
<1>1. /\ Called(t) /\ paired' = paired \ {d}
      /\ task' = [task EXCEPT ![t] = IF registry[d] = None THEN save ELSE publish]
      /\ UNCHANGED <<cacheVars, up, known, registry, sem>>
  BY DEF Retract, Goto
<1>2. paired' \subseteq Device
  BY <1>1 DEF DInv, TasksInv, Typed
<1>3. CASE registry[d] = None
  <2>1. save \in Records /\ save.pc = "save" /\ save.plan = SaveAll
    <3>1. ASSUME NEW x \in Records
          PROVE  LET y == [x EXCEPT !.pc = "save", !.op = "delete", !.plan = SaveAll]
                 IN  y \in Records /\ y.pc = "save" /\ y.plan = SaveAll
      BY Plans DEF Records, PCs, Ops
    <3> QED  BY <3>1, IdleFits
  <2>2. task' = [task EXCEPT ![t] = save]
    BY <1>1, <1>3
  <2> HIDE DEF save
  <2>3. Fits(save) /\ save.pc \notin Held
    BY <2>1, Plans DEF Fits, Held
  <2> QED  BY <1>1, <1>2, <2>1, <2>2, <2>3, CallStep
<1>4. CASE registry[d] # None
  <2>1. registry[d] \in SUBSET Item /\ registry[d] \subseteq Addresses(d)
    BY <1>4 DEF DInv, RegistryInv, RegistryFits
  <2>2. /\ publish \in Records /\ publish.pc = "publish" /\ publish.op = "delete" /\ publish.dev = d
        /\ publish.had = registry[d] /\ publish.plan = <<>>
    <3>1. ASSUME NEW x \in Records
          PROVE  LET y == [x EXCEPT !.pc = "publish", !.op = "delete", !.dev = d, !.had = registry[d]]
                 IN  /\ y \in Records /\ y.pc = "publish" /\ y.op = "delete" /\ y.dev = d
                     /\ y.had = registry[d] /\ y.plan = x.plan
      BY <2>1 DEF Records, PCs, Ops
    <3> QED  BY <3>1, IdleFits
  <2>3. task' = [task EXCEPT ![t] = publish]
    BY <1>1, <1>4
  <2> HIDE DEF publish
  <2>4. Fits(publish) /\ publish.pc \notin Held
    BY <2>1, <2>2 DEF Fits, Held
  <2> QED  BY <1>1, <1>2, <2>2, <2>3, <2>4, CallStep
<1> QED  BY <1>3, <1>4

\* A step of a task under way that leaves the caches and the registry alone.
LEMMA OwnStep ==
    ASSUME DInv, NEW t \in Task, NEW r \in Records, task' = [task EXCEPT ![t] = r], Fits(r),
           task[t].pc \notin {"idle"} \cup Removing, ~Saving(t),
           sem' = sem \/ sem \in {None, t}, r.pc \in Held => sem' = t,
           UNCHANGED <<cacheVars, paired, up, known, registry>>,
           \A s \in Store : HasUnsavedChanges(s) /\ Saves(task[t], sem = t, s) => Saves(r, sem' = t, s)
    PROVE  DInv'
<1>1. up
  BY BusyIsUp DEF DInv
<1>2. UNCHANGED <<content, saved, file, savers, written, snap, overlap, lost>>
  BY DEF cacheVars
<1>3. /\ lost' \in [Store -> BOOLEAN] /\ (\A s \in Store : lost[s] => lost'[s])
      /\ known' \subseteq Device /\ paired' \subseteq Device
  BY <1>2 DEF DInv, TasksInv, Typed
<1> QED  BY <1>1, <1>2, <1>3, QuietStep

LEMMA TaskTyped ==
    ASSUME DInv, NEW t \in Task
    PROVE  /\ task[t] \in Records /\ Fits(task[t]) /\ task[t].plan \in Seq(Store) /\ Len(task[t].plan) <= 3
           /\ task[t].batch \in SUBSET Item /\ task[t].had \in SUBSET Item
           /\ task[t].cur \in Item \cup {None} /\ task[t].target \in Device \cup {None}
           /\ task[t].new \in SUBSET Device
BY DEF DInv, TasksInv, Typed, TasksFit, Records, Fits

\* What becomes of the descriptions that were asked for.
LEMMA GotFits ==
    ASSUME DInv, NEW t \in Task, task[t].pc = "list", NEW as \in SUBSET Item
    PROVE  /\ Got(t, as) \in Records /\ Fits(Got(t, as)) /\ Got(t, as).pc \notin Held
           /\ \A s \in Store : Saves(task[t], sem = t, s) => Saves(Got(t, as), sem = t, s)
<1> DEFINE x == task[t]
           r == Got(t, as)
<1>1. x \in Records /\ Fits(x) /\ x.pc = "list" /\ x.op \in {"refresh", "update"} /\ Len(x.plan) <= 3
  BY TaskTyped DEF Fits
<1>2. CASE as # {}
  <2>1. r = [x EXCEPT !.pc = "wait", !.batch = as]
    BY <1>2 DEF Got
  <2>2. r \in Records /\ r.pc = "wait" /\ r.op = x.op /\ r.plan = x.plan
    BY <1>1, <2>1 DEF Records, PCs
  <2> HIDE DEF r
  <2>3. Fits(r) /\ r.pc \notin Held
    BY <1>1, <2>2 DEF Fits, Held
  <2>4. \A s \in Store : Saves(x, sem = t, s) => Saves(r, sem = t, s)
    BY <1>1, <2>2 DEF Saves
  <2> QED  BY <2>2, <2>3, <2>4 DEF r
<1>3. CASE as = {} /\ x.op = "update"
  <2>1. r = [x EXCEPT !.pc = "save", !.plan = SaveAll]
    BY <1>3 DEF Got
  <2>2. r \in Records /\ r.pc = "save" /\ r.plan = SaveAll
    BY <1>1, <2>1, Plans DEF Records, PCs
  <2> HIDE DEF r
  <2>3. Fits(r) /\ r.pc \notin Held
    BY <2>2, Plans DEF Fits, Held
  <2>4. \A s \in Store : Saves(r, sem = t, s)
    BY <2>2, Plans DEF Saves
  <2> QED  BY <2>2, <2>3, <2>4 DEF r
<1>4. CASE as = {} /\ x.op # "update"
  <2>1. r = Idle
    BY <1>4 DEF Got
  <2>2. \A s \in Store : ~Saves(x, sem = t, s)
    BY <1>1, <1>4 DEF Saves
  <2> QED  BY <2>1, <2>2, IdleFits DEF Held
<1> QED  BY <1>2, <1>3, <1>4

LEMMA GotKeeps ==
    ASSUME DInv, NEW t \in Task, GotDescription(t) \/ GotList(t) \/ GotNothing(t) PROVE DInv'
<1>1. /\ task[t].pc = "list" /\ UNCHANGED <<cacheVars, paired, up, known, registry, sem>>
  BY DEF GotDescription, GotList, GotNothing
<1>2. PICK as \in SUBSET Item : task' = [task EXCEPT ![t] = Got(t, as)]
  <2>1. CASE GotDescription(t)
    <3>1. task[t].target \in paired /\ task' = [task EXCEPT ![t] = Got(t, {<<task[t].target, 0>>})]
      BY <2>1 DEF GotDescription, Goto
    <3>2. {<<task[t].target, 0>>} \in SUBSET Item
      BY <3>1, DeviceStoreAssumption DEF DInv, TasksInv, Typed
    <3> QED  BY <3>1, <3>2
  <2>2. CASE GotList(t)
    <3> DEFINE all == UNION {Addresses(d) : d \in paired}
               existing == all \cap content["desc"]
               as == IF task[t].op = "refresh" /\ existing # {} THEN existing ELSE all
    <3>1. task' = [task EXCEPT ![t] = Got(t, as)]
      BY <2>2 DEF GotList, Goto
    <3>2. all \in SUBSET Item
      BY DeviceStoreAssumption DEF DInv, TasksInv, Typed, Addresses
    <3>3. as \in SUBSET Item
      BY <3>2
    <3> HIDE DEF as
    <3> QED  BY <3>1, <3>3
  <2>3. CASE GotNothing(t)
    BY <2>3 DEF GotNothing, Goto
  <2> QED  BY <2>1, <2>2, <2>3
<1>3. /\ Got(t, as) \in Records /\ Fits(Got(t, as)) /\ Got(t, as).pc \notin Held
      /\ \A s \in Store : Saves(task[t], sem = t, s) => Saves(Got(t, as), sem = t, s)
  BY <1>1, GotFits
<1>4. ~Saving(t) /\ task[t].pc \notin {"idle"} \cup Removing
  BY <1>1, NotSaving DEF DInv, Removing
<1> DEFINE r == Got(t, as)
<1>5. /\ r \in Records /\ Fits(r) /\ r.pc \notin Held /\ task' = [task EXCEPT ![t] = r]
      /\ \A s \in Store : Saves(task[t], sem = t, s) => Saves(r, sem' = t, s)
  BY <1>1, <1>2, <1>3
<1> HIDE DEF r
<1> QED  BY <1>1, <1>4, <1>5, OwnStep

LEMMA AcquireToRepairKeeps == ASSUME DInv, NEW t \in Task, AcquireToRepair(t) PROVE DInv'
<1> DEFINE x == task[t]
           missing == MissingParamsets(x.batch)
<1>1. /\ x.pc = "wait" /\ x.op = "add" /\ sem = None
      /\ IF missing = {} THEN task' = [task EXCEPT ![t] = Idle] /\ UNCHANGED sem
         ELSE \E a \in First(missing) :
                 /\ sem' = t
                 /\ task' = [task EXCEPT ![t] = [x EXCEPT !.pc = "fetch", !.op = "repair", !.cur = a,
                                                   !.had = missing, !.batch = missing \ {a}]]
      /\ UNCHANGED <<cacheVars, paired, up, known, registry>>
  BY DEF AcquireToRepair, Goto
<1>2. x \in Records /\ missing \in SUBSET Item /\ Len(x.plan) <= 3
  BY TaskTyped DEF MissingParamsets
<1>3. ~Saving(t) /\ x.pc \notin {"idle"} \cup Removing /\ \A s \in Store : ~Saves(x, sem = t, s)
  BY <1>1, NotSaving DEF DInv, Removing, Saves
<1> HIDE DEF missing
<1>4. CASE missing = {}
  BY <1>1, <1>3, <1>4, IdleFits, OwnStep DEF Held
<1>5. CASE missing # {}
  <2>1. PICK a \in First(missing) :
           /\ sem' = t
           /\ task' = [task EXCEPT ![t] = [x EXCEPT !.pc = "fetch", !.op = "repair", !.cur = a,
                                             !.had = missing, !.batch = missing \ {a}]]
    BY <1>1, <1>5
  <2>2. a \in Item
    BY <1>2 DEF First
  <2> DEFINE r == [x EXCEPT !.pc = "fetch", !.op = "repair", !.cur = a, !.had = missing,
                            !.batch = missing \ {a}]
  <2>3. r \in Records /\ r.pc = "fetch" /\ r.op = "repair" /\ r.cur = a /\ r.plan = x.plan
    BY <1>2, <2>2 DEF Records, PCs, Ops
  <2> HIDE DEF r
  <2>4. Fits(r)
    BY <1>2, <2>2, <2>3 DEF Fits
  <2>5. task' = [task EXCEPT ![t] = r]
    BY <2>1 DEF r
  <2> QED  BY <1>1, <1>3, <2>1, <2>3, <2>4, <2>5, OwnStep
<1> QED  BY <1>4, <1>5

\* When the saves of a task are over, the stores of its plan are saved.
LEMMA PlanSaved ==
    ASSUME DInv, NEW t \in Task, SavesOver(t)
    PROVE  /\ task[t].pc = "save" /\ ~Saving(t) /\ task[t].pc \notin {"idle"} \cup Removing
           /\ \A s \in Store : HasUnsavedChanges(s) => s \notin Range(task[t].plan)
<1>1. task[t].pc = "save" /\ ~Saving(t) /\ Due(task[t].plan) = <<>>
  BY DEF SavesOver
<1>2. \A s \in Range(task[t].plan) : HasUnsavedChanges(s) => s \in Range(<<>>)
  BY <1>1, TaskTyped, DueFits
<1> QED  BY <1>1, <1>2, RangeEmpty DEF Removing

LEMMA LastSaveOverKeeps == ASSUME DInv, NEW t \in Task, LastSaveOver(t) PROVE DInv'
<1>1. /\ SavesOver(t) /\ sem # t /\ task' = [task EXCEPT ![t] = Idle]
      /\ UNCHANGED <<cacheVars, paired, up, known, registry, sem>>
  BY DEF LastSaveOver, Goto
<1>2. \A s \in Store : HasUnsavedChanges(s) => ~Saves(task[t], sem = t, s)
  BY <1>1, PlanSaved DEF Saves
<1> QED  BY <1>1, <1>2, PlanSaved, IdleFits, OwnStep DEF Held

LEMMA AbortRepairKeeps == ASSUME DInv, NEW t \in Task, AbortRepair(t) PROVE DInv'
<1>1. /\ SavesOver(t) /\ sem = t /\ task[t].op = "abort" /\ sem' = None /\ task' = [task EXCEPT ![t] = Idle]
      /\ UNCHANGED <<cacheVars, paired, up, known, registry>>
  BY DEF AbortRepair, Goto
<1>2. \A s \in Store : HasUnsavedChanges(s) => ~Saves(task[t], sem = t, s)
  BY <1>1, PlanSaved DEF Saves
<1> QED  BY <1>1, <1>2, PlanSaved, IdleFits, OwnStep DEF Held

LEMMA CheckRepairedKeeps == ASSUME DInv, NEW t \in Task, CheckRepaired(t) PROVE DInv'
<1> DEFINE x == task[t]
           o == IF MissingParamsets(x.had) = {} THEN "repaired" ELSE "abort"
           r == [x EXCEPT !.plan = <<"pars">>, !.had = {}, !.ok = TRUE, !.op = o]
<1>1. /\ SavesOver(t) /\ sem = t /\ x.op = "repair" /\ task' = [task EXCEPT ![t] = r]
      /\ UNCHANGED <<cacheVars, paired, up, known, registry, sem>>
  BY DEF CheckRepaired, Goto
<1>2. x.pc = "save" /\ x \in Records
  BY <1>1, PlanSaved, TaskTyped
<1>3. o \in Ops
  BY DEF Ops
<1> HIDE DEF o
<1>4. r \in Records /\ r.pc = "save" /\ r.plan = <<"pars">>
  BY <1>2, <1>3, Plans DEF Records
<1> HIDE DEF r
<1>5. Fits(r) /\ r.pc \notin Held
  BY <1>4, Plans DEF Fits, Held
<1>6. \A s \in Store : HasUnsavedChanges(s) => ~Saves(x, sem = t, s)
  BY <1>1, PlanSaved DEF Saves
<1> QED  BY <1>1, <1>4, <1>5, <1>6, PlanSaved, OwnStep

LEMMA ReleasedFits ==
    ASSUME NEW t \in Task
    PROVE  Released(t) \in Records /\ Fits(Released(t)) /\ Released(t).pc \notin Held
<1> DEFINE r == [Idle EXCEPT !.pc = "save", !.op = "update", !.ok = TRUE, !.plan = SaveAll]
<1>1. r \in Records /\ r.pc = "save" /\ r.plan = SaveAll
  <2>1. ASSUME NEW x \in Records
        PROVE  LET y == [x EXCEPT !.pc = "save", !.op = "update", !.ok = TRUE, !.plan = SaveAll]
               IN  y \in Records /\ y.pc = "save" /\ y.plan = SaveAll
    BY Plans DEF Records, PCs, Ops
  <2> QED  BY <2>1, IdleFits
<1>2. Released(t) = r \/ Released(t) = Idle
  BY DEF Released
<1> HIDE DEF r
<1>3. Fits(r) /\ r.pc \notin Held
  BY <1>1, Plans DEF Fits, Held
<1> QED  BY <1>1, <1>2, <1>3, IdleFits DEF Held

LEMMA FinishKeeps == ASSUME DInv, NEW t \in Task, Finish(t) PROVE DInv'
<1> DEFINE r == Released(t)
<1>1. /\ task[t].pc = "finish" /\ sem' = None /\ task' = [task EXCEPT ![t] = r]
      /\ UNCHANGED <<cacheVars, paired, up, known, registry>>
  BY DEF Finish, Goto
<1>2. sem = t /\ ~Saving(t) /\ task[t].pc \notin {"idle"} \cup Removing
  BY <1>1, NotSaving DEF DInv, TasksInv, SemHeld, Held, Removing
<1>3. \A s \in Store : ~Saves(task[t], sem = t, s)
  BY <1>1 DEF Saves
<1>4. r \in Records /\ Fits(r) /\ r.pc \notin Held
  BY ReleasedFits
<1> HIDE DEF r
<1> QED  BY <1>1, <1>2, <1>3, <1>4, OwnStep

LEMMA CheckForNewKeeps == ASSUME DInv, NEW t \in Task, CheckForNew(t) PROVE DInv'
<1> DEFINE x == task[t]
           load == [x EXCEPT !.pc = "load", !.new = NewDevices, !.plan = <<>>]
<1>1. /\ SavesOver(t) /\ sem = t /\ x.op \notin {"repair", "abort"}
      /\ IF x.ok THEN UNCHANGED cacheVars ELSE SaveLeftOut(Store)
      /\ IF NewDevices = {} THEN sem' = None /\ task' = [task EXCEPT ![t] = Released(t)]
         ELSE task' = [task EXCEPT ![t] = load] /\ UNCHANGED sem
      /\ UNCHANGED <<paired, up, known, registry>>
  BY DEF CheckForNew, Goto
<1>2. /\ UNCHANGED <<content, saved, file, savers, written, snap, overlap>>
      /\ lost' \in [Store -> BOOLEAN] /\ (\A s \in Store : lost[s] => lost'[s])
      /\ ~x.ok => \A s \in Store : HasUnsavedChanges(s) => lost'[s]
  <2>1. CASE x.ok
    BY <1>1, <2>1 DEF cacheVars, DInv, TasksInv, Typed
  <2>2. CASE ~x.ok
    <3>1. /\ UNCHANGED <<content, saved, file, savers, written, snap, overlap>>
          /\ lost' = [s \in Store |-> lost[s] \/ (s \in Store /\ HasUnsavedChanges(s))]
      BY <1>1, <2>2 DEF SaveLeftOut
    <3> QED  BY <3>1
  <2> QED  BY <2>1, <2>2
<1>3. \A s \in Store : HasUnsavedChanges(s) /\ Saves(x, sem = t, s) => lost'[s]
  BY <1>1, <1>2, PlanSaved DEF Saves
<1>4. /\ up /\ known' \subseteq Device /\ paired' \subseteq Device /\ ~Saving(t)
      /\ x.pc \notin Removing
  BY <1>1, PlanSaved, BusyIsUp DEF DInv, TasksInv, Typed
<1>5. PICK r \in Records : /\ task' = [task EXCEPT ![t] = r] /\ Fits(r)
                           /\ r.pc \in Held => sem' = t
                           /\ sem' = sem \/ sem \in {None, t}
  <2>1. CASE NewDevices = {}
    BY <1>1, <2>1, ReleasedFits
  <2>2. CASE NewDevices # {}
    <3>1. NewDevices \in SUBSET Device
      BY DEF NewDevices, DInv, TasksInv, Typed
    <3>2. load \in Records /\ load.pc = "load" /\ load.plan = <<>>
      <4> DEFINE n == NewDevices
                 e == <<>>
      <4>1. x \in Records /\ n \in SUBSET Device /\ e \in Seq(Store)
        BY <3>1, TaskTyped
      <4> HIDE DEF x, n, e
      <4>2. LET z == [x EXCEPT !.pc = "load", !.new = n, !.plan = e]
            IN  z \in Records /\ z.pc = "load" /\ z.plan = e
        BY <4>1 DEF Records, PCs
      <4> QED  BY <4>2 DEF n, e
    <3>3. task' = [task EXCEPT ![t] = load] /\ sem' = sem
      BY <1>1, <2>2
    <3> HIDE DEF load
    <3>4. Fits(load)
      BY <3>2 DEF Fits
    <3> QED  BY <1>1, <3>2, <3>3, <3>4
  <2> QED  BY <2>1, <2>2
<1> QED  BY <1>1, <1>2, <1>3, <1>4, <1>5, QuietStep

\* The steps that change the registry.
LEMMA RegistryStep ==
    ASSUME DInv, NEW t \in Task, NEW r \in Records, task' = [task EXCEPT ![t] = r], Fits(r),
           task[t].pc # "idle", ~Saving(t),
           sem' = sem \/ sem \in {None, t}, r.pc \in Held => sem' = t,
           UNCHANGED <<cacheVars, paired, up, known>>,
           \A s \in Store : HasUnsavedChanges(s) /\ Saves(task[t], sem = t, s) => Saves(r, sem' = t, s),
           \/ task[t].pc \notin Removing /\ \E ds \in SUBSET Device : registry' = Created(ds)
           \/ task[t].dev \in Device /\ registry' = [registry EXCEPT ![task[t].dev] = None]
    PROVE  DInv'
<1>1. up
  BY BusyIsUp DEF DInv
<1>2. UNCHANGED <<content, saved, file, savers, written, snap, overlap, lost>>
  BY DEF cacheVars
<1>3. /\ lost' \in [Store -> BOOLEAN] /\ (\A s \in Store : lost[s] => lost'[s])
      /\ known' \subseteq Device /\ paired' \subseteq Device
  BY <1>2 DEF DInv, TasksInv, Typed
<1>4. TasksInv'
  BY <1>2, <1>3, QuietKeeps DEF DInv
<1>5. RegistryInv'
  BY <1>1, <1>2, RegistryCreates, RegistryRemoves DEF DInv, TasksInv
<1> QED  BY <1>4, <1>5 DEF DInv

LEMMA CreateKeeps == ASSUME DInv, NEW t \in Task, Create(t) PROVE DInv'
<1> DEFINE x == task[t]
           r == [x EXCEPT !.pc = "finish", !.new = {}]
<1>1. /\ x.pc = "load" /\ registry' = Created(x.new) /\ task' = [task EXCEPT ![t] = r]
      /\ UNCHANGED <<cacheVars, paired, up, known, sem>>
  BY DEF Create, Goto
<1>2. x \in Records /\ x.new \in SUBSET Device /\ Len(x.plan) <= 3
  BY TaskTyped
<1>3. r \in Records /\ r.pc = "finish" /\ r.plan = x.plan
  BY <1>2 DEF Records, PCs
<1> HIDE DEF r
<1>4. Fits(r)
  BY <1>2, <1>3 DEF Fits
<1>5. sem = t /\ ~Saving(t) /\ x.pc \notin {"idle"} \cup Removing
  BY <1>1, NotSaving DEF DInv, TasksInv, SemHeld, Held, Removing
<1>6. \A s \in Store : ~Saves(x, sem = t, s)
  BY <1>1 DEF Saves
<1> QED  BY <1>1, <1>2, <1>3, <1>4, <1>5, <1>6, RegistryStep

LEMMA CreateFromCacheKeeps == ASSUME DInv, NEW t \in Task, CreateFromCache(t) PROVE DInv'
<1> DEFINE x == task[t]
           r == [x EXCEPT !.pc = "finish"]
<1>1. /\ x.pc = "wait" /\ x.op = "startup" /\ sem = None /\ registry' = Created(NewDevices)
      /\ \/ task' = [task EXCEPT ![t] = Idle] /\ UNCHANGED sem
         \/ task' = [task EXCEPT ![t] = r] /\ sem' = t
      /\ UNCHANGED <<cacheVars, paired, up, known>>
  BY DEF CreateFromCache, Goto
<1>2. x \in Records /\ Len(x.plan) <= 3 /\ NewDevices \in SUBSET Device
  BY TaskTyped DEF NewDevices, DInv, TasksInv, Typed
<1>3. r \in Records /\ r.pc = "finish" /\ r.plan = x.plan
  BY <1>2 DEF Records, PCs
<1> HIDE DEF r
<1>4. Fits(r)
  BY <1>2, <1>3 DEF Fits
<1>5. ~Saving(t) /\ x.pc \notin {"idle"} \cup Removing
  BY <1>1, NotSaving DEF DInv, Removing
<1>6. \A s \in Store : ~Saves(x, sem = t, s)
  BY <1>1 DEF Saves
<1>7. CASE task' = [task EXCEPT ![t] = Idle] /\ UNCHANGED sem
  BY <1>1, <1>2, <1>5, <1>6, <1>7, IdleFits, RegistryStep DEF Held
<1>8. CASE task' = [task EXCEPT ![t] = r] /\ sem' = t
  BY <1>1, <1>2, <1>3, <1>4, <1>5, <1>6, <1>8, RegistryStep
<1> QED  BY <1>1, <1>7, <1>8

LEMMA UnregisterKeeps == ASSUME DInv, NEW t \in Task, Unregister(t) PROVE DInv'
<1> DEFINE x == task[t]
           r == AfterRemoval(t)
<1>1. /\ x.pc = "unregister" /\ registry' = [registry EXCEPT ![x.dev] = None]
      /\ task' = [task EXCEPT ![t] = r] /\ UNCHANGED <<cacheVars, paired, up, known, sem>>
  BY DEF Unregister, Goto
<1>2. x \in Records /\ x.op \in {"delete", "update"} /\ x.dev \in Device /\ Len(x.plan) <= 3
  BY <1>1, TaskTyped DEF Fits
<1>3. ~Saving(t)
  BY <1>1, NotSaving DEF DInv
<1>4. r \in Records /\ Fits(r) /\ r.pc \notin Held /\ \A s \in Store : Saves(r, sem' = t, s)
  <2>1. CASE x.op = "delete"
    <3>1. r = [Idle EXCEPT !.pc = "save", !.op = "delete", !.plan = SaveAll]
      BY <2>1 DEF AfterRemoval
    <3>2. ASSUME NEW y \in Records
          PROVE  LET z == [y EXCEPT !.pc = "save", !.op = "delete", !.plan = SaveAll]
                 IN  z \in Records /\ z.pc = "save" /\ z.plan = SaveAll
      BY Plans DEF Records, PCs, Ops
    <3>3. r \in Records /\ r.pc = "save" /\ r.plan = SaveAll
      BY <3>1, <3>2, IdleFits
    <3> HIDE DEF r
    <3> QED  BY <3>3, Plans DEF Fits, Held, Saves
  <2>2. CASE x.op = "update"
    <3>1. r = [x EXCEPT !.pc = "list", !.dev = None]
      BY <2>2 DEF AfterRemoval
    <3>2. r \in Records /\ r.pc = "list" /\ r.op = "update" /\ r.plan = x.plan
      BY <1>2, <2>2, <3>1 DEF Records, PCs
    <3> HIDE DEF r
    <3> QED  BY <1>2, <3>2 DEF Fits, Held, Saves
  <2> QED  BY <1>2, <2>1, <2>2
<1> HIDE DEF r
<1> QED  BY <1>1, <1>2, <1>3, <1>4, RegistryStep

\* A save leaves the registry and the contents alone.
LEMMA SaveSteps ==
    ASSUME DInv, NEW t \in Task, NEW s0 \in Store, BeginSave(t) \/ Write(t, s0) \/ EndSave(t, s0)
    PROVE  DInv'
<1>1. TasksInv'
  BY BeginSaveKeeps, WriteKeeps, EndSaveKeeps DEF DInv
<1>2. CASE Write(t, s0)
  <2>1. UNCHANGED <<content, task, registry, up>>
    BY <1>2 DEF Write, WriteFile, coordVars
  <2>2. RegistryInv'
    BY <2>1 DEF DInv, RegistryInv, RegistryFits, RegistryDescribed
  <2> QED  BY <1>1, <2>2 DEF DInv
<1>3. CASE BeginSave(t) \/ EndSave(t, s0)
  <2>1. UNCHANGED <<content, registry, up>>
    BY <1>3 DEF BeginSave, SaveStart, EndSave, SaveDone, SaveFails
  <2>2. task[t].pc = "save"
    <3>1. CASE BeginSave(t)
      BY <3>1 DEF BeginSave
    <3>2. CASE EndSave(t, s0)
      <4>1. savers[s0] # <<>> /\ Head(savers[s0]) = t /\ savers[s0] \in Seq(Task)
        BY <3>2 DEF EndSave, SaveDone, SaveFails, DInv, TasksInv, Typed
      <4>2. t \in Range(savers[s0])
        BY <4>1, RangeTail
      <4> QED  BY <4>2 DEF DInv, TasksInv, SaversFit
    <3> QED  BY <1>3, <3>1, <3>2
  <2>3. \E r : task' = [task EXCEPT ![t] = r]
    BY <1>3 DEF BeginSave, EndSave, Goto
  <2>4. up /\ task[t].pc \notin Removing
    BY <2>2, BusyIsUp DEF DInv, Removing
  <2>5. RegistryInv'
    BY <2>1, <2>3, <2>4, RegistryKeeps DEF DInv, TasksInv
  <2> QED  BY <1>1, <2>5 DEF DInv
<1> QED  BY <1>2, <1>3

-----------------------------------------------------------------------------
(* The steps that change the contents of the caches. *)

LEMMA ContentStep ==
    ASSUME DInv, NEW t \in Task, NEW r \in Records, task' = [task EXCEPT ![t] = r], Fits(r),
           ~Saving(t), up, sem' = sem \/ sem \in {None, t}, r.pc \in Held => sem' = t,
           ContentSet, UNCHANGED <<up, registry>>, known' \subseteq Device, paired' \subseteq Device,
           \A d \in Device : <<d, 0>> \in content["desc"] =>
               <<d, 0>> \in content'["desc"] \/ (r.pc \in Removing /\ r.dev = d),
           task[t].pc \in Removing => r.pc \in Removing /\ r.dev = task[t].dev,
           \A s \in Store : \/ Saves(r, sem' = t, s)
                            \/ content'[s] = content[s] /\ ~Saves(task[t], sem = t, s)
    PROVE  DInv'
<1>1. TasksInv'
  <2>1. TasksInv /\ UNCHANGED up
    BY DEF DInv
  <2> QED  BY <2>1, ContentKeeps
<1>2. RegistryInv'
  BY RegistryKeeps DEF DInv, TasksInv
<1> QED  BY <1>1, <1>2 DEF DInv

\* A change in place, or of the list of the device descriptions.
LEMMA SetContentFits ==
    ASSUME NEW new \in [Store -> SUBSET Item], NEW replaced \in SUBSET {"desc"}, SetContent(new, replaced)
    PROVE  ContentSet /\ content' = new
BY DEF SetContent, ContentSet

\* remove_device of both registries, of the addresses of one device.
LEMMA RemovalStep ==
    ASSUME DInv, NEW t \in Task, NEW r \in Records, task' = [task EXCEPT ![t] = r], Fits(r),
           ~Saving(t), up, r.pc \in Removing, RemoveFromCaches(r.dev, r.had),
           task[t].pc \in Removing => r.dev = task[t].dev,
           UNCHANGED <<up, registry, sem>>, paired' \subseteq Device
    PROVE  DInv'
<1> DEFINE new == [content EXCEPT !["desc"] = @ \ (r.had \cup {<<r.dev, 0>>}), !["pars"] = @ \ r.had]
<1>1. SetContent(new, {"desc"}) /\ known' = known \ {r.dev}
  BY DEF RemoveFromCaches
<1>2. r.dev \in Device /\ r.had \subseteq Addresses(r.dev)
  BY DEF Fits, Removing
<1>3. content \in [Store -> SUBSET Item] /\ "desc" \in Store /\ "pars" \in Store
  BY DeviceStoreAssumption DEF DInv, TasksInv, Typed
<1>4. new \in [Store -> SUBSET Item] /\ new["desc"] = content["desc"] \ (r.had \cup {<<r.dev, 0>>})
  BY <1>3
<1>5. \A d \in Device : <<d, 0>> \in content["desc"] => <<d, 0>> \in new["desc"] \/ r.dev = d
  <2>1. \A d \in Device : <<d, 0>> \in Addresses(r.dev) => d = r.dev
    BY DEF Addresses
  <2> QED  BY <1>2, <1>4, <2>1
<1> HIDE DEF new
<1>6. known' \subseteq Device
  BY <1>1 DEF DInv, TasksInv, Typed
<1>7. \A s \in Store : Saves(r, sem' = t, s)
  BY DEF Saves, Removing
<1>8. r.pc \notin Held
  BY DEF Removing, Held
<1>9. ContentSet /\ content' = new
  <2>1. {"desc"} \in SUBSET {"desc"}
    OBVIOUS
  <2> QED  BY <1>1, <1>4, <2>1, SetContentFits
<1> QED  BY <1>4, <1>5, <1>6, <1>7, <1>8, <1>9, ContentStep

LEMMA OnDeviceRemovedKeeps == ASSUME DInv, NEW t \in Task, OnDeviceRemoved(t) PROVE DInv'
<1> DEFINE x == task[t]
           r == [x EXCEPT !.pc = "unregister"]
<1>1. /\ x.pc = "publish" /\ RemoveFromCaches(x.dev, x.had) /\ task' = [task EXCEPT ![t] = r]
      /\ UNCHANGED <<paired, up, registry, sem>>
  BY DEF OnDeviceRemoved, Goto
<1>2. x \in Records /\ Fits(x) /\ Len(x.plan) <= 3
  BY TaskTyped
<1>3. /\ r \in Records /\ r.pc = "unregister" /\ r.dev = x.dev /\ r.had = x.had /\ r.op = x.op
      /\ r.plan = x.plan
  BY <1>2 DEF Records, PCs
<1> HIDE DEF r
<1>4. Fits(r) /\ r.pc \in Removing
  BY <1>1, <1>2, <1>3 DEF Fits, Removing
<1>5. up /\ ~Saving(t) /\ paired' \subseteq Device
  BY <1>1, BusyIsUp, NotSaving DEF DInv, TasksInv, Typed
<1>6. RemoveFromCaches(r.dev, r.had)
  BY <1>1, <1>3
<1> QED  BY <1>1, <1>3, <1>4, <1>5, <1>6, RemovalStep

LEMMA UpdateKeeps ==
    ASSUME DInv, NEW t \in Task, NEW old \in Device, NEW new \in Device, Update(t, old, new) PROVE DInv'
<1> DEFINE list == [Idle EXCEPT !.pc = "list", !.op = "update", !.target = new]
           publish == [Idle EXCEPT !.pc = "publish", !.op = "update", !.dev = old,
                                   !.target = new, !.had = registry[old]]
<1>1. /\ Called(t) /\ paired' = (paired \ {old}) \cup {new}
      /\ IF registry[old] = None
         THEN task' = [task EXCEPT ![t] = list] /\ UNCHANGED <<cacheVars, known>>
         ELSE RemoveFromCaches(old, registry[old]) /\ task' = [task EXCEPT ![t] = publish]
      /\ UNCHANGED <<up, registry, sem>>
  BY DEF Update, Goto
<1>2. paired' \subseteq Device
  BY <1>1 DEF DInv, TasksInv, Typed
<1>3. CASE registry[old] = None
  <2>1. list \in Records /\ list.pc = "list" /\ list.op = "update" /\ list.plan = <<>>
    <3>1. ASSUME NEW x \in Records
          PROVE  LET y == [x EXCEPT !.pc = "list", !.op = "update", !.target = new]
                 IN  y \in Records /\ y.pc = "list" /\ y.op = "update" /\ y.plan = x.plan
      BY DEF Records, PCs, Ops
    <3> QED  BY <3>1, IdleFits
  <2>2. task' = [task EXCEPT ![t] = list] /\ UNCHANGED <<cacheVars, known>>
    BY <1>1, <1>3
  <2> HIDE DEF list
  <2>3. Fits(list) /\ list.pc \notin Held
    BY <2>1 DEF Fits, Held
  <2> QED  BY <1>1, <1>2, <2>1, <2>2, <2>3, CallStep
<1>4. CASE registry[old] # None
  <2>1. registry[old] \in SUBSET Item /\ registry[old] \subseteq Addresses(old)
    BY <1>4 DEF DInv, RegistryInv, RegistryFits
  <2>2. /\ publish \in Records /\ publish.pc = "publish" /\ publish.op = "update" /\ publish.dev = old
        /\ publish.had = registry[old] /\ publish.plan = <<>>
    <3>1. ASSUME NEW x \in Records
          PROVE  LET y == [x EXCEPT !.pc = "publish", !.op = "update", !.dev = old,
                                    !.target = new, !.had = registry[old]]
                 IN  /\ y \in Records /\ y.pc = "publish" /\ y.op = "update" /\ y.dev = old
                     /\ y.had = registry[old] /\ y.plan = x.plan
      BY <2>1 DEF Records, PCs, Ops
    <3> QED  BY <3>1, IdleFits
  <2>3. task' = [task EXCEPT ![t] = publish] /\ RemoveFromCaches(publish.dev, publish.had)
    <3>1. RemoveFromCaches(old, registry[old]) /\ task' = [task EXCEPT ![t] = publish]
      BY <1>1, <1>4
    <3> HIDE DEF publish
    <3> QED  BY <2>2, <3>1
  <2> HIDE DEF publish
  <2>4. Fits(publish) /\ publish.pc \in Removing
    BY <2>1, <2>2 DEF Fits, Removing
  <2>5. up /\ task[t].pc = "idle" /\ ~Saving(t) /\ task[t].pc \notin Removing
    BY <1>1, IdleFits, NotSaving DEF Called, DInv, Removing
  <2> QED  BY <1>1, <1>2, <2>2, <2>3, <2>4, <2>5, RemovalStep
<1> QED  BY <1>3, <1>4

-----------------------------------------------------------------------------
(* Adding descriptions and their paramset descriptions. *)

\* A step that adds to the caches, by a task that saves both of them later.
LEMMA AddingStep ==
    ASSUME DInv, NEW t \in Task, NEW r \in Records, task' = [task EXCEPT ![t] = r], Fits(r),
           task[t].pc \in {"wait", "fetch"}, sem \in {None, t}, sem' = t,
           ContentSet, content["desc"] \subseteq content'["desc"], known' \subseteq Device,
           UNCHANGED <<paired, up, registry>>,
           \A s \in Store : \/ Saves(r, TRUE, s)
                            \/ content'[s] = content[s] /\ ~Saves(task[t], sem = t, s)
    PROVE  DInv'
<1>1. up /\ ~Saving(t) /\ task[t].pc \notin Removing
  BY BusyIsUp, NotSaving DEF DInv, Removing
<1>2. \A s \in Store : Saves(r, TRUE, s) => Saves(r, sem' = t, s)
  BY DEF Saves
<1>3. paired' \subseteq Device
  BY DEF DInv, TasksInv, Typed
<1> QED  BY <1>1, <1>2, <1>3, ContentStep

LEMMA FetchedFits ==
    ASSUME DInv, NEW t \in Task, task[t].pc \in {"wait", "fetch"}, task[t].op # "repair", NEW ok \in BOOLEAN
    PROVE  /\ Fetched(t, ok) \in Records /\ Fits(Fetched(t, ok))
           /\ \A s \in Store : Saves(Fetched(t, ok), TRUE, s)
<1> DEFINE x == task[t]
           p == IF ok THEN <<"pars", "desc", "pars">> ELSE <<>>
           r == [x EXCEPT !.pc = "save", !.batch = {}, !.cur = None, !.ok = ok, !.plan = p]
<1>1. Fetched(t, ok) = r
  BY DEF Fetched
<1>2. x \in Records /\ x.op \notin {"repair", "abort"}
  BY TaskTyped DEF Fits
<1>3. p \in Seq(Store) /\ Len(p) <= 3 /\ (ok => Range(p) = Store)
  <2>1. CASE ok
    BY <2>1, Plans
  <2>2. CASE ~ok
    BY <2>2
  <2> QED  BY <2>1, <2>2
<1> HIDE DEF x, p
<1>4. r \in Records /\ r.pc = "save" /\ r.plan = p /\ r.ok = ok /\ r.op = x.op
  BY <1>2, <1>3 DEF Records, PCs
<1> HIDE DEF r
<1>5. Fits(r)
  BY <1>3, <1>4 DEF Fits
<1>6. \A s \in Store : Saves(r, TRUE, s)
  BY <1>2, <1>3, <1>4 DEF Saves
<1> QED  BY <1>1, <1>4, <1>5, <1>6

LEMMA AddDescriptionsFits ==
    ASSUME DInv, NEW as \in SUBSET Item, AddDescriptions(as)
    PROVE  ContentSet /\ content["desc"] \subseteq content'["desc"] /\ known' \subseteq Device
<1> DEFINE new == [content EXCEPT !["desc"] = @ \cup as]
           replaced == IF as \cap content["desc"] = {} THEN {} ELSE {"desc"}
<1>1. SetContent(new, replaced) /\ known' = known \cup {a[1] : a \in as}
  BY DEF AddDescriptions
<1>2. content \in [Store -> SUBSET Item] /\ "desc" \in Store
  BY DeviceStoreAssumption DEF DInv, TasksInv, Typed
<1>3. new \in [Store -> SUBSET Item] /\ content["desc"] \subseteq new["desc"]
  BY <1>2
<1>4. replaced \in SUBSET {"desc"}
  OBVIOUS
<1> HIDE DEF new, replaced
<1>5. ContentSet /\ content' = new
  BY <1>1, <1>3, <1>4, SetContentFits
<1>6. known' \subseteq Device
  <2>1. \A a \in as : a[1] \in Device
    BY DeviceStoreAssumption
  <2>2. known \subseteq Device
    BY DEF DInv, TasksInv, Typed
  <2> QED  BY <1>1, <2>1, <2>2
<1> QED  BY <1>3, <1>5, <1>6

LEMMA AcquireKeeps == ASSUME DInv, NEW t \in Task, Acquire(t) PROVE DInv'
<1> DEFINE x == task[t]
           kept == ToCache(t) \ ToFetch(t)
<1>1. /\ x.pc = "wait" /\ x.op # "startup" /\ sem = None /\ sem' = t
      /\ \/ AddDescriptions(kept) /\ task' = [task EXCEPT ![t] = Fetched(t, TRUE)]
         \/ \E a \in First(ToFetch(t)) :
               /\ AddDescriptions(kept \cup {a})
               /\ task' = [task EXCEPT ![t] = [x EXCEPT !.pc = "fetch", !.cur = a, !.batch = ToFetch(t) \ {a}]]
      /\ UNCHANGED <<paired, up, registry>>
  BY DEF Acquire, Goto
<1>2. ToCache(t) \in SUBSET Item /\ ToFetch(t) \in SUBSET Item /\ kept \in SUBSET Item
  BY TaskTyped DEF ToCache, ToFetch, NewDescriptions, MissingDescriptions
<1>3. x \in Records /\ Len(x.plan) <= 3 /\ x.op \in {"add", "refresh", "update"}
  BY <1>1, TaskTyped DEF Fits
<1>4. CASE AddDescriptions(kept) /\ task' = [task EXCEPT ![t] = Fetched(t, TRUE)]
  <2> DEFINE r == Fetched(t, TRUE)
  <2>1. r \in Records /\ Fits(r) /\ \A s \in Store : Saves(r, TRUE, s)
    BY <1>1, <1>3, FetchedFits
  <2>2. task' = [task EXCEPT ![t] = r]
    BY <1>4
  <2> HIDE DEF r, kept
  <2>3. ContentSet /\ content["desc"] \subseteq content'["desc"] /\ known' \subseteq Device
    BY <1>2, <1>4, AddDescriptionsFits
  <2> QED  BY <1>1, <2>1, <2>2, <2>3, AddingStep
<1>5. CASE \E a \in First(ToFetch(t)) :
               /\ AddDescriptions(kept \cup {a})
               /\ task' = [task EXCEPT ![t] = [x EXCEPT !.pc = "fetch", !.cur = a, !.batch = ToFetch(t) \ {a}]]
  <2>1. PICK a \in First(ToFetch(t)) :
               /\ AddDescriptions(kept \cup {a})
               /\ task' = [task EXCEPT ![t] = [x EXCEPT !.pc = "fetch", !.cur = a, !.batch = ToFetch(t) \ {a}]]
    BY <1>5
  <2>2. a \in Item
    BY <1>2 DEF First
  <2> DEFINE b == ToFetch(t) \ {a}
             as == kept \cup {a}
             r == [x EXCEPT !.pc = "fetch", !.cur = a, !.batch = b]
  <2>3. b \in SUBSET Item /\ as \in SUBSET Item /\ AddDescriptions(as) /\ task' = [task EXCEPT ![t] = r]
    BY <1>2, <2>1, <2>2
  <2> HIDE DEF b, as, kept
  <2>4. r \in Records /\ r.pc = "fetch" /\ r.cur = a /\ r.op = x.op /\ r.plan = x.plan
    BY <1>3, <2>2, <2>3 DEF Records, PCs
  <2> HIDE DEF r
  <2>5. Fits(r) /\ \A s \in Store : Saves(r, TRUE, s)
    BY <1>3, <2>2, <2>4 DEF Fits, Saves
  <2>6. ContentSet /\ content["desc"] \subseteq content'["desc"] /\ known' \subseteq Device
    BY <2>3, AddDescriptionsFits
  <2> QED  BY <1>1, <2>3, <2>4, <2>5, <2>6, AddingStep
<1> QED  BY <1>1, <1>4, <1>5

LEMMA FetchEndsKeeps ==
    ASSUME DInv, NEW t \in Task, NEW outcome \in Outcomes, FetchEnds(t, outcome) PROVE DInv'
<1> DEFINE x == task[t]
           withPars == IF outcome = "ok" THEN [content EXCEPT !["pars"] = @ \cup {x.cur}] ELSE content
           last == /\ SetContent(withPars, {}) /\ task' = [task EXCEPT ![t] = Fetched(t, outcome # "raise")]
                   /\ UNCHANGED known
           next(b) == /\ SetContent([withPars EXCEPT !["desc"] = @ \cup {b}],
                                    IF b \in content["desc"] THEN {"desc"} ELSE {})
                      /\ known' = known \cup {b[1]}
                      /\ task' = [task EXCEPT ![t] = [x EXCEPT !.cur = b, !.batch = @ \ {b}]]
<1>1. /\ x.pc = "fetch" /\ x.op # "repair" /\ UNCHANGED <<paired, up, registry, sem>>
      /\ last \/ \E b \in First(x.batch) : next(b)
  BY DEF FetchEnds, Goto
<1>2. x \in Records /\ Len(x.plan) <= 3 /\ x.op \in {"add", "refresh", "update"} /\ x.cur \in Item
      /\ x.batch \in SUBSET Item
  BY <1>1, TaskTyped DEF Fits
<1>3. sem = t /\ sem' = t
  BY <1>1 DEF DInv, TasksInv, SemHeld, Held
<1>4. content \in [Store -> SUBSET Item] /\ "desc" \in Store /\ "pars" \in Store /\ known \subseteq Device
  BY DeviceStoreAssumption DEF DInv, TasksInv, Typed
<1>5. withPars \in [Store -> SUBSET Item] /\ withPars["desc"] = content["desc"]
  BY <1>2, <1>4
<1> HIDE DEF withPars
<1>6. CASE last
  <2> DEFINE ok == outcome # "raise"
             r == Fetched(t, ok)
  <2>1. ok \in BOOLEAN
    OBVIOUS
  <2>2. SetContent(withPars, {}) /\ UNCHANGED known /\ task' = [task EXCEPT ![t] = r]
    BY <1>6
  <2> HIDE DEF ok
  <2>3. r \in Records /\ Fits(r) /\ \A s \in Store : Saves(r, TRUE, s)
    BY <1>1, <2>1, FetchedFits
  <2> HIDE DEF r
  <2>4. {} \in SUBSET {"desc"}
    OBVIOUS
  <2>5. ContentSet /\ content' = withPars
    BY <1>5, <2>2, <2>4, SetContentFits
  <2>6. content["desc"] \subseteq content'["desc"] /\ known' \subseteq Device
    BY <1>4, <1>5, <2>2, <2>5
  <2> QED  BY <1>1, <1>3, <2>2, <2>3, <2>5, <2>6, AddingStep
<1>7. CASE \E b \in First(x.batch) : next(b)
  <2>1. PICK b \in First(x.batch) : next(b)
    BY <1>7
  <2>2. b \in Item /\ b[1] \in Device
    BY <1>2, DeviceStoreAssumption DEF First
  <2> DEFINE new == [withPars EXCEPT !["desc"] = @ \cup {b}]
             replaced == IF b \in content["desc"] THEN {"desc"} ELSE {}
             rest == x.batch \ {b}
             r == [x EXCEPT !.cur = b, !.batch = rest]
  <2>3. SetContent(new, replaced) /\ known' = known \cup {b[1]} /\ task' = [task EXCEPT ![t] = r]
    BY <2>1
  <2>4. new \in [Store -> SUBSET Item] /\ content["desc"] \subseteq new["desc"]
    BY <1>4, <1>5, <2>2
  <2>5. replaced \in SUBSET {"desc"} /\ rest \in SUBSET Item
    BY <1>2
  <2> HIDE DEF new, replaced, rest
  <2>6. r \in Records /\ r.pc = "fetch" /\ r.cur = b /\ r.op = x.op /\ r.plan = x.plan
    BY <1>1, <1>2, <2>2, <2>5 DEF Records
  <2> HIDE DEF r
  <2>7. Fits(r) /\ \A s \in Store : Saves(r, TRUE, s)
    BY <1>2, <2>2, <2>6 DEF Fits, Saves
  <2>8. ContentSet /\ content' = new
    BY <2>3, <2>4, <2>5, SetContentFits
  <2>9. content["desc"] \subseteq content'["desc"] /\ known' \subseteq Device
    BY <1>4, <2>2, <2>3, <2>4, <2>8
  <2> QED  BY <1>1, <1>3, <2>3, <2>6, <2>7, <2>8, <2>9, AddingStep
<1> QED  BY <1>1, <1>6, <1>7

LEMMA RepairFetchEndsKeeps ==
    ASSUME DInv, NEW t \in Task, NEW outcome \in Outcomes, RepairFetchEnds(t, outcome) PROVE DInv'
<1> DEFINE x == task[t]
           new == IF outcome = "ok" THEN [content EXCEPT !["pars"] = @ \cup {x.cur}] ELSE content
           next(b) == [x EXCEPT !.cur = b, !.batch = @ \ {b}]
           save == [x EXCEPT !.pc = "save", !.cur = None, !.plan = <<"pars">>]
<1>1. /\ x.pc = "fetch" /\ x.op = "repair" /\ UNCHANGED <<paired, up, known, registry>>
      /\ \/ SaveLeftOut({"pars"}) /\ task' = [task EXCEPT ![t] = Idle] /\ sem' = None
         \/ /\ SetContent(new, {}) /\ UNCHANGED sem
            /\ \/ task' = [task EXCEPT ![t] = save]
               \/ \E b \in First(x.batch) : task' = [task EXCEPT ![t] = next(b)]
  BY DEF RepairFetchEnds, Goto
<1>2. x \in Records /\ Len(x.plan) <= 3 /\ x.cur \in Item /\ x.batch \in SUBSET Item
  BY <1>1, TaskTyped DEF Fits
<1>3. sem = t
  BY <1>1 DEF DInv, TasksInv, SemHeld, Held
<1>4. Store = {"desc", "pars"}
  BY DeviceStoreAssumption
<1>5. \A s \in Store : s = "pars" \/ ~Saves(x, sem = t, s)
  BY <1>1 DEF Saves
<1>6. content \in [Store -> SUBSET Item] /\ known' \subseteq Device /\ paired' \subseteq Device
  BY <1>1 DEF DInv, TasksInv, Typed
<1>7. CASE SaveLeftOut({"pars"}) /\ task' = [task EXCEPT ![t] = Idle] /\ sem' = None
  <2>1. /\ UNCHANGED <<content, saved, file, savers, written, snap, overlap>>
        /\ lost' = [s \in Store |-> lost[s] \/ (s \in {"pars"} /\ HasUnsavedChanges(s))]
    BY <1>7 DEF SaveLeftOut
  <2>2. /\ lost' \in [Store -> BOOLEAN] /\ (\A s \in Store : lost[s] => lost'[s])
        /\ \A s \in Store : HasUnsavedChanges(s) /\ Saves(x, sem = t, s) => lost'[s]
    BY <1>5, <2>1
  <2>3. up /\ ~Saving(t) /\ x.pc \notin Removing
    BY <1>1, BusyIsUp, NotSaving DEF DInv, Removing
  <2>4. Idle \in Records /\ Fits(Idle) /\ Idle.pc \notin Held
    BY IdleFits DEF Held
  <2> QED  BY <1>1, <1>3, <1>6, <1>7, <2>1, <2>2, <2>3, <2>4, QuietStep
<1>8. CASE /\ SetContent(new, {}) /\ UNCHANGED sem
           /\ \/ task' = [task EXCEPT ![t] = save]
              \/ \E b \in First(x.batch) : task' = [task EXCEPT ![t] = next(b)]
  <2>1. new \in [Store -> SUBSET Item] /\ new["desc"] = content["desc"]
    BY <1>2, <1>4, <1>6
  <2> HIDE DEF new
  <2>2. {} \in SUBSET {"desc"}
    OBVIOUS
  <2>3. ContentSet /\ content' = new
    BY <1>8, <2>1, <2>2, SetContentFits
  <2>4. PICK r \in Records : /\ task' = [task EXCEPT ![t] = r] /\ Fits(r)
                             /\ Saves(r, TRUE, "pars")
    <3>1. CASE task' = [task EXCEPT ![t] = save]
      <4>1. save \in Records /\ save.pc = "save" /\ save.plan = <<"pars">>
        <5> DEFINE p == <<"pars">>
        <5>1. p \in Seq(Store)
          BY Plans
        <5> HIDE DEF p, x
        <5>2. LET z == [x EXCEPT !.pc = "save", !.cur = None, !.plan = p]
              IN  z \in Records /\ z.pc = "save" /\ z.plan = p
          BY <1>2, <5>1 DEF Records, PCs
        <5> QED  BY <5>2 DEF p
      <4> HIDE DEF save
      <4>2. Fits(save) /\ Saves(save, TRUE, "pars")
        BY <4>1, Plans DEF Fits, Saves
      <4> QED  BY <3>1, <4>1, <4>2
    <3>2. CASE \E b \in First(x.batch) : task' = [task EXCEPT ![t] = next(b)]
      <4>1. PICK b \in First(x.batch) : task' = [task EXCEPT ![t] = next(b)]
        BY <3>2
      <4>2. b \in Item
        BY <1>2 DEF First
      <4> DEFINE rest == x.batch \ {b}
                 r == [x EXCEPT !.cur = b, !.batch = rest]
      <4>3. rest \in SUBSET Item /\ task' = [task EXCEPT ![t] = r]
        BY <1>2, <4>1
      <4> HIDE DEF rest
      <4>4. r \in Records /\ r.pc = "fetch" /\ r.op = "repair" /\ r.cur = b /\ r.plan = x.plan
        BY <1>1, <1>2, <4>2, <4>3 DEF Records
      <4> HIDE DEF r
      <4>5. Fits(r) /\ Saves(r, TRUE, "pars")
        BY <1>2, <4>2, <4>4 DEF Fits, Saves
      <4> QED  BY <4>3, <4>4, <4>5
    <3> QED  BY <1>8, <3>1, <3>2
  <2>5. \A s \in Store : \/ Saves(r, TRUE, s)
                         \/ content'[s] = content[s] /\ ~Saves(x, sem = t, s)
    BY <1>4, <1>5, <2>1, <2>3, <2>4
  <2>6. content["desc"] \subseteq content'["desc"]
    BY <2>1, <2>3
  <2> QED  BY <1>1, <1>3, <1>6, <1>8, <2>3, <2>4, <2>5, <2>6, AddingStep
<1> QED  BY <1>1, <1>7, <1>8

-----------------------------------------------------------------------------
(* The invariant holds, and with it the properties. *)

LEMMA DInvNext == ASSUME DInv, [Next]_vars PROVE DInv'
<1>1. CASE UNCHANGED vars
  <2>1. /\ UNCHANGED <<content, saved, file, savers, written, snap, overlap, lost>>
        /\ UNCHANGED <<paired, up, known, registry, sem, task>>
    BY <1>1 DEF vars, cacheVars, coordVars
  <2>2. TasksInv'
    BY <2>1 DEF DInv, TasksInv, Typed, SemHeld, TasksFit, SaversFit, FilesFit, Covered,
                HasUnsavedChanges, Blank
  <2>3. RegistryInv'
    BY <2>1 DEF DInv, RegistryInv, RegistryFits, RegistryDescribed
  <2> QED  BY <2>2, <2>3 DEF DInv
<1>2. ASSUME NEW t \in Task, Step(t) PROVE DInv'
  <2>1. CASE OnDeviceRemoved(t) \/ Unregister(t)
    BY <2>1, OnDeviceRemovedKeeps, UnregisterKeeps
  <2>2. CASE GotDescription(t) \/ GotList(t) \/ GotNothing(t)
    BY <2>2, GotKeeps
  <2>3. CASE Acquire(t) \/ AcquireToRepair(t) \/ CreateFromCache(t)
    BY <2>3, AcquireKeeps, AcquireToRepairKeeps, CreateFromCacheKeeps
  <2>4. CASE \E outcome \in Outcomes : FetchEnds(t, outcome) \/ RepairFetchEnds(t, outcome)
    BY <2>4, FetchEndsKeeps, RepairFetchEndsKeeps
  <2>5. CASE BeginSave(t)
    <3>1. "desc" \in Store
      BY DeviceStoreAssumption
    <3> QED  BY <2>5, <3>1, SaveSteps
  <2>6. CASE \E s \in Store : Write(t, s) \/ EndSave(t, s)
    BY <2>6, SaveSteps
  <2>7. CASE LastSaveOver(t) \/ CheckRepaired(t) \/ AbortRepair(t) \/ CheckForNew(t)
    BY <2>7, LastSaveOverKeeps, CheckRepairedKeeps, AbortRepairKeeps, CheckForNewKeeps
  <2>8. CASE Create(t) \/ Finish(t)
    BY <2>8, CreateKeeps, FinishKeeps
  <2> QED  BY <1>2, <2>1, <2>2, <2>3, <2>4, <2>5, <2>6, <2>7, <2>8 DEF Step
<1>3. ASSUME NEW t \in Task, NEW d \in Device, Retract(t, d) \/ \E new \in Device : Update(t, d, new)
      PROVE  DInv'
  BY <1>3, RetractKeeps, UpdateKeeps
<1>4. ASSUME NEW t \in Task, NEW batch \in SUBSET Item, Announce(t, batch) PROVE DInv'
  BY <1>4, AnnounceKeeps
<1> QED  BY <1>1, <1>2, <1>3, <1>4, StartKeeps, RefreshKeeps, CrashKeeps DEF Next

LEMMA DInvHolds == Spec => []DInv
BY DInvInit, DInvNext, PTL DEF Spec

\* Whatever devices, tasks and failures: when no method of the coordinator is under way,
\* what the caches hold is in their files, but for a save that failed, was left out after an
\* error or was overtaken by a change (device.py:501, 880, 1085-1097, base.py:190-222).
THEOREM ChangesSaved == Spec => []SavedWhenIdle
<1>1. DInv => SavedWhenIdle
  <2> SUFFICES ASSUME DInv, up, \A t \in Task : task[t] = Idle, NEW s \in Store,
                      overlap[s] = "no", ~lost[s]
               PROVE  content[s] = IF file[s] = None THEN {} ELSE file[s]
    BY DEF SavedWhenIdle, DInv, TasksInv, Typed
  <2>1. file[s] = saved[s]
    BY NoSavers DEF DInv, TasksInv, FilesFit
  <2>2. \A t \in Task : ~Saves(task[t], sem = t, s)
    BY IdleFits DEF Saves
  <2>3. saved[s] = content[s] \/ (content[s] = {} /\ saved[s] = None)
    BY <2>2 DEF DInv, TasksInv, Covered, HasUnsavedChanges, Blank
  <2>4. content[s] # None
    BY CacheAssumption DEF DInv, TasksInv, Typed
  <2> QED  BY <2>1, <2>3, <2>4
<1> QED  BY <1>1, DInvHolds, PTL

\* Whatever calls of the CCU overlap: a registered device is described, or the removal that
\* took its description away is still to take it out of the registry (device.py:748-785).
THEOREM RegisteredDescribed == Spec => []RegistryDescribed
<1>1. DInv => RegistryDescribed
  BY DEF DInv, RegistryInv
<1> QED  BY <1>1, DInvHolds, PTL

\* However the tasks interleave: a Device object is only created while no task is between
\* two fetches for the same device, as both keep to the semaphore (device.py:247-254, 1099-1101).
THEOREM CreationSettled == Spec => CreatesOnlySettled
<1> DEFINE A == \A d \in Device : registry[d] = None /\ registry'[d] # None =>
                   \A t \in Task : task[t].pc = "fetch" => task[t].cur[1] # d
                                                        /\ \A a \in task[t].batch : a[1] # d
<1>1. DInv /\ [Next]_vars => [A]_vars
  <2> SUFFICES ASSUME DInv, Next, NEW d \in Device, registry[d] = None, registry'[d] # None,
                      NEW u \in Task, task[u].pc = "fetch"
               PROVE  FALSE
    OBVIOUS
  <2>1. sem = u /\ task[u].pc # "idle"
    BY DEF DInv, TasksInv, SemHeld, Held
  <2>2. PICK t \in Task : Create(t) \/ CreateFromCache(t)
    <3>1. registry' # registry
      OBVIOUS
    <3>2. ASSUME NEW t \in Task, Unregister(t) PROVE FALSE
      <4>1. registry' = [registry EXCEPT ![task[t].dev] = None]
        BY <3>2 DEF Unregister
      <4> QED  BY <4>1 DEF DInv, RegistryInv, RegistryFits
    <3>3. ASSUME Crash PROVE FALSE
      BY <3>3 DEF Crash
    <3>4. ASSUME NEW t \in Task, Step(t) PROVE Create(t) \/ CreateFromCache(t)
      BY <3>1, <3>2, <3>4 DEF Step, OnDeviceRemoved, GotDescription, GotList, GotNothing, Acquire,
           AcquireToRepair, FetchEnds, RepairFetchEnds, BeginSave, Write, EndSave, coordVars,
           LastSaveOver, CheckRepaired, AbortRepair, CheckForNew, Finish
    <3>5. ASSUME NEW t \in Task, NEW e \in Device, NEW n \in Device, NEW b \in SUBSET Item,
                 Start(t) \/ Refresh(t) \/ Announce(t, b) \/ Retract(t, e) \/ Update(t, e, n)
          PROVE  FALSE
      BY <3>1, <3>5 DEF Start, Refresh, Announce, Retract, Update
    <3> QED  BY <3>3, <3>4, <3>5 DEF Next
  <2>3. CASE Create(t)
    <3>1. task[t].pc = "load" /\ sem = t
      BY <2>3 DEF Create, DInv, TasksInv, SemHeld, Held
    <3> QED  BY <2>1, <3>1
  <2>4. CASE CreateFromCache(t)
    BY <2>1, <2>4, CacheAssumption DEF CreateFromCache
  <2> QED  BY <2>2, <2>3, <2>4
<1>2. CreatesOnlySettled <=> [][A]_vars
  BY DEF CreatesOnlySettled
<1> HIDE DEF A
<1> QED  BY <1>1, <1>2, DInvHolds, PTL DEF Spec
=============================================================================
