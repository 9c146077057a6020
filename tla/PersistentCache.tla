-------------------------- MODULE PersistentCache --------------------------
(***************************************************************************)
(* BasePersistentCache (store/persistent/base.py) over Storage             *)
(* (store/storage.py): a content in memory, the hash of what was saved     *)
(* last, and a file that a thread writes and renames while the event loop  *)
(* goes on.                                                                *)
(*                                                                         *)
(* Contents are sets of items and a hash is the content it was taken of.   *)
(* save() copies the content one level deep: the list or mapping of the    *)
(* interface below it stays the registry's own, so what is added to it in  *)
(* place still gets into the file, until somebody replaces the list.       *)
(* use_caches is on; save_delayed, of the incident store only, is left out.*)
(***************************************************************************)
EXTENDS Naturals, Sequences, SequencesExt

CONSTANTS Store, Item, Task,
          None

ASSUME CacheAssumption ==
    /\ None \notin Task
    /\ \A S \in SUBSET Item : S # None

VARIABLES
    content,   \* store -> _content
    saved,     \* store -> the content of _last_hash_saved, None: no hash
    file,      \* store -> what the file holds, None: no file
    savers,    \* store -> the tasks in Storage.save, the first has _lock
    written,   \* store -> the thread of the first one has replaced the file
    snap,      \* task -> the list it saves that the registry gave up, None: its own
    overlap,   \* history: store -> whether the content changed during a save:
               \* "now", one under way; "stale", the one the hash is of; "no"
    lost       \* history: store -> the last save failed or was left out

cacheVars == <<content, saved, file, savers, written, snap, overlap, lost>>

CacheTypeOK ==
    /\ content \in [Store -> SUBSET Item]
    /\ saved \in [Store -> (SUBSET Item) \cup {None}]
    /\ file \in [Store -> (SUBSET Item) \cup {None}]
    /\ \A s \in Store : Range(savers[s]) \subseteq Task /\ IsInjective(savers[s])
    /\ written \in [Store -> BOOLEAN]
    /\ overlap \in [Store -> {"no", "stale", "now"}]
    /\ lost \in [Store -> BOOLEAN]
    /\ \A s \in Store : written[s] => savers[s] # <<>>
    /\ \A t \in Task : snap[t] = None \/ snap[t] \in SUBSET Item

CacheInit ==
    /\ content = [s \in Store |-> {}]
    /\ saved = [s \in Store |-> None]
    /\ file = [s \in Store |-> None]
    /\ savers = [s \in Store |-> <<>>]
    /\ written = [s \in Store |-> FALSE]
    /\ snap = [t \in Task |-> None]
    /\ overlap = [s \in Store |-> "no"]
    /\ lost = [s \in Store |-> FALSE]

-----------------------------------------------------------------------------
HasUnsavedChanges(s) == saved[s] # content[s]

\* The contents become new; replaced are the stores whose list is a new one.
SetContent(new, replaced) ==
    /\ content' = new
    /\ snap' = [t \in Task |->
          IF snap[t] = None /\ (\E s \in replaced : t \in Range(savers[s]))
          THEN content[CHOOSE s \in replaced : t \in Range(savers[s])] ELSE snap[t]]
    /\ overlap' = [s \in Store |->
          IF savers[s] # <<>> /\ new[s] # content[s] THEN "now" ELSE overlap[s]]
    /\ UNCHANGED <<saved, file, savers, written, lost>>

\* The record of overlapping changes when the first saver leaves.
OverlapAfter(s, done) ==
    IF overlap[s] = "now" THEN IF Len(savers[s]) > 1 THEN "now" ELSE "stale"
    ELSE IF done THEN "no" ELSE overlap[s]

\* save with unsaved changes, up to the wait for the lock and the thread.
SaveStart(t, s) ==
    /\ HasUnsavedChanges(s)
    /\ savers' = [savers EXCEPT ![s] = Append(@, t)]
    /\ snap' = [snap EXCEPT ![t] = None]
    /\ UNCHANGED <<content, saved, file, written, overlap, lost>>

\* _save_sync in the thread: serialise, write beside the file, rename.
WriteFile(t, s) ==
    /\ savers[s] # <<>> /\ Head(savers[s]) = t
    /\ ~written[s]
    /\ file' = [file EXCEPT ![s] = IF snap[t] = None THEN content[s] ELSE snap[t]]
    /\ written' = [written EXCEPT ![s] = TRUE]
    /\ UNCHANGED <<content, saved, savers, snap, overlap, lost>>

\* save resumes: the hash is taken of the content as it is now.
SaveDone(t, s) ==
    /\ savers[s] # <<>> /\ Head(savers[s]) = t
    /\ written[s]
    /\ saved' = [saved EXCEPT ![s] = content[s]]
    /\ savers' = [savers EXCEPT ![s] = Tail(@)]
    /\ written' = [written EXCEPT ![s] = FALSE]
    /\ overlap' = [overlap EXCEPT ![s] = OverlapAfter(s, TRUE)]
    /\ lost' = [lost EXCEPT ![s] = FALSE]
    /\ UNCHANGED <<content, file, snap>>

\* The disk is full or the directory gone: StorageError, save answers SAVE_FAIL.
SaveFails(t, s) ==
    /\ savers[s] # <<>> /\ Head(savers[s]) = t
    /\ ~written[s]
    /\ savers' = [savers EXCEPT ![s] = Tail(@)]
    /\ overlap' = [overlap EXCEPT ![s] = OverlapAfter(s, FALSE)]
    /\ lost' = [lost EXCEPT ![s] = TRUE]
    /\ UNCHANGED <<content, saved, file, written, snap>>

\* The saves of some stores are left out.
SaveLeftOut(which) ==
    /\ lost' = [s \in Store |-> lost[s] \/ (s \in which /\ HasUnsavedChanges(s))]
    /\ UNCHANGED <<content, saved, file, savers, written, snap, overlap>>

\* The process ends: only the files are left.
CacheCrash ==
    /\ content' = [s \in Store |-> {}]
    /\ saved' = [s \in Store |-> None]
    /\ savers' = [s \in Store |-> <<>>]
    /\ written' = [s \in Store |-> FALSE]
    /\ snap' = [t \in Task |-> None]
    /\ overlap' = [s \in Store |-> "no"]
    /\ lost' = [s \in Store |-> FALSE]
    /\ UNCHANGED file

\* load_all: every file that is there becomes the content and its hash.
LoadAll ==
    /\ content' = [s \in Store |-> IF file[s] = None THEN {} ELSE file[s]]
    /\ saved' = file
    /\ UNCHANGED <<file, savers, written, snap, overlap, lost>>

\* load_all finds a file it cannot read or of an older schema: clear_all.
LoadFails ==
    /\ \E s \in Store : file[s] # None
    /\ content' = [s \in Store |-> {}]
    /\ saved' = [s \in Store |-> None]
    /\ file' = [s \in Store |-> None]
    /\ UNCHANGED <<savers, written, snap, overlap, lost>>
=============================================================================
