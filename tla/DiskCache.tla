------------------------------ MODULE DiskCache ------------------------------
(***************************************************************************)
(* The cache of raw schedules on disk: Get, Put and Prune of one entry,    *)
(* and the commands that read it, fetch what it does not have and put that *)
(* (cachedSchedule, FetchScheduleCached). Put stages the entry in a file   *)
(* of its own and renames it; readers, writers and pruners of several      *)
(* processes meet on the entry's name without a lock. A process may die    *)
(* anywhere, and the machine may lose power: then a file that was not      *)
(* synced may be torn, and a name that was not synced may be the old one.  *)
(***************************************************************************)
EXTENDS Integers

CONSTANTS
  Readers,       \* commands that want the schedule
  Pruners,       \* processes that prune the namespace
  EntryTTL,      \* ticks an entry is served
  PruneAge,      \* ticks after which a pruner removes it
  MaxClock,      \* bound: ticks of the clock
  None

CacheAssumption == EntryTTL \in Nat \ {0} /\ PruneAge \in Nat /\ MaxClock \in Nat

VARIABLES
  time,          \* the wall clock
  entry,         \* the file under the entry's name: when it was put, whole, synced
  survivors,     \* what the name may denote after a power loss
  reader,        \* each command
  pruner         \* each pruner

cacheVars == <<time, entry, survivors, reader, pruner>>

Files == [at: 0..MaxClock, whole: BOOLEAN, synced: BOOLEAN]
Idle == [pc |-> "idle", now |-> 0, temp |-> None]
Resting == [pc |-> "idle", now |-> 0]

CacheInit ==
  /\ time = 0
  /\ entry = None /\ survivors = {None}
  /\ reader = [p \in Readers |-> Idle]
  /\ pruner = [q \in Pruners |-> Resting]

----------------------------------------------------------------------------
(* Helpers *)

In(p, pc) == reader[p].pc = pc
Set(p, change) ==
  reader' = [reader EXCEPT ![p] = [f \in DOMAIN @ |-> IF f \in DOMAIN change THEN change[f] ELSE @[f]]]
Finish(p) == Set(p, [pc |-> "done", temp |-> None])

\* The name denotes another file, or none, from now on.
Rename(file) == entry' = file /\ survivors' = survivors \union {file}

\* decode: the recorded length is that of the payload.
Decodes(file) == file.whole

----------------------------------------------------------------------------
(* A command: cachedSchedule and FetchScheduleCached *)

\* With force the cache is left aside.
Ask(p) ==
  /\ In(p, "idle")
  /\ \E force \in BOOLEAN : Set(p, [pc |-> IF force THEN "uncached" ELSE "find", now |-> time])
  /\ UNCHANGED <<time, entry, survivors, pruner>>

\* Get: Lstat, then the whole file. A name that went away in between is an error.
Find(p) ==
  /\ In(p, "find")
  /\ Set(p, [pc |-> IF entry = None THEN "fetch" ELSE "read"])
  /\ UNCHANGED <<time, entry, survivors, pruner>>

Read(p) ==
  /\ In(p, "read")
  /\ \/ entry = None /\ Set(p, [pc |-> "uncached"])
     \/ /\ entry # None
        /\ LET hit == Decodes(entry) /\ reader[p].now - entry.at < EntryTTL
           IN \/ hit /\ Finish(p)
              \/ ~hit /\ Set(p, [pc |-> "fetch"])
  /\ UNCHANGED <<time, entry, survivors, pruner>>

FileFails(p) ==
  /\ reader[p].pc \in {"find", "read"}
  /\ Set(p, [pc |-> "uncached"])
  /\ UNCHANGED <<time, entry, survivors, pruner>>

Fetch(p) ==
  /\ In(p, "fetch")
  /\ \E pc \in {"create", "uncached"} : Set(p, [pc |-> pc])
  /\ UNCHANGED <<time, entry, survivors, pruner>>

\* After an error of the cached path the schedule is fetched without the cache; that
\* may fail too, and the command shows no games.
FetchUncached(p) ==
  /\ In(p, "uncached")
  /\ Finish(p)
  /\ UNCHANGED <<time, entry, survivors, pruner>>

\* Put: a temporary file is created, written, synced and renamed, then the directory
\* is synced. Whatever fails, the command shows what it fetched.
Create(p) ==
  /\ In(p, "create")
  /\ Set(p, [pc |-> "write", temp |-> [at |-> time, whole |-> FALSE, synced |-> FALSE]])
  /\ UNCHANGED <<time, entry, survivors, pruner>>

\* The file is renamed without a sync.
WriteUnsynced(p) ==
  /\ In(p, "write")
  /\ Set(p, [pc |-> "rename", temp |-> [reader[p].temp EXCEPT !.whole = TRUE]])
  /\ UNCHANGED <<time, entry, survivors, pruner>>

Write(p) ==
  /\ In(p, "write")
  /\ Set(p, [pc |-> "sync", temp |-> [reader[p].temp EXCEPT !.whole = TRUE]])
  /\ UNCHANGED <<time, entry, survivors, pruner>>

Sync(p) ==
  /\ In(p, "sync")
  /\ Set(p, [pc |-> "rename", temp |-> [reader[p].temp EXCEPT !.synced = TRUE]])
  /\ UNCHANGED <<time, entry, survivors, pruner>>

Replace(p) ==
  /\ In(p, "rename")
  /\ Rename(reader[p].temp)
  /\ Set(p, [pc |-> "sync_directory", temp |-> None])
  /\ UNCHANGED <<time, pruner>>

SyncDirectory(p) ==
  /\ In(p, "sync_directory")
  /\ survivors' = {entry}
  /\ Finish(p)
  /\ UNCHANGED <<time, entry, pruner>>

PutFails(p) ==
  /\ reader[p].pc \in {"create", "write", "sync", "rename", "sync_directory"}
  /\ Finish(p)
  /\ UNCHANGED <<time, entry, survivors, pruner>>

KillReader(p) ==
  /\ reader[p].pc \notin {"idle", "done"}
  /\ Finish(p)
  /\ UNCHANGED <<time, entry, survivors, pruner>>

----------------------------------------------------------------------------
(* Prune: the entry is read, judged, and its name removed, in three steps. *)

StartPrune(q) ==
  /\ pruner[q].pc = "idle"
  /\ pruner' = [pruner EXCEPT ![q] = [pc |-> "judge", now |-> time]]
  /\ UNCHANGED <<time, entry, survivors, reader>>

Judge(q) ==
  /\ pruner[q].pc = "judge"
  /\ LET old == entry # None /\ Decodes(entry) /\ pruner[q].now - entry.at >= PruneAge
     IN pruner' = [pruner EXCEPT ![q].pc = IF old THEN "remove" ELSE "done"]
  /\ UNCHANGED <<time, entry, survivors, reader>>

\* The name is removed, whatever file it denotes by now; a failure is only reported.
Remove(q) ==
  /\ pruner[q].pc = "remove"
  /\ \/ Rename(None)
     \/ UNCHANGED <<entry, survivors>>
  /\ pruner' = [pruner EXCEPT ![q].pc = "done"]
  /\ UNCHANGED <<time, reader>>

----------------------------------------------------------------------------
(* The world *)

PassTime ==
  /\ time < MaxClock
  /\ time' = time + 1
  /\ UNCHANGED <<entry, survivors, reader, pruner>>

\* Every process dies; a file that was not synced may be torn.
AfterPowerLoss(file) ==
  IF file = None \/ file.synced THEN {file} ELSE {file, [file EXCEPT !.whole = FALSE]}
PowerLoss ==
  /\ entry' \in UNION {AfterPowerLoss(file) : file \in survivors}
  /\ survivors' = {entry'}
  /\ reader' = [p \in Readers |-> IF reader[p].pc = "idle" THEN reader[p] ELSE [Idle EXCEPT !.pc = "done"]]
  /\ pruner' = [q \in Pruners |-> IF pruner[q].pc = "idle" THEN pruner[q] ELSE [Resting EXCEPT !.pc = "done"]]
  /\ UNCHANGED time

CacheNext ==
  \/ \E p \in Readers :
       \/ Ask(p) \/ Find(p) \/ Read(p) \/ FileFails(p) \/ Fetch(p) \/ FetchUncached(p)
       \/ Create(p) \/ Write(p) \/ Sync(p) \/ Replace(p) \/ SyncDirectory(p) \/ PutFails(p) \/ KillReader(p)
  \/ \E q \in Pruners : StartPrune(q) \/ Judge(q) \/ Remove(q)
  \/ PassTime \/ PowerLoss

CacheSpec == CacheInit /\ [][CacheNext]_cacheVars

----------------------------------------------------------------------------
(* Properties *)

CacheTypeOK ==
  /\ time \in 0..MaxClock
  /\ entry \in {None} \union Files /\ survivors \subseteq ({None} \union Files) /\ entry \in survivors
  /\ reader \in [Readers ->
       [pc: {"idle", "find", "read", "fetch", "uncached", "create", "write", "sync", "rename",
             "sync_directory", "done"},
        now: 0..MaxClock, temp: {None} \union Files]]
  /\ pruner \in [Pruners -> [pc: {"idle", "judge", "remove", "done"}, now: 0..MaxClock]]

\* A file that is found under the entry's name is whole, at any moment and after a
\* loss of power at any moment: readers may take what decodes for what was put.
EntryIsWhole == \A file \in survivors : file # None => file.whole /\ file.synced
=============================================================================
