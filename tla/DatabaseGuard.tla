---------------------------- MODULE DatabaseGuard ----------------------------
(***************************************************************************)
(* The two private cross-process locks of skout and everything that takes  *)
(* them: commands that open the SQLite store, foreground synchronizations  *)
(* (on their own or run by a fantasy command whose data is too old),       *)
(* the read-only status inspection, and reset, which deletes the four      *)
(* files of the database family one after the other.                       *)
(*                                                                         *)
(* internal/store/lock.go   the operation lock (flock, never blocking)     *)
(* internal/store/store.go  Open, OpenAtWithClock and Close                *)
(* internal/app/sync.go, sync_sources.go   the synchronization lock        *)
(* internal/app/local.go    status under a shared lock                     *)
(* internal/app/reset.go    reset                                          *)
(*                                                                         *)
(* SQLite is external and modelled by which files it creates and needs:    *)
(* converting to WAL mode writes a rollback journal, a commit lives in     *)
(* the -wal file until the last writer closes, and a process that dies     *)
(* leaves both behind for the next one to recover from.                    *)
(***************************************************************************)
EXTENDS Naturals, FiniteSets

CONSTANTS
  Commands,     \* command processes that open the store for writing
  Syncs,        \* synchronizations, each a process or part of a command
  Inspectors,   \* status processes
  Resets,       \* reset processes
  Parent,       \* Parent[s]: the command that runs s, or Nobody
  Nobody        \* no process

Openers == Commands \cup Syncs
Users == Openers \cup Inspectors
Procs == Users \cup Resets

ASSUME ProcsAssumption ==
  /\ Commands \cap Syncs = {}
  /\ Openers \cap Inspectors = {}
  /\ Users \cap Resets = {}
  /\ Nobody \notin Procs
  /\ Parent \in [Syncs -> Commands \cup {Nobody}]

\* The database family, which reset walks in this order.
Family == {"db", "wal", "shm", "journal"}
Position == [f \in Family |-> CASE f = "db" -> 1
                                [] f = "wal" -> 2
                                [] f = "shm" -> 3
                                [] f = "journal" -> 4]

VARIABLES
  pc,           \* where each process stands
  mode,         \* the operation lock each process holds
  syncLock,     \* the synchronization that holds the other lock
  files,        \* the family members that exist
  needed,       \* the auxiliary files without which "db" is not complete
  pending,      \* pending[r]: what reset r found and still has to delete
  removed,      \* removed[r]: what this run of r has deleted
  report        \* report[r]: what r tells its user

vars == <<pc, mode, syncLock, files, needed, pending, removed, report>>
resetVars == <<pending, removed, report>>
diskVars == <<files, needed>>

OpenerPC == {"idle", "begun", "guarded", "prepared", "converting", "open",
             "waiting", "working", "closed", "released"}
ResetPC == {"idle", "preflight", "prompt", "confirmed", "revalidate",
            "deleting", "releasing"}
Reports == {"none", "absent", "cancelled", "refused", "not deleted",
            "incomplete", "deleted"}

Init ==
  /\ pc = [p \in Procs |-> "idle"]
  /\ mode = [p \in Procs |-> "none"]
  /\ syncLock = Nobody
  /\ files \in {{}, {"db"}, {"db", "wal", "shm"}, {"wal", "shm"}}
  /\ needed \in SUBSET (IF "db" \in files THEN files \cap {"wal"} ELSE {})
  /\ pending = [r \in Resets |-> {}]
  /\ removed = [r \in Resets |-> {}]
  /\ report = [r \in Resets |-> "none"]

Goto(p, to) == pc' = [pc EXCEPT ![p] = to]

\* A process that has begun to use the SQLite file and has not closed it.
Using == {"prepared", "converting", "open", "waiting", "working"}
Connected(p) == p \in Users /\ pc[p] \in Using

(***************************************************************************)
(* The operation lock: flock with LOCK_NB on a file nobody ever deletes.   *)
(***************************************************************************)

\* Fault: an exclusive request that is granted beside shared holders.
GrantableBesideShared(p, m) == \A q \in Procs \ {p} : mode[q] # "exclusive"

Grantable(p, m) ==
  \A q \in Procs \ {p} : IF m = "exclusive" THEN mode[q] = "none"
                                            ELSE mode[q] # "exclusive"

Acquire(p, m) ==
  /\ Grantable(p, m)
  /\ mode' = [mode EXCEPT ![p] = m]

Release(p) == mode' = [mode EXCEPT ![p] = "none"]

(***************************************************************************)
(* Synchronizations take the synchronization lock first and return it      *)
(* last: the deferred Close of the store runs before the deferred release. *)
(***************************************************************************)

\* Fault: the lock is taken in the name of the command that runs the sync.
AcquireSyncGuardForParent(s) ==
  /\ pc[s] = "idle"
  /\ syncLock = Nobody
  /\ Parent[s] # Nobody
  /\ pc[Parent[s]] = "open"
  /\ syncLock' = Parent[s]
  /\ pc' = [pc EXCEPT ![s] = "begun", ![Parent[s]] = "waiting"]
  /\ UNCHANGED <<mode, diskVars, resetVars>>

\* The synchronization lock is free: a standalone sync starts, or a fantasy
\* command that already holds its own connection runs one and waits for it.
AcquireSyncGuard(s) ==
  /\ pc[s] = "idle"
  /\ syncLock = Nobody
  /\ syncLock' = s
  /\ IF Parent[s] = Nobody
       THEN Goto(s, "begun")
       ELSE /\ pc[Parent[s]] = "open"
            /\ pc' = [pc EXCEPT ![s] = "begun", ![Parent[s]] = "waiting"]
  /\ UNCHANGED <<mode, diskVars, resetVars>>

\* Fault: a command whose sync is refused starts it all the same.
IgnoreRefusedSync(s) ==
  /\ Parent[s] # Nobody
  /\ pc[Parent[s]] = "open"
  /\ syncLock # Nobody
  /\ pc' = [pc EXCEPT ![s] = "begun", ![Parent[s]] = "waiting"]
  /\ UNCHANGED <<mode, syncLock, diskVars, resetVars>>

\* Another synchronization is running: the command goes on without one.
RefuseAutoSync(s) ==
  /\ Parent[s] # Nobody
  /\ pc[Parent[s]] = "open"
  /\ syncLock # Nobody
  /\ Goto(Parent[s], "working")
  /\ UNCHANGED <<mode, syncLock, diskVars, resetVars>>

ReleaseSyncGuard(s) ==
  /\ pc[s] = "released"
  /\ syncLock' = Nobody
  /\ IF Parent[s] = Nobody
       THEN Goto(s, "idle")
       ELSE pc' = [pc EXCEPT ![s] = "idle", ![Parent[s]] = "working"]
  /\ UNCHANGED <<mode, diskVars, resetVars>>

(***************************************************************************)
(* Open: guard, file, journal mode; Close: connection, then guard.         *)
(***************************************************************************)
Entry(p) == IF p \in Syncs THEN "begun" ELSE "idle"
Exit(p) == IF p \in Syncs THEN "released" ELSE "idle"

AcquireShared(p) ==
  /\ pc[p] = Entry(p)
  /\ Acquire(p, "shared")
  /\ Goto(p, "guarded")
  /\ UNCHANGED <<syncLock, diskVars, resetVars>>

\* LOCK_NB: a guard that is taken is an error at once. The command ends.
RefuseShared(p) ==
  /\ pc[p] = Entry(p)
  /\ ~Grantable(p, "shared")
  /\ Goto(p, Exit(p))
  /\ UNCHANGED <<mode, syncLock, diskVars, resetVars>>

\* O_CREATE|O_EXCL: a database that is not there begins as an empty file,
\* and SQLite ignores auxiliary files left beside an empty database.
PreparePath(p) ==
  /\ pc[p] = "guarded"
  /\ Goto(p, "prepared")
  /\ files' = files \cup {"db"}
  /\ needed' = IF "db" \in files THEN needed ELSE {}
  /\ UNCHANGED <<mode, syncLock, resetVars>>

\* The switch to WAL rewrites the header under a rollback journal.
BeginConversion(p) ==
  /\ pc[p] = "prepared"
  /\ "wal" \notin needed
  /\ \A q \in Users \ {p} : ~Connected(q) \/ pc[q] = "prepared"
  /\ Goto(p, "converting")
  /\ files' = (files \ {"wal", "shm"}) \cup {"journal"}
  /\ needed' = needed \cup {"journal"}
  /\ UNCHANGED <<mode, syncLock, resetVars>>

EnableWAL(p) ==
  /\ pc[p] \in {"prepared", "converting"}
  /\ \A q \in Users \ {p} : pc[q] # "converting"
  /\ Goto(p, "open")
  /\ files' = (files \cup {"wal", "shm"}) \ {"journal"}
  /\ needed' = needed \ {"journal"}
  /\ UNCHANGED <<mode, syncLock, resetVars>>

\* A migration or a save: committed pages are in the -wal file alone.
Commit(p) ==
  /\ pc[p] \in {"open", "working"}
  /\ needed' = needed \cup {"wal"}
  /\ UNCHANGED <<pc, mode, syncLock, files, resetVars>>

\* Fault: Open returns its error without closing the guard.
FailOpenKeepingGuard(p) ==
  /\ pc[p] \in {"guarded", "prepared", "converting"}
  /\ Goto(p, Exit(p))
  /\ UNCHANGED <<mode, syncLock, diskVars, resetVars>>

\* preparePath, a pragma or the schema check fails: closeOnError, and Open
\* still returns the guard.
FailOpen(p) ==
  /\ pc[p] \in {"guarded", "prepared", "converting"}
  /\ Goto(p, "closed")
  /\ IF pc[p] = "converting"
       THEN files' = files \ {"journal"} /\ needed' = needed \ {"journal"}
       ELSE UNCHANGED diskVars
  /\ UNCHANGED <<mode, syncLock, resetVars>>

\* The last connection to close folds the -wal file back and removes it.
CloseConnection(p) ==
  /\ pc[p] \in {"open", "working"}
  /\ Goto(p, "closed")
  /\ IF \A q \in Users \ {p} : ~Connected(q)
       THEN files' = files \ {"wal", "shm"} /\ needed' = needed \ {"wal"}
       ELSE UNCHANGED diskVars
  /\ UNCHANGED <<mode, syncLock, resetVars>>

CloseGuard(p) ==
  /\ pc[p] = "closed"
  /\ Release(p)
  /\ Goto(p, Exit(p))
  /\ UNCHANGED <<syncLock, diskVars, resetVars>>

(***************************************************************************)
(* Status looks at the file under a shared guard, and only if it is there. *)
(***************************************************************************)

\* Fault: the inspection opens the path without asking whether it exists.
InspectUnchecked(i) ==
  /\ pc[i] = "guarded"
  /\ Goto(i, "open")
  /\ UNCHANGED <<mode, syncLock, diskVars, resetVars>>

InspectStatus(i) ==
  /\ pc[i] = "guarded"
  /\ IF "db" \in files
       THEN /\ Goto(i, "open")
            /\ files' \in {files, files \cup {"wal", "shm"}}
       ELSE Goto(i, "closed") /\ UNCHANGED files
  /\ UNCHANGED <<mode, syncLock, needed, resetVars>>

\* A read-only connection never folds the -wal file back.
EndInspection(i) ==
  /\ pc[i] = "open"
  /\ Goto(i, "closed")
  /\ UNCHANGED <<mode, syncLock, diskVars, resetVars>>

(***************************************************************************)
(* Reset: look under the exclusive guard, let go of it while the user      *)
(* decides, take it again, look again, and delete in family order.         *)
(***************************************************************************)
AcquirePreflight(r) ==
  /\ pc[r] = "idle"
  /\ Acquire(r, "exclusive")
  /\ Goto(r, "preflight")
  /\ removed' = [removed EXCEPT ![r] = {}]
  /\ report' = [report EXCEPT ![r] = "none"]
  /\ UNCHANGED <<syncLock, diskVars, pending>>

\* Fault: once confirmed, reset waits for the guard instead of failing.
RefuseResetOnlyAtFirst(r) ==
  /\ pc[r] = "idle"
  /\ ~Grantable(r, "exclusive")
  /\ removed' = [removed EXCEPT ![r] = {}]
  /\ report' = [report EXCEPT ![r] = "refused"]
  /\ UNCHANGED <<pc, mode, syncLock, diskVars, pending>>

RefuseReset(r) ==
  /\ pc[r] \in {"idle", "confirmed"}
  /\ ~Grantable(r, "exclusive")
  /\ Goto(r, "idle")
  /\ removed' = [removed EXCEPT ![r] = {}]
  /\ report' = [report EXCEPT ![r] = "refused"]
  /\ UNCHANGED <<mode, syncLock, diskVars, pending>>

\* Inspection and release are one call; the guard is returned either way.
InspectPreflight(r) ==
  /\ pc[r] = "preflight"
  /\ Release(r)
  /\ \/ /\ files # {}
        /\ Goto(r, "prompt")
        /\ UNCHANGED report
     \/ /\ files = {}
        /\ Goto(r, "idle")
        /\ report' = [report EXCEPT ![r] = "absent"]
     \/ /\ Goto(r, "idle")
        /\ report' = [report EXCEPT ![r] = "not deleted"]
  /\ UNCHANGED <<syncLock, diskVars, pending, removed>>

Answer(r) ==
  /\ pc[r] = "prompt"
  /\ \/ Goto(r, "confirmed") /\ UNCHANGED report
     \/ Goto(r, "idle") /\ report' = [report EXCEPT ![r] = "cancelled"]
  /\ UNCHANGED <<mode, syncLock, diskVars, pending, removed>>

AcquireReset(r) ==
  /\ pc[r] = "confirmed"
  /\ Acquire(r, "exclusive")
  /\ Goto(r, "revalidate")
  /\ UNCHANGED <<syncLock, diskVars, resetVars>>

\* Fault: what preflight saw is taken as still there.
TrustPreflight(r) ==
  /\ pc[r] = "revalidate"
  /\ pending' = [pending EXCEPT ![r] = Family]
  /\ Goto(r, "deleting")
  /\ UNCHANGED <<mode, syncLock, diskVars, removed, report>>

\* What preflight saw may be gone: the family is inspected again.
Revalidate(r) ==
  /\ pc[r] = "revalidate"
  /\ \/ /\ files # {}
        /\ pending' = [pending EXCEPT ![r] = files]
        /\ Goto(r, "deleting")
        /\ UNCHANGED report
     \/ /\ files = {}
        /\ Goto(r, "releasing")
        /\ report' = [report EXCEPT ![r] = "absent"]
        /\ UNCHANGED pending
     \/ /\ Goto(r, "releasing")
        /\ report' = [report EXCEPT ![r] = "not deleted"]
        /\ UNCHANGED pending
  /\ UNCHANGED <<mode, syncLock, diskVars, removed>>

\* Fault: the family is walked from its last member to its first.
IsLastTarget(r, f) ==
  /\ f \in pending[r]
  /\ \A g \in pending[r] : Position[f] >= Position[g]

\* The next target of the deletion loop.
IsNextTarget(r, f) ==
  /\ f \in pending[r]
  /\ \A g \in pending[r] : Position[f] <= Position[g]

\* A target that has vanished is skipped and not reported as removed.
RemoveNext(r) ==
  /\ pc[r] = "deleting"
  /\ \E f \in Family :
       /\ IsNextTarget(r, f)
       /\ pending' = [pending EXCEPT ![r] = @ \ {f}]
       /\ removed' = [removed EXCEPT ![r] = @ \cup ({f} \cap files)]
       /\ files' = files \ {f}
       /\ needed' = IF f = "db" THEN {} ELSE needed
  /\ UNCHANGED <<pc, mode, syncLock, report>>

\* Fault: a target is listed as removed before it is.
RemoveFailsListed(r) ==
  /\ pc[r] = "deleting"
  /\ pending[r] # {}
  /\ Goto(r, "releasing")
  /\ \E f \in Family :
       IsNextTarget(r, f) /\ removed' = [removed EXCEPT ![r] = @ \cup {f}]
  /\ pending' = [pending EXCEPT ![r] = {}]
  /\ report' = [report EXCEPT ![r] = "incomplete"]
  /\ UNCHANGED <<mode, syncLock, diskVars>>

\* Lstat or Remove fails: the loop stops where it is.
RemoveFails(r) ==
  /\ pc[r] = "deleting"
  /\ pending[r] # {}
  /\ Goto(r, "releasing")
  /\ pending' = [pending EXCEPT ![r] = {}]
  /\ report' = [report EXCEPT ![r] = "incomplete"]
  /\ UNCHANGED <<mode, syncLock, diskVars, removed>>

\* The family is inspected once more before success is claimed.
VerifyDeletion(r) ==
  /\ pc[r] = "deleting"
  /\ pending[r] = {}
  /\ Goto(r, "releasing")
  /\ \/ files = {} /\ report' = [report EXCEPT ![r] = "deleted"]
     \/ report' = [report EXCEPT ![r] = "incomplete"]
  /\ UNCHANGED <<mode, syncLock, diskVars, pending, removed>>

ReleaseReset(r) ==
  /\ pc[r] = "releasing"
  /\ Release(r)
  /\ Goto(r, "idle")
  /\ UNCHANGED <<syncLock, diskVars, resetVars>>

(***************************************************************************)
(* A process dies: the kernel closes its descriptors and with them both    *)
(* locks; the files stay as they are. A command takes its sync with it.    *)
(***************************************************************************)
Dying(p) == {p} \cup {s \in Syncs : Parent[s] = p}

Kill(p) ==
  /\ p \notin {s \in Syncs : Parent[s] # Nobody}
  /\ pc[p] # "idle"
  /\ pc' = [q \in Procs |-> IF q \in Dying(p) THEN "idle" ELSE pc[q]]
  /\ mode' = [q \in Procs |-> IF q \in Dying(p) THEN "none" ELSE mode[q]]
  /\ syncLock' = IF syncLock \in Dying(p) THEN Nobody ELSE syncLock
  /\ pending' = [r \in Resets |-> IF r = p THEN {} ELSE pending[r]]
  /\ UNCHANGED <<diskVars, removed, report>>

SyncStep(s) == AcquireSyncGuard(s) \/ RefuseAutoSync(s) \/ ReleaseSyncGuard(s)
Open(p) ==
  \/ PreparePath(p)
  \/ BeginConversion(p)
  \/ EnableWAL(p)
  \/ FailOpen(p)
Close(p) == CloseConnection(p) \/ CloseGuard(p)
InspectorStep(i) == InspectStatus(i) \/ EndInspection(i) \/ CloseGuard(i)
ResetStep(r) ==
  \/ InspectPreflight(r) \/ AcquireReset(r) \/ RefuseReset(r) \/ Revalidate(r)
  \/ RemoveNext(r) \/ RemoveFails(r) \/ VerifyDeletion(r) \/ ReleaseReset(r)

Next ==
  \/ \E s \in Syncs : SyncStep(s)
  \/ \E p \in Users : AcquireShared(p) \/ RefuseShared(p)
  \/ \E p \in Openers : Open(p) \/ Commit(p) \/ Close(p)
  \/ \E i \in Inspectors : InspectorStep(i)
  \/ \E r \in Resets : AcquirePreflight(r) \/ Answer(r) \/ ResetStep(r)
  \/ \E p \in Procs : Kill(p)

Spec == Init /\ [][Next]_vars

(***************************************************************************)
(* Once begun, every process runs on: nothing here waits without a bound   *)
(* (flock never blocks, SQLite gives up after busy_timeout, every request  *)
(* has a deadline). Nobody has to start a command, answer the prompt or    *)
(* die.                                                                    *)
(***************************************************************************)
Fairness ==
  /\ \A s \in Syncs :
       /\ WF_vars(ReleaseSyncGuard(s))
       /\ WF_vars(AcquireShared(s) \/ RefuseShared(s))
  /\ \A p \in Openers : WF_vars(Open(p)) /\ WF_vars(Close(p))
  /\ \A i \in Inspectors : WF_vars(InspectorStep(i))
  /\ \A r \in Resets : WF_vars(pc[r] # "idle" /\ ResetStep(r))

FairSpec == Spec /\ Fairness

(***************************************************************************)
(* Properties                                                              *)
(***************************************************************************)

\* Every variable has its type.
TypeOK ==
  /\ pc \in [Procs -> OpenerPC \cup ResetPC]
  /\ mode \in [Procs -> {"none", "shared", "exclusive"}]
  /\ syncLock \in Syncs \cup {Nobody}
  /\ files \subseteq Family
  /\ needed \subseteq {"wal", "journal"}
  /\ pending \in [Resets -> SUBSET Family]
  /\ removed \in [Resets -> SUBSET Family]
  /\ report \in [Resets -> Reports]

\* While reset deletes, nobody has the database open: the shared guard that
\* Open takes and the exclusive guard of reset keep them apart, across every
\* crash, refusal and failed open.
NoRemovalUnderOpenStore ==
  \A r \in Resets, p \in Users : pc[r] = "deleting" => ~Connected(p)

\* As long as the primary file is there, so is every auxiliary file its
\* content depends on: a reset that fails or dies half way never leaves a
\* database that has lost its committed pages or its rollback journal.
NoTornDatabase == "db" \in files => needed \subseteq files

\* What reset tells its user is what it did to the family. Success is told when
\* a file was removed and none is left. An incomplete deletion, which lists what
\* it removed and what remains, has something to list, and nothing it lists as
\* removed is there. Every other report is of a reset that removed nothing.
ReportMatchesEffect ==
  \A r \in Resets :
    /\ report[r] = "deleted" => removed[r] # {}
    /\ report[r] = "deleted" /\ pc[r] = "releasing" => files = {}
    /\ report[r] = "incomplete" /\ pc[r] = "releasing" =>
         removed[r] \cap files = {} /\ removed[r] \cup files # {}
    /\ report[r] \in {"absent", "cancelled", "refused", "not deleted"} =>
         removed[r] = {}

\* A synchronization under way owns the synchronization lock, so there is one
\* at most, and the command that runs it keeps its connection and waits: it
\* neither reads nor closes what its synchronization is replacing.
SyncOwnsItsRun ==
  \A s \in Syncs :
    pc[s] # "idle" =>
      /\ syncLock = s
      /\ Parent[s] # Nobody => pc[Parent[s]] = "waiting"

\* A reset the user confirmed comes to an end.
ConfirmedResetEnds == \A r \in Resets : pc[r] = "confirmed" ~> pc[r] = "idle"

\* The operation lock is never kept: every path, the failing ones included,
\* gives it back.
GuardIsReturned == \A p \in Procs : mode[p] # "none" ~> mode[p] = "none"

\* The database is what LocalDatabase says: used by whoever joins, and gone
\* only while nobody uses it.
Local == INSTANCE LocalDatabase
           WITH Users <- Users, users <- {p \in Users : Connected(p)},
                present <- "db" \in files
ImplementsLocalDatabase == Local!Spec
==============================================================================
