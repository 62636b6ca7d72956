------------------------- MODULE DatabaseGuardProofs -------------------------
(***************************************************************************)
(* What the two locks guarantee for any number of commands, syncs, status  *)
(* commands and resets: no removal under an open store, no torn database,  *)
(* one sync at a time. Inv is the inductive invariant they all follow      *)
(* from.                                                                   *)
(***************************************************************************)
EXTENDS DatabaseGuard, TLAPS

\* Openers and inspectors stand where openers stand, resets where resets do.
RolesOK ==
  /\ \A p \in Users : pc[p] \in OpenerPC
  /\ \A r \in Resets : pc[r] \in ResetPC

\* The lock a process holds follows from where it stands.
Sharing == Using \cup {"guarded", "closed"}
Excluding == {"preflight", "revalidate", "deleting", "releasing"}
ModeFollowsPC ==
  /\ \A p \in Users :
       mode[p] = IF pc[p] \in Sharing THEN "shared" ELSE "none"
  /\ \A r \in Resets :
       mode[r] = IF pc[r] \in Excluding THEN "exclusive" ELSE "none"

\* flock: whoever holds the lock exclusively holds it alone.
ExclusiveAlone ==
  \A p, q \in Procs : p # q /\ mode[p] = "exclusive" => mode[q] = "none"

\* A connected process has its file, an open store its -wal file too.
OpenHasFiles ==
  /\ \A p \in Users : pc[p] \in Using => "db" \in files
  /\ \A p \in Openers :
       pc[p] \in {"open", "waiting", "working"} => "wal" \in files

\* The deletion loop has every file that is left in its list.
DeletingAll == \A r \in Resets : pc[r] = "deleting" => files \subseteq pending[r]

Inv ==
  /\ TypeOK
  /\ RolesOK
  /\ ModeFollowsPC
  /\ ExclusiveAlone
  /\ SyncOwnsItsRun
  /\ OpenHasFiles
  /\ DeletingAll
  /\ NoTornDatabase


\* Inv holds at the start: nobody holds anything.
LEMMA InitInv == Init => Inv
<1> SUFFICES ASSUME Init PROVE Inv OBVIOUS
<1> USE ProcsAssumption DEF Init, Procs, Users, Openers
<1>1. TypeOK BY DEF TypeOK, OpenerPC, Reports, Family
<1>2. RolesOK BY DEF RolesOK, OpenerPC, ResetPC
<1>3. ModeFollowsPC BY DEF ModeFollowsPC, Sharing, Using, Excluding
<1>4. ExclusiveAlone BY DEF ExclusiveAlone
<1>5. SyncOwnsItsRun BY DEF SyncOwnsItsRun
<1>6. OpenHasFiles BY DEF OpenHasFiles, Using
<1>7. DeletingAll BY DEF DeletingAll
<1>8. NoTornDatabase BY DEF NoTornDatabase
<1> QED BY <1>1, <1>2, <1>3, <1>4, <1>5, <1>6, <1>7, <1>8 DEF Inv

\* A free lock means no sync is under way, so the parent of this one was open.
LEMMA AcquireSyncGuardInv ==
  ASSUME Inv, NEW s \in Syncs, AcquireSyncGuard(s) PROVE Inv'
<1> USE ProcsAssumption DEF AcquireSyncGuard, Inv, Goto, diskVars, resetVars, Procs, Users,
                            Openers
<1>1. TypeOK' BY DEF TypeOK, OpenerPC, ResetPC, Reports, Family
<1>2. RolesOK' BY DEF TypeOK, RolesOK, OpenerPC, ResetPC
<1>3. ModeFollowsPC'
  BY DEF TypeOK, RolesOK, ModeFollowsPC, Sharing, Using, Excluding, OpenerPC, ResetPC, SyncOwnsItsRun
<1>4. ExclusiveAlone' BY DEF TypeOK, ExclusiveAlone
<1>5. SyncOwnsItsRun' BY DEF TypeOK, SyncOwnsItsRun
<1>6. OpenHasFiles'
  BY DEF TypeOK, OpenHasFiles, ModeFollowsPC, ExclusiveAlone, Sharing, Using, Excluding
<1>7. DeletingAll'
  BY DEF TypeOK, DeletingAll, ModeFollowsPC, ExclusiveAlone, Sharing, Using, Excluding
<1>8. NoTornDatabase' BY DEF TypeOK, NoTornDatabase, OpenHasFiles, DeletingAll, Position, Family
<1> QED BY <1>1, <1>2, <1>3, <1>4, <1>5, <1>6, <1>7, <1>8

\* The parent was open, so none of its syncs is under way.
LEMMA RefuseAutoSyncInv ==
  ASSUME Inv, NEW s \in Syncs, RefuseAutoSync(s) PROVE Inv'
<1> USE ProcsAssumption DEF RefuseAutoSync, Inv, Goto, diskVars, resetVars, Procs, Users,
                            Openers
<1>1. TypeOK' BY DEF TypeOK, OpenerPC, ResetPC, Reports, Family
<1>2. RolesOK' BY DEF TypeOK, RolesOK, OpenerPC, ResetPC
<1>3. ModeFollowsPC'
  BY DEF TypeOK, RolesOK, ModeFollowsPC, Sharing, Using, Excluding, OpenerPC, ResetPC, SyncOwnsItsRun
<1>4. ExclusiveAlone' BY DEF TypeOK, ExclusiveAlone
<1>5. SyncOwnsItsRun' BY DEF TypeOK, SyncOwnsItsRun
<1>6. OpenHasFiles'
  BY DEF TypeOK, OpenHasFiles, ModeFollowsPC, ExclusiveAlone, Sharing, Using, Excluding
<1>7. DeletingAll'
  BY DEF TypeOK, DeletingAll, ModeFollowsPC, ExclusiveAlone, Sharing, Using, Excluding
<1>8. NoTornDatabase' BY DEF TypeOK, NoTornDatabase, OpenHasFiles, DeletingAll, Position, Family
<1> QED BY <1>1, <1>2, <1>3, <1>4, <1>5, <1>6, <1>7, <1>8

\* The parent was waiting and is connected still.
LEMMA ReleaseSyncGuardInv ==
  ASSUME Inv, NEW s \in Syncs, ReleaseSyncGuard(s) PROVE Inv'
<1> USE ProcsAssumption DEF ReleaseSyncGuard, Inv, Goto, diskVars, resetVars, Procs, Users,
                            Openers
<1>1. TypeOK' BY DEF TypeOK, OpenerPC, ResetPC, Reports, Family
<1>2. RolesOK' BY DEF TypeOK, RolesOK, OpenerPC, ResetPC
<1>3. ModeFollowsPC'
  BY DEF TypeOK, RolesOK, ModeFollowsPC, Sharing, Using, Excluding, OpenerPC, ResetPC, SyncOwnsItsRun
<1>4. ExclusiveAlone' BY DEF TypeOK, ExclusiveAlone
<1>5. SyncOwnsItsRun' BY DEF TypeOK, SyncOwnsItsRun
<1>6. OpenHasFiles'
  BY DEF TypeOK, OpenHasFiles, SyncOwnsItsRun, ModeFollowsPC, ExclusiveAlone, Sharing, Using, Excluding
<1>7. DeletingAll'
  BY DEF TypeOK, DeletingAll, ModeFollowsPC, ExclusiveAlone, Sharing, Using, Excluding
<1>8. NoTornDatabase' BY DEF TypeOK, NoTornDatabase, OpenHasFiles, DeletingAll, Position, Family
<1> QED BY <1>1, <1>2, <1>3, <1>4, <1>5, <1>6, <1>7, <1>8

\* The shared lock was granted: nobody holds it exclusively.
LEMMA AcquireSharedInv ==
  ASSUME Inv, NEW p \in Users, AcquireShared(p) PROVE Inv'
<1> USE ProcsAssumption DEF AcquireShared, Inv, Goto, diskVars, resetVars, Procs, Users,
                            Openers, Acquire, Grantable, Entry
<1>1. TypeOK' BY DEF TypeOK, OpenerPC, ResetPC, Reports, Family
<1>2. RolesOK' BY DEF TypeOK, RolesOK, OpenerPC, ResetPC
<1>3. ModeFollowsPC'
  BY DEF TypeOK, RolesOK, ModeFollowsPC, Sharing, Using, Excluding, OpenerPC, ResetPC, SyncOwnsItsRun
<1>4. ExclusiveAlone' BY DEF TypeOK, ExclusiveAlone
<1>5. SyncOwnsItsRun' BY DEF TypeOK, SyncOwnsItsRun
<1>6. OpenHasFiles'
  BY DEF TypeOK, OpenHasFiles, ModeFollowsPC, ExclusiveAlone, Sharing, Using, Excluding
<1>7. DeletingAll'
  BY DEF TypeOK, DeletingAll, ModeFollowsPC, ExclusiveAlone, Sharing, Using, Excluding
<1>8. NoTornDatabase' BY DEF TypeOK, NoTornDatabase, OpenHasFiles, DeletingAll, Position, Family
<1> QED BY <1>1, <1>2, <1>3, <1>4, <1>5, <1>6, <1>7, <1>8

\* A refusal leaves both locks and all files alone.
LEMMA RefuseSharedInv ==
  ASSUME Inv, NEW p \in Users, RefuseShared(p) PROVE Inv'
<1> USE ProcsAssumption DEF RefuseShared, Inv, Goto, diskVars, resetVars, Procs, Users,
                            Openers, Entry, Exit
<1>1. TypeOK' BY DEF TypeOK, OpenerPC, ResetPC, Reports, Family
<1>2. RolesOK' BY DEF TypeOK, RolesOK, OpenerPC, ResetPC
<1>3. ModeFollowsPC'
  BY DEF TypeOK, RolesOK, ModeFollowsPC, Sharing, Using, Excluding, OpenerPC, ResetPC, SyncOwnsItsRun
<1>4. ExclusiveAlone' BY DEF TypeOK, ExclusiveAlone
<1>5. SyncOwnsItsRun' BY DEF TypeOK, SyncOwnsItsRun
<1>6. OpenHasFiles'
  BY DEF TypeOK, OpenHasFiles, ModeFollowsPC, ExclusiveAlone, Sharing, Using, Excluding
<1>7. DeletingAll'
  BY DEF TypeOK, DeletingAll, ModeFollowsPC, ExclusiveAlone, Sharing, Using, Excluding
<1>8. NoTornDatabase' BY DEF TypeOK, NoTornDatabase, OpenHasFiles, DeletingAll, Position, Family
<1> QED BY <1>1, <1>2, <1>3, <1>4, <1>5, <1>6, <1>7, <1>8

\* A database made anew depends on no auxiliary file.
LEMMA PreparePathInv ==
  ASSUME Inv, NEW p \in Openers, PreparePath(p) PROVE Inv'
<1> USE ProcsAssumption DEF PreparePath, Inv, Goto, diskVars, resetVars, Procs, Users,
                            Openers
<1>1. TypeOK' BY DEF TypeOK, OpenerPC, ResetPC, Reports, Family
<1>2. RolesOK' BY DEF TypeOK, RolesOK, OpenerPC, ResetPC
<1>3. ModeFollowsPC'
  BY DEF TypeOK, RolesOK, ModeFollowsPC, Sharing, Using, Excluding, OpenerPC, ResetPC, SyncOwnsItsRun
<1>4. ExclusiveAlone' BY DEF TypeOK, ExclusiveAlone
<1>5. SyncOwnsItsRun' BY DEF TypeOK, SyncOwnsItsRun
<1>6. OpenHasFiles'
  BY DEF TypeOK, OpenHasFiles, ModeFollowsPC, ExclusiveAlone, Sharing, Using, Excluding
<1>7. DeletingAll'
  BY DEF TypeOK, DeletingAll, ModeFollowsPC, ExclusiveAlone, Sharing, Using, Excluding
<1>8. NoTornDatabase' BY DEF TypeOK, NoTornDatabase, OpenHasFiles, DeletingAll, Position, Family
<1> QED BY <1>1, <1>2, <1>3, <1>4, <1>5, <1>6, <1>7, <1>8

\* The journal exists before the database depends on it.
LEMMA BeginConversionInv ==
  ASSUME Inv, NEW p \in Openers, BeginConversion(p) PROVE Inv'
<1> USE ProcsAssumption DEF BeginConversion, Inv, Goto, diskVars, resetVars, Procs, Users,
                            Openers, Connected, Using
<1>1. TypeOK' BY DEF TypeOK, OpenerPC, ResetPC, Reports, Family
<1>2. RolesOK' BY DEF TypeOK, RolesOK, OpenerPC, ResetPC
<1>3. ModeFollowsPC'
  BY DEF TypeOK, RolesOK, ModeFollowsPC, Sharing, Using, Excluding, OpenerPC, ResetPC, SyncOwnsItsRun
<1>4. ExclusiveAlone' BY DEF TypeOK, ExclusiveAlone
<1>5. SyncOwnsItsRun' BY DEF TypeOK, SyncOwnsItsRun
<1>6. OpenHasFiles'
  BY DEF TypeOK, OpenHasFiles, ModeFollowsPC, ExclusiveAlone, Sharing, Using, Excluding
<1>7. DeletingAll'
  BY DEF TypeOK, DeletingAll, ModeFollowsPC, ExclusiveAlone, Sharing, Using, Excluding
<1>8. NoTornDatabase' BY DEF TypeOK, NoTornDatabase, OpenHasFiles, DeletingAll, Position, Family
<1> QED BY <1>1, <1>2, <1>3, <1>4, <1>5, <1>6, <1>7, <1>8

\* The -wal file exists before the database depends on it.
LEMMA EnableWALInv ==
  ASSUME Inv, NEW p \in Openers, EnableWAL(p) PROVE Inv'
<1> USE ProcsAssumption DEF EnableWAL, Inv, Goto, diskVars, resetVars, Procs, Users,
                            Openers
<1>1. TypeOK' BY DEF TypeOK, OpenerPC, ResetPC, Reports, Family
<1>2. RolesOK' BY DEF TypeOK, RolesOK, OpenerPC, ResetPC
<1>3. ModeFollowsPC'
  BY DEF TypeOK, RolesOK, ModeFollowsPC, Sharing, Using, Excluding, OpenerPC, ResetPC, SyncOwnsItsRun
<1>4. ExclusiveAlone' BY DEF TypeOK, ExclusiveAlone
<1>5. SyncOwnsItsRun' BY DEF TypeOK, SyncOwnsItsRun
<1>6. OpenHasFiles'
  <2>1. "db" \in files BY DEF OpenHasFiles, Using
  <2>2. {"db", "wal"} \subseteq files' BY <2>1
  <2> QED BY <2>2 DEF OpenHasFiles
<1>7. DeletingAll'
  BY DEF TypeOK, DeletingAll, ModeFollowsPC, ExclusiveAlone, Sharing, Using, Excluding
<1>8. NoTornDatabase' BY DEF TypeOK, NoTornDatabase, OpenHasFiles, DeletingAll, Position, Family
<1> QED BY <1>1, <1>2, <1>3, <1>4, <1>5, <1>6, <1>7, <1>8

\* A failed open rolls its journal back before the file goes.
LEMMA FailOpenInv ==
  ASSUME Inv, NEW p \in Openers, FailOpen(p) PROVE Inv'
<1> USE ProcsAssumption DEF FailOpen, Inv, Goto, diskVars, resetVars, Procs, Users,
                            Openers
<1>1. TypeOK' BY DEF TypeOK, OpenerPC, ResetPC, Reports, Family
<1>2. RolesOK' BY DEF TypeOK, RolesOK, OpenerPC, ResetPC
<1>3. ModeFollowsPC'
  BY DEF TypeOK, RolesOK, ModeFollowsPC, Sharing, Using, Excluding, OpenerPC, ResetPC, SyncOwnsItsRun
<1>4. ExclusiveAlone' BY DEF TypeOK, ExclusiveAlone
<1>5. SyncOwnsItsRun' BY DEF TypeOK, SyncOwnsItsRun
<1>6. OpenHasFiles'
  BY DEF TypeOK, OpenHasFiles, ModeFollowsPC, ExclusiveAlone, Sharing, Using, Excluding
<1>7. DeletingAll'
  BY DEF TypeOK, DeletingAll, ModeFollowsPC, ExclusiveAlone, Sharing, Using, Excluding
<1>8. NoTornDatabase' BY DEF TypeOK, NoTornDatabase, OpenHasFiles, DeletingAll, Position, Family
<1> QED BY <1>1, <1>2, <1>3, <1>4, <1>5, <1>6, <1>7, <1>8

\* An open store has its -wal file.
LEMMA CommitInv ==
  ASSUME Inv, NEW p \in Openers, Commit(p) PROVE Inv'
<1> USE ProcsAssumption DEF Commit, Inv, Goto, diskVars, resetVars, Procs, Users,
                            Openers
<1>1. TypeOK' BY DEF TypeOK, OpenerPC, ResetPC, Reports, Family
<1>2. RolesOK' BY DEF TypeOK, RolesOK, OpenerPC, ResetPC
<1>3. ModeFollowsPC'
  BY DEF TypeOK, RolesOK, ModeFollowsPC, Sharing, Using, Excluding, OpenerPC, ResetPC, SyncOwnsItsRun
<1>4. ExclusiveAlone' BY DEF TypeOK, ExclusiveAlone
<1>5. SyncOwnsItsRun' BY DEF TypeOK, SyncOwnsItsRun
<1>6. OpenHasFiles'
  BY DEF TypeOK, OpenHasFiles, ModeFollowsPC, ExclusiveAlone, Sharing, Using, Excluding
<1>7. DeletingAll'
  BY DEF TypeOK, DeletingAll, ModeFollowsPC, ExclusiveAlone, Sharing, Using, Excluding
<1>8. NoTornDatabase' BY DEF TypeOK, NoTornDatabase, OpenHasFiles, DeletingAll, Position, Family
<1> QED BY <1>1, <1>2, <1>3, <1>4, <1>5, <1>6, <1>7, <1>8

\* The last one out folds the -wal file back before it goes.
LEMMA CloseConnectionInv ==
  ASSUME Inv, NEW p \in Openers, CloseConnection(p) PROVE Inv'
<1> USE ProcsAssumption DEF CloseConnection, Inv, Goto, diskVars, resetVars, Procs, Users,
                            Openers, Connected, Using
<1>1. TypeOK' BY DEF TypeOK, OpenerPC, ResetPC, Reports, Family
<1>2. RolesOK' BY DEF TypeOK, RolesOK, OpenerPC, ResetPC
<1>3. ModeFollowsPC'
  BY DEF TypeOK, RolesOK, ModeFollowsPC, Sharing, Using, Excluding, OpenerPC, ResetPC, SyncOwnsItsRun
<1>4. ExclusiveAlone' BY DEF TypeOK, ExclusiveAlone
<1>5. SyncOwnsItsRun' BY DEF TypeOK, SyncOwnsItsRun
<1>6. OpenHasFiles'
  BY DEF TypeOK, OpenHasFiles, ModeFollowsPC, ExclusiveAlone, Sharing, Using, Excluding
<1>7. DeletingAll'
  BY DEF TypeOK, DeletingAll, ModeFollowsPC, ExclusiveAlone, Sharing, Using, Excluding
<1>8. NoTornDatabase' BY DEF TypeOK, NoTornDatabase, OpenHasFiles, DeletingAll, Position, Family
<1> QED BY <1>1, <1>2, <1>3, <1>4, <1>5, <1>6, <1>7, <1>8

\* A process that gives the guard back is no longer connected.
LEMMA CloseGuardInv ==
  ASSUME Inv, NEW p \in Users, CloseGuard(p) PROVE Inv'
<1> USE ProcsAssumption DEF CloseGuard, Inv, Goto, diskVars, resetVars, Procs, Users,
                            Openers, Release, Exit
<1>1. TypeOK' BY DEF TypeOK, OpenerPC, ResetPC, Reports, Family
<1>2. RolesOK' BY DEF TypeOK, RolesOK, OpenerPC, ResetPC
<1>3. ModeFollowsPC'
  BY DEF TypeOK, RolesOK, ModeFollowsPC, Sharing, Using, Excluding, OpenerPC, ResetPC, SyncOwnsItsRun
<1>4. ExclusiveAlone' BY DEF TypeOK, ExclusiveAlone
<1>5. SyncOwnsItsRun' BY DEF TypeOK, SyncOwnsItsRun
<1>6. OpenHasFiles'
  BY DEF TypeOK, OpenHasFiles, ModeFollowsPC, ExclusiveAlone, Sharing, Using, Excluding
<1>7. DeletingAll'
  BY DEF TypeOK, DeletingAll, ModeFollowsPC, ExclusiveAlone, Sharing, Using, Excluding
<1>8. NoTornDatabase' BY DEF TypeOK, NoTornDatabase, OpenHasFiles, DeletingAll, Position, Family
<1> QED BY <1>1, <1>2, <1>3, <1>4, <1>5, <1>6, <1>7, <1>8

\* The inspection connects only to a file that is there.
LEMMA InspectStatusInv ==
  ASSUME Inv, NEW i \in Inspectors, InspectStatus(i) PROVE Inv'
<1> USE ProcsAssumption DEF InspectStatus, Inv, Goto, diskVars, resetVars, Procs, Users,
                            Openers
<1>1. TypeOK' BY DEF TypeOK, OpenerPC, ResetPC, Reports, Family
<1>2. RolesOK' BY DEF TypeOK, RolesOK, OpenerPC, ResetPC
<1>3. ModeFollowsPC'
  BY DEF TypeOK, RolesOK, ModeFollowsPC, Sharing, Using, Excluding, OpenerPC, ResetPC, SyncOwnsItsRun
<1>4. ExclusiveAlone' BY DEF TypeOK, ExclusiveAlone
<1>5. SyncOwnsItsRun' BY DEF TypeOK, SyncOwnsItsRun
<1>6. OpenHasFiles'
  BY DEF TypeOK, OpenHasFiles, ModeFollowsPC, ExclusiveAlone, Sharing, Using, Excluding
<1>7. DeletingAll'
  BY DEF TypeOK, DeletingAll, ModeFollowsPC, ExclusiveAlone, Sharing, Using, Excluding
<1>8. NoTornDatabase' BY DEF TypeOK, NoTornDatabase, OpenHasFiles, DeletingAll, Position, Family
<1> QED BY <1>1, <1>2, <1>3, <1>4, <1>5, <1>6, <1>7, <1>8

\* An inspection that ends takes no file with it.
LEMMA EndInspectionInv ==
  ASSUME Inv, NEW i \in Inspectors, EndInspection(i) PROVE Inv'
<1> USE ProcsAssumption DEF EndInspection, Inv, Goto, diskVars, resetVars, Procs, Users,
                            Openers
<1>1. TypeOK' BY DEF TypeOK, OpenerPC, ResetPC, Reports, Family
<1>2. RolesOK' BY DEF TypeOK, RolesOK, OpenerPC, ResetPC
<1>3. ModeFollowsPC'
  BY DEF TypeOK, RolesOK, ModeFollowsPC, Sharing, Using, Excluding, OpenerPC, ResetPC, SyncOwnsItsRun
<1>4. ExclusiveAlone' BY DEF TypeOK, ExclusiveAlone
<1>5. SyncOwnsItsRun' BY DEF TypeOK, SyncOwnsItsRun
<1>6. OpenHasFiles'
  BY DEF TypeOK, OpenHasFiles, ModeFollowsPC, ExclusiveAlone, Sharing, Using, Excluding
<1>7. DeletingAll'
  BY DEF TypeOK, DeletingAll, ModeFollowsPC, ExclusiveAlone, Sharing, Using, Excluding
<1>8. NoTornDatabase' BY DEF TypeOK, NoTornDatabase, OpenHasFiles, DeletingAll, Position, Family
<1> QED BY <1>1, <1>2, <1>3, <1>4, <1>5, <1>6, <1>7, <1>8

\* The exclusive lock was granted: nobody else holds the lock.
LEMMA AcquirePreflightInv ==
  ASSUME Inv, NEW r \in Resets, AcquirePreflight(r) PROVE Inv'
<1> USE ProcsAssumption DEF AcquirePreflight, Inv, Goto, diskVars, resetVars, Procs, Users,
                            Openers, Acquire, Grantable
<1>1. TypeOK' BY DEF TypeOK, OpenerPC, ResetPC, Reports, Family
<1>2. RolesOK' BY DEF TypeOK, RolesOK, OpenerPC, ResetPC
<1>3. ModeFollowsPC'
  BY DEF TypeOK, RolesOK, ModeFollowsPC, Sharing, Using, Excluding, OpenerPC, ResetPC, SyncOwnsItsRun
<1>4. ExclusiveAlone' BY DEF TypeOK, ExclusiveAlone
<1>5. SyncOwnsItsRun' BY DEF TypeOK, SyncOwnsItsRun
<1>6. OpenHasFiles'
  BY DEF TypeOK, OpenHasFiles, ModeFollowsPC, ExclusiveAlone, Sharing, Using, Excluding
<1>7. DeletingAll'
  BY DEF TypeOK, DeletingAll, ModeFollowsPC, ExclusiveAlone, Sharing, Using, Excluding
<1>8. NoTornDatabase' BY DEF TypeOK, NoTornDatabase, OpenHasFiles, DeletingAll, Position, Family
<1> QED BY <1>1, <1>2, <1>3, <1>4, <1>5, <1>6, <1>7, <1>8

\* A refused reset has no lock and deletes nothing.
LEMMA RefuseResetInv ==
  ASSUME Inv, NEW r \in Resets, RefuseReset(r) PROVE Inv'
<1> USE ProcsAssumption DEF RefuseReset, Inv, Goto, diskVars, resetVars, Procs, Users,
                            Openers
<1>1. TypeOK' BY DEF TypeOK, OpenerPC, ResetPC, Reports, Family
<1>2. RolesOK' BY DEF TypeOK, RolesOK, OpenerPC, ResetPC
<1>3. ModeFollowsPC'
  BY DEF TypeOK, RolesOK, ModeFollowsPC, Sharing, Using, Excluding, OpenerPC, ResetPC, SyncOwnsItsRun
<1>4. ExclusiveAlone' BY DEF TypeOK, ExclusiveAlone
<1>5. SyncOwnsItsRun' BY DEF TypeOK, SyncOwnsItsRun
<1>6. OpenHasFiles'
  BY DEF TypeOK, OpenHasFiles, ModeFollowsPC, ExclusiveAlone, Sharing, Using, Excluding
<1>7. DeletingAll'
  BY DEF TypeOK, DeletingAll, ModeFollowsPC, ExclusiveAlone, Sharing, Using, Excluding
<1>8. NoTornDatabase' BY DEF TypeOK, NoTornDatabase, OpenHasFiles, DeletingAll, Position, Family
<1> QED BY <1>1, <1>2, <1>3, <1>4, <1>5, <1>6, <1>7, <1>8

\* Preflight returns its lock on all three paths.
LEMMA InspectPreflightInv ==
  ASSUME Inv, NEW r \in Resets, InspectPreflight(r) PROVE Inv'
<1> USE ProcsAssumption DEF InspectPreflight, Inv, Goto, diskVars, resetVars, Procs, Users,
                            Openers, Release
<1>1. TypeOK' BY DEF TypeOK, OpenerPC, ResetPC, Reports, Family
<1>2. RolesOK' BY DEF TypeOK, RolesOK, OpenerPC, ResetPC
<1>2a. PICK x \in ResetPC : Goto(r, x) /\ x \in {"prompt", "idle"}
  BY DEF ResetPC
<1>3. ModeFollowsPC'
  BY <1>2a DEF TypeOK, RolesOK, ModeFollowsPC, Sharing, Using, Excluding, OpenerPC, ResetPC, SyncOwnsItsRun
<1>4. ExclusiveAlone' BY DEF TypeOK, ExclusiveAlone
<1>5. SyncOwnsItsRun' BY <1>2a DEF TypeOK, SyncOwnsItsRun
<1>6. OpenHasFiles'
  BY DEF TypeOK, OpenHasFiles, ModeFollowsPC, ExclusiveAlone, Sharing, Using, Excluding
<1>7. DeletingAll'
  BY DEF TypeOK, DeletingAll, ModeFollowsPC, ExclusiveAlone, Sharing, Using, Excluding
<1>8. NoTornDatabase' BY DEF TypeOK, NoTornDatabase, OpenHasFiles, DeletingAll, Position, Family
<1> QED BY <1>1, <1>2, <1>3, <1>4, <1>5, <1>6, <1>7, <1>8

\* The prompt is answered without a lock.
LEMMA AnswerInv ==
  ASSUME Inv, NEW r \in Resets, Answer(r) PROVE Inv'
<1> USE ProcsAssumption DEF Answer, Inv, Goto, diskVars, resetVars, Procs, Users,
                            Openers
<1>1. TypeOK' BY DEF TypeOK, OpenerPC, ResetPC, Reports, Family
<1>2. RolesOK' BY DEF TypeOK, RolesOK, OpenerPC, ResetPC
<1>3. ModeFollowsPC'
  BY DEF TypeOK, RolesOK, ModeFollowsPC, Sharing, Using, Excluding, OpenerPC, ResetPC, SyncOwnsItsRun
<1>4. ExclusiveAlone' BY DEF TypeOK, ExclusiveAlone
<1>5. SyncOwnsItsRun' BY DEF TypeOK, SyncOwnsItsRun
<1>6. OpenHasFiles'
  BY DEF TypeOK, OpenHasFiles, ModeFollowsPC, ExclusiveAlone, Sharing, Using, Excluding
<1>7. DeletingAll'
  BY DEF TypeOK, DeletingAll, ModeFollowsPC, ExclusiveAlone, Sharing, Using, Excluding
<1>8. NoTornDatabase' BY DEF TypeOK, NoTornDatabase, OpenHasFiles, DeletingAll, Position, Family
<1> QED BY <1>1, <1>2, <1>3, <1>4, <1>5, <1>6, <1>7, <1>8

\* The exclusive lock was granted again.
LEMMA AcquireResetInv ==
  ASSUME Inv, NEW r \in Resets, AcquireReset(r) PROVE Inv'
<1> USE ProcsAssumption DEF AcquireReset, Inv, Goto, diskVars, resetVars, Procs, Users,
                            Openers, Acquire, Grantable
<1>1. TypeOK' BY DEF TypeOK, OpenerPC, ResetPC, Reports, Family
<1>2. RolesOK' BY DEF TypeOK, RolesOK, OpenerPC, ResetPC
<1>3. ModeFollowsPC'
  BY DEF TypeOK, RolesOK, ModeFollowsPC, Sharing, Using, Excluding, OpenerPC, ResetPC, SyncOwnsItsRun
<1>4. ExclusiveAlone' BY DEF TypeOK, ExclusiveAlone
<1>5. SyncOwnsItsRun' BY DEF TypeOK, SyncOwnsItsRun
<1>6. OpenHasFiles'
  BY DEF TypeOK, OpenHasFiles, ModeFollowsPC, ExclusiveAlone, Sharing, Using, Excluding
<1>7. DeletingAll'
  BY DEF TypeOK, DeletingAll, ModeFollowsPC, ExclusiveAlone, Sharing, Using, Excluding
<1>8. NoTornDatabase' BY DEF TypeOK, NoTornDatabase, OpenHasFiles, DeletingAll, Position, Family
<1> QED BY <1>1, <1>2, <1>3, <1>4, <1>5, <1>6, <1>7, <1>8

\* The list of targets is exactly the family that exists.
LEMMA RevalidateInv ==
  ASSUME Inv, NEW r \in Resets, Revalidate(r) PROVE Inv'
<1> USE ProcsAssumption DEF Revalidate, Inv, Goto, diskVars, resetVars, Procs, Users,
                            Openers
<1>1. TypeOK' BY DEF TypeOK, OpenerPC, ResetPC, Reports, Family
<1>2. RolesOK' BY DEF TypeOK, RolesOK, OpenerPC, ResetPC
<1>2a. PICK x \in ResetPC : Goto(r, x) /\ x \in {"deleting", "releasing"}
  BY DEF ResetPC
<1>3. ModeFollowsPC'
  BY <1>2a DEF TypeOK, RolesOK, ModeFollowsPC, Sharing, Using, Excluding, OpenerPC, ResetPC, SyncOwnsItsRun
<1>4. ExclusiveAlone' BY DEF TypeOK, ExclusiveAlone
<1>5. SyncOwnsItsRun' BY <1>2a DEF TypeOK, SyncOwnsItsRun
<1>6. OpenHasFiles'
  BY DEF TypeOK, OpenHasFiles, ModeFollowsPC, ExclusiveAlone, Sharing, Using, Excluding
<1>7. DeletingAll'
  BY DEF TypeOK, DeletingAll, ModeFollowsPC, ExclusiveAlone, Sharing, Using, Excluding
<1>8. NoTornDatabase' BY DEF TypeOK, NoTornDatabase, OpenHasFiles, DeletingAll, Position, Family
<1> QED BY <1>1, <1>2, <1>3, <1>4, <1>5, <1>6, <1>7, <1>8

\* The primary file goes first, so nothing it depends on goes before it.
LEMMA RemoveNextInv ==
  ASSUME Inv, NEW r \in Resets, RemoveNext(r) PROVE Inv'
<1> USE ProcsAssumption DEF RemoveNext, Inv, Goto, diskVars, resetVars, Procs, Users,
                            Openers, IsNextTarget
<1>1. TypeOK'
  <2>1. PICK f \in Family :
          /\ pending' = [pending EXCEPT ![r] = @ \ {f}]
          /\ removed' = [removed EXCEPT ![r] = @ \cup ({f} \cap files)]
          /\ files' = files \ {f}
          /\ needed' = IF f = "db" THEN {} ELSE needed
    OBVIOUS
  <2>2. pending' \in [Resets -> SUBSET Family] BY <2>1 DEF TypeOK
  <2>3. removed[r] \cup ({f} \cap files) \subseteq Family BY <2>1 DEF TypeOK
  <2>4. removed' \in [Resets -> SUBSET Family] BY <2>1, <2>3 DEF TypeOK
  <2> QED BY <2>1, <2>2, <2>4 DEF TypeOK
<1>2. RolesOK' BY DEF TypeOK, RolesOK, OpenerPC, ResetPC
<1>3. ModeFollowsPC'
  BY DEF TypeOK, RolesOK, ModeFollowsPC, Sharing, Using, Excluding, OpenerPC, ResetPC, SyncOwnsItsRun
<1>4. ExclusiveAlone' BY DEF TypeOK, ExclusiveAlone
<1>5. SyncOwnsItsRun' BY DEF TypeOK, SyncOwnsItsRun
<1>6. OpenHasFiles'
  BY DEF TypeOK, OpenHasFiles, ModeFollowsPC, ExclusiveAlone, Sharing, Using, Excluding
<1>7. DeletingAll'
  BY DEF TypeOK, DeletingAll, ModeFollowsPC, ExclusiveAlone, Sharing, Using, Excluding
<1>8. NoTornDatabase'
  <2>1. PICK f \in Family : /\ IsNextTarget(r, f)
                            /\ files' = files \ {f}
                            /\ needed' = IF f = "db" THEN {} ELSE needed
    OBVIOUS
  <2>2. CASE f = "db" BY <2>1, <2>2 DEF NoTornDatabase
  <2>3. CASE "db" \notin files BY <2>1, <2>3 DEF NoTornDatabase
  <2>4. CASE f # "db" /\ "db" \in files
    <3>1. "db" \in pending[r] BY <2>4 DEF DeletingAll
    <3>2. Position[f] <= Position["db"] BY <2>1, <3>1 DEF IsNextTarget
    <3>3. Position["db"] = 1 /\ (f # "db" => Position[f] \in {2, 3, 4})
      BY <2>1 DEF Position, Family
    <3> QED BY <2>4, <3>2, <3>3
  <2> QED BY <2>2, <2>3, <2>4
<1> QED BY <1>1, <1>2, <1>3, <1>4, <1>5, <1>6, <1>7, <1>8

\* A failed removal leaves the family as it was.
LEMMA RemoveFailsInv ==
  ASSUME Inv, NEW r \in Resets, RemoveFails(r) PROVE Inv'
<1> USE ProcsAssumption DEF RemoveFails, Inv, Goto, diskVars, resetVars, Procs, Users,
                            Openers
<1>1. TypeOK' BY DEF TypeOK, OpenerPC, ResetPC, Reports, Family
<1>2. RolesOK' BY DEF TypeOK, RolesOK, OpenerPC, ResetPC
<1>3. ModeFollowsPC'
  BY DEF TypeOK, RolesOK, ModeFollowsPC, Sharing, Using, Excluding, OpenerPC, ResetPC, SyncOwnsItsRun
<1>4. ExclusiveAlone' BY DEF TypeOK, ExclusiveAlone
<1>5. SyncOwnsItsRun' BY DEF TypeOK, SyncOwnsItsRun
<1>6. OpenHasFiles'
  BY DEF TypeOK, OpenHasFiles, ModeFollowsPC, ExclusiveAlone, Sharing, Using, Excluding
<1>7. DeletingAll'
  BY DEF TypeOK, DeletingAll, ModeFollowsPC, ExclusiveAlone, Sharing, Using, Excluding
<1>8. NoTornDatabase' BY DEF TypeOK, NoTornDatabase, OpenHasFiles, DeletingAll, Position, Family
<1> QED BY <1>1, <1>2, <1>3, <1>4, <1>5, <1>6, <1>7, <1>8

\* Verification changes no file.
LEMMA VerifyDeletionInv ==
  ASSUME Inv, NEW r \in Resets, VerifyDeletion(r) PROVE Inv'
<1> USE ProcsAssumption DEF VerifyDeletion, Inv, Goto, diskVars, resetVars, Procs, Users,
                            Openers
<1>1. TypeOK' BY DEF TypeOK, OpenerPC, ResetPC, Reports, Family
<1>2. RolesOK' BY DEF TypeOK, RolesOK, OpenerPC, ResetPC
<1>3. ModeFollowsPC'
  BY DEF TypeOK, RolesOK, ModeFollowsPC, Sharing, Using, Excluding, OpenerPC, ResetPC, SyncOwnsItsRun
<1>4. ExclusiveAlone' BY DEF TypeOK, ExclusiveAlone
<1>5. SyncOwnsItsRun' BY DEF TypeOK, SyncOwnsItsRun
<1>6. OpenHasFiles'
  BY DEF TypeOK, OpenHasFiles, ModeFollowsPC, ExclusiveAlone, Sharing, Using, Excluding
<1>7. DeletingAll'
  BY DEF TypeOK, DeletingAll, ModeFollowsPC, ExclusiveAlone, Sharing, Using, Excluding
<1>8. NoTornDatabase' BY DEF TypeOK, NoTornDatabase, OpenHasFiles, DeletingAll, Position, Family
<1> QED BY <1>1, <1>2, <1>3, <1>4, <1>5, <1>6, <1>7, <1>8

\* The reset that returns its lock no longer deletes.
LEMMA ReleaseResetInv ==
  ASSUME Inv, NEW r \in Resets, ReleaseReset(r) PROVE Inv'
<1> USE ProcsAssumption DEF ReleaseReset, Inv, Goto, diskVars, resetVars, Procs, Users,
                            Openers, Release
<1>1. TypeOK' BY DEF TypeOK, OpenerPC, ResetPC, Reports, Family
<1>2. RolesOK' BY DEF TypeOK, RolesOK, OpenerPC, ResetPC
<1>3. ModeFollowsPC'
  BY DEF TypeOK, RolesOK, ModeFollowsPC, Sharing, Using, Excluding, OpenerPC, ResetPC, SyncOwnsItsRun
<1>4. ExclusiveAlone' BY DEF TypeOK, ExclusiveAlone
<1>5. SyncOwnsItsRun' BY DEF TypeOK, SyncOwnsItsRun
<1>6. OpenHasFiles'
  BY DEF TypeOK, OpenHasFiles, ModeFollowsPC, ExclusiveAlone, Sharing, Using, Excluding
<1>7. DeletingAll'
  BY DEF TypeOK, DeletingAll, ModeFollowsPC, ExclusiveAlone, Sharing, Using, Excluding
<1>8. NoTornDatabase' BY DEF TypeOK, NoTornDatabase, OpenHasFiles, DeletingAll, Position, Family
<1> QED BY <1>1, <1>2, <1>3, <1>4, <1>5, <1>6, <1>7, <1>8

\* A dead process holds nothing, and its files stay as they are.
LEMMA KillInv ==
  ASSUME Inv, NEW p \in Procs, Kill(p) PROVE Inv'
<1> USE ProcsAssumption DEF Kill, Inv, Goto, diskVars, resetVars, Procs, Users,
                            Openers, Dying
<1>1. TypeOK' BY DEF TypeOK, OpenerPC, ResetPC, Reports, Family
<1>2. RolesOK' BY DEF TypeOK, RolesOK, OpenerPC, ResetPC
<1>3. ModeFollowsPC'
  BY DEF TypeOK, RolesOK, ModeFollowsPC, Sharing, Using, Excluding, OpenerPC, ResetPC, SyncOwnsItsRun
<1>4. ExclusiveAlone' BY DEF TypeOK, ExclusiveAlone
<1>5. SyncOwnsItsRun' BY DEF TypeOK, SyncOwnsItsRun
<1>6. OpenHasFiles'
  BY DEF TypeOK, OpenHasFiles, ModeFollowsPC, ExclusiveAlone, Sharing, Using, Excluding
<1>7. DeletingAll'
  BY DEF TypeOK, DeletingAll, ModeFollowsPC, ExclusiveAlone, Sharing, Using, Excluding
<1>8. NoTornDatabase' BY DEF TypeOK, NoTornDatabase, OpenHasFiles, DeletingAll, Position, Family
<1> QED BY <1>1, <1>2, <1>3, <1>4, <1>5, <1>6, <1>7, <1>8

\* Every step of the specification preserves the invariant.
LEMMA NextInv == ASSUME Inv, [Next]_vars PROVE Inv'
<1>1. CASE UNCHANGED vars
  BY <1>1 DEF vars, Inv, TypeOK, RolesOK, ModeFollowsPC, ExclusiveAlone,
              SyncOwnsItsRun, OpenHasFiles, DeletingAll, NoTornDatabase
<1>2. ASSUME NEW s \in Syncs, SyncStep(s) PROVE Inv'
  BY <1>2, AcquireSyncGuardInv, RefuseAutoSyncInv, ReleaseSyncGuardInv
  DEF SyncStep
<1>3. ASSUME NEW p \in Users, AcquireShared(p) \/ RefuseShared(p) PROVE Inv'
  BY <1>3, AcquireSharedInv, RefuseSharedInv
<1>4. ASSUME NEW p \in Openers, Open(p) \/ Commit(p) \/ Close(p) PROVE Inv'
  BY <1>4, PreparePathInv, BeginConversionInv, EnableWALInv, FailOpenInv,
     CommitInv, CloseConnectionInv, CloseGuardInv
  DEF Open, Close, Users
<1>5. ASSUME NEW i \in Inspectors, InspectorStep(i) PROVE Inv'
  BY <1>5, InspectStatusInv, EndInspectionInv, CloseGuardInv
  DEF InspectorStep, Users
<1>6. ASSUME NEW r \in Resets, AcquirePreflight(r) \/ Answer(r) \/ ResetStep(r)
      PROVE Inv'
  BY <1>6, AcquirePreflightInv, AnswerInv, InspectPreflightInv, AcquireResetInv,
     RefuseResetInv, RevalidateInv, RemoveNextInv, RemoveFailsInv,
     VerifyDeletionInv, ReleaseResetInv
  DEF ResetStep
<1>7. ASSUME NEW p \in Procs, Kill(p) PROVE Inv'
  BY <1>7, KillInv
<1> QED BY <1>1, <1>2, <1>3, <1>4, <1>5, <1>6, <1>7 DEF Next

\* The invariant holds in every reachable state, for any set of processes.
THEOREM Invariance == Spec => []Inv
BY InitInv, NextInv, PTL DEF Spec

\* The variables keep their types.
THEOREM TypeCorrect == Spec => []TypeOK
<1>1. Inv => TypeOK BY DEF Inv
<1> QED BY <1>1, Invariance, PTL

\* Nobody is connected while a reset deletes: the deleting reset holds the
\* lock exclusively, and everyone who is connected holds it too.
LEMMA InvSeparates == Inv => NoRemovalUnderOpenStore
BY ProcsAssumption
DEF Inv, NoRemovalUnderOpenStore, Connected, ModeFollowsPC, ExclusiveAlone,
    Sharing, Using, Excluding, Procs, Users

\* No file is removed while any process has the database open.
THEOREM Separation == Spec => []NoRemovalUnderOpenStore
BY Invariance, InvSeparates, PTL

\* No crash or failure, in a reset or elsewhere, tears the database family.
THEOREM NeverTorn == Spec => []NoTornDatabase
<1>1. Inv => NoTornDatabase BY DEF Inv
<1> QED BY <1>1, Invariance, PTL

\* A synchronization under way owns its lock and has its command waiting.
THEOREM SyncOwnership == Spec => []SyncOwnsItsRun
<1>1. Inv => SyncOwnsItsRun BY DEF Inv
<1> QED BY <1>1, Invariance, PTL

(***************************************************************************)
(* What reset tells its user. A reset that has not begun to delete has     *)
(* removed nothing and said nothing; one that deletes has removed a file   *)
(* or still has one before it, and what it has removed is gone, since      *)
(* nobody else can touch the family meanwhile.                             *)
(***************************************************************************)
ReportFollowsPC ==
  \A r \in Resets :
    /\ pc[r] \in {"preflight", "prompt", "confirmed", "revalidate"} =>
         removed[r] = {} /\ report[r] = "none"
    /\ pc[r] = "deleting" =>
         /\ report[r] = "none"
         /\ removed[r] # {} \/ pending[r] \cap files # {}
         /\ removed[r] \cap files = {}

ReportInv == ReportFollowsPC /\ ReportMatchesEffect

\* Nobody holds the shared lock while a reset deletes or has yet to let go.
LEMMA NobodyBeside ==
  ASSUME Inv, NEW r \in Resets, pc[r] \in {"deleting", "releasing"},
         NEW p \in Users
  PROVE  pc[p] \notin Sharing
<1>1. mode[r] = "exclusive" BY DEF Inv, ModeFollowsPC, Excluding
<1>2. mode[p] = "none" BY <1>1, ProcsAssumption DEF Inv, ExclusiveAlone, Procs
<1> QED BY <1>2 DEF Inv, ModeFollowsPC

\* A step of somebody else leaves what the resets have done and said alone,
\* and the files too unless that process holds the shared lock.
LEMMA StepBesideResets ==
  ASSUME Inv, ReportInv, UNCHANGED resetVars,
         \A r \in Resets : pc'[r] = pc[r],
         UNCHANGED files \/ \E p \in Users : pc[p] \in Sharing
  PROVE  ReportInv'
<1>1. ASSUME NEW r \in Resets, pc[r] \in {"deleting", "releasing"}
      PROVE  UNCHANGED files
  BY <1>1, NobodyBeside
<1> QED BY <1>1 DEF ReportInv, ReportFollowsPC, ReportMatchesEffect, resetVars

\* Commands, synchronizations and inspections are such steps.
LEMMA UserStepReport ==
  ASSUME Inv, ReportInv,
         \/ \E s \in Syncs : SyncStep(s)
         \/ \E p \in Users : AcquireShared(p) \/ RefuseShared(p)
         \/ \E p \in Openers : Open(p) \/ Commit(p) \/ Close(p)
         \/ \E i \in Inspectors : InspectorStep(i)
  PROVE  ReportInv'
<1> USE ProcsAssumption DEF Procs, Users, Openers, Goto, diskVars
<1> SUFFICES /\ UNCHANGED resetVars
             /\ \A r \in Resets : pc'[r] = pc[r]
             /\ UNCHANGED files \/ \E p \in Users : pc[p] \in Sharing
  BY StepBesideResets
<1>1. CASE \E s \in Syncs : SyncStep(s)
  BY <1>1 DEF SyncStep, AcquireSyncGuard, RefuseAutoSync, ReleaseSyncGuard,
              Inv, TypeOK
<1>2. CASE \E p \in Users : AcquireShared(p) \/ RefuseShared(p)
  BY <1>2 DEF AcquireShared, RefuseShared, Inv, TypeOK
<1>3. CASE \E p \in Openers : Open(p) \/ Commit(p) \/ Close(p)
  BY <1>3 DEF Open, Close, PreparePath, BeginConversion, EnableWAL, FailOpen,
              Commit, CloseConnection, CloseGuard, Inv, TypeOK, Sharing, Using
<1>4. CASE \E i \in Inspectors : InspectorStep(i)
  BY <1>4 DEF InspectorStep, InspectStatus, EndInspection, CloseGuard, Inv,
              TypeOK, Sharing, Using
<1> QED BY <1>1, <1>2, <1>3, <1>4

\* A target of the loop that exists is removed, or is still to come.
LEMMA RemoveNextReport ==
  ASSUME Inv, ReportInv, NEW r \in Resets, RemoveNext(r) PROVE ReportInv'
<1> USE DEF Inv, TypeOK, ReportInv
<1>1. PICK f \in Family :
        /\ pending' = [pending EXCEPT ![r] = @ \ {f}]
        /\ removed' = [removed EXCEPT ![r] = @ \cup ({f} \cap files)]
        /\ files' = files \ {f}
  BY DEF RemoveNext
<1>2. pc' = pc /\ report' = report /\ pc[r] = "deleting" BY DEF RemoveNext
<1>3. \A q \in Resets \ {r} : pc[q] \notin {"deleting", "releasing"}
  BY <1>2, ProcsAssumption DEF ModeFollowsPC, ExclusiveAlone, Excluding, Procs
<1>4. removed'[r] # {} \/ pending'[r] \cap files' # {}
  <2>1. CASE f \in files BY <1>1, <2>1
  <2>2. CASE f \notin files /\ removed[r] # {} BY <1>1, <2>2
  <2>3. CASE f \notin files /\ pending[r] \cap files # {} BY <1>1, <2>3
  <2> QED BY <1>2, <2>1, <2>2, <2>3 DEF ReportFollowsPC
<1>4a. removed'[r] \cap files' = {}
  <2>1. removed[r] \cap files = {} BY <1>2 DEF ReportFollowsPC
  <2> QED BY <1>1, <2>1
<1>5. ReportFollowsPC' BY <1>1, <1>2, <1>3, <1>4, <1>4a DEF ReportFollowsPC
<1>6. ReportMatchesEffect'
  BY <1>1, <1>2, <1>3 DEF ReportFollowsPC, ReportMatchesEffect
<1> QED BY <1>5, <1>6

\* The other steps of a reset leave the family alone and speak for
\* themselves: "deleted" is said by a loop that is through and has removed
\* something, the rest by a reset that has removed nothing.
LEMMA ResetStepReport ==
  ASSUME Inv, ReportInv, NEW r \in Resets,
         AcquirePreflight(r) \/ Answer(r) \/ ResetStep(r)
  PROVE  ReportInv'
<1> USE ProcsAssumption DEF Inv, TypeOK, ReportInv, Goto, diskVars, resetVars,
                            Procs, ReportFollowsPC, ReportMatchesEffect
<1>1. CASE AcquirePreflight(r) BY <1>1 DEF AcquirePreflight
<1>2. CASE RefuseReset(r) BY <1>2 DEF RefuseReset
<1>3. CASE InspectPreflight(r) BY <1>3 DEF InspectPreflight
<1>4. CASE Answer(r) BY <1>4 DEF Answer
<1>5. CASE AcquireReset(r) BY <1>5 DEF AcquireReset
<1>6. CASE Revalidate(r) BY <1>6 DEF Revalidate
<1>7. CASE RemoveNext(r) BY <1>7, RemoveNextReport
<1>8. CASE RemoveFails(r) BY <1>8 DEF RemoveFails
<1>9. CASE VerifyDeletion(r) BY <1>9 DEF VerifyDeletion
<1>10. CASE ReleaseReset(r) BY <1>10 DEF ReleaseReset
<1> QED
  BY <1>1, <1>2, <1>3, <1>4, <1>5, <1>6, <1>7, <1>8, <1>9, <1>10 DEF ResetStep

\* A killed reset says nothing more, and what it said was so.
LEMMA KillReport ==
  ASSUME Inv, ReportInv, NEW p \in Procs, Kill(p) PROVE ReportInv'
BY ProcsAssumption
DEF Kill, Inv, TypeOK, ReportInv, ReportFollowsPC, ReportMatchesEffect, diskVars,
    Procs, Users, Openers, Dying

\* What a reset tells its user is what it did, whoever dies or fails.
THEOREM Truthfulness == Spec => []ReportMatchesEffect
<1>1. Init => ReportInv
  BY DEF Init, ReportInv, ReportFollowsPC, ReportMatchesEffect, Procs
<1>2. ASSUME Inv, ReportInv, [Next]_vars PROVE ReportInv'
  <2>1. CASE UNCHANGED vars
    BY <1>2, <2>1
    DEF vars, ReportInv, ReportFollowsPC, ReportMatchesEffect
  <2>2. CASE Next
    BY <1>2, <2>2, UserStepReport, ResetStepReport, KillReport DEF Next
  <2> QED BY <1>2, <2>1, <2>2
<1>3. ReportInv => ReportMatchesEffect BY DEF ReportInv
<1> QED BY <1>1, <1>2, <1>3, Invariance, PTL DEF Spec

(***************************************************************************)
(* Refinement of LocalDatabase.                                            *)
(***************************************************************************)

\* Nobody is connected at the start.
LEMMA InitRefines == Init => Local!Init
BY DEF Init, Local!Init, Connected, Using, Procs

\* A step that moves nobody in or out and keeps "db" is a stutter.
LEMMA QuietStep ==
  ASSUME \A p \in Users : pc'[p] \in Using <=> pc[p] \in Using,
         "db" \in files' <=> "db" \in files
  PROVE  UNCHANGED Local!localVars
BY DEF Local!localVars, Connected

\* A step that takes some users out and keeps "db" is a Leave or a stutter.
LEMMA LeaveStep ==
  ASSUME NEW S \in SUBSET Users,
         \A p \in Users : pc'[p] \in Using <=> pc[p] \in Using /\ p \notin S,
         "db" \in files' <=> "db" \in files
  PROVE  Local!Leave(S) \/ UNCHANGED Local!localVars
<1>1. CASE S = {} BY <1>1, QuietStep
<1>2. CASE S # {} BY <1>2 DEF Local!Leave, Connected
<1> QED BY <1>1, <1>2

\* Connecting is a Join: the file is there afterwards.
LEMMA JoinStep ==
  ASSUME NEW p \in Users, pc[p] \notin Using, pc'[p] \in Using,
         \A q \in Users \ {p} : pc'[q] \in Using <=> pc[q] \in Using,
         "db" \in files'
  PROVE  Local!Join(p)
BY DEF Local!Join, Connected

\* The removal of the primary file is a Delete.
LEMMA RemoveNextRefines ==
  ASSUME Inv, NEW r \in Resets, RemoveNext(r)
  PROVE  Local!Delete \/ UNCHANGED Local!localVars
<1>1. pc' = pc /\ pc[r] = "deleting" BY DEF RemoveNext
<1>2. \A p \in Users : ~Connected(p)
  BY <1>1, InvSeparates DEF NoRemovalUnderOpenStore
<1>3. CASE "db" \in files /\ "db" \notin files'
  BY <1>1, <1>2, <1>3 DEF Local!Delete, Connected
<1>4. CASE "db" \in files' <=> "db" \in files
  BY <1>1, <1>4, QuietStep
<1>5. "db" \in files' => "db" \in files BY DEF RemoveNext
<1> QED BY <1>3, <1>4, <1>5

\* Every step of the detailed specification is a step of LocalDatabase.
LEMMA NextRefines ==
  ASSUME Inv, Inv', [Next]_vars
  PROVE  [Local!Next]_(Local!localVars)
<1> USE DEF Inv, Goto, diskVars, resetVars, Using
<1>1. CASE UNCHANGED vars BY <1>1, QuietStep DEF vars
<1>2. ASSUME NEW s \in Syncs, SyncStep(s) PROVE UNCHANGED Local!localVars
  BY <1>2, QuietStep, ProcsAssumption
  DEF SyncStep, AcquireSyncGuard, RefuseAutoSync, ReleaseSyncGuard,
      SyncOwnsItsRun, TypeOK, Procs, Users, Openers
<1>3. ASSUME NEW p \in Users, AcquireShared(p) \/ RefuseShared(p)
      PROVE UNCHANGED Local!localVars
  BY <1>3, QuietStep DEF AcquireShared, RefuseShared, Entry, Exit, TypeOK, Procs
<1>4. ASSUME NEW p \in Openers, PreparePath(p) PROVE Local!Join(p)
  BY <1>4, JoinStep DEF PreparePath, TypeOK, Procs, Users
<1>5. ASSUME NEW p \in Openers,
             BeginConversion(p) \/ EnableWAL(p) \/ Commit(p)
      PROVE UNCHANGED Local!localVars
  BY <1>5, QuietStep
  DEF BeginConversion, EnableWAL, Commit, OpenHasFiles, TypeOK, Procs, Users
<1>6. ASSUME NEW p \in Users,
             FailOpen(p) \/ CloseConnection(p) \/ EndInspection(p)
      PROVE Local!Leave({p}) \/ UNCHANGED Local!localVars
  <2>1. {p} \in SUBSET Users OBVIOUS
  <2>2. \A q \in Users : pc'[q] \in Using <=> pc[q] \in Using /\ q \notin {p}
    BY <1>6 DEF FailOpen, CloseConnection, EndInspection, TypeOK, Procs
  <2>3. "db" \in files' <=> "db" \in files
    BY <1>6 DEF FailOpen, CloseConnection, EndInspection
  <2> QED BY <2>1, <2>2, <2>3, LeaveStep
<1>7. ASSUME NEW p \in Users, CloseGuard(p) PROVE UNCHANGED Local!localVars
  BY <1>7, QuietStep DEF CloseGuard, Exit, TypeOK, Procs
<1>8. ASSUME NEW i \in Inspectors, InspectStatus(i)
      PROVE Local!Join(i) \/ UNCHANGED Local!localVars
  <2>1. CASE "db" \in files
    BY <1>8, <2>1, JoinStep DEF InspectStatus, TypeOK, Procs, Users
  <2>2. CASE "db" \notin files
    BY <1>8, <2>2, QuietStep DEF InspectStatus, TypeOK, Procs, Users
  <2> QED BY <2>1, <2>2
<1>9. ASSUME NEW r \in Resets, AcquirePreflight(r) \/ Answer(r) \/ ResetStep(r)
      PROVE Local!Delete \/ UNCHANGED Local!localVars
  <2>1. CASE RemoveNext(r) BY <2>1, RemoveNextRefines
  <2>2. CASE ~RemoveNext(r)
    <3>1. files' = files
      BY <1>9, <2>2
      DEF ResetStep, AcquirePreflight, Answer, InspectPreflight, AcquireReset,
          RefuseReset, Revalidate, RemoveFails, VerifyDeletion, ReleaseReset
    <3>2. \A p \in Users : pc'[p] = pc[p]
      BY <1>9, <2>2, ProcsAssumption
      DEF ResetStep, AcquirePreflight, Answer, InspectPreflight, AcquireReset,
          RefuseReset, Revalidate, RemoveFails, VerifyDeletion, ReleaseReset,
          TypeOK, Procs
    <3> QED BY <3>1, <3>2, QuietStep
  <2> QED BY <2>1, <2>2
<1>10. ASSUME NEW p \in Procs, Kill(p)
       PROVE \E S \in SUBSET Users : Local!Leave(S) \/ UNCHANGED Local!localVars
  <2> DEFINE S == Dying(p) \cap Users
  <2>1. S \in SUBSET Users OBVIOUS
  <2>2. \A q \in Users : pc'[q] \in Using <=> pc[q] \in Using /\ q \notin S
    BY <1>10 DEF Kill, Procs
  <2>3. "db" \in files' <=> "db" \in files BY <1>10 DEF Kill
  <2> HIDE DEF S
  <2> QED BY <2>1, <2>2, <2>3, LeaveStep
<1> QED
  BY <1>1, <1>2, <1>3, <1>4, <1>5, <1>6, <1>7, <1>8, <1>9, <1>10
  DEF Next, Open, Close, InspectorStep, Local!Next, Users

\* The locks, the files and the crashes implement the abstract database.
THEOREM Refinement == Spec => ImplementsLocalDatabase
BY InitRefines, NextRefines, Invariance, PTL
DEF Spec, ImplementsLocalDatabase, Local!Spec
==============================================================================
