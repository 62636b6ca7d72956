------------------------------ MODULE Migration ------------------------------
(***************************************************************************)
(* Opening and migrating the database: OpenAtWithClock,                    *)
(* preflightMigrationSource and migrate. An opener inspects the schema     *)
(* twice, statement by statement and outside any transaction, then runs    *)
(* all steps from the version it read to the current one in a single       *)
(* transaction. Several processes may open one old database at once, so    *)
(* the version a process migrates from may be out of date when its         *)
(* transaction begins; a process may die between any two statements.       *)
(*                                                                         *)
(* A schema is the set of features that tell versions apart, and the rows  *)
(* of schema_version. The tables statcast_seasons and yahoo_leagues may be *)
(* absent from a database older than the step that extends them.           *)
(***************************************************************************)
EXTENDS Integers, Sequences, FiniteSets

CONSTANTS
  Openers,       \* processes that open the database, again and again
  Values,        \* what the dashboard row may hold
  Blank,         \* the row as it is created
  None

VARIABLES
  db,            \* the database as committed
  work,          \* the database as the open transaction has it, None outside
  opener         \* each process: where it is and what it read

migrationVars == <<db, work, opener>>

CurrentSchemaVersion == 7
Optional == {"statcast", "leagues"}
Features ==
  Optional \union {"free_agents", "dashboard", "daemon_columns", "statcast_columns",
                   "projections", "indexes", "league_endings", "foreign"}

\* The features of version v over the optional tables `base`.
SchemaOf(v, base) ==
  base \union (IF v >= 2 THEN {"free_agents"} ELSE {})
       \union (IF v >= 3 THEN {"dashboard"} ELSE {})
       \union (IF v \in {3, 4} THEN {"daemon_columns"} ELSE {})
       \union (IF v >= 4 /\ "statcast" \in base THEN {"statcast_columns"} ELSE {})
       \union (IF v >= 5 THEN {"projections"} ELSE {})
       \union (IF v >= 6 THEN {"indexes"} ELSE {})
       \union (IF v >= 7 /\ "leagues" \in base THEN {"league_endings"} ELSE {})

\* rows: the rows of schema_version, None if there is no such table.
Database == [rows: {None} \union Seq(Nat), features: SUBSET Features, dashboard: Values]
MigrationAssumption ==
  Blank \in Values /\ None \notin Values /\ None \notin Seq(Nat) /\ None \notin Database

Empty == [rows |-> None, features |-> {}, dashboard |-> Blank]
Old == {[rows |-> <<v>>, features |-> SchemaOf(v, base), dashboard |-> value] :
          v \in 1..CurrentSchemaVersion, base \in SUBSET Optional, value \in Values}
Unsupported ==
  {[rows |-> r, features |-> {"foreign"}, dashboard |-> Blank] : r \in {None, <<>>, <<8>>, <<7, 7>>}}

MigrationInit ==
  /\ db \in {d \in Old : "dashboard" \notin d.features => d.dashboard = Blank} \union Unsupported \union {Empty}
  /\ work = None
  /\ opener = [p \in Openers |-> [pc |-> "closed", pass |-> 1, tables |-> FALSE, version |-> 0]]

----------------------------------------------------------------------------
(* The steps of migrateStep: version v to v + 1. A statement that finds    *)
(* what it creates, or not what it reads, fails.                           *)

\* Every step creates what is missing and does not mind what is there.
StepFailsNever(d, v) == FALSE

StepFails(d, v) ==
  \/ v = 1 /\ "free_agents" \in d.features
  \/ v = 2 /\ "dashboard" \in d.features
  \/ v = 3 /\ {"statcast", "statcast_columns"} \subseteq d.features
  \/ v = 4 /\ "dashboard" \notin d.features

StepAdds(d, v) ==
  IF v = 1 THEN {"free_agents"}
  ELSE IF v = 2 THEN {"dashboard", "daemon_columns"}
  ELSE IF v = 3 THEN IF "statcast" \in d.features THEN {"statcast_columns"} ELSE {}
  ELSE IF v = 4 THEN {"projections"}
  ELSE IF v = 5 THEN {"indexes"}
  ELSE IF "leagues" \in d.features THEN {"league_endings"} ELSE {}

\* Step 4 copies the old table as it is.
StepDropsNothing(v) == {}

\* Step 4 rebuilds the dashboard table without the daemon's columns and copies its row.
StepDrops(v) == IF v = 4 THEN {"daemon_columns"} ELSE {}
StepDashboard(d, v) == IF v = 2 THEN Blank ELSE d.dashboard

Migrated(d, v) ==
  [rows |-> <<v + 1>>,
   features |-> (d.features \ StepDrops(v)) \union StepAdds(d, v),
   dashboard |-> StepDashboard(d, v)]

\* schemaSQL over a database without schema_version: every table and index if it is
\* missing, the dashboard row if it is missing, the version row anew.
Created(d) ==
  [rows |-> <<CurrentSchemaVersion>>,
   features |-> d.features \union SchemaOf(CurrentSchemaVersion, Optional),
   dashboard |-> d.dashboard]

----------------------------------------------------------------------------
(* Actions *)

At(p, pc) == opener[p].pc = pc
Go(p, pc) == opener' = [opener EXCEPT ![p].pc = pc]
GoNext(p) == Go(p, IF opener[p].pass = 1 THEN "wal" ELSE "begin")
Fail(p) == Go(p, "closed")

Open(p) ==
  /\ At(p, "closed")
  /\ opener' = [opener EXCEPT ![p] = [pc |-> "tables", pass |-> 1, tables |-> FALSE, version |-> 0]]
  /\ UNCHANGED <<db, work>>

\* The inspection: preflightMigrationSource, then the same again in migrate.
CountTables(p) ==
  /\ At(p, "tables")
  /\ opener' = [opener EXCEPT ![p].pc = "version_table", ![p].tables = (db.features # {})]
  /\ UNCHANGED <<db, work>>

FindVersionTable(p) ==
  /\ At(p, "version_table")
  /\ \/ db.rows # None /\ Go(p, "rows")
     \/ db.rows = None /\ opener[p].tables /\ Fail(p)
     \/ db.rows = None /\ ~opener[p].tables /\ GoNext(p)
  /\ UNCHANGED <<db, work>>

CountRows(p) ==
  /\ At(p, "rows")
  /\ \/ Len(db.rows) = 1 /\ Go(p, "version")
     \/ Len(db.rows) # 1 /\ Fail(p)
  /\ UNCHANGED <<db, work>>

\* The test for the current version accepts the one before it.
ReadVersionLoosely(p) ==
  /\ At(p, "version")
  /\ LET v == db.rows[1]
         pc == IF opener[p].pass = 1 THEN "wal" ELSE IF v >= CurrentSchemaVersion - 1 THEN "open" ELSE "begin"
     IN \/ v \notin 1..CurrentSchemaVersion /\ Fail(p)
        \/ v \in 1..CurrentSchemaVersion /\ opener' = [opener EXCEPT ![p].pc = pc, ![p].version = v]
  /\ UNCHANGED <<db, work>>

\* Only the second pass finds out that there is nothing to do.
ReadVersion(p) ==
  /\ At(p, "version")
  /\ LET v == db.rows[1]
         pc == IF opener[p].pass = 1 THEN "wal" ELSE IF v = CurrentSchemaVersion THEN "open" ELSE "begin"
     IN \/ v \notin 1..CurrentSchemaVersion /\ Fail(p)
        \/ v \in 1..CurrentSchemaVersion /\ opener' = [opener EXCEPT ![p].pc = pc, ![p].version = v]
  /\ UNCHANGED <<db, work>>

\* The journal mode is set between the two passes. It, as any statement so far, may fail.
SetJournalMode(p) ==
  /\ At(p, "wal")
  /\ opener' = [opener EXCEPT ![p] = [pc |-> "tables", pass |-> 2, tables |-> FALSE, version |-> 0]]
  /\ UNCHANGED <<db, work>>

StatementFails(p) ==
  /\ opener[p].pc \in {"tables", "version_table", "rows", "version", "wal", "begin"}
  /\ Fail(p)
  /\ UNCHANGED <<db, work>>

\* BEGIN IMMEDIATE: the one write lock. StatementFails also covers its timeout.
Begin(p) ==
  /\ At(p, "begin")
  /\ work = None
  /\ work' = db
  /\ Go(p, IF opener[p].version = 0 THEN "create" ELSE "step")
  /\ UNCHANGED db

Create(p) ==
  /\ At(p, "create")
  /\ work' = Created(work)
  /\ Go(p, "commit")
  /\ UNCHANGED db

\* Every step is committed by itself.
StepCommits(p) ==
  /\ At(p, "step")
  /\ LET v == opener[p].version
     IN /\ ~StepFails(work, v)
        /\ work' = Migrated(work, v) /\ db' = work'
        /\ opener' = [opener EXCEPT ![p].version = v + 1,
                                    ![p].pc = IF v + 1 = CurrentSchemaVersion THEN "commit" ELSE "step"]

\* migrateStep from the version p has reached, whatever the database says by now.
Step(p) ==
  /\ At(p, "step")
  /\ LET v == opener[p].version
     IN /\ ~StepFails(work, v)
        /\ work' = Migrated(work, v)
        /\ opener' = [opener EXCEPT ![p].version = v + 1,
                                    ![p].pc = IF v + 1 = CurrentSchemaVersion THEN "commit" ELSE "step"]
  /\ UNCHANGED db

Commit(p) ==
  /\ At(p, "commit")
  /\ db' = work
  /\ work' = None
  /\ Go(p, "open")

\* A step, its hook or the commit fails: the transaction is rolled back.
Rollback(p) ==
  /\ opener[p].pc \in {"create", "step", "commit"}
  /\ work' = None
  /\ Fail(p)
  /\ UNCHANGED db

\* The process dies; SQLite drops its transaction.
Die(p) ==
  /\ ~At(p, "closed")
  /\ work' = IF opener[p].pc \in {"create", "step", "commit"} THEN None ELSE work
  /\ Fail(p)
  /\ UNCHANGED db

\* An open store writes the dashboard row, in a transaction of its own; what it writes
\* names a run or a provider, as the row that was just created does not.
Write(p) ==
  /\ At(p, "open")
  /\ work = None
  /\ \E value \in Values \ {Blank} : db' = [db EXCEPT !.dashboard = value]
  /\ UNCHANGED <<work, opener>>

OpenStep(p) ==
  \/ CountTables(p) \/ FindVersionTable(p) \/ CountRows(p) \/ ReadVersion(p) \/ SetJournalMode(p)
  \/ StatementFails(p) \/ Begin(p) \/ Create(p) \/ Step(p) \/ Commit(p) \/ Rollback(p)

MigrationNext == \E p \in Openers : Open(p) \/ OpenStep(p) \/ Die(p) \/ Write(p)

MigrationSpec == MigrationInit /\ [][MigrationNext]_migrationVars

----------------------------------------------------------------------------
(* Properties *)

Transacting == {"create", "step", "commit"}

MigrationTypeOK ==
  /\ db.rows = None \/ db.rows \in Seq(Nat)
  /\ db.features \subseteq Features /\ db.dashboard \in Values
  /\ work # None => /\ work.rows = None \/ work.rows \in Seq(Nat)
                    /\ work.features \subseteq Features /\ work.dashboard \in Values
  /\ opener \in [Openers -> [pc: {"closed", "tables", "version_table", "rows", "version", "wal", "begin",
                                  "create", "step", "commit", "open"},
                             pass: {1, 2}, tables: BOOLEAN, version: 0..CurrentSchemaVersion]]

\* What is committed under a version has exactly the features of that version, whoever
\* migrated it from whichever version it had read, and wherever a process died.
VersionNamesSchema ==
  \A v \in 1..CurrentSchemaVersion :
    (db.rows = <<v>> /\ "foreign" \notin db.features) =>
      \E base \in SUBSET Optional : db.features = SchemaOf(v, base)

\* A store is open only on the current schema, and stays on it.
OpenedIsCurrent == \A p \in Openers : At(p, "open") => db.rows = <<CurrentSchemaVersion>>

\* The version an existing database names is that of its schema, and a process whose open
\* returned works on the current one (store.go preflightMigrationSource, runMigration).
SchemaIsCurrent == VersionNamesSchema /\ OpenedIsCurrent

\* The database goes from what it was to the current schema at once, never elsewhere;
\* the dashboard row survives, and an unsupported database is left alone.
Upgrade == INSTANCE SchemaUpgrade WITH
  schema <- <<db.rows, IF db.rows = <<CurrentSchemaVersion>> THEN {} ELSE db.features>>,
  dashboard <- db.dashboard, Current <- <<<<CurrentSchemaVersion>>, {}>>,
  Sources <- {<<None, {}>>} \union
             {<<<<v>>, SchemaOf(v, base)>> : v \in 1..(CurrentSchemaVersion - 1), base \in SUBSET Optional}
ImplementsSchemaUpgrade == Upgrade!Spec
=============================================================================
