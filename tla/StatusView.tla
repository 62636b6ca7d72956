------------------------------ MODULE StatusView ------------------------------
(***************************************************************************)
(* skout st beside a synchronization. The command reads each part of its   *)
(* dashboard with a statement of its own, outside a transaction, while the *)
(* synchronization stores its run row, its data and the dashboard's row in *)
(* transactions of their own, and may die between two of them.             *)
(***************************************************************************)
EXTENDS Integers, FiniteSets

CONSTANTS
  MaxRuns,       \* bound: synchronizations
  CircuitLimit   \* failures recorded since the last recorded success that open the circuit (5)

Runs == 1..MaxRuns
NoRun == 0

StatusAssumption == MaxRuns \in Nat \ {0} /\ CircuitLimit \in Nat \ {0}

VARIABLES
  file,      \* "none", "empty" (no table committed yet) or "ready"
  rows,      \* sync_runs: each run's status, "none" before it
  people,    \* the run whose players are stored
  items,     \* the run the FanGraphs item's state is of
  board,     \* dashboard_status: [last, ended, failures, open, legacy], and what was
             \* stored by then: [people, items]
  run,       \* the synchronization under way, NoRun between two
  step,      \* where it stands
  outcome,   \* what its steps came to
  reader,    \* the next part the command reads
  view,      \* what it has read
  \* history
  inARow,    \* failures recorded since the last recorded success
  since      \* the players stored when the command began

database == <<file, rows, people, items, board>>
writer == <<run, step, outcome>>
statusVars == <<database, writer, reader, view, inARow, since>>

\* A database may come from a release whose Yahoo login had failed for some runs.
NewBoard(failures) ==
  [last |-> NoRun, ended |-> "none", people |-> 0, items |-> 0, failures |-> failures,
   open |-> failures >= CircuitLimit, legacy |-> failures > 0]
NoView == [run |-> "none", board |-> NewBoard(0), people |-> 0, items |-> 0]

StatusInit ==
  /\ \E failures \in 0..CircuitLimit :
       /\ file = IF failures = 0 THEN "none" ELSE "ready"
       /\ board = NewBoard(failures) /\ inARow = failures
  /\ rows = [r \in Runs |-> "none"]
  /\ people = 0 /\ items = 0
  /\ run = NoRun /\ step = "idle" /\ outcome = "none"
  /\ reader = "idle" /\ view = NoView /\ since = 0

(***************************************************************************)
(* The synchronization                                                     *)
(***************************************************************************)

\* Opening creates the file before the transaction that fills it.
OpenDatabase ==
  /\ step = "idle" /\ file # "ready"
  /\ file' = IF file = "none" THEN "empty" ELSE "ready"
  /\ UNCHANGED <<rows, people, items, board, writer, reader, view, inARow, since>>

StartRun ==
  /\ step = "idle" /\ file = "ready"
  /\ \E r \in Runs :
       /\ rows[r] = "none" /\ \A q \in Runs : q < r => rows[q] # "none"
       /\ rows' = [rows EXCEPT ![r] = "running"] /\ run' = r
  /\ step' = "yahoo" /\ outcome' = "failed"
  /\ UNCHANGED <<file, people, items, board, reader, view, inARow, since>>

SyncYahoo ==
  /\ step = "yahoo"
  /\ \/ people' = run /\ outcome' = "success"
     \/ UNCHANGED <<people, outcome>>
  /\ step' = "fangraphs"
  /\ UNCHANGED <<file, rows, items, board, run, reader, view, inARow, since>>

Improved == IF outcome = "success" THEN "success" ELSE "degraded"
Worsened == IF outcome = "success" THEN "degraded" ELSE "failed"

\* The item's state is written either way, unless it is skipped as fresh, which counts as
\* a success.
SyncFanGraphs ==
  /\ step = "fangraphs"
  /\ \/ items' = run /\ outcome' \in {Improved, Worsened}
     \/ UNCHANGED items /\ outcome' = Improved
  /\ step' = "finish"
  /\ UNCHANGED <<file, rows, people, board, run, reader, view, inARow, since>>

\* A failure to mark the row failed is ignored; one to mark it complete ends the process.
FinishRun ==
  /\ step = "finish"
  /\ \/ outcome # "failed" /\ rows' = [rows EXCEPT ![run] = "complete"]
     \/ outcome = "failed" /\ rows' \in {rows, [rows EXCEPT ![run] = "failed"]}
  /\ step' = "board"
  /\ UNCHANGED <<file, people, items, board, run, outcome, reader, view, inARow, since>>

\* Fault: the limit is compared with the failures before this one.
ProviderFailureLate ==
  [last |-> run, ended |-> "failed", people |-> people, items |-> items,
   failures |-> board.failures + 1, open |-> board.failures >= CircuitLimit, legacy |-> FALSE]

ProviderFailure ==
  [last |-> run, ended |-> "failed", people |-> people, items |-> items,
   failures |-> IF board.failures < CircuitLimit THEN board.failures + 1 ELSE CircuitLimit,
   open |-> board.failures + 1 >= CircuitLimit, legacy |-> FALSE]

ProviderSuccess == [NewBoard(0) EXCEPT !.last = run, !.ended = outcome,
                                         !.people = people, !.items = items]

RecordOutcome ==
  /\ step = "board"
  /\ IF outcome = "failed"
       THEN board' = ProviderFailure /\ inARow' = inARow + 1
       ELSE board' = ProviderSuccess /\ inARow' = 0
  /\ run' = NoRun /\ step' = "idle" /\ outcome' = "none"
  /\ UNCHANGED <<file, rows, people, items, reader, view, since>>

\* The process is killed, or a statement fails: what is stored stays as it is.
Die ==
  /\ step # "idle"
  /\ run' = NoRun /\ step' = "idle" /\ outcome' = "none"
  /\ UNCHANGED <<database, reader, view, inARow, since>>

(***************************************************************************)
(* The command                                                             *)
(***************************************************************************)

\* Without a file there is nothing to read.
Inspect ==
  /\ reader \in {"idle", "shown"}
  /\ view' = NoView /\ since' = people
  /\ reader' = IF file = "none" THEN "shown" ELSE "runs"
  /\ UNCHANGED <<database, writer, inARow>>

Read(part, then) ==
  /\ reader = part /\ reader' = then
  /\ UNCHANGED <<database, writer, inARow, since>>

Latest == IF rows[1] = "none" THEN "none"
          ELSE rows[CHOOSE r \in Runs : rows[r] # "none" /\ \A q \in Runs : q > r => rows[q] = "none"]

ReadRuns == Read("runs", "board") /\ view' = [view EXCEPT !.run = Latest]

ReadBoard == Read("board", "people") /\ view' = [view EXCEPT !.board = board]

\* Fault: the counts were taken with the first part.
ReadPeopleEarlier == Read("people", "items") /\ view' = [view EXCEPT !.people = since]

ReadPeople == Read("people", "items") /\ view' = [view EXCEPT !.people = people]

ReadItems == Read("items", "shown") /\ view' = [view EXCEPT !.items = items]

\* Fault: the last run is the latest row.
LastRunOfRows == view.run

\* What is printed. A failure of the former login is not shown, nor is what it led to.
LastRun == IF view.board.legacy THEN "none" ELSE view.board.ended
Blocked == ~view.board.legacy /\ view.board.open
Failures == IF view.board.legacy THEN 0 ELSE view.board.failures
NoSnapshot == view.people = 0

StatusNext ==
  \/ OpenDatabase \/ StartRun \/ SyncYahoo \/ SyncFanGraphs \/ FinishRun \/ RecordOutcome \/ Die
  \/ Inspect \/ ReadRuns \/ ReadBoard \/ ReadPeople \/ ReadItems

StatusSpec == StatusInit /\ [][StatusNext]_statusVars

(***************************************************************************)
(* Properties                                                              *)
(***************************************************************************)
StatusTypeOK ==
  /\ file \in {"none", "empty", "ready"}
  /\ rows \in [Runs -> {"none", "running", "complete", "failed"}]
  /\ people \in Runs \cup {0} /\ items \in Runs \cup {0} /\ run \in Runs \cup {NoRun}
  /\ board.failures \in 0..CircuitLimit

\* The dashboard shown never tells of a run without what the run stored, and never says
\* there is no snapshot when one was there as the command began: counts are read after
\* the run, and stored before it, however the statements of the two fall.
ShownRunIsCounted ==
  reader = "shown" =>
    /\ view.people >= view.board.people /\ view.people >= since
    /\ view.items >= view.board.items

\* The last run shown has ended: one that died, or is under way, is not taken for it, and
\* a success is that of a run whose row is complete.
LastRunHasEnded ==
  reader = "shown" =>
    /\ LastRun # "running"
    /\ LastRun \in {"success", "degraded"} => rows[view.board.last] = "complete"

\* The circuit is open just when as many failures were recorded as open it since the last
\* success was, those of the former login counted. A run that dies before it records
\* neither adds to them nor takes them back.
OpenAfterLimit == board.open = (inARow >= CircuitLimit)

\* What st shows beside a run was committed with it or later, the last run has ended, and
\* the circuit is open for the failures on record.
StatusIsTrue == ShownRunIsCounted /\ LastRunHasEnded /\ OpenAfterLimit
==============================================================================
