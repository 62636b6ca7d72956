----------------------------- MODULE RosterSync -----------------------------
(***************************************************************************)
(* The synchronization's step for the 40-man rosters, mlbRosterStep, with  *)
(* the freshness row of each club. The clubs are refreshed one by one, in  *)
(* the order of the directory; for each the need is evaluated, the attempt *)
(* recorded, the roster fetched, replaced, and the success recorded, five  *)
(* calls that fail on their own. A run may die anywhere; the next begins   *)
(* with what it left. Rosters are told apart by the run that fetched them. *)
(***************************************************************************)
EXTENDS Integers, FiniteSets

CONSTANTS
  Clubs,         \* the thirty
  MaxRuns        \* bound: runs of the step

RosterAssumption == Clubs # {} /\ MaxRuns \in Nat \ {0}

VARIABLES
  run,           \* runs begun
  force,         \* whether this one was asked to refresh whatever is fresh
  stage,         \* where it is
  todo,          \* the clubs it has not come to
  club,          \* the club it is at
  counted,       \* [succeeded, failed]: sets of clubs
  stored,        \* the run each club's stored roster is of, 0 for none
  row,           \* each club's freshness row: [status, success]
  stale,         \* clubs whose success is older than the refresh window
  outcome        \* how the last run that ended did

rosterVars == <<run, force, stage, todo, club, counted, stored, row, stale, outcome>>

NoClubs == [succeeded |-> {}, failed |-> {}]

RosterInit ==
  /\ run = 0 /\ force = FALSE
  /\ stage = "idle" /\ todo = {} /\ club \in Clubs /\ counted = NoClubs
  /\ stored = [c \in Clubs |-> 0]
  /\ row = [c \in Clubs |-> [status |-> "none", success |-> 0]]
  /\ stale = {}
  /\ outcome = "none"

----------------------------------------------------------------------------
(* Helpers *)

Go(next) == stage' = next

\* The club is done with; with none left the run is judged.
Leave(failed) ==
  /\ counted' = IF failed THEN [counted EXCEPT !.failed = @ \union {club}] ELSE counted
  /\ Go("next")

\* NeedsSyncRow.
Needed(c) == force \/ row[c].status # "complete" \/ row[c].success = 0 \/ c \in stale

\* A run that some clubs succeeded in is a success.
VerdictLoosely(counts) == IF counts.failed # {} /\ counts.succeeded = {} THEN "failed" ELSE "complete"
Verdict(counts) ==
  IF counts.failed = {} THEN "complete"
  ELSE IF counts.succeeded = {} THEN "failed" ELSE "degraded"

----------------------------------------------------------------------------
(* Actions *)

\* Since the last run any success may have left its window.
Begin ==
  /\ stage = "idle" /\ run < MaxRuns
  /\ run' = run + 1
  /\ force' \in BOOLEAN
  /\ stale' \in {s \in SUBSET {c \in Clubs : row[c].success > 0} : stale \subseteq s}
  /\ Go("directory")
  /\ todo' = {} /\ counted' = NoClubs /\ outcome' = "none"
  /\ UNCHANGED <<club, stored, row>>

\* The directory must be fetched and name every club once; else nothing is touched.
Directory ==
  /\ stage = "directory"
  /\ \/ Go("next") /\ todo' = Clubs /\ UNCHANGED outcome
     \/ Go("idle") /\ outcome' = "failed" /\ UNCHANGED todo
  /\ UNCHANGED <<run, force, club, counted, stored, row, stale>>

NextClub ==
  /\ stage = "next" /\ todo # {}
  /\ \E c \in todo : club' = c /\ todo' = todo \ {c}
  /\ Go("need")
  /\ UNCHANGED <<run, force, counted, stored, row, stale, outcome>>

\* The row cannot be read, the club is fresh, or it is due.
Need ==
  /\ stage = "need"
  /\ \/ Leave(TRUE)
     \/ ~Needed(club) /\ Leave(FALSE)
     \/ Needed(club) /\ Go("attempt") /\ UNCHANGED counted
  /\ UNCHANGED <<run, force, todo, club, stored, row, stale, outcome>>

\* The attempt is recorded as a success already.
AttemptComplete ==
  /\ stage = "attempt"
  /\ row' = [row EXCEPT ![club] = [status |-> "complete", success |-> run]]
  /\ Go("fetch") /\ UNCHANGED counted
  /\ UNCHANGED <<run, force, todo, club, stored, stale, outcome>>

\* MarkSyncRowAttempt keeps the last success.
Attempt ==
  /\ stage = "attempt"
  /\ \/ Leave(TRUE) /\ UNCHANGED row
     \/ row' = [row EXCEPT ![club].status = "running"] /\ Go("fetch") /\ UNCHANGED counted
  /\ UNCHANGED <<run, force, todo, club, stored, stale, outcome>>

\* The fetch fails, or its roster is empty, or the store refuses it: the row says so, if
\* that can be written.
Fail == \/ row' = [row EXCEPT ![club].status = "failed"]
        \/ UNCHANGED row

Fetch ==
  /\ stage = "fetch"
  /\ \/ Go("replace") /\ UNCHANGED <<row, counted>>
     \/ Fail /\ Leave(TRUE)
  /\ UNCHANGED <<run, force, todo, club, stored, stale, outcome>>

Replace ==
  /\ stage = "replace"
  /\ \/ stored' = [stored EXCEPT ![club] = run] /\ Go("success") /\ UNCHANGED <<row, counted>>
     \/ Fail /\ Leave(TRUE) /\ UNCHANGED stored
  /\ UNCHANGED <<run, force, todo, club, stale, outcome>>

\* MarkSyncRowSuccess; its failure is the club's, though the roster is replaced.
Success ==
  /\ stage = "success"
  /\ \/ /\ row' = [row EXCEPT ![club] = [status |-> "complete", success |-> run]]
        /\ stale' = stale \ {club}
        /\ counted' = [counted EXCEPT !.succeeded = @ \union {club}]
        /\ Go("next")
     \/ Fail /\ Leave(TRUE) /\ UNCHANGED stale
  /\ UNCHANGED <<run, force, todo, club, stored, outcome>>

End ==
  /\ stage = "next" /\ todo = {}
  /\ outcome' = Verdict(counted)
  /\ Go("idle")
  /\ UNCHANGED <<run, force, todo, club, counted, stored, row, stale>>

Die ==
  /\ stage # "idle"
  /\ Go("idle") /\ outcome' = "died" /\ todo' = {}
  /\ UNCHANGED <<run, force, club, counted, stored, row, stale>>

RosterNext ==
  \/ Begin \/ Directory \/ NextClub \/ Need \/ Attempt \/ Fetch \/ Replace \/ Success \/ End \/ Die

RosterSpec == RosterInit /\ [][RosterNext]_rosterVars

----------------------------------------------------------------------------
(* Properties *)

RosterTypeOK ==
  /\ run \in 0..MaxRuns /\ force \in BOOLEAN
  /\ stage \in {"idle", "directory", "next", "need", "attempt", "fetch", "replace", "success"}
  /\ todo \subseteq Clubs /\ club \in Clubs /\ counted \in [succeeded: SUBSET Clubs, failed: SUBSET Clubs]
  /\ stored \in [Clubs -> 0..MaxRuns] /\ stale \subseteq Clubs
  /\ row \in [Clubs -> [status: {"none", "running", "complete", "failed"}, success: 0..MaxRuns]]
  /\ outcome \in {"none", "complete", "degraded", "failed", "died"}

\* A row that lets a later run skip its club has the stored roster for it: of the very run
\* that succeeded, wherever earlier runs failed or died in between.
FreshRowHasItsRoster ==
  \A c \in Clubs : row[c].status = "complete" => stored[c] = row[c].success /\ stored[c] > 0

\* A run reported complete leaves every club with a fresh row, and one reported failed has
\* replaced no roster it then recorded.
OutcomeIsHonest ==
  stage = "idle" =>
    /\ outcome = "complete" => \A c \in Clubs : row[c].status = "complete" /\ (c \in stale => row[c].success = run)
    /\ outcome = "failed" => \A c \in Clubs : row[c].success < run

\* A fresh row has its roster, and the step's outcome says what became of the clubs.
RosterStepIsHonest == FreshRowHasItsRoster /\ OutcomeIsHonest
=============================================================================
