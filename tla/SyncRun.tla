------------------------------- MODULE SyncRun -------------------------------
(***************************************************************************)
(* One foreground synchronization after another: the synchronization lock  *)
(* lets a single one run, for the user or for a fantasy command. It        *)
(* acquires the Yahoo league, then the other providers in their order.     *)
(* Every piece of stored data, freshness, archive flag and outcome is a    *)
(* transaction of its own, so a run may die between any two of them.       *)
(*                                                                         *)
(* internal/app/sync.go           Run, runSyncItem, synchronizeYahoo       *)
(* internal/app/sync_sources.go   the provider steps                       *)
(* internal/store/freshness.go    sync_item_state                          *)
(* internal/store/sync_runs.go    sync_runs                                *)
(* internal/store/status.go       dashboard_status                         *)
(* internal/store/fantasy.go      the league's rows and its archive flag   *)
(*                                                                         *)
(* Stored data is modelled by the time it was committed.                   *)
(***************************************************************************)
EXTENDS Integers, Sequences, FiniteSets

CONSTANTS
  Keys,         \* canonical league keys
  Names,        \* what a user may call a league: keys and numeric ids
  Canon,        \* Canon[n]: the key CanonicalPublicLeagueKey makes of n
  Owners,       \* fantasy commands that may run a synchronization
  Nobody,       \* a synchronization run by hand has no such command
  None,         \* no league, no team
  K,            \* provider steps after Yahoo
  Reconciling,  \* steps that reconcile identities once their rows are in
  Historical,   \* steps guarded by a completeness manifest
  SyncTTL,      \* age up to which an automatic run takes an item as fresh
  FailureLimit, \* failures recorded since the last success that open the circuit
  Ending,       \* bound: the leagues whose season may end
  MaxTime,      \* bound: the clock stops here
  MaxRuns       \* bound: so many runs are recorded

Steps == 1..K
Items == Keys \cup Steps
Never == -1
Times == 0..MaxTime

ASSUME SyncAssumption ==
  /\ Keys \subseteq Names /\ Canon \in [Names -> Keys]
  /\ \A k \in Keys : Canon[k] = k
  /\ None \notin Names /\ Keys \cap Steps = {}
  /\ Nobody \notin Owners
  /\ K \in Nat
  /\ Historical \subseteq Steps /\ Reconciling \subseteq Steps \ Historical
  /\ SyncTTL \in Nat /\ FailureLimit \in Nat \ {0}
  /\ Ending \subseteq Keys /\ MaxTime \in Nat /\ MaxRuns \in Nat

VARIABLES
  now,          \* the clock
  lapsed,       \* leagues whose end date lies in the past
  finished,     \* leagues that Yahoo reports as finished
  config,       \* config.json: the league, and the league of the saved team
  status,       \* status[k]: sync_item_state.status
  success,      \* success[k]: sync_item_state.last_successful_at
  data,         \* data[k]: when the stored data of k was committed
  final,        \* leagues whose stored data was acquired after the season
  archived,     \* leagues whose data is frozen
  manifest,     \* historical steps recorded as complete
  runs,         \* runs[id]: sync_runs.status
  board,        \* dashboard_status: failures counted, circuit, and the last run whose
                \* success is recorded (provider_last_success_at)
  at,           \* where the synchronization stands, "idle" when there is none
  job           \* its locals

vars == <<now, lapsed, finished, config, status, success, data, final, archived,
          manifest, runs, board, at, job>>
world == <<now, lapsed, finished>>
itemVars == <<status, success>>
dataVars == <<data, final, archived, manifest>>
runVars == <<runs, board>>

\* The locals of SyncProduction and Run.
NoJob == [owner |-> Nobody, asked |-> None, league |-> None, over |-> FALSE,
          past |-> FALSE, run |-> 0, pos |-> 0, won |-> 0]

Init ==
  /\ now = 0 /\ lapsed = {} /\ finished = {}
  /\ config = [league |-> None, team |-> None]
  /\ status = [k \in Items |-> "absent"]
  /\ success = [k \in Items |-> Never]
  /\ data = [k \in Items |-> Never]
  /\ final = {} /\ archived = {} /\ manifest = {}
  /\ runs = <<>>
  /\ board = [failures |-> 0, circuit |-> FALSE, succeeded |-> 0]
  /\ at = "idle"
  /\ job = NoJob

Tick ==
  /\ now < MaxTime
  /\ now' = now + 1
  /\ UNCHANGED <<lapsed, finished, config, itemVars, dataVars, runVars, at, job>>

\* The end date passes; Yahoo reports the season as finished.
SeasonEnds(k) ==
  /\ \/ lapsed' = lapsed \cup {k} /\ UNCHANGED finished
     \/ finished' = finished \cup {k} /\ UNCHANGED lapsed
  /\ UNCHANGED <<now, config, itemVars, dataVars, runVars, at, job>>

(***************************************************************************)
(* Item freshness.                                                         *)
(***************************************************************************)

\* max(now.Sub(success), 0) > TTL, unless the item did not end in success.
Needs(k, ttl) ==
  \/ status[k] # "complete"
  \/ success[k] = Never
  \/ now - success[k] > ttl

\* The item that is being synchronized.
Item == IF job.pos = 0 THEN job.league ELSE job.pos

\* Fault: the attempt replaces the whole row.
MarkAttemptAnew(k) ==
  /\ status' = [status EXCEPT ![k] = "running"]
  /\ success' = [success EXCEPT ![k] = Never]

\* Fault: an attempt leaves the row as it is.
MarkNoAttempt(k) == UNCHANGED itemVars

MarkAttempt(k) ==
  /\ status' = [status EXCEPT ![k] = "running"]
  /\ UNCHANGED success

MarkFailure(k) ==
  /\ status' = [status EXCEPT ![k] = "failed"]
  /\ UNCHANGED success

MarkSuccess(k) ==
  /\ status' = [status EXCEPT ![k] = "complete"]
  /\ success' = [success EXCEPT ![k] = now]

\* The outcome is counted, and the next item's turn comes.
NextItem(win) ==
  /\ job' = [job EXCEPT !.pos = @ + 1, !.won = @ + win]
  /\ at' = IF job.pos = K THEN "tally" ELSE "item"

\* Fault: an item that is skipped is counted as fetched, too.
WinTwice == NextItem(2)

Win == NextItem(1)

\* Fault: an item that failed is tried again.
LoseAndRetry == at' = "item" /\ UNCHANGED job

\* Fault: a failed item counts as one that succeeded.
LoseAsWin == NextItem(1)

Lose == NextItem(0)

\* The action of an item failed: recorded, unless that fails too (the error is
\* dropped); its prior success is kept.
ItemFails ==
  /\ MarkFailure(Item) \/ UNCHANGED itemVars
  /\ Lose
  /\ UNCHANGED <<world, config, dataVars, runVars>>

\* Fault: the flag is looked up for the configured league.
IsConfiguredArchived(k) == k \in archived /\ config.league = k

IsArchived(k) == k \in archived

(***************************************************************************)
(* A run begins: lock and store (DatabaseGuard), configuration, run row.   *)
(***************************************************************************)

\* By hand or by a fantasy command, with or without -l.
Begin(owner, asked) ==
  /\ at = "idle"
  /\ Len(runs) < MaxRuns
  /\ at' = "config"
  /\ job' = [NoJob EXCEPT !.owner = owner, !.asked = asked]
  /\ UNCHANGED <<world, config, itemVars, dataVars, runVars>>

\* -l, else the configured league, else the user's answer to the prompt.
Requested ==
  IF job.asked # None THEN {job.asked}
  ELSE IF config.league # None THEN {config.league} ELSE Names

ReadConfig ==
  /\ at = "config"
  /\ \E n \in Requested : job' = [job EXCEPT !.league = Canon[n]]
  /\ at' = "start"
  /\ UNCHANGED <<world, config, itemVars, dataVars, runVars>>

StartSyncRun ==
  /\ at = "start"
  /\ runs' = Append(runs, "running")
  /\ job' = [job EXCEPT !.run = Len(runs) + 1]
  /\ at' = "item"
  /\ UNCHANGED <<world, config, itemVars, dataVars, board>>

(***************************************************************************)
(* One item: is it due, acquire, commit, record.                           *)
(***************************************************************************)

\* What ends the item at once in success: a frozen league, a complete season,
\* or, in an automatic run, an item that is fresh.
Skipped ==
  \/ job.pos = 0 /\ IsArchived(job.league)
  \/ job.pos \in manifest
  \/ job.owner # Nobody /\ ~Needs(Item, SyncTTL)

SkipItem ==
  /\ at = "item"
  /\ Skipped
  /\ Win
  /\ UNCHANGED <<world, config, itemVars, dataVars, runVars>>

\* Progress cannot be written or freshness not be read or recorded.
CheckFails ==
  /\ at = "item"
  /\ Lose
  /\ UNCHANGED <<world, config, itemVars, dataVars, runVars>>

AttemptItem ==
  /\ at = "item"
  /\ ~Skipped
  /\ MarkAttempt(Item)
  /\ at' = "acquire"
  /\ UNCHANGED <<world, config, dataVars, runVars, job>>

\* All requests of the item: for Yahoo the settings come first, and with them
\* whether the season is over; rosters, players and weeks follow.
AcquireYahoo ==
  /\ at = "acquire" /\ job.pos = 0
  /\ job' = [job EXCEPT !.over = job.league \in finished,
                        !.past = job.league \in lapsed]
  /\ at' = "replace"
  /\ UNCHANGED <<world, config, itemVars, dataVars, runVars>>

\* Fault: the season is recorded as complete while its rows are acquired.
AcquireComplete ==
  /\ at = "acquire" /\ job.pos # 0
  /\ manifest' = manifest \cup (Historical \cap {job.pos})
  /\ at' = "replace"
  /\ UNCHANGED <<world, config, itemVars, data, final, archived, runVars, job>>

Acquire ==
  /\ at = "acquire" /\ job.pos # 0
  /\ at' = "replace"
  /\ UNCHANGED <<world, config, itemVars, dataVars, runVars, job>>

\* Fetching, committing, archiving or recording fails.
ActionFails ==
  /\ \/ at \in {"acquire", "replace", "archive", "save", "mark"}
     \/ at = "settle" /\ job.pos \in Reconciling \cup Historical
  /\ ItemFails

\* Fault: the league is frozen before its final snapshot is in.
ArchiveThenReplace ==
  /\ at = "replace" /\ job.pos = 0
  /\ ~IsArchived(job.league)
  /\ job.over
  /\ archived' = archived \cup {job.league}
  /\ at' = "save"
  /\ UNCHANGED <<world, config, itemVars, data, final, manifest, runVars, job>>

\* One transaction: refused when archived, all rows of the league otherwise.
ReplaceYahoo ==
  /\ at = "replace" /\ job.pos = 0
  /\ ~IsArchived(job.league)
  /\ data' = [data EXCEPT ![job.league] = now]
  /\ final' = IF job.over \/ job.past THEN final \cup {job.league}
                                      ELSE final \ {job.league}
  /\ at' = "archive"
  /\ UNCHANGED <<world, config, itemVars, archived, manifest, runVars, job>>

\* leagueSeasonEnded: the settings said so, or the date has passed by now.
ArchiveYahoo ==
  /\ at = "archive"
  /\ IF job.over \/ job.league \in lapsed
       THEN archived' = archived \cup {job.league}
       ELSE UNCHANGED archived
  /\ at' = "save"
  /\ UNCHANGED <<world, config, itemVars, data, final, manifest, runVars, job>>

\* The whole file is written from what this run knows.
SaveConfig ==
  /\ at = "save"
  /\ config' = [league |-> job.league, team |-> job.league]
  /\ at' = "mark"
  /\ UNCHANGED <<world, itemVars, dataVars, runVars, job>>

Replace ==
  /\ at = "replace" /\ job.pos # 0
  /\ data' = [data EXCEPT ![job.pos] = now]
  /\ at' = "settle"
  /\ UNCHANGED <<world, config, itemVars, final, archived, manifest, runVars, job>>

\* A second transaction, for the steps that have one: identities or manifest.
Settle ==
  /\ at = "settle"
  /\ manifest' = manifest \cup (Historical \cap {job.pos})
  /\ at' = "mark"
  /\ UNCHANGED <<world, config, itemVars, data, final, archived, runVars, job>>

MarkItem ==
  /\ at = "mark"
  /\ MarkSuccess(Item)
  /\ Win
  /\ UNCHANGED <<world, config, dataVars, runVars>>

(***************************************************************************)
(* The end of a run. Run row and dashboard are separate transactions.      *)
(***************************************************************************)
Tally ==
  /\ at = "tally"
  /\ at' = IF job.won = 0 THEN "fail" ELSE "complete"
  /\ UNCHANGED <<world, config, itemVars, dataVars, runVars, job>>

\* An error here is dropped: the row may stay "running".
FailSyncRun ==
  /\ at = "fail"
  /\ runs' \in {runs, [runs EXCEPT ![job.run] = "failed"]}
  /\ at' = "recordFailure"
  /\ UNCHANGED <<world, config, itemVars, dataVars, board, job>>

End == at' = "idle" /\ job' = NoJob

\* Fault: the counter counts and is capped, but one too early.
RecordFailureEarly ==
  /\ at = "recordFailure"
  /\ board' = [failures |-> IF board.failures < FailureLimit
                              THEN board.failures + 1 ELSE FailureLimit,
               circuit |-> board.failures + 2 >= FailureLimit,
               succeeded |-> board.succeeded]
  /\ End
  /\ UNCHANGED <<world, config, itemVars, dataVars, runs>>

\* MIN(provider_failure_count+1, 5), and the circuit from the old count.
RecordFailure ==
  /\ at = "recordFailure"
  /\ board' = [failures |-> IF board.failures < FailureLimit
                              THEN board.failures + 1 ELSE FailureLimit,
               circuit |-> board.failures + 1 >= FailureLimit,
               succeeded |-> board.succeeded]
  /\ End
  /\ UNCHANGED <<world, config, itemVars, dataVars, runs>>

CompleteSyncRun ==
  /\ at = "complete"
  /\ runs[job.run] = "running"
  /\ runs' = [runs EXCEPT ![job.run] = "complete"]
  /\ at' = "recordSuccess"
  /\ UNCHANGED <<world, config, itemVars, dataVars, board, job>>

\* Fault: a success closes the circuit and goes on counting where it was.
RecordSuccessKeepsCount ==
  /\ at = "recordSuccess"
  /\ board' = [board EXCEPT !.circuit = FALSE, !.succeeded = job.run]
  /\ End
  /\ UNCHANGED <<world, config, itemVars, dataVars, runs>>

RecordSuccess ==
  /\ at = "recordSuccess"
  /\ board' = [failures |-> 0, circuit |-> FALSE, succeeded |-> job.run]
  /\ End
  /\ UNCHANGED <<world, config, itemVars, dataVars, runs>>

\* The process dies, or Run returns an error of its own (configuration, run
\* row, progress, dashboard): the lock is returned, the rows stay as they are.
Abandon ==
  /\ at # "idle"
  /\ End
  /\ UNCHANGED <<world, config, itemVars, dataVars, runVars>>

ItemStep ==
  \/ SkipItem \/ CheckFails \/ AttemptItem
  \/ AcquireYahoo \/ ReplaceYahoo \/ ArchiveYahoo \/ SaveConfig
  \/ Acquire \/ Replace \/ Settle
  \/ ActionFails \/ MarkItem

SyncStep ==
  \/ ReadConfig \/ StartSyncRun \/ ItemStep
  \/ Tally \/ FailSyncRun \/ RecordFailure \/ CompleteSyncRun \/ RecordSuccess

\* Nobody wants a synchronization.
Rest == at = "idle" /\ UNCHANGED vars

Next ==
  \/ Tick
  \/ \E k \in Ending : SeasonEnds(k)
  \/ \E o \in Owners \cup {Nobody}, n \in Names \cup {None} : Begin(o, n)
  \/ SyncStep
  \/ Abandon
  \/ Rest

Spec == Init /\ [][Next]_vars

\* A run that is not interrupted goes on: requests have deadlines, and the
\* user answers a prompt or there is none (standard input is not a terminal).
Fairness == WF_vars(SyncStep)

(***************************************************************************)
(* Properties                                                              *)
(***************************************************************************)

\* Every variable has its type.
TypeOK ==
  /\ now \in Times
  /\ lapsed \subseteq Keys /\ finished \subseteq Keys
  /\ config \in [league : Names \cup {None}, team : Keys \cup {None}]
  /\ status \in [Items -> {"absent", "running", "complete", "failed"}]
  /\ success \in [Items -> Times \cup {Never}]
  /\ data \in [Items -> Times \cup {Never}]
  /\ final \subseteq Keys /\ archived \subseteq Keys
  /\ manifest \subseteq Historical
  /\ runs \in Seq({"running", "complete", "failed"})
  /\ board \in [failures : 0..FailureLimit, circuit : BOOLEAN, succeeded : Nat]
  /\ at \in {"idle", "config", "start", "item", "acquire", "replace", "archive",
             "save", "settle", "mark", "tally", "fail", "recordFailure",
             "complete", "recordSuccess"}
  /\ job.league \in Keys \cup {None} /\ job.pos \in 0..K + 1
  /\ job.won \in 0..job.pos /\ job.run \in 0..Len(runs)

\* A season that is archived stays archived, and its rows are never written
\* again, by whatever run, for whatever league that run was asked.
FrozenArchive ==
  [][\A k \in archived : k \in archived' /\ data'[k] = data[k]]_vars

\* What is frozen is a stored snapshot of a season that is over, even if the
\* run that froze it died at once or an earlier one died before it could.
ArchiveHasSnapshot ==
  \A k \in archived : data[k] # Never /\ k \in lapsed \cup finished

\* What is frozen was acquired after the season had ended.
ArchiveIsFinal == archived \subseteq final

\* An item that reads as fresh vouches for what is stored: its data is there,
\* and is not newer than the success on record. A run that dies between the
\* data's transaction and the success's leaves an item that is due, not one
\* that is fresh.
FreshnessHonest ==
  \A k \in Items :
    status[k] = "complete" => data[k] # Never /\ data[k] <= success[k]

\* Attempts, failures and crashes keep the last success and the last data.
FailureKeepsSuccess ==
  [][\A k \in Items : success'[k] >= success[k] /\ data'[k] >= data[k]]_vars

\* A historical season that will never be fetched again has its rows.
ManifestHonest == \A k \in manifest : data[k] # Never

\* The circuit is open only when FailureLimit runs have begun since the last run whose
\* success the dashboard recorded and none of them is complete on record, whatever was
\* lost between a run's row and the dashboard's. Runs that are complete may lie between
\* them: a run whose row was completed and whose success was not recorded resets nothing.
CircuitHasCause ==
  board.circuit =>
    Cardinality({r \in 1..Len(runs) : r > board.succeeded /\ runs[r] # "complete"})
      >= FailureLimit

\* A run is recorded as complete only if an item of it really is up to date.
CompletedRunHasItem ==
  at = "recordSuccess" =>
    \/ job.league \in archived
    \/ \E k \in {job.league} \cup Steps : status[k] = "complete" \/ k \in manifest

\* Freshness is honest, and stays the freshness of the last success.
FreshnessKept == []FreshnessHonest /\ FailureKeepsSuccess

\* What is recorded of runs, of one and of several, is what came of them.
RunOutcomeIsHonest == CircuitHasCause /\ CompletedRunHasItem

\* A frozen season is a stored one that is over, and stays as it was stored.
ArchiveIsFrozen == []ArchiveHasSnapshot /\ FrozenArchive

\* Whatever the providers answer, a synchronization comes to an end.
SyncEnds == at # "idle" ~> at = "idle"
==============================================================================
