# Verification of skout

skout is a command-line program: every invocation is a short-lived process that
reads a Yahoo fantasy league and MLB data into a private SQLite database and
renders views from it. There is no server, but there is concurrency: processes
share one database, one configuration file, one cache directory and two lock
files, and inside a process goroutines share one connection and bounded
channels. Data comes from providers that fail, and from leagues and games that
change while they are read. This directory holds TLA+ models of those parts, the
TLC runs that check them and proofs of the central results.

## Inventory

| part | state | operations | hard behaviour | what makes it correct |
|---|---|---|---|---|
| operation guard `store/lock.go` | flock on `runtime/database.lock` | acquire shared/exclusive (never blocks), close | every process, crash releases | exclusive excludes all; always returned |
| store `store/store.go` | one connection, WAL, guard | open (guard, path, pragma, migrate), transaction, close | failing opens, order of releases | database exists while used; guard outlives connection |
| migration `store/store.go` | the schema and `schema_version` | preflight, read version, one transaction of steps | two openers of one old database, crash between steps | version names the schema; an opener works on the current one |
| reset `app/reset.go` | four files | preflight, prompt, revalidate, delete in order, verify | guard released during the prompt; partial deletion | never under an open store; never a torn database; the report is the effect |
| sync lock `app/sync.go` | flock on `runtime/sync.lock` | acquire, release | a command runs a sync inside itself | one sync at a time; the command waits |
| sync pipeline `app/sync.go`, `app/sync_sources.go` | `sync_runs`, `sync_item_state`, `season_sync_status`, `dashboard_status`, league rows, `config.json` | run, item, step, outcome | one transaction per fact, any may be the last | freshness never claims more than is stored; frozen seasons stay frozen; runs end |
| status view `store/status.go`, `app/local.go` | none | one statement per part of the dashboard | a sync commits between the statements | nothing beside a run is older than the run |
| worker pools `app/sync.go`, `providers/yahoo_public.go` | two channels, W workers | schedule, fetch, collect | full channels, first error | no deadlock, all or one error, nothing left running |
| league acquisition `app/sync.go`, `providers/yahoo_*.go`, `store/fantasy.go` | the stored league | settings, rosters, pages, team, history, validate, replace | the league changes between the requests | nothing is stored that Yahoo never said; an undisturbed league is stored whole |
| fantasy commands `app/fantasy.go`, `app/matchup.go`, `cli/cli.go` | league, team | freshness check, auto-sync, serve, save team | another process syncs or selects meanwhile | serves committed data, says when it is stale |
| stored matchups `app/matchup.go`, `app/fantasy.go`, `app/sync.go` | pairings and rosters per week | reuse, prefer, refresh, mark, fall back | two writers, two sources, two versions, weeks that end | unmarked means current, or final |
| matchup prefetch `app/matchup.go` | schedule and odds channels, the shared connection | prefetch, acquire, overlay | a goroutine writes beside the main one and may outlive `Close` | transactions never interleave |
| MLB commands `app/mlb.go`, `store/snapshots.go`, `store/mlb.go` | versioned snapshots, rosters, totals, run rows | cached refresh, stale fallback, replacement | the refresh fails half way; a sync writes the same tables | current means young; a complete snapshot survives |
| lineups and signs `app/fantasy.go`, `app/matchup.go`, `app/mlb.go` | none | three commands derive a sign each | doubleheaders, lineup page against schedule | a sign was announced; commands agree |
| slate odds `app/mlb.go`, `app/matchup.go` | none | pair lines with games by position | partly quoted doubleheaders, two providers | games of a day told apart where the quotes allow it |
| quality starts `providers/mlb.go` | batches of five | batch, recover, aggregate | a panic in a worker | one player's failure costs one player |
| MLB rosters `app/sync_sources.go`, `store/mlb.go` | rosters, row-level freshness | replace club by club | clubs fail one by one | prior rows of a failed club stay; outcome is true |
| identities and enrichment `store/fantasy.go`, `store/projections.go`, `store/statcast.go` | rows of `players`, claims on MLB ids | upsert, reconcile, store and show values | rows of three writers, several candidates | one identity per role; nobody is shown another's values |
| cache `cache/cache.go` | files | get, put, prune | writers and pruners side by side, power loss | a reader gets a whole entry or none |
| transport `transport/http.go` | none | validate, execute, redirect | redirect chains | bounded, same scheme, headers stripped |

Analysis, domain formulas, rendering, glossary, grammar and `build.sh` hold no
state that outlives a call; `PROJECT.json` lists each with the reason it is not
modelled.

## Modules

| module | models | extends / uses |
|---|---|---|
| `LocalDatabase` | promise: users come and go, the database disappears only while nobody uses it | |
| `DatabaseGuard` | both locks, open/close, status, sync, reset, crashes | implements `LocalDatabase` |
| `DatabaseGuardProofs` | inductive invariant and theorems | `DatabaseGuard`, `TLAPS` |
| `SchemaUpgrade` | promise: one atomic upgrade, the dashboard row survives | |
| `Migration` | openers of an old database, statement by statement | implements `SchemaUpgrade` |
| `ParallelFetch` | promise of a parallel acquisition | |
| `FetchPool` | collector, workers, channels | implements `ParallelFetch` |
| `FetchPoolProofs` | inductive invariant, refinement | `FetchPool`, `TLAPS` |
| `LeagueAcquisition` | everything `synchronizeYahoo` fetches, while the league changes | extends `FetchPool` |
| `LeagueAcquisitionProofs` | inductive invariant and theorems | `LeagueAcquisition`, `FetchPoolProofs` |
| `SyncRun` | a sequence of synchronizations and everything they commit | |
| `SyncRunProofs` | inductive invariants and theorems | `SyncRun`, `TLAPS` |
| `FantasyCommands` | fantasy commands, `st -l` and MLB run rows beside synchronizations | extends `SyncRun` |
| `FantasyCommandsProofs` | inductive invariant and theorems | `FantasyCommands`, `SyncRunProofs` |
| `RosterSync` | the step for the 40-man rosters, club by club | |
| `PlayerIdentities` | player rows, reconciliation, values written to and shown from a row | |
| `QualityStarts` | batches of goroutines, recovered panics | |
| `StatusView` | `st` beside a synchronization | |
| `MatchupPrefetch` | one matchup command, its goroutines and their shared connection | |
| `MatchupPrefetchProofs` | inductive invariant and theorems | `MatchupPrefetch`, `TLAPS` |
| `StoredMatchups` | `m`, `mm`, `rt`, the live slots of `r`, and the weeks a sync stores | |
| `MLBCommands` | `t`, `tt`, `sp`: snapshots, windows, run records, the roster `t` stores | |
| `MLBCommandsProofs` | inductive invariant and theorems | `MLBCommands`, `TLAPS` |
| `SlateOdds` | which quoted line each game gets | |
| `GameSigns` | the signs of `r`, `m` and `t` | |
| `DiskCache` | one cache entry, readers, pruners, power loss | |
| `Transport` | one request and its redirects | |
| `Services` | the parts that share nothing, one of them per behaviour | extends `Transport`, instances the others |
| `ServicesProofs` | an invariant and theorems for each part, and for the composition | `Services`, `SyncRunProofs`, `TLAPS` |
| `MCServices` | the small instance of `Services` | extends `Services` |
| `MCLiveness` | what must end | extends `MatchupPrefetch`, instances `DatabaseGuard`, `SyncRun` |
| other `MC...` | constants of the runs | |

Definitions keep the names of the code. An action is the stretch of code between
two points where another actor can tell the difference: one system call on a
lock or file, one SQL statement or transaction, one request. `PROJECT.json`
maps every definition to its lines.

### Processes and the database

**DatabaseGuard.** `pc[p]` is where a process stands in `Open`/`Close`, in a
synchronization, in status or in reset; `mode[p]` the flock it holds; `syncLock`
the other lock; `files` the members of the database family that exist, `needed`
the auxiliary ones without which the primary file is not complete. SQLite is
external: it creates a rollback journal while it converts the file to WAL mode,
keeps commits in the `-wal` file and folds it back when the last connection
closes; a dead process leaves both. `Kill` takes any process at any step; a
synchronization inside a command dies with it.

**Migration.** An opener inspects the schema twice, statement by statement and
outside any transaction, then runs all steps from the version it read in one
`BEGIN IMMEDIATE`. `db` is what is committed, `work` what the open transaction
has. A schema is the set of features that tell versions apart. A second opener
whose version is out of date runs steps on a schema that has them already: what
SQLite does then (a duplicate column is an error, `IF NOT EXISTS` is not) decides
whether it is harmless, and the model follows each step's statement.

### Synchronization

**SyncRun.** `at` and `job` are the position and the locals of the one
synchronization that holds the lock; everything else is persistent or
environment. Each action is one transaction or one file write, so that `Abandon`
(the process dies, or `Run` returns an error of its own) can come between any
two. Data is the time of its commit, which is all that freshness can be compared
with. `Tick` moves the clock; `SeasonEnds` lets the end date pass or Yahoo report
the season finished. Steps after Yahoo are numbered: those in `Reconciling`
commit rows and then reconcile identities, those in `Historical` commit rows and
then the manifest that stops them from ever being fetched again.

**FetchPool and LeagueAcquisition.** Both pools of the code are the same
algorithm with 1-based weeks or 0-based teams. `jobs` and `results` are the
channels (capacity W each), `at` the collector, `stage` and `hand` the workers.
`LeagueAcquisition` runs the pool between the standings and the pages of free
agents, while managers add, drop and trade (`Move`): its parts are of different
moments. What is fetched is validated as the store validates it and replaces the
league in one transaction.

**RosterSync** is one provider step in detail, five calls for each club that
fail on their own; **QualityStarts** the batch algorithm; **PlayerIdentities** the
rows of `players` and the values that hang on them: each writer picks one row of a
person by an order of its own, each reader joins by another, and reconciliation
moves identities between rows in the meantime. **StatusView** is the reader of the
run rows and the dashboard, statement by statement, beside their writer.

### Commands

**FantasyCommands** extends `SyncRun`: its synchronization may now have an owner,
the command that runs it and waits (`AutoSyncBegins`, `AutoSyncReturns`), and may
be refused because another one is active. `cmd[c]` is a command of one of three
kinds: a roster (`r`) reads teams, then players; a pool (`h`, `p`, and `rt`, which
reads players first) only players; a matchup (`m`, `mm`) looks for the league's
season before anything else and may save the team it was given. `refresh` is the
run row of an MLB command, in the same table and of the same mode as those of
synchronizations. Configuration is read and written as a whole file, hence
`ReadSettings` and `PersistTeam` are two actions with `SelectLeague` possibly
between them. `fate` and `shown` are history: how the freshness check ended, and
how old what is printed is.

**StoredMatchups.** `own[item][week]` are the rows of source `yahoo` (pairings,
rosters of a week, rosters of a day), `feed` those of source `yahoo_public` that
`m` without a period saves. A synchronization stores every week so far as version
`v1`; `m` and `r` store rosters as `v2` and accept only those. `cmd.at` and
`cmd.phase` follow `acquire` through reading, fetching, falling back and the
overlay. Weeks end (`ends`), the stored current week follows at the next
synchronization, another league may be selected (`past`, commands then run with
`-S`), and the season's last snapshot archives the league. Time stands still
within a command. The two rosters of a pairing are one; only the saved team is
followed; a team has a pairing in every week.

**MatchupPrefetch.** The command, the schedule goroutine and the odds goroutine.
`step[t]` is the statement of `store.immediate` that thread `t` is at; `txn` is
who began the transaction the connection is in; `dirty` its rows. `database/sql`
gives the connection to one statement at a time, so one statement is one action.
A `BEGIN` within a transaction is refused by SQLite and `immediate` returns that
error without a rollback. `Close` first closes the connection, then clears the
field; a statement after that is `Panic`.

**MLBCommands.** A command is a fixed list of items, each loaded through
`cached`: read the snapshot, serve it within its window, otherwise fetch and save,
after a failure mark the row and serve the old payload. Then `t` and `tt` write
what they loaded into tables a synchronization also writes. A payload is the
time it was fetched.

**GameSigns, SlateOdds** are the pure parts of the same commands as operators
over a small world (a doubleheader today, one tomorrow) whose state moves:
games start and are postponed, lineups are announced, providers quote one game
and not the other.

### Below the commands

**DiskCache.** `entry` is the file under the entry's name, `survivors` what the
name may denote after the power fails: a file that was not synced may be torn, a
rename that was not synced may be undone. **Transport** follows one request over
its redirects; a URL is the scheme, origin and flags the code asks about.

## What the runs check

Every run finishes on the complete state space of its instance. The bounds are
constants of the modules, named in their headers.

| run | instance | states | shows |
|---|---|---|---|
| `guard` | a command with a sync, a sync by hand, status, two resets | 1.2 M | deletion and use exclude each other; no deletion order, failure or crash tears the database; reset's report is its effect; a running sync holds its lock and its command waits; the whole implements `LocalDatabase` |
| `liveness` | one reset beside the other processes; in other behaviours a matchup of three parts; in others two synchronizations of one league, two steps | 205 k | the lock is always returned, a confirmed reset, a matchup command and a synchronization end; a save is stored exactly if it returned nil, awaited odds are not closed upon |
| `sync_run` | one league, one reconciling and one historical step, 3 runs, circuit at 2 failures, 2 ticks | 7.0 M | freshness and manifest claim no more than is stored; a complete run has something up to date; the circuit opens only on failures since the last recorded success |
| `league_acquisition` | 3 teams on 2 workers, 6 players, 2 pages of 1, 2 transactions | 2.0 M | the pool implements `ParallelFetch`; nothing is stored that was not true at some moment; an undisturbed league is stored as it is; the acquisition ends |
| `commands` | one command, a sync by hand, `st -l`, an MLB refresh | 715 k | run rows stay with their owner, a command serves stored data, a command ends |
| `mlb_commands` | two commands, one club, 2 ticks | 2.9 M (symmetry) | what `cached` returns without its stale flag is within its window; run records are true; snapshots survive failures |
| `services` | eleven parts, see below | 2.2 M | see below |
| `sync_midnight`, `commands_stale`, `prefetch_healthy`, `mlb_roster`, `archived_week` | | | violations, see Findings |

`Services` puts the parts that share no state into one specification, which the
run instantiates: `part` is chosen at the start and only that part moves, so the
states add up instead of multiplying, and every invariant is the one the part
states, for behaviours of that part.

| part of `services` | instance | properties |
|---|---|---|
| leagues | `SyncRun` with two leagues, one with a numeric alias and an ending season, no steps | `ArchiveIsFrozen` |
| stored matchups | 2 weeks, window 1, clock 1..4, 2 commands | `UnmarkedIsCurrentOrFinal` |
| migration | 2 openers, every older schema | `SchemaIsCurrent`, `ImplementsSchemaUpgrade` |
| cache | 2 readers, a pruner, clock 0..3 | `EntryIsWhole` |
| transport | 8 URLs on 5 origins, 3 redirects | `ChainIsContained` |
| identities | 2 persons of one name, one two-way player, rows of an older release | `PlayersShowTheirOwn`, `OneClaimPerRole`, `EnrichmentKept` |
| rosters | 2 clubs, 3 runs | `RosterStepIsHonest` |
| quality | 3 pitchers in batches of 2 | `AnswersAreCollected` |
| slate, signs | a doubleheader today, one tomorrow | `SlateIsTrue` |
| status | 2 synchronizations, circuit at 2 | `StatusIsTrue` |

Why the bounds suffice:

- Locks: two resets are needed for one to delete between the other's preflight
  and its second lock, one sync of each kind for the two ways to get the lock.
  A third of a kind adds no new pair of conflicting steps. The liveness run has
  one reset: what it must show is that no step waits.
- `FetchPool`: more items than workers, so that slots are refilled. What depends
  on the sizes is only `min(N, Limit)`.
- `LeagueAcquisition`: more free agents than pages hold in one of the initial
  leagues and fewer in another; two transactions give an add after a drop and
  two trades between the same clubs.
- `SyncRun`: a clock with two values distinguishes "before", "at the same time"
  and "after" for any commit, which is all freshness compares.
  `FailureLimit` 2 stands for 5: three runs hold a failure, a complete run whose
  success is recorded or lost, and another failure, so that a count on both sides
  of a success can be told from one since the last recorded success. Steps behave
  alike within their kind, so one of each is enough; the leagues of `services`
  drop the steps, since steps do not touch leagues.
- `FantasyCommands`: one command and one synchronization by hand already give
  every refused, concurrent and inner synchronization; a second command differs
  from the hand-run one only in who is told. `FantasyTTL = SyncTTL = 0` with a
  one-tick clock makes data either fresh or too old.
- `StoredMatchups`: a past and a current week; four times give a row before the
  end of a week, at it, within the window and outside; the first command stores
  what the second prefers.
- `MLBCommands`: two commands race for one row and one club; with two ticks a
  snapshot is young or old.
- `Migration`: a third opener meets the same two situations, version read before
  or after another's commit.
- `DiskCache`: served, expired but not pruned, pruned are three ages; two
  readers write the same entry.
- `QualityStarts`: a full batch and a shorter one. `RosterSync`: one club fails,
  one succeeds, and a third run sees both. `GameSigns`: a batter whom no name
  fits and one on the injured list, orders below and above the bound of
  resolved names.

Each property of a passing run has a mutant in `PROJECT.json`: an operator in
the module, marked `Fault`, that is the code with a plausible mistake in place
of the code's own (a lock granted beside sharers, a success recorded before the
rows, a history of the current week only, headers that follow a redirect). With
it the property fails, which shows that the instance is large enough for the
property to say something.

## Fairness

Safety properties assume none. For liveness:

- `DatabaseGuard`: a process that has begun goes on. `flock` is called with
  `LOCK_NB` and never waits, SQLite gives up after `busy_timeout`, requests have
  deadlines. Nobody has to start a command, answer reset's prompt, or survive.
- `MatchupPrefetch`: the command and both goroutines go on, each by itself.
- `LeagueAcquisition`: as long as a step of the acquisition is possible one is taken; a
  request ends because the transport has a deadline. Managers need not move.
- `SyncRun`, `FantasyCommands`: the synchronization under way and each command
  go on. A prompt during a synchronization is asked only on a terminal, and the
  user is taken to answer it.

All of it is weak fairness; no action needs to be enabled repeatedly to happen.
`services` and `mlb_commands` state none.

## Proofs

Every invariant, action property and refinement of a passing run is also a
theorem, for every value of the constants. Each proof module names the
assumptions it starts from; they are those of the module it is about, and TLC
evaluates them on the instances. What the runs state is seldom inductive; below is
what had to be added to make it so, since that is what the code relies on without
saying it.

`DatabaseGuardProofs`, for any number of commands, syncs, status commands and
resets, from `ProcsAssumption` (the sets are disjoint, a sync's parent is a
command or nobody): `TypeCorrect`, `Separation`, `NeverTorn`, `SyncOwnership`,
`Refinement`, `Truthfulness`. `Inv` adds: the lock a process holds follows from
where it stands (`ModeFollowsPC`), an exclusive holder is alone
(`ExclusiveAlone`), a connected process has its file and an open store its
write-ahead log (`OpenHasFiles`), and the deletion loop still has every existing
file on its list (`DeletingAll`), because the guard it holds has kept everybody
out since the list was made. The refinement maps the connected processes to the
users of `LocalDatabase`; every step is a join, a departure (of several, when a
process with a sync dies), a deletion, or a stutter. For reset's report
`ReportFollowsPC` adds that a reset has removed nothing before it deletes, and
that one that deletes has removed a file or still has one before it, and that
what it lists as removed is not what it has before it: `NobodyBeside` shows that
no user can have removed it instead.

`MatchupPrefetchProofs`, for a matchup of any positive number of parts:
`TypeCorrect`, `Atomicity` and `OddsBeforeClose` (the last two state what the
`liveness` run checks). The strengthening `Inv` says that a thread within a
transaction owns the one that the open connection is in (`OwnTransaction`), that
this transaction holds exactly the row its thread has written (`DirtyRow`), that
only the command's end closes the connection (`ClosedAtEnd`), and what is known
of the odds past the point where they are awaited (`OddsAwaited`).

`SyncRunProofs`, from `SyncAssumption`, for any leagues, aliases, steps, windows
and failure limits: `SyncTypeCorrect`, `FreshnessIsKept`, `ArchiveStaysFrozen`,
`ManifestIsHonest`, `RunOutcomesAreHonest`. `Core` says what the locals are at each
line (`JobOK`), that the run under way owns its row (`OwnRow`), that an item in
hand is not recorded as fresh before its data is in (`FreshnessInv`), and that
the season about to be frozen is stored and over (`ArchiveInv`). `OutcomeInv` adds that the
counted failures are runs since the last recorded success, and none of them
complete (`CircuitInv`), and that a run with a
success has an item that is complete, listed in the manifest or archived
(`WitnessInv`).

`FetchPoolProofs`, for any number of items and of workers: `PoolRefinement`. The
invariant `PoolInv` says that an item is in one place at most (`Apart`), that
until the first error each scheduled item is in some place (`Covered`), that a
failure is still on its way to the collector (`ErrorsComing`), and that the
collector's count is what is out (`CountOK`). A step maps to one step of
`ParallelFetch` or to a stutter.

`LeagueAcquisitionProofs`, for any league, page size and number of transactions:
`PoolWithinAcquisition`, `AcquisitionRefinement`, `StoredLeagueWasTrue`,
`QuietLeague`. The steps of the pool are those of `FetchPoolProofs`, which the module
extends; `RostersOK` and `PagesOK` say of each answer that it was so when it was
given, `StoreOK` that what is stored is what was acquired.

`FantasyCommandsProofs`, for any number of commands beside a synchronization:
`CommandsAreServed`, `FreshnessBesideCommands`, `ArchiveBesideCommands`.
Most steps are steps of `SyncRun`, so `Core` carries over from `SyncRunProofs`;
`RowsOK` adds that no refused run's row is the one under way, `CommandsOK` that
a command waits exactly for the synchronization it owns and that a team is only
picked in a league that is stored.

`MLBCommandsProofs`, for any clubs, dates, windows and number of commands:
`UnflaggedStaysYoung`, `RecordsStayTrue`, `SnapshotsAreKept`. `MLBInv` says what a
command holds at each line (`CommandOK`), that what it holds without a flag is
young measured from its own start (`Young`), that a run's record is complete when
its command is through and not before (`RecordOK`), and that a snapshot is of the
time it was saved at (`SnapshotOK`).

`ServicesProofs` proves each part of `Services` alone and composes the results:
a step of the composition is a step of one part and stutters for the others
(`PartsMove`), so a behaviour of it is a behaviour of every part (`PartsBehave`).

| part | theorems | what makes it inductive |
|---|---|---|
| cache | `CachedEntriesAreWhole` | a file gets its name only when written and synced (`StagedFile`) |
| rosters | `RosterRowsAreHonest` | from the attempt to the success the row says "running" (`RunningRow`); what a run has done is fresh (`DoneAreFresh`) |
| transport | `ChainsAreContained` | the visited URLs are counted by the redirects, which stay within the limit (`Chain`); while the headers are whole none has left home (`WholeHeaders`) |
| status | `StatusShowsTheTruth` | what a row tells of was stored before it (`InOrder`), and what is stored only grows, so what was read first is a lower bound (`ReadSoFar`) |
| stored matchups | `UnmarkedMatchupsAreTrue` | a week before the stored one is over and was stored after it (`WeeksBefore`); a final row stays final (`OverIsFinal`); what a command has loaded is young, final or marked (`CommandInv`) |
| migration | `VersionsNameSchemas`, `MigrationRefinement` | a database is one of a supported version or not skout's (`DatabaseInv`); a transaction works on what it read or on the current schema (`Learnt`, `Worked`) |
| identities | `OneRowPerIdentity`, `ShownAsStored`, `EnrichmentsAreKept` | a table holds one record per person, on a row of that person (`Owned`); what was written is on a row of the person and role before which the person has only rows of Yahoo's (`Stored`, `FirstButYahoo`), and statistics go to the lowest row of the role (`LowestOfRole`); the first theorem is about single steps and needs only the types of the rows (`IdentInv`) |
| quality | `QualityStartsAreCollected` | asked ids are unique (`UniqueOK`), a batch is the next of them (`BatchOK`), the result is that of the batches before (`ResultOK`) |
| slate, signs | `SlatesAreTrue` | for the lines counting, in the state itself: the n-th game takes the line with n - 1 quoted before it (`OwnTurn`), and games of one day differ in n (`TurnsDiffer`); for the signs, a box shows what was announced for its game (`BoxOf`) |
| leagues | `ArchivesStayFrozen` | an instance of `SyncRunProofs` without provider steps |
| all | `ServicesTypeCorrect` | each part's type invariant; for the matchups, that no time lies ahead of the clock (`Dated`) |

Only model-checked:

- liveness: `SyncEnds`, `CommandEnds`, `AcquisitionEnds`, `CommandExits`,
  `ConfirmedResetEnds`, `GuardIsReturned`. Fairness and ENABLED are out of the
  prover's reach;
- the five violations, which are counterexamples.

No recursive operator is declared in any module, so none of them is barred from
proofs. What the code computes with a loop over pure data is described by its
result (who comes first, who is counted), which the proofs use in place of an
induction over the data.

## Findings

1. `prefetch_healthy` (`app/matchup.go:334`): odds that arrive while the matchup
   is being saved make the command fail. The goroutine's `BEGIN IMMEDIATE` has
   put the shared connection into a transaction, the command's own is refused,
   and its save is one whose error counts. The test at `matchup_test.go:288`
   expects such a command to succeed, and passes when the timing allows.
2. `commands_stale` (`app/sync.go:302`): old data without the staleness notice of
   `README.md:89`. The notice looks at the latest run row, which is "complete"
   when Yahoo failed but another provider did not.
3. `sync_midnight` (`app/sync.go:488`): the end date is compared with the clock
   after the snapshot was taken, so a run across midnight archives a snapshot
   from before the season ended.
4. `mlb_roster` (`app/mlb.go:174`): after a failed fetch `t` stores the snapshot
   it fell back to as if it had just been acquired, over a newer roster that a
   synchronization stored meanwhile.
5. `archived_week` (`app/sync.go:481`): a synchronization stores the rosters of
   every week as `v1`, `m` accepts only `v2`, and an archived season fetches
   nothing: `m -S 2026 -w 7` of `README.md:78` prints the local roster.

### Observations without a run

Behaviour the models contain that no document speaks about, or that is less than
a contradiction of one.

- Commands: a refused synchronization leaves a "running" row, so a failure before
  it is not told; a league selected while `m TEAM` runs is left with a team of the
  other league; `m` and `mm` for a league never synchronized fail before the
  freshness check that would synchronize it (`FindSeason`); the odds goroutine of
  a command that ended in an error may find the connection cleared and bring the
  process down (`Panic`).
- Stored matchups: since a sync stores `v1`, the next `m -w N` of a past week
  always fetches the rosters again. The roster of a day is preferred for ever,
  also on that day (`matchup.go:230`), and `UnmarkedIsCurrentOrFinal` leaves it
  out. Between the end of a week and the next synchronization `m` prints the
  local roster, because `matchFeed` wants the stored week; within the reuse
  window `overlayScoreboardRow` may put a newer week's pairing above the rosters
  of the last one, although its comment says the views agree. `mm` and `rt`
  suppress the stale mark under `-S`, also for a season that was left before its
  last snapshot; `r` falls back to old slots silently; `m` and `mm` never print
  the notice of a failed synchronization. `last_successful_at` of the history is
  when it was committed, not when it was fetched.
- MLB commands: `cached` flags stale data, but `t`, `tt` and `sp` drop the flag of
  the directory and `t` the one of the records (`mlb.go:109`, `129`, `211`, `285`),
  where `README.md:95` speaks of a stale warning; `UnflaggedIsYoung` is therefore
  about what `cached` returns, not about what is printed. A stale
  mark may land on a row another process has just saved; an empty roster
  answered once makes `t` fail for the window; `hadRows` is read outside the
  transaction that relies on it (`store/mlb.go:160`); `cached` ignores the
  snapshot's version; some dates are UTC, some local.
- Identities: a season's line goes to the lowest row of a person's role
  (`store/mlb.go:249`), which from the second synchronization on may be Yahoo's,
  while `MLBRoster` joins the seed row (`store/mlb.go:291`). `t` then prints zeros
  for a player with a stored line, orders him by them, and `tt` misses his quality
  starts. `RosterShowsStored` holds the other cases, and no roster shows a person
  the line of another (`ShownIsOwn`).
- Acquisition: a player dropped during an acquisition makes the snapshot invalid
  and is refused, one added between his roster and his page is lost, pages by
  offset lose a free agent (`yahoo_public.go:338`), a trade between two rosters
  stores the player twice.
- Providers and rosters: the rosters' step fails when the only club that was due
  fails; a stored count of quality starts survives a correct recount of zero; a
  closer who loses the RP position stays `is_closer`; a row of an older release
  whose identity was released may show another person's values.
- Status: a complete run whose success could not be recorded (`sync.go:316`) does
  not reset the count of failures, so the circuit may open on failures that are
  not in a row; skipped items count as success, so a provider's freshness moves
  although nothing was fetched; the result of `LatestSyncStatus` is rendered
  nowhere; errors of `FailSyncRun` are ignored.
- Odds and signs: when only one game of a doubleheader is quoted `composeSlate`
  shifts the lines (`app/mlb.go:655`), `m` takes the first quoted line
  (`matchup.go:728`), both as `mlb_test.go:167` accepts; when OddsShark
  gives a start time, tomorrow's quoted game takes its line by the time and the
  other takes the same line in its turn (`TakenTwice`); only the first game of a
  doubleheader has a sign; a lineup box lies over every game of its two clubs; `m`
  does not read the lineup page and `r` does; `t` calls a postponed game live; a
  batter whose name resolves to nobody counts as out of the lineup.
- Store: a second opener with an outdated version fails and succeeds on a retry;
  `arch.md:49` names schema version 6, lines 57 and 69 version 7. `Prune` of the
  cache has no caller outside tests; it may remove an entry renamed into place
  after it judged the old one, which costs a fetch, and a killed writer leaves its staging file.

## Not modelled, and why

- Reset is composed with commands through the locks and the files
  (`DatabaseGuard`) only: the contents the other modules describe are those of a
  database nobody deletes.
- Archived seasons under `-S` beyond `m`, `mm` and `rt`: rosters, pools and `st -l`
  only read rows that nothing writes any more.
- Player cards (`app/fantasy.go:308-562`), sorting and filtering of pools, the
  scoring and layout of views: values without a lifetime of their own.
- Provider steps other than the 40-man rosters are not told apart by what they
  fetch; Yahoo's, ESPN's and RotoWire's answers are modelled as far as their
  readers tell them apart, FanGraphs, FantasyPros and Savant are conversions.
- Configuration is one value, written whole; parsing and permissions are not
  modelled. The clock only advances; a clock set back makes data fresh for longer.
- Pure code (parsers, formulas, rendering, glossary), the update check and build
  tooling, listed part by part in `PROJECT.json`.

Two hazards have no property: configuration is changed without a lock
(`matchup.go:156`) and a view reads teams and players in separate statements
(`fantasy.go:171`). The models have both races; no document says what must win.

## Plan

No statement of a passing run is without a theorem except liveness. What is left:

1. Facts about the operators that a later change is most likely to need and that
   are now buried in a proof: `Reconcile` (what it keeps), `Plan` (which
   items a command loads), the schema of each migration step.
2. The abstract counterparts not yet stated: a run as one step that either
   succeeds or changes nothing but attempts (`SyncRun`), the cache as a map
   (`DiskCache`).
3. Shorter proofs where one leaf now stands for several ideas (`ServicesProofs`,
   identities and stored matchups).
