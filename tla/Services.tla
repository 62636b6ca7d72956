------------------------------- MODULE Services -------------------------------
(***************************************************************************)
(* The parts that share nothing with one another: a behaviour is one of    *)
(* one part, chosen at its start, while the others stay as they began.     *)
(* The request is Transport's own; every other part is an instance.        *)
(***************************************************************************)
EXTENDS Transport

CONSTANTS
  None, Nobody,                                                         \* no row, nobody
  Keys, Names, Canon, Owners, SyncTTL, FailureLimit, Ending, MaxTime, MaxStarts,   \* SyncRun
  Weeks, Window, LastClock, MaxCommands,                                \* StoredMatchups
  Openers, Values, Blank,                                               \* Migration
  Readers, Pruners, EntryTTL, PruneAge, MaxClock,                       \* DiskCache
  Persons, Entities, PersonName, EntityName, EntityRole, Plays, Followed, Legacy,  \* PlayerIdentities
  Clubs, MaxRuns,                                                       \* RosterSync
  Starters, Invalid, BatchSize, MaxAsked,                               \* QualityStarts
  Today, Tomorrow,                                                      \* SlateOdds
  GamesToday, Batters, Pitchers, Unknown, Injured, Orders, MinResolved, \* GameSigns
  MaxSyncs, CircuitLimit                                                \* StatusView

VARIABLES
  part,                                                      \* the part that moves
  now, lapsed, finished, config, itemStatus, success, data, final, frozen, manifest,
  recorded, dashboard, position, job,                                            \* SyncRun
  clock, ends, past, archived, sync, current, own, feed, cmd, commands,          \* StoredMatchups
  run, force, stage, todo, club, counted, rosters, row, stale, verdict,          \* RosterSync
  db, work, opener,                                          \* Migration
  time, entry, survivors, client, pruner,                    \* DiskCache
  players, watched, records, reconciling, written, moved,    \* PlayerIdentities
  asked, unique, start, pending, worker, slot, answer, counts, issues, status,   \* QualityStarts
  espn, shark, lines, future, timed,                         \* SlateOdds
  state, starter, order, listed, box,                        \* GameSigns
  file, rows, people, items, board, process, statusStep, result, reader, view, inARow, since   \* StatusView

----------------------------------------------------------------------------
(* Instances *)

\* Leagues alone: without provider steps after Yahoo.
Leagues == INSTANCE SyncRun WITH
  K <- 0, Reconciling <- {}, Historical <- {}, MaxRuns <- MaxStarts,
  status <- itemStatus, archived <- frozen, runs <- recorded, board <- dashboard, at <- position

Matchups == INSTANCE StoredMatchups WITH MaxClock <- LastClock

Mig == INSTANCE Migration

Cache == INSTANCE DiskCache WITH reader <- client

Ident == INSTANCE PlayerIdentities

Quality == INSTANCE QualityStarts WITH Pitchers <- Starters

Slate == INSTANCE SlateOdds

Signs == INSTANCE GameSigns

Status == INSTANCE StatusView WITH
  MaxRuns <- MaxSyncs, run <- process, step <- statusStep, outcome <- result

Roster == INSTANCE RosterSync WITH stored <- rosters, outcome <- verdict

ASSUME ServicesAssumption ==
  /\ Leagues!SyncAssumption /\ Matchups!StoredMatchupsAssumption
  /\ Mig!MigrationAssumption /\ Cache!CacheAssumption /\ Ident!IdentitiesAssumption
  /\ Quality!QualityAssumption /\ Slate!SlateAssumption /\ Signs!SignsAssumption
  /\ Status!StatusAssumption /\ Roster!RosterAssumption

----------------------------------------------------------------------------
(* The composition *)

leagueVars ==
  <<now, lapsed, finished, config, itemStatus, success, data, final, frozen, manifest,
    recorded, dashboard, position, job>>
storedVars == <<clock, ends, past, archived, sync, current, own, feed, cmd, commands>>
migVars == <<db, work, opener>>
cacheVars == <<time, entry, survivors, client, pruner>>
identVars == <<players, watched, records, reconciling, written, moved>>
qualityVars == <<asked, unique, start, pending, worker, slot, answer, counts, issues, status>>
slateVars == <<espn, shark, lines, future, timed>>
signsVars == <<state, starter, order, listed, box>>
rosterVars == <<run, force, stage, todo, club, counted, rosters, row, stale, verdict>>
statusVars == <<file, rows, people, items, board, process, statusStep, result, reader, view, inARow, since>>

PartNames ==
  {"leagues", "stored matchups", "migration", "cache", "transport", "identities",
   "rosters", "quality", "slate", "signs", "status"}

\* What a part that does not move looks like, where it may begin in several ways.
ServicesInit ==
  /\ part \in PartNames
  /\ Leagues!Init
  /\ Matchups!MatchupsInit
  /\ Mig!MigrationInit /\ (part # "migration" => db = Mig!Empty)
  /\ Cache!CacheInit
  /\ TransportInit
  /\ part # "transport" =>
       request.method = "GET" /\ ~request.sensitive /\ request.url = CHOOSE u \in URLs : TRUE
  /\ Ident!IdentitiesInit /\ (part # "identities" => players = <<>> /\ watched = CHOOSE t \in Followed : TRUE)
  /\ Roster!RosterInit /\ (part # "rosters" => club = CHOOSE c \in Clubs : TRUE)
  /\ Quality!QualityInit /\ (part # "quality" => asked = <<>>)
  /\ Slate!SlateInit /\ (part # "slate" => espn = {} /\ shark = {})
  /\ Signs!SignsInit
  /\ Status!StatusInit /\ (part # "status" => file = "none")

\* Everything but the variables of the part that moves.
Others(moving) ==
  /\ (moving # "leagues" => UNCHANGED leagueVars)
  /\ (moving # "stored matchups" => UNCHANGED storedVars)
  /\ (moving # "migration" => UNCHANGED migVars)
  /\ (moving # "cache" => UNCHANGED cacheVars)
  /\ (moving # "transport" => UNCHANGED request)
  /\ (moving # "identities" => UNCHANGED identVars)
  /\ (moving # "rosters" => UNCHANGED rosterVars)
  /\ (moving # "quality" => UNCHANGED qualityVars)
  /\ (moving # "slate" => UNCHANGED slateVars)
  /\ (moving # "signs" => UNCHANGED signsVars)
  /\ (moving # "status" => UNCHANGED statusVars)

ServicesNext ==
  /\ UNCHANGED part /\ Others(part)
  /\ \/ part = "leagues" /\ Leagues!Next
     \/ part = "stored matchups" /\ Matchups!MatchupsNext
     \/ part = "migration" /\ Mig!MigrationNext
     \/ part = "cache" /\ Cache!CacheNext
     \/ part = "transport" /\ TransportNext
     \/ part = "identities" /\ Ident!IdentitiesNext
     \/ part = "rosters" /\ Roster!RosterNext
     \/ part = "quality" /\ Quality!QualityNext
     \/ part = "slate" /\ Slate!SlateNext
     \/ part = "signs" /\ Signs!SignsNext
     \/ part = "status" /\ Status!StatusNext

services ==
  <<part, leagueVars, storedVars, migVars, cacheVars, request, identVars, rosterVars, qualityVars,
    slateVars, signsVars, statusVars>>

ServicesSpec == ServicesInit /\ [][ServicesNext]_services

----------------------------------------------------------------------------
(* Properties, each as its part states it *)

\* The type of every variable of every part.
ServicesTypeOK ==
  CASE part = "leagues" -> Leagues!TypeOK
    [] part = "stored matchups" -> Matchups!MatchupsTypeOK
    [] part = "migration" -> Mig!MigrationTypeOK
    [] part = "cache" -> Cache!CacheTypeOK
    [] part = "transport" -> TransportTypeOK
    [] part = "identities" -> Ident!IdentitiesTypeOK
    [] part = "rosters" -> Roster!RosterTypeOK
    [] part = "quality" -> Quality!QualityTypeOK
    [] part = "slate" -> Slate!SlateTypeOK
    [] part = "signs" -> Signs!SignsTypeOK
    [] part = "status" -> Status!StatusTypeOK

\* The version an existing database names is that of its schema, and a process whose open
\* returned works on the current one (store.go preflightMigrationSource, runMigration).
SchemaIsCurrent == part = "migration" => Mig!SchemaIsCurrent

\* Several processes that open an old database, die and retry upgrade it in one step.
ImplementsSchemaUpgrade == Mig!ImplementsSchemaUpgrade

\* A reader of the provider cache gets an entry whole or not at all, after a power loss too.
EntryIsWhole == part = "cache" => Cache!EntryIsWhole

\* Pools show what was stored for each Yahoo player and role, rosters where they read the
\* row that is written, and neither shows one person's line for another.
PlayersShowTheirOwn == part = "identities" => Ident!PlayersShowTheirOwn

\* Reconciling never gives one person and role to two Yahoo identities.
OneClaimPerRole == Ident!OneClaimPerRole

\* What an enrichment step stores is shown, and what it cannot replace is kept.
EnrichmentKept == Ident!EnrichmentKept

\* A fresh row has its roster, and the step's outcome says what became of the clubs.
RosterStepIsHonest == part = "rosters" => Roster!RosterStepIsHonest

\* The batches collect every pitcher's answer once, and name every pitcher that failed.
AnswersAreCollected == part = "quality" => Quality!AnswersAreCollected

\* Two games of a day share a quoted line only where LinesAreToldApart says so, and a day
\* quoted in full has none that do; a sign in one of the commands was announced, and the
\* commands do not contradict each other.
SlateIsTrue ==
  /\ part = "slate" => Slate!LinesAreToldApart
  /\ part = "signs" => Signs!MarksWereAnnounced /\ Signs!CommandsAgree

\* A matchup, a league's matchups or weekly totals printed without a mark are current or final.
UnmarkedIsCurrentOrFinal == part = "stored matchups" => Matchups!UnmarkedIsCurrentOrFinal

\* What st shows beside a run was committed with it or later, the last run has ended, and
\* the circuit is open for the failures on record.
StatusIsTrue == part = "status" => Status!StatusIsTrue

\* A frozen season is a stored one that is over, and stays as it was stored, whichever league
\* is selected and by whichever name.
ArchiveIsFrozen == Leagues!ArchiveIsFrozen
==============================================================================
