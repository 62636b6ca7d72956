\* The parts that share nothing; every one of them really stops.
SPECIFICATION ServicesSpec
CONSTANTS
  None = None
  Nobody = Nobody
\* SyncRun
  Keys = {"l1", "l2"}
  Names = {"l1", "l2", "i1"}
  Canon <- MCCanon
  Owners = {"c1"}
  SyncTTL = 0
  FailureLimit = 2
  Ending = {"l1"}
  MaxTime = 1
  MaxStarts = 2
\* StoredMatchups: two weeks, four times and two commands, one in a week, one after it
  Weeks = 2
  Window = 1
  LastClock = 4
  MaxCommands = 2
\* Migration
  Openers = {"o1", "o2"}
  Values = {"v0", "v1"}
  Blank = "v0"
\* DiskCache
  Readers = {"r1", "r2"}
  Pruners = {"q1"}
  EntryTTL = 1
  PruneAge = 2
  MaxClock = 3
\* Transport
  URLs <- MCURLs
  RedirectLimit = 3
  BodyLimit = 2
  MaxBody = 4
\* PlayerIdentities
  Persons = {"m1", "m2"}
  Entities = {"y1", "y2"}
  PersonName <- MCPersonName
  EntityName <- MCEntityName
  EntityRole <- MCEntityRole
  Plays <- MCPlays
  Followed = {"pitching", "hitting", "projections", "statcast_batting"}
  Legacy <- MCLegacy
\* RosterSync
  Clubs = {"c1", "c2"}
  MaxRuns = 3
\* QualityStarts: a batch of two for three pitchers, so that one is left for a second batch
  Starters = {"q1", "q2", "q3"}
  Invalid = "q0"
  BatchSize = 2
  MaxAsked = 3
\* SlateOdds: a doubleheader today and another tomorrow
  Today = 2
  Tomorrow = 2
\* GameSigns: a doubleheader
  GamesToday = 2
  Batters = {"b1", "b2", "b3", "b4"}
  Pitchers = {"p1", "p2"}
  Unknown = {"b3"}
  Injured = {"b4"}
  Orders <- MCOrders
  MinResolved = 2
\* StatusView
  MaxSyncs = 2
  CircuitLimit = 2
INVARIANTS
  ServicesTypeOK
  SchemaIsCurrent
  EntryIsWhole
  ChainIsContained
  PlayersShowTheirOwn
  RosterStepIsHonest
  AnswersAreCollected
  SlateIsTrue
  UnmarkedIsCurrentOrFinal
  StatusIsTrue
PROPERTIES
  ImplementsSchemaUpgrade
  OneClaimPerRole
  EnrichmentKept
  ArchiveIsFrozen
CHECK_DEADLOCK FALSE
