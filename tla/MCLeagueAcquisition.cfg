SPECIFICATION FairAcquisitionSpec
CONSTANTS
  N = 3
  Limit = 2
  NumPlayers = 6
  PageSize = 1
  MaxPages = 2
  MaxMoves = 2
  InitialOwners <- MCOwners
INVARIANTS
  AcquisitionInvariant
  StoredWasTrue
  QuietLeagueIsStored
PROPERTIES
  ImplementsParallelFetch
  AcquisitionEnds
