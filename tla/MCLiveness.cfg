\* A matchup command really stops, and so do synchronizations.
SPECIFICATION LiveSpec
CONSTANTS
  Parts = 3
  Nobody = Nobody
  None = None
  l1 = l1
INVARIANTS
  SaveIsAtomic
  CloseAfterOdds
PROPERTIES
  CommandExits
  ConfirmedResetEnds
  GuardIsReturned
  SyncEnds
CHECK_DEADLOCK FALSE
