SPECIFICATION FairCommandsSpec
CONSTANTS
  l1 = l1
  Keys = {l1}
  Names = {l1}
  Canon <- MCCanon
  Owners = {c1}
  Nobody = Nobody
  None = None
  K = 0
  Reconciling = {}
  Historical = {}
  SyncTTL = 0
  FailureLimit = 2
  MaxTime = 1
  MaxRuns = 2
  FantasyTTL = 0
  Ending = {}
INVARIANT CommandsInvariant
PROPERTY CommandEnds
