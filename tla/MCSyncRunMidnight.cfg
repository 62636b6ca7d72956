SPECIFICATION Spec
CONSTANTS
  l1 = l1
  Keys = {l1}
  Names = {l1}
  Canon <- MCCanon
  Owners = {c1}
  Nobody = Nobody
  None = None
  K = 0
  Reconciling = {}
  Historical = {}
  SyncTTL = 0
  FailureLimit = 2
  MaxTime = 0
  Ending = {l1}
  MaxRuns = 1
INVARIANT ArchiveIsFinal
