SPECIFICATION Spec
CONSTANTS
  l1 = l1
  Keys = {l1}
  Names = {l1}
  Canon <- MCCanon
  Owners = {c1}
  Nobody = Nobody
  None = None
  K = 2
  Reconciling = {1}
  Historical = {2}
  SyncTTL = 0
  FailureLimit = 2
  MaxTime = 1
  Ending = {}
  MaxRuns = 3
INVARIANTS
  TypeOK
  ManifestHonest
  RunOutcomeIsHonest
PROPERTIES
  FreshnessKept
