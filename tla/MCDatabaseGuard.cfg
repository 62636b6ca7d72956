SPECIFICATION Spec
CONSTANTS
  c1 = c1
  s0 = s0
  s1 = s1
  i1 = i1
  r1 = r1
  r2 = r2
  Commands = {c1}
  Syncs = {s0, s1}
  Inspectors = {i1}
  Resets = {r1, r2}
  Nobody = Nobody
  Parent <- MCParent
INVARIANTS
  TypeOK
  NoRemovalUnderOpenStore
  NoTornDatabase
  ReportMatchesEffect
  SyncOwnsItsRun
PROPERTY ImplementsLocalDatabase
SYMMETRY Symmetry
