SPECIFICATION Spec
CONSTANTS
  p1 = p1
  p2 = p2
  a = a
  Commands = {p1, p2}
  Clubs <- MCClubs
  FutureDates <- MCFutureDates
  TTL <- MCTTL
  MaxTime = 2
  None = None
INVARIANTS
  UnflaggedIsYoung
  RecordsAreTrue
PROPERTIES
  SnapshotsKept
SYMMETRY MCSymmetry
