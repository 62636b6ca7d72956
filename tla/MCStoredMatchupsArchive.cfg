\* Does an archived season show the matchups its final snapshot holds?
SPECIFICATION MatchupsSpec
CONSTANTS
  Weeks = 2
  Window = 1
  MaxClock = 4
  MaxCommands = 2
  None = None
INVARIANT ArchivedWeekIsShown
CHECK_DEADLOCK FALSE
