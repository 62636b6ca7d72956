\* Does a command for which nothing failed always print a view?
SPECIFICATION Spec
CONSTANT Parts = 3
INVARIANT HealthyMatchupRenders
