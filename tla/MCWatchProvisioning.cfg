SPECIFICATION FairSpec
CONSTANTS
  MaxUpdates = 2
  MaxFailures = 2
  MaxNamesakes = 1
  WatchesFail = TRUE
CHECK_DEADLOCK FALSE
INVARIANTS TypeOK OverExplained
PROPERTIES ResultNoticed GoroutinesEnd
