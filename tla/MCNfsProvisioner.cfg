SPECIFICATION FairSpec
CONSTANTS
  Workers = {w1, w2}
  Names = {n1, n2}
  NoName = NoName
  MaxFs = 1
  NodesMayBeUnknown = TRUE
  Faults = {"error", "undoError", "lostAnswer", "crash"}
  MaxFaults = 2
  MaxId = 2
INVARIANTS TypeOK ReadyComplete NoOrphan LimitOvershoot
PROPERTIES DeleteCompletes
