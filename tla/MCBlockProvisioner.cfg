SPECIFICATION Spec
CONSTANTS
  Setups <- MCSetups
  Workers = {w1, w2}
  Names = {p1, p2}
  NoName = NoName
  Hosts = {h1, h2}
  InitialNodes = {h1, h2}
  MaxLun = 1
  MaxVolume = 2
  Faults = {"error", "undoError", "lostAnswer", "countError", "skippedHost",
            "noAddress", "crash"}
  MaxFaults = 1
  MaxChanges = 1
  MaxId = 2
INVARIANTS TypeOK SameLun ReadyComplete NoOrphan LimitOvershoot
SYMMETRY Symmetry
