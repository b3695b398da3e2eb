SPECIFICATION FairSpec
CONSTANTS
  Controllers = {k1}
  Nodes = {n1, n2, n3}
  Volumes = {v1, v2, v3}
  InitialNodes = {n1, n2}
  InitialVolumes = {v1, v2}
  MaxChanges = 4
  MaxFaults = 1
  MaxTombstones = 1
INVARIANTS TypeOK AlwaysMountable
PROPERTIES ExportsConverge
