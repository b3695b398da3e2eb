SPECIFICATION Spec
CONSTANTS
  Controllers = {k1}
  Claims = {c1}
  Retain = {}
  RetryCount = 2
  Threshold = 0
  Faults = {"apiLostAck"}
  MaxFaults = 1
  MaxId = 1
  Nobody = Nobody
INVARIANTS SavedVolumeHasAsset
