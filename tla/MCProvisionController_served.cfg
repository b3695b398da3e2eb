SPECIFICATION FairSpec
CONSTANTS
  Controllers = {k1}
  Claims = {c1}
  Retain = {}
  RetryCount = 3
  Threshold = 1
  Faults = {"apiError", "arrayError", "noClass", "namesake", "crash"}
  MaxFaults = 3
  MaxId = 4
  Nobody = Nobody
PROPERTIES ClaimServed VolumeReclaimed
