SPECIFICATION FairSpec
CONSTANTS
  Controllers = {k1}
  Claims = {c1}
  Retain = {}
  RetryCount = 1
  Threshold = 0
  Faults = {"removeError"}
  MaxFaults = 1
  MaxId = 1
  Nobody = Nobody
PROPERTIES VolumeReclaimed
