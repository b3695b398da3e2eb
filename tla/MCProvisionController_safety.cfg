SPECIFICATION Spec
CONSTANTS
  Controllers = {k1, k2}
  Claims = {c1}
  Retain = {}
  RetryCount = 1
  Threshold = 0
  Faults = {"apiError", "removeError", "apiLostAck", "arrayError", "arrayLostAck", "namesake",
            "crash"}
  MaxFaults = 1
  MaxId = 2
  Nobody = Nobody
SYMMETRY ControllerSymmetry
INVARIANTS TypeOK SavedVolumeBacked AssetTracked
PROPERTIES RemovalFollowsDestruction ImplementsLifecycle
