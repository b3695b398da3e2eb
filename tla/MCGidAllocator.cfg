SPECIFICATION Spec
CONSTANTS
  Volumes = {v1, v2}
  AbsMin = 1
  AbsMax = 3
  ParamSets <- MCParamSets
SYMMETRY Symmetry
INVARIANTS TypeOK FreeExact GidUnique NoGidLost
