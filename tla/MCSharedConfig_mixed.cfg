SPECIFICATION Spec
CONSTANTS
  Gold = Gold
  Silver = Silver
  Pool = Pool
  FsType = FsType
  A = A
  B = B
  S1 = S1
  S2 = S2
  Workers = {w1, w2}
  Keys = {Pool, FsType}
  Values = {A, B}
  Spaces = {S1, S2}
  Classes = {Gold, Silver}
  Default <- MCDefault
  Params <- MCParams
  ClassSpaces <- MCClassSpaces
  Addresses = 2
  MaxServed = 1
  MaxMaps = 1
  MaxOutages = 2
INVARIANTS OwnParametersUsed
