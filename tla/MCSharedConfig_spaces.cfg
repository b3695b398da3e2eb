SPECIFICATION Spec
CONSTANTS
  Gold = Gold
  Silver = Silver
  Pool = Pool
  FsType = FsType
  A = A
  B = B
  S1 = S1
  S2 = S2
  Workers = {w1, w2}
  Keys = {Pool}
  Values = {A, B}
  Spaces = {S1, S2}
  Classes = {Gold, Silver}
  Default <- MCPoolDefault
  Params <- MCPoolParams
  ClassSpaces <- MCClassSpaces
  Addresses = 2
  MaxServed = 4
  MaxMaps = 2
  MaxOutages = 1
INVARIANTS TypeOK SpacesLeft AddressesBalanced
