SPECIFICATION Spec
CONSTANTS
  Processes = {p1, p2}
  Names = {home, work}
  Values = {v1, v2, astral}
  Surrogates = {astral}
  NoName = NoName
  NoValue = NoValue
  Garbled = Garbled
SYMMETRY StoreSymmetry
INVARIANTS
  NeverLocksOut
PROPERTIES
  KeepsEveryChange
CHECK_DEADLOCK FALSE
