CONSTANTS
  Theories = 1
  MaxLimit = 3
  MaxLevel = 1
  MaxUserLevel = 1
  MaxOutputs = 1
SPECIFICATION Spec
INVARIANT SatIsConsistent
