CONSTANTS
  Theories = 2
  MaxLimit = 3
  MaxLevel = 2
  MaxUserLevel = 1
  MaxOutputs = 2
SPECIFICATION Spec
INVARIANTS
  SatIsChecked
  ReasonFits
  UnsatInForce
PROPERTY LimitEnds
