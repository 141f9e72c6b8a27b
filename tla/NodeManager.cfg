\* Counts saturate at 3, with three Nodes per term, parents and attributes.
CONSTANTS
  Key <- MCKey
  Children <- MCChildren
  Pooled = {"fx", "gfx"}
  None = None
  MaxRC = 3
  Threshold = 1
  MaxHandles = 3
SPECIFICATION Spec
INVARIANTS
  CountsExact
  NoUseAfterFree
  NothingLost
PROPERTIES
  CallsReturn
  DestructorEnds
CHECK_DEADLOCK FALSE
