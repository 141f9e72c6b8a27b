\* Two atoms and the activation literals of two user levels; decisions beyond
\* the assumptions; a clause that is asserted or learned.
CONSTANTS
  MaxVar = 4
  MaxUserLevel = 2
  MaxDecisions = 3
  MaxClauses = 1
  MaxPending = 1
  Literal <- MCLiteral
SPECIFICATION Spec
INVARIANTS
  AssertsHold
  TheoryInSync
  PropagationsJustified
  PartialModelStands
  ClausesInForce
CHECK_DEADLOCK FALSE
