\* Five facts and three levels above the first: a queue emptied, refilled and emptied again at
\* one level while two lower levels still hold elements, list and index saved
\* at different levels; keys popped and inserted again with another value.
CONSTANTS
  MaxElem = 5
  MaxLevel = 3
  CallCleanup = TRUE
  Key = {k1, k2}
  Data = {d0, d1}
SPECIFICATION Spec
INVARIANTS
  SavedSizesFit
  CleanedOnceAndLast
PROPERTY
  ImplementsSnapshots
