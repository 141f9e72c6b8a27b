\* Three objects on two lists and two levels: an object leaves, another joins
\* in the middle of a notification, and an address is used again.
SPECIFICATION FairSpec
CONSTANTS
  Obj = {o1, o2, o3}
  MaxLevel = 2
INVARIANTS
  ListsIntact
  NotifiedOnceInOrder
PROPERTY
  PopEnds
CHECK_DEADLOCK FALSE
