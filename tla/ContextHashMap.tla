--------------------------- MODULE ContextHashMap ---------------------------
(***************************************************************************)
(* A CDHashMap in a context, with its properties under names of their own, *)
(* so that they can be stated next to those of ContextContainers.          *)
(***************************************************************************)
EXTENDS ContextLevel

CONSTANTS
  Default,      \* Data()
  Addr,         \* addresses of elements
  Nil           \* nullptr

ASSUME HashMapAssumption ==
  /\ Default \in Data
  /\ Nil \notin Addr
  /\ MaxLevel \in Nat

VARIABLES
  table, first, heap, garbage, pc     \* the CDHashMap

H == INSTANCE CDHashMap

HashMapSpec == H!Spec

-----------------------------------------------------------------------------
(* Properties.                                                             *)

\* Ring, table and allocated elements agree at every point of a pop, and what
\* was in the map at a lower level is a beginning of the ring.
RingMatchesTable == H!RingMatchesTable

\* The elements that save themselves and a ring that is never saved implement
\* a map with full snapshots that remembers the order of insertion.
ImplementsMap == H!ImplementsMap
=============================================================================
