------------------------- MODULE ContextContainers -------------------------
(***************************************************************************)
(* A CDQueue, a CDTrailQueue and a CDInsertHashMap in one context, used as *)
(* the theory engine uses them: a new fact is queued and its term is       *)
(* remembered, facts are taken off the queues, and the pops of the context *)
(* restore each structure from what it alone has saved.                    *)
(***************************************************************************)
EXTENDS ContextLevel

CONSTANTS
  MaxElem,      \* bound on the number of facts ever enqueued
  CallCleanup   \* the argument callCleanup of CDQueue's constructor

ASSUME BoundsAssumption ==
  /\ MaxElem \in Nat
  /\ MaxLevel \in Nat
  /\ CallCleanup \in BOOLEAN

VARIABLES
  next,                 \* the facts enqueued so far are 1..next
  queue, cleaned,       \* the CDQueue, and the calls of its d_cleanUp
  list, iter,           \* the CDTrailQueue
  map, keys, hashMap    \* the CDInsertHashMap

Q == INSTANCE CDQueue
T == INSTANCE CDTrailQueue
M == INSTANCE CDInsertHashMap

vars == <<level, next, queue, cleaned, list, iter, map, keys, hashMap>>

Init == Q!Init /\ T!Init /\ M!Init

\* A fact arrives, with a term that was not seen before as long as there is one.
Enqueue ==
  /\ Q!Enqueue
  /\ T!Enqueue
  /\ \/ \E k \in Key, d \in Data : M!Insert(k, d)
     \/ /\ \A k \in Key : M!Mapped(k)
        /\ UNCHANGED <<map, keys, hashMap>>

Dequeue ==
  /\ Q!Dequeue
  /\ T!Dequeue
  /\ UNCHANGED <<map, keys, hashMap>>

Push == Q!Push /\ T!Push /\ M!Push

Pop == Q!Pop /\ T!Pop /\ M!Pop

Next == Enqueue \/ Dequeue \/ Push \/ Pop

Spec == Init /\ [][Next]_vars

-----------------------------------------------------------------------------
(* Properties: what each structure promises, of the three in one context.  *)

\* No structure is left with an index or a size that leads beyond what it holds,
\* at any level: no truncation of the CDQueue goes below a size that a saved
\* version counts on (the warning of CDList::truncateList), the front of the
\* CDTrailQueue is within its list, and stack, map and size of the
\* CDInsertHashMap agree, so that restore() erases what was inserted since.
SavedSizesFit ==
  /\ Q!TypeOK /\ T!TypeOK /\ M!TypeOK
  /\ Q!SavedSizesFit
  /\ T!IterInList
  /\ M!SizesAgree

\* CDQueue: d_cleanUp is called once on an element, when no version can reach
\* it any more.
CleanedOnceAndLast == Q!CleanedOnceAndLast

\* Each of the three is the structure with full snapshots of its contents that
\* it stands for, though a CDQueue saves indices and destroys dequeued elements
\* early, the two parts of a CDTrailQueue are saved independently and a
\* CDInsertHashMap saves its size only.
ImplementsSnapshots == Q!ImplementsQueue /\ T!ImplementsQueue /\ M!ImplementsMap
=============================================================================
