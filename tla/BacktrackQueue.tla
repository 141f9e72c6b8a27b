--------------------------- MODULE BacktrackQueue ---------------------------
(***************************************************************************)
(* A FIFO queue whose contents are saved by push() and brought back by     *)
(* pop(): one full copy of the queue per level.                            *)
(***************************************************************************)
EXTENDS Naturals, Sequences

CONSTANTS
  Elem,       \* what is queued
  MaxLevel    \* bound on the number of nested push() calls

VARIABLES
  level,      \* number of outstanding push() calls
  snap        \* snap[l]: the queue in force at level l

vars == <<level, snap>>

Init ==
  /\ level = 0
  /\ snap = [l \in 0..0 |-> << >>]

Enqueue(e) ==
  /\ snap' = [snap EXCEPT ![level] = Append(@, e)]
  /\ UNCHANGED level

Dequeue ==
  /\ snap[level] # << >>
  /\ snap' = [snap EXCEPT ![level] = Tail(@)]
  /\ UNCHANGED level

Push ==
  /\ level < MaxLevel
  /\ level' = level + 1
  /\ snap' = [l \in 0..level + 1 |-> IF l > level THEN snap[level] ELSE snap[l]]

Pop ==
  /\ level > 0
  /\ level' = level - 1
  /\ snap' = [l \in 0..level - 1 |-> snap[l]]

Next == (\E e \in Elem : Enqueue(e)) \/ Dequeue \/ Push \/ Pop

Spec == Init /\ [][Next]_vars
=============================================================================
