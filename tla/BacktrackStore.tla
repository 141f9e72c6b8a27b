--------------------------- MODULE BacktrackStore ---------------------------
(***************************************************************************)
(* What a Context promises to the objects attached to it, as the class     *)
(* comment of Context puts it: "A call to push() saves the current state,  *)
(* and a call to pop() restores the state saved by the most recent call to *)
(* push()."  The state is the value of every context-dependent object; the *)
(* store keeps one full snapshot per level and knows nothing of versions,  *)
(* scopes, lists or memory regions.                                        *)
(***************************************************************************)
EXTENDS Naturals

CONSTANTS
  Obj,        \* names of context-dependent objects
  Data,       \* values such an object can hold
  Default,    \* T(): the value of a CDO<T> below the level that created it
  Absent,     \* no such object (not created, destroyed, or not in its map)
  MaxLevel    \* bound on the number of nested push() calls

VARIABLES
  level,      \* number of outstanding push() calls
  snap        \* snap[l][o]: the value of o that is in force at level l

vars == <<level, snap>>

\* The type of the abstract store.
TypeOK ==
  /\ level \in 0..MaxLevel
  /\ snap \in [0..level -> [Obj -> Data \cup {Absent}]]

Init ==
  /\ level = 0
  /\ snap = [l \in 0..0 |-> [o \in Obj |-> Absent]]

\* The object comes to life with value v; at the levels below it has value b.
Create(o, b, v) ==
  /\ \A l \in 0..level : snap[l][o] = Absent
  /\ snap' = [l \in 0..level |-> [snap[l] EXCEPT ![o] = IF l = level THEN v ELSE b]]
  /\ UNCHANGED level

Write(o, v) ==
  /\ snap[level][o] # Absent
  /\ snap' = [snap EXCEPT ![level] = [snap[level] EXCEPT ![o] = v]]
  /\ UNCHANGED level

Destroy(o) ==
  /\ snap[level][o] # Absent
  /\ snap' = [l \in 0..level |-> [snap[l] EXCEPT ![o] = Absent]]
  /\ UNCHANGED level

Push ==
  /\ level < MaxLevel
  /\ level' = level + 1
  /\ snap' = [l \in 0..level + 1 |-> IF l = level + 1 THEN snap[level] ELSE snap[l]]

Pop ==
  /\ level > 0
  /\ level' = level - 1
  /\ snap' = [l \in 0..level - 1 |-> snap[l]]

Next ==
  \/ \E o \in Obj, v \in Data :
       \/ Create(o, Default, v)
       \/ Create(o, Absent, v)
       \/ Write(o, v)
  \/ \E o \in Obj : Destroy(o)
  \/ Push
  \/ Pop

Spec == Init /\ [][Next]_vars
=============================================================================
