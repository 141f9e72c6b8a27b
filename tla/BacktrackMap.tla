---------------------------- MODULE BacktrackMap ----------------------------
(***************************************************************************)
(* A map that remembers the order of insertion and whose contents are      *)
(* saved by push() and brought back by pop(): one full copy per level.     *)
(***************************************************************************)
EXTENDS Naturals, Sequences

CONSTANTS
  Key,        \* keys
  Data,       \* what they are mapped to
  MaxLevel    \* bound on the number of nested push() calls

VARIABLES
  level,      \* number of outstanding push() calls
  snap        \* snap[l]: the entries in force at level l, oldest first

vars == <<level, snap>>

Keys(entries) == {entries[i].key : i \in DOMAIN entries}

Init ==
  /\ level = 0
  /\ snap = [l \in 0..0 |-> << >>]

Insert(k, d) ==
  /\ k \notin Keys(snap[level])
  /\ snap' = [snap EXCEPT ![level] = Append(@, [key |-> k, data |-> d])]
  /\ UNCHANGED level

\* The entry keeps its place in the order.
Altered(entries, k, d) ==
  [i \in DOMAIN entries |->
     IF entries[i].key = k THEN [entries[i] EXCEPT !.data = d] ELSE entries[i]]

Assign(k, d) ==
  /\ k \in Keys(snap[level])
  /\ snap' = [snap EXCEPT ![level] = Altered(@, k, d)]
  /\ UNCHANGED level

\* Not undone by a pop.
Clear ==
  /\ snap' = [l \in 0..level |-> << >>]
  /\ UNCHANGED level

Push ==
  /\ level < MaxLevel
  /\ level' = level + 1
  /\ snap' = [l \in 0..level + 1 |-> IF l > level THEN snap[level] ELSE snap[l]]

Pop ==
  /\ level > 0
  /\ level' = level - 1
  /\ snap' = [l \in 0..level - 1 |-> snap[l]]

Next ==
  \/ \E k \in Key, d \in Data : Insert(k, d) \/ Assign(k, d)
  \/ Clear
  \/ Push
  \/ Pop

Spec == Init /\ [][Next]_vars
=============================================================================
