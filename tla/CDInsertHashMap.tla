-------------------------- MODULE CDInsertHashMap --------------------------
(***************************************************************************)
(* src/context/cdinsert_hashmap.h: a hash map and the stack of its keys,   *)
(* neither of which is saved.  A saved copy holds the size only; restore() *)
(* pops keys off the stack until that size is reached and erases them.     *)
(***************************************************************************)
EXTENDS ContextObj, SequencesExt

CONSTANTS
  Key, Data,    \* keys and values
  MaxLevel      \* bound on the level of the context

VARIABLES
  level,        \* level of the context
  map,          \* the CDInsertHashMap: d_size and the base class
  keys,         \* d_insertMap->d_keys
  hashMap       \* d_insertMap->d_hashMap, a function on the keys in it

vars == <<level, map, keys, hashMap>>

\* The type invariant: the size, the stack of keys and the hash map hold
\* values of their kinds, and no pop goes below level 0.
TypeOK ==
  /\ level \in 0..MaxLevel
  /\ map.size \in Nat
  /\ keys \in Seq(Key)
  /\ DOMAIN hashMap \subseteq Key
  /\ \A k \in DOMAIN hashMap : hashMap[k] \in Data

Init ==
  /\ level = 0
  /\ map = [scope |-> 0, saved |-> << >>, size |-> 0]
  /\ keys = << >>
  /\ hashMap = [k \in {} |-> 0]

\* CDInsertHashMap::contains
Mapped(k) == k \in DOMAIN hashMap

\* A variant that pushes the key to the front of the stack (push_front).
PushFront(k) == <<k>> \o keys

\* The stack after InsertHashMap::push_back.
PushBack(k) == Append(keys, k)

\* CDInsertHashMap::insert, on a key that is not mapped, and insert_safe, which
\* does nothing on a key that is.
Insert(k, d) ==
  /\ ~Mapped(k)
  /\ map' = [MakeCurrent(map, level, [scope |-> map.scope, size |-> map.size])
               EXCEPT !.size = @ + 1]
  /\ keys' = PushBack(k)
  /\ hashMap' = [j \in DOMAIN hashMap \cup {k} |->
                   IF j = k THEN d ELSE hashMap[j]]
  /\ UNCHANGED level

Push ==
  /\ level < MaxLevel
  /\ level' = level + 1
  /\ UNCHANGED <<map, keys, hashMap>>

\* InsertHashMap::pop_to_size: pop_back() until s keys are left.
PopToSize(s) ==
  /\ keys' = SubSeq(keys, 1, s)
  /\ hashMap' = [k \in DOMAIN hashMap \ ToSet(SubSeq(keys, s + 1, Len(keys)))
                   |-> hashMap[k]]

\* CDInsertHashMap::restore
Restore ==
  /\ PopToSize(LastCopy(map).size)
  /\ map' = Continue([map EXCEPT !.size = LastCopy(map).size])

\* Context::pop
Pop ==
  /\ level > 0
  /\ level' = level - 1
  /\ IF InScope(map, level) THEN Restore ELSE UNCHANGED <<map, keys, hashMap>>

Next ==
  \/ \E k \in Key, d \in Data : Insert(k, d)
  \/ Push
  \/ Pop

Spec == Init /\ [][Next]_vars

-----------------------------------------------------------------------------
(* Properties.                                                             *)

\* The assertions d_insertMap->size() == d_size, and that the stack lists every
\* mapped key once: pop_to_size() erases by key, and a key that was missing or
\* twice on the stack would leave an entry behind or take one too many away.
SizesAgree ==
  /\ Len(keys) = map.size
  /\ IsInjective(keys)
  /\ ToSet(keys) = DOMAIN hashMap

Map == INSTANCE BacktrackMap WITH
         snap <- [l \in 0..level |->
                    [i \in 1..VersionAt(map, l).size |->
                       [key |-> keys[i], data |-> hashMap[keys[i]]]]]

\* Popping a stack of keys to the saved size restores the whole map.
ImplementsMap == Map!Spec
=============================================================================
