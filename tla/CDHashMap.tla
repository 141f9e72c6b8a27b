----------------------------- MODULE CDHashMap -----------------------------
(***************************************************************************)
(* src/context/cdhashmap.h: a hash table of elements, each a ContextObj of *)
(* its own, linked in a ring in the order of insertion.  The table and the *)
(* ring are not saved; an element takes itself out of both when restore()  *)
(* brings back the version in which its d_map was still null.  A pop is    *)
(* taken one element at a time, in any order: the order in which ~Scope()  *)
(* visits them depends on the history of all objects of the context.       *)
(***************************************************************************)
EXTENDS ContextObj, SequencesExt

CONSTANTS
  Key, Data,    \* keys and values
  Default,      \* Data()
  Addr,         \* addresses of elements
  Nil,          \* nullptr
  MaxLevel      \* bound on the level of the context

VARIABLES
  level,        \* level of the context
  table,        \* d_map: the element of each key, or Nil
  first,        \* d_first
  heap,         \* the allocated elements
  garbage,      \* d_garbage of the scope being deleted
  pc            \* "run", or "restore" while ~Scope() walks its list

vars == <<level, table, first, heap, garbage, pc>>

Version == [scope : 0..MaxLevel, data : Data, mapped : BOOLEAN]

\* The type invariant: table, ring pointers and the saved versions of every
\* element hold values of their kinds, and no pop goes below level 0.
TypeOK ==
  /\ level \in 0..MaxLevel
  /\ table \in [Key -> Addr \cup {Nil}]
  /\ first \in Addr \cup {Nil}
  /\ DOMAIN heap \subseteq Addr
  /\ \A a \in DOMAIN heap :
       /\ heap[a].key \in Key
       /\ heap[a].prev \in Addr /\ heap[a].next \in Addr
       /\ [f \in {"scope", "data", "mapped"} |-> heap[a][f]] \in Version
       /\ heap[a].saved \in Seq(Version)
  /\ garbage \subseteq DOMAIN heap
  /\ pc \in {"run", "restore"}

Init ==
  /\ level = 0
  /\ table = [k \in Key |-> Nil]
  /\ first = Nil
  /\ heap = [a \in {} |-> Nil]
  /\ garbage = {}
  /\ pc = "run"

\* The copy constructor of CDOhash_map.
Copy(x) == [scope |-> x.scope, data |-> x.data, mapped |-> x.mapped]

\* CDOhash_map::set
Set(x, d) == [MakeCurrent(x, level, Copy(x)) EXCEPT !.data = d]

\* The constructor of CDOhash_map up to the linking: d_map is set last, so that
\* the oldest version has a null d_map (unless it is created at level 0).
Construct(a, k, d) ==
  [Set([scope |-> 0, saved |-> << >>, key |-> k, data |-> d, mapped |-> FALSE,
        prev |-> a, next |-> a], d) EXCEPT !.mapped = TRUE]

\* A variant that puts the element after the first one.
LinkSecond(h, a) ==
  IF first = Nil THEN h
  ELSE LET second == h[first].next IN
       [b \in DOMAIN h |->
          [h[b] EXCEPT !.prev = IF b = a THEN first ELSE IF b = second THEN a ELSE @,
                       !.next = IF b = a THEN second ELSE IF b = first THEN a ELSE @]]

\* The rest of the constructor: a becomes the last element of the ring.
Link(h, a) ==
  IF first = Nil THEN h
  ELSE LET last == h[first].prev IN
       [b \in DOMAIN h |->
          [h[b] EXCEPT !.prev = IF b = a THEN last ELSE IF b = first THEN a ELSE @,
                       !.next = IF b = a THEN first ELSE IF b = last THEN a ELSE @]]

NewElement(k, d) ==
  \E a \in Addr \ DOMAIN heap :
    /\ table' = [table EXCEPT ![k] = a]
    /\ heap' = Link([b \in DOMAIN heap \cup {a} |->
                       IF b = a THEN Construct(a, k, d) ELSE heap[b]], a)
    /\ first' = IF first = Nil THEN a ELSE first

\* CDHashMap::insert
Insert(k, d) ==
  /\ pc = "run"
  /\ \/ table[k] = Nil /\ NewElement(k, d)
     \/ /\ table[k] # Nil
        /\ heap' = [heap EXCEPT ![table[k]] = Set(@, d)]
        /\ UNCHANGED <<table, first>>
  /\ UNCHANGED <<level, garbage, pc>>

\* CDHashMap::operator[] on a key that is not there; with a key that is there
\* it changes nothing.
Index(k) ==
  /\ pc = "run"
  /\ table[k] = Nil
  /\ NewElement(k, Default)
  /\ UNCHANGED <<level, garbage, pc>>

\* CDHashMap::clear: deleteSelf() on every element of the table, restore()
\* being short-circuited by a null d_map.
Clear ==
  /\ pc = "run"
  /\ table' = [k \in Key |-> Nil]
  /\ first' = Nil
  /\ heap' = [a \in DOMAIN heap \ {table[k] : k \in Key} |-> heap[a]]
  /\ UNCHANGED <<level, garbage, pc>>

Push ==
  /\ pc = "run"
  /\ level < MaxLevel
  /\ level' = level + 1
  /\ UNCHANGED <<table, first, heap, garbage, pc>>

\* Context::pop takes the scope off before it restores the objects in it.
Pop ==
  /\ pc = "run"
  /\ level > 0
  /\ level' = level - 1
  /\ pc' = "restore"
  /\ UNCHANGED <<table, first, heap, garbage>>

\* A variant that forgets to move d_first.
UnlinkKeepsFirst(a) ==
  LET x == heap[a] IN
  /\ first' = IF first = a /\ x.next = a THEN Nil ELSE first
  /\ heap' = [b \in DOMAIN heap |->
                LET y == IF b = a THEN Continue(x) ELSE heap[b] IN
                [y EXCEPT !.prev = IF b = x.next THEN x.prev ELSE @,
                          !.next = IF b = x.prev THEN x.next ELSE @]]

\* restore() to the version with a null d_map: leave the ring.
Unlink(a) ==
  LET x == heap[a] IN
  /\ first' = IF first # a THEN first ELSE IF x.next = a THEN Nil ELSE x.next
  /\ heap' = [b \in DOMAIN heap |->
                LET y == IF b = a THEN Continue(x) ELSE heap[b] IN
                [y EXCEPT !.prev = IF b = x.next THEN x.prev ELSE @,
                          !.next = IF b = x.prev THEN x.next ELSE @]]

\* CDOhash_map::restore, called by restoreAndContinue()
RestoreElement(a) ==
  /\ pc = "restore"
  /\ InScope(heap[a], level + 1)
  /\ LET copy == LastCopy(heap[a]) IN
       \/ /\ ~copy.mapped
          /\ table' = [table EXCEPT ![heap[a].key] = Nil]
          /\ Unlink(a)
          /\ garbage' = garbage \cup {a}
       \/ /\ copy.mapped
          /\ heap' = [heap EXCEPT ![a] = Continue([@ EXCEPT !.data = copy.data])]
          /\ UNCHANGED <<table, first, garbage>>
  /\ UNCHANGED <<level, pc>>

\* The second loop of ~Scope() deletes the enqueued elements.
PopDone ==
  /\ pc = "restore"
  /\ \A a \in DOMAIN heap : ~InScope(heap[a], level + 1)
  /\ heap' = [a \in DOMAIN heap \ garbage |-> heap[a]]
  /\ garbage' = {}
  /\ pc' = "run"
  /\ UNCHANGED <<level, table, first>>

Next ==
  \/ \E k \in Key : Index(k) \/ \E d \in Data : Insert(k, d)
  \/ Clear
  \/ Push
  \/ Pop
  \/ \E a \in DOMAIN heap : RestoreElement(a)
  \/ PopDone

Spec == Init /\ [][Next]_vars

-----------------------------------------------------------------------------
(* Properties.                                                             *)

InTable == {table[k] : k \in Key} \ {Nil}

\* The first n elements an iterator meets.
Walk(n) ==
  LET at[i \in 1..n] == IF i = 1 THEN first ELSE heap[at[i - 1]].next
  IN  [i \in 1..n |-> at[i]]

\* The elements that were in the map at level l.
InMapAt(l) == {a \in InTable : VersionAt(heap[a], l).mapped}

\* The ring holds exactly the elements of the table, at every point of a pop:
\* d_next leads from d_first through all of them and back, d_prev is its
\* inverse, and no pointer leads to a deleted element.  An element is allocated
\* exactly as long as it is in the table or enqueued for deletion: pop() leaks
\* none, although restore() cannot delete them.  What was in the map at a lower
\* level is a beginning of the ring, so that an iterator meets the same elements
\* first after any number of pops.
RingMatchesTable ==
  /\ TypeOK
  /\ InTable \subseteq DOMAIN heap
  /\ \A k \in Key : table[k] # Nil => heap[table[k]].key = k
  /\ (first = Nil) = (InTable = {})
  /\ \A a \in InTable :
       /\ heap[a].next \in InTable
       /\ heap[heap[a].next].prev = a
  /\ first # Nil => ToSet(Walk(Cardinality(InTable))) = InTable
  /\ DOMAIN heap = InTable \cup garbage
  /\ \A l \in 0..level : ToSet(Walk(Cardinality(InMapAt(l)))) = InMapAt(l)

Entry(a, l) == [key |-> heap[a].key, data |-> VersionAt(heap[a], l).data]

Map == INSTANCE BacktrackMap WITH
         snap <- [l \in 0..level |->
                    [i \in 1..Cardinality(InMapAt(l)) |-> Entry(Walk(i)[i], l)]]

\* The elements that save themselves and a ring that is never saved implement
\* a map with full snapshots that remembers the order of insertion.
ImplementsMap == Map!Spec
=============================================================================
