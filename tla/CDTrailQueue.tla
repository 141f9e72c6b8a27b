---------------------------- MODULE CDTrailQueue ----------------------------
(***************************************************************************)
(* src/context/cdtrail_queue.h: a queue made of two context-dependent      *)
(* objects that are saved independently of one another, a CDList and a CDO *)
(* holding the index of the next element.  Nothing is ever removed from    *)
(* the list but by a pop of the context, so that indices stay valid.       *)
(***************************************************************************)
EXTENDS ContextObj

CONSTANTS
  MaxElem,      \* bound on the number of elements ever enqueued
  MaxLevel      \* bound on the level of the context

VARIABLES
  level,        \* level of the context
  next,         \* the elements enqueued so far are 1..next
  list,         \* d_list, a CDList
  iter          \* d_iter, a CDO<size_t>

vars == <<level, next, list, iter>>

Elem == 1..MaxElem

\* The type invariant: the list and the iterator hold values
\* of their kinds, and no pop goes below level 0.
TypeOK ==
  /\ level \in 0..MaxLevel
  /\ next \in 0..MaxElem
  /\ list.d_list \in Seq(Elem)
  /\ iter.data \in Nat

Init ==
  /\ level = 0
  /\ next = 0
  /\ list = [scope |-> 0, saved |-> << >>, d_list |-> << >>, size |-> 0]
  /\ iter = [scope |-> 0, saved |-> << >>, data |-> 0]

\* CDList::push_back
PushBack(x, top, e) ==
  LET y == MakeCurrent(x, top, [scope |-> x.scope, size |-> x.size]) IN
  [y EXCEPT !.d_list = Append(@, e), !.size = @ + 1]

\* CDList::restore, with truncateList()
RestoreList(x) ==
  Continue([x EXCEPT !.size = LastCopy(x).size,
                     !.d_list = SubSeq(@, 1, LastCopy(x).size)])

\* A variant that writes d_iter without makeCurrent().
SetInPlace(x, top, v) == [x EXCEPT !.data = v]

\* CDO::set
Set(x, top, v) ==
  [MakeCurrent(x, top, [scope |-> x.scope, data |-> x.data]) EXCEPT !.data = v]

\* CDO::restore
RestoreIter(x) == Continue([x EXCEPT !.data = LastCopy(x).data])

\* CDTrailQueue::enqueue
Enqueue ==
  /\ next < MaxElem
  /\ next' = next + 1
  /\ list' = PushBack(list, level, next + 1)
  /\ UNCHANGED <<level, iter>>

\* CDTrailQueue::dequeue, whose callers ask empty() first
Dequeue ==
  /\ iter.data < list.size
  /\ iter' = Set(iter, level, iter.data + 1)
  /\ UNCHANGED <<level, next, list>>

Push ==
  /\ level < MaxLevel
  /\ level' = level + 1
  /\ UNCHANGED <<next, list, iter>>

\* Context::pop restores whichever of the two was modified at this level, one after
\* the other; neither looks at the other meanwhile, so it is one step here.
Pop ==
  /\ level > 0
  /\ level' = level - 1
  /\ list' = IF InScope(list, level) THEN RestoreList(list) ELSE list
  /\ iter' = IF InScope(iter, level) THEN RestoreIter(iter) ELSE iter
  /\ UNCHANGED next

Next == Enqueue \/ Dequeue \/ Push \/ Pop

Spec == Init /\ [][Next]_vars

-----------------------------------------------------------------------------
(* Properties.                                                             *)

\* The two objects agree although each is saved when it alone changes: at every
\* level the index in force is within the list in force, so that front() never
\* reads behind the end of d_list.
IterInList ==
  \A l \in 0..level : VersionAt(iter, l).data <= VersionAt(list, l).size

Queue == INSTANCE BacktrackQueue WITH
           snap <- [l \in 0..level |->
                      SubSeq(list.d_list, VersionAt(iter, l).data + 1,
                             VersionAt(list, l).size)]

\* List and index together are a queue with full snapshots.
ImplementsQueue == Queue!Spec
=============================================================================
