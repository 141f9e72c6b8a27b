------------------------------ MODULE CDQueue ------------------------------
(***************************************************************************)
(* src/context/cdqueue.h on top of cdlist.h.  The elements are in d_list,  *)
(* which is never saved: a saved copy holds three indices only.  A pop     *)
(* that empties the queue destroys the elements added since the last save, *)
(* so d_lastsave has to protect what the saved copies still count.         *)
(***************************************************************************)
EXTENDS ContextObj, FiniteSets

CONSTANTS
  MaxElem,      \* bound on the number of elements ever enqueued
  MaxLevel,     \* bound on the level of the context
  CallCleanup   \* the argument callCleanup of the constructor

VARIABLES
  level,        \* level of the context
  next,         \* the elements enqueued so far are 1..next, each is enqueued once
  queue,        \* the CDQueue
  cleaned       \* how often d_cleanUp was called on each element

vars == <<level, next, queue, cleaned>>

Elem == 1..MaxElem
Index == 0..MaxElem
Indices == [scope : 0..MaxLevel, size : Index, iter : Index, lastsave : Index]

\* The type invariant: the indices of the queue and of its saved copies stay
\* within the elements there are, and no pop goes below level 0.
TypeOK ==
  /\ level \in 0..MaxLevel
  /\ next \in Index
  /\ queue.list \in Seq(Elem)
  /\ queue.saved \in Seq(Indices)
  /\ [f \in {"scope", "size", "iter", "lastsave"} |-> queue[f]] \in Indices
  /\ cleaned \in [Elem -> Nat]

Init ==
  /\ level = 0
  /\ next = 0
  /\ queue = [scope |-> 0, saved |-> << >>, list |-> << >>,
              size |-> 0, iter |-> 0, lastsave |-> 0]
  /\ cleaned = [e \in Elem |-> 0]

\* CDQueue::save, called by makeCurrent(): copy the indices, then note the size.
Save(q, top) ==
  LET copy == [scope |-> q.scope, size |-> q.size,
               iter |-> q.iter, lastsave |-> q.lastsave] IN
  IF q.scope = top THEN q
  ELSE [MakeCurrent(q, top, copy) EXCEPT !.lastsave = q.size]

\* CDList::truncateList
TruncateList(q, n) == [q EXCEPT !.size = n, !.list = SubSeq(@, 1, n)]

\* A variant that cleans up from the element before the first one to go.
CleanUpOneMore(list, n) ==
  [e \in Elem |-> IF CallCleanup /\ \E i \in n..Len(list) : i > 0 /\ list[i] = e
                  THEN cleaned[e] + 1 ELSE cleaned[e]]

\* The loop of CDList::truncateList calls d_cleanUp on what is behind n.
CleanUp(list, n) ==
  [e \in Elem |-> IF CallCleanup /\ \E i \in n + 1..Len(list) : list[i] = e
                  THEN cleaned[e] + 1 ELSE cleaned[e]]

\* CDQueue::push
Enqueue ==
  /\ next < MaxElem
  /\ next' = next + 1
  /\ LET q == Save(queue, level) IN
       queue' = [q EXCEPT !.list = Append(@, next + 1), !.size = @ + 1]
  /\ UNCHANGED <<level, cleaned>>

\* CDQueue::pop
Dequeue ==
  /\ queue.iter < queue.size
  /\ LET q == [Save(queue, level) EXCEPT !.iter = @ + 1] IN
       IF q.iter = q.size /\ q.lastsave # q.size
       THEN /\ queue' = [TruncateList(q, q.lastsave) EXCEPT !.iter = q.lastsave]
            /\ cleaned' = CleanUp(q.list, q.lastsave)
       ELSE queue' = q /\ UNCHANGED cleaned
  /\ UNCHANGED <<level, next>>

Push ==
  /\ level < MaxLevel
  /\ level' = level + 1
  /\ UNCHANGED <<next, queue, cleaned>>

\* CDQueue::restore, and the rest of restoreAndContinue()
Restore(q) ==
  LET copy == LastCopy(q) IN
  Continue([TruncateList(q, copy.size) EXCEPT !.iter = copy.iter,
                                              !.lastsave = copy.lastsave])

\* Context::pop, which restores the queue if it was modified at this level.
Pop ==
  /\ level > 0
  /\ level' = level - 1
  /\ IF InScope(queue, level)
     THEN /\ queue' = Restore(queue)
          /\ cleaned' = CleanUp(queue.list, LastCopy(queue).size)
     ELSE UNCHANGED <<queue, cleaned>>
  /\ UNCHANGED next

Next == Enqueue \/ Dequeue \/ Push \/ Pop

Spec == Init /\ [][Next]_vars

-----------------------------------------------------------------------------
(* Properties.                                                             *)

\* The condition that the warning of CDList::truncateList leaves to its caller
\* ("the saved d_size values at lower context levels are less than or equal to
\* size"), for the truncation that pop() may do at any time: d_lastsave of each
\* version is at least the size that the version before it will go back to.
\* It is why Assert(size <= d_size) holds in every restore().
SavedSizesFit ==
  /\ queue.size = Len(queue.list)
  /\ queue.iter <= queue.size /\ queue.lastsave <= queue.size
  /\ queue.saved # << >> => LastCopy(queue).size <= queue.lastsave
  /\ \A i \in DOMAIN queue.saved :
       LET copy == queue.saved[i] IN
       /\ copy.iter <= copy.size /\ copy.lastsave <= copy.size
       /\ i > 1 => queue.saved[i - 1].size <= copy.lastsave

\* The queue as version v sees it.
Pending(v) == SubSeq(queue.list, v.iter + 1, v.size)

\* d_cleanUp is called once on an element, when no version can reach it any
\* more, and on every element that has left the list.
CleanedOnceAndLast ==
  CallCleanup =>
    \A e \in 1..next :
      /\ cleaned[e] <= 1
      /\ cleaned[e] = 0 <=> \E i \in DOMAIN queue.list : queue.list[i] = e
      /\ cleaned[e] = 1 =>
           \A l \in 0..level :
             LET pending == Pending(VersionAt(queue, l)) IN
             \A i \in DOMAIN pending : pending[i] # e

Queue == INSTANCE BacktrackQueue WITH
           snap <- [l \in 0..level |-> Pending(VersionAt(queue, l))]

\* Saving indices and destroying dequeued elements early is invisible: at every
\* level the queue is what it was there when the level was left.
ImplementsQueue == Queue!Spec
=============================================================================
