---------------------------- MODULE NodeManager ----------------------------
(***************************************************************************)
(* expr: the reference counts of node values, the pool that makes equal    *)
(* terms one node, the set of zombies, and the end of the node manager.    *)
(*                                                                         *)
(* A decrement may reach zero, that may start a collection, and that       *)
(* decrements children: what is still to be done when one of these calls   *)
(* another is the stack work, whose first element is next.  The program    *)
(* acts when it is empty.                                                  *)
(*                                                                         *)
(* A node value is named by the term it stands for; Pooled terms are shared*)
(* through the pool, the others are variables, of which the program keeps  *)
(* at most one.  The program, and the values of attributes, are external.  *)
(***************************************************************************)
EXTENDS Integers, Sequences, FiniteSets, SequencesExt

CONSTANTS Key,          \* terms
          Children,     \* Children[k]: the terms k is made of
          Pooled,       \* terms that are not variables
          None,
          MaxRC,        \* MAX_RC, 2^20 - 1 in the code
          Threshold,    \* zombies that do not start a collection, 5000 in the code
          MaxHandles    \* bound: Nodes of the program per term

\* A variable has no children, and a term is larger than the terms it is made of.
ASSUME NodeAssumption ==
    /\ IsFiniteSet(Key) /\ Pooled \subseteq Key /\ None \notin Key
    /\ MaxRC \in Nat \ {0, 1} /\ Threshold \in Nat \ {0} /\ MaxHandles \in Nat \ {0}
    /\ Children \in [Key -> Seq(Key)] /\ \A k \in Key \ Pooled : Children[k] = <<>>
    /\ \E size \in [Key -> 0..Cardinality(Key)] :
          \A k \in Key : \A i \in DOMAIN Children[k] : size[Children[k][i]] < size[k]

VARIABLES
    rc,          \* d_rc
    allocated,   \* node values that have not been freed
    pool,        \* d_nodeValuePool
    zombies,     \* d_zombies
    maxedOut,    \* d_maxedOut
    inReclaim,   \* d_inReclaimZombies
    collecting,  \* the copy that reclaimZombies goes through
    work,        \* calls that have not returned
    handles,     \* the program: Nodes it holds
    attr,        \* the program: a Node held as an attribute of a term, or None
    builder,     \* the program: the term of a NodeBuilder with its children, or None
    root,        \* TopologicalSort: how many roots it has begun
    stack,       \* TopologicalSort: nodes to visit, before or after their children
    visited,     \* TopologicalSort: nodes that have been visited
    order,       \* the destructor: maxed out nodes still to be deleted, the next last
    phase,       \* "alive", and the destructor: "tables", "sorting", "deleting", "gone"
    failed       \* uses of freed memory and Asserts that did not hold

vars == <<rc, allocated, pool, zombies, maxedOut, inReclaim, collecting, work,
          handles, attr, builder, root, stack, visited, order, phase, failed>>

Init ==
    /\ rc = [k \in Key |-> 0] /\ allocated = {} /\ pool = {}
    /\ zombies = {} /\ maxedOut = <<>> /\ inReclaim = FALSE /\ collecting = {}
    /\ work = <<>>
    /\ handles = [k \in Key |-> 0] /\ attr = [k \in Key |-> None] /\ builder = None
    /\ root = 0 /\ stack = <<>> /\ visited = {} /\ order = <<>>
    /\ phase = "alive" /\ failed = {}

Dec(k) == [op |-> "dec", key |-> k]
DecAll(keys) == [i \in DOMAIN keys |-> Dec(keys[i])]
Op(name, k) == [op |-> name, key |-> k]
Count(k, keys) == Cardinality({i \in DOMAIN keys : keys[i] = k})
Failing(name, ok) == IF ok THEN failed ELSE failed \union {name}

ending == <<root, stack, visited, order, phase>>
program == <<handles, attr, builder, ending>>

-----------------------------------------------------------------------------
(* Reference counts. *)

\* A variant: a count at its maximum starts again.
IncAllWraps(keys) ==
    /\ rc' = [k \in Key |-> (rc[k] + Count(k, keys)) % (MaxRC + 1)]
    /\ maxedOut' = maxedOut
    /\ failed' = failed

\* inc() of each of the keys: the count sticks at its maximum, and the node is
\* noted when it gets there.
IncAll(keys) ==
    /\ rc' = [k \in Key |-> IF rc[k] + Count(k, keys) < MaxRC
                            THEN rc[k] + Count(k, keys) ELSE MaxRC]
    /\ maxedOut' = maxedOut \o SetToSeq({k \in Key : rc[k] < MaxRC /\ rc'[k] = MaxRC})
    /\ failed' = Failing("inc after free", ToSet(keys) \subseteq allocated)

\* A variant: the last reference does not make a zombie when a collection runs.
DecStepForgets(k) ==
    LET n == IF rc[k] < MaxRC THEN rc[k] - 1 ELSE rc[k] IN
    /\ rc' = [rc EXCEPT ![k] = n]
    /\ zombies' = IF n = 0 /\ ~inReclaim THEN zombies \union {k} ELSE zombies
    /\ work' = IF n = 0 /\ ~inReclaim /\ Cardinality(zombies') > Threshold
               THEN <<Op("reclaim", None)>> \o Tail(work) ELSE Tail(work)
    /\ failed' = Failing("dec after free", k \in allocated /\ rc[k] > 0)

\* dec() and markForDeletion: zero makes a zombie, too many of them a collection,
\* unless one is running.
DecStep(k) ==
    LET n == IF rc[k] < MaxRC THEN rc[k] - 1 ELSE rc[k] IN
    /\ rc' = [rc EXCEPT ![k] = n]
    /\ zombies' = IF n = 0 THEN zombies \union {k} ELSE zombies
    /\ work' = IF n = 0 /\ ~inReclaim /\ Cardinality(zombies') > Threshold
               THEN <<Op("reclaim", None)>> \o Tail(work) ELSE Tail(work)
    /\ failed' = Failing("dec after free", k \in allocated /\ rc[k] > 0)

-----------------------------------------------------------------------------
(* reclaimZombies. *)

\* A variant: it collects until there are no zombies, and takes only the nodes it
\* collects from the set.
ReclaimStepUntilEmpty ==
    /\ collecting' = {k \in zombies : rc[k] = 0}
    /\ zombies' = zombies \ collecting'
    /\ inReclaim' = TRUE
    /\ work' = <<Op("collect", None)>> \o (IF zombies = {} THEN Tail(work) ELSE work)
    /\ failed' = Failing("not re-entrant", ~inReclaim)

\* The set is copied, without the nodes that are in use again, and emptied.
ReclaimStep ==
    /\ collecting' = {k \in zombies : rc[k] = 0}
    /\ zombies' = {}
    /\ inReclaim' = TRUE
    /\ work' = <<Op("collect", None)>> \o Tail(work)
    /\ failed' = Failing("not re-entrant", ~inReclaim)

\* One node of the copy: out of the pool, its attributes and then its children
\* decremented, its memory freed.
CollectStep(k) ==
    /\ collecting' = collecting \ {k}
    /\ IF rc[k] = 0
       THEN /\ pool' = pool \ {k}
            /\ attr' = [attr EXCEPT ![k] = None]
            /\ work' = DecAll((IF attr[k] = None THEN <<>> ELSE <<attr[k]>>) \o Children[k])
                       \o <<Op("free", k)>> \o work
       ELSE UNCHANGED <<pool, attr, work>>
    /\ failed' = Failing("collect after free", k \in allocated)

-----------------------------------------------------------------------------
(* The calls that have not returned. *)

Running(name) == work # <<>> /\ Head(work).op = name

RunDec ==
    /\ Running("dec")
    /\ DecStep(Head(work).key)
    /\ UNCHANGED <<allocated, pool, maxedOut, inReclaim, collecting, program>>

RunReclaim ==
    /\ Running("reclaim")
    /\ ReclaimStep
    /\ UNCHANGED <<rc, allocated, pool, maxedOut, program>>

RunCollect ==
    /\ Running("collect") /\ collecting # {}
    /\ \E k \in collecting : CollectStep(k)
    /\ UNCHANGED <<rc, allocated, zombies, maxedOut, inReclaim, handles, builder, ending>>

RunCollected ==
    /\ Running("collect") /\ collecting = {}
    /\ inReclaim' = FALSE
    /\ work' = Tail(work)
    /\ UNCHANGED <<rc, allocated, pool, zombies, maxedOut, collecting, program, failed>>

RunFree ==
    /\ Running("free")
    /\ allocated' = allocated \ {Head(work).key}
    /\ failed' = Failing("inc under deletion", rc[Head(work).key] = 0)
    /\ work' = Tail(work)
    /\ UNCHANGED <<rc, pool, zombies, maxedOut, inReclaim, collecting, program>>

\* The end of constructNode for a node that was in the pool: a Node of it.
RunReturn ==
    /\ Running("return")
    /\ IncAll(<<Head(work).key>>)
    /\ handles' = [handles EXCEPT ![Head(work).key] = @ + 1]
    /\ work' = Tail(work)
    /\ UNCHANGED <<allocated, pool, zombies, inReclaim, collecting, attr, builder, ending>>

-----------------------------------------------------------------------------
(* The program. *)

Idle == phase = "alive" /\ work = <<>>

CopyNode(k) ==
    /\ Idle /\ handles[k] \in 1..MaxHandles - 1
    /\ IncAll(<<k>>)
    /\ handles' = [handles EXCEPT ![k] = @ + 1]
    /\ UNCHANGED <<allocated, pool, zombies, inReclaim, collecting, work, attr, builder,
                   ending>>

\* By the program, or from the tables of a node manager that is being destroyed.
DropNode(k) ==
    /\ phase \in {"alive", "tables"} /\ work = <<>> /\ handles[k] > 0
    /\ handles' = [handles EXCEPT ![k] = @ - 1]
    /\ work' = <<Dec(k)>>
    /\ UNCHANGED <<rc, allocated, pool, zombies, maxedOut, inReclaim, collecting, attr,
                   builder, ending, failed>>

\* constructNV for a variable.
MkVar(k) ==
    /\ Idle /\ k \notin Pooled \union allocated
    /\ allocated' = allocated \union {k}
    /\ rc' = [rc EXCEPT ![k] = 1]
    /\ handles' = [handles EXCEPT ![k] = 1]
    /\ UNCHANGED <<pool, zombies, maxedOut, inReclaim, collecting, work, attr, builder,
                   ending, failed>>

\* A NodeBuilder takes the children.
StartBuilder(k) ==
    /\ Idle /\ builder = None /\ k \in Pooled
    /\ \A i \in DOMAIN Children[k] : handles[Children[k][i]] > 0
    /\ IncAll(Children[k])
    /\ builder' = k
    /\ UNCHANGED <<allocated, pool, zombies, inReclaim, collecting, work, handles, attr,
                   ending>>

\* constructNV when the pool has the node, a zombie perhaps: the builder gives
\* the children back before the node is returned.
BuildFromPool ==
    /\ Idle /\ builder \in pool /\ handles[builder] < MaxHandles
    /\ work' = DecAll(Children[builder]) \o <<Op("return", builder)>>
    /\ builder' = None
    /\ UNCHANGED <<rc, allocated, pool, zombies, maxedOut, inReclaim, collecting, handles,
                   attr, ending, failed>>

\* constructNV for a new node, which takes over the references of the builder.
BuildNew ==
    /\ Idle /\ builder \in Pooled \ pool
    /\ allocated' = allocated \union {builder}
    /\ pool' = pool \union {builder}
    /\ rc' = [rc EXCEPT ![builder] = 1]
    /\ handles' = [handles EXCEPT ![builder] = 1]
    /\ builder' = None
    /\ failed' = Failing("two nodes for one term", builder \notin allocated)
    /\ UNCHANGED <<zombies, maxedOut, inReclaim, collecting, work, attr, ending>>

\* The builder is cleared or destroyed unused.
DropBuilder ==
    /\ Idle /\ builder # None
    /\ work' = DecAll(Children[builder])
    /\ builder' = None
    /\ UNCHANGED <<rc, allocated, pool, zombies, maxedOut, inReclaim, collecting, handles,
                   attr, ending, failed>>

\* An attribute of k whose value is a Node.  There is one attribute, given once.
SetAttribute(k, j) ==
    /\ Idle /\ handles[k] > 0 /\ handles[j] > 0 /\ attr[k] = None
    /\ IncAll(<<j>>)
    /\ attr' = [attr EXCEPT ![k] = j]
    /\ UNCHANGED <<allocated, pool, zombies, inReclaim, collecting, work, handles, builder,
                   ending>>

-----------------------------------------------------------------------------
(* ~NodeManager. *)

\* All attributes go first, without a collection.
DeleteAllAttributes ==
    /\ Idle /\ builder = None
    /\ inReclaim' = TRUE
    /\ LET owners == SetToSeq({k \in Key : attr[k] # None}) IN
       work' = DecAll([i \in DOMAIN owners |-> attr[owners[i]]]) \o <<Op("attributes", None)>>
    /\ attr' = [k \in Key |-> None]
    /\ phase' = "tables"
    /\ UNCHANGED <<rc, allocated, pool, zombies, maxedOut, collecting, handles, builder,
                   root, stack, visited, order, failed>>

RunAttributesDeleted ==
    /\ Running("attributes")
    /\ inReclaim' = FALSE
    /\ work' = Tail(work)
    /\ UNCHANGED <<rc, allocated, pool, zombies, maxedOut, collecting, program, failed>>

\* The tables are empty, and no Node is left.
ClearTables ==
    /\ phase = "tables" /\ work = <<>>
    /\ \A k \in Key : handles[k] = 0
    /\ phase' = "sorting"
    /\ UNCHANGED <<rc, allocated, pool, zombies, maxedOut, inReclaim, collecting, work, handles,
                   attr, builder, root, stack, visited, order, failed>>

\* TopologicalSort goes through the maxed out nodes.
SortRoot ==
    /\ phase = "sorting" /\ stack = <<>> /\ root < Len(maxedOut)
    /\ root' = root + 1
    /\ stack' = IF maxedOut[root + 1] \in visited THEN <<>>
                ELSE <<[key |-> maxedOut[root + 1], turn |-> "before"]>>
    /\ UNCHANGED <<rc, allocated, pool, zombies, maxedOut, inReclaim, collecting, work, handles,
                   attr, builder, visited, order, phase, failed>>

\* A variant: a root is put in the order before the nodes below it.
SortVisitBefore ==
    /\ phase = "sorting" /\ stack # <<>>
    /\ LET top == Last(stack)
           below == [i \in DOMAIN Children[top.key] |->
                        [key |-> Children[top.key][i], turn |-> "before"]]
       IN  IF top.turn = "after" \/ top.key \in visited
           THEN stack' = Front(stack) /\ UNCHANGED <<visited, order>>
           ELSE /\ stack' = Front(stack) \o <<[top EXCEPT !.turn = "after"]>> \o below
                /\ visited' = visited \union {top.key}
                /\ order' = IF top.key \in ToSet(maxedOut) THEN Append(order, top.key) ELSE order
    /\ UNCHANGED <<rc, allocated, pool, zombies, maxedOut, inReclaim, collecting, work, handles,
                   attr, builder, root, phase, failed>>

\* One turn of its inner loop: a node is visited before its children, and after
\* them, when it is put in the order if it is a root.
SortVisit ==
    /\ phase = "sorting" /\ stack # <<>>
    /\ LET top == Last(stack)
           below == [i \in DOMAIN Children[top.key] |->
                        [key |-> Children[top.key][i], turn |-> "before"]]
       IN  \/ /\ top.turn = "after"
              /\ order' = IF top.key \in ToSet(maxedOut) THEN Append(order, top.key) ELSE order
              /\ stack' = Front(stack)
              /\ UNCHANGED visited
           \/ /\ top.turn = "before" /\ top.key \notin visited
              /\ stack' = Front(stack) \o <<[top EXCEPT !.turn = "after"]>> \o below
              /\ visited' = visited \union {top.key}
              /\ UNCHANGED order
           \/ /\ top.turn = "before" /\ top.key \in visited
              /\ stack' = Front(stack)
              /\ UNCHANGED <<visited, order>>
    /\ UNCHANGED <<rc, allocated, pool, zombies, maxedOut, inReclaim, collecting, work, handles,
                   attr, builder, root, phase, failed>>

\* The end of TopologicalSort, and d_maxedOut.clear().
EndSort ==
    /\ phase = "sorting" /\ stack = <<>> /\ root = Len(maxedOut)
    /\ maxedOut' = <<>> /\ root' = 0 /\ visited' = {}
    /\ phase' = "deleting"
    /\ failed' = Failing("order", Len(order) = Len(maxedOut))
    /\ UNCHANGED <<rc, allocated, pool, zombies, inReclaim, collecting, work, handles, attr,
                   builder, stack, order>>

DeleteZombies ==
    /\ phase = "deleting" /\ work = <<>> /\ zombies # {}
    /\ work' = <<Op("reclaim", None)>>
    /\ UNCHANGED <<rc, allocated, pool, zombies, maxedOut, inReclaim, collecting, program,
                   failed>>

\* A maxed out node is made a zombie when there is no other.
DeleteMaxedOut ==
    /\ phase = "deleting" /\ work = <<>> /\ zombies = {} /\ order # <<>>
    /\ rc' = [rc EXCEPT ![Last(order)] = 0]
    /\ zombies' = {Last(order)}
    /\ order' = Front(order)
    /\ failed' = Failing("maxed out", Last(order) \in allocated /\ rc[Last(order)] = MaxRC)
    /\ UNCHANGED <<allocated, pool, maxedOut, inReclaim, collecting, work, handles, attr,
                   builder, root, stack, visited, phase>>

\* A variant: the destructor stops when there is no zombie.
FinishEarly ==
    /\ phase = "deleting" /\ work = <<>> /\ zombies = {}
    /\ phase' = "gone"
    /\ UNCHANGED <<rc, allocated, pool, zombies, maxedOut, inReclaim, collecting, work,
                   handles, attr, builder, root, stack, visited, order, failed>>

Finish ==
    /\ phase = "deleting" /\ work = <<>> /\ zombies = {} /\ order = <<>>
    /\ phase' = "gone"
    /\ UNCHANGED <<rc, allocated, pool, zombies, maxedOut, inReclaim, collecting, work,
                   handles, attr, builder, root, stack, visited, order, failed>>

\* What goes on without the program.
Progress ==
    \/ RunDec \/ RunReclaim \/ RunCollect \/ RunCollected \/ RunFree \/ RunReturn
    \/ RunAttributesDeleted \/ SortRoot \/ SortVisit \/ EndSort \/ DeleteZombies \/ DeleteMaxedOut \/ Finish

Next ==
    \/ Progress \/ BuildFromPool \/ BuildNew \/ DropBuilder
    \/ DeleteAllAttributes \/ ClearTables
    \/ \E k \in Key : \/ CopyNode(k) \/ DropNode(k) \/ MkVar(k) \/ StartBuilder(k)
                      \/ \E j \in Key : SetAttribute(k, j)

\* Calls return, and the loop of the destructor runs to its end.
Spec == Init /\ [][Next]_vars /\ WF_vars(Progress)

-----------------------------------------------------------------------------
(* Properties. *)

\* The type invariant: counts fit their width and sets hold terms.
TypeOK ==
    /\ rc \in [Key -> 0..MaxRC] /\ handles \in [Key -> 0..MaxHandles]
    /\ attr \in [Key -> Key \union {None}] /\ builder \in Key \union {None}
    /\ pool \subseteq Pooled /\ zombies \subseteq Key /\ collecting \subseteq Key
    /\ {maxedOut, order} \subseteq Seq(Key) /\ visited \subseteq Key
    /\ phase \in {"alive", "tables", "sorting", "deleting", "gone"} /\ inReclaim \in BOOLEAN

\* Nodes that are being freed, and nodes that are not.
Dying == {work[i].key : i \in {j \in DOMAIN work : work[j].op = "free"}}
Live == allocated \ Dying

\* The references to k: Nodes of the program, attributes, the builder, nodes that
\* are not being deleted, and decrements that are still to come.
Parents(k) == UNION {{<<j, i>> : i \in {n \in DOMAIN Children[j] : Children[j][n] = k}} : j \in Live}
References(k) ==
    handles[k] + Cardinality({j \in Key : attr[j] = k})
    + (IF builder = None THEN 0 ELSE Count(k, Children[builder]))
    + Cardinality(Parents(k)) + Count(Dec(k), work)

\* Nodes whose counts have been at their maximum, and that are not deleted by force yet.
Pinned == ToSet(maxedOut) \union ToSet(order)

\* A count is the number of references, or has been at its maximum and stays
\* there: a count that would not be decremented again keeps the node for good,
\* and one that is never gets it freed too early.  This is so when the destructor
\* deletes nodes by force as well: no reference to them is left then.
CountsExact ==
    /\ TypeOK
    /\ \A k \in Live : IF k \in Pinned THEN rc[k] = MaxRC
                       ELSE rc[k] < MaxRC /\ rc[k] = References(k)

\* No freed node is touched: not by a decrement in the middle of a collection,
\* not by a copy of the zombies, not when a zombie is found in the pool and given
\* out again while its children are given back, not by the destructor.
NoUseAfterFree ==
    /\ failed = {}
    /\ zombies \union collecting \union Pinned \subseteq allocated
    /\ \A k \in Live : ToSet(Children[k]) \subseteq allocated
    /\ \A i \in DOMAIN work : work[i].op = "return" => work[i].key \in pool

\* A node without references is a zombie or is about to be collected or given
\* out, so that it is not lost; and the pool has just the nodes that are not
\* being deleted, so that a term never has two.  Nothing is left at the end.
NothingLost ==
    /\ \A k \in Live : rc[k] = 0 => k \in zombies \union collecting
    /\ pool = Live \intersect Pooled
    /\ phase = "gone" => allocated = {}

\* Every call returns: a decrement starts a collection, that decrements and frees,
\* and none of it goes round in circles.
CallsReturn == work # <<>> ~> work = <<>>

\* The loop of the destructor ends, with each maxed out node made a zombie once,
\* and nothing is left then, what only the maxed out nodes kept alive included.
DestructorEnds == phase = "deleting" ~> (phase = "gone" /\ allocated = {})
=============================================================================
