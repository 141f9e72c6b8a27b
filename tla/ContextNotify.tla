---------------------------- MODULE ContextNotify ----------------------------
(***************************************************************************)
(* The objects a Context notifies of its pops.  They sit in two intrusive  *)
(* lists, one notified before the scope is restored and one after; an      *)
(* object is at the front when it registers, leaves the list in its own    *)
(* destructor, and may do so from within the callback that notifies it.    *)
(* A callback may also register new objects.  An address may be used again *)
(* once its object is gone.                                                *)
(*                                                                         *)
(* A callback is taken not to destroy another registered object: the code  *)
(* prepares for self-destruction only (the comment in Context::pop).       *)
(***************************************************************************)
EXTENDS Integers, Sequences, FiniteSets, SequencesExt

CONSTANTS Obj,        \* addresses of ContextNotifyObjs
          MaxLevel    \* bound: levels of the context

Lists == {"pre", "post"}

Null == "null"

ASSUME NotifyAssumption == IsFiniteSet(Obj) /\ Null \notin Obj /\ MaxLevel \in Nat

\* What d_ppCNOprev points to: the head of a list or the next field of an object.
HeadOf(l) == <<"head", l>>
NextOf(o) == <<"next", o>>
Nowhere == <<"null", Null>>

VARIABLES
    level,     \* Context::getLevel
    head,      \* d_pCNOpre and d_pCNOpost
    mem,       \* d_pCNOnext and d_ppCNOprev of the objects that exist
    pc,        \* "idle", or where Context::pop is
    cur, next, \* the local variables pCNO and next
    dying,     \* ~Context is running
    due,       \* history: the list when its loop began
    called,    \* history: the objects called back by the loop so far
    wild       \* history: some destructor wrote to freed memory

vars == <<level, head, mem, pc, cur, next, dying, due, called, wild>>

Exists(o) == o \in DOMAIN mem

Init ==
    /\ level = 0
    /\ head = [l \in Lists |-> Null]
    /\ mem = <<>>
    /\ pc = "idle"
    /\ cur = Null /\ next = Null
    /\ dying = FALSE
    /\ due = <<>> /\ called = <<>>
    /\ wild = FALSE

\* The objects of a list from its head on.
Walk(l) ==
    LET at[n \in 0..Cardinality(Obj)] ==
            IF n = 0 THEN head[l]
            ELSE IF at[n - 1] \in DOMAIN mem THEN mem[at[n - 1]].next ELSE Null
    IN  [i \in 1..Cardinality({n \in 0..Cardinality(Obj) : at[n] # Null}) |-> at[i - 1]]

-----------------------------------------------------------------------------
(* Registration and destruction. *)

InCallback == pc \in {"in pre", "in post"}
Idle == pc = "idle" /\ ~dying

\* addNotifyObjPre and addNotifyObjPost.
AddNotifyObj(o, l) ==
    /\ mem' = [x \in DOMAIN mem \union {o} |->
                  IF x = o THEN [next |-> head[l], prev |-> HeadOf(l)]
                  ELSE IF x = head[l] THEN [mem[x] EXCEPT !.prev = NextOf(o)]
                  ELSE mem[x]]
    /\ head' = [head EXCEPT ![l] = o]

Create(o, l) ==
    /\ Idle \/ InCallback
    /\ ~Exists(o)
    /\ AddNotifyObj(o, l)
    /\ UNCHANGED <<level, pc, cur, next, dying, due, called, wild>>

\* ~ContextNotifyObj: *d_ppCNOprev = d_pCNOnext reaches the context or another
\* object, which must still be there.
Unlink(o) ==
    LET me == mem[o] IN
    /\ mem' = [x \in DOMAIN mem \ {o} |->
                  IF x = me.next THEN [mem[x] EXCEPT !.prev = me.prev]
                  ELSE IF me.prev = NextOf(x) THEN [mem[x] EXCEPT !.next = me.next]
                  ELSE mem[x]]
    /\ head' = IF me.prev \in {HeadOf(l) : l \in Lists} /\ pc # "gone"
               THEN [head EXCEPT ![me.prev[2]] = me.next] ELSE head
    /\ wild' = (wild \/ me.next \notin DOMAIN mem \union {Null}
                     \/ me.prev \notin {Nowhere} \union {NextOf(x) : x \in DOMAIN mem}
                           \union (IF pc = "gone" THEN {} ELSE {HeadOf(l) : l \in Lists}))

\* From outside any callback, also after the context is gone.
Delete(o) ==
    /\ Idle \/ pc = "gone"
    /\ Exists(o)
    /\ Unlink(o)
    /\ UNCHANGED <<level, pc, cur, next, dying, due, called>>

\* From within the object's own callback.
DeleteSelf ==
    /\ InCallback /\ Exists(cur) /\ Last(called) = cur
    /\ Unlink(cur)
    /\ UNCHANGED <<level, pc, cur, next, dying, due, called>>

-----------------------------------------------------------------------------
(* Push and pop. *)

Push ==
    /\ Idle /\ level < MaxLevel
    /\ level' = level + 1
    /\ UNCHANGED <<head, mem, pc, cur, next, dying, due, called, wild>>

BeginLoop(l) ==
    /\ pc' = l
    /\ cur' = head[l]
    /\ due' = Walk(l)
    /\ called' = <<>>
    /\ UNCHANGED next

Pop ==
    /\ pc = "idle" /\ level > 0
    /\ BeginLoop("pre")
    /\ UNCHANGED <<level, head, mem, dying, wild>>

\* Store the next pointer first, then call back.
Notify(l) ==
    /\ pc = l /\ cur # Null
    /\ next' = mem[cur].next
    /\ called' = Append(called, cur)
    /\ pc' = IF l = "pre" THEN "in pre" ELSE "in post"
    /\ UNCHANGED <<level, head, mem, cur, dying, due, wild>>

\* A variant: the next pointer is read after the callback, where it may be gone.
ReturnRereads(l) ==
    /\ pc = (IF l = "pre" THEN "in pre" ELSE "in post")
    /\ cur' = IF Exists(cur) THEN mem[cur].next ELSE Null
    /\ pc' = l
    /\ UNCHANGED <<level, head, mem, next, dying, due, called, wild>>

Return(l) ==
    /\ pc = (IF l = "pre" THEN "in pre" ELSE "in post")
    /\ cur' = next
    /\ pc' = l
    /\ UNCHANGED <<level, head, mem, next, dying, due, called, wild>>

\* A variant: the scope is destroyed but stays in the list that gives the level.
RestoreScopeKeepsLevel ==
    /\ pc = "pre" /\ cur = Null
    /\ BeginLoop("post")
    /\ UNCHANGED <<level, head, mem, dying, wild>>

\* The scope is deleted and its region popped between the two loops.
RestoreScope ==
    /\ pc = "pre" /\ cur = Null
    /\ level' = level - 1
    /\ BeginLoop("post")
    /\ UNCHANGED <<head, mem, dying, wild>>

EndPop ==
    /\ pc = "post" /\ cur = Null
    /\ pc' = "idle"
    /\ due' = <<>> /\ called' = <<>> /\ next' = Null
    /\ UNCHANGED <<level, head, mem, cur, dying, wild>>

-----------------------------------------------------------------------------
(* ~Context: pop to level 0, then empty both lists. *)

StartDestroy ==
    /\ Idle
    /\ dying' = TRUE
    /\ UNCHANGED <<level, head, mem, pc, cur, next, due, called, wild>>

\* A variant: the objects still registered keep their pointers into the context.
FinishDestroyDangling ==
    /\ pc = "idle" /\ dying /\ level = 0
    /\ pc' = "gone"
    /\ head' = [l \in Lists |-> Null]
    /\ UNCHANGED <<level, mem, cur, next, dying, due, called, wild>>

FinishDestroy ==
    /\ pc = "idle" /\ dying /\ level = 0
    /\ pc' = "gone"
    /\ mem' = [o \in DOMAIN mem |->
                  IF o \in ToSet(Walk("pre")) \union ToSet(Walk("post"))
                  THEN [next |-> Null, prev |-> Nowhere] ELSE mem[o]]
    /\ head' = [l \in Lists |-> Null]
    /\ UNCHANGED <<level, cur, next, dying, due, called, wild>>

Next ==
    \/ \E o \in Obj, l \in Lists : Create(o, l)
    \/ \E o \in Obj : Delete(o)
    \/ DeleteSelf
    \/ Push
    \/ Pop
    \/ \E l \in Lists : Notify(l) \/ Return(l)
    \/ RestoreScope
    \/ EndPop
    \/ StartDestroy
    \/ FinishDestroy

Spec == Init /\ [][Next]_vars

\* The thread that pops finishes its pop, for loops and callbacks return, and the
\* one that destroys the context pops on until no level is left.
Unwind ==
    \/ RestoreScope \/ EndPop
    \/ \E l \in Lists : Notify(l) \/ Return(l)
    \/ dying /\ (Pop \/ FinishDestroy)

FairSpec == Spec /\ WF_vars(Unwind)

-----------------------------------------------------------------------------
\* Every variable has its type.
TypeOK ==
    /\ level \in 0..MaxLevel
    /\ head \in [Lists -> Obj \union {Null}]
    /\ DOMAIN mem \subseteq Obj
    /\ \A o \in DOMAIN mem : mem[o].next \in Obj \union {Null}
    /\ pc \in {"idle", "pre", "in pre", "post", "in post", "gone"}
    /\ cur \in Obj \union {Null} /\ next \in Obj \union {Null}
    /\ dying \in BOOLEAN /\ wild \in BOOLEAN

\* As long as the context exists, each object is on exactly one of its lists,
\* and the back pointer of each list member leads to the pointer that leads to it,
\* so that a destructor unlinks in place wherever the object is.  It writes only
\* to objects and a context that exist, whichever of them are destroyed first.
ListsIntact ==
    /\ TypeOK
    /\ ~wild
    /\ pc # "gone" =>
        /\ ToSet(Walk("pre")) \union ToSet(Walk("post")) = DOMAIN mem
        /\ Len(Walk("pre")) + Len(Walk("post")) = Cardinality(DOMAIN mem)
        /\ \A l \in Lists : \A i \in DOMAIN Walk(l) :
              mem[Walk(l)[i]].prev = IF i = 1 THEN HeadOf(l) ELSE NextOf(Walk(l)[i - 1])

\* A pop calls back every object that was registered when its loop began, each
\* once, the latest registered first, and none that registered during the loop:
\* whatever objects leave or join from within the callbacks.
NotifiedOnceInOrder ==
    /\ pc \in {"pre", "in pre", "post", "in post"} => IsPrefix(called, due)
    /\ pc \in Lists /\ cur = Null => called = due

\* A pop that has begun ends, and so does ~Context, which pops level by level:
\* whatever the callbacks add to the lists and remove from them meanwhile.
PopEnds ==
    /\ pc \in Lists ~> pc = "idle"
    /\ dying ~> pc = "gone"
=============================================================================
