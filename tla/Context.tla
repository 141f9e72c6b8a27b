------------------------------ MODULE Context ------------------------------
(***************************************************************************)
(* src/context/context.{h,cpp} down to the pointers: a Context is a stack  *)
(* of Scopes; a Scope heads a doubly-linked list of the ContextObj that    *)
(* were last modified in it; a ContextObj keeps a chain of saved copies,   *)
(* each of which has taken the object's place in the list of the scope the *)
(* object was moved from.  A pop walks the list of the dying scope and     *)
(* puts every object back where its saved copy stands.                     *)
(*                                                                         *)
(* Memory.  A node is an object or a saved copy.  <<o, 0>> is the object   *)
(* o itself, on the heap; <<o, r>> with r > 0 is the copy of o that        *)
(* save() allocated in region r of the ContextMemoryManager.  An object is *)
(* saved at most once per region (makeCurrent), so the name is unique.     *)
(* The cell that d_ppContextObjPrev points to is the d_pContextObjNext     *)
(* field of a node or the d_pContextObjList field of a scope; the list     *)
(* head of scope l is the "next" field of the pseudo node <<Head, l>>.     *)
(*                                                                         *)
(* The objects are of two kinds, distinguished by what the oldest version  *)
(* holds: a CDO holds Default, an element of a CDHashMap holds Absent      *)
(* (its d_map is still null when the constructor calls makeCurrent).       *)
(***************************************************************************)
EXTENDS Naturals, FiniteSets

CONSTANTS
  Obj,        \* addresses of context-dependent objects
  Data,       \* values they hold
  Default,    \* T()
  Absent,     \* the null d_map of an element's oldest version
  Head,       \* tag of the list heads
  Nil,        \* nullptr
  MaxLevel    \* bound on d_scopeList.size() - 1

ASSUME ContextAssumption ==
  /\ Default \in Data
  /\ Absent \notin Data
  /\ Head \notin Obj
  /\ MaxLevel \in Nat
  /\ Nil \notin (Obj \cup {Head}) \X (0..MaxLevel)
  /\ Nil \notin Obj

VARIABLES
  level,      \* d_scopeList.size() - 1
  goal,       \* the level popto() unwinds to
  cmm,        \* number of regions pushed on d_pCMM
  mem,        \* the fields of all nodes and scopes
  garbage,    \* d_garbage of the scope being deleted
  target,     \* the object inside ContextObj::destroy(), or Nil
  pc          \* "run", or the loop of Scope::~Scope() that is executing

vars == <<level, goal, cmm, mem, garbage, target, pc>>

Level == 0..MaxLevel
Node == Obj \X Level
Live(o) == <<o, 0>>
Scope(l) == <<Head, l>>
Cell == (Obj \cup {Head}) \X Level

Memory ==
  [next    : [Cell -> Node \cup {Nil}],      \* d_pContextObjNext, d_pContextObjList
   prev    : [Node -> Cell \cup {Nil}],      \* d_ppContextObjPrev
   scope   : [Node -> Level],                \* d_pScope
   restore : [Node -> Node \cup {Nil}],      \* d_pContextObjRestore
   data    : [Node -> Data \cup {Absent}]]   \* d_data

\* The nodes whose lifetime has begun and not ended: they are in some list.
InUse(m) == {n \in Node : m.prev[n] # Nil}

\* The type invariant: every pointer field holds a node or null, every scope has
\* a list, and the level never goes below 0.
TypeOK ==
  /\ level \in Level
  /\ goal \in 0..level
  /\ cmm \in Level
  /\ mem \in Memory
  /\ garbage \subseteq Obj
  /\ target \in Obj \cup {Nil}
  /\ pc \in {"run", "restore", "collect"}

Init ==
  /\ level = 0
  /\ goal = 0
  /\ cmm = 0
  /\ mem = [next    |-> [c \in Cell |-> Nil],
            prev    |-> [n \in Node |-> Nil],
            scope   |-> [n \in Node |-> 0],
            restore |-> [n \in Node |-> Nil],
            data    |-> [n \in Node |-> Absent]]
  /\ garbage = {}
  /\ target = Nil
  /\ pc = "run"

-----------------------------------------------------------------------------
(* The pointer operations, as functions of the memory.                     *)

\* A variant that forgets to redirect the "prev" of the former first node.
AddToChainOneWay(m, n, l) ==
  [m EXCEPT
     !.next = [@ EXCEPT ![n] = m.next[Scope(l)], ![Scope(l)] = n],
     !.prev[n] = Scope(l)]

\* Scope::addToChain: n becomes the first node of the list of scope l.
AddToChain(m, n, l) ==
  LET first == m.next[Scope(l)] IN
  [m EXCEPT
     !.next = [@ EXCEPT ![n] = first, ![Scope(l)] = n],
     !.prev = [k \in Node |-> IF k = n THEN Scope(l)
                              ELSE IF k = first THEN n ELSE m.prev[k]]]

\* ContextObj::ContextObj: a new object starts in the bottom scope.
Construct(m, o, base) ==
  AddToChain([m EXCEPT !.scope[Live(o)] = 0,
                       !.restore[Live(o)] = Nil,
                       !.data[Live(o)] = base],
             Live(o), 0)

\* ContextObj::update, first half: save() copies the object into region r and
\* the copy takes the object's place in the scope the object is moved from.
SaveInPlace(m, o, r) ==
  LET x == Live(o)
      s == <<o, r>> IN
  [next    |-> [m.next EXCEPT ![s] = m.next[x], ![m.prev[x]] = s],
   prev    |-> [k \in Node |-> IF k = s THEN m.prev[x]
                               ELSE IF k = m.next[x] THEN s ELSE m.prev[k]],
   scope   |-> [m.scope EXCEPT ![s] = m.scope[x]],
   restore |-> [m.restore EXCEPT ![s] = m.restore[x]],
   data    |-> [m.data EXCEPT ![s] = m.data[x]]]

\* ContextObj::update
Update(m, o, top, r) ==
  LET saved == SaveInPlace(m, o, r) IN
  AddToChain([saved EXCEPT !.scope[Live(o)] = top,
                           !.restore[Live(o)] = <<o, r>>],
             Live(o), top)

\* A variant that saves an object only the first time it is modified.
MakeCurrentOnce(m, o, top, r) ==
  IF m.scope[Live(o)] # 0 \/ top = 0 THEN m ELSE Update(m, o, top, r)

\* ContextObj::makeCurrent
MakeCurrent(m, o, top, r) ==
  IF m.scope[Live(o)] = top THEN m ELSE Update(m, o, top, r)

\* ContextObj::restoreAndContinue with a restore pointer that is not null: the
\* object takes the place of its saved copy p, whose lifetime ends.
RestoreAndContinue(m, o) ==
  LET x == Live(o)
      p == m.restore[x] IN
  [next    |-> [m.next EXCEPT ![x] = m.next[p], ![m.prev[p]] = x, ![p] = Nil],
   prev    |-> [k \in Node |-> IF k = x THEN m.prev[p]
                               ELSE IF k = p THEN Nil
                               ELSE IF k = m.next[p] THEN x ELSE m.prev[k]],
   scope   |-> [m.scope EXCEPT ![x] = m.scope[p], ![p] = 0],
   restore |-> [m.restore EXCEPT ![x] = m.restore[p], ![p] = Nil],
   data    |-> [m.data EXCEPT ![x] = IF m.data[p] = Absent THEN m.data[x]
                                     ELSE m.data[p],
                              ![p] = Absent]]

\* One turn of the first loop of Scope::~Scope for the scope of level l.
RestoreFirst(m, l) ==
  LET x == m.next[Scope(l)] IN
  [RestoreAndContinue(m, x[1]) EXCEPT !.next[Scope(l)] = m.next[x]]

\* First half of one turn of the loop of ContextObj::destroy.
Unlink(m, o) ==
  LET x == Live(o) IN
  [m EXCEPT
     !.next = [@ EXCEPT ![m.prev[x]] = m.next[x]],
     !.prev = [k \in Node |-> IF k = m.next[x] THEN m.prev[x] ELSE m.prev[k]]]

\* The object is gone.
Release(m, o) ==
  LET x == Live(o) IN
  [m EXCEPT !.next[x] = Nil, !.prev[x] = Nil, !.scope[x] = 0,
            !.restore[x] = Nil, !.data[x] = Absent]

-----------------------------------------------------------------------------
Idle == pc = "run" /\ target = Nil /\ goal = level

\* CDO(Context*): the object holds T() at every level.
CreateCDO(o) ==
  /\ Idle
  /\ Live(o) \notin InUse(mem)
  /\ mem' = Construct(mem, o, Default)
  /\ UNCHANGED <<level, goal, cmm, garbage, target, pc>>

\* CDO(Context*, const T&) and the constructor of CDOhash_map: construct, make
\* current, assign.  The oldest version holds T(), or a null d_map.
CreateWith(o, base, v) ==
  /\ Idle
  /\ Live(o) \notin InUse(mem)
  /\ LET m == MakeCurrent(Construct(mem, o, base), o, level, cmm)
     IN  mem' = [m EXCEPT !.data[Live(o)] = v]
  /\ UNCHANGED <<level, goal, cmm, garbage, target, pc>>

\* CDO::set and CDOhash_map::set
Set(o, v) ==
  /\ Idle
  /\ Live(o) \in InUse(mem)
  /\ LET m == MakeCurrent(mem, o, level, cmm)
     IN  mem' = [m EXCEPT !.data[Live(o)] = v]
  /\ UNCHANGED <<level, goal, cmm, garbage, target, pc>>

\* The destructor of a CDO, or deleteSelf() on an element: enter destroy().
StartDestroy(o) ==
  /\ Idle
  /\ Live(o) \in InUse(mem)
  /\ target' = o
  /\ UNCHANGED <<level, goal, cmm, mem, garbage, pc>>

\* One turn of the loop of ContextObj::destroy: leave the list, and either
\* stop at the oldest version or step back to the version before.
DestroyStep ==
  /\ target # Nil
  /\ LET m == Unlink(mem, target) IN
       \/ /\ m.restore[Live(target)] = Nil
          /\ mem' = Release(m, target)
          /\ target' = Nil
       \/ /\ m.restore[Live(target)] # Nil
          /\ mem' = RestoreAndContinue(m, target)
          /\ UNCHANGED target
  /\ UNCHANGED <<level, goal, cmm, garbage, pc>>

\* Context::push: a new region and a new Scope with an empty list.
Push ==
  /\ Idle
  /\ level < MaxLevel
  /\ level' = level + 1
  /\ goal' = level + 1
  /\ cmm' = cmm + 1
  /\ mem' = [mem EXCEPT !.next[Scope(level + 1)] = Nil]
  /\ UNCHANGED <<garbage, target, pc>>

\* Context::popto; Context::pop is popto(level - 1).
Popto(toLevel) ==
  /\ Idle
  /\ toLevel < level
  /\ goal' = toLevel
  /\ UNCHANGED <<level, cmm, mem, garbage, target, pc>>

\* A variant of the loop of popto() with "<=" for "<".
PopScopeTooFar ==
  /\ pc = "run" /\ target = Nil
  /\ goal <= level
  /\ level' = level - 1
  /\ pc' = "restore"
  /\ UNCHANGED <<goal, cmm, mem, garbage, target>>

\* Context::pop up to the deletion of the scope: the scope leaves d_scopeList
\* before its objects are restored.
PopScope ==
  /\ pc = "run" /\ target = Nil
  /\ goal < level
  /\ level' = level - 1
  /\ pc' = "restore"
  /\ UNCHANGED <<goal, cmm, mem, garbage, target>>

\* A variant that does not move on to the next node of the list.
RestoreStepInPlace ==
  /\ pc = "restore"
  /\ mem.next[Scope(cmm)] # Nil
  /\ LET x == mem.next[Scope(cmm)] IN
       mem' = IF mem.restore[x] = Nil THEN mem ELSE RestoreAndContinue(mem, x[1])
  /\ UNCHANGED <<level, goal, cmm, garbage, target, pc>>

\* Scope::~Scope, first loop: restore the first object of the list.  An
\* element restored to the version with a null d_map enqueues itself.
RestoreStep ==
  /\ pc = "restore"
  /\ LET x == mem.next[Scope(cmm)] IN
       /\ x # Nil
       /\ mem' = RestoreFirst(mem, cmm)
       /\ garbage' = IF mem.data[mem.restore[x]] = Absent
                     THEN garbage \cup {x[1]} ELSE garbage
  /\ UNCHANGED <<level, goal, cmm, target, pc>>

\* A variant of the first loop that may stop before the list is empty.
RestoreDoneEarly ==
  /\ pc = "restore"
  /\ pc' = "collect"
  /\ UNCHANGED <<level, goal, cmm, mem, garbage, target>>

\* Scope::~Scope, between the two loops.
RestoreDone ==
  /\ pc = "restore"
  /\ mem.next[Scope(cmm)] = Nil
  /\ pc' = "collect"
  /\ UNCHANGED <<level, goal, cmm, mem, garbage, target>>

\* Scope::~Scope, second loop: deleteSelf() on the enqueued elements.
Collect(o) ==
  /\ pc = "collect" /\ target = Nil
  /\ o \in garbage
  /\ garbage' = garbage \ {o}
  /\ target' = o
  /\ UNCHANGED <<level, goal, cmm, mem, pc>>

\* The rest of Context::pop: release the region of the deleted scope.
PopRegion ==
  /\ pc = "collect" /\ target = Nil
  /\ garbage = {}
  /\ cmm' = cmm - 1
  /\ pc' = "run"
  /\ UNCHANGED <<level, goal, mem, garbage, target>>

\* The statements of pop() and destroy() that follow one another without
\* giving control back to the client.
Unwind ==
  \/ PopScope
  \/ RestoreStep
  \/ RestoreDone
  \/ \E o \in Obj : Collect(o)
  \/ PopRegion
  \/ DestroyStep

Next ==
  \/ \E o \in Obj : CreateCDO(o) \/ StartDestroy(o)
  \/ \E o \in Obj, v \in Data :
       \/ CreateWith(o, Default, v)
       \/ CreateWith(o, Absent, v)
       \/ Set(o, v)
  \/ Push
  \/ \E l \in Level : Popto(l)
  \/ Unwind

Spec == Init /\ [][Next]_vars

\* Once begun, pop() and destroy() run to their end.
FairSpec == Spec /\ WF_vars(Unwind)

-----------------------------------------------------------------------------
(* Properties.                                                             *)

\* The assertions of operator<<(ostream&, const Scope&): a node of the list of
\* a scope belongs to that scope, and "prev" of the next node is the "next"
\* field of this one.  They hold for every scope still in d_scopeList; in the
\* scope that ~Scope() is emptying the first node keeps a stale "prev".
WellLinked ==
  /\ \A n \in InUse(mem) :
       /\ mem.next[n] # Nil => /\ mem.scope[mem.next[n]] = mem.scope[n]
                               /\ mem.prev[mem.next[n]] = n
       /\ mem.scope[n] <= level => mem.next[mem.prev[n]] = n
  /\ \A l \in 0..level :
       LET first == mem.next[Scope(l)] IN
       first # Nil => mem.scope[first] = l /\ mem.prev[first] = Scope(l)

\* No pointer leads to a node whose lifetime has ended or to memory of a region
\* that ContextMemoryManager::pop has released, whatever sequence of updates,
\* pops and destructions came before.  In particular every copy saved in a
\* region is consumed before Context::pop releases the region.
NoDangling ==
  LET used == InUse(mem) IN
  /\ \A n \in used :
       /\ n[2] <= cmm
       /\ mem.next[n] \in used \cup {Nil}
       /\ mem.prev[n] \in used \cup {Scope(l) : l \in 0..cmm}
       /\ mem.restore[n] \in used \cup {Nil}
  /\ \A l \in 0..cmm : mem.next[Scope(l)] \in used \cup {Nil}

\* The value of o in force at level l: the oldest copy saved above l holds what
\* o was when it was first modified above l; if there is none, o itself does.
ValueAt(m, o, l) ==
  LET later == {r \in Level : r > l /\ <<o, r>> \in InUse(m)} IN
  IF later = {} THEN m.data[Live(o)]
  ELSE m.data[<<o, CHOOSE r \in later : \A k \in later : r <= k>>]

\* What a client sees: nothing of an object under destruction or awaiting it.
Visible(o, l) ==
  IF o = target \/ o \in garbage \/ Live(o) \notin InUse(mem) THEN Absent
  ELSE ValueAt(mem, o, l)

Store == INSTANCE BacktrackStore WITH
           snap <- [l \in 0..level |-> [o \in Obj |-> Visible(o, l)]]

\* The chains of saved copies implement whole-state snapshots: every Set,
\* construction and destruction acts on the current level only, every pop
\* brings back exactly what the matching push left, however the objects were
\* created, modified and destroyed in between.
ImplementsStore == Store!Spec

\* A pop always comes to its end: the lists ~Scope() walks are acyclic and the
\* chains destroy() walks are finite.
UnwindTerminates == (goal < level \/ pc # "run" \/ target # Nil) ~> Idle
=============================================================================
