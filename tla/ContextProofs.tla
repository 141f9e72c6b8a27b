---------------------------- MODULE ContextProofs ----------------------------
EXTENDS Context, TLAPS, WellFoundedInduction

(***************************************************************************)
(* The inductive invariant.  lv is the number of the top scope, rg the     *)
(* number of memory regions; rg = lv + 1 while a scope is being deleted.   *)
(***************************************************************************)

\* A node and its successor are in the same list and point at each other.
Forward(m, rg) ==
  \A n \in InUse(m) :
    /\ m.scope[n] <= rg
    /\ m.next[n] # Nil => /\ m.next[n] \in InUse(m)
                          /\ m.scope[m.next[n]] = m.scope[n]
                          /\ m.prev[m.next[n]] = n

\* Every node in use is in the list of its scope: its predecessor, or the head
\* of the list, points at it.
Backward(m) ==
  \A n \in InUse(m) :
    \/ /\ m.prev[n] \in InUse(m)
       /\ m.scope[m.prev[n]] = m.scope[n]
       /\ m.next[m.prev[n]] = n
    \/ m.next[Scope(m.scope[n])] = n

\* The head of a list points at a node of that list, and that node back at the
\* head.  In the list of a scope being deleted the "prev" of the first node is
\* stale: it leads to a node that was restored to an older scope before.
Headed(m, lv, rg) ==
  \A l \in 0..rg :
    m.next[Scope(l)] # Nil =>
      /\ m.next[Scope(l)] \in InUse(m)
      /\ m.scope[m.next[Scope(l)]] = l
      /\ \/ m.prev[m.next[Scope(l)]] = Scope(l)
         \/ /\ lv < l
            /\ m.prev[m.next[Scope(l)]] \in InUse(m)
            /\ m.scope[m.prev[m.next[Scope(l)]]] <= lv

Linked(m, lv, rg) == Forward(m, rg) /\ Backward(m) /\ Headed(m, lv, rg)

\* The copies of an object form a chain from the object down to the bottom
\* scope, one copy per scope the object was modified in, each in the region of
\* that scope and linked into the list of the scope before.
Chained(m, rg) ==
  \A n \in InUse(m) :
    /\ n[2] <= rg
    /\ Live(n[1]) \in InUse(m)
    /\ n[2] > 0 => m.scope[n] < n[2] /\ n[2] <= m.scope[Live(n[1])]
    /\ m.scope[n] = 0 => m.restore[n] = Nil
    /\ m.scope[n] > 0 => /\ m.restore[n] = <<n[1], m.scope[n]>>
                         /\ m.restore[n] \in InUse(m)
    /\ \A k \in InUse(m) :
         k[1] = n[1] /\ 0 < n[2] /\ n[2] < k[2] => n[2] <= m.scope[k]

\* Only the oldest version of an element has a null d_map.
Valued(m) ==
  \A n \in InUse(m) : m.data[n] = Absent => n[2] > 0 /\ m.scope[n] = 0

\* No list is cyclic: some numbering of the nodes decreases along "next".
Sorted(m) ==
  \E b \in Nat : \E rank \in [Node -> 0..b] :
    \A n \in InUse(m) : m.next[n] # Nil => rank[m.next[n]] < rank[n]

\* What the program counter says about the rest.
Control ==
  /\ pc = "run" => cmm = level /\ garbage = {}
  /\ pc # "run" => cmm = level + 1
  /\ pc = "restore" => target = Nil
  /\ pc = "collect" => \A n \in InUse(mem) : mem.scope[n] <= level
  /\ target # Nil => Live(target) \in InUse(mem) /\ target \notin garbage
  /\ \A o \in garbage : Live(o) \in InUse(mem) /\ mem.scope[Live(o)] = 0

IInv ==
  /\ TypeOK
  /\ Linked(mem, level, cmm)
  /\ Chained(mem, cmm)
  /\ Valued(mem)
  /\ Sorted(mem)
  /\ Control

-----------------------------------------------------------------------------
USE ContextAssumption

\* Cells, nodes, list heads and levels: which names are of which sort.
LEMMA CellFacts ==
  /\ Node \subseteq Cell
  /\ \A l \in Level : Scope(l) \in Cell /\ Scope(l) \notin Node
  /\ \A o \in Obj : Live(o) \in Node
  /\ \A o \in Obj, r \in Level : <<o, r>> \in Node
  /\ Nil \notin Cell /\ Nil \notin Node
  /\ 0 \in Level
  /\ \A n \in Node : n[1] \in Obj /\ n[2] \in Level /\ n = <<n[1], n[2]>>
  /\ Level \subseteq Nat
BY DEF Node, Cell, Level, Scope, Live

\* Different scopes have different list heads.
LEMMA HeadFacts ==
  \A k, l \in Level : Scope(k) = Scope(l) => k = l
BY DEF Scope

\* A node is determined by its object and its region.
LEMMA NameFacts ==
  \A n, k \in Node : n[1] = k[1] /\ n[2] = k[2] => n = k
BY DEF Node

\* The fields of a memory are functions of the types Memory gives them.
LEMMA MemoryFields ==
  ASSUME NEW m \in Memory
  PROVE  /\ m.next \in [Cell -> Node \cup {Nil}]
         /\ m.prev \in [Node -> Cell \cup {Nil}]
         /\ m.scope \in [Node -> Level]
         /\ m.restore \in [Node -> Node \cup {Nil}]
         /\ m.data \in [Node -> Data \cup {Absent}]
BY DEF Memory

\* What Scope::addToChain writes, field by field.
LEMMA AddToChainFields ==
  ASSUME NEW m \in Memory, NEW n \in Node, NEW l \in Level,
         NEW r, r = AddToChain(m, n, l)
  PROVE  /\ r \in Memory
         /\ r.next = [m.next EXCEPT ![n] = m.next[Scope(l)], ![Scope(l)] = n]
         /\ r.prev = [k \in Node |-> IF k = n THEN Scope(l)
                              ELSE IF k = m.next[Scope(l)] THEN n ELSE m.prev[k]]
         /\ r.scope = m.scope
         /\ r.restore = m.restore
         /\ r.data = m.data
BY CellFacts DEF AddToChain, Memory

\* What the constructor of ContextObj writes, field by field.
LEMMA ConstructFields ==
  ASSUME NEW m \in Memory, NEW o \in Obj, NEW base \in Data \cup {Absent},
         NEW r, r = Construct(m, o, base)
  PROVE  /\ r \in Memory
         /\ r.next = [m.next EXCEPT ![Live(o)] = m.next[Scope(0)],
                                    ![Scope(0)] = Live(o)]
         /\ r.prev = [k \in Node |->
                         IF k = Live(o) THEN Scope(0)
                         ELSE IF k = m.next[Scope(0)] THEN Live(o) ELSE m.prev[k]]
         /\ r.scope = [m.scope EXCEPT ![Live(o)] = 0]
         /\ r.restore = [m.restore EXCEPT ![Live(o)] = Nil]
         /\ r.data = [m.data EXCEPT ![Live(o)] = base]
<1> DEFINE q == [m EXCEPT !.scope[Live(o)] = 0, !.restore[Live(o)] = Nil,
                          !.data[Live(o)] = base]
<1>0. q \in Memory /\ Live(o) \in Node /\ 0 \in Level
  BY CellFacts DEF Memory
<1>1. /\ q.next = m.next /\ q.prev = m.prev
      /\ q.scope = [m.scope EXCEPT ![Live(o)] = 0]
      /\ q.restore = [m.restore EXCEPT ![Live(o)] = Nil]
      /\ q.data = [m.data EXCEPT ![Live(o)] = base]
  BY CellFacts DEF Memory
<1>2. r = AddToChain(q, Live(o), 0)
  BY DEF Construct
<1> HIDE DEF q
<1>3. /\ r \in Memory
      /\ r.next = [q.next EXCEPT ![Live(o)] = q.next[Scope(0)],
                                 ![Scope(0)] = Live(o)]
      /\ r.prev = [k \in Node |->
                      IF k = Live(o) THEN Scope(0)
                      ELSE IF k = q.next[Scope(0)] THEN Live(o) ELSE q.prev[k]]
      /\ r.scope = q.scope /\ r.restore = q.restore /\ r.data = q.data
  BY <1>0, <1>2, AddToChainFields
<1> QED
  BY <1>1, <1>3

\* The constructor puts the object, and nothing else, into the bottom scope.
LEMMA ConstructKeeps ==
  ASSUME NEW m \in Memory, NEW o \in Obj, NEW base \in Data \cup {Absent},
         NEW lv \in Level,
         Linked(m, lv, lv), Chained(m, lv), Sorted(m),
         Live(o) \notin InUse(m),
         NEW r, r = Construct(m, o, base)
  PROVE  /\ r \in Memory
         /\ InUse(r) = InUse(m) \cup {Live(o)}
         /\ r.scope = [m.scope EXCEPT ![Live(o)] = 0]
         /\ r.data = [m.data EXCEPT ![Live(o)] = base]
         /\ Linked(r, lv, lv) /\ Chained(r, lv) /\ Sorted(r)
<1> DEFINE first == m.next[Scope(0)]
<1>f. /\ r \in Memory
      /\ r.next = [m.next EXCEPT ![Live(o)] = first, ![Scope(0)] = Live(o)]
      /\ r.prev = [k \in Node |-> IF k = Live(o) THEN Scope(0)
                           ELSE IF k = first THEN Live(o) ELSE m.prev[k]]
      /\ r.scope = [m.scope EXCEPT ![Live(o)] = 0]
      /\ r.restore = [m.restore EXCEPT ![Live(o)] = Nil]
      /\ r.data = [m.data EXCEPT ![Live(o)] = base]
  BY ConstructFields
<1>m. /\ m.next \in [Cell -> Node \cup {Nil}]
      /\ m.prev \in [Node -> Cell \cup {Nil}]
      /\ m.scope \in [Node -> Level]
      /\ m.restore \in [Node -> Node \cup {Nil}]
  BY MemoryFields
<1>h. first # Nil => /\ first \in InUse(m) /\ m.scope[first] = 0 
                     /\ m.prev[first] = Scope(0)
  BY CellFacts DEF Linked, Headed, Level
<1>1. InUse(r) = InUse(m) \cup {Live(o)}
  BY <1>f, <1>m, <1>h, CellFacts DEF InUse
<1>2. Forward(r, lv)
  BY SMTT(30), <1>f, <1>m, <1>h, <1>1, CellFacts DEF Linked, Forward, InUse
<1>3. Backward(r)
  BY <1>f, <1>m, <1>h, <1>1, CellFacts DEF Linked, Forward, Backward, InUse
<1>4. Headed(r, lv, lv)
  <2> SUFFICES ASSUME NEW l \in 0..lv, r.next[Scope(l)] # Nil
               PROVE  /\ r.next[Scope(l)] \in InUse(r)
                      /\ r.scope[r.next[Scope(l)]] = l
                      /\ r.prev[r.next[Scope(l)]] = Scope(l)
    BY DEF Headed
  <2>1. CASE l = 0
    BY <2>1, <1>f, <1>m, <1>1, CellFacts
  <2>2. CASE l # 0
    <3>1. l \in Level /\ Scope(l) # Scope(0)
      BY <2>2 DEF Level, Scope
    <3>2. r.next[Scope(l)] = m.next[Scope(l)]
      BY <3>1, <1>f, <1>m, CellFacts
    <3>3. /\ m.next[Scope(l)] \in InUse(m)
          /\ m.scope[m.next[Scope(l)]] = l
          /\ m.prev[m.next[Scope(l)]] = Scope(l)
      BY <3>2 DEF Linked, Headed, Level
    <3> QED
      BY <2>2, <3>2, <3>3, <1>f, <1>m, <1>h, <1>1, CellFacts DEF InUse
  <2> QED
    BY <2>1, <2>2
<1>5. Chained(r, lv)
  <2>1. \A n \in InUse(m) : /\ n[1] # o
                            /\ r.scope[n] = m.scope[n]
                            /\ r.restore[n] = m.restore[n]
    BY <1>f, <1>m, CellFacts DEF Chained, Live, InUse
  <2>2. \A n \in InUse(m) : Live(n[1]) \in InUse(m) /\ n \in Node
    BY DEF Chained, InUse
  <2>3. Live(o) \in Node /\ Live(o)[1] = o /\ Live(o)[2] = 0
    BY CellFacts DEF Live
  <2>4. r.scope[Live(o)] = 0 /\ r.restore[Live(o)] = Nil
    BY <2>3, <1>f, <1>m
  <2>5. ASSUME NEW n \in InUse(m)
        PROVE  /\ n[2] > 0 => r.scope[n] < n[2] /\ n[2] <= r.scope[Live(n[1])]
               /\ r.scope[n] = 0 => r.restore[n] = Nil
               /\ r.scope[n] > 0 => /\ r.restore[n] = <<n[1], r.scope[n]>>
                                    /\ r.restore[n] \in InUse(m)
               /\ n[2] <= lv
    BY SMTT(30), <2>1, <2>2 DEF Chained
  <2>6. ASSUME NEW n \in InUse(m), NEW k \in InUse(m)
        PROVE  k[1] = n[1] /\ 0 < n[2] /\ n[2] < k[2] => n[2] <= r.scope[k]
    BY <2>1 DEF Chained
  <2> QED
    BY <2>1, <2>2, <2>3, <2>4, <2>5, <2>6, <1>1 DEF Chained, Level
<1>6. Sorted(r)
  <2>1. PICK b \in Nat : \E rank \in [Node -> 0..b] :
          \A n \in InUse(m) : m.next[n] # Nil => rank[m.next[n]] < rank[n]
    BY DEF Sorted
  <2>2. PICK rank \in [Node -> 0..b] :
          \A n \in InUse(m) : m.next[n] # Nil => rank[m.next[n]] < rank[n]
    BY <2>1
  <2> DEFINE new == [rank EXCEPT ![Live(o)] = b + 1]
  <2>3. new \in [Node -> 0..(b + 1)] /\ b + 1 \in Nat
    BY CellFacts
  <2>4. \A n \in InUse(r) : r.next[n] # Nil => new[r.next[n]] < new[n]
    BY <2>2, <1>f, <1>m, <1>h, <1>1, CellFacts DEF Linked, Forward, InUse
  <2> QED
    BY <2>3, <2>4 DEF Sorted
<1> QED
  BY <1>f, <1>m, <1>1, <1>2, <1>3, <1>4, <1>5, <1>6, CellFacts DEF Linked

\* What ContextObj::update writes, field by field.
LEMMA UpdateFields ==
  ASSUME NEW m \in Memory, NEW o \in Obj, NEW top \in Level, NEW g \in Level,
         g > 0, Live(o) \in InUse(m), m.prev[Live(o)] # Scope(top),
         NEW r, r = Update(m, o, top, g)
  PROVE  /\ r \in Memory
         /\ \A c \in Cell :
              r.next[c] = IF c = Scope(top) THEN Live(o)
                          ELSE IF c = Live(o) THEN m.next[Scope(top)]
                          ELSE IF c = m.prev[Live(o)] THEN <<o, g>>
                          ELSE IF c = <<o, g>> THEN m.next[Live(o)]
                          ELSE m.next[c]
         /\ \A k \in Node :
              r.prev[k] = IF k = Live(o) THEN Scope(top)
                          ELSE IF k = m.next[Scope(top)] THEN Live(o)
                          ELSE IF k = <<o, g>> THEN m.prev[Live(o)]
                          ELSE IF k = m.next[Live(o)] THEN <<o, g>>
                          ELSE m.prev[k]
         /\ \A k \in Node :
              r.scope[k] = IF k = Live(o) THEN top
                           ELSE IF k = <<o, g>> THEN m.scope[Live(o)] ELSE m.scope[k]
         /\ \A k \in Node :
              r.restore[k] = IF k = Live(o) THEN <<o, g>>
                             ELSE IF k = <<o, g>> THEN m.restore[Live(o)]
                             ELSE m.restore[k]
         /\ \A k \in Node :
              r.data[k] = IF k = <<o, g>> THEN m.data[Live(o)] ELSE m.data[k]
<1> DEFINE x == Live(o)
           s == <<o, g>>
           p == SaveInPlace(m, o, g)
           q == [p EXCEPT !.scope[x] = top, !.restore[x] = s]
<1>0. x \in Node /\ s \in Node /\ x # s /\ m.prev[x] \in Cell
  BY CellFacts, MemoryFields DEF Live, InUse
<1>m. /\ m.next \in [Cell -> Node \cup {Nil}]
      /\ m.prev \in [Node -> Cell \cup {Nil}]
      /\ m.scope \in [Node -> Level]
      /\ m.restore \in [Node -> Node \cup {Nil}]
      /\ m.data \in [Node -> Data \cup {Absent}]
  BY MemoryFields
<1>1. /\ q.next = [m.next EXCEPT ![s] = m.next[x], ![m.prev[x]] = s]
      /\ q.prev = [k \in Node |-> IF k = s THEN m.prev[x]
                               ELSE IF k = m.next[x] THEN s ELSE m.prev[k]]
      /\ q.scope = [m.scope EXCEPT ![s] = m.scope[x], ![x] = top]
      /\ q.restore = [m.restore EXCEPT ![s] = m.restore[x], ![x] = s]
      /\ q.data = [m.data EXCEPT ![s] = m.data[x]]
  BY DEF SaveInPlace
<1>2. q \in Memory
  <2>1. [m.next EXCEPT ![s] = m.next[x], ![m.prev[x]] = s] \in [Cell -> Node \cup {Nil}]
    BY <1>0, <1>m, CellFacts
  <2>2. [k \in Node |-> IF k = s THEN m.prev[x] ELSE IF k = m.next[x] THEN s ELSE m.prev[k]]
          \in [Node -> Cell \cup {Nil}]
    BY <1>0, <1>m, CellFacts
  <2>3. [m.scope EXCEPT ![s] = m.scope[x]] \in [Node -> Level]
    BY <1>0, <1>m
  <2>4. [m.restore EXCEPT ![s] = m.restore[x]] \in [Node -> Node \cup {Nil}]
    BY <1>0, <1>m
  <2>5. [m.data EXCEPT ![s] = m.data[x]] \in [Node -> Data \cup {Absent}]
    BY <1>0, <1>m
  <2>6. p \in Memory
    BY <2>1, <2>2, <2>3, <2>4, <2>5 DEF SaveInPlace, Memory
  <2> HIDE DEF p
  <2> QED
    BY <2>6, <1>0 DEF Memory
<1>3. r = AddToChain(q, x, top)
  BY DEF Update
<1> HIDE DEF p, q
<1>4. /\ r \in Memory
      /\ r.next = [q.next EXCEPT ![x] = q.next[Scope(top)], ![Scope(top)] = x]
      /\ r.prev = [k \in Node |-> IF k = x THEN Scope(top)
                           ELSE IF k = q.next[Scope(top)] THEN x ELSE q.prev[k]]
      /\ r.scope = q.scope /\ r.restore = q.restore /\ r.data = q.data
  BY SMTT(30), <1>0, <1>2, <1>3, AddToChainFields
<1>5. /\ q.next[Scope(top)] = m.next[Scope(top)]
      /\ m.prev[x] # Scope(top) /\ x \in Cell /\ s \in Cell
      /\ Scope(top) \in Cell /\ Scope(top) # x /\ Scope(top) # s
  BY <1>0, <1>1, <1>m, CellFacts
<1>x. x = Live(o) /\ s = <<o, g>>
  OBVIOUS
<1> HIDE DEF x, s
<1>6. \A c \in Cell :
        r.next[c] = IF c = Scope(top) THEN x
                    ELSE IF c = x THEN m.next[Scope(top)]
                    ELSE IF c = m.prev[x] THEN s
                    ELSE IF c = s THEN m.next[x] ELSE m.next[c]
  BY <1>0, <1>1, <1>4, <1>5, <1>m
<1>7. \A k \in Node :
        r.prev[k] = IF k = x THEN Scope(top)
                    ELSE IF k = m.next[Scope(top)] THEN x
                    ELSE IF k = s THEN m.prev[x]
                    ELSE IF k = m.next[x] THEN s ELSE m.prev[k]
  BY <1>0, <1>1, <1>4, <1>5, <1>m
<1>8. \A k \in Node :
        r.scope[k] = IF k = x THEN top ELSE IF k = s THEN m.scope[x] ELSE m.scope[k]
  BY <1>0, <1>1, <1>4, <1>m
<1>9. \A k \in Node :
        r.restore[k] = IF k = x THEN s ELSE IF k = s THEN m.restore[x] ELSE m.restore[k]
  BY <1>0, <1>1, <1>4, <1>m
<1>10. \A k \in Node : r.data[k] = IF k = s THEN m.data[x] ELSE m.data[k]
  BY <1>0, <1>1, <1>4, <1>m
<1> QED
  BY SMTT(30), <1>4, <1>6, <1>7, <1>8, <1>9, <1>10, <1>x

\* A node is not its own successor.
LEMMA NotOwnNext ==
  ASSUME NEW m \in Memory, Sorted(m), NEW n \in InUse(m), m.next[n] # Nil
  PROVE  m.next[n] # n
<1>1. PICK b \in Nat : \E rank \in [Node -> 0..b] :
        \A k \in InUse(m) : m.next[k] # Nil => rank[m.next[k]] < rank[k]
  BY DEF Sorted
<1>2. PICK rank \in [Node -> 0..b] :
        \A k \in InUse(m) : m.next[k] # Nil => rank[m.next[k]] < rank[k]
  BY <1>1
<1>3. n \in Node /\ rank[n] \in Nat
  BY DEF InUse
<1> QED
  BY <1>2, <1>3

\* update() leaves every list well linked: the copy stands where the object
\* was, the object is first in the top scope.
LEMMA UpdateKeeps ==
  ASSUME NEW m \in Memory, NEW o \in Obj, NEW lv \in Level,
         Linked(m, lv, lv), Chained(m, lv), Sorted(m),
         Live(o) \in InUse(m), m.scope[Live(o)] # lv,
         NEW r, r = Update(m, o, lv, lv)
  PROVE  /\ r \in Memory
         /\ <<o, lv>> \notin InUse(m)
         /\ InUse(r) = InUse(m) \cup {<<o, lv>>}
         /\ r.scope[<<o, lv>>] = m.scope[Live(o)]
         /\ \A k \in Node :
              r.data[k] = IF k = <<o, lv>> THEN m.data[Live(o)] ELSE m.data[k]
         /\ \A k \in InUse(m) : k # Live(o) => r.scope[k] = m.scope[k]
         /\ Linked(r, lv, lv) /\ Chained(r, lv) /\ Sorted(r)
<1> DEFINE x == Live(o)
           s == <<o, lv>>
           first == m.next[Scope(lv)]
           a == m.prev[x]
           c == m.next[x]
<1>m. /\ m.next \in [Cell -> Node \cup {Nil}]
      /\ m.prev \in [Node -> Cell \cup {Nil}]
      /\ m.scope \in [Node -> Level]
      /\ m.restore \in [Node -> Node \cup {Nil}]
      /\ InUse(m) \subseteq Node
  BY MemoryFields DEF InUse
<1>1. m.scope[x] \in Level /\ m.scope[x] < lv /\ lv \in Nat
  <2>1. m.scope[x] <= lv /\ x \in Node
    BY <1>m DEF Linked, Forward
  <2>2. m.scope[x] \in Level /\ m.scope[x] # lv
    BY <2>1, <1>m
  <2> QED
    BY <2>1, <2>2 DEF Level
<1>2. s \notin InUse(m) /\ s \in Node /\ x \in Node /\ x # s
  BY <1>1, CellFacts DEF Chained, Live
<1>3. Scope(lv) \in Cell /\ Scope(lv) \notin Node /\ Scope(m.scope[x]) # Scope(lv)
  BY <1>1, CellFacts, HeadFacts
<1>h. first # Nil => /\ first \in InUse(m) /\ m.scope[first] = lv
                     /\ m.prev[first] = Scope(lv)
  BY <1>1, CellFacts DEF Linked, Headed
<1>a. /\ a # Nil /\ a # x /\ a # s /\ a # Scope(lv) /\ a \in Cell /\ m.next[a] = x
      /\ \/ a \in InUse(m) /\ m.scope[a] = m.scope[x]
         \/ a = Scope(m.scope[x]) /\ a \notin Node
  <2>1. ~(lv < m.scope[x])
    BY <1>1 DEF Level
  <2>2. \/ a \in InUse(m) /\ m.scope[a] = m.scope[x] /\ m.next[a] = x
        \/ a = Scope(m.scope[x]) /\ m.next[a] = x
    BY <2>1, <1>1, <1>2, CellFacts DEF Linked, Backward, Headed
  <2>3. CASE a \in InUse(m) /\ m.scope[a] = m.scope[x] /\ m.next[a] = x
    <3>1. a # x
      BY <2>3, <1>2, NotOwnNext, CellFacts
    <3> QED
      BY ZenonT(60), <2>3, <3>1, <1>m, <1>2, <1>3, CellFacts
  <2>4. CASE a = Scope(m.scope[x]) /\ m.next[a] = x
    BY <2>4, <1>1, <1>2, <1>3, CellFacts
  <2> QED
    BY <2>2, <2>3, <2>4
<1>c. c # Nil => /\ c \in InUse(m) /\ c # x /\ m.scope[c] = m.scope[x]
                 /\ m.prev[c] = x
  BY NotOwnNext DEF Linked, Forward
<1>f. /\ r \in Memory
      /\ \A k \in Cell :
           r.next[k] = IF k = Scope(lv) THEN x ELSE IF k = x THEN first
                       ELSE IF k = a THEN s ELSE IF k = s THEN c ELSE m.next[k]
      /\ \A k \in Node :
           r.prev[k] = IF k = x THEN Scope(lv) ELSE IF k = first THEN x
                       ELSE IF k = s THEN a ELSE IF k = c THEN s ELSE m.prev[k]
      /\ \A k \in Node :
           r.scope[k] = IF k = x THEN lv ELSE IF k = s THEN m.scope[x] ELSE m.scope[k]
      /\ \A k \in Node :
           r.restore[k] = IF k = x THEN s ELSE IF k = s THEN m.restore[x]
                          ELSE m.restore[k]
      /\ \A k \in Node : r.data[k] = IF k = s THEN m.data[x] ELSE m.data[k]
  <2>1. lv > 0
    BY <1>1 DEF Level
  <2>2. m.prev[Live(o)] # Scope(lv)
    BY <1>a
  <2> QED
    BY SMTT(30), <2>1, <2>2, UpdateFields
<1>x. x \in InUse(m) /\ x[1] = o /\ x[2] = 0 /\ s[1] = o /\ s[2] = lv
  BY DEF Live
<1> HIDE DEF x, s, first, a, c
<1>s. /\ r.scope[x] = lv /\ r.scope[s] = m.scope[x]
      /\ r.restore[x] = s /\ r.restore[s] = m.restore[x]
      /\ \A k \in Node : k # x /\ k # s => /\ r.scope[k] = m.scope[k]
                                          /\ r.restore[k] = m.restore[k]
  BY <1>f, <1>2
<1>n. /\ r.next[x] = first /\ r.next[s] = c /\ r.next[a] = s /\ r.next[Scope(lv)] = x
      /\ \A k \in Cell : k \notin {x, s, a, Scope(lv)} => r.next[k] = m.next[k]
  BY <1>f, <1>2, <1>3, <1>a, CellFacts
<1>p. /\ r.prev[x] = Scope(lv) /\ r.prev[s] = a
      /\ first # Nil => r.prev[first] = x
      /\ c # Nil => r.prev[c] = s
      /\ \A k \in Node : k \notin {x, s, first, c} => r.prev[k] = m.prev[k]
  <2>1. /\ first # Nil => first \in Node /\ first # x /\ first # s /\ first # c
        /\ first # s
    BY <1>m, <1>1, <1>2, <1>h, <1>c, CellFacts DEF Level
  <2>2. c # Nil => c \in Node /\ c # x /\ c # s
    BY <1>m, <1>2, <1>c
  <2> QED
    BY <1>f, <1>2, <2>1, <2>2
<1>4. InUse(r) = InUse(m) \cup {s}
  <2>1. \A k \in Node : k # s => (r.prev[k] # Nil <=> m.prev[k] # Nil)
    BY <1>p, <1>h, <1>c, <1>2, <1>3, <1>x, CellFacts DEF InUse
  <2>2. r.prev[s] # Nil
    BY <1>p, <1>a
  <2> QED
    BY <2>1, <2>2, <1>2 DEF InUse
<1>5. Forward(r, lv)
  <2> SUFFICES ASSUME NEW n \in InUse(r)
               PROVE  /\ r.scope[n] <= lv
                      /\ r.next[n] # Nil => /\ r.next[n] \in InUse(r)
                                            /\ r.scope[r.next[n]] = r.scope[n]
                                            /\ r.prev[r.next[n]] = n
    BY DEF Forward
  <2>1. CASE n = x
    BY <2>1, <1>4, <1>n, <1>p, <1>s, <1>h, <1>1, <1>2, <1>m
  <2>2. CASE n = s
    BY <2>2, <1>4, <1>n, <1>p, <1>s, <1>c, <1>1, <1>2, <1>m, <1>h, CellFacts
  <2>3. CASE n = a
    BY <2>3, <1>4, <1>n, <1>p, <1>s, <1>a, <1>1, <1>2, <1>m, CellFacts
  <2>4. CASE n \notin {x, s, a}
    <3>1. n \in InUse(m) /\ n \in Node /\ n # Scope(lv)
      BY <2>4, <1>4, <1>m, <1>3
    <3>2. r.next[n] = m.next[n] /\ r.scope[n] = m.scope[n] /\ m.scope[n] <= lv
      BY <3>1, <2>4, <1>n, <1>s, CellFacts DEF Linked, Forward
    <3>3. ASSUME m.next[n] # Nil
          PROVE  /\ m.next[n] \in InUse(m) /\ m.next[n] # x /\ m.next[n] # s
                 /\ m.scope[m.next[n]] = m.scope[n] /\ m.prev[m.next[n]] = n
                 /\ m.next[n] # first /\ m.next[n] # c
      BY <3>1, <3>3, <2>4, <1>2, <1>3, <1>h, <1>c DEF Linked, Forward, a
    <3> QED
      BY <3>2, <3>3, <1>4, <1>s, <1>p, <1>m
  <2> QED
    BY <2>1, <2>2, <2>3, <2>4
<1>6. Backward(r)
  <2> SUFFICES ASSUME NEW n \in InUse(r)
               PROVE  \/ /\ r.prev[n] \in InUse(r)
                         /\ r.scope[r.prev[n]] = r.scope[n]
                         /\ r.next[r.prev[n]] = n
                      \/ r.next[Scope(r.scope[n])] = n
    BY DEF Backward
  <2>1. CASE n = x
    BY <2>1, <1>n, <1>p, <1>s
  <2>2. CASE n = s
    BY <2>2, <1>4, <1>n, <1>p, <1>s, <1>a, <1>2, <1>m
  <2>3. CASE n = first
    BY <2>3, <1>4, <1>n, <1>p, <1>s, <1>h, <1>1, <1>2, <1>x, <1>m, CellFacts
  <2>4. CASE n = c
    BY <2>4, <1>4, <1>n, <1>p, <1>s, <1>c, <1>2, <1>m, CellFacts
  <2>5. CASE n \notin {x, s, first, c}
    <3>1. n \in InUse(m) /\ n \in Node /\ r.prev[n] = m.prev[n] /\ r.scope[n] = m.scope[n]
          /\ m.scope[n] \in Level
      BY <2>5, <1>4, <1>m, <1>p, <1>s
    <3>2. ~(lv < m.scope[n])
      BY <3>1, <1>1, CellFacts DEF Linked, Forward, Level
    <3>3. CASE /\ m.prev[n] \in InUse(m)
               /\ m.scope[m.prev[n]] = m.scope[n]
               /\ m.next[m.prev[n]] = n
      <4>1. m.prev[n] # a /\ m.prev[n] # x /\ m.prev[n] # s /\ m.prev[n] \in Node
        BY <3>3, <2>5, <1>a, <1>2, <1>m, CellFacts DEF c
      <4> QED
        BY <4>1, <3>1, <3>3, <1>n, <1>s, <1>3, <1>4, CellFacts
    <3>4. CASE m.next[Scope(m.scope[n])] = n
      <4>1. Scope(m.scope[n]) # a
        BY <3>4, <1>a, <2>5
      <4>2. Scope(m.scope[n]) # Scope(lv)
        BY <3>4, <2>5 DEF first
      <4> QED
        BY <4>1, <4>2, <3>1, <3>4, <1>n, <1>2, CellFacts
    <3> QED
      BY <3>1, <3>2, <3>3, <3>4 DEF Linked, Backward
  <2> QED
    BY <2>1, <2>2, <2>3, <2>4, <2>5
<1>7. Headed(r, lv, lv)
  <2> SUFFICES ASSUME NEW l \in 0..lv, r.next[Scope(l)] # Nil
               PROVE  /\ r.next[Scope(l)] \in InUse(r)
                      /\ r.scope[r.next[Scope(l)]] = l
                      /\ r.prev[r.next[Scope(l)]] = Scope(l)
    BY DEF Headed
  <2>l. l \in Level /\ Scope(l) \in Cell /\ Scope(l) \notin Node
    BY CellFacts DEF Level
  <2>1. CASE l = lv
    BY <2>1, <1>n, <1>p, <1>s, <1>4, <1>x
  <2>2. CASE Scope(l) = a
    BY ZenonT(60), <2>2, <2>l, <1>n, <1>p, <1>s, <1>4, <1>x, <1>1, <1>a, <1>m, HeadFacts
  <2>3. CASE l # lv /\ Scope(l) # a
    <3>1. r.next[Scope(l)] = m.next[Scope(l)]
      BY <2>3, <2>l, <1>n, <1>2, HeadFacts
    <3>2. /\ m.next[Scope(l)] \in InUse(m)
          /\ m.scope[m.next[Scope(l)]] = l
          /\ m.prev[m.next[Scope(l)]] = Scope(l)
      BY <3>1, <1>1 DEF Linked, Headed
    <3>3. m.next[Scope(l)] \notin {x, s, first, c}
      BY <3>1, <3>2, <2>3, <2>l, <1>2, <1>h, <1>c DEF a
    <3> QED
      BY <3>1, <3>2, <3>3, <1>m, <1>p, <1>s, <1>4
  <2> QED
    BY <2>1, <2>2, <2>3
<1>8. Chained(r, lv)
  <2>1. ASSUME NEW n \in InUse(m)
        PROVE  /\ n \in Node /\ n[2] \in Nat /\ m.scope[n] \in Nat
               /\ n[2] <= lv /\ n # s /\ Live(n[1]) \in InUse(m) /\ Live(n[1]) # s
               /\ n[1] = o => Live(n[1]) = x
               /\ n[1] = o /\ n # x => n[2] > 0
               /\ n[1] # o => Live(n[1]) # x /\ n # x
    BY <1>1, <1>2, <1>m, CellFacts DEF Chained, x, Live, Level
  <2>2. ASSUME NEW n \in InUse(r)
        PROVE  /\ n[2] <= lv
               /\ Live(n[1]) \in InUse(r)
               /\ n[2] > 0 => r.scope[n] < n[2] /\ n[2] <= r.scope[Live(n[1])]
    <3>1. CASE n = s
      BY <3>1, <1>1, <1>s, <1>x, <1>4 DEF x
    <3>2. CASE n # s
      BY <3>2, <2>1, <1>1, <1>s, <1>x, <1>4 DEF Chained
    <3> QED
      BY <3>1, <3>2
  <2>3. ASSUME NEW n \in InUse(r)
        PROVE  /\ r.scope[n] = 0 => r.restore[n] = Nil
               /\ r.scope[n] > 0 => /\ r.restore[n] = <<n[1], r.scope[n]>>
                                    /\ r.restore[n] \in InUse(r)
    <3>1. CASE n = x
      BY <3>1, <1>1, <1>s, <1>x, <1>4 DEF s, Level
    <3>2. CASE n = s
      BY <3>2, <1>s, <1>x, <1>4 DEF Chained
    <3>3. CASE n # s /\ n # x
      BY <3>3, <1>s, <1>4, <1>m DEF Chained
    <3> QED
      BY <3>1, <3>2, <3>3
  <2>4. ASSUME NEW n \in InUse(r), NEW k \in InUse(r),
               k[1] = n[1], 0 < n[2], n[2] < k[2]
        PROVE  n[2] <= r.scope[k]
    <3>1. n \in InUse(m) /\ n # x /\ n # s /\ k # x
      BY <2>1, <2>4, <1>1, <1>x, <1>4
    <3>2. CASE k = s
      BY <3>1, <3>2, <2>1, <2>4, <1>s, <1>x DEF Chained
    <3>3. CASE k # s
      BY <3>1, <3>3, <2>4, <1>s, <1>4, <1>m DEF Chained
    <3> QED
      BY <3>2, <3>3
  <2> QED
    BY <2>2, <2>3, <2>4 DEF Chained
<1>9. Sorted(r)
  <2>1. PICK b \in Nat : \E rank \in [Node -> 0..b] :
          \A n \in InUse(m) : m.next[n] # Nil => rank[m.next[n]] < rank[n]
    BY DEF Sorted
  <2>2. PICK rank \in [Node -> 0..b] :
          \A n \in InUse(m) : m.next[n] # Nil => rank[m.next[n]] < rank[n]
    BY <2>1
  <2> DEFINE new == [n \in Node |-> IF n = x THEN b + 1
                                    ELSE IF n = s THEN rank[x] ELSE rank[n]]
  <2>3. new \in [Node -> 0..(b + 1)] /\ b + 1 \in Nat
    BY <1>2
  <2>4. new[x] = b + 1 /\ new[s] = rank[x]
        /\ \A n \in Node : n # x /\ n # s => new[n] = rank[n] /\ new[n] < b + 1
    BY <1>2
  <2> HIDE DEF new
  <2>5. ASSUME NEW n \in InUse(r), r.next[n] # Nil
        PROVE  new[r.next[n]] < new[n]
    <3>1. CASE n = x
      BY <3>1, <2>4, <2>5, <1>n, <1>h, <1>m, <1>2, <1>x, <1>1, <1>s
    <3>2. CASE n = s
      BY <3>2, <2>2, <2>4, <2>5, <1>n, <1>c, <1>m, <1>2, <1>x DEF c
    <3>3. CASE n = a
      BY <3>3, <2>2, <2>4, <2>5, <1>n, <1>a, <1>m, <1>2, <1>x, <1>4, CellFacts
    <3>4. CASE n \notin {x, s, a}
      <4>1. n \in InUse(m) /\ n \in Node /\ r.next[n] = m.next[n]
        BY ZenonT(60), <3>4, <1>4, <1>m, <1>n, <1>3, CellFacts
      <4>2. m.next[n] \in InUse(m) /\ m.next[n] # x /\ m.next[n] # s
        BY <4>1, <3>4, <2>5, <1>2 DEF Linked, Forward, a
      <4> QED
        BY <4>1, <4>2, <3>4, <2>2, <2>4, <2>5, <1>m
    <3> QED
      BY <3>1, <3>2, <3>3, <3>4
  <2> QED
    BY <2>3, <2>5 DEF Sorted
<1> QED
  BY SMTT(30), <1>f, <1>m, <1>1, <1>2, <1>4, <1>5, <1>6, <1>7, <1>8, <1>9, <1>s DEF
     Linked, x, s

\* r differs from m in that x has given up its place, where cell A pointed at
\* it, and has taken the place of its saved copy p.  D is what the "prev" of the
\* former successor of x becomes.
MovedBack(m, r, x, p, A, D) ==
  /\ r.next[A] = m.next[x]
  /\ r.next[x] = m.next[p]
  /\ r.next[m.prev[p]] = x
  /\ \A k \in Cell : k \notin {A, x, m.prev[p], p} => r.next[k] = m.next[k]
  /\ r.prev[x] = m.prev[p]
  /\ r.prev[p] = Nil
  /\ m.next[p] # Nil => r.prev[m.next[p]] = x
  /\ m.next[x] # Nil => r.prev[m.next[x]] = D
  /\ \A k \in Node : k \notin {x, p, m.next[p], m.next[x]} => r.prev[k] = m.prev[k]
  /\ r.scope[x] = m.scope[p] /\ r.restore[x] = m.restore[p]
  /\ \A k \in Node : k \notin {x, p} => /\ r.scope[k] = m.scope[k]
                                       /\ r.restore[k] = m.restore[k]

\* Cell A points at node x of the list of its scope.
PointsAt(m, A, x) ==
  /\ A \in Cell
  /\ m.next[A] = x
  /\ \/ A \in InUse(m) /\ m.scope[A] = m.scope[x]
     \/ A = Scope(m.scope[x])

\* What becomes of the "prev" of the successor of x: it follows the list, except
\* in ~Scope(), which empties the list from its head and leaves it pointing at x.
LeavesPrev(m, lv, x, A, D) ==
  D = A \/ (D = x /\ A = Scope(m.scope[x]) /\ lv < m.scope[x])

\* No list of a scope being deleted starts with a node other than x.
OthersSettled(m, lv, x) ==
  \A n \in InUse(m) :
    n # x => ~(lv < m.scope[n] /\ m.next[Scope(m.scope[n])] = n)

\* RestoreFirst and the loop of destroy() both move an object back.
LEMMA MoveBackKeeps ==
  ASSUME NEW m \in Memory, NEW r \in Memory, NEW o \in Obj,
         NEW lv \in Level, NEW rg \in Level, rg <= lv + 1,
         Linked(m, lv, rg), Chained(m, rg), Sorted(m),
         NEW x, x = Live(o), x \in InUse(m), m.scope[x] > 0,
         NEW p, p = m.restore[x],
         NEW A, PointsAt(m, A, x),
         NEW D, LeavesPrev(m, lv, x, A, D), OthersSettled(m, lv, x),
         MovedBack(m, r, x, p, A, D)
  PROVE  /\ InUse(r) = InUse(m) \ {p}
         /\ Linked(r, lv, rg) /\ Chained(r, rg) /\ Sorted(r)
<1> DEFINE a == m.prev[p]
           c == m.next[p]
           d == m.next[x]
<1>m. /\ m.next \in [Cell -> Node \cup {Nil}]
      /\ m.prev \in [Node -> Cell \cup {Nil}]
      /\ m.scope \in [Node -> Level]
      /\ InUse(m) \subseteq Node /\ Node \subseteq Cell /\ Nil \notin Cell
      /\ lv \in Nat /\ rg \in Nat
  BY MemoryFields, CellFacts DEF InUse
<1>x. x \in Node /\ x[1] = o /\ x[2] = 0 /\ m.scope[x] \in Nat
  BY <1>m, CellFacts DEF Live
<1>1. p \in InUse(m) /\ p = <<o, m.scope[x]>>
  BY <1>x DEF Chained
<1>2. /\ p \in Node /\ p # x /\ p[1] = o /\ p[2] = m.scope[x]
      /\ m.scope[p] \in Level /\ m.scope[p] \in Nat
      /\ m.scope[p] < m.scope[x] /\ m.scope[x] <= rg
      /\ m.scope[p] <= lv /\ m.scope[p] <= rg
  <2>1. p \in Node /\ p[1] = o /\ p[2] = m.scope[x] /\ p # x
    BY <1>1, <1>x, <1>m
  <2>2. m.scope[p] < p[2]
    BY <1>1, <2>1 DEF Chained
  <2>3. m.scope[x] <= rg
    BY DEF Linked, Forward
  <2>4. m.scope[p] \in Level /\ m.scope[p] \in Nat
    BY <2>1, <1>m, CellFacts
  <2> QED
    BY <2>1, <2>2, <2>3, <2>4, <1>m, <1>x
<1>3. /\ Scope(m.scope[x]) \in Cell /\ Scope(m.scope[x]) \notin Node
      /\ Scope(m.scope[p]) \in Cell /\ Scope(m.scope[p]) \notin Node
      /\ Scope(m.scope[p]) # Scope(m.scope[x])
  BY <1>2, <1>m, <1>x, CellFacts, HeadFacts
<1>D. D = A \/ (D = x /\ A = Scope(m.scope[x]) /\ lv < m.scope[x])
  BY DEF LeavesPrev
<1>o. \A n \in InUse(m) :
        n # x => ~(lv < m.scope[n] /\ m.next[Scope(m.scope[n])] = n)
  BY DEF OthersSettled
<1>P. /\ A \in Cell /\ m.next[A] = x
      /\ \/ A \in InUse(m) /\ m.scope[A] = m.scope[x]
         \/ A = Scope(m.scope[x])
  BY DEF PointsAt
<1>A. A # x /\ A # p /\ A # Nil
  <2>1. A # x
    BY SMTT(30), <1>P, <1>3, <1>x, <1>m, NotOwnNext
  <2> QED
    BY <2>1, <1>P, <1>2, <1>3, <1>m
<1>a. /\ a # Nil /\ a # p /\ a # x /\ a # A /\ a \in Cell /\ m.next[a] = p
      /\ \/ a \in InUse(m) /\ m.scope[a] = m.scope[p]
         \/ a = Scope(m.scope[p]) /\ a \notin Node
  <2>2. \/ a \in InUse(m) /\ m.scope[a] = m.scope[p] /\ m.next[a] = p
        \/ a = Scope(m.scope[p]) /\ m.next[a] = p
    <3>1. m.scope[p] \in 0..rg /\ ~(lv < m.scope[p])
      BY <1>2, <1>m, <1>x
    <3>2. m.next[Scope(m.scope[p])] = p => a = Scope(m.scope[p])
      BY SMTT(30), <3>1, <1>2, <1>m DEF Linked, Headed
    <3> QED
      BY <3>2, <1>1 DEF Linked, Backward
  <2>3. CASE a \in InUse(m) /\ m.scope[a] = m.scope[p] /\ m.next[a] = p
    <3>1. a # p
      BY <2>3, <1>1, <1>2, <1>m, NotOwnNext
    <3> QED
      BY SMTT(30), <2>3, <3>1, <1>m, <1>2, <1>3, <1>P
  <2>4. CASE a = Scope(m.scope[p]) /\ m.next[a] = p
    BY SMTT(30), <2>4, <1>2, <1>3, <1>x, <1>m, <1>P
  <2> QED
    BY SMTT(30), <2>2, <2>3, <2>4
<1>c. c # Nil => /\ c \in InUse(m) /\ c # p /\ c # x /\ m.scope[c] = m.scope[p]
                 /\ m.prev[c] = p
  BY SMTT(30), <1>1, <1>2, NotOwnNext DEF Linked, Forward
<1>d. d # Nil => /\ d \in InUse(m) /\ d # p /\ d # x /\ d # c /\ d # a
                 /\ m.scope[d] = m.scope[x] /\ m.prev[d] = x
  BY SMTT(30), <1>1, <1>2, <1>3, <1>a, <1>c, <1>m, NotOwnNext DEF Linked, Forward
<1>n. /\ r.next[A] = d /\ r.next[x] = c /\ r.next[a] = x
      /\ \A k \in Cell : k \notin {A, x, a, p} => r.next[k] = m.next[k]
  BY DEF MovedBack
<1>p. /\ r.prev[x] = a /\ r.prev[p] = Nil
      /\ c # Nil => r.prev[c] = x
      /\ d # Nil => r.prev[d] = D
      /\ \A k \in Node : k \notin {x, p, c, d} => r.prev[k] = m.prev[k]
  BY DEF MovedBack
<1>s. /\ r.scope[x] = m.scope[p] /\ r.restore[x] = m.restore[p]
      /\ \A k \in Node : k \notin {x, p} => /\ r.scope[k] = m.scope[k]
                                           /\ r.restore[k] = m.restore[k]
  BY DEF MovedBack
<1> HIDE DEF a, c, d
<1>4. InUse(r) = InUse(m) \ {p}
  <2>1. \A k \in Node : k # p => (r.prev[k] # Nil <=> m.prev[k] # Nil)
    <3>1. x # Nil /\ D # Nil /\ m.prev[x] # Nil
      BY <1>A, <1>x, <1>s, <1>P, <1>D, <1>m DEF InUse
    <3>2. (c # Nil => m.prev[c] # Nil) /\ (d # Nil => m.prev[d] # Nil)
      BY <1>c, <1>d, <1>2, <1>x, <1>s, <1>P, <1>D, <1>m
    <3> QED
      BY <3>1, <3>2, <1>s, <1>P, <1>D, <1>p, <1>a, <1>m
  <2> QED
    BY <2>1, <1>s, <1>P, <1>D, <1>p DEF InUse
<1>5. Forward(r, rg)
  <2> SUFFICES ASSUME NEW n \in InUse(r)
               PROVE  /\ r.scope[n] <= rg
                      /\ r.next[n] # Nil => /\ r.next[n] \in InUse(r)
                                            /\ r.scope[r.next[n]] = r.scope[n]
                                            /\ r.prev[r.next[n]] = n
    BY DEF Forward
  <2>n. n \in InUse(m) /\ n \in Node /\ n # p /\ m.scope[n] <= rg
    BY <1>s, <1>P, <1>D, <1>4, <1>m DEF Linked, Forward
  <2>1. CASE n = x
    <3>1. r.next[x] = c /\ r.scope[x] = m.scope[p] /\ m.scope[p] <= rg
      BY <1>s, <1>P, <1>D, <1>n, <1>2
    <3>2. c # Nil => c \in InUse(r) /\ r.scope[c] = m.scope[p] /\ r.prev[c] = x
      BY <1>s, <1>P, <1>D, <1>4, <1>p, <1>c, <1>m
    <3> QED
      BY <2>1, <3>1, <3>2
  <2>2. CASE n = a
    BY <2>2, <2>n, <1>s, <1>P, <1>D, <1>4, <1>n, <1>p, <1>a, <1>2, <1>x, <1>m
  <2>3. CASE n = A
    <3>1. D = A /\ m.scope[A] = m.scope[x]
      BY <2>3, <2>n, <1>3, <1>P, <1>D
    <3> QED
      BY <2>3, <3>1, <2>n, <1>s, <1>P, <1>D, <1>4, <1>n, <1>p, <1>A, <1>d, <1>m
  <2>4. CASE n \notin {x, a, A}
    <3>1. r.next[n] = m.next[n] /\ r.scope[n] = m.scope[n]
      BY <2>4, <2>n, <1>s, <1>P, <1>D, <1>n, <1>m
    <3>2. ASSUME m.next[n] # Nil
          PROVE  /\ m.next[n] \in InUse(m) /\ m.next[n] \notin {x, p, c, d}
                 /\ m.scope[m.next[n]] = m.scope[n] /\ m.prev[m.next[n]] = n
      <4>1. /\ m.next[n] \in InUse(m)
            /\ m.scope[m.next[n]] = m.scope[n] /\ m.prev[m.next[n]] = n
        BY <2>n, <3>2 DEF Linked, Forward
      <4>2. m.next[n] # x
        <5>1. SUFFICES ASSUME m.next[n] = x PROVE FALSE
          OBVIOUS
        <5>2. m.prev[x] = n /\ m.scope[x] = m.scope[n]
          BY <5>1, <4>1
        <5>3. CASE A = Scope(m.scope[x])
          BY <5>2, <5>3, <2>n, <1>x, <1>2, <1>3, <1>s, <1>P, <1>D, <1>m DEF Linked, Headed
        <5>4. CASE A \in InUse(m)
          BY <5>2, <5>4, <2>4, <1>x, <1>s, <1>P, <1>D, <1>m DEF Linked, Forward
        <5> QED
          BY <5>3, <5>4, <1>P
      <4>3. m.next[n] # p
        BY <4>1, <2>4 DEF a
      <4>4. m.next[n] # c /\ m.next[n] # d
        BY <4>1, <3>2, <2>4, <2>n, <1>c, <1>d
      <4> QED
        BY <4>1, <4>2, <4>3, <4>4
    <3> QED
      BY <2>n, <3>1, <3>2, <1>s, <1>P, <1>D, <1>4, <1>p, <1>m
  <2> QED
    BY <2>1, <2>2, <2>3, <2>4
<1>6. Backward(r)
  <2> SUFFICES ASSUME NEW n \in InUse(r)
               PROVE  \/ /\ r.prev[n] \in InUse(r)
                         /\ r.scope[r.prev[n]] = r.scope[n]
                         /\ r.next[r.prev[n]] = n
                      \/ r.next[Scope(r.scope[n])] = n
    BY DEF Backward
  <2>n. n \in InUse(m) /\ n \in Node /\ n # p /\ m.scope[n] \in Level
    BY <1>s, <1>P, <1>D, <1>4, <1>m
  <2>1. CASE n = x
    BY <2>1, <1>s, <1>P, <1>D, <1>4, <1>n, <1>p, <1>a, <1>2, <1>m
  <2>2. CASE n = c
    BY <2>2, <2>n, <1>s, <1>P, <1>D, <1>4, <1>n, <1>p, <1>c, <1>2, <1>x, <1>m
  <2>3. CASE n = d
    <3>1. CASE A = Scope(m.scope[x])
      BY <3>1, <2>3, <2>n, <1>s, <1>P, <1>D, <1>n, <1>d, <1>m
    <3>2. CASE A \in InUse(m) /\ m.scope[A] = m.scope[x]
      BY <3>2, <2>3, <2>n, <1>s, <1>P, <1>D, <1>4, <1>n, <1>p, <1>d, <1>A, <1>3, <1>m
    <3> QED
      BY <3>1, <3>2, <1>P
  <2>4. CASE n \notin {x, c, d}
    <3>1. r.prev[n] = m.prev[n] /\ r.scope[n] = m.scope[n]
      BY <2>4, <2>n, <1>s, <1>P, <1>D, <1>p
    <3>2. CASE /\ m.prev[n] \in InUse(m)
               /\ m.scope[m.prev[n]] = m.scope[n]
               /\ m.next[m.prev[n]] = n
      <4>1. m.prev[n] \notin {A, a, x, p}
        BY <3>2, <2>4, <2>n, <1>a, <1>P DEF c, d
      <4> QED
        BY <4>1, <3>1, <3>2, <1>s, <1>P, <1>D, <1>4, <1>n, <1>m
    <3>3. CASE m.next[Scope(m.scope[n])] = n
      <4>1. Scope(m.scope[n]) \in Cell /\ Scope(m.scope[n]) \notin {A, a, x, p}
        BY <3>3, <2>n, <2>4, <1>a, <1>x, <1>P, <1>2, CellFacts
      <4> QED
        BY <4>1, <3>1, <3>3, <1>s, <1>P, <1>D, <1>n
    <3> QED
      BY <2>n, <3>2, <3>3 DEF Linked, Backward
  <2> QED
    BY <2>1, <2>2, <2>3, <2>4
<1>7. Headed(r, lv, rg)
  <2> SUFFICES ASSUME NEW l \in 0..rg, r.next[Scope(l)] # Nil
               PROVE  /\ r.next[Scope(l)] \in InUse(r)
                      /\ r.scope[r.next[Scope(l)]] = l
                      /\ \/ r.prev[r.next[Scope(l)]] = Scope(l)
                         \/ /\ lv < l
                            /\ r.prev[r.next[Scope(l)]] \in InUse(r)
                            /\ r.scope[r.prev[r.next[Scope(l)]]] <= lv
    BY DEF Headed
  <2>l. l \in Level /\ Scope(l) \in Cell /\ Scope(l) \notin Node
    BY <1>s, <1>P, <1>D, <1>m, CellFacts DEF Level
  <2>1. CASE Scope(l) = A
    <3>1. l = m.scope[x]
      BY <2>1, <2>l, <1>s, <1>P, <1>D, <1>m, <1>x, HeadFacts
    <3>2. d # Nil /\ d \in InUse(r) /\ r.scope[d] = l
      BY <2>1, <3>1, <1>s, <1>P, <1>D, <1>n, <1>d, <1>4, <1>m
    <3> QED
      BY <2>1, <3>1, <3>2, <1>s, <1>P, <1>D, <1>n, <1>p, <1>4, <1>2, <1>x
  <2>2. CASE Scope(l) = a
    <3>1. l = m.scope[p]
      BY <2>2, <2>l, <1>a, <1>s, <1>P, <1>D, <1>m, <1>2, HeadFacts
    <3> QED
      BY <2>2, <3>1, <1>s, <1>P, <1>D, <1>n, <1>p, <1>4, <1>2
  <2>3. CASE Scope(l) # A /\ Scope(l) # a
    <3>1. r.next[Scope(l)] = m.next[Scope(l)]
      BY <2>3, <2>l, <1>s, <1>P, <1>D, <1>n, <1>x, <1>2
    <3>2. /\ m.next[Scope(l)] \in InUse(m)
          /\ m.scope[m.next[Scope(l)]] = l
      BY <3>1 DEF Linked, Headed
    <3>3. /\ \/ m.prev[m.next[Scope(l)]] = Scope(l)
             \/ /\ lv < l
                /\ m.scope[m.prev[m.next[Scope(l)]]] <= lv
      BY <3>1 DEF Linked, Headed
    <3>4. m.next[Scope(l)] # x
      <4>1. SUFFICES ASSUME m.next[Scope(l)] = x PROVE FALSE
        OBVIOUS
      <4>2. l = m.scope[x] /\ A \in InUse(m) /\ m.scope[A] = m.scope[x]
        BY <4>1, <3>2, <2>3, <1>P
      <4>3. m.prev[x] = A
        BY <4>2, <1>x, <1>s, <1>P, <1>D, <1>m DEF Linked, Forward
      <4> QED
        BY <4>1, <4>2, <4>3, <3>3, <2>l, <1>s, <1>P, <1>D, <1>m
    <3>5. m.next[Scope(l)] # p
      BY <3>2, <3>3, <2>3, <1>2, <1>s, <1>P, <1>D, <1>m DEF a
    <3>6. m.next[Scope(l)] # c
      BY <3>1, <3>2, <3>3, <2>l, <1>2, <1>c, <1>s, <1>P, <1>D, <1>m
    <3>7. m.next[Scope(l)] # d
      BY <3>1, <3>2, <3>3, <2>l, <1>2, <1>d, <1>x, <1>s, <1>P, <1>D, <1>m
    <3>8. m.prev[m.next[Scope(l)]] = Scope(l)
      BY <3>2, <3>3, <3>4, <1>o
    <3> QED
      BY <3>1, <3>2, <3>4, <3>5, <3>6, <3>7, <3>8, <1>s, <1>P, <1>D, <1>4, <1>p, <1>m
  <2> QED
    BY <2>1, <2>2, <2>3
<1>8. Chained(r, rg)
  <2>1. ASSUME NEW n \in InUse(m)
        PROVE  /\ n \in Node /\ n[2] \in Nat /\ m.scope[n] \in Nat /\ n[2] <= rg
               /\ Live(n[1]) \in InUse(m) /\ Live(n[1]) # p
               /\ n[1] = o => Live(n[1]) = x
               /\ n[1] = o /\ n # x => n[2] > 0 /\ n[2] <= m.scope[x]
               /\ n[1] = o /\ n # p => n[2] # p[2]
               /\ n[1] # o => Live(n[1]) # x /\ n # x /\ n # p
    <3>1. n \in Node /\ n[2] \in Nat /\ m.scope[n] \in Nat /\ n = <<n[1], n[2]>>
      BY <1>s, <1>P, <1>D, <1>m, CellFacts
    <3>2. n[2] <= rg /\ Live(n[1]) \in InUse(m) /\ (n[2] > 0 => n[2] <= m.scope[Live(n[1])])
      BY DEF Chained
    <3>3. /\ n[1] = o => Live(n[1]) = x
          /\ n[1] # o => Live(n[1]) # x
          /\ n[1] = o /\ n # x => n[2] > 0
          /\ n = x => n[1] = o
      <4>1. x = <<o, 0>>
        BY DEF Live
      <4>2. n[1] = o /\ n # x => n[2] > 0
        BY <4>1, <3>1
      <4> QED
        BY <4>1, <4>2, <1>x DEF Live
    <3>5. n[1] = p[1] /\ n[2] = p[2] => n = p
      BY <3>1, <1>2, NameFacts
    <3>4. p[2] > 0 /\ Live(n[1]) # p
      BY <1>2 DEF Live
    <3> QED
      BY <3>1, <3>2, <3>3, <3>4, <3>5, <1>2
  <2>2. ASSUME NEW n \in InUse(r)
        PROVE  /\ n[2] <= rg
               /\ Live(n[1]) \in InUse(r)
               /\ n[2] > 0 => r.scope[n] < n[2] /\ n[2] <= r.scope[Live(n[1])]
    <3>1. n \in InUse(m) /\ n # p /\ Live(n[1]) \in InUse(r) /\ n[2] <= rg
      BY <1>s, <1>P, <1>D, <1>4, <2>1
    <3>2. ASSUME n[2] > 0 PROVE r.scope[n] < n[2] /\ n[2] <= r.scope[Live(n[1])]
      <4>1. n # x /\ r.scope[n] = m.scope[n] /\ m.scope[n] < n[2]
        BY <3>1, <3>2, <2>1, <1>x, <1>s DEF Chained
      <4>2. CASE n[1] = o
        <5>1. n[2] \in Nat /\ n[2] <= p[2] /\ n[2] # p[2] /\ Live(n[1]) = x
          BY <4>1, <4>2, <3>1, <2>1, <1>2
        <5>2. n[2] < p[2] => n[2] <= m.scope[p]
          BY <4>2, <3>1, <3>2, <1>1, <1>2 DEF Chained
        <5> QED
          BY <4>1, <5>1, <5>2, <1>2, <1>x, <1>s
      <4>3. CASE n[1] # o
        BY <4>1, <4>3, <3>1, <3>2, <2>1, <1>s, <1>P, <1>D, <1>m DEF Chained
      <4> QED
        BY <4>2, <4>3
    <3> QED
      BY <3>1, <3>2
  <2>3. ASSUME NEW n \in InUse(r)
        PROVE  /\ r.scope[n] = 0 => r.restore[n] = Nil
               /\ r.scope[n] > 0 => /\ r.restore[n] = <<n[1], r.scope[n]>>
                                    /\ r.restore[n] \in InUse(r)
    <3>1. CASE n = x
      <4>1. /\ m.scope[p] = 0 => m.restore[p] = Nil
            /\ m.scope[p] > 0 => /\ m.restore[p] = <<o, m.scope[p]>>
                                 /\ m.restore[p] \in InUse(m)
        BY <1>1, <1>2 DEF Chained
      <4>2. <<o, m.scope[p]>> # p
        BY <1>1, <1>2
      <4> QED
        BY <3>1, <4>1, <4>2, <1>s, <1>P, <1>D, <1>4, <1>x
    <3>2. CASE n # x
      <4>1. n \in InUse(m) /\ n # p /\ r.scope[n] = m.scope[n] /\ r.restore[n] = m.restore[n]
        BY <3>2, <1>s, <1>P, <1>D, <1>4, <1>m
      <4>2. /\ m.scope[n] = 0 => m.restore[n] = Nil
            /\ m.scope[n] > 0 => /\ m.restore[n] = <<n[1], m.scope[n]>>
                                 /\ m.restore[n] \in InUse(m)
            /\ n[2] > 0 => m.scope[n] < n[2]
        BY <4>1 DEF Chained
      <4>3. <<n[1], m.scope[n]>> # p
        BY <4>1, <4>2, <3>2, <2>1, <1>2
      <4> QED
        BY <4>1, <4>2, <4>3, <1>s, <1>P, <1>D, <1>4
    <3> QED
      BY <3>1, <3>2
  <2>4. ASSUME NEW n \in InUse(r), NEW k \in InUse(r),
               k[1] = n[1], 0 < n[2], n[2] < k[2]
        PROVE  n[2] <= r.scope[k]
    <3>1. k # x /\ k # p /\ k \in InUse(m) /\ n \in InUse(m)
      BY <2>1, <2>4, <1>x, <1>s, <1>P, <1>D, <1>4
    <3> QED
      BY <3>1, <2>4, <1>s, <1>P, <1>D, <1>m DEF Chained
  <2> QED
    BY <2>2, <2>3, <2>4 DEF Chained
<1>9. Sorted(r)
  <2>1. PICK b \in Nat : \E rank \in [Node -> 0..b] :
          \A n \in InUse(m) : m.next[n] # Nil => rank[m.next[n]] < rank[n]
    BY DEF Sorted
  <2>2. PICK rank \in [Node -> 0..b] :
          \A n \in InUse(m) : m.next[n] # Nil => rank[m.next[n]] < rank[n]
    BY <2>1
  <2> DEFINE new == [rank EXCEPT ![x] = rank[p]]
  <2>3. new \in [Node -> 0..b] /\ \A n \in Node : rank[n] \in Nat
    BY <1>x, <1>2
  <2>4. new[x] = rank[p] /\ \A n \in Node : n # x => new[n] = rank[n]
    BY <1>x
  <2> HIDE DEF new
  <2>5. ASSUME NEW n \in InUse(r), r.next[n] # Nil
        PROVE  new[r.next[n]] < new[n]
    <3>n. n \in InUse(m) /\ n \in Node /\ n # p
      BY SMTT(30), <1>s, <1>P, <1>D, <1>4, <1>m
    <3>1. CASE n = x
      BY <3>1, <2>2, <2>4, <2>5, <1>1, <1>s, <1>P, <1>D, <1>n, <1>c, <1>m DEF c
    <3>2. CASE n = a
      BY <3>2, <3>n, <2>2, <2>4, <2>5, <1>s, <1>P, <1>D, <1>n, <1>a, <1>2, <1>m
    <3>3. CASE n = A
      <4>1. d # Nil /\ rank[d] < rank[x] /\ rank[x] < rank[A]
        BY <3>3, <3>n, <2>2, <2>5, <1>s, <1>P, <1>D, <1>n, <1>x, <1>m DEF d
      <4> QED
        BY <4>1, <3>3, <3>n, <2>3, <2>4, <1>s, <1>P, <1>D, <1>n, <1>d, <1>A, <1>m, <1>x
    <3>4. CASE n \notin {x, a, A}
      <4>1. r.next[n] = m.next[n] /\ m.next[n] \in InUse(m)
        BY <3>4, <3>n, <2>5, <1>s, <1>P, <1>D, <1>n, <1>m DEF Linked, Forward
      <4>2. m.next[n] # x
        BY <4>1, <3>4, <3>n, <2>5, <1>s, <1>P, <1>D, <1>4, <1>5, <1>p, <1>2 DEF Forward
      <4> QED
        BY <4>1, <4>2, <3>4, <3>n, <2>2, <2>4, <2>5, <1>s, <1>P, <1>D, <1>m
    <3> QED
      BY <3>1, <3>2, <3>3, <3>4
  <2> QED
    BY <2>3, <2>5 DEF Sorted
<1> QED
  BY <1>s, <1>P, <1>D, <1>4, <1>5, <1>6, <1>7, <1>8, <1>9 DEF Linked

\* What one turn of the first loop of ~Scope() writes, field by field.
LEMMA RestoreFields ==
  ASSUME NEW m \in Memory, NEW o \in Obj,
         NEW x, x = Live(o), NEW p, p = m.restore[x], p \in Node, x # p,
         m.prev[p] \in Cell,
         NEW r, r = RestoreAndContinue(m, o)
  PROVE  /\ r \in Memory
         /\ \A k \in Cell :
              r.next[k] = IF k = p THEN Nil ELSE IF k = m.prev[p] THEN x
                          ELSE IF k = x THEN m.next[p] ELSE m.next[k]
         /\ \A k \in Node :
              /\ r.prev[k] = IF k = x THEN m.prev[p] ELSE IF k = p THEN Nil
                             ELSE IF k = m.next[p] THEN x ELSE m.prev[k]
              /\ r.scope[k] = IF k = p THEN 0 ELSE IF k = x THEN m.scope[p]
                              ELSE m.scope[k]
              /\ r.restore[k] = IF k = p THEN Nil ELSE IF k = x THEN m.restore[p]
                                ELSE m.restore[k]
              /\ r.data[k] = IF k = p THEN Absent
                             ELSE IF k = x /\ m.data[p] # Absent THEN m.data[p]
                             ELSE m.data[k]
<1>m. /\ m.next \in [Cell -> Node \cup {Nil}]
      /\ m.prev \in [Node -> Cell \cup {Nil}]
      /\ m.scope \in [Node -> Level]
      /\ m.restore \in [Node -> Node \cup {Nil}]
      /\ m.data \in [Node -> Data \cup {Absent}]
      /\ x \in Node /\ Node \subseteq Cell /\ 0 \in Level
  BY MemoryFields, CellFacts
<1> DEFINE nx == [m.next EXCEPT ![x] = m.next[p], ![m.prev[p]] = x, ![p] = Nil]
           pr == [k \in Node |-> IF k = x THEN m.prev[p] ELSE IF k = p THEN Nil
                                 ELSE IF k = m.next[p] THEN x ELSE m.prev[k]]
           sc == [m.scope EXCEPT ![x] = m.scope[p], ![p] = 0]
           re == [m.restore EXCEPT ![x] = m.restore[p], ![p] = Nil]
           da == [m.data EXCEPT ![x] = IF m.data[p] = Absent THEN m.data[x] ELSE m.data[p],
                                ![p] = Absent]
<1>1. r = [next |-> nx, prev |-> pr, scope |-> sc, restore |-> re, data |-> da]
  BY DEF RestoreAndContinue
<1>2. /\ nx \in [Cell -> Node \cup {Nil}]
      /\ \A k \in Cell : nx[k] = IF k = p THEN Nil ELSE IF k = m.prev[p] THEN x
                                 ELSE IF k = x THEN m.next[p] ELSE m.next[k]
  BY <1>m
<1>3. /\ pr \in [Node -> Cell \cup {Nil}]
      /\ \A k \in Node : pr[k] = IF k = x THEN m.prev[p] ELSE IF k = p THEN Nil
                                 ELSE IF k = m.next[p] THEN x ELSE m.prev[k]
  BY <1>m
<1>4. /\ sc \in [Node -> Level]
      /\ \A k \in Node : sc[k] = IF k = p THEN 0 ELSE IF k = x THEN m.scope[p]
                                 ELSE m.scope[k]
  BY <1>m
<1>5. /\ re \in [Node -> Node \cup {Nil}]
      /\ \A k \in Node : re[k] = IF k = p THEN Nil ELSE IF k = x THEN m.restore[p]
                                 ELSE m.restore[k]
  BY <1>m
<1>6. /\ da \in [Node -> Data \cup {Absent}]
      /\ \A k \in Node : da[k] = IF k = p THEN Absent
                                 ELSE IF k = x /\ m.data[p] # Absent THEN m.data[p]
                                 ELSE m.data[k]
  BY <1>m
<1> HIDE DEF nx, pr, sc, re, da
<1>7. r \in Memory
  BY <1>1, <1>2, <1>3, <1>4, <1>5, <1>6 DEF Memory
<1>8. /\ r.next = nx /\ r.prev = pr /\ r.scope = sc /\ r.restore = re /\ r.data = da
  BY SMTT(30), <1>1
<1> QED
  BY <1>2, <1>3, <1>4, <1>5, <1>6, <1>7, <1>8

\* One turn of the first loop of ~Scope() on a scope that is not the bottom one:
\* the first object steps back one version and its copy is consumed.
LEMMA RestoreFirstKeeps ==
  ASSUME NEW m \in Memory, NEW lv \in Level, lv + 1 \in Level,
         Linked(m, lv, lv + 1), Chained(m, lv + 1), Sorted(m),
         NEW x, x = m.next[Scope(lv + 1)], x # Nil,
         NEW p, p = m.restore[x],
         NEW r, r = RestoreFirst(m, lv + 1)
  PROVE  /\ x[1] \in Obj /\ x = Live(x[1]) /\ x \in InUse(m)
         /\ p = <<x[1], lv + 1>> /\ p \in InUse(m) /\ p # x
         /\ m.scope[x] = lv + 1 /\ m.scope[p] <= lv
         /\ r \in Memory
         /\ InUse(r) = InUse(m) \ {p}
         /\ \A k \in InUse(r) :
              /\ r.scope[k] = IF k = x THEN m.scope[p] ELSE m.scope[k]
              /\ r.data[k] = IF k = x /\ m.data[p] # Absent THEN m.data[p]
                             ELSE m.data[k]
         /\ Linked(r, lv, lv + 1) /\ Chained(r, lv + 1) /\ Sorted(r)
<1> DEFINE rg == lv + 1
           o == x[1]
           h == Scope(rg)
<1>m. /\ m.next \in [Cell -> Node \cup {Nil}]
      /\ m.prev \in [Node -> Cell \cup {Nil}]
      /\ m.scope \in [Node -> Level]
      /\ InUse(m) \subseteq Node /\ Node \subseteq Cell /\ Nil \notin Cell
      /\ h \in Cell /\ h \notin Node
      /\ lv \in Nat /\ rg \in Nat
  BY MemoryFields, CellFacts DEF InUse
<1>1. x \in InUse(m) /\ m.scope[x] = rg /\ x \in Node /\ o \in Obj
  BY <1>m, CellFacts DEF Linked, Headed
<1>2. x = Live(o) /\ x[2] = 0
  <2>1. x[2] \in Nat /\ x = <<o, x[2]>>
    BY <1>1, CellFacts
  <2>2. x[2] <= rg /\ (x[2] > 0 => m.scope[x] < x[2])
    BY <1>1 DEF Chained
  <2>3. x[2] = 0
    BY <2>1, <2>2, <1>1, <1>m
  <2> QED
    BY <2>1, <2>3 DEF Live
<1>3. /\ p = <<o, rg>> /\ p \in InUse(m) /\ p \in Node /\ p # x
      /\ p[1] = o /\ p[2] = rg /\ rg > 0
  <2>1. rg > 0
    BY <1>m
  <2>2. m.restore[x] = <<x[1], m.scope[x]>> /\ m.restore[x] \in InUse(m)
    BY <2>1, <1>1 DEF Chained
  <2>3. x = <<o, 0>>
    BY <1>2 DEF Live
  <2> QED
    BY <2>1, <2>2, <2>3, <1>1, <1>m
<1>4. m.scope[p] \in Nat /\ m.scope[p] < rg
  <2>1. m.scope[p] < p[2]
    BY <1>3 DEF Chained
  <2>2. m.scope[p] \in Nat
    BY <1>3, <1>m, CellFacts
  <2> QED
    BY <2>1, <2>2, <1>3
<1>a. /\ m.prev[p] \in Cell /\ m.prev[p] # p /\ m.prev[p] # x /\ m.prev[p] # h
      /\ m.next[m.prev[p]] = p
  <2>1. ~(lv < m.scope[p]) /\ m.scope[p] \in 0..rg /\ m.scope[p] \in Level
    BY SMTT(30), <1>3, <1>4, <1>m
  <2>2. Scope(m.scope[p]) # h
    BY SMTT(30), <2>1, <1>4, HeadFacts
  <2>3. \/ m.prev[p] \in InUse(m) /\ m.scope[m.prev[p]] = m.scope[p] /\ m.next[m.prev[p]] = p
        \/ m.prev[p] = Scope(m.scope[p]) /\ m.next[Scope(m.scope[p])] = p
    BY SMTT(30), <1>3, <2>1, <1>m DEF Linked, Backward, Headed
  <2>4. CASE m.prev[p] \in InUse(m) /\ m.scope[m.prev[p]] = m.scope[p] /\ m.next[m.prev[p]] = p
    <3>1. p # Nil /\ m.prev[p] \in Cell /\ m.prev[p] # h
      BY SMTT(30), <2>4, <1>3, <1>m, CellFacts DEF InUse
    <3>2. m.next[m.prev[p]] # m.prev[p]
      <4>1. m.prev[p] \in InUse(m) /\ m.next[m.prev[p]] # Nil
        BY Zenon, <2>4, <3>1
      <4> QED
        BY Zenon, <4>1, NotOwnNext
    <3>3. m.prev[p] # x
      BY SMTT(30), <2>4, <1>1, <1>4, <1>m
    <3> QED
      BY Zenon, <2>4, <3>1, <3>2, <3>3
  <2>5. CASE m.prev[p] = Scope(m.scope[p]) /\ m.next[Scope(m.scope[p])] = p
    BY <2>1, <2>2, <2>5, <1>1, <1>3, <1>m, CellFacts
  <2> QED
    BY <2>3, <2>4, <2>5
<1>d. /\ m.next[x] # Nil => /\ m.prev[m.next[x]] = x /\ m.scope[m.next[x]] = rg
                            /\ m.next[x] \in InUse(m) /\ m.next[x] # x
      /\ m.next[p] # Nil => m.next[p] \in InUse(m) /\ m.scope[m.next[p]] = m.scope[p]
  BY <1>1, <1>3, NotOwnNext DEF Linked, Forward
<1> DEFINE q == RestoreAndContinue(m, o)
<1>5. /\ q \in Memory
      /\ \A k \in Cell :
           q.next[k] = IF k = p THEN Nil ELSE IF k = m.prev[p] THEN x
                       ELSE IF k = x THEN m.next[p] ELSE m.next[k]
      /\ \A k \in Node :
           /\ q.prev[k] = IF k = x THEN m.prev[p] ELSE IF k = p THEN Nil
                          ELSE IF k = m.next[p] THEN x ELSE m.prev[k]
           /\ q.scope[k] = IF k = p THEN 0 ELSE IF k = x THEN m.scope[p]
                           ELSE m.scope[k]
           /\ q.restore[k] = IF k = p THEN Nil ELSE IF k = x THEN m.restore[p]
                             ELSE m.restore[k]
           /\ q.data[k] = IF k = p THEN Absent
                          ELSE IF k = x /\ m.data[p] # Absent THEN m.data[p]
                          ELSE m.data[k]
  <2>1. o \in Obj /\ x = Live(o) /\ p \in Node /\ x # p /\ m.prev[p] \in Cell
    BY <1>1, <1>2, <1>3, <1>a
  <2>2. q = RestoreAndContinue(m, o)
    OBVIOUS
  <2> HIDE DEF q, o, h, rg
  <2> QED
    BY SMTT(30), <2>1, <2>2, RestoreFields
<1>6. r = [q EXCEPT !.next[h] = m.next[x]]
  BY DEF RestoreFirst
<1>h. m.next[h] = x /\ Scope(rg) = h
  OBVIOUS
<1> HIDE DEF q, o, h, rg
<1>7. /\ r \in Memory
      /\ r.next = [q.next EXCEPT ![h] = m.next[x]]
      /\ r.prev = q.prev /\ r.scope = q.scope /\ r.restore = q.restore /\ r.data = q.data
  <2>1. m.next[x] \in Node \cup {Nil} /\ q \in Memory /\ h \in Cell
    BY SMTT(30), <1>1, <1>5, <1>m
  <2> QED
    BY SMTT(30), <2>1, <1>6 DEF Memory
<1>8. MovedBack(m, r, x, p, h, x)
  <2>1. /\ r.next[h] = m.next[x]
        /\ r.next[x] = m.next[p]
        /\ r.next[m.prev[p]] = x
        /\ \A k \in Cell : k \notin {h, x, m.prev[p], p} => r.next[k] = m.next[k]
    <3>1. \A k \in Cell : r.next[k] = IF k = h THEN m.next[x] ELSE q.next[k]
      BY <1>5, <1>7, <1>m, MemoryFields
    <3> QED
      BY SMTT(30), <3>1, <1>1, <1>3, <1>5, <1>a, <1>m
  <2>2. /\ r.prev[x] = m.prev[p]
        /\ r.prev[p] = Nil
        /\ m.next[p] # Nil => r.prev[m.next[p]] = x
        /\ m.next[x] # Nil => r.prev[m.next[x]] = x
        /\ \A k \in Node : k \notin {x, p, m.next[p], m.next[x]} => r.prev[k] = m.prev[k]
    <3>1. /\ m.next[p] # Nil => m.next[p] \in Node /\ m.next[p] # x /\ m.next[p] # p
          /\ m.next[x] # Nil => m.next[x] \in Node /\ m.next[x] # x /\ m.next[x] # p
                                /\ m.next[x] # m.next[p]
      BY <1>1, <1>3, <1>4, <1>d, <1>m, NotOwnNext
    <3> QED
      BY <3>1, <1>1, <1>3, <1>5, <1>7, <1>d
  <2>3. /\ r.scope[x] = m.scope[p] /\ r.restore[x] = m.restore[p]
        /\ \A k \in Node : k \notin {x, p} => /\ r.scope[k] = m.scope[k]
                                             /\ r.restore[k] = m.restore[k]
    BY <1>1, <1>3, <1>5, <1>7
  <2> QED
    BY <2>1, <2>2, <2>3 DEF MovedBack
<1>9. PointsAt(m, h, x)
  BY <1>1, <1>h, <1>m DEF PointsAt
<1>10. OthersSettled(m, lv, x)
  <2> SUFFICES ASSUME NEW n \in InUse(m), lv < m.scope[n], m.next[Scope(m.scope[n])] = n
               PROVE  n = x
    BY DEF OthersSettled
  <2>1. m.scope[n] <= rg /\ m.scope[n] \in Nat
    BY <1>m, CellFacts DEF Linked, Forward, rg
  <2>2. m.scope[n] = rg
    BY <2>1, <1>m DEF rg
  <2> QED
    BY <2>2 DEF rg
<1>11. /\ InUse(r) = InUse(m) \ {p}
       /\ Linked(r, lv, lv + 1) /\ Chained(r, lv + 1) /\ Sorted(r)
  <2>1. LeavesPrev(m, lv, x, h, x) /\ m.scope[x] > 0
    BY <1>1, <1>m DEF rg, h, LeavesPrev
  <2>2. rg <= lv + 1 /\ rg \in Level /\ Linked(m, lv, rg) /\ Chained(m, rg)
    BY <1>m DEF rg
  <2>3. /\ InUse(r) = InUse(m) \ {p}
        /\ Linked(r, lv, rg) /\ Chained(r, rg) /\ Sorted(r)
    BY SMTT(30), <2>1, <2>2, <1>1, <1>2, <1>7, <1>8, <1>9, <1>10, MoveBackKeeps
  <2> QED
    BY <2>3 DEF rg
<1>12. \A k \in InUse(r) : /\ r.scope[k] = IF k = x THEN m.scope[p] ELSE m.scope[k]
                           /\ r.data[k] = IF k = x /\ m.data[p] # Absent THEN m.data[p]
                                          ELSE m.data[k]
  BY <1>5, <1>7, <1>11, <1>m
<1>13. m.scope[p] <= lv
  BY <1>4, <1>m DEF rg
<1> QED
  BY <1>1, <1>2, <1>3, <1>7, <1>11, <1>12, <1>13 DEF o, rg

\* What the first half of a turn of destroy() writes, field by field.
LEMMA UnlinkFields ==
  ASSUME NEW m \in Memory, NEW o \in Obj, NEW x, x = Live(o), m.prev[x] \in Cell,
         NEW r, r = Unlink(m, o)
  PROVE  /\ r \in Memory
         /\ \A k \in Cell : r.next[k] = IF k = m.prev[x] THEN m.next[x] ELSE m.next[k]
         /\ \A k \in Node : r.prev[k] = IF k = m.next[x] THEN m.prev[x] ELSE m.prev[k]
         /\ r.scope = m.scope /\ r.restore = m.restore /\ r.data = m.data
<1>m. /\ m.next \in [Cell -> Node \cup {Nil}]
      /\ m.prev \in [Node -> Cell \cup {Nil}]
      /\ x \in Node /\ x \in Cell
  BY MemoryFields, CellFacts
<1> DEFINE nx == [m.next EXCEPT ![m.prev[x]] = m.next[x]]
           pr == [k \in Node |-> IF k = m.next[x] THEN m.prev[x] ELSE m.prev[k]]
<1>1. r = [m EXCEPT !.next = nx, !.prev = pr]
  BY DEF Unlink
<1>2. /\ nx \in [Cell -> Node \cup {Nil}]
      /\ \A k \in Cell : nx[k] = IF k = m.prev[x] THEN m.next[x] ELSE m.next[k]
  BY <1>m
<1>3. /\ pr \in [Node -> Cell \cup {Nil}]
      /\ \A k \in Node : pr[k] = IF k = m.next[x] THEN m.prev[x] ELSE m.prev[k]
  BY <1>m
<1> HIDE DEF nx, pr
<1>4. /\ r \in Memory /\ r.next = nx /\ r.prev = pr
      /\ r.scope = m.scope /\ r.restore = m.restore /\ r.data = m.data
  BY ZenonT(60), <1>1, <1>2, <1>3 DEF Memory
<1> QED
  BY <1>2, <1>3, <1>4

\* When no scope is half deleted, "prev" of every node points at the node.
LEMMA PrevPointsAt ==
  ASSUME NEW m \in Memory, NEW lv \in Level, NEW rg \in Level,
         Linked(m, lv, rg),
         NEW n \in InUse(m), m.scope[n] <= lv
  PROVE  /\ PointsAt(m, m.prev[n], n)
         /\ m.prev[n] \in InUse(m) \/ m.prev[n] = Scope(m.scope[n])
<1>m. /\ m.prev \in [Node -> Cell \cup {Nil}] /\ m.scope \in [Node -> Level]
      /\ n \in Node /\ InUse(m) \subseteq Node /\ Node \subseteq Cell /\ Nil \notin Node
      /\ lv \in Nat /\ rg \in Nat /\ m.scope[n] \in Nat /\ m.scope[n] \in Level
  BY MemoryFields, CellFacts DEF InUse
<1>1. m.scope[n] \in 0..rg /\ Scope(m.scope[n]) \in Cell
  BY <1>m, CellFacts DEF Linked, Forward
<1>2. CASE m.prev[n] \in InUse(m) /\ m.scope[m.prev[n]] = m.scope[n] /\ m.next[m.prev[n]] = n
  BY <1>2, <1>m DEF PointsAt
<1>3. CASE m.next[Scope(m.scope[n])] = n
  <2>1. m.prev[n] = Scope(m.scope[n])
    BY <1>1, <1>3, <1>m DEF Linked, Headed
  <2> QED
    BY <2>1, <1>1, <1>3 DEF PointsAt
<1> QED
  BY <1>2, <1>3 DEF Linked, Backward

\* A turn of the loop of destroy() that steps back one version.
LEMMA DestroyRestoreKeeps ==
  ASSUME NEW m \in Memory, NEW o \in Obj,
         NEW lv \in Level, NEW rg \in Level, rg <= lv + 1,
         Linked(m, lv, rg), Chained(m, rg), Sorted(m),
         \A n \in InUse(m) : m.scope[n] <= lv,
         NEW x, x = Live(o), x \in InUse(m), NEW p, p = m.restore[x], p # Nil,
         NEW r, r = RestoreAndContinue(Unlink(m, o), o)
  PROVE  /\ p = <<o, m.scope[x]>> /\ p \in InUse(m) /\ p # x
         /\ m.scope[p] <= lv
         /\ r \in Memory
         /\ InUse(r) = InUse(m) \ {p}
         /\ \A k \in InUse(r) :
              /\ r.scope[k] = IF k = x THEN m.scope[p] ELSE m.scope[k]
              /\ r.data[k] = IF k = x /\ m.data[p] # Absent THEN m.data[p]
                             ELSE m.data[k]
         /\ Linked(r, lv, rg) /\ Chained(r, rg) /\ Sorted(r)
<1> DEFINE A == m.prev[x]
           q == Unlink(m, o)
<1>m. /\ m.next \in [Cell -> Node \cup {Nil}]
      /\ m.prev \in [Node -> Cell \cup {Nil}]
      /\ m.scope \in [Node -> Level]
      /\ InUse(m) \subseteq Node /\ Node \subseteq Cell /\ Nil \notin Cell
      /\ lv \in Nat /\ rg \in Nat /\ x \in Node /\ m.scope[x] \in Nat
      /\ x[1] = o /\ x[2] = 0
  BY MemoryFields, CellFacts DEF InUse, Live
<1>A. /\ PointsAt(m, A, x) /\ A \in Cell /\ m.next[A] = x
      /\ \/ A \in InUse(m) /\ m.scope[A] = m.scope[x]
         \/ A = Scope(m.scope[x])
  BY PrevPointsAt DEF PointsAt
<1>1. /\ m.scope[x] > 0 /\ p = <<o, m.scope[x]>> /\ p \in InUse(m) /\ p \in Node
      /\ p[1] = o /\ p[2] = m.scope[x] /\ p # x
  <2>1. m.scope[x] > 0
    BY <1>m DEF Chained
  <2>2. m.restore[x] = <<x[1], m.scope[x]>> /\ m.restore[x] \in InUse(m)
    BY <2>1 DEF Chained
  <2> QED
    BY <2>1, <2>2, <1>m
<1>2. m.scope[p] \in Level /\ m.scope[p] \in Nat /\ m.scope[p] < m.scope[x]
  BY <1>1, <1>m, CellFacts DEF Chained
<1>3. /\ Scope(m.scope[x]) \notin Node /\ Scope(m.scope[p]) \notin Node
      /\ Scope(m.scope[p]) # Scope(m.scope[x])
  BY <1>2, <1>m, CellFacts, HeadFacts
<1>a. /\ m.prev[p] \in Cell /\ m.next[m.prev[p]] = p
      /\ \/ m.prev[p] \in InUse(m) /\ m.scope[m.prev[p]] = m.scope[p]
         \/ m.prev[p] = Scope(m.scope[p])
  BY <1>1, PrevPointsAt DEF PointsAt
<1>d. /\ m.next[x] # Nil => /\ m.next[x] \in InUse(m) /\ m.next[x] # x
                            /\ m.scope[m.next[x]] = m.scope[x]
      /\ m.next[p] # Nil => /\ m.next[p] \in InUse(m) /\ m.next[p] # p
                            /\ m.scope[m.next[p]] = m.scope[p]
  BY SMTT(30), <1>1, NotOwnNext DEF Linked, Forward
<1>4. /\ A # x /\ A # p /\ m.prev[p] # x /\ m.prev[p] # p /\ A # m.prev[p]
      /\ m.next[x] # p
      /\ m.next[p] # x
      /\ m.next[x] # Nil => m.next[x] # m.next[p]
  BY <1>A, <1>a, <1>d, <1>1, <1>2, <1>3, <1>m, NotOwnNext
<1>q. /\ q \in Memory
      /\ \A k \in Cell : q.next[k] = IF k = A THEN m.next[x] ELSE m.next[k]
      /\ \A k \in Node : q.prev[k] = IF k = m.next[x] THEN A ELSE m.prev[k]
      /\ q.scope = m.scope /\ q.restore = m.restore /\ q.data = m.data
  BY <1>A, UnlinkFields
<1>5. r = RestoreAndContinue(q, o)
  OBVIOUS
<1> HIDE DEF q, A
<1>6. /\ q.next[p] = m.next[p] /\ q.prev[p] = m.prev[p] /\ q.restore[x] = p
      /\ q.next[x] = m.next[x]
  BY <1>q, <1>1, <1>4, <1>m
<1>7. /\ r \in Memory
      /\ \A k \in Cell :
           r.next[k] = IF k = p THEN Nil ELSE IF k = q.prev[p] THEN x
                       ELSE IF k = x THEN q.next[p] ELSE q.next[k]
      /\ \A k \in Node :
           /\ r.prev[k] = IF k = x THEN q.prev[p] ELSE IF k = p THEN Nil
                          ELSE IF k = q.next[p] THEN x ELSE q.prev[k]
           /\ r.scope[k] = IF k = p THEN 0 ELSE IF k = x THEN q.scope[p]
                           ELSE q.scope[k]
           /\ r.restore[k] = IF k = p THEN Nil ELSE IF k = x THEN q.restore[p]
                             ELSE q.restore[k]
           /\ r.data[k] = IF k = p THEN Absent
                          ELSE IF k = x /\ q.data[p] # Absent THEN q.data[p]
                          ELSE q.data[k]
  <2>1. q \in Memory /\ p = q.restore[x] /\ p \in Node /\ x # p /\ q.prev[p] \in Cell
    BY <1>q, <1>1, <1>6, <1>a
  <2> QED
    BY SMTT(30), <2>1, <1>5, RestoreFields
<1>8. MovedBack(m, r, x, p, A, A)
  <2>1. /\ r.next[A] = m.next[x]
        /\ r.next[x] = m.next[p]
        /\ r.next[m.prev[p]] = x
        /\ \A k \in Cell : k \notin {A, x, m.prev[p], p} => r.next[k] = m.next[k]
    BY SMTT(30), <1>q, <1>1, <1>4, <1>6, <1>7, <1>A, <1>a, <1>m
  <2>2. /\ r.prev[x] = m.prev[p]
        /\ r.prev[p] = Nil
        /\ m.next[p] # Nil => r.prev[m.next[p]] = x
        /\ m.next[x] # Nil => r.prev[m.next[x]] = A
        /\ \A k \in Node : k \notin {x, p, m.next[p], m.next[x]} => r.prev[k] = m.prev[k]
    BY SMTT(30), <1>q, <1>1, <1>4, <1>6, <1>7, <1>d, <1>m
  <2>3. /\ r.scope[x] = m.scope[p] /\ r.restore[x] = m.restore[p]
        /\ \A k \in Node : k \notin {x, p} => /\ r.scope[k] = m.scope[k]
                                             /\ r.restore[k] = m.restore[k]
    BY SMTT(30), <1>q, <1>1, <1>7, <1>m
  <2> QED
    BY SMTT(30), <2>1, <2>2, <2>3 DEF MovedBack
<1>9. OthersSettled(m, lv, x) /\ LeavesPrev(m, lv, x, A, A)
  BY <1>m, CellFacts DEF OthersSettled, LeavesPrev
<1>10. /\ InUse(r) = InUse(m) \ {p}
       /\ Linked(r, lv, rg) /\ Chained(r, rg) /\ Sorted(r)
  <2>2. m.scope[x] > 0 /\ r \in Memory /\ PointsAt(m, A, x)
    BY <1>1, <1>7, <1>A
  <2> QED
    BY <2>2, <1>8, <1>9, MoveBackKeeps
<1>11. \A k \in InUse(r) : /\ r.scope[k] = IF k = x THEN m.scope[p] ELSE m.scope[k]
                           /\ r.data[k] = IF k = x /\ m.data[p] # Absent THEN m.data[p]
                                          ELSE m.data[k]
  BY <1>q, <1>7, <1>10, <1>m
<1> QED
  BY <1>1, <1>7, <1>10, <1>11

\* What ending the lifetime of an object writes, field by field.
LEMMA ReleaseFields ==
  ASSUME NEW m \in Memory, NEW o \in Obj, NEW x, x = Live(o),
         NEW r, r = Release(m, o)
  PROVE  /\ r \in Memory
         /\ \A k \in Cell : r.next[k] = IF k = x THEN Nil ELSE m.next[k]
         /\ \A k \in Node : /\ r.prev[k] = IF k = x THEN Nil ELSE m.prev[k]
                            /\ r.scope[k] = IF k = x THEN 0 ELSE m.scope[k]
                            /\ r.restore[k] = IF k = x THEN Nil ELSE m.restore[k]
                            /\ r.data[k] = IF k = x THEN Absent ELSE m.data[k]
<1>m. /\ m.next \in [Cell -> Node \cup {Nil}]
      /\ m.prev \in [Node -> Cell \cup {Nil}]
      /\ m.scope \in [Node -> Level]
      /\ m.restore \in [Node -> Node \cup {Nil}]
      /\ m.data \in [Node -> Data \cup {Absent}]
      /\ x \in Node /\ x \in Cell /\ 0 \in Level
  BY MemoryFields, CellFacts
<1>1. /\ r \in Memory
      /\ r.next = [m.next EXCEPT ![x] = Nil]
      /\ r.prev = [m.prev EXCEPT ![x] = Nil]
      /\ r.scope = [m.scope EXCEPT ![x] = 0]
      /\ r.restore = [m.restore EXCEPT ![x] = Nil]
      /\ r.data = [m.data EXCEPT ![x] = Absent]
  BY <1>m DEF Release, Memory
<1> QED
  BY <1>1, <1>m

\* The last turn of the loop of destroy(): the object is gone with all its
\* copies.
LEMMA DestroyReleaseKeeps ==
  ASSUME NEW m \in Memory, NEW o \in Obj,
         NEW lv \in Level, NEW rg \in Level,
         Linked(m, lv, rg), Chained(m, rg), Sorted(m),
         \A n \in InUse(m) : m.scope[n] <= lv,
         NEW x, x = Live(o), x \in InUse(m), m.restore[x] = Nil,
         NEW r, r = Release(Unlink(m, o), o)
  PROVE  /\ r \in Memory
         /\ InUse(r) = InUse(m) \ {x}
         /\ \A k \in InUse(r) : /\ k[1] # o
                                /\ r.scope[k] = m.scope[k]
                                /\ r.data[k] = m.data[k]
         /\ Linked(r, lv, rg) /\ Chained(r, rg) /\ Sorted(r)
<1> DEFINE A == m.prev[x]
           d == m.next[x]
           q == Unlink(m, o)
<1>m. /\ m.next \in [Cell -> Node \cup {Nil}]
      /\ m.prev \in [Node -> Cell \cup {Nil}]
      /\ m.scope \in [Node -> Level]
      /\ InUse(m) \subseteq Node /\ Node \subseteq Cell /\ Nil \notin Cell
      /\ lv \in Nat /\ rg \in Nat /\ x \in Node /\ m.scope[x] \in Nat
      /\ x[1] = o /\ x[2] = 0
  BY MemoryFields, CellFacts DEF InUse, Live
<1>P. /\ A \in Cell /\ m.next[A] = x
      /\ \/ A \in InUse(m) /\ m.scope[A] = m.scope[x]
         \/ A = Scope(m.scope[x])
  BY PrevPointsAt DEF PointsAt
<1>x. m.scope[x] = 0
  BY <1>m, CellFacts DEF Chained
<1>h. \A l \in Level : Scope(l) \in Cell /\ Scope(l) \notin Node
  BY CellFacts
<1>A. A # x
  BY <1>P, <1>m, <1>h, NotOwnNext
<1>d. d # Nil => /\ d \in InUse(m) /\ d # x /\ m.scope[d] = m.scope[x]
                 /\ m.prev[d] = x
  BY NotOwnNext DEF Linked, Forward
<1>q. /\ q \in Memory
      /\ \A k \in Cell : q.next[k] = IF k = A THEN d ELSE m.next[k]
      /\ \A k \in Node : q.prev[k] = IF k = d THEN A ELSE m.prev[k]
      /\ q.scope = m.scope /\ q.restore = m.restore /\ q.data = m.data
  BY <1>P, UnlinkFields
<1>1. r = Release(q, o)
  OBVIOUS
<1> HIDE DEF A, d, q
<1>f. /\ r \in Memory
      /\ \A k \in Cell : r.next[k] = IF k = x THEN Nil ELSE q.next[k]
      /\ \A k \in Node : /\ r.prev[k] = IF k = x THEN Nil ELSE q.prev[k]
                         /\ r.scope[k] = IF k = x THEN 0 ELSE q.scope[k]
                         /\ r.restore[k] = IF k = x THEN Nil ELSE q.restore[k]
                         /\ r.data[k] = IF k = x THEN Absent ELSE q.data[k]
  BY <1>1, <1>q, ReleaseFields
<1>n. /\ r.next[A] = d
      /\ \A k \in Cell : k \notin {x, A} => r.next[k] = m.next[k]
      /\ r.prev[x] = Nil
      /\ d # Nil => r.prev[d] = A
      /\ \A k \in Node : k \notin {x, d} => r.prev[k] = m.prev[k]
      /\ \A k \in Node : k # x => /\ r.scope[k] = m.scope[k]
                                 /\ r.restore[k] = m.restore[k]
                                 /\ r.data[k] = m.data[k]
  BY <1>f, <1>q, <1>P, <1>A, <1>d, <1>m
<1>2. InUse(r) = InUse(m) \ {x}
  <2>1. \A k \in Node : k # x => (r.prev[k] # Nil <=> m.prev[k] # Nil)
    BY <1>n, <1>P, <1>d, <1>m
  <2> QED
    BY <2>1, <1>n DEF InUse
<1>3. \A k \in InUse(r) : /\ k \in InUse(m) /\ k \in Node /\ k # x
                          /\ k[1] # o /\ k[2] \in Nat
                          /\ r.scope[k] = m.scope[k]
                          /\ r.restore[k] = m.restore[k]
                          /\ r.data[k] = m.data[k]
  <2> SUFFICES ASSUME NEW k \in InUse(r)
               PROVE  k \in InUse(m) /\ k \in Node /\ k # x /\ k[1] # o /\ k[2] \in Nat
    BY <1>n
  <2>1. k \in InUse(m) /\ k \in Node /\ k # x /\ k[2] \in Nat
    BY <1>2, <1>m, CellFacts
  <2>2. k[2] > 0 => k[2] <= m.scope[Live(k[1])]
    BY <2>1 DEF Chained
  <2>3. k[1] = o /\ k[2] = 0 => k = x
    BY <2>1, <1>m, NameFacts
  <2> QED
    BY <2>1, <2>2, <2>3, <1>x
<1>4. Forward(r, rg)
  <2> SUFFICES ASSUME NEW n \in InUse(r)
               PROVE  /\ r.scope[n] <= rg
                      /\ r.next[n] # Nil => /\ r.next[n] \in InUse(r)
                                            /\ r.scope[r.next[n]] = r.scope[n]
                                            /\ r.prev[r.next[n]] = n
    BY DEF Forward
  <2>n. n \in InUse(m) /\ n \in Node /\ n # x /\ m.scope[n] <= rg /\ r.scope[n] = m.scope[n]
    BY <1>3 DEF Linked, Forward
  <2>1. CASE n = A
    BY <2>1, <2>n, <1>n, <1>d, <1>2, <1>P, <1>h, <1>m
  <2>2. CASE n # A
    <3>1. r.next[n] = m.next[n]
      BY <2>2, <2>n, <1>n, <1>m
    <3>2. ASSUME m.next[n] # Nil
          PROVE  /\ m.next[n] \in InUse(m) /\ m.next[n] # x /\ m.next[n] # d
                 /\ m.scope[m.next[n]] = m.scope[n] /\ m.prev[m.next[n]] = n
      BY <3>2, <2>2, <2>n, <1>d DEF Linked, Forward, A
    <3> QED
      BY <3>1, <3>2, <2>n, <1>n, <1>2, <1>m
  <2> QED
    BY <2>1, <2>2
<1>5. Backward(r)
  <2> SUFFICES ASSUME NEW n \in InUse(r)
               PROVE  \/ /\ r.prev[n] \in InUse(r)
                         /\ r.scope[r.prev[n]] = r.scope[n]
                         /\ r.next[r.prev[n]] = n
                      \/ r.next[Scope(r.scope[n])] = n
    BY DEF Backward
  <2>n. /\ n \in InUse(m) /\ n \in Node /\ n # x /\ r.scope[n] = m.scope[n]
        /\ m.scope[n] \in Level
    BY <1>3, <1>m
  <2>1. CASE n = d
    BY <2>1, <2>n, <1>n, <1>d, <1>2, <1>P, <1>A, <1>m
  <2>2. CASE n # d
    <3>1. CASE /\ m.prev[n] \in InUse(m)
               /\ m.scope[m.prev[n]] = m.scope[n]
               /\ m.next[m.prev[n]] = n
      <4>1. m.prev[n] # x /\ m.prev[n] # A
        BY <3>1, <2>2, <2>n, <1>P DEF d
      <4> QED
        BY <4>1, <3>1, <2>2, <2>n, <1>n, <1>2, <1>m
    <3>2. CASE m.next[Scope(m.scope[n])] = n
      <4>1. Scope(m.scope[n]) \in Cell /\ Scope(m.scope[n]) # x /\ Scope(m.scope[n]) # A
        BY ZenonT(60), <3>2, <2>n, <1>P, <1>h, <1>m
      <4> QED
        BY <4>1, <3>2, <2>n, <1>n
    <3> QED
      BY <2>n, <3>1, <3>2 DEF Linked, Backward
  <2> QED
    BY <2>1, <2>2
<1>6. Headed(r, lv, rg)
  <2> SUFFICES ASSUME NEW l \in 0..rg, r.next[Scope(l)] # Nil
               PROVE  /\ r.next[Scope(l)] \in InUse(r)
                      /\ r.scope[r.next[Scope(l)]] = l
                      /\ r.prev[r.next[Scope(l)]] = Scope(l)
    BY DEF Headed
  <2>l. l \in Level /\ Scope(l) \in Cell /\ Scope(l) \notin Node
    BY <1>m, CellFacts DEF Level
  <2>1. CASE Scope(l) = A
    <3>1. l = m.scope[x]
      BY <2>1, <2>l, <1>P, <1>m, HeadFacts
    <3> QED
      BY <2>1, <3>1, <1>n, <1>d, <1>2, <1>m
  <2>2. CASE Scope(l) # A
    <3>1. r.next[Scope(l)] = m.next[Scope(l)]
      BY <2>2, <2>l, <1>n, <1>m
    <3>2. /\ m.next[Scope(l)] \in InUse(m)
          /\ m.scope[m.next[Scope(l)]] = l
          /\ m.prev[m.next[Scope(l)]] = Scope(l)
      BY <3>1, <1>m DEF Linked, Headed
    <3>3. m.next[Scope(l)] # x /\ m.next[Scope(l)] # d
      BY <3>1, <3>2, <2>2, <2>l, <1>d, <1>m DEF A
    <3> QED
      BY <3>1, <3>2, <3>3, <1>n, <1>2, <1>m
  <2> QED
    BY <2>1, <2>2
<1>7. Chained(r, rg)
  <2> SUFFICES ASSUME NEW n \in InUse(r)
               PROVE  /\ n[2] <= rg
                      /\ Live(n[1]) \in InUse(r)
                      /\ n[2] > 0 => r.scope[n] < n[2] /\ n[2] <= r.scope[Live(n[1])]
                      /\ r.scope[n] = 0 => r.restore[n] = Nil
                      /\ r.scope[n] > 0 => /\ r.restore[n] = <<n[1], r.scope[n]>>
                                           /\ r.restore[n] \in InUse(r)
                      /\ \A k \in InUse(r) :
                           k[1] = n[1] /\ 0 < n[2] /\ n[2] < k[2] => n[2] <= r.scope[k]
    BY DEF Chained
  <2>n. n \in InUse(m) /\ n[1] # o
    BY <1>3
  <2>1. n[2] <= rg /\ Live(n[1]) \in InUse(m) /\ Live(n[1]) # x
    BY <2>n DEF Chained, Live
  <2>2. ASSUME r.scope[n] > 0
        PROVE  r.restore[n] = <<n[1], r.scope[n]>> /\ r.restore[n] \in InUse(r)
    <3>1. m.restore[n] = <<n[1], m.scope[n]>> /\ m.restore[n] \in InUse(m)
      BY <2>n, <2>2, <1>3 DEF Chained
    <3>2. <<n[1], m.scope[n]>> # x
      BY <2>n, <1>m
    <3> QED
      BY <3>1, <3>2, <1>2, <1>3
  <2>3. n[2] > 0 => r.scope[n] < n[2] /\ n[2] <= r.scope[Live(n[1])]
    BY <2>1, <2>n, <1>2, <1>3 DEF Chained
  <2>4. \A k \in InUse(r) :
          k[1] = n[1] /\ 0 < n[2] /\ n[2] < k[2] => n[2] <= r.scope[k]
    BY <2>n, <1>3 DEF Chained
  <2> QED
    BY <2>1, <2>2, <2>3, <2>4, <2>n, <1>2, <1>3 DEF Chained
<1>8. Sorted(r)
  <2>1. PICK b \in Nat : \E rank \in [Node -> 0..b] :
          \A n \in InUse(m) : m.next[n] # Nil => rank[m.next[n]] < rank[n]
    BY DEF Sorted
  <2>2. PICK rank \in [Node -> 0..b] :
          \A n \in InUse(m) : m.next[n] # Nil => rank[m.next[n]] < rank[n]
    BY <2>1
  <2>3. \A n \in Node : rank[n] \in Nat
    OBVIOUS
  <2>4. ASSUME NEW n \in InUse(r), r.next[n] # Nil
        PROVE  rank[r.next[n]] < rank[n]
    <3>1. CASE n = A
      <4>1. d # Nil /\ r.next[A] = d /\ rank[d] < rank[x] /\ rank[x] < rank[A]
        BY <3>1, <2>2, <2>4, <1>3, <1>n, <1>P, <1>m DEF d
      <4> QED
        BY <3>1, <4>1, <2>3, <1>3, <1>d, <1>m
    <3>2. CASE n # A
      BY <3>2, <2>2, <2>4, <1>3, <1>n, <1>m
    <3> QED
      BY <3>1, <3>2
  <2> QED
    BY <2>2, <2>4 DEF Sorted
<1> QED
  BY <1>f, <1>2, <1>3, <1>4, <1>5, <1>6, <1>7, <1>8 DEF Linked

\* The lists and chains do not depend on the data.
LEMMA SameLinksKeep ==
  ASSUME NEW m \in Memory, NEW r \in Memory, NEW lv, NEW rg,
         r.next = m.next, r.prev = m.prev, r.scope = m.scope, r.restore = m.restore
  PROVE  /\ InUse(r) = InUse(m)
         /\ Linked(m, lv, rg) => Linked(r, lv, rg)
         /\ Chained(m, rg) => Chained(r, rg)
         /\ Sorted(m) => Sorted(r)
<1>1. InUse(r) = InUse(m)
  BY DEF InUse
<1>2. Linked(m, lv, rg) => Linked(r, lv, rg)
  BY <1>1 DEF Linked, Forward, Backward, Headed
<1>3. Chained(m, rg) => Chained(r, rg)
  BY <1>1 DEF Chained
<1>4. Sorted(m) => Sorted(r)
  BY <1>1 DEF Sorted
<1> QED
  BY <1>1, <1>2, <1>3, <1>4

\* makeCurrent() followed by the assignment of the new value.  Before, only the
\* object itself may have a null d_map besides the oldest versions: its
\* constructor has run in the bottom scope and nothing else.
LEMMA MakeCurrentKeeps ==
  ASSUME NEW m \in Memory, NEW o \in Obj, NEW v \in Data, NEW lv \in Level,
         Linked(m, lv, lv), Chained(m, lv), Sorted(m), Live(o) \in InUse(m),
         \A n \in InUse(m) :
           m.data[n] = Absent => (n[2] > 0 \/ n = Live(o)) /\ m.scope[n] = 0,
         NEW q, q = MakeCurrent(m, o, lv, lv)
  PROVE  \E r \in Memory :
           /\ r = [q EXCEPT !.data[Live(o)] = v]
           /\ Linked(r, lv, lv) /\ Chained(r, lv) /\ Sorted(r) /\ Valued(r)
           /\ InUse(r) = InUse(q)
<1> DEFINE r == [q EXCEPT !.data[Live(o)] = v]
<1>m. /\ m.scope \in [Node -> Level] /\ InUse(m) \subseteq Node
      /\ Live(o) \in Node /\ <<o, lv>> \in Node
      /\ <<o, lv>>[2] = lv /\ lv \in Nat
  BY MemoryFields, CellFacts DEF InUse
<1>1. /\ q \in Memory
      /\ Linked(q, lv, lv) /\ Chained(q, lv) /\ Sorted(q)
      /\ \A n \in InUse(q) : q.data[n] = Absent /\ n # Live(o) => n[2] > 0 /\ q.scope[n] = 0
  <2>1. CASE m.scope[Live(o)] = lv
    BY <2>1, <1>m DEF MakeCurrent
  <2>2. CASE m.scope[Live(o)] # lv
    <3>1. q = Update(m, o, lv, lv)
      BY <2>2 DEF MakeCurrent
    <3>2. /\ q \in Memory
          /\ InUse(q) = InUse(m) \cup {<<o, lv>>}
          /\ q.scope[<<o, lv>>] = m.scope[Live(o)]
          /\ \A k \in Node :
               q.data[k] = IF k = <<o, lv>> THEN m.data[Live(o)] ELSE m.data[k]
          /\ \A k \in InUse(m) : k # Live(o) => q.scope[k] = m.scope[k]
          /\ Linked(q, lv, lv) /\ Chained(q, lv) /\ Sorted(q)
          /\ <<o, lv>> \notin InUse(m)
      BY <2>2, <3>1, UpdateKeeps
    <3>3. lv > 0
      <4>1. m.scope[Live(o)] \in Nat /\ m.scope[Live(o)] <= lv
        BY <1>m, CellFacts DEF Linked, Forward
      <4> QED
        BY <4>1, <2>2, <1>m
    <3>4. ASSUME NEW n \in InUse(q), q.data[n] = Absent, n # Live(o)
          PROVE  n[2] > 0 /\ q.scope[n] = 0
      <4>1. CASE n = <<o, lv>>
        BY <4>1, <3>2, <3>3, <3>4, <1>m
      <4>2. CASE n # <<o, lv>>
        BY <4>2, <3>2, <3>4, <1>m
      <4> QED
        BY <4>1, <4>2
    <3> QED
      BY <3>2, <3>4
  <2> QED
    BY <2>1, <2>2
<1>2. /\ r \in Memory
      /\ r.next = q.next /\ r.prev = q.prev /\ r.scope = q.scope /\ r.restore = q.restore
      /\ r.data = [q.data EXCEPT ![Live(o)] = v]
  BY <1>1, <1>m DEF Memory
<1>r. r = [q EXCEPT !.data[Live(o)] = v]
  OBVIOUS
<1> HIDE DEF r
<1>3. /\ InUse(r) = InUse(q)
      /\ Linked(r, lv, lv) /\ Chained(r, lv) /\ Sorted(r)
  <2>1. q \in Memory /\ r \in Memory
    BY <1>1, <1>2
  <2>2. r.next = q.next /\ r.prev = q.prev /\ r.scope = q.scope /\ r.restore = q.restore
    BY <1>2
  <2>3. /\ InUse(r) = InUse(q)
        /\ Linked(q, lv, lv) => Linked(r, lv, lv)
        /\ Chained(q, lv) => Chained(r, lv)
        /\ Sorted(q) => Sorted(r)
    BY <2>1, <2>2, SameLinksKeep
  <2> QED
    BY <2>3, <1>1
<1>4. Valued(r)
  <2>1. q.data \in [Node -> Data \cup {Absent}]
    BY <1>1, MemoryFields
  <2> QED
    BY <2>1, <1>1, <1>2, <1>3, <1>m DEF Valued, InUse
<1> QED
  BY <1>r, <1>2, <1>3, <1>4

\* push() brings the head of the new scope into view.
LEMMA PushKeeps ==
  ASSUME NEW m \in Memory, NEW lv \in Level, lv + 1 \in Level,
         Linked(m, lv, lv), Chained(m, lv), Sorted(m), Valued(m),
         NEW r, r = [m EXCEPT !.next[Scope(lv + 1)] = Nil]
  PROVE  /\ r \in Memory /\ InUse(r) = InUse(m) /\ r.scope = m.scope /\ r.data = m.data
         /\ Linked(r, lv + 1, lv + 1) /\ Chained(r, lv + 1) /\ Sorted(r) /\ Valued(r)
<1> DEFINE h == Scope(lv + 1)
<1>m. /\ m.next \in [Cell -> Node \cup {Nil}] /\ m.scope \in [Node -> Level]
      /\ InUse(m) \subseteq Node /\ Node \subseteq Cell /\ lv \in Nat
      /\ h \in Cell /\ h \notin Node
  BY MemoryFields, CellFacts DEF InUse
<1>1. /\ r \in Memory
      /\ r.next = [m.next EXCEPT ![h] = Nil]
      /\ r.prev = m.prev /\ r.scope = m.scope /\ r.restore = m.restore /\ r.data = m.data
  BY <1>m DEF Memory
<1>2. InUse(r) = InUse(m)
  BY <1>1 DEF InUse
<1>3. \A n \in InUse(m) : /\ r.next[n] = m.next[n] /\ m.scope[n] <= lv
                          /\ m.scope[n] \in Nat /\ m.scope[n] \in Level
  BY <1>1, <1>m, CellFacts DEF Linked, Forward
<1>4. \A l \in 0..lv : l \in Level /\ r.next[Scope(l)] = m.next[Scope(l)]
  <2> SUFFICES ASSUME NEW l \in 0..lv
               PROVE  l \in Level /\ r.next[Scope(l)] = m.next[Scope(l)]
    OBVIOUS
  <2>1. l \in Level /\ l # lv + 1
    BY DEF Level
  <2>2. Scope(l) # h /\ Scope(l) \in Cell
    BY <2>1, HeadFacts, CellFacts
  <2> QED
    BY <2>1, <2>2, <1>1, <1>m
<1>5. Forward(r, lv + 1)
  BY <1>1, <1>2, <1>3, <1>m DEF Linked, Forward
<1>6. Backward(r)
  <2> SUFFICES ASSUME NEW n \in InUse(m)
               PROVE  \/ /\ r.prev[n] \in InUse(r)
                         /\ r.scope[r.prev[n]] = r.scope[n]
                         /\ r.next[r.prev[n]] = n
                      \/ r.next[Scope(r.scope[n])] = n
    BY <1>2 DEF Backward
  <2>1. m.scope[n] \in 0..lv
    BY <1>3, <1>m
  <2> QED
    BY <2>1, <1>1, <1>2, <1>3, <1>4 DEF Linked, Backward
<1>7. Headed(r, lv + 1, lv + 1)
  <2> SUFFICES ASSUME NEW l \in 0..(lv + 1), r.next[Scope(l)] # Nil
               PROVE  /\ r.next[Scope(l)] \in InUse(r)
                      /\ r.scope[r.next[Scope(l)]] = l
                      /\ r.prev[r.next[Scope(l)]] = Scope(l)
    BY DEF Headed
  <2>1. l # lv + 1
    BY <1>1, <1>m
  <2>2. l \in 0..lv /\ ~(lv < l)
    BY <2>1, <1>m
  <2> QED
    BY <2>2, <1>1, <1>2, <1>4 DEF Linked, Headed
<1>8. Chained(r, lv + 1)
  <2>1. \A n \in InUse(m) : n[2] \in Nat
    BY <1>m, CellFacts
  <2> QED
    BY SMTT(30), <2>1, <1>1, <1>2, <1>m DEF Chained
<1>9. Sorted(r) /\ Valued(r)
  BY <1>1, <1>2, <1>3 DEF Sorted, Valued
<1> QED
  BY <1>1, <1>2, <1>5, <1>6, <1>7, <1>8, <1>9 DEF Linked

\* A list whose head is null has no nodes: ~Scope() has restored every object
\* of the scope when its loop ends.  The lists are acyclic, so that a node of
\* the list with the highest number would be the first one.
LEMMA EmptyList ==
  ASSUME NEW m \in Memory, NEW lv, NEW rg, NEW l \in Level, Linked(m, lv, rg), Sorted(m),
         m.next[Scope(l)] = Nil
  PROVE  \A n \in InUse(m) : m.scope[n] # l
<1> DEFINE S == {n \in InUse(m) : m.scope[n] = l}
<1> SUFFICES ASSUME NEW s \in S PROVE FALSE
  OBVIOUS
<1>1. PICK b \in Nat : \E rank \in [Node -> 0..b] :
        \A n \in InUse(m) : m.next[n] # Nil => rank[m.next[n]] < rank[n]
  BY DEF Sorted
<1>2. PICK rank \in [Node -> 0..b] :
        \A n \in InUse(m) : m.next[n] # Nil => rank[m.next[n]] < rank[n]
  BY <1>1
<1> DEFINE T == {b - rank[n] : n \in S}
<1>3. S \subseteq Node /\ Nil \notin Node
  BY CellFacts DEF InUse
<1>4. T \subseteq Nat /\ T # {}
  BY <1>3
<1>5. PICK t \in T : \A u \in T : ~(<<u, t>> \in OpToRel(<, Nat))
  BY <1>4, NatLessThanWellFounded, WFMin
<1>6. PICK n \in S : t = b - rank[n]
  OBVIOUS
<1>7. m.prev[n] \in S /\ m.next[m.prev[n]] = n
  BY <1>3 DEF Linked, Backward
<1>8. rank[n] < rank[m.prev[n]]
  BY <1>2, <1>3, <1>7
<1>9. b - rank[m.prev[n]] \in T /\ b - rank[m.prev[n]] < t
  BY <1>3, <1>6, <1>7, <1>8
<1> QED
  BY <1>4, <1>5, <1>9 DEF OpToRel

-----------------------------------------------------------------------------
(* The invariant holds initially and every action preserves it.            *)

\* A new Context, with its bottom scope and no objects, satisfies the invariant.
LEMMA InitHolds == Init => IInv
<1> SUFFICES ASSUME Init PROVE IInv
  OBVIOUS
<1>1. TypeOK
  BY CellFacts DEF Init, TypeOK, Memory, Level
<1>2. InUse(mem) = {}
  BY DEF Init, InUse
<1>3. Linked(mem, level, cmm)
  <2>1. \A l \in 0..cmm : mem.next[Scope(l)] = Nil
    BY CellFacts DEF Init
  <2> QED
    BY <2>1, <1>2 DEF Linked, Forward, Backward, Headed
<1>4. Chained(mem, cmm) /\ Valued(mem) /\ Control
  BY <1>2 DEF Init, Chained, Valued, Control
<1>5. Sorted(mem)
  <2>1. [n \in Node |-> 0] \in [Node -> 0..0]
    OBVIOUS
  <2> QED
    BY <2>1, <1>2 DEF Sorted
<1> QED
  BY <1>1, <1>3, <1>4, <1>5 DEF IInv

\* The constructor CDO(Context*).
LEMMA CreateCDOHolds ==
  ASSUME IInv, NEW o \in Obj, CreateCDO(o)
  PROVE  IInv'
<1>1. /\ Idle /\ Live(o) \notin InUse(mem) /\ mem' = Construct(mem, o, Default)
      /\ UNCHANGED <<level, goal, cmm, garbage, target, pc>>
  BY DEF CreateCDO
<1>2. /\ mem \in Memory /\ level \in Level /\ cmm = level
      /\ Linked(mem, level, level) /\ Chained(mem, level) /\ Sorted(mem)
      /\ garbage = {} /\ target = Nil
  BY <1>1 DEF IInv, TypeOK, Control, Idle
<1>3. /\ mem' \in Memory
      /\ InUse(mem') = InUse(mem) \cup {Live(o)}
      /\ mem'.data = [mem.data EXCEPT ![Live(o)] = Default]
      /\ mem'.scope = [mem.scope EXCEPT ![Live(o)] = 0]
      /\ Linked(mem', level, level) /\ Chained(mem', level) /\ Sorted(mem')
  BY <1>1, <1>2, ConstructKeeps
<1>4. Valued(mem')
  <2>1. /\ mem.data \in [Node -> Data \cup {Absent}] /\ mem.scope \in [Node -> Level]
        /\ Live(o) \in Node /\ InUse(mem) \subseteq Node /\ Default # Absent
    BY <1>2, MemoryFields, CellFacts DEF InUse
  <2> QED
    BY <2>1, <1>1, <1>3 DEF IInv, Valued
<1> QED
  BY <1>1, <1>2, <1>3, <1>4 DEF IInv, TypeOK, Control, Idle

\* The constructors that make the new object current and assign to it.
LEMMA CreateWithHolds ==
  ASSUME IInv, NEW o \in Obj, NEW v \in Data, NEW base \in Data \cup {Absent},
         CreateWith(o, base, v)
  PROVE  IInv'
<1> DEFINE m == Construct(mem, o, base)
           q == MakeCurrent(m, o, level, cmm)
<1>1. /\ Idle /\ Live(o) \notin InUse(mem)
      /\ mem' = [q EXCEPT !.data[Live(o)] = v]
      /\ UNCHANGED <<level, goal, cmm, garbage, target, pc>>
  BY DEF CreateWith
<1>2. /\ mem \in Memory /\ level \in Level /\ cmm = level
      /\ Linked(mem, level, level) /\ Chained(mem, level) /\ Sorted(mem)
      /\ garbage = {} /\ target = Nil
  BY <1>1 DEF IInv, TypeOK, Control, Idle
<1>3. /\ m \in Memory
      /\ InUse(m) = InUse(mem) \cup {Live(o)}
      /\ m.scope = [mem.scope EXCEPT ![Live(o)] = 0]
      /\ m.data = [mem.data EXCEPT ![Live(o)] = base]
      /\ Linked(m, level, level) /\ Chained(m, level) /\ Sorted(m)
  BY <1>1, <1>2, ConstructKeeps
<1>q. q = MakeCurrent(m, o, level, level)
  BY <1>2
<1> HIDE DEF m, q
<1>4. \A n \in InUse(m) :
        m.data[n] = Absent => (n[2] > 0 \/ n = Live(o)) /\ m.scope[n] = 0
  <2>1. /\ mem.data \in [Node -> Data \cup {Absent}] /\ mem.scope \in [Node -> Level]
        /\ Live(o) \in Node /\ InUse(mem) \subseteq Node
    BY <1>2, MemoryFields, CellFacts DEF InUse
  <2> QED
    BY <2>1, <1>1, <1>3 DEF IInv, Valued
<1>5. PICK r \in Memory :
        /\ r = [q EXCEPT !.data[Live(o)] = v]
        /\ Linked(r, level, level) /\ Chained(r, level) /\ Sorted(r) /\ Valued(r)
        /\ InUse(r) = InUse(q)
  <2>1. /\ level \in Level /\ m \in Memory /\ Live(o) \in InUse(m)
        /\ Linked(m, level, level) /\ Chained(m, level) /\ Sorted(m)
    BY <1>2, <1>3
  <2> QED
    BY <2>1, <1>4, <1>q, MakeCurrentKeeps
<1> QED
  BY <1>1, <1>2, <1>5 DEF IInv, TypeOK, Control, Idle

\* set() on an object that may or may not be current.
LEMMA SetHolds ==
  ASSUME IInv, NEW o \in Obj, NEW v \in Data, Set(o, v)
  PROVE  IInv'
<1> DEFINE q == MakeCurrent(mem, o, level, cmm)
<1>1. /\ Idle /\ Live(o) \in InUse(mem)
      /\ mem' = [q EXCEPT !.data[Live(o)] = v]
      /\ UNCHANGED <<level, goal, cmm, garbage, target, pc>>
  BY DEF Set
<1>2. /\ mem \in Memory /\ level \in Level /\ cmm = level
      /\ Linked(mem, level, level) /\ Chained(mem, level) /\ Sorted(mem)
      /\ garbage = {} /\ target = Nil
  BY <1>1 DEF IInv, TypeOK, Control, Idle
<1>q. q = MakeCurrent(mem, o, level, level)
  BY <1>2
<1> HIDE DEF q
<1>3. \A n \in InUse(mem) :
        mem.data[n] = Absent => (n[2] > 0 \/ n = Live(o)) /\ mem.scope[n] = 0
  BY DEF IInv, Valued
<1>4. PICK r \in Memory :
        /\ r = [q EXCEPT !.data[Live(o)] = v]
        /\ Linked(r, level, level) /\ Chained(r, level) /\ Sorted(r) /\ Valued(r)
        /\ InUse(r) = InUse(q)
  BY <1>1, <1>2, <1>3, <1>q, MakeCurrentKeeps
<1> QED
  BY <1>1, <1>2, <1>4 DEF IInv, TypeOK, Control, Idle

\* Context::push.
LEMMA PushHolds == ASSUME IInv, Push PROVE IInv'
<1>1. /\ Idle /\ level < MaxLevel /\ level' = level + 1 /\ goal' = level + 1
      /\ cmm' = cmm + 1 /\ mem' = [mem EXCEPT !.next[Scope(level + 1)] = Nil]
      /\ UNCHANGED <<garbage, target, pc>>
  BY DEF Push
<1>2. /\ mem \in Memory /\ level \in Level /\ level + 1 \in Level /\ cmm = level
      /\ Linked(mem, level, level) /\ Chained(mem, level) /\ Sorted(mem) /\ Valued(mem)
      /\ garbage = {} /\ target = Nil
  BY <1>1 DEF IInv, TypeOK, Control, Idle, Level
<1>3. /\ mem' \in Memory
      /\ Linked(mem', level + 1, level + 1) /\ Chained(mem', level + 1)
      /\ Sorted(mem') /\ Valued(mem')
  BY <1>1, <1>2, PushKeeps
<1> QED
  BY <1>1, <1>2, <1>3 DEF IInv, TypeOK, Control, Idle, Level

\* Entering destroy() changes no pointer.
LEMMA StartDestroyHolds == ASSUME IInv, NEW o \in Obj, StartDestroy(o) PROVE IInv'
BY DEF StartDestroy, Idle, IInv, TypeOK, Control

\* Entering popto() changes no pointer.
LEMMA PoptoHolds == ASSUME IInv, NEW l \in Level, Popto(l) PROVE IInv'
BY DEF Popto, Idle, IInv, TypeOK, Control, Level

\* A turn of the loop of destroy(), from the destructor or from ~Scope().
LEMMA DestroyStepHolds == ASSUME IInv, DestroyStep PROVE IInv'
<1> DEFINE o == target
           x == Live(o)
           p == mem.restore[x]
<1>1. /\ o \in Obj /\ target # Nil /\ x \in InUse(mem) /\ o \notin garbage
      /\ pc \in {"run", "collect"}
      /\ mem \in Memory /\ level \in Level /\ cmm \in Level /\ cmm <= level + 1
      /\ Linked(mem, level, cmm) /\ Chained(mem, cmm) /\ Sorted(mem) /\ Valued(mem)
      /\ UNCHANGED <<level, goal, cmm, garbage, pc>>
  <2>1. cmm = level \/ cmm = level + 1
    BY DEF IInv, Control
  <2> QED
    BY <2>1 DEF DestroyStep, IInv, TypeOK, Control, Level
<1>2. \A n \in InUse(mem) : mem.scope[n] <= level
  <2>1. CASE pc = "run"
    BY <2>1 DEF IInv, Control, Linked, Forward
  <2>2. CASE pc = "collect"
    BY <2>2 DEF IInv, Control
  <2> QED
    BY <2>1, <2>2, <1>1
<1>3. Unlink(mem, o).restore = mem.restore
  <2>1. mem.prev[x] \in Cell
    BY <1>1, <1>2, PrevPointsAt DEF PointsAt
  <2> QED
    BY <2>1, <1>1, UnlinkFields
<1>4. CASE p = Nil /\ mem' = Release(Unlink(mem, o), o) /\ target' = Nil
  <2>1. /\ mem' \in Memory
        /\ InUse(mem') = InUse(mem) \ {x}
        /\ \A k \in InUse(mem') : /\ k[1] # o
                                  /\ mem'.scope[k] = mem.scope[k]
                                  /\ mem'.data[k] = mem.data[k]
        /\ Linked(mem', level, cmm) /\ Chained(mem', cmm) /\ Sorted(mem')
    BY <1>1, <1>2, <1>4, DestroyReleaseKeeps
  <2>2. Valued(mem')
    BY <2>1, <1>1 DEF Valued
  <2>3. \A k \in garbage : Live(k) # x
    BY <1>1 DEF Live
  <2>4. Control'
    BY <2>1, <2>3, <1>1, <1>2, <1>4 DEF IInv, Control
  <2> QED
    BY <2>1, <2>2, <2>4, <1>1, <1>4 DEF IInv, TypeOK
<1>5. CASE p # Nil /\ mem' = RestoreAndContinue(Unlink(mem, o), o) /\ target' = target
  <2>1. /\ p = <<o, mem.scope[x]>> /\ p \in InUse(mem) /\ p # x
        /\ mem.scope[p] <= level
        /\ mem' \in Memory
        /\ InUse(mem') = InUse(mem) \ {p}
        /\ \A k \in InUse(mem') :
             /\ mem'.scope[k] = IF k = x THEN mem.scope[p] ELSE mem.scope[k]
             /\ mem'.data[k] = IF k = x /\ mem.data[p] # Absent THEN mem.data[p]
                               ELSE mem.data[k]
        /\ Linked(mem', level, cmm) /\ Chained(mem', cmm) /\ Sorted(mem')
    BY <1>1, <1>2, <1>5, DestroyRestoreKeeps
  <2>2. Valued(mem')
    <3>1. mem.data[x] # Absent
      BY <1>1 DEF Valued, Live
    <3> QED
      BY <3>1, <2>1, <1>1 DEF Valued
  <2>3. \A k \in garbage : Live(k) # x /\ Live(k) # p
    BY <2>1, <1>1 DEF Live
  <2>4. Control'
    BY <2>1, <2>3, <1>1, <1>2, <1>5 DEF IInv, Control
  <2> QED
    BY <2>1, <2>2, <2>4, <1>1, <1>5 DEF IInv, TypeOK
<1> QED
  BY <1>3, <1>4, <1>5 DEF DestroyStep

\* The scope leaves d_scopeList before its list is walked.
LEMMA PopScopeHolds == ASSUME IInv, PopScope PROVE IInv'
<1>1. /\ pc = "run" /\ target = Nil /\ goal < level /\ level' = level - 1
      /\ pc' = "restore" /\ UNCHANGED <<goal, cmm, mem, garbage, target>>
      /\ level \in Level /\ goal \in Nat /\ level \in Nat /\ cmm = level
      /\ garbage = {} /\ level - 1 \in Level /\ level > 0
  BY DEF PopScope, IInv, TypeOK, Control, Level
<1>2. Linked(mem, level - 1, level)
  <2>1. \A l \in 0..level : ~(level < l)
    BY SMTT(30), <1>1
  <2> QED
    BY <2>1, <1>1 DEF IInv, Linked, Headed
<1> QED
  BY <1>1, <1>2 DEF IInv, TypeOK, Control

\* One turn of the first loop of ~Scope().
LEMMA RestoreStepHolds == ASSUME IInv, RestoreStep PROVE IInv'
<1> DEFINE x == mem.next[Scope(cmm)]
           p == mem.restore[x]
<1>1. /\ pc = "restore" /\ x # Nil /\ mem' = RestoreFirst(mem, cmm)
      /\ garbage' = IF mem.data[p] = Absent THEN garbage \cup {x[1]} ELSE garbage
      /\ UNCHANGED <<level, goal, cmm, target, pc>>
  BY DEF RestoreStep
<1>2. /\ mem \in Memory /\ level \in Level /\ level \in Nat
      /\ cmm = level + 1 /\ level + 1 \in Level
      /\ Linked(mem, level, level + 1) /\ Chained(mem, level + 1) /\ Sorted(mem)
      /\ target = Nil
  BY SMTT(30), <1>1, CellFacts DEF IInv, TypeOK, Control
<1>3. /\ x[1] \in Obj /\ x = Live(x[1]) /\ x \in InUse(mem)
      /\ p = <<x[1], level + 1>> /\ p \in InUse(mem) /\ p # x
      /\ mem.scope[x] = level + 1 /\ mem.scope[p] <= level
      /\ mem' \in Memory
      /\ InUse(mem') = InUse(mem) \ {p}
      /\ \A k \in InUse(mem') :
           /\ mem'.scope[k] = IF k = x THEN mem.scope[p] ELSE mem.scope[k]
           /\ mem'.data[k] = IF k = x /\ mem.data[p] # Absent THEN mem.data[p]
                             ELSE mem.data[k]
      /\ Linked(mem', level, level + 1) /\ Chained(mem', level + 1) /\ Sorted(mem')
  <2>1. x = mem.next[Scope(level + 1)] /\ x # Nil /\ mem' = RestoreFirst(mem, level + 1)
    BY <1>1, <1>2
  <2>2. p = mem.restore[x]
    OBVIOUS
  <2> HIDE DEF x, p
  <2> QED
    BY SMTT(30), <2>1, <2>2, <1>2, RestoreFirstKeeps
<1>4. Valued(mem')
  <2>1. mem.data[x] # Absent
    BY <1>2, <1>3 DEF IInv, Valued
  <2> QED
    BY <2>1, <1>3 DEF IInv, Valued
<1>5. \A o \in garbage' : Live(o) \in InUse(mem') /\ mem'.scope[Live(o)] = 0
  <2>1. \A o \in garbage : Live(o) # x /\ Live(o) # p
    BY <1>2, <1>3 DEF IInv, Control, Live
  <2>2. mem.data[p] = Absent => mem.scope[p] = 0
    BY <1>3 DEF IInv, Valued
  <2> QED
    BY <2>1, <2>2, <1>1, <1>3 DEF IInv, Control
<1>6. garbage' \subseteq Obj
  BY <1>1, <1>3 DEF IInv, TypeOK
<1> QED
  BY <1>1, <1>2, <1>3, <1>4, <1>5, <1>6 DEF IInv, TypeOK, Control

\* The first loop of ~Scope() ends with nothing left in the scope.
LEMMA RestoreDoneHolds == ASSUME IInv, RestoreDone PROVE IInv'
<1>1. /\ pc = "restore" /\ mem.next[Scope(cmm)] = Nil /\ pc' = "collect"
      /\ UNCHANGED <<level, goal, cmm, mem, garbage, target>>
      /\ mem \in Memory /\ cmm \in Level /\ level \in Nat /\ cmm = level + 1
  BY CellFacts DEF RestoreDone, IInv, TypeOK, Control
<1>2. \A n \in InUse(mem) : mem.scope[n] # cmm
  BY <1>1, EmptyList DEF IInv
<1>3. \A n \in InUse(mem) : mem.scope[n] <= cmm /\ mem.scope[n] \in Nat
  BY <1>1, MemoryFields, CellFacts DEF IInv, Linked, Forward, InUse
<1>4. \A n \in InUse(mem) : mem.scope[n] <= level
  BY <1>1, <1>2, <1>3
<1> QED
  BY <1>1, <1>4 DEF IInv, TypeOK, Control

\* Entering deleteSelf() on an enqueued element changes no pointer.
LEMMA CollectHolds == ASSUME IInv, NEW o \in Obj, Collect(o) PROVE IInv'
BY DEF Collect, IInv, TypeOK, Control

\* ContextMemoryManager::pop: no copy is left in the region it releases.
LEMMA PopRegionHolds == ASSUME IInv, PopRegion PROVE IInv'
<1>1. /\ pc = "collect" /\ target = Nil /\ garbage = {} /\ cmm' = cmm - 1 /\ pc' = "run"
      /\ UNCHANGED <<level, goal, mem, garbage, target>>
      /\ mem \in Memory /\ level \in Level /\ level \in Nat
      /\ cmm = level + 1 /\ cmm' = level
      /\ \A n \in InUse(mem) : mem.scope[n] <= level
  BY CellFacts DEF PopRegion, IInv, TypeOK, Control
<1>2. Linked(mem, level, level)
  BY <1>1 DEF IInv, Linked, Forward, Headed
<1>3. Chained(mem, level)
  <2>1. \A n \in InUse(mem) : /\ n[2] \in Nat
                              /\ Live(n[1]) \in InUse(mem)
                              /\ n[2] > 0 => n[2] <= mem.scope[Live(n[1])]
                              /\ mem.scope[Live(n[1])] \in Nat
    BY <1>1, MemoryFields, CellFacts DEF IInv, Chained, InUse
  <2>2. \A n \in InUse(mem) : n[2] <= level
    BY <2>1, <1>1
  <2> QED
    BY <2>2, <1>1 DEF IInv, Chained
<1> QED
  BY <1>1, <1>2, <1>3 DEF IInv, TypeOK, Control

\* Every step of the specification preserves the invariant.
LEMMA StepHolds == IInv /\ [Next]_vars => IInv'
<1> SUFFICES ASSUME IInv, [Next]_vars PROVE IInv'
  OBVIOUS
<1>1. CASE \E o \in Obj : CreateCDO(o) \/ StartDestroy(o)
  BY <1>1, CreateCDOHolds, StartDestroyHolds
<1>2. CASE \E o \in Obj, v \in Data :
             CreateWith(o, Default, v) \/ CreateWith(o, Absent, v) \/ Set(o, v)
  BY <1>2, CreateWithHolds, SetHolds
<1>3. CASE Push
  BY <1>3, PushHolds
<1>4. CASE \E l \in Level : Popto(l)
  BY <1>4, PoptoHolds
<1>5. CASE Unwind
  BY <1>5, PopScopeHolds, RestoreStepHolds, RestoreDoneHolds, CollectHolds,
     PopRegionHolds, DestroyStepHolds DEF Unwind
<1>6. CASE UNCHANGED vars
  BY <1>6 DEF vars, IInv, TypeOK, Control
<1> QED
  BY <1>1, <1>2, <1>3, <1>4, <1>5, <1>6 DEF Next

\* The inductive invariant holds in every reachable state: the lists, the
\* chains of saved copies and the control state of a pop are always consistent.
THEOREM Invariance == Spec => []IInv
BY InitHolds, StepHolds, PTL DEF Spec

-----------------------------------------------------------------------------
(* What follows from the invariant.                                        *)

\* The fields of every node and scope hold what their types say.
THEOREM TypeCorrect == Spec => []TypeOK
BY Invariance, PTL DEF IInv

\* The assertions of operator<<(ostream&, const Scope&) hold for every number
\* of objects and scopes.
THEOREM ListsWellLinked == Spec => []WellLinked
<1>1. IInv => WellLinked
  <2> SUFFICES ASSUME IInv PROVE WellLinked
    OBVIOUS
  <2>1. /\ mem \in Memory /\ level \in Level /\ cmm \in Level /\ level <= cmm
        /\ level \in Nat /\ cmm \in Nat
        /\ Linked(mem, level, cmm)
    BY CellFacts DEF IInv, TypeOK, Control
  <2>2. ASSUME NEW n \in InUse(mem), mem.scope[n] <= level
        PROVE  mem.next[mem.prev[n]] = n
    BY <2>1, <2>2, PrevPointsAt DEF PointsAt
  <2>3. ASSUME NEW l \in 0..level, mem.next[Scope(l)] # Nil
        PROVE  /\ mem.scope[mem.next[Scope(l)]] = l
               /\ mem.prev[mem.next[Scope(l)]] = Scope(l)
    BY <2>1, <2>3 DEF Linked, Headed
  <2> QED
    BY <2>1, <2>2, <2>3 DEF WellLinked, Linked, Forward
<1> QED
  BY <1>1, Invariance, PTL

\* No update, pop or destruction leaves a pointer to freed memory behind.
THEOREM NothingDangles == Spec => []NoDangling
<1>1. IInv => NoDangling
  <2> SUFFICES ASSUME IInv PROVE NoDangling
    OBVIOUS
  <2>1. /\ mem \in Memory /\ level \in Level /\ cmm \in Level /\ level <= cmm
        /\ level \in Nat /\ cmm \in Nat
        /\ Linked(mem, level, cmm) /\ Chained(mem, cmm)
    BY CellFacts DEF IInv, TypeOK, Control
  <2>2. ASSUME NEW n \in InUse(mem)
        PROVE  /\ n[2] <= cmm
               /\ mem.next[n] \in InUse(mem) \cup {Nil}
               /\ mem.prev[n] \in InUse(mem) \cup {Scope(l) : l \in 0..cmm}
               /\ mem.restore[n] \in InUse(mem) \cup {Nil}
    <3>1. mem.scope[n] \in 0..cmm
      BY <2>1, MemoryFields, CellFacts DEF Linked, Forward, InUse
    <3>2. mem.prev[n] \in InUse(mem) \cup {Scope(l) : l \in 0..cmm}
      <4>1. CASE mem.next[Scope(mem.scope[n])] = n
        <5>1. n # Nil
          BY CellFacts DEF InUse
        <5>2. mem.prev[n] \in InUse(mem) \/ mem.prev[n] = Scope(mem.scope[n])
          BY <4>1, <5>1, <3>1, <2>1 DEF Linked, Headed
        <5> QED
          BY <5>2, <3>1
      <4> QED
        BY <4>1, <2>1 DEF Linked, Backward
    <3> QED
      BY <3>1, <3>2, <2>1 DEF Linked, Forward, Chained
  <2>3. \A l \in 0..cmm : mem.next[Scope(l)] \in InUse(mem) \cup {Nil}
    BY <2>1 DEF Linked, Headed
  <2> QED
    BY <2>2, <2>3 DEF NoDangling
<1> QED
  BY <1>1, Invariance, PTL

-----------------------------------------------------------------------------
(* Context implements BacktrackStore.                                      *)

\* The regions above l that hold a copy of o.
Later(m, o, l) == {r \in Level : r > l /\ <<o, r>> \in InUse(m)}

\* The oldest of these copies is in region r.
Oldest(m, o, l, r) == r \in Later(m, o, l) /\ \A k \in Later(m, o, l) : r <= k

\* A set of numbers has a least element.
LEMMA LeastNumber ==
  ASSUME NEW T, T \subseteq Nat, T # {}
  PROVE  \E r \in T : \A k \in T : r <= k
<1> DEFINE Less == OpToRel(<, Nat)
<1>0. IsWellFoundedOn(Less, Nat)
  BY NatLessThanWellFounded
<1>d. \A k, r \in Nat : k < r => <<k, r>> \in Less
  BY DEF OpToRel
<1> HIDE DEF Less
<1>1. PICK r \in T : \A k \in T : ~(<<k, r>> \in Less)
  BY <1>0, WFMin
<1>2. \A k \in T : ~(k < r)
  BY <1>1, <1>d
<1>3. ASSUME NEW k \in T PROVE r <= k
  <2>1. k \in Nat /\ r \in Nat /\ ~(k < r)
    BY <1>2
  <2> QED
    BY ONLY <2>1
<1> QED
  BY ONLY <1>3

\* If there are copies above l, one is the oldest.
LEMMA OldestExists ==
  ASSUME NEW m, NEW o, NEW l, Later(m, o, l) # {}
  PROVE  \E r \in Level : Oldest(m, o, l, r)
<1>1. Later(m, o, l) \subseteq Nat /\ Later(m, o, l) \subseteq Level
  BY CellFacts DEF Later
<1> QED
  BY <1>1, LeastNumber DEF Oldest

\* The value in force at l is that of the oldest copy above l.
LEMMA ValueSaved ==
  ASSUME NEW m, NEW o, NEW l, NEW r, Oldest(m, o, l, r)
  PROVE  ValueAt(m, o, l) = m.data[<<o, r>>]
<1>1. Later(m, o, l) # {} /\ Later(m, o, l) \subseteq Nat
  BY CellFacts DEF Later, Oldest
<1>2. PICK x : x = CHOOSE k \in Later(m, o, l) : \A j \in Later(m, o, l) : k <= j
  OBVIOUS
<1>3. x \in Later(m, o, l) /\ \A j \in Later(m, o, l) : x <= j
  BY <1>2 DEF Oldest
<1>4. x = r
  BY <1>1, <1>3 DEF Oldest
<1> QED
  BY <1>1, <1>2, <1>4 DEF ValueAt, Later

\* Without a copy above l it is the object's own.
LEMMA ValueCurrent ==
  ASSUME NEW m, NEW o, NEW l, Later(m, o, l) = {}
  PROVE  ValueAt(m, o, l) = m.data[Live(o)]
BY DEF ValueAt, Later

\* The value only depends on the copies above l and what they hold.
LEMMA ValueSame ==
  ASSUME NEW m, NEW q, NEW o, NEW l, Later(q, o, l) = Later(m, o, l),
         \A r \in Later(m, o, l) : q.data[<<o, r>>] = m.data[<<o, r>>],
         Later(m, o, l) = {} => q.data[Live(o)] = m.data[Live(o)]
  PROVE  ValueAt(q, o, l) = ValueAt(m, o, l)
<1>1. CASE Later(m, o, l) = {}
  BY <1>1, ValueCurrent
<1>2. CASE Later(m, o, l) # {}
  <2>1. PICK r \in Level : Oldest(m, o, l, r)
    BY <1>2, OldestExists
  <2>2. Oldest(q, o, l, r) /\ q.data[<<o, r>>] = m.data[<<o, r>>]
    BY <2>1 DEF Oldest
  <2> QED
    BY <2>1, <2>2, ValueSaved
<1> QED
  BY <1>1, <1>2

\* No copy is above the top level while no scope is being deleted.
LEMMA NoneAbove ==
  ASSUME NEW m, NEW lv \in Level, Chained(m, lv), NEW o \in Obj
  PROVE  Later(m, o, lv) = {}
<1>1. \A r \in Level : <<o, r>> \in InUse(m) => r <= lv
  BY DEF Chained
<1> QED
  BY <1>1, CellFacts DEF Later

\* Two memories that agree on the nodes of an object agree on its values.
LEMMA ObjectSame ==
  ASSUME NEW m, NEW q, NEW k \in Obj, NEW l,
         \A n \in Node : n[1] = k => n \in InUse(q) <=> n \in InUse(m),
         \A n \in InUse(m) : n[1] = k => q.data[n] = m.data[n]
  PROVE  /\ Live(k) \in InUse(m) => ValueAt(q, k, l) = ValueAt(m, k, l)
         /\ Live(k) \in InUse(q) <=> Live(k) \in InUse(m)
<1>1. \A r \in Level : /\ <<k, r>> \in Node /\ <<k, r>>[1] = k
  BY CellFacts
<1>2. Live(k) \in Node /\ Live(k)[1] = k
  BY CellFacts DEF Live
<1>3. Later(q, k, l) = Later(m, k, l)
  BY <1>1 DEF Later
<1>4. \A r \in Later(m, k, l) : q.data[<<k, r>>] = m.data[<<k, r>>]
  BY <1>1 DEF Later
<1>5. Live(k) \in InUse(m) => q.data[Live(k)] = m.data[Live(k)]
  BY <1>2
<1> QED
  BY <1>2, <1>3, <1>4, <1>5, ValueSame

\* The abstract store, and what it holds of an object at a level.
Snap == [l \in 0..level |-> [o \in Obj |-> Visible(o, l)]]

\* Snap is the function of levels the refinement mapping of Context.tla names.
LEMMA SnapAt == \A l \in 0..level, o \in Obj : Snap[l][o] = Visible(o, l)
BY DEF Snap

\* The abstract variables and initial state, in terms of Snap.
LEMMA StoreIs ==
  /\ Store!vars = <<level, Snap>>
  /\ Store!Init <=> level = 0 /\ Snap = [l \in 0..0 |-> [o \in Obj |-> Absent]]
BY DEF Store!vars, Store!Init, Snap

\* The abstract steps, pointwise.
LEMMA Stutters ==
  ASSUME level' = level,
         \A l \in 0..level, k \in Obj : Visible(k, l)' = Visible(k, l)
  PROVE  UNCHANGED Store!vars
<1>1. Snap' = Snap
  BY DEF Snap
<1> QED
  BY <1>1 DEF Store!vars, Snap

\* A new object that holds v at the top level and b below it.
LEMMA Creates ==
  ASSUME NEW o \in Obj, NEW b, NEW v, level' = level,
         \A l \in 0..level : Visible(o, l) = Absent,
         \A l \in 0..level : Visible(o, l)' = IF l = level THEN v ELSE b,
         \A l \in 0..level, k \in Obj : k # o => Visible(k, l)' = Visible(k, l)
  PROVE  Store!Create(o, b, v)
<1>1. \A l \in 0..level : Snap[l][o] = Absent
  BY SnapAt
<1>2. ASSUME NEW l \in 0..level
      PROVE  [k \in Obj |-> Visible(k, l)'] = [Snap[l] EXCEPT ![o] = IF l = level THEN v ELSE b]
  <2>1. Snap[l] = [k \in Obj |-> Visible(k, l)]
    BY DEF Snap
  <2> QED
    BY <2>1
<1>3. Snap' = [l \in 0..level |-> [Snap[l] EXCEPT ![o] = IF l = level THEN v ELSE b]]
  BY <1>2 DEF Snap
<1> QED
  BY <1>1, <1>3 DEF Store!Create, Snap

\* A new value for o at the top level only.
LEMMA Writes ==
  ASSUME level \in Nat, NEW o \in Obj, NEW v, level' = level,
         Visible(o, level) # Absent,
         Visible(o, level)' = v,
         \A l \in 0..level : l # level => Visible(o, l)' = Visible(o, l),
         \A l \in 0..level, k \in Obj : k # o => Visible(k, l)' = Visible(k, l)
  PROVE  Store!Write(o, v)
<1>0. level \in 0..level
  OBVIOUS
<1>1. Snap[level][o] # Absent
  BY <1>0, SnapAt
<1>2. Snap[level] = [k \in Obj |-> Visible(k, level)]
  BY <1>0 DEF Snap
<1>3. [k \in Obj |-> Visible(k, level)'] = [Snap[level] EXCEPT ![o] = v]
  BY <1>0, <1>2
<1>4. \A l \in 0..level : l # level => [k \in Obj |-> Visible(k, l)'] = Snap[l]
  BY DEF Snap
<1>5. Snap' = [Snap EXCEPT ![level] = [Snap[level] EXCEPT ![o] = v]]
  <2>1. Snap' = [l \in 0..level |-> [k \in Obj |-> Visible(k, l)']]
    BY DEF Snap
  <2>2. DOMAIN Snap = 0..level /\ Snap = [l \in 0..level |-> Snap[l]]
    BY DEF Snap
  <2> DEFINE W == [Snap EXCEPT ![level] = [Snap[level] EXCEPT ![o] = v]]
  <2>3. W = [l \in 0..level |-> W[l]]
    BY <2>2
  <2>4. ASSUME NEW l \in 0..level
        PROVE  W[l] = [k \in Obj |-> Visible(k, l)']
    <3>1. CASE l = level
      BY <3>1, <2>2, <1>3
    <3>2. CASE l # level
      BY <3>2, <2>2, <1>4
    <3> QED
      BY <3>1, <3>2
  <2> HIDE DEF W
  <2>5. Snap' = W
    BY <2>1, <2>3, <2>4
  <2> QED
    BY <2>5 DEF W
<1> QED
  BY <1>1, <1>5 DEF Store!Write, Snap

\* o holds nothing any more, at any level.
LEMMA Destroys ==
  ASSUME level \in Nat, NEW o \in Obj, level' = level,
         Visible(o, level) # Absent,
         \A l \in 0..level : Visible(o, l)' = Absent,
         \A l \in 0..level, k \in Obj : k # o => Visible(k, l)' = Visible(k, l)
  PROVE  Store!Destroy(o)
<1>1. Snap[level][o] # Absent
  BY SnapAt
<1>2. ASSUME NEW l \in 0..level
      PROVE  [k \in Obj |-> Visible(k, l)'] = [Snap[l] EXCEPT ![o] = Absent]
  <2>1. Snap[l] = [k \in Obj |-> Visible(k, l)]
    BY DEF Snap
  <2> QED
    BY <2>1
<1>3. Snap' = [l \in 0..level |-> [Snap[l] EXCEPT ![o] = Absent]]
  BY <1>2 DEF Snap
<1> QED
  BY <1>1, <1>3 DEF Store!Destroy, Snap

\* One more level, a copy of the former top one.
LEMMA Pushes ==
  ASSUME level \in Nat, level < MaxLevel, level' = level + 1,
         \A l \in 0..(level + 1), k \in Obj :
           l = level + 1 => Visible(k, l)' = Visible(k, level),
         \A l \in 0..level, k \in Obj : Visible(k, l)' = Visible(k, l)
  PROVE  Store!Push
<1>1. Snap' = [l \in 0..(level + 1) |-> [k \in Obj |-> Visible(k, l)']]
  BY DEF Snap
<1>2. \A l \in 0..level : Snap[l] = [k \in Obj |-> Visible(k, l)]
  BY DEF Snap
<1>3. level \in 0..level /\ \A l \in 0..(level + 1) : l # level + 1 => l \in 0..level
  OBVIOUS
<1>4. ASSUME NEW l \in 0..(level + 1)
      PROVE  [k \in Obj |-> Visible(k, l)'] = IF l = level + 1 THEN Snap[level] ELSE Snap[l]
  <2>1. CASE l = level + 1
    <3>1. [k \in Obj |-> Visible(k, l)'] = [k \in Obj |-> Visible(k, level)]
      BY <2>1
    <3> QED
      BY <2>1, <3>1, <1>2, <1>3
  <2>2. CASE l # level + 1
    BY <2>2, <1>2, <1>3
  <2> QED
    BY <2>1, <2>2
<1>5. Snap' = [l \in 0..(level + 1) |-> IF l = level + 1 THEN Snap[level] ELSE Snap[l]]
  BY <1>1, <1>4
<1> QED
  BY <1>5 DEF Store!Push, Snap

\* The top level goes, the others stay as they are.
LEMMA Pops ==
  ASSUME level \in Nat, level > 0, level' = level - 1,
         \A l \in 0..(level - 1), k \in Obj : Visible(k, l)' = Visible(k, l)
  PROVE  Store!Pop
<1>1. Snap' = [l \in 0..(level - 1) |-> [k \in Obj |-> Visible(k, l)']]
  BY DEF Snap
<1>2. \A l \in 0..(level - 1) : Snap[l] = [k \in Obj |-> Visible(k, l)]
  BY DEF Snap
<1>3. Snap' = [l \in 0..(level - 1) |-> Snap[l]]
  BY <1>1, <1>2
<1> QED
  BY <1>3 DEF Store!Pop, Snap

\* An object that is not being deleted holds a value at the top level.
LEMMA HasValue ==
  ASSUME IInv, Idle, NEW o \in Obj, Live(o) \in InUse(mem)
  PROVE  Visible(o, level) # Absent
<1>1. Chained(mem, level) /\ level \in Level /\ garbage = {} /\ o # target /\ Valued(mem)
  BY DEF IInv, TypeOK, Control, Idle
<1>2. ValueAt(mem, o, level) = mem.data[Live(o)]
  BY <1>1, NoneAbove, ValueCurrent
<1>3. mem.data[Live(o)] # Absent
  BY <1>1 DEF Valued, Live
<1> QED
  BY <1>1, <1>2, <1>3 DEF Visible

\* Objects that a step neither changes nor marks keep their values.
LEMMA VisibleSame ==
  ASSUME NEW k \in Obj, NEW l,
         k = target' <=> k = target, k \in garbage' <=> k \in garbage,
         \A n \in Node : n[1] = k => n \in InUse(mem') <=> n \in InUse(mem),
         \A n \in InUse(mem) : n[1] = k => mem'.data[n] = mem.data[n]
  PROVE  Visible(k, l)' = Visible(k, l)
<1>1. /\ Live(k) \in InUse(mem) => ValueAt(mem', k, l) = ValueAt(mem, k, l)
      /\ Live(k) \in InUse(mem') <=> Live(k) \in InUse(mem)
  BY ObjectSame
<1>2. Visible(k, l)' = IF k = target' \/ k \in garbage' \/ Live(k) \notin InUse(mem')
                       THEN Absent ELSE ValueAt(mem', k, l)
  BY DEF Visible
<1> QED
  BY <1>1, <1>2 DEF Visible

\* The initial state: a store of one level without objects.
LEMMA InitMaps == Init => Store!Init
<1> SUFFICES ASSUME Init PROVE Store!Init
  OBVIOUS
<1>1. level = 0 /\ InUse(mem) = {}
  BY DEF Init, InUse
<1>2. \A o \in Obj, l \in 0..0 : Visible(o, l) = Absent
  BY <1>1 DEF Visible
<1>3. Snap = [l \in 0..0 |-> [o \in Obj |-> Absent]]
  BY <1>1, <1>2 DEF Snap
<1> QED
  BY <1>1, <1>3, StoreIs

\* The constructor CDO(Context*) creates an object that holds T() everywhere.
LEMMA CreateCDOMaps ==
  ASSUME IInv, NEW o \in Obj, CreateCDO(o)
  PROVE  Store!Create(o, Default, Default)
<1>1. /\ Idle /\ Live(o) \notin InUse(mem) /\ mem' = Construct(mem, o, Default)
      /\ UNCHANGED <<level, goal, cmm, garbage, target, pc>>
  BY DEF CreateCDO
<1>2. /\ mem \in Memory /\ level \in Level /\ cmm = level
      /\ Linked(mem, level, level) /\ Chained(mem, level) /\ Sorted(mem)
      /\ garbage = {} /\ o # target /\ mem.data \in [Node -> Data \cup {Absent}]
  BY <1>1, MemoryFields DEF IInv, TypeOK, Control, Idle
<1>3. /\ InUse(mem') = InUse(mem) \cup {Live(o)}
      /\ mem'.data = [mem.data EXCEPT ![Live(o)] = Default]
  <2>1. /\ mem \in Memory /\ level \in Level
        /\ Linked(mem, level, level) /\ Chained(mem, level) /\ Sorted(mem)
        /\ Live(o) \notin InUse(mem) /\ mem' = Construct(mem, o, Default)
    BY <1>1, <1>2
  <2>2. /\ mem' \in Memory
        /\ InUse(mem') = InUse(mem) \cup {Live(o)}
        /\ mem'.scope = [mem.scope EXCEPT ![Live(o)] = 0]
        /\ mem'.data = [mem.data EXCEPT ![Live(o)] = Default]
    BY <2>1, ConstructKeeps
  <2> QED
    BY <2>2
<1>4. Live(o) \in Node /\ Live(o)[1] = o
  BY CellFacts DEF Live
<1>5. \A l \in 0..level : Visible(o, l) = Absent
  BY <1>1 DEF Visible
<1>6. ASSUME NEW l \in 0..level PROVE Visible(o, l)' = Default
  <2>1. Later(mem', o, l) = {}
    <3>1. \A r \in Level : <<o, r>> \notin InUse(mem)
      BY <1>1, <1>2 DEF Chained
    <3>2. \A r \in Level : r > l => <<o, r>> # Live(o)
      BY CellFacts DEF Live
    <3> QED
      BY <3>1, <3>2, <1>3 DEF Later
  <2>2. ValueAt(mem', o, l) = Default
    BY <2>1, <1>2, <1>3, <1>4, ValueCurrent
  <2>3. Live(o) \in InUse(mem') /\ o # target' /\ o \notin garbage'
    BY <1>1, <1>2, <1>3
  <2> QED
    BY <2>2, <2>3 DEF Visible
<1>7. ASSUME NEW l \in 0..level, NEW k \in Obj, k # o PROVE Visible(k, l)' = Visible(k, l)
  <2>1. \A n \in Node : n[1] = k => n \in InUse(mem') <=> n \in InUse(mem)
    BY <1>3, <1>4, <1>7
  <2>2. \A n \in InUse(mem) : n[1] = k => mem'.data[n] = mem.data[n]
    BY <1>2, <1>3, <1>4, <1>7 DEF InUse
  <2> QED
    BY <2>1, <2>2, <1>1, VisibleSame
<1>8. level' = level
  BY <1>1
<1> QED
  BY <1>5, <1>6, <1>7, <1>8, Creates

\* The assignment that follows makeCurrent().
Assigned(r, q, o, v) == r = [q EXCEPT !.data[Live(o)] = v]

\* makeCurrent() and an assignment, as seen from the levels: the new value is in
\* force at the top level, the former one below it.
LEMMA CurrentValues ==
  ASSUME NEW m \in Memory, NEW o \in Obj, NEW v \in Data, NEW lv \in Level,
         Linked(m, lv, lv), Chained(m, lv), Sorted(m), Live(o) \in InUse(m),
         NEW q, q = MakeCurrent(m, o, lv, lv),
         NEW r, Assigned(r, q, o, v)
  PROVE  /\ Live(o) \in InUse(r)
         /\ ValueAt(r, o, lv) = v
         /\ \A l \in 0..lv : l # lv => ValueAt(r, o, l) = ValueAt(m, o, l)
         /\ \A n \in Node : n[1] # o => n \in InUse(r) <=> n \in InUse(m)
         /\ \A n \in InUse(m) : n[1] # o => r.data[n] = m.data[n]
<1>m. /\ m.scope \in [Node -> Level] /\ InUse(m) \subseteq Node
      /\ Live(o) \in Node /\ Live(o)[1] = o /\ <<o, lv>> \in Node
      /\ lv \in Nat /\ Level \subseteq Nat
  BY MemoryFields, CellFacts DEF InUse, Live
<1>n. \A k \in Level : k > 0 => <<o, k>> \in Node /\ <<o, k>> # Live(o) /\ <<o, k>>[1] = o
  BY CellFacts DEF Live
<1>s. m.scope[Live(o)] \in Nat /\ m.scope[Live(o)] <= lv
  BY <1>m DEF Linked, Forward
<1>1. CASE m.scope[Live(o)] = lv
  <2>1. q = m
    BY <1>1 DEF MakeCurrent
  <2>2. InUse(r) = InUse(m)
    BY <2>1 DEF InUse, Assigned
  <2>3. /\ r.data[Live(o)] = v
        /\ \A n \in Node : n # Live(o) => r.data[n] = m.data[n]
    BY <2>1, <1>m, MemoryFields DEF Assigned
  <2>4. Later(r, o, lv) = {}
    BY <2>2, NoneAbove DEF Later
  <2>5. ASSUME NEW l \in 0..lv, l # lv
        PROVE  ValueAt(r, o, l) = ValueAt(m, o, l)
    <3>1. Later(r, o, l) = Later(m, o, l)
      BY <2>2 DEF Later
    <3>2. lv > 0 /\ <<o, lv>> \in InUse(m)
      BY <2>5, <1>1, <1>m DEF Chained, Live
    <3>3. lv \in Later(m, o, l)
      BY <3>2, <2>5, <1>m DEF Later
    <3>4. \A k \in Later(m, o, l) : r.data[<<o, k>>] = m.data[<<o, k>>]
      <4> SUFFICES ASSUME NEW k \in Later(m, o, l)
                   PROVE  r.data[<<o, k>>] = m.data[<<o, k>>]
        OBVIOUS
      <4>1. k \in Level /\ k > 0
        BY <1>m DEF Later
      <4> QED
        BY <4>1, <1>n, <2>3
    <3>5. Later(m, o, l) # {}
      BY <3>3
    <3> QED
      BY <3>1, <3>4, <3>5, ValueSame
  <2>6. ASSUME NEW n \in Node, n[1] # o
        PROVE  (n \in InUse(r) <=> n \in InUse(m)) /\ r.data[n] = m.data[n]
    BY <2>6, <2>2, <2>3, <1>m
  <2>v. ValueAt(r, o, lv) = v
    BY <2>3, <2>4, ValueCurrent
  <2>u. Live(o) \in InUse(r)
    BY <2>2
  <2>w. /\ \A n \in Node : n[1] # o => n \in InUse(r) <=> n \in InUse(m)
        /\ \A n \in InUse(m) : n[1] # o => r.data[n] = m.data[n]
    BY <2>6, <1>m
  <2> QED
    BY <2>5, <2>v, <2>u, <2>w
<1>2. CASE m.scope[Live(o)] # lv
  <2>1. q = Update(m, o, lv, lv)
    BY <1>2 DEF MakeCurrent
  <2>2. /\ q \in Memory
        /\ <<o, lv>> \notin InUse(m)
        /\ InUse(q) = InUse(m) \cup {<<o, lv>>}
        /\ \A k \in Node :
             q.data[k] = IF k = <<o, lv>> THEN m.data[Live(o)] ELSE m.data[k]
        /\ Chained(q, lv)
    BY <2>1, <1>2, UpdateKeeps
  <2>3. lv > 0 /\ <<o, lv>> # Live(o)
    BY <1>2, <1>s, <1>m, <1>n
  <2>4. InUse(r) = InUse(m) \cup {<<o, lv>>}
    BY <2>2 DEF InUse, Assigned
  <2>5. /\ r.data[Live(o)] = v
        /\ r.data[<<o, lv>>] = m.data[Live(o)]
        /\ \A n \in Node : n # Live(o) /\ n # <<o, lv>> => r.data[n] = m.data[n]
    <3>1. q.data \in [Node -> Data \cup {Absent}]
      BY <2>2, MemoryFields
    <3>2. r.data = [q.data EXCEPT ![Live(o)] = v]
      BY <2>2 DEF Memory, Assigned
    <3> QED
      BY <3>1, <3>2, <2>2, <2>3, <1>m
  <2>6. Later(r, o, lv) = {}
    <3>1. Later(q, o, lv) = {}
      BY <2>2, NoneAbove
    <3> QED
      BY <3>1, <2>2, <2>4 DEF Later
  <2>7. ASSUME NEW l \in 0..lv, l # lv
        PROVE  ValueAt(r, o, l) = ValueAt(m, o, l)
    <3>1. Later(r, o, l) = Later(m, o, l) \cup {lv}
      <4>1. \A k \in Level : <<o, k>> \in InUse(r) <=> <<o, k>> \in InUse(m) \/ k = lv
        BY <2>4
      <4>2. lv \in Level /\ lv > l
        BY <2>7, <1>m
      <4> QED
        BY <4>1, <4>2 DEF Later
    <3>2. CASE Later(m, o, l) = {}
      <4>1. Oldest(r, o, l, lv)
        BY <3>1, <3>2, <1>m DEF Oldest
      <4>2. ValueAt(r, o, l) = r.data[<<o, lv>>]
        BY <4>1, ValueSaved
      <4>3. ValueAt(m, o, l) = m.data[Live(o)]
        BY <3>2, ValueCurrent
      <4> QED
        BY <4>2, <4>3, <2>5
    <3>3. CASE Later(m, o, l) # {}
      <4>1. PICK k \in Level : Oldest(m, o, l, k)
        BY <3>3, OldestExists
      <4>2. k \in Level /\ k > 0 /\ <<o, k>> \in InUse(m) /\ k <= lv
        BY <4>1, <1>m DEF Oldest, Later, Chained
      <4>3. Oldest(r, o, l, k)
        BY <4>1, <4>2, <3>1 DEF Oldest
      <4>4. r.data[<<o, k>>] = m.data[<<o, k>>]
        BY <4>2, <2>2, <2>5, <1>n
      <4>5. ValueAt(r, o, l) = r.data[<<o, k>>]
        BY <4>3, ValueSaved
      <4>6. ValueAt(m, o, l) = m.data[<<o, k>>]
        BY <4>1, ValueSaved
      <4> QED
        BY <4>4, <4>5, <4>6
    <3> QED
      BY <3>2, <3>3
  <2>8. ASSUME NEW n \in Node, n[1] # o
        PROVE  (n \in InUse(r) <=> n \in InUse(m)) /\ r.data[n] = m.data[n]
    BY <2>8, <2>4, <2>5, <1>m
  <2>v. ValueAt(r, o, lv) = v
    BY <2>5, <2>6, ValueCurrent
  <2>u. Live(o) \in InUse(r)
    BY <2>4
  <2>w. /\ \A n \in Node : n[1] # o => n \in InUse(r) <=> n \in InUse(m)
        /\ \A n \in InUse(m) : n[1] # o => r.data[n] = m.data[n]
    BY <2>8, <1>m
  <2> QED
    BY <2>7, <2>v, <2>u, <2>w
<1> QED
  BY <1>1, <1>2

\* The constructors that assign: the new value at the top level, the base below.
LEMMA CreateWithMaps ==
  ASSUME IInv, NEW o \in Obj, NEW v \in Data, NEW base \in Data \cup {Absent},
         CreateWith(o, base, v)
  PROVE  Store!Create(o, base, v)
<1>1. /\ Idle /\ Live(o) \notin InUse(mem)
      /\ UNCHANGED <<level, goal, cmm, garbage, target, pc>>
  BY DEF CreateWith
<1>2. /\ mem \in Memory /\ level \in Level /\ cmm = level
      /\ Linked(mem, level, level) /\ Chained(mem, level) /\ Sorted(mem)
      /\ garbage = {} /\ o # target /\ mem.data \in [Node -> Data \cup {Absent}]
  BY <1>1, MemoryFields DEF IInv, TypeOK, Control, Idle
<1>3. PICK m : m = Construct(mem, o, base)
  OBVIOUS
<1>4. PICK q : q = MakeCurrent(m, o, level, level)
  OBVIOUS
<1>5. Assigned(mem', q, o, v)
  BY <1>2, <1>3, <1>4 DEF CreateWith, Assigned
<1>6. /\ m \in Memory
      /\ InUse(m) = InUse(mem) \cup {Live(o)}
      /\ m.scope = [mem.scope EXCEPT ![Live(o)] = 0]
      /\ m.data = [mem.data EXCEPT ![Live(o)] = base]
      /\ Linked(m, level, level) /\ Chained(m, level) /\ Sorted(m)
  BY <1>1, <1>2, <1>3, ConstructKeeps
<1>7. Live(o) \in Node /\ Live(o)[1] = o
  BY CellFacts DEF Live
<1>8. /\ Live(o) \in InUse(mem')
      /\ ValueAt(mem', o, level) = v
      /\ \A l \in 0..level : l # level => ValueAt(mem', o, l) = ValueAt(m, o, l)
      /\ \A n \in Node : n[1] # o => n \in InUse(mem') <=> n \in InUse(m)
      /\ \A n \in InUse(m) : n[1] # o => mem'.data[n] = m.data[n]
  <2>1. /\ m \in Memory /\ level \in Level
        /\ Linked(m, level, level) /\ Chained(m, level) /\ Sorted(m) /\ Live(o) \in InUse(m)
    BY <1>2, <1>6
  <2> QED
    BY <2>1, <1>4, <1>5, CurrentValues
<1>9. \A l \in 0..level : ValueAt(m, o, l) = base
  <2> SUFFICES ASSUME NEW l \in 0..level PROVE ValueAt(m, o, l) = base
    OBVIOUS
  <2>1. \A r \in Level : <<o, r>> \notin InUse(mem)
    BY <1>1, <1>2 DEF Chained
  <2>2. \A r \in Level : r > l => <<o, r>> # Live(o)
    BY CellFacts DEF Live
  <2>3. Later(m, o, l) = {}
    BY <2>1, <2>2, <1>6 DEF Later
  <2>4. m.data[Live(o)] = base
    BY <1>2, <1>6, <1>7
  <2> QED
    BY <2>3, <2>4, ValueCurrent
<1>10. \A l \in 0..level : Visible(o, l) = Absent
  BY <1>1 DEF Visible
<1>11. \A l \in 0..level : Visible(o, l)' = IF l = level THEN v ELSE base
  <2>1. Live(o) \in InUse(mem') /\ o # target' /\ o \notin garbage'
    BY <1>1, <1>2, <1>8
  <2>2. \A l \in 0..level : Visible(o, l)' = ValueAt(mem', o, l)
    BY <2>1 DEF Visible
  <2> QED
    BY <2>2, <1>8, <1>9
<1>12. ASSUME NEW l \in 0..level, NEW k \in Obj, k # o PROVE Visible(k, l)' = Visible(k, l)
  <2>1. \A n \in Node : n[1] = k => n \in InUse(mem') <=> n \in InUse(mem)
    BY <1>6, <1>7, <1>8, <1>12
  <2>2. \A n \in InUse(mem) : n[1] = k => mem'.data[n] = mem.data[n]
    BY <1>2, <1>6, <1>7, <1>8, <1>12 DEF InUse
  <2> QED
    BY <2>1, <2>2, <1>1, VisibleSame
<1>13. level' = level
  BY <1>1
<1> QED
  BY <1>10, <1>11, <1>12, <1>13, Creates

\* set() writes at the top level.
LEMMA SetMaps ==
  ASSUME IInv, NEW o \in Obj, NEW v \in Data, Set(o, v)
  PROVE  Store!Write(o, v)
<1>1. /\ Idle /\ Live(o) \in InUse(mem)
      /\ UNCHANGED <<level, goal, cmm, garbage, target, pc>>
  BY DEF Set
<1>2. /\ mem \in Memory /\ level \in Level /\ level \in Nat /\ cmm = level
      /\ Linked(mem, level, level) /\ Chained(mem, level) /\ Sorted(mem)
      /\ garbage = {} /\ o # target
  BY <1>1, CellFacts DEF IInv, TypeOK, Control, Idle
<1>3. PICK q : q = MakeCurrent(mem, o, level, level)
  OBVIOUS
<1>4. Assigned(mem', q, o, v)
  BY <1>2, <1>3 DEF Set, Assigned
<1>5. /\ Live(o) \in InUse(mem')
      /\ ValueAt(mem', o, level) = v
      /\ \A l \in 0..level : l # level => ValueAt(mem', o, l) = ValueAt(mem, o, l)
      /\ \A n \in Node : n[1] # o => n \in InUse(mem') <=> n \in InUse(mem)
      /\ \A n \in InUse(mem) : n[1] # o => mem'.data[n] = mem.data[n]
  BY <1>1, <1>2, <1>3, <1>4, CurrentValues
<1>6. Visible(o, level) # Absent
  BY <1>1, HasValue
<1>7. \A l \in 0..level : /\ Visible(o, l)' = ValueAt(mem', o, l)
                          /\ Visible(o, l) = ValueAt(mem, o, l)
  <2>1. Live(o) \in InUse(mem') /\ o # target' /\ o \notin garbage' /\ o \notin garbage
    BY <1>1, <1>2, <1>5
  <2> QED
    BY <2>1, <1>1, <1>2 DEF Visible
<1>8. Visible(o, level)' = v
  <2>1. level \in 0..level /\ level' = level
    BY <1>1, <1>2
  <2> QED
    BY <2>1, <1>5, <1>7
<1>9. ASSUME NEW l \in 0..level, NEW k \in Obj, k # o PROVE Visible(k, l)' = Visible(k, l)
  BY <1>1, <1>5, <1>9, VisibleSame
<1> QED
  BY <1>1, <1>2, <1>5, <1>6, <1>7, <1>8, <1>9, Writes

\* An object is gone for its client as soon as its destructor begins.
LEMMA StartDestroyMaps ==
  ASSUME IInv, NEW o \in Obj, StartDestroy(o)
  PROVE  Store!Destroy(o)
<1>1. /\ Idle /\ Live(o) \in InUse(mem) /\ target' = o
      /\ UNCHANGED <<level, goal, cmm, mem, garbage, pc>>
      /\ level \in Nat /\ target = Nil
  BY CellFacts DEF StartDestroy, IInv, TypeOK, Idle
<1>2. Visible(o, level) # Absent
  BY <1>1, HasValue
<1>3. \A l \in 0..level : Visible(o, l)' = Absent
  BY <1>1 DEF Visible
<1>4. ASSUME NEW l \in 0..level, NEW k \in Obj, k # o PROVE Visible(k, l)' = Visible(k, l)
  BY <1>1, <1>4, VisibleSame
<1> QED
  BY <1>1, <1>2, <1>3, <1>4, Destroys

\* What destroy() does to the versions is not seen.
LEMMA DestroyStepMaps ==
  ASSUME IInv, DestroyStep
  PROVE  UNCHANGED Store!vars
<1> DEFINE x == Live(target)
           p == mem.restore[x]
<1>1. /\ target \in Obj /\ x \in InUse(mem) /\ target \notin garbage
      /\ mem \in Memory /\ level \in Level /\ cmm \in Level /\ cmm <= level + 1
      /\ Linked(mem, level, cmm) /\ Chained(mem, cmm) /\ Sorted(mem)
      /\ UNCHANGED <<level, goal, cmm, garbage, pc>>
      /\ pc \in {"run", "collect"} /\ x[1] = target
  <2>1. cmm = level \/ cmm = level + 1
    BY DEF IInv, Control
  <2> QED
    BY <2>1 DEF DestroyStep, IInv, TypeOK, Control, Level, Live
<1>2. \A n \in InUse(mem) : mem.scope[n] <= level
  <2>1. CASE pc = "run"
    BY <2>1 DEF IInv, Control, Linked, Forward
  <2>2. CASE pc = "collect"
    BY <2>2 DEF IInv, Control
  <2> QED
    BY <2>1, <2>2, <1>1
<1>3. Unlink(mem, target).restore = mem.restore
  <2>1. mem.prev[x] \in Cell
    BY <1>1, <1>2, PrevPointsAt DEF PointsAt
  <2> QED
    BY <2>1, <1>1, UnlinkFields
<1>4. /\ target' \in {target, Nil}
      /\ target' = Nil => x \notin InUse(mem')
      /\ \A n \in Node : n[1] # target => n \in InUse(mem') <=> n \in InUse(mem)
      /\ \A n \in InUse(mem) : n[1] # target => mem'.data[n] = mem.data[n]
  <2>1. CASE p = Nil /\ mem' = Release(Unlink(mem, target), target) /\ target' = Nil
    <3>1. /\ InUse(mem') = InUse(mem) \ {x}
          /\ \A k \in InUse(mem') : /\ k[1] # target
                                    /\ mem'.scope[k] = mem.scope[k]
                                    /\ mem'.data[k] = mem.data[k]
      BY <1>1, <1>2, <2>1, DestroyReleaseKeeps
    <3> QED
      BY <3>1, <2>1, <1>1
  <2>2. CASE p # Nil /\ mem' = RestoreAndContinue(Unlink(mem, target), target) /\ target' = target
    <3>1. /\ p = <<target, mem.scope[x]>> /\ p \in InUse(mem) /\ p # x
          /\ InUse(mem') = InUse(mem) \ {p}
          /\ \A k \in InUse(mem') :
               /\ mem'.scope[k] = IF k = x THEN mem.scope[p] ELSE mem.scope[k]
               /\ mem'.data[k] = IF k = x /\ mem.data[p] # Absent THEN mem.data[p]
                                 ELSE mem.data[k]
      BY <1>1, <1>2, <2>2, DestroyRestoreKeeps
    <3>2. p[1] = target /\ target # Nil
      BY <3>1, <1>1
    <3> QED
      BY <3>1, <3>2, <2>2, <1>1
  <2> QED
    BY <1>3, <2>1, <2>2 DEF DestroyStep
<1>5. ASSUME NEW l \in 0..level, NEW k \in Obj PROVE Visible(k, l)' = Visible(k, l)
  <2>1. CASE k = target
    <3>1. Visible(k, l) = Absent
      BY <2>1 DEF Visible
    <3>2. k = target' \/ Live(k) \notin InUse(mem')
      BY <2>1, <1>4
    <3> QED
      BY <3>1, <3>2 DEF Visible
  <2>2. CASE k # target
    <3>1. k # target'
      BY <2>2, <1>4
    <3> QED
      BY <3>1, <2>2, <1>1, <1>4, VisibleSame
  <2> QED
    BY <2>1, <2>2
<1> QED
  BY <1>1, <1>5, Stutters

\* push(): the new level starts with what the level below holds.
LEMMA PushMaps ==
  ASSUME IInv, Push
  PROVE  Store!Push
<1>1. /\ Idle /\ level < MaxLevel /\ level' = level + 1
      /\ mem' = [mem EXCEPT !.next[Scope(level + 1)] = Nil]
      /\ UNCHANGED <<garbage, target>>
  BY DEF Push
<1>2. /\ mem \in Memory /\ level \in Level /\ level \in Nat /\ level + 1 \in Level
      /\ Linked(mem, level, level) /\ Chained(mem, level) /\ Sorted(mem) /\ Valued(mem)
  BY <1>1 DEF IInv, TypeOK, Control, Idle, Level
<1>3. InUse(mem') = InUse(mem) /\ mem'.data = mem.data /\ Chained(mem', level + 1)
  BY <1>1, <1>2, PushKeeps
<1>4. ASSUME NEW l, NEW k \in Obj PROVE Visible(k, l)' = Visible(k, l)
  BY <1>1, <1>3, VisibleSame
<1>5. ASSUME NEW k \in Obj, NEW l \in 0..(level + 1), l = level + 1
      PROVE  Visible(k, l)' = Visible(k, level)
  <2>1. Visible(k, l)' = Visible(k, l)
    BY <1>4
  <2>2. Later(mem, k, level) = {}
    BY <1>2, NoneAbove
  <2>3. Later(mem, k, l) = {}
    BY <2>2, <1>2, <1>5, CellFacts DEF Later
  <2>4. ValueAt(mem, k, l) = ValueAt(mem, k, level)
    BY <2>2, <2>3, ValueCurrent
  <2> QED
    BY <2>1, <2>4 DEF Visible
<1>6. \A l \in 0..level, k \in Obj : Visible(k, l)' = Visible(k, l)
  BY <1>4
<1> QED
  BY <1>1, <1>2, <1>5, <1>6, Pushes

\* The pop takes effect for the client when the scope leaves d_scopeList.
LEMMA PopScopeMaps ==
  ASSUME IInv, PopScope
  PROVE  Store!Pop
<1>1. /\ level' = level - 1 /\ UNCHANGED <<mem, garbage, target>>
      /\ level \in Nat /\ level > 0
  BY DEF PopScope, IInv, TypeOK, Level
<1>2. ASSUME NEW l \in 0..(level - 1), NEW k \in Obj PROVE Visible(k, l)' = Visible(k, l)
  BY <1>1, VisibleSame
<1> QED
  BY <1>1, <1>2, Pops

\* Putting an object back where its copy stands changes none of its values at
\* the levels that are left.
LEMMA RestoreStepMaps ==
  ASSUME IInv, RestoreStep
  PROVE  UNCHANGED Store!vars
<1>0. PICK x : x = mem.next[Scope(cmm)]
  OBVIOUS
<1>p. PICK p : p = mem.restore[x]
  OBVIOUS
<1>o. PICK o : o = x[1]
  OBVIOUS
<1>1. /\ pc = "restore" /\ x # Nil /\ mem' = RestoreFirst(mem, cmm)
      /\ garbage' = IF mem.data[p] = Absent THEN garbage \cup {o} ELSE garbage
      /\ UNCHANGED <<level, goal, cmm, target, pc>>
  BY <1>0, <1>p, <1>o DEF RestoreStep
<1>2. /\ mem \in Memory /\ level \in Level /\ level \in Nat
      /\ cmm = level + 1 /\ level + 1 \in Level
      /\ Linked(mem, level, level + 1) /\ Chained(mem, level + 1) /\ Sorted(mem)
      /\ target = Nil
  BY SMTT(30), <1>1, CellFacts DEF IInv, TypeOK, Control
<1>3. /\ o \in Obj /\ x = Live(o) /\ x \in InUse(mem)
      /\ p = <<o, level + 1>> /\ p \in InUse(mem) /\ p # x
      /\ mem.scope[x] = level + 1 /\ mem.scope[p] <= level
      /\ InUse(mem') = InUse(mem) \ {p}
      /\ \A k \in InUse(mem') :
           /\ mem'.scope[k] = IF k = x THEN mem.scope[p] ELSE mem.scope[k]
           /\ mem'.data[k] = IF k = x /\ mem.data[p] # Absent THEN mem.data[p]
                             ELSE mem.data[k]
  <2>1. x = mem.next[Scope(level + 1)] /\ x # Nil /\ mem' = RestoreFirst(mem, level + 1)
    BY <1>0, <1>1, <1>2
  <2>2. /\ x[1] \in Obj /\ x = Live(x[1]) /\ x \in InUse(mem)
        /\ p = <<x[1], level + 1>> /\ p \in InUse(mem) /\ p # x
        /\ mem.scope[x] = level + 1 /\ mem.scope[p] <= level
        /\ mem' \in Memory
        /\ InUse(mem') = InUse(mem) \ {p}
        /\ \A k \in InUse(mem') :
             /\ mem'.scope[k] = IF k = x THEN mem.scope[p] ELSE mem.scope[k]
             /\ mem'.data[k] = IF k = x /\ mem.data[p] # Absent THEN mem.data[p]
                               ELSE mem.data[k]
        /\ Linked(mem', level, level + 1) /\ Chained(mem', level + 1) /\ Sorted(mem')
    BY SMTT(30), <2>1, <1>p, <1>2, RestoreFirstKeeps
  <2> QED
    BY <1>o, <2>2
<1>4. /\ o # target /\ o # target' /\ o \notin garbage
      /\ Live(o) \in InUse(mem) /\ Live(o) \in InUse(mem')
      /\ mem.data[p] = Absent => mem.scope[p] = 0 /\ o \in garbage'
      /\ mem.data[p] # Absent => garbage' = garbage
      /\ \A k \in Obj : k # o => k \in garbage' <=> k \in garbage
  BY <1>1, <1>2, <1>3 DEF IInv, Control, Valued
<1>5. ASSUME NEW l \in 0..level
      PROVE  /\ level + 1 \in Later(mem, o, l)
             /\ \A r \in Later(mem, o, l) : r # level + 1 => r \in Later(mem', o, l)
             /\ Later(mem', o, l) = Later(mem, o, l) \ {level + 1}
             /\ \A r \in Later(mem, o, l) : r \in Level /\ r > 0 /\ r <= level + 1
             /\ mem.scope[p] = 0 => Later(mem', o, l) = {}
  <2>1. level + 1 \in Later(mem, o, l)
    BY <1>2, <1>3 DEF Later
  <2>2. Later(mem', o, l) = Later(mem, o, l) \ {level + 1}
    <3>1. \A r \in Level : <<o, r>> = p <=> r = level + 1
      BY <1>3
    <3> QED
      BY <3>1, <1>3 DEF Later
  <2>3. \A r \in Later(mem, o, l) : r \in Level /\ r > 0 /\ r <= level + 1
    <3> SUFFICES ASSUME NEW r \in Later(mem, o, l) PROVE r \in Level /\ r > 0 /\ r <= level + 1
      OBVIOUS
    <3>1. r \in Level /\ r \in Nat /\ r > l /\ <<o, r>> \in InUse(mem)
      BY CellFacts DEF Later
    <3>2. <<o, r>>[2] <= level + 1
      BY <3>1, <1>2 DEF Chained
    <3> QED
      BY <3>1, <3>2
  <2>4. mem.scope[p] = 0 => Later(mem', o, l) = {}
    <3> SUFFICES ASSUME mem.scope[p] = 0, NEW r \in Later(mem', o, l) PROVE FALSE
      OBVIOUS
    <3>1. r \in Level /\ r > 0 /\ r < level + 1 /\ r \in Nat
      BY <2>2, <2>3, <1>2, CellFacts
    <3>2. <<o, r>> \in InUse(mem)
      BY <2>2 DEF Later
    <3>3. r <= mem.scope[p]
      <4>1. \A n, k \in InUse(mem) :
              k[1] = n[1] /\ 0 < n[2] /\ n[2] < k[2] => n[2] <= mem.scope[k]
        BY <1>2 DEF Chained
      <4>2. <<o, r>>[1] = o /\ <<o, r>>[2] = r /\ p[1] = o /\ p[2] = level + 1
        BY <1>3
      <4> QED
        BY <4>1, <4>2, <3>1, <3>2, <1>3
    <3> QED
      BY <3>1, <3>3
  <2> QED
    BY <2>1, <2>2, <2>3, <2>4
<1>6. ASSUME NEW l \in 0..level PROVE Visible(o, l)' = Visible(o, l)
  <2>0. Visible(o, l) = ValueAt(mem, o, l)
    BY <1>4 DEF Visible
  <2>1. CASE Later(mem', o, l) = {}
    <3>1. Oldest(mem, o, l, level + 1)
      BY <2>1, <1>2, <1>5 DEF Oldest
    <3>2. ValueAt(mem, o, l) = mem.data[p]
      BY <3>1, <1>3, ValueSaved
    <3>3. ValueAt(mem', o, l) = mem'.data[x]
      BY <2>1, <1>3, ValueCurrent
    <3>4. mem.data[p] # Absent => mem'.data[x] = mem.data[p]
      BY <1>3, <1>4
    <3> QED
      BY <2>0, <3>2, <3>3, <3>4, <1>4 DEF Visible
  <2>2. CASE Later(mem', o, l) # {}
    <3>1. mem.data[p] # Absent
      BY <2>2, <1>4, <1>5
    <3>2. PICK r \in Level : Oldest(mem', o, l, r)
      BY <2>2, OldestExists
    <3>3. r \in Later(mem, o, l) /\ r # level + 1 /\ r > 0 /\ r <= level + 1
      BY <3>2, <1>5 DEF Oldest
    <3>4. Oldest(mem, o, l, r)
      BY <3>2, <3>3, <1>5, CellFacts DEF Oldest
    <3>5. mem'.data[<<o, r>>] = mem.data[<<o, r>>]
      <4>1. <<o, r>> \in InUse(mem') /\ <<o, r>> # x
        BY <3>2, <3>3, <1>3 DEF Oldest, Later, Live
      <4> QED
        BY <4>1, <1>3
    <3>6. ValueAt(mem', o, l) = ValueAt(mem, o, l)
      BY <3>2, <3>4, <3>5, ValueSaved
    <3>7. o \notin garbage'
      BY <3>1, <1>4
    <3> QED
      BY <2>0, <3>6, <3>7, <1>4 DEF Visible
  <2> QED
    BY <2>1, <2>2
<1>7. ASSUME NEW l \in 0..level, NEW k \in Obj, k # o PROVE Visible(k, l)' = Visible(k, l)
  <2>1. x[1] = o /\ p[1] = o
    BY <1>3 DEF Live
  <2>2. \A n \in Node : n[1] = k => n \in InUse(mem') <=> n \in InUse(mem)
    BY <2>1, <1>3, <1>7
  <2>3. \A n \in InUse(mem) : n[1] = k => mem'.data[n] = mem.data[n]
    BY <2>1, <1>3, <1>7
  <2> QED
    BY <2>2, <2>3, <1>1, <1>4, <1>7, VisibleSame
<1> QED
  BY <1>1, <1>6, <1>7, Stutters

\* The other steps of a pop change what is pending, not what is seen.
LEMMA OtherStepsMap ==
  ASSUME IInv, \/ \E l \in Level : Popto(l)
               \/ RestoreDone \/ PopRegion \/ \E o \in Obj : Collect(o)
  PROVE  UNCHANGED Store!vars
<1>1. CASE (\E l \in Level : Popto(l)) \/ RestoreDone \/ PopRegion
  <2>1. UNCHANGED <<level, mem, garbage, target>>
    BY <1>1 DEF Popto, RestoreDone, PopRegion
  <2>2. ASSUME NEW l \in 0..level, NEW k \in Obj PROVE Visible(k, l)' = Visible(k, l)
    BY <2>1, VisibleSame
  <2> QED
    BY <2>1, <2>2, Stutters
<1>2. ASSUME NEW o \in Obj, Collect(o) PROVE UNCHANGED Store!vars
  <2>1. /\ UNCHANGED <<level, mem>> /\ target = Nil /\ o \in garbage
        /\ garbage' = garbage \ {o} /\ target' = o
    BY <1>2 DEF Collect
  <2>2. ASSUME NEW l \in 0..level, NEW k \in Obj PROVE Visible(k, l)' = Visible(k, l)
    <3>1. CASE k = o
      BY <3>1, <2>1 DEF Visible
    <3>2. CASE k # o
      <4>1. k # target /\ k # target' /\ (k \in garbage' <=> k \in garbage)
        BY <3>2, <2>1
      <4> QED
        BY <4>1, <2>1, VisibleSame
    <3> QED
      BY <3>1, <3>2
  <2> QED
    BY <2>1, <2>2, Stutters
<1> QED
  BY <1>1, <1>2

\* Every step of a Context is a step of the store of snapshots, or is not seen.
LEMMA StepMaps ==
  ASSUME IInv, [Next]_vars
  PROVE  [Store!Next]_(Store!vars)
<1>1. CASE \E o \in Obj : CreateCDO(o) \/ StartDestroy(o)
  BY <1>1, CreateCDOMaps, StartDestroyMaps DEF Store!Next
<1>2. CASE \E o \in Obj, v \in Data :
             CreateWith(o, Default, v) \/ CreateWith(o, Absent, v) \/ Set(o, v)
  BY <1>2, CreateWithMaps, SetMaps DEF Store!Next
<1>3. CASE Push
  BY <1>3, PushMaps DEF Store!Next
<1>4. CASE \E l \in Level : Popto(l)
  BY <1>4, OtherStepsMap
<1>5. CASE Unwind
  BY <1>5, PopScopeMaps, RestoreStepMaps, DestroyStepMaps, OtherStepsMap
     DEF Unwind, Store!Next
<1>6. CASE UNCHANGED vars
  <2>1. UNCHANGED <<level, mem, garbage, target>>
    BY <1>6 DEF vars
  <2>2. ASSUME NEW l \in 0..level, NEW k \in Obj PROVE Visible(k, l)' = Visible(k, l)
    BY <2>1, VisibleSame
  <2> QED
    BY <2>1, <2>2, Stutters
<1> QED
  BY <1>1, <1>2, <1>3, <1>4, <1>5, <1>6 DEF Next

\* Scopes, lists and chains of saved copies implement a store that saves the
\* values of all objects at every push and brings them back at the pop.
THEOREM Refinement == Spec => ImplementsStore
<1>1. ASSUME Init PROVE Store!Init
  BY <1>1, InitMaps
<1>2. ASSUME IInv, [Next]_vars PROVE [Store!Next]_(Store!vars)
  BY <1>2, StepMaps
<1>3. Spec => Store!Spec
  BY <1>1, <1>2, Invariance, PTL DEF Spec, Store!Spec
<1> QED
  BY <1>3 DEF ImplementsStore
=============================================================================
