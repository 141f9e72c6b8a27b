-------------------------- MODULE ContextNotifyProofs --------------------------
(***************************************************************************)
(* The lists of ContextNotify for any number of objects: they stay linked  *)
(* and no destructor writes to freed memory (ListsIntact), and each pop    *)
(* calls back the objects it found, once and in order                      *)
(* (NotifiedOnceInOrder).                                                  *)
(***************************************************************************)
EXTENDS ContextNotify, FiniteSetTheorems, WellFoundedInduction, SequenceTheorems, TLAPS

-----------------------------------------------------------------------------
(* The inductive invariant.                                                *)

\* What the pointers of an object in a list are.
After(s, i) == IF i < Len(s) THEN s[i + 1] ELSE Null
Before(l, s, i) == IF i = 1 THEN HeadOf(l) ELSE NextOf(s[i - 1])
FirstOf(s) == IF Len(s) = 0 THEN Null ELSE s[1]

Chain(l, s) ==
    /\ head[l] = FirstOf(s)
    /\ \A i \in 1..Len(s) : /\ s[i] \in DOMAIN mem
                            /\ mem[s[i]].next = After(s, i)
                            /\ mem[s[i]].prev = Before(l, s, i)

Orders == [Lists -> Seq(Obj)]

Apart(q) ==
    \A l, m \in Lists : \A i \in 1..Len(q[l]), j \in 1..Len(q[m]) :
        q[l][i] = q[m][j] => l = m /\ i = j

\* The two lists are linked in the order q and hold the objects that exist.
Lay(q) ==
    /\ \A l \in Lists : Chain(l, q[l])
    /\ Apart(q)
    /\ \A o \in DOMAIN mem : \E l \in Lists : \E i \in 1..Len(q[l]) : o = q[l][i]

\* The context is in the loop over a list, between callbacks or in one.
Looping(l) == pc \in {l, IF l = "pre" THEN "in pre" ELSE "in post"}

\* What a loop has still to call back is the end of its list, from the pointer
\* that is followed next.
Rest == Len(due) - Len(called)

Loop(s) ==
    /\ due \in Seq(Obj) /\ called \in Seq(Obj)
    /\ \A i, j \in 1..Len(due) : due[i] = due[j] => i = j
    /\ Rest \in 0..Len(s)
    /\ \A i \in 1..Len(called) : called[i] = due[i]
    /\ \A j \in 1..Rest : due[Len(called) + j] = s[Len(s) - Rest + j]
    /\ (IF pc \in Lists THEN cur ELSE next) = IF Rest = 0 THEN Null ELSE due[Len(called) + 1]
    /\ pc \notin Lists => Len(called) > 0 /\ cur = due[Len(called)]

Shaped == \A o \in DOMAIN mem : mem[o] = [next |-> mem[o].next, prev |-> mem[o].prev]

IInv ==
    /\ TypeOK /\ ~wild /\ Shaped
    /\ pc # "gone" => \E q \in Orders : Lay(q) /\ \A l \in Lists : Looping(l) => Loop(q[l])
    /\ pc = "gone" => \A o \in DOMAIN mem : mem[o].next = Null /\ mem[o].prev = Nowhere
    /\ pc \in {"pre", "in pre"} => level > 0

-----------------------------------------------------------------------------
(* Pointers and lists.                                                     *)

\* The places d_ppCNOprev can point to are told apart.
LEMMA Pointers ==
    /\ \A l, m : HeadOf(l) = HeadOf(m) => l = m
    /\ \A o, p : NextOf(o) = NextOf(p) => o = p
    /\ \A l, o : HeadOf(l) # NextOf(o) /\ HeadOf(l) # Nowhere /\ NextOf(o) # Nowhere
    /\ \A l : HeadOf(l)[2] = l
  BY DEF HeadOf, NextOf, Nowhere

\* A function on the first numbers is a sequence.
LEMMA Elements ==
    ASSUME NEW S, NEW n \in Nat, NEW s, s \in [1..n -> S]
    PROVE  s \in Seq(S) /\ Len(s) = n
  OBVIOUS

\* What a sequence is, as the steps below use it.
LEMMA Ranges ==
    ASSUME NEW S, NEW q \in Seq(S)
    PROVE  DOMAIN q = 1..Len(q) /\ Len(q) \in Nat /\ \A i \in 1..Len(q) : q[i] \in S
  OBVIOUS

\* A list with an object in front, and a list without its i-th object.
InFront(o, s) == [j \in 1..Len(s) + 1 |-> IF j = 1 THEN o ELSE s[j - 1]]
Without(s, i) == [j \in 1..Len(s) - 1 |-> IF j < i THEN s[j] ELSE s[j + 1]]

IsCons(t, o, s) ==
    /\ Len(t) = Len(s) + 1 /\ t[1] = o
    /\ \A j \in 1..Len(s) : t[j + 1] = s[j]
    /\ \A j \in 1..Len(s) + 1 : t[j] = IF j = 1 THEN o ELSE s[j - 1]

IsWithout(t, i, s) ==
    /\ Len(t) = Len(s) - 1
    /\ \A j \in 1..Len(s) - 1 : t[j] = IF j < i THEN s[j] ELSE s[j + 1]

LEMMA ConsIs ==
    ASSUME NEW S, NEW s \in Seq(S), NEW o \in S
    PROVE  InFront(o, s) \in Seq(S) /\ IsCons(InFront(o, s), o, s)
<1>1. Len(s) \in Nat /\ \A i \in 1..Len(s) : s[i] \in S
  BY Ranges
<1>2. \A j \in 1..Len(s) + 1 : j = 1 \/ j - 1 \in 1..Len(s)
  BY <1>1
<1>3. InFront(o, s) \in [1..Len(s) + 1 -> S]
  BY <1>1, <1>2 DEF InFront
<1>4. \A j \in 1..Len(s) : j + 1 \in 1..Len(s) + 1 /\ j + 1 # 1 /\ j + 1 - 1 = j
  BY <1>1
<1>5. 1 \in 1..Len(s) + 1 /\ Len(s) + 1 \in Nat
  BY <1>1
<1>6. InFront(o, s) \in Seq(S) /\ Len(InFront(o, s)) = Len(s) + 1
  BY ONLY <1>3, <1>5, Elements, ZenonT(60)
<1> QED
  BY <1>4, <1>5, <1>6 DEF InFront, IsCons

LEMMA WithoutIs ==
    ASSUME NEW S, NEW s \in Seq(S), NEW i \in 1..Len(s)
    PROVE  Without(s, i) \in Seq(S) /\ IsWithout(Without(s, i), i, s)
<1>1. Len(s) \in Nat /\ \A k \in 1..Len(s) : s[k] \in S
  BY Ranges
<1>2. \A j \in 1..Len(s) - 1 : j \in 1..Len(s) /\ j + 1 \in 1..Len(s)
  BY <1>1
<1>3. Without(s, i) \in [1..Len(s) - 1 -> S]
  BY <1>1, <1>2 DEF Without
<1>4. Len(s) - 1 \in Nat
  BY <1>1
<1>5. Without(s, i) \in Seq(S) /\ Len(Without(s, i)) = Len(s) - 1
  BY ONLY <1>3, <1>4, Elements, ZenonT(60)
<1> QED
  BY <1>5 DEF Without, IsWithout

-----------------------------------------------------------------------------
(* What registering and leaving do to the pointers.                        *)

\* One field of a list node changed, the other kept.
LEMMA ChangeShape ==
    ASSUME NEW r, r = [next |-> r.next, prev |-> r.prev], NEW v
    PROVE  /\ [r EXCEPT !.prev = v] = [next |-> r.next, prev |-> v]
           /\ [r EXCEPT !.next = v] = [next |-> v, prev |-> r.prev]
  OBVIOUS

\* addNotifyObjPre and addNotifyObjPost: the fields of every node afterwards.
LEMMA AddFields ==
    ASSUME Shaped, NEW o, o \notin DOMAIN mem, NEW l \in Lists, head \in [Lists -> Obj \union {Null}],
           AddNotifyObj(o, l)
    PROVE  /\ DOMAIN mem' = DOMAIN mem \union {o} /\ Shaped'
           /\ mem'[o].next = head[l] /\ mem'[o].prev = HeadOf(l)
           /\ \A x \in DOMAIN mem :
                 /\ mem'[x].next = mem[x].next
                 /\ mem'[x].prev = IF x = head[l] THEN NextOf(o) ELSE mem[x].prev
           /\ head' = [head EXCEPT ![l] = o]
<1>1. /\ mem' = [x \in DOMAIN mem \union {o} |->
                    IF x = o THEN [next |-> head[l], prev |-> HeadOf(l)]
                    ELSE IF x = head[l] THEN [mem[x] EXCEPT !.prev = NextOf(o)]
                    ELSE mem[x]]
      /\ head' = [head EXCEPT ![l] = o]
  BY DEF AddNotifyObj
<1>2. DOMAIN mem' = DOMAIN mem \union {o}
  BY <1>1
<1>3. mem'[o] = [next |-> head[l], prev |-> HeadOf(l)]
  BY <1>1
<1>4. ASSUME NEW x \in DOMAIN mem
      PROVE  mem'[x] = [next |-> mem[x].next,
                        prev |-> IF x = head[l] THEN NextOf(o) ELSE mem[x].prev]
  <2>1. mem[x] = [next |-> mem[x].next, prev |-> mem[x].prev]
    BY DEF Shaped
  <2>2. mem'[x] = IF x = head[l] THEN [mem[x] EXCEPT !.prev = NextOf(o)] ELSE mem[x]
    BY <1>1
  <2>3. [mem[x] EXCEPT !.prev = NextOf(o)] = [next |-> mem[x].next, prev |-> NextOf(o)]
    BY <2>1, ChangeShape
  <2>4. CASE x = head[l]
    BY <2>2, <2>3, <2>4
  <2>5. CASE x # head[l]
    BY <2>1, <2>2, <2>5
  <2> QED
    BY <2>4, <2>5
<1>5. Shaped'
  <2>1. ASSUME NEW x \in DOMAIN mem'
        PROVE  mem'[x] = [next |-> mem'[x].next, prev |-> mem'[x].prev]
    BY <1>2, <1>3, <1>4
  <2> QED
    BY <2>1 DEF Shaped
<1> QED
  BY <1>1, <1>2, <1>3, <1>4, <1>5

\* ~ContextNotifyObj: the fields of every node that remains.
LEMMA UnlinkFields ==
    ASSUME Shaped, NEW o, o \in DOMAIN mem, Unlink(o),
           \A x \in DOMAIN mem : x = mem[o].next => mem[o].prev # NextOf(x)
    PROVE  /\ DOMAIN mem' = DOMAIN mem \ {o} /\ Shaped'
           /\ \A x \in DOMAIN mem \ {o} :
                 /\ mem'[x].next = IF mem[o].prev = NextOf(x) THEN mem[o].next ELSE mem[x].next
                 /\ mem'[x].prev = IF x = mem[o].next THEN mem[o].prev ELSE mem[x].prev
<1>1. PICK n, p : n = mem[o].next /\ p = mem[o].prev
  OBVIOUS
<1>2. mem' = [x \in DOMAIN mem \ {o} |->
                  IF x = n THEN [mem[x] EXCEPT !.prev = p]
                  ELSE IF p = NextOf(x) THEN [mem[x] EXCEPT !.next = n]
                  ELSE mem[x]]
  BY <1>1, Zenon DEF Unlink
<1>3. DOMAIN mem' = DOMAIN mem \ {o}
  BY <1>2
<1>4. ASSUME NEW x \in DOMAIN mem \ {o}
      PROVE  mem'[x] = [next |-> IF p = NextOf(x) THEN n ELSE mem[x].next,
                        prev |-> IF x = n THEN p ELSE mem[x].prev]
  <2>1. mem[x] = [next |-> mem[x].next, prev |-> mem[x].prev]
    BY DEF Shaped
  <2>2. mem'[x] = IF x = n THEN [mem[x] EXCEPT !.prev = p]
                  ELSE IF p = NextOf(x) THEN [mem[x] EXCEPT !.next = n]
                  ELSE mem[x]
    BY <1>2
  <2>3. /\ [mem[x] EXCEPT !.prev = p] = [next |-> mem[x].next, prev |-> p]
        /\ [mem[x] EXCEPT !.next = n] = [next |-> n, prev |-> mem[x].prev]
    BY <2>1, ChangeShape
  <2>4. x = n => p # NextOf(x)
    BY <1>1
  <2>5. CASE x = n
    BY <2>2, <2>3, <2>4, <2>5
  <2>6. CASE x # n /\ p = NextOf(x)
    BY <2>2, <2>3, <2>6
  <2>7. CASE x # n /\ p # NextOf(x)
    BY <2>1, <2>2, <2>7
  <2> QED
    BY <2>5, <2>6, <2>7
<1>5. Shaped'
  <2>1. ASSUME NEW x \in DOMAIN mem'
        PROVE  mem'[x] = [next |-> mem'[x].next, prev |-> mem'[x].prev]
    BY <1>3, <1>4
  <2> QED
    BY <2>1 DEF Shaped
<1> QED
  BY <1>1, <1>3, <1>4, <1>5

-----------------------------------------------------------------------------
(* The order of the lists under these operations.                          *)

\* A list with a registered object in front is linked again.
LEMMA Added ==
    ASSUME Shaped, NEW q \in Orders, Lay(q), NEW o \in Obj, o \notin DOMAIN mem, NEW l \in Lists,
           head \in [Lists -> Obj \union {Null}], AddNotifyObj(o, l),
           NEW r, r = [q EXCEPT ![l] = InFront(o, q[l])]
    PROVE  r \in Orders /\ Lay(r)'
<1>1. \A m \in Lists : q[m] \in Seq(Obj) /\ Len(q[m]) \in Nat
  BY Ranges DEF Orders
<1>2. PICK s, t : s = q[l] /\ t = InFront(o, s)
  OBVIOUS
<1>3. /\ t \in Seq(Obj) /\ Len(t) = Len(s) + 1 /\ t[1] = o /\ Len(s) \in Nat
      /\ \A j \in 1..Len(s) : t[j + 1] = s[j]
      /\ \A j \in 1..Len(s) + 1 : t[j] = IF j = 1 THEN o ELSE s[j - 1]
  <2>1. s \in Seq(Obj) /\ Len(s) \in Nat
    BY <1>1, <1>2
  <2>2. InFront(o, s) \in Seq(Obj) /\ IsCons(InFront(o, s), o, s)
    BY ONLY o \in Obj, <2>1, ConsIs, ZenonT(60)
  <2>3. t \in Seq(Obj) /\ IsCons(t, o, s)
    BY <1>2, <2>2, Zenon
  <2> QED
    BY <2>1, <2>3 DEF IsCons
<1>4. r \in Orders /\ r[l] = t /\ \A m \in Lists : m # l => r[m] = q[m]
  BY <1>2, <1>3 DEF Orders
<1>5. /\ DOMAIN mem' = DOMAIN mem \union {o}
      /\ mem'[o].next = head[l] /\ mem'[o].prev = HeadOf(l)
      /\ \A x \in DOMAIN mem :
            /\ mem'[x].next = mem[x].next
            /\ mem'[x].prev = IF x = head[l] THEN NextOf(o) ELSE mem[x].prev
      /\ head' = [head EXCEPT ![l] = o]
  BY AddFields
<1>6. \A m \in Lists : /\ head[m] = FirstOf(q[m])
                       /\ \A i \in 1..Len(q[m]) :
                             /\ q[m][i] \in DOMAIN mem /\ q[m][i] # o
                             /\ mem[q[m][i]].next = After(q[m], i)
                             /\ mem[q[m][i]].prev = Before(m, q[m], i)
  BY DEF Lay, Chain
<1>7. \A m \in Lists : \A i \in 1..Len(q[m]) : q[m][i] = head[l] <=> m = l /\ i = 1
  <2>1. ASSUME NEW m \in Lists, NEW i \in 1..Len(q[m]), q[m][i] = head[l]
        PROVE  m = l /\ i = 1
    <3>1. q[m][i] \in Obj
      BY <1>1
    <3>2. head[l] # Null
      BY <2>1, <3>1, NotifyAssumption
    <3>3. Len(s) # 0 /\ head[l] = s[1]
      BY <1>2, <1>6, <3>2 DEF FirstOf
    <3>4. 1 \in 1..Len(q[l]) /\ q[l][1] = q[m][i]
      BY <1>2, <1>3, <2>1, <3>3
    <3> QED
      BY <3>4 DEF Lay, Apart
  <2>2. ASSUME NEW i \in 1..Len(q[l]), i = 1
        PROVE  q[l][i] = head[l]
    <3>1. Len(q[l]) # 0
      BY <1>1, <2>2
    <3> QED
      BY <1>6, <2>2, <3>1 DEF FirstOf
  <2> QED
    BY <2>1, <2>2
<1>8. \A m \in Lists : Chain(m, r[m])'
  <2>1. ASSUME NEW m \in Lists, m # l
        PROVE  Chain(m, r[m])'
    <3>1. head'[m] = head[m]
      BY <1>5, <2>1
    <3>2. \A i \in 1..Len(q[m]) : /\ q[m][i] \in DOMAIN mem'
                                  /\ mem'[q[m][i]].next = After(q[m], i)
                                  /\ mem'[q[m][i]].prev = Before(m, q[m], i)
      BY <1>5, <1>6, <1>7, <2>1
    <3> QED
      BY <1>4, <1>6, <2>1, <3>1, <3>2 DEF Chain
  <2>2. Chain(l, t)'
    <3>1. head'[l] = FirstOf(t)
      <4>1. head'[l] = o /\ Len(t) # 0
        BY <1>3, <1>5
      <4> QED
        BY <1>3, <4>1 DEF FirstOf
    <3>2. /\ t[1] \in DOMAIN mem' /\ mem'[t[1]].next = After(t, 1)
          /\ mem'[t[1]].prev = Before(l, t, 1)
      <4>1. After(t, 1) = FirstOf(s)
        <5>1. CASE Len(s) = 0
          BY <1>3, <5>1 DEF After, FirstOf
        <5>2. CASE Len(s) # 0
          <6>1. 1 \in 1..Len(s) /\ 1 < Len(t)
            BY <1>3, <5>2
          <6> QED
            BY <1>3, <5>2, <6>1 DEF After, FirstOf
        <5> QED
          BY <5>1, <5>2
      <4> QED
        BY <1>2, <1>3, <1>5, <1>6, <4>1 DEF Before
    <3>3. ASSUME NEW i \in 1..Len(s)
          PROVE  /\ t[i + 1] \in DOMAIN mem' /\ mem'[t[i + 1]].next = After(t, i + 1)
                 /\ mem'[t[i + 1]].prev = Before(l, t, i + 1)
      <4>1. t[i + 1] = s[i] /\ s[i] \in DOMAIN mem
        BY <1>2, <1>3, <1>6
      <4>2. After(t, i + 1) = After(s, i)
        <5>1. CASE i < Len(s)
          <6>1. i + 1 \in 1..Len(s) /\ i + 1 < Len(t)
            BY <1>3, <5>1
          <6> QED
            BY <1>3, <5>1, <6>1 DEF After
        <5>2. CASE ~(i < Len(s))
          BY <1>3, <5>2 DEF After
        <5> QED
          BY <5>1, <5>2
      <4>3. mem'[s[i]].next = After(s, i)
        BY <1>2, <1>5, <1>6, <4>1
      <4>4. mem'[s[i]].prev = Before(l, t, i + 1)
        <5>1. CASE i = 1
          <6>1. mem'[s[i]].prev = NextOf(o)
            BY <1>2, <1>5, <1>7, <4>1, <5>1
          <6>2. i + 1 # 1 /\ i + 1 - 1 = 1
            BY <5>1
          <6> QED
            BY <1>3, <6>1, <6>2 DEF Before
        <5>2. CASE i # 1
          <6>1. mem'[s[i]].prev = Before(l, s, i)
            BY <1>2, <1>5, <1>6, <1>7, <4>1, <5>2
          <6>2. i - 1 \in 1..Len(s) /\ i - 1 + 1 = i /\ i + 1 # 1 /\ i + 1 - 1 = i
            BY <1>3, <5>2
          <6>3. t[i] = s[i - 1]
            BY <1>3, <6>2
          <6> QED
            BY <5>2, <6>1, <6>2, <6>3 DEF Before
        <5> QED
          BY <5>1, <5>2
      <4> QED
        BY <1>5, <4>1, <4>2, <4>3, <4>4
    <3>4. \A i \in 1..Len(t) : i = 1 \/ \E j \in 1..Len(s) : i = j + 1
      <4>1. \A i \in 1..Len(t) : i # 1 => i - 1 \in 1..Len(s) /\ i = i - 1 + 1
        BY <1>3
      <4> QED
        BY <4>1
    <3> QED
      BY <3>1, <3>2, <3>3, <3>4 DEF Chain
  <2> QED
    BY <1>4, <2>1, <2>2
<1>9. Apart(r)
  <2>1. ASSUME NEW m \in Lists, NEW i \in 1..Len(r[m])
        PROVE  \/ r[m][i] = o /\ m = l /\ i = 1
               \/ m # l /\ i \in 1..Len(q[m]) /\ r[m][i] = q[m][i]
               \/ m = l /\ i - 1 \in 1..Len(q[l]) /\ i # 1 /\ r[m][i] = q[l][i - 1]
    <3>1. CASE m # l
      BY <1>4, <3>1
    <3>2. CASE m = l
      BY <1>2, <1>3, <1>4, <3>2
    <3> QED
      BY <3>1, <3>2
  <2>2. ASSUME NEW m \in Lists, NEW k \in Lists, NEW i \in 1..Len(r[m]), NEW j \in 1..Len(r[k]),
               r[m][i] = r[k][j]
        PROVE  m = k /\ i = j
    <3>1. i \in Int /\ j \in Int
      BY <1>1, <1>3, <1>4
    <3>2. \A a, b \in Lists : \A x \in 1..Len(q[a]), y \in 1..Len(q[b]) :
             q[a][x] = q[b][y] => a = b /\ x = y
      BY DEF Lay, Apart
    <3>3. CASE r[m][i] = o /\ m = l /\ i = 1
      BY <1>6, <2>1, <2>2, <3>1, <3>3
    <3>4. CASE m # l /\ i \in 1..Len(q[m]) /\ r[m][i] = q[m][i]
      BY <1>6, <2>1, <2>2, <3>1, <3>2, <3>4
    <3>5. CASE m = l /\ i - 1 \in 1..Len(q[l]) /\ i # 1 /\ r[m][i] = q[l][i - 1]
      BY <1>6, <2>1, <2>2, <3>1, <3>2, <3>5
    <3> QED
      BY <2>1, <3>3, <3>4, <3>5
  <2> QED
    BY <2>2 DEF Apart
<1>10. \A x \in DOMAIN mem' : \E m \in Lists : \E i \in 1..Len(r[m]) : x = r[m][i]
  <2>1. ASSUME NEW x \in DOMAIN mem
        PROVE  \E m \in Lists : \E i \in 1..Len(r[m]) : x = r[m][i]
    <3>0. PICK m \in Lists : \E i \in 1..Len(q[m]) : x = q[m][i]
      BY DEF Lay
    <3>1. PICK i \in 1..Len(q[m]) : x = q[m][i]
      BY <3>0
    <3>2. CASE m # l
      BY <1>4, <3>1, <3>2
    <3>3. CASE m = l
      <4>1. i + 1 \in 1..Len(t) /\ t[i + 1] = x
        BY <1>2, <1>3, <3>1, <3>3
      <4> QED
        BY <1>4, <4>1
    <3> QED
      BY <3>2, <3>3
  <2>2. 1 \in 1..Len(r[l]) /\ r[l][1] = o
    BY <1>3, <1>4
  <2> QED
    BY <1>5, <2>1, <2>2
<1> QED
  BY <1>4, <1>8, <1>9, <1>10 DEF Lay

\* Wherever the destroyed object was, its list is linked again without it, and the
\* destructor found what it wrote to.
LEMMA Removed ==
    ASSUME Shaped, NEW q \in Orders, Lay(q), pc # "gone", ~wild,
           head \in [Lists -> Obj \union {Null}],
           NEW l \in Lists, NEW i \in 1..Len(q[l]), Unlink(q[l][i]),
           NEW r, r = [q EXCEPT ![l] = Without(q[l], i)]
    PROVE  /\ r \in Orders /\ Lay(r)' /\ ~wild' /\ Shaped'
           /\ DOMAIN mem' = DOMAIN mem \ {q[l][i]}
           /\ head' \in [Lists -> Obj \union {Null}]
<1>1. \A m \in Lists : q[m] \in Seq(Obj) /\ Len(q[m]) \in Nat /\ \A j \in 1..Len(q[m]) : q[m][j] \in Obj
  BY Ranges DEF Orders
<1>2. PICK s, t, o : s = q[l] /\ t = Without(s, i) /\ o = s[i]
  OBVIOUS
<1>3. /\ s \in Seq(Obj) /\ Len(s) \in Nat /\ i \in 1..Len(s) /\ t \in Seq(Obj) /\ Len(t) = Len(s) - 1
      /\ \A j \in 1..Len(s) - 1 : t[j] = IF j < i THEN s[j] ELSE s[j + 1]
  <2>1. s \in Seq(Obj) /\ Len(s) \in Nat /\ i \in 1..Len(s)
    BY <1>1, <1>2
  <2>2. Without(s, i) \in Seq(Obj) /\ IsWithout(Without(s, i), i, s)
    BY ONLY <2>1, WithoutIs, ZenonT(60)
  <2>3. t \in Seq(Obj) /\ IsWithout(t, i, s)
    BY <1>2, <2>2, Zenon
  <2> QED
    BY <2>1, <2>3 DEF IsWithout
<1>4. r \in Orders /\ r[l] = t /\ \A m \in Lists : m # l => r[m] = q[m]
  BY <1>2, <1>3 DEF Orders
<1>5. \A m \in Lists : /\ head[m] = FirstOf(q[m])
                       /\ \A j \in 1..Len(q[m]) :
                             /\ q[m][j] \in DOMAIN mem
                             /\ mem[q[m][j]].next = After(q[m], j)
                             /\ mem[q[m][j]].prev = Before(m, q[m], j)
  BY DEF Lay, Chain
<1>6. \A a, b \in Lists : \A x \in 1..Len(q[a]), y \in 1..Len(q[b]) :
         q[a][x] = q[b][y] => a = b /\ x = y
  BY DEF Lay, Apart
<1>7. o \in DOMAIN mem /\ mem[o].next = After(s, i) /\ mem[o].prev = Before(l, s, i)
  BY <1>2, <1>5
<1>8. \A m \in Lists : \A j \in 1..Len(q[m]) :
         q[m][j] = After(s, i) => m = l /\ j = i + 1
  <2>1. ASSUME NEW m \in Lists, NEW j \in 1..Len(q[m]), q[m][j] = After(s, i)
        PROVE  m = l /\ j = i + 1
    <3>1. q[m][j] # Null
      BY <1>1, NotifyAssumption
    <3>2. i < Len(s) /\ q[m][j] = s[i + 1]
      BY <2>1, <3>1 DEF After
    <3>3. i + 1 \in 1..Len(q[l]) /\ q[l][i + 1] = q[m][j]
      BY <1>2, <1>3, <3>2
    <3> QED
      BY <1>6, <3>3
  <2> QED
    BY <2>1
<1>9. \A m \in Lists : \A j \in 1..Len(q[m]) :
         NextOf(q[m][j]) = Before(l, s, i) <=> (m = l /\ j = i - 1)
  <2>1. ASSUME NEW m \in Lists, NEW j \in 1..Len(q[m]), NextOf(q[m][j]) = Before(l, s, i)
        PROVE  m = l /\ j = i - 1
    <3>1. i # 1
      BY <2>1, Pointers DEF Before
    <3>2. NextOf(q[m][j]) = NextOf(s[i - 1])
      BY <2>1, <3>1 DEF Before
    <3>3. q[m][j] = s[i - 1]
      BY <3>2, Pointers
    <3>4. i - 1 \in 1..Len(q[l]) /\ q[l][i - 1] = q[m][j]
      BY <1>2, <1>3, <3>1, <3>3
    <3> QED
      BY <1>6, <3>4
  <2>2. ASSUME NEW j \in 1..Len(q[l]), j = i - 1
        PROVE  NextOf(q[l][j]) = Before(l, s, i)
    <3>1. i # 1
      BY <1>3, <2>2
    <3> QED
      BY <1>2, <2>2, <3>1 DEF Before
  <2> QED
    BY <2>1, <2>2
<1>10. \A x \in DOMAIN mem : x = mem[o].next => mem[o].prev # NextOf(x)
  <2>1. ASSUME NEW x \in DOMAIN mem, x = mem[o].next, mem[o].prev = NextOf(x)
        PROVE  FALSE
    <3>1. PICK m \in Lists : \E j \in 1..Len(q[m]) : x = q[m][j]
      BY DEF Lay
    <3>2. PICK j \in 1..Len(q[m]) : x = q[m][j]
      BY <3>1
    <3>3. j = i + 1 /\ j = i - 1
      BY <1>7, <1>8, <1>9, <2>1, <3>2
    <3> QED
      BY <1>3, <3>3
  <2> QED
    BY <2>1
<1>11. Unlink(o)
  BY <1>2, Zenon
<1>12. /\ DOMAIN mem' = DOMAIN mem \ {o} /\ Shaped'
       /\ \A x \in DOMAIN mem \ {o} :
             /\ mem'[x].next = IF mem[o].prev = NextOf(x) THEN mem[o].next ELSE mem[x].next
             /\ mem'[x].prev = IF x = mem[o].next THEN mem[o].prev ELSE mem[x].prev
  BY ONLY Shaped, <1>7, <1>10, <1>11, UnlinkFields, ZenonT(60)
<1>13. \A m \in Lists : \A j \in 1..Len(q[m]) : q[m][j] # o =>
          /\ q[m][j] \in DOMAIN mem'
          /\ mem'[q[m][j]].next = IF m = l /\ j = i - 1 THEN After(s, i) ELSE After(q[m], j)
          /\ mem'[q[m][j]].prev = IF q[m][j] = After(s, i) THEN Before(l, s, i)
                                  ELSE Before(m, q[m], j)
  <2>1. ASSUME NEW m \in Lists, NEW j \in 1..Len(q[m]), q[m][j] # o
        PROVE  /\ q[m][j] \in DOMAIN mem'
               /\ mem'[q[m][j]].next = IF m = l /\ j = i - 1 THEN After(s, i) ELSE After(q[m], j)
               /\ mem'[q[m][j]].prev = IF q[m][j] = After(s, i) THEN Before(l, s, i)
                                       ELSE Before(m, q[m], j)
    <3>1. PICK x : x = q[m][j]
      OBVIOUS
    <3>2. x \in DOMAIN mem /\ x # o /\ mem[x].next = After(q[m], j) /\ mem[x].prev = Before(m, q[m], j)
      BY <1>5, <2>1, <3>1
    <3>3. NextOf(x) = Before(l, s, i) <=> (m = l /\ j = i - 1)
      BY <1>9, <3>1
    <3>4. /\ mem'[x].next = IF Before(l, s, i) = NextOf(x) THEN After(s, i) ELSE mem[x].next
          /\ mem'[x].prev = IF x = After(s, i) THEN Before(l, s, i) ELSE mem[x].prev
      BY <1>7, <1>12, <3>2
    <3>5. x \in DOMAIN mem'
      BY <1>12, <3>2
    <3> QED
      BY <3>1, <3>2, <3>3, <3>4, <3>5
  <2> QED
    BY <2>1
<1>14. \A m \in Lists : m # l => Chain(m, r[m])'
  <2>1. ASSUME NEW m \in Lists, m # l
        PROVE  Chain(m, r[m])'
    <3>1. head'[m] = head[m]
      BY <1>7, <1>11, <2>1, Pointers DEF Unlink, Before
    <3>2. ASSUME NEW j \in 1..Len(q[m])
          PROVE  /\ q[m][j] \in DOMAIN mem' /\ mem'[q[m][j]].next = After(q[m], j)
                 /\ mem'[q[m][j]].prev = Before(m, q[m], j)
      <4>1. q[m][j] # o
        BY <1>2, <1>6, <2>1
      <4>2. q[m][j] # After(s, i)
        BY <1>8, <2>1
      <4> QED
        BY <1>13, <2>1, <4>1, <4>2
    <3> QED
      BY <1>4, <1>5, <2>1, <3>1, <3>2 DEF Chain
  <2> QED
    BY <2>1
<1>15. ASSUME NEW k \in 1..Len(t)
       PROVE  /\ t[k] \in DOMAIN mem' /\ mem'[t[k]].next = After(t, k)
              /\ mem'[t[k]].prev = Before(l, t, k)
  <2>1. /\ k \in Int /\ i \in Int /\ 1 <= k /\ k < Len(s) /\ 1 <= i /\ i <= Len(s)
        /\ k \in 1..Len(s) - 1 /\ k \in 1..Len(s) /\ k + 1 \in 1..Len(s)
    BY <1>3
  <2>2. \A j \in 1..Len(s) : j # i => s[j] # o
    BY <1>2, <1>3, <1>6
  <2>3. \A j \in 1..Len(s) : s[j] = After(s, i) <=> j = i + 1
    BY <1>2, <1>3, <1>8 DEF After
  <2>4. \A j \in 1..Len(s) : j # i =>
           /\ s[j] \in DOMAIN mem'
           /\ mem'[s[j]].next = IF j = i - 1 THEN After(s, i) ELSE After(s, j)
           /\ mem'[s[j]].prev = IF j = i + 1 THEN Before(l, s, i) ELSE Before(l, s, j)
    BY <1>2, <1>13, <2>2, <2>3
  <2>5. CASE k < i
    <3>1. t[k] = s[k] /\ k # i /\ k # i + 1
      BY <1>3, <2>1, <2>5
    <3>2. After(t, k) = IF k = i - 1 THEN After(s, i) ELSE After(s, k)
      <4>1. CASE k = i - 1 /\ i < Len(s)
        <5>1. i \in 1..Len(s) - 1 /\ k < Len(t) /\ k + 1 = i /\ ~(i < i)
          BY <1>3, <2>1, <4>1
        <5>2. t[k + 1] = s[i + 1]
          BY <1>3, <5>1
        <5> QED
          BY <4>1, <5>1, <5>2 DEF After
      <4>2. CASE k = i - 1 /\ ~(i < Len(s))
        <5>1. ~(k < Len(t))
          BY <1>3, <2>1, <4>2
        <5> QED
          BY <4>2, <5>1 DEF After
      <4>3. CASE k # i - 1
        <5>1. k + 1 \in 1..Len(s) - 1 /\ k + 1 < i /\ k < Len(t) /\ k < Len(s)
          BY <1>3, <2>1, <2>5, <4>3
        <5>2. t[k + 1] = s[k + 1]
          BY <1>3, <5>1
        <5> QED
          BY <4>3, <5>1, <5>2 DEF After
      <4> QED
        BY <4>1, <4>2, <4>3
    <3>3. Before(l, t, k) = Before(l, s, k)
      <4>1. CASE k = 1
        BY <4>1 DEF Before
      <4>2. CASE k # 1
        <5>1. k - 1 \in 1..Len(s) - 1 /\ k - 1 < i
          BY <2>1, <2>5, <4>2
        <5>2. t[k - 1] = s[k - 1]
          BY <1>3, <5>1
        <5> QED
          BY <4>2, <5>2 DEF Before
      <4> QED
        BY <4>1, <4>2
    <3> QED
      BY <2>1, <2>4, <3>1, <3>2, <3>3
  <2>6. CASE ~(k < i)
    <3>1. t[k] = s[k + 1] /\ k + 1 # i /\ k + 1 # i - 1
      BY <1>3, <2>1, <2>6
    <3>2. After(t, k) = After(s, k + 1)
      <4>1. CASE k + 1 < Len(s)
        <5>1. k + 1 \in 1..Len(s) - 1 /\ ~(k + 1 < i) /\ k < Len(t)
          BY <1>3, <2>1, <2>6, <4>1
        <5>2. t[k + 1] = s[k + 1 + 1]
          BY <1>3, <5>1
        <5> QED
          BY <4>1, <5>1, <5>2 DEF After
      <4>2. CASE ~(k + 1 < Len(s))
        <5>1. ~(k < Len(t))
          BY <1>3, <2>1, <4>2
        <5> QED
          BY <4>2, <5>1 DEF After
      <4> QED
        BY <4>1, <4>2
    <3>3. Before(l, t, k) = IF k = i THEN Before(l, s, i) ELSE Before(l, s, k + 1)
      <4>1. CASE k = 1
        <5>1. k = i
          BY <2>1, <2>6, <4>1
        <5> QED
          BY <4>1, <5>1 DEF Before
      <4>2. CASE k # 1 /\ k = i
        <5>1. k - 1 \in 1..Len(s) - 1 /\ k - 1 < i
          BY <2>1, <4>2
        <5>2. t[k - 1] = s[k - 1]
          BY <1>3, <5>1
        <5> QED
          BY <4>2, <5>2 DEF Before
      <4>3. CASE k # 1 /\ k # i
        <5>1. k - 1 \in 1..Len(s) - 1 /\ ~(k - 1 < i) /\ k - 1 + 1 = k /\ k + 1 # 1 /\ k + 1 - 1 = k
          BY <2>1, <2>6, <4>3
        <5>2. t[k - 1] = s[k]
          BY <1>3, <5>1
        <5> QED
          BY <4>3, <5>1, <5>2 DEF Before
      <4> QED
        BY <4>1, <4>2, <4>3
    <3>4. k + 1 = i + 1 <=> k = i
      BY <2>1
    <3> QED
      BY <2>1, <2>4, <3>1, <3>2, <3>3, <3>4
  <2> QED
    BY <2>5, <2>6
<1>16. head' = IF i = 1 THEN [head EXCEPT ![l] = After(s, 1)] ELSE head
  <2>1. CASE i = 1
    <3>1. mem[o].prev = HeadOf(l) /\ mem[o].next = After(s, 1) /\ mem[o].prev[2] = l
      BY <1>7, <2>1, Pointers DEF Before
    <3>2. mem[o].prev \in {HeadOf(m) : m \in Lists}
      BY <3>1
    <3>3. head' = [head EXCEPT ![mem[o].prev[2]] = mem[o].next]
      BY ONLY <1>11, <3>2, pc # "gone", Zenon DEF Unlink
    <3> QED
      BY <2>1, <3>1, <3>3
  <2>2. CASE i # 1
    <3>1. mem[o].prev = NextOf(s[i - 1])
      BY <1>7, <2>2 DEF Before
    <3>2. mem[o].prev \notin {HeadOf(m) : m \in Lists}
      BY <3>1, Pointers
    <3> QED
      BY <1>11, <2>2, <3>2 DEF Unlink
  <2> QED
    BY <2>1, <2>2
<1>17. After(s, 1) \in Obj \union {Null}
  <2>1. 1 < Len(s) => s[2] \in Obj
    BY <1>1, <1>2, <1>3
  <2> QED
    BY <2>1 DEF After
<1>18. head' \in [Lists -> Obj \union {Null}]
  BY <1>16, <1>17
<1>19. head'[l] = FirstOf(t)
  <2>1. CASE i = 1 /\ Len(s) = 1
    <3>1. After(s, 1) = Null /\ Len(t) = 0
      BY <1>3, <2>1 DEF After
    <3> QED
      BY <1>16, <2>1, <3>1 DEF FirstOf
  <2>2. CASE i = 1 /\ Len(s) # 1
    <3>1. 1 < Len(s) /\ Len(t) # 0 /\ 1 \in 1..Len(s) - 1 /\ ~(1 < i) /\ 1 + 1 = 2
      BY <1>3, <2>2
    <3>2. t[1] = s[2] /\ After(s, 1) = s[2]
      BY <1>3, <3>1 DEF After
    <3> QED
      BY <1>16, <2>2, <3>1, <3>2 DEF FirstOf
  <2>3. CASE i # 1
    <3>1. 1 \in 1..Len(s) - 1 /\ 1 < i /\ Len(s) # 0 /\ Len(t) # 0
      BY <1>3, <2>3
    <3>2. t[1] = s[1] /\ head[l] = s[1]
      BY <1>2, <1>3, <1>5, <3>1 DEF FirstOf
    <3> QED
      BY <1>16, <2>3, <3>1, <3>2 DEF FirstOf
  <2> QED
    BY <2>1, <2>2, <2>3
<1>20. Chain(l, t)'
  BY <1>15, <1>19 DEF Chain
<1>21. \A m \in Lists : \A k \in 1..Len(r[m]) :
          \/ m # l /\ k \in 1..Len(q[m]) /\ r[m][k] = q[m][k]
          \/ m = l /\ k < i /\ k \in 1..Len(q[l]) /\ r[m][k] = q[l][k]
          \/ m = l /\ i <= k /\ k + 1 \in 1..Len(q[l]) /\ r[m][k] = q[l][k + 1]
  <2>1. ASSUME NEW m \in Lists, NEW k \in 1..Len(r[m])
        PROVE  \/ m # l /\ k \in 1..Len(q[m]) /\ r[m][k] = q[m][k]
               \/ m = l /\ k < i /\ k \in 1..Len(q[l]) /\ r[m][k] = q[l][k]
               \/ m = l /\ i <= k /\ k + 1 \in 1..Len(q[l]) /\ r[m][k] = q[l][k + 1]
    <3>1. CASE m # l
      BY <1>4, <3>1
    <3>2. CASE m = l
      BY <1>2, <1>3, <1>4, <3>2
    <3> QED
      BY <3>1, <3>2
  <2> QED
    BY <2>1
<1>22. Apart(r)
  <2>1. ASSUME NEW a \in Lists, NEW b \in Lists, NEW x \in 1..Len(r[a]), NEW y \in 1..Len(r[b]),
               r[a][x] = r[b][y]
        PROVE  a = b /\ x = y
    <3>1. PICK u, v : /\ u = (IF a = l /\ i <= x THEN x + 1 ELSE x)
                      /\ v = (IF b = l /\ i <= y THEN y + 1 ELSE y)
      OBVIOUS
    <3>2. x \in Int /\ y \in Int /\ i \in Int
      BY <1>1, <1>3, <1>4
    <3>3. u \in 1..Len(q[a]) /\ r[a][x] = q[a][u]
      BY <1>21, <3>1, <3>2
    <3>4. v \in 1..Len(q[b]) /\ r[b][y] = q[b][v]
      BY <1>21, <3>1, <3>2
    <3>5. a = b /\ u = v
      BY <1>6, <2>1, <3>3, <3>4
    <3> QED
      BY <3>1, <3>2, <3>5
  <2> QED
    BY <2>1 DEF Apart
<1>23. \A x \in DOMAIN mem' : \E m \in Lists : \E k \in 1..Len(r[m]) : x = r[m][k]
  <2>1. ASSUME NEW x \in DOMAIN mem \ {o}
        PROVE  \E m \in Lists : \E k \in 1..Len(r[m]) : x = r[m][k]
    <3>0. PICK m \in Lists : \E j \in 1..Len(q[m]) : x = q[m][j]
      BY DEF Lay
    <3>1. PICK j \in 1..Len(q[m]) : x = q[m][j]
      BY <3>0
    <3>2. CASE m # l
      BY <1>4, <3>1, <3>2
    <3>3. CASE m = l /\ j < i
      <4>1. j \in 1..Len(t) /\ t[j] = x
        BY <1>2, <1>3, <3>1, <3>3
      <4> QED
        BY <1>4, <4>1
    <3>4. CASE m = l /\ ~(j < i)
      <4>1. j # i
        BY <1>2, <3>1, <3>4
      <4>2. j - 1 \in 1..Len(t) /\ j - 1 \in 1..Len(s) - 1 /\ ~(j - 1 < i) /\ j - 1 + 1 = j
        BY <1>2, <1>3, <3>4, <4>1
      <4>3. t[j - 1] = x
        BY <1>2, <1>3, <3>1, <3>4, <4>2
      <4> QED
        BY <1>4, <4>2, <4>3
    <3> QED
      BY <3>2, <3>3, <3>4
  <2> QED
    BY <1>12, <2>1
<1>24. ~wild'
  <2>1. mem[o].next \in DOMAIN mem \union {Null}
    <3>1. i < Len(s) => s[i + 1] \in DOMAIN mem
      <4>1. i < Len(s) => i + 1 \in 1..Len(s)
        BY <1>3
      <4>2. \A j \in 1..Len(s) : s[j] \in DOMAIN mem
        BY <1>2, <1>5
      <4> QED
        BY <4>1, <4>2
    <3> QED
      BY <1>7, <3>1 DEF After
  <2>2. mem[o].prev \in {Nowhere} \union {NextOf(x) : x \in DOMAIN mem}
                          \union (IF pc = "gone" THEN {} ELSE {HeadOf(m) : m \in Lists})
    <3>1. i # 1 => s[i - 1] \in DOMAIN mem
      <4>1. i # 1 => i - 1 \in 1..Len(s)
        BY <1>3
      <4>2. \A j \in 1..Len(s) : s[j] \in DOMAIN mem
        BY <1>2, <1>5
      <4> QED
        BY <4>1, <4>2
    <3> QED
      BY <1>7, <3>1 DEF Before
  <2> QED
    BY <1>11, <2>1, <2>2, Zenon DEF Unlink
<1>25. Lay(r)'
  <2>1. \A m \in Lists : Chain(m, r[m])'
    BY <1>4, <1>14, <1>20
  <2> QED
    BY <1>22, <1>23, <2>1 DEF Lay
<1> QED
  BY <1>2, <1>4, <1>12, <1>18, <1>24, <1>25

-----------------------------------------------------------------------------
(* The walk along the pointers gives the order of the list.                *)

\* Induction over the natural numbers, for the positions of a list.
LEMMA Counting ==
    ASSUME NEW S, 0 \in S, \A n \in Nat : n \in S => n + 1 \in S
    PROVE  Nat \subseteq S
<1> SUFFICES ASSUME Nat \ S # {}
             PROVE  FALSE
  OBVIOUS
<1>1. PICK m \in Nat \ S : \A n \in Nat \ S : ~(<<n, m>> \in OpToRel(<, Nat))
  BY NatLessThanWellFounded, WFMin
<1>2. \A n \in Nat \ S : ~(n < m)
  BY <1>1 DEF OpToRel
<1>3. m # 0 /\ m - 1 \in Nat /\ m - 1 < m /\ m - 1 + 1 = m
  OBVIOUS
<1>4. m - 1 \in S
  BY <1>2, <1>3
<1> QED
  BY <1>3, <1>4

\* What Walk's local function is.
Walks(f, l) ==
    f = [n \in 0..Cardinality(Obj) |->
            IF n = 0 THEN head[l]
            ELSE IF f[n - 1] \in DOMAIN mem THEN mem[f[n - 1]].next ELSE Null]

\* A list that holds no object twice is not longer than there are objects.
LEMMA Fits ==
    ASSUME NEW s \in Seq(Obj), \A i, j \in 1..Len(s) : s[i] = s[j] => i = j
    PROVE  Cardinality(Obj) \in Nat /\ Len(s) <= Cardinality(Obj)
<1>1. Len(s) \in Nat /\ DOMAIN s = 1..Len(s) /\ \A i \in 1..Len(s) : s[i] \in Obj
  BY Ranges
<1>2. s \in Injection(1..Len(s), Obj)
  BY <1>1 DEF Injection, IsInjective
<1>3. IsFiniteSet(Obj)
  BY NotifyAssumption
<1>4. Cardinality(1..Len(s)) <= Cardinality(Obj)
  BY <1>2, <1>3, FS_Injection
<1>5. Cardinality(1..Len(s)) = Len(s)
  <2>1. Cardinality(1..Len(s)) = IF 1 > Len(s) THEN 0 ELSE Len(s) - 1 + 1
    BY <1>1, FS_Interval
  <2> QED
    BY <1>1, <2>1
<1> QED
  BY <1>3, <1>4, <1>5, FS_CardinalityType

\* Following d_pCNOnext from the head gives the list.
LEMMA WalkIs ==
    ASSUME NEW q \in Orders, Lay(q), DOMAIN mem \subseteq Obj, NEW l \in Lists
    PROVE  Walk(l) = q[l]
<1>1. PICK s, N : s = q[l] /\ N = Cardinality(Obj)
  OBVIOUS
<1>2. /\ s \in Seq(Obj) /\ Len(s) \in Nat /\ DOMAIN s = 1..Len(s)
      /\ \A j \in 1..Len(s) : s[j] \in Obj
  BY <1>1, Ranges DEF Orders
<1>3. /\ head[l] = FirstOf(s)
      /\ \A j \in 1..Len(s) : s[j] \in DOMAIN mem /\ mem[s[j]].next = After(s, j)
  BY <1>1 DEF Lay, Chain
<1>4. N \in Nat /\ Len(s) <= N
  <2>1. \A i, j \in 1..Len(s) : s[i] = s[j] => i = j
    BY <1>1 DEF Lay, Apart
  <2> QED
    BY <1>1, <1>2, <2>1, Fits
<1>5. Null \notin DOMAIN mem
  BY NotifyAssumption
<1>6. PICK g : g = [n \in 0..N |-> IF n < Len(s) THEN s[n + 1] ELSE Null]
  OBVIOUS
<1>7. Walks(g, l)
  <2>1. ASSUME NEW n \in 0..N
        PROVE  g[n] = IF n = 0 THEN head[l]
                      ELSE IF g[n - 1] \in DOMAIN mem THEN mem[g[n - 1]].next ELSE Null
    <3>1. g[n] = IF n < Len(s) THEN s[n + 1] ELSE Null
      BY <1>6
    <3>2. CASE n = 0
      <4>1. 0 < Len(s) <=> Len(s) # 0
        BY <1>2
      <4>2. 0 + 1 = 1
        OBVIOUS
      <4> QED
        BY <1>3, <3>1, <3>2, <4>1, <4>2 DEF FirstOf
    <3>3. CASE n # 0
      <4>1. n - 1 \in 0..N /\ n - 1 + 1 = n
        BY <1>4, <3>3
      <4>2. g[n - 1] = IF n - 1 < Len(s) THEN s[n] ELSE Null
        BY <1>6, <4>1
      <4>3. CASE n - 1 < Len(s)
        <5>1. n \in 1..Len(s)
          BY <1>2, <1>4, <3>3, <4>3
        <5>2. mem[g[n - 1]].next = After(s, n) /\ g[n - 1] \in DOMAIN mem
          BY <1>3, <4>2, <4>3, <5>1
        <5> QED
          BY <3>1, <3>3, <5>2 DEF After
      <4>4. CASE ~(n - 1 < Len(s))
        <5>1. ~(n < Len(s))
          BY <1>2, <1>4, <4>4
        <5> QED
          BY <1>5, <3>1, <3>3, <4>2, <4>4, <5>1
      <4> QED
        BY <4>3, <4>4
    <3> QED
      BY <3>2, <3>3
  <2>2. g = [n \in 0..N |-> g[n]]
    BY <1>6
  <2>3. g = [n \in 0..N |->
               IF n = 0 THEN head[l]
               ELSE IF g[n - 1] \in DOMAIN mem THEN mem[g[n - 1]].next ELSE Null]
    BY <2>1, <2>2
  <2> QED
    BY <1>1, <2>3 DEF Walks
<1>8. PICK a : a = CHOOSE f : Walks(f, l)
  OBVIOUS
<1>9. Walks(a, l)
  BY <1>7, <1>8, Zenon
<1>10. Walk(l) = [i \in 1..Cardinality({n \in 0..Cardinality(Obj) : a[n] # Null}) |-> a[i - 1]]
  BY <1>8 DEF Walk, Walks
<1>11. \A n \in 0..N : a[n] = g[n]
  <2>1. \A f : Walks(f, l) => \A n \in 0..N :
           f[n] = IF n = 0 THEN head[l]
                  ELSE IF f[n - 1] \in DOMAIN mem THEN mem[f[n - 1]].next ELSE Null
    <3>1. ASSUME NEW f, Walks(f, l), NEW n \in 0..N
          PROVE  f[n] = IF n = 0 THEN head[l]
                        ELSE IF f[n - 1] \in DOMAIN mem THEN mem[f[n - 1]].next ELSE Null
      <4>1. PICK h : h = [k \in 0..N |->
               IF k = 0 THEN head[l]
               ELSE IF f[k - 1] \in DOMAIN mem THEN mem[f[k - 1]].next ELSE Null]
        OBVIOUS
      <4>2. f = h
        BY <1>1, <3>1, <4>1, Zenon DEF Walks
      <4>3. h[n] = IF n = 0 THEN head[l]
                   ELSE IF f[n - 1] \in DOMAIN mem THEN mem[f[n - 1]].next ELSE Null
        BY <4>1
      <4> QED
        BY <4>2, <4>3, Zenon
    <3> QED
      BY <3>1, Zenon
  <2> DEFINE S == {n \in Nat : n <= N => a[n] = g[n]}
  <2>2. 0 \in S
    <3>1. 0 \in 0..N
      BY <1>4
    <3>2. a[0] = head[l] /\ g[0] = head[l]
      BY <1>7, <1>9, <2>1, <3>1
    <3> QED
      BY <3>2
  <2>3. ASSUME NEW n \in Nat, n \in S
        PROVE  n + 1 \in S
    <3>1. ASSUME n + 1 <= N
          PROVE  a[n + 1] = g[n + 1]
      <4>1. n <= N /\ n + 1 \in 0..N /\ n + 1 # 0 /\ n + 1 - 1 = n
        BY <1>4, <3>1
      <4>2. a[n] = g[n]
        BY <2>3, <4>1
      <4>3. a[n + 1] = IF a[n] \in DOMAIN mem THEN mem[a[n]].next ELSE Null
        BY <1>9, <2>1, <4>1
      <4>4. g[n + 1] = IF g[n] \in DOMAIN mem THEN mem[g[n]].next ELSE Null
        BY <1>7, <2>1, <4>1
      <4> QED
        BY <4>2, <4>3, <4>4
    <3> QED
      BY <3>1
  <2> HIDE DEF S
  <2>4. Nat \subseteq S
    BY <2>2, <2>3, Counting
  <2>5. ASSUME NEW n \in 0..N
        PROVE  a[n] = g[n]
    <3>1. n \in S /\ n <= N
      BY <1>4, <2>4
    <3> QED
      BY <3>1 DEF S
  <2> QED
    BY <2>5
<1>12. {n \in 0..N : a[n] # Null} = 0..Len(s) - 1
  <2>1. ASSUME NEW n \in 0..N
        PROVE  a[n] # Null <=> n < Len(s)
    <3>1. a[n] = IF n < Len(s) THEN s[n + 1] ELSE Null
      BY <1>6, <1>11
    <3>2. n < Len(s) => n + 1 \in 1..Len(s)
      BY <1>2, <1>4
    <3> QED
      BY <1>2, <3>1, <3>2, NotifyAssumption
  <2>2. \A n : n \in 0..Len(s) - 1 <=> n \in 0..N /\ n < Len(s)
    BY <1>2, <1>4
  <2> QED
    BY <2>1, <2>2
<1>13. Cardinality(0..Len(s) - 1) = Len(s)
  <2>1. Len(s) - 1 \in Int
    BY <1>2
  <2>2. Cardinality(0..Len(s) - 1) = IF 0 > Len(s) - 1 THEN 0 ELSE Len(s) - 1 - 0 + 1
    BY <2>1, FS_Interval
  <2> QED
    BY <1>2, <2>2
<1>14. Walk(l) = [i \in 1..Len(s) |-> a[i - 1]]
  BY <1>1, <1>10, <1>12, <1>13, Zenon
<1>15. ASSUME NEW i \in 1..Len(s)
       PROVE  a[i - 1] = s[i]
  <2>1. i - 1 \in 0..N /\ i - 1 < Len(s) /\ i - 1 + 1 = i
    BY <1>2, <1>4
  <2> QED
    BY <1>6, <1>11, <2>1
<1>16. Walk(l) = [i \in 1..Len(s) |-> s[i]]
  BY <1>14, <1>15
<1>17. s = [i \in 1..Len(s) |-> s[i]]
  BY <1>2
<1> QED
  BY <1>1, <1>16, <1>17

-----------------------------------------------------------------------------
(* What is left of a loop when its list changes.                           *)

\* Steps that touch no pointer keep the lists.
LEMMA LaySame ==
    ASSUME NEW q, Lay(q), UNCHANGED <<head, mem>>
    PROVE  Lay(q)'
<1>1. head' = head /\ mem' = mem
  OBVIOUS
<1> QED
  BY <1>1 DEF Lay, Chain

\* Steps that touch no local variable of Context::pop keep the loop's place.
LEMMA LoopSame ==
    ASSUME NEW s, Loop(s), UNCHANGED <<pc, cur, next, due, called>>
    PROVE  Loop(s)'
<1>1. pc' = pc /\ cur' = cur /\ next' = next /\ due' = due /\ called' = called
  OBVIOUS
<1> QED
  BY <1>1 DEF Loop, Rest

\* An object that registers is in front of what is still to be called back.
LEMMA LoopCons ==
    ASSUME NEW s \in Seq(Obj), NEW t \in Seq(Obj), NEW o, IsCons(t, o, s), Loop(s),
           UNCHANGED <<pc, cur, next, due, called>>
    PROVE  Loop(t)'
<1>1. Len(s) \in Nat /\ Len(t) = Len(s) + 1 /\ \A j \in 1..Len(s) : t[j + 1] = s[j]
  BY Ranges DEF IsCons
<1>2. Rest \in 0..Len(s) /\ \A j \in 1..Rest : due[Len(called) + j] = s[Len(s) - Rest + j]
  BY DEF Loop
<1>3. Rest \in 0..Len(t)
  BY <1>1, <1>2
<1>4. ASSUME NEW j \in 1..Rest
      PROVE  due[Len(called) + j] = t[Len(t) - Rest + j]
  <2>1. Len(s) - Rest + j \in 1..Len(s) /\ Len(t) - Rest + j = Len(s) - Rest + j + 1
    BY <1>1, <1>2
  <2> QED
    BY <1>1, <1>2, <2>1
<1>5. Loop(t)
  BY <1>3, <1>4 DEF Loop
<1> QED
  BY <1>5, LoopSame

\* An object that leaves in its own callback is not one that is still to be called.
LEMMA LoopWithout ==
    ASSUME NEW s \in Seq(Obj), NEW t \in Seq(Obj), NEW i \in 1..Len(s), IsWithout(t, i, s),
           Loop(s), pc \notin Lists, s[i] = cur,
           UNCHANGED <<pc, cur, next, due, called>>
    PROVE  Loop(t)'
<1>1. /\ Len(s) \in Nat /\ Len(t) = Len(s) - 1
      /\ \A j \in 1..Len(s) - 1 : t[j] = IF j < i THEN s[j] ELSE s[j + 1]
  BY Ranges DEF IsWithout
<1>2. /\ Rest \in 0..Len(s) /\ \A j \in 1..Rest : due[Len(called) + j] = s[Len(s) - Rest + j]
      /\ \A a, b \in 1..Len(due) : due[a] = due[b] => a = b
      /\ Len(called) > 0 /\ cur = due[Len(called)]
  BY DEF Loop
<1>3. Len(due) \in Nat /\ Len(called) \in Nat /\ Rest = Len(due) - Len(called)
  BY Ranges DEF Loop, Rest
<1>4. i <= Len(s) - Rest
  <2>1. SUFFICES ASSUME ~(i <= Len(s) - Rest)
                 PROVE  FALSE
    OBVIOUS
  <2>2. PICK j : j = i - (Len(s) - Rest)
    OBVIOUS
  <2>3. j \in 1..Rest /\ Len(s) - Rest + j = i
    BY <1>1, <1>2, <2>1, <2>2
  <2>4. due[Len(called) + j] = due[Len(called)]
    BY <1>2, <2>3
  <2>5. Len(called) + j \in 1..Len(due) /\ Len(called) \in 1..Len(due)
    BY <1>2, <1>3, <2>3
  <2>6. Len(called) + j = Len(called)
    BY <1>2, <2>4, <2>5
  <2> QED
    BY <1>3, <2>3, <2>6
<1>5. Rest \in 0..Len(t)
  BY <1>1, <1>2, <1>4
<1>6. ASSUME NEW j \in 1..Rest
      PROVE  due[Len(called) + j] = t[Len(t) - Rest + j]
  <2>1. PICK k : k = Len(t) - Rest + j
    OBVIOUS
  <2>2. k \in 1..Len(s) - 1 /\ ~(k < i) /\ k + 1 = Len(s) - Rest + j
    BY <1>1, <1>2, <1>4, <2>1
  <2> QED
    BY <1>1, <1>2, <2>1, <2>2
<1>7. Loop(t)
  BY <1>5, <1>6 DEF Loop
<1> QED
  BY <1>7, LoopSame

\* At its head a loop has the whole list before it.
LEMMA LoopBegins ==
    ASSUME NEW s \in Seq(Obj), \A i, j \in 1..Len(s) : s[i] = s[j] => i = j,
           pc' \in Lists, cur' = FirstOf(s), due' = s, called' = <<>>
    PROVE  Loop(s)'
<1>1. Len(s) \in Nat /\ Len(<<>>) = 0 /\ <<>> \in Seq(Obj)
  BY Ranges
<1>2. Rest' = Len(s)
  BY <1>1 DEF Rest
<1>3. \A j \in 1..Len(s) : due'[Len(called') + j] = s[Len(s) - Rest' + j]
  <2>1. \A j \in 1..Len(s) : 0 + j = j /\ Len(s) - Len(s) + j = j
    BY <1>1
  <2> QED
    BY <1>1, <1>2, <2>1
<1>4. cur' = IF Rest' = 0 THEN Null ELSE due'[Len(called') + 1]
  BY <1>1, <1>2 DEF FirstOf
<1>5. Rest' \in 0..Len(s) /\ \A i \in 1..Len(called') : called'[i] = due'[i]
  BY <1>1, <1>2
<1> QED
  BY <1>1, <1>2, <1>3, <1>4, <1>5 DEF Loop

\* The pointer stored before the callback is the next object's.
LEMMA LoopNotifies ==
    ASSUME NEW s \in Seq(Obj), Loop(s), \A i \in 1..Len(s) : mem[s[i]].next = After(s, i),
           pc \in Lists, cur # Null,
           next' = mem[cur].next, called' = Append(called, cur), pc' \notin Lists,
           cur' = cur, due' = due
    PROVE  Loop(s)'
<1>1. Len(s) \in Nat /\ Len(due) \in Nat /\ Len(called) \in Nat /\ Rest = Len(due) - Len(called)
  BY Ranges DEF Loop, Rest
<1>2. /\ Rest \in 0..Len(s) /\ \A j \in 1..Rest : due[Len(called) + j] = s[Len(s) - Rest + j]
      /\ cur = IF Rest = 0 THEN Null ELSE due[Len(called) + 1]
      /\ due \in Seq(Obj) /\ called \in Seq(Obj) /\ \A i \in 1..Len(called) : called[i] = due[i]
  BY DEF Loop
<1>3. Rest > 0 /\ cur = due[Len(called) + 1]
  BY <1>1, <1>2
<1>4. PICK n, m : n = Len(called) /\ m = Len(s) - Rest + 1
  OBVIOUS
<1>5. m \in 1..Len(s) /\ cur = s[m] /\ n + 1 \in 1..Len(due)
  <2>1. 1 \in 1..Rest
    BY <1>1, <1>3
  <2> QED
    BY <1>1, <1>2, <1>3, <1>4, <2>1
<1>6. cur \in Obj
  BY <1>3, <1>4, <1>5, <1>2, Ranges
<1>7. /\ called' \in Seq(Obj) /\ Len(called') = n + 1 /\ called'[n + 1] = cur
      /\ \A i \in 1..n : called'[i] = called[i]
  BY <1>2, <1>4, <1>6
<1>8. Rest' = Rest - 1
  BY <1>1, <1>4, <1>7 DEF Rest
<1>9. Rest' \in 0..Len(s)
  BY <1>1, <1>2, <1>3, <1>8
<1>10. ASSUME NEW i \in 1..Len(called')
       PROVE  called'[i] = due'[i]
  <2>1. i \in 1..n \/ i = n + 1
    BY <1>1, <1>4, <1>7
  <2> QED
    BY <1>2, <1>3, <1>4, <1>7, <2>1
<1>11. ASSUME NEW j \in 1..Rest'
       PROVE  due'[Len(called') + j] = s[Len(s) - Rest' + j]
  <2>1. j + 1 \in 1..Rest /\ n + 1 + j = n + (j + 1) /\ Len(s) - Rest' + j = Len(s) - Rest + (j + 1)
    BY <1>1, <1>2, <1>4, <1>8
  <2>2. due[n + (j + 1)] = s[Len(s) - Rest + (j + 1)]
    BY <1>2, <1>4, <2>1
  <2> QED
    BY <1>7, <2>1, <2>2
<1>12. next' = IF Rest' = 0 THEN Null ELSE due'[Len(called') + 1]
  <2>1. next' = After(s, m)
    BY <1>5
  <2>2. CASE Rest' = 0
    <3>1. ~(m < Len(s))
      BY <1>1, <1>4, <1>8, <2>2
    <3> QED
      BY <2>1, <2>2, <3>1 DEF After
  <2>3. CASE Rest' # 0
    <3>1. m < Len(s) /\ 1 \in 1..Rest' /\ Len(s) - Rest' + 1 = m + 1
      BY <1>1, <1>2, <1>4, <1>8, <2>3
    <3>2. due'[Len(called') + 1] = s[m + 1]
      BY <1>11, <3>1
    <3> QED
      BY <2>1, <2>3, <3>1, <3>2 DEF After
  <2> QED
    BY <2>2, <2>3
<1>13. Len(called') > 0 /\ cur' = due'[Len(called')]
  BY <1>1, <1>3, <1>4, <1>7
<1>14. \A i, j \in 1..Len(due') : due'[i] = due'[j] => i = j
  BY DEF Loop
<1> QED
  BY <1>2, <1>7, <1>9, <1>10, <1>11, <1>12, <1>13, <1>14 DEF Loop

\* After the callback the loop goes on from the stored pointer.
LEMMA LoopReturns ==
    ASSUME NEW s, Loop(s), pc \notin Lists, pc' \in Lists,
           cur' = next, due' = due, called' = called
    PROVE  Loop(s)'
<1>1. Rest' = Rest
  BY DEF Rest
<1> QED
  BY <1>1 DEF Loop

-----------------------------------------------------------------------------
(* The parts of the invariant, from one state to the next.                 *)

\* The invariant's simple parts.
LEMMA Parts ==
    ASSUME IInv
    PROVE  /\ level \in 0..MaxLevel /\ head \in [Lists -> Obj \union {Null}] /\ DOMAIN mem \subseteq Obj
           /\ pc \in {"idle", "pre", "in pre", "post", "in post", "gone"}
           /\ cur \in Obj \union {Null} /\ next \in Obj \union {Null}
           /\ dying \in BOOLEAN /\ wild \in BOOLEAN /\ ~wild /\ Shaped
  BY DEF IInv, TypeOK

\* What the lists say of the types of the pointers.
NextsTyped == \A o \in DOMAIN mem : mem[o].next \in Obj \union {Null}

LEMMA LayTypes ==
    ASSUME NEW q \in Orders, Lay(q)
    PROVE  NextsTyped
<1>1. ASSUME NEW o \in DOMAIN mem
      PROVE  mem[o].next \in Obj \union {Null}
  <2>1. PICK l \in Lists : \E i \in 1..Len(q[l]) : o = q[l][i]
    BY DEF Lay
  <2>2. PICK i \in 1..Len(q[l]) : o = q[l][i]
    BY <2>1
  <2>3. PICK s : s = q[l]
    OBVIOUS
  <2>4. s \in Seq(Obj) /\ Len(s) \in Nat /\ \A j \in 1..Len(s) : s[j] \in Obj
    BY <2>3, Ranges DEF Orders
  <2>5. mem[o].next = After(s, i)
    BY <2>2, <2>3 DEF Lay, Chain
  <2>6. i < Len(s) => i + 1 \in 1..Len(s)
    BY <2>2, <2>3, <2>4
  <2> QED
    BY <2>4, <2>5, <2>6 DEF After
<1> QED
  BY <1>1 DEF NextsTyped

LEMMA LayTypesNext ==
    ASSUME NEW q \in Orders
    PROVE  Lay(q)' => NextsTyped'
<1>1. Lay(q) => NextsTyped
  BY LayTypes
<1> QED
  BY <1>1, PTL

\* The invariant after a step that leaves the context there.
LEMMA IInvNext ==
    ASSUME level' \in 0..MaxLevel, head' \in [Lists -> Obj \union {Null}], DOMAIN mem' \subseteq Obj,
           pc' \in {"idle", "pre", "in pre", "post", "in post"},
           cur' \in Obj \union {Null}, next' \in Obj \union {Null},
           dying' \in BOOLEAN, wild' \in BOOLEAN, ~wild', Shaped',
           NEW q \in Orders, Lay(q)', \A l \in Lists : Looping(l)' => Loop(q[l])',
           pc' \in {"pre", "in pre"} => level' > 0
    PROVE  IInv'
<1>1. \A o \in DOMAIN mem' : mem'[o].next \in Obj \union {Null}
  BY LayTypesNext DEF NextsTyped
<1>2. TypeOK'
  BY <1>1 DEF TypeOK
<1>3. pc' # "gone"
  OBVIOUS
<1>4. ~wild' /\ Shaped'
  OBVIOUS
<1>5. \E r \in Orders : Lay(r)' /\ \A l \in Lists : Looping(l)' => Loop(r[l])'
  OBVIOUS
<1> QED
  BY <1>2, <1>3, <1>4, <1>5 DEF IInv

LEMMA Orderly ==
    ASSUME IInv, pc # "gone"
    PROVE  \E q \in Orders : Lay(q) /\ \A l \in Lists : Looping(l) => Loop(q[l])
  BY DEF IInv

LEMMA OrderSeq ==
    ASSUME NEW q \in Orders, NEW l \in Lists
    PROVE  q[l] \in Seq(Obj) /\ Len(q[l]) \in Nat /\ \A i \in 1..Len(q[l]) : q[l][i] \in Obj
  BY Ranges DEF Orders

\* Steps that leave the lists alone and are in no loop afterwards, or go on with it.
LEMMA ListsStay ==
    ASSUME IInv, pc # "gone", UNCHANGED <<head, mem, wild>>,
           level' \in 0..MaxLevel, pc' \in {"idle", "pre", "in pre", "post", "in post"},
           cur' \in Obj \union {Null}, next' \in Obj \union {Null}, dying' \in BOOLEAN,
           pc' \in {"pre", "in pre"} => level' > 0,
           \A q \in Orders : \A l \in Lists :
              Lay(q) /\ (Looping(l) => Loop(q[l])) /\ Looping(l)' => Loop(q[l])'
    PROVE  IInv'
<1>1. PICK q \in Orders : Lay(q) /\ \A l \in Lists : Looping(l) => Loop(q[l])
  BY Orderly
<1>2. Lay(q)'
  BY <1>1, LaySame
<1>3. \A l \in Lists : Looping(l)' => Loop(q[l])'
  BY <1>1
<1>4. head' = head /\ mem' = mem /\ wild' = wild
  OBVIOUS
<1>5. head' \in [Lists -> Obj \union {Null}] /\ DOMAIN mem' \subseteq Obj /\ wild' \in BOOLEAN /\ ~wild'
  <2>1. head \in [Lists -> Obj \union {Null}] /\ DOMAIN mem \subseteq Obj /\ wild \in BOOLEAN /\ ~wild
    BY Parts
  <2>2. head' \in [Lists -> Obj \union {Null}] /\ DOMAIN mem' \subseteq Obj
    BY <1>4, <2>1
  <2>3. wild' \in BOOLEAN /\ ~wild'
    <3>1. wild \in BOOLEAN /\ ~wild
      BY <2>1
    <3> QED
      BY ONLY <1>4, <3>1, Zenon
  <2> QED
    BY <2>2, <2>3
<1>6. Shaped'
  BY <1>4, Parts DEF Shaped
<1> QED
  BY <1>2, <1>3, <1>5, <1>6, IInvNext

\* One lemma for each action: it keeps the invariant.
LEMMA InitHolds ==
    ASSUME Init
    PROVE  IInv
<1>1. /\ head = [l \in Lists |-> Null] /\ mem = <<>> /\ level = 0 /\ pc = "idle"
      /\ cur = Null /\ next = Null /\ dying = FALSE /\ wild = FALSE
  BY Zenon DEF Init
<1>2. DOMAIN mem = {}
  BY <1>1
<1>3. TypeOK
  <2>1. level \in 0..MaxLevel
    BY <1>1, NotifyAssumption
  <2>2. dying \in BOOLEAN /\ wild \in BOOLEAN
    BY <1>1, Zenon
  <2>3. head \in [Lists -> Obj \union {Null}] /\ pc \in {"idle", "pre", "in pre", "post", "in post", "gone"}
    BY <1>1
  <2> QED
    BY <1>1, <1>2, <2>1, <2>2, <2>3 DEF TypeOK
<1>4. PICK e : e = <<>>
  OBVIOUS
<1>5. e \in Seq(Obj) /\ Len(e) = 0
  BY <1>4
<1>6. PICK q : q = [l \in Lists |-> e]
  OBVIOUS
<1>7. q \in Orders /\ \A l \in Lists : q[l] = e
  BY <1>5, <1>6 DEF Orders
<1>8. Lay(q)
  BY <1>1, <1>2, <1>5, <1>7 DEF Lay, Chain, Apart, FirstOf
<1>9. \A l \in Lists : ~Looping(l)
  BY <1>1 DEF Looping, Lists
<1>10. pc # "gone" /\ pc \notin {"pre", "in pre"}
  BY <1>1
<1>11. ~wild
  BY <1>1, Zenon
<1>12. Shaped
  BY <1>2 DEF Shaped
<1> QED
  BY <1>3, <1>7, <1>8, <1>9, <1>10, <1>11, <1>12 DEF IInv

LEMMA CreateKeeps ==
    ASSUME IInv, NEW o \in Obj, NEW l \in Lists, Create(o, l)
    PROVE  IInv'
<1>1. /\ o \notin DOMAIN mem /\ AddNotifyObj(o, l)
      /\ level' = level /\ pc' = pc /\ cur' = cur /\ next' = next /\ dying' = dying
      /\ due' = due /\ called' = called /\ wild' = wild
  BY Zenon DEF Create, Exists
<1>2. pc # "gone"
  BY DEF Create, Idle, InCallback
<1>3. PICK q \in Orders : Lay(q) /\ \A m \in Lists : Looping(m) => Loop(q[m])
  BY <1>2, Orderly
<1>4. /\ head \in [Lists -> Obj \union {Null}] /\ DOMAIN mem \subseteq Obj /\ Shaped
      /\ pc \in {"idle", "pre", "in pre", "post", "in post", "gone"} /\ level \in 0..MaxLevel
      /\ cur \in Obj \union {Null} /\ next \in Obj \union {Null}
      /\ dying \in BOOLEAN /\ wild \in BOOLEAN /\ ~wild
  BY Parts
<1>5. PICK r : r = [q EXCEPT ![l] = InFront(o, q[l])]
  OBVIOUS
<1>6. r \in Orders /\ Lay(r)'
  BY <1>1, <1>3, <1>4, <1>5, Added
<1>7. DOMAIN mem' = DOMAIN mem \union {o} /\ Shaped' /\ head' = [head EXCEPT ![l] = o]
  BY <1>1, <1>4, AddFields
<1>8. DOMAIN mem' \subseteq Obj /\ head' \in [Lists -> Obj \union {Null}]
  BY <1>4, <1>7
<1>9. ASSUME NEW m \in Lists, Looping(m)'
      PROVE  Loop(r[m])'
  <2>1. Looping(m)
    BY <1>1, <1>9 DEF Looping
  <2>2. PICK s, t : s = q[m] /\ t = r[m]
    OBVIOUS
  <2>3. Loop(s)
    BY <1>3, <2>1, <2>2
  <2>4. s \in Seq(Obj)
    BY <2>2, OrderSeq
  <2>5. UNCHANGED <<pc, cur, next, due, called>>
    BY <1>1
  <2>6. CASE m = l
    <3>1. t = InFront(o, s)
      BY <1>5, <2>2, <2>6 DEF Orders
    <3>2. t \in Seq(Obj) /\ IsCons(t, o, s)
      BY <2>4, <3>1, ConsIs
    <3>3. Loop(t)'
      BY <2>3, <2>4, <2>5, <3>2, LoopCons
    <3> QED
      BY <2>2, <3>3
  <2>7. CASE m # l
    <3>1. t = s
      BY <1>5, <2>2, <2>7 DEF Orders
    <3>2. Loop(s)'
      BY <2>3, <2>5, LoopSame
    <3> QED
      BY <2>2, <3>1, <3>2
  <2> QED
    BY <2>6, <2>7
<1>10. pc' \in {"pre", "in pre"} => level' > 0
  BY <1>1 DEF IInv
<1>11. pc' \in {"idle", "pre", "in pre", "post", "in post"} /\ level' \in 0..MaxLevel
  BY <1>1, <1>2, <1>4
<1>12. cur' \in Obj \union {Null} /\ next' \in Obj \union {Null} /\ dying' \in BOOLEAN
       /\ wild' \in BOOLEAN /\ ~wild'
  BY <1>1, <1>4, Zenon
<1> QED
  BY <1>6, <1>7, <1>8, <1>9, <1>10, <1>11, <1>12, IInvNext

\* Delete and DeleteSelf while the context exists.
LEMMA UnlinkKeeps ==
    ASSUME IInv, pc # "gone", NEW o \in DOMAIN mem, Unlink(o),
           Idle \/ (InCallback /\ cur = o),
           UNCHANGED <<level, pc, cur, next, dying, due, called>>
    PROVE  IInv'
<1>1. /\ level' = level /\ pc' = pc /\ cur' = cur /\ next' = next /\ dying' = dying
      /\ due' = due /\ called' = called
  OBVIOUS
<1>2. /\ head \in [Lists -> Obj \union {Null}] /\ DOMAIN mem \subseteq Obj /\ Shaped
      /\ pc \in {"idle", "pre", "in pre", "post", "in post", "gone"} /\ level \in 0..MaxLevel
      /\ cur \in Obj \union {Null} /\ next \in Obj \union {Null}
      /\ dying \in BOOLEAN /\ wild \in BOOLEAN /\ ~wild
  BY Parts
<1>3. PICK q \in Orders : Lay(q) /\ \A m \in Lists : Looping(m) => Loop(q[m])
  BY Orderly
<1>4. PICK l \in Lists : \E i \in 1..Len(q[l]) : o = q[l][i]
  BY <1>3 DEF Lay
<1>5. PICK i \in 1..Len(q[l]) : o = q[l][i]
  BY <1>4
<1>6. Unlink(q[l][i])
  BY <1>5, Zenon
<1>7. PICK r : r = [q EXCEPT ![l] = Without(q[l], i)]
  OBVIOUS
<1>8. /\ r \in Orders /\ Lay(r)' /\ ~wild' /\ Shaped'
      /\ DOMAIN mem' = DOMAIN mem \ {q[l][i]}
      /\ head' \in [Lists -> Obj \union {Null}]
  BY <1>2, <1>3, <1>6, <1>7, Removed
<1>9. wild' \in BOOLEAN
  BY ONLY Unlink(o), Zenon DEF Unlink
<1>10. ASSUME NEW m \in Lists, Looping(m)'
       PROVE  Loop(r[m])'
  <2>1. Looping(m)
    BY <1>1, <1>10 DEF Looping
  <2>2. PICK s, t : s = q[m] /\ t = r[m]
    OBVIOUS
  <2>3. Loop(s) /\ s \in Seq(Obj)
    BY <1>3, <2>1, <2>2, OrderSeq
  <2>4. UNCHANGED <<pc, cur, next, due, called>>
    BY <1>1
  <2>5. pc \notin Lists /\ cur = o
    BY <2>1 DEF Looping, Idle, InCallback, Lists
  <2>6. CASE m = l
    <3>1. t = Without(s, i) /\ i \in 1..Len(s) /\ s[i] = cur
      BY <1>5, <1>7, <2>2, <2>5, <2>6 DEF Orders
    <3>2. t \in Seq(Obj) /\ IsWithout(t, i, s)
      BY <2>3, <3>1, WithoutIs
    <3>3. Loop(t)'
      BY <2>3, <2>4, <2>5, <3>1, <3>2, LoopWithout
    <3> QED
      BY <2>2, <3>3
  <2>7. CASE m # l
    <3>1. t = s
      BY <1>7, <2>2, <2>7 DEF Orders
    <3>2. Loop(s)'
      BY <2>3, <2>4, LoopSame
    <3> QED
      BY <2>2, <3>1, <3>2
  <2> QED
    BY <2>6, <2>7
<1>11. pc' \in {"pre", "in pre"} => level' > 0
  BY <1>1 DEF IInv
<1>12. /\ pc' \in {"idle", "pre", "in pre", "post", "in post"} /\ level' \in 0..MaxLevel
       /\ cur' \in Obj \union {Null} /\ next' \in Obj \union {Null} /\ DOMAIN mem' \subseteq Obj
  BY <1>1, <1>2, <1>8
<1>13. dying' \in BOOLEAN
  BY <1>1, <1>2, Zenon
<1> QED
  BY <1>8, <1>9, <1>10, <1>11, <1>12, <1>13, IInvNext

\* After the context is gone.
Cut == \A o \in DOMAIN mem : mem[o].next = Null /\ mem[o].prev = Nowhere

\* The invariant after a step that leaves no context.
LEMMA IInvGone ==
    ASSUME level' \in 0..MaxLevel, head' \in [Lists -> Obj \union {Null}], DOMAIN mem' \subseteq Obj,
           pc' = "gone", cur' \in Obj \union {Null}, next' \in Obj \union {Null},
           dying' \in BOOLEAN, wild' \in BOOLEAN, ~wild', Shaped', Cut'
    PROVE  IInv'
<1>1. \A o \in DOMAIN mem' : mem'[o].next \in Obj \union {Null}
  BY DEF Cut
<1>2. TypeOK'
  BY <1>1 DEF TypeOK
<1>3. ~wild' /\ Shaped'
  OBVIOUS
<1> QED
  BY <1>2, <1>3 DEF IInv, Cut

\* Delete after ~Context.
LEMMA DeleteGone ==
    ASSUME IInv, pc = "gone", NEW o \in DOMAIN mem, Unlink(o),
           UNCHANGED <<level, pc, cur, next, dying, due, called>>
    PROVE  IInv'
<1>1. level' = level /\ pc' = pc /\ cur' = cur /\ next' = next /\ dying' = dying
  OBVIOUS
<1>2. /\ head \in [Lists -> Obj \union {Null}] /\ DOMAIN mem \subseteq Obj /\ Shaped
      /\ level \in 0..MaxLevel /\ cur \in Obj \union {Null} /\ next \in Obj \union {Null}
      /\ dying \in BOOLEAN /\ wild \in BOOLEAN /\ ~wild
  BY Parts
<1>3. Cut /\ mem[o].next = Null /\ mem[o].prev = Nowhere
  BY DEF IInv, Cut
<1>4. Null \notin DOMAIN mem /\ \A x \in DOMAIN mem : x = mem[o].next => mem[o].prev # NextOf(x)
  BY <1>2, <1>3, NotifyAssumption
<1>5. /\ DOMAIN mem' = DOMAIN mem \ {o} /\ Shaped'
      /\ \A x \in DOMAIN mem \ {o} :
            /\ mem'[x].next = IF mem[o].prev = NextOf(x) THEN mem[o].next ELSE mem[x].next
            /\ mem'[x].prev = IF x = mem[o].next THEN mem[o].prev ELSE mem[x].prev
  BY <1>2, <1>4, UnlinkFields
<1>6. Cut'
  BY <1>3, <1>4, <1>5, Pointers DEF Cut
<1>7. head' = head
  BY ONLY pc = "gone", Unlink(o), Zenon DEF Unlink
<1>8. ~wild'
  BY <1>2, <1>3, Zenon DEF Unlink
<1>9. wild' \in BOOLEAN
  BY ONLY Unlink(o), Zenon DEF Unlink
<1>10. /\ level' \in 0..MaxLevel /\ head' \in [Lists -> Obj \union {Null}] /\ DOMAIN mem' \subseteq Obj
       /\ pc' = "gone" /\ cur' \in Obj \union {Null} /\ next' \in Obj \union {Null}
  BY <1>1, <1>2, <1>5, <1>7
<1>11. dying' \in BOOLEAN
  BY <1>1, <1>2, Zenon
<1> QED
  BY <1>5, <1>6, <1>8, <1>9, <1>10, <1>11, IInvGone

-----------------------------------------------------------------------------
(* The steps of a pop.                                                     *)

\* A loop begins with its whole list to call back.
LEMMA BeginKeeps ==
    ASSUME IInv, pc # "gone", NEW l \in Lists, BeginLoop(l), UNCHANGED <<head, mem, dying, wild>>,
           level' \in 0..MaxLevel, l = "pre" => level' > 0
    PROVE  IInv'
<1>1. pc' = l /\ cur' = head[l] /\ due' = Walk(l) /\ called' = <<>> /\ next' = next
  BY DEF BeginLoop
<1>2. /\ head \in [Lists -> Obj \union {Null}] /\ DOMAIN mem \subseteq Obj
      /\ next \in Obj \union {Null} /\ dying \in BOOLEAN
  BY Parts
<1>3. ASSUME NEW q \in Orders, NEW m \in Lists, Lay(q), Looping(m)'
      PROVE  Loop(q[m])'
  <2>1. m = l
    BY <1>1, <1>3 DEF Looping, Lists
  <2>2. PICK s : s = q[l]
    OBVIOUS
  <2>3. s \in Seq(Obj) /\ \A i, j \in 1..Len(s) : s[i] = s[j] => i = j
    BY <1>3, <2>2, OrderSeq DEF Lay, Apart
  <2>4. Walk(l) = s
    BY <1>2, <1>3, <2>2, WalkIs
  <2>5. cur' = FirstOf(s)
    BY <1>1, <1>3, <2>2 DEF Lay, Chain
  <2>6. Loop(s)'
    BY <1>1, <2>3, <2>4, <2>5, LoopBegins
  <2> QED
    BY <2>1, <2>2, <2>6
<1>4. /\ pc' \in {"idle", "pre", "in pre", "post", "in post"} /\ cur' \in Obj \union {Null}
      /\ next' \in Obj \union {Null} /\ (pc' \in {"pre", "in pre"} => level' > 0)
  BY <1>1, <1>2 DEF Lists
<1>5. dying' \in BOOLEAN
  BY <1>2, Zenon
<1> QED
  BY <1>3, <1>4, <1>5, ListsStay

LEMMA PopKeeps ==
    ASSUME IInv, Pop
    PROVE  IInv'
<1>1. pc = "idle" /\ level > 0 /\ BeginLoop("pre") /\ UNCHANGED <<level, head, mem, dying, wild>>
  BY Zenon DEF Pop
<1>2. "pre" \in Lists /\ pc # "gone"
  BY <1>1 DEF Lists
<1>3. level' \in 0..MaxLevel /\ level' > 0
  BY <1>1, Parts
<1>4. UNCHANGED <<head, mem, dying, wild>>
  BY <1>1, Zenon
<1> QED
  BY <1>1, <1>2, <1>3, <1>4, BeginKeeps

LEMMA RestoreScopeKeeps ==
    ASSUME IInv, RestoreScope
    PROVE  IInv'
<1>1. pc = "pre" /\ level' = level - 1 /\ BeginLoop("post") /\ UNCHANGED <<head, mem, dying, wild>>
  BY Zenon DEF RestoreScope
<1>2. "post" \in Lists /\ pc # "gone" /\ "post" # "pre"
  BY <1>1 DEF Lists
<1>3. level > 0
  BY <1>1 DEF IInv
<1>4. level' \in 0..MaxLevel
  BY <1>1, <1>3, Parts, NotifyAssumption
<1> QED
  BY <1>1, <1>2, <1>4, BeginKeeps

LEMMA NotifyKeeps ==
    ASSUME IInv, NEW l \in Lists, Notify(l)
    PROVE  IInv'
<1>1. /\ pc = l /\ cur # Null /\ next' = mem[cur].next /\ called' = Append(called, cur)
      /\ pc' = (IF l = "pre" THEN "in pre" ELSE "in post")
      /\ UNCHANGED <<head, mem, wild>> /\ level' = level /\ cur' = cur /\ due' = due
  BY Zenon DEF Notify
<1>2. pc # "gone" /\ pc \in Lists /\ pc' \notin Lists /\ Looping(l) /\ pc' \in {"in pre", "in post"}
  BY <1>1 DEF Lists, Looping
<1>3. level \in 0..MaxLevel /\ cur \in Obj \union {Null} /\ dying \in BOOLEAN /\ DOMAIN mem \subseteq Obj
  BY Parts
<1>4. ASSUME NEW q \in Orders, Lay(q), Looping(l) => Loop(q[l])
      PROVE  Loop(q[l])' /\ cur \in DOMAIN mem
  <2>1. PICK s : s = q[l]
    OBVIOUS
  <2>2. s \in Seq(Obj) /\ Loop(s)
    BY <1>2, <1>4, <2>1, OrderSeq
  <2>3. \A i \in 1..Len(s) : s[i] \in DOMAIN mem /\ mem[s[i]].next = After(s, i)
    BY <1>4, <2>1 DEF Lay, Chain
  <2>4. Loop(s)'
    BY <1>1, <1>2, <2>2, <2>3, LoopNotifies
  <2>5. cur \in DOMAIN mem
    <3>1. /\ Rest \in 0..Len(s) /\ \A j \in 1..Rest : due[Len(called) + j] = s[Len(s) - Rest + j]
          /\ cur = IF Rest = 0 THEN Null ELSE due[Len(called) + 1]
      BY <1>2, <2>2 DEF Loop
    <3>2. Len(s) \in Nat
      BY <2>2, Ranges
    <3>3. Rest # 0 /\ cur = due[Len(called) + 1]
      BY ONLY <1>1, <3>1
    <3>4. 1 \in 1..Rest /\ Len(s) - Rest + 1 \in 1..Len(s)
      BY ONLY <3>1, <3>2, <3>3
    <3> QED
      BY <2>3, <3>1, <3>3, <3>4
  <2> QED
    BY <2>1, <2>4, <2>5
<1>5. ASSUME NEW q \in Orders, NEW m \in Lists, Lay(q), Looping(m) => Loop(q[m]), Looping(m)'
      PROVE  Loop(q[m])'
  <2>1. m = l
    <3>1. PICK x : x = pc'
      OBVIOUS
    <3>2. x = (IF l = "pre" THEN "in pre" ELSE "in post")
      BY <1>1, <3>1, Zenon
    <3>3. x \in {m, IF m = "pre" THEN "in pre" ELSE "in post"}
      BY <1>5, <3>1, Zenon DEF Looping
    <3>4. l \in {"pre", "post"} /\ m \in {"pre", "post"}
      BY Zenon DEF Lists
    <3>5. CASE l = "pre" /\ m = "post"
      <4>1. x = "in pre" /\ x \in {"post", "in post"}
        BY <3>2, <3>3, <3>5
      <4> QED
        BY ONLY <4>1
    <3>6. CASE l = "post" /\ m = "pre"
      <4>1. x = "in post" /\ x \in {"pre", "in pre"}
        BY <3>2, <3>3, <3>6
      <4> QED
        BY ONLY <4>1
    <3> QED
      BY ONLY <3>4, <3>5, <3>6
  <2> QED
    BY <1>4, <1>5, <2>1
<1>6. next' \in Obj \union {Null}
  <2>1. PICK q \in Orders : Lay(q) /\ \A m \in Lists : Looping(m) => Loop(q[m])
    BY <1>2, Orderly
  <2>2. cur \in DOMAIN mem
    BY <1>4, <2>1
  <2>3. NextsTyped
    BY <2>1, LayTypes
  <2> QED
    BY <1>1, <2>2, <2>3 DEF NextsTyped
<1>7. pc' \in {"pre", "in pre"} => level' > 0
  BY <1>1 DEF IInv, Lists
<1>8. /\ level' \in 0..MaxLevel /\ cur' \in Obj \union {Null}
      /\ pc' \in {"idle", "pre", "in pre", "post", "in post"}
  BY <1>1, <1>2, <1>3
<1>9. dying' \in BOOLEAN
  BY ONLY <1>3, Notify(l), Zenon DEF Notify
<1> QED
  BY <1>1, <1>2, <1>5, <1>6, <1>7, <1>8, <1>9, ListsStay

LEMMA ReturnKeeps ==
    ASSUME IInv, NEW l \in Lists, Return(l)
    PROVE  IInv'
<1>1. /\ pc = (IF l = "pre" THEN "in pre" ELSE "in post") /\ pc' = l /\ cur' = next
      /\ UNCHANGED <<head, mem, wild>> /\ level' = level /\ next' = next /\ due' = due /\ called' = called
  BY Zenon DEF Return
<1>2. /\ pc # "gone" /\ pc \notin Lists /\ pc' \in Lists /\ Looping(l)
  BY <1>1 DEF Lists, Looping
<1>3. level \in 0..MaxLevel /\ next \in Obj \union {Null} /\ dying \in BOOLEAN
  BY Parts
<1>4. ASSUME NEW q \in Orders, NEW m \in Lists, Lay(q), Looping(m) => Loop(q[m]), Looping(m)'
      PROVE  Loop(q[m])'
  <2>1. m = l
    BY <1>1, <1>4 DEF Looping, Lists
  <2>2. PICK s : s = q[m]
    OBVIOUS
  <2>3. Loop(s)
    BY <1>2, <1>4, <2>1, <2>2
  <2>4. Loop(s)'
    BY <1>1, <1>2, <2>3, LoopReturns
  <2> QED
    BY <2>2, <2>4
<1>5. pc' \in {"pre", "in pre"} => level' > 0
  BY <1>1 DEF IInv, Lists
<1>6. /\ level' \in 0..MaxLevel /\ cur' \in Obj \union {Null} /\ next' \in Obj \union {Null}
      /\ pc' \in {"idle", "pre", "in pre", "post", "in post"}
  BY <1>1, <1>3 DEF Lists
<1>7. dying' \in BOOLEAN
  BY ONLY <1>3, Return(l), Zenon DEF Return
<1> QED
  BY <1>1, <1>2, <1>4, <1>5, <1>6, <1>7, ListsStay

-----------------------------------------------------------------------------
(* The other steps, and the invariant.                                     *)

\* The two lists together hold what exists.
LEMMA Members ==
    ASSUME NEW q \in Orders, Lay(q), DOMAIN mem \subseteq Obj
    PROVE  ToSet(Walk("pre")) \union ToSet(Walk("post")) = DOMAIN mem
<1>1. PICK s, t : s = q["pre"] /\ t = q["post"]
  OBVIOUS
<1>2. Walk("pre") = s /\ Walk("post") = t
  BY <1>1, WalkIs DEF Lists
<1>3. DOMAIN s = 1..Len(s) /\ DOMAIN t = 1..Len(t)
  BY <1>1, Ranges DEF Orders, Lists
<1>4. ToSet(s) = {s[i] : i \in 1..Len(s)} /\ ToSet(t) = {t[i] : i \in 1..Len(t)}
  BY <1>3 DEF ToSet
<1>5. \A i \in 1..Len(s) : s[i] \in DOMAIN mem
  BY <1>1 DEF Lay, Chain, Lists
<1>6. \A i \in 1..Len(t) : t[i] \in DOMAIN mem
  BY <1>1 DEF Lay, Chain, Lists
<1>7. ASSUME NEW o \in DOMAIN mem
      PROVE  o \in ToSet(s) \union ToSet(t)
  <2>1. PICK l \in Lists : \E i \in 1..Len(q[l]) : o = q[l][i]
    BY DEF Lay
  <2>2. CASE l = "pre"
    BY <1>1, <1>4, <2>1, <2>2
  <2>3. CASE l = "post"
    BY <1>1, <1>4, <2>1, <2>3
  <2> QED
    BY <2>2, <2>3 DEF Lists
<1> QED
  BY <1>2, <1>4, <1>5, <1>6, <1>7

LEMMA FinishDestroyKeeps ==
    ASSUME IInv, FinishDestroy
    PROVE  IInv'
<1>1. /\ pc = "idle" /\ pc' = "gone"
      /\ mem' = [o \in DOMAIN mem |->
                    IF o \in ToSet(Walk("pre")) \union ToSet(Walk("post"))
                    THEN [next |-> Null, prev |-> Nowhere] ELSE mem[o]]
      /\ head' = [l \in Lists |-> Null]
      /\ level' = level /\ cur' = cur /\ next' = next /\ dying' = dying /\ wild' = wild
  BY Zenon DEF FinishDestroy
<1>2. /\ DOMAIN mem \subseteq Obj /\ level \in 0..MaxLevel
      /\ cur \in Obj \union {Null} /\ next \in Obj \union {Null}
      /\ dying \in BOOLEAN /\ wild \in BOOLEAN /\ ~wild
  BY Parts
<1>3. PICK q \in Orders : Lay(q)
  <2>1. pc # "gone"
    BY <1>1
  <2> QED
    BY <2>1, Orderly
<1>4. PICK S : S = ToSet(Walk("pre")) \union ToSet(Walk("post"))
  OBVIOUS
<1>5. S = DOMAIN mem
  BY <1>2, <1>3, <1>4, Members
<1>6. mem' = [o \in DOMAIN mem |-> IF o \in S THEN [next |-> Null, prev |-> Nowhere] ELSE mem[o]]
  BY ONLY <1>1, <1>4, Zenon
<1>7. mem' = [o \in DOMAIN mem |-> [next |-> Null, prev |-> Nowhere]]
  BY ONLY <1>5, <1>6
<1>8. DOMAIN mem' \subseteq Obj /\ Shaped' /\ Cut'
  BY ONLY <1>2, <1>7 DEF Shaped, Cut
<1>9. head' \in [Lists -> Obj \union {Null}] /\ level' \in 0..MaxLevel /\ pc' = "gone"
  BY <1>1, <1>2
<1>10. cur' \in Obj \union {Null} /\ next' \in Obj \union {Null}
  BY <1>1, <1>2
<1>11. dying' \in BOOLEAN /\ wild' \in BOOLEAN /\ ~wild'
  BY ONLY <1>1, <1>2, Zenon
<1> QED
  BY <1>8, <1>9, <1>10, <1>11, IInvGone

LEMMA EndPopKeeps ==
    ASSUME IInv, EndPop
    PROVE  IInv'
<1>1. /\ pc = "post" /\ pc' = "idle" /\ next' = Null /\ level' = level /\ cur' = cur
      /\ UNCHANGED <<head, mem, wild>> /\ dying' = dying
  BY Zenon DEF EndPop
<1>2. level \in 0..MaxLevel /\ cur \in Obj \union {Null} /\ dying \in BOOLEAN
  BY Parts
<1>3. \A m \in Lists : ~Looping(m)'
  BY <1>1 DEF Looping, Lists
<1>4. /\ level' \in 0..MaxLevel /\ pc' \in {"idle", "pre", "in pre", "post", "in post"} /\ pc # "gone"
      /\ cur' \in Obj \union {Null} /\ next' \in Obj \union {Null} /\ pc' \notin {"pre", "in pre"}
  BY <1>1, <1>2
<1>5. dying' \in BOOLEAN
  BY ONLY <1>1, <1>2, Zenon
<1> QED
  BY <1>1, <1>3, <1>4, <1>5, ListsStay

LEMMA PushKeeps ==
    ASSUME IInv, Push
    PROVE  IInv'
<1>1. /\ pc = "idle" /\ level < MaxLevel /\ level' = level + 1 /\ pc' = pc /\ cur' = cur /\ next' = next
      /\ UNCHANGED <<head, mem, wild>> /\ dying' = dying
  BY Zenon DEF Push, Idle
<1>2. level \in 0..MaxLevel /\ cur \in Obj \union {Null} /\ next \in Obj \union {Null} /\ dying \in BOOLEAN
  BY Parts
<1>3. \A m \in Lists : ~Looping(m)'
  BY <1>1 DEF Looping, Lists
<1>4. /\ level' \in 0..MaxLevel /\ pc' \in {"idle", "pre", "in pre", "post", "in post"} /\ pc # "gone"
      /\ cur' \in Obj \union {Null} /\ next' \in Obj \union {Null} /\ pc' \notin {"pre", "in pre"}
  BY <1>1, <1>2, NotifyAssumption
<1>5. dying' \in BOOLEAN
  BY ONLY <1>1, <1>2, Zenon
<1> QED
  BY <1>1, <1>3, <1>4, <1>5, ListsStay

LEMMA StartDestroyKeeps ==
    ASSUME IInv, StartDestroy
    PROVE  IInv'
<1>1. /\ pc = "idle" /\ level' = level /\ pc' = pc /\ cur' = cur /\ next' = next
      /\ UNCHANGED <<head, mem, wild>>
  BY Zenon DEF StartDestroy, Idle
<1>2. level \in 0..MaxLevel /\ cur \in Obj \union {Null} /\ next \in Obj \union {Null}
  BY Parts
<1>3. \A m \in Lists : ~Looping(m)'
  BY <1>1 DEF Looping, Lists
<1>4. /\ level' \in 0..MaxLevel /\ pc' \in {"idle", "pre", "in pre", "post", "in post"} /\ pc # "gone"
      /\ cur' \in Obj \union {Null} /\ next' \in Obj \union {Null} /\ pc' \notin {"pre", "in pre"}
  BY <1>1, <1>2
<1>5. dying' \in BOOLEAN
  BY ONLY StartDestroy, Zenon DEF StartDestroy
<1> QED
  BY <1>1, <1>3, <1>4, <1>5, ListsStay

LEMMA StutterKeeps ==
    ASSUME IInv, UNCHANGED vars
    PROVE  IInv'
<1>1. /\ level' = level /\ pc' = pc /\ cur' = cur /\ next' = next /\ due' = due /\ called' = called
      /\ head' = head /\ mem' = mem /\ wild' = wild /\ dying' = dying
  BY DEF vars
<1>2. /\ level \in 0..MaxLevel /\ cur \in Obj \union {Null} /\ next \in Obj \union {Null}
      /\ head \in [Lists -> Obj \union {Null}] /\ DOMAIN mem \subseteq Obj /\ Shaped
      /\ pc \in {"idle", "pre", "in pre", "post", "in post", "gone"}
      /\ dying \in BOOLEAN /\ wild \in BOOLEAN /\ ~wild
  BY Parts
<1>3. dying' \in BOOLEAN /\ wild' \in BOOLEAN /\ ~wild'
  BY ONLY <1>1, <1>2, Zenon
<1>4. CASE pc = "gone"
  <2>1. Cut' /\ Shaped'
    BY <1>1, <1>2, <1>4 DEF IInv, Cut, Shaped
  <2>2. /\ level' \in 0..MaxLevel /\ head' \in [Lists -> Obj \union {Null}] /\ DOMAIN mem' \subseteq Obj
        /\ pc' = "gone" /\ cur' \in Obj \union {Null} /\ next' \in Obj \union {Null}
    BY <1>1, <1>2, <1>4
  <2> QED
    BY <1>3, <2>1, <2>2, IInvGone
<1>5. CASE pc # "gone"
  <2>1. UNCHANGED <<head, mem, wild>> /\ UNCHANGED <<pc, cur, next, due, called>>
    BY <1>1
  <2>2. /\ level' \in 0..MaxLevel /\ pc' \in {"idle", "pre", "in pre", "post", "in post"}
        /\ cur' \in Obj \union {Null} /\ next' \in Obj \union {Null}
    BY <1>1, <1>2, <1>5
  <2>3. pc' \in {"pre", "in pre"} => level' > 0
    BY <1>1 DEF IInv
  <2>4. ASSUME NEW q \in Orders, NEW l \in Lists, Lay(q), Looping(l) => Loop(q[l]), Looping(l)'
        PROVE  Loop(q[l])'
    <3>1. Looping(l)
      BY <1>1, <2>4 DEF Looping
    <3>2. PICK s : s = q[l]
      OBVIOUS
    <3>3. Loop(s)
      BY <2>4, <3>1, <3>2
    <3>4. Loop(s)'
      BY <2>1, <3>3, LoopSame
    <3> QED
      BY <3>2, <3>4
  <2> QED
    BY <1>3, <1>5, <2>1, <2>2, <2>3, <2>4, ListsStay
<1> QED
  BY <1>4, <1>5

LEMMA NextKeeps ==
    ASSUME IInv, Next
    PROVE  IInv'
<1>1. ASSUME NEW o \in Obj, Delete(o)
      PROVE  IInv'
  <2>1. /\ o \in DOMAIN mem /\ Unlink(o) /\ (Idle \/ pc = "gone")
        /\ UNCHANGED <<level, pc, cur, next, dying, due, called>>
    BY <1>1, Zenon DEF Delete, Exists
  <2>2. CASE pc = "gone"
    BY <2>1, <2>2, DeleteGone
  <2>3. CASE pc # "gone"
    BY <2>1, <2>3, UnlinkKeeps
  <2> QED
    BY <2>2, <2>3
<1>2. CASE DeleteSelf
  <2>1. /\ cur \in DOMAIN mem /\ Unlink(cur) /\ InCallback
        /\ UNCHANGED <<level, pc, cur, next, dying, due, called>>
    BY <1>2, Zenon DEF DeleteSelf, Exists
  <2>2. pc # "gone"
    BY <2>1 DEF InCallback
  <2>3. PICK o : o = cur
    OBVIOUS
  <2>4. o \in DOMAIN mem /\ Unlink(o)
    BY <2>1, <2>3, Zenon
  <2> QED
    BY <2>1, <2>2, <2>3, <2>4, UnlinkKeeps
<1> QED
  BY <1>1, <1>2, CreateKeeps, PushKeeps, PopKeeps, NotifyKeeps, ReturnKeeps, RestoreScopeKeeps,
     EndPopKeeps, StartDestroyKeeps, FinishDestroyKeeps DEF Next

\* The invariant holds from the construction of the context on, through every
\* registration, destruction, push, pop and callback and after ~Context.
THEOREM Inductive ==
    Spec => []IInv
<1>1. Init => IInv
  BY InitHolds
<1>2. IInv /\ [Next]_vars => IInv'
  BY NextKeeps, StutterKeeps
<1> QED
  BY <1>1, <1>2, PTL DEF Spec

-----------------------------------------------------------------------------
(* What the invariant says.                                                *)

\* A list that holds no object twice has as many places as objects.
LEMMA CountOf ==
    ASSUME NEW s \in Seq(Obj), \A i, j \in 1..Len(s) : s[i] = s[j] => i = j
    PROVE  IsFiniteSet(ToSet(s)) /\ Cardinality(ToSet(s)) = Len(s)
<1>1. Len(s) \in Nat /\ DOMAIN s = 1..Len(s)
  BY Ranges
<1>2. PICK T : T = ToSet(s)
  OBVIOUS
<1>3. T = {s[i] : i \in 1..Len(s)}
  BY <1>1, <1>2 DEF ToSet
<1>4. s \in [1..Len(s) -> T]
  BY <1>1, <1>3
<1>5. s \in Bijection(1..Len(s), T)
  BY <1>3, <1>4 DEF Bijection, Injection, Surjection, IsInjective
<1>6. ExistsBijection(1..Len(s), T)
  BY <1>5 DEF ExistsBijection
<1>7. IsFiniteSet(1..Len(s)) /\ Cardinality(1..Len(s)) = IF 1 > Len(s) THEN 0 ELSE Len(s) - 1 + 1
  BY <1>1, FS_Interval
<1>8. IsFiniteSet(T) /\ Cardinality(T) = Cardinality(1..Len(s))
  BY <1>6, <1>7, FS_Bijection
<1> QED
  BY <1>1, <1>2, <1>7, <1>8

\* ListsIntact follows: the walks are the two orders, which share no object.
LEMMA IntactFromInv ==
    ASSUME IInv
    PROVE  ListsIntact
<1>1. TypeOK /\ ~wild /\ DOMAIN mem \subseteq Obj
  BY DEF IInv, TypeOK
<1>2. ASSUME pc # "gone"
      PROVE  /\ ToSet(Walk("pre")) \union ToSet(Walk("post")) = DOMAIN mem
             /\ Len(Walk("pre")) + Len(Walk("post")) = Cardinality(DOMAIN mem)
             /\ \A l \in Lists : \A i \in DOMAIN Walk(l) :
                   mem[Walk(l)[i]].prev = IF i = 1 THEN HeadOf(l) ELSE NextOf(Walk(l)[i - 1])
  <2>1. PICK q \in Orders : Lay(q)
    BY <1>2, Orderly
  <2>2. \A l \in Lists : Walk(l) = q[l]
    BY <1>1, <2>1, WalkIs
  <2>3. ToSet(Walk("pre")) \union ToSet(Walk("post")) = DOMAIN mem
    BY <1>1, <2>1, Members
  <2>4. PICK s, t : s = Walk("pre") /\ t = Walk("post")
    OBVIOUS
  <2>5. s = q["pre"] /\ t = q["post"]
    BY <2>2, <2>4 DEF Lists
  <2>6. s \in Seq(Obj) /\ t \in Seq(Obj) /\ Len(s) \in Nat /\ Len(t) \in Nat
        /\ DOMAIN s = 1..Len(s) /\ DOMAIN t = 1..Len(t)
    BY <2>5, Ranges DEF Orders, Lists
  <2>7. /\ \A i, j \in 1..Len(s) : s[i] = s[j] => i = j
        /\ \A i, j \in 1..Len(t) : t[i] = t[j] => i = j
        /\ \A i \in 1..Len(s), j \in 1..Len(t) : s[i] # t[j]
    BY <2>1, <2>5 DEF Lay, Apart, Lists
  <2>8. /\ IsFiniteSet(ToSet(s)) /\ Cardinality(ToSet(s)) = Len(s)
        /\ IsFiniteSet(ToSet(t)) /\ Cardinality(ToSet(t)) = Len(t)
    BY <2>6, <2>7, CountOf
  <2>9. ToSet(s) \cap ToSet(t) = {}
    BY <2>6, <2>7 DEF ToSet
  <2>10. Cardinality(ToSet(s) \cup ToSet(t)) = Len(s) + Len(t)
    <3>1. Cardinality(ToSet(s) \cup ToSet(t)) =
             Cardinality(ToSet(s)) + Cardinality(ToSet(t)) - Cardinality(ToSet(s) \cap ToSet(t))
      BY <2>8, FS_Union
    <3>2. Cardinality({}) = 0
      BY FS_EmptySet
    <3>3. Cardinality(ToSet(s) \cap ToSet(t)) = 0
      BY <2>9, <3>2, Zenon
    <3>4. PICK n : n = Cardinality(ToSet(s) \cup ToSet(t))
      OBVIOUS
    <3>5. n = Len(s) + Len(t) - 0
      BY <2>8, <3>1, <3>3, <3>4, Zenon
    <3> QED
      BY <2>6, <3>4, <3>5
  <2>11. Len(Walk("pre")) + Len(Walk("post")) = Cardinality(DOMAIN mem)
    BY <2>3, <2>4, <2>10
  <2>12. ASSUME NEW l \in Lists, NEW i \in DOMAIN Walk(l)
         PROVE  mem[Walk(l)[i]].prev = IF i = 1 THEN HeadOf(l) ELSE NextOf(Walk(l)[i - 1])
    <3>1. PICK w : w = Walk(l)
      OBVIOUS
    <3>2. w = q[l] /\ i \in 1..Len(w)
      BY <2>2, <2>12, <3>1, Ranges DEF Orders
    <3>3. mem[w[i]].prev = Before(l, w, i)
      BY <2>1, <3>2 DEF Lay, Chain
    <3> QED
      BY <3>1, <3>3 DEF Before
  <2> QED
    BY <2>3, <2>11, <2>12
<1> QED
  BY <1>1, <1>2 DEF ListsIntact

\* NotifiedOnceInOrder follows: what is left is the end of what was due.
LEMMA OrderFromInv ==
    ASSUME IInv
    PROVE  NotifiedOnceInOrder
<1>1. ASSUME pc \in {"pre", "in pre", "post", "in post"}
      PROVE  \E s \in Seq(Obj) : Loop(s)
  <2>1. pc # "gone"
    BY <1>1
  <2>2. PICK q \in Orders : \A l \in Lists : Looping(l) => Loop(q[l])
    BY <2>1, Orderly
  <2>3. \E l \in Lists : Looping(l)
    BY <1>1 DEF Looping, Lists
  <2>4. PICK l \in Lists : Looping(l)
    BY <2>3
  <2> QED
    BY <2>2, <2>4, OrderSeq
<1>2. ASSUME NEW s \in Seq(Obj), Loop(s)
      PROVE  IsPrefix(called, due)
  <2>1. PICK c, d : c = called /\ d = due
    OBVIOUS
  <2>2. /\ c \in Seq(Obj) /\ d \in Seq(Obj) /\ Len(c) \in Nat /\ Len(d) \in Nat
        /\ \A i \in 1..Len(c) : c[i] = d[i]
    BY <1>2, <2>1, Ranges DEF Loop
  <2>3. Len(c) <= Len(d)
    <3>1. Len(d) - Len(c) \in 0..Len(s) /\ Len(s) \in Nat
      BY <1>2, <2>1, Ranges DEF Loop, Rest
    <3> QED
      BY <2>2, <3>1
  <2>4. SubSeq(c, 1, Len(c)) = SubSeq(d, 1, Len(c))
    BY <2>2, <2>3
  <2> QED
    BY <2>1, <2>3, <2>4 DEF IsPrefix
<1>3. ASSUME NEW s \in Seq(Obj), Loop(s), pc \in Lists, cur = Null
      PROVE  called = due
  <2>1. PICK c, d : c = called /\ d = due
    OBVIOUS
  <2>2. /\ c \in Seq(Obj) /\ d \in Seq(Obj) /\ Len(c) \in Nat /\ Len(d) \in Nat
        /\ \A i \in 1..Len(c) : c[i] = d[i]
        /\ \A i \in 1..Len(d) : d[i] \in Obj
    BY <1>3, <2>1, Ranges DEF Loop
  <2>3. /\ Len(d) - Len(c) \in 0..Len(s) /\ Len(s) \in Nat
        /\ cur = IF Len(d) - Len(c) = 0 THEN Null ELSE d[Len(c) + 1]
    BY <1>3, <2>1, Ranges DEF Loop, Rest
  <2>4. Len(d) - Len(c) # 0 => Len(c) + 1 \in 1..Len(d)
    BY <2>2, <2>3
  <2>5. Len(c) = Len(d)
    BY <1>3, <2>2, <2>3, <2>4, NotifyAssumption
  <2> QED
    BY <2>1, <2>2, <2>5
<1>4. pc \in {"pre", "in pre", "post", "in post"} => IsPrefix(called, due)
  BY <1>1, <1>2
<1>5. pc \in Lists /\ cur = Null => called = due
  <2>1. pc \in Lists => pc \in {"pre", "in pre", "post", "in post"}
    BY DEF Lists
  <2> QED
    BY <1>1, <1>3, <2>1
<1> QED
  BY <1>4, <1>5 DEF NotifiedOnceInOrder

-----------------------------------------------------------------------------

\* However objects register and are destroyed, in any order, in or out of their
\* callbacks, before or after the context: each registered object is on exactly one
\* of the two lists, its d_ppCNOprev leads to the pointer that leads to it, and
\* ~ContextNotifyObj writes to no freed memory.
THEOREM ListsStayIntact ==
    Spec => []ListsIntact
<1>1. IInv => ListsIntact
  BY IntactFromInv
<1> QED
  BY <1>1, Inductive, PTL

\* Context::pop calls back each object that was registered when its loop began, once,
\* the latest registered first, and no other, for any number of objects that
\* unregister themselves or register others from their callbacks.
THEOREM NotificationInOrder ==
    Spec => []NotifiedOnceInOrder
<1>1. IInv => NotifiedOnceInOrder
  BY OrderFromInv
<1> QED
  BY <1>1, Inductive, PTL
================================================================================
