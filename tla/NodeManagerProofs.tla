------------------------- MODULE NodeManagerProofs -------------------------
(***************************************************************************)
(* The reference counts of node values are exact, no freed node is used,   *)
(* and none is lost, for every set of terms, maximal count, threshold of a *)
(* collection, and number of Nodes of the program.                         *)
(***************************************************************************)
EXTENDS NodeManager, FiniteSetTheorems, SequenceTheorems, WellFoundedInduction, TLAPS

(***************************************************************************)
(* The inductive invariant.                                                *)
(***************************************************************************)

\* With a term the terms that it is made of.
Closed(D) == \A k \in D : \A i \in DOMAIN Children[k] : Children[k][i] \in D
IsSize(size) ==
    /\ size \in [Key -> 0..Cardinality(Key)]
    /\ \A k \in Key : \A i \in DOMAIN Children[k] : size[Children[k][i]] < size[k]

Ops == {"dec", "free", "return", "reclaim", "collect", "attributes"}
Calls == [op : Ops, key : Key \union {None}]
Entries == [key : Key, turn : {"before", "after"}]
OpAt(i, op) == work[i].op = op
Above(i) == \A j \in 1..i - 1 : work[j].op = "dec"
Below(i) == \A j \in i + 1..Len(work) : work[j].op = "dec"

Typed ==
    /\ TypeOK /\ allocated \subseteq Key /\ failed = {}
    /\ work \in Seq(Calls)
    /\ \A i \in 1..Len(work) : work[i].op \in {"dec", "free", "return"} => work[i].key \in Key
    /\ stack \in Seq(Entries) /\ root \in Nat

\* The counts of the nodes that are not being freed.
Exact == \A k \in Live : IF k \in Pinned THEN rc[k] = MaxRC
                         ELSE rc[k] < MaxRC /\ rc[k] = References(k)

\* Nothing refers to a node that is being freed, or has been.
NoneLeft == \A k \in Key \ Live : References(k) = 0 /\ (k \in Dying => rc[k] = 0)

\* Where nodes are noted, and which are in the pool.
Placed ==
    /\ zombies \union collecting \union Pinned \subseteq Live
    /\ zombies \intersect collecting = {}
    /\ \A k \in collecting : rc[k] = 0
    /\ \A k \in Live : rc[k] = 0 => k \in zombies \union collecting
    /\ pool = Live \intersect Pooled

\* Which calls are below which: decrements are on top, a node is freed on top of
\* the collection, and a node of the pool is returned when its children, that it
\* holds as well, have been given back.
CallStack ==
    /\ \A i \in 1..Len(work) :
          /\ OpAt(i, "reclaim") => i = 1 /\ Below(i) /\ ~inReclaim
          /\ OpAt(i, "free") => i < Len(work) /\ OpAt(i + 1, "collect") /\ Above(i)
          /\ OpAt(i, "collect") => /\ Below(i)
                                   /\ \A j \in 1..i - 1 : work[j].op \in {"dec", "free"}
          /\ OpAt(i, "attributes") => i = Len(work) /\ Above(i) /\ phase = "tables"
          /\ OpAt(i, "return") => /\ i = Len(work) /\ Above(i) /\ phase = "alive"
                                  /\ work[i].key \in Live \intersect Pooled /\ builder = None
                                  /\ handles[work[i].key] < MaxHandles
                                  /\ \A c \in Key : Count(Dec(c), work) <= Count(c, Children[work[i].key])
    /\ inReclaim <=> \E i \in 1..Len(work) : work[i].op \in {"collect", "attributes"}
    /\ collecting # {} => \E i \in 1..Len(work) : OpAt(i, "collect")

\* What the phases of the destructor have left behind.
Distinct(s) == \A i, j \in 1..Len(s) : s[i] = s[j] => i = j
Phased ==
    /\ phase # "alive" => builder = None /\ \A k \in Key : attr[k] = None
    /\ phase \in {"sorting", "deleting", "gone"} => \A k \in Key : handles[k] = 0
    /\ phase \in {"sorting", "gone"} => work = <<>>
    /\ phase \in {"alive", "tables"} => order = <<>>
    /\ phase \in {"deleting", "gone"} => maxedOut = <<>>
    /\ phase = "gone" => allocated = {}
    /\ phase # "sorting" => stack = <<>> /\ visited = {} /\ root = 0
    /\ Distinct(maxedOut)

\* A node of the order is not below an earlier one.
Ordered ==
    \A i \in 1..Len(order) : \E D \in SUBSET Key :
        Closed(D) /\ order[i] \notin D /\ \A j \in 1..i - 1 : order[j] \in D

\* The sort: an entry waits for its children, that are finished or above it on the
\* stack, where terms are smaller; with a finished node the nodes below it are.
Waiting == {p \in 1..Len(stack) : stack[p].turn = "after"}
Finished == visited \ {stack[p].key : p \in Waiting}
Sorting(size) ==
    /\ Closed(Finished)
    /\ ToSet(order) = Finished \intersect ToSet(maxedOut)
    /\ \A p \in Waiting :
          /\ stack[p].key \in visited
          /\ \A i \in DOMAIN Children[stack[p].key] :
                \/ Children[stack[p].key][i] \in Finished
                \/ \E q \in p + 1..Len(stack) : stack[q].key = Children[stack[p].key][i]
          /\ \A q \in p + 1..Len(stack) : size[stack[q].key] < size[stack[p].key]
    /\ root \in 0..Len(maxedOut)
    /\ \A i \in 1..root :
          maxedOut[i] \in visited \/ \E p \in 1..Len(stack) : stack[p].key = maxedOut[i]

IInv ==
    /\ Typed /\ Exact /\ NoneLeft /\ Placed /\ CallStack /\ Phased /\ Ordered
    /\ phase = "sorting" => \A size \in [Key -> 0..Cardinality(Key)] : IsSize(size) => Sorting(size)

-----------------------------------------------------------------------------
(* How often something occurs in a sequence.                               *)

Positions(x, s) == {i \in DOMAIN s : s[i] = x}

\* What a sequence is, as the steps below use it.
LEMMA Ranges ==
    ASSUME NEW S, NEW q \in Seq(S)
    PROVE  DOMAIN q = 1..Len(q) /\ Len(q) \in Nat /\ \A i \in 1..Len(q) : q[i] \in S
  OBVIOUS

\* A set that is the image of another under an injection has as many members.
LEMMA SameCount ==
    ASSUME NEW S, NEW T, IsFiniteSet(S), NEW f \in [S -> T],
           \A x, y \in S : f[x] = f[y] => x = y,
           \A y \in T : \E x \in S : f[x] = y
    PROVE  IsFiniteSet(T) /\ Cardinality(T) = Cardinality(S)
<1>1. f \in Bijection(S, T)
  BY DEF Bijection, Injection, Surjection, IsInjective
<1>2. ExistsBijection(S, T)
  BY <1>1 DEF ExistsBijection
<1> QED
  BY <1>2, FS_Bijection

LEMMA CountIs ==
    ASSUME NEW S, NEW s \in Seq(S), NEW x
    PROVE  /\ IsFiniteSet(Positions(x, s)) /\ Count(x, s) = Cardinality(Positions(x, s))
           /\ Count(x, s) \in Nat
<1>0. DOMAIN s = 1..Len(s) /\ Len(s) \in Nat
  BY Ranges
<1>1. IsFiniteSet(1..Len(s)) /\ Positions(x, s) \subseteq 1..Len(s)
  BY <1>0, FS_Interval DEF Positions
<1>2. IsFiniteSet(Positions(x, s))
  BY <1>1, FS_Subset
<1>3. Count(x, s) = Cardinality(Positions(x, s))
  BY DEF Count, Positions
<1> QED
  BY <1>2, <1>3, FS_CardinalityType

LEMMA CountZero ==
    ASSUME NEW S, NEW s \in Seq(S), NEW x
    PROVE  Count(x, s) = 0 <=> \A i \in 1..Len(s) : s[i] # x
<1>1. Count(x, s) = 0 <=> Positions(x, s) = {}
  BY CountIs, FS_EmptySet
<1>2. Positions(x, s) = {} <=> \A i \in 1..Len(s) : s[i] # x
  BY Ranges DEF Positions
<1> QED
  BY <1>1, <1>2

LEMMA CountConcat ==
    ASSUME NEW S, NEW s \in Seq(S), NEW t \in Seq(S), NEW x
    PROVE  Count(x, s \o t) = Count(x, s) + Count(x, t)
<1>1. /\ Len(s) \in Nat /\ Len(t) \in Nat
      /\ s \o t \in Seq(S) /\ Len(s \o t) = Len(s) + Len(t)
      /\ \A i \in 1..Len(s) + Len(t) : (s \o t)[i] = IF i <= Len(s) THEN s[i] ELSE t[i - Len(s)]
  BY ConcatProperties
<1>2. PICK m, n, u : m = Len(s) /\ n = Len(t) /\ u = s \o t
  OBVIOUS
<1>3. /\ m \in Nat /\ n \in Nat /\ u \in Seq(S) /\ Len(u) = m + n
      /\ \A i \in 1..m + n : u[i] = IF i <= m THEN s[i] ELSE t[i - m]
  BY <1>1, <1>2
<1>4. PICK P, Q, R : P = Positions(x, s) /\ Q = Positions(x, t) /\ R = {i \in 1..m + n : i > m /\ u[i] = x}
  OBVIOUS
<1>5. P = {i \in 1..m : s[i] = x} /\ Q = {i \in 1..n : t[i] = x}
  BY <1>2, <1>4, Ranges DEF Positions
<1>6. Positions(x, u) = P \cup R
  <2>1. Positions(x, u) = {i \in 1..m + n : u[i] = x}
    BY <1>3, Ranges DEF Positions
  <2>2. \A i \in 1..m : u[i] = s[i] /\ i \in 1..m + n
    BY <1>3
  <2>3. \A i \in 1..m + n : i > m \/ i \in 1..m
    BY <1>3
  <2> QED
    BY <1>4, <1>5, <2>1, <2>2, <2>3
<1>7. P \cap R = {}
  BY <1>3, <1>4, <1>5
<1>8. IsFiniteSet(P) /\ IsFiniteSet(Q) /\ Count(x, s) = Cardinality(P) /\ Count(x, t) = Cardinality(Q)
  BY <1>4, CountIs
<1>9. IsFiniteSet(R) /\ Cardinality(R) = Cardinality(Q)
  <2> DEFINE f == [i \in Q |-> m + i]
  <2>1. \A i \in Q : m + i \in R
    BY <1>3, <1>4, <1>5
  <2>2. f \in [Q -> R] /\ \A i, j \in Q : f[i] = f[j] => i = j
    BY <1>3, <1>5, <2>1
  <2>3. \A j \in R : \E i \in Q : f[i] = j
    <3> TAKE j \in R
    <3>1. j - m \in Q /\ m + (j - m) = j
      BY <1>3, <1>4, <1>5
    <3> QED
      BY <3>1
  <2> HIDE DEF f
  <2> QED
    BY <1>8, <2>2, <2>3, SameCount
<1>10. Cardinality(P \cup R) = Cardinality(P) + Cardinality(R)
  <2>1. Cardinality({}) = 0
    BY FS_EmptySet
  <2>2. Cardinality(P) \in Nat /\ Cardinality(R) \in Nat
    BY <1>8, <1>9, FS_CardinalityType
  <2>3. Cardinality(P \cap R) = 0
    BY <1>7, <2>1
  <2>4. Cardinality(P \cup R) = Cardinality(P) + Cardinality(R) - Cardinality(P \cap R)
    BY <1>8, <1>9, FS_Union
  <2> QED
    BY <2>2, <2>3, <2>4
<1>11. Count(x, u) = Cardinality(Positions(x, u))
  BY <1>3, CountIs
<1> QED
  BY <1>2, <1>6, <1>8, <1>9, <1>10, <1>11

LEMMA CountOne ==
    ASSUME NEW S, NEW y \in S, NEW x
    PROVE  <<y>> \in Seq(S) /\ Count(x, <<y>>) = IF x = y THEN 1 ELSE 0
<1>1. <<y>> \in Seq(S) /\ Len(<<y>>) = 1 /\ <<y>>[1] = y
  OBVIOUS
<1>2. CASE x = y
  <2>1. Positions(x, <<y>>) = {1}
    BY <1>1, <1>2, Ranges DEF Positions
  <2>2. Cardinality({1}) = 1
    BY FS_Singleton
  <2>3. Count(x, <<y>>) = Cardinality(Positions(x, <<y>>))
    BY <1>1, CountIs
  <2> QED
    BY <1>2, <2>1, <2>2, <2>3
<1>3. CASE x # y
  <2>1. \A i \in 1..Len(<<y>>) : <<y>>[i] # x
    BY <1>1, <1>3
  <2>2. Count(x, <<y>>) = 0
    BY <1>1, <2>1, CountZero
  <2> QED
    BY <1>3, <2>2
<1> QED
  BY <1>1, <1>2, <1>3

LEMMA CountEmpty ==
    ASSUME NEW x
    PROVE  Count(x, <<>>) = 0
<1>1. {i \in DOMAIN <<>> : <<>>[i] = x} = {}
  OBVIOUS
<1> QED
  BY <1>1, FS_EmptySet DEF Count

LEMMA HeadOff ==
    ASSUME NEW S, NEW s \in Seq(S), s # <<>>
    PROVE  /\ Tail(s) \in Seq(S) /\ Len(s) \in Nat \ {0} /\ Len(Tail(s)) = Len(s) - 1
           /\ Head(s) = s[1] /\ s[1] \in S
           /\ \A i \in 1..Len(s) - 1 : Tail(s)[i] = s[i + 1]
  BY HeadTailProperties

LEMMA CountTail ==
    ASSUME NEW S, NEW s \in Seq(S), s # <<>>, NEW x
    PROVE  Count(x, s) = Count(x, Tail(s)) + IF x = Head(s) THEN 1 ELSE 0
<1>1. Head(s) \in S /\ Tail(s) \in Seq(S) /\ s = <<Head(s)>> \o Tail(s)
  BY HeadTailProperties
<1>2. PICK y, h, t : y = Head(s) /\ h = <<y>> /\ t = Tail(s)
  OBVIOUS
<1>3. y \in S /\ t \in Seq(S) /\ s = h \o t
  BY <1>1, <1>2
<1>4. h \in Seq(S) /\ Count(x, h) = IF x = y THEN 1 ELSE 0
  BY <1>2, <1>3, CountOne
<1>5. Count(x, s) = Count(x, h) + Count(x, t)
  BY <1>3, <1>4, CountConcat
<1>6. Count(x, t) \in Nat
  BY <1>3, CountIs
<1> QED
  BY <1>2, <1>4, <1>5, <1>6

-----------------------------------------------------------------------------
(* What References counts.                                                 *)

AttrRefs(at, k) == Cardinality({j \in Key : at[j] = k})
BuilderRefs(b, k) == IF b = None THEN 0 ELSE Count(k, Children[b])
ParentsIn(nodes, k) ==
    UNION {{<<j, i>> : i \in {n \in DOMAIN Children[j] : Children[j][n] = k}} : j \in nodes}

LEMMA ReferencesIs ==
    ASSUME NEW k
    PROVE  References(k) = handles[k] + AttrRefs(attr, k) + BuilderRefs(builder, k)
                           + Cardinality(ParentsIn(Live, k)) + Count(Dec(k), work)
  BY DEF References, AttrRefs, BuilderRefs, ParentsIn, Parents

LEMMA Terms ==
    /\ \A k \in Key : Children[k] \in Seq(Key) /\ DOMAIN Children[k] = 1..Len(Children[k])
                      /\ Len(Children[k]) \in Nat
    /\ \A k \in Key : \A i \in 1..Len(Children[k]) : Children[k][i] \in Key
    /\ \A k \in Key \ Pooled : Children[k] = <<>>
    /\ IsFiniteSet(Key) /\ None \notin Key
<1>1. /\ Children \in [Key -> Seq(Key)] /\ IsFiniteSet(Key) /\ None \notin Key
      /\ \A k \in Key \ Pooled : Children[k] = <<>>
  BY NodeAssumption
<1>2. \A k \in Key : Children[k] \in Seq(Key)
  BY <1>1
<1> QED
  BY <1>1, <1>2, Ranges

\* An attribute that is set or cleared.
LEMMA AttrChanged ==
    ASSUME NEW at \in [Key -> Key \union {None}], NEW j \in Key, NEW v \in Key \union {None}, NEW k \in Key,
           NEW next, \A i \in Key : next[i] = IF i = j THEN v ELSE at[i]
    PROVE  /\ AttrRefs(at, k) \in Nat
           /\ AttrRefs(next, k) =
                 AttrRefs(at, k) - (IF at[j] = k THEN 1 ELSE 0) + (IF v = k THEN 1 ELSE 0)
<1> DEFINE S == {i \in Key : at[i] = k}
           R == S \ {j}
           T == {i \in Key : next[i] = k}
<1>1. IsFiniteSet(S)
  <2>1. S \subseteq Key
    OBVIOUS
  <2> QED
    BY <2>1, Terms, FS_Subset
<1>2. IsFiniteSet(R) /\ Cardinality(R) = IF j \in S THEN Cardinality(S) - 1 ELSE Cardinality(S)
  <2> HIDE DEF S
  <2> QED
    BY <1>1, FS_RemoveElement
<1>3. T = IF v = k THEN R \union {j} ELSE R
  OBVIOUS
<1>4. j \in S <=> at[j] = k
  OBVIOUS
<1>5. Cardinality(S) \in Nat /\ AttrRefs(at, k) = Cardinality(S)
  BY <1>1, FS_CardinalityType DEF AttrRefs
<1>6. AttrRefs(next, k) = Cardinality(T)
  BY DEF AttrRefs
<1>7. j \notin R
  OBVIOUS
<1> HIDE DEF S, R, T
<1>8. Cardinality(R \union {j}) = Cardinality(R) + 1
  BY <1>2, <1>7, FS_AddElement
<1> QED
  BY <1>2, <1>3, <1>4, <1>5, <1>6, <1>8

\* No attributes at all.
LEMMA AttrNone ==
    ASSUME NEW at, \A j \in Key : at[j] = None, NEW k \in Key
    PROVE  AttrRefs(at, k) = 0
<1>1. {j \in Key : at[j] = k} = {}
  BY Terms
<1> QED
  BY <1>1, FS_EmptySet DEF AttrRefs

LEMMA ParentsFinite ==
    ASSUME NEW nodes \in SUBSET Key, NEW k
    PROVE  IsFiniteSet(ParentsIn(nodes, k)) /\ Cardinality(ParentsIn(nodes, k)) \in Nat
<1>1. IsFiniteSet(nodes)
  BY Terms, FS_Subset
<1> DEFINE F(j) == {<<j, i>> : i \in {n \in DOMAIN Children[j] : Children[j][n] = k}}
<1>2. ASSUME NEW j \in nodes
      PROVE  IsFiniteSet(F(j))
  <2>1. IsFiniteSet(Positions(k, Children[j]))
    <3>1. Children[j] \in Seq(Key)
      BY Terms
    <3> QED
      BY <3>1, CountIs
  <2> DEFINE S == {n \in DOMAIN Children[j] : Children[j][n] = k}
             f == [i \in S |-> <<j, i>>]
  <2>2. IsFiniteSet(S)
    BY <2>1 DEF Positions
  <2>3. f \in [S -> F(j)] /\ (\A x, y \in S : f[x] = f[y] => x = y) /\ \A y \in F(j) : \E x \in S : f[x] = y
    OBVIOUS
  <2> HIDE DEF f, S, F
  <2> QED
    BY <2>2, <2>3, SameCount
<1>3. IsFiniteSet(UNION {F(j) : j \in nodes})
  <2> HIDE DEF F
  <2>1. IsFiniteSet({F(j) : j \in nodes})
    <3> DEFINE T == {F(j) : j \in nodes}
               f == [j \in nodes |-> F(j)]
    <3>1. f \in Surjection(nodes, T)
      BY DEF Surjection
    <3> HIDE DEF f, T
    <3>2. IsFiniteSet(T)
      BY <1>1, <3>1, FS_Surjection
    <3> QED
      BY <3>2 DEF T
  <2> QED
    BY <1>2, <2>1, FS_UNION
<1>4. IsFiniteSet(ParentsIn(nodes, k))
  BY <1>3 DEF ParentsIn
<1> QED
  BY <1>4, FS_CardinalityType

\* A node brings the references to its children.
LEMMA ParentAdded ==
    ASSUME NEW nodes \in SUBSET Key, NEW j \in Key \ nodes, NEW k
    PROVE  Cardinality(ParentsIn(nodes \union {j}, k)) =
              Cardinality(ParentsIn(nodes, k)) + Count(k, Children[j])
<1> DEFINE S == Positions(k, Children[j])
           P == ParentsIn(nodes, k)
           Q == {<<j, i>> : i \in S}
           f == [i \in S |-> <<j, i>>]
<1>1. IsFiniteSet(S) /\ Count(k, Children[j]) = Cardinality(S)
  <2>1. Children[j] \in Seq(Key)
    BY Terms
  <2> QED
    BY <2>1, CountIs
<1>2. f \in [S -> Q] /\ (\A x, y \in S : f[x] = f[y] => x = y) /\ \A y \in Q : \E x \in S : f[x] = y
  OBVIOUS
<1>3. IsFiniteSet(P) /\ Cardinality(P) \in Nat
  BY ParentsFinite
<1>4. ParentsIn(nodes \union {j}, k) = P \union Q
  BY DEF ParentsIn, Positions
<1>5. P \cap Q = {}
  BY DEF ParentsIn
<1> HIDE DEF S, P, Q, f
<1>6. IsFiniteSet(Q) /\ Cardinality(Q) = Cardinality(S)
  BY <1>1, <1>2, SameCount
<1>7. Cardinality(P \union Q) = Cardinality(P) + Cardinality(Q) - Cardinality(P \cap Q)
  BY <1>3, <1>6, FS_Union
<1>8. Cardinality(P \cap Q) = 0
  BY <1>5, FS_EmptySet
<1>9. Cardinality(Q) \in Nat
  BY <1>6, FS_CardinalityType
<1>10. P = ParentsIn(nodes, k)
  BY DEF P
<1>11. Cardinality(ParentsIn(nodes \union {j}, k)) = Cardinality(P \union Q)
  BY <1>4, Zenon
<1>12. Cardinality(ParentsIn(nodes, k)) = Cardinality(P)
  BY <1>10, Zenon
<1>13. PICK p, q, r, m : p = Cardinality(P) /\ q = Cardinality(Q) /\ r = Cardinality(P \cap Q)
                         /\ m = Cardinality(P \union Q)
  OBVIOUS
<1>14. p \in Nat /\ q \in Nat /\ r = 0 /\ m = p + q - r /\ q = Count(k, Children[j])
  BY <1>1, <1>3, <1>6, <1>7, <1>8, <1>9, <1>13
<1>15. m = p + q
  BY <1>14
<1> QED
  BY <1>11, <1>12, <1>13, <1>14, <1>15

LEMMA ParentRemoved ==
    ASSUME NEW nodes \in SUBSET Key, NEW j \in nodes, NEW k
    PROVE  Cardinality(ParentsIn(nodes \ {j}, k)) =
              Cardinality(ParentsIn(nodes, k)) - Count(k, Children[j])
<1>1. j \in Key \ (nodes \ {j}) /\ (nodes \ {j}) \union {j} = nodes /\ nodes \ {j} \in SUBSET Key
  OBVIOUS
<1>2. Cardinality(ParentsIn((nodes \ {j}) \union {j}, k)) =
         Cardinality(ParentsIn(nodes \ {j}, k)) + Count(k, Children[j])
  BY <1>1, ParentAdded
<1>3. Cardinality(ParentsIn(nodes \ {j}, k)) \in Nat
  BY <1>1, ParentsFinite
<1>4. Children[j] \in Seq(Key)
  BY Terms
<1>5. Count(k, Children[j]) \in Nat
  BY <1>4, CountIs
<1> QED
  BY <1>1, <1>2, <1>3, <1>5

\* A node that is there refers to each of its children as often as it has them.
LEMMA ChildCounted ==
    ASSUME NEW nodes \in SUBSET Key, NEW j \in nodes, NEW k
    PROVE  Count(k, Children[j]) \in Nat /\ Count(k, Children[j]) <= Cardinality(ParentsIn(nodes, k))
<1>1. Cardinality(ParentsIn(nodes \ {j}, k)) \in Nat
  <2>1. nodes \ {j} \in SUBSET Key
    OBVIOUS
  <2> QED
    BY <2>1, ParentsFinite
<1>2. Children[j] \in Seq(Key)
  BY Terms
<1>3. Count(k, Children[j]) \in Nat
  BY <1>2, CountIs
<1>4. Cardinality(ParentsIn(nodes, k)) \in Nat
  BY ParentsFinite
<1> QED
  BY <1>1, <1>3, <1>4, ParentRemoved

\* No parents, no references from parents.
LEMMA ParentsZero ==
    ASSUME NEW nodes \in SUBSET Key, NEW k
    PROVE  Cardinality(ParentsIn(nodes, k)) = 0 <=>
              \A j \in nodes : \A i \in DOMAIN Children[j] : Children[j][i] # k
<1>1. Cardinality(ParentsIn(nodes, k)) = 0 <=> ParentsIn(nodes, k) = {}
  BY ParentsFinite, FS_EmptySet
<1>2. ParentsIn(nodes, k) = {} <=> \A j \in nodes : \A i \in DOMAIN Children[j] : Children[j][i] # k
  <2>1. ASSUME NEW j \in nodes, NEW i \in DOMAIN Children[j], Children[j][i] = k
        PROVE  <<j, i>> \in ParentsIn(nodes, k)
    BY <2>1 DEF ParentsIn
  <2>2. ASSUME NEW p \in ParentsIn(nodes, k)
        PROVE  \E j \in nodes : \E i \in DOMAIN Children[j] : Children[j][i] = k
    BY <2>2 DEF ParentsIn
  <2> QED
    BY <2>1, <2>2
<1> QED
  BY <1>1, <1>2

-----------------------------------------------------------------------------
(* Calls that have not returned.                                           *)

LEMMA DecIs ==
    /\ \A k, l : Dec(k) = Dec(l) <=> k = l
    /\ \A k : Dec(k).op = "dec" /\ Dec(k).key = k
    /\ \A k \in Key : Dec(k) \in Calls
    /\ \A c \in Calls : c.op = "dec" <=> c = Dec(c.key)
  BY DEF Dec, Calls, Ops

LEMMA OpIs ==
    /\ \A name \in Ops, k \in Key \union {None} : Op(name, k) \in Calls
    /\ \A name, k : Op(name, k).op = name /\ Op(name, k).key = k
    /\ \A name, k, l : name # "dec" => Op(name, k) # Dec(l)
  BY DEF Dec, Op, Calls

LEMMA DecAllIs ==
    ASSUME NEW keys \in Seq(Key)
    PROVE  /\ DecAll(keys) \in Seq(Calls) /\ Len(DecAll(keys)) = Len(keys)
           /\ \A i \in 1..Len(keys) : DecAll(keys)[i] = Dec(keys[i])
           /\ \A k : Count(Dec(k), DecAll(keys)) = Count(k, keys)
<1>1. DOMAIN keys = 1..Len(keys) /\ Len(keys) \in Nat /\ \A i \in 1..Len(keys) : keys[i] \in Key
  BY Ranges
<1>2. DecAll(keys) = [i \in 1..Len(keys) |-> Dec(keys[i])]
  BY <1>1 DEF DecAll
<1>3. \A i \in 1..Len(keys) : Dec(keys[i]) \in Calls
  BY <1>1, DecIs
<1>4. DecAll(keys) \in Seq(Calls) /\ Len(DecAll(keys)) = Len(keys)
  <2>1. DecAll(keys) \in [1..Len(keys) -> Calls]
    BY <1>2, <1>3
  <2> QED
    BY <1>1, <2>1
<1>5. \A k : Count(Dec(k), DecAll(keys)) = Count(k, keys)
  <2> TAKE k
  <2>1. Positions(Dec(k), DecAll(keys)) = Positions(k, keys)
    BY <1>1, <1>2, DecIs DEF Positions
  <2> QED
    BY <2>1 DEF Count, Positions
<1> QED
  BY <1>2, <1>4, <1>5

-----------------------------------------------------------------------------
(* What the invariant says of a state, as the steps below use it.          *)

LEMMA DyingIs ==
    ASSUME NEW S, work \in Seq(S)
    PROVE  /\ \A k : k \in Dying <=> \E i \in 1..Len(work) : work[i].op = "free" /\ work[i].key = k
           /\ Live \subseteq allocated /\ \A k : k \in Live <=> k \in allocated /\ k \notin Dying
<1>1. DOMAIN work = 1..Len(work)
  BY Ranges
<1> QED
  BY <1>1 DEF Dying, Live

\* When no call is left there is no collection.
LEMMA Calm ==
    ASSUME IInv, work = <<>>
    PROVE  inReclaim = FALSE /\ collecting = {} /\ Dying = {} /\ Live = allocated
<1>1. work \in Seq(Calls) /\ Len(work) = 0
  BY DEF IInv, Typed
<1>2. Dying = {}
  BY <1>1 DEF Dying
<1>3. inReclaim \in BOOLEAN
  BY DEF IInv, Typed, TypeOK
<1>4. ~inReclaim /\ collecting = {}
  BY <1>1 DEF IInv, CallStack
<1> QED
  BY <1>2, <1>3, <1>4 DEF Live

\* Only decrements are to come.
Decs(w) == w \in Seq(Calls) /\ \A i \in 1..Len(w) : w[i].op = "dec" /\ w[i].key \in Key

LEMMA DecsCallStackNext ==
    ASSUME NEW w, w = work', Decs(w), ~inReclaim', collecting' = {}
    PROVE  CallStack' /\ Dying' = {} /\ Live' = allocated'
<1>1. \A i \in 1..Len(work') : work'[i].op = "dec"
  BY DEF Decs
<1>2. DOMAIN work' = 1..Len(work')
  BY Ranges DEF Decs
<1>3. Dying' = {}
  BY <1>1, <1>2 DEF Dying
<1>4. CallStack'
  BY <1>1 DEF CallStack, OpAt
<1> QED
  BY <1>3, <1>4 DEF Live

LEMMA DecAllDecs ==
    ASSUME NEW keys \in Seq(Key)
    PROVE  Decs(DecAll(keys))
<1>1. \A i \in 1..Len(keys) : keys[i] \in Key
  BY Ranges
<1>2. /\ DecAll(keys) \in Seq(Calls) /\ Len(DecAll(keys)) = Len(keys)
      /\ \A i \in 1..Len(keys) : DecAll(keys)[i] = Dec(keys[i])
  BY DecAllIs
<1>3. \A i \in 1..Len(keys) : DecAll(keys)[i].op = "dec" /\ DecAll(keys)[i].key = keys[i]
  BY <1>2, DecIs
<1> QED
  BY <1>1, <1>2, <1>3 DEF Decs

\* The parts that are not touched when neither the order nor the sort is.
LEMMA OrderKept ==
    ASSUME Ordered, order' = order
    PROVE  Ordered'
  BY DEF Ordered

\* Counts are numbers.
LEMMA ReferencesNat ==
    ASSUME Typed
    PROVE  \A k \in Key : /\ References(k) \in Nat /\ Count(Dec(k), work) \in Nat
                          /\ AttrRefs(attr, k) \in Nat /\ BuilderRefs(builder, k) \in Nat
                          /\ Cardinality(ParentsIn(Live, k)) \in Nat /\ handles[k] \in Nat
<1> TAKE k \in Key
<1>1. handles[k] \in Nat
  <2>1. handles \in [Key -> 0..MaxHandles] /\ MaxHandles \in Nat
    BY NodeAssumption DEF Typed, TypeOK
  <2> QED
    BY <2>1
<1>2. AttrRefs(attr, k) \in Nat
  <2>1. {j \in Key : attr[j] = k} \subseteq Key
    OBVIOUS
  <2>2. IsFiniteSet({j \in Key : attr[j] = k})
    BY <2>1, Terms, FS_Subset
  <2> QED
    BY <2>2, FS_CardinalityType DEF AttrRefs
<1>3. BuilderRefs(builder, k) \in Nat
  <2>1. CASE builder = None
    BY <2>1 DEF BuilderRefs
  <2>2. CASE builder # None
    <3>1. builder \in Key
      BY <2>2 DEF Typed, TypeOK
    <3>2. Children[builder] \in Seq(Key)
      BY <3>1, Terms
    <3>3. Count(k, Children[builder]) \in Nat
      BY <3>2, CountIs
    <3> QED
      BY <2>2, <3>3 DEF BuilderRefs
  <2> QED
    BY <2>1, <2>2
<1>4. Cardinality(ParentsIn(Live, k)) \in Nat
  <2>1. Live \in SUBSET Key
    BY DEF Typed, Live
  <2> QED
    BY <2>1, ParentsFinite
<1>5. Count(Dec(k), work) \in Nat
  BY CountIs DEF Typed
<1>6. References(k) \in Nat
  BY <1>1, <1>2, <1>3, <1>4, <1>5, ReferencesIs
<1> QED
  BY <1>1, <1>2, <1>3, <1>4, <1>5, <1>6

\* A node with a reference is not being freed.
LEMMA Referenced ==
    ASSUME Typed, NoneLeft, NEW k \in Key, References(k) # 0
    PROVE  k \in Live
  BY DEF NoneLeft

\* Where the counts of nodes are exact.
LEMMA ExactAt ==
    ASSUME IInv, NEW k \in Live
    PROVE  /\ k \in Key /\ k \in allocated /\ rc[k] \in 0..MaxRC
           /\ k \in Pinned => rc[k] = MaxRC
           /\ k \notin Pinned => rc[k] < MaxRC /\ rc[k] = References(k)
           /\ rc[k] = 0 => k \in zombies \union collecting
<1>1. k \in allocated /\ allocated \subseteq Key
  BY DEF Live, IInv, Typed
<1>2. rc \in [Key -> 0..MaxRC]
  BY DEF IInv, Typed, TypeOK
<1>3. IF k \in Pinned THEN rc[k] = MaxRC ELSE rc[k] < MaxRC /\ rc[k] = References(k)
  BY DEF IInv, Exact
<1> QED
  BY <1>1, <1>2, <1>3 DEF IInv, Placed

-----------------------------------------------------------------------------
(* Sequences without a repetition.                                         *)

LEMMA SetToSeqIs ==
    ASSUME NEW S, IsFiniteSet(S)
    PROVE  /\ SetToSeq(S) \in Seq(S) /\ Len(SetToSeq(S)) = Cardinality(S) /\ Cardinality(S) \in Nat
           /\ ToSet(SetToSeq(S)) = S
           /\ \A i, j \in 1..Cardinality(S) : SetToSeq(S)[i] = SetToSeq(S)[j] => i = j
<1> DEFINE n == Cardinality(S)
<1>1. n \in Nat /\ ExistsBijection(1..n, S)
  BY FS_CardinalityType
<1>2. PICK g \in [1..n -> S] : IsInjective(g)
  BY <1>1 DEF ExistsBijection, Bijection, Injection
<1>3. SetToSeq(S) \in [1..n -> S] /\ IsInjective(SetToSeq(S))
  BY <1>2 DEF SetToSeq
<1>4. PICK f : f = SetToSeq(S)
  OBVIOUS
<1>5. f \in [1..n -> S] /\ IsInjective(f)
  BY <1>3, <1>4
<1>6. f \in Injection(1..n, S)
  BY <1>5 DEF Injection
<1>7. IsFiniteSet(1..n) /\ Cardinality(1..n) = n
  <2> HIDE DEF n
  <2>1. 1 \in Int /\ n \in Int
    BY <1>1
  <2>2. IsFiniteSet(1..n) /\ Cardinality(1..n) = IF 1 > n THEN 0 ELSE n - 1 + 1
    BY <2>1, FS_Interval
  <2> QED
    BY <1>1, <2>2
<1>8. f \in Surjection(1..n, S)
  <2>1. Cardinality(1..n) = Cardinality(S)
    BY <1>7
  <2> HIDE DEF n
  <2> QED
    BY <1>6, <2>1, FS_Injection
<1> HIDE DEF n
<1>9. \A y \in S : \E i \in 1..n : f[i] = y
  BY <1>8 DEF Surjection
<1>10. f \in Seq(S) /\ Len(f) = n /\ DOMAIN f = 1..n
  BY <1>1, <1>5
<1>11. ToSet(f) = S
  BY <1>5, <1>9, <1>10 DEF ToSet
<1>12. \A i, j \in 1..n : f[i] = f[j] => i = j
  BY <1>5, <1>10 DEF IsInjective
<1> QED
  BY <1>1, <1>4, <1>10, <1>11, <1>12 DEF n

LEMMA ToSetIs ==
    ASSUME NEW S, NEW s \in Seq(S)
    PROVE  /\ \A x : x \in ToSet(s) <=> \E i \in 1..Len(s) : s[i] = x
           /\ ToSet(s) \subseteq S
  BY Ranges DEF ToSet

LEMMA CountPositive ==
    ASSUME NEW S, NEW s \in Seq(S), NEW x
    PROVE  Count(x, s) \in Nat /\ (Count(x, s) > 0 <=> x \in ToSet(s))
<1>1. Count(x, s) \in Nat
  BY CountIs
<1>2. Count(x, s) = 0 <=> \A i \in 1..Len(s) : s[i] # x
  BY CountZero
<1>3. x \in ToSet(s) <=> \E i \in 1..Len(s) : s[i] = x
  BY ToSetIs
<1> QED
  BY <1>1, <1>2, <1>3

LEMMA ToSetConcat ==
    ASSUME NEW S, NEW s \in Seq(S), NEW t \in Seq(S)
    PROVE  ToSet(s \o t) = ToSet(s) \union ToSet(t)
<1>1. PICK u, m, n : u = s \o t /\ m = Len(s) /\ n = Len(t)
  OBVIOUS
<1>2. /\ u \in Seq(S) /\ Len(u) = m + n /\ m \in Nat /\ n \in Nat
      /\ \A i \in 1..m + n : u[i] = IF i <= m THEN s[i] ELSE t[i - m]
  BY <1>1, ConcatProperties
<1>3. /\ \A x : x \in ToSet(u) <=> \E i \in 1..m + n : u[i] = x
      /\ \A x : x \in ToSet(s) <=> \E i \in 1..m : s[i] = x
      /\ \A x : x \in ToSet(t) <=> \E i \in 1..n : t[i] = x
  <2>1. s \in Seq(S) /\ t \in Seq(S) /\ u \in Seq(S)
    BY <1>2
  <2>2. \A x : x \in ToSet(u) <=> \E i \in 1..Len(u) : u[i] = x
    BY <2>1, ToSetIs
  <2>3. \A x : x \in ToSet(s) <=> \E i \in 1..Len(s) : s[i] = x
    BY <2>1, ToSetIs
  <2>4. \A x : x \in ToSet(t) <=> \E i \in 1..Len(t) : t[i] = x
    BY <2>1, ToSetIs
  <2> QED
    BY <1>1, <1>2, <2>2, <2>3, <2>4
<1>4. ASSUME NEW x \in ToSet(s)
      PROVE  x \in ToSet(u)
  <2>1. PICK i \in 1..m : s[i] = x
    BY <1>3
  <2>2. i \in 1..m + n /\ u[i] = x
    BY <1>2, <2>1
  <2> QED
    BY <1>3, <2>2
<1>5. ASSUME NEW x \in ToSet(t)
      PROVE  x \in ToSet(u)
  <2>1. PICK i \in 1..n : t[i] = x
    BY <1>3
  <2>2. m + i \in 1..m + n /\ u[m + i] = x
    BY <1>2, <2>1
  <2> QED
    BY <1>3, <2>2
<1>6. ASSUME NEW x \in ToSet(u)
      PROVE  x \in ToSet(s) \/ x \in ToSet(t)
  <2>1. PICK i \in 1..m + n : u[i] = x
    BY <1>3
  <2>2. CASE i <= m
    BY <1>2, <1>3, <2>1, <2>2
  <2>3. CASE i > m
    <3>1. i - m \in 1..n /\ t[i - m] = x
      BY <1>2, <2>1, <2>3
    <3> QED
      BY <1>3, <3>1
  <2> QED
    BY <1>2, <2>1, <2>2, <2>3
<1> QED
  BY <1>1, <1>4, <1>5, <1>6

\* Two sequences without a repetition and with nothing in common make one.
LEMMA DistinctConcat ==
    ASSUME NEW S, NEW s \in Seq(S), NEW t \in Seq(S), Distinct(s), Distinct(t),
           ToSet(s) \cap ToSet(t) = {}
    PROVE  Distinct(s \o t)
<1>1. PICK u, m, n : u = s \o t /\ m = Len(s) /\ n = Len(t)
  OBVIOUS
<1>2. /\ u \in Seq(S) /\ Len(u) = m + n /\ m \in Nat /\ n \in Nat
      /\ \A i \in 1..m + n : u[i] = IF i <= m THEN s[i] ELSE t[i - m]
  BY <1>1, ConcatProperties
<1>3. /\ \A i \in 1..m, j \in 1..n : s[i] # t[j]
      /\ \A i, j \in 1..m : s[i] = s[j] => i = j
      /\ \A i, j \in 1..n : t[i] = t[j] => i = j
  <2>1. \A i \in 1..m : s[i] \in ToSet(s)
    BY <1>1, ToSetIs
  <2>2. \A i \in 1..n : t[i] \in ToSet(t)
    BY <1>1, ToSetIs
  <2>3. /\ \A i, j \in 1..m : s[i] = s[j] => i = j
        /\ \A i, j \in 1..n : t[i] = t[j] => i = j
    BY <1>1 DEF Distinct
  <2> QED
    BY <2>1, <2>2, <2>3
<1>4. ASSUME NEW i \in 1..m + n, NEW j \in 1..m + n, u[i] = u[j]
      PROVE  i = j
  <2>1. CASE i <= m /\ j <= m
    BY <1>2, <1>3, <1>4, <2>1
  <2>2. CASE i > m /\ j > m
    <3>1. i - m \in 1..n /\ j - m \in 1..n /\ t[i - m] = t[j - m]
      BY <1>2, <1>4, <2>2
    <3>2. i - m = j - m
      BY <1>3, <3>1
    <3> QED
      BY <1>2, <3>2
  <2>3. CASE i <= m /\ j > m
    <3>1. i \in 1..m /\ j - m \in 1..n /\ s[i] = t[j - m]
      BY <1>2, <1>4, <2>3
    <3> QED
      BY <1>3, <3>1
  <2>4. CASE i > m /\ j <= m
    <3>1. j \in 1..m /\ i - m \in 1..n /\ s[j] = t[i - m]
      BY <1>2, <1>4, <2>4
    <3> QED
      BY <1>3, <3>1
  <2> QED
    BY <1>2, <2>1, <2>2, <2>3, <2>4
<1> QED
  BY <1>1, <1>2, <1>4 DEF Distinct

-----------------------------------------------------------------------------
(* Increments.                                                             *)

\* The nodes whose counts get to their maximum.
NewlyMaxed == {k \in Key : rc[k] < MaxRC /\ rc'[k] = MaxRC}

LEMMA IncEffects ==
    ASSUME IInv, phase = "alive", NEW keys \in Seq(Key), ToSet(keys) \subseteq Live, IncAll(keys)
    PROVE  /\ failed' = {} /\ rc' \in [Key -> 0..MaxRC] /\ maxedOut' \in Seq(Key)
           /\ \A k \in Key : /\ Count(k, keys) \in Nat /\ rc[k] \in 0..MaxRC
                             /\ Count(k, keys) > 0 => k \in Live
                             /\ rc'[k] = IF rc[k] + Count(k, keys) < MaxRC
                                         THEN rc[k] + Count(k, keys) ELSE MaxRC
           /\ NewlyMaxed \subseteq Live /\ Distinct(maxedOut')
           /\ ToSet(maxedOut') = ToSet(maxedOut) \union NewlyMaxed
<1>1. rc \in [Key -> 0..MaxRC] /\ MaxRC \in Nat /\ maxedOut \in Seq(Key) /\ failed = {} /\ Live \subseteq allocated
  BY NodeAssumption DEF IInv, Typed, TypeOK, Live
<1>2. \A k \in Key : Count(k, keys) \in Nat /\ (Count(k, keys) > 0 => k \in Live)
  BY CountPositive
<1>3. failed' = {}
  <2>1. failed' = IF ToSet(keys) \subseteq allocated THEN failed ELSE failed \union {"inc after free"}
    BY DEF IncAll, Failing
  <2>2. ToSet(keys) \subseteq allocated
    BY <1>1
  <2> QED
    BY <1>1, <2>1, <2>2
<1>4. rc' = [k \in Key |-> IF rc[k] + Count(k, keys) < MaxRC THEN rc[k] + Count(k, keys) ELSE MaxRC]
  BY DEF IncAll
<1>5. \A k \in Key : /\ rc[k] \in 0..MaxRC
                     /\ rc'[k] = IF rc[k] + Count(k, keys) < MaxRC
                                 THEN rc[k] + Count(k, keys) ELSE MaxRC
  BY <1>1, <1>4
<1>6. rc' \in [Key -> 0..MaxRC]
  <2>1. \A k \in Key : (IF rc[k] + Count(k, keys) < MaxRC THEN rc[k] + Count(k, keys) ELSE MaxRC) \in 0..MaxRC
    BY <1>1, <1>2, <1>5
  <2> QED
    BY <1>4, <2>1
<1>7. NewlyMaxed \subseteq Live
  <2> SUFFICES ASSUME NEW k \in NewlyMaxed
               PROVE  Count(k, keys) > 0
    BY <1>2 DEF NewlyMaxed
  <2> QED
    BY <1>1, <1>2, <1>5 DEF NewlyMaxed
<1>8. PICK t : t = SetToSeq(NewlyMaxed)
  OBVIOUS
<1>9. t \in Seq(Key) /\ ToSet(t) = NewlyMaxed /\ Distinct(t)
  <2>1. IsFiniteSet(NewlyMaxed) /\ NewlyMaxed \subseteq Key
    <3>1. NewlyMaxed \subseteq Key
      BY DEF NewlyMaxed
    <3> QED
      BY <3>1, Terms, FS_Subset
  <2>2. /\ t \in Seq(NewlyMaxed) /\ ToSet(t) = NewlyMaxed
        /\ Len(t) = Cardinality(NewlyMaxed)
        /\ \A i, j \in 1..Cardinality(NewlyMaxed) : t[i] = t[j] => i = j
    BY <1>8, <2>1, SetToSeqIs
  <2>3. t \in Seq(Key)
    BY <2>1, <2>2, SeqMonotonic
  <2> QED
    BY <2>2, <2>3 DEF Distinct
<1>10. maxedOut' = maxedOut \o t
  BY <1>8 DEF IncAll, NewlyMaxed
<1>11. maxedOut \o t \in Seq(Key) /\ ToSet(maxedOut \o t) = ToSet(maxedOut) \union NewlyMaxed
  BY <1>1, <1>9, ToSetConcat, ConcatProperties
<1>12. Distinct(maxedOut \o t)
  <2>1. ToSet(maxedOut) \cap ToSet(t) = {}
    <3> SUFFICES ASSUME NEW k \in ToSet(maxedOut)
                 PROVE  k \notin NewlyMaxed
      BY <1>9
    <3>1. k \in Pinned
      BY DEF Pinned
    <3>2. k \in Live
      BY <3>1 DEF IInv, Placed
    <3>3. rc[k] = MaxRC
      BY <3>1, <3>2, ExactAt
    <3> QED
      BY <1>1, <3>3 DEF NewlyMaxed
  <2>2. Distinct(maxedOut)
    BY DEF IInv, Phased
  <2> QED
    BY <1>1, <1>9, <2>1, <2>2, DistinctConcat
<1> QED
  BY <1>2, <1>3, <1>5, <1>6, <1>7, <1>10, <1>11, <1>12

\* The counts follow the references that are added.
LEMMA IncBalance ==
    ASSUME IInv, phase = "alive", NEW keys \in Seq(Key), ToSet(keys) \subseteq Live, IncAll(keys),
           collecting = {}, UNCHANGED <<pool, zombies, collecting, order>>,
           Live' = Live, Dying' = Dying,
           \A k \in Key : References(k)' = References(k) + Count(k, keys)
    PROVE  Exact' /\ NoneLeft' /\ Placed'
<1>1. /\ rc \in [Key -> 0..MaxRC] /\ MaxRC \in Nat \ {0, 1} /\ Live \subseteq Key
  BY NodeAssumption DEF IInv, Typed, TypeOK, Live
<1>2. /\ \A k \in Key : /\ Count(k, keys) \in Nat /\ rc[k] \in 0..MaxRC
                        /\ Count(k, keys) > 0 => k \in Live
                        /\ rc'[k] = IF rc[k] + Count(k, keys) < MaxRC
                                    THEN rc[k] + Count(k, keys) ELSE MaxRC
      /\ NewlyMaxed \subseteq Live
      /\ ToSet(maxedOut') = ToSet(maxedOut) \union NewlyMaxed
  BY IncEffects
<1>3. Pinned' = Pinned \union NewlyMaxed
  <2>1. ToSet(order') = ToSet(order)
    OBVIOUS
  <2>2. Pinned' = ToSet(maxedOut') \union ToSet(order')
    BY DEF Pinned
  <2> QED
    BY <1>2, <2>1, <2>2 DEF Pinned
<1>4. \A k \in Live : /\ k \in Pinned => rc[k] = MaxRC
                      /\ k \notin Pinned => rc[k] < MaxRC /\ rc[k] = References(k)
                      /\ rc[k] = 0 => k \in zombies \union collecting
  BY ExactAt
<1>5. \A k \in Key : References(k) \in Nat
  BY ReferencesNat DEF IInv
<1>6. ASSUME NEW k \in Live
      PROVE  IF k \in Pinned' THEN rc'[k] = MaxRC ELSE rc'[k] < MaxRC /\ rc'[k] = References(k)'
  <2>1. k \in NewlyMaxed <=> rc[k] < MaxRC /\ rc'[k] = MaxRC
    BY <1>1 DEF NewlyMaxed
  <2>2. PICK r, s, n, m, p : r = rc[k] /\ s = rc'[k] /\ n = Count(k, keys) /\ m = References(k) /\ p = References(k)'
    OBVIOUS
  <2>3. /\ n \in Nat /\ r \in 0..MaxRC /\ m \in Nat /\ p = m + n
        /\ s = IF r + n < MaxRC THEN r + n ELSE MaxRC
    BY <1>1, <1>2, <1>5, <2>2
  <2>4. CASE k \in Pinned
    <3>1. r = MaxRC
      BY <1>4, <2>2, <2>4
    <3>2. s = MaxRC
      BY <1>1, <2>3, <3>1
    <3> QED
      BY <1>3, <2>2, <2>4, <3>2
  <2>5. CASE k \notin Pinned
    <3>1. r < MaxRC /\ r = m
      BY <1>4, <2>2, <2>5
    <3>2. k \in Pinned' <=> s = MaxRC
      BY <1>3, <2>1, <2>2, <2>5, <3>1
    <3>3. s # MaxRC => s < MaxRC /\ s = p
      BY <1>1, <2>3, <3>1
    <3> QED
      BY <2>2, <3>2, <3>3
  <2> QED
    BY <2>4, <2>5
<1>7. Exact'
  BY <1>6 DEF Exact
<1>8. NoneLeft'
  <2> SUFFICES ASSUME NEW k \in Key \ Live
               PROVE  References(k)' = 0 /\ (k \in Dying => rc'[k] = 0)
    BY DEF NoneLeft
  <2>1. References(k) = 0 /\ (k \in Dying => rc[k] = 0)
    BY DEF IInv, NoneLeft
  <2>2. Count(k, keys) = 0
    BY <1>2
  <2>3. References(k)' = References(k) + Count(k, keys)
    OBVIOUS
  <2>4. rc'[k] = IF rc[k] + Count(k, keys) < MaxRC THEN rc[k] + Count(k, keys) ELSE MaxRC
    BY <1>2
  <2> QED
    BY <1>1, <2>1, <2>2, <2>3, <2>4
<1>9. Placed'
  <2>1. \A k \in Live : rc'[k] = 0 => k \in zombies
    <3> SUFFICES ASSUME NEW k \in Live, rc'[k] = 0
                 PROVE  rc[k] = 0
      BY <1>4
    <3>1. k \in Key
      BY <1>1
    <3> QED
      BY <1>1, <1>2, <3>1
  <2>2. zombies \union collecting \union Pinned \subseteq Live /\ pool = Live \intersect Pooled
    BY DEF IInv, Placed
  <2> QED
    BY <1>2, <1>3, <2>1, <2>2 DEF Placed
<1> QED
  BY <1>7, <1>8, <1>9

-----------------------------------------------------------------------------
(* Steps that increment.                                                   *)

LEMMA ReferencesNext ==
    ASSUME NEW k
    PROVE  References(k)' = handles'[k] + AttrRefs(attr', k) + BuilderRefs(builder', k)
                            + Cardinality(ParentsIn(Live', k)) + Count(Dec(k), work')
  BY DEF References, AttrRefs, BuilderRefs, ParentsIn, Parents

LEMMA Gather ==
    ASSUME Typed', Exact', NoneLeft', Placed', CallStack', Phased', Ordered', phase' # "sorting"
    PROVE  IInv'
  BY DEF IInv

\* Nodes that something refers to.
LEMMA HandledLive ==
    ASSUME IInv, NEW k \in Key, handles[k] > 0 \/ AttrRefs(attr, k) > 0 \/ BuilderRefs(builder, k) > 0
                                \/ Cardinality(ParentsIn(Live, k)) > 0 \/ Count(Dec(k), work) > 0
    PROVE  k \in Live /\ References(k) > 0
<1>1. /\ Count(Dec(k), work) \in Nat /\ AttrRefs(attr, k) \in Nat /\ BuilderRefs(builder, k) \in Nat
      /\ Cardinality(ParentsIn(Live, k)) \in Nat /\ handles[k] \in Nat
  BY ReferencesNat DEF IInv
<1>2. References(k) > 0
  BY <1>1, ReferencesIs
<1> QED
  BY <1>2, Referenced DEF IInv

\* The program goes on, or the tables are being cleared.
AliveFrame ==
    phase \in {"alive", "tables"} /\ UNCHANGED ending /\ (phase = "tables" => UNCHANGED <<attr, builder>>)

LEMMA AlivePhased ==
    ASSUME IInv, AliveFrame, Distinct(maxedOut')
    PROVE  Phased' /\ Ordered' /\ phase' # "sorting"
<1>1. /\ phase' = phase /\ order' = <<>> /\ stack' = <<>> /\ visited' = {} /\ root' = 0
      /\ order' = order /\ phase' \in {"alive", "tables"}
  BY DEF AliveFrame, ending, IInv, Phased
<1>2. phase' # "alive" => builder' = None /\ \A k \in Key : attr'[k] = None
  BY <1>1 DEF AliveFrame, IInv, Phased
<1>3. Phased'
  BY <1>1, <1>2 DEF Phased
<1> QED
  BY <1>1, <1>3, OrderKept DEF IInv

LEMMA AliveTyped ==
    ASSUME IInv, AliveFrame,
           rc' \in [Key -> 0..MaxRC], maxedOut' \in Seq(Key), failed' = {},
           handles' \in [Key -> 0..MaxHandles], attr' \in [Key -> Key \union {None}],
           builder' \in Key \union {None}, pool' \subseteq Pooled,
           zombies' \subseteq Key, collecting' \subseteq Key, inReclaim' \in BOOLEAN,
           allocated' \subseteq Key, work' \in Seq(Calls),
           \A i \in 1..Len(work') : work'[i].op \in {"dec", "free", "return"} => work'[i].key \in Key
    PROVE  Typed'
<1>1. /\ order' = order /\ visited' = visited /\ phase' = phase /\ stack' = stack /\ root' = root
  BY DEF AliveFrame, ending
<1>2. /\ order \in Seq(Key) /\ visited \subseteq Key /\ stack \in Seq(Entries) /\ root \in Nat
      /\ phase \in {"alive", "tables", "sorting", "deleting", "gone"}
  BY DEF IInv, Typed, TypeOK
<1>3. TypeOK'
  BY <1>1, <1>2 DEF TypeOK
<1> QED
  BY <1>1, <1>2, <1>3 DEF Typed

\* What holds when no call is left.
LEMMA IdleIs ==
    ASSUME IInv, work = <<>>
    PROVE  /\ collecting = {} /\ inReclaim = FALSE
           /\ Dying = {} /\ Live = allocated /\ allocated \subseteq Key /\ Decs(work)
           /\ handles \in [Key -> 0..MaxHandles] /\ attr \in [Key -> Key \union {None}]
           /\ builder \in Key \union {None} /\ pool \subseteq Pooled /\ zombies \subseteq Key
           /\ failed = {} /\ rc \in [Key -> 0..MaxRC] /\ maxedOut \in Seq(Key) /\ Distinct(maxedOut)
           /\ MaxHandles \in Nat \ {0} /\ MaxRC \in Nat \ {0, 1}
<1>1. Decs(work)
  BY EmptySeq DEF Decs
<1> QED
  BY <1>1, Calm, NodeAssumption DEF IInv, Typed, TypeOK, Phased

LEMMA DecsNext ==
    ASSUME IInv, AliveFrame,
           rc' \in [Key -> 0..MaxRC], maxedOut' \in Seq(Key), Distinct(maxedOut'), failed' = {},
           handles' \in [Key -> 0..MaxHandles], attr' \in [Key -> Key \union {None}],
           builder' \in Key \union {None}, pool' \subseteq Pooled, allocated' \subseteq Key,
           zombies' \subseteq Key, collecting' = {}, inReclaim' = FALSE, NEW w, w = work', Decs(w)
    PROVE  /\ Typed' /\ CallStack' /\ Phased' /\ Ordered' /\ phase' # "sorting"
           /\ Dying' = {} /\ Live' = allocated'
<1>1. CallStack' /\ Dying' = {} /\ Live' = allocated'
  BY DecsCallStackNext
<1>2. w \in Seq(Calls) /\ \A i \in 1..Len(w) : w[i].key \in Key
  BY DEF Decs
<1>3. Typed'
  BY <1>2, AliveTyped
<1>4. Phased' /\ Ordered' /\ phase' # "sorting"
  BY AlivePhased
<1> QED
  BY <1>1, <1>3, <1>4

LEMMA CopyNodeInv ==
    ASSUME IInv, NEW k \in Key, CopyNode(k)
    PROVE  IInv'
<1> DEFINE keys == <<k>>
<1>1. /\ phase = "alive" /\ work = <<>> /\ AliveFrame /\ IncAll(keys) /\ handles[k] \in 1..MaxHandles - 1
      /\ handles' = [handles EXCEPT ![k] = @ + 1]
      /\ UNCHANGED <<allocated, pool, zombies, inReclaim, collecting, work, attr, builder, order>>
  BY DEF CopyNode, Idle, AliveFrame, ending
<1>2. keys \in Seq(Key) /\ \A j \in Key : Count(j, keys) = IF j = k THEN 1 ELSE 0
  BY CountOne
<1>3. ToSet(keys) \subseteq Live
  <2>1. k \in Live
    <3>1. handles[k] > 0
      BY <1>1, NodeAssumption
    <3> QED
      BY <3>1, HandledLive
  <2>2. ToSet(keys) = {k}
    BY DEF ToSet
  <2> QED
    BY <2>1, <2>2
<1> HIDE DEF keys
<1>4. failed' = {} /\ rc' \in [Key -> 0..MaxRC] /\ maxedOut' \in Seq(Key) /\ Distinct(maxedOut')
  BY <1>1, <1>2, <1>3, IncEffects
<1>5. handles' \in [Key -> 0..MaxHandles] /\ \A j \in Key : handles'[j] = handles[j] + IF j = k THEN 1 ELSE 0
  <2>1. handles \in [Key -> 0..MaxHandles] /\ MaxHandles \in Nat
    BY <1>1, IdleIs
  <2>2. handles[k] + 1 \in 0..MaxHandles
    BY <1>1, <2>1
  <2> QED
    BY <1>1, <2>1, <2>2
<1>6. Decs(work) /\ work' = work /\ Dying = {} /\ Live = allocated /\ allocated' = allocated /\ collecting = {} /\ phase = "alive"
  BY <1>1, IdleIs
<1>7. /\ attr' \in [Key -> Key \union {None}] /\ builder' \in Key \union {None} /\ pool' \subseteq Pooled
      /\ allocated' \subseteq Key /\ zombies' \subseteq Key /\ collecting' = {} /\ inReclaim' = FALSE
  BY <1>1, IdleIs
<1>8. /\ Typed' /\ CallStack' /\ Phased' /\ Ordered' /\ phase' # "sorting" /\ Dying' = {} /\ Live' = allocated'
  BY <1>1, <1>4, <1>5, <1>6, <1>7, DecsNext
<1>9. \A j \in Key : References(j)' = References(j) + Count(j, keys)
  <2> TAKE j \in Key
  <2>1. Live' = Live
    BY <1>6, <1>8
  <2>2. References(j)' = handles'[j] + AttrRefs(attr, j) + BuilderRefs(builder, j)
                         + Cardinality(ParentsIn(Live, j)) + Count(Dec(j), work)
    BY <1>1, <2>1, ReferencesNext
  <2>3. References(j) = handles[j] + AttrRefs(attr, j) + BuilderRefs(builder, j)
                         + Cardinality(ParentsIn(Live, j)) + Count(Dec(j), work)
    BY ReferencesIs
  <2>4. /\ Count(Dec(j), work) \in Nat /\ AttrRefs(attr, j) \in Nat /\ BuilderRefs(builder, j) \in Nat
        /\ Cardinality(ParentsIn(Live, j)) \in Nat /\ handles[j] \in Nat
    BY ReferencesNat DEF IInv
  <2>5. handles'[j] = handles[j] + Count(j, keys) /\ Count(j, keys) \in Nat
    BY <1>2, <1>5
  <2> QED
    BY <2>2, <2>3, <2>4, <2>5
<1>10. Exact' /\ NoneLeft' /\ Placed'
  BY <1>1, <1>2, <1>3, <1>6, <1>8, <1>9, IncBalance
<1> QED
  BY <1>8, <1>10, Gather

LEMMA StartBuilderInv ==
    ASSUME IInv, NEW k \in Key, StartBuilder(k)
    PROVE  IInv'
<1> DEFINE keys == Children[k]
<1>1. /\ phase = "alive" /\ work = <<>> /\ AliveFrame /\ IncAll(keys) /\ builder = None /\ builder' = k
      /\ \A i \in DOMAIN keys : handles[keys[i]] > 0
      /\ UNCHANGED <<allocated, pool, zombies, inReclaim, collecting, work, attr, handles, order>>
  BY DEF StartBuilder, Idle, AliveFrame, ending
<1>2. keys \in Seq(Key) /\ DOMAIN keys = 1..Len(keys) /\ \A i \in 1..Len(keys) : keys[i] \in Key
  BY Terms
<1>3. ToSet(keys) \subseteq Live
  <2>1. \A i \in 1..Len(keys) : keys[i] \in Live
    <3> TAKE i \in 1..Len(keys)
    <3>1. keys[i] \in Key /\ handles[keys[i]] > 0
      BY <1>1, <1>2
    <3> HIDE DEF keys
    <3>2. PICK x : x = keys[i]
      OBVIOUS
    <3>3. x \in Key /\ handles[x] > 0
      BY <3>1, <3>2
    <3>4. x \in Live
      BY <3>3, HandledLive
    <3> QED
      BY <3>2, <3>4
  <2> HIDE DEF keys
  <2> QED
    BY <1>2, <2>1, ToSetIs
<1>4. PICK ks : ks = keys
  OBVIOUS
<1> HIDE DEF keys
<1>5. ks \in Seq(Key) /\ ToSet(ks) \subseteq Live /\ IncAll(ks)
  BY <1>1, <1>2, <1>3, <1>4
<1>6. failed' = {} /\ rc' \in [Key -> 0..MaxRC] /\ maxedOut' \in Seq(Key) /\ Distinct(maxedOut')
  BY <1>1, <1>5, IncEffects
<1>7. Decs(work) /\ work' = work /\ Dying = {} /\ Live = allocated /\ allocated' = allocated /\ collecting = {} /\ phase = "alive"
  BY <1>1, IdleIs
<1>8. /\ attr' \in [Key -> Key \union {None}] /\ builder' \in Key \union {None} /\ pool' \subseteq Pooled
      /\ allocated' \subseteq Key /\ zombies' \subseteq Key /\ collecting' = {} /\ inReclaim' = FALSE
      /\ handles' \in [Key -> 0..MaxHandles]
  BY <1>1, IdleIs
<1>9. /\ Typed' /\ CallStack' /\ Phased' /\ Ordered' /\ phase' # "sorting" /\ Dying' = {} /\ Live' = allocated'
  BY <1>1, <1>6, <1>7, <1>8, DecsNext
<1>10. \A j \in Key : References(j)' = References(j) + Count(j, ks)
  <2> TAKE j \in Key
  <2>1. Live' = Live
    BY <1>7, <1>9
  <2>2. References(j)' = handles[j] + AttrRefs(attr, j) + BuilderRefs(k, j)
                         + Cardinality(ParentsIn(Live, j)) + Count(Dec(j), work)
    BY <1>1, <2>1, ReferencesNext
  <2>3. References(j) = handles[j] + AttrRefs(attr, j) + BuilderRefs(builder, j)
                         + Cardinality(ParentsIn(Live, j)) + Count(Dec(j), work)
    BY ReferencesIs
  <2>4. /\ Count(Dec(j), work) \in Nat /\ AttrRefs(attr, j) \in Nat
        /\ Cardinality(ParentsIn(Live, j)) \in Nat /\ handles[j] \in Nat
    BY ReferencesNat DEF IInv
  <2>5. BuilderRefs(builder, j) = 0 /\ BuilderRefs(k, j) = Count(j, ks)
    BY <1>1, <1>4, Terms DEF BuilderRefs, keys
  <2>6. Count(j, ks) \in Nat
    BY <1>5, CountPositive
  <2> QED
    BY <2>2, <2>3, <2>4, <2>5, <2>6
<1>11. Exact' /\ NoneLeft' /\ Placed'
  BY <1>1, <1>5, <1>7, <1>9, <1>10, IncBalance
<1> QED
  BY <1>9, <1>11, Gather

LEMMA SetAttributeInv ==
    ASSUME IInv, NEW k \in Key, NEW l \in Key, SetAttribute(k, l)
    PROVE  IInv'
<1> DEFINE keys == <<l>>
<1>1. /\ phase = "alive" /\ work = <<>> /\ AliveFrame /\ IncAll(keys) /\ handles[l] > 0 /\ attr[k] = None
      /\ attr' = [attr EXCEPT ![k] = l]
      /\ UNCHANGED <<allocated, pool, zombies, inReclaim, collecting, work, handles, builder, order>>
  BY DEF SetAttribute, Idle, AliveFrame, ending
<1>2. keys \in Seq(Key) /\ \A j \in Key : Count(j, keys) = IF j = l THEN 1 ELSE 0
  BY CountOne
<1>3. ToSet(keys) \subseteq Live
  <2>1. l \in Live
    BY <1>1, HandledLive
  <2>2. ToSet(keys) = {l}
    BY DEF ToSet
  <2> QED
    BY <2>1, <2>2
<1> HIDE DEF keys
<1>4. failed' = {} /\ rc' \in [Key -> 0..MaxRC] /\ maxedOut' \in Seq(Key) /\ Distinct(maxedOut')
  BY <1>1, <1>2, <1>3, IncEffects
<1>5. attr \in [Key -> Key \union {None}] /\ attr' \in [Key -> Key \union {None}]
  BY <1>1, IdleIs
<1>6. Decs(work) /\ work' = work /\ Dying = {} /\ Live = allocated /\ allocated' = allocated /\ collecting = {} /\ phase = "alive"
  BY <1>1, IdleIs
<1>7. /\ handles' \in [Key -> 0..MaxHandles] /\ builder' \in Key \union {None} /\ pool' \subseteq Pooled
      /\ allocated' \subseteq Key /\ zombies' \subseteq Key /\ collecting' = {} /\ inReclaim' = FALSE
  BY <1>1, IdleIs
<1>8. /\ Typed' /\ CallStack' /\ Phased' /\ Ordered' /\ phase' # "sorting" /\ Dying' = {} /\ Live' = allocated'
  BY <1>1, <1>4, <1>5, <1>6, <1>7, DecsNext
<1>9. \A j \in Key : References(j)' = References(j) + Count(j, keys)
  <2> TAKE j \in Key
  <2>1. Live' = Live
    BY <1>6, <1>8
  <2>2. References(j)' = handles[j] + AttrRefs(attr', j) + BuilderRefs(builder, j)
                         + Cardinality(ParentsIn(Live, j)) + Count(Dec(j), work)
    BY <1>1, <2>1, ReferencesNext
  <2>3. References(j) = handles[j] + AttrRefs(attr, j) + BuilderRefs(builder, j)
                         + Cardinality(ParentsIn(Live, j)) + Count(Dec(j), work)
    BY ReferencesIs
  <2>4. /\ Count(Dec(j), work) \in Nat /\ AttrRefs(attr, j) \in Nat /\ BuilderRefs(builder, j) \in Nat
        /\ Cardinality(ParentsIn(Live, j)) \in Nat /\ handles[j] \in Nat
    BY ReferencesNat DEF IInv
  <2>5. AttrRefs(attr', j) = AttrRefs(attr, j) + Count(j, keys) /\ Count(j, keys) \in Nat
    <3>1. AttrRefs(attr', j) =
             AttrRefs(attr, j) - (IF attr[k] = j THEN 1 ELSE 0) + (IF l = j THEN 1 ELSE 0)
      <4>1. \A i \in Key : attr'[i] = IF i = k THEN l ELSE attr[i]
        BY <1>1, <1>5
      <4> QED
        BY <1>5, <4>1, AttrChanged
    <3>2. attr[k] # j
      BY <1>1, Terms
    <3> QED
      BY <1>1, <1>2, <2>4, <3>1, <3>2
  <2> QED
    BY <2>2, <2>3, <2>4, <2>5
<1>10. Exact' /\ NoneLeft' /\ Placed'
  BY <1>1, <1>2, <1>3, <1>6, <1>8, <1>9, IncBalance
<1> QED
  BY <1>8, <1>10, Gather

\* The call that is next.
LEMMA RunningIs ==
    ASSUME IInv, NEW name, Running(name)
    PROVE  /\ work \in Seq(Calls) /\ work # <<>> /\ Len(work) \in Nat \ {0} /\ 1 \in 1..Len(work)
           /\ Head(work) = work[1] /\ work[1].op = name /\ OpAt(1, name)
           /\ Tail(work) \in Seq(Calls) /\ Len(Tail(work)) = Len(work) - 1
           /\ \A i \in 1..Len(work) - 1 : Tail(work)[i] = work[i + 1] /\ i + 1 \in 1..Len(work)
           /\ \A i \in 1..Len(work) : /\ work[i] \in Calls
                                       /\ work[i].op \in {"dec", "free", "return"} => work[i].key \in Key
<1>1. work \in Seq(Calls) /\ work # <<>> /\ Head(work).op = name
  BY DEF IInv, Typed, Running
<1>2. \A i \in 1..Len(work) : work[i].op \in {"dec", "free", "return"} => work[i].key \in Key
  BY DEF IInv, Typed
<1>3. /\ Tail(work) \in Seq(Calls) /\ Len(work) \in Nat \ {0} /\ Len(Tail(work)) = Len(work) - 1
      /\ Head(work) = work[1]
      /\ \A i \in 1..Len(work) - 1 : Tail(work)[i] = work[i + 1]
  BY <1>1, HeadOff
<1>4. \A i \in 1..Len(work) : work[i] \in Calls
  BY <1>1, Ranges
<1> QED
  BY <1>1, <1>2, <1>3, <1>4 DEF OpAt

LEMMA RunReturnInv ==
    ASSUME IInv, RunReturn
    PROVE  IInv'
<1>1. PICK k : k = Head(work).key
  OBVIOUS
<1> DEFINE keys == <<k>>
<1>2. /\ Running("return") /\ UNCHANGED ending /\ IncAll(keys)
      /\ handles' = [handles EXCEPT ![k] = @ + 1] /\ work' = Tail(work)
      /\ UNCHANGED <<allocated, pool, zombies, inReclaim, collecting, attr, builder, order>>
  BY <1>1 DEF RunReturn, ending
<1>3. /\ work \in Seq(Calls) /\ Len(work) \in Nat \ {0} /\ 1 \in 1..Len(work) /\ Head(work) = work[1]
      /\ OpAt(1, "return") /\ work[1].op = "return" /\ k \in Key
      /\ Tail(work) \in Seq(Calls) /\ Len(Tail(work)) = Len(work) - 1
  BY <1>1, <1>2, RunningIs
<1>4. /\ Len(work) = 1 /\ phase = "alive" /\ k \in Live /\ handles[k] < MaxHandles /\ Len(work') = 0
  <2>1. /\ 1 = Len(work) /\ phase = "alive"
        /\ work[1].key \in Live \intersect Pooled /\ handles[work[1].key] < MaxHandles
    BY <1>3 DEF IInv, CallStack
  <2>2. k = work[1].key
    BY <1>1, <1>3
  <2>3. Len(work') = Len(work) - 1
    BY <1>2, <1>3
  <2> QED
    BY <2>1, <2>2, <2>3
<1>5. collecting = {} /\ inReclaim = FALSE /\ Dying = {} /\ Live = allocated
  <2>1. \A i \in 1..Len(work) : work[i].op = "return"
    BY <1>3, <1>4
  <2>2. inReclaim \in BOOLEAN
    BY DEF IInv, Typed, TypeOK
  <2>3. ~inReclaim /\ collecting = {}
    BY <2>1 DEF IInv, CallStack, OpAt
  <2>4. Dying = {}
    BY <1>3, <2>1, DyingIs
  <2> QED
    BY <2>2, <2>3, <2>4 DEF Live
<1>6. AliveFrame /\ Decs(work')
  BY <1>2, <1>3, <1>4 DEF AliveFrame, Decs
<1>7. keys \in Seq(Key) /\ \A j \in Key : Count(j, keys) = IF j = k THEN 1 ELSE 0
  BY <1>3, CountOne
<1>8. ToSet(keys) \subseteq Live
  <2>1. ToSet(keys) = {k}
    BY DEF ToSet
  <2> QED
    BY <1>4, <2>1
<1> HIDE DEF keys
<1>9. failed' = {} /\ rc' \in [Key -> 0..MaxRC] /\ maxedOut' \in Seq(Key) /\ Distinct(maxedOut')
  BY <1>2, <1>4, <1>7, <1>8, IncEffects
<1>10. handles' \in [Key -> 0..MaxHandles] /\ \A j \in Key : handles'[j] = handles[j] + IF j = k THEN 1 ELSE 0
  <2>1. handles \in [Key -> 0..MaxHandles] /\ MaxHandles \in Nat
    BY NodeAssumption DEF IInv, Typed, TypeOK
  <2>2. handles[k] + 1 \in 0..MaxHandles
    BY <1>3, <1>4, <2>1
  <2>3. handles' = [handles EXCEPT ![k] = handles[k] + 1]
    BY <1>2
  <2>4. \A j \in Key : handles[j] \in Nat
    BY <2>1
  <2> QED
    BY <1>3, <2>1, <2>2, <2>3, <2>4
<1>11. /\ attr' \in [Key -> Key \union {None}] /\ builder' \in Key \union {None} /\ pool' \subseteq Pooled
      /\ allocated' \subseteq Key /\ zombies' \subseteq Key /\ collecting' = {} /\ inReclaim' = FALSE
  BY <1>2, <1>5 DEF IInv, Typed, TypeOK
<1>12. /\ Typed' /\ CallStack' /\ Phased' /\ Ordered' /\ phase' # "sorting" /\ Dying' = {} /\ Live' = allocated'
  BY <1>6, <1>9, <1>10, <1>11, DecsNext
<1>13. \A j \in Key : References(j)' = References(j) + Count(j, keys)
  <2> TAKE j \in Key
  <2>1. Live' = Live
    BY <1>2, <1>5, <1>12
  <2>2. References(j)' = handles'[j] + AttrRefs(attr, j) + BuilderRefs(builder, j)
                         + Cardinality(ParentsIn(Live, j)) + Count(Dec(j), work')
    BY <1>2, <2>1, ReferencesNext
  <2>3. References(j) = handles[j] + AttrRefs(attr, j) + BuilderRefs(builder, j)
                         + Cardinality(ParentsIn(Live, j)) + Count(Dec(j), work)
    BY ReferencesIs
  <2>4. /\ AttrRefs(attr, j) \in Nat /\ BuilderRefs(builder, j) \in Nat
        /\ Cardinality(ParentsIn(Live, j)) \in Nat /\ handles[j] \in Nat
    BY ReferencesNat DEF IInv
  <2>5. handles'[j] = handles[j] + Count(j, keys) /\ Count(j, keys) \in Nat
    BY <1>7, <1>10
  <2>6. Count(Dec(j), work) = 0
    <3>1. \A i \in 1..Len(work) : work[i] # Dec(j)
      BY <1>3, <1>4, DecIs
    <3> QED
      BY <1>3, <3>1, CountZero
  <2>7. Count(Dec(j), work') = 0
    <3>1. work' \in Seq(Calls)
      BY <1>2, <1>3
    <3>2. \A i \in 1..Len(work') : work'[i] # Dec(j)
      BY <1>4
    <3> QED
      BY <3>1, <3>2, CountZero
  <2> QED
    BY <2>2, <2>3, <2>4, <2>5, <2>6, <2>7
<1>14. Exact' /\ NoneLeft' /\ Placed'
  BY <1>2, <1>4, <1>5, <1>7, <1>8, <1>12, <1>13, IncBalance
<1> QED
  BY <1>12, <1>14, Gather

-----------------------------------------------------------------------------
(* Steps that pass references on, and steps that make a node.              *)

LEMMA ExactKept ==
    ASSUME IInv, rc' = rc, Pinned' = Pinned,
           Live' = Live, Dying' \subseteq Dying, \A k \in Key : References(k)' = References(k)
    PROVE  Exact' /\ NoneLeft'
<1>1. Live \subseteq Key
  BY DEF IInv, Typed, Live
<1>2. Exact'
  <2> SUFFICES ASSUME NEW k \in Live
               PROVE  IF k \in Pinned THEN rc[k] = MaxRC ELSE rc[k] < MaxRC /\ rc[k] = References(k)'
    BY DEF Exact
  <2>1. References(k)' = References(k)
    BY <1>1
  <2> QED
    BY <2>1, ExactAt
<1>3. NoneLeft'
  <2> SUFFICES ASSUME NEW k \in Key \ Live
               PROVE  References(k)' = 0 /\ (k \in Dying => rc[k] = 0)
    BY DEF NoneLeft
  <2>1. References(k)' = References(k)
    OBVIOUS
  <2> QED
    BY <2>1 DEF IInv, NoneLeft
<1> QED
  BY <1>2, <1>3

LEMMA BalanceKept ==
    ASSUME IInv, UNCHANGED <<rc, pool, zombies, collecting, maxedOut, order>>,
           Live' = Live, Dying' \subseteq Dying, \A k \in Key : References(k)' = References(k)
    PROVE  Exact' /\ NoneLeft' /\ Placed'
<1>1. Pinned' = Pinned
  BY DEF Pinned
<1>2. Exact' /\ NoneLeft'
  BY <1>1, ExactKept
<1>3. Placed'
  BY <1>1 DEF IInv, Placed
<1> QED
  BY <1>2, <1>3

\* A decrement that is to come is a reference.
LEMMA DropNodeInv ==
    ASSUME IInv, NEW k \in Key, DropNode(k)
    PROVE  IInv'
<1>1. PICK w : w = <<Dec(k)>>
  OBVIOUS
<1>2. /\ phase \in {"alive", "tables"} /\ work = <<>> /\ AliveFrame /\ handles[k] > 0
      /\ handles' = [handles EXCEPT ![k] = @ - 1] /\ work' = w
      /\ UNCHANGED <<rc, allocated, pool, zombies, maxedOut, inReclaim, collecting, attr, builder,
                     order, failed>>
  BY <1>1 DEF DropNode, AliveFrame, ending
<1>3. Dec(k) \in Calls
  BY DecIs
<1>4. /\ Decs(w)
      /\ \A j \in Key : Count(Dec(j), w) = IF j = k THEN 1 ELSE 0
  <2>1. w \in Seq(Calls) /\ Len(w) = 1 /\ w[1] = Dec(k)
    BY <1>1, <1>3
  <2>2. Decs(w)
    BY <2>1, DecIs DEF Decs
  <2>3. \A j \in Key : Count(Dec(j), w) = IF Dec(j) = Dec(k) THEN 1 ELSE 0
    BY <1>1, <1>3, CountOne
  <2> QED
    BY <2>2, <2>3, DecIs
<1>5. handles \in [Key -> 0..MaxHandles] /\ MaxHandles \in Nat \ {0}
  BY <1>2, IdleIs
<1>6. /\ handles' \in [Key -> 0..MaxHandles]
      /\ \A j \in Key : handles[j] \in Nat /\ handles'[j] = handles[j] - IF j = k THEN 1 ELSE 0
  <2>1. \A j \in Key : handles[j] \in 0..MaxHandles
    BY <1>5
  <2>2. handles[k] - 1 \in 0..MaxHandles
    BY <1>2, <1>5, <2>1
  <2>3. handles' = [handles EXCEPT ![k] = handles[k] - 1]
    BY <1>2
  <2>4. \A j \in Key : handles[j] \in Nat
    BY <1>5, <2>1
  <2> QED
    BY <1>5, <2>2, <2>3, <2>4
<1>7. /\ Dying = {} /\ Live = allocated /\ allocated' = allocated
      /\ attr' \in [Key -> Key \union {None}] /\ builder' \in Key \union {None} /\ pool' \subseteq Pooled
      /\ allocated' \subseteq Key /\ zombies' \subseteq Key /\ collecting' = {} /\ inReclaim' = FALSE
      /\ rc' \in [Key -> 0..MaxRC] /\ maxedOut' \in Seq(Key) /\ Distinct(maxedOut') /\ failed' = {}
  BY <1>2, IdleIs
<1>8. /\ Typed' /\ CallStack' /\ Phased' /\ Ordered' /\ phase' # "sorting" /\ Dying' = {} /\ Live' = allocated'
  BY <1>2, <1>4, <1>6, <1>7, DecsNext
<1>9. \A j \in Key : References(j)' = References(j)
  <2> TAKE j \in Key
  <2>1. Live' = Live
    BY <1>7, <1>8
  <2>2. References(j)' = handles'[j] + AttrRefs(attr, j) + BuilderRefs(builder, j)
                         + Cardinality(ParentsIn(Live, j)) + Count(Dec(j), w)
    BY <1>2, <2>1, ReferencesNext
  <2>3. References(j) = handles[j] + AttrRefs(attr, j) + BuilderRefs(builder, j)
                         + Cardinality(ParentsIn(Live, j)) + Count(Dec(j), work)
    BY ReferencesIs
  <2>4. /\ AttrRefs(attr, j) \in Nat /\ BuilderRefs(builder, j) \in Nat
        /\ Cardinality(ParentsIn(Live, j)) \in Nat /\ handles[j] \in Nat
    BY ReferencesNat DEF IInv
  <2>5. Count(Dec(j), work) = 0
    BY <1>2, CountEmpty
  <2>6. PICK c : c = Count(Dec(j), w)
    OBVIOUS
  <2>7. c \in Nat /\ handles'[j] = handles[j] - c
    BY <1>4, <1>6, <2>6
  <2> QED
    BY <2>2, <2>3, <2>4, <2>5, <2>6, <2>7
<1>10. Exact' /\ NoneLeft' /\ Placed'
  BY <1>2, <1>7, <1>8, <1>9, BalanceKept
<1> QED
  BY <1>8, <1>10, Gather

LEMMA DropBuilderInv ==
    ASSUME IInv, DropBuilder
    PROVE  IInv'
<1>1. PICK b, keys, w : b = builder /\ keys = Children[b] /\ w = DecAll(keys)
  OBVIOUS
<1>2. /\ phase = "alive" /\ work = <<>> /\ AliveFrame /\ b # None
      /\ work' = w /\ builder' = None
      /\ UNCHANGED <<rc, allocated, pool, zombies, maxedOut, inReclaim, collecting, handles, attr,
                     order, failed>>
  BY <1>1 DEF DropBuilder, Idle, AliveFrame, ending
<1>3. b \in Key
  BY <1>1, <1>2, IdleIs
<1>4. keys \in Seq(Key)
  BY <1>1, <1>3, Terms
<1>5. Decs(w) /\ \A j \in Key : Count(Dec(j), w) = Count(j, keys) /\ Count(j, keys) \in Nat
  BY <1>1, <1>4, DecAllIs, DecAllDecs, CountPositive
<1>6. /\ Dying = {} /\ Live = allocated /\ allocated' = allocated
      /\ handles' \in [Key -> 0..MaxHandles]
      /\ attr' \in [Key -> Key \union {None}] /\ builder' \in Key \union {None} /\ pool' \subseteq Pooled
      /\ allocated' \subseteq Key /\ zombies' \subseteq Key /\ collecting' = {} /\ inReclaim' = FALSE
      /\ rc' \in [Key -> 0..MaxRC] /\ maxedOut' \in Seq(Key) /\ Distinct(maxedOut') /\ failed' = {}
  BY <1>2, IdleIs
<1>7. /\ Typed' /\ CallStack' /\ Phased' /\ Ordered' /\ phase' # "sorting" /\ Dying' = {} /\ Live' = allocated'
  BY <1>2, <1>5, <1>6, DecsNext
<1>8. \A j \in Key : References(j)' = References(j)
  <2> TAKE j \in Key
  <2>1. Live' = Live
    BY <1>6, <1>7
  <2>2. References(j)' = handles[j] + AttrRefs(attr, j) + BuilderRefs(None, j)
                         + Cardinality(ParentsIn(Live, j)) + Count(Dec(j), w)
    BY <1>2, <2>1, ReferencesNext
  <2>3. References(j) = handles[j] + AttrRefs(attr, j) + BuilderRefs(b, j)
                         + Cardinality(ParentsIn(Live, j)) + Count(Dec(j), work)
    BY <1>1, ReferencesIs
  <2>4. /\ AttrRefs(attr, j) \in Nat
        /\ Cardinality(ParentsIn(Live, j)) \in Nat /\ handles[j] \in Nat
    BY ReferencesNat DEF IInv
  <2>5. Count(Dec(j), work) = 0
    BY <1>2, CountEmpty
  <2>6. BuilderRefs(None, j) = 0 /\ BuilderRefs(b, j) = Count(j, keys)
    BY <1>1, <1>2 DEF BuilderRefs
  <2>7. PICK c : c = Count(j, keys)
    OBVIOUS
  <2>8. c \in Nat /\ Count(Dec(j), w) = c
    BY <1>5, <2>7
  <2> QED
    BY <2>2, <2>3, <2>4, <2>5, <2>6, <2>7, <2>8
<1>9. Exact' /\ NoneLeft' /\ Placed'
  BY <1>2, <1>6, <1>7, <1>8, BalanceKept
<1> QED
  BY <1>7, <1>9, Gather

\* What a stack is on which the decrements are put and then another call.
DecsThen(w, keys, call) ==
    /\ w \in Seq(Calls) /\ Len(keys) \in Nat /\ Len(w) = Len(keys) + 1
    /\ \A i \in 1..Len(keys) : w[i].op = "dec" /\ w[i].key \in Key
    /\ w[Len(keys) + 1] = call
    /\ \A j \in Key : Count(Dec(j), w) = Count(j, keys) /\ Count(j, keys) \in Nat

LEMMA DecAllThen ==
    ASSUME NEW keys \in Seq(Key), NEW call \in Calls, call.op # "dec",
           NEW d, d = DecAll(keys), NEW t, t = <<call>>, NEW w, w = d \o t
    PROVE  DecsThen(w, keys, call)
<1>1. /\ d \in Seq(Calls) /\ Len(d) = Len(keys)
      /\ \A i \in 1..Len(keys) : d[i] = Dec(keys[i])
      /\ \A j : Count(Dec(j), d) = Count(j, keys)
  BY DecAllIs
<1>2. t \in Seq(Calls) /\ Len(t) = 1 /\ t[1] = call
  OBVIOUS
<1>3. Len(keys) \in Nat /\ \A i \in 1..Len(keys) : keys[i] \in Key
  BY Ranges
<1>4. /\ w \in Seq(Calls) /\ Len(w) = Len(d) + Len(t)
      /\ \A i \in 1..Len(d) + Len(t) : w[i] = IF i <= Len(d) THEN d[i] ELSE t[i - Len(d)]
  BY <1>1, <1>2, ConcatProperties
<1>5. PICK n : n = Len(keys)
  OBVIOUS
<1>6. n \in Nat /\ Len(w) = n + 1 /\ w[n + 1] = call /\ \A i \in 1..n : w[i] = Dec(keys[i])
  <2>1. n \in Nat /\ Len(d) = n /\ Len(w) = n + 1 /\ n + 1 \in 1..n + 1 /\ n + 1 - n = 1
    BY <1>1, <1>2, <1>3, <1>4, <1>5
  <2>2. w[n + 1] = call
    <3>1. n + 1 \in 1..Len(d) + Len(t) /\ ~(n + 1 <= Len(d)) /\ n + 1 - Len(d) = 1
      BY <1>2, <2>1
    <3>2. w[n + 1] = t[n + 1 - Len(d)]
      BY <1>4, <3>1
    <3> QED
      BY <1>2, <3>1, <3>2
  <2>3. \A i \in 1..n : w[i] = d[i]
    BY <1>2, <1>4, <2>1
  <2> QED
    BY <1>1, <1>2, <1>5, <2>1, <2>2, <2>3
<1>7. \A i \in 1..n : w[i].op = "dec" /\ w[i].key \in Key
  BY <1>3, <1>5, <1>6, DecIs
<1>8. \A j \in Key : Count(Dec(j), w) = Count(j, keys) /\ Count(j, keys) \in Nat
  <2> TAKE j \in Key
  <2>1. Count(Dec(j), w) = Count(Dec(j), d) + Count(Dec(j), t)
    BY <1>1, <1>2, CountConcat
  <2>2. Count(Dec(j), t) = 0
    <3>1. call # Dec(j)
      BY DecIs
    <3>2. \A i \in 1..Len(t) : t[i] # Dec(j)
      BY <1>2, <3>1
    <3> QED
      BY <1>2, <3>2, CountZero
  <2>3. Count(j, keys) \in Nat
    BY CountPositive
  <2> QED
    BY <1>1, <2>1, <2>2, <2>3
<1> QED
  BY <1>3, <1>4, <1>5, <1>6, <1>7, <1>8 DEF DecsThen

\* A node that the pool has: its parents are not less than what the builder gives back.
LEMMA BuildFromPoolInv ==
    ASSUME IInv, BuildFromPool
    PROVE  IInv'
<1>1. PICK b, keys, w : b = builder /\ keys = Children[b] /\ w = DecAll(keys) \o <<Op("return", b)>>
  OBVIOUS
<1>2. /\ phase = "alive" /\ work = <<>> /\ AliveFrame /\ b \in pool /\ handles[b] < MaxHandles
      /\ work' = w /\ builder' = None
      /\ UNCHANGED <<rc, allocated, pool, zombies, maxedOut, inReclaim, collecting, handles, attr,
                     order, failed>>
  BY <1>1 DEF BuildFromPool, Idle, AliveFrame, ending
<1>3. b \in Key /\ b \in Live \intersect Pooled
  <2>1. pool = Live \intersect Pooled /\ Pooled \subseteq Key
    BY NodeAssumption DEF IInv, Placed
  <2> QED
    BY <1>2, <2>1
<1>4. keys \in Seq(Key)
  BY <1>1, <1>3, Terms
<1>5. /\ w \in Seq(Calls) /\ Len(keys) \in Nat /\ Len(w) = Len(keys) + 1
      /\ \A i \in 1..Len(keys) : w[i].op = "dec" /\ w[i].key \in Key
      /\ w[Len(keys) + 1].op = "return" /\ w[Len(keys) + 1].key = b
      /\ \A j \in Key : Count(Dec(j), w) = Count(j, keys) /\ Count(j, keys) \in Nat
  <2>1. PICK call, d, t : call = Op("return", b) /\ d = DecAll(keys) /\ t = <<call>>
    OBVIOUS
  <2>2. call \in Calls /\ call.op = "return" /\ call.key = b /\ w = d \o t
    BY <1>1, <1>3, <2>1, OpIs DEF Ops
  <2>3. call \in Calls /\ call.op # "dec"
    BY <2>2
  <2>4. DecsThen(w, keys, call)
    BY <1>4, <2>1, <2>2, <2>3, DecAllThen
  <2> QED
    BY <2>2, <2>4 DEF DecsThen
<1>6. PICK n : n = Len(keys)
  OBVIOUS
<1>7. n \in Nat /\ Len(w) = n + 1 /\ \A i \in 1..n + 1 : i \in 1..n \/ i = n + 1
  BY <1>5, <1>6
<1>8. \A i \in 1..Len(w) : /\ w[i].op # "dec" => i = n + 1 /\ w[i].op = "return"
                           /\ w[i].op \in {"dec", "free", "return"} => w[i].key \in Key
  BY <1>3, <1>5, <1>6, <1>7
<1>9. /\ Dying = {} /\ Live = allocated /\ inReclaim = FALSE /\ collecting = {}
      /\ handles' \in [Key -> 0..MaxHandles]
      /\ attr' \in [Key -> Key \union {None}] /\ builder' \in Key \union {None} /\ pool' \subseteq Pooled
      /\ allocated' \subseteq Key /\ zombies' \subseteq Key /\ collecting' \subseteq Key /\ inReclaim' \in BOOLEAN
      /\ rc' \in [Key -> 0..MaxRC] /\ maxedOut' \in Seq(Key) /\ Distinct(maxedOut') /\ failed' = {}
  BY <1>2, IdleIs
<1>10. Typed'
  BY <1>2, <1>5, <1>8, <1>9, AliveTyped
<1>11. Phased' /\ Ordered' /\ phase' # "sorting"
  BY <1>2, <1>9, AlivePhased
<1>12. Dying' = {} /\ Live' = Live
  <2>1. DOMAIN work' = 1..Len(w)
    BY <1>2, <1>5, Ranges
  <2>2. Dying' = {}
    BY <1>2, <1>8, <2>1 DEF Dying
  <2> QED
    BY <1>2, <1>9, <2>2 DEF Live
<1>13. CallStack'
  <2>1. Live' = Live /\ builder' = None /\ inReclaim' = FALSE /\ collecting' = {} /\ phase' = "alive"
        /\ handles' = handles /\ work' = w
    BY <1>2, <1>9, <1>12 DEF AliveFrame, ending
  <2>2. \A i \in 1..Len(w) :
           /\ w[i].op = "dec" \/ w[i].op = "return"
           /\ w[i].op = "return" =>
                 /\ i = Len(w) /\ \A j \in 1..i - 1 : w[j].op = "dec"
                 /\ w[i].key \in Live \intersect Pooled /\ handles[w[i].key] < MaxHandles
                 /\ \A c \in Key : Count(Dec(c), w) <= Count(c, Children[w[i].key])
    <3> TAKE i \in 1..Len(w)
    <3>1. w[i].op = "dec" \/ w[i].op = "return"
      BY <1>8
    <3>2. ASSUME w[i].op = "return"
          PROVE  /\ i = Len(w) /\ \A j \in 1..i - 1 : w[j].op = "dec"
                 /\ w[i].key = b
      <4>1. i = n + 1
        BY <1>8, <3>2
      <4>2. \A j \in 1..i - 1 : j \in 1..n
        BY <1>7, <4>1
      <4> QED
        BY <1>5, <1>6, <1>7, <4>1, <4>2
    <3>3. \A c \in Key : Count(Dec(c), w) <= Count(c, Children[b])
      BY <1>1, <1>5
    <3> QED
      BY <1>2, <1>3, <3>1, <3>2, <3>3
  <2>3. \A i \in 1..Len(w) : w[i].op \notin {"reclaim", "free", "collect", "attributes"}
    BY <2>2
  <2> QED
    BY <2>1, <2>2, <2>3 DEF CallStack, OpAt, Above
<1>14. \A j \in Key : References(j)' = References(j)
  <2> TAKE j \in Key
  <2>1. References(j)' = handles[j] + AttrRefs(attr, j) + BuilderRefs(None, j)
                         + Cardinality(ParentsIn(Live, j)) + Count(Dec(j), w)
    BY <1>2, <1>12, ReferencesNext
  <2>2. References(j) = handles[j] + AttrRefs(attr, j) + BuilderRefs(b, j)
                         + Cardinality(ParentsIn(Live, j)) + Count(Dec(j), work)
    BY <1>1, ReferencesIs
  <2>3. /\ AttrRefs(attr, j) \in Nat
        /\ Cardinality(ParentsIn(Live, j)) \in Nat /\ handles[j] \in Nat
    BY ReferencesNat DEF IInv
  <2>4. Count(Dec(j), work) = 0
    BY <1>2, CountEmpty
  <2>5. BuilderRefs(None, j) = 0 /\ BuilderRefs(b, j) = Count(j, keys)
    BY <1>1, <1>3, Terms DEF BuilderRefs
  <2>6. PICK c : c = Count(j, keys)
    OBVIOUS
  <2>7. c \in Nat /\ Count(Dec(j), w) = c
    BY <1>5, <2>6
  <2> QED
    BY <2>1, <2>2, <2>3, <2>4, <2>5, <2>6, <2>7
<1>15. Exact' /\ NoneLeft' /\ Placed'
  BY <1>2, <1>9, <1>12, <1>14, BalanceKept
<1> QED
  BY <1>10, <1>11, <1>13, <1>15, Gather

\* A node is made, with one reference to it.
LEMMA NodeMade ==
    ASSUME IInv, work = <<>>, NEW k \in Key \ Live, Live' = Live \union {k}, Dying = {}, Dying' = {},
           rc' = [rc EXCEPT ![k] = 1], pool' = pool \union ({k} \intersect Pooled),
           UNCHANGED <<zombies, collecting, maxedOut, order>>,
           \A j \in Key : References(j)' = References(j) + IF j = k THEN 1 ELSE 0
    PROVE  Exact' /\ NoneLeft' /\ Placed'
<1>1. Pinned' = Pinned
  BY DEF Pinned
<1>2. Live \subseteq Key /\ rc \in [Key -> 0..MaxRC] /\ MaxRC \in Nat \ {0, 1}
  BY NodeAssumption DEF IInv, Typed, TypeOK, Live
<1>3. /\ zombies \union collecting \union Pinned \subseteq Live
      /\ zombies \intersect collecting = {}
      /\ \A j \in collecting : rc[j] = 0
      /\ \A j \in Live : rc[j] = 0 => j \in zombies \union collecting
      /\ pool = Live \intersect Pooled
  BY DEF IInv, Placed
<1>4. References(k) = 0
  BY DEF IInv, NoneLeft
<1>5. \A j \in Live : rc'[j] = rc[j] /\ References(j)' = References(j)
  <2> TAKE j \in Live
  <2>1. j # k /\ References(j) \in Nat
    BY <1>2, ReferencesNat DEF IInv
  <2> QED
    BY <1>2, <2>1
<1>6. rc'[k] = 1 /\ References(k)' = 1
  BY <1>2, <1>4
<1>7. Exact'
  <2> SUFFICES ASSUME NEW j \in Live \union {k}
               PROVE  IF j \in Pinned THEN rc'[j] = MaxRC ELSE rc'[j] < MaxRC /\ rc'[j] = References(j)'
    BY <1>1 DEF Exact
  <2>1. CASE j \in Live
    BY <1>5, <2>1, ExactAt
  <2>2. CASE j = k
    BY <1>2, <1>3, <1>6, <2>2
  <2> QED
    BY <2>1, <2>2
<1>8. NoneLeft'
  <2> SUFFICES ASSUME NEW j \in Key \ (Live \union {k})
               PROVE  References(j)' = 0
    BY DEF NoneLeft
  <2>1. References(j) = 0
    BY DEF IInv, NoneLeft
  <2> QED
    BY <2>1
<1>9. Placed'
  BY <1>1, <1>3, <1>5, <1>6 DEF Placed
<1> QED
  BY <1>7, <1>8, <1>9

LEMMA MkVarInv ==
    ASSUME IInv, NEW k \in Key, MkVar(k)
    PROVE  IInv'
<1>1. /\ phase = "alive" /\ work = <<>> /\ AliveFrame /\ k \notin Pooled /\ k \notin allocated
      /\ allocated' = allocated \union {k}
      /\ rc' = [rc EXCEPT ![k] = 1] /\ handles' = [handles EXCEPT ![k] = 1]
      /\ UNCHANGED <<pool, zombies, maxedOut, inReclaim, collecting, work, attr, builder, order, failed>>
  BY DEF MkVar, Idle, AliveFrame, ending
<1>2. /\ Decs(work) /\ work' = work /\ Dying = {} /\ Live = allocated /\ Live \subseteq Key
      /\ handles \in [Key -> 0..MaxHandles] /\ MaxHandles \in Nat \ {0}
      /\ rc \in [Key -> 0..MaxRC] /\ MaxRC \in Nat \ {0, 1}
      /\ attr' \in [Key -> Key \union {None}] /\ builder' \in Key \union {None} /\ pool' \subseteq Pooled
      /\ allocated' \subseteq Key /\ zombies' \subseteq Key /\ collecting' = {} /\ inReclaim' = FALSE
      /\ maxedOut' \in Seq(Key) /\ Distinct(maxedOut') /\ failed' = {}
  BY <1>1, IdleIs
<1>3. handles' \in [Key -> 0..MaxHandles] /\ rc' \in [Key -> 0..MaxRC]
  BY <1>1, <1>2
<1>4. /\ Typed' /\ CallStack' /\ Phased' /\ Ordered' /\ phase' # "sorting" /\ Dying' = {} /\ Live' = allocated'
  BY <1>1, <1>2, <1>3, DecsNext
<1>5. k \in Key \ Live /\ Live' = Live \union {k} /\ Live \in SUBSET Key
  BY <1>1, <1>2, <1>4
<1>6. handles[k] = 0
  <2>1. handles[k] \in Nat
    BY <1>2
  <2> QED
    BY <1>5, <2>1, HandledLive
<1>7. \A j \in Key : References(j)' = References(j) + IF j = k THEN 1 ELSE 0
  <2> TAKE j \in Key
  <2>1. References(j)' = handles'[j] + AttrRefs(attr, j) + BuilderRefs(builder, j)
                         + Cardinality(ParentsIn(Live', j)) + Count(Dec(j), work)
    BY <1>1, ReferencesNext
  <2>2. References(j) = handles[j] + AttrRefs(attr, j) + BuilderRefs(builder, j)
                         + Cardinality(ParentsIn(Live, j)) + Count(Dec(j), work)
    BY ReferencesIs
  <2>3. /\ Count(Dec(j), work) \in Nat /\ AttrRefs(attr, j) \in Nat /\ BuilderRefs(builder, j) \in Nat
        /\ Cardinality(ParentsIn(Live, j)) \in Nat /\ handles[j] \in Nat
    BY ReferencesNat DEF IInv
  <2>4. Cardinality(ParentsIn(Live', j)) = Cardinality(ParentsIn(Live, j))
    <3>1. Cardinality(ParentsIn(Live \union {k}, j)) = Cardinality(ParentsIn(Live, j)) + Count(j, Children[k])
      BY <1>5, ParentAdded
    <3>2. Children[k] = <<>>
      BY <1>1, Terms
    <3>3. Count(j, Children[k]) = 0
      BY <3>2, CountEmpty
    <3> QED
      BY <1>5, <2>3, <3>1, <3>3
  <2>5. handles'[j] = IF j = k THEN 1 ELSE handles[j]
    BY <1>1, <1>2
  <2>6. j = k => handles[j] = 0
    BY <1>6
  <2> QED
    BY <2>1, <2>2, <2>3, <2>4, <2>5, <2>6
<1>8. pool' = pool \union ({k} \intersect Pooled)
  BY <1>1
<1>9. UNCHANGED <<zombies, collecting, maxedOut, order>>
  BY <1>1
<1>10. Exact' /\ NoneLeft' /\ Placed'
  BY <1>1, <1>2, <1>4, <1>5, <1>7, <1>8, <1>9, NodeMade
<1> QED
  BY <1>4, <1>10, Gather

\* The node takes over what the builder has.
LEMMA BuildNewInv ==
    ASSUME IInv, BuildNew
    PROVE  IInv'
<1>1. PICK b : b = builder
  OBVIOUS
<1>2. /\ phase = "alive" /\ work = <<>> /\ AliveFrame /\ b \in Pooled \ pool
      /\ allocated' = allocated \union {b} /\ pool' = pool \union {b}
      /\ rc' = [rc EXCEPT ![b] = 1] /\ handles' = [handles EXCEPT ![b] = 1] /\ builder' = None
      /\ failed' = IF b \notin allocated THEN failed ELSE failed \union {"two nodes for one term"}
      /\ UNCHANGED <<zombies, maxedOut, inReclaim, collecting, work, attr, order>>
  BY <1>1 DEF BuildNew, Idle, AliveFrame, ending, Failing
<1>3. b \in Key /\ b \notin Live /\ b # None /\ b \in Pooled
  <2>1. pool = Live \intersect Pooled /\ Pooled \subseteq Key
    BY NodeAssumption DEF IInv, Placed
  <2> QED
    BY <1>2, <2>1, Terms
<1>4. /\ Decs(work) /\ work' = work /\ Dying = {} /\ Live = allocated /\ Live \subseteq Key
      /\ handles \in [Key -> 0..MaxHandles] /\ MaxHandles \in Nat \ {0}
      /\ rc \in [Key -> 0..MaxRC] /\ MaxRC \in Nat \ {0, 1} /\ pool \subseteq Pooled /\ failed = {}
      /\ attr' \in [Key -> Key \union {None}] /\ builder' \in Key \union {None}
      /\ zombies' \subseteq Key /\ collecting' = {} /\ inReclaim' = FALSE
      /\ maxedOut' \in Seq(Key) /\ Distinct(maxedOut')
  BY <1>2, IdleIs
<1>5. /\ handles' \in [Key -> 0..MaxHandles] /\ rc' \in [Key -> 0..MaxRC] /\ pool' \subseteq Pooled
      /\ allocated' \subseteq Key /\ failed' = {}
  BY <1>2, <1>3, <1>4
<1>6. /\ Typed' /\ CallStack' /\ Phased' /\ Ordered' /\ phase' # "sorting" /\ Dying' = {} /\ Live' = allocated'
  BY <1>2, <1>4, <1>5, DecsNext
<1>7. b \in Key \ Live /\ Live' = Live \union {b} /\ Live \in SUBSET Key
  BY <1>2, <1>3, <1>4, <1>6
<1>8. handles[b] = 0
  <2>1. handles[b] \in Nat
    BY <1>3, <1>4
  <2> QED
    BY <1>3, <2>1, HandledLive
<1>9. \A j \in Key : References(j)' = References(j) + IF j = b THEN 1 ELSE 0
  <2> TAKE j \in Key
  <2>1. References(j)' = handles'[j] + AttrRefs(attr, j) + BuilderRefs(None, j)
                         + Cardinality(ParentsIn(Live', j)) + Count(Dec(j), work)
    BY <1>2, ReferencesNext
  <2>2. References(j) = handles[j] + AttrRefs(attr, j) + BuilderRefs(b, j)
                         + Cardinality(ParentsIn(Live, j)) + Count(Dec(j), work)
    BY <1>1, ReferencesIs
  <2>3. /\ Count(Dec(j), work) \in Nat /\ AttrRefs(attr, j) \in Nat /\ BuilderRefs(b, j) \in Nat
        /\ Cardinality(ParentsIn(Live, j)) \in Nat /\ handles[j] \in Nat
    BY <1>1, ReferencesNat DEF IInv
  <2>4. Cardinality(ParentsIn(Live', j)) = Cardinality(ParentsIn(Live, j)) + Count(j, Children[b])
    <3>1. Cardinality(ParentsIn(Live \union {b}, j)) = Cardinality(ParentsIn(Live, j)) + Count(j, Children[b])
      BY <1>7, ParentAdded
    <3> QED
      BY <1>7, <3>1
  <2>5. handles'[j] = IF j = b THEN 1 ELSE handles[j]
    BY <1>2, <1>4
  <2>6. j = b => handles[j] = 0
    BY <1>8
  <2>7. BuilderRefs(None, j) = 0 /\ BuilderRefs(b, j) = Count(j, Children[b])
    BY <1>3 DEF BuilderRefs
  <2> QED
    BY <2>1, <2>2, <2>3, <2>4, <2>5, <2>6, <2>7
<1>10. pool' = pool \union ({b} \intersect Pooled)
  BY <1>2, <1>3
<1>11. Exact' /\ NoneLeft' /\ Placed'
  <2>1. UNCHANGED <<zombies, collecting, maxedOut, order>>
    BY <1>2
  <2> QED
    BY <1>2, <1>4, <1>6, <1>7, <1>9, <1>10, <2>1, NodeMade
<1> QED
  BY <1>6, <1>11, Gather

-----------------------------------------------------------------------------
(* The destructor begins.                                                  *)

\* The values of the attributes, one for each owner.
ValuesOf(at, vals) == vals \in Seq(Key) /\ \A j \in Key : Count(j, vals) = AttrRefs(at, j)

LEMMA OwnersCount ==
    ASSUME NEW at \in [Key -> Key \union {None}], NEW owners, owners = SetToSeq({k \in Key : at[k] # None}),
           NEW vals, vals = [i \in DOMAIN owners |-> at[owners[i]]]
    PROVE  ValuesOf(at, vals)
<1> DEFINE S == {k \in Key : at[k] # None}
<1>1. IsFiniteSet(S) /\ S \subseteq Key
  <2>1. S \subseteq Key
    OBVIOUS
  <2> QED
    BY <2>1, Terms, FS_Subset
<1>2. PICK n : n = Cardinality(S)
  OBVIOUS
<1>3. /\ owners \in Seq(S) /\ Len(owners) = n /\ n \in Nat /\ ToSet(owners) = S
      /\ \A i, j \in 1..n : owners[i] = owners[j] => i = j
  <2>1. owners = SetToSeq(S)
    OBVIOUS
  <2> HIDE DEF S
  <2> QED
    BY <1>1, <1>2, <2>1, SetToSeqIs
<1>4. DOMAIN owners = 1..n /\ (\A i \in 1..n : owners[i] \in S) /\ \A k \in S : \E i \in 1..n : owners[i] = k
  <2> HIDE DEF S
  <2>1. DOMAIN owners = 1..Len(owners) /\ \A i \in 1..Len(owners) : owners[i] \in S
    BY <1>3, Ranges
  <2>2. \A x : x \in ToSet(owners) <=> \E i \in 1..Len(owners) : owners[i] = x
    BY <2>1 DEF ToSet
  <2> QED
    BY <1>3, <2>1, <2>2
<1>5. \A i \in 1..n : owners[i] \in Key /\ at[owners[i]] \in Key
  <2>1. \A k \in S : k \in Key /\ at[k] \in Key
    OBVIOUS
  <2>2. \A i \in 1..n : owners[i] \in S
    BY <1>4
  <2> HIDE DEF S
  <2> QED
    BY <2>1, <2>2
<1>6. vals = [i \in 1..n |-> at[owners[i]]]
  BY <1>4
<1>7. vals \in Seq(Key) /\ DOMAIN vals = 1..n
  <2>1. vals \in [1..n -> Key]
    BY <1>5, <1>6
  <2> QED
    BY <1>3, <2>1
<1>8. ASSUME NEW j \in Key
      PROVE  Count(j, vals) = AttrRefs(at, j)
  <2> DEFINE P == {i \in 1..n : vals[i] = j}
             T == {k \in Key : at[k] = j}
             f == [i \in P |-> owners[i]]
  <2>1. Count(j, vals) = Cardinality(P) /\ IsFiniteSet(P)
    <3>1. P = Positions(j, vals)
      BY <1>7 DEF Positions
    <3>2. /\ IsFiniteSet(Positions(j, vals)) /\ Count(j, vals) = Cardinality(Positions(j, vals))
      BY <1>7, CountIs
    <3> QED
      BY <3>1, <3>2
  <2>2. \A i \in P : owners[i] \in T
    BY <1>5, <1>6
  <2>3. f \in [P -> T]
    BY <2>2
  <2>4. \A x, y \in P : f[x] = f[y] => x = y
    BY <1>3
  <2>5. \A y \in T : \E x \in P : f[x] = y
    <3> TAKE y \in T
    <3>1. y \in S
      BY Terms
    <3>2. PICK i \in 1..n : owners[i] = y
      BY <1>4, <3>1
    <3>3. i \in P /\ f[i] = y
      BY <1>6, <3>2
    <3> QED
      BY <3>3
  <2>6. AttrRefs(at, j) = Cardinality(T)
    BY DEF AttrRefs
  <2> HIDE DEF P, T, f
  <2>7. Cardinality(T) = Cardinality(P)
    BY <2>1, <2>3, <2>4, <2>5, SameCount
  <2> QED
    BY <2>1, <2>6, <2>7
<1> QED
  BY <1>7, <1>8 DEF ValuesOf

LEMMA DeleteAllAttributesInv ==
    ASSUME IInv, DeleteAllAttributes
    PROVE  IInv'
<1>1. PICK owners, keys, w, call, d, t :
         /\ owners = SetToSeq({k \in Key : attr[k] # None}) /\ keys = [i \in DOMAIN owners |-> attr[owners[i]]]
         /\ call = Op("attributes", None) /\ d = DecAll(keys) /\ t = <<call>> /\ w = d \o t
  OBVIOUS
<1>2. /\ phase = "alive" /\ work = <<>> /\ builder = None /\ inReclaim' = TRUE
      /\ work' = w /\ attr' = [k \in Key |-> None] /\ phase' = "tables"
      /\ UNCHANGED <<rc, allocated, pool, zombies, maxedOut, collecting, handles, builder,
                     root, stack, visited, order, failed>>
  BY <1>1 DEF DeleteAllAttributes, Idle
<1>3. /\ collecting = {} /\ Dying = {} /\ Live = allocated /\ attr \in [Key -> Key \union {None}]
  BY <1>2, IdleIs
<1>4. keys \in Seq(Key) /\ \A j \in Key : Count(j, keys) = AttrRefs(attr, j)
  <2>1. ValuesOf(attr, keys)
    BY <1>1, <1>3, OwnersCount
  <2> QED
    BY <2>1 DEF ValuesOf
<1>5. call \in Calls /\ call.op = "attributes" /\ call.op # "dec"
  BY <1>1, OpIs DEF Ops
<1>6. /\ w \in Seq(Calls) /\ Len(keys) \in Nat /\ Len(w) = Len(keys) + 1
      /\ \A i \in 1..Len(keys) : w[i].op = "dec" /\ w[i].key \in Key
      /\ w[Len(keys) + 1] = call
      /\ \A j \in Key : Count(Dec(j), w) = Count(j, keys) /\ Count(j, keys) \in Nat
  <2>1. DecsThen(w, keys, call)
    BY <1>1, <1>4, <1>5, DecAllThen
  <2> QED
    BY <2>1 DEF DecsThen
<1>7. PICK n : n = Len(keys)
  OBVIOUS
<1>8. n \in Nat /\ Len(w) = n + 1 /\ n + 1 \in 1..n + 1 /\ \A i \in 1..n + 1 : i \in 1..n \/ i = n + 1
  BY <1>6, <1>7
<1>9. \A i \in 1..Len(w) : /\ w[i].op # "dec" => i = n + 1
                           /\ w[i].op = "dec" \/ w[i].op = "attributes"
                           /\ w[i].op = "dec" => w[i].key \in Key
  BY <1>5, <1>6, <1>7, <1>8
<1>10. w[n + 1].op = "attributes" /\ n + 1 \in 1..Len(w)
  BY <1>5, <1>6, <1>7, <1>8
<1>11. Typed'
  <2>1. TypeOK'
    BY <1>2, Terms DEF IInv, Typed, TypeOK
  <2>2. \A i \in 1..Len(w) : w[i].op \in {"dec", "free", "return"} => w[i].key \in Key
    BY <1>9
  <2> QED
    BY <1>2, <1>6, <2>1, <2>2 DEF IInv, Typed
<1>12. Dying' = {} /\ Live' = Live
  <2>1. DOMAIN work' = 1..Len(w)
    BY <1>2, <1>6, Ranges
  <2>2. Dying' = {}
    BY <1>2, <1>9, <2>1 DEF Dying
  <2> QED
    BY <1>2, <1>3, <2>2 DEF Live
<1>13. CallStack'
  <2>1. \A i \in 1..Len(w) : /\ w[i].op \notin {"reclaim", "free", "collect", "return"}
                             /\ w[i].op = "attributes" => i = Len(w) /\ \A j \in 1..i - 1 : w[j].op = "dec"
    <3> TAKE i \in 1..Len(w)
    <3>1. w[i].op \notin {"reclaim", "free", "collect", "return"}
      BY <1>9
    <3>2. ASSUME w[i].op = "attributes"
          PROVE  i = Len(w) /\ \A j \in 1..i - 1 : w[j].op = "dec"
      <4>1. i = n + 1
        BY <1>9, <3>2
      <4>2. \A j \in 1..i - 1 : j \in 1..n
        BY <1>8, <4>1
      <4> QED
        BY <1>6, <1>7, <1>8, <4>1, <4>2
    <3> QED
      BY <3>1, <3>2
  <2>2. \E i \in 1..Len(w) : w[i].op \in {"collect", "attributes"}
    BY <1>10
  <2> QED
    BY <1>2, <1>3, <2>1, <2>2 DEF CallStack, OpAt, Above
<1>14. Phased' /\ Ordered' /\ phase' # "sorting"
  <2>1. order' = <<>> /\ stack' = <<>> /\ visited' = {} /\ root' = 0 /\ Distinct(maxedOut')
    BY <1>2 DEF IInv, Phased
  <2>2. Phased'
    BY <1>2, <2>1 DEF Phased
  <2> QED
    BY <1>2, <2>2, OrderKept DEF IInv
<1>15. \A j \in Key : References(j)' = References(j)
  <2> TAKE j \in Key
  <2>1. References(j)' = handles[j] + AttrRefs(attr', j) + BuilderRefs(builder, j)
                         + Cardinality(ParentsIn(Live, j)) + Count(Dec(j), w)
    BY <1>2, <1>12, ReferencesNext
  <2>2. References(j) = handles[j] + AttrRefs(attr, j) + BuilderRefs(builder, j)
                         + Cardinality(ParentsIn(Live, j)) + Count(Dec(j), work)
    BY ReferencesIs
  <2>3. /\ AttrRefs(attr, j) \in Nat /\ BuilderRefs(builder, j) \in Nat
        /\ Cardinality(ParentsIn(Live, j)) \in Nat /\ handles[j] \in Nat
    BY ReferencesNat DEF IInv
  <2>4. Count(Dec(j), work) = 0
    BY <1>2, CountEmpty
  <2>5. AttrRefs(attr', j) = 0
    BY <1>2, AttrNone
  <2>6. Count(Dec(j), w) = AttrRefs(attr, j)
    BY <1>4, <1>6
  <2> QED
    BY <2>1, <2>2, <2>3, <2>4, <2>5, <2>6
<1>16. Exact' /\ NoneLeft' /\ Placed'
  BY <1>2, <1>3, <1>12, <1>15, BalanceKept
<1> QED
  BY <1>11, <1>13, <1>14, <1>16, Gather

-----------------------------------------------------------------------------
(* Steps of calls that have not returned.                                  *)

\* What the program and the destructor have does not change.
RunFrame ==
    /\ work # <<>> /\ UNCHANGED <<handles, builder, maxedOut, ending>>
    /\ attr' \in [Key -> Key \union {None}] /\ \A k \in Key : attr[k] = None => attr'[k] = None

LEMMA RunPhased ==
    ASSUME IInv, RunFrame
    PROVE  /\ Phased' /\ Ordered' /\ phase' # "sorting" /\ phase' = phase /\ Pinned' = Pinned
           /\ order' = order
<1>1. /\ phase' = phase /\ order' = order /\ stack' = stack /\ visited' = visited /\ root' = root
      /\ maxedOut' = maxedOut /\ handles' = handles /\ builder' = builder /\ work # <<>>
  BY DEF RunFrame, ending
<1>2. phase \notin {"sorting", "gone"}
  BY <1>1 DEF IInv, Phased
<1>3. phase # "alive" => builder' = None /\ \A k \in Key : attr'[k] = None
  BY <1>1 DEF RunFrame, IInv, Phased
<1>4. Phased'
  BY <1>1, <1>2, <1>3 DEF IInv, Phased
<1>5. Pinned' = Pinned
  BY <1>1 DEF Pinned
<1> QED
  BY <1>1, <1>2, <1>4, <1>5, OrderKept DEF IInv

LEMMA RunTyped ==
    ASSUME IInv, RunFrame, rc' \in [Key -> 0..MaxRC], failed' = {}, pool' \subseteq Pooled,
           zombies' \subseteq Key, collecting' \subseteq Key, inReclaim' \in BOOLEAN,
           allocated' \subseteq Key, work' \in Seq(Calls),
           \A i \in 1..Len(work') : work'[i].op \in {"dec", "free", "return"} => work'[i].key \in Key
    PROVE  Typed'
<1>1. /\ order' = order /\ visited' = visited /\ phase' = phase /\ stack' = stack /\ root' = root
      /\ maxedOut' = maxedOut /\ handles' = handles /\ builder' = builder
      /\ attr' \in [Key -> Key \union {None}]
  BY DEF RunFrame, ending
<1>2. /\ order \in Seq(Key) /\ visited \subseteq Key /\ stack \in Seq(Entries) /\ root \in Nat
      /\ phase \in {"alive", "tables", "sorting", "deleting", "gone"}
      /\ maxedOut \in Seq(Key) /\ handles \in [Key -> 0..MaxHandles] /\ builder \in Key \union {None}
  BY DEF IInv, Typed, TypeOK
<1>3. TypeOK'
  BY <1>1, <1>2 DEF TypeOK
<1> QED
  BY <1>1, <1>2, <1>3 DEF Typed

\* What the invariant says where the stack is next.
LEMMA StackIs ==
    ASSUME IInv, NEW i \in 1..Len(work)
    PROVE  /\ work[i].op = "reclaim" => i = 1 /\ (\A j \in i + 1..Len(work) : work[j].op = "dec") /\ ~inReclaim
           /\ work[i].op = "free" => /\ i < Len(work) /\ work[i + 1].op = "collect"
                                     /\ \A j \in 1..i - 1 : work[j].op = "dec"
           /\ work[i].op = "collect" => /\ \A j \in i + 1..Len(work) : work[j].op = "dec"
                                        /\ \A j \in 1..i - 1 : work[j].op \in {"dec", "free"}
           /\ work[i].op = "attributes" => /\ i = Len(work) /\ phase = "tables"
                                           /\ \A j \in 1..i - 1 : work[j].op = "dec"
           /\ work[i].op = "return" => /\ i = Len(work) /\ phase = "alive"
                                       /\ \A j \in 1..i - 1 : work[j].op = "dec"
                                       /\ work[i].key \in Live \intersect Pooled /\ builder = None
                                       /\ handles[work[i].key] < MaxHandles
                                       /\ \A c \in Key : Count(Dec(c), work) <= Count(c, Children[work[i].key])
           /\ work[i].op \in {"reclaim", "free", "collect", "attributes", "return", "dec"}
<1>1. work[i] \in Calls
  BY Ranges DEF IInv, Typed
<1> QED
  BY <1>1 DEF IInv, CallStack, OpAt, Above, Below, Calls, Ops

LEMMA ReclaimingIs ==
    ASSUME IInv
    PROVE  /\ inReclaim <=> \E i \in 1..Len(work) : work[i].op \in {"collect", "attributes"}
           /\ collecting # {} => \E i \in 1..Len(work) : work[i].op = "collect"
           /\ inReclaim \in BOOLEAN
  BY DEF IInv, CallStack, OpAt, Typed, TypeOK

\* The decrement that is next goes away.
DecOff(w) == w = Tail(work)
\* It becomes a collection.
DecToReclaim(w) == w = <<Op("reclaim", None)>> \o Tail(work)

LEMMA DecOffStack ==
    ASSUME IInv, Running("dec"), NEW w, w = work', DecOff(w), RunFrame, Live' = Live,
           UNCHANGED <<inReclaim, collecting>>
    PROVE  CallStack'
<1>1. /\ work \in Seq(Calls) /\ Len(work) \in Nat \ {0} /\ work[1].op = "dec"
      /\ w \in Seq(Calls) /\ Len(w) = Len(work) - 1
      /\ \A i \in 1..Len(work) - 1 : w[i] = work[i + 1] /\ i + 1 \in 1..Len(work)
  BY RunningIs DEF DecOff
<1>2. /\ phase' = phase /\ handles' = handles /\ builder' = builder
  BY DEF RunFrame, ending
<1>3. PICK n : n = Len(work)
  OBVIOUS
<1>4. /\ n \in Nat \ {0} /\ Len(w) = n - 1
      /\ \A i \in 1..n - 1 : w[i] = work[i + 1] /\ i + 1 \in 1..n
  BY <1>1, <1>3
<1>5. \A c \in Key : Count(Dec(c), w) <= Count(Dec(c), work)
  <2> TAKE c \in Key
  <2>1. Count(Dec(c), work) = Count(Dec(c), Tail(work)) + IF Dec(c) = Head(work) THEN 1 ELSE 0
    BY <1>1, CountTail
  <2>2. Count(Dec(c), w) = Count(Dec(c), Tail(work)) /\ Count(Dec(c), w) \in Nat
    BY <1>1, CountIs DEF DecOff
  <2> QED
    BY <2>1, <2>2
<1>6. ASSUME NEW i \in 1..n - 1
      PROVE  /\ w[i].op # "reclaim"
             /\ w[i].op = "free" => /\ i < n - 1 /\ w[i + 1].op = "collect"
                                    /\ \A j \in 1..i - 1 : w[j].op = "dec"
             /\ w[i].op = "collect" => /\ \A j \in i + 1..n - 1 : w[j].op = "dec"
                                       /\ \A j \in 1..i - 1 : w[j].op \in {"dec", "free"}
             /\ w[i].op = "attributes" => /\ i = n - 1 /\ phase = "tables"
                                          /\ \A j \in 1..i - 1 : w[j].op = "dec"
             /\ w[i].op = "return" => /\ i = n - 1 /\ phase = "alive"
                                      /\ \A j \in 1..i - 1 : w[j].op = "dec"
                                      /\ w[i].key \in Live \intersect Pooled /\ builder = None
                                      /\ handles[w[i].key] < MaxHandles
                                      /\ \A c \in Key : Count(Dec(c), work) <= Count(c, Children[w[i].key])
  <2>1. w[i] = work[i + 1] /\ i + 1 \in 1..n
    BY <1>4
  <2>2. \A j \in 1..i - 1 : j \in 1..n - 1 /\ j + 1 \in 1..(i + 1) - 1
    BY <1>4
  <2>3. \A j \in i + 1..n - 1 : j \in 1..n - 1 /\ j + 1 \in (i + 1) + 1..n
    BY <1>4
  <2>4. w[i].op # "reclaim"
    BY <1>3, <1>4, <2>1, StackIs
  <2>5. ASSUME w[i].op = "free"
        PROVE  /\ i < n - 1 /\ w[i + 1].op = "collect" /\ \A j \in 1..i - 1 : w[j].op = "dec"
    <3>1. /\ i + 1 < n /\ work[(i + 1) + 1].op = "collect" /\ \A j \in 1..(i + 1) - 1 : work[j].op = "dec"
      BY <1>3, <2>1, <2>5, StackIs
    <3>2. i < n - 1 /\ i + 1 \in 1..n - 1
      BY <1>4, <3>1
    <3> QED
      BY <1>4, <2>2, <3>1, <3>2
  <2>6. ASSUME w[i].op = "collect"
        PROVE  /\ \A j \in i + 1..n - 1 : w[j].op = "dec"
               /\ \A j \in 1..i - 1 : w[j].op \in {"dec", "free"}
    <3>1. /\ \A j \in (i + 1) + 1..n : work[j].op = "dec"
          /\ \A j \in 1..(i + 1) - 1 : work[j].op \in {"dec", "free"}
      BY <1>3, <2>1, <2>6, StackIs
    <3> QED
      BY <1>4, <2>2, <2>3, <3>1
  <2>7. ASSUME w[i].op = "attributes"
        PROVE  i = n - 1 /\ phase = "tables" /\ \A j \in 1..i - 1 : w[j].op = "dec"
    <3>1. i + 1 = n /\ phase = "tables" /\ \A j \in 1..(i + 1) - 1 : work[j].op = "dec"
      BY <1>3, <2>1, <2>7, StackIs
    <3> QED
      BY <1>4, <2>2, <3>1
  <2>8. ASSUME w[i].op = "return"
        PROVE  /\ i = n - 1 /\ phase = "alive"
               /\ \A j \in 1..i - 1 : w[j].op = "dec"
               /\ w[i].key \in Live \intersect Pooled /\ builder = None
               /\ handles[w[i].key] < MaxHandles
               /\ \A c \in Key : Count(Dec(c), work) <= Count(c, Children[w[i].key])
    <3>1. /\ i + 1 = n /\ phase = "alive" /\ \A j \in 1..(i + 1) - 1 : work[j].op = "dec"
          /\ w[i].key \in Live \intersect Pooled /\ builder = None
          /\ handles[w[i].key] < MaxHandles
          /\ \A c \in Key : Count(Dec(c), work) <= Count(c, Children[w[i].key])
      BY <1>3, <2>1, <2>8, StackIs
    <3> QED
      BY <1>4, <2>2, <3>1
  <2> QED
    BY <2>4, <2>5, <2>6, <2>7, <2>8
<1>7. \A i \in 1..n - 1 : w[i].op = "return" =>
         \A c \in Key : Count(Dec(c), w) <= Count(c, Children[w[i].key])
  <2> SUFFICES ASSUME NEW i \in 1..n - 1, w[i].op = "return", NEW c \in Key
               PROVE  Count(Dec(c), w) <= Count(c, Children[w[i].key])
    OBVIOUS
  <2>1. Count(Dec(c), w) <= Count(Dec(c), work) /\ Count(Dec(c), work) <= Count(c, Children[w[i].key])
    BY <1>5, <1>6
  <2>2. Count(Dec(c), w) \in Nat /\ Count(Dec(c), work) \in Nat
    BY <1>1, CountIs
  <2>3. Count(c, Children[w[i].key]) \in Nat
    <3>1. w[i].key \in Key
      BY <1>6, NodeAssumption
    <3>2. Children[w[i].key] \in Seq(Key)
      BY <3>1, Terms
    <3> QED
      BY <3>2, CountIs
  <2> QED
    BY <2>1, <2>2, <2>3
<1>8. \A P : (\E i \in 1..n : work[i].op \in P) /\ "dec" \notin P => \E i \in 1..n - 1 : w[i].op \in P
  <2> SUFFICES ASSUME NEW P, "dec" \notin P, NEW i \in 1..n, work[i].op \in P
               PROVE  \E l \in 1..n - 1 : w[l].op \in P
    OBVIOUS
  <2>1. i # 1
    BY <1>1
  <2>2. i - 1 \in 1..n - 1 /\ i - 1 + 1 = i
    BY <1>4, <2>1
  <2>3. w[i - 1] = work[i]
    BY <1>4, <2>2
  <2> QED
    BY <2>2, <2>3
<1>9. inReclaim <=> \E i \in 1..n - 1 : w[i].op \in {"collect", "attributes"}
  <2>1. inReclaim => \E i \in 1..n - 1 : w[i].op \in {"collect", "attributes"}
    BY <1>3, <1>8, ReclaimingIs
  <2>2. (\E i \in 1..n - 1 : w[i].op \in {"collect", "attributes"}) => \E i \in 1..n : work[i].op \in {"collect", "attributes"}
    BY <1>4
  <2> QED
    BY <1>3, <2>1, <2>2, ReclaimingIs
<1>10. collecting # {} => \E i \in 1..n - 1 : w[i].op = "collect"
  <2>1. PICK P : P = {"collect"}
    OBVIOUS
  <2>2. collecting # {} => \E i \in 1..n : work[i].op \in P
    BY <1>3, <2>1, ReclaimingIs
  <2>3. "dec" \notin P
    BY <2>1
  <2>4. collecting # {} => \E i \in 1..n - 1 : w[i].op \in P
    BY <1>8, <2>2, <2>3
  <2> QED
    BY <2>1, <2>4
<1> QED
  BY <1>2, <1>4, <1>6, <1>7, <1>9, <1>10 DEF CallStack, OpAt, Above, Below

\* The stack of a collection that is to go on: only decrements come after it.
LEMMA CollectStack ==
    ASSUME NEW w, w = work', w \in Seq(Calls), Len(w) > 0, w[1].op = "collect",
           \A i \in 2..Len(w) : w[i].op = "dec", inReclaim'
    PROVE  CallStack' /\ Dying' = {} /\ Live' = allocated'
<1>1. DOMAIN w = 1..Len(w) /\ Len(w) \in Nat
  BY Ranges
<1>2. \A i \in 1..Len(w) : i = 1 \/ i \in 2..Len(w)
  BY <1>1
<1>3. \A i \in 1..Len(w) : /\ w[i].op \notin {"reclaim", "free", "attributes", "return"}
                           /\ w[i].op = "collect" => i = 1
  BY <1>2
<1>4. Dying' = {}
  BY <1>1, <1>3 DEF Dying
<1>5. CallStack'
  <2>1. \A i \in 1..Len(w) : w[i].op = "collect" =>
           (\A j \in i + 1..Len(w) : w[j].op = "dec") /\ \A j \in 1..i - 1 : w[j].op \in {"dec", "free"}
    BY <1>3
  <2>2. 1 \in 1..Len(w)
    BY <1>1
  <2> QED
    BY <1>3, <2>1, <2>2 DEF CallStack, OpAt, Above, Below
<1> QED
  BY <1>4, <1>5 DEF Live

\* With a node on its way out of the pool a decrement never gets to zero.
LEMMA ReturnKeeps ==
    ASSUME IInv, Running("dec"), NEW i \in 1..Len(work), work[i].op = "return", NEW k, k = Head(work).key
    PROVE  k \in Key /\ References(k) > 1
<1>1. /\ work \in Seq(Calls) /\ work # <<>> /\ Head(work) = work[1] /\ work[1].op = "dec" /\ k \in Key
      /\ 1 \in 1..Len(work) /\ work[1] \in Calls
  BY RunningIs
<1>2. Head(work) = Dec(k)
  BY <1>1, DecIs
<1>3. Count(Dec(k), work) > 0
  <2>1. Count(Dec(k), work) = Count(Dec(k), Tail(work)) + 1
    BY <1>1, <1>2, CountTail
  <2>2. Count(Dec(k), Tail(work)) \in Nat
    BY <1>1, HeadOff, CountIs
  <2> QED
    BY <2>1, <2>2
<1>4. PICK r : r = work[i].key
  OBVIOUS
<1>5. r \in Live /\ Count(Dec(k), work) <= Count(k, Children[r])
  BY <1>1, <1>4, StackIs
<1>6. Count(k, Children[r]) \in Nat /\ Count(k, Children[r]) <= Cardinality(ParentsIn(Live, k))
  <2>1. Live \in SUBSET Key
    BY DEF IInv, Typed, Live
  <2> QED
    BY <1>5, <2>1, ChildCounted
<1>7. References(k) = handles[k] + AttrRefs(attr, k) + BuilderRefs(builder, k)
                      + Cardinality(ParentsIn(Live, k)) + Count(Dec(k), work)
  BY ReferencesIs
<1>8. /\ Count(Dec(k), work) \in Nat /\ AttrRefs(attr, k) \in Nat /\ BuilderRefs(builder, k) \in Nat
      /\ Cardinality(ParentsIn(Live, k)) \in Nat /\ handles[k] \in Nat
  BY <1>1, ReferencesNat DEF IInv
<1>9. PICK p, c, q : p = Cardinality(ParentsIn(Live, k)) /\ c = Count(Dec(k), work) /\ q = Count(k, Children[r])
  OBVIOUS
<1>10. p \in Nat /\ c \in Nat /\ q \in Nat /\ c > 0 /\ c <= q /\ q <= p
  BY <1>3, <1>5, <1>6, <1>8, <1>9
<1>11. References(k) = handles[k] + AttrRefs(attr, k) + BuilderRefs(builder, k) + p + c
  BY <1>7, <1>9
<1> QED
  BY <1>1, <1>8, <1>10, <1>11

\* Another call is in the place of the one that is next.
HeadIs(w, c) ==
    /\ w \in Seq(Calls) /\ Len(w) = Len(work) /\ Len(work) \in Nat \ {0} /\ w[1] = c
    /\ \A i \in 2..Len(work) : w[i] = work[i]
    /\ \A j \in Key : Count(Dec(j), w) = Count(Dec(j), Tail(work)) /\ Count(Dec(j), w) \in Nat

LEMMA HeadSwapped ==
    ASSUME IInv, work # <<>>, NEW c \in Calls, c.op # "dec", NEW h, h = <<c>>, NEW t, t = Tail(work), NEW w, w = h \o t
    PROVE  HeadIs(w, c)
<1>1. /\ work \in Seq(Calls) /\ Len(work) \in Nat \ {0}
      /\ t \in Seq(Calls) /\ Len(t) = Len(work) - 1
      /\ \A i \in 1..Len(work) - 1 : t[i] = work[i + 1]
  <2>1. work \in Seq(Calls)
    BY DEF IInv, Typed
  <2> QED
    BY <2>1, HeadOff
<1>2. h \in Seq(Calls) /\ Len(h) = 1 /\ h[1] = c
  OBVIOUS
<1>3. /\ w \in Seq(Calls) /\ Len(w) = Len(h) + Len(t)
      /\ \A i \in 1..Len(h) + Len(t) : w[i] = IF i <= Len(h) THEN h[i] ELSE t[i - Len(h)]
  BY <1>1, <1>2, ConcatProperties
<1>4. PICK n : n = Len(work)
  OBVIOUS
<1>5. n \in Nat \ {0} /\ Len(t) = n - 1 /\ Len(w) = n
  BY <1>1, <1>2, <1>3, <1>4
<1>6. w[1] = c
  BY <1>2, <1>3, <1>5
<1>7. ASSUME NEW i \in 2..n
      PROVE  w[i] = work[i]
  <2>1. i \in 1..Len(h) + Len(t) /\ ~(i <= Len(h)) /\ i - Len(h) = i - 1
    BY <1>2, <1>5
  <2>2. w[i] = t[i - 1]
    BY <1>3, <2>1
  <2>3. i - 1 \in 1..Len(work) - 1 /\ (i - 1) + 1 = i
    BY <1>4, <1>5
  <2>4. t[i - 1] = work[(i - 1) + 1]
    BY <1>1, <2>3
  <2> QED
    BY <2>2, <2>3, <2>4
<1>8. \A j \in Key : Count(Dec(j), w) = Count(Dec(j), Tail(work)) /\ Count(Dec(j), w) \in Nat
  <2> TAKE j \in Key
  <2>1. Count(Dec(j), w) = Count(Dec(j), h) + Count(Dec(j), t)
    BY <1>1, <1>2, CountConcat
  <2>2. Count(Dec(j), h) = 0
    <3>1. c # Dec(j)
      BY DecIs
    <3>2. \A i \in 1..Len(h) : h[i] # Dec(j)
      BY <1>2, <3>1
    <3> QED
      BY <1>2, <3>2, CountZero
  <2>3. Count(Dec(j), t) \in Nat
    BY <1>1, CountIs
  <2> QED
    BY <2>1, <2>2, <2>3
<1> QED
  BY <1>1, <1>3, <1>4, <1>5, <1>6, <1>7, <1>8 DEF HeadIs

LEMMA DecToReclaimStack ==
    ASSUME IInv, Running("dec"), ~inReclaim, \A i \in 1..Len(work) : work[i].op # "return",
           NEW w, w = work', DecToReclaim(w), UNCHANGED <<inReclaim, collecting, allocated>>
    PROVE  /\ CallStack' /\ Dying' = {} /\ Dying = {} /\ Live' = Live /\ w \in Seq(Calls)
           /\ \A i \in 1..Len(w) : w[i].op \in {"dec", "free", "return"} => w[i].key \in Key
           /\ \A j \in Key : Count(Dec(j), w) = Count(Dec(j), Tail(work))
<1>1. /\ work \in Seq(Calls) /\ Len(work) \in Nat \ {0} /\ work[1].op = "dec"
      /\ Tail(work) \in Seq(Calls) /\ Len(Tail(work)) = Len(work) - 1
      /\ \A i \in 1..Len(work) - 1 : Tail(work)[i] = work[i + 1] /\ i + 1 \in 1..Len(work)
      /\ \A i \in 1..Len(work) : work[i].op \in {"dec", "free", "return"} => work[i].key \in Key
  BY RunningIs
<1>2. \A i \in 1..Len(work) : work[i].op = "dec"
  <2> SUFFICES ASSUME NEW i \in 1..Len(work)
               PROVE  work[i].op = "dec"
    OBVIOUS
  <2>1. work[i].op \notin {"collect", "attributes", "return"}
    BY ReclaimingIs
  <2>2. work[i].op # "free"
    <3>1. SUFFICES ASSUME work[i].op = "free"
                   PROVE  FALSE
      OBVIOUS
    <3>2. i + 1 \in 1..Len(work) /\ work[i + 1].op = "collect"
      <4>1. i < Len(work) /\ work[i + 1].op = "collect"
        BY <3>1, StackIs
      <4>2. PICK n : n = Len(work)
        OBVIOUS
      <4>3. n \in Nat /\ i \in 1..n /\ i < n
        BY <1>1, <4>1, <4>2
      <4> QED
        BY <4>1, <4>2, <4>3
    <3> QED
      BY <3>2, ReclaimingIs
  <2>3. work[i].op # "reclaim"
    BY <1>1, StackIs
  <2> QED
    BY <2>1, <2>2, <2>3, StackIs
<1>3. PICK c, h, t : c = Op("reclaim", None) /\ h = <<c>> /\ t = Tail(work)
  OBVIOUS
<1>4. c \in Calls /\ c.op = "reclaim"
  BY <1>3, OpIs DEF Ops
<1>5. HeadIs(w, c)
  <2>1. c.op # "dec" /\ work # <<>>
    BY <1>1, <1>4
  <2>2. w = h \o t
    BY <1>3 DEF DecToReclaim
  <2> QED
    BY <1>3, <1>4, <2>1, <2>2, HeadSwapped
<1>6. PICK n : n = Len(work)
  OBVIOUS
<1>7. n \in Nat \ {0} /\ w \in Seq(Calls) /\ Len(w) = n /\ w[1] = c /\ \A i \in 2..n : w[i] = work[i]
  BY <1>5, <1>6 DEF HeadIs
<1>8. \A i \in 1..n : i = 1 \/ i \in 2..n
  BY <1>7
<1>9. \A i \in 2..n : w[i].op = "dec" /\ w[i].key \in Key
  <2> TAKE i \in 2..n
  <2>1. i \in 1..Len(work) /\ w[i] = work[i]
    BY <1>6, <1>7
  <2> QED
    BY <1>1, <1>2, <2>1
<1>10. /\ w[1].op = "reclaim"
       /\ \A i \in 1..n : /\ w[i].op \notin {"collect", "free", "attributes", "return"}
                          /\ w[i].op = "reclaim" => i = 1
  BY <1>4, <1>7, <1>8, <1>9
<1>11. Dying = {} /\ Dying' = {}
  <2>1. Dying = {}
    BY <1>1, <1>2, DyingIs
  <2>2. DOMAIN w = 1..n
    BY <1>7, Ranges
  <2>3. Dying' = {}
    BY <1>10, <2>2 DEF Dying
  <2> QED
    BY <2>1, <2>3
<1>12. CallStack'
  <2>1. collecting = {}
    BY <1>2, ReclaimingIs
  <2>2. ~inReclaim' /\ collecting' = {}
    BY <2>1
  <2>3. \A i \in 1..n : w[i].op = "reclaim" => i = 1 /\ \A j \in i + 1..n : w[j].op = "dec"
    BY <1>9, <1>10
  <2> QED
    BY <1>7, <1>10, <2>2, <2>3 DEF CallStack, OpAt, Above, Below
<1>13. \A j \in Key : Count(Dec(j), w) = Count(Dec(j), Tail(work))
  BY <1>5 DEF HeadIs
<1>14. \A i \in 1..Len(w) : w[i].op \in {"dec", "free", "return"} => w[i].key \in Key
  BY <1>7, <1>8, <1>9, <1>10
<1> QED
  BY <1>7, <1>11, <1>12, <1>13, <1>14 DEF Live

\* A decrement takes one reference away, the one that it stood for.
LEMMA RunDecInv ==
    ASSUME IInv, RunDec
    PROVE  IInv'
<1>1. PICK k, n, w : /\ k = Head(work).key /\ w = work'
                     /\ n = IF rc[k] < MaxRC THEN rc[k] - 1 ELSE rc[k]
  OBVIOUS
<1>2. /\ Running("dec") /\ rc' = [rc EXCEPT ![k] = n]
      /\ zombies' = IF n = 0 THEN zombies \union {k} ELSE zombies
      /\ DecOff(w) \/ (n = 0 /\ ~inReclaim /\ DecToReclaim(w))
      /\ UNCHANGED <<allocated, pool, maxedOut, inReclaim, collecting, handles, attr, builder, ending, order>>
  BY <1>1 DEF RunDec, DecStep, DecOff, DecToReclaim, program, ending
<1>3. failed' = IF k \in allocated /\ rc[k] > 0 THEN failed ELSE failed \union {"dec after free"}
  BY <1>1 DEF RunDec, DecStep, Failing
<1>4. /\ work \in Seq(Calls) /\ work # <<>> /\ Len(work) \in Nat \ {0} /\ 1 \in 1..Len(work)
      /\ Head(work) = work[1] /\ work[1].op = "dec" /\ k \in Key /\ work[1] \in Calls
      /\ Tail(work) \in Seq(Calls) /\ Len(Tail(work)) = Len(work) - 1
      /\ \A i \in 1..Len(work) - 1 : Tail(work)[i] = work[i + 1] /\ i + 1 \in 1..Len(work)
      /\ \A i \in 1..Len(work) : work[i].op \in {"dec", "free", "return"} => work[i].key \in Key
  BY <1>1, <1>2, RunningIs
<1>5. Head(work) = Dec(k)
  BY <1>1, <1>4, DecIs
<1>6. \A j \in Key : /\ Count(Dec(j), work) = Count(Dec(j), Tail(work)) + (IF j = k THEN 1 ELSE 0)
                     /\ Count(Dec(j), Tail(work)) \in Nat
  <2> TAKE j \in Key
  <2>1. Count(Dec(j), work) = Count(Dec(j), Tail(work)) + IF Dec(j) = Head(work) THEN 1 ELSE 0
    BY <1>4, CountTail
  <2>2. Dec(j) = Head(work) <=> j = k
    BY <1>5, DecIs
  <2>3. Count(Dec(j), Tail(work)) \in Nat
    BY <1>4, CountIs
  <2> QED
    BY <2>1, <2>2, <2>3
<1>7. k \in Live /\ References(k) > 0
  <2>1. Count(Dec(k), work) > 0
    BY <1>4, <1>6
  <2> QED
    BY <1>4, <2>1, HandledLive
<1>8. /\ rc \in [Key -> 0..MaxRC] /\ MaxRC \in Nat \ {0, 1} /\ Live \subseteq Key /\ failed = {}
      /\ Live \subseteq allocated
  BY NodeAssumption DEF IInv, Typed, TypeOK, Live
<1>9. PICK r : r = rc[k]
  OBVIOUS
<1>10. /\ r \in 0..MaxRC /\ r > 0 /\ n \in 0..MaxRC /\ n = IF r < MaxRC THEN r - 1 ELSE r
       /\ k \in Pinned => r = MaxRC
       /\ k \notin Pinned => r < MaxRC /\ r = References(k)
  <2>1. r \in 0..MaxRC /\ n = IF r < MaxRC THEN r - 1 ELSE r
    BY <1>1, <1>4, <1>8, <1>9
  <2>2. /\ k \in Pinned => r = MaxRC
        /\ k \notin Pinned => r < MaxRC /\ r = References(k)
    BY <1>7, <1>9, ExactAt
  <2> QED
    BY <1>7, <1>8, <2>1, <2>2
<1>11. failed' = {}
  BY <1>3, <1>7, <1>8, <1>9, <1>10
<1>12. rc' \in [Key -> 0..MaxRC] /\ rc'[k] = n /\ \A j \in Key \ {k} : rc'[j] = rc[j]
  BY <1>2, <1>4, <1>8, <1>10
<1>13. RunFrame
  BY <1>2, <1>4 DEF RunFrame, IInv, Typed, TypeOK
<1>14. /\ Phased' /\ Ordered' /\ phase' # "sorting" /\ Pinned' = Pinned
  BY <1>13, RunPhased
<1>15. n = 0 => \A i \in 1..Len(work) : work[i].op # "return"
  <2> SUFFICES ASSUME n = 0, NEW i \in 1..Len(work), work[i].op = "return"
               PROVE  FALSE
    OBVIOUS
  <2>1. References(k) > 1
    BY <1>1, <1>2, ReturnKeeps
  <2>2. References(k) \in Nat
    BY <1>4, ReferencesNat DEF IInv
  <2> QED
    BY <1>8, <1>10, <2>1, <2>2
<1>16. /\ CallStack' /\ Dying' = Dying /\ Live' = Live /\ w \in Seq(Calls)
       /\ \A i \in 1..Len(w) : w[i].op \in {"dec", "free", "return"} => w[i].key \in Key
       /\ \A j \in Key : Count(Dec(j), w) = Count(Dec(j), Tail(work))
  <2>1. CASE DecOff(w)
    <3>1. w = Tail(work)
      BY <2>1 DEF DecOff
    <3>2. PICK m : m = Len(work)
      OBVIOUS
    <3>3. m \in Nat \ {0} /\ Len(w) = m - 1 /\ \A i \in 1..m - 1 : w[i] = work[i + 1] /\ i + 1 \in 1..m
      BY <1>4, <3>1, <3>2
    <3>4. DOMAIN work = 1..m /\ DOMAIN w = 1..m - 1
      BY <1>4, <3>1, <3>2, Ranges
    <3>5. \A i \in 1..m : work[i].op = "free" => i - 1 \in 1..m - 1 /\ w[i - 1] = work[i]
      <4> SUFFICES ASSUME NEW i \in 1..m, work[i].op = "free"
                   PROVE  i - 1 \in 1..m - 1 /\ w[i - 1] = work[i]
        OBVIOUS
      <4>1. i # 1
        BY <1>4
      <4>2. i - 1 \in 1..m - 1 /\ i - 1 + 1 = i
        BY <3>3, <4>1
      <4> QED
        BY <3>3, <4>2
    <3>6. Dying' = Dying
      <4>1. Dying' = {w[i].key : i \in {j \in 1..m - 1 : w[j].op = "free"}}
        BY <1>1, <3>4 DEF Dying
      <4>2. Dying = {work[i].key : i \in {j \in 1..m : work[j].op = "free"}}
        BY <3>4 DEF Dying
      <4>3. \A x : x \in Dying => x \in Dying'
        BY <3>5, <4>1, <4>2
      <4>4. \A x : x \in Dying' => x \in Dying
        BY <3>3, <4>1, <4>2
      <4> QED
        BY <4>3, <4>4
    <3>7. Live' = Live
      BY <1>2, <3>6 DEF Live
    <3>8. CallStack'
      BY <1>1, <1>2, <1>13, <2>1, <3>7, DecOffStack
    <3>9. \A i \in 1..Len(w) : w[i].op \in {"dec", "free", "return"} => w[i].key \in Key
      BY <1>4, <3>2, <3>3
    <3> QED
      BY <1>4, <3>1, <3>6, <3>7, <3>8, <3>9
  <2>2. CASE n = 0 /\ ~inReclaim /\ DecToReclaim(w)
    BY <1>1, <1>2, <1>15, <2>2, DecToReclaimStack
  <2> QED
    BY <1>2, <2>1, <2>2
<1>17. Typed'
  <2>1. zombies' \subseteq Key /\ pool' \subseteq Pooled /\ collecting' \subseteq Key /\ inReclaim' \in BOOLEAN
        /\ allocated' \subseteq Key
    BY <1>2, <1>4 DEF IInv, Typed, TypeOK
  <2> QED
    BY <1>1, <1>11, <1>12, <1>13, <1>16, <2>1, RunTyped
<1>18. \A j \in Key : References(j) = References(j)' + (IF j = k THEN 1 ELSE 0) /\ References(j)' \in Nat
  <2> TAKE j \in Key
  <2>1. References(j)' = handles[j] + AttrRefs(attr, j) + BuilderRefs(builder, j)
                         + Cardinality(ParentsIn(Live, j)) + Count(Dec(j), w)
    BY <1>1, <1>2, <1>16, ReferencesNext
  <2>2. References(j) = handles[j] + AttrRefs(attr, j) + BuilderRefs(builder, j)
                         + Cardinality(ParentsIn(Live, j)) + Count(Dec(j), work)
    BY ReferencesIs
  <2>3. /\ AttrRefs(attr, j) \in Nat /\ BuilderRefs(builder, j) \in Nat
        /\ Cardinality(ParentsIn(Live, j)) \in Nat /\ handles[j] \in Nat
    BY ReferencesNat DEF IInv
  <2>4. /\ Count(Dec(j), work) = Count(Dec(j), Tail(work)) + (IF j = k THEN 1 ELSE 0)
        /\ Count(Dec(j), Tail(work)) \in Nat
        /\ Count(Dec(j), w) = Count(Dec(j), Tail(work))
    BY <1>6, <1>16
  <2>5. PICK c, d : c = Count(Dec(j), w) /\ d = Count(Dec(j), work)
    OBVIOUS
  <2>6. c \in Nat /\ d = c + (IF j = k THEN 1 ELSE 0)
    BY <2>4, <2>5
  <2>7. /\ References(j)' = handles[j] + AttrRefs(attr, j) + BuilderRefs(builder, j)
                         + Cardinality(ParentsIn(Live, j)) + c
        /\ References(j) = handles[j] + AttrRefs(attr, j) + BuilderRefs(builder, j)
                         + Cardinality(ParentsIn(Live, j)) + d
    BY <2>1, <2>2, <2>5
  <2> QED
    BY <2>3, <2>6, <2>7
<1>19. \A j \in Key \ {k} : References(j)' = References(j)
  BY <1>18
<1>20. Exact'
  <2> SUFFICES ASSUME NEW j \in Live
               PROVE  IF j \in Pinned THEN rc'[j] = MaxRC ELSE rc'[j] < MaxRC /\ rc'[j] = References(j)'
    BY <1>14, <1>16 DEF Exact
  <2>1. CASE j = k
    <3>1. References(k) = References(k)' + 1 /\ References(k)' \in Nat
      BY <1>4, <1>18
    <3>2. PICK p, q : p = References(k)' /\ q = References(k)
      OBVIOUS
    <3>3. q = p + 1 /\ p \in Nat
      BY <3>1, <3>2
    <3>4. IF k \in Pinned THEN n = MaxRC ELSE n < MaxRC /\ n = p
      BY <1>8, <1>10, <3>2, <3>3
    <3> QED
      BY <1>12, <2>1, <3>2, <3>4
  <2>2. CASE j # k
    <3>1. rc'[j] = rc[j] /\ References(j)' = References(j)
      BY <1>8, <1>12, <1>19, <2>2
    <3> QED
      BY <3>1, ExactAt
  <2> QED
    BY <2>1, <2>2
<1>21. NoneLeft'
  <2> SUFFICES ASSUME NEW j \in Key \ Live
               PROVE  References(j)' = 0 /\ (j \in Dying => rc'[j] = 0)
    BY <1>16 DEF NoneLeft
  <2>1. j # k
    BY <1>7
  <2>2. References(j)' = References(j) /\ rc'[j] = rc[j]
    BY <1>12, <1>19, <2>1
  <2> QED
    BY <2>2 DEF IInv, NoneLeft
<1>22. Placed'
  <2>1. /\ zombies \union collecting \union Pinned \subseteq Live
        /\ zombies \intersect collecting = {}
        /\ \A j \in collecting : rc[j] = 0
        /\ \A j \in Live : rc[j] = 0 => j \in zombies \union collecting
        /\ pool = Live \intersect Pooled
    BY DEF IInv, Placed
  <2>2. k \notin collecting
    BY <1>9, <1>10, <2>1
  <2>3. \A j \in Live : rc'[j] = 0 => j \in zombies' \union collecting
    <3> SUFFICES ASSUME NEW j \in Live, rc'[j] = 0
                 PROVE  j \in zombies' \union collecting
      OBVIOUS
    <3>1. CASE j = k
      BY <1>2, <1>12, <3>1
    <3>2. CASE j # k
      BY <1>2, <1>8, <1>12, <2>1, <3>2
    <3> QED
      BY <3>1, <3>2
  <2>4. \A j \in collecting : rc'[j] = 0
    BY <1>8, <1>12, <2>1, <2>2
  <2>5. zombies' \subseteq Live /\ zombies' \intersect collecting = {}
    BY <1>2, <1>7, <2>1, <2>2
  <2> QED
    BY <1>2, <1>14, <1>16, <2>1, <2>3, <2>4, <2>5 DEF Placed
<1> QED
  BY <1>14, <1>16, <1>17, <1>20, <1>21, <1>22, Gather

\* A call that is not a decrement is over: the references are what they were.
LEMMA ReferencesKept ==
    ASSUME IInv, work # <<>>, Head(work).op # "dec", Live' = Live, UNCHANGED <<handles, attr, builder>>,
           NEW w, w = work', \A j \in Key : Count(Dec(j), w) = Count(Dec(j), Tail(work))
    PROVE  \A j \in Key : References(j)' = References(j)
<1> TAKE j \in Key
<1>1. work \in Seq(Calls)
  BY DEF IInv, Typed
<1>2. Count(Dec(j), work) = Count(Dec(j), w)
  <2>1. Count(Dec(j), work) = Count(Dec(j), Tail(work)) + IF Dec(j) = Head(work) THEN 1 ELSE 0
    BY <1>1, CountTail
  <2>2. Dec(j) # Head(work)
    BY DecIs
  <2>3. Count(Dec(j), Tail(work)) \in Nat
    BY <1>1, HeadOff, CountIs
  <2> QED
    BY <2>1, <2>2, <2>3
<1>3. References(j)' = handles[j] + AttrRefs(attr, j) + BuilderRefs(builder, j)
                       + Cardinality(ParentsIn(Live, j)) + Count(Dec(j), w)
  BY ReferencesNext
<1>4. References(j) = handles[j] + AttrRefs(attr, j) + BuilderRefs(builder, j)
                       + Cardinality(ParentsIn(Live, j)) + Count(Dec(j), work)
  BY ReferencesIs
<1> QED
  BY <1>2, <1>3, <1>4

LEMMA RunReclaimInv ==
    ASSUME IInv, RunReclaim
    PROVE  IInv'
<1>1. PICK c, h, t, w : c = Op("collect", None) /\ h = <<c>> /\ t = Tail(work) /\ w = h \o t
  OBVIOUS
<1>2. /\ Running("reclaim") /\ work' = w /\ zombies' = {} /\ inReclaim' = TRUE
      /\ collecting' = {k \in zombies : rc[k] = 0}
      /\ failed' = IF ~inReclaim THEN failed ELSE failed \union {"not re-entrant"}
      /\ UNCHANGED <<rc, allocated, pool, maxedOut, handles, attr, builder, ending, order>>
  BY <1>1 DEF RunReclaim, ReclaimStep, program, ending, Failing
<1>3. /\ work \in Seq(Calls) /\ work # <<>> /\ Len(work) \in Nat \ {0} /\ 1 \in 1..Len(work)
      /\ Head(work) = work[1] /\ work[1].op = "reclaim"
  BY <1>2, RunningIs
<1>4. ~inReclaim /\ \A j \in 2..Len(work) : work[j].op = "dec" /\ work[j].key \in Key
  <2>1. /\ ~inReclaim /\ \A j \in 1 + 1..Len(work) : work[j].op = "dec"
    BY <1>3, StackIs
  <2>2. \A i \in 1..Len(work) : work[i].op \in {"dec", "free", "return"} => work[i].key \in Key
    <3>1. Running("reclaim")
      BY <1>2
    <3> QED
      BY <3>1, RunningIs
  <2>3. \A i \in 2..Len(work) : i \in 1..Len(work)
    BY <1>3
  <2> QED
    BY <2>1, <2>2, <2>3
<1>5. c \in Calls /\ c.op = "collect"
  BY <1>1, OpIs DEF Ops
<1>6. /\ w \in Seq(Calls) /\ Len(w) = Len(work) /\ w[1] = c
      /\ \A i \in 2..Len(work) : w[i] = work[i]
      /\ \A j \in Key : Count(Dec(j), w) = Count(Dec(j), Tail(work))
  <2>1. HeadIs(w, c)
    <3>1. c.op # "dec"
      BY <1>5
    <3> QED
      BY <1>1, <1>3, <1>5, <3>1, HeadSwapped
  <2> QED
    BY <2>1 DEF HeadIs
<1>7. collecting = {} /\ Dying = {} /\ Live = allocated
  <2>1. collecting = {}
    BY <1>4, ReclaimingIs
  <2>2. \A i \in 1..Len(work) : i = 1 \/ i \in 2..Len(work)
    BY <1>3
  <2>3. \A i \in 1..Len(work) : work[i].op # "free"
    BY <1>3, <1>4, <2>2
  <2>4. Dying = {}
    BY <1>3, <2>3, DyingIs
  <2> QED
    BY <2>1, <2>4 DEF Live
<1>8. CallStack' /\ Dying' = {} /\ Live' = allocated'
  <2>1. \A i \in 2..Len(w) : w[i].op = "dec"
    BY <1>4, <1>6
  <2>2. Len(w) > 0 /\ w[1].op = "collect" /\ inReclaim'
    <3>1. Len(w) > 0 /\ w[1].op = "collect"
      BY <1>3, <1>5, <1>6
    <3>2. inReclaim'
      BY <1>2, Zenon
    <3> QED
      BY <3>1, <3>2
  <2> QED
    BY <1>2, <1>6, <2>1, <2>2, CollectStack
<1>9. RunFrame
  BY <1>2, <1>3 DEF RunFrame, IInv, Typed, TypeOK
<1>10. /\ Phased' /\ Ordered' /\ phase' # "sorting" /\ Pinned' = Pinned
  BY <1>9, RunPhased
<1>11. failed' = {} /\ rc' \in [Key -> 0..MaxRC] /\ pool' \subseteq Pooled /\ zombies' \subseteq Key
       /\ collecting' \subseteq Key /\ allocated' \subseteq Key
  <2>1. failed = {} /\ rc \in [Key -> 0..MaxRC] /\ pool \subseteq Pooled /\ zombies \subseteq Key /\ allocated \subseteq Key
    BY DEF IInv, Typed, TypeOK
  <2> QED
    BY <1>2, <1>4, <2>1
<1>12. Typed'
  <2>1. \A i \in 1..Len(w) : w[i].op \in {"dec", "free", "return"} => w[i].key \in Key
    <3>1. \A i \in 1..Len(w) : i = 1 \/ i \in 2..Len(work)
      BY <1>3, <1>6
    <3> QED
      BY <1>4, <1>5, <1>6, <3>1
  <2>2. inReclaim' \in BOOLEAN
    BY <1>2
  <2> QED
    BY <1>2, <1>6, <1>9, <1>11, <2>1, <2>2, RunTyped
<1>13. Live' = Live
  BY <1>2, <1>7, <1>8
<1>14. \A j \in Key : References(j)' = References(j)
  <2>1. Head(work).op # "dec"
    BY <1>3
  <2> QED
    BY <1>2, <1>3, <1>6, <1>13, <2>1, ReferencesKept
<1>15. Exact' /\ NoneLeft'
  <2>1. rc' = rc /\ Dying' \subseteq Dying
    BY <1>2, <1>8
  <2> QED
    BY <1>10, <1>13, <1>14, <2>1, ExactKept
<1>16. Placed'
  <2>1. /\ zombies \union Pinned \subseteq Live
        /\ \A j \in Live : rc[j] = 0 => j \in zombies
        /\ pool = Live \intersect Pooled
    BY <1>7 DEF IInv, Placed
  <2> QED
    BY <1>2, <1>10, <1>13, <2>1 DEF Placed
<1> QED
  BY <1>8, <1>10, <1>12, <1>15, <1>16, Gather

LEMMA RunCollectedInv ==
    ASSUME IInv, RunCollected
    PROVE  IInv'
<1>1. PICK w : w = Tail(work)
  OBVIOUS
<1>2. /\ Running("collect") /\ collecting = {} /\ inReclaim' = FALSE /\ work' = w
      /\ UNCHANGED <<rc, allocated, pool, zombies, maxedOut, collecting, handles, attr, builder, ending, order, failed>>
  BY <1>1 DEF RunCollected, program, ending
<1>3. /\ work \in Seq(Calls) /\ work # <<>> /\ Len(work) \in Nat \ {0} /\ 1 \in 1..Len(work)
      /\ Head(work) = work[1] /\ work[1].op = "collect"
      /\ w \in Seq(Calls) /\ Len(w) = Len(work) - 1
      /\ \A i \in 1..Len(work) - 1 : w[i] = work[i + 1] /\ i + 1 \in 1..Len(work)
      /\ \A i \in 1..Len(work) : work[i].op \in {"dec", "free", "return"} => work[i].key \in Key
  BY <1>1, <1>2, RunningIs
<1>4. \A j \in 1 + 1..Len(work) : work[j].op = "dec"
  BY <1>3, StackIs
<1>5. PICK n : n = Len(work)
  OBVIOUS
<1>6. n \in Nat \ {0} /\ Len(w) = n - 1 /\ \A i \in 1..n - 1 : w[i] = work[i + 1] /\ i + 1 \in 1 + 1..n /\ i + 1 \in 1..n
  BY <1>3, <1>5
<1>7. Decs(w)
  <2>1. \A i \in 1..Len(w) : w[i].op = "dec" /\ w[i].key \in Key
    BY <1>3, <1>4, <1>5, <1>6
  <2> QED
    BY <1>3, <2>1 DEF Decs
<1>8. CallStack' /\ Dying' = {} /\ Live' = allocated'
  BY <1>2, <1>7, DecsCallStackNext
<1>9. Dying = {}
  <2>1. \A i \in 1..n : i = 1 \/ i \in 1 + 1..n
    BY <1>6
  <2>2. \A i \in 1..Len(work) : work[i].op # "free"
    BY <1>3, <1>4, <1>5, <2>1
  <2> QED
    BY <1>3, <2>2, DyingIs
<1>10. Live' = Live
  BY <1>2, <1>8, <1>9 DEF Live
<1>11. RunFrame
  BY <1>2, <1>3 DEF RunFrame, IInv, Typed, TypeOK
<1>12. /\ Phased' /\ Ordered' /\ phase' # "sorting" /\ Pinned' = Pinned
  BY <1>11, RunPhased
<1>13. Typed'
  <2>1. /\ failed = {} /\ rc \in [Key -> 0..MaxRC] /\ pool \subseteq Pooled /\ zombies \subseteq Key
        /\ allocated \subseteq Key /\ collecting \subseteq Key
    BY DEF IInv, Typed, TypeOK
  <2>2. \A i \in 1..Len(w) : w[i].op \in {"dec", "free", "return"} => w[i].key \in Key
    BY <1>7 DEF Decs
  <2>3. inReclaim' \in BOOLEAN
    BY <1>2
  <2> QED
    BY <1>2, <1>3, <1>11, <2>1, <2>2, <2>3, RunTyped
<1>14. \A j \in Key : References(j)' = References(j)
  <2>1. Head(work).op # "dec"
    BY <1>3
  <2> QED
    BY <1>1, <1>2, <1>3, <1>10, <2>1, ReferencesKept
<1>15. Exact' /\ NoneLeft' /\ Placed'
  <2>1. Dying' \subseteq Dying
    BY <1>8
  <2> QED
    BY <1>2, <1>10, <1>14, <2>1, BalanceKept
<1> QED
  BY <1>8, <1>12, <1>13, <1>15, Gather

LEMMA RunAttributesDeletedInv ==
    ASSUME IInv, RunAttributesDeleted
    PROVE  IInv'
<1>1. PICK w : w = Tail(work)
  OBVIOUS
<1>2. /\ Running("attributes") /\ inReclaim' = FALSE /\ work' = w
      /\ UNCHANGED <<rc, allocated, pool, zombies, maxedOut, collecting, handles, attr, builder, ending, order, failed>>
  BY <1>1 DEF RunAttributesDeleted, program, ending
<1>3. /\ work \in Seq(Calls) /\ work # <<>> /\ Len(work) \in Nat \ {0} /\ 1 \in 1..Len(work)
      /\ Head(work) = work[1] /\ work[1].op = "attributes"
      /\ w \in Seq(Calls) /\ Len(w) = Len(work) - 1
  BY <1>1, <1>2, RunningIs
<1>4. 1 = Len(work)
  BY <1>3, StackIs
<1>5. Decs(w)
  BY <1>3, <1>4 DEF Decs
<1>6. \A i \in 1..Len(work) : work[i].op = "attributes"
  BY <1>3, <1>4
<1>7. collecting = {} /\ Dying = {}
  BY <1>3, <1>6, ReclaimingIs, DyingIs
<1>8. CallStack' /\ Dying' = {} /\ Live' = allocated'
  BY <1>2, <1>5, <1>7, DecsCallStackNext
<1>9. Live' = Live
  BY <1>2, <1>7, <1>8 DEF Live
<1>10. RunFrame
  BY <1>2, <1>3 DEF RunFrame, IInv, Typed, TypeOK
<1>11. /\ Phased' /\ Ordered' /\ phase' # "sorting" /\ Pinned' = Pinned
  BY <1>10, RunPhased
<1>12. Typed'
  <2>1. /\ failed = {} /\ rc \in [Key -> 0..MaxRC] /\ pool \subseteq Pooled /\ zombies \subseteq Key
        /\ allocated \subseteq Key /\ collecting \subseteq Key
    BY DEF IInv, Typed, TypeOK
  <2>2. \A i \in 1..Len(w) : w[i].op \in {"dec", "free", "return"} => w[i].key \in Key
    BY <1>5 DEF Decs
  <2>3. inReclaim' \in BOOLEAN
    BY <1>2
  <2> QED
    BY <1>2, <1>3, <1>10, <2>1, <2>2, <2>3, RunTyped
<1>13. \A j \in Key : References(j)' = References(j)
  <2>1. Head(work).op # "dec"
    BY <1>3
  <2> QED
    BY <1>1, <1>2, <1>3, <1>9, <2>1, ReferencesKept
<1>14. Exact' /\ NoneLeft' /\ Placed'
  <2>1. Dying' \subseteq Dying
    BY <1>8
  <2> QED
    BY <1>2, <1>9, <1>13, <2>1, BalanceKept
<1> QED
  BY <1>8, <1>11, <1>12, <1>14, Gather

\* A node that is freed has no references and no count.
LEMMA RunFreeInv ==
    ASSUME IInv, RunFree
    PROVE  IInv'
<1>1. PICK k, w : k = Head(work).key /\ w = Tail(work)
  OBVIOUS
<1>2. /\ Running("free") /\ allocated' = allocated \ {k} /\ work' = w
      /\ failed' = IF rc[k] = 0 THEN failed ELSE failed \union {"inc under deletion"}
      /\ UNCHANGED <<rc, pool, zombies, maxedOut, inReclaim, collecting, handles, attr, builder, ending, order>>
  BY <1>1 DEF RunFree, program, ending, Failing
<1>3. /\ work \in Seq(Calls) /\ work # <<>> /\ Len(work) \in Nat \ {0} /\ 1 \in 1..Len(work)
      /\ Head(work) = work[1] /\ work[1].op = "free" /\ k \in Key /\ k = work[1].key
      /\ w \in Seq(Calls) /\ Len(w) = Len(work) - 1
      /\ \A i \in 1..Len(work) - 1 : w[i] = work[i + 1] /\ i + 1 \in 1..Len(work)
      /\ \A i \in 1..Len(work) : work[i].op \in {"dec", "free", "return"} => work[i].key \in Key
  <2>1. Running("free")
    BY <1>2
  <2> QED
    BY <1>1, <2>1, RunningIs
<1>4. PICK n : n = Len(work)
  OBVIOUS
<1>5. 1 < n /\ work[1 + 1].op = "collect"
  BY <1>3, <1>4, StackIs
<1>6. n \in Nat /\ 2 \in 1..n /\ work[2].op = "collect" /\ \A j \in 3..n : work[j].op = "dec"
  <2>1. n \in Nat /\ 2 \in 1..n /\ work[2].op = "collect"
    BY <1>3, <1>4, <1>5
  <2>2. \A j \in 2 + 1..n : work[j].op = "dec"
    BY <1>4, <2>1, StackIs
  <2> QED
    BY <2>1, <2>2
<1>7. /\ Len(w) = n - 1 /\ 1 \in 1..n - 1 /\ w[1] = work[1 + 1]
      /\ \A i \in 1..n - 1 : w[i] = work[i + 1] /\ i + 1 \in 1..n
      /\ \A i \in 2..n - 1 : i \in 1..n - 1 /\ i + 1 \in 3..n
  BY <1>3, <1>4, <1>6
<1>8. inReclaim
  BY <1>4, <1>6, ReclaimingIs
<1>9. CallStack' /\ Dying' = {} /\ Live' = allocated'
  <2>1. \A i \in 2..Len(w) : w[i].op = "dec"
    BY <1>6, <1>7
  <2>2. Len(w) > 0 /\ w[1].op = "collect" /\ inReclaim'
    <3>1. Len(w) > 0 /\ w[1].op = "collect"
      BY <1>5, <1>6, <1>7
    <3>2. inReclaim'
      BY <1>2, <1>8, Zenon
    <3> QED
      BY <3>1, <3>2
  <2> QED
    BY <1>2, <1>3, <2>1, <2>2, CollectStack
<1>10. \A x : x \in Dying <=> x = k
  <2>1. \A i \in 1..n : i = 1 \/ i = 2 \/ i \in 3..n
    BY <1>6
  <2>2. \A i \in 1..n : work[i].op = "free" <=> i = 1
    BY <1>3, <1>6, <2>1
  <2> QED
    BY <1>3, <1>4, <2>2, DyingIs
<1>11. Live' = Live /\ k \notin Live
  BY <1>2, <1>9, <1>10 DEF Live
<1>12. rc[k] = 0
  BY <1>3, <1>10, <1>11 DEF IInv, NoneLeft
<1>13. RunFrame
  BY <1>2, <1>3 DEF RunFrame, IInv, Typed, TypeOK
<1>14. /\ Phased' /\ Ordered' /\ phase' # "sorting" /\ Pinned' = Pinned
  BY <1>13, RunPhased
<1>15. Typed'
  <2>1. /\ failed = {} /\ rc \in [Key -> 0..MaxRC] /\ pool \subseteq Pooled /\ zombies \subseteq Key
        /\ allocated \subseteq Key /\ collecting \subseteq Key /\ inReclaim \in BOOLEAN
    BY DEF IInv, Typed, TypeOK
  <2>2. \A i \in 1..Len(w) : w[i].op \in {"dec", "free", "return"} => w[i].key \in Key
    BY <1>3, <1>4, <1>7
  <2>3. failed' = {} /\ allocated' \subseteq Key
    BY <1>2, <1>12, <2>1
  <2> QED
    BY <1>2, <1>3, <1>13, <2>1, <2>2, <2>3, RunTyped
<1>16. \A j \in Key : References(j)' = References(j)
  <2>1. Head(work).op # "dec"
    BY <1>3
  <2> QED
    BY <1>1, <1>2, <1>3, <1>11, <2>1, ReferencesKept
<1>17. Exact' /\ NoneLeft' /\ Placed'
  <2>1. Dying' \subseteq Dying
    BY <1>9
  <2> QED
    BY <1>2, <1>11, <1>16, <2>1, BalanceKept
<1> QED
  BY <1>9, <1>14, <1>15, <1>17, Gather

-----------------------------------------------------------------------------
(* A node of a collection.                                                 *)

\* What the node holds: the value of its attribute, and its children.
Holds(k, keys) ==
    keys \in Seq(Key) /\
    \A j \in Key : Count(j, keys) = (IF attr[k] = j THEN 1 ELSE 0) + Count(j, Children[k])

LEMMA HoldsIs ==
    ASSUME IInv, NEW k \in Key, NEW v, v = (IF attr[k] = None THEN <<>> ELSE <<attr[k]>>),
           NEW keys, keys = v \o Children[k]
    PROVE  Holds(k, keys)
<1>1. attr[k] \in Key \union {None} /\ Children[k] \in Seq(Key) /\ None \notin Key
  BY Terms DEF IInv, Typed, TypeOK
<1>2. v \in Seq(Key) /\ \A j \in Key : Count(j, v) = IF attr[k] = j THEN 1 ELSE 0
  <2>1. CASE attr[k] = None
    <3>1. v = <<>>
      BY <2>1
    <3>2. \A j \in Key : Count(j, v) = 0 /\ attr[k] # j
      BY <1>1, <2>1, <3>1, CountEmpty
    <3>3. v \in Seq(Key)
      BY <3>1, EmptySeq
    <3> QED
      BY <3>2, <3>3
  <2>2. CASE attr[k] # None
    <3>1. PICK a : a = attr[k]
      OBVIOUS
    <3>2. a \in Key /\ v = <<a>>
      BY <1>1, <2>2, <3>1
    <3>3. v \in Seq(Key) /\ \A j \in Key : Count(j, v) = IF j = a THEN 1 ELSE 0
      BY <3>2, CountOne
    <3> QED
      BY <3>1, <3>3
  <2> QED
    BY <2>1, <2>2
<1>3. keys \in Seq(Key)
  BY <1>1, <1>2, ConcatProperties
<1>4. \A j \in Key : Count(j, keys) = Count(j, v) + Count(j, Children[k])
  BY <1>1, <1>2, CountConcat
<1> QED
  BY <1>2, <1>3, <1>4 DEF Holds

\* The decrements, the free, and the collection that goes on.
CollectWork(w, k, keys) ==
    /\ w \in Seq(Calls) /\ Len(keys) \in Nat /\ Len(work) \in Nat \ {0} /\ Len(w) = Len(keys) + 1 + Len(work)
    /\ \A i \in 1..Len(keys) : w[i].op = "dec" /\ w[i].key \in Key
    /\ w[Len(keys) + 1].op = "free" /\ w[Len(keys) + 1].key = k
    /\ \A i \in 1..Len(work) : w[Len(keys) + 1 + i] = work[i]
    /\ \A j \in Key : /\ Count(Dec(j), w) = Count(j, keys) + Count(Dec(j), work)
                      /\ Count(j, keys) \in Nat

LEMMA CollectWorkIs ==
    ASSUME IInv, Running("collect"), NEW k \in Key, NEW keys, NEW call \in Calls, call.op = "free", call.key = k,
           NEW u, DecsThen(u, keys, call), NEW wk, wk = work, NEW w, w = u \o wk
    PROVE  CollectWork(w, k, keys)
<1>1. /\ u \in Seq(Calls) /\ Len(keys) \in Nat /\ Len(u) = Len(keys) + 1
      /\ \A i \in 1..Len(keys) : u[i].op = "dec" /\ u[i].key \in Key
      /\ u[Len(keys) + 1] = call
      /\ \A j \in Key : Count(Dec(j), u) = Count(j, keys) /\ Count(j, keys) \in Nat
  BY DEF DecsThen
<1>2. work \in Seq(Calls) /\ Len(work) \in Nat \ {0}
  BY RunningIs
<1>3. PICK n, m : n = Len(keys) /\ m = Len(wk)
  OBVIOUS
<1>4. wk \in Seq(Calls) /\ Len(wk) = m /\ w = u \o wk /\ n \in Nat /\ m \in Nat \ {0} /\ Len(u) = n + 1
  BY <1>1, <1>2, <1>3
<1>5. /\ w \in Seq(Calls) /\ Len(w) = n + 1 + m
      /\ \A i \in 1..n + 1 + m : w[i] = IF i <= n + 1 THEN u[i] ELSE wk[i - (n + 1)]
  <2>1. /\ w \in Seq(Calls) /\ Len(w) = Len(u) + Len(wk)
        /\ \A i \in 1..Len(u) + Len(wk) : w[i] = IF i <= Len(u) THEN u[i] ELSE wk[i - Len(u)]
    <3>1. u \in Seq(Calls) /\ wk \in Seq(Calls) /\ w = u \o wk
      BY <1>1, <1>4
    <3> QED
      BY <3>1, ConcatProperties
  <2>2. PICK p, q : p = Len(u) /\ q = Len(wk)
    OBVIOUS
  <2>3. p = n + 1 /\ q = m /\ n \in Nat /\ m \in Nat
    BY <1>4, <2>2
  <2>4. /\ Len(w) = p + q
        /\ \A i \in 1..p + q : w[i] = IF i <= p THEN u[i] ELSE wk[i - p]
    BY <2>1, <2>2
  <2> QED
    BY <2>1, <2>3, <2>4
<1>6. \A i \in 1..n + 1 : w[i] = u[i]
  BY <1>4, <1>5
<1>7. \A i \in 1..m : w[n + 1 + i] = work[i]
  <2> TAKE i \in 1..m
  <2>1. PICK q : q = n + 1 + i
    OBVIOUS
  <2>2. q \in 1..n + 1 + m /\ ~(q <= n + 1) /\ q - (n + 1) = i
    BY <1>4, <2>1
  <2>3. w[q] = IF q <= n + 1 THEN u[q] ELSE wk[q - (n + 1)]
    BY <1>5, <2>2
  <2>4. w[q] = wk[i]
    BY <2>2, <2>3
  <2> QED
    BY <2>1, <2>4
<1>8. /\ \A i \in 1..n : w[i].op = "dec" /\ w[i].key \in Key
      /\ w[n + 1].op = "free" /\ w[n + 1].key = k
  <2>1. n + 1 \in 1..n + 1 /\ \A i \in 1..n : i \in 1..n + 1
    BY <1>4
  <2> QED
    BY <1>1, <1>3, <1>6, <2>1
<1>9. \A j \in Key : Count(Dec(j), w) = Count(j, keys) + Count(Dec(j), work) /\ Count(j, keys) \in Nat
  <2> TAKE j \in Key
  <2>1. Count(Dec(j), w) = Count(Dec(j), u) + Count(Dec(j), wk)
    BY <1>1, <1>4, CountConcat
  <2> QED
    BY <1>1, <1>3, <2>1
<1> QED
  BY <1>3, <1>4, <1>5, <1>7, <1>8, <1>9 DEF CollectWork

LEMMA CollectStackNext ==
    ASSUME IInv, Running("collect"), NEW k \in Key, NEW keys, NEW w, w = work', CollectWork(w, k, keys),
           inReclaim' = inReclaim
    PROVE  /\ CallStack' /\ \A x : x \in Dying' <=> x = k
           /\ \A i \in 1..Len(w) : w[i].op \in {"dec", "free", "return"} => w[i].key \in Key
           /\ Dying = {} /\ Live = allocated
<1>1. PICK n, m : n = Len(keys) /\ m = Len(work)
  OBVIOUS
<1>2. /\ w \in Seq(Calls) /\ n \in Nat /\ m \in Nat \ {0} /\ Len(w) = n + 1 + m
      /\ \A i \in 1..n : w[i].op = "dec" /\ w[i].key \in Key
      /\ w[n + 1].op = "free" /\ w[n + 1].key = k
      /\ \A i \in 1..m : w[n + 1 + i] = work[i]
  BY <1>1 DEF CollectWork
<1>3. /\ work \in Seq(Calls) /\ work[1].op = "collect" /\ 1 \in 1..m
      /\ \A i \in 1..m : work[i].op \in {"dec", "free", "return"} => work[i].key \in Key
  BY <1>1, RunningIs
<1>4. \A j \in 2..m : work[j].op = "dec"
  <2>1. \A j \in 1 + 1..m : work[j].op = "dec"
    BY <1>1, <1>3, StackIs
  <2> QED
    BY <2>1
<1>5. w[n + 2].op = "collect"
  <2>1. w[n + 1 + 1] = work[1] /\ n + 1 + 1 = n + 2
    BY <1>2, <1>3
  <2> QED
    BY <1>3, <2>1
<1>6. \A i \in n + 3..n + 1 + m : w[i].op = "dec" /\ w[i].key \in Key
  <2> TAKE i \in n + 3..n + 1 + m
  <2>1. i - n - 1 \in 2..m /\ i - n - 1 \in 1..m /\ n + 1 + (i - n - 1) = i
    BY <1>2
  <2>2. w[i] = work[i - n - 1]
    BY <1>2, <2>1
  <2> QED
    BY <1>3, <1>4, <2>1, <2>2
<1>7. \A i \in 1..n + 1 + m : i \in 1..n \/ i = n + 1 \/ i = n + 2 \/ i \in n + 3..n + 1 + m
  BY <1>2
<1>8. n + 1 \in 1..n + 1 + m /\ n + 2 \in 1..n + 1 + m
  BY <1>2
<1>9. \A i \in 1..n + 1 + m : /\ w[i].op \in {"dec", "free", "collect"}
                              /\ w[i].op = "free" <=> i = n + 1
                              /\ w[i].op = "collect" <=> i = n + 2
                              /\ w[i].op # "collect" => w[i].key \in Key
  BY <1>2, <1>5, <1>6, <1>7
<1>10. \A x : x \in Dying' <=> x = k
  <2>1. DOMAIN w = 1..n + 1 + m
    BY <1>2, Ranges
  <2>2. Dying' = {w[i].key : i \in {j \in 1..n + 1 + m : w[j].op = "free"}}
    BY <2>1 DEF Dying
  <2> QED
    BY <1>2, <1>8, <1>9, <2>2
<1>11. inReclaim
  BY <1>1, <1>3, ReclaimingIs
<1>12. CallStack'
  <2>1. inReclaim'
    BY <1>11
  <2>2. \A i \in 1..n + 1 + m : w[i].op = "free" =>
           /\ i < n + 1 + m /\ w[i + 1].op = "collect" /\ \A j \in 1..i - 1 : w[j].op = "dec"
    <3> SUFFICES ASSUME NEW i \in 1..n + 1 + m, w[i].op = "free"
                 PROVE  /\ i < n + 1 + m /\ w[i + 1].op = "collect" /\ \A j \in 1..i - 1 : w[j].op = "dec"
      OBVIOUS
    <3>1. i = n + 1
      BY <1>9
    <3>2. i < n + 1 + m /\ i + 1 = n + 2 /\ \A j \in 1..i - 1 : j \in 1..n
      BY <1>2, <3>1
    <3> QED
      BY <1>2, <1>5, <3>2
  <2>3. \A i \in 1..n + 1 + m : w[i].op = "collect" =>
           /\ \A j \in i + 1..n + 1 + m : w[j].op = "dec"
           /\ \A j \in 1..i - 1 : w[j].op \in {"dec", "free"}
    <3> SUFFICES ASSUME NEW i \in 1..n + 1 + m, w[i].op = "collect"
                 PROVE  /\ \A j \in i + 1..n + 1 + m : w[j].op = "dec"
                        /\ \A j \in 1..i - 1 : w[j].op \in {"dec", "free"}
      OBVIOUS
    <3>1. i = n + 2
      BY <1>9
    <3>2. /\ \A j \in i + 1..n + 1 + m : j \in n + 3..n + 1 + m
          /\ \A j \in 1..i - 1 : j \in 1..n \/ j = n + 1
      BY <1>2, <3>1
    <3> QED
      BY <1>2, <1>6, <3>2
  <2>4. \E i \in 1..n + 1 + m : w[i].op = "collect"
    BY <1>5, <1>8
  <2>5. Len(w) = n + 1 + m
    BY <1>2
  <2> QED
    BY <1>9, <2>1, <2>2, <2>3, <2>4, <2>5 DEF CallStack, OpAt, Above, Below
<1>13. Dying = {}
  <2>1. \A i \in 1..m : i = 1 \/ i \in 2..m
    BY <1>2
  <2>2. \A i \in 1..m : work[i].op # "free"
    BY <1>3, <1>4, <2>1
  <2> QED
    BY <1>1, <1>3, <2>2, DyingIs
<1>14. \A i \in 1..Len(w) : w[i].op \in {"dec", "free", "return"} => w[i].key \in Key
  BY <1>2, <1>9
<1> QED
  BY <1>10, <1>12, <1>13, <1>14 DEF Live

\* A node of the collection has no references: what it holds is given back.
LEMMA RunCollectInv ==
    ASSUME IInv, RunCollect
    PROVE  IInv'
<1>1. PICK k \in collecting : CollectStep(k)
  BY DEF RunCollect
<1>2. /\ zombies \union collecting \union Pinned \subseteq Live
      /\ zombies \intersect collecting = {}
      /\ \A j \in collecting : rc[j] = 0
      /\ \A j \in Live : rc[j] = 0 => j \in zombies \union collecting
      /\ pool = Live \intersect Pooled
  BY DEF IInv, Placed
<1>3. rc[k] = 0 /\ k \in Live /\ k \notin zombies
  BY <1>2
<1>4. /\ rc \in [Key -> 0..MaxRC] /\ MaxRC \in Nat \ {0, 1} /\ Live \subseteq Key /\ failed = {}
      /\ Live \subseteq allocated /\ attr \in [Key -> Key \union {None}] /\ allocated \subseteq Key
  BY NodeAssumption DEF IInv, Typed, TypeOK, Live
<1>5. k \in Key /\ k \notin Pinned /\ References(k) = 0
  BY <1>3, <1>4, ExactAt
<1>6. PICK v, keys, call, d, t, u, w :
         /\ v = (IF attr[k] = None THEN <<>> ELSE <<attr[k]>>) /\ keys = v \o Children[k]
         /\ call = Op("free", k) /\ d = DecAll(keys) /\ t = <<call>> /\ u = d \o t /\ w = u \o work
  OBVIOUS
<1>7. /\ Running("collect") /\ collecting' = collecting \ {k} /\ pool' = pool \ {k} /\ work' = w
      /\ attr' = [attr EXCEPT ![k] = None]
      /\ failed' = IF k \in allocated THEN failed ELSE failed \union {"collect after free"}
      /\ UNCHANGED <<rc, allocated, zombies, maxedOut, inReclaim, handles, builder, ending, order>>
  BY <1>1, <1>3, <1>6 DEF RunCollect, CollectStep, ending, Failing
<1>8. keys \in Seq(Key) /\ \A j \in Key : Count(j, keys) = (IF attr[k] = j THEN 1 ELSE 0) + Count(j, Children[k])
  <2>1. Holds(k, keys)
    BY <1>5, <1>6, HoldsIs
  <2> QED
    BY <2>1 DEF Holds
<1>9. CollectWork(w, k, keys)
  <2>1. call \in Calls /\ call.op = "free" /\ call.key = k
    BY <1>5, <1>6, OpIs DEF Ops
  <2>2. call.op # "dec"
    BY <2>1
  <2>3. DecsThen(u, keys, call)
    BY <1>6, <1>8, <2>1, <2>2, DecAllThen
  <2>4. PICK wk : wk = work
    OBVIOUS
  <2>5. w = u \o wk /\ Running("collect")
    BY <1>6, <1>7, <2>4
  <2> QED
    BY <1>5, <2>1, <2>3, <2>4, <2>5, CollectWorkIs
<1>10. /\ w \in Seq(Calls)
       /\ \A j \in Key : Count(Dec(j), w) = Count(j, keys) + Count(Dec(j), work) /\ Count(j, keys) \in Nat
  BY <1>9 DEF CollectWork
<1>11. /\ CallStack' /\ (\A x : x \in Dying' <=> x = k)
       /\ \A i \in 1..Len(w) : w[i].op \in {"dec", "free", "return"} => w[i].key \in Key
       /\ Dying = {} /\ Live = allocated
  BY <1>5, <1>7, <1>9, CollectStackNext
<1>12. Live' = Live \ {k}
  BY <1>7, <1>11 DEF Live
<1>13. RunFrame
  <2>1. work # <<>>
    BY <1>7 DEF Running
  <2>2. attr' \in [Key -> Key \union {None}] /\ \A j \in Key : attr[j] = None => attr'[j] = None
    BY <1>4, <1>5, <1>7
  <2> QED
    BY <1>7, <2>1, <2>2 DEF RunFrame
<1>14. /\ Phased' /\ Ordered' /\ phase' # "sorting" /\ Pinned' = Pinned
  BY <1>13, RunPhased
<1>15. Typed'
  <2>1. failed' = {} /\ rc' \in [Key -> 0..MaxRC] /\ allocated' \subseteq Key
    BY <1>3, <1>4, <1>7
  <2>2. pool' \subseteq Pooled /\ zombies' \subseteq Key /\ collecting' \subseteq Key /\ inReclaim' \in BOOLEAN
    BY <1>7 DEF IInv, Typed, TypeOK
  <2> QED
    BY <1>7, <1>10, <1>11, <1>13, <2>1, <2>2, RunTyped
<1>16. \A j \in Key : References(j)' = References(j)
  <2> TAKE j \in Key
  <2>1. References(j)' = handles[j] + AttrRefs(attr', j) + BuilderRefs(builder, j)
                         + Cardinality(ParentsIn(Live', j)) + Count(Dec(j), w)
    BY <1>7, ReferencesNext
  <2>2. References(j) = handles[j] + AttrRefs(attr, j) + BuilderRefs(builder, j)
                         + Cardinality(ParentsIn(Live, j)) + Count(Dec(j), work)
    BY ReferencesIs
  <2>3. /\ Count(Dec(j), work) \in Nat /\ AttrRefs(attr, j) \in Nat /\ BuilderRefs(builder, j) \in Nat
        /\ Cardinality(ParentsIn(Live, j)) \in Nat /\ handles[j] \in Nat
    BY ReferencesNat DEF IInv
  <2>4. AttrRefs(attr', j) = AttrRefs(attr, j) - (IF attr[k] = j THEN 1 ELSE 0)
    <3>1. \A i \in Key : attr'[i] = IF i = k THEN None ELSE attr[i]
      BY <1>4, <1>5, <1>7
    <3>2. AttrRefs(attr', j) = AttrRefs(attr, j) - (IF attr[k] = j THEN 1 ELSE 0) + (IF None = j THEN 1 ELSE 0)
      <4>1. None \in Key \union {None} /\ attr \in [Key -> Key \union {None}] /\ k \in Key
        BY <1>4, <1>5
      <4> QED
        BY <3>1, <4>1, AttrChanged
    <3>3. None # j
      BY Terms
    <3> QED
      BY <2>3, <3>2, <3>3
  <2>5. Cardinality(ParentsIn(Live', j)) = Cardinality(ParentsIn(Live, j)) - Count(j, Children[k])
    <3>1. Live \in SUBSET Key
      BY <1>4
    <3>2. Cardinality(ParentsIn(Live \ {k}, j)) = Cardinality(ParentsIn(Live, j)) - Count(j, Children[k])
      BY <1>3, <3>1, ParentRemoved
    <3> QED
      BY <1>12, <3>2
  <2>6. PICK a, c, p, e, f, g :
           /\ a = (IF attr[k] = j THEN 1 ELSE 0) /\ c = Count(j, Children[k]) /\ p = Cardinality(ParentsIn(Live, j))
           /\ e = Count(Dec(j), work) /\ f = AttrRefs(attr, j) /\ g = BuilderRefs(builder, j)
    OBVIOUS
  <2>7. c \in Nat
    <3>1. Children[k] \in Seq(Key)
      BY <1>5, Terms
    <3> QED
      BY <2>6, <3>1, CountPositive
  <2>8. a \in Nat /\ Count(Dec(j), w) = a + c + e /\ AttrRefs(attr', j) = f - a /\ Cardinality(ParentsIn(Live', j)) = p - c
    BY <1>8, <1>10, <2>4, <2>5, <2>6
  <2>9. References(j)' = handles[j] + (f - a) + g + (p - c) + (a + c + e)
    BY <2>1, <2>6, <2>8
  <2>10. References(j) = handles[j] + f + g + p + e
    BY <2>2, <2>6
  <2> QED
    BY <2>3, <2>6, <2>7, <2>8, <2>9, <2>10
<1>17. Exact'
  <2> SUFFICES ASSUME NEW j \in Live
               PROVE  IF j \in Pinned THEN rc[j] = MaxRC ELSE rc[j] < MaxRC /\ rc[j] = References(j)'
    BY <1>7, <1>12, <1>14 DEF Exact
  <2>1. References(j)' = References(j)
    BY <1>4, <1>16
  <2> QED
    BY <2>1, ExactAt
<1>18. NoneLeft'
  <2> SUFFICES ASSUME NEW j \in Key \ (Live \ {k})
               PROVE  References(j)' = 0 /\ (j = k => rc[j] = 0)
    BY <1>7, <1>11, <1>12 DEF NoneLeft
  <2>1. References(j)' = References(j)
    BY <1>16
  <2>2. CASE j = k
    BY <1>3, <1>5, <2>1, <2>2
  <2>3. CASE j \notin Live
    <3>1. References(j) = 0
      BY <2>3 DEF IInv, NoneLeft
    <3> QED
      BY <1>3, <2>1, <2>3, <3>1
  <2> QED
    BY <2>2, <2>3
<1>19. Placed'
  BY <1>2, <1>3, <1>5, <1>7, <1>12, <1>14 DEF Placed
<1> QED
  BY <1>11, <1>14, <1>15, <1>17, <1>18, <1>19, Gather

-----------------------------------------------------------------------------
(* The sort: nothing but its own state changes.                            *)

Quiet == work = <<>> /\ UNCHANGED <<rc, allocated, pool, zombies, inReclaim, collecting, work, handles, attr,
                                    builder>>

LEMMA QuietKept ==
    ASSUME IInv, Quiet, Pinned' = Pinned
    PROVE  /\ Exact' /\ NoneLeft' /\ Placed' /\ CallStack' /\ Live' = Live /\ Live = allocated
<1>1. /\ work = <<>> /\ rc' = rc /\ allocated' = allocated /\ pool' = pool /\ zombies' = zombies
      /\ inReclaim' = inReclaim /\ collecting' = collecting /\ work' = work /\ handles' = handles
      /\ attr' = attr /\ builder' = builder
  BY DEF Quiet
<1>2. collecting = {} /\ inReclaim = FALSE /\ Decs(work) /\ Dying = {} /\ Live = allocated
  BY <1>1, IdleIs
<1>3. CallStack' /\ Dying' = {} /\ Live' = allocated'
  <2>1. ~inReclaim' /\ collecting' = {} /\ work' = work
    BY <1>1, <1>2
  <2> QED
    BY <1>2, <2>1, DecsCallStackNext
<1>4. Live' = Live /\ Dying' \subseteq Dying
  BY <1>1, <1>2, <1>3
<1>5. \A k \in Key : References(k)' = References(k)
  <2> TAKE k \in Key
  <2>1. References(k)' = handles[k] + AttrRefs(attr, k) + BuilderRefs(builder, k)
                         + Cardinality(ParentsIn(Live, k)) + Count(Dec(k), work)
    BY <1>1, <1>4, ReferencesNext
  <2> QED
    BY <2>1, ReferencesIs
<1>6. Exact' /\ NoneLeft'
  BY <1>1, <1>4, <1>5, ExactKept
<1>7. Placed'
  <2>1. Placed
    BY DEF IInv
  <2> QED
    BY <1>1, <1>4, <2>1 DEF Placed
<1> QED
  BY <1>2, <1>3, <1>4, <1>6, <1>7

LEMMA QuietTyped ==
    ASSUME IInv, Quiet, maxedOut' \in Seq(Key), order' \in Seq(Key), visited' \subseteq Key, failed' = {},
           stack' \in Seq(Entries), root' \in Nat,
           phase' \in {"alive", "tables", "sorting", "deleting", "gone"}
    PROVE  Typed'
<1>1. /\ rc' = rc /\ allocated' = allocated /\ pool' = pool /\ zombies' = zombies
      /\ inReclaim' = inReclaim /\ collecting' = collecting /\ work' = work /\ handles' = handles
      /\ attr' = attr /\ builder' = builder
  BY DEF Quiet
<1>2. Typed
  BY DEF IInv
<1>3. TypeOK'
  BY <1>1, <1>2 DEF TypeOK, Typed
<1> QED
  BY <1>1, <1>2, <1>3 DEF Typed

LEMMA GatherSorting ==
    ASSUME Typed', Exact', NoneLeft', Placed', CallStack', Phased', Ordered',
           \A size \in [Key -> 0..Cardinality(Key)] : IsSize(size) => Sorting(size)'
    PROVE  IInv'
  BY DEF IInv

\* Nothing has been sorted yet.
LEMMA ClearTablesInv ==
    ASSUME IInv, ClearTables
    PROVE  IInv'
<1>1. /\ phase = "tables" /\ Quiet /\ (\A k \in Key : handles[k] = 0) /\ phase' = "sorting"
      /\ maxedOut' = maxedOut /\ root' = root /\ stack' = stack /\ visited' = visited /\ order' = order
      /\ failed' = failed /\ handles' = handles /\ attr' = attr /\ builder' = builder /\ work' = work /\ work = <<>>
  BY DEF ClearTables, Quiet
<1>2. /\ order = <<>> /\ stack = <<>> /\ visited = {} /\ root = 0 /\ Distinct(maxedOut)
      /\ builder = None /\ \A k \in Key : attr[k] = None
  BY <1>1 DEF IInv, Phased
<1>3. /\ maxedOut \in Seq(Key) /\ order \in Seq(Key) /\ visited \subseteq Key /\ failed = {}
      /\ stack \in Seq(Entries) /\ root \in Nat
  BY DEF IInv, Typed, TypeOK
<1>4. Pinned' = Pinned
  BY <1>1 DEF Pinned
<1>5. Exact' /\ NoneLeft' /\ Placed' /\ CallStack'
  BY <1>1, <1>4, QuietKept
<1>6. Typed'
  BY <1>1, <1>3, QuietTyped
<1>7. Phased'
  BY <1>1, <1>2 DEF Phased
<1>8. Ordered'
  BY <1>1, OrderKept DEF IInv
<1>9. ASSUME NEW size
      PROVE  Sorting(size)'
  <2>1. Waiting' = {}
    BY <1>1, <1>2 DEF Waiting
  <2>2. Finished' = {}
    BY <1>1, <1>2 DEF Finished
  <2>3. Len(maxedOut) \in Nat
    BY <1>3, Ranges
  <2>4. ToSet(order') = {}
    BY <1>1, <1>2 DEF ToSet
  <2> QED
    BY <1>1, <1>2, <2>1, <2>2, <2>3, <2>4 DEF Sorting, Closed
<1> QED
  BY <1>5, <1>6, <1>7, <1>8, <1>9, GatherSorting

\* What the sort is at, as the steps below use it.
LEMMA SortingIs ==
    ASSUME IInv, phase = "sorting", NEW size \in [Key -> 0..Cardinality(Key)], IsSize(size)
    PROVE  Sorting(size)
  BY DEF IInv

LEMMA SortTypes ==
    ASSUME IInv, phase = "sorting"
    PROVE  /\ maxedOut \in Seq(Key) /\ order \in Seq(Key) /\ visited \subseteq Key /\ failed = {}
           /\ stack \in Seq(Entries) /\ root \in Nat /\ work = <<>> /\ Distinct(maxedOut)
           /\ DOMAIN stack = 1..Len(stack) /\ Len(stack) \in Nat
           /\ \A p \in 1..Len(stack) : stack[p].key \in Key /\ stack[p].turn \in {"before", "after"}
           /\ builder = None /\ (\A k \in Key : attr[k] = None) /\ \A k \in Key : handles[k] = 0
<1>1. /\ maxedOut \in Seq(Key) /\ order \in Seq(Key) /\ visited \subseteq Key /\ failed = {}
      /\ stack \in Seq(Entries) /\ root \in Nat
  BY DEF IInv, Typed, TypeOK
<1>2. /\ work = <<>> /\ Distinct(maxedOut) /\ builder = None
      /\ (\A k \in Key : attr[k] = None) /\ \A k \in Key : handles[k] = 0
  BY DEF IInv, Phased
<1>3. DOMAIN stack = 1..Len(stack) /\ Len(stack) \in Nat /\ \A p \in 1..Len(stack) : stack[p] \in Entries
  BY <1>1, Ranges
<1>4. \A p \in 1..Len(stack) : stack[p].key \in Key /\ stack[p].turn \in {"before", "after"}
  BY <1>3 DEF Entries
<1> QED
  BY <1>1, <1>2, <1>3, <1>4

\* The parts of the invariant that a step of the sort has no part in.
SortFrame ==
    /\ phase = "sorting" /\ UNCHANGED <<phase, maxedOut, failed>>
    /\ Quiet

LEMMA SortKept ==
    ASSUME IInv, SortFrame, order' \in Seq(Key), visited' \subseteq Key, stack' \in Seq(Entries), root' \in Nat,
           ToSet(order') \subseteq ToSet(maxedOut), ToSet(order) \subseteq ToSet(order'), Ordered',
           \A size \in [Key -> 0..Cardinality(Key)] : IsSize(size) => Sorting(size)'
    PROVE  IInv'
<1>1. /\ phase = "sorting" /\ phase' = "sorting" /\ maxedOut' = maxedOut /\ failed' = failed
      /\ handles' = handles /\ attr' = attr /\ builder' = builder /\ work' = work
  BY DEF SortFrame, Quiet
<1>2. Pinned' = Pinned
  BY <1>1 DEF Pinned
<1>3. Exact' /\ NoneLeft' /\ Placed' /\ CallStack'
  BY <1>2, QuietKept DEF SortFrame
<1>4. Typed'
  BY <1>1, SortTypes, QuietTyped DEF SortFrame
<1>5. Phased'
  BY <1>1, SortTypes DEF Phased
<1> QED
  BY <1>3, <1>4, <1>5, GatherSorting

\* A size exists, and what is sorted is maxed out.
LEMMA OrderSorted ==
    ASSUME IInv, phase = "sorting"
    PROVE  ToSet(order) \subseteq ToSet(maxedOut)
<1>1. PICK size \in [Key -> 0..Cardinality(Key)] : IsSize(size)
  BY NodeAssumption DEF IsSize
<1>2. Sorting(size)
  BY <1>1, SortingIs
<1> QED
  BY <1>2 DEF Sorting

\* The next root is on the stack, unless it has been visited.
LEMMA SortRootInv ==
    ASSUME IInv, SortRoot
    PROVE  IInv'
<1>1. PICK m, s : m = maxedOut[root + 1] /\ s = [key |-> m, turn |-> "before"]
  OBVIOUS
<1>2. /\ SortFrame /\ phase = "sorting" /\ stack = <<>> /\ root < Len(maxedOut) /\ root' = root + 1
      /\ stack' = (IF m \in visited THEN <<>> ELSE <<s>>) /\ visited' = visited /\ order' = order
      /\ maxedOut' = maxedOut
  <2>1. phase = "sorting" /\ work = <<>>
    BY SortTypes DEF SortRoot
  <2> QED
    BY <1>1, <2>1 DEF SortRoot, SortFrame, Quiet
<1>3. /\ maxedOut \in Seq(Key) /\ order \in Seq(Key) /\ visited \subseteq Key /\ root \in Nat
      /\ Len(maxedOut) \in Nat /\ \A i \in 1..Len(maxedOut) : maxedOut[i] \in Key
  BY <1>2, SortTypes, Ranges
<1>4. root' \in 1..Len(maxedOut) /\ m \in Key
  BY <1>1, <1>2, <1>3
<1>5. s \in Entries /\ s.key = m /\ s.turn = "before"
  BY <1>1, <1>4 DEF Entries
<1>6. /\ stack' \in Seq(Entries)
      /\ \A p \in 1..Len(stack') : stack'[p].turn = "before"
      /\ m \notin visited => Len(stack') = 1 /\ stack'[1].key = m
  <2>1. CASE m \in visited
    <3>1. stack' = <<>>
      BY <1>2, <2>1
    <3> QED
      BY <2>1, <3>1, EmptySeq
  <2>2. CASE m \notin visited
    <3>1. stack' = <<s>>
      BY <1>2, <2>2
    <3>2. PICK st : st = <<s>>
      OBVIOUS
    <3>3. st \in Seq(Entries) /\ Len(st) = 1 /\ st[1] = s
      BY <1>5, <3>2
    <3> QED
      BY <1>5, <3>1, <3>2, <3>3
  <2> QED
    BY <2>1, <2>2
<1>7. ToSet(order') \subseteq ToSet(maxedOut) /\ Ordered'
  BY <1>2, OrderSorted, OrderKept DEF IInv
<1>8. ASSUME NEW size \in [Key -> 0..Cardinality(Key)], IsSize(size)
      PROVE  Sorting(size)'
  <2>1. Sorting(size)
    BY <1>2, <1>8, SortingIs
  <2>2. Waiting = {} /\ Waiting' = {}
    <3>1. Waiting = {}
      BY <1>2 DEF Waiting
    <3>2. \A p \in 1..Len(stack') : stack'[p].turn # "after"
      BY <1>6
    <3> QED
      BY <3>1, <3>2 DEF Waiting
  <2>3. Finished = visited /\ Finished' = visited
    BY <1>2, <2>2 DEF Finished
  <2>4. Closed(Finished) /\ ToSet(order) = Finished \intersect ToSet(maxedOut)
    BY <2>1 DEF Sorting
  <2>5. Closed(Finished)' /\ ToSet(order') = Finished' \intersect ToSet(maxedOut')
    BY <1>2, <2>3, <2>4 DEF Closed
  <2>6. \A i \in 1..root : maxedOut[i] \in visited
    <3>1. \A p \in 1..Len(stack) : FALSE
      BY <1>2
    <3> QED
      BY <2>1, <3>1 DEF Sorting
  <2>7. \A i \in 1..root' : maxedOut[i] \in visited \/ \E p \in 1..Len(stack') : stack'[p].key = maxedOut[i]
    <3> TAKE i \in 1..root'
    <3>1. CASE i \in 1..root
      BY <2>6, <3>1
    <3>2. CASE i = root + 1
      <4>1. maxedOut[i] = m
        BY <1>1, <3>2
      <4>2. m \notin visited => 1 \in 1..Len(stack') /\ stack'[1].key = m
        BY <1>6
      <4> QED
        BY <4>1, <4>2
    <3>3. i \in 1..root \/ i = root + 1
      BY <1>2, <1>3
    <3> QED
      BY <3>1, <3>2, <3>3
  <2>8. root' \in 0..Len(maxedOut')
    BY <1>2, <1>3, <1>4
  <2> QED
    BY <1>2, <2>2, <2>5, <2>7, <2>8 DEF Sorting
<1> QED
  BY <1>2, <1>3, <1>4, <1>6, <1>7, <1>8, SortKept

\* The end of the stack.
LEMMA FrontIs ==
    ASSUME NEW S, NEW s \in Seq(S), s # <<>>
    PROVE  /\ Front(s) \in Seq(S) /\ Len(s) \in Nat \ {0} /\ Len(Front(s)) = Len(s) - 1
           /\ \A i \in 1..Len(s) - 1 : Front(s)[i] = s[i]
           /\ Last(s) = s[Len(s)] /\ s[Len(s)] \in S
<1>1. Len(s) \in Nat \ {0} /\ \A i \in 1..Len(s) : s[i] \in S
  BY EmptySeq
<1>2. Front(s) = SubSeq(s, 1, Len(s) - 1)
  BY DEF Front
<1>3. PICK n : n = Len(s) - 1
  OBVIOUS
<1>4. /\ 1 \in Int /\ n \in Int /\ n \in Nat /\ Len(s) = n + 1
      /\ \A i \in 1..n : s[i] \in S
  BY <1>1, <1>3
<1>5. PICK f : f = SubSeq(s, 1, n)
  OBVIOUS
<1>6. /\ f \in Seq(S) /\ Len(f) = (IF 1 <= n THEN n - 1 + 1 ELSE 0)
      /\ \A i \in 1..n - 1 + 1 : f[i] = s[1 + i - 1]
  BY <1>4, <1>5, SubSeqProperties
<1>7. f \in Seq(S) /\ Len(f) = n /\ \A i \in 1..n : f[i] = s[i]
  BY <1>4, <1>6
<1> QED
  BY <1>1, <1>2, <1>3, <1>5, <1>7 DEF Last

\* The node whose children have been visited.
TopDone(k) ==
    /\ SortFrame /\ stack # <<>> /\ k = stack[Len(stack)].key /\ stack[Len(stack)].turn = "after"
    /\ stack' = Front(stack) /\ visited' = visited /\ root' = root
    /\ order' = IF k \in ToSet(maxedOut) THEN Append(order, k) ELSE order

\* It is finished: no other entry waits for its children.
LEMMA TopFinished ==
    ASSUME IInv, NEW k, TopDone(k), NEW size \in [Key -> 0..Cardinality(Key)], IsSize(size)
    PROVE  /\ k \in Key /\ k \in visited /\ k \notin Finished /\ Finished' = Finished \union {k}
           /\ Waiting' = Waiting \ {Len(stack)}
           /\ \A i \in DOMAIN Children[k] : Children[k][i] \in Finished
<1>1. PICK n : n = Len(stack)
  OBVIOUS
<1>2. /\ phase = "sorting" /\ stack \in Seq(Entries) /\ n \in Nat \ {0} /\ DOMAIN stack = 1..n
      /\ k = stack[n].key /\ k \in Key /\ stack[n].turn = "after"
      /\ \A p \in 1..n : stack[p].key \in Key
  <2>1. phase = "sorting" /\ stack # <<>> /\ k = stack[n].key /\ stack[n].turn = "after"
    BY <1>1 DEF TopDone, SortFrame
  <2>2. n \in Nat \ {0}
    BY <1>1, <2>1, SortTypes, FrontIs
  <2> QED
    BY <1>1, <2>1, <2>2, SortTypes
<1>3. Len(stack') = n - 1 /\ \A p \in 1..n - 1 : stack'[p] = stack[p]
  <2>1. stack' = Front(stack) /\ stack # <<>>
    BY DEF TopDone
  <2> QED
    BY <1>1, <1>2, <2>1, FrontIs
<1>4. Waiting = {p \in 1..n : stack[p].turn = "after"} /\ Waiting' = {p \in 1..n - 1 : stack[p].turn = "after"}
  BY <1>1, <1>3 DEF Waiting
<1>5. n \in Waiting /\ Waiting' = Waiting \ {n}
  BY <1>2, <1>4
<1>6. Sorting(size)
  BY <1>2, SortingIs
<1>7. k \in visited /\ \A i \in DOMAIN Children[k] : Children[k][i] \in Finished
  <2>1. \A q \in n + 1..n : FALSE
    BY <1>2
  <2> QED
    BY <1>1, <1>2, <1>5, <1>6, <2>1 DEF Sorting
<1>8. \A p \in Waiting \ {n} : stack[p].key # k
  <2> SUFFICES ASSUME NEW p \in Waiting \ {n}
               PROVE  stack[p].key # k
    OBVIOUS
  <2>1. p \in 1..n /\ n \in p + 1..n
    BY <1>2, <1>4
  <2>2. size[k] < size[stack[p].key]
    BY <1>1, <1>2, <1>6, <2>1 DEF Sorting
  <2> QED
    BY <1>2, <2>1, <2>2
<1>9. \A p \in Waiting \ {n} : stack'[p].key = stack[p].key
  BY <1>2, <1>3, <1>4
<1>10. Finished' = visited \ {stack[p].key : p \in Waiting \ {n}}
  <2>1. visited' = visited
    BY DEF TopDone
  <2> QED
    BY <1>5, <1>9, <2>1 DEF Finished
<1>11. Finished' = Finished \union {k} /\ k \notin Finished
  <2>1. Finished = visited \ {stack[p].key : p \in Waiting}
    BY DEF Finished
  <2> QED
    BY <1>2, <1>5, <1>7, <1>8, <1>10, <2>1
<1> QED
  BY <1>1, <1>2, <1>5, <1>7, <1>11

LEMMA AppendIs ==
    ASSUME NEW S, NEW s \in Seq(S), NEW e \in S
    PROVE  /\ Append(s, e) \in Seq(S) /\ Len(s) \in Nat /\ Len(Append(s, e)) = Len(s) + 1
           /\ \A i \in 1..Len(s) : Append(s, e)[i] = s[i]
           /\ Append(s, e)[Len(s) + 1] = e
           /\ ToSet(Append(s, e)) = ToSet(s) \union {e}
<1>1. PICK n, t : n = Len(s) /\ t = Append(s, e)
  OBVIOUS
<1>2. /\ t \in Seq(S) /\ n \in Nat /\ Len(t) = n + 1
      /\ \A i \in 1..n : t[i] = s[i]
      /\ t[n + 1] = e
  BY <1>1, AppendProperties
<1>3. \A i \in 1..n + 1 : i \in 1..n \/ i = n + 1
  BY <1>2
<1>4. (\A i \in 1..n : i \in 1..n + 1) /\ n + 1 \in 1..n + 1
  BY <1>2
<1>5. \A x : x \in ToSet(t) <=> \E i \in 1..n + 1 : t[i] = x
  BY <1>2, ToSetIs
<1>6. \A x : x \in ToSet(s) <=> \E i \in 1..n : s[i] = x
  BY <1>1, ToSetIs
<1>7. \A x : x \in ToSet(t) <=> x \in ToSet(s) \union {e}
  BY <1>2, <1>3, <1>4, <1>5, <1>6
<1>8. ToSet(t) = ToSet(s) \union {e}
  BY <1>7
<1> QED
  BY <1>1, <1>2, <1>8

\* The order goes from the leaves up.
LEMMA OrderedAppend ==
    ASSUME Ordered, order \in Seq(Key), NEW k \in Key, NEW D \in SUBSET Key, Closed(D), k \notin D,
           ToSet(order) \subseteq D, NEW next, next = order', next = Append(order, k)
    PROVE  Ordered'
<1>1. PICK n : n = Len(order)
  OBVIOUS
<1>2. /\ n \in Nat /\ Len(next) = n + 1 /\ next[n + 1] = k
      /\ \A i \in 1..n : next[i] = order[i]
  BY <1>1, AppendIs
<1>3. \A i \in 1..n : order[i] \in D
  BY <1>1, ToSetIs
<1> SUFFICES ASSUME NEW i \in 1..n + 1
             PROVE  \E E \in SUBSET Key :
                       Closed(E) /\ next[i] \notin E /\ \A j \in 1..i - 1 : next[j] \in E
  BY <1>2 DEF Ordered, Closed
<1>4. CASE i \in 1..n
  <2>1. PICK E \in SUBSET Key : Closed(E) /\ order[i] \notin E /\ \A j \in 1..i - 1 : order[j] \in E
    BY <1>1, <1>4 DEF Ordered
  <2>2. \A j \in 1..i - 1 : j \in 1..n
    BY <1>2, <1>4
  <2> QED
    BY <1>2, <1>4, <2>1, <2>2
<1>5. CASE i = n + 1
  <2>1. \A j \in 1..i - 1 : j \in 1..n
    BY <1>2, <1>5
  <2>2. Closed(D) /\ next[i] \notin D /\ \A j \in 1..i - 1 : next[j] \in D
    BY <1>2, <1>3, <1>5, <2>1
  <2> QED
    BY <2>2
<1> QED
  BY <1>2, <1>4, <1>5

LEMMA SortAfterInv ==
    ASSUME IInv, NEW k, TopDone(k)
    PROVE  IInv'
<1>1. PICK n : n = Len(stack)
  OBVIOUS
<1>2. /\ SortFrame /\ phase = "sorting" /\ stack # <<>> /\ k = stack[n].key /\ stack[n].turn = "after"
      /\ stack' = Front(stack) /\ visited' = visited /\ root' = root /\ maxedOut' = maxedOut
  BY <1>1 DEF TopDone, SortFrame
<1>3. /\ maxedOut \in Seq(Key) /\ order \in Seq(Key) /\ visited \subseteq Key
      /\ stack \in Seq(Entries) /\ root \in Nat
  BY <1>2, SortTypes
<1>4. /\ n \in Nat \ {0} /\ Len(stack') = n - 1 /\ stack' \in Seq(Entries)
      /\ \A p \in 1..n - 1 : stack'[p] = stack[p]
  BY <1>1, <1>2, <1>3, FrontIs
<1>5. PICK any \in [Key -> 0..Cardinality(Key)] : IsSize(any)
  BY NodeAssumption DEF IsSize
<1>6. /\ k \in Key /\ k \in visited /\ k \notin Finished /\ Finished' = Finished \union {k}
      /\ Waiting' = Waiting \ {n}
      /\ \A i \in DOMAIN Children[k] : Children[k][i] \in Finished
  BY <1>1, <1>5, TopFinished
<1>7. Closed(Finished) /\ ToSet(order) = Finished \intersect ToSet(maxedOut)
  <2>1. Sorting(any)
    BY <1>2, <1>5, SortingIs
  <2> QED
    BY <2>1 DEF Sorting
<1>8. Closed(Finished')
  BY <1>6, <1>7 DEF Closed
<1>9. PICK next : next = order'
  OBVIOUS
<1>10. next \in Seq(Key) /\ ToSet(next) = Finished' \intersect ToSet(maxedOut) /\ Ordered'
  <2>1. CASE k \in ToSet(maxedOut)
    <3>1. next = Append(order, k)
      BY <1>9, <2>1 DEF TopDone
    <3>2. next \in Seq(Key) /\ ToSet(next) = ToSet(order) \union {k}
      BY <1>3, <1>6, <3>1, AppendIs
    <3>3. Finished \in SUBSET Key /\ ToSet(order) \subseteq Finished
      BY <1>3, <1>7 DEF Finished
    <3>4. Ordered
      BY DEF IInv
    <3>5. Ordered'
      BY <1>3, <1>6, <1>7, <1>9, <3>1, <3>3, <3>4, OrderedAppend
    <3> QED
      BY <1>6, <1>7, <2>1, <3>2, <3>5
  <2>2. CASE k \notin ToSet(maxedOut)
    <3>1. next = order /\ order' = order
      BY <1>9, <2>2 DEF TopDone
    <3>2. Ordered'
      BY <3>1, OrderKept DEF IInv
    <3> QED
      BY <1>3, <1>6, <1>7, <2>2, <3>1, <3>2
  <2> QED
    BY <2>1, <2>2
<1>11. ASSUME NEW size \in [Key -> 0..Cardinality(Key)], IsSize(size)
       PROVE  Sorting(size)'
  <2>1. Sorting(size)
    BY <1>2, <1>11, SortingIs
  <2>2. ToSet(order') = Finished' \intersect ToSet(maxedOut')
    BY <1>2, <1>9, <1>10
  <2>3. ASSUME NEW p \in Waiting'
        PROVE  /\ stack'[p].key \in visited
               /\ \A i \in DOMAIN Children[stack'[p].key] :
                     \/ Children[stack'[p].key][i] \in Finished'
                     \/ \E q \in p + 1..Len(stack') : stack'[q].key = Children[stack'[p].key][i]
               /\ \A q \in p + 1..Len(stack') : size[stack'[q].key] < size[stack'[p].key]
    <3>1. p \in Waiting /\ p # n /\ p \in 1..n
      BY <1>1, <1>6 DEF Waiting
    <3>2. p \in 1..n - 1 /\ stack'[p] = stack[p] /\ \A q \in p + 1..n - 1 : q \in p + 1..n /\ stack'[q] = stack[q]
      BY <1>4, <3>1
    <3>3. \A q \in p + 1..n : q = n \/ q \in p + 1..n - 1
      BY <1>4, <3>1
    <3>4. /\ stack[p].key \in visited
          /\ \A i \in DOMAIN Children[stack[p].key] :
                \/ Children[stack[p].key][i] \in Finished
                \/ \E q \in p + 1..n : stack[q].key = Children[stack[p].key][i]
          /\ \A q \in p + 1..n : size[stack[q].key] < size[stack[p].key]
      BY <1>1, <2>1, <3>1 DEF Sorting
    <3>5. ASSUME NEW i \in DOMAIN Children[stack[p].key]
          PROVE  \/ Children[stack[p].key][i] \in Finished'
                 \/ \E q \in p + 1..n - 1 : stack'[q].key = Children[stack[p].key][i]
      <4>1. CASE Children[stack[p].key][i] \in Finished
        BY <1>6, <4>1
      <4>2. CASE Children[stack[p].key][i] \notin Finished
        <5>1. PICK q \in p + 1..n : stack[q].key = Children[stack[p].key][i]
          BY <3>4, <4>2
        <5> QED
          BY <1>2, <1>6, <3>2, <3>3, <5>1
      <4> QED
        BY <4>1, <4>2
    <3> QED
      BY <1>4, <3>2, <3>4, <3>5
  <2>4. root' \in 0..Len(maxedOut') /\ root' = root
    BY <1>2, <2>1 DEF Sorting
  <2>5. ASSUME NEW i \in 1..root
        PROVE  maxedOut[i] \in visited \/ \E p \in 1..Len(stack') : stack'[p].key = maxedOut[i]
    <3>1. maxedOut[i] \in visited \/ \E p \in 1..n : stack[p].key = maxedOut[i]
      BY <1>1, <2>1 DEF Sorting
    <3>2. \A p \in 1..n : p = n \/ p \in 1..n - 1
      BY <1>4
    <3> QED
      BY <1>2, <1>4, <1>6, <3>1, <3>2
  <2>6. Closed(Finished)'
    BY <1>8 DEF Closed
  <2> QED
    BY <1>2, <2>2, <2>3, <2>4, <2>5, <2>6 DEF Sorting
<1>12. ToSet(order') \subseteq ToSet(maxedOut) /\ ToSet(order) \subseteq ToSet(order')
  BY <1>6, <1>7, <1>9, <1>10
<1> QED
  BY <1>2, <1>3, <1>4, <1>9, <1>10, <1>11, <1>12, SortKept

\* A node that has been visited from elsewhere in the meantime.
TopAgain(k) ==
    /\ SortFrame /\ stack # <<>> /\ k = stack[Len(stack)].key /\ stack[Len(stack)].turn = "before"
    /\ k \in visited /\ stack' = Front(stack) /\ visited' = visited /\ order' = order /\ root' = root

LEMMA SortAgainInv ==
    ASSUME IInv, NEW k, TopAgain(k)
    PROVE  IInv'
<1>1. PICK n : n = Len(stack)
  OBVIOUS
<1>2. /\ SortFrame /\ phase = "sorting" /\ stack # <<>> /\ k = stack[n].key /\ stack[n].turn = "before"
      /\ k \in visited /\ order' = order
      /\ stack' = Front(stack) /\ visited' = visited /\ root' = root /\ maxedOut' = maxedOut
  BY <1>1 DEF TopAgain, SortFrame
<1>3. /\ maxedOut \in Seq(Key) /\ order \in Seq(Key) /\ visited \subseteq Key
      /\ stack \in Seq(Entries) /\ root \in Nat /\ \A p \in 1..n : stack[p].key \in Key
  BY <1>1, <1>2, SortTypes
<1>4. /\ n \in Nat \ {0} /\ Len(stack') = n - 1 /\ stack' \in Seq(Entries)
      /\ \A p \in 1..n - 1 : stack'[p] = stack[p]
  BY <1>1, <1>2, <1>3, FrontIs
<1>5. Waiting = {p \in 1..n : stack[p].turn = "after"} /\ Waiting' = {p \in 1..n - 1 : stack[p].turn = "after"}
  BY <1>1, <1>4 DEF Waiting
<1>6. Waiting' = Waiting
  <2>1. \A p \in 1..n : p = n \/ p \in 1..n - 1
    BY <1>4
  <2>2. \A p \in 1..n - 1 : p \in 1..n
    BY <1>4
  <2>3. n \notin Waiting
    BY <1>2, <1>5
  <2> QED
    BY <1>5, <2>1, <2>2, <2>3
<1>7. Finished' = Finished
  <2>1. \A p \in Waiting : stack'[p] = stack[p]
    BY <1>4, <1>5, <1>6
  <2> QED
    BY <1>2, <1>6, <2>1 DEF Finished
<1>8. ASSUME NEW size \in [Key -> 0..Cardinality(Key)], IsSize(size)
      PROVE  Sorting(size)'
  <2>1. Sorting(size)
    BY <1>2, <1>8, SortingIs
  <2>2. Closed(Finished)' /\ ToSet(order') = Finished' \intersect ToSet(maxedOut')
    BY <1>2, <1>7, <2>1 DEF Sorting, Closed
  <2>3. k \in Finished
    <3>1. \A p \in Waiting : stack[p].key # k
      <4> SUFFICES ASSUME NEW p \in Waiting
                   PROVE  stack[p].key # k
        OBVIOUS
      <4>1. p \in 1..n /\ n \in p + 1..n
        BY <1>4, <1>5, <1>6
      <4>2. size[k] < size[stack[p].key]
        BY <1>1, <1>2, <2>1, <4>1 DEF Sorting
      <4> QED
        BY <1>2, <1>3, <1>4, <4>1, <4>2
    <3> QED
      BY <1>2, <3>1 DEF Finished
  <2>4. ASSUME NEW p \in Waiting'
        PROVE  /\ stack'[p].key \in visited
               /\ \A i \in DOMAIN Children[stack'[p].key] :
                     \/ Children[stack'[p].key][i] \in Finished'
                     \/ \E q \in p + 1..Len(stack') : stack'[q].key = Children[stack'[p].key][i]
               /\ \A q \in p + 1..Len(stack') : size[stack'[q].key] < size[stack'[p].key]
    <3>1. p \in Waiting /\ p \in 1..n - 1
      BY <1>5, <1>6
    <3>2. stack'[p] = stack[p] /\ \A q \in p + 1..n - 1 : q \in p + 1..n /\ stack'[q] = stack[q]
      BY <1>4, <3>1
    <3>3. \A q \in p + 1..n : q = n \/ q \in p + 1..n - 1
      BY <1>4, <3>1
    <3>4. /\ stack[p].key \in visited
          /\ \A i \in DOMAIN Children[stack[p].key] :
                \/ Children[stack[p].key][i] \in Finished
                \/ \E q \in p + 1..n : stack[q].key = Children[stack[p].key][i]
          /\ \A q \in p + 1..n : size[stack[q].key] < size[stack[p].key]
      BY <1>1, <2>1, <3>1 DEF Sorting
    <3>5. ASSUME NEW i \in DOMAIN Children[stack[p].key]
          PROVE  \/ Children[stack[p].key][i] \in Finished'
                 \/ \E q \in p + 1..n - 1 : stack'[q].key = Children[stack[p].key][i]
      <4>1. CASE Children[stack[p].key][i] \in Finished
        BY <1>7, <4>1
      <4>2. CASE Children[stack[p].key][i] \notin Finished
        <5>1. PICK q \in p + 1..n : stack[q].key = Children[stack[p].key][i]
          BY <3>4, <4>2
        <5> QED
          BY <1>2, <1>7, <2>3, <3>2, <3>3, <5>1
      <4> QED
        BY <4>1, <4>2
    <3> QED
      BY <1>4, <3>2, <3>4, <3>5
  <2>5. root' \in 0..Len(maxedOut') /\ root' = root
    BY <1>2, <2>1 DEF Sorting
  <2>6. ASSUME NEW i \in 1..root
        PROVE  maxedOut[i] \in visited \/ \E p \in 1..Len(stack') : stack'[p].key = maxedOut[i]
    <3>1. maxedOut[i] \in visited \/ \E p \in 1..n : stack[p].key = maxedOut[i]
      BY <1>1, <2>1 DEF Sorting
    <3>2. \A p \in 1..n : p = n \/ p \in 1..n - 1
      BY <1>4
    <3> QED
      BY <1>2, <1>4, <3>1, <3>2
  <2> QED
    BY <1>2, <2>2, <2>4, <2>5, <2>6 DEF Sorting
<1>9. Ordered' /\ ToSet(order') \subseteq ToSet(maxedOut) /\ ToSet(order) \subseteq ToSet(order')
  BY <1>2, OrderSorted, OrderKept DEF IInv
<1> QED
  BY <1>2, <1>3, <1>4, <1>8, <1>9, SortKept

\* A function on an initial interval is a sequence.
LEMMA FunctionSeq ==
    ASSUME NEW S, NEW n \in Nat, NEW f, f \in [1..n -> S]
    PROVE  f \in Seq(S) /\ Len(f) = n
  OBVIOUS

\* One sequence after another.
Joined(w, v, u) ==
    /\ Len(v) \in Nat /\ Len(u) \in Nat /\ Len(w) = Len(v) + Len(u)
    /\ \A i \in 1..Len(v) : w[i] = v[i]
    /\ \A i \in 1..Len(u) : w[Len(v) + i] = u[i]

LEMMA JoinedIs ==
    ASSUME NEW S, NEW v \in Seq(S), NEW u \in Seq(S), NEW w, w = v \o u
    PROVE  w \in Seq(S) /\ Joined(w, v, u)
<1>0. PICK n, c : n = Len(v) /\ c = Len(u)
  OBVIOUS
<1>1. /\ w \in Seq(S) /\ Len(w) = n + c /\ n \in Nat /\ c \in Nat
      /\ \A i \in 1..n + c : w[i] = IF i <= n THEN v[i] ELSE u[i - n]
  BY <1>0, ConcatProperties
<1>2. \A i \in 1..n : i \in 1..n + c /\ i <= n
  BY <1>1
<1>3. \A i \in 1..c : w[n + i] = u[i]
  <2> TAKE i \in 1..c
  <2>1. PICK q : q = n + i
    OBVIOUS
  <2>2. q \in 1..n + c /\ ~(q <= n) /\ q - n = i
    BY <1>1, <2>1
  <2>3. w[q] = u[q - n]
    BY <1>1, <2>2
  <2> QED
    BY <2>1, <2>2, <2>3
<1>4. Joined(w, v, u)
  BY <1>0, <1>1, <1>2, <1>3 DEF Joined
<1> QED
  BY <1>1, <1>4

\* The stack with an entry that waits for its children, and these.
Opened(w, n, k) ==
    /\ w \in Seq(Entries) /\ Len(w) = n + Len(Children[k])
    /\ \A p \in 1..n - 1 : w[p] = stack[p]
    /\ w[n].key = k /\ w[n].turn = "after"
    /\ \A i \in 1..Len(Children[k]) : w[n + i].key = Children[k][i] /\ w[n + i].turn = "before"

Unvisited(u, k) ==
    /\ u \in Seq(Entries) /\ Len(u) = Len(Children[k])
    /\ \A i \in 1..Len(Children[k]) : u[i].key = Children[k][i] /\ u[i].turn = "before"

LEMMA UnvisitedIs ==
    ASSUME NEW k \in Key,
           NEW below, below = [i \in DOMAIN Children[k] |-> [key |-> Children[k][i], turn |-> "before"]]
    PROVE  Unvisited(below, k)
<1>1. PICK c : c = Len(Children[k])
  OBVIOUS
<1>2. c \in Nat /\ DOMAIN Children[k] = 1..c /\ \A i \in 1..c : Children[k][i] \in Key
  BY <1>1, Terms
<1>3. below = [i \in 1..c |-> [key |-> Children[k][i], turn |-> "before"]]
  BY <1>2
<1>4. \A i \in 1..c : below[i] = [key |-> Children[k][i], turn |-> "before"]
  BY <1>3
<1>5. \A i \in 1..c : below[i] \in Entries /\ below[i].key = Children[k][i] /\ below[i].turn = "before"
  BY <1>2, <1>4 DEF Entries
<1>6. below \in [1..c -> Entries]
  BY <1>3, <1>5
<1>7. below \in Seq(Entries) /\ Len(below) = c
  BY <1>2, <1>6, FunctionSeq
<1> QED
  BY <1>1, <1>5, <1>7 DEF Unvisited

LEMMA OpenedBy ==
    ASSUME stack \in Seq(Entries), stack # <<>>, NEW n, n = Len(stack), NEW k \in Key,
           NEW e \in Entries, e.key = k, e.turn = "after", NEW t, t = <<e>>,
           NEW below, Unvisited(below, k),
           NEW v, v = Front(stack) \o t, NEW w, w = v \o below
    PROVE  Opened(w, n, k)
<1>1. PICK f, c : f = Front(stack) /\ c = Len(Children[k])
  OBVIOUS
<1>0. /\ below \in Seq(Entries) /\ Len(below) = c
      /\ \A i \in 1..c : below[i].key = Children[k][i] /\ below[i].turn = "before"
  BY <1>1 DEF Unvisited
<1>2. /\ n \in Nat \ {0} /\ f \in Seq(Entries) /\ Len(f) = n - 1
      /\ \A p \in 1..n - 1 : f[p] = stack[p]
  BY <1>1, FrontIs
<1>3. t \in Seq(Entries) /\ Len(t) = 1 /\ t[1] = e
  OBVIOUS
<1>4. n - 1 \in Nat /\ v = f \o t /\ n - 1 + 1 = n /\ n \in Nat /\ c \in Nat /\ Len(below) = c /\ 1 \in 1..1
  BY <1>0, <1>1, <1>2, Terms
<1>5. /\ v \in Seq(Entries) /\ Len(v) = n
      /\ \A p \in 1..n - 1 : v[p] = stack[p]
      /\ v[n] = e
  <2>0. v \in Seq(Entries) /\ Joined(v, f, t)
    BY <1>2, <1>3, <1>4, JoinedIs
  <2>1. /\ Len(v) = n - 1 + 1
        /\ \A i \in 1..n - 1 : v[i] = f[i]
        /\ \A i \in 1..1 : v[n - 1 + i] = t[i]
    BY <1>2, <1>3, <2>0 DEF Joined
  <2>2. v[n - 1 + 1] = t[1]
    BY <1>4, <2>1
  <2> QED
    BY <1>2, <1>3, <1>4, <2>0, <2>1, <2>2
<1>6. /\ w \in Seq(Entries) /\ Len(w) = n + c
      /\ \A i \in 1..n : w[i] = v[i]
      /\ \A i \in 1..c : w[n + i] = below[i]
  <2>1. w \in Seq(Entries) /\ Joined(w, v, below)
    BY <1>0, <1>5, JoinedIs
  <2> QED
    BY <1>4, <1>5, <2>1 DEF Joined
<1>7. (\A p \in 1..n - 1 : p \in 1..n) /\ n \in 1..n
  BY <1>2
<1>8. /\ \A p \in 1..n - 1 : w[p] = stack[p]
      /\ w[n] = e
      /\ \A i \in 1..c : w[n + i].key = Children[k][i] /\ w[n + i].turn = "before"
  BY <1>0, <1>1, <1>5, <1>6, <1>7
<1> QED
  BY <1>1, <1>6, <1>8 DEF Opened

LEMMA OpenedIs ==
    ASSUME stack \in Seq(Entries), stack # <<>>, NEW n, n = Len(stack), NEW k \in Key, k = stack[n].key,
           NEW e, e = [stack[n] EXCEPT !.turn = "after"],
           NEW below, below = [i \in DOMAIN Children[k] |-> [key |-> Children[k][i], turn |-> "before"]],
           NEW w, w = Front(stack) \o <<e>> \o below
    PROVE  Opened(w, n, k)
<1>1. stack[n] \in Entries
  BY FrontIs
<1>2. e \in Entries /\ e.key = k /\ e.turn = "after"
  BY <1>1 DEF Entries
<1>3. Unvisited(below, k)
  BY UnvisitedIs
<1>4. PICK t, v : t = <<e>> /\ v = Front(stack) \o t
  OBVIOUS
<1>5. w = v \o below
  BY <1>4
<1> QED
  BY <1>2, <1>3, <1>4, <1>5, OpenedBy

\* A node that is visited: its children are to be visited before it is in the order.
TopFirst(k, w) ==
    /\ SortFrame /\ stack # <<>> /\ k = stack[Len(stack)].key /\ stack[Len(stack)].turn = "before"
    /\ k \notin visited /\ stack' = w /\ Opened(w, Len(stack), k)
    /\ visited' = visited \union {k} /\ order' = order /\ root' = root

LEMMA SortFirstInv ==
    ASSUME IInv, NEW k, NEW w, TopFirst(k, w)
    PROVE  IInv'
<1>1. PICK n, c : n = Len(stack) /\ c = Len(Children[k])
  OBVIOUS
<1>2. /\ SortFrame /\ phase = "sorting" /\ stack # <<>> /\ k = stack[n].key /\ stack[n].turn = "before"
      /\ k \notin visited /\ order' = order /\ stack' = w
      /\ visited' = visited \union {k} /\ root' = root /\ maxedOut' = maxedOut
  BY <1>1 DEF TopFirst, SortFrame
<1>3. /\ maxedOut \in Seq(Key) /\ order \in Seq(Key) /\ visited \subseteq Key
      /\ stack \in Seq(Entries) /\ root \in Nat /\ \A p \in 1..n : stack[p].key \in Key
  BY <1>1, <1>2, SortTypes
<1>4. n \in Nat \ {0} /\ k \in Key /\ c \in Nat /\ DOMAIN Children[k] = 1..c
  <2>1. n \in Nat \ {0}
    BY <1>1, <1>2, <1>3, FrontIs
  <2>2. k \in Key
    BY <1>2, <1>3, <2>1
  <2> QED
    BY <1>1, <2>1, <2>2, Terms
<1>5. /\ w \in Seq(Entries) /\ Len(w) = n + c
      /\ \A p \in 1..n - 1 : w[p] = stack[p]
      /\ w[n].key = k /\ w[n].turn = "after"
      /\ \A i \in 1..c : w[n + i].key = Children[k][i] /\ w[n + i].turn = "before"
  BY <1>1 DEF TopFirst, Opened
<1>6. \A q \in 1..n + c : q \in 1..n - 1 \/ q = n \/ \E i \in 1..c : q = n + i
  <2> TAKE q \in 1..n + c
  <2>1. q > n => q - n \in 1..c /\ q = n + (q - n)
    BY <1>4
  <2>2. q <= n => q \in 1..n - 1 \/ q = n
    BY <1>4
  <2> QED
    BY <1>4, <2>1, <2>2
<1>7. \A p \in 1..n : p \in 1..n + c /\ w[p].key = stack[p].key /\ (p \in 1..n - 1 \/ p = n)
  BY <1>2, <1>4, <1>5
<1>8. Waiting = {p \in 1..n : stack[p].turn = "after"} /\ Waiting' = {p \in 1..n + c : w[p].turn = "after"}
  BY <1>1, <1>2, <1>5 DEF Waiting
<1>9. Waiting' = Waiting \union {n} /\ n \notin Waiting /\ \A p \in Waiting : p \in 1..n - 1
  <2>1. n \notin Waiting
    BY <1>2, <1>8
  <2>2. \A p \in Waiting : p \in 1..n - 1
    BY <1>7, <1>8, <2>1
  <2>3. ASSUME NEW p \in Waiting'
        PROVE  p \in Waiting \union {n}
    <3>1. p \in 1..n + c /\ w[p].turn = "after"
      BY <1>8
    <3>2. ASSUME NEW i \in 1..c, p = n + i
          PROVE  FALSE
      BY <1>5, <3>1, <3>2
    <3>3. CASE p \in 1..n - 1
      <4>1. p \in 1..n
        BY <1>4, <3>3
      <4> QED
        BY <1>5, <1>8, <3>1, <3>3, <4>1
    <3> QED
      BY <1>6, <3>1, <3>2, <3>3
  <2>4. n \in Waiting'
    BY <1>4, <1>5, <1>7, <1>8
  <2>5. ASSUME NEW p \in Waiting
        PROVE  p \in Waiting'
    <3>1. p \in 1..n - 1 /\ p \in 1..n /\ stack[p].turn = "after"
      BY <1>8, <2>2
    <3> QED
      BY <1>5, <1>7, <1>8, <3>1
  <2> QED
    BY <2>1, <2>2, <2>3, <2>4, <2>5
<1>10. Finished' = Finished
  <2>1. Finished' = (visited \union {k}) \ {w[p].key : p \in Waiting \union {n}}
    BY <1>2, <1>9 DEF Finished
  <2>2. \A p \in Waiting : w[p].key = stack[p].key
    BY <1>7, <1>8
  <2>3. {w[p].key : p \in Waiting \union {n}} = {stack[p].key : p \in Waiting} \union {k}
    BY <1>5, <2>2
  <2> QED
    BY <1>2, <2>1, <2>3 DEF Finished
<1>11. ASSUME NEW size \in [Key -> 0..Cardinality(Key)], IsSize(size)
       PROVE  Sorting(size)'
  <2>1. Sorting(size)
    BY <1>2, <1>11, SortingIs
  <2>2. Closed(Finished)' /\ ToSet(order') = Finished' \intersect ToSet(maxedOut')
    BY <1>2, <1>10, <2>1 DEF Sorting, Closed
  <2>3. \A j \in Key : size[j] \in Nat
    BY Terms, FS_CardinalityType
  <2>4. \A i \in 1..c : Children[k][i] \in Key /\ size[Children[k][i]] < size[k]
    BY <1>1, <1>4, <1>11, Terms DEF IsSize
  <2>5. ASSUME NEW p \in Waiting
        PROVE  /\ w[p].key \in visited'
               /\ \A i \in DOMAIN Children[w[p].key] :
                     \/ Children[w[p].key][i] \in Finished'
                     \/ \E q \in p + 1..Len(w) : w[q].key = Children[w[p].key][i]
               /\ \A q \in p + 1..Len(w) : size[w[q].key] < size[w[p].key]
    <3>1. p \in 1..n - 1 /\ p \in 1..n /\ w[p].key = stack[p].key /\ n \in p + 1..n
      BY <1>4, <1>7, <1>8, <1>9
    <3>2. /\ stack[p].key \in visited
          /\ \A i \in DOMAIN Children[stack[p].key] :
                \/ Children[stack[p].key][i] \in Finished
                \/ \E q \in p + 1..n : stack[q].key = Children[stack[p].key][i]
          /\ \A q \in p + 1..n : size[stack[q].key] < size[stack[p].key]
      BY <1>1, <2>1 DEF Sorting
    <3>3. \A q \in p + 1..n : q \in p + 1..n + c /\ q \in 1..n /\ w[q].key = stack[q].key
      <4>1. \A q \in p + 1..n : q \in p + 1..n + c /\ q \in 1..n
        BY <1>4, <3>1
      <4> QED
        BY <1>7, <4>1
    <3>4. ASSUME NEW i \in DOMAIN Children[stack[p].key]
          PROVE  \/ Children[stack[p].key][i] \in Finished
                 \/ \E q \in p + 1..n + c : w[q].key = Children[stack[p].key][i]
      BY <3>2, <3>3
    <3>5. ASSUME NEW q \in p + 1..n + c
          PROVE  size[w[q].key] < size[w[p].key]
      <4>1. CASE q \in p + 1..n
        BY <3>1, <3>2, <3>3, <4>1
      <4>2. CASE q \notin p + 1..n
        <5>1. q \in 1..n + c /\ ~(q \in 1..n - 1) /\ q # n
          BY <1>4, <3>1, <4>2
        <5>2. PICK i \in 1..c : q = n + i
          BY <1>6, <5>1
        <5>3. w[q].key = Children[k][i] /\ size[Children[k][i]] < size[k]
          BY <1>5, <2>4, <5>2
        <5>4. size[k] < size[stack[p].key]
          BY <1>2, <3>1, <3>2
        <5>5. size[Children[k][i]] \in Nat /\ size[k] \in Nat /\ size[stack[p].key] \in Nat
          BY <1>3, <1>4, <2>3, <2>4, <3>1
        <5> QED
          BY <3>1, <5>3, <5>4, <5>5
      <4> QED
        BY <4>1, <4>2
    <3> QED
      BY <1>2, <1>5, <1>10, <3>1, <3>2, <3>4, <3>5
  <2>6. /\ w[n].key \in visited'
        /\ \A i \in DOMAIN Children[w[n].key] :
              \/ Children[w[n].key][i] \in Finished'
              \/ \E q \in n + 1..Len(w) : w[q].key = Children[w[n].key][i]
        /\ \A q \in n + 1..Len(w) : size[w[q].key] < size[w[n].key]
    <3>1. \A i \in 1..c : n + i \in n + 1..n + c
      BY <1>4
    <3>2. \A q \in n + 1..n + c : \E i \in 1..c : q = n + i
      <4> TAKE q \in n + 1..n + c
      <4>1. q - n \in 1..c /\ q = n + (q - n)
        BY <1>4
      <4> QED
        BY <4>1
    <3>3. \A q \in n + 1..n + c : size[w[q].key] < size[k]
      BY <1>5, <2>4, <3>2
    <3>4. \A i \in 1..c : \E q \in n + 1..n + c : w[q].key = Children[k][i]
      BY <1>5, <3>1
    <3> QED
      BY <1>2, <1>4, <1>5, <3>3, <3>4
  <2>7. ASSUME NEW p \in Waiting'
        PROVE  /\ w[p].key \in visited'
               /\ \A i \in DOMAIN Children[w[p].key] :
                     \/ Children[w[p].key][i] \in Finished'
                     \/ \E q \in p + 1..Len(w) : w[q].key = Children[w[p].key][i]
               /\ \A q \in p + 1..Len(w) : size[w[q].key] < size[w[p].key]
    <3>1. p \in Waiting \/ p = n
      BY <1>9
    <3> QED
      BY <2>5, <2>6, <3>1
  <2>8. root' \in 0..Len(maxedOut') /\ root' = root
    BY <1>2, <2>1 DEF Sorting
  <2>9. ASSUME NEW i \in 1..root
        PROVE  maxedOut[i] \in visited' \/ \E p \in 1..Len(w) : w[p].key = maxedOut[i]
    <3>1. maxedOut[i] \in visited \/ \E p \in 1..n : stack[p].key = maxedOut[i]
      BY <1>1, <2>1 DEF Sorting
    <3> QED
      BY <1>2, <1>5, <1>7, <3>1
  <2> QED
    BY <1>2, <2>2, <2>7, <2>8, <2>9 DEF Sorting
<1>12. Ordered' /\ ToSet(order') \subseteq ToSet(maxedOut) /\ ToSet(order) \subseteq ToSet(order')
  BY <1>2, OrderSorted, OrderKept DEF IInv
<1>13. visited' \subseteq Key /\ stack' \in Seq(Entries)
  BY <1>2, <1>3, <1>4, <1>5
<1> QED
  BY <1>2, <1>3, <1>11, <1>12, <1>13, SortKept

LEMMA SortVisitInv ==
    ASSUME IInv, SortVisit
    PROVE  IInv'
<1>1. PICK n, k : n = Len(stack) /\ k = stack[n].key
  OBVIOUS
<1>2. SortFrame /\ phase = "sorting" /\ stack # <<>> /\ root' = root
  <2>1. phase = "sorting" /\ work = <<>>
    BY SortTypes DEF SortVisit
  <2> QED
    BY <2>1 DEF SortVisit, SortFrame, Quiet
<1>3. stack \in Seq(Entries) /\ n \in Nat \ {0} /\ k \in Key
  <2>1. stack \in Seq(Entries) /\ \A p \in 1..Len(stack) : stack[p].key \in Key
    BY <1>2, SortTypes
  <2>2. n \in Nat \ {0}
    BY <1>1, <1>2, <2>1, FrontIs
  <2> QED
    BY <1>1, <2>1, <2>2
<1>4. PICK e, below, w :
         /\ e = [stack[n] EXCEPT !.turn = "after"]
         /\ below = [i \in DOMAIN Children[k] |-> [key |-> Children[k][i], turn |-> "before"]]
         /\ w = Front(stack) \o <<e>> \o below
  OBVIOUS
<1>5. Last(stack) = stack[n]
  BY <1>1 DEF Last
<1>6. \/ /\ stack[n].turn = "after"
         /\ order' = IF k \in ToSet(maxedOut) THEN Append(order, k) ELSE order
         /\ stack' = Front(stack)
         /\ visited' = visited
      \/ /\ stack[n].turn = "before" /\ k \notin visited
         /\ stack' = w
         /\ visited' = visited \union {k}
         /\ order' = order
      \/ /\ stack[n].turn = "before" /\ k \in visited
         /\ stack' = Front(stack)
         /\ visited' = visited /\ order' = order
  BY <1>1, <1>4, <1>5 DEF SortVisit
<1>7. Opened(w, n, k)
  BY <1>1, <1>2, <1>3, <1>4, OpenedIs
<1>8. TopDone(k) \/ TopFirst(k, w) \/ TopAgain(k)
  BY <1>1, <1>2, <1>6, <1>7 DEF TopDone, TopFirst, TopAgain
<1> QED
  BY <1>8, SortAfterInv, SortFirstInv, SortAgainInv

\* A sequence without a repetition is as long as it has members.
LEMMA DistinctLength ==
    ASSUME NEW S, NEW s \in Seq(S), Distinct(s)
    PROVE  Len(s) = Cardinality(ToSet(s))
<1>1. PICK n, T : n = Len(s) /\ T = ToSet(s)
  OBVIOUS
<1>2. n \in Nat /\ DOMAIN s = 1..n
  BY <1>1, Ranges
<1>3. \A x : x \in T <=> \E i \in 1..n : s[i] = x
  BY <1>1, ToSetIs
<1>4. PICK f : f = [i \in 1..n |-> s[i]]
  OBVIOUS
<1>5. f \in [1..n -> T]
  BY <1>3, <1>4
<1>6. IsFiniteSet(1..n) /\ Cardinality(1..n) = n
  BY <1>2, FS_Interval
<1>7. \A x, y \in 1..n : f[x] = f[y] => x = y
  BY <1>1, <1>4 DEF Distinct
<1>8. \A y \in T : \E x \in 1..n : f[x] = y
  BY <1>3, <1>4
<1>9. Cardinality(T) = Cardinality(1..n)
  BY <1>5, <1>6, <1>7, <1>8, SameCount
<1> QED
  BY <1>1, <1>6, <1>9

\* An order has no repetition.
LEMMA OrderDistinct ==
    ASSUME Ordered, order \in Seq(Key)
    PROVE  Distinct(order)
<1> SUFFICES ASSUME NEW i \in 1..Len(order), NEW j \in 1..Len(order), order[i] = order[j], i # j
             PROVE  FALSE
  BY DEF Distinct
<1>1. Len(order) \in Nat
  BY Ranges
<1>2. ASSUME NEW a \in 1..Len(order), NEW b \in 1..a - 1, order[a] = order[b]
      PROVE  FALSE
  <2>1. PICK D \in SUBSET Key : Closed(D) /\ order[a] \notin D /\ \A c \in 1..a - 1 : order[c] \in D
    BY DEF Ordered
  <2> QED
    BY <1>2, <2>1
<1>3. i \in 1..j - 1 \/ j \in 1..i - 1
  BY <1>1
<1> QED
  BY <1>2, <1>3

\* All maxed out nodes are in the order.
LEMMA EndSortInv ==
    ASSUME IInv, EndSort
    PROVE  IInv'
<1>1. /\ phase = "sorting" /\ stack = <<>> /\ root = Len(maxedOut)
      /\ maxedOut' = <<>> /\ root' = 0 /\ visited' = {} /\ phase' = "deleting" /\ stack' = stack
      /\ failed' = (IF Len(order) = Len(maxedOut) THEN failed ELSE failed \union {"order"})
      /\ order' = order /\ Quiet
      /\ handles' = handles /\ attr' = attr /\ builder' = builder
  <2>1. phase = "sorting" /\ work = <<>>
    BY SortTypes DEF EndSort
  <2> QED
    BY <2>1 DEF EndSort, Failing, Quiet
<1>2. /\ maxedOut \in Seq(Key) /\ order \in Seq(Key) /\ failed = {} /\ Distinct(maxedOut)
      /\ builder = None /\ (\A k \in Key : attr[k] = None) /\ \A k \in Key : handles[k] = 0
  BY <1>1, SortTypes
<1>3. ToSet(order) = ToSet(maxedOut)
  <2>1. PICK size \in [Key -> 0..Cardinality(Key)] : IsSize(size)
    BY NodeAssumption DEF IsSize
  <2>2. Sorting(size)
    BY <1>1, <2>1, SortingIs
  <2>3. Waiting = {}
    BY <1>1 DEF Waiting
  <2>4. Finished = visited
    BY <2>3 DEF Finished
  <2>5. \A p \in 1..Len(stack) : FALSE
    BY <1>1
  <2>6. \A i \in 1..Len(maxedOut) : maxedOut[i] \in visited
    BY <1>1, <2>2, <2>5 DEF Sorting
  <2>7. ToSet(maxedOut) \subseteq visited
    <3>1. \A x : x \in ToSet(maxedOut) <=> \E i \in 1..Len(maxedOut) : maxedOut[i] = x
      BY <1>2, ToSetIs
    <3> QED
      BY <2>6, <3>1
  <2>8. ToSet(order) = Finished \intersect ToSet(maxedOut)
    BY <2>2 DEF Sorting
  <2> QED
    BY <2>4, <2>7, <2>8
<1>4. Len(order) = Len(maxedOut)
  <2>1. Distinct(order)
    BY <1>2, OrderDistinct DEF IInv
  <2> QED
    BY <1>2, <1>3, <2>1, DistinctLength
<1>5. failed' = {}
  BY <1>1, <1>2, <1>4
<1>6. Pinned' = Pinned
  <2>1. ToSet(maxedOut') = {}
    BY <1>1 DEF ToSet
  <2> QED
    BY <1>1, <1>3, <2>1 DEF Pinned
<1>7. Exact' /\ NoneLeft' /\ Placed' /\ CallStack'
  BY <1>1, <1>6, QuietKept
<1>8. Typed'
  <2>1. maxedOut' \in Seq(Key) /\ stack' \in Seq(Entries)
    BY <1>1, EmptySeq
  <2> QED
    BY <1>1, <1>2, <1>5, <2>1, QuietTyped
<1>9. Phased' /\ phase' # "sorting"
  <2>1. Distinct(maxedOut')
    BY <1>1 DEF Distinct
  <2> QED
    BY <1>1, <1>2, <2>1 DEF Phased, Distinct
<1>10. Ordered'
  BY <1>1, OrderKept DEF IInv
<1> QED
  BY <1>5, <1>7, <1>8, <1>9, <1>10, Gather

\* What the destructor has when no call is left.
LEMMA DeletingIs ==
    ASSUME IInv, phase = "deleting"
    PROVE  /\ builder = None /\ (\A k \in Key : attr[k] = None) /\ (\A k \in Key : handles[k] = 0)
           /\ maxedOut = <<>> /\ stack = <<>> /\ visited = {} /\ root = 0
           /\ order \in Seq(Key) /\ failed = {} /\ Ordered
           /\ rc \in [Key -> 0..MaxRC] /\ allocated \subseteq Key /\ pool \subseteq Pooled
           /\ zombies \subseteq Key /\ MaxRC \in Nat \ {0, 1}
           /\ handles \in [Key -> 0..MaxHandles] /\ attr \in [Key -> Key \union {None}]
           /\ builder \in Key \union {None}
  BY NodeAssumption DEF IInv, Phased, Typed, TypeOK

\* The destructor starts a collection.
LEMMA DeleteZombiesInv ==
    ASSUME IInv, DeleteZombies
    PROVE  IInv'
<1>1. PICK c, w : c = Op("reclaim", None) /\ w = <<c>>
  OBVIOUS
<1>2. /\ phase = "deleting" /\ work = <<>> /\ work' = w
      /\ rc' = rc /\ allocated' = allocated /\ pool' = pool /\ zombies' = zombies /\ maxedOut' = maxedOut
      /\ inReclaim' = inReclaim /\ collecting' = collecting /\ handles' = handles /\ attr' = attr
      /\ builder' = builder /\ root' = root /\ stack' = stack /\ visited' = visited /\ order' = order
      /\ phase' = phase /\ failed' = failed
  BY <1>1 DEF DeleteZombies, program, ending
<1>3. c \in Calls /\ c.op = "reclaim" /\ w \in Seq(Calls) /\ Len(w) = 1 /\ w[1] = c
  <2>1. c \in Calls /\ c.op = "reclaim"
    BY <1>1, OpIs DEF Ops
  <2> QED
    BY <1>1, <2>1
<1>4. collecting = {} /\ inReclaim = FALSE /\ Dying = {} /\ Live = allocated
  BY <1>2, IdleIs
<1>5. Dying' = {} /\ Live' = Live
  <2>1. DOMAIN work' = 1..1
    BY <1>2, <1>3, Ranges
  <2>2. Dying' = {}
    BY <1>2, <1>3, <2>1 DEF Dying
  <2> QED
    BY <1>2, <1>4, <2>2 DEF Live
<1>6. CallStack'
  <2>1. ~inReclaim' /\ collecting' = {}
    BY <1>2, <1>4
  <2>2. \A i \in 1..Len(work') : i = 1 /\ work'[i].op = "reclaim"
    BY <1>2, <1>3
  <2>3. \A j \in 2..Len(work') : FALSE
    BY <1>2, <1>3
  <2> QED
    BY <2>1, <2>2, <2>3 DEF CallStack, OpAt, Above, Below
<1>7. \A k \in Key : References(k)' = References(k)
  <2> TAKE k \in Key
  <2>1. References(k)' = handles[k] + AttrRefs(attr, k) + BuilderRefs(builder, k)
                         + Cardinality(ParentsIn(Live, k)) + Count(Dec(k), w)
    BY <1>2, <1>5, ReferencesNext
  <2>2. Count(Dec(k), work) = 0
    BY <1>2, CountEmpty
  <2>3. Count(Dec(k), w) = 0
    <3>1. \A i \in 1..Len(w) : w[i] # Dec(k)
      BY <1>1, <1>3, OpIs
    <3> QED
      BY <1>3, <3>1, CountZero
  <2> QED
    BY <2>1, <2>2, <2>3, ReferencesIs
<1>8. Exact' /\ NoneLeft' /\ Placed'
  BY <1>2, <1>4, <1>5, <1>7, BalanceKept
<1>9. Typed'
  <2>1. Typed
    BY DEF IInv
  <2>2. TypeOK'
    BY <1>2, <2>1 DEF Typed, TypeOK
  <2>3. \A i \in 1..Len(work') : work'[i].op \notin {"dec", "free", "return"}
    BY <1>2, <1>3
  <2> QED
    BY <1>2, <1>3, <2>1, <2>2, <2>3 DEF Typed
<1>10. Phased' /\ phase' # "sorting"
  <2>1. Phased
    BY DEF IInv
  <2> QED
    BY <1>2, <2>1 DEF Phased
<1>11. Ordered'
  BY <1>2, OrderKept DEF IInv
<1> QED
  BY <1>6, <1>8, <1>9, <1>10, <1>11, Gather

\* A set that is measured by numbers up to n has a largest member.
LEMMA LargestIn ==
    ASSUME NEW n \in Nat, NEW size, NEW P, P # {}, \A x \in P : size[x] \in 0..n
    PROVE  \E x \in P : \A y \in P : size[y] <= size[x]
<1> DEFINE U == {n - size[x] : x \in P}
<1>1. U \subseteq Nat /\ U # {}
  <2>1. \A x \in P : n - size[x] \in Nat /\ n - size[x] \in U
    OBVIOUS
  <2> QED
    BY <2>1
<1>2. PICK u \in U : \A v \in U : ~(<<v, u>> \in OpToRel(<, Nat))
  BY <1>1, NatLessThanWellFounded, WFMin
<1>3. PICK x \in P : u = n - size[x]
  OBVIOUS
<1>4. \A y \in P : ~(n - size[y] < n - size[x])
  BY <1>1, <1>2, <1>3 DEF OpToRel
<1> QED
  BY <1>3, <1>4

\* What is left when the destructor has collected is below the last node of the
\* order: a node that is not pinned has a parent, and the largest has none.
LEMMA Topmost ==
    ASSUME IInv, phase = "deleting", work = <<>>, zombies = {},
           NEW D \in SUBSET Key, Closed(D), NEW m, Pinned \subseteq D \union {m}
    PROVE  Live \subseteq D \/ (m \in Live \ D /\ \A j \in Live : \A i \in DOMAIN Children[j] : Children[j][i] # m)
<1> SUFFICES ASSUME ~(Live \subseteq D)
             PROVE  m \in Live \ D /\ \A j \in Live : \A i \in DOMAIN Children[j] : Children[j][i] # m
  OBVIOUS
<1>1. PICK size \in [Key -> 0..Cardinality(Key)] : IsSize(size)
  BY NodeAssumption DEF IsSize
<1>2. Cardinality(Key) \in Nat /\ \A k \in Key : size[k] \in 0..Cardinality(Key)
  BY <1>1, Terms, FS_CardinalityType
<1>3. collecting = {} /\ Live = allocated /\ Live \subseteq Key
  BY IdleIs
<1>4. PICK x \in Live \ D : \A y \in Live \ D : size[y] <= size[x]
  <2>1. PICK P, n : P = Live \ D /\ n = Cardinality(Key)
    OBVIOUS
  <2>2. P # {} /\ n \in Nat /\ \A y \in P : size[y] \in 0..n
    BY <1>2, <1>3, <2>1
  <2>3. \E x \in P : \A y \in P : size[y] <= size[x]
    BY <2>2, LargestIn
  <2> QED
    BY <2>1, <2>3
<1>5. \A j \in Live : \A i \in DOMAIN Children[j] : Children[j][i] # x
  <2> SUFFICES ASSUME NEW j \in Live, NEW i \in DOMAIN Children[j], Children[j][i] = x
               PROVE  FALSE
    OBVIOUS
  <2>1. j \in Key /\ x \in Key /\ size[x] < size[j]
    BY <1>1, <1>3 DEF IsSize
  <2>2. j \notin D
    BY <1>4 DEF Closed
  <2>3. size[j] <= size[x]
    BY <1>4, <2>2
  <2> QED
    BY <1>2, <2>1, <2>3
<1>6. x = m
  <2> SUFFICES ASSUME x # m
               PROVE  FALSE
    OBVIOUS
  <2>1. x \in Key /\ x \in Live /\ x \notin Pinned
    BY <1>3, <1>4
  <2>2. rc[x] = References(x) /\ rc[x] # 0
    <3>1. x \notin zombies \union collecting
      BY <1>3
    <3> QED
      BY <2>1, <3>1, ExactAt
  <2>3. handles[x] = 0 /\ AttrRefs(attr, x) = 0 /\ BuilderRefs(builder, x) = 0
    <3>1. builder = None /\ (\A k \in Key : attr[k] = None) /\ (\A k \in Key : handles[k] = 0)
      BY DeletingIs
    <3>2. AttrRefs(attr, x) = 0
      BY <2>1, <3>1, AttrNone
    <3> QED
      BY <2>1, <3>1, <3>2 DEF BuilderRefs
  <2>4. Cardinality(ParentsIn(Live, x)) = 0
    <3>1. Live \in SUBSET Key
      BY <1>3
    <3> QED
      BY <1>5, <3>1, ParentsZero
  <2>5. Count(Dec(x), work) = 0
    BY CountEmpty
  <2>6. References(x) = handles[x] + AttrRefs(attr, x) + BuilderRefs(builder, x)
                        + Cardinality(ParentsIn(Live, x)) + Count(Dec(x), work)
    BY ReferencesIs
  <2> QED
    BY <2>2, <2>3, <2>4, <2>5, <2>6
<1> QED
  BY <1>4, <1>5, <1>6

\* An empty sequence has no members.
LEMMA NoneIn ==
    ToSet(<<>>) = {}
  BY DEF ToSet

\* Nothing refers to the last node of the order any more.
LEMMA DeleteMaxedOutInv ==
    ASSUME IInv, DeleteMaxedOut
    PROVE  IInv'
<1>1. PICK n, m, f : n = Len(order) /\ m = order[n] /\ f = Front(order)
  OBVIOUS
<1>2. Last(order) = m
  BY <1>1 DEF Last
<1>3. /\ phase = "deleting" /\ work = <<>> /\ zombies = {} /\ order # <<>>
      /\ rc' = [rc EXCEPT ![m] = 0] /\ zombies' = {m} /\ order' = f
      /\ allocated' = allocated /\ pool' = pool /\ maxedOut' = maxedOut /\ inReclaim' = inReclaim
      /\ collecting' = collecting /\ work' = work /\ handles' = handles /\ attr' = attr
      /\ builder' = builder /\ root' = root /\ stack' = stack /\ visited' = visited /\ phase' = phase
  BY <1>1, <1>2 DEF DeleteMaxedOut
<1>4. collecting = {} /\ inReclaim = FALSE /\ Dying = {} /\ Live = allocated /\ Decs(work) /\ Live \subseteq Key
  BY <1>3, IdleIs
<1>5. /\ order \in Seq(Key) /\ Ordered /\ maxedOut = <<>> /\ failed = {} /\ MaxRC \in Nat \ {0, 1}
      /\ rc \in [Key -> 0..MaxRC] /\ allocated \subseteq Key /\ pool \subseteq Pooled
      /\ handles \in [Key -> 0..MaxHandles] /\ attr \in [Key -> Key \union {None}]
      /\ builder \in Key \union {None}
  BY <1>3, DeletingIs
<1>6. n \in Nat \ {0} /\ m \in Key /\ f \in Seq(Key) /\ Len(f) = n - 1 /\ \A i \in 1..n - 1 : f[i] = order[i]
  BY <1>1, <1>3, <1>5, FrontIs
<1>7. Distinct(order)
  BY <1>5, OrderDistinct
<1>8. Pinned = ToSet(order) /\ Pinned' = ToSet(f)
  <2>1. ToSet(maxedOut) = {} /\ ToSet(maxedOut') = {}
    BY <1>3, <1>5, NoneIn
  <2> QED
    BY <1>3, <2>1 DEF Pinned
<1>9. /\ \A x : x \in ToSet(order) <=> \E i \in 1..n : order[i] = x
      /\ \A x : x \in ToSet(f) <=> \E i \in 1..n - 1 : f[i] = x
  <2>1. \A x : x \in ToSet(order) <=> \E i \in 1..n : order[i] = x
    BY <1>1, <1>5, ToSetIs
  <2>2. \A x : x \in ToSet(f) <=> \E i \in 1..n - 1 : f[i] = x
    BY <1>6, ToSetIs
  <2> QED
    BY <2>1, <2>2
<1>10. \A i \in 1..n : i = n \/ i \in 1..n - 1
  BY <1>6
<1>11. Pinned' = Pinned \ {m} /\ m \in Pinned
  <2>1. n \in 1..n /\ \A i \in 1..n - 1 : i \in 1..n /\ i # n
    BY <1>6
  <2>2. \A i \in 1..n - 1 : order[i] # m
    BY <1>1, <1>7, <2>1 DEF Distinct
  <2>3. \A x : x \in ToSet(f) <=> x \in ToSet(order) /\ x # m
    BY <1>1, <1>6, <1>9, <1>10, <2>1, <2>2
  <2>4. m \in ToSet(order)
    BY <1>1, <1>9, <2>1
  <2> QED
    BY <1>8, <2>3, <2>4
<1>12. m \in Live /\ rc[m] = MaxRC /\ failed' = {}
  <2>1. m \in Live
    BY <1>11 DEF IInv, Placed
  <2>2. rc[m] = MaxRC
    BY <1>11, <2>1, ExactAt
  <2>3. failed' = IF m \in allocated /\ rc[m] = MaxRC THEN failed ELSE failed \union {"maxed out"}
    BY <1>2 DEF DeleteMaxedOut, Failing
  <2> QED
    BY <1>4, <1>5, <2>1, <2>2, <2>3
<1>13. \A j \in Live : \A i \in DOMAIN Children[j] : Children[j][i] # m
  <2>1. n \in 1..Len(order)
    BY <1>1, <1>6
  <2>2. PICK D \in SUBSET Key : Closed(D) /\ order[n] \notin D /\ \A j \in 1..n - 1 : order[j] \in D
    BY <1>5, <2>1 DEF Ordered
  <2>3. Pinned \subseteq D \union {m}
    BY <1>1, <1>8, <1>9, <1>10, <2>2
  <2>4. m \notin D
    BY <1>1, <2>2
  <2>5. Live \subseteq D \/ (m \in Live \ D /\ \A j \in Live : \A i \in DOMAIN Children[j] : Children[j][i] # m)
    BY <1>3, <2>2, <2>3, Topmost
  <2> QED
    BY <1>12, <2>4, <2>5
<1>14. References(m) = 0
  <2>1. builder = None /\ (\A k \in Key : attr[k] = None) /\ (\A k \in Key : handles[k] = 0)
    BY <1>3, DeletingIs
  <2>2. AttrRefs(attr, m) = 0
    BY <1>6, <2>1, AttrNone
  <2>3. handles[m] = 0 /\ BuilderRefs(builder, m) = 0
    BY <1>6, <2>1 DEF BuilderRefs
  <2>4. Cardinality(ParentsIn(Live, m)) = 0
    <3>1. Live \in SUBSET Key
      BY <1>4
    <3> QED
      BY <1>13, <3>1, ParentsZero
  <2>5. Count(Dec(m), work) = 0
    BY <1>3, CountEmpty
  <2>6. References(m) = handles[m] + AttrRefs(attr, m) + BuilderRefs(builder, m)
                        + Cardinality(ParentsIn(Live, m)) + Count(Dec(m), work)
    BY ReferencesIs
  <2> QED
    BY <2>2, <2>3, <2>4, <2>5, <2>6
<1>15. CallStack' /\ Dying' = {} /\ Live' = Live
  <2>1. ~inReclaim' /\ collecting' = {} /\ work' = work /\ allocated' = allocated
    BY <1>3, <1>4
  <2> QED
    BY <1>4, <2>1, DecsCallStackNext
<1>16. \A k \in Key : References(k)' = References(k)
  <2> TAKE k \in Key
  <2>1. References(k)' = handles[k] + AttrRefs(attr, k) + BuilderRefs(builder, k)
                         + Cardinality(ParentsIn(Live, k)) + Count(Dec(k), work)
    BY <1>3, <1>15, ReferencesNext
  <2> QED
    BY <2>1, ReferencesIs
<1>17. Exact'
  <2> SUFFICES ASSUME NEW k \in Live
               PROVE  IF k \in Pinned' THEN rc'[k] = MaxRC ELSE rc'[k] < MaxRC /\ rc'[k] = References(k)'
    BY <1>15 DEF Exact
  <2>1. k \in Key /\ References(k)' = References(k)
    BY <1>4, <1>16
  <2>2. CASE k = m
    <3>1. rc'[k] = 0 /\ k \notin Pinned'
      BY <1>3, <1>5, <1>11, <2>1, <2>2
    <3>2. References(k)' = 0
      BY <1>14, <2>1, <2>2
    <3> QED
      BY <1>5, <3>1, <3>2
  <2>3. CASE k # m
    <3>1. rc'[k] = rc[k] /\ (k \in Pinned' <=> k \in Pinned)
      BY <1>3, <1>5, <1>11, <2>1, <2>3
    <3> QED
      BY <2>1, <3>1, ExactAt
  <2> QED
    BY <2>2, <2>3
<1>18. NoneLeft'
  <2> SUFFICES ASSUME NEW k \in Key \ Live
               PROVE  References(k)' = 0
    BY <1>15 DEF NoneLeft
  <2> QED
    BY <1>16 DEF IInv, NoneLeft
<1>19. Placed'
  <2>1. /\ Pinned \subseteq Live /\ pool = Live \intersect Pooled
        /\ \A k \in Live : rc[k] = 0 => k \in zombies \union collecting
    BY DEF IInv, Placed
  <2>2. \A k \in Live : rc'[k] = 0 => k = m
    BY <1>3, <1>4, <1>5, <2>1
  <2> QED
    BY <1>3, <1>4, <1>11, <1>12, <1>15, <2>1, <2>2 DEF Placed
<1>20. Typed'
  <2>1. Typed
    BY DEF IInv
  <2>2. rc' \in [Key -> 0..MaxRC] /\ zombies' \subseteq Key /\ order' \in Seq(Key)
    <3>1. 0 \in 0..MaxRC
      BY <1>5
    <3> QED
      BY <1>3, <1>5, <1>6, <3>1
  <2>3. TypeOK'
    BY <1>3, <2>1, <2>2 DEF Typed, TypeOK
  <2> QED
    BY <1>3, <1>12, <2>1, <2>3 DEF Typed
<1>21. Phased' /\ phase' # "sorting"
  <2>1. Phased
    BY DEF IInv
  <2> QED
    BY <1>3, <2>1 DEF Phased
<1>22. Ordered'
  <2> SUFFICES ASSUME NEW i \in 1..n - 1
               PROVE  \E D \in SUBSET Key : Closed(D) /\ f[i] \notin D /\ \A j \in 1..i - 1 : f[j] \in D
    BY <1>3, <1>6 DEF Ordered, Closed
  <2>1. i \in 1..Len(order) /\ f[i] = order[i] /\ \A j \in 1..i - 1 : j \in 1..n - 1
    BY <1>1, <1>6
  <2>2. PICK D \in SUBSET Key : Closed(D) /\ order[i] \notin D /\ \A j \in 1..i - 1 : order[j] \in D
    BY <1>5, <2>1 DEF Ordered
  <2> QED
    BY <1>6, <2>1, <2>2
<1> QED
  BY <1>15, <1>17, <1>18, <1>19, <1>20, <1>21, <1>22, Gather

\* Without maxed out nodes nothing is left.
LEMMA FinishInv ==
    ASSUME IInv, Finish
    PROVE  IInv'
<1>1. /\ phase = "deleting" /\ work = <<>> /\ zombies = {} /\ order = <<>> /\ phase' = "gone"
      /\ rc' = rc /\ zombies' = zombies /\ order' = order /\ failed' = failed
      /\ allocated' = allocated /\ pool' = pool /\ maxedOut' = maxedOut /\ inReclaim' = inReclaim
      /\ collecting' = collecting /\ work' = work /\ handles' = handles /\ attr' = attr
      /\ builder' = builder /\ root' = root /\ stack' = stack /\ visited' = visited
  BY DEF Finish
<1>2. Quiet
  BY <1>1 DEF Quiet
<1>3. /\ builder = None /\ (\A k \in Key : attr[k] = None) /\ (\A k \in Key : handles[k] = 0)
      /\ maxedOut = <<>> /\ stack = <<>> /\ visited = {} /\ root = 0
  BY <1>1, DeletingIs
<1>4. Pinned = {} /\ Pinned' = Pinned
  BY <1>1, <1>3 DEF Pinned, ToSet
<1>5. Exact' /\ NoneLeft' /\ Placed' /\ CallStack' /\ Live = allocated
  BY <1>2, <1>4, QuietKept
<1>6. allocated = {}
  <2>1. {} \in SUBSET Key /\ Closed({}) /\ Pinned \subseteq {} \union {None}
    BY <1>4 DEF Closed
  <2>2. Live \subseteq {} \/ None \in Live
    BY <1>1, <2>1, Topmost
  <2>3. Live \subseteq Key /\ None \notin Key
    BY <1>1, Terms, IdleIs
  <2> QED
    BY <1>5, <2>2, <2>3
<1>7. Typed'
  <2>1. Typed
    BY DEF IInv
  <2>2. TypeOK'
    BY <1>1, <2>1 DEF Typed, TypeOK
  <2> QED
    BY <1>1, <2>1, <2>2 DEF Typed
<1>8. Phased' /\ phase' # "sorting"
  <2>1. Distinct(maxedOut)
    BY DEF IInv, Phased
  <2> QED
    BY <1>1, <1>3, <1>6, <2>1 DEF Phased
<1>9. Ordered'
  BY <1>1, OrderKept DEF IInv
<1> QED
  BY <1>5, <1>7, <1>8, <1>9, Gather

-----------------------------------------------------------------------------
(* The invariant, and what it says.                                        *)

LEMMA InitInv ==
    ASSUME Init
    PROVE  IInv
<1>1. /\ rc = [k \in Key |-> 0] /\ allocated = {} /\ pool = {} /\ zombies = {} /\ maxedOut = <<>>
      /\ inReclaim = FALSE /\ collecting = {} /\ work = <<>> /\ handles = [k \in Key |-> 0]
      /\ attr = [k \in Key |-> None] /\ builder = None /\ root = 0 /\ stack = <<>> /\ visited = {}
      /\ order = <<>> /\ phase = "alive" /\ failed = {}
  BY DEF Init
<1>2. MaxRC \in Nat \ {0, 1} /\ MaxHandles \in Nat \ {0} /\ None \notin Key
  BY NodeAssumption
<1>3. Live = {} /\ Dying = {}
  BY <1>1 DEF Live, Dying
<1>4. Typed
  <2>1. TypeOK
    <3>1. 0 \in 0..MaxRC /\ 0 \in 0..MaxHandles
      BY <1>2
    <3>2. {maxedOut, order} \subseteq Seq(Key)
      BY <1>1, EmptySeq
    <3>3. /\ rc \in [Key -> 0..MaxRC] /\ handles \in [Key -> 0..MaxHandles]
          /\ attr \in [Key -> Key \union {None}]
      BY <1>1, <3>1
    <3>4. inReclaim \in BOOLEAN
      BY <1>1
    <3>5. phase \in {"alive", "tables", "sorting", "deleting", "gone"}
      BY <1>1
    <3> QED
      BY <1>1, <3>2, <3>3, <3>4, <3>5 DEF TypeOK
  <2>2. work \in Seq(Calls) /\ stack \in Seq(Entries) /\ Len(work) = 0
    BY <1>1, EmptySeq
  <2> QED
    BY <1>1, <2>1, <2>2 DEF Typed
<1>5. Exact
  BY <1>3 DEF Exact
<1>6. NoneLeft
  <2> SUFFICES ASSUME NEW k \in Key
               PROVE  References(k) = 0
    BY <1>3 DEF NoneLeft
  <2>1. AttrRefs(attr, k) = 0
    <3>1. \A j \in Key : attr[j] = None
      BY <1>1
    <3> QED
      BY <3>1, AttrNone
  <2>2. handles[k] = 0 /\ BuilderRefs(builder, k) = 0
    BY <1>1 DEF BuilderRefs
  <2>3. Cardinality(ParentsIn(Live, k)) = 0
    <3>1. {} \in SUBSET Key
      OBVIOUS
    <3>2. \A j \in {} : \A i \in DOMAIN Children[j] : Children[j][i] # k
      OBVIOUS
    <3> QED
      BY <1>3, <3>1, <3>2, ParentsZero
  <2>4. Count(Dec(k), work) = 0
    BY <1>1, CountEmpty
  <2> QED
    BY <2>1, <2>2, <2>3, <2>4, ReferencesIs
<1>7. Placed
  <2>1. Pinned = {}
    BY <1>1, NoneIn DEF Pinned
  <2> QED
    BY <1>1, <1>3, <2>1 DEF Placed
<1>8. CallStack
  <2>1. work \in Seq(Calls) /\ Len(work) = 0 /\ ~inReclaim
    BY <1>1, EmptySeq
  <2> QED
    BY <1>1, <2>1 DEF CallStack
<1>9. Phased /\ Ordered
  <2>1. Len(maxedOut) = 0 /\ Len(order) = 0
    BY <1>1
  <2>2. Distinct(maxedOut)
    BY <2>1 DEF Distinct
  <2>3. \A k \in Key : attr[k] = None
    BY <1>1
  <2>4. Phased
    BY <1>1, <2>2 DEF Phased
  <2>5. Ordered
    BY <2>1 DEF Ordered
  <2> QED
    BY <2>4, <2>5
<1>10. phase # "sorting"
  BY <1>1
<1> QED
  BY <1>4, <1>5, <1>6, <1>7, <1>8, <1>9, <1>10 DEF IInv

\* A step that changes nothing.
LEMMA StutterInv ==
    ASSUME IInv, UNCHANGED vars
    PROVE  IInv'
<1>1. /\ rc' = rc /\ allocated' = allocated /\ pool' = pool /\ zombies' = zombies
      /\ maxedOut' = maxedOut /\ inReclaim' = inReclaim /\ collecting' = collecting
      /\ work' = work /\ handles' = handles /\ attr' = attr /\ builder' = builder
      /\ root' = root /\ stack' = stack /\ visited' = visited /\ order' = order
      /\ phase' = phase /\ failed' = failed
  BY DEF vars
<1>2. Typed'
  BY <1>1 DEF IInv, Typed, TypeOK
<1>3. Live' = Live /\ Dying' = Dying /\ Pinned' = Pinned
  BY <1>1 DEF Live, Dying, Pinned
<1>4. \A k \in Key : References(k)' = References(k)
  <2> TAKE k \in Key
  <2>1. References(k)' = handles[k] + AttrRefs(attr, k) + BuilderRefs(builder, k)
                         + Cardinality(ParentsIn(Live, k)) + Count(Dec(k), work)
    BY <1>1, <1>3, ReferencesNext
  <2> QED
    BY <2>1, ReferencesIs
<1>5. Exact' /\ NoneLeft' /\ Placed'
  BY <1>1, <1>3, <1>4, BalanceKept
<1>6. CallStack'
  BY <1>1, <1>3 DEF IInv, CallStack, OpAt, Above, Below
<1>7. Phased' /\ Ordered'
  BY <1>1 DEF IInv, Phased, Ordered
<1>8. ASSUME phase' = "sorting", NEW size \in [Key -> 0..Cardinality(Key)], IsSize(size)
      PROVE  Sorting(size)'
  <2>1. Sorting(size)
    BY <1>1, <1>8, SortingIs
  <2>2. Waiting' = Waiting /\ Finished' = Finished
    BY <1>1 DEF Waiting, Finished
  <2> QED
    BY <1>1, <2>1, <2>2 DEF Sorting, Closed
<1> QED
  BY <1>2, <1>5, <1>6, <1>7, <1>8 DEF IInv

LEMMA NextInv ==
    ASSUME IInv, [Next]_vars
    PROVE  IInv'
<1>1. CASE UNCHANGED vars
  BY <1>1, StutterInv
<1>2. CASE Progress
  BY <1>2, RunDecInv, RunReclaimInv, RunCollectInv, RunCollectedInv, RunFreeInv, RunReturnInv,
     RunAttributesDeletedInv, SortRootInv, SortVisitInv, EndSortInv, DeleteZombiesInv, DeleteMaxedOutInv,
     FinishInv DEF Progress
<1>3. CASE BuildFromPool \/ BuildNew \/ DropBuilder \/ DeleteAllAttributes \/ ClearTables
  BY <1>3, BuildFromPoolInv, BuildNewInv, DropBuilderInv, DeleteAllAttributesInv, ClearTablesInv
<1>4. ASSUME NEW k \in Key, CopyNode(k) \/ DropNode(k) \/ MkVar(k) \/ StartBuilder(k)
      PROVE  IInv'
  BY <1>4, CopyNodeInv, DropNodeInv, MkVarInv, StartBuilderInv
<1>5. ASSUME NEW k \in Key, NEW j \in Key, SetAttribute(k, j)
      PROVE  IInv'
  BY <1>5, SetAttributeInv
<1> QED
  BY <1>1, <1>2, <1>3, <1>4, <1>5 DEF Next

\* The invariant holds in every state: it does at the start, and each call of the
\* program, of the collection and of the destructor keeps it.
THEOREM Inductive == Spec => []IInv
<1>1. Init => IInv
  BY InitInv
<1>2. IInv /\ [Next]_vars => IInv'
  BY NextInv
<1> QED
  BY <1>1, <1>2, PTL DEF Spec

\* d_rc is the number of references, or has been at its maximum and stays there,
\* whatever the program does, in the middle of a collection and in the destructor.
THEOREM CountsExactHolds == Spec => []CountsExact
<1>1. IInv => CountsExact
  BY DEF IInv, Typed, Exact, CountsExact
<1> QED
  BY <1>1, Inductive, PTL

\* inc, dec, reclaimZombies, the pool and ~NodeManager touch no freed node value,
\* and no Assert of theirs fails: what refers to a node keeps it allocated.
THEOREM NoUseAfterFreeHolds == Spec => []NoUseAfterFree
<1>1. ASSUME IInv
      PROVE  NoUseAfterFree
  <2>1. failed = {} /\ work \in Seq(Calls) /\ Live \subseteq Key /\ Live \subseteq allocated
    BY <1>1 DEF IInv, Typed, Live
  <2>2. zombies \union collecting \union Pinned \subseteq allocated /\ pool = Live \intersect Pooled
    BY <1>1, <2>1 DEF IInv, Placed
  <2>3. ASSUME NEW k \in Live
        PROVE  ToSet(Children[k]) \subseteq allocated
    <3>1. Children[k] \in Seq(Key) /\ DOMAIN Children[k] = 1..Len(Children[k])
      BY <2>1, Terms
    <3>2. ASSUME NEW i \in DOMAIN Children[k]
          PROVE  Children[k][i] \in allocated
      <4>1. PICK c : c = Children[k][i]
        OBVIOUS
      <4>2. c \in Key
        BY <2>1, <3>1, <4>1, Terms
      <4>3. Live \in SUBSET Key
        BY <2>1
      <4>4. Cardinality(ParentsIn(Live, c)) # 0 /\ Cardinality(ParentsIn(Live, c)) \in Nat
        BY <3>2, <4>1, <4>3, ParentsZero, ParentsFinite
      <4>5. Cardinality(ParentsIn(Live, c)) > 0
        BY <4>4
      <4>6. c \in Live
        BY <1>1, <4>2, <4>5, HandledLive
      <4> QED
        BY <2>1, <4>1, <4>6
    <3> QED
      BY <3>2 DEF ToSet
  <2>4. ASSUME NEW i \in DOMAIN work, work[i].op = "return"
        PROVE  work[i].key \in pool
    <3>1. i \in 1..Len(work)
      BY <2>1, <2>4, Ranges
    <3>2. work[i].key \in Live \intersect Pooled
      BY <1>1, <2>4, <3>1 DEF IInv, CallStack, OpAt
    <3> QED
      BY <2>2, <3>2
  <2> QED
    BY <2>1, <2>2, <2>3, <2>4 DEF NoUseAfterFree
<1> QED
  BY <1>1, Inductive, PTL

\* A node value without references is a zombie or about to be collected, the pool
\* has just the nodes that are not being deleted, and ~NodeManager frees them all.
THEOREM NothingLostHolds == Spec => []NothingLost
<1>1. IInv => NothingLost
  BY DEF IInv, Placed, Phased, NothingLost
<1> QED
  BY <1>1, Inductive, PTL
=============================================================================
