----------------------- MODULE ContextContainersProofs -----------------------
(***************************************************************************)
(* A CDQueue, a CDTrailQueue, a CDInsertHashMap and a CDHashMap restore    *)
(* what they held at every level, for any number of elements, keys and     *)
(* levels.                                                                 *)
(***************************************************************************)
EXTENDS ContextContainers, ContextHashMap, ContextObj, WellFoundedInduction, SequenceTheorems,
        FiniteSetTheorems, TLAPS

-----------------------------------------------------------------------------
(* ContextObj: the versions of one object. *)

\* The saved copies were current at lower and lower levels, down to level 0, so
\* that every level has its version.
Chain(x, top) ==
    /\ x.scope \in 0..top
    /\ \A i \in DOMAIN x.saved : x.saved[i].scope \in 0..x.scope - 1
    /\ \A i, j \in DOMAIN x.saved : i < j => x.saved[i].scope < x.saved[j].scope
    /\ x.scope > 0 => x.saved # << >> /\ x.saved[1].scope = 0

\* What is saved after restoreAndContinue().
OlderCopies(x) == SubSeq(x.saved, 1, Len(x.saved) - 1)

\* A set of positions has a last one.
LEMMA LastOf ==
    ASSUME NEW n \in Nat, NEW I, I \subseteq 1..n, I # {}
    PROVE  \E i \in I : \A j \in I : j <= i
<1> DEFINE U == {n - i : i \in I}
<1>1. U \subseteq Nat /\ U # {}
  <2>1. \A i \in I : n - i \in Nat /\ n - i \in U
    OBVIOUS
  <2> QED
    BY <2>1
<1>2. PICK u \in U : \A v \in U : ~(<<v, u>> \in OpToRel(<, Nat))
  BY <1>1, NatLessThanWellFounded, WFMin
<1>3. PICK i \in I : u = n - i
  OBVIOUS
<1>4. \A j \in I : ~(n - j < n - i)
  BY <1>1, <1>2, <1>3 DEF OpToRel
<1> QED
  BY <1>3, <1>4

\* What VersionAt chooses.
LEMMA VersionIs ==
    ASSUME NEW x, NEW S, x.saved \in Seq(S), NEW l, ~(x.scope <= l),
           NEW i \in DOMAIN x.saved, x.saved[i].scope <= l,
           \A j \in DOMAIN x.saved : x.saved[j].scope <= l => j <= i
    PROVE  VersionAt(x, l) = x.saved[i]
<1> DEFINE older == {j \in DOMAIN x.saved : x.saved[j].scope <= l}
           c == CHOOSE k \in older : \A j \in older : j <= k
<1>1. i \in older /\ \A j \in older : j <= i
  OBVIOUS
<1>2. c \in older /\ \A j \in older : j <= c
  BY <1>1
<1>3. c <= i /\ i <= c /\ c \in Nat /\ i \in Nat
  BY <1>1, <1>2
<1>4. c = i
  BY <1>3
<1> QED
  BY <1>4 DEF VersionAt

\* Below the level at which an object was modified there is a copy for each level.
LEMMA VersionFound ==
    ASSUME NEW x, NEW S, x.saved \in Seq(S), NEW top \in Nat, Chain(x, top),
           NEW l \in Nat, ~(x.scope <= l)
    PROVE  \E i \in DOMAIN x.saved :
              /\ VersionAt(x, l) = x.saved[i] /\ x.saved[i].scope <= l
              /\ \A j \in DOMAIN x.saved : x.saved[j].scope <= l => j <= i
<1> DEFINE older == {j \in DOMAIN x.saved : x.saved[j].scope <= l}
<1>1. Len(x.saved) \in Nat /\ DOMAIN x.saved = 1..Len(x.saved)
  OBVIOUS
<1>2. 1 \in older
  BY <1>1 DEF Chain
<1>3. PICK i \in older : \A j \in older : j <= i
  BY <1>1, <1>2, LastOf
<1>4. \A j \in DOMAIN x.saved : x.saved[j].scope <= l => j <= i
  BY <1>3
<1>5. VersionAt(x, l) = x.saved[i]
  BY <1>3, <1>4, VersionIs
<1> QED
  BY <1>3, <1>4, <1>5

\* makeCurrent() and a change of the object: the levels below keep their versions,
\* the copy being the version of those above the last change.
LEMMA Written ==
    ASSUME NEW x, NEW S, x.saved \in Seq(S), NEW top \in Nat, Chain(x, top),
           NEW copy \in S, copy.scope = x.scope,
           NEW y, y.scope = top,
           y.saved = IF x.scope = top THEN x.saved ELSE Append(x.saved, copy)
    PROVE  /\ y.saved \in Seq(S) /\ Chain(y, top) /\ VersionAt(y, top) = y
           /\ \A l \in 0..top - 1 :
                 VersionAt(y, l) = IF x.scope <= l THEN copy ELSE VersionAt(x, l)
<1> DEFINE n == Len(x.saved)
<1>1. /\ n \in Nat /\ DOMAIN x.saved = 1..n
      /\ x.scope \in Nat /\ x.scope <= top
      /\ \A i \in 1..n : x.saved[i].scope \in Nat /\ x.saved[i].scope < x.scope
  BY SMTT(30) DEF Chain
<1>a. \A i, j \in 1..n : i < j => x.saved[i].scope < x.saved[j].scope
  BY <1>1 DEF Chain
<1>2. VersionAt(y, top) = y
  BY DEF VersionAt
<1>3. CASE x.scope = top
  <2>1. y.saved = x.saved
    BY <1>3
  <2>2. Chain(y, top)
    BY <1>3, <2>1 DEF Chain
  <2>3. \A l \in 0..top - 1 : VersionAt(y, l) = VersionAt(x, l)
    BY <1>3, <2>1 DEF VersionAt
  <2> QED
    BY <1>1, <1>2, <1>3, <2>1, <2>2, <2>3
<1>4. CASE x.scope # top
  <2>1. /\ y.saved = Append(x.saved, copy) /\ y.saved \in Seq(S) /\ Len(y.saved) = n + 1
        /\ DOMAIN y.saved = 1..n + 1
        /\ \A i \in 1..n : y.saved[i] = x.saved[i]
        /\ y.saved[n + 1] = copy
    BY <1>1, <1>4
  <2>2. x.scope < top
    BY <1>1, <1>4
  <2>3. Chain(y, top)
    <3>1. \A i \in 1..n + 1 : y.saved[i].scope \in 0..top - 1
      BY SMTT(30), <1>1, <2>1, <2>2
    <3>2. \A i, j \in 1..n + 1 : i < j => y.saved[i].scope < y.saved[j].scope
      <4> TAKE i, j \in 1..n + 1
      <4> HAVE i < j
      <4>1. CASE j \in 1..n
        BY <1>1, <1>a, <2>1, <4>1
      <4>2. CASE j = n + 1
        BY <1>1, <2>1, <4>2
      <4>3. j \in 1..n \/ j = n + 1
        <5>1. n \in Nat
          BY <1>1
        <5> QED
          BY <5>1
      <4> QED
        BY <4>1, <4>2, <4>3
    <3>3. y.saved # << >> /\ y.saved[1].scope = 0
      <4>1. CASE n = 0
        BY <1>1, <2>1, <4>1 DEF Chain
      <4>2. CASE n # 0
        BY SMTT(30), <1>1, <2>1, <4>2 DEF Chain
      <4> QED
        BY <4>1, <4>2
    <3>4. y.scope \in 0..top /\ DOMAIN y.saved = 1..n + 1
      BY <2>1
    <3> QED
      BY <3>1, <3>2, <3>3, <3>4 DEF Chain
  <2>4. ASSUME NEW l \in 0..top - 1
        PROVE  VersionAt(y, l) = IF x.scope <= l THEN copy ELSE VersionAt(x, l)
    <3>0. ~(y.scope <= l) /\ l \in Nat
      OBVIOUS
    <3>1. CASE x.scope <= l
      <4>1. n + 1 \in DOMAIN y.saved /\ y.saved[n + 1].scope <= l /\ \A j \in DOMAIN y.saved : j <= n + 1
        BY <1>1, <2>1, <3>1
      <4> QED
        BY <2>1, <3>0, <3>1, <4>1, VersionIs
    <3>2. CASE ~(x.scope <= l)
      <4>1. PICK i \in DOMAIN x.saved :
              /\ VersionAt(x, l) = x.saved[i] /\ x.saved[i].scope <= l
              /\ \A j \in DOMAIN x.saved : x.saved[j].scope <= l => j <= i
        BY <3>0, <3>2, VersionFound
      <4>2. /\ i \in DOMAIN y.saved /\ y.saved[i].scope <= l /\ y.saved[i] = x.saved[i]
            /\ \A j \in DOMAIN y.saved : y.saved[j].scope <= l => j <= i
        BY SMTT(30), <1>1, <2>1, <3>2, <4>1
      <4>3. VersionAt(y, l) = y.saved[i]
        BY <2>1, <3>0, <4>2, VersionIs
      <4> QED
        BY <3>2, <4>1, <4>2, <4>3
    <3> QED
      BY <3>1, <3>2
  <2> QED
    BY <1>2, <2>1, <2>3, <2>4
<1> QED
  BY <1>3, <1>4

\* restoreAndContinue(): the versions of the levels below stay, the last copy
\* being what the object is restored to.
LEMMA Restored ==
    ASSUME NEW x, NEW S, x.saved \in Seq(S), NEW top \in Nat, top > 0, Chain(x, top), x.scope = top,
           NEW z, z.scope = LastCopy(x).scope, z.saved = OlderCopies(x)
    PROVE  /\ LastCopy(x) \in S
           /\ z.saved \in Seq(S) /\ Chain(z, top - 1)
           /\ \A l \in 0..top - 1 : z.scope <= l => VersionAt(z, l) = z
           /\ \A l \in 0..top - 1 : z.scope <= l => VersionAt(x, l) = LastCopy(x)
           /\ \A l \in 0..top - 1 : ~(z.scope <= l) => VersionAt(z, l) = VersionAt(x, l)
<1> DEFINE n == Len(x.saved)
           copy == LastCopy(x)
<1>1. /\ n \in Nat \ {0} /\ DOMAIN x.saved = 1..n
      /\ \A i \in 1..n : x.saved[i].scope \in Nat /\ x.saved[i].scope < top
  BY DEF Chain
<1>a. \A i, j \in 1..n : i < j => x.saved[i].scope < x.saved[j].scope
  BY <1>1 DEF Chain
<1>2. copy = x.saved[n] /\ copy \in S /\ z.scope \in 0..top - 1 /\ z.scope = copy.scope
  BY <1>1 DEF LastCopy
<1>3. /\ z.saved \in Seq(S) /\ Len(z.saved) = n - 1 /\ DOMAIN z.saved = 1..n - 1
      /\ \A i \in 1..n - 1 : z.saved[i] = x.saved[i]
  BY <1>1 DEF OlderCopies
<1>b. \A i \in 1..n - 1 : i \in 1..n
  BY <1>1
<1>4. \A i \in 1..n - 1 : x.saved[i].scope < copy.scope
  BY <1>1, <1>a, <1>2
<1> HIDE DEF copy
<1>5. Chain(z, top - 1)
  <2>1. \A i \in 1..n - 1 : z.saved[i].scope \in 0..z.scope - 1
    <3> TAKE i \in 1..n - 1
    <3>1. z.saved[i].scope = x.saved[i].scope /\ x.saved[i].scope \in Nat
      BY <1>1, <1>b, <1>3
    <3>2. x.saved[i].scope < z.scope /\ z.scope \in Nat
      BY <1>2, <1>4
    <3> QED
      BY SMTT(30), <3>1, <3>2
  <2>2. \A i, j \in 1..n - 1 : i < j => z.saved[i].scope < z.saved[j].scope
    BY <1>a, <1>b, <1>3
  <2>3. z.scope > 0 => z.saved # << >> /\ z.saved[1].scope = 0
    <3> SUFFICES ASSUME z.scope > 0 PROVE z.saved # << >> /\ z.saved[1].scope = 0
      OBVIOUS
    <3>1. x.saved[1].scope = 0
      BY <1>1 DEF Chain
    <3>2. n # 1
      BY <1>2, <3>1
    <3>a. n \in Nat \ {0}
      BY <1>1
    <3>3. 1 <= n - 1
      <4> HIDE DEF n
      <4> QED
        BY <3>2, <3>a
    <3>4. z.saved[1] = x.saved[1] /\ Len(z.saved) # 0
      BY <1>1, <1>3, <3>3
    <3> QED
      BY <3>1, <3>4
  <2> QED
    BY <1>2, <1>3, <2>1, <2>2, <2>3 DEF Chain
<1>6. ASSUME NEW l \in 0..top - 1, z.scope <= l
      PROVE  VersionAt(z, l) = z /\ VersionAt(x, l) = copy
  <2>1. ~(x.scope <= l) /\ n \in DOMAIN x.saved /\ x.saved[n].scope <= l
        /\ \A j \in DOMAIN x.saved : j <= n
    BY <1>1, <1>2, <1>6
  <2>2. VersionAt(x, l) = x.saved[n]
    BY <2>1, VersionIs
  <2> QED
    BY <1>2, <1>6, <2>2 DEF VersionAt
<1>7. ASSUME NEW l \in 0..top - 1, ~(z.scope <= l)
      PROVE  VersionAt(z, l) = VersionAt(x, l)
  <2>1. ~(x.scope <= l) /\ l \in Nat
    OBVIOUS
  <2>2. PICK i \in DOMAIN x.saved :
              /\ VersionAt(x, l) = x.saved[i] /\ x.saved[i].scope <= l
              /\ \A j \in DOMAIN x.saved : x.saved[j].scope <= l => j <= i
    BY <2>1, VersionFound
  <2>3. i # n
    BY <1>2, <1>7, <2>2
  <2>4. /\ i \in DOMAIN z.saved /\ z.saved[i] = x.saved[i] /\ z.saved[i].scope <= l
        /\ \A j \in DOMAIN z.saved : z.saved[j].scope <= l => j <= i
    <3>1. i \in 1..n - 1
      <4> HIDE DEF n
      <4> QED
        BY <1>1, <2>2, <2>3
    <3>2. z.saved[i] = x.saved[i] /\ DOMAIN z.saved = 1..n - 1
      BY <1>3, <3>1
    <3>3. ASSUME NEW j \in 1..n - 1, z.saved[j].scope <= l PROVE j <= i
      BY <1>1, <1>b, <1>3, <2>2, <3>3
    <3> QED
      BY <2>2, <3>1, <3>2, <3>3
  <2>5. VersionAt(z, l) = z.saved[i]
    BY <1>3, <1>7, <2>4, VersionIs
  <2> QED
    BY <2>2, <2>4, <2>5
<1> QED
  BY <1>2, <1>3, <1>5, <1>6, <1>7 DEF copy

\* A pop that does not concern the object, and a push.
LEMMA Kept ==
    ASSUME NEW x, NEW top \in Nat, Chain(x, top)
    PROVE  /\ Chain(x, top + 1) /\ VersionAt(x, top + 1) = x /\ VersionAt(x, top) = x
           /\ ~InScope(x, top) /\ top > 0 => Chain(x, top - 1)
BY DEF Chain, VersionAt, InScope
-----------------------------------------------------------------------------
(* Slices of a sequence: what is between two indices. *)

LEMMA SliceIs ==
    ASSUME NEW S, NEW d \in Seq(S), NEW a \in Nat, NEW b \in Nat, b <= Len(d)
    PROVE  /\ SubSeq(d, a + 1, b) \in Seq(S)
           /\ Len(SubSeq(d, a + 1, b)) = IF a < b THEN b - a ELSE 0
           /\ \A i \in 1..b - a : SubSeq(d, a + 1, b)[i] = d[a + i]
<1>1. \A i \in a + 1..b : d[i] \in S
  OBVIOUS
<1>2. /\ SubSeq(d, a + 1, b) \in Seq(S)
      /\ Len(SubSeq(d, a + 1, b)) = IF a + 1 <= b THEN b - (a + 1) + 1 ELSE 0
      /\ \A i \in 1..b - (a + 1) + 1 : SubSeq(d, a + 1, b)[i] = d[(a + 1) + i - 1]
  BY SMTT(30), <1>1, SubSeqProperties
<1>3. \A i \in 1..b - a : SubSeq(d, a + 1, b)[i] = d[a + i]
  <2> TAKE i \in 1..b - a
  <2>1. i \in 1..b - (a + 1) + 1 /\ (a + 1) + i - 1 = a + i
    OBVIOUS
  <2> QED
    BY <1>2, <2>1
<1> QED
  BY <1>2, <1>3

LEMMA PrefixIs ==
    ASSUME NEW S, NEW d \in Seq(S), NEW b \in Nat, b <= Len(d)
    PROVE  /\ SubSeq(d, 1, b) \in Seq(S) /\ Len(SubSeq(d, 1, b)) = b
           /\ \A i \in 1..b : SubSeq(d, 1, b)[i] = d[i]
OBVIOUS

\* A slice does not see what is appended or cut off behind it.
LEMMA SliceOfMore ==
    ASSUME NEW S, NEW d \in Seq(S), NEW f \in Seq(S), NEW a \in Nat, NEW b \in Nat,
           b <= Len(d), b <= Len(f), \A i \in 1..b : f[i] = d[i]
    PROVE  SubSeq(f, a + 1, b) = SubSeq(d, a + 1, b)
<1>1. /\ SubSeq(d, a + 1, b) \in Seq(S) /\ SubSeq(f, a + 1, b) \in Seq(S)
      /\ Len(SubSeq(d, a + 1, b)) = Len(SubSeq(f, a + 1, b))
      /\ Len(SubSeq(d, a + 1, b)) = IF a < b THEN b - a ELSE 0
      /\ \A i \in 1..b - a : SubSeq(d, a + 1, b)[i] = d[a + i]
      /\ \A i \in 1..b - a : SubSeq(f, a + 1, b)[i] = f[a + i]
  BY SMTT(30), SliceIs
<1>2. \A i \in 1..Len(SubSeq(d, a + 1, b)) : i \in 1..b - a /\ a + i \in 1..b
  BY <1>1
<1>3. \A i \in 1..Len(SubSeq(d, a + 1, b)) : SubSeq(f, a + 1, b)[i] = SubSeq(d, a + 1, b)[i]
  BY <1>1, <1>2
<1> QED
  BY <1>1, <1>3, SeqEqual

\* A sequence that is one element longer.
LEMMA AppendIs ==
    ASSUME NEW V, NEW n \in Nat, NEW v \in [1..n -> V], NEW w \in [1..n + 1 -> V], NEW e \in V,
           \A i \in 1..n : v[i] = w[i], w[n + 1] = e
    PROVE  w = Append(v, e)
<1>1. v \in Seq(V) /\ Len(v) = n /\ w \in Seq(V) /\ Len(w) = n + 1
  OBVIOUS
<1>2. /\ Append(v, e) \in Seq(V) /\ Len(Append(v, e)) = n + 1
      /\ \A i \in 1..n : Append(v, e)[i] = v[i]
      /\ Append(v, e)[n + 1] = e
  BY <1>1
<1>3. \A i \in 1..n + 1 : i \in 1..n \/ i = n + 1
  OBVIOUS
<1>4. \A i \in 1..n + 1 : w[i] = Append(v, e)[i]
  BY <1>2, <1>3
<1> QED
  BY <1>1, <1>2, <1>4, SeqEqual

\* A slice up to the end grows with the sequence.
LEMMA SliceAppended ==
    ASSUME NEW S, NEW d \in Seq(S), NEW e \in S, NEW a \in Nat, a <= Len(d)
    PROVE  SubSeq(Append(d, e), a + 1, Len(d) + 1) = Append(SubSeq(d, a + 1, Len(d)), e)
<1> DEFINE n == Len(d)
           f == Append(d, e)
           p == SubSeq(d, a + 1, n)
           q == SubSeq(f, a + 1, n + 1)
<1>1. /\ n \in Nat /\ f \in Seq(S) /\ Len(f) = n + 1 /\ a <= n
      /\ \A i \in 1..n : f[i] = d[i]
      /\ f[n + 1] = e
  OBVIOUS
<1>2. p \in Seq(S) /\ Len(p) = n - a /\ \A i \in 1..n - a : p[i] = d[a + i]
  BY <1>1, SliceIs
<1>3. q \in Seq(S) /\ Len(q) = n + 1 - a /\ \A i \in 1..n + 1 - a : q[i] = f[a + i]
  BY <1>1, SliceIs
<1> HIDE DEF n, f, p, q
<1>4. /\ Append(p, e) \in Seq(S) /\ Len(Append(p, e)) = (n - a) + 1
      /\ \A i \in 1..n - a : Append(p, e)[i] = p[i]
      /\ Append(p, e)[(n - a) + 1] = e
  BY <1>2
<1>5. ASSUME NEW i \in 1..n + 1 - a PROVE q[i] = Append(p, e)[i]
  <2>0. i \in 1..n - a \/ i = (n - a) + 1
    <3>1. n \in Nat /\ a <= n
      BY <1>1
    <3> QED
      BY <3>1
  <2>1. CASE i \in 1..n - a
    <3>1. a + i \in 1..n
      BY SMTT(30), <1>1, <2>1
    <3> QED
      BY ZenonT(60), <1>1, <1>2, <1>3, <1>4, <2>1, <3>1
  <2>2. CASE i = (n - a) + 1
    <3>1. a + i = n + 1
      BY <1>1, <2>2
    <3> QED
      BY <1>1, <1>3, <1>4, <2>2, <3>1
  <2> QED
    BY <2>0, <2>1, <2>2
<1>6. Len(q) = Len(Append(p, e))
  BY SMTT(30), <1>1, <1>3, <1>4
<1>7. q = Append(p, e)
  BY <1>3, <1>4, <1>5, <1>6, SeqEqual
<1> QED
  BY <1>7 DEF n, f, p, q

\* A slice without its first element is its tail.
LEMMA SliceTail ==
    ASSUME NEW S, NEW d \in Seq(S), NEW a \in Nat, NEW b \in Nat, a < b, b <= Len(d)
    PROVE  SubSeq(d, a + 1, b) # << >> /\ SubSeq(d, (a + 1) + 1, b) = Tail(SubSeq(d, a + 1, b))
<1> DEFINE p == SubSeq(d, a + 1, b)
           q == SubSeq(d, (a + 1) + 1, b)
<1>1. p \in Seq(S) /\ Len(p) = b - a /\ \A i \in 1..b - a : p[i] = d[a + i]
  BY SliceIs
<1>2. q \in Seq(S) /\ Len(q) = b - (a + 1) /\ \A i \in 1..b - (a + 1) : q[i] = d[(a + 1) + i]
  <2>1. a + 1 \in Nat
    OBVIOUS
  <2>2. /\ q \in Seq(S) /\ Len(q) = IF a + 1 < b THEN b - (a + 1) ELSE 0
        /\ \A i \in 1..b - (a + 1) : q[i] = d[(a + 1) + i]
    BY <2>1, SliceIs
  <2> QED
    BY <2>2
<1> HIDE DEF p, q
<1>3. p # << >>
  BY <1>1
<1>4. Tail(p) \in Seq(S) /\ Len(Tail(p)) = Len(p) - 1 /\ \A i \in 1..Len(p) - 1 : Tail(p)[i] = p[i + 1]
  BY <1>1, <1>3, HeadTailProperties
<1>5. ASSUME NEW i \in 1..b - (a + 1) PROVE q[i] = Tail(p)[i]
  <2>1. i \in Int /\ i + 1 \in 1..b - a /\ a + (i + 1) = (a + 1) + i
    OBVIOUS
  <2>2. i \in 1..Len(p) - 1
    BY <1>1
  <2>3. Tail(p)[i] = p[i + 1] /\ p[i + 1] = d[a + (i + 1)] /\ q[i] = d[(a + 1) + i]
    BY <1>1, <1>2, <1>4, <2>1, <2>2
  <2> QED
    BY <2>1, <2>3
<1>6. Len(q) = Len(Tail(p))
  BY <1>1, <1>2, <1>4
<1>7. q = Tail(p)
  BY <1>2, <1>4, <1>5, <1>6, SeqEqual
<1> QED
  BY <1>3, <1>7 DEF p, q
\* The elements behind an index.
LEMMA ToSetOfSlice ==
    ASSUME NEW S, NEW d \in Seq(S), NEW a \in Nat, a <= Len(d)
    PROVE  M!ToSet(SubSeq(d, a + 1, Len(d))) = {d[i] : i \in a + 1..Len(d)}
<1> DEFINE n == Len(d)
           q == SubSeq(d, a + 1, n)
<1>0. n \in Nat /\ n <= Len(d) /\ a <= n
  OBVIOUS
<1>1. q \in Seq(S) /\ Len(q) = n - a /\ \A i \in 1..n - a : q[i] = d[a + i]
  BY <1>0, SliceIs
<1> HIDE DEF q, n
<1>2. M!ToSet(q) = {q[i] : i \in 1..n - a}
  <2>1. DOMAIN q = 1..n - a
    BY <1>0, <1>1
  <2> QED
    BY <2>1 DEF M!ToSet
<1>3. ASSUME NEW i \in 1..n - a PROVE \E j \in a + 1..n : d[j] = q[i]
  <2>1. a + i \in a + 1..n
    BY <1>0
  <2> QED
    BY <1>1, <2>1
<1>4. ASSUME NEW j \in a + 1..n PROVE \E i \in 1..n - a : d[j] = q[i]
  <2>1. j - a \in 1..n - a /\ a + (j - a) = j
    BY <1>0
  <2>2. q[j - a] = d[j]
    BY <1>1, <2>1
  <2> QED
    BY <2>1, <2>2
<1>5. {q[i] : i \in 1..n - a} = {d[j] : j \in a + 1..n}
  <2>1. \A x \in {q[i] : i \in 1..n - a} : x \in {d[j] : j \in a + 1..n}
    BY <1>3
  <2>2. \A x \in {d[j] : j \in a + 1..n} : x \in {q[i] : i \in 1..n - a}
    BY <1>4
  <2> QED
    BY <2>1, <2>2, Zenon
<1> QED
  BY <1>2, <1>5 DEF q, n

-----------------------------------------------------------------------------
(* CDTrailQueue: the list and the index of its front. *)

ListT == [scope : Nat, saved : Seq([scope : Nat, size : Nat]),
          d_list : Seq(1..MaxElem), size : Nat]
IterT == [scope : Nat, saved : Seq([scope : Nat, data : Nat]), data : Nat]

\* CDList::push_back: the levels below keep their sizes.
LEMMA ListPushed ==
    ASSUME NEW x \in ListT, NEW top \in Nat, Chain(x, top), NEW e \in 1..MaxElem,
           NEW y, y = T!PushBack(x, top, e)
    PROVE  /\ y \in ListT /\ Chain(y, top)
           /\ y.d_list = Append(x.d_list, e) /\ y.size = x.size + 1
           /\ \A l \in 0..top - 1 : VersionAt(y, l).size = VersionAt(x, l).size
<1> DEFINE copy == [scope |-> x.scope, size |-> x.size]
           S == [scope : Nat, size : Nat]
<1>1. copy \in S /\ copy.scope = x.scope /\ copy.size = x.size /\ x.saved \in Seq(S)
  BY DEF ListT
<1>2. /\ y = [scope |-> top, saved |-> IF x.scope = top THEN x.saved ELSE Append(x.saved, copy),
              d_list |-> Append(x.d_list, e), size |-> x.size + 1]
  <2> HIDE DEF copy
  <2>1. CASE x.scope = top
    BY <2>1 DEF T!PushBack, T!MakeCurrent, ListT, copy
  <2>2. CASE x.scope # top
    BY <2>2 DEF T!PushBack, T!MakeCurrent, ListT, copy
  <2> QED
    BY <2>1, <2>2
<1> HIDE DEF copy, S
<1>3. /\ y.scope = top /\ y.d_list = Append(x.d_list, e) /\ y.size = x.size + 1
      /\ y.saved = IF x.scope = top THEN x.saved ELSE Append(x.saved, copy)
  BY <1>2
<1>4. /\ y.saved \in Seq(S) /\ Chain(y, top)
      /\ \A l \in 0..top - 1 :
            VersionAt(y, l) = IF x.scope <= l THEN copy ELSE VersionAt(x, l)
  BY SMTT(30), <1>1, <1>3, Written
<1>5. \A l \in 0..top - 1 : VersionAt(y, l).size = VersionAt(x, l).size
  BY ZenonT(60), <1>1, <1>4 DEF VersionAt
<1>6. y.d_list \in Seq(1..MaxElem) /\ y.size \in Nat
  BY <1>3 DEF ListT
<1>7. y \in ListT
  BY <1>2, <1>3, <1>4, <1>6 DEF ListT, S
<1> QED
  BY <1>3, <1>4, <1>5, <1>7

\* CDList::restore.
LEMMA ListRestored ==
    ASSUME NEW x \in ListT, NEW top \in Nat, top > 0, Chain(x, top), x.scope = top,
           VersionAt(x, top - 1).size <= Len(x.d_list),
           NEW z, z = T!RestoreList(x)
    PROVE  /\ z \in ListT /\ Chain(z, top - 1)
           /\ z.size = VersionAt(x, top - 1).size
           /\ z.d_list = SubSeq(x.d_list, 1, z.size)
           /\ \A l \in 0..top - 1 : VersionAt(z, l).size = VersionAt(x, l).size
<1> DEFINE S == [scope : Nat, size : Nat]
           copy == LastCopy(x)
<1>1. x.saved \in Seq(S)
  BY DEF ListT
<1>c. copy = LastCopy(x)
  OBVIOUS
<1>2. z = [scope |-> copy.scope, saved |-> SubSeq(x.saved, 1, Len(x.saved) - 1),
           d_list |-> SubSeq(x.d_list, 1, copy.size), size |-> copy.size]
  BY DEF T!RestoreList, T!Continue, T!LastCopy, LastCopy, ListT
<1> HIDE DEF S, copy
<1>3. /\ z.scope = copy.scope /\ z.saved = SubSeq(x.saved, 1, Len(x.saved) - 1)
      /\ z.d_list = SubSeq(x.d_list, 1, copy.size) /\ z.size = copy.size
  <2> DEFINE sc == copy.scope
             sv == SubSeq(x.saved, 1, Len(x.saved) - 1)
             dl == SubSeq(x.d_list, 1, copy.size)
             sz == copy.size
  <2>1. z = [scope |-> sc, saved |-> sv, d_list |-> dl, size |-> sz]
    BY <1>2
  <2> HIDE DEF sc, sv, dl, sz
  <2>2. z.scope = sc /\ z.saved = sv /\ z.d_list = dl /\ z.size = sz
    BY <2>1
  <2> QED
    BY <2>2 DEF sc, sv, dl, sz
<1>d. z.scope = LastCopy(x).scope /\ z.saved = OlderCopies(x)
  BY <1>3, <1>c DEF OlderCopies
<1>4. /\ copy \in S /\ z.saved \in Seq(S) /\ Chain(z, top - 1)
      /\ \A l \in 0..top - 1 : z.scope <= l => VersionAt(z, l) = z
      /\ \A l \in 0..top - 1 : z.scope <= l => VersionAt(x, l) = copy
      /\ \A l \in 0..top - 1 : ~(z.scope <= l) => VersionAt(z, l) = VersionAt(x, l)
  BY SMTT(30), <1>1, <1>d, <1>c, Restored
<1>5. \A l \in 0..top - 1 : VersionAt(z, l).size = VersionAt(x, l).size
  BY <1>3, <1>4
<1>6. top - 1 \in 0..top - 1 /\ z.scope <= top - 1
  BY <1>4 DEF Chain
<1>7. VersionAt(x, top - 1) = copy /\ copy.size <= Len(x.d_list) /\ copy.size \in Nat /\ copy.scope \in Nat
  BY <1>4, <1>6 DEF S
<1>8. z.d_list \in Seq(1..MaxElem)
  <2>1. x.d_list \in Seq(1..MaxElem)
    BY DEF ListT
  <2>2. SubSeq(x.d_list, 0 + 1, copy.size) \in Seq(1..MaxElem)
    BY <1>7, <2>1, SliceIs
  <2> QED
    BY <1>3, <2>2
<1>9. z \in ListT
  BY <1>2, <1>3, <1>4, <1>7, <1>8 DEF ListT, S
<1> QED
  BY <1>3, <1>4, <1>5, <1>7, <1>9

\* CDO::set.
LEMMA IterSet ==
    ASSUME NEW x \in IterT, NEW top \in Nat, Chain(x, top), NEW v \in Nat,
           NEW y, y = T!Set(x, top, v)
    PROVE  /\ y \in IterT /\ Chain(y, top) /\ y.data = v
           /\ \A l \in 0..top - 1 : VersionAt(y, l).data = VersionAt(x, l).data
<1> DEFINE copy == [scope |-> x.scope, data |-> x.data]
           S == [scope : Nat, data : Nat]
<1>1. copy \in S /\ copy.scope = x.scope /\ copy.data = x.data /\ x.saved \in Seq(S)
  BY DEF IterT
<1>2. y = [scope |-> top, saved |-> IF x.scope = top THEN x.saved ELSE Append(x.saved, copy),
           data |-> v]
  <2> HIDE DEF copy
  <2>1. CASE x.scope = top
    BY <2>1 DEF T!Set, T!MakeCurrent, IterT, copy
  <2>2. CASE x.scope # top
    BY <2>2 DEF T!Set, T!MakeCurrent, IterT, copy
  <2> QED
    BY <2>1, <2>2
<1> HIDE DEF copy, S
<1>3. /\ y.scope = top /\ y.data = v
      /\ y.saved = IF x.scope = top THEN x.saved ELSE Append(x.saved, copy)
  BY <1>2
<1>4. /\ y.saved \in Seq(S) /\ Chain(y, top)
      /\ \A l \in 0..top - 1 :
            VersionAt(y, l) = IF x.scope <= l THEN copy ELSE VersionAt(x, l)
  BY <1>1, <1>3, Written
<1>5. \A l \in 0..top - 1 : VersionAt(y, l).data = VersionAt(x, l).data
  BY ZenonT(60), <1>1, <1>4 DEF VersionAt
<1>6. y \in IterT
  BY <1>2, <1>3, <1>4 DEF IterT, S
<1> QED
  BY <1>3, <1>4, <1>5, <1>6

\* CDO::restore.
LEMMA IterRestored ==
    ASSUME NEW x \in IterT, NEW top \in Nat, top > 0, Chain(x, top), x.scope = top,
           NEW z, z = T!RestoreIter(x)
    PROVE  /\ z \in IterT /\ Chain(z, top - 1)
           /\ \A l \in 0..top - 1 : VersionAt(z, l).data = VersionAt(x, l).data
<1> DEFINE S == [scope : Nat, data : Nat]
           copy == LastCopy(x)
<1>1. x.saved \in Seq(S)
  BY DEF IterT
<1>2. z = [scope |-> copy.scope, saved |-> SubSeq(x.saved, 1, Len(x.saved) - 1),
           data |-> copy.data]
  BY DEF T!RestoreIter, T!Continue, T!LastCopy, LastCopy, IterT
<1>c. copy = LastCopy(x)
  OBVIOUS
<1> HIDE DEF S, copy
<1>3. /\ z.scope = copy.scope /\ z.saved = SubSeq(x.saved, 1, Len(x.saved) - 1)
      /\ z.data = copy.data
  BY <1>2
<1>d. z.scope = LastCopy(x).scope /\ z.saved = OlderCopies(x)
  BY <1>3, <1>c DEF OlderCopies
<1>4. /\ copy \in S /\ z.saved \in Seq(S) /\ Chain(z, top - 1)
      /\ \A l \in 0..top - 1 : z.scope <= l => VersionAt(z, l) = z
      /\ \A l \in 0..top - 1 : z.scope <= l => VersionAt(x, l) = copy
      /\ \A l \in 0..top - 1 : ~(z.scope <= l) => VersionAt(z, l) = VersionAt(x, l)
  BY SMTT(30), <1>1, <1>d, <1>c, Restored
<1>5. \A l \in 0..top - 1 : VersionAt(z, l).data = VersionAt(x, l).data
  BY <1>3, <1>4
<1>6. z \in IterT
  BY <1>2, <1>3, <1>4 DEF IterT, S
<1> QED
  BY <1>4, <1>5, <1>6

\* The lengths in force at the levels.
Grows(x, top) == \A l, m \in 0..top : l <= m => VersionAt(x, l).size <= VersionAt(x, m).size

\* The inductive invariant of a CDTrailQueue with list ls and index it.
TGood(ls, it, top) ==
    /\ ls \in ListT /\ it \in IterT
    /\ Chain(ls, top) /\ Chain(it, top)
    /\ ls.size = Len(ls.d_list)
    /\ Grows(ls, top)
    /\ \A l \in 0..top : VersionAt(it, l).data <= VersionAt(ls, l).size

\* Its contents at level l.
TView(ls, it, l) == SubSeq(ls.d_list, VersionAt(it, l).data + 1, VersionAt(ls, l).size)

\* The versions have the types of the objects.
LEMMA ListVersion ==
    ASSUME NEW x \in ListT, NEW top \in Nat, Chain(x, top), NEW l \in Nat
    PROVE  VersionAt(x, l).size \in Nat
<1>0. x.saved \in Seq([scope : Nat, size : Nat])
  BY DEF ListT
<1>1. CASE x.scope <= l
  BY <1>1 DEF VersionAt, ListT
<1>2. CASE ~(x.scope <= l)
  <2>1. PICK i \in DOMAIN x.saved : VersionAt(x, l) = x.saved[i]
    BY <1>0, <1>2, VersionFound
  <2>2. x.saved[i] \in [scope : Nat, size : Nat]
    <3> DEFINE S == [scope : Nat, size : Nat]
    <3>1. x.saved \in Seq(S)
      BY <1>0
    <3> HIDE DEF S
    <3>2. x.saved[i] \in S
      BY <3>1
    <3> QED
      BY <3>2 DEF S
  <2> QED
    BY <2>1, <2>2
<1> QED
  BY <1>1, <1>2

LEMMA IterVersion ==
    ASSUME NEW x \in IterT, NEW top \in Nat, Chain(x, top), NEW l \in Nat
    PROVE  VersionAt(x, l).data \in Nat
<1>0. x.saved \in Seq([scope : Nat, data : Nat])
  BY DEF IterT
<1>1. CASE x.scope <= l
  BY <1>1 DEF VersionAt, IterT
<1>2. CASE ~(x.scope <= l)
  <2>1. PICK i \in DOMAIN x.saved : VersionAt(x, l) = x.saved[i]
    BY <1>0, <1>2, VersionFound
  <2>2. x.saved[i] \in [scope : Nat, data : Nat]
    <3> DEFINE S == [scope : Nat, data : Nat]
    <3>1. x.saved \in Seq(S)
      BY <1>0
    <3> HIDE DEF S
    <3>2. x.saved[i] \in S
      BY <3>1
    <3> QED
      BY <3>2 DEF S
  <2> QED
    BY <2>1, <2>2
<1> QED
  BY <1>1, <1>2

\* The object itself is its version at the top.
LEMMA Top ==
    ASSUME NEW x, NEW top \in Nat, Chain(x, top)
    PROVE  VersionAt(x, top) = x
BY DEF Chain, VersionAt

\* What TGood says of each level.
LEMMA TLevel ==
    ASSUME NEW ls, NEW it, NEW top \in Nat, TGood(ls, it, top), NEW l \in 0..top
    PROVE  /\ VersionAt(it, l).data \in Nat /\ VersionAt(ls, l).size \in Nat
           /\ VersionAt(it, l).data <= VersionAt(ls, l).size
           /\ VersionAt(ls, l).size <= Len(ls.d_list)
           /\ ls.d_list \in Seq(1..MaxElem) /\ Len(ls.d_list) \in Nat
<1>1. VersionAt(ls, l).size <= VersionAt(ls, top).size /\ VersionAt(ls, top) = ls
  BY Top DEF TGood, Grows
<1>2. ls.size = Len(ls.d_list) /\ ls.d_list \in Seq(1..MaxElem)
  BY DEF TGood, ListT
<1>3. VersionAt(it, l).data \in Nat /\ VersionAt(ls, l).size \in Nat
  BY ListVersion, IterVersion DEF TGood
<1>4. VersionAt(it, l).data <= VersionAt(ls, l).size
  BY DEF TGood
<1> QED
  BY <1>1, <1>2, <1>3, <1>4

LEMMA TEnqueued ==
    ASSUME NEW ls, NEW it, NEW top \in Nat, TGood(ls, it, top), NEW e \in 1..MaxElem,
           NEW y, y = T!PushBack(ls, top, e)
    PROVE  /\ TGood(y, it, top)
           /\ \A l \in 0..top - 1 : TView(y, it, l) = TView(ls, it, l)
           /\ TView(y, it, top) = Append(TView(ls, it, top), e)
<1> DEFINE n == Len(ls.d_list)
<1>0. ls \in ListT /\ it \in IterT /\ Chain(ls, top) /\ Chain(it, top)
  BY DEF TGood
<1>1. /\ y \in ListT /\ Chain(y, top)
      /\ y.d_list = Append(ls.d_list, e) /\ y.size = ls.size + 1
      /\ \A l \in 0..top - 1 : VersionAt(y, l).size = VersionAt(ls, l).size
  BY <1>0, ListPushed
<1>2. VersionAt(y, top) = y /\ VersionAt(ls, top) = ls /\ VersionAt(it, top) = it
  BY <1>0, <1>1, Top
<1>3. /\ n \in Nat /\ ls.size = n /\ y.size = n + 1 /\ Len(y.d_list) = n + 1
      /\ ls.d_list \in Seq(1..MaxElem) /\ y.d_list \in Seq(1..MaxElem)
      /\ it.data \in Nat /\ it.data <= n
      /\ \A i \in 1..n : y.d_list[i] = ls.d_list[i]
  <2>1. ls.d_list \in Seq(1..MaxElem) /\ ls.size = Len(ls.d_list)
    BY DEF TGood, ListT
  <2>2. top \in 0..top
    OBVIOUS
  <2>3. it.data \in Nat /\ it.data <= ls.size
    BY <1>2, <2>2, TLevel
  <2> QED
    BY <1>1, <2>1, <2>3
<1>4. \A l \in 0..top - 1 :
         /\ l \in 0..top
         /\ VersionAt(it, l).data \in Nat /\ VersionAt(ls, l).size \in Nat
         /\ VersionAt(it, l).data <= VersionAt(ls, l).size
         /\ VersionAt(ls, l).size <= n
  <2> TAKE l \in 0..top - 1
  <2>1. l \in 0..top
    OBVIOUS
  <2> QED
    BY <2>1, TLevel
<1>l. \A l \in 0..top : l = top \/ l \in 0..top - 1
  OBVIOUS
<1>5. Grows(y, top)
  <2>1. ASSUME NEW l \in 0..top, NEW m \in 0..top, l <= m
        PROVE  VersionAt(y, l).size <= VersionAt(y, m).size
    <3>1. CASE m = top /\ l = top
      BY <1>2, <1>3, <3>1
    <3>2. CASE m = top /\ l \in 0..top - 1
      <4>1. VersionAt(y, l).size \in Nat /\ VersionAt(y, l).size <= n /\ VersionAt(y, m).size = n + 1
        BY <1>1, <1>2, <1>3, <1>4, <3>2
      <4> QED
        BY <1>3, <4>1
    <3>3. CASE m \in 0..top - 1
      <4>1. l \in 0..top - 1
        BY <2>1, <3>3
      <4> QED
        BY <1>1, <1>4, <2>1, <3>3, <4>1 DEF TGood, Grows
    <3> QED
      BY <1>l, <3>1, <3>2, <3>3
  <2> QED
    BY <2>1 DEF Grows
<1>6. \A l \in 0..top : VersionAt(it, l).data <= VersionAt(y, l).size
  <2> TAKE l \in 0..top
  <2>1. CASE l = top
    BY <1>2, <1>3, <2>1
  <2>2. CASE l \in 0..top - 1
    BY <1>1, <1>4, <2>2
  <2> QED
    BY <1>l, <2>1, <2>2
<1>7. TGood(y, it, top)
  BY <1>0, <1>1, <1>3, <1>5, <1>6 DEF TGood
<1>8. ASSUME NEW l \in 0..top - 1 PROVE TView(y, it, l) = TView(ls, it, l)
  <2> DEFINE a == VersionAt(it, l).data
             b == VersionAt(ls, l).size
  <2>1. a \in Nat /\ b \in Nat /\ b <= n /\ VersionAt(y, l).size = b
    BY <1>1, <1>4
  <2> HIDE DEF a, b, n
  <2>2. b <= Len(y.d_list) /\ b <= Len(ls.d_list) /\ \A i \in 1..b : y.d_list[i] = ls.d_list[i]
    BY <1>3, <2>1 DEF n
  <2>3. SubSeq(y.d_list, a + 1, b) = SubSeq(ls.d_list, a + 1, b)
    BY <1>3, <2>1, <2>2, SliceOfMore
  <2> QED
    BY <2>1, <2>3 DEF TView, a, b
<1>9. TView(y, it, top) = Append(TView(ls, it, top), e)
  <2>1. TView(y, it, top) = SubSeq(Append(ls.d_list, e), it.data + 1, n + 1)
    BY <1>1, <1>2, <1>3 DEF TView
  <2>2. TView(ls, it, top) = SubSeq(ls.d_list, it.data + 1, n)
    BY <1>2, <1>3 DEF TView
  <2> QED
    BY ZenonT(60), <1>3, <2>1, <2>2, SliceAppended
<1> QED
  BY <1>7, <1>8, <1>9

LEMMA TDequeued ==
    ASSUME NEW ls, NEW it, NEW top \in Nat, TGood(ls, it, top), it.data < ls.size,
           NEW y, y = T!Set(it, top, it.data + 1)
    PROVE  /\ TGood(ls, y, top)
           /\ \A l \in 0..top - 1 : TView(ls, y, l) = TView(ls, it, l)
           /\ TView(ls, it, top) # << >>
           /\ TView(ls, y, top) = Tail(TView(ls, it, top))
<1>0. /\ ls \in ListT /\ it \in IterT /\ Chain(ls, top) /\ Chain(it, top)
      /\ it.data + 1 \in Nat /\ it.data \in Nat /\ ls.size = Len(ls.d_list)
      /\ ls.d_list \in Seq(1..MaxElem)
  BY DEF TGood, IterT, ListT
<1>1. /\ y \in IterT /\ Chain(y, top) /\ y.data = it.data + 1
      /\ \A l \in 0..top - 1 : VersionAt(y, l).data = VersionAt(it, l).data
  <2> DEFINE v == it.data + 1
  <2>1. v \in Nat /\ y = T!Set(it, top, v) /\ it \in IterT /\ Chain(it, top)
    BY <1>0
  <2> HIDE DEF v
  <2>2. /\ y \in IterT /\ Chain(y, top) /\ y.data = v
        /\ \A l \in 0..top - 1 : VersionAt(y, l).data = VersionAt(it, l).data
    BY SMTT(30), <2>1, IterSet
  <2> QED
    BY <2>2 DEF v
<1>2. VersionAt(y, top) = y /\ VersionAt(ls, top) = ls /\ VersionAt(it, top) = it
  BY <1>0, <1>1, Top
<1>3. \A l \in 0..top : VersionAt(y, l).data <= VersionAt(ls, l).size
  <2> TAKE l \in 0..top
  <2>1. CASE l = top
    <3>1. ls.size \in Nat
      BY <1>0
    <3> QED
      BY <1>0, <1>1, <1>2, <2>1, <3>1
  <2>2. CASE l \in 0..top - 1
    BY <1>1, <2>2 DEF TGood
  <2> QED
    BY <2>1, <2>2
<1>4. TGood(ls, y, top)
  BY <1>0, <1>1, <1>3 DEF TGood
<1>5. \A l \in 0..top - 1 : TView(ls, y, l) = TView(ls, it, l)
  BY <1>1 DEF TView
<1>6. /\ TView(ls, it, top) = SubSeq(ls.d_list, it.data + 1, ls.size)
      /\ TView(ls, y, top) = SubSeq(ls.d_list, (it.data + 1) + 1, ls.size)
  BY <1>1, <1>2 DEF TView
<1>7. ls.size \in Nat /\ ls.size <= Len(ls.d_list)
  BY <1>0
<1>8. /\ SubSeq(ls.d_list, it.data + 1, ls.size) # << >>
      /\ SubSeq(ls.d_list, (it.data + 1) + 1, ls.size)
           = Tail(SubSeq(ls.d_list, it.data + 1, ls.size))
  BY <1>0, <1>7, SliceTail
<1> QED
  BY <1>4, <1>5, <1>6, <1>8

LEMMA TPushed ==
    ASSUME NEW ls, NEW it, NEW top \in Nat, TGood(ls, it, top)
    PROVE  /\ TGood(ls, it, top + 1)
           /\ TView(ls, it, top + 1) = TView(ls, it, top)
<1>0. ls \in ListT /\ it \in IterT /\ Chain(ls, top) /\ Chain(it, top)
  BY DEF TGood
<1>1. /\ Chain(ls, top + 1) /\ VersionAt(ls, top + 1) = ls /\ VersionAt(ls, top) = ls
      /\ Chain(it, top + 1) /\ VersionAt(it, top + 1) = it /\ VersionAt(it, top) = it
  BY <1>0, Kept
<1>l. \A l \in 0..top + 1 : l = top + 1 \/ l \in 0..top
  OBVIOUS
<1>2. Grows(ls, top + 1)
  <2>1. ASSUME NEW l \in 0..top + 1, NEW m \in 0..top + 1, l <= m
        PROVE  VersionAt(ls, l).size <= VersionAt(ls, m).size
    <3>0. /\ ls.size \in Nat /\ top \in 0..top
          /\ \A k \in 0..top : VersionAt(ls, k).size <= VersionAt(ls, top).size
      BY <1>0 DEF TGood, Grows, ListT
    <3>1. CASE m = top + 1 /\ l = top + 1
      BY <1>1, <3>0, <3>1
    <3>2. CASE m = top + 1 /\ l \in 0..top
      BY <1>1, <3>0, <3>2
    <3>3. CASE m \in 0..top
      <4>1. l \in 0..top
        BY <2>1, <3>3
      <4> QED
        BY <2>1, <3>3, <4>1 DEF TGood, Grows
    <3> QED
      BY <1>l, <3>1, <3>2, <3>3
  <2> QED
    BY <2>1 DEF Grows
<1>3. \A l \in 0..top + 1 : VersionAt(it, l).data <= VersionAt(ls, l).size
  <2> TAKE l \in 0..top + 1
  <2>1. VersionAt(it, top).data <= VersionAt(ls, top).size
    BY DEF TGood
  <2>2. CASE l = top + 1
    BY <1>1, <2>1, <2>2
  <2>3. CASE l \in 0..top
    BY <2>3 DEF TGood
  <2> QED
    BY <1>l, <2>2, <2>3
<1> QED
  BY <1>0, <1>1, <1>2, <1>3 DEF TGood, TView

LEMMA TPopped ==
    ASSUME NEW ls, NEW it, NEW top \in Nat, top > 0, TGood(ls, it, top),
           NEW y, y = IF T!InScope(ls, top) THEN T!RestoreList(ls) ELSE ls,
           NEW z, z = IF T!InScope(it, top) THEN T!RestoreIter(it) ELSE it
    PROVE  /\ TGood(y, z, top - 1)
           /\ \A l \in 0..top - 1 : TView(y, z, l) = TView(ls, it, l)
<1>0. /\ ls \in ListT /\ it \in IterT /\ Chain(ls, top) /\ Chain(it, top)
      /\ top - 1 \in Nat /\ top - 1 \in 0..top
  BY DEF TGood
<1>l. \A l \in 0..top - 1 : l \in 0..top
  OBVIOUS
<1>1. /\ y \in ListT /\ Chain(y, top - 1)
      /\ \A l \in 0..top - 1 : VersionAt(y, l).size = VersionAt(ls, l).size
      /\ y = ls \/ y.d_list = SubSeq(ls.d_list, 1, y.size)
  <2>1. CASE ls.scope = top
    <3>1. y = T!RestoreList(ls)
      BY <2>1 DEF T!InScope
    <3>2. VersionAt(ls, top - 1).size <= Len(ls.d_list)
      BY <1>0, TLevel
    <3> QED
      BY <1>0, <2>1, <3>1, <3>2, ListRestored
  <2>2. CASE ls.scope # top
    <3>1. y = ls /\ ~InScope(ls, top)
      BY <2>2 DEF T!InScope, InScope
    <3>2. Chain(ls, top - 1)
      BY <1>0, <3>1, Kept
    <3> QED
      BY <1>0, <3>1, <3>2
  <2> QED
    BY <2>1, <2>2
<1>2. /\ z \in IterT /\ Chain(z, top - 1)
      /\ \A l \in 0..top - 1 : VersionAt(z, l).data = VersionAt(it, l).data
  <2>1. CASE it.scope = top
    <3>1. z = T!RestoreIter(it)
      BY <2>1 DEF T!InScope
    <3> QED
      BY <1>0, <2>1, <3>1, IterRestored
  <2>2. CASE it.scope # top
    <3>1. z = it /\ ~InScope(it, top)
      BY <2>2 DEF T!InScope, InScope
    <3>2. Chain(it, top - 1)
      BY <1>0, <3>1, Kept
    <3> QED
      BY <1>0, <3>1, <3>2
  <2> QED
    BY <2>1, <2>2
<1>3. VersionAt(y, top - 1) = y /\ y.size = VersionAt(ls, top - 1).size
  BY <1>0, <1>1, Top
<1>4. /\ y.size \in Nat /\ y.size <= Len(ls.d_list) /\ ls.d_list \in Seq(1..MaxElem)
      /\ Len(ls.d_list) \in Nat
  BY <1>0, <1>3, TLevel
<1>5. /\ y.size = Len(y.d_list)
      /\ \A i \in 1..y.size : y.d_list[i] = ls.d_list[i]
  <2>1. CASE y.d_list = SubSeq(ls.d_list, 1, y.size)
    BY <1>4, <2>1
  <2>2. CASE y = ls
    BY <2>2 DEF TGood
  <2> QED
    BY <1>1, <2>1, <2>2
<1>6. \A l \in 0..top - 1 :
         /\ VersionAt(ls, l).size \in Nat /\ VersionAt(it, l).data \in Nat
         /\ VersionAt(ls, l).size <= VersionAt(ls, top - 1).size
  BY <1>0, <1>l, TLevel DEF TGood, Grows
<1>7. Grows(y, top - 1)
  BY <1>1, <1>l DEF TGood, Grows
<1>8. \A l \in 0..top - 1 : VersionAt(z, l).data <= VersionAt(y, l).size
  BY <1>1, <1>2, <1>l DEF TGood
<1>9. TGood(y, z, top - 1)
  BY <1>1, <1>2, <1>5, <1>7, <1>8 DEF TGood
<1>10. ASSUME NEW l \in 0..top - 1 PROVE TView(y, z, l) = TView(ls, it, l)
  <2> DEFINE a == VersionAt(it, l).data
             b == VersionAt(ls, l).size
  <2>1. /\ a \in Nat /\ b \in Nat /\ b <= y.size
        /\ VersionAt(z, l).data = a /\ VersionAt(y, l).size = b
    BY <1>1, <1>2, <1>3, <1>6
  <2> HIDE DEF a, b
  <2>2. /\ b <= Len(y.d_list) /\ b <= Len(ls.d_list)
        /\ \A i \in 1..b : y.d_list[i] = ls.d_list[i]
    BY <1>4, <1>5, <2>1
  <2>3. y.d_list \in Seq(1..MaxElem)
    BY <1>1 DEF ListT
  <2>4. SubSeq(y.d_list, a + 1, b) = SubSeq(ls.d_list, a + 1, b)
    BY <1>4, <2>1, <2>2, <2>3, SliceOfMore
  <2> QED
    BY <2>1, <2>4 DEF TView, a, b
<1> QED
  BY <1>9, <1>10

TInv == level \in 0..MaxLevel /\ next \in 0..MaxElem /\ TGood(list, iter, level)

\* The snapshots that a CDTrailQueue stands for.
TSnap(ls, it, top) == [l \in 0..top |-> TView(ls, it, l)]

LEMMA TSnapIs ==
    [l \in 0..level |-> SubSeq(list.d_list, T!VersionAt(iter, l).data + 1,
                               T!VersionAt(list, l).size)] = TSnap(list, iter, level)
BY DEF TSnap, TView, T!VersionAt, VersionAt

LEMMA TSnapIsNext ==
    [l \in 0..level |-> SubSeq(list.d_list, T!VersionAt(iter, l).data + 1,
                               T!VersionAt(list, l).size)]' = TSnap(list', iter', level')
BY DEF TSnap, TView, T!VersionAt, VersionAt

LEMMA TInit ==
    ASSUME T!Init PROVE TInv /\ T!Queue!Init
<1>1. /\ level = 0 /\ next = 0 /\ list.saved = << >> /\ iter.saved = << >>
      /\ list.scope = 0 /\ iter.scope = 0 /\ list.d_list = << >> /\ list.size = 0 /\ iter.data = 0
  BY DEF T!Init
<1>2. list \in ListT
  BY DEF T!Init, ListT
<1>3. iter \in IterT
  BY DEF T!Init, IterT
<1>4. Chain(list, 0) /\ Chain(iter, 0)
  BY <1>1 DEF Chain
<1>5. VersionAt(list, 0) = list /\ VersionAt(iter, 0) = iter
  BY <1>1 DEF VersionAt
<1>6. TGood(list, iter, 0)
  BY <1>1, <1>2, <1>3, <1>4, <1>5 DEF TGood, Grows
<1>7. level \in 0..MaxLevel /\ next \in 0..MaxElem
  BY <1>1, BoundsAssumption
<1>8. TView(list, iter, 0) = << >>
  BY <1>1, <1>5 DEF TView
<1>9. TSnap(list, iter, level) = [l \in 0..0 |-> << >>]
  BY <1>1, <1>8 DEF TSnap
<1>10. T!Queue!Init
  BY <1>1, <1>9, TSnapIs DEF T!Queue!Init
<1> QED
  BY <1>1, <1>6, <1>7, <1>10 DEF TInv

LEMMA TStep ==
    ASSUME TInv, T!Next PROVE TInv' /\ T!Queue!Next
<1>0. level \in Nat /\ next \in Nat /\ MaxElem \in Nat /\ MaxLevel \in Nat /\ TGood(list, iter, level)
  BY BoundsAssumption DEF TInv
<1>1. CASE T!Enqueue
  <2> DEFINE e == next + 1
  <2>1. e \in 1..MaxElem /\ list' = T!PushBack(list, level, e) /\ iter' = iter /\ level' = level
        /\ next' = e
    BY <1>0, <1>1 DEF T!Enqueue
  <2> HIDE DEF e
  <2>2. /\ TGood(list', iter, level)
        /\ \A l \in 0..level - 1 : TView(list', iter, l) = TView(list, iter, l)
        /\ TView(list', iter, level) = Append(TView(list, iter, level), e)
    BY <1>0, <2>1, TEnqueued
  <2>3. TSnap(list', iter', level')
          = [TSnap(list, iter, level) EXCEPT ![level] = Append(@, e)]
    <3>1. ASSUME NEW l \in 0..level
          PROVE  TView(list', iter, l)
                   = IF l = level THEN Append(TView(list, iter, l), e) ELSE TView(list, iter, l)
      <4>1. l = level \/ l \in 0..level - 1
        BY <1>0
      <4> QED
        BY <2>2, <4>1
    <3> QED
      BY <1>0, <2>1, <3>1 DEF TSnap
  <2>4. T!Queue!Enqueue(e)
    BY <2>1, <2>3, TSnapIs, TSnapIsNext DEF T!Queue!Enqueue
  <2>5. TInv'
    BY <2>1, <2>2 DEF TInv
  <2> QED
    BY <2>1, <2>4, <2>5 DEF T!Queue!Next, T!Elem
<1>2. CASE T!Dequeue
  <2>1. /\ iter' = T!Set(iter, level, iter.data + 1) /\ list' = list /\ level' = level
        /\ next' = next /\ iter.data < list.size
    BY <1>2 DEF T!Dequeue
  <2>2. /\ TGood(list, iter', level)
        /\ \A l \in 0..level - 1 : TView(list, iter', l) = TView(list, iter, l)
        /\ TView(list, iter, level) # << >>
        /\ TView(list, iter', level) = Tail(TView(list, iter, level))
    BY <1>0, <2>1, TDequeued
  <2>3. TSnap(list', iter', level') = [TSnap(list, iter, level) EXCEPT ![level] = Tail(@)]
    <3>1. ASSUME NEW l \in 0..level
          PROVE  TView(list, iter', l)
                   = IF l = level THEN Tail(TView(list, iter, l)) ELSE TView(list, iter, l)
      <4>1. l = level \/ l \in 0..level - 1
        BY <1>0
      <4> QED
        BY <2>2, <4>1
    <3> QED
      BY <1>0, <2>1, <3>1 DEF TSnap
  <2>4. T!Queue!Dequeue
    <3>1. TSnap(list, iter, level)[level] # << >>
      BY <1>0, <2>2 DEF TSnap
    <3> QED
      BY <2>1, <2>3, <3>1, TSnapIs, TSnapIsNext DEF T!Queue!Dequeue
  <2>5. TInv'
    BY <2>1, <2>2 DEF TInv
  <2> QED
    BY <2>4, <2>5 DEF T!Queue!Next
<1>3. CASE T!Push
  <2>1. /\ iter' = iter /\ list' = list /\ level' = level + 1
        /\ next' = next /\ level < MaxLevel
    BY <1>3 DEF T!Push
  <2>2. /\ TGood(list, iter, level + 1)
        /\ TView(list, iter, level + 1) = TView(list, iter, level)
    BY <1>0, TPushed
  <2>3. TSnap(list', iter', level')
          = [l \in 0..level + 1 |-> IF l > level THEN TSnap(list, iter, level)[level]
                                    ELSE TSnap(list, iter, level)[l]]
    <3>1. ASSUME NEW l \in 0..level + 1
          PROVE  TView(list, iter, l)
                   = IF l > level THEN TView(list, iter, level) ELSE TView(list, iter, l)
      <4>1. l > level => l = level + 1
        BY <1>0
      <4> QED
        BY <2>2, <4>1
    <3>2. \A l \in 0..level + 1 : ~(l > level) => l \in 0..level
      BY <1>0
    <3> QED
      BY <1>0, <2>1, <3>1, <3>2 DEF TSnap
  <2>4. T!Queue!Push
    BY <2>1, <2>3, TSnapIs, TSnapIsNext DEF T!Queue!Push
  <2>5. TInv'
    BY <1>0, <2>1, <2>2 DEF TInv
  <2> QED
    BY <2>4, <2>5 DEF T!Queue!Next
<1>4. CASE T!Pop
  <2>1. /\ iter' = IF T!InScope(iter, level) THEN T!RestoreIter(iter) ELSE iter
        /\ list' = IF T!InScope(list, level) THEN T!RestoreList(list) ELSE list
        /\ level' = level - 1 /\ next' = next /\ level > 0
    BY <1>4 DEF T!Pop
  <2>2. /\ TGood(list', iter', level - 1)
        /\ \A l \in 0..level - 1 : TView(list', iter', l) = TView(list, iter, l)
    BY <1>0, <2>1, TPopped
  <2>3. TSnap(list', iter', level') = [l \in 0..level - 1 |-> TSnap(list, iter, level)[l]]
    BY <1>0, <2>1, <2>2 DEF TSnap
  <2>4. T!Queue!Pop
    BY <2>1, <2>3, TSnapIs, TSnapIsNext DEF T!Queue!Pop
  <2>5. TInv'
    BY <1>0, <2>1, <2>2 DEF TInv
  <2> QED
    BY <2>4, <2>5 DEF T!Queue!Next
<1> QED
  BY <1>1, <1>2, <1>3, <1>4 DEF T!Next

LEMMA TStutter ==
    ASSUME TInv, UNCHANGED <<level, next, list, iter>>
    PROVE  TInv' /\ UNCHANGED T!Queue!vars
<1>1. TSnap(list', iter', level') = TSnap(list, iter, level)
  OBVIOUS
<1>2. UNCHANGED T!Queue!vars
  BY <1>1, TSnapIs, TSnapIsNext DEF T!Queue!vars
<1> QED
  BY <1>2 DEF TInv

-----------------------------------------------------------------------------
(* CDInsertHashMap: the stack of the keys, and the size that is saved. *)

MapT == [scope : Nat, saved : Seq([scope : Nat, size : Nat]), size : Nat]

LEMMA MapVersion ==
    ASSUME NEW x \in MapT, NEW top \in Nat, Chain(x, top), NEW l \in Nat
    PROVE  VersionAt(x, l).size \in Nat
<1> DEFINE S == [scope : Nat, size : Nat]
<1>0. x.saved \in Seq(S)
  BY DEF MapT
<1>1. CASE x.scope <= l
  BY <1>1 DEF VersionAt, MapT
<1>2. CASE ~(x.scope <= l)
  <2> HIDE DEF S
  <2>1. PICK i \in DOMAIN x.saved : VersionAt(x, l) = x.saved[i]
    BY <1>0, <1>2, VersionFound
  <2>2. x.saved[i] \in S
    BY <1>0
  <2> QED
    BY <2>1, <2>2 DEF S
<1> QED
  BY <1>1, <1>2

\* What insert() and restore() make of the object itself.
MapInsert(x, top) ==
    [M!MakeCurrent(x, top, [scope |-> x.scope, size |-> x.size]) EXCEPT !.size = @ + 1]
MapRestore(x) == M!Continue([x EXCEPT !.size = M!LastCopy(x).size])

LEMMA MapInserted ==
    ASSUME NEW x \in MapT, NEW top \in Nat, Chain(x, top),
           NEW y, y = MapInsert(x, top)
    PROVE  /\ y \in MapT /\ Chain(y, top) /\ y.size = x.size + 1
           /\ \A l \in 0..top - 1 : VersionAt(y, l).size = VersionAt(x, l).size
<1> DEFINE copy == [scope |-> x.scope, size |-> x.size]
           S == [scope : Nat, size : Nat]
<1>1. copy \in S /\ copy.scope = x.scope /\ copy.size = x.size /\ x.saved \in Seq(S)
  BY DEF MapT
<1>2. y = [scope |-> top, saved |-> IF x.scope = top THEN x.saved ELSE Append(x.saved, copy),
           size |-> x.size + 1]
  <2> HIDE DEF copy
  <2>1. CASE x.scope = top
    BY <2>1 DEF MapInsert, M!MakeCurrent, MapT, copy
  <2>2. CASE x.scope # top
    BY <2>2 DEF MapInsert, M!MakeCurrent, MapT, copy
  <2> QED
    BY <2>1, <2>2
<1> HIDE DEF copy, S
<1>3. /\ y.scope = top /\ y.size = x.size + 1
      /\ y.saved = IF x.scope = top THEN x.saved ELSE Append(x.saved, copy)
  BY <1>2
<1>4. /\ y.saved \in Seq(S) /\ Chain(y, top)
      /\ \A l \in 0..top - 1 :
            VersionAt(y, l) = IF x.scope <= l THEN copy ELSE VersionAt(x, l)
  BY <1>1, <1>3, Written
<1>5. \A l \in 0..top - 1 : VersionAt(y, l).size = VersionAt(x, l).size
  BY ZenonT(60), <1>1, <1>4 DEF VersionAt
<1>6. y.size \in Nat
  BY <1>3 DEF MapT
<1>7. y \in MapT
  BY <1>2, <1>3, <1>4, <1>6 DEF MapT, S
<1> QED
  BY <1>3, <1>4, <1>5, <1>7

LEMMA MapRestored ==
    ASSUME NEW x \in MapT, NEW top \in Nat, top > 0, Chain(x, top), x.scope = top,
           NEW z, z = MapRestore(x)
    PROVE  /\ z \in MapT /\ Chain(z, top - 1) /\ z.size = M!LastCopy(x).size
           /\ \A l \in 0..top - 1 : VersionAt(z, l).size = VersionAt(x, l).size
<1> DEFINE S == [scope : Nat, size : Nat]
           copy == LastCopy(x)
<1>1. x.saved \in Seq(S)
  BY DEF MapT
<1>c. copy = LastCopy(x)
  OBVIOUS
<1>e. copy = M!LastCopy(x)
  BY DEF M!LastCopy, LastCopy
<1>2. z = [scope |-> copy.scope, saved |-> SubSeq(x.saved, 1, Len(x.saved) - 1),
           size |-> copy.size]
  BY DEF MapRestore, M!Continue, M!LastCopy, LastCopy, MapT
<1> HIDE DEF S, copy
<1>3. /\ z.scope = copy.scope /\ z.saved = SubSeq(x.saved, 1, Len(x.saved) - 1)
      /\ z.size = copy.size
  BY <1>2
<1>d. z.scope = LastCopy(x).scope /\ z.saved = OlderCopies(x)
  BY <1>3, <1>c DEF OlderCopies
<1>4. /\ copy \in S /\ z.saved \in Seq(S) /\ Chain(z, top - 1)
      /\ \A l \in 0..top - 1 : z.scope <= l => VersionAt(z, l) = z
      /\ \A l \in 0..top - 1 : z.scope <= l => VersionAt(x, l) = copy
      /\ \A l \in 0..top - 1 : ~(z.scope <= l) => VersionAt(z, l) = VersionAt(x, l)
  BY SMTT(30), <1>1, <1>d, <1>c, Restored
<1>5. \A l \in 0..top - 1 : VersionAt(z, l).size = VersionAt(x, l).size
  BY <1>3, <1>4
<1>6. z \in MapT
  BY <1>2, <1>3, <1>4 DEF MapT, S
<1> QED
  BY <1>3, <1>4, <1>5, <1>6, <1>e

\* The inductive invariant of a CDInsertHashMap.
MGood(mp, ks, hm, top) ==
    /\ mp \in MapT /\ Chain(mp, top) /\ Grows(mp, top)
    /\ ks \in Seq(Key) /\ Len(ks) = mp.size
    /\ \A i, j \in 1..mp.size : ks[i] = ks[j] => i = j
    /\ \A i \in 1..mp.size : ks[i] \in DOMAIN hm
    /\ \A k \in DOMAIN hm : hm[k] \in Data /\ \E i \in 1..mp.size : ks[i] = k

\* What insert() makes of the hash map, and pop_to_size(s) of the keys and of it.
Extended(hm, k, d) == [j \in DOMAIN hm \cup {k} |-> IF j = k THEN d ELSE hm[j]]
KeysTo(ks, s) == SubSeq(ks, 1, s)
ErasedTo(ks, hm, s) == [k \in DOMAIN hm \ M!ToSet(SubSeq(ks, s + 1, Len(ks))) |-> hm[k]]

Entry(k, d) == [key |-> k, data |-> d]
KeysWith(ks, k) == Append(ks, k)
KeyIsNew(v, k) == \A i \in DOMAIN v : v[i].key # k

\* Its contents at level l.
MView(mp, ks, hm, l) == [i \in 1..VersionAt(mp, l).size |-> [key |-> ks[i], data |-> hm[ks[i]]]]

LEMMA MLevel ==
    ASSUME NEW mp, NEW ks, NEW hm, NEW top \in Nat, MGood(mp, ks, hm, top), NEW l \in 0..top
    PROVE  VersionAt(mp, l).size \in Nat /\ VersionAt(mp, l).size <= mp.size /\ mp.size \in Nat
<1>0. mp \in MapT /\ Chain(mp, top)
  BY DEF MGood
<1>1. VersionAt(mp, top) = mp /\ VersionAt(mp, l).size <= VersionAt(mp, top).size
  BY <1>0, Top DEF MGood, Grows
<1>2. VersionAt(mp, l).size \in Nat
  BY <1>0, MapVersion
<1> QED
  BY <1>0, <1>1, <1>2 DEF MapT

\* Sizes that stay at the levels below and grow at the top still grow from level to level.
LEMMA GrowsAtTop ==
    ASSUME NEW x, NEW y, NEW top \in Nat, Grows(x, top), VersionAt(y, top).size \in Nat,
           \A l \in 0..top : VersionAt(x, l).size \in Nat,
           \A l \in 0..top - 1 : VersionAt(y, l).size = VersionAt(x, l).size,
           VersionAt(x, top).size <= VersionAt(y, top).size
    PROVE  Grows(y, top)
<1>1. ASSUME NEW l \in 0..top, NEW m \in 0..top, l <= m
      PROVE  VersionAt(y, l).size <= VersionAt(y, m).size
  <2>1. CASE l = top /\ m = top
    BY <2>1
  <2>2. CASE l \in 0..top - 1 /\ m = top
    <3>1. VersionAt(x, l).size <= VersionAt(x, top).size
      BY <1>1, <2>2 DEF Grows
    <3> QED
      BY <2>2, <3>1
  <2>3. CASE l \in 0..top - 1 /\ m \in 0..top - 1
    <3>1. VersionAt(x, l).size <= VersionAt(x, m).size
      BY <1>1, <2>3 DEF Grows
    <3> QED
      BY <2>3, <3>1
  <2> QED
    BY <1>1, <2>1, <2>2, <2>3
<1> QED
  BY <1>1 DEF Grows

LEMMA MInserted ==
    ASSUME NEW mp, NEW ks, NEW hm, NEW top \in Nat, MGood(mp, ks, hm, top),
           NEW k \in Key, NEW d \in Data, k \notin DOMAIN hm,
           NEW y, y = MapInsert(mp, top),
           NEW ks2, ks2 = KeysWith(ks, k),
           NEW hm2, hm2 = Extended(hm, k, d)
    PROVE  /\ MGood(y, ks2, hm2, top)
           /\ \A l \in 0..top - 1 : MView(y, ks2, hm2, l) = MView(mp, ks, hm, l)
           /\ KeyIsNew(MView(mp, ks, hm, top), k)
           /\ MView(y, ks2, hm2, top) = Append(MView(mp, ks, hm, top), Entry(k, d))
<1> DEFINE n == mp.size
<1>0. mp \in MapT /\ Chain(mp, top) /\ n \in Nat /\ ks \in Seq(Key) /\ Len(ks) = n
  BY DEF MGood, MapT
<1>1. /\ y \in MapT /\ Chain(y, top) /\ y.size = n + 1
      /\ \A l \in 0..top - 1 : VersionAt(y, l).size = VersionAt(mp, l).size
  BY <1>0, MapInserted
<1>2. VersionAt(y, top) = y /\ VersionAt(mp, top) = mp
  BY <1>0, <1>1, Top
<1> HIDE DEF n
<1>3. /\ ks2 \in Seq(Key) /\ Len(ks2) = n + 1
      /\ \A i \in 1..n : ks2[i] = ks[i]
      /\ ks2[n + 1] = k
  BY <1>0 DEF KeysWith
<1>4. \A i \in 1..n : ks[i] \in DOMAIN hm /\ ks[i] # k
  BY DEF MGood, n
<1>5. /\ DOMAIN hm2 = DOMAIN hm \cup {k} /\ hm2[k] = d
      /\ \A j \in DOMAIN hm : hm2[j] = hm[j]
  BY DEF Extended
<1>n. \A i \in 1..n + 1 : i \in 1..n \/ i = n + 1
  BY <1>0
<1>6. \A i, j \in 1..n + 1 : ks2[i] = ks2[j] => i = j
  <2> TAKE i, j \in 1..n + 1
  <2>1. CASE i \in 1..n /\ j \in 1..n
    BY <1>3, <2>1 DEF MGood, n
  <2>2. CASE i = n + 1 \/ j = n + 1
    BY <1>3, <1>4, <1>n, <2>2
  <2> QED
    BY <1>n, <2>1, <2>2
<1>7. \A i \in 1..n + 1 : ks2[i] \in DOMAIN hm2
  BY <1>3, <1>4, <1>5, <1>n
<1>8. ASSUME NEW j \in DOMAIN hm2 PROVE hm2[j] \in Data /\ \E i \in 1..n + 1 : ks2[i] = j
  <2>1. CASE j \in DOMAIN hm
    <3>1. hm[j] \in Data /\ \E i \in 1..n : ks[i] = j
      BY <2>1 DEF MGood, n
    <3>2. \A i \in 1..n : i \in 1..n + 1
      BY <1>0
    <3> QED
      BY <1>3, <1>5, <2>1, <3>1, <3>2
  <2>2. CASE j = k
    <3>1. n + 1 \in 1..n + 1
      BY <1>0
    <3> QED
      BY <1>3, <1>5, <2>2, <3>1
  <2> QED
    BY <1>5, <2>1, <2>2
<1>9. \A l \in 0..top : VersionAt(mp, l).size \in Nat /\ VersionAt(mp, l).size <= n
  BY MLevel DEF n
<1>10. Grows(y, top)
  <2>1. VersionAt(y, top).size \in Nat /\ VersionAt(mp, top).size <= VersionAt(y, top).size
    BY <1>0, <1>1, <1>2 DEF n
  <2>2. Grows(mp, top)
    BY DEF MGood
  <2> QED
    BY <1>1, <1>9, <2>1, <2>2, GrowsAtTop
<1>11. MGood(y, ks2, hm2, top)
  BY <1>1, <1>3, <1>6, <1>7, <1>8, <1>10 DEF MGood
<1>12. ASSUME NEW l \in 0..top - 1 PROVE MView(y, ks2, hm2, l) = MView(mp, ks, hm, l)
  <2> DEFINE b == VersionAt(mp, l).size
  <2>1. VersionAt(y, l).size = b /\ b \in Nat /\ b <= n
    BY <1>1, <1>9
  <2> HIDE DEF b
  <2>2. \A i \in 1..b : i \in 1..n
    BY <1>0, <2>1
  <2>3. \A i \in 1..b : ks2[i] = ks[i] /\ hm2[ks[i]] = hm[ks[i]]
    BY <1>3, <1>4, <1>5, <2>2
  <2> QED
    BY <2>1, <2>3 DEF MView, b
<1>13. KeyIsNew(MView(mp, ks, hm, top), k)
  BY <1>2, <1>4 DEF MView, n, KeyIsNew
<1>14. MView(y, ks2, hm2, top) = Append(MView(mp, ks, hm, top), Entry(k, d))
  <2> DEFINE v == [i \in 1..n |-> [key |-> ks[i], data |-> hm[ks[i]]]]
             w == [i \in 1..n + 1 |-> [key |-> ks2[i], data |-> hm2[ks2[i]]]]
             E == [key |-> k, data |-> d]
             V == [key : Key, data : Data]
  <2>1. MView(mp, ks, hm, top) = v /\ MView(y, ks2, hm2, top) = w
    BY <1>1, <1>2 DEF MView, n
  <2>2. \A i \in 1..n : v[i] = w[i]
    BY <1>0, <1>3, <1>4, <1>5
  <2>3. w[n + 1] = E
    BY <1>0, <1>3, <1>5
  <2>4. v \in [1..n -> V]
    <3> SUFFICES ASSUME NEW i \in 1..n PROVE [key |-> ks[i], data |-> hm[ks[i]]] \in V
      OBVIOUS
    <3>1. ks[i] \in Key /\ hm[ks[i]] \in Data
      BY <1>0, <1>4 DEF MGood
    <3> QED
      BY <3>1
  <2>5. w \in [1..n + 1 -> V]
    <3> SUFFICES ASSUME NEW i \in 1..n + 1 PROVE [key |-> ks2[i], data |-> hm2[ks2[i]]] \in V
      OBVIOUS
    <3>1. ks2[i] \in Key
      BY <1>3
    <3>2. hm2[ks2[i]] \in Data
      BY <1>7, <1>8
    <3> QED
      BY <3>1, <3>2
  <2>6. E \in V
    OBVIOUS
  <2> HIDE DEF v, w, E, V
  <2>7. w = Append(v, E)
    BY <1>0, <2>2, <2>3, <2>4, <2>5, <2>6, AppendIs
  <2> QED
    BY <2>1, <2>7 DEF E, Entry
<1> QED
  BY <1>11, <1>12, <1>13, <1>14

LEMMA MPushed ==
    ASSUME NEW mp, NEW ks, NEW hm, NEW top \in Nat, MGood(mp, ks, hm, top)
    PROVE  /\ MGood(mp, ks, hm, top + 1)
           /\ MView(mp, ks, hm, top + 1) = MView(mp, ks, hm, top)
<1>0. mp \in MapT /\ Chain(mp, top) /\ mp.size \in Nat /\ Grows(mp, top)
  BY DEF MGood, MapT
<1>1. Chain(mp, top + 1) /\ VersionAt(mp, top + 1) = mp /\ VersionAt(mp, top) = mp
  BY <1>0, Kept
<1>2. Grows(mp, top + 1)
  <2>1. ASSUME NEW l \in 0..top + 1, NEW m \in 0..top + 1, l <= m
        PROVE  VersionAt(mp, l).size <= VersionAt(mp, m).size
    <3>0. \A k \in 0..top : VersionAt(mp, k).size <= mp.size
      BY MLevel
    <3>1. CASE m = top + 1 /\ l = top + 1
      BY <1>0, <1>1, <3>1
    <3>2. CASE m = top + 1 /\ l \in 0..top
      BY <1>1, <3>0, <3>2
    <3>3. CASE m \in 0..top
      <4>1. l \in 0..top
        BY <2>1, <3>3
      <4> QED
        BY <1>0, <2>1, <3>3, <4>1 DEF Grows
    <3>4. (m = top + 1 \/ m \in 0..top) /\ (l = top + 1 \/ l \in 0..top)
      OBVIOUS
    <3> QED
      BY <3>1, <3>2, <3>3, <3>4
  <2> QED
    BY <2>1 DEF Grows
<1> QED
  BY <1>1, <1>2 DEF MGood, MView

\* pop_to_size() after the size was restored.
LEMMA MRestored ==
    ASSUME NEW mp, NEW ks, NEW hm, NEW top \in Nat, top > 0, MGood(mp, ks, hm, top), mp.scope = top,
           NEW s, s = M!LastCopy(mp).size,
           NEW y, y = MapRestore(mp),
           NEW ks2, ks2 = KeysTo(ks, s),
           NEW hm2, hm2 = ErasedTo(ks, hm, s)
    PROVE  /\ MGood(y, ks2, hm2, top - 1)
           /\ \A l \in 0..top - 1 : MView(y, ks2, hm2, l) = MView(mp, ks, hm, l)
<1> DEFINE n == mp.size
<1>0. mp \in MapT /\ Chain(mp, top) /\ n \in Nat /\ ks \in Seq(Key) /\ Len(ks) = n
  BY DEF MGood, MapT
<1>l. top - 1 \in Nat /\ top - 1 \in 0..top /\ \A l \in 0..top - 1 : l \in 0..top
  OBVIOUS
<1>1. /\ y \in MapT /\ Chain(y, top - 1) /\ y.size = s
      /\ \A l \in 0..top - 1 : VersionAt(y, l).size = VersionAt(mp, l).size
  BY <1>0, MapRestored
<1>2. VersionAt(y, top - 1) = y
  BY <1>1, <1>l, Top
<1>3. s \in Nat /\ s <= n
  <2>1. VersionAt(mp, top - 1).size = s
    BY <1>1, <1>2, <1>l
  <2> QED
    BY <1>l, <2>1, MLevel
<1>4. Grows(y, top - 1)
  BY <1>1, <1>l DEF MGood, Grows
<1> HIDE DEF n
<1>5. /\ ks2 \in Seq(Key) /\ Len(ks2) = s
      /\ \A i \in 1..s : ks2[i] = ks[i] /\ i \in 1..n
  BY <1>0, <1>3 DEF KeysTo
<1>6. \A i, j \in 1..n : ks[i] = ks[j] => i = j
  BY DEF MGood, n
<1> DEFINE gone == M!ToSet(SubSeq(ks, s + 1, Len(ks)))
<1>7. gone = {ks[i] : i \in s + 1..n}
  BY <1>0, <1>3, ToSetOfSlice
<1>8. DOMAIN hm2 = DOMAIN hm \ gone /\ \A k \in DOMAIN hm2 : hm2[k] = hm[k]
  BY DEF ErasedTo
<1> HIDE DEF gone
<1>9. \A i \in 1..s : ks[i] \in DOMAIN hm2
  <2> TAKE i \in 1..s
  <2>1. ks[i] \in DOMAIN hm
    BY <1>5 DEF MGood, n
  <2>2. ASSUME NEW j \in s + 1..n PROVE ks[j] # ks[i]
    <3>1. j \in 1..n /\ i \in 1..n /\ i # j
      BY <1>0, <1>3
    <3> QED
      BY <1>6, <3>1
  <2> QED
    BY <1>7, <1>8, <2>1, <2>2
<1>10. ASSUME NEW k \in DOMAIN hm2 PROVE hm2[k] \in Data /\ \E i \in 1..s : ks2[i] = k
  <2>1. PICK i \in 1..n : ks[i] = k
    BY <1>8 DEF MGood, n
  <2>2. i \notin s + 1..n
    BY <1>7, <1>8, <2>1
  <2>3. i \in 1..s
    BY <1>0, <1>3, <2>2
  <2> QED
    BY <1>5, <1>8, <2>1, <2>3 DEF MGood
<1>11. MGood(y, ks2, hm2, top - 1)
  <2>1. \A i, j \in 1..s : ks2[i] = ks2[j] => i = j
    BY <1>5, <1>6
  <2>2. \A i \in 1..s : ks2[i] \in DOMAIN hm2
    BY <1>5, <1>9
  <2> QED
    BY <1>1, <1>4, <1>5, <1>10, <2>1, <2>2 DEF MGood
<1>12. ASSUME NEW l \in 0..top - 1 PROVE MView(y, ks2, hm2, l) = MView(mp, ks, hm, l)
  <2> DEFINE b == VersionAt(mp, l).size
  <2>1. VersionAt(y, l).size = b /\ b \in Nat
    BY <1>1, <1>l, MLevel
  <2>2. b <= s
    <3>1. VersionAt(y, l).size <= VersionAt(y, top - 1).size
      BY <1>4, <1>l DEF Grows
    <3> QED
      BY <1>1, <1>2, <2>1, <3>1
  <2> HIDE DEF b
  <2>3. \A i \in 1..b : i \in 1..s
    BY <1>3, <2>1, <2>2
  <2>4. \A i \in 1..b : ks2[i] = ks[i] /\ hm2[ks[i]] = hm[ks[i]]
    BY <1>5, <1>8, <1>9, <2>3
  <2> QED
    BY <2>1, <2>4 DEF MView, b
<1> QED
  BY <1>11, <1>12

LEMMA MKept ==
    ASSUME NEW mp, NEW ks, NEW hm, NEW top \in Nat, top > 0, MGood(mp, ks, hm, top), mp.scope # top
    PROVE  MGood(mp, ks, hm, top - 1)
<1>1. Chain(mp, top - 1)
  <2>1. ~InScope(mp, top) /\ Chain(mp, top)
    BY DEF InScope, MGood
  <2> QED
    BY <2>1, Kept
<1>2. Grows(mp, top - 1)
  BY DEF MGood, Grows
<1> QED
  BY <1>1, <1>2 DEF MGood

MInv == level \in 0..MaxLevel /\ MGood(map, keys, hashMap, level)

\* The snapshots that a CDInsertHashMap stands for.
MSnap(mp, ks, hm, top) == [l \in 0..top |-> MView(mp, ks, hm, l)]

LEMMA MSnapIs ==
    [l \in 0..level |-> [i \in 1..M!VersionAt(map, l).size |->
                           [key |-> keys[i], data |-> hashMap[keys[i]]]]]
      = MSnap(map, keys, hashMap, level)
BY DEF MSnap, MView, M!VersionAt, VersionAt

LEMMA MSnapIsNext ==
    [l \in 0..level |-> [i \in 1..M!VersionAt(map, l).size |->
                           [key |-> keys[i], data |-> hashMap[keys[i]]]]]'
      = MSnap(map', keys', hashMap', level')
BY DEF MSnap, MView, M!VersionAt, VersionAt

LEMMA MInit ==
    ASSUME M!Init PROVE MInv /\ M!Map!Init
<1>1. /\ level = 0 /\ map.scope = 0 /\ map.saved = << >> /\ map.size = 0 /\ keys = << >>
      /\ DOMAIN hashMap = {}
  BY DEF M!Init
<1>2. map \in MapT
  BY DEF M!Init, MapT
<1>3. Chain(map, 0) /\ VersionAt(map, 0) = map
  BY <1>1 DEF Chain, VersionAt
<1>4. Grows(map, 0)
  BY <1>1, <1>3 DEF Grows
<1>5. keys \in Seq(Key) /\ Len(keys) = 0
  BY <1>1
<1>6. MGood(map, keys, hashMap, 0)
  BY <1>1, <1>2, <1>3, <1>4, <1>5 DEF MGood
<1>7. level \in 0..MaxLevel
  BY <1>1, BoundsAssumption
<1>8. MView(map, keys, hashMap, 0) = << >>
  BY <1>1, <1>3 DEF MView
<1>9. MSnap(map, keys, hashMap, level) = [l \in 0..0 |-> << >>]
  BY <1>1, <1>8 DEF MSnap
<1>10. M!Map!Init
  BY <1>1, <1>9, MSnapIs DEF M!Map!Init
<1> QED
  BY <1>1, <1>6, <1>7, <1>10 DEF MInv

LEMMA MStep ==
    ASSUME MInv, M!Next PROVE MInv' /\ M!Map!Next
<1>0. level \in Nat /\ MaxLevel \in Nat /\ MGood(map, keys, hashMap, level)
  BY BoundsAssumption DEF MInv
<1>1. ASSUME NEW k \in Key, NEW d \in Data, M!Insert(k, d) PROVE MInv' /\ M!Map!Next
  <2> DEFINE E == Entry(k, d)
  <2>1. /\ k \notin DOMAIN hashMap /\ map' = MapInsert(map, level) /\ keys' = KeysWith(keys, k)
        /\ level' = level
    BY <1>1 DEF M!Insert, M!Mapped, M!PushBack, MapInsert, KeysWith
  <2>a. hashMap' = Extended(hashMap, k, d)
    BY <1>1 DEF M!Insert, Extended
  <2>2. /\ MGood(map', keys', hashMap', level)
        /\ \A l \in 0..level - 1 : MView(map', keys', hashMap', l) = MView(map, keys, hashMap, l)
        /\ KeyIsNew(MView(map, keys, hashMap, level), k)
        /\ MView(map', keys', hashMap', level) = Append(MView(map, keys, hashMap, level), E)
    BY <1>0, <2>1, <2>a, MInserted
  <2>3. MSnap(map', keys', hashMap', level')
          = [MSnap(map, keys, hashMap, level) EXCEPT ![level] = Append(@, E)]
    <3> HIDE DEF E
    <3>1. ASSUME NEW l \in 0..level
          PROVE  MView(map', keys', hashMap', l)
                   = IF l = level THEN Append(MView(map, keys, hashMap, l), E)
                     ELSE MView(map, keys, hashMap, l)
      <4>1. l = level \/ l \in 0..level - 1
        BY <1>0
      <4> QED
        BY <2>2, <4>1
    <3> QED
      BY <1>0, <2>1, <3>1 DEF MSnap
  <2>4. k \notin M!Map!Keys(MSnap(map, keys, hashMap, level)[level])
    <3>1. MSnap(map, keys, hashMap, level)[level] = MView(map, keys, hashMap, level)
      BY <1>0 DEF MSnap
    <3> QED
      BY <2>2, <3>1 DEF M!Map!Keys, KeyIsNew
  <2>5. M!Map!Insert(k, d)
    BY <2>1, <2>3, <2>4, MSnapIs, MSnapIsNext DEF M!Map!Insert, Entry
  <2>6. MInv'
    BY <2>1, <2>2 DEF MInv
  <2> QED
    BY <2>5, <2>6 DEF M!Map!Next
<1>2. CASE M!Push
  <2>1. /\ map' = map /\ keys' = keys /\ hashMap' = hashMap
        /\ level' = level + 1 /\ level < MaxLevel
    BY <1>2 DEF M!Push
  <2>2. /\ MGood(map, keys, hashMap, level + 1)
        /\ MView(map, keys, hashMap, level + 1) = MView(map, keys, hashMap, level)
    BY <1>0, MPushed
  <2>3. MSnap(map', keys', hashMap', level')
          = [l \in 0..level + 1 |-> IF l > level THEN MSnap(map, keys, hashMap, level)[level]
                                    ELSE MSnap(map, keys, hashMap, level)[l]]
    <3>1. ASSUME NEW l \in 0..level + 1
          PROVE  MView(map, keys, hashMap, l)
                   = IF l > level THEN MView(map, keys, hashMap, level)
                     ELSE MView(map, keys, hashMap, l)
      <4>1. l > level => l = level + 1
        BY <1>0
      <4> QED
        BY <2>2, <4>1
    <3>2. \A l \in 0..level + 1 : ~(l > level) => l \in 0..level
      BY <1>0
    <3> QED
      BY <1>0, <2>1, <3>1, <3>2 DEF MSnap
  <2>4. M!Map!Push
    BY <2>1, <2>3, MSnapIs, MSnapIsNext DEF M!Map!Push
  <2>5. MInv'
    BY <1>0, <2>1, <2>2 DEF MInv
  <2> QED
    BY <2>4, <2>5 DEF M!Map!Next
<1>3. CASE M!Pop
  <2>1. level' = level - 1 /\ level > 0
    BY <1>3 DEF M!Pop
  <2>2. /\ MGood(map', keys', hashMap', level - 1)
        /\ \A l \in 0..level - 1 : MView(map', keys', hashMap', l) = MView(map, keys, hashMap, l)
    <3>1. CASE map.scope = level
      <4> DEFINE s == M!LastCopy(map).size
      <4>1. M!Restore
        BY <1>3, <2>1, <3>1 DEF M!Pop, M!InScope
      <4>2. map' = MapRestore(map) /\ keys' = KeysTo(keys, s)
        BY <4>1 DEF M!Restore, M!PopToSize, MapRestore, KeysTo
      <4>3. hashMap' = ErasedTo(keys, hashMap, s)
        BY <4>1 DEF M!Restore, M!PopToSize, ErasedTo
      <4> QED
        BY <1>0, <2>1, <3>1, <4>2, <4>3, MRestored
    <3>2. CASE map.scope # level
      <4>1. map' = map /\ keys' = keys /\ hashMap' = hashMap
        BY <1>3, <3>2 DEF M!Pop, M!InScope
      <4> QED
        BY <1>0, <2>1, <3>2, <4>1, MKept
    <3> QED
      BY <3>1, <3>2
  <2>3. MSnap(map', keys', hashMap', level')
          = [l \in 0..level - 1 |-> MSnap(map, keys, hashMap, level)[l]]
    BY <1>0, <2>1, <2>2 DEF MSnap
  <2>4. M!Map!Pop
    BY <2>1, <2>3, MSnapIs, MSnapIsNext DEF M!Map!Pop
  <2>5. MInv'
    BY <1>0, <2>1, <2>2 DEF MInv
  <2> QED
    BY <2>4, <2>5 DEF M!Map!Next
<1> QED
  BY <1>1, <1>2, <1>3 DEF M!Next

LEMMA MStutter ==
    ASSUME MInv, UNCHANGED <<level, map, keys, hashMap>>
    PROVE  MInv' /\ UNCHANGED M!Map!vars
<1>1. MSnap(map', keys', hashMap', level') = MSnap(map, keys, hashMap, level)
  OBVIOUS
<1>2. UNCHANGED M!Map!vars
  BY <1>1, MSnapIs, MSnapIsNext DEF M!Map!vars
<1> QED
  BY <1>2 DEF MInv

-----------------------------------------------------------------------------
(* CDQueue: the elements are not saved, and some are destroyed before the pop. *)

CopyT == [scope : Nat, size : Nat, iter : Nat, lastsave : Nat]
QueueT == [scope : Nat, saved : Seq(CopyT), list : Seq(1..MaxElem),
           size : Nat, iter : Nat, lastsave : Nat]

\* The copies of version q and of those before it: each counts on no more elements
\* than the next one protects from pop().
Protected(q) ==
    /\ \A i \in 1..Len(q.saved) :
          /\ q.saved[i].size <= q.lastsave
          /\ q.saved[i].iter <= q.saved[i].size /\ q.saved[i].lastsave <= q.saved[i].size
    /\ \A i, j \in 1..Len(q.saved) : i < j => q.saved[i].size <= q.saved[j].lastsave

\* The inductive invariant of a CDQueue.
QGood(q, top) ==
    /\ q \in QueueT /\ Chain(q, top) /\ Protected(q)
    /\ q.size = Len(q.list) /\ q.iter <= q.size /\ q.lastsave <= q.size

\* Its contents at level l.
QView(q, l) == SubSeq(q.list, VersionAt(q, l).iter + 1, VersionAt(q, l).size)

\* What QGood says of a level below the last change.
LEMMA QLower ==
    ASSUME NEW q, NEW top \in Nat, QGood(q, top), NEW l \in Nat, ~(q.scope <= l)
    PROVE  /\ VersionAt(q, l).size \in Nat /\ VersionAt(q, l).iter \in Nat
           /\ VersionAt(q, l).size <= q.lastsave
<1>0. q.saved \in Seq(CopyT) /\ Chain(q, top) /\ Protected(q)
  BY DEF QGood, QueueT
<1>1. PICK i \in DOMAIN q.saved : VersionAt(q, l) = q.saved[i]
  BY <1>0, VersionFound
<1>2. q.saved[i] \in CopyT /\ i \in 1..Len(q.saved)
  BY <1>0
<1> QED
  BY <1>0, <1>1, <1>2 DEF Protected, CopyT

\* CDQueue::save: the levels below keep their versions.
LEMMA QSaved ==
    ASSUME NEW q, NEW top \in Nat, QGood(q, top), NEW y, y = Q!Save(q, top)
    PROVE  /\ QGood(y, top) /\ y.scope = top
           /\ y.list = q.list /\ y.size = q.size /\ y.iter = q.iter
           /\ \A l \in 0..top - 1 : QView(y, l) = QView(q, l)
<1> DEFINE copy == [scope |-> q.scope, size |-> q.size, iter |-> q.iter, lastsave |-> q.lastsave]
           n == Len(q.saved)
<1>0. /\ q \in QueueT /\ Chain(q, top) /\ q.saved \in Seq(CopyT) /\ n \in Nat /\ Protected(q)
      /\ q.scope \in Nat /\ q.size \in Nat /\ q.iter \in Nat /\ q.lastsave \in Nat
      /\ q.list \in Seq(1..MaxElem)
      /\ q.size = Len(q.list) /\ q.iter <= q.size /\ q.lastsave <= q.size
  BY DEF QGood, QueueT
<1>1. CASE q.scope = top
  <2>1. y = q
    BY <1>1 DEF Q!Save
  <2> QED
    BY <1>1, <2>1
<1>2. CASE q.scope # top
  <2>0. /\ copy \in CopyT /\ copy.scope = q.scope /\ copy.size = q.size /\ copy.iter = q.iter
        /\ copy.lastsave = q.lastsave
    BY <1>0 DEF CopyT
  <2>1. y = [scope |-> top, saved |-> Append(q.saved, copy), list |-> q.list,
             size |-> q.size, iter |-> q.iter, lastsave |-> q.size]
    BY <1>0, <1>2 DEF Q!Save, Q!MakeCurrent, QueueT
  <2> HIDE DEF copy
  <2>2. /\ y.scope = top /\ y.saved = Append(q.saved, copy) /\ y.list = q.list
        /\ y.size = q.size /\ y.iter = q.iter /\ y.lastsave = q.size
    BY <2>1
  <2>3. /\ y.saved \in Seq(CopyT) /\ Chain(y, top)
        /\ \A l \in 0..top - 1 :
              VersionAt(y, l) = IF q.scope <= l THEN copy ELSE VersionAt(q, l)
    <3>1. y.saved = IF q.scope = top THEN q.saved ELSE Append(q.saved, copy)
      BY <1>2, <2>2
    <3>2. /\ q.saved \in Seq(CopyT) /\ Chain(q, top) /\ copy \in CopyT /\ copy.scope = q.scope
          /\ y.scope = top
      BY <1>0, <2>0, <2>2
    <3> QED
      BY <3>1, <3>2, Written
  <2>4. y \in QueueT
    BY <1>0, <2>1, <2>2, <2>3 DEF QueueT
  <2>5. Protected(y)
    <3>0. /\ Len(y.saved) = n + 1 /\ y.saved[n + 1] = copy
          /\ \A i \in 1..n : y.saved[i] = q.saved[i] /\ q.saved[i] \in CopyT
      BY <1>0, <2>0, <2>2
    <3>n. \A i \in 1..n + 1 : i \in 1..n \/ i = n + 1
      BY <1>0
    <3>1. ASSUME NEW i \in 1..n + 1
          PROVE  /\ y.saved[i].size <= y.lastsave
                 /\ y.saved[i].iter <= y.saved[i].size /\ y.saved[i].lastsave <= y.saved[i].size
      <4>1. CASE i \in 1..n
        <5>1. /\ q.saved[i].size <= q.lastsave /\ q.saved[i].size \in Nat
              /\ q.saved[i].iter <= q.saved[i].size /\ q.saved[i].lastsave <= q.saved[i].size
          BY <1>0, <3>0, <4>1 DEF Protected, CopyT
        <5> QED
          BY SMTT(30), <1>0, <2>2, <3>0, <4>1, <5>1
      <4>2. CASE i = n + 1
        BY <1>0, <2>0, <2>2, <3>0, <4>2
      <4> QED
        BY <3>n, <4>1, <4>2
    <3>2. ASSUME NEW i \in 1..n + 1, NEW j \in 1..n + 1, i < j
          PROVE  y.saved[i].size <= y.saved[j].lastsave
      <4>1. i \in 1..n
        BY <1>0, <3>2
      <4>2. CASE j \in 1..n
        BY <1>0, <3>0, <3>2, <4>1, <4>2 DEF Protected
      <4>3. CASE j = n + 1
        BY <1>0, <2>0, <3>0, <4>1, <4>3 DEF Protected
      <4> QED
        BY <3>n, <4>2, <4>3
    <3> QED
      BY <3>0, <3>1, <3>2 DEF Protected
  <2>6. QGood(y, top)
    BY <1>0, <2>2, <2>3, <2>4, <2>5 DEF QGood
  <2>7. ASSUME NEW l \in 0..top - 1 PROVE QView(y, l) = QView(q, l)
    <3>1. VersionAt(y, l).size = VersionAt(q, l).size /\ VersionAt(y, l).iter = VersionAt(q, l).iter
      BY <2>0, <2>3 DEF VersionAt
    <3> QED
      BY <2>2, <3>1 DEF QView
  <2> QED
    BY <2>2, <2>6, <2>7
<1> QED
  BY <1>1, <1>2

\* A change behind what is protected is not seen at the levels below.
LEMMA QChanged ==
    ASSUME NEW y, NEW top \in Nat, QGood(y, top), y.scope = top,
           NEW z \in QueueT, z.scope = top, z.saved = y.saved, z.lastsave = y.lastsave,
           z.size = Len(z.list), z.iter <= z.size, z.lastsave <= z.size,
           \A i \in 1..y.lastsave : z.list[i] = y.list[i]
    PROVE  QGood(z, top) /\ \A l \in 0..top - 1 : QView(z, l) = QView(y, l)
<1>0. /\ y.list \in Seq(1..MaxElem) /\ z.list \in Seq(1..MaxElem) /\ y.lastsave \in Nat
      /\ y.lastsave <= Len(y.list) /\ y.lastsave <= Len(z.list)
  BY DEF QGood, QueueT
<1>1. QGood(z, top)
  <2>1. Chain(z, top)
    BY DEF QGood, Chain
  <2>2. Protected(z)
    BY DEF QGood, Protected
  <2> QED
    BY <2>1, <2>2 DEF QGood
<1>2. ASSUME NEW l \in 0..top - 1 PROVE QView(z, l) = QView(y, l)
  <2> DEFINE a == VersionAt(y, l).iter
             b == VersionAt(y, l).size
  <2>1. l \in Nat /\ ~(y.scope <= l)
    OBVIOUS
  <2>2. VersionAt(z, l) = VersionAt(y, l)
    BY <2>1 DEF VersionAt
  <2>3. a \in Nat /\ b \in Nat /\ b <= y.lastsave
    BY <2>1, QLower
  <2> HIDE DEF a, b
  <2>4. b <= Len(y.list) /\ b <= Len(z.list) /\ \A i \in 1..b : z.list[i] = y.list[i]
    BY <1>0, <2>3
  <2>5. SubSeq(z.list, a + 1, b) = SubSeq(y.list, a + 1, b)
    BY <1>0, <2>3, <2>4, SliceOfMore
  <2> QED
    BY <2>2, <2>5 DEF QView, a, b
<1> QED
  BY <1>1, <1>2

\* What push() and pop() make of the queue after save().
QAppended(y, e) == [y EXCEPT !.list = Append(@, e), !.size = @ + 1]
QAdvanced(y) == [y EXCEPT !.iter = @ + 1]
QTruncated(y) == [Q!TruncateList(y, y.lastsave) EXCEPT !.iter = y.lastsave]

LEMMA QEnqueued ==
    ASSUME NEW q, NEW top \in Nat, QGood(q, top), NEW e \in 1..MaxElem,
           NEW z, z = QAppended(Q!Save(q, top), e)
    PROVE  /\ QGood(z, top) /\ z.list = Append(q.list, e)
           /\ \A l \in 0..top - 1 : QView(z, l) = QView(q, l)
           /\ QView(z, top) = Append(QView(q, top), e)
<1> DEFINE y == Q!Save(q, top)
           n == Len(q.list)
<1>1. /\ QGood(y, top) /\ y.scope = top
      /\ y.list = q.list /\ y.size = q.size /\ y.iter = q.iter
      /\ \A l \in 0..top - 1 : QView(y, l) = QView(q, l)
  BY QSaved
<1>z. z = QAppended(y, e)
  OBVIOUS
<1> HIDE DEF y
<1>2. /\ q.list \in Seq(1..MaxElem) /\ n \in Nat /\ q.size = n /\ q.iter \in Nat /\ q.iter <= n
      /\ Chain(q, top) /\ y \in QueueT /\ y.lastsave \in Nat /\ y.lastsave <= n
      /\ y.saved \in Seq(CopyT)
  BY <1>1 DEF QGood, QueueT
<1>3. z = [scope |-> y.scope, saved |-> y.saved, list |-> Append(y.list, e), size |-> y.size + 1,
           iter |-> y.iter, lastsave |-> y.lastsave]
  BY <1>z, <1>2 DEF QAppended, QueueT
<1>4. /\ z.scope = top /\ z.saved = y.saved /\ z.lastsave = y.lastsave /\ z.list = Append(q.list, e)
      /\ z.size = n + 1 /\ z.iter = q.iter
  BY <1>1, <1>2, <1>3
<1>5. Append(q.list, e) \in Seq(1..MaxElem) /\ Len(Append(q.list, e)) = n + 1
      /\ \A i \in 1..n : Append(q.list, e)[i] = q.list[i]
  BY <1>2
<1> HIDE DEF n
<1>6. z \in QueueT
  BY <1>1, <1>2, <1>3, <1>4, <1>5 DEF QueueT
<1>7. \A i \in 1..y.lastsave : z.list[i] = y.list[i]
  BY <1>1, <1>2, <1>4, <1>5
<1>8. QGood(z, top) /\ \A l \in 0..top - 1 : QView(z, l) = QView(y, l)
  <2>1. z.size = Len(z.list) /\ z.iter <= z.size /\ z.lastsave <= z.size
    BY <1>2, <1>4, <1>5
  <2> QED
    BY ZenonT(60), <1>1, <1>4, <1>6, <1>7, <2>1, QChanged
<1>9. QView(z, top) = Append(QView(q, top), e)
  <2>1. VersionAt(z, top) = z /\ VersionAt(q, top) = q
    BY <1>2, <1>8, Top DEF QGood
  <2>2. QView(z, top) = SubSeq(Append(q.list, e), q.iter + 1, n + 1)
    BY <1>4, <2>1 DEF QView
  <2>3. QView(q, top) = SubSeq(q.list, q.iter + 1, n)
    BY <1>2, <2>1 DEF QView
  <2> QED
    BY ZenonT(60), <1>2, <2>2, <2>3, SliceAppended DEF n
<1> QED
  BY <1>1, <1>4, <1>8, <1>9

\* A pop() that leaves the elements, and one that truncates the list.
LEMMA QDequeued ==
    ASSUME NEW q, NEW top \in Nat, QGood(q, top), q.iter < q.size,
           NEW y, y = QAdvanced(Q!Save(q, top)),
           NEW z, z = IF y.iter = y.size /\ y.lastsave # y.size THEN QTruncated(y) ELSE y
    PROVE  /\ QGood(z, top) /\ y.list = q.list
           /\ y.lastsave \in Nat /\ y.lastsave <= Len(q.list)
           /\ z.list = IF y.iter = y.size /\ y.lastsave # y.size
                       THEN SubSeq(q.list, 1, y.lastsave) ELSE q.list
           /\ \A l \in 0..top - 1 : QView(z, l) = QView(q, l)
           /\ QView(q, top) # << >>
           /\ QView(z, top) = Tail(QView(q, top))
<1> DEFINE x == Q!Save(q, top)
           n == Len(q.list)
<1>1. /\ QGood(x, top) /\ x.scope = top
      /\ x.list = q.list /\ x.size = q.size /\ x.iter = q.iter
      /\ \A l \in 0..top - 1 : QView(x, l) = QView(q, l)
  BY QSaved
<1>y. y = QAdvanced(x)
  OBVIOUS
<1> HIDE DEF x
<1>2. /\ q.list \in Seq(1..MaxElem) /\ n \in Nat /\ q.size = n /\ q.iter \in Nat /\ q.iter < n
      /\ Chain(q, top) /\ x \in QueueT /\ x.lastsave \in Nat /\ x.lastsave <= n
      /\ x.saved \in Seq(CopyT)
  BY <1>1 DEF QGood, QueueT
<1>3. y = [scope |-> x.scope, saved |-> x.saved, list |-> x.list, size |-> x.size,
           iter |-> x.iter + 1, lastsave |-> x.lastsave]
  BY <1>y, <1>2 DEF QAdvanced, QueueT
<1>4. /\ y.scope = top /\ y.saved = x.saved /\ y.lastsave = x.lastsave /\ y.list = q.list
      /\ y.size = n /\ y.iter = q.iter + 1
  BY <1>1, <1>2, <1>3
<1> HIDE DEF n
<1>5. y \in QueueT
  BY <1>1, <1>2, <1>3 DEF QueueT
<1>6. VersionAt(q, top) = q
  BY <1>2, Top
<1>7. /\ QView(q, top) # << >>
      /\ Tail(QView(q, top)) = SubSeq(q.list, (q.iter + 1) + 1, n)
  <2>1. QView(q, top) = SubSeq(q.list, q.iter + 1, n)
    BY <1>2, <1>6 DEF QView
  <2> QED
    <3>1. n \in Nat /\ n <= Len(q.list) /\ q.iter \in Nat /\ q.iter < n
      BY <1>2 DEF n
    <3>2. /\ SubSeq(q.list, q.iter + 1, n) # << >>
          /\ SubSeq(q.list, (q.iter + 1) + 1, n) = Tail(SubSeq(q.list, q.iter + 1, n))
      BY ZenonT(60), <1>2, <3>1, SliceTail
    <3> QED
      BY <2>1, <3>2
<1>8. CASE ~(y.iter = y.size /\ y.lastsave # y.size)
  <2>1. z = y
    BY <1>8
  <2>2. y.size = Len(y.list) /\ y.iter <= y.size /\ y.lastsave <= y.size
    BY <1>2, <1>4 DEF n
  <2>3. \A i \in 1..x.lastsave : y.list[i] = x.list[i]
    BY <1>1, <1>4
  <2>4. QGood(y, top) /\ \A l \in 0..top - 1 : QView(y, l) = QView(x, l)
    BY <1>1, <1>4, <1>5, <2>2, <2>3, QChanged
  <2>5. VersionAt(y, top) = y
    BY <2>4, Top DEF QGood
  <2>6. QView(y, top) = SubSeq(q.list, (q.iter + 1) + 1, n)
    BY <1>4, <2>5 DEF QView
  <2> QED
    BY <1>1, <1>2, <1>4, <1>7, <1>8, <2>1, <2>4, <2>6 DEF n
<1>9. CASE y.iter = y.size /\ y.lastsave # y.size
  <2> DEFINE s == y.lastsave
             d == SubSeq(q.list, 1, s)
  <2>0. s \in Nat /\ s <= n /\ y.lastsave = s
    BY <1>2, <1>4
  <2>1. d \in Seq(1..MaxElem) /\ Len(d) = s /\ \A i \in 1..s : d[i] = q.list[i]
    <3>1. s \in Nat /\ s <= Len(q.list) /\ q.list \in Seq(1..MaxElem)
      BY <1>2, <2>0 DEF n
    <3> HIDE DEF s
    <3> QED
      BY <3>1, PrefixIs
  <2>2. z = [scope |-> y.scope, saved |-> y.saved, list |-> d, size |-> s,
             iter |-> s, lastsave |-> s]
    BY <1>4, <1>5, <1>9 DEF QTruncated, Q!TruncateList, QueueT
  <2>d. z.list = SubSeq(q.list, 1, y.lastsave)
    BY <2>2
  <2> HIDE DEF s, d
  <2>3. /\ z.scope = top /\ z.saved = x.saved /\ z.lastsave = x.lastsave /\ z.list = d
        /\ z.size = s /\ z.iter = s /\ x.lastsave = s
    BY <1>4, <2>0, <2>2
  <2>4. z \in QueueT
    BY <1>2, <1>4, <1>5, <2>0, <2>1, <2>2, <2>3 DEF QueueT
  <2>5. z.size = Len(z.list) /\ z.iter <= z.size /\ z.lastsave <= z.size
    BY <2>0, <2>1, <2>3
  <2>6. \A i \in 1..x.lastsave : z.list[i] = x.list[i]
    BY <1>1, <2>1, <2>3
  <2>7. QGood(z, top) /\ \A l \in 0..top - 1 : QView(z, l) = QView(x, l)
    BY SMTT(30), <1>1, <2>3, <2>4, <2>5, <2>6, QChanged
  <2>8. VersionAt(z, top) = z
    BY <2>7, Top DEF QGood
  <2>9. QView(z, top) = << >>
    <3>1. QView(z, top) = SubSeq(d, s + 1, s)
      BY <2>3, <2>8 DEF QView
    <3>2. SubSeq(d, s + 1, s) \in Seq(1..MaxElem) /\ Len(SubSeq(d, s + 1, s)) = 0
      <4>1. s <= Len(d) /\ ~(s < s)
        BY <2>0, <2>1
      <4> QED
        BY <2>0, <2>1, <4>1, SliceIs
    <3> QED
      BY <3>1, <3>2
  <2>10. SubSeq(q.list, (q.iter + 1) + 1, n) = << >>
    <3> DEFINE a == q.iter + 1
    <3>1. a \in Nat /\ ~(a < n) /\ n <= Len(q.list)
      BY <1>2, <1>4, <1>9 DEF n
    <3> HIDE DEF a
    <3>2. SubSeq(q.list, a + 1, n) \in Seq(1..MaxElem) /\ Len(SubSeq(q.list, a + 1, n)) = 0
      BY <1>2, <3>1, SliceIs
    <3>3. SubSeq(q.list, a + 1, n) = << >>
      BY <3>2
    <3> QED
      BY <3>3 DEF a
  <2> QED
    BY <1>1, <1>2, <1>4, <1>7, <1>9, <2>0, <2>d, <2>7, <2>9, <2>10 DEF n
<1> QED
  BY <1>8, <1>9

LEMMA QPushed ==
    ASSUME NEW q, NEW top \in Nat, QGood(q, top)
    PROVE  QGood(q, top + 1) /\ QView(q, top + 1) = QView(q, top)
<1>1. Chain(q, top + 1) /\ VersionAt(q, top + 1) = q /\ VersionAt(q, top) = q
  BY Kept DEF QGood
<1> QED
  BY <1>1 DEF QGood, QView

LEMMA QKept ==
    ASSUME NEW q, NEW top \in Nat, top > 0, QGood(q, top), q.scope # top
    PROVE  QGood(q, top - 1)
<1>1. ~InScope(q, top) /\ Chain(q, top)
  BY DEF InScope, QGood
<1>2. Chain(q, top - 1)
  BY <1>1, Kept
<1> QED
  BY <1>2 DEF QGood

\* CDQueue::restore: the elements that the last copy counts on are still there.
LEMMA QRestored ==
    ASSUME NEW q, NEW top \in Nat, top > 0, QGood(q, top), q.scope = top,
           NEW z, z = Q!Restore(q)
    PROVE  /\ QGood(z, top - 1)
           /\ Q!LastCopy(q).size \in Nat /\ Q!LastCopy(q).size <= Len(q.list)
           /\ z.list = SubSeq(q.list, 1, Q!LastCopy(q).size)
           /\ \A l \in 0..top - 1 : QView(z, l) = QView(q, l)
<1> DEFINE copy == LastCopy(q)
           n == Len(q.saved)
           d == SubSeq(q.list, 1, copy.size)
<1>0. /\ q \in QueueT /\ Chain(q, top) /\ q.saved \in Seq(CopyT) /\ q.list \in Seq(1..MaxElem)
      /\ Protected(q) /\ q.size = Len(q.list) /\ q.lastsave \in Nat /\ q.lastsave <= q.size
      /\ q.size \in Nat
  BY DEF QGood, QueueT
<1>1. z = [scope |-> copy.scope, saved |-> OlderCopies(q), list |-> d,
           size |-> copy.size, iter |-> copy.iter, lastsave |-> copy.lastsave]
  BY <1>0 DEF Q!Restore, Q!Continue, Q!TruncateList, Q!LastCopy, LastCopy, OlderCopies,
     QueueT
<1>c. copy = Q!LastCopy(q)
  BY DEF Q!LastCopy, LastCopy
<1>e. copy = LastCopy(q)
  OBVIOUS
<1>2. n \in Nat \ {0} /\ copy = q.saved[n] /\ n \in 1..n /\ copy \in CopyT
  BY <1>0 DEF Chain, LastCopy
<1> HIDE DEF copy
<1>3. /\ copy.scope \in Nat /\ copy.size \in Nat /\ copy.iter \in Nat /\ copy.lastsave \in Nat
      /\ copy.size <= q.lastsave /\ copy.iter <= copy.size /\ copy.lastsave <= copy.size
      /\ copy.size <= Len(q.list)
  <2>1. copy.scope \in Nat /\ copy.size \in Nat /\ copy.iter \in Nat /\ copy.lastsave \in Nat
    BY <1>2 DEF CopyT
  <2>2. copy.size <= q.lastsave /\ copy.iter <= copy.size /\ copy.lastsave <= copy.size
    BY <1>0, <1>2 DEF Protected
  <2> QED
    BY <1>0, <2>1, <2>2
<1>4. d \in Seq(1..MaxElem) /\ Len(d) = copy.size /\ \A i \in 1..copy.size : d[i] = q.list[i]
  BY ZenonT(60), <1>0, <1>3, PrefixIs
<1> HIDE DEF d
<1>5. /\ z.scope = copy.scope /\ z.saved = OlderCopies(q) /\ z.list = d
      /\ z.size = copy.size /\ z.iter = copy.iter /\ z.lastsave = copy.lastsave
  BY <1>1
<1>d. z.list = SubSeq(q.list, 1, copy.size)
  BY <1>5 DEF d
<1>6. /\ z.saved \in Seq(CopyT) /\ Chain(z, top - 1)
      /\ \A l \in 0..top - 1 : z.scope <= l => VersionAt(z, l) = z
      /\ \A l \in 0..top - 1 : z.scope <= l => VersionAt(q, l) = copy
      /\ \A l \in 0..top - 1 : ~(z.scope <= l) => VersionAt(z, l) = VersionAt(q, l)
  <2>1. z.scope = LastCopy(q).scope /\ z.saved = OlderCopies(q)
    BY <1>5, <1>e
  <2>2. q.saved \in Seq(CopyT) /\ Chain(q, top)
    BY <1>0
  <2> QED
    BY <1>e, <2>1, <2>2, Restored
<1>7. z \in QueueT
  BY <1>1, <1>3, <1>4, <1>5, <1>6 DEF QueueT
<1>8. Protected(z)
  <2>1. /\ Len(z.saved) = n - 1
        /\ \A i \in 1..n - 1 : z.saved[i] = q.saved[i]
    BY <1>0, <1>2, <1>5 DEF OlderCopies
  <2>2. \A i \in 1..n - 1 : i \in 1..n /\ i < n
    BY <1>2
  <2>3. \A i \in 1..n - 1 : q.saved[i].size <= copy.lastsave
    BY <1>0, <1>2, <2>2 DEF Protected
  <2>4. \A i \in 1..n - 1 :
           q.saved[i].iter <= q.saved[i].size /\ q.saved[i].lastsave <= q.saved[i].size
    BY <1>0, <2>2 DEF Protected
  <2>5. \A i, j \in 1..n - 1 : i < j => q.saved[i].size <= q.saved[j].lastsave
    BY <1>0, <2>2 DEF Protected
  <2> QED
    BY SMTT(30), <1>5, <2>1, <2>3, <2>4, <2>5 DEF Protected
<1>9. QGood(z, top - 1)
  BY <1>3, <1>4, <1>5, <1>6, <1>7, <1>8 DEF QGood
<1>10. ASSUME NEW l \in 0..top - 1 PROVE QView(z, l) = QView(q, l)
  <2> DEFINE a == VersionAt(q, l).iter
             b == VersionAt(q, l).size
  <2>1. VersionAt(z, l).iter = a /\ VersionAt(z, l).size = b /\ a \in Nat /\ b \in Nat /\ b <= copy.size
    <3>1. CASE z.scope <= l
      BY <1>3, <1>5, <1>6, <3>1
    <3>2. CASE ~(z.scope <= l)
      <4>1. VersionAt(z, l) = VersionAt(q, l)
        BY <1>6, <3>2
      <4>2. /\ VersionAt(z, l).size \in Nat /\ VersionAt(z, l).iter \in Nat
            /\ VersionAt(z, l).size <= z.lastsave
        <5>1. l \in Nat /\ top - 1 \in Nat
          OBVIOUS
        <5> QED
          BY <1>9, <3>2, <5>1, QLower
      <4> QED
        BY <1>3, <1>5, <4>1, <4>2
    <3> QED
      BY <3>1, <3>2
  <2> HIDE DEF a, b
  <2>2. b <= Len(d) /\ b <= Len(q.list) /\ \A i \in 1..b : d[i] = q.list[i]
    BY <1>0, <1>3, <1>4, <2>1
  <2>3. SubSeq(d, a + 1, b) = SubSeq(q.list, a + 1, b)
    BY <1>0, <1>4, <2>1, <2>2, SliceOfMore
  <2> QED
    BY <1>5, <2>1, <2>3 DEF QView, a, b
<1> QED
  BY <1>3, <1>9, <1>10, <1>c, <1>d

InList(d, e) == \E i \in 1..Len(d) : d[i] = e

\* The elements 1..nx are each in the list d once, or out of it and cleaned up once.
Accounted(d, cl, nx) ==
    /\ d \in Seq(1..MaxElem) /\ Len(d) <= nx
    /\ cl \in [1..MaxElem -> Nat]
    /\ \A i \in 1..Len(d) : d[i] <= nx
    /\ \A i, j \in 1..Len(d) : d[i] = d[j] => i = j
    /\ CallCleanup => /\ \A e \in 1..MaxElem : InList(d, e) => cl[e] = 0
                      /\ \A e \in 1..MaxElem : ~InList(d, e) /\ e <= nx => cl[e] = 1
                      /\ \A e \in 1..MaxElem : e > nx => cl[e] = 0

LEMMA AccountedAppend ==
    ASSUME NEW d, NEW cl, NEW nx \in Nat, Accounted(d, cl, nx), nx < MaxElem
    PROVE  Accounted(Append(d, nx + 1), cl, nx + 1)
<1> DEFINE n == Len(d)
           e == nx + 1
           f == Append(d, e)
<1>0. /\ d \in Seq(1..MaxElem) /\ n \in Nat /\ n <= nx /\ cl \in [1..MaxElem -> Nat]
      /\ MaxElem \in Nat /\ e \in 1..MaxElem /\ e \in Nat /\ nx < e
  BY BoundsAssumption DEF Accounted
<1>a. \A i \in 1..n : d[i] <= nx /\ d[i] \in Nat
  BY SMTT(30), <1>0 DEF Accounted
<1>b. \A i, j \in 1..n : d[i] = d[j] => i = j
  BY DEF Accounted
<1>c. CallCleanup => /\ \A x \in 1..MaxElem : InList(d, x) => cl[x] = 0
                     /\ \A x \in 1..MaxElem : ~InList(d, x) /\ x <= nx => cl[x] = 1
                     /\ \A x \in 1..MaxElem : x > nx => cl[x] = 0
  BY DEF Accounted
<1>e. e = nx + 1
  OBVIOUS
<1> HIDE DEF e
<1>1. /\ f \in Seq(1..MaxElem) /\ Len(f) = n + 1
      /\ \A i \in 1..n : f[i] = d[i]
      /\ f[n + 1] = e
  BY <1>0
<1>i. InList(d, e) <=> FALSE
  BY SMTT(30), <1>0, <1>a DEF InList
<1> HIDE DEF f
<1>n. \A i \in 1..n + 1 : i \in 1..n \/ i = n + 1
  BY <1>0
<1>2. \A x \in 1..MaxElem : InList(f, x) <=> InList(d, x) \/ x = e
  <2> TAKE x \in 1..MaxElem
  <2>1. ASSUME InList(f, x) PROVE InList(d, x) \/ x = e
    BY <1>1, <1>n, <2>1 DEF InList
  <2>2. ASSUME InList(d, x) PROVE InList(f, x)
    <3>1. PICK i \in 1..n : d[i] = x
      BY <2>2 DEF InList
    <3>2. i \in 1..n + 1
      BY <1>0
    <3> QED
      BY <1>1, <3>1, <3>2 DEF InList
  <2>3. ASSUME x = e PROVE InList(f, x)
    <3>1. n + 1 \in 1..n + 1
      BY <1>0
    <3> QED
      BY <1>1, <2>3, <3>1 DEF InList
  <2> QED
    BY <2>1, <2>2, <2>3
<1>3. \A i \in 1..n + 1 : f[i] <= e
  <2> TAKE i \in 1..n + 1
  <2>1. CASE i \in 1..n
    <3>1. f[i] = d[i] /\ d[i] <= nx /\ d[i] \in Nat
      BY <1>1, <1>a, <2>1
    <3> QED
      BY <1>0, <3>1
  <2>2. CASE i = n + 1
    BY <1>0, <1>1, <2>2
  <2> QED
    BY <1>n, <2>1, <2>2
<1>4. \A i, j \in 1..n + 1 : f[i] = f[j] => i = j
  <2>1. ASSUME NEW i \in 1..n PROVE f[i] # e
    <3>1. f[i] = d[i] /\ d[i] <= nx /\ d[i] \in Nat
      BY <1>1, <1>a
    <3> QED
      BY SMTT(30), <1>0, <3>1
  <2> QED
    BY <1>1, <1>b, <1>n, <2>1
<1>5. ASSUME CallCleanup
      PROVE  /\ \A x \in 1..MaxElem : InList(f, x) => cl[x] = 0
             /\ \A x \in 1..MaxElem : ~InList(f, x) /\ x <= e => cl[x] = 1
             /\ \A x \in 1..MaxElem : x > e => cl[x] = 0
  <2>1. \A x \in 1..MaxElem : InList(f, x) => cl[x] = 0
    <3>1. cl[e] = 0
      BY <1>0, <1>c, <1>5
    <3> QED
      BY <1>2, <1>c, <1>5, <3>1
  <2>2. ASSUME NEW x \in 1..MaxElem, ~InList(f, x), x <= e PROVE cl[x] = 1
    <3>1. ~InList(d, x) /\ x # e
      BY <1>2, <2>2
    <3>2. x <= nx
      BY <1>0, <1>e, <2>2, <3>1
    <3> QED
      BY <1>c, <1>5, <3>1, <3>2
  <2>3. ASSUME NEW x \in 1..MaxElem, x > e PROVE cl[x] = 0
    <3>1. x > nx
      BY <1>0, <2>3
    <3> QED
      BY <1>c, <1>5, <3>1
  <2> QED
    BY <2>1, <2>2, <2>3
<1>6. Len(f) <= e
  BY <1>0, <1>1, <1>e
<1>7. Accounted(f, cl, e)
  <2> HIDE DEF n
  <2>1. Len(f) = n + 1
    BY <1>1
  <2> QED
    BY <1>0, <1>1, <1>3, <1>4, <1>5, <1>6, <2>1 DEF Accounted
<1> QED
  BY <1>7 DEF f, e

\* truncateList() with the calls of d_cleanUp.
LEMMA AccountedCut ==
    ASSUME NEW d, NEW nx \in Nat, Accounted(d, cleaned, nx), NEW s \in Nat, s <= Len(d)
    PROVE  Accounted(SubSeq(d, 1, s), Q!CleanUp(d, s), nx)
<1> DEFINE n == Len(d)
           f == SubSeq(d, 1, s)
           cl == Q!CleanUp(d, s)
<1>0. /\ d \in Seq(1..MaxElem) /\ n \in Nat /\ n <= nx /\ cleaned \in [1..MaxElem -> Nat] /\ s <= n
      /\ MaxElem \in Nat
  BY BoundsAssumption DEF Accounted
<1>a. \A i \in 1..n : d[i] <= nx /\ d[i] \in 1..MaxElem
  BY SMTT(30), <1>0 DEF Accounted
<1>b. \A i, j \in 1..n : d[i] = d[j] => i = j
  BY DEF Accounted
<1>c. CallCleanup => /\ \A x \in 1..MaxElem : InList(d, x) => cleaned[x] = 0
                     /\ \A x \in 1..MaxElem : ~InList(d, x) /\ x <= nx => cleaned[x] = 1
                     /\ \A x \in 1..MaxElem : x > nx => cleaned[x] = 0
  BY DEF Accounted
<1>1. f \in Seq(1..MaxElem) /\ Len(f) = s /\ \A i \in 1..s : f[i] = d[i]
  BY <1>0, PrefixIs
<1>2. \A i \in 1..s : i \in 1..n
  BY <1>0
<1>3. \A i \in s + 1..n : i \in 1..n /\ i \notin 1..s
  BY <1>0
<1>4. \A i \in 1..n : i \in 1..s \/ i \in s + 1..n
  BY <1>0
<1> HIDE DEF f
<1>5. cl \in [1..MaxElem -> Nat]
  BY SMTT(30), <1>0 DEF Q!CleanUp, Q!Elem
<1>6. ASSUME CallCleanup, NEW x \in 1..MaxElem, NEW i \in s + 1..n, d[i] = x
      PROVE  cl[x] = cleaned[x] + 1
  BY <1>0, <1>6 DEF Q!CleanUp, Q!Elem
<1>7. ASSUME NEW x \in 1..MaxElem, \A i \in s + 1..n : d[i] # x
      PROVE  cl[x] = cleaned[x]
  BY <1>0, <1>7 DEF Q!CleanUp, Q!Elem
<1> HIDE DEF cl, n
<1>8. ASSUME CallCleanup
      PROVE  /\ \A x \in 1..MaxElem : InList(f, x) => cl[x] = 0
             /\ \A x \in 1..MaxElem : ~InList(f, x) /\ x <= nx => cl[x] = 1
             /\ \A x \in 1..MaxElem : x > nx => cl[x] = 0
  <2>1. ASSUME NEW x \in 1..MaxElem, InList(f, x) PROVE cl[x] = 0
    <3>1. PICK i \in 1..s : d[i] = x
      BY <1>1, <2>1 DEF InList
    <3>2. InList(d, x)
      BY <1>2, <3>1 DEF InList, n
    <3>3. \A j \in s + 1..n : d[j] # x
      BY <1>b, <1>2, <1>3, <3>1
    <3> QED
      BY <1>c, <1>7, <1>8, <3>2, <3>3
  <2>2. ASSUME NEW x \in 1..MaxElem, ~InList(f, x), x <= nx PROVE cl[x] = 1
    <3>0. \A i \in 1..s : d[i] # x
      BY <1>1, <2>2 DEF InList
    <3>1. CASE InList(d, x)
      <4>1. PICK i \in 1..n : d[i] = x
        BY <3>1 DEF InList, n
      <4>2. i \in s + 1..n
        BY <1>4, <3>0, <4>1
      <4>3. cleaned[x] = 0
        BY <1>c, <1>8, <3>1
      <4>4. cl[x] = cleaned[x] + 1
        BY <1>6, <1>8, <4>1, <4>2
      <4> QED
        BY <4>3, <4>4
    <3>2. CASE ~InList(d, x)
      <4>1. \A i \in s + 1..n : d[i] # x
        BY <1>3, <3>2 DEF InList, n
      <4> QED
        BY <1>c, <1>7, <1>8, <2>2, <3>2, <4>1
    <3> QED
      BY <3>1, <3>2
  <2>3. ASSUME NEW x \in 1..MaxElem, x > nx PROVE cl[x] = 0
    <3>1. \A i \in s + 1..n : d[i] # x
      <4>1. \A i \in 1..n : d[i] # x
        BY <1>a, <2>3
      <4> QED
        BY <1>3, <4>1
    <3> QED
      BY <1>c, <1>7, <1>8, <2>3, <3>1
  <2> QED
    BY <2>1, <2>2, <2>3
<1>9. s <= nx
  BY <1>0
<1>10. /\ \A i \in 1..s : f[i] <= nx
       /\ \A i, j \in 1..s : f[i] = f[j] => i = j
  BY <1>1, <1>2, <1>a, <1>b
<1>11. Accounted(f, cl, nx)
  BY <1>1, <1>5, <1>8, <1>9, <1>10 DEF Accounted
<1> QED
  BY <1>11 DEF f, cl

QInv ==
    /\ level \in 0..MaxLevel /\ next \in 0..MaxElem
    /\ QGood(queue, level) /\ Accounted(queue.list, cleaned, next)

\* The snapshots that a CDQueue stands for.
QSnap(q, top) == [l \in 0..top |-> QView(q, l)]

LEMMA QSnapIs ==
    [l \in 0..level |-> Q!Pending(Q!VersionAt(queue, l))] = QSnap(queue, level)
BY DEF QSnap, QView, Q!Pending, Q!VersionAt, VersionAt

LEMMA QSnapIsNext ==
    [l \in 0..level |-> Q!Pending(Q!VersionAt(queue, l))]' = QSnap(queue', level')
BY DEF QSnap, QView, Q!Pending, Q!VersionAt, VersionAt

LEMMA QInit ==
    ASSUME Q!Init PROVE QInv /\ Q!Queue!Init
<1>1. /\ level = 0 /\ next = 0 /\ queue.scope = 0 /\ queue.saved = << >> /\ queue.list = << >>
      /\ queue.size = 0 /\ queue.iter = 0 /\ queue.lastsave = 0
  BY DEF Q!Init
<1>c. cleaned = [e \in 1..MaxElem |-> 0]
  BY DEF Q!Init, Q!Elem
<1>2. queue \in QueueT
  BY DEF Q!Init, QueueT
<1>3. Chain(queue, 0) /\ VersionAt(queue, 0) = queue
  BY <1>1 DEF Chain, VersionAt
<1>4. Protected(queue)
  BY <1>1 DEF Protected
<1>5. queue.list \in Seq(1..MaxElem) /\ Len(queue.list) = 0
  BY <1>1
<1>6. QGood(queue, 0)
  BY <1>1, <1>2, <1>3, <1>4, <1>5 DEF QGood
<1>7. level \in 0..MaxLevel /\ next \in 0..MaxElem
  BY <1>1, BoundsAssumption
<1>8. Accounted(queue.list, cleaned, 0)
  <2>1. cleaned \in [1..MaxElem -> Nat] /\ \A e \in 1..MaxElem : cleaned[e] = 0
    BY <1>c
  <2>2. \A e \in 1..MaxElem : ~(e <= 0)
    BY BoundsAssumption
  <2> QED
    BY <1>5, <2>1, <2>2 DEF Accounted
<1>9. QView(queue, 0) = << >>
  BY <1>1, <1>3 DEF QView
<1>10. QSnap(queue, level) = [l \in 0..0 |-> << >>]
  BY <1>1, <1>9 DEF QSnap
<1>11. Q!Queue!Init
  BY <1>1, <1>10, QSnapIs DEF Q!Queue!Init
<1> QED
  BY <1>1, <1>6, <1>7, <1>8, <1>11 DEF QInv

LEMMA QStep ==
    ASSUME QInv, Q!Next PROVE QInv' /\ Q!Queue!Next
<1>0. /\ level \in Nat /\ next \in Nat /\ MaxElem \in Nat /\ MaxLevel \in Nat
      /\ QGood(queue, level) /\ Accounted(queue.list, cleaned, next)
      /\ level \in 0..MaxLevel /\ next \in 0..MaxElem
  BY BoundsAssumption DEF QInv
<1>1. CASE Q!Enqueue
  <2> DEFINE e == next + 1
  <2>1. /\ e \in 1..MaxElem /\ queue' = QAppended(Q!Save(queue, level), e)
        /\ level' = level /\ next' = e /\ cleaned' = cleaned /\ next < MaxElem
    BY <1>0, <1>1 DEF Q!Enqueue, QAppended
  <2>e. Accounted(Append(queue.list, e), cleaned, e)
    BY <1>0, <2>1, AccountedAppend
  <2> HIDE DEF e
  <2>2. /\ QGood(queue', level) /\ queue'.list = Append(queue.list, e)
        /\ \A l \in 0..level - 1 : QView(queue', l) = QView(queue, l)
        /\ QView(queue', level) = Append(QView(queue, level), e)
    <3>1. /\ level \in Nat /\ QGood(queue, level) /\ e \in 1..MaxElem
          /\ queue' = QAppended(Q!Save(queue, level), e)
      BY <1>0, <2>1
    <3> QED
      BY SMTT(30), <3>1, QEnqueued
  <2>3. QSnap(queue', level') = [QSnap(queue, level) EXCEPT ![level] = Append(@, e)]
    <3>1. ASSUME NEW l \in 0..level
          PROVE  QView(queue', l)
                   = IF l = level THEN Append(QView(queue, l), e) ELSE QView(queue, l)
      <4>1. l = level \/ l \in 0..level - 1
        BY <1>0
      <4> QED
        BY <2>2, <4>1
    <3> QED
      BY <1>0, <2>1, <3>1 DEF QSnap
  <2>4. Q!Queue!Enqueue(e)
    BY <2>1, <2>3, QSnapIs, QSnapIsNext DEF Q!Queue!Enqueue
  <2>5. QInv'
    <3>1. e \in 0..MaxElem
      BY <1>0, <2>1
    <3> QED
      BY <1>0, <2>1, <2>2, <2>e, <3>1 DEF QInv
  <2> QED
    BY <2>1, <2>4, <2>5 DEF Q!Queue!Next, Q!Elem
<1>2. CASE Q!Dequeue
  <2> DEFINE y == QAdvanced(Q!Save(queue, level))
             cut == y.iter = y.size /\ y.lastsave # y.size
  <2>1. /\ level' = level /\ next' = next /\ queue.iter < queue.size
        /\ cut => queue' = QTruncated(y) /\ cleaned' = Q!CleanUp(y.list, y.lastsave)
        /\ ~cut => queue' = y /\ cleaned' = cleaned
    BY <1>2 DEF Q!Dequeue, QAdvanced, QTruncated
  <2>2. /\ QGood(queue', level) /\ y.list = queue.list
        /\ y.lastsave \in Nat /\ y.lastsave <= Len(queue.list)
        /\ queue'.list = IF cut THEN SubSeq(queue.list, 1, y.lastsave) ELSE queue.list
        /\ \A l \in 0..level - 1 : QView(queue', l) = QView(queue, l)
        /\ QView(queue, level) # << >>
        /\ QView(queue', level) = Tail(QView(queue, level))
    BY <1>0, <2>1, QDequeued
  <2> HIDE DEF y
  <2>3. QSnap(queue', level') = [QSnap(queue, level) EXCEPT ![level] = Tail(@)]
    <3>1. ASSUME NEW l \in 0..level
          PROVE  QView(queue', l)
                   = IF l = level THEN Tail(QView(queue, l)) ELSE QView(queue, l)
      <4>1. l = level \/ l \in 0..level - 1
        BY <1>0
      <4> QED
        BY <2>2, <4>1
    <3> QED
      BY <1>0, <2>1, <3>1 DEF QSnap
  <2>4. Q!Queue!Dequeue
    <3>1. QSnap(queue, level)[level] # << >>
      BY <1>0, <2>2 DEF QSnap
    <3> QED
      BY <2>1, <2>3, <3>1, QSnapIs, QSnapIsNext DEF Q!Queue!Dequeue
  <2>5. Accounted(queue'.list, cleaned', next)
    <3>1. CASE cut
      BY <1>0, <2>1, <2>2, <3>1, AccountedCut
    <3>2. CASE ~cut
      BY <1>0, <2>1, <2>2, <3>2
    <3> QED
      BY <3>1, <3>2
  <2>6. QInv'
    BY <1>0, <2>1, <2>2, <2>5 DEF QInv
  <2> QED
    BY <2>4, <2>6 DEF Q!Queue!Next
<1>3. CASE Q!Push
  <2>1. /\ queue' = queue /\ cleaned' = cleaned /\ next' = next
        /\ level' = level + 1 /\ level < MaxLevel
    BY <1>3 DEF Q!Push
  <2>2. QGood(queue, level + 1) /\ QView(queue, level + 1) = QView(queue, level)
    BY <1>0, QPushed
  <2>3. QSnap(queue', level')
          = [l \in 0..level + 1 |-> IF l > level THEN QSnap(queue, level)[level]
                                    ELSE QSnap(queue, level)[l]]
    <3>1. ASSUME NEW l \in 0..level + 1
          PROVE  QView(queue, l) = IF l > level THEN QView(queue, level) ELSE QView(queue, l)
      <4>1. l > level => l = level + 1
        BY <1>0
      <4> QED
        BY <2>2, <4>1
    <3>2. \A l \in 0..level + 1 : ~(l > level) => l \in 0..level
      BY <1>0
    <3> QED
      BY <1>0, <2>1, <3>1, <3>2 DEF QSnap
  <2>4. Q!Queue!Push
    BY <2>1, <2>3, QSnapIs, QSnapIsNext DEF Q!Queue!Push
  <2>5. QInv'
    <3>1. level + 1 \in 0..MaxLevel
      BY <1>0, <2>1
    <3> QED
      BY <1>0, <2>1, <2>2, <3>1 DEF QInv
  <2> QED
    BY <2>4, <2>5 DEF Q!Queue!Next
<1>4. CASE Q!Pop
  <2>1. level' = level - 1 /\ level > 0 /\ next' = next
    BY <1>4 DEF Q!Pop
  <2>2. /\ QGood(queue', level - 1) /\ Accounted(queue'.list, cleaned', next)
        /\ \A l \in 0..level - 1 : QView(queue', l) = QView(queue, l)
    <3>1. CASE queue.scope = level
      <4>1. /\ queue' = Q!Restore(queue)
            /\ cleaned' = Q!CleanUp(queue.list, Q!LastCopy(queue).size)
        BY <1>4, <2>1, <3>1 DEF Q!Pop, Q!InScope
      <4>2. /\ QGood(queue', level - 1)
            /\ Q!LastCopy(queue).size \in Nat /\ Q!LastCopy(queue).size <= Len(queue.list)
            /\ queue'.list = SubSeq(queue.list, 1, Q!LastCopy(queue).size)
            /\ \A l \in 0..level - 1 : QView(queue', l) = QView(queue, l)
        BY <1>0, <2>1, <3>1, <4>1, QRestored
      <4> DEFINE s == Q!LastCopy(queue).size
      <4> HIDE DEF s
      <4>3. s \in Nat /\ s <= Len(queue.list)
        BY <4>2 DEF s
      <4>4. Accounted(SubSeq(queue.list, 1, s), Q!CleanUp(queue.list, s), next)
        BY <1>0, <4>3, AccountedCut
      <4> QED
        BY <4>1, <4>2, <4>4 DEF s
    <3>2. CASE queue.scope # level
      <4>1. queue' = queue /\ cleaned' = cleaned
        BY <1>4, <3>2 DEF Q!Pop, Q!InScope
      <4> QED
        BY <1>0, <2>1, <3>2, <4>1, QKept
    <3> QED
      BY <3>1, <3>2
  <2>3. QSnap(queue', level') = [l \in 0..level - 1 |-> QSnap(queue, level)[l]]
    BY <1>0, <2>1, <2>2 DEF QSnap
  <2>4. Q!Queue!Pop
    BY <2>1, <2>3, QSnapIs, QSnapIsNext DEF Q!Queue!Pop
  <2>5. QInv'
    <3>1. level - 1 \in 0..MaxLevel
      BY <1>0, <2>1
    <3> QED
      BY <1>0, <2>1, <2>2, <3>1 DEF QInv
  <2> QED
    BY <2>4, <2>5 DEF Q!Queue!Next
<1> QED
  BY <1>1, <1>2, <1>3, <1>4 DEF Q!Next

LEMMA QStutter ==
    ASSUME QInv, UNCHANGED <<level, next, queue, cleaned>>
    PROVE  QInv' /\ UNCHANGED Q!Queue!vars
<1>1. QSnap(queue', level') = QSnap(queue, level)
  OBVIOUS
<1>2. UNCHANGED Q!Queue!vars
  BY <1>1, QSnapIs, QSnapIsNext DEF Q!Queue!vars
<1> QED
  BY <1>2 DEF QInv

-----------------------------------------------------------------------------
(* The three structures in one context. *)

\* Each step of the composition is a step of each structure or leaves it alone.
LEMMA StepsOfEach ==
    ASSUME Next
    PROVE  Q!Next /\ T!Next /\ (M!Next \/ UNCHANGED <<level, map, keys, hashMap>>)
<1>1. CASE Enqueue
  <2>1. Q!Enqueue /\ T!Enqueue
    BY <1>1 DEF Enqueue
  <2>2. level' = level
    BY <2>1 DEF Q!Enqueue
  <2>3. (\E k \in Key, d \in Data : M!Insert(k, d)) \/ UNCHANGED <<map, keys, hashMap>>
    BY <1>1 DEF Enqueue
  <2> QED
    BY <2>1, <2>2, <2>3 DEF Q!Next, T!Next, M!Next
<1>2. CASE Dequeue
  <2>1. Q!Dequeue /\ T!Dequeue /\ UNCHANGED <<map, keys, hashMap>>
    BY <1>2 DEF Dequeue
  <2>2. level' = level
    BY <2>1 DEF Q!Dequeue
  <2> QED
    BY <2>1, <2>2 DEF Q!Next, T!Next
<1>3. CASE Push
  BY <1>3 DEF Push, Q!Next, T!Next, M!Next
<1>4. CASE Pop
  BY <1>4 DEF Pop, Q!Next, T!Next, M!Next
<1> QED
  BY <1>1, <1>2, <1>3, <1>4 DEF Next

\* The inductive invariant.
IInv == QInv /\ TInv /\ MInv

LEMMA Initially == ASSUME Init PROVE IInv
BY QInit, TInit, MInit DEF Init, IInv

LEMMA Inductive ==
    ASSUME IInv, [Next]_vars PROVE IInv'
<1>1. CASE Next
  <2>1. QInv' /\ TInv'
    BY <1>1, StepsOfEach, QStep, TStep DEF IInv
  <2>2. MInv'
    BY <1>1, StepsOfEach, MStep, MStutter DEF IInv
  <2> QED
    BY <2>1, <2>2 DEF IInv
<1>2. CASE UNCHANGED vars
  <2>1. UNCHANGED <<level, next, queue, cleaned>> /\ UNCHANGED <<level, next, list, iter>>
        /\ UNCHANGED <<level, map, keys, hashMap>>
    BY <1>2 DEF vars
  <2> QED
    BY <2>1, QStutter, TStutter, MStutter DEF IInv
<1> QED
  BY <1>1, <1>2

\* What the three structures keep at every level of the context, through every
\* push, pop, insertion, removal and overwrite: the inductive invariant.
THEOREM InvariantHolds == Spec => []IInv
BY Initially, Inductive, PTL DEF Spec

LEMMA QTypes == ASSUME QInv PROVE Q!TypeOK
<1>0. /\ level \in 0..MaxLevel /\ next \in 0..MaxElem /\ queue \in QueueT /\ Chain(queue, level)
      /\ Protected(queue) /\ queue.size = Len(queue.list)
      /\ queue.iter <= queue.size /\ queue.lastsave <= queue.size
      /\ queue.list \in Seq(1..MaxElem) /\ Len(queue.list) <= next /\ cleaned \in [1..MaxElem -> Nat]
  BY DEF QInv, QGood, Accounted
<1>1. MaxElem \in Nat /\ MaxLevel \in Nat
  BY BoundsAssumption
<1>2. /\ queue.scope \in 0..MaxLevel /\ queue.size \in 0..MaxElem
      /\ queue.iter \in 0..MaxElem /\ queue.lastsave \in 0..MaxElem
  <2>1. /\ queue.scope \in Nat /\ queue.size \in Nat
        /\ queue.iter \in Nat /\ queue.lastsave \in Nat
    BY <1>0 DEF QueueT
  <2>2. queue.scope <= level
    BY <1>0 DEF Chain
  <2> QED
    BY SMTT(30), <1>0, <1>1, <2>1, <2>2
<1>3. ASSUME NEW i \in 1..Len(queue.saved) PROVE queue.saved[i] \in Q!Indices
  <2> DEFINE c == queue.saved[i]
  <2>1. c \in CopyT
    <3>1. queue.saved \in Seq(CopyT)
      BY <1>0 DEF QueueT
    <3> QED
      BY <3>1
  <2>2. c.scope \in Nat /\ c.size \in Nat /\ c.iter \in Nat /\ c.lastsave \in Nat
    BY <2>1 DEF CopyT
  <2>3. c.size <= queue.lastsave /\ c.iter <= c.size /\ c.lastsave <= c.size
    BY <1>0 DEF Protected
  <2>4. c.scope < queue.scope
    <3>1. DOMAIN queue.saved = 1..Len(queue.saved)
      BY <1>0 DEF QueueT
    <3>2. c.scope \in 0..queue.scope - 1
      BY <1>0, <3>1 DEF Chain
    <3> QED
      BY <1>2, <3>2
  <2> HIDE DEF c
  <2>5. /\ c.scope \in 0..MaxLevel /\ c.size \in 0..MaxElem
        /\ c.iter \in 0..MaxElem /\ c.lastsave \in 0..MaxElem
    BY SMTT(30), <1>1, <1>2, <2>2, <2>3, <2>4
  <2>6. c \in Q!Indices
    BY <2>1, <2>5 DEF CopyT, Q!Indices, Q!Index
  <2> QED
    BY <2>6 DEF c
<1>4. queue.saved \in Seq(Q!Indices)
  <2>1. queue.saved \in Seq(CopyT)
    BY <1>0 DEF QueueT
  <2> QED
    BY <1>3, <2>1
<1>5. [f \in {"scope", "size", "iter", "lastsave"} |-> queue[f]] \in Q!Indices
  BY <1>0, <1>2 DEF QueueT, Q!Indices, Q!Index
<1> QED
  BY <1>0, <1>4, <1>5 DEF Q!TypeOK, Q!Elem, Q!Index

\* No structure leads beyond what it holds, at any level, for any number of facts,
\* levels, keys and values: CDList::truncateList never goes below a saved size,
\* CDTrailQueue::front() is within its list, and pop_to_size() erases exactly what
\* was inserted since.
THEOREM SizesFit == Spec => []SavedSizesFit
<1>1. ASSUME IInv PROVE SavedSizesFit
  <2>0. QInv /\ TInv /\ MInv
    BY <1>1 DEF IInv
  <2>1. Q!TypeOK
    BY <2>0, QTypes
  <2>2. T!TypeOK
    BY <2>0 DEF T!TypeOK, TInv, TGood, ListT, IterT, T!Elem
  <2>3. M!TypeOK
    <3>0. MGood(map, keys, hashMap, level) /\ level \in 0..MaxLevel
      BY <2>0 DEF MInv
    <3>1. map.size \in Nat /\ keys \in Seq(Key) /\ Len(keys) = map.size
      BY <3>0 DEF MGood, MapT
    <3>2. \A k \in DOMAIN hashMap : hashMap[k] \in Data /\ \E i \in 1..map.size : keys[i] = k
      BY <3>0 DEF MGood
    <3>3. DOMAIN hashMap \subseteq Key
      BY <3>1, <3>2
    <3> QED
      BY <3>0, <3>1, <3>2, <3>3 DEF M!TypeOK
  <2>4. Q!SavedSizesFit
    <3>0. /\ queue.saved \in Seq(CopyT) /\ Chain(queue, level)
          /\ Protected(queue) /\ queue.size = Len(queue.list)
          /\ queue.iter <= queue.size /\ queue.lastsave <= queue.size
      BY <2>0 DEF QInv, QGood, QueueT
    <3>1. Len(queue.saved) \in Nat /\ DOMAIN queue.saved = 1..Len(queue.saved)
      BY <3>0
    <3>2. ASSUME queue.saved # << >> PROVE Q!LastCopy(queue).size <= queue.lastsave
      <4>1. Len(queue.saved) \in 1..Len(queue.saved)
        BY <3>0, <3>2
      <4> QED
        BY <3>0, <4>1 DEF Protected, Q!LastCopy
    <3>3. ASSUME NEW i \in 1..Len(queue.saved)
          PROVE  /\ queue.saved[i].iter <= queue.saved[i].size
                 /\ queue.saved[i].lastsave <= queue.saved[i].size
                 /\ i > 1 => queue.saved[i - 1].size <= queue.saved[i].lastsave
      <4>1. i > 1 => i - 1 \in 1..Len(queue.saved) /\ i - 1 < i
        BY <3>1
      <4> QED
        BY <3>0, <4>1 DEF Protected
    <3> QED
      BY <3>0, <3>1, <3>2, <3>3 DEF Q!SavedSizesFit
  <2>5. T!IterInList
    BY <2>0 DEF TInv, TGood, T!IterInList, T!VersionAt, VersionAt
  <2>6. M!SizesAgree
    <3>0. MGood(map, keys, hashMap, level)
      BY <2>0 DEF MInv
    <3>1. keys \in Seq(Key) /\ Len(keys) = map.size /\ DOMAIN keys = 1..map.size
      BY <3>0 DEF MGood
    <3>2. M!IsInjective(keys)
      BY <3>0, <3>1 DEF MGood, M!IsInjective
    <3>3. M!ToSet(keys) = DOMAIN hashMap
      <4>1. \A i \in 1..map.size : keys[i] \in DOMAIN hashMap
        BY <3>0 DEF MGood
      <4>2. \A k \in DOMAIN hashMap : \E i \in 1..map.size : keys[i] = k
        BY <3>0 DEF MGood
      <4>3. M!ToSet(keys) = {keys[i] : i \in 1..map.size}
        BY <3>1 DEF M!ToSet
      <4> QED
        BY <4>1, <4>2, <4>3
    <3> QED
      BY <3>1, <3>2, <3>3 DEF M!SizesAgree
  <2> QED
    BY <2>1, <2>2, <2>3, <2>4, <2>5, <2>6 DEF SavedSizesFit
<1> QED
  BY <1>1, InvariantHolds, PTL

\* CDQueue calls d_cleanUp on an element once, when it has left the list for good
\* and no version can reach it.
THEOREM CleanedOnce == Spec => []CleanedOnceAndLast
<1>1. ASSUME IInv PROVE CleanedOnceAndLast
  <2> SUFFICES ASSUME CallCleanup, NEW e \in 1..next
               PROVE  /\ cleaned[e] <= 1
                      /\ cleaned[e] = 0 <=> \E i \in DOMAIN queue.list : queue.list[i] = e
                      /\ cleaned[e] = 1 =>
                           \A l \in 0..level :
                             \A i \in DOMAIN Q!Pending(Q!VersionAt(queue, l)) :
                               Q!Pending(Q!VersionAt(queue, l))[i] # e
    BY DEF CleanedOnceAndLast, Q!CleanedOnceAndLast
  <2>0. /\ level \in Nat /\ next \in 0..MaxElem /\ QGood(queue, level) /\ MaxElem \in Nat
        /\ Accounted(queue.list, cleaned, next)
    BY <1>1, BoundsAssumption DEF IInv, QInv
  <2>1. /\ queue.list \in Seq(1..MaxElem) /\ DOMAIN queue.list = 1..Len(queue.list)
        /\ e \in 1..MaxElem /\ e <= next
    BY <2>0 DEF Accounted
  <2>2. InList(queue.list, e) => cleaned[e] = 0
    BY <2>0, <2>1 DEF Accounted
  <2>3. ~InList(queue.list, e) => cleaned[e] = 1
    BY <2>0, <2>1 DEF Accounted
  <2>4. ASSUME NEW l \in 0..level, NEW i \in DOMAIN Q!Pending(Q!VersionAt(queue, l))
        PROVE  InList(queue.list, Q!Pending(Q!VersionAt(queue, l))[i])
    <3> DEFINE a == VersionAt(queue, l).iter
               b == VersionAt(queue, l).size
               p == SubSeq(queue.list, a + 1, b)
    <3>1. Q!Pending(Q!VersionAt(queue, l)) = p
      BY DEF Q!Pending, Q!VersionAt, VersionAt
    <3>2. a \in Nat /\ b \in Nat /\ b <= Len(queue.list)
      <4>0. /\ queue.iter \in Nat /\ queue.size \in Nat /\ queue.size = Len(queue.list)
            /\ queue.lastsave <= queue.size /\ queue.lastsave \in Nat
        BY <2>0 DEF QGood, QueueT
      <4>1. CASE queue.scope <= l
        BY <4>0, <4>1 DEF VersionAt
      <4>2. CASE ~(queue.scope <= l)
        <5>1. a \in Nat /\ b \in Nat /\ b <= queue.lastsave
          BY <2>0, <4>2, QLower
        <5> QED
          BY <4>0, <5>1
      <4> QED
        BY <4>1, <4>2
    <3> HIDE DEF a, b
    <3>3. /\ p \in Seq(1..MaxElem) /\ Len(p) = IF a < b THEN b - a ELSE 0
          /\ \A j \in 1..b - a : p[j] = queue.list[a + j]
      <4>1. queue.list \in Seq(1..MaxElem)
        BY <2>1
      <4> QED
        BY ZenonT(60), <3>2, <4>1, SliceIs
    <3> HIDE DEF p
    <3>4. i \in 1..b - a
      <4>1. i \in 1..Len(p)
        BY <2>4, <3>1, <3>3
      <4> QED
        BY <3>2, <3>3, <4>1
    <3>5. a + i \in 1..Len(queue.list)
      <4>1. Len(queue.list) \in Nat
        BY <2>1
      <4> QED
        BY <3>2, <3>4, <4>1
    <3>6. p[i] = queue.list[a + i]
      BY <3>3, <3>4
    <3> QED
      BY <3>1, <3>5, <3>6 DEF InList
  <2>5. InList(queue.list, e) <=> \E i \in DOMAIN queue.list : queue.list[i] = e
    BY <2>1 DEF InList
  <2>6. cleaned[e] <= 1 /\ (cleaned[e] = 0 <=> InList(queue.list, e))
    BY <2>2, <2>3
  <2>7. cleaned[e] = 1 => ~InList(queue.list, e)
    BY <2>2
  <2> QED
    BY <2>4, <2>5, <2>6, <2>7
<1> QED
  BY <1>1, InvariantHolds, PTL

\* The refinement: what each structure holds at each level is what the structure
\* with full snapshots holds there, step by step.
THEOREM Refinement == Spec => ImplementsSnapshots
<1>1. ASSUME Init PROVE Q!Queue!Init /\ T!Queue!Init /\ M!Map!Init
  BY <1>1, QInit, TInit, MInit DEF Init
<1>2. ASSUME IInv, [Next]_vars
      PROVE  /\ [Q!Queue!Next]_(Q!Queue!vars)
             /\ [T!Queue!Next]_(T!Queue!vars)
             /\ [M!Map!Next]_(M!Map!vars)
  <2>1. CASE Next
    <3>1. Q!Queue!Next /\ T!Queue!Next
      BY <1>2, <2>1, StepsOfEach, QStep, TStep DEF IInv
    <3>2. M!Map!Next \/ UNCHANGED M!Map!vars
      BY <1>2, <2>1, StepsOfEach, MStep, MStutter DEF IInv
    <3> QED
      BY <3>1, <3>2
  <2>2. CASE UNCHANGED vars
    <3>1. UNCHANGED <<level, next, queue, cleaned>> /\ UNCHANGED <<level, next, list, iter>>
          /\ UNCHANGED <<level, map, keys, hashMap>>
      BY <2>2 DEF vars
    <3>2. UNCHANGED Q!Queue!vars /\ UNCHANGED T!Queue!vars /\ UNCHANGED M!Map!vars
      BY <1>2, <3>1, QStutter, TStutter, MStutter DEF IInv
    <3> QED
      BY <3>2
  <2> QED
    BY <1>2, <2>1, <2>2
<1>3. Spec => Q!Queue!Spec
  BY <1>1, <1>2, InvariantHolds, PTL DEF Spec, Q!Queue!Spec
<1>4. Spec => T!Queue!Spec
  BY <1>1, <1>2, InvariantHolds, PTL DEF Spec, T!Queue!Spec
<1>5. Spec => M!Map!Spec
  BY <1>1, <1>2, InvariantHolds, PTL DEF Spec, M!Map!Spec
<1> QED
  BY <1>3, <1>4, <1>5
     DEF ImplementsSnapshots, Q!ImplementsQueue, T!ImplementsQueue, M!ImplementsMap

-----------------------------------------------------------------------------
(* CDHashMap: the ring of the elements. *)

\* The element after the i-th one.
SuccIn(r, i) == IF i = Len(r) THEN r[1] ELSE r[i + 1]

\* r is the ring from d_first on.
Ring(r, hp) ==
    /\ \A i, j \in 1..Len(r) : r[i] = r[j] => i = j
    /\ \A i \in 1..Len(r) : /\ r[i] \in DOMAIN hp
                            /\ hp[r[i]].next = SuccIn(r, i)
                            /\ hp[SuccIn(r, i)].prev = r[i]

Without(r, j) == [i \in 1..Len(r) - 1 |-> IF i < j THEN r[i] ELSE r[i + 1]]

LEMMA Appended ==
    ASSUME NEW S, NEW r \in Seq(S), NEW e \in S
    PROVE  /\ Append(r, e) \in Seq(S) /\ Len(Append(r, e)) = Len(r) + 1
           /\ \A i \in 1..Len(r) : Append(r, e)[i] = r[i]
           /\ Append(r, e)[Len(r) + 1] = e
  OBVIOUS

LEMMA Elements ==
    ASSUME NEW S, NEW n \in Nat, NEW f \in [1..n -> S]
    PROVE  f \in Seq(S) /\ Len(f) = n
  OBVIOUS

LEMMA WithoutIs ==
    ASSUME NEW S, NEW r \in Seq(S), NEW j \in 1..Len(r)
    PROVE  /\ Without(r, j) \in Seq(S) /\ Len(Without(r, j)) = Len(r) - 1
           /\ \A i \in 1..Len(r) - 1 : Without(r, j)[i] = IF i < j THEN r[i] ELSE r[i + 1]
<1>1. Len(r) \in Nat /\ \A k \in 1..Len(r) : r[k] \in S
  OBVIOUS
<1>2. \A i \in 1..Len(r) - 1 : i \in 1..Len(r) /\ i + 1 \in 1..Len(r)
  BY <1>1
<1>3. Without(r, j) \in [1..Len(r) - 1 -> S]
  BY <1>1, <1>2 DEF Without
<1>4. Len(r) - 1 \in Nat
  BY <1>1
<1>5. Without(r, j) \in Seq(S) /\ Len(Without(r, j)) = Len(r) - 1
  BY ONLY <1>3, <1>4, Elements, ZenonT(60)
<1> QED
  BY <1>5 DEF Without

\* The element before the first one is the last one.
LEMMA LastInRing ==
    ASSUME NEW S, NEW r \in Seq(S), NEW hp, Ring(r, hp), Len(r) # 0
    PROVE  r[1] \in DOMAIN hp /\ hp[r[1]].prev = r[Len(r)]
<1>1. Len(r) \in 1..Len(r) /\ 1 \in 1..Len(r)
  OBVIOUS
<1> QED
  BY <1>1 DEF Ring, SuccIn

\* Linking a new element between the last and the first one.
Lengthened(r, hp, a, h2) ==
    /\ DOMAIN h2 = DOMAIN hp \cup {a}
    /\ Len(r) = 0 => h2[a].prev = a /\ h2[a].next = a
    /\ Len(r) # 0 => \A b \in DOMAIN h2 :
          /\ h2[b].prev = IF b = a THEN r[Len(r)] ELSE IF b = r[1] THEN a ELSE hp[b].prev
          /\ h2[b].next = IF b = a THEN r[1] ELSE IF b = r[Len(r)] THEN a ELSE hp[b].next

LEMMA RingAppended ==
    ASSUME NEW S, NEW r \in Seq(S), NEW hp, Ring(r, hp), NEW a \in S, a \notin DOMAIN hp,
           NEW h2, Lengthened(r, hp, a, h2)
    PROVE  Ring(Append(r, a), h2)
<1>0. /\ DOMAIN h2 = DOMAIN hp \cup {a}
      /\ Len(r) = 0 => h2[a].prev = a /\ h2[a].next = a
      /\ Len(r) # 0 => \A b \in DOMAIN h2 :
            /\ h2[b].prev = IF b = a THEN r[Len(r)] ELSE IF b = r[1] THEN a ELSE hp[b].prev
            /\ h2[b].next = IF b = a THEN r[1] ELSE IF b = r[Len(r)] THEN a ELSE hp[b].next
  BY DEF Lengthened
<1>1. PICK n, q : n = Len(r) /\ q = Append(r, a)
  OBVIOUS
<1>2. /\ n \in Nat /\ Len(q) = n + 1 /\ q[n + 1] = a
      /\ \A i \in 1..n : q[i] = r[i] /\ r[i] \in DOMAIN hp /\ r[i] # a
  BY <1>1, Appended DEF Ring
<1>3. \A i, j \in 1..n + 1 : q[i] = q[j] => i = j
  <2> TAKE i, j \in 1..n + 1
  <2> HAVE q[i] = q[j]
  <2>1. (i \in 1..n \/ i = n + 1) /\ (j \in 1..n \/ j = n + 1)
    BY <1>2
  <2>2. CASE i \in 1..n /\ j \in 1..n
    BY <1>1, <1>2, <2>2 DEF Ring
  <2> QED
    BY <1>2, <2>1, <2>2
<1>4. ASSUME NEW i \in 1..n + 1
      PROVE  /\ q[i] \in DOMAIN h2 /\ h2[q[i]].next = SuccIn(q, i)
             /\ h2[SuccIn(q, i)].prev = q[i]
  <2>1. CASE n = 0
    <3>1. i = n + 1 /\ n + 1 = 1
      BY <2>1
    <3> QED
      BY <1>0, <1>1, <1>2, <2>1, <3>1 DEF SuccIn
  <2>2. CASE n # 0
    <3>0. /\ 1 \in 1..n /\ n \in 1..n /\ n + 1 # 1
          /\ \A b \in DOMAIN h2 :
              /\ h2[b].prev = IF b = a THEN r[n] ELSE IF b = r[1] THEN a ELSE hp[b].prev
              /\ h2[b].next = IF b = a THEN r[1] ELSE IF b = r[n] THEN a ELSE hp[b].next
      BY <1>0, <1>1, <1>2, <2>2
    <3>1. CASE i = n + 1
      <4>1. SuccIn(q, i) = r[1] /\ q[i] = a
        BY <1>0, <1>2, <3>0, <3>1 DEF SuccIn
      <4> QED
        BY <1>0, <1>2, <3>0, <4>1
    <3>2. CASE i = n /\ i # n + 1
      <4>1. SuccIn(q, i) = a /\ q[i] = r[n] /\ r[n] # a
        BY <1>0, <1>2, <3>0, <3>2 DEF SuccIn
      <4> QED
        BY <1>0, <1>2, <3>0, <4>1
    <3>3. CASE i # n /\ i # n + 1
      <4>1. i \in 1..n /\ i + 1 \in 1..n /\ i # n + 1 /\ i + 1 # 1
        BY <1>2, <3>3
      <4>2. SuccIn(q, i) = r[i + 1] /\ SuccIn(r, i) = r[i + 1] /\ q[i] = r[i]
        BY <1>0, <1>1, <1>2, <3>3, <4>1 DEF SuccIn
      <4>3. r[i] # r[n] /\ r[i + 1] # r[1]
        BY <1>1, <3>0, <3>3, <4>1 DEF Ring
      <4>4. hp[r[i]].next = r[i + 1] /\ hp[r[i + 1]].prev = r[i]
        BY <1>1, <4>1, <4>2 DEF Ring
      <4> QED
        BY <1>0, <1>2, <3>0, <4>1, <4>2, <4>3, <4>4
    <3> QED
      BY <3>1, <3>2, <3>3
  <2> QED
    BY <2>1, <2>2
<1> QED
  BY <1>0, <1>1, <1>2, <1>3, <1>4 DEF Ring

\* Where the neighbours of an element are.
LEMMA Neighbours ==
    ASSUME NEW S, NEW r \in Seq(S), NEW hp, Ring(r, hp), NEW j \in 1..Len(r)
    PROVE  /\ hp[r[j]].next = IF j = Len(r) THEN r[1] ELSE r[j + 1]
           /\ hp[r[j]].prev = IF j = 1 THEN r[Len(r)] ELSE r[j - 1]
<1>1. Len(r) \in Nat /\ 1 \in 1..Len(r) /\ Len(r) \in 1..Len(r)
  OBVIOUS
<1>2. hp[r[j]].next = IF j = Len(r) THEN r[1] ELSE r[j + 1]
  BY DEF Ring, SuccIn
<1>3. CASE j = 1
  BY <1>1, <1>2, <1>3 DEF Ring, SuccIn
<1>4. CASE j # 1
  <2>1. j - 1 \in 1..Len(r) /\ j - 1 # Len(r) /\ j - 1 + 1 = j
    BY <1>1, <1>4
  <2> QED
    BY <1>2, <1>4, <2>1 DEF Ring, SuccIn
<1> QED
  BY <1>2, <1>3, <1>4

\* Unlinking an element.
LEMMA RingWithout ==
    ASSUME NEW S, NEW r \in Seq(S), NEW hp, Ring(r, hp), NEW j \in 1..Len(r),
           NEW h2, DOMAIN h2 = DOMAIN hp,
           \A b \in DOMAIN h2 :
              /\ h2[b].prev = IF b = hp[r[j]].next THEN hp[r[j]].prev ELSE hp[b].prev
              /\ h2[b].next = IF b = hp[r[j]].prev THEN hp[r[j]].next ELSE hp[b].next
    PROVE  Ring(Without(r, j), h2)
<1>1. PICK n, q : n = Len(r) /\ q = Without(r, j)
  OBVIOUS
<1>2. /\ n \in Nat /\ Len(q) = n - 1 /\ j \in 1..n /\ n - 1 \in Nat
      /\ \A i \in 1..n - 1 : q[i] = IF i < j THEN r[i] ELSE r[i + 1]
  BY <1>1, WithoutIs
<1>3. /\ \A i, k \in 1..n : r[i] = r[k] => i = k
      /\ \A i \in 1..n : r[i] \in DOMAIN h2
  BY <1>1 DEF Ring
<1>4. \A i, k \in 1..n - 1 : q[i] = q[k] => i = k
  <2> TAKE i, k \in 1..n - 1
  <2> HAVE q[i] = q[k]
  <2>1. i \in 1..n /\ k \in 1..n /\ i + 1 \in 1..n /\ k + 1 \in 1..n
    BY <1>2
  <2> QED
    BY <1>2, <1>3, <2>1
<1>5. \A i \in 1..n : /\ hp[r[i]].next = IF i = n THEN r[1] ELSE r[i + 1]
                      /\ hp[r[i]].prev = IF i = 1 THEN r[n] ELSE r[i - 1]
  BY <1>1, Neighbours
<1>6. \A i \in 1..n :
          /\ h2[r[i]].prev = IF r[i] = hp[r[j]].next THEN hp[r[j]].prev ELSE hp[r[i]].prev
          /\ h2[r[i]].next = IF r[i] = hp[r[j]].prev THEN hp[r[j]].next ELSE hp[r[i]].next
  BY <1>3
\* the positions of the neighbours of j, and of an element in r
<1> DEFINE up(i) == IF i = n THEN 1 ELSE i + 1
           down(i) == IF i = 1 THEN n ELSE i - 1
           at(i) == IF i < j THEN i ELSE i + 1
<1>7. \A i \in 1..n : /\ up(i) \in 1..n /\ down(i) \in 1..n
                      /\ down(up(i)) = i /\ up(down(i)) = i
                      /\ hp[r[i]].next = r[up(i)] /\ hp[r[i]].prev = r[down(i)]
  BY <1>2, <1>5
<1>8. \A i \in 1..n : /\ h2[r[i]].prev = r[IF i = up(j) THEN down(j) ELSE down(i)]
                      /\ h2[r[i]].next = r[IF i = down(j) THEN up(j) ELSE up(i)]
  <2> TAKE i \in 1..n
  <2>1. up(j) \in 1..n /\ down(j) \in 1..n
    BY <1>2, <1>7
  <2>2. (r[i] = r[up(j)] <=> i = up(j)) /\ (r[i] = r[down(j)] <=> i = down(j))
    BY <1>3, <2>1
  <2>3. /\ hp[r[j]].next = r[up(j)] /\ hp[r[j]].prev = r[down(j)]
        /\ hp[r[i]].next = r[up(i)] /\ hp[r[i]].prev = r[down(i)]
    BY <1>2, <1>7
  <2> HIDE DEF up, down
  <2> QED
    BY <1>6, <2>2, <2>3
<1>9. ASSUME NEW i \in 1..n - 1
      PROVE  /\ at(i) \in 1..n /\ at(i) # j /\ q[i] = r[at(i)]
             /\ SuccIn(q, i) = r[IF at(i) = down(j) THEN up(j) ELSE up(at(i))]
  <2>1. at(i) \in 1..n /\ at(i) # j /\ q[i] = r[at(i)]
    BY <1>2
  <2>2. CASE i = n - 1
    <3>1. SuccIn(q, i) = q[1] /\ 1 \in 1..n - 1
      BY <1>2, <2>2 DEF SuccIn
    <3>2. q[1] = r[at(1)]
      BY <1>2, <3>1
    <3>3. at(1) = IF at(i) = down(j) THEN up(j) ELSE up(at(i))
      BY <1>2, <2>2, <3>1
    <3> HIDE DEF at, up, down
    <3> QED
      BY <2>1, <3>1, <3>2, <3>3
  <2>3. CASE i # n - 1
    <3>1. SuccIn(q, i) = q[i + 1] /\ i + 1 \in 1..n - 1
      BY <1>2, <2>3 DEF SuccIn
    <3>2. q[i + 1] = r[at(i + 1)]
      BY <1>2, <3>1
    <3>3. at(i + 1) = IF at(i) = down(j) THEN up(j) ELSE up(at(i))
      BY <1>2, <2>3, <3>1
    <3> HIDE DEF at, up, down
    <3> QED
      BY <2>1, <3>1, <3>2, <3>3
  <2> QED
    BY <2>2, <2>3
<1>10. ASSUME NEW i \in 1..n - 1
       PROVE  /\ q[i] \in DOMAIN h2 /\ h2[q[i]].next = SuccIn(q, i)
              /\ h2[SuccIn(q, i)].prev = q[i]
  <2>1. PICK m \in 1..n : m = at(i) /\ m # j
    BY <1>9
  <2>2. q[i] = r[m] /\ SuccIn(q, i) = r[IF m = down(j) THEN up(j) ELSE up(m)]
    BY <1>9, <2>1
  <2>3. h2[r[m]].next = r[IF m = down(j) THEN up(j) ELSE up(m)]
    BY <1>8
  <2>4. CASE m = down(j)
    <3>1. h2[r[up(j)]].prev = r[down(j)] /\ up(j) \in 1..n
      BY <1>2, <1>7, <1>8
    <3> HIDE DEF up, down, at
    <3> QED
      BY <1>3, <2>2, <2>3, <2>4, <3>1
  <2>5. CASE m # down(j)
    <3>1. up(m) \in 1..n /\ down(up(m)) = m /\ up(m) # up(j)
      <4>1. down(up(m)) = m /\ down(up(j)) = j /\ up(m) \in 1..n
        BY <1>2, <1>7
      <4> HIDE DEF up, down, at
      <4> QED
        BY <2>1, <4>1
    <3>2. h2[r[up(m)]].prev = r[down(up(m))]
      <4> HIDE DEF up, down, at
      <4> QED
        BY <1>8, <3>1
    <3> HIDE DEF up, down, at
    <3> QED
      BY <1>3, <2>2, <2>3, <2>5, <3>1, <3>2
  <2> QED
    BY <2>4, <2>5
<1> QED
  BY <1>1, <1>2, <1>4, <1>10 DEF Ring

-----------------------------------------------------------------------------
(* CDHashMap: one element. *)

HElem == [scope : 0..MaxLevel, saved : Seq(H!Version), key : Key, data : Data,
          mapped : BOOLEAN, prev : Addr, next : Addr]

\* An element of the table has its versions, and of these only the oldest may be the one
\* in which the element was not in the map yet.
Alive(x, top) ==
    /\ Chain(x, top)
    /\ x.mapped = TRUE
    /\ \A i \in DOMAIN x.saved : i # 1 => x.saved[i].mapped = TRUE

\* Two elements say the same of level l.
SameAt(x, y, l) ==
    /\ VersionAt(y, l).mapped = VersionAt(x, l).mapped
    /\ VersionAt(y, l).data = VersionAt(x, l).data

\* CDOhash_map::set: what it needs of an element, and what it makes of it.
Settable(x) ==
    /\ Chain(x, level)
    /\ \A i \in DOMAIN x.saved : i # 1 => x.saved[i].mapped = TRUE
    /\ x.scope # level /\ x.saved # << >> => x.mapped = TRUE

IsSet(x, d, y) ==
    /\ y \in HElem /\ y.key = x.key /\ y.prev = x.prev /\ y.next = x.next
    /\ y.data = d /\ y.mapped = x.mapped /\ y.scope = level
    /\ Chain(y, level)
    /\ \A i \in DOMAIN y.saved : i # 1 => y.saved[i].mapped = TRUE
    /\ VersionAt(y, level) = y
    /\ \A l \in 0..level - 1 : SameAt(x, y, l)

LEMMA SetIs ==
    ASSUME NEW x \in HElem, level \in 0..MaxLevel, Settable(x), NEW d \in Data
    PROVE  IsSet(x, d, H!Set(x, d))
<1> PICK y : y = H!Set(x, d)
  OBVIOUS
<1>0. /\ Chain(x, level)
      /\ \A i \in DOMAIN x.saved : i # 1 => x.saved[i].mapped = TRUE
      /\ x.scope # level /\ x.saved # << >> => x.mapped = TRUE
  BY DEF Settable
<1> DEFINE S == H!Version
           copy == [scope |-> x.scope, data |-> x.data, mapped |-> x.mapped]
<1>1. copy \in S /\ copy.scope = x.scope /\ copy.data = x.data /\ copy.mapped = x.mapped
      /\ x.saved \in Seq(S) /\ level \in Nat /\ x.scope \in Nat
  BY BoundsAssumption DEF HElem, H!Version
<1>2. y = [scope |-> level, saved |-> IF x.scope = level THEN x.saved ELSE Append(x.saved, copy),
           key |-> x.key, data |-> d, mapped |-> x.mapped, prev |-> x.prev, next |-> x.next]
  <2> HIDE DEF copy
  <2>1. CASE x.scope = level
    BY <2>1 DEF H!Set, H!MakeCurrent, HElem
  <2>2. CASE x.scope # level
    BY <2>2 DEF H!Set, H!MakeCurrent, H!Copy, HElem, copy
  <2> QED
    BY <2>1, <2>2
<1> HIDE DEF copy, S
<1>3. /\ y.scope = level /\ y.data = d /\ y.mapped = x.mapped /\ y.key = x.key
      /\ y.prev = x.prev /\ y.next = x.next
      /\ y.saved = IF x.scope = level THEN x.saved ELSE Append(x.saved, copy)
  BY <1>2
<1>4. /\ y.saved \in Seq(S) /\ Chain(y, level) /\ VersionAt(y, level) = y
      /\ \A l \in 0..level - 1 :
            VersionAt(y, l) = IF x.scope <= l THEN copy ELSE VersionAt(x, l)
  BY <1>0, <1>1, <1>3, Written
<1>5. \A l \in 0..level - 1 : SameAt(x, y, l)
  BY ZenonT(60), <1>1, <1>4 DEF VersionAt, SameAt
<1>6. \A i \in DOMAIN y.saved : i # 1 => y.saved[i].mapped = TRUE
  <2>1. CASE x.scope = level
    BY <1>0, <1>3, <2>1
  <2>2. CASE x.scope # level
    <3>1. /\ DOMAIN y.saved = 1..Len(x.saved) + 1 /\ Len(x.saved) \in Nat
          /\ \A i \in 1..Len(x.saved) : y.saved[i] = x.saved[i]
          /\ y.saved[Len(x.saved) + 1] = copy
          /\ DOMAIN x.saved = 1..Len(x.saved)
      BY <1>1, <1>3, <2>2
    <3>2. Len(x.saved) # 0 => copy.mapped = TRUE
      BY <1>0, <1>1, <2>2
    <3> QED
      BY <1>0, <3>1, <3>2
  <2> QED
    BY <2>1, <2>2
<1>7. y \in HElem
  <2>1. level \in 0..MaxLevel /\ y.saved \in Seq(H!Version)
    BY <1>4 DEF S
  <2>2. y = [scope |-> level, saved |-> y.saved,
           key |-> x.key, data |-> d, mapped |-> x.mapped, prev |-> x.prev, next |-> x.next]
    BY <1>2
  <2> QED
    BY <2>1, <2>2 DEF HElem
<1> QED
  BY <1>3, <1>4, <1>5, <1>6, <1>7 DEF IsSet

\* CDHashMap::insert on a key that is there
LEMMA AssignedIs ==
    ASSUME NEW x \in HElem, level \in 0..MaxLevel, Alive(x, level),
           NEW d \in Data, NEW y, y = H!Set(x, d)
    PROVE  /\ y \in HElem /\ y.key = x.key /\ y.prev = x.prev /\ y.next = x.next
           /\ y.data = d /\ Alive(y, level) /\ VersionAt(y, level) = y
           /\ \A l \in 0..level - 1 : SameAt(x, y, l)
<1>1. /\ Chain(x, level) /\ x.mapped = TRUE
      /\ \A i \in DOMAIN x.saved : i # 1 => x.saved[i].mapped = TRUE
  BY DEF Alive
<1>2. Settable(x)
  BY <1>1 DEF Settable
<1>3. IsSet(x, d, y)
  BY <1>2, SetIs
<1> QED
  BY <1>1, <1>3, Zenon DEF Alive, IsSet

\* The constructor: at the levels below, the element is not in the map.
IsConstructed(y, a, k, d) ==
    /\ y \in HElem /\ y.key = k /\ y.prev = a /\ y.next = a /\ y.data = d
    /\ Alive(y, level) /\ VersionAt(y, level) = y
    /\ \A l \in 0..level - 1 : VersionAt(y, l).mapped = FALSE

LEMMA ConstructIs ==
    ASSUME level \in 0..MaxLevel, NEW k \in Key, NEW d \in Data, NEW a \in Addr
    PROVE  IsConstructed(H!Construct(a, k, d), a, k, d)
<1> PICK y : y = H!Construct(a, k, d)
  OBVIOUS
<1> DEFINE x == [scope |-> 0, saved |-> << >>, key |-> k, data |-> d, mapped |-> FALSE,
                 prev |-> a, next |-> a]
           z == H!Set(x, d)
<1>0. level \in Nat /\ MaxLevel \in Nat
  BY BoundsAssumption
<1>1. x \in HElem /\ Chain(x, level) /\ x.saved = << >> /\ x.scope = 0 /\ x.mapped = FALSE
  BY <1>0 DEF HElem, Chain
<1>2. \A i \in DOMAIN x.saved : i # 1 => x.saved[i].mapped = TRUE
  OBVIOUS
<1>3. y = [z EXCEPT !.mapped = TRUE]
  BY DEF H!Construct
<1>4. x.key = k /\ x.prev = a /\ x.next = a
  OBVIOUS
<1>a. x.scope # level /\ x.saved # << >> => x.mapped = TRUE
  OBVIOUS
<1>b. z = H!Set(x, d)
  OBVIOUS
<1> HIDE DEF x, z
<1>c. IsSet(x, d, z)
  <2>1. Settable(x)
    BY <1>1, <1>2, <1>a DEF Settable
  <2> QED
    BY <1>1, <1>b, <2>1, SetIs
<1>5. /\ z \in HElem /\ z.key = k /\ z.prev = a /\ z.next = a
      /\ z.data = d /\ z.scope = level /\ Chain(z, level)
      /\ \A i \in DOMAIN z.saved : i # 1 => z.saved[i].mapped = TRUE
      /\ \A l \in 0..level - 1 : SameAt(x, z, l)
  BY <1>4, <1>c DEF IsSet
<1>6. /\ y \in HElem /\ y.scope = z.scope /\ y.saved = z.saved /\ y.mapped = TRUE
      /\ y.key = z.key /\ y.prev = z.prev /\ y.next = z.next /\ y.data = z.data
  BY <1>3, <1>5 DEF HElem
<1>7. Alive(y, level)
  BY <1>5, <1>6 DEF Alive, Chain
<1>8. VersionAt(y, level) = y
  BY <1>0, <1>5, <1>6 DEF VersionAt
<1>9. ASSUME NEW l \in 0..level - 1
      PROVE  VersionAt(y, l).mapped = FALSE
  <2>1. ~(y.scope <= l) /\ ~(z.scope <= l) /\ x.scope <= l
    BY <1>0, <1>1, <1>5, <1>6
  <2>2. VersionAt(y, l) = VersionAt(z, l)
    BY <1>6, <2>1 DEF VersionAt
  <2>3. VersionAt(x, l) = x
    BY <2>1 DEF VersionAt
  <2> QED
    BY <1>1, <1>5, <2>2, <2>3 DEF SameAt
<1> QED
  BY <1>5, <1>6, <1>7, <1>8, <1>9 DEF IsConstructed

\* What restore() makes of an element that stays, and of one that leaves.
RestoredElem(x) == H!Continue([x EXCEPT !.data = H!LastCopy(x).data])

LEMMA RestoredIs ==
    ASSUME NEW x \in HElem, NEW top \in Nat, top > 0, Alive(x, top), x.scope = top,
           LastCopy(x).mapped,
           NEW z, z = RestoredElem(x)
    PROVE  /\ z \in HElem /\ z.key = x.key /\ z.prev = x.prev /\ z.next = x.next
           /\ Alive(z, top - 1)
           /\ \A l \in 0..top - 1 : SameAt(x, z, l)
<1> DEFINE S == H!Version
           copy == LastCopy(x)
<1>1. x.saved \in Seq(S) /\ Chain(x, top) /\ x.mapped = TRUE
  BY DEF HElem, Alive
<1>c. copy = LastCopy(x) /\ copy = H!LastCopy(x)
  BY DEF H!LastCopy, LastCopy
<1>2. z = [scope |-> copy.scope, saved |-> SubSeq(x.saved, 1, Len(x.saved) - 1),
           key |-> x.key, data |-> copy.data, mapped |-> x.mapped,
           prev |-> x.prev, next |-> x.next]
  BY DEF RestoredElem, H!Continue, H!LastCopy, LastCopy, HElem
<1> HIDE DEF S, copy
<1>3. /\ z.scope = copy.scope /\ z.saved = SubSeq(x.saved, 1, Len(x.saved) - 1)
      /\ z.data = copy.data /\ z.mapped = TRUE /\ copy.mapped
      /\ z.key = x.key /\ z.prev = x.prev /\ z.next = x.next
  BY <1>2, <1>c DEF Alive
<1>d. z.scope = LastCopy(x).scope /\ z.saved = OlderCopies(x)
  BY <1>3, <1>c DEF OlderCopies
<1>e. /\ LastCopy(x) \in S /\ z.saved \in Seq(S) /\ Chain(z, top - 1)
      /\ \A l \in 0..top - 1 : z.scope <= l => VersionAt(z, l) = z
      /\ \A l \in 0..top - 1 : z.scope <= l => VersionAt(x, l) = LastCopy(x)
      /\ \A l \in 0..top - 1 : ~(z.scope <= l) => VersionAt(z, l) = VersionAt(x, l)
  BY ONLY <1>1, <1>d, top \in Nat, top > 0, x.scope = top, Restored
<1>4. /\ copy \in S /\ z.saved \in Seq(S) /\ Chain(z, top - 1)
      /\ \A l \in 0..top - 1 : z.scope <= l => VersionAt(z, l) = z
      /\ \A l \in 0..top - 1 : z.scope <= l => VersionAt(x, l) = copy
      /\ \A l \in 0..top - 1 : ~(z.scope <= l) => VersionAt(z, l) = VersionAt(x, l)
  BY <1>c, <1>e
<1>a. copy.mapped = TRUE
  BY <1>3, <1>4 DEF S, H!Version
<1>5. \A l \in 0..top - 1 : SameAt(x, z, l)
  BY <1>3, <1>4, <1>a DEF SameAt
<1>6. z \in HElem
  <2>1. copy.scope \in 0..MaxLevel /\ copy.data \in Data /\ z.saved \in Seq(H!Version)
    BY <1>4 DEF S, H!Version
  <2>2. z = [scope |-> copy.scope, saved |-> z.saved,
           key |-> x.key, data |-> copy.data, mapped |-> x.mapped,
           prev |-> x.prev, next |-> x.next]
    BY <1>2
  <2> QED
    BY <2>1, <2>2 DEF HElem
<1>7. Alive(z, top - 1)
  <2>1. \A i \in DOMAIN z.saved : i \in DOMAIN x.saved /\ z.saved[i] = x.saved[i]
    BY <1>1, <1>3
  <2> QED
    BY <1>3, <1>4, <2>1 DEF Alive
<1> QED
  BY <1>3, <1>5, <1>6, <1>7

IsGone(x, z, top) ==
    /\ z \in HElem /\ z.key = x.key /\ z.prev = x.prev /\ z.next = x.next
    /\ z.scope = 0 /\ z.saved = << >>
    /\ \A l \in 0..top - 1 : VersionAt(x, l).mapped = FALSE

LEMMA GoneIs ==
    ASSUME NEW x \in HElem, NEW top \in Nat, top > 0, Alive(x, top), x.scope = top,
           ~LastCopy(x).mapped
    PROVE  IsGone(x, H!Continue(x), top)
<1> PICK z : z = H!Continue(x)
  OBVIOUS
<1> DEFINE S == H!Version
           copy == LastCopy(x)
<1>1. x.saved \in Seq(S) /\ Chain(x, top)
  BY DEF HElem, Alive
<1>2. /\ Len(x.saved) \in Nat /\ DOMAIN x.saved = 1..Len(x.saved) /\ Len(x.saved) # 0
      /\ x.saved[1].scope = 0 /\ copy = x.saved[Len(x.saved)]
  BY <1>1 DEF Chain, LastCopy
<1>3. Len(x.saved) = 1
  <2>1. Len(x.saved) \in DOMAIN x.saved /\ ~x.saved[Len(x.saved)].mapped
    BY <1>2
  <2> QED
    BY <2>1, Zenon DEF Alive
<1>4. copy \in S /\ copy.scope = 0
  BY <1>1, <1>2, <1>3
<1>5. copy.mapped = FALSE
  BY <1>4 DEF H!Version
<1>6. z = [scope |-> copy.scope, saved |-> SubSeq(x.saved, 1, Len(x.saved) - 1),
           key |-> x.key, data |-> x.data, mapped |-> x.mapped,
           prev |-> x.prev, next |-> x.next]
  BY DEF H!Continue, H!LastCopy, LastCopy, HElem
<1>7. SubSeq(x.saved, 1, Len(x.saved) - 1) = << >>
  BY <1>1, <1>3
<1>8. z.scope = 0 /\ z.saved = << >> /\ z.key = x.key /\ z.prev = x.prev /\ z.next = x.next
  BY <1>4, <1>6, <1>7
<1>9. z \in HElem
  BY <1>4, <1>6, <1>7, BoundsAssumption DEF HElem
<1>10. ASSUME NEW l \in 0..top - 1
       PROVE  VersionAt(x, l).mapped = FALSE
  <2>1. ~(x.scope <= l) /\ 1 \in DOMAIN x.saved /\ x.saved[1].scope <= l
        /\ \A j \in DOMAIN x.saved : x.saved[j].scope <= l => j <= 1
    BY <1>2, <1>3
  <2>2. VersionAt(x, l) = x.saved[1]
    BY <1>1, <2>1, VersionIs
  <2> QED
    BY <1>2, <1>3, <1>5, <2>2
<1> QED
  BY <1>8, <1>9, <1>10 DEF IsGone

-----------------------------------------------------------------------------
(* CDHashMap: the invariant and the operations. *)

LEMMA EmptyIs == ASSUME NEW S PROVE << >> \in Seq(S) /\ Len(<< >>) = 0
  OBVIOUS

\* What CDHashMap assumes besides BoundsAssumption.
HConst == Default \in Data /\ Nil \notin Addr

\* The scope the elements are in: a pop has taken it off already.
HTop(lv, p) == IF p = "restore" THEN lv + 1 ELSE lv

\* The table leads to the elements of the ring, by their keys.
OfTable(r, tb, hp) ==
    /\ tb \in [Key -> Addr \cup {Nil}]
    /\ \A i \in 1..Len(r) : tb[hp[r[i]].key] = r[i]
    /\ \A k \in Key : tb[k] # Nil =>
          \E i \in 1..Len(r) : r[i] = tb[k] /\ hp[tb[k]].key = k

\* What is allocated is in the ring or waits to be deleted.
OfHeap(r, hp, gb, top) ==
    /\ DOMAIN hp \subseteq Addr
    /\ \A a \in DOMAIN hp : hp[a] \in HElem
    /\ \A a \in DOMAIN hp : a \in gb \/ \E i \in 1..Len(r) : r[i] = a
    /\ \A i \in 1..Len(r) : r[i] \notin gb /\ Alive(hp[r[i]], top)
    /\ gb \subseteq DOMAIN hp
    /\ \A a \in gb : hp[a].scope = 0

HGood(r, tb, fs, hp, gb, lv, p) ==
    /\ r \in Seq(Addr) /\ Ring(r, hp)
    /\ fs = IF Len(r) = 0 THEN Nil ELSE r[1]
    /\ OfTable(r, tb, hp) /\ OfHeap(r, hp, gb, HTop(lv, p))
    /\ lv \in 0..MaxLevel /\ HTop(lv, p) <= MaxLevel
    /\ p \in {"run", "restore"} /\ (p = "run" => gb = {})

HNow(r) == HGood(r, table, first, heap, garbage, level, pc)
HNext(r) == HGood(r, table', first', heap', garbage', level', pc')

\* Everything but the links.
SameBody(x, y) ==
    /\ y.scope = x.scope /\ y.saved = x.saved /\ y.key = x.key
    /\ y.data = x.data /\ y.mapped = x.mapped

LEMMA BodyKept ==
    ASSUME NEW x, NEW y, SameBody(x, y)
    PROVE  /\ \A top : Alive(x, top) => Alive(y, top)
           /\ \A l : SameAt(x, y, l)
  BY DEF SameBody, Alive, Chain, SameAt, VersionAt

\* The parts of the invariant that the positions of the ring are used with.
LEMMA PositionsOf ==
    ASSUME HConst, NEW r, NEW tb, NEW fs, NEW hp, NEW gb, NEW lv, NEW p,
           HGood(r, tb, fs, hp, gb, lv, p)
    PROVE  /\ r \in Seq(Addr) /\ Len(r) \in Nat /\ DOMAIN r = 1..Len(r)
           /\ \A i \in 1..Len(r) : /\ r[i] \in Addr /\ r[i] \in DOMAIN hp
                                   /\ hp[r[i]] \in HElem /\ hp[r[i]].key \in Key
                                   /\ r[i] # Nil
           /\ \A i, j \in 1..Len(r) : r[i] = r[j] => i = j
<1>1. r \in Seq(Addr) /\ Ring(r, hp) /\ \A a \in DOMAIN hp : hp[a] \in HElem
  BY DEF HGood, OfHeap
<1>2. Len(r) \in Nat /\ DOMAIN r = 1..Len(r) /\ \A i \in 1..Len(r) : r[i] \in Addr
  BY <1>1
<1>3. \A i \in 1..Len(r) : hp[r[i]] \in HElem /\ r[i] \in DOMAIN hp
  BY <1>1 DEF Ring
<1>4. \A x \in HElem : x.key \in Key
  BY DEF HElem
<1>5. \A i, j \in 1..Len(r) : r[i] = r[j] => i = j
  BY <1>1 DEF Ring
<1>6. Nil \notin Addr
  BY DEF HConst
<1> QED
  BY <1>1, <1>2, <1>3, <1>4, <1>5, <1>6

LEMMA Positions ==
    ASSUME HConst, NEW r, HNow(r)
    PROVE  /\ r \in Seq(Addr) /\ Len(r) \in Nat /\ DOMAIN r = 1..Len(r)
           /\ \A i \in 1..Len(r) : /\ r[i] \in Addr /\ r[i] \in DOMAIN heap
                                   /\ heap[r[i]] \in HElem /\ heap[r[i]].key \in Key
                                   /\ r[i] # Nil
           /\ \A i, j \in 1..Len(r) : r[i] = r[j] => i = j
  BY PositionsOf DEF HNow

\* The links of an element changed.
IsRelinked(x, p, q, y) == y \in HElem /\ SameBody(x, y) /\ y.prev = p /\ y.next = q

LEMMA Relinked ==
    ASSUME NEW x \in HElem, NEW p \in Addr, NEW q \in Addr
    PROVE  IsRelinked(x, p, q, [x EXCEPT !.prev = p, !.next = q])
  BY DEF HElem, SameBody, IsRelinked

\* The heap with a new element in the ring.
NewHeap(a, x) == H!Link([b \in DOMAIN heap \cup {a} |-> IF b = a THEN x ELSE heap[b]], a)

LinkedBy(g, a, fs, last) ==
    [b \in DOMAIN g |->
       [g[b] EXCEPT !.prev = IF b = a THEN last ELSE IF b = fs THEN a ELSE @,
                    !.next = IF b = a THEN fs ELSE IF b = last THEN a ELSE @]]

LEMMA NewHeapIs ==
    ASSUME HConst, NEW r, HNow(r), NEW a \in Addr, a \notin DOMAIN heap,
           NEW x \in HElem, x.prev = a, x.next = a, NEW h, h = NewHeap(a, x)
    PROVE  /\ DOMAIN h = DOMAIN heap \cup {a}
           /\ \A b \in DOMAIN h : h[b] \in HElem
           /\ \A b \in DOMAIN heap : SameBody(heap[b], h[b])
           /\ SameBody(x, h[a])
           /\ Ring(Append(r, a), h)
<1>1. PICK g : g = [b \in DOMAIN heap \cup {a} |-> IF b = a THEN x ELSE heap[b]]
  OBVIOUS
<1>2. /\ DOMAIN g = DOMAIN heap \cup {a} /\ g[a] = x
      /\ \A b \in DOMAIN heap : g[b] = heap[b]
      /\ \A b \in DOMAIN heap : heap[b] \in HElem
  BY <1>1 DEF HNow, HGood, OfHeap
<1>3. \A b \in DOMAIN g : g[b] \in HElem /\ (b = a \/ b \in DOMAIN heap)
  BY <1>2
<1>4. h = H!Link(g, a)
  BY <1>1 DEF NewHeap
<1>5. /\ r \in Seq(Addr) /\ Len(r) \in Nat /\ \A i \in 1..Len(r) : r[i] \in Addr /\ r[i] # Nil
      /\ \A i \in 1..Len(r) : r[i] \in DOMAIN heap
      /\ Ring(r, heap) /\ first = IF Len(r) = 0 THEN Nil ELSE r[1]
  BY Positions DEF HNow, HGood
<1>6. CASE Len(r) = 0
  <2>1. h = g
    BY <1>4, <1>5, <1>6 DEF H!Link
  <2>2. Ring(Append(r, a), h)
    <3>1. DOMAIN h = DOMAIN heap \cup {a} /\ (Len(r) = 0 => h[a].prev = a /\ h[a].next = a)
      BY <1>2, <2>1
    <3>2. Len(r) # 0 => \A b \in DOMAIN h :
                /\ h[b].prev = IF b = a THEN r[Len(r)] ELSE IF b = r[1] THEN a ELSE heap[b].prev
                /\ h[b].next = IF b = a THEN r[1] ELSE IF b = r[Len(r)] THEN a ELSE heap[b].next
      BY <1>6
    <3> QED
      <4>1. Lengthened(r, heap, a, h)
        BY <3>1, <3>2 DEF Lengthened
      <4>2. r \in Seq(Addr) /\ Ring(r, heap)
        BY <1>5
      <4> QED
        BY <4>1, <4>2, RingAppended
  <2>3. \A y : SameBody(y, y)
    BY DEF SameBody
  <2> QED
    BY <1>2, <1>3, <2>1, <2>2, <2>3
<1>7. CASE Len(r) # 0
  <2>0. 1 \in 1..Len(r) /\ Len(r) \in 1..Len(r)
    BY <1>5, <1>7
  <2>1. PICK last : last = g[first].prev
    OBVIOUS
  <2>2. first = r[1] /\ first # Nil /\ last = r[Len(r)] /\ last \in Addr /\ first \in Addr
    BY <1>2, <1>5, <1>7, <2>0, <2>1, LastInRing
  <2>3. h = [b \in DOMAIN g |->
               [g[b] EXCEPT !.prev = IF b = a THEN last ELSE IF b = first THEN a ELSE @,
                            !.next = IF b = a THEN first ELSE IF b = last THEN a ELSE @]]
    <3>1. h = LinkedBy(g, a, first, g[first].prev)
      BY <1>4, <2>2, Zenon DEF H!Link, LinkedBy
    <3>2. h = LinkedBy(g, a, first, last)
      BY ONLY <2>1, <3>1, Zenon
    <3> QED
      BY ONLY <3>2, Zenon DEF LinkedBy
  <2>4. ASSUME NEW b \in DOMAIN g
        PROVE  /\ h[b] \in HElem /\ SameBody(g[b], h[b])
               /\ h[b].prev = IF b = a THEN last ELSE IF b = first THEN a ELSE g[b].prev
               /\ h[b].next = IF b = a THEN first ELSE IF b = last THEN a ELSE g[b].next
    <3>1. PICK p, q : /\ p = IF b = a THEN last ELSE IF b = first THEN a ELSE g[b].prev
                      /\ q = IF b = a THEN first ELSE IF b = last THEN a ELSE g[b].next
      OBVIOUS
    <3>2. g[b] \in HElem /\ g[b].prev \in Addr /\ g[b].next \in Addr
      BY <1>3 DEF HElem
    <3>3. p \in Addr /\ q \in Addr
      BY <2>2, <3>1, <3>2
    <3>4. h[b] = [g[b] EXCEPT !.prev = p, !.next = q]
      BY <2>3, <3>1, Zenon
    <3> QED
      <4>1. IsRelinked(g[b], p, q, [g[b] EXCEPT !.prev = p, !.next = q])
        BY <3>2, <3>3, Relinked
      <4>2. IsRelinked(g[b], p, q, h[b])
        BY ONLY <3>4, <4>1, Zenon
      <4> QED
        BY <3>1, <4>2 DEF IsRelinked
  <2>5. DOMAIN h = DOMAIN g
    BY <2>3
  <2>6. Ring(Append(r, a), h)
    <3>1. \A b \in DOMAIN h :
              /\ h[b].prev = IF b = a THEN r[Len(r)] ELSE IF b = r[1] THEN a ELSE heap[b].prev
              /\ h[b].next = IF b = a THEN r[1] ELSE IF b = r[Len(r)] THEN a ELSE heap[b].next
      BY <1>2, <1>3, <2>2, <2>4, <2>5
    <3> QED
      <4>1. DOMAIN h = DOMAIN heap \cup {a} /\ (Len(r) = 0 => h[a].prev = a /\ h[a].next = a)
        BY <1>2, <1>7, <2>5
      <4> QED
        <5>1. Lengthened(r, heap, a, h)
          BY <3>1, <4>1 DEF Lengthened
        <5>2. r \in Seq(Addr) /\ Ring(r, heap)
          BY <1>5
        <5> QED
          BY <5>1, <5>2, RingAppended
  <2> QED
    BY <1>2, <2>4, <2>5, <2>6
<1> QED
  BY <1>6, <1>7

\* An element is inserted.
Adds(k, d, a) ==
    /\ table' = [table EXCEPT ![k] = a] /\ heap' = NewHeap(a, H!Construct(a, k, d))
    /\ first' = IF first = Nil THEN a ELSE first

Added(r, k, d, a) ==
    /\ HNext(Append(r, a))
    /\ \A i \in 1..Len(r) : SameBody(heap[r[i]], heap'[r[i]])
    /\ heap'[a].key = k /\ heap'[a].data = d
    /\ VersionAt(heap'[a], level) = heap'[a] /\ heap'[a].mapped = TRUE
    /\ \A l \in 0..level - 1 : VersionAt(heap'[a], l).mapped = FALSE

LEMMA ElementAdded ==
    ASSUME HConst, NEW r, HNow(r), pc = "run", NEW k \in Key, NEW d \in Data, table[k] = Nil,
           NEW a \in Addr, a \notin DOMAIN heap, Adds(k, d, a),
           level' = level, garbage' = garbage, pc' = pc
    PROVE  Added(r, k, d, a)
<1>0. /\ table' = [table EXCEPT ![k] = a] /\ heap' = NewHeap(a, H!Construct(a, k, d))
      /\ first' = IF first = Nil THEN a ELSE first
  BY DEF Adds
<1>1. PICK x, h, tb, q, n : /\ x = H!Construct(a, k, d) /\ h = heap' /\ tb = table'
                            /\ q = Append(r, a) /\ n = Len(r)
  OBVIOUS
<1>2. /\ level \in 0..MaxLevel /\ garbage = {} /\ table \in [Key -> Addr \cup {Nil}]
      /\ OfTable(r, table, heap) /\ OfHeap(r, heap, garbage, level)
      /\ HTop(level, pc) = level /\ first = IF Len(r) = 0 THEN Nil ELSE r[1]
  BY DEF HNow, HGood, OfTable, HTop
<1>3. /\ x \in HElem /\ x.key = k /\ x.prev = a /\ x.next = a /\ x.data = d
      /\ Alive(x, level) /\ VersionAt(x, level) = x
      /\ \A l \in 0..level - 1 : VersionAt(x, l).mapped = FALSE
  <2>1. IsConstructed(H!Construct(a, k, d), a, k, d)
    BY <1>2, ConstructIs
  <2>2. IsConstructed(x, a, k, d)
    BY ONLY <1>1, <2>1
  <2> QED
    BY <2>2 DEF IsConstructed
<1>4. /\ DOMAIN h = DOMAIN heap \cup {a}
      /\ \A b \in DOMAIN h : h[b] \in HElem
      /\ \A b \in DOMAIN heap : SameBody(heap[b], h[b])
      /\ SameBody(x, h[a])
      /\ Ring(q, h)
  BY <1>0, <1>1, <1>3, NewHeapIs
<1>5. /\ r \in Seq(Addr) /\ n \in Nat
      /\ \A i \in 1..n : /\ r[i] \in Addr /\ r[i] \in DOMAIN heap /\ r[i] # Nil
                         /\ heap[r[i]].key \in Key /\ r[i] # a
  BY <1>1, Positions
<1>6. q \in Seq(Addr) /\ Len(q) = n + 1 /\ q[n + 1] = a /\ \A i \in 1..n : q[i] = r[i]
  BY <1>1, <1>5, Appended
<1>7. \A i \in 1..n + 1 : i \in 1..n \/ i = n + 1
  BY <1>5
<1>8. h[a].key = k /\ \A b \in DOMAIN heap : h[b].key = heap[b].key
  BY <1>3, <1>4 DEF SameBody
<1>9. /\ tb \in [Key -> Addr \cup {Nil}] /\ tb[k] = a
      /\ \A j \in Key : j # k => tb[j] = table[j]
  BY <1>0, <1>1, <1>2
<1>10. OfTable(q, tb, h)
  <2>1. ASSUME NEW i \in 1..n + 1
        PROVE  tb[h[q[i]].key] = q[i]
    <3>1. CASE i \in 1..n
      <4>1. h[q[i]].key = heap[r[i]].key /\ heap[r[i]].key \in Key
        BY <1>5, <1>6, <1>8, <3>1
      <4>2. table[heap[r[i]].key] = r[i]
        BY <1>1, <1>2, <3>1 DEF OfTable
      <4>3. heap[r[i]].key # k
        BY <1>5, <3>1, <4>2
      <4> QED
        BY <1>6, <1>9, <3>1, <4>1, <4>2, <4>3
    <3>2. CASE i = n + 1
      BY <1>6, <1>8, <1>9, <3>2
    <3> QED
      BY <1>7, <3>1, <3>2
  <2>2. ASSUME NEW j \in Key, tb[j] # Nil
        PROVE  \E i \in 1..n + 1 : q[i] = tb[j] /\ h[tb[j]].key = j
    <3>0. n + 1 \in 1..n + 1 /\ \A i \in 1..n : i \in 1..n + 1
      BY <1>5
    <3>1. CASE j = k
      BY <1>6, <1>8, <1>9, <3>0, <3>1
    <3>2. CASE j # k
      <4>1. tb[j] = table[j]
        BY <1>9, <3>2
      <4>2. PICK i \in 1..n : r[i] = table[j] /\ heap[table[j]].key = j
        BY <1>1, <1>2, <2>2, <4>1 DEF OfTable
      <4> QED
        BY <1>5, <1>6, <1>8, <3>0, <4>1, <4>2
    <3> QED
      BY <3>1, <3>2
  <2> QED
    BY <1>6, <1>9, <2>1, <2>2 DEF OfTable
<1>11. OfHeap(q, h, {}, level)
  <2>1. DOMAIN h \subseteq Addr
    BY <1>2, <1>4 DEF OfHeap
  <2>2. ASSUME NEW b \in DOMAIN h
        PROVE  \E i \in 1..n + 1 : q[i] = b
    <3>0. n + 1 \in 1..n + 1 /\ \A i \in 1..n : i \in 1..n + 1
      BY <1>5
    <3>1. CASE b = a
      BY <1>6, <3>0, <3>1
    <3>2. CASE b \in DOMAIN heap
      <4>1. PICK i \in 1..n : r[i] = b
        BY <1>1, <1>2, <3>2 DEF OfHeap
      <4> QED
        BY <1>6, <3>0, <4>1
    <3> QED
      BY <1>4, <3>1, <3>2
  <2>3. ASSUME NEW i \in 1..n + 1
        PROVE  Alive(h[q[i]], level)
    <3>1. CASE i \in 1..n
      <4>1. Alive(heap[r[i]], level) /\ SameBody(heap[r[i]], h[r[i]])
        BY <1>1, <1>2, <1>4, <1>5, <3>1 DEF OfHeap
      <4> QED
        BY <1>6, <3>1, <4>1, BodyKept
    <3>2. CASE i = n + 1
      BY <1>3, <1>4, <1>6, <3>2, BodyKept
    <3> QED
      BY <1>7, <3>1, <3>2
  <2> QED
    BY <1>4, <1>6, <2>1, <2>2, <2>3 DEF OfHeap
<1>12. first' = IF Len(q) = 0 THEN Nil ELSE q[1]
  <2>1. CASE n = 0
    BY <1>0, <1>1, <1>2, <1>6, <2>1
  <2>2. CASE n # 0
    <3>1. 1 \in 1..n /\ n + 1 # 0
      BY <1>5, <2>2
    <3> QED
      BY <1>0, <1>1, <1>2, <1>5, <1>6, <2>2, <3>1
  <2> QED
    BY <2>1, <2>2
<1>13. HNext(q)
  <2>1. HTop(level', pc') = level /\ garbage' = {} /\ level \in Nat /\ level <= MaxLevel
    BY <1>2, BoundsAssumption DEF HTop
  <2> QED
    BY <1>1, <1>2, <1>4, <1>6, <1>10, <1>11, <1>12, <2>1 DEF HNext, HGood
<1>14. \A i \in 1..n : SameBody(heap[r[i]], h[r[i]])
  BY <1>4, <1>5
<1>15. VersionAt(h[a], level) = h[a] /\ h[a].mapped = TRUE /\ h[a].data = d
  <2>1. x.scope <= level
    BY <1>2, <1>3, BoundsAssumption DEF Alive, Chain
  <2> QED
    BY <1>3, <1>4, <2>1 DEF SameBody, VersionAt, Alive
<1>16. \A l \in 0..level - 1 : VersionAt(h[a], l).mapped = FALSE
  BY <1>3, <1>4, BodyKept DEF SameAt
<1> QED
  BY <1>1, <1>8, <1>13, <1>14, <1>15, <1>16 DEF Added

\* Operations that change no link and no key.
LEMMA RingKept ==
    ASSUME NEW S, NEW r \in Seq(S), NEW hp, Ring(r, hp), NEW h2,
           \A i \in 1..Len(r) : /\ r[i] \in DOMAIN h2
                                /\ h2[r[i]].prev = hp[r[i]].prev
                                /\ h2[r[i]].next = hp[r[i]].next
    PROVE  Ring(r, h2)
<1>1. \A i \in 1..Len(r) : \E m \in 1..Len(r) : SuccIn(r, i) = r[m]
  <2> TAKE i \in 1..Len(r)
  <2>1. Len(r) \in Nat /\ 1 \in 1..Len(r) /\ (i # Len(r) => i + 1 \in 1..Len(r))
    OBVIOUS
  <2> QED
    BY <2>1 DEF SuccIn
<1> QED
  <2>1. ASSUME NEW i \in 1..Len(r)
        PROVE  /\ r[i] \in DOMAIN h2 /\ h2[r[i]].next = SuccIn(r, i)
               /\ h2[SuccIn(r, i)].prev = r[i]
    BY <1>1, <2>1 DEF Ring
  <2> QED
    BY <2>1 DEF Ring

LEMMA TableKept ==
    ASSUME NEW r, NEW tb, NEW hp, OfTable(r, tb, hp), NEW h2,
           \A i \in 1..Len(r) : h2[r[i]].key = hp[r[i]].key
    PROVE  OfTable(r, tb, h2)
  BY DEF OfTable

\* insert() on a key that is there.
AssignedIn(r, k, d) ==
    \E j \in 1..Len(r) :
       /\ heap[r[j]].key = k /\ heap'[r[j]].key = k /\ heap'[r[j]].data = d
       /\ VersionAt(heap'[r[j]], level) = heap'[r[j]] /\ heap'[r[j]].mapped = TRUE
       /\ \A l \in 0..level - 1 : SameAt(heap[r[j]], heap'[r[j]], l)
       /\ \A i \in 1..Len(r) : i # j => heap'[r[i]] = heap[r[i]]

LEMMA ElementAssigned ==
    ASSUME HConst, NEW r, HNow(r), pc = "run", NEW k \in Key, NEW d \in Data, table[k] # Nil,
           heap' = [heap EXCEPT ![table[k]] = H!Set(@, d)],
           table' = table, first' = first, level' = level, garbage' = garbage, pc' = pc
    PROVE  HNext(r) /\ AssignedIn(r, k, d)
<1>2. /\ level \in 0..MaxLevel /\ garbage = {} /\ Ring(r, heap)
      /\ OfTable(r, table, heap) /\ OfHeap(r, heap, garbage, level)
      /\ HTop(level, pc) = level
  BY DEF HNow, HGood, HTop
<1>3. /\ r \in Seq(Addr) /\ Len(r) \in Nat
      /\ \A i \in 1..Len(r) : /\ r[i] \in Addr /\ r[i] \in DOMAIN heap
                              /\ heap[r[i]] \in HElem
      /\ \A i, j \in 1..Len(r) : r[i] = r[j] => i = j
  BY Positions
<1>4. PICK j \in 1..Len(r) : r[j] = table[k] /\ heap[table[k]].key = k
  BY <1>2 DEF OfTable
<1>5. PICK a, y : a = r[j] /\ y = H!Set(heap[a], d)
  OBVIOUS
<1>6. a \in DOMAIN heap /\ heap[a] \in HElem /\ Alive(heap[a], level) /\ heap[a].key = k
  BY <1>2, <1>3, <1>4, <1>5 DEF OfHeap
<1>7. /\ y \in HElem /\ y.key = heap[a].key /\ y.prev = heap[a].prev /\ y.next = heap[a].next
      /\ y.data = d /\ Alive(y, level) /\ VersionAt(y, level) = y
      /\ \A l \in 0..level - 1 : SameAt(heap[a], y, l)
  BY <1>2, <1>5, <1>6, AssignedIs
<1>8. heap' = [heap EXCEPT ![a] = y]
  BY <1>4, <1>5
<1>9. /\ DOMAIN heap' = DOMAIN heap /\ heap'[a] = y
      /\ \A b \in DOMAIN heap : b # a => heap'[b] = heap[b]
  BY <1>6, <1>8
<1>10. \A b \in DOMAIN heap : /\ heap'[b].key = heap[b].key
                              /\ heap'[b].prev = heap[b].prev /\ heap'[b].next = heap[b].next
  BY <1>7, <1>9
<1>11. Ring(r, heap')
  <2>1. \A i \in 1..Len(r) : /\ r[i] \in DOMAIN heap'
                              /\ heap'[r[i]].prev = heap[r[i]].prev
                              /\ heap'[r[i]].next = heap[r[i]].next
    BY <1>3, <1>9, <1>10
  <2> QED
    BY <1>2, <1>3, <2>1, RingKept, Zenon
<1>12. OfTable(r, table, heap')
  BY <1>2, <1>3, <1>10, TableKept
<1>13. OfHeap(r, heap', {}, level)
  <2>1. \A b \in DOMAIN heap' : heap'[b] \in HElem
    BY <1>2, <1>7, <1>9 DEF OfHeap
  <2>2. \A i \in 1..Len(r) : Alive(heap'[r[i]], level)
    BY <1>2, <1>3, <1>7, <1>9 DEF OfHeap
  <2> QED
    BY <1>2, <1>9, <2>1, <2>2 DEF OfHeap
<1>14. HNext(r)
  BY <1>2, <1>11, <1>12, <1>13 DEF HNext, HNow, HGood
<1>15. \A i \in 1..Len(r) : i # j => heap'[r[i]] = heap[r[i]]
  BY <1>3, <1>5, <1>9
<1>16. y.mapped = TRUE
  BY <1>7 DEF Alive
<1> QED
  BY <1>5, <1>6, <1>7, <1>9, <1>14, <1>15, <1>16 DEF AssignedIn

LEMMA ElementsCleared ==
    ASSUME HConst, NEW r, HNow(r), pc = "run",
           heap' = [a \in DOMAIN heap \ {table[k] : k \in Key} |-> heap[a]],
           table' = [k \in Key |-> Nil], first' = Nil,
           level' = level, garbage' = garbage, pc' = pc
    PROVE  HNext(<< >>)
<1>1. /\ level \in 0..MaxLevel /\ garbage = {} /\ HTop(level, pc) <= MaxLevel
      /\ OfTable(r, table, heap) /\ OfHeap(r, heap, garbage, level)
  BY DEF HNow, HGood, HTop
<1>2. DOMAIN heap' = {}
  <2>1. ASSUME NEW a \in DOMAIN heap
        PROVE  \E k \in Key : table[k] = a
    <3>1. PICK i \in 1..Len(r) : r[i] = a
      BY <1>1 DEF OfHeap
    <3>2. heap[a] \in HElem
      BY <1>1 DEF OfHeap
    <3>3. heap[a].key \in Key
      BY <3>2 DEF HElem
    <3> QED
      BY <1>1, <3>1, <3>3 DEF OfTable
  <2> QED
    BY <2>1
<1>3. PICK e : e = << >> /\ e \in Seq(Addr) /\ Len(e) = 0
  BY EmptyIs
<1>4. \A i \in 1..Len(e) : FALSE
  BY <1>3
<1>5. Ring(e, heap')
  BY <1>4 DEF Ring
<1>6. OfTable(e, table', heap')
  <2>1. table' \in [Key -> Addr \cup {Nil}] /\ \A k \in Key : table'[k] = Nil
    OBVIOUS
  <2> QED
    BY <1>4, <2>1 DEF OfTable
<1>7. OfHeap(e, heap', garbage', HTop(level', pc'))
  BY <1>1, <1>2, <1>4 DEF OfHeap
<1>8. HTop(level', pc') <= MaxLevel /\ level' \in 0..MaxLevel /\ garbage' = {} /\ pc' = "run"
  BY <1>1
<1>9. HNext(e)
  BY <1>3, <1>5, <1>6, <1>7, <1>8 DEF HNext, HGood
<1> QED
  BY <1>3, <1>9

\* A push, the start of a pop and its end: the elements stay.
LEMMA ElementsStay ==
    ASSUME HConst, NEW r, HNow(r), table' = table, first' = first,
           \/ H!Push \/ H!Pop \/ H!PopDone
    PROVE  /\ HNext(r)
           /\ \A i \in 1..Len(r) : heap'[r[i]] = heap[r[i]]
<1>1. /\ r \in Seq(Addr) /\ Len(r) \in Nat /\ Ring(r, heap) /\ level \in Nat /\ MaxLevel \in Nat
      /\ \A i \in 1..Len(r) : r[i] \in DOMAIN heap
      /\ OfTable(r, table, heap) /\ OfHeap(r, heap, garbage, HTop(level, pc))
      /\ first = IF Len(r) = 0 THEN Nil ELSE r[1]
      /\ level \in 0..MaxLevel /\ HTop(level, pc) <= MaxLevel
      /\ pc \in {"run", "restore"} /\ (pc = "run" => garbage = {})
  BY Positions, BoundsAssumption DEF HNow, HGood
<1>2. CASE H!Push
  <2>1. /\ pc = "run" /\ level < MaxLevel /\ level' = level + 1
        /\ heap' = heap /\ garbage' = garbage /\ pc' = pc
    BY <1>2 DEF H!Push
  <2>2. HTop(level, pc) = level /\ HTop(level', pc') = level + 1
    BY <2>1 DEF HTop
  <2>3. \A x : Alive(x, level) => Alive(x, level + 1)
    BY <1>1, Kept DEF Alive
  <2>4. OfHeap(r, heap, garbage, level + 1)
    BY <1>1, <2>2, <2>3 DEF OfHeap
  <2> QED
    BY <1>1, <2>1, <2>2, <2>4 DEF HNext, HGood
<1>3. CASE H!Pop
  <2>1. /\ pc = "run" /\ level > 0 /\ level' = level - 1
        /\ heap' = heap /\ garbage' = garbage /\ pc' = "restore"
    BY <1>3 DEF H!Pop
  <2>2. HTop(level, pc) = level /\ HTop(level', pc') = level
    BY <1>1, <2>1 DEF HTop
  <2> QED
    BY <1>1, <2>1, <2>2 DEF HNext, HGood
<1>4. CASE H!PopDone
  <2>1. /\ pc = "restore" /\ level' = level /\ pc' = "run" /\ garbage' = {}
        /\ heap' = [a \in DOMAIN heap \ garbage |-> heap[a]]
        /\ \A a \in DOMAIN heap : ~InScope(heap[a], level + 1)
    BY <1>4 DEF H!PopDone, H!InScope, InScope
  <2>2. HTop(level, pc) = level + 1 /\ HTop(level', pc') = level
    BY <2>1 DEF HTop
  <2>3. \A i \in 1..Len(r) : r[i] \in DOMAIN heap' /\ heap'[r[i]] = heap[r[i]]
    BY <1>1, <2>1 DEF OfHeap
  <2>4. \A x : Alive(x, level + 1) /\ ~InScope(x, level + 1) => Alive(x, level)
    <3>1. level + 1 \in Nat /\ level + 1 > 0 /\ level + 1 - 1 = level
      BY <1>1
    <3>2. \A x : Chain(x, level + 1) /\ ~InScope(x, level + 1) => Chain(x, level)
      <4> TAKE x
      <4> HAVE Chain(x, level + 1) /\ ~InScope(x, level + 1)
      <4>1. PICK top : top = level + 1
        OBVIOUS
      <4>2. top \in Nat /\ top > 0 /\ top - 1 = level
        BY ONLY <1>1, <4>1
      <4>3. Chain(x, top) /\ ~InScope(x, top)
        BY ONLY Chain(x, level + 1) /\ ~InScope(x, level + 1), <4>1, Zenon
      <4> QED
        BY ONLY <4>2, <4>3, Kept
    <3> QED
        BY <3>2 DEF Alive
  <2>5. OfHeap(r, heap', {}, level)
    <3>1. \A b \in DOMAIN heap' : b \in DOMAIN heap /\ b \notin garbage /\ heap'[b] = heap[b]
      BY <2>1
    <3>2. \A i \in 1..Len(r) : Alive(heap'[r[i]], level)
      BY <1>1, <2>1, <2>2, <2>3, <2>4 DEF OfHeap
    <3> QED
      BY <1>1, <3>1, <3>2 DEF OfHeap
  <2>6. Ring(r, heap') /\ OfTable(r, table', heap')
    BY <1>1, <2>3, RingKept, TableKept
  <2>7. level <= MaxLevel
    BY <1>1
  <2> QED
    BY <1>1, <2>1, <2>2, <2>3, <2>5, <2>6, <2>7 DEF HNext, HGood
<1> QED
  BY <1>2, <1>3, <1>4

\* restore() of an element that stays.
LEMMA ElementRestored ==
    ASSUME HConst, NEW r, HNow(r), pc = "restore", NEW j \in 1..Len(r),
           InScope(heap[r[j]], level + 1), LastCopy(heap[r[j]]).mapped,
           heap' = [heap EXCEPT ![r[j]] = RestoredElem(@)],
           table' = table, first' = first, level' = level, garbage' = garbage, pc' = pc
    PROVE  /\ HNext(r)
           /\ \A i \in 1..Len(r) : /\ heap'[r[i]].key = heap[r[i]].key
                                   /\ \A l \in 0..level : SameAt(heap[r[i]], heap'[r[i]], l)
<1>1. /\ level \in 0..MaxLevel /\ Ring(r, heap) /\ level + 1 \in Nat /\ level + 1 > 0
      /\ OfTable(r, table, heap) /\ OfHeap(r, heap, garbage, level + 1)
      /\ HTop(level, pc) = level + 1 /\ level + 1 - 1 = level /\ level \in Nat
  BY BoundsAssumption DEF HNow, HGood, HTop
<1>2. /\ r \in Seq(Addr) /\ Len(r) \in Nat
      /\ \A i \in 1..Len(r) : /\ r[i] \in Addr /\ r[i] \in DOMAIN heap
                              /\ heap[r[i]] \in HElem
      /\ \A i, m \in 1..Len(r) : r[i] = r[m] => i = m
  BY Positions
<1>3. PICK a, y : a = r[j] /\ y = RestoredElem(heap[a])
  OBVIOUS
<1>4. /\ a \in DOMAIN heap /\ heap[a] \in HElem /\ Alive(heap[a], level + 1)
      /\ heap[a].scope = level + 1
  BY <1>1, <1>2, <1>3 DEF OfHeap, InScope
<1>5. /\ y \in HElem /\ y.key = heap[a].key /\ y.prev = heap[a].prev /\ y.next = heap[a].next
      /\ Alive(y, level) /\ \A l \in 0..level : SameAt(heap[a], y, l)
  BY <1>1, <1>3, <1>4, RestoredIs
<1>6. Alive(y, level + 1)
  BY <1>1, <1>5, Kept DEF Alive
<1>7. heap' = [heap EXCEPT ![a] = y]
  BY <1>3
<1>8. /\ DOMAIN heap' = DOMAIN heap /\ heap'[a] = y
      /\ \A b \in DOMAIN heap : b # a => heap'[b] = heap[b]
  BY <1>4, <1>7
<1>9. \A b \in DOMAIN heap : /\ heap'[b].key = heap[b].key
                             /\ heap'[b].prev = heap[b].prev /\ heap'[b].next = heap[b].next
                             /\ \A l \in 0..level : SameAt(heap[b], heap'[b], l)
  <2>1. \A b, l : SameAt(heap[b], heap[b], l)
    BY DEF SameAt
  <2> QED
    BY <1>5, <1>8, <2>1
<1>10. Ring(r, heap')
  <2>1. \A i \in 1..Len(r) : /\ r[i] \in DOMAIN heap'
                              /\ heap'[r[i]].prev = heap[r[i]].prev
                              /\ heap'[r[i]].next = heap[r[i]].next
    BY <1>2, <1>8, <1>9
  <2> QED
    <3>1. r \in Seq(Addr) /\ Ring(r, heap)
      BY <1>1, <1>2
    <3> QED
      BY ONLY <2>1, <3>1, RingKept, Zenon
<1>11. OfTable(r, table, heap')
  BY <1>1, <1>2, <1>9, TableKept
<1>12. OfHeap(r, heap', garbage, level + 1)
  <2>1. \A b \in DOMAIN heap' : heap'[b] \in HElem
    BY <1>1, <1>5, <1>8 DEF OfHeap
  <2>2. \A i \in 1..Len(r) : Alive(heap'[r[i]], level + 1)
    BY <1>1, <1>2, <1>6, <1>8 DEF OfHeap
  <2>3. a \notin garbage
    BY <1>1, <1>3 DEF OfHeap
  <2> QED
    BY <1>1, <1>8, <2>1, <2>2, <2>3 DEF OfHeap
<1>13. HNext(r)
  BY <1>1, <1>10, <1>11, <1>12 DEF HNext, HNow, HGood
<1> QED
  BY <1>2, <1>9, <1>13

\* restore() of an element that leaves.
LEMMA ElementGone ==
    ASSUME HConst, NEW r, HNow(r), pc = "restore", NEW j \in 1..Len(r),
           InScope(heap[r[j]], level + 1), ~LastCopy(heap[r[j]]).mapped,
           H!Unlink(r[j]), table' = [table EXCEPT ![heap[r[j]].key] = Nil],
           garbage' = garbage \cup {r[j]}, level' = level, pc' = pc
    PROVE  /\ HNext(Without(r, j))
           /\ \A i \in 1..Len(r) : i # j => SameBody(heap[r[i]], heap'[r[i]])
           /\ \A l \in 0..level : VersionAt(heap[r[j]], l).mapped = FALSE
<1>1. /\ level \in 0..MaxLevel /\ Ring(r, heap) /\ level + 1 \in Nat /\ level + 1 > 0
      /\ OfTable(r, table, heap) /\ OfHeap(r, heap, garbage, level + 1)
      /\ HTop(level, pc) = level + 1 /\ level + 1 - 1 = level /\ level + 1 <= MaxLevel
      /\ first = IF Len(r) = 0 THEN Nil ELSE r[1]
  BY BoundsAssumption DEF HNow, HGood, HTop
<1>2. PICK a, x, z, q, n, h :
         a = r[j] /\ x = heap[a] /\ z = H!Continue(x) /\ q = Without(r, j) /\ n = Len(r) /\ h = heap'
  OBVIOUS
<1>3. /\ r \in Seq(Addr) /\ n \in Nat /\ j \in 1..n
      /\ \A i \in 1..n : /\ r[i] \in Addr /\ r[i] \in DOMAIN heap
                         /\ heap[r[i]] \in HElem /\ heap[r[i]].key \in Key /\ r[i] # Nil
      /\ \A i, m \in 1..n : r[i] = r[m] => i = m
  BY <1>2, Positions
<1>4. a \in DOMAIN heap /\ x \in HElem /\ Alive(x, level + 1) /\ x.scope = level + 1
  BY <1>1, <1>2, <1>3 DEF OfHeap, InScope
<1>5. /\ z \in HElem /\ z.key = x.key /\ z.prev = x.prev /\ z.next = x.next /\ z.scope = 0
      /\ \A l \in 0..level : VersionAt(x, l).mapped = FALSE
  <2>1. /\ level + 1 \in Nat /\ level + 1 > 0 /\ x \in HElem /\ Alive(x, level + 1)
        /\ x.scope = level + 1 /\ ~LastCopy(x).mapped
    BY <1>1, <1>2, <1>4
  <2>2. PICK top : top = level + 1
    OBVIOUS
  <2>3. IsGone(x, H!Continue(x), top)
    BY <2>1, <2>2, GoneIs
  <2>4. top - 1 = level
    BY <1>1, <2>2
  <2> QED
    BY <1>2, <2>3, <2>4 DEF IsGone
<1>6. /\ x.next = IF j = n THEN r[1] ELSE r[j + 1]
      /\ x.prev = IF j = 1 THEN r[n] ELSE r[j - 1]
      /\ x.next \in Addr /\ x.prev \in Addr
  BY <1>1, <1>2, <1>3, <1>4, Neighbours DEF HElem
<1>7. h = [b \in DOMAIN heap |->
             [(IF b = a THEN z ELSE heap[b])
                EXCEPT !.prev = IF b = x.next THEN x.prev ELSE @,
                       !.next = IF b = x.prev THEN x.next ELSE @]]
  BY <1>2 DEF H!Unlink
<1>8. ASSUME NEW b \in DOMAIN heap
      PROVE  /\ h[b] \in HElem
             /\ h[b].prev = IF b = x.next THEN x.prev ELSE heap[b].prev
             /\ h[b].next = IF b = x.prev THEN x.next ELSE heap[b].next
             /\ SameBody(IF b = a THEN z ELSE heap[b], h[b])
  <2>1. PICK y : y = IF b = a THEN z ELSE heap[b]
    OBVIOUS
  <2>2. y \in HElem /\ y.prev = heap[b].prev /\ y.next = heap[b].next
    BY <1>1, <1>2, <1>5, <2>1 DEF OfHeap
  <2>3. PICK u, v : /\ u = IF b = x.next THEN x.prev ELSE y.prev
                    /\ v = IF b = x.prev THEN x.next ELSE y.next
    OBVIOUS
  <2>4. u \in Addr /\ v \in Addr
    BY <1>6, <2>2, <2>3 DEF HElem
  <2>5. h[b] = [y EXCEPT !.prev = u, !.next = v]
    BY <1>7, <2>1, <2>3, Zenon
  <2>6. h[b] \in HElem /\ SameBody(y, h[b]) /\ h[b].prev = u /\ h[b].next = v
    <3>1. IsRelinked(y, u, v, [y EXCEPT !.prev = u, !.next = v])
      BY <2>2, <2>4, Relinked
    <3>2. IsRelinked(y, u, v, h[b])
      BY ONLY <2>5, <3>1, Zenon
    <3> QED
      BY <3>2 DEF IsRelinked
  <2> QED
    BY <2>1, <2>2, <2>3, <2>6
<1>9. DOMAIN h = DOMAIN heap
  BY <1>7
<1>10. Ring(q, h)
  BY <1>1, <1>2, <1>3, <1>8, <1>9, RingWithout
<1>11. /\ q \in Seq(Addr) /\ Len(q) = n - 1 /\ n - 1 \in Nat
       /\ \A i \in 1..n - 1 : q[i] = IF i < j THEN r[i] ELSE r[i + 1]
  <2>1. /\ Without(r, j) \in Seq(Addr) /\ Len(Without(r, j)) = Len(r) - 1
        /\ \A i \in 1..Len(r) - 1 : Without(r, j)[i] = IF i < j THEN r[i] ELSE r[i + 1]
    BY <1>3, WithoutIs
  <2> QED
    BY <1>2, <1>3, <2>1
<1>12. \A i \in 1..n - 1 : \E m \in 1..n : m # j /\ q[i] = r[m]
  <2> TAKE i \in 1..n - 1
  <2>1. CASE i < j
    BY <1>3, <1>11, <2>1
  <2>2. CASE ~(i < j)
    <3>1. i + 1 \in 1..n /\ i + 1 # j
      BY <1>3, <2>2
    <3> QED
      BY <1>11, <2>2, <3>1
  <2> QED
    BY <2>1, <2>2
<1>13. \A m \in 1..n : m # j => \E i \in 1..n - 1 : q[i] = r[m]
  <2> TAKE m \in 1..n
  <2> HAVE m # j
  <2>1. CASE m < j
    <3>1. m \in 1..n - 1
      BY <1>3, <2>1
    <3> QED
      BY <1>11, <2>1, <3>1
  <2>2. CASE ~(m < j)
    <3>1. m - 1 \in 1..n - 1 /\ ~(m - 1 < j) /\ m - 1 + 1 = m
      BY <1>3, <2>2
    <3> QED
      BY <1>11, <3>1
  <2> QED
    BY <2>1, <2>2
<1>14. \A m \in 1..n : m # j => r[m] # a /\ SameBody(heap[r[m]], h[r[m]])
  BY <1>2, <1>3, <1>8
<1>15. OfTable(q, table', h)
  <2>1. table \in [Key -> Addr \cup {Nil}] /\ x.key \in Key /\ table[x.key] = a
    BY <1>1, <1>2, <1>3 DEF OfTable
  <2>2. /\ table' \in [Key -> Addr \cup {Nil}] /\ table'[x.key] = Nil
        /\ \A k \in Key : k # x.key => table'[k] = table[k]
    BY <1>2, <2>1
  <2>3. \A m \in 1..n : table[heap[r[m]].key] = r[m]
    BY <1>1, <1>2 DEF OfTable
  <2>4. ASSUME NEW i \in 1..n - 1
        PROVE  table'[h[q[i]].key] = q[i]
    <3>1. PICK m \in 1..n : m # j /\ q[i] = r[m]
      BY <1>12
    <3>2. h[r[m]].key = heap[r[m]].key /\ heap[r[m]].key \in Key
      BY <1>3, <1>14, <3>1 DEF SameBody
    <3>3. heap[r[m]].key # x.key
      BY <1>14, <2>1, <2>3, <3>1
    <3> QED
      BY <2>2, <2>3, <3>1, <3>2, <3>3
  <2>5. ASSUME NEW k \in Key, table'[k] # Nil
        PROVE  \E i \in 1..n - 1 : q[i] = table'[k] /\ h[table'[k]].key = k
    <3>1. k # x.key /\ table'[k] = table[k]
      BY <2>2, <2>5
    <3>2. PICK m \in 1..n : r[m] = table[k] /\ heap[table[k]].key = k
      BY <1>1, <1>2, <2>5, <3>1 DEF OfTable
    <3>3. m # j
      BY <1>2, <3>1, <3>2
    <3>4. h[r[m]].key = k
      BY <1>14, <3>2, <3>3 DEF SameBody
    <3> QED
      BY <1>13, <3>1, <3>2, <3>3, <3>4
  <2> QED
    BY <1>11, <2>2, <2>4, <2>5 DEF OfTable
<1>16. OfHeap(q, h, garbage', level + 1)
  <2>0. garbage' = garbage \cup {a}
    BY <1>2
  <2>1. \A b \in DOMAIN h : h[b] \in HElem
    BY <1>8, <1>9
  <2>2. ASSUME NEW b \in DOMAIN h, b \notin garbage'
        PROVE  \E i \in 1..n - 1 : q[i] = b
    <3>1. PICK m \in 1..n : r[m] = b
      BY <1>1, <1>2, <1>9, <2>0, <2>2 DEF OfHeap
    <3>2. m # j
      BY <1>2, <2>0, <2>2, <3>1
    <3> QED
      BY <1>13, <3>1, <3>2
  <2>3. ASSUME NEW i \in 1..n - 1
        PROVE  q[i] \notin garbage' /\ Alive(h[q[i]], level + 1)
    <3>1. PICK m \in 1..n : m # j /\ q[i] = r[m]
      BY <1>12
    <3>2. r[m] \notin garbage /\ Alive(heap[r[m]], level + 1)
      BY <1>1, <1>2, <3>1 DEF OfHeap
    <3> QED
      BY <1>14, <2>0, <3>1, <3>2, BodyKept
  <2>4. ASSUME NEW b \in garbage'
        PROVE  b \in DOMAIN h /\ h[b].scope = 0
    <3>1. CASE b = a
      BY <1>4, <1>5, <1>8, <1>9, <3>1 DEF SameBody
    <3>2. CASE b # a
      <4>1. b \in garbage /\ b \in DOMAIN heap /\ heap[b].scope = 0
        BY <1>1, <2>0, <3>2 DEF OfHeap
      <4> QED
        BY <1>8, <1>9, <3>2, <4>1 DEF SameBody
    <3> QED
      BY <3>1, <3>2
  <2>5. DOMAIN h \subseteq Addr
    BY <1>1, <1>9 DEF OfHeap
  <2> QED
    BY <1>11, <2>1, <2>2, <2>3, <2>4, <2>5 DEF OfHeap
<1>17. first' = IF Len(q) = 0 THEN Nil ELSE q[1]
  <2>1. first' = IF first # a THEN first ELSE IF x.next = a THEN Nil ELSE x.next
    BY <1>2 DEF H!Unlink
  <2>2. first = r[1] /\ 1 \in 1..n /\ n \in 1..n /\ n # 0
    BY <1>1, <1>2, <1>3
  <2>3. CASE j # 1
    <3>1. r[1] # a /\ 1 < j /\ n - 1 # 0 /\ 1 \in 1..n - 1
      BY <1>2, <1>3, <2>2, <2>3
    <3> QED
      BY <1>11, <2>1, <2>2, <3>1
  <2>4. CASE j = 1 /\ n = 1
    <3>1. x.next = r[1] /\ a = r[1] /\ Len(q) = 0
      BY <1>2, <1>6, <1>11, <2>4
    <3> QED
      BY <2>1, <2>2, <3>1
  <2>5. CASE j = 1 /\ n # 1
    <3>1. 2 \in 1..n /\ 1 \in 1..n - 1 /\ n - 1 # 0 /\ j + 1 = 2 /\ 1 + 1 = 2 /\ ~(1 < j)
      BY <1>3, <2>5
    <3>2. x.next = r[2] /\ r[2] # r[1] /\ a = r[1] /\ q[1] = r[2]
      BY <1>2, <1>3, <1>6, <1>11, <2>2, <2>5, <3>1
    <3> QED
      BY <1>11, <2>1, <2>2, <3>1, <3>2
  <2> QED
    BY <2>3, <2>4, <2>5
<1>18. HNext(q)
  BY <1>1, <1>2, <1>10, <1>11, <1>15, <1>16, <1>17 DEF HNext, HGood, HTop
<1> QED
  BY <1>2, <1>5, <1>14, <1>18

LEMMA HInit ==
    ASSUME HConst, H!Init PROVE HNow(<< >>)
<1>1. PICK e : e = << >> /\ e \in Seq(Addr) /\ Len(e) = 0
  BY EmptyIs
<1>2. \A i \in 1..Len(e) : FALSE
  BY <1>1
<1>3. /\ level = 0 /\ table = [k \in Key |-> Nil] /\ first = Nil /\ garbage = {} /\ pc = "run"
      /\ DOMAIN heap = {}
  BY DEF H!Init
<1>4. Ring(e, heap)
  BY <1>2 DEF Ring
<1>5. OfTable(e, table, heap)
  <2>1. table \in [Key -> Addr \cup {Nil}] /\ \A k \in Key : table[k] = Nil
    BY <1>3
  <2> QED
    BY <1>2, <2>1 DEF OfTable
<1>6. OfHeap(e, heap, garbage, HTop(level, pc))
  BY <1>2, <1>3 DEF OfHeap
<1>7. HTop(level, pc) = 0 /\ 0 \in 0..MaxLevel /\ 0 <= MaxLevel
  BY <1>3, BoundsAssumption DEF HTop
<1>8. HNow(e)
  BY <1>1, <1>3, <1>4, <1>5, <1>6, <1>7 DEF HNow, HGood
<1> QED
  BY <1>1, <1>8

LEMMA NewElementKeeps ==
    ASSUME HConst, NEW r, HNow(r), pc = "run", NEW k \in Key, NEW d \in Data, table[k] = Nil,
           H!NewElement(k, d), level' = level, garbage' = garbage, pc' = pc
    PROVE  \E a \in Addr : a \notin DOMAIN heap /\ Added(r, k, d, a)
<1>1. PICK a \in Addr \ DOMAIN heap :
         /\ table' = [table EXCEPT ![k] = a]
         /\ heap' = H!Link([b \in DOMAIN heap \cup {a} |->
                              IF b = a THEN H!Construct(a, k, d) ELSE heap[b]], a)
         /\ first' = IF first = Nil THEN a ELSE first
  BY DEF H!NewElement
<1>2. Adds(k, d, a)
  BY <1>1, Zenon DEF NewHeap, Adds
<1>3. a \in Addr /\ a \notin DOMAIN heap
  BY <1>1
<1>4. Added(r, k, d, a)
  BY <1>2, <1>3, ElementAdded
<1> QED
  BY <1>3, <1>4

\* The two outcomes of RestoreElement.
LEMMA RestoreIs ==
    ASSUME HConst, NEW r, HNow(r), NEW a \in DOMAIN heap, H!RestoreElement(a)
    PROVE  \E j \in 1..Len(r) :
              /\ r[j] = a /\ pc = "restore" /\ InScope(heap[r[j]], level + 1)
              /\ level' = level /\ pc' = pc
              /\ \/ /\ ~LastCopy(heap[r[j]]).mapped
                    /\ H!Unlink(r[j]) /\ table' = [table EXCEPT ![heap[r[j]].key] = Nil]
                    /\ garbage' = garbage \cup {r[j]}
                 \/ /\ LastCopy(heap[r[j]]).mapped
                    /\ heap' = [heap EXCEPT ![r[j]] = RestoredElem(@)]
                    /\ table' = table /\ first' = first /\ garbage' = garbage
<1>1. /\ pc = "restore" /\ InScope(heap[a], level + 1) /\ level' = level /\ pc' = pc
      /\ \/ /\ ~LastCopy(heap[a]).mapped
            /\ H!Unlink(a) /\ table' = [table EXCEPT ![heap[a].key] = Nil]
            /\ garbage' = garbage \cup {a}
         \/ /\ LastCopy(heap[a]).mapped
            /\ heap' = [heap EXCEPT ![a] = H!Continue([@ EXCEPT !.data = LastCopy(heap[a]).data])]
            /\ table' = table /\ first' = first /\ garbage' = garbage
  BY DEF H!RestoreElement, H!InScope, InScope, H!LastCopy, LastCopy
<1>2. heap[a].scope = level + 1 /\ level \in Nat
  BY <1>1, BoundsAssumption DEF InScope, HNow, HGood
<1>3. a \notin garbage
  BY <1>2 DEF HNow, HGood, OfHeap
<1>4. PICK j \in 1..Len(r) : r[j] = a
  BY <1>3 DEF HNow, HGood, OfHeap
<1>5. H!Continue([heap[a] EXCEPT !.data = LastCopy(heap[a]).data]) = RestoredElem(heap[a])
  BY DEF RestoredElem, H!LastCopy, LastCopy
<1>6. [heap EXCEPT ![a] = H!Continue([@ EXCEPT !.data = LastCopy(heap[a]).data])]
        = [heap EXCEPT ![a] = RestoredElem(@)]
  BY <1>5
<1> QED
  BY <1>1, <1>4, <1>6, Zenon

\* Induction over the natural numbers, for the positions of a walk.
LEMMA Counting ==
    ASSUME NEW S, 0 \in S, \A n \in Nat : n \in S => n + 1 \in S
    PROVE  Nat \subseteq S
<1> SUFFICES ASSUME Nat \ S # {}
             PROVE  FALSE
  OBVIOUS
<1>1. PICK m \in Nat \ S : \A n \in Nat \ S : ~(<<n, m>> \in OpToRel(<, Nat))
  BY NatLessThanWellFounded, WFMin
<1>2. \A n \in Nat \ S : ~(n < m)
  BY <1>1 DEF OpToRel
<1>3. m # 0 /\ m - 1 \in Nat /\ m - 1 < m /\ m - 1 + 1 = m
  OBVIOUS
<1>4. m - 1 \in S
  BY <1>2, <1>3
<1> QED
  BY <1>3, <1>4

LEMMA HTypes ==
    ASSUME HConst, NEW r, HNow(r) PROVE H!TypeOK
<1>1. /\ level \in 0..MaxLevel /\ OfTable(r, table, heap)
      /\ OfHeap(r, heap, garbage, HTop(level, pc))
      /\ pc \in {"run", "restore"} /\ first = IF Len(r) = 0 THEN Nil ELSE r[1]
  BY DEF HNow, HGood
<1>2. first \in Addr \cup {Nil}
  <2>1. Len(r) # 0 => 1 \in 1..Len(r)
    BY Positions
  <2> QED
    BY <1>1, <2>1, Positions
<1>3. ASSUME NEW a \in DOMAIN heap
      PROVE  /\ heap[a].key \in Key
             /\ heap[a].prev \in Addr /\ heap[a].next \in Addr
             /\ [f \in {"scope", "data", "mapped"} |-> heap[a][f]] \in H!Version
             /\ heap[a].saved \in Seq(H!Version)
  <2>1. heap[a] \in HElem
    BY <1>1 DEF OfHeap
  <2>2. [f \in {"scope", "data", "mapped"} |-> heap[a][f]]
          = [scope |-> heap[a].scope, data |-> heap[a].data, mapped |-> heap[a].mapped]
    OBVIOUS
  <2> QED
    BY <2>1, <2>2 DEF HElem, H!Version
<1>4. /\ table \in [Key -> Addr \cup {Nil}] /\ DOMAIN heap \subseteq Addr
      /\ garbage \subseteq DOMAIN heap
  BY <1>1 DEF OfTable, OfHeap
<1> QED
  BY <1>1, <1>2, <1>3, <1>4 DEF H!TypeOK

-----------------------------------------------------------------------------
(* CDHashMap: what an iterator meets, and what was in the map at each level. *)

\* Walk, its set of elements and the snapshots, of any values of the variables.
WalkOf(fs, hp, n) ==
    LET at[i \in 1..n] == IF i = 1 THEN fs ELSE hp[at[i - 1]].next
    IN  [i \in 1..n |-> at[i]]

Tabled(tb) == {tb[k] : k \in Key} \ {Nil}

InMapOf(tb, hp, l) == {a \in Tabled(tb) : VersionAt(hp[a], l).mapped}

EntryOf(hp, a, l) == [key |-> hp[a].key, data |-> VersionAt(hp[a], l).data]

SnapOf(lv, tb, fs, hp) ==
    [l \in 0..lv |->
       [i \in 1..Cardinality(InMapOf(tb, hp, l)) |-> EntryOf(hp, WalkOf(fs, hp, i)[i], l)]]

\* What Walk's local function is.
Walks(f, fs, hp, n) == f = [i \in 1..n |-> IF i = 1 THEN fs ELSE hp[f[i - 1]].next]

\* A walk meets the ring.
LEMMA WalkIs ==
    ASSUME HConst, NEW r, NEW tb, NEW fs, NEW hp, NEW gb, NEW lv, NEW p,
           HGood(r, tb, fs, hp, gb, lv, p), NEW n \in 0..Len(r)
    PROVE  WalkOf(fs, hp, n) = [i \in 1..n |-> r[i]]
<1>2. /\ r \in Seq(Addr) /\ n \in Nat /\ Len(r) \in Nat /\ n <= Len(r)
      /\ Ring(r, hp) /\ fs = IF Len(r) = 0 THEN Nil ELSE r[1]
  BY PositionsOf DEF HGood
<1> PICK s : s = [i \in 1..n |-> r[i]]
  OBVIOUS
<1>s. \A i \in 1..n : s[i] = r[i]
  OBVIOUS
<1>3. \A i \in 1..n : s[i] = IF i = 1 THEN fs ELSE hp[s[i - 1]].next
  <2> TAKE i \in 1..n
  <2>1. Len(r) # 0
    BY <1>2
  <2>2. CASE i # 1
    <3>1. i - 1 \in 1..n /\ i - 1 \in 1..Len(r) /\ i - 1 # Len(r) /\ i - 1 + 1 = i
      BY <1>2, <2>2
    <3>2. hp[r[i - 1]].next = r[i]
      BY <1>2, <3>1 DEF Ring, SuccIn
    <3> QED
      BY <1>s, <2>2, <3>1, <3>2
  <2> QED
    BY <1>2, <1>s, <2>1, <2>2
<1>4. Walks(s, fs, hp, n)
  <2>1. s = [i \in 1..n |-> s[i]]
    OBVIOUS
  <2> QED
    BY <1>3, <2>1 DEF Walks
<1>5. PICK f : f = CHOOSE g : Walks(g, fs, hp, n)
  OBVIOUS
<1>6. Walks(f, fs, hp, n)
  BY <1>4, <1>5, Zenon
<1>7. WalkOf(fs, hp, n) = [i \in 1..n |-> f[i]]
  BY <1>5 DEF WalkOf, Walks
<1>8. \A i \in 1..n : f[i] = IF i = 1 THEN fs ELSE hp[f[i - 1]].next
  <2>1. PICK g : g = [i \in 1..n |-> IF i = 1 THEN fs ELSE hp[f[i - 1]].next]
    OBVIOUS
  <2>2. f = g
    BY <1>6, <2>1, Zenon DEF Walks
  <2>3. \A i \in 1..n : g[i] = IF i = 1 THEN fs ELSE hp[f[i - 1]].next
    BY <2>1
  <2> QED
    BY <2>2, <2>3, Zenon
<1>9. \A i \in 1..n : f[i] = s[i]
  <2> DEFINE S == {i \in Nat : i + 1 <= n => f[i + 1] = s[i + 1]}
  <2>1. 0 \in S
    <3>1. 1 <= n => f[1] = s[1]
      BY <1>2, <1>3, <1>8
    <3> QED
      BY <3>1
  <2>2. ASSUME NEW i \in Nat, i \in S
        PROVE  i + 1 \in S
    <3>1. ASSUME i + 1 + 1 <= n
          PROVE  f[i + 1 + 1] = s[i + 1 + 1]
      <4>1. /\ i + 1 <= n /\ i + 1 + 1 \in 1..n /\ i + 1 + 1 # 1 /\ i + 1 + 1 - 1 = i + 1
        BY <1>2, <3>1
      <4>2. f[i + 1] = s[i + 1]
        BY <2>2, <4>1
      <4>3. f[i + 1 + 1] = hp[f[i + 1]].next
        BY <1>8, <4>1
      <4>4. s[i + 1 + 1] = hp[s[i + 1]].next
        BY <1>3, <4>1
      <4> QED
        BY <4>2, <4>3, <4>4
    <3> QED
      BY <3>1
  <2> HIDE DEF S
  <2>3. Nat \subseteq S
    BY <2>1, <2>2, Counting
  <2>4. ASSUME NEW i \in 1..n
        PROVE  f[i] = s[i]
    <3>1. i - 1 \in S /\ i - 1 + 1 = i /\ i <= n
      BY <1>2, <2>3
    <3>2. i - 1 + 1 <= n => f[i - 1 + 1] = s[i - 1 + 1]
      BY <3>1 DEF S
    <3> QED
      BY <3>1, <3>2
  <2> QED
    BY <2>4
<1>10. [i \in 1..n |-> f[i]] = [i \in 1..n |-> r[i]]
  BY <1>9, <1>s
<1> QED
  BY <1>7, <1>10

\* The elements of the table are those of the ring.
LEMMA TableIs ==
    ASSUME HConst, NEW r, NEW tb, NEW fs, NEW hp, NEW gb, NEW lv, NEW p,
           HGood(r, tb, fs, hp, gb, lv, p)
    PROVE  Tabled(tb) = {r[i] : i \in 1..Len(r)}
<1>1. /\ \A i \in 1..Len(r) : r[i] # Nil /\ hp[r[i]].key \in Key
  BY PositionsOf
<1>2. OfTable(r, tb, hp)
  BY DEF HGood
<1>3. PICK tabled : tabled = Tabled(tb)
  OBVIOUS
<1>4. ASSUME NEW a \in tabled
      PROVE  \E i \in 1..Len(r) : r[i] = a
  <2>1. PICK k \in Key : tb[k] = a /\ a # Nil
    BY <1>3 DEF Tabled
  <2> QED
    BY <1>2, <2>1 DEF OfTable
<1>5. \A i \in 1..Len(r) : r[i] \in tabled
  BY <1>1, <1>2, <1>3 DEF Tabled, OfTable
<1> QED
  BY <1>3, <1>4, <1>5

\* There are as many first elements as their number says.
First(r, m) == {r[i] : i \in 1..m}

LEMMA FirstOnes ==
    ASSUME NEW r, NEW n \in Nat, \A i, j \in 1..n : r[i] = r[j] => i = j, NEW m \in 0..n
    PROVE  Cardinality(First(r, m)) = m
<1>0. m \in Nat /\ \A i \in 1..m : i \in 1..n
  OBVIOUS
<1>1. PICK F, f : F = {r[i] : i \in 1..m} /\ f = [i \in 1..m |-> r[i]]
  OBVIOUS
<1>5. f \in Bijection(1..m, F)
  <2>1. f \in [1..m -> F] /\ \A i \in 1..m : f[i] = r[i]
    BY <1>1
  <2>2. \A i, j \in 1..m : f[i] = f[j] => i = j
    BY <1>0, <2>1
  <2>3. \A x \in F : \E i \in 1..m : f[i] = x
    BY <1>1, <2>1
  <2> QED
    BY <2>1, <2>2, <2>3 DEF Bijection, Injection, Surjection, IsInjective
<1>6. IsFiniteSet(1..m) /\ Cardinality(1..m) = m
  BY <1>0, FS_Interval
<1>7. ExistsBijection(1..m, F)
  BY <1>5 DEF ExistsBijection
<1>8. Cardinality(F) = Cardinality(1..m)
  BY <1>6, <1>7, FS_Bijection
<1> QED
  BY <1>1, <1>6, <1>8 DEF First

\* The first m elements were in the map at level l, the others were not.
Shows(r, hp, l, m) ==
    /\ \A i \in 1..m : VersionAt(hp[r[i]], l).mapped = TRUE
    /\ \A i \in m + 1..Len(r) : VersionAt(hp[r[i]], l).mapped = FALSE

\* c says how many they are at each level.
HSeen(r, c, hp, lv) ==
    /\ c \in [0..lv -> 0..Len(r)]
    /\ \A l \in 0..lv : Shows(r, hp, l, c[l])

View(r, hp, l, m) == [i \in 1..m |-> EntryOf(hp, r[i], l)]

HSnap(r, c, hp, lv) == [l \in 0..lv |-> View(r, hp, l, c[l])]

\* What was in the map at a level is a beginning of the ring.
LEMMA InMapIs ==
    ASSUME HConst, NEW r, NEW tb, NEW fs, NEW hp, NEW gb, NEW lv, NEW p,
           HGood(r, tb, fs, hp, gb, lv, p), NEW l, NEW m \in 0..Len(r), Shows(r, hp, l, m)
    PROVE  /\ InMapOf(tb, hp, l) = {r[i] : i \in 1..m}
           /\ Cardinality(InMapOf(tb, hp, l)) = m
           /\ WalkOf(fs, hp, m) = [i \in 1..m |-> r[i]]
           /\ [i \in 1..Cardinality(InMapOf(tb, hp, l)) |->
                 EntryOf(hp, WalkOf(fs, hp, i)[i], l)] = View(r, hp, l, m)
<1>1. /\ Len(r) \in Nat /\ m \in Nat /\ m <= Len(r)
      /\ \A i, j \in 1..Len(r) : r[i] = r[j] => i = j
  BY PositionsOf
<1>2. \A i \in 1..Len(r) : VersionAt(hp[r[i]], l).mapped <=> i <= m
  <2> TAKE i \in 1..Len(r)
  <2>1. CASE i <= m
    <3>1. i \in 1..m
      BY <1>1, <2>1
    <3> QED
      BY <2>1, <3>1 DEF Shows
  <2>2. CASE ~(i <= m)
    <3>1. i \in m + 1..Len(r)
      BY <1>1, <2>2
    <3> QED
      BY <2>2, <3>1 DEF Shows
  <2> QED
    BY <2>1, <2>2
<1>3. PICK A : A = InMapOf(tb, hp, l)
  OBVIOUS
<1>4. A = {r[i] : i \in 1..m}
  <2>1. A = {a \in {r[i] : i \in 1..Len(r)} : VersionAt(hp[a], l).mapped}
    BY <1>3, TableIs, Zenon DEF InMapOf
  <2>2. ASSUME NEW a \in A
        PROVE  \E i \in 1..m : r[i] = a
    <3>1. PICK i \in 1..Len(r) : r[i] = a
      BY <2>1
    <3>2. i <= m
      BY <1>2, <2>1, <3>1
    <3>3. i \in 1..m
      BY <1>1, <3>2
    <3> QED
      BY <3>1, <3>3
  <2>3. ASSUME NEW i \in 1..m
        PROVE  r[i] \in A
    <3>1. i \in 1..Len(r) /\ i <= m
      BY <1>1
    <3> QED
      BY <1>2, <2>1, <3>1
  <2> QED
    BY <2>2, <2>3
<1>5. Cardinality(A) = m
  <2>1. Cardinality(First(r, m)) = m
    BY <1>1, FirstOnes
  <2> QED
    BY <1>4, <2>1 DEF First
<1>6. WalkOf(fs, hp, m) = [i \in 1..m |-> r[i]]
  BY WalkIs
<1>7. ASSUME NEW i \in 1..m
      PROVE  WalkOf(fs, hp, i)[i] = r[i]
  <2>1. i \in 0..Len(r) /\ i \in 1..i
    BY <1>1
  <2>2. WalkOf(fs, hp, i) = [j \in 1..i |-> r[j]]
    BY <2>1, WalkIs
  <2> QED
    BY <2>1, <2>2
<1>8. [i \in 1..m |-> EntryOf(hp, WalkOf(fs, hp, i)[i], l)] = View(r, hp, l, m)
  BY <1>7 DEF View
<1> QED
  BY <1>3, <1>4, <1>5, <1>6, <1>8

LEMMA SnapOfIs ==
    ASSUME HConst, NEW r, NEW tb, NEW fs, NEW hp, NEW gb, NEW lv, NEW p,
           HGood(r, tb, fs, hp, gb, lv, p), NEW c, HSeen(r, c, hp, lv)
    PROVE  SnapOf(lv, tb, fs, hp) = HSnap(r, c, hp, lv)
<1>1. ASSUME NEW l \in 0..lv
      PROVE  [i \in 1..Cardinality(InMapOf(tb, hp, l)) |->
                EntryOf(hp, WalkOf(fs, hp, i)[i], l)] = View(r, hp, l, c[l])
  <2>1. c[l] \in 0..Len(r) /\ Shows(r, hp, l, c[l])
    BY DEF HSeen
  <2> QED
    BY <2>1, InMapIs
<1> QED
  BY <1>1, Zenon DEF SnapOf, HSnap

LEMMA SameCardinality == \A S : H!Cardinality(S) = Cardinality(S)
  BY DEF H!Cardinality, Cardinality

LEMMA InMapAtIs ==
    /\ H!InTable = Tabled(table)
    /\ \A l : H!InMapAt(l) = InMapOf(table, heap, l)
    /\ \A n : H!Walk(n) = WalkOf(first, heap, n)
  BY DEF H!InTable, Tabled, H!InMapAt, InMapOf, H!VersionAt, VersionAt, H!Walk, WalkOf

LEMMA HSnapIs ==
    [l \in 0..level |->
       [i \in 1..H!Cardinality(H!InMapAt(l)) |-> H!Entry(H!Walk(i)[i], l)]]
      = SnapOf(level, table, first, heap)
  BY DEF H!InTable, Tabled, H!InMapAt, InMapOf, H!VersionAt, VersionAt, H!Walk, WalkOf,
         H!Entry, EntryOf, H!Cardinality, Cardinality, SnapOf

LEMMA HSnapIsNext ==
    [l \in 0..level |->
       [i \in 1..H!Cardinality(H!InMapAt(l)) |-> H!Entry(H!Walk(i)[i], l)]]'
      = SnapOf(level', table', first', heap')
  BY DEF H!InTable, Tabled, H!InMapAt, InMapOf, H!VersionAt, VersionAt, H!Walk, WalkOf,
         H!Entry, EntryOf, H!Cardinality, Cardinality, SnapOf

LEMMA AllSeen ==
    ASSUME HConst, NEW r, NEW c, HNow(r), HSeen(r, c, heap, level), pc = "run"
    PROVE  c[level] = Len(r) /\ level \in Nat /\ level \in 0..level
<1>1. level \in Nat /\ Len(r) \in Nat
  BY Positions, BoundsAssumption DEF HNow, HGood
<1>2. c[level] \in 0..Len(r) /\ Shows(r, heap, level, c[level])
  BY <1>1 DEF HSeen
<1>3. ASSUME c[level] # Len(r)
      PROVE  FALSE
  <2>1. Len(r) \in 1..Len(r) /\ Len(r) \in c[level] + 1..Len(r)
    BY <1>1, <1>2, <1>3
  <2>2. PICK x : x = heap[r[Len(r)]]
    OBVIOUS
  <2>3. Alive(x, level)
    BY <2>1, <2>2 DEF HNow, HGood, HTop, OfHeap
  <2>4. VersionAt(x, level) = x /\ x.mapped = TRUE
    BY <1>1, <2>3 DEF Alive, Chain, VersionAt
  <2>5. VersionAt(x, level).mapped = FALSE
    BY <1>2, <2>1, <2>2 DEF Shows
  <2> QED
    BY <2>4, <2>5
<1> QED
  BY <1>1, <1>3

\* The elements say the same of level l as before, and new ones were not in the map then.
Carried(r, hp, q, h2, l) ==
    /\ Len(r) <= Len(q)
    /\ \A i \in 1..Len(r) : /\ h2[q[i]].key = hp[r[i]].key
                            /\ SameAt(hp[r[i]], h2[q[i]], l)
    /\ \A i \in Len(r) + 1..Len(q) : VersionAt(h2[q[i]], l).mapped = FALSE

LEMMA CarriedIs ==
    ASSUME NEW r, NEW hp, NEW q, NEW h2, NEW l, Carried(r, hp, q, h2, l),
           Len(r) \in Nat, Len(q) \in Nat, NEW m \in 0..Len(r), Shows(r, hp, l, m)
    PROVE  Shows(q, h2, l, m) /\ View(q, h2, l, m) = View(r, hp, l, m)
<1>1. PICK n, o : n = Len(r) /\ o = Len(q)
  OBVIOUS
<1>2. /\ n \in Nat /\ o \in Nat /\ m \in 0..n /\ n <= o
      /\ \A i \in 1..n : /\ h2[q[i]].key = hp[r[i]].key
                         /\ VersionAt(h2[q[i]], l).mapped = VersionAt(hp[r[i]], l).mapped
                         /\ VersionAt(h2[q[i]], l).data = VersionAt(hp[r[i]], l).data
      /\ \A i \in n + 1..o : VersionAt(h2[q[i]], l).mapped = FALSE
  BY <1>1 DEF Carried, SameAt
<1>3. /\ \A i \in 1..m : VersionAt(hp[r[i]], l).mapped = TRUE
      /\ \A i \in m + 1..n : VersionAt(hp[r[i]], l).mapped = FALSE
  BY <1>1 DEF Shows
<1>4. \A i \in 1..m : i \in 1..n
  BY <1>2
<1>5. \A i \in m + 1..o : i \in n + 1..o \/ (i \in m + 1..n /\ i \in 1..n)
  BY <1>2
<1>6. \A i \in 1..m : VersionAt(h2[q[i]], l).mapped = TRUE
  BY <1>2, <1>3, <1>4
<1>7. \A i \in m + 1..o : VersionAt(h2[q[i]], l).mapped = FALSE
  BY <1>2, <1>3, <1>5
<1>8. View(q, h2, l, m) = View(r, hp, l, m)
  BY <1>2, <1>4 DEF View, EntryOf
<1> QED
  BY <1>1, <1>6, <1>7, <1>8 DEF Shows

\* The same elements at the same levels: nothing is seen of the step.
LEMMA NothingSeen ==
    ASSUME NEW r, NEW c, NEW hp, NEW lv, HSeen(r, c, hp, lv), Len(r) \in Nat, NEW h2,
           \A l \in 0..lv : Carried(r, hp, r, h2, l)
    PROVE  HSeen(r, c, h2, lv) /\ HSnap(r, c, h2, lv) = HSnap(r, c, hp, lv)
<1>1. ASSUME NEW l \in 0..lv
      PROVE  Shows(r, h2, l, c[l]) /\ View(r, h2, l, c[l]) = View(r, hp, l, c[l])
  <2>1. c[l] \in 0..Len(r) /\ Shows(r, hp, l, c[l]) /\ Carried(r, hp, r, h2, l)
    BY DEF HSeen
  <2> QED
    BY <2>1, CarriedIs
<1> QED
  BY <1>1 DEF HSeen, HSnap

\* What BacktrackMap does to its snapshots.
KeysIn(s) == {s[i].key : i \in DOMAIN s}

Inserts(k, d, s, s2) ==
    /\ k \notin KeysIn(s[level])
    /\ s2 = [s EXCEPT ![level] = Append(@, [key |-> k, data |-> d])]
    /\ level' = level

Altered(v, k, d) ==
    [i \in DOMAIN v |-> IF v[i].key = k THEN [v[i] EXCEPT !.data = d] ELSE v[i]]

Assigns(k, d, s, s2) ==
    /\ k \in KeysIn(s[level])
    /\ s2 = [s EXCEPT ![level] = Altered(@, k, d)]
    /\ level' = level

LEMMA LongerIs ==
    ASSUME NEW n \in Nat, NEW S, NEW v \in [1..n -> S], NEW e \in S
    PROVE  Append(v, e) = [i \in 1..n + 1 |-> IF i = n + 1 THEN e ELSE v[i]]
<1>1. v \in Seq(S) /\ Len(v) = n
  BY Elements
<1>2. PICK w : w = Append(v, e)
  OBVIOUS
<1>3. /\ w \in Seq(S) /\ Len(w) = n + 1 /\ w[n + 1] = e
      /\ \A i \in 1..n : w[i] = v[i]
  BY <1>1, <1>2, Appended
<1>4. w = [i \in 1..n + 1 |-> w[i]]
  BY <1>3
<1>5. \A i \in 1..n + 1 : i = n + 1 \/ i \in 1..n
  OBVIOUS
<1> QED
  BY <1>2, <1>3, <1>4, <1>5

LEMMA AddedSeen ==
    ASSUME HConst, NEW r, NEW c, HNow(r), HSeen(r, c, heap, level), pc = "run",
           NEW k \in Key, NEW d \in Data, table[k] = Nil, NEW a \in Addr,
           Added(r, k, d, a), level' = level
    PROVE  \E c2 : /\ HSeen(Append(r, a), c2, heap', level')
                   /\ Inserts(k, d, HSnap(r, c, heap, level),
                              HSnap(Append(r, a), c2, heap', level'))
<1>1. PICK n, q, h, c2 : /\ n = Len(r) /\ q = Append(r, a) /\ h = heap'
                         /\ c2 = [c EXCEPT ![level] = n + 1]
  OBVIOUS
<1>2. c[level] = n /\ level \in Nat /\ level \in 0..level
  BY <1>1, AllSeen
<1>3. /\ r \in Seq(Addr) /\ n \in Nat /\ \A i \in 1..n : r[i] # Nil
  BY <1>1, Positions
<1>4. Len(q) = n + 1 /\ q[n + 1] = a /\ \A i \in 1..n : q[i] = r[i]
  BY <1>1, <1>3, Appended
<1>5. /\ \A i \in 1..n : SameBody(heap[r[i]], h[r[i]])
      /\ h[a].key = k /\ h[a].data = d
      /\ VersionAt(h[a], level) = h[a] /\ h[a].mapped = TRUE
      /\ \A l \in 0..level - 1 : VersionAt(h[a], l).mapped = FALSE
  BY <1>1 DEF Added
<1>6. \A i \in 1..n, l \in 0..level : /\ h[q[i]].key = heap[r[i]].key
                                      /\ SameAt(heap[r[i]], h[q[i]], l)
  BY <1>4, <1>5, BodyKept DEF SameBody
<1>7. /\ c \in [0..level -> 0..n] /\ \A l \in 0..level : Shows(r, heap, l, c[l])
  BY <1>1 DEF HSeen
<1>8. /\ c2 \in [0..level -> 0..n + 1] /\ c2[level] = n + 1
      /\ \A l \in 0..level : l # level => c2[l] = c[l]
  <2>1. \A m \in 0..n : m \in 0..n + 1
    BY <1>3
  <2>2. n + 1 \in 0..n + 1
    BY <1>3
  <2> QED
    BY <1>1, <1>2, <1>7, <2>1, <2>2
<1>9. ASSUME NEW l \in 0..level, l # level
      PROVE  Shows(q, h, l, c[l]) /\ View(q, h, l, c[l]) = View(r, heap, l, c[l])
  <2>1. l \in 0..level - 1
    BY <1>2, <1>9
  <2>2. \A i \in n + 1..n + 1 : i = n + 1
    BY <1>3
  <2>3. Carried(r, heap, q, h, l)
    BY <1>1, <1>3, <1>4, <1>5, <1>6, <2>1, <2>2 DEF Carried
  <2>4. Len(r) \in Nat /\ Len(q) \in Nat /\ c[l] \in 0..Len(r) /\ Shows(r, heap, l, c[l])
    BY <1>1, <1>3, <1>4, <1>7
  <2> QED
    BY <2>3, <2>4, CarriedIs
<1>10. \A i \in 1..n + 1 : i \in 1..n \/ i = n + 1
  BY <1>3
<1>11. Shows(q, h, level, n + 1)
  <2>1. \A i \in 1..n : VersionAt(heap[r[i]], level).mapped = TRUE
    BY <1>1, <1>2, <1>7 DEF Shows
  <2>2. \A i \in 1..n : VersionAt(h[q[i]], level).mapped = TRUE
    BY <1>2, <1>6, <2>1 DEF SameAt
  <2>3. \A i \in n + 1 + 1..n + 1 : FALSE
    BY <1>3
  <2> QED
    BY <1>4, <1>5, <1>10, <2>2, <2>3 DEF Shows
<1>12. HSeen(q, c2, h, level)
  BY <1>4, <1>8, <1>9, <1>11 DEF HSeen
<1>13. View(q, h, level, n + 1) = Append(View(r, heap, level, n), [key |-> k, data |-> d])
  <2>1. PICK v, e : v = View(r, heap, level, n) /\ e = [key |-> k, data |-> d]
    OBVIOUS
  <2>2. Len(v) = n /\ DOMAIN v = 1..n /\ \A i \in 1..n : v[i] = EntryOf(heap, r[i], level)
    BY <1>3, <2>1 DEF View
  <2>3. \A i \in 1..n : EntryOf(h, q[i], level) = v[i]
    BY <1>2, <1>6, <2>2 DEF EntryOf, SameAt
  <2>4. EntryOf(h, q[n + 1], level) = e
    BY <1>4, <1>5, <2>1 DEF EntryOf
  <2>5. Append(v, e) = [i \in 1..n + 1 |-> IF i = n + 1 THEN e ELSE v[i]]
    <3>1. PICK S : S = {EntryOf(heap, r[i], level) : i \in 1..n} \cup {e}
      OBVIOUS
    <3>2. v = [i \in 1..n |-> EntryOf(heap, r[i], level)]
      BY <2>1 DEF View
    <3>3. v \in [1..n -> S] /\ e \in S
      BY <3>1, <3>2
    <3> QED
      BY ONLY <1>3, <3>3, LongerIs
  <2>6. \A i \in 1..n + 1 : EntryOf(h, q[i], level) = IF i = n + 1 THEN e ELSE v[i]
    BY <1>10, <2>3, <2>4
  <2>7. View(q, h, level, n + 1) = [i \in 1..n + 1 |-> IF i = n + 1 THEN e ELSE v[i]]
    BY <2>6 DEF View
  <2> QED
    BY <2>1, <2>5, <2>7
<1>14. HSnap(q, c2, h, level)
         = [HSnap(r, c, heap, level) EXCEPT ![level] = Append(@, [key |-> k, data |-> d])]
  <2>1. PICK s, e : s = HSnap(r, c, heap, level) /\ e = [key |-> k, data |-> d]
    OBVIOUS
  <2>2. /\ s = [l \in 0..level |-> View(r, heap, l, c[l])] /\ s[level] = View(r, heap, level, n)
    BY <1>2, <2>1 DEF HSnap
  <2>3. ASSUME NEW l \in 0..level
        PROVE  View(q, h, l, c2[l]) = IF l = level THEN Append(s[level], e) ELSE s[l]
    BY <1>8, <1>9, <1>13, <2>1, <2>2
  <2>4. [s EXCEPT ![level] = Append(@, e)]
          = [l \in 0..level |-> IF l = level THEN Append(s[level], e) ELSE s[l]]
    BY <1>2, <2>2
  <2>5. HSnap(q, c2, h, level)
          = [l \in 0..level |-> IF l = level THEN Append(s[level], e) ELSE s[l]]
    BY <2>3 DEF HSnap
  <2> QED
    BY <2>1, <2>4, <2>5
<1>15. k \notin KeysIn(HSnap(r, c, heap, level)[level])
  <2>1. HSnap(r, c, heap, level)[level] = [i \in 1..n |-> EntryOf(heap, r[i], level)]
    BY <1>2 DEF HSnap, View
  <2>2. ASSUME NEW i \in 1..n
        PROVE  heap[r[i]].key # k
    <3>1. table[heap[r[i]].key] = r[i]
      BY <1>1 DEF HNow, HGood, OfTable
    <3> QED
      BY <1>3, <3>1
  <2> QED
    BY <2>1, <2>2 DEF KeysIn, EntryOf
<1> QED
  BY <1>1, <1>12, <1>14, <1>15 DEF Inserts

LEMMA AssignedSeen ==
    ASSUME HConst, NEW r, NEW c, HNow(r), HSeen(r, c, heap, level), pc = "run",
           NEW k \in Key, NEW d \in Data, level' = level, NEW j \in 1..Len(r),
           heap[r[j]].key = k, heap'[r[j]].key = k, heap'[r[j]].data = d,
           VersionAt(heap'[r[j]], level) = heap'[r[j]], heap'[r[j]].mapped = TRUE,
           \A l \in 0..level - 1 : SameAt(heap[r[j]], heap'[r[j]], l),
           \A i \in 1..Len(r) : i # j => heap'[r[i]] = heap[r[i]]
    PROVE  /\ HSeen(r, c, heap', level')
           /\ Assigns(k, d, HSnap(r, c, heap, level), HSnap(r, c, heap', level'))
<1>1. PICK n, h : n = Len(r) /\ h = heap'
  OBVIOUS
<1>2. c[level] = n /\ level \in Nat /\ level \in 0..level
  BY <1>1, AllSeen
<1>3. n \in Nat /\ j \in 1..n
  BY <1>1, Positions
<1>4. /\ \A i \in 1..n : h[r[i]].key = heap[r[i]].key
      /\ \A i \in 1..n : i # j => h[r[i]] = heap[r[i]]
      /\ VersionAt(h[r[j]], level) = h[r[j]] /\ h[r[j]].mapped = TRUE /\ h[r[j]].data = d
      /\ heap[r[j]].key = k
  BY <1>1
<1>5. \A i \in 1..n, l \in 0..level - 1 : SameAt(heap[r[i]], h[r[i]], l)
  BY <1>1, <1>4 DEF SameAt
<1>6. /\ c \in [0..level -> 0..n] /\ \A l \in 0..level : Shows(r, heap, l, c[l])
  BY <1>1 DEF HSeen
<1>7. ASSUME NEW l \in 0..level, l # level
      PROVE  Shows(r, h, l, c[l]) /\ View(r, h, l, c[l]) = View(r, heap, l, c[l])
  <2>1. l \in 0..level - 1
    BY <1>2, <1>7
  <2>2. \A i \in n + 1..n : FALSE
    BY <1>3
  <2>3. Carried(r, heap, r, h, l)
    BY <1>1, <1>3, <1>4, <1>5, <2>1, <2>2 DEF Carried
  <2>4. Len(r) \in Nat /\ c[l] \in 0..Len(r) /\ Shows(r, heap, l, c[l])
    BY <1>1, <1>3, <1>6
  <2> QED
    BY <2>3, <2>4, CarriedIs
<1>8. Shows(r, h, level, n)
  <2>1. \A i \in 1..n : VersionAt(heap[r[i]], level).mapped = TRUE
    BY <1>2, <1>6 DEF Shows
  <2>2. \A i \in 1..n : VersionAt(h[r[i]], level).mapped = TRUE
    BY <1>4, <2>1
  <2>3. \A i \in n + 1..n : FALSE
    BY <1>3
  <2> QED
    BY <1>1, <2>2, <2>3 DEF Shows
<1>9. HSeen(r, c, h, level)
  BY <1>1, <1>2, <1>6, <1>7, <1>8 DEF HSeen
<1>10. ASSUME NEW i \in 1..n, heap[r[i]].key = k
       PROVE  i = j
  <2>1. table[heap[r[i]].key] = r[i] /\ table[heap[r[j]].key] = r[j]
    BY <1>1 DEF HNow, HGood, OfTable
  <2>2. r[i] = r[j]
    BY <1>4, <1>10, <2>1
  <2>3. \A u, v \in 1..n : r[u] = r[v] => u = v
    BY <1>1, Positions
  <2> QED
    BY <1>3, <2>2, <2>3
<1>11. View(r, h, level, n) = Altered(View(r, heap, level, n), k, d)
  <2>1. PICK v : v = View(r, heap, level, n)
    OBVIOUS
  <2>2. DOMAIN v = 1..n /\ \A i \in 1..n : v[i] = EntryOf(heap, r[i], level)
    BY <2>1 DEF View
  <2>3. ASSUME NEW i \in 1..n
        PROVE  EntryOf(h, r[i], level)
                 = IF v[i].key = k THEN [v[i] EXCEPT !.data = d] ELSE v[i]
    <3>1. CASE i = j
      BY <1>4, <2>2, <3>1 DEF EntryOf
    <3>2. CASE i # j
      BY <1>4, <1>10, <2>2, <3>2 DEF EntryOf
    <3> QED
      BY <3>1, <3>2
  <2>4. View(r, h, level, n)
          = [i \in 1..n |-> IF v[i].key = k THEN [v[i] EXCEPT !.data = d] ELSE v[i]]
    BY <2>3 DEF View
  <2> QED
    BY <2>1, <2>2, <2>4 DEF Altered
<1>12. PICK s : s = HSnap(r, c, heap, level)
  OBVIOUS
<1>13. s = [l \in 0..level |-> View(r, heap, l, c[l])] /\ s[level] = View(r, heap, level, n)
  BY <1>2, <1>12 DEF HSnap
<1>14. HSnap(r, c, h, level)
         = [s EXCEPT ![level] = Altered(@, k, d)]
  <2>1. PICK w : w = View(r, h, level, n)
    OBVIOUS
  <2>2. w = Altered(s[level], k, d)
    BY <1>11, <1>13, <2>1
  <2>3. [s EXCEPT ![level] = w] = [l \in 0..level |-> IF l = level THEN w ELSE s[l]]
    BY <1>2, <1>13
  <2>4. ASSUME NEW l \in 0..level
        PROVE  View(r, h, l, c[l]) = IF l = level THEN w ELSE s[l]
    BY <1>2, <1>7, <1>13, <2>1
  <2>5. HSnap(r, c, h, level) = [l \in 0..level |-> IF l = level THEN w ELSE s[l]]
    BY <2>4 DEF HSnap
  <2>6. HSnap(r, c, h, level) = [s EXCEPT ![level] = w]
    BY <2>3, <2>5
  <2> QED
    BY <2>2, <2>6, Zenon
<1>15. k \in KeysIn(s[level])
  <2>1. s[level] = [i \in 1..n |-> EntryOf(heap, r[i], level)]
    BY <1>13 DEF View
  <2>2. s[level][j].key = k
    BY <1>3, <1>4, <2>1 DEF EntryOf
  <2> QED
    BY <1>3, <2>1, <2>2 DEF KeysIn
<1> QED
  BY <1>1, <1>9, <1>12, <1>14, <1>15, Zenon DEF Assigns

LEMMA ClearedSeen ==
    ASSUME NEW h, NEW lv
    PROVE  \E c2 : /\ HSeen(<< >>, c2, h, lv)
                   /\ HSnap(<< >>, c2, h, lv) = [l \in 0..lv |-> << >>]
<1>1. PICK c2, e : c2 = [l \in 0..lv |-> 0] /\ e = << >>
  OBVIOUS
<1>2. Len(e) = 0 /\ (\A i \in 1..0 : FALSE) /\ \A i \in 0 + 1..0 : FALSE
  BY <1>1
<1>3. \A l \in 0..lv : c2[l] = 0 /\ Shows(e, h, l, 0) /\ View(e, h, l, 0) = << >>
  BY <1>1, <1>2 DEF Shows, View
<1>4. c2 \in [0..lv -> 0..Len(e)]
  BY <1>1, <1>2
<1>5. HSeen(e, c2, h, lv)
  BY <1>3, <1>4 DEF HSeen
<1>6. HSnap(e, c2, h, lv) = [l \in 0..lv |-> << >>]
  BY <1>3 DEF HSnap
<1> QED
  BY <1>1, <1>5, <1>6

LEMMA PushSeen ==
    ASSUME HConst, NEW r, NEW c, HNow(r), HSeen(r, c, heap, level), pc = "run",
           level' = level + 1
    PROVE  \E c2 : /\ HSeen(r, c2, heap, level')
                   /\ HSnap(r, c2, heap, level')
                        = [l \in 0..level + 1 |->
                             IF l > level THEN HSnap(r, c, heap, level)[level]
                             ELSE HSnap(r, c, heap, level)[l]]
<1>1. PICK n, c2, top :
         /\ n = Len(r) /\ top = level + 1
         /\ c2 = [l \in 0..top |-> IF l > level THEN n ELSE c[l]]
  OBVIOUS
<1>2. c[level] = n /\ level \in Nat /\ level \in 0..level
  BY <1>1, AllSeen
<1>3. n \in Nat
  BY <1>1, Positions
<1>4. /\ c \in [0..level -> 0..n] /\ \A l \in 0..level : Shows(r, heap, l, c[l])
  BY <1>1 DEF HSeen
<1>5. \A l \in 0..top : IF l > level THEN l = top ELSE l \in 0..level
  BY <1>1, <1>2
<1>6. c2 \in [0..top -> 0..n]
  <2>1. n \in 0..n
    BY <1>3
  <2> QED
    BY <1>1, <1>4, <1>5, <2>1
<1>7. \A i \in 1..n : VersionAt(heap[r[i]], top) = VersionAt(heap[r[i]], level)
  <2> TAKE i \in 1..n
  <2>1. PICK x : x = heap[r[i]]
    OBVIOUS
  <2>2. Alive(x, level)
    BY <1>1, <2>1 DEF HNow, HGood, HTop, OfHeap
  <2> QED
    BY <1>1, <1>2, <2>1, <2>2 DEF Alive, Chain, VersionAt
<1>8. Shows(r, heap, top, n) /\ View(r, heap, top, n) = View(r, heap, level, n)
  <2>1. Shows(r, heap, level, n)
    BY <1>2, <1>4
  <2>2. \A i \in n + 1..n : FALSE
    BY <1>3
  <2> QED
    BY <1>1, <1>7, <2>1, <2>2 DEF Shows, View, EntryOf
<1>9. \A l \in 0..top : Shows(r, heap, l, c2[l])
  BY <1>1, <1>4, <1>5, <1>8
<1>10. HSeen(r, c2, heap, top)
  BY <1>1, <1>6, <1>9 DEF HSeen
<1>11. PICK s : s = HSnap(r, c, heap, level)
  OBVIOUS
<1>12. /\ s[level] = View(r, heap, level, n)
       /\ \A l \in 0..level : s[l] = View(r, heap, l, c[l])
  BY <1>2, <1>11 DEF HSnap
<1>13. \A l \in 0..top : View(r, heap, l, c2[l]) = IF l > level THEN s[level] ELSE s[l]
  BY <1>1, <1>5, <1>8, <1>12
<1>14. HSnap(r, c2, heap, top) = [l \in 0..top |-> IF l > level THEN s[level] ELSE s[l]]
  BY <1>13 DEF HSnap
<1> QED
  BY <1>1, <1>10, <1>11, <1>14

LEMMA PopSeen ==
    ASSUME HConst, NEW r, NEW c, HNow(r), HSeen(r, c, heap, level), level > 0,
           level' = level - 1
    PROVE  \E c2 : /\ HSeen(r, c2, heap, level')
                   /\ HSnap(r, c2, heap, level')
                        = [l \in 0..level - 1 |-> HSnap(r, c, heap, level)[l]]
<1>1. PICK low, c2 : low = level - 1 /\ c2 = [l \in 0..low |-> c[l]]
  OBVIOUS
<1>2. level \in Nat
  BY BoundsAssumption DEF HNow, HGood
<1>3. \A l \in 0..low : l \in 0..level
  BY <1>1, <1>2
<1>4. HSeen(r, c2, heap, low)
  BY <1>1, <1>3 DEF HSeen
<1>5. HSnap(r, c2, heap, low) = [l \in 0..low |-> HSnap(r, c, heap, level)[l]]
  BY <1>1, <1>3 DEF HSnap
<1> QED
  BY <1>1, <1>4, <1>5

LEMMA GoneSeen ==
    ASSUME HConst, NEW r, NEW c, HNow(r), HSeen(r, c, heap, level), NEW j \in 1..Len(r),
           \A i \in 1..Len(r) : i # j => SameBody(heap[r[i]], heap'[r[i]]),
           \A l \in 0..level : VersionAt(heap[r[j]], l).mapped = FALSE
    PROVE  /\ HSeen(Without(r, j), c, heap', level)
           /\ HSnap(Without(r, j), c, heap', level) = HSnap(r, c, heap, level)
<1>1. PICK n, q, h : n = Len(r) /\ q = Without(r, j) /\ h = heap'
  OBVIOUS
<1>2. r \in Seq(Addr) /\ n \in Nat /\ j \in 1..n
  BY <1>1, Positions
<1>3. /\ Len(q) = n - 1 /\ n - 1 \in Nat
      /\ \A i \in 1..n - 1 : q[i] = IF i < j THEN r[i] ELSE r[i + 1]
  <2>1. /\ Len(Without(r, j)) = Len(r) - 1
        /\ \A i \in 1..Len(r) - 1 : Without(r, j)[i] = IF i < j THEN r[i] ELSE r[i + 1]
    BY <1>2, WithoutIs
  <2> QED
    BY <1>1, <1>2, <2>1
<1>4. \A i \in 1..n, l \in 0..level : i # j => /\ h[r[i]].key = heap[r[i]].key
                                               /\ SameAt(heap[r[i]], h[r[i]], l)
  BY <1>1, BodyKept DEF SameBody
<1>5. ASSUME NEW l \in 0..level
      PROVE  /\ c[l] \in 0..n - 1 /\ Shows(q, h, l, c[l])
             /\ View(q, h, l, c[l]) = View(r, heap, l, c[l])
  <2> PICK m : m = c[l]
    OBVIOUS
  <2>1. /\ m \in 0..n
        /\ \A i \in 1..m : VersionAt(heap[r[i]], l).mapped = TRUE
        /\ \A i \in m + 1..n : VersionAt(heap[r[i]], l).mapped = FALSE
    BY <1>1 DEF HSeen, Shows
  <2>2. m < j
    <3>1. CASE j \in 1..m
      BY <2>1, <3>1
    <3> QED
      BY <1>2, <2>1, <3>1
  <2>3. \A i \in 1..m : i \in 1..n - 1 /\ i \in 1..n /\ i < j /\ i # j /\ q[i] = r[i]
    BY <1>2, <1>3, <2>1, <2>2
  <2>4. ASSUME NEW i \in m + 1..n - 1
        PROVE  \E u \in m + 1..n : u \in 1..n /\ u # j /\ q[i] = r[u]
    <3>0. i \in 1..n - 1
      BY <1>2, <2>1
    <3>1. CASE i < j
      <4>1. i \in m + 1..n /\ i \in 1..n /\ i # j /\ q[i] = r[i]
        BY <1>2, <1>3, <2>1, <3>0, <3>1
      <4> QED
        BY <4>1
    <3>2. CASE ~(i < j)
      <4>1. i + 1 \in m + 1..n /\ i + 1 \in 1..n /\ i + 1 # j /\ q[i] = r[i + 1]
        BY <1>2, <1>3, <2>1, <3>0, <3>2
      <4> QED
        BY <4>1
    <3> QED
      BY <3>1, <3>2
  <2>5. \A i \in 1..m : VersionAt(h[q[i]], l).mapped = TRUE
    BY <1>4, <2>1, <2>3 DEF SameAt
  <2>6. \A i \in m + 1..n - 1 : VersionAt(h[q[i]], l).mapped = FALSE
    BY <1>4, <2>1, <2>4 DEF SameAt
  <2>7. \A i \in 1..m : EntryOf(h, q[i], l) = EntryOf(heap, r[i], l)
    BY <1>4, <2>3 DEF SameAt, EntryOf
  <2>8. View(q, h, l, m) = View(r, heap, l, m)
    BY <2>7 DEF View
  <2>9. m \in 0..n - 1
    BY <1>2, <2>1, <2>2
  <2> QED
    BY <1>3, <2>5, <2>6, <2>8, <2>9 DEF Shows
<1>6. c \in [0..level -> 0..n - 1]
  <2>1. c \in [0..level -> 0..n]
    BY <1>1 DEF HSeen
  <2> QED
    BY <1>5, <2>1
<1>7. HSeen(q, c, h, level)
  BY <1>3, <1>5, <1>6 DEF HSeen
<1>8. HSnap(q, c, h, level) = HSnap(r, c, heap, level)
  BY <1>5 DEF HSnap
<1> QED
  BY <1>1, <1>7, <1>8

\* A step of BacktrackMap, on snapshots, or a stutter.
MapStep(s, s2) ==
    \/ \E k \in Key, d \in Data : Inserts(k, d, s, s2) \/ Assigns(k, d, s, s2)
    \/ s2 = [l \in 0..level |-> << >>] /\ level' = level
    \/ /\ level < MaxLevel /\ level' = level + 1
       /\ s2 = [l \in 0..level + 1 |-> IF l > level THEN s[level] ELSE s[l]]
    \/ level > 0 /\ level' = level - 1 /\ s2 = [l \in 0..level - 1 |-> s[l]]
    \/ s2 = s /\ level' = level

\* The ring, and how much of it each level saw, after a step.
HDone(r, c, q, c2) ==
    /\ HNext(q) /\ HSeen(q, c2, heap', level')
    /\ MapStep(HSnap(r, c, heap, level), HSnap(q, c2, heap', level'))

LEMMA NewElementDone ==
    ASSUME HConst, NEW r, NEW c, HNow(r), HSeen(r, c, heap, level), pc = "run",
           NEW k \in Key, NEW d \in Data, table[k] = Nil, H!NewElement(k, d),
           level' = level, garbage' = garbage, pc' = pc
    PROVE  \E q, c2 : HDone(r, c, q, c2)
<1>1. PICK a \in Addr : Added(r, k, d, a)
  BY NewElementKeeps
<1>2. PICK c2 : /\ HSeen(Append(r, a), c2, heap', level')
                /\ Inserts(k, d, HSnap(r, c, heap, level),
                           HSnap(Append(r, a), c2, heap', level'))
  BY <1>1, AddedSeen
<1>3. HNext(Append(r, a))
  BY <1>1 DEF Added
<1>4. MapStep(HSnap(r, c, heap, level), HSnap(Append(r, a), c2, heap', level'))
  BY <1>2, Zenon DEF MapStep
<1> QED
  BY <1>2, <1>3, <1>4 DEF HDone

LEMMA HStep ==
    ASSUME HConst, NEW r, NEW c, HNow(r), HSeen(r, c, heap, level), H!Next
    PROVE  \E q, c2 : HDone(r, c, q, c2)
<1>1. ASSUME NEW k \in Key, H!Index(k) PROVE \E q, c2 : HDone(r, c, q, c2)
  <2>1. /\ pc = "run" /\ table[k] = Nil /\ H!NewElement(k, Default) /\ Default \in Data
        /\ level' = level /\ garbage' = garbage /\ pc' = pc
    BY <1>1 DEF H!Index, HConst
  <2> QED
    BY <2>1, NewElementDone
<1>2. ASSUME NEW k \in Key, NEW d \in Data, H!Insert(k, d)
      PROVE  \E q, c2 : HDone(r, c, q, c2)
  <2>1. pc = "run" /\ level' = level /\ garbage' = garbage /\ pc' = pc
    BY <1>2 DEF H!Insert
  <2>2. CASE table[k] = Nil /\ H!NewElement(k, d)
    BY <2>1, <2>2, NewElementDone
  <2>3. CASE /\ table[k] # Nil
             /\ heap' = [heap EXCEPT ![table[k]] = H!Set(@, d)]
             /\ table' = table /\ first' = first
    <3>0. HNext(r) /\ AssignedIn(r, k, d)
      BY <2>1, <2>3, ElementAssigned
    <3>1. /\ HNext(r)
          /\ \E j \in 1..Len(r) :
                /\ heap[r[j]].key = k /\ heap'[r[j]].key = k /\ heap'[r[j]].data = d
                /\ VersionAt(heap'[r[j]], level) = heap'[r[j]] /\ heap'[r[j]].mapped = TRUE
                /\ \A l \in 0..level - 1 : SameAt(heap[r[j]], heap'[r[j]], l)
                /\ \A i \in 1..Len(r) : i # j => heap'[r[i]] = heap[r[i]]
      BY <3>0, Zenon DEF AssignedIn
    <3>2. /\ HSeen(r, c, heap', level')
          /\ Assigns(k, d, HSnap(r, c, heap, level), HSnap(r, c, heap', level'))
      BY <2>1, <3>1, AssignedSeen
    <3>3. MapStep(HSnap(r, c, heap, level), HSnap(r, c, heap', level'))
      BY <3>2, Zenon DEF MapStep
    <3> QED
      BY <3>1, <3>2, <3>3 DEF HDone
  <2> QED
    BY <1>2, <2>2, <2>3 DEF H!Insert
<1>3. CASE H!Clear
  <2>1. /\ pc = "run" /\ table' = [k \in Key |-> Nil] /\ first' = Nil
        /\ heap' = [a \in DOMAIN heap \ {table[k] : k \in Key} |-> heap[a]]
        /\ level' = level /\ garbage' = garbage /\ pc' = pc
    BY <1>3 DEF H!Clear
  <2>2. HNext(<< >>)
    BY <2>1, ElementsCleared
  <2>3. PICK c2 : /\ HSeen(<< >>, c2, heap', level')
                  /\ HSnap(<< >>, c2, heap', level') = [l \in 0..level' |-> << >>]
    BY ClearedSeen
  <2>4. HSnap(<< >>, c2, heap', level') = [l \in 0..level |-> << >>]
    BY <2>1, <2>3
  <2>5. MapStep(HSnap(r, c, heap, level), HSnap(<< >>, c2, heap', level'))
    BY <2>1, <2>4, Zenon DEF MapStep
  <2> QED
    BY <2>2, <2>3, <2>5 DEF HDone
<1>4. CASE H!Push
  <2>1. /\ table' = table /\ first' = first /\ heap' = heap /\ level' = level + 1
        /\ pc = "run" /\ level < MaxLevel
    BY <1>4 DEF H!Push
  <2>2. HNext(r)
    BY <1>4, <2>1, ElementsStay
  <2>3. PICK c2 : /\ HSeen(r, c2, heap, level')
                  /\ HSnap(r, c2, heap, level')
                       = [l \in 0..level + 1 |->
                            IF l > level THEN HSnap(r, c, heap, level)[level]
                            ELSE HSnap(r, c, heap, level)[l]]
    BY <2>1, PushSeen
  <2>4. MapStep(HSnap(r, c, heap, level), HSnap(r, c2, heap, level'))
    BY <2>1, <2>3, Zenon DEF MapStep
  <2> QED
    BY <2>1, <2>2, <2>3, <2>4 DEF HDone
<1>5. CASE H!Pop
  <2>1. /\ table' = table /\ first' = first /\ heap' = heap /\ level' = level - 1 /\ level > 0
    BY <1>5 DEF H!Pop
  <2>2. HNext(r)
    BY <1>5, <2>1, ElementsStay
  <2>3. PICK c2 : /\ HSeen(r, c2, heap, level')
                  /\ HSnap(r, c2, heap, level')
                       = [l \in 0..level - 1 |-> HSnap(r, c, heap, level)[l]]
    BY <2>1, PopSeen
  <2>4. MapStep(HSnap(r, c, heap, level), HSnap(r, c2, heap, level'))
    BY <2>1, <2>3, Zenon DEF MapStep
  <2> QED
    BY <2>1, <2>2, <2>3, <2>4 DEF HDone
<1>6. CASE H!PopDone
  <2>1. table' = table /\ first' = first /\ level' = level
    BY <1>6 DEF H!PopDone
  <2>2. HNext(r) /\ \A i \in 1..Len(r) : heap'[r[i]] = heap[r[i]]
    BY <1>6, <2>1, ElementsStay
  <2>3. \A l \in 0..level : Carried(r, heap, r, heap', l)
    <3>1. Len(r) \in Nat /\ \A i \in Len(r) + 1..Len(r) : FALSE
      BY Positions
    <3> QED
      BY <2>2, <3>1 DEF Carried, SameAt
  <2>4. /\ HSeen(r, c, heap', level)
        /\ HSnap(r, c, heap', level) = HSnap(r, c, heap, level)
    BY <2>3, Positions, NothingSeen
  <2>5. MapStep(HSnap(r, c, heap, level), HSnap(r, c, heap', level'))
    BY <2>1, <2>4, Zenon DEF MapStep
  <2> QED
    BY <2>1, <2>2, <2>4, <2>5 DEF HDone
<1>7. ASSUME NEW a \in DOMAIN heap, H!RestoreElement(a)
      PROVE  \E q, c2 : HDone(r, c, q, c2)
  <2>1. PICK j \in 1..Len(r) :
              /\ r[j] = a /\ pc = "restore" /\ InScope(heap[r[j]], level + 1)
              /\ level' = level /\ pc' = pc
              /\ \/ /\ ~LastCopy(heap[r[j]]).mapped
                    /\ H!Unlink(r[j]) /\ table' = [table EXCEPT ![heap[r[j]].key] = Nil]
                    /\ garbage' = garbage \cup {r[j]}
                 \/ /\ LastCopy(heap[r[j]]).mapped
                    /\ heap' = [heap EXCEPT ![r[j]] = RestoredElem(@)]
                    /\ table' = table /\ first' = first /\ garbage' = garbage
    BY <1>7, RestoreIs
  <2>2. CASE LastCopy(heap[r[j]]).mapped
    <3>1. /\ HNext(r)
          /\ \A i \in 1..Len(r) : /\ heap'[r[i]].key = heap[r[i]].key
                                  /\ \A l \in 0..level : SameAt(heap[r[i]], heap'[r[i]], l)
      BY <2>1, <2>2, ElementRestored
    <3>2. \A l \in 0..level : Carried(r, heap, r, heap', l)
      <4>1. Len(r) \in Nat /\ \A i \in Len(r) + 1..Len(r) : FALSE
        BY Positions
      <4> QED
        BY <3>1, <4>1 DEF Carried
    <3>3. /\ HSeen(r, c, heap', level)
          /\ HSnap(r, c, heap', level) = HSnap(r, c, heap, level)
      BY <3>2, Positions, NothingSeen
    <3>4. MapStep(HSnap(r, c, heap, level), HSnap(r, c, heap', level'))
      BY <2>1, <3>3, Zenon DEF MapStep
    <3> QED
      BY <2>1, <3>1, <3>3, <3>4 DEF HDone
  <2>3. CASE ~LastCopy(heap[r[j]]).mapped
    <3>1. /\ HNext(Without(r, j))
          /\ \A i \in 1..Len(r) : i # j => SameBody(heap[r[i]], heap'[r[i]])
          /\ \A l \in 0..level : VersionAt(heap[r[j]], l).mapped = FALSE
      BY <2>1, <2>3, ElementGone
    <3>2. /\ HSeen(Without(r, j), c, heap', level)
          /\ HSnap(Without(r, j), c, heap', level) = HSnap(r, c, heap, level)
      BY <3>1, GoneSeen
    <3>3. MapStep(HSnap(r, c, heap, level), HSnap(Without(r, j), c, heap', level'))
      BY <2>1, <3>2, Zenon DEF MapStep
    <3> QED
      BY <2>1, <3>1, <3>2, <3>3 DEF HDone
  <2> QED
    BY <2>2, <2>3
<1> QED
  BY <1>1, <1>2, <1>3, <1>4, <1>5, <1>6, <1>7 DEF H!Next

\* The invariant: a sequence that is the ring, and what each level saw of it.
HInv == \E r, c : HNow(r) /\ HSeen(r, c, heap, level)

\* What H!Map makes of a step of the snapshots.
LEMMA MapStepIs ==
    ASSUME MapStep(SnapOf(level, table, first, heap), SnapOf(level', table', first', heap'))
    PROVE  [H!Map!Next]_(H!Map!vars)
<1>1. PICK s, s2 : /\ s = SnapOf(level, table, first, heap)
                   /\ s2 = SnapOf(level', table', first', heap')
  OBVIOUS
<1>2. ASSUME NEW k \in Key, NEW d \in Data, Inserts(k, d, s, s2) PROVE H!Map!Next
  <2>1. k \notin H!Map!Keys(s[level])
    BY <1>2 DEF H!Map!Keys, Inserts, KeysIn
  <2>2. H!Map!Insert(k, d)
    BY <1>1, <1>2, <2>1, HSnapIs, HSnapIsNext DEF H!Map!Insert, Inserts
  <2> QED
    BY <2>2 DEF H!Map!Next
<1>3. ASSUME NEW k \in Key, NEW d \in Data, Assigns(k, d, s, s2) PROVE H!Map!Next
  <2>1. k \in H!Map!Keys(s[level])
    BY <1>3 DEF H!Map!Keys, Assigns, KeysIn
  <2>2. s2 = [s EXCEPT ![level] = H!Map!Altered(@, k, d)]
    BY <1>3 DEF Assigns, Altered, H!Map!Altered
  <2>3. H!Map!Assign(k, d)
    BY <1>1, <1>3, <2>1, <2>2, HSnapIs, HSnapIsNext DEF H!Map!Assign, Assigns
  <2> QED
    BY <2>3 DEF H!Map!Next
<1>4. CASE s2 = [l \in 0..level |-> << >>] /\ level' = level
  <2>1. H!Map!Clear
    BY <1>1, <1>4, HSnapIsNext DEF H!Map!Clear
  <2> QED
    BY <2>1 DEF H!Map!Next
<1>5. CASE /\ level < MaxLevel /\ level' = level + 1
           /\ s2 = [l \in 0..level + 1 |-> IF l > level THEN s[level] ELSE s[l]]
  <2>1. H!Map!Push
    BY <1>1, <1>5, HSnapIs, HSnapIsNext DEF H!Map!Push
  <2> QED
    BY <2>1 DEF H!Map!Next
<1>6. CASE level > 0 /\ level' = level - 1 /\ s2 = [l \in 0..level - 1 |-> s[l]]
  <2>1. H!Map!Pop
    BY <1>1, <1>6, HSnapIs, HSnapIsNext DEF H!Map!Pop
  <2> QED
    BY <2>1 DEF H!Map!Next
<1>7. CASE s2 = s /\ level' = level
  <2>1. UNCHANGED H!Map!vars
    BY <1>1, <1>7, HSnapIs, HSnapIsNext DEF H!Map!vars
  <2> QED
    BY <2>1
<1>8. MapStep(s, s2)
  BY <1>1
<1> QED
  BY <1>2, <1>3, <1>4, <1>5, <1>6, <1>7, <1>8, Zenon DEF MapStep

LEMMA HMapInit ==
    ASSUME HConst, H!Init PROVE HInv /\ H!Map!Init
<1>1. HNow(<< >>) /\ level = 0
  BY HInit DEF H!Init
<1>2. PICK c : /\ HSeen(<< >>, c, heap, level)
               /\ HSnap(<< >>, c, heap, level) = [l \in 0..level |-> << >>]
  BY ClearedSeen
<1>3. SnapOf(level, table, first, heap) = [l \in 0..level |-> << >>]
  BY <1>1, <1>2, SnapOfIs DEF HNow
<1>4. H!Map!Init
  BY <1>1, <1>3, HSnapIs DEF H!Map!Init
<1> QED
  BY <1>1, <1>2, <1>4 DEF HInv

LEMMA HInductive ==
    ASSUME HConst, HInv, [H!Next]_(H!vars) PROVE HInv' /\ [H!Map!Next]_(H!Map!vars)
<1>1. PICK r, c : HNow(r) /\ HSeen(r, c, heap, level)
  BY DEF HInv
<1>2. \E q, c2 : HDone(r, c, q, c2)
  <2>1. CASE H!Next
    BY <1>1, <2>1, HStep
  <2>2. CASE UNCHANGED H!vars
    <3>1. /\ level' = level /\ table' = table /\ first' = first /\ heap' = heap
          /\ garbage' = garbage /\ pc' = pc
      BY <2>2 DEF H!vars
    <3>2. HNext(r) /\ HSeen(r, c, heap', level')
      BY <1>1, <3>1 DEF HNow, HNext
    <3>3. MapStep(HSnap(r, c, heap, level), HSnap(r, c, heap', level'))
      <4>1. HSnap(r, c, heap', level') = HSnap(r, c, heap, level)
        BY <3>1
      <4> QED
        BY <3>1, <4>1, Zenon DEF MapStep
    <3> QED
      BY <3>2, <3>3 DEF HDone
  <2> QED
    BY <2>1, <2>2
<1>3. PICK q, c2 : HDone(r, c, q, c2)
  BY <1>2
<1>4. SnapOf(level, table, first, heap) = HSnap(r, c, heap, level)
  BY <1>1, SnapOfIs DEF HNow
<1>5. SnapOf(level', table', first', heap') = HSnap(q, c2, heap', level')
  <2>1. HNext(q) /\ HSeen(q, c2, heap', level')
    BY <1>3 DEF HDone
  <2> PICK lv, tb, fs, hp, gb, p : /\ lv = level' /\ tb = table' /\ fs = first' /\ hp = heap'
                                   /\ gb = garbage' /\ p = pc'
    OBVIOUS
  <2>2. HGood(q, tb, fs, hp, gb, lv, p) /\ HSeen(q, c2, hp, lv)
    BY <2>1 DEF HNext
  <2>3. SnapOf(lv, tb, fs, hp) = HSnap(q, c2, hp, lv)
    BY <2>2, SnapOfIs
  <2> QED
    BY <2>3
<1>6. [H!Map!Next]_(H!Map!vars)
  <2>1. MapStep(SnapOf(level, table, first, heap), SnapOf(level', table', first', heap'))
    BY <1>3, <1>4, <1>5 DEF HDone
  <2> QED
    BY <2>1, MapStepIs
<1>7. HInv'
  BY <1>3 DEF HDone, HInv, HNext, HNow
<1> QED
  BY <1>6, <1>7

LEMMA RingFromInv ==
    ASSUME HConst, HInv PROVE H!RingMatchesTable
<1>1. PICK r, c, n : HNow(r) /\ HSeen(r, c, heap, level) /\ n = Len(r)
  BY DEF HInv
<1>2. PICK tabled : tabled = H!InTable
  OBVIOUS
<1>5. /\ r \in Seq(Addr) /\ n \in Nat /\ DOMAIN r = 1..n
      /\ \A i \in 1..n : r[i] \in DOMAIN heap /\ r[i] # Nil
      /\ \A i, j \in 1..n : r[i] = r[j] => i = j
      /\ Ring(r, heap) /\ first = IF n = 0 THEN Nil ELSE r[1]
      /\ OfTable(r, table, heap) /\ OfHeap(r, heap, garbage, HTop(level, pc))
  BY <1>1, Positions DEF HNow, HGood
<1>3. tabled = {r[i] : i \in 1..n} /\ H!Cardinality(tabled) = n
  <2>1. tabled = First(r, n)
    BY <1>1, <1>2, InMapAtIs, TableIs DEF HNow, First
  <2>2. n \in 0..n
    BY <1>5
  <2>3. Cardinality(First(r, n)) = n
    BY <1>5, <2>2, FirstOnes
  <2> QED
    BY <2>1, <2>3, SameCardinality DEF First
<1>4. H!Walk(n) = [i \in 1..n |-> r[i]]
  <2>1. n \in 0..Len(r)
    BY <1>1, <1>5
  <2>2. WalkOf(first, heap, n) = [i \in 1..n |-> r[i]]
    BY <1>1, <2>1, WalkIs DEF HNow
  <2> QED
    BY <2>2, InMapAtIs
<1>6. tabled \subseteq DOMAIN heap
  BY <1>3, <1>5
<1>7. \A k \in Key : table[k] # Nil => heap[table[k]].key = k
  BY <1>5 DEF OfTable
<1>8. (first = Nil) = (tabled = {})
  <2>1. CASE n = 0
    BY <1>3, <1>5, <2>1
  <2>2. CASE n # 0
    <3>1. 1 \in 1..n
      BY <1>5, <2>2
    <3>2. r[1] \in tabled
      BY <1>3, <3>1
    <3>3. r[1] # Nil /\ first = r[1]
      BY <1>5, <2>2, <3>1
    <3> QED
      BY <3>2, <3>3
  <2> QED
    BY <2>1, <2>2
<1>9. ASSUME NEW a \in tabled
      PROVE  heap[a].next \in tabled /\ heap[heap[a].next].prev = a
  <2>1. PICK i \in 1..n : r[i] = a
    BY <1>3
  <2>2. heap[a].next = SuccIn(r, i) /\ heap[SuccIn(r, i)].prev = a
    BY <1>1, <1>5, <2>1 DEF Ring
  <2>3. \E m \in 1..n : SuccIn(r, i) = r[m]
    <3>1. 1 \in 1..n /\ (i # n => i + 1 \in 1..n)
      BY <1>5
    <3> QED
      BY <1>1, <3>1 DEF SuccIn
  <2> QED
    BY <1>3, <2>2, <2>3
<1>10. \A m \in Nat : H!ToSet([i \in 1..m |-> r[i]]) = {r[i] : i \in 1..m}
  BY DEF H!ToSet
<1>11. DOMAIN heap = tabled \cup garbage
  <2>1. garbage \subseteq DOMAIN heap
    BY <1>5 DEF OfHeap
  <2>2. ASSUME NEW a \in DOMAIN heap, a \notin garbage PROVE a \in tabled
    <3>1. PICK i \in 1..Len(r) : r[i] = a
      BY <1>5, <2>2 DEF OfHeap
    <3> QED
      BY <1>1, <1>3, <3>1
  <2> QED
    BY <1>6, <2>1, <2>2
<1>12. H!ToSet(H!Walk(H!Cardinality(tabled))) = tabled
  BY <1>3, <1>4, <1>5, <1>10
<1>13. ASSUME NEW l \in 0..level
       PROVE  H!ToSet(H!Walk(H!Cardinality(H!InMapAt(l)))) = H!InMapAt(l)
  <2>1. PICK m, A : m = c[l] /\ A = H!InMapAt(l)
    OBVIOUS
  <2>2. m \in 0..Len(r) /\ Shows(r, heap, l, m)
    BY <1>1, <2>1 DEF HSeen
  <2>3. /\ InMapOf(table, heap, l) = {r[i] : i \in 1..m}
        /\ Cardinality(InMapOf(table, heap, l)) = m
        /\ WalkOf(first, heap, m) = [i \in 1..m |-> r[i]]
    BY <1>1, <2>2, InMapIs DEF HNow
  <2>4. A = {r[i] : i \in 1..m} /\ Cardinality(A) = m /\ H!Walk(m) = [i \in 1..m |-> r[i]]
    BY <2>1, <2>3, InMapAtIs
  <2>5. m \in Nat
    BY <1>1, <1>5, <2>2
  <2> QED
    BY <1>10, <2>1, <2>4, <2>5, SameCardinality
<1>14. H!TypeOK
  BY <1>1, HTypes
<1>15. /\ H!InTable \subseteq DOMAIN heap
       /\ (first = Nil) = (H!InTable = {})
       /\ \A a \in H!InTable : heap[a].next \in H!InTable /\ heap[heap[a].next].prev = a
       /\ H!ToSet(H!Walk(H!Cardinality(H!InTable))) = H!InTable
       /\ DOMAIN heap = H!InTable \cup garbage
  BY <1>2, <1>6, <1>8, <1>9, <1>11, <1>12
<1> QED
  BY ONLY <1>7, <1>13, <1>14, <1>15, Zenon DEF H!RingMatchesTable

\* CDHashMap::insert, operator[], clear, ~CDOhash_map and CDOhash_map::restore keep the ring
\* of the elements equal to the table, also while a pop restores them one by one, and what a
\* lower level saw at the beginning of it.
THEOREM RingHolds ==
    HashMapSpec => []RingMatchesTable
<1>0. HConst
  BY HashMapAssumption DEF HConst
<1>1. H!Init => HInv
  BY <1>0, HMapInit
<1>2. HInv /\ [H!Next]_(H!vars) => HInv'
  BY <1>0, HInductive
<1>3. HInv => RingMatchesTable
  BY <1>0, RingFromInv DEF RingMatchesTable
<1> QED
  BY <1>1, <1>2, <1>3, PTL DEF HashMapSpec, H!Spec

\* A CDHashMap, whose elements save themselves one by one and whose ring is never saved,
\* implements a map with a full copy per level: CDOhash_map::restore brings back the contents
\* and the order of insertion of every level, whatever the order the elements are restored in.
THEOREM MapRefinement ==
    HashMapSpec => ImplementsMap
<1>0. HConst
  BY HashMapAssumption DEF HConst
<1>1. H!Init => HInv /\ H!Map!Init
  BY <1>0, HMapInit
<1>2. HInv /\ [H!Next]_(H!vars) => HInv' /\ [H!Map!Next]_(H!Map!vars)
  BY <1>0, HInductive
<1> QED
  BY <1>1, <1>2, PTL DEF HashMapSpec, ImplementsMap, H!Spec, H!ImplementsMap, H!Map!Spec
=============================================================================
