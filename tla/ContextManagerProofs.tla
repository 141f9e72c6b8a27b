------------------------ MODULE ContextManagerProofs ------------------------
(***************************************************************************)
(* The safety of ContextManager for any formulas, any nesting of scopes    *)
(* and any length of the assertion list: the Asserts about levels hold     *)
(* (AssertsHold), every open scope is accounted for (ScopesAccounted), an  *)
(* unsat answer is about formulas that are still asserted                  *)
(* (UnsatInForceUntilReset), and the scopes, with the assertions the user  *)
(* made in each, are the stack of AssertionStack (ImplementsStack).        *)
(***************************************************************************)
EXTENDS ContextManager, WellFoundedInduction, SequenceTheorems, TLAPS

-----------------------------------------------------------------------------
(* The inductive invariant.  Good is about the record of the engine, so    *)
(* that it can be followed through the calls a command makes.              *)

Version == [list : Seq(AnyFormula), index : Nat, defIndex : Nat]
Blank == [list |-> <<>>, index |-> 0, defIndex |-> 0]

Fields == {"incremental", "saved", "cur", "level", "assertionLevel", "decisions", "clauses",
           "pendingPops", "userLevels", "needPostsolve", "inited", "mode", "queryMade",
           "statusSolver", "checkedAssertions", "checkedLevel", "failed"}

Shape(e) == DOMAIN e = Fields /\ e = [f \in Fields |-> e[f]]

Typed(e) ==
    /\ Shape(e)
    /\ e.incremental \in BOOLEAN /\ e.needPostsolve \in BOOLEAN /\ e.inited \in BOOLEAN
    /\ e.queryMade \in BOOLEAN /\ e.statusSolver \in BOOLEAN
    /\ e.saved \in Seq(Version) /\ e.cur \in Version
    /\ e.level \in Nat /\ e.assertionLevel \in Nat /\ e.decisions \in 0..MaxDecisions
    /\ e.clauses \in SUBSET (AnyFormula \X Nat)
    /\ e.pendingPops \in Nat /\ e.userLevels \in Seq(Nat) /\ e.mode \in SmtMode
    /\ e.checkedAssertions \in 0..MaxList /\ e.checkedLevel \in Nat

\* The values of the user context at a level.
At(e, i) == IF i < UserLevel(e) THEN e.saved[i + 1] ELSE e.cur

\* How long a list is when the global definitions are added to it.
Weight(v, g) == Len(v.list) + Len(g) - v.defIndex

Fits(v, g) == v.index <= Len(v.list) /\ v.defIndex <= Len(g) /\ v.defIndex <= Len(v.list)
Before(v, w, g) == ToSet(v.list) \subseteq ToSet(w.list) /\ Weight(v, g) <= Weight(w, g)

Versions(e, g) ==
    /\ \A i \in 0..UserLevel(e) : Fits(At(e, i), g)
    /\ \A i, j \in 0..UserLevel(e) : i <= j => Before(At(e, i), At(e, j), g)
    /\ Weight(e.cur, g) <= MaxList

InForce(e) ==
    \A c \in e.clauses : /\ c[2] \in 0..UserLevel(e) - 1
                         /\ c[1] \in ToSet(At(e, c[2] + 1).list)

Unused(e) ==
    /\ e.saved = <<>> /\ e.cur = Blank /\ e.level = 0 /\ e.assertionLevel = 0
    /\ e.decisions = 0 /\ e.clauses = {} /\ e.pendingPops = 0 /\ ~e.needPostsolve

InStep(e) ==
    /\ e.saved # <<>> /\ e.saved[1] = Blank
    /\ e.assertionLevel = UserLevel(e) - 1
    /\ e.level = UserLevel(e) + e.decisions
    /\ e.decisions > 0 => e.needPostsolve
    /\ e.pendingPops \in 0..1 /\ e.pendingPops < UserLevel(e)
    /\ ~e.incremental => UserLevel(e) = 1

Good(e, g) ==
    /\ Typed(e) /\ Versions(e, g) /\ InForce(e)
    /\ IF e.inited THEN InStep(e) ELSE Unused(e)
    /\ e.failed \subseteq {"status solver"}

Exact(e) ==
    /\ IF e.inited THEN UserLevel(e) = 1 + Len(e.userLevels) + e.pendingPops
       ELSE e.userLevels = <<>>
    /\ \A i \in DOMAIN e.userLevels : e.userLevels[i] = i

Unsat(e, fs, reset) ==
    e.mode = "UNSAT" /\ ~e.statusSolver /\ ~reset => fs \subseteq ToSet(e.cur.list)

Done(e) ==
    /\ Typed(e) /\ e.level = 0 /\ e.saved = <<>> /\ e.cur = Blank
    /\ e.failed \subseteq {"status solver"}

IInv ==
    /\ run \in {"on", "thrown", "gone"}
    /\ run # "gone" => Good(eng, globals)
    /\ run = "on" => Exact(eng) /\ Unsat(eng, asked, answer.reset)
    /\ run = "gone" => Done(eng)
    /\ globals \in Seq(Definition) /\ asked \in SUBSET AnyFormula
    /\ answer \in [list : Seq(AnyFormula), reset : BOOLEAN]

-----------------------------------------------------------------------------
(* Sequences. *)

\* The elements of a sequence.
LEMMA Ranges ==
    ASSUME NEW S, NEW q \in Seq(S)
    PROVE  DOMAIN q = 1..Len(q) /\ Len(q) \in Nat /\ \A i \in 1..Len(q) : q[i] \in S
  OBVIOUS

\* What Append makes.
LEMMA Appending ==
    ASSUME NEW S, NEW q \in Seq(S), NEW e \in S, NEW r, r = Append(q, e)
    PROVE  /\ r \in Seq(S) /\ Len(r) = Len(q) + 1 /\ r # <<>>
           /\ \A i \in 1..Len(q) : r[i] = q[i]
           /\ r[Len(q) + 1] = e
  OBVIOUS

\* The last element of a sequence.
LEMMA LastIs ==
    ASSUME NEW S, NEW q \in Seq(S), q # <<>>
    PROVE  Last(q) = q[Len(q)] /\ Last(q) \in S /\ Len(q) \in Nat /\ Len(q) > 0
<1>1. Len(q) \in Nat /\ Len(q) # 0
  OBVIOUS
<1>2. Len(q) \in 1..Len(q)
  BY <1>1
<1>3. q[Len(q)] \in S
  BY <1>2
<1>4. Last(q) = q[Len(q)]
  BY DEF Last
<1> QED
  BY <1>1, <1>3, <1>4

\* The first element of a sequence.
LEMMA HeadIs ==
    ASSUME NEW S, NEW q \in Seq(S), q # <<>>
    PROVE  Head(q) = q[1]
  OBVIOUS

\* A sequence without its last element.
LEMMA FrontIs ==
    ASSUME NEW S, NEW q \in Seq(S), q # <<>>, NEW r, r = Front(q)
    PROVE  /\ r \in Seq(S) /\ Len(r) = Len(q) - 1
           /\ \A i \in 1..Len(q) - 1 : r[i] = q[i]
<1>1. r = SubSeq(q, 1, Len(q) - 1)
  BY DEF Front
<1>2. PICK cut \in Nat : cut = Len(q) - 1 /\ cut <= Len(q)
  <2>1. Len(q) \in Nat /\ Len(q) # 0
    OBVIOUS
  <2>2. Len(q) - 1 \in Nat /\ Len(q) - 1 <= Len(q)
    BY <2>1
  <2> QED
    BY <2>2
<1>3. r = SubSeq(q, 1, cut)
  BY <1>1, <1>2
<1>4. r \in Seq(S) /\ Len(r) = cut /\ \A i \in 1..cut : r[i] = q[i]
  BY <1>2, <1>3
<1> QED
  BY <1>2, <1>4

Joined(q, r) == q \o r

\* The formulas of two lists joined.
LEMMA JoinedSet ==
    ASSUME NEW S, NEW q \in Seq(S), NEW r \in Seq(S)
    PROVE  /\ Joined(q, r) \in Seq(S) /\ Len(Joined(q, r)) = Len(q) + Len(r)
           /\ ToSet(q) \subseteq ToSet(Joined(q, r)) /\ ToSet(r) \subseteq ToSet(Joined(q, r))
           /\ ToSet(Joined(q, r)) \subseteq ToSet(q) \union ToSet(r)
<1> DEFINE c == Joined(q, r)
<1>1. /\ Len(q) \in Nat /\ Len(r) \in Nat /\ c \in Seq(S) /\ Len(c) = Len(q) + Len(r)
      /\ DOMAIN q = 1..Len(q) /\ DOMAIN r = 1..Len(r) /\ DOMAIN c = 1..Len(q) + Len(r)
      /\ \A i \in 1..Len(q) : c[i] = q[i]
      /\ \A i \in 1..Len(r) : c[Len(q) + i] = r[i]
  BY DEF Joined

<1>2. ToSet(q) \subseteq ToSet(c)
  BY <1>1 DEF ToSet
<1>3. ToSet(r) \subseteq ToSet(c)
  <2>1. \A i \in 1..Len(r) : Len(q) + i \in 1..Len(q) + Len(r)
    BY <1>1
  <2> QED
    BY <1>1, <2>1 DEF ToSet
<1>4. ToSet(c) \subseteq ToSet(q) \union ToSet(r)
  <2>1. ASSUME NEW i \in 1..Len(q) + Len(r)
        PROVE  c[i] \in ToSet(q) \union ToSet(r)
    <3>1. CASE i <= Len(q)
      <4>1. i \in 1..Len(q)
        BY <1>1, <3>1
      <4> QED
        BY <1>1, <4>1 DEF ToSet
    <3>2. CASE i > Len(q)
      <4>1. i - Len(q) \in 1..Len(r) /\ Len(q) + (i - Len(q)) = i
        BY <1>1, <3>2
      <4> QED
        BY <1>1, <4>1 DEF ToSet
    <3> QED
      BY <1>1, <3>1, <3>2
  <2> QED
    BY <1>1, <2>1 DEF ToSet
<1> QED
  BY <1>1, <1>2, <1>3, <1>4

\* The part of a list that is new since an index was saved.
LEMMA Cut ==
    ASSUME NEW n \in Nat, NEW k \in Nat, k <= n,
           NEW m, m = IF k + 1 <= n THEN n - (k + 1) + 1 ELSE 0
    PROVE  /\ m = n - k
           /\ \A i \in 1..m : i \in 1..n - (k + 1) + 1 /\ k + 1 + i - 1 \in 1..n
<1>1. CASE k + 1 <= n
  BY <1>1
<1>2. CASE ~(k + 1 <= n)
  BY <1>2
<1> QED
  BY <1>1, <1>2

\* A list from an index on has formulas of the list only.
LEMMA PartFrom ==
    ASSUME NEW S, NEW q \in Seq(S), NEW k \in Nat, k <= Len(q), NEW r \in Seq(S),
           Len(r) = IF k + 1 <= Len(q) THEN Len(q) - (k + 1) + 1 ELSE 0,
           \A i \in 1..Len(q) - (k + 1) + 1 : r[i] = q[k + 1 + i - 1]
    PROVE  Len(r) = Len(q) - k /\ ToSet(r) \subseteq ToSet(q)
<1>1. Len(q) \in Nat /\ DOMAIN q = 1..Len(q) /\ DOMAIN r = 1..Len(r)
  OBVIOUS
<1>2. /\ Len(r) = Len(q) - k
      /\ \A i \in 1..Len(r) : i \in 1..Len(q) - (k + 1) + 1 /\ k + 1 + i - 1 \in 1..Len(q)
  BY <1>1, Cut
<1>3. \A i \in 1..Len(r) : \E j \in 1..Len(q) : r[i] = q[j]
  BY <1>2
<1>4. ToSet(r) \subseteq ToSet(q)
  BY ONLY <1>1, <1>3, Zenon DEF ToSet
<1> QED
  BY <1>2, <1>4

\* The part of a list that was not seen before the index k.
LEMMA NewPart ==
    ASSUME NEW S, NEW q \in Seq(S), NEW k \in Nat, k <= Len(q),
           NEW r, r = SubSeq(q, k + 1, Len(q))
    PROVE  r \in Seq(S) /\ Len(r) = Len(q) - k /\ ToSet(r) \subseteq ToSet(q)
<1>1. Len(q) \in Nat
  OBVIOUS
<1>2. /\ k + 1 \in Int /\ Len(q) \in Int
      /\ \A i \in k + 1..Len(q) : i \in 1..Len(q)
  BY <1>1
<1>3. \A i \in k + 1..Len(q) : q[i] \in S
  BY <1>2
<1>4. /\ r \in Seq(S)
      /\ Len(r) = IF k + 1 <= Len(q) THEN Len(q) - (k + 1) + 1 ELSE 0
      /\ \A i \in 1..Len(q) - (k + 1) + 1 : r[i] = q[k + 1 + i - 1]
  BY <1>2, <1>3, SubSeqProperties
<1>5. q \in Seq(S) /\ k \in Nat /\ k <= Len(q)
  OBVIOUS
<1> QED
  BY ONLY <1>4, <1>5, PartFrom, ZenonT(60)

\* The elements of a sequence are in its type.
LEMMA OfSet ==
    ASSUME NEW S, NEW q \in Seq(S)
    PROVE  ToSet(q) \subseteq S
  BY DEF ToSet

-----------------------------------------------------------------------------
(* Induction over the natural numbers, for what a command repeats. *)

\* Induction over the natural numbers, for sets.
LEMMA Counting ==
    ASSUME NEW S, 0 \in S, \A n \in Nat : n \in S => n + 1 \in S
    PROVE  Nat \subseteq S
<1> SUFFICES ASSUME Nat \ S # {}
             PROVE  FALSE
  OBVIOUS
<1>1. PICK m \in Nat \ S : \A n \in Nat \ S : ~(<<n, m>> \in OpToRel(<, Nat))
  BY NatLessThanWellFounded, WFMin
<1>2. \A n \in Nat \ S : ~(n < m)
  BY <1>1 DEF OpToRel
<1>3. m # 0 /\ m - 1 \in Nat /\ m - 1 < m /\ m - 1 + 1 = m
  OBVIOUS
<1>4. m - 1 \in S
  BY <1>2, <1>3
<1> QED
  BY <1>3, <1>4

-----------------------------------------------------------------------------
(* What each call changes of the engine.                                   *)

\* What the calls that move between scopes leave alone.
Rest(e, r) ==
    /\ Shape(r)
    /\ r.incremental = e.incremental /\ r.queryMade = e.queryMade
    /\ r.statusSolver = e.statusSolver /\ r.checkedAssertions = e.checkedAssertions
    /\ r.checkedLevel = e.checkedLevel

\* The SAT solver's part.
SameSat(e, r) ==
    /\ r.assertionLevel = e.assertionLevel /\ r.decisions = e.decisions
    /\ r.clauses = e.clauses

\* The user context's part.
SameUser(e, r) == r.saved = e.saved /\ r.cur = e.cur

\* The flags of the engine.
SameFlags(e, r) ==
    /\ r.pendingPops = e.pendingPops /\ r.userLevels = e.userLevels
    /\ r.needPostsolve = e.needPostsolve /\ r.inited = e.inited

\* An Assert that holds records nothing.
LEMMA CheckHolds ==
    ASSUME NEW e, NEW c, NEW name, c
    PROVE  Check(e, name, c) = e
  BY Zenon DEF Check

\* What UserPush assigns and what it leaves.
LEMMA UserPushFields ==
    ASSUME NEW e, Shape(e), NEW r, r = UserPushContext(e)
    PROVE  /\ Rest(e, r) /\ SameSat(e, r) /\ SameFlags(e, r)
           /\ r.saved = Append(e.saved, e.cur) /\ r.cur = e.cur
           /\ r.level = e.level /\ r.mode = e.mode /\ r.failed = e.failed
  BY DEF UserPushContext, Shape, Fields, Rest, SameSat, SameFlags

\* What UserPop assigns and what it leaves.
LEMMA UserPopFields ==
    ASSUME NEW e, Shape(e), e.saved # <<>>, NEW r, r = UserPopContext(e)
    PROVE  /\ Rest(e, r) /\ SameSat(e, r) /\ SameFlags(e, r)
           /\ r.saved = Front(e.saved) /\ r.cur = Last(e.saved)
           /\ r.level = e.level /\ r.mode = e.mode /\ r.failed = e.failed
<1>1. r = [e EXCEPT !.cur = Last(e.saved), !.saved = Front(@)]
  BY Zenon DEF UserPopContext
<1> QED
  BY <1>1 DEF Shape, Fields, Rest, SameSat, SameFlags

\* What SatPush assigns and what it leaves.
LEMMA SatPushFields ==
    ASSUME NEW e, Shape(e), e.decisions = 0, NEW r, r = SatPush(e)
    PROVE  /\ Rest(e, r) /\ SameUser(e, r) /\ SameFlags(e, r)
           /\ r.assertionLevel = e.assertionLevel + 1 /\ r.decisions = e.decisions
           /\ r.clauses = e.clauses
           /\ r.level = e.level + 1 /\ r.mode = e.mode /\ r.failed = e.failed
<1>1. Check(e, "sat push", e.decisions = 0) = e
  BY Zenon DEF Check
<1>2. r = [e EXCEPT !.assertionLevel = @ + 1, !.level = @ + 1]
  BY <1>1, Zenon DEF SatPush
<1> QED
  BY <1>2 DEF Shape, Fields, Rest, SameUser, SameFlags

\* What SatPop assigns and what it leaves.
LEMMA SatPopFields ==
    ASSUME NEW e, Shape(e), e.decisions = 0, NEW r, r = SatPop(e)
    PROVE  /\ Rest(e, r) /\ SameUser(e, r) /\ SameFlags(e, r)
           /\ r.assertionLevel = e.assertionLevel - 1 /\ r.decisions = e.decisions
           /\ r.clauses = {c \in e.clauses : c[2] < e.assertionLevel}
           /\ r.level = e.level - 1 /\ r.mode = e.mode /\ r.failed = e.failed
<1>1. Check(e, "sat pop", e.decisions = 0) = e
  BY Zenon DEF Check
<1>2. r = [e EXCEPT !.assertionLevel = @ - 1, !.level = @ - 1,
                    !.clauses = {c \in @ : c[2] < e.assertionLevel}]
  BY <1>1, Zenon DEF SatPop
<1> QED
  BY <1>2 DEF Shape, Fields, Rest, SameUser, SameFlags

\* The trail is reset after a search, once.
LEMMA PostsolveFields ==
    ASSUME NEW e, Shape(e), NEW r,
           r = IF e.needPostsolve THEN [ResetTrail(e) EXCEPT !.needPostsolve = FALSE] ELSE e
    PROVE  IF e.needPostsolve
           THEN /\ Rest(e, r) /\ SameUser(e, r)
                /\ r.pendingPops = e.pendingPops /\ r.userLevels = e.userLevels
                /\ ~r.needPostsolve /\ r.inited = e.inited
                /\ r.assertionLevel = e.assertionLevel /\ r.decisions = 0
                /\ r.clauses = e.clauses /\ r.level = e.level - e.decisions
                /\ r.mode = e.mode /\ r.failed = e.failed
                /\ r.needPostsolve \in BOOLEAN
           ELSE r = e
<1>1. CASE e.needPostsolve
  <2>1. PICK b \in BOOLEAN : b = FALSE
    BY Zenon
  <2>2. r = [[e EXCEPT !.level = @ - e.decisions, !.decisions = 0] EXCEPT !.needPostsolve = b]
    BY <1>1, <2>1, Zenon DEF ResetTrail
  <2>3. PICK x : x = [e EXCEPT !.level = @ - e.decisions, !.decisions = 0]
    OBVIOUS
  <2>4. r = [x EXCEPT !.needPostsolve = b]
    BY <2>2, <2>3, Zenon
  <2>5. /\ Rest(e, x) /\ SameUser(e, x) /\ SameFlags(e, x)
        /\ x.assertionLevel = e.assertionLevel /\ x.decisions = 0
        /\ x.clauses = e.clauses /\ x.level = e.level - e.decisions
        /\ x.mode = e.mode /\ x.failed = e.failed
    BY ONLY <2>3, Shape(e) DEF Shape, Fields, Rest, SameUser, SameFlags
  <2>6. Shape(x)
    BY <2>5 DEF Rest
  <2>7. /\ Rest(x, r) /\ SameUser(x, r)
        /\ r.pendingPops = x.pendingPops /\ r.userLevels = x.userLevels
        /\ r.needPostsolve = b /\ r.inited = x.inited
        /\ r.assertionLevel = x.assertionLevel /\ r.decisions = x.decisions
        /\ r.clauses = x.clauses /\ r.level = x.level
        /\ r.mode = x.mode /\ r.failed = x.failed
    BY ONLY <2>4, <2>6 DEF Shape, Fields, Rest, SameUser
  <2>8. ~r.needPostsolve /\ r.needPostsolve \in BOOLEAN
    BY <2>1, <2>7, Zenon
  <2>9. Rest(e, r) /\ SameUser(e, r)
    BY ONLY <2>5, <2>7 DEF Rest, SameUser
  <2>10. /\ r.pendingPops = e.pendingPops /\ r.userLevels = e.userLevels
         /\ r.inited = e.inited
         /\ r.assertionLevel = e.assertionLevel /\ r.decisions = 0
         /\ r.clauses = e.clauses /\ r.level = e.level - e.decisions
         /\ r.mode = e.mode /\ r.failed = e.failed
    BY ONLY <2>5, <2>7 DEF SameFlags
  <2> QED
    BY <1>1, <2>8, <2>9, <2>10, Zenon
<1>2. CASE ~e.needPostsolve
  BY <1>2, Zenon
<1> QED
  BY <1>1, <1>2, Zenon

\* What Mode assigns and what it leaves.
LEMMA ModeFields ==
    ASSUME NEW e, Shape(e), NEW m, NEW r, r = [e EXCEPT !.mode = m]
    PROVE  /\ Rest(e, r) /\ SameUser(e, r) /\ SameSat(e, r) /\ SameFlags(e, r)
           /\ r.level = e.level /\ r.mode = m /\ r.failed = e.failed
  BY DEF Shape, Fields, Rest, SameUser, SameSat, SameFlags

\* What Pending assigns and what it leaves.
LEMMA PendingFields ==
    ASSUME NEW e, Shape(e), NEW n, NEW r, r = [e EXCEPT !.pendingPops = n]
    PROVE  /\ Rest(e, r) /\ SameUser(e, r) /\ SameSat(e, r)
           /\ r.pendingPops = n /\ r.userLevels = e.userLevels
           /\ r.needPostsolve = e.needPostsolve /\ r.inited = e.inited
           /\ r.level = e.level /\ r.mode = e.mode /\ r.failed = e.failed
  BY DEF Shape, Fields, Rest, SameUser, SameSat

\* What PopPending assigns and what it leaves.
LEMMA PopPendingFields ==
    ASSUME NEW e, Shape(e), e.decisions = 0, e.saved # <<>>, NEW r, r = PopPending(e)
    PROVE  /\ Rest(e, r)
           /\ r.saved = Front(e.saved) /\ r.cur = Last(e.saved)
           /\ r.assertionLevel = e.assertionLevel - 1 /\ r.level = e.level - 1
           /\ r.decisions = e.decisions
           /\ r.clauses = {c \in e.clauses : c[2] < e.assertionLevel}
           /\ r.pendingPops = e.pendingPops - 1 /\ r.userLevels = e.userLevels
           /\ r.needPostsolve = e.needPostsolve /\ r.inited = e.inited
           /\ r.mode = IF e.mode = "UNSAT" THEN "ASSERT" ELSE e.mode
           /\ r.failed = e.failed
<1>1. PICK x : x = SatPop(e)
  OBVIOUS
<1>2. /\ Rest(e, x) /\ SameUser(e, x) /\ SameFlags(e, x)
      /\ x.assertionLevel = e.assertionLevel - 1 /\ x.decisions = e.decisions
      /\ x.clauses = {c \in e.clauses : c[2] < e.assertionLevel}
      /\ x.level = e.level - 1 /\ x.mode = e.mode /\ x.failed = e.failed
  BY <1>1, SatPopFields, Zenon
<1>3. Shape(x) /\ x.saved # <<>> /\ x.saved = e.saved
  BY <1>2, Zenon DEF Rest, SameUser
<1>4. PICK y : y = UserPopContext(x)
  OBVIOUS
<1>5. /\ Rest(x, y) /\ SameSat(x, y) /\ SameFlags(x, y)
      /\ y.saved = Front(x.saved) /\ y.cur = Last(x.saved)
      /\ y.level = x.level /\ y.mode = x.mode /\ y.failed = x.failed
  BY <1>3, <1>4, UserPopFields, Zenon
<1>6. Shape(y)
  BY <1>5, Zenon DEF Rest
<1>7. PICK z : z = [y EXCEPT !.pendingPops = @ - 1]
  OBVIOUS
<1>8. PICK n : n = y.pendingPops - 1
  OBVIOUS
<1>9. /\ Rest(y, z) /\ SameUser(y, z) /\ SameSat(y, z)
      /\ z.pendingPops = y.pendingPops - 1 /\ z.userLevels = y.userLevels
      /\ z.needPostsolve = y.needPostsolve /\ z.inited = y.inited
      /\ z.level = y.level /\ z.mode = y.mode /\ z.failed = y.failed
  <2>1. z = [y EXCEPT !.pendingPops = n]
    BY <1>7, <1>8, Zenon
  <2>2. /\ Rest(y, z) /\ SameUser(y, z) /\ SameSat(y, z)
        /\ z.pendingPops = n /\ z.userLevels = y.userLevels
        /\ z.needPostsolve = y.needPostsolve /\ z.inited = y.inited
        /\ z.level = y.level /\ z.mode = y.mode /\ z.failed = y.failed
    BY ONLY <1>6, <2>1 DEF Shape, Fields, Rest, SameUser, SameSat
  <2> QED
    BY <1>8, <2>2, Zenon
<1>10. Shape(z)
  BY <1>9, Zenon DEF Rest
<1>11. r = NotifyPendingPop(z)
  BY <1>1, <1>4, <1>7, Zenon DEF PopPending
<1>12. /\ Rest(z, r) /\ SameUser(z, r) /\ SameSat(z, r) /\ SameFlags(z, r)
       /\ r.level = z.level /\ r.failed = z.failed
       /\ r.mode = IF z.mode = "UNSAT" THEN "ASSERT" ELSE z.mode
  <2>1. CASE z.mode = "UNSAT"
    <3>1. r = [z EXCEPT !.mode = "ASSERT"]
      BY <1>11, <2>1, Zenon DEF NotifyPendingPop
    <3>2. /\ Rest(z, r) /\ SameUser(z, r) /\ SameSat(z, r) /\ SameFlags(z, r)
          /\ r.level = z.level /\ r.mode = "ASSERT" /\ r.failed = z.failed
      BY ONLY <1>10, <3>1 DEF Shape, Fields, Rest, SameUser, SameSat, SameFlags
    <3> QED
      BY <2>1, <3>2, Zenon
  <2>2. CASE z.mode # "UNSAT"
    <3>1. r = z
      BY <1>11, <2>2, Zenon DEF NotifyPendingPop
    <3> QED
      BY <1>10, <2>2, <3>1, Zenon DEF Rest, SameUser, SameSat, SameFlags
  <2> QED
    BY <2>1, <2>2
<1>13. Rest(e, r)
  BY ONLY <1>2, <1>5, <1>9, <1>12 DEF Rest
<1>14. /\ r.saved = Front(e.saved) /\ r.cur = Last(e.saved)
       /\ r.assertionLevel = e.assertionLevel - 1 /\ r.level = e.level - 1
       /\ r.decisions = e.decisions
       /\ r.clauses = {c \in e.clauses : c[2] < e.assertionLevel}
  BY ONLY <1>2, <1>3, <1>5, <1>9, <1>12, Zenon DEF SameUser, SameSat
<1>15. /\ r.pendingPops = e.pendingPops - 1 /\ r.userLevels = e.userLevels
       /\ r.needPostsolve = e.needPostsolve /\ r.inited = e.inited
       /\ r.mode = IF e.mode = "UNSAT" THEN "ASSERT" ELSE e.mode
       /\ r.failed = e.failed
  BY ONLY <1>2, <1>5, <1>9, <1>12, Zenon DEF SameFlags
<1> QED
  BY <1>13, <1>14, <1>15, Zenon

\* What AddFormulas assigns and what it leaves.
LEMMA AddFormulasFields ==
    ASSUME NEW e, Typed(e), NEW fs, NEW r, r = AddFormulas(e, fs)
    PROVE  /\ Rest(e, r) /\ SameSat(e, r) /\ SameFlags(e, r)
           /\ r.saved = e.saved /\ r.level = e.level /\ r.mode = e.mode
           /\ r.failed = e.failed
           /\ r.cur = [list |-> e.cur.list \o fs, index |-> e.cur.index,
                       defIndex |-> e.cur.defIndex]
<1>1. e.cur \in Version /\ Shape(e)
  BY DEF Typed
<1>2. PICK w : w = e.cur.list \o fs
  OBVIOUS
<1>3. r = [e EXCEPT !.cur.list = w]
  BY <1>2, Zenon DEF AddFormulas
<1>4. /\ Rest(e, r) /\ SameSat(e, r) /\ SameFlags(e, r)
      /\ r.saved = e.saved /\ r.level = e.level /\ r.mode = e.mode
      /\ r.failed = e.failed
      /\ r.cur = [e.cur EXCEPT !.list = w]
  BY ONLY <1>1, <1>3 DEF Shape, Fields, Rest, SameSat, SameFlags
<1>5. r.cur = [list |-> w, index |-> e.cur.index, defIndex |-> e.cur.defIndex]
  BY ONLY <1>1, <1>4 DEF Version
<1> QED
  BY <1>2, <1>4, <1>5, Zenon

\* What RefreshDefinitions assigns and what it leaves.
LEMMA RefreshDefinitionsFields ==
    ASSUME NEW e, Typed(e), NEW r, r = RefreshDefinitions(e)
    PROVE  /\ Rest(e, r) /\ SameSat(e, r) /\ SameFlags(e, r)
           /\ r.saved = e.saved /\ r.level = e.level /\ r.mode = e.mode
           /\ r.failed = e.failed
           /\ r.cur = [list |-> e.cur.list
                                  \o SubSeq(globals, e.cur.defIndex + 1, Len(globals)),
                       index |-> e.cur.index, defIndex |-> Len(globals)]
<1>1. PICK fs : fs = SubSeq(globals, e.cur.defIndex + 1, Len(globals))
  OBVIOUS
<1>2. PICK n : n = Len(globals)
  OBVIOUS
<1>3. PICK x : x = AddFormulas(e, fs)
  OBVIOUS
<1>4. /\ Rest(e, x) /\ SameSat(e, x) /\ SameFlags(e, x)
      /\ x.saved = e.saved /\ x.level = e.level /\ x.mode = e.mode
      /\ x.failed = e.failed
      /\ x.cur = [list |-> e.cur.list \o fs, index |-> e.cur.index,
                  defIndex |-> e.cur.defIndex]
  BY <1>3, AddFormulasFields, Zenon
<1>5. r = [x EXCEPT !.cur.defIndex = n]
  BY <1>1, <1>2, <1>3, Zenon DEF RefreshDefinitions
<1>6. PICK w : w = e.cur.list \o fs
  OBVIOUS
<1>7. x.cur = [list |-> w, index |-> e.cur.index, defIndex |-> e.cur.defIndex] /\ Shape(x)
  BY <1>4, <1>6, Zenon DEF Rest
<1>8. /\ Rest(x, r) /\ SameSat(x, r) /\ SameFlags(x, r)
      /\ r.saved = x.saved /\ r.level = x.level /\ r.mode = x.mode
      /\ r.failed = x.failed
      /\ r.cur = [x.cur EXCEPT !.defIndex = n]
  BY ONLY <1>5, <1>7 DEF Shape, Fields, Rest, SameSat, SameFlags
<1>9. r.cur = [list |-> w, index |-> e.cur.index, defIndex |-> n]
  BY ONLY <1>7, <1>8
<1>10. Rest(e, r) /\ SameSat(e, r) /\ SameFlags(e, r)
  BY ONLY <1>4, <1>8, Zenon DEF Rest, SameSat, SameFlags
<1> QED
  BY <1>1, <1>2, <1>4, <1>6, <1>8, <1>9, <1>10, Zenon

\* What AssertNew assigns and what it leaves.
LEMMA AssertNewFields ==
    ASSUME NEW e, Typed(e), NEW r, r = AssertNew(e)
    PROVE  /\ Rest(e, r) /\ SameFlags(e, r)
           /\ r.saved = e.saved /\ r.level = e.level /\ r.mode = e.mode
           /\ r.failed = e.failed
           /\ r.cur = [list |-> e.cur.list, index |-> Len(e.cur.list),
                       defIndex |-> e.cur.defIndex]
           /\ r.assertionLevel = e.assertionLevel /\ r.decisions = e.decisions
           /\ r.clauses = e.clauses \union
                  (ToSet(SubSeq(e.cur.list, e.cur.index + 1, Len(e.cur.list)))
                       \X {e.assertionLevel})
<1>1. e.cur \in Version /\ Shape(e)
  BY DEF Typed
<1>2. PICK new : new = ToSet(SubSeq(e.cur.list, e.cur.index + 1, Len(e.cur.list)))
                           \X {e.assertionLevel}
  OBVIOUS
<1>3. PICK n : n = Len(e.cur.list)
  OBVIOUS
<1>4. r = [e EXCEPT !.clauses = e.clauses \union new, !.cur.index = n]
  BY <1>2, <1>3, Zenon DEF AssertNew
<1>5. /\ Rest(e, r) /\ SameFlags(e, r)
      /\ r.saved = e.saved /\ r.level = e.level /\ r.mode = e.mode
      /\ r.failed = e.failed /\ r.cur = [e.cur EXCEPT !.index = n]
      /\ r.assertionLevel = e.assertionLevel /\ r.decisions = e.decisions
      /\ r.clauses = e.clauses \union new
  BY ONLY <1>1, <1>4 DEF Shape, Fields, Rest, SameFlags
<1>6. r.cur = [list |-> e.cur.list, index |-> n, defIndex |-> e.cur.defIndex]
  BY ONLY <1>1, <1>5 DEF Version
<1> QED
  BY <1>2, <1>3, <1>5, <1>6, Zenon

-----------------------------------------------------------------------------
(* The values the user context keeps, level by level.                      *)

Kept(e) == e.saved \in Seq(Version) /\ e.cur \in Version

\* The list in force at each level: the saved ones below, the current one on top.
LEMMA AtIs ==
    ASSUME NEW e, Kept(e)
    PROVE  /\ UserLevel(e) \in Nat /\ At(e, UserLevel(e)) = e.cur
           /\ \A i \in 0..UserLevel(e) : At(e, i) \in Version
           /\ \A i \in 0..UserLevel(e) : i < UserLevel(e) => At(e, i) = e.saved[i + 1]
<1>1. e.saved \in Seq(Version) /\ e.cur \in Version
  BY DEF Kept
<1>2. /\ UserLevel(e) \in Nat /\ At(e, UserLevel(e)) = e.cur
      /\ \A i \in 0..UserLevel(e) : i < UserLevel(e) => At(e, i) = e.saved[i + 1]
  BY ONLY <1>1 DEF UserLevel, At
<1>3. ASSUME NEW i \in 0..UserLevel(e)
      PROVE  At(e, i) \in Version
  <2>1. CASE i < UserLevel(e)
    BY ONLY <1>1, <1>2, <1>3, <2>1 DEF UserLevel
  <2>2. CASE ~(i < UserLevel(e))
    BY ONLY <1>1, <2>2 DEF At
  <2> QED
    BY <2>1, <2>2
<1> QED
  BY <1>2, <1>3

\* A user pop leaves the lists of the levels below.
LEMMA PopAt ==
    ASSUME NEW e, Kept(e), e.saved # <<>>, NEW r,
           r.saved = Front(e.saved), r.cur = Last(e.saved)
    PROVE  /\ Kept(r) /\ UserLevel(r) = UserLevel(e) - 1
           /\ \A i \in 0..UserLevel(r) : At(r, i) = At(e, i)
<1>1. PICK q : q \in Seq(Version) /\ q = e.saved /\ q # <<>>
  BY DEF Kept
<1>2. PICK p : p = Front(q)
  OBVIOUS
<1>3. PICK l : l = Last(q)
  OBVIOUS
<1>4. r.saved = p /\ r.cur = l
  BY ONLY <1>1, <1>2, <1>3, r.saved = Front(e.saved), r.cur = Last(e.saved), Zenon
<1>5. p \in Seq(Version) /\ Len(p) = Len(q) - 1 /\ \A i \in 1..Len(q) - 1 : p[i] = q[i]
  BY ONLY <1>1, <1>2, FrontIs
<1>6. l = q[Len(q)] /\ l \in Version /\ Len(q) \in Nat /\ Len(q) > 0
  BY ONLY <1>1, <1>3, LastIs, Zenon
<1>7. Kept(r) /\ UserLevel(r) = UserLevel(e) - 1
  BY ONLY <1>1, <1>4, <1>5, <1>6 DEF Kept, UserLevel
<1>8. ASSUME NEW i \in 0..UserLevel(r)
      PROVE  At(r, i) = At(e, i)
  <2>1. UserLevel(e) = Len(q) /\ UserLevel(r) = Len(p)
    BY ONLY <1>1, <1>4, Zenon DEF UserLevel
  <2>2. CASE i < Len(p)
    <3>1. i < Len(q) /\ i + 1 \in 1..Len(q) - 1
      BY ONLY <1>5, <1>6, <1>8, <2>1, <2>2
    <3>2. At(r, i) = p[i + 1]
      BY ONLY <1>4, <2>1, <2>2, Zenon DEF At
    <3>3. At(e, i) = q[i + 1]
      BY ONLY <1>1, <2>1, <3>1, Zenon DEF At
    <3> QED
      BY ONLY <1>5, <3>1, <3>2, <3>3, Zenon
  <2>3. CASE ~(i < Len(p))
    <3>1. i < Len(q) /\ i + 1 = Len(q)
      BY ONLY <1>5, <1>6, <1>8, <2>1, <2>3
    <3>2. At(r, i) = l
      BY ONLY <1>4, <2>1, <2>3, Zenon DEF At
    <3>3. At(e, i) = q[i + 1]
      BY ONLY <1>1, <2>1, <3>1, Zenon DEF At
    <3> QED
      BY ONLY <1>6, <3>1, <3>2, <3>3, Zenon
  <2> QED
    BY <2>2, <2>3, Zenon
<1> QED
  BY <1>7, <1>8, Zenon

\* A user push leaves the lists of the levels it had.
LEMMA PushAt ==
    ASSUME NEW e, Kept(e), NEW r, r.saved = Append(e.saved, e.cur), r.cur = e.cur
    PROVE  /\ Kept(r) /\ UserLevel(r) = UserLevel(e) + 1
           /\ \A i \in 0..UserLevel(e) : At(r, i) = At(e, i)
<1>1. PICK q : q \in Seq(Version) /\ q = e.saved
  BY DEF Kept
<1>2. PICK v : v \in Version /\ v = e.cur
  BY DEF Kept
<1>3. PICK p : p = Append(q, v)
  OBVIOUS
<1>4. r.saved = p /\ r.cur = v
  BY ONLY <1>1, <1>2, <1>3, r.saved = Append(e.saved, e.cur), r.cur = e.cur, Zenon
<1>5. /\ p \in Seq(Version) /\ Len(p) = Len(q) + 1 /\ p[Len(q) + 1] = v
      /\ \A i \in 1..Len(q) : p[i] = q[i]
  BY ONLY <1>1, <1>2, <1>3, Appending
<1>6. Kept(r) /\ UserLevel(r) = UserLevel(e) + 1
  BY ONLY <1>1, <1>4, <1>5 DEF Kept, UserLevel
<1>7. UserLevel(e) = Len(q) /\ UserLevel(r) = Len(p) /\ Len(q) \in Nat
  BY ONLY <1>1, <1>4 DEF UserLevel
<1>8. ASSUME NEW i \in 0..UserLevel(e)
      PROVE  At(r, i) = At(e, i)
  <2>1. i < Len(p)
    BY ONLY <1>5, <1>7, <1>8
  <2>2. At(r, i) = p[i + 1]
    BY ONLY <1>4, <1>7, <2>1, Zenon DEF At
  <2>3. CASE i < Len(q)
    <3>1. i + 1 \in 1..Len(q)
      BY ONLY <1>7, <1>8, <2>3
    <3>2. At(e, i) = q[i + 1]
      BY ONLY <1>1, <1>7, <2>3, Zenon DEF At
    <3> QED
      BY ONLY <1>5, <2>2, <3>1, <3>2, Zenon
  <2>4. CASE ~(i < Len(q))
    <3>1. i + 1 = Len(q) + 1
      BY ONLY <1>7, <1>8, <2>4
    <3>2. At(e, i) = v
      BY ONLY <1>1, <1>2, <1>7, <2>4, Zenon DEF At
    <3> QED
      BY ONLY <1>5, <2>2, <3>1, <3>2, Zenon
  <2> QED
    BY <2>3, <2>4, Zenon
<1> QED
  BY <1>6, <1>8, Zenon

\* The version in use is replaced.
LEMMA VersionReplaced ==
    ASSUME NEW e, Kept(e), NEW r, r.saved = e.saved, r.cur \in Version
    PROVE  /\ Kept(r) /\ UserLevel(r) = UserLevel(e)
           /\ \A i \in 0..UserLevel(e) : i < UserLevel(e) => At(r, i) = At(e, i)
<1>1. e.saved \in Seq(Version) /\ r.saved = e.saved
  BY DEF Kept
<1>2. Kept(r) /\ UserLevel(r) = UserLevel(e)
  BY <1>1, Zenon DEF Kept, UserLevel
<1>3. \A i \in 0..UserLevel(e) : i < UserLevel(e) => At(r, i) = At(e, i)
  <2> TAKE i \in 0..UserLevel(e)
  <2>1. CASE i < UserLevel(e)
    BY ONLY <1>1, <1>2, <2>1, Zenon DEF At
  <2>2. CASE ~(i < UserLevel(e))
    BY <2>2, Zenon
  <2> QED
    BY <2>1, <2>2, Zenon
<1> QED
  BY ONLY <1>2, <1>3

\* The weight of a list is an integer.
LEMMA Weights ==
    ASSUME NEW g \in Seq(Definition), NEW v \in Version
    PROVE  Weight(v, g) \in Int /\ Before(v, v, g)
<1>1. Len(g) \in Nat /\ Len(v.list) \in Nat /\ v.defIndex \in Nat
  BY DEF Version
<1>2. Weight(v, g) \in Int
  BY ONLY <1>1 DEF Weight
<1> QED
  BY <1>2 DEF Before

\* Lists grow in steps.
LEMMA BeforeTransitive ==
    ASSUME NEW g \in Seq(Definition), NEW u \in Version, NEW v \in Version, NEW w \in Version,
           Before(u, v, g), Before(v, w, g)
    PROVE  Before(u, w, g)
<1>1. Weight(u, g) \in Int /\ Weight(v, g) \in Int /\ Weight(w, g) \in Int
  BY Weights
<1>2. Weight(u, g) <= Weight(v, g) /\ Weight(v, g) <= Weight(w, g)
  BY Zenon DEF Before
<1>3. Weight(u, g) <= Weight(w, g)
  BY ONLY <1>1, <1>2
<1>4. ToSet(u.list) \subseteq ToSet(w.list)
  BY Zenon DEF Before
<1> QED
  BY <1>3, <1>4, Zenon DEF Before

\* The saved lists stay ordered when levels are popped.
LEMMA VersionsBelow ==
    ASSUME NEW g \in Seq(Definition), NEW e, Kept(e), Versions(e, g), NEW r, Kept(r),
           UserLevel(r) <= UserLevel(e),
           \A i \in 0..UserLevel(r) : At(r, i) = At(e, i)
    PROVE  Versions(r, g) /\ Before(r.cur, e.cur, g)
<1>1. /\ UserLevel(e) \in Nat /\ At(e, UserLevel(e)) = e.cur
      /\ \A i \in 0..UserLevel(e) : At(e, i) \in Version
  BY AtIs
<1>2. UserLevel(r) \in Nat /\ At(r, UserLevel(r)) = r.cur
  BY AtIs
<1>3. /\ \A i \in 0..UserLevel(r) : i \in 0..UserLevel(e)
      /\ UserLevel(r) \in 0..UserLevel(r) /\ UserLevel(e) \in 0..UserLevel(e)
  BY ONLY <1>1, <1>2, UserLevel(r) <= UserLevel(e)
<1>4. /\ \A i \in 0..UserLevel(e) : Fits(At(e, i), g)
      /\ \A i, j \in 0..UserLevel(e) : i <= j => Before(At(e, i), At(e, j), g)
      /\ Weight(e.cur, g) <= MaxList
  BY DEF Versions
<1>5. \A i \in 0..UserLevel(r) : Fits(At(r, i), g)
  BY <1>3, <1>4, Zenon
<1>6. ASSUME NEW i \in 0..UserLevel(r), NEW j \in 0..UserLevel(r), i <= j
      PROVE  Before(At(r, i), At(r, j), g)
  <2>1. At(r, i) = At(e, i) /\ At(r, j) = At(e, j)
    BY Zenon
  <2>2. i \in 0..UserLevel(e) /\ j \in 0..UserLevel(e)
    BY <1>3, Zenon
  <2> QED
    BY <1>4, <1>6, <2>1, <2>2, Zenon
<1>7. Before(r.cur, e.cur, g)
  <2>1. r.cur = At(e, UserLevel(r))
    BY <1>2, <1>3, Zenon
  <2> QED
    BY <1>1, <1>3, <1>4, <2>1, Zenon
<1>8. Weight(r.cur, g) <= MaxList
  <2>1. Weight(r.cur, g) \in Int /\ Weight(e.cur, g) \in Int
    BY Weights DEF Kept
  <2>2. Weight(r.cur, g) <= Weight(e.cur, g)
    BY <1>7, Zenon DEF Before
  <2> QED
    BY ONLY <1>4, <2>1, <2>2, BoundsAssumption
<1> QED
  BY <1>5, <1>6, <1>7, <1>8, Zenon DEF Versions

\* The saved lists stay ordered when a level is pushed.
LEMMA VersionsPush ==
    ASSUME NEW g \in Seq(Definition), NEW e, Kept(e), Versions(e, g), NEW r, Kept(r),
           UserLevel(r) = UserLevel(e) + 1, r.cur = e.cur,
           \A i \in 0..UserLevel(e) : At(r, i) = At(e, i)
    PROVE  Versions(r, g)
<1>1. /\ UserLevel(e) \in Nat /\ At(e, UserLevel(e)) = e.cur
      /\ \A i \in 0..UserLevel(e) : At(e, i) \in Version
  BY AtIs
<1>2. UserLevel(r) \in Nat /\ At(r, UserLevel(r)) = r.cur
  BY AtIs
<1>4. /\ \A i \in 0..UserLevel(e) : Fits(At(e, i), g)
      /\ \A i, j \in 0..UserLevel(e) : i <= j => Before(At(e, i), At(e, j), g)
      /\ Weight(e.cur, g) <= MaxList
  BY DEF Versions
<1>5. \A i \in 0..UserLevel(r) : \E k \in 0..UserLevel(e) :
          At(r, i) = At(e, k) /\ IF i <= UserLevel(e) THEN k = i ELSE k = UserLevel(e)
  <2> TAKE i \in 0..UserLevel(r)
  <2>1. CASE i <= UserLevel(e)
    <3>1. i \in 0..UserLevel(e)
      BY ONLY <1>1, <1>2, <2>1, i \in 0..UserLevel(r)
    <3> QED
      BY <2>1, <3>1, Zenon
  <2>2. CASE ~(i <= UserLevel(e))
    <3>1. i = UserLevel(r) /\ UserLevel(e) \in 0..UserLevel(e)
      BY ONLY <1>1, <1>2, <2>2, UserLevel(r) = UserLevel(e) + 1, i \in 0..UserLevel(r)
    <3>2. At(r, i) = At(e, UserLevel(e))
      BY <1>1, <1>2, <3>1, Zenon
    <3> QED
      BY <2>2, <3>1, <3>2, Zenon
  <2> QED
    BY <2>1, <2>2, Zenon
<1>6. \A i \in 0..UserLevel(r) : Fits(At(r, i), g)
  BY <1>4, <1>5, Zenon
<1>7. ASSUME NEW i \in 0..UserLevel(r), NEW j \in 0..UserLevel(r), i <= j
      PROVE  Before(At(r, i), At(r, j), g)
  <2>1. PICK k : /\ k \in 0..UserLevel(e) /\ At(r, i) = At(e, k)
                 /\ IF i <= UserLevel(e) THEN k = i ELSE k = UserLevel(e)
    BY <1>5, Zenon
  <2>2. PICK m : /\ m \in 0..UserLevel(e) /\ At(r, j) = At(e, m)
                 /\ IF j <= UserLevel(e) THEN m = j ELSE m = UserLevel(e)
    BY <1>5, Zenon
  <2>3. k <= m
    BY ONLY <1>1, <1>2, <1>7, <2>1, <2>2, UserLevel(r) = UserLevel(e) + 1
  <2>4. Before(At(e, k), At(e, m), g)
    BY ONLY <1>4, <2>1, <2>2, <2>3, Zenon
  <2> QED
    BY <2>1, <2>2, <2>4, Zenon
<1> QED
  BY <1>4, <1>6, <1>7, Zenon DEF Versions

\* The saved lists stay ordered when the current one grows.
LEMMA VersionsGrow ==
    ASSUME NEW g \in Seq(Definition), NEW e, Kept(e), Versions(e, g), NEW r, Kept(r),
           UserLevel(r) = UserLevel(e), Fits(r.cur, g), Before(e.cur, r.cur, g),
           Weight(r.cur, g) <= MaxList,
           \A i \in 0..UserLevel(e) : i < UserLevel(e) => At(r, i) = At(e, i)
    PROVE  Versions(r, g)
<1>1. /\ UserLevel(e) \in Nat /\ At(e, UserLevel(e)) = e.cur
      /\ \A i \in 0..UserLevel(e) : At(e, i) \in Version
  BY AtIs
<1>2. /\ UserLevel(r) \in Nat /\ At(r, UserLevel(r)) = r.cur
      /\ r.cur \in Version /\ e.cur \in Version
  BY AtIs DEF Kept
<1>4. /\ \A i \in 0..UserLevel(e) : Fits(At(e, i), g)
      /\ \A i, j \in 0..UserLevel(e) : i <= j => Before(At(e, i), At(e, j), g)
  BY DEF Versions
<1>5. UserLevel(e) \in 0..UserLevel(e)
  BY <1>1
<1>6. ASSUME NEW i \in 0..UserLevel(r)
      PROVE  Fits(At(r, i), g)
  <2>1. CASE i < UserLevel(e)
    BY <1>4, <2>1, Zenon
  <2>2. CASE ~(i < UserLevel(e))
    <3>1. i = UserLevel(r)
      BY ONLY <1>1, <1>6, <2>2, UserLevel(r) = UserLevel(e)
    <3> QED
      BY <1>2, <3>1, Zenon
  <2> QED
    BY <2>1, <2>2, Zenon
<1>7. ASSUME NEW i \in 0..UserLevel(r), NEW j \in 0..UserLevel(r), i <= j
      PROVE  Before(At(r, i), At(r, j), g)
  <2>1. CASE j < UserLevel(e)
    <3>1. i < UserLevel(e)
      BY ONLY <1>1, <1>7, <2>1, UserLevel(r) = UserLevel(e)
    <3> QED
      BY <1>4, <1>7, <2>1, <3>1, Zenon
  <2>2. CASE ~(j < UserLevel(e))
    <3>1. j = UserLevel(r)
      BY ONLY <1>1, <1>7, <2>2, UserLevel(r) = UserLevel(e)
    <3>2. CASE i < UserLevel(e)
      <4>1. i <= UserLevel(e) /\ i \in 0..UserLevel(e)
        BY ONLY <1>1, <1>7, <3>2, UserLevel(r) = UserLevel(e)
      <4>2. Before(At(e, i), e.cur, g)
        BY <1>1, <1>4, <1>5, <4>1, Zenon
      <4>3. At(e, i) \in Version
        BY <1>1, <4>1, Zenon
      <4>4. Before(At(e, i), r.cur, g)
        BY <1>2, <4>2, <4>3, BeforeTransitive
      <4> QED
        BY <1>2, <3>1, <3>2, <4>1, <4>4, Zenon
    <3>3. CASE ~(i < UserLevel(e))
      <4>1. i = UserLevel(r)
        BY ONLY <1>1, <1>7, <3>3, UserLevel(r) = UserLevel(e)
      <4>2. Before(r.cur, r.cur, g)
        BY <1>2, Weights
      <4> QED
        BY <1>2, <3>1, <4>1, <4>2, Zenon
    <3> QED
      BY <3>2, <3>3, Zenon
  <2> QED
    BY <2>1, <2>2, Zenon
<1> QED
  BY <1>6, <1>7, Zenon DEF Versions

-----------------------------------------------------------------------------
(* The clauses of the SAT solver are about formulas that are in force.     *)

\* What the SAT solver keeps at a user pop is still asserted.
LEMMA InForceBelow ==
    ASSUME NEW e, Kept(e), InForce(e), NEW r, Kept(r), UserLevel(r) = UserLevel(e) - 1,
           r.clauses = {c \in e.clauses : c[2] < e.assertionLevel},
           e.assertionLevel = UserLevel(e) - 1,
           \A i \in 0..UserLevel(r) : At(r, i) = At(e, i)
    PROVE  InForce(r)
<1>1. UserLevel(e) \in Nat /\ UserLevel(r) \in Nat
  BY AtIs
<1>2. ASSUME NEW c \in r.clauses
      PROVE  /\ c[2] \in 0..UserLevel(r) - 1
             /\ c[1] \in ToSet(At(r, c[2] + 1).list)
  <2>1. c \in e.clauses /\ c[2] < UserLevel(e) - 1
    BY <1>2
  <2>2. /\ c[2] \in 0..UserLevel(e) - 1
        /\ c[1] \in ToSet(At(e, c[2] + 1).list)
    BY ONLY <2>1, InForce(e), Zenon DEF InForce
  <2>3. c[2] \in 0..UserLevel(r) - 1 /\ c[2] + 1 \in 0..UserLevel(r)
    BY ONLY <1>1, <2>1, <2>2, UserLevel(r) = UserLevel(e) - 1
  <2>4. At(r, c[2] + 1) = At(e, c[2] + 1)
    BY <2>3, Zenon
  <2> QED
    BY ONLY <2>2, <2>3, <2>4, Zenon
<1> QED
  BY <1>2, Zenon DEF InForce

\* What the SAT solver was told stays asserted when lists only grow.
LEMMA InForceSame ==
    ASSUME NEW e, Kept(e), InForce(e), NEW r, UserLevel(r) \in Nat,
           UserLevel(r) >= UserLevel(e), r.clauses = e.clauses,
           \A i \in 0..UserLevel(e) : ToSet(At(e, i).list) \subseteq ToSet(At(r, i).list)
    PROVE  InForce(r)
<1>1. UserLevel(e) \in Nat /\ UserLevel(r) \in Nat
  BY AtIs
<1>2. ASSUME NEW c \in r.clauses
      PROVE  /\ c[2] \in 0..UserLevel(r) - 1
             /\ c[1] \in ToSet(At(r, c[2] + 1).list)
  <2>1. c \in e.clauses
    BY <1>2, Zenon
  <2>2. /\ c[2] \in 0..UserLevel(e) - 1
        /\ c[1] \in ToSet(At(e, c[2] + 1).list)
    BY ONLY <2>1, InForce(e), Zenon DEF InForce
  <2>3. c[2] \in 0..UserLevel(r) - 1 /\ c[2] + 1 \in 0..UserLevel(e)
    BY ONLY <1>1, <2>2, UserLevel(r) >= UserLevel(e)
  <2>4. ToSet(At(e, c[2] + 1).list) \subseteq ToSet(At(r, c[2] + 1).list)
    BY <2>3, Zenon
  <2> QED
    BY ONLY <2>2, <2>3, <2>4, Zenon
<1> QED
  BY <1>2, Zenon DEF InForce

\* Every formula the SAT solver has is in the assertion list.
LEMMA ClausesAsserted ==
    ASSUME NEW g \in Seq(Definition), NEW e, Kept(e), Versions(e, g), InForce(e)
    PROVE  {c[1] : c \in e.clauses} \subseteq ToSet(e.cur.list)
<1>1. UserLevel(e) \in Nat /\ At(e, UserLevel(e)) = e.cur
  BY AtIs
<1>2. ASSUME NEW c \in e.clauses
      PROVE  c[1] \in ToSet(e.cur.list)
  <2>1. /\ c[2] \in 0..UserLevel(e) - 1
        /\ c[1] \in ToSet(At(e, c[2] + 1).list)
    BY <1>2, Zenon DEF InForce
  <2>2. /\ c[2] + 1 \in 0..UserLevel(e) /\ UserLevel(e) \in 0..UserLevel(e)
        /\ c[2] + 1 <= UserLevel(e)
    BY ONLY <1>1, <2>1
  <2>3. Before(At(e, c[2] + 1), e.cur, g)
    BY <1>1, <2>2, Zenon DEF Versions
  <2> QED
    BY <2>1, <2>3, Zenon DEF Before
<1> QED
  BY <1>2, Zenon

-----------------------------------------------------------------------------
(* The pops that are due.                                                  *)

Parts(r) ==
    /\ Kept(r) /\ r.level \in Nat /\ r.assertionLevel \in Nat
    /\ r.decisions \in 0..MaxDecisions /\ r.clauses \in SUBSET (AnyFormula \X Nat)
    /\ r.pendingPops \in Nat /\ r.userLevels \in Seq(Nat) /\ r.mode \in SmtMode
    /\ r.needPostsolve \in BOOLEAN /\ r.inited \in BOOLEAN

\* The parts of the typing that a call may need.
LEMMA TypedParts ==
    ASSUME NEW e, Typed(e)
    PROVE  Parts(e) /\ Shape(e) /\ Kept(e)
  BY Zenon DEF Typed, Parts, Kept

\* A call that leaves the other fields keeps the typing.
LEMMA PartsTyped ==
    ASSUME NEW e, Typed(e), NEW r, Rest(e, r), Parts(r)
    PROVE  Typed(r)
<1>1. /\ e.incremental \in BOOLEAN /\ e.queryMade \in BOOLEAN /\ e.statusSolver \in BOOLEAN
      /\ e.checkedAssertions \in 0..MaxList /\ e.checkedLevel \in Nat
  BY Zenon DEF Typed
<1>2. /\ r.incremental \in BOOLEAN /\ r.queryMade \in BOOLEAN /\ r.statusSolver \in BOOLEAN
      /\ r.checkedAssertions \in 0..MaxList /\ r.checkedLevel \in Nat /\ Shape(r)
  BY <1>1, Zenon DEF Rest
<1> QED
  BY <1>2, Zenon DEF Typed, Parts, Kept

\* What doPendingPops does, seen from outside.
Settled(e, r, g) ==
    /\ Rest(e, r) /\ r.userLevels = e.userLevels /\ r.inited = e.inited
    /\ r.pendingPops = 0 /\ r.decisions = 0 /\ ~r.needPostsolve
    /\ UserLevel(r) = UserLevel(e) - e.pendingPops
    /\ Before(r.cur, e.cur, g)
    /\ r.mode = "UNSAT" => e.mode = "UNSAT" /\ r.cur = e.cur

Postsolve(e) == IF e.needPostsolve THEN [ResetTrail(e) EXCEPT !.needPostsolve = FALSE] ELSE e

\* postsolve keeps the engine good.
LEMMA PostsolveGood ==
    ASSUME NEW g \in Seq(Definition), NEW e, Good(e, g), NEW s, s = Postsolve(e)
    PROVE  /\ Good(s, g) /\ Rest(e, s) /\ s.userLevels = e.userLevels /\ s.inited = e.inited
           /\ s.pendingPops = e.pendingPops /\ s.decisions = 0 /\ ~s.needPostsolve
           /\ UserLevel(s) = UserLevel(e) /\ s.cur = e.cur /\ s.mode = e.mode
<1>1. /\ Typed(e) /\ Versions(e, g) /\ InForce(e)
      /\ IF e.inited THEN InStep(e) ELSE Unused(e)
      /\ e.failed \subseteq {"status solver"}
  BY Zenon DEF Good
<1>2. Parts(e) /\ Shape(e) /\ Kept(e)
  BY <1>1, TypedParts
<1>3. CASE e.needPostsolve
  <2>1. /\ Rest(e, s) /\ SameUser(e, s)
        /\ s.pendingPops = e.pendingPops /\ s.userLevels = e.userLevels
        /\ ~s.needPostsolve /\ s.inited = e.inited
        /\ s.assertionLevel = e.assertionLevel /\ s.decisions = 0
        /\ s.clauses = e.clauses /\ s.level = e.level - e.decisions
        /\ s.mode = e.mode /\ s.failed = e.failed
        /\ s.needPostsolve \in BOOLEAN
    <3>1. s = IF e.needPostsolve THEN [ResetTrail(e) EXCEPT !.needPostsolve = FALSE] ELSE e
      BY Zenon DEF Postsolve
    <3> QED
      BY ONLY <1>2, <1>3, <3>1, PostsolveFields, Zenon
  <2>2. InStep(e)
    BY <1>1, <1>3, Zenon DEF Unused
  <2>3. s.saved = e.saved /\ s.cur = e.cur /\ UserLevel(s) = UserLevel(e)
    BY <2>1, Zenon DEF SameUser, UserLevel
  <2>4. /\ UserLevel(e) \in Nat /\ e.decisions \in 0..MaxDecisions
        /\ e.level = UserLevel(e) + e.decisions
    <3>1. UserLevel(e) \in Nat
      BY <1>2, AtIs
    <3> QED
      BY <1>2, <2>2, <3>1, Zenon DEF InStep, Parts
  <2>5. s.level = UserLevel(e) /\ s.level = UserLevel(s) + s.decisions /\ s.level \in Nat
        /\ s.decisions \in 0..MaxDecisions /\ ~(s.decisions > 0)
    BY ONLY <2>1, <2>3, <2>4, BoundsAssumption
  <2>6. Kept(s)
    BY <1>2, <2>3, Zenon DEF Kept
  <2>7. Parts(s)
    BY ONLY <1>2, <2>1, <2>5, <2>6, Zenon DEF Parts
  <2>8. Typed(s)
    BY <1>1, <2>1, <2>7, PartsTyped
  <2>9. \A i \in 0..UserLevel(s) : At(s, i) = At(e, i)
    BY <2>3, Zenon DEF At
  <2>10. Versions(s, g)
    BY <1>1, <2>3, <2>9, Zenon DEF Versions
  <2>11. InForce(s)
    <3>1. ASSUME NEW c \in s.clauses
          PROVE  c[2] \in 0..UserLevel(s) - 1 /\ c[1] \in ToSet(At(s, c[2] + 1).list)
      <4>1. c[2] \in 0..UserLevel(e) - 1 /\ c[1] \in ToSet(At(e, c[2] + 1).list)
        BY <1>1, <2>1, <3>1, Zenon DEF InForce
      <4>2. At(s, c[2] + 1) = At(e, c[2] + 1)
        BY <2>3, Zenon DEF At
      <4> QED
        BY <2>3, <4>1, <4>2, Zenon
    <3> QED
      BY <3>1, Zenon DEF InForce
  <2>12. InStep(s)
    <3>1. ~s.incremental => UserLevel(s) = 1
      BY <2>1, <2>2, <2>3, Zenon DEF InStep, Rest
    <3>2. /\ s.saved # <<>> /\ s.saved[1] = Blank
          /\ s.assertionLevel = UserLevel(s) - 1
          /\ s.pendingPops \in 0..1 /\ s.pendingPops < UserLevel(s)
      BY <2>1, <2>2, <2>3, Zenon DEF InStep
    <3> QED
      BY <2>5, <3>1, <3>2, Zenon DEF InStep
  <2>13. Good(s, g)
    BY <1>1, <2>1, <2>2, <2>8, <2>10, <2>11, <2>12, Zenon DEF Good, InStep, Unused
  <2> QED
    BY <2>1, <2>3, <2>13, Zenon
<1>4. CASE ~e.needPostsolve
  <2>1. s = e
    BY <1>4, Zenon DEF Postsolve
  <2>2. e.decisions = 0
    <3>1. CASE e.inited
      <4>1. ~(e.decisions > 0) /\ e.decisions \in 0..MaxDecisions
        BY <1>1, <1>2, <1>4, <3>1, Zenon DEF InStep, Parts
      <4> QED
        BY ONLY <4>1, BoundsAssumption
    <3>2. CASE ~e.inited
      BY <1>1, <3>2, Zenon DEF Unused
    <3> QED
      BY <3>1, <3>2, Zenon
  <2>3. Rest(e, e)
    BY <1>2, Zenon DEF Rest
  <2> QED
    BY <1>4, <2>1, <2>2, <2>3, Zenon
<1> QED
  BY <1>3, <1>4, Zenon

\* The level of the user context counts the saved lists.
LEMMA UserLevelIs ==
    ASSUME NEW e, Kept(e)
    PROVE  /\ UserLevel(e) = Len(e.saved) /\ UserLevel(e) \in Nat
           /\ e.saved # <<>> <=> UserLevel(e) > 0
  BY DEF Kept, UserLevel

\* One pop that is due.
LEMMA PopPendingGood ==
    ASSUME NEW g \in Seq(Definition), NEW s, Good(s, g), s.inited, s.pendingPops = 1,
           s.decisions = 0, ~s.needPostsolve, NEW r, r = PopPending(s)
    PROVE  Good(r, g) /\ Settled(s, r, g)
<1>1. /\ Typed(s) /\ Versions(s, g) /\ InForce(s) /\ InStep(s)
      /\ s.failed \subseteq {"status solver"}
  BY Zenon DEF Good
<1>2. Parts(s) /\ Shape(s) /\ Kept(s)
  BY <1>1, TypedParts
<1>3. /\ s.saved # <<>> /\ s.saved[1] = Blank
      /\ s.assertionLevel = UserLevel(s) - 1
      /\ s.level = UserLevel(s) + s.decisions
      /\ s.pendingPops < UserLevel(s)
      /\ ~s.incremental => UserLevel(s) = 1
  BY <1>1, Zenon DEF InStep
<1>4. /\ Rest(s, r)
      /\ r.saved = Front(s.saved) /\ r.cur = Last(s.saved)
      /\ r.assertionLevel = s.assertionLevel - 1 /\ r.level = s.level - 1
      /\ r.decisions = s.decisions
      /\ r.clauses = {c \in s.clauses : c[2] < s.assertionLevel}
      /\ r.pendingPops = s.pendingPops - 1 /\ r.userLevels = s.userLevels
      /\ r.needPostsolve = s.needPostsolve /\ r.inited = s.inited
      /\ r.mode = IF s.mode = "UNSAT" THEN "ASSERT" ELSE s.mode
      /\ r.failed = s.failed
  <2>1. Shape(s) /\ s.decisions = 0 /\ s.saved # <<>> /\ r = PopPending(s)
    BY <1>2, <1>3, Zenon
  <2> QED
    BY ONLY <2>1, PopPendingFields, ZenonT(60)
<1>5. /\ Kept(r) /\ UserLevel(r) = UserLevel(s) - 1
      /\ \A i \in 0..UserLevel(r) : At(r, i) = At(s, i)
  <2>1. r.saved = Front(s.saved) /\ r.cur = Last(s.saved)
    BY <1>4, Zenon
  <2> QED
    BY ONLY <1>2, <1>3, <2>1, PopAt, Zenon
<1>6. UserLevel(s) \in Nat /\ UserLevel(r) \in Nat /\ UserLevel(s) > 1
  <2>1. UserLevel(s) \in Nat /\ UserLevel(r) \in Nat
    BY <1>2, <1>5, UserLevelIs
  <2> QED
    BY ONLY <1>3, <2>1, s.pendingPops = 1
<1>7. Versions(r, g) /\ Before(r.cur, s.cur, g)
  <2>1. UserLevel(r) <= UserLevel(s)
    BY ONLY <1>5, <1>6
  <2> QED
    BY <1>1, <1>2, <1>5, <2>1, VersionsBelow
<1>8. InForce(r)
  <2>1. r.clauses = {c \in s.clauses : c[2] < s.assertionLevel}
    BY <1>4, Zenon
  <2> QED
    BY ONLY <1>1, <1>2, <1>3, <1>5, <2>1, InForceBelow, Zenon
<1>9. /\ r.pendingPops = 0 /\ r.decisions = 0 /\ r.decisions \in 0..MaxDecisions
      /\ r.level = UserLevel(r) + r.decisions /\ r.assertionLevel = UserLevel(r) - 1
      /\ r.level \in Nat /\ r.assertionLevel \in Nat /\ r.pendingPops \in Nat
      /\ r.pendingPops \in 0..1 /\ r.pendingPops < UserLevel(r)
      /\ ~(r.decisions > 0) /\ UserLevel(r) > 0
  <2>1. /\ r.assertionLevel = s.assertionLevel - 1 /\ r.level = s.level - 1
        /\ r.decisions = s.decisions /\ r.pendingPops = s.pendingPops - 1
    BY <1>4, Zenon
  <2>2. s.assertionLevel = UserLevel(s) - 1 /\ s.level = UserLevel(s) + s.decisions
    BY <1>3, Zenon
  <2> QED
    BY ONLY <1>5, <1>6, <2>1, <2>2, s.pendingPops = 1, s.decisions = 0, BoundsAssumption
<1>10. r.mode \in SmtMode
  <2>1. "ASSERT" \in SmtMode /\ s.mode \in SmtMode
    BY <1>2 DEF SmtMode, Parts
  <2> QED
    BY <1>4, <2>1, Zenon
<1>11. r.clauses \in SUBSET (AnyFormula \X Nat)
  <2>1. s.clauses \in SUBSET (AnyFormula \X Nat)
    BY <1>2, Zenon DEF Parts
  <2>2. r.clauses \subseteq s.clauses
    BY <1>4
  <2> QED
    BY <2>1, <2>2, Zenon
<1>12. Parts(r)
  <2>1. /\ s.userLevels \in Seq(Nat) /\ s.needPostsolve \in BOOLEAN /\ s.inited \in BOOLEAN
    BY <1>2, Zenon DEF Parts
  <2>2. /\ r.userLevels \in Seq(Nat) /\ r.needPostsolve \in BOOLEAN /\ r.inited \in BOOLEAN
    BY <1>4, <2>1, Zenon
  <2> QED
    BY <1>5, <1>9, <1>10, <1>11, <2>2, Zenon DEF Parts
<1>13. Typed(r)
  BY <1>1, <1>4, <1>12, PartsTyped
<1>14. r.saved # <<>> /\ r.saved[1] = Blank
  <2>1. r.saved # <<>>
    BY <1>5, <1>9, UserLevelIs
  <2>2. r.saved[1] = At(r, 0) /\ s.saved[1] = At(s, 0) /\ 0 \in 0..UserLevel(r)
    BY <1>6, <1>9 DEF At
  <2>3. r.saved[1] = s.saved[1]
    BY <1>5, <2>2, Zenon
  <2> QED
    BY <1>3, <2>1, <2>3, Zenon
<1>15. InStep(r)
  <2>1. ~r.incremental => UserLevel(r) = 1
    <3>1. r.incremental = s.incremental
      BY <1>4, Zenon DEF Rest
    <3>2. s.incremental
      <4>1. UserLevel(s) # 1
        BY ONLY <1>6
      <4> QED
        BY <1>3, <4>1, Zenon
    <3> QED
      BY <3>1, <3>2, Zenon
  <2> QED
    BY <1>9, <1>14, <2>1, Zenon DEF InStep
<1>16. Good(r, g)
  BY <1>1, <1>4, <1>7, <1>8, <1>13, <1>15, Zenon DEF Good
<1>17. Settled(s, r, g)
  <2>1. r.mode = "UNSAT" => s.mode = "UNSAT" /\ r.cur = s.cur
    <3>1. "ASSERT" # "UNSAT"
      OBVIOUS
    <3> QED
      BY <1>4, <3>1, Zenon
  <2>2. ~r.needPostsolve
    BY <1>4, Zenon
  <2>3. UserLevel(r) = UserLevel(s) - s.pendingPops
    BY <1>5, Zenon
  <2> QED
    BY <1>4, <1>7, <1>9, <2>1, <2>2, <2>3, Zenon DEF Settled
<1> QED
  BY <1>16, <1>17, Zenon

\* The recursive function of doPendingPops is applied once at most.
LEMMA PendingOnce ==
    ASSUME NEW e, e.pendingPops \in 0..1, e.pendingPops = 0 \/ e.incremental,
           NEW r, r = DoPendingPops(e)
    PROVE  r = IF e.pendingPops = 0 THEN Postsolve(e) ELSE PopPending(Postsolve(e))
<1> DEFINE IsDone(f) == f = [n \in 0..e.pendingPops |->
                                IF n = 0 THEN Postsolve(e) ELSE PopPending(f[n - 1])]
<1>1. r = Check((CHOOSE f : IsDone(f))[e.pendingPops], "pending pop",
                e.pendingPops = 0 \/ e.incremental)
  BY Zenon DEF DoPendingPops, Postsolve
<1>2. r = (CHOOSE f : IsDone(f))[e.pendingPops]
  BY <1>1, CheckHolds, Zenon
<1>3. PICK n : n = e.pendingPops /\ n \in 0..1
  OBVIOUS
<1>4. PICK x : x = Postsolve(e)
  OBVIOUS
<1>5. PICK y : y = PopPending(x)
  OBVIOUS
<1>6. \E f : IsDone(f)
  <2>1. PICK f : f = [k \in 0..n |-> IF k = 0 THEN x ELSE y]
    OBVIOUS
  <2>2. ASSUME NEW k \in 0..n
        PROVE  f[k] = IF k = 0 THEN x ELSE PopPending(f[k - 1])
    <3>1. CASE k = 0
      BY <2>1, <2>2, <3>1, Zenon
    <3>2. CASE k # 0
      <4>1. k - 1 = 0 /\ 0 \in 0..n
        BY ONLY <1>3, <2>2, <3>2
      <4>2. f[k - 1] = x
        BY <2>1, <4>1, Zenon
      <4>3. f[k] = y
        BY <2>1, <2>2, <3>2, Zenon
      <4> QED
        BY <1>5, <3>2, <4>2, <4>3, Zenon
    <3> QED
      BY <3>1, <3>2, Zenon
  <2>3. f = [k \in 0..n |-> f[k]]
    BY <2>1, Zenon
  <2>4. f = [k \in 0..n |-> IF k = 0 THEN x ELSE PopPending(f[k - 1])]
    BY <2>2, <2>3, Zenon
  <2> QED
    BY <1>3, <1>4, <2>4, Zenon
<1>7. PICK f : f = (CHOOSE h : IsDone(h))
  OBVIOUS
<1>8. f = [k \in 0..n |-> IF k = 0 THEN x ELSE PopPending(f[k - 1])]
  <2>1. IsDone(f)
    BY <1>6, <1>7, Zenon
  <2> QED
    BY <1>3, <1>4, <2>1, Zenon
<1>9. r = f[n]
  BY <1>2, <1>3, <1>7, Zenon
<1> HIDE DEF IsDone
<1>10. CASE n = 0
  <2>1. 0 \in 0..n
    BY ONLY <1>10
  <2>2. f[0] = x
    BY <1>8, <2>1, Zenon
  <2> QED
    BY <1>3, <1>4, <1>9, <1>10, <2>2, Zenon
<1>11. CASE n = 1
  <2>1. 0 \in 0..n /\ 1 \in 0..n /\ 1 # 0 /\ 1 - 1 = 0
    BY ONLY <1>11
  <2>2. f[0] = x
    BY <1>8, <2>1, Zenon
  <2>3. f[1] = PopPending(f[0])
    BY <1>8, <2>1, Zenon
  <2> QED
    BY <1>3, <1>4, <1>9, <1>11, <2>1, <2>2, <2>3, Zenon
<1>12. n = 0 \/ n = 1
  BY ONLY <1>3
<1> QED
  BY <1>10, <1>11, <1>12, Zenon

\* DoPendingPops keeps the engine good.
LEMMA DoPendingPopsGood ==
    ASSUME NEW g \in Seq(Definition), NEW e, Good(e, g), NEW r, r = DoPendingPops(e)
    PROVE  Good(r, g) /\ Settled(e, r, g)
<1>1. IF e.inited THEN InStep(e) ELSE Unused(e)
  BY Zenon DEF Good
<1>2. Kept(e) /\ UserLevel(e) \in Nat
  <2>1. Kept(e)
    BY TypedParts DEF Good
  <2> QED
    BY <2>1, UserLevelIs
<1>3. e.pendingPops \in 0..1 /\ (e.pendingPops = 1 => e.inited)
  <2>1. CASE e.inited
    BY <1>1, <2>1, Zenon DEF InStep
  <2>2. CASE ~e.inited
    <3>1. e.pendingPops = 0
      BY <1>1, <2>2, Zenon DEF Unused
    <3> QED
      BY ONLY <3>1
  <2> QED
    BY <2>1, <2>2, Zenon
<1>4. e.pendingPops = 0 \/ e.incremental
  <2>1. CASE e.inited /\ ~e.incremental
    <3>1. UserLevel(e) = 1 /\ e.pendingPops < UserLevel(e)
      BY <1>1, <2>1, Zenon DEF InStep
    <3> QED
      BY ONLY <1>3, <3>1
  <2>2. CASE ~e.inited
    BY <1>1, <2>2, Zenon DEF Unused
  <2> QED
    BY <2>1, <2>2, Zenon
<1>5. r = IF e.pendingPops = 0 THEN Postsolve(e) ELSE PopPending(Postsolve(e))
  BY <1>3, <1>4, PendingOnce, Zenon
<1>6. PICK s : s = Postsolve(e)
  OBVIOUS
<1>7. /\ Good(s, g) /\ Rest(e, s) /\ s.userLevels = e.userLevels /\ s.inited = e.inited
      /\ s.pendingPops = e.pendingPops /\ s.decisions = 0 /\ ~s.needPostsolve
      /\ UserLevel(s) = UserLevel(e) /\ s.cur = e.cur /\ s.mode = e.mode
  BY <1>6, PostsolveGood
<1>8. CASE e.pendingPops = 0
  <2>1. r = s
    BY <1>5, <1>6, <1>8, Zenon
  <2>2. Before(s.cur, e.cur, g)
    <3>1. e.cur \in Version
      BY <1>2, Zenon DEF Kept
    <3>2. Before(e.cur, e.cur, g)
      BY <3>1, Weights
    <3> QED
      BY <1>7, <3>2, Zenon
  <2>3. UserLevel(s) = UserLevel(e) - e.pendingPops
    BY ONLY <1>2, <1>7, <1>8
  <2> QED
    BY <1>7, <1>8, <2>1, <2>2, <2>3, Zenon DEF Settled
<1>9. CASE e.pendingPops = 1
  <2>1. r = PopPending(s)
    <3>1. e.pendingPops # 0
      BY ONLY <1>9
    <3> QED
      BY <1>5, <1>6, <3>1, Zenon
  <2>2. s.inited /\ s.pendingPops = 1
    BY <1>3, <1>7, <1>9, Zenon
  <2>3. Good(r, g) /\ Settled(s, r, g)
    BY <1>7, <2>1, <2>2, PopPendingGood
  <2>4. Rest(e, r)
    BY ONLY <1>7, <2>3, Zenon DEF Settled, Rest
  <2> QED
    BY <1>7, <2>3, <2>4, Zenon DEF Settled
<1>10. e.pendingPops = 0 \/ e.pendingPops = 1
  BY ONLY <1>3
<1> QED
  BY <1>8, <1>9, <1>10, Zenon

-----------------------------------------------------------------------------
(* The assertion list grows.                                               *)

\* What stays when only the values in use and the clauses change.
Grown(e, r, g) ==
    /\ Rest(e, r) /\ SameFlags(e, r) /\ r.saved = e.saved /\ r.level = e.level
    /\ r.mode = e.mode /\ r.failed = e.failed
    /\ r.assertionLevel = e.assertionLevel /\ r.decisions = e.decisions
    /\ r.cur \in Version /\ Fits(r.cur, g) /\ Before(e.cur, r.cur, g)
    /\ Weight(r.cur, g) <= MaxList

\* Adding formulas opens no level.
LEMMA GrownLevel ==
    ASSUME NEW g, NEW e, NEW r, Grown(e, r, g)
    PROVE  UserLevel(r) = UserLevel(e)
  BY Zenon DEF Grown, UserLevel

\* Adding formulas keeps the engine good.
LEMMA GrownGood ==
    ASSUME NEW g \in Seq(Definition), NEW e, Good(e, g), e.inited, NEW r, Grown(e, r, g),
           r.clauses \in SUBSET (AnyFormula \X Nat),
           \A c \in r.clauses : \/ c \in e.clauses
                                \/ c[2] = UserLevel(e) - 1 /\ c[1] \in ToSet(r.cur.list)
    PROVE  Good(r, g) /\ r.inited
<1>1. /\ Typed(e) /\ Versions(e, g) /\ InForce(e) /\ InStep(e)
      /\ e.failed \subseteq {"status solver"}
  BY Zenon DEF Good
<1>2. Parts(e) /\ Shape(e) /\ Kept(e)
  BY <1>1, TypedParts
<1>3. /\ Rest(e, r) /\ SameFlags(e, r) /\ r.saved = e.saved /\ r.level = e.level
      /\ r.mode = e.mode /\ r.failed = e.failed
      /\ r.assertionLevel = e.assertionLevel /\ r.decisions = e.decisions
      /\ r.cur \in Version /\ Fits(r.cur, g) /\ Before(e.cur, r.cur, g)
      /\ Weight(r.cur, g) <= MaxList
  BY Zenon DEF Grown
<1>4. /\ Kept(r) /\ UserLevel(r) = UserLevel(e)
      /\ \A i \in 0..UserLevel(e) : i < UserLevel(e) => At(r, i) = At(e, i)
  <2>1. r.saved = e.saved /\ r.cur \in Version
    BY <1>3, Zenon
  <2> QED
    BY ONLY <1>2, <2>1, VersionReplaced
<1>5. Versions(r, g)
  BY <1>1, <1>2, <1>3, <1>4, VersionsGrow
<1>6. UserLevel(e) \in Nat /\ UserLevel(e) > 0
  <2>1. e.saved # <<>>
    BY <1>1, Zenon DEF InStep
  <2> QED
    BY <1>2, <2>1, UserLevelIs
<1>7. At(e, UserLevel(e)) = e.cur /\ At(r, UserLevel(e)) = r.cur
  BY <1>2, <1>4, AtIs
<1>8. InForce(r)
  <2>1. ASSUME NEW c \in r.clauses
        PROVE  c[2] \in 0..UserLevel(r) - 1 /\ c[1] \in ToSet(At(r, c[2] + 1).list)
    <3>1. CASE c \in e.clauses
      <4>1. c[2] \in 0..UserLevel(e) - 1 /\ c[1] \in ToSet(At(e, c[2] + 1).list)
        BY <1>1, <3>1, Zenon DEF InForce
      <4>2. CASE c[2] + 1 < UserLevel(e)
        <5>1. c[2] + 1 \in 0..UserLevel(e)
          BY ONLY <1>6, <4>1, <4>2
        <5>2. At(r, c[2] + 1) = At(e, c[2] + 1)
          BY <1>4, <4>2, <5>1, Zenon
        <5> QED
          BY <1>4, <4>1, <5>2, Zenon
      <4>3. CASE ~(c[2] + 1 < UserLevel(e))
        <5>1. c[2] + 1 = UserLevel(e)
          BY ONLY <1>6, <4>1, <4>3
        <5>2. c[1] \in ToSet(r.cur.list)
          BY <1>3, <1>7, <4>1, <5>1, Zenon DEF Before
        <5> QED
          BY <1>4, <1>7, <4>1, <5>1, <5>2, Zenon
      <4> QED
        BY <4>2, <4>3, Zenon
    <3>2. CASE c[2] = UserLevel(e) - 1 /\ c[1] \in ToSet(r.cur.list)
      <4>1. c[2] \in 0..UserLevel(e) - 1 /\ c[2] + 1 = UserLevel(e)
        BY ONLY <1>6, <3>2
      <4> QED
        BY <1>4, <1>7, <3>2, <4>1, Zenon
    <3> QED
      BY <3>1, <3>2, Zenon
  <2> QED
    BY <2>1, Zenon DEF InForce
<1>9. Parts(r)
  BY <1>2, <1>3, <1>4, Zenon DEF Parts, SameFlags
<1>10. Typed(r)
  BY <1>1, <1>3, <1>9, PartsTyped
<1>11. InStep(r)
  BY <1>1, <1>3, <1>4, Zenon DEF InStep, SameFlags, Rest
<1>12. r.inited
  BY <1>3, Zenon DEF SameFlags
<1> QED
  BY <1>1, <1>3, <1>5, <1>8, <1>10, <1>11, <1>12, Zenon DEF Good

\* A list is added at the end of the list in use.
LEMMA AddFormulasGrown ==
    ASSUME NEW g \in Seq(Definition), NEW e, Good(e, g), NEW fs \in Seq(AnyFormula),
           Weight(e.cur, g) + Len(fs) <= MaxList, NEW r, r = AddFormulas(e, fs)
    PROVE  /\ Grown(e, r, g) /\ r.clauses = e.clauses
           /\ ToSet(r.cur.list) \subseteq ToSet(e.cur.list) \union ToSet(fs)
           /\ Weight(r.cur, g) = Weight(e.cur, g) + Len(fs)
<1>1. Typed(e) /\ Versions(e, g)
  BY Zenon DEF Good
<1>2. Parts(e) /\ Shape(e) /\ Kept(e)
  BY <1>1, TypedParts
<1>3. /\ Rest(e, r) /\ SameSat(e, r) /\ SameFlags(e, r)
      /\ r.saved = e.saved /\ r.level = e.level /\ r.mode = e.mode
      /\ r.failed = e.failed
      /\ r.cur = [list |-> e.cur.list \o fs, index |-> e.cur.index,
                  defIndex |-> e.cur.defIndex]
  BY <1>1, AddFormulasFields
<1>4. PICK w : w = e.cur.list \o fs
  OBVIOUS
<1>5. PICK q : /\ q = e.cur.list /\ q \in Seq(AnyFormula)
               /\ e.cur.index \in Nat /\ e.cur.defIndex \in Nat
  BY <1>2 DEF Kept, Version
<1>6. w = q \o fs
  BY <1>4, <1>5, Zenon
<1>7. /\ w \in Seq(AnyFormula) /\ Len(w) = Len(q) + Len(fs)
      /\ ToSet(q) \subseteq ToSet(w) /\ ToSet(w) \subseteq ToSet(q) \union ToSet(fs)
  <2>1. w = Joined(q, fs)
    BY <1>6, Zenon DEF Joined
  <2> QED
    BY ONLY <1>5, fs \in Seq(AnyFormula), <2>1, JoinedSet, Zenon
<1>8. r.cur = [list |-> w, index |-> e.cur.index, defIndex |-> e.cur.defIndex]
  BY <1>3, <1>4, Zenon
<1>9. /\ r.cur.list = w /\ r.cur.index = e.cur.index
      /\ r.cur.defIndex = e.cur.defIndex /\ r.cur \in Version
  BY ONLY <1>5, <1>7, <1>8 DEF Version
<1>10. Len(q) \in Nat /\ Len(fs) \in Nat /\ Len(g) \in Nat
  BY ONLY <1>5, fs \in Seq(AnyFormula), g \in Seq(Definition)
<1>11. e.cur.index <= Len(q) /\ e.cur.defIndex <= Len(g) /\ e.cur.defIndex <= Len(q)
  <2>1. UserLevel(e) \in 0..UserLevel(e) /\ At(e, UserLevel(e)) = e.cur
    <3>1. UserLevel(e) \in Nat /\ At(e, UserLevel(e)) = e.cur
      BY <1>2, AtIs
    <3> QED
      BY ONLY <3>1
  <2>2. Fits(e.cur, g)
    BY <1>1, <2>1, Zenon DEF Versions
  <2> QED
    BY <1>5, <2>2, Zenon DEF Fits
<1>12. /\ r.cur.index <= Len(w) /\ r.cur.defIndex <= Len(g) /\ r.cur.defIndex <= Len(w)
       /\ Len(w) + Len(g) - r.cur.defIndex = Len(q) + Len(g) - e.cur.defIndex + Len(fs)
       /\ Len(q) + Len(g) - e.cur.defIndex <= Len(w) + Len(g) - r.cur.defIndex
  <2>1. \A a, b, c, i, d \in Nat :
            i <= a /\ d <= b /\ d <= a =>
                /\ i <= a + c /\ d <= a + c /\ a + c + b - d = a + b - d + c
                /\ a + b - d <= a + c + b - d
    OBVIOUS
  <2>2. \A i, d \in Nat :
            i <= Len(q) /\ d <= Len(g) /\ d <= Len(q) =>
                /\ i <= Len(w) /\ d <= Len(w) /\ Len(w) + Len(g) - d = Len(q) + Len(g) - d + Len(fs)
                /\ Len(q) + Len(g) - d <= Len(w) + Len(g) - d
    <3>1. PICK a, b, c, m : a = Len(q) /\ b = Len(g) /\ c = Len(fs) /\ m = Len(w)
      OBVIOUS
    <3>2. a \in Nat /\ b \in Nat /\ c \in Nat /\ m = a + c
      BY ONLY <1>7, <1>10, <3>1, Zenon
    <3>3. \A i, d \in Nat :
              i <= a /\ d <= b /\ d <= a =>
                  /\ i <= m /\ d <= m /\ m + b - d = a + b - d + c
                  /\ a + b - d <= m + b - d
      BY ONLY <2>1, <3>2
    <3> QED
      BY ONLY <3>1, <3>3, Zenon
  <2> QED
    BY ONLY <1>5, <1>9, <1>11, <2>2, Zenon
<1>13. Weight(e.cur, g) = Len(q) + Len(g) - e.cur.defIndex
  BY <1>5, Zenon DEF Weight
<1>14. Weight(r.cur, g) = Len(w) + Len(g) - r.cur.defIndex
  BY <1>9, Zenon DEF Weight
<1>15. /\ Weight(r.cur, g) = Weight(e.cur, g) + Len(fs)
       /\ Weight(e.cur, g) <= Weight(r.cur, g)
       /\ Weight(r.cur, g) <= MaxList
  <2>1. Weight(r.cur, g) = Weight(e.cur, g) + Len(fs) /\ Weight(e.cur, g) <= Weight(r.cur, g)
    BY <1>12, <1>13, <1>14, Zenon
  <2> QED
    BY <2>1, Zenon
<1>16. Fits(r.cur, g) /\ Before(e.cur, r.cur, g)
  BY <1>5, <1>7, <1>9, <1>12, <1>15, Zenon DEF Fits, Before
<1>17. r.assertionLevel = e.assertionLevel /\ r.decisions = e.decisions /\ r.clauses = e.clauses
  BY <1>3, Zenon DEF SameSat
<1> QED
  BY <1>3, <1>5, <1>7, <1>9, <1>15, <1>16, <1>17, Zenon DEF Grown

\* The global definitions are formulas.
LEMMA DefinitionsAreFormulas ==
    ASSUME NEW g \in Seq(Definition)
    PROVE  g \in Seq(AnyFormula)
  BY DEF AnyFormula

\* Assertions::refresh: the definitions not seen yet are added.
LEMMA RefreshDefinitionsGrown ==
    ASSUME globals \in Seq(Definition), NEW e, Good(e, globals),
           NEW r, r = RefreshDefinitions(e)
    PROVE  /\ Grown(e, r, globals) /\ r.clauses = e.clauses
           /\ Weight(r.cur, globals) = Weight(e.cur, globals)
<1>1. Typed(e) /\ Versions(e, globals)
  BY Zenon DEF Good
<1>2. Parts(e) /\ Shape(e) /\ Kept(e)
  BY <1>1, TypedParts
<1>3. PICK g : g = globals /\ g \in Seq(Definition) /\ g \in Seq(AnyFormula)
  BY DefinitionsAreFormulas
<1>4. PICK q : /\ q = e.cur.list /\ q \in Seq(AnyFormula)
               /\ e.cur.index \in Nat /\ e.cur.defIndex \in Nat
  BY <1>2 DEF Kept, Version
<1>5. PICK d : d = e.cur.defIndex /\ d \in Nat
  BY <1>4
<1>6. PICK new : new = SubSeq(g, d + 1, Len(g))
  OBVIOUS
<1>7. PICK w : w = Joined(q, new)
  OBVIOUS
<1>8. PICK n : n = Len(g)
  OBVIOUS
<1>9. /\ Rest(e, r) /\ SameSat(e, r) /\ SameFlags(e, r)
      /\ r.saved = e.saved /\ r.level = e.level /\ r.mode = e.mode
      /\ r.failed = e.failed
      /\ r.cur = [list |-> w, index |-> e.cur.index, defIndex |-> n]
  <2>1. /\ Rest(e, r) /\ SameSat(e, r) /\ SameFlags(e, r)
        /\ r.saved = e.saved /\ r.level = e.level /\ r.mode = e.mode
        /\ r.failed = e.failed
        /\ r.cur = [list |-> e.cur.list
                               \o SubSeq(globals, e.cur.defIndex + 1, Len(globals)),
                    index |-> e.cur.index, defIndex |-> Len(globals)]
    BY <1>1, RefreshDefinitionsFields
  <2>2. w = e.cur.list \o SubSeq(globals, e.cur.defIndex + 1, Len(globals))
    BY <1>3, <1>4, <1>5, <1>6, <1>7, Zenon DEF Joined
  <2>3. n = Len(globals)
    BY <1>3, <1>8, Zenon
  <2> QED
    BY <2>1, <2>2, <2>3, Zenon
<1>10. Len(q) \in Nat /\ Len(g) \in Nat /\ n \in Nat
  BY ONLY <1>3, <1>4, <1>8
<1>11. e.cur.index <= Len(q) /\ d <= Len(g) /\ d <= Len(q)
  <2>1. UserLevel(e) \in 0..UserLevel(e) /\ At(e, UserLevel(e)) = e.cur
    <3>1. UserLevel(e) \in Nat /\ At(e, UserLevel(e)) = e.cur
      BY <1>2, AtIs
    <3> QED
      BY ONLY <3>1
  <2>2. Fits(e.cur, globals)
    BY <1>1, <2>1, Zenon DEF Versions
  <2> QED
    BY <1>3, <1>4, <1>5, <2>2, Zenon DEF Fits
<1>12. new \in Seq(AnyFormula) /\ Len(new) = Len(g) - d
  BY ONLY <1>3, <1>5, <1>6, <1>11, NewPart
<1>13. /\ w \in Seq(AnyFormula) /\ Len(w) = Len(q) + Len(new)
       /\ ToSet(q) \subseteq ToSet(w)
  BY ONLY <1>4, <1>7, <1>12, JoinedSet, Zenon
<1>14. /\ r.cur.list = w /\ r.cur.index = e.cur.index /\ r.cur.defIndex = n
       /\ r.cur \in Version
  <2>1. r.cur = [list |-> w, index |-> e.cur.index, defIndex |-> n]
    BY <1>9, Zenon
  <2> QED
    BY ONLY <1>4, <1>10, <1>13, <2>1 DEF Version
<1>15. /\ e.cur.index <= Len(w) /\ n <= Len(g) /\ n <= Len(w)
       /\ Len(w) + Len(g) - n = Len(q) + Len(g) - d
       /\ Len(q) + Len(g) - d <= Len(w) + Len(g) - n
  <2>1. PICK a, b, c, m : a = Len(q) /\ b = Len(g) /\ c = Len(new) /\ m = Len(w)
    OBVIOUS
  <2>2. a \in Nat /\ b \in Nat /\ d \in Nat /\ d <= b /\ d <= a /\ c = b - d /\ m = a + c /\ n = b
    BY ONLY <1>5, <1>8, <1>10, <1>11, <1>12, <1>13, <2>1, Zenon
  <2>3. \A i \in Nat :
            i <= a => /\ i <= m /\ n <= b /\ n <= m /\ m + b - n = a + b - d
                      /\ a + b - d <= m + b - n
    BY ONLY <2>2
  <2> QED
    BY ONLY <1>4, <1>11, <2>1, <2>3, Zenon
<1>16. Weight(e.cur, globals) = Len(q) + Len(g) - d
  BY <1>3, <1>4, <1>5, Zenon DEF Weight
<1>17. Weight(r.cur, globals) = Len(w) + Len(g) - n
  BY <1>3, <1>14, Zenon DEF Weight
<1>18. /\ Weight(r.cur, globals) = Weight(e.cur, globals)
       /\ Weight(e.cur, globals) <= Weight(r.cur, globals)
  BY <1>15, <1>16, <1>17, Zenon
<1>19. Weight(r.cur, globals) <= MaxList
  BY <1>1, <1>18, Zenon DEF Versions
<1>20. Fits(r.cur, globals) /\ Before(e.cur, r.cur, globals)
  BY <1>3, <1>4, <1>13, <1>14, <1>15, <1>18, Zenon DEF Fits, Before
<1>21. r.assertionLevel = e.assertionLevel /\ r.decisions = e.decisions /\ r.clauses = e.clauses
  BY <1>9, Zenon DEF SameSat
<1> QED
  BY <1>9, <1>14, <1>18, <1>19, <1>20, <1>21, Zenon DEF Grown

\* The new part of the list becomes clauses of the level in use.
LEMMA AssertNewGood ==
    ASSUME NEW g \in Seq(Definition), NEW e, Good(e, g), e.inited,
           NEW r, r = AssertNew(e)
    PROVE  /\ Grown(e, r, g) /\ Good(r, g) /\ r.inited
           /\ Weight(r.cur, g) = Weight(e.cur, g)
<1>1. Typed(e) /\ Versions(e, g) /\ InStep(e)
  BY Zenon DEF Good
<1>2. Parts(e) /\ Shape(e) /\ Kept(e)
  BY <1>1, TypedParts
<1>3. PICK q : /\ q = e.cur.list /\ q \in Seq(AnyFormula)
               /\ e.cur.index \in Nat /\ e.cur.defIndex \in Nat
  BY <1>2 DEF Kept, Version
<1>4. PICK k : k = e.cur.index /\ k \in Nat
  BY <1>3
<1>5. PICK new : new = SubSeq(q, k + 1, Len(q))
  OBVIOUS
<1>6. PICK n : n = Len(q)
  OBVIOUS
<1>7. PICK a : a = e.assertionLevel /\ a \in Nat
  BY <1>2, Zenon DEF Parts
<1>8. PICK added : added = ToSet(new) \X {a}
  OBVIOUS
<1>9. /\ Rest(e, r) /\ SameFlags(e, r)
      /\ r.saved = e.saved /\ r.level = e.level /\ r.mode = e.mode
      /\ r.failed = e.failed
      /\ r.cur = [list |-> q, index |-> n, defIndex |-> e.cur.defIndex]
      /\ r.assertionLevel = e.assertionLevel /\ r.decisions = e.decisions
      /\ r.clauses = e.clauses \union added
  <2>1. /\ Rest(e, r) /\ SameFlags(e, r)
        /\ r.saved = e.saved /\ r.level = e.level /\ r.mode = e.mode
        /\ r.failed = e.failed
        /\ r.cur = [list |-> e.cur.list, index |-> Len(e.cur.list),
                    defIndex |-> e.cur.defIndex]
        /\ r.assertionLevel = e.assertionLevel /\ r.decisions = e.decisions
        /\ r.clauses = e.clauses \union
               (ToSet(SubSeq(e.cur.list, e.cur.index + 1, Len(e.cur.list)))
                    \X {e.assertionLevel})
    BY <1>1, AssertNewFields
  <2>2. added = ToSet(SubSeq(e.cur.list, e.cur.index + 1, Len(e.cur.list)))
                    \X {e.assertionLevel}
    BY <1>3, <1>4, <1>5, <1>7, <1>8, Zenon
  <2> QED
    BY <1>3, <1>6, <2>1, <2>2, Zenon
<1>10. Len(q) \in Nat /\ n \in Nat /\ Len(g) \in Nat
  BY ONLY <1>3, <1>6, g \in Seq(Definition)
<1>11. k <= Len(q) /\ e.cur.defIndex <= Len(g) /\ e.cur.defIndex <= Len(q)
  <2>1. UserLevel(e) \in 0..UserLevel(e) /\ At(e, UserLevel(e)) = e.cur
    <3>1. UserLevel(e) \in Nat /\ At(e, UserLevel(e)) = e.cur
      BY <1>2, AtIs
    <3> QED
      BY ONLY <3>1
  <2>2. Fits(e.cur, g)
    BY <1>1, <2>1, Zenon DEF Versions
  <2> QED
    BY <1>3, <1>4, <2>2, Zenon DEF Fits
<1>12. new \in Seq(AnyFormula) /\ ToSet(new) \subseteq ToSet(q)
  BY ONLY <1>3, <1>4, <1>5, <1>11, NewPart
<1>13. /\ r.cur.list = q /\ r.cur.index = n /\ r.cur.defIndex = e.cur.defIndex
       /\ r.cur \in Version
  <2>1. r.cur = [list |-> q, index |-> n, defIndex |-> e.cur.defIndex]
    BY <1>9, Zenon
  <2> QED
    BY ONLY <1>3, <1>10, <2>1 DEF Version
<1>14. Weight(r.cur, g) = Weight(e.cur, g)
  BY <1>3, <1>13, Zenon DEF Weight
<1>15. Weight(r.cur, g) <= MaxList
  BY <1>1, <1>14, Zenon DEF Versions
<1>16. Fits(r.cur, g) /\ Before(e.cur, r.cur, g)
  <2>1. Weight(e.cur, g) \in Int
    BY <1>2, Weights DEF Kept
  <2>2. Weight(e.cur, g) <= Weight(r.cur, g)
    BY ONLY <1>14, <2>1
  <2>3. n <= Len(q)
    BY ONLY <1>6, <1>10
  <2> QED
    BY <1>3, <1>11, <1>13, <2>2, <2>3, Zenon DEF Fits, Before
<1>17. Grown(e, r, g)
  BY <1>9, <1>13, <1>15, <1>16, Zenon DEF Grown
<1>18. ToSet(q) \subseteq AnyFormula
  BY ONLY <1>3, OfSet
<1>19. \A c \in added : c \in AnyFormula \X Nat /\ c[1] \in ToSet(q) /\ c[2] = a
  BY ONLY <1>7, <1>8, <1>12, <1>18
<1>20. r.clauses \in SUBSET (AnyFormula \X Nat)
  <2>1. e.clauses \in SUBSET (AnyFormula \X Nat)
    BY <1>2, Zenon DEF Parts
  <2> QED
    BY <1>9, <1>19, <2>1, Zenon
<1>21. \A c \in r.clauses : \/ c \in e.clauses
                            \/ c[2] = UserLevel(e) - 1 /\ c[1] \in ToSet(r.cur.list)
  <2>1. a = UserLevel(e) - 1
    BY <1>1, <1>7, Zenon DEF InStep
  <2> QED
    BY <1>9, <1>13, <1>19, <2>1, Zenon
<1>22. Good(r, g) /\ r.inited
  BY <1>17, <1>20, <1>21, GrownGood
<1> QED
  BY <1>14, <1>17, <1>22, Zenon

\* Two growths are one.
LEMMA GrownTransitive ==
    ASSUME NEW g \in Seq(Definition), NEW e, e.cur \in Version, NEW x, Grown(e, x, g),
           NEW r, Grown(x, r, g)
    PROVE  Grown(e, r, g)
<1>1. Before(e.cur, r.cur, g)
  <2>1. Before(e.cur, x.cur, g) /\ Before(x.cur, r.cur, g) /\ x.cur \in Version /\ r.cur \in Version
    BY Zenon DEF Grown
  <2> QED
    BY <2>1, BeforeTransitive
<1>2. Rest(e, r) /\ SameFlags(e, r)
  BY Zenon DEF Grown, Rest, SameFlags
<1> QED
  BY <1>1, <1>2, Zenon DEF Grown

\* Adding the definitions not seen yet keeps the engine good.
LEMMA RefreshDefinitionsGood ==
    ASSUME globals \in Seq(Definition), NEW e, Good(e, globals), e.inited,
           NEW r, r = RefreshDefinitions(e)
    PROVE  /\ Grown(e, r, globals) /\ Good(r, globals) /\ r.inited
           /\ Weight(r.cur, globals) = Weight(e.cur, globals) /\ r.clauses = e.clauses
<1>1. /\ Grown(e, r, globals) /\ r.clauses = e.clauses
      /\ Weight(r.cur, globals) = Weight(e.cur, globals)
  BY RefreshDefinitionsGrown
<1>2. r.clauses \in SUBSET (AnyFormula \X Nat)
  <2>1. Typed(e)
    BY Zenon DEF Good
  <2> QED
    BY <1>1, <2>1, TypedParts, Zenon DEF Parts
<1>3. \A c \in r.clauses : \/ c \in e.clauses
                           \/ c[2] = UserLevel(e) - 1 /\ c[1] \in ToSet(r.cur.list)
  BY <1>1, Zenon
<1>4. Good(r, globals) /\ r.inited
  BY <1>1, <1>2, <1>3, GrownGood
<1> QED
  BY <1>1, <1>4, Zenon

\* Refresh keeps the engine good.
LEMMA RefreshGood ==
    ASSUME globals \in Seq(Definition), NEW e, Good(e, globals), e.inited,
           NEW r, r = RefreshAssertions(e)
    PROVE  /\ Grown(e, r, globals) /\ Good(r, globals) /\ r.inited
           /\ Weight(r.cur, globals) = Weight(e.cur, globals)
<1>1. PICK x : x = RefreshDefinitions(e)
  OBVIOUS
<1>2. /\ Grown(e, x, globals) /\ Good(x, globals) /\ x.inited
      /\ Weight(x.cur, globals) = Weight(e.cur, globals)
  BY <1>1, RefreshDefinitionsGood
<1>3. e.cur \in Version
  BY Zenon DEF Good, Typed
<1>4. r = AssertNew(x)
  BY <1>1, Zenon DEF RefreshAssertions
<1>5. /\ Grown(x, r, globals) /\ Good(r, globals) /\ r.inited
      /\ Weight(r.cur, globals) = Weight(x.cur, globals)
  BY <1>2, <1>4, AssertNewGood
<1>6. Grown(e, r, globals)
  BY <1>2, <1>3, <1>5, GrownTransitive
<1> QED
  BY <1>2, <1>5, <1>6, Zenon

\* What AssertAll assigns and what it leaves.
LEMMA AssertAllFields ==
    ASSUME NEW e, Typed(e), NEW r, r = AssertAll(e)
    PROVE  /\ Rest(e, r) /\ SameFlags(e, r) /\ SameUser(e, r)
           /\ r.level = e.level /\ r.mode = e.mode /\ r.failed = e.failed
           /\ r.assertionLevel = e.assertionLevel /\ r.decisions = e.decisions
           /\ r.clauses = e.clauses \union (ToSet(e.cur.list) \X {e.assertionLevel})
<1>1. Shape(e)
  BY Zenon DEF Typed
<1>2. PICK cs : cs = e.clauses \union (ToSet(e.cur.list) \X {e.assertionLevel})
  OBVIOUS
<1>3. r = [e EXCEPT !.clauses = cs]
  BY <1>2, Zenon DEF AssertAll
<1>4. /\ Rest(e, r) /\ SameFlags(e, r) /\ SameUser(e, r)
      /\ r.level = e.level /\ r.mode = e.mode /\ r.failed = e.failed
      /\ r.assertionLevel = e.assertionLevel /\ r.decisions = e.decisions
      /\ r.clauses = cs
  BY ONLY <1>1, <1>3 DEF Shape, Fields, Rest, SameFlags, SameUser
<1> QED
  BY <1>2, <1>4, Zenon

\* The whole list becomes clauses of the level in use.
LEMMA AssertAllGood ==
    ASSUME NEW g \in Seq(Definition), NEW e, Good(e, g), e.inited, NEW r, r = AssertAll(e)
    PROVE  /\ Grown(e, r, g) /\ Good(r, g) /\ r.inited /\ SameUser(e, r)
           /\ Weight(r.cur, g) = Weight(e.cur, g)
<1>1. Typed(e) /\ Versions(e, g) /\ InStep(e)
  BY Zenon DEF Good
<1>2. Parts(e) /\ Kept(e)
  BY <1>1, TypedParts
<1>3. PICK q : q = e.cur.list /\ q \in Seq(AnyFormula)
  BY <1>2 DEF Kept, Version
<1>4. PICK a : a = e.assertionLevel /\ a \in Nat
  BY <1>2, Zenon DEF Parts
<1>5. PICK added : added = ToSet(q) \X {a}
  OBVIOUS
<1>6. /\ Rest(e, r) /\ SameFlags(e, r) /\ SameUser(e, r)
      /\ r.level = e.level /\ r.mode = e.mode /\ r.failed = e.failed
      /\ r.assertionLevel = e.assertionLevel /\ r.decisions = e.decisions
      /\ r.clauses = e.clauses \union added
  <2>1. added = ToSet(e.cur.list) \X {e.assertionLevel}
    BY <1>3, <1>4, <1>5, Zenon
  <2> QED
    BY <1>1, <2>1, AssertAllFields, Zenon
<1>7. r.cur = e.cur /\ r.saved = e.saved
  BY <1>6, Zenon DEF SameUser
<1>8. r.cur \in Version /\ Fits(r.cur, g) /\ Weight(r.cur, g) <= MaxList
  <2>1. UserLevel(e) \in Nat /\ At(e, UserLevel(e)) = e.cur
    BY <1>2, AtIs
  <2>2. UserLevel(e) \in 0..UserLevel(e)
    BY ONLY <2>1
  <2> QED
    BY <1>1, <1>2, <1>7, <2>1, <2>2, Zenon DEF Versions, Kept
<1>9. Before(e.cur, r.cur, g)
  <2>1. Weight(e.cur, g) \in Int
    BY <1>2, Weights DEF Kept
  <2>2. Weight(e.cur, g) <= Weight(e.cur, g)
    BY ONLY <2>1
  <2> QED
    BY <1>7, <2>2, Zenon DEF Before
<1>10. Grown(e, r, g)
  BY <1>6, <1>7, <1>8, <1>9, Zenon DEF Grown
<1>11. ToSet(q) \subseteq AnyFormula
  BY ONLY <1>3, OfSet
<1>12. \A c \in added : c \in AnyFormula \X Nat /\ c[1] \in ToSet(q) /\ c[2] = a
  BY ONLY <1>4, <1>5, <1>11
<1>13. r.clauses \in SUBSET (AnyFormula \X Nat)
  <2>1. e.clauses \in SUBSET (AnyFormula \X Nat)
    BY <1>2, Zenon DEF Parts
  <2> QED
    BY <1>6, <1>12, <2>1, Zenon
<1>14. \A c \in r.clauses : \/ c \in e.clauses
                            \/ c[2] = UserLevel(e) - 1 /\ c[1] \in ToSet(r.cur.list)
  <2>1. a = UserLevel(e) - 1
    BY <1>1, <1>4, Zenon DEF InStep
  <2> QED
    BY <1>3, <1>6, <1>7, <1>12, <2>1, Zenon
<1>15. Good(r, g) /\ r.inited
  BY <1>10, <1>13, <1>14, GrownGood
<1> QED
  BY <1>6, <1>7, <1>10, <1>15, Zenon

\* A driver of its own tells the SAT solver the whole list, definitions included.
TellAll(e) == AssertAll(RefreshDefinitions(e))

\* Telling everything keeps the engine good.
LEMMA TellAllGood ==
    ASSUME globals \in Seq(Definition), NEW e, Good(e, globals), e.inited,
           NEW r, r = TellAll(e)
    PROVE  Grown(e, r, globals) /\ Good(r, globals) /\ r.inited
<1>1. PICK x : x = RefreshDefinitions(e)
  OBVIOUS
<1>2. Grown(e, x, globals) /\ Good(x, globals) /\ x.inited
  BY <1>1, RefreshDefinitionsGood
<1>3. r = AssertAll(x)
  BY <1>1, Zenon DEF TellAll
<1>4. Grown(x, r, globals) /\ Good(r, globals) /\ r.inited
  BY <1>2, <1>3, AssertAllGood
<1>5. e.cur \in Version
  BY Zenon DEF Good, Typed
<1> QED
  BY <1>2, <1>4, <1>5, GrownTransitive

-----------------------------------------------------------------------------
(* Pushing and popping one scope.                                          *)

\* The search is over and no pop is due.
Quiet(e) == e.pendingPops = 0 /\ e.decisions = 0 /\ ~e.needPostsolve

\* When the pops due are done none is due.
LEMMA SettledQuiet ==
    ASSUME NEW g, NEW e, NEW r, Settled(e, r, g)
    PROVE  Quiet(r) /\ Rest(e, r) /\ r.incremental = e.incremental
  BY Zenon DEF Settled, Quiet, Rest

PushScope(e) == SatPush(UserPushContext(e))

\* PushScope keeps the engine good.
LEMMA PushScopeGood ==
    ASSUME NEW g \in Seq(Definition), NEW e, Good(e, g), e.inited, e.incremental, Quiet(e),
           NEW r, r = PushScope(e)
    PROVE  /\ Good(r, g) /\ r.inited /\ Quiet(r)
           /\ Rest(e, r) /\ r.userLevels = e.userLevels /\ r.cur = e.cur /\ r.mode = e.mode
           /\ UserLevel(r) = UserLevel(e) + 1
<1>1. /\ Typed(e) /\ Versions(e, g) /\ InForce(e) /\ InStep(e)
      /\ e.failed \subseteq {"status solver"}
      /\ e.pendingPops = 0 /\ e.decisions = 0 /\ ~e.needPostsolve
  BY Zenon DEF Good, Quiet
<1>2. Parts(e) /\ Shape(e) /\ Kept(e)
  BY <1>1, TypedParts
<1>3. /\ e.saved # <<>> /\ e.saved[1] = Blank
      /\ e.assertionLevel = UserLevel(e) - 1
      /\ e.level = UserLevel(e) + e.decisions
  BY <1>1, Zenon DEF InStep
<1>4. PICK x : x = UserPushContext(e)
  OBVIOUS
<1>5. /\ Rest(e, x) /\ SameSat(e, x) /\ SameFlags(e, x)
      /\ x.saved = Append(e.saved, e.cur) /\ x.cur = e.cur
      /\ x.level = e.level /\ x.mode = e.mode /\ x.failed = e.failed
  BY <1>2, <1>4, UserPushFields, Zenon
<1>6. Shape(x) /\ x.decisions = 0 /\ r = SatPush(x)
  BY <1>1, <1>4, <1>5, Zenon DEF Rest, SameSat, PushScope
<1>7. /\ Rest(x, r) /\ SameUser(x, r) /\ SameFlags(x, r)
      /\ r.assertionLevel = x.assertionLevel + 1 /\ r.decisions = x.decisions
      /\ r.clauses = x.clauses
      /\ r.level = x.level + 1 /\ r.mode = x.mode /\ r.failed = x.failed
  BY ONLY <1>6, SatPushFields, ZenonT(60)
<1>8. /\ Rest(e, r) /\ SameFlags(e, r) /\ r.cur = e.cur /\ r.mode = e.mode /\ r.failed = e.failed
      /\ r.saved = Append(e.saved, e.cur)
      /\ r.assertionLevel = e.assertionLevel + 1 /\ r.decisions = e.decisions
      /\ r.clauses = e.clauses /\ r.level = e.level + 1
  BY ONLY <1>5, <1>7, Zenon DEF Rest, SameFlags, SameUser, SameSat
<1>9. /\ Kept(r) /\ UserLevel(r) = UserLevel(e) + 1
      /\ \A i \in 0..UserLevel(e) : At(r, i) = At(e, i)
  <2>1. r.saved = Append(e.saved, e.cur) /\ r.cur = e.cur
    BY <1>8, Zenon
  <2> QED
    BY ONLY <1>2, <2>1, PushAt, Zenon
<1>10. UserLevel(e) \in Nat /\ UserLevel(r) \in Nat /\ UserLevel(e) > 0
  BY <1>2, <1>3, <1>9, UserLevelIs
<1>11. Versions(r, g)
  <2>1. r.cur = e.cur
    BY <1>8, Zenon
  <2> QED
    BY <1>1, <1>2, <1>9, <2>1, VersionsPush
<1>12. InForce(r)
  <2>1. r.clauses = e.clauses
    BY <1>8, Zenon
  <2>2. UserLevel(r) >= UserLevel(e)
    BY ONLY <1>9, <1>10
  <2>3. \A i \in 0..UserLevel(e) : ToSet(At(e, i).list) \subseteq ToSet(At(r, i).list)
    BY <1>9, Zenon
  <2> QED
    BY ONLY <1>1, <1>2, <1>10, <2>1, <2>2, <2>3, InForceSame
<1>13. /\ r.level \in Nat /\ r.assertionLevel \in Nat /\ r.decisions \in 0..MaxDecisions
       /\ r.level = UserLevel(r) + r.decisions /\ r.assertionLevel = UserLevel(r) - 1
       /\ ~(r.decisions > 0) /\ r.decisions = 0
  <2>1. /\ r.assertionLevel = e.assertionLevel + 1 /\ r.decisions = e.decisions
        /\ r.level = e.level + 1
    BY <1>8, Zenon
  <2>2. /\ e.decisions = 0 /\ e.assertionLevel = UserLevel(e) - 1
        /\ e.level = UserLevel(e) + e.decisions
    BY <1>1, <1>3, Zenon
  <2> QED
    BY ONLY <1>9, <1>10, <2>1, <2>2, BoundsAssumption
<1>14. /\ r.pendingPops = 0 /\ ~r.needPostsolve /\ r.inited /\ r.userLevels = e.userLevels
       /\ r.pendingPops \in Nat /\ r.userLevels \in Seq(Nat) /\ r.mode \in SmtMode
       /\ r.needPostsolve \in BOOLEAN /\ r.inited \in BOOLEAN
       /\ r.clauses \in SUBSET (AnyFormula \X Nat)
  BY <1>1, <1>2, <1>8, Zenon DEF Parts, SameFlags
<1>15. Parts(r)
  BY <1>9, <1>13, <1>14, Zenon DEF Parts
<1>16. Typed(r)
  BY <1>1, <1>8, <1>15, PartsTyped
<1>17. /\ r.saved # <<>> /\ r.saved[1] = Blank
       /\ r.pendingPops \in 0..1 /\ r.pendingPops < UserLevel(r)
  <2>1. r.saved # <<>> /\ UserLevel(r) > 0
    BY <1>9, <1>10, UserLevelIs
  <2>2. r.saved[1] = At(r, 0) /\ e.saved[1] = At(e, 0) /\ 0 \in 0..UserLevel(e)
    BY <1>10, <2>1 DEF At
  <2>3. r.saved[1] = e.saved[1]
    BY <1>9, <2>2, Zenon
  <2>4. r.pendingPops \in 0..1 /\ r.pendingPops < UserLevel(r)
    BY ONLY <1>14, <2>1
  <2> QED
    BY <1>3, <2>1, <2>3, <2>4, Zenon
<1>18. InStep(r)
  <2>1. r.incremental
    BY <1>8, Zenon DEF Rest
  <2> QED
    BY <1>13, <1>17, <2>1, Zenon DEF InStep
<1>19. Good(r, g)
  BY <1>1, <1>8, <1>11, <1>12, <1>14, <1>16, <1>18, Zenon DEF Good
<1> QED
  BY <1>8, <1>9, <1>13, <1>14, <1>19, Zenon DEF Quiet

\* InternalPush keeps the engine good.
LEMMA InternalPushGood ==
    ASSUME globals \in Seq(Definition), NEW e, Good(e, globals), e.inited,
           NEW r, r = InternalPush(e)
    PROVE  /\ Good(r, globals) /\ r.inited /\ Quiet(r)
           /\ Rest(e, r) /\ r.userLevels = e.userLevels
           /\ r.mode = "UNSAT" => e.mode = "UNSAT" /\ ToSet(e.cur.list) \subseteq ToSet(r.cur.list)
           /\ UserLevel(r) = IF e.incremental THEN UserLevel(e) - e.pendingPops + 1
                             ELSE UserLevel(e)
           /\ Weight(r.cur, globals) <= Weight(e.cur, globals)
<1>1. PICK d : d = DoPendingPops(e)
  OBVIOUS
<1>2. Good(d, globals) /\ Settled(e, d, globals)
  BY <1>1, DoPendingPopsGood
<1>3. /\ Rest(e, d) /\ d.userLevels = e.userLevels /\ d.inited /\ Quiet(d)
      /\ UserLevel(d) = UserLevel(e) - e.pendingPops
      /\ Weight(d.cur, globals) <= Weight(e.cur, globals)
      /\ d.mode = "UNSAT" => e.mode = "UNSAT" /\ d.cur = e.cur
      /\ d.incremental = e.incremental
  BY <1>2, Zenon DEF Settled, Quiet, Before, Rest
<1>4. CASE e.incremental
  <2>1. PICK x : x = RefreshAssertions(d)
    OBVIOUS
  <2>2. /\ Grown(d, x, globals) /\ Good(x, globals) /\ x.inited
        /\ Weight(x.cur, globals) = Weight(d.cur, globals)
    BY <1>2, <1>3, <2>1, RefreshGood
  <2>3. r = PushScope(x)
    BY <1>1, <1>4, <2>1, Zenon DEF InternalPush, PushScope
  <2>4. Quiet(x) /\ x.incremental
    BY <1>3, <1>4, <2>2, Zenon DEF Grown, Quiet, SameFlags, Rest
  <2>5. /\ Good(r, globals) /\ r.inited /\ Quiet(r)
        /\ Rest(x, r) /\ r.userLevels = x.userLevels /\ r.cur = x.cur /\ r.mode = x.mode
        /\ UserLevel(r) = UserLevel(x) + 1
    BY <2>2, <2>3, <2>4, PushScopeGood
  <2>6. UserLevel(x) = UserLevel(d)
    BY <2>2, GrownLevel
  <2>7. Rest(e, r) /\ r.userLevels = e.userLevels
    BY <1>3, <2>2, <2>5, Zenon DEF Grown, Rest, SameFlags
  <2>8. r.mode = "UNSAT" => e.mode = "UNSAT" /\ ToSet(e.cur.list) \subseteq ToSet(r.cur.list)
    BY <1>3, <2>2, <2>5, Zenon DEF Grown, Before
  <2> QED
    BY <1>3, <1>4, <2>2, <2>5, <2>6, <2>7, <2>8, Zenon
<1>5. CASE ~e.incremental
  <2>1. r = d
    BY <1>1, <1>5, Zenon DEF InternalPush
  <2>2. UserLevel(d) = UserLevel(e)
    <3>1. UserLevel(e) = 1 /\ e.pendingPops \in 0..1 /\ e.pendingPops < UserLevel(e)
      BY <1>5, Zenon DEF Good, InStep
    <3> QED
      BY ONLY <1>3, <3>1
  <2>3. ToSet(e.cur.list) \subseteq ToSet(e.cur.list)
    OBVIOUS
  <2> QED
    BY <1>2, <1>3, <1>5, <2>1, <2>2, <2>3, Zenon
<1> QED
  BY <1>4, <1>5, Zenon

\* internalPop(true).
PopNow(e) == InternalPop(e, TRUE)

\* popNow makes one more pop due and does them.
LEMMA PopNowIs ==
    ASSUME NEW e, e.incremental, NEW p, p = [e EXCEPT !.pendingPops = e.pendingPops + 1]
    PROVE  PopNow(e) = DoPendingPops(p)
  BY Zenon DEF PopNow, InternalPop

\* PopNow keeps the engine good.
LEMMA PopNowGood ==
    ASSUME NEW g \in Seq(Definition), NEW e, Good(e, g), e.inited, e.incremental, Quiet(e),
           UserLevel(e) > 1, NEW r, r = PopNow(e)
    PROVE  /\ Good(r, g) /\ r.inited /\ Quiet(r)
           /\ Rest(e, r) /\ r.userLevels = e.userLevels
           /\ r.mode = "UNSAT" => e.mode = "UNSAT"
           /\ UserLevel(r) = UserLevel(e) - 1
           /\ Before(r.cur, e.cur, g)
<1>1. /\ Typed(e) /\ Versions(e, g) /\ InForce(e) /\ InStep(e)
      /\ e.failed \subseteq {"status solver"}
      /\ e.pendingPops = 0 /\ e.decisions = 0 /\ ~e.needPostsolve
  BY Zenon DEF Good, Quiet
<1>2. Parts(e) /\ Shape(e) /\ Kept(e)
  BY <1>1, TypedParts
<1>3. PICK n : n = e.pendingPops + 1
  OBVIOUS
<1>4. n = 1 /\ n \in 0..1 /\ n \in Nat /\ n < UserLevel(e)
  <2>1. UserLevel(e) \in Nat
    BY <1>2, UserLevelIs
  <2>2. e.pendingPops = 0
    BY <1>1, Zenon
  <2> QED
    BY ONLY <2>2, <1>3, <2>1, UserLevel(e) > 1
<1>5. PICK p : p = [e EXCEPT !.pendingPops = n]
  OBVIOUS
<1>6. /\ Rest(e, p) /\ SameUser(e, p) /\ SameSat(e, p)
      /\ p.pendingPops = n /\ p.userLevels = e.userLevels
      /\ p.needPostsolve = e.needPostsolve /\ p.inited = e.inited
      /\ p.level = e.level /\ p.mode = e.mode /\ p.failed = e.failed
  BY ONLY <1>2, <1>5 DEF Shape, Fields, Rest, SameUser, SameSat
<1>7. p.saved = e.saved /\ p.cur = e.cur /\ UserLevel(p) = UserLevel(e) /\ Kept(p)
  BY <1>2, <1>6, Zenon DEF SameUser, UserLevel, Kept
<1>8. Parts(p)
  BY <1>2, <1>4, <1>6, <1>7, Zenon DEF Parts, SameSat
<1>9. Typed(p)
  BY <1>1, <1>6, <1>8, PartsTyped
<1>10. \A i : At(p, i) = At(e, i)
  BY <1>7, Zenon DEF At
<1>11. Versions(p, g) /\ InForce(p)
  BY <1>1, <1>6, <1>7, <1>10, Zenon DEF Versions, InForce, SameSat
<1>12. InStep(p)
  <2>1. p.incremental
    BY <1>6, Zenon DEF Rest
  <2> QED
    BY <1>1, <1>4, <1>6, <1>7, <2>1, Zenon DEF InStep, SameSat
<1>13. Good(p, g) /\ p.inited
  BY <1>1, <1>6, <1>9, <1>11, <1>12, Zenon DEF Good
<1>14. r = DoPendingPops(p)
  <2>1. p = [e EXCEPT !.pendingPops = e.pendingPops + 1]
    BY <1>3, <1>5, Zenon
  <2> QED
    BY <2>1, PopNowIs, Zenon
<1>15. Good(r, g) /\ Settled(p, r, g)
  BY <1>13, <1>14, DoPendingPopsGood
<1>16. /\ Rest(p, r) /\ r.userLevels = e.userLevels /\ r.inited /\ Quiet(r)
       /\ UserLevel(r) = UserLevel(e) - 1
       /\ Before(r.cur, e.cur, g)
       /\ r.mode = "UNSAT" => e.mode = "UNSAT"
  BY <1>4, <1>6, <1>7, <1>13, <1>15, Zenon DEF Settled, Quiet
<1>17. Rest(e, r)
  BY <1>6, <1>16, Zenon DEF Rest
<1> QED
  BY <1>15, <1>16, <1>17, Zenon

-----------------------------------------------------------------------------
(* Popping down to a level.                                                *)

\* The states a loop of pops goes through.
Pops(f, e, count) == f = [n \in 0..count |-> IF n = 0 THEN e ELSE PopNow(f[n - 1])]

\* The states between the pops of a loop.
LEMMA PopsExist ==
    ASSUME NEW e
    PROVE  \A n \in Nat : \E f : Pops(f, e, n)
<1> DEFINE S == {n \in Nat : \E f : Pops(f, e, n)}
<1>1. 0 \in S
  <2>1. PICK f : f = [k \in 0..0 |-> e]
    OBVIOUS
  <2>2. ASSUME NEW k \in 0..0
        PROVE  f[k] = IF k = 0 THEN e ELSE PopNow(f[k - 1])
    <3>1. k = 0
      BY ONLY <2>2
    <3> QED
      BY <2>1, <2>2, <3>1, Zenon
  <2>3. f = [k \in 0..0 |-> f[k]]
    BY <2>1, Zenon
  <2>4. Pops(f, e, 0)
    BY <2>2, <2>3, Zenon DEF Pops
  <2> QED
    BY <2>4
<1>2. ASSUME NEW n \in Nat, n \in S
      PROVE  n + 1 \in S
  <2>1. PICK f : Pops(f, e, n)
    BY <1>2
  <2>2. PICK x : x = PopNow(f[n])
    OBVIOUS
  <2>3. PICK m : m = n + 1 /\ m \in Nat
    OBVIOUS
  <2>4. PICK h : h = [k \in 0..m |-> IF k = m THEN x ELSE f[k]]
    OBVIOUS
  <2>5. ASSUME NEW k \in 0..m
        PROVE  h[k] = IF k = 0 THEN e ELSE PopNow(h[k - 1])
    <3>1. CASE k = m
      <4>1. k # 0 /\ k - 1 = n /\ n # m /\ n \in 0..m
        BY ONLY <2>3, <3>1, n \in Nat
      <4>2. h[k] = x /\ h[k - 1] = f[n]
        BY <2>4, <2>5, <3>1, <4>1, Zenon
      <4> QED
        BY <2>2, <4>1, <4>2, Zenon
    <3>2. CASE k # m
      <4>1. k \in 0..n
        BY ONLY <2>3, <2>5, <3>2, n \in Nat
      <4>2. h[k] = f[k]
        BY <2>4, <2>5, <3>2, Zenon
      <4>3. f[k] = IF k = 0 THEN e ELSE PopNow(f[k - 1])
        BY <2>1, <4>1, Zenon DEF Pops
      <4>4. CASE k = 0
        BY <4>2, <4>3, <4>4, Zenon
      <4>5. CASE k # 0
        <5>1. k - 1 \in 0..m /\ k - 1 # m
          BY ONLY <2>3, <4>1, <4>5, n \in Nat
        <5>2. h[k - 1] = f[k - 1]
          BY <2>4, <5>1, Zenon
        <5> QED
          BY <4>2, <4>3, <4>5, <5>2, Zenon
      <4> QED
        BY <4>4, <4>5, Zenon
    <3> QED
      BY <3>1, <3>2, Zenon
  <2>6. h = [k \in 0..m |-> h[k]]
    BY <2>4, Zenon
  <2>7. Pops(h, e, m)
    BY <2>5, <2>6, Zenon DEF Pops
  <2> QED
    BY <2>3, <2>7
<1> HIDE DEF S
<1>3. Nat \subseteq S
  BY <1>1, <1>2, Counting
<1> QED
  BY <1>3 DEF S

\* After n pops.
Lower(e, r, n, g) ==
    /\ Good(r, g) /\ r.inited /\ Quiet(r) /\ r.incremental
    /\ Rest(e, r) /\ r.userLevels = e.userLevels
    /\ r.mode = "UNSAT" => e.mode = "UNSAT"
    /\ UserLevel(r) = UserLevel(e) - n
    /\ Before(r.cur, e.cur, g)

\* No pop yet.
LEMMA LowerNone ==
    ASSUME NEW g \in Seq(Definition), NEW e, Good(e, g), e.inited, e.incremental, Quiet(e)
    PROVE  Lower(e, e, 0, g)
<1>1. Shape(e) /\ Kept(e) /\ e.cur \in Version
  BY TypedParts DEF Good, Kept
<1>2. UserLevel(e) = UserLevel(e) - 0
  <2>1. UserLevel(e) \in Nat
    BY <1>1, UserLevelIs
  <2> QED
    BY ONLY <2>1
<1>3. Before(e.cur, e.cur, g)
  BY <1>1, Weights
<1>4. Rest(e, e)
  BY <1>1, Zenon DEF Rest
<1> QED
  BY <1>2, <1>3, <1>4, Zenon DEF Lower

\* One pop more.
LEMMA LowerOne ==
    ASSUME NEW g \in Seq(Definition), NEW e, Kept(e), NEW x, NEW n \in Nat, Lower(e, x, n, g),
           n + 1 < UserLevel(e), NEW r, r = PopNow(x)
    PROVE  Lower(e, r, n + 1, g)
<1>1. /\ Good(x, g) /\ x.inited /\ Quiet(x) /\ x.incremental
      /\ Rest(e, x) /\ x.userLevels = e.userLevels
      /\ x.mode = "UNSAT" => e.mode = "UNSAT"
      /\ UserLevel(x) = UserLevel(e) - n
      /\ Before(x.cur, e.cur, g)
  BY Zenon DEF Lower
<1>2. UserLevel(e) \in Nat /\ x.cur \in Version /\ e.cur \in Version
  <2>1. x.cur \in Version
    BY <1>1, Zenon DEF Good, Typed
  <2> QED
    BY <2>1, UserLevelIs DEF Kept
<1>3. UserLevel(x) > 1 /\ UserLevel(x) - 1 = UserLevel(e) - (n + 1)
  <2>1. UserLevel(x) = UserLevel(e) - n
    BY <1>1, Zenon
  <2> QED
    BY ONLY <1>2, <2>1, n \in Nat, n + 1 < UserLevel(e)
<1>4. /\ Good(r, g) /\ r.inited /\ Quiet(r)
      /\ Rest(x, r) /\ r.userLevels = x.userLevels
      /\ r.mode = "UNSAT" => x.mode = "UNSAT"
      /\ UserLevel(r) = UserLevel(x) - 1
      /\ Before(r.cur, x.cur, g)
  BY <1>1, <1>3, PopNowGood
<1>5. r.cur \in Version
  BY <1>4, Zenon DEF Good, Typed
<1>6. Before(r.cur, e.cur, g)
  <2>1. Before(r.cur, x.cur, g) /\ Before(x.cur, e.cur, g)
    BY <1>1, <1>4, Zenon
  <2> QED
    BY <1>2, <1>5, <2>1, BeforeTransitive
<1>7. Rest(e, r) /\ r.incremental
  BY <1>1, <1>4, Zenon DEF Rest
<1> QED
  BY <1>1, <1>3, <1>4, <1>6, <1>7, Zenon DEF Lower

\* PopUserTo keeps the engine good.
LEMMA PopUserToGood ==
    ASSUME NEW g \in Seq(Definition), NEW e, Good(e, g), e.inited, e.incremental, Quiet(e),
           NEW level \in Nat, level > 0, level <= UserLevel(e),
           NEW r, r = PopUserTo(e, level)
    PROVE  Lower(e, r, UserLevel(e) - level, g)
<1>1. PICK count : count = UserLevel(e) - level
  OBVIOUS
<1>2. Kept(e)
  BY TypedParts DEF Good
<1>3. count \in Nat /\ count < UserLevel(e) /\ UserLevel(e) \in Nat
  <2>1. UserLevel(e) \in Nat
    BY <1>2, UserLevelIs
  <2> QED
    BY ONLY <1>1, <2>1, level \in Nat, level > 0, level <= UserLevel(e)
<1>4. PICK f : f = CHOOSE h : Pops(h, e, count)
  OBVIOUS
<1>5. Pops(f, e, count)
  <2>1. \E h : Pops(h, e, count)
    BY <1>3, PopsExist, Zenon
  <2> QED
    BY <1>4, <2>1, Zenon
<1>6. r = f[count]
  BY <1>1, <1>4, Zenon DEF PopUserTo, PopNow, Pops
<1> DEFINE S == {n \in Nat : n <= count => Lower(e, f[n], n, g)}
<1>7. 0 \in S
  <2>1. 0 \in 0..count
    BY ONLY <1>3
  <2>2. f[0] = e
    BY <1>5, <2>1, Zenon DEF Pops
  <2>3. Lower(e, e, 0, g)
    BY LowerNone
  <2> QED
    BY <2>2, <2>3
<1>8. ASSUME NEW n \in Nat, n \in S
      PROVE  n + 1 \in S
  <2>1. ASSUME n + 1 <= count
        PROVE  Lower(e, f[n + 1], n + 1, g)
    <3>1. n <= count /\ n + 1 \in 0..count /\ n + 1 # 0 /\ n + 1 - 1 = n /\ n + 1 < UserLevel(e)
      BY ONLY <1>3, <2>1, n \in Nat
    <3>2. Lower(e, f[n], n, g)
      BY <1>8, <3>1, Zenon
    <3>3. f[n + 1] = PopNow(f[n])
      <4>1. PICK m : m = n + 1
        OBVIOUS
      <4>2. m \in 0..count /\ m # 0 /\ m - 1 = n
        BY ONLY <1>3, <3>1, <4>1, n \in Nat
      <4>3. f[m] = PopNow(f[m - 1])
        BY <1>5, <4>2, Zenon DEF Pops
      <4> QED
        BY <4>1, <4>2, <4>3, Zenon
    <3> QED
      BY <1>2, <3>1, <3>2, <3>3, LowerOne
  <2> QED
    BY <2>1
<1> HIDE DEF S
<1>9. count \in S
  BY <1>3, <1>7, <1>8, Counting
<1>10. Lower(e, f[count], count, g)
  <2>1. count <= count
    BY ONLY <1>3
  <2> QED
    BY <1>9, <2>1, Zenon DEF S
<1> QED
  BY <1>1, <1>6, <1>10, Zenon

-----------------------------------------------------------------------------
(* What is not about scopes: modes, recorded levels, answers.              *)

Relabelled(e, r) ==
    /\ SameUser(e, r) /\ SameSat(e, r) /\ r.level = e.level
    /\ r.pendingPops = e.pendingPops /\ r.needPostsolve = e.needPostsolve
    /\ r.inited = e.inited /\ r.incremental = e.incremental
    /\ r.failed \subseteq {"status solver"}

\* A call that changes only the flags keeps the engine good.
LEMMA RelabelledGood ==
    ASSUME NEW g, NEW e, Good(e, g), NEW r, Typed(r), Relabelled(e, r)
    PROVE  Good(r, g) /\ UserLevel(r) = UserLevel(e) /\ r.cur = e.cur /\ (Quiet(e) => Quiet(r))
<1>1. r.saved = e.saved /\ r.cur = e.cur /\ UserLevel(r) = UserLevel(e)
  BY Zenon DEF Relabelled, SameUser, UserLevel
<1>2. \A i : At(r, i) = At(e, i)
  BY <1>1, Zenon DEF At
<1>3. Versions(r, g)
  BY <1>1, <1>2, Zenon DEF Good, Versions
<1>4. InForce(r)
  BY <1>1, <1>2, Zenon DEF Good, InForce, Relabelled, SameSat
<1>5. CASE e.inited
  <2>1. InStep(e)
    BY <1>5, Zenon DEF Good
  <2>2. InStep(r)
    BY <1>1, <2>1, Zenon DEF InStep, Relabelled, SameSat
  <2> QED
    BY <1>1, <1>3, <1>4, <1>5, <2>2, Zenon DEF Good, Relabelled, Quiet, SameSat
<1>6. CASE ~e.inited
  <2>1. Unused(e)
    BY <1>6, Zenon DEF Good
  <2>2. Unused(r)
    BY <1>1, <2>1, Zenon DEF Unused, Relabelled, SameSat
  <2> QED
    BY <1>1, <1>3, <1>4, <1>6, <2>2, Zenon DEF Good, Relabelled, Quiet, SameSat
<1> QED
  BY <1>5, <1>6, Zenon

InMode(e, m) == [e EXCEPT !.mode = m]
WithLevels(e, q) == [e EXCEPT !.userLevels = q]

OnlyMode(e, r, m) ==
    /\ Rest(e, r) /\ SameFlags(e, r) /\ r.mode = m
    /\ UserLevel(r) = UserLevel(e) /\ r.cur = e.cur /\ (Quiet(e) => Quiet(r))

OnlyLevels(e, r, q) ==
    /\ Rest(e, r) /\ r.userLevels = q /\ r.mode = e.mode
    /\ r.inited = e.inited /\ r.pendingPops = e.pendingPops
    /\ UserLevel(r) = UserLevel(e) /\ r.cur = e.cur /\ (Quiet(e) => Quiet(r))

\* Changing the mode keeps the engine good.
LEMMA ModeGood ==
    ASSUME NEW g, NEW e, Good(e, g), NEW m, m \in SmtMode
    PROVE  Good(InMode(e, m), g) /\ OnlyMode(e, InMode(e, m), m)
<1> DEFINE r == InMode(e, m)
<1>1. Typed(e) /\ e.failed \subseteq {"status solver"}
  BY Zenon DEF Good
<1>2. Parts(e) /\ Shape(e) /\ Kept(e)
  BY <1>1, TypedParts
<1>3. /\ Rest(e, r) /\ SameUser(e, r) /\ SameSat(e, r) /\ SameFlags(e, r)
      /\ r.level = e.level /\ r.mode = m /\ r.failed = e.failed
  BY ONLY <1>2 DEF InMode, Shape, Fields, Rest, SameUser, SameSat, SameFlags
<1> HIDE DEF r
<1>4. Kept(r)
  BY <1>2, <1>3, Zenon DEF Kept, SameUser
<1>5. Parts(r)
  BY <1>2, <1>3, <1>4, Zenon DEF Parts, SameSat, SameFlags
<1>6. Typed(r)
  BY <1>1, <1>3, <1>5, PartsTyped
<1>7. Relabelled(e, r)
  BY <1>1, <1>3, Zenon DEF Relabelled, SameFlags, Rest
<1>8. Good(r, g) /\ UserLevel(r) = UserLevel(e) /\ r.cur = e.cur /\ (Quiet(e) => Quiet(r))
  BY <1>6, <1>7, RelabelledGood
<1> QED
  BY <1>3, <1>8, Zenon DEF OnlyMode, r

\* Changing the list of user scopes keeps the engine good.
LEMMA UserLevelsGood ==
    ASSUME NEW g, NEW e, Good(e, g), NEW q, q \in Seq(Nat)
    PROVE  Good(WithLevels(e, q), g) /\ OnlyLevels(e, WithLevels(e, q), q)
<1> DEFINE r == WithLevels(e, q)
<1>1. Typed(e) /\ e.failed \subseteq {"status solver"}
  BY Zenon DEF Good
<1>2. Parts(e) /\ Shape(e) /\ Kept(e)
  BY <1>1, TypedParts
<1>3. /\ Rest(e, r) /\ SameUser(e, r) /\ SameSat(e, r)
      /\ r.pendingPops = e.pendingPops /\ r.userLevels = q
      /\ r.needPostsolve = e.needPostsolve /\ r.inited = e.inited
      /\ r.level = e.level /\ r.mode = e.mode /\ r.failed = e.failed
  BY ONLY <1>2 DEF WithLevels, Shape, Fields, Rest, SameUser, SameSat
<1> HIDE DEF r
<1>4. Kept(r)
  BY <1>2, <1>3, Zenon DEF Kept, SameUser
<1>5. Parts(r)
  BY <1>2, <1>3, <1>4, Zenon DEF Parts, SameSat
<1>6. Typed(r)
  BY <1>1, <1>3, <1>5, PartsTyped
<1>7. Relabelled(e, r)
  BY <1>1, <1>3, Zenon DEF Relabelled, Rest
<1>8. Good(r, g) /\ UserLevel(r) = UserLevel(e) /\ r.cur = e.cur /\ (Quiet(e) => Quiet(r))
  BY <1>6, <1>7, RelabelledGood
<1> QED
  BY <1>3, <1>8, Zenon DEF OnlyLevels, r

\* The modes the answers set.
LEMMA Modes ==
    /\ "ASSERT" \in SmtMode /\ "START" \in SmtMode /\ Answers \subseteq SmtMode
    /\ Synths \subseteq SmtMode /\ "ASSERT" # "UNSAT"
    /\ "SAT_UNKNOWN" \in SmtMode /\ "SAT_UNKNOWN" # "UNSAT" /\ "UNSAT" \notin Synths
  BY DEF SmtMode, Answers, Synths

-----------------------------------------------------------------------------
(* The user's push and pop.                                                *)

\* UserPush keeps the engine good.
LEMMA UserPushGood ==
    ASSUME globals \in Seq(Definition), NEW e, Good(e, globals), e.inited, e.incremental,
           Quiet(e), Exact(e), NEW r, r = UserPush(e)
    PROVE  Good(r, globals) /\ r.inited /\ Exact(r) /\ r.mode # "UNSAT"
<1>1. Typed(e) /\ e.pendingPops = 0
  BY Zenon DEF Good, Quiet
<1>2. Parts(e) /\ Shape(e) /\ Kept(e)
  BY <1>1, TypedParts
<1>3. PICK q : q = e.userLevels /\ q \in Seq(Nat)
  BY <1>2, Zenon DEF Parts
<1>4. PICK n : n = UserLevel(e) /\ n \in Nat
  BY <1>2, UserLevelIs
<1>5. n = 1 + Len(q) /\ \A i \in DOMAIN q : q[i] = i
  <2>1. n = 1 + Len(q) + e.pendingPops /\ \A i \in DOMAIN q : q[i] = i
    BY <1>3, <1>4, Zenon DEF Exact
  <2>2. e.pendingPops = 0
    BY <1>1, Zenon
  <2> QED
    BY ONLY <1>3, <1>4, <2>1, <2>2
<1>6. PICK p : p = Append(q, n)
  OBVIOUS
<1>7. p \in Seq(Nat) /\ Len(p) = Len(q) + 1 /\ \A i \in DOMAIN p : p[i] = i
  <2>1. /\ p \in Seq(Nat) /\ Len(p) = Len(q) + 1
        /\ \A i \in 1..Len(q) : p[i] = q[i]
        /\ p[Len(q) + 1] = n
    BY ONLY <1>3, <1>4, <1>6, Appending
  <2>2. DOMAIN p = 1..Len(q) + 1 /\ DOMAIN q = 1..Len(q) /\ Len(q) \in Nat
    BY ONLY <1>3, <2>1
  <2>3. \A i \in DOMAIN p : i \in 1..Len(q) \/ i = Len(q) + 1
    BY ONLY <2>2
  <2>4. Len(q) + 1 = n
    BY ONLY <1>4, <1>5, <2>2
  <2>5. \A i \in DOMAIN p : p[i] = i
    BY ONLY <1>5, <2>1, <2>2, <2>3, <2>4, Zenon
  <2> QED
    BY <2>1, <2>5, Zenon
<1>8. PICK y : y = InMode(e, "ASSERT")
  OBVIOUS
<1>9. PICK x : x = WithLevels(y, p)
  OBVIOUS
<1>10. r = InternalPush(x)
  <2>1. x = [e EXCEPT !.mode = "ASSERT", !.userLevels = Append(@, UserLevel(e))]
    <3>1. y.userLevels = e.userLevels
      BY ONLY <1>2, <1>8 DEF InMode, Shape, Fields
    <3>2. x = [[e EXCEPT !.mode = "ASSERT"]
                  EXCEPT !.userLevels = Append(e.userLevels, UserLevel(e))]
      BY <1>3, <1>4, <1>6, <1>8, <1>9, Zenon DEF InMode, WithLevels
    <3> QED
      BY ONLY <1>2, <3>2 DEF Shape, Fields
  <2> QED
    BY <2>1, Zenon DEF UserPush
<1>11. Good(y, globals) /\ OnlyMode(e, y, "ASSERT")
  BY <1>8, Modes, ModeGood, Zenon
<1>12. Good(x, globals) /\ OnlyLevels(y, x, p)
  BY <1>7, <1>9, <1>11, UserLevelsGood, Zenon
<1>13. /\ x.inited /\ x.incremental /\ x.pendingPops = 0 /\ UserLevel(x) = n
       /\ x.mode = "ASSERT"
  BY <1>1, <1>4, <1>11, <1>12, Zenon DEF OnlyMode, OnlyLevels, SameFlags, Rest
<1>14. /\ Good(r, globals) /\ r.inited /\ Quiet(r)
       /\ Rest(x, r) /\ r.userLevels = x.userLevels
       /\ r.mode = "UNSAT" => x.mode = "UNSAT"
       /\ UserLevel(r) = IF x.incremental THEN UserLevel(x) - x.pendingPops + 1
                         ELSE UserLevel(x)
  BY <1>10, <1>12, <1>13, InternalPushGood
<1>15. UserLevel(r) = 1 + Len(r.userLevels) + r.pendingPops
  <2>1. UserLevel(r) = n - 0 + 1 /\ r.userLevels = p /\ r.pendingPops = 0
    BY <1>12, <1>13, <1>14, Zenon DEF Quiet, OnlyLevels
  <2>2. Len(q) \in Nat
    BY ONLY <1>3
  <2>3. n - 0 + 1 = 1 + Len(p) + 0
    BY ONLY <1>4, <1>5, <1>7, <2>2
  <2> QED
    BY <2>1, <2>3, Zenon
<1>16. \A i \in DOMAIN r.userLevels : r.userLevels[i] = i
  BY <1>7, <1>12, <1>14, Zenon DEF OnlyLevels
<1>17. Exact(r)
  BY <1>14, <1>15, <1>16, Zenon DEF Exact
<1>18. r.mode # "UNSAT"
  BY <1>13, <1>14, Modes, Zenon
<1> QED
  BY <1>14, <1>17, <1>18, Zenon

\* What a user pop does: one scope and one recorded level less.
Popped(e, r, g) ==
    /\ r.inited /\ r.incremental /\ Quiet(r) /\ Rest(e, r) /\ Exact(r) /\ r.mode # "UNSAT"
    /\ UserLevel(r) = UserLevel(e) - 1 /\ Len(r.userLevels) = Len(e.userLevels) - 1
    /\ Before(r.cur, e.cur, g)

\* UserPop keeps the engine good.
LEMMA UserPopGood ==
    ASSUME NEW g \in Seq(Definition), NEW e, Good(e, g), e.inited, e.incremental,
           Quiet(e), Exact(e), e.userLevels # <<>>
    PROVE  Good(UserPop(e), g) /\ Popped(e, UserPop(e), g)
<1>1. Typed(e) /\ e.pendingPops = 0 /\ Quiet(e)
  BY Zenon DEF Good, Quiet
<1>2. Parts(e) /\ Shape(e) /\ Kept(e)
  BY <1>1, TypedParts
<1>3. PICK q : q = e.userLevels /\ q \in Seq(Nat) /\ q # <<>>
  BY <1>2, Zenon DEF Parts
<1>4. PICK n : n = UserLevel(e) /\ n \in Nat
  BY <1>2, UserLevelIs
<1>5. n = 1 + Len(q) /\ \A i \in DOMAIN q : q[i] = i
  <2>1. n = 1 + Len(q) + e.pendingPops /\ \A i \in DOMAIN q : q[i] = i
    BY <1>3, <1>4, Zenon DEF Exact
  <2>2. e.pendingPops = 0
    BY <1>1, Zenon
  <2> QED
    BY ONLY <1>3, <1>4, <2>1, <2>2
<1>6. PICK p : p = Front(q)
  OBVIOUS
<1>7. p \in Seq(Nat) /\ Len(p) = Len(q) - 1 /\ \A i \in 1..Len(q) - 1 : p[i] = q[i]
  BY ONLY <1>3, <1>6, FrontIs
<1>8. Len(q) \in Nat /\ Len(q) > 0 /\ Last(q) = q[Len(q)]
  BY ONLY <1>3, LastIs
<1>9. PICK level : level = Last(q)
  OBVIOUS
<1>10. level = n - 1 /\ level \in Nat /\ level > 0 /\ level < n /\ level <= n /\ n - level = 1
  <2>1. Len(q) \in DOMAIN q
    BY ONLY <1>3, <1>8
  <2>2. level = Len(q)
    BY <1>5, <1>8, <1>9, <2>1, Zenon
  <2> QED
    BY ONLY <1>4, <1>5, <1>8, <2>2
<1>11. \A i \in DOMAIN p : p[i] = i
  <2>1. \A i \in DOMAIN p : i \in 1..Len(q) - 1 /\ i \in DOMAIN q
    BY ONLY <1>3, <1>7, <1>8
  <2> QED
    BY <1>5, <1>7, <2>1, Zenon
<1>12. PICK a : a = InMode(e, "ASSERT")
  OBVIOUS
<1>13. Good(a, g) /\ OnlyMode(e, a, "ASSERT")
  BY <1>12, Modes, ModeGood, Zenon
<1>14. /\ a.inited /\ a.incremental /\ Quiet(a) /\ UserLevel(a) = n /\ a.mode = "ASSERT"
       /\ a.userLevels = q /\ a.cur = e.cur /\ Rest(e, a)
  BY <1>1, <1>3, <1>4, <1>13, Zenon DEF OnlyMode, SameFlags, Rest
<1>15. PICK x : x = PopUserTo(a, level)
  OBVIOUS
<1>16. Lower(a, x, UserLevel(a) - level, g)
  <2>1. level <= UserLevel(a)
    BY <1>10, <1>14, Zenon
  <2> QED
    BY <1>10, <1>13, <1>14, <1>15, <2>1, PopUserToGood
<1>17. /\ Good(x, g) /\ x.inited /\ Quiet(x) /\ x.incremental
       /\ Rest(a, x) /\ x.userLevels = q /\ x.mode # "UNSAT"
       /\ UserLevel(x) = n - 1 /\ Before(x.cur, e.cur, g) /\ x.pendingPops = 0
  <2>1. /\ Good(x, g) /\ x.inited /\ Quiet(x) /\ x.incremental
        /\ Rest(a, x) /\ x.userLevels = q /\ x.mode # "UNSAT"
        /\ UserLevel(x) = n - (n - level) /\ Before(x.cur, e.cur, g) /\ x.pendingPops = 0
    BY <1>14, <1>16, Modes, Zenon DEF Lower, Quiet
  <2> QED
    BY <1>10, <2>1, Zenon
<1>18. UserPop(e) = WithLevels(x, p)
  <2>1. Check(a, "user pop", level < n) = a
    BY <1>10, CheckHolds, Zenon
  <2>2. UserPop(e) = [x EXCEPT !.userLevels = Front(@)]
    BY <1>3, <1>4, <1>9, <1>12, <1>15, <2>1, Zenon DEF UserPop, InMode
  <2>3. UserPop(e) = [x EXCEPT !.userLevels = Front(x.userLevels)]
    BY <2>2, Zenon
  <2> QED
    BY <1>6, <1>17, <2>3, Zenon DEF WithLevels
<1>19. PICK r : r = UserPop(e)
  OBVIOUS
<1>20. Good(r, g) /\ OnlyLevels(x, r, p)
  BY <1>7, <1>17, <1>18, <1>19, UserLevelsGood, Zenon
<1>21. /\ r.inited /\ Quiet(r) /\ r.incremental /\ Rest(e, r) /\ r.userLevels = p
       /\ r.mode # "UNSAT" /\ UserLevel(r) = n - 1 /\ Before(r.cur, e.cur, g)
       /\ r.pendingPops = 0
  BY <1>14, <1>17, <1>20, Zenon DEF OnlyLevels, Rest
<1>22. n - 1 = 1 + Len(p) + 0
  BY ONLY <1>4, <1>5, <1>7, <1>8
<1>23. Exact(r)
  BY <1>11, <1>21, <1>22, Zenon DEF Exact
<1>24. Popped(e, r, g)
  BY <1>3, <1>4, <1>7, <1>21, <1>23, Zenon DEF Popped
<1> QED
  BY <1>19, <1>20, <1>24, Zenon

-----------------------------------------------------------------------------
(* Resetting the assertions and shutting down.                             *)

\* The states the loop of user pops in notifyResetAssertions goes through.
UserPops(f, e, count) == f = [n \in 0..count |-> IF n = 0 THEN e ELSE UserPop(f[n - 1])]

\* The states between the pops of all user scopes.
LEMMA UserPopsExist ==
    ASSUME NEW e
    PROVE  \A n \in Nat : \E f : UserPops(f, e, n)
<1> DEFINE S == {n \in Nat : \E f : UserPops(f, e, n)}
<1>1. 0 \in S
  <2>1. PICK f : f = [k \in 0..0 |-> e]
    OBVIOUS
  <2>2. ASSUME NEW k \in 0..0
        PROVE  f[k] = IF k = 0 THEN e ELSE UserPop(f[k - 1])
    <3>1. k = 0
      BY ONLY <2>2
    <3> QED
      BY <2>1, <2>2, <3>1, Zenon
  <2>3. f = [k \in 0..0 |-> f[k]]
    BY <2>1, Zenon
  <2>4. UserPops(f, e, 0)
    BY <2>2, <2>3, Zenon DEF UserPops
  <2> QED
    BY <2>4
<1>2. ASSUME NEW n \in Nat, n \in S
      PROVE  n + 1 \in S
  <2>1. PICK f : UserPops(f, e, n)
    BY <1>2
  <2>2. PICK x : x = UserPop(f[n])
    OBVIOUS
  <2>3. PICK m : m = n + 1 /\ m \in Nat
    OBVIOUS
  <2>4. PICK h : h = [k \in 0..m |-> IF k = m THEN x ELSE f[k]]
    OBVIOUS
  <2>5. ASSUME NEW k \in 0..m
        PROVE  h[k] = IF k = 0 THEN e ELSE UserPop(h[k - 1])
    <3>1. CASE k = m
      <4>1. k # 0 /\ k - 1 = n /\ n # m /\ n \in 0..m
        BY ONLY <2>3, <3>1, n \in Nat
      <4>2. h[k] = x /\ h[k - 1] = f[n]
        BY <2>4, <2>5, <3>1, <4>1, Zenon
      <4> QED
        BY <2>2, <4>1, <4>2, Zenon
    <3>2. CASE k # m
      <4>1. k \in 0..n
        BY ONLY <2>3, <2>5, <3>2, n \in Nat
      <4>2. h[k] = f[k]
        BY <2>4, <2>5, <3>2, Zenon
      <4>3. f[k] = IF k = 0 THEN e ELSE UserPop(f[k - 1])
        BY <2>1, <4>1, Zenon DEF UserPops
      <4>4. CASE k = 0
        BY <4>2, <4>3, <4>4, Zenon
      <4>5. CASE k # 0
        <5>1. k - 1 \in 0..m /\ k - 1 # m
          BY ONLY <2>3, <4>1, <4>5, n \in Nat
        <5>2. h[k - 1] = f[k - 1]
          BY <2>4, <5>1, Zenon
        <5> QED
          BY <4>2, <4>3, <4>5, <5>2, Zenon
      <4> QED
        BY <4>4, <4>5, Zenon
    <3> QED
      BY <3>1, <3>2, Zenon
  <2>6. h = [k \in 0..m |-> h[k]]
    BY <2>4, Zenon
  <2>7. UserPops(h, e, m)
    BY <2>5, <2>6, Zenon DEF UserPops
  <2> QED
    BY <2>3, <2>7
<1> HIDE DEF S
<1>3. Nat \subseteq S
  BY <1>1, <1>2, Counting
<1> QED
  BY <1>3 DEF S

\* What PopBoth assigns and what it leaves.
LEMMA PopBothFields ==
    ASSUME NEW e, Shape(e), NEW r, r = PopBothToZero(e), e.saved = <<>> => e.cur = Blank,
           e.saved # <<>> => Head(e.saved) = Blank
    PROVE  /\ Rest(e, r) /\ SameSat(e, r) /\ SameFlags(e, r)
           /\ r.saved = <<>> /\ r.cur = Blank /\ r.level = 0
           /\ r.mode = e.mode /\ r.failed = e.failed
<1>1. PICK none : none = <<>>
  OBVIOUS
<1>2. PICK v : v = Blank
  OBVIOUS
<1>3. CASE e.saved = <<>>
  <2>1. r = [e EXCEPT !.level = 0]
    BY <1>3, Zenon DEF PopBothToZero
  <2>2. /\ Rest(e, r) /\ SameSat(e, r) /\ SameFlags(e, r)
        /\ r.saved = e.saved /\ r.cur = e.cur /\ r.level = 0
        /\ r.mode = e.mode /\ r.failed = e.failed
    BY ONLY Shape(e), <2>1 DEF Shape, Fields, Rest, SameSat, SameFlags
  <2> QED
    BY <1>3, <2>2, Zenon
<1>4. CASE e.saved # <<>>
  <2>1. r = [e EXCEPT !.level = 0, !.cur = v, !.saved = none]
    BY <1>1, <1>2, <1>4, Zenon DEF PopBothToZero
  <2>2. /\ Rest(e, r) /\ SameSat(e, r) /\ SameFlags(e, r)
        /\ r.saved = none /\ r.cur = v /\ r.level = 0
        /\ r.mode = e.mode /\ r.failed = e.failed
    BY ONLY Shape(e), <2>1 DEF Shape, Fields, Rest, SameSat, SameFlags
  <2> QED
    BY <1>1, <1>2, <2>2, Zenon
<1> QED
  BY <1>3, <1>4, Zenon

\* push() of both contexts at level 0.
LEMMA PushBothFields ==
    ASSUME NEW e, Shape(e), e.saved = <<>>, e.cur = Blank, e.level = 0, NEW r, r = PushBoth(e)
    PROVE  /\ Rest(e, r) /\ SameSat(e, r) /\ SameFlags(e, r)
           /\ r.saved = <<Blank>> /\ r.cur = Blank /\ r.level = 1
           /\ r.mode = e.mode /\ r.failed = e.failed
<1>1. PICK x : x = UserPushContext(e)
  OBVIOUS
<1>2. /\ Rest(e, x) /\ SameSat(e, x) /\ SameFlags(e, x)
      /\ x.saved = Append(e.saved, e.cur) /\ x.cur = e.cur
      /\ x.level = e.level /\ x.mode = e.mode /\ x.failed = e.failed
  BY <1>1, UserPushFields, Zenon
<1>3. Shape(x)
  BY <1>2, Zenon DEF Rest
<1>4. r = [x EXCEPT !.level = @ + 1]
  BY <1>1, Zenon DEF PushBoth
<1>5. /\ Rest(x, r) /\ SameSat(x, r) /\ SameFlags(x, r)
      /\ r.saved = x.saved /\ r.cur = x.cur /\ r.level = x.level + 1
      /\ r.mode = x.mode /\ r.failed = x.failed
  BY ONLY <1>3, <1>4 DEF Shape, Fields, Rest, SameSat, SameFlags
<1>6. x.level + 1 = 1
  <2>1. x.level = 0
    BY <1>2, Zenon
  <2> QED
    BY ONLY <2>1
<1>7. Append(<<>>, Blank) = <<Blank>>
  <2>1. \A v : Append(<<>>, v) = <<v>>
    OBVIOUS
  <2> QED
    BY <2>1, Zenon
<1>8. Rest(e, r) /\ SameSat(e, r) /\ SameFlags(e, r)
  BY ONLY <1>2, <1>5, Zenon DEF Rest, SameSat, SameFlags
<1> QED
  BY <1>2, <1>5, <1>6, <1>7, <1>8, Zenon

\* The list of a new engine.
LEMMA BlankIs ==
    ASSUME NEW g \in Seq(Definition)
    PROVE  /\ Blank \in Version /\ Fits(Blank, g) /\ Before(Blank, Blank, g)
           /\ Weight(Blank, g) \in Int /\ <<Blank>> \in Seq(Version) /\ Len(<<Blank>>) = 1
           /\ Blank.list = <<>>
<1>1. Blank \in Version /\ Blank.index = 0 /\ Blank.defIndex = 0 /\ Blank.list = <<>>
  BY DEF Blank, Version
<1>2. Fits(Blank, g)
  <2>1. 0 <= Len(<<>>) /\ 0 <= Len(g)
    OBVIOUS
  <2> QED
    BY <1>1, <2>1, Zenon DEF Fits
<1>3. Before(Blank, Blank, g) /\ Weight(Blank, g) \in Int
  BY <1>1, Weights
<1>4. <<Blank>> \in Seq(Version) /\ Len(<<Blank>>) = 1
  <2>1. \A v \in Version : <<v>> \in Seq(Version) /\ Len(<<v>>) = 1
    OBVIOUS
  <2> QED
    BY <1>1, <2>1, Zenon
<1> QED
  BY <1>1, <1>2, <1>3, <1>4, Zenon

\* The engine with its global scope and nothing in it.
Fresh(z) ==
    /\ z.saved = <<Blank>> /\ z.cur = Blank /\ z.level = 1 /\ z.assertionLevel = 0
    /\ z.decisions = 0 /\ z.clauses = {} /\ z.pendingPops = 0 /\ z.inited
    /\ z.failed \subseteq {"status solver"}

\* A new pair of contexts is good.
LEMMA FreshGood ==
    ASSUME NEW g \in Seq(Definition), Weight(Blank, g) <= MaxList, NEW z, Typed(z), Fresh(z)
    PROVE  Good(z, g) /\ UserLevel(z) = 1
<1>1. /\ z.saved = <<Blank>> /\ z.cur = Blank /\ z.level = 1 /\ z.assertionLevel = 0
      /\ z.decisions = 0 /\ z.clauses = {} /\ z.pendingPops = 0 /\ z.inited
      /\ z.failed \subseteq {"status solver"}
  BY Zenon DEF Fresh
<1>2. PICK q : q = <<Blank>> /\ Len(q) = 1 /\ q[1] = Blank /\ q # <<>>
  <2>1. \A v : Len(<<v>>) = 1 /\ <<v>>[1] = v /\ <<v>> # <<>>
    OBVIOUS
  <2> QED
    BY <2>1, Zenon
<1>3. UserLevel(z) = 1 /\ z.saved = q
  BY <1>1, <1>2, Zenon DEF UserLevel
<1>4. \A i \in 0..UserLevel(z) : At(z, i) = Blank
  <2> TAKE i \in 0..UserLevel(z)
  <2>1. CASE i < UserLevel(z)
    <3>1. i + 1 = 1
      BY ONLY <1>3, <2>1, i \in 0..UserLevel(z)
    <3>2. At(z, i) = q[i + 1]
      BY <1>3, <2>1, Zenon DEF At
    <3> QED
      BY <1>2, <3>1, <3>2, Zenon
  <2>2. CASE ~(i < UserLevel(z))
    BY <1>1, <2>2, Zenon DEF At
  <2> QED
    BY <2>1, <2>2, Zenon
<1>5. Versions(z, g)
  BY <1>1, <1>4, BlankIs, Zenon DEF Versions
<1>6. InForce(z)
  BY <1>1, Zenon DEF InForce
<1>7. InStep(z)
  <2>1. /\ 1 - 1 = 0 /\ 1 + 0 = 1 /\ ~(0 > 0) /\ 0 \in 0..1 /\ 0 < 1
    OBVIOUS
  <2> QED
    BY <1>1, <1>2, <1>3, <2>1, Zenon DEF InStep
<1> QED
  BY <1>1, <1>3, <1>5, <1>6, <1>7, Zenon DEF Good

\* The list of a new engine has the least weight.
LEMMA BlankWeight ==
    ASSUME NEW g \in Seq(Definition), NEW e, Good(e, g)
    PROVE  Weight(Blank, g) <= MaxList
<1>1. Versions(e, g) /\ Kept(e) /\ e.cur \in Version
  BY TypedParts DEF Good, Kept
<1>2. CASE e.inited
  <2>1. e.saved # <<>> /\ e.saved[1] = Blank
    BY <1>2, Zenon DEF Good, InStep
  <2>2. UserLevel(e) \in Nat /\ UserLevel(e) > 0
    BY <1>1, <2>1, UserLevelIs
  <2>3. /\ 0 \in 0..UserLevel(e) /\ UserLevel(e) \in 0..UserLevel(e) /\ 0 <= UserLevel(e)
        /\ 0 + 1 = 1
    BY ONLY <2>2
  <2>4. At(e, 0) = Blank /\ At(e, UserLevel(e)) = e.cur
    <3>1. At(e, 0) = e.saved[0 + 1]
      BY <2>2, Zenon DEF At
    <3>2. At(e, UserLevel(e)) = e.cur
      BY <1>1, AtIs
    <3> QED
      BY <2>1, <2>3, <3>1, <3>2, Zenon
  <2>5. Before(Blank, e.cur, g) /\ Weight(e.cur, g) <= MaxList
    BY <1>1, <2>3, <2>4, Zenon DEF Versions
  <2>6. Weight(Blank, g) \in Int /\ Weight(e.cur, g) \in Int
    BY <1>1, BlankIs, Weights
  <2>7. Weight(Blank, g) <= Weight(e.cur, g) /\ Weight(e.cur, g) <= MaxList
    BY <2>5, Zenon DEF Before
  <2> QED
    BY ONLY <2>6, <2>7, BoundsAssumption
<1>3. CASE ~e.inited
  <2>1. e.cur = Blank
    BY <1>3, Zenon DEF Good, Unused
  <2> QED
    BY <1>1, <2>1, Zenon DEF Versions
<1> QED
  BY <1>2, <1>3, Zenon

\* What finishInit changes for the rest.
Started(e, r) ==
    /\ r.inited /\ Rest(e, r) /\ r.userLevels = e.userLevels /\ r.cur = e.cur
    /\ r.mode = e.mode /\ r.pendingPops = e.pendingPops

\* FinishInit keeps the engine good.
LEMMA FinishInitGood ==
    ASSUME NEW g \in Seq(Definition), NEW e, Good(e, g), NEW r, r = FinishInit(e)
    PROVE  Good(r, g) /\ Started(e, r) /\ (Exact(e) => Exact(r)) /\ (~e.inited => Fresh(r))
<1>1. /\ Typed(e) /\ e.failed \subseteq {"status solver"}
  BY Zenon DEF Good
<1>2. Parts(e) /\ Shape(e) /\ Kept(e)
  BY <1>1, TypedParts
<1>3. CASE e.inited
  <2>1. r = e
    BY <1>3, Zenon DEF FinishInit
  <2> QED
    BY <1>2, <1>3, <2>1, Zenon DEF Started, Rest
<1>4. CASE ~e.inited
  <2>1. /\ e.saved = <<>> /\ e.cur = Blank /\ e.level = 0 /\ e.assertionLevel = 0
        /\ e.decisions = 0 /\ e.clauses = {} /\ e.pendingPops = 0 /\ ~e.needPostsolve
    BY <1>4, Zenon DEF Good, Unused
  <2>2. PICK x : x = PushBoth(e)
    OBVIOUS
  <2>3. /\ Rest(e, x) /\ SameSat(e, x) /\ SameFlags(e, x)
        /\ x.saved = <<Blank>> /\ x.cur = Blank /\ x.level = 1
        /\ x.mode = e.mode /\ x.failed = e.failed
    BY <1>2, <2>1, <2>2, PushBothFields, Zenon
  <2>4. PICK b \in BOOLEAN : b = TRUE
    BY Zenon
  <2>5. r = [x EXCEPT !.inited = b]
    <3>1. Check([x EXCEPT !.inited = TRUE], "finish init", e.assertionLevel = 0)
            = [x EXCEPT !.inited = TRUE]
      BY <2>1, CheckHolds, Zenon
    <3> QED
      BY <1>4, <2>2, <2>4, <3>1, Zenon DEF FinishInit
  <2>6. Shape(x)
    BY <2>3, Zenon DEF Rest
  <2>7. /\ Rest(x, r) /\ SameSat(x, r) /\ SameUser(x, r)
        /\ r.pendingPops = x.pendingPops /\ r.userLevels = x.userLevels
        /\ r.needPostsolve = x.needPostsolve /\ r.inited = b
        /\ r.level = x.level /\ r.mode = x.mode /\ r.failed = x.failed
    BY ONLY <2>5, <2>6 DEF Shape, Fields, Rest, SameSat, SameUser
  <2>8. Rest(e, r) /\ SameSat(e, r)
    BY ONLY <2>3, <2>7, Zenon DEF Rest, SameSat
  <2>9. /\ r.saved = <<Blank>> /\ r.cur = Blank /\ r.level = 1
        /\ r.mode = e.mode /\ r.failed = e.failed /\ r.inited = b
        /\ r.pendingPops = e.pendingPops /\ r.userLevels = e.userLevels
        /\ r.needPostsolve = e.needPostsolve
    BY ONLY <2>3, <2>7, Zenon DEF SameUser, SameFlags
  <2>10. r.inited /\ r.inited \in BOOLEAN
    BY <2>4, <2>9, Zenon
  <2>11. Fresh(r)
    BY <1>1, <2>1, <2>8, <2>9, <2>10, Zenon DEF Fresh, SameSat
  <2>12. Parts(r)
    <3>1. Kept(r) /\ r.level \in Nat
      <4>1. 1 \in Nat
        OBVIOUS
      <4> QED
        BY <2>9, <4>1, BlankIs, Zenon DEF Kept
    <3> QED
      BY <1>2, <2>8, <2>9, <2>10, <3>1, Zenon DEF Parts, SameSat
  <2>13. Typed(r)
    BY <1>1, <2>8, <2>12, PartsTyped
  <2>14. Good(r, g) /\ UserLevel(r) = 1
    BY <2>11, <2>13, BlankWeight, FreshGood
  <2>15. Started(e, r)
    BY <2>1, <2>8, <2>9, <2>10, Zenon DEF Started
  <2>16. ASSUME Exact(e)
         PROVE  Exact(r)
    <3>1. r.userLevels = <<>> /\ r.pendingPops = 0
      BY <1>4, <2>1, <2>9, <2>16, Zenon DEF Exact
    <3>2. /\ 1 = 1 + Len(<<>>) + 0 /\ \A i \in DOMAIN <<>> : <<>>[i] = i
      OBVIOUS
    <3> QED
      BY <2>10, <2>14, <3>1, <3>2, Zenon DEF Exact
  <2> QED
    BY <2>11, <2>14, <2>15, <2>16, Zenon
<1> QED
  BY <1>3, <1>4, Zenon

\* What beginCall does: the pops that are due, after the initialization.
Begun(e, b, g) ==
    /\ b.inited /\ Quiet(b) /\ Rest(e, b) /\ b.userLevels = e.userLevels
    /\ Before(b.cur, e.cur, g)
    /\ b.mode = "UNSAT" => e.mode = "UNSAT" /\ b.cur = e.cur

\* Doing the pops due keeps the scopes accounted for.
LEMMA SettledExact ==
    ASSUME NEW g, NEW e, Good(e, g), Exact(e), NEW r, Good(r, g), Settled(e, r, g)
    PROVE  Exact(r)
<1>1. /\ r.userLevels = e.userLevels /\ r.inited = e.inited /\ r.pendingPops = 0
      /\ UserLevel(r) = UserLevel(e) - e.pendingPops
  BY Zenon DEF Settled
<1>2. CASE e.inited
  <2>1. UserLevel(e) = 1 + Len(e.userLevels) + e.pendingPops
    BY <1>2, Zenon DEF Exact
  <2>2. e.userLevels \in Seq(Nat) /\ e.pendingPops \in Nat
    BY TypedParts, Zenon DEF Good, Parts
  <2>3. UserLevel(r) = 1 + Len(e.userLevels) + 0
    BY ONLY <1>1, <2>1, <2>2
  <2> QED
    BY <1>1, <1>2, <2>3, Zenon DEF Exact
<1>3. CASE ~e.inited
  BY <1>1, <1>3, Zenon DEF Exact
<1> QED
  BY <1>2, <1>3, Zenon

\* BeginCall keeps the engine good.
LEMMA BeginCallGood ==
    ASSUME NEW g \in Seq(Definition), NEW e, Good(e, g), NEW b, b = BeginCall(e)
    PROVE  Good(b, g) /\ Begun(e, b, g) /\ (Exact(e) => Exact(b))
<1>1. PICK i : i = FinishInit(e)
  OBVIOUS
<1>2. Good(i, g) /\ Started(e, i) /\ (Exact(e) => Exact(i))
  BY <1>1, FinishInitGood
<1>3. b = DoPendingPops(i)
  BY <1>1, Zenon DEF BeginCall
<1>4. Good(b, g) /\ Settled(i, b, g)
  BY <1>2, <1>3, DoPendingPopsGood
<1>5. Begun(e, b, g)
  BY <1>2, <1>4, Zenon DEF Begun, Started, Settled, Quiet, Rest
<1>6. ASSUME Exact(e)
      PROVE  Exact(b)
  BY <1>2, <1>4, <1>6, SettledExact
<1> QED
  BY <1>4, <1>5, <1>6, Zenon

\* After n user pops of a reset.
Unwound(e, r, n, g) ==
    /\ Good(r, g) /\ r.inited /\ Quiet(r) /\ Rest(e, r) /\ Exact(r)
    /\ Len(r.userLevels) = Len(e.userLevels) - n

\* One user scope less.
LEMMA UnwoundOne ==
    ASSUME NEW g \in Seq(Definition), NEW e, e.userLevels \in Seq(Nat), NEW x, NEW n \in Nat,
           Unwound(e, x, n, g), n + 1 <= Len(e.userLevels), NEW r, r = UserPop(x)
    PROVE  Unwound(e, r, n + 1, g)
<1>1. /\ Good(x, g) /\ x.inited /\ Quiet(x) /\ Rest(e, x) /\ Exact(x)
      /\ Len(x.userLevels) = Len(e.userLevels) - n
  BY Zenon DEF Unwound
<1>2. x.userLevels \in Seq(Nat) /\ Kept(x) /\ x.pendingPops = 0
  BY <1>1, TypedParts, Zenon DEF Good, Parts, Quiet
<1>3. Len(x.userLevels) \in Nat /\ Len(e.userLevels) \in Nat /\ Len(x.userLevels) > 0
  <2>1. Len(x.userLevels) \in Nat /\ Len(e.userLevels) \in Nat
    BY ONLY <1>2, e.userLevels \in Seq(Nat)
  <2>2. Len(x.userLevels) = Len(e.userLevels) - n
    BY <1>1, Zenon
  <2> QED
    BY ONLY <2>1, <2>2, n \in Nat, n + 1 <= Len(e.userLevels)
<1>4. x.userLevels # <<>>
  <2>1. Len(<<>>) = 0
    OBVIOUS
  <2> QED
    BY <1>3, <2>1
<1>5. x.incremental
  <2>1. UserLevel(x) = 1 + Len(x.userLevels) + 0
    BY <1>1, <1>2, Zenon DEF Exact
  <2>2. UserLevel(x) # 1
    BY ONLY <1>3, <2>1
  <2>3. ~x.incremental => UserLevel(x) = 1
    BY <1>1, Zenon DEF Good, InStep
  <2> QED
    BY <2>2, <2>3, Zenon
<1>6. Good(r, g) /\ Popped(x, r, g)
  BY <1>1, <1>4, <1>5, UserPopGood, Zenon
<1>7. Len(r.userLevels) = Len(e.userLevels) - (n + 1)
  <2>1. Len(r.userLevels) = Len(x.userLevels) - 1 /\ Len(x.userLevels) = Len(e.userLevels) - n
    BY <1>1, <1>6, Zenon DEF Popped
  <2> QED
    BY ONLY <1>3, <2>1, n \in Nat
<1>8. Rest(e, r)
  BY <1>1, <1>6, Zenon DEF Popped, Rest
<1> QED
  BY <1>6, <1>7, <1>8, Zenon DEF Unwound, Popped

\* resetAssertions pops every user scope and both contexts, and pushes both once.
LEMMA NotifyResetIs ==
    ASSUME NEW g \in Seq(Definition), NEW e, Good(e, g), e.inited, Exact(e),
           NEW d, d = DoPendingPops(e)
    PROVE  \E r : /\ Unwound(d, r, Len(d.userLevels), g)
                  /\ NotifyResetAssertions(e) = PushBoth(PopBothToZero(r))
                  /\ r.userLevels = <<>> /\ UserLevel(r) = 1
<1>1. Good(d, g) /\ Settled(e, d, g)
  BY DoPendingPopsGood
<1>2. Exact(d) /\ d.inited /\ Quiet(d)
  BY <1>1, SettledExact, Zenon DEF Settled, Quiet
<1>3. d.userLevels \in Seq(Nat) /\ Shape(d)
  BY <1>1, TypedParts, Zenon DEF Good, Parts
<1>4. PICK count : count = Len(d.userLevels) /\ count \in Nat
  <2>1. Len(d.userLevels) \in Nat
    BY ONLY <1>3
  <2> QED
    BY <2>1
<1>5. PICK f : f = CHOOSE h : UserPops(h, d, count)
  OBVIOUS
<1>6. UserPops(f, d, count)
  <2>1. \E h : UserPops(h, d, count)
    BY <1>4, UserPopsExist, Zenon
  <2> QED
    BY <1>5, <2>1, Zenon
<1> DEFINE S == {n \in Nat : n <= count => Unwound(d, f[n], n, g)}
<1>7. 0 \in S
  <2>1. 0 \in 0..count /\ Len(d.userLevels) = Len(d.userLevels) - 0
    BY ONLY <1>4
  <2>2. f[0] = d
    BY <1>6, <2>1, Zenon DEF UserPops
  <2>3. Unwound(d, d, 0, g)
    BY <1>1, <1>2, <1>3, <2>1, Zenon DEF Unwound, Rest
  <2> QED
    BY <2>2, <2>3
<1>8. ASSUME NEW n \in Nat, n \in S
      PROVE  n + 1 \in S
  <2>1. ASSUME n + 1 <= count
        PROVE  Unwound(d, f[n + 1], n + 1, g)
    <3>1. n <= count /\ n + 1 \in 0..count /\ n + 1 # 0 /\ n + 1 - 1 = n
      BY ONLY <1>4, <2>1, n \in Nat
    <3>2. Unwound(d, f[n], n, g)
      BY <1>8, <3>1, Zenon
    <3>3. f[n + 1] = UserPop(f[n])
      <4>1. PICK m : m = n + 1
        OBVIOUS
      <4>2. m \in 0..count /\ m # 0 /\ m - 1 = n
        BY ONLY <1>4, <3>1, <4>1, n \in Nat
      <4>3. f[m] = UserPop(f[m - 1])
        BY <1>6, <4>2, Zenon DEF UserPops
      <4> QED
        BY <4>1, <4>2, <4>3, Zenon
    <3>4. n + 1 <= Len(d.userLevels)
      BY <1>4, <2>1, Zenon
    <3> QED
      BY <1>3, <3>2, <3>3, <3>4, UnwoundOne
  <2> QED
    BY <2>1
<1> HIDE DEF S
<1>9. count \in S
  BY <1>4, <1>7, <1>8, Counting
<1>10. PICK r : r = f[count]
  OBVIOUS
<1>11. Unwound(d, r, count, g)
  <2>1. count <= count
    BY ONLY <1>4
  <2> QED
    BY <1>9, <1>10, <2>1, Zenon DEF S
<1>12. r.userLevels = <<>> /\ UserLevel(r) = 1
  <2>1. /\ r.userLevels \in Seq(Nat) /\ r.pendingPops = 0
        /\ UserLevel(r) = 1 + Len(r.userLevels) + r.pendingPops
        /\ Len(r.userLevels) = count - count
    BY <1>4, <1>11, TypedParts, Zenon DEF Unwound, Good, Parts, Quiet, Exact
  <2>2. Len(r.userLevels) = 0
    BY ONLY <1>4, <2>1
  <2>3. r.userLevels = <<>>
    BY ONLY <2>1, <2>2, EmptySeq
  <2> QED
    BY ONLY <2>1, <2>2, <2>3
<1>13. NotifyResetAssertions(e) = PushBoth(PopBothToZero(r))
  <2>1. NotifyResetAssertions(e) = PushBoth(PopBothToZero(
            Check(r, "reset assertions", r.userLevels = <<>> /\ UserLevel(r) = 1)))
    <3> DEFINE Loop(x) == (CHOOSE h : UserPops(h, x, Len(x.userLevels)))[Len(x.userLevels)]
    <3>1. NotifyResetAssertions(e) = PushBoth(PopBothToZero(
              Check(Loop(DoPendingPops(e)), "reset assertions",
                    Loop(DoPendingPops(e)).userLevels = <<>>
                        /\ UserLevel(Loop(DoPendingPops(e))) = 1)))
      BY Zenon DEF NotifyResetAssertions, UserPops
    <3>2. r = Loop(d)
      BY <1>4, <1>5, <1>10, Zenon
    <3> HIDE DEF Loop
    <3>3. Loop(DoPendingPops(e)) = r
      BY d = DoPendingPops(e), <3>2, Zenon
    <3> QED
      BY <3>1, <3>3, Zenon
  <2>2. Check(r, "reset assertions", r.userLevels = <<>> /\ UserLevel(r) = 1) = r
    BY <1>12, CheckHolds, Zenon
  <2> QED
    BY <2>1, <2>2, Zenon
<1> QED
  BY <1>4, <1>11, <1>12, <1>13, Zenon

\* The engine after the prop engine has been replaced.
LEMMA ResetGood ==
    ASSUME NEW g \in Seq(Definition), NEW e, Good(e, g), e.inited, Exact(e),
           NEW z, z = [NotifyResetAssertions(e) EXCEPT
                           !.clauses = {}, !.assertionLevel = 0, !.decisions = 0]
    PROVE  Good(z, g) /\ Exact(z) /\ Fresh(z) /\ z.userLevels = <<>>
<1>1. PICK d : d = DoPendingPops(e)
  OBVIOUS
<1>2. PICK r : /\ Unwound(d, r, Len(d.userLevels), g)
               /\ NotifyResetAssertions(e) = PushBoth(PopBothToZero(r))
               /\ r.userLevels = <<>> /\ UserLevel(r) = 1
  BY <1>1, NotifyResetIs
<1>3. /\ Good(r, g) /\ Typed(r) /\ r.failed \subseteq {"status solver"} /\ r.inited
      /\ r.pendingPops = 0
  BY <1>2, Zenon DEF Unwound, Good, Quiet
<1>4. Parts(r) /\ Shape(r) /\ Kept(r)
  BY <1>3, TypedParts
<1>5. r.saved # <<>> /\ Head(r.saved) = Blank
  <2>1. r.saved # <<>> /\ r.saved[1] = Blank
    BY <1>3, Zenon DEF Good, InStep
  <2> QED
    BY <1>4, <2>1, HeadIs DEF Kept
<1>6. PICK x : x = PopBothToZero(r)
  OBVIOUS
<1>7. /\ Rest(r, x) /\ SameSat(r, x) /\ SameFlags(r, x)
      /\ x.saved = <<>> /\ x.cur = Blank /\ x.level = 0
      /\ x.mode = r.mode /\ x.failed = r.failed
  <2>1. (r.saved = <<>> => r.cur = Blank) /\ (r.saved # <<>> => Head(r.saved) = Blank)
    BY <1>5, Zenon
  <2> QED
    BY ONLY <1>4, <1>6, <2>1, PopBothFields, ZenonT(60)
<1>8. PICK y : y = PushBoth(x)
  OBVIOUS
<1>9. /\ Rest(x, y) /\ SameSat(x, y) /\ SameFlags(x, y)
      /\ y.saved = <<Blank>> /\ y.cur = Blank /\ y.level = 1
      /\ y.mode = x.mode /\ y.failed = x.failed
  <2>1. Shape(x) /\ x.saved = <<>> /\ x.cur = Blank /\ x.level = 0
    BY <1>7, Zenon DEF Rest
  <2> QED
    BY ONLY <1>8, <2>1, PushBothFields, ZenonT(60)
<1>10. PICK none : none = {}
  OBVIOUS
<1>11. z = [y EXCEPT !.clauses = none, !.assertionLevel = 0, !.decisions = 0] /\ Shape(y)
  BY <1>2, <1>6, <1>8, <1>9, <1>10, Zenon DEF Rest
<1>12. /\ Rest(y, z) /\ SameUser(y, z) /\ SameFlags(y, z)
       /\ z.level = y.level /\ z.mode = y.mode /\ z.failed = y.failed
       /\ z.clauses = none /\ z.assertionLevel = 0 /\ z.decisions = 0
  BY ONLY <1>11 DEF Shape, Fields, Rest, SameUser, SameFlags
<1>13. Rest(r, z) /\ SameFlags(r, z)
  BY ONLY <1>7, <1>9, <1>12, Zenon DEF Rest, SameFlags
<1>14. /\ z.saved = <<Blank>> /\ z.cur = Blank /\ z.level = 1 /\ z.assertionLevel = 0
       /\ z.decisions = 0 /\ z.clauses = {} /\ z.mode = r.mode /\ z.failed = r.failed
  BY ONLY <1>7, <1>9, <1>10, <1>12, Zenon DEF SameUser
<1>15. Fresh(z)
  BY <1>3, <1>13, <1>14, Zenon DEF Fresh, SameFlags
<1>16. Parts(z)
  <2>1. 1 \in Nat /\ 0 \in Nat /\ 0 \in 0..MaxDecisions
    BY BoundsAssumption
  <2>2. {} \in SUBSET (AnyFormula \X Nat)
    OBVIOUS
  <2>3. Kept(z)
    BY <1>14, BlankIs, Zenon DEF Kept
  <2>4. z.level \in Nat /\ z.assertionLevel \in Nat /\ z.decisions \in 0..MaxDecisions
    BY <1>14, <2>1, Zenon
  <2>5. z.clauses \in SUBSET (AnyFormula \X Nat)
    BY <1>14, <2>2, Zenon
  <2> QED
    BY <1>4, <1>13, <1>14, <2>3, <2>4, <2>5, Zenon DEF Parts, SameFlags
<1>17. Typed(z)
  BY <1>3, <1>13, <1>16, PartsTyped
<1>18. Good(z, g) /\ UserLevel(z) = 1
  BY <1>15, <1>17, BlankWeight, FreshGood
<1>19. Exact(z)
  <2>1. z.userLevels = <<>> /\ z.pendingPops = 0 /\ z.inited
    BY <1>2, <1>3, <1>13, Zenon DEF SameFlags
  <2>2. /\ 1 = 1 + Len(<<>>) + 0 /\ \A i \in DOMAIN <<>> : <<>>[i] = i
    OBVIOUS
  <2> QED
    BY <1>18, <2>1, <2>2, Zenon DEF Exact
<1>20. z.userLevels = <<>>
  BY <1>2, <1>13, Zenon DEF SameFlags
<1> QED
  BY <1>15, <1>18, <1>19, <1>20, Zenon

\* After the shutdown both contexts are at level 0.
LEMMA ShutDownDone ==
    ASSUME NEW g \in Seq(Definition), NEW e, Good(e, g), NEW z, z = ShutDown(e)
    PROVE  Done(z)
<1>1. PICK d : d = DoPendingPops(e)
  OBVIOUS
<1>2. Good(d, g) /\ Settled(e, d, g)
  BY <1>1, DoPendingPopsGood
<1>3. PICK y : y = IF e.incremental /\ UserLevel(d) > 1 THEN PopUserTo(d, 1) ELSE d
  OBVIOUS
<1>4. Good(y, g)
  <2>1. CASE e.incremental /\ UserLevel(d) > 1
    <3>1. y = PopUserTo(d, 1)
      BY <1>3, <2>1, Zenon
    <3>2. Kept(d)
      BY <1>2, TypedParts, Zenon DEF Good
    <3>3. UserLevel(d) \in Nat /\ 1 \in Nat /\ 1 > 0 /\ 1 <= UserLevel(d) /\ d.saved # <<>>
      BY <2>1, <3>2, UserLevelIs
    <3>4. d.inited /\ d.incremental /\ Quiet(d)
      BY <1>2, <2>1, <3>3, Zenon DEF Good, Unused, Settled, Quiet, Rest
    <3>5. Lower(d, y, UserLevel(d) - 1, g)
      BY <1>2, <3>1, <3>3, <3>4, PopUserToGood
    <3> QED
      BY <3>5, Zenon DEF Lower
  <2>2. CASE ~(e.incremental /\ UserLevel(d) > 1)
    BY <1>2, <1>3, <2>2, Zenon
  <2> QED
    BY <2>1, <2>2, Zenon
<1>5. /\ Typed(y) /\ y.failed \subseteq {"status solver"}
      /\ IF y.inited THEN InStep(y) ELSE Unused(y)
  BY <1>4, Zenon DEF Good
<1>6. Parts(y) /\ Shape(y) /\ Kept(y)
  BY <1>5, TypedParts
<1>7. z = PopBothToZero(y)
  BY <1>1, <1>3, Zenon DEF ShutDown
<1>8. (y.saved = <<>> => y.cur = Blank) /\ (y.saved # <<>> => Head(y.saved) = Blank)
  <2>1. CASE y.inited
    <3>1. y.saved # <<>> /\ y.saved[1] = Blank
      BY <1>5, <2>1, Zenon DEF InStep
    <3>2. Head(y.saved) = y.saved[1]
      BY <1>6, <3>1, HeadIs DEF Kept
    <3> QED
      BY <3>1, <3>2, Zenon
  <2>2. CASE ~y.inited
    BY <1>5, <2>2, Zenon DEF Unused
  <2> QED
    BY <2>1, <2>2, Zenon
<1>9. /\ Rest(y, z) /\ SameSat(y, z) /\ SameFlags(y, z)
      /\ z.saved = <<>> /\ z.cur = Blank /\ z.level = 0
      /\ z.mode = y.mode /\ z.failed = y.failed
  BY ONLY <1>6, <1>7, <1>8, PopBothFields, ZenonT(60)
<1>10. Parts(z)
  <2>1. <<>> \in Seq(Version) /\ 0 \in Nat
    OBVIOUS
  <2>2. Kept(z) /\ z.level \in Nat
    BY <1>9, <2>1, BlankIs, Zenon DEF Kept
  <2> QED
    BY <1>6, <1>9, <2>2, Zenon DEF Parts, SameSat, SameFlags
<1>11. Typed(z)
  BY <1>5, <1>9, <1>10, PartsTyped
<1> QED
  BY <1>5, <1>9, <1>11, Zenon DEF Done

-----------------------------------------------------------------------------
(* What a command keeps about the user's scopes and the last answer.       *)

\* Adding formulas keeps the scopes and what unsat is about.
LEMMA GrownKeeps ==
    ASSUME NEW g, NEW e, NEW r, Grown(e, r, g)
    PROVE  /\ Exact(e) => Exact(r)
           /\ Quiet(e) => Quiet(r)
           /\ \A fs, reset : Unsat(e, fs, reset) => Unsat(r, fs, reset)
<1>1. /\ r.userLevels = e.userLevels /\ r.pendingPops = e.pendingPops /\ r.inited = e.inited
      /\ r.needPostsolve = e.needPostsolve /\ r.decisions = e.decisions
      /\ r.mode = e.mode /\ r.statusSolver = e.statusSolver
      /\ ToSet(e.cur.list) \subseteq ToSet(r.cur.list)
  BY Zenon DEF Grown, SameFlags, Rest, Before
<1>2. UserLevel(r) = UserLevel(e)
  BY GrownLevel
<1>3. Exact(e) => Exact(r)
  BY <1>1, <1>2, Zenon DEF Exact
<1>4. Quiet(e) => Quiet(r)
  BY <1>1, Zenon DEF Quiet
<1>5. \A fs, reset : Unsat(e, fs, reset) => Unsat(r, fs, reset)
  BY <1>1, Zenon DEF Unsat
<1> QED
  BY <1>3, <1>4, <1>5, Zenon

\* Beginning a command keeps what unsat is about.
LEMMA BegunKeeps ==
    ASSUME NEW g, NEW e, NEW b, Begun(e, b, g)
    PROVE  /\ b.incremental = e.incremental
           /\ \A fs, reset : Unsat(e, fs, reset) => Unsat(b, fs, reset)
  BY Zenon DEF Begun, Rest, Unsat

\* Nothing is claimed when the last answer is not unsat.
LEMMA NotUnsat ==
    ASSUME NEW e, e.mode # "UNSAT"
    PROVE  \A fs, reset : Unsat(e, fs, reset)
  BY Zenon DEF Unsat

\* Changing the mode keeps the scopes accounted for.
LEMMA ModeExact ==
    ASSUME NEW e, NEW r, NEW m, OnlyMode(e, r, m)
    PROVE  Exact(e) => Exact(r)
  BY Zenon DEF OnlyMode, SameFlags, Exact

\* There is room for n formulas when the definitions have been added.
LEMMA RoomIs ==
    ASSUME NEW e, Good(e, globals), globals \in Seq(Definition), NEW n \in Nat, Room(e, n)
    PROVE  Weight(e.cur, globals) + n <= MaxList
<1>1. e.cur \in Version
  BY TypedParts, Zenon DEF Good, Kept
<1>2. PICK a, b, d : a = Len(e.cur.list) /\ b = Len(globals) /\ d = e.cur.defIndex
  OBVIOUS
<1>3. a \in Nat /\ b \in Nat /\ d \in Nat
  BY <1>1, <1>2 DEF Version
<1>4. a + n + b - d <= MaxList
  BY <1>2, Zenon DEF Room
<1>5. Weight(e.cur, globals) = a + b - d
  BY <1>2, Zenon DEF Weight
<1>6. a + b - d + n <= MaxList
  BY ONLY <1>3, <1>4, n \in Nat, BoundsAssumption
<1> QED
  BY <1>5, <1>6, Zenon

\* A lighter list has the room a heavier one has.
LEMMA LighterFits ==
    ASSUME NEW g \in Seq(Definition), NEW v \in Version, NEW w \in Version,
           Weight(v, g) <= Weight(w, g), NEW n \in Nat, Weight(w, g) + n <= MaxList
    PROVE  Weight(v, g) + n <= MaxList
<1>1. Weight(v, g) \in Int /\ Weight(w, g) \in Int
  BY Weights
<1> QED
  BY ONLY <1>1, Weight(v, g) <= Weight(w, g), n \in Nat, Weight(w, g) + n <= MaxList,
     BoundsAssumption

\* A definition is added to the global ones.
LEMMA DefinitionGood ==
    ASSUME NEW g \in Seq(Definition), NEW d \in Definition, NEW h, h = Append(g, d),
           NEW e, Good(e, g), Weight(e.cur, g) + 1 <= MaxList
    PROVE  Good(e, h)
<1>1. Typed(e) /\ Versions(e, g) /\ Kept(e)
  BY TypedParts, Zenon DEF Good
<1>2. /\ UserLevel(e) \in Nat /\ At(e, UserLevel(e)) = e.cur
      /\ \A i \in 0..UserLevel(e) : At(e, i) \in Version
  BY <1>1, AtIs
<1>3. h \in Seq(Definition) /\ Len(h) = Len(g) + 1 /\ Len(g) \in Nat
  BY Appending
<1>4. ASSUME NEW v \in Version
      PROVE  /\ Weight(v, h) = Weight(v, g) + 1 /\ Weight(v, g) \in Int
             /\ Fits(v, g) => Fits(v, h)
  <2>1. PICK a, i, k : a = Len(v.list) /\ i = v.index /\ k = v.defIndex
    OBVIOUS
  <2>2. a \in Nat /\ i \in Nat /\ k \in Nat
    BY <2>1 DEF Version
  <2>3. PICK m, n : m = Len(g) /\ n = Len(h)
    OBVIOUS
  <2>4. m \in Nat /\ n = m + 1
    BY <1>3, <2>3, Zenon
  <2>5. a + n - k = a + m - k + 1 /\ a + m - k \in Int /\ (k <= m => k <= n)
    BY ONLY <2>2, <2>4
  <2>6. Weight(v, h) = a + n - k /\ Weight(v, g) = a + m - k
    BY <2>1, <2>3, Zenon DEF Weight
  <2>7. Fits(v, g) => Fits(v, h)
    BY <2>1, <2>3, <2>5, Zenon DEF Fits
  <2> QED
    BY <2>5, <2>6, <2>7, Zenon
<1>5. ASSUME NEW v \in Version, NEW w \in Version, Before(v, w, g)
      PROVE  Before(v, w, h)
  <2>1. /\ Weight(v, h) = Weight(v, g) + 1 /\ Weight(v, g) \in Int
        /\ Weight(w, h) = Weight(w, g) + 1 /\ Weight(w, g) \in Int
    BY <1>4, Zenon
  <2>2. Weight(v, g) <= Weight(w, g) /\ ToSet(v.list) \subseteq ToSet(w.list)
    BY <1>5, Zenon DEF Before
  <2>3. Weight(v, h) <= Weight(w, h)
    BY ONLY <2>1, <2>2
  <2> QED
    BY <2>2, <2>3, Zenon DEF Before
<1>6. Versions(e, h)
  <2>1. \A i \in 0..UserLevel(e) : Fits(At(e, i), h)
    BY <1>1, <1>2, <1>4, Zenon DEF Versions
  <2>2. \A i, j \in 0..UserLevel(e) : i <= j => Before(At(e, i), At(e, j), h)
    BY <1>1, <1>2, <1>5, Zenon DEF Versions
  <2>3. Weight(e.cur, h) <= MaxList
    <3>1. e.cur \in Version
      BY <1>1, Zenon DEF Kept
    <3>2. Weight(e.cur, h) = Weight(e.cur, g) + 1
      BY <1>4, <3>1, Zenon
    <3> QED
      BY <3>2, Zenon
  <2> QED
    BY <2>1, <2>2, <2>3, Zenon DEF Versions
<1> QED
  BY <1>6, Zenon DEF Good

-----------------------------------------------------------------------------
(* Checks.                                                                 *)

\* The user's scopes and n more.
Scopes(e, n) ==
    /\ UserLevel(e) = 1 + Len(e.userLevels) + n
    /\ \A i \in DOMAIN e.userLevels : e.userLevels[i] = i

\* The scopes that a check opens for its assumptions.
Opened(e, a) == IF e.incremental /\ a # <<>> THEN 1 ELSE 0

\* An engine about to search.
Ready(e, s, a, g) ==
    /\ Good(s, g) /\ s.inited /\ Quiet(s) /\ Rest(e, s)
    /\ Opened(s, a) < UserLevel(s)
    /\ Exact(e) => Scopes(s, Opened(s, a))

\* The assumptions of a check are formulas.
LEMMA AssumptionsAreFormulas ==
    ASSUME NEW a \in Assumptions
    PROVE  a \in Seq(AnyFormula) /\ Len(a) \in Nat
<1>1. CASE a = <<>>
  BY <1>1
<1>2. CASE a # <<>>
  <2>1. PICK x \in Assumption : a = <<x>>
    BY <1>2, Zenon DEF Assumptions
  <2>2. PICK S : S = AnyFormula /\ x \in S
    BY Zenon DEF AnyFormula
  <2>3. a \in Seq(S) /\ Len(a) \in Nat
    BY ONLY <2>1, <2>2
  <2> QED
    BY <2>2, <2>3, Zenon
<1> QED
  BY <1>1, <1>2

\* A command that has begun, possibly in another mode.
Opening(e, b, g) ==
    /\ Good(b, g) /\ b.inited /\ Quiet(b) /\ Rest(e, b)
    /\ Before(b.cur, e.cur, g)
    /\ Exact(e) => Exact(b)

\* With its assumptions in the list the engine is ready to search.
LEMMA AssumeReady ==
    ASSUME globals \in Seq(Definition), Good(eng, globals), NEW a \in Assumptions,
           Room(eng, Len(a)), NEW b, Opening(eng, b, globals), NEW s, s = Assume(b, a)
    PROVE  /\ Ready(eng, s, a, globals)
           /\ \A fs, reset : Unsat(b, fs, reset) => Unsat(s, fs, reset)
<1>1. Good(b, globals)
  BY Zenon DEF Opening
<1>2. /\ b.inited /\ Quiet(b) /\ Rest(eng, b) /\ b.pendingPops = 0
      /\ Before(b.cur, eng.cur, globals)
  BY Zenon DEF Opening, Quiet
<1>3. Exact(eng) => Exact(b)
  BY Zenon DEF Opening
<1>4. Kept(b) /\ b.cur \in Version /\ eng.cur \in Version
  BY <1>1, TypedParts, Zenon DEF Good, Kept
<1>5. UserLevel(b) \in Nat /\ UserLevel(b) > 0 /\ (~b.incremental => UserLevel(b) = 1)
  <2>1. b.saved # <<>> /\ (~b.incremental => UserLevel(b) = 1)
    BY <1>1, <1>2, Zenon DEF Good, InStep
  <2> QED
    BY <1>4, <2>1, UserLevelIs
<1>6. PICK x : x = IF a = <<>> THEN b ELSE InternalPush(b)
  OBVIOUS
<1>7. s = AddFormulas(x, a)
  BY <1>6, Zenon DEF Assume
<1>8. /\ Good(x, globals) /\ x.inited /\ Quiet(x) /\ Rest(b, x)
      /\ x.userLevels = b.userLevels
      /\ x.mode = "UNSAT" =>
            b.mode = "UNSAT" /\ ToSet(b.cur.list) \subseteq ToSet(x.cur.list)
      /\ Weight(x.cur, globals) <= Weight(b.cur, globals)
      /\ UserLevel(x) = UserLevel(b) + Opened(b, a)
  <2>1. CASE a = <<>>
    <3>1. x = b /\ Opened(b, a) = 0
      BY <1>6, <2>1, Zenon DEF Opened
    <3>2. UserLevel(b) = UserLevel(b) + 0 /\ Weight(b.cur, globals) <= Weight(b.cur, globals)
      <4>1. Weight(b.cur, globals) \in Int
        BY <1>4, Weights
      <4> QED
        BY ONLY <1>5, <4>1
    <3>3. Rest(b, b) /\ ToSet(b.cur.list) \subseteq ToSet(b.cur.list)
      BY <1>1, TypedParts, Zenon DEF Good, Rest
    <3> QED
      BY <1>1, <1>2, <3>1, <3>2, <3>3, Zenon
  <2>2. CASE a # <<>>
    <3>1. x = InternalPush(b)
      BY <1>6, <2>2, Zenon
    <3>2. /\ Good(x, globals) /\ x.inited /\ Quiet(x)
          /\ Rest(b, x) /\ x.userLevels = b.userLevels
          /\ x.mode = "UNSAT" =>
                b.mode = "UNSAT" /\ ToSet(b.cur.list) \subseteq ToSet(x.cur.list)
          /\ UserLevel(x) = IF b.incremental THEN UserLevel(b) - b.pendingPops + 1
                            ELSE UserLevel(b)
          /\ Weight(x.cur, globals) <= Weight(b.cur, globals)
      BY <1>1, <1>2, <3>1, InternalPushGood
    <3>3. UserLevel(b) - 0 + 1 = UserLevel(b) + 1 /\ UserLevel(b) = UserLevel(b) + 0
      BY ONLY <1>5
    <3>4. UserLevel(x) = UserLevel(b) + Opened(b, a)
      BY <1>2, <2>2, <3>2, <3>3, Zenon DEF Opened
    <3> QED
      BY <1>2, <3>2, <3>4, Zenon
  <2> QED
    BY <2>1, <2>2, Zenon
<1>9. a \in Seq(AnyFormula) /\ Len(a) \in Nat
  BY AssumptionsAreFormulas
<1>10. Weight(x.cur, globals) + Len(a) <= MaxList
  <2>1. x.cur \in Version
    BY <1>8, TypedParts, Zenon DEF Good, Kept
  <2>2. Weight(eng.cur, globals) + Len(a) <= MaxList
    BY <1>9, RoomIs
  <2>3. Weight(b.cur, globals) <= Weight(eng.cur, globals)
    BY <1>2, Zenon DEF Before
  <2>4. Weight(b.cur, globals) + Len(a) <= MaxList
    BY <1>4, <1>9, <2>2, <2>3, LighterFits
  <2>5. Weight(x.cur, globals) <= Weight(b.cur, globals)
    BY <1>8, Zenon
  <2> QED
    BY <1>4, <1>9, <2>1, <2>4, <2>5, LighterFits
<1>11. Grown(x, s, globals) /\ s.clauses = x.clauses
  BY <1>7, <1>8, <1>9, <1>10, AddFormulasGrown
<1>12. Good(s, globals) /\ s.inited
  <2>1. s.clauses \in SUBSET (AnyFormula \X Nat)
    BY <1>8, <1>11, TypedParts, Zenon DEF Good, Parts
  <2>2. \A c_1 \in s.clauses : \/ c_1 \in x.clauses
                               \/ c_1[2] = UserLevel(x) - 1 /\ c_1[1] \in ToSet(s.cur.list)
    BY <1>11, Zenon
  <2> QED
    BY <1>8, <1>11, <2>1, <2>2, GrownGood
<1>13. UserLevel(s) = UserLevel(b) + Opened(b, a)
  <2>1. UserLevel(s) = UserLevel(x)
    BY <1>11, GrownLevel
  <2> QED
    BY <1>8, <2>1, Zenon
<1>14. Quiet(s) /\ Rest(eng, s) /\ s.userLevels = b.userLevels
       /\ s.incremental = b.incremental
  <2>1. Quiet(s)
    BY <1>8, <1>11, GrownKeeps, Zenon
  <2> QED
    BY <1>2, <1>8, <1>11, <2>1, Zenon DEF Grown, Rest, SameFlags
<1>15. Opened(s, a) = Opened(b, a) /\ Opened(b, a) \in 0..1
  <2>1. 0 \in 0..1 /\ 1 \in 0..1
    OBVIOUS
  <2> QED
    BY <1>14, <2>1, Zenon DEF Opened
<1>16. Opened(s, a) < UserLevel(s)
  BY ONLY <1>5, <1>13, <1>15
<1>17. ASSUME Exact(eng)
       PROVE  Scopes(s, Opened(s, a))
  <2>1. /\ UserLevel(b) = 1 + Len(b.userLevels) + b.pendingPops
        /\ \A i \in DOMAIN b.userLevels : b.userLevels[i] = i
    BY <1>2, <1>3, <1>17, Zenon DEF Exact
  <2>2. b.userLevels \in Seq(Nat)
    BY <1>1, TypedParts, Zenon DEF Good, Parts
  <2>3. UserLevel(s) = 1 + Len(s.userLevels) + Opened(s, a)
    <3>1. PICK n : n = Len(b.userLevels) /\ n \in Nat
      BY <2>2
    <3>2. UserLevel(b) = 1 + n + 0 /\ s.userLevels = b.userLevels
      BY <1>2, <1>14, <2>1, <3>1, Zenon
    <3>3. UserLevel(s) = 1 + n + Opened(s, a)
      BY ONLY <1>13, <1>15, <3>1, <3>2
    <3> QED
      BY <3>1, <3>2, <3>3, Zenon
  <2> QED
    BY <1>14, <2>1, <2>3, Zenon DEF Scopes
<1>18. Ready(eng, s, a, globals)
  BY <1>12, <1>14, <1>16, <1>17, Zenon DEF Ready
<1>19. \A fs, reset : Unsat(b, fs, reset) => Unsat(s, fs, reset)
  <2>1. \A fs, reset : Unsat(b, fs, reset) => Unsat(x, fs, reset)
    BY <1>8, Zenon DEF Unsat, Rest
  <2> QED
    BY <1>11, <2>1, GrownKeeps, Zenon
<1> QED
  BY <1>18, <1>19

\* What a check starts with.
LEMMA CheckBegun ==
    ASSUME NEW g \in Seq(Definition), NEW e, Good(e, g),
           NEW c, c = BeginCall(e), NEW b, b = InMode(c, "ASSERT")
    PROVE  Opening(e, b, g) /\ Good(c, g) /\ Begun(e, c, g) /\ OnlyMode(c, b, "ASSERT")
<1>1. Good(c, g) /\ Begun(e, c, g) /\ (Exact(e) => Exact(c))
  BY BeginCallGood
<1>2. Good(b, g) /\ OnlyMode(c, b, "ASSERT")
  BY <1>1, Modes, ModeGood, Zenon
<1>3. b.inited /\ Quiet(b) /\ Rest(e, b) /\ Before(b.cur, e.cur, g)
  BY <1>1, <1>2, Modes, Zenon DEF Begun, OnlyMode, SameFlags, Rest, Quiet
<1>4. Exact(e) => Exact(b)
  BY <1>1, <1>2, ModeExact, Zenon
<1> QED
  BY <1>1, <1>2, <1>3, <1>4, Zenon DEF Opening

\* A check that starts is ready to search.
LEMMA StartCheckReady ==
    ASSUME globals \in Seq(Definition), Good(eng, globals), NEW a \in Assumptions,
           Room(eng, Len(a)), NEW s, s = StartCheck(a)
    PROVE  Ready(eng, s, a, globals)
<1>1. PICK c : c = BeginCall(eng)
  OBVIOUS
<1>2. PICK b : b = InMode(c, "ASSERT")
  OBVIOUS
<1>3. Opening(eng, b, globals)
  BY <1>1, <1>2, CheckBegun
<1>4. s = Assume(b, a)
  BY <1>1, <1>2, Zenon DEF StartCheck, InMode
<1> QED
  BY <1>3, <1>4, AssumeReady

\* An engine whose search left d decisions on the trail, or none.
Searched(e, s, d) ==
    /\ Rest(e, s) /\ SameUser(e, s) /\ SameFlags(e, s)
    /\ s.level = e.level + d /\ s.decisions = d
    /\ s.assertionLevel = e.assertionLevel /\ s.clauses = e.clauses
    /\ s.mode = e.mode /\ s.failed = e.failed

\* A search only pushes decisions.
LEMMA SolveSearched ==
    ASSUME NEW g, NEW e, Good(e, g), Quiet(e), NEW d \in 0..MaxDecisions,
           NEW s, s = Solve(e, d)
    PROVE  Searched(e, s, d)
<1>1. Shape(e) /\ e.level \in Nat /\ e.decisions = 0
  BY Zenon DEF Good, Typed, Quiet
<1>2. PICK n : n = e.level + d - e.decisions
  OBVIOUS
<1>3. n = e.level + d
  BY <1>1, <1>2
<1>4. s = [e EXCEPT !.level = n, !.decisions = d]
  BY <1>2, Zenon DEF Solve
<1>5. /\ Rest(e, s) /\ SameUser(e, s) /\ SameFlags(e, s)
      /\ s.level = n /\ s.decisions = d
      /\ s.assertionLevel = e.assertionLevel /\ s.clauses = e.clauses
      /\ s.mode = e.mode /\ s.failed = e.failed
  BY ONLY <1>1, <1>4 DEF Shape, Fields, Rest, SameUser, SameFlags
<1> QED
  BY <1>3, <1>5, Zenon DEF Searched

\* A check whose search has not begun.
LEMMA NoSearch ==
    ASSUME NEW g, NEW e, Good(e, g), Quiet(e)
    PROVE  Searched(e, e, 0)
<1>1. Shape(e) /\ e.level \in Nat /\ e.decisions = 0
  BY Zenon DEF Good, Typed, Quiet
<1>2. e.level = e.level + 0
  BY <1>1
<1> QED
  BY <1>1, <1>2, Zenon DEF Searched, Rest, SameUser, SameFlags

\* What follows a search: its trail is to be reset and n scopes are to be popped.
Left(e, s, d, n) ==
    /\ Rest(e, s) /\ SameUser(e, s) /\ s.userLevels = e.userLevels /\ s.inited = e.inited
    /\ s.pendingPops = n /\ (d > 0 => s.needPostsolve) /\ s.needPostsolve \in BOOLEAN
    /\ s.level = e.level + d /\ s.decisions = d
    /\ s.assertionLevel = e.assertionLevel /\ s.clauses = e.clauses
    /\ s.mode = e.mode /\ s.failed = e.failed

\* A check that ends keeps the engine good.
LEMMA LeftGood ==
    ASSUME NEW g \in Seq(Definition), NEW e, Good(e, g), e.inited, Quiet(e),
           NEW d \in 0..MaxDecisions, NEW n \in 0..1, n < UserLevel(e),
           NEW s, Left(e, s, d, n)
    PROVE  Good(s, g) /\ s.inited /\ UserLevel(s) = UserLevel(e)
<1>1. Typed(e) /\ Versions(e, g) /\ InForce(e) /\ InStep(e)
  BY Zenon DEF Good
<1>2. Parts(e) /\ Kept(e)
  BY <1>1, TypedParts
<1>3. UserLevel(s) = UserLevel(e) /\ UserLevel(e) \in Nat
  BY <1>2, UserLevelIs, Zenon DEF Left, SameUser, UserLevel
<1>4. Kept(s)
  BY <1>2, Zenon DEF Kept, Left, SameUser
<1>5. \A i : At(s, i) = At(e, i)
  BY <1>3, Zenon DEF At, Left, SameUser
<1>6. d \in Nat /\ n \in Nat
  BY BoundsAssumption
<1>7. e.level + d \in Nat /\ e.level \in Nat
  BY <1>2, <1>6 DEF Parts
<1>8. Parts(s)
  BY <1>2, <1>4, <1>6, <1>7, Zenon DEF Parts, Left
<1>9. Typed(s)
  BY <1>1, <1>8, PartsTyped DEF Left
<1>10. Versions(s, g)
  <2>1. UserLevel(s) <= UserLevel(e)
    BY ONLY <1>3
  <2> QED
    BY <1>1, <1>2, <1>4, <1>5, <2>1, VersionsBelow
<1>11. InForce(s)
  BY <1>1, <1>3, <1>5, Zenon DEF InForce, Left
<1>12. InStep(s)
  <2>1. e.level = UserLevel(e) + 0 /\ e.decisions = 0
    BY <1>1, Zenon DEF InStep, Quiet
  <2>2. s.level = UserLevel(s) + s.decisions
    <3>1. e.level = UserLevel(e) /\ s.level = e.level + d /\ s.decisions = d
      BY <1>3, <2>1 DEF Left
    <3> QED
      BY <1>3, <3>1, Zenon
  <2>3. s.incremental = e.incremental
    BY Zenon DEF Left, Rest
  <2>4. s.decisions > 0 => s.needPostsolve
    BY Zenon DEF Left
  <2>5. s.saved = e.saved /\ s.assertionLevel = e.assertionLevel /\ s.pendingPops = n
    BY Zenon DEF Left, SameUser
  <2> QED
    BY <1>1, <1>3, <2>2, <2>3, <2>4, <2>5, Zenon DEF InStep
<1>13. s.inited /\ s.failed \subseteq {"status solver"}
  BY Zenon DEF Left, Good
<1> QED
  BY <1>3, <1>9, <1>10, <1>11, <1>12, <1>13, Zenon DEF Good

\* The end of a check pops the decisions and makes the pop of its scope due.
LEMMA EndCheckLeft ==
    ASSUME NEW g, NEW e, Good(e, g), Quiet(e), NEW d, NEW s, Searched(e, s, d),
           NEW a, NEW r, r = EndCheck(s, a)
    PROVE  Left(e, r, d, Opened(e, a))
<1>1. PICK b \in BOOLEAN : b = TRUE
  BY Zenon
<1>2. PICK x : x = [s EXCEPT !.needPostsolve = b]
  OBVIOUS
<1>3. Shape(s) /\ e.pendingPops = 0 /\ s.pendingPops = 0
  BY Zenon DEF Searched, Rest, SameFlags, Quiet
<1>4. PICK n : n = s.pendingPops + 1
  OBVIOUS
<1>5. n = 1
  BY <1>3, <1>4
<1>6. /\ Rest(s, x) /\ SameUser(s, x) /\ SameSat(s, x) /\ x.userLevels = s.userLevels
      /\ x.inited = s.inited /\ x.pendingPops = s.pendingPops
      /\ x.needPostsolve = b /\ x.level = s.level /\ x.mode = s.mode
      /\ x.failed = s.failed
  BY ONLY <1>2, <1>3 DEF Shape, Fields, Rest, SameUser, SameSat
<1>7. r = IF a # <<>> /\ x.incremental THEN [x EXCEPT !.pendingPops = n] ELSE x
  <2>1. r = IF a = <<>> THEN x ELSE InternalPop(x, FALSE)
    BY <1>1, <1>2, Zenon DEF EndCheck
  <2>2. InternalPop(x, FALSE) = IF x.incremental THEN [x EXCEPT !.pendingPops = @ + 1] ELSE x
    BY Zenon DEF InternalPop
  <2>3. x.pendingPops + 1 = n
    BY <1>4, <1>6, Zenon
  <2>4. [x EXCEPT !.pendingPops = @ + 1] = [x EXCEPT !.pendingPops = n]
    BY <2>3, Zenon
  <2> QED
    BY <2>1, <2>2, <2>4, Zenon
<1>8. Shape(x)
  BY <1>6, Zenon DEF Rest
<1>9. /\ Rest(x, r) /\ SameUser(x, r) /\ SameSat(x, r) /\ r.userLevels = x.userLevels
      /\ r.inited = x.inited /\ r.needPostsolve = x.needPostsolve /\ r.level = x.level
      /\ r.mode = x.mode /\ r.failed = x.failed
      /\ r.pendingPops = IF a # <<>> /\ x.incremental THEN n ELSE x.pendingPops
  <2>1. CASE a # <<>> /\ x.incremental
    <3>1. r = [x EXCEPT !.pendingPops = n]
      BY <1>7, <2>1, Zenon
    <3>2. /\ Rest(x, r) /\ SameUser(x, r) /\ SameSat(x, r) /\ r.userLevels = x.userLevels
          /\ r.inited = x.inited /\ r.needPostsolve = x.needPostsolve /\ r.level = x.level
          /\ r.mode = x.mode /\ r.failed = x.failed /\ r.pendingPops = n
      BY ONLY <1>8, <3>1 DEF Shape, Fields, Rest, SameUser, SameSat
    <3> QED
      BY <2>1, <3>2, Zenon
  <2>2. CASE ~(a # <<>> /\ x.incremental)
    BY <1>7, <1>8, <2>2, Zenon DEF Rest, SameUser, SameSat
  <2> QED
    BY <2>1, <2>2, Zenon
<1>10. Rest(e, r)
  BY <1>6, <1>9, Zenon DEF Rest, Searched
<1>11. x.incremental = e.incremental
  BY <1>6, Zenon DEF Rest, Searched
<1>12. r.pendingPops = Opened(e, a)
  BY <1>3, <1>5, <1>6, <1>9, <1>11, Zenon DEF Opened
<1>13. r.needPostsolve \in BOOLEAN /\ (d > 0 => r.needPostsolve)
  BY <1>1, <1>6, <1>9, Zenon
<1> QED
  BY <1>6, <1>9, <1>10, <1>12, <1>13, Zenon DEF Left, Searched, SameUser, SameSat, SameFlags

\* resetTrail pops the decisions.
LEMMA ResetTrailLeft ==
    ASSUME NEW g, NEW e, Good(e, g), Quiet(e), NEW d \in 0..MaxDecisions,
           NEW s, Searched(e, s, d), NEW r, r = ResetTrail(s)
    PROVE  Left(e, r, 0, 0)
<1>1. Shape(s)
  BY Zenon DEF Searched, Rest
<1>2. PICK n : n = s.level - s.decisions
  OBVIOUS
<1>3. n = e.level + 0
  <2>1. e.level \in Nat /\ s.level = e.level + d /\ s.decisions = d
    BY Zenon DEF Good, Typed, Searched
  <2>2. d \in Nat
    BY BoundsAssumption
  <2> QED
    BY ONLY <1>2, <2>1, <2>2
<1>4. r = [s EXCEPT !.level = n, !.decisions = 0]
  BY <1>2, Zenon DEF ResetTrail
<1>5. /\ Rest(s, r) /\ SameUser(s, r) /\ SameFlags(s, r)
      /\ r.level = n /\ r.decisions = 0
      /\ r.assertionLevel = s.assertionLevel /\ r.clauses = s.clauses
      /\ r.mode = s.mode /\ r.failed = s.failed
  BY ONLY <1>1, <1>4 DEF Shape, Fields, Rest, SameUser, SameFlags
<1>6. Rest(e, r)
  BY <1>5, Zenon DEF Rest, Searched
<1>7. r.needPostsolve \in BOOLEAN /\ r.pendingPops = 0
  <2>1. e.needPostsolve \in BOOLEAN
    BY Zenon DEF Good, Typed
  <2> QED
    BY <1>5, <2>1, Zenon DEF Searched, SameFlags, Quiet
<1>8. 0 > 0 => r.needPostsolve
  OBVIOUS
<1> QED
  BY <1>3, <1>5, <1>6, <1>7, <1>8, Zenon DEF Left, Searched, SameUser, SameFlags

\* The scopes after a check: the assumptions' one is due to be popped.
LEMMA LeftExact ==
    ASSUME NEW g, NEW e, Good(e, g), e.inited, NEW d, NEW n, NEW s, Left(e, s, d, n),
           Scopes(e, n)
    PROVE  Exact(s)
<1>1. UserLevel(s) = 1 + Len(s.userLevels) + s.pendingPops
  BY Zenon DEF Scopes, Left, SameUser, UserLevel
<1>2. \A i \in DOMAIN s.userLevels : s.userLevels[i] = i
  <2>1. s.userLevels = e.userLevels
    BY Zenon DEF Left
  <2> QED
    BY <2>1 DEF Scopes
<1>3. s.inited
  BY Zenon DEF Left
<1> QED
  BY <1>1, <1>2, <1>3, Zenon DEF Exact

\* The answer m is recorded, of this engine or of another.
Recorded(e, r, m) ==
    /\ SameUser(e, r) /\ SameFlags(e, r) /\ r.mode = m /\ r.incremental = e.incremental
    /\ r.clauses = e.clauses /\ (e.queryMade => r.queryMade)

\* Recording an answer keeps the engine good.
LEMMA RecordAnswerGood ==
    ASSUME NEW g \in Seq(Definition), NEW e, Good(e, g), NEW m, m \in SmtMode,
           NEW o, o \in BOOLEAN, NEW r, r = RecordAnswer(e, m, o)
    PROVE  Good(r, g) /\ Recorded(e, r, m) /\ r.statusSolver = o /\ r.queryMade
<1>1. Typed(e) /\ Shape(e) /\ Kept(e) /\ Parts(e)
  BY TypedParts, Zenon DEF Good
<1>2. PICK q \in BOOLEAN : q = TRUE
  BY Zenon
<1>3. PICK n : n = Len(e.cur.list)
  OBVIOUS
<1>4. PICK l : l = UserLevel(e)
  OBVIOUS
<1>5. r = [e EXCEPT !.queryMade = q, !.mode = m, !.statusSolver = o,
                    !.checkedAssertions = n, !.checkedLevel = l]
  BY <1>2, <1>3, <1>4, Zenon DEF RecordAnswer
<1>6. /\ Shape(r) /\ SameUser(e, r) /\ SameSat(e, r) /\ SameFlags(e, r)
      /\ r.level = e.level /\ r.mode = m /\ r.failed = e.failed
      /\ r.incremental = e.incremental /\ r.queryMade = q /\ r.statusSolver = o
      /\ r.checkedAssertions = n /\ r.checkedLevel = l
  BY ONLY <1>1, <1>5 DEF Shape, Fields, SameUser, SameSat, SameFlags
<1>7. l \in Nat /\ n \in 0..MaxList
  <2>1. l \in Nat
    BY <1>1, <1>4, UserLevelIs, Zenon
  <2>2. PICK k, m_1 : k = e.cur.defIndex /\ m_1 = Len(g)
    OBVIOUS
  <2>3. n \in Nat /\ k \in Nat /\ m_1 \in Nat
    BY <1>1, <1>3, <2>2 DEF Kept, Version
  <2>4. k <= m_1
    <3>1. Fits(At(e, UserLevel(e)), g)
      <4>1. UserLevel(e) \in 0..UserLevel(e)
        BY <1>4, <2>1
      <4> QED
        BY <4>1, Zenon DEF Good, Versions
    <3>2. At(e, UserLevel(e)) = e.cur
      BY <1>1, AtIs, Zenon
    <3> QED
      BY <2>2, <3>1, <3>2, Zenon DEF Fits
  <2>5. n + m_1 - k <= MaxList
    BY <1>3, <2>2, Zenon DEF Good, Versions, Weight
  <2>6. n \in 0..MaxList
    BY ONLY <2>3, <2>4, <2>5, BoundsAssumption
  <2> QED
    BY <2>1, <2>6
<1>8. Typed(r)
  <2>1. r.queryMade \in BOOLEAN /\ r.statusSolver \in BOOLEAN
    BY <1>2, <1>6, Zenon
  <2> QED
    BY <1>1, <1>6, <1>7, <2>1, Zenon DEF Typed, SameUser, SameSat, SameFlags
<1>9. Relabelled(e, r)
  BY <1>6, Zenon DEF Relabelled, SameFlags, Good
<1>10. Good(r, g)
  BY <1>8, <1>9, RelabelledGood, Zenon
<1>11. r.queryMade
  BY <1>2, <1>6, Zenon
<1> QED
  BY <1>6, <1>10, <1>11, Zenon DEF Recorded, SameSat

\* Recording an answer keeps the scopes accounted for.
LEMMA RecordedExact ==
    ASSUME NEW e, Exact(e), NEW m, NEW r, Recorded(e, r, m)
    PROVE  Exact(r)
<1>1. UserLevel(r) = UserLevel(e) /\ r.userLevels = e.userLevels
      /\ r.pendingPops = e.pendingPops /\ r.inited = e.inited
  BY Zenon DEF Recorded, SameUser, SameFlags, UserLevel
<1> QED
  BY <1>1, Zenon DEF Exact

-----------------------------------------------------------------------------
(* Queries to other solvers.                                               *)

\* The Assert that the last answer is this engine's own.
Watched(e, r) ==
    /\ SameUser(e, r) /\ SameSat(e, r) /\ SameFlags(e, r) /\ Rest(e, r)
    /\ r.level = e.level /\ r.mode = e.mode

\* StatusSolver keeps the engine good.
LEMMA StatusSolverGood ==
    ASSUME NEW g, NEW e, Good(e, g), NEW r, r = Check(e, "status solver", ~e.statusSolver)
    PROVE  Good(r, g) /\ Watched(e, r)
<1>1. Typed(e) /\ Shape(e) /\ Parts(e)
  BY TypedParts, Zenon DEF Good
<1>2. r = e \/ r = [e EXCEPT !.failed = e.failed \union {"status solver"}]
  BY Zenon DEF Check
<1>3. PICK w : w = e.failed \union {"status solver"}
  OBVIOUS
<1>4. r = e \/ r = [e EXCEPT !.failed = w]
  BY <1>2, <1>3, Zenon
<1>5. /\ SameUser(e, r) /\ SameSat(e, r) /\ SameFlags(e, r) /\ Rest(e, r)
      /\ r.level = e.level /\ r.mode = e.mode /\ (r.failed = e.failed \/ r.failed = w)
  BY ONLY <1>1, <1>4 DEF Shape, Fields, SameUser, SameSat, SameFlags, Rest
<1>6. r.failed \subseteq {"status solver"}
  BY <1>3, <1>5, Zenon DEF Good
<1>7. Parts(r)
  BY <1>1, <1>5, Zenon DEF Parts, Kept, SameUser, SameSat, SameFlags
<1>8. Typed(r)
  BY <1>1, <1>5, <1>7, PartsTyped
<1>9. Relabelled(e, r)
  BY <1>5, <1>6, Zenon DEF Relabelled, SameFlags, Rest
<1>10. Good(r, g)
  BY <1>8, <1>9, RelabelledGood, Zenon
<1> QED
  BY <1>5, <1>10, Zenon DEF Watched

\* Recording what was checked keeps the scopes and what unsat is about.
LEMMA WatchedKeeps ==
    ASSUME NEW e, NEW r, Watched(e, r)
    PROVE  /\ Exact(e) => Exact(r)
           /\ \A fs, reset : Unsat(e, fs, reset) => Unsat(r, fs, reset)
<1>1. /\ UserLevel(r) = UserLevel(e) /\ r.userLevels = e.userLevels
      /\ r.pendingPops = e.pendingPops /\ r.inited = e.inited /\ r.cur = e.cur
      /\ r.mode = e.mode /\ r.statusSolver = e.statusSolver
  BY Zenon DEF Watched, SameUser, SameFlags, Rest, UserLevel
<1> QED
  BY <1>1, Zenon DEF Exact, Unsat

\* NotifySynth keeps the engine good.
LEMMA NotifySynthGood ==
    ASSUME NEW g \in Seq(Definition), NEW e, Good(e, g), NEW m, m \in Synths,
           NEW o, o \in BOOLEAN, NEW r, r = NotifySynth(e, m, o)
    PROVE  Good(r, g) /\ r.mode # "UNSAT" /\ (Exact(e) => Exact(r)) /\ \E k : Recorded(e, r, k)
<1>1. Typed(e) /\ Shape(e) /\ Kept(e) /\ Parts(e)
  BY TypedParts, Zenon DEF Good
<1>2. PICK q \in BOOLEAN : q = (e.queryMade \/ m = "SYNTH")
  BY Zenon
<1>3. PICK k : k = IF o THEN m ELSE "ASSERT"
  OBVIOUS
<1>4. k \in SmtMode /\ k # "UNSAT"
  BY <1>3, Modes, Zenon
<1>5. r = [e EXCEPT !.mode = k, !.queryMade = q]
  BY <1>2, <1>3, Zenon DEF NotifySynth
<1>6. /\ Shape(r) /\ SameUser(e, r) /\ SameSat(e, r) /\ SameFlags(e, r)
      /\ r.level = e.level /\ r.mode = k /\ r.failed = e.failed
      /\ r.incremental = e.incremental /\ r.queryMade = q
      /\ r.statusSolver = e.statusSolver
      /\ r.checkedAssertions = e.checkedAssertions /\ r.checkedLevel = e.checkedLevel
  BY ONLY <1>1, <1>5 DEF Shape, Fields, SameUser, SameSat, SameFlags
<1>7. Typed(r)
  <2>1. r.queryMade \in BOOLEAN /\ r.mode \in SmtMode
    BY <1>2, <1>4, <1>6, Zenon
  <2> QED
    BY <1>1, <1>6, <2>1, Zenon DEF Typed, SameUser, SameSat, SameFlags
<1>8. Relabelled(e, r)
  BY <1>6, Zenon DEF Relabelled, SameFlags, Good
<1>9. Good(r, g)
  BY <1>7, <1>8, RelabelledGood, Zenon
<1>10. Recorded(e, r, k)
  <2>1. e.queryMade => r.queryMade
    BY <1>2, <1>6, Zenon
  <2> QED
    BY <1>6, <2>1, Zenon DEF Recorded, SameSat
<1> QED
  BY <1>4, <1>6, <1>9, <1>10, RecordedExact, Zenon

-----------------------------------------------------------------------------
(* The commands.                                                           *)

Histories ==
    /\ globals \in Seq(Definition) /\ asked \in SUBSET AnyFormula
    /\ answer \in [list : Seq(AnyFormula), reset : BOOLEAN]

\* What a command finds.
LEMMA Begins ==
    ASSUME IInv, run = "on"
    PROVE  Good(eng, globals) /\ Exact(eng) /\ Unsat(eng, asked, answer.reset) /\ Histories
  BY Zenon DEF IInv, Histories

\* What a command must show when the engine goes on.
LEMMA StaysOn ==
    ASSUME run = "on", run' = run, Good(eng', globals'), Exact(eng'),
           Unsat(eng', asked', answer'.reset), Histories'
    PROVE  IInv'
  BY Zenon DEF IInv, Histories

\* What a command must show when it throws.
LEMMA LeavesThrown ==
    ASSUME run' = "thrown", Good(eng', globals'), Histories'
    PROVE  IInv'
  BY Zenon DEF IInv, Histories

\* A command that asserts nothing keeps the histories.
LEMMA SameHistories ==
    ASSUME Histories, UNCHANGED <<globals, asked, answer>>
    PROVE  Histories'
  BY DEF Histories

\* Declare keeps the invariant.
LEMMA DeclareStep ==
    ASSUME IInv, run = "on", Declare
    PROVE  IInv'
<1>1. Good(eng, globals) /\ Exact(eng) /\ Histories
  BY Begins
<1>2. /\ eng' = InMode(eng, "ASSERT") /\ globals' = globals /\ run' = run
      /\ UNCHANGED <<globals, asked, answer>>
  BY DEF Declare, InMode
<1>3. Good(InMode(eng, "ASSERT"), globals)
      /\ OnlyMode(eng, InMode(eng, "ASSERT"), "ASSERT")
  BY <1>1, Modes, ModeGood, Zenon
<1>4. Good(eng', globals') /\ Exact(eng')
  BY <1>1, <1>2, <1>3, ModeExact, Zenon
<1>5. Unsat(eng', asked', answer'.reset)
  BY <1>2, <1>3, Modes, NotUnsat, Zenon DEF OnlyMode
<1>6. Histories'
  BY <1>1, <1>2, SameHistories, Zenon
<1> QED
  BY <1>2, <1>4, <1>5, <1>6, StaysOn, Zenon

\* A command has begun: the due pops are done and nothing else has changed.
LEMMA Beginning ==
    ASSUME IInv, run = "on", NEW b, b = BeginCall(eng)
    PROVE  /\ Good(b, globals) /\ Begun(eng, b, globals) /\ b.inited /\ Quiet(b) /\ Exact(b)
           /\ Unsat(b, asked, answer.reset) /\ Histories /\ globals \in Seq(Definition)
<1>1. /\ Good(eng, globals) /\ Exact(eng) /\ Unsat(eng, asked, answer.reset) /\ Histories
  BY Begins
<1>2. globals \in Seq(Definition)
  BY <1>1, Zenon DEF Histories
<1>3. Good(b, globals) /\ Begun(eng, b, globals) /\ Exact(b)
  BY <1>1, <1>2, BeginCallGood
<1> QED
  BY <1>1, <1>2, <1>3, BegunKeeps, Zenon DEF Begun

\* There is still room when a command has begun.
LEMMA BegunRoom ==
    ASSUME IInv, run = "on", NEW b, b = BeginCall(eng), NEW n \in Nat, Room(eng, n)
    PROVE  Weight(b.cur, globals) + n <= MaxList
<1>1. Good(b, globals) /\ Begun(eng, b, globals) /\ globals \in Seq(Definition)
  BY Beginning
<1>2. Good(eng, globals)
  BY Begins
<1>3. b.cur \in Version /\ eng.cur \in Version
  BY <1>1, <1>2, TypedParts, Zenon DEF Good, Kept
<1>4. Weight(eng.cur, globals) + n <= MaxList
  BY <1>1, <1>2, RoomIs
<1>5. Weight(b.cur, globals) <= Weight(eng.cur, globals)
  BY <1>1, Zenon DEF Begun, Before
<1> QED
  BY <1>1, <1>3, <1>4, <1>5, LighterFits

\* A formula is added to an engine after the due pops.
LEMMA AddedGood ==
    ASSUME globals \in Seq(Definition), NEW e, Good(e, globals), Exact(e),
           Unsat(e, asked, answer.reset), Weight(e.cur, globals) + 1 <= MaxList,
           NEW f \in Formula, NEW r, r = AddFormulas(BeginCall(e), <<f>>)
    PROVE  Good(r, globals) /\ Exact(r) /\ Unsat(r, asked, answer.reset)
<1>1. PICK b : b = BeginCall(e)
  OBVIOUS
<1>2. Good(b, globals) /\ Begun(e, b, globals) /\ Exact(b)
  BY <1>1, BeginCallGood
<1>3. b.inited /\ Quiet(b) /\ Unsat(b, asked, answer.reset)
  BY <1>2, BegunKeeps, Zenon DEF Begun
<1>4. PICK fs : fs = <<f>>
  OBVIOUS
<1>5. fs \in Seq(AnyFormula) /\ Len(fs) = 1
  <2>1. PICK S : S = AnyFormula /\ f \in S
    BY Zenon DEF AnyFormula
  <2>2. fs \in Seq(S) /\ Len(fs) = 1
    BY ONLY <1>4, <2>1
  <2> QED
    BY <2>1, <2>2, Zenon
<1>6. Weight(b.cur, globals) + Len(fs) <= MaxList
  <2>1. b.cur \in Version /\ e.cur \in Version
    BY <1>2, TypedParts, Zenon DEF Good, Kept
  <2>2. Weight(b.cur, globals) <= Weight(e.cur, globals)
    BY <1>2, Zenon DEF Begun, Before
  <2>3. 1 \in Nat
    OBVIOUS
  <2>4. Weight(b.cur, globals) + 1 <= MaxList
    BY <2>1, <2>2, <2>3, LighterFits
  <2> QED
    BY <1>5, <2>4, Zenon
<1>7. r = AddFormulas(b, fs)
  BY <1>1, <1>4, Zenon
<1>8. Grown(b, r, globals) /\ r.clauses = b.clauses
  <2>1. Good(b, globals)
    BY <1>2, Zenon
  <2>2. fs \in Seq(AnyFormula)
    BY <1>5, Zenon
  <2>3. globals \in Seq(Definition)
    OBVIOUS
  <2> QED
    BY ONLY <1>6, <1>7, <2>1, <2>2, <2>3, AddFormulasGrown, SMT
<1>9. Good(r, globals)
  <2>1. r.clauses \in SUBSET (AnyFormula \X Nat)
    BY <1>2, <1>8, TypedParts, Zenon DEF Good, Parts
  <2>2. \A c \in r.clauses : \/ c \in b.clauses
                             \/ c[2] = UserLevel(b) - 1 /\ c[1] \in ToSet(r.cur.list)
    BY <1>8, Zenon
  <2> QED
    BY <1>2, <1>3, <1>8, <2>1, <2>2, GrownGood
<1> QED
  BY <1>2, <1>3, <1>8, <1>9, GrownKeeps, Zenon

\* AssertFormula keeps the invariant.
LEMMA AssertFormulaStep ==
    ASSUME IInv, run = "on", NEW f \in Formula, AssertFormula(f)
    PROVE  IInv'
<1>1. /\ Good(eng, globals) /\ Exact(eng) /\ Unsat(eng, asked, answer.reset) /\ Histories
      /\ globals \in Seq(Definition)
  BY Begins, Zenon DEF Histories
<1>2. PICK r : r = AddFormulas(BeginCall(eng), <<f>>)
  OBVIOUS
<1>3. /\ eng' = r /\ run' = run /\ globals' = globals /\ Room(eng, 1)
      /\ UNCHANGED <<globals, asked, answer>> /\ asked' = asked /\ answer' = answer
  BY <1>2 DEF AssertFormula
<1>4. Weight(eng.cur, globals) + 1 <= MaxList
  <2>1. 1 \in Nat
    OBVIOUS
  <2> QED
    BY <1>1, <1>3, <2>1, RoomIs
<1>5. Good(r, globals) /\ Exact(r) /\ Unsat(r, asked, answer.reset)
  BY <1>1, <1>2, <1>4, AddedGood
<1>6. Histories'
  BY <1>1, <1>3, SameHistories, Zenon
<1> QED
  BY <1>3, <1>5, <1>6, StaysOn, Zenon

\* The definitions are added without the due pops.
LEMMA CollectGood ==
    ASSUME globals \in Seq(Definition), NEW e, Good(e, globals), NEW r, r = CollectAssertions(e)
    PROVE  /\ Good(r, globals) /\ r.inited /\ (Exact(e) => Exact(r))
           /\ Weight(r.cur, globals) = Weight(e.cur, globals)
           /\ \A fs, reset : Unsat(e, fs, reset) => Unsat(r, fs, reset)
<1>1. PICK i : i = FinishInit(e)
  OBVIOUS
<1>2. Good(i, globals) /\ Started(e, i) /\ (Exact(e) => Exact(i))
  BY <1>1, FinishInitGood
<1>3. /\ i.inited /\ i.cur = e.cur
      /\ \A fs, reset : Unsat(e, fs, reset) => Unsat(i, fs, reset)
  BY <1>2, Zenon DEF Started, Rest, Unsat
<1>4. r = RefreshDefinitions(i)
  BY <1>1, Zenon DEF CollectAssertions
<1>5. /\ Grown(i, r, globals) /\ Good(r, globals) /\ r.inited
      /\ Weight(r.cur, globals) = Weight(i.cur, globals)
  BY <1>2, <1>3, <1>4, RefreshDefinitionsGood
<1> QED
  BY <1>2, <1>3, <1>5, GrownKeeps, Zenon

\* GetAssertions keeps the invariant.
LEMMA GetAssertionsStep ==
    ASSUME IInv, run = "on", GetAssertions
    PROVE  IInv'
<1>1. /\ Good(eng, globals) /\ Exact(eng) /\ Unsat(eng, asked, answer.reset) /\ Histories
      /\ globals \in Seq(Definition)
  BY Begins, Zenon DEF Histories
<1>2. PICK r : r = CollectAssertions(eng)
  OBVIOUS
<1>3. /\ eng' = r /\ run' = run /\ globals' = globals
      /\ UNCHANGED <<globals, asked, answer>> /\ asked' = asked /\ answer' = answer
  BY <1>2 DEF GetAssertions
<1>4. Good(r, globals) /\ Exact(r) /\ Unsat(r, asked, answer.reset)
  BY <1>1, <1>2, CollectGood
<1>5. Histories'
  BY <1>1, <1>3, SameHistories, Zenon
<1> QED
  BY <1>3, <1>4, <1>5, StaysOn, Zenon

\* BlockModel keeps the invariant.
LEMMA BlockModelStep ==
    ASSUME IInv, run = "on", NEW f \in Formula, BlockModel(f)
    PROVE  IInv'
<1>1. /\ Good(eng, globals) /\ Exact(eng) /\ Unsat(eng, asked, answer.reset) /\ Histories
      /\ globals \in Seq(Definition)
  BY Begins, Zenon DEF Histories
<1>2. PICK e : e = CollectAssertions(eng)
  OBVIOUS
<1>3. PICK r : r = AddFormulas(BeginCall(e), <<f>>)
  OBVIOUS
<1>4. /\ eng' = r /\ run' = run /\ globals' = globals /\ Room(eng, 1)
      /\ UNCHANGED <<globals, asked, answer>> /\ asked' = asked /\ answer' = answer
  BY <1>2, <1>3 DEF BlockModel
<1>5. /\ Good(e, globals) /\ Exact(e) /\ Unsat(e, asked, answer.reset)
      /\ Weight(e.cur, globals) = Weight(eng.cur, globals)
  BY <1>1, <1>2, CollectGood
<1>6. Weight(e.cur, globals) + 1 <= MaxList
  <2>1. 1 \in Nat
    OBVIOUS
  <2> QED
    BY <1>1, <1>4, <1>5, <2>1, RoomIs
<1>7. Good(r, globals) /\ Exact(r) /\ Unsat(r, asked, answer.reset)
  BY <1>1, <1>3, <1>5, <1>6, AddedGood
<1>8. Histories'
  BY <1>1, <1>4, SameHistories, Zenon
<1> QED
  BY <1>4, <1>7, <1>8, StaysOn, Zenon

\* DefineGlobal keeps the invariant.
LEMMA DefineGlobalStep ==
    ASSUME IInv, run = "on", NEW d \in Definition, DefineGlobal(d)
    PROVE  IInv'
<1>1. PICK b : b = BeginCall(eng)
  OBVIOUS
<1>2. /\ Good(b, globals) /\ Exact(b) /\ Unsat(b, asked, answer.reset) /\ Histories
      /\ globals \in Seq(Definition)
  BY <1>1, Beginning
<1>3. /\ eng' = b /\ globals' = Append(globals, d) /\ run' = run
      /\ asked' = asked /\ answer' = answer /\ Room(eng, 1)
  BY <1>1 DEF DefineGlobal
<1>4. Weight(b.cur, globals) + 1 <= MaxList
  <2>1. 1 \in Nat
    OBVIOUS
  <2> QED
    BY <1>1, <1>3, <2>1, BegunRoom
<1>5. Good(b, globals')
  BY <1>2, <1>3, <1>4, DefinitionGood
<1>6. Histories'
  <2>1. globals' \in Seq(Definition)
    BY <1>2, <1>3, Appending
  <2> QED
    BY <1>2, <1>3, <2>1, Zenon DEF Histories
<1> QED
  BY <1>2, <1>3, <1>5, <1>6, StaysOn, Zenon

\* The list has been refreshed, as simplify, push and the queries do.
LEMMA Refreshing ==
    ASSUME IInv, run = "on", NEW r, r = RefreshAssertions(BeginCall(eng))
    PROVE  /\ Good(r, globals) /\ r.inited /\ Quiet(r) /\ Exact(r)
           /\ r.incremental = eng.incremental
           /\ Unsat(r, asked, answer.reset) /\ Histories /\ globals \in Seq(Definition)
<1>1. PICK b : b = BeginCall(eng)
  OBVIOUS
<1>2. /\ Good(b, globals) /\ Begun(eng, b, globals) /\ b.inited /\ Quiet(b) /\ Exact(b)
      /\ Unsat(b, asked, answer.reset) /\ Histories /\ globals \in Seq(Definition)
  BY <1>1, Beginning
<1>3. r = RefreshAssertions(b)
  BY <1>1, Zenon
<1>4. Grown(b, r, globals) /\ Good(r, globals) /\ r.inited
  BY <1>2, <1>3, RefreshGood
<1>5. Quiet(r) /\ Exact(r) /\ Unsat(r, asked, answer.reset)
  BY <1>2, <1>4, GrownKeeps, Zenon
<1>6. r.incremental = eng.incremental
  BY <1>2, <1>4, Zenon DEF Begun, Grown, Rest
<1> QED
  BY <1>2, <1>4, <1>5, <1>6, Zenon

\* Simplify keeps the invariant.
LEMMA SimplifyStep ==
    ASSUME IInv, run = "on", Simplify
    PROVE  IInv'
<1>1. PICK r : r = RefreshAssertions(BeginCall(eng))
  OBVIOUS
<1>2. /\ Good(r, globals) /\ Exact(r) /\ Unsat(r, asked, answer.reset) /\ Histories
  BY <1>1, Refreshing
<1>3. /\ eng' = r /\ run' = run /\ globals' = globals
      /\ UNCHANGED <<globals, asked, answer>> /\ asked' = asked /\ answer' = answer
  BY <1>1 DEF Simplify
<1>4. Histories'
  BY <1>2, <1>3, SameHistories, Zenon
<1> QED
  BY <1>2, <1>3, <1>4, StaysOn, Zenon

\* Push keeps the invariant.
LEMMA PushStep ==
    ASSUME IInv, run = "on", Push
    PROVE  IInv'
<1>1. PICK r : r = RefreshAssertions(BeginCall(eng))
  OBVIOUS
<1>2. /\ Good(r, globals) /\ r.inited /\ Quiet(r) /\ Exact(r)
      /\ r.incremental = eng.incremental
      /\ Histories /\ globals \in Seq(Definition)
  BY <1>1, Refreshing
<1>3. /\ globals' = globals /\ UNCHANGED <<globals, asked, answer>>
      /\ IF eng.incremental THEN eng' = UserPush(r) /\ run' = run
         ELSE eng' = r /\ run' = "thrown"
  BY <1>1 DEF Push
<1>4. Histories'
  BY <1>2, <1>3, SameHistories, Zenon
<1>5. CASE eng.incremental
  <2>1. PICK p : p = UserPush(r)
    OBVIOUS
  <2>2. Good(p, globals) /\ p.inited /\ Exact(p) /\ p.mode # "UNSAT"
    BY <1>2, <1>5, <2>1, UserPushGood
  <2>3. Unsat(p, asked', answer'.reset)
    BY <2>2, NotUnsat, Zenon
  <2> QED
    BY <1>3, <1>4, <1>5, <2>1, <2>2, <2>3, StaysOn, Zenon
<1>6. CASE ~eng.incremental
  BY <1>2, <1>3, <1>4, <1>6, LeavesThrown, Zenon
<1> QED
  BY <1>5, <1>6, Zenon

\* Pop keeps the invariant.
LEMMA PopStep ==
    ASSUME IInv, run = "on", Pop
    PROVE  IInv'
<1>1. PICK b : b = BeginCall(eng)
  OBVIOUS
<1>2. /\ Good(b, globals) /\ b.inited /\ Quiet(b) /\ Exact(b) /\ Begun(eng, b, globals)
      /\ Histories /\ globals \in Seq(Definition)
  BY <1>1, Beginning
<1>3. b.incremental = eng.incremental
  BY <1>2, BegunKeeps, Zenon
<1>4. /\ globals' = globals /\ UNCHANGED <<globals, asked, answer>>
      /\ IF eng.incremental /\ b.userLevels # <<>>
         THEN eng' = UserPop(b) /\ run' = run
         ELSE /\ eng' = (IF eng.incremental THEN InMode(b, "ASSERT") ELSE b)
              /\ run' = "thrown"
  BY <1>1 DEF Pop, InMode
<1>5. Histories'
  BY <1>2, <1>4, SameHistories, Zenon
<1>6. CASE eng.incremental /\ b.userLevels # <<>>
  <2>1. Good(UserPop(b), globals) /\ Popped(b, UserPop(b), globals)
    BY <1>2, <1>3, <1>6, UserPopGood
  <2>2. Exact(UserPop(b)) /\ UserPop(b).mode # "UNSAT"
    BY <2>1, Zenon DEF Popped
  <2>3. Unsat(UserPop(b), asked', answer'.reset)
    BY <2>2, NotUnsat, Zenon
  <2> QED
    BY <1>4, <1>5, <1>6, <2>1, <2>2, <2>3, StaysOn, Zenon
<1>7. CASE ~(eng.incremental /\ b.userLevels # <<>>)
  <2>1. Good(InMode(b, "ASSERT"), globals)
    BY <1>2, Modes, ModeGood, Zenon
  <2>2. Good(eng', globals')
    BY <1>2, <1>4, <1>7, <2>1, Zenon
  <2> QED
    BY <1>4, <1>5, <1>7, <2>2, LeavesThrown, Zenon
<1> QED
  BY <1>6, <1>7, Zenon

\* ResetAssertions keeps the invariant.
LEMMA ResetAssertionsStep ==
    ASSUME IInv, run = "on", ResetAssertions
    PROVE  IInv'
<1>1. Good(eng, globals) /\ Exact(eng) /\ Histories /\ globals \in Seq(Definition)
  BY Begins, Zenon DEF Histories
<1>2. PICK z : z = [NotifyResetAssertions(eng) EXCEPT
                        !.clauses = {}, !.assertionLevel = 0, !.decisions = 0]
  OBVIOUS
<1>3. PICK q \in BOOLEAN : q = TRUE
  BY Zenon
<1>4. /\ eng' = (IF ~eng.inited THEN eng ELSE z) /\ run' = run /\ globals' = globals
      /\ asked' = asked
  BY <1>2, Zenon DEF ResetAssertions
<1>5. answer' = [answer EXCEPT !.reset = q]
  BY <1>3, Zenon DEF ResetAssertions
<1>6. answer' \in [list : Seq(AnyFormula), reset : BOOLEAN] /\ answer'.reset = q
  <2>1. answer \in [list : Seq(AnyFormula), reset : BOOLEAN]
    BY <1>1, Zenon DEF Histories
  <2>2. PICK S : S = Seq(AnyFormula)
    OBVIOUS
  <2>3. answer \in [list : S, reset : BOOLEAN]
    BY <2>1, <2>2, Zenon
  <2>4. answer' \in [list : S, reset : BOOLEAN] /\ answer'.reset = q
    BY ONLY <1>5, <2>3, q \in BOOLEAN
  <2> QED
    BY <2>2, <2>4, Zenon
<1>7. Histories'
  BY <1>1, <1>4, <1>6, Zenon DEF Histories
<1>8. Good(eng', globals') /\ Exact(eng')
  <2>1. CASE eng.inited
    <3>1. Good(z, globals) /\ Exact(z)
      BY <1>1, <1>2, <2>1, ResetGood
    <3> QED
      BY <1>4, <2>1, <3>1, Zenon
  <2>2. CASE ~eng.inited
    BY <1>1, <1>4, <2>2, Zenon
  <2> QED
    BY <2>1, <2>2, Zenon
<1>9. Unsat(eng', asked', answer'.reset)
  BY <1>3, <1>6, Zenon DEF Unsat
<1> QED
  BY <1>4, <1>7, <1>8, <1>9, StaysOn, Zenon

\* CheckSatAgain keeps the invariant.
LEMMA CheckSatAgainStep ==
    ASSUME IInv, run = "on", CheckSatAgain
    PROVE  IInv'
<1>1. PICK b : b = BeginCall(eng)
  OBVIOUS
<1>2. Good(b, globals) /\ Histories
  BY <1>1, Beginning
<1>3. /\ eng' = b /\ run' = "thrown" /\ globals' = globals
      /\ UNCHANGED <<globals, asked, answer>>
  BY <1>1 DEF CheckSatAgain
<1>4. Histories'
  BY <1>2, <1>3, SameHistories, Zenon
<1> QED
  BY <1>2, <1>3, <1>4, LeavesThrown, Zenon

\* Destroy keeps the invariant.
LEMMA DestroyStep ==
    ASSUME IInv, run \in {"on", "thrown"}, Destroy
    PROVE  IInv'
<1>1. Good(eng, globals) /\ Histories /\ globals \in Seq(Definition)
  BY Zenon DEF IInv, Histories
<1>2. /\ eng' = ShutDown(eng) /\ run' = "gone" /\ UNCHANGED <<globals, asked, answer>>
  BY DEF Destroy
<1>3. Done(eng')
  BY <1>1, <1>2, ShutDownDone
<1>4. Histories'
  BY <1>1, <1>2, SameHistories, Zenon
<1> QED
  BY <1>2, <1>3, <1>4, Zenon DEF IInv, Histories

-----------------------------------------------------------------------------
(* The commands that check.                                                *)

\* Adding the assertions keeps a check ready.
LEMMA ReadyGrown ==
    ASSUME globals \in Seq(Definition), NEW e, NEW a, NEW s, Ready(e, s, a, globals),
           NEW r, Grown(s, r, globals), Good(r, globals), r.inited
    PROVE  Ready(e, r, a, globals)
<1>1. /\ Good(s, globals) /\ s.inited /\ Quiet(s) /\ Rest(e, s)
      /\ Opened(s, a) < UserLevel(s) /\ (Exact(e) => Scopes(s, Opened(s, a)))
  BY Zenon DEF Ready
<1>2. /\ UserLevel(r) = UserLevel(s) /\ Quiet(r) /\ r.incremental = s.incremental
      /\ r.userLevels = s.userLevels /\ Rest(e, r)
  BY <1>1, GrownLevel, GrownKeeps, Zenon DEF Grown, Rest, SameFlags
<1>3. Opened(r, a) = Opened(s, a)
  BY <1>2, Zenon DEF Opened
<1>4. Scopes(s, Opened(s, a)) => Scopes(r, Opened(r, a))
  BY <1>2, <1>3, Zenon DEF Scopes
<1> QED
  BY <1>1, <1>2, <1>3, <1>4, Zenon DEF Ready

\* The main driver adds the new part of the list.
LEMMA ReadyRefreshed ==
    ASSUME globals \in Seq(Definition), NEW e, NEW a, NEW s, Ready(e, s, a, globals),
           NEW r, r = RefreshAssertions(s)
    PROVE  Ready(e, r, a, globals)
<1>1. Good(s, globals) /\ s.inited
  BY Zenon DEF Ready
<1>2. Grown(s, r, globals) /\ Good(r, globals) /\ r.inited
  BY <1>1, RefreshGood
<1> QED
  BY <1>2, ReadyGrown

\* A driver of its own adds all of it.
LEMMA ReadyTold ==
    ASSUME globals \in Seq(Definition), NEW e, NEW a, NEW s, Ready(e, s, a, globals),
           NEW r, r = TellAll(s)
    PROVE  Ready(e, r, a, globals)
<1>1. Good(s, globals) /\ s.inited
  BY Zenon DEF Ready
<1>2. Grown(s, r, globals) /\ Good(r, globals) /\ r.inited
  BY <1>1, TellAllGood
<1> QED
  BY <1>2, ReadyGrown

\* A check has ended, with d decisions on the trail.
Ended(e, r) ==
    /\ r.inited /\ r.cur = e.cur /\ r.clauses = e.clauses
    /\ Exact(eng) => Exact(r)

\* EndCheck keeps the engine good.
LEMMA EndCheckGood ==
    ASSUME globals \in Seq(Definition), NEW e, NEW a, Ready(eng, e, a, globals),
           NEW d \in 0..MaxDecisions, NEW s, Searched(e, s, d), NEW r, r = EndCheck(s, a)
    PROVE  Good(r, globals) /\ Ended(e, r)
<1>1. /\ Good(e, globals) /\ e.inited /\ Quiet(e)
      /\ Opened(e, a) < UserLevel(e) /\ (Exact(eng) => Scopes(e, Opened(e, a)))
  BY Zenon DEF Ready
<1>2. PICK n : n = Opened(e, a)
  OBVIOUS
<1>3. n \in 0..1 /\ n < UserLevel(e)
  <2>1. 0 \in 0..1 /\ 1 \in 0..1
    OBVIOUS
  <2> QED
    BY <1>1, <1>2, <2>1, Zenon DEF Opened
<1>4. Left(e, r, d, n)
  BY <1>1, <1>2, EndCheckLeft, Zenon
<1>5. Good(r, globals) /\ r.inited
  BY <1>1, <1>3, <1>4, LeftGood
<1>6. Exact(eng) => Exact(r)
  BY <1>1, <1>2, <1>4, LeftExact, Zenon
<1> QED
  BY <1>4, <1>5, <1>6, Zenon DEF Ended, Left, SameUser

\* Every formula in the SAT solver is asserted.
LEMMA SearchedInForce ==
    ASSUME globals \in Seq(Definition), NEW e, Good(e, globals), NEW d, NEW s, Searched(e, s, d)
    PROVE  /\ {c[1] : c \in s.clauses} \subseteq ToSet(e.cur.list)
           /\ {c[1] : c \in s.clauses} \in SUBSET AnyFormula
           /\ s.cur = e.cur /\ e.cur.list \in Seq(AnyFormula)
<1>1. Typed(e) /\ Kept(e) /\ Versions(e, globals) /\ InForce(e)
  BY TypedParts, Zenon DEF Good
<1>2. s.clauses = e.clauses /\ s.cur = e.cur
  BY Zenon DEF Searched, SameUser
<1>3. {c[1] : c \in e.clauses} \subseteq ToSet(e.cur.list)
  BY <1>1, ClausesAsserted
<1>4. e.cur.list \in Seq(AnyFormula)
  BY <1>1 DEF Kept, Version
<1>5. ToSet(e.cur.list) \subseteq AnyFormula
  BY <1>4, OfSet
<1> QED
  BY <1>2, <1>3, <1>4, <1>5

\* The engine of a check that starts.
LEMMA Checking ==
    ASSUME IInv, run = "on", NEW a \in Assumptions, Room(eng, Len(a)), NEW s, s = StartCheck(a)
    PROVE  /\ Ready(eng, s, a, globals) /\ Good(s, globals) /\ Quiet(s)
           /\ Exact(eng) /\ Histories /\ globals \in Seq(Definition)
<1>1. Good(eng, globals) /\ Exact(eng) /\ Histories /\ globals \in Seq(Definition)
  BY Begins, Zenon DEF Histories
<1>2. Ready(eng, s, a, globals)
  BY <1>1, StartCheckReady
<1> QED
  BY <1>1, <1>2, Zenon DEF Ready

\* The engine of a check that searches.
LEMMA Searching ==
    ASSUME IInv, run = "on", NEW a \in Assumptions, Room(eng, Len(a)), NEW d \in 0..MaxDecisions,
           NEW e, e = RefreshAssertions(StartCheck(a)), NEW s, s = Solve(e, d)
    PROVE  /\ Ready(eng, e, a, globals) /\ Good(e, globals) /\ Quiet(e) /\ Searched(e, s, d)
           /\ Exact(eng) /\ Histories /\ globals \in Seq(Definition)
<1>1. PICK b : b = StartCheck(a)
  OBVIOUS
<1>2. Ready(eng, b, a, globals) /\ Exact(eng) /\ Histories /\ globals \in Seq(Definition)
  BY <1>1, Checking
<1>3. e = RefreshAssertions(b)
  BY <1>1, Zenon
<1>4. Ready(eng, e, a, globals)
  BY <1>2, <1>3, ReadyRefreshed, Zenon
<1>5. Good(e, globals) /\ Quiet(e)
  BY <1>4, Zenon DEF Ready
<1>6. Searched(e, s, d)
  BY <1>5, SolveSearched
<1> QED
  BY <1>2, <1>4, <1>5, <1>6, Zenon

\* The answer that is kept about a check.
LEMMA AnswerKept ==
    ASSUME NEW list \in Seq(AnyFormula), answer' = [list |-> list, reset |-> FALSE]
    PROVE  answer' \in [list : Seq(AnyFormula), reset : BOOLEAN]
<1>1. PICK q \in BOOLEAN : q = FALSE
  BY Zenon
<1>2. answer' = [list |-> list, reset |-> q]
  BY <1>1, Zenon
<1>3. PICK S : S = Seq(AnyFormula) /\ list \in S
  OBVIOUS
<1>4. answer' \in [list : S, reset : BOOLEAN]
  BY ONLY <1>2, <1>3, q \in BOOLEAN
<1> QED
  BY <1>3, <1>4, Zenon

\* CheckSat keeps the invariant.
LEMMA CheckSatStep ==
    ASSUME IInv, run = "on", NEW a \in Assumptions, NEW r \in Answers,
           NEW d \in 0..MaxDecisions, CheckSat(a, r, d)
    PROVE  IInv'
<1>1. PICK e : e = RefreshAssertions(StartCheck(a))
  OBVIOUS
<1>2. PICK s : s = Solve(e, d)
  OBVIOUS
<1>3. PICK no \in BOOLEAN : no = FALSE
  BY Zenon
<1>4. /\ Room(eng, Len(a)) /\ eng' = RecordAnswer(EndCheck(s, a), r, no)
      /\ asked' = {c[1] : c \in s.clauses}
      /\ answer' = [list |-> s.cur.list, reset |-> FALSE]
      /\ globals' = globals /\ run' = run
  BY <1>1, <1>2, <1>3, Zenon DEF CheckSat
<1>5. /\ Ready(eng, e, a, globals) /\ Good(e, globals) /\ Quiet(e) /\ Searched(e, s, d)
      /\ Exact(eng) /\ Histories /\ globals \in Seq(Definition)
  BY <1>1, <1>2, <1>4, Searching
<1>6. PICK x : x = EndCheck(s, a)
  OBVIOUS
<1>7. Good(x, globals) /\ Ended(e, x)
  BY <1>5, <1>6, EndCheckGood
<1>8. PICK z : z = RecordAnswer(x, r, no)
  OBVIOUS
<1>9. r \in SmtMode
  BY Modes
<1>10. Good(z, globals) /\ Recorded(x, z, r)
  BY <1>5, <1>7, <1>8, <1>9, RecordAnswerGood
<1>11. Exact(z)
  BY <1>5, <1>7, <1>10, RecordedExact, Zenon DEF Ended
<1>12. /\ asked' \subseteq ToSet(e.cur.list) /\ asked' \in SUBSET AnyFormula
       /\ s.cur = e.cur /\ e.cur.list \in Seq(AnyFormula)
  BY <1>4, <1>5, SearchedInForce, Zenon
<1>13. eng' = z
  BY <1>4, <1>6, <1>8, Zenon
<1>14. Unsat(eng', asked', answer'.reset)
  <2>1. z.cur = e.cur
    BY <1>7, <1>10, Zenon DEF Ended, Recorded, SameUser
  <2> QED
    BY <1>12, <1>13, <2>1, Zenon DEF Unsat
<1>15. Histories'
  <2>1. answer' \in [list : Seq(AnyFormula), reset : BOOLEAN]
    BY <1>4, <1>12, AnswerKept, Zenon
  <2> QED
    BY <1>4, <1>5, <1>12, <2>1, Zenon DEF Histories
<1> QED
  BY <1>4, <1>10, <1>11, <1>13, <1>14, <1>15, StaysOn, Zenon

\* CheckSatOutOfResources keeps the invariant.
LEMMA CheckSatOutOfResourcesStep ==
    ASSUME IInv, run = "on", NEW a \in Assumptions, CheckSatOutOfResources(a)
    PROVE  IInv'
<1>1. PICK e : e = StartCheck(a)
  OBVIOUS
<1>2. PICK no \in BOOLEAN : no = FALSE
  BY Zenon
<1>3. /\ Room(eng, Len(a)) /\ eng' = RecordAnswer(EndCheck(e, a), "SAT_UNKNOWN", no)
      /\ answer' = [list |-> e.cur.list, reset |-> FALSE]
      /\ globals' = globals /\ run' = run /\ asked' = asked
  BY <1>1, <1>2, Zenon DEF CheckSatOutOfResources
<1>4. /\ Ready(eng, e, a, globals) /\ Good(e, globals) /\ Quiet(e)
      /\ Exact(eng) /\ Histories /\ globals \in Seq(Definition)
  BY <1>1, <1>3, Checking
<1>5. Searched(e, e, 0)
  BY <1>4, NoSearch, Zenon
<1>6. PICK x : x = EndCheck(e, a)
  OBVIOUS
<1>7. Good(x, globals) /\ Ended(e, x)
  <2>1. 0 \in 0..MaxDecisions
    BY BoundsAssumption
  <2> QED
    BY <1>4, <1>5, <1>6, <2>1, EndCheckGood
<1>8. PICK m : m = "SAT_UNKNOWN"
  OBVIOUS
<1>9. m \in SmtMode /\ m # "UNSAT"
  BY <1>8, Modes, Zenon
<1>10. PICK z : z = RecordAnswer(x, m, no)
  OBVIOUS
<1>11. Good(z, globals) /\ Recorded(x, z, m)
  BY <1>4, <1>7, <1>9, <1>10, RecordAnswerGood
<1>12. Exact(z)
  BY <1>4, <1>7, <1>11, RecordedExact, Zenon DEF Ended
<1>13. eng' = z
  BY <1>3, <1>6, <1>8, <1>10, Zenon
<1>14. Unsat(eng', asked', answer'.reset)
  BY <1>9, <1>11, <1>13, NotUnsat, Zenon DEF Recorded
<1>15. Histories'
  <2>1. e.cur.list \in Seq(AnyFormula)
    BY <1>4, <1>5, SearchedInForce, Zenon
  <2>2. answer' \in [list : Seq(AnyFormula), reset : BOOLEAN]
    BY <1>3, <2>1, AnswerKept, Zenon
  <2> QED
    BY <1>3, <1>4, <2>2, Zenon DEF Histories
<1> QED
  BY <1>3, <1>11, <1>12, <1>13, <1>14, <1>15, StaysOn, Zenon

\* resetTrail after a search, or without one, keeps the engine good.
LEMMA TrailResetGood ==
    ASSUME globals \in Seq(Definition), NEW a, NEW x, Ready(eng, x, a, globals),
           NEW n \in 0..MaxDecisions, NEW t, Searched(x, t, n)
    PROVE  Good(ResetTrail(t), globals)
<1>1. PICK r : r = ResetTrail(t)
  OBVIOUS
<1>2. Good(x, globals) /\ x.inited /\ Quiet(x) /\ Opened(x, a) < UserLevel(x)
  BY Zenon DEF Ready
<1>3. 0 < UserLevel(x)
  <2>1. Opened(x, a) = 0 \/ Opened(x, a) = 1
    BY Zenon DEF Opened
  <2>2. UserLevel(x) \in Nat
    BY <1>2, TypedParts, UserLevelIs, Zenon DEF Good
  <2> QED
    BY ONLY <1>2, <2>1, <2>2
<1>4. Left(x, r, 0, 0)
  BY <1>1, <1>2, ResetTrailLeft
<1>5. 0 \in 0..MaxDecisions /\ 0 \in 0..1
  BY BoundsAssumption
<1> QED
  BY <1>1, <1>2, <1>3, <1>4, <1>5, LeftGood

\* CheckSatThrows keeps the invariant.
LEMMA CheckSatThrowsStep ==
    ASSUME IInv, run = "on", NEW a \in Assumptions, NEW d \in 0..MaxDecisions,
           CheckSatThrows(a, d)
    PROVE  IInv'
<1>1. PICK b : b = StartCheck(a)
  OBVIOUS
<1>2. PICK e : e = RefreshAssertions(b)
  OBVIOUS
<1>3. PICK s : s = Solve(e, d)
  OBVIOUS
<1>4. /\ Room(eng, Len(a)) /\ (eng' = ResetTrail(b) \/ eng' = ResetTrail(s))
      /\ run' = "thrown" /\ globals' = globals /\ UNCHANGED <<globals, asked, answer>>
  BY <1>1, <1>2, <1>3 DEF CheckSatThrows
<1>5. /\ Ready(eng, b, a, globals) /\ Good(b, globals) /\ Quiet(b) /\ Histories
      /\ globals \in Seq(Definition)
  BY <1>1, <1>4, Checking
<1>6. Ready(eng, e, a, globals) /\ Searched(e, s, d)
  BY <1>1, <1>2, <1>3, <1>4, Searching
<1>7. Good(ResetTrail(b), globals)
  <2>1. Searched(b, b, 0)
    BY <1>5, NoSearch, Zenon
  <2>2. 0 \in 0..MaxDecisions
    BY BoundsAssumption
  <2> QED
    BY <1>5, <2>1, <2>2, TrailResetGood
<1>8. Good(ResetTrail(s), globals)
  BY <1>5, <1>6, TrailResetGood
<1>9. Histories'
  BY <1>4, <1>5, SameHistories, Zenon
<1> QED
  BY <1>4, <1>7, <1>8, <1>9, LeavesThrown, Zenon

\* CheckSatWrongStatus keeps the invariant.
LEMMA CheckSatWrongStatusStep ==
    ASSUME IInv, run = "on", NEW a \in Assumptions, NEW d \in 0..MaxDecisions,
           CheckSatWrongStatus(a, d)
    PROVE  IInv'
<1>1. PICK e : e = RefreshAssertions(StartCheck(a))
  OBVIOUS
<1>2. PICK s : s = Solve(e, d)
  OBVIOUS
<1>3. PICK x : x = EndCheck(s, a)
  OBVIOUS
<1>4. PICK q \in BOOLEAN : q = TRUE
  BY Zenon
<1>5. /\ Room(eng, Len(a)) /\ eng' = [x EXCEPT !.queryMade = q] /\ run' = "thrown"
      /\ asked' = {c[1] : c \in s.clauses} /\ globals' = globals /\ answer' = answer
  BY <1>1, <1>2, <1>3, <1>4, Zenon DEF CheckSatWrongStatus
<1>6. /\ Ready(eng, e, a, globals) /\ Good(e, globals) /\ Searched(e, s, d)
      /\ Histories /\ globals \in Seq(Definition)
  BY <1>1, <1>2, <1>5, Searching
<1>7. Good(x, globals)
  BY <1>3, <1>6, EndCheckGood
<1>8. Typed(x) /\ Shape(x)
  BY <1>7, Zenon DEF Good, Typed
<1>9. PICK z : z = [x EXCEPT !.queryMade = q]
  OBVIOUS
<1>10. /\ Shape(z) /\ SameUser(x, z) /\ SameSat(x, z) /\ SameFlags(x, z)
       /\ z.level = x.level /\ z.mode = x.mode /\ z.failed = x.failed
       /\ z.incremental = x.incremental /\ z.queryMade = q
       /\ z.statusSolver = x.statusSolver
       /\ z.checkedAssertions = x.checkedAssertions /\ z.checkedLevel = x.checkedLevel
  BY ONLY <1>8, <1>9 DEF Shape, Fields, SameUser, SameSat, SameFlags
<1>11. Typed(z)
  <2>1. z.queryMade \in BOOLEAN
    BY <1>10, Zenon
  <2> QED
    BY <1>8, <1>10, <2>1, Zenon DEF Typed, SameUser, SameSat, SameFlags
<1>12. Relabelled(x, z)
  BY <1>7, <1>10, Zenon DEF Relabelled, SameFlags, Good
<1>13. Good(z, globals)
  BY <1>7, <1>11, <1>12, RelabelledGood, Zenon
<1>14. Histories'
  <2>1. asked' \in SUBSET AnyFormula
    BY <1>5, <1>6, SearchedInForce, Zenon
  <2> QED
    BY <1>5, <1>6, <2>1, Zenon DEF Histories
<1> QED
  BY <1>5, <1>9, <1>13, <1>14, LeavesThrown, Zenon

\* GetTimeoutCore keeps the invariant.
LEMMA GetTimeoutCoreStep ==
    ASSUME IInv, run = "on", NEW r \in Answers, GetTimeoutCore(r)
    PROVE  IInv'
<1>1. PICK s : s = RefreshAssertions(BeginCall(eng))
  OBVIOUS
<1>2. PICK yes \in BOOLEAN : yes = TRUE
  BY Zenon
<1>3. /\ eng' = RecordAnswer(s, r, yes)
      /\ answer' = [list |-> s.cur.list, reset |-> FALSE]
      /\ globals' = globals /\ run' = run /\ asked' = asked
  BY <1>1, <1>2, Zenon DEF GetTimeoutCore
<1>4. /\ Good(s, globals) /\ Quiet(s) /\ Exact(s) /\ Histories /\ globals \in Seq(Definition)
  BY <1>1, Refreshing
<1>5. PICK z : z = RecordAnswer(s, r, yes)
  OBVIOUS
<1>6. Good(z, globals) /\ Recorded(s, z, r) /\ z.statusSolver = yes /\ z.queryMade
  <2>1. r \in SmtMode
    BY Modes
  <2> QED
    BY <1>4, <1>5, <2>1, RecordAnswerGood
<1>7. Exact(z)
  BY <1>4, <1>6, RecordedExact, Zenon
<1>8. eng' = z
  BY <1>3, <1>5, Zenon
<1>9. Unsat(eng', asked', answer'.reset)
  BY <1>2, <1>6, <1>8, Zenon DEF Unsat
<1>10. Histories'
  <2>1. s.cur.list \in Seq(AnyFormula)
    BY <1>4, NoSearch, SearchedInForce, Zenon
  <2>2. answer' \in [list : Seq(AnyFormula), reset : BOOLEAN]
    BY <1>3, <2>1, AnswerKept, Zenon
  <2> QED
    BY <1>3, <1>4, <2>2, Zenon DEF Histories
<1> QED
  BY <1>3, <1>6, <1>7, <1>8, <1>9, <1>10, StaysOn, Zenon

\* AbductionQuery keeps the invariant.
LEMMA AbductionQueryStep ==
    ASSUME IInv, run = "on", NEW m \in {"ABDUCT", "INTERPOL"}, NEW isNext \in BOOLEAN,
           NEW success \in BOOLEAN, AbductionQuery(m, isNext, success)
    PROVE  IInv'
<1>1. /\ Good(eng, globals) /\ Exact(eng) /\ Unsat(eng, asked, answer.reset) /\ Histories
      /\ globals \in Seq(Definition)
  BY Begins, Zenon DEF Histories
<1>2. PICK c : c = Check(eng, "status solver", ~eng.statusSolver)
  OBVIOUS
<1>3. Good(c, globals) /\ Watched(eng, c)
  BY <1>1, <1>2, StatusSolverGood, Zenon
<1>4. Exact(c) /\ Unsat(c, asked, answer.reset)
  BY <1>1, <1>3, WatchedKeeps, Zenon
<1>5. PICK b : b = BeginCall(c)
  OBVIOUS
<1>6. Good(b, globals) /\ Begun(c, b, globals) /\ b.inited /\ Exact(b)
      /\ Unsat(b, asked, answer.reset)
  <2>1. Good(b, globals) /\ Begun(c, b, globals) /\ Exact(b)
    BY <1>1, <1>3, <1>4, <1>5, BeginCallGood
  <2> QED
    BY <1>4, <2>1, BegunKeeps, Zenon DEF Begun
<1>7. PICK x : x = IF isNext THEN b ELSE RefreshAssertions(b)
  OBVIOUS
<1>8. /\ eng' = (IF isNext /\ b.mode # m THEN b ELSE NotifySynth(x, m, success))
      /\ run' = run /\ globals' = globals /\ UNCHANGED <<globals, asked, answer>>
      /\ asked' = asked /\ answer' = answer
  <2>1. /\ eng' = (IF isNext /\ b.mode # m THEN b ELSE NotifySynth(x, m, success))
        /\ UNCHANGED <<globals, run, asked, answer>>
    BY <1>2, <1>5, <1>7, Zenon DEF AbductionQuery
  <2> QED
    BY <2>1
<1>9. Good(x, globals) /\ Exact(x)
  <2>1. CASE isNext
    BY <1>6, <1>7, <2>1, Zenon
  <2>2. CASE ~isNext
    <3>1. x = RefreshAssertions(b)
      BY <1>7, <2>2, Zenon
    <3>2. Grown(b, x, globals) /\ Good(x, globals)
      BY <1>1, <1>6, <3>1, RefreshGood
    <3> QED
      BY <1>6, <3>2, GrownKeeps, Zenon
  <2> QED
    BY <2>1, <2>2, Zenon
<1>10. PICK z : z = NotifySynth(x, m, success)
  OBVIOUS
<1>11. Good(z, globals) /\ z.mode # "UNSAT" /\ Exact(z)
  <2>1. m \in Synths
    BY DEF Synths
  <2> QED
    BY <1>1, <1>9, <1>10, <2>1, NotifySynthGood
<1>12. Unsat(z, asked, answer.reset)
  BY <1>11, NotUnsat, Zenon
<1>13. Histories'
  BY <1>1, <1>8, SameHistories, Zenon
<1>14. eng' = b \/ eng' = z
  BY <1>8, <1>10, Zenon
<1> QED
  BY <1>6, <1>8, <1>11, <1>12, <1>13, <1>14, StaysOn, Zenon

\* SygusQuery keeps the invariant.
LEMMA SygusQueryStep ==
    ASSUME IInv, run = "on", NEW m \in {"SYNTH", "FIND_SYNTH"}, NEW isNext \in BOOLEAN,
           NEW success \in BOOLEAN, SygusQuery(m, isNext, success)
    PROVE  IInv'
<1>1. PICK b : b = BeginCall(eng)
  OBVIOUS
<1>2. /\ Good(b, globals) /\ b.inited /\ Exact(b) /\ Unsat(b, asked, answer.reset)
      /\ Histories /\ globals \in Seq(Definition)
  BY <1>1, Beginning
<1>3. PICK c : c = RefreshDefinitions(b)
  OBVIOUS
<1>4. Good(c, globals) /\ Exact(c) /\ Unsat(c, asked, answer.reset)
  <2>1. Grown(b, c, globals) /\ Good(c, globals)
    BY <1>2, <1>3, RefreshDefinitionsGood
  <2> QED
    BY <1>2, <2>1, GrownKeeps, Zenon
<1>5. PICK x \in {b, c} : eng' \in {x, NotifySynth(x, m, success)}
  BY <1>1, <1>3, Zenon DEF SygusQuery
<1>6. /\ run' = run /\ globals' = globals /\ UNCHANGED <<globals, asked, answer>>
      /\ asked' = asked /\ answer' = answer
  BY DEF SygusQuery
<1>7. Good(x, globals) /\ Exact(x) /\ Unsat(x, asked, answer.reset)
  BY <1>2, <1>4, <1>5, Zenon
<1>8. PICK z : z = NotifySynth(x, m, success)
  OBVIOUS
<1>9. Good(z, globals) /\ z.mode # "UNSAT" /\ Exact(z)
  <2>1. m \in Synths
    BY DEF Synths
  <2> QED
    BY <1>2, <1>7, <1>8, <2>1, NotifySynthGood
<1>10. Unsat(z, asked, answer.reset)
  BY <1>9, NotUnsat, Zenon
<1>11. Histories'
  BY <1>2, <1>6, SameHistories, Zenon
<1>12. eng' = x \/ eng' = z
  BY <1>5, <1>8, Zenon
<1> QED
  BY <1>6, <1>7, <1>9, <1>10, <1>11, <1>12, StaysOn, Zenon

\* The Assert of a quantifier elimination, and the call it begins.
StartsElimination(e) == BeginCall(Check(e, "status solver", ~e.statusSolver))

\* What a quantifier elimination starts with.
LEMMA EliminationBegun ==
    ASSUME globals \in Seq(Definition), NEW e, Good(e, globals),
           NEW b, b = StartsElimination(e)
    PROVE  /\ Opening(e, b, globals)
           /\ \A fs, reset : Unsat(e, fs, reset) => Unsat(b, fs, reset)
<1>1. PICK c : c = Check(e, "status solver", ~e.statusSolver)
  OBVIOUS
<1>2. Good(c, globals) /\ Watched(e, c)
  BY <1>1, StatusSolverGood, Zenon
<1>3. b = BeginCall(c)
  BY <1>1, Zenon DEF StartsElimination
<1>4. Good(b, globals) /\ Begun(c, b, globals) /\ (Exact(c) => Exact(b))
  BY <1>2, <1>3, BeginCallGood
<1>5. b.inited /\ Quiet(b) /\ Rest(e, b) /\ Before(b.cur, e.cur, globals)
  BY <1>2, <1>4, Zenon DEF Begun, Watched, Rest, SameUser
<1>6. Opening(e, b, globals)
  BY <1>2, <1>4, <1>5, WatchedKeeps, Zenon DEF Opening
<1>7. \A fs, reset : Unsat(e, fs, reset) => Unsat(b, fs, reset)
  BY <1>2, <1>4, WatchedKeeps, BegunKeeps, Zenon
<1> QED
  BY <1>6, <1>7

\* The query of a quantifier elimination is its assumption.
LEMMA QueryAssumed ==
    ASSUME NEW q \in Assumption
    PROVE  <<q>> \in Assumptions /\ Len(<<q>>) = 1 /\ <<q>> # <<>>
  BY DEF Assumptions

\* The engine of a quantifier elimination that starts.
LEMMA Eliminating ==
    ASSUME IInv, run = "on", NEW q \in Assumption, Room(eng, 1), NEW a, a = <<q>>,
           NEW s, s = StartElimination(q)
    PROVE  /\ Ready(eng, s, a, globals) /\ Good(s, globals) /\ s.inited /\ Quiet(s)
           /\ Unsat(s, asked, answer.reset)
           /\ Exact(eng) /\ Histories /\ globals \in Seq(Definition)
<1>1. /\ Good(eng, globals) /\ Exact(eng) /\ Histories /\ globals \in Seq(Definition)
      /\ Unsat(eng, asked, answer.reset)
  BY Begins, Zenon DEF Histories
<1>2. PICK b : b = StartsElimination(eng)
  OBVIOUS
<1>3. Opening(eng, b, globals) /\ Unsat(b, asked, answer.reset)
  BY <1>1, <1>2, EliminationBegun, Zenon
<1>4. s = Assume(b, a)
  BY <1>2, Zenon DEF StartElimination, StartsElimination
<1>5. a \in Assumptions /\ Room(eng, Len(a))
  BY QueryAssumed, Zenon
<1>6. /\ Ready(eng, s, a, globals)
      /\ \A fs, reset : Unsat(b, fs, reset) => Unsat(s, fs, reset)
  BY ONLY <1>1, <1>3, <1>4, <1>5, AssumeReady
<1> QED
  BY <1>1, <1>3, <1>6, Zenon DEF Ready

\* The engine of a quantifier elimination that searches.
LEMMA EliminationSearching ==
    ASSUME IInv, run = "on", NEW q \in Assumption, Room(eng, 1), NEW a, a = <<q>>,
           NEW d \in 0..MaxDecisions,
           NEW e, e = TellAll(StartElimination(q)), NEW s, s = Solve(e, d)
    PROVE  /\ Ready(eng, e, a, globals) /\ Good(e, globals) /\ Quiet(e) /\ Searched(e, s, d)
           /\ Exact(eng) /\ Histories /\ globals \in Seq(Definition)
<1>1. PICK b : b = StartElimination(q)
  OBVIOUS
<1>2. Ready(eng, b, a, globals) /\ Exact(eng) /\ Histories /\ globals \in Seq(Definition)
  BY <1>1, Eliminating
<1>3. e = TellAll(b)
  BY <1>1, Zenon
<1>4. Ready(eng, e, a, globals)
  BY <1>2, <1>3, ReadyTold, Zenon
<1>5. Good(e, globals) /\ Quiet(e)
  BY <1>4, Zenon DEF Ready
<1>6. Searched(e, s, d)
  BY <1>5, SolveSearched
<1> QED
  BY <1>2, <1>4, <1>5, <1>6, Zenon

\* EliminateQuantifiers keeps the invariant.
LEMMA EliminateQuantifiersStep ==
    ASSUME IInv, run = "on", NEW q \in Assumption, NEW d \in 0..MaxDecisions,
           EliminateQuantifiers(q, d)
    PROVE  IInv'
<1>1. PICK a : a = <<q>>
  OBVIOUS
<1>2. PICK e : e = TellAll(StartElimination(q))
  OBVIOUS
<1>3. PICK s : s = Solve(e, d)
  OBVIOUS
<1>4. /\ Room(eng, 1) /\ eng' = EndCheck(s, a) /\ asked' = {c[1] : c \in s.clauses}
      /\ globals' = globals /\ run' = run /\ answer' = answer
  BY <1>1, <1>2, <1>3, Zenon DEF EliminateQuantifiers, TellAll
<1>5. /\ Ready(eng, e, a, globals) /\ Good(e, globals) /\ Searched(e, s, d)
      /\ Exact(eng) /\ Histories /\ globals \in Seq(Definition)
  BY <1>1, <1>2, <1>3, <1>4, EliminationSearching
<1>6. PICK x : x = EndCheck(s, a)
  OBVIOUS
<1>7. Good(x, globals) /\ Ended(e, x)
  BY <1>5, <1>6, EndCheckGood
<1>8. asked' \subseteq ToSet(e.cur.list) /\ asked' \in SUBSET AnyFormula
  BY <1>4, <1>5, SearchedInForce, Zenon
<1>9. eng' = x /\ Exact(x) /\ x.cur = e.cur
  BY <1>4, <1>5, <1>6, <1>7, Zenon DEF Ended
<1>10. Unsat(eng', asked', answer'.reset)
  BY <1>8, <1>9, Zenon DEF Unsat
<1>11. Histories'
  BY <1>4, <1>5, <1>8, Zenon DEF Histories
<1> QED
  BY <1>4, <1>7, <1>9, <1>10, <1>11, StaysOn, Zenon

\* EliminationOutOfResources keeps the invariant.
LEMMA EliminationOutOfResourcesStep ==
    ASSUME IInv, run = "on", NEW q \in Assumption, EliminationOutOfResources(q)
    PROVE  IInv'
<1>1. PICK a : a = <<q>>
  OBVIOUS
<1>2. PICK e : e = StartElimination(q)
  OBVIOUS
<1>3. PICK x : x = EndCheck(e, a)
  OBVIOUS
<1>4. /\ Room(eng, 1) /\ eng' = x /\ globals' = globals /\ run' = run
      /\ UNCHANGED <<globals, asked, answer>> /\ asked' = asked /\ answer' = answer
  BY <1>1, <1>2, <1>3 DEF EliminationOutOfResources
<1>5. /\ Ready(eng, e, a, globals) /\ Good(e, globals) /\ Quiet(e) /\ Exact(eng)
      /\ Unsat(e, asked, answer.reset) /\ Histories /\ globals \in Seq(Definition)
  BY <1>1, <1>2, <1>4, Eliminating
<1>6. Searched(e, e, 0)
  BY <1>5, NoSearch, Zenon
<1>7. Good(x, globals) /\ Ended(e, x)
  <2>1. 0 \in 0..MaxDecisions
    BY BoundsAssumption
  <2> QED
    BY <1>3, <1>5, <1>6, <2>1, EndCheckGood
<1>8. Exact(x)
  BY <1>5, <1>7, Zenon DEF Ended
<1>9. Unsat(x, asked, answer.reset)
  <2>1. Left(e, x, 0, Opened(e, a))
    BY <1>3, <1>5, <1>6, EndCheckLeft, Zenon
  <2> QED
    BY <1>5, <2>1, Zenon DEF Unsat, Left, Rest, SameUser
<1>10. Histories'
  BY <1>4, <1>5, SameHistories, Zenon
<1> QED
  BY <1>4, <1>7, <1>8, <1>9, <1>10, StaysOn, Zenon

\* EliminationThrows keeps the invariant.
LEMMA EliminationThrowsStep ==
    ASSUME IInv, run = "on", NEW q \in Assumption, NEW d \in 0..MaxDecisions,
           EliminationThrows(q, d)
    PROVE  IInv'
<1>1. PICK a : a = <<q>>
  OBVIOUS
<1>2. PICK k : k = StartsElimination(eng)
  OBVIOUS
<1>3. PICK b : b = StartElimination(q)
  OBVIOUS
<1>4. PICK e : e = TellAll(b)
  OBVIOUS
<1>5. PICK s : s = Solve(e, d)
  OBVIOUS
<1>6. Room(eng, 1) /\ eng' \in {k, ResetTrail(b), ResetTrail(s)}
  BY <1>2, <1>3, <1>4, <1>5, Zenon DEF EliminationThrows, StartsElimination, TellAll
<1>7. run' = "thrown" /\ globals' = globals /\ UNCHANGED <<globals, asked, answer>>
  BY DEF EliminationThrows
<1>8. /\ Ready(eng, b, a, globals) /\ Good(b, globals) /\ Quiet(b) /\ Histories
      /\ globals \in Seq(Definition)
  BY <1>1, <1>3, <1>6, Eliminating
<1>9. Ready(eng, e, a, globals) /\ Searched(e, s, d)
  BY <1>1, <1>3, <1>4, <1>5, <1>6, EliminationSearching
<1>10. Good(k, globals)
  <2>1. Good(eng, globals)
    BY Begins
  <2> QED
    BY <1>2, <1>8, <2>1, EliminationBegun, Zenon DEF Opening
<1>11. Good(ResetTrail(b), globals)
  <2>1. Searched(b, b, 0)
    BY <1>8, NoSearch, Zenon
  <2>2. 0 \in 0..MaxDecisions
    BY BoundsAssumption
  <2> QED
    BY <1>8, <2>1, <2>2, TrailResetGood
<1>12. Good(ResetTrail(s), globals)
  BY <1>8, <1>9, TrailResetGood
<1>13. Histories'
  BY <1>7, <1>8, SameHistories, Zenon
<1> QED
  BY <1>6, <1>7, <1>10, <1>11, <1>12, <1>13, LeavesThrown, Zenon

-----------------------------------------------------------------------------
(* The theorems.                                                           *)

\* A new engine.
LEMMA Starts ==
    ASSUME Init
    PROVE  IInv /\ ~eng.inited
<1>1. PICK no \in BOOLEAN : no = FALSE
  BY Zenon
<1>2. PICK option \in BOOLEAN : \E none, blank :
         /\ eng = [ incremental |-> option, saved |-> <<>>, cur |-> blank, level |-> 0,
                    assertionLevel |-> 0, decisions |-> 0, clauses |-> none,
                    pendingPops |-> 0, userLevels |-> <<>>, needPostsolve |-> no,
                    inited |-> no, mode |-> "START", queryMade |-> no,
                    statusSolver |-> no, checkedAssertions |-> 0, checkedLevel |-> 0,
                    failed |-> none ]
         /\ none = {} /\ blank = Blank
  BY <1>1, Zenon DEF Init, Blank
<1>3. PICK none, blank :
          /\ eng = [ incremental |-> option, saved |-> <<>>, cur |-> blank, level |-> 0,
                     assertionLevel |-> 0, decisions |-> 0, clauses |-> none,
                     pendingPops |-> 0, userLevels |-> <<>>, needPostsolve |-> no,
                     inited |-> no, mode |-> "START", queryMade |-> no,
                     statusSolver |-> no, checkedAssertions |-> 0, checkedLevel |-> 0,
                     failed |-> none ]
          /\ none = {} /\ blank = Blank
  BY <1>2, Zenon
<1>4. globals = <<>> /\ run = "on" /\ asked = {} /\ answer = [list |-> <<>>, reset |-> no]
  BY <1>1, Zenon DEF Init
<1>5. /\ Shape(eng)
      /\ eng.incremental = option /\ eng.saved = <<>> /\ eng.cur = blank /\ eng.level = 0
      /\ eng.assertionLevel = 0 /\ eng.decisions = 0 /\ eng.clauses = none
      /\ eng.pendingPops = 0 /\ eng.userLevels = <<>> /\ eng.needPostsolve = no
      /\ eng.inited = no /\ eng.mode = "START" /\ eng.queryMade = no
      /\ eng.statusSolver = no /\ eng.checkedAssertions = 0 /\ eng.checkedLevel = 0
      /\ eng.failed = none
  BY ONLY <1>3 DEF Shape, Fields
<1>6. /\ <<>> \in Seq(Version) /\ <<>> \in Seq(Nat) /\ <<>> \in Seq(Definition)
      /\ <<>> \in Seq(AnyFormula) /\ Len(<<>>) = 0
      /\ 0 \in Nat /\ 0 \in 0..MaxList /\ 0 \in 0..MaxDecisions /\ "START" \in SmtMode
      /\ {} \in SUBSET (AnyFormula \X Nat)
  BY BoundsAssumption, Modes
<1>7. globals \in Seq(Definition)
  BY <1>4, <1>6, Zenon
<1>8. Blank \in Version /\ Fits(Blank, globals) /\ Before(Blank, Blank, globals)
  BY <1>7, BlankIs
<1>9. Typed(eng)
  BY <1>2, <1>3, <1>5, <1>6, <1>8, Zenon DEF Typed
<1>10. UserLevel(eng) = 0
  BY <1>5, <1>6, Zenon DEF UserLevel
<1>11. \A i \in 0..0 : At(eng, i) = Blank
  <2>1. \A i \in 0..0 : ~(i < 0)
    OBVIOUS
  <2> QED
    BY <1>2, <1>3, <1>5, <1>10, <2>1, Zenon DEF At
<1>12. Weight(Blank, globals) <= MaxList
  <2>1. Weight(Blank, globals) = Len(<<>>) + Len(<<>>) - 0
    BY <1>4, Zenon DEF Weight, Blank
  <2>2. Len(<<>>) + Len(<<>>) - 0 <= MaxList
    BY <1>6, BoundsAssumption
  <2> QED
    BY <2>1, <2>2, Zenon
<1>13. Versions(eng, globals)
  BY <1>2, <1>3, <1>5, <1>8, <1>10, <1>11, <1>12, Zenon DEF Versions
<1>14. InForce(eng)
  BY <1>2, <1>3, <1>5, Zenon DEF InForce
<1>15. Unused(eng) /\ ~eng.inited /\ eng.failed \subseteq {"status solver"}
  BY <1>1, <1>2, <1>3, <1>5, Zenon DEF Unused
<1>16. Good(eng, globals)
  BY <1>9, <1>13, <1>14, <1>15, Zenon DEF Good
<1>17. Exact(eng)
  <2>1. \A i \in DOMAIN <<>> : <<>>[i] = i
    OBVIOUS
  <2> QED
    BY <1>5, <1>15, <2>1, Zenon DEF Exact
<1>18. Unsat(eng, asked, answer.reset)
  <2>1. eng.mode # "UNSAT"
    BY <1>5
  <2> QED
    BY <2>1, NotUnsat, Zenon
<1>19. answer \in [list : Seq(AnyFormula), reset : BOOLEAN]
  <2>1. PICK S : S = Seq(AnyFormula) /\ <<>> \in S
    BY <1>6
  <2>2. answer \in [list : S, reset : BOOLEAN]
    BY ONLY <1>4, <2>1, no \in BOOLEAN
  <2> QED
    BY <2>1, <2>2, Zenon
<1>20. asked \in SUBSET AnyFormula
  BY <1>4
<1> QED
  BY <1>4, <1>7, <1>15, <1>16, <1>17, <1>18, <1>19, <1>20, Zenon DEF IInv

\* Every command keeps the invariant.
LEMMA CommandStep ==
    ASSUME IInv, run = "on", Command
    PROVE  IInv'
<1>1. ASSUME Declare \/ Simplify \/ Push \/ Pop \/ ResetAssertions \/ CheckSatAgain
             \/ GetAssertions
      PROVE  IInv'
  BY <1>1, DeclareStep, SimplifyStep, PushStep, PopStep, ResetAssertionsStep,
     CheckSatAgainStep, GetAssertionsStep, Zenon
<1>2. ASSUME NEW f \in Formula, AssertFormula(f) \/ BlockModel(f)
      PROVE  IInv'
  BY <1>2, AssertFormulaStep, BlockModelStep, Zenon
<1>3. ASSUME NEW d \in Definition, DefineGlobal(d)
      PROVE  IInv'
  BY <1>3, DefineGlobalStep, Zenon
<1>4. ASSUME NEW a \in Assumptions, NEW d \in 0..MaxDecisions, NEW r \in Answers,
             CheckSat(a, r, d)
      PROVE  IInv'
  BY <1>4, CheckSatStep, Zenon
<1>5. ASSUME NEW a \in Assumptions, NEW d \in 0..MaxDecisions,
             CheckSatThrows(a, d) \/ CheckSatWrongStatus(a, d)
      PROVE  IInv'
  BY <1>5, CheckSatThrowsStep, CheckSatWrongStatusStep, Zenon
<1>6. ASSUME NEW a \in Assumptions, CheckSatOutOfResources(a)
      PROVE  IInv'
  BY <1>6, CheckSatOutOfResourcesStep, Zenon
<1>7. ASSUME NEW r \in Answers, GetTimeoutCore(r)
      PROVE  IInv'
  BY <1>7, GetTimeoutCoreStep, Zenon
<1>8. ASSUME NEW isNext \in BOOLEAN, NEW success \in BOOLEAN,
             NEW m \in Queries \intersect {"ABDUCT", "INTERPOL"}, AbductionQuery(m, isNext, success)
      PROVE  IInv'
  BY <1>8, AbductionQueryStep, Zenon
<1>9. ASSUME NEW isNext \in BOOLEAN, NEW success \in BOOLEAN,
             NEW m \in Queries \intersect {"SYNTH", "FIND_SYNTH"}, SygusQuery(m, isNext, success)
      PROVE  IInv'
  BY <1>9, SygusQueryStep, Zenon
<1>10. ASSUME NEW q \in Assumption, EliminationOutOfResources(q)
       PROVE  IInv'
  BY <1>10, EliminationOutOfResourcesStep, Zenon
<1>11. ASSUME NEW q \in Assumption, NEW d \in 0..MaxDecisions,
              EliminateQuantifiers(q, d) \/ EliminationThrows(q, d)
       PROVE  IInv'
  BY <1>11, EliminateQuantifiersStep, EliminationThrowsStep, Zenon
<1> QED
  BY <1>1, <1>2, <1>3, <1>4, <1>5, <1>6, <1>7, <1>8, <1>9, <1>10, <1>11, Zenon DEF Command

\* Every step keeps the invariant.
LEMMA Steps ==
    ASSUME IInv, [Next]_vars
    PROVE  IInv'
<1>1. CASE run = "on" /\ Command
  BY <1>1, CommandStep, Zenon
<1>2. CASE run \in {"on", "thrown"} /\ Destroy
  BY <1>2, DestroyStep, Zenon
<1>3. CASE UNCHANGED vars
  BY <1>3, Zenon DEF vars, IInv
<1> QED
  BY <1>1, <1>2, <1>3, Zenon DEF Next

\* The inductive invariant: in every state of the engine between commands the
\* contexts, the SAT solver and the recorded levels are in step.
THEOREM Inductive == Spec => []IInv
<1>1. Init => IInv
  BY Starts
<1>2. IInv /\ [Next]_vars => IInv'
  BY Steps
<1> QED
  BY <1>1, <1>2, PTL DEF Spec

\* A sequence whose elements are all in a smaller set.
LEMMA Elements ==
    ASSUME NEW S, NEW q \in Seq(S), NEW T, \A i \in 1..Len(q) : q[i] \in T
    PROVE  q \in Seq(T)
<1>1. Len(q) \in Nat /\ q = [i \in 1..Len(q) |-> q[i]]
  OBVIOUS
<1>2. q \in [1..Len(q) -> T]
  BY <1>1
<1> QED
  BY <1>1, <1>2, SeqDef

\* A version of the list that fits has room for its indices.
LEMMA VersionFits ==
    ASSUME NEW g \in Seq(Definition), NEW v \in Version, Fits(v, g), Weight(v, g) <= MaxList
    PROVE  v \in Values /\ v.index <= Len(v.list) /\ v.defIndex <= Len(g)
<1>1. PICK l, m, i, k : l = Len(v.list) /\ m = Len(g) /\ i = v.index /\ k = v.defIndex
  OBVIOUS
<1>2. l \in Nat /\ m \in Nat /\ i \in Nat /\ k \in Nat
  BY <1>1 DEF Version
<1>3. i <= l /\ k <= m /\ k <= l
  BY <1>1, Zenon DEF Fits
<1>4. l + m - k <= MaxList
  BY <1>1, Zenon DEF Weight
<1>5. i \in 0..MaxList /\ k \in 0..MaxList
  BY ONLY <1>2, <1>3, <1>4, BoundsAssumption
<1>6. v = [list |-> v.list, index |-> v.index, defIndex |-> v.defIndex]
      /\ v.list \in Seq(AnyFormula)
  BY DEF Version
<1>7. v \in Values
  <2>1. PICK q \in Seq(AnyFormula) : q = v.list
    BY <1>6
  <2>2. v = [list |-> q, index |-> i, defIndex |-> k]
    BY <1>1, <1>6, <2>1, Zenon
  <2>3. [list |-> q, index |-> i, defIndex |-> k] \in Values
    BY <1>5 DEF Values
  <2> QED
    BY <2>2, <2>3, Zenon
<1> QED
  BY <1>1, <1>3, <1>7, Zenon

\* The values of the user context, current and saved.
Sized(e, g) ==
    /\ e.cur \in Values /\ e.saved \in Seq(Values)
    /\ \A v \in {e.cur} \union ToSet(e.saved) : v.index <= Len(v.list) /\ v.defIndex <= Len(g)

\* The bounds of the lists of an engine.
LEMMA GoodSized ==
    ASSUME NEW g \in Seq(Definition), NEW e, Good(e, g)
    PROVE  Sized(e, g)
<1>1. Kept(e) /\ Versions(e, g)
  BY TypedParts, Zenon DEF Good
<1>2. /\ UserLevel(e) \in Nat /\ At(e, UserLevel(e)) = e.cur
      /\ \A i \in 0..UserLevel(e) : At(e, i) \in Version
      /\ \A i \in 0..UserLevel(e) : i < UserLevel(e) => At(e, i) = e.saved[i + 1]
  BY <1>1, AtIs
<1>3. ASSUME NEW i \in 0..UserLevel(e)
      PROVE  /\ At(e, i) \in Values /\ At(e, i).index <= Len(At(e, i).list)
             /\ At(e, i).defIndex <= Len(g)
  <2>1. At(e, i) \in Version /\ Fits(At(e, i), g) /\ e.cur \in Version
    BY <1>1, <1>2, Zenon DEF Versions, Kept
  <2>2. i <= UserLevel(e) /\ UserLevel(e) \in 0..UserLevel(e)
    BY <1>2
  <2>3. Weight(At(e, i), g) <= Weight(e.cur, g) /\ Weight(e.cur, g) <= MaxList
    BY <1>1, <1>2, <2>2, Zenon DEF Versions, Before
  <2>4. Weight(At(e, i), g) <= MaxList
    <3>1. Weight(At(e, i), g) \in Int /\ Weight(e.cur, g) \in Int
      BY <2>1, Weights
    <3> QED
      BY ONLY <2>3, <3>1, BoundsAssumption
  <2> QED
    BY <2>1, <2>4, VersionFits
<1>4. e.cur \in Values /\ e.cur.index <= Len(e.cur.list) /\ e.cur.defIndex <= Len(g)
  <2>1. UserLevel(e) \in 0..UserLevel(e)
    BY <1>2
  <2> QED
    BY <1>2, <1>3, <2>1, Zenon
<1>5. ASSUME NEW i \in 1..Len(e.saved)
      PROVE  /\ e.saved[i] \in Values /\ e.saved[i].index <= Len(e.saved[i].list)
             /\ e.saved[i].defIndex <= Len(g)
  <2>1. Len(e.saved) = UserLevel(e)
    BY <1>1, UserLevelIs
  <2>2. PICK j : j = i - 1 /\ j \in 0..UserLevel(e) /\ j < UserLevel(e) /\ j + 1 = i
    BY <1>2, <2>1
  <2>3. At(e, j) = e.saved[i]
    BY <1>2, <2>2, Zenon
  <2> QED
    BY <1>3, <2>2, <2>3, Zenon
<1>6. e.saved \in Seq(Version) /\ DOMAIN e.saved = 1..Len(e.saved)
  BY <1>1 DEF Kept
<1>7. e.saved \in Seq(Values)
  BY <1>5, <1>6, Elements
<1>8. \A v \in ToSet(e.saved) : \E i \in 1..Len(e.saved) : v = e.saved[i]
  BY <1>6, Zenon DEF ToSet
<1> QED
  BY <1>4, <1>5, <1>7, <1>8, Zenon DEF Sized

\* The bounds of the lists of an engine that is gone.
LEMMA DoneSized ==
    ASSUME NEW g \in Seq(Definition), NEW e, Done(e)
    PROVE  Sized(e, g)
<1>1. e.cur = Blank /\ e.saved = <<>>
  BY Zenon DEF Done
<1>2. Blank \in Values /\ Blank.index <= Len(Blank.list) /\ Blank.defIndex <= Len(g)
  <2>1. Blank \in Values /\ Blank.index = 0 /\ Blank.defIndex = 0 /\ Blank.list = <<>>
    BY BoundsAssumption DEF Blank, Values
  <2>2. 0 <= Len(<<>>) /\ 0 <= Len(g)
    OBVIOUS
  <2> QED
    BY <2>1, <2>2, Zenon
<1>3. <<>> \in Seq(Values) /\ ToSet(<<>>) = {}
  BY DEF ToSet
<1> QED
  BY <1>1, <1>2, <1>3, Zenon DEF Sized

\* The invariant implies the types.
LEMMA TypesFollow ==
    ASSUME IInv
    PROVE  TypeOK
<1>1. globals \in Seq(Definition) /\ run \in {"on", "thrown", "gone"}
      /\ asked \subseteq AnyFormula /\ answer \in [list : Seq(AnyFormula), reset : BOOLEAN]
  BY Zenon DEF IInv
<1>2. Typed(eng) /\ Sized(eng, globals)
  <2>1. CASE run # "gone"
    <3>1. Good(eng, globals)
      BY <2>1, Zenon DEF IInv
    <3> QED
      BY <1>1, <3>1, GoodSized, Zenon DEF Good
  <2>2. CASE run = "gone"
    <3>1. Done(eng)
      BY <2>2, Zenon DEF IInv
    <3> QED
      BY <1>1, <3>1, DoneSized, Zenon DEF Done
  <2> QED
    BY <2>1, <2>2, Zenon
<1>3. eng.clauses \subseteq AnyFormula \X Nat
  BY <1>2, Zenon DEF Typed
<1> QED
  BY <1>1, <1>2, <1>3, Zenon DEF TypeOK, Typed, Sized

\* The invariant implies that no Assert failed.
LEMMA AssertsFollow ==
    ASSUME IInv
    PROVE  AssertsHold
<1>1. CASE run # "gone"
  BY <1>1, Zenon DEF IInv, Good, AssertsHold
<1>2. CASE run = "gone"
  BY <1>2, Zenon DEF IInv, Done, AssertsHold
<1> QED
  BY <1>1, <1>2, Zenon

\* The invariant implies that unsat is about what is asserted.
LEMMA UnsatFollows ==
    ASSUME IInv
    PROVE  UnsatInForceUntilReset
<1>1. ASSUME run = "on"
      PROVE  Unsat(eng, asked, answer.reset)
  BY <1>1, Begins, Zenon
<1> QED
  BY <1>1, Zenon DEF Unsat, UnsatInForceUntilReset

\* The Asserts of ContextManager, PropEngine and the SAT solver about levels
\* hold on every path of every command and of the destructor, an exception that
\* left a check half done included, for any nesting of scopes.
THEOREM LevelAssertsHold == Spec => []AssertsHold
<1>1. IInv => AssertsHold
  BY AssertsFollow
<1> QED
  BY <1>1, Inductive, PTL

\* As long as the engine stays in mode UNSAT, what its last search refuted is
\* still asserted: pops and the deferred pop of assumptions end the mode first.
THEOREM UnsatStaysInForce == Spec => []UnsatInForceUntilReset
<1>1. IInv => UnsatInForceUntilReset
  BY UnsatFollows
<1> QED
  BY <1>1, Inductive, PTL

-----------------------------------------------------------------------------
(* ContextManager implements AssertionStack.                               *)

(***************************************************************************)
(* The formulas the user asserted.                                         *)
(***************************************************************************)

\* What the definition of Asserted computes for each prefix of a list.
Sifted(f, list, n) ==
    f = [i \in 0..n |-> IF i = 0 THEN <<>>
                        ELSE IF list[i] \in Formula THEN Append(f[i - 1], list[i])
                        ELSE f[i - 1]]

\* The prefixes, one by one.
LEMMA SiftedAre ==
    ASSUME NEW f, NEW list, NEW n \in Nat
    PROVE  Sifted(f, list, n) <=>
             /\ f = [i \in 0..n |-> f[i]]
             /\ f[0] = <<>>
             /\ \A i \in 1..n : f[i] = IF list[i] \in Formula
                                       THEN Append(f[i - 1], list[i]) ELSE f[i - 1]
<1> DEFINE Prefix(h, i) == IF i = 0 THEN <<>>
                           ELSE IF list[i] \in Formula THEN Append(h[i - 1], list[i])
                           ELSE h[i - 1]
<1>1. Sifted(f, list, n) <=> f = [i \in 0..n |-> Prefix(f, i)]
  BY Zenon DEF Sifted
<1>2. \A i \in 0..n : i = 0 \/ (i # 0 /\ i \in 1..n)
  OBVIOUS
<1>3. 0 \in 0..n /\ \A i \in 1..n : i \in 0..n /\ i # 0
  OBVIOUS
<1>4. Prefix(f, 0) = <<>>
  OBVIOUS
<1>5. \A i \in 1..n : Prefix(f, i) = IF list[i] \in Formula
                                     THEN Append(f[i - 1], list[i]) ELSE f[i - 1]
  BY <1>3, Zenon
<1> HIDE DEF Prefix
<1>6. f = [i \in 0..n |-> Prefix(f, i)] <=>
        f = [i \in 0..n |-> f[i]] /\ \A i \in 0..n : f[i] = Prefix(f, i)
  BY Zenon
<1>7. (\A i \in 0..n : f[i] = Prefix(f, i)) <=>
        f[0] = <<>> /\ \A i \in 1..n : f[i] = Prefix(f, i)
  BY <1>2, <1>3, <1>4, Zenon
<1> QED
  BY <1>1, <1>5, <1>6, <1>7, Zenon

\* Every prefix has its part.
LEMMA SiftedExist ==
    ASSUME NEW list
    PROVE  \A n \in Nat : \E f : Sifted(f, list, n)
<1> DEFINE S == {n \in Nat : \E f : Sifted(f, list, n)}
<1>1. 0 \in S
  <2>1. PICK f : f = [k \in 0..0 |-> <<>>]
    OBVIOUS
  <2>2. 0 \in Nat /\ 0 \in 0..0 /\ 1..0 = {}
    OBVIOUS
  <2>3. f[0] = <<>> /\ f = [i \in 0..0 |-> f[i]]
    BY <2>1, <2>2, Zenon
  <2>4. Sifted(f, list, 0)
    BY <2>2, <2>3, SiftedAre
  <2> QED
    BY <2>4
<1>2. ASSUME NEW n \in Nat, n \in S
      PROVE  n + 1 \in S
  <2>1. PICK f : Sifted(f, list, n)
    BY <1>2
  <2>2. PICK m : m = n + 1 /\ m \in Nat
    OBVIOUS
  <2>3. PICK x : x = IF list[m] \in Formula THEN Append(f[n], list[m]) ELSE f[n]
    OBVIOUS
  <2>4. PICK h : h = [k \in 0..m |-> IF k = m THEN x ELSE f[k]]
    OBVIOUS
  <2>5. /\ f[0] = <<>>
        /\ \A i \in 1..n : f[i] = IF list[i] \in Formula
                                  THEN Append(f[i - 1], list[i]) ELSE f[i - 1]
    BY <2>1, SiftedAre
  <2>6. h = [k \in 0..m |-> h[k]]
    BY <2>4, Zenon
  <2>7. h[0] = <<>>
    <3>1. 0 \in 0..m /\ 0 # m
      BY ONLY <2>2, n \in Nat
    <3> QED
      BY <2>4, <2>5, <3>1, Zenon
  <2>8. ASSUME NEW i \in 1..m
        PROVE  h[i] = IF list[i] \in Formula THEN Append(h[i - 1], list[i]) ELSE h[i - 1]
    <3>1. i \in 0..m /\ i - 1 \in 0..m /\ i - 1 # m /\ (i # m => i \in 1..n)
          /\ (i = m => i - 1 = n)
      BY ONLY <2>2, <2>8, n \in Nat
    <3>2. h[i - 1] = f[i - 1] /\ h[i] = IF i = m THEN x ELSE f[i]
      BY <2>4, <3>1, Zenon
    <3> QED
      BY <2>3, <2>5, <3>1, <3>2, Zenon
  <2>9. Sifted(h, list, m)
    BY <2>2, <2>6, <2>7, <2>8, SiftedAre
  <2> QED
    BY <2>2, <2>9
<1> HIDE DEF S
<1>3. Nat \subseteq S
  BY <1>1, <1>2, Counting
<1> QED
  BY <1>3 DEF S

\* Asserted is the part of the whole list.
LEMMA AssertedIs ==
    ASSUME NEW S, NEW list \in Seq(S)
    PROVE  \E f : Sifted(f, list, Len(list)) /\ Asserted(list) = f[Len(list)]
<1>1. Len(list) \in Nat
  OBVIOUS
<1>2. PICK f : f = CHOOSE h : Sifted(h, list, Len(list))
  OBVIOUS
<1>3. Sifted(f, list, Len(list))
  <2>1. \E h : Sifted(h, list, Len(list))
    BY <1>1, SiftedExist, Zenon
  <2> QED
    BY <1>2, <2>1, Zenon
<1>4. Asserted(list) = (CHOOSE h : Sifted(h, list, Len(list)))[Len(list)]
  BY Zenon DEF Asserted, Sifted
<1> QED
  BY <1>2, <1>3, <1>4, Zenon

\* What follows a prefix does not change its part.
LEMMA SiftedAgree ==
    ASSUME NEW f, NEW p, NEW n \in Nat, Sifted(f, p, n),
           NEW h, NEW q, NEW m \in Nat, Sifted(h, q, m), n <= m,
           \A i \in 1..n : q[i] = p[i]
    PROVE  \A i \in 0..n : h[i] = f[i]
<1> DEFINE S == {i \in Nat : i <= n => h[i] = f[i]}
<1>1. /\ f[0] = <<>>
      /\ \A i \in 1..n : f[i] = IF p[i] \in Formula THEN Append(f[i - 1], p[i]) ELSE f[i - 1]
  BY SiftedAre
<1>2. /\ h[0] = <<>>
      /\ \A i \in 1..m : h[i] = IF q[i] \in Formula THEN Append(h[i - 1], q[i]) ELSE h[i - 1]
  BY SiftedAre
<1>3. 0 \in S
  BY <1>1, <1>2
<1>4. ASSUME NEW i \in Nat, i \in S
      PROVE  i + 1 \in S
  <2>1. ASSUME i + 1 <= n
        PROVE  h[i + 1] = f[i + 1]
    <3>1. PICK k : k = i + 1 /\ k \in 1..n /\ k \in 1..m /\ k - 1 = i /\ i <= n
      BY ONLY <2>1, i \in Nat, n \in Nat, m \in Nat, n <= m
    <3>2. h[i] = f[i]
      BY <1>4, <3>1, Zenon
    <3>3. q[k] = p[k] /\ h[k - 1] = f[k - 1]
      BY <3>1, <3>2, Zenon
    <3>4. h[k] = f[k]
      BY <1>1, <1>2, <3>1, <3>3, Zenon
    <3> QED
      BY <3>1, <3>4, Zenon
  <2> QED
    BY <2>1
<1> HIDE DEF S
<1>5. Nat \subseteq S
  BY <1>3, <1>4, Counting
<1> QED
  BY <1>5 DEF S

\* What is not asserted by the user does not change what is.
LEMMA AssertedJoined ==
    ASSUME NEW q \in Seq(AnyFormula), NEW r \in Seq(AnyFormula), ToSet(r) \intersect Formula = {}
    PROVE  Asserted(Joined(q, r)) = Asserted(q)
<1>1. PICK c : c = Joined(q, r)
  OBVIOUS
<1>2. PICK n \in Nat : n = Len(q)
  OBVIOUS
<1>3. PICK m \in Nat : m = Len(c) /\ n <= m /\ m = n + Len(r)
  <2>0. Len(q) \in Nat /\ Len(r) \in Nat
    OBVIOUS
  <2>1. Len(q) \in Nat /\ Len(r) \in Nat /\ Len(Joined(q, r)) = Len(q) + Len(r)
    BY <2>0, JoinedSet
  <2>2. n <= Len(c) /\ Len(c) = n + Len(r) /\ Len(c) \in Nat
    BY ONLY <2>1, <1>1, <1>2
  <2> QED
    BY <2>2
<1>4. c \in Seq(AnyFormula)
  BY <1>1, JoinedSet
<1>5. PICK f : Sifted(f, q, n) /\ Asserted(q) = f[n]
  BY <1>2, AssertedIs
<1>6. PICK h : Sifted(h, c, m) /\ Asserted(c) = h[m]
  BY <1>3, <1>4, AssertedIs
<1>7. /\ \A i \in 1..n : c[i] = q[i]
      /\ \A i \in 1..m : i > n => c[i] \in ToSet(r)
  <2>1. /\ Len(q) \in Nat /\ Len(r) \in Nat
        /\ \A i \in 1..Len(q) : c[i] = q[i]
        /\ \A i \in 1..Len(r) : c[Len(q) + i] = r[i]
    BY <1>1 DEF Joined
  <2>2. \A i \in 1..Len(r) : r[i] \in ToSet(r)
    BY DEF ToSet
  <2>3. ASSUME NEW i \in 1..m, i > n
        PROVE  c[i] \in ToSet(r)
    <3>1. PICK j \in 1..Len(r) : Len(q) + j = i
      <4>1. i - n \in 1..Len(r) /\ n + (i - n) = i
        BY ONLY <1>3, <2>1, <2>3, n \in Nat
      <4> QED
        BY <1>2, <4>1
    <3>2. c[i] = r[j]
      BY <2>1, <3>1, Zenon
    <3> QED
      BY <2>2, <3>2, Zenon
  <2> QED
    BY <1>2, <2>1, <2>3
<1>8. h[n] = f[n]
  <2>1. \A i \in 0..n : h[i] = f[i]
    BY <1>3, <1>5, <1>6, <1>7, SiftedAgree
  <2> QED
    BY <2>1
<1> DEFINE S == {i \in Nat : n + i <= m => h[n + i] = h[n]}
<1>9. 0 \in S
  <2>1. n + 0 = n
    OBVIOUS
  <2> QED
    BY <2>1
<1>10. ASSUME NEW i \in Nat, i \in S
       PROVE  i + 1 \in S
  <2>1. ASSUME n + (i + 1) <= m
        PROVE  h[n + (i + 1)] = h[n]
    <3>1. PICK k : /\ k = n + (i + 1) /\ k \in 1..m /\ k > n /\ k - 1 = n + i /\ n + i <= m
      BY ONLY <2>1, i \in Nat, n \in Nat, m \in Nat
    <3>2. h[n + i] = h[n]
      BY <1>10, <3>1, Zenon
    <3>3. c[k] \notin Formula
      BY <1>7, <3>1
    <3>4. \A j \in 1..m : h[j] = IF c[j] \in Formula THEN Append(h[j - 1], c[j]) ELSE h[j - 1]
      BY <1>6, SiftedAre
    <3>5. h[k] = h[k - 1]
      BY <3>1, <3>3, <3>4, Zenon
    <3> QED
      BY <3>1, <3>2, <3>5, Zenon
  <2> QED
    BY <2>1
<1> HIDE DEF S
<1>11. Nat \subseteq S
  BY <1>9, <1>10, Counting
<1>12. h[m] = h[n]
  <2>1. m - n \in Nat /\ n + (m - n) = m /\ n + (m - n) <= m
    BY <1>3
  <2>2. m - n \in S
    BY <1>11, <2>1
  <2>3. h[n + (m - n)] = h[n]
    BY <2>1, <2>2, Zenon DEF S
  <2> QED
    BY <2>1, <2>3, Zenon
<1> QED
  BY <1>1, <1>5, <1>6, <1>8, <1>12, Zenon

\* The empty list.
LEMMA AssertedNone == Asserted(<<>>) = <<>>
<1>1. <<>> \in Seq(AnyFormula) /\ Len(<<>>) = 0
  OBVIOUS
<1>2. PICK f : Sifted(f, <<>>, Len(<<>>)) /\ Asserted(<<>>) = f[Len(<<>>)]
  BY <1>1, AssertedIs
<1>3. Sifted(f, <<>>, 0) /\ Asserted(<<>>) = f[0]
  BY <1>1, <1>2, Zenon
<1> QED
  BY <1>3, SiftedAre

\* The user asserts one more formula.
LEMMA AssertedAppend ==
    ASSUME NEW q \in Seq(AnyFormula), NEW e \in Formula
    PROVE  Asserted(Append(q, e)) = Append(Asserted(q), e)
<1>1. PICK c : c = Append(q, e)
  OBVIOUS
<1>2. PICK n \in Nat : n = Len(q)
  OBVIOUS
<1>3. PICK S : S = AnyFormula /\ e \in S
  BY Zenon DEF AnyFormula
<1>4. /\ c \in Seq(AnyFormula) /\ Len(c) = n + 1
      /\ \A i \in 1..n : c[i] = q[i]
      /\ c[n + 1] = e
  <2>1. /\ c \in Seq(S) /\ Len(c) = Len(q) + 1
        /\ \A i \in 1..Len(q) : c[i] = q[i]
        /\ c[Len(q) + 1] = e
    BY <1>1, <1>3, Appending
  <2> QED
    BY <1>2, <1>3, <2>1, Zenon
<1>5. PICK m : m = n + 1 /\ m \in Nat /\ n <= m /\ m \in 1..m /\ m - 1 = n /\ n \in 0..n
  OBVIOUS
<1>6. PICK f : Sifted(f, q, n) /\ Asserted(q) = f[n]
  BY <1>2, AssertedIs
<1>7. PICK h : Sifted(h, c, m) /\ Asserted(c) = h[m]
  <2>1. Len(c) = m
    BY <1>4, <1>5, Zenon
  <2> QED
    BY <1>4, <2>1, AssertedIs
<1>8. h[n] = f[n]
  <2>1. \A i \in 0..n : h[i] = f[i]
    BY <1>4, <1>5, <1>6, <1>7, SiftedAgree
  <2> QED
    BY <1>5, <2>1
<1>9. \A j \in 1..m : h[j] = IF c[j] \in Formula THEN Append(h[j - 1], c[j]) ELSE h[j - 1]
  BY <1>5, <1>7, SiftedAre
<1>10. h[m] = Append(h[n], e)
  <2>1. c[m] = e /\ c[m] \in Formula
    BY <1>4, <1>5, Zenon
  <2>2. h[m] = Append(h[m - 1], c[m])
    BY <1>5, <1>9, <2>1, Zenon
  <2> QED
    BY <1>5, <2>1, <2>2, Zenon
<1> QED
  BY <1>1, <1>6, <1>7, <1>8, <1>10, Zenon

\* Asserted keeps the user's formulas, and only those.
LEMMA AssertedSet ==
    ASSUME NEW q \in Seq(AnyFormula)
    PROVE  /\ Asserted(q) \in Seq(Formula)
           /\ ToSet(Asserted(q)) = ToSet(q) \intersect Formula
<1>1. PICK n \in Nat : n = Len(q)
  OBVIOUS
<1>2. PICK f : Sifted(f, q, n) /\ Asserted(q) = f[n]
  BY <1>1, AssertedIs
<1>3. /\ f[0] = <<>>
      /\ \A i \in 1..n : f[i] = IF q[i] \in Formula THEN Append(f[i - 1], q[i]) ELSE f[i - 1]
  BY <1>2, SiftedAre
<1> DEFINE Upto(i) == {q[j] : j \in 1..i} \intersect Formula
<1> DEFINE S == {i \in Nat : i <= n => f[i] \in Seq(Formula) /\ ToSet(f[i]) = Upto(i)}
<1>4. 0 \in S
  <2>1. <<>> \in Seq(Formula) /\ ToSet(<<>>) = {}
    BY DEF ToSet
  <2>2. Upto(0) = {}
    OBVIOUS
  <2> HIDE DEF Upto
  <2>3. f[0] \in Seq(Formula) /\ ToSet(f[0]) = Upto(0)
    BY <1>3, <2>1, <2>2, Zenon
  <2> QED
    BY <2>3
<1>5. ASSUME NEW i \in Nat, i \in S
      PROVE  i + 1 \in S
  <2>1. ASSUME i + 1 <= n
        PROVE  f[i + 1] \in Seq(Formula) /\ ToSet(f[i + 1]) = Upto(i + 1)
    <3>1. PICK k : k = i + 1 /\ k \in 1..n /\ k - 1 = i /\ i <= n
      BY ONLY <2>1, i \in Nat, n \in Nat
    <3>2. f[i] \in Seq(Formula) /\ ToSet(f[i]) = Upto(i)
      BY <1>5, <3>1
    <3>3. f[k] = IF q[k] \in Formula THEN Append(f[i], q[k]) ELSE f[i]
      <4>1. f[k] = IF q[k] \in Formula THEN Append(f[k - 1], q[k]) ELSE f[k - 1]
        BY <1>3, <3>1, Zenon
      <4> QED
        BY <3>1, <4>1, Zenon
    <3>4. \A j : j \in 1..k <=> j \in 1..i \/ j = k
      BY ONLY <3>1, i \in Nat
    <3>5. {q[j] : j \in 1..k} = {q[j] : j \in 1..i} \union {q[k]}
      BY ONLY <3>4
    <3>6. CASE q[k] \in Formula
      <4>1. PICK x \in Formula : x = q[k]
        BY <3>6
      <4>2. PICK w : w = f[i] /\ w \in Seq(Formula)
        BY <3>2, Zenon
      <4>3. PICK y : y = Append(w, x)
        OBVIOUS
      <4>4. f[k] = y
        BY <3>3, <3>6, <4>1, <4>2, <4>3, Zenon
      <4>5. /\ y \in Seq(Formula) /\ Len(y) = Len(w) + 1
            /\ \A j \in 1..Len(w) : y[j] = w[j]
            /\ y[Len(w) + 1] = x
        BY <4>2, <4>3, Appending
      <4>6. DOMAIN w = 1..Len(w) /\ DOMAIN y = 1..Len(y) /\ Len(w) \in Nat
        BY ONLY <4>2, <4>5
      <4>7. ToSet(y) = ToSet(w) \union {x}
        <5>1. \A j : j \in DOMAIN y <=> j \in DOMAIN w \/ j = Len(w) + 1
          BY ONLY <4>5, <4>6
        <5> QED
          BY ONLY <4>5, <4>6, <5>1 DEF ToSet
      <4>8. Upto(k) = Upto(i) \union {x}
        BY <3>5, <4>1
      <4> HIDE DEF Upto
      <4>9. f[k] \in Seq(Formula) /\ ToSet(f[k]) = Upto(k)
        BY <3>2, <4>2, <4>4, <4>5, <4>7, <4>8, Zenon
      <4> QED
        BY <3>1, <4>9, Zenon
    <3>7. CASE q[k] \notin Formula
      <4>1. Upto(k) = Upto(i)
        BY <3>5, <3>7
      <4> HIDE DEF Upto
      <4>2. f[k] = f[i]
        BY <3>3, <3>7, Zenon
      <4> QED
        BY <3>1, <3>2, <4>1, <4>2, Zenon
    <3> QED
      BY <3>6, <3>7, Zenon
  <2> QED
    BY <2>1
<1>6. Upto(n) = ToSet(q) \intersect Formula
  <2>1. DOMAIN q = 1..n
    BY <1>1
  <2> QED
    BY <2>1 DEF ToSet
<1> HIDE DEF Upto, S
<1>7. Nat \subseteq S
  BY <1>4, <1>5, Counting
<1>8. n \in S /\ n <= n
  BY <1>7
<1> QED
  BY <1>2, <1>6, <1>8, Zenon DEF S

(***************************************************************************)
(* What is kept of an engine beyond IInv so that its steps map to those of *)
(* the stack: which formulas the SAT solver has been told, and that the    *)
(* levels above the user's hold no assertion of the user.                  *)
(***************************************************************************)

\* The user's assertions at a level, and the level of the innermost user scope.
View(e, i) == Asserted(At(e, i).list)
Top(e) == Len(e.userLevels) + 1

\* The part of a list below the index is in the SAT solver, told below level i.
Told(v, i, cs) == \A k \in 1..v.index : \E c \in cs : c[1] = v.list[k] /\ c[2] < i

\* The definitions below the index are in the list, and no others.
Added(v, g) == \A k \in 1..v.defIndex : g[k] \in ToSet(v.list)
Known(v, g) == \A f \in ToSet(v.list) : f \in Definition => f \in ToSet(g)

Sent(v, i, cs, g) == Told(v, i, cs) /\ Added(v, g) /\ Known(v, g)
Loaded(e, g) == \A i \in 0..UserLevel(e) : Sent(At(e, i), i, e.clauses, g)

\* No assumption is in the lists up to level n; true of the user's levels when
\* assumptions have a scope that retracts them.
Plain(e, n) == \A i \in 0..n : Unassumed(At(e, i))
Retracts(e) == e.incremental

\* The recorded levels are the first ones, and above them the user has asserted
\* nothing.
Standing(e) ==
    /\ Top(e) <= UserLevel(e)
    /\ \A i \in DOMAIN e.userLevels : e.userLevels[i] = i
    /\ View(e, UserLevel(e)) = View(e, Top(e))

Traced(e, g) == Loaded(e, g) /\ Standing(e) /\ (Retracts(e) => Plain(e, Top(e)))

\* Between commands.
Abstracted == run = "on" /\ eng.inited => Traced(eng, globals)

\* Two engines with the same user context and the same clauses.
Looks(e, r) == SameUser(e, r) /\ r.clauses = e.clauses

\* Engines with the same contexts and clauses have the same traces.
LEMMA LooksSame ==
    ASSUME NEW e, NEW r, Looks(e, r)
    PROVE  /\ UserLevel(r) = UserLevel(e) /\ r.cur = e.cur
           /\ \A i : At(r, i) = At(e, i)
           /\ \A i : View(r, i) = View(e, i)
           /\ \A g : Loaded(e, g) => Loaded(r, g)
           /\ \A n : Plain(e, n) => Plain(r, n)
<1>1. r.saved = e.saved /\ r.cur = e.cur /\ r.clauses = e.clauses
  BY Zenon DEF Looks, SameUser
<1>2. UserLevel(r) = UserLevel(e)
  BY <1>1, Zenon DEF UserLevel
<1>3. \A i : At(r, i) = At(e, i)
  BY <1>1, <1>2, Zenon DEF At
<1>4. \A i : View(r, i) = View(e, i)
  BY <1>3, Zenon DEF View
<1>5. \A g : Loaded(e, g) => Loaded(r, g)
  BY <1>1, <1>2, <1>3, Zenon DEF Loaded
<1>6. \A n : Plain(e, n) => Plain(r, n)
  BY <1>3, Zenon DEF Plain
<1> QED
  BY <1>1, <1>2, <1>3, <1>4, <1>5, <1>6, Zenon

\* They have the same frames, and are traced alike.
LEMMA LooksTraced ==
    ASSUME NEW e, NEW r, Looks(e, r), r.userLevels = e.userLevels
    PROVE  /\ Frames(r) = Frames(e)
           /\ Standing(e) => Standing(r)
           /\ \A g : Traced(e, g) /\ (Retracts(r) => Retracts(e)) => Traced(r, g)
<1>1. /\ UserLevel(r) = UserLevel(e)
      /\ \A i : View(r, i) = View(e, i)
      /\ \A g : Loaded(e, g) => Loaded(r, g)
      /\ \A n : Plain(e, n) => Plain(r, n)
  BY LooksSame, Zenon
<1>2. Frames(r) = Frames(e)
  <2>1. r.saved = e.saved /\ r.cur = e.cur
    BY Zenon DEF Looks, SameUser
  <2> QED
    BY <2>1, Zenon DEF Frames
<1>3. Top(r) = Top(e)
  BY Zenon DEF Top
<1>4. Standing(e) => Standing(r)
  BY <1>1, <1>3, Zenon DEF Standing
<1> QED
  BY <1>1, <1>2, <1>3, <1>4, Zenon DEF Traced

\* The user's levels are below the user level.
LEMMA TopIs ==
    ASSUME NEW e, Typed(e), Standing(e)
    PROVE  /\ Top(e) \in Nat /\ UserLevel(e) \in Nat /\ Top(e) <= UserLevel(e)
           /\ Len(e.userLevels) \in Nat /\ Top(e) = Len(e.userLevels) + 1
           /\ \A i \in 1..Top(e) : i \in 0..UserLevel(e)
<1>1. e.userLevels \in Seq(Nat) /\ UserLevel(e) \in Nat
  BY TypedParts, UserLevelIs, Zenon DEF Parts
<1>2. Top(e) = Len(e.userLevels) + 1 /\ Top(e) <= UserLevel(e)
  BY Zenon DEF Standing, Top
<1>3. Len(e.userLevels) \in Nat
  BY ONLY <1>1
<1>4. Top(e) \in Nat /\ \A i \in 1..Top(e) : i \in 0..UserLevel(e)
  BY ONLY <1>1, <1>2, <1>3
<1> QED
  BY <1>1, <1>2, <1>3, <1>4

\* The frames of the stack, level by level.
LEMMA FramesAre ==
    ASSUME NEW e, Typed(e), Standing(e)
    PROVE  Frames(e) = [i \in 1..Top(e) |-> View(e, i)]
<1>1. /\ Top(e) \in Nat /\ UserLevel(e) \in Nat /\ Top(e) <= UserLevel(e)
      /\ Len(e.userLevels) \in Nat /\ Top(e) = Len(e.userLevels) + 1
  BY TopIs
<1>2. e.userLevels \in Seq(Nat) /\ Kept(e)
  BY TypedParts, Zenon DEF Parts
<1>3. DOMAIN e.userLevels = 1..Len(e.userLevels)
  BY ONLY <1>2
<1>4. /\ \A i \in DOMAIN e.userLevels : e.userLevels[i] = i
      /\ View(e, UserLevel(e)) = View(e, Top(e))
  BY Zenon DEF Standing
<1>5. ASSUME NEW i \in 1..Top(e)
      PROVE  Asserted(IF i <= Len(e.userLevels) THEN e.saved[e.userLevels[i] + 1].list
                      ELSE e.cur.list) = View(e, i)
  <2>1. CASE i <= Len(e.userLevels)
    <3>1. i \in 1..Len(e.userLevels) /\ i < UserLevel(e)
      BY ONLY <1>1, <2>1, i \in 1..Top(e)
    <3>2. e.userLevels[i] = i
      BY <1>3, <1>4, <3>1, Zenon
    <3>3. At(e, i) = e.saved[i + 1]
      BY <3>1, Zenon DEF At
    <3> QED
      BY <2>1, <3>2, <3>3, Zenon DEF View
  <2>2. CASE ~(i <= Len(e.userLevels))
    <3>1. i = Top(e)
      BY ONLY <1>1, <2>2, i \in 1..Top(e)
    <3>2. At(e, UserLevel(e)) = e.cur
      BY <1>2, AtIs, Zenon
    <3>3. View(e, i) = Asserted(e.cur.list)
      BY <1>4, <3>1, <3>2, Zenon DEF View
    <3> QED
      BY <2>2, <3>3, Zenon
  <2> QED
    BY <2>1, <2>2, Zenon
<1>6. Frames(e) = [i \in 1..Top(e) |->
                      Asserted(IF i <= Len(e.userLevels) THEN e.saved[e.userLevels[i] + 1].list
                               ELSE e.cur.list)]
  BY <1>1, Zenon DEF Frames
<1> QED
  BY <1>5, <1>6, Zenon

\* They are the same when the levels show the same.
LEMMA FramesSame ==
    ASSUME NEW e, Typed(e), Standing(e), NEW r, Typed(r), Standing(r),
           r.userLevels = e.userLevels, \A i \in 1..Top(e) : View(r, i) = View(e, i)
    PROVE  Frames(r) = Frames(e)
<1>1. Top(r) = Top(e)
  BY Zenon DEF Top
<1>2. /\ Frames(e) = [i \in 1..Top(e) |-> View(e, i)]
      /\ Frames(r) = [i \in 1..Top(e) |-> View(r, i)]
  BY <1>1, FramesAre, Zenon
<1> QED
  BY <1>2, Zenon

(***************************************************************************)
(* What the calls that move between scopes do to the levels.               *)
(***************************************************************************)

\* The levels up to n are as they were, and n is the last one.
Below(e, r, n, g) ==
    /\ UserLevel(r) = n
    /\ \A i \in 0..n : At(r, i) = At(e, i)
    /\ Loaded(r, g)

\* What Below says of the levels below n.
LEMMA BelowIs ==
    ASSUME NEW e, NEW r, NEW n, NEW g, Below(e, r, n, g)
    PROVE  /\ UserLevel(r) = n /\ Loaded(r, g)
           /\ \A i \in 0..n : At(r, i) = At(e, i) /\ View(r, i) = View(e, i)
  BY Zenon DEF Below, View

\* One pop that is due: the clauses of the popped level go with it.
LEMMA PopPendingBelow ==
    ASSUME NEW g, NEW s, Typed(s), InStep(s), s.decisions = 0, Loaded(s, g),
           NEW r, r = PopPending(s)
    PROVE  Below(s, r, UserLevel(s) - 1, g)
<1>1. Parts(s) /\ Shape(s) /\ Kept(s) /\ s.clauses \in SUBSET (AnyFormula \X Nat)
  BY TypedParts, Zenon DEF Parts
<1>2. s.saved # <<>> /\ s.assertionLevel = UserLevel(s) - 1
  BY Zenon DEF InStep
<1>3. /\ Rest(s, r)
      /\ r.saved = Front(s.saved) /\ r.cur = Last(s.saved)
      /\ r.assertionLevel = s.assertionLevel - 1 /\ r.level = s.level - 1
      /\ r.decisions = s.decisions
      /\ r.clauses = {c \in s.clauses : c[2] < s.assertionLevel}
      /\ r.pendingPops = s.pendingPops - 1 /\ r.userLevels = s.userLevels
      /\ r.needPostsolve = s.needPostsolve /\ r.inited = s.inited
      /\ r.mode = IF s.mode = "UNSAT" THEN "ASSERT" ELSE s.mode
      /\ r.failed = s.failed
  <2>1. Shape(s) /\ s.decisions = 0 /\ s.saved # <<>> /\ r = PopPending(s)
    BY <1>1, <1>2, Zenon
  <2> QED
    BY ONLY <2>1, PopPendingFields, ZenonT(60)
<1>4. /\ Kept(r) /\ UserLevel(r) = UserLevel(s) - 1
      /\ \A i \in 0..UserLevel(r) : At(r, i) = At(s, i)
  <2>1. r.saved = Front(s.saved) /\ r.cur = Last(s.saved)
    BY <1>3, Zenon
  <2> QED
    BY ONLY <1>1, <1>2, <2>1, PopAt, Zenon
<1>5. UserLevel(s) \in Nat
  BY <1>1, UserLevelIs
<1>6. PICK n : n = UserLevel(s) /\ n \in Nat
  BY <1>5
<1>7. PICK cs : cs = s.clauses
  OBVIOUS
<1>8. PICK ds : ds = r.clauses
  OBVIOUS
<1>9. ds = {c \in cs : c[2] < n - 1} /\ cs \in SUBSET (AnyFormula \X Nat)
  BY <1>1, <1>2, <1>3, <1>6, <1>7, <1>8, Zenon
<1>10. ASSUME NEW i \in 0..UserLevel(r)
       PROVE  Sent(At(r, i), i, r.clauses, g)
  <2>1. i \in 0..n /\ i \in Nat /\ i <= n - 1
    BY ONLY <1>4, <1>6, i \in 0..UserLevel(r)
  <2>2. PICK v : v = At(s, i)
    OBVIOUS
  <2>3. At(r, i) = v
    BY <1>4, <2>2, Zenon
  <2>4. Told(v, i, cs) /\ Added(v, g) /\ Known(v, g)
    BY <1>6, <1>7, <2>1, <2>2, Zenon DEF Loaded, Sent
  <2>5. ASSUME NEW k \in 1..v.index
        PROVE  \E c \in ds : c[1] = v.list[k] /\ c[2] < i
    <3>1. PICK c \in cs : c[1] = v.list[k] /\ c[2] < i
      BY <2>4, Zenon DEF Told
    <3>2. c[2] \in Nat
      BY ONLY <1>9
    <3>3. c[2] < n - 1
      BY ONLY <1>6, <2>1, <3>1, <3>2
    <3>4. c \in ds
      BY <1>9, <3>3, Zenon
    <3> QED
      BY <3>1, <3>4, Zenon
  <2>6. Told(v, i, ds)
    BY <2>5, Zenon DEF Told
  <2> QED
    BY <1>8, <2>3, <2>4, <2>6, Zenon DEF Sent
<1>11. Loaded(r, g)
  BY <1>10, Zenon DEF Loaded
<1> QED
  BY <1>4, <1>11, Zenon DEF Below

\* doPendingPops.
LEMMA DoPendingPopsBelow ==
    ASSUME NEW g \in Seq(Definition), NEW e, Good(e, g), e.inited, Loaded(e, g),
           NEW r, r = DoPendingPops(e)
    PROVE  Below(e, r, UserLevel(e) - e.pendingPops, g)
<1>1. Typed(e) /\ InStep(e)
  BY Zenon DEF Good
<1>2. Parts(e) /\ Shape(e) /\ Kept(e) /\ UserLevel(e) \in Nat
  BY <1>1, TypedParts, UserLevelIs
<1>3. e.pendingPops \in 0..1 /\ e.pendingPops < UserLevel(e)
      /\ (~e.incremental => UserLevel(e) = 1)
  BY <1>1, Zenon DEF InStep
<1>4. e.pendingPops = 0 \/ e.incremental
  <2>1. CASE e.incremental
    BY <2>1, Zenon
  <2>2. CASE ~e.incremental
    <3>1. UserLevel(e) = 1
      BY <1>3, <2>2, Zenon
    <3>2. e.pendingPops = 0
      <4>1. e.pendingPops \in 0..1 /\ e.pendingPops < UserLevel(e)
        BY <1>3, Zenon
      <4> QED
        BY ONLY <3>1, <4>1
    <3> QED
      BY <3>2, Zenon
  <2> QED
    BY <2>1, <2>2, Zenon
<1>5. PICK s : s = Postsolve(e)
  OBVIOUS
<1>6. /\ Good(s, g) /\ Rest(e, s) /\ s.userLevels = e.userLevels /\ s.inited = e.inited
      /\ s.pendingPops = e.pendingPops /\ s.decisions = 0
  BY <1>5, PostsolveGood, Zenon
<1>7. Looks(e, s)
  <2>1. CASE e.needPostsolve
    <3>1. s = IF e.needPostsolve THEN [ResetTrail(e) EXCEPT !.needPostsolve = FALSE] ELSE e
      BY <1>5, Zenon DEF Postsolve
    <3>2. SameUser(e, s) /\ s.clauses = e.clauses
      BY <1>2, <2>1, <3>1, PostsolveFields, Zenon
    <3> QED
      BY <3>2, Zenon DEF Looks
  <2>2. CASE ~e.needPostsolve
    BY <1>5, <2>2, Zenon DEF Postsolve, Looks, SameUser
  <2> QED
    BY <2>1, <2>2, Zenon
<1>8. /\ UserLevel(s) = UserLevel(e) /\ Loaded(s, g)
      /\ \A i : At(s, i) = At(e, i)
  BY <1>7, LooksSame, Zenon
<1>9. r = IF e.pendingPops = 0 THEN s ELSE PopPending(s)
  BY <1>3, <1>4, <1>5, PendingOnce, Zenon
<1>10. CASE e.pendingPops = 0
  <2>1. UserLevel(e) - e.pendingPops = UserLevel(e)
    BY ONLY <1>2, <1>10
  <2> QED
    BY <1>8, <1>9, <1>10, <2>1, Zenon DEF Below
<1>11. CASE e.pendingPops # 0
  <2>1. e.pendingPops = 1
    <3>1. e.pendingPops \in 0..1
      BY <1>3, Zenon
    <3> QED
      BY ONLY <1>11, <3>1
  <2>2. r = PopPending(s)
    BY <1>9, <1>11, Zenon
  <2>3. Typed(s) /\ InStep(s)
    BY <1>6, Zenon DEF Good
  <2>4. Below(s, r, UserLevel(s) - 1, g)
    BY <1>6, <1>8, <2>2, <2>3, PopPendingBelow
  <2> QED
    BY <1>8, <2>1, <2>4, Zenon DEF Below
<1> QED
  BY <1>10, <1>11, Zenon

\* internalPop(true).
LEMMA PopNowBelow ==
    ASSUME NEW g \in Seq(Definition), NEW e, Good(e, g), e.inited, e.incremental, Quiet(e),
           UserLevel(e) > 1, Loaded(e, g), NEW r, r = PopNow(e)
    PROVE  Below(e, r, UserLevel(e) - 1, g)
<1>1. /\ Typed(e) /\ InStep(e) /\ e.pendingPops = 0
  BY Zenon DEF Good, Quiet
<1>2. Parts(e) /\ Shape(e) /\ Kept(e) /\ UserLevel(e) \in Nat
  BY <1>1, TypedParts, UserLevelIs
<1>3. PICK p : p = [e EXCEPT !.pendingPops = e.pendingPops + 1]
  OBVIOUS
<1>4. r = DoPendingPops(p)
  BY <1>3, PopNowIs, Zenon
<1>5. PICK n : n = e.pendingPops + 1
  OBVIOUS
<1>6. n = 1
  BY ONLY <1>1, <1>5
<1>7. /\ Rest(e, p) /\ SameUser(e, p) /\ SameSat(e, p)
      /\ p.pendingPops = n /\ p.userLevels = e.userLevels
      /\ p.needPostsolve = e.needPostsolve /\ p.inited = e.inited
      /\ p.level = e.level /\ p.mode = e.mode /\ p.failed = e.failed
  <2>1. p = [e EXCEPT !.pendingPops = n]
    BY <1>3, <1>5, Zenon
  <2> QED
    BY ONLY <1>2, <2>1 DEF Shape, Fields, Rest, SameUser, SameSat
<1>8. Looks(e, p)
  BY <1>7, Zenon DEF Looks, SameSat
<1>9. /\ UserLevel(p) = UserLevel(e) /\ Loaded(p, g)
      /\ \A i : At(p, i) = At(e, i)
  BY <1>8, LooksSame, Zenon
<1>10. Good(p, g)
  <2>1. Kept(p)
    BY <1>2, <1>7, Zenon DEF Kept, SameUser
  <2>2. n \in Nat /\ n \in 0..1 /\ n < UserLevel(p)
    BY ONLY <1>2, <1>6, <1>9, UserLevel(e) > 1
  <2>3. Parts(p)
    BY <1>2, <1>7, <2>1, <2>2, Zenon DEF Parts, SameSat
  <2>4. Typed(p)
    BY <1>1, <1>7, <2>3, PartsTyped
  <2>5. Versions(p, g)
    BY <1>9, <1>8, LooksSame, Zenon DEF Good, Versions
  <2>6. InForce(p)
    BY <1>7, <1>9, Zenon DEF Good, InForce, SameSat
  <2>7. InStep(p)
    <3>1. p.incremental
      BY <1>7, Zenon DEF Rest
    <3> QED
      BY <1>1, <1>7, <1>9, <2>2, <3>1, Zenon DEF InStep, SameSat, SameUser
  <2> QED
    BY <1>7, <2>4, <2>5, <2>6, <2>7, Zenon DEF Good
<1>11. Below(p, r, UserLevel(p) - p.pendingPops, g)
  BY <1>4, <1>7, <1>9, <1>10, DoPendingPopsBelow
<1> QED
  BY <1>6, <1>7, <1>9, <1>11, Zenon DEF Below

\* Recording levels changes neither the user context nor the clauses.
LEMMA WithLevelsLooks ==
    ASSUME NEW e, Shape(e), NEW q, NEW r, r = WithLevels(e, q)
    PROVE  Looks(e, r) /\ r.userLevels = q
<1>1. r = [e EXCEPT !.userLevels = q]
  BY Zenon DEF WithLevels
<1> QED
  BY ONLY <1>1, Shape(e) DEF Shape, Fields, Looks, SameUser

\* Neither does the mode.
LEMMA InModeLooks ==
    ASSUME NEW e, Shape(e), NEW m, NEW r, r = InMode(e, m)
    PROVE  Looks(e, r) /\ r.userLevels = e.userLevels /\ Rest(e, r) /\ r.mode = m
<1>1. r = [e EXCEPT !.mode = m]
  BY Zenon DEF InMode
<1>2. Rest(e, r) /\ SameUser(e, r) /\ SameSat(e, r) /\ SameFlags(e, r) /\ r.mode = m
  BY ONLY <1>1, Shape(e), ModeFields
<1> QED
  BY <1>2, Zenon DEF Looks, SameSat, SameFlags

\* Popping to the level below is one internalPop(true).
LEMMA PopUserOnce ==
    ASSUME NEW e, NEW level, UserLevel(e) - level = 1, NEW r, r = PopUserTo(e, level)
    PROVE  r = PopNow(e)
<1>1. PICK count : count = UserLevel(e) - level
  OBVIOUS
<1>2. count = 1 /\ count \in Nat /\ 0 \in 0..count /\ 1 \in 0..count /\ 1 # 0 /\ 1 - 1 = 0
  BY <1>1
<1>3. PICK f : f = CHOOSE h : Pops(h, e, count)
  OBVIOUS
<1>4. Pops(f, e, count)
  <2>1. \E h : Pops(h, e, count)
    BY <1>2, PopsExist, Zenon
  <2> QED
    BY <1>3, <2>1, Zenon
<1>5. r = f[count]
  BY <1>1, <1>3, Zenon DEF PopUserTo, PopNow, Pops
<1>6. f[0] = e
  BY <1>2, <1>4, Zenon DEF Pops
<1>7. f[1] = PopNow(f[0])
  <2>1. f[1] = PopNow(f[1 - 1])
    BY <1>2, <1>4, Zenon DEF Pops
  <2> QED
    BY <1>2, <2>1, Zenon
<1> QED
  BY <1>2, <1>5, <1>6, <1>7, Zenon

\* A user pop: one level and one recorded level less.
LEMMA UserPopBelow ==
    ASSUME NEW g \in Seq(Definition), NEW e, Good(e, g), e.inited, e.incremental,
           Quiet(e), Exact(e), e.userLevels # <<>>, Loaded(e, g)
    PROVE  /\ Below(e, UserPop(e), UserLevel(e) - 1, g)
           /\ UserPop(e).userLevels = Front(e.userLevels)
<1>1. Typed(e) /\ e.pendingPops = 0
  BY Zenon DEF Good, Quiet
<1>2. Parts(e) /\ Shape(e) /\ Kept(e)
  BY <1>1, TypedParts
<1>3. PICK q : q = e.userLevels /\ q \in Seq(Nat) /\ q # <<>>
  BY <1>2, Zenon DEF Parts
<1>4. PICK n : n = UserLevel(e) /\ n \in Nat
  BY <1>2, UserLevelIs
<1>5. n = 1 + Len(q) /\ \A i \in DOMAIN q : q[i] = i
  <2>1. n = 1 + Len(q) + e.pendingPops /\ \A i \in DOMAIN q : q[i] = i
    BY <1>3, <1>4, Zenon DEF Exact
  <2>2. e.pendingPops = 0
    BY <1>1, Zenon
  <2> QED
    BY ONLY <1>3, <1>4, <2>1, <2>2
<1>6. Len(q) \in Nat /\ Len(q) > 0 /\ Last(q) = q[Len(q)]
  BY ONLY <1>3, LastIs
<1>7. PICK level : level = Last(q)
  OBVIOUS
<1>8. level = n - 1 /\ level < n /\ n - level = 1 /\ n > 1
  <2>1. Len(q) \in DOMAIN q
    BY ONLY <1>3, <1>6
  <2>2. level = Len(q)
    BY <1>5, <1>6, <1>7, <2>1, Zenon
  <2> QED
    BY ONLY <1>4, <1>5, <1>6, <2>2
<1>9. PICK a : a = InMode(e, "ASSERT")
  OBVIOUS
<1>10. Good(a, g) /\ OnlyMode(e, a, "ASSERT")
  BY <1>9, Modes, ModeGood, Zenon
<1>11. Looks(e, a) /\ a.userLevels = q
  BY <1>2, <1>3, <1>9, InModeLooks, Zenon
<1>12. /\ a.inited /\ a.incremental /\ Quiet(a) /\ UserLevel(a) = n
  BY <1>4, <1>10, Zenon DEF OnlyMode, SameFlags, Rest
<1>13. Loaded(a, g) /\ \A i : At(a, i) = At(e, i)
  BY <1>11, LooksSame, Zenon
<1>14. PICK x : x = PopUserTo(a, level)
  OBVIOUS
<1>15. x = PopNow(a)
  BY <1>8, <1>12, <1>14, PopUserOnce, Zenon
<1>16. UserLevel(a) > 1
  BY <1>8, <1>12, Zenon
<1>17. Below(a, x, UserLevel(a) - 1, g)
  BY <1>10, <1>12, <1>13, <1>15, <1>16, PopNowBelow
<1>18. Good(x, g) /\ x.userLevels = q
  <2>1. Good(x, g) /\ x.userLevels = a.userLevels
    BY <1>10, <1>12, <1>15, <1>16, PopNowGood
  <2> QED
    BY <1>11, <2>1, Zenon
<1>19. UserPop(e) = WithLevels(x, Front(q))
  <2>1. Check(a, "user pop", level < n) = a
    BY <1>8, CheckHolds, Zenon
  <2>2. UserPop(e) = [x EXCEPT !.userLevels = Front(@)]
    BY <1>3, <1>4, <1>7, <1>9, <1>14, <2>1, Zenon DEF UserPop, InMode
  <2>3. UserPop(e) = [x EXCEPT !.userLevels = Front(x.userLevels)]
    BY <2>2, Zenon
  <2> QED
    BY <1>18, <2>3, Zenon DEF WithLevels
<1>20. PICK r : r = UserPop(e)
  OBVIOUS
<1>21. Looks(x, r) /\ r.userLevels = Front(q)
  <2>1. Shape(x)
    BY <1>18, TypedParts, Zenon DEF Good
  <2> QED
    BY <1>19, <1>20, <2>1, WithLevelsLooks, Zenon
<1>22. /\ UserLevel(r) = UserLevel(x) /\ \A i : At(r, i) = At(x, i)
       /\ (Loaded(x, g) => Loaded(r, g))
  BY <1>21, LooksSame, Zenon
<1>23. Below(e, r, UserLevel(e) - 1, g)
  BY <1>4, <1>12, <1>13, <1>17, <1>22, Zenon DEF Below
<1> QED
  BY <1>3, <1>20, <1>21, <1>23, Zenon

(***************************************************************************)
(* What the calls that make a list longer do to the levels.                *)
(***************************************************************************)

\* What has been told stays told, also to the levels above.
LEMMA ToldMore ==
    ASSUME NEW v, NEW i \in Nat, NEW j \in Nat, i <= j, NEW cs, NEW ds, cs \subseteq ds,
           cs \in SUBSET (AnyFormula \X Nat), Told(v, i, cs)
    PROVE  Told(v, j, ds)
<1>1. ASSUME NEW k \in 1..v.index
      PROVE  \E c \in ds : c[1] = v.list[k] /\ c[2] < j
  <2>1. PICK c \in cs : c[1] = v.list[k] /\ c[2] < i
    BY Zenon DEF Told
  <2>2. c[2] \in Nat
    BY ONLY cs \in SUBSET (AnyFormula \X Nat), <2>1
  <2>3. c[2] < j
    BY ONLY <2>1, <2>2, i \in Nat, j \in Nat, i <= j
  <2>4. c \in ds
    BY Zenon
  <2> QED
    BY <2>1, <2>3, <2>4, Zenon
<1> QED
  BY <1>1, Zenon DEF Told

\* The elements of the part of a list that is new since an index was saved.
LEMMA NewElements ==
    ASSUME NEW S, NEW q \in Seq(S), NEW k \in Nat, k <= Len(q),
           NEW r, r = SubSeq(q, k + 1, Len(q))
    PROVE  \A i \in 1..Len(q) : i > k => q[i] \in ToSet(r)
<1>1. r \in Seq(S) /\ Len(r) = Len(q) - k
  BY NewPart
<1>2. Len(q) \in Nat
  OBVIOUS
<1>3. \A j \in 1..Len(r) : r[j] = q[k + j]
  <2>1. \A j \in 1..Len(r) : r[j] = q[k + 1 + j - 1] /\ k + 1 + j - 1 = k + j
    BY ONLY <1>1, <1>2, r = SubSeq(q, k + 1, Len(q)), k \in Nat, k <= Len(q), q \in Seq(S)
  <2> QED
    BY <2>1
<1>4. ASSUME NEW i \in 1..Len(q), i > k
      PROVE  q[i] \in ToSet(r)
  <2>1. PICK j : j = i - k
    OBVIOUS
  <2>2. j \in 1..Len(r) /\ k + j = i
    BY ONLY <1>1, <1>2, <1>4, <2>1, k \in Nat
  <2>3. r[j] = q[i]
    BY <1>3, <2>2, Zenon
  <2>4. \A m \in 1..Len(r) : r[m] \in ToSet(r)
    BY ONLY <1>1 DEF ToSet
  <2> QED
    BY <2>2, <2>3, <2>4, Zenon
<1> QED
  BY <1>4

\* fs has been added to the list in use.
Extended(e, r, fs, g) ==
    /\ UserLevel(r) = UserLevel(e) /\ r.userLevels = e.userLevels
    /\ fs \in Seq(AnyFormula) /\ r.cur.list = Joined(e.cur.list, fs)
    /\ \A i \in 0..UserLevel(e) : i < UserLevel(e) => At(r, i) = At(e, i)
    /\ Loaded(r, g)

\* The version in use is replaced by one that has been sent.
LEMMA ReplacedLoaded ==
    ASSUME NEW g, NEW e, Kept(e), Loaded(e, g), e.clauses \in SUBSET (AnyFormula \X Nat), NEW r,
           r.saved = e.saved, r.cur \in Version, e.clauses \subseteq r.clauses,
           Sent(r.cur, UserLevel(e), r.clauses, g)
    PROVE  /\ UserLevel(r) = UserLevel(e) /\ Loaded(r, g)
           /\ \A i \in 0..UserLevel(e) : i < UserLevel(e) => At(r, i) = At(e, i)
<1>1. /\ Kept(r) /\ UserLevel(r) = UserLevel(e)
      /\ \A i \in 0..UserLevel(e) : i < UserLevel(e) => At(r, i) = At(e, i)
  BY VersionReplaced
<1>2. UserLevel(e) \in Nat /\ At(r, UserLevel(r)) = r.cur
  BY <1>1, AtIs
<1>3. ASSUME NEW i \in 0..UserLevel(r)
      PROVE  Sent(At(r, i), i, r.clauses, g)
  <2>1. i \in 0..UserLevel(e) /\ i \in Nat /\ i <= i /\ (i < UserLevel(e) \/ i = UserLevel(e))
    BY ONLY <1>1, <1>2, i \in 0..UserLevel(r)
  <2>2. CASE i < UserLevel(e)
    <3>1. At(r, i) = At(e, i)
      BY <1>1, <2>1, <2>2, Zenon
    <3>2. Told(At(e, i), i, e.clauses) /\ Added(At(e, i), g) /\ Known(At(e, i), g)
      BY <2>1, Zenon DEF Loaded, Sent
    <3>3. Told(At(e, i), i, r.clauses)
      BY <2>1, <3>2, ToldMore
    <3> QED
      BY <3>1, <3>2, <3>3, Zenon DEF Sent
  <2>3. CASE i = UserLevel(e)
    BY <1>1, <1>2, <2>3, Zenon
  <2> QED
    BY <2>1, <2>2, <2>3, Zenon
<1> QED
  BY <1>1, <1>3, Zenon DEF Loaded

\* What is in force at the level in use.
LEMMA CurIs ==
    ASSUME NEW g \in Seq(Definition), NEW e, Good(e, g), Loaded(e, g)
    PROVE  /\ Kept(e) /\ e.clauses \in SUBSET (AnyFormula \X Nat) /\ Fits(e.cur, g)
           /\ Sent(e.cur, UserLevel(e), e.clauses, g)
           /\ e.cur.list \in Seq(AnyFormula) /\ e.cur.index \in Nat /\ e.cur.defIndex \in Nat
           /\ UserLevel(e) \in Nat /\ At(e, UserLevel(e)) = e.cur
<1>1. Typed(e) /\ Versions(e, g)
  BY Zenon DEF Good
<1>2. Parts(e) /\ Kept(e) /\ e.clauses \in SUBSET (AnyFormula \X Nat)
  BY <1>1, TypedParts, Zenon DEF Parts
<1>3. UserLevel(e) \in Nat /\ At(e, UserLevel(e)) = e.cur
  BY <1>2, AtIs
<1>4. UserLevel(e) \in 0..UserLevel(e)
  BY ONLY <1>3
<1>5. Fits(e.cur, g)
  BY <1>1, <1>3, <1>4, Zenon DEF Versions
<1>6. Sent(e.cur, UserLevel(e), e.clauses, g)
  BY <1>3, <1>4, Zenon DEF Loaded
<1>7. e.cur.list \in Seq(AnyFormula) /\ e.cur.index \in Nat /\ e.cur.defIndex \in Nat
  BY <1>2 DEF Kept, Version
<1> QED
  BY <1>2, <1>3, <1>5, <1>6, <1>7, Zenon

\* A longer list: what was told of it is still told.
LEMMA LongerTold ==
    ASSUME NEW v, NEW w, NEW q \in Seq(AnyFormula), NEW fs \in Seq(AnyFormula), v.list = q,
           w.list = Joined(q, fs), w.index = v.index, v.index \in Nat, v.index <= Len(q),
           NEW i, NEW cs, Told(v, i, cs)
    PROVE  Told(w, i, cs)
<1>1. \A k \in 1..Len(q) : Joined(q, fs)[k] = q[k]
  BY DEF Joined
<1>2. Len(q) \in Nat
  OBVIOUS
<1>3. \A k \in 1..v.index : k \in 1..Len(q)
  BY ONLY <1>2, v.index \in Nat, v.index <= Len(q)
<1>4. \A k \in 1..v.index : w.list[k] = v.list[k]
  BY <1>1, <1>3, Zenon
<1> QED
  BY <1>4, Zenon DEF Told

\* Formulas other than definitions are added.
LEMMA AddFormulasExtended ==
    ASSUME NEW g \in Seq(Definition), NEW e, Good(e, g), Loaded(e, g),
           NEW fs \in Seq(AnyFormula), ToSet(fs) \intersect Definition = {},
           NEW r, r = AddFormulas(e, fs)
    PROVE  Extended(e, r, fs, g) /\ r.clauses = e.clauses
<1>1. Typed(e)
  BY Zenon DEF Good
<1>2. /\ Kept(e) /\ e.clauses \in SUBSET (AnyFormula \X Nat) /\ Fits(e.cur, g)
      /\ Sent(e.cur, UserLevel(e), e.clauses, g)
      /\ e.cur.list \in Seq(AnyFormula) /\ e.cur.index \in Nat /\ e.cur.defIndex \in Nat
      /\ UserLevel(e) \in Nat /\ At(e, UserLevel(e)) = e.cur
  BY CurIs
<1>3. /\ SameSat(e, r) /\ SameFlags(e, r) /\ r.saved = e.saved
      /\ r.cur = [list |-> e.cur.list \o fs, index |-> e.cur.index,
                  defIndex |-> e.cur.defIndex]
  BY <1>1, AddFormulasFields
<1>4. PICK q : q = e.cur.list /\ q \in Seq(AnyFormula)
  BY <1>2
<1>5. PICK w : w = Joined(q, fs)
  OBVIOUS
<1>6. /\ w \in Seq(AnyFormula) /\ ToSet(q) \subseteq ToSet(w)
      /\ ToSet(w) \subseteq ToSet(q) \union ToSet(fs)
  BY ONLY <1>4, <1>5, fs \in Seq(AnyFormula), JoinedSet, Zenon
<1>7. r.cur.list = w /\ r.cur.index = e.cur.index /\ r.cur.defIndex = e.cur.defIndex
      /\ r.cur \in Version
  <2>1. r.cur = [list |-> w, index |-> e.cur.index, defIndex |-> e.cur.defIndex]
    BY <1>3, <1>4, <1>5, Zenon DEF Joined
  <2> QED
    BY ONLY <1>2, <1>6, <2>1 DEF Version
<1>8. r.clauses = e.clauses /\ r.userLevels = e.userLevels
  BY <1>3, Zenon DEF SameSat, SameFlags
<1>9. Sent(r.cur, UserLevel(e), r.clauses, g)
  <2>1. Told(r.cur, UserLevel(e), e.clauses)
    <3>1. Told(e.cur, UserLevel(e), e.clauses) /\ e.cur.index <= Len(q)
      BY <1>2, <1>4, Zenon DEF Sent, Fits
    <3> QED
      BY <1>2, <1>4, <1>5, <1>7, <3>1, LongerTold
  <2>2. Added(r.cur, g)
    BY <1>2, <1>4, <1>6, <1>7, Zenon DEF Sent, Added
  <2>3. Known(r.cur, g)
    <3>1. \A f \in ToSet(e.cur.list) : f \in Definition => f \in ToSet(g)
      BY <1>2, Zenon DEF Sent, Known
    <3>2. \A f \in ToSet(w) : f \in Definition => f \in ToSet(g)
      BY <1>4, <1>6, <3>1
    <3> QED
      BY <1>7, <3>2, Zenon DEF Known
  <2> QED
    BY <1>8, <2>1, <2>2, <2>3, Zenon DEF Sent
<1>10. /\ UserLevel(r) = UserLevel(e) /\ Loaded(r, g)
       /\ \A i \in 0..UserLevel(e) : i < UserLevel(e) => At(r, i) = At(e, i)
  <2>1. /\ r.saved = e.saved /\ e.clauses \subseteq r.clauses
        /\ Kept(e) /\ Loaded(e, g) /\ e.clauses \in SUBSET (AnyFormula \X Nat)
    BY <1>2, <1>3, <1>8
  <2>2. r.cur \in Version /\ Sent(r.cur, UserLevel(e), r.clauses, g)
    BY <1>7, <1>9, Zenon
  <2> QED
    BY ONLY <2>1, <2>2, ReplacedLoaded
<1> QED
  BY <1>4, <1>5, <1>7, <1>8, <1>10, Zenon DEF Extended

\* Assertions::refresh adds the definitions not seen yet.
LEMMA RefreshDefinitionsExtended ==
    ASSUME globals \in Seq(Definition), NEW e, Good(e, globals), Loaded(e, globals),
           NEW r, r = RefreshDefinitions(e)
    PROVE  /\ \E fs : Extended(e, r, fs, globals) /\ ToSet(fs) \subseteq Definition
           /\ ToSet(globals) \subseteq ToSet(r.cur.list)
<1>1. PICK g : g = globals /\ g \in Seq(Definition) /\ g \in Seq(AnyFormula) /\ Len(g) \in Nat
  BY DefinitionsAreFormulas
<1>2. Typed(e)
  BY Zenon DEF Good
<1>3. /\ Kept(e) /\ e.clauses \in SUBSET (AnyFormula \X Nat) /\ Fits(e.cur, g)
      /\ Sent(e.cur, UserLevel(e), e.clauses, g)
      /\ e.cur.list \in Seq(AnyFormula) /\ e.cur.index \in Nat /\ e.cur.defIndex \in Nat
      /\ UserLevel(e) \in Nat /\ At(e, UserLevel(e)) = e.cur
  BY <1>1, CurIs
<1>4. PICK q : q = e.cur.list /\ q \in Seq(AnyFormula)
  BY <1>3
<1>5. PICK d : d = e.cur.defIndex /\ d \in Nat /\ d <= Len(g)
  BY <1>3, Zenon DEF Fits
<1>6. PICK new : new = SubSeq(g, d + 1, Len(g))
  OBVIOUS
<1>7. new \in Seq(AnyFormula) /\ ToSet(new) \subseteq ToSet(g)
  BY ONLY <1>1, <1>5, <1>6, NewPart
<1>8. \A i \in 1..Len(g) : i > d => g[i] \in ToSet(new)
  BY ONLY <1>1, <1>5, <1>6, NewElements
<1>9. PICK w : w = Joined(q, new)
  OBVIOUS
<1>10. /\ w \in Seq(AnyFormula) /\ ToSet(q) \subseteq ToSet(w) /\ ToSet(new) \subseteq ToSet(w)
       /\ ToSet(w) \subseteq ToSet(q) \union ToSet(new)
  BY ONLY <1>4, <1>7, <1>9, JoinedSet, Zenon
<1>11. /\ SameSat(e, r) /\ SameFlags(e, r) /\ r.saved = e.saved
       /\ r.cur = [list |-> w, index |-> e.cur.index, defIndex |-> Len(g)]
  <2>1. /\ SameSat(e, r) /\ SameFlags(e, r) /\ r.saved = e.saved
        /\ r.cur = [list |-> e.cur.list
                               \o SubSeq(globals, e.cur.defIndex + 1, Len(globals)),
                    index |-> e.cur.index, defIndex |-> Len(globals)]
    BY <1>2, RefreshDefinitionsFields
  <2>2. w = e.cur.list \o SubSeq(globals, e.cur.defIndex + 1, Len(globals))
    BY <1>1, <1>4, <1>5, <1>6, <1>9, Zenon DEF Joined
  <2> QED
    BY <1>1, <2>1, <2>2, Zenon
<1>12. r.cur.list = w /\ r.cur.index = e.cur.index /\ r.cur.defIndex = Len(g)
       /\ r.cur \in Version
  BY ONLY <1>1, <1>3, <1>10, <1>11 DEF Version
<1>13. r.clauses = e.clauses /\ r.userLevels = e.userLevels
  BY <1>11, Zenon DEF SameSat, SameFlags
<1>14. \A k \in 1..Len(g) : g[k] \in ToSet(w)
  <2>1. ASSUME NEW k \in 1..Len(g)
        PROVE  g[k] \in ToSet(w)
    <3>1. k > d \/ k \in 1..d
      BY ONLY <1>1, <1>5, k \in 1..Len(g)
    <3>2. CASE k > d
      BY <1>8, <1>10, <3>2, Zenon
    <3>3. CASE k \in 1..d
      <4>1. g[k] \in ToSet(e.cur.list)
        BY <1>3, <1>5, <3>3, Zenon DEF Sent, Added
      <4> QED
        BY <1>4, <1>10, <4>1, Zenon
    <3> QED
      BY <3>1, <3>2, <3>3, Zenon
  <2> QED
    BY <2>1
<1>15. Sent(r.cur, UserLevel(e), r.clauses, g)
  <2>1. Told(r.cur, UserLevel(e), e.clauses)
    <3>1. Told(e.cur, UserLevel(e), e.clauses) /\ e.cur.index <= Len(q)
      BY <1>3, <1>4, Zenon DEF Sent, Fits
    <3> QED
      BY <1>3, <1>4, <1>7, <1>9, <1>12, <3>1, LongerTold
  <2>2. Added(r.cur, g)
    BY <1>12, <1>14, Zenon DEF Added
  <2>3. Known(r.cur, g)
    <3>1. \A f \in ToSet(e.cur.list) : f \in Definition => f \in ToSet(g)
      BY <1>3, Zenon DEF Sent, Known
    <3>2. \A f \in ToSet(w) : f \in Definition => f \in ToSet(g)
      BY <1>4, <1>7, <1>10, <3>1
    <3> QED
      BY <1>12, <3>2, Zenon DEF Known
  <2> QED
    BY <1>13, <2>1, <2>2, <2>3, Zenon DEF Sent
<1>16. /\ UserLevel(r) = UserLevel(e) /\ Loaded(r, g)
       /\ \A i \in 0..UserLevel(e) : i < UserLevel(e) => At(r, i) = At(e, i)
  <2>1. r.saved = e.saved /\ e.clauses \subseteq r.clauses /\ Loaded(e, g)
    BY <1>1, <1>11, <1>13
  <2> QED
    BY <1>3, <1>12, <1>15, <2>1, ReplacedLoaded
<1>17. Extended(e, r, new, globals)
  BY <1>1, <1>4, <1>7, <1>9, <1>12, <1>13, <1>16, Zenon DEF Extended
<1>18. ToSet(new) \subseteq Definition
  <2>1. ToSet(g) \subseteq Definition
    BY <1>1, OfSet
  <2> QED
    BY <1>7, <2>1, Zenon
<1>19. ToSet(globals) \subseteq ToSet(r.cur.list)
  <2>1. ToSet(g) = {g[k] : k \in 1..Len(g)}
    BY <1>1 DEF ToSet
  <2>2. ToSet(g) \subseteq ToSet(w)
    BY <1>14, <2>1
  <2> QED
    BY <1>1, <1>12, <2>2, Zenon
<1> QED
  BY <1>17, <1>18, <1>19, Zenon

\* getNextAssertions and assertToInternal tell the SAT solver the rest.
LEMMA AssertNewLoaded ==
    ASSUME NEW g \in Seq(Definition), NEW e, Good(e, g), e.inited, Loaded(e, g),
           NEW r, r = AssertNew(e)
    PROVE  /\ UserLevel(r) = UserLevel(e) /\ r.userLevels = e.userLevels /\ Loaded(r, g)
           /\ r.cur.list = e.cur.list
           /\ \A i \in 0..UserLevel(e) : i < UserLevel(e) => At(r, i) = At(e, i)
           /\ ToSet(r.cur.list) \subseteq {c[1] : c \in r.clauses}
<1>1. Typed(e) /\ InStep(e)
  BY Zenon DEF Good
<1>2. /\ Kept(e) /\ e.clauses \in SUBSET (AnyFormula \X Nat) /\ Fits(e.cur, g)
      /\ Sent(e.cur, UserLevel(e), e.clauses, g)
      /\ e.cur.list \in Seq(AnyFormula) /\ e.cur.index \in Nat /\ e.cur.defIndex \in Nat
      /\ UserLevel(e) \in Nat /\ At(e, UserLevel(e)) = e.cur
  BY CurIs
<1>3. PICK q : q = e.cur.list /\ q \in Seq(AnyFormula) /\ Len(q) \in Nat
  BY <1>2
<1>4. PICK k : k = e.cur.index /\ k \in Nat /\ k <= Len(q)
  BY <1>2, <1>3, Zenon DEF Fits
<1>5. PICK new : new = SubSeq(q, k + 1, Len(q))
  OBVIOUS
<1>6. PICK u : u = UserLevel(e) /\ u \in Nat
  BY <1>2
<1>7. PICK a : a = e.assertionLevel /\ a = u - 1 /\ a < u
  <2>1. e.assertionLevel = u - 1
    BY <1>1, <1>6, Zenon DEF InStep
  <2> QED
    BY <1>6, <2>1
<1>8. PICK added : added = ToSet(new) \X {a}
  OBVIOUS
<1>9. /\ SameFlags(e, r) /\ r.saved = e.saved
      /\ r.cur = [list |-> q, index |-> Len(q), defIndex |-> e.cur.defIndex]
      /\ r.clauses = e.clauses \union added
  <2>1. /\ SameFlags(e, r) /\ r.saved = e.saved
        /\ r.cur = [list |-> e.cur.list, index |-> Len(e.cur.list),
                    defIndex |-> e.cur.defIndex]
        /\ r.clauses = e.clauses \union
               (ToSet(SubSeq(e.cur.list, e.cur.index + 1, Len(e.cur.list)))
                    \X {e.assertionLevel})
    BY <1>1, AssertNewFields
  <2>2. added = ToSet(SubSeq(e.cur.list, e.cur.index + 1, Len(e.cur.list)))
                    \X {e.assertionLevel}
    BY <1>3, <1>4, <1>5, <1>7, <1>8, Zenon
  <2> QED
    BY <1>3, <2>1, <2>2, Zenon
<1>10. r.cur.list = q /\ r.cur.index = Len(q) /\ r.cur.defIndex = e.cur.defIndex
       /\ r.cur \in Version
  BY ONLY <1>2, <1>3, <1>9 DEF Version
<1>11. \A i \in 1..Len(q) : i > k => q[i] \in ToSet(new)
  BY ONLY <1>3, <1>4, <1>5, NewElements
<1>12. \A i \in 1..Len(q) : \E c \in r.clauses : c[1] = q[i] /\ c[2] < u
  <2>1. ASSUME NEW i \in 1..Len(q)
        PROVE  \E c \in r.clauses : c[1] = q[i] /\ c[2] < u
    <3>1. i > k \/ i \in 1..k
      BY ONLY <1>3, <1>4, i \in 1..Len(q)
    <3>2. CASE i > k
      <4>1. PICK c : c = <<q[i], a>>
        OBVIOUS
      <4>2. c \in added /\ c[1] = q[i] /\ c[2] = a
        BY ONLY <1>8, <1>11, <3>2, <4>1, i \in 1..Len(q)
      <4>3. c \in r.clauses
        BY <1>9, <4>2, Zenon
      <4> QED
        BY <1>7, <4>2, <4>3, Zenon
    <3>3. CASE i \in 1..k
      <4>1. \E c \in e.clauses : c[1] = e.cur.list[i] /\ c[2] < UserLevel(e)
        BY <1>2, <1>4, <3>3, Zenon DEF Sent, Told
      <4> QED
        BY <1>3, <1>6, <1>9, <4>1, Zenon
    <3> QED
      BY <3>1, <3>2, <3>3, Zenon
  <2> QED
    BY <2>1
<1>13. Sent(r.cur, UserLevel(e), r.clauses, g)
  <2>1. Told(r.cur, u, r.clauses)
    BY <1>10, <1>12, Zenon DEF Told
  <2>2. Added(r.cur, g) /\ Known(r.cur, g)
    BY <1>2, <1>3, <1>10, Zenon DEF Sent, Added, Known
  <2> QED
    BY <1>6, <2>1, <2>2, Zenon DEF Sent
<1>14. /\ UserLevel(r) = UserLevel(e) /\ Loaded(r, g)
       /\ \A i \in 0..UserLevel(e) : i < UserLevel(e) => At(r, i) = At(e, i)
  <2>1. /\ r.saved = e.saved /\ e.clauses \subseteq r.clauses
        /\ Kept(e) /\ Loaded(e, g) /\ e.clauses \in SUBSET (AnyFormula \X Nat)
    BY <1>2, <1>9
  <2>2. r.cur \in Version /\ Sent(r.cur, UserLevel(e), r.clauses, g)
    BY <1>10, <1>13, Zenon
  <2> QED
    BY ONLY <2>1, <2>2, ReplacedLoaded
<1>15. ToSet(r.cur.list) \subseteq {c[1] : c \in r.clauses}
  <2>1. ToSet(q) = {q[i] : i \in 1..Len(q)}
    BY ONLY <1>3 DEF ToSet
  <2>2. \A f \in ToSet(q) : \E i \in 1..Len(q) : f = q[i]
    BY ONLY <2>1
  <2>4. ASSUME NEW f \in ToSet(q)
        PROVE  \E c \in r.clauses : c[1] = f
    <3>1. PICK i \in 1..Len(q) : f = q[i]
      BY <2>2, Zenon
    <3>2. PICK c \in r.clauses : c[1] = q[i] /\ c[2] < u
      BY <1>12, Zenon
    <3> QED
      BY <3>1, <3>2, Zenon
  <2>3. \A f \in ToSet(q) : f \in {c[1] : c \in r.clauses}
    BY <2>4, Zenon
  <2> QED
    BY <1>10, <2>3, Zenon
<1> QED
  BY <1>3, <1>9, <1>10, <1>14, <1>15, Zenon DEF SameFlags

\* Simplify, push and the queries: the definitions are added and everything has
\* been told to the SAT solver, and nothing else.
LEMMA RefreshExtended ==
    ASSUME globals \in Seq(Definition), NEW e, Good(e, globals), e.inited, Loaded(e, globals),
           NEW r, r = RefreshAssertions(e)
    PROVE  /\ \E fs : Extended(e, r, fs, globals) /\ ToSet(fs) \subseteq Definition
           /\ ToSet(globals) \subseteq ToSet(r.cur.list)
           /\ {c[1] : c \in r.clauses} = ToSet(r.cur.list)
<1>1. PICK x : x = RefreshDefinitions(e)
  OBVIOUS
<1>2. Grown(e, x, globals) /\ x.clauses = e.clauses
  BY <1>1, RefreshDefinitionsGrown
<1>3. e.clauses \in SUBSET (AnyFormula \X Nat)
  BY TypedParts, Zenon DEF Parts, Good
<1>4. Good(x, globals) /\ x.inited
  <2>1. x.clauses \in SUBSET (AnyFormula \X Nat)
    BY <1>2, <1>3, Zenon
  <2>2. \A c \in x.clauses : \/ c \in e.clauses
                             \/ c[2] = UserLevel(e) - 1 /\ c[1] \in ToSet(x.cur.list)
    BY <1>2, Zenon
  <2> QED
    BY <1>2, <2>1, <2>2, GrownGood
<1>5. PICK fs : Extended(e, x, fs, globals) /\ ToSet(fs) \subseteq Definition
  BY <1>1, RefreshDefinitionsExtended
<1>6. ToSet(globals) \subseteq ToSet(x.cur.list)
  BY <1>1, RefreshDefinitionsExtended
<1>7. r = AssertNew(x)
  BY <1>1, Zenon DEF RefreshAssertions
<1>8. Loaded(x, globals)
  BY <1>5, Zenon DEF Extended
<1>9. /\ UserLevel(r) = UserLevel(x) /\ r.userLevels = x.userLevels /\ Loaded(r, globals)
      /\ r.cur.list = x.cur.list
      /\ \A i \in 0..UserLevel(x) : i < UserLevel(x) => At(r, i) = At(x, i)
      /\ ToSet(r.cur.list) \subseteq {c[1] : c \in r.clauses}
  BY <1>4, <1>7, <1>8, AssertNewLoaded
<1>10. Extended(e, r, fs, globals)
  BY <1>5, <1>9, Zenon DEF Extended
<1>11. {c[1] : c \in r.clauses} \subseteq ToSet(r.cur.list)
  <2>1. Good(r, globals)
    BY <1>4, <1>7, AssertNewGood
  <2>2. Kept(r) /\ Versions(r, globals) /\ InForce(r)
    BY <2>1, TypedParts, Zenon DEF Good
  <2> QED
    BY <2>2, ClausesAsserted
<1>12. {c[1] : c \in r.clauses} = ToSet(r.cur.list)
  BY <1>9, <1>11, Zenon
<1>13. ToSet(globals) \subseteq ToSet(r.cur.list)
  BY <1>6, <1>9, Zenon
<1> QED
  BY <1>5, <1>10, <1>12, <1>13, Zenon

\* A driver of its own tells the whole list; the index stays where it is.
LEMMA AssertAllLoaded ==
    ASSUME NEW g \in Seq(Definition), NEW e, Good(e, g), e.inited, Loaded(e, g),
           NEW r, r = AssertAll(e)
    PROVE  /\ UserLevel(r) = UserLevel(e) /\ r.userLevels = e.userLevels /\ Loaded(r, g)
           /\ r.cur.list = e.cur.list
           /\ \A i \in 0..UserLevel(e) : i < UserLevel(e) => At(r, i) = At(e, i)
           /\ ToSet(r.cur.list) \subseteq {c[1] : c \in r.clauses}
<1>1. Typed(e)
  BY Zenon DEF Good
<1>2. /\ Kept(e) /\ e.clauses \in SUBSET (AnyFormula \X Nat)
      /\ Sent(e.cur, UserLevel(e), e.clauses, g) /\ UserLevel(e) \in Nat
  BY CurIs
<1>3. /\ SameFlags(e, r) /\ SameUser(e, r)
      /\ r.clauses = e.clauses \union (ToSet(e.cur.list) \X {e.assertionLevel})
  BY <1>1, AssertAllFields
<1>4. r.cur = e.cur /\ r.saved = e.saved /\ r.cur \in Version
  BY <1>2, <1>3, Zenon DEF SameUser, Kept
<1>5. e.clauses \subseteq r.clauses
  BY <1>3, Zenon
<1>6. Sent(r.cur, UserLevel(e), r.clauses, g)
  <2>1. Told(e.cur, UserLevel(e), e.clauses) /\ Added(e.cur, g) /\ Known(e.cur, g)
    BY <1>2, Zenon DEF Sent
  <2>2. UserLevel(e) <= UserLevel(e)
    BY ONLY <1>2
  <2>3. Told(e.cur, UserLevel(e), r.clauses)
    BY <1>2, <1>5, <2>1, <2>2, ToldMore
  <2> QED
    BY <1>4, <2>1, <2>3, Zenon DEF Sent
<1>7. /\ UserLevel(r) = UserLevel(e) /\ Loaded(r, g)
      /\ \A i \in 0..UserLevel(e) : i < UserLevel(e) => At(r, i) = At(e, i)
  BY <1>2, <1>4, <1>5, <1>6, ReplacedLoaded
<1>8. ToSet(r.cur.list) \subseteq {c[1] : c \in r.clauses}
  <2>1. PICK Q, a : Q = ToSet(e.cur.list) /\ a = e.assertionLevel
    OBVIOUS
  <2>2. Q \X {a} \subseteq r.clauses
    BY <1>3, <2>1, Zenon
  <2>4. ASSUME NEW f \in Q
        PROVE  f \in {c[1] : c \in r.clauses}
    <3>1. PICK c : c = <<f, a>>
      OBVIOUS
    <3>2. c \in Q \X {a} /\ c[1] = f
      BY ONLY <3>1, f \in Q
    <3> QED
      BY <2>2, <3>2, Zenon
  <2> QED
    BY <1>4, <2>1, <2>4, Zenon
<1> QED
  BY <1>3, <1>4, <1>7, <1>8, Zenon DEF SameFlags

\* A quantifier elimination: the same holds of its driver.
LEMMA TellAllExtended ==
    ASSUME globals \in Seq(Definition), NEW e, Good(e, globals), e.inited, Loaded(e, globals),
           NEW r, r = TellAll(e)
    PROVE  /\ \E fs : Extended(e, r, fs, globals) /\ ToSet(fs) \subseteq Definition
           /\ ToSet(globals) \subseteq ToSet(r.cur.list)
           /\ {c[1] : c \in r.clauses} = ToSet(r.cur.list)
<1>1. PICK x : x = RefreshDefinitions(e)
  OBVIOUS
<1>2. Good(x, globals) /\ x.inited
  BY <1>1, RefreshDefinitionsGood
<1>3. PICK fs : Extended(e, x, fs, globals) /\ ToSet(fs) \subseteq Definition
  BY <1>1, RefreshDefinitionsExtended
<1>4. ToSet(globals) \subseteq ToSet(x.cur.list)
  BY <1>1, RefreshDefinitionsExtended
<1>5. r = AssertAll(x)
  BY <1>1, Zenon DEF TellAll
<1>6. Loaded(x, globals)
  BY <1>3, Zenon DEF Extended
<1>7. /\ UserLevel(r) = UserLevel(x) /\ r.userLevels = x.userLevels /\ Loaded(r, globals)
      /\ r.cur.list = x.cur.list
      /\ \A i \in 0..UserLevel(x) : i < UserLevel(x) => At(r, i) = At(x, i)
      /\ ToSet(r.cur.list) \subseteq {c[1] : c \in r.clauses}
  BY <1>2, <1>5, <1>6, AssertAllLoaded
<1>8. Extended(e, r, fs, globals)
  BY <1>3, <1>7, Zenon DEF Extended
<1>9. {c[1] : c \in r.clauses} \subseteq ToSet(r.cur.list)
  <2>1. Good(r, globals)
    BY <1>2, <1>5, AssertAllGood
  <2>2. Kept(r) /\ Versions(r, globals) /\ InForce(r)
    BY <2>1, TypedParts, Zenon DEF Good
  <2> QED
    BY <2>2, ClausesAsserted
<1>10. {c[1] : c \in r.clauses} = ToSet(r.cur.list)
  BY <1>7, <1>9, Zenon
<1>11. ToSet(globals) \subseteq ToSet(r.cur.list)
  BY <1>4, <1>7, Zenon
<1> QED
  BY <1>3, <1>8, <1>10, <1>11, Zenon

\* The user's assertions are those that were there, unless fs has some.
LEMMA ExtendedViews ==
    ASSUME NEW g, NEW e, Kept(e), NEW r, Kept(r), NEW fs, Extended(e, r, fs, g)
    PROVE  /\ \A i \in 0..UserLevel(e) : i < UserLevel(e) => View(r, i) = View(e, i)
           /\ ToSet(fs) \intersect Formula = {} =>
                  \A i \in 0..UserLevel(e) : View(r, i) = View(e, i)
           /\ \A n \in 0..UserLevel(e) :
                  Plain(e, n) /\ (n < UserLevel(e) \/ ToSet(fs) \intersect Assumption = {})
                      => Plain(r, n)
<1>1. /\ UserLevel(r) = UserLevel(e) /\ fs \in Seq(AnyFormula)
      /\ r.cur.list = Joined(e.cur.list, fs)
      /\ \A i \in 0..UserLevel(e) : i < UserLevel(e) => At(r, i) = At(e, i)
  BY Zenon DEF Extended
<1>2. UserLevel(e) \in Nat /\ At(e, UserLevel(e)) = e.cur /\ At(r, UserLevel(e)) = r.cur
  BY <1>1, AtIs
<1>3. e.cur.list \in Seq(AnyFormula)
  BY DEF Kept, Version
<1>4. \A i \in 0..UserLevel(e) : i < UserLevel(e) \/ i = UserLevel(e)
  BY <1>2
<1>5. \A i \in 0..UserLevel(e) : i < UserLevel(e) => View(r, i) = View(e, i)
  BY <1>1, Zenon DEF View
<1>6. ASSUME ToSet(fs) \intersect Formula = {}
      PROVE  View(r, UserLevel(e)) = View(e, UserLevel(e))
  <2>1. Asserted(Joined(e.cur.list, fs)) = Asserted(e.cur.list)
    BY <1>1, <1>3, <1>6, AssertedJoined
  <2> QED
    BY <1>1, <1>2, <2>1, Zenon DEF View
<1>7. ASSUME ToSet(fs) \intersect Assumption = {}, Unassumed(e.cur)
      PROVE  Unassumed(r.cur)
  <2>1. ToSet(Joined(e.cur.list, fs)) \subseteq ToSet(e.cur.list) \union ToSet(fs)
    <3>1. PICK q : q = e.cur.list /\ q \in Seq(AnyFormula)
      BY <1>3
    <3>2. fs \in Seq(AnyFormula)
      BY <1>1, Zenon
    <3>3. ToSet(Joined(q, fs)) \subseteq ToSet(q) \union ToSet(fs)
      BY ONLY <3>1, <3>2, JoinedSet
    <3> QED
      BY <3>1, <3>3, Zenon
  <2>2. ToSet(e.cur.list) \intersect Assumption = {}
    BY <1>7, Zenon DEF Unassumed
  <2>3. ToSet(r.cur.list) \intersect Assumption = {}
    BY <1>1, <1>7, <2>1, <2>2
  <2> QED
    BY <2>3, Zenon DEF Unassumed
<1>8. ASSUME NEW n \in 0..UserLevel(e), Plain(e, n),
             n < UserLevel(e) \/ ToSet(fs) \intersect Assumption = {}
      PROVE  Plain(r, n)
  <2>1. ASSUME NEW i \in 0..n
        PROVE  Unassumed(At(r, i))
    <3>1. i \in 0..UserLevel(e) /\ (i < UserLevel(e) \/ (i = UserLevel(e) /\ ~(n < UserLevel(e))))
      BY ONLY <1>2, n \in 0..UserLevel(e), i \in 0..n
    <3>2. Unassumed(At(e, i))
      BY <1>8, Zenon DEF Plain
    <3> QED
      BY <1>1, <1>2, <1>7, <1>8, <3>1, <3>2, Zenon
  <2> QED
    BY <2>1, Zenon DEF Plain
<1> QED
  BY <1>4, <1>5, <1>6, <1>8, Zenon

\* A scope is opened: the level in use is also the one below.
LEMMA PushScopeLoaded ==
    ASSUME NEW g \in Seq(Definition), NEW e, Good(e, g), Loaded(e, g), e.decisions = 0,
           NEW r, r = PushScope(e)
    PROVE  /\ UserLevel(r) = UserLevel(e) + 1 /\ Loaded(r, g) /\ r.clauses = e.clauses
           /\ r.userLevels = e.userLevels
           /\ \A i \in 0..UserLevel(e) : At(r, i) = At(e, i)
           /\ At(r, UserLevel(e) + 1) = At(e, UserLevel(e))
<1>1. /\ Kept(e) /\ e.clauses \in SUBSET (AnyFormula \X Nat) /\ Fits(e.cur, g)
      /\ Sent(e.cur, UserLevel(e), e.clauses, g)
      /\ e.cur.list \in Seq(AnyFormula) /\ e.cur.index \in Nat /\ e.cur.defIndex \in Nat
      /\ UserLevel(e) \in Nat /\ At(e, UserLevel(e)) = e.cur
  BY CurIs
<1>2. Shape(e)
  BY TypedParts, Zenon DEF Good
<1>3. PICK x : x = UserPushContext(e)
  OBVIOUS
<1>4. /\ Rest(e, x) /\ SameSat(e, x) /\ SameFlags(e, x)
      /\ x.saved = Append(e.saved, e.cur) /\ x.cur = e.cur
  BY <1>2, <1>3, UserPushFields, Zenon
<1>5. Shape(x) /\ x.decisions = 0 /\ r = SatPush(x)
  BY <1>3, <1>4, Zenon DEF Rest, SameSat, PushScope
<1>6. SameUser(x, r) /\ SameFlags(x, r) /\ r.clauses = x.clauses
  BY ONLY <1>5, SatPushFields, ZenonT(60)
<1>7. /\ r.cur = e.cur /\ r.saved = Append(e.saved, e.cur) /\ r.clauses = e.clauses
      /\ r.userLevels = e.userLevels
  BY ONLY <1>4, <1>6, Zenon DEF SameFlags, SameUser, SameSat
<1>8. /\ Kept(r) /\ UserLevel(r) = UserLevel(e) + 1
      /\ \A i \in 0..UserLevel(e) : At(r, i) = At(e, i)
  <2>1. r.saved = Append(e.saved, e.cur) /\ r.cur = e.cur
    BY <1>7, Zenon
  <2> QED
    BY ONLY <1>1, <2>1, PushAt, Zenon
<1>9. At(r, UserLevel(r)) = r.cur
  BY <1>8, AtIs
<1>10. PICK u : u = UserLevel(e) /\ u \in Nat
  BY <1>1
<1>11. ASSUME NEW i \in 0..UserLevel(r)
       PROVE  Sent(At(r, i), i, r.clauses, g)
  <2>1. i \in 0..u \/ i = u + 1
    BY ONLY <1>8, <1>10, i \in 0..UserLevel(r)
  <2>2. CASE i \in 0..u
    BY <1>7, <1>8, <1>10, <2>2, Zenon DEF Loaded
  <2>3. CASE i = u + 1
    <3>1. Told(e.cur, u, e.clauses) /\ Added(e.cur, g) /\ Known(e.cur, g)
      BY <1>1, <1>10, Zenon DEF Sent
    <3>2. u + 1 \in Nat /\ u <= u + 1
      BY ONLY <1>10
    <3>3. Told(e.cur, u + 1, e.clauses)
      BY <1>1, <1>10, <3>1, <3>2, ToldMore
    <3>4. At(r, i) = e.cur
      BY <1>7, <1>8, <1>9, <1>10, <2>3, Zenon
    <3> QED
      BY <1>7, <2>3, <3>1, <3>3, <3>4, Zenon DEF Sent
  <2> QED
    BY <2>1, <2>2, <2>3, Zenon
<1>12. Loaded(r, g)
  BY <1>11, Zenon DEF Loaded
<1> QED
  BY <1>1, <1>7, <1>8, <1>9, <1>12, Zenon

(***************************************************************************)
(* The frames as a sequence.                                               *)
(***************************************************************************)

\* The frames are the views of the user's levels.
LEMMA FramesTyped ==
    ASSUME NEW e, Typed(e), Standing(e)
    PROVE  /\ Frames(e) \in Seq(Seq(Formula)) /\ Len(Frames(e)) = Top(e)
           /\ Top(e) \in Nat /\ Top(e) > 0
           /\ \A i \in 1..Top(e) : Frames(e)[i] = View(e, i)
<1>1. /\ Top(e) \in Nat /\ UserLevel(e) \in Nat
      /\ Len(e.userLevels) \in Nat /\ Top(e) = Len(e.userLevels) + 1
      /\ \A i \in 1..Top(e) : i \in 0..UserLevel(e)
  BY TopIs
<1>2. Kept(e)
  BY TypedParts
<1>3. ASSUME NEW i \in 1..Top(e)
      PROVE  View(e, i) \in Seq(Formula)
  <2>1. At(e, i) \in Version
    BY <1>1, <1>2, AtIs, Zenon
  <2>2. At(e, i).list \in Seq(AnyFormula)
    BY <2>1 DEF Version
  <2> QED
    BY <2>2, AssertedSet, Zenon DEF View
<1>4. PICK F : F = Frames(e)
  OBVIOUS
<1>5. PICK n : n = Top(e) /\ n \in Nat /\ n > 0
  BY <1>1
<1>6. F = [i \in 1..n |-> View(e, i)]
  BY <1>4, <1>5, FramesAre, Zenon
<1>7. \A i \in 1..n : F[i] = View(e, i)
  BY <1>6, Zenon
<1>8. F = [i \in 1..n |-> F[i]] /\ \A i \in 1..n : F[i] \in Seq(Formula)
  BY <1>3, <1>5, <1>6, <1>7, Zenon
<1>9. F \in Seq(Seq(Formula)) /\ Len(F) = n
  BY ONLY <1>5, <1>8
<1> QED
  BY <1>4, <1>5, <1>7, <1>9, Zenon

\* The innermost frame.
LEMMA InnermostFrame ==
    ASSUME NEW e, Typed(e), Standing(e)
    PROVE  /\ Last(Frames(e)) = View(e, Top(e)) /\ Last(Frames(e)) \in Seq(Formula)
           /\ Top(e) \in 1..Top(e)
<1>1. /\ Frames(e) \in Seq(Seq(Formula)) /\ Len(Frames(e)) = Top(e)
      /\ Top(e) \in Nat /\ Top(e) > 0
      /\ \A i \in 1..Top(e) : Frames(e)[i] = View(e, i)
  BY FramesTyped
<1>2. Top(e) \in 1..Top(e)
  BY ONLY <1>1
<1>3. PICK F : F = Frames(e)
  OBVIOUS
<1>4. F \in Seq(Seq(Formula)) /\ F # <<>>
  BY ONLY <1>1, <1>3
<1>5. Last(F) = F[Len(F)] /\ Last(F) \in Seq(Formula)
  BY ONLY <1>4, LastIs
<1> QED
  BY <1>1, <1>2, <1>3, <1>5, Zenon

\* One sequence of frames becomes another.
LEMMA FrameAsserted ==
    ASSUME NEW S, NEW F \in Seq(Seq(S)), NEW G \in Seq(Seq(S)), NEW n \in Nat, n > 0,
           Len(F) = n, Len(G) = n, \A i \in 1..n : i < n => G[i] = F[i],
           NEW f \in S, G[n] = Append(F[n], f)
    PROVE  G = [F EXCEPT ![Len(F)] = Append(@, f)]
  OBVIOUS

\* A list of frames with one more, a copy of the last.
LEMMA FramePushed ==
    ASSUME NEW S, NEW F \in Seq(Seq(S)), NEW G \in Seq(Seq(S)), NEW n \in Nat, n > 0,
           Len(F) = n, Len(G) = n + 1, \A i \in 1..n : G[i] = F[i],
           NEW v \in Seq(S), v = F[n], G[n + 1] = v
    PROVE  G = Append(F, v)
  OBVIOUS

\* A list of frames with one less.
LEMMA FramePopped ==
    ASSUME NEW S, NEW F \in Seq(Seq(S)), NEW G \in Seq(Seq(S)), NEW n \in Nat, n > 0,
           Len(F) = n + 1, Len(G) = n, \A i \in 1..n : G[i] = F[i]
    PROVE  G = Front(F)
<1>1. F # <<>>
  OBVIOUS
<1>2. PICK p : p = Front(F)
  OBVIOUS
<1>3. p \in Seq(Seq(S)) /\ Len(p) = Len(F) - 1 /\ \A i \in 1..Len(F) - 1 : p[i] = F[i]
  BY ONLY <1>1, <1>2, F \in Seq(Seq(S)), FrontIs
<1>4. Len(p) = n /\ \A i \in 1..n : p[i] = G[i]
  BY ONLY <1>3, n \in Nat, Len(F) = n + 1, \A i \in 1..n : G[i] = F[i]
<1>5. G = p
  BY ONLY <1>3, <1>4, G \in Seq(Seq(S)), Len(G) = n
<1> QED
  BY <1>2, <1>5, Zenon

\* An engine in which nothing has been asserted.
LEMMA FramesBlank ==
    ASSUME NEW e, e.userLevels = <<>>, e.cur = Blank
    PROVE  Frames(e) = << <<>> >>
<1>1. Len(e.userLevels) = 0 /\ Len(e.userLevels) + 1 = 1
  OBVIOUS
<1>2. \A i \in 1..1 : ~(i <= 0)
  OBVIOUS
<1>3. e.cur.list = <<>>
  BY DEF Blank
<1>4. Asserted(e.cur.list) = <<>>
  BY <1>3, AssertedNone, Zenon
<1>5. Frames(e) = [i \in 1..1 |-> <<>>]
  BY <1>1, <1>2, <1>4, Zenon DEF Frames
<1>6. [i \in 1..1 |-> <<>>] = << <<>> >>
  OBVIOUS
<1> QED
  BY <1>5, <1>6, Zenon

\* A new pair of contexts.
LEMMA FreshTraced ==
    ASSUME NEW g, NEW z, Fresh(z), z.userLevels = <<>>
    PROVE  Traced(z, g) /\ UserLevel(z) = 1 /\ Top(z) = 1
<1>1. z.saved = <<Blank>> /\ z.cur = Blank /\ z.clauses = {}
  BY Zenon DEF Fresh
<1>2. UserLevel(z) = 1 /\ Top(z) = 1
  BY ONLY <1>1, z.userLevels = <<>> DEF UserLevel, Top
<1>3. <<Blank>>[1] = Blank /\ \A i : i \in 0..1 => i = 0 \/ i = 1
  OBVIOUS
<1>4. \A i \in 0..1 : At(z, i) = Blank
  <2>1. 0 + 1 = 1 /\ ~(1 < 1) /\ 0 < 1
    OBVIOUS
  <2>2. At(z, 0) = Blank
    <3>1. At(z, 0) = z.saved[0 + 1]
      BY <1>2, <2>1, Zenon DEF At
    <3> QED
      BY <1>1, <1>3, <2>1, <3>1, Zenon
  <2>3. At(z, 1) = Blank
    BY <1>1, <1>2, <2>1, Zenon DEF At
  <2> QED
    BY <1>3, <2>2, <2>3, Zenon
<1>5. Blank.list = <<>> /\ Blank.index = 0 /\ Blank.defIndex = 0
  BY DEF Blank
<1>6. ToSet(<<>>) = {} /\ 1..0 = {}
  BY DEF ToSet
<1>7. \A i \in 0..1 : Sent(Blank, i, z.clauses, g)
  BY <1>5, <1>6, Zenon DEF Sent, Told, Added, Known
<1>8. Loaded(z, g)
  BY <1>2, <1>4, <1>7, Zenon DEF Loaded
<1>9. Standing(z)
  <2>1. 1 <= 1 /\ DOMAIN <<>> = {}
    OBVIOUS
  <2>2. \A i \in DOMAIN z.userLevels : z.userLevels[i] = i
    BY <2>1, Zenon
  <2> QED
    BY <1>2, <2>1, <2>2, Zenon DEF Standing
<1>10. Plain(z, 1)
  <2>1. {} \intersect Assumption = {}
    OBVIOUS
  <2>2. Unassumed(Blank)
    BY <1>5, <1>6, <2>1, Zenon DEF Unassumed
  <2> QED
    BY <1>4, <2>2, Zenon DEF Plain
<1> QED
  BY <1>2, <1>8, <1>9, <1>10, Zenon DEF Traced

(***************************************************************************)
(* A command begins: the scopes left by assumptions go, the user's stay.   *)
(***************************************************************************)
LEMMA BelowTraced ==
    ASSUME NEW g \in Seq(Definition), NEW e, Typed(e), Traced(e, g), NEW r, Typed(r),
           Below(e, r, Top(e), g), r.userLevels = e.userLevels, Retracts(r) => Retracts(e)
    PROVE  Traced(r, g) /\ Frames(r) = Frames(e) /\ Top(r) = UserLevel(r)
<1>1. /\ UserLevel(r) = Top(e) /\ Loaded(r, g)
      /\ \A i \in 0..Top(e) : At(r, i) = At(e, i) /\ View(r, i) = View(e, i)
  BY BelowIs
<1>2. Standing(e) /\ (Retracts(e) => Plain(e, Top(e)))
  BY Zenon DEF Traced
<1>3. Top(r) = Top(e) /\ Top(e) \in Nat
  BY <1>2, TopIs, Zenon DEF Top
<1>4. Standing(r)
  <2>1. \A i \in DOMAIN r.userLevels : r.userLevels[i] = i
    BY <1>2, Zenon DEF Standing
  <2>2. Top(r) <= UserLevel(r)
    BY <1>1, <1>3
  <2> QED
    BY <1>1, <1>3, <2>1, <2>2, Zenon DEF Standing
<1>5. \A i \in 1..Top(e) : i \in 0..Top(e)
  BY <1>3
<1>6. Frames(r) = Frames(e)
  BY <1>1, <1>2, <1>4, <1>5, FramesSame, Zenon
<1>7. Retracts(r) => Plain(r, Top(r))
  BY <1>1, <1>2, <1>3, Zenon DEF Plain
<1> QED
  BY <1>1, <1>3, <1>4, <1>6, <1>7, Zenon DEF Traced

\* The first call creates the contexts, and shows nothing.
LEMMA FinishInitTraced ==
    ASSUME NEW g \in Seq(Definition), NEW e, Good(e, g), Exact(e), e.inited => Traced(e, g),
           NEW i, i = FinishInit(e)
    PROVE  /\ Good(i, g) /\ Exact(i) /\ i.inited /\ Traced(i, g) /\ Frames(i) = Frames(e)
           /\ i.userLevels = e.userLevels /\ (Retracts(i) <=> Retracts(e))
<1>1. Good(i, g) /\ Started(e, i) /\ Exact(i) /\ (~e.inited => Fresh(i))
  BY FinishInitGood
<1>2. /\ i.inited /\ i.userLevels = e.userLevels /\ i.cur = e.cur /\ Rest(e, i)
  BY <1>1, Zenon DEF Started
<1>3. Traced(i, g) /\ Frames(i) = Frames(e)
  <2>1. CASE e.inited
    <3>1. i = e
      BY <2>1, Zenon DEF FinishInit
    <3>2. Traced(e, g)
      BY <2>1, Zenon
    <3> QED
      BY <3>1, <3>2, Zenon
  <2>2. CASE ~e.inited
    <3>1. e.cur = Blank /\ e.userLevels = <<>>
      BY <2>2, Zenon DEF Good, Unused, Exact
    <3>2. Frames(e) = << <<>> >> /\ Frames(i) = << <<>> >>
      <4>1. i.cur = Blank /\ i.userLevels = <<>>
        BY <1>2, <3>1, Zenon
      <4> QED
        BY <3>1, <4>1, FramesBlank, Zenon
    <3>3. Traced(i, g)
      BY <1>1, <1>2, <2>2, <3>1, FreshTraced, Zenon
    <3> QED
      BY <3>2, <3>3, Zenon
  <2> QED
    BY <2>1, <2>2, Zenon
<1>4. Retracts(i) <=> Retracts(e)
  BY <1>2, Zenon DEF Retracts, Rest
<1> QED
  BY <1>1, <1>2, <1>3, <1>4, Zenon

\* Beginning a command changes no frame.
LEMMA BegunTraced ==
    ASSUME NEW g \in Seq(Definition), NEW e, Good(e, g), Exact(e), e.inited => Traced(e, g),
           NEW b, b = BeginCall(e)
    PROVE  /\ Traced(b, g) /\ Top(b) = UserLevel(b) /\ Frames(b) = Frames(e)
           /\ b.userLevels = e.userLevels /\ Typed(b) /\ (Retracts(b) <=> Retracts(e))
<1>1. PICK i : i = FinishInit(e)
  OBVIOUS
<1>2. /\ Good(i, g) /\ Exact(i) /\ i.inited /\ Traced(i, g) /\ Frames(i) = Frames(e)
      /\ i.userLevels = e.userLevels /\ (Retracts(i) <=> Retracts(e))
  BY <1>1, FinishInitTraced
<1>3. b = DoPendingPops(i)
  BY <1>1, Zenon DEF BeginCall
<1>4. Good(b, g) /\ Settled(i, b, g)
  BY <1>2, <1>3, DoPendingPopsGood
<1>5. Typed(i) /\ Typed(b) /\ Rest(i, b) /\ b.userLevels = i.userLevels
  BY <1>2, <1>4, Zenon DEF Good, Settled
<1>6. Loaded(i, g)
  BY <1>2, Zenon DEF Traced
<1>7. Below(i, b, UserLevel(i) - i.pendingPops, g)
  BY <1>2, <1>3, <1>6, DoPendingPopsBelow
<1>8. UserLevel(i) - i.pendingPops = Top(i)
  <2>1. UserLevel(i) = 1 + Len(i.userLevels) + i.pendingPops
    BY <1>2, Zenon DEF Exact
  <2>2. Len(i.userLevels) \in Nat /\ i.pendingPops \in Nat
    <3>1. i.userLevels \in Seq(Nat) /\ i.pendingPops \in Nat
      BY <1>5, TypedParts, Zenon DEF Parts
    <3> QED
      BY ONLY <3>1
  <2> QED
    BY ONLY <2>1, <2>2 DEF Top
<1>9. Retracts(b) <=> Retracts(i)
  BY <1>5, Zenon DEF Retracts, Rest
<1>10. Below(i, b, Top(i), g)
  BY <1>7, <1>8, Zenon
<1>11. Traced(b, g) /\ Frames(b) = Frames(i) /\ Top(b) = UserLevel(b)
  BY <1>2, <1>5, <1>9, <1>10, BelowTraced
<1> QED
  BY <1>2, <1>5, <1>9, <1>11, Zenon

\* A command finds the traces as the last one left them.
LEMMA BeginningTraced ==
    ASSUME IInv, run = "on", Abstracted, NEW b, b = BeginCall(eng)
    PROVE  /\ Traced(b, globals) /\ Top(b) = UserLevel(b) /\ Frames(b) = Frames(eng)
           /\ b.userLevels = eng.userLevels /\ Typed(b) /\ (Retracts(b) <=> Retracts(eng))
<1>1. Good(eng, globals) /\ Exact(eng) /\ globals \in Seq(Definition)
  BY Begins, Zenon DEF Histories
<1>2. eng.inited => Traced(eng, globals)
  BY Zenon DEF Abstracted
<1> QED
  BY <1>1, <1>2, BegunTraced

(***************************************************************************)
(* What is shown of a longer list.                                         *)
(***************************************************************************)
LEMMA ExtendedShows ==
    ASSUME NEW g, NEW e, Typed(e), Standing(e), NEW r, Typed(r),
           NEW fs, Extended(e, r, fs, g), ToSet(fs) \intersect Formula = {}
    PROVE  /\ Standing(r) /\ Frames(r) = Frames(e) /\ Top(r) = Top(e)
           /\ UserLevel(r) = UserLevel(e) /\ r.userLevels = e.userLevels /\ Loaded(r, g)
           /\ \A i \in 0..UserLevel(e) : View(r, i) = View(e, i)
<1>1. UserLevel(r) = UserLevel(e) /\ r.userLevels = e.userLevels /\ Loaded(r, g)
  BY Zenon DEF Extended
<1>2. Kept(e) /\ Kept(r)
  BY TypedParts
<1>3. \A i \in 0..UserLevel(e) : View(r, i) = View(e, i)
  BY <1>2, ExtendedViews
<1>4. Top(r) = Top(e)
  BY <1>1, Zenon DEF Top
<1>5. /\ Top(e) \in Nat /\ UserLevel(e) \in Nat /\ Top(e) <= UserLevel(e)
      /\ \A i \in 1..Top(e) : i \in 0..UserLevel(e)
  BY TopIs
<1>6. UserLevel(e) \in 0..UserLevel(e) /\ Top(e) \in 0..UserLevel(e)
  BY ONLY <1>5
<1>7. Standing(r)
  BY <1>1, <1>3, <1>4, <1>6, Zenon DEF Standing
<1>8. Frames(r) = Frames(e)
  BY <1>1, <1>3, <1>5, <1>7, FramesSame, Zenon
<1> QED
  BY <1>1, <1>3, <1>4, <1>7, <1>8, Zenon

\* Formulas added above the scopes of the user, or no assumptions, keep those plain.
LEMMA ExtendedPlain ==
    ASSUME NEW g, NEW e, Typed(e), Standing(e), Plain(e, Top(e)), NEW r, Typed(r),
           NEW fs, Extended(e, r, fs, g),
           Top(e) < UserLevel(e) \/ ToSet(fs) \intersect Assumption = {}
    PROVE  Plain(r, Top(e))
<1>1. Kept(e) /\ Kept(r)
  BY TypedParts
<1>2. Top(e) \in Nat /\ UserLevel(e) \in Nat /\ Top(e) <= UserLevel(e)
  BY TopIs
<1>3. Top(e) \in 0..UserLevel(e)
  BY ONLY <1>2
<1> QED
  BY <1>1, <1>3, ExtendedViews

\* The names of definitions are no others.
LEMMA DefinitionNames ==
    ASSUME NEW fs, ToSet(fs) \subseteq Definition
    PROVE  ToSet(fs) \intersect Formula = {} /\ ToSet(fs) \intersect Assumption = {}
  BY NamesAssumption

\* Where only definitions are added, what was there is shown.
LEMMA DefinitionsTraced ==
    ASSUME NEW g, NEW e, Typed(e), Standing(e), NEW r, Typed(r), Rest(e, r),
           NEW fs, Extended(e, r, fs, g), ToSet(fs) \subseteq Definition
    PROVE  /\ Loaded(r, g) /\ Standing(r) /\ Frames(r) = Frames(e) /\ Top(r) = Top(e)
           /\ UserLevel(r) = UserLevel(e) /\ r.userLevels = e.userLevels
           /\ (Plain(e, Top(e)) => Plain(r, Top(e))) /\ (Retracts(r) <=> Retracts(e))
           /\ \A i \in 0..UserLevel(e) : View(r, i) = View(e, i)
<1>1. ToSet(fs) \intersect Formula = {} /\ ToSet(fs) \intersect Assumption = {}
  BY DefinitionNames
<1>2. /\ Standing(r) /\ Frames(r) = Frames(e) /\ Top(r) = Top(e)
      /\ UserLevel(r) = UserLevel(e) /\ r.userLevels = e.userLevels /\ Loaded(r, g)
      /\ \A i \in 0..UserLevel(e) : View(r, i) = View(e, i)
  BY <1>1, ExtendedShows
<1>3. Plain(e, Top(e)) => Plain(r, Top(e))
  BY <1>1, ExtendedPlain
<1>4. Retracts(r) <=> Retracts(e)
  BY Zenon DEF Rest, Retracts
<1> QED
  BY <1>2, <1>3, <1>4, Zenon

\* Simplify, push and the queries show what was there.
LEMMA RefreshTraced ==
    ASSUME globals \in Seq(Definition), NEW e, Good(e, globals), e.inited,
           Loaded(e, globals), Standing(e), NEW r, r = RefreshAssertions(e)
    PROVE  /\ Loaded(r, globals) /\ Standing(r) /\ Frames(r) = Frames(e) /\ Top(r) = Top(e)
           /\ UserLevel(r) = UserLevel(e) /\ r.userLevels = e.userLevels /\ Typed(r)
           /\ (Plain(e, Top(e)) => Plain(r, Top(e))) /\ (Retracts(r) <=> Retracts(e))
           /\ \A i \in 0..UserLevel(e) : View(r, i) = View(e, i)
<1>1. PICK fs : Extended(e, r, fs, globals) /\ ToSet(fs) \subseteq Definition
  BY RefreshExtended
<1>2. Grown(e, r, globals) /\ Good(r, globals)
  BY RefreshGood
<1>3. Typed(e) /\ Typed(r) /\ Rest(e, r) /\ Standing(e)
  BY <1>2, Zenon DEF Good, Grown
<1>4. /\ Loaded(r, globals) /\ Standing(r) /\ Frames(r) = Frames(e) /\ Top(r) = Top(e)
      /\ UserLevel(r) = UserLevel(e) /\ r.userLevels = e.userLevels
      /\ (Plain(e, Top(e)) => Plain(r, Top(e))) /\ (Retracts(r) <=> Retracts(e))
      /\ \A i \in 0..UserLevel(e) : View(r, i) = View(e, i)
  BY ONLY <1>1, <1>3, DefinitionsTraced
<1> QED
  BY <1>3, <1>4, Zenon

\* So does reading the assertions.
LEMMA RefreshDefinitionsTraced ==
    ASSUME globals \in Seq(Definition), NEW e, Good(e, globals), e.inited, Traced(e, globals),
           NEW r, r = RefreshDefinitions(e)
    PROVE  Traced(r, globals) /\ Frames(r) = Frames(e) /\ Good(r, globals)
<1>1. Loaded(e, globals) /\ Standing(e) /\ (Retracts(e) => Plain(e, Top(e)))
  BY Zenon DEF Traced
<1>2. PICK fs : Extended(e, r, fs, globals) /\ ToSet(fs) \subseteq Definition
  BY <1>1, RefreshDefinitionsExtended
<1>3. Grown(e, r, globals) /\ Good(r, globals)
  BY RefreshDefinitionsGood
<1>4. Typed(e) /\ Typed(r) /\ Rest(e, r)
  BY <1>3, Zenon DEF Good, Grown
<1>5. /\ Loaded(r, globals) /\ Standing(r) /\ Frames(r) = Frames(e) /\ Top(r) = Top(e)
      /\ (Plain(e, Top(e)) => Plain(r, Top(e))) /\ (Retracts(r) <=> Retracts(e))
  BY <1>1, <1>2, <1>4, DefinitionsTraced
<1> QED
  BY <1>1, <1>3, <1>5, Zenon DEF Traced

(***************************************************************************)
(* The steps of the stack.                                                 *)
(***************************************************************************)

\* What a step has to do for the mapping.
Mapped == [Stack!Next]_(Stack!vars)

\* The frames before a step.
LEMMA ShownBefore ==
    ASSUME run # "gone"
    PROVE  Shown = Frames(eng)
  BY Zenon DEF Shown

\* The frames after a step.
LEMMA ShownAfter ==
    ASSUME run' # "gone"
    PROVE  Shown' = Frames(eng')
<1>1. Shown' = Frames(eng)'
  BY Zenon DEF Shown
<1>2. Frames(eng)' = Frames(eng')
  BY DEF Frames, Asserted
<1> QED
  BY <1>1, <1>2, Zenon

\* Nothing happens to the stack.
LEMMA Stays ==
    ASSUME run # "gone", run' # "gone", Frames(eng') = Frames(eng), globals' = globals,
           asked' = asked
    PROVE  Mapped
<1>1. Shown' = Shown
  BY ShownBefore, ShownAfter, Zenon
<1>2. Stack!vars' = Stack!vars
  BY <1>1, Zenon DEF Stack!vars
<1> QED
  BY <1>2, Zenon DEF Mapped

\* What the invariant says after a step that leaves the engine on, or does not.
LEMMA TracedOn ==
    ASSUME eng'.inited => Traced(eng', globals')
    PROVE  Abstracted'
<1>1. Traced(eng, globals)' <=> Traced(eng', globals')
  BY DEF Traced, Loaded, Standing, Plain, Retracts, Sent, Told, Added, Known, View, At, Top,
         UserLevel, Unassumed, Asserted
<1> QED
  BY <1>1, Zenon DEF Abstracted

\* Nothing is claimed of an engine that has thrown.
LEMMA NotOn ==
    ASSUME run' # "on"
    PROVE  Abstracted'
  BY Zenon DEF Abstracted

(***************************************************************************)
(* Step by step.                                                           *)
(***************************************************************************)

\* Declare is a step of the stack, or leaves it as it is.
LEMMA DeclareMapped ==
    ASSUME IInv, run = "on", Abstracted, Declare
    PROVE  Abstracted' /\ Mapped
<1>1. Good(eng, globals)
  BY Begins
<1>2. Shape(eng)
  BY <1>1, TypedParts, Zenon DEF Good
<1>3. /\ eng' = InMode(eng, "ASSERT") /\ globals' = globals /\ run' = run
      /\ asked' = asked
  BY DEF Declare, InMode
<1>4. /\ Looks(eng, eng') /\ eng'.userLevels = eng.userLevels /\ Rest(eng, eng')
  BY <1>2, <1>3, InModeLooks, Zenon
<1>5. eng'.inited = eng.inited
  <2>1. OnlyMode(eng, eng', "ASSERT")
    BY <1>1, <1>3, Modes, ModeGood, Zenon
  <2> QED
    BY <2>1, Zenon DEF OnlyMode, SameFlags
<1>6. Retracts(eng') <=> Retracts(eng)
  BY <1>4, Zenon DEF Rest, Retracts
<1>7. /\ Frames(eng') = Frames(eng)
      /\ \A g : Traced(eng, g) /\ (Retracts(eng') => Retracts(eng)) => Traced(eng', g)
  BY <1>4, LooksTraced
<1>8. eng'.inited => Traced(eng', globals')
  BY <1>3, <1>5, <1>6, <1>7, Zenon DEF Abstracted
<1>9. run # "gone" /\ run' # "gone"
  BY <1>3
<1> QED
  BY <1>3, <1>7, <1>8, <1>9, TracedOn, Stays, Zenon

\* One more formula at the end.
LEMMA JoinedOne ==
    ASSUME NEW S, NEW q \in Seq(S), NEW f \in S
    PROVE  Joined(q, <<f>>) = Append(q, f)
  BY DEF Joined

\* A list of one formula.
LEMMA SingletonIs ==
    ASSUME NEW f, NEW S, f \in S
    PROVE  <<f>> \in Seq(S) /\ Len(<<f>>) = 1 /\ ToSet(<<f>>) = {f}
  BY DEF ToSet

\* An engine between commands, and what it shows.
Showing(e) ==
    /\ Good(e, globals) /\ Exact(e) /\ (e.inited => Traced(e, globals))
    /\ Frames(e) = Frames(eng)

\* What a command finds.
LEMMA ShowingNow ==
    ASSUME IInv, run = "on", Abstracted
    PROVE  Showing(eng) /\ globals \in Seq(Definition)
<1>1. Good(eng, globals) /\ Exact(eng) /\ globals \in Seq(Definition)
  BY Begins, Zenon DEF Histories
<1> QED
  BY <1>1, Zenon DEF Showing, Abstracted

\* A formula is added at the end of the list of the innermost scope.
LEMMA AddedMapped ==
    ASSUME globals \in Seq(Definition), run = "on", NEW e, Showing(e),
           Weight(e.cur, globals) + 1 <= MaxList, NEW f \in Formula,
           eng' = AddFormulas(BeginCall(e), <<f>>),
           run' = run, globals' = globals, asked' = asked
    PROVE  Abstracted' /\ Mapped
<1>1. PICK b : b = BeginCall(e)
  OBVIOUS
<1>2. /\ Good(b, globals) /\ b.inited /\ globals \in Seq(Definition) /\ Begun(e, b, globals)
  <2>1. Good(b, globals) /\ Begun(e, b, globals)
    BY <1>1, BeginCallGood, Zenon DEF Showing
  <2> QED
    BY <2>1, Zenon DEF Begun
<1>3. /\ Traced(b, globals) /\ Top(b) = UserLevel(b) /\ Frames(b) = Frames(eng)
      /\ Typed(b)
  BY <1>1, BegunTraced, Zenon DEF Showing
<1>4. Loaded(b, globals) /\ Standing(b) /\ (Retracts(b) => Plain(b, Top(b)))
  BY <1>3, Zenon DEF Traced
<1>5. PICK fs : fs = <<f>>
  OBVIOUS
<1>6. f \in AnyFormula
  BY DEF AnyFormula
<1>7. fs \in Seq(AnyFormula) /\ Len(fs) = 1 /\ ToSet(fs) = {f}
  BY <1>5, <1>6, SingletonIs, Zenon
<1>8. ToSet(fs) \intersect Definition = {} /\ ToSet(fs) \intersect Assumption = {}
  BY <1>7, NamesAssumption
<1>9. PICK r : r = AddFormulas(b, fs)
  OBVIOUS
<1>10. /\ eng' = r /\ run' = run /\ globals' = globals /\ asked' = asked
  BY <1>1, <1>5, <1>9, Zenon
<1>11. Extended(b, r, fs, globals)
  BY <1>2, <1>4, <1>7, <1>8, <1>9, AddFormulasExtended
<1>12. Rest(b, r) /\ Grown(b, r, globals) /\ Typed(r)
  <2>1. Weight(b.cur, globals) + Len(fs) <= MaxList
    <3>1. b.cur \in Version /\ e.cur \in Version /\ 1 \in Nat
      BY <1>2, TypedParts DEF Showing, Good, Kept
    <3>2. Weight(b.cur, globals) <= Weight(e.cur, globals)
      BY <1>2, Zenon DEF Begun, Before
    <3>3. Weight(b.cur, globals) + 1 <= MaxList
      BY <3>1, <3>2, LighterFits
    <3> QED
      BY <1>7, <3>3, Zenon
  <2>2. Grown(b, r, globals) /\ r.clauses = b.clauses
    BY ONLY <1>2, <1>7, <1>9, <2>1, AddFormulasGrown, ZenonT(60)
  <2>3. Good(r, globals)
    <3>1. r.clauses \in SUBSET (AnyFormula \X Nat)
      BY <1>2, <2>2, TypedParts, Zenon DEF Good, Parts
    <3>2. \A c \in r.clauses : \/ c \in b.clauses
                               \/ c[2] = UserLevel(b) - 1 /\ c[1] \in ToSet(r.cur.list)
      BY <2>2, Zenon
    <3> QED
      BY <1>2, <2>2, <3>1, <3>2, GrownGood
  <2> QED
    BY <2>2, <2>3, Zenon DEF Grown, Good
<1>13. Kept(b) /\ Kept(r)
  BY <1>3, <1>12, TypedParts
<1>14. /\ UserLevel(r) = UserLevel(b) /\ r.userLevels = b.userLevels /\ Loaded(r, globals)
       /\ r.cur.list = Joined(b.cur.list, fs)
  BY <1>11, Zenon DEF Extended
<1>15. PICK n : n = UserLevel(b) /\ n \in Nat
  BY <1>13, AtIs
<1>16. Top(b) = n /\ Top(r) = n /\ UserLevel(r) = n
  BY <1>3, <1>14, <1>15, Zenon DEF Top
<1>17. Standing(r)
  <2>1. n <= n
    BY ONLY <1>15
  <2> QED
    BY <1>4, <1>14, <1>16, <2>1, Zenon DEF Standing
<1>18. \A i \in 0..n : i < n => View(r, i) = View(b, i)
  BY <1>11, <1>13, <1>15, ExtendedViews
<1>19. View(r, n) = Append(View(b, n), f)
  <2>1. At(r, n) = r.cur /\ At(b, n) = b.cur
    BY <1>13, <1>15, <1>16, AtIs, Zenon
  <2>2. b.cur.list \in Seq(AnyFormula)
    BY <1>13 DEF Kept, Version
  <2>3. Joined(b.cur.list, fs) = Append(b.cur.list, f)
    BY <1>5, <1>6, <2>2, JoinedOne, Zenon
  <2>4. Asserted(Append(b.cur.list, f)) = Append(Asserted(b.cur.list), f)
    BY <2>2, AssertedAppend, Zenon
  <2> QED
    BY <1>14, <2>1, <2>3, <2>4, Zenon DEF View
<1>20. Plain(b, n) => Plain(r, n)
  BY <1>3, <1>4, <1>8, <1>11, <1>12, <1>16, ExtendedPlain
<1>21. Traced(r, globals)
  <2>1. Retracts(r) <=> Retracts(b)
    BY <1>12, Zenon DEF Rest, Retracts
  <2> QED
    BY <1>4, <1>14, <1>16, <1>17, <1>20, <2>1, Zenon DEF Traced
<1>22. Frames(r) = [Frames(b) EXCEPT ![Len(Frames(b))] = Append(@, f)]
  <2>1. PICK F : F = Frames(b)
    OBVIOUS
  <2>2. PICK G : G = Frames(r)
    OBVIOUS
  <2>3. /\ F \in Seq(Seq(Formula)) /\ Len(F) = n /\ n > 0
        /\ \A i \in 1..n : F[i] = View(b, i)
    BY <1>3, <1>4, <1>16, <2>1, FramesTyped, Zenon
  <2>4. /\ G \in Seq(Seq(Formula)) /\ Len(G) = n
        /\ \A i \in 1..n : G[i] = View(r, i)
    BY <1>12, <1>16, <1>17, <2>2, FramesTyped, Zenon
  <2>5. (\A i \in 1..n : i \in 0..n) /\ n \in 1..n
    BY ONLY <1>15, <2>3
  <2>6. \A i \in 1..n : i < n => G[i] = F[i]
    BY <1>18, <2>3, <2>4, <2>5, Zenon
  <2>7. G[n] = Append(F[n], f)
    BY <1>19, <2>3, <2>4, <2>5, Zenon
  <2>8. G = [F EXCEPT ![Len(F)] = Append(@, f)]
    BY ONLY <1>15, <2>3, <2>4, <2>6, <2>7, f \in Formula, FrameAsserted
  <2> QED
    BY <2>1, <2>2, <2>8, Zenon
<1>23. Stack!AddAssertion(f)
  <2>1. Shown = Frames(b) /\ Shown' = Frames(r)
    BY <1>3, <1>10, ShownBefore, ShownAfter
  <2>2. Shown' = [Shown EXCEPT ![Len(Shown)] = Append(@, f)]
    BY <1>22, <2>1, Zenon
  <2> QED
    BY <1>10, <2>2, Zenon DEF Stack!AddAssertion
<1>24. Mapped
  BY <1>23, Zenon DEF Mapped, Stack!Next
<1> QED
  BY <1>10, <1>21, <1>24, TracedOn, Zenon

\* AssertFormula is a step of the stack, or leaves it as it is.
LEMMA AssertFormulaMapped ==
    ASSUME IInv, run = "on", Abstracted, NEW f \in Formula, AssertFormula(f)
    PROVE  Abstracted' /\ Mapped
<1>1. Showing(eng) /\ globals \in Seq(Definition)
  BY ShowingNow
<1>2. /\ eng' = AddFormulas(BeginCall(eng), <<f>>) /\ Room(eng, 1)
      /\ run' = run /\ globals' = globals /\ asked' = asked
  BY DEF AssertFormula
<1>3. Weight(eng.cur, globals) + 1 <= MaxList
  <2>1. 1 \in Nat
    OBVIOUS
  <2> QED
    BY <1>1, <1>2, <2>1, RoomIs, Zenon DEF Showing
<1> QED
  BY <1>1, <1>2, <1>3, AddedMapped, Zenon

\* The assertions are read: the definitions are added, and nothing else is shown.
LEMMA CollectShowing ==
    ASSUME globals \in Seq(Definition), NEW e, Showing(e), NEW r, r = CollectAssertions(e)
    PROVE  /\ Showing(r) /\ r.inited /\ Traced(r, globals)
           /\ Weight(r.cur, globals) = Weight(e.cur, globals)
<1>1. Good(e, globals) /\ Exact(e) /\ (e.inited => Traced(e, globals))
  BY Zenon DEF Showing
<1>2. PICK i : i = FinishInit(e)
  OBVIOUS
<1>3. Good(i, globals) /\ i.inited /\ Traced(i, globals) /\ Frames(i) = Frames(e)
  BY <1>1, <1>2, FinishInitTraced
<1>4. r = RefreshDefinitions(i)
  BY <1>2, Zenon DEF CollectAssertions
<1>5. Traced(r, globals) /\ Frames(r) = Frames(i)
  BY <1>3, <1>4, RefreshDefinitionsTraced
<1>6. /\ Good(r, globals) /\ r.inited /\ Exact(r)
      /\ Weight(r.cur, globals) = Weight(e.cur, globals)
  BY <1>1, CollectGood
<1> QED
  BY <1>3, <1>5, <1>6, Zenon DEF Showing

\* GetAssertions leaves the stack as it is.
LEMMA GetAssertionsMapped ==
    ASSUME IInv, run = "on", Abstracted, GetAssertions
    PROVE  Abstracted' /\ Mapped
<1>1. Showing(eng) /\ globals \in Seq(Definition)
  BY ShowingNow
<1>2. PICK r : r = CollectAssertions(eng)
  OBVIOUS
<1>3. /\ eng' = r /\ run' = run /\ globals' = globals /\ asked' = asked
  BY <1>2 DEF GetAssertions
<1>4. Traced(r, globals) /\ Frames(r) = Frames(eng)
  BY <1>1, <1>2, CollectShowing, Zenon DEF Showing
<1>5. run # "gone" /\ run' # "gone"
  BY <1>3
<1> QED
  BY <1>3, <1>4, <1>5, TracedOn, Stays, Zenon

\* BlockModel adds the model's negation.
LEMMA BlockModelMapped ==
    ASSUME IInv, run = "on", Abstracted, NEW f \in Formula, BlockModel(f)
    PROVE  Abstracted' /\ Mapped
<1>1. Showing(eng) /\ globals \in Seq(Definition)
  BY ShowingNow
<1>2. PICK e : e = CollectAssertions(eng)
  OBVIOUS
<1>3. /\ eng' = AddFormulas(BeginCall(e), <<f>>) /\ Room(eng, 1)
      /\ run' = run /\ globals' = globals /\ asked' = asked
  BY <1>2 DEF BlockModel
<1>4. Showing(e) /\ Weight(e.cur, globals) = Weight(eng.cur, globals)
  BY <1>1, <1>2, CollectShowing
<1>5. Weight(e.cur, globals) + 1 <= MaxList
  <2>1. 1 \in Nat
    OBVIOUS
  <2> QED
    BY <1>1, <1>3, <1>4, <2>1, RoomIs, Zenon DEF Showing
<1> QED
  BY <1>1, <1>3, <1>4, <1>5, AddedMapped, Zenon

\* Simplify is a step of the stack, or leaves it as it is.
LEMMA SimplifyMapped ==
    ASSUME IInv, run = "on", Abstracted, Simplify
    PROVE  Abstracted' /\ Mapped
<1>1. PICK b : b = BeginCall(eng)
  OBVIOUS
<1>2. /\ Good(b, globals) /\ b.inited /\ globals \in Seq(Definition)
  BY <1>1, Beginning
<1>3. /\ Traced(b, globals) /\ Top(b) = UserLevel(b) /\ Frames(b) = Frames(eng)
  BY <1>1, BeginningTraced
<1>4. Loaded(b, globals) /\ Standing(b) /\ (Retracts(b) => Plain(b, Top(b)))
  BY <1>3, Zenon DEF Traced
<1>5. PICK r : r = RefreshAssertions(b)
  OBVIOUS
<1>6. /\ eng' = r /\ run' = run /\ globals' = globals /\ asked' = asked
  BY <1>1, <1>5 DEF Simplify
<1>7. /\ Loaded(r, globals) /\ Standing(r) /\ Frames(r) = Frames(b) /\ Top(r) = Top(b)
      /\ (Plain(b, Top(b)) => Plain(r, Top(b))) /\ (Retracts(r) <=> Retracts(b))
  BY <1>2, <1>4, <1>5, RefreshTraced
<1>8. Traced(r, globals)
  BY <1>4, <1>7, Zenon DEF Traced
<1>9. run # "gone" /\ run' # "gone"
  BY <1>6
<1> QED
  BY <1>3, <1>6, <1>7, <1>8, <1>9, TracedOn, Stays, Zenon

\* The elements of a list with one more.
LEMMA AppendSet ==
    ASSUME NEW S, NEW q \in Seq(S), NEW d \in S, NEW h, h = Append(q, d)
    PROVE  \A f : f \in ToSet(h) <=> f \in ToSet(q) \/ f = d
<1>1. /\ h \in Seq(S) /\ Len(h) = Len(q) + 1
      /\ \A i \in 1..Len(q) : h[i] = q[i]
      /\ h[Len(q) + 1] = d
  BY Appending
<1>2. Len(q) \in Nat
  OBVIOUS
<1>3. ToSet(h) = {h[i] : i \in 1..Len(h)} /\ ToSet(q) = {q[i] : i \in 1..Len(q)}
  BY <1>1 DEF ToSet
<1>4. \A i : i \in 1..Len(h) <=> i \in 1..Len(q) \/ i = Len(q) + 1
  BY ONLY <1>1, <1>2
<1> QED
  BY ONLY <1>1, <1>3, <1>4

\* DefineGlobal is a step of the stack, or leaves it as it is.
LEMMA DefineGlobalMapped ==
    ASSUME IInv, run = "on", Abstracted, NEW d \in Definition, DefineGlobal(d)
    PROVE  Abstracted' /\ Mapped
<1>1. PICK b : b = BeginCall(eng)
  OBVIOUS
<1>2. /\ Good(b, globals) /\ globals \in Seq(Definition)
  BY <1>1, Beginning
<1>3. /\ Traced(b, globals) /\ Frames(b) = Frames(eng) /\ Typed(b)
  BY <1>1, BeginningTraced
<1>4. PICK g : g = globals /\ g \in Seq(Definition)
  BY <1>2
<1>5. PICK h : h = Append(g, d)
  OBVIOUS
<1>6. /\ eng' = b /\ run' = run /\ globals' = h /\ asked' = asked
  BY <1>1, <1>4, <1>5 DEF DefineGlobal
<1>7. /\ \A k \in 1..Len(g) : h[k] = g[k]
      /\ ToSet(h) = ToSet(g) \union {d} /\ Len(g) \in Nat
  <2>1. \A k \in 1..Len(g) : h[k] = g[k]
    BY <1>4, <1>5, Appending
  <2>2. ToSet(h) = ToSet(g) \union {d}
    <3>1. \A f : f \in ToSet(h) <=> f \in ToSet(g) \/ f = d
      <4>1. g \in Seq(Definition)
        BY <1>4, Zenon
      <4> QED
        BY ONLY <1>5, <4>1, d \in Definition, AppendSet
    <3> QED
      BY ONLY <3>1
  <2>3. Len(g) \in Nat
    BY ONLY <1>4
  <2> QED
    BY <2>1, <2>2, <2>3, Zenon
<1>8. ASSUME NEW i \in 0..UserLevel(b)
      PROVE  Sent(At(b, i), i, b.clauses, h)
  <2>1. PICK v : v = At(b, i)
    OBVIOUS
  <2>2. Told(v, i, b.clauses) /\ Added(v, g) /\ Known(v, g)
    BY <1>3, <1>4, <2>1, Zenon DEF Traced, Loaded, Sent
  <2>3. v.defIndex <= Len(g) /\ v.defIndex \in Nat
    <3>1. Fits(v, g)
      BY <1>2, <1>4, <2>1, Zenon DEF Good, Versions
    <3>2. v \in Version
      BY <1>3, <2>1, TypedParts, AtIs, Zenon
    <3> QED
      BY <3>1, <3>2 DEF Fits, Version
  <2>4. \A k \in 1..v.defIndex : k \in 1..Len(g)
    BY ONLY <1>7, <2>3
  <2>5. Added(v, h)
    BY <1>7, <2>2, <2>4, Zenon DEF Added
  <2>6. Known(v, h)
    BY <1>7, <2>2, Zenon DEF Known
  <2> QED
    BY <2>1, <2>2, <2>5, <2>6, Zenon DEF Sent
<1>9. Traced(b, h)
  BY <1>3, <1>8, Zenon DEF Traced, Loaded
<1>10. Stack!Define(d)
  <2>1. run # "gone" /\ run' # "gone"
    BY <1>6
  <2>2. Shown = Frames(eng) /\ Shown' = Frames(b)
    BY <1>6, <2>1, ShownBefore, ShownAfter, Zenon
  <2>3. ToSet(globals)' = ToSet(globals) \union {d}
    <3>1. ToSet(globals)' = ToSet(globals')
      BY DEF ToSet
    <3> QED
      BY <1>4, <1>6, <1>7, <3>1, Zenon
  <2> QED
    BY <1>3, <1>6, <2>2, <2>3, Zenon DEF Stack!Define
<1>11. Mapped
  BY <1>10, Zenon DEF Mapped, Stack!Next
<1> QED
  BY <1>6, <1>9, <1>11, TracedOn, Zenon

\* internalPush: the new level shows what the level below it does.
LEMMA InternalPushShows ==
    ASSUME globals \in Seq(Definition), NEW e, Good(e, globals), e.inited, e.incremental,
           Quiet(e), Loaded(e, globals), NEW r, r = InternalPush(e)
    PROVE  /\ UserLevel(r) = UserLevel(e) + 1 /\ r.userLevels = e.userLevels
           /\ Loaded(r, globals)
           /\ \A i \in 0..UserLevel(e) : View(r, i) = View(e, i)
           /\ View(r, UserLevel(e) + 1) = View(e, UserLevel(e))
           /\ \A n \in 0..UserLevel(e) : Plain(e, n) => Plain(r, n)
           /\ Plain(e, UserLevel(e)) => Plain(r, UserLevel(e) + 1)
<1>1. PICK d : d = DoPendingPops(e)
  OBVIOUS
<1>2. Good(d, globals) /\ Settled(e, d, globals)
  BY <1>1, DoPendingPopsGood
<1>3. /\ d.userLevels = e.userLevels /\ d.inited /\ d.decisions = 0
  BY <1>2, Zenon DEF Settled
<1>4. Kept(e) /\ UserLevel(e) \in Nat
  BY TypedParts, UserLevelIs DEF Good
<1>5. Below(e, d, UserLevel(e), globals)
  <2>1. Below(e, d, UserLevel(e) - e.pendingPops, globals)
    BY <1>1, DoPendingPopsBelow
  <2>2. e.pendingPops = 0
    BY Zenon DEF Quiet
  <2>3. UserLevel(e) - 0 = UserLevel(e)
    BY ONLY <1>4
  <2> QED
    BY <2>1, <2>2, <2>3, Zenon
<1>6. PICK u : u = UserLevel(e) /\ u \in Nat
  BY <1>4
<1>7. /\ UserLevel(d) = u /\ Loaded(d, globals)
      /\ \A i \in 0..u : At(d, i) = At(e, i) /\ View(d, i) = View(e, i)
  BY <1>5, <1>6, BelowIs, Zenon
<1>8. PICK x : x = RefreshAssertions(d)
  OBVIOUS
<1>9. /\ Grown(d, x, globals) /\ Good(x, globals)
  BY <1>2, <1>3, <1>8, RefreshGood
<1>10. PICK fs : Extended(d, x, fs, globals) /\ ToSet(fs) \subseteq Definition
  BY <1>2, <1>3, <1>7, <1>8, RefreshExtended
<1>11. ToSet(fs) \intersect Formula = {} /\ ToSet(fs) \intersect Assumption = {}
  BY <1>10, DefinitionNames
<1>12. Kept(d) /\ Kept(x)
  BY <1>2, <1>9, TypedParts, Zenon DEF Good
<1>13. /\ UserLevel(x) = u /\ x.userLevels = e.userLevels /\ Loaded(x, globals)
       /\ \A i \in 0..u : View(x, i) = View(e, i)
       /\ \A n \in 0..u : Plain(d, n) => Plain(x, n)
  <2>1. /\ \A i \in 0..UserLevel(d) : View(x, i) = View(d, i)
        /\ \A n \in 0..UserLevel(d) : Plain(d, n) => Plain(x, n)
    <3>1. /\ \A i \in 0..UserLevel(d) : i < UserLevel(d) => View(x, i) = View(d, i)
          /\ ToSet(fs) \intersect Formula = {} =>
                 \A i \in 0..UserLevel(d) : View(x, i) = View(d, i)
          /\ \A n \in 0..UserLevel(d) :
                 Plain(d, n) /\ (n < UserLevel(d) \/ ToSet(fs) \intersect Assumption = {})
                     => Plain(x, n)
      BY ONLY <1>10, <1>12, ExtendedViews, Zenon
    <3> QED
      BY <1>11, <3>1, Zenon
  <2> QED
    BY <1>3, <1>7, <1>10, <2>1, Zenon DEF Extended
<1>14. r = PushScope(x)
  BY <1>1, <1>8, Zenon DEF InternalPush, PushScope
<1>15. x.decisions = 0
  BY <1>3, <1>9, Zenon DEF Grown
<1>16. /\ UserLevel(r) = u + 1 /\ Loaded(r, globals) /\ r.userLevels = e.userLevels
       /\ \A i \in 0..u : At(r, i) = At(x, i)
       /\ At(r, u + 1) = At(x, u)
  <2>1. /\ UserLevel(r) = UserLevel(x) + 1 /\ Loaded(r, globals) /\ r.clauses = x.clauses
        /\ r.userLevels = x.userLevels
        /\ \A i \in 0..UserLevel(x) : At(r, i) = At(x, i)
        /\ At(r, UserLevel(x) + 1) = At(x, UserLevel(x))
    BY <1>9, <1>13, <1>14, <1>15, PushScopeLoaded
  <2> QED
    BY <1>13, <2>1, Zenon
<1>17. u \in 0..u /\ \A i : i \in 0..u + 1 => i \in 0..u \/ i = u + 1
  BY ONLY <1>6
<1>18. /\ \A i \in 0..u : View(r, i) = View(e, i)
       /\ View(r, u + 1) = View(e, u)
  BY <1>13, <1>16, <1>17, Zenon DEF View
<1>19. \A n \in 0..u : Plain(e, n) => Plain(r, n)
  <2>1. \A n, i : n \in 0..u /\ i \in 0..n => i \in 0..u
    BY ONLY <1>6
  <2>2. \A n \in 0..u : Plain(e, n) => Plain(d, n)
    BY <1>7, <2>1, Zenon DEF Plain
  <2>3. \A n \in 0..u : Plain(x, n) => Plain(r, n)
    BY <1>16, <2>1, Zenon DEF Plain
  <2> QED
    BY <1>13, <2>2, <2>3, Zenon
<1>20. Plain(e, u) => Plain(r, u + 1)
  <2>1. ASSUME Plain(e, u)
        PROVE  Plain(r, u + 1)
    <3>1. Plain(r, u)
      BY <1>17, <1>19, <2>1, Zenon
    <3>2. At(r, u) = At(x, u) /\ At(r, u + 1) = At(x, u)
      BY <1>16, <1>17, Zenon
    <3>3. Unassumed(At(r, u))
      BY <1>17, <3>1, Zenon DEF Plain
    <3> QED
      BY <1>17, <3>1, <3>2, <3>3, Zenon DEF Plain
  <2> QED
    BY <2>1
<1> QED
  BY <1>6, <1>16, <1>18, <1>19, <1>20, Zenon

\* Push is a step of the stack, or leaves it as it is.
LEMMA PushMapped ==
    ASSUME IInv, run = "on", Abstracted, Push
    PROVE  Abstracted' /\ Mapped
<1>1. PICK b : b = BeginCall(eng)
  OBVIOUS
<1>2. /\ Good(b, globals) /\ b.inited /\ globals \in Seq(Definition)
  BY <1>1, Beginning
<1>3. /\ Traced(b, globals) /\ Top(b) = UserLevel(b) /\ Frames(b) = Frames(eng)
  BY <1>1, BeginningTraced
<1>4. Loaded(b, globals) /\ Standing(b) /\ (Retracts(b) => Plain(b, Top(b)))
  BY <1>3, Zenon DEF Traced
<1>5. PICK e : e = RefreshAssertions(b)
  OBVIOUS
<1>6. /\ Good(e, globals) /\ e.inited /\ Quiet(e) /\ Exact(e)
      /\ e.incremental = eng.incremental
  BY <1>1, <1>5, Refreshing
<1>7. /\ Loaded(e, globals) /\ Standing(e) /\ Frames(e) = Frames(b) /\ Top(e) = Top(b)
      /\ UserLevel(e) = UserLevel(b) /\ Typed(e)
      /\ (Plain(b, Top(b)) => Plain(e, Top(b))) /\ (Retracts(e) <=> Retracts(b))
  BY <1>2, <1>4, <1>5, RefreshTraced
<1>8. /\ globals' = globals /\ asked' = asked
      /\ IF eng.incremental THEN eng' = UserPush(e) /\ run' = run
         ELSE eng' = e /\ run' = "thrown"
  BY <1>1, <1>5 DEF Push
<1>9. CASE ~eng.incremental
  <2>1. run # "gone" /\ run' # "gone" /\ run' # "on" /\ eng' = e
    BY <1>8, <1>9
  <2> QED
    BY <1>3, <1>7, <1>8, <2>1, Stays, NotOn, Zenon
<1>10. CASE eng.incremental
  <2>1. PICK q : q = e.userLevels /\ q \in Seq(Nat)
    BY <1>7, TypedParts, Zenon DEF Parts
  <2>2. PICK n : n = UserLevel(e) /\ n \in Nat /\ n = 1 + Len(q) /\ n > 0
    <3>1. UserLevel(e) = 1 + Len(q) + e.pendingPops /\ e.pendingPops = 0
      BY <1>6, <2>1, Zenon DEF Exact, Quiet
    <3>2. Len(q) \in Nat
      BY ONLY <2>1
    <3>3. UserLevel(e) \in Nat /\ UserLevel(e) = 1 + Len(q) /\ UserLevel(e) > 0
      BY ONLY <3>1, <3>2
    <3> QED
      BY <3>3
  <2>3. Top(e) = n
    BY <1>3, <1>7, <2>2, Zenon
  <2>4. PICK p : p = Append(q, n)
    OBVIOUS
  <2>5. p \in Seq(Nat) /\ Len(p) = n
    BY ONLY <2>1, <2>2, <2>4
  <2>6. PICK y : y = InMode(e, "ASSERT")
    OBVIOUS
  <2>7. PICK x : x = WithLevels(y, p)
    OBVIOUS
  <2>8. Shape(e)
    BY <1>7, TypedParts
  <2>9. Looks(e, y) /\ y.userLevels = q /\ Good(y, globals) /\ OnlyMode(e, y, "ASSERT")
    BY <1>6, <2>1, <2>6, <2>8, InModeLooks, Modes, ModeGood, Zenon
  <2>10. Shape(y)
    BY <2>9, TypedParts, Zenon DEF Good
  <2>11. Looks(y, x) /\ x.userLevels = p /\ Good(x, globals) /\ OnlyLevels(y, x, p)
    BY <2>5, <2>7, <2>9, <2>10, WithLevelsLooks, UserLevelsGood, Zenon
  <2>12. UserPush(e) = InternalPush(x)
    <3>1. x = [e EXCEPT !.mode = "ASSERT", !.userLevels = Append(@, UserLevel(e))]
      <4>1. x = [[e EXCEPT !.mode = "ASSERT"]
                    EXCEPT !.userLevels = Append(e.userLevels, UserLevel(e))]
        BY <2>1, <2>2, <2>4, <2>6, <2>7, Zenon DEF InMode, WithLevels
      <4> QED
        BY ONLY <2>8, <4>1 DEF Shape, Fields
    <3> QED
      BY <3>1, Zenon DEF UserPush
  <2>13. x.inited /\ x.incremental /\ Quiet(x)
    BY <1>6, <1>10, <2>9, <2>11, Zenon DEF OnlyMode, OnlyLevels, SameFlags, Rest
  <2>14. Looks(e, x)
    BY <2>9, <2>11, Zenon DEF Looks, SameUser
  <2>15. /\ UserLevel(x) = n /\ Loaded(x, globals)
         /\ \A i : View(x, i) = View(e, i)
         /\ \A m : Plain(e, m) => Plain(x, m)
    BY <1>7, <2>2, <2>14, LooksSame, Zenon
  <2>16. PICK r : r = InternalPush(x)
    OBVIOUS
  <2>17. /\ UserLevel(r) = n + 1 /\ r.userLevels = p /\ Loaded(r, globals)
         /\ \A i \in 0..n : View(r, i) = View(e, i)
         /\ View(r, n + 1) = View(e, n)
         /\ Plain(e, n) => Plain(r, n + 1)
    <3>1. /\ UserLevel(r) = UserLevel(x) + 1 /\ r.userLevels = x.userLevels
          /\ Loaded(r, globals)
          /\ \A i \in 0..UserLevel(x) : View(r, i) = View(x, i)
          /\ View(r, UserLevel(x) + 1) = View(x, UserLevel(x))
          /\ Plain(x, UserLevel(x)) => Plain(r, UserLevel(x) + 1)
      BY <1>2, <2>11, <2>13, <2>15, <2>16, InternalPushShows
    <3> QED
      BY <2>11, <2>15, <3>1, Zenon
  <2>18. /\ Good(r, globals) /\ Exact(r) /\ Typed(r) /\ (Retracts(r) <=> Retracts(e))
    <3>1. Good(r, globals) /\ Exact(r)
      BY <1>2, <1>6, <1>10, <2>12, <2>16, UserPushGood
    <3>2. Rest(x, r)
      BY <1>2, <2>11, <2>13, <2>16, InternalPushGood
    <3>3. Rest(e, y) /\ Rest(y, x)
      BY <2>9, <2>11, Zenon DEF OnlyMode, OnlyLevels
    <3>4. Retracts(r) <=> Retracts(e)
      BY <3>2, <3>3, Zenon DEF Rest, Retracts
    <3> QED
      BY <3>1, <3>4, Zenon DEF Good
  <2>19. Top(r) = n + 1
    BY <2>5, <2>17, Zenon DEF Top
  <2>20. Standing(r)
    <3>1. n + 1 <= n + 1
      BY ONLY <2>2
    <3> QED
      BY <2>17, <2>18, <2>19, <3>1, Zenon DEF Standing, Exact
  <2>21. Traced(r, globals)
    BY <1>3, <1>4, <1>7, <2>3, <2>17, <2>18, <2>19, <2>20, Zenon DEF Traced
  <2>22. Frames(r) = Append(Frames(e), Last(Frames(e)))
    <3>1. PICK F : F = Frames(e)
      OBVIOUS
    <3>2. PICK G : G = Frames(r)
      OBVIOUS
    <3>3. PICK v : v = Last(F)
      OBVIOUS
    <3>4. /\ F \in Seq(Seq(Formula)) /\ Len(F) = n
          /\ \A i \in 1..n : F[i] = View(e, i)
      BY <1>7, <2>3, <3>1, FramesTyped, Zenon
    <3>5. v = View(e, n) /\ v \in Seq(Formula)
      BY <1>7, <2>3, <3>1, <3>3, InnermostFrame, Zenon
    <3>6. /\ G \in Seq(Seq(Formula)) /\ Len(G) = n + 1
          /\ \A i \in 1..n + 1 : G[i] = View(r, i)
      BY <2>18, <2>19, <2>20, <3>2, FramesTyped, Zenon
    <3>7. (\A i \in 1..n : i \in 0..n /\ i \in 1..n + 1) /\ n \in 1..n /\ n + 1 \in 1..n + 1
      BY ONLY <2>2
    <3>8. \A i \in 1..n : G[i] = F[i]
      BY <2>17, <3>4, <3>6, <3>7, Zenon
    <3>9. v = F[n] /\ G[n + 1] = v
      BY <2>17, <3>4, <3>5, <3>6, <3>7, Zenon
    <3>10. G = Append(F, v)
      BY ONLY <2>2, <3>4, <3>5, <3>6, <3>8, <3>9, FramePushed
    <3> QED
      BY <3>1, <3>2, <3>3, <3>10, Zenon
  <2>23. eng' = r /\ run' = run
    BY <1>8, <1>10, <2>12, <2>16, Zenon
  <2>24. Stack!Push
    <3>1. run # "gone" /\ run' # "gone"
      BY <2>23
    <3>2. Shown = Frames(e) /\ Shown' = Frames(r)
      BY <1>3, <1>7, <2>23, <3>1, ShownBefore, ShownAfter, Zenon
    <3>3. ToSet(globals)' = ToSet(globals)
      BY <1>8, Zenon DEF ToSet
    <3>4. Shown' = Append(Shown, Last(Shown))
      BY <2>22, <3>2, Zenon
    <3> QED
      BY <1>8, <3>3, <3>4, Zenon DEF Stack!Push, Stack!InForce, Last, Stack!Last
  <2>25. Mapped
    BY <2>24, Zenon DEF Mapped, Stack!Next
  <2> QED
    BY <1>8, <2>21, <2>23, <2>25, TracedOn, Zenon
<1> QED
  BY <1>9, <1>10, Zenon

\* Pop is a step of the stack, or leaves it as it is.
LEMMA PopMapped ==
    ASSUME IInv, run = "on", Abstracted, Pop
    PROVE  Abstracted' /\ Mapped
<1>1. PICK b : b = BeginCall(eng)
  OBVIOUS
<1>2. /\ Good(b, globals) /\ b.inited /\ Quiet(b) /\ Exact(b) /\ Begun(eng, b, globals)
      /\ globals \in Seq(Definition)
  BY <1>1, Beginning
<1>3. /\ Traced(b, globals) /\ Top(b) = UserLevel(b) /\ Frames(b) = Frames(eng)
      /\ b.userLevels = eng.userLevels /\ Typed(b) /\ (Retracts(b) <=> Retracts(eng))
  BY <1>1, BeginningTraced
<1>4. Loaded(b, globals) /\ Standing(b) /\ (Retracts(b) => Plain(b, Top(b)))
  BY <1>3, Zenon DEF Traced
<1>5. b.incremental = eng.incremental
  BY <1>2, BegunKeeps, Zenon
<1>6. /\ globals' = globals /\ asked' = asked
      /\ IF eng.incremental /\ b.userLevels # <<>>
         THEN eng' = UserPop(b) /\ run' = run
         ELSE /\ eng' = (IF eng.incremental THEN InMode(b, "ASSERT") ELSE b)
              /\ run' = "thrown"
  BY <1>1 DEF Pop, InMode
<1>7. CASE ~(eng.incremental /\ b.userLevels # <<>>)
  <2>1. Shape(b)
    BY <1>3, TypedParts
  <2>2. PICK m : m = InMode(b, "ASSERT")
    OBVIOUS
  <2>3. Looks(b, m) /\ m.userLevels = b.userLevels
    BY <2>1, <2>2, InModeLooks
  <2>4. Frames(m) = Frames(b)
    BY <2>3, LooksTraced
  <2>5. Frames(eng') = Frames(eng)
    BY <1>3, <1>6, <1>7, <2>2, <2>4, Zenon
  <2>6. run # "gone" /\ run' # "gone" /\ run' # "on"
    BY <1>6, <1>7
  <2> QED
    BY <1>6, <2>5, <2>6, Stays, NotOn, Zenon
<1>8. CASE eng.incremental /\ b.userLevels # <<>>
  <2>1. PICK r : r = UserPop(b)
    OBVIOUS
  <2>2. Good(r, globals) /\ Popped(b, r, globals)
    BY <1>2, <1>5, <1>8, <2>1, UserPopGood
  <2>3. /\ Below(b, r, UserLevel(b) - 1, globals)
        /\ r.userLevels = Front(b.userLevels)
    BY <1>2, <1>4, <1>5, <1>8, <2>1, UserPopBelow
  <2>4. PICK n : n = UserLevel(b) - 1
    OBVIOUS
  <2>5. n \in Nat /\ n > 0 /\ Top(b) = n + 1 /\ UserLevel(b) = n + 1
    <3>1. b.userLevels \in Seq(Nat)
      BY <1>3, TypedParts, Zenon DEF Parts
    <3>2. UserLevel(b) = 1 + Len(b.userLevels) + b.pendingPops /\ b.pendingPops = 0
      BY <1>2, Zenon DEF Exact, Quiet
    <3>3. Len(b.userLevels) \in Nat /\ Len(b.userLevels) > 0
      BY ONLY <3>1, <1>8
    <3>4. UserLevel(b) = n + 1 /\ n \in Nat /\ n > 0
      BY ONLY <2>4, <3>2, <3>3
    <3> QED
      BY <1>3, <3>4, Zenon
  <2>6. /\ UserLevel(r) = n /\ Loaded(r, globals)
        /\ \A i \in 0..n : At(r, i) = At(b, i) /\ View(r, i) = View(b, i)
    BY <2>3, <2>4, BelowIs, Zenon
  <2>7. /\ Exact(r) /\ Quiet(r) /\ Rest(b, r) /\ Typed(r) /\ r.inited
    BY <2>2, Zenon DEF Popped, Good
  <2>8. Top(r) = n
    <3>1. r.userLevels \in Seq(Nat)
      BY <2>7, TypedParts, Zenon DEF Parts
    <3>2. UserLevel(r) = 1 + Len(r.userLevels) + r.pendingPops /\ r.pendingPops = 0
      BY <2>7, Zenon DEF Exact, Quiet
    <3>3. Len(r.userLevels) \in Nat
      BY ONLY <3>1
    <3> QED
      BY ONLY <2>6, <3>2, <3>3 DEF Top
  <2>9. Standing(r)
    <3>1. n <= n
      BY ONLY <2>5
    <3> QED
      BY <2>6, <2>7, <2>8, <3>1, Zenon DEF Standing, Exact
  <2>10. Retracts(r) <=> Retracts(b)
    BY <2>7, Zenon DEF Rest, Retracts
  <2>11. \A i \in 0..n : i \in 0..n + 1
    BY ONLY <2>5
  <2>12. Retracts(r) => Plain(r, Top(r))
    BY <1>4, <2>5, <2>6, <2>8, <2>10, <2>11, Zenon DEF Plain
  <2>13. Traced(r, globals)
    BY <2>6, <2>9, <2>12, Zenon DEF Traced
  <2>14. Frames(r) = Front(Frames(b)) /\ Len(Frames(b)) > 1
    <3>1. PICK F : F = Frames(b)
      OBVIOUS
    <3>2. PICK G : G = Frames(r)
      OBVIOUS
    <3>3. /\ F \in Seq(Seq(Formula)) /\ Len(F) = n + 1
          /\ \A i \in 1..n + 1 : F[i] = View(b, i)
      BY <1>3, <1>4, <2>5, <3>1, FramesTyped, Zenon
    <3>4. /\ G \in Seq(Seq(Formula)) /\ Len(G) = n
          /\ \A i \in 1..n : G[i] = View(r, i)
      BY <2>7, <2>8, <2>9, <3>2, FramesTyped, Zenon
    <3>5. \A i \in 1..n : i \in 0..n /\ i \in 1..n + 1
      BY ONLY <2>5
    <3>6. \A i \in 1..n : G[i] = F[i]
      BY <2>6, <3>3, <3>4, <3>5, Zenon
    <3>7. G = Front(F)
      BY ONLY <2>5, <3>3, <3>4, <3>6, FramePopped
    <3>8. Len(F) > 1
      BY ONLY <2>5, <3>3
    <3> QED
      BY <3>1, <3>2, <3>7, <3>8, Zenon
  <2>15. eng' = r /\ run' = run
    BY <1>6, <1>8, <2>1, Zenon
  <2>16. Stack!Pop
    <3>1. run # "gone" /\ run' # "gone"
      BY <2>15
    <3>2. Shown = Frames(b) /\ Shown' = Frames(r)
      BY <1>3, <2>15, <3>1, ShownBefore, ShownAfter, Zenon
    <3>3. ToSet(globals)' = ToSet(globals)
      BY <1>6, Zenon DEF ToSet
    <3>4. Shown' = Front(Shown) /\ Len(Shown) > 1
      BY <2>14, <3>2, Zenon
    <3> QED
      BY <1>6, <3>3, <3>4, Zenon DEF Stack!Pop, Front, Stack!Front
  <2>17. Mapped
    BY <2>16, Zenon DEF Mapped, Stack!Next
  <2> QED
    BY <1>6, <2>13, <2>15, <2>17, TracedOn, Zenon
<1> QED
  BY <1>7, <1>8, Zenon

\* What shows afterwards is the empty stack.
LEMMA Resets ==
    ASSUME Shown' = << <<>> >>, globals' = globals, asked' = asked
    PROVE  Mapped
<1>1. ToSet(globals)' = ToSet(globals)
  BY Zenon DEF ToSet
<1>2. Stack!Reset
  BY <1>1, Zenon DEF Stack!Reset
<1> QED
  BY <1>2, Zenon DEF Mapped, Stack!Next

\* ResetAssertions is a step of the stack, or leaves it as it is.
LEMMA ResetAssertionsMapped ==
    ASSUME IInv, run = "on", Abstracted, ResetAssertions
    PROVE  Abstracted' /\ Mapped
<1>1. Good(eng, globals) /\ Exact(eng) /\ globals \in Seq(Definition)
  BY Begins, Zenon DEF Histories
<1>2. PICK z : z = [NotifyResetAssertions(eng) EXCEPT
                        !.clauses = {}, !.assertionLevel = 0, !.decisions = 0]
  OBVIOUS
<1>3. /\ eng' = (IF ~eng.inited THEN eng ELSE z) /\ run' = run /\ globals' = globals
      /\ asked' = asked
  BY <1>2, Zenon DEF ResetAssertions
<1>4. run # "gone" /\ run' # "gone"
  BY <1>3
<1>5. CASE ~eng.inited
  <2>1. eng' = eng
    BY <1>3, <1>5, Zenon
  <2>2. Mapped
    BY <1>3, <1>4, <2>1, Stays, Zenon
  <2>3. eng'.inited => Traced(eng', globals')
    BY <1>5, <2>1, Zenon
  <2> QED
    BY <2>2, <2>3, TracedOn, Zenon
<1>6. CASE eng.inited
  <2>1. Fresh(z) /\ z.userLevels = <<>>
    BY <1>1, <1>2, <1>6, ResetGood
  <2>2. z.cur = Blank
    BY <2>1, Zenon DEF Fresh
  <2>3. Traced(z, globals)
    BY <2>1, FreshTraced, Zenon
  <2>4. Frames(z) = << <<>> >>
    BY <2>1, <2>2, FramesBlank, Zenon
  <2>5. eng' = z
    BY <1>3, <1>6, Zenon
  <2>6. Shown' = << <<>> >>
    BY <1>4, <2>4, <2>5, ShownAfter, Zenon
  <2> QED
    BY <1>3, <2>3, <2>5, <2>6, Resets, TracedOn, Zenon
<1> QED
  BY <1>5, <1>6, Zenon

\* CheckSatAgain is a step of the stack, or leaves it as it is.
LEMMA CheckSatAgainMapped ==
    ASSUME IInv, run = "on", Abstracted, CheckSatAgain
    PROVE  Abstracted' /\ Mapped
<1>1. PICK b : b = BeginCall(eng)
  OBVIOUS
<1>2. Frames(b) = Frames(eng)
  BY <1>1, BeginningTraced
<1>3. /\ eng' = b /\ run' = "thrown" /\ globals' = globals /\ asked' = asked
  BY <1>1 DEF CheckSatAgain
<1>4. run # "gone" /\ run' # "gone" /\ run' # "on"
  BY <1>3
<1> QED
  BY <1>2, <1>3, <1>4, Stays, NotOn, Zenon

\* Destroy is a step of the stack, or leaves it as it is.
LEMMA DestroyMapped ==
    ASSUME IInv, run \in {"on", "thrown"}, Destroy
    PROVE  Abstracted' /\ Mapped
<1>1. /\ run' = "gone" /\ globals' = globals /\ asked' = asked
  BY DEF Destroy
<1>2. Shown' = << <<>> >>
  BY <1>1, Zenon DEF Shown
<1>3. run' # "on"
  BY <1>1
<1> QED
  BY <1>1, <1>2, <1>3, Resets, NotOn, Zenon

(***************************************************************************)
(* The queries of other solvers leave the stack as it is.                  *)
(***************************************************************************)

\* An engine refreshed at the start of a command.
LEMMA RefreshedTraced ==
    ASSUME globals \in Seq(Definition), NEW b, Good(b, globals), b.inited, Traced(b, globals),
           NEW s, s = RefreshAssertions(b)
    PROVE  Traced(s, globals) /\ Frames(s) = Frames(b) /\ s.userLevels = b.userLevels
<1>1. Loaded(b, globals) /\ Standing(b) /\ (Retracts(b) => Plain(b, Top(b)))
  BY Zenon DEF Traced
<1>2. /\ Loaded(s, globals) /\ Standing(s) /\ Frames(s) = Frames(b) /\ Top(s) = Top(b)
      /\ UserLevel(s) = UserLevel(b) /\ s.userLevels = b.userLevels /\ Typed(s)
      /\ (Plain(b, Top(b)) => Plain(s, Top(b))) /\ (Retracts(s) <=> Retracts(b))
  BY <1>1, RefreshTraced
<1> QED
  BY <1>1, <1>2, Zenon DEF Traced

\* Recording an answer changes nothing that shows.
LEMMA RecordedTraced ==
    ASSUME NEW g, NEW e, NEW m, NEW r, Recorded(e, r, m), Traced(e, g)
    PROVE  Traced(r, g) /\ Frames(r) = Frames(e)
<1>1. Looks(e, r) /\ r.userLevels = e.userLevels
  BY Zenon DEF Recorded, Looks, SameFlags
<1>2. Retracts(r) => Retracts(e)
  BY Zenon DEF Recorded, Retracts
<1> QED
  BY <1>1, <1>2, LooksTraced, Zenon

\* GetTimeoutCore is a step of the stack, or leaves it as it is.
LEMMA GetTimeoutCoreMapped ==
    ASSUME IInv, run = "on", Abstracted, NEW r \in Answers, GetTimeoutCore(r)
    PROVE  Abstracted' /\ Mapped
<1>1. PICK b : b = BeginCall(eng)
  OBVIOUS
<1>2. PICK s : s = RefreshAssertions(b)
  OBVIOUS
<1>3. PICK yes \in BOOLEAN : yes = TRUE
  BY Zenon
<1>4. PICK z : z = RecordAnswer(s, r, yes)
  OBVIOUS
<1>5. eng' = z /\ globals' = globals /\ run' = run /\ asked' = asked
  BY <1>1, <1>2, <1>3, <1>4, Zenon DEF GetTimeoutCore
<1>6. Good(b, globals) /\ b.inited /\ globals \in Seq(Definition)
  BY <1>1, Beginning
<1>7. Traced(b, globals) /\ Frames(b) = Frames(eng)
  BY <1>1, BeginningTraced
<1>8. Traced(s, globals) /\ Frames(s) = Frames(b) /\ s.userLevels = b.userLevels
  BY <1>2, <1>6, <1>7, RefreshedTraced
<1>9. Good(s, globals)
  BY <1>2, <1>6, RefreshGood
<1>10. Recorded(s, z, r)
  <2>1. r \in SmtMode
    BY Modes
  <2>2. Good(z, globals) /\ Recorded(s, z, r) /\ z.statusSolver = yes /\ z.queryMade
    BY <1>4, <1>6, <1>9, <2>1, RecordAnswerGood
  <2> QED
    BY <2>2
<1>11. Traced(z, globals) /\ Frames(z) = Frames(s)
  BY <1>8, <1>10, RecordedTraced
<1>12. run # "gone" /\ run' # "gone"
  BY <1>5
<1> QED
  BY <1>5, <1>7, <1>8, <1>11, <1>12, Stays, TracedOn, Zenon

\* AbductionQuery is a step of the stack, or leaves it as it is.
LEMMA AbductionQueryMapped ==
    ASSUME IInv, run = "on", Abstracted, NEW m \in {"ABDUCT", "INTERPOL"},
           NEW isNext \in BOOLEAN, NEW success \in BOOLEAN, AbductionQuery(m, isNext, success)
    PROVE  Abstracted' /\ Mapped
<1>1. Good(eng, globals) /\ Exact(eng) /\ globals \in Seq(Definition)
  BY Begins, Zenon DEF Histories
<1>2. PICK c : c = Check(eng, "status solver", ~eng.statusSolver)
  OBVIOUS
<1>3. Good(c, globals) /\ Watched(eng, c)
  BY <1>1, <1>2, StatusSolverGood, Zenon
<1>4. Exact(c)
  BY <1>1, <1>3, WatchedKeeps, Zenon
<1>5. Frames(c) = Frames(eng) /\ (c.inited => Traced(c, globals))
  <2>1. /\ Looks(eng, c) /\ c.userLevels = eng.userLevels /\ c.inited = eng.inited
        /\ (Retracts(c) => Retracts(eng))
    BY <1>3, Zenon DEF Watched, Looks, SameSat, SameFlags, Rest, Retracts
  <2>2. eng.inited => Traced(eng, globals)
    BY Zenon DEF Abstracted
  <2> QED
    BY <2>1, <2>2, LooksTraced, Zenon
<1>6. PICK b : b = BeginCall(c)
  OBVIOUS
<1>7. Good(b, globals) /\ b.inited
  <2>1. Good(b, globals) /\ Begun(c, b, globals)
    BY <1>1, <1>3, <1>6, BeginCallGood
  <2> QED
    BY <2>1, Zenon DEF Begun
<1>8. Traced(b, globals) /\ Frames(b) = Frames(c)
  BY <1>1, <1>3, <1>4, <1>5, <1>6, BegunTraced
<1>9. PICK x : x = IF isNext THEN b ELSE RefreshAssertions(b)
  OBVIOUS
<1>10. Good(x, globals) /\ Traced(x, globals) /\ Frames(x) = Frames(b)
  <2>1. CASE isNext
    BY <1>7, <1>8, <1>9, <2>1, Zenon
  <2>2. CASE ~isNext
    <3>1. x = RefreshAssertions(b)
      BY <1>9, <2>2, Zenon
    <3>2. Good(x, globals)
      BY <1>1, <1>7, <3>1, RefreshGood
    <3>3. Traced(x, globals) /\ Frames(x) = Frames(b)
      BY <1>1, <1>7, <1>8, <3>1, RefreshedTraced
    <3> QED
      BY <3>2, <3>3
  <2> QED
    BY <2>1, <2>2, Zenon
<1>11. PICK z : z = NotifySynth(x, m, success)
  OBVIOUS
<1>12. PICK k : Recorded(x, z, k)
  <2>1. m \in Synths
    BY DEF Synths
  <2> QED
    BY <1>1, <1>10, <1>11, <2>1, NotifySynthGood
<1>13. Traced(z, globals) /\ Frames(z) = Frames(x)
  BY <1>10, <1>12, RecordedTraced
<1>14. /\ eng' = (IF isNext /\ b.mode # m THEN b ELSE z)
       /\ UNCHANGED <<globals, run, asked, answer>>
  BY <1>2, <1>6, <1>9, <1>11, Zenon DEF AbductionQuery
<1>15. Traced(eng', globals) /\ Frames(eng') = Frames(eng)
  BY <1>5, <1>8, <1>10, <1>13, <1>14, Zenon
<1>16. /\ globals' = globals /\ asked' = asked /\ run # "gone" /\ run' # "gone"
  BY <1>14
<1> QED
  BY <1>15, <1>16, Stays, TracedOn, Zenon

\* SygusQuery leaves the stack as it is.
LEMMA SygusQueryMapped ==
    ASSUME IInv, run = "on", Abstracted, NEW m \in {"SYNTH", "FIND_SYNTH"},
           NEW isNext \in BOOLEAN, NEW success \in BOOLEAN, SygusQuery(m, isNext, success)
    PROVE  Abstracted' /\ Mapped
<1>1. PICK b : b = BeginCall(eng)
  OBVIOUS
<1>2. Good(b, globals) /\ b.inited /\ globals \in Seq(Definition)
  BY <1>1, Beginning
<1>3. Traced(b, globals) /\ Frames(b) = Frames(eng)
  BY <1>1, BeginningTraced
<1>4. PICK c : c = RefreshDefinitions(b)
  OBVIOUS
<1>5. Good(c, globals) /\ Traced(c, globals) /\ Frames(c) = Frames(b)
  BY <1>2, <1>3, <1>4, RefreshDefinitionsTraced
<1>6. PICK x \in {b, c} : eng' \in {x, NotifySynth(x, m, success)}
  BY <1>1, <1>4, Zenon DEF SygusQuery
<1>7. globals' = globals /\ run' = run /\ asked' = asked
  BY DEF SygusQuery
<1>8. Good(x, globals) /\ Traced(x, globals) /\ Frames(x) = Frames(eng)
  BY <1>2, <1>3, <1>5, <1>6, Zenon
<1>9. PICK z : z = NotifySynth(x, m, success)
  OBVIOUS
<1>10. PICK k : Recorded(x, z, k)
  <2>1. m \in Synths
    BY DEF Synths
  <2> QED
    BY <1>2, <1>8, <1>9, <2>1, NotifySynthGood
<1>11. Traced(z, globals) /\ Frames(z) = Frames(x)
  BY <1>8, <1>10, RecordedTraced
<1>12. Traced(eng', globals) /\ Frames(eng') = Frames(eng)
  BY <1>6, <1>8, <1>9, <1>11, Zenon
<1>13. run # "gone" /\ run' # "gone"
  BY <1>7
<1> QED
  BY <1>7, <1>12, <1>13, Stays, TracedOn, Zenon

(***************************************************************************)
(* A check starts: the assumptions come above the user's scopes.           *)
(***************************************************************************)
LEMMA AssumptionNames ==
    ASSUME NEW a \in Assumptions
    PROVE  /\ ToSet(a) \subseteq Assumption /\ (a = <<>> => ToSet(a) = {})
           /\ ToSet(a) \intersect Formula = {} /\ ToSet(a) \intersect Definition = {}
<1>1. ToSet(<<>>) = {}
  BY DEF ToSet
<1>2. ToSet(a) \subseteq Assumption
  <2>1. CASE a = <<>>
    BY <1>1, <2>1, Zenon
  <2>2. CASE a # <<>>
    <3>1. PICK x \in Assumption : a = <<x>>
      BY <2>2, Zenon DEF Assumptions
    <3>2. ToSet(<<x>>) = {x}
      BY SingletonIs, Zenon
    <3> QED
      BY <3>1, <3>2, Zenon
  <2> QED
    BY <2>1, <2>2, Zenon
<1>3. a = <<>> => ToSet(a) = {}
  BY <1>1, Zenon
<1>4. ToSet(a) \intersect Formula = {} /\ ToSet(a) \intersect Definition = {}
  BY <1>2, NamesAssumption
<1> QED
  BY <1>2, <1>3, <1>4, Zenon

\* The scope of the assumptions shows what is below it.
Scoped(b, x, a) ==
    /\ Good(x, globals) /\ x.inited /\ x.userLevels = b.userLevels
    /\ Loaded(x, globals)
    /\ UserLevel(x) = UserLevel(b) \/ UserLevel(x) = UserLevel(b) + 1
    /\ b.incremental /\ a # <<>> => UserLevel(x) = UserLevel(b) + 1
    /\ \A i \in 0..UserLevel(b) : View(x, i) = View(b, i)
    /\ View(x, UserLevel(x)) = View(b, UserLevel(b))
    /\ Plain(b, UserLevel(b)) => Plain(x, UserLevel(x))

\* The scope of the assumptions of a check.
LEMMA AssumptionScope ==
    ASSUME globals \in Seq(Definition), NEW b, Good(b, globals), b.inited, Quiet(b),
           Loaded(b, globals), NEW a, NEW x, x = IF a = <<>> THEN b ELSE InternalPush(b)
    PROVE  Scoped(b, x, a)
<1>1. Kept(b) /\ UserLevel(b) \in Nat
  BY TypedParts, UserLevelIs DEF Good
<1>2. UserLevel(b) \in 0..UserLevel(b)
  BY ONLY <1>1
<1>3. CASE a = <<>>
  <2>1. x = b
    BY <1>3, Zenon
  <2> QED
    BY <1>3, <2>1, Zenon DEF Scoped
<1>4. CASE a # <<>>
  <2>1. x = InternalPush(b)
    BY <1>4, Zenon
  <2>2. Good(x, globals) /\ x.inited /\ x.userLevels = b.userLevels
    BY <2>1, InternalPushGood
  <2>3. CASE b.incremental
    <3>1. /\ UserLevel(x) = UserLevel(b) + 1 /\ x.userLevels = b.userLevels
          /\ Loaded(x, globals)
          /\ \A i \in 0..UserLevel(b) : View(x, i) = View(b, i)
          /\ View(x, UserLevel(b) + 1) = View(b, UserLevel(b))
          /\ Plain(b, UserLevel(b)) => Plain(x, UserLevel(b) + 1)
      BY <2>1, <2>3, InternalPushShows
    <3> QED
      BY <2>2, <3>1, Zenon DEF Scoped
  <2>4. CASE ~b.incremental
    <3>1. x = DoPendingPops(b)
      BY <2>1, <2>4, Zenon DEF InternalPush
    <3>2. Below(b, x, UserLevel(b) - b.pendingPops, globals)
      BY <3>1, DoPendingPopsBelow
    <3>3. b.pendingPops = 0 /\ UserLevel(b) - 0 = UserLevel(b)
      <4>1. b.pendingPops = 0
        BY Zenon DEF Quiet
      <4> QED
        BY ONLY <1>1, <4>1
    <3>4. Below(b, x, UserLevel(b), globals)
      BY <3>2, <3>3, Zenon
    <3>5. /\ UserLevel(x) = UserLevel(b) /\ Loaded(x, globals)
          /\ \A i \in 0..UserLevel(b) : At(x, i) = At(b, i) /\ View(x, i) = View(b, i)
      BY <3>4, BelowIs, Zenon
    <3>6. Plain(b, UserLevel(b)) => Plain(x, UserLevel(x))
      BY <3>5, Zenon DEF Plain
    <3> QED
      BY <1>2, <2>2, <2>4, <3>5, <3>6, Zenon DEF Scoped
  <2> QED
    BY <2>3, <2>4, Zenon
<1> QED
  BY <1>3, <1>4, Zenon

\* A check or a quantifier elimination is about to take its assumptions.
Posing(b) ==
    /\ Opening(eng, b, globals) /\ Traced(b, globals)
    /\ Top(b) = UserLevel(b) /\ Frames(b) = Frames(eng)

\* With them it still shows the user's stack, and no assumption is in a list of the
\* user when they have a scope of their own.
Posed(s) == Traced(s, globals) /\ Frames(s) = Frames(eng)

\* The assumptions come above the user's scopes.
LEMMA AssumePosed ==
    ASSUME globals \in Seq(Definition), Good(eng, globals), NEW a \in Assumptions,
           Room(eng, Len(a)), NEW b, Posing(b), NEW s, s = Assume(b, a)
    PROVE  Posed(s)
<1>1. /\ Opening(eng, b, globals) /\ Traced(b, globals)
      /\ Top(b) = UserLevel(b) /\ Frames(b) = Frames(eng)
  BY Zenon DEF Posing
<1>2. Good(b, globals) /\ b.inited /\ Quiet(b) /\ Rest(eng, b)
  BY <1>1, Zenon DEF Opening
<1>3. Loaded(b, globals) /\ Standing(b) /\ (Retracts(b) => Plain(b, Top(b)))
  BY <1>1, Zenon DEF Traced
<1>4. Typed(b)
  BY <1>2, Zenon DEF Good
<1>5. PICK n : n = UserLevel(b) /\ n \in Nat
  BY <1>4, TypedParts, UserLevelIs
<1>6. Top(b) = n
  BY <1>1, <1>5
<1>7. PICK x : x = IF a = <<>> THEN b ELSE InternalPush(b)
  OBVIOUS
<1>8. /\ Good(x, globals) /\ x.inited /\ x.userLevels = b.userLevels
      /\ Loaded(x, globals)
      /\ UserLevel(x) = n \/ UserLevel(x) = n + 1
      /\ b.incremental /\ a # <<>> => UserLevel(x) = n + 1
      /\ \A i \in 0..n : View(x, i) = View(b, i)
      /\ View(x, UserLevel(x)) = View(b, n)
      /\ Plain(b, n) => Plain(x, UserLevel(x))
  <2>1. globals \in Seq(Definition)
    OBVIOUS
  <2>2. Scoped(b, x, a)
    BY ONLY <1>2, <1>3, <1>7, <2>1, AssumptionScope
  <2> QED
    BY <1>5, <2>2, Zenon DEF Scoped
<1>9. s = AddFormulas(x, a)
  BY <1>7, Zenon DEF Assume
<1>10. /\ ToSet(a) \subseteq Assumption /\ (a = <<>> => ToSet(a) = {})
       /\ ToSet(a) \intersect Formula = {} /\ ToSet(a) \intersect Definition = {}
  BY AssumptionNames
<1>11. a \in Seq(AnyFormula)
  BY AssumptionsAreFormulas
<1>12. Extended(x, s, a, globals)
  BY <1>8, <1>9, <1>10, <1>11, AddFormulasExtended
<1>13. Good(s, globals) /\ Rest(eng, s)
  <2>1. Ready(eng, s, a, globals)
    BY <1>1, AssumeReady
  <2> QED
    BY <2>1, Zenon DEF Ready
<1>14. Typed(s) /\ Typed(x)
  BY <1>8, <1>13, Zenon DEF Good
<1>15. Kept(x) /\ Kept(s)
  BY <1>14, TypedParts
<1>16. /\ UserLevel(s) = UserLevel(x) /\ s.userLevels = b.userLevels /\ Loaded(s, globals)
       /\ s.cur.list = Joined(x.cur.list, a)
  BY <1>8, <1>12, Zenon DEF Extended
<1>17. /\ \A i \in 0..UserLevel(x) : View(s, i) = View(x, i)
       /\ \A m \in 0..UserLevel(x) :
              Plain(x, m) /\ (m < UserLevel(x) \/ ToSet(a) \intersect Assumption = {})
                  => Plain(s, m)
  <2>1. /\ ToSet(a) \intersect Formula = {} =>
                \A i \in 0..UserLevel(x) : View(s, i) = View(x, i)
        /\ \A m \in 0..UserLevel(x) :
               Plain(x, m) /\ (m < UserLevel(x) \/ ToSet(a) \intersect Assumption = {})
                   => Plain(s, m)
    BY ONLY <1>12, <1>15, ExtendedViews
  <2> QED
    BY <1>10, <2>1, Zenon
<1>18. PICK u : u = UserLevel(x) /\ u \in Nat
  BY <1>15, UserLevelIs
<1>19. /\ n \in 0..u /\ u \in 0..u /\ n <= u /\ n \in 0..n /\ (u = n + 1 => n < u)
       /\ \A i \in 0..n : i \in 0..u
  BY ONLY <1>5, <1>8, <1>18
<1>20. Top(s) = n /\ UserLevel(s) = u
  BY <1>6, <1>16, <1>18, Zenon DEF Top
<1>21. View(s, u) = View(b, n) /\ View(s, n) = View(b, n)
  BY <1>8, <1>17, <1>18, <1>19, Zenon
<1>22. Standing(s)
  BY <1>3, <1>16, <1>19, <1>20, <1>21, Zenon DEF Standing
<1>23. Frames(s) = Frames(b)
  <2>1. \A i \in 1..n : i \in 0..n
    BY ONLY <1>5
  <2>2. \A i \in 1..n : View(s, i) = View(b, i)
    BY <1>8, <1>17, <1>18, <1>19, <2>1, Zenon
  <2>3. \A i \in 1..Top(b) : View(s, i) = View(b, i)
    BY <1>6, <2>2, Zenon
  <2>4. Standing(b) /\ s.userLevels = b.userLevels
    BY <1>3, <1>16, Zenon
  <2> QED
    BY ONLY <1>4, <1>14, <1>22, <2>3, <2>4, FramesSame
<1>24. ASSUME Retracts(s)
       PROVE  Plain(s, n)
  <2>1. b.incremental
    BY <1>2, <1>13, <1>24, Zenon DEF Rest, Retracts
  <2>2. Plain(x, u)
    BY <1>3, <1>6, <1>8, <1>18, <2>1, Zenon DEF Retracts
  <2>3. Plain(x, n)
    BY <1>19, <2>2, Zenon DEF Plain
  <2>4. n < u \/ ToSet(a) \intersect Assumption = {}
    <3>1. CASE a = <<>>
      <4>1. {} \intersect Assumption = {}
        OBVIOUS
      <4> QED
        BY <1>10, <3>1, <4>1, Zenon
    <3>2. CASE a # <<>>
      BY <1>8, <1>18, <1>19, <2>1, <3>2, Zenon
    <3> QED
      BY <3>1, <3>2, Zenon
  <2> QED
    BY <1>17, <1>18, <1>19, <2>3, <2>4, Zenon
<1>25. Traced(s, globals)
  BY <1>16, <1>20, <1>22, <1>24, Zenon DEF Traced
<1> QED
  BY <1>1, <1>23, <1>25, Zenon DEF Posed

\* The contexts of a check that starts.
LEMMA StartCheckPosed ==
    ASSUME IInv, run = "on", Abstracted, NEW a \in Assumptions, Room(eng, Len(a)),
           NEW s, s = StartCheck(a)
    PROVE  Posed(s)
<1>1. Good(eng, globals) /\ globals \in Seq(Definition)
  BY Begins, Zenon DEF Histories
<1>2. PICK c : c = BeginCall(eng)
  OBVIOUS
<1>3. PICK b : b = InMode(c, "ASSERT")
  OBVIOUS
<1>4. /\ Opening(eng, b, globals) /\ Good(c, globals) /\ OnlyMode(c, b, "ASSERT")
  BY <1>1, <1>2, <1>3, CheckBegun
<1>5. /\ Traced(c, globals) /\ Top(c) = UserLevel(c) /\ Frames(c) = Frames(eng) /\ Typed(c)
  BY <1>2, BeginningTraced
<1>6. Looks(c, b) /\ b.userLevels = c.userLevels
  <2>1. Shape(c)
    BY <1>5, TypedParts
  <2> QED
    BY <1>3, <2>1, InModeLooks, Zenon
<1>7. Retracts(b) => Retracts(c)
  BY <1>4, Zenon DEF OnlyMode, Rest, Retracts
<1>8. Traced(b, globals) /\ Frames(b) = Frames(c)
  BY <1>5, <1>6, <1>7, LooksTraced, Zenon
<1>9. Top(b) = UserLevel(b)
  BY <1>5, <1>6, LooksSame, Zenon DEF Top
<1>10. Posing(b)
  BY <1>4, <1>5, <1>8, <1>9, Zenon DEF Posing
<1>11. s = Assume(b, a)
  BY <1>2, <1>3, Zenon DEF StartCheck, InMode
<1> QED
  BY <1>1, <1>10, <1>11, AssumePosed

\* The contexts of a quantifier elimination that starts.
LEMMA EliminationPosed ==
    ASSUME IInv, run = "on", Abstracted, NEW q \in Assumption, Room(eng, 1),
           NEW b, b = StartsElimination(eng), NEW s, s = StartElimination(q)
    PROVE  Posed(s) /\ Posing(b)
<1>1. Good(eng, globals) /\ Exact(eng) /\ globals \in Seq(Definition)
  BY Begins, Zenon DEF Histories
<1>2. Opening(eng, b, globals)
  BY <1>1, EliminationBegun
<1>3. PICK c : c = Check(eng, "status solver", ~eng.statusSolver)
  OBVIOUS
<1>4. Good(c, globals) /\ Watched(eng, c)
  BY <1>1, <1>3, StatusSolverGood, Zenon
<1>5. Exact(c)
  BY <1>1, <1>4, WatchedKeeps, Zenon
<1>6. Frames(c) = Frames(eng) /\ (c.inited => Traced(c, globals))
  <2>1. /\ Looks(eng, c) /\ c.userLevels = eng.userLevels /\ c.inited = eng.inited
        /\ (Retracts(c) => Retracts(eng))
    BY <1>4, Zenon DEF Watched, Looks, SameSat, SameFlags, Rest, Retracts
  <2>2. eng.inited => Traced(eng, globals)
    BY Zenon DEF Abstracted
  <2> QED
    BY <2>1, <2>2, LooksTraced, Zenon
<1>7. b = BeginCall(c)
  BY <1>3, Zenon DEF StartsElimination
<1>8. Traced(b, globals) /\ Top(b) = UserLevel(b) /\ Frames(b) = Frames(c)
  BY <1>1, <1>4, <1>5, <1>6, <1>7, BegunTraced
<1>9. Posing(b)
  BY <1>2, <1>6, <1>8, Zenon DEF Posing
<1>10. PICK a : a = <<q>>
  OBVIOUS
<1>11. a \in Assumptions /\ Room(eng, Len(a))
  BY <1>10, QueryAssumed, Zenon
<1>12. s = Assume(b, a)
  BY <1>10, Zenon DEF StartElimination, StartsElimination
<1>13. Posed(s)
  BY ONLY <1>1, <1>9, <1>11, <1>12, AssumePosed
<1> QED
  BY <1>9, <1>13

\* What is assumed, in the innermost list.
Assumed(e) == ToSet(e.cur.list) \intersect Assumption

\* What a search is about: the user's assertions in force, what is assumed and every
\* global definition, no more and no less.
LEMMA SearchPosed ==
    ASSUME globals \in Seq(Definition), NEW s, Good(s, globals), s.inited, Posed(s),
           NEW e, e = RefreshAssertions(s) \/ e = TellAll(s)
    PROVE  /\ Posed(e)
           /\ {c[1] : c \in e.clauses}
                  = ToSet(Last(Frames(eng))) \union Assumed(e) \union ToSet(globals)
<1>1. /\ Loaded(s, globals) /\ Standing(s) /\ Frames(s) = Frames(eng)
      /\ (Retracts(s) => Plain(s, Top(s)))
  BY Zenon DEF Posed, Traced
<1>2. Grown(s, e, globals) /\ Good(e, globals)
  BY RefreshGood, TellAllGood
<1>3. Typed(s) /\ Typed(e) /\ Rest(s, e) /\ Standing(s)
  BY <1>1, <1>2, Zenon DEF Good, Grown
<1>4. /\ \E fs : Extended(s, e, fs, globals) /\ ToSet(fs) \subseteq Definition
      /\ ToSet(globals) \subseteq ToSet(e.cur.list)
      /\ {c[1] : c \in e.clauses} = ToSet(e.cur.list)
  <2>1. CASE e = RefreshAssertions(s)
    BY <1>1, <2>1, RefreshExtended
  <2>2. CASE e = TellAll(s)
    BY <1>1, <2>2, TellAllExtended
  <2> QED
    BY <2>1, <2>2, Zenon
<1>5. PICK fs : Extended(s, e, fs, globals) /\ ToSet(fs) \subseteq Definition
  BY <1>4, Zenon
<1>6. /\ Loaded(e, globals) /\ Standing(e) /\ Frames(e) = Frames(s) /\ Top(e) = Top(s)
      /\ (Plain(s, Top(s)) => Plain(e, Top(s))) /\ (Retracts(e) <=> Retracts(s))
  BY ONLY <1>3, <1>5, DefinitionsTraced
<1>7. Posed(e)
  BY <1>1, <1>6, Zenon DEF Posed, Traced
<1>8. Kept(e)
  BY <1>3, TypedParts
<1>9. e.cur.list \in Seq(AnyFormula)
  BY <1>8 DEF Kept, Version
<1>10. PICK Q, A, G, V : /\ Q = ToSet(e.cur.list) /\ A = Assumed(e) /\ G = ToSet(globals)
                         /\ V = ToSet(Last(Frames(eng)))
  OBVIOUS
<1>11. V = Q \intersect Formula
  <2>1. Last(Frames(e)) = View(e, Top(e))
    BY <1>3, <1>6, InnermostFrame
  <2>2. View(e, Top(e)) = View(e, UserLevel(e))
    BY <1>6, Zenon DEF Standing
  <2>3. At(e, UserLevel(e)) = e.cur
    BY <1>8, AtIs, Zenon
  <2>4. ToSet(Asserted(e.cur.list)) = ToSet(e.cur.list) \intersect Formula
    BY <1>9, AssertedSet
  <2>5. Last(Frames(eng)) = Asserted(e.cur.list)
    BY <1>1, <1>6, <2>1, <2>2, <2>3, Zenon DEF View
  <2> QED
    BY <1>10, <2>4, <2>5, Zenon
<1>12. Q \subseteq AnyFormula /\ A = Q \intersect Assumption
  BY <1>9, <1>10, OfSet, Zenon DEF Assumed
<1>13. G \subseteq Q
  BY <1>4, <1>10, Zenon
<1>14. \A f \in Q : f \in Definition => f \in G
  <2>1. UserLevel(e) \in 0..UserLevel(e)
    <3>1. UserLevel(e) \in Nat
      BY <1>8, UserLevelIs
    <3> QED
      BY ONLY <3>1
  <2>2. At(e, UserLevel(e)) = e.cur
    BY <1>8, AtIs, Zenon
  <2>3. Known(e.cur, globals)
    BY <1>6, <2>1, <2>2, Zenon DEF Loaded, Sent
  <2> QED
    BY <1>10, <2>3, Zenon DEF Known
<1>15. Q = V \union A \union G
  BY ONLY <1>11, <1>12, <1>13, <1>14 DEF AnyFormula
<1> QED
  BY <1>4, <1>7, <1>10, <1>15, Zenon

\* The search ended or gave up: the stack is the same.
LEMMA LeftPosed ==
    ASSUME NEW e, Posed(e), NEW d, NEW n, NEW x, Left(e, x, d, n)
    PROVE  Posed(x)
<1>1. Looks(e, x) /\ x.userLevels = e.userLevels /\ (Retracts(x) => Retracts(e))
  BY Zenon DEF Left, Looks, Rest, Retracts
<1> QED
  BY <1>1, LooksTraced, Zenon DEF Posed

\* The abstract check.
LEMMA Checks ==
    ASSUME globals' = globals, NEW A \in SUBSET Assumption, run # "gone", run' # "gone",
           Frames(eng') = Frames(eng),
           asked' = ToSet(Last(Frames(eng))) \union A \union ToSet(globals)
    PROVE  Mapped
<1>1. Shown = Frames(eng) /\ Shown' = Frames(eng')
  BY ShownBefore, ShownAfter
<1>2. ToSet(globals)' = ToSet(globals)
  BY Zenon DEF ToSet
<1>3. asked' = ToSet(Last(Shown)) \union A \union ToSet(globals) /\ Shown' = Shown
  BY <1>1, Zenon
<1>4. Stack!Check(A)
  BY <1>2, <1>3, Zenon DEF Stack!Check, Stack!InForce, Last, Stack!Last, ToSet, Stack!ToSet
<1> QED
  BY <1>4, Zenon DEF Mapped, Stack!Next

\* A search is a check of the stack.
LEMMA SearchChecks ==
    ASSUME globals' = globals, run # "gone", run' # "gone", Frames(eng') = Frames(eng),
           NEW e, NEW s, s.clauses = e.clauses, asked' = {c[1] : c \in s.clauses},
           {c[1] : c \in e.clauses}
               = ToSet(Last(Frames(eng))) \union Assumed(e) \union ToSet(globals)
    PROVE  Mapped
<1>1. PICK A : A = Assumed(e)
  OBVIOUS
<1>2. A \in SUBSET Assumption
  BY <1>1 DEF Assumed
<1>3. asked' = ToSet(Last(Frames(eng))) \union A \union ToSet(globals)
  BY <1>1, Zenon
<1> QED
  BY <1>2, <1>3, Checks

\* CheckSat is a step of the stack, or leaves it as it is.
LEMMA CheckSatMapped ==
    ASSUME IInv, run = "on", Abstracted, NEW a \in Assumptions, NEW r \in Answers,
           NEW d \in 0..MaxDecisions, CheckSat(a, r, d)
    PROVE  Abstracted' /\ Mapped
<1>1. PICK b : b = StartCheck(a)
  OBVIOUS
<1>2. PICK e : e = RefreshAssertions(b)
  OBVIOUS
<1>3. PICK s : s = Solve(e, d)
  OBVIOUS
<1>4. PICK x : x = EndCheck(s, a)
  OBVIOUS
<1>5. PICK no \in BOOLEAN : no = FALSE
  BY Zenon
<1>6. PICK z : z = RecordAnswer(x, r, no)
  OBVIOUS
<1>7. /\ Room(eng, Len(a)) /\ eng' = z /\ asked' = {c[1] : c \in s.clauses}
      /\ globals' = globals /\ run' = run
  BY <1>1, <1>2, <1>3, <1>4, <1>5, <1>6, Zenon DEF CheckSat
<1>8. Good(b, globals) /\ b.inited /\ globals \in Seq(Definition)
  <2>1. Ready(eng, b, a, globals) /\ globals \in Seq(Definition)
    BY <1>1, <1>7, Checking
  <2> QED
    BY <2>1, Zenon DEF Ready
<1>9. Posed(b)
  BY <1>1, <1>7, StartCheckPosed
<1>10. /\ Ready(eng, e, a, globals) /\ Good(e, globals) /\ Quiet(e) /\ Searched(e, s, d)
  BY <1>1, <1>2, <1>3, <1>7, Searching
<1>11. /\ Posed(e)
       /\ {c[1] : c \in e.clauses}
              = ToSet(Last(Frames(eng))) \union Assumed(e) \union ToSet(globals)
  BY <1>2, <1>8, <1>9, SearchPosed
<1>12. Left(e, x, d, Opened(e, a))
  BY <1>4, <1>10, EndCheckLeft
<1>13. Posed(x)
  BY <1>11, <1>12, LeftPosed
<1>14. Recorded(x, z, r)
  <2>1. r \in SmtMode
    BY Modes
  <2>2. Good(x, globals) /\ Ended(e, x)
    BY <1>4, <1>8, <1>10, EndCheckGood
  <2>3. Good(z, globals) /\ Recorded(x, z, r) /\ z.statusSolver = no /\ z.queryMade
    BY <1>6, <1>8, <2>1, <2>2, RecordAnswerGood
  <2> QED
    BY <2>3
<1>15. Traced(z, globals) /\ Frames(z) = Frames(eng)
  BY <1>13, <1>14, RecordedTraced, Zenon DEF Posed
<1>16. s.clauses = e.clauses
  BY <1>10, Zenon DEF Searched
<1>17. run # "gone" /\ run' # "gone"
  BY <1>7
<1>18. Mapped
  BY <1>7, <1>11, <1>15, <1>16, <1>17, SearchChecks
<1> QED
  BY <1>7, <1>15, <1>18, TracedOn, Zenon

\* CheckSatOutOfResources is a step of the stack, or leaves it as it is.
LEMMA CheckSatOutOfResourcesMapped ==
    ASSUME IInv, run = "on", Abstracted, NEW a \in Assumptions, CheckSatOutOfResources(a)
    PROVE  Abstracted' /\ Mapped
<1>1. PICK e : e = StartCheck(a)
  OBVIOUS
<1>2. PICK x : x = EndCheck(e, a)
  OBVIOUS
<1>3. PICK no \in BOOLEAN : no = FALSE
  BY Zenon
<1>4. PICK m : m = "SAT_UNKNOWN"
  OBVIOUS
<1>5. PICK z : z = RecordAnswer(x, m, no)
  OBVIOUS
<1>6. /\ Room(eng, Len(a)) /\ eng' = z
      /\ globals' = globals /\ run' = run /\ asked' = asked
  BY <1>1, <1>2, <1>3, <1>4, <1>5, Zenon DEF CheckSatOutOfResources
<1>7. /\ Ready(eng, e, a, globals) /\ Good(e, globals) /\ Quiet(e)
      /\ globals \in Seq(Definition)
  BY <1>1, <1>6, Checking
<1>8. Searched(e, e, 0) /\ 0 \in 0..MaxDecisions
  BY <1>7, NoSearch, BoundsAssumption
<1>9. Left(e, x, 0, Opened(e, a))
  BY <1>2, <1>7, <1>8, EndCheckLeft
<1>10. Good(x, globals) /\ Ended(e, x)
  BY <1>2, <1>7, <1>8, EndCheckGood
<1>11. Recorded(x, z, m) /\ z.queryMade
  <2>1. m \in SmtMode
    BY <1>4, Modes, Zenon
  <2>2. Good(z, globals) /\ Recorded(x, z, m) /\ z.statusSolver = no /\ z.queryMade
    BY <1>5, <1>7, <1>10, <2>1, RecordAnswerGood
  <2> QED
    BY <2>2
<1>12. Posed(x)
  <2>1. Posed(e)
    BY <1>1, <1>6, StartCheckPosed
  <2> QED
    BY <1>9, <2>1, LeftPosed
<1>13. Traced(z, globals) /\ Frames(z) = Frames(eng)
  BY <1>11, <1>12, RecordedTraced, Zenon DEF Posed
<1>14. run # "gone" /\ run' # "gone"
  BY <1>6
<1> QED
  BY <1>6, <1>13, <1>14, Stays, TracedOn, Zenon

\* CheckSatThrows is a step of the stack, or leaves it as it is.
LEMMA CheckSatThrowsMapped ==
    ASSUME IInv, run = "on", Abstracted, NEW a \in Assumptions, NEW d \in 0..MaxDecisions,
           CheckSatThrows(a, d)
    PROVE  Abstracted' /\ Mapped
<1>1. PICK b : b = StartCheck(a)
  OBVIOUS
<1>2. PICK e : e = RefreshAssertions(b)
  OBVIOUS
<1>3. PICK s : s = Solve(e, d)
  OBVIOUS
<1>4. /\ Room(eng, Len(a)) /\ (eng' = ResetTrail(b) \/ eng' = ResetTrail(s))
      /\ run' = "thrown" /\ globals' = globals /\ asked' = asked
  BY <1>1, <1>2, <1>3 DEF CheckSatThrows
<1>5. /\ Ready(eng, b, a, globals) /\ Good(b, globals) /\ Quiet(b)
      /\ globals \in Seq(Definition)
  BY <1>1, <1>4, Checking
<1>6. /\ Good(e, globals) /\ Quiet(e) /\ Searched(e, s, d)
  BY <1>1, <1>2, <1>3, <1>4, Searching
<1>7. Posed(b) /\ b.inited
  BY <1>1, <1>4, <1>5, StartCheckPosed, Zenon DEF Ready
<1>8. Posed(e)
  BY <1>2, <1>5, <1>7, SearchPosed
<1>9. Posed(ResetTrail(b))
  <2>1. Searched(b, b, 0) /\ 0 \in 0..MaxDecisions
    BY <1>5, NoSearch, BoundsAssumption
  <2>2. Left(b, ResetTrail(b), 0, 0)
    BY <1>5, <2>1, ResetTrailLeft
  <2> QED
    BY <1>7, <2>2, LeftPosed
<1>10. Posed(ResetTrail(s))
  <2>1. Left(e, ResetTrail(s), 0, 0)
    BY <1>6, ResetTrailLeft
  <2> QED
    BY <1>8, <2>1, LeftPosed
<1>11. Frames(eng') = Frames(eng)
  BY <1>4, <1>9, <1>10, Zenon DEF Posed
<1>12. run # "gone" /\ run' # "gone" /\ run' # "on"
  BY <1>4
<1> QED
  BY <1>4, <1>11, <1>12, Stays, NotOn, Zenon

\* CheckSatWrongStatus is a step of the stack, or leaves it as it is.
LEMMA CheckSatWrongStatusMapped ==
    ASSUME IInv, run = "on", Abstracted, NEW a \in Assumptions, NEW d \in 0..MaxDecisions,
           CheckSatWrongStatus(a, d)
    PROVE  Abstracted' /\ Mapped
<1>1. PICK b : b = StartCheck(a)
  OBVIOUS
<1>2. PICK e : e = RefreshAssertions(b)
  OBVIOUS
<1>3. PICK s : s = Solve(e, d)
  OBVIOUS
<1>4. PICK x : x = EndCheck(s, a)
  OBVIOUS
<1>5. PICK q \in BOOLEAN : q = TRUE
  BY Zenon
<1>6. PICK z : z = [x EXCEPT !.queryMade = q]
  OBVIOUS
<1>7. /\ Room(eng, Len(a)) /\ eng' = z /\ run' = "thrown"
      /\ asked' = {c[1] : c \in s.clauses} /\ globals' = globals
  BY <1>1, <1>2, <1>3, <1>4, <1>5, <1>6, Zenon DEF CheckSatWrongStatus
<1>8. Good(b, globals) /\ b.inited /\ globals \in Seq(Definition)
  <2>1. Ready(eng, b, a, globals) /\ globals \in Seq(Definition)
    BY <1>1, <1>7, Checking
  <2> QED
    BY <2>1, Zenon DEF Ready
<1>9. Posed(b)
  BY <1>1, <1>7, StartCheckPosed
<1>10. /\ Ready(eng, e, a, globals) /\ Good(e, globals) /\ Quiet(e) /\ Searched(e, s, d)
  BY <1>1, <1>2, <1>3, <1>7, Searching
<1>11. /\ Posed(e)
       /\ {c[1] : c \in e.clauses}
              = ToSet(Last(Frames(eng))) \union Assumed(e) \union ToSet(globals)
  BY <1>2, <1>8, <1>9, SearchPosed
<1>12. Left(e, x, d, Opened(e, a))
  BY <1>4, <1>10, EndCheckLeft
<1>13. Posed(x)
  BY <1>11, <1>12, LeftPosed
<1>14. Looks(x, z) /\ z.userLevels = x.userLevels
  <2>1. Good(x, globals)
    BY <1>4, <1>8, <1>10, EndCheckGood
  <2>2. Shape(x)
    BY <2>1, TypedParts, Zenon DEF Good
  <2> QED
    BY ONLY <1>6, <2>2 DEF Shape, Fields, Looks, SameUser
<1>15. Frames(eng') = Frames(eng)
  <2>1. Frames(z) = Frames(x)
    BY <1>14, LooksTraced
  <2> QED
    BY <1>7, <1>13, <2>1, Zenon DEF Posed
<1>16. s.clauses = e.clauses
  BY <1>10, Zenon DEF Searched
<1>17. run # "gone" /\ run' # "gone" /\ run' # "on"
  BY <1>7
<1>18. Mapped
  BY <1>7, <1>11, <1>15, <1>16, <1>17, SearchChecks
<1> QED
  BY <1>17, <1>18, NotOn, Zenon

\* EliminateQuantifiers is a check of the stack.
LEMMA EliminateQuantifiersMapped ==
    ASSUME IInv, run = "on", Abstracted, NEW q \in Assumption, NEW d \in 0..MaxDecisions,
           EliminateQuantifiers(q, d)
    PROVE  Abstracted' /\ Mapped
<1>1. PICK b : b = StartElimination(q)
  OBVIOUS
<1>2. PICK e : e = TellAll(b)
  OBVIOUS
<1>3. PICK s : s = Solve(e, d)
  OBVIOUS
<1>4. PICK a : a = <<q>>
  OBVIOUS
<1>5. PICK x : x = EndCheck(s, a)
  OBVIOUS
<1>6. /\ Room(eng, 1) /\ eng' = x /\ asked' = {c[1] : c \in s.clauses}
      /\ globals' = globals /\ run' = run
  BY <1>1, <1>2, <1>3, <1>4, <1>5, Zenon DEF EliminateQuantifiers, TellAll
<1>7. Good(b, globals) /\ b.inited /\ globals \in Seq(Definition)
  BY <1>1, <1>4, <1>6, Eliminating
<1>8. Posed(b)
  BY <1>1, <1>6, EliminationPosed
<1>9. Good(e, globals) /\ Quiet(e) /\ Searched(e, s, d)
  BY <1>1, <1>2, <1>3, <1>4, <1>6, EliminationSearching
<1>10. /\ Posed(e)
       /\ {c[1] : c \in e.clauses}
              = ToSet(Last(Frames(eng))) \union Assumed(e) \union ToSet(globals)
  BY <1>2, <1>7, <1>8, SearchPosed
<1>11. Posed(x)
  <2>1. Left(e, x, d, Opened(e, a))
    BY <1>5, <1>9, EndCheckLeft
  <2> QED
    BY <1>10, <2>1, LeftPosed
<1>12. Traced(eng', globals') /\ Frames(eng') = Frames(eng)
  BY <1>6, <1>11, Zenon DEF Posed
<1>13. s.clauses = e.clauses
  BY <1>9, Zenon DEF Searched
<1>14. run # "gone" /\ run' # "gone"
  BY <1>6
<1>15. Mapped
  BY <1>6, <1>10, <1>12, <1>13, <1>14, SearchChecks
<1> QED
  BY <1>12, <1>15, TracedOn, Zenon

\* EliminationOutOfResources leaves the stack as it is.
LEMMA EliminationOutOfResourcesMapped ==
    ASSUME IInv, run = "on", Abstracted, NEW q \in Assumption, EliminationOutOfResources(q)
    PROVE  Abstracted' /\ Mapped
<1>1. PICK b : b = StartElimination(q)
  OBVIOUS
<1>2. PICK a : a = <<q>>
  OBVIOUS
<1>3. /\ Room(eng, 1) /\ eng' = EndCheck(b, a)
      /\ globals' = globals /\ run' = run /\ asked' = asked
  BY <1>1, <1>2, Zenon DEF EliminationOutOfResources
<1>4. Good(b, globals) /\ Quiet(b)
  BY <1>1, <1>2, <1>3, Eliminating
<1>5. Searched(b, b, 0)
  BY <1>4, NoSearch
<1>6. Left(b, eng', 0, Opened(b, a))
  BY <1>3, <1>4, <1>5, EndCheckLeft
<1>7. Posed(b)
  BY <1>1, <1>3, EliminationPosed
<1>8. Posed(eng')
  BY <1>6, <1>7, LeftPosed
<1>9. Traced(eng', globals') /\ Frames(eng') = Frames(eng)
  BY <1>3, <1>8, Zenon DEF Posed
<1>10. run # "gone" /\ run' # "gone"
  BY <1>3
<1> QED
  BY <1>3, <1>9, <1>10, Stays, TracedOn, Zenon

\* EliminationThrows leaves the stack as it is.
LEMMA EliminationThrowsMapped ==
    ASSUME IInv, run = "on", Abstracted, NEW q \in Assumption, NEW d \in 0..MaxDecisions,
           EliminationThrows(q, d)
    PROVE  Abstracted' /\ Mapped
<1>1. PICK o : o = StartsElimination(eng)
  OBVIOUS
<1>2. PICK b : b = StartElimination(q)
  OBVIOUS
<1>3. PICK e : e = TellAll(b)
  OBVIOUS
<1>4. PICK s : s = Solve(e, d)
  OBVIOUS
<1>5. PICK a : a = <<q>>
  OBVIOUS
<1>6. /\ Room(eng, 1) /\ eng' \in {o, ResetTrail(b), ResetTrail(s)}
      /\ globals' = globals /\ run' = "thrown" /\ asked' = asked
  BY <1>1, <1>2, <1>3, <1>4, Zenon DEF EliminationThrows, StartsElimination, TellAll
<1>7. Good(b, globals) /\ b.inited /\ Quiet(b) /\ globals \in Seq(Definition)
  BY <1>2, <1>5, <1>6, Eliminating
<1>8. Posed(b) /\ Posing(o)
  BY <1>1, <1>2, <1>6, EliminationPosed
<1>9. Good(e, globals) /\ Quiet(e) /\ Searched(e, s, d)
  BY <1>2, <1>3, <1>4, <1>5, <1>6, EliminationSearching
<1>10. Posed(e)
  BY <1>3, <1>7, <1>8, SearchPosed
<1>11. Posed(ResetTrail(b))
  <2>1. Searched(b, b, 0) /\ 0 \in 0..MaxDecisions
    BY <1>7, NoSearch, BoundsAssumption
  <2>2. Left(b, ResetTrail(b), 0, 0)
    BY <1>7, <2>1, ResetTrailLeft
  <2> QED
    BY <1>8, <2>2, LeftPosed
<1>12. Posed(ResetTrail(s))
  <2>1. Left(e, ResetTrail(s), 0, 0)
    BY <1>9, ResetTrailLeft
  <2> QED
    BY <1>10, <2>1, LeftPosed
<1>13. Frames(eng') = Frames(eng)
  BY <1>6, <1>8, <1>11, <1>12, Zenon DEF Posed, Posing
<1>14. run # "gone" /\ run' # "gone" /\ run' # "on"
  BY <1>6
<1> QED
  BY <1>6, <1>13, <1>14, Stays, NotOn, Zenon

\* A new engine is an empty stack.
LEMMA StartsMapped ==
    ASSUME Init
    PROVE  Abstracted /\ Stack!Init
<1>1. IInv /\ ~eng.inited
  BY Starts
<1>2. run = "on" /\ globals = <<>> /\ asked = {}
  BY Zenon DEF Init
<1>3. eng.cur = Blank /\ eng.userLevels = <<>>
  BY <1>1, <1>2, Begins, Zenon DEF Good, Unused, Exact
<1>4. Frames(eng) = << <<>> >>
  BY <1>3, FramesBlank
<1>5. Shown = << <<>> >>
  <2>1. run # "gone"
    BY <1>2
  <2> QED
    BY <1>4, <2>1, ShownBefore, Zenon
<1>6. ToSet(globals) = {}
  BY <1>2 DEF ToSet
<1>7. Abstracted
  BY <1>1, Zenon DEF Abstracted
<1> QED
  BY <1>2, <1>5, <1>6, <1>7, Zenon DEF Stack!Init

\* Every command is a step of the stack.
LEMMA CommandMapped ==
    ASSUME IInv, run = "on", Abstracted, Command
    PROVE  Abstracted' /\ Mapped
<1>1. ASSUME \/ Declare \/ Simplify \/ Push \/ Pop \/ ResetAssertions \/ CheckSatAgain
             \/ GetAssertions
      PROVE  Abstracted' /\ Mapped
  BY <1>1, DeclareMapped, SimplifyMapped, PushMapped, PopMapped, ResetAssertionsMapped,
     CheckSatAgainMapped, GetAssertionsMapped, Zenon
<1>2. ASSUME NEW f \in Formula, AssertFormula(f) \/ BlockModel(f)
      PROVE  Abstracted' /\ Mapped
  BY <1>2, AssertFormulaMapped, BlockModelMapped, Zenon
<1>3. ASSUME NEW d \in Definition, DefineGlobal(d)
      PROVE  Abstracted' /\ Mapped
  BY <1>3, DefineGlobalMapped, Zenon
<1>4. ASSUME NEW a \in Assumptions, NEW d \in 0..MaxDecisions, NEW r \in Answers,
             CheckSat(a, r, d)
      PROVE  Abstracted' /\ Mapped
  BY <1>4, CheckSatMapped, Zenon
<1>5. ASSUME NEW a \in Assumptions, NEW d \in 0..MaxDecisions,
             CheckSatThrows(a, d) \/ CheckSatWrongStatus(a, d)
      PROVE  Abstracted' /\ Mapped
  BY <1>5, CheckSatThrowsMapped, CheckSatWrongStatusMapped, Zenon
<1>6. ASSUME NEW a \in Assumptions, CheckSatOutOfResources(a)
      PROVE  Abstracted' /\ Mapped
  BY <1>6, CheckSatOutOfResourcesMapped, Zenon
<1>7. ASSUME NEW r \in Answers, GetTimeoutCore(r)
      PROVE  Abstracted' /\ Mapped
  BY <1>7, GetTimeoutCoreMapped, Zenon
<1>8. ASSUME NEW isNext \in BOOLEAN, NEW success \in BOOLEAN,
             NEW m \in Queries \intersect {"ABDUCT", "INTERPOL"}, AbductionQuery(m, isNext, success)
      PROVE  Abstracted' /\ Mapped
  BY <1>8, AbductionQueryMapped, Zenon
<1>9. ASSUME NEW isNext \in BOOLEAN, NEW success \in BOOLEAN,
             NEW m \in Queries \intersect {"SYNTH", "FIND_SYNTH"}, SygusQuery(m, isNext, success)
      PROVE  Abstracted' /\ Mapped
  BY <1>9, SygusQueryMapped, Zenon
<1>10. ASSUME NEW q \in Assumption, EliminationOutOfResources(q)
       PROVE  Abstracted' /\ Mapped
  BY <1>10, EliminationOutOfResourcesMapped, Zenon
<1>11. ASSUME NEW q \in Assumption, NEW d \in 0..MaxDecisions,
              EliminateQuantifiers(q, d) \/ EliminationThrows(q, d)
       PROVE  Abstracted' /\ Mapped
  BY <1>11, EliminateQuantifiersMapped, EliminationThrowsMapped, Zenon
<1> QED
  BY <1>1, <1>2, <1>3, <1>4, <1>5, <1>6, <1>7, <1>8, <1>9, <1>10, <1>11, Zenon DEF Command

\* Every step is a step of the stack or leaves it as it is.
LEMMA StepsMapped ==
    ASSUME IInv, Abstracted, [Next]_vars
    PROVE  Abstracted' /\ Mapped
<1>1. CASE run = "on" /\ Command
  BY <1>1, CommandMapped, Zenon
<1>2. CASE run \in {"on", "thrown"} /\ Destroy
  BY <1>2, DestroyMapped, Zenon
<1>3. CASE UNCHANGED vars
  <2>1. eng' = eng /\ globals' = globals /\ run' = run /\ asked' = asked
    BY <1>3 DEF vars
  <2>2. eng'.inited => run # "on" \/ Traced(eng', globals')
    BY <2>1, Zenon DEF Abstracted
  <2>3. Abstracted'
    <3>1. CASE run = "on"
      BY <2>2, <3>1, TracedOn, Zenon
    <3>2. CASE run # "on"
      BY <2>1, <3>2, NotOn, Zenon
    <3> QED
      BY <3>1, <3>2, Zenon
  <2>4. Shown' = Shown
    <3>1. CASE run # "gone"
      BY <2>1, <3>1, ShownBefore, ShownAfter, Zenon
    <3>2. CASE run = "gone"
      BY <2>1, <3>2, Zenon DEF Shown
    <3> QED
      BY <3>1, <3>2, Zenon
  <2>5. ToSet(globals)' = ToSet(globals)
    BY <2>1, Zenon DEF ToSet
  <2> QED
    BY <2>1, <2>3, <2>4, <2>5, Zenon DEF Mapped, Stack!vars
<1> QED
  BY <1>1, <1>2, <1>3, Zenon DEF Next

-----------------------------------------------------------------------------
(* What the traces say of the scopes. *)

\* What was assumed is in no list that outlives the next call.
LEMMA LastingUnassumed ==
    ASSUME IInv, Abstracted, run = "on", eng.incremental, NEW v \in Lasting
    PROVE  Unassumed(v)
<1>1. Good(eng, globals) /\ Exact(eng)
  BY Begins
<1>2. Kept(eng)
  BY <1>1, TypedParts, Zenon DEF Good
<1>3. v \in ToSet(eng.saved) \/ (eng.pendingPops = 0 /\ v = eng.cur)
  BY DEF Lasting
<1>4. CASE ~eng.inited
  <2>1. eng.saved = <<>> /\ eng.cur = Blank
    BY <1>1, <1>4, Zenon DEF Good, Unused
  <2>2. ToSet(<<>>) = {}
    BY DEF ToSet
  <2>3. v = Blank
    BY <1>3, <2>1, <2>2, Zenon
  <2>4. Blank.list = <<>>
    BY DEF Blank
  <2>5. {} \intersect Assumption = {}
    OBVIOUS
  <2> QED
    BY <2>2, <2>3, <2>4, <2>5, Zenon DEF Unassumed
<1>5. CASE eng.inited
  <2>1. Plain(eng, Top(eng)) /\ Standing(eng)
    BY <1>5, Zenon DEF Abstracted, Traced, Retracts
  <2>2. PICK p : p = eng.pendingPops /\ p \in 0..1
    BY <1>1, <1>5, Zenon DEF Good, InStep
  <2>3. PICK t \in Nat : t = Top(eng) /\ t = Len(eng.userLevels) + 1 /\ Len(eng.userLevels) \in Nat
    BY <1>1, <2>1, TopIs, Zenon DEF Good
  <2>4. PICK u \in Nat : u = UserLevel(eng)
    BY <1>2, AtIs
  <2>5. u = t + p
    <3>1. u = 1 + Len(eng.userLevels) + p
      BY <1>1, <1>5, <2>2, <2>4, Zenon DEF Exact
    <3> QED
      BY ONLY <2>2, <2>3, <3>1
  <2>6. \A i \in 0..t : Unassumed(At(eng, i))
    BY <2>1, <2>3, Zenon DEF Plain
  <2>7. ASSUME v \in ToSet(eng.saved)
        PROVE  Unassumed(v)
    <3>1. PICK k \in 1..u : v = eng.saved[k]
      BY <2>4, <2>7 DEF ToSet, UserLevel
    <3>2. /\ k - 1 \in 0..t /\ k - 1 < u /\ (k - 1) + 1 = k
      BY ONLY <2>2, <2>5, t \in Nat, u \in Nat, k \in 1..u
    <3>3. At(eng, k - 1) = v
      BY <2>4, <3>1, <3>2, Zenon DEF At
    <3> QED
      BY <2>6, <3>2, <3>3, Zenon
  <2>8. ASSUME eng.pendingPops = 0, v = eng.cur
        PROVE  Unassumed(v)
    <3>1. u = t /\ t \in 0..t
      BY ONLY <2>2, <2>5, <2>8, t \in Nat
    <3>2. At(eng, u) = v
      BY <1>2, <2>4, <2>8, AtIs, Zenon
    <3> QED
      BY <2>6, <3>1, <3>2, Zenon
  <2> QED
    BY <1>3, <2>7, <2>8
<1> QED
  BY <1>4, <1>5

\* The invariant and the traces imply that the scopes are accounted for.
LEMMA ScopesFollow ==
    ASSUME IInv, Abstracted
    PROVE  ScopesAccounted
<1>1. TypeOK
  BY TypesFollow
<1>2. ASSUME run = "on", eng.inited
      PROVE  /\ UserLevel(eng) = 1 + Len(eng.userLevels) + eng.pendingPops
             /\ eng.assertionLevel = UserLevel(eng) - 1
             /\ eng.level = UserLevel(eng) + eng.decisions
             /\ \A i \in 1..Len(eng.userLevels) : eng.userLevels[i] = i
             /\ eng.decisions > 0 => eng.needPostsolve
  <2>1. Good(eng, globals) /\ Exact(eng)
    BY <1>2, Begins
  <2>2. InStep(eng) /\ eng.userLevels \in Seq(Nat)
    BY <1>2, <2>1, Zenon DEF Good, Typed
  <2>3. DOMAIN eng.userLevels = 1..Len(eng.userLevels)
    BY ONLY <2>2
  <2> QED
    BY <1>2, <2>1, <2>2, <2>3, Zenon DEF Exact, InStep
<1>3. ASSUME run = "on", eng.incremental
      PROVE  \A v \in Lasting : Unassumed(v)
  BY <1>3, LastingUnassumed, Zenon
<1>4. ASSUME run = "gone"
      PROVE  eng.level = 0 /\ eng.saved = <<>> /\ eng.cur.list = <<>>
  <2>1. Done(eng)
    BY <1>4, Zenon DEF IInv
  <2>2. Blank.list = <<>>
    BY DEF Blank
  <2> QED
    BY <2>1, <2>2, Zenon DEF Done
<1> QED
  BY <1>1, <1>2, <1>3, <1>4, Zenon DEF ScopesAccounted

\* Every value keeps its type, and between commands every open scope belongs to
\* the engine, to a user push or to a pop that is due, with the SAT context and
\* the SAT solver's assertion level in step; with incremental solving what was
\* assumed for a check or a quantifier elimination is in no list that outlives the
\* next command; a destroyed engine leaves no scope open.
THEOREM EveryScopeAccounted == Spec => []ScopesAccounted
<1>1. Init => Abstracted
  BY StartsMapped
<1>2. IInv /\ Abstracted /\ [Next]_vars => Abstracted'
  BY StepsMapped
<1>3. IInv /\ Abstracted => ScopesAccounted
  BY ScopesFollow
<1> QED
  BY <1>1, <1>2, <1>3, Inductive, PTL DEF Spec

\* The engine is the assertion stack of SMT-LIB: whatever scopes it still has to
\* pop, however late a list reaches the SAT solver, the user sees one list for each
\* open scope, and a search asks about the innermost list, what is assumed and every
\* global definition.
THEOREM Refinement == Spec => ImplementsStack
<1>1. Init => Abstracted /\ Stack!Init
  BY StartsMapped
<1>2. IInv /\ Abstracted /\ [Next]_vars => Abstracted' /\ Mapped
  BY StepsMapped
<1>3. Spec => []IInv
  BY Inductive
<1> QED
  BY <1>1, <1>2, <1>3, PTL DEF Spec, ImplementsStack, Stack!Spec, Mapped
=============================================================================
