---------------------- MODULE CadicalPropagatorProofs ----------------------
(***************************************************************************)
(* The safety of CadicalPropagator for any number of variables, user       *)
(* levels, decisions and clauses: its Asserts hold (AssertsHold), the      *)
(* theories know what the propagator has recorded (TheoryInSync), pending  *)
(* propagations rest on what is known (PropagationsJustified), and what    *)
(* was passed over for a partial model is on the trail only as long as     *)
(* that model (PartialModelStands).  The second part is about what the     *)
(* clauses mean: they say what is asserted at the open levels and what the *)
(* theories added over the variables that are left (ClausesInForce).       *)
(***************************************************************************)
EXTENDS CadicalPropagatorInvariant, WellFoundedInduction, FiniteSetTheorems, SequenceTheorems, TLAPS

-----------------------------------------------------------------------------
(* Literals and sequences. *)

LEMMA AbsFacts ==
    /\ \A lit \in Int : /\ Abs(lit) \in Nat /\ Abs(-lit) = Abs(lit)
                        /\ lit = Abs(lit) \/ lit = -Abs(lit)
                        /\ -(-lit) = lit /\ -lit \in Int
    /\ \A v \in Nat : Abs(v) = v /\ Abs(-v) = v
  BY DEF Abs

LEMMA LastIs ==
    ASSUME NEW S, NEW q \in Seq(S), q # <<>>
    PROVE  Last(q) = q[Len(q)]
  BY DEF Last

LEMMA Ranges ==
    ASSUME NEW S, NEW q \in Seq(S)
    PROVE  DOMAIN q = 1..Len(q) /\ Len(q) \in Nat /\ \A i \in 1..Len(q) : q[i] \in S
  OBVIOUS

LEMMA Appending ==
    ASSUME NEW S, NEW q \in Seq(S), NEW e \in S, NEW r, r = Append(q, e)
    PROVE  /\ r \in Seq(S) /\ Len(r) = Len(q) + 1
           /\ \A i \in 1..Len(q) : r[i] = q[i]
           /\ r[Len(q) + 1] = e
  OBVIOUS

LEMMA KeptFacts ==
    ASSUME NEW S, NEW q \in Seq(S), NEW keep, NEW r, r = Kept(q, keep)
    PROVE  r \in Seq(S) /\ \E pos : Selected(q, keep, r, pos)
<1> DEFINE at == {i \in DOMAIN q : q[i] \in keep}
           upto(i) == {j \in at : j <= i}
           rank == [i \in at |-> Cardinality(upto(i))]
           n == Cardinality(at)
<1>1. at \subseteq 1..Len(q) /\ Len(q) \in Nat
  OBVIOUS
<1>2. IsFiniteSet(at) /\ n \in Nat
  <2>1. IsFiniteSet(1..Len(q))
    BY <1>1, FS_Interval
  <2>2. IsFiniteSet(at)
    BY <1>1, <2>1, FS_Subset
  <2> QED
    BY <2>2, FS_CardinalityType
<1>3. ASSUME NEW i \in at
      PROVE  /\ IsFiniteSet(upto(i)) /\ Cardinality(upto(i)) \in Nat
             /\ Cardinality(upto(i)) \in 1..n
  <2>1. upto(i) \in SUBSET at /\ i \in upto(i)
    BY <1>1
  <2>2. IsFiniteSet(upto(i)) /\ Cardinality(upto(i)) <= n
    BY <1>2, <2>1, FS_Subset
  <2>3. Cardinality(upto(i)) \in Nat /\ Cardinality(upto(i)) # 0
    BY <2>1, <2>2, FS_CardinalityType, FS_EmptySet
  <2> QED
    BY <1>2, <2>2, <2>3
<1>4. ASSUME NEW i \in at, NEW j \in at, i < j
      PROVE  Cardinality(upto(i)) # Cardinality(upto(j))
  <2>1. upto(i) \in SUBSET upto(j) /\ j \in upto(j) /\ j \notin upto(i)
    BY <1>1, <1>4
  <2>2. IsFiniteSet(upto(j))
    BY <1>3
  <2>3. upto(i) # upto(j)
    BY <2>1
  <2> HIDE DEF at
  <2> QED
    BY <2>1, <2>2, <2>3, FS_Subset
<1>5. rank \in Injection(at, 1..n)
  <2>1. rank \in [at -> 1..n]
    BY <1>3
  <2>2. ASSUME NEW i \in at, NEW j \in at, rank[i] = rank[j]
        PROVE  i = j
    <3>1. i \in Int /\ j \in Int
      BY <1>1
    <3>2. Cardinality(upto(i)) = Cardinality(upto(j))
      BY <2>2
    <3>3. ~(i < j) /\ ~(j < i)
      BY <1>4, <3>2
    <3> QED
      BY <3>1, <3>3
  <2> HIDE DEF rank
  <2> QED
    BY <2>1, <2>2 DEF Injection, IsInjective
<1>6. rank \in Surjection(at, 1..n)
  <2>1. IsFiniteSet(1..n) /\ Cardinality(1..n) = n
    BY <1>2, FS_Interval
  <2> HIDE DEF rank
  <2> QED
    BY <1>5, <2>1, FS_Injection
<1>7. \A k \in 1..n : \E i \in at : Cardinality(upto(i)) = k
  <2>1. \A k \in 1..n : \E i \in at : rank[i] = k
    BY <1>6 DEF Surjection
  <2> QED
    BY <2>1
<1> DEFINE pos == [k \in 1..n |-> CHOOSE i \in at : Cardinality(upto(i)) = k]
<1>8. ASSUME NEW k \in 1..n
      PROVE  pos[k] \in at /\ Cardinality(upto(pos[k])) = k
  BY <1>7
<1>9. r = [k \in 1..n |-> q[pos[k]]]
  <2>1. r = [k \in 1..n |-> q[CHOOSE i \in at : Cardinality(upto(i)) = k]]
    BY DEF Kept
  <2> QED
    BY <2>1
<1>10. \A i \in at : i \in 1..Len(q) /\ q[i] \in keep /\ q[i] \in S
  BY <1>1
<1>11. \A i \in 1..Len(q) : q[i] \in keep => i \in at
  BY <1>1
<1>12. \A i \in at : \E k \in 1..n : pos[k] = i
  <2> TAKE i \in at
  <2>1. Cardinality(upto(i)) \in 1..n
    BY <1>3
  <2> DEFINE k == Cardinality(upto(i))
  <2>2. pos[k] \in at /\ Cardinality(upto(pos[k])) = k
    BY <1>8, <2>1
  <2>3. pos[k] \in Int /\ i \in Int
    BY <1>1, <2>2
  <2>4. pos[k] = i
    <3>1. ~(i < pos[k]) /\ ~(pos[k] < i)
      BY <1>4, <2>2
    <3> QED
      BY <2>3, <3>1
  <2> QED
    BY <2>1, <2>4
<1>13. \A k, l \in 1..n : pos[k] = pos[l] => k = l
  BY <1>8
<1> HIDE DEF pos, at, n, rank, upto
<1>14. /\ \A k \in 1..n : pos[k] \in at
       /\ \A k \in 1..n : q[pos[k]] \in S
  BY <1>8, <1>10
<1>15. r \in Seq(S) /\ Len(r) = n /\ \A k \in 1..n : r[k] = q[pos[k]]
  BY <1>2, <1>9, <1>14
<1>16. Selected(q, keep, r, pos)
  BY <1>10, <1>11, <1>12, <1>13, <1>14, <1>15 DEF Selected
<1> QED
  BY <1>15, <1>16

LEMMA Types ==
    ASSUME NEW p, Typed(p)
    PROVE  /\ Len(p.info) \in Nat /\ Vars(p) = 1..Len(p.info)
           /\ \A v \in Vars(p) :
                 /\ p.info[v] \in VarInfo /\ v \in Nat
                 /\ p.info[v].intro \in Nat /\ p.info[v].fixedAt \in Nat
                 /\ p.info[v].assignment \in Int /\ p.info[v].atom \in BOOLEAN
                 /\ p.info[v].fixed \in BOOLEAN /\ p.info[v].active \in BOOLEAN
           /\ Len(p.activeVars) \in Nat /\ DOMAIN p.activeVars = 1..Len(p.activeVars)
           /\ \A i \in 1..Len(p.activeVars) : p.activeVars[i] \in Nat
           /\ UserLevel(p) \in Nat /\ DOMAIN p.control = 1..UserLevel(p)
           /\ \A k \in 1..UserLevel(p) : p.control[k] \in Nat
           /\ Len(p.activation) \in Nat /\ DOMAIN p.activation = 1..Len(p.activation)
           /\ \A k \in 1..Len(p.activation) : p.activation[k] \in Nat
           /\ Len(p.assignments) \in Nat /\ DOMAIN p.assignments = 1..Len(p.assignments)
           /\ \A i \in 1..Len(p.assignments) : p.assignments[i] \in Int
           /\ Decisions(p) \in Nat /\ DOMAIN p.asgControl = 1..Decisions(p)
           /\ \A j \in 1..Decisions(p) : p.asgControl[j] \in Nat
           /\ Len(p.renotify) \in Nat /\ DOMAIN p.renotify = 1..Len(p.renotify)
           /\ \A i \in 1..Len(p.renotify) : p.renotify[i] \in Int
           /\ Len(p.told) \in Nat /\ DOMAIN p.told = 1..Len(p.told)
           /\ \A i \in 1..Len(p.told) : p.told[i] \subseteq Int
           /\ p.asgControl = <<>> <=> Decisions(p) = 0
           /\ p.renotify = <<>> <=> Len(p.renotify) = 0
<1>1. \A r \in VarInfo : /\ r.intro \in Nat /\ r.fixedAt \in Nat
                         /\ r.assignment \in Int /\ r.atom \in BOOLEAN
                         /\ r.fixed \in BOOLEAN /\ r.active \in BOOLEAN
  BY DEF VarInfo
<1>2. /\ p.info \in Seq(VarInfo) /\ p.activeVars \in Seq(Nat) /\ p.control \in Seq(Nat)
      /\ p.activation \in Seq(Nat) /\ p.assignments \in Seq(Int) /\ p.asgControl \in Seq(Nat)
      /\ p.renotify \in Seq(Int) /\ p.told \in Seq(SUBSET Int)
  BY DEF Typed
<1>3. /\ Len(p.info) \in Nat /\ Vars(p) = 1..Len(p.info)
      /\ \A v \in 1..Len(p.info) : p.info[v] \in VarInfo /\ v \in Nat
  BY <1>2 DEF Vars
<1>4. /\ Len(p.activeVars) \in Nat /\ DOMAIN p.activeVars = 1..Len(p.activeVars)
      /\ \A i \in 1..Len(p.activeVars) : p.activeVars[i] \in Nat
  BY SMTT(30), <1>2
<1>8. /\ UserLevel(p) \in Nat /\ DOMAIN p.control = 1..UserLevel(p)
      /\ \A k \in 1..UserLevel(p) : p.control[k] \in Nat
  BY SMTT(30), <1>2 DEF UserLevel
<1>9. /\ Len(p.activation) \in Nat /\ DOMAIN p.activation = 1..Len(p.activation)
      /\ \A k \in 1..Len(p.activation) : p.activation[k] \in Nat
  BY SMTT(30), <1>2
<1>5. /\ Len(p.assignments) \in Nat /\ DOMAIN p.assignments = 1..Len(p.assignments)
      /\ \A i \in 1..Len(p.assignments) : p.assignments[i] \in Int
      /\ Decisions(p) \in Nat /\ DOMAIN p.asgControl = 1..Decisions(p)
      /\ \A j \in 1..Decisions(p) : p.asgControl[j] \in Nat
  BY SMTT(30), <1>2 DEF Decisions
<1>6. /\ Len(p.renotify) \in Nat /\ DOMAIN p.renotify = 1..Len(p.renotify)
      /\ \A i \in 1..Len(p.renotify) : p.renotify[i] \in Int
      /\ Len(p.told) \in Nat /\ DOMAIN p.told = 1..Len(p.told)
      /\ \A i \in 1..Len(p.told) : p.told[i] \subseteq Int
  BY <1>2
<1>7. /\ p.asgControl = <<>> <=> Decisions(p) = 0
      /\ p.renotify = <<>> <=> Len(p.renotify) = 0
  BY <1>2 DEF Decisions
<1> QED
  BY <1>1, <1>3, <1>4, <1>5, <1>6, <1>7, <1>8, <1>9

-----------------------------------------------------------------------------
(* A new variable. *)

LEMMA GrownVars ==
    ASSUME NEW p, NEW q, Typed(p), Typed(q), Grown(p, q)
    PROVE  /\ Vars(p) \subseteq Vars(q)
           /\ \A v \in Vars(q) : v \in Vars(p) \/ v = Len(p.info) + 1
           /\ Len(p.info) + 1 \in Vars(q) /\ Len(p.info) + 1 \notin Vars(p)
<1>1. Len(p.info) \in Nat /\ Vars(p) = 1..Len(p.info) /\ Vars(q) = 1..Len(q.info)
  BY Types
<1> QED
  BY <1>1 DEF Grown

LEMMA BaseIn ==
    ASSUME NEW p, Typed(p), Marked(p)
    PROVE  BaseLen(p) \in Nat /\ BaseLen(p) <= Len(p.assignments)
<1>1. /\ Len(p.assignments) \in Nat /\ Decisions(p) \in Nat
      /\ DOMAIN p.asgControl = 1..Decisions(p)
      /\ \A j \in 1..Decisions(p) : p.asgControl[j] \in Nat
      /\ p.asgControl = <<>> <=> Decisions(p) = 0
  BY Types
<1>2. CASE p.asgControl = <<>>
  BY <1>1, <1>2 DEF BaseLen
<1>3. CASE p.asgControl # <<>>
  <2>1. 1 \in DOMAIN p.asgControl
    BY <1>1, <1>3
  <2> QED
    BY <1>1, <1>3, <2>1 DEF BaseLen, Marked
<1> QED
  BY <1>2, <1>3

LEMMA GrownTrail ==
    ASSUME NEW p, NEW q, Typed(p), Typed(q), Grown(p, q), Trail(p), Marked(p),
           q.assignments = p.assignments, q.asgControl = p.asgControl
    PROVE  Trail(q) /\ Marked(q)
<1>1. /\ Vars(p) \subseteq Vars(q)
      /\ \A v \in Vars(q) : v \in Vars(p) \/ v = Len(p.info) + 1
  BY GrownVars
<1>2. /\ \A v \in Vars(p) : q.info[v] = p.info[v]
      /\ q.info[Len(p.info) + 1].assignment = 0 /\ ~q.info[Len(p.info) + 1].fixed
  BY DEF Grown
<1>3. Trail(q)
  BY <1>1, <1>2 DEF Trail
<1>4. \A i \in 1..BaseLen(p) : i \in DOMAIN p.assignments
  BY BaseIn, Types
<1>5. Marked(q)
  <2>1. BaseLen(q) = BaseLen(p)
    BY DEF BaseLen
  <2>2. \A i \in 1..BaseLen(p) : p.info[Abs(p.assignments[i])].fixed /\ Abs(p.assignments[i]) \in Vars(p)
    BY <1>4 DEF Trail, Marked
  <2> QED
    BY <1>1, <1>2, <2>1, <2>2 DEF Marked
<1> QED
  BY <1>3, <1>5

LEMMA AtomsIn ==
    ASSUME NEW p, Typed(p), Trail(p), NEW n \in Nat, n <= Len(p.assignments), NEW lit
    PROVE  lit \in AtomsTo(p, n) <=>
           /\ \E i \in 1..n : p.assignments[i] = lit
           /\ Abs(lit) \in Vars(p) /\ lit \in Int /\ p.info[Abs(lit)].atom
<1>1. \A i \in 1..n : i \in DOMAIN p.assignments /\ p.assignments[i] \in Int
  BY Types
<1> QED
  BY <1>1 DEF AtomsTo, Trail

LEMMA AtomsSame ==
    ASSUME NEW p, NEW q, Typed(p), Typed(q), Trail(p), SameAtoms(p, q),
           NEW n \in Nat, n <= Len(p.assignments), n <= Len(q.assignments),
           \A i \in 1..n : q.assignments[i] = p.assignments[i]
    PROVE  AtomsTo(q, n) = AtomsTo(p, n)
<1>1. \A i \in 1..n : i \in DOMAIN p.assignments /\ Abs(p.assignments[i]) \in Vars(p)
  BY Types DEF Trail
<1> QED
  BY SMTT(30), <1>1 DEF AtomsTo, SameAtoms

LEMMA GrownClauses ==
    ASSUME NEW p, NEW q, Typed(p), Typed(q), Grown(p, q), ClausesGuarded(p),
           q.db = p.db, q.newClauses = p.newClauses
    PROVE  ClausesGuarded(q)
<1>1. Vars(p) \subseteq Vars(q) /\ \A v \in Vars(p) : q.info[v] = p.info[v]
  BY GrownVars DEF Grown
<1>2. ASSUME NEW c \in SUBSET Int, Guarded(p, c)  PROVE Guarded(q, c)
  <2> SUFFICES ASSUME NEW lit \in c
               PROVE  /\ Abs(lit) \in Vars(q)
                      /\ lit < 0 => q.info[Abs(lit)].atom
                      /\ q.info[Abs(lit)].atom /\ q.info[Abs(lit)].intro > 0 =>
                           \E a \in c : a > 0 /\ ~q.info[a].atom
    BY DEF Guarded
  <2>1. /\ Abs(lit) \in Vars(p)
        /\ lit < 0 => p.info[Abs(lit)].atom
        /\ p.info[Abs(lit)].atom /\ p.info[Abs(lit)].intro > 0 =>
             \E a \in c : a > 0 /\ ~p.info[a].atom
    BY <1>2 DEF Guarded
  <2>2. \A a \in c : a > 0 => a \in Vars(p)
    BY <1>2, AbsFacts DEF Guarded, Abs
  <2> QED
    BY <1>1, <2>1, <2>2
<1>3. \A c \in q.db : c \in SUBSET Int
  BY DEF Typed
<1>4. \A i \in DOMAIN q.newClauses : q.newClauses[i] \in SUBSET Int
  BY DEF Typed
<1> QED
  BY <1>1, <1>2, <1>3, <1>4 DEF ClausesGuarded

LEMMA GrownStep ==
    ASSUME NEW p, NEW q, Typed(p), Typed(q), Grown(p, q), Trail(p), Marked(p), InStep(p),
           q.assignments = p.assignments, q.asgControl = p.asgControl, q.told = p.told,
           q.renotify = p.renotify, q.control = p.control
    PROVE  InStep(q)
<1>1. Vars(p) \subseteq Vars(q) /\ \A v \in Vars(p) : q.info[v] = p.info[v]
  BY GrownVars DEF Grown
<1>2. SameAtoms(p, q) /\ UserLevel(q) = UserLevel(p)
  BY <1>1 DEF SameAtoms, UserLevel
<1>3. ASSUME NEW n \in Nat, n <= Len(p.assignments)
      PROVE  AtomsTo(q, n) = AtomsTo(p, n)
  BY <1>2, <1>3, AtomsSame
<1>4. \A j \in DOMAIN p.asgControl : AtomsTo(q, p.asgControl[j]) = AtomsTo(p, p.asgControl[j])
  <2>1. \A j \in DOMAIN p.asgControl : p.asgControl[j] \in Nat /\ p.asgControl[j] <= Len(p.assignments)
    BY Types DEF Marked
  <2> QED
    BY <1>3, <2>1
<1>5. AtomsTo(q, Len(p.assignments)) = AtomsTo(p, Len(p.assignments))
  <2>1. Len(p.assignments) \in Nat
    BY Types
  <2> QED
    BY <1>3, <2>1
<1>6. \A i \in DOMAIN p.assignments : q.info[Abs(p.assignments[i])] = p.info[Abs(p.assignments[i])]
  BY <1>1 DEF Trail
<1> QED
  BY <1>2, <1>4, <1>5, <1>6 DEF InStep

LEMMA GrownPending ==
    ASSUME NEW p, NEW q, Typed(p), Typed(q), Grown(p, q), Pending(p),
           q.propagations = p.propagations, q.asgControl = p.asgControl, q.told = p.told
    PROVE  Pending(q)
<1>1. Vars(p) \subseteq Vars(q) /\ \A v \in Vars(p) : q.info[v] = p.info[v]
  BY GrownVars DEF Grown
<1> QED
  BY <1>1 DEF Pending

LEMMA AddNewVarFields ==
    ASSUME NEW p, Typed(p), NEW isAtom \in BOOLEAN, NEW q, q = AddNewVar(p, isAtom)
    PROVE  AddedVar(p, q) /\ (q.info[Len(p.info) + 1].atom <=> isAtom)
<1> DEFINE new == [intro |-> UserLevel(p), fixedAt |-> 0, assignment |-> 0,
                   atom |-> isAtom, fixed |-> FALSE, active |-> TRUE]
<1>1. /\ q.info = Append(p.info, new) /\ q.activeVars = Append(p.activeVars, Len(p.info) + 1)
      /\ Shape(q)
      /\ q.control = p.control /\ q.activation = p.activation
      /\ q.renotify = p.renotify /\ q.assignments = p.assignments
      /\ q.asgControl = p.asgControl /\ q.propagations = p.propagations
      /\ q.newClauses = p.newClauses /\ q.found = p.found /\ q.told = p.told
      /\ q.db = p.db /\ q.failed = p.failed
  BY DEF AddNewVar, Typed, Shape, Fields
<1>2. /\ new \in VarInfo /\ new.intro = UserLevel(p) /\ new.fixedAt = 0 /\ new.assignment = 0
      /\ new.fixed = FALSE /\ new.active = TRUE /\ new.atom = isAtom
  BY Types DEF VarInfo
<1> HIDE DEF new
<1>3. /\ q.info \in Seq(VarInfo) /\ Len(q.info) = Len(p.info) + 1
      /\ \A v \in 1..Len(p.info) : q.info[v] = p.info[v]
      /\ q.info[Len(p.info) + 1] = new
  BY SMTT(30), <1>1, <1>2, Appending DEF Typed
<1>4. /\ q.activeVars \in Seq(Nat) /\ Len(q.activeVars) = Len(p.activeVars) + 1
      /\ \A i \in 1..Len(p.activeVars) : q.activeVars[i] = p.activeVars[i]
      /\ q.activeVars[Len(p.activeVars) + 1] = Len(p.info) + 1
  <2>1. Len(p.info) + 1 \in Nat /\ p.activeVars \in Seq(Nat)
    BY Types DEF Typed
  <2> QED
    BY <1>1, <2>1, Appending
<1>5. Typed(q)
  BY <1>1, <1>3, <1>4 DEF Typed
<1>6. Grown(p, q)
  <2>1. Vars(p) = 1..Len(p.info) /\ UserLevel(q) = UserLevel(p)
    BY <1>1, Types DEF UserLevel
  <2> QED
    BY <1>2, <1>3, <2>1 DEF Grown
<1> QED
  BY <1>1, <1>2, <1>3, <1>4, <1>5, <1>6 DEF AddedVar

LEMMA AddAtomFields ==
    ASSUME NEW p, Typed(p), NEW q, q = AddNewVar(p, TRUE)
    PROVE  AddedVar(p, q) /\ q.info[Len(p.info) + 1].atom
<1>1. PICK b \in BOOLEAN : b = TRUE
  BY Zenon
<1>2. q = AddNewVar(p, b)
  BY <1>1, Zenon
<1>3. AddedVar(p, q) /\ (q.info[Len(p.info) + 1].atom <=> b)
  BY <1>2, AddNewVarFields, Zenon
<1> QED
  BY <1>1, <1>3, Zenon

\* add_new_var for a theory atom.
LEMMA NewAtom ==
    ASSUME NEW p, Good(p), Len(p.info) < MaxVar, NEW q, AddedVar(p, q),
           q.info[Len(p.info) + 1].atom
    PROVE  Good(q)
<1>1. /\ Typed(p) /\ Bounded(p) /\ Listed(p) /\ Ordered(p) /\ Activations(p)
      /\ Trail(p) /\ Marked(p) /\ InStep(p) /\ ClausesGuarded(p) /\ Pending(p)
  BY DEF Good
<1> DEFINE w == Len(p.info) + 1
<1>2. /\ Typed(q) /\ Grown(p, q) /\ q.info[w].atom
      /\ Len(q.activeVars) = Len(p.activeVars) + 1
      /\ \A i \in 1..Len(p.activeVars) : q.activeVars[i] = p.activeVars[i]
      /\ q.activeVars[Len(p.activeVars) + 1] = w
      /\ q.control = p.control /\ q.activation = p.activation
      /\ q.renotify = p.renotify /\ q.assignments = p.assignments
      /\ q.asgControl = p.asgControl /\ q.propagations = p.propagations
      /\ q.newClauses = p.newClauses /\ q.found = p.found /\ q.told = p.told
      /\ q.db = p.db /\ q.failed = p.failed
  BY DEF AddedVar
<1>3. Trail(q) /\ Marked(q)
  BY <1>1, <1>2, GrownTrail
<1>4. InStep(q)
  BY <1>1, <1>2, GrownStep
<1>5. ClausesGuarded(q)
  BY <1>1, <1>2, GrownClauses
<1>6. Pending(q)
  BY <1>1, <1>2, GrownPending
<1>7. /\ Vars(p) \subseteq Vars(q) /\ w \in Vars(q)
      /\ \A v \in Vars(q) : v \in Vars(p) \/ v = w
      /\ \A v \in Vars(p) : q.info[v] = p.info[v]
      /\ UserLevel(q) = UserLevel(p) /\ Decisions(q) = Decisions(p)
      /\ Len(q.info) = Len(p.info) + 1
      /\ q.info[w].intro = UserLevel(p) /\ q.info[w].fixedAt = 0 /\ q.info[w].active
  BY <1>1, <1>2, GrownVars DEF Grown, UserLevel, Decisions
<1> HIDE DEF w
<1>8. Bounded(q)
  <2>1. \A v \in Vars(q) : q.info[v].intro <= MaxUserLevel /\ q.info[v].fixedAt <= MaxUserLevel
    <3> TAKE v \in Vars(q)
    <3>1. CASE v \in Vars(p)
      BY <1>1, <1>7, <3>1 DEF Bounded
    <3>2. CASE v = w
      BY <1>1, <1>7, <3>2, BoundsAssumption DEF Bounded
    <3> QED
      BY <1>7, <3>1, <3>2
  <2>2. Len(q.info) <= MaxVar
    BY <1>1, <1>7, Types, BoundsAssumption
  <2> QED
    BY <1>1, <1>2, <1>7, <2>1, <2>2 DEF Bounded
<1>9. Listed(q) /\ Ordered(q)
  <2> DEFINE n == Len(p.activeVars)
  <2>0. /\ n \in Nat /\ DOMAIN p.activeVars = 1..n /\ DOMAIN q.activeVars = 1..Len(q.activeVars)
        /\ DOMAIN p.control = 1..UserLevel(p) /\ UserLevel(p) \in Nat
        /\ \A k \in 1..UserLevel(p) : p.control[k] \in Nat
    BY <1>1, <1>2, Types
  <2>1. /\ DOMAIN q.activeVars = 1..n + 1 /\ Len(q.activeVars) = n + 1
        /\ \A i \in 1..n : q.activeVars[i] = p.activeVars[i]
        /\ q.activeVars[n + 1] = w
    BY <1>2, <2>0
  <2>2. \A i \in 1..n : p.activeVars[i] \in Vars(p) /\ p.info[p.activeVars[i]].active
    BY <1>1, <2>0 DEF Listed
  <2>3. \A k \in 1..UserLevel(p) : p.control[k] <= n
    BY <1>1, <2>0 DEF Ordered
  <2> HIDE DEF n
  <2>4. /\ \A i \in 1..n + 1 : i \in 1..n \/ i = n + 1
        /\ 1..n \subseteq 1..n + 1 /\ n + 1 \in 1..n + 1
    BY <2>0
  <2>5. \A i \in 1..n + 1 : q.activeVars[i] \in Vars(q) /\ q.info[q.activeVars[i]].active
    <3> TAKE i \in 1..n + 1
    <3>1. CASE i \in 1..n
      <4>1. /\ q.activeVars[i] = p.activeVars[i] /\ p.activeVars[i] \in Vars(p)
            /\ p.info[p.activeVars[i]].active
        BY <2>1, <2>2, <3>1
      <4>2. q.info[p.activeVars[i]] = p.info[p.activeVars[i]] /\ p.activeVars[i] \in Vars(q)
        BY <1>7, <4>1
      <4> QED
        BY <4>1, <4>2
    <3>2. CASE i = n + 1
      BY <1>7, <2>1, <3>2
    <3> QED
      BY <2>4, <3>1, <3>2
  <2>6. ASSUME NEW v \in Vars(q), q.info[v].active
        PROVE  q.info[v].intro <= UserLevel(q) /\ \E i \in 1..n + 1 : q.activeVars[i] = v
    <3>1. CASE v \in Vars(p)
      <4>1. v \in Vars(p) /\ p.info[v].active /\ q.info[v] = p.info[v]
        BY <1>7, <2>6, <3>1
      <4>2. p.info[v].intro <= UserLevel(p) /\ \E i \in 1..n : p.activeVars[i] = v
        BY <1>1, <2>0, <4>1 DEF Listed
      <4> QED
        BY <1>7, <2>1, <2>4, <4>1, <4>2
    <3>2. CASE v = w
      BY <1>7, <2>0, <2>1, <2>4, <3>2
    <3> QED
      BY <1>7, <3>1, <3>2
  <2>7. Listed(q)
    BY <2>1, <2>5, <2>6 DEF Listed
  <2>8. ASSUME NEW k \in 1..UserLevel(p), NEW i \in 1..n + 1
        PROVE  i <= p.control[k] <=> q.info[q.activeVars[i]].intro < k
    <3>1. CASE i \in 1..n
      <4>1. i <= p.control[k] <=> p.info[p.activeVars[i]].intro < k
        BY <1>1, <2>0, <3>1 DEF Ordered
      <4>2. q.info[q.activeVars[i]] = p.info[p.activeVars[i]]
        BY ZenonT(60), <1>7, <2>1, <2>2, <3>1
      <4> QED
        BY <4>1, <4>2
    <3>2. CASE i = n + 1
      BY SMTT(30), <1>7, <2>0, <2>1, <2>3, <3>2
    <3> QED
      BY <2>4, <3>1, <3>2
  <2>9. Ordered(q)
    <3>1. \A k \in 1..UserLevel(p) : p.control[k] <= n + 1
      BY <2>0, <2>3
    <3>2. \A k, l \in 1..UserLevel(p) : k <= l => p.control[k] <= p.control[l]
      BY <1>1, <2>0 DEF Ordered
    <3> QED
      BY <1>2, <2>0, <2>1, <2>8, <3>1, <3>2 DEF Ordered
  <2> QED
    BY <2>7, <2>9
<1>10. Activations(q)
  BY SMTT(30), <1>1, <1>2, <1>7 DEF Activations
<1> QED
  BY <1>2, <1>3, <1>4, <1>5, <1>6, <1>8, <1>9, <1>10 DEF Good

-----------------------------------------------------------------------------
(* A value for a variable. *)

LEMMA NatureListed ==
    ASSUME NEW p, NEW q, SameNature(p, q), Listed(p), Ordered(p), Activations(p),
           q.activeVars = p.activeVars, q.control = p.control, q.activation = p.activation
    PROVE  Listed(q) /\ Ordered(q) /\ Activations(q)
<1>1. UserLevel(q) = UserLevel(p)
  BY DEF UserLevel
<1>2. Listed(q)
  BY <1>1 DEF Listed, SameNature
<1>3. Ordered(q)
  <2>1. \A i \in DOMAIN p.activeVars :
           q.info[p.activeVars[i]].intro = p.info[p.activeVars[i]].intro
    BY DEF Listed, SameNature
  <2> QED
    BY <2>1 DEF Ordered
<1>4. Activations(q)
  BY DEF Activations, SameNature
<1> QED
  BY <1>2, <1>3, <1>4

LEMMA GuardedSame ==
    ASSUME NEW p, NEW q, SameNature(p, q), NEW c \in SUBSET Int, Guarded(p, c)
    PROVE  Guarded(q, c)
<1> SUFFICES ASSUME NEW lit \in c
             PROVE  /\ Abs(lit) \in Vars(q)
                    /\ lit < 0 => q.info[Abs(lit)].atom
                    /\ q.info[Abs(lit)].atom /\ q.info[Abs(lit)].intro > 0 =>
                         \E a \in c : a > 0 /\ ~q.info[a].atom
  BY DEF Guarded
<1>1. /\ Abs(lit) \in Vars(p)
      /\ lit < 0 => p.info[Abs(lit)].atom
      /\ p.info[Abs(lit)].atom /\ p.info[Abs(lit)].intro > 0 =>
           \E a \in c : a > 0 /\ ~p.info[a].atom
  BY DEF Guarded
<1>2. \A a \in c : a > 0 => a \in Vars(p)
  BY AbsFacts DEF Guarded, Abs
<1> QED
  BY <1>1, <1>2 DEF SameNature

LEMMA NatureClauses ==
    ASSUME NEW p, NEW q, Typed(p), SameNature(p, q), ClausesGuarded(p),
           q.db = p.db, q.newClauses = p.newClauses
    PROVE  ClausesGuarded(q)
<1>1. \A c \in p.db : c \in SUBSET Int
  BY DEF Typed
<1>2. \A i \in DOMAIN p.newClauses : p.newClauses[i] \in SUBSET Int
  BY DEF Typed
<1>3. \A c \in SUBSET Int : Guarded(p, c) => Guarded(q, c)
  BY GuardedSame
<1>4. \A c \in q.db : Guarded(q, c) \/ \E v \in Vars(q) : ~q.info[v].active /\ c = {v}
  <2> TAKE c \in q.db
  <2>1. CASE Guarded(p, c)
    BY <1>1, <1>3, <2>1
  <2>2. CASE \E v \in Vars(p) : ~p.info[v].active /\ c = {v}
    BY <2>2 DEF SameNature
  <2> QED
    BY <2>1, <2>2 DEF ClausesGuarded
<1> QED
  BY <1>2, <1>3, <1>4 DEF ClausesGuarded

LEMMA NaturePending ==
    ASSUME NEW p, NEW q, SameNature(p, q), Pending(p),
           q.propagations = p.propagations,
           p.asgControl = <<>> <=> q.asgControl = <<>>,
           p.told[Len(p.told)] \subseteq q.told[Len(q.told)], p.told[1] \subseteq q.told[1]
    PROVE  Pending(q)
  BY DEF Pending, SameNature

LEMMA ValuedBounds ==
    ASSUME NEW p, NEW q, NEW lit, Typed(p), Bounded(p), Abs(lit) \in Vars(p), Valued(p, q, lit),
           Len(q.told) = Len(p.told)
    PROVE  Bounded(q)
<1>1. /\ Vars(q) = Vars(p) /\ UserLevel(q) = UserLevel(p) /\ Decisions(q) = Decisions(p)
      /\ Vars(p) = 1..Len(p.info) /\ Vars(q) = 1..Len(q.info)
      /\ Len(p.info) \in Nat /\ Len(q.info) \in Nat
  BY Types DEF Valued, SameNature, UserLevel, Decisions
<1>2. Len(q.info) = Len(p.info)
  BY <1>1
<1>3. \A v \in Vars(p) : q.info[v].intro <= MaxUserLevel /\ q.info[v].fixedAt <= MaxUserLevel
  <2> TAKE v \in Vars(p)
  <2>1. CASE v # Abs(lit)
    BY <2>1 DEF Valued, Bounded
  <2>2. CASE v = Abs(lit)
    BY <2>2 DEF Valued, Bounded, SameNature
  <2> QED
    BY <2>1, <2>2
<1> QED
  BY <1>1, <1>2, <1>3 DEF Bounded, Valued

LEMMA OthersOnTrail ==
    ASSUME NEW p, NEW lit, Typed(p), Trail(p), p.info[Abs(lit)].assignment = 0
    PROVE  \A i \in 1..Len(p.assignments) :
              /\ i \in DOMAIN p.assignments /\ Abs(p.assignments[i]) # Abs(lit)
              /\ Abs(p.assignments[i]) \in Vars(p) /\ p.assignments[i] \in Int
<1> TAKE i \in 1..Len(p.assignments)
<1>1. /\ i \in DOMAIN p.assignments /\ p.assignments[i] \in Int
      /\ Vars(p) = 1..Len(p.info) /\ Len(p.info) \in Nat
  BY Types
<1>2. /\ Abs(p.assignments[i]) \in Vars(p)
      /\ p.info[Abs(p.assignments[i])].assignment = p.assignments[i]
  BY <1>1 DEF Trail
<1>3. p.assignments[i] # 0
  BY <1>1, <1>2 DEF Abs
<1> QED
  BY <1>1, <1>2, <1>3

LEMMA PushedTrail ==
    ASSUME NEW p, NEW q, NEW lit \in Int, Typed(p), Trail(p), Marked(p),
           Abs(lit) \in Vars(p), p.info[Abs(lit)].active, p.info[Abs(lit)].assignment = 0,
           Valued(p, q, lit), Pushed(p, q, lit),
           p.asgControl # <<>> \/ q.info[Abs(lit)].fixed,
           q.info[Abs(lit)].fixed /\ q.info[Abs(lit)].atom => q.info[Abs(lit)].intro = 0
    PROVE  Trail(q) /\ Marked(q)
<1> DEFINE n == Len(p.assignments)
           u == Abs(lit)
<1>1. /\ n \in Nat /\ DOMAIN p.assignments = 1..n /\ Len(q.assignments) = n + 1
      /\ DOMAIN q.assignments = 1..n + 1
      /\ \A i \in 1..n : q.assignments[i] = p.assignments[i]
      /\ q.assignments[n + 1] = lit
  <2>1. Typed(q)
    BY DEF Valued
  <2>2. n \in Nat /\ DOMAIN p.assignments = 1..n /\ DOMAIN q.assignments = 1..Len(q.assignments)
    BY <2>1, Types
  <2> QED
    BY <2>2 DEF Pushed
<1>2. \A i \in 1..n : Abs(p.assignments[i]) # u /\ Abs(p.assignments[i]) \in Vars(p)
  BY OthersOnTrail
<1>3. /\ Vars(q) = Vars(p) /\ \A w \in Vars(p) : w # u => q.info[w] = p.info[w]
      /\ q.info[u].assignment = lit /\ (q.info[u].active <=> p.info[u].active)
      /\ q.info[u].intro = p.info[u].intro /\ (q.info[u].atom <=> p.info[u].atom)
      /\ q.asgControl = p.asgControl
  BY DEF Valued, SameNature
<1>4. /\ \A i \in 1..n + 1 : i \in 1..n \/ i = n + 1
      /\ 1..n \subseteq 1..n + 1 /\ n + 1 \in 1..n + 1
  BY <1>1
<1>5. u \in Vars(p) /\ p.info[u].active /\ p.info[u].assignment = 0 /\ u \in Nat
      /\ (lit = u \/ lit = -u) /\ Vars(p) = 1..Len(p.info) /\ Len(p.info) \in Nat
  BY AbsFacts, Types
<1>0. BaseLen(p) \in Nat /\ BaseLen(p) <= n
  BY BaseIn
<1> HIDE DEF n, u
<1>6. lit # 0
  BY <1>5
<1>7. \A i \in 1..n : /\ Abs(q.assignments[i]) \in Vars(q) /\ q.assignments[i] # lit
                      /\ q.info[Abs(q.assignments[i])] = p.info[Abs(p.assignments[i])]
  <2> TAKE i \in 1..n
  <2>1. q.assignments[i] = p.assignments[i] /\ Abs(p.assignments[i]) \in Vars(p)
        /\ Abs(p.assignments[i]) # u
    BY <1>1, <1>2
  <2>2. p.assignments[i] # lit
    BY <2>1 DEF u
  <2> QED
    BY <1>3, <2>1, <2>2
<1>8. Trail(q)
  <2>1. ASSUME NEW i \in 1..n + 1
        PROVE  LET v == Abs(q.assignments[i]) IN
               v \in Vars(q) /\ q.info[v].active /\ q.info[v].assignment = q.assignments[i]
    <3>1. CASE i \in 1..n
      <4>1. /\ p.info[Abs(p.assignments[i])].active
            /\ p.info[Abs(p.assignments[i])].assignment = p.assignments[i]
        BY <1>1, <3>1 DEF Trail
      <4> QED
        BY <1>1, <1>7, <3>1, <4>1
    <3>2. CASE i = n + 1
      BY <1>1, <1>3, <1>5, <3>2 DEF u
    <3> QED
      BY <1>4, <3>1, <3>2
  <2>2. \A i, j \in 1..n + 1 : q.assignments[i] = q.assignments[j] => i = j
    <3>1. \A i, j \in 1..n : q.assignments[i] = q.assignments[j] => i = j
      BY SMTT(30), <1>1 DEF Trail
    <3> QED
      BY <1>1, <1>4, <1>7, <3>1
  <2>3. ASSUME NEW v \in Vars(q)
        PROVE  /\ q.info[v].assignment \in {0, v, -v}
               /\ q.info[v].active /\ q.info[v].assignment # 0 =>
                    \E i \in 1..n + 1 : q.assignments[i] = q.info[v].assignment
    <3>1. CASE v = u
      BY <1>1, <1>3, <1>4, <1>5, <3>1
    <3>2. CASE v # u
      <4>1. q.info[v] = p.info[v] /\ v \in Vars(p)
        BY <1>3, <3>2
      <4>2. /\ p.info[v].assignment \in {0, v, -v}
            /\ p.info[v].active /\ p.info[v].assignment # 0 =>
                 \E i \in 1..n : p.assignments[i] = p.info[v].assignment
        BY <1>1, <4>1 DEF Trail
      <4> QED
        BY <1>1, <1>4, <4>1, <4>2
    <3> QED
      BY <3>1, <3>2
  <2> QED
    BY SMTT(30), <1>1, <2>1, <2>2, <2>3 DEF Trail
<1>9. Marked(q)
  <2>1. \A j \in DOMAIN p.asgControl : p.asgControl[j] <= n + 1
    <3>1. \A j \in DOMAIN p.asgControl : p.asgControl[j] \in Nat /\ p.asgControl[j] <= n
      BY Types DEF Marked, n
    <3> QED
      BY <1>1, <3>1
  <2>2. ASSUME NEW i \in 1..BaseLen(q)
        PROVE  q.info[Abs(q.assignments[i])].fixed
    <3>1. ASSUME NEW k \in 1..BaseLen(p)
          PROVE  q.info[Abs(q.assignments[k])].fixed
      <4>1. p.info[Abs(p.assignments[k])].fixed /\ k \in 1..n
        BY <1>0, <1>1 DEF Marked
      <4> QED
        BY <1>7, <4>1
    <3>2. CASE p.asgControl # <<>>
      <4>1. BaseLen(q) = BaseLen(p)
        BY <1>3, <3>2 DEF BaseLen
      <4> QED
        BY <3>1, <4>1
    <3>3. CASE p.asgControl = <<>>
      <4>1. BaseLen(p) = n /\ BaseLen(q) = n + 1
        BY <1>1, <1>3, <3>3 DEF BaseLen, n
      <4>2. i \in 1..n \/ i = n + 1
        BY <1>4, <4>1
      <4>3. q.info[Abs(q.assignments[n + 1])].fixed
        BY <1>1, <3>3 DEF u
      <4> QED
        BY <3>1, <4>1, <4>2, <4>3
    <3> QED
      BY <3>2, <3>3
  <2>3. ASSUME NEW v \in Vars(q), q.info[v].fixed
        PROVE  /\ q.info[v].active => q.info[v].assignment # 0
               /\ q.info[v].atom => q.info[v].intro = 0
    <3>1. CASE v = u
      BY <1>3, <1>6, <2>3, <3>1 DEF u
    <3>2. CASE v # u
      <4>1. q.info[v] = p.info[v] /\ v \in Vars(p)
        BY <1>3, <3>2
      <4> QED
        BY <2>3, <4>1 DEF Marked
    <3> QED
      BY <3>1, <3>2
  <2>4. \A j, k \in DOMAIN p.asgControl : j <= k => p.asgControl[j] <= p.asgControl[k]
    BY DEF Marked
  <2> QED
    BY <1>1, <1>3, <2>1, <2>2, <2>3, <2>4 DEF Marked
<1> QED
  BY <1>8, <1>9

LEMMA PushedStep ==
    ASSUME NEW p, NEW q, NEW lit \in Int, Typed(p), Bounded(p), Trail(p), Marked(p), InStep(p),
           Abs(lit) \in Vars(p), p.info[Abs(lit)].active, p.info[Abs(lit)].assignment = 0,
           Valued(p, q, lit), Pushed(p, q, lit),
           p.info[Abs(lit)].fixed => q.info[Abs(lit)].fixedAt = UserLevel(p)
    PROVE  InStep(q)
<1> DEFINE n == Len(p.assignments)
           u == Abs(lit)
           top == Len(p.told)
<1>1. /\ n \in Nat /\ DOMAIN p.assignments = 1..n /\ Len(q.assignments) = n + 1
      /\ DOMAIN q.assignments = 1..n + 1
      /\ \A i \in 1..n : q.assignments[i] = p.assignments[i]
      /\ q.assignments[n + 1] = lit
      /\ top \in Nat /\ DOMAIN p.told = 1..top /\ DOMAIN q.told = 1..top /\ Len(q.told) = top
      /\ UserLevel(p) \in Nat /\ Decisions(p) \in Nat
      /\ DOMAIN p.asgControl = 1..Decisions(p) /\ DOMAIN p.control = 1..UserLevel(p)
      /\ \A j \in 1..Decisions(p) : p.asgControl[j] \in Nat
  <2>1. Typed(q)
    BY DEF Valued
  <2>2. /\ n \in Nat /\ DOMAIN p.assignments = 1..n /\ DOMAIN q.assignments = 1..Len(q.assignments)
        /\ top \in Nat /\ DOMAIN p.told = 1..top /\ DOMAIN q.told = 1..Len(q.told)
        /\ UserLevel(p) \in Nat /\ Decisions(p) \in Nat
        /\ DOMAIN p.asgControl = 1..Decisions(p) /\ DOMAIN p.control = 1..UserLevel(p)
        /\ \A j \in 1..Decisions(p) : p.asgControl[j] \in Nat
    BY <2>1, Types
  <2> QED
    BY <2>2 DEF Pushed
<1>2. \A i \in 1..n : Abs(p.assignments[i]) # u /\ Abs(p.assignments[i]) \in Vars(p)
  BY OthersOnTrail
<1>3. /\ Vars(q) = Vars(p) /\ \A w \in Vars(p) : w # u => q.info[w] = p.info[w]
      /\ q.info[u].atom <=> p.info[u].atom
      /\ q.asgControl = p.asgControl /\ q.control = p.control /\ q.renotify = p.renotify
      /\ UserLevel(q) = UserLevel(p) /\ SameAtoms(p, q) /\ Typed(q)
  BY DEF Valued, SameNature, UserLevel, SameAtoms
<1>4. /\ \A i \in 1..n + 1 : i \in 1..n \/ i = n + 1
      /\ 1..n \subseteq 1..n + 1 /\ n + 1 \in 1..n + 1
  BY SMTT(30), <1>1
<1>5. /\ \A i \in 1..top - 1 : q.told[i] = p.told[i]
      /\ q.told[top] = p.told[top] \union {l \in {lit} : p.info[u].atom}
      /\ top = 1 + UserLevel(p) + Decisions(p)
  BY DEF Pushed, Bounded
<1>6. /\ \A i \in 1..top : i \in 1..top - 1 \/ i = top
      /\ top \in 1..top
  BY SMTT(30), <1>1, <1>5
<1>7. \A j \in 1..Decisions(p) : UserLevel(p) + j \in 1..top - 1
  BY <1>1, <1>5
<1>8. \A k \in 1..UserLevel(p) : k \in 1..top - 1
  BY <1>1, <1>5
<1>9. \A k \in 1..n : AtomsTo(q, k) = AtomsTo(p, k)
  BY SMTT(30), <1>1, <1>3, AtomsSame
<1>10. AtomsTo(q, 0) = AtomsTo(p, 0)
  BY <1>1, <1>3, AtomsSame
<1>11. \A j \in 1..Decisions(p) : AtomsTo(q, p.asgControl[j]) = AtomsTo(p, p.asgControl[j])
  <2>1. \A j \in 1..Decisions(p) : p.asgControl[j] \in Nat /\ p.asgControl[j] <= n
    BY <1>1 DEF Marked
  <2>2. \A j \in 1..Decisions(p) : p.asgControl[j] = 0 \/ p.asgControl[j] \in 1..n
    BY <1>1, <2>1
  <2> QED
    BY <1>9, <1>10, <2>2
<1>12. AtomsTo(q, n + 1) = AtomsTo(p, n) \union {l \in {lit} : p.info[u].atom}
  <2>1. /\ AtomsTo(q, n + 1) = {l \in {q.assignments[i] : i \in 1..n + 1} : q.info[Abs(l)].atom}
        /\ AtomsTo(p, n) = {l \in {p.assignments[i] : i \in 1..n} : p.info[Abs(l)].atom}
    BY DEF AtomsTo
  <2>2. \A i \in 1..n : /\ q.assignments[i] = p.assignments[i]
                        /\ q.info[Abs(p.assignments[i])].atom <=> p.info[Abs(p.assignments[i])].atom
    BY <1>1, <1>2, <1>3
  <2>3. q.assignments[n + 1] = lit /\ (q.info[Abs(lit)].atom <=> p.info[u].atom)
    BY <1>1, <1>3
  <2> HIDE DEF n, u
  <2>4. AtomsTo(q, n + 1) \subseteq AtomsTo(p, n) \union {l \in {lit} : p.info[u].atom}
    BY <1>4, <2>1, <2>2, <2>3
  <2>5. AtomsTo(p, n) \union {l \in {lit} : p.info[u].atom} \subseteq AtomsTo(q, n + 1)
    BY <1>4, <2>1, <2>2, <2>3
  <2> QED
    BY <2>4, <2>5
<1> HIDE DEF n, u, top
<1>13. /\ \A i, j \in 1..top : i <= j => p.told[i] \subseteq p.told[j]
       /\ \A j \in 1..Decisions(p) : p.told[UserLevel(p) + j] = AtomsTo(p, p.asgControl[j])
       /\ p.told[top] \union ToSet(p.renotify) = AtomsTo(p, n)
       /\ p.asgControl # <<>> => p.renotify = <<>>
  BY <1>1 DEF InStep, n, top
<1>14. \A i, j \in 1..top : i <= j => q.told[i] \subseteq q.told[j]
  <2> SUFFICES ASSUME NEW i \in 1..top, NEW j \in 1..top, i <= j
               PROVE  q.told[i] \subseteq q.told[j]
    OBVIOUS
  <2>1. p.told[i] \subseteq p.told[j]
    BY <1>13
  <2>2. CASE i = top
    BY <1>1, <2>2
  <2>3. CASE i \in 1..top - 1
    BY <1>5, <1>6, <2>1, <2>3
  <2> QED
    BY <1>6, <2>2, <2>3
<1>15. \A j \in 1..Decisions(p) : q.told[UserLevel(p) + j] = AtomsTo(q, p.asgControl[j])
  BY <1>5, <1>7, <1>11, <1>13
<1>16. q.told[top] \union ToSet(p.renotify) = AtomsTo(q, n + 1)
  <2>1. q.told[top] \union ToSet(p.renotify)
          = (p.told[top] \union ToSet(p.renotify)) \union {l \in {lit} : p.info[u].atom}
    BY <1>5, Zenon
  <2> QED
    BY <1>12, <1>13, <2>1
<1>17. ASSUME NEW k \in 1..UserLevel(p), NEW i \in 1..n + 1,
              q.info[Abs(q.assignments[i])].atom, q.info[Abs(q.assignments[i])].fixed,
              q.info[Abs(q.assignments[i])].fixedAt < k
       PROVE  q.assignments[i] \in q.told[k] \union ToSet(p.renotify)
  <2>1. CASE i \in 1..n
    <3>1. /\ q.info[Abs(p.assignments[i])] = p.info[Abs(p.assignments[i])]
          /\ q.assignments[i] = p.assignments[i]
      BY <1>1, <1>2, <1>3, <2>1
    <3>2. p.assignments[i] \in p.told[k] \union ToSet(p.renotify)
      BY <1>1, <1>17, <2>1, <3>1 DEF InStep
    <3> QED
      BY <1>5, <1>8, <3>1, <3>2
  <2>2. CASE i = n + 1
    <3>1. q.assignments[i] = lit /\ q.info[u].fixedAt < k /\ q.info[u].fixed
      BY <1>1, <1>17, <2>2 DEF u
    <3>2. q.info[u].fixedAt = UserLevel(p)
      BY <3>1 DEF Valued, u
    <3> QED
      BY <1>1, <3>1, <3>2
  <2> QED
    BY <1>4, <2>1, <2>2
<1> QED
  BY ZenonT(60), <1>1, <1>3, <1>13, <1>14, <1>15, <1>16, <1>17 DEF InStep

\* notify_assignment of a literal whose variable has no value, and
\* notify_fixed_assignment, which fixes the variable first.
LEMMA PushedGood ==
    ASSUME NEW p, Good(p), NEW q, NEW lit \in Int,
           Abs(lit) \in Vars(p), p.info[Abs(lit)].active, p.info[Abs(lit)].assignment = 0,
           Valued(p, q, lit), Pushed(p, q, lit),
           p.asgControl # <<>> \/ q.info[Abs(lit)].fixed,
           q.info[Abs(lit)].fixed /\ q.info[Abs(lit)].atom => q.info[Abs(lit)].intro = 0
    PROVE  Good(q)
<1>1. /\ Typed(p) /\ Bounded(p) /\ Listed(p) /\ Ordered(p) /\ Activations(p)
      /\ Trail(p) /\ Marked(p) /\ InStep(p) /\ ClausesGuarded(p) /\ Pending(p)
  BY DEF Good
<1>2. /\ Typed(q) /\ SameNature(p, q)
      /\ q.activeVars = p.activeVars /\ q.control = p.control /\ q.activation = p.activation
      /\ q.propagations = p.propagations /\ q.newClauses = p.newClauses
      /\ q.db = p.db /\ q.failed = p.failed /\ q.asgControl = p.asgControl
      /\ Len(q.told) = Len(p.told)
  BY DEF Valued, Pushed
<1>3. ~p.info[Abs(lit)].fixed
  BY <1>1 DEF Marked
<1>4. Trail(q) /\ Marked(q)
  BY <1>1, PushedTrail
<1>5. InStep(q)
  BY <1>1, <1>3, PushedStep
<1>6. Bounded(q)
  BY <1>1, <1>2, ValuedBounds
<1>7. Listed(q) /\ Ordered(q) /\ Activations(q)
  BY <1>1, <1>2, NatureListed
<1>8. ClausesGuarded(q)
  BY <1>1, <1>2, NatureClauses
<1>9. p.told[Len(p.told)] \subseteq q.told[Len(q.told)] /\ p.told[1] \subseteq q.told[1]
  <2>1. Len(p.told) \in Nat /\ Len(p.told) >= 1
    BY SMTT(30), <1>1, Types DEF Bounded
  <2>2. CASE Len(p.told) = 1
    BY <1>2, <2>2 DEF Pushed
  <2>3. CASE Len(p.told) # 1
    BY SMTT(30), <1>2, <2>1, <2>3 DEF Pushed
  <2> QED
    BY <2>2, <2>3
<1>10. Pending(q)
  BY <1>1, <1>2, <1>9, NaturePending
<1> QED
  BY <1>1, <1>2, <1>4, <1>5, <1>6, <1>7, <1>8, <1>10 DEF Good

\* notify_fixed_assignment of a literal that is on the trail.
LEMMA FixedGood ==
    ASSUME NEW p, Good(p), NEW q, NEW lit \in Int,
           Abs(lit) \in Vars(p), p.info[Abs(lit)].active, p.info[Abs(lit)].assignment = lit,
           lit # 0, Valued(p, q, lit), q.told = p.told, q.assignments = p.assignments,
           q.info[Abs(lit)].fixed, q.info[Abs(lit)].fixedAt = UserLevel(p),
           q.info[Abs(lit)].atom => q.info[Abs(lit)].intro = 0
    PROVE  Good(q)
<1>1. /\ Typed(p) /\ Bounded(p) /\ Listed(p) /\ Ordered(p) /\ Activations(p)
      /\ Trail(p) /\ Marked(p) /\ InStep(p) /\ ClausesGuarded(p) /\ Pending(p)
  BY DEF Good
<1>2. /\ Typed(q) /\ SameNature(p, q)
      /\ q.activeVars = p.activeVars /\ q.control = p.control /\ q.activation = p.activation
      /\ q.propagations = p.propagations /\ q.newClauses = p.newClauses
      /\ q.db = p.db /\ q.failed = p.failed /\ q.asgControl = p.asgControl
      /\ q.renotify = p.renotify
  BY DEF Valued
<1>3. Bounded(q)
  BY <1>1, <1>2, ValuedBounds
<1>4. Listed(q) /\ Ordered(q) /\ Activations(q)
  BY <1>1, <1>2, NatureListed
<1>5. ClausesGuarded(q)
  BY <1>1, <1>2, NatureClauses
<1>6. Pending(q)
  BY <1>1, <1>2, NaturePending
<1> DEFINE u == Abs(lit)
<1>7. /\ Vars(q) = Vars(p) /\ \A w \in Vars(p) : w # u => q.info[w] = p.info[w]
      /\ q.info[u].assignment = lit /\ UserLevel(q) = UserLevel(p) /\ SameAtoms(p, q)
      /\ \A w \in Vars(p) : /\ q.info[w].intro = p.info[w].intro
                            /\ q.info[w].atom <=> p.info[w].atom
                            /\ q.info[w].active <=> p.info[w].active
      /\ u \in Vars(p) /\ q.info[u].fixed /\ p.info[u].assignment = lit
      /\ q.info[u].fixedAt = UserLevel(p) /\ p.info[u].active
  BY DEF Valued, SameNature, UserLevel, SameAtoms
<1>8. \A w \in Vars(p) : /\ q.info[w].assignment = p.info[w].assignment
                         /\ p.info[w].fixed => q.info[w].fixed
  <2> TAKE w \in Vars(p)
  <2>1. CASE w = u
    BY <1>7, <2>1
  <2>2. CASE w # u
    BY <1>7, <2>2
  <2> QED
    BY <2>1, <2>2
<1>9. Trail(q)
  BY <1>1, <1>7, <1>8 DEF Trail
<1>10. Marked(q)
  <2>1. BaseLen(q) = BaseLen(p)
    BY <1>2 DEF BaseLen
  <2>2. \A i \in 1..BaseLen(p) : i \in DOMAIN p.assignments
    BY <1>1, BaseIn, Types
  <2>3. \A i \in 1..BaseLen(p) : q.info[Abs(p.assignments[i])].fixed
    BY <1>1, <1>8, <2>2 DEF Trail, Marked
  <2>4. ASSUME NEW v \in Vars(q), q.info[v].fixed
        PROVE  /\ q.info[v].active => q.info[v].assignment # 0
               /\ q.info[v].atom => q.info[v].intro = 0
    <3>1. CASE v = u
      BY <1>7, <3>1 DEF u
    <3>2. CASE v # u
      <4>1. q.info[v] = p.info[v] /\ v \in Vars(p)
        BY <1>7, <3>2
      <4> QED
        BY <1>1, <2>4, <4>1 DEF Marked
    <3> QED
      BY <3>1, <3>2
  <2> QED
    BY <1>1, <1>2, <2>1, <2>3, <2>4 DEF Marked
<1>11. InStep(q)
  <2>1. \A n \in Nat : n <= Len(p.assignments) => AtomsTo(q, n) = AtomsTo(p, n)
    BY <1>1, <1>2, <1>7, AtomsSame
  <2>2. /\ Len(p.assignments) \in Nat
        /\ \A j \in DOMAIN p.asgControl :
              p.asgControl[j] \in Nat /\ p.asgControl[j] <= Len(p.assignments)
        /\ DOMAIN p.control = 1..UserLevel(p) /\ UserLevel(p) \in Nat
    BY <1>1, Types DEF Marked
  <2>3. /\ AtomsTo(q, Len(p.assignments)) = AtomsTo(p, Len(p.assignments))
        /\ \A j \in DOMAIN p.asgControl : AtomsTo(q, p.asgControl[j]) = AtomsTo(p, p.asgControl[j])
    BY <2>1, <2>2
  <2>4. ASSUME NEW k \in DOMAIN p.control, NEW i \in DOMAIN p.assignments,
               q.info[Abs(p.assignments[i])].atom, q.info[Abs(p.assignments[i])].fixed,
               q.info[Abs(p.assignments[i])].fixedAt < k
        PROVE  p.assignments[i] \in p.told[k] \union ToSet(p.renotify)
    <3>1. Abs(p.assignments[i]) # u
      BY <1>7, <2>2, <2>4
    <3>2. q.info[Abs(p.assignments[i])] = p.info[Abs(p.assignments[i])]
      BY <1>1, <1>7, <3>1 DEF Trail
    <3> QED
      BY <1>1, <2>4, <3>2 DEF InStep
  <2> QED
    BY <1>1, <1>2, <1>7, <2>3, <2>4 DEF InStep
<1> QED
  BY <1>1, <1>2, <1>3, <1>4, <1>5, <1>6, <1>9, <1>10, <1>11 DEF Good

LEMMA EnqueueFields ==
    ASSUME NEW p, Shape(p), p.told \in Seq(SUBSET Int), p.told # <<>>,
           NEW lits \in SUBSET Int, NEW q, q = Enqueue(p, lits)
    PROVE  /\ Shape(q) /\ Told(p, q, lits)
           /\ q.info = p.info /\ q.activeVars = p.activeVars
           /\ q.control = p.control /\ q.activation = p.activation
           /\ q.renotify = p.renotify /\ q.assignments = p.assignments
           /\ q.asgControl = p.asgControl /\ q.propagations = p.propagations
           /\ q.newClauses = p.newClauses /\ q.found = p.found
           /\ q.db = p.db /\ q.failed = p.failed
<1>1. /\ Shape(q) /\ q.told = [p.told EXCEPT ![Len(p.told)] = @ \union lits]
      /\ q.info = p.info /\ q.activeVars = p.activeVars
      /\ q.control = p.control /\ q.activation = p.activation
      /\ q.renotify = p.renotify /\ q.assignments = p.assignments
      /\ q.asgControl = p.asgControl /\ q.propagations = p.propagations
      /\ q.newClauses = p.newClauses /\ q.found = p.found
      /\ q.db = p.db /\ q.failed = p.failed
  BY DEF Enqueue, Shape, Fields
<1>2. Told(p, q, lits)
  <2>1. Len(p.told) \in Nat /\ Len(p.told) \in DOMAIN p.told /\ DOMAIN p.told = 1..Len(p.told)
    OBVIOUS
  <2>2. p.told[Len(p.told)] \union lits \in SUBSET Int
    <3>1. p.told[Len(p.told)] \in SUBSET Int
      BY <2>1
    <3> QED
      BY <3>1
  <2> QED
    BY <1>1, <2>1, <2>2 DEF Told
<1> QED
  BY <1>1, <1>2

LEMMA InfoUpdate ==
    ASSUME NEW info \in Seq(VarInfo), NEW v \in 1..Len(info), NEW r \in VarInfo,
           NEW new, new = [info EXCEPT ![v] = r]
    PROVE  /\ new \in Seq(VarInfo) /\ Len(new) = Len(info)
           /\ \A w \in 1..Len(info) : w # v => new[w] = info[w]
           /\ new[v] = r
  OBVIOUS

\* notify_assignment puts a literal on the trail and tells the theories of it.
LEMMA AssignFields ==
    ASSUME NEW p, Typed(p), p.told # <<>>, NEW lit \in Int, Abs(lit) \in Vars(p),
           p.info[Abs(lit)].active, p.info[Abs(lit)].assignment = 0, ~p.found,
           NEW q, q = NotifyAssignment(p, lit)
    PROVE  /\ Valued(p, q, lit) /\ Pushed(p, q, lit)
           /\ q.info[Abs(lit)].fixed <=> p.info[Abs(lit)].fixed
           /\ q.info[Abs(lit)].fixedAt = p.info[Abs(lit)].fixedAt
<1> DEFINE v == Abs(lit)
           r == [p.info[v] EXCEPT !.assignment = lit]
           a == [p EXCEPT !.info[v].assignment = lit, !.assignments = Append(@, lit)]
<1>1. /\ Len(p.info) \in Nat /\ Vars(p) = 1..Len(p.info) /\ p.info[v] \in VarInfo
      /\ p.info \in Seq(VarInfo) /\ p.assignments \in Seq(Int) /\ p.told \in Seq(SUBSET Int)
      /\ Shape(p) /\ Len(p.told) \in Nat
  BY Types DEF Typed
<1>2. q = IF p.info[v].atom THEN Enqueue(a, {lit}) ELSE a
  BY DEF NotifyAssignment
<1>3. /\ Shape(a) /\ a.info = [p.info EXCEPT ![v] = r]
      /\ a.assignments = Append(p.assignments, lit)
      /\ a.activeVars = p.activeVars /\ a.control = p.control
      /\ a.activation = p.activation /\ a.renotify = p.renotify
      /\ a.asgControl = p.asgControl /\ a.propagations = p.propagations
      /\ a.newClauses = p.newClauses /\ a.found = p.found /\ a.told = p.told
      /\ a.db = p.db /\ a.failed = p.failed
  BY <1>1 DEF Shape, Fields
<1>4. /\ r \in VarInfo /\ r.assignment = lit /\ r.intro = p.info[v].intro
      /\ r.atom <=> p.info[v].atom
      /\ r.active <=> p.info[v].active
      /\ r.fixed <=> p.info[v].fixed
      /\ r.fixedAt = p.info[v].fixedAt
  BY <1>1 DEF VarInfo
<1>5. /\ q.info = a.info /\ q.assignments = a.assignments /\ Shape(q)
      /\ q.activeVars = p.activeVars /\ q.control = p.control
      /\ q.activation = p.activation /\ q.renotify = p.renotify
      /\ q.asgControl = p.asgControl /\ q.propagations = p.propagations
      /\ q.newClauses = p.newClauses /\ q.found = p.found
      /\ q.db = p.db /\ q.failed = p.failed
      /\ Told(p, q, {l \in {lit} : p.info[v].atom})
  <2> HIDE DEF a
  <2>1. CASE p.info[v].atom
    <3>1. a.told \in Seq(SUBSET Int) /\ a.told # <<>> /\ {lit} \in SUBSET Int
      BY <1>1, <1>3
    <3>2. q = Enqueue(a, {lit})
      BY <1>2, <2>1
    <3>3. /\ Shape(q) /\ Told(a, q, {lit})
          /\ q.info = a.info /\ q.activeVars = a.activeVars
          /\ q.control = a.control /\ q.activation = a.activation
          /\ q.renotify = a.renotify /\ q.assignments = a.assignments
          /\ q.asgControl = a.asgControl /\ q.propagations = a.propagations
          /\ q.newClauses = a.newClauses /\ q.found = a.found
          /\ q.db = a.db /\ q.failed = a.failed
      BY <1>3, <3>1, <3>2, EnqueueFields
    <3>4. {l \in {lit} : p.info[v].atom} = {lit}
      BY <2>1
    <3>5. Told(p, q, {lit})
      <4>1. a.told = p.told
        BY <1>3
      <4> QED
        BY ZenonT(60), <3>3, <4>1 DEF Told
    <3>6. Told(p, q, {l \in {lit} : p.info[v].atom})
      BY <3>4, <3>5, Zenon
    <3> QED
      BY <1>3, <3>3, <3>6
  <2>2. CASE ~p.info[v].atom
    <3>1. q = a
      BY <1>2, <2>2
    <3>2. {l \in {lit} : p.info[v].atom} = {}
      BY <2>2
    <3> QED
      BY <1>1, <1>3, <3>1, <3>2 DEF Told
  <2> QED
    BY <2>1, <2>2
<1> HIDE DEF r, a
<1>6. /\ q.info \in Seq(VarInfo) /\ Len(q.info) = Len(p.info)
      /\ \A w \in 1..Len(p.info) : w # v => q.info[w] = p.info[w]
      /\ q.info[v] = r
  BY <1>1, <1>3, <1>4, <1>5, InfoUpdate
<1>7. /\ q.assignments \in Seq(Int) /\ Len(q.assignments) = Len(p.assignments) + 1
      /\ \A i \in 1..Len(p.assignments) : q.assignments[i] = p.assignments[i]
      /\ q.assignments[Len(p.assignments) + 1] = lit
  BY <1>1, <1>3, <1>5, Appending
<1>8. Typed(q)
  BY <1>5, <1>6, <1>7 DEF Typed, Told
<1>9. Vars(q) = Vars(p)
  BY <1>1, <1>6, <1>8, Types
<1>10. SameNature(p, q)
  <2>1. ASSUME NEW w \in Vars(p)
        PROVE  /\ q.info[w].intro = p.info[w].intro
               /\ q.info[w].atom <=> p.info[w].atom
               /\ q.info[w].active <=> p.info[w].active
    <3>1. CASE w = v
      BY <1>4, <1>6, <3>1
    <3>2. CASE w # v
      BY <1>1, <1>6, <3>2
    <3> QED
      BY <3>1, <3>2
  <2> QED
    BY <1>9, <2>1 DEF SameNature
<1>11. Valued(p, q, lit)
  BY <1>1, <1>4, <1>5, <1>6, <1>8, <1>10 DEF Valued
<1>12. Pushed(p, q, lit)
  BY <1>5, <1>7 DEF Pushed, Told
<1>13. /\ q.info[v].fixed <=> p.info[v].fixed
       /\ q.info[v].fixedAt = p.info[v].fixedAt
  BY <1>4, <1>6
<1> QED
  BY <1>11, <1>12, <1>13

LEMMA AssignGood ==
    ASSUME NEW p, Good(p), NEW lit \in Int, Abs(lit) \in Vars(p),
           p.info[Abs(lit)].active, p.info[Abs(lit)].assignment = 0, ~p.found,
           p.asgControl # <<>>, NEW q, q = NotifyAssignment(p, lit)
    PROVE  Good(q) /\ Valued(p, q, lit) /\ Pushed(p, q, lit)
<1>1. Typed(p) /\ Bounded(p) /\ Marked(p)
  BY DEF Good
<1>2. p.told # <<>>
  BY <1>1, Types DEF Bounded
<1>3. /\ Valued(p, q, lit) /\ Pushed(p, q, lit)
      /\ q.info[Abs(lit)].fixed <=> p.info[Abs(lit)].fixed
  BY <1>1, <1>2, AssignFields
<1>4. q.info[Abs(lit)].fixed /\ q.info[Abs(lit)].atom => q.info[Abs(lit)].intro = 0
  <2>1. ~p.info[Abs(lit)].fixed
    BY <1>1 DEF Marked
  <2> QED
    BY <1>3, <2>1
<1> QED
  BY <1>3, <1>4, PushedGood

-----------------------------------------------------------------------------
(* What CaDiCaL may fix.  From a model of the clauses one gets another by   *)
(* making the activation literals true and turning an atom above user      *)
(* level 0 around: no such atom is entailed.                               *)

LEMMA EntailedLow ==
    ASSUME NEW p, Typed(p), ClausesGuarded(p), NEW lit \in Int, Abs(lit) \in Vars(p),
           p.info[Abs(lit)].active, p.info[Abs(lit)].atom, Entails(p, lit)
    PROVE  p.info[Abs(lit)].intro = 0
<1> DEFINE v == Abs(lit)
<1>1. /\ Vars(p) = 1..Len(p.info) /\ Len(p.info) \in Nat /\ p.info[v].intro \in Nat
      /\ \A w \in Vars(p) : p.info[w].atom \in BOOLEAN
  BY Types
<1> SUFFICES ASSUME p.info[v].intro > 0 PROVE FALSE
  BY <1>1
<1>2. PICK m \in [Vars(p) -> BOOLEAN] : Satisfies(m, p.db)
  BY DEF Entails, Models
<1> DEFINE n == [w \in Vars(p) |->
                   IF w = v THEN ~m[v] ELSE (~p.info[w].atom \/ m[w])]
<1>3. n \in [Vars(p) -> BOOLEAN] /\ v \in Vars(p)
  BY <1>2, Zenon
<1>4. /\ n[v] <=> ~m[v]
      /\ \A w \in Vars(p) : w # v /\ ~p.info[w].atom => n[w]
      /\ \A w \in Vars(p) : w # v /\ m[w] => n[w]
      /\ \A w \in Vars(p) : w # v /\ p.info[w].atom => (n[w] <=> m[w])
  BY <1>3, Zenon
<1> HIDE DEF n
<1>5. \A c \in p.db : \E l \in c : n[Abs(l)] = (l > 0)
  <2> TAKE c \in p.db
  <2>0. c \in SUBSET Int
    BY DEF Typed
  <2>1. PICK l \in c : m[Abs(l)] = (l > 0)
    BY <1>2 DEF Satisfies
  <2>2. CASE \E x \in Vars(p) : ~p.info[x].active /\ c = {x}
    <3>1. PICK x \in Vars(p) : ~p.info[x].active /\ c = {x}
      BY <2>2
    <3>2. l = x /\ x > 0 /\ Abs(x) = x /\ x # v
      BY <1>1, <2>1, <3>1 DEF Abs
    <3>3. m[x]
      BY <2>1, <3>2
    <3>4. n[x] /\ n[x] \in BOOLEAN
      BY <1>3, <1>4, <3>1, <3>2, <3>3
    <3> QED
      BY <2>1, <3>2, <3>4
  <2>3. CASE Guarded(p, c)
    <3>1. CASE \E a \in c : a > 0 /\ ~p.info[a].atom
      <4>1. PICK a \in c : a > 0 /\ ~p.info[a].atom
        BY <3>1
      <4>2. Abs(a) = a /\ a \in Vars(p) /\ a # v
        BY <2>0, <2>3, <4>1 DEF Guarded, Abs
      <4>3. n[a] /\ n[a] \in BOOLEAN
        BY <1>3, <1>4, <4>1, <4>2
      <4> QED
        BY <4>1, <4>2, <4>3
    <3>2. CASE ~\E a \in c : a > 0 /\ ~p.info[a].atom
      <4>1. /\ Abs(l) \in Vars(p) /\ l \in Int
            /\ l < 0 => p.info[Abs(l)].atom
            /\ ~(p.info[Abs(l)].atom /\ p.info[Abs(l)].intro > 0)
        BY <2>0, <2>3, <3>2 DEF Guarded
      <4>2. Abs(l) # v
        BY <4>1
      <4>3. p.info[Abs(l)].atom
        <5>1. l < 0 \/ l > 0
          BY <1>1, <4>1 DEF Abs
        <5>2. CASE l > 0
          BY <3>2, <4>1, <5>2 DEF Abs
        <5> QED
          BY <4>1, <5>1, <5>2
      <4>4. n[Abs(l)] <=> m[Abs(l)]
        BY <1>4, <4>1, <4>2, <4>3
      <4>5. n[Abs(l)] \in BOOLEAN /\ m[Abs(l)] \in BOOLEAN
        BY <1>2, <1>3, <4>1
      <4>6. n[Abs(l)] = m[Abs(l)]
        BY <4>4, <4>5, Zenon
      <4> QED
        BY <2>1, <4>6
    <3> QED
      BY <3>1, <3>2
  <2> QED
    BY <2>2, <2>3 DEF ClausesGuarded
<1>6. n \in Models(p) /\ m \in Models(p)
  BY <1>2, <1>3, <1>5 DEF Models, Satisfies
<1>7. m[v] = (lit > 0) /\ n[v] = (lit > 0)
  BY <1>6 DEF Entails
<1> QED
  BY <1>4, <1>7, Zenon

LEMMA Replacing ==
    ASSUME NEW p, Typed(p), NEW v \in Vars(p), NEW r \in VarInfo, NEW x,
           x = [p EXCEPT !.info[v] = r]
    PROVE  Replaced(p, x, v, r)
<1>1. /\ v \in 1..Len(p.info) /\ p.info \in Seq(VarInfo) /\ Shape(p)
  BY Types DEF Typed
<1>2. /\ Shape(x) /\ x.info = [p.info EXCEPT ![v] = r]
      /\ x.activeVars = p.activeVars /\ x.control = p.control
      /\ x.activation = p.activation /\ x.renotify = p.renotify
      /\ x.asgControl = p.asgControl /\ x.propagations = p.propagations
      /\ x.newClauses = p.newClauses /\ x.found = p.found /\ x.told = p.told
      /\ x.db = p.db /\ x.failed = p.failed /\ x.assignments = p.assignments
  BY <1>1 DEF Shape, Fields
<1>3. /\ x.info \in Seq(VarInfo) /\ Len(x.info) = Len(p.info)
      /\ \A w \in 1..Len(p.info) : w # v => x.info[w] = p.info[w]
      /\ x.info[v] = r
  BY <1>1, <1>2, InfoUpdate
<1> QED
  BY <1>2, <1>3 DEF Replaced, Typed

LEMMA FlagFields ==
    ASSUME NEW p, Typed(p), NEW v \in Vars(p), NEW y, NEW b \in BOOLEAN,
           y = [p EXCEPT !.info[v].fixed = b]
    PROVE  Replaced(p, y, v, [p.info[v] EXCEPT !.fixed = b])
<1>1. [p.info[v] EXCEPT !.fixed = b] \in VarInfo
  <2>1. p.info[v] \in VarInfo
    BY Types
  <2> QED
    BY <2>1 DEF VarInfo
<1>2. y = [p EXCEPT !.info[v] = [p.info[v] EXCEPT !.fixed = b]]
  OBVIOUS
<1> QED
  BY <1>1, <1>2, Replacing

LEMMA LevelFields ==
    ASSUME NEW y, Typed(y), NEW v \in Vars(y), NEW x, NEW n \in Nat,
           x = [y EXCEPT !.info[v].fixedAt = n]
    PROVE  Replaced(y, x, v, [y.info[v] EXCEPT !.fixedAt = n])
<1>1. [y.info[v] EXCEPT !.fixedAt = n] \in VarInfo
  <2>1. y.info[v] \in VarInfo
    BY Types
  <2> QED
    BY <2>1 DEF VarInfo
<1>2. x = [y EXCEPT !.info[v] = [y.info[v] EXCEPT !.fixedAt = n]]
  OBVIOUS
<1> QED
  BY <1>1, <1>2, Replacing

LEMMA FixedBy ==
    ASSUME NEW p, Typed(p), NEW v \in Vars(p), NEW b \in BOOLEAN, b,
           NEW y, y = [p EXCEPT !.info[v].fixed = b],
           NEW x, x = [y EXCEPT !.info[v].fixedAt = UserLevel(p)]
    PROVE  FixedAs(p, x, v)
<1> DEFINE r == [p.info[v] EXCEPT !.fixed = b]
           z == [y.info[v] EXCEPT !.fixedAt = UserLevel(p)]
<1>1. UserLevel(p) \in Nat /\ Vars(p) = 1..Len(p.info) /\ p.info[v] \in VarInfo
  BY Types
<1>2. Replaced(p, y, v, r)
  BY FlagFields
<1>3. /\ r \in VarInfo /\ r.assignment = p.info[v].assignment /\ r.intro = p.info[v].intro
      /\ r.atom <=> p.info[v].atom
      /\ r.active <=> p.info[v].active
      /\ r.fixed
  BY <1>1 DEF VarInfo
<1> HIDE DEF r
<1>4. Typed(y) /\ y.info[v] = r /\ Len(y.info) = Len(p.info)
  BY <1>2 DEF Replaced
<1>5. v \in Vars(y) /\ Vars(y) = Vars(p)
  BY <1>1, <1>4, Types
<1>6. Replaced(y, x, v, z)
  BY <1>1, <1>4, <1>5, LevelFields
<1>7. /\ z.assignment = r.assignment /\ z.intro = r.intro
      /\ z.atom <=> r.atom
      /\ z.active <=> r.active
      /\ z.fixed <=> r.fixed
      /\ z.fixedAt = UserLevel(p)
  BY <1>3, <1>4 DEF VarInfo
<1> HIDE DEF z
<1>8. Typed(x) /\ Vars(x) = Vars(p) /\ x.info[v] = z
      /\ \A w \in Vars(p) : w # v => x.info[w] = p.info[w]
  <2>1. /\ Typed(x) /\ x.info[v] = z /\ Len(x.info) = Len(p.info)
        /\ \A w \in 1..Len(p.info) : w # v => x.info[w] = p.info[w]
    BY ZenonT(60), <1>2, <1>6 DEF Replaced
  <2> QED
    BY ZenonT(60), <1>1, <2>1, Types
<1>9. SameNature(p, x)
  <2>1. ASSUME NEW w \in Vars(p)
        PROVE  /\ x.info[w].intro = p.info[w].intro
               /\ x.info[w].atom <=> p.info[w].atom
               /\ x.info[w].active <=> p.info[w].active
    <3>1. CASE w = v
      BY <1>3, <1>7, <1>8, <3>1
    <3>2. CASE w # v
      BY <1>8, <3>2
    <3> QED
      BY <3>1, <3>2
  <2> QED
    BY <1>8, <2>1 DEF SameNature
<1>10. /\ x.info[v].assignment = p.info[v].assignment
       /\ x.info[v].fixed /\ x.info[v].fixedAt = UserLevel(p)
  BY <1>3, <1>7, <1>8
<1> QED
  BY ZenonT(60), <1>2, <1>6, <1>8, <1>9, <1>10 DEF FixedAs, Replaced

LEMMA FixedFields ==
    ASSUME NEW p, Typed(p), NEW v \in Vars(p), NEW x,
           x = [p EXCEPT !.info[v].fixed = TRUE, !.info[v].fixedAt = UserLevel(p)]
    PROVE  FixedAs(p, x, v)
<1>1. PICK b \in BOOLEAN : b = TRUE
  BY Zenon
<1>2. PICK y : y = [p EXCEPT !.info[v].fixed = b]
  BY Zenon
<1>3. b /\ x = [y EXCEPT !.info[v].fixedAt = UserLevel(p)]
  BY <1>1, <1>2, Zenon
<1> QED
  BY <1>2, <1>3, FixedBy, Zenon

\* notify_fixed_assignment: the variable is fixed, and the literal is put on the
\* trail unless it is there.
LEMMA FixGood ==
    ASSUME NEW p, Good(p), NEW lit \in Int, Abs(lit) \in Vars(p),
           p.info[Abs(lit)].active, p.info[Abs(lit)].assignment \in {0, lit}, ~p.found,
           ~p.info[Abs(lit)].fixed, Entails(p, lit),
           NEW q, q = NotifyFixedAssignment(p, lit)
    PROVE  /\ Good(q) /\ Valued(p, q, lit)
           /\ Len(q.told) = Len(p.told)
           /\ \A i \in 1..Len(p.told) : p.told[i] \subseteq q.told[i]
<1> DEFINE v == Abs(lit)
           x == [p EXCEPT !.info[v].fixed = TRUE, !.info[v].fixedAt = UserLevel(p)]
<1>1. Typed(p) /\ Bounded(p) /\ Marked(p) /\ ClausesGuarded(p)
  BY DEF Good
<1>2. q = NotifyAssignment(x, lit)
  BY DEF NotifyFixedAssignment, Check
<1>3. FixedAs(p, x, v)
  BY <1>1, FixedFields
<1> HIDE DEF x
<1>4. /\ Typed(x) /\ x.told = p.told /\ x.found = p.found /\ Vars(x) = Vars(p)
      /\ x.info[v].active /\ x.info[v].assignment = p.info[v].assignment
      /\ x.info[v].fixed /\ x.info[v].fixedAt = UserLevel(p)
      /\ x.assignments = p.assignments
      /\ x.info[v].intro = p.info[v].intro
      /\ x.info[v].atom <=> p.info[v].atom
  BY <1>3 DEF FixedAs, SameNature
<1>5. p.told # <<>> /\ lit # 0 /\ Len(p.told) \in Nat
  BY <1>1, Types DEF Bounded, Abs
<1>6. p.info[v].atom => p.info[v].intro = 0
  BY <1>1, EntailedLow
<1>7. CASE p.info[v].assignment = 0
  <2>1. /\ Valued(x, q, lit) /\ Pushed(x, q, lit)
        /\ q.info[v].fixed <=> x.info[v].fixed
        /\ q.info[v].fixedAt = x.info[v].fixedAt
    BY <1>2, <1>4, <1>5, <1>7, AssignFields
  <2>2. Pushed(p, q, lit)
    BY <1>4, <2>1 DEF Pushed
  <2>3. SameNature(p, q)
    <3>1. SameNature(p, x) /\ SameNature(x, q)
      BY <1>3, <2>1 DEF FixedAs, Valued
    <3> QED
      BY <3>1 DEF SameNature
  <2>4. /\ Typed(q) /\ q.info[v].assignment = lit
        /\ \A w \in Vars(p) : w # v => q.info[w] = p.info[w]
        /\ q.activeVars = p.activeVars /\ q.control = p.control /\ q.activation = p.activation
        /\ q.renotify = p.renotify /\ q.asgControl = p.asgControl
        /\ q.propagations = p.propagations /\ q.newClauses = p.newClauses
        /\ q.found = p.found /\ q.db = p.db /\ q.failed = p.failed
    BY <1>3, <1>4, <2>1 DEF FixedAs, Valued
  <2>5. Valued(p, q, lit)
    BY <1>4, <2>1, <2>3, <2>4 DEF Valued
  <2>6. q.info[v].fixed /\ (q.info[v].atom => q.info[v].intro = 0)
    BY <1>4, <1>6, <2>1, <2>3 DEF SameNature
  <2>7. Good(q)
    BY <1>7, <2>2, <2>5, <2>6, PushedGood
  <2>8. /\ Len(q.told) = Len(p.told)
        /\ \A i \in 1..Len(p.told) : p.told[i] \subseteq q.told[i]
    <3>1. \A i \in 1..Len(p.told) : i \in 1..Len(p.told) - 1 \/ i = Len(p.told)
      BY <1>5
    <3> QED
      BY <2>2, <3>1 DEF Pushed
  <2> QED
    BY <2>5, <2>7, <2>8
<1>8. CASE p.info[v].assignment = lit
  <2>1. q = x
    BY <1>2, <1>4, <1>5, <1>8 DEF NotifyAssignment, Check
  <2>2. Valued(p, q, lit)
    BY <1>3, <1>8, <2>1 DEF FixedAs, Valued
  <2>3. Good(q)
    BY <1>4, <1>5, <1>6, <1>8, <2>1, <2>2, FixedGood
  <2> QED
    BY <1>4, <2>1, <2>2, <2>3
<1> QED
  BY <1>7, <1>8

-----------------------------------------------------------------------------
(* A new decision level. *)

LEMMA DecisionFields ==
    ASSUME NEW p, Typed(p), p.told # <<>>, NEW q, q = NotifyNewDecisionLevel(p)
    PROVE  Levelled(p, q)
<1>1. /\ p.told \in Seq(SUBSET Int) /\ p.asgControl \in Seq(Nat) /\ Shape(p)
      /\ Len(p.assignments) \in Nat /\ Len(p.told) \in Nat /\ Len(p.told) >= 1
      /\ p.told[Len(p.told)] \in SUBSET Int
  BY SMTT(30), Types DEF Typed
<1>2. Known(p) = p.told[Len(p.told)]
  BY <1>1, LastIs DEF Known
<1>3. /\ Shape(q) /\ q.told = Append(p.told, p.told[Len(p.told)])
      /\ q.asgControl = Append(p.asgControl, Len(p.assignments))
      /\ q.info = p.info /\ q.activeVars = p.activeVars /\ q.control = p.control
      /\ q.activation = p.activation /\ q.renotify = p.renotify
      /\ q.assignments = p.assignments /\ q.propagations = p.propagations
      /\ q.newClauses = p.newClauses /\ q.found = p.found /\ q.db = p.db
      /\ q.failed = p.failed
  BY <1>1, <1>2 DEF NotifyNewDecisionLevel, Shape, Fields
<1>4. /\ q.told \in Seq(SUBSET Int) /\ Len(q.told) = Len(p.told) + 1
      /\ \A i \in 1..Len(p.told) : q.told[i] = p.told[i]
      /\ q.told[Len(p.told) + 1] = p.told[Len(p.told)]
  BY <1>1, <1>3, Appending
<1>5. /\ q.asgControl \in Seq(Nat) /\ Decisions(q) = Decisions(p) + 1
      /\ \A j \in 1..Decisions(p) : q.asgControl[j] = p.asgControl[j]
      /\ q.asgControl[Decisions(p) + 1] = Len(p.assignments)
  BY <1>1, <1>3, Appending DEF Decisions
<1> QED
  BY <1>3, <1>4, <1>5 DEF Levelled, Typed

LEMMA DecisionGood ==
    ASSUME NEW p, Good(p), p.renotify = <<>>, NEW q, q = NotifyNewDecisionLevel(p)
    PROVE  Good(q) /\ Levelled(p, q)
<1>1. /\ Typed(p) /\ Bounded(p) /\ Listed(p) /\ Ordered(p) /\ Activations(p)
      /\ Trail(p) /\ Marked(p) /\ InStep(p) /\ ClausesGuarded(p) /\ Pending(p)
  BY DEF Good
<1>2. p.told # <<>> /\ Len(p.told) \in Nat /\ Len(p.told) >= 1
      /\ Len(p.told) = 1 + UserLevel(p) + Decisions(p)
  BY <1>1, Types DEF Bounded
<1>3. Levelled(p, q)
  BY <1>1, <1>2, DecisionFields
<1>4. /\ Typed(q) /\ q.info = p.info /\ q.activeVars = p.activeVars /\ q.control = p.control
      /\ q.activation = p.activation /\ q.renotify = p.renotify
      /\ q.assignments = p.assignments /\ q.propagations = p.propagations
      /\ q.newClauses = p.newClauses /\ q.db = p.db /\ q.failed = p.failed
      /\ UserLevel(q) = UserLevel(p) /\ Vars(q) = Vars(p)
  BY <1>3 DEF Levelled, UserLevel, Vars
<1> DEFINE d == Decisions(p)
           n == Len(p.assignments)
           top == Len(p.told)
<1>5. /\ d \in Nat /\ n \in Nat /\ UserLevel(p) \in Nat
      /\ DOMAIN p.asgControl = 1..d /\ DOMAIN q.asgControl = 1..d + 1
      /\ DOMAIN p.told = 1..top /\ DOMAIN q.told = 1..top + 1 /\ Len(q.told) = top + 1
      /\ Decisions(q) = d + 1
      /\ \A j \in 1..d : p.asgControl[j] \in Nat
      /\ p.asgControl = <<>> <=> d = 0
      /\ q.asgControl # <<>>
  <2>1. /\ DOMAIN q.asgControl = 1..Decisions(q) /\ DOMAIN q.told = 1..Len(q.told)
        /\ q.asgControl = <<>> <=> Decisions(q) = 0
    BY <1>4, Types
  <2>2. Decisions(q) = d + 1 /\ Len(q.told) = top + 1
    BY <1>3 DEF Levelled
  <2>3. /\ d \in Nat /\ n \in Nat /\ UserLevel(p) \in Nat
        /\ DOMAIN p.asgControl = 1..d /\ DOMAIN p.told = 1..top
        /\ \A j \in 1..d : p.asgControl[j] \in Nat
        /\ p.asgControl = <<>> <=> d = 0
    BY <1>1, Types
  <2> QED
    BY <2>1, <2>2, <2>3
<1>6. /\ \A i \in 1..top : q.told[i] = p.told[i]
      /\ q.told[top + 1] = p.told[top]
      /\ \A j \in 1..d : q.asgControl[j] = p.asgControl[j]
      /\ q.asgControl[d + 1] = n
      /\ top = 1 + UserLevel(p) + d /\ top \in Nat
  BY <1>2, <1>3 DEF Levelled
<1>7. Bounded(q)
  BY <1>1, <1>4, <1>5, <1>6 DEF Bounded
<1>8. Listed(q) /\ Ordered(q) /\ Activations(q)
  BY <1>1, <1>4 DEF Listed, Ordered, Activations
<1>9. Trail(q)
  BY <1>1, <1>4 DEF Trail
<1>10. ClausesGuarded(q)
  BY <1>1, <1>4 DEF ClausesGuarded, Guarded
<1> HIDE DEF d, n, top
<1>11. /\ \A j \in 1..d + 1 : j \in 1..d \/ j = d + 1
       /\ \A i \in 1..top + 1 : i \in 1..top \/ i = top + 1
       /\ top \in 1..top
  BY SMTT(30), <1>5, <1>6
<1>12. Pending(q)
  <2>1. q.told[Len(q.told)] = p.told[Len(p.told)]
    BY <1>5, <1>6 DEF top
  <2> QED
    BY <1>1, <1>4, <1>5, <2>1 DEF Pending
<1>13. Marked(q)
  <2>1. /\ \A j \in 1..d : p.asgControl[j] <= n
        /\ \A j, k \in 1..d : j <= k => p.asgControl[j] <= p.asgControl[k]
        /\ \A i \in 1..BaseLen(p) : p.info[Abs(p.assignments[i])].fixed
    BY <1>1, <1>5 DEF Marked, n
  <2>2. BaseLen(q) = BaseLen(p)
    <3>1. CASE d = 0
      BY <1>5, <1>6, <3>1 DEF BaseLen, n
    <3>2. CASE d # 0
      <4>1. 1 \in 1..d
        BY <1>5, <3>2
      <4> QED
        BY <1>5, <1>6, <3>2, <4>1 DEF BaseLen
    <3> QED
      BY <3>1, <3>2
  <2>3. \A j \in 1..d + 1 : q.asgControl[j] <= n
    <3> TAKE j \in 1..d + 1
    <3>1. CASE j \in 1..d
      BY <1>6, <2>1, <3>1
    <3>2. CASE j = d + 1
      BY <1>5, <1>6, <3>2
    <3> QED
      BY <1>11, <3>1, <3>2
  <2>4. \A j, k \in 1..d + 1 : j <= k => q.asgControl[j] <= q.asgControl[k]
    <3> SUFFICES ASSUME NEW j \in 1..d + 1, NEW k \in 1..d + 1, j <= k
                 PROVE  q.asgControl[j] <= q.asgControl[k]
      OBVIOUS
    <3>1. CASE k = d + 1
      BY <1>6, <2>3, <3>1
    <3>2. CASE k \in 1..d
      <4>1. j \in 1..d
        BY <1>5, <3>2
      <4> QED
        BY <1>6, <2>1, <3>2, <4>1
    <3> QED
      BY <1>11, <3>1, <3>2
  <2>5. \A v \in Vars(p) : p.info[v].fixed =>
          /\ p.info[v].active => p.info[v].assignment # 0
          /\ p.info[v].atom => p.info[v].intro = 0
    BY <1>1 DEF Marked
  <2> QED
    BY SMTT(30), <1>4, <1>5, <2>1, <2>2, <2>3, <2>4, <2>5 DEF Marked, n
<1>14. InStep(q)
  <2>1. \A k : AtomsTo(q, k) = AtomsTo(p, k)
    BY <1>4 DEF AtomsTo
  <2>2. /\ \A i, j \in 1..top : i <= j => p.told[i] \subseteq p.told[j]
        /\ \A j \in 1..d : p.told[UserLevel(p) + j] = AtomsTo(p, p.asgControl[j])
        /\ p.told[top] \union ToSet(p.renotify) = AtomsTo(p, n)
        /\ \A k \in DOMAIN p.control, i \in DOMAIN p.assignments :
              LET v == Abs(p.assignments[i]) IN
              p.info[v].atom /\ p.info[v].fixed /\ p.info[v].fixedAt < k =>
                 p.assignments[i] \in p.told[k] \union ToSet(p.renotify)
    BY <1>1, <1>5 DEF InStep, n, top
  <2>3. ToSet(p.renotify) = {}
    BY DEF ToSet
  <2>4. \A i, j \in 1..top + 1 : i <= j => q.told[i] \subseteq q.told[j]
    <3> SUFFICES ASSUME NEW i \in 1..top + 1, NEW j \in 1..top + 1, i <= j
                 PROVE  q.told[i] \subseteq q.told[j]
      OBVIOUS
    <3>1. CASE j \in 1..top
      <4>1. i \in 1..top
        BY <1>6, <3>1
      <4> QED
        BY <1>6, <2>2, <3>1, <4>1
    <3>2. CASE j = top + 1 /\ i = top + 1
      BY <3>2
    <3>3. CASE j = top + 1 /\ i \in 1..top
      <4>1. p.told[i] \subseteq p.told[top]
        BY <1>6, <1>11, <2>2, <3>3
      <4> QED
        BY <1>6, <3>3, <4>1
    <3> QED
      BY <1>11, <3>1, <3>2, <3>3
  <2>5. \A j \in 1..d + 1 : q.told[UserLevel(p) + j] = AtomsTo(q, q.asgControl[j])
    <3> TAKE j \in 1..d + 1
    <3>1. CASE j \in 1..d
      <4>1. UserLevel(p) + j \in 1..top
        <5>1. UserLevel(p) \in Nat /\ d \in Nat /\ top = 1 + UserLevel(p) + d
          BY <1>5, <1>6
        <5> QED
          BY <3>1, <5>1
      <4> QED
        BY <1>6, <2>1, <2>2, <3>1, <4>1
    <3>2. CASE j = d + 1
      <4>1. UserLevel(p) + j = top
        BY <1>5, <1>6, <3>2
      <4> QED
        BY ZenonT(60), <1>6, <1>11, <2>1, <2>2, <2>3, <3>2, <4>1
    <3> QED
      BY <1>11, <3>1, <3>2
  <2>6. \A k \in DOMAIN p.control : q.told[k] = p.told[k]
    <3>1. \A k \in DOMAIN p.control : k \in 1..top
      <4>1. DOMAIN p.control = 1..UserLevel(p)
        BY <1>1, Types
      <4>2. UserLevel(p) \in Nat /\ d \in Nat /\ top = 1 + UserLevel(p) + d
        BY <1>5, <1>6
      <4> QED
        BY <4>1, <4>2
    <3> QED
      BY <1>6, <3>1
  <2>7. q.told[Len(q.told)] \union ToSet(q.renotify) = AtomsTo(q, Len(q.assignments))
    BY <1>4, <1>5, <1>6, <2>1, <2>2 DEF n
  <2>8. \A k \in DOMAIN q.control, i \in DOMAIN q.assignments :
           LET v == Abs(q.assignments[i]) IN
           q.info[v].atom /\ q.info[v].fixed /\ q.info[v].fixedAt < k =>
              q.assignments[i] \in q.told[k] \union ToSet(q.renotify)
    BY <1>4, <2>2, <2>6
  <2> QED
    BY ZenonT(60), <1>4, <1>5, <2>4, <2>5, <2>7, <2>8 DEF InStep
<1> QED
  BY <1>1, <1>3, <1>4, <1>7, <1>8, <1>9, <1>10, <1>12, <1>13, <1>14 DEF Good

-----------------------------------------------------------------------------
(* Backtracking. *)

LEMMA UndoneTrail ==
    ASSUME NEW p, NEW q, NEW level \in Nat, level < Decisions(p), Typed(p), Trail(p), Marked(p),
           Undone(p, q, level)
    PROVE  Trail(q) /\ Marked(q)
<1> DEFINE cut == p.asgControl[level + 1]
           n == Len(p.assignments)
           m == Len(q.assignments)
<1>1. PICK pos : TrailCut(p, q, cut, pos)
  BY DEF Undone
<1>2. Typed(q) /\ SameNature(p, q) /\ Vars(q) = Vars(p) /\ Decisions(q) = level
      /\ \A j \in 1..level : q.asgControl[j] = p.asgControl[j]
  BY DEF Undone, SameNature
<1>3. /\ n \in Nat /\ DOMAIN p.assignments = 1..n /\ m \in Nat /\ DOMAIN q.assignments = 1..m
      /\ DOMAIN p.asgControl = 1..Decisions(p) /\ DOMAIN q.asgControl = 1..level
      /\ Decisions(p) \in Nat /\ level + 1 \in 1..Decisions(p)
      /\ \A j \in 1..Decisions(p) : p.asgControl[j] \in Nat
      /\ q.asgControl = <<>> <=> level = 0
      /\ p.asgControl # <<>>
  BY <1>2, Types
<1>4. /\ \A v \in Vars(p) :
            /\ ~Dropped(p, cut, v) => q.info[v] = p.info[v]
            /\ Dropped(p, cut, v) => q.info[v].assignment = 0 /\ ~q.info[v].fixed
      /\ \A v \in Vars(p) : /\ q.info[v].intro = p.info[v].intro
                            /\ q.info[v].atom <=> p.info[v].atom
                            /\ q.info[v].active <=> p.info[v].active
  BY DEF Undone, SameNature
<1>5. /\ cut <= m
      /\ \A k \in 1..m :
            /\ pos[k] \in 1..n /\ q.assignments[k] = p.assignments[pos[k]]
            /\ k <= cut => pos[k] = k
            /\ k > cut => pos[k] > cut /\ p.info[Abs(p.assignments[pos[k]])].fixed
      /\ \A k, l \in 1..m : pos[k] = pos[l] => k = l
      /\ \A i \in 1..n : i <= cut \/ p.info[Abs(p.assignments[i])].fixed =>
                            \E k \in 1..m : pos[k] = i
  BY <1>1 DEF TrailCut
<1>6. /\ \A i \in 1..n : LET v == Abs(p.assignments[i]) IN
            v \in Vars(p) /\ p.info[v].active /\ p.info[v].assignment = p.assignments[i]
      /\ \A i, j \in 1..n : p.assignments[i] = p.assignments[j] => i = j
      /\ \A v \in Vars(p) :
            /\ p.info[v].assignment \in {0, v, -v}
            /\ p.info[v].active /\ p.info[v].assignment # 0 =>
                  \E i \in 1..n : p.assignments[i] = p.info[v].assignment
  BY <1>3 DEF Trail
<1>7. /\ \A j \in 1..Decisions(p) : p.asgControl[j] <= n
      /\ \A j, k \in 1..Decisions(p) : j <= k => p.asgControl[j] <= p.asgControl[k]
      /\ \A i \in 1..BaseLen(p) : p.info[Abs(p.assignments[i])].fixed
      /\ \A v \in Vars(p) : p.info[v].fixed =>
            /\ p.info[v].active => p.info[v].assignment # 0
            /\ p.info[v].atom => p.info[v].intro = 0
      /\ BaseLen(p) = p.asgControl[1]
  BY <1>3 DEF Marked, BaseLen
<1>8. cut \in Nat /\ cut <= n
  BY <1>3, <1>7
<1>9. \A v \in Vars(p) : Dropped(p, cut, v) <=>
         ~p.info[v].fixed /\ \E i \in 1..n : i > cut /\ Abs(p.assignments[i]) = v
  BY DEF Dropped
<1> HIDE DEF cut, n, m
<1>10. ASSUME NEW k \in 1..m
       PROVE  ~Dropped(p, cut, Abs(p.assignments[pos[k]]))
  <2> DEFINE v == Abs(p.assignments[pos[k]])
  <2>1. v \in Vars(p) /\ pos[k] \in 1..n /\ k \in Nat
    BY <1>3, <1>5, <1>6
  <2>2. CASE k <= cut
    <3> SUFFICES ASSUME NEW i \in 1..n, i > cut, Abs(p.assignments[i]) = v
                 PROVE  FALSE
      BY <1>9, <2>1
    <3>1. p.assignments[i] = p.assignments[pos[k]]
      BY <1>6, <2>1
    <3>2. i = pos[k]
      BY <1>6, <2>1, <3>1
    <3> QED
      BY <1>5, <1>8, <2>1, <2>2, <3>2
  <2>3. CASE k > cut
    BY <1>5, <1>9, <2>1, <2>3
  <2> QED
    BY <1>8, <2>1, <2>2, <2>3
<1>11. \A k \in 1..m : LET v == Abs(q.assignments[k]) IN
          v \in Vars(p) /\ q.info[v] = p.info[v] /\ p.info[v].active
          /\ p.info[v].assignment = q.assignments[k]
  <2> TAKE k \in 1..m
  <2>1. q.assignments[k] = p.assignments[pos[k]] /\ pos[k] \in 1..n
    BY <1>5
  <2>2. /\ Abs(p.assignments[pos[k]]) \in Vars(p)
        /\ p.info[Abs(p.assignments[pos[k]])].active
        /\ p.info[Abs(p.assignments[pos[k]])].assignment = p.assignments[pos[k]]
    BY <1>6, <2>1
  <2> QED
    BY <1>4, <1>10, <2>1, <2>2
<1>12. Trail(q)
  <2>1. \A k, l \in 1..m : q.assignments[k] = q.assignments[l] => k = l
    BY <1>5, <1>6
  <2>2. ASSUME NEW v \in Vars(p)
        PROVE  /\ q.info[v].assignment \in {0, v, -v}
               /\ q.info[v].active /\ q.info[v].assignment # 0 =>
                     \E k \in 1..m : q.assignments[k] = q.info[v].assignment
    <3>1. CASE Dropped(p, cut, v)
      BY <1>4, <3>1
    <3>2. CASE ~Dropped(p, cut, v)
      <4>1. q.info[v] = p.info[v] /\ p.info[v].assignment \in {0, v, -v}
        BY <1>4, <1>6, <3>2
      <4>2. ASSUME p.info[v].active, p.info[v].assignment # 0
            PROVE  \E k \in 1..m : q.assignments[k] = p.info[v].assignment
        <5>1. PICK i \in 1..n : p.assignments[i] = p.info[v].assignment
          BY <1>6, <4>2
        <5>2. Abs(p.assignments[i]) = v
          <6>1. v \in Nat
            BY Types
          <6> QED
            BY <4>1, <4>2, <5>1, <6>1, AbsFacts
        <5>3. i <= cut \/ p.info[Abs(p.assignments[i])].fixed
          BY <1>3, <1>8, <1>9, <3>2, <5>2
        <5>4. PICK k \in 1..m : pos[k] = i
          BY <1>5, <5>3
        <5> QED
          BY <1>5, <5>1, <5>4
      <4> QED
        BY <4>1, <4>2
    <3> QED
      BY <3>1, <3>2
  <2> QED
    BY ZenonT(60), <1>2, <1>3, <1>11, <2>1, <2>2 DEF Trail
<1>13. \A k \in 1..m : k <= BaseLen(p) \/ k > cut => q.info[Abs(q.assignments[k])].fixed
  <2> TAKE k \in 1..m
  <2>0. 1 \in 1..Decisions(p) /\ level + 1 \in 1..Decisions(p) /\ 1 <= level + 1
    BY <1>3
  <2>1. BaseLen(p) <= cut /\ BaseLen(p) \in Nat
    BY <1>3, <1>7, <2>0 DEF cut
  <2>2. q.info[Abs(q.assignments[k])] = p.info[Abs(p.assignments[pos[k]])]
    BY <1>5, <1>11
  <2>3. CASE k <= BaseLen(p)
    <3>1. k <= cut /\ k \in 1..BaseLen(p)
      BY <1>8, <2>1, <2>3
    <3>2. pos[k] = k
      BY <1>5, <3>1
    <3> QED
      BY <1>7, <2>2, <3>1, <3>2
  <2>4. CASE k > cut
    BY <1>5, <2>2, <2>4
  <2> QED
    BY <2>3, <2>4
<1>14. Marked(q)
  <2>1. \A j \in 1..level : /\ j \in 1..Decisions(p) /\ q.asgControl[j] = p.asgControl[j]
                            /\ p.asgControl[j] \in Nat /\ p.asgControl[j] <= cut
    <3>1. \A j \in 1..level : j \in 1..Decisions(p) /\ j <= level + 1
      BY <1>3
    <3> QED
      BY <1>2, <1>3, <1>7, <3>1 DEF cut
  <2>2. \A j \in 1..level : q.asgControl[j] <= m
    BY SMTT(30), <1>3, <1>5, <1>8, <2>1
  <2>3. \A j, k \in 1..level : j <= k => q.asgControl[j] <= q.asgControl[k]
    BY <1>7, <2>1
  <2>4. \A i \in 1..BaseLen(q) : q.info[Abs(q.assignments[i])].fixed
    <3>1. CASE level = 0
      <4>1. BaseLen(q) = m /\ BaseLen(p) = cut
        BY <1>3, <1>7, <3>1 DEF BaseLen, m, cut
      <4>2. \A k \in 1..m : k <= cut \/ k > cut
        BY <1>8
      <4> QED
        BY <1>13, <4>1, <4>2
    <3>2. CASE level # 0
      <4>1. 1 \in 1..level
        BY <3>2
      <4>2. BaseLen(q) = BaseLen(p) /\ BaseLen(p) \in Nat /\ BaseLen(p) <= m
        BY <1>3, <1>5, <1>7, <1>8, <2>1, <3>2, <4>1 DEF BaseLen
      <4>3. \A k \in 1..BaseLen(p) : k \in 1..m /\ k <= BaseLen(p)
        BY <1>3, <4>2
      <4> QED
        BY <1>13, <4>2, <4>3
    <3> QED
      BY <3>1, <3>2
  <2>5. ASSUME NEW v \in Vars(p), q.info[v].fixed
        PROVE  /\ q.info[v].active => q.info[v].assignment # 0
               /\ q.info[v].atom => q.info[v].intro = 0
    <3>1. q.info[v] = p.info[v]
      BY <1>4, <2>5
    <3> QED
      BY <1>7, <2>5, <3>1
  <2> QED
    BY <1>2, <1>3, <2>2, <2>3, <2>4, <2>5 DEF Marked, m
<1> QED
  BY <1>12, <1>14

LEMMA UndoneStep ==
    ASSUME NEW p, NEW q, NEW level \in Nat, level < Decisions(p), Typed(p), Bounded(p),
           Trail(p), Marked(p), InStep(p), Undone(p, q, level)
    PROVE  InStep(q)
<1> DEFINE cut == p.asgControl[level + 1]
           n == Len(p.assignments)
           m == Len(q.assignments)
           top == UserLevel(p) + level + 1
<1>1. PICK pos : TrailCut(p, q, cut, pos)
  BY DEF Undone
<1>2. /\ Typed(q) /\ SameNature(p, q) /\ Vars(q) = Vars(p) /\ Decisions(q) = level
      /\ \A j \in 1..level : q.asgControl[j] = p.asgControl[j]
      /\ q.control = p.control /\ q.renotify = p.renotify /\ UserLevel(q) = UserLevel(p)
  BY DEF Undone, SameNature, UserLevel
<1>3. /\ n \in Nat /\ DOMAIN p.assignments = 1..n /\ m \in Nat /\ DOMAIN q.assignments = 1..m
      /\ DOMAIN p.asgControl = 1..Decisions(p) /\ DOMAIN q.asgControl = 1..level
      /\ Decisions(p) \in Nat /\ level + 1 \in 1..Decisions(p)
      /\ \A j \in 1..Decisions(p) : p.asgControl[j] \in Nat
      /\ p.asgControl # <<>> /\ UserLevel(p) \in Nat
      /\ DOMAIN p.control = 1..UserLevel(p)
      /\ DOMAIN p.told = 1..Len(p.told) /\ DOMAIN q.told = 1..Len(q.told)
  BY <1>2, Types
<1>4. Len(p.told) = 1 + UserLevel(p) + Decisions(p) /\ Len(q.told) = top
      /\ top \in Nat /\ top <= Len(p.told)
  <2>1. Len(p.told) = 1 + UserLevel(p) + Decisions(p)
    BY DEF Bounded
  <2>2. Len(q.told) = Len(p.told) - (Decisions(p) - level)
    BY DEF Undone
  <2> QED
    BY SMTT(30), <1>3, <2>1, <2>2
<1>5. /\ \A i \in 1..top - 1 : q.told[i] = p.told[i]
      /\ q.told[top] = p.told[top] \union Retold(p, cut)
  BY <1>4 DEF Undone
<1>6. /\ cut <= m
      /\ \A k \in 1..m :
            /\ pos[k] \in 1..n /\ q.assignments[k] = p.assignments[pos[k]]
            /\ k <= cut => pos[k] = k
            /\ k > cut => pos[k] > cut /\ p.info[Abs(p.assignments[pos[k]])].fixed
      /\ \A i \in 1..n : i <= cut \/ p.info[Abs(p.assignments[i])].fixed =>
                            \E k \in 1..m : pos[k] = i
  BY <1>1 DEF TrailCut
<1>7. /\ \A i, j \in 1..Len(p.told) : i <= j => p.told[i] \subseteq p.told[j]
      /\ \A j \in 1..Decisions(p) : p.told[UserLevel(p) + j] = AtomsTo(p, p.asgControl[j])
      /\ p.renotify = <<>>
      /\ \A k \in 1..UserLevel(p), i \in 1..n :
            LET v == Abs(p.assignments[i]) IN
            p.info[v].atom /\ p.info[v].fixed /\ p.info[v].fixedAt < k =>
               p.assignments[i] \in p.told[k] \union ToSet(p.renotify)
  BY <1>3 DEF InStep
<1>8. /\ \A j \in 1..Decisions(p) : p.asgControl[j] <= n
      /\ \A j, k \in 1..Decisions(p) : j <= k => p.asgControl[j] <= p.asgControl[k]
  BY <1>3 DEF Marked
<1>9. cut \in Nat /\ cut <= n
  BY <1>3, <1>8
<1>10. \A i \in 1..n : Abs(p.assignments[i]) \in Vars(p)
  BY <1>3 DEF Trail
<1>11. \A v \in Vars(p) : /\ q.info[v].atom <=> p.info[v].atom
                          /\ q.info[v].fixed <=> p.info[v].fixed
                          /\ q.info[v].fixedAt = p.info[v].fixedAt
  BY DEF Undone, SameNature, Dropped
<1>12. SameAtoms(p, q) /\ ToSet(p.renotify) = {}
  BY <1>2, <1>7, <1>11 DEF SameAtoms, ToSet
<1>13. \A k \in 1..cut : q.assignments[k] = p.assignments[k]
  <2>1. \A k \in 1..cut : k \in 1..m /\ k <= cut
    BY <1>3, <1>6, <1>9
  <2> QED
    BY <1>6, <2>1
<1>14. Trail(q)
  BY UndoneTrail
<1>15. ASSUME NEW x \in Nat, x <= cut
       PROVE  AtomsTo(q, x) = AtomsTo(p, x)
  <2>1. x <= Len(p.assignments) /\ x <= Len(q.assignments)
    BY SMTT(30), <1>3, <1>6, <1>9, <1>15
  <2>2. \A i \in 1..x : q.assignments[i] = p.assignments[i]
    BY <1>9, <1>13, <1>15
  <2> QED
    BY <1>2, <1>12, <2>1, <2>2, AtomsSame
<1>16. \A l : l \in AtomsTo(p, cut) <=>
          l \in {p.assignments[i] : i \in 1..cut} /\ p.info[Abs(l)].atom
  BY DEF AtomsTo
<1>17. \A l : l \in Retold(p, cut) <=>
          /\ l \in {p.assignments[i] : i \in cut + 1..n}
          /\ p.info[Abs(l)].fixed /\ p.info[Abs(l)].atom
  BY DEF Retold
<1>18. \A l : l \in AtomsTo(q, m) <=>
          l \in {q.assignments[i] : i \in 1..m} /\ q.info[Abs(l)].atom
  BY DEF AtomsTo
<1> HIDE DEF cut, n, m, top
<1>19. AtomsTo(p, cut) \union Retold(p, cut) = AtomsTo(q, m)
  <2>1. ASSUME NEW l \in AtomsTo(p, cut)  PROVE l \in AtomsTo(q, m)
    <3>1. PICK i \in 1..cut : p.assignments[i] = l
      BY <1>16
    <3>2. i \in 1..m /\ i \in 1..n /\ q.assignments[i] = l
      BY SMTT(30), <1>3, <1>6, <1>9, <1>13, <3>1
    <3> QED
      BY <1>10, <1>11, <1>16, <1>18, <3>1, <3>2
  <2>2. ASSUME NEW l \in Retold(p, cut)  PROVE l \in AtomsTo(q, m)
    <3>1. PICK i \in cut + 1..n : p.assignments[i] = l
      BY <1>17
    <3>2. i \in 1..n /\ p.info[Abs(p.assignments[i])].fixed
      BY SMTT(30), <1>3, <1>9, <1>17, <3>1
    <3>3. PICK k \in 1..m : pos[k] = i
      BY <1>6, <3>2
    <3>4. q.assignments[k] = l /\ q.info[Abs(l)].atom
      BY <1>6, <1>10, <1>11, <1>17, <3>1, <3>2, <3>3
    <3> QED
      BY <1>18, <3>4
  <2>3. ASSUME NEW l \in AtomsTo(q, m)
        PROVE  l \in AtomsTo(p, cut) \union Retold(p, cut)
    <3>1. PICK k \in 1..m : q.assignments[k] = l
      BY <1>18
    <3>2. pos[k] \in 1..n /\ p.assignments[pos[k]] = l
      BY <1>6, <3>1
    <3>3. p.info[Abs(l)].atom
      BY <1>10, <1>11, <1>18, <3>2
    <3>4. CASE k <= cut
      <4>1. pos[k] \in 1..cut
        BY <1>3, <1>6, <1>9, <3>4
      <4> QED
        BY <1>16, <3>2, <3>3, <4>1
    <3>5. CASE k > cut
      <4>1. pos[k] \in cut + 1..n /\ p.info[Abs(l)].fixed
        BY SMTT(30), <1>3, <1>6, <1>9, <3>2, <3>5
      <4> QED
        BY <1>17, <3>2, <3>3, <4>1
    <3> QED
      BY <1>9, <3>4, <3>5
  <2> QED
    BY <2>1, <2>2, <2>3
<1>20. p.told[top] = AtomsTo(p, cut)
  <2>1. UserLevel(p) + (level + 1) = top
    BY <1>3 DEF top
  <2> QED
    BY <1>3, <1>7, <2>1 DEF cut
<1>21. q.told[top] \union ToSet(q.renotify) = AtomsTo(q, m)
  <2>1. ToSet(q.renotify) = {}
    BY <1>2, <1>12
  <2>2. q.told[top] = AtomsTo(q, m)
    BY <1>5, <1>19, <1>20
  <2> QED
    BY <2>1, <2>2
<1>22. \A i, j \in 1..top : i <= j => q.told[i] \subseteq q.told[j]
  <2> SUFFICES ASSUME NEW i \in 1..top, NEW j \in 1..top, i <= j
               PROVE  q.told[i] \subseteq q.told[j]
    OBVIOUS
  <2>1. p.told[i] \subseteq p.told[j]
    BY <1>4, <1>7
  <2>2. CASE i = top
    BY <1>4, <2>2
  <2>3. CASE i \in 1..top - 1
    <3>1. q.told[i] = p.told[i]
      BY <1>5, <2>3
    <3>2. j \in 1..top - 1 \/ j = top
      BY <1>4
    <3> QED
      BY <1>5, <2>1, <3>1, <3>2
  <2> QED
    BY <1>4, <2>2, <2>3
<1>23. \A j \in 1..level : q.told[UserLevel(p) + j] = AtomsTo(q, q.asgControl[j])
  <2> TAKE j \in 1..level
  <2>1. /\ j \in 1..Decisions(p) /\ j <= level + 1 /\ UserLevel(p) + j \in 1..top - 1
    BY SMTT(30), <1>3 DEF top
  <2>2. p.asgControl[j] \in Nat /\ p.asgControl[j] <= cut
    BY <1>3, <1>8, <2>1 DEF cut
  <2> QED
    BY <1>2, <1>5, <1>7, <1>15, <2>1, <2>2
<1>24. ASSUME NEW k \in 1..UserLevel(p), NEW i \in 1..m,
              q.info[Abs(q.assignments[i])].atom, q.info[Abs(q.assignments[i])].fixed,
              q.info[Abs(q.assignments[i])].fixedAt < k
       PROVE  q.assignments[i] \in q.told[k] \union ToSet(q.renotify)
  <2>1. q.assignments[i] = p.assignments[pos[i]] /\ pos[i] \in 1..n
    BY <1>6
  <2>2. /\ p.info[Abs(p.assignments[pos[i]])].atom /\ p.info[Abs(p.assignments[pos[i]])].fixed
        /\ p.info[Abs(p.assignments[pos[i]])].fixedAt < k
    BY <1>10, <1>11, <1>24, <2>1
  <2>3. p.assignments[pos[i]] \in p.told[k] \union ToSet(p.renotify)
    BY <1>7, <2>1, <2>2
  <2>4. k \in 1..top - 1
    BY <1>3 DEF top
  <2>5. q.told[k] = p.told[k]
    BY <1>5, <2>4
  <2> QED
    BY <1>2, <2>1, <2>3, <2>5
<1>25. /\ q.told[Len(q.told)] \union ToSet(q.renotify) = AtomsTo(q, Len(q.assignments))
       /\ q.asgControl # <<>> => q.renotify = <<>>
  <2>1. Len(q.told) = top /\ Len(q.assignments) = m
    BY <1>4 DEF m
  <2> QED
    BY <1>2, <1>7, <1>21, <2>1
<1> QED
  <2>1. DOMAIN q.told = 1..top
    BY <1>3, <1>4
  <2>2. DOMAIN q.control = 1..UserLevel(p)
    BY <1>2, <1>3
  <2> QED
    BY <1>2, <1>3, <1>22, <1>23, <1>24, <1>25, <2>1, <2>2 DEF InStep

LEMMA UndoneGood ==
    ASSUME NEW p, NEW q, NEW level \in Nat, level < Decisions(p), Good(p), Undone(p, q, level)
    PROVE  Good(q)
<1>1. /\ Typed(p) /\ Bounded(p) /\ Listed(p) /\ Ordered(p) /\ Activations(p)
      /\ Trail(p) /\ Marked(p) /\ InStep(p) /\ ClausesGuarded(p) /\ Pending(p)
  BY DEF Good
<1>2. /\ Typed(q) /\ SameNature(p, q)
      /\ q.activeVars = p.activeVars /\ q.control = p.control
      /\ q.activation = p.activation /\ q.propagations = <<>>
      /\ q.newClauses = p.newClauses /\ q.db = p.db /\ q.failed = p.failed
      /\ Decisions(q) = level /\ Len(q.told) = Len(p.told) - (Decisions(p) - level)
  BY DEF Undone
<1>3. Trail(q) /\ Marked(q)
  BY <1>1, UndoneTrail
<1>4. InStep(q)
  BY <1>1, UndoneStep
<1>5. Listed(q) /\ Ordered(q) /\ Activations(q)
  BY <1>1, <1>2, NatureListed
<1>6. ClausesGuarded(q)
  BY <1>1, <1>2, NatureClauses
<1>7. Bounded(q)
  <2>1. /\ Vars(q) = Vars(p) /\ UserLevel(q) = UserLevel(p)
        /\ Vars(p) = 1..Len(p.info) /\ Vars(q) = 1..Len(q.info)
        /\ Len(p.info) \in Nat /\ Len(q.info) \in Nat
        /\ Decisions(p) \in Nat /\ UserLevel(p) \in Nat
    BY <1>1, <1>2, Types DEF SameNature, UserLevel
  <2>2. Len(q.info) = Len(p.info)
    BY <2>1
  <2>3. \A v \in Vars(p) : q.info[v].intro = p.info[v].intro /\ q.info[v].fixedAt = p.info[v].fixedAt
    BY DEF Undone, SameNature
  <2>4. /\ Len(p.info) <= MaxVar /\ UserLevel(p) <= MaxUserLevel
        /\ \A v \in Vars(p) : p.info[v].intro <= MaxUserLevel /\ p.info[v].fixedAt <= MaxUserLevel
        /\ Len(p.told) = 1 + UserLevel(p) + Decisions(p)
        /\ Len(p.activation) = UserLevel(p)
    BY <1>1 DEF Bounded
  <2>5. Len(q.told) = 1 + UserLevel(q) + Decisions(q)
    BY <1>2, <2>1, <2>4
  <2> QED
    BY <1>2, <2>1, <2>2, <2>3, <2>4, <2>5 DEF Bounded
<1>8. Pending(q)
  BY <1>2 DEF Pending
<1> QED
  BY <1>1, <1>2, <1>3, <1>4, <1>5, <1>6, <1>7, <1>8 DEF Good

LEMMA SetOf ==
    ASSUME NEW S, NEW q \in Seq(S)
    PROVE  \A e : e \in ToSet(q) <=> \E i \in 1..Len(q) : q[i] = e
<1>1. DOMAIN q = 1..Len(q)
  OBVIOUS
<1> QED
  BY <1>1 DEF ToSet

LEMMA Above ==
    ASSUME NEW S, NEW a \in Seq(S), NEW cut \in Nat, cut <= Len(a),
           NEW above, above = SubSeq(a, cut + 1, Len(a))
    PROVE  above \in Seq(S) /\ Suffix(a, cut, above)
  BY DEF Suffix

LEMMA Below ==
    ASSUME NEW S, NEW a \in Seq(S), NEW cut \in Nat, cut <= Len(a),
           NEW below, below = SubSeq(a, 1, cut)
    PROVE  /\ below \in Seq(S) /\ Len(below) = cut
           /\ \A i \in 1..cut : below[i] = a[i]
  OBVIOUS

LEMMA Continuing ==
    ASSUME NEW S, NEW a \in Seq(S), NEW cut \in Nat, cut <= Len(a),
           NEW fixed \in Seq(S), NEW b, b = SubSeq(a, 1, cut) \o fixed
    PROVE  b \in Seq(S) /\ Continued(a, cut, fixed, b) /\ cut <= Len(b)
<1> DEFINE below == SubSeq(a, 1, cut)
<1>1. /\ below \in Seq(S) /\ Len(below) = cut
      /\ \A i \in 1..cut : below[i] = a[i]
  OBVIOUS
<1>2. b = below \o fixed
  OBVIOUS
<1> HIDE DEF below
<1> QED
  BY SMTT(30), <1>1, <1>2 DEF Continued

LEMMA AboveSet ==
    ASSUME NEW S, NEW a \in Seq(S), NEW cut \in Nat, cut <= Len(a), NEW above \in Seq(S),
           Suffix(a, cut, above)
    PROVE  \A e : e \in ToSet(above) <=> \E i \in cut + 1..Len(a) : a[i] = e
<1> DEFINE n == Len(a)
<1>0. n \in Nat /\ Len(above) = n - cut /\ \A i \in 1..n - cut : above[i] = a[cut + i]
  BY DEF Suffix
<1>4. \A e : e \in ToSet(above) <=> \E i \in 1..n - cut : above[i] = e
  BY <1>0, SetOf
<1> HIDE DEF n
<1>1. \A i \in 1..n - cut : cut + i \in cut + 1..n /\ above[i] = a[cut + i]
  BY <1>0
<1>2. \A i \in cut + 1..n : i - cut \in 1..n - cut /\ cut + (i - cut) = i
  BY <1>0
<1>3. \A i \in cut + 1..n : above[i - cut] = a[i]
  BY <1>1, <1>2
<1>5. \A e : (\E i \in 1..n - cut : above[i] = e) => \E i \in cut + 1..n : a[i] = e
  BY <1>1
<1>6. \A e : (\E i \in cut + 1..n : a[i] = e) => \E i \in 1..n - cut : above[i] = e
  BY <1>2, <1>3
<1>7. \A e : e \in ToSet(above) <=> \E i \in cut + 1..n : a[i] = e
  BY <1>4, <1>5, <1>6
<1> QED
  BY <1>7 DEF n

LEMMA KeptSet ==
    ASSUME NEW S, NEW q \in Seq(S), NEW r \in Seq(S), NEW keep, NEW pos,
           Selected(q, keep, r, pos), keep \subseteq ToSet(q)
    PROVE  ToSet(r) = keep
<1>1. /\ \A e : e \in ToSet(r) <=> \E k \in 1..Len(r) : r[k] = e
      /\ \A e : e \in ToSet(q) <=> \E k \in 1..Len(q) : q[k] = e
  BY SetOf
<1>2. ToSet(r) \subseteq keep
  BY <1>1 DEF Selected
<1>3. ASSUME NEW e \in keep  PROVE e \in ToSet(r)
  <2>1. PICK i \in 1..Len(q) : q[i] = e
    BY <1>1
  <2>2. PICK k \in 1..Len(r) : pos[k] = i
    BY <2>1 DEF Selected
  <2>3. r[k] = e
    BY <2>1, <2>2 DEF Selected
  <2> QED
    BY <1>1, <2>3
<1> QED
  BY <1>2, <1>3

LEMMA PiecesCut ==
    ASSUME NEW cut \in Nat, NEW f \in Nat, NEW F, NEW keep, NEW a, NEW b, NEW above,
           NEW fixed, NEW at, NEW n \in Nat, n = Len(a), cut <= n,
           Pieces(a, cut, f, above, fixed, b, keep, F, at)
    PROVE  \E pos : CutAt(a, b, cut, F, pos)
<1>10. /\ Len(b) = cut + f
       /\ \A i \in 1..n - cut : above[i] = a[cut + i]
       /\ \A k \in 1..cut : b[k] = a[k]
       /\ \A k \in 1..f : b[cut + k] = fixed[k]
       /\ \A k \in 1..f : /\ at[k] \in 1..n - cut /\ fixed[k] = above[at[k]]
                          /\ above[at[k]] \in keep
       /\ \A k, l \in 1..f : at[k] = at[l] => k = l
       /\ \A i \in 1..n - cut : above[i] \in keep => \E k \in 1..f : at[k] = i
       /\ \A i \in 1..n - cut : above[i] \in keep <=> Abs(above[i]) \in F
  BY DEF Pieces
<1> USE <1>10
<1> DEFINE pos == [k \in 1..cut + f |-> IF k <= cut THEN k ELSE cut + at[k - cut]]
<1>1. \A k \in 1..cut + f : \/ k \in 1..cut /\ k <= cut
                            \/ k - cut \in 1..f /\ k > cut /\ cut + (k - cut) = k
  OBVIOUS
<1>2. \A k \in 1..cut + f : k <= cut => pos[k] = k
  OBVIOUS
<1>3. \A k \in 1..cut + f : k > cut => pos[k] = cut + at[k - cut]
  OBVIOUS
<1> HIDE DEF pos
<1>4. ASSUME NEW k \in 1..cut + f
      PROVE  /\ pos[k] \in 1..n /\ b[k] = a[pos[k]]
             /\ k > cut => pos[k] > cut /\ Abs(a[pos[k]]) \in F
  <2>1. CASE k \in 1..cut /\ k <= cut
    BY <1>2, <2>1
  <2>2. CASE k - cut \in 1..f /\ k > cut /\ cut + (k - cut) = k
    <3>1. PICK j \in 1..f : j = k - cut /\ cut + j = k
      BY <2>2
    <3>2. pos[k] = cut + at[j] /\ at[j] \in 1..n - cut
      BY <1>3, <2>2, <3>1
    <3>3. b[k] = above[at[j]] /\ above[at[j]] \in keep
      BY <3>1
    <3>4. above[at[j]] = a[cut + at[j]] /\ Abs(above[at[j]]) \in F
      BY <3>2, <3>3
    <3>5. pos[k] \in 1..n /\ pos[k] > cut
      BY <3>2
    <3> QED
      BY <3>2, <3>3, <3>4, <3>5
  <2> QED
    BY <1>1, <2>1, <2>2
<1>5. ASSUME NEW k \in 1..cut + f, NEW l \in 1..cut + f, pos[k] = pos[l]
      PROVE  k = l
  <2>1. CASE k <= cut /\ l <= cut
    BY <1>2, <1>5, <2>1
  <2>2. CASE k > cut /\ l > cut
    <3>1. k - cut \in 1..f /\ l - cut \in 1..f
      BY <2>2
    <3>2. cut + at[k - cut] = cut + at[l - cut]
      BY <1>3, <1>5, <2>2
    <3>3. at[k - cut] \in 1..n - cut /\ at[l - cut] \in 1..n - cut
      BY <3>1
    <3>4. at[k - cut] = at[l - cut]
      BY SMTT(30), <3>2, <3>3
    <3>5. k - cut = l - cut
      BY <3>1, <3>4
    <3> QED
      BY <3>5
  <2>3. CASE k <= cut /\ l > cut
    <3>1. pos[k] = k /\ pos[l] > cut
      BY <1>2, <1>4, <2>3
    <3> QED
      BY <1>5, <2>3, <3>1
  <2>4. CASE k > cut /\ l <= cut
    <3>1. pos[l] = l /\ pos[k] > cut
      BY <1>2, <1>4, <2>4
    <3> QED
      BY <1>5, <2>4, <3>1
  <2>5. k \in Int /\ l \in Int
    OBVIOUS
  <2> QED
    BY <2>1, <2>2, <2>3, <2>4, <2>5
<1>6. ASSUME NEW i \in 1..n, i <= cut \/ Abs(a[i]) \in F
      PROVE  \E k \in 1..cut + f : pos[k] = i
  <2>1. CASE i <= cut
    <3>1. i \in 1..cut + f
      BY <2>1
    <3> QED
      BY <1>2, <2>1, <3>1
  <2>2. CASE i > cut
    <3>1. PICK j \in 1..n - cut : j = i - cut /\ cut + j = i
      BY <2>2
    <3>2. above[j] = a[i] /\ Abs(a[i]) \in F
      BY <1>6, <2>2, <3>1
    <3>3. PICK k \in 1..f : at[k] = j
      BY <3>2
    <3>4. PICK l \in 1..cut + f : l = cut + k /\ l > cut /\ l - cut = k
      OBVIOUS
    <3>5. pos[l] = i
      BY <1>3, <3>1, <3>3, <3>4
    <3> QED
      BY <3>5
  <2> QED
    BY <2>1, <2>2
<1>7. CutAt(a, b, cut, F, pos)
  BY <1>2, <1>4, <1>5, <1>6 DEF CutAt
<1> QED
  BY <1>7

LEMMA Cutting ==
    ASSUME NEW S, NEW a \in Seq(S), NEW cut \in Nat, cut <= Len(a),
           NEW above \in Seq(S), NEW fixed \in Seq(S), NEW b, NEW F, NEW keep, NEW at,
           Suffix(a, cut, above), Continued(a, cut, fixed, b),
           Selected(above, keep, fixed, at),
           \A e \in ToSet(above) : e \in keep <=> Abs(e) \in F
    PROVE  \E pos : CutAt(a, b, cut, F, pos)
<1>1. Len(a) \in Nat /\ Len(fixed) \in Nat /\ Len(above) = Len(a) - cut
  BY DEF Suffix
<1>2. \A i \in 1..Len(above) : above[i] \in ToSet(above)
  BY SetOf
<1>3. Pieces(a, cut, Len(fixed), above, fixed, b, keep, F, at)
  BY <1>1, <1>2 DEF Suffix, Continued, Selected, Pieces
<1> QED
  BY <1>1, <1>3, PiecesCut

LEMMA AboveKept ==
    ASSUME NEW a \in Seq(Int), NEW cut \in Nat, cut <= Len(a), NEW F,
           NEW above \in Seq(Int), Suffix(a, cut, above), NEW keep, KeepIs(above, keep, F),
           NEW fixed \in Seq(Int), NEW at, Selected(above, keep, fixed, at),
           NEW b \in Seq(Int), Continued(a, cut, fixed, b)
    PROVE  CutTrail(a, b, cut, F) /\ ToSet(fixed) = keep
<1>1. ToSet(fixed) = keep
  <2>1. keep \subseteq ToSet(above)
    BY DEF KeepIs
  <2> QED
    BY <2>1, KeptSet
<1>2. \E pos : CutAt(a, b, cut, F, pos)
  <2>1. \A e \in ToSet(above) : e \in keep <=> Abs(e) \in F
    BY DEF KeepIs
  <2> QED
    BY <2>1, Cutting
<1>3. cut <= Len(b)
  BY DEF Continued
<1> QED
  BY <1>1, <1>2, <1>3 DEF CutTrail

LEMMA CutInfoFields ==
    ASSUME NEW p, Typed(p), NEW gone, NEW info, info = CutInfo(p, gone)
    PROVE  /\ info \in Seq(VarInfo) /\ Len(info) = Len(p.info)
           /\ \A v \in Vars(p) :
                 /\ v \notin gone /\ -v \notin gone => info[v] = p.info[v]
                 /\ v \in gone \/ -v \in gone => info[v].assignment = 0
                 /\ info[v].intro = p.info[v].intro /\ info[v].fixedAt = p.info[v].fixedAt
                 /\ info[v].atom <=> p.info[v].atom
                 /\ info[v].active <=> p.info[v].active
                 /\ info[v].fixed <=> p.info[v].fixed
<1>1. /\ Len(p.info) \in Nat /\ Vars(p) = 1..Len(p.info) /\ DOMAIN p.info = 1..Len(p.info)
      /\ \A v \in Vars(p) : p.info[v] \in VarInfo
  BY Types DEF Vars
<1>2. ASSUME NEW v \in Vars(p)
      PROVE  /\ info[v] \in VarInfo
             /\ v \notin gone /\ -v \notin gone => info[v] = p.info[v]
             /\ v \in gone \/ -v \in gone => info[v].assignment = 0
             /\ info[v].intro = p.info[v].intro /\ info[v].fixedAt = p.info[v].fixedAt
             /\ info[v].atom <=> p.info[v].atom
             /\ info[v].active <=> p.info[v].active
             /\ info[v].fixed <=> p.info[v].fixed
  <2> DEFINE r == [p.info[v] EXCEPT !.assignment = 0]
  <2>0. p.info[v] \in VarInfo
    BY <1>1
  <2>1. /\ r \in VarInfo /\ r.assignment = 0
        /\ r.intro = p.info[v].intro /\ r.fixedAt = p.info[v].fixedAt
        /\ r.atom <=> p.info[v].atom
        /\ r.active <=> p.info[v].active
        /\ r.fixed <=> p.info[v].fixed
    BY <2>0 DEF VarInfo
  <2>2. info[v] = IF {v, -v} \intersect gone # {} THEN r ELSE p.info[v]
    BY <1>1 DEF CutInfo
  <2> HIDE DEF r
  <2>3. CASE v \in gone \/ -v \in gone
    <3>1. info[v] = r
      BY <2>2, <2>3
    <3> QED
      BY <2>1, <2>3, <3>1
  <2>4. CASE v \notin gone /\ -v \notin gone
    <3>1. info[v] = p.info[v]
      BY <2>2, <2>4
    <3> QED
      BY <2>0, <2>4, <3>1
  <2> QED
    BY <2>3, <2>4
<1>3. info \in [1..Len(p.info) -> VarInfo]
  <2>1. info = [v \in 1..Len(p.info) |-> info[v]]
    BY <1>1 DEF CutInfo
  <2> QED
    BY <1>1, <1>2, <2>1
<1>4. info \in Seq(VarInfo) /\ Len(info) = Len(p.info)
  BY <1>1, <1>3
<1> QED
  BY <1>2, <1>4

LEMMA BacktrackFields ==
    ASSUME NEW p, Good(p), NEW level \in Nat, level < Decisions(p), NEW reset \in BOOLEAN, reset,
           NEW q, q = Backtrack(p, level, reset)
    PROVE  Undone(p, q, level)
<1> DEFINE cut == p.asgControl[level + 1]
           above == SubSeq(p.assignments, cut + 1, Len(p.assignments))
           keep == {lit \in ToSet(above) : p.info[Abs(lit)].fixed}
           fixed == Kept(above, keep)
           atoms == {lit \in ToSet(fixed) : p.info[Abs(lit)].atom}
           gone == ToSet(above) \ ToSet(fixed)
           found == IF reset THEN FALSE ELSE p.found
           told == SubSeq(p.told, 1, Len(p.told) - (Decisions(p) - level))
           control == SubSeq(p.asgControl, 1, level)
           trail == SubSeq(p.assignments, 1, cut) \o fixed
           info == CutInfo(p, gone)
           x == [p EXCEPT !.found = found, !.told = told, !.asgControl = control,
                          !.assignments = trail, !.info = info, !.propagations = <<>>]
           F == {v \in Vars(p) : p.info[v].fixed}
<1>1. Typed(p) /\ Bounded(p) /\ Trail(p) /\ Marked(p)
  BY DEF Good
<1>2. /\ Decisions(p) \in Nat /\ UserLevel(p) \in Nat /\ Len(p.assignments) \in Nat
      /\ DOMAIN p.asgControl = 1..Decisions(p)
      /\ \A j \in 1..Decisions(p) : p.asgControl[j] \in Nat
      /\ DOMAIN p.assignments = 1..Len(p.assignments)
  BY <1>1, Types
<1>3. /\ p.assignments \in Seq(Int) /\ p.told \in Seq(SUBSET Int) /\ p.asgControl \in Seq(Nat)
      /\ Shape(p) /\ Len(p.asgControl) = Decisions(p)
  BY <1>1 DEF Typed, Decisions
<1>4. level + 1 \in 1..Decisions(p)
  BY <1>2
<1>5. Len(p.told) = 1 + UserLevel(p) + Decisions(p)
  BY <1>1 DEF Bounded
<1>6. cut \in Nat /\ cut <= Len(p.assignments)
  BY <1>1, <1>2, <1>4 DEF Marked
<1>7. Check(p, "context level", Len(p.told) - 1 > level) = p
  <2>1. Len(p.told) - 1 > level
    BY <1>2, <1>5
  <2> QED
    BY <2>1 DEF Check
<1>8. q = Enqueue(x, atoms)
  BY <1>7, Zenon DEF Backtrack, CutInfo
<1>9. found \in BOOLEAN /\ ~found
  BY Zenon
<1> HIDE DEF found, cut
<1>10. above \in Seq(Int) /\ Suffix(p.assignments, cut, above)
  BY <1>3, <1>6, Above
<1> HIDE DEF above
<1>11. \A e : e \in ToSet(above) <=> \E i \in cut + 1..Len(p.assignments) : p.assignments[i] = e
  <2>1. /\ p.assignments \in Seq(Int) /\ cut \in Nat /\ cut <= Len(p.assignments)
        /\ above \in Seq(Int) /\ Suffix(p.assignments, cut, above)
    BY <1>3, <1>6, <1>10
  <2> QED
    BY SMTT(30), <2>1, AboveSet
<1>12. \A e \in ToSet(above) : Abs(e) \in Vars(p) /\ e \in Int /\ p.info[Abs(e)].assignment = e
  <2>1. \A i \in cut + 1..Len(p.assignments) : i \in 1..Len(p.assignments)
    BY <1>2, <1>6
  <2>2. \A i \in 1..Len(p.assignments) :
           /\ Abs(p.assignments[i]) \in Vars(p) /\ p.assignments[i] \in Int
           /\ p.info[Abs(p.assignments[i])].assignment = p.assignments[i]
    BY <1>1, <1>2, Types DEF Trail
  <2> QED
    BY <1>11, <2>1, <2>2
<1>14. keep \in SUBSET ToSet(above)
  OBVIOUS
<1>13. KeepIs(above, keep, F)
  BY <1>12, <1>14 DEF KeepIs
<1>15. \A e : e \in keep <=> e \in ToSet(above) /\ p.info[Abs(e)].fixed
  OBVIOUS
<1> HIDE DEF keep
<1>16. fixed = Kept(above, keep) /\ trail = SubSeq(p.assignments, 1, cut) \o fixed
  OBVIOUS
<1> HIDE DEF fixed, trail
<1>17. /\ trail \in Seq(Int) /\ cut <= Len(trail)
       /\ \E pos : CutAt(p.assignments, trail, cut, F, pos)
       /\ ToSet(fixed) = keep
  <2>1. /\ p.assignments \in Seq(Int) /\ cut \in Nat /\ cut <= Len(p.assignments)
        /\ above \in Seq(Int) /\ Suffix(p.assignments, cut, above)
        /\ KeepIs(above, keep, F)
    BY <1>3, <1>6, <1>10, <1>13
  <2> HIDE DEF F
  <2>2. fixed \in Seq(Int) /\ \E at : Selected(above, keep, fixed, at)
    BY <1>10, <1>16, KeptFacts
  <2>3. PICK at : Selected(above, keep, fixed, at)
    BY <2>2
  <2>4. trail \in Seq(Int) /\ Continued(p.assignments, cut, fixed, trail)
    BY <1>3, <1>6, <1>16, <2>2, Continuing
  <2>5. CutTrail(p.assignments, trail, cut, F) /\ ToSet(fixed) = keep
    BY <2>1, <2>2, <2>3, <2>4, AboveKept
  <2> QED
    BY <2>5 DEF CutTrail
<1>18. /\ told \in Seq(SUBSET Int) /\ Len(told) = UserLevel(p) + level + 1
       /\ \A i \in 1..UserLevel(p) + level + 1 : told[i] = p.told[i]
  <2> DEFINE m == Len(p.told) - (Decisions(p) - level)
  <2>1. m = UserLevel(p) + level + 1 /\ m \in Nat /\ m <= Len(p.told)
    BY SMTT(30), <1>2, <1>5
  <2>2. told = SubSeq(p.told, 1, m)
    OBVIOUS
  <2> HIDE DEF m, told
  <2>3. told \in Seq(SUBSET Int) /\ Len(told) = m /\ \A i \in 1..m : told[i] = p.told[i]
    BY SMTT(30), <1>3, <2>1, <2>2, Below
  <2> QED
    BY <2>1, <2>3
<1>19. control \in Seq(Nat) /\ Len(control) = level /\ \A j \in 1..level : control[j] = p.asgControl[j]
  <2>1. level <= Len(p.asgControl)
    BY <1>2, <1>3
  <2>2. control = SubSeq(p.asgControl, 1, level)
    OBVIOUS
  <2> HIDE DEF control
  <2> QED
    BY SMTT(30), <1>3, <2>1, <2>2, Below
<1>20. /\ info \in Seq(VarInfo) /\ Len(info) = Len(p.info)
       /\ \A v \in Vars(p) :
             /\ v \notin gone /\ -v \notin gone => info[v] = p.info[v]
             /\ v \in gone \/ -v \in gone => info[v].assignment = 0
             /\ info[v].intro = p.info[v].intro /\ info[v].fixedAt = p.info[v].fixedAt
             /\ info[v].atom <=> p.info[v].atom
             /\ info[v].active <=> p.info[v].active
             /\ info[v].fixed <=> p.info[v].fixed
  BY <1>1, CutInfoFields
<1> HIDE DEF told, control, info
<1>21. /\ Shape(x) /\ x.told = told /\ x.asgControl = control /\ x.assignments = trail
       /\ x.info = info /\ x.propagations = <<>> /\ x.found = found
       /\ x.activeVars = p.activeVars /\ x.control = p.control
       /\ x.activation = p.activation /\ x.renotify = p.renotify
       /\ x.newClauses = p.newClauses /\ x.db = p.db /\ x.failed = p.failed
  BY <1>3 DEF Shape, Fields
<1> HIDE DEF x
<1>22. atoms \in SUBSET Int /\ x.told # <<>> /\ x.told \in Seq(SUBSET Int)
  BY <1>2, <1>12, <1>14, <1>17, <1>18, <1>21
<1>23. atoms = Retold(p, cut)
  <2>1. \A e : e \in atoms <=> e \in ToSet(fixed) /\ p.info[Abs(e)].atom
    OBVIOUS
  <2>2. \A e : e \in Retold(p, cut) <=>
           /\ \E i \in cut + 1..Len(p.assignments) : p.assignments[i] = e
           /\ p.info[Abs(e)].fixed /\ p.info[Abs(e)].atom
    BY DEF Retold
  <2> HIDE DEF atoms
  <2> QED
    BY <1>11, <1>15, <1>17, <2>1, <2>2
<1>24. /\ Shape(q) /\ Told(x, q, atoms)
       /\ q.info = x.info /\ q.activeVars = x.activeVars
       /\ q.control = x.control /\ q.activation = x.activation
       /\ q.renotify = x.renotify /\ q.assignments = x.assignments
       /\ q.asgControl = x.asgControl /\ q.propagations = x.propagations
       /\ q.newClauses = x.newClauses /\ q.found = x.found
       /\ q.db = x.db /\ q.failed = x.failed
  BY ZenonT(60), <1>8, <1>21, <1>22, EnqueueFields
<1> HIDE DEF atoms, gone
<1>25. Typed(q)
  <2>1. q.told \in Seq(SUBSET Int)
    BY <1>24 DEF Told
  <2>2. q.propagations \in Seq(Entry)
    <3>1. <<>> \in Seq(Entry)
      OBVIOUS
    <3> QED
      BY <1>21, <1>24, <3>1
  <2>3. /\ q.info \in Seq(VarInfo) /\ q.assignments \in Seq(Int) /\ q.asgControl \in Seq(Nat)
        /\ q.found \in BOOLEAN /\ Shape(q)
    BY <1>9, <1>17, <1>19, <1>20, <1>21, <1>24
  <2>4. /\ q.activeVars \in Seq(Nat) /\ q.control \in Seq(Nat) /\ q.activation \in Seq(Nat)
        /\ q.renotify \in Seq(Int) /\ q.newClauses \in Seq(SUBSET Int)
        /\ q.db \in SUBSET SUBSET Int
    BY <1>1, <1>21, <1>24 DEF Typed
  <2> QED
    BY <2>1, <2>2, <2>3, <2>4 DEF Typed
<1>26. /\ Len(q.told) = Len(p.told) - (Decisions(p) - level)
       /\ \A i \in 1..Len(q.told) - 1 : q.told[i] = p.told[i]
       /\ q.told[Len(q.told)] = p.told[Len(q.told)] \union Retold(p, cut)
  <2> DEFINE m == UserLevel(p) + level + 1
  <2>1. m = Len(p.told) - (Decisions(p) - level) /\ m \in Nat /\ m \in 1..m
        /\ \A i \in 1..m - 1 : i \in 1..m
    BY SMTT(30), <1>2, <1>5
  <2>2. Len(x.told) = m /\ \A i \in 1..m : x.told[i] = p.told[i]
    BY <1>18, <1>21
  <2>3. /\ Len(q.told) = Len(x.told)
        /\ \A i \in 1..Len(x.told) - 1 : q.told[i] = x.told[i]
        /\ q.told[Len(x.told)] = x.told[Len(x.told)] \union Retold(p, cut)
    BY <1>23, <1>24 DEF Told
  <2> HIDE DEF m
  <2> QED
    BY ZenonT(60), <2>1, <2>2, <2>3
<1>27. Decisions(q) = level /\ \A j \in 1..level : q.asgControl[j] = p.asgControl[j]
  BY ZenonT(60), <1>19, <1>21, <1>24 DEF Decisions
<1>28. \E pos : TrailCut(p, q, cut, pos)
  <2>1. PICK pos : CutAt(p.assignments, trail, cut, F, pos)
    BY <1>17
  <2>2. q.assignments = trail
    BY <1>21, <1>24
  <2>3. \A i \in 1..Len(p.assignments) :
           Abs(p.assignments[i]) \in F <=> p.info[Abs(p.assignments[i])].fixed
    BY <1>1, <1>2 DEF Trail
  <2> HIDE DEF F
  <2>4. TrailCut(p, q, cut, pos)
    BY ZenonT(60), <1>17, <2>1, <2>2, <2>3 DEF CutAt, TrailCut
  <2> QED
    BY <2>4
<1>29. Vars(q) = Vars(p)
  <2>1. Len(q.info) = Len(p.info)
    BY <1>20, <1>21, <1>24
  <2> QED
    BY ZenonT(60), <1>1, <1>25, <2>1, Types
<1>30. q.info = info
  BY <1>21, <1>24
<1>31. SameNature(p, q)
  BY <1>20, <1>29, <1>30 DEF SameNature
<1>32. ASSUME NEW v \in Vars(p)
       PROVE  v \in gone \/ -v \in gone <=> Dropped(p, cut, v)
  <2>1. v \in Nat /\ Abs(v) = v /\ Abs(-v) = v /\ v \in Int
    BY SMTT(30), <1>1, Types, AbsFacts
  <2>2. \A e : e \in gone <=> e \in ToSet(above) /\ ~p.info[Abs(e)].fixed
    BY <1>15, <1>17 DEF gone
  <2>3. Dropped(p, cut, v) <=>
          ~p.info[v].fixed /\ \E i \in cut + 1..Len(p.assignments) : Abs(p.assignments[i]) = v
    <3>1. \A i \in 1..Len(p.assignments) : i > cut <=> i \in cut + 1..Len(p.assignments)
      BY <1>2, <1>6
    <3>2. \A i \in cut + 1..Len(p.assignments) : i \in 1..Len(p.assignments)
      BY <1>2, <1>6
    <3> QED
      BY <3>1, <3>2 DEF Dropped
  <2>4. \A e \in ToSet(above) : Abs(e) = v => e = v \/ e = -v
    BY <1>12, <2>1, AbsFacts
  <2> QED
    BY <1>11, <2>1, <2>2, <2>3, <2>4
<1>33. \A v \in Vars(p) :
          /\ ~Dropped(p, cut, v) => q.info[v] = p.info[v]
          /\ Dropped(p, cut, v) =>
                /\ q.info[v].assignment = 0
                /\ q.info[v].fixedAt = p.info[v].fixedAt
                /\ ~q.info[v].fixed
  <2> TAKE v \in Vars(p)
  <2>1. Dropped(p, cut, v) => ~p.info[v].fixed
    BY DEF Dropped
  <2> QED
    BY <1>20, <1>30, <1>32, <2>1
<1>34. ~q.found /\ q.propagations = <<>>
  BY <1>9, <1>21, <1>24
<1> QED
  BY <1>21, <1>24, <1>25, <1>26, <1>27, <1>28, <1>31, <1>33, <1>34 DEF Undone, cut

\* notify_backtrack below the decisions there are.
LEMMA BacktrackGood ==
    ASSUME NEW p, Good(p), NEW level \in Nat, level < Decisions(p),
           NEW q, q = NotifyBacktrack(p, level)
    PROVE  Good(q) /\ Undone(p, q, level)
<1>1. ~(Decisions(p) <= level)
  <2>1. Decisions(p) \in Nat
    BY Types DEF Good
  <2> QED
    BY <2>1
<1>2. PICK reset \in BOOLEAN : reset = TRUE
  BY Zenon
<1>3. reset /\ q = Backtrack(p, level, reset)
  BY <1>1, <1>2, Zenon DEF NotifyBacktrack
<1>4. Undone(p, q, level)
  BY <1>3, BacktrackFields, Zenon
<1>5. Good(q)
  BY <1>4, UndoneGood, Zenon
<1> QED
  BY <1>4, <1>5

\* notify_backtrack when the trail was reset already.
LEMMA BacktrackLate ==
    ASSUME NEW p, Decisions(p) = 0, NEW q, q = NotifyBacktrack(p, 0)
    PROVE  q = p
  BY DEF NotifyBacktrack, Check

-----------------------------------------------------------------------------
(* Clauses. *)

LEMMA MaxOfIn ==
    ASSUME NEW n \in Nat, NEW I, I \subseteq 0..n, I # {}
    PROVE  MaxOf(I) \in I /\ \A m \in I : m <= MaxOf(I)
<1> DEFINE U == {n - i : i \in I}
<1>1. U \subseteq Nat /\ U # {}
  <2>1. \A i \in I : n - i \in Nat /\ n - i \in U
    OBVIOUS
  <2> QED
    BY <2>1
<1>2. PICK u \in U : \A v \in U : ~(<<v, u>> \in OpToRel(<, Nat))
  BY <1>1, NatLessThanWellFounded, WFMin
<1>3. PICK i \in I : u = n - i
  OBVIOUS
<1>4. \A j \in I : ~(n - j < n - i)
  BY <1>1, <1>2, <1>3 DEF OpToRel
<1>5. \A j \in I : j <= i
  BY <1>3, <1>4
<1> QED
  BY <1>5 DEF MaxOf

LEMMA SameParts ==
    ASSUME NEW p, NEW q, q.info = p.info, q.activeVars = p.activeVars, q.control = p.control,
           q.activation = p.activation, q.renotify = p.renotify,
           q.assignments = p.assignments, q.asgControl = p.asgControl, q.told = p.told,
           Bounded(p), Listed(p), Ordered(p), Activations(p), Trail(p), Marked(p), InStep(p)
    PROVE  /\ Bounded(q) /\ Listed(q) /\ Ordered(q) /\ Activations(q)
           /\ Trail(q) /\ Marked(q) /\ InStep(q)
<1>1. UserLevel(q) = UserLevel(p) /\ Decisions(q) = Decisions(p) /\ Vars(q) = Vars(p)
      /\ BaseLen(q) = BaseLen(p)
  BY DEF UserLevel, Decisions, Vars, BaseLen
<1>2. \A n : AtomsTo(q, n) = AtomsTo(p, n)
  BY DEF AtomsTo
<1>3. Bounded(q)
  BY <1>1 DEF Bounded
<1>4. Listed(q) /\ Ordered(q) /\ Activations(q)
  BY <1>1 DEF Listed, Ordered, Activations
<1>5. Trail(q) /\ Marked(q)
  BY <1>1 DEF Trail, Marked
<1>6. InStep(q)
  BY <1>1, <1>2 DEF InStep
<1> QED
  BY <1>3, <1>4, <1>5, <1>6

LEMMA ClauseGood ==
    ASSUME NEW p, NEW q, Good(p), SameButClauses(p, q), ClausesGuarded(q)
    PROVE  Good(q)
<1>1. /\ Bounded(p) /\ Listed(p) /\ Ordered(p) /\ Activations(p)
      /\ Trail(p) /\ Marked(p) /\ InStep(p) /\ Pending(p) /\ p.failed \subseteq {"unobserved"}
  BY DEF Good
<1>2. /\ Typed(q)
      /\ q.info = p.info /\ q.activeVars = p.activeVars /\ q.control = p.control
      /\ q.activation = p.activation /\ q.renotify = p.renotify
      /\ q.assignments = p.assignments /\ q.asgControl = p.asgControl
      /\ q.propagations = p.propagations /\ q.told = p.told /\ q.failed = p.failed
  BY DEF SameButClauses
<1>3. /\ Bounded(q) /\ Listed(q) /\ Ordered(q) /\ Activations(q)
      /\ Trail(q) /\ Marked(q) /\ InStep(q)
  BY <1>1, <1>2, SameParts
<1>4. Pending(q)
  BY <1>1, <1>2 DEF Pending, Vars
<1> QED
  BY <1>1, <1>2, <1>3, <1>4 DEF Good

LEMMA ClauseLevel ==
    ASSUME NEW p, Good(p), NEW c, OverAtoms(p, c)
    PROVE  /\ ClauseUserLevel(p, c) \in 0..UserLevel(p)
           /\ \A lit \in c : p.info[Abs(lit)].intro <= ClauseUserLevel(p, c)
<1>1. Typed(p) /\ Listed(p) /\ UserLevel(p) \in Nat
  BY Types DEF Good
<1> DEFINE I == {0} \union IntroLevels(p, c)
<1>2. \A lit \in c : /\ p.info[Abs(lit)].intro \in 0..UserLevel(p)
                     /\ p.info[Abs(lit)].intro \in I
  <2>1. \A lit \in c : p.info[Abs(lit)].intro <= UserLevel(p) /\ p.info[Abs(lit)].intro \in Nat
    BY <1>1, Types DEF OverAtoms, Listed
  <2>2. \A lit \in c : p.info[Abs(lit)].intro \in IntroLevels(p, c)
    BY DEF IntroLevels
  <2> QED
    BY <1>1, <2>1, <2>2
<1>3. I \subseteq 0..UserLevel(p) /\ I # {}
  BY <1>1, <1>2 DEF IntroLevels
<1>4. ClauseUserLevel(p, c) = MaxOf(I)
  BY DEF ClauseUserLevel
<1> HIDE DEF I
<1>5. MaxOf(I) \in I /\ \A m \in I : m <= MaxOf(I)
  BY <1>1, <1>3, MaxOfIn
<1> QED
  BY <1>2, <1>3, <1>4, <1>5

LEMMA ClauseGuarded ==
    ASSUME NEW p, Good(p), NEW c, OverAtoms(p, c), NEW level \in 0..UserLevel(p),
           ClauseUserLevel(p, c) <= level, NEW g, g = Guard(p, level) \union c
    PROVE  g \in SUBSET Int /\ Guarded(p, g)
<1>1. /\ Typed(p) /\ Bounded(p) /\ Activations(p) /\ UserLevel(p) \in Nat
      /\ Len(p.activation) = UserLevel(p)
      /\ DOMAIN p.activation = 1..UserLevel(p)
  BY Types DEF Good, Bounded
<1>2. /\ ClauseUserLevel(p, c) \in 0..UserLevel(p)
      /\ \A lit \in c : p.info[Abs(lit)].intro <= ClauseUserLevel(p, c)
      /\ \A lit \in c : p.info[Abs(lit)].intro \in Nat
  BY <1>1, ClauseLevel, Types DEF OverAtoms
<1>3. \A lit \in c : p.info[Abs(lit)].intro > 0 => level > 0
  BY <1>1, <1>2
<1>4. \A lit \in c : lit \in Int /\ Abs(lit) \in Vars(p) /\ p.info[Abs(lit)].atom
  BY DEF OverAtoms
<1>5. CASE level = 0
  <2>1. g = c
    BY <1>5 DEF Guard
  <2> QED
    BY <1>3, <1>4, <1>5, <2>1 DEF Guarded
<1>6. CASE level > 0
  <2> DEFINE a == p.activation[level]
  <2>1. a \in Vars(p) /\ ~p.info[a].atom
    BY <1>1, <1>6 DEF Activations
  <2>2. a \in Int /\ a > 0 /\ Abs(a) = a
    BY <1>1, <2>1, Types DEF Abs
  <2>3. g = {a} \union c
    BY <1>6 DEF Guard
  <2> HIDE DEF a
  <2>4. g \in SUBSET Int
    BY <1>4, <2>2, <2>3
  <2>5. a \in g /\ a > 0 /\ ~p.info[a].atom
    BY <2>1, <2>2, <2>3
  <2>6. ASSUME NEW lit \in g
        PROVE  /\ Abs(lit) \in Vars(p)
               /\ lit < 0 => p.info[Abs(lit)].atom
    <3>1. CASE lit = a
      BY <2>1, <2>2, <3>1
    <3>2. CASE lit \in c
      BY <1>4, <3>2
    <3> QED
      BY <2>3, <3>1, <3>2
  <2> QED
    BY <2>4, <2>5, <2>6 DEF Guarded
<1> QED
  BY <1>1, <1>5, <1>6

LEMMA StoredFields ==
    ASSUME NEW p, Typed(p), NEW g \in SUBSET Int, NEW q, q = [p EXCEPT !.db = @ \union {g}]
    PROVE  SameButClauses(p, q) /\ q.newClauses = p.newClauses /\ q.db = p.db \union {g}
<1>1. /\ Shape(q) /\ q.db = p.db \union {g} /\ q.newClauses = p.newClauses
      /\ q.info = p.info /\ q.activeVars = p.activeVars /\ q.control = p.control
      /\ q.activation = p.activation /\ q.renotify = p.renotify
      /\ q.assignments = p.assignments /\ q.asgControl = p.asgControl
      /\ q.propagations = p.propagations /\ q.found = p.found /\ q.told = p.told
      /\ q.failed = p.failed
  BY DEF Typed, Shape, Fields
<1>2. q.db \in SUBSET SUBSET Int
  BY <1>1 DEF Typed
<1> QED
  BY <1>1, <1>2 DEF SameButClauses, Typed

LEMMA BufferedFields ==
    ASSUME NEW p, Typed(p), NEW g \in SUBSET Int, NEW q,
           q = Buffering(p, g)
    PROVE  Buffered(p, q, g)
<1>1. /\ Shape(q) /\ q.db = p.db /\ q.newClauses = Append(p.newClauses, g)
      /\ q.info = p.info /\ q.activeVars = p.activeVars /\ q.control = p.control
      /\ q.activation = p.activation /\ q.renotify = p.renotify
      /\ q.assignments = p.assignments /\ q.asgControl = p.asgControl
      /\ q.propagations = p.propagations /\ q.found = p.found /\ q.told = p.told
      /\ q.failed = p.failed
  BY DEF Buffering, Typed, Shape, Fields
<1>2. p.newClauses \in Seq(SUBSET Int)
  BY DEF Typed
<1>3. /\ q.newClauses \in Seq(SUBSET Int) /\ Len(q.newClauses) = Len(p.newClauses) + 1
      /\ \A i \in 1..Len(p.newClauses) : q.newClauses[i] = p.newClauses[i]
      /\ q.newClauses[Len(p.newClauses) + 1] = g
  BY <1>1, <1>2, Appending
<1>4. SameButClauses(p, q)
  BY <1>1, <1>3 DEF SameButClauses, Typed
<1> QED
  BY <1>1, <1>3, <1>4 DEF Buffered

LEMMA StoredGood ==
    ASSUME NEW p, Good(p), NEW g \in SUBSET Int, Guarded(p, g),
           NEW q, q = [p EXCEPT !.db = @ \union {g}]
    PROVE  Good(q) /\ SameButClauses(p, q) /\ q.newClauses = p.newClauses
<1>1. Typed(p) /\ ClausesGuarded(p)
  BY DEF Good
<1>2. SameButClauses(p, q) /\ q.newClauses = p.newClauses /\ q.db = p.db \union {g}
  BY <1>1, StoredFields
<1>3. q.info = p.info /\ Vars(q) = Vars(p)
  BY <1>2 DEF SameButClauses, Vars
<1>4. \A c : Guarded(p, c) => Guarded(q, c)
  BY <1>3 DEF Guarded
<1>5. ClausesGuarded(q)
  BY ZenonT(60), <1>1, <1>2, <1>3, <1>4 DEF ClausesGuarded
<1> QED
  BY <1>2, <1>5, ClauseGood

LEMMA BufferedGood ==
    ASSUME NEW p, Good(p), NEW g \in SUBSET Int, Guarded(p, g) \/ Tautology(g),
           NEW q, q = Buffering(p, g)
    PROVE  Good(q) /\ SameButClauses(p, q) /\ q.db = p.db
<1>1. Typed(p) /\ ClausesGuarded(p)
  BY DEF Good
<1>2. /\ SameButClauses(p, q) /\ q.db = p.db
      /\ Len(q.newClauses) = Len(p.newClauses) + 1
      /\ \A i \in 1..Len(p.newClauses) : q.newClauses[i] = p.newClauses[i]
      /\ q.newClauses[Len(p.newClauses) + 1] = g
  BY <1>1, BufferedFields DEF Buffered
<1>3. q.info = p.info /\ Vars(q) = Vars(p) /\ Typed(q)
  BY <1>2 DEF SameButClauses, Vars
<1>4. \A c : Guarded(p, c) => Guarded(q, c)
  BY <1>3 DEF Guarded
<1>5. /\ DOMAIN q.newClauses = 1..Len(p.newClauses) + 1
      /\ DOMAIN p.newClauses = 1..Len(p.newClauses) /\ Len(p.newClauses) \in Nat
  <2>1. p.newClauses \in Seq(SUBSET Int) /\ q.newClauses \in Seq(SUBSET Int)
    BY <1>1, <1>3 DEF Typed
  <2>2. Len(q.newClauses) = Len(p.newClauses) + 1
    BY <1>2
  <2> QED
    BY <2>1, <2>2
<1>6. \A i \in DOMAIN q.newClauses : Tautology(q.newClauses[i]) \/ Guarded(q, q.newClauses[i])
  <2> TAKE i \in DOMAIN q.newClauses
  <2>1. CASE i = Len(p.newClauses) + 1
    BY <1>2, <1>4, <2>1
  <2>2. CASE i \in 1..Len(p.newClauses)
    BY <1>1, <1>2, <1>4, <1>5, <2>2 DEF ClausesGuarded
  <2> QED
    BY <1>5, <2>1, <2>2
<1>7. ClausesGuarded(q)
  BY <1>1, <1>2, <1>3, <1>4, <1>6 DEF ClausesGuarded
<1> QED
  BY <1>2, <1>7, ClauseGood

\* add_clause.
LEMMA AddClauseGood ==
    ASSUME NEW p, Good(p), NEW c, OverAtoms(p, c), NEW searching \in BOOLEAN,
           NEW q, q = AddClause(p, c, searching)
    PROVE  /\ Good(q) /\ SameButClauses(p, q)
           /\ searching => q.db = p.db
           /\ ~searching => q.newClauses = p.newClauses
<1>1. Typed(p) /\ Marked(p) /\ UserLevel(p) \in Nat
  BY Types DEF Good
<1>2. ClauseAsserts(p, c) = p
  <2>1. \A lit \in c : p.info[Abs(lit)].active
    BY DEF OverAtoms
  <2>2. \A lit \in c : p.info[Abs(lit)].fixed => p.info[Abs(lit)].assignment # 0
    BY <1>1 DEF OverAtoms, Marked
  <2> QED
    BY <2>1, <2>2 DEF ClauseAsserts, Check
<1> DEFINE base == IF searching THEN 0 ELSE UserLevel(p)
           cl == ClauseUserLevel(p, c)
           level == MaxOf({base, cl})
           g == Guard(p, level) \union c
<1>3. cl \in 0..UserLevel(p) /\ base \in 0..UserLevel(p)
  BY <1>1, ClauseLevel
<1>4. q = IF SatisfiedByFixed(p, c) THEN p
          ELSE IF searching THEN [p EXCEPT !.newClauses = Append(@, g)]
          ELSE [p EXCEPT !.db = @ \union {g}]
  BY <1>2 DEF AddClause
<1> HIDE DEF base
<1>5. level \in 0..UserLevel(p) /\ cl <= level
  <2>1. level \in {base, cl} /\ \A m \in {base, cl} : m <= level
    <3> HIDE DEF cl
    <3>1. {base, cl} \subseteq 0..UserLevel(p) /\ {base, cl} # {}
      BY <1>3
    <3> QED
      BY <1>1, <3>1, MaxOfIn
  <2> HIDE DEF level
  <2> QED
    BY <1>3, <2>1
<1> HIDE DEF level
<1>6. g \in SUBSET Int /\ Guarded(p, g)
  BY <1>5, ClauseGuarded
<1> HIDE DEF g
<1>7. CASE SatisfiedByFixed(p, c)
  <2>1. q = p
    BY <1>4, <1>7
  <2> QED
    BY <1>1, <2>1 DEF SameButClauses
<1>8. CASE ~SatisfiedByFixed(p, c) /\ searching
  <2>1. q = Buffering(p, g)
    BY <1>4, <1>8 DEF Buffering
  <2> QED
    BY <1>6, <1>8, <2>1, BufferedGood
<1>9. CASE ~SatisfiedByFixed(p, c) /\ ~searching
  <2>1. q = [p EXCEPT !.db = @ \union {g}]
    BY <1>4, <1>9
  <2> QED
    BY <1>6, <1>9, <2>1, StoredGood
<1> QED
  BY <1>7, <1>8, <1>9

LEMMA TautologyGood ==
    ASSUME NEW p, Good(p), NEW q, q = AddTautology(p)
    PROVE  Good(q) /\ SameButClauses(p, q)
<1>1. {1, -1} \in SUBSET Int /\ Tautology({1, -1})
  BY DEF Tautology
<1>2. q = Buffering(p, {1, -1})
  BY DEF AddTautology, Buffering
<1> QED
  BY <1>1, <1>2, BufferedGood

\* The literals of clauses and decisions are of atoms.
LEMMA ProblemAtoms ==
    ASSUME NEW p, Good(p), NEW v \in ProblemVars(p)
    PROVE  v \in Vars(p) /\ p.info[v].active /\ p.info[v].atom
<1>1. Typed(p) /\ Activations(p)
  BY DEF Good
<1>2. v \in Vars(p) /\ p.info[v].active /\ v \notin ToSet(p.activation)
  BY DEF ProblemVars, Active, ActivationVars
<1>3. ASSUME ~p.info[v].atom  PROVE FALSE
  <2>1. PICK k \in DOMAIN p.activation : p.activation[k] = v
    BY <1>1, <1>2, <1>3 DEF Activations
  <2> QED
    BY <1>2, <2>1 DEF ToSet
<1> QED
  BY <1>2, <1>3

LEMMA ClausesOver ==
    ASSUME NEW p, Good(p), NEW c \in Clauses(p)
    PROVE  OverAtoms(p, c)
<1>1. \A lit \in c : lit \in Int /\ Abs(lit) \in ProblemVars(p)
  BY BoundsAssumption DEF Clauses, LitsOf
<1>2. \A lit \in c : Abs(lit) \in Vars(p) /\ p.info[Abs(lit)].active /\ p.info[Abs(lit)].atom
  BY <1>1, ProblemAtoms
<1> QED
  BY <1>1, <1>2 DEF OverAtoms

-----------------------------------------------------------------------------
(* What the theories do when they are called. *)

LEMMA ExtendedSame ==
    ASSUME NEW p, NEW q, SameButClauses(p, q)
    PROVE  Extended(p, q)
  BY DEF SameButClauses, Extended, Vars

LEMMA ExtendedTrans ==
    ASSUME NEW p, NEW q, NEW r, Extended(p, q), Extended(q, r)
    PROVE  Extended(p, r)
  BY DEF Extended

LEMMA FoldNone ==
    ASSUME NEW p, NEW seq, seq = <<>>
    PROVE  FoldLeft(Explain, p, seq) = p
<1> DEFINE Step(f) == [x \in SUBSET DOMAIN seq |->
                         IF x = {} THEN p
                         ELSE Explain(f[x \ {Max(x)}], seq[Max(x)])]
           iter == CHOOSE f : f = Step(f)
<1>1. DOMAIN seq = {}
  OBVIOUS
<1>2. FoldLeft(Explain, p, seq) = iter[DOMAIN seq]
  BY DEF FoldLeft, MapThenFoldSet
<1> DEFINE g == [x \in SUBSET DOMAIN seq |-> p]
<1>3. g = Step(g)
  BY <1>1
<1> HIDE DEF Step
<1>4. iter = Step(iter)
  <2>1. \E f : f = Step(f)
    BY <1>3, Zenon
  <2> QED
    BY <2>1, Zenon
<1> HIDE DEF iter
<1> USE DEF Step
<1>5. iter[DOMAIN seq] = p
  BY <1>1, <1>4
<1> QED
  BY <1>2, <1>5

LEMMA FoldOne ==
    ASSUME NEW p, NEW S, NEW seq \in Seq(S), Len(seq) = 1
    PROVE  FoldLeft(Explain, p, seq) = Explain(p, seq[1])
<1> DEFINE Step(f) == [x \in SUBSET DOMAIN seq |->
                         IF x = {} THEN p
                         ELSE Explain(f[x \ {Max(x)}], seq[Max(x)])]
           iter == CHOOSE f : f = Step(f)
<1>1. DOMAIN seq = {1}
  OBVIOUS
<1>2. FoldLeft(Explain, p, seq) = iter[DOMAIN seq]
  BY DEF FoldLeft, MapThenFoldSet
<1>3. Max({1}) = 1
  BY DEF Max
<1>4. \A x \in SUBSET DOMAIN seq : x = {} \/ x = {1}
  BY <1>1
<1> DEFINE g == [x \in SUBSET DOMAIN seq |-> IF x = {} THEN p ELSE Explain(p, seq[1])]
<1>5. g = Step(g)
  <2>1. g[{}] = p
    OBVIOUS
  <2>2. ASSUME NEW x \in SUBSET DOMAIN seq, x # {}
        PROVE  Explain(g[x \ {Max(x)}], seq[Max(x)]) = Explain(p, seq[1])
    <3>0. x = {1}
      BY <1>4, <2>2
    <3>1. Max(x) = 1 /\ x \ {Max(x)} = {}
      <4>1. Max(x) = 1
        BY <1>3, <3>0
      <4>2. {1} \ {1} = {}
        OBVIOUS
      <4> QED
        BY <3>0, <4>1, <4>2
    <3> QED
      BY <1>3, <2>1, <3>1
  <2> QED
    BY <2>2
<1> HIDE DEF Step
<1>6. iter = Step(iter)
  <2>1. \E f : f = Step(f)
    BY <1>5, Zenon
  <2> QED
    BY <2>1, Zenon
<1> HIDE DEF iter
<1> USE DEF Step
<1>7. iter[{}] = p
  BY <1>6
<1>8. iter[{1}] = Explain(p, seq[1])
  <2>1. {1} \in SUBSET DOMAIN seq /\ {1} # {} /\ {1} \ {1} = {}
    BY <1>1
  <2>2. iter[{1}] = Explain(iter[{1} \ {Max({1})}], seq[Max({1})])
    BY <1>6, <2>1
  <2> QED
    BY <1>3, <1>7, <2>1, <2>2
<1> QED
  BY <1>1, <1>2, <1>8

\* The theories can explain what they propagated: what it rests on is on the trail.
LEMMA ReasonOver ==
    ASSUME NEW p, Good(p), NEW i \in DOMAIN p.propagations
    PROVE  OverAtoms(p, Explanation(p.propagations[i]))
<1> DEFINE e == p.propagations[i]
<1>1. /\ Typed(p) /\ Bounded(p) /\ Trail(p) /\ InStep(p) /\ Pending(p)
  BY DEF Good
<1>2. /\ Abs(e.lit) \in Vars(p) /\ p.info[Abs(e.lit)].active /\ p.info[Abs(e.lit)].atom
      /\ e.why \in p.told[Len(p.told)]
  BY <1>1 DEF Pending
<1>3. e.lit \in Int
  <2>1. p.propagations \in Seq(Entry)
    BY <1>1 DEF Typed
  <2>2. \A k \in DOMAIN p.propagations : p.propagations[k] \in Entry
    BY <2>1
  <2> QED
    BY <2>2 DEF Entry
<1> HIDE DEF e
<1>4. e.why \in AtomsTo(p, Len(p.assignments))
  BY <1>1, <1>2 DEF InStep
<1>5. /\ \E k \in 1..Len(p.assignments) : p.assignments[k] = e.why
      /\ Abs(e.why) \in Vars(p) /\ e.why \in Int /\ p.info[Abs(e.why)].atom
  <2>1. Len(p.assignments) \in Nat /\ Len(p.assignments) <= Len(p.assignments)
    BY <1>1, Types
  <2> QED
    BY <1>1, <1>4, <2>1, AtomsIn
<1>6. p.info[Abs(e.why)].active
  BY SMTT(30), <1>1, <1>5, Types DEF Trail
<1>7. -e.why \in Int /\ Abs(-e.why) = Abs(e.why)
  BY <1>5, AbsFacts
<1>8. \A lit \in {e.lit, -e.why} :
         lit \in Int /\ Abs(lit) \in Vars(p) /\ p.info[Abs(lit)].active /\ p.info[Abs(lit)].atom
  BY <1>2, <1>3, <1>5, <1>6, <1>7
<1> QED
  BY <1>8 DEF OverAtoms, Explanation, e

\* The pending propagations are replaced.
LEMMA PropagationsGood ==
    ASSUME NEW p, Good(p), NEW new \in Seq(Entry),
           NEW q, q = [p EXCEPT !.propagations = new], Pending(q)
    PROVE  Good(q) /\ Extended(p, q) /\ q.newClauses = p.newClauses /\ q.info = p.info
<1>1. /\ Typed(p) /\ Bounded(p) /\ Listed(p) /\ Ordered(p) /\ Activations(p)
      /\ Trail(p) /\ Marked(p) /\ InStep(p) /\ ClausesGuarded(p)
      /\ p.failed \subseteq {"unobserved"}
  BY DEF Good
<1>2. /\ Shape(q) /\ q.propagations = new /\ q.db = p.db /\ q.newClauses = p.newClauses
      /\ q.info = p.info /\ q.activeVars = p.activeVars /\ q.control = p.control
      /\ q.activation = p.activation /\ q.renotify = p.renotify
      /\ q.assignments = p.assignments /\ q.asgControl = p.asgControl
      /\ q.found = p.found /\ q.told = p.told /\ q.failed = p.failed
  BY <1>1 DEF Typed, Shape, Fields
<1>3. Typed(q)
  BY <1>1, <1>2 DEF Typed
<1>4. /\ Bounded(q) /\ Listed(q) /\ Ordered(q) /\ Activations(q)
      /\ Trail(q) /\ Marked(q) /\ InStep(q)
  BY <1>1, <1>2, SameParts
<1>5. ClausesGuarded(q)
  BY <1>1, <1>2 DEF ClausesGuarded, Guarded, Vars
<1>6. Extended(p, q)
  BY <1>2, <1>3 DEF Extended, Vars
<1> QED
  BY <1>1, <1>2, <1>3, <1>4, <1>5, <1>6 DEF Good

LEMMA PropagationsDropped ==
    ASSUME NEW p, Good(p), NEW q, q = [p EXCEPT !.propagations = <<>>]
    PROVE  Good(q) /\ Extended(p, q) /\ q.newClauses = p.newClauses /\ q.info = p.info
<1>1. q.propagations = <<>>
  BY DEF Good, Typed, Shape, Fields
<1>2. Pending(q)
  BY <1>1 DEF Pending
<1>3. <<>> \in Seq(Entry)
  OBVIOUS
<1> QED
  BY <1>2, <1>3, PropagationsGood

\* add_clause during the search, and outside it.
LEMMA LemmaGood ==
    ASSUME NEW p, Good(p), NEW c, OverAtoms(p, c), NEW q, q = AddClause(p, c, TRUE)
    PROVE  Good(q) /\ SameButClauses(p, q)
<1>1. PICK searching \in BOOLEAN : searching = TRUE
  BY Zenon
<1>2. q = AddClause(p, c, searching)
  BY <1>1, Zenon
<1> QED
  BY <1>2, AddClauseGood, Zenon

LEMMA InputFields ==
    ASSUME NEW p, Good(p), NEW c, OverAtoms(p, c), NEW searching \in BOOLEAN, ~searching,
           NEW q, q = AddClause(p, c, searching)
    PROVE  Good(q) /\ SameButClauses(p, q) /\ q.newClauses = p.newClauses
<1>1. /\ Good(q) /\ SameButClauses(p, q)
      /\ ~searching => q.newClauses = p.newClauses
  BY AddClauseGood
<1> QED
  BY <1>1

LEMMA InputGood ==
    ASSUME NEW p, Good(p), NEW c, OverAtoms(p, c), NEW q, q = AddClause(p, c, FALSE)
    PROVE  Good(q) /\ SameButClauses(p, q) /\ q.newClauses = p.newClauses
<1>1. PICK searching \in BOOLEAN : searching = FALSE
  BY Zenon
<1>2. q = AddClause(p, c, searching) /\ ~searching
  BY <1>1, Zenon
<1> QED
  BY <1>2, InputFields, Zenon

LEMMA ExplainGood ==
    ASSUME NEW p, Good(p), NEW e, OverAtoms(p, Explanation(e)), NEW q, q = Explain(p, e)
    PROVE  Good(q) /\ SameButClauses(p, q)
<1>1. PICK c : c = Explanation(e)
  BY Zenon
<1>2. OverAtoms(p, c) /\ q = AddClause(p, c, TRUE)
  BY <1>1, Zenon DEF Explain
<1> QED
  BY <1>2, LemmaGood, Zenon

LEMMA SingleEntry ==
    ASSUME NEW S, NEW es \in Seq(S), Len(es) <= 1, es # <<>>
    PROVE  Len(es) = 1 /\ 1 \in DOMAIN es
<1>1. Len(es) \in Nat /\ DOMAIN es = 1..Len(es) /\ Len(es) # 0
  OBVIOUS
<1>2. Len(es) = 1
  BY <1>1
<1> QED
  BY <1>1, <1>2

LEMMA ExplainAllGood ==
    ASSUME NEW p, Good(p), NEW q, q = ExplainAll(p)
    PROVE  Good(q) /\ Extended(p, q)
<1>1. Typed(p) /\ p.propagations \in Seq(Entry) /\ Len(p.propagations) <= 1
  BY DEF Good, Typed, Pending
<1>a. p.propagations # <<>> => Len(p.propagations) = 1 /\ 1 \in DOMAIN p.propagations
  BY <1>1, SingleEntry
<1>2. PICK x : x = FoldLeft(Explain, p, p.propagations)
  BY Zenon
<1>3. Good(x) /\ Extended(p, x)
  <2>1. CASE p.propagations = <<>>
    <3>1. x = p
      BY <1>2, <2>1, FoldNone, Zenon
    <3>2. SameButClauses(p, p)
      BY <1>1 DEF SameButClauses
    <3> QED
      BY <3>1, <3>2, ExtendedSame, Zenon
  <2>2. CASE p.propagations # <<>>
    <3>1. Len(p.propagations) = 1 /\ 1 \in DOMAIN p.propagations
      BY <1>a, <2>2, Zenon
    <3>2. x = Explain(p, p.propagations[1])
      BY <1>1, <1>2, <3>1, FoldOne, Zenon
    <3>3. OverAtoms(p, Explanation(p.propagations[1]))
      BY <3>1, ReasonOver, Zenon
    <3>4. Good(x) /\ SameButClauses(p, x)
      BY <3>2, <3>3, ExplainGood, Zenon
    <3> QED
      BY <3>4, ExtendedSame, Zenon
  <2> QED
    BY <2>1, <2>2, Zenon
<1>4. q = [x EXCEPT !.propagations = <<>>]
  BY <1>2, Zenon DEF ExplainAll
<1>5. Good(q) /\ Extended(x, q)
  BY <1>3, <1>4, PropagationsDropped, Zenon
<1> QED
  BY <1>3, <1>5, ExtendedTrans, Zenon

LEMMA NewAtomGood ==
    ASSUME NEW p, Good(p), Len(p.info) < MaxVar, NEW q, q = AddNewVar(p, TRUE)
    PROVE  Good(q) /\ Extended(p, q) /\ q.newClauses = p.newClauses
<1>1. Typed(p)
  BY DEF Good, Zenon
<1>2. AddedVar(p, q) /\ q.info[Len(p.info) + 1].atom
  BY <1>1, AddAtomFields, Zenon
<1>3. Good(q)
  BY <1>2, NewAtom, Zenon
<1>4. Extended(p, q) /\ q.newClauses = p.newClauses
  <2>1. Typed(q) /\ Grown(p, q) /\ q.newClauses = p.newClauses
    BY <1>2, Zenon DEF AddedVar
  <2>2. Vars(p) \subseteq Vars(q)
    BY <1>1, <2>1, GrownVars, Zenon
  <2>3. \A v \in Vars(p) : v \in Vars(q) /\ q.info[v] = p.info[v]
    BY <2>1, <2>2, Zenon DEF Grown
  <2> QED
    BY <1>2, <2>1, <2>3, Zenon DEF Extended, AddedVar
<1> QED
  BY <1>3, <1>4, Zenon

\* What a call to the theories does on the way.
LEMMA OutputsGood ==
    ASSUME NEW p, Good(p), NEW o \in Outputs(p)
    PROVE  Good(o[1]) /\ Extended(p, o[1])
<1> DEFINE created == {p} \union (IF Len(p.info) < MaxVar THEN {AddNewVar(p, TRUE)} ELSE {})
<1>1. ASSUME NEW q \in created  PROVE Good(q) /\ Extended(p, q)
  <2>1. CASE q = p
    <3>1. SameButClauses(p, p)
      BY DEF Good, SameButClauses
    <3> QED
      BY <2>1, <3>1, ExtendedSame, Zenon
  <2>2. CASE q # p
    <3>1. Len(p.info) < MaxVar /\ q = AddNewVar(p, TRUE)
      BY <2>2, Zenon
    <3> QED
      BY <3>1, NewAtomGood, Zenon
  <2> QED
    BY <2>1, <2>2, Zenon
<1>2. PICK q \in created :
         \/ o = <<q, {}>>
         \/ \E c \in Clauses(q) : o = <<AddClause(q, c, TRUE), {c}>>
  <2>1. \/ \E q \in created : o = <<q, {}>>
        \/ \E q \in created :
              \E c \in IF ClauseCount < MaxClauses THEN Clauses(q) \ lemmas ELSE {} :
                 o = <<AddClause(q, c, TRUE), {c}>>
    BY ZenonT(60) DEF Outputs
  <2> QED
    BY <2>1, Zenon
<1> HIDE DEF created
<1>3. Good(q) /\ Extended(p, q)
  BY <1>1, <1>2, Zenon
<1>4. CASE o = <<q, {}>>
  <2>1. o[1] = q
    BY <1>4
  <2> QED
    BY <1>3, <2>1, Zenon
<1>5. CASE \E c \in Clauses(q) : o = <<AddClause(q, c, TRUE), {c}>>
  <2>1. PICK c \in Clauses(q) : o = <<AddClause(q, c, TRUE), {c}>>
    BY <1>5, Zenon
  <2>2. PICK x : x = AddClause(q, c, TRUE)
    BY Zenon
  <2>3. o[1] = x
    <3>1. o = <<x, {c}>>
      BY <2>1, <2>2, Zenon
    <3> HIDE <2>1, <2>2
    <3> QED
      BY <3>1
  <2>4. OverAtoms(q, c)
    BY <1>3, ClausesOver, Zenon
  <2>5. Good(x) /\ SameButClauses(q, x)
    BY <1>3, <2>2, <2>4, LemmaGood, Zenon
  <2>6. Extended(p, x)
    BY <1>3, <2>5, ExtendedSame, ExtendedTrans, Zenon
  <2> QED
    BY <2>3, <2>5, <2>6, Zenon
<1> QED
  BY <1>2, <1>4, <1>5, Zenon

LEMMA AnswerFields ==
    ASSUME NEW a, NEW b, NEW c, NEW r, r = [p |-> a, ok |-> b, new |-> c]
    PROVE  r.p = a /\ r.ok = b /\ r.new = c
  OBVIOUS

LEMMA CheckFoundGood ==
    ASSUME NEW p, Good(p), NEW r \in CheckFoundModel(p)
    PROVE  Checked(p, r)
<1>1. CASE p.found
  <2>1. r = [p |-> p, ok |-> TRUE, new |-> {}]
    BY <1>1, Zenon DEF CheckFoundModel
  <2>2. r.p = p
    BY <2>1, AnswerFields, Zenon
  <2>3. Extended(p, p)
    <3>1. SameButClauses(p, p)
      BY DEF Good, SameButClauses
    <3> QED
      BY <3>1, ExtendedSame, Zenon
  <2> QED
    BY <1>1, <2>2, <2>3, Zenon DEF Checked
<1>2. CASE ~p.found /\ p.newClauses # <<>>
  <2>1. r = [p |-> AddTautology(p), ok |-> FALSE, new |-> {}]
    BY <1>2, Zenon DEF CheckFoundModel
  <2>2. r.p = AddTautology(p) /\ r.ok = FALSE
    BY <2>1, AnswerFields, Zenon
  <2>3. Good(r.p) /\ SameButClauses(p, r.p)
    BY <2>2, TautologyGood, Zenon
  <2> QED
    BY <2>2, <2>3, ExtendedSame, Zenon DEF Checked
<1>3. CASE ~p.found /\ p.newClauses = <<>>
  <2> DEFINE Answer(t) ==
        LET grown == Len(t[1].info) # Len(p.info)
            q == ExplainAll(t[1])
        IN  [p |-> IF grown THEN AddTautology(q) ELSE q,
             ok |-> ~grown /\ q.newClauses = <<>>,
             new |-> t[2] \union Explanations(p)]
  <2>1. \/ \E d \in Outputs(p) : r = [p |-> d[1], ok |-> FALSE, new |-> d[2]]
        \/ \E t \in Outputs(p) : r = Answer(t)
    BY <1>3, Zenon DEF CheckFoundModel
  <2>2. CASE \E d \in Outputs(p) : r = [p |-> d[1], ok |-> FALSE, new |-> d[2]]
    <3>1. PICK d \in Outputs(p) : r = [p |-> d[1], ok |-> FALSE, new |-> d[2]]
      BY <2>2, Zenon
    <3>2. r.p = d[1] /\ r.ok = FALSE
      BY <3>1, AnswerFields, Zenon
    <3>3. Good(d[1]) /\ Extended(p, d[1])
      BY <3>1, OutputsGood, Zenon
    <3> QED
      BY <3>2, <3>3, Zenon DEF Checked
  <2>3. CASE \E t \in Outputs(p) : r = Answer(t)
    <3>1. PICK t \in Outputs(p) : r = Answer(t)
      BY <2>3, Zenon
    <3>2. PICK q : q = ExplainAll(t[1])
      BY Zenon
    <3>3. Good(q) /\ Extended(p, q)
      <4>1. Good(t[1]) /\ Extended(p, t[1])
        BY <3>1, OutputsGood, Zenon
      <4>2. Good(q) /\ Extended(t[1], q)
        BY <3>2, <4>1, ExplainAllGood, Zenon
      <4> QED
        BY <4>1, <4>2, ExtendedTrans, Zenon
    <3>5. /\ r.p = IF Len(t[1].info) # Len(p.info) THEN AddTautology(q) ELSE q
          /\ r.ok = (~(Len(t[1].info) # Len(p.info)) /\ q.newClauses = <<>>)
      BY <3>1, <3>2, AnswerFields, Zenon
    <3>6. CASE Len(t[1].info) # Len(p.info)
      <4>1. r.p = AddTautology(q) /\ r.ok = FALSE
        BY <3>5, <3>6, Zenon
      <4>2. Good(r.p) /\ SameButClauses(q, r.p)
        BY <3>3, <4>1, TautologyGood, Zenon
      <4>3. Extended(p, r.p)
        BY <3>3, <4>2, ExtendedSame, ExtendedTrans, Zenon
      <4> QED
        BY <4>1, <4>2, <4>3, Zenon DEF Checked
    <3>7. CASE Len(t[1].info) = Len(p.info)
      <4>1. r.p = q /\ (r.ok => q.newClauses = <<>>)
        BY <3>5, <3>7, Zenon
      <4> QED
        BY <3>3, <4>1, Zenon DEF Checked
    <3> QED
      BY <3>6, <3>7, Zenon
  <2> QED
    BY <2>1, <2>2, <2>3, Zenon
<1> QED
  BY <1>1, <1>2, <1>3, Zenon

-----------------------------------------------------------------------------
(* A new user level. *)

LEMMA RaisedFields ==
    ASSUME NEW p, Typed(p), p.told # <<>>, NEW x, x = Raising(p)
    PROVE  Raised(p, x)
<1>1. /\ p.told \in Seq(SUBSET Int) /\ p.control \in Seq(Nat) /\ Shape(p)
      /\ Len(p.activeVars) \in Nat /\ Len(p.told) \in Nat /\ Len(p.told) >= 1
      /\ p.told[Len(p.told)] \in SUBSET Int
  BY SMTT(30), Types DEF Typed
<1>2. Known(p) = p.told[Len(p.told)]
  BY <1>1, LastIs DEF Known
<1>3. /\ Shape(x) /\ x.told = Append(p.told, p.told[Len(p.told)])
      /\ x.control = Append(p.control, Len(p.activeVars))
      /\ x.info = p.info /\ x.activation = p.activation /\ x.activeVars = p.activeVars
      /\ x.renotify = p.renotify /\ x.assignments = p.assignments
      /\ x.asgControl = p.asgControl /\ x.propagations = p.propagations
      /\ x.newClauses = p.newClauses /\ x.found = p.found
      /\ x.db = p.db /\ x.failed = p.failed
  BY <1>1, <1>2 DEF Raising, UserPush, Shape, Fields
<1>4. /\ x.told \in Seq(SUBSET Int) /\ Len(x.told) = Len(p.told) + 1
      /\ \A i \in 1..Len(p.told) : x.told[i] = p.told[i]
      /\ x.told[Len(p.told) + 1] = p.told[Len(p.told)]
  BY <1>1, <1>3, Appending
<1>5. /\ x.control \in Seq(Nat) /\ UserLevel(x) = UserLevel(p) + 1
      /\ \A k \in 1..UserLevel(p) : x.control[k] = p.control[k]
      /\ x.control[UserLevel(p) + 1] = Len(p.activeVars)
  BY <1>1, <1>3, Appending DEF UserLevel
<1> QED
  BY <1>3, <1>4, <1>5 DEF Raised, Typed

LEMMA ActivatedFields ==
    ASSUME NEW y, Typed(y), NEW w \in Nat, NEW q, q = Activating(y, w)
    PROVE  Activated(y, q, w)
<1>1. Shape(y) /\ y.activation \in Seq(Nat)
  BY DEF Typed
<1>2. /\ Shape(q) /\ q.activation = Append(y.activation, w)
      /\ q.told = y.told /\ q.control = y.control
      /\ q.info = y.info /\ q.activeVars = y.activeVars
      /\ q.renotify = y.renotify /\ q.assignments = y.assignments
      /\ q.asgControl = y.asgControl /\ q.propagations = y.propagations
      /\ q.newClauses = y.newClauses /\ q.found = y.found
      /\ q.db = y.db /\ q.failed = y.failed
  BY <1>1 DEF Activating, Shape, Fields
<1>3. /\ q.activation \in Seq(Nat) /\ Len(q.activation) = Len(y.activation) + 1
      /\ \A k \in 1..Len(y.activation) : q.activation[k] = y.activation[k]
      /\ q.activation[Len(y.activation) + 1] = w
  BY <1>1, <1>2, Appending
<1> QED
  BY <1>2, <1>3 DEF Activated, Typed

LEMMA OpenedBy ==
    ASSUME NEW p, Typed(p), NEW x, Raised(p, x), NEW y, AddedVar(x, y),
           ~y.info[Len(p.info) + 1].atom, NEW q, Activated(y, q, Len(p.info) + 1)
    PROVE  Opened(p, q)
<1>2. /\ Typed(q) /\ q.told = y.told /\ q.control = y.control
      /\ q.info = y.info /\ q.activeVars = y.activeVars
      /\ q.renotify = y.renotify /\ q.assignments = y.assignments
      /\ q.asgControl = y.asgControl /\ q.propagations = y.propagations
      /\ q.newClauses = y.newClauses /\ q.found = y.found
      /\ q.db = y.db /\ q.failed = y.failed
  BY DEF Activated
<1>3. /\ Len(q.activation) = Len(p.activation) + 1
      /\ \A k \in 1..Len(p.activation) : q.activation[k] = p.activation[k]
      /\ q.activation[Len(p.activation) + 1] = Len(p.info) + 1
  <2>1. y.activation = p.activation
    BY DEF AddedVar, Raised
  <2> QED
    BY <2>1 DEF Activated
<1>5. /\ Grown(x, y) /\ x.info = p.info /\ q.info = y.info /\ Vars(x) = Vars(p)
      /\ UserLevel(q) = UserLevel(y)
  BY <1>2 DEF Raised, AddedVar, Vars, UserLevel
<1>6. Grown(p, q)
  BY <1>5 DEF Grown
<1>7. /\ q.told = x.told /\ q.control = x.control /\ UserLevel(q) = UserLevel(x)
      /\ q.renotify = x.renotify /\ q.assignments = x.assignments
      /\ q.asgControl = x.asgControl /\ q.propagations = x.propagations
      /\ q.newClauses = x.newClauses /\ q.found = x.found
      /\ q.db = x.db /\ q.failed = x.failed
  BY <1>2 DEF AddedVar, UserLevel
<1>8. /\ Len(q.activeVars) = Len(p.activeVars) + 1
      /\ \A i \in 1..Len(p.activeVars) : q.activeVars[i] = p.activeVars[i]
      /\ q.activeVars[Len(p.activeVars) + 1] = Len(p.info) + 1
  BY <1>2 DEF AddedVar, Raised
<1>9. /\ Len(q.told) = Len(p.told) + 1
      /\ \A i \in 1..Len(p.told) : q.told[i] = p.told[i]
      /\ q.told[Len(p.told) + 1] = p.told[Len(p.told)]
      /\ UserLevel(q) = UserLevel(p) + 1
      /\ \A k \in 1..UserLevel(p) : q.control[k] = p.control[k]
      /\ q.control[UserLevel(p) + 1] = Len(p.activeVars)
      /\ q.renotify = p.renotify /\ q.assignments = p.assignments
      /\ q.asgControl = p.asgControl /\ q.propagations = p.propagations
      /\ q.newClauses = p.newClauses /\ q.found = p.found
      /\ q.db = p.db /\ q.failed = p.failed
  BY <1>7 DEF Raised
<1>10. ~q.info[Len(p.info) + 1].atom
  BY <1>5
<1> QED
  BY <1>2, <1>3, <1>6, <1>8, <1>9, <1>10 DEF Opened

LEMMA OpenedFields ==
    ASSUME NEW p, Typed(p), p.told # <<>>, NEW q,
           q = [AddNewVar(UserPush([p EXCEPT !.told = Append(@, Known(p))]), FALSE)
                  EXCEPT !.activation = Append(@, Len(p.info) + 1)]
    PROVE  Opened(p, q)
<1>1. PICK x : x = Raising(p)
  BY Zenon
<1>2. PICK b \in BOOLEAN : b = FALSE
  BY Zenon
<1>3. PICK y : y = AddNewVar(x, b)
  BY Zenon
<1>4. ~b /\ q = Activating(y, Len(p.info) + 1)
  BY <1>1, <1>2, <1>3, Zenon DEF Raising, Activating
<1>5. Raised(p, x)
  BY <1>1, RaisedFields, Zenon
<1>6. Typed(x) /\ x.info = p.info
  BY <1>5, Zenon DEF Raised
<1>7. AddedVar(x, y) /\ (y.info[Len(x.info) + 1].atom <=> b)
  BY <1>3, <1>6, AddNewVarFields, Zenon
<1>8. ~y.info[Len(p.info) + 1].atom
  BY <1>4, <1>6, <1>7, Zenon
<1>9. Len(p.info) + 1 \in Nat /\ Typed(y)
  <2>1. Len(p.info) \in Nat
    BY Types, Zenon
  <2>2. \A n \in Nat : n + 1 \in Nat
    BY SMT
  <2> QED
    BY <1>7, <2>1, <2>2, Zenon DEF AddedVar
<1>10. Activated(y, q, Len(p.info) + 1)
  BY <1>4, <1>9, ActivatedFields, Zenon
<1> QED
  BY <1>5, <1>7, <1>8, <1>10, OpenedBy, Zenon

LEMMA OpenedStep ==
    ASSUME NEW p, Typed(p), Bounded(p), Trail(p), Marked(p), InStep(p), p.asgControl = <<>>,
           NEW q, Opened(p, q)
    PROVE  InStep(q)
<1> DEFINE top == Len(p.told)
           n == Len(p.assignments)
<1>1. /\ Typed(q) /\ Grown(p, q) /\ Len(q.told) = top + 1
      /\ \A i \in 1..top : q.told[i] = p.told[i]
      /\ q.told[top + 1] = p.told[top]
      /\ UserLevel(q) = UserLevel(p) + 1
      /\ q.renotify = p.renotify /\ q.assignments = p.assignments
      /\ q.asgControl = <<>>
  BY DEF Opened
<1>2. /\ top \in Nat /\ n \in Nat /\ UserLevel(p) \in Nat /\ top = 1 + UserLevel(p)
      /\ DOMAIN p.told = 1..top /\ DOMAIN p.control = 1..UserLevel(p)
      /\ DOMAIN p.assignments = 1..n
  BY Types DEF Bounded
<1>3. DOMAIN q.told = 1..top + 1 /\ DOMAIN q.control = 1..UserLevel(p) + 1
  <2>1. DOMAIN q.told = 1..Len(q.told) /\ DOMAIN q.control = 1..UserLevel(q)
    BY <1>1, Types
  <2> QED
    BY <1>1, <2>1
<1>4. Vars(p) \subseteq Vars(q) /\ \A v \in Vars(p) : q.info[v] = p.info[v]
  BY <1>1, GrownVars DEF Grown
<1>5. \A i \in 1..n : Abs(p.assignments[i]) \in Vars(p)
                      /\ q.info[Abs(p.assignments[i])] = p.info[Abs(p.assignments[i])]
  BY <1>2, <1>4 DEF Trail
<1>6. AtomsTo(q, n) = AtomsTo(p, n)
  <2>1. SameAtoms(p, q)
    BY <1>4 DEF SameAtoms
  <2>2. n <= Len(p.assignments) /\ n <= Len(q.assignments)
        /\ \A i \in 1..n : q.assignments[i] = p.assignments[i]
    BY <1>1, <1>2
  <2> QED
    BY <1>1, <1>2, <2>1, <2>2, AtomsSame
<1>7. /\ \A i, j \in 1..top : i <= j => p.told[i] \subseteq p.told[j]
      /\ p.told[top] \union ToSet(p.renotify) = AtomsTo(p, n)
      /\ \A k \in 1..UserLevel(p), i \in 1..n :
            LET v == Abs(p.assignments[i]) IN
            p.info[v].atom /\ p.info[v].fixed /\ p.info[v].fixedAt < k =>
               p.assignments[i] \in p.told[k] \union ToSet(p.renotify)
  BY <1>2 DEF InStep
<1>8. \A lit : lit \in AtomsTo(p, n) <=>
         /\ \E i \in 1..n : p.assignments[i] = lit
         /\ Abs(lit) \in Vars(p) /\ lit \in Int /\ p.info[Abs(lit)].atom
  BY <1>2, AtomsIn
<1>9. /\ \A i \in 1..n : p.assignments[i] \in Int
  BY Types
<1> HIDE DEF top, n
<1>10. \A i, j \in 1..top + 1 : i <= j => q.told[i] \subseteq q.told[j]
  <2> SUFFICES ASSUME NEW i \in 1..top + 1, NEW j \in 1..top + 1, i <= j
               PROVE  q.told[i] \subseteq q.told[j]
    OBVIOUS
  <2>1. CASE j \in 1..top
    <3>1. i \in 1..top
      BY <1>2, <2>1
    <3> QED
      BY <1>1, <1>7, <2>1, <3>1
  <2>2. CASE j = top + 1 /\ i = top + 1
    BY <2>2
  <2>3. CASE j = top + 1 /\ i \in 1..top
    <3>1. p.told[i] \subseteq p.told[top]
      <4>1. top \in 1..top /\ i <= top
        BY <1>2, <2>3
      <4> QED
        BY <1>7, <2>3, <4>1
    <3> QED
      BY <1>1, <2>3, <3>1
  <2>4. (i \in 1..top \/ i = top + 1) /\ (j \in 1..top \/ j = top + 1)
    BY <1>2
  <2> QED
    BY <2>1, <2>2, <2>3, <2>4
<1>11. q.told[top + 1] \union ToSet(q.renotify) = AtomsTo(q, n)
  BY <1>1, <1>6, <1>7
<1>12. ASSUME NEW k \in 1..UserLevel(p) + 1, NEW i \in 1..n,
              q.info[Abs(p.assignments[i])].atom, q.info[Abs(p.assignments[i])].fixed,
              q.info[Abs(p.assignments[i])].fixedAt < k
       PROVE  p.assignments[i] \in q.told[k] \union ToSet(p.renotify)
  <2>1. CASE k \in 1..UserLevel(p)
    <3>1. k \in 1..top
      BY <1>2, <2>1
    <3>2. p.assignments[i] \in p.told[k] \union ToSet(p.renotify)
      BY <1>5, <1>7, <1>12, <2>1
    <3> QED
      BY <1>1, <3>1, <3>2
  <2>2. CASE k = UserLevel(p) + 1
    <3>1. k = top /\ q.told[k] = p.told[top]
      BY <1>1, <1>2, <2>2
    <3>2. p.assignments[i] \in AtomsTo(p, n)
      BY <1>5, <1>8, <1>9, <1>12
    <3> QED
      BY <1>7, <3>1, <3>2
  <2> QED
    BY <1>2, <2>1, <2>2
<1>13. /\ DOMAIN q.asgControl = {} /\ Len(q.told) = top + 1
       /\ DOMAIN q.assignments = 1..n /\ Len(q.assignments) = n
  BY <1>1, <1>2 DEF n
<1> QED
  BY <1>1, <1>3, <1>10, <1>11, <1>12, <1>13 DEF InStep

\* push.
LEMMA OpenedGood ==
    ASSUME NEW p, Good(p), Len(p.info) < MaxVar, UserLevel(p) < MaxUserLevel,
           p.asgControl = <<>>, NEW q, Opened(p, q)
    PROVE  Good(q)
<1>1. /\ Typed(p) /\ Bounded(p) /\ Listed(p) /\ Ordered(p) /\ Activations(p)
      /\ Trail(p) /\ Marked(p) /\ InStep(p) /\ ClausesGuarded(p) /\ Pending(p)
      /\ p.failed \subseteq {"unobserved"}
  BY DEF Good
<1> DEFINE w == Len(p.info) + 1
           u == UserLevel(p)
           n == Len(p.activeVars)
<1>2. /\ Typed(q) /\ Grown(p, q) /\ ~q.info[w].atom
      /\ q.renotify = p.renotify /\ q.assignments = p.assignments
      /\ q.asgControl = p.asgControl /\ q.propagations = p.propagations
      /\ q.newClauses = p.newClauses /\ q.db = p.db /\ q.failed = p.failed
      /\ UserLevel(q) = u + 1 /\ Len(q.told) = Len(p.told) + 1
  BY DEF Opened
<1>3. Trail(q) /\ Marked(q)
  BY <1>1, <1>2, GrownTrail
<1>4. InStep(q)
  BY <1>1, OpenedStep
<1>5. ClausesGuarded(q)
  BY <1>1, <1>2, GrownClauses
<1>6. /\ Vars(p) \subseteq Vars(q) /\ w \in Vars(q)
      /\ \A v \in Vars(q) : v \in Vars(p) \/ v = w
      /\ \A v \in Vars(p) : q.info[v] = p.info[v]
      /\ Decisions(q) = Decisions(p)
      /\ Len(q.info) = Len(p.info) + 1
      /\ q.info[w].intro = u + 1 /\ q.info[w].fixedAt = 0 /\ q.info[w].active
  BY <1>1, <1>2, GrownVars DEF Grown, Decisions
<1>7. /\ u \in Nat /\ n \in Nat /\ Decisions(p) \in Nat /\ Len(p.info) \in Nat
      /\ Len(p.told) \in Nat /\ Len(p.told) = 1 + u + Decisions(p)
      /\ Len(p.activation) = u
      /\ DOMAIN p.control = 1..u /\ DOMAIN p.activeVars = 1..n /\ DOMAIN p.activation = 1..u
      /\ \A k \in 1..u : p.control[k] \in Nat
  BY <1>1, Types DEF Bounded
<1>8. /\ \A k \in 1..u : q.control[k] = p.control[k]
      /\ q.control[u + 1] = n
      /\ Len(q.activation) = u + 1
      /\ \A k \in 1..u : q.activation[k] = p.activation[k]
      /\ q.activation[u + 1] = w
      /\ Len(q.activeVars) = n + 1
      /\ \A i \in 1..n : q.activeVars[i] = p.activeVars[i]
      /\ q.activeVars[n + 1] = w
  BY <1>7 DEF Opened
<1>9. /\ DOMAIN q.control = 1..u + 1 /\ DOMAIN q.activeVars = 1..n + 1
      /\ DOMAIN q.activation = 1..u + 1
  <2>1. /\ DOMAIN q.control = 1..UserLevel(q) /\ DOMAIN q.activeVars = 1..Len(q.activeVars)
        /\ DOMAIN q.activation = 1..Len(q.activation)
    BY SMTT(30), <1>2, Types
  <2> QED
    BY <1>2, <1>8, <2>1
<1>10. Pending(q)
  <2>1. /\ q.told[Len(q.told)] = p.told[Len(p.told)] /\ q.told[1] = p.told[1]
    <3>1. 1 \in 1..Len(p.told)
      BY <1>7
    <3> QED
      BY <3>1 DEF Opened
  <2>2. \A i \in DOMAIN p.propagations :
           q.info[Abs(p.propagations[i].lit)] = p.info[Abs(p.propagations[i].lit)]
           /\ Abs(p.propagations[i].lit) \in Vars(q)
    BY <1>1, <1>6 DEF Pending
  <2> QED
    BY <1>1, <1>2, <2>1, <2>2 DEF Pending
<1> HIDE DEF w, u, n
<1>11. Bounded(q)
  <2>1. \A v \in Vars(q) : q.info[v].intro <= MaxUserLevel /\ q.info[v].fixedAt <= MaxUserLevel
    <3> TAKE v \in Vars(q)
    <3>1. CASE v \in Vars(p)
      BY <1>1, <1>6, <3>1 DEF Bounded
    <3>2. CASE v = w
      BY SMTT(30), <1>6, <1>7, <3>2, BoundsAssumption DEF u
    <3> QED
      BY <1>6, <3>1, <3>2
  <2>2. Len(q.info) <= MaxVar /\ UserLevel(q) <= MaxUserLevel
    BY SMTT(30), <1>2, <1>6, <1>7, BoundsAssumption DEF u
  <2>3. Len(q.told) = 1 + UserLevel(q) + Decisions(q) /\ Len(q.activation) = UserLevel(q)
    BY <1>2, <1>6, <1>7, <1>8
  <2> QED
    BY <2>1, <2>2, <2>3 DEF Bounded
<1>12. /\ \A i \in 1..n + 1 : i \in 1..n \/ i = n + 1
       /\ 1..n \subseteq 1..n + 1 /\ n + 1 \in 1..n + 1
       /\ \A k \in 1..u + 1 : k \in 1..u \/ k = u + 1
       /\ 1..u \subseteq 1..u + 1 /\ u + 1 \in 1..u + 1
  BY <1>7
<1>13. /\ \A i \in 1..n : /\ p.activeVars[i] \in Vars(p) /\ p.info[p.activeVars[i]].active
                          /\ p.info[p.activeVars[i]].intro <= u
                          /\ q.info[q.activeVars[i]] = p.info[p.activeVars[i]]
                          /\ q.activeVars[i] \in Vars(q)
       /\ \A k \in 1..u : p.control[k] <= n
  <2>1. \A i \in 1..n : p.activeVars[i] \in Vars(p) /\ p.info[p.activeVars[i]].active
    BY <1>1, <1>7 DEF Listed
  <2>2. \A i \in 1..n : p.info[p.activeVars[i]].intro <= u
    BY <1>1, <2>1 DEF Listed, u
  <2>3. \A i \in 1..n : /\ q.info[q.activeVars[i]] = p.info[p.activeVars[i]]
                        /\ q.activeVars[i] \in Vars(q)
    BY SMTT(30), <1>6, <1>8, <2>1
  <2>4. \A k \in 1..u : p.control[k] <= n
    BY <1>1, <1>7 DEF Ordered, n
  <2> QED
    BY <2>1, <2>2, <2>3, <2>4
<1>14. Listed(q)
  <2>1. \A i \in 1..n + 1 : q.activeVars[i] \in Vars(q) /\ q.info[q.activeVars[i]].active
    <3> TAKE i \in 1..n + 1
    <3>1. CASE i \in 1..n
      BY <1>13, <3>1
    <3>2. CASE i = n + 1
      BY <1>6, <1>8, <3>2
    <3> QED
      BY <1>12, <3>1, <3>2
  <2>2. ASSUME NEW v \in Vars(q), q.info[v].active
        PROVE  q.info[v].intro <= u + 1 /\ \E i \in 1..n + 1 : q.activeVars[i] = v
    <3>1. CASE v \in Vars(p)
      <4>1. v \in Vars(p) /\ p.info[v].active /\ q.info[v] = p.info[v] /\ p.info[v].intro \in Nat
        BY <1>1, <1>6, <2>2, <3>1, Types
      <4>2. p.info[v].intro <= u /\ \E i \in 1..n : p.activeVars[i] = v
        BY <1>1, <1>7, <4>1 DEF Listed, u, n
      <4>3. \E i \in 1..n + 1 : q.activeVars[i] = v
        BY <1>8, <1>12, <4>2
      <4>4. p.info[v].intro <= u + 1
        <5>1. \A m \in Nat : m <= u => m <= u + 1
          BY <1>7
        <5> QED
          BY <4>1, <4>2, <5>1
      <4> QED
        BY <4>1, <4>3, <4>4
    <3>2. CASE v = w
      BY SMTT(30), <1>6, <1>7, <1>8, <1>12, <3>2
    <3> QED
      BY <1>6, <3>1, <3>2
  <2> QED
    BY <1>2, <1>9, <2>1, <2>2 DEF Listed
<1>15. Ordered(q)
  <2>1. \A k \in 1..u + 1 : q.control[k] <= n + 1 /\ q.control[k] <= n /\ q.control[k] \in Nat
    <3> TAKE k \in 1..u + 1
    <3>0. \A m \in Nat : m <= n => m <= n + 1
      BY <1>7
    <3>1. CASE k \in 1..u
      <4>1. p.control[k] \in Nat /\ p.control[k] <= n /\ q.control[k] = p.control[k]
        BY <1>7, <1>8, <1>13, <3>1
      <4> QED
        BY <3>0, <4>1
    <3>2. CASE k = u + 1
      BY SMTT(30), <1>7, <1>8, <3>2
    <3> QED
      BY <1>12, <3>1, <3>2
  <2>2. ASSUME NEW k \in 1..u + 1, NEW i \in 1..n + 1
        PROVE  i <= q.control[k] <=> q.info[q.activeVars[i]].intro < k
    <3>1. CASE i \in 1..n /\ k \in 1..u
      <4>1. i <= p.control[k] <=> p.info[p.activeVars[i]].intro < k
        BY <1>1, <1>7, <3>1 DEF Ordered
      <4> QED
        BY <1>8, <1>13, <3>1, <4>1
    <3>2. CASE i \in 1..n /\ k = u + 1
      <4>1. p.info[p.activeVars[i]].intro \in Nat /\ p.info[p.activeVars[i]].intro <= u
        BY <1>1, <1>13, <3>2, Types
      <4>2. /\ q.control[k] = n /\ i <= n
            /\ q.info[q.activeVars[i]] = p.info[p.activeVars[i]]
        BY <1>7, <1>8, <1>13, <3>2
      <4>3. p.info[p.activeVars[i]].intro < k
        BY SMTT(30), <1>7, <3>2, <4>1
      <4> QED
        BY <4>2, <4>3
    <3>3. CASE i = n + 1
      <4>1. ~(i <= q.control[k])
        BY <1>7, <2>1, <3>3
      <4>2. q.info[q.activeVars[i]].intro = u + 1
        BY <1>6, <1>8, <3>3
      <4> QED
        BY <1>7, <4>1, <4>2
    <3> QED
      BY <1>12, <3>1, <3>2, <3>3
  <2>3. ASSUME NEW k \in 1..u + 1, NEW l \in 1..u + 1, k <= l
        PROVE  q.control[k] <= q.control[l]
    <3>1. CASE l \in 1..u
      <4>1. k \in 1..u
        BY <1>7, <2>3, <3>1
      <4> QED
        BY <1>1, <1>7, <1>8, <2>3, <3>1, <4>1 DEF Ordered
    <3>2. CASE l = u + 1
      BY <1>8, <2>1, <3>2
    <3> QED
      BY <1>12, <3>1, <3>2
  <2> QED
    BY <1>8, <1>9, <2>1, <2>2, <2>3 DEF Ordered
<1>16. Activations(q)
  <2>1. ASSUME NEW k \in 1..u + 1
        PROVE  /\ q.activation[k] \in Vars(q) /\ q.info[q.activation[k]].active
               /\ ~q.info[q.activation[k]].atom /\ q.info[q.activation[k]].intro = k
    <3>1. CASE k \in 1..u
      <4>1. /\ p.activation[k] \in Vars(p) /\ p.info[p.activation[k]].active
            /\ ~p.info[p.activation[k]].atom /\ p.info[p.activation[k]].intro = k
        BY <1>1, <1>7, <3>1 DEF Activations
      <4>2. q.activation[k] = p.activation[k]
        BY <1>8, <3>1
      <4> QED
        BY <1>6, <4>1, <4>2
    <3>2. CASE k = u + 1
      BY <1>2, <1>6, <1>8, <3>2
    <3> QED
      BY <1>12, <3>1, <3>2
  <2>2. ASSUME NEW v \in Vars(q), q.info[v].active, ~q.info[v].atom
        PROVE  \E k \in 1..u + 1 : q.activation[k] = v
    <3>1. CASE v \in Vars(p)
      <4>1. p.info[v].active /\ ~p.info[v].atom
        BY <1>6, <2>2, <3>1
      <4>2. PICK k \in 1..u : p.activation[k] = v
        BY <1>1, <1>7, <3>1, <4>1 DEF Activations
      <4> QED
        BY <1>8, <1>12, <4>2
    <3>2. CASE v = w
      BY <1>8, <1>12, <3>2
    <3> QED
      BY <1>6, <3>1, <3>2
  <2> QED
    BY <1>9, <2>1, <2>2 DEF Activations
<1> QED
  BY <1>1, <1>2, <1>3, <1>4, <1>5, <1>10, <1>11, <1>14, <1>15, <1>16 DEF Good

-----------------------------------------------------------------------------
(* The literals that were fixed above a popped level are told again. *)

LEMMA LevelInfoFields ==
    ASSUME NEW p, Typed(p), NEW lits, NEW info, info = LevelInfo(p, lits)
    PROVE  /\ info \in Seq(VarInfo) /\ Len(info) = Len(p.info)
           /\ \A v \in Vars(p) :
                 /\ v \notin lits /\ -v \notin lits => info[v] = p.info[v]
                 /\ v \in lits \/ -v \in lits => info[v].fixedAt = UserLevel(p)
                 /\ info[v].intro = p.info[v].intro /\ info[v].assignment = p.info[v].assignment
                 /\ info[v].atom <=> p.info[v].atom
                 /\ info[v].active <=> p.info[v].active
                 /\ info[v].fixed <=> p.info[v].fixed
<1>1. /\ Len(p.info) \in Nat /\ Vars(p) = 1..Len(p.info) /\ DOMAIN p.info = 1..Len(p.info)
      /\ \A v \in Vars(p) : p.info[v] \in VarInfo
      /\ UserLevel(p) \in Nat
  BY Types DEF Vars
<1>2. ASSUME NEW v \in Vars(p)
      PROVE  /\ info[v] \in VarInfo
             /\ v \notin lits /\ -v \notin lits => info[v] = p.info[v]
             /\ v \in lits \/ -v \in lits => info[v].fixedAt = UserLevel(p)
             /\ info[v].intro = p.info[v].intro /\ info[v].assignment = p.info[v].assignment
             /\ info[v].atom <=> p.info[v].atom
             /\ info[v].active <=> p.info[v].active
             /\ info[v].fixed <=> p.info[v].fixed
  <2> DEFINE r == [p.info[v] EXCEPT !.fixedAt = UserLevel(p)]
  <2>0. p.info[v] \in VarInfo
    BY <1>1
  <2>1. /\ r \in VarInfo /\ r.fixedAt = UserLevel(p)
        /\ r.intro = p.info[v].intro /\ r.assignment = p.info[v].assignment
        /\ r.atom <=> p.info[v].atom
        /\ r.active <=> p.info[v].active
        /\ r.fixed <=> p.info[v].fixed
    BY <1>1, <2>0 DEF VarInfo
  <2>2. info[v] = IF {v, -v} \intersect lits # {} THEN r ELSE p.info[v]
    BY <1>1 DEF LevelInfo
  <2> HIDE DEF r
  <2>3. CASE v \in lits \/ -v \in lits
    <3>1. info[v] = r
      BY <2>2, <2>3
    <3> QED
      BY <2>1, <2>3, <3>1
  <2>4. CASE v \notin lits /\ -v \notin lits
    <3>1. info[v] = p.info[v]
      BY <2>2, <2>4
    <3> QED
      BY <2>0, <2>4, <3>1
  <2> QED
    BY <2>3, <2>4
<1>3. info \in [1..Len(p.info) -> VarInfo]
  <2>1. info = [v \in 1..Len(p.info) |-> info[v]]
    BY <1>1 DEF LevelInfo
  <2> QED
    BY <1>1, <1>2, <2>1
<1>4. info \in Seq(VarInfo) /\ Len(info) = Len(p.info)
  BY <1>1, <1>3
<1> QED
  BY <1>2, <1>4

LEMMA RenotifiedFields ==
    ASSUME NEW p, Typed(p), p.told # <<>>, NEW q, q = RenotifyFixed(p)
    PROVE  Renotified(p, q)
<1> DEFINE lits == ToSet(p.renotify)
           x == Enqueue(p, lits)
           info == LevelInfo(p, lits)
<1>1. Shape(p) /\ p.told \in Seq(SUBSET Int) /\ lits \in SUBSET Int
  <2>1. p.renotify \in Seq(Int)
    BY DEF Typed
  <2>2. \A e : e \in lits <=> \E i \in 1..Len(p.renotify) : p.renotify[i] = e
    BY <2>1, SetOf
  <2>3. \A i \in 1..Len(p.renotify) : p.renotify[i] \in Int
    BY <2>1
  <2> HIDE DEF lits
  <2> QED
    BY <2>2, <2>3 DEF Typed
<1>2. /\ Shape(x) /\ Told(p, x, lits)
      /\ x.info = p.info /\ x.activeVars = p.activeVars
      /\ x.control = p.control /\ x.activation = p.activation
      /\ x.renotify = p.renotify /\ x.assignments = p.assignments
      /\ x.asgControl = p.asgControl /\ x.propagations = p.propagations
      /\ x.newClauses = p.newClauses /\ x.found = p.found
      /\ x.db = p.db /\ x.failed = p.failed
  <2> HIDE DEF lits
  <2> QED
    BY <1>1, EnqueueFields
<1>3. q = [x EXCEPT !.renotify = <<>>, !.info = info]
  <2> HIDE DEF x
  <2>1. q = [x EXCEPT !.renotify = <<>>,
                      !.info = [v \in DOMAIN x.info |->
                                  IF {v, -v} \intersect lits # {}
                                  THEN [x.info[v] EXCEPT !.fixedAt = UserLevel(p)]
                                  ELSE x.info[v]]]
    BY Zenon DEF RenotifyFixed, x
  <2>2. x.info = p.info
    BY <1>2
  <2> QED
    BY <2>1, <2>2, Zenon DEF LevelInfo
<1> HIDE DEF x, info, lits
<1>4. /\ info \in Seq(VarInfo) /\ Len(info) = Len(p.info)
      /\ \A v \in Vars(p) :
            /\ v \notin lits /\ -v \notin lits => info[v] = p.info[v]
            /\ v \in lits \/ -v \in lits => info[v].fixedAt = UserLevel(p)
            /\ info[v].intro = p.info[v].intro /\ info[v].assignment = p.info[v].assignment
            /\ info[v].atom <=> p.info[v].atom
            /\ info[v].active <=> p.info[v].active
            /\ info[v].fixed <=> p.info[v].fixed
  BY LevelInfoFields DEF info
<1>5. /\ Shape(q) /\ q.told = x.told /\ q.info = info /\ q.renotify = <<>>
      /\ q.activeVars = x.activeVars
      /\ q.control = x.control /\ q.activation = x.activation
      /\ q.assignments = x.assignments
      /\ q.asgControl = x.asgControl /\ q.propagations = x.propagations
      /\ q.newClauses = x.newClauses /\ q.found = x.found
      /\ q.db = x.db /\ q.failed = x.failed
  BY ZenonT(60), <1>2, <1>3 DEF Shape, Fields
<1>6. Typed(q)
  <2>1. q.told \in Seq(SUBSET Int)
    BY <1>2, <1>5 DEF Told
  <2>2. q.renotify \in Seq(Int)
    <3>1. <<>> \in Seq(Int)
      OBVIOUS
    <3> QED
      BY <1>5, <3>1
  <2> QED
    BY <1>2, <1>4, <1>5, <2>1, <2>2 DEF Typed
<1>7. Vars(q) = Vars(p)
  <2>1. Len(q.info) = Len(p.info)
    BY <1>4, <1>5
  <2> QED
    BY <1>6, <2>1, Types
<1>8. SameNature(p, q)
  BY <1>4, <1>5, <1>7 DEF SameNature
<1>9. Told(p, q, lits)
  BY <1>2, <1>5, Zenon DEF Told
<1>10. \A v \in Vars(p) :
          /\ q.info[v].assignment = p.info[v].assignment
          /\ q.info[v].fixed <=> p.info[v].fixed
          /\ q.info[v].fixedAt = p.info[v].fixedAt \/ q.info[v].fixedAt = UserLevel(p)
          /\ v \in lits \/ -v \in lits => q.info[v].fixedAt = UserLevel(p)
          /\ v \notin lits /\ -v \notin lits => q.info[v].fixedAt = p.info[v].fixedAt
  BY <1>4, <1>5
<1> QED
  BY <1>2, <1>5, <1>6, <1>8, <1>9, <1>10 DEF Renotified, lits

LEMMA RenotifiedStep ==
    ASSUME NEW p, Typed(p), Bounded(p), Trail(p), InStep(p), p.asgControl = <<>>,
           NEW q, Renotified(p, q)
    PROVE  InStep(q)
<1> DEFINE top == Len(p.told)
           n == Len(p.assignments)
           lits == ToSet(p.renotify)
<1>1. /\ Typed(q) /\ SameNature(p, q) /\ Vars(q) = Vars(p)
      /\ Len(q.told) = top /\ UserLevel(q) = UserLevel(p)
      /\ \A i \in 1..top - 1 : q.told[i] = p.told[i]
      /\ q.told[top] = p.told[top] \union lits
      /\ q.renotify = <<>> /\ q.assignments = p.assignments
      /\ q.asgControl = <<>> /\ q.control = p.control
  BY DEF Renotified, Told, SameNature, UserLevel
<1>2. /\ top \in Nat /\ n \in Nat /\ UserLevel(p) \in Nat /\ top = 1 + UserLevel(p)
      /\ DOMAIN p.told = 1..top /\ DOMAIN p.control = 1..UserLevel(p)
      /\ DOMAIN p.assignments = 1..n
      /\ \A i \in 1..n : p.assignments[i] \in Int
  BY Types DEF Bounded
<1>3. DOMAIN q.told = 1..top
  BY <1>1, Types
<1>4. AtomsTo(q, n) = AtomsTo(p, n)
  <2>1. SameAtoms(p, q)
    BY <1>1 DEF SameAtoms, SameNature
  <2>2. n <= Len(p.assignments) /\ n <= Len(q.assignments)
        /\ \A i \in 1..n : q.assignments[i] = p.assignments[i]
    BY <1>1, <1>2
  <2> QED
    BY <1>1, <1>2, <2>1, <2>2, AtomsSame
<1>5. /\ \A i, j \in 1..top : i <= j => p.told[i] \subseteq p.told[j]
      /\ p.told[top] \union lits = AtomsTo(p, n)
      /\ \A k \in 1..UserLevel(p), i \in 1..n :
            LET v == Abs(p.assignments[i]) IN
            p.info[v].atom /\ p.info[v].fixed /\ p.info[v].fixedAt < k =>
               p.assignments[i] \in p.told[k] \union lits
  BY <1>2 DEF InStep
<1>6. ToSet(q.renotify) = {}
  BY <1>1 DEF ToSet
<1>7. \A i \in 1..n : Abs(p.assignments[i]) \in Vars(p)
  BY <1>2 DEF Trail
<1>8. \A v \in Vars(p) :
         /\ q.info[v].fixed <=> p.info[v].fixed
         /\ q.info[v].atom <=> p.info[v].atom
         /\ v \in lits \/ -v \in lits => q.info[v].fixedAt = UserLevel(p)
         /\ v \notin lits /\ -v \notin lits => q.info[v].fixedAt = p.info[v].fixedAt
  BY DEF Renotified, SameNature
<1> HIDE DEF top, n, lits
<1>9. \A i, j \in 1..top : i <= j => q.told[i] \subseteq q.told[j]
  <2> SUFFICES ASSUME NEW i \in 1..top, NEW j \in 1..top, i <= j
               PROVE  q.told[i] \subseteq q.told[j]
    OBVIOUS
  <2>1. p.told[i] \subseteq p.told[j]
    BY <1>5
  <2>2. (i \in 1..top - 1 \/ i = top) /\ (j \in 1..top - 1 \/ j = top) /\ (i = top => j = top)
    BY <1>2
  <2> QED
    BY <1>1, <2>1, <2>2
<1>10. ASSUME NEW k \in 1..UserLevel(p), NEW i \in 1..n,
              q.info[Abs(p.assignments[i])].atom, q.info[Abs(p.assignments[i])].fixed,
              q.info[Abs(p.assignments[i])].fixedAt < k
       PROVE  p.assignments[i] \in q.told[k]
  <2> DEFINE v == Abs(p.assignments[i])
  <2>1. v \in Vars(p) /\ (p.assignments[i] = v \/ p.assignments[i] = -v)
    BY <1>2, <1>7, AbsFacts
  <2> HIDE DEF v
  <2>2. q.info[v].fixedAt < k
    BY <1>10 DEF v
  <2>3. v \notin lits /\ -v \notin lits
    <3>1. q.info[v].fixedAt # UserLevel(p)
      BY <1>2, <2>2
    <3> QED
      BY <1>8, <2>1, <3>1
  <2>4. p.info[v].fixedAt < k /\ p.info[v].atom /\ p.info[v].fixed
    BY <1>8, <1>10, <2>1, <2>2, <2>3 DEF v
  <2>5. p.assignments[i] \in p.told[k] \union lits
    BY <1>5, <2>4 DEF v
  <2>6. k \in 1..top - 1
    BY <1>2
  <2> QED
    BY <1>1, <2>1, <2>3, <2>5, <2>6
<1>11. /\ DOMAIN q.asgControl = {} /\ DOMAIN q.control = 1..UserLevel(p)
       /\ DOMAIN q.assignments = 1..n /\ Len(q.assignments) = n
  BY <1>1, <1>2 DEF n
<1>12. q.told[top] \union ToSet(q.renotify) = AtomsTo(q, n)
  BY <1>1, <1>4, <1>5, <1>6
<1> QED
  BY <1>1, <1>3, <1>9, <1>10, <1>11, <1>12 DEF InStep

\* renotify_fixed.
LEMMA RenotifiedGood ==
    ASSUME NEW p, Good(p), p.asgControl = <<>>, NEW q, q = RenotifyFixed(p)
    PROVE  Good(q) /\ Renotified(p, q)
<1>1. /\ Typed(p) /\ Bounded(p) /\ Listed(p) /\ Ordered(p) /\ Activations(p)
      /\ Trail(p) /\ Marked(p) /\ InStep(p) /\ ClausesGuarded(p) /\ Pending(p)
      /\ p.failed \subseteq {"unobserved"}
  BY DEF Good
<1>2. /\ p.told # <<>> /\ Len(p.told) \in Nat /\ Len(p.told) >= 1
      /\ UserLevel(p) \in Nat
  BY <1>1, Types DEF Bounded
<1>3. Renotified(p, q)
  BY <1>1, <1>2, RenotifiedFields
<1>4. /\ Typed(q) /\ SameNature(p, q) /\ Vars(q) = Vars(p)
      /\ q.activeVars = p.activeVars /\ q.control = p.control /\ q.activation = p.activation
      /\ q.assignments = p.assignments /\ q.asgControl = p.asgControl
      /\ q.propagations = p.propagations /\ q.newClauses = p.newClauses
      /\ q.db = p.db /\ q.failed = p.failed
      /\ UserLevel(q) = UserLevel(p) /\ Decisions(q) = Decisions(p) /\ Len(q.told) = Len(p.told)
  BY <1>3 DEF Renotified, SameNature, UserLevel, Decisions, Told
<1>5. \A v \in Vars(p) :
         /\ q.info[v].intro = p.info[v].intro /\ q.info[v].assignment = p.info[v].assignment
         /\ q.info[v].active <=> p.info[v].active
         /\ q.info[v].atom <=> p.info[v].atom
         /\ q.info[v].fixed <=> p.info[v].fixed
         /\ q.info[v].fixedAt = p.info[v].fixedAt \/ q.info[v].fixedAt = UserLevel(p)
  BY <1>3 DEF Renotified, SameNature
<1>6. InStep(q)
  BY <1>1, <1>3, RenotifiedStep
<1>7. Listed(q) /\ Ordered(q) /\ Activations(q)
  BY <1>1, <1>4, NatureListed
<1>8. ClausesGuarded(q)
  BY <1>1, <1>4, NatureClauses
<1>9. Bounded(q)
  <2>1. Len(q.info) = Len(p.info)
    <3>1. /\ Vars(p) = 1..Len(p.info) /\ Vars(q) = 1..Len(q.info)
          /\ Len(p.info) \in Nat /\ Len(q.info) \in Nat
      BY <1>1, <1>4, Types
    <3> QED
      BY <1>4, <3>1
  <2>2. \A v \in Vars(q) : q.info[v].intro <= MaxUserLevel /\ q.info[v].fixedAt <= MaxUserLevel
    BY <1>1, <1>4, <1>5 DEF Bounded
  <2> QED
    BY <1>1, <1>4, <2>1, <2>2 DEF Bounded
<1>10. Trail(q)
  BY <1>1, <1>4, <1>5 DEF Trail
<1>11. Marked(q)
  <2>1. BaseLen(q) = BaseLen(p)
    BY <1>4 DEF BaseLen
  <2>2. \A i \in 1..BaseLen(p) : q.info[Abs(p.assignments[i])].fixed
    <3>1. \A i \in 1..BaseLen(p) : i \in DOMAIN p.assignments
      BY <1>1, BaseIn, Types
    <3>2. \A i \in 1..BaseLen(p) : /\ Abs(p.assignments[i]) \in Vars(p)
                                   /\ p.info[Abs(p.assignments[i])].fixed
      BY <1>1, <3>1 DEF Trail, Marked
    <3> QED
      BY <1>5, <3>2
  <2>3. \A v \in Vars(q) : q.info[v].fixed =>
          /\ q.info[v].active => q.info[v].assignment # 0
          /\ q.info[v].atom => q.info[v].intro = 0
    BY <1>1, <1>4, <1>5 DEF Marked
  <2> QED
    BY <1>1, <1>4, <2>1, <2>2, <2>3 DEF Marked
<1>12. p.told[Len(p.told)] \subseteq q.told[Len(q.told)] /\ p.told[1] \subseteq q.told[1]
  <2>1. /\ \A i \in 1..Len(p.told) - 1 : q.told[i] = p.told[i]
        /\ q.told[Len(p.told)] = p.told[Len(p.told)] \union ToSet(p.renotify)
    BY <1>3 DEF Renotified, Told
  <2>2. CASE Len(p.told) = 1
    BY <1>4, <2>1, <2>2
  <2>3. CASE Len(p.told) # 1
    BY <1>2, <1>4, <2>1, <2>3
  <2> QED
    BY <2>2, <2>3
<1>13. Pending(q)
  BY <1>1, <1>4, <1>12, NaturePending
<1> QED
  BY <1>1, <1>3, <1>4, <1>6, <1>7, <1>8, <1>9, <1>10, <1>11, <1>13 DEF Good

-----------------------------------------------------------------------------
(* A user level is popped. *)

LEMMA FrontIs ==
    ASSUME NEW S, NEW q \in Seq(S), q # <<>>, NEW r, r = Front(q)
    PROVE  /\ r \in Seq(S) /\ Len(r) = Len(q) - 1
           /\ \A i \in 1..Len(q) - 1 : r[i] = q[i]
<1>1. r = SubSeq(q, 1, Len(q) - 1)
  BY DEF Front
<1>2. PICK cut \in Nat : cut = Len(q) - 1 /\ cut <= Len(q)
  <2>1. Len(q) \in Nat /\ Len(q) # 0
    OBVIOUS
  <2>2. Len(q) - 1 \in Nat /\ Len(q) - 1 <= Len(q)
    BY <2>1
  <2> QED
    BY <2>2
<1>3. r = SubSeq(q, 1, cut)
  BY <1>1, <1>2
<1>4. r \in Seq(S) /\ Len(r) = cut /\ \A i \in 1..cut : r[i] = q[i]
  BY <1>2, <1>3, Below
<1> QED
  BY <1>2, <1>4

LEMMA JoinedSet ==
    ASSUME NEW q \in Seq(Int), NEW r \in Seq(Int), NEW c, c = q \o r
    PROVE  c \in Seq(Int) /\ ToSet(c) = ToSet(q) \union ToSet(r)
<1>1. /\ c \in Seq(Int) /\ Len(c) = Len(q) + Len(r) /\ Len(q) \in Nat /\ Len(r) \in Nat
      /\ \A i \in 1..Len(q) : c[i] = q[i]
      /\ \A i \in 1..Len(r) : c[Len(q) + i] = r[i]
  OBVIOUS
<1>2. /\ \A e : e \in ToSet(c) <=> \E i \in 1..Len(c) : c[i] = e
      /\ \A e : e \in ToSet(q) <=> \E i \in 1..Len(q) : q[i] = e
      /\ \A e : e \in ToSet(r) <=> \E i \in 1..Len(r) : r[i] = e
  <2>0. c \in Seq(Int)
    BY <1>1
  <2>1. \A e : e \in ToSet(c) <=> \E i \in 1..Len(c) : c[i] = e
    BY <2>0, SetOf, Zenon
  <2>2. \A e : e \in ToSet(q) <=> \E i \in 1..Len(q) : q[i] = e
    BY SetOf, Zenon
  <2>3. \A e : e \in ToSet(r) <=> \E i \in 1..Len(r) : r[i] = e
    BY SetOf, Zenon
  <2> QED
    BY <2>1, <2>2, <2>3
<1>3. ToSet(q) \subseteq ToSet(c)
  <2>1. \A i \in 1..Len(q) : i \in 1..Len(c)
    BY <1>1
  <2> QED
    BY <1>1, <1>2, <2>1
<1>4. ToSet(r) \subseteq ToSet(c)
  <2>1. \A i \in 1..Len(r) : Len(q) + i \in 1..Len(c)
    BY <1>1
  <2> QED
    BY SMTT(30), <1>1, <1>2, <2>1
<1>5. ToSet(c) \subseteq ToSet(q) \union ToSet(r)
  <2>1. \A i \in 1..Len(c) : i \in 1..Len(q) \/ (i - Len(q) \in 1..Len(r) /\ Len(q) + (i - Len(q)) = i)
    BY <1>1
  <2>2. \A i \in 1..Len(c) : (\E k \in 1..Len(q) : q[k] = c[i]) \/ (\E k \in 1..Len(r) : r[k] = c[i])
    BY <1>1, <2>1
  <2> QED
    BY <1>2, <2>2
<1> QED
  BY <1>1, <1>3, <1>4, <1>5

LEMMA KeptNone ==
    ASSUME NEW S, NEW q \in Seq(S), NEW keep, keep = {}, NEW r, r = Kept(q, keep)
    PROVE  r \in Seq(S) /\ Len(r) = 0
<1>1. r \in Seq(S) /\ \E pos : Selected(q, keep, r, pos)
  BY KeptFacts
<1>2. PICK pos : Selected(q, keep, r, pos)
  BY <1>1
<1>3. \A k \in 1..Len(r) : FALSE
  BY <1>2 DEF Selected
<1>4. Len(r) \in Nat
  BY <1>1
<1> QED
  BY <1>1, <1>3, <1>4

LEMMA ActiveFields ==
    ASSUME NEW r \in VarInfo, NEW b \in BOOLEAN, NEW x, x = [r EXCEPT !.active = b]
    PROVE  ActiveIf(r, x, b)
  BY DEF VarInfo, ActiveIf

LEMMA PopInfoFields ==
    ASSUME NEW p, Typed(p), NEW gone, NEW info, info = PopInfo(p, gone)
    PROVE  PoppedInfo(p, gone, info)
<1>1. /\ Len(p.info) \in Nat /\ Vars(p) = 1..Len(p.info) /\ DOMAIN p.info = 1..Len(p.info)
      /\ \A v \in Vars(p) : p.info[v] \in VarInfo
  BY Types DEF Vars
<1>2. ASSUME NEW v \in Vars(p)
      PROVE  /\ info[v] \in VarInfo
             /\ info[v].intro = p.info[v].intro /\ info[v].fixedAt = p.info[v].fixedAt
             /\ info[v].assignment = p.info[v].assignment
             /\ info[v].atom <=> p.info[v].atom
             /\ info[v].fixed <=> p.info[v].fixed
             /\ info[v].active <=> p.info[v].active /\ v \notin gone
  <2>0. p.info[v] \in VarInfo /\ v \in DOMAIN p.info
    BY <1>1, Zenon
  <2>1. PICK b \in BOOLEAN : b = FALSE
    BY Zenon
  <2>2. v \in gone => info[v] = [p.info[v] EXCEPT !.active = b]
    BY <2>0, <2>1, Zenon DEF PopInfo
  <2>3. v \notin gone => info[v] = p.info[v]
    BY <2>0, Zenon DEF PopInfo
  <2>4. v \in gone => ActiveIf(p.info[v], info[v], b)
    BY <2>0, <2>2, ActiveFields, Zenon
  <2>5. v \in gone => /\ info[v] \in VarInfo
                      /\ info[v].intro = p.info[v].intro /\ info[v].fixedAt = p.info[v].fixedAt
                      /\ info[v].assignment = p.info[v].assignment
                      /\ info[v].atom <=> p.info[v].atom
                      /\ info[v].fixed <=> p.info[v].fixed
                      /\ ~info[v].active
    BY <2>1, <2>4, Zenon DEF ActiveIf
  <2> QED
    BY <2>0, <2>3, <2>5, Zenon
<1>3. info \in [1..Len(p.info) -> VarInfo]
  <2>1. info = [v \in 1..Len(p.info) |-> info[v]]
    BY <1>1, Zenon DEF PopInfo
  <2>2. \A v \in 1..Len(p.info) : info[v] \in VarInfo
    BY <1>1, <1>2, Zenon
  <2> QED
    BY <2>1, <2>2, Zenon
<1>4. info \in Seq(VarInfo) /\ Len(info) = Len(p.info)
  <2>1. ASSUME NEW n \in Nat, NEW f \in [1..n -> VarInfo]  PROVE f \in Seq(VarInfo) /\ Len(f) = n
    BY <2>1
  <2> QED
    BY <1>1, <1>3, <2>1, Zenon
<1> QED
  BY <1>2, <1>4, Zenon DEF PoppedInfo

\* The variables above the mark are those of the top level; none of them is kept.
LEMMA PoppedVars ==
    ASSUME NEW p, Typed(p), Listed(p), Ordered(p), UserLevel(p) > 0,
           NEW popped, popped = Popped(p)
    PROVE  /\ popped \in Seq(Nat) /\ ToSet(popped) = Gone(p)
           /\ p.control[UserLevel(p)] \in Nat /\ p.control[UserLevel(p)] <= Len(p.activeVars)
<1> DEFINE u == UserLevel(p)
           cut == p.control[u]
           n == Len(p.activeVars)
<1>1. /\ u \in Nat /\ u \in 1..u /\ DOMAIN p.control = 1..u /\ n \in Nat
      /\ DOMAIN p.activeVars = 1..n /\ p.activeVars \in Seq(Nat) /\ cut \in Nat
  <2>1. /\ u \in Nat /\ DOMAIN p.control = 1..u /\ n \in Nat
        /\ DOMAIN p.activeVars = 1..n /\ \A k \in 1..u : p.control[k] \in Nat
    BY Types
  <2>2. u \in 1..u
    BY <2>1
  <2> QED
    BY <2>1, <2>2 DEF Typed
<1>2. /\ cut <= n
      /\ \A i \in 1..n : i <= cut <=> p.info[p.activeVars[i]].intro < u
  BY <1>1 DEF Ordered
<1>3. /\ \A i \in 1..n : /\ p.activeVars[i] \in Vars(p) /\ p.info[p.activeVars[i]].active
                         /\ p.info[p.activeVars[i]].intro <= u
                         /\ p.info[p.activeVars[i]].intro \in Nat
      /\ \A v \in Vars(p) : p.info[v].active => \E i \in 1..n : p.activeVars[i] = v
  BY <1>1, Types DEF Listed
<1> HIDE DEF u, cut, n
<1>4. popped = SubSeq(p.activeVars, cut + 1, Len(p.activeVars))
  BY DEF Popped, u, cut
<1>5. cut <= Len(p.activeVars)
  BY <1>2 DEF n
<1>6. popped \in Seq(Nat) /\ Suffix(p.activeVars, cut, popped)
  BY <1>1, <1>4, <1>5, Above
<1>7. \A e : e \in ToSet(popped) <=> \E i \in cut + 1..n : p.activeVars[i] = e
  <2>1. /\ p.activeVars \in Seq(Nat) /\ cut \in Nat /\ cut <= Len(p.activeVars)
        /\ popped \in Seq(Nat) /\ Suffix(p.activeVars, cut, popped)
    BY <1>1, <1>5, <1>6
  <2>2. \A e : e \in ToSet(popped) <=> \E i \in cut + 1..Len(p.activeVars) : p.activeVars[i] = e
    BY SMTT(30), <2>1, AboveSet
  <2> QED
    BY <2>2 DEF n
<1>8. \A i \in cut + 1..n : i \in 1..n /\ ~(i <= cut)
  BY <1>1, <1>2
<1>9. \A i \in 1..n : ~(i <= cut) => i \in cut + 1..n
  BY <1>1, <1>2
<1>10. ToSet(popped) \subseteq Gone(p)
  <2>1. ASSUME NEW i \in cut + 1..n
        PROVE  p.activeVars[i] \in Gone(p)
    <3>1. /\ p.activeVars[i] \in Vars(p) /\ p.info[p.activeVars[i]].active
          /\ p.info[p.activeVars[i]].intro <= u /\ p.info[p.activeVars[i]].intro \in Nat
          /\ ~(p.info[p.activeVars[i]].intro < u)
      BY <1>2, <1>3, <1>8
    <3>2. p.info[p.activeVars[i]].intro = u
      BY SMTT(30), <1>1, <3>1
    <3> QED
      BY <3>1, <3>2 DEF Gone, u
  <2> QED
    BY <1>7, <2>1
<1>11. ASSUME NEW v \in Gone(p)  PROVE v \in ToSet(popped)
  <2>1. v \in Vars(p) /\ p.info[v].active /\ p.info[v].intro = u
    BY DEF Gone, u
  <2>2. PICK i \in 1..n : p.activeVars[i] = v
    BY <1>3, <2>1
  <2>3. ~(i <= cut)
    BY <1>1, <1>2, <2>1, <2>2
  <2> QED
    BY <1>7, <1>9, <2>2, <2>3
<1> QED
  BY <1>1, <1>5, <1>6, <1>10, <1>11 DEF cut, u

LEMMA PopIs ==
    ASSUME NEW p, Typed(p), Listed(p), Ordered(p), Trail(p), Marked(p), UserLevel(p) > 0,
           p.asgControl = <<>>
    PROVE  UserPop(p) = Popping(p)
<1> DEFINE level == UserLevel(p) - 1
           popTo == Last(p.control)
           popped == SubSeq(p.activeVars, popTo + 1, Len(p.activeVars))
           keeps == {v \in ToSet(popped) :
                       p.info[v].fixed /\ p.info[v].atom /\ p.info[v].intro <= level}
           gone == ToSet(popped) \ keeps
           stay == Kept(p.assignments, {lit \in ToSet(p.assignments) : Abs(lit) \notin gone})
           x == Check(Check(Check(p,
                   "intro level", \A v \in gone : p.info[v].intro > level),
                   "pop in search", Decisions(p) = 0),
                   "not fixed", \A lit \in ToSet(p.assignments) : p.info[Abs(lit)].fixed)
<1>1. /\ UserLevel(p) \in Nat /\ p.control \in Seq(Nat) /\ p.control # <<>>
      /\ Len(p.control) = UserLevel(p) /\ p.assignments \in Seq(Int) /\ Decisions(p) = 0
      /\ Len(p.assignments) \in Nat
  BY SMTT(30), Types DEF Typed, UserLevel, Decisions
<1>2. popTo = p.control[UserLevel(p)]
  BY <1>1, LastIs
<1>3. popped = Popped(p)
  BY <1>2 DEF Popped
<1>4. ToSet(popped) = Gone(p)
  BY <1>3, PoppedVars
<1> HIDE DEF popped, popTo
<1>5. \A v \in Gone(p) : p.info[v].intro > level /\ ~(p.info[v].intro <= level)
  BY <1>1 DEF Gone
<1>6. keeps = {}
  BY <1>4, <1>5
<1> HIDE DEF keeps
<1>7. gone = Gone(p)
  BY <1>4, <1>6
<1>8. \A lit \in ToSet(p.assignments) : p.info[Abs(lit)].fixed
  <2>1. BaseLen(p) = Len(p.assignments)
    BY DEF BaseLen
  <2>2. \A i \in 1..Len(p.assignments) : p.info[Abs(p.assignments[i])].fixed
    BY <2>1 DEF Marked
  <2>3. \A e : e \in ToSet(p.assignments) <=> \E i \in 1..Len(p.assignments) : p.assignments[i] = e
    BY <1>1, SetOf
  <2> QED
    BY <2>2, <2>3
<1> HIDE DEF gone
<1>9. x = p
  <2>1. \A v \in gone : p.info[v].intro > level
    BY <1>5, <1>7
  <2> QED
    BY <1>1, <1>8, <2>1, Zenon DEF Check
<1>10. stay = Kept(p.assignments, Staying(p))
  BY <1>7, Zenon DEF Staying
<1>11. UserPop(p) = CutBack(x, PopVars(x, popTo, popped, keeps), PopInfo(x, gone),
                            PopClauses(x, gone), stay, Renotify(p, stay, level))
  BY Zenon DEF UserPop, CutBack, PopVars, PopInfo, PopClauses, popTo, popped, keeps, gone
<1> HIDE DEF x, stay, level
<1>12. UserPop(p) = CutBack(p, PopVars(p, popTo, popped, keeps), PopInfo(p, gone),
                            PopClauses(p, gone), stay, Renotify(p, stay, level))
  BY <1>9, <1>11, Zenon
<1>13. level = UserLevel(p) - 1
  BY DEF level
<1> QED
  BY <1>2, <1>3, <1>6, <1>7, <1>10, <1>12, <1>13, Zenon DEF Popping

LEMMA CutBackFields ==
    ASSUME NEW p, Shape(p), NEW vs, NEW info, NEW db, NEW stay, NEW ren,
           NEW q, q = CutBack(p, vs, info, db, stay, ren)
    PROVE  /\ Shape(q)
           /\ q.control = Front(p.control) /\ q.activation = Front(p.activation)
           /\ q.activeVars = vs /\ q.info = info /\ q.db = db
           /\ q.assignments = stay /\ q.renotify = ren
           /\ q.asgControl = p.asgControl /\ q.propagations = p.propagations
           /\ q.newClauses = p.newClauses /\ q.found = p.found /\ q.told = p.told
           /\ q.failed = p.failed
  BY DEF CutBack, Shape, Fields

LEMMA KeptIs ==
    ASSUME NEW S, NEW q \in Seq(S), NEW keep, keep \subseteq ToSet(q),
           NEW r, r = Kept(q, keep)
    PROVE  r \in Seq(S) /\ ToSet(r) = keep /\ \E pos : Selected(q, keep, r, pos)
<1>1. r \in Seq(S) /\ \E pos : Selected(q, keep, r, pos)
  BY KeptFacts
<1>2. PICK pos : Selected(q, keep, r, pos)
  BY <1>1
<1>3. ToSet(r) = keep
  BY <1>1, <1>2, KeptSet, Zenon
<1> QED
  BY <1>1, <1>3

LEMMA RenotifyIs ==
    ASSUME NEW p, Typed(p), NEW stay \in Seq(Int),
           NEW r, r = Renotify(p, stay, UserLevel(p) - 1)
    PROVE  r \in Seq(Int) /\ ToSet(r) = ToSet(p.renotify) \union Again(p, stay)
<1> DEFINE kept == Kept(stay, Again(p, stay))
<1>1. r = p.renotify \o kept
  BY Zenon DEF Renotify, Again
<1>2. Again(p, stay) \subseteq ToSet(stay)
  BY DEF Again
<1>3. kept \in Seq(Int) /\ ToSet(kept) = Again(p, stay)
  BY <1>2, KeptIs, Zenon
<1>4. p.renotify \in Seq(Int)
  BY DEF Typed
<1> HIDE DEF kept
<1>5. r \in Seq(Int) /\ ToSet(r) = ToSet(p.renotify) \union ToSet(kept)
  <2>1. p.renotify \in Seq(Int) /\ kept \in Seq(Int) /\ r = p.renotify \o kept
    BY <1>1, <1>3, <1>4
  <2>2. ASSUME NEW a \in Seq(Int), NEW b \in Seq(Int), NEW c, c = a \o b
        PROVE  c \in Seq(Int) /\ ToSet(c) = ToSet(a) \union ToSet(b)
    BY <2>2, JoinedSet, Zenon
  <2> QED
    BY <2>1, <2>2, Zenon
<1> QED
  BY <1>3, <1>5, Zenon

LEMMA PopVarsAre ==
    ASSUME NEW p, Typed(p), NEW cut \in Nat, cut <= Len(p.activeVars),
           NEW popped \in Seq(Nat), NEW r, r = PopVars(p, cut, popped, {})
    PROVE  /\ r \in Seq(Nat) /\ Len(r) = cut
           /\ \A i \in 1..cut : r[i] = p.activeVars[i]
<1> DEFINE kept == Kept(popped, {})
<1>1. kept \in Seq(Nat) /\ Len(kept) = 0
  BY KeptNone, Zenon
<1>2. r = SubSeq(p.activeVars, 1, cut) \o kept
  BY Zenon DEF PopVars
<1>3. p.activeVars \in Seq(Nat)
  BY DEF Typed
<1> HIDE DEF kept
<1>4. r \in Seq(Nat) /\ Continued(p.activeVars, cut, kept, r)
  BY <1>1, <1>2, <1>3, Continuing
<1> QED
  BY <1>1, <1>4 DEF Continued

LEMMA ClosedFields ==
    ASSUME NEW p, Typed(p), Listed(p), Ordered(p), Trail(p), Marked(p), UserLevel(p) > 0,
           Len(p.activation) = UserLevel(p), p.asgControl = <<>>,
           NEW q, q = UserPop(p)
    PROVE  Closed(p, q)
<1> DEFINE u == UserLevel(p)
           cut == p.control[u]
           stay == Kept(p.assignments, Staying(p))
           ren == Renotify(p, stay, UserLevel(p) - 1)
           vs == PopVars(p, cut, Popped(p), {})
           info == PopInfo(p, Gone(p))
           db == PopClauses(p, Gone(p))
<1>1. q = CutBack(p, vs, info, db, stay, ren)
  BY PopIs, Zenon DEF Popping
<1>2. /\ Popped(p) \in Seq(Nat) /\ cut \in Nat /\ cut <= Len(p.activeVars)
  BY PoppedVars
<1>3. /\ vs \in Seq(Nat) /\ Len(vs) = cut
      /\ \A i \in 1..cut : vs[i] = p.activeVars[i]
  BY <1>2, PopVarsAre, Zenon
<1>4. p.assignments \in Seq(Int) /\ Staying(p) \subseteq ToSet(p.assignments)
  BY DEF Typed, Staying
<1>5. stay \in Seq(Int) /\ ToSet(stay) = Staying(p)
      /\ \E pos : Selected(p.assignments, Staying(p), stay, pos)
  BY ZenonT(60), <1>4, KeptIs
<1>6. ren \in Seq(Int) /\ ToSet(ren) = ToSet(p.renotify) \union Again(p, stay)
  BY <1>5, RenotifyIs, Zenon
<1>7. PoppedInfo(p, Gone(p), info)
  BY PopInfoFields, Zenon
<1>8. /\ db \in SUBSET SUBSET Int
      /\ \A c \in db : c \in p.db \/ \E v \in Gone(p) : c = {v}
  <2>1. Gone(p) \subseteq Int
    BY Types DEF Gone
  <2>2. p.db \in SUBSET SUBSET Int
    BY DEF Typed
  <2> HIDE DEF u
  <2>3. \A c \in db : c \in p.db \/ \E v \in Gone(p) : c = {v}
    BY DEF PopClauses
  <2> QED
    BY <2>1, <2>2, <2>3
<1> HIDE DEF cut, stay, ren, vs, info, db
<1>9. Shape(p) /\ p.control \in Seq(Nat) /\ p.activation \in Seq(Nat)
  BY DEF Typed
<1>10. /\ Shape(q)
       /\ q.control = Front(p.control) /\ q.activation = Front(p.activation)
       /\ q.activeVars = vs /\ q.info = info /\ q.db = db
       /\ q.assignments = stay /\ q.renotify = ren
       /\ q.asgControl = p.asgControl /\ q.propagations = p.propagations
       /\ q.newClauses = p.newClauses /\ q.found = p.found /\ q.told = p.told
       /\ q.failed = p.failed
  <2>1. Shape(p) /\ q = CutBack(p, vs, info, db, stay, ren)
    BY <1>1, <1>9
  <2> QED
    BY <2>1, CutBackFields
<1>11. u \in Nat /\ Len(p.control) = u /\ p.control # <<>> /\ p.activation # <<>>
  BY Types DEF UserLevel
<1>12. /\ q.control \in Seq(Nat) /\ Len(q.control) = u - 1
       /\ \A k \in 1..u - 1 : q.control[k] = p.control[k]
  <2>0. p.control \in Seq(Nat) /\ p.control # <<>> /\ q.control = Front(p.control)
    BY <1>9, <1>10, <1>11
  <2>1. /\ q.control \in Seq(Nat) /\ Len(q.control) = Len(p.control) - 1
        /\ \A k \in 1..Len(p.control) - 1 : q.control[k] = p.control[k]
    <3>1. ASSUME NEW a \in Seq(Nat), a # <<>>, NEW b, b = Front(a)
          PROVE  b \in Seq(Nat) /\ Len(b) = Len(a) - 1 /\ \A k \in 1..Len(a) - 1 : b[k] = a[k]
      BY SMTT(30), <3>1, FrontIs
    <3> QED
      BY <2>0, <3>1, Zenon
  <2> QED
    BY <1>11, <2>1
<1>13. /\ q.activation \in Seq(Nat) /\ Len(q.activation) = Len(p.activation) - 1
       /\ \A k \in 1..Len(p.activation) - 1 : q.activation[k] = p.activation[k]
  <2>1. /\ p.activation \in Seq(Nat) /\ p.activation # <<>>
        /\ q.activation = Front(p.activation)
    BY <1>9, <1>10, <1>11
  <2> QED
    BY SMTT(30), <2>1, FrontIs
<1>14. Typed(q)
  <2>1. /\ p.asgControl \in Seq(Nat) /\ p.propagations \in Seq(Entry)
        /\ p.newClauses \in Seq(SUBSET Int) /\ p.told \in Seq(SUBSET Int)
        /\ p.found \in BOOLEAN
    BY DEF Typed
  <2>2. info \in Seq(VarInfo)
    BY <1>7 DEF PoppedInfo
  <2> QED
    BY <1>3, <1>5, <1>6, <1>8, <1>10, <1>12, <1>13, <2>1, <2>2, Zenon DEF Typed
<1>15. UserLevel(q) = UserLevel(p) - 1
  BY <1>12 DEF UserLevel, u
<1>16. \A lit : lit \in ToSet(q.renotify) <=>
          \/ lit \in ToSet(p.renotify)
          \/ /\ lit \in Staying(p) /\ p.info[Abs(lit)].atom
             /\ p.info[Abs(lit)].fixedAt > UserLevel(p) - 1
  BY <1>5, <1>6, <1>10 DEF Again
<1>17. PoppedInfo(p, Gone(p), q.info)
  BY <1>7, <1>10, Zenon
<1>18. /\ \A k \in 1..UserLevel(p) - 1 : q.control[k] = p.control[k]
       /\ Len(q.activeVars) = p.control[UserLevel(p)]
       /\ \A i \in 1..p.control[UserLevel(p)] : q.activeVars[i] = p.activeVars[i]
  BY <1>3, <1>10, <1>12 DEF cut, u
<1>19. \E pos : Selected(p.assignments, Staying(p), q.assignments, pos)
  BY <1>5, <1>10, Zenon
<1>20. \A c \in q.db : c \in p.db \/ \E v \in Gone(p) : c = {v}
  BY <1>8, <1>10, Zenon
<1> QED
  BY <1>10, <1>13, <1>14, <1>15, <1>16, <1>17, <1>18, <1>19, <1>20, Zenon DEF Closed

LEMMA LoweringFields ==
    ASSUME NEW p, Shape(p), NEW x, x = Lowering(p)
    PROVE  /\ Shape(x) /\ x.told = Front(p.told)
           /\ x.info = p.info /\ x.activeVars = p.activeVars
           /\ x.control = p.control /\ x.activation = p.activation
           /\ x.renotify = p.renotify /\ x.assignments = p.assignments
           /\ x.asgControl = p.asgControl /\ x.propagations = p.propagations
           /\ x.newClauses = p.newClauses /\ x.found = p.found
           /\ x.db = p.db /\ x.failed = p.failed
  BY DEF Lowering, Shape, Fields

LEMMA LoweredParts ==
    ASSUME NEW p, NEW x,
           x.info = p.info, x.activeVars = p.activeVars, x.control = p.control,
           x.assignments = p.assignments, x.asgControl = p.asgControl
    PROVE  /\ Listed(p) => Listed(x)
           /\ Ordered(p) => Ordered(x)
           /\ Trail(p) => Trail(x)
           /\ Marked(p) => Marked(x)
           /\ UserLevel(x) = UserLevel(p) /\ Vars(x) = Vars(p)
           /\ Gone(x) = Gone(p) /\ Staying(x) = Staying(p)
<1>1. Vars(x) = Vars(p) /\ UserLevel(x) = UserLevel(p)
  BY DEF Vars, UserLevel
<1>2. Listed(p) => Listed(x)
  BY <1>1, Zenon DEF Listed
<1>3. Ordered(p) => Ordered(x)
  BY <1>1, Zenon DEF Ordered
<1>4. Trail(p) => Trail(x)
  BY <1>1 DEF Trail
<1>5. Marked(p) => Marked(x)
  <2>1. BaseLen(x) = BaseLen(p)
    BY Zenon DEF BaseLen
  <2> QED
    BY <1>1, <2>1, Zenon DEF Marked
<1>6. Gone(x) = Gone(p)
  BY <1>1, Zenon DEF Gone
<1>7. Staying(x) = Staying(p)
  BY <1>6, Zenon DEF Staying
<1> QED
  BY <1>1, <1>2, <1>3, <1>4, <1>5, <1>6, <1>7, Zenon

LEMMA LoweredFields ==
    ASSUME NEW p, Good(p), p.asgControl = <<>>, NEW x, x = Lowering(p)
    PROVE  Lowered(p, x)
<1>2. /\ Typed(p) /\ Bounded(p) /\ Listed(p) /\ Ordered(p) /\ Trail(p) /\ Marked(p)
      /\ Shape(p) /\ p.told \in Seq(SUBSET Int)
  BY DEF Good, Typed
<1>3. /\ Shape(x) /\ x.told = Front(p.told)
      /\ x.info = p.info /\ x.activeVars = p.activeVars
      /\ x.control = p.control /\ x.activation = p.activation
      /\ x.renotify = p.renotify /\ x.assignments = p.assignments
      /\ x.asgControl = p.asgControl /\ x.propagations = p.propagations
      /\ x.newClauses = p.newClauses /\ x.found = p.found
      /\ x.db = p.db /\ x.failed = p.failed
  BY ZenonT(60), <1>2, LoweringFields
<1>4. /\ Len(p.told) \in Nat /\ p.told # <<>> /\ Len(p.activation) = UserLevel(p)
  BY <1>2, Types DEF Bounded
<1>5. /\ x.told \in Seq(SUBSET Int) /\ Len(x.told) = Len(p.told) - 1
      /\ \A i \in 1..Len(p.told) - 1 : x.told[i] = p.told[i]
  <2>1. ASSUME NEW a \in Seq(SUBSET Int), a # <<>>, NEW b, b = Front(a)
        PROVE  /\ b \in Seq(SUBSET Int) /\ Len(b) = Len(a) - 1
               /\ \A k \in 1..Len(a) - 1 : b[k] = a[k]
    BY <2>1, FrontIs
  <2>2. p.told \in Seq(SUBSET Int) /\ p.told # <<>> /\ x.told = Front(p.told)
    BY <1>2, <1>3, <1>4
  <2> QED
    BY <2>1, <2>2, Zenon
<1>6. Typed(x)
  <2>1. /\ p.info \in Seq(VarInfo)
        /\ p.activeVars \in Seq(Nat) /\ p.control \in Seq(Nat) /\ p.activation \in Seq(Nat)
        /\ p.renotify \in Seq(Int) /\ p.assignments \in Seq(Int) /\ p.asgControl \in Seq(Nat)
        /\ p.propagations \in Seq(Entry)
        /\ p.newClauses \in Seq(SUBSET Int) /\ p.db \in SUBSET SUBSET Int
        /\ p.found \in BOOLEAN
    BY <1>2 DEF Typed
  <2> QED
    BY <1>3, <1>5, <2>1, Zenon DEF Typed
<1>7. /\ Listed(x) /\ Ordered(x) /\ Trail(x) /\ Marked(x)
      /\ UserLevel(x) = UserLevel(p) /\ Vars(x) = Vars(p)
      /\ Gone(x) = Gone(p) /\ Staying(x) = Staying(p)
  BY <1>2, <1>3, LoweredParts, Zenon
<1>8. /\ Len(x.activation) = UserLevel(x) /\ x.asgControl = <<>>
  BY <1>3, <1>4, <1>7
<1> QED
  BY <1>3, <1>5, <1>6, <1>7, <1>8, Zenon DEF Lowered

LEMMA SunkFields ==
    ASSUME NEW p, Good(p), UserLevel(p) > 0, p.asgControl = <<>>,
           NEW q, q = UserPop(Lowering(p))
    PROVE  Sunk(p, q)
<1>1. PICK x : x = Lowering(p)
  OBVIOUS
<1>2. Typed(p)
  BY DEF Good
<1>3. Lowered(p, x)
  BY <1>1, LoweredFields, Zenon
<1>4. /\ Typed(x) /\ Listed(x) /\ Ordered(x) /\ Trail(x) /\ Marked(x)
      /\ UserLevel(x) = UserLevel(p) /\ Vars(x) = Vars(p)
      /\ Gone(x) = Gone(p) /\ Staying(x) = Staying(p)
      /\ Len(x.activation) = UserLevel(x) /\ x.asgControl = <<>>
      /\ x.info = p.info /\ x.activeVars = p.activeVars
      /\ x.control = p.control /\ x.activation = p.activation
      /\ x.renotify = p.renotify /\ x.assignments = p.assignments
      /\ x.propagations = p.propagations /\ x.newClauses = p.newClauses
      /\ x.found = p.found /\ x.db = p.db /\ x.failed = p.failed
  BY <1>3, Zenon DEF Lowered
<1>5. /\ Len(x.told) = Len(p.told) - 1
      /\ \A i \in 1..Len(p.told) - 1 : x.told[i] = p.told[i]
  BY <1>3, Zenon DEF Lowered
<1>6. UserLevel(x) > 0 /\ x.asgControl = p.asgControl
  BY <1>4
<1>7. q = UserPop(x)
  BY <1>1, Zenon
<1>8. Closed(x, q)
  BY <1>4, <1>6, <1>7, ClosedFields, Zenon
<1>9. PoppedInfo(p, Gone(p), q.info)
  <2>1. PoppedInfo(x, Gone(p), q.info)
    BY <1>4, <1>8, Zenon DEF Closed
  <2>2. x.info = p.info /\ Vars(x) = Vars(p)
    BY <1>4
  <2> QED
    BY ZenonT(60), <2>1, <2>2 DEF PoppedInfo
<1>10. Vars(q) = Vars(p)
  <2>1. Typed(q) /\ Len(q.info) = Len(p.info)
    BY <1>8, <1>9 DEF Closed, PoppedInfo
  <2>2. Vars(q) = 1..Len(q.info) /\ Vars(p) = 1..Len(p.info)
    BY <1>2, <2>1, Types
  <2> QED
    BY <2>1, <2>2
<1>11. q.told = x.told
  BY <1>8 DEF Closed
<1> QED
  <2>1. /\ Typed(q)
        /\ UserLevel(q) = UserLevel(p) - 1
        /\ \A k \in 1..UserLevel(p) - 1 : q.control[k] = p.control[k]
        /\ Len(q.activation) = Len(p.activation) - 1
        /\ \A k \in 1..Len(p.activation) - 1 : q.activation[k] = p.activation[k]
    BY <1>4, <1>8 DEF Closed
  <2>2. /\ Len(q.activeVars) = p.control[UserLevel(p)]
        /\ \A i \in 1..p.control[UserLevel(p)] : q.activeVars[i] = p.activeVars[i]
    BY <1>4, <1>8 DEF Closed
  <2>3. \E pos : Selected(p.assignments, Staying(p), q.assignments, pos)
    BY <1>4, <1>8, Zenon DEF Closed
  <2>4. \A lit : lit \in ToSet(q.renotify) <=>
          \/ lit \in ToSet(p.renotify)
          \/ /\ lit \in Staying(p) /\ p.info[Abs(lit)].atom
             /\ p.info[Abs(lit)].fixedAt > UserLevel(p) - 1
    BY <1>4, <1>8 DEF Closed
  <2>5. \A c \in q.db : c \in p.db \/ \E v \in Gone(p) : c = {v}
    BY <1>4, <1>8, Zenon DEF Closed
  <2>6. /\ q.asgControl = p.asgControl /\ q.propagations = p.propagations
        /\ q.newClauses = p.newClauses /\ q.found = p.found /\ q.failed = p.failed
    BY <1>4, <1>6, <1>8 DEF Closed
  <2>7. /\ Len(q.told) = Len(p.told) - 1
        /\ \A i \in 1..Len(p.told) - 1 : q.told[i] = p.told[i]
    BY <1>5, <1>11
  <2> QED
    BY <1>9, <1>10, <2>1, <2>2, <2>3, <2>4, <2>5, <2>6, <2>7, Zenon DEF Sunk

LEMMA SunkInfo ==
    ASSUME NEW p, Typed(p), NEW q, Sunk(p, q)
    PROVE  /\ Vars(q) = Vars(p)
           /\ \A v \in Vars(p) :
                 /\ q.info[v].intro = p.info[v].intro
                 /\ q.info[v].fixedAt = p.info[v].fixedAt
                 /\ q.info[v].assignment = p.info[v].assignment
                 /\ q.info[v].atom <=> p.info[v].atom
                 /\ q.info[v].fixed <=> p.info[v].fixed
                 /\ q.info[v].active <=>
                       p.info[v].active /\ p.info[v].intro # UserLevel(p)
  BY Zenon DEF Sunk, PoppedInfo, Gone

LEMMA SunkListed ==
    ASSUME NEW p, Typed(p), Listed(p), Ordered(p), UserLevel(p) > 0, NEW q, Sunk(p, q)
    PROVE  Listed(q) /\ Ordered(q)
<1> DEFINE u == UserLevel(p)
           cut == p.control[u]
           n == Len(p.activeVars)
<1>1. /\ u \in Nat /\ n \in Nat /\ DOMAIN p.control = 1..u
      /\ DOMAIN p.activeVars = 1..n
      /\ \A k \in 1..u : p.control[k] \in Nat
      /\ \A v \in Vars(p) : p.info[v].intro \in Nat
  BY Types
<1>2. u \in 1..u /\ cut \in Nat
  BY <1>1
<1>3. /\ \A k \in 1..u : p.control[k] <= n
      /\ \A k \in 1..u, i \in 1..n : i <= p.control[k] <=> p.info[p.activeVars[i]].intro < k
      /\ \A k, l \in 1..u : k <= l => p.control[k] <= p.control[l]
  BY <1>1 DEF Ordered
<1>4. /\ \A i \in 1..n : /\ p.activeVars[i] \in Vars(p)
                         /\ p.info[p.activeVars[i]].active
      /\ \A v \in Vars(p) : p.info[v].active =>
            /\ p.info[v].intro <= u
            /\ \E i \in 1..n : p.activeVars[i] = v
  BY <1>1 DEF Listed
<1>5. /\ Typed(q) /\ Vars(q) = Vars(p) /\ UserLevel(q) = u - 1 /\ Len(q.activeVars) = cut
      /\ \A i \in 1..cut : q.activeVars[i] = p.activeVars[i]
      /\ \A k \in 1..u - 1 : q.control[k] = p.control[k]
  BY DEF Sunk
<1>6. DOMAIN q.activeVars = 1..cut /\ DOMAIN q.control = 1..u - 1
  BY <1>5, Types
<1>7. \A v \in Vars(p) :
         /\ q.info[v].intro = p.info[v].intro
         /\ q.info[v].active <=> p.info[v].active /\ p.info[v].intro # u
  BY SunkInfo
<1> HIDE DEF u, cut, n
<1>8. cut <= n /\ \A i \in 1..n : i <= cut <=> p.info[p.activeVars[i]].intro < u
  BY <1>2, <1>3 DEF cut
<1>9. /\ \A i \in 1..cut : i \in 1..n
      /\ \A k \in 1..u - 1 : k \in 1..u /\ k <= u
  BY <1>1, <1>2, <1>8
<1>10. Listed(q)
  <2>1. ASSUME NEW i \in 1..cut
        PROVE  q.activeVars[i] \in Vars(q) /\ q.info[q.activeVars[i]].active
    <3>1. /\ q.activeVars[i] = p.activeVars[i] /\ p.activeVars[i] \in Vars(p)
          /\ p.info[p.activeVars[i]].active
      BY <1>4, <1>5, <1>9
    <3>2. p.info[p.activeVars[i]].intro < u
      BY <1>2, <1>8, <1>9
    <3>3. p.info[p.activeVars[i]].intro # u
      BY <1>1, <3>1, <3>2
    <3> QED
      BY <1>5, <1>7, <3>1, <3>3
  <2>2. ASSUME NEW v \in Vars(q), q.info[v].active
        PROVE  q.info[v].intro <= u - 1 /\ \E i \in 1..cut : q.activeVars[i] = v
    <3>1. v \in Vars(p) /\ p.info[v].active /\ p.info[v].intro # u /\ p.info[v].intro <= u
      BY <1>4, <1>5, <1>7, <2>2
    <3>2. p.info[v].intro < u
      BY <1>1, <3>1
    <3>3. PICK i \in 1..n : p.activeVars[i] = v
      BY <1>4, <3>1
    <3>4. i \in 1..cut
      BY <1>2, <1>8, <3>2, <3>3
    <3>5. q.info[v].intro <= u - 1
      BY <1>1, <1>7, <3>1, <3>2
    <3> QED
      BY <1>5, <3>3, <3>4, <3>5
  <2> QED
    BY <1>5, <1>6, <2>1, <2>2 DEF Listed
<1>11. Ordered(q)
  <2>1. \A k \in 1..u - 1 : q.control[k] <= Len(q.activeVars)
    BY <1>2, <1>3, <1>5, <1>9 DEF cut
  <2>2. ASSUME NEW k \in 1..u - 1, NEW i \in 1..cut
        PROVE  i <= q.control[k] <=> q.info[q.activeVars[i]].intro < k
    <3>1. /\ q.activeVars[i] = p.activeVars[i] /\ p.activeVars[i] \in Vars(p)
          /\ q.control[k] = p.control[k]
      BY <1>4, <1>5, <1>9
    <3>2. i <= p.control[k] <=> p.info[p.activeVars[i]].intro < k
      BY <1>3, <1>9
    <3> QED
      BY <1>7, <3>1, <3>2
  <2>3. \A k, l \in 1..u - 1 : k <= l => q.control[k] <= q.control[l]
    BY <1>3, <1>5, <1>9
  <2> QED
    BY <1>5, <1>6, <2>1, <2>2, <2>3 DEF Ordered
<1> QED
  BY <1>10, <1>11

LEMMA SunkActivations ==
    ASSUME NEW p, Typed(p), Activations(p), UserLevel(p) > 0, Len(p.activation) = UserLevel(p),
           NEW q, Sunk(p, q)
    PROVE  Activations(q)
<1> DEFINE u == UserLevel(p)
<1>1. u \in Nat /\ DOMAIN p.activation = 1..u
  BY Types
<1>2. /\ Typed(q) /\ Vars(q) = Vars(p) /\ Len(q.activation) = u - 1
      /\ \A k \in 1..u - 1 : q.activation[k] = p.activation[k]
  BY DEF Sunk
<1>3. DOMAIN q.activation = 1..u - 1
  BY <1>2, Types
<1>4. \A v \in Vars(p) :
         /\ q.info[v].intro = p.info[v].intro
         /\ q.info[v].atom <=> p.info[v].atom
         /\ q.info[v].active <=> p.info[v].active /\ p.info[v].intro # u
  BY SunkInfo
<1>5. /\ \A k \in 1..u :
            /\ p.activation[k] \in Vars(p)
            /\ p.info[p.activation[k]].active
            /\ ~p.info[p.activation[k]].atom
            /\ p.info[p.activation[k]].intro = k
      /\ \A v \in Vars(p) : p.info[v].active /\ ~p.info[v].atom =>
            \E k \in 1..u : p.activation[k] = v
  BY <1>1 DEF Activations
<1>6. /\ \A k \in 1..u - 1 : k \in 1..u /\ k # u
      /\ \A k \in 1..u : k # u => k \in 1..u - 1
  BY <1>1
<1> HIDE DEF u
<1>7. \A k \in 1..u - 1 :
         /\ q.activation[k] \in Vars(q)
         /\ q.info[q.activation[k]].active
         /\ ~q.info[q.activation[k]].atom
         /\ q.info[q.activation[k]].intro = k
  BY SMTT(30), <1>2, <1>4, <1>5, <1>6
<1>8. \A v \in Vars(q) : q.info[v].active /\ ~q.info[v].atom =>
         \E k \in 1..u - 1 : q.activation[k] = v
  <2> SUFFICES ASSUME NEW v \in Vars(q), q.info[v].active, ~q.info[v].atom
               PROVE  \E k \in 1..u - 1 : q.activation[k] = v
    OBVIOUS
  <2>1. v \in Vars(p) /\ p.info[v].active /\ ~p.info[v].atom /\ p.info[v].intro # u
    BY <1>2, <1>4
  <2>2. PICK k \in 1..u : p.activation[k] = v
    BY <1>5, <2>1
  <2>3. k \in 1..u - 1
    BY <1>5, <1>6, <2>1, <2>2
  <2> QED
    BY <1>2, <2>2, <2>3
<1> QED
  BY <1>3, <1>7, <1>8 DEF Activations

LEMMA SunkTrail ==
    ASSUME NEW p, Typed(p), Trail(p), Marked(p), p.asgControl = <<>>, NEW q, Sunk(p, q)
    PROVE  Trail(q) /\ Marked(q)
<1> DEFINE n == Len(p.assignments)
           m == Len(q.assignments)
<1>1. /\ DOMAIN p.assignments = 1..n /\ p.assignments \in Seq(Int)
      /\ \A v \in Vars(p) : v \in Nat
      /\ \A i \in 1..n : p.assignments[i] \in Int
  BY Types DEF Typed
<1>2. /\ Typed(q) /\ Vars(q) = Vars(p) /\ q.asgControl = <<>>
      /\ \E pos : Selected(p.assignments, Staying(p), q.assignments, pos)
  BY DEF Sunk
<1>3. DOMAIN q.assignments = 1..m
  BY <1>2, Types
<1>4. PICK pos : Selected(p.assignments, Staying(p), q.assignments, pos)
  BY <1>2
<1>5. /\ \A k \in 1..m : /\ pos[k] \in 1..n /\ q.assignments[k] = p.assignments[pos[k]]
                         /\ p.assignments[pos[k]] \in Staying(p)
      /\ \A k, l \in 1..m : pos[k] = pos[l] => k = l
      /\ \A i \in 1..n : p.assignments[i] \in Staying(p) => \E k \in 1..m : pos[k] = i
  BY <1>4 DEF Selected
<1>6. \A v \in Vars(p) :
         /\ q.info[v].intro = p.info[v].intro
         /\ q.info[v].assignment = p.info[v].assignment
         /\ q.info[v].atom <=> p.info[v].atom
         /\ q.info[v].fixed <=> p.info[v].fixed
         /\ q.info[v].active <=> p.info[v].active /\ p.info[v].intro # UserLevel(p)
  BY SunkInfo
<1>7. /\ \A i \in 1..n : /\ Abs(p.assignments[i]) \in Vars(p)
                         /\ p.info[Abs(p.assignments[i])].active
                         /\ p.info[Abs(p.assignments[i])].assignment = p.assignments[i]
      /\ \A i, j \in 1..n : p.assignments[i] = p.assignments[j] => i = j
      /\ \A v \in Vars(p) :
            /\ p.info[v].assignment \in {0, v, -v}
            /\ p.info[v].active /\ p.info[v].assignment # 0 =>
                  \E i \in 1..n : p.assignments[i] = p.info[v].assignment
  BY <1>1 DEF Trail
<1>8. \A i \in 1..n : p.assignments[i] \in Staying(p) <=>
         p.info[Abs(p.assignments[i])].intro # UserLevel(p)
  <2>1. \A i \in 1..n : p.assignments[i] \in ToSet(p.assignments)
    BY <1>1, SetOf
  <2> QED
    BY <1>7, <2>1 DEF Staying, Gone
<1> HIDE DEF n, m
<1>9. Trail(q)
  <2>1. \A k \in 1..m : /\ Abs(q.assignments[k]) \in Vars(q)
                        /\ q.info[Abs(q.assignments[k])].active
                        /\ q.info[Abs(q.assignments[k])].assignment = q.assignments[k]
    BY <1>2, <1>5, <1>6, <1>7, <1>8
  <2>2. \A k, l \in 1..m : q.assignments[k] = q.assignments[l] => k = l
    BY <1>5, <1>7
  <2>3. ASSUME NEW v \in Vars(q), q.info[v].active, q.info[v].assignment # 0
        PROVE  \E k \in 1..m : q.assignments[k] = q.info[v].assignment
    <3>1. /\ v \in Vars(p) /\ p.info[v].active /\ p.info[v].intro # UserLevel(p)
          /\ p.info[v].assignment # 0 /\ q.info[v].assignment = p.info[v].assignment
      BY <1>2, <1>6, <2>3
    <3>2. PICK i \in 1..n : p.assignments[i] = p.info[v].assignment
      BY <1>7, <3>1
    <3>3. Abs(p.assignments[i]) = v
      <4>1. p.assignments[i] \in {0, v, -v} /\ v \in Nat
        BY <1>1, <1>7, <3>1, <3>2
      <4> QED
        BY <3>1, <3>2, <4>1, AbsFacts
    <3>4. PICK k \in 1..m : pos[k] = i
      BY <1>5, <1>8, <3>1, <3>3
    <3> QED
      BY <1>5, <3>1, <3>2, <3>4
  <2>4. \A v \in Vars(q) : q.info[v].assignment \in {0, v, -v}
    BY <1>2, <1>6, <1>7
  <2> QED
    BY <1>3, <2>1, <2>2, <2>3, <2>4 DEF Trail
<1>10. Marked(q)
  <2>1. BaseLen(q) = m /\ DOMAIN q.asgControl = {}
    BY <1>2 DEF BaseLen, m
  <2>2. \A i \in 1..n : p.info[Abs(p.assignments[i])].fixed
    <3>1. BaseLen(p) = n
      BY DEF BaseLen, n
    <3> QED
      BY <3>1 DEF Marked
  <2>3. \A k \in 1..m : q.info[Abs(q.assignments[k])].fixed
    BY <1>5, <1>6, <1>7, <2>2
  <2>4. \A v \in Vars(q) : q.info[v].fixed =>
          /\ q.info[v].active => q.info[v].assignment # 0
          /\ q.info[v].atom => q.info[v].intro = 0
    BY <1>2, <1>6 DEF Marked
  <2> QED
    BY <2>1, <2>3, <2>4 DEF Marked
<1> QED
  BY <1>9, <1>10

LEMMA SunkStep ==
    ASSUME NEW p, Typed(p), Bounded(p), Trail(p), Marked(p), InStep(p),
           UserLevel(p) > 0, p.asgControl = <<>>, NEW q, Sunk(p, q)
    PROVE  InStep(q)
<1> DEFINE n == Len(p.assignments)
           m == Len(q.assignments)
           u == UserLevel(p)
<1>1. /\ u \in Nat /\ Len(p.told) = u + 1 /\ DOMAIN p.told = 1..u + 1
      /\ DOMAIN p.control = 1..u /\ n \in Nat
      /\ DOMAIN p.assignments = 1..n /\ p.assignments \in Seq(Int)
      /\ \A v \in Vars(p) : p.info[v].fixedAt \in Nat /\ p.info[v].intro \in Nat
  <2>1. /\ Decisions(p) = 0 /\ u \in Nat /\ Len(p.told) \in Nat
        /\ Len(p.told) = 1 + UserLevel(p) + Decisions(p)
    BY Types DEF Bounded
  <2>2. Len(p.told) = u + 1
    BY <2>1
  <2>3. p.assignments \in Seq(Int)
    BY DEF Typed
  <2>4. /\ DOMAIN p.told = 1..Len(p.told)
        /\ DOMAIN p.control = 1..u /\ n \in Nat
        /\ DOMAIN p.assignments = 1..n
        /\ \A v \in Vars(p) : p.info[v].fixedAt \in Nat /\ p.info[v].intro \in Nat
    BY Types
  <2> QED
    BY <2>1, <2>2, <2>3, <2>4
<1>2. /\ Typed(q) /\ Vars(q) = Vars(p) /\ q.asgControl = <<>> /\ UserLevel(q) = u - 1
      /\ Len(q.told) = Len(p.told) - 1
      /\ \A i \in 1..Len(p.told) - 1 : q.told[i] = p.told[i]
      /\ \E pos : Selected(p.assignments, Staying(p), q.assignments, pos)
      /\ \A lit : lit \in ToSet(q.renotify) <=>
            \/ lit \in ToSet(p.renotify)
            \/ /\ lit \in Staying(p) /\ p.info[Abs(lit)].atom
               /\ p.info[Abs(lit)].fixedAt > u - 1
  BY DEF Sunk
<1>3. /\ Len(q.told) = u /\ DOMAIN q.told = 1..u /\ \A i \in 1..u : q.told[i] = p.told[i]
      /\ DOMAIN q.control = 1..u - 1 /\ DOMAIN q.assignments = 1..m
      /\ m \in Nat /\ q.assignments \in Seq(Int)
  <2>1. Len(q.told) = u
    BY <1>1, <1>2
  <2>2. \A i \in 1..u : i \in 1..Len(p.told) - 1
    BY <1>1
  <2> QED
    BY ZenonT(60), <1>2, <2>1, <2>2, Types DEF Typed
<1>4. /\ \A i, j \in 1..u + 1 : i <= j => p.told[i] \subseteq p.told[j]
      /\ p.told[u + 1] \union ToSet(p.renotify) = AtomsTo(p, n)
      /\ \A k \in 1..u, i \in 1..n :
            p.info[Abs(p.assignments[i])].atom /\ p.info[Abs(p.assignments[i])].fixed
            /\ p.info[Abs(p.assignments[i])].fixedAt < k =>
               p.assignments[i] \in p.told[k] \union ToSet(p.renotify)
  BY <1>1 DEF InStep
<1>5. PICK pos : Selected(p.assignments, Staying(p), q.assignments, pos)
  BY <1>2
<1>6. /\ \A k \in 1..m : /\ pos[k] \in 1..n /\ q.assignments[k] = p.assignments[pos[k]]
                         /\ p.assignments[pos[k]] \in Staying(p)
      /\ \A i \in 1..n : p.assignments[i] \in Staying(p) => \E k \in 1..m : pos[k] = i
  BY <1>5 DEF Selected
<1>7. \A v \in Vars(p) :
         /\ q.info[v].fixedAt = p.info[v].fixedAt
         /\ q.info[v].atom <=> p.info[v].atom
         /\ q.info[v].fixed <=> p.info[v].fixed
  BY SunkInfo
<1>8. \A i \in 1..n : Abs(p.assignments[i]) \in Vars(p)
  BY <1>1 DEF Trail
<1>9. \A i \in 1..n : p.info[Abs(p.assignments[i])].fixed
  <2>1. BaseLen(p) = n
    BY DEF BaseLen, n
  <2> QED
    BY <2>1 DEF Marked
<1>10. \A i \in 1..n : p.info[Abs(p.assignments[i])].atom => p.assignments[i] \in Staying(p)
  <2> SUFFICES ASSUME NEW i \in 1..n, p.info[Abs(p.assignments[i])].atom
               PROVE  p.assignments[i] \in Staying(p)
    OBVIOUS
  <2>1. p.assignments[i] \in ToSet(p.assignments)
    BY <1>1, SetOf
  <2>2. p.info[Abs(p.assignments[i])].intro = 0
    BY <1>8, <1>9 DEF Marked
  <2>3. Abs(p.assignments[i]) \notin Gone(p)
    BY <2>2 DEF Gone
  <2> QED
    BY <2>1, <2>3 DEF Staying
<1>11. /\ \A lit : lit \in AtomsTo(p, n) <=>
             \E i \in 1..n : p.assignments[i] = lit /\ p.info[Abs(lit)].atom
       /\ \A lit : lit \in AtomsTo(q, m) <=>
             \E k \in 1..m : q.assignments[k] = lit /\ q.info[Abs(lit)].atom
  BY DEF AtomsTo
<1>12. \A lit : lit \in AtomsTo(q, m) <=> lit \in AtomsTo(p, n)
  <2>1. ASSUME NEW lit, lit \in AtomsTo(q, m)  PROVE lit \in AtomsTo(p, n)
    <3>1. PICK k \in 1..m : q.assignments[k] = lit /\ q.info[Abs(lit)].atom
      BY <1>11, <2>1
    <3> QED
      BY <1>6, <1>7, <1>8, <1>11, <3>1
  <2>2. ASSUME NEW lit, lit \in AtomsTo(p, n)  PROVE lit \in AtomsTo(q, m)
    <3>1. PICK i \in 1..n : p.assignments[i] = lit /\ p.info[Abs(lit)].atom
      BY <1>11, <2>2
    <3>2. PICK k \in 1..m : pos[k] = i
      BY <1>6, <1>10, <3>1
    <3> QED
      BY <1>6, <1>7, <1>8, <1>11, <3>1, <3>2
  <2> QED
    BY <2>1, <2>2
<1> HIDE DEF n, m, u
<1>13. \A i, j \in 1..u : i <= j => q.told[i] \subseteq q.told[j]
  <2>1. \A i \in 1..u : i \in 1..u + 1
    BY <1>1
  <2> QED
    BY <1>3, <1>4, <2>1
<1>14. q.told[u] \union ToSet(q.renotify) = AtomsTo(q, m)
  <2>1. u \in 1..u /\ u \in 1..u + 1 /\ u + 1 \in 1..u + 1 /\ u <= u + 1
    BY <1>1 DEF u
  <2>2. q.told[u] = p.told[u] /\ p.told[u] \subseteq p.told[u + 1]
    BY <1>3, <1>4, <2>1
  <2>3. q.told[u] \union ToSet(q.renotify) \subseteq AtomsTo(q, m)
    <3>1. \A lit \in ToSet(q.renotify) : lit \in AtomsTo(p, n)
      <4> SUFFICES ASSUME NEW lit \in ToSet(q.renotify)  PROVE lit \in AtomsTo(p, n)
        OBVIOUS
      <4>1. CASE lit \in ToSet(p.renotify)
        BY <1>4, <4>1
      <4>2. CASE lit \in Staying(p) /\ p.info[Abs(lit)].atom
        <5>1. PICK i \in 1..n : p.assignments[i] = lit
          BY <1>1, <4>2, SetOf DEF Staying, n
        <5> QED
          BY <1>11, <4>2, <5>1
      <4> QED
        BY <1>2, <4>1, <4>2
    <3> QED
      BY <1>4, <1>12, <2>2, <3>1
  <2>4. ASSUME NEW lit \in AtomsTo(q, m)
        PROVE  lit \in q.told[u] \union ToSet(q.renotify)
    <3>1. PICK i \in 1..n : p.assignments[i] = lit /\ p.info[Abs(lit)].atom
      BY <1>11, <1>12
    <3>2. p.info[Abs(lit)].fixed /\ lit \in Staying(p) /\ Abs(lit) \in Vars(p)
      BY <1>8, <1>9, <1>10, <3>1
    <3>3. CASE p.info[Abs(lit)].fixedAt > u - 1
      BY <1>2, <3>1, <3>2, <3>3
    <3>4. CASE ~(p.info[Abs(lit)].fixedAt > u - 1)
      <4>1. p.info[Abs(lit)].fixedAt < u
        BY <1>1, <3>2, <3>4
      <4>2. lit \in p.told[u] \union ToSet(p.renotify)
        BY <1>4, <2>1, <3>1, <3>2, <4>1
      <4> QED
        BY <1>2, <2>2, <4>2
    <3> QED
      BY <3>3, <3>4
  <2> QED
    BY <2>3, <2>4
<1>15. ASSUME NEW k \in 1..u - 1, NEW j \in 1..m,
              q.info[Abs(q.assignments[j])].atom, q.info[Abs(q.assignments[j])].fixed,
              q.info[Abs(q.assignments[j])].fixedAt < k
       PROVE  q.assignments[j] \in q.told[k] \union ToSet(q.renotify)
  <2>1. pos[j] \in 1..n /\ q.assignments[j] = p.assignments[pos[j]]
    BY <1>6
  <2>2. /\ p.info[Abs(p.assignments[pos[j]])].atom
        /\ p.info[Abs(p.assignments[pos[j]])].fixed
        /\ p.info[Abs(p.assignments[pos[j]])].fixedAt < k
    BY <1>7, <1>8, <1>15, <2>1
  <2>3. k \in 1..u
    BY <1>1
  <2>4. p.assignments[pos[j]] \in p.told[k] \union ToSet(p.renotify)
    BY <1>4, <2>1, <2>2, <2>3
  <2> QED
    BY <1>2, <1>3, <2>1, <2>3, <2>4
<1>16. q.told[Len(q.told)] \union ToSet(q.renotify) = AtomsTo(q, Len(q.assignments))
  BY <1>3, <1>14 DEF m
<1>17. DOMAIN q.asgControl = {}
  BY <1>2
<1> QED
  BY <1>2, <1>3, <1>13, <1>15, <1>16, <1>17 DEF InStep

LEMMA SunkClauses ==
    ASSUME NEW p, Typed(p), ClausesGuarded(p), NEW q, Sunk(p, q)
    PROVE  ClausesGuarded(q)
<1>1. /\ Vars(q) = Vars(p) /\ q.newClauses = p.newClauses
      /\ \A c \in q.db : c \in p.db \/ \E v \in Gone(p) : c = {v}
  BY DEF Sunk
<1>0. /\ \A c \in p.db : c \in SUBSET Int
      /\ \A i \in DOMAIN p.newClauses : p.newClauses[i] \in SUBSET Int
  BY DEF Typed
<1>2. \A v \in Vars(p) :
         /\ q.info[v].intro = p.info[v].intro
         /\ q.info[v].atom <=> p.info[v].atom
         /\ q.info[v].active <=> p.info[v].active /\ p.info[v].intro # UserLevel(p)
  BY SunkInfo
<1>3. ASSUME NEW c \in SUBSET Int, Guarded(p, c)  PROVE Guarded(q, c)
  <2> SUFFICES ASSUME NEW lit \in c
               PROVE  /\ Abs(lit) \in Vars(q)
                      /\ lit < 0 => q.info[Abs(lit)].atom
                      /\ q.info[Abs(lit)].atom /\ q.info[Abs(lit)].intro > 0 =>
                            \E a \in c : a > 0 /\ ~q.info[a].atom
    BY DEF Guarded
  <2>1. /\ Abs(lit) \in Vars(p)
        /\ lit < 0 => p.info[Abs(lit)].atom
        /\ p.info[Abs(lit)].atom /\ p.info[Abs(lit)].intro > 0 =>
              \E a \in c : a > 0 /\ ~p.info[a].atom
    BY <1>3 DEF Guarded
  <2>2. /\ Abs(lit) \in Vars(q)
        /\ lit < 0 => q.info[Abs(lit)].atom
    BY <1>1, <1>2, <2>1
  <2>3. ASSUME q.info[Abs(lit)].atom, q.info[Abs(lit)].intro > 0
        PROVE  \E a \in c : a > 0 /\ ~q.info[a].atom
    <3>1. PICK a \in c : a > 0 /\ ~p.info[a].atom
      BY <1>2, <2>1, <2>3
    <3>2. a \in Vars(p)
      <4>1. Abs(a) \in Vars(p)
        BY <1>3 DEF Guarded
      <4>2. Abs(a) = a
        BY <3>1, AbsFacts DEF Abs
      <4> QED
        BY <4>1, <4>2
    <3> QED
      BY <1>2, <3>1, <3>2
  <2> QED
    BY <2>2, <2>3
<1>4. ASSUME NEW c \in q.db
      PROVE  Guarded(q, c) \/ \E v \in Vars(q) : ~q.info[v].active /\ c = {v}
  <2>1. CASE c \in p.db
    <3>1. Guarded(p, c) \/ \E v \in Vars(p) : ~p.info[v].active /\ c = {v}
      BY <2>1 DEF ClausesGuarded
    <3> QED
      BY <1>0, <1>1, <1>2, <1>3, <2>1, <3>1
  <2>2. CASE \E v \in Gone(p) : c = {v}
    <3>1. PICK v \in Gone(p) : c = {v}
      BY <2>2
    <3>2. v \in Vars(q) /\ ~q.info[v].active
      BY <1>1, <1>2 DEF Gone
    <3> QED
      BY <3>1, <3>2
  <2> QED
    BY <1>1, <2>1, <2>2
<1>5. \A i \in DOMAIN p.newClauses : Tautology(p.newClauses[i]) \/ Guarded(p, p.newClauses[i])
  BY DEF ClausesGuarded
<1> QED
  BY <1>0, <1>1, <1>3, <1>4, <1>5 DEF ClausesGuarded

LEMMA SunkPending ==
    ASSUME NEW p, Typed(p), Bounded(p), InStep(p), Pending(p), UserLevel(p) > 0,
           p.asgControl = <<>>, NEW q, Sunk(p, q)
    PROVE  Pending(q)
<1> DEFINE u == UserLevel(p)
<1>1. /\ u \in Nat /\ Len(p.told) = u + 1 /\ DOMAIN p.told = 1..u + 1
  <2>1. Decisions(p) = 0
    BY Types
  <2> QED
    BY <2>1, Types DEF Bounded
<1>2. /\ Vars(q) = Vars(p) /\ q.asgControl = <<>> /\ q.propagations = p.propagations
      /\ Len(q.told) = Len(p.told) - 1
      /\ \A i \in 1..Len(p.told) - 1 : q.told[i] = p.told[i]
  BY DEF Sunk
<1>3. \A v \in Vars(p) :
         /\ q.info[v].intro = p.info[v].intro
         /\ q.info[v].atom <=> p.info[v].atom
         /\ q.info[v].active <=> p.info[v].active /\ p.info[v].intro # u
  BY SunkInfo
<1>4. q.told[Len(q.told)] = p.told[u] /\ q.told[1] = p.told[1] /\ p.told[1] \subseteq p.told[u]
  <2>1. Len(q.told) = u /\ 1 \in 1..Len(p.told) - 1 /\ u \in 1..Len(p.told) - 1
        /\ 1 \in 1..u + 1 /\ u \in 1..u + 1 /\ 1 <= u
    BY <1>1, <1>2
  <2>2. p.told[1] \subseteq p.told[u]
    BY <1>1, <2>1 DEF InStep
  <2> QED
    BY <1>2, <2>1, <2>2
<1>5. u # 0
  BY <1>1
<1> HIDE DEF u
<1>6. ASSUME NEW i \in DOMAIN p.propagations, NEW e, e = p.propagations[i]
      PROVE  /\ Abs(e.lit) \in Vars(q) /\ q.info[Abs(e.lit)].active
             /\ q.info[Abs(e.lit)].atom
             /\ e.why \in q.told[Len(q.told)] /\ e.why \in q.told[1]
             /\ q.info[Abs(e.lit)].intro = 0
  <2>1. /\ Abs(e.lit) \in Vars(p) /\ p.info[Abs(e.lit)].active
        /\ p.info[Abs(e.lit)].atom
        /\ e.why \in p.told[1] /\ p.info[Abs(e.lit)].intro = 0
    BY <1>6 DEF Pending
  <2> QED
    BY <1>2, <1>3, <1>4, <1>5, <2>1
<1>7. Len(p.propagations) <= 1
  BY DEF Pending
<1> QED
  BY <1>2, <1>6, <1>7 DEF Pending

\* user_pop and the pop of the context.
LEMMA SunkGood ==
    ASSUME NEW p, Good(p), UserLevel(p) > 0, p.asgControl = <<>>,
           NEW q, q = UserPop(Lowering(p))
    PROVE  Good(q) /\ Sunk(p, q)
<1>1. /\ Typed(p) /\ Bounded(p) /\ Listed(p) /\ Ordered(p) /\ Activations(p)
      /\ Trail(p) /\ Marked(p) /\ InStep(p) /\ ClausesGuarded(p) /\ Pending(p)
      /\ p.failed \subseteq {"unobserved"}
  BY DEF Good
<1>2. Sunk(p, q)
  BY SunkFields
<1>3. /\ Typed(q) /\ Vars(q) = Vars(p) /\ q.asgControl = p.asgControl
      /\ UserLevel(q) = UserLevel(p) - 1
      /\ Len(q.told) = Len(p.told) - 1 /\ Len(q.activation) = Len(p.activation) - 1
      /\ q.failed = p.failed
  BY <1>2 DEF Sunk
<1>4. Len(p.activation) = UserLevel(p)
  BY <1>1 DEF Bounded
<1>5. Bounded(q)
  <2>1. Len(q.info) = Len(p.info)
    <3>1. /\ Vars(p) = 1..Len(p.info) /\ Vars(q) = 1..Len(q.info)
          /\ Len(p.info) \in Nat /\ Len(q.info) \in Nat
      BY <1>1, <1>3, Types
    <3> QED
      BY <1>3, <3>1
  <2>2. \A v \in Vars(q) : q.info[v].intro <= MaxUserLevel /\ q.info[v].fixedAt <= MaxUserLevel
    <3>1. \A v \in Vars(p) : q.info[v].intro = p.info[v].intro
                              /\ q.info[v].fixedAt = p.info[v].fixedAt
      BY <1>1, <1>2, SunkInfo
    <3> QED
      BY <1>1, <1>3, <3>1 DEF Bounded
  <2>3. /\ UserLevel(p) \in Nat /\ Decisions(p) = 0 /\ Decisions(q) = 0
        /\ UserLevel(p) <= MaxUserLevel /\ Len(p.told) = 1 + UserLevel(p) + Decisions(p)
    BY <1>1, <1>3, Types DEF Bounded, Decisions
  <2>4. Len(q.told) = 1 + UserLevel(q) + Decisions(q) /\ Len(q.activation) = UserLevel(q)
    BY <1>3, <1>4, <2>3
  <2>5. UserLevel(q) <= MaxUserLevel
    <3>1. MaxUserLevel \in Nat
      BY BoundsAssumption
    <3> QED
      BY <1>3, <2>3, <3>1
  <2>6. Len(q.info) <= MaxVar
    BY <1>1, <2>1 DEF Bounded
  <2> QED
    BY <2>2, <2>4, <2>5, <2>6 DEF Bounded
<1>6. Listed(q) /\ Ordered(q)
  BY <1>1, <1>2, SunkListed
<1>7. Activations(q)
  BY <1>1, <1>2, <1>4, SunkActivations
<1>8. Trail(q) /\ Marked(q)
  BY <1>1, <1>2, SunkTrail
<1>9. InStep(q)
  BY <1>1, <1>2, SunkStep
<1>10. ClausesGuarded(q)
  BY <1>1, <1>2, SunkClauses
<1>11. Pending(q)
  BY <1>1, <1>2, SunkPending
<1> QED
  BY <1>1, <1>2, <1>3, <1>5, <1>6, <1>7, <1>8, <1>9, <1>10, <1>11 DEF Good

-----------------------------------------------------------------------------
(* The search goes on. *)

LEMMA SearchKept ==
    ASSUME NEW p, Good(p), NEW q, NEW searching, NEW late, NEW skipped, NEW model,
           NEW passed, Search(p, searching, late, skipped, model), passed \subseteq skipped,
           q.renotify = p.renotify, q.asgControl = p.asgControl,
           UserLevel(q) = UserLevel(p), q.found <=> p.found,
           p.found => q.newClauses = <<>>,
           \A i \in 1..Len(p.told) : p.told[i] \subseteq q.told[i]
    PROVE  Search(q, searching, late, passed, model)
<1>1. /\ Decisions(p) \in Nat /\ UserLevel(p) \in Nat
      /\ Len(p.told) = 1 + UserLevel(p) + Decisions(p)
      /\ p.asgControl = <<>> <=> Decisions(p) = 0
  BY Types DEF Good, Bounded
<1>2. Decisions(q) = Decisions(p)
  BY DEF Decisions
<1>3. /\ searching \in BOOLEAN /\ late \in BOOLEAN
      /\ searching => p.renotify = <<>>
      /\ ~searching => p.asgControl = <<>> /\ skipped = {}
      /\ late => p.asgControl = <<>>
      /\ p.found => /\ p.asgControl # <<>> /\ p.newClauses = <<>>
                    /\ model \subseteq p.told[UserLevel(p) + Decisions(p)]
      /\ PassedOver(p, skipped)
  BY Zenon DEF Search
<1>4. p.found => model \subseteq q.told[UserLevel(q) + Decisions(q)]
  <2> SUFFICES ASSUME p.found
               PROVE  model \subseteq q.told[UserLevel(q) + Decisions(q)]
    OBVIOUS
  <2>1. UserLevel(p) + Decisions(p) \in 1..Len(p.told)
    BY <1>1, <1>3
  <2>2. p.told[UserLevel(p) + Decisions(p)] \subseteq q.told[UserLevel(p) + Decisions(p)]
    BY <2>1
  <2> QED
    BY <1>2, <1>3, <2>2
<1>5. PassedOver(q, passed)
  <2> SUFFICES ASSUME NEW i \in passed
               PROVE  /\ i.level \in 1..Decisions(q)
                      /\ i.model \subseteq q.told[UserLevel(q) + i.level]
    BY DEF PassedOver
  <2>1. i.level \in 1..Decisions(p) /\ i.model \subseteq p.told[UserLevel(p) + i.level]
    BY <1>3 DEF PassedOver
  <2>2. UserLevel(p) + i.level \in 1..Len(p.told)
    BY <1>1, <2>1
  <2>3. p.told[UserLevel(p) + i.level] \subseteq q.told[UserLevel(p) + i.level]
    BY <2>2
  <2> QED
    BY <1>2, <2>1, <2>3
<1>6. ~searching => passed = {}
  BY <1>3
<1> QED
  BY <1>3, <1>4, <1>5, <1>6, Zenon DEF Search

LEMMA SearchExtended ==
    ASSUME NEW p, Good(p), NEW q, Extended(p, q), p.found => q.newClauses = <<>>,
           NEW searching, NEW late, NEW skipped, NEW model,
           Search(p, searching, late, skipped, model)
    PROVE  Search(q, searching, late, skipped, model)
<1>1. /\ q.renotify = p.renotify /\ q.asgControl = p.asgControl
      /\ UserLevel(q) = UserLevel(p) /\ q.found = p.found /\ q.told = p.told
  BY DEF Extended, UserLevel
<1>2. \A i \in 1..Len(p.told) : p.told[i] \subseteq q.told[i]
  BY <1>1
<1>3. q.found <=> p.found
  BY <1>1
<1> QED
  BY <1>1, <1>2, <1>3, SearchKept, Zenon

\* Outside the search, and when it begins.
LEMMA SearchIdle ==
    ASSUME NEW p, NEW searching \in BOOLEAN, NEW late \in BOOLEAN, NEW skipped, NEW model,
           searching => p.renotify = <<>>, p.asgControl = <<>>, skipped = {}, ~p.found
    PROVE  Search(p, searching, late, skipped, model)
  BY Zenon DEF Search, PassedOver

LEMMA Idle ==
    ASSUME NEW p, NEW searching, NEW late, NEW skipped, NEW model, ~searching,
           Search(p, searching, late, skipped, model)
    PROVE  p.asgControl = <<>> /\ ~p.found /\ skipped = {} /\ late \in BOOLEAN
  BY Zenon DEF Search

\* A decision: what is known before it is what a partial model found there rests on.
LEMMA SearchDecision ==
    ASSUME NEW p, Good(p), NEW q, Levelled(p, q), NEW searching \in BOOLEAN, searching,
           NEW late \in BOOLEAN, ~late, NEW skipped, PassedOver(p, skipped),
           p.renotify = <<>>, NEW model,
           p.found => p.newClauses = <<>> /\ model \subseteq p.told[Len(p.told)]
    PROVE  Search(q, searching, late, skipped, model)
<1>1. /\ Decisions(p) \in Nat /\ UserLevel(p) \in Nat
      /\ Len(p.told) = 1 + UserLevel(p) + Decisions(p)
  BY Types DEF Good, Bounded
<1>2. /\ Typed(q) /\ Decisions(q) = Decisions(p) + 1 /\ q.renotify = <<>>
      /\ q.found = p.found /\ q.newClauses = p.newClauses /\ UserLevel(q) = UserLevel(p)
      /\ \A i \in 1..Len(p.told) : q.told[i] = p.told[i]
  BY DEF Levelled, UserLevel
<1>3. q.asgControl # <<>>
  BY <1>1, <1>2, Types
<1>4. UserLevel(q) + Decisions(q) = Len(p.told) /\ Len(p.told) \in 1..Len(p.told)
  BY SMTT(30), <1>1, <1>2
<1>5. p.found => model \subseteq q.told[UserLevel(q) + Decisions(q)]
  BY <1>2, <1>4
<1>6. PassedOver(q, skipped)
  <2> SUFFICES ASSUME NEW i \in skipped
               PROVE  /\ i.level \in 1..Decisions(q)
                      /\ i.model \subseteq q.told[UserLevel(q) + i.level]
    BY DEF PassedOver
  <2>1. i.level \in 1..Decisions(p) /\ i.model \subseteq p.told[UserLevel(p) + i.level]
    BY DEF PassedOver
  <2>2. UserLevel(p) + i.level \in 1..Len(p.told) /\ i.level \in 1..Decisions(q)
    BY <1>1, <1>2, <2>1
  <2> QED
    BY <1>2, <2>1, <2>2
<1> QED
  BY <1>2, <1>3, <1>5, <1>6, Zenon DEF Search

\* An assignment: once there is a partial model it is passed over.
LEMMA AssignStep ==
    ASSUME NEW p, Good(p), NEW searching, NEW late, NEW skipped, NEW model,
           Search(p, searching, late, skipped, model), p.asgControl # <<>>,
           NEW lit \in Int, Abs(lit) \in Vars(p), p.info[Abs(lit)].active,
           p.info[Abs(lit)].assignment = 0, NEW q, q = NotifyAssignment(p, lit),
           NEW passed,
           passed = IF ~p.found THEN skipped
                    ELSE skipped \union {[lit |-> lit, level |-> Decisions(p), model |-> model]}
    PROVE  Good(q) /\ Search(q, searching, late, passed, model)
<1>1. CASE ~p.found
  <2>1. Good(q) /\ Valued(p, q, lit) /\ Pushed(p, q, lit)
    BY <1>1, AssignGood, Zenon
  <2>2. /\ q.renotify = p.renotify /\ q.asgControl = p.asgControl
        /\ UserLevel(q) = UserLevel(p) /\ q.found = p.found /\ q.newClauses = p.newClauses
    BY <2>1 DEF Valued, UserLevel
  <2>3. \A i \in 1..Len(p.told) : p.told[i] \subseteq q.told[i]
    <3>1. Len(p.told) \in Nat
      BY Types DEF Good
    <3>2. \A i \in 1..Len(p.told) - 1 : q.told[i] = p.told[i]
      BY <2>1 DEF Pushed
    <3>3. p.told[Len(p.told)] \subseteq q.told[Len(p.told)]
      BY <2>1 DEF Pushed
    <3>4. \A i \in 1..Len(p.told) : i \in 1..Len(p.told) - 1 \/ i = Len(p.told)
      BY <3>1
    <3> QED
      BY <3>2, <3>3, <3>4
  <2>4. passed \subseteq skipped
    BY <1>1, Zenon
  <2>5. (q.found <=> p.found) /\ (p.found => q.newClauses = <<>>)
    BY <1>1, <2>2, Zenon
  <2>6. Search(q, searching, late, passed, model)
    <3>1. /\ Good(p) /\ Search(p, searching, late, skipped, model) /\ passed \subseteq skipped
          /\ q.renotify = p.renotify /\ q.asgControl = p.asgControl
          /\ UserLevel(q) = UserLevel(p) /\ (q.found <=> p.found)
          /\ p.found => q.newClauses = <<>>
          /\ \A i \in 1..Len(p.told) : p.told[i] \subseteq q.told[i]
      BY <2>2, <2>3, <2>4, <2>5
    <3>2. ASSUME NEW rest, rest = passed
          PROVE  Search(q, searching, late, rest, model)
      <4>1. rest \subseteq skipped
        BY <3>1, <3>2, Zenon
      <4> HIDE <1>1, <3>2
      <4> QED
        BY <3>1, <4>1, SearchKept, ZenonT(60)
    <3> QED
      BY <3>2, Zenon
  <2> QED
    BY <2>1, <2>6
<1>2. CASE p.found
  <2>1. q = p
    BY <1>2, Zenon DEF NotifyAssignment
  <2>2. /\ Decisions(p) \in Nat /\ Decisions(p) # 0
    BY Types DEF Good
  <2>3. /\ PassedOver(p, skipped)
        /\ model \subseteq p.told[UserLevel(p) + Decisions(p)]
        /\ searching
    BY <1>2, Zenon DEF Search
  <2>4. ASSUME NEW i \in passed
        PROVE  /\ i.level \in 1..Decisions(p)
               /\ i.model \subseteq p.told[UserLevel(p) + i.level]
    <3>1. CASE i \in skipped
      BY <2>3, <3>1 DEF PassedOver
    <3>2. CASE i = [lit |-> lit, level |-> Decisions(p), model |-> model]
      BY <2>2, <2>3, <3>2
    <3>3. i \in skipped \/ i = [lit |-> lit, level |-> Decisions(p), model |-> model]
      BY <1>2, Zenon
    <3> QED
      BY <3>1, <3>2, <3>3
  <2>5. PassedOver(p, passed)
    BY <2>4, Zenon DEF PassedOver
  <2>6. Search(p, searching, late, passed, model)
    BY <2>3, <2>5, Zenon DEF Search
  <2> QED
    BY <2>1, <2>6, Zenon
<1> QED
  BY <1>1, <1>2

\* The end of the search: what was decided is undone.
LEMMA EndGood ==
    ASSUME NEW p, Good(p), p.found => p.asgControl # <<>>, NEW q, q = NotifyBacktrack(p, 0)
    PROVE  Good(q) /\ q.asgControl = <<>> /\ ~q.found
<1>1. Decisions(p) \in Nat /\ (p.asgControl = <<>> <=> Decisions(p) = 0)
  BY Types DEF Good
<1>2. CASE Decisions(p) = 0
  <2>1. q = p
    BY <1>2, BacktrackLate, Zenon
  <2> QED
    BY <1>1, <1>2, <2>1
<1>3. CASE Decisions(p) # 0
  <2>1. 0 \in Nat /\ 0 < Decisions(p)
    BY <1>1, <1>3
  <2>2. Good(q) /\ Undone(p, q, 0)
    BY <2>1, BacktrackGood, Zenon
  <2>3. Decisions(q) = 0 /\ ~q.found
    BY <2>2 DEF Undone
  <2>4. q.asgControl = <<>>
    BY <2>2, <2>3, Types DEF Good
  <2> QED
    BY <2>2, <2>3, <2>4
<1> QED
  BY <1>2, <1>3

-----------------------------------------------------------------------------
(* Every action keeps the invariant. *)

LEMMA IInvParts ==
    ASSUME IInv
    PROVE  Good(s) /\ Search(s, inSearch, lag, ignored, justified)
           /\ inSearch \in BOOLEAN /\ lag \in BOOLEAN
  BY Zenon DEF IInv, Searching, Search

LEMMA NewVarStep ==
    ASSUME IInv, NewVar
    PROVE  IInv'
<1>1. /\ Len(s.info) < MaxVar /\ s' = AddNewVar(s, TRUE)
      /\ inSearch' = inSearch /\ lag' = lag /\ ignored' = ignored /\ justified' = justified
      /\ ~inSearch
  BY Zenon DEF NewVar
<1>2. Good(s') /\ Extended(s, s') /\ s'.newClauses = s.newClauses
  BY <1>1, IInvParts, NewAtomGood, Zenon
<1>3. ~s.found
  BY <1>1, IInvParts, Idle, Zenon
<1>4. Search(s', inSearch', lag', ignored', justified')
  BY <1>1, <1>2, <1>3, IInvParts, SearchExtended, Zenon
<1> QED
  BY <1>2, <1>4, Zenon DEF IInv, Searching

LEMMA AssertClauseStep ==
    ASSUME IInv, NEW c \in Clauses(s), AssertClause(c)
    PROVE  IInv'
<1>1. /\ s' = AddClause(s, c, FALSE)
      /\ inSearch' = inSearch /\ lag' = lag /\ ignored' = ignored /\ justified' = justified
      /\ ~inSearch
  BY Zenon DEF AssertClause
<1>2. OverAtoms(s, c)
  BY IInvParts, ClausesOver, Zenon
<1>3. Good(s') /\ SameButClauses(s, s')
  BY <1>1, <1>2, IInvParts, InputGood, Zenon
<1>4. Extended(s, s')
  BY <1>3, ExtendedSame, Zenon
<1>5. ~s.found
  BY <1>1, IInvParts, Idle, Zenon
<1>6. Search(s', inSearch', lag', ignored', justified')
  BY <1>1, <1>4, <1>5, IInvParts, SearchExtended, Zenon
<1> QED
  BY <1>3, <1>6, Zenon DEF IInv, Searching

LEMMA PushStep ==
    ASSUME IInv, Push
    PROVE  IInv'
<1>1. /\ ~inSearch /\ UserLevel(s) < MaxUserLevel /\ Len(s.info) < MaxVar
      /\ s' = [AddNewVar(UserPush([s EXCEPT !.told = Append(@, Known(s))]), FALSE)
                 EXCEPT !.activation = Append(@, Len(s.info) + 1)]
      /\ inSearch' = inSearch /\ lag' = lag /\ ignored' = ignored /\ justified' = justified
  BY Zenon DEF Push
<1>2. Typed(s) /\ s.told # <<>>
  <2>1. Typed(s) /\ Bounded(s)
    BY IInvParts, Zenon DEF Good
  <2>2. Len(s.told) >= 1
    BY <2>1, Types DEF Bounded
  <2> QED
    BY <2>1, <2>2
<1>3. Opened(s, s')
  BY <1>1, <1>2, OpenedFields, Zenon
<1>4. s.asgControl = <<>> /\ ~s.found /\ ignored = {}
  BY <1>1, IInvParts, Idle, Zenon
<1>5. Good(s')
  BY <1>1, <1>3, <1>4, IInvParts, OpenedGood, Zenon
<1>6. s'.asgControl = <<>> /\ ~s'.found
  BY <1>3, <1>4, Zenon DEF Opened
<1>7. Search(s', inSearch', lag', ignored', justified')
  BY <1>1, <1>4, <1>6, IInvParts, SearchIdle, Zenon
<1> QED
  BY <1>5, <1>7, Zenon DEF IInv, Searching

LEMMA PopStep ==
    ASSUME IInv, Pop
    PROVE  IInv'
<1>1. /\ ~inSearch /\ UserLevel(s) > 0 /\ s' = UserPop(Lowering(s))
      /\ inSearch' = inSearch /\ lag' = lag /\ ignored' = ignored /\ justified' = justified
  BY Zenon DEF Pop, Lowering
<1>2. s.asgControl = <<>> /\ ~s.found /\ ignored = {}
  BY <1>1, IInvParts, Idle, Zenon
<1>3. Good(s') /\ Sunk(s, s')
  BY <1>1, <1>2, IInvParts, SunkGood, Zenon
<1>4. s'.asgControl = <<>> /\ ~s'.found
  BY <1>2, <1>3, Zenon DEF Sunk
<1>5. Search(s', inSearch', lag', ignored', justified')
  BY <1>1, <1>2, <1>4, IInvParts, SearchIdle, Zenon
<1> QED
  BY <1>3, <1>5, Zenon DEF IInv, Searching

LEMMA StartSolveStep ==
    ASSUME IInv, StartSolve
    PROVE  IInv'
<1>1. /\ ~inSearch /\ s' = RenotifyFixed(s) /\ inSearch' = TRUE
      /\ lag' = lag /\ ignored' = ignored /\ justified' = justified
  BY Zenon DEF StartSolve
<1>2. s.asgControl = <<>> /\ ~s.found /\ ignored = {}
  BY <1>1, IInvParts, Idle, Zenon
<1>3. Good(s') /\ Renotified(s, s')
  BY <1>1, <1>2, IInvParts, RenotifiedGood, Zenon
<1>4. s'.asgControl = <<>> /\ ~s'.found /\ s'.renotify = <<>>
  BY <1>2, <1>3, Zenon DEF Renotified
<1>5. inSearch' \in BOOLEAN /\ lag' \in BOOLEAN
  BY <1>1, IInvParts, Zenon
<1>6. Search(s', inSearch', lag', ignored', justified')
  BY <1>1, <1>2, <1>4, <1>5, SearchIdle, Zenon
<1> QED
  BY <1>3, <1>6, Zenon DEF IInv, Searching

\* The end of _solve, after a check of the model or without one.
LEMMA EndStep ==
    ASSUME NEW p, Good(p), p.found => p.asgControl # <<>>, EndSolve(p)
    PROVE  IInv'
<1>1. /\ s' = NotifyBacktrack(p, 0) /\ inSearch' = FALSE
      /\ lag' = (Decisions(p) > 0) /\ ignored' = {}
  BY Zenon DEF EndSolve
<1>2. Good(s') /\ s'.asgControl = <<>> /\ ~s'.found
  BY <1>1, EndGood, Zenon
<1>3. inSearch' \in BOOLEAN /\ lag' \in BOOLEAN /\ ~inSearch'
  <2>1. Decisions(p) \in Nat
    BY Types DEF Good
  <2>2. lag' = (Decisions(p) > 0)
    BY <1>1, Zenon
  <2>3. lag' \in BOOLEAN
    BY <2>1, <2>2
  <2> QED
    BY <1>1, <2>3, Zenon
<1>4. Search(s', inSearch', lag', ignored', justified')
  BY <1>1, <1>2, <1>3, SearchIdle, Zenon
<1> QED
  BY <1>2, <1>4, Zenon DEF IInv, Searching

LEMMA GiveUpStep ==
    ASSUME IInv, GiveUp
    PROVE  IInv'
<1>1. EndSolve(s)
  BY Zenon DEF GiveUp
<1>2. s.found => s.asgControl # <<>>
  BY IInvParts, Zenon DEF Search
<1> QED
  BY <1>1, <1>2, IInvParts, EndStep, Zenon

LEMMA LateBacktrackStep ==
    ASSUME IInv, LateBacktrack
    PROVE  IInv'
<1>1. /\ lag /\ s' = NotifyBacktrack(s, 0) /\ lag' = FALSE
      /\ inSearch' = inSearch /\ ignored' = ignored /\ justified' = justified
  BY Zenon DEF LateBacktrack
<1>2. s.asgControl = <<>>
  BY <1>1, IInvParts, Zenon DEF Search
<1>3. Decisions(s) = 0
  BY <1>2 DEF Decisions
<1>4. s' = s
  BY <1>1, <1>3, BacktrackLate, Zenon
<1>5. Good(s')
  BY <1>4, IInvParts, Zenon
<1>6. lag' \in BOOLEAN /\ ~lag'
  BY <1>1, Zenon
<1>7. Search(s, inSearch', lag', ignored', justified')
  BY <1>1, <1>6, IInvParts, Zenon DEF Search
<1>8. Search(s', inSearch', lag', ignored', justified')
  BY <1>4, <1>7, Zenon
<1> QED
  BY <1>5, <1>8, Zenon DEF IInv, Searching

\* What is not on CaDiCaL's trail has no value.
LEMMA Unassigned ==
    ASSUME NEW p, Good(p), NEW lit \in Int, Abs(lit) \in Vars(p), p.info[Abs(lit)].active,
           Abs(lit) \notin {Abs(l) : l \in ToSet(p.assignments)}
    PROVE  p.info[Abs(lit)].assignment = 0
<1> SUFFICES ASSUME p.info[Abs(lit)].assignment # 0
             PROVE  FALSE
  OBVIOUS
<1>1. Typed(p) /\ Trail(p)
  BY DEF Good
<1>2. PICK i \in 1..Len(p.assignments) : p.assignments[i] = p.info[Abs(lit)].assignment
  BY ZenonT(60), <1>1, Types DEF Trail
<1>3. p.info[Abs(lit)].assignment \in {0, Abs(lit), -Abs(lit)} /\ Abs(lit) \in Nat
  BY <1>1, Types DEF Trail
<1>4. Abs(p.assignments[i]) = Abs(lit)
  BY <1>2, <1>3, AbsFacts
<1>5. p.assignments[i] \in ToSet(p.assignments)
  BY <1>1, SetOf DEF Typed
<1> QED
  BY <1>4, <1>5

LEMMA NotAssigned ==
    ASSUME NEW p, NEW v, v \notin Assigned(p)
    PROVE  v \notin {Abs(l) : l \in ToSet(p.assignments)}
  BY Zenon DEF Assigned

LEMMA SearchParts ==
    ASSUME NEW p, NEW searching, NEW late, NEW skipped, NEW model,
           Search(p, searching, late, skipped, model)
    PROVE  /\ searching \in BOOLEAN /\ late \in BOOLEAN
           /\ searching => p.renotify = <<>>
           /\ p.found => /\ p.asgControl # <<>> /\ p.newClauses = <<>>
                         /\ model \subseteq p.told[UserLevel(p) + Decisions(p)]
           /\ PassedOver(p, skipped)
  BY Zenon DEF Search

\* A partial model rests on what is known.
LEMMA ModelKnown ==
    ASSUME NEW p, Good(p), NEW searching, NEW late, NEW skipped, NEW model,
           Search(p, searching, late, skipped, model), p.found
    PROVE  model \subseteq p.told[Len(p.told)]
<1>1. /\ Decisions(p) \in Nat /\ UserLevel(p) \in Nat /\ DOMAIN p.told = 1..Len(p.told)
      /\ Len(p.told) = 1 + UserLevel(p) + Decisions(p)
      /\ p.asgControl = <<>> <=> Decisions(p) = 0
  BY Types DEF Good, Bounded
<1>2. p.asgControl # <<>> /\ model \subseteq p.told[UserLevel(p) + Decisions(p)]
  BY SearchParts, Zenon
<1>3. /\ UserLevel(p) + Decisions(p) \in 1..Len(p.told) /\ Len(p.told) \in 1..Len(p.told)
      /\ UserLevel(p) + Decisions(p) <= Len(p.told)
  BY <1>1, <1>2
<1>4. p.told[UserLevel(p) + Decisions(p)] \subseteq p.told[Len(p.told)]
  BY <1>1, <1>3 DEF Good, InStep
<1> QED
  BY <1>2, <1>4

\* A decision and the literal that is decided.
LEMMA DecidedStep ==
    ASSUME NEW p, Good(p), PassedOver(p, ignored), p.renotify = <<>>,
           p.found => p.newClauses = <<>> /\ justified' \subseteq p.told[Len(p.told)],
           inSearch, inSearch \in BOOLEAN, ~lag, lag \in BOOLEAN,
           inSearch' = inSearch, lag' = lag,
           NEW lit \in Int, Abs(lit) \in Vars(p), p.info[Abs(lit)].active,
           p.info[Abs(lit)].assignment = 0,
           Assign(NotifyNewDecisionLevel(p), lit, Decisions(p) + 1)
    PROVE  IInv'
<1>1. PICK x : x = NotifyNewDecisionLevel(p)
  OBVIOUS
<1>2. /\ s' = NotifyAssignment(x, lit)
      /\ ignored' = IF ~x.found THEN ignored
                    ELSE ignored \union {[lit |-> lit, level |-> Decisions(p) + 1,
                                          model |-> justified']}
  BY <1>1, Zenon DEF Assign
<1>3. Good(x) /\ Levelled(p, x)
  BY <1>1, DecisionGood, Zenon
<1>4. Search(x, inSearch, lag, ignored, justified')
  BY <1>3, SearchDecision, Zenon
<1>5. /\ Decisions(x) = Decisions(p) + 1 /\ x.info = p.info
      /\ Vars(x) = Vars(p)
  BY <1>3 DEF Levelled, Vars
<1>6. x.asgControl # <<>>
  <2>1. Decisions(p) \in Nat /\ (x.asgControl = <<>> <=> Decisions(x) = 0)
    BY <1>3, Types DEF Good
  <2> QED
    BY <1>5, <2>1
<1>7. ignored' = IF ~x.found THEN ignored
                 ELSE ignored \union {[lit |-> lit, level |-> Decisions(x),
                                       model |-> justified']}
  BY <1>2, <1>5, Zenon
<1>8. Abs(lit) \in Vars(x) /\ x.info[Abs(lit)].active /\ x.info[Abs(lit)].assignment = 0
  BY <1>5
<1>9. Good(s') /\ Search(s', inSearch, lag, ignored', justified')
  BY ZenonT(60), <1>2, <1>3, <1>4, <1>6, <1>7, <1>8, AssignStep
<1> QED
  BY <1>9, Zenon DEF IInv, Searching

\* The activation literals are the literals CaDiCaL assumes.
LEMMA DecideActivationStep ==
    ASSUME IInv, DecideActivation
    PROVE  IInv'
<1>1. PICK alit : /\ alit = s.activation[Decisions(s) + 1] /\ alit \notin Assigned(s)
                  /\ Assign(NotifyNewDecisionLevel(s), -alit, Decisions(s) + 1)
  BY Zenon DEF DecideActivation
<1>2. /\ inSearch /\ ~lag /\ Decisions(s) < UserLevel(s)
      /\ inSearch' = inSearch /\ lag' = lag /\ justified' = justified
  BY Zenon DEF DecideActivation
<1>3. /\ Typed(s) /\ Bounded(s) /\ Activations(s)
  BY IInvParts, Zenon DEF Good
<1>4. Decisions(s) + 1 \in DOMAIN s.activation
  <2>1. /\ Decisions(s) \in Nat /\ UserLevel(s) \in Nat /\ Len(s.activation) = UserLevel(s)
        /\ DOMAIN s.activation = 1..Len(s.activation)
    BY <1>3, Types DEF Bounded
  <2> QED
    BY <1>2, <2>1
<1>5. alit \in Vars(s) /\ s.info[alit].active
  BY <1>1, <1>3, <1>4 DEF Activations
<1>6. alit \in Nat /\ -alit \in Int /\ Abs(-alit) = alit
  BY SMTT(30), <1>3, <1>5, Types, AbsFacts
<1>7. s.info[Abs(-alit)].assignment = 0
  <2>1. alit \notin {Abs(l) : l \in ToSet(s.assignments)}
    BY <1>1, NotAssigned, Zenon
  <2> QED
    BY <1>5, <1>6, <2>1, IInvParts, Unassigned
<1>8. /\ PassedOver(s, ignored) /\ s.renotify = <<>>
      /\ s.found => s.newClauses = <<>>
  BY <1>2, IInvParts, SearchParts, Zenon
<1>9. s.found => justified' \subseteq s.told[Len(s.told)]
  BY <1>2, IInvParts, ModelKnown, Zenon
<1> QED
  BY <1>1, <1>2, <1>5, <1>6, <1>7, <1>8, <1>9, IInvParts, DecidedStep

\* The literals over active variables.
LEMMA ProblemLit ==
    ASSUME NEW p, Good(p), NEW lit, Abs(lit) \in ProblemVars(p), lit \in Literal
    PROVE  lit \in Int /\ Abs(lit) \in Vars(p) /\ p.info[Abs(lit)].active
  BY ProblemAtoms, BoundsAssumption

LEMMA DecideStep ==
    ASSUME IInv, NEW lit \in LitsOf(Active(s)), Decide(lit)
    PROVE  IInv'
<1>1. /\ inSearch /\ ~lag /\ Abs(lit) \in ProblemVars(s) \ Assigned(s)
      /\ inSearch' = inSearch /\ lag' = lag /\ justified' = justified
      /\ Assign(NotifyNewDecisionLevel(s), lit, Decisions(s) + 1)
  BY Zenon DEF Decide
<1>2. lit \in Int /\ Abs(lit) \in Vars(s) /\ s.info[Abs(lit)].active
  BY <1>1, IInvParts, ProblemLit DEF LitsOf
<1>3. s.info[Abs(lit)].assignment = 0
  <2>1. Abs(lit) \notin {Abs(l) : l \in ToSet(s.assignments)}
    BY <1>1, NotAssigned, Zenon
  <2> QED
    BY <1>2, <2>1, IInvParts, Unassigned, Zenon
<1>4. /\ PassedOver(s, ignored) /\ s.renotify = <<>>
      /\ s.found => s.newClauses = <<>>
  BY <1>1, IInvParts, SearchParts, Zenon
<1>5. s.found => justified' \subseteq s.told[Len(s.told)]
  BY <1>1, IInvParts, ModelKnown, Zenon
<1> QED
  BY <1>1, <1>2, <1>3, <1>4, <1>5, IInvParts, DecidedStep

LEMMA PropagateStep ==
    ASSUME IInv, NEW lit \in LitsOf(Active(s)), Propagate(lit)
    PROVE  IInv'
<1>1. /\ inSearch /\ ~lag /\ Decisions(s) > 0
      /\ Abs(lit) \in ProblemVars(s) \ Assigned(s)
      /\ inSearch' = inSearch /\ lag' = lag /\ justified' = justified
      /\ Assign(s, lit, Decisions(s))
  BY Zenon DEF Propagate
<1>2. lit \in Int /\ Abs(lit) \in Vars(s) /\ s.info[Abs(lit)].active
  BY <1>1, IInvParts, ProblemLit DEF LitsOf
<1>3. s.info[Abs(lit)].assignment = 0
  <2>1. Abs(lit) \notin {Abs(l) : l \in ToSet(s.assignments)}
    BY <1>1, NotAssigned, Zenon
  <2> QED
    BY <1>2, <2>1, IInvParts, Unassigned, Zenon
<1>4. s.asgControl # <<>>
  BY <1>1 DEF Decisions
<1>5. /\ s' = NotifyAssignment(s, lit)
      /\ ignored' = IF ~s.found THEN ignored
                    ELSE ignored \union {[lit |-> lit, level |-> Decisions(s),
                                          model |-> justified]}
  BY <1>1, Zenon DEF Assign
<1>6. Good(s') /\ Search(s', inSearch, lag, ignored', justified)
  <2>1. Good(s) /\ Search(s, inSearch, lag, ignored, justified)
    BY IInvParts, Zenon
  <2> HIDE <1>1
  <2> QED
    BY <1>2, <1>3, <1>4, <1>5, <2>1, AssignStep, ZenonT(60)
<1> QED
  BY <1>1, <1>6, Zenon DEF IInv, Searching

LEMMA FixStep ==
    ASSUME IInv, NEW lit \in Int, Abs(lit) \in Vars(s), Fix(lit)
    PROVE  IInv'
<1>1. /\ ~s.found /\ s.info[Abs(lit)].active /\ ~s.info[Abs(lit)].fixed
      /\ s.info[Abs(lit)].assignment \in {0, lit} /\ Entails(s, lit)
      /\ s' = NotifyFixedAssignment(s, lit)
      /\ ignored' \subseteq ignored
      /\ inSearch' = inSearch /\ lag' = lag /\ justified' = justified
  BY Zenon DEF Fix, Active
<1>2. /\ Good(s') /\ Valued(s, s', lit)
      /\ \A i \in 1..Len(s.told) : s.told[i] \subseteq s'.told[i]
  BY <1>1, IInvParts, FixGood, Zenon
<1>3. /\ s'.renotify = s.renotify /\ s'.asgControl = s.asgControl
      /\ UserLevel(s') = UserLevel(s) /\ s'.found = s.found
  BY <1>2 DEF Valued, UserLevel
<1>4. (s'.found <=> s.found) /\ (s.found => s'.newClauses = <<>>)
  BY <1>1, <1>3, Zenon
<1>5. Search(s', inSearch, lag, ignored', justified)
  BY <1>1, <1>2, <1>3, <1>4, IInvParts, SearchKept, ZenonT(60)
<1> QED
  BY <1>1, <1>2, <1>5, Zenon DEF IInv, Searching

LEMMA BacktrackToStep ==
    ASSUME IInv, NEW level \in Nat, BacktrackTo(level)
    PROVE  IInv'
<1>1. /\ inSearch /\ ~lag /\ level < Decisions(s) /\ s' = NotifyBacktrack(s, level)
      /\ ignored' = {i \in ignored : i.level <= level}
      /\ inSearch' = inSearch /\ lag' = lag
  BY Zenon DEF BacktrackTo
<1>2. Good(s') /\ Undone(s, s', level)
  BY <1>1, IInvParts, BacktrackGood, Zenon
<1>3. /\ ~s'.found /\ Decisions(s') = level /\ s'.renotify = s.renotify
      /\ UserLevel(s') = UserLevel(s)
      /\ Len(s'.told) = Len(s.told) - (Decisions(s) - level)
      /\ \A i \in 1..Len(s'.told) - 1 : s'.told[i] = s.told[i]
  BY <1>2 DEF Undone, UserLevel
<1>4. /\ Decisions(s) \in Nat /\ UserLevel(s) \in Nat
      /\ Len(s.told) = 1 + UserLevel(s) + Decisions(s)
  BY IInvParts, Types DEF Good, Bounded
<1>5. PassedOver(s, ignored) /\ s.renotify = <<>>
  BY <1>1, IInvParts, SearchParts, Zenon
<1>6. PassedOver(s', ignored')
  <2> SUFFICES ASSUME NEW i \in ignored'
               PROVE  /\ i.level \in 1..Decisions(s')
                      /\ i.model \subseteq s'.told[UserLevel(s') + i.level]
    BY DEF PassedOver
  <2>1. /\ i.level \in 1..Decisions(s) /\ i.level <= level
        /\ i.model \subseteq s.told[UserLevel(s) + i.level]
    BY <1>1, <1>5 DEF PassedOver
  <2>2. UserLevel(s) + i.level \in 1..Len(s'.told) - 1 /\ i.level \in 1..level
    BY SMTT(30), <1>3, <1>4, <2>1
  <2> QED
    BY SMTT(30), <1>3, <2>1, <2>2
<1>7. Search(s', inSearch', lag', ignored', justified')
  BY <1>1, <1>3, <1>5, <1>6, IInvParts, Zenon DEF Search
<1> QED
  BY <1>2, <1>7, Zenon DEF IInv, Searching

LEMMA FlagIs ==
    ASSUME NEW p, Good(p), NEW b \in BOOLEAN, NEW q, q = [p EXCEPT !.found = b]
    PROVE  SameButFlags(p, q) /\ (q.found <=> b)
<1>1. Typed(p)
  BY DEF Good
<1>2. /\ Shape(q) /\ q.found = b
      /\ q.info = p.info /\ q.activeVars = p.activeVars /\ q.control = p.control
      /\ q.activation = p.activation /\ q.renotify = p.renotify
      /\ q.assignments = p.assignments /\ q.asgControl = p.asgControl
      /\ q.propagations = p.propagations /\ q.newClauses = p.newClauses
      /\ q.told = p.told /\ q.db = p.db /\ q.failed = p.failed
  BY <1>1 DEF Typed, Shape, Fields
<1>3. Typed(q)
  BY <1>1, <1>2, Zenon DEF Typed
<1>4. q.failed \subseteq {"unobserved"}
  BY <1>2 DEF Good
<1> QED
  BY <1>2, <1>3, <1>4, Zenon DEF SameButFlags

LEMMA FlagGood ==
    ASSUME NEW p, Good(p), NEW q, SameButFlags(p, q)
    PROVE  Good(q)
<1>1. /\ Typed(q)
      /\ q.info = p.info /\ q.activeVars = p.activeVars /\ q.control = p.control
      /\ q.activation = p.activation /\ q.renotify = p.renotify
      /\ q.assignments = p.assignments /\ q.asgControl = p.asgControl
      /\ q.propagations = p.propagations /\ q.newClauses = p.newClauses
      /\ q.told = p.told /\ q.db = p.db /\ q.failed \subseteq {"unobserved"}
  BY DEF SameButFlags
<1>2. Vars(q) = Vars(p) /\ UserLevel(q) = UserLevel(p) /\ Decisions(q) = Decisions(p)
  BY <1>1 DEF Vars, UserLevel, Decisions
<1>3. /\ Typed(p) /\ Bounded(p) /\ Listed(p) /\ Ordered(p) /\ Activations(p)
      /\ Trail(p) /\ Marked(p) /\ InStep(p) /\ ClausesGuarded(p) /\ Pending(p)
      /\ p.failed \subseteq {"unobserved"}
  BY DEF Good
<1>4. BaseLen(q) = BaseLen(p) /\ \A n : AtomsTo(q, n) = AtomsTo(p, n)
  BY ZenonT(60), <1>1 DEF BaseLen, AtomsTo
<1>5. Bounded(q) /\ Listed(q) /\ Ordered(q)
  BY <1>1, <1>2, <1>3 DEF Bounded, Listed, Ordered
<1>6. Activations(q) /\ Trail(q)
  BY <1>1, <1>2, <1>3 DEF Activations, Trail
<1>7. Marked(q)
  BY <1>1, <1>2, <1>3, <1>4 DEF Marked
<1>8. InStep(q)
  BY SMTT(30), <1>1, <1>2, <1>3, <1>4 DEF InStep
<1>9. Pending(q)
  BY <1>1, <1>2, <1>3 DEF Pending
<1>10. SameNature(p, q)
  BY <1>1, <1>2 DEF SameNature
<1>11. ClausesGuarded(q)
  BY <1>1, <1>3, <1>10, NatureClauses
<1> QED
  BY <1>1, <1>3, <1>5, <1>6, <1>7, <1>8, <1>9, <1>11 DEF Good

LEMMA DecideStopSearchStep ==
    ASSUME IInv, NEW lit \in LitsOf(Active(s)), DecideStopSearch(lit)
    PROVE  IInv'
<1>1. /\ inSearch /\ ~lag /\ ~s.found /\ Abs(lit) \in ProblemVars(s) \ Assigned(s)
      /\ inSearch' = inSearch /\ lag' = lag
  BY Zenon DEF DecideStopSearch
<1>2. PICK r \in CheckFoundModel(s), done \in BOOLEAN :
         /\ justified' = IF r.ok /\ done THEN Known(s) ELSE {}
         /\ Assign(NotifyNewDecisionLevel([r.p EXCEPT !.found = r.ok /\ done]),
                   lit, Decisions(s) + 1)
  BY Zenon DEF DecideStopSearch
<1>3. PICK b \in BOOLEAN : b = (r.ok /\ done)
  BY Zenon
<1>4. PICK p, x : x = r.p /\ p = [x EXCEPT !.found = b]
  OBVIOUS
<1>5. Assign(NotifyNewDecisionLevel(p), lit, Decisions(s) + 1)
  BY <1>2, <1>3, <1>4, Zenon
<1>6. Checked(s, r)
  BY <1>2, IInvParts, CheckFoundGood, Zenon
<1>7. /\ Good(x) /\ Extended(s, x)
      /\ b => x.newClauses = <<>>
  BY <1>1, <1>3, <1>4, <1>6, Zenon DEF Checked
<1>8. b => justified' = Known(s)
  BY <1>2, <1>3, Zenon
<1> HIDE <1>2, <1>3, <1>6
<1>9. /\ Good(p) /\ (p.found <=> b) /\ p.info = x.info
      /\ p.renotify = x.renotify /\ p.asgControl = x.asgControl
      /\ p.newClauses = x.newClauses /\ p.told = x.told /\ p.control = x.control
      /\ p.assignments = x.assignments
  <2>1. Good(x) /\ p = [x EXCEPT !.found = b]
    BY <1>4, <1>7, Zenon
  <2>2. SameButFlags(x, p) /\ (p.found <=> b)
    BY <2>1, FlagIs, Zenon
  <2>3. Good(p)
    BY <2>1, <2>2, FlagGood, Zenon
  <2> QED
    BY <2>2, <2>3, Zenon DEF SameButFlags
<1> HIDE <1>4
<1>10. /\ p.renotify = s.renotify /\ p.told = s.told /\ p.assignments = s.assignments
       /\ Decisions(p) = Decisions(s) /\ UserLevel(p) = UserLevel(s)
       /\ \A v \in Vars(s) : v \in Vars(p) /\ p.info[v] = s.info[v]
  BY <1>7, <1>9 DEF Extended, Decisions, UserLevel, Vars
<1>11. lit \in Int /\ Abs(lit) \in Vars(s) /\ s.info[Abs(lit)].active
  BY <1>1, IInvParts, ProblemLit DEF LitsOf
<1>12. s.info[Abs(lit)].assignment = 0
  <2>1. Abs(lit) \notin {Abs(l) : l \in ToSet(s.assignments)}
    BY <1>1, NotAssigned, Zenon
  <2> QED
    BY <1>11, <2>1, IInvParts, Unassigned, Zenon
<1>13. PassedOver(s, ignored) /\ s.renotify = <<>>
  BY <1>1, IInvParts, SearchParts, Zenon
<1>14. PassedOver(p, ignored)
  BY <1>10, <1>13 DEF PassedOver
<1>15. p.found => p.newClauses = <<>> /\ justified' \subseteq p.told[Len(p.told)]
  <2>1. Known(s) = s.told[Len(s.told)]
    <3>1. s.told \in Seq(SUBSET Int) /\ s.told # <<>>
      <4>1. Typed(s) /\ Bounded(s)
        BY IInvParts, Zenon DEF Good
      <4>2. Len(s.told) >= 1
        BY <4>1, Types DEF Bounded
      <4>3. s.told \in Seq(SUBSET Int)
        BY <4>1 DEF Typed
      <4> QED
        BY <4>2, <4>3
    <3> QED
      BY <3>1, LastIs DEF Known
  <2> QED
    BY <1>7, <1>8, <1>9, <1>10, <2>1
<1>16. /\ Abs(lit) \in Vars(p) /\ p.info[Abs(lit)].active
       /\ p.info[Abs(lit)].assignment = 0 /\ p.renotify = <<>>
  BY <1>10, <1>11, <1>12, <1>13
<1>17. Assign(NotifyNewDecisionLevel(p), lit, Decisions(p) + 1)
  BY <1>5, <1>10, Zenon
<1> QED
  BY <1>1, <1>9, <1>11, <1>14, <1>15, <1>16, <1>17, IInvParts, DecidedStep

\* A propagation of a theory rests on what is known; without decisions and
\* assumptions there is only user level 0.
LEMMA PropagationPending ==
    ASSUME NEW p, Good(p), Decisions(p) >= UserLevel(p), NEW e \in Propagations(p),
           NEW q, q = [p EXCEPT !.propagations = <<e>>]
    PROVE  Good(q) /\ Extended(p, q) /\ q.newClauses = p.newClauses
<1>1. /\ Typed(p) /\ Bounded(p) /\ Listed(p)
  BY DEF Good
<1>2. /\ p.told \in Seq(SUBSET Int) /\ p.told # <<>> /\ Len(p.told) \in Nat
      /\ Len(p.told) = 1 + UserLevel(p) + Decisions(p)
      /\ UserLevel(p) \in Nat /\ Decisions(p) \in Nat
      /\ p.asgControl = <<>> <=> Decisions(p) = 0
      /\ \A v \in Vars(p) : p.info[v].intro \in Nat
  <2>1. /\ Len(p.told) \in Nat
        /\ Len(p.told) = 1 + UserLevel(p) + Decisions(p)
        /\ UserLevel(p) \in Nat /\ Decisions(p) \in Nat
        /\ p.asgControl = <<>> <=> Decisions(p) = 0
        /\ \A v \in Vars(p) : p.info[v].intro \in Nat
    BY <1>1, Types DEF Bounded
  <2>2. p.told \in Seq(SUBSET Int)
    BY <1>1 DEF Typed
  <2>3. Len(p.told) # 0
    BY <2>1
  <2> QED
    BY <2>1, <2>2, <2>3
<1>3. Known(p) = p.told[Len(p.told)] /\ Len(p.told) \in DOMAIN p.told
      /\ p.told[Len(p.told)] \subseteq Int
  <2>1. Known(p) = p.told[Len(p.told)]
    BY <1>2, LastIs DEF Known
  <2>2. Len(p.told) \in 1..Len(p.told)
    BY <1>2
  <2>3. DOMAIN p.told = 1..Len(p.told) /\ \A i \in 1..Len(p.told) : p.told[i] \subseteq Int
    BY <1>1, Types
  <2> QED
    BY <2>1, <2>2, <2>3
<1>4. PICK lit, why :
         /\ e = [lit |-> lit, why |-> why]
         /\ lit \in Literal /\ Abs(lit) \in ProblemVars(p) /\ p.info[Abs(lit)].atom
         /\ why \in Known(p)
  <2>1. PICK lit \in LitsOf({v \in ProblemVars(p) : p.info[v].atom /\ p.info[v].assignment = 0}),
             why \in IF ClauseCount < MaxClauses THEN Known(p) ELSE {} :
           e = [lit |-> lit, why |-> why]
    <3> DEFINE A == LitsOf({v \in ProblemVars(p) : p.info[v].atom /\ p.info[v].assignment = 0})
               B == IF ClauseCount < MaxClauses THEN Known(p) ELSE {}
    <3>2. \E lit \in A, why \in B : e = [lit |-> lit, why |-> why]
      BY DEF Propagations
    <3> QED
      BY <3>2 DEF A, B
  <2>2. lit \in Literal /\ Abs(lit) \in ProblemVars(p) /\ p.info[Abs(lit)].atom
    BY <2>1, Zenon DEF LitsOf
  <2>3. why \in Known(p)
    BY <2>1, Zenon
  <2> QED
    BY <2>1, <2>2, <2>3, Zenon
<1>5. e.lit = lit /\ e.why = why
  BY <1>4
<1>6. /\ Abs(lit) \in Vars(p) /\ p.info[Abs(lit)].active
      /\ lit \in Int /\ why \in Int
  BY <1>3, <1>4, ProblemLit
<1>7. e \in Entry
  BY <1>4, <1>6 DEF Entry
<1>8. PICK new : new = <<e>>
  OBVIOUS
<1>9. /\ new \in Seq(Entry) /\ Len(new) = 1 /\ new[1] = e
  BY <1>7, <1>8
<1>10. p.asgControl = <<>> => why \in p.told[1] /\ p.info[Abs(lit)].intro = 0
  <2> SUFFICES ASSUME p.asgControl = <<>>
               PROVE  why \in p.told[1] /\ p.info[Abs(lit)].intro = 0
    OBVIOUS
  <2>1. Decisions(p) = 0 /\ UserLevel(p) = 0
    BY <1>2
  <2>2. Len(p.told) = 1
    BY <1>2, <2>1
  <2>3. p.info[Abs(lit)].intro <= 0
    BY <1>1, <1>6, <2>1 DEF Listed
  <2> QED
    BY <1>2, <1>3, <1>4, <1>6, <2>2, <2>3
<1>11. q = [p EXCEPT !.propagations = new]
  BY <1>8, Zenon
<1>12. /\ q.info = p.info /\ q.told = p.told /\ q.asgControl = p.asgControl
       /\ q.propagations = new
  BY <1>1, <1>11 DEF Typed, Shape, Fields
<1>13. Pending(q)
  <2>1. Vars(q) = Vars(p) /\ DOMAIN new = {1}
    BY <1>9, <1>12 DEF Vars
  <2>2. \A i \in {1} : new[i] = e
    BY <1>9
  <2> HIDE <1>8, <1>11
  <2>3. Len(q.propagations) <= 1
    BY <1>9, <1>12
  <2>4. /\ Abs(e.lit) \in Vars(q) /\ q.info[Abs(e.lit)].active /\ q.info[Abs(e.lit)].atom
        /\ e.why \in q.told[Len(q.told)]
        /\ q.asgControl = <<>> => e.why \in q.told[1] /\ q.info[Abs(e.lit)].intro = 0
    BY <1>3, <1>4, <1>5, <1>6, <1>10, <1>12, <2>1
  <2>5. DOMAIN q.propagations = {1} /\ \A i \in {1} : q.propagations[i] = e
    BY <1>12, <2>1, <2>2
  <2> QED
    BY <2>3, <2>4, <2>5, Zenon DEF Pending
<1> QED
  BY ZenonT(60), <1>9, <1>11, <1>13, PropagationsGood

LEMMA CbPropagateCheckStep ==
    ASSUME IInv, CbPropagateCheck
    PROVE  IInv'
<1>1. /\ ~s.found /\ Decisions(s) >= UserLevel(s)
      /\ inSearch' = inSearch /\ lag' = lag /\ ignored' = ignored /\ justified' = justified
  BY Zenon DEF CbPropagateCheck
<1>2. \/ \E o \in Outputs(s) : s' = o[1]
      \/ \E e \in Propagations(s) : s' = [s EXCEPT !.propagations = <<e>>]
  BY Zenon DEF CbPropagateCheck
<1>3. CASE \E o \in Outputs(s) : s' = o[1]
  <2>1. Good(s') /\ Extended(s, s')
    BY <1>3, IInvParts, OutputsGood, Zenon
  <2>2. Search(s', inSearch', lag', ignored', justified')
    BY <1>1, <2>1, IInvParts, SearchExtended, Zenon
  <2> QED
    BY <2>1, <2>2, Zenon DEF IInv, Searching
<1>4. CASE \E e \in Propagations(s) : s' = [s EXCEPT !.propagations = <<e>>]
  <2>1. Good(s') /\ Extended(s, s')
    BY <1>1, <1>4, IInvParts, PropagationPending, Zenon
  <2>2. Search(s', inSearch', lag', ignored', justified')
    BY <1>1, <2>1, IInvParts, SearchExtended, Zenon
  <2> QED
    BY <2>1, <2>2, Zenon DEF IInv, Searching
<1> QED
  BY <1>2, <1>3, <1>4

LEMMA Singleton ==
    ASSUME NEW r \in Seq(Entry), Len(r) <= 1, r # <<>>
    PROVE  /\ Len(r) = 1 /\ DOMAIN r = 1..1 /\ Head(r) = r[1] /\ r[1] \in Entry
           /\ Tail(r) = <<>>
<1>1. PICK n \in Nat : n = Len(r)
  OBVIOUS
<1>2. n # 0
  BY <1>1, EmptySeq
<1>3. n = 1
  BY <1>1, <1>2
<1>4. DOMAIN r = 1..1 /\ Head(r) = r[1] /\ r[1] \in Entry
  <2>1. Len(r) = 1
    BY <1>1, <1>3, Zenon
  <2>2. r[1] \in Entry
    BY <2>1
  <2>3. Head(r) = r[1]
    OBVIOUS
  <2>4. DOMAIN r = 1..Len(r)
    OBVIOUS
  <2> QED
    BY <2>1, <2>2, <2>3, <2>4, Zenon
<1>5. PICK u : u = Tail(r)
  OBVIOUS
<1>6. u \in Seq(Entry) /\ Len(u) = 0
  <2>1. Tail(r) \in Seq(Entry) /\ Len(Tail(r)) = Len(r) - 1
    BY HeadTailProperties, Zenon
  <2> QED
    BY <1>1, <1>3, <1>5, <2>1
<1>7. u = <<>>
  BY <1>6, EmptySeq
<1> QED
  BY <1>1, <1>3, <1>4, <1>5, <1>7

\* cb_propagate hands out the one propagation that is pending.
LEMMA NextPropagation ==
    ASSUME NEW p, Good(p), p.propagations # <<>>,
           NEW q, q = [p EXCEPT !.propagations = Tail(@)], NEW e, e = Head(p.propagations)
    PROVE  /\ Good(q) /\ Extended(p, q) /\ q.newClauses = p.newClauses /\ q.info = p.info
           /\ e.lit \in Int /\ Abs(e.lit) \in Vars(p) /\ p.info[Abs(e.lit)].active
           /\ OverAtoms(p, Explanation(e))
<1>1. p.propagations \in Seq(Entry) /\ Len(p.propagations) <= 1
  BY DEF Good, Typed, Pending
<1>2. PICK r : r = p.propagations
  OBVIOUS
<1>3. r \in Seq(Entry) /\ Len(r) <= 1 /\ r # <<>>
  BY <1>1, <1>2
<1>4. Tail(r) = <<>> /\ Head(r) = r[1] /\ 1 \in DOMAIN r /\ r[1] \in Entry
  <2>1. Tail(r) = <<>> /\ Head(r) = r[1] /\ DOMAIN r = 1..1 /\ r[1] \in Entry
    BY <1>3, Singleton, Zenon
  <2> QED
    BY <2>1
<1>5. q = [p EXCEPT !.propagations = <<>>]
  BY <1>2, <1>4, Zenon
<1>6. Good(q) /\ Extended(p, q) /\ q.newClauses = p.newClauses /\ q.info = p.info
  BY <1>5, PropagationsDropped, Zenon
<1>7. e = p.propagations[1] /\ 1 \in DOMAIN p.propagations /\ e \in Entry
  BY <1>2, <1>4, Zenon
<1>8. OverAtoms(p, Explanation(e))
  BY <1>7, ReasonOver, Zenon
<1>9. Abs(e.lit) \in Vars(p) /\ p.info[Abs(e.lit)].active
  BY <1>7 DEF Good, Pending
<1>10. e.lit \in Int
  BY <1>7 DEF Entry
<1> QED
  BY <1>6, <1>8, <1>9, <1>10, Zenon

\* The reason CaDiCaL learns, behind the activation literal of its user level.
LEMMA ReasonStored ==
    ASSUME NEW p, Good(p), NEW x, Good(x), x.info = p.info, NEW c, OverAtoms(p, c),
           NEW q, q = [x EXCEPT !.db = @ \union {Guard(p, ClauseUserLevel(p, c)) \union c}]
    PROVE  Good(q) /\ SameButClauses(x, q) /\ q.newClauses = x.newClauses
<1>1. PICK level : level = ClauseUserLevel(p, c)
  OBVIOUS
<1>2. level \in 0..UserLevel(p) /\ UserLevel(p) \in Nat
  BY <1>1, ClauseLevel, Types DEF Good
<1>3. ClauseUserLevel(p, c) <= level
  BY <1>1, <1>2
<1>4. PICK g : g = Guard(p, level) \union c
  OBVIOUS
<1>5. g \in SUBSET Int /\ Guarded(p, g)
  BY <1>2, <1>3, <1>4, ClauseGuarded
<1>6. Guarded(x, g)
  BY <1>5 DEF Guarded, Vars
<1>7. q = [x EXCEPT !.db = @ \union {g}]
  BY <1>1, <1>4, Zenon
<1> QED
  BY <1>5, <1>6, <1>7, StoredGood, Zenon

LEMMA CbPropagateNextStep ==
    ASSUME IInv, CbPropagateNext
    PROVE  IInv'
<1>1. /\ ~s.found /\ s.propagations # <<>> /\ inSearch' = inSearch /\ lag' = lag
  BY Zenon DEF CbPropagateNext
<1>2. PICK e, q :
         /\ e = Head(s.propagations) /\ q = [s EXCEPT !.propagations = Tail(@)]
         /\ \/ /\ Abs(e.lit) \notin Assigned(s) /\ Decisions(s) > 0
               /\ justified' = justified /\ Assign(q, e.lit, Decisions(s))
            \/ s' = q /\ ignored' = ignored /\ justified' = justified
            \/ /\ s' = [q EXCEPT !.db = @ \union
                         {Guard(s, ClauseUserLevel(s, Explanation(e))) \union Explanation(e)}]
               /\ ignored' = ignored /\ justified' = justified
  BY Zenon DEF CbPropagateNext
<1>3. /\ Good(q) /\ Extended(s, q) /\ q.newClauses = s.newClauses /\ q.info = s.info
      /\ e.lit \in Int /\ Abs(e.lit) \in Vars(s) /\ s.info[Abs(e.lit)].active
      /\ OverAtoms(s, Explanation(e))
  BY <1>1, <1>2, IInvParts, NextPropagation, Zenon
<1>4. Search(q, inSearch, lag, ignored, justified)
  BY <1>1, <1>3, IInvParts, SearchExtended, Zenon
<1>5. ~q.found /\ Decisions(q) = Decisions(s) /\ Vars(q) = Vars(s)
  BY <1>1, <1>3 DEF Extended, Decisions, Vars
<1>6. CASE /\ Abs(e.lit) \notin Assigned(s) /\ Decisions(s) > 0
           /\ justified' = justified /\ Assign(q, e.lit, Decisions(s))
  <2>1. s.info[Abs(e.lit)].assignment = 0
    <3>1. Abs(e.lit) \notin {Abs(l) : l \in ToSet(s.assignments)}
      BY <1>6, NotAssigned, Zenon
    <3> QED
      BY <1>3, <3>1, IInvParts, Unassigned, Zenon
  <2>2. q.asgControl # <<>>
    <3>1. Decisions(q) > 0
      BY <1>5, <1>6
    <3> QED
      BY <3>1 DEF Decisions
  <2>3. /\ s' = NotifyAssignment(q, e.lit)
        /\ ignored' = IF ~q.found THEN ignored
                      ELSE ignored \union {[lit |-> e.lit, level |-> Decisions(q),
                                            model |-> justified]}
    BY <1>5, <1>6, Zenon DEF Assign
  <2>4. /\ Abs(e.lit) \in Vars(q) /\ q.info[Abs(e.lit)].active
        /\ q.info[Abs(e.lit)].assignment = 0
    BY <1>3, <1>5, <2>1
  <2>5. Good(s') /\ Search(s', inSearch, lag, ignored', justified)
    <3> HIDE <1>2, <1>6
    <3>1. ASSUME NEW lit \in Int, lit = e.lit
          PROVE  Good(s') /\ Search(s', inSearch, lag, ignored', justified)
      <4>1. /\ Abs(lit) \in Vars(q) /\ q.info[Abs(lit)].active
            /\ q.info[Abs(lit)].assignment = 0 /\ s' = NotifyAssignment(q, lit)
        BY <2>3, <2>4, <3>1, Zenon
      <4>2. ignored' = IF ~q.found THEN ignored
                       ELSE ignored \union {[lit |-> lit, level |-> Decisions(q),
                                             model |-> justified]}
        BY <2>3, <3>1, Zenon
      <4> HIDE <2>3, <3>1
      <4> QED
        BY <1>3, <1>4, <2>2, <4>1, <4>2, AssignStep, ZenonT(60)
    <3> QED
      BY <1>3, <3>1, Zenon
  <2> QED
    BY <1>1, <1>6, <2>5, Zenon DEF IInv, Searching
<1>7. CASE s' = q /\ ignored' = ignored /\ justified' = justified
  BY <1>1, <1>3, <1>4, <1>7, Zenon DEF IInv, Searching
<1>8. CASE /\ s' = [q EXCEPT !.db = @ \union
                     {Guard(s, ClauseUserLevel(s, Explanation(e))) \union Explanation(e)}]
           /\ ignored' = ignored /\ justified' = justified
  <2>1. Good(s') /\ SameButClauses(q, s')
    BY <1>3, <1>8, IInvParts, ReasonStored, Zenon
  <2>2. Extended(q, s')
    BY <2>1, ExtendedSame, Zenon
  <2>3. Search(s', inSearch, lag, ignored, justified)
    BY <1>3, <1>4, <1>5, <2>2, SearchExtended, Zenon
  <2> QED
    BY <1>1, <1>8, <2>1, <2>3, Zenon DEF IInv, Searching
<1> QED
  BY <1>2, <1>6, <1>7, <1>8, Zenon

LEMMA UnobservedIs ==
    ASSUME NEW p, Good(p), NEW cond, NEW q, q = Check(p, "unobserved", cond)
    PROVE  SameButFlags(p, q) /\ q.found = p.found
<1>1. Typed(p) /\ p.failed \subseteq {"unobserved"}
  BY DEF Good
<1>2. CASE q = p
  BY <1>1, <1>2, Zenon DEF SameButFlags
<1>3. CASE q = [p EXCEPT !.failed = @ \union {"unobserved"}]
  <2>1. /\ Shape(q) /\ q.found = p.found
        /\ q.info = p.info /\ q.activeVars = p.activeVars /\ q.control = p.control
        /\ q.activation = p.activation /\ q.renotify = p.renotify
        /\ q.assignments = p.assignments /\ q.asgControl = p.asgControl
        /\ q.propagations = p.propagations /\ q.newClauses = p.newClauses
        /\ q.told = p.told /\ q.db = p.db
        /\ q.failed = p.failed \union {"unobserved"}
    BY <1>1, <1>3 DEF Typed, Shape, Fields
  <2>2. Typed(q)
    BY <1>1, <2>1, Zenon DEF Typed
  <2>3. q.failed \subseteq {"unobserved"}
    BY <1>1, <2>1
  <2> QED
    BY <2>1, <2>2, <2>3, Zenon DEF SameButFlags
<1>4. q = p \/ q = [p EXCEPT !.failed = @ \union {"unobserved"}]
  BY Zenon DEF Check
<1> QED
  BY <1>2, <1>3, <1>4, Zenon

LEMMA HandedFields ==
    ASSUME NEW p, Typed(p), NEW db \in SUBSET SUBSET Int, NEW rest \in Seq(SUBSET Int),
           NEW q, q = Handing(p, db, rest)
    PROVE  SameButClauses(p, q) /\ q.newClauses = rest /\ q.db = db
<1>1. /\ Shape(q) /\ q.db = db /\ q.newClauses = rest
      /\ q.info = p.info /\ q.activeVars = p.activeVars /\ q.control = p.control
      /\ q.activation = p.activation /\ q.renotify = p.renotify
      /\ q.assignments = p.assignments /\ q.asgControl = p.asgControl
      /\ q.propagations = p.propagations /\ q.found = p.found /\ q.told = p.told
      /\ q.failed = p.failed
  BY DEF Handing, Typed, Shape, Fields
<1> QED
  BY <1>1, Zenon DEF SameButClauses, Typed

LEMMA HandedGood ==
    ASSUME NEW p, Good(p), p.newClauses # <<>>,
           NEW q, q = Handing(p, Store(p.db, Head(p.newClauses)), Tail(p.newClauses))
    PROVE  Good(q) /\ SameButClauses(p, q)
<1>1. PICK list, db, c, rest :
         /\ list = p.newClauses /\ c = Head(list) /\ rest = Tail(list)
         /\ db = Store(p.db, c)
  OBVIOUS
<1>2. Typed(p) /\ ClausesGuarded(p)
  BY DEF Good
<1>3. list \in Seq(SUBSET Int) /\ list # <<>> /\ p.db \in SUBSET SUBSET Int
  BY <1>1, <1>2 DEF Typed
<1>4. /\ c = list[1] /\ 1 \in 1..Len(list) /\ c \in SUBSET Int
      /\ rest \in Seq(SUBSET Int) /\ DOMAIN rest = 1..Len(rest)
      /\ \A i \in 1..Len(rest) : i + 1 \in 1..Len(list) /\ rest[i] = list[i + 1]
      /\ DOMAIN list = 1..Len(list)
  <2>1. c = Head(list) /\ rest = Tail(list)
    BY <1>1
  <2> QED
    BY <1>3, <2>1
<1>5. db \in SUBSET SUBSET Int /\ (db = p.db \/ (db = p.db \union {c} /\ ~Tautology(c)))
  <2>1. db = IF Tautology(c) THEN p.db ELSE p.db \union {c}
    BY <1>1, Zenon DEF Store, Tautology
  <2> QED
    BY <1>3, <1>4, <2>1
<1>6. q = Handing(p, db, rest)
  BY <1>1, Zenon
<1>7. SameButClauses(p, q) /\ q.newClauses = rest /\ q.db = db
  <2>1. ASSUME NEW x \in SUBSET SUBSET Int, NEW y \in Seq(SUBSET Int), q = Handing(p, x, y)
        PROVE  SameButClauses(p, q) /\ q.newClauses = y /\ q.db = x
    <3>1. Typed(p)
      BY <1>2
    <3> QED
      BY ONLY <2>1, <3>1, x \in SUBSET SUBSET Int, y \in Seq(SUBSET Int), HandedFields, SMTT(60)
  <2> QED
    BY <1>4, <1>5, <1>6, <2>1, Zenon
<1>8. \A i \in 1..Len(list) : Tautology(list[i]) \/ Guarded(p, list[i])
  <2>1. \A i \in DOMAIN p.newClauses :
           Tautology(p.newClauses[i]) \/ Guarded(p, p.newClauses[i])
    BY <1>2, Zenon DEF ClausesGuarded
  <2> QED
    BY <1>1, <1>4, <2>1, Zenon
<1>9. q.info = p.info /\ Vars(q) = Vars(p)
  BY <1>7 DEF SameButClauses, Vars
<1>10. \A d : Guarded(p, d) => Guarded(q, d)
  BY <1>9 DEF Guarded
<1> HIDE <1>1, <1>6
<1>11. \A i \in DOMAIN rest : Tautology(rest[i]) \/ Guarded(q, rest[i])
  BY <1>4, <1>8, <1>10
<1>12. ASSUME NEW d \in db
       PROVE  Guarded(q, d) \/ \E v \in Vars(q) : ~q.info[v].active /\ d = {v}
  <2>1. CASE d \in p.db
    BY <1>2, <1>9, <1>10, <2>1 DEF ClausesGuarded
  <2>2. CASE d = c /\ ~Tautology(c)
    BY <1>4, <1>8, <1>10, <2>2
  <2> QED
    BY <1>5, <2>1, <2>2
<1>13. ClausesGuarded(q)
  BY <1>7, <1>11, <1>12 DEF ClausesGuarded
<1> QED
  BY <1>7, <1>13, ClauseGood

LEMMA CbAddExternalClauseStep ==
    ASSUME IInv, CbAddExternalClause
    PROVE  IInv'
<1>1. /\ s.newClauses # <<>> /\ inSearch' = inSearch /\ lag' = lag
      /\ ignored' = ignored /\ justified' = justified
  BY Zenon DEF CbAddExternalClause
<1>2. PICK x : x = Check(s, "unobserved",
                         \A lit \in Head(s.newClauses) : s.info[Abs(lit)].active)
  OBVIOUS
<1>3. SameButFlags(s, x) /\ x.found = s.found
  BY <1>2, IInvParts, UnobservedIs, Zenon
<1>4. Good(x)
  BY <1>3, IInvParts, FlagGood, Zenon
<1>5. /\ x.newClauses = s.newClauses /\ x.db = s.db /\ x.renotify = s.renotify
      /\ x.asgControl = s.asgControl /\ x.control = s.control /\ x.told = s.told
  BY <1>3 DEF SameButFlags
<1>6. s' = Handing(x, Store(x.db, Head(x.newClauses)), Tail(x.newClauses))
  <2>1. s' = [x EXCEPT !.db = Store(@, Head(s.newClauses)), !.newClauses = Tail(@)]
    BY <1>2, Zenon DEF CbAddExternalClause
  <2> QED
    BY <1>5, <2>1, Zenon DEF Handing
<1>7. Good(s') /\ SameButClauses(x, s')
  BY <1>1, <1>4, <1>5, <1>6, HandedGood, Zenon
<1>8. /\ s'.renotify = s.renotify /\ s'.asgControl = s.asgControl
      /\ UserLevel(s') = UserLevel(s) /\ s'.found = s.found /\ s'.told = s.told
  BY <1>3, <1>5, <1>7 DEF SameButClauses, UserLevel
<1>9. ~s.found
  BY <1>1, IInvParts, SearchParts, Zenon
<1>10. \A i \in 1..Len(s.told) : s.told[i] \subseteq s'.told[i]
  BY <1>8
<1>11. Search(s', inSearch, lag, ignored, justified)
  <2>1. (s'.found <=> s.found) /\ (s.found => s'.newClauses = <<>>) /\ ignored \subseteq ignored
    BY <1>8, <1>9
  <2> HIDE <1>1, <1>2, <1>6
  <2> QED
    BY <1>8, <1>10, <2>1, IInvParts, SearchKept, ZenonT(60)
<1> QED
  BY <1>1, <1>7, <1>11, Zenon DEF IInv, Searching

LEMMA CheckFoundSame ==
    ASSUME NEW p, p.found, NEW r \in CheckFoundModel(p)
    PROVE  r.p = p
<1>1. r = [p |-> p, ok |-> TRUE, new |-> {}]
  BY Zenon DEF CheckFoundModel
<1> QED
  BY <1>1, AnswerFields, Zenon

LEMMA CbCheckFoundModelStep ==
    ASSUME IInv, CbCheckFoundModel
    PROVE  IInv'
<1>1. PICK r \in CheckFoundModel(s) :
         IF r.ok THEN EndSolve(Check(r.p, "done", r.p.newClauses = <<>>))
         ELSE /\ s' = r.p /\ inSearch' = inSearch /\ ignored' = ignored
              /\ lag' = lag /\ justified' = justified
  BY Zenon DEF CbCheckFoundModel
<1>2. Checked(s, r)
  BY IInvParts, CheckFoundGood, Zenon
<1>3. Good(r.p) /\ Extended(s, r.p) /\ (r.ok => (s.found /\ r.p = s) \/ r.p.newClauses = <<>>)
  BY <1>2, Zenon DEF Checked
<1>4. s.found => s.asgControl # <<>> /\ s.newClauses = <<>>
  BY IInvParts, SearchParts, Zenon
<1>5. s.found => r.p = s
  BY CheckFoundSame, Zenon
<1>6. r.p.asgControl = s.asgControl /\ r.p.found = s.found
  BY <1>3, Zenon DEF Extended
<1>7. CASE r.ok
  <2>1. r.p.newClauses = <<>>
    BY <1>3, <1>4, <1>7, Zenon
  <2>2. Check(r.p, "done", r.p.newClauses = <<>>) = r.p
    BY <2>1, Zenon DEF Check
  <2>3. EndSolve(r.p)
    BY <1>1, <1>7, <2>2, Zenon
  <2>4. r.p.found => r.p.asgControl # <<>>
    BY <1>4, <1>6, Zenon
  <2> QED
    BY <1>3, <2>3, <2>4, EndStep, Zenon
<1>8. CASE ~r.ok
  <2>1. /\ s' = r.p /\ inSearch' = inSearch /\ ignored' = ignored
        /\ lag' = lag /\ justified' = justified
    BY <1>1, <1>8, Zenon
  <2>2. s.found => r.p.newClauses = <<>>
    BY <1>4, <1>5, Zenon
  <2>3. Search(r.p, inSearch, lag, ignored, justified)
    BY <1>3, <2>2, IInvParts, SearchExtended, Zenon
  <2> QED
    BY <1>3, <2>1, <2>3, Zenon DEF IInv, Searching
<1> QED
  BY <1>7, <1>8, Zenon

LEMMA FixAnyStep ==
    ASSUME IInv, NEW v \in Active(s), Fix(v) \/ Fix(-v)
    PROVE  IInv'
<1>1. Typed(s)
  BY IInvParts DEF Good
<1>2. v \in Vars(s) /\ v \in Nat /\ Vars(s) \subseteq Nat
  BY <1>1, Types DEF Active, Vars
<1>3. v \in Int /\ -v \in Int /\ Abs(v) = v /\ Abs(-v) = v
  BY <1>2, AbsFacts
<1>4. CASE Fix(v)
  BY <1>2, <1>3, <1>4, FixStep, Zenon
<1>5. CASE Fix(-v)
  <2>1. PICK lit \in Int : lit = -v
    BY <1>3
  <2>2. Fix(lit) /\ Abs(lit) \in Vars(s)
    BY <1>2, <1>3, <1>5, <2>1, Zenon
  <2> QED
    BY <2>2, FixStep, Zenon
<1> QED
  BY <1>4, <1>5

LEMMA NextStep ==
    ASSUME IInv, [Next]_vars
    PROVE  IInv'
<1>1. CASE NewVar
  BY <1>1, NewVarStep, Zenon
<1>2. CASE \E c \in Clauses(s) : AssertClause(c)
  BY <1>2, AssertClauseStep, Zenon
<1>3. CASE Push
  BY <1>3, PushStep, Zenon
<1>4. CASE Pop
  BY <1>4, PopStep, Zenon
<1>5. CASE StartSolve
  BY <1>5, StartSolveStep, Zenon
<1>6. CASE GiveUp
  BY <1>6, GiveUpStep, Zenon
<1>7. CASE LateBacktrack
  BY <1>7, LateBacktrackStep, Zenon
<1>8. CASE DecideActivation
  BY <1>8, DecideActivationStep, Zenon
<1>9. ASSUME NEW lit \in LitsOf(Active(s)), Decide(lit) \/ DecideStopSearch(lit) \/ Propagate(lit)
      PROVE  IInv'
  <2>1. CASE Decide(lit)
    BY <2>1, DecideStep, Zenon
  <2>2. CASE DecideStopSearch(lit)
    BY <2>2, DecideStopSearchStep, Zenon
  <2>3. CASE Propagate(lit)
    BY <2>3, PropagateStep, Zenon
  <2> QED
    BY <1>9, <2>1, <2>2, <2>3, Zenon
<1>10. CASE \E v \in Active(s) : Fix(v) \/ Fix(-v)
  BY <1>10, FixAnyStep, Zenon
<1>11. ASSUME NEW level \in 0..MaxDecisions, BacktrackTo(level)
       PROVE  IInv'
  <2>1. level \in Nat
    BY BoundsAssumption
  <2> QED
    BY <1>11, <2>1, BacktrackToStep, Zenon
<1>12. CASE CbPropagateCheck
  BY <1>12, CbPropagateCheckStep, Zenon
<1>13. CASE CbPropagateNext
  BY <1>13, CbPropagateNextStep, Zenon
<1>14. CASE CbAddExternalClause
  BY <1>14, CbAddExternalClauseStep, Zenon
<1>15. CASE CbCheckFoundModel
  BY <1>15, CbCheckFoundModelStep, Zenon
<1>16. CASE UNCHANGED vars
  <2>1. /\ s' = s /\ inSearch' = inSearch /\ lag' = lag /\ ignored' = ignored
        /\ justified' = justified
    BY <1>16, Zenon DEF vars
  <2> QED
    BY <2>1, Zenon DEF IInv, Searching
<1> QED
  BY <1>1, <1>2, <1>3, <1>4, <1>5, <1>6, <1>7, <1>8, <1>9, <1>10, <1>11, <1>12, <1>13,
     <1>14, <1>15, <1>16, Zenon DEF Next

-----------------------------------------------------------------------------
(* The initial state. *)

LEMMA InitFields ==
    ASSUME NEW b \in BOOLEAN, ~b, NEW p,
           p = [ info |-> <<>>, activeVars |-> <<>>, control |-> <<>>, activation |-> <<>>,
                 renotify |-> <<>>, assignments |-> <<>>, asgControl |-> <<>>,
                 propagations |-> <<>>, newClauses |-> <<>>, found |-> b,
                 told |-> <<{}>>, db |-> {}, failed |-> {} ]
    PROVE  /\ Typed(p)
           /\ p.info = <<>> /\ p.activeVars = <<>> /\ p.control = <<>> /\ p.activation = <<>>
           /\ p.renotify = <<>> /\ p.assignments = <<>> /\ p.asgControl = <<>>
           /\ p.propagations = <<>> /\ p.newClauses = <<>> /\ ~p.found
           /\ p.told = <<{}>> /\ p.db = {} /\ p.failed = {}
<1>1. /\ p.info = <<>> /\ p.activeVars = <<>> /\ p.control = <<>> /\ p.activation = <<>>
      /\ p.renotify = <<>> /\ p.assignments = <<>> /\ p.asgControl = <<>>
      /\ p.propagations = <<>> /\ p.newClauses = <<>> /\ p.found = b
      /\ p.told = <<{}>> /\ p.db = {} /\ p.failed = {}
  OBVIOUS
<1>2. Shape(p)
  BY DEF Shape, Fields
<1>3. \A S : <<>> \in Seq(S)
  OBVIOUS
<1>4. <<{}>> \in Seq(SUBSET Int) /\ {} \in SUBSET SUBSET Int
  OBVIOUS
<1>5. p.found \in BOOLEAN /\ ~p.found
  BY <1>1, Zenon
<1>6. Typed(p)
  BY <1>1, <1>2, <1>3, <1>4, <1>5, Zenon DEF Typed
<1> QED
  BY <1>1, <1>5, <1>6, Zenon

LEMMA EmptyGood ==
    ASSUME NEW p, Typed(p),
           p.info = <<>>, p.activeVars = <<>>, p.control = <<>>, p.activation = <<>>,
           p.renotify = <<>>, p.assignments = <<>>, p.asgControl = <<>>,
           p.propagations = <<>>, p.newClauses = <<>>, ~p.found,
           p.told = <<{}>>, p.db = {}, p.failed = {}
    PROVE  Good(p) /\ Search(p, FALSE, FALSE, {}, {})
<1>1. /\ DOMAIN p.info = {} /\ DOMAIN p.activeVars = {} /\ DOMAIN p.control = {}
      /\ DOMAIN p.activation = {} /\ DOMAIN p.assignments = {} /\ DOMAIN p.asgControl = {}
      /\ DOMAIN p.propagations = {} /\ DOMAIN p.newClauses = {}
  OBVIOUS
<1>2. /\ Len(p.info) = 0 /\ Len(p.control) = 0 /\ Len(p.activation) = 0
      /\ Len(p.assignments) = 0 /\ Len(p.asgControl) = 0 /\ Len(p.propagations) = 0
      /\ Len(p.told) = 1 /\ DOMAIN p.told = {1} /\ p.told[1] = {}
  OBVIOUS
<1>3. Bounded(p)
  BY <1>1, <1>2, BoundsAssumption DEF Bounded, UserLevel, Decisions, Vars
<1>4. Listed(p) /\ Ordered(p) /\ Activations(p)
  BY <1>1, Zenon DEF Listed, Ordered, Activations, Vars
<1>5. Trail(p)
  BY <1>1, Zenon DEF Trail, Vars
<1>6. BaseLen(p) = 0 /\ 1..0 = {}
  BY <1>2 DEF BaseLen
<1>7. Marked(p)
  BY <1>1, <1>6, Zenon DEF Marked, Vars
<1>8. AtomsTo(p, 0) = {} /\ ToSet(p.renotify) = {}
  BY <1>6 DEF AtomsTo, ToSet
<1>9. InStep(p)
  BY <1>1, <1>2, <1>8 DEF InStep
<1>10. ClausesGuarded(p) /\ Pending(p)
  BY <1>1, <1>2 DEF ClausesGuarded, Pending
<1>11. Good(p)
  BY <1>3, <1>4, <1>5, <1>7, <1>9, <1>10 DEF Good
<1>12. Search(p, FALSE, FALSE, {}, {})
  BY Zenon DEF Search, PassedOver
<1> QED
  BY <1>11, <1>12

LEMMA InitGood ==
    ASSUME Init
    PROVE  IInv
<1>1. PICK b \in BOOLEAN : b = FALSE
  BY Zenon
<1>2. s = [ info |-> <<>>, activeVars |-> <<>>, control |-> <<>>, activation |-> <<>>,
            renotify |-> <<>>, assignments |-> <<>>, asgControl |-> <<>>,
            propagations |-> <<>>, newClauses |-> <<>>, found |-> b,
            told |-> <<{}>>, db |-> {}, failed |-> {} ]
  BY <1>1, Zenon DEF Init
<1>3. /\ Typed(s)
      /\ s.info = <<>> /\ s.activeVars = <<>> /\ s.control = <<>> /\ s.activation = <<>>
      /\ s.renotify = <<>> /\ s.assignments = <<>> /\ s.asgControl = <<>>
      /\ s.propagations = <<>> /\ s.newClauses = <<>> /\ ~s.found
      /\ s.told = <<{}>> /\ s.db = {} /\ s.failed = {}
  BY <1>1, <1>2, InitFields, Zenon
<1>4. Good(s) /\ Search(s, FALSE, FALSE, {}, {})
  BY <1>3, EmptyGood, Zenon
<1>5. inSearch = FALSE /\ lag = FALSE /\ ignored = {} /\ justified = {}
  BY Zenon DEF Init
<1> QED
  BY <1>4, <1>5, Zenon DEF IInv, Searching

-----------------------------------------------------------------------------
(* What the invariant says. *)

LEMMA Retyped ==
    ASSUME NEW S, NEW T, NEW q \in Seq(S), \A i \in 1..Len(q) : q[i] \in T
    PROVE  q \in Seq(T)
  OBVIOUS

LEMMA InLits ==
    ASSUME NEW p, Good(p), NEW lit \in Int, Abs(lit) \in Vars(p)
    PROVE  lit \in Lits
<1>1. Abs(lit) \in 1..Len(p.info) /\ Len(p.info) \in Nat /\ Len(p.info) <= MaxVar
  BY Types DEF Good, Bounded, Vars
<1>2. PICK n \in Nat : n = Len(p.info)
  BY <1>1
<1>3. Abs(lit) <= n /\ n <= MaxVar /\ MaxVar \in Nat
  BY <1>1, <1>2, BoundsAssumption
<1> QED
  BY <1>3 DEF Lits, Abs

LEMMA TrailLits ==
    ASSUME NEW p, Good(p)
    PROVE  /\ p.assignments \in Seq(Lits)
           /\ \A n \in Nat : n <= Len(p.assignments) => AtomsTo(p, n) \subseteq Lits
<1>1. p.assignments \in Seq(Int) /\ DOMAIN p.assignments = 1..Len(p.assignments)
  <2>1. p.assignments \in Seq(Int)
    BY DEF Good, Typed
  <2> QED
    BY <2>1
<1>2. ASSUME NEW i \in 1..Len(p.assignments)
      PROVE  p.assignments[i] \in Lits
  <2>1. p.assignments[i] \in Int /\ Abs(p.assignments[i]) \in Vars(p)
    BY <1>1 DEF Good, Trail
  <2> QED
    BY <2>1, InLits, Zenon
<1>3. p.assignments \in Seq(Lits)
  BY <1>1, <1>2, Retyped, Zenon
<1>4. \A n \in Nat : n <= Len(p.assignments) => AtomsTo(p, n) \subseteq Lits
  BY <1>1, <1>2 DEF AtomsTo
<1> QED
  BY <1>3, <1>4

LEMMA VarTypes ==
    ASSUME NEW p, Good(p), NEW v \in Vars(p)
    PROVE  /\ p.info[v].intro \in 0..MaxUserLevel /\ p.info[v].fixedAt \in 0..MaxUserLevel
           /\ p.info[v].assignment \in {0, v, -v}
           /\ {p.info[v].atom, p.info[v].fixed, p.info[v].active} \subseteq BOOLEAN
<1>1. p.info[v] \in VarInfo
  BY DEF Good, Typed, Vars
<1>2. PICK x \in VarInfo : x = p.info[v]
  BY <1>1
<1>3. /\ x.intro \in Nat /\ x.fixedAt \in Nat
      /\ x.atom \in BOOLEAN /\ x.fixed \in BOOLEAN /\ x.active \in BOOLEAN
  BY DEF VarInfo
<1>4. x.intro <= MaxUserLevel /\ x.fixedAt <= MaxUserLevel
  BY <1>2 DEF Good, Bounded
<1>5. x.intro \in 0..MaxUserLevel /\ x.fixedAt \in 0..MaxUserLevel
  BY <1>3, <1>4, BoundsAssumption
<1>6. {x.atom, x.fixed, x.active} \subseteq BOOLEAN
  BY <1>3, Zenon
<1>7. p.info[v].assignment \in {0, v, -v}
  BY DEF Good, Trail
<1> QED
  BY <1>2, <1>5, <1>6, <1>7, Zenon

LEMMA ActiveListed ==
    ASSUME NEW p, Good(p)
    PROVE  ToSet(p.activeVars) = Active(p)
<1>1. /\ \A i \in DOMAIN p.activeVars : /\ p.activeVars[i] \in Vars(p)
                                        /\ p.info[p.activeVars[i]].active
      /\ \A v \in Vars(p) : p.info[v].active =>
            \E i \in DOMAIN p.activeVars : p.activeVars[i] = v
  BY Zenon DEF Good, Listed
<1>2. ToSet(p.activeVars) \subseteq Active(p)
  BY <1>1, Zenon DEF ToSet, Active
<1>3. Active(p) \subseteq ToSet(p.activeVars)
  BY <1>1, Zenon DEF ToSet, Active
<1> QED
  BY <1>2, <1>3

LEMMA ControlTypes ==
    ASSUME NEW p, Good(p)
    PROVE  /\ p.control \in Seq(0..Len(p.activeVars))
           /\ p.asgControl \in Seq(0..Len(p.assignments))
           /\ p.activation \in Seq(Active(p)) /\ Len(p.activation) = UserLevel(p)
<1>1. /\ p.control \in Seq(Nat) /\ p.asgControl \in Seq(Nat) /\ p.activation \in Seq(Nat)
      /\ DOMAIN p.control = 1..Len(p.control) /\ DOMAIN p.asgControl = 1..Len(p.asgControl)
      /\ DOMAIN p.activation = 1..Len(p.activation)
  BY Types DEF Good, Typed
<1>2. Len(p.activeVars) \in Nat /\ Len(p.assignments) \in Nat
  BY Types DEF Good
<1>3. \A k \in 1..Len(p.control) : p.control[k] \in 0..Len(p.activeVars)
  <2> TAKE k \in 1..Len(p.control)
  <2>1. p.control[k] \in Nat /\ p.control[k] <= Len(p.activeVars)
    BY <1>1 DEF Good, Ordered
  <2> QED
    BY <1>2, <2>1
<1>4. \A j \in 1..Len(p.asgControl) : p.asgControl[j] \in 0..Len(p.assignments)
  <2> TAKE j \in 1..Len(p.asgControl)
  <2>1. p.asgControl[j] \in Nat /\ p.asgControl[j] <= Len(p.assignments)
    BY <1>1 DEF Good, Marked
  <2> QED
    BY <1>2, <2>1
<1>5. \A k \in 1..Len(p.activation) : p.activation[k] \in Active(p)
  BY <1>1 DEF Good, Activations, Active
<1>6. p.control \in Seq(0..Len(p.activeVars)) /\ p.asgControl \in Seq(0..Len(p.assignments))
  BY <1>1, <1>3, <1>4, Retyped, Zenon
<1>7. p.activation \in Seq(Active(p))
  BY <1>1, <1>5, Retyped, Zenon
<1> QED
  BY <1>6, <1>7, Zenon DEF Good, Bounded

LEMMA ToldTypes ==
    ASSUME NEW p, Good(p)
    PROVE  p.renotify \in Seq(Lits) /\ p.told \in Seq(SUBSET Lits)
<1>1. /\ p.told \in Seq(SUBSET Int) /\ DOMAIN p.told = 1..Len(p.told)
      /\ p.renotify \in Seq(Int) /\ DOMAIN p.renotify = 1..Len(p.renotify)
      /\ Len(p.assignments) \in Nat /\ Len(p.told) \in Nat
  BY Types DEF Good, Typed
<1>2. AtomsTo(p, Len(p.assignments)) \subseteq Lits
  BY SMTT(30), <1>1, TrailLits
<1>3. /\ p.told[Len(p.told)] \union ToSet(p.renotify) = AtomsTo(p, Len(p.assignments))
      /\ \A i, j \in DOMAIN p.told : i <= j => p.told[i] \subseteq p.told[j]
  BY Zenon DEF Good, InStep
<1>4. p.told[Len(p.told)] \subseteq Lits /\ ToSet(p.renotify) \subseteq Lits
  BY <1>2, <1>3
<1>5. \A i \in 1..Len(p.told) : p.told[i] \in SUBSET Lits
  <2> TAKE i \in 1..Len(p.told)
  <2>1. i <= Len(p.told) /\ Len(p.told) \in 1..Len(p.told)
    BY <1>1
  <2> QED
    BY <1>1, <1>3, <1>4, <2>1
<1>6. \A i \in 1..Len(p.renotify) : p.renotify[i] \in Lits
  BY <1>1, <1>4 DEF ToSet
<1>7. p.told \in Seq(SUBSET Lits)
  BY <1>1, <1>5, Retyped, Zenon
<1>8. p.renotify \in Seq(Lits)
  BY <1>1, <1>6, Retyped, Zenon
<1> QED
  BY <1>7, <1>8

LEMMA InvAsserts ==
    ASSUME IInv
    PROVE  AssertsHold
<1>1. Good(s) /\ inSearch \in BOOLEAN /\ lag \in BOOLEAN
  BY IInvParts, Zenon
<1>2. Len(s.info) <= MaxVar /\ s.failed \subseteq {"unobserved"}
  BY <1>1, Zenon DEF Good, Bounded
<1>3. {inSearch, lag} \subseteq BOOLEAN
  BY <1>1, Zenon
<1>4. TypeOK
  BY <1>1, <1>2, <1>3, VarTypes, ActiveListed, ControlTypes, ToldTypes, TrailLits, Zenon
     DEF TypeOK
<1> QED
  BY <1>2, <1>4, Zenon DEF AssertsHold

LEMMA KnownIs ==
    ASSUME NEW p, Good(p)
    PROVE  /\ DOMAIN p.told = 1..Len(p.told) /\ Len(p.told) = 1 + UserLevel(p) + Decisions(p)
           /\ UserLevel(p) \in Nat /\ Decisions(p) \in Nat /\ Known(p) = p.told[Len(p.told)]
<1>1. p.told \in Seq(SUBSET Int)
  BY DEF Good, Typed
<1>2. /\ DOMAIN p.told = 1..Len(p.told) /\ Len(p.told) = 1 + UserLevel(p) + Decisions(p)
      /\ UserLevel(p) \in Nat /\ Decisions(p) \in Nat
  BY Types DEF Good, Bounded
<1>3. p.told # <<>>
  BY <1>2
<1> QED
  BY <1>1, <1>2, <1>3, LastIs, Zenon DEF Known

LEMMA InvInSync ==
    ASSUME IInv
    PROVE  TheoryInSync
<1>1. Good(s) /\ (inSearch => s.renotify = <<>>)
  BY IInvParts, Zenon DEF Search
<1>2. Len(s.told) = 1 + UserLevel(s) + Decisions(s)
  BY <1>1, Zenon DEF Good, Bounded
<1>3. DOMAIN s.assignments = 1..Len(s.assignments)
  BY <1>1, Types DEF Good
<1>4. Known(s) = s.told[Len(s.told)]
  BY <1>1, KnownIs, Zenon
<1>5. ASSUME inSearch
      PROVE  Known(s) = {lit \in ToSet(s.assignments) : s.info[Abs(lit)].atom}
  <2>1. ToSet(s.renotify) = {}
    BY <1>1, <1>5 DEF ToSet
  <2>2. s.told[Len(s.told)] \union ToSet(s.renotify) = AtomsTo(s, Len(s.assignments))
    BY <1>1, Zenon DEF Good, InStep
  <2>3. AtomsTo(s, Len(s.assignments)) = {lit \in ToSet(s.assignments) : s.info[Abs(lit)].atom}
    BY <1>3, Zenon DEF AtomsTo, ToSet
  <2> QED
    BY <1>4, <2>1, <2>2, <2>3
<1> QED
  BY <1>2, <1>5, Zenon DEF TheoryInSync

LEMMA InvJustified ==
    ASSUME IInv
    PROVE  PropagationsJustified
<1>1. Good(s)
  BY IInvParts, Zenon
<1>2. Known(s) = s.told[Len(s.told)]
  BY <1>1, KnownIs, Zenon
<1>3. \A i \in DOMAIN s.propagations : s.propagations[i].why \in s.told[Len(s.told)]
  BY <1>1, Zenon DEF Good, Pending
<1> QED
  BY <1>2, <1>3, Zenon DEF PropagationsJustified, ToSet

LEMMA InvModelStands ==
    ASSUME IInv
    PROVE  PartialModelStands
<1>1. Good(s) /\ Search(s, inSearch, lag, ignored, justified)
  BY IInvParts, Zenon
<1>2. /\ DOMAIN s.told = 1..Len(s.told) /\ Len(s.told) = 1 + UserLevel(s) + Decisions(s)
      /\ UserLevel(s) \in Nat /\ Decisions(s) \in Nat
  BY <1>1, KnownIs, Zenon
<1>3. Known(s) = s.told[Len(s.told)]
  BY <1>1, KnownIs, Zenon
<1>4. s.found => justified \subseteq Known(s)
  BY <1>1, <1>3, ModelKnown, Zenon
<1>5. ASSUME NEW i \in ignored
      PROVE  i.model \subseteq Known(s)
  <2>1. i.level \in 1..Decisions(s) /\ i.model \subseteq s.told[UserLevel(s) + i.level]
    BY <1>1, Zenon DEF Search, PassedOver
  <2>2. PICK n : n = UserLevel(s) + i.level
    OBVIOUS
  <2>3. n \in DOMAIN s.told /\ Len(s.told) \in DOMAIN s.told /\ n <= Len(s.told)
    BY SMTT(30), <1>2, <2>1, <2>2
  <2>4. \A a, b \in DOMAIN s.told : a <= b => s.told[a] \subseteq s.told[b]
    BY <1>1, Zenon DEF Good, InStep
  <2>5. s.told[UserLevel(s) + i.level] \subseteq s.told[Len(s.told)]
    BY <2>2, <2>4, <2>3, Zenon
  <2> QED
    BY <1>3, <2>1, <2>5
<1> QED
  BY <1>4, <1>5, Zenon DEF PartialModelStands

-----------------------------------------------------------------------------
(* The theorems. *)

\* In every reachable state the inductive invariant holds: it is what the record of
\* the propagator is after any sequence of callbacks and calls.
THEOREM Invariance == Spec => []IInv
<1>1. Init => IInv
  BY InitGood
<1>2. IInv /\ [Next]_vars => IInv'
  BY NextStep
<1> QED
  BY <1>1, <1>2, PTL DEF Spec

\* No Assert of the propagator fails, however CaDiCaL's callbacks, pushes and pops
\* follow one another: no literal is assigned both ways or fixed twice, user_pop
\* finds no decision and only fixed literals above the level, clauses and fixed
\* values are over active variables, and sat leaves no clause behind.
THEOREM NoAssertFails == Spec => []AssertsHold
<1>1. IInv => AssertsHold
  BY InvAsserts
<1> QED
  BY <1>1, Invariance, PTL

\* During a search the theories have been told exactly the observed atoms with a
\* value on d_assignments, over every notify_backtrack, user_pop and renotify_fixed,
\* and the SAT context has a level per user level and decision.
THEOREM TheoryToldTrail == Spec => []TheoryInSync
<1>1. IInv => TheoryInSync
  BY InvInSync
<1> QED
  BY <1>1, Invariance, PTL

\* Whatever is on d_propagations rests on a literal the theories still know, so that
\* cb_add_reason_clause_lit can have it explained.
THEOREM ExplanationsKnown == Spec => []PropagationsJustified
<1>1. IInv => PropagationsJustified
  BY InvJustified
<1> QED
  BY <1>1, Invariance, PTL

\* d_found_solution, and the literals notify_assignment skipped because of it, never
\* outlive the trail for which the theories accepted the partial model.
THEOREM ModelOutlivesNothing == Spec => []PartialModelStands
<1>1. IInv => PartialModelStands
  BY InvModelStands
<1> QED
  BY <1>1, Invariance, PTL

-----------------------------------------------------------------------------
(* What the clauses say.  Meets keeps the signs of literals out of sight of *)
(* what follows.                                                            *)

\* A valuation satisfies a set of clauses if it meets each of them.
LEMMA SatisfiesIs ==
    ASSUME NEW m, NEW cs
    PROVE  Satisfies(m, cs) <=> \A c \in cs : Meets(m, c)
  BY Zenon DEF Satisfies, Meets

\* A weaker clause is met.
LEMMA MeetsMore ==
    ASSUME NEW m, NEW c, NEW d, c \subseteq d, Meets(m, c)
    PROVE  Meets(m, d)
  BY Zenon DEF Meets

\* A clause is met by the value of the variable of a positive literal.
LEMMA MeetsPositive ==
    ASSUME NEW V \in SUBSET Nat, NEW m \in [V -> BOOLEAN], NEW c, NEW v \in c,
           v \in V, v > 0, m[v]
    PROVE  Meets(m, c)
<1>1. Abs(v) = v
  BY DEF Abs
<1>2. m[v] = (v > 0)
  <2>1. m[v] \in BOOLEAN
    BY Zenon
  <2>2. m[v] = TRUE /\ (v > 0) = TRUE
    BY <2>1, Zenon
  <2> QED
    BY <2>2, Zenon
<1> QED
  BY <1>1, <1>2, Zenon DEF Meets

\* A clause with a literal and its negation is met by every valuation.
LEMMA MeetsTautology ==
    ASSUME NEW V \in SUBSET Nat, NEW m \in [V -> BOOLEAN], NEW c, NEW lit \in c,
           lit \in Int, lit # 0, -lit \in c, Abs(lit) \in V
    PROVE  Meets(m, c)
<1>1. Abs(-lit) = Abs(lit) /\ (lit > 0 <=> ~(-lit > 0))
  BY DEF Abs
<1>2. m[Abs(lit)] \in BOOLEAN
  BY Zenon
<1>3. CASE m[Abs(lit)] = (lit > 0)
  BY <1>3, Zenon DEF Meets
<1>4. CASE m[Abs(lit)] # (lit > 0)
  <2>1. CASE lit > 0
    <3>0. lit > 0 /\ ~(-lit > 0)
      BY <1>1, <2>1
    <3>1. (lit > 0) = TRUE /\ (-lit > 0) = FALSE
      BY <3>0, SMT
    <3>2. m[Abs(lit)] = FALSE
      BY <1>2, <1>4, <3>1, Zenon
    <3> QED
      BY <1>1, <3>1, <3>2, Zenon DEF Meets
  <2>2. CASE ~(lit > 0)
    <3>0. ~(lit > 0) /\ -lit > 0
      BY <1>1, <2>2
    <3>1. (lit > 0) = FALSE /\ (-lit > 0) = TRUE
      BY <3>0, SMT
    <3>2. m[Abs(lit)] = TRUE
      BY <1>2, <1>4, <3>1, Zenon
    <3> QED
      BY <1>1, <3>1, <3>2, Zenon DEF Meets
  <2> QED
    BY <2>1, <2>2, Zenon
<1> QED
  BY <1>3, <1>4, Zenon

\* Only the variables of a clause matter.
LEMMA MeetsSame ==
    ASSUME NEW c, NEW m, NEW n, \A lit \in c : m[Abs(lit)] = n[Abs(lit)], Meets(m, c)
    PROVE  Meets(n, c)
  BY Zenon DEF Meets

\* A clause with a positive literal that is false says what the rest says.
LEMMA MeetsRest ==
    ASSUME NEW V \in SUBSET Nat, NEW m \in [V -> BOOLEAN], NEW a \in V, a > 0, ~m[a],
           NEW c, Meets(m, {a} \union c)
    PROVE  Meets(m, c)
<1>1. Abs(a) = a
  BY DEF Abs
<1>2. m[a] # (a > 0)
  <2>1. m[a] \in BOOLEAN
    BY Zenon
  <2>2. m[a] = FALSE /\ (a > 0) = TRUE
    BY <2>1, Zenon
  <2> QED
    BY <2>2, Zenon
<1> QED
  BY <1>1, <1>2, Zenon DEF Meets

\* The variables are numbers.
LEMMA VarsNat ==
    ASSUME NEW p, Typed(p)
    PROVE  Vars(p) \in SUBSET Nat /\ Vars(p) = 1..Len(p.info) /\ \A v \in Vars(p) : v > 0
<1>1. Vars(p) = 1..Len(p.info) /\ Len(p.info) \in Nat
  BY Types
<1> QED
  BY <1>1

LEMMA Narrowed ==
    ASSUME NEW p, NEW q, Vars(p) \subseteq Vars(q), NEW m \in Valuations(q)
    PROVE  \E r : Narrow(p, m, r)
<1>0. PICK r : r = [v \in Vars(p) |-> m[v]]
  BY Zenon
<1>1. r \in Valuations(p) /\ \A v \in Vars(p) : r[v] = m[v]
  BY <1>0, Zenon DEF Valuations
<1>2. ASSUME NEW c, \A lit \in c : Abs(lit) \in Vars(p)
      PROVE  Meets(r, c) <=> Meets(m, c)
  <2>1. \A lit \in c : r[Abs(lit)] = m[Abs(lit)]
    BY <1>1, <1>2, Zenon
  <2> QED
    BY <2>1, MeetsSame, Zenon
<1> QED
  BY <1>1, <1>2, Zenon DEF Narrow

\* Every clause of p is within p.
LEMMA SourcedWithin ==
    ASSUME NEW p, NEW A, NEW L, Sourced(p, A, L), NEW g \in AllClauses(p)
    PROVE  \A lit \in g : Abs(lit) \in Vars(p)
  BY Zenon DEF Sourced, Within

\* What followed follows when more is said.
LEMMA FollowsOn ==
    ASSUME NEW p, NEW q, Stronger(p, q), NEW A, NEW L, Sourced(p, A, L), NEW c, NEW n \in Nat,
           \A lit \in c : Abs(lit) \in Vars(p), Follows(p, c, n),
           \A k \in 1..n : q.activation[k] = p.activation[k] /\ p.activation[k] \in Vars(p)
    PROVE  Follows(q, c, n)
<1> SUFFICES ASSUME NEW m \in Valuations(q), Satisfies(m, AllClauses(q)), Closing(q, m, n)
             PROVE  Meets(m, c)
  BY Zenon DEF Follows
<1>1. PICK r : Narrow(p, m, r)
  <2>1. Vars(p) \subseteq Vars(q)
    BY Zenon DEF Stronger
  <2> QED
    BY <2>1, Narrowed, Zenon
<1>2. /\ r \in Valuations(p)
      /\ \A v \in Vars(p) : r[v] = m[v]
      /\ \A d : (\A lit \in d : Abs(lit) \in Vars(p)) => (Meets(r, d) <=> Meets(m, d))
  BY <1>1, Zenon DEF Narrow
<1>3. \A g \in AllClauses(p) : Meets(r, g)
  BY <1>2, SourcedWithin, Zenon DEF Stronger
<1>4. Satisfies(r, AllClauses(p))
  BY <1>3, SatisfiesIs, Zenon
<1>5. Closing(p, r, n)
  BY <1>2, Zenon DEF Closing
<1>6. Meets(r, c)
  BY <1>2, <1>4, <1>5, Zenon DEF Follows
<1> QED
  BY <1>2, <1>6, Zenon

\* What was entailed is entailed when more is said.
LEMMA FixedOn ==
    ASSUME NEW p, Typed(p), Trail(p), NEW q, Stronger(p, q), NEW A, NEW L, Sourced(p, A, L),
           FixedHold(p), Marked(p), SameFixed(p, q)
    PROVE  FixedHold(q)
<1> SUFFICES ASSUME NEW v \in Vars(q), q.info[v].fixed, q.info[v].active,
                    NEW m \in Valuations(q), Satisfies(m, q.db)
             PROVE  Meets(m, {q.info[v].assignment})
  BY Zenon DEF FixedHold
<1>1. PICK r : Narrow(p, m, r)
  <2>1. Vars(p) \subseteq Vars(q)
    BY Zenon DEF Stronger
  <2> QED
    BY <2>1, Narrowed, Zenon
<1>2. /\ r \in Valuations(p)
      /\ \A d : (\A lit \in d : Abs(lit) \in Vars(p)) => (Meets(r, d) <=> Meets(m, d))
  BY <1>1, Zenon DEF Narrow
<1>3. \A g \in p.db : g \in AllClauses(p)
  BY Zenon DEF AllClauses
<1>4. \A g \in p.db : Meets(r, g)
  BY <1>2, <1>3, SourcedWithin, Zenon DEF Stronger
<1>5. Satisfies(r, p.db)
  BY <1>4, SatisfiesIs, Zenon
<1>6. /\ v \in Vars(p) /\ p.info[v].fixed /\ p.info[v].active
      /\ q.info[v].assignment = p.info[v].assignment
  BY Zenon DEF SameFixed
<1>7. Meets(r, {p.info[v].assignment})
  BY <1>2, <1>5, <1>6, Zenon DEF FixedHold
<1>8. Abs(p.info[v].assignment) \in Vars(p)
  <2>1. p.info[v].assignment \in {v, -v} /\ v \in Nat
    BY <1>6, VarsNat DEF Trail, Marked
  <2>2. Abs(p.info[v].assignment) = v
    BY <2>1, AbsFacts
  <2> QED
    BY <1>6, <2>2, Zenon
<1>9. \A lit \in {p.info[v].assignment} : Abs(lit) \in Vars(p)
  BY <1>8, Zenon
<1> QED
  BY <1>2, <1>6, <1>7, <1>9, Zenon

LEMMA UpToKin ==
    ASSUME NEW p, NEW q, Kin(p, q), NEW c, NEW n, UpTo(p, c, n)
    PROVE  UpTo(q, c, n)
  BY Zenon DEF Kin, UpTo, OverAtoms

LEMMA LevelKin ==
    ASSUME NEW p, NEW q, Kin(p, q), NEW c, NEW n, LevelIs(p, c, n)
    PROVE  LevelIs(q, c, n)
<1>1. UpTo(p, c, n) /\ (n = 0 \/ \E lit \in c : p.info[Abs(lit)].intro = n)
  BY Zenon DEF LevelIs
<1>2. UpTo(q, c, n)
  BY <1>1, UpToKin, Zenon
<1>3. \A lit \in c : q.info[Abs(lit)].intro = p.info[Abs(lit)].intro
  BY <1>1, Zenon DEF Kin, UpTo, OverAtoms
<1> QED
  BY <1>1, <1>2, <1>3, Zenon DEF LevelIs

LEMMA OriginMore ==
    ASSUME NEW p, NEW q, Kin(p, q), GuardsIn(p, q), NEW A, NEW L, NEW B, NEW K,
           MoreStated(A, L, B, K, UserLevel(p)), NEW g, Origin(p, A, L, g)
    PROVE  Origin(q, B, K, g)
<1>1. CASE \E v \in g : v \in Vars(p) /\ ~p.info[v].active
  BY <1>1, Zenon DEF Origin, Kin
<1>2. CASE Tautology(g)
  BY <1>2, Zenon DEF Origin
<1>3. CASE \E n \in 0..UserLevel(p) : \E c \in SUBSET g :
             g = Guard(p, n) \union c /\ UpTo(p, c, n) /\ StatedAt(A, L, c, n)
  <2>1. PICK n \in 0..UserLevel(p) : \E c \in SUBSET g :
             g = Guard(p, n) \union c /\ UpTo(p, c, n) /\ StatedAt(A, L, c, n)
    BY <1>3, Zenon
  <2>2. PICK c \in SUBSET g : g = Guard(p, n) \union c /\ UpTo(p, c, n) /\ StatedAt(A, L, c, n)
    BY <2>1, Zenon
  <2>3. Guard(q, n) = Guard(p, n) /\ n \in 0..UserLevel(q)
    BY Zenon DEF GuardsIn
  <2>4. UpTo(q, c, n) /\ StatedAt(B, K, c, n)
    BY <2>2, UpToKin, Zenon DEF MoreStated
  <2>5. g = Guard(q, n) \union c
    BY <2>2, <2>3, Zenon
  <2> QED
    BY <2>3, <2>4, <2>5, Zenon DEF Origin
<1> QED
  BY <1>1, <1>2, <1>3, Zenon DEF Origin

LEMMA OriginKin ==
    ASSUME NEW p, NEW q, Kin(p, q), SameGuards(p, q), NEW A, NEW L, NEW B, NEW K,
           MoreStated(A, L, B, K, UserLevel(p)), NEW g, Origin(p, A, L, g)
    PROVE  Origin(q, B, K, g)
<1>1. GuardsIn(p, q)
  BY Zenon DEF GuardsIn, SameGuards, Guard
<1> QED
  BY <1>1, OriginMore, Zenon

\* All that was stated still follows when more is said.
LEMMA AllFollow ==
    ASSUME NEW p, Good(p), NEW q, Kin(p, q), SameGuards(p, q), Stronger(p, q),
           NEW A, NEW L, Sourced(p, A, L), AssertedFollow(p, A), LemmasFollow(p, L)
    PROVE  AssertedFollow(q, A) /\ LemmasFollow(q, L)
<1>1. Typed(p) /\ Bounded(p) /\ Activations(p)
  BY Zenon DEF Good
<1>2. UserLevel(q) = UserLevel(p)
  BY Zenon DEF SameGuards
<1>3. UserLevel(p) \in Nat /\ \A k \in 1..UserLevel(p) :
         q.activation[k] = p.activation[k] /\ p.activation[k] \in Vars(p)
  <2>1. UserLevel(p) \in Nat /\ DOMAIN p.activation = 1..UserLevel(p)
    BY <1>1, Types DEF Bounded
  <2> QED
    BY <1>1, <2>1, Zenon DEF Activations, SameGuards
<1>4. ASSUME NEW c, NEW n \in 0..UserLevel(p), UpTo(p, c, n), Follows(p, c, n)
      PROVE  Follows(q, c, n)
  <2>1. n \in Nat /\ \A k \in 1..n : k \in 1..UserLevel(p)
    BY <1>3
  <2>2. \A lit \in c : Abs(lit) \in Vars(p)
    BY <1>4, Zenon DEF UpTo, OverAtoms
  <2>3. \A k \in 1..n : q.activation[k] = p.activation[k] /\ p.activation[k] \in Vars(p)
    BY <1>3, <2>1, Zenon
  <2> QED
    BY <1>4, <2>1, <2>2, <2>3, FollowsOn, Zenon
<1>5. AssertedFollow(q, A)
  <2>1. \A i \in 1..UserLevel(p) + 1 : i - 1 \in 0..UserLevel(p)
    BY <1>3
  <2>2. \A i \in 1..UserLevel(p) + 1 : \A c \in A[i] : UpTo(q, c, i - 1) /\ Follows(q, c, i - 1)
    BY <1>4, <2>1, UpToKin, Zenon DEF AssertedFollow
  <2> QED
    BY <1>2, <2>2, Zenon DEF AssertedFollow
<1>6. LemmasFollow(q, L)
  <2> SUFFICES ASSUME NEW c \in L
               PROVE  \E n \in 0..UserLevel(q) : LevelIs(q, c, n) /\ Follows(q, c, n)
    BY Zenon DEF LemmasFollow
  <2>1. PICK n \in 0..UserLevel(p) : LevelIs(p, c, n) /\ Follows(p, c, n)
    BY Zenon DEF LemmasFollow
  <2>2. UpTo(p, c, n)
    BY <2>1, Zenon DEF LevelIs
  <2>3. LevelIs(q, c, n) /\ Follows(q, c, n)
    BY <1>4, <2>1, <2>2, LevelKin, Zenon
  <2> QED
    BY <1>2, <2>3, Zenon
<1> QED
  BY <1>5, <1>6

LEMMA SameMeant ==
    ASSUME NEW p, Good(p), NEW q, SaysSame(p, q), NEW A, NEW L, Meaning(p, A, L)
    PROVE  Stronger(p, q) /\ Sourced(q, A, L) /\ AssertedFollow(q, A) /\ LemmasFollow(q, L)
<1>1. /\ Kin(p, q) /\ SameGuards(p, q)
      /\ Sourced(p, A, L) /\ AssertedFollow(p, A) /\ LemmasFollow(p, L)
  BY Zenon DEF SaysSame, Meaning
<1>2. AllClauses(q) = AllClauses(p) /\ Vars(p) \subseteq Vars(q)
  BY Zenon DEF SaysSame, AllClauses, Kin
<1>3. Stronger(p, q)
  BY <1>2, SatisfiesIs, Zenon DEF SaysSame, Stronger
<1>4. Sourced(q, A, L)
  <2>1. MoreStated(A, L, A, L, UserLevel(p))
    BY Zenon DEF MoreStated
  <2> SUFFICES ASSUME NEW g \in AllClauses(q)
               PROVE  Within(q, g) /\ Origin(q, A, L, g)
    BY Zenon DEF Sourced
  <2>2. Within(p, g) /\ Origin(p, A, L, g)
    BY <1>1, <1>2, Zenon DEF Sourced
  <2>3. Within(q, g)
    BY <1>2, <2>2, Zenon DEF Within
  <2>4. Origin(q, A, L, g)
    BY <1>1, <2>1, <2>2, OriginKin, Zenon
  <2> QED
    BY <2>3, <2>4
<1>5. AssertedFollow(q, A) /\ LemmasFollow(q, L)
  BY <1>1, <1>3, AllFollow, Zenon
<1> QED
  BY <1>3, <1>4, <1>5

\* Nothing is said and nothing fixed.
LEMMA Persists ==
    ASSUME NEW p, Good(p), NEW q, SaysSame(p, q), SameFixed(p, q),
           NEW A, NEW L, Meaning(p, A, L)
    PROVE  Meaning(q, A, L)
<1>1. Typed(p) /\ Trail(p) /\ Marked(p) /\ Sourced(p, A, L) /\ FixedHold(p)
  BY Zenon DEF Good, Meaning
<1>2. Stronger(p, q) /\ Sourced(q, A, L) /\ AssertedFollow(q, A) /\ LemmasFollow(q, L)
  BY SameMeant, Zenon
<1>3. FixedHold(q)
  BY <1>1, <1>2, FixedOn, Zenon
<1> QED
  BY <1>2, <1>3, Zenon DEF Meaning
\* The level of a clause is the one of a literal, or 0.
LEMMA LevelAttained ==
    ASSUME NEW p, Good(p), NEW c, OverAtoms(p, c)
    PROVE  /\ ClauseUserLevel(p, c) = 0 \/ \E lit \in c : ClauseUserLevel(p, c) = p.info[Abs(lit)].intro
           /\ ClauseUserLevel(p, c) \in 0..UserLevel(p)
           /\ \A lit \in c : p.info[Abs(lit)].intro <= ClauseUserLevel(p, c)
<1>1. Typed(p) /\ Listed(p) /\ UserLevel(p) \in Nat
  BY Types DEF Good
<1> DEFINE I == {0} \union IntroLevels(p, c)
<1>2. I \subseteq 0..UserLevel(p) /\ I # {}
  <2>1. \A lit \in c : p.info[Abs(lit)].intro <= UserLevel(p) /\ p.info[Abs(lit)].intro \in Nat
    BY <1>1, Types DEF OverAtoms, Listed
  <2>2. \A lit \in c : p.info[Abs(lit)].intro \in 0..UserLevel(p)
    BY <1>1, <2>1
  <2> QED
    BY <1>1, <2>2 DEF IntroLevels
<1>3. ClauseUserLevel(p, c) = MaxOf(I)
  BY DEF ClauseUserLevel
<1> HIDE DEF I
<1>4. MaxOf(I) \in I
  BY <1>1, <1>2, MaxOfIn
<1>5. ClauseUserLevel(p, c) = 0 \/ \E lit \in c : ClauseUserLevel(p, c) = p.info[Abs(lit)].intro
  BY <1>3, <1>4, Zenon DEF I, IntroLevels
<1> QED
  BY <1>5, ClauseLevel, Zenon

\* Buffering adds one clause to the set.
LEMMA BufferedSet ==
    ASSUME NEW p, Typed(p), NEW q, Typed(q), NEW g, Buffered(p, q, g)
    PROVE  \A d : d \in ToSet(q.newClauses) <=> d \in ToSet(p.newClauses) \/ d = g
<1>1. /\ DOMAIN p.newClauses = 1..Len(p.newClauses) /\ DOMAIN q.newClauses = 1..Len(q.newClauses)
      /\ Len(p.newClauses) \in Nat
  <2>1. p.newClauses \in Seq(SUBSET Int) /\ q.newClauses \in Seq(SUBSET Int)
    BY Zenon DEF Typed
  <2> QED
    BY <2>1
<1>2. /\ Len(q.newClauses) = Len(p.newClauses) + 1
      /\ \A i \in 1..Len(p.newClauses) : q.newClauses[i] = p.newClauses[i]
      /\ q.newClauses[Len(p.newClauses) + 1] = g
  BY Zenon DEF Buffered
<1>3. \A i : i \in DOMAIN q.newClauses <=> i \in DOMAIN p.newClauses \/ i = Len(p.newClauses) + 1
  BY <1>1, <1>2
<1> QED
  BY <1>1, <1>2, <1>3, Zenon DEF ToSet

-----------------------------------------------------------------------------
(* A clause is stated. *)

LEMMA SameKin ==
    ASSUME NEW p, NEW q, SameButClauses(p, q)
    PROVE  /\ Kin(p, q) /\ SameFixed(p, q) /\ SameGuards(p, q)
           /\ UserLevel(q) = UserLevel(p) /\ Vars(q) = Vars(p)
<1>1. Vars(q) = Vars(p) /\ UserLevel(q) = UserLevel(p)
  BY Zenon DEF SameButClauses, Vars, UserLevel
<1> QED
  BY <1>1, Zenon DEF Kin, SameFixed, SameGuards, SameButClauses

\* The activation literals.
LEMMA Guards ==
    ASSUME NEW p, Good(p), NEW n \in 0..UserLevel(p)
    PROVE  /\ n \in Nat /\ UserLevel(p) \in Nat
           /\ \A k \in 1..n : /\ p.activation[k] \in Vars(p) /\ p.activation[k] > 0
                              /\ k \in DOMAIN p.activation /\ k \in 1..UserLevel(p)
           /\ n > 0 => n \in 1..n /\ Guard(p, n) = {p.activation[n]}
           /\ n = 0 => Guard(p, n) = {}
<1>1. Typed(p) /\ Bounded(p) /\ Activations(p)
  BY Zenon DEF Good
<1>2. UserLevel(p) \in Nat /\ DOMAIN p.activation = 1..UserLevel(p)
  BY <1>1, Types DEF Bounded
<1>3. \A k \in DOMAIN p.activation : p.activation[k] \in Vars(p) /\ p.activation[k] > 0
  BY <1>1, VarsNat, Zenon DEF Activations
<1>4. n \in Nat /\ \A k \in 1..n : k \in 1..UserLevel(p)
  BY <1>2
<1>5. n > 0 => n \in 1..n
  BY <1>4
<1>6. n > 0 => n # 0
  BY <1>4
<1> QED
  BY <1>2, <1>3, <1>4, <1>5, <1>6, Zenon DEF Guard

\* Behind its guard a clause says what it should.
LEMMA GuardFollows ==
    ASSUME NEW p, Good(p), NEW n \in 0..UserLevel(p), NEW c,
           Guard(p, n) \union c \in AllClauses(p)
    PROVE  Follows(p, c, n)
<1> SUFFICES ASSUME NEW m \in Valuations(p), Satisfies(m, AllClauses(p)), Closing(p, m, n)
             PROVE  Meets(m, c)
  BY Zenon DEF Follows
<1>1. Meets(m, Guard(p, n) \union c)
  BY SatisfiesIs, Zenon
<1>2. n \in Nat
  BY Guards, Zenon
<1>3. CASE n = 0
  <2>1. Guard(p, n) \union c = c
    <3>1. Guard(p, n) = {}
      BY <1>3, Guards, Zenon
    <3> QED
      BY <3>1, Zenon
  <2> QED
    BY <1>1, <2>1, Zenon
<1>4. CASE n > 0
  <2>1. /\ n \in 1..n /\ Guard(p, n) = {p.activation[n]}
        /\ p.activation[n] \in Vars(p) /\ p.activation[n] > 0
    BY <1>4, Guards, Zenon
  <2>2. ~m[p.activation[n]]
    BY <2>1, Zenon DEF Closing
  <2>3. Vars(p) \in SUBSET Nat /\ m \in [Vars(p) -> BOOLEAN]
    BY VarsNat, Zenon DEF Good, Valuations
  <2>4. Meets(m, {p.activation[n]} \union c)
    BY <1>1, <2>1, Zenon
  <2> QED
    BY <2>1, <2>2, <2>3, <2>4, MeetsRest, Zenon
<1> QED
  BY <1>2, <1>3, <1>4

\* What a fixed literal satisfies follows at once.
LEMMA FixedFollows ==
    ASSUME NEW p, FixedHold(p), NEW c, NEW n, OverAtoms(p, c), SatisfiedByFixed(p, c)
    PROVE  Follows(p, c, n)
<1>1. PICK lit \in c : p.info[Abs(lit)].fixed /\ p.info[Abs(lit)].assignment = lit
  BY Zenon DEF SatisfiedByFixed
<1>2. Abs(lit) \in Vars(p) /\ p.info[Abs(lit)].active
  BY Zenon DEF OverAtoms
<1> SUFFICES ASSUME NEW m \in Valuations(p), Satisfies(m, AllClauses(p))
             PROVE  Meets(m, c)
  BY Zenon DEF Follows
<1>3. Satisfies(m, p.db)
  <2>1. \A g \in p.db : g \in AllClauses(p)
    BY Zenon DEF AllClauses
  <2> QED
    BY <2>1, SatisfiesIs, Zenon
<1>4. Meets(m, {lit})
  BY <1>1, <1>2, <1>3, Zenon DEF FixedHold
<1>5. {lit} \subseteq c
  BY Zenon
<1> QED
  BY <1>4, <1>5, MeetsMore, Zenon

\* A clause more, given to CaDiCaL or buffered.
LEMMA MoreSaid ==
    ASSUME NEW p, Good(p), NEW q, Good(q), SameButClauses(p, q), NEW c, NEW n \in 0..UserLevel(p),
           UpTo(p, c, n), NEW g, g = Guard(p, n) \union c,
           \A d : d \in AllClauses(q) <=> d \in AllClauses(p) \/ d = g,
           p.db \subseteq q.db
    PROVE  Said(p, q, c, n)
<1>1. Kin(p, q) /\ SameGuards(p, q) /\ UserLevel(q) = UserLevel(p) /\ Vars(q) = Vars(p)
  BY SameKin, Zenon
<1>2. Stronger(p, q)
  BY <1>1, SatisfiesIs, Zenon DEF Stronger
<1>3. Guard(q, n) = Guard(p, n)
  BY <1>1, Zenon DEF Guard, SameGuards
<1>4. Guard(q, n) \union c \in AllClauses(q)
  BY <1>3, Zenon
<1>5. Follows(q, c, n)
  BY <1>1, <1>4, GuardFollows, Zenon
<1> QED
  BY <1>2, <1>5, Zenon DEF Said

LEMMA StoredSaid ==
    ASSUME NEW p, Good(p), NEW c, NEW n \in 0..UserLevel(p), UpTo(p, c, n),
           NEW g, g = Guard(p, n) \union c, NEW q, q = [p EXCEPT !.db = @ \union {g}]
    PROVE  Good(q) /\ Said(p, q, c, n)
<1>1. OverAtoms(p, c) /\ \A lit \in c : p.info[Abs(lit)].intro <= n
  BY Zenon DEF UpTo
<1>2. ClauseUserLevel(p, c) <= n
  <2>1. ClauseUserLevel(p, c) = 0 \/ \E lit \in c : ClauseUserLevel(p, c) = p.info[Abs(lit)].intro
    BY <1>1, LevelAttained, Zenon
  <2>2. n >= 0
    BY Guards
  <2> QED
    BY <1>1, <2>1, <2>2
<1>3. g \in SUBSET Int /\ Guarded(p, g)
  BY <1>1, <1>2, ClauseGuarded
<1>4. Good(q) /\ SameButClauses(p, q) /\ q.newClauses = p.newClauses
  BY <1>3, StoredGood, Zenon
<1>5. q.db = p.db \union {g}
  BY <1>3, StoredFields DEF Good
<1>6. \A d : d \in AllClauses(q) <=> d \in AllClauses(p) \/ d = g
  BY <1>4, <1>5, Zenon DEF AllClauses
<1>7. p.db \subseteq q.db
  BY <1>5, Zenon
<1> QED
  BY <1>4, <1>6, <1>7, MoreSaid, Zenon

LEMMA BufferedSaid ==
    ASSUME NEW p, Good(p), NEW c, NEW n \in 0..UserLevel(p), UpTo(p, c, n),
           NEW g, g = Guard(p, n) \union c, NEW q, q = Buffering(p, g)
    PROVE  Good(q) /\ Said(p, q, c, n)
<1>1. OverAtoms(p, c) /\ \A lit \in c : p.info[Abs(lit)].intro <= n
  BY Zenon DEF UpTo
<1>2. ClauseUserLevel(p, c) <= n
  <2>1. ClauseUserLevel(p, c) = 0 \/ \E lit \in c : ClauseUserLevel(p, c) = p.info[Abs(lit)].intro
    BY <1>1, LevelAttained, Zenon
  <2>2. n >= 0
    BY Guards
  <2> QED
    BY <1>1, <2>1, <2>2
<1>3. g \in SUBSET Int /\ Guarded(p, g)
  BY <1>1, <1>2, ClauseGuarded
<1>4. Good(q) /\ SameButClauses(p, q) /\ q.db = p.db
  BY <1>3, BufferedGood, Zenon
<1>5. Buffered(p, q, g)
  BY <1>3, BufferedFields, Zenon DEF Good
<1>6. \A d : d \in ToSet(q.newClauses) <=> d \in ToSet(p.newClauses) \/ d = g
  BY <1>4, <1>5, BufferedSet, Zenon DEF Good
<1>7. \A d : d \in AllClauses(q) <=> d \in AllClauses(p) \/ d = g
  BY <1>4, <1>6, Zenon DEF AllClauses
<1>8. p.db \subseteq q.db
  BY <1>4, Zenon
<1> QED
  BY <1>4, <1>7, <1>8, MoreSaid, Zenon


\* What add_clause says, for a lemma at the level of the clause, for an input at
\* the user level.
LEMMA AddSaid ==
    ASSUME NEW p, Good(p), FixedHold(p), NEW c, OverAtoms(p, c), c # {},
           NEW searching \in BOOLEAN, NEW q, q = AddClause(p, c, searching)
    PROVE  /\ Good(q)
           /\ \E n : /\ Said(p, q, c, n)
                     /\ searching => LevelIs(p, c, n)
                     /\ ~searching => n = UserLevel(p)
<1>1. Typed(p) /\ UserLevel(p) \in Nat /\ Good(q) /\ SameButClauses(p, q)
  <2>1. Good(q) /\ SameButClauses(p, q)
    BY AddClauseGood
  <2>2. Typed(p) /\ UserLevel(p) \in Nat
    BY Types DEF Good
  <2> QED
    BY <2>1, <2>2
<1> DEFINE base == IF searching THEN 0 ELSE UserLevel(p)
           cl == ClauseUserLevel(p, c)
           level == MaxOf({base, cl})
           g == Guard(p, level) \union c
<1>2. ClauseAsserts(p, c) = p
  <2>1. \A lit \in c : p.info[Abs(lit)].active
    BY DEF OverAtoms
  <2>2. \A lit \in c : p.info[Abs(lit)].fixed => p.info[Abs(lit)].assignment # 0
    BY <1>1 DEF Good, OverAtoms, Marked
  <2> QED
    BY <2>1, <2>2 DEF ClauseAsserts, Check
<1>3. /\ cl = 0 \/ \E lit \in c : cl = p.info[Abs(lit)].intro
      /\ cl \in 0..UserLevel(p) /\ base \in 0..UserLevel(p)
      /\ \A lit \in c : p.info[Abs(lit)].intro <= cl
  <2>1. base \in 0..UserLevel(p)
    BY <1>1
  <2> HIDE DEF base
  <2> QED
    BY <2>1, LevelAttained, Zenon
<1>4. q = IF SatisfiedByFixed(p, c) THEN p
          ELSE IF searching THEN [p EXCEPT !.newClauses = Append(@, g)]
          ELSE [p EXCEPT !.db = @ \union {g}]
  BY <1>2 DEF AddClause
<1>5. level \in 0..UserLevel(p) /\ cl <= level /\ (level = base \/ level = cl) /\ base <= level
  <2> HIDE DEF base
  <2>1. level \in {base, cl} /\ \A m \in {base, cl} : m <= level
    <3> HIDE DEF cl
    <3>1. {base, cl} \subseteq 0..UserLevel(p) /\ {base, cl} # {}
      BY <1>3
    <3> QED
      BY <1>1, <3>1, MaxOfIn
  <2> HIDE DEF level
  <2> QED
    BY <1>3, <2>1
<1>6. (searching => level = cl) /\ (~searching => level = UserLevel(p))
  <2>1. (searching => base = 0) /\ (~searching => base = UserLevel(p))
    OBVIOUS
  <2> HIDE DEF base, cl, level
  <2> QED
    BY ONLY <1>1, <1>3, <1>5, <2>1
<1> HIDE DEF base, cl, level
<1>7. UpTo(p, c, level)
  <2>1. \A lit \in c : p.info[Abs(lit)].intro \in Nat
    BY <1>1, Types DEF OverAtoms
  <2>2. \A lit \in c : p.info[Abs(lit)].intro <= level
    BY <1>1, <1>3, <1>5, <2>1
  <2> QED
    BY <2>2, Zenon DEF UpTo
<1>8. searching => LevelIs(p, c, level)
  <2>1. searching => level = 0 \/ \E lit \in c : p.info[Abs(lit)].intro = level
    BY <1>3, <1>6, Zenon
  <2> QED
    BY <1>7, <2>1, Zenon DEF LevelIs
<1>9. PICK h : h = g
  BY Zenon
<1>10. h = Guard(p, level) \union c
  BY <1>9, Zenon
<1> HIDE DEF g
<1>11. Said(p, q, c, level)
  <2>1. CASE SatisfiedByFixed(p, c)
    <3>1. q = p
      BY <1>4, <2>1, Zenon
    <3>2. Follows(p, c, level)
      BY <2>1, FixedFollows, Zenon
    <3>3. Stronger(p, p)
      BY SatisfiesIs, Zenon DEF Stronger
    <3> QED
      BY <1>1, <1>5, <1>7, <3>1, <3>2, <3>3, Zenon DEF Said
  <2>2. CASE ~SatisfiedByFixed(p, c) /\ searching
    <3>1. q = Buffering(p, h)
      BY <1>4, <1>9, <2>2, Zenon DEF Buffering
    <3> QED
      BY <1>5, <1>7, <1>10, <3>1, BufferedSaid, Zenon
  <2>3. CASE ~SatisfiedByFixed(p, c) /\ ~searching
    <3>1. q = [p EXCEPT !.db = @ \union {h}]
      BY <1>4, <1>9, <2>3, Zenon
    <3> QED
      BY <1>5, <1>7, <1>10, <3>1, StoredSaid, Zenon
  <2> QED
    BY <2>1, <2>2, <2>3, Zenon
<1> QED
  BY <1>1, <1>6, <1>8, <1>11, Zenon

\* A clause of the theories and an input.
LEMMA LemmaSaid ==
    ASSUME NEW p, Good(p), FixedHold(p), NEW c, OverAtoms(p, c), c # {},
           NEW q, q = AddClause(p, c, TRUE)
    PROVE  Good(q) /\ \E n : Said(p, q, c, n) /\ LevelIs(p, c, n)
<1>1. PICK b \in BOOLEAN : b = TRUE
  BY Zenon
<1>2. q = AddClause(p, c, b) /\ b
  BY <1>1, Zenon
<1> QED
  BY ONLY <1>2, Good(p), FixedHold(p), OverAtoms(p, c), c # {}, AddSaid, Zenon

LEMMA InputSaid ==
    ASSUME NEW p, Good(p), FixedHold(p), NEW c, OverAtoms(p, c), c # {},
           NEW q, q = AddClause(p, c, FALSE)
    PROVE  Good(q) /\ Said(p, q, c, UserLevel(p))
<1>1. PICK b \in BOOLEAN : b = FALSE
  BY Zenon
<1>2. q = AddClause(p, c, b) /\ ~b
  BY <1>1, Zenon
<1> QED
  BY ONLY <1>2, Good(p), FixedHold(p), OverAtoms(p, c), c # {}, AddSaid, Zenon

LEMMA SaidMeant ==
    ASSUME NEW p, Good(p), NEW q, NEW c, NEW n, Said(p, q, c, n),
           NEW A, NEW L, Meaning(p, A, L), NEW B, NEW K,
           MoreStated(A, L, B, K, UserLevel(p)), StatedAt(B, K, c, n)
    PROVE  StillMeant(q, A, L, B, K)
<1>1. /\ Typed(p) /\ Trail(p) /\ Marked(p)
      /\ Sourced(p, A, L) /\ FixedHold(p) /\ AssertedFollow(p, A) /\ LemmasFollow(p, L)
  BY Zenon DEF Good, Meaning
<1>2. /\ SameButClauses(p, q) /\ n \in 0..UserLevel(p) /\ UpTo(p, c, n) /\ Stronger(p, q)
      /\ \A g \in AllClauses(q) : g \in AllClauses(p) \/ g = Guard(p, n) \union c
  BY Zenon DEF Said
<1>3. /\ Kin(p, q) /\ SameFixed(p, q) /\ SameGuards(p, q)
      /\ UserLevel(q) = UserLevel(p) /\ Vars(q) = Vars(p)
  BY <1>2, SameKin, Zenon
<1>4. ASSUME NEW g, g = Guard(p, n) \union c
      PROVE  Within(q, g) /\ Origin(q, B, K, g)
  <2>1. \A a \in Guard(p, n) : Abs(a) \in Vars(p)
    <3>1. n \in Nat
      BY <1>2, Guards, Zenon
    <3>2. CASE n = 0
      <4>1. Guard(p, n) = {}
        BY <1>2, <3>2, Guards, Zenon
      <4> QED
        BY <4>1, Zenon
    <3>3. CASE n > 0
      <4>1. /\ Guard(p, n) = {p.activation[n]}
            /\ p.activation[n] \in Vars(p)
        BY <1>2, <3>3, Guards, Zenon
      <4>2. p.activation[n] \in Nat
        BY <1>1, <4>1, VarsNat
      <4>3. Abs(p.activation[n]) = p.activation[n]
        BY <4>2, AbsFacts, Zenon
      <4> QED
        BY <4>1, <4>3, Zenon
    <3> QED
      BY <3>1, <3>2, <3>3
  <2>2. c # {} /\ \A lit \in c : Abs(lit) \in Vars(p)
    BY <1>2, Zenon DEF UpTo, OverAtoms
  <2>3. Within(q, g)
    <3>1. \A lit \in g : Abs(lit) \in Vars(q)
      BY <1>3, <1>4, <2>1, <2>2, Zenon
    <3>2. g # {}
      BY <1>4, <2>2, Zenon
    <3> QED
      BY <3>1, <3>2, Zenon DEF Within
  <2>4. UpTo(q, c, n)
    BY <1>2, <1>3, UpToKin, Zenon
  <2>5. Guard(q, n) = Guard(p, n) /\ n \in 0..UserLevel(q) /\ c \in SUBSET g
    <3>1. c \in SUBSET g
      BY <1>4, Zenon
    <3> QED
      BY <1>2, <1>3, <3>1, Zenon DEF Guard, SameGuards
  <2>6. g = Guard(q, n) \union c
    BY <1>4, <2>5, Zenon
  <2> QED
    BY <2>3, <2>4, <2>5, <2>6, Zenon DEF Origin
<1>5. Sourced(q, B, K)
  <2> SUFFICES ASSUME NEW g \in AllClauses(q)
               PROVE  Within(q, g) /\ Origin(q, B, K, g)
    BY Zenon DEF Sourced
  <2>1. CASE g \in AllClauses(p)
    <3>1. Within(p, g) /\ Origin(p, A, L, g)
      BY <1>1, <2>1, Zenon DEF Sourced
    <3>2. Within(q, g)
      BY <1>3, <3>1, Zenon DEF Within
    <3>3. Origin(q, B, K, g)
      BY <1>3, <3>1, OriginKin, Zenon
    <3> QED
      BY <3>2, <3>3
  <2>2. CASE g = Guard(p, n) \union c
    BY <1>4, <2>2, Zenon
  <2> QED
    BY <1>2, <2>1, <2>2, Zenon
<1>6. FixedHold(q)
  BY <1>1, <1>2, <1>3, FixedOn, Zenon
<1>7. AssertedFollow(q, A) /\ LemmasFollow(q, L)
  BY <1>1, <1>2, <1>3, AllFollow, Zenon
<1> QED
  BY <1>5, <1>6, <1>7, Zenon DEF StillMeant

\* A lemma more is said.
LEMMA SaidLemma ==
    ASSUME NEW p, NEW A, NEW L, Sound(p, A, L), NEW q, Good(q), NEW c, NEW n,
           Said(p, q, c, n), LevelIs(p, c, n)
    PROVE  Sound(q, A, L \union {c})
<1>1. Good(p) /\ Meaning(p, A, L)
  BY Zenon DEF Sound
<1>2. PICK K : K = L \union {c}
  BY Zenon
<1>3. StillMeant(q, A, L, A, K)
  <2>1. MoreStated(A, L, A, K, UserLevel(p)) /\ StatedAt(A, K, c, n)
    BY <1>2, Zenon DEF MoreStated, StatedAt
  <2> QED
    BY <1>1, <2>1, SaidMeant, Zenon
<1>4. Sourced(q, A, K) /\ FixedHold(q) /\ AssertedFollow(q, A) /\ LemmasFollow(q, L)
  BY <1>3, Zenon DEF StillMeant
<1>5. LemmasFollow(q, K)
  <2>1. SameButClauses(p, q) /\ n \in 0..UserLevel(p) /\ Follows(q, c, n)
    BY Zenon DEF Said
  <2>2. Kin(p, q) /\ UserLevel(q) = UserLevel(p)
    BY <2>1, SameKin, Zenon
  <2>3. LevelIs(q, c, n)
    BY <2>2, LevelKin, Zenon
  <2> QED
    BY <1>2, <1>4, <2>1, <2>2, <2>3, Zenon DEF LemmasFollow
<1> QED
  BY <1>2, <1>4, <1>5, Zenon DEF Sound, Meaning

LEMMA LemmaSound ==
    ASSUME NEW p, NEW A, NEW L, Sound(p, A, L), NEW c, OverAtoms(p, c), c # {},
           NEW q, q = AddClause(p, c, TRUE)
    PROVE  Sound(q, A, L \union {c})
<1>1. Good(p) /\ FixedHold(p)
  BY Zenon DEF Sound, Meaning
<1>2. Good(q) /\ \E n : Said(p, q, c, n) /\ LevelIs(p, c, n)
  BY <1>1, LemmaSaid, Zenon
<1> QED
  BY <1>2, SaidLemma, Zenon

LEMMA InputSound ==
    ASSUME NEW p, NEW A, NEW L, Sound(p, A, L), NEW c, OverAtoms(p, c), c # {},
           NEW q, q = AddClause(p, c, FALSE), NEW B, MoreInput(A, B, c)
    PROVE  Sound(q, B, L)
<1>1. Good(p) /\ Meaning(p, A, L) /\ FixedHold(p) /\ AssertedFollow(p, A)
  BY Zenon DEF Sound, Meaning
<1>2. Good(q) /\ Said(p, q, c, UserLevel(p))
  BY <1>1, InputSaid, Zenon
<1>3. PICK n : n = UserLevel(p)
  BY Zenon
<1>4. n \in Nat /\ Len(A) = n + 1
  BY <1>1, <1>3, Types, Zenon DEF Good, AssertedFollow
<1>5. \A i \in 1..n + 1 : A[i] \subseteq B[i] /\ \A d \in B[i] : d \in A[i] \/ (i = n + 1 /\ d = c)
  BY <1>4, Zenon DEF MoreInput
<1>6. n + 1 \in 1..n + 1 /\ c \in B[n + 1]
  <2>1. n + 1 \in 1..n + 1
    BY <1>4
  <2> QED
    BY <1>4, <2>1, Zenon DEF MoreInput
<1>7. StillMeant(q, A, L, B, L)
  <2>1. StatedAt(B, L, c, n)
    BY <1>6, Zenon DEF StatedAt
  <2>2. MoreStated(A, L, B, L, n)
    <3>1. ASSUME NEW m \in 0..n  PROVE  \A i \in 1..m + 1 : i \in 1..n + 1
      BY <1>4
    <3> QED
      BY <1>5, <3>1, Zenon DEF MoreStated, StatedAt
  <2> QED
    BY <1>1, <1>2, <1>3, <2>1, <2>2, SaidMeant, Zenon
<1>8. Sourced(q, B, L) /\ FixedHold(q) /\ AssertedFollow(q, A) /\ LemmasFollow(q, L)
  BY <1>7, Zenon DEF StillMeant
<1>9. AssertedFollow(q, B)
  <2>1. SameButClauses(p, q) /\ UpTo(p, c, n) /\ Follows(q, c, n)
    BY <1>2, <1>3, Zenon DEF Said
  <2>2. Kin(p, q) /\ UserLevel(q) = n
    BY <1>3, <2>1, SameKin, Zenon
  <2>3. UpTo(q, c, n)
    BY <2>1, <2>2, UpToKin, Zenon
  <2>4. (n + 1) - 1 = n
    BY <1>4
  <2>5. \A i \in 1..n + 1 : \A d \in B[i] : UpTo(q, d, i - 1) /\ Follows(q, d, i - 1)
    BY <1>5, <1>8, <2>1, <2>2, <2>3, <2>4, Zenon DEF AssertedFollow
  <2> QED
    BY <1>4, <2>2, <2>5, Zenon DEF AssertedFollow, MoreInput
<1> QED
  BY <1>2, <1>8, <1>9, Zenon DEF Sound, Meaning

\* Only the propagations, flags or nothing change.
LEMMA SoundOn ==
    ASSUME NEW p, NEW A, NEW L, Sound(p, A, L), NEW q, Good(q), Kin(p, q), SameFixed(p, q),
           SameGuards(p, q), q.db = p.db, q.newClauses = p.newClauses
    PROVE  Sound(q, A, L)
<1>1. Good(p) /\ Meaning(p, A, L) /\ SaysSame(p, q)
  BY Zenon DEF Sound, Good, SaysSame
<1>2. Meaning(q, A, L)
  BY <1>1, Persists, Zenon
<1> QED
  BY <1>2, Zenon DEF Sound

LEMMA SoundSame ==
    ASSUME NEW p, NEW A, NEW L, Sound(p, A, L), NEW q, Good(q), q.info = p.info,
           q.control = p.control, q.activation = p.activation,
           q.db = p.db, q.newClauses = p.newClauses
    PROVE  Sound(q, A, L)
<1>1. Kin(p, q) /\ SameFixed(p, q)
  BY Zenon DEF Kin, SameFixed, Vars
<1>2. SameGuards(p, q)
  BY Zenon DEF SameGuards, UserLevel
<1> QED
  BY <1>1, <1>2, SoundOn, Zenon

\* The clause that says nothing.
LEMMA TautologySound ==
    ASSUME NEW p, NEW A, NEW L, Sound(p, A, L), Vars(p) # {}, NEW q, q = AddTautology(p)
    PROVE  Sound(q, A, L)
<1>1. Good(p) /\ Typed(p) /\ Meaning(p, A, L) /\ Sourced(p, A, L) /\ Trail(p) /\ Marked(p)
  BY Zenon DEF Sound, Meaning, Good
<1>2. 1 \in Vars(p) /\ 1 \in Nat
  <2>1. Vars(p) = 1..Len(p.info) /\ Len(p.info) \in Nat
    BY <1>1, Types
  <2> QED
    BY <2>1
<1>3. PICK t : t = {1, -1}
  BY Zenon
<1>4. t \in SUBSET Int /\ Tautology(t)
  BY <1>3 DEF Tautology
<1>5. q = Buffering(p, t)
  BY <1>3, Zenon DEF Buffering, AddTautology
<1>6. Good(q) /\ SameButClauses(p, q) /\ q.db = p.db
  BY <1>1, <1>4, <1>5, BufferedGood, Zenon
<1>7. Buffered(p, q, t)
  BY <1>1, <1>4, <1>5, BufferedFields, Zenon
<1>8. \A d : d \in ToSet(q.newClauses) <=> d \in ToSet(p.newClauses) \/ d = t
  BY <1>1, <1>6, <1>7, BufferedSet, Zenon DEF Good
<1>9. \A d : d \in AllClauses(q) <=> d \in AllClauses(p) \/ d = t
  BY <1>6, <1>8, Zenon DEF AllClauses
<1>10. /\ Kin(p, q) /\ SameFixed(p, q) /\ SameGuards(p, q)
       /\ UserLevel(q) = UserLevel(p) /\ Vars(q) = Vars(p)
  BY <1>6, SameKin, Zenon
<1>11. Stronger(p, q)
  BY <1>6, <1>9, <1>10, SatisfiesIs, Zenon DEF Stronger
<1>12. Sourced(q, A, L)
  <2>1. MoreStated(A, L, A, L, UserLevel(p))
    BY Zenon DEF MoreStated
  <2> SUFFICES ASSUME NEW g \in AllClauses(q)
               PROVE  Within(q, g) /\ Origin(q, A, L, g)
    BY Zenon DEF Sourced
  <2>2. CASE g \in AllClauses(p)
    <3>1. Within(p, g) /\ Origin(p, A, L, g)
      BY <1>1, <2>2, Zenon DEF Sourced
    <3>2. Within(q, g)
      BY <1>10, <3>1, Zenon DEF Within
    <3>3. Origin(q, A, L, g)
      BY <1>10, <2>1, <3>1, OriginKin, Zenon
    <3> QED
      BY <3>2, <3>3
  <2>3. CASE g = t
    <3>1. Origin(q, A, L, g)
      BY <1>4, <2>3, Zenon DEF Origin
    <3>2. Abs(1) = 1 /\ Abs(-1) = 1
      BY AbsFacts
    <3>3. Within(q, g)
      BY <1>2, <1>3, <1>10, <2>3, <3>2, Zenon DEF Within
    <3> QED
      BY <3>1, <3>3
  <2> QED
    BY <1>9, <2>2, <2>3, Zenon
<1>13. FixedHold(p) /\ AssertedFollow(p, A) /\ LemmasFollow(p, L)
  BY <1>1, Zenon DEF Meaning
<1>14. FixedHold(q)
  BY <1>1, <1>10, <1>11, <1>13, FixedOn, Zenon
<1>15. AssertedFollow(q, A) /\ LemmasFollow(q, L)
  BY <1>1, <1>10, <1>11, <1>13, AllFollow, Zenon
<1> QED
  BY <1>6, <1>12, <1>14, <1>15, Zenon DEF Sound, Meaning

-----------------------------------------------------------------------------
(* What the handlers do to it. *)

\* New variables say nothing.
LEMMA GrownKin ==
    ASSUME NEW p, NEW q, Typed(p), Typed(q), Grown(p, q)
    PROVE  Kin(p, q) /\ SameFixed(p, q)
<1>1. /\ Vars(p) \subseteq Vars(q)
      /\ \A v \in Vars(q) : v \in Vars(p) \/ v = Len(p.info) + 1
  BY GrownVars, Zenon
<1>2. /\ \A v \in Vars(p) : q.info[v] = p.info[v]
      /\ ~q.info[Len(p.info) + 1].fixed
  BY Zenon DEF Grown
<1> QED
  BY <1>1, <1>2, Zenon DEF Kin, SameFixed

LEMMA NewAtomSound ==
    ASSUME NEW p, NEW A, NEW L, Sound(p, A, L), Len(p.info) < MaxVar,
           NEW q, q = AddNewVar(p, TRUE)
    PROVE  Sound(q, A, L) /\ q.propagations = p.propagations /\ Vars(p) \subseteq Vars(q)
<1>1. Good(p) /\ Typed(p)
  BY Zenon DEF Sound, Good
<1>2. Good(q) /\ Typed(q)
  BY <1>1, NewAtomGood, Zenon DEF Good
<1>3. AddedVar(p, q)
  BY <1>1, AddAtomFields, Zenon
<1>4. Grown(p, q) /\ q.db = p.db /\ q.newClauses = p.newClauses /\ q.control = p.control
      /\ q.activation = p.activation /\ q.propagations = p.propagations
  BY <1>3, Zenon DEF AddedVar
<1>5. Kin(p, q) /\ SameFixed(p, q) /\ SameGuards(p, q)
  BY <1>1, <1>2, <1>4, GrownKin, Zenon DEF SameGuards, UserLevel
<1>6. Sound(q, A, L)
  BY <1>2, <1>4, <1>5, SoundOn, Zenon
<1> QED
  BY <1>4, <1>5, <1>6, Zenon DEF Kin

\* Clauses have literals.
LEMMA ClausesFull ==
    ASSUME NEW p, NEW c \in Clauses(p)
    PROVE  c # {}
<1>1. Cardinality(c) \in 1..2
  BY Zenon DEF Clauses
<1>2. Cardinality({}) = 0
  BY FS_EmptySet
<1> QED
  BY <1>1, <1>2

\* A call to the theories: o[2] are the lemmas on the way.
LEMMA OutputsSound ==
    ASSUME NEW p, NEW A, NEW L, Sound(p, A, L), NEW o \in Outputs(p)
    PROVE  /\ Sound(o[1], A, L \union o[2]) /\ o[1].propagations = p.propagations
           /\ Vars(p) \subseteq Vars(o[1])
<1> DEFINE created == {p} \union (IF Len(p.info) < MaxVar THEN {AddNewVar(p, TRUE)} ELSE {})
<1>1. ASSUME NEW q \in created
      PROVE  Sound(q, A, L) /\ q.propagations = p.propagations /\ Vars(p) \subseteq Vars(q)
  <2>1. CASE q = p
    BY <2>1, Zenon
  <2>2. CASE q # p
    <3>1. Len(p.info) < MaxVar /\ q = AddNewVar(p, TRUE)
      BY <2>2, Zenon
    <3> QED
      BY <3>1, NewAtomSound, Zenon
  <2> QED
    BY <2>1, <2>2, Zenon
<1>2. PICK q \in created :
         \/ o = <<q, {}>>
         \/ \E c \in Clauses(q) : o = <<AddClause(q, c, TRUE), {c}>>
  <2>1. \/ \E q \in created : o = <<q, {}>>
        \/ \E q \in created :
              \E c \in IF ClauseCount < MaxClauses THEN Clauses(q) \ lemmas ELSE {} :
                 o = <<AddClause(q, c, TRUE), {c}>>
    BY ZenonT(60) DEF Outputs
  <2> QED
    BY <2>1, Zenon
<1> HIDE DEF created
<1>3. Sound(q, A, L) /\ q.propagations = p.propagations /\ Vars(p) \subseteq Vars(q)
  BY <1>1, <1>2, Zenon
<1>4. CASE o = <<q, {}>>
  <2>1. o[1] = q /\ o[2] = {}
    BY <1>4
  <2>2. L \union o[2] = L
    BY <2>1, Zenon
  <2> QED
    BY <1>3, <2>1, <2>2, Zenon
<1>5. CASE \E c \in Clauses(q) : o = <<AddClause(q, c, TRUE), {c}>>
  <2>1. PICK c \in Clauses(q) : o = <<AddClause(q, c, TRUE), {c}>>
    BY <1>5, Zenon
  <2>2. PICK x : x = AddClause(q, c, TRUE)
    BY Zenon
  <2>3. o[1] = x /\ o[2] = {c}
    <3>1. o = <<x, {c}>>
      BY <2>1, <2>2, Zenon
    <3> HIDE <2>1, <2>2
    <3> QED
      BY <3>1
  <2>4. Good(q) /\ OverAtoms(q, c) /\ c # {}
    <3>1. Good(q)
      BY <1>3, Zenon DEF Sound
    <3> QED
      BY <3>1, ClausesOver, ClausesFull, Zenon
  <2>5. Sound(x, A, L \union {c})
    BY <1>3, <2>2, <2>4, LemmaSound, Zenon
  <2>6. x.propagations = q.propagations /\ Vars(x) = Vars(q)
    <3>1. SameButClauses(q, x)
      BY <2>2, <2>4, LemmaGood, Zenon
    <3> QED
      BY <3>1, Zenon DEF SameButClauses, Vars
  <2> QED
    BY <1>3, <2>3, <2>5, <2>6, Zenon
<1> QED
  BY <1>2, <1>4, <1>5, Zenon

\* The explanations, in a set.
LEMMA ExplanationsAre ==
    ASSUME NEW p, Good(p)
    PROVE  /\ p.propagations = <<>> => Explanations(p) = {}
           /\ p.propagations # <<>> => Explanations(p) = {Explanation(p.propagations[1])}
<1>1. p.propagations \in Seq(Entry) /\ Len(p.propagations) <= 1
  BY DEF Good, Typed, Pending
<1>2. PICK es \in Seq(Entry) : es = p.propagations
  BY <1>1, Zenon
<1>3. Explanations(p) = {Explanation(e) : e \in ToSet(es)}
  BY <1>2, Zenon DEF Explanations
<1>4. es = <<>> => ToSet(es) = {}
  BY DEF ToSet
<1>5. es # <<>> => ToSet(es) = {es[1]}
  <2> SUFFICES ASSUME es # <<>>  PROVE ToSet(es) = {es[1]}
    OBVIOUS
  <2>1. Len(es) = 1 /\ DOMAIN es = 1..Len(es)
    BY <1>1, <1>2, SingleEntry
  <2>2. DOMAIN es = {1}
    BY <2>1
  <2> QED
    BY <2>2, Zenon DEF ToSet
<1>6. es = <<>> => Explanations(p) = {}
  BY <1>3, <1>4, Zenon
<1>7. es # <<>> => Explanations(p) = {Explanation(es[1])}
  BY <1>3, <1>5, Zenon
<1> QED
  BY <1>2, <1>6, <1>7, Zenon

\* Dropping what was to be propagated.
LEMMA DroppedSound ==
    ASSUME NEW p, NEW A, NEW L, Sound(p, A, L), NEW q, q = [p EXCEPT !.propagations = <<>>]
    PROVE  Sound(q, A, L) /\ q.info = p.info
<1>1. Good(p)
  BY Zenon DEF Sound
<1>2. Good(q) /\ Extended(p, q) /\ q.newClauses = p.newClauses /\ q.info = p.info
  BY <1>1, PropagationsDropped, Zenon
<1>3. Shape(p)
  BY <1>1, Zenon DEF Good, Typed
<1>4. q.db = p.db
  BY <1>3 DEF Shape, Fields
<1>5. q.control = p.control /\ q.activation = p.activation
  BY <1>2, Zenon DEF Extended
<1> QED
  BY <1>2, <1>4, <1>5, SoundSame, Zenon

LEMMA ExplainAllSound ==
    ASSUME NEW p, NEW A, NEW L, Sound(p, A, L), NEW q, q = ExplainAll(p)
    PROVE  Sound(q, A, L \union Explanations(p)) /\ Vars(q) = Vars(p)
<1>1. /\ Good(p) /\ Typed(p) /\ p.propagations \in Seq(Entry)
      /\ Len(p.propagations) <= 1
  BY DEF Sound, Good, Typed, Pending
<1>2. PICK x : x = FoldLeft(Explain, p, p.propagations)
  BY Zenon
<1>3. Sound(x, A, L \union Explanations(p)) /\ Vars(x) = Vars(p)
  <2>1. CASE p.propagations = <<>>
    <3>1. x = p
      BY <1>2, <2>1, FoldNone, Zenon
    <3>2. L \union Explanations(p) = L
      BY <1>1, <2>1, ExplanationsAre, Zenon
    <3> QED
      BY <3>1, <3>2, Zenon
  <2>2. CASE p.propagations # <<>>
    <3>1. Len(p.propagations) = 1 /\ 1 \in DOMAIN p.propagations
      BY <1>1, <2>2, SingleEntry
    <3>2. x = Explain(p, p.propagations[1])
      BY <1>1, <1>2, <3>1, FoldOne, Zenon
    <3>3. PICK c : c = Explanation(p.propagations[1])
      BY Zenon
    <3>4. OverAtoms(p, c) /\ c # {}
      <4>1. OverAtoms(p, c)
        BY <1>1, <3>1, <3>3, ReasonOver, Zenon
      <4>2. c # {}
        BY <3>3, Zenon DEF Explanation
      <4> QED
        BY <4>1, <4>2
    <3>5. x = AddClause(p, c, TRUE)
      BY <3>2, <3>3, Zenon DEF Explain
    <3>6. Sound(x, A, L \union {c})
      BY <3>4, <3>5, LemmaSound, Zenon
    <3>7. Explanations(p) = {c}
      BY <1>1, <2>2, <3>3, ExplanationsAre, Zenon
    <3>8. SameButClauses(p, x)
      BY <1>1, <3>4, <3>5, LemmaGood, Zenon
    <3>9. Vars(x) = Vars(p)
      BY <3>8, Zenon DEF SameButClauses, Vars
    <3> QED
      BY <3>6, <3>7, <3>9, Zenon
  <2> QED
    BY <2>1, <2>2, Zenon
<1>4. q = [x EXCEPT !.propagations = <<>>]
  BY <1>2, Zenon DEF ExplainAll
<1>5. Sound(q, A, L \union Explanations(p)) /\ q.info = x.info
  BY <1>3, <1>4, DroppedSound, Zenon
<1> QED
  BY <1>3, <1>5, Zenon DEF Vars

\* The check of a full or partial model.
LEMMA CheckFoundSound ==
    ASSUME NEW p, NEW A, NEW L, Sound(p, A, L), NEW r \in CheckFoundModel(p)
    PROVE  Sound(r.p, A, L \union r.new)
<1>0. Good(p) /\ Typed(p) /\ Sourced(p, A, L)
  BY Zenon DEF Sound, Good, Meaning
<1>1. CASE p.found
  <2>1. r = [p |-> p, ok |-> TRUE, new |-> {}]
    BY <1>1, Zenon DEF CheckFoundModel
  <2>2. r.p = p /\ r.new = {}
    BY <2>1, AnswerFields, Zenon
  <2>3. L \union r.new = L
    BY <2>2, Zenon
  <2> QED
    BY <2>2, <2>3, Zenon
<1>2. CASE ~p.found /\ p.newClauses # <<>>
  <2>1. r = [p |-> AddTautology(p), ok |-> FALSE, new |-> {}]
    BY <1>2, Zenon DEF CheckFoundModel
  <2>2. r.p = AddTautology(p) /\ r.new = {}
    BY <2>1, AnswerFields, Zenon
  <2>3. L \union r.new = L
    BY <2>2, Zenon
  <2>4. Vars(p) # {}
    <3>1. p.newClauses \in Seq(SUBSET Int)
      BY <1>0, Zenon DEF Typed
    <3>2. 1 \in DOMAIN p.newClauses
      BY <1>2, <3>1
    <3>3. p.newClauses[1] \in AllClauses(p)
      BY <3>2, Zenon DEF AllClauses, ToSet
    <3>4. Within(p, p.newClauses[1])
      BY <1>0, <3>3, Zenon DEF Sourced
    <3> QED
      BY <3>4, Zenon DEF Within
  <2>5. Sound(r.p, A, L)
    BY <2>2, <2>4, TautologySound, Zenon
  <2> QED
    BY <2>3, <2>5, Zenon
<1>3. CASE ~p.found /\ p.newClauses = <<>>
  <2> DEFINE Answer(t) ==
        LET grown == Len(t[1].info) # Len(p.info)
            q == ExplainAll(t[1])
        IN  [p |-> IF grown THEN AddTautology(q) ELSE q,
             ok |-> ~grown /\ q.newClauses = <<>>,
             new |-> t[2] \union Explanations(p)]
  <2>1. \/ \E d \in Outputs(p) : r = [p |-> d[1], ok |-> FALSE, new |-> d[2]]
        \/ \E t \in Outputs(p) : r = Answer(t)
    BY <1>3, Zenon DEF CheckFoundModel
  <2>2. CASE \E d \in Outputs(p) : r = [p |-> d[1], ok |-> FALSE, new |-> d[2]]
    <3>1. PICK d \in Outputs(p) : r = [p |-> d[1], ok |-> FALSE, new |-> d[2]]
      BY <2>2, Zenon
    <3>2. r.p = d[1] /\ r.new = d[2]
      BY <3>1, AnswerFields, Zenon
    <3>3. Sound(d[1], A, L \union d[2])
      BY <3>1, OutputsSound, Zenon
    <3> QED
      BY <3>2, <3>3, Zenon
  <2>3. CASE \E t \in Outputs(p) : r = Answer(t)
    <3>1. PICK t \in Outputs(p) : r = Answer(t)
      BY <2>3, Zenon
    <3>2. PICK x : x = t[1]
      BY Zenon
    <3>3. PICK q : q = ExplainAll(x)
      BY Zenon
    <3>4. /\ r.p = IF Len(x.info) # Len(p.info) THEN AddTautology(q) ELSE q
          /\ r.new = t[2] \union Explanations(p)
      BY <3>1, <3>2, <3>3, AnswerFields, Zenon
    <3>5. /\ Sound(x, A, L \union t[2]) /\ x.propagations = p.propagations
          /\ Vars(p) \subseteq Vars(x)
      BY <3>1, <3>2, OutputsSound, Zenon
    <3>6. Explanations(x) = Explanations(p)
      BY <3>5, Zenon DEF Explanations
    <3>7. Sound(q, A, (L \union t[2]) \union Explanations(p)) /\ Vars(q) = Vars(x)
      BY <3>3, <3>5, <3>6, ExplainAllSound, Zenon
    <3>8. (L \union t[2]) \union Explanations(p) = L \union r.new
      BY <3>4, Zenon
    <3>9. Sound(q, A, L \union r.new)
      BY <3>7, <3>8, Zenon
    <3>10. CASE Len(x.info) # Len(p.info)
      <4>1. r.p = AddTautology(q)
        BY <3>4, <3>10, Zenon
      <4>2. Vars(q) # {}
        <5>1. Typed(x)
          BY <3>5, Zenon DEF Sound, Good
        <5>2. /\ Len(x.info) \in Nat /\ Vars(x) = 1..Len(x.info)
              /\ Len(p.info) \in Nat /\ Vars(p) = 1..Len(p.info)
          BY <1>0, <5>1, VarsNat, Types, Zenon
        <5>3. Len(x.info) # 0
          BY <3>5, <3>10, <5>2
        <5>4. 1 \in Vars(x)
          BY <5>2, <5>3
        <5> QED
          BY <3>7, <5>4, Zenon
      <4> QED
        BY <3>9, <4>1, <4>2, TautologySound, Zenon
    <3>11. CASE Len(x.info) = Len(p.info)
      <4>1. r.p = q
        BY <3>4, <3>11, Zenon
      <4> QED
        BY <3>9, <4>1, Zenon
    <3> QED
      BY <3>10, <3>11, Zenon
  <2> QED
    BY <2>1, <2>2, <2>3, Zenon
<1> QED
  BY <1>1, <1>2, <1>3, Zenon

\* A decision level, an assignment, a backtrack, what is told again.
LEMMA DecisionSound ==
    ASSUME NEW p, NEW A, NEW L, Sound(p, A, L), p.renotify = <<>>,
           NEW q, q = NotifyNewDecisionLevel(p)
    PROVE  Sound(q, A, L)
<1>1. Good(p)
  BY Zenon DEF Sound
<1>2. Good(q) /\ Levelled(p, q)
  BY <1>1, DecisionGood, Zenon
<1>3. /\ q.info = p.info /\ q.control = p.control /\ q.activation = p.activation
      /\ q.db = p.db /\ q.newClauses = p.newClauses
  BY <1>2, Zenon DEF Levelled
<1> QED
  BY <1>2, <1>3, SoundSame, Zenon

\* The same variables, of the same nature.
LEMMA NatureKin ==
    ASSUME NEW p, NEW q, SameNature(p, q), q.control = p.control, q.activation = p.activation
    PROVE  Kin(p, q) /\ SameGuards(p, q)
  BY Zenon DEF SameNature, Kin, SameGuards, UserLevel

LEMMA AssignSound ==
    ASSUME NEW p, NEW A, NEW L, Sound(p, A, L), p.asgControl # <<>>,
           NEW lit \in Int, Abs(lit) \in Vars(p), p.info[Abs(lit)].active,
           p.info[Abs(lit)].assignment = 0, NEW q, q = NotifyAssignment(p, lit)
    PROVE  Sound(q, A, L)
<1>1. Good(p) /\ Typed(p) /\ Marked(p) /\ Bounded(p)
  BY Zenon DEF Sound, Good
<1>2. CASE p.found
  <2>1. q = p
    BY <1>2, Zenon DEF NotifyAssignment
  <2> QED
    BY <2>1, Zenon
<1>3. CASE ~p.found
  <2>1. Good(q) /\ Valued(p, q, lit)
    BY <1>1, <1>3, AssignGood, Zenon
  <2>2. q.info[Abs(lit)].fixed <=> p.info[Abs(lit)].fixed
    <3>1. p.told # <<>>
      <4>1. Len(p.told) = 1 + UserLevel(p) + Decisions(p) /\ UserLevel(p) \in Nat
            /\ Decisions(p) \in Nat /\ p.told \in Seq(SUBSET Int)
        BY <1>1, Types DEF Bounded, Typed
      <4> QED
        BY <4>1
    <3> QED
      BY <1>1, <1>3, <3>1, AssignFields, Zenon
  <2>3. ~p.info[Abs(lit)].fixed
    BY <1>1, Zenon DEF Marked
  <2>4. /\ SameNature(p, q) /\ q.control = p.control /\ q.activation = p.activation
        /\ q.db = p.db /\ q.newClauses = p.newClauses
        /\ \A w \in Vars(p) : w # Abs(lit) => q.info[w] = p.info[w]
    BY <2>1, Zenon DEF Valued
  <2>5. Kin(p, q) /\ SameGuards(p, q)
    BY <2>4, NatureKin, Zenon
  <2>6. SameFixed(p, q)
    <3>1. Vars(q) = Vars(p)
      BY <2>4, Zenon DEF SameNature
    <3> SUFFICES ASSUME NEW v \in Vars(p), q.info[v].fixed, q.info[v].active
                 PROVE  /\ p.info[v].fixed /\ p.info[v].active
                        /\ q.info[v].assignment = p.info[v].assignment
      BY <3>1, Zenon DEF SameFixed
    <3>2. v # Abs(lit)
      BY <2>2, <2>3, Zenon
    <3> QED
      BY <2>4, <3>2, Zenon
  <2> QED
    BY <2>1, <2>4, <2>5, <2>6, SoundOn, Zenon
<1> QED
  BY <1>2, <1>3, Zenon

LEMMA BacktrackSound ==
    ASSUME NEW p, NEW A, NEW L, Sound(p, A, L), NEW level \in Nat, level < Decisions(p),
           NEW q, q = NotifyBacktrack(p, level)
    PROVE  Sound(q, A, L)
<1>1. Good(p)
  BY Zenon DEF Sound
<1>2. Good(q) /\ Undone(p, q, level)
  BY <1>1, BacktrackGood, Zenon
<1>3. PICK cut : cut = p.asgControl[level + 1]
  BY Zenon
<1>4. /\ SameNature(p, q) /\ q.control = p.control /\ q.activation = p.activation
      /\ q.db = p.db /\ q.newClauses = p.newClauses
      /\ \A v \in Vars(p) :
            /\ ~Dropped(p, cut, v) => q.info[v] = p.info[v]
            /\ Dropped(p, cut, v) => ~q.info[v].fixed
  BY <1>2, <1>3, Zenon DEF Undone
<1>5. Kin(p, q) /\ SameGuards(p, q)
  BY <1>4, NatureKin, Zenon
<1>6. SameFixed(p, q)
  BY <1>4, Zenon DEF SameFixed, SameNature
<1> QED
  BY <1>2, <1>4, <1>5, <1>6, SoundOn, Zenon

LEMMA EndSound ==
    ASSUME NEW p, NEW A, NEW L, Sound(p, A, L), NEW q, q = NotifyBacktrack(p, 0)
    PROVE  Sound(q, A, L)
<1>1. Decisions(p) \in Nat
  BY Types DEF Sound, Good
<1>2. CASE Decisions(p) = 0
  <2>1. q = p
    BY <1>2, BacktrackLate, Zenon
  <2> QED
    BY <2>1, Zenon
<1>3. CASE Decisions(p) # 0
  <2>1. 0 \in Nat /\ 0 < Decisions(p)
    BY <1>1, <1>3
  <2> QED
    BY <2>1, BacktrackSound, Zenon
<1> QED
  BY <1>2, <1>3, Zenon

LEMMA RenotifiedSound ==
    ASSUME NEW p, NEW A, NEW L, Sound(p, A, L), p.asgControl = <<>>,
           NEW q, q = RenotifyFixed(p)
    PROVE  Sound(q, A, L)
<1>1. Good(p)
  BY Zenon DEF Sound
<1>2. Good(q) /\ Renotified(p, q)
  BY <1>1, RenotifiedGood, Zenon
<1>3. /\ SameNature(p, q) /\ q.control = p.control /\ q.activation = p.activation
      /\ q.db = p.db /\ q.newClauses = p.newClauses
      /\ \A v \in Vars(p) : /\ q.info[v].assignment = p.info[v].assignment
                            /\ q.info[v].fixed <=> p.info[v].fixed
  BY <1>2, Zenon DEF Renotified
<1>4. Kin(p, q) /\ SameGuards(p, q)
  BY <1>3, NatureKin, Zenon
<1>5. SameFixed(p, q)
  BY <1>3, Zenon DEF SameFixed, SameNature
<1> QED
  BY <1>2, <1>3, <1>4, <1>5, SoundOn, Zenon

\* What CaDiCaL fixes is entailed by its clauses.
LEMMA FixSound ==
    ASSUME NEW p, NEW A, NEW L, Sound(p, A, L), NEW lit \in Int, Abs(lit) \in Vars(p),
           p.info[Abs(lit)].active, p.info[Abs(lit)].assignment \in {0, lit}, ~p.found,
           ~p.info[Abs(lit)].fixed, Entails(p, lit),
           NEW q, q = NotifyFixedAssignment(p, lit)
    PROVE  Sound(q, A, L)
<1>1. Good(p) /\ Meaning(p, A, L) /\ FixedHold(p)
  BY Zenon DEF Sound, Meaning
<1>2. Good(q) /\ Valued(p, q, lit)
  BY <1>1, FixGood, Zenon
<1>3. /\ SameNature(p, q) /\ q.control = p.control /\ q.activation = p.activation
      /\ q.db = p.db /\ q.newClauses = p.newClauses /\ Typed(q)
      /\ \A w \in Vars(p) : w # Abs(lit) => q.info[w] = p.info[w]
      /\ q.info[Abs(lit)].assignment = lit
  BY <1>2, Zenon DEF Valued
<1>4. SaysSame(p, q)
  BY <1>3, NatureKin, Zenon DEF SaysSame
<1>5. Stronger(p, q) /\ Sourced(q, A, L) /\ AssertedFollow(q, A) /\ LemmasFollow(q, L)
  BY <1>1, <1>4, SameMeant, Zenon
<1>6. FixedHold(q)
  <2>1. Vars(q) = Vars(p) /\ Valuations(q) = Valuations(p)
    BY <1>3, Zenon DEF SameNature, Valuations
  <2> SUFFICES ASSUME NEW v \in Vars(p), q.info[v].fixed, q.info[v].active,
                      NEW m \in Valuations(p), Satisfies(m, p.db)
               PROVE  Meets(m, {q.info[v].assignment})
    BY <1>3, <2>1, Zenon DEF FixedHold
  <2>2. CASE v = Abs(lit)
    <3>1. m \in Models(p)
      BY Zenon DEF Models, Valuations
    <3>2. m[Abs(lit)] = (lit > 0)
      BY <3>1, Zenon DEF Entails
    <3>3. Meets(m, {lit})
      BY <3>2, Zenon DEF Meets
    <3> QED
      BY <1>3, <2>2, <3>3, Zenon
  <2>3. CASE v # Abs(lit)
    <3>1. q.info[v] = p.info[v]
      BY <1>3, <2>3, Zenon
    <3> QED
      BY <1>1, <3>1, Zenon DEF FixedHold
  <2> QED
    BY <2>2, <2>3, Zenon
<1> QED
  BY <1>2, <1>5, <1>6, Zenon DEF Sound, Meaning

\* Some clauses that say nothing are left out.
LEMMA Resound ==
    ASSUME NEW p, NEW A, NEW L, Sound(p, A, L), NEW q, Good(q), SameButClauses(p, q),
           Stronger(p, q), AllClauses(q) \subseteq AllClauses(p)
    PROVE  Sound(q, A, L)
<1>1. /\ Good(p) /\ Typed(p) /\ Trail(p) /\ Marked(p)
      /\ Sourced(p, A, L) /\ FixedHold(p) /\ AssertedFollow(p, A) /\ LemmasFollow(p, L)
  BY Zenon DEF Sound, Meaning, Good
<1>2. /\ Kin(p, q) /\ SameFixed(p, q) /\ SameGuards(p, q)
      /\ UserLevel(q) = UserLevel(p) /\ Vars(q) = Vars(p)
  BY SameKin, Zenon
<1>3. Sourced(q, A, L)
  <2>1. MoreStated(A, L, A, L, UserLevel(p))
    BY Zenon DEF MoreStated
  <2> SUFFICES ASSUME NEW g \in AllClauses(q)
               PROVE  Within(q, g) /\ Origin(q, A, L, g)
    BY Zenon DEF Sourced
  <2>2. Within(p, g) /\ Origin(p, A, L, g)
    BY <1>1, Zenon DEF Sourced
  <2>3. Within(q, g)
    BY <1>2, <2>2, Zenon DEF Within
  <2>4. Origin(q, A, L, g)
    BY <1>2, <2>1, <2>2, OriginKin, Zenon
  <2> QED
    BY <2>3, <2>4
<1>4. FixedHold(q)
  BY <1>1, <1>2, FixedOn, Zenon
<1>5. AssertedFollow(q, A) /\ LemmasFollow(q, L)
  BY <1>1, <1>2, AllFollow, Zenon
<1> QED
  BY <1>3, <1>4, <1>5, Zenon DEF Sound, Meaning

\* CaDiCaL takes a buffered clause.
LEMMA HandedSound ==
    ASSUME NEW p, NEW A, NEW L, Sound(p, A, L), p.newClauses # <<>>,
           NEW q, q = Handing(p, Store(p.db, Head(p.newClauses)), Tail(p.newClauses))
    PROVE  Sound(q, A, L)
<1>1. Good(p) /\ Typed(p) /\ Sourced(p, A, L)
  BY Zenon DEF Sound, Meaning, Good
<1>2. Good(q) /\ SameButClauses(p, q)
  BY <1>1, HandedGood, Zenon
<1>3. PICK list, c, rest, db :
         list = p.newClauses /\ c = Head(list) /\ rest = Tail(list) /\ db = Store(p.db, c)
  BY Zenon
<1>4. list \in Seq(SUBSET Int) /\ list # <<>> /\ p.db \in SUBSET SUBSET Int
  BY <1>1, <1>3, Zenon DEF Typed
<1>5. rest \in Seq(SUBSET Int) /\ \A d : d \in ToSet(list) <=> d = c \/ d \in ToSet(rest)
  <2>1. /\ rest \in Seq(SUBSET Int) /\ Len(list) \in Nat /\ Len(list) # 0
        /\ DOMAIN list = 1..Len(list) /\ DOMAIN rest = 1..Len(list) - 1 /\ c = list[1]
        /\ \A i \in 1..Len(list) - 1 : rest[i] = list[i + 1]
    <3>1. c = Head(list) /\ rest = Tail(list)
      BY <1>3, Zenon
    <3> QED
      BY <1>4, <3>1
  <2>2. \A d : d \in ToSet(list) => d = c \/ d \in ToSet(rest)
    <3> SUFFICES ASSUME NEW i \in DOMAIN list, list[i] # c
                 PROVE  \E j \in DOMAIN rest : rest[j] = list[i]
      BY Zenon DEF ToSet
    <3>1. i - 1 \in 1..Len(list) - 1 /\ (i - 1) + 1 = i
      BY <2>1
    <3> QED
      BY <2>1, <3>1, Zenon
  <2>3. \A i \in DOMAIN rest : i + 1 \in DOMAIN list
    BY <2>1
  <2>4. 1 \in DOMAIN list
    BY <2>1
  <2>5. \A d : d = c \/ d \in ToSet(rest) => d \in ToSet(list)
    BY <2>1, <2>3, <2>4, Zenon DEF ToSet
  <2> QED
    BY <2>1, <2>2, <2>5, Zenon
<1>6. c \in SUBSET Int /\ c \in AllClauses(p)
  <2>1. c = Head(list)
    BY <1>3, Zenon
  <2>2. c \in SUBSET Int
    BY <1>4, <2>1
  <2> QED
    BY <1>3, <1>5, <2>2, Zenon DEF AllClauses
<1>7. db \in SUBSET SUBSET Int /\ ((db = p.db /\ Tautology(c)) \/ db = p.db \union {c})
  <2>1. db = IF Tautology(c) THEN p.db ELSE p.db \union {c}
    BY <1>3, Zenon DEF Store, Tautology
  <2> QED
    BY <1>4, <1>6, <2>1
<1>8. q.newClauses = rest /\ q.db = db
  <2>1. q = Handing(p, db, rest)
    BY <1>3, Zenon
  <2>2. ASSUME NEW x \in SUBSET SUBSET Int, NEW y \in Seq(SUBSET Int), q = Handing(p, x, y)
        PROVE  q.newClauses = y /\ q.db = x
    <3>1. Typed(p)
      BY <1>1, Zenon
    <3>2. SameButClauses(p, q) /\ q.newClauses = y /\ q.db = x
      BY ONLY <2>2, <3>1, x \in SUBSET SUBSET Int, y \in Seq(SUBSET Int), HandedFields, SMTT(60)
    <3> QED
      BY <3>2
  <2> QED
    BY <1>5, <1>7, <2>1, <2>2, Zenon
<1>9. /\ AllClauses(q) \subseteq AllClauses(p) /\ p.db \subseteq q.db
      /\ \A d \in AllClauses(p) : d \in AllClauses(q) \/ (d = c /\ Tautology(c))
  <2>1. \A d : d \in AllClauses(p) <=> d \in p.db \/ d = c \/ d \in ToSet(rest)
    BY <1>3, <1>5, Zenon DEF AllClauses
  <2>2. \A d : d \in AllClauses(q) <=> d \in db \/ d \in ToSet(rest)
    BY <1>8, Zenon DEF AllClauses
  <2> QED
    BY <1>7, <1>8, <2>1, <2>2, Zenon
<1>10. Vars(q) = Vars(p)
  BY <1>2, SameKin, Zenon
<1>11. ASSUME NEW m \in Valuations(p), Tautology(c)
       PROVE  Meets(m, c)
  <2>1. PICK lit \in c : -lit \in c
    BY <1>11, Zenon DEF Tautology
  <2>2. lit \in Int /\ Abs(lit) \in Vars(p)
    BY <1>1, <1>6, Zenon DEF Sourced, Within
  <2>3. Abs(lit) > 0 /\ Vars(p) \in SUBSET Nat
    BY <1>1, <2>2, VarsNat, Zenon
  <2>4. lit # 0
    BY <2>3 DEF Abs
  <2>5. m \in [Vars(p) -> BOOLEAN]
    BY Zenon DEF Valuations
  <2> QED
    BY <2>1, <2>2, <2>3, <2>4, <2>5, MeetsTautology, Zenon
<1>12. Stronger(p, q)
  <2>1. Valuations(q) = Valuations(p)
    BY <1>10, Zenon DEF Valuations
  <2>2. \A m \in Valuations(p) :
           Satisfies(m, AllClauses(q)) => \A g \in AllClauses(p) : Meets(m, g)
    BY <1>9, <1>11, SatisfiesIs, Zenon
  <2>3. \A m \in Valuations(p) : Satisfies(m, q.db) => \A g \in p.db : Meets(m, g)
    BY <1>9, SatisfiesIs, Zenon
  <2> QED
    BY <1>10, <2>1, <2>2, <2>3, Zenon DEF Stronger
<1> QED
  BY <1>2, <1>9, <1>12, Resound, Zenon

\* The next propagation, a new one.
LEMMA PropagatedSound ==
    ASSUME NEW p, NEW A, NEW L, Sound(p, A, L), NEW new,
           NEW q, q = [p EXCEPT !.propagations = new], Good(q)
    PROVE  Sound(q, A, L)
<1>1. Shape(p)
  BY Zenon DEF Sound, Good, Typed
<1>2. /\ q.info = p.info /\ q.control = p.control /\ q.activation = p.activation
      /\ q.db = p.db /\ q.newClauses = p.newClauses
  BY <1>1 DEF Shape, Fields
<1> QED
  BY <1>2, SoundSame, Zenon

\* A reason that CaDiCaL asks for.
LEMMA ReasonSound ==
    ASSUME NEW p, NEW A, NEW L, Sound(p, A, L), NEW c, OverAtoms(p, c), c # {},
           NEW q, q = [p EXCEPT !.db = @ \union {Guard(p, ClauseUserLevel(p, c)) \union c}]
    PROVE  Sound(q, A, L \union {c})
<1>1. Good(p) /\ Typed(p) /\ UserLevel(p) \in Nat
  BY Types DEF Sound, Good
<1>2. PICK n : n = ClauseUserLevel(p, c)
  BY Zenon
<1>3. /\ n = 0 \/ \E lit \in c : n = p.info[Abs(lit)].intro
      /\ n \in 0..UserLevel(p)
      /\ \A lit \in c : p.info[Abs(lit)].intro <= n
  BY <1>1, <1>2, LevelAttained, Zenon
<1>4. LevelIs(p, c, n) /\ UpTo(p, c, n)
  BY <1>3, Zenon DEF LevelIs, UpTo
<1>5. PICK g : g = Guard(p, n) \union c
  BY Zenon
<1>6. q = [p EXCEPT !.db = @ \union {g}]
  BY <1>2, <1>5, Zenon
<1>7. Good(q) /\ Said(p, q, c, n)
  BY <1>1, <1>3, <1>4, <1>5, <1>6, StoredSaid, Zenon
<1> QED
  BY <1>4, <1>7, SaidLemma, Zenon

-----------------------------------------------------------------------------
(* User levels. *)

LEMMA LevelsFrom ==
    ASSUME NEW p, Good(p), NEW q, NEW n \in 0..UserLevel(p),
           \A k \in 1..n : q.activation[k] = p.activation[k]
    PROVE  n \in Nat /\ LevelsIn(p, q, n)
  BY Guards, Zenon DEF LevelsIn

LEMMA FollowsAt ==
    ASSUME NEW p, NEW q, Stronger(p, q), NEW A, NEW L, Sourced(p, A, L), NEW c, NEW n \in Nat,
           UpTo(p, c, n), Follows(p, c, n), LevelsIn(p, q, n)
    PROVE  Follows(q, c, n)
<1>1. \A lit \in c : Abs(lit) \in Vars(p)
  BY Zenon DEF UpTo, OverAtoms
<1> QED
  BY <1>1, FollowsOn, Zenon DEF LevelsIn

LEMMA OpenedSound ==
    ASSUME NEW p, NEW A, NEW L, Sound(p, A, L), NEW q, Good(q), Opened(p, q),
           NEW B, NewLevel(A, B)
    PROVE  Sound(q, B, L)
<1>1. /\ Good(p) /\ Typed(p) /\ Trail(p) /\ Marked(p)
      /\ Sourced(p, A, L) /\ FixedHold(p) /\ AssertedFollow(p, A) /\ LemmasFollow(p, L)
  BY Zenon DEF Sound, Meaning, Good
<1>2. /\ Typed(q) /\ Grown(p, q) /\ UserLevel(q) = UserLevel(p) + 1
      /\ \A k \in 1..Len(p.activation) : q.activation[k] = p.activation[k]
      /\ q.newClauses = p.newClauses /\ q.db = p.db
  BY Zenon DEF Opened
<1>3. Kin(p, q) /\ SameFixed(p, q)
  BY <1>1, <1>2, GrownKin, Zenon
<1>4. UserLevel(p) \in Nat /\ Len(p.activation) = UserLevel(p)
  BY <1>1, Types DEF Good, Bounded
<1>5. PICK u \in Nat : u = UserLevel(p)
  BY <1>4, Zenon
<1>6. /\ Len(A) = u + 1 /\ UserLevel(q) = u + 1
      /\ \A n \in 0..u : n \in 0..u + 1 /\ n \in Nat /\ \A k \in 1..n : k \in 1..u
      /\ \A n \in 0..u : n = 0 \/ n \in 1..u
  <2>1. Len(A) = u + 1 /\ UserLevel(q) = u + 1
    BY <1>1, <1>2, <1>5, Zenon DEF AssertedFollow
  <2> QED
    BY <2>1
<1>7. AllClauses(q) = AllClauses(p) /\ Vars(p) \subseteq Vars(q)
  BY <1>2, <1>3, Zenon DEF AllClauses, Kin
<1>8. Stronger(p, q)
  BY <1>2, <1>7, SatisfiesIs, Zenon DEF Stronger
<1>9. \A n \in 0..u : LevelsIn(p, q, n)
  BY <1>1, <1>2, <1>4, <1>5, <1>6, LevelsFrom, Zenon
<1>10. GuardsIn(p, q)
  <2> SUFFICES ASSUME NEW n \in 0..u
               PROVE  n \in 0..UserLevel(q) /\ Guard(q, n) = Guard(p, n)
    BY <1>5, Zenon DEF GuardsIn
  <2>1. n = 0 \/ q.activation[n] = p.activation[n]
    BY <1>2, <1>4, <1>5, <1>6, Zenon
  <2> QED
    BY <1>6, <2>1, Zenon DEF Guard
<1>11. Sourced(q, B, L)
  <2>1. MoreStated(A, L, B, L, UserLevel(p))
    <3>1. ASSUME NEW n \in 0..u  PROVE \A i \in 1..n + 1 : i \in 1..u + 1
      OBVIOUS
    <3> QED
      BY <1>5, <1>6, <3>1, Zenon DEF MoreStated, StatedAt, NewLevel
  <2> SUFFICES ASSUME NEW g \in AllClauses(q)
               PROVE  Within(q, g) /\ Origin(q, B, L, g)
    BY Zenon DEF Sourced
  <2>2. Within(p, g) /\ Origin(p, A, L, g)
    BY <1>1, <1>7, Zenon DEF Sourced
  <2>3. Within(q, g)
    BY <1>7, <2>2, Zenon DEF Within
  <2>4. Origin(q, B, L, g)
    BY <1>3, <1>10, <2>1, <2>2, OriginMore, Zenon
  <2> QED
    BY <2>3, <2>4
<1>12. FixedHold(q)
  BY <1>1, <1>3, <1>8, FixedOn, Zenon
<1>13. AssertedFollow(q, B)
  <2>1. B \in Seq(SUBSET SUBSET Int) /\ Len(B) = UserLevel(q) + 1
    BY <1>6, Zenon DEF NewLevel
  <2>2. ASSUME NEW i \in 1..u + 1, NEW c \in B[i]
        PROVE  UpTo(q, c, i - 1) /\ Follows(q, c, i - 1)
    <3>1. i - 1 \in 0..u
      OBVIOUS
    <3>2. c \in A[i]
      BY <1>6, <2>2, Zenon DEF NewLevel
    <3>3. UpTo(p, c, i - 1) /\ Follows(p, c, i - 1)
      BY <1>1, <1>5, <3>2, Zenon DEF AssertedFollow
    <3>4. UpTo(q, c, i - 1)
      BY <1>3, <3>3, UpToKin, Zenon
    <3>5. Follows(q, c, i - 1)
      BY <1>1, <1>6, <1>8, <1>9, <3>1, <3>3, FollowsAt, Zenon
    <3> QED
      BY <3>4, <3>5
  <2>3. B[(u + 1) + 1] = {}
    BY <1>6, Zenon DEF NewLevel
  <2>4. \A i \in 1..(u + 1) + 1 : i \in 1..u + 1 \/ i = (u + 1) + 1
    OBVIOUS
  <2>5. \A i \in 1..(u + 1) + 1 : \A c \in B[i] : UpTo(q, c, i - 1) /\ Follows(q, c, i - 1)
    BY <2>2, <2>3, <2>4, Zenon
  <2> QED
    BY <1>6, <2>1, <2>5, Zenon DEF AssertedFollow
<1>14. LemmasFollow(q, L)
  <2> SUFFICES ASSUME NEW c \in L
               PROVE  \E n \in 0..UserLevel(q) : LevelIs(q, c, n) /\ Follows(q, c, n)
    BY Zenon DEF LemmasFollow
  <2>1. PICK n \in 0..u : LevelIs(p, c, n) /\ Follows(p, c, n)
    BY <1>1, <1>5, Zenon DEF LemmasFollow
  <2>2. LevelIs(q, c, n) /\ UpTo(p, c, n)
    <3>1. UpTo(p, c, n)
      BY <2>1, Zenon DEF LevelIs
    <3> QED
      BY <1>3, <2>1, <3>1, LevelKin, Zenon
  <2>3. Follows(q, c, n)
    BY <1>1, <1>6, <1>8, <1>9, <2>1, <2>2, FollowsAt, Zenon
  <2> QED
    BY <1>6, <2>2, <2>3, Zenon
<1> QED
  BY <1>11, <1>12, <1>13, <1>14, Zenon DEF Sound, Meaning

\* The clauses CaDiCaL is left with.
LEMMA SunkDb ==
    ASSUME NEW p, Good(p), UserLevel(p) > 0, p.asgControl = <<>>,
           NEW q, q = UserPop(Lowering(p))
    PROVE  q.db = PopClauses(p, Gone(p))
<1>1. PICK x : x = Lowering(p)
  BY Zenon
<1>2. Lowered(p, x)
  BY <1>1, LoweredFields, Zenon
<1>3. /\ Typed(x) /\ Listed(x) /\ Ordered(x) /\ Trail(x) /\ Marked(x)
      /\ UserLevel(x) = UserLevel(p) /\ Gone(x) = Gone(p) /\ x.asgControl = <<>>
      /\ x.db = p.db
  BY <1>2, Zenon DEF Lowered
<1>4. UserLevel(x) > 0
  BY <1>3
<1>5. q = Popping(x)
  BY <1>1, <1>3, <1>4, PopIs, Zenon
<1>6. PICK vs, info, db, stay, ren :
         q = CutBack(x, vs, info, db, stay, ren) /\ db = PopClauses(x, Gone(x))
  BY <1>5, Zenon DEF Popping
<1>7. Shape(x)
  BY <1>3, Zenon DEF Typed
<1>8. q.db = db
  BY <1>6, <1>7 DEF CutBack, Shape, Fields
<1> QED
  BY <1>3, <1>6, <1>8, Zenon DEF PopClauses

LEMMA SunkShrunk ==
    ASSUME NEW p, Good(p), UserLevel(p) > 0, p.asgControl = <<>>,
           NEW q, q = UserPop(Lowering(p))
    PROVE  Good(q) /\ Shrunk(p, q)
<1>1. Good(q) /\ Sunk(p, q) /\ Typed(p) /\ Bounded(p)
  BY SunkGood, Zenon DEF Good
<1>2. /\ Typed(q) /\ Vars(q) = Vars(p) /\ UserLevel(q) = UserLevel(p) - 1
      /\ \A k \in 1..Len(p.activation) - 1 : q.activation[k] = p.activation[k]
      /\ q.newClauses = p.newClauses
  BY <1>1, Zenon DEF Sunk
<1>3. Len(p.activation) = UserLevel(p)
  BY <1>1, Zenon DEF Bounded
<1>4. \A v \in Vars(p) :
          /\ q.info[v].intro = p.info[v].intro /\ q.info[v].assignment = p.info[v].assignment
          /\ q.info[v].atom <=> p.info[v].atom
          /\ q.info[v].fixed <=> p.info[v].fixed
          /\ q.info[v].active <=> p.info[v].active /\ p.info[v].intro # UserLevel(p)
  BY <1>1, SunkInfo
<1>5. q.db = PopClauses(p, Gone(p))
  BY SunkDb, Zenon
<1> QED
  BY <1>1, <1>2, <1>3, <1>4, <1>5, Zenon DEF Shrunk

\* A variable that goes is true in every model of what is left.
LEMMA GoneTrue ==
    ASSUME NEW p, Good(p), NEW q, Shrunk(p, q), NEW m \in Valuations(p), Satisfies(m, q.db),
           NEW v \in Gone(p)
    PROVE  v \in Vars(p) /\ v > 0 /\ m[v]
<1>1. Typed(p) /\ v \in Vars(p)
  BY Zenon DEF Good, Gone
<1>2. v > 0 /\ v \in Nat
  BY <1>1, VarsNat, Zenon
<1>3. {v} \in q.db
  BY Zenon DEF Shrunk, PopClauses
<1>4. Meets(m, {v})
  BY <1>3, SatisfiesIs, Zenon
<1>5. Abs(v) = v
  BY <1>2, AbsFacts, Zenon
<1>6. m[v] = (v > 0)
  BY <1>4, <1>5, Zenon DEF Meets
<1>7. (v > 0) = TRUE
  BY <1>2, SMT
<1> QED
  BY <1>1, <1>2, <1>6, <1>7, Zenon

\* What is left says as much as what was there.
LEMMA ShrunkStronger ==
    ASSUME NEW p, Good(p), NEW q, Shrunk(p, q)
    PROVE  Stronger(p, q)
<1>1. /\ Typed(p) /\ Vars(q) = Vars(p) /\ Valuations(q) = Valuations(p)
      /\ q.newClauses = p.newClauses
  BY Zenon DEF Good, Shrunk, Valuations
<1>2. ASSUME NEW m \in Valuations(p), Satisfies(m, q.db), NEW g \in p.db
      PROVE  Meets(m, g)
  <2>1. CASE g \intersect Gone(p) = {}
    <3>1. g \in q.db
      BY <2>1, Zenon DEF Shrunk, PopClauses
    <3> QED
      BY <1>2, <3>1, SatisfiesIs, Zenon
  <2>2. CASE g \intersect Gone(p) # {}
    <3>1. PICK v \in g : v \in Gone(p)
      BY <2>2, Zenon
    <3>2. v \in Vars(p) /\ v > 0 /\ m[v]
      BY <1>2, <3>1, GoneTrue, Zenon
    <3>3. Vars(p) \in SUBSET Nat /\ m \in [Vars(p) -> BOOLEAN]
      BY <1>1, <1>2, VarsNat, Zenon DEF Valuations
    <3> QED
      BY <3>1, <3>2, <3>3, MeetsPositive, Zenon
  <2> QED
    BY <2>1, <2>2, Zenon
<1>3. ASSUME NEW m \in Valuations(p), Satisfies(m, AllClauses(q)), NEW g \in AllClauses(p)
      PROVE  Meets(m, g)
  <2>1. \A d \in q.db : d \in AllClauses(q)
    BY Zenon DEF AllClauses
  <2>2. Satisfies(m, q.db)
    BY <1>3, <2>1, SatisfiesIs, Zenon
  <2>3. g \in p.db \/ g \in AllClauses(q)
    BY <1>1, <1>3, Zenon DEF AllClauses
  <2> QED
    BY <1>2, <1>3, <2>2, <2>3, SatisfiesIs, Zenon
<1> QED
  BY <1>1, <1>2, <1>3, Zenon DEF Stronger

\* A clause below the level that is closed is not touched.
LEMMA UpToShrunk ==
    ASSUME NEW p, Good(p), NEW q, Shrunk(p, q), NEW c, NEW n \in Nat, UpTo(p, c, n),
           n < UserLevel(p)
    PROVE  UpTo(q, c, n) /\ \A lit \in c : q.info[Abs(lit)].active
<1>1. /\ UserLevel(p) \in Nat /\ \A v \in Vars(p) : p.info[v].intro \in Nat
  BY Types DEF Good
<1>2. /\ c \in SUBSET Int /\ c # {}
      /\ \A lit \in c : /\ Abs(lit) \in Vars(p) /\ p.info[Abs(lit)].active
                        /\ p.info[Abs(lit)].atom /\ p.info[Abs(lit)].intro <= n
  BY Zenon DEF UpTo, OverAtoms
<1>3. \A lit \in c : p.info[Abs(lit)].intro # UserLevel(p)
  BY <1>1, <1>2
<1>4. \A lit \in c : /\ Abs(lit) \in Vars(q) /\ q.info[Abs(lit)].active
                     /\ q.info[Abs(lit)].atom /\ q.info[Abs(lit)].intro <= n
  BY <1>2, <1>3, Zenon DEF Shrunk
<1> QED
  BY <1>2, <1>4, Zenon DEF UpTo, OverAtoms

\* Why a clause was there tells why it still is.
LEMMA OriginShrunk ==
    ASSUME NEW p, Good(p), NEW q, Shrunk(p, q), UserLevel(p) > 0,
           NEW A, NEW L, NEW B, NEW K, LastLevel(A, B), Len(A) = UserLevel(p) + 1,
           Left(q, L, K), NEW g, Origin(p, A, L, g)
    PROVE  Origin(q, B, K, g)
<1>1. Typed(p) /\ Activations(p) /\ UserLevel(p) \in Nat
  BY Types DEF Good
<1>2. CASE \E v \in g : v \in Vars(p) /\ ~p.info[v].active
  BY <1>2, Zenon DEF Origin, Shrunk
<1>3. CASE Tautology(g)
  BY <1>3, Zenon DEF Origin
<1>4. CASE \E n \in 0..UserLevel(p) : \E c \in SUBSET g :
             g = Guard(p, n) \union c /\ UpTo(p, c, n) /\ StatedAt(A, L, c, n)
  <2>1. PICK n \in 0..UserLevel(p) : \E c \in SUBSET g :
             g = Guard(p, n) \union c /\ UpTo(p, c, n) /\ StatedAt(A, L, c, n)
    BY <1>4, Zenon
  <2>2. PICK c \in SUBSET g : g = Guard(p, n) \union c /\ UpTo(p, c, n) /\ StatedAt(A, L, c, n)
    BY <2>1, Zenon
  <2>3. CASE n = UserLevel(p)
    <3>1. n > 0
      BY <2>3
    <3>2. /\ n \in 1..n /\ Guard(p, n) = {p.activation[n]}
          /\ n \in DOMAIN p.activation /\ p.activation[n] \in Vars(p)
      BY <3>1, Guards, Zenon
    <3>3. p.info[p.activation[n]].intro = n
      BY <1>1, <3>2, Zenon DEF Activations
    <3>4. p.activation[n] \in g /\ ~q.info[p.activation[n]].active
      BY <2>2, <2>3, <3>2, <3>3, Zenon DEF Shrunk
    <3>5. p.activation[n] \in Vars(q)
      BY <3>2, Zenon DEF Shrunk
    <3> QED
      BY <3>4, <3>5, Zenon DEF Origin
  <2>4. CASE n # UserLevel(p)
    <3>0. UserLevel(q) = UserLevel(p) - 1
      BY Zenon DEF Shrunk
    <3>1. /\ n \in Nat /\ n < UserLevel(p) /\ n \in 0..UserLevel(q)
          /\ n = 0 \/ n \in 1..UserLevel(p) - 1
          /\ \A i \in 1..n + 1 : i \in 1..Len(A) - 1
      BY <1>1, <2>4, <3>0
    <3>2. UpTo(q, c, n) /\ \A lit \in c : q.info[Abs(lit)].active
      BY <2>2, <3>1, UpToShrunk, Zenon
    <3>3. n = 0 \/ q.activation[n] = p.activation[n]
      BY <3>1, Zenon DEF Shrunk
    <3>4. Guard(q, n) = Guard(p, n)
      BY <3>3, Zenon DEF Guard
    <3>5. StatedAt(B, K, c, n)
      <4>1. CASE c \in L
        BY <3>2, <4>1, Zenon DEF Left, StatedAt
      <4>2. CASE \E i \in 1..n + 1 : c \in A[i]
        BY <3>1, <4>2, Zenon DEF LastLevel, StatedAt
      <4> QED
        BY <2>2, <4>1, <4>2, Zenon DEF StatedAt
    <3>6. g = Guard(q, n) \union c
      BY <2>2, <3>4, Zenon
    <3> QED
      BY <3>1, <3>2, <3>5, <3>6, Zenon DEF Origin
  <2> QED
    BY <2>3, <2>4, Zenon
<1> QED
  BY <1>2, <1>3, <1>4, Zenon DEF Origin

\* A user level is closed.
LEMMA ShrunkSound ==
    ASSUME NEW p, NEW A, NEW L, Sound(p, A, L), UserLevel(p) > 0, p.asgControl = <<>>,
           NEW q, q = UserPop(Lowering(p)), NEW B, LastLevel(A, B), NEW K, Left(q, L, K)
    PROVE  Sound(q, B, K)
<1>1. /\ Good(p) /\ Typed(p) /\ Trail(p) /\ Marked(p)
      /\ Sourced(p, A, L) /\ FixedHold(p) /\ AssertedFollow(p, A) /\ LemmasFollow(p, L)
  BY Zenon DEF Sound, Meaning, Good
<1>2. Good(q) /\ Shrunk(p, q)
  BY <1>1, SunkShrunk, Zenon
<1>3. PICK u \in Nat : u = UserLevel(p)
  BY <1>1, Types
<1>4. /\ Vars(q) = Vars(p) /\ UserLevel(q) = u - 1
      /\ \A k \in 1..u - 1 : q.activation[k] = p.activation[k]
      /\ q.newClauses = p.newClauses /\ q.db = PopClauses(p, Gone(p))
  BY <1>2, <1>3, Zenon DEF Shrunk
<1>5. Len(A) = u + 1 /\ u > 0
  BY <1>1, <1>3, Zenon DEF AssertedFollow
<1>6. /\ B \in Seq(SUBSET SUBSET Int) /\ Len(B) = UserLevel(q) + 1
      /\ \A i \in 1..u : B[i] = A[i]
      /\ \A i \in 1..UserLevel(q) + 1 : i \in 1..u /\ i \in 1..u + 1
      /\ \A i \in 1..u : i - 1 \in 0..u /\ i - 1 < u
      /\ \A n \in 0..u : n < u => n \in 0..UserLevel(q) /\ n \in Nat /\ \A k \in 1..n : k \in 1..u - 1
      /\ \A n \in 0..u : n \in Nat /\ (n < u \/ n = u)
  <2>1. B \in Seq(SUBSET SUBSET Int) /\ Len(B) = Len(A) - 1 /\ \A i \in 1..Len(A) - 1 : B[i] = A[i]
    BY Zenon DEF LastLevel
  <2>2. Len(A) - 1 = u
    BY <1>5
  <2>3. B \in Seq(SUBSET SUBSET Int) /\ Len(B) = u /\ \A i \in 1..u : B[i] = A[i]
    BY <2>1, <2>2, Zenon
  <2> QED
    BY <1>4, <1>5, <2>3
<1>7. Stronger(p, q)
  BY <1>1, <1>2, ShrunkStronger, Zenon
<1>8. \A n \in 0..u : n < u => LevelsIn(p, q, n)
  BY <1>1, <1>3, <1>4, <1>6, LevelsFrom, Zenon
<1>9. Sourced(q, B, K)
  <2> SUFFICES ASSUME NEW g \in AllClauses(q)
               PROVE  Within(q, g) /\ Origin(q, B, K, g)
    BY Zenon DEF Sourced
  <2>1. CASE g \in AllClauses(p)
    <3>1. Within(p, g) /\ Origin(p, A, L, g)
      BY <1>1, <2>1, Zenon DEF Sourced
    <3>2. Within(q, g)
      BY <1>4, <3>1, Zenon DEF Within
    <3>3. Origin(q, B, K, g)
      BY <1>1, <1>2, <1>3, <1>5, <3>1, OriginShrunk, Zenon
    <3> QED
      BY <3>2, <3>3
  <2>2. CASE \E v \in Gone(p) : g = {v}
    <3>1. PICK v \in Gone(p) : g = {v}
      BY <2>2, Zenon
    <3>2. v \in Vars(p) /\ p.info[v].intro = UserLevel(p)
      BY <3>1, Zenon DEF Gone
    <3>3. Abs(v) = v
      <4>1. v \in Nat
        BY <1>1, <3>2, VarsNat
      <4> QED
        BY <4>1, AbsFacts, Zenon
    <3>4. Within(q, g)
      BY <1>4, <3>1, <3>2, <3>3, Zenon DEF Within
    <3>5. ~q.info[v].active
      BY <1>2, <3>2, Zenon DEF Shrunk
    <3>6. Origin(q, B, K, g)
      BY <1>4, <3>1, <3>2, <3>5, Zenon DEF Origin
    <3> QED
      BY <3>4, <3>6
  <2>3. g \in AllClauses(p) \/ \E v \in Gone(p) : g = {v}
    BY <1>4, Zenon DEF AllClauses, PopClauses
  <2> QED
    BY <2>1, <2>2, <2>3, Zenon
<1>10. FixedHold(q)
  <2>1. SameFixed(p, q)
    BY <1>2, Zenon DEF SameFixed, Shrunk
  <2> QED
    BY <1>1, <1>7, <2>1, FixedOn, Zenon
<1>11. AssertedFollow(q, B)
  <2>1. ASSUME NEW i \in 1..u, i \in 1..u + 1, NEW c \in A[i]
        PROVE  UpTo(q, c, i - 1) /\ Follows(q, c, i - 1)
    <3>1. UpTo(p, c, i - 1) /\ Follows(p, c, i - 1)
      BY <1>1, <1>3, <2>1, Zenon DEF AssertedFollow
    <3>2. i - 1 \in 0..u /\ i - 1 < u /\ i - 1 \in Nat
      BY <1>6, Zenon
    <3>3. UpTo(q, c, i - 1)
      BY <1>1, <1>2, <1>3, <3>1, <3>2, UpToShrunk, Zenon
    <3>4. Follows(q, c, i - 1)
      BY <1>1, <1>7, <1>8, <3>1, <3>2, FollowsAt, Zenon
    <3> QED
      BY <3>3, <3>4
  <2>2. \A i \in 1..UserLevel(q) + 1 : \A c \in B[i] : UpTo(q, c, i - 1) /\ Follows(q, c, i - 1)
    BY <1>6, <2>1, Zenon
  <2> QED
    BY <1>6, <2>2, Zenon DEF AssertedFollow
<1>12. LemmasFollow(q, K)
  <2> SUFFICES ASSUME NEW c \in K
               PROVE  \E n \in 0..UserLevel(q) : LevelIs(q, c, n) /\ Follows(q, c, n)
    BY Zenon DEF LemmasFollow
  <2>1. c \in L /\ \A lit \in c : q.info[Abs(lit)].active
    BY Zenon DEF Left
  <2>2. PICK n \in 0..u : LevelIs(p, c, n) /\ Follows(p, c, n)
    BY <1>1, <1>3, <2>1, Zenon DEF LemmasFollow
  <2>3. UpTo(p, c, n) /\ (n = 0 \/ \E lit \in c : p.info[Abs(lit)].intro = n)
    BY <2>2, Zenon DEF LevelIs
  <2>4. \A lit \in c : Abs(lit) \in Vars(p) /\ p.info[Abs(lit)].intro # u
    BY <1>2, <1>3, <2>1, <2>3, Zenon DEF UpTo, OverAtoms, Shrunk
  <2>5. n < u
    <3>1. n # u
      <4>1. u # 0
        BY <1>5
      <4> QED
        BY <2>3, <2>4, <4>1, Zenon
    <3> QED
      BY <3>1
  <2>6. n \in 0..UserLevel(q) /\ n \in Nat
    BY <1>6, <2>5, Zenon
  <2>7. UpTo(q, c, n)
    BY <1>1, <1>2, <1>3, <2>3, <2>5, <2>6, UpToShrunk, Zenon
  <2>8. LevelIs(q, c, n)
    <3>1. \A lit \in c : q.info[Abs(lit)].intro = p.info[Abs(lit)].intro
      BY <1>2, <2>4, Zenon DEF Shrunk
    <3> QED
      BY <2>3, <2>7, <3>1, Zenon DEF LevelIs
  <2>9. Follows(q, c, n)
    BY <1>1, <1>7, <1>8, <2>2, <2>3, <2>5, <2>6, FollowsAt, Zenon
  <2> QED
    BY <2>6, <2>8, <2>9, Zenon
<1> QED
  BY <1>2, <1>9, <1>10, <1>11, <1>12, Zenon DEF Sound, Meaning

-----------------------------------------------------------------------------
(* Every action keeps what the clauses mean. *)

LEMMA AssertedIs ==
    ASSUME NEW p, NEW A, NEW L, Sound(p, A, L)
    PROVE  /\ A \in Seq(SUBSET SUBSET Int) /\ Len(A) = UserLevel(p) + 1
           /\ UserLevel(p) \in Nat /\ Len(A) >= 1 /\ A # <<>>
<1>1. Good(p) /\ AssertedFollow(p, A)
  BY Zenon DEF Sound, Meaning
<1>2. A \in Seq(SUBSET SUBSET Int) /\ Len(A) = UserLevel(p) + 1
  BY <1>1, Zenon DEF AssertedFollow
<1>3. UserLevel(p) \in Nat
  BY <1>1, Types DEF Good
<1>4. Len(A) >= 1
  BY <1>2, <1>3
<1>5. Len(A) # 0
  BY <1>4, <1>2, <1>3
<1>6. A # <<>>
  BY <1>5
<1> QED
  BY <1>2, <1>3, <1>4, <1>6

LEMMA NewVarMeant ==
    ASSUME Meant, NewVar
    PROVE  Meant'
<1>1. Len(s.info) < MaxVar /\ s' = AddNewVar(s, TRUE)
      /\ asserted' = asserted /\ lemmas' = lemmas
  BY Zenon DEF NewVar
<1>2. Sound(s', asserted, lemmas)
  BY <1>1, NewAtomSound, Zenon DEF Meant
<1> QED
  BY <1>1, <1>2, Zenon DEF Meant

LEMMA AssertClauseMeant ==
    ASSUME Meant, NEW c \in Clauses(s), AssertClause(c)
    PROVE  Meant'
<1>1. /\ s' = AddClause(s, c, FALSE) /\ lemmas' = lemmas
      /\ asserted' = [asserted EXCEPT ![Len(asserted)] = @ \union {c}]
  BY Zenon DEF AssertClause
<1>2. Sound(s, asserted, lemmas) /\ Good(s)
  BY Zenon DEF Meant, Sound
<1>3. OverAtoms(s, c) /\ c # {}
  BY <1>2, ClausesOver, ClausesFull, Zenon
<1>4. c \in SUBSET Int
  BY <1>3, Zenon DEF OverAtoms
<1>5. MoreInput(asserted, asserted', c)
  <2>1. asserted \in Seq(SUBSET SUBSET Int) /\ Len(asserted) >= 1
    BY <1>2, AssertedIs, Zenon
  <2>2. PICK n \in Nat : n = Len(asserted)
    BY <2>1
  <2>3. PICK B : B = asserted'
    OBVIOUS
  <2>4. n \in 1..n /\ asserted[n] \in SUBSET SUBSET Int
    BY <2>1, <2>2
  <2>5. B = [asserted EXCEPT ![n] = asserted[n] \union {c}]
    BY <1>1, <2>2, <2>3, Zenon
  <2>6. asserted[n] \union {c} \in SUBSET SUBSET Int
    BY <1>4, <2>4
  <2> HIDE <1>1, <2>3
  <2>7. /\ B \in Seq(SUBSET SUBSET Int) /\ Len(B) = n
        /\ \A i \in 1..n : i # n => B[i] = asserted[i]
        /\ B[n] = asserted[n] \union {c}
    BY <2>1, <2>2, <2>4, <2>5, <2>6
  <2>8. MoreInput(asserted, B, c)
    BY <2>1, <2>2, <2>7, Zenon DEF MoreInput
  <2> QED
    BY <2>3, <2>8, Zenon
<1>6. Sound(s', asserted', lemmas)
  BY <1>1, <1>2, <1>3, <1>5, InputSound, Zenon
<1> QED
  BY <1>1, <1>6, Zenon DEF Meant

LEMMA PushMeant ==
    ASSUME IInv, Meant, Push
    PROVE  Meant'
<1>1. /\ ~inSearch /\ UserLevel(s) < MaxUserLevel /\ Len(s.info) < MaxVar
      /\ s' = [AddNewVar(UserPush([s EXCEPT !.told = Append(@, Known(s))]), FALSE)
                 EXCEPT !.activation = Append(@, Len(s.info) + 1)]
      /\ asserted' = Append(asserted, {}) /\ lemmas' = lemmas
  BY Zenon DEF Push
<1>2. Typed(s) /\ s.told # <<>> /\ Good(s)
  <2>1. Typed(s) /\ Bounded(s) /\ Good(s)
    BY IInvParts, Zenon DEF Good
  <2>2. Len(s.told) >= 1
    BY <2>1, Types DEF Bounded
  <2> QED
    BY <2>1, <2>2
<1>3. Opened(s, s')
  BY <1>1, <1>2, OpenedFields, Zenon
<1>4. s.asgControl = <<>>
  BY <1>1, IInvParts, Idle, Zenon
<1>5. Good(s')
  BY <1>1, <1>2, <1>3, <1>4, OpenedGood, Zenon
<1>6. NewLevel(asserted, asserted')
  <2>1. asserted \in Seq(SUBSET SUBSET Int)
    BY AssertedIs, Zenon DEF Meant
  <2>2. PICK B : B = asserted'
    OBVIOUS
  <2>3. B = Append(asserted, {})
    BY <1>1, <2>2, Zenon
  <2> HIDE <1>1, <2>2
  <2>4. /\ B \in Seq(SUBSET SUBSET Int) /\ Len(B) = Len(asserted) + 1
        /\ \A i \in 1..Len(asserted) : B[i] = asserted[i]
        /\ B[Len(asserted) + 1] = {}
    BY <2>1, <2>3
  <2> QED
    BY <2>1, <2>2, <2>4, Zenon DEF NewLevel
<1>7. Sound(s', asserted', lemmas)
  BY <1>3, <1>5, <1>6, OpenedSound, Zenon DEF Meant
<1> QED
  BY <1>1, <1>7, Zenon DEF Meant

LEMMA PopMeant ==
    ASSUME IInv, Meant, Pop
    PROVE  Meant'
<1>1. /\ ~inSearch /\ UserLevel(s) > 0 /\ s' = UserPop(Lowering(s))
      /\ asserted' = Front(asserted)
      /\ lemmas' = {c \in lemmas : \A lit \in c : s'.info[Abs(lit)].active}
  BY Zenon DEF Pop, Lowering
<1>2. s.asgControl = <<>>
  BY <1>1, IInvParts, Idle, Zenon
<1>3. Left(s', lemmas, lemmas')
  BY <1>1, Zenon DEF Left
<1>4. LastLevel(asserted, asserted')
  <2>1. asserted \in Seq(SUBSET SUBSET Int) /\ asserted # <<>>
    BY AssertedIs, Zenon DEF Meant
  <2>2. PICK B : B = asserted'
    OBVIOUS
  <2>3. B = Front(asserted)
    BY <1>1, <2>2, Zenon
  <2> HIDE <1>1, <1>3, <2>2
  <2>4. /\ B \in Seq(SUBSET SUBSET Int) /\ Len(B) = Len(asserted) - 1
        /\ \A i \in 1..Len(asserted) - 1 : B[i] = asserted[i]
    BY <2>1, <2>3, FrontIs
  <2> QED
    BY <2>1, <2>2, <2>4, Zenon DEF LastLevel
<1>5. Sound(s', asserted', lemmas')
  BY <1>1, <1>2, <1>3, <1>4, ShrunkSound, Zenon DEF Meant
<1> QED
  BY <1>5, Zenon DEF Meant

LEMMA StartSolveMeant ==
    ASSUME IInv, Meant, StartSolve
    PROVE  Meant'
<1>1. /\ ~inSearch /\ s' = RenotifyFixed(s) /\ asserted' = asserted /\ lemmas' = lemmas
  BY Zenon DEF StartSolve
<1>2. s.asgControl = <<>>
  BY <1>1, IInvParts, Idle, Zenon
<1>3. Sound(s', asserted, lemmas)
  BY <1>1, <1>2, RenotifiedSound, Zenon DEF Meant
<1> QED
  BY <1>1, <1>3, Zenon DEF Meant

LEMMA EndMeant ==
    ASSUME Meant, GiveUp \/ LateBacktrack
    PROVE  Meant'
<1>1. s' = NotifyBacktrack(s, 0) /\ asserted' = asserted /\ lemmas' = lemmas
  BY Zenon DEF GiveUp, EndSolve, LateBacktrack
<1>2. Sound(s', asserted, lemmas)
  BY <1>1, EndSound, Zenon DEF Meant
<1> QED
  BY <1>1, <1>2, Zenon DEF Meant

\* A decision level and the literal that is decided.
LEMMA DecidedSound ==
    ASSUME NEW p, NEW A, NEW L, Sound(p, A, L), p.renotify = <<>>,
           NEW lit \in Int, Abs(lit) \in Vars(p), p.info[Abs(lit)].active,
           p.info[Abs(lit)].assignment = 0,
           NEW q, q = NotifyAssignment(NotifyNewDecisionLevel(p), lit)
    PROVE  Sound(q, A, L)
<1>1. PICK x : x = NotifyNewDecisionLevel(p)
  OBVIOUS
<1>2. q = NotifyAssignment(x, lit)
  BY <1>1, Zenon
<1>3. Good(p)
  BY Zenon DEF Sound
<1>4. Good(x) /\ Levelled(p, x) /\ Sound(x, A, L)
  BY <1>1, <1>3, DecisionGood, DecisionSound, Zenon
<1>5. Decisions(x) = Decisions(p) + 1 /\ x.info = p.info /\ Vars(x) = Vars(p)
  BY <1>4 DEF Levelled, Vars
<1>6. x.asgControl # <<>>
  <2>1. Decisions(p) \in Nat /\ (x.asgControl = <<>> <=> Decisions(x) = 0)
    BY <1>3, <1>4, Types DEF Good
  <2> QED
    BY <1>5, <2>1
<1>7. /\ Abs(lit) \in Vars(x) /\ x.info[Abs(lit)].active
      /\ x.info[Abs(lit)].assignment = 0
  BY <1>5
<1> QED
  BY <1>2, <1>4, <1>6, <1>7, AssignSound, Zenon

LEMMA DecideActivationMeant ==
    ASSUME IInv, Meant, DecideActivation
    PROVE  Meant'
<1>1. PICK alit : /\ alit = s.activation[Decisions(s) + 1] /\ alit \notin Assigned(s)
                  /\ s' = NotifyAssignment(NotifyNewDecisionLevel(s), -alit)
  BY Zenon DEF DecideActivation, Assign
<1>2. /\ inSearch /\ Decisions(s) < UserLevel(s) /\ asserted' = asserted /\ lemmas' = lemmas
  BY Zenon DEF DecideActivation
<1>3. /\ Typed(s) /\ Bounded(s) /\ Activations(s)
  BY IInvParts, Zenon DEF Good
<1>4. Decisions(s) + 1 \in DOMAIN s.activation
  <2>1. /\ Decisions(s) \in Nat /\ UserLevel(s) \in Nat /\ Len(s.activation) = UserLevel(s)
        /\ DOMAIN s.activation = 1..Len(s.activation)
    BY <1>3, Types DEF Bounded
  <2> QED
    BY <1>2, <2>1
<1>5. alit \in Vars(s) /\ s.info[alit].active
  BY <1>1, <1>3, <1>4 DEF Activations
<1>6. alit \in Nat /\ -alit \in Int /\ Abs(-alit) = alit
  BY SMTT(30), <1>3, <1>5, Types, AbsFacts
<1>7. PICK lit \in Int : lit = -alit
  BY <1>6
<1>8. s.info[Abs(lit)].assignment = 0
  <2>1. alit \notin {Abs(l) : l \in ToSet(s.assignments)}
    BY <1>1, NotAssigned, Zenon
  <2> QED
    BY <1>5, <1>6, <1>7, <2>1, IInvParts, Unassigned, Zenon
<1>9. s.renotify = <<>>
  BY <1>2, IInvParts, SearchParts, Zenon
<1>10. /\ s' = NotifyAssignment(NotifyNewDecisionLevel(s), lit)
       /\ Abs(lit) \in Vars(s) /\ s.info[Abs(lit)].active
  BY <1>1, <1>5, <1>6, <1>7, Zenon
<1>11. Sound(s', asserted, lemmas)
  BY <1>8, <1>9, <1>10, DecidedSound, Zenon DEF Meant
<1> QED
  BY <1>2, <1>11, Zenon DEF Meant

\* A literal that CaDiCaL may decide or propagate.
LEMMA OpenLit ==
    ASSUME IInv, NEW lit \in LitsOf(Active(s)), Abs(lit) \in ProblemVars(s) \ Assigned(s)
    PROVE  /\ lit \in Int /\ Abs(lit) \in Vars(s) /\ s.info[Abs(lit)].active
           /\ s.info[Abs(lit)].assignment = 0
<1>1. lit \in Int /\ Abs(lit) \in Vars(s) /\ s.info[Abs(lit)].active
  BY IInvParts, ProblemLit DEF LitsOf
<1>2. Abs(lit) \notin {Abs(l) : l \in ToSet(s.assignments)}
  BY NotAssigned, Zenon
<1> QED
  BY <1>1, <1>2, IInvParts, Unassigned, Zenon

LEMMA DecideMeant ==
    ASSUME IInv, Meant, NEW lit \in LitsOf(Active(s)), Decide(lit)
    PROVE  Meant'
<1>1. /\ inSearch /\ Abs(lit) \in ProblemVars(s) \ Assigned(s)
      /\ asserted' = asserted /\ lemmas' = lemmas
      /\ s' = NotifyAssignment(NotifyNewDecisionLevel(s), lit)
  BY Zenon DEF Decide, Assign
<1>2. /\ lit \in Int /\ Abs(lit) \in Vars(s) /\ s.info[Abs(lit)].active
      /\ s.info[Abs(lit)].assignment = 0
  BY <1>1, OpenLit, Zenon
<1>3. s.renotify = <<>>
  BY <1>1, IInvParts, SearchParts, Zenon
<1>4. Sound(s', asserted, lemmas)
  BY <1>1, <1>2, <1>3, DecidedSound, Zenon DEF Meant
<1> QED
  BY <1>1, <1>4, Zenon DEF Meant

LEMMA PropagateMeant ==
    ASSUME IInv, Meant, NEW lit \in LitsOf(Active(s)), Propagate(lit)
    PROVE  Meant'
<1>1. /\ Decisions(s) > 0 /\ Abs(lit) \in ProblemVars(s) \ Assigned(s)
      /\ asserted' = asserted /\ lemmas' = lemmas
      /\ s' = NotifyAssignment(s, lit)
  BY Zenon DEF Propagate, Assign
<1>2. /\ lit \in Int /\ Abs(lit) \in Vars(s) /\ s.info[Abs(lit)].active
      /\ s.info[Abs(lit)].assignment = 0
  BY <1>1, OpenLit, Zenon
<1>3. s.asgControl # <<>>
  <2>1. Decisions(s) > 0
    BY <1>1, Zenon
  <2> QED
    BY <2>1 DEF Decisions
<1>4. Sound(s', asserted, lemmas)
  BY <1>1, <1>2, <1>3, AssignSound, Zenon DEF Meant
<1> QED
  BY <1>1, <1>4, Zenon DEF Meant

LEMMA FixMeant ==
    ASSUME Meant, NEW lit \in Int, Abs(lit) \in Vars(s), Fix(lit)
    PROVE  Meant'
<1>1. /\ ~s.found /\ s.info[Abs(lit)].active /\ ~s.info[Abs(lit)].fixed
      /\ s.info[Abs(lit)].assignment \in {0, lit} /\ Entails(s, lit)
      /\ s' = NotifyFixedAssignment(s, lit)
      /\ asserted' = asserted /\ lemmas' = lemmas
  BY Zenon DEF Fix, Active
<1>2. Sound(s', asserted, lemmas)
  BY <1>1, FixSound, Zenon DEF Meant
<1> QED
  BY <1>1, <1>2, Zenon DEF Meant

LEMMA FixAnyMeant ==
    ASSUME IInv, Meant, NEW v \in Active(s), Fix(v) \/ Fix(-v)
    PROVE  Meant'
<1>1. Typed(s)
  BY IInvParts DEF Good
<1>2. v \in Vars(s) /\ v \in Nat /\ Vars(s) \subseteq Nat
  BY <1>1, Types DEF Active, Vars
<1>3. v \in Int /\ -v \in Int /\ Abs(v) = v /\ Abs(-v) = v
  BY <1>2, AbsFacts
<1>4. CASE Fix(v)
  BY <1>2, <1>3, <1>4, FixMeant, Zenon
<1>5. CASE Fix(-v)
  <2>1. PICK lit \in Int : lit = -v
    BY <1>3
  <2>2. Fix(lit) /\ Abs(lit) \in Vars(s)
    BY <1>2, <1>3, <1>5, <2>1, Zenon
  <2> QED
    BY <2>2, FixMeant, Zenon
<1> QED
  BY <1>4, <1>5

LEMMA BacktrackToMeant ==
    ASSUME Meant, NEW level \in Nat, BacktrackTo(level)
    PROVE  Meant'
<1>1. /\ level < Decisions(s) /\ s' = NotifyBacktrack(s, level)
      /\ asserted' = asserted /\ lemmas' = lemmas
  BY Zenon DEF BacktrackTo
<1>2. Sound(s', asserted, lemmas)
  BY <1>1, BacktrackSound, Zenon DEF Meant
<1> QED
  BY <1>1, <1>2, Zenon DEF Meant

LEMMA DecideStopSearchMeant ==
    ASSUME IInv, Meant, NEW lit \in LitsOf(Active(s)), DecideStopSearch(lit)
    PROVE  Meant'
<1>1. /\ inSearch /\ Abs(lit) \in ProblemVars(s) \ Assigned(s) /\ asserted' = asserted
  BY Zenon DEF DecideStopSearch
<1>2. PICK r \in CheckFoundModel(s), done \in BOOLEAN :
         /\ lemmas' = lemmas \union r.new
         /\ s' = NotifyAssignment(
                    NotifyNewDecisionLevel([r.p EXCEPT !.found = r.ok /\ done]), lit)
  BY Zenon DEF DecideStopSearch, Assign
<1>3. PICK b \in BOOLEAN : b = (r.ok /\ done)
  BY Zenon
<1>4. PICK p, x, K : x = r.p /\ p = [x EXCEPT !.found = b] /\ K = lemmas'
  OBVIOUS
<1>5. s' = NotifyAssignment(NotifyNewDecisionLevel(p), lit)
  BY <1>2, <1>3, <1>4, Zenon
<1>6. Good(x) /\ Extended(s, x)
  BY <1>2, <1>4, IInvParts, CheckFoundGood, Zenon DEF Checked
<1>7. Sound(x, asserted, K)
  BY <1>2, <1>4, CheckFoundSound, Zenon DEF Meant
<1>8. SameButFlags(x, p) /\ Good(p)
  <2>1. SameButFlags(x, p)
    BY <1>4, <1>6, FlagIs, Zenon
  <2> QED
    BY <1>6, <2>1, FlagGood, Zenon
<1> HIDE <1>2, <1>3
<1>9. /\ p.info = x.info /\ p.control = x.control /\ p.activation = x.activation
      /\ p.db = x.db /\ p.newClauses = x.newClauses /\ p.renotify = x.renotify
  BY <1>8, Zenon DEF SameButFlags
<1>10. Sound(p, asserted, K)
  BY <1>7, <1>8, <1>9, SoundSame, Zenon
<1>11. /\ lit \in Int /\ Abs(lit) \in Vars(s) /\ s.info[Abs(lit)].active
       /\ s.info[Abs(lit)].assignment = 0
  BY <1>1, OpenLit, Zenon
<1>12. Abs(lit) \in Vars(x) /\ x.info[Abs(lit)] = s.info[Abs(lit)] /\ x.renotify = s.renotify
  BY <1>6, <1>11, Zenon DEF Extended
<1>13. s.renotify = <<>>
  BY <1>1, IInvParts, SearchParts, Zenon
<1>14. /\ p.renotify = <<>> /\ Abs(lit) \in Vars(p) /\ p.info[Abs(lit)].active
       /\ p.info[Abs(lit)].assignment = 0
  BY <1>9, <1>11, <1>12, <1>13, Zenon DEF Vars
<1>15. Sound(s', asserted, K)
  BY <1>5, <1>10, <1>11, <1>14, DecidedSound, Zenon
<1> QED
  BY <1>1, <1>4, <1>15, Zenon DEF Meant

LEMMA CbPropagateCheckMeant ==
    ASSUME IInv, Meant, CbPropagateCheck
    PROVE  Meant'
<1>1. /\ Decisions(s) >= UserLevel(s) /\ asserted' = asserted
      /\ \/ \E o \in Outputs(s) : s' = o[1] /\ lemmas' = lemmas \union o[2]
         \/ /\ \E e \in Propagations(s) : s' = [s EXCEPT !.propagations = <<e>>]
            /\ lemmas' = lemmas
  BY Zenon DEF CbPropagateCheck
<1>2. CASE \E o \in Outputs(s) : s' = o[1] /\ lemmas' = lemmas \union o[2]
  <2>1. PICK o \in Outputs(s) : s' = o[1] /\ lemmas' = lemmas \union o[2]
    BY <1>2, Zenon
  <2>2. Sound(o[1], asserted, lemmas \union o[2])
    BY OutputsSound, Zenon DEF Meant
  <2>3. Sound(s', asserted, lemmas')
    BY <2>1, <2>2, Zenon
  <2> QED
    BY <1>1, <2>3, Zenon DEF Meant
<1>3. CASE /\ \E e \in Propagations(s) : s' = [s EXCEPT !.propagations = <<e>>]
           /\ lemmas' = lemmas
  <2>1. PICK e \in Propagations(s) : s' = [s EXCEPT !.propagations = <<e>>]
    BY <1>3, Zenon
  <2>2. Good(s')
    BY <1>1, <2>1, IInvParts, PropagationPending, Zenon
  <2>3. Sound(s', asserted, lemmas)
    BY <2>1, <2>2, PropagatedSound, Zenon DEF Meant
  <2> QED
    BY <1>1, <1>3, <2>3, Zenon DEF Meant
<1> QED
  BY <1>1, <1>2, <1>3, Zenon

\* The guard of a clause depends on variables and activation literals alone.
LEMMA SameGuard ==
    ASSUME NEW p, NEW q, q.info = p.info, q.activation = p.activation, NEW c
    PROVE  Guard(q, ClauseUserLevel(q, c)) = Guard(p, ClauseUserLevel(p, c))
<1>1. IntroLevels(q, c) = IntroLevels(p, c)
  BY Zenon DEF IntroLevels
<1>2. ClauseUserLevel(q, c) = ClauseUserLevel(p, c)
  BY <1>1, Zenon DEF ClauseUserLevel
<1> QED
  BY <1>2, Zenon DEF Guard

LEMMA CbPropagateNextMeant ==
    ASSUME IInv, Meant, CbPropagateNext
    PROVE  Meant'
<1>1. s.propagations # <<>> /\ asserted' = asserted
  BY Zenon DEF CbPropagateNext
<1>2. PICK e, q, c :
         /\ e = Head(s.propagations) /\ q = [s EXCEPT !.propagations = Tail(@)]
         /\ c = Explanation(e)
         /\ \/ /\ Abs(e.lit) \notin Assigned(s) /\ Decisions(s) > 0
               /\ lemmas' = lemmas /\ s' = NotifyAssignment(q, e.lit)
            \/ s' = q /\ lemmas' = lemmas
            \/ /\ s' = [q EXCEPT !.db = @ \union {Guard(s, ClauseUserLevel(s, c)) \union c}]
               /\ lemmas' = lemmas \union {c}
  BY Zenon DEF CbPropagateNext, Assign
<1>3. /\ Good(q) /\ Extended(s, q) /\ q.info = s.info
      /\ e.lit \in Int /\ Abs(e.lit) \in Vars(s) /\ s.info[Abs(e.lit)].active
      /\ OverAtoms(s, c)
  BY <1>1, <1>2, IInvParts, NextPropagation, Zenon
<1>4. Sound(q, asserted, lemmas)
  BY <1>2, <1>3, PropagatedSound, Zenon DEF Meant
<1>5. /\ q.asgControl = s.asgControl /\ q.activation = s.activation /\ Vars(q) = Vars(s)
  BY <1>3, Zenon DEF Extended, Vars
<1>6. CASE /\ Abs(e.lit) \notin Assigned(s) /\ Decisions(s) > 0
           /\ lemmas' = lemmas /\ s' = NotifyAssignment(q, e.lit)
  <2>1. PICK lit \in Int : lit = e.lit
    BY <1>3, Zenon
  <2>2. /\ Abs(lit) \in Vars(s) /\ s.info[Abs(lit)].active /\ Abs(lit) \notin Assigned(s)
        /\ s' = NotifyAssignment(q, lit)
    BY <1>3, <1>6, <2>1, Zenon
  <2>3. s.info[Abs(lit)].assignment = 0
    <3>1. Abs(lit) \notin {Abs(l) : l \in ToSet(s.assignments)}
      BY <2>2, NotAssigned, Zenon
    <3> QED
      BY <2>2, <3>1, IInvParts, Unassigned, Zenon
  <2>4. q.asgControl # <<>>
    <3>1. Decisions(s) > 0
      BY <1>6, Zenon
    <3>2. s.asgControl # <<>>
      BY <3>1 DEF Decisions
    <3> QED
      BY <1>5, <3>2, Zenon
  <2>5. /\ Abs(lit) \in Vars(q) /\ q.info[Abs(lit)].active
        /\ q.info[Abs(lit)].assignment = 0
    BY <1>3, <1>5, <2>2, <2>3, Zenon
  <2>6. Sound(s', asserted, lemmas)
    BY <1>4, <2>2, <2>4, <2>5, AssignSound, Zenon
  <2> QED
    BY <1>1, <1>6, <2>6, Zenon DEF Meant
<1>7. CASE s' = q /\ lemmas' = lemmas
  BY <1>1, <1>4, <1>7, Zenon DEF Meant
<1>8. CASE /\ s' = [q EXCEPT !.db = @ \union {Guard(s, ClauseUserLevel(s, c)) \union c}]
           /\ lemmas' = lemmas \union {c}
  <2>1. Guard(q, ClauseUserLevel(q, c)) = Guard(s, ClauseUserLevel(s, c))
    BY <1>3, <1>5, SameGuard, Zenon
  <2>2. s' = [q EXCEPT !.db = @ \union {Guard(q, ClauseUserLevel(q, c)) \union c}]
    BY <1>8, <2>1, Zenon
  <2>3. OverAtoms(q, c) /\ c # {}
    <3>1. c = {e.lit, -e.why}
      BY <1>2, Zenon DEF Explanation
    <3> QED
      BY <1>3, <1>5, <3>1, Zenon DEF OverAtoms
  <2>4. Sound(s', asserted, lemmas \union {c})
    BY <1>4, <2>2, <2>3, ReasonSound, Zenon
  <2> QED
    BY <1>1, <1>8, <2>4, Zenon DEF Meant
<1> QED
  BY <1>2, <1>6, <1>7, <1>8, Zenon

LEMMA CbAddExternalClauseMeant ==
    ASSUME Meant, CbAddExternalClause
    PROVE  Meant'
<1>1. s.newClauses # <<>> /\ asserted' = asserted /\ lemmas' = lemmas
  BY Zenon DEF CbAddExternalClause
<1>2. PICK x : x = Check(s, "unobserved",
                         \A lit \in Head(s.newClauses) : s.info[Abs(lit)].active)
  OBVIOUS
<1>3. Good(s)
  BY Zenon DEF Meant, Sound
<1>4. SameButFlags(s, x) /\ Good(x)
  <2>1. SameButFlags(s, x)
    BY <1>2, <1>3, UnobservedIs, Zenon
  <2> QED
    BY <1>3, <2>1, FlagGood, Zenon
<1>5. /\ x.info = s.info /\ x.control = s.control /\ x.activation = s.activation
      /\ x.db = s.db /\ x.newClauses = s.newClauses
  BY <1>4, Zenon DEF SameButFlags
<1>6. s' = Handing(x, Store(x.db, Head(x.newClauses)), Tail(x.newClauses))
  <2>1. s' = [x EXCEPT !.db = Store(@, Head(s.newClauses)), !.newClauses = Tail(@)]
    BY <1>2, Zenon DEF CbAddExternalClause
  <2> QED
    BY <1>5, <2>1, Zenon DEF Handing
<1> HIDE <1>2
<1>7. Sound(x, asserted, lemmas)
  BY <1>4, <1>5, SoundSame, Zenon DEF Meant
<1>8. Sound(s', asserted, lemmas)
  BY <1>1, <1>5, <1>6, <1>7, HandedSound, Zenon
<1> QED
  BY <1>1, <1>8, Zenon DEF Meant

LEMMA CbCheckFoundModelMeant ==
    ASSUME IInv, Meant, CbCheckFoundModel
    PROVE  Meant'
<1>1. PICK r \in CheckFoundModel(s) :
         /\ lemmas' = lemmas \union r.new
         /\ IF r.ok THEN s' = NotifyBacktrack(Check(r.p, "done", r.p.newClauses = <<>>), 0)
            ELSE s' = r.p
  BY Zenon DEF CbCheckFoundModel, EndSolve
<1>2. asserted' = asserted
  BY Zenon DEF CbCheckFoundModel
<1>3. Sound(r.p, asserted, lemmas')
  BY <1>1, CheckFoundSound, Zenon DEF Meant
<1>4. r.ok => (s.found /\ r.p = s) \/ r.p.newClauses = <<>>
  BY IInvParts, CheckFoundGood, Zenon DEF Checked
<1>5. s.found => s.newClauses = <<>>
  BY IInvParts, SearchParts, Zenon
<1>6. CASE r.ok
  <2>1. r.p.newClauses = <<>>
    BY <1>4, <1>5, <1>6, Zenon
  <2>2. Check(r.p, "done", r.p.newClauses = <<>>) = r.p
    BY <2>1, Zenon DEF Check
  <2>3. s' = NotifyBacktrack(r.p, 0)
    BY <1>1, <1>6, <2>2, Zenon
  <2>4. Sound(s', asserted, lemmas')
    BY <1>3, <2>3, EndSound, Zenon
  <2> QED
    BY <1>2, <2>4, Zenon DEF Meant
<1>7. CASE ~r.ok
  <2>1. Sound(s', asserted, lemmas')
    BY <1>1, <1>3, <1>7, Zenon
  <2> QED
    BY <1>2, <2>1, Zenon DEF Meant
<1> QED
  BY <1>6, <1>7, Zenon

LEMMA NextMeant ==
    ASSUME IInv, Meant, [Next]_vars
    PROVE  Meant'
<1>1. CASE NewVar
  BY <1>1, NewVarMeant, Zenon
<1>2. CASE \E c \in Clauses(s) : AssertClause(c)
  BY <1>2, AssertClauseMeant, Zenon
<1>3. CASE Push
  BY <1>3, PushMeant, Zenon
<1>4. CASE Pop
  BY <1>4, PopMeant, Zenon
<1>5. CASE StartSolve
  BY <1>5, StartSolveMeant, Zenon
<1>6. CASE GiveUp \/ LateBacktrack
  BY <1>6, EndMeant, Zenon
<1>7. CASE DecideActivation
  BY <1>7, DecideActivationMeant, Zenon
<1>8. ASSUME NEW lit \in LitsOf(Active(s)), Decide(lit) \/ DecideStopSearch(lit) \/ Propagate(lit)
      PROVE  Meant'
  <2>1. CASE Decide(lit)
    BY <2>1, DecideMeant, Zenon
  <2>2. CASE DecideStopSearch(lit)
    BY <2>2, DecideStopSearchMeant, Zenon
  <2>3. CASE Propagate(lit)
    BY <2>3, PropagateMeant, Zenon
  <2> QED
    BY <1>8, <2>1, <2>2, <2>3, Zenon
<1>9. CASE \E v \in Active(s) : Fix(v) \/ Fix(-v)
  BY <1>9, FixAnyMeant, Zenon
<1>10. ASSUME NEW level \in 0..MaxDecisions, BacktrackTo(level)
       PROVE  Meant'
  <2>1. level \in Nat
    BY BoundsAssumption
  <2> QED
    BY <1>10, <2>1, BacktrackToMeant, Zenon
<1>11. CASE CbPropagateCheck
  BY <1>11, CbPropagateCheckMeant, Zenon
<1>12. CASE CbPropagateNext
  BY <1>12, CbPropagateNextMeant, Zenon
<1>13. CASE CbAddExternalClause
  BY <1>13, CbAddExternalClauseMeant, Zenon
<1>14. CASE CbCheckFoundModel
  BY <1>14, CbCheckFoundModelMeant, Zenon
<1>15. CASE UNCHANGED vars
  <2>1. s' = s /\ asserted' = asserted /\ lemmas' = lemmas
    BY <1>15, Zenon DEF vars
  <2> QED
    BY <2>1, Zenon DEF Meant
<1> QED
  BY <1>1, <1>2, <1>3, <1>4, <1>5, <1>6, <1>7, <1>8, <1>9, <1>10, <1>11, <1>12, <1>13,
     <1>14, <1>15, Zenon DEF Next

-----------------------------------------------------------------------------
(* The invariant holds, and with it what the clauses say. *)

LEMMA EmptySound ==
    ASSUME NEW p, Good(p), p.info = <<>>, p.control = <<>>, p.newClauses = <<>>, p.db = {},
           NEW A, A = <<{}>>
    PROVE  Sound(p, A, {})
<1>1. DOMAIN p.info = {} /\ Len(p.control) = 0 /\ DOMAIN p.newClauses = {}
  OBVIOUS
<1>2. Vars(p) = {} /\ UserLevel(p) = 0
  BY <1>1 DEF Vars, UserLevel
<1>3. ToSet(p.newClauses) = {}
  BY <1>1, Zenon DEF ToSet
<1>4. AllClauses(p) = {}
  BY <1>3, Zenon DEF AllClauses
<1>5. A \in Seq(SUBSET SUBSET Int) /\ Len(A) = 1 /\ A[1] = {}
  OBVIOUS
<1>6. Sourced(p, A, {}) /\ FixedHold(p) /\ LemmasFollow(p, {})
  BY <1>2, <1>4, Zenon DEF Sourced, FixedHold, LemmasFollow
<1>7. AssertedFollow(p, A)
  <2>1. Len(A) = UserLevel(p) + 1 /\ \A i \in 1..UserLevel(p) + 1 : A[i] = {}
    BY <1>2, <1>5
  <2> QED
    BY <1>5, <2>1, Zenon DEF AssertedFollow
<1> QED
  BY <1>6, <1>7, Zenon DEF Sound, Meaning

LEMMA InitMeant ==
    ASSUME Init
    PROVE  Meant
<1>1. Good(s)
  BY InitGood, IInvParts, Zenon
<1>2. PICK b \in BOOLEAN : b = FALSE
  BY Zenon
<1>3. s = [ info |-> <<>>, activeVars |-> <<>>, control |-> <<>>, activation |-> <<>>,
            renotify |-> <<>>, assignments |-> <<>>, asgControl |-> <<>>,
            propagations |-> <<>>, newClauses |-> <<>>, found |-> b,
            told |-> <<{}>>, db |-> {}, failed |-> {} ]
  BY <1>2, Zenon DEF Init
<1>4. s.info = <<>> /\ s.control = <<>> /\ s.newClauses = <<>> /\ s.db = {}
  BY <1>2, <1>3, InitFields, Zenon
<1>5. asserted = <<{}>> /\ lemmas = {}
  BY Zenon DEF Init
<1>6. Sound(s, asserted, {})
  BY <1>1, <1>4, <1>5, EmptySound, Zenon
<1> QED
  BY <1>5, <1>6, Zenon DEF Meant

\* The variables of clauses are the active atoms.
LEMMA ProblemAre ==
    ASSUME NEW p, Good(p), NEW v \in Vars(p)
    PROVE  /\ v \in ProblemVars(p) <=> p.info[v].active /\ p.info[v].atom
           /\ ~p.info[v].active => v \notin ProblemVars(p) /\ v \notin ActivationVars(p)
<1>1. Typed(p) /\ Activations(p)
  BY Zenon DEF Good
<1>2. v \in ActivationVars(p) => p.info[v].active /\ ~p.info[v].atom
  <2> SUFFICES ASSUME v \in ActivationVars(p)
               PROVE  p.info[v].active /\ ~p.info[v].atom
    OBVIOUS
  <2>1. PICK k \in DOMAIN p.activation : v = p.activation[k]
    BY Zenon DEF ActivationVars, ToSet
  <2> QED
    BY <1>1, <2>1, Zenon DEF Activations
<1> QED
  BY <1>2, ProblemAtoms, Zenon DEF ProblemVars, Active

LEMMA AssumingIs ==
    ASSUME NEW p, Good(p), NEW m \in [ProblemVars(p) -> BOOLEAN], NEW all,
           all = [v \in Vars(p) |-> IF v \in ProblemVars(p) THEN m[v]
                                    ELSE v \notin ActivationVars(p)]
    PROVE  Assuming(p, m, all)
<1>1. all \in Valuations(p)
  BY Zenon DEF Valuations
<1>2. \A v \in ProblemVars(p) : v \in Vars(p) /\ all[v] = m[v]
  BY Zenon DEF ProblemVars, Active
<1>3. \A v \in Vars(p) : v \notin ProblemVars(p) => (all[v] <=> v \notin ActivationVars(p))
  BY Zenon
<1>4. ASSUME NEW k \in 1..UserLevel(p)
      PROVE  ~all[p.activation[k]]
  <2>1. Typed(p) /\ Bounded(p) /\ Activations(p)
    BY Zenon DEF Good
  <2>2. k \in DOMAIN p.activation
    BY <2>1, Types DEF Bounded
  <2>3. p.activation[k] \in Vars(p) /\ p.activation[k] \in ActivationVars(p)
    BY <2>1, <2>2, Zenon DEF Activations, ActivationVars, ToSet
  <2>4. p.activation[k] \notin ProblemVars(p)
    BY <2>3, Zenon DEF ProblemVars
  <2> QED
    BY <1>3, <2>3, <2>4, Zenon
<1>5. ASSUME NEW v \in Vars(p), ~p.info[v].active
      PROVE  all[v]
  BY <1>3, <1>5, ProblemAre, Zenon
<1> QED
  BY <1>1, <1>2, <1>4, <1>5, Zenon DEF Assuming

\* A clause over active atoms says the same of both.
LEMMA AssumingMeets ==
    ASSUME NEW p, Good(p), NEW m, NEW all, Assuming(p, m, all), NEW c, NEW n, UpTo(p, c, n)
    PROVE  /\ Meets(m, c) <=> Meets(all, c)
           /\ \A lit \in c : Abs(lit) \in ProblemVars(p)
<1>1. \A lit \in c : Abs(lit) \in ProblemVars(p)
  BY ProblemAre, Zenon DEF UpTo, OverAtoms
<1>2. \A lit \in c : all[Abs(lit)] = m[Abs(lit)]
  BY <1>1, Zenon DEF Assuming
<1>3. \A lit \in c : m[Abs(lit)] = all[Abs(lit)]
  BY <1>2, Zenon
<1> QED
  BY <1>1, <1>2, <1>3, MeetsSame, Zenon

LEMMA StandingIs ==
    ASSUME NEW p, NEW A, NEW L, NEW c
    PROVE  c \in Standing(p, A, L) <=>
              \/ \E i \in DOMAIN A : c \in A[i]
              \/ c \in L /\ \A lit \in c : Abs(lit) \in ProblemVars(p)
<1> DEFINE U == UNION {A[i] : i \in DOMAIN A}
           T == {d \in L : \A lit \in d : Abs(lit) \in ProblemVars(p)}
<1>1. c \in U <=> \E i \in DOMAIN A : c \in A[i]
  <2>1. ASSUME NEW i \in DOMAIN A, c \in A[i]  PROVE c \in U
    <3>1. A[i] \in {A[k] : k \in DOMAIN A}
      BY Zenon
    <3> QED
      BY <2>1, <3>1, Zenon
  <2>2. ASSUME c \in U  PROVE \E i \in DOMAIN A : c \in A[i]
    <3>1. PICK e \in {A[k] : k \in DOMAIN A} : c \in e
      BY <2>2, Zenon
    <3> QED
      BY <3>1, Zenon
  <2> QED
    BY <2>1, <2>2, Zenon
<1>2. c \in T <=> c \in L /\ \A lit \in c : Abs(lit) \in ProblemVars(p)
  BY Zenon
<1>3. Standing(p, A, L) = U \union T
  BY DEF Standing
<1> HIDE DEF U, T
<1> QED
  BY <1>1, <1>2, <1>3, Zenon

\* Nothing outlives its level: what the clauses say was stated.
LEMMA NothingAdded ==
    ASSUME NEW p, NEW A, NEW L, Sound(p, A, L), NEW m, NEW all, Assuming(p, m, all),
           \A c \in Standing(p, A, L) : Meets(m, c), NEW g \in AllClauses(p)
    PROVE  Meets(all, g)
<1>1. Good(p) /\ Typed(p) /\ Sourced(p, A, L) /\ AssertedFollow(p, A)
  BY Zenon DEF Sound, Meaning, Good
<1>2. Within(p, g) /\ Origin(p, A, L, g)
  BY <1>1, Zenon DEF Sourced
<1>3. Vars(p) \in SUBSET Nat /\ all \in [Vars(p) -> BOOLEAN] /\ \A v \in Vars(p) : v > 0
  BY <1>1, VarsNat, Zenon DEF Assuming, Valuations
<1>4. CASE \E v \in g : v \in Vars(p) /\ ~p.info[v].active
  <2>1. PICK v \in g : v \in Vars(p) /\ ~p.info[v].active
    BY <1>4, Zenon
  <2>2. all[v] /\ v > 0
    BY <1>3, <2>1, Zenon DEF Assuming
  <2> QED
    BY <1>3, <2>1, <2>2, MeetsPositive, Zenon
<1>5. CASE Tautology(g)
  <2>1. PICK lit \in g : -lit \in g
    BY <1>5, Zenon DEF Tautology
  <2>2. g \in SUBSET Int
    <3>1. p.db \in SUBSET SUBSET Int /\ p.newClauses \in Seq(SUBSET Int)
      BY <1>1 DEF Typed
    <3>2. ToSet(p.newClauses) \in SUBSET SUBSET Int
      BY <3>1 DEF ToSet
    <3> QED
      BY <3>1, <3>2, Zenon DEF AllClauses
  <2>3. Abs(lit) \in Vars(p) /\ lit \in Int
    BY <1>2, <2>2, Zenon DEF Within
  <2>4. lit # 0
    <3>1. Abs(lit) > 0
      BY <1>3, <2>3, Zenon
    <3> QED
      BY <2>3, <3>1 DEF Abs
  <2> QED
    BY <1>3, <2>1, <2>3, <2>4, MeetsTautology, Zenon
<1>6. CASE \E n \in 0..UserLevel(p) : \E c \in SUBSET g :
             g = Guard(p, n) \union c /\ UpTo(p, c, n) /\ StatedAt(A, L, c, n)
  <2>1. PICK n \in 0..UserLevel(p) : \E c \in SUBSET g :
             g = Guard(p, n) \union c /\ UpTo(p, c, n) /\ StatedAt(A, L, c, n)
    BY <1>6, Zenon
  <2>2. PICK c \in SUBSET g : UpTo(p, c, n) /\ StatedAt(A, L, c, n)
    BY <2>1, Zenon
  <2>3. /\ Meets(m, c) <=> Meets(all, c)
        /\ \A lit \in c : Abs(lit) \in ProblemVars(p)
    BY <1>1, <2>2, AssumingMeets, Zenon
  <2>4. c \in Standing(p, A, L)
    <3>1. CASE c \in L
      BY <2>3, <3>1, StandingIs, Zenon
    <3>2. CASE \E i \in 1..n + 1 : c \in A[i]
      <4>1. PICK i \in 1..n + 1 : c \in A[i]
        BY <3>2, Zenon
      <4>2. /\ A \in Seq(SUBSET SUBSET Int) /\ Len(A) = UserLevel(p) + 1
            /\ UserLevel(p) \in Nat
        BY AssertedIs, Zenon
      <4>3. i \in DOMAIN A
        BY <4>2
      <4> QED
        BY <4>1, <4>3, StandingIs, Zenon
    <3> QED
      BY <2>2, <3>1, <3>2, Zenon DEF StatedAt
  <2>5. Meets(all, c)
    BY <2>3, <2>4, Zenon
  <2> QED
    BY <2>5, MeetsMore, Zenon
<1> QED
  BY <1>2, <1>4, <1>5, <1>6, Zenon DEF Origin

\* Nothing is lost: what was stated follows from the clauses.
LEMMA NothingMissing ==
    ASSUME NEW p, NEW A, NEW L, Sound(p, A, L), NEW m, NEW all, Assuming(p, m, all),
           \A g \in AllClauses(p) : Meets(all, g), NEW c \in Standing(p, A, L)
    PROVE  Meets(m, c)
<1>1. Good(p) /\ AssertedFollow(p, A) /\ LemmasFollow(p, L) /\ UserLevel(p) \in Nat
  BY AssertedIs, Zenon DEF Sound, Meaning
<1>2. PICK n \in 0..UserLevel(p) : UpTo(p, c, n) /\ Follows(p, c, n)
  <2>1. CASE c \in L
    BY <1>1, <2>1, Zenon DEF LemmasFollow, LevelIs
  <2>2. CASE \E i \in DOMAIN A : c \in A[i]
    <3>1. PICK i \in DOMAIN A : c \in A[i]
      BY <2>2, Zenon
    <3>2. A \in Seq(SUBSET SUBSET Int) /\ Len(A) = UserLevel(p) + 1
      BY <1>1, Zenon DEF AssertedFollow
    <3>3. i \in 1..UserLevel(p) + 1 /\ i - 1 \in 0..UserLevel(p)
      BY <1>1, <3>2
    <3>4. UpTo(p, c, i - 1) /\ Follows(p, c, i - 1)
      BY <1>1, <3>1, <3>3, Zenon DEF AssertedFollow
    <3> QED
      BY <3>3, <3>4, Zenon
  <2> QED
    BY <2>1, <2>2, StandingIs, Zenon
<1>3. Satisfies(all, AllClauses(p))
  BY SatisfiesIs, Zenon
<1>4. Closing(p, all, n)
  <2>1. \A k \in 1..n : k \in 1..UserLevel(p)
    BY <1>1
  <2> QED
    BY <2>1, Zenon DEF Closing, Assuming
<1>5. Meets(all, c)
  BY <1>2, <1>3, <1>4, Zenon DEF Follows, Assuming
<1> QED
  BY <1>1, <1>2, <1>5, AssumingMeets, Zenon

LEMMA MeantForce ==
    ASSUME Meant
    PROVE  ClausesInForce
<1>1. Sound(s, asserted, lemmas) /\ Good(s)
  BY Zenon DEF Meant, Sound
<1>2. ASSUME NEW m \in [ProblemVars(s) -> BOOLEAN], NEW all,
             all = [v \in Vars(s) |-> IF v \in ProblemVars(s) THEN m[v]
                                      ELSE v \notin ActivationVars(s)]
      PROVE  Satisfies(m, Standing(s, asserted, lemmas)) <=> Satisfies(all, AllClauses(s))
  <2>1. Assuming(s, m, all)
    BY <1>1, <1>2, AssumingIs, Zenon
  <2> HIDE <1>2
  <2>2. ASSUME \A c \in Standing(s, asserted, lemmas) : Meets(m, c)
        PROVE  \A g \in AllClauses(s) : Meets(all, g)
    BY <1>1, <2>1, <2>2, NothingAdded, Zenon
  <2>3. ASSUME \A g \in AllClauses(s) : Meets(all, g)
        PROVE  \A c \in Standing(s, asserted, lemmas) : Meets(m, c)
    BY <1>1, <2>1, <2>3, NothingMissing, Zenon
  <2>4. Satisfies(m, Standing(s, asserted, lemmas))
           <=> \A c \in Standing(s, asserted, lemmas) : Meets(m, c)
    BY SatisfiesIs, Zenon
  <2>5. Satisfies(all, AllClauses(s)) <=> \A g \in AllClauses(s) : Meets(all, g)
    BY SatisfiesIs, Zenon
  <2> QED
    BY <2>2, <2>3, <2>4, <2>5, Zenon
<1> QED
  BY <1>2, Zenon DEF ClausesInForce, Standing, AllClauses

\* With the activation literals assumed, the clauses CaDiCaL has or is about to get
\* say what the user asserted at the open levels and what the theories added over
\* the variables that are left, over every push, user_pop, callback and fixed
\* literal.
THEOREM ClausesSayWhatStands == Spec => []ClausesInForce
<1>1. Init => IInv /\ Meant
  BY InitGood, InitMeant
<1>2. IInv /\ Meant /\ [Next]_vars => IInv' /\ Meant'
  BY NextStep, NextMeant
<1>3. Meant => ClausesInForce
  BY MeantForce
<1> QED
  BY <1>1, <1>2, <1>3, PTL DEF Spec
=============================================================================
