-------------------- MODULE CadicalPropagatorInvariant --------------------
(***************************************************************************)
(* What the proofs about CadicalPropagator speak of: the inductive         *)
(* invariant IInv, the invariant Sound on the meaning of the clauses, and  *)
(* the relations between the record s before and after a handler, with the *)
(* fields of the record that it leaves.                                    *)
(***************************************************************************)
EXTENDS CadicalPropagator

-----------------------------------------------------------------------------
(* The inductive invariant.  Good is about the record s alone, so that it  *)
(* can be followed through the handlers an action calls.                   *)

Fields == {"info", "activeVars", "control", "activation", "renotify", "assignments",
           "asgControl", "propagations", "newClauses", "found", "told", "db", "failed"}

Shape(p) == DOMAIN p = Fields /\ p = [f \in Fields |-> p[f]]

VarInfo == [intro : Nat, fixedAt : Nat, assignment : Int,
            atom : BOOLEAN, fixed : BOOLEAN, active : BOOLEAN]

Entry == [lit : Int, why : Int]

Typed(p) ==
    /\ Shape(p)
    /\ p.info \in Seq(VarInfo)
    /\ p.activeVars \in Seq(Nat) /\ p.control \in Seq(Nat) /\ p.activation \in Seq(Nat)
    /\ p.renotify \in Seq(Int) /\ p.assignments \in Seq(Int) /\ p.asgControl \in Seq(Nat)
    /\ p.propagations \in Seq(Entry)
    /\ p.newClauses \in Seq(SUBSET Int) /\ p.db \in SUBSET SUBSET Int
    /\ p.told \in Seq(SUBSET Int)
    /\ p.found \in BOOLEAN

\* The bounds, and one context level per user level and decision.
Bounded(p) ==
    /\ Len(p.info) <= MaxVar
    /\ UserLevel(p) <= MaxUserLevel
    /\ \A v \in Vars(p) : p.info[v].intro <= MaxUserLevel /\ p.info[v].fixedAt <= MaxUserLevel
    /\ Len(p.told) = 1 + UserLevel(p) + Decisions(p)
    /\ Len(p.activation) = UserLevel(p)

\* d_active_vars has the active variables, in the order of their user levels, with
\* the marks of d_active_vars_control between them.
Listed(p) ==
    /\ \A i \in DOMAIN p.activeVars : /\ p.activeVars[i] \in Vars(p)
                                      /\ p.info[p.activeVars[i]].active
    /\ \A v \in Vars(p) : p.info[v].active =>
          /\ p.info[v].intro <= UserLevel(p)
          /\ \E i \in DOMAIN p.activeVars : p.activeVars[i] = v

Ordered(p) ==
    /\ \A k \in DOMAIN p.control : p.control[k] <= Len(p.activeVars)
    /\ \A k \in DOMAIN p.control, i \in DOMAIN p.activeVars :
          i <= p.control[k] <=> p.info[p.activeVars[i]].intro < k
    /\ \A k, l \in DOMAIN p.control : k <= l => p.control[k] <= p.control[l]

\* The active variables that are no atoms are the activation literals, one for
\* each user level.
Activations(p) ==
    /\ \A k \in DOMAIN p.activation :
          /\ p.activation[k] \in Vars(p)
          /\ p.info[p.activation[k]].active
          /\ ~p.info[p.activation[k]].atom
          /\ p.info[p.activation[k]].intro = k
    /\ \A v \in Vars(p) : p.info[v].active /\ ~p.info[v].atom =>
          \E k \in DOMAIN p.activation : p.activation[k] = v

\* d_assignments has the values of the active variables, each once.
Trail(p) ==
    /\ \A i \in DOMAIN p.assignments :
          LET v == Abs(p.assignments[i]) IN
          v \in Vars(p) /\ p.info[v].active /\ p.info[v].assignment = p.assignments[i]
    /\ \A i, j \in DOMAIN p.assignments : p.assignments[i] = p.assignments[j] => i = j
    /\ \A v \in Vars(p) :
          /\ p.info[v].assignment \in {0, v, -v}
          /\ p.info[v].active /\ p.info[v].assignment # 0 =>
                \E i \in DOMAIN p.assignments : p.assignments[i] = p.info[v].assignment

\* How much of the trail does not depend on decisions.
BaseLen(p) == IF p.asgControl = <<>> THEN Len(p.assignments) ELSE p.asgControl[1]

\* d_assignment_control cuts the trail in order; below the first decision every
\* literal is fixed; a fixed variable has a value, and a fixed atom belongs to
\* user level 0.
Marked(p) ==
    /\ \A j \in DOMAIN p.asgControl : p.asgControl[j] <= Len(p.assignments)
    /\ \A j, k \in DOMAIN p.asgControl : j <= k => p.asgControl[j] <= p.asgControl[k]
    /\ \A i \in 1..BaseLen(p) : p.info[Abs(p.assignments[i])].fixed
    /\ \A v \in Vars(p) : p.info[v].fixed =>
          /\ p.info[v].active => p.info[v].assignment # 0
          /\ p.info[v].atom => p.info[v].intro = 0

\* The atoms among the first n literals of the trail.
AtomsTo(p, n) ==
    {lit \in {p.assignments[i] : i \in 1..n} : p.info[Abs(lit)].atom}

\* What the theories were told at each level: below a decision the atoms of the
\* trail at that decision, at the top all of them but what is to be told again;
\* and below a user level the atoms that were fixed there.
InStep(p) ==
    /\ \A i, j \in DOMAIN p.told : i <= j => p.told[i] \subseteq p.told[j]
    /\ \A j \in DOMAIN p.asgControl :
          p.told[UserLevel(p) + j] = AtomsTo(p, p.asgControl[j])
    /\ p.told[Len(p.told)] \union ToSet(p.renotify) = AtomsTo(p, Len(p.assignments))
    /\ p.asgControl # <<>> => p.renotify = <<>>
    /\ \A k \in DOMAIN p.control, i \in DOMAIN p.assignments :
          LET v == Abs(p.assignments[i]) IN
          p.info[v].atom /\ p.info[v].fixed /\ p.info[v].fixedAt < k =>
             p.assignments[i] \in p.told[k] \union ToSet(p.renotify)

\* A clause whose truth no variable of an open user level decides alone: with
\* such a variable there is an activation literal, and none is negated.
Guarded(p, c) ==
    \A lit \in c :
       /\ Abs(lit) \in Vars(p)
       /\ lit < 0 => p.info[Abs(lit)].atom
       /\ p.info[Abs(lit)].atom /\ p.info[Abs(lit)].intro > 0 =>
             \E a \in c : a > 0 /\ ~p.info[a].atom

Tautology(c) == \E lit \in c : -lit \in c

ClausesGuarded(p) ==
    /\ \A c \in p.db : Guarded(p, c) \/ \E v \in Vars(p) : ~p.info[v].active /\ c = {v}
    /\ \A i \in DOMAIN p.newClauses : Tautology(p.newClauses[i]) \/ Guarded(p, p.newClauses[i])

\* A pending propagation is of an active atom and rests on what is known; one
\* that waits without a decision belongs to user level 0.
Pending(p) ==
    /\ Len(p.propagations) <= 1
    /\ \A i \in DOMAIN p.propagations :
          LET e == p.propagations[i] IN
          /\ Abs(e.lit) \in Vars(p) /\ p.info[Abs(e.lit)].active /\ p.info[Abs(e.lit)].atom
          /\ e.why \in p.told[Len(p.told)]
          /\ p.asgControl = <<>> => e.why \in p.told[1] /\ p.info[Abs(e.lit)].intro = 0

Good(p) ==
    /\ Typed(p) /\ Bounded(p) /\ Listed(p) /\ Ordered(p) /\ Activations(p)
    /\ Trail(p) /\ Marked(p) /\ InStep(p) /\ ClausesGuarded(p) /\ Pending(p)
    /\ p.failed \subseteq {"unobserved"}

\* The literals passed over, their levels, and what their models rest on.
PassedOver(p, skipped) ==
    \A i \in skipped : /\ i.level \in 1..Decisions(p)
                       /\ i.model \subseteq p.told[UserLevel(p) + i.level]

\* The search: decisions are there only while CaDiCaL searches, nothing is left to
\* be told then, and a partial model rests on what was known before a decision.
Search(p, searching, late, skipped, model) ==
    /\ searching \in BOOLEAN /\ late \in BOOLEAN
    /\ searching => p.renotify = <<>>
    /\ ~searching => p.asgControl = <<>> /\ skipped = {}
    /\ late => p.asgControl = <<>>
    /\ p.found => /\ p.asgControl # <<>> /\ p.newClauses = <<>>
                  /\ model \subseteq p.told[UserLevel(p) + Decisions(p)]
    /\ PassedOver(p, skipped)

Searching == Search(s, inSearch, lag, ignored, justified)

IInv == Good(s) /\ Searching

-----------------------------------------------------------------------------
(* Literals and sequences. *)

\* The positions of r in q: each once, and r has the elements of q in keep.
Selected(q, keep, r, pos) ==
    /\ \A k \in 1..Len(r) : /\ pos[k] \in 1..Len(q) /\ r[k] = q[pos[k]]
                            /\ q[pos[k]] \in keep
    /\ \A k, l \in 1..Len(r) : pos[k] = pos[l] => k = l
    /\ \A i \in 1..Len(q) : q[i] \in keep => \E k \in 1..Len(r) : pos[k] = i

-----------------------------------------------------------------------------
(* A new variable. *)

\* q has one variable more than p, without a value.
Grown(p, q) ==
    /\ Len(q.info) = Len(p.info) + 1
    /\ \A v \in Vars(p) : q.info[v] = p.info[v]
    /\ LET new == q.info[Len(p.info) + 1] IN
       /\ new \in VarInfo
       /\ new.intro = UserLevel(q) /\ new.fixedAt = 0 /\ new.assignment = 0
       /\ ~new.fixed /\ new.active

\* AtomsTo reads the trail and which variables are atoms.
SameAtoms(p, q) ==
    \A v \in Vars(p) : v \in Vars(q) /\ (q.info[v].atom <=> p.info[v].atom)

\* What AddNewVar changes.
AddedVar(p, q) ==
    /\ Typed(q) /\ Grown(p, q)
    /\ Len(q.activeVars) = Len(p.activeVars) + 1
    /\ \A i \in 1..Len(p.activeVars) : q.activeVars[i] = p.activeVars[i]
    /\ q.activeVars[Len(p.activeVars) + 1] = Len(p.info) + 1
    /\ q.control = p.control /\ q.activation = p.activation
    /\ q.renotify = p.renotify /\ q.assignments = p.assignments
    /\ q.asgControl = p.asgControl /\ q.propagations = p.propagations
    /\ q.newClauses = p.newClauses /\ q.found = p.found /\ q.told = p.told
    /\ q.db = p.db /\ q.failed = p.failed

-----------------------------------------------------------------------------
(* A value for a variable. *)

\* q has the variables of p, with other values at most.
SameNature(p, q) ==
    /\ Vars(q) = Vars(p)
    /\ \A v \in Vars(p) : /\ q.info[v].intro = p.info[v].intro
                          /\ q.info[v].atom <=> p.info[v].atom
                          /\ q.info[v].active <=> p.info[v].active

\* q is p with the value lit for its variable, and perhaps with the variable fixed.
Valued(p, q, lit) ==
    /\ Typed(q) /\ SameNature(p, q)
    /\ \A w \in Vars(p) : w # Abs(lit) => q.info[w] = p.info[w]
    /\ q.info[Abs(lit)].assignment = lit
    /\ \/ /\ q.info[Abs(lit)].fixed <=> p.info[Abs(lit)].fixed
          /\ q.info[Abs(lit)].fixedAt = p.info[Abs(lit)].fixedAt
       \/ q.info[Abs(lit)].fixed /\ q.info[Abs(lit)].fixedAt = UserLevel(p)
    /\ q.activeVars = p.activeVars /\ q.control = p.control /\ q.activation = p.activation
    /\ q.renotify = p.renotify /\ q.asgControl = p.asgControl
    /\ q.propagations = p.propagations /\ q.newClauses = p.newClauses
    /\ q.found = p.found /\ q.db = p.db /\ q.failed = p.failed

\* The literal is put on the trail.
Pushed(p, q, lit) ==
    /\ Len(q.assignments) = Len(p.assignments) + 1
    /\ \A i \in 1..Len(p.assignments) : q.assignments[i] = p.assignments[i]
    /\ q.assignments[Len(p.assignments) + 1] = lit
    /\ Len(q.told) = Len(p.told)
    /\ \A i \in 1..Len(p.told) - 1 : q.told[i] = p.told[i]
    /\ q.told[Len(p.told)] =
          p.told[Len(p.told)] \union {l \in {lit} : p.info[Abs(lit)].atom}

\* What enqueueTheoryLiteral changes.
Told(p, q, lits) ==
    /\ q.told \in Seq(SUBSET Int) /\ Len(q.told) = Len(p.told)
    /\ \A i \in 1..Len(p.told) - 1 : q.told[i] = p.told[i]
    /\ q.told[Len(p.told)] = p.told[Len(p.told)] \union lits

-----------------------------------------------------------------------------
(* What CaDiCaL may fix.  From a model of the clauses one gets another by   *)
(* making the activation literals true and turning an atom above user      *)
(* level 0 around: no such atom is entailed.                               *)

\* x is p with the variable v fixed.
FixedAs(p, x, v) ==
    /\ Typed(x) /\ SameNature(p, x)
    /\ \A w \in Vars(p) : w # v => x.info[w] = p.info[w]
    /\ x.info[v].assignment = p.info[v].assignment
    /\ x.info[v].fixed /\ x.info[v].fixedAt = UserLevel(p)
    /\ x.activeVars = p.activeVars /\ x.control = p.control /\ x.activation = p.activation
    /\ x.renotify = p.renotify /\ x.asgControl = p.asgControl
    /\ x.propagations = p.propagations /\ x.newClauses = p.newClauses
    /\ x.found = p.found /\ x.db = p.db /\ x.failed = p.failed
    /\ x.assignments = p.assignments /\ x.told = p.told

\* x is p with r in the place of what it knows of the variable v.
Replaced(p, x, v, r) ==
    /\ Typed(x) /\ Len(x.info) = Len(p.info)
    /\ \A w \in 1..Len(p.info) : w # v => x.info[w] = p.info[w]
    /\ x.info[v] = r
    /\ x.activeVars = p.activeVars /\ x.control = p.control /\ x.activation = p.activation
    /\ x.renotify = p.renotify /\ x.asgControl = p.asgControl
    /\ x.propagations = p.propagations /\ x.newClauses = p.newClauses
    /\ x.found = p.found /\ x.db = p.db /\ x.failed = p.failed
    /\ x.assignments = p.assignments /\ x.told = p.told

-----------------------------------------------------------------------------
(* A new decision level. *)

\* What notify_new_decision_level changes.
Levelled(p, q) ==
    /\ Typed(q)
    /\ Len(q.told) = Len(p.told) + 1
    /\ \A i \in 1..Len(p.told) : q.told[i] = p.told[i]
    /\ q.told[Len(p.told) + 1] = p.told[Len(p.told)]
    /\ Decisions(q) = Decisions(p) + 1
    /\ \A j \in 1..Decisions(p) : q.asgControl[j] = p.asgControl[j]
    /\ q.asgControl[Decisions(p) + 1] = Len(p.assignments)
    /\ q.info = p.info /\ q.activeVars = p.activeVars /\ q.control = p.control
    /\ q.activation = p.activation /\ q.renotify = p.renotify
    /\ q.assignments = p.assignments /\ q.propagations = p.propagations
    /\ q.newClauses = p.newClauses /\ q.found = p.found /\ q.db = p.db
    /\ q.failed = p.failed

-----------------------------------------------------------------------------
(* Backtracking. *)

\* The trail of q keeps that of p up to cut and the fixed literals above.
TrailCut(p, q, cut, pos) ==
    /\ cut <= Len(q.assignments)
    /\ \A k \in 1..Len(q.assignments) :
          /\ pos[k] \in 1..Len(p.assignments) /\ q.assignments[k] = p.assignments[pos[k]]
          /\ k <= cut => pos[k] = k
          /\ k > cut => pos[k] > cut /\ p.info[Abs(p.assignments[pos[k]])].fixed
    /\ \A k, l \in 1..Len(q.assignments) : pos[k] = pos[l] => k = l
    /\ \A i \in 1..Len(p.assignments) :
          i <= cut \/ p.info[Abs(p.assignments[i])].fixed =>
             \E k \in 1..Len(q.assignments) : pos[k] = i

\* The variable v loses its value when the trail is cut.
Dropped(p, cut, v) ==
    ~p.info[v].fixed /\ \E i \in 1..Len(p.assignments) : i > cut /\ Abs(p.assignments[i]) = v

\* The fixed atoms above cut are told again.
Retold(p, cut) ==
    {lit \in {p.assignments[i] : i \in cut + 1..Len(p.assignments)} :
        p.info[Abs(lit)].fixed /\ p.info[Abs(lit)].atom}

\* What notify_backtrack changes.
Undone(p, q, level) ==
    /\ Typed(q)
    /\ ~q.found
    /\ Len(q.told) = Len(p.told) - (Decisions(p) - level)
    /\ \A i \in 1..Len(q.told) - 1 : q.told[i] = p.told[i]
    /\ q.told[Len(q.told)] = p.told[Len(q.told)] \union Retold(p, p.asgControl[level + 1])
    /\ Decisions(q) = level
    /\ \A j \in 1..level : q.asgControl[j] = p.asgControl[j]
    /\ \E pos : TrailCut(p, q, p.asgControl[level + 1], pos)
    /\ SameNature(p, q)
    /\ \A v \in Vars(p) :
          /\ ~Dropped(p, p.asgControl[level + 1], v) => q.info[v] = p.info[v]
          /\ Dropped(p, p.asgControl[level + 1], v) =>
                /\ q.info[v].assignment = 0
                /\ q.info[v].fixedAt = p.info[v].fixedAt
                /\ ~q.info[v].fixed
    /\ q.propagations = <<>>
    /\ q.activeVars = p.activeVars /\ q.control = p.control
    /\ q.activation = p.activation /\ q.renotify = p.renotify
    /\ q.newClauses = p.newClauses /\ q.db = p.db /\ q.failed = p.failed

\* above is what a has above cut.
Suffix(a, cut, above) ==
    Len(above) = Len(a) - cut /\ \A i \in 1..Len(a) - cut : above[i] = a[cut + i]

\* b is what a has up to cut, and then fixed.
Continued(a, cut, fixed, b) ==
    /\ Len(b) = cut + Len(fixed)
    /\ \A k \in 1..cut : b[k] = a[k]
    /\ \A k \in 1..Len(fixed) : b[cut + k] = fixed[k]

\* b is a up to cut, and then what is in F above.
CutAt(a, b, cut, F, pos) ==
    /\ \A k \in 1..Len(b) :
          /\ pos[k] \in 1..Len(a) /\ b[k] = a[pos[k]]
          /\ k <= cut => pos[k] = k
          /\ k > cut => pos[k] > cut /\ Abs(a[pos[k]]) \in F
    /\ \A k, l \in 1..Len(b) : pos[k] = pos[l] => k = l
    /\ \A i \in 1..Len(a) : i <= cut \/ Abs(a[i]) \in F =>
                              \E k \in 1..Len(b) : pos[k] = i

\* How b is put together from a, position by position.
Pieces(a, cut, f, above, fixed, b, keep, F, at) ==
    LET n == Len(a) IN
    /\ Len(b) = cut + f
    /\ \A i \in 1..n - cut : above[i] = a[cut + i]
    /\ \A k \in 1..cut : b[k] = a[k]
    /\ \A k \in 1..f : b[cut + k] = fixed[k]
    /\ \A k \in 1..f : /\ at[k] \in 1..n - cut /\ fixed[k] = above[at[k]]
                       /\ above[at[k]] \in keep
    /\ \A k, l \in 1..f : at[k] = at[l] => k = l
    /\ \A i \in 1..n - cut : above[i] \in keep => \E k \in 1..f : at[k] = i
    /\ \A i \in 1..n - cut : above[i] \in keep <=> Abs(above[i]) \in F

\* The literals above cut, and the fixed ones among them in their order.
KeepIs(above, keep, F) ==
    keep \subseteq ToSet(above) /\ \A e \in ToSet(above) : e \in keep <=> Abs(e) \in F

CutTrail(a, b, cut, F) ==
    b \in Seq(Int) /\ cut <= Len(b) /\ \E pos : CutAt(a, b, cut, F, pos)

\* The values of the variables when the trail is cut.
CutInfo(p, gone) ==
    [v \in DOMAIN p.info |-> IF {v, -v} \intersect gone # {}
                             THEN [p.info[v] EXCEPT !.assignment = 0] ELSE p.info[v]]

-----------------------------------------------------------------------------
(* Clauses. *)

\* q differs from p in its clauses only.
SameButClauses(p, q) ==
    /\ Typed(q)
    /\ q.info = p.info /\ q.activeVars = p.activeVars /\ q.control = p.control
    /\ q.activation = p.activation /\ q.renotify = p.renotify
    /\ q.assignments = p.assignments /\ q.asgControl = p.asgControl
    /\ q.propagations = p.propagations /\ q.found = p.found /\ q.told = p.told
    /\ q.failed = p.failed

\* A clause over active atoms, as the theories and the input give them.
OverAtoms(p, c) ==
    /\ c \in SUBSET Int
    /\ \A lit \in c : Abs(lit) \in Vars(p) /\ p.info[Abs(lit)].active /\ p.info[Abs(lit)].atom

\* A clause is given to CaDiCaL or buffered.
Buffering(p, g) == [p EXCEPT !.newClauses = Append(@, g)]

Buffered(p, q, g) ==
    /\ SameButClauses(p, q) /\ q.db = p.db
    /\ Len(q.newClauses) = Len(p.newClauses) + 1
    /\ \A i \in 1..Len(p.newClauses) : q.newClauses[i] = p.newClauses[i]
    /\ q.newClauses[Len(p.newClauses) + 1] = g

-----------------------------------------------------------------------------
(* What the theories do when they are called. *)

\* q has what p has, with other clauses and propagations and more atoms perhaps.
Extended(p, q) ==
    /\ Typed(q)
    /\ \A v \in Vars(p) : v \in Vars(q) /\ q.info[v] = p.info[v]
    /\ q.control = p.control /\ q.activation = p.activation /\ q.renotify = p.renotify
    /\ q.assignments = p.assignments /\ q.asgControl = p.asgControl
    /\ q.found = p.found /\ q.told = p.told /\ q.failed = p.failed

\* What a check of a full or partial model leaves.
Checked(p, r) ==
    /\ Good(r.p) /\ Extended(p, r.p)
    /\ r.ok => (p.found /\ r.p = p) \/ r.p.newClauses = <<>>

-----------------------------------------------------------------------------
(* A new user level. *)

\* What push changes.
Opened(p, q) ==
    /\ Typed(q) /\ Grown(p, q) /\ ~q.info[Len(p.info) + 1].atom
    /\ Len(q.told) = Len(p.told) + 1
    /\ \A i \in 1..Len(p.told) : q.told[i] = p.told[i]
    /\ q.told[Len(p.told) + 1] = p.told[Len(p.told)]
    /\ UserLevel(q) = UserLevel(p) + 1
    /\ \A k \in 1..UserLevel(p) : q.control[k] = p.control[k]
    /\ q.control[UserLevel(p) + 1] = Len(p.activeVars)
    /\ Len(q.activation) = Len(p.activation) + 1
    /\ \A k \in 1..Len(p.activation) : q.activation[k] = p.activation[k]
    /\ q.activation[Len(p.activation) + 1] = Len(p.info) + 1
    /\ Len(q.activeVars) = Len(p.activeVars) + 1
    /\ \A i \in 1..Len(p.activeVars) : q.activeVars[i] = p.activeVars[i]
    /\ q.activeVars[Len(p.activeVars) + 1] = Len(p.info) + 1
    /\ q.renotify = p.renotify /\ q.assignments = p.assignments
    /\ q.asgControl = p.asgControl /\ q.propagations = p.propagations
    /\ q.newClauses = p.newClauses /\ q.found = p.found
    /\ q.db = p.db /\ q.failed = p.failed

\* The first part: the context level and the mark in d_active_vars_control.
Raised(p, x) ==
    /\ Typed(x)
    /\ Len(x.told) = Len(p.told) + 1
    /\ \A i \in 1..Len(p.told) : x.told[i] = p.told[i]
    /\ x.told[Len(p.told) + 1] = p.told[Len(p.told)]
    /\ UserLevel(x) = UserLevel(p) + 1
    /\ \A k \in 1..UserLevel(p) : x.control[k] = p.control[k]
    /\ x.control[UserLevel(p) + 1] = Len(p.activeVars)
    /\ x.info = p.info /\ x.activation = p.activation /\ x.activeVars = p.activeVars
    /\ x.renotify = p.renotify /\ x.assignments = p.assignments
    /\ x.asgControl = p.asgControl /\ x.propagations = p.propagations
    /\ x.newClauses = p.newClauses /\ x.found = p.found
    /\ x.db = p.db /\ x.failed = p.failed

Raising(p) == UserPush([p EXCEPT !.told = Append(@, Known(p))])
Activating(p, v) == [p EXCEPT !.activation = Append(@, v)]

\* The last part: the activation literal.
Activated(y, q, w) ==
    /\ Typed(q)
    /\ Len(q.activation) = Len(y.activation) + 1
    /\ \A k \in 1..Len(y.activation) : q.activation[k] = y.activation[k]
    /\ q.activation[Len(y.activation) + 1] = w
    /\ q.told = y.told /\ q.control = y.control
    /\ q.info = y.info /\ q.activeVars = y.activeVars
    /\ q.renotify = y.renotify /\ q.assignments = y.assignments
    /\ q.asgControl = y.asgControl /\ q.propagations = y.propagations
    /\ q.newClauses = y.newClauses /\ q.found = y.found
    /\ q.db = y.db /\ q.failed = y.failed

-----------------------------------------------------------------------------
(* The literals that were fixed above a popped level are told again. *)

LevelInfo(p, lits) ==
    [v \in DOMAIN p.info |-> IF {v, -v} \intersect lits # {}
                             THEN [p.info[v] EXCEPT !.fixedAt = UserLevel(p)] ELSE p.info[v]]

\* What renotify_fixed changes.
Renotified(p, q) ==
    /\ Typed(q) /\ Told(p, q, ToSet(p.renotify)) /\ q.renotify = <<>> /\ SameNature(p, q)
    /\ \A v \in Vars(p) :
          /\ q.info[v].assignment = p.info[v].assignment
          /\ q.info[v].fixed <=> p.info[v].fixed
          /\ q.info[v].fixedAt = p.info[v].fixedAt \/ q.info[v].fixedAt = UserLevel(p)
          /\ v \in ToSet(p.renotify) \/ -v \in ToSet(p.renotify) =>
                q.info[v].fixedAt = UserLevel(p)
          /\ v \notin ToSet(p.renotify) /\ -v \notin ToSet(p.renotify) =>
                q.info[v].fixedAt = p.info[v].fixedAt
    /\ q.activeVars = p.activeVars /\ q.control = p.control /\ q.activation = p.activation
    /\ q.assignments = p.assignments /\ q.asgControl = p.asgControl
    /\ q.propagations = p.propagations /\ q.newClauses = p.newClauses
    /\ q.found = p.found /\ q.db = p.db /\ q.failed = p.failed

-----------------------------------------------------------------------------
(* A user level is popped. *)

\* The variables of the top user level, and what is left of the others.
Gone(p) == {v \in Vars(p) : p.info[v].active /\ p.info[v].intro = UserLevel(p)}

PopInfo(p, gone) ==
    [v \in DOMAIN p.info |->
        IF v \in gone THEN [p.info[v] EXCEPT !.active = FALSE] ELSE p.info[v]]

ActiveIf(r, x, b) ==
    /\ x \in VarInfo /\ x.intro = r.intro /\ x.fixedAt = r.fixedAt
    /\ x.assignment = r.assignment
    /\ x.atom <=> r.atom
    /\ x.fixed <=> r.fixed
    /\ x.active <=> b

PoppedInfo(p, gone, info) ==
    /\ info \in Seq(VarInfo) /\ Len(info) = Len(p.info)
    /\ \A v \in Vars(p) :
          /\ info[v].intro = p.info[v].intro /\ info[v].fixedAt = p.info[v].fixedAt
          /\ info[v].assignment = p.info[v].assignment
          /\ info[v].atom <=> p.info[v].atom
          /\ info[v].fixed <=> p.info[v].fixed
          /\ info[v].active <=> p.info[v].active /\ v \notin gone

Staying(p) == {lit \in ToSet(p.assignments) : Abs(lit) \notin Gone(p)}

\* What user_pop changes.
Closed(p, q) ==
    /\ Typed(q) /\ PoppedInfo(p, Gone(p), q.info)
    /\ UserLevel(q) = UserLevel(p) - 1
    /\ \A k \in 1..UserLevel(p) - 1 : q.control[k] = p.control[k]
    /\ Len(q.activation) = Len(p.activation) - 1
    /\ \A k \in 1..Len(p.activation) - 1 : q.activation[k] = p.activation[k]
    /\ Len(q.activeVars) = p.control[UserLevel(p)]
    /\ \A i \in 1..p.control[UserLevel(p)] : q.activeVars[i] = p.activeVars[i]
    /\ \E pos : Selected(p.assignments, Staying(p), q.assignments, pos)
    /\ \A lit : lit \in ToSet(q.renotify) <=>
          \/ lit \in ToSet(p.renotify)
          \/ /\ lit \in Staying(p) /\ p.info[Abs(lit)].atom
             /\ p.info[Abs(lit)].fixedAt > UserLevel(p) - 1
    /\ \A c \in q.db : c \in p.db \/ \E v \in Gone(p) : c = {v}
    /\ q.asgControl = p.asgControl /\ q.propagations = p.propagations
    /\ q.newClauses = p.newClauses /\ q.found = p.found /\ q.told = p.told
    /\ q.failed = p.failed

Popped(p) == SubSeq(p.activeVars, p.control[UserLevel(p)] + 1, Len(p.activeVars))

\* user_pop, once its Asserts hold and nothing of the top level is kept.
CutBack(p, vs, info, db, stay, renotify) ==
    [p EXCEPT !.control = Front(@), !.activation = Front(@), !.activeVars = vs,
              !.info = info, !.db = db, !.assignments = stay, !.renotify = renotify]

PopVars(p, popTo, popped, keeps) == SubSeq(p.activeVars, 1, popTo) \o Kept(popped, keeps)
PopClauses(p, gone) == {c \in p.db : c \intersect gone = {}} \union {{v} : v \in gone}

Popping(p) ==
    CutBack(p, PopVars(p, p.control[UserLevel(p)], Popped(p), {}),
            PopInfo(p, Gone(p)), PopClauses(p, Gone(p)), Kept(p.assignments, Staying(p)),
            Renotify(p, Kept(p.assignments, Staying(p)), UserLevel(p) - 1))

\* What is told again after user_pop.
Again(p, stay) == {lit \in ToSet(stay) : /\ p.info[Abs(lit)].atom
                                        /\ p.info[Abs(lit)].fixedAt > UserLevel(p) - 1}

\* What pop changes: the context and the propagator go back a level.
Sunk(p, q) ==
    /\ Typed(q) /\ PoppedInfo(p, Gone(p), q.info) /\ Vars(q) = Vars(p)
    /\ UserLevel(q) = UserLevel(p) - 1
    /\ Len(q.told) = Len(p.told) - 1
    /\ \A i \in 1..Len(p.told) - 1 : q.told[i] = p.told[i]
    /\ \A k \in 1..UserLevel(p) - 1 : q.control[k] = p.control[k]
    /\ Len(q.activation) = Len(p.activation) - 1
    /\ \A k \in 1..Len(p.activation) - 1 : q.activation[k] = p.activation[k]
    /\ Len(q.activeVars) = p.control[UserLevel(p)]
    /\ \A i \in 1..p.control[UserLevel(p)] : q.activeVars[i] = p.activeVars[i]
    /\ \E pos : Selected(p.assignments, Staying(p), q.assignments, pos)
    /\ \A lit : lit \in ToSet(q.renotify) <=>
          \/ lit \in ToSet(p.renotify)
          \/ /\ lit \in Staying(p) /\ p.info[Abs(lit)].atom
             /\ p.info[Abs(lit)].fixedAt > UserLevel(p) - 1
    /\ \A c \in q.db : c \in p.db \/ \E v \in Gone(p) : c = {v}
    /\ q.asgControl = p.asgControl /\ q.propagations = p.propagations
    /\ q.newClauses = p.newClauses /\ q.found = p.found /\ q.failed = p.failed

Lowering(p) == [p EXCEPT !.told = Front(@)]

\* p one context level down, all else as it was.
Lowered(p, x) ==
    /\ Typed(x) /\ Listed(x) /\ Ordered(x) /\ Trail(x) /\ Marked(x)
    /\ UserLevel(x) = UserLevel(p) /\ Vars(x) = Vars(p)
    /\ Gone(x) = Gone(p) /\ Staying(x) = Staying(p)
    /\ Len(x.activation) = UserLevel(x) /\ x.asgControl = <<>>
    /\ Len(x.told) = Len(p.told) - 1
    /\ \A i \in 1..Len(p.told) - 1 : x.told[i] = p.told[i]
    /\ x.info = p.info /\ x.activeVars = p.activeVars
    /\ x.control = p.control /\ x.activation = p.activation
    /\ x.renotify = p.renotify /\ x.assignments = p.assignments
    /\ x.propagations = p.propagations /\ x.newClauses = p.newClauses
    /\ x.found = p.found /\ x.db = p.db /\ x.failed = p.failed

-----------------------------------------------------------------------------
(* What a step of the search leaves. *)

\* Everything but d_found_solution and the Asserts.
SameButFlags(p, q) ==
    /\ Typed(q)
    /\ q.info = p.info /\ q.activeVars = p.activeVars /\ q.control = p.control
    /\ q.activation = p.activation /\ q.renotify = p.renotify
    /\ q.assignments = p.assignments /\ q.asgControl = p.asgControl
    /\ q.propagations = p.propagations /\ q.newClauses = p.newClauses
    /\ q.told = p.told /\ q.db = p.db /\ q.failed \subseteq {"unobserved"}

\* CaDiCaL takes over the first buffered clause.
Handing(p, db, rest) == [p EXCEPT !.db = db, !.newClauses = rest]

-----------------------------------------------------------------------------
(* What the clauses say.  Meets keeps the signs of literals out of sight of *)
(* what follows.                                                            *)

Meets(m, c) == \E lit \in c : m[Abs(lit)] = (lit > 0)

\* The clauses CaDiCaL has and the ones waiting for it.
AllClauses(p) == p.db \union ToSet(p.newClauses)
Valuations(p) == [Vars(p) -> BOOLEAN]

\* The literals of a clause are of variables there are.
Within(p, g) == g # {} /\ \A lit \in g : Abs(lit) \in Vars(p)

\* A clause over active atoms of levels up to n.
UpTo(p, c, n) ==
    OverAtoms(p, c) /\ c # {} /\ \A lit \in c : p.info[Abs(lit)].intro <= n

\* The level of a clause.
LevelIs(p, c, n) ==
    UpTo(p, c, n) /\ (n = 0 \/ \E lit \in c : p.info[Abs(lit)].intro = n)

\* The clauses A asserted at the levels and the lemmas L that may stand at level n.
StatedAt(A, L, c, n) == c \in L \/ \E i \in 1..n + 1 : c \in A[i]

\* The activation literals of the levels up to n are false.
Closing(p, m, n) == \A k \in 1..n : ~m[p.activation[k]]

\* With these, the clauses imply c.
Follows(p, c, n) ==
    \A m \in Valuations(p) : Satisfies(m, AllClauses(p)) /\ Closing(p, m, n) => Meets(m, c)

\* Why a clause is there: it is over a popped variable that was made true, says
\* nothing, or is a clause that was stated at some level, behind its guard.
Origin(p, A, L, g) ==
    \/ \E v \in g : v \in Vars(p) /\ ~p.info[v].active
    \/ Tautology(g)
    \/ \E n \in 0..UserLevel(p) : \E c \in SUBSET g :
          g = Guard(p, n) \union c /\ UpTo(p, c, n) /\ StatedAt(A, L, c, n)

Sourced(p, A, L) == \A g \in AllClauses(p) : Within(p, g) /\ Origin(p, A, L, g)

\* What is fixed is entailed, whatever the activation literals are.
FixedHold(p) ==
    \A v \in Vars(p) : p.info[v].fixed /\ p.info[v].active =>
       \A m \in Valuations(p) : Satisfies(m, p.db) => Meets(m, {p.info[v].assignment})

\* What is stated follows at its level.
AssertedFollow(p, A) ==
    /\ A \in Seq(SUBSET SUBSET Int) /\ Len(A) = UserLevel(p) + 1
    /\ \A i \in 1..UserLevel(p) + 1 : \A c \in A[i] : UpTo(p, c, i - 1) /\ Follows(p, c, i - 1)

LemmasFollow(p, L) ==
    \A c \in L : \E n \in 0..UserLevel(p) : LevelIs(p, c, n) /\ Follows(p, c, n)

Meaning(p, A, L) ==
    Sourced(p, A, L) /\ FixedHold(p) /\ AssertedFollow(p, A) /\ LemmasFollow(p, L)

\* r is the part of the valuation m that p knows of.
Narrow(p, m, r) ==
    /\ r \in Valuations(p)
    /\ \A v \in Vars(p) : r[v] = m[v]
    /\ \A c : (\A lit \in c : Abs(lit) \in Vars(p)) => (Meets(r, c) <=> Meets(m, c))

\* q has the variables of p and says at least as much.
Stronger(p, q) ==
    /\ Vars(p) \subseteq Vars(q)
    /\ \A m \in Valuations(q) :
          Satisfies(m, AllClauses(q)) => \A g \in AllClauses(p) : Meets(m, g)
    /\ \A m \in Valuations(q) : Satisfies(m, q.db) => \A g \in p.db : Meets(m, g)

\* Nothing is fixed in q that is not in p.
SameFixed(p, q) ==
    \A v \in Vars(q) : q.info[v].fixed /\ q.info[v].active =>
       /\ v \in Vars(p) /\ p.info[v].fixed /\ p.info[v].active
       /\ q.info[v].assignment = p.info[v].assignment

\* q has the variables of p, with the same levels, and may have new ones.
Kin(p, q) ==
    \A v \in Vars(p) : /\ v \in Vars(q)
                       /\ q.info[v].intro = p.info[v].intro
                       /\ q.info[v].atom <=> p.info[v].atom
                       /\ q.info[v].active <=> p.info[v].active

SameGuards(p, q) == q.activation = p.activation /\ UserLevel(q) = UserLevel(p)

\* The guards of p are guards of q.
GuardsIn(p, q) ==
    \A n \in 0..UserLevel(p) : n \in 0..UserLevel(q) /\ Guard(q, n) = Guard(p, n)

\* What is stated stays stated.
MoreStated(A, L, B, K, top) ==
    \A c : \A n \in 0..top : StatedAt(A, L, c, n) => StatedAt(B, K, c, n)

\* q says what p says: only variables and values are new.
SaysSame(p, q) ==
    /\ Kin(p, q) /\ SameGuards(p, q) /\ Typed(q)
    /\ q.db = p.db /\ q.newClauses = p.newClauses

-----------------------------------------------------------------------------
(* A clause is stated. *)

\* q is p with the clause c behind its guard, or p says c already.
Said(p, q, c, n) ==
    /\ SameButClauses(p, q) /\ n \in 0..UserLevel(p) /\ UpTo(p, c, n)
    /\ Stronger(p, q) /\ Follows(q, c, n)
    /\ \A g \in AllClauses(q) : g \in AllClauses(p) \/ g = Guard(p, n) \union c

\* What p meant, q means too, where B and K state what A and L do and the clause.
StillMeant(q, A, L, B, K) ==
    Sourced(q, B, K) /\ FixedHold(q) /\ AssertedFollow(q, A) /\ LemmasFollow(q, L)

\* A sound state means what it should.
Sound(p, A, L) == Good(p) /\ Meaning(p, A, L)

\* An input more, at the top level.
MoreInput(A, B, c) ==
    /\ A \in Seq(SUBSET SUBSET Int) /\ B \in Seq(SUBSET SUBSET Int) /\ Len(B) = Len(A)
    /\ \A i \in 1..Len(A) : i # Len(A) => B[i] = A[i]
    /\ B[Len(A)] = A[Len(A)] \union {c}

-----------------------------------------------------------------------------
(* User levels. *)

\* The levels of p are levels of q, with the same activation literals.
LevelsIn(p, q, n) ==
    \A k \in 1..n : q.activation[k] = p.activation[k] /\ p.activation[k] \in Vars(p)

\* A is what was asserted below the new level, on which nothing is yet.
NewLevel(A, B) ==
    /\ A \in Seq(SUBSET SUBSET Int) /\ B \in Seq(SUBSET SUBSET Int) /\ Len(B) = Len(A) + 1
    /\ \A i \in 1..Len(A) : B[i] = A[i]
    /\ B[Len(A) + 1] = {}

\* Front(A) is what was asserted below the level.
LastLevel(A, B) ==
    /\ A \in Seq(SUBSET SUBSET Int) /\ B \in Seq(SUBSET SUBSET Int) /\ Len(B) = Len(A) - 1
    /\ \A i \in 1..Len(A) - 1 : B[i] = A[i]

\* The lemmas over what is left.
Left(q, L, K) == \A c : c \in K <=> c \in L /\ \A lit \in c : q.info[Abs(lit)].active

\* What a pop leaves of variables and clauses.
Shrunk(p, q) ==
    /\ Typed(q) /\ Vars(q) = Vars(p) /\ UserLevel(q) = UserLevel(p) - 1
    /\ \A v \in Vars(p) :
          /\ q.info[v].intro = p.info[v].intro /\ q.info[v].assignment = p.info[v].assignment
          /\ q.info[v].atom <=> p.info[v].atom
          /\ q.info[v].fixed <=> p.info[v].fixed
          /\ q.info[v].active <=> p.info[v].active /\ p.info[v].intro # UserLevel(p)
    /\ \A k \in 1..UserLevel(p) - 1 : q.activation[k] = p.activation[k]
    /\ q.newClauses = p.newClauses /\ q.db = PopClauses(p, Gone(p))

-----------------------------------------------------------------------------
(* The meaning of the clauses in a state. *)

\* The state means what was asserted and learned.
Meant == Sound(s, asserted, lemmas)

-----------------------------------------------------------------------------
(* What is in force, and a valuation to test it with. *)

\* all is the valuation m of the active atoms, with the activation literals assumed
\* and the popped variables as they were left.
Assuming(p, m, all) ==
    /\ all \in Valuations(p)
    /\ \A v \in ProblemVars(p) : all[v] = m[v]
    /\ \A k \in 1..UserLevel(p) : ~all[p.activation[k]]
    /\ \A v \in Vars(p) : ~p.info[v].active => all[v]

\* What was stated and is in force.
Standing(p, A, L) ==
    (UNION {A[i] : i \in DOMAIN A}) \union {d \in L : \A lit \in d : Abs(lit) \in ProblemVars(p)}
=============================================================================
