------------------------- MODULE CadicalPropagator -------------------------
(***************************************************************************)
(* prop/cadical: the IPASIR-UP propagator through which CaDiCaL's search   *)
(* drives the SAT context, the theory proxy and the user levels.           *)
(*                                                                         *)
(* CaDiCaL calls back in the middle of its search; a callback runs to its  *)
(* end before the next, so each handler is an operator on the record s,    *)
(* and an action is what CaDiCaL or cvc5 does together with the handlers   *)
(* it calls.  CaDiCaL is external: it decides and propagates what it       *)
(* likes, backtracks when it likes, and reports a literal as fixed only if *)
(* its clauses entail it.  The theories and the decision engine are what   *)
(* may come back through the theory proxy.                                 *)
(*                                                                         *)
(* Literals are CaDiCaL's integers, clauses are sets of them.              *)
(***************************************************************************)
EXTENDS Integers, Sequences, FiniteSets, SequencesExt

CONSTANTS MaxVar,        \* bound: SAT variables, activation literals included
          MaxUserLevel,  \* bound: nested user pushes
          MaxDecisions,  \* bound: decision levels, activation literals included
          MaxClauses,    \* bound: clauses asserted or learned from the theories
          MaxPending,    \* bound: buffered clauses
          Literal        \* bound: the literals of clauses and decisions

ASSUME BoundsAssumption ==
    /\ MaxVar \in Nat /\ MaxUserLevel \in Nat
    /\ MaxDecisions \in Nat /\ MaxClauses \in Nat /\ MaxPending \in Nat
    /\ Literal \subseteq Int

VARIABLES
    s,          \* propagator, SAT context and clauses of CaDiCaL
    inSearch,   \* d_in_search
    ignored,    \* CaDiCaL: literals on its trail that the propagator passed over,
                \* their level, and the partial model they were passed over for
    lag,        \* CaDiCaL: it has not yet undone a trail that was reset here
    asserted,   \* history: the clauses asserted at each open user level
    lemmas,     \* history: the clauses over active variables that came from the
                \* theories
    justified   \* history: what the theories knew when the partial model was found
                \* that is being completed, {} if there is none

vars == <<s, inSearch, ignored, lag, asserted, lemmas, justified>>

Abs(lit) == IF lit < 0 THEN -lit ELSE lit
LitsOf(vs) == {lit \in Literal : Abs(lit) \in vs}

\* The elements of seq that are in keep, in their order: SelectSeq, stated by
\* positions.
Kept(seq, keep) ==
    LET at == {i \in DOMAIN seq : seq[i] \in keep}
    IN  [k \in 1..Cardinality(at) |->
            seq[CHOOSE i \in at : Cardinality({j \in at : j <= i}) = k]]

Init ==
    /\ s = [ info |-> <<>>,          \* d_var_info
             activeVars |-> <<>>,    \* d_active_vars
             control |-> <<>>,       \* d_active_vars_control
             activation |-> <<>>,    \* d_activation_literals
             renotify |-> <<>>,      \* d_renotify_fixed
             assignments |-> <<>>,   \* d_assignments
             asgControl |-> <<>>,    \* d_assignment_control, as long as d_decisions
             propagations |-> <<>>,  \* d_propagations, with what they rest on
             newClauses |-> <<>>,    \* d_new_clauses
             found |-> FALSE,        \* d_found_solution
             told |-> <<{}>>,        \* per context level: literals enqueued so far
             db |-> {},              \* clauses in CaDiCaL
             failed |-> {} ]         \* Asserts that did not hold
    /\ inSearch = FALSE
    /\ ignored = {}
    /\ lag = FALSE
    /\ asserted = <<{}>>
    /\ lemmas = {}
    /\ justified = {}

-----------------------------------------------------------------------------
(* The propagator's state. *)

UserLevel(p) == Len(p.control)
Decisions(p) == Len(p.asgControl)
Known(p) == Last(p.told)
Vars(p) == DOMAIN p.info
Active(p) == {v \in Vars(p) : p.info[v].active}
ActivationVars(p) == ToSet(p.activation)
ProblemVars(p) == Active(p) \ ActivationVars(p)
Check(p, name, cond) == IF cond THEN p ELSE [p EXCEPT !.failed = @ \union {name}]
MaxOf(set) == CHOOSE n \in set : \A m \in set : m <= n

\* TheoryProxy::enqueueTheoryLiteral, into a queue of the SAT context.
Enqueue(p, lits) ==
    [p EXCEPT !.told[Len(p.told)] = @ \union lits]

\* add_new_var; CaDiCaL observes the variable from now on.
AddNewVar(p, isAtom) ==
    [p EXCEPT
        !.info = Append(@, [intro |-> UserLevel(p), fixedAt |-> 0, assignment |-> 0,
                            atom |-> isAtom, fixed |-> FALSE, active |-> TRUE]),
        !.activeVars = Append(@, Len(p.info) + 1)]

\* notify_assignment of one literal; a batch is one after the other.
NotifyAssignment(p, lit) ==
    LET v == Abs(lit)
        c == Check(p, "assigned both ways", p.info[v].assignment \in {0, lit})
    IN  IF p.found \/ ~p.info[v].active THEN p
        ELSE IF p.info[v].assignment # 0 THEN c
        ELSE LET a == [p EXCEPT !.info[v].assignment = lit,
                                !.assignments = Append(@, lit)]
             IN  IF p.info[v].atom THEN Enqueue(a, {lit}) ELSE a

NotifyFixedAssignment(p, lit) ==
    LET v == Abs(lit) IN
    IF v \notin Vars(p) \/ ~p.info[v].active THEN p
    ELSE NotifyAssignment(
            [Check(p, "fixed twice", ~p.info[v].fixed) EXCEPT
                !.info[v].fixed = TRUE, !.info[v].fixedAt = UserLevel(p)], lit)

NotifyNewDecisionLevel(p) ==
    [p EXCEPT !.told = Append(@, Known(p)),
              !.asgControl = Append(@, Len(p.assignments))]

\* What is above the level on the trail and fixed stays and is told again.
Backtrack(p, level, reset) ==
    LET above == SubSeq(p.assignments, p.asgControl[level + 1] + 1, Len(p.assignments))
        fixed == Kept(above, {lit \in ToSet(above) : p.info[Abs(lit)].fixed})
        atoms == {lit \in ToSet(fixed) : p.info[Abs(lit)].atom}
    IN  Enqueue(
          [Check(p, "context level", Len(p.told) - 1 > level) EXCEPT
            !.found = IF reset THEN FALSE ELSE @,
            !.told = SubSeq(@, 1, Len(@) - (Decisions(p) - level)),
            !.asgControl = SubSeq(@, 1, level),
            !.assignments = SubSeq(@, 1, p.asgControl[level + 1]) \o fixed,
            !.info = [v \in DOMAIN @ |->
                        IF {v, -v} \intersect (ToSet(above) \ ToSet(fixed)) # {}
                        THEN [@[v] EXCEPT !.assignment = 0] ELSE @[v]],
            !.propagations = <<>>],
          atoms)

\* A variant: fixed literals are not told again.
NotifyBacktrackNoRenotify(p, level) ==
    IF Decisions(p) <= level THEN p
    ELSE [Backtrack(p, level, TRUE) EXCEPT
            !.told = SubSeq(p.told, 1, Len(p.told) - (Decisions(p) - level))]

\* A variant: the flag of a partial model survives.
NotifyBacktrackKeepsFound(p, level) ==
    IF Decisions(p) <= level THEN p ELSE Backtrack(p, level, FALSE)

\* A variant: pending propagations survive.
NotifyBacktrackKeepsPropagations(p, level) ==
    IF Decisions(p) <= level THEN p
    ELSE [Backtrack(p, level, TRUE) EXCEPT !.propagations = p.propagations]

\* CaDiCaL may backtrack over levels that were already reset here.
NotifyBacktrack(p, level) ==
    IF Decisions(p) <= level THEN Check(p, "unknown level", Decisions(p) = 0)
    ELSE Backtrack(p, level, TRUE)

-----------------------------------------------------------------------------
(* Clauses. *)

IntroLevels(p, c) == {p.info[Abs(lit)].intro : lit \in c}

\* activation_lit, as the literals to put before the clause.
Guard(p, level) == IF level = 0 THEN {} ELSE {p.activation[level]}

\* clause_user_level.
ClauseUserLevel(p, c) == MaxOf({0} \union IntroLevels(p, c))

SatisfiedByFixed(p, c) ==
    \E lit \in c : p.info[Abs(lit)].fixed /\ p.info[Abs(lit)].assignment = lit

ClauseAsserts(p, c) ==
    LET q == Check(p, "inactive variable", \A lit \in c : p.info[Abs(lit)].active)
    IN  Check(q, "fixed without value",
              \A lit \in c : p.info[Abs(lit)].fixed => p.info[Abs(lit)].assignment # 0)

\* A variant: asserted clauses are guarded as lemmas are.
AddClauseLow(p, c, searching) ==
    IF SatisfiedByFixed(p, c) THEN p
    ELSE LET g == Guard(p, ClauseUserLevel(p, c)) \union c
         IN  IF searching THEN [p EXCEPT !.newClauses = Append(@, g)]
             ELSE [p EXCEPT !.db = @ \union {g}]

\* add_clause: buffered during the search, otherwise given to CaDiCaL.
AddClause(p, c, searching) ==
    LET q == ClauseAsserts(p, c)
        level == MaxOf({IF searching THEN 0 ELSE UserLevel(p), ClauseUserLevel(p, c)})
        g == Guard(p, level) \union c
    IN  IF SatisfiedByFixed(p, c) THEN q
        ELSE IF searching THEN [q EXCEPT !.newClauses = Append(@, g)]
        ELSE [q EXCEPT !.db = @ \union {g}]

\* The reason to reject a model when there is no other.
AddTautology(p) == [p EXCEPT !.newClauses = Append(@, {1, -1})]

-----------------------------------------------------------------------------
(* CaDiCaL and the theories. *)

\* m makes every clause of cs true; m maps variables to BOOLEAN.
Satisfies(m, cs) == \A c \in cs : \E lit \in c : m[Abs(lit)] = (lit > 0)

\* CaDiCaL does not keep a clause that is always true.
Store(db, c) == IF \E lit \in c : -lit \in c THEN db ELSE db \union {c}

Models(p) == {m \in [Vars(p) -> BOOLEAN] : Satisfies(m, p.db)}

\* A literal is derived from clauses that do not conflict: CaDiCaL stops at once
\* when they do.
Entails(p, lit) ==
    Models(p) # {} /\ \A m \in Models(p) : m[Abs(lit)] = (lit > 0)

\* The variables that have a value on CaDiCaL's trail.
Assigned(p) == {Abs(lit) : lit \in ToSet(p.assignments) \union {i.lit : i \in ignored}}

Clauses(p) ==
    {c \in SUBSET LitsOf(ProblemVars(p)) :
        Cardinality(c) \in 1..2 /\ \A lit \in c : -lit \notin c}

ClauseCount ==
    Cardinality(lemmas) + Cardinality(UNION {asserted[i] : i \in DOMAIN asserted})

\* What a call to the theories or the decision engine may do on the way: create
\* a variable, add a clause.  A set of pairs of the new state and the clauses.
Outputs(p) ==
    LET created == {p} \union (IF Len(p.info) < MaxVar THEN {AddNewVar(p, TRUE)} ELSE {})
    IN  {<<q, {}>> : q \in created} \union
        UNION {{<<AddClause(q, c, TRUE), {c}>> :
                    c \in IF ClauseCount < MaxClauses THEN Clauses(q) \ lemmas ELSE {}} :
               q \in created}

\* What a theory propagates: a literal, and a literal of its explanation.
Propagations(p) ==
    {[lit |-> lit, why |-> w] :
        lit \in LitsOf({v \in ProblemVars(p) : p.info[v].atom /\ p.info[v].assignment = 0}),
        w \in IF ClauseCount < MaxClauses THEN Known(p) ELSE {}}

\* The explanations of what is still to be propagated, added as clauses.
Explanation(e) == {e.lit, -e.why}
Explain(p, e) == AddClause(p, Explanation(e), TRUE)
ExplainAll(p) == [FoldLeft(Explain, p, p.propagations) EXCEPT !.propagations = <<>>]

Explanations(p) == {Explanation(e) : e \in ToSet(p.propagations)}

\* A variant: a model is accepted although the theories have added a clause.
CheckFoundModelNotDone(p) ==
    IF p.found THEN {[p |-> p, ok |-> TRUE, new |-> {}]}
    ELSE {[p |-> ExplainAll(t[1]), ok |-> TRUE, new |-> t[2]] : t \in Outputs(p)}

\* What cb_check_found_model may do, with its answer and the lemmas on the way.
\* Its loop is one turn: Outputs has what the theories do in any number of them,
\* and what they propagate meanwhile is explained as a lemma is.
CheckFoundModel(p) ==
    IF p.found THEN {[p |-> p, ok |-> TRUE, new |-> {}]}
    ELSE IF p.newClauses # <<>> THEN {[p |-> AddTautology(p), ok |-> FALSE, new |-> {}]}
    ELSE \* a theory decision created a variable
         {[p |-> d[1], ok |-> FALSE, new |-> d[2]] :
             d \in {o \in Outputs(p) : Len(o[1].info) # Len(p.info)}}
         \union
         {LET grown == Len(t[1].info) # Len(p.info)
              q == ExplainAll(t[1])
          IN  [p |-> IF grown THEN AddTautology(q) ELSE q,
               ok |-> ~grown /\ q.newClauses = <<>>,
               new |-> t[2] \union Explanations(p)] : t \in Outputs(p)}

-----------------------------------------------------------------------------
(* cvc5 outside the search: CadicalSolver. *)

\* newVar for a theory atom; activation literals stand for the variables that
\* are none.
NewVar ==
    /\ ~inSearch /\ Len(s.info) < MaxVar
    /\ s' = AddNewVar(s, TRUE)
    /\ UNCHANGED <<inSearch, ignored, lag, asserted, lemmas, justified>>

AssertClause(c) ==
    /\ ~inSearch /\ ClauseCount < MaxClauses
    /\ s' = AddClause(s, c, FALSE)
    /\ asserted' = [asserted EXCEPT ![Len(asserted)] = @ \union {c}]
    /\ UNCHANGED <<inSearch, ignored, lag, lemmas, justified>>

UserPush(p) == [p EXCEPT !.control = Append(@, Len(p.activeVars))]

\* push: the activation literal is created above the new level.
Push ==
    /\ ~inSearch /\ UserLevel(s) < MaxUserLevel /\ Len(s.info) < MaxVar
    /\ s' = [AddNewVar(UserPush([s EXCEPT !.told = Append(@, Known(s))]), FALSE)
                EXCEPT !.activation = Append(@, Len(s.info) + 1)]
    /\ asserted' = Append(asserted, {})
    /\ UNCHANGED <<inSearch, ignored, lag, lemmas, justified>>

\* The literals fixed above the level have to be told again before a search.
Renotify(p, lits, level) ==
    p.renotify \o Kept(lits, {lit \in ToSet(lits) : /\ p.info[Abs(lit)].atom
                                                    /\ p.info[Abs(lit)].fixedAt > level})

\* user_pop: variables above the level become inactive and true, and with the
\* activation literal among them the clauses they guard are satisfied, so that
\* CaDiCaL collects them.
UserPop(p) ==
    LET level == UserLevel(p) - 1
        popTo == Last(p.control)
        popped == SubSeq(p.activeVars, popTo + 1, Len(p.activeVars))
        keeps == {v \in ToSet(popped) :
                    p.info[v].fixed /\ p.info[v].atom /\ p.info[v].intro <= level}
        gone == ToSet(popped) \ keeps
        stay == Kept(p.assignments, {lit \in ToSet(p.assignments) : Abs(lit) \notin gone})
        q == Check(Check(Check(p,
                "intro level", \A v \in gone : p.info[v].intro > level),
                "pop in search", Decisions(p) = 0),
                "not fixed", \A lit \in ToSet(p.assignments) : p.info[Abs(lit)].fixed)
    IN  [q EXCEPT
            !.control = Front(@),
            !.activation = Front(@),
            !.activeVars = SubSeq(@, 1, popTo) \o Kept(popped, keeps),
            !.info = [v \in DOMAIN @ |->
                        IF v \in gone THEN [@[v] EXCEPT !.active = FALSE] ELSE @[v]],
            !.db = {c \in @ : c \intersect gone = {}} \union {{v} : v \in gone},
            !.assignments = stay,
            !.renotify = Renotify(p, stay, level)]

Pop ==
    /\ ~inSearch /\ UserLevel(s) > 0
    /\ s' = UserPop([s EXCEPT !.told = Front(@)])
    /\ asserted' = Front(asserted)
    /\ lemmas' = {c \in lemmas : \A lit \in c : s'.info[Abs(lit)].active}
    /\ UNCHANGED <<inSearch, ignored, lag, justified>>

\* renotify_fixed.
RenotifyFixed(p) ==
    LET lits == ToSet(p.renotify)
        q == Enqueue(p, lits)
    IN  [q EXCEPT !.renotify = <<>>,
                  !.info = [v \in DOMAIN @ |-> IF {v, -v} \intersect lits # {}
                                               THEN [@[v] EXCEPT !.fixedAt = UserLevel(p)]
                                               ELSE @[v]]]

\* _solve up to the call of CaDiCaL.
StartSolve ==
    /\ ~inSearch
    /\ s' = RenotifyFixed(s)
    /\ inSearch' = TRUE
    /\ UNCHANGED <<ignored, lag, asserted, lemmas, justified>>

\* The end of _solve.  Before anything else cvc5 calls resetTrail; CaDiCaL goes
\* back itself only when it is used again.
EndSolve(p) ==
    /\ s' = NotifyBacktrack(p, 0)
    /\ inSearch' = FALSE
    /\ lag' = (Decisions(p) > 0)
    /\ ignored' = {} /\ justified' = {}

\* CaDiCaL gives up, or finds that the clauses or the assumptions conflict.
GiveUp ==
    /\ inSearch
    /\ EndSolve(s)
    /\ UNCHANGED <<asserted, lemmas>>

-----------------------------------------------------------------------------
(* CaDiCaL's search and the callbacks it makes. *)

\* CaDiCaL notices late that its trail is to go; the propagator is there already.
LateBacktrack ==
    /\ lag
    /\ s' = NotifyBacktrack(s, 0)
    /\ lag' = FALSE
    /\ UNCHANGED <<inSearch, ignored, asserted, lemmas, justified>>

\* The trail with lit on it, and the propagator's view of it.
Assign(p, lit, level) ==
    /\ s' = NotifyAssignment(p, lit)
    /\ ignored' = IF ~p.found THEN ignored
                  ELSE ignored \union {[lit |-> lit, level |-> level, model |-> justified']}

\* The first decisions are the assumptions, the negated activation literals.
DecideActivation ==
    /\ inSearch /\ ~lag
    /\ Decisions(s) < UserLevel(s) /\ Decisions(s) < MaxDecisions
    /\ UNCHANGED <<inSearch, lag, asserted, lemmas, justified>>
    /\ LET alit == s.activation[Decisions(s) + 1] IN
       /\ alit \notin Assigned(s)
       /\ Assign(NotifyNewDecisionLevel(s), -alit, Decisions(s) + 1)

\* cb_decide when the decision engine has a literal or leaves it to CaDiCaL.  What
\* getNextDecisionRequest creates on the way is created by CbPropagateCheck before.
Decide(lit) ==
    /\ inSearch /\ ~lag
    /\ Decisions(s) \in UserLevel(s)..MaxDecisions - 1
    /\ Abs(lit) \in ProblemVars(s) \ Assigned(s)
    /\ UNCHANGED <<inSearch, lag, asserted, lemmas, justified>>
    /\ Assign(NotifyNewDecisionLevel(s), lit, Decisions(s) + 1)

\* cb_decide when the decision engine stops the search: the partial model is
\* checked, and CaDiCaL takes a decision of its own.
DecideStopSearch(lit) ==
    /\ inSearch /\ ~lag /\ ~s.found
    /\ Decisions(s) \in UserLevel(s)..MaxDecisions - 1
    /\ Len(s.newClauses) < MaxPending
    /\ Abs(lit) \in ProblemVars(s) \ Assigned(s)
    /\ \E r \in CheckFoundModel(s), done \in BOOLEAN :
          /\ lemmas' = lemmas \union r.new
          /\ justified' = IF r.ok /\ done THEN Known(s) ELSE {}
          /\ Assign(NotifyNewDecisionLevel([r.p EXCEPT !.found = r.ok /\ done]),
                    lit, Decisions(s) + 1)
    /\ UNCHANGED <<inSearch, lag, asserted>>

\* CaDiCaL propagates a literal by one of its clauses.
Propagate(lit) ==
    /\ inSearch /\ ~lag /\ Decisions(s) > 0
    /\ Abs(lit) \in ProblemVars(s) \ Assigned(s)
    /\ UNCHANGED <<inSearch, lag, asserted, lemmas, justified>>
    /\ Assign(s, lit, Decisions(s))

\* A literal is fixed at whatever level CaDiCaL is; no literal is once a partial
\* model has been accepted, or the Assert in add_clause would not hold.
Fix(lit) ==
    /\ ~lag /\ ~s.found
    /\ Abs(lit) \in Active(s)
    /\ ~s.info[Abs(lit)].fixed
    /\ s.info[Abs(lit)].assignment \in {0, lit}
    /\ \A i \in ignored : i.lit # -lit
    /\ Entails(s, lit)
    /\ s' = NotifyFixedAssignment(s, lit)
    /\ ignored' = {i \in ignored : i.lit # lit}
    /\ UNCHANGED <<inSearch, lag, asserted, lemmas, justified>>

BacktrackTo(level) ==
    /\ inSearch /\ ~lag /\ level < Decisions(s)
    /\ s' = NotifyBacktrack(s, level)
    /\ ignored' = {i \in ignored : i.level <= level}
    /\ justified' = IF s'.found THEN justified ELSE {}
    /\ UNCHANGED <<inSearch, lag, asserted, lemmas>>

\* cb_propagate without anything pending: a theory check.
CbPropagateCheck ==
    /\ inSearch /\ ~lag /\ ~s.found
    /\ s.propagations = <<>> /\ Decisions(s) >= UserLevel(s)
    /\ \/ \E o \in Outputs(s) : s' = o[1] /\ lemmas' = lemmas \union o[2]
       \/ /\ \E e \in Propagations(s) : s' = [s EXCEPT !.propagations = <<e>>]
          /\ UNCHANGED lemmas
    /\ UNCHANGED <<inSearch, ignored, lag, asserted, justified>>

\* cb_propagate hands out the next propagation: CaDiCaL assigns the literal, has
\* it already, or asks for the reason (cb_add_reason_clause_lit) and conflicts.
\* A reason that CaDiCaL asks for later, when it analyzes a conflict, is not modelled.
CbPropagateNext ==
    /\ inSearch /\ ~lag /\ ~s.found
    /\ s.propagations # <<>>
    /\ LET e == Head(s.propagations)
           q == [s EXCEPT !.propagations = Tail(@)]
           reason == Explanation(e)
       IN  \/ /\ Abs(e.lit) \notin Assigned(s)
              /\ Decisions(s) > 0
              /\ UNCHANGED <<lemmas, justified>>
              /\ Assign(q, e.lit, Decisions(s))
           \/ /\ Abs(e.lit) \in Assigned(s)
              /\ s' = q
              /\ UNCHANGED <<ignored, lemmas, justified>>
           \/ /\ ClauseCount < MaxClauses
              /\ s' = [q EXCEPT !.db = @ \union
                        {Guard(s, ClauseUserLevel(s, reason)) \union reason}]
              /\ lemmas' = lemmas \union {reason}
              /\ UNCHANGED <<ignored, justified>>
    /\ UNCHANGED <<inSearch, lag, asserted>>

\* cb_has_external_clause and cb_add_external_clause_lit, one clause.
CbAddExternalClause ==
    /\ inSearch /\ ~lag
    /\ s.newClauses # <<>>
    /\ s' = [Check(s, "unobserved", \A lit \in Head(s.newClauses) : s.info[Abs(lit)].active)
                EXCEPT !.db = Store(@, Head(s.newClauses)), !.newClauses = Tail(@)]
    /\ UNCHANGED <<inSearch, ignored, lag, asserted, lemmas, justified>>

\* A full assignment: cb_check_found_model accepts it, and the answer is sat, or
\* the search goes on.
CbCheckFoundModel ==
    /\ inSearch /\ ~lag
    /\ Active(s) \subseteq Assigned(s)
    /\ Len(s.newClauses) < MaxPending
    /\ \E r \in CheckFoundModel(s) :
          /\ lemmas' = lemmas \union r.new
          /\ IF r.ok THEN EndSolve(Check(r.p, "done", r.p.newClauses = <<>>))
             ELSE s' = r.p /\ UNCHANGED <<inSearch, ignored, lag, justified>>
    /\ UNCHANGED asserted

Next ==
    \/ NewVar
    \/ \E c \in Clauses(s) : AssertClause(c)
    \/ Push \/ Pop \/ StartSolve \/ GiveUp
    \/ LateBacktrack \/ DecideActivation
    \/ \E lit \in LitsOf(Active(s)) :
          Decide(lit) \/ DecideStopSearch(lit) \/ Propagate(lit)
    \/ \E v \in Active(s) : Fix(v) \/ Fix(-v)
    \/ \E level \in 0..MaxDecisions : BacktrackTo(level)
    \/ CbPropagateCheck \/ CbPropagateNext
    \/ CbAddExternalClause \/ CbCheckFoundModel

Spec == Init /\ [][Next]_vars

-----------------------------------------------------------------------------
Lits == -MaxVar..MaxVar

\* The type invariant: every field has its type, and variables, levels and
\* control stacks stay within one another.
TypeOK ==
    /\ Len(s.info) <= MaxVar
    /\ \A v \in Vars(s) :
          /\ s.info[v].intro \in 0..MaxUserLevel /\ s.info[v].fixedAt \in 0..MaxUserLevel
          /\ s.info[v].assignment \in {0, v, -v}
          /\ {s.info[v].atom, s.info[v].fixed, s.info[v].active} \subseteq BOOLEAN
    /\ ToSet(s.activeVars) = Active(s)
    /\ s.control \in Seq(0..Len(s.activeVars))
    /\ s.activation \in Seq(Active(s)) /\ Len(s.activation) = UserLevel(s)
    /\ s.asgControl \in Seq(0..Len(s.assignments))
    /\ s.renotify \in Seq(Lits) /\ s.assignments \in Seq(Lits)
    /\ s.told \in Seq(SUBSET Lits)
    /\ {inSearch, lag} \subseteq BOOLEAN

\* The Asserts of the propagator hold: no literal is assigned both ways or fixed
\* twice, user_pop finds only fixed literals and no decision, clauses are over
\* active variables, and a sat answer leaves nothing to add.
AssertsHold == TypeOK /\ s.failed \subseteq {"unobserved"}

\* While CaDiCaL searches, decides, backtracks and fixes literals at any level,
\* the theories know the values of the observed atoms that the propagator has
\* recorded, no more and no less, although the context forgets what it was told
\* on every pop and CaDiCaL never repeats a fixed literal; and the context has
\* one level per user level and decision.
TheoryInSync ==
    /\ Len(s.told) = 1 + UserLevel(s) + Decisions(s)
    /\ inSearch =>
          Known(s) = {lit \in ToSet(s.assignments) : s.info[Abs(lit)].atom}

\* Every propagation still to be handed out rests on something the theories
\* still know, so that its explanation can be asked for.
PropagationsJustified ==
    \A e \in ToSet(s.propagations) : e.why \in Known(s)

\* A literal that notify_assignment passed over because a partial model had been
\* found is on the trail only as long as that model is: a full assignment is
\* never accepted with an atom the theories have not seen and no partial model
\* underneath.
PartialModelStands ==
    /\ s.found => justified \subseteq Known(s)
    /\ \A i \in ignored : i.model \subseteq Known(s)

\* With the activation literals assumed, CaDiCaL's clauses and the ones waiting
\* for it say what is asserted at the open user levels together with the lemmas
\* over the variables that are left, no more and no less: guards, filtered
\* clauses and values forced on popped variables neither lose a clause nor let
\* one outlive its level.
ClausesInForce ==
    LET inForce == (UNION {asserted[i] : i \in DOMAIN asserted}) \union
                   {c \in lemmas : \A lit \in c : Abs(lit) \in ProblemVars(s)}
    IN  \A m \in [ProblemVars(s) -> BOOLEAN] :
          LET all == [v \in Vars(s) |-> IF v \in ProblemVars(s) THEN m[v]
                                        ELSE v \notin ActivationVars(s)]
          IN  Satisfies(m, inForce) <=> Satisfies(all, s.db \union ToSet(s.newClauses))
=============================================================================
