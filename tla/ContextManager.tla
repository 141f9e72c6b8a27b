--------------------------- MODULE ContextManager ---------------------------
(***************************************************************************)
(* How SolverEngine, ContextManager, SolverEngineState, SmtDriver and      *)
(* Assertions keep the user context, the SAT context and the SAT solver's  *)
(* own levels in step while a user asserts, pushes, pops, checks and       *)
(* resets.  The calls one command makes run one after the other in one     *)
(* thread, so each is an operator on the record eng, and an action is the  *)
(* composition of the calls its command makes.                             *)
(*                                                                         *)
(* Context-dependent objects are used by their contract (BacktrackStore):  *)
(* a push saves their values, a pop restores them.  Formulas are names;    *)
(* preprocessing and CNF conversion keep the name of what they convert.    *)
(* The search itself is external: it ends with any answer and any number   *)
(* of decisions left on the trail.                                         *)
(***************************************************************************)
EXTENDS Integers, Sequences, FiniteSets, SequencesExt

CONSTANTS Formula,      \* what a user asserts
          Assumption,   \* what is assumed for one check: by the user, or the
                        \* query of a quantifier elimination
          Definition,   \* global function definitions
          MaxList,      \* bound: formulas in the assertion list
          MaxScopes,    \* bound: open user scopes
          MaxDecisions, \* bound: decisions left by a search
          Queries       \* bound: the modes of the synthesis queries made

ASSUME BoundsAssumption ==
    MaxList \in Nat /\ MaxScopes \in Nat /\ MaxDecisions \in Nat

\* A name tells in which role a formula was given: one that a user both asserts
\* and assumes has two names.
ASSUME NamesAssumption ==
    /\ Formula \intersect Assumption = {}
    /\ Formula \intersect Definition = {}
    /\ Assumption \intersect Definition = {}

VARIABLES
    eng,       \* the solver engine and the objects it owns
    globals,   \* Assertions::d_globalDefineFunLemmas
    run,       \* "on", "thrown" (an unrecoverable exception left), "gone"
    asked,     \* history: the formulas in the SAT solver at the last search
    answer     \* history: the assertion list at the last recorded answer, and
               \* whether the assertions have been reset since

vars == <<eng, globals, run, asked, answer>>

Answers == {"SAT", "UNSAT", "SAT_UNKNOWN"}
Synths == {"ABDUCT", "INTERPOL", "SYNTH", "FIND_SYNTH"}
SmtMode == {"START", "ASSERT"} \union Answers \union Synths

Init ==
    /\ \E option \in BOOLEAN :
       eng = [ incremental |-> option,  \* options().base.incrementalSolving
               saved |-> <<>>,          \* user context: values saved by each push
               cur |-> [list |-> <<>>, index |-> 0, defIndex |-> 0],
               level |-> 0,             \* SAT context
               assertionLevel |-> 0,    \* SAT solver
               decisions |-> 0,
               clauses |-> {},
               pendingPops |-> 0,
               userLevels |-> <<>>,
               needPostsolve |-> FALSE,
               inited |-> FALSE,
               mode |-> "START",
               queryMade |-> FALSE,
               statusSolver |-> FALSE,  \* another engine has the last answer
               checkedAssertions |-> 0,
               checkedLevel |-> 0,
               failed |-> {} ]          \* the code's Asserts that did not hold
    /\ globals = <<>>
    /\ run = "on"
    /\ asked = {}
    /\ answer = [list |-> <<>>, reset |-> FALSE]

UserLevel(e) == Len(e.saved)

\* An Assert of the code: remembers its name when its condition fails.
Check(e, name, cond) == IF cond THEN e ELSE [e EXCEPT !.failed = @ \union {name}]

-----------------------------------------------------------------------------
(* The contexts and the SAT solver. *)

UserPushContext(e) == [e EXCEPT !.saved = Append(@, e.cur)]

UserPopContext(e) ==
    IF e.saved = <<>> THEN Check(e, "pop below level 0", FALSE)
    ELSE [e EXCEPT !.cur = Last(e.saved), !.saved = Front(@)]

\* Solver::push and Solver::pop of the SAT solver, which also move its context.
SatPush(e) ==
    [Check(e, "sat push", e.decisions = 0) EXCEPT
        !.assertionLevel = @ + 1, !.level = @ + 1]

SatPop(e) ==
    [Check(e, "sat pop", e.decisions = 0) EXCEPT
        !.assertionLevel = @ - 1,
        !.level = @ - 1,
        !.clauses = {c \in @ : c[2] < e.assertionLevel}]

ResetTrail(e) == [e EXCEPT !.level = @ - e.decisions, !.decisions = 0]

\* A search leaves its decisions on the trail, one context level for each.
Solve(e, d) == [e EXCEPT !.level = @ + d - e.decisions, !.decisions = d]

-----------------------------------------------------------------------------
(* Assertions and SmtDriver. *)

AddFormulas(e, fs) == [e EXCEPT !.cur.list = @ \o fs]

\* Assertions::refresh.
RefreshDefinitions(e) ==
    [AddFormulas(e, SubSeq(globals, e.cur.defIndex + 1, Len(globals))) EXCEPT
        !.cur.defIndex = Len(globals)]

\* getNextAssertions and assertToInternal: the new part of the list goes to
\* the SAT solver at its current assertion level.
AssertNew(e) ==
    [e EXCEPT
        !.clauses = @ \union
            ToSet(SubSeq(e.cur.list, e.cur.index + 1, Len(e.cur.list)))
                \X {e.assertionLevel},
        !.cur.index = Len(e.cur.list)]

RefreshAssertions(e) == AssertNew(RefreshDefinitions(e))

\* A driver of its own starts at the head of the list; the index of the main
\* driver stays where it is.
AssertAll(e) ==
    [e EXCEPT !.clauses = @ \union ToSet(e.cur.list) \X {e.assertionLevel}]

-----------------------------------------------------------------------------
(* ContextManager. *)

\* A variant: an unsat answer outlives the pop of its assumptions.
NotifyPendingPopIgnored(e) == e

NotifyPendingPop(e) ==
    IF e.mode = "UNSAT" THEN [e EXCEPT !.mode = "ASSERT"] ELSE e

PopPending(e) ==
    NotifyPendingPop([UserPopContext(SatPop(e)) EXCEPT !.pendingPops = @ - 1])

\* A variant: the search's trail is reset after the scopes are popped.
DoPendingPopsFirst(e) ==
    LET done[n \in 0..e.pendingPops] == IF n = 0 THEN e ELSE PopPending(done[n - 1])
        last == Check(done[e.pendingPops], "pending pop",
                      e.pendingPops = 0 \/ e.incremental)
    IN  IF e.needPostsolve
        THEN [ResetTrail(last) EXCEPT !.needPostsolve = FALSE]
        ELSE last

DoPendingPops(e) ==
    LET start == IF e.needPostsolve
                 THEN [ResetTrail(e) EXCEPT !.needPostsolve = FALSE]
                 ELSE e
        done[n \in 0..e.pendingPops] ==
            IF n = 0 THEN start ELSE PopPending(done[n - 1])
    IN  Check(done[e.pendingPops], "pending pop", e.pendingPops = 0 \/ e.incremental)

InternalPush(e) ==
    LET d == DoPendingPops(e)
    IN  IF e.incremental THEN SatPush(UserPushContext(RefreshAssertions(d))) ELSE d

InternalPop(e, immediate) ==
    LET p == IF e.incremental THEN [e EXCEPT !.pendingPops = @ + 1] ELSE e
    IN  IF immediate THEN DoPendingPops(p) ELSE p

\* while (level < user level) internalPop(true)
PopUserTo(e, level) ==
    LET count == UserLevel(e) - level
        done[n \in 0..count] == IF n = 0 THEN e ELSE InternalPop(done[n - 1], TRUE)
    IN  done[count]

\* A variant: the level is recorded after the push instead of before it.
UserPushLate(e) ==
    LET i == InternalPush([e EXCEPT !.mode = "ASSERT"])
    IN  [i EXCEPT !.userLevels = Append(@, UserLevel(i))]

UserPush(e) ==
    InternalPush([e EXCEPT !.mode = "ASSERT",
                           !.userLevels = Append(@, UserLevel(e))])

UserPop(e) ==
    LET a == Check([e EXCEPT !.mode = "ASSERT"], "user pop",
                   Last(e.userLevels) < UserLevel(e))
    IN  [PopUserTo(a, Last(e.userLevels)) EXCEPT !.userLevels = Front(@)]

\* push() and popto(0): both contexts, without the SAT solver.
PushBoth(e) == [UserPushContext(e) EXCEPT !.level = @ + 1]

PopBothToZero(e) ==
    IF e.saved = <<>> THEN [e EXCEPT !.level = 0]
    ELSE [e EXCEPT !.level = 0, !.cur = Head(e.saved), !.saved = <<>>]

NotifyResetAssertions(e) ==
    LET d == DoPendingPops(e)
        done[n \in 0..Len(d.userLevels)] ==
            IF n = 0 THEN d ELSE UserPop(done[n - 1])
        r == done[Len(d.userLevels)]
    IN  PushBoth(PopBothToZero(
            Check(r, "reset assertions", r.userLevels = <<>> /\ UserLevel(r) = 1)))

-----------------------------------------------------------------------------
(* SolverEngine. *)

FinishInit(e) ==
    IF e.inited THEN e
    ELSE Check([PushBoth(e) EXCEPT !.inited = TRUE], "finish init",
               e.assertionLevel = 0)

BeginCall(e) == DoPendingPops(FinishInit(e))

\* getAssertions: no call is begun, so what is refreshed may go to the scope of
\* assumptions that are due to be popped.
CollectAssertions(e) == RefreshDefinitions(FinishInit(e))

\* notifyCheckSatResult and recordCheckedAssertions.
RecordAnswer(e, r, other) ==
    [e EXCEPT !.queryMade = TRUE, !.mode = r, !.statusSolver = other,
              !.checkedAssertions = Len(e.cur.list),
              !.checkedLevel = UserLevel(e)]

ShutDown(e) ==
    LET d == DoPendingPops(e)
    IN  PopBothToZero(IF e.incremental /\ UserLevel(d) > 1 THEN PopUserTo(d, 1) ELSE d)

Room(e, n) == Len(e.cur.list) + n + Len(globals) - e.cur.defIndex <= MaxList

-----------------------------------------------------------------------------
(* The commands. *)

\* declareConst, declareSort: no call is begun, only the mode changes.
Declare ==
    /\ eng' = [eng EXCEPT !.mode = "ASSERT"]
    /\ UNCHANGED <<globals, run, asked, answer>>

\* A variant: the pops that are due are not done before the formula is added.
AssertFormulaStale(f) ==
    /\ Room(eng, 1)
    /\ eng' = AddFormulas(FinishInit(eng), <<f>>)
    /\ UNCHANGED <<globals, run, asked, answer>>

AssertFormula(f) ==
    /\ Room(eng, 1)
    /\ eng' = AddFormulas(BeginCall(eng), <<f>>)
    /\ UNCHANGED <<globals, run, asked, answer>>

\* getAssertions, and what reads them while the model stands (model cores).
GetAssertions ==
    /\ eng' = CollectAssertions(eng)
    /\ UNCHANGED <<globals, run, asked, answer>>

\* blockModel and blockModelValues: the model and the assertions are read, then
\* the model's negation is asserted.
BlockModel(f) ==
    /\ eng.mode \in {"SAT", "SAT_UNKNOWN"}
    /\ Room(eng, 1)
    /\ eng' = AddFormulas(BeginCall(CollectAssertions(eng)), <<f>>)
    /\ UNCHANGED <<globals, run, asked, answer>>

DefineGlobal(d) ==
    /\ Room(eng, 1)
    /\ eng' = BeginCall(eng)
    /\ globals' = Append(globals, d)
    /\ UNCHANGED <<run, asked, answer>>

\* simplify with substitutions.
Simplify ==
    /\ eng' = RefreshAssertions(BeginCall(eng))
    /\ UNCHANGED <<globals, run, asked, answer>>

Push ==
    LET r == RefreshAssertions(BeginCall(eng)) IN
    /\ Len(eng.userLevels) < MaxScopes
    /\ IF eng.incremental
       THEN eng' = UserPush(r) /\ UNCHANGED run
       ELSE eng' = r /\ run' = "thrown"
    /\ UNCHANGED <<globals, asked, answer>>

Pop ==
    LET b == BeginCall(eng) IN
    /\ IF eng.incremental /\ b.userLevels # <<>>
       THEN eng' = UserPop(b) /\ UNCHANGED run
       ELSE /\ eng' = IF eng.incremental THEN [b EXCEPT !.mode = "ASSERT"] ELSE b
            /\ run' = "thrown"
    /\ UNCHANGED <<globals, asked, answer>>

\* In Start mode nothing has been asserted and nothing happens.  Otherwise the
\* prop engine, and with it the SAT solver, is replaced by a new one.
ResetAssertions ==
    /\ eng' = IF ~eng.inited THEN eng
              ELSE [NotifyResetAssertions(eng) EXCEPT
                        !.clauses = {}, !.assertionLevel = 0, !.decisions = 0]
    /\ answer' = [answer EXCEPT !.reset = TRUE]
    /\ UNCHANGED <<globals, run, asked>>

\* Up to the point where the driver has the assumptions in the assertion list.
Assume(e, a) == AddFormulas(IF a = <<>> THEN e ELSE InternalPush(e), a)

StartCheck(a) == Assume([BeginCall(eng) EXCEPT !.mode = "ASSERT"], a)

\* After the search: the assumptions' scope is popped later.
EndCheck(e, a) ==
    LET n == [e EXCEPT !.needPostsolve = TRUE]
    IN  IF a = <<>> THEN n ELSE InternalPop(n, FALSE)

CanCheck == eng.incremental \/ ~eng.queryMade

\* A check that searches and answers r with d decisions on the trail.
CheckSat(a, r, d) ==
    LET s == Solve(RefreshAssertions(StartCheck(a)), d) IN
    /\ CanCheck
    /\ Room(eng, Len(a))
    /\ eng' = RecordAnswer(EndCheck(s, a), r, FALSE)
    /\ asked' = {c[1] : c \in s.clauses}
    /\ answer' = [list |-> s.cur.list, reset |-> FALSE]
    /\ UNCHANGED <<globals, run>>

\* The cumulative resource limit is already spent: unknown, without a search.
CheckSatOutOfResources(a) ==
    LET s == StartCheck(a) IN
    /\ CanCheck
    /\ Room(eng, Len(a))
    /\ eng' = RecordAnswer(EndCheck(s, a), "SAT_UNKNOWN", FALSE)
    /\ answer' = [list |-> s.cur.list, reset |-> FALSE]
    /\ UNCHANGED <<globals, run, asked>>

\* A logic or type exception while the assertions are checked or searched: the
\* trail is reset, the scope of the assumptions stays open.
CheckSatThrows(a, d) ==
    LET s == StartCheck(a) IN
    /\ CanCheck
    /\ Room(eng, Len(a))
    /\ \/ eng' = ResetTrail(s)
       \/ eng' = ResetTrail(Solve(RefreshAssertions(s), d))
    /\ run' = "thrown"
    /\ UNCHANGED <<globals, asked, answer>>

\* The answer differs from the status the input announced.
CheckSatWrongStatus(a, d) ==
    LET s == Solve(RefreshAssertions(StartCheck(a)), d) IN
    /\ CanCheck
    /\ Room(eng, Len(a))
    /\ eng' = [EndCheck(s, a) EXCEPT !.queryMade = TRUE]
    /\ run' = "thrown"
    /\ asked' = {c[1] : c \in s.clauses}
    /\ UNCHANGED <<globals, answer>>

\* A second query without incremental solving.
CheckSatAgain ==
    /\ ~CanCheck
    /\ eng' = BeginCall(eng)
    /\ run' = "thrown"
    /\ UNCHANGED <<globals, asked, answer>>

\* getQuantifierElimination: the driver of its own has the negated query q as
\* its assumption; neither the mode nor the last answer is touched.
StartElimination(q) ==
    Assume(BeginCall(Check(eng, "status solver", ~eng.statusSolver)), <<q>>)

EliminateQuantifiers(q, d) ==
    LET s == Solve(AssertAll(RefreshDefinitions(StartElimination(q))), d) IN
    /\ Room(eng, 1)
    /\ eng' = EndCheck(s, <<q>>)
    /\ asked' = {c[1] : c \in s.clauses}
    /\ UNCHANGED <<globals, run, answer>>

EliminationOutOfResources(q) ==
    /\ Room(eng, 1)
    /\ eng' = EndCheck(StartElimination(q), <<q>>)
    /\ UNCHANGED <<globals, run, asked, answer>>

\* The argument is not quantified, or an exception leaves the check.
EliminationThrows(q, d) ==
    LET s == StartElimination(q) IN
    /\ Room(eng, 1)
    /\ eng' \in { BeginCall(Check(eng, "status solver", ~eng.statusSolver)),
                  ResetTrail(s),
                  ResetTrail(Solve(AssertAll(RefreshDefinitions(s)), d)) }
    /\ run' = "thrown"
    /\ UNCHANGED <<globals, asked, answer>>

\* The search runs in a subsolver, which keeps the model or the proof.
GetTimeoutCore(r) ==
    LET s == RefreshAssertions(BeginCall(eng)) IN
    /\ eng' = RecordAnswer(s, r, TRUE)
    /\ answer' = [list |-> s.cur.list, reset |-> FALSE]
    /\ UNCHANGED <<globals, run, asked>>

\* notifyGetAbduct, notifyGetInterpol, notifyFindSynth, notifyCheckSynthResult.
NotifySynth(e, m, success) ==
    [e EXCEPT !.mode = IF success THEN m ELSE "ASSERT",
              !.queryMade = @ \/ m = "SYNTH"]

\* getAbduct, getInterpolant and their -next forms, which are refused unless the
\* previous one succeeded.
AbductionQuery(m, isNext, success) ==
    LET b == BeginCall(Check(eng, "status solver", ~eng.statusSolver)) IN
    /\ eng' = IF isNext /\ b.mode # m THEN b
              ELSE NotifySynth(IF isNext THEN b ELSE RefreshAssertions(b), m, success)
    /\ UNCHANGED <<globals, run, asked, answer>>

\* checkSynth, findSynth and their -next forms; findSynth first reads the
\* assertions when it takes its grammar from the input, and gives up when it has
\* no grammar.
SygusQuery(m, isNext, success) ==
    LET b == BeginCall(eng) IN
    /\ \/ (isNext => b.mode = m) /\ eng' = NotifySynth(b, m, success)
       \/ isNext /\ b.mode # m /\ eng' = b
       \/ ~isNext /\ m = "FIND_SYNTH" /\ \E e \in {b, RefreshDefinitions(b)} :
             eng' \in {e, NotifySynth(e, m, success)}
    /\ UNCHANGED <<globals, run, asked, answer>>

\* ~SolverEngine: also after an exception.
Destroy ==
    /\ eng' = ShutDown(eng)
    /\ run' = "gone"
    /\ UNCHANGED <<globals, asked, answer>>

Assumptions == {<<>>} \union {<<a>> : a \in Assumption}

Command ==
    \/ Declare \/ Simplify \/ Push \/ Pop \/ ResetAssertions \/ CheckSatAgain
    \/ GetAssertions
    \/ \E f \in Formula : AssertFormula(f) \/ BlockModel(f)
    \/ \E d \in Definition : DefineGlobal(d)
    \/ \E a \in Assumptions, d \in 0..MaxDecisions :
          \/ \E r \in Answers : CheckSat(a, r, d)
          \/ CheckSatThrows(a, d)
          \/ CheckSatWrongStatus(a, d)
    \/ \E a \in Assumptions : CheckSatOutOfResources(a)
    \/ \E q \in Assumption :
          \/ EliminationOutOfResources(q)
          \/ \E d \in 0..MaxDecisions :
                EliminateQuantifiers(q, d) \/ EliminationThrows(q, d)
    \/ \E r \in Answers : GetTimeoutCore(r)
    \/ \E isNext, success \in BOOLEAN :
          \/ \E m \in Queries \intersect {"ABDUCT", "INTERPOL"} :
                AbductionQuery(m, isNext, success)
          \/ \E m \in Queries \intersect {"SYNTH", "FIND_SYNTH"} :
                SygusQuery(m, isNext, success)

\* A failed Assert aborts the program.
Next ==
    /\ eng.failed = {}
    /\ \/ run = "on" /\ Command
       \/ run \in {"on", "thrown"} /\ Destroy

Spec == Init /\ [][Next]_vars

-----------------------------------------------------------------------------
AnyFormula == Formula \union Assumption \union Definition

Values == [list : Seq(AnyFormula), index : 0..MaxList, defIndex : 0..MaxList]

\* Every field has its type; the lists stay within their bound, and an index
\* into a list never points past its end.
TypeOK ==
    /\ eng.incremental \in BOOLEAN
    /\ eng.cur \in Values /\ eng.saved \in Seq(Values)
    /\ \A v \in {eng.cur} \union ToSet(eng.saved) :
          v.index <= Len(v.list) /\ v.defIndex <= Len(globals)
    /\ eng.level \in Nat /\ eng.assertionLevel \in Nat
    /\ eng.decisions \in 0..MaxDecisions /\ eng.pendingPops \in Nat
    /\ eng.clauses \subseteq AnyFormula \X Nat
    /\ eng.userLevels \in Seq(Nat)
    /\ eng.mode \in SmtMode
    /\ eng.checkedAssertions \in 0..MaxList /\ eng.checkedLevel \in Nat
    /\ globals \in Seq(Definition)
    /\ run \in {"on", "thrown", "gone"}
    /\ asked \subseteq AnyFormula
    /\ answer \in [list : Seq(AnyFormula), reset : BOOLEAN]

\* The Asserts of ContextManager, PropEngine and the SAT solver about levels hold
\* on every path, the destructor after an exception included: the SAT solver is
\* only pushed and popped at decision level 0, no context is popped below 0, a
\* user pop has something to pop and reset-assertions finds one scope.
AssertsHold == eng.failed \subseteq {"status solver"}

\* The lists that outlive the next call, and what must not be in them.
Lasting == ToSet(eng.saved) \union (IF eng.pendingPops = 0 THEN {eng.cur} ELSE {})
Unassumed(v) == ToSet(v.list) \intersect Assumption = {}

\* Between commands every open scope is accounted for: the user context has the
\* global scope, one per user push and one per pop that is due, the recorded
\* levels are the ones a pop returns to, and the SAT context and the SAT
\* solver's assertion level follow the user context. What was assumed for one
\* check is in no scope but the one that is due to be popped. Nothing is left
\* open once the engine is destroyed.
ScopesAccounted ==
    /\ TypeOK
    /\ run = "on" /\ eng.inited =>
          /\ UserLevel(eng) = 1 + Len(eng.userLevels) + eng.pendingPops
          /\ eng.assertionLevel = UserLevel(eng) - 1
          /\ eng.level = UserLevel(eng) + eng.decisions
          /\ \A i \in 1..Len(eng.userLevels) : eng.userLevels[i] = i
          /\ eng.decisions > 0 => eng.needPostsolve
    /\ run = "on" /\ eng.incremental => \A v \in Lasting : Unassumed(v)
    /\ run = "gone" => eng.level = 0 /\ eng.saved = <<>> /\ eng.cur.list = <<>>

\* An unsat answer of this engine that still counts (mode UNSAT, assertions not
\* reset since) is about formulas that are all still asserted: a pop that removed
\* one, also the deferred pop of the assumptions, has ended the mode.
UnsatInForceUntilReset ==
    eng.mode = "UNSAT" /\ ~eng.statusSolver /\ ~answer.reset /\ run = "on" =>
        asked \subseteq ToSet(eng.cur.list)

\* The formulas of a list that the user asserted, in their order.
Asserted(list) ==
    LET upto[i \in 0..Len(list)] ==
            IF i = 0 THEN <<>>
            ELSE IF list[i] \in Formula THEN Append(upto[i - 1], list[i])
            ELSE upto[i - 1]
    IN  upto[Len(list)]

\* The assertions of the user in each open scope, outermost first.
Frames(e) ==
    [i \in 1..Len(e.userLevels) + 1 |->
        Asserted(IF i <= Len(e.userLevels)
                 THEN e.saved[e.userLevels[i] + 1].list
                 ELSE e.cur.list)]

Shown == IF run = "gone" THEN << <<>> >> ELSE Frames(eng)

Stack == INSTANCE AssertionStack WITH frames <- Shown, defs <- ToSet(globals)

\* With its lazily popped assumption scopes, its lists that are only refreshed
\* on demand and its three kinds of levels, the engine is the assertion stack
\* of SMT-LIB, and the SAT solver is asked about what is in force, no more and
\* no less.
ImplementsStack == Stack!Spec

-----------------------------------------------------------------------------
(* What comments and Asserts of the code say, and the code does not keep. *)

\* getDifficultyGradient's own test for a reply about the last check.
Checked ==
    /\ eng.inited /\ eng.mode \in Answers
    /\ Len(eng.cur.list) = eng.checkedAssertions
    /\ UserLevel(eng) = eng.checkedLevel

\* solver_engine.cpp: "The reply covers the last check only while its assertion
\* list is unchanged."
CheckedListUnchanged == run = "on" /\ Checked => eng.cur.list = answer.list
=============================================================================
