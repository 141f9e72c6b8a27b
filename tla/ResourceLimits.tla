--------------------------- MODULE ResourceLimits ---------------------------
(***************************************************************************)
(* A check under resource and time limits: ResourceManager counts what is  *)
(* spent and notifies, PropEngine::interrupt raises flags, and the SAT     *)
(* solver, the theory engine, PropEngine and the driver each look at flags *)
(* or counters at places of their own.                                     *)
(*                                                                         *)
(* A check runs as a sequence of steps between pc = "driver" and "idle".   *)
(* s holds the counters and flags, t one call of TheoryEngine::check.  The *)
(* search is abstracted to its control: whether there is a conflict, what  *)
(* the theories answer and what is spent meanwhile is a choice; the search *)
(* of CaDiCaL is external.  Left out: incomplete theories (which answer    *)
(* unknown anyway), the assumptions' scope (see ContextManager), restarts  *)
(* of the whole solver, and models, built with the limits switched off.    *)
(* Lemmas are added to the clauses where they are sent: what updateLemmas  *)
(* spends is part of what the theories spend, and a conflict they are in   *)
(* is found after the theories rather than before the next check.          *)
(***************************************************************************)
EXTENDS Integers, Sequences, FiniteSets

CONSTANTS Theories,      \* number of theories that check
          MaxLimit,      \* bound: limits, and what is counted of the spending
          MaxLevel,      \* bound: decision levels
          MaxUserLevel,  \* bound: user contexts
          MaxOutputs     \* bound: lemmas and propagations of the theories in a check

ASSUME LimitsAssumption ==
    /\ Theories \in Nat \ {0}
    /\ MaxLimit \in Nat /\ MaxLevel \in Nat /\ MaxUserLevel \in Nat /\ MaxOutputs \in Nat

VARIABLES pc,        \* where the check is
          sat,       \* options: the SAT solver
          limits,    \* options: units per call and altogether, time; 0 is none
          s,         \* ResourceManager, PropEngine and MiniSat
          t,         \* the theory check under way or the last one
          level,     \* decision level
          outputs,   \* what the theories may still send in this check
          status,    \* what the search returned
          answer,    \* what checkSat is about to return
          refuted,   \* history: user levels at which the search found a conflict
                     \* that depends on no decision
          raised     \* history: a check has ended in an exception with an interrupt
                     \* raised, which no search has cleared since

vars == <<pc, sat, limits, s, t, level, outputs, status, answer, refuted, raised>>

-----------------------------------------------------------------------------
(* ResourceManager and the listener. *)

OutOfResources(g) ==
    \/ limits.call > 0 /\ g.call >= limits.call
    \/ limits.total > 0 /\ g.total >= limits.total

OutOfTime(g) == limits.time /\ g.timer = "expired"

Out(g) == OutOfResources(g) \/ OutOfTime(g)

\* ResourceOutListener::notify, down to PropEngine::interrupt.
Interrupt(g) ==
    IF g.inCheckSat THEN [g EXCEPT !.interrupted = TRUE, !.asynchInterrupt = TRUE] ELSE g

\* More than MaxLimit is no different from it: no limit is higher.
AddUnit(n) == IF n < MaxLimit THEN n + 1 ELSE n

SpendResource(g) ==
    LET q == [g EXCEPT !.total = AddUnit(@), !.call = AddUnit(@)]
    IN  IF Out(q) THEN Interrupt(q) ELSE q

BeginCall(g) ==
    [g EXCEPT !.timer = IF limits.time THEN "on" ELSE "off", !.call = 0]

Refresh(g) == [g EXCEPT !.timer = "off", !.call = 0]

\* Something that costs, or does not.
MaySpend(g) == {g, SpendResource(g)}

-----------------------------------------------------------------------------
(* SolverEngine, the driver and PropEngine up to the search. *)

NoCheck ==
    [ effort |-> "standard", left |-> 0, facts |-> FALSE, lemma |-> FALSE,
      conflict |-> FALSE, used |-> FALSE, complete |-> FALSE ]

Unknown(why) == [status |-> "unknown", why |-> why, checked |-> FALSE]

Init ==
    /\ pc = "idle"
    /\ sat \in {"minisat", "cadical"}
    /\ limits \in [call : 0..MaxLimit, total : 0..MaxLimit, time : BOOLEAN]
    /\ s = [ total |-> 0, call |-> 0, timer |-> "off", inCheckSat |-> FALSE,
             interrupted |-> FALSE, asynchInterrupt |-> FALSE, ok |-> TRUE, trailOk |-> <<>> ]
    /\ t = NoCheck
    /\ level = 0 /\ outputs = 0
    /\ status = "undef"
    /\ answer = Unknown("none")
    /\ refuted = {} /\ raised = FALSE

CheckSat ==
    /\ pc = "idle"
    /\ s' = BeginCall(s)
    /\ pc' = "driver"
    /\ outputs' = MaxOutputs
    /\ UNCHANGED <<sat, limits, t, level, status, answer, refuted, raised>>

\* SmtDriver::checkSat when there is nothing left to spend.
Refuse ==
    /\ pc = "driver" /\ Out(s)
    /\ answer' = Unknown(IF OutOfResources(s) THEN "resourceout" ELSE "timeout")
    /\ pc' = "end"
    /\ UNCHANGED <<sat, limits, s, t, level, outputs, status, refuted, raised>>

\* The limits are not looked at between preprocessing and the search.
Preprocess ==
    /\ pc = "driver" /\ ~Out(s)
    /\ \E q \in MaySpend(SpendResource(s)) : s' = q
    /\ pc' = "presolve"
    /\ UNCHANGED <<sat, limits, t, level, outputs, status, answer, refuted, raised>>

\* PropEngine::checkSat up to solve().
Presolve ==
    /\ pc = "presolve"
    /\ \E q \in MaySpend([s EXCEPT !.inCheckSat = TRUE]) : s' = [q EXCEPT !.interrupted = FALSE]
    /\ pc' = sat
    /\ UNCHANGED <<sat, limits, t, level, outputs, status, answer, refuted, raised>>

-----------------------------------------------------------------------------
(* TheoryEngine::check. *)

\* From state g.  At standard effort there may be nothing new to check.
StartTheories(g, effort) ==
    /\ s' = IF effort = "full" THEN SpendResource(g) ELSE g
    /\ t' = [NoCheck EXCEPT !.effort = effort, !.left = Theories]
    /\ pc' \in IF effort = "full" THEN {"theories"} ELSE {"theories", "checked"}

NeedCheck == t.used \/ t.lemma

\* One theory checks; its conflict ends the loop, and so does a limit.
TheoryCheck ==
    /\ pc = "theories" /\ t.left > 0
    /\ \E q \in MaySpend(s), out \in {"nothing", "fact", "propagation", "lemma", "conflict"} :
          /\ out \notin {"nothing", "fact"} => outputs > 0
          /\ outputs' = IF out \in {"nothing", "fact"} THEN outputs ELSE outputs - 1
          /\ s' = q
          /\ t' = [t EXCEPT !.left = @ - 1, !.facts = @ \/ out = "fact",
                            !.used = @ \/ out = "propagation",
                            !.lemma = @ \/ out \in {"lemma", "conflict"},
                            !.conflict = out = "conflict"]
          /\ pc' = IF out = "conflict" \/ Out(q) THEN "checked" ELSE "theories"
    /\ UNCHANGED <<sat, limits, level, status, answer, refuted, raised>>

\* All have checked.  At full effort combination may add a lemma; without new
\* facts to check, the check is over, and at full effort the last call may add one.
EndRound ==
    /\ pc = "theories" /\ t.left = 0
    /\ \/ /\ Out(s) /\ pc' = "checked"
          /\ UNCHANGED <<s, t, outputs>>
       \/ /\ ~Out(s)
          /\ \E q \in MaySpend(s), lemma \in BOOLEAN :
                /\ lemma => outputs > 0 /\ t.effort = "full" /\ ~t.facts /\ ~NeedCheck
                /\ outputs' = IF lemma THEN outputs - 1 ELSE outputs
                /\ s' = q
                /\ IF Out(q)
                   THEN pc' = "checked" /\ t' = [t EXCEPT !.lemma = @ \/ lemma]
                   ELSE IF t.facts /\ ~t.lemma
                   THEN pc' = "theories" /\ t' = [t EXCEPT !.left = Theories, !.facts = FALSE]
                   ELSE /\ pc' = IF t.effort = "full" /\ ~lemma /\ ~NeedCheck
                                THEN "lastcall" ELSE "checked"
                        /\ t' = [t EXCEPT !.lemma = @ \/ lemma]
    /\ UNCHANGED <<sat, limits, level, status, answer, refuted, raised>>

\* The checks that want a model; no limit is looked at.
LastCall ==
    /\ pc = "lastcall"
    /\ \E q \in MaySpend(s), lemma \in BOOLEAN :
          /\ lemma => outputs > 0
          /\ outputs' = IF lemma THEN outputs - 1 ELSE outputs
          /\ s' = q
          /\ t' = [t EXCEPT !.lemma = lemma, !.complete = ~lemma]
    /\ pc' = "checked"
    /\ UNCHANGED <<sat, limits, level, status, answer, refuted, raised>>

\* The check is over, and the trail is reset before the next one.
Forget ==
    pc' = "idle" /\ t' = NoCheck /\ level' = 0 /\ outputs' = 0 /\ status' = "undef"

\* A LogicException out of a theory or of presolve: the driver resets the trail
\* and the check is over, without endCall.  The interrupt stays as it is.
LogicException ==
    /\ pc \in {"driver", "presolve", "theories", "lastcall"}
    /\ s' = [s EXCEPT !.inCheckSat = FALSE]
    /\ Forget
    /\ answer' = Unknown("none")
    /\ raised' = s.asynchInterrupt
    /\ UNCHANGED <<sat, limits, refuted>>

-----------------------------------------------------------------------------
(* MiniSat. *)

\* A variant: the interrupt is not looked at.
WithinBudgetAlways(g) == TRUE

WithinBudget(g) == ~g.asynchInterrupt

\* solve_() starts; level, from here on, is the decision level.
Solve ==
    /\ pc = "minisat"
    /\ IF s.ok THEN pc' = "propagate" /\ UNCHANGED <<s, status>>
       ELSE /\ pc' = "solved" /\ status' = "false"
            /\ s' = [s EXCEPT !.asynchInterrupt = FALSE]
    /\ UNCHANGED <<sat, limits, t, level, outputs, answer, refuted, raised>>

\* search() finds a conflict: at level 0 that is a refutation.  propagateBool has
\* moved qhead to the end of the trail, which level 0 keeps: a later search does
\* not look at the clause in conflict again.
Conflict ==
    IF level = 0
    THEN /\ pc' = "searched" /\ status' = "false"
         /\ refuted' = refuted \union {Len(s.trailOk)}
         /\ UNCHANGED level
    ELSE /\ level' \in 0..level - 1
         /\ pc' = "propagate"
         /\ UNCHANGED <<status, refuted>>

\* propagate(CHECK_WITH_THEORY): a conflict of clauses, or the theories.
Propagate ==
    /\ pc = "propagate"
    /\ \/ Conflict /\ UNCHANGED <<s, t>>
       \/ StartTheories(s, "standard") /\ UNCHANGED <<level, status, refuted>>
    /\ UNCHANGED <<sat, limits, outputs, answer, raised>>

\* propagate(CHECK_FINAL).
Final ==
    /\ pc = "final"
    /\ StartTheories(s, "full")
    /\ UNCHANGED <<sat, limits, level, outputs, status, answer, refuted, raised>>

\* What follows the theories: their lemmas may be in conflict or leave
\* something to decide, they may want to be asked again, or search goes on.
Checked ==
    /\ pc = "checked" /\ sat = "minisat"
    /\ \/ (t.lemma \/ t.used) /\ Conflict
       \/ /\ ~t.conflict
          /\ pc' \in IF t.effort = "standard"
                     THEN IF NeedCheck THEN {"propagate", "decide"} ELSE {"decide"}
                     ELSE IF NeedCheck THEN {"propagate", "final"} ELSE {"propagate", "searched"}
          /\ status' = IF pc' = "searched" THEN "true" ELSE status
          /\ UNCHANGED <<level, refuted>>
    /\ UNCHANGED <<sat, limits, s, t, outputs, answer, raised>>

\* Without a conflict: a restart, simplify(), an assumption that is false, a
\* decision, or none left to make.
Decide ==
    /\ pc = "decide"
    /\ \/ /\ \E q \in {s, SpendResource(s)} :
                /\ q = s \/ ~WithinBudget(q)
                /\ s' = SpendResource(q)
          /\ level' = 0 /\ status' = "undef" /\ pc' = "searched"
          /\ UNCHANGED refuted
       \/ LET q == SpendResource(s) IN
          /\ WithinBudget(q)
          /\ \/ /\ level = 0 /\ s' = [q EXCEPT !.ok = FALSE]
                /\ refuted' = refuted \union {Len(s.trailOk)}
                /\ status' = "false" /\ pc' = "searched" /\ UNCHANGED level
             \/ /\ s' = q /\ status' = "assumption" /\ pc' = "searched"
                /\ UNCHANGED <<level, refuted>>
             \/ /\ s' = q /\ pc' = "final"
                /\ UNCHANGED <<level, status, refuted>>
             \/ /\ s' = q /\ level < MaxLevel /\ level' = level + 1 /\ pc' = "propagate"
                /\ UNCHANGED <<status, refuted>>
    /\ UNCHANGED <<sat, limits, t, outputs, answer, raised>>

\* A variant: the interrupt is not cleared.
SearchedKeepsInterrupt ==
    /\ pc = "searched"
    /\ LET q == SpendResource(s)
           r == SpendResource(q)
           st == IF WithinBudget(r) THEN status ELSE "undef"
       IN  IF status = "undef" /\ WithinBudget(q)
           THEN pc' = "propagate" /\ s' = q /\ UNCHANGED status
           ELSE /\ pc' = "solved" /\ status' = st
                /\ s' = [r EXCEPT !.ok = @ /\ st # "false"]
    /\ UNCHANGED <<sat, limits, t, level, outputs, answer, refuted, raised>>

\* The rest of solve_(), which spends and looks twice, and of
\* MinisatSatSolver::solve, which clears the interrupt.
Searched ==
    /\ pc = "searched"
    /\ LET q == SpendResource(s)
           r == SpendResource(q)
           st == IF WithinBudget(r) THEN status ELSE "undef"
       IN  IF status = "undef" /\ WithinBudget(q)
           THEN pc' = "propagate" /\ s' = q /\ UNCHANGED status
           ELSE /\ pc' = "solved" /\ status' = st
                /\ s' = [r EXCEPT !.ok = @ /\ st # "false", !.asynchInterrupt = FALSE]
    /\ UNCHANGED <<sat, limits, t, level, outputs, answer, refuted, raised>>

-----------------------------------------------------------------------------
(* CaDiCaL: external but for its callbacks. *)

\* The terminator is asked, and the search goes on with cb_propagate.  That CaDiCaL
\* asks before it goes on is assumed.
CadicalSearch ==
    /\ pc = "cadical"
    /\ LET q == SpendResource(s) IN
       IF Out(q) \/ q.asynchInterrupt
       THEN /\ s' = [q EXCEPT !.asynchInterrupt = FALSE]
            /\ status' = "undef" /\ pc' = "solved" /\ UNCHANGED t
       ELSE StartTheories(q, "standard") /\ UNCHANGED status
    /\ UNCHANGED <<sat, limits, level, outputs, answer, refuted, raised>>

CadicalUnsat ==
    /\ pc = "cadical"
    /\ status' \in {"false", "assumption"}
    /\ refuted' = IF status' = "false" THEN refuted \union {Len(s.trailOk)} ELSE refuted
    /\ s' = [s EXCEPT !.asynchInterrupt = FALSE]
    /\ pc' = "solved"
    /\ UNCHANGED <<sat, limits, t, level, outputs, answer, raised>>

\* cb_check_found_model; there is no model of clauses that have been refuted.
CadicalFound ==
    /\ pc = "cadical" /\ refuted = {}
    /\ StartTheories(s, "full")
    /\ UNCHANGED <<sat, limits, level, outputs, status, answer, refuted, raised>>

\* New clauses are added to the search; the theories are asked again if they
\* want to be, and else the model stands.
CadicalChecked ==
    /\ pc = "checked" /\ sat = "cadical"
    /\ IF t.effort = "standard" \/ t.lemma
       THEN pc' = "cadical" /\ UNCHANGED <<s, t, status>>
       ELSE IF t.used
       THEN /\ \/ pc' = "cadical" /\ UNCHANGED <<s, t>>
               \/ StartTheories(s, "full")
            /\ UNCHANGED status
       ELSE /\ pc' = "solved" /\ status' = "true"
            /\ s' = [s EXCEPT !.asynchInterrupt = FALSE] /\ UNCHANGED t
    /\ UNCHANGED <<sat, limits, level, outputs, answer, refuted, raised>>

-----------------------------------------------------------------------------
(* The end of the check, and what happens between checks. *)

\* Why there is no answer.
Reason ==
    IF OutOfResources(s) THEN "resourceout" ELSE IF OutOfTime(s) THEN "timeout" ELSE "interrupted"

\* A variant: a model is taken as it comes.
SolvedTrustsModel ==
    /\ pc = "solved"
    /\ s' = [s EXCEPT !.inCheckSat = FALSE]
    /\ answer' = IF status = "undef" THEN Unknown(Reason)
                 ELSE [status |-> IF status = "true" THEN "sat" ELSE "unsat",
                       why |-> "none", checked |-> t.complete]
    /\ pc' = "end"
    /\ UNCHANGED <<sat, limits, t, level, outputs, status, refuted, raised>>

\* PropEngine::checkSat after solve(): a model found when a limit is reached may
\* not have been checked.
Solved ==
    /\ pc = "solved"
    /\ s' = [s EXCEPT !.inCheckSat = FALSE]
    /\ answer' = IF status = "undef" \/ (status = "true" /\ (s.interrupted \/ Out(s)))
                 THEN Unknown(Reason)
                 ELSE [status |-> IF status = "true" THEN "sat" ELSE "unsat",
                       why |-> "none", checked |-> t.complete]
    /\ pc' = "end"
    /\ UNCHANGED <<sat, limits, t, level, outputs, status, refuted, raised>>

EndCall ==
    /\ pc = "end"
    /\ s' = Refresh(s)
    /\ Forget
    /\ answer' = Unknown("none")
    /\ raised' = (raised /\ s.asynchInterrupt)
    /\ UNCHANGED <<sat, limits, refuted>>

Tick ==
    /\ s.timer = "on"
    /\ s' = [s EXCEPT !.timer = "expired"]
    /\ UNCHANGED <<pc, sat, limits, t, level, outputs, status, answer, refuted, raised>>

SetLimits ==
    /\ pc = "idle"
    /\ limits' \in [call : 0..MaxLimit, total : 0..MaxLimit, time : BOOLEAN]
    /\ UNCHANGED <<pc, sat, s, t, level, outputs, status, answer, refuted, raised>>

\* Parsing and rewriting between checks are counted too.
SpendIdle ==
    /\ pc = "idle"
    /\ s' = SpendResource(s)
    /\ UNCHANGED <<pc, sat, limits, t, level, outputs, status, answer, refuted, raised>>

Push ==
    /\ pc = "idle" /\ Len(s.trailOk) < MaxUserLevel
    /\ s' = [SpendResource(s) EXCEPT !.trailOk = Append(@, s.ok)]
    /\ UNCHANGED <<pc, sat, limits, t, level, outputs, status, answer, refuted, raised>>

\* A variant: the solver stays in the state it is in.
PopKeepsOk ==
    /\ pc = "idle" /\ s.trailOk # <<>>
    /\ LET n == Len(s.trailOk) IN
       /\ s' = [s EXCEPT !.trailOk = SubSeq(@, 1, n - 1)]
       /\ refuted' = refuted \intersect 0..n - 1
    /\ UNCHANGED <<pc, sat, limits, t, level, outputs, status, answer, raised>>

\* The clauses of the level are gone, and the refutations that used them.
Pop ==
    /\ pc = "idle" /\ s.trailOk # <<>>
    /\ LET n == Len(s.trailOk) IN
       /\ s' = [s EXCEPT !.ok = s.trailOk[n], !.trailOk = SubSeq(@, 1, n - 1)]
       /\ refuted' = refuted \intersect 0..n - 1
    /\ UNCHANGED <<pc, sat, limits, t, level, outputs, status, answer, raised>>

\* A new PropEngine.
ResetAssertions ==
    /\ pc = "idle"
    /\ s' = [s EXCEPT !.ok = TRUE, !.trailOk = <<>>, !.interrupted = FALSE,
                      !.asynchInterrupt = FALSE]
    /\ refuted' = {} /\ raised' = FALSE
    /\ UNCHANGED <<pc, sat, limits, t, level, outputs, status, answer>>

\* A step of a check that is under way.
Step ==
    \/ Refuse \/ Preprocess \/ Presolve
    \/ TheoryCheck \/ EndRound \/ LastCall
    \/ Solve \/ Propagate \/ Final \/ Checked \/ Decide \/ Searched
    \/ CadicalSearch \/ CadicalUnsat \/ CadicalFound \/ CadicalChecked
    \/ Solved \/ EndCall

Next ==
    \/ Step \/ CheckSat \/ LogicException \/ Tick
    \/ SetLimits \/ SpendIdle \/ Push \/ Pop \/ ResetAssertions

\* The thread that called checkSat runs.
Spec == Init /\ [][Next]_vars /\ WF_vars(Step)

-----------------------------------------------------------------------------
(* Properties. *)

\* The type invariant.
TypeOK ==
    /\ pc \in {"idle", "driver", "presolve", "minisat", "cadical", "propagate", "final",
               "theories", "lastcall", "checked", "decide", "searched", "solved", "end"}
    /\ s.total \in 0..MaxLimit /\ s.call \in 0..MaxLimit
    /\ s.timer \in {"off", "on", "expired"}
    /\ s.inCheckSat = (pc \notin {"idle", "driver", "presolve", "end"})
    /\ t.left \in 0..Theories /\ outputs \in 0..MaxOutputs /\ level \in 0..MaxLevel
    /\ status \in {"true", "false", "undef", "assumption"}
    /\ Len(s.trailOk) \in 0..MaxUserLevel /\ refuted \subseteq 0..Len(s.trailOk)

\* sat is answered only for a model that a full check of the theories, run to
\* its end, has confirmed, wherever a limit strikes and whoever notices it.
SatIsChecked == answer.status = "sat" => answer.checked

\* unknown names the limit that was reached.  An interrupt is left over only by a
\* check that ended in an exception, and stops only the next search.
ReasonFits ==
    /\ TypeOK
    /\ pc = "idle" /\ s.asynchInterrupt => raised
    /\ pc = "end" /\ answer.status = "unknown" =>
        CASE answer.why = "resourceout" -> OutOfResources(s)
          [] answer.why = "timeout" -> OutOfTime(s) /\ ~OutOfResources(s)
          [] answer.why = "interrupted" -> raised

\* What the solver remembers as unsatisfiable was refuted at a level that is open.
UnsatInForce == ~s.ok => refuted # {}

\* The documentation of search: true means an assignment consistent with the
\* clauses, so sat is not answered for clauses that have been refuted.
SatIsConsistent == pc = "end" /\ answer.status = "sat" => refuted = {}

\* Once a limit is reached the check ends.
LimitEnds == (pc # "idle" /\ Out(s)) ~> (pc = "idle")
=============================================================================
