------------------------ MODULE ResourceLimitsProofs ------------------------
(***************************************************************************)
(* The safety of ResourceLimits for every number of theories, every limit, *)
(* and any number of checks, levels and outputs.                           *)
(***************************************************************************)
EXTENDS ResourceLimits, TLAPS

(***************************************************************************)
(* The inductive invariant.                                                *)
(***************************************************************************)

Flags == [total : 0..MaxLimit, call : 0..MaxLimit, timer : {"off", "on", "expired"},
          inCheckSat : BOOLEAN, interrupted : BOOLEAN, asynchInterrupt : BOOLEAN,
          ok : BOOLEAN, trailOk : Seq(BOOLEAN)]
Limits == [call : 0..MaxLimit, total : 0..MaxLimit, time : BOOLEAN]
TheoryState == [effort : {"standard", "full"}, left : 0..Theories, facts : BOOLEAN,
                lemma : BOOLEAN, conflict : BOOLEAN, used : BOOLEAN, complete : BOOLEAN]
Answers == [status : {"sat", "unsat", "unknown"},
            why : {"none", "resourceout", "timeout", "interrupted"}, checked : BOOLEAN]

\* The records have their fields.
Recorded ==
    /\ s \in Flags /\ limits \in Limits /\ t \in TheoryState /\ answer \in Answers
    /\ sat \in {"minisat", "cadical"} /\ raised \in BOOLEAN

\* The rest of the type invariant.
Placed ==
    /\ pc \in {"idle", "driver", "presolve", "minisat", "cadical", "propagate", "final",
               "theories", "lastcall", "checked", "decide", "searched", "solved", "end"}
    /\ s.inCheckSat <=> pc \notin {"idle", "driver", "presolve", "end"}
    /\ outputs \in 0..MaxOutputs /\ level \in 0..MaxLevel
    /\ status \in {"true", "false", "undef", "assumption"}
    /\ Len(s.trailOk) \in 0..MaxUserLevel /\ refuted \subseteq 0..Len(s.trailOk)

\* A flag that is raised in a check stands for a limit that is still reached; the
\* one MiniSat looks at is down outside a search, unless an exception left it up.
FlagsMean ==
    /\ s.asynchInterrupt => raised \/ (s.inCheckSat /\ pc # "solved" /\ Out(s))
    /\ s.interrupted /\ s.inCheckSat => Out(s)

\* A full check that wants nothing more was complete or ended by a limit, and so
\* was the one behind a search that has found a model.
ModelsMean ==
    /\ pc = "checked" /\ t.effort = "full" /\ ~t.lemma /\ ~t.used => t.complete \/ Out(s)
    /\ pc \in {"searched", "solved"} /\ status = "true" => t.complete \/ Out(s)
    /\ SatIsChecked

\* A search without a result was stopped by a limit, and the reason given for it
\* is the limit.
ReasonsMean ==
    /\ pc = "solved" /\ status = "undef" => Out(s) \/ raised
    /\ pc = "end" /\ answer.status = "unknown" =>
          \/ answer.why = "resourceout" /\ OutOfResources(s)
          \/ answer.why = "timeout" /\ OutOfTime(s) /\ ~OutOfResources(s)
          \/ answer.why = "interrupted" /\ raised

\* What is saved as unsatisfiable at a push was refuted at a level below.
RefutedAt(l) == \E r \in refuted : r <= l
RefutationsMean ==
    /\ UnsatInForce
    /\ \A i \in 1..Len(s.trailOk) : ~s.trailOk[i] => RefutedAt(i - 1)
    /\ pc = "searched" /\ status = "false" => refuted # {}

IInv == Recorded /\ Placed /\ FlagsMean /\ ModelsMean /\ ReasonsMean /\ RefutationsMean

-----------------------------------------------------------------------------
(* Spending. *)

\* q is g after something, or nothing, was spent: a limit once reached stays
\* reached, and a flag is raised only if one is.
Spent(g, q) ==
    /\ q \in Flags
    /\ q.timer = g.timer /\ q.inCheckSat = g.inCheckSat
    /\ q.ok = g.ok /\ q.trailOk = g.trailOk
    /\ OutOfResources(g) => OutOfResources(q)
    /\ OutOfTime(g) <=> OutOfTime(q)
    /\ g.asynchInterrupt => q.asynchInterrupt
    /\ q.asynchInterrupt => g.asynchInterrupt \/ (g.inCheckSat /\ Out(q))
    /\ q.interrupted => g.interrupted \/ (g.inCheckSat /\ Out(q))

\* SpendResource spends.
LEMMA Spending ==
    ASSUME limits \in Limits, NEW g \in Flags
    PROVE  Spent(g, SpendResource(g))
<1> DEFINE total == AddUnit(g.total)
           call == AddUnit(g.call)
           q == [g EXCEPT !.total = total, !.call = call]
<1>0. /\ total \in 0..MaxLimit /\ total >= g.total
      /\ call \in 0..MaxLimit /\ call >= g.call
  BY LimitsAssumption DEF Flags, AddUnit
<1> HIDE DEF total, call
<1>1. /\ q \in Flags
      /\ q.total >= g.total /\ q.call >= g.call
      /\ q.timer = g.timer /\ q.inCheckSat = g.inCheckSat
      /\ q.ok = g.ok /\ q.trailOk = g.trailOk
      /\ q.asynchInterrupt = g.asynchInterrupt /\ q.interrupted = g.interrupted
  BY <1>0 DEF Flags
<1> HIDE DEF q
<1>2. /\ OutOfResources(g) => OutOfResources(q)
      /\ OutOfTime(g) <=> OutOfTime(q)
  BY <1>1, LimitsAssumption DEF Flags, Limits, OutOfResources, OutOfTime
<1>3. CASE Out(q) /\ g.inCheckSat
  <2>1. SpendResource(g) = [q EXCEPT !.interrupted = TRUE, !.asynchInterrupt = TRUE]
    BY <1>1, <1>3 DEF SpendResource, Interrupt, q, total, call
  <2>2. QED
    BY ZenonT(60), <1>1, <1>2, <1>3, <2>1 DEF Spent, Flags, Out, OutOfResources, OutOfTime
<1>4. CASE ~(Out(q) /\ g.inCheckSat)
  <2>1. SpendResource(g) = q
    BY <1>1, <1>4 DEF SpendResource, Interrupt, q, total, call
  <2>2. QED
    BY <1>1, <1>2, <1>4, <2>1 DEF Spent, Flags
<1> QED
  BY <1>3, <1>4

\* Not to spend is to spend nothing.
LEMMA MaySpending ==
    ASSUME limits \in Limits, NEW g \in Flags, NEW q \in MaySpend(g)
    PROVE  Spent(g, q)
<1>1. Spent(g, g)
  BY DEF Spent
<1> QED
  BY <1>1, Spending DEF MaySpend

\* Spending twice is spending.
LEMMA SpendingTwice ==
    ASSUME NEW g \in Flags, NEW q \in Flags, NEW r \in Flags, Spent(g, q), Spent(q, r)
    PROVE  Spent(g, r)
BY DEF Spent, Out, Flags

\* A check of the theories starts from a record with all its fields.
LEMMA Starting ==
    /\ NoCheck \in TheoryState
    /\ [NoCheck EXCEPT !.effort = "standard", !.left = Theories] \in TheoryState
    /\ [NoCheck EXCEPT !.effort = "full", !.left = Theories] \in TheoryState
<1>1. NoCheck \in TheoryState
  BY LimitsAssumption DEF NoCheck, TheoryState
<1>2. Theories \in 0..Theories
  BY LimitsAssumption
<1> QED
  BY <1>1, <1>2 DEF TheoryState

-----------------------------------------------------------------------------
(* The invariant is inductive. *)

\* It holds before the first check.
LEMMA Initially == Init => IInv
<1> SUFFICES ASSUME Init PROVE IInv
  OBVIOUS
<1>1. Recorded
  <2>1. s \in Flags
    BY LimitsAssumption DEF Init, Flags
  <2>2. t \in TheoryState
    BY LimitsAssumption DEF Init, TheoryState, NoCheck
  <2>3. answer \in Answers
    BY DEF Init, Answers, Unknown
  <2> QED
    BY <2>1, <2>2, <2>3 DEF Init, Recorded, Limits
<1>a. Placed
  BY LimitsAssumption DEF Init, Placed
<1>2. FlagsMean /\ ModelsMean /\ ReasonsMean /\ RefutationsMean
  BY DEF Init, FlagsMean, ModelsMean, SatIsChecked, ReasonsMean, RefutationsMean,
     UnsatInForce, Unknown
<1> QED
  BY <1>1, <1>2, <1>a DEF IInv

\* CheckSat keeps the invariant.
LEMMA CheckSatKeeps == IInv /\ CheckSat => IInv'
<1> SUFFICES ASSUME IInv, CheckSat PROVE IInv'
  OBVIOUS
<1>0. Recorded /\ Placed /\ FlagsMean /\ ModelsMean /\ ReasonsMean /\ RefutationsMean
  BY DEF IInv
<1>1. Recorded'
  <2>1. s' \in Flags
    <3> DEFINE timer == IF limits.time THEN "on" ELSE "off"
               call == 0
    <3>1. timer \in {"off", "on", "expired"} /\ call \in 0..MaxLimit
      BY LimitsAssumption
    <3>2. s' = [s EXCEPT !.timer = timer, !.call = call]
      BY DEF CheckSat, BeginCall
    <3> HIDE DEF timer, call
    <3> QED
      BY <1>0, <3>1, <3>2 DEF Recorded, Flags
  <2>2. t' \in TheoryState
    BY <1>0, LimitsAssumption DEF Recorded, TheoryState, CheckSat, BeginCall
  <2>3. answer' \in Answers
    BY <1>0, LimitsAssumption DEF Recorded, Answers, CheckSat, BeginCall
  <2>4. limits' \in Limits /\ sat' \in {"minisat", "cadical"} /\ raised' \in BOOLEAN
    BY <1>0, LimitsAssumption DEF Recorded, Limits, CheckSat, BeginCall
  <2> QED
    BY <2>1, <2>2, <2>3, <2>4 DEF Recorded
<1>2. Placed'
  BY <1>0, LimitsAssumption DEF Placed, Recorded, Flags, TheoryState, CheckSat, BeginCall
<1>3. FlagsMean'
  BY <1>0, LimitsAssumption DEF FlagsMean, Placed, Recorded, Flags, Out, OutOfResources,
     OutOfTime, CheckSat, BeginCall
<1>4. ModelsMean'
  BY <1>0, LimitsAssumption DEF ModelsMean, SatIsChecked, Placed, Recorded, Flags,
     TheoryState, Out, OutOfResources, OutOfTime, CheckSat, BeginCall
<1>5. ReasonsMean'
  BY <1>0, LimitsAssumption DEF ReasonsMean, FlagsMean, Placed, Recorded, Flags,
     Answers, Out, OutOfResources, OutOfTime, CheckSat, BeginCall
<1>6. RefutationsMean'
  BY <1>0, LimitsAssumption DEF RefutationsMean, RefutedAt, UnsatInForce, Placed,
     Recorded, Flags, CheckSat, BeginCall
<1> QED
  BY <1>1, <1>2, <1>3, <1>4, <1>5, <1>6 DEF IInv

\* Refuse keeps the invariant.
LEMMA RefuseKeeps == IInv /\ Refuse => IInv'
<1> SUFFICES ASSUME IInv, Refuse PROVE IInv'
  OBVIOUS
<1>0. Recorded /\ Placed /\ FlagsMean /\ ModelsMean /\ ReasonsMean /\ RefutationsMean
  BY DEF IInv
<1>1. Recorded'
  <2>1. s' \in Flags
    BY <1>0, LimitsAssumption DEF Recorded, Flags, Refuse, Unknown, Out, OutOfResources,
       OutOfTime
  <2>2. t' \in TheoryState
    BY <1>0, LimitsAssumption DEF Recorded, TheoryState, Refuse, Unknown, Out,
       OutOfResources, OutOfTime
  <2>3. answer' \in Answers
    BY <1>0, LimitsAssumption DEF Recorded, Answers, Refuse, Unknown, Out,
       OutOfResources, OutOfTime
  <2>4. limits' \in Limits /\ sat' \in {"minisat", "cadical"} /\ raised' \in BOOLEAN
    BY <1>0, LimitsAssumption DEF Recorded, Limits, Refuse, Unknown, Out,
       OutOfResources, OutOfTime
  <2> QED
    BY <2>1, <2>2, <2>3, <2>4 DEF Recorded
<1>2. Placed'
  BY <1>0, LimitsAssumption DEF Placed, Recorded, Flags, TheoryState, Refuse, Unknown,
     Out, OutOfResources, OutOfTime
<1>3. FlagsMean'
  BY <1>0, LimitsAssumption DEF FlagsMean, Placed, Recorded, Flags, Out, OutOfResources,
     OutOfTime, Refuse, Unknown, Out, OutOfResources, OutOfTime
<1>4. ModelsMean'
  BY <1>0, LimitsAssumption DEF ModelsMean, SatIsChecked, Placed, Recorded, Flags,
     TheoryState, Out, OutOfResources, OutOfTime, Refuse, Unknown, Out, OutOfResources,
     OutOfTime
<1>5. ReasonsMean'
  BY <1>0, LimitsAssumption DEF ReasonsMean, FlagsMean, Placed, Recorded, Flags,
     Answers, Out, OutOfResources, OutOfTime, Refuse, Unknown, Out, OutOfResources,
     OutOfTime
<1>6. RefutationsMean'
  BY <1>0, LimitsAssumption DEF RefutationsMean, RefutedAt, UnsatInForce, Placed,
     Recorded, Flags, Refuse, Unknown, Out, OutOfResources, OutOfTime
<1> QED
  BY <1>1, <1>2, <1>3, <1>4, <1>5, <1>6 DEF IInv

\* Preprocess keeps the invariant.
LEMMA PreprocessKeeps == IInv /\ Preprocess => IInv'
<1> SUFFICES ASSUME IInv, Preprocess PROVE IInv'
  OBVIOUS
<1>0. Recorded /\ Placed /\ FlagsMean /\ ModelsMean /\ ReasonsMean /\ RefutationsMean
  BY DEF IInv
<1>s. limits \in Limits /\ s \in Flags
  BY <1>0 DEF Recorded
<1>a. Spent(s, SpendResource(s))
  BY <1>s, Spending
<1>b. \A q \in MaySpend(SpendResource(s)) : Spent(s, q)
  BY <1>s, <1>a, MaySpending, SpendingTwice DEF Spent
<1>1. Recorded'
  <2>1. s' \in Flags
    BY <1>0, LimitsAssumption, <1>b DEF Recorded, Flags, Preprocess, Spent
  <2>2. t' \in TheoryState
    BY <1>0, LimitsAssumption, <1>b DEF Recorded, TheoryState, Preprocess, Spent
  <2>3. answer' \in Answers
    BY <1>0, LimitsAssumption, <1>b DEF Recorded, Answers, Preprocess, Spent
  <2>4. limits' \in Limits /\ sat' \in {"minisat", "cadical"} /\ raised' \in BOOLEAN
    BY <1>0, LimitsAssumption, <1>b DEF Recorded, Limits, Preprocess, Spent
  <2> QED
    BY <2>1, <2>2, <2>3, <2>4 DEF Recorded
<1>2. Placed'
  BY <1>0, LimitsAssumption, <1>b DEF Placed, Recorded, Flags, TheoryState, Preprocess,
     Spent
<1>3. FlagsMean'
  BY <1>0, LimitsAssumption, <1>b DEF FlagsMean, Placed, Recorded, Flags, Out,
     OutOfResources, OutOfTime, Preprocess, Spent
<1>4. ModelsMean'
  BY <1>0, LimitsAssumption, <1>b DEF ModelsMean, SatIsChecked, Placed, Recorded, Flags,
     TheoryState, Out, OutOfResources, OutOfTime, Preprocess, Spent
<1>5. ReasonsMean'
  BY <1>0, LimitsAssumption, <1>b DEF ReasonsMean, FlagsMean, Placed, Recorded, Flags,
     Answers, Out, OutOfResources, OutOfTime, Preprocess, Spent
<1>6. RefutationsMean'
  BY <1>0, LimitsAssumption, <1>b DEF RefutationsMean, RefutedAt, UnsatInForce, Placed,
     Recorded, Flags, Preprocess, Spent
<1> QED
  BY <1>1, <1>2, <1>3, <1>4, <1>5, <1>6 DEF IInv

\* Presolve keeps the invariant.
LEMMA PresolveKeeps == IInv /\ Presolve => IInv'
<1> SUFFICES ASSUME IInv, Presolve PROVE IInv'
  OBVIOUS
<1>0. Recorded /\ Placed /\ FlagsMean /\ ModelsMean /\ ReasonsMean /\ RefutationsMean
  BY DEF IInv
<1>s. limits \in Limits /\ s \in Flags
  BY <1>0 DEF Recorded
<1> DEFINE g == [s EXCEPT !.inCheckSat = TRUE]
<1>a. g \in Flags
  BY <1>s DEF Flags
<1>b. \A q \in MaySpend(g) : Spent(g, q)
  BY <1>s, <1>a, MaySpending
<1>1. Recorded'
  <2>1. s' \in Flags
    BY ZenonT(60), <1>0, LimitsAssumption, <1>a, <1>b DEF Recorded, Flags, Presolve, Spent
  <2>2. t' \in TheoryState
    BY <1>0, LimitsAssumption, <1>a, <1>b DEF Recorded, TheoryState, Presolve, Spent
  <2>3. answer' \in Answers
    BY <1>0, LimitsAssumption, <1>a, <1>b DEF Recorded, Answers, Presolve, Spent
  <2>4. limits' \in Limits /\ sat' \in {"minisat", "cadical"} /\ raised' \in BOOLEAN
    BY <1>0, LimitsAssumption, <1>a, <1>b DEF Recorded, Limits, Presolve, Spent
  <2> QED
    BY <2>1, <2>2, <2>3, <2>4 DEF Recorded
<1>2. Placed'
  BY ZenonT(60), <1>0, LimitsAssumption, <1>a, <1>b DEF Placed, Recorded, Flags,
     TheoryState, Presolve, Spent
<1>3. FlagsMean'
  BY ZenonT(60), <1>0, LimitsAssumption, <1>a, <1>b DEF FlagsMean, Placed, Recorded,
     Flags, Out, OutOfResources, OutOfTime, Presolve, Spent
<1>4. ModelsMean'
  BY <1>0, LimitsAssumption, <1>a, <1>b DEF ModelsMean, SatIsChecked, Placed, Recorded,
     Flags, TheoryState, Out, OutOfResources, OutOfTime, Presolve, Spent
<1>5. ReasonsMean'
  BY <1>0, LimitsAssumption, <1>a, <1>b DEF ReasonsMean, FlagsMean, Placed, Recorded,
     Flags, Answers, Out, OutOfResources, OutOfTime, Presolve, Spent
<1>6. RefutationsMean'
  BY ZenonT(60), <1>0, LimitsAssumption, <1>a, <1>b DEF RefutationsMean, RefutedAt,
     UnsatInForce, Placed, Recorded, Flags, Presolve, Spent
<1> QED
  BY <1>1, <1>2, <1>3, <1>4, <1>5, <1>6 DEF IInv

\* TheoryCheck keeps the invariant.
LEMMA TheoryCheckKeeps == IInv /\ TheoryCheck => IInv'
<1> SUFFICES ASSUME IInv, TheoryCheck PROVE IInv'
  OBVIOUS
<1>0. Recorded /\ Placed /\ FlagsMean /\ ModelsMean /\ ReasonsMean /\ RefutationsMean
  BY DEF IInv
<1>s. limits \in Limits /\ s \in Flags
  BY <1>0 DEF Recorded
<1>a. \A q \in MaySpend(s) : Spent(s, q)
  BY <1>s, MaySpending
<1>1. Recorded'
  <2>1. s' \in Flags
    BY <1>0, LimitsAssumption, <1>a DEF Recorded, Flags, TheoryCheck, Spent
  <2>2. t' \in TheoryState
    <3>1. PICK out \in {"nothing", "fact", "propagation", "lemma", "conflict"} :
              t' = [t EXCEPT !.left = @ - 1, !.facts = @ \/ out = "fact",
                             !.used = @ \/ out = "propagation",
                             !.lemma = @ \/ out \in {"lemma", "conflict"},
                             !.conflict = out = "conflict"]
      BY ZenonT(60) DEF TheoryCheck
    <3> DEFINE left == t.left - 1
               facts == t.facts \/ out = "fact"
               used == t.used \/ out = "propagation"
               lemma == t.lemma \/ out \in {"lemma", "conflict"}
               conflict == out = "conflict"
    <3>2. left \in 0..Theories
      BY <1>0, LimitsAssumption DEF Recorded, TheoryState, TheoryCheck
    <3>3. facts \in BOOLEAN /\ used \in BOOLEAN /\ lemma \in BOOLEAN /\ conflict \in BOOLEAN
      OBVIOUS
    <3>4. t' = [t EXCEPT !.left = left, !.facts = facts, !.used = used, !.lemma = lemma,
                         !.conflict = conflict]
      BY <3>1
    <3> HIDE DEF left, facts, used, lemma, conflict
    <3> QED
      BY ZenonT(60), <1>0, <3>2, <3>3, <3>4 DEF Recorded, TheoryState
  <2>3. answer' \in Answers
    BY <1>0, LimitsAssumption, <1>a DEF Recorded, Answers, TheoryCheck, Spent
  <2>4. limits' \in Limits /\ sat' \in {"minisat", "cadical"} /\ raised' \in BOOLEAN
    BY <1>0, LimitsAssumption, <1>a DEF Recorded, Limits, TheoryCheck, Spent
  <2> QED
    BY <2>1, <2>2, <2>3, <2>4 DEF Recorded
<1>2. Placed'
  BY SMTT(30), <1>0, LimitsAssumption, <1>a DEF Placed, Recorded, Flags, TheoryState,
     TheoryCheck, Spent
<1>3. FlagsMean'
  BY SMTT(30), <1>0, LimitsAssumption, <1>a DEF FlagsMean, Placed, Recorded, Flags, Out,
     OutOfResources, OutOfTime, TheoryCheck, Spent
<1>4. ModelsMean'
  BY <1>0, LimitsAssumption, <1>a DEF ModelsMean, SatIsChecked, Placed, Recorded, Flags,
     TheoryState, Out, OutOfResources, OutOfTime, TheoryCheck, Spent
<1>5. ReasonsMean'
  BY <1>0, LimitsAssumption, <1>a DEF ReasonsMean, FlagsMean, Placed, Recorded, Flags,
     Answers, Out, OutOfResources, OutOfTime, TheoryCheck, Spent
<1>6. RefutationsMean'
  BY ZenonT(60), <1>0, LimitsAssumption, <1>a DEF RefutationsMean, RefutedAt,
     UnsatInForce, Placed, Recorded, Flags, TheoryCheck, Spent
<1> QED
  BY <1>1, <1>2, <1>3, <1>4, <1>5, <1>6 DEF IInv

\* EndRound keeps the invariant.
LEMMA EndRoundKeeps == IInv /\ EndRound => IInv'
<1> SUFFICES ASSUME IInv, EndRound PROVE IInv'
  OBVIOUS
<1>0. Recorded /\ Placed /\ FlagsMean /\ ModelsMean /\ ReasonsMean /\ RefutationsMean
  BY DEF IInv
<1>s. limits \in Limits /\ s \in Flags
  BY <1>0 DEF Recorded
<1>a. \A q \in MaySpend(s) : Spent(s, q)
  BY <1>s, MaySpending
<1>1. Recorded'
  <2>1. s' \in Flags
    BY <1>0, LimitsAssumption, <1>a DEF Recorded, Flags, EndRound, NeedCheck, Spent
  <2>2. t' \in TheoryState
    <3>1. \/ t' = t
          \/ \E lemma \in BOOLEAN : t' = [t EXCEPT !.lemma = @ \/ lemma]
          \/ t' = [t EXCEPT !.left = Theories, !.facts = FALSE]
      BY DEF EndRound
    <3>2. ASSUME NEW lemma \in BOOLEAN, t' = [t EXCEPT !.lemma = @ \/ lemma]
          PROVE  t' \in TheoryState
      <4> DEFINE now == t.lemma \/ lemma
      <4>1. now \in BOOLEAN /\ t' = [t EXCEPT !.lemma = now]
        BY <3>2
      <4> HIDE DEF now
      <4> QED
        BY <1>0, <4>1 DEF Recorded, TheoryState
    <3>3. CASE t' = [t EXCEPT !.left = Theories, !.facts = FALSE]
      <4>1. Theories \in 0..Theories
        BY LimitsAssumption
      <4> QED
        BY <1>0, <3>3, <4>1 DEF Recorded, TheoryState
    <3> QED
      BY <1>0, <3>1, <3>2, <3>3 DEF Recorded
  <2>3. answer' \in Answers
    BY <1>0, LimitsAssumption, <1>a DEF Recorded, Answers, EndRound, NeedCheck, Spent
  <2>4. limits' \in Limits /\ sat' \in {"minisat", "cadical"} /\ raised' \in BOOLEAN
    BY <1>0, LimitsAssumption, <1>a DEF Recorded, Limits, EndRound, NeedCheck, Spent
  <2> QED
    BY <2>1, <2>2, <2>3, <2>4 DEF Recorded
<1>2. Placed'
  BY SMTT(30), <1>0, LimitsAssumption, <1>a DEF Placed, Recorded, Flags, TheoryState,
     EndRound, NeedCheck, Spent
<1>3. FlagsMean'
  BY SMTT(30), <1>0, LimitsAssumption, <1>a DEF FlagsMean, Placed, Recorded, Flags, Out,
     OutOfResources, OutOfTime, EndRound, NeedCheck, Spent
<1>4. ModelsMean'
  BY SMTT(30), <1>0, LimitsAssumption, <1>a DEF ModelsMean, SatIsChecked, Placed,
     Recorded, Flags, TheoryState, Out, OutOfResources, OutOfTime, EndRound, NeedCheck,
     Spent
<1>5. ReasonsMean'
  BY <1>0, LimitsAssumption, <1>a DEF ReasonsMean, FlagsMean, Placed, Recorded, Flags,
     Answers, Out, OutOfResources, OutOfTime, EndRound, NeedCheck, Spent
<1>6. RefutationsMean'
  BY ZenonT(60), <1>0, LimitsAssumption, <1>a DEF RefutationsMean, RefutedAt,
     UnsatInForce, Placed, Recorded, Flags, EndRound, NeedCheck, Spent
<1> QED
  BY <1>1, <1>2, <1>3, <1>4, <1>5, <1>6 DEF IInv

\* LastCall keeps the invariant.
LEMMA LastCallKeeps == IInv /\ LastCall => IInv'
<1> SUFFICES ASSUME IInv, LastCall PROVE IInv'
  OBVIOUS
<1>0. Recorded /\ Placed /\ FlagsMean /\ ModelsMean /\ ReasonsMean /\ RefutationsMean
  BY DEF IInv
<1>s. limits \in Limits /\ s \in Flags
  BY <1>0 DEF Recorded
<1>a. \A q \in MaySpend(s) : Spent(s, q)
  BY <1>s, MaySpending
<1>1. Recorded'
  <2>1. s' \in Flags
    BY <1>0, LimitsAssumption, <1>a DEF Recorded, Flags, LastCall, Spent
  <2>2. t' \in TheoryState
    BY ZenonT(60), <1>0, LimitsAssumption, <1>a DEF Recorded, TheoryState, LastCall, Spent
  <2>3. answer' \in Answers
    BY <1>0, LimitsAssumption, <1>a DEF Recorded, Answers, LastCall, Spent
  <2>4. limits' \in Limits /\ sat' \in {"minisat", "cadical"} /\ raised' \in BOOLEAN
    BY <1>0, LimitsAssumption, <1>a DEF Recorded, Limits, LastCall, Spent
  <2> QED
    BY <2>1, <2>2, <2>3, <2>4 DEF Recorded
<1>2. Placed'
  BY SMTT(30), <1>0, LimitsAssumption, <1>a DEF Placed, Recorded, Flags, TheoryState,
     LastCall, Spent
<1>3. FlagsMean'
  BY ZenonT(60), <1>0, LimitsAssumption, <1>a DEF FlagsMean, Placed, Recorded, Flags, Out,
     OutOfResources, OutOfTime, LastCall, Spent
<1>4. ModelsMean'
  BY <1>0, LimitsAssumption, <1>a DEF ModelsMean, SatIsChecked, Placed, Recorded, Flags,
     TheoryState, Out, OutOfResources, OutOfTime, LastCall, Spent
<1>5. ReasonsMean'
  BY <1>0, LimitsAssumption, <1>a DEF ReasonsMean, FlagsMean, Placed, Recorded, Flags,
     Answers, Out, OutOfResources, OutOfTime, LastCall, Spent
<1>6. RefutationsMean'
  BY <1>0, LimitsAssumption, <1>a DEF RefutationsMean, RefutedAt, UnsatInForce, Placed,
     Recorded, Flags, LastCall, Spent
<1> QED
  BY <1>1, <1>2, <1>3, <1>4, <1>5, <1>6 DEF IInv

\* LogicException keeps the invariant.
LEMMA LogicExceptionKeeps == IInv /\ LogicException => IInv'
<1> SUFFICES ASSUME IInv, LogicException PROVE IInv'
  OBVIOUS
<1>0. Recorded /\ Placed /\ FlagsMean /\ ModelsMean /\ ReasonsMean /\ RefutationsMean
  BY DEF IInv
<1>1. Recorded'
  <2>1. s' \in Flags
    BY <1>0, LimitsAssumption DEF Recorded, Flags, LogicException, Forget, NoCheck, Unknown
  <2>2. t' \in TheoryState
    BY <1>0, LimitsAssumption DEF Recorded, TheoryState, LogicException, Forget,
       NoCheck, Unknown
  <2>3. answer' \in Answers
    BY <1>0, LimitsAssumption DEF Recorded, Answers, LogicException, Forget, NoCheck,
       Unknown
  <2>4. limits' \in Limits /\ sat' \in {"minisat", "cadical"} /\ raised' \in BOOLEAN
    BY <1>0, LimitsAssumption DEF Recorded, Limits, Flags, LogicException, Forget, NoCheck,
       Unknown
  <2> QED
    BY <2>1, <2>2, <2>3, <2>4 DEF Recorded
<1>2. Placed'
  BY <1>0, LimitsAssumption DEF Placed, Recorded, Flags, TheoryState, LogicException,
     Forget, NoCheck, Unknown
<1>3. FlagsMean'
  BY <1>0, LimitsAssumption DEF FlagsMean, Placed, Recorded, Flags, Out, OutOfResources,
     OutOfTime, LogicException, Forget, NoCheck, Unknown
<1>4. ModelsMean'
  BY <1>0, LimitsAssumption DEF ModelsMean, SatIsChecked, Placed, Recorded, Flags,
     TheoryState, Out, OutOfResources, OutOfTime, LogicException, Forget, NoCheck,
     Unknown
<1>5. ReasonsMean'
  BY <1>0, LimitsAssumption DEF ReasonsMean, FlagsMean, Placed, Recorded, Flags,
     Answers, Out, OutOfResources, OutOfTime, LogicException, Forget, NoCheck, Unknown
<1>6. RefutationsMean'
  BY <1>0, LimitsAssumption DEF RefutationsMean, RefutedAt, UnsatInForce, Placed,
     Recorded, Flags, LogicException, Forget, NoCheck, Unknown
<1> QED
  BY <1>1, <1>2, <1>3, <1>4, <1>5, <1>6 DEF IInv

\* Solve keeps the invariant.
LEMMA SolveKeeps == IInv /\ Solve => IInv'
<1> SUFFICES ASSUME IInv, Solve PROVE IInv'
  OBVIOUS
<1>0. Recorded /\ Placed /\ FlagsMean /\ ModelsMean /\ ReasonsMean /\ RefutationsMean
  BY DEF IInv
<1>1. Recorded'
  <2>1. s' \in Flags
    BY ZenonT(60), <1>0, LimitsAssumption DEF Recorded, Flags, Solve
  <2>2. t' \in TheoryState
    BY <1>0, LimitsAssumption DEF Recorded, TheoryState, Solve
  <2>3. answer' \in Answers
    BY <1>0, LimitsAssumption DEF Recorded, Answers, Solve
  <2>4. limits' \in Limits /\ sat' \in {"minisat", "cadical"} /\ raised' \in BOOLEAN
    BY <1>0, LimitsAssumption DEF Recorded, Limits, Solve
  <2> QED
    BY <2>1, <2>2, <2>3, <2>4 DEF Recorded
<1>2. Placed'
  BY ZenonT(60), <1>0, LimitsAssumption DEF Placed, Recorded, Flags, TheoryState, Solve
<1>3. FlagsMean'
  BY ZenonT(60), <1>0, LimitsAssumption DEF FlagsMean, Placed, Recorded, Flags, Out,
     OutOfResources, OutOfTime, Solve
<1>4. ModelsMean'
  BY <1>0, LimitsAssumption DEF ModelsMean, SatIsChecked, Placed, Recorded, Flags,
     TheoryState, Out, OutOfResources, OutOfTime, Solve
<1>5. ReasonsMean'
  BY <1>0, LimitsAssumption DEF ReasonsMean, FlagsMean, Placed, Recorded, Flags,
     Answers, Out, OutOfResources, OutOfTime, Solve
<1>6. RefutationsMean'
  BY <1>0, LimitsAssumption DEF RefutationsMean, RefutedAt, UnsatInForce, Placed,
     Recorded, Flags, Solve
<1> QED
  BY <1>1, <1>2, <1>3, <1>4, <1>5, <1>6 DEF IInv

\* Propagate keeps the invariant.
LEMMA PropagateKeeps == IInv /\ Propagate => IInv'
<1> SUFFICES ASSUME IInv, Propagate PROVE IInv'
  OBVIOUS
<1>0. Recorded /\ Placed /\ FlagsMean /\ ModelsMean /\ ReasonsMean /\ RefutationsMean
  BY DEF IInv
<1>1. Recorded'
  <2>1. s' \in Flags
    BY <1>0, LimitsAssumption DEF Recorded, Flags, Propagate, Conflict, StartTheories,
       NoCheck
  <2>2. t' \in TheoryState
    BY <1>0, Starting DEF Recorded, Propagate, StartTheories, Conflict
  <2>3. answer' \in Answers
    BY <1>0, LimitsAssumption DEF Recorded, Answers, Propagate, Conflict, StartTheories,
       NoCheck
  <2>4. limits' \in Limits /\ sat' \in {"minisat", "cadical"} /\ raised' \in BOOLEAN
    BY <1>0, LimitsAssumption DEF Recorded, Limits, Propagate, Conflict, StartTheories,
       NoCheck
  <2> QED
    BY <2>1, <2>2, <2>3, <2>4 DEF Recorded
<1>2. Placed'
  BY SMTT(30), <1>0, LimitsAssumption DEF Placed, Recorded, Flags, TheoryState, Propagate,
     Conflict, StartTheories, NoCheck
<1>3. FlagsMean'
  BY <1>0, LimitsAssumption DEF FlagsMean, Placed, Recorded, Flags, Out, OutOfResources,
     OutOfTime, Propagate, Conflict, StartTheories, NoCheck
<1>4. ModelsMean'
  BY ZenonT(60), <1>0, LimitsAssumption DEF ModelsMean, SatIsChecked, Placed, Recorded,
     Flags, TheoryState, Out, OutOfResources, OutOfTime, Propagate, Conflict,
     StartTheories, NoCheck
<1>5. ReasonsMean'
  BY <1>0, LimitsAssumption DEF ReasonsMean, FlagsMean, Placed, Recorded, Flags,
     Answers, Out, OutOfResources, OutOfTime, Propagate, Conflict, StartTheories,
     NoCheck
<1>6. RefutationsMean'
  BY <1>0, LimitsAssumption DEF RefutationsMean, RefutedAt, UnsatInForce, Placed,
     Recorded, Flags, Propagate, Conflict, StartTheories, NoCheck
<1> QED
  BY <1>1, <1>2, <1>3, <1>4, <1>5, <1>6 DEF IInv

\* Final keeps the invariant.
LEMMA FinalKeeps == IInv /\ Final => IInv'
<1> SUFFICES ASSUME IInv, Final PROVE IInv'
  OBVIOUS
<1>0. Recorded /\ Placed /\ FlagsMean /\ ModelsMean /\ ReasonsMean /\ RefutationsMean
  BY DEF IInv
<1>s. limits \in Limits /\ s \in Flags
  BY <1>0 DEF Recorded
<1>a. Spent(s, SpendResource(s))
  BY <1>s, Spending
<1>1. Recorded'
  <2>1. s' \in Flags
    BY <1>0, LimitsAssumption, <1>a DEF Recorded, Flags, Final, StartTheories, NoCheck,
       Spent
  <2>2. t' \in TheoryState
    BY <1>0, Starting DEF Recorded, Final, StartTheories
  <2>3. answer' \in Answers
    BY <1>0, LimitsAssumption, <1>a DEF Recorded, Answers, Final, StartTheories,
       NoCheck, Spent
  <2>4. limits' \in Limits /\ sat' \in {"minisat", "cadical"} /\ raised' \in BOOLEAN
    BY <1>0, LimitsAssumption, <1>a DEF Recorded, Limits, Final, StartTheories, NoCheck,
       Spent
  <2> QED
    BY <2>1, <2>2, <2>3, <2>4 DEF Recorded
<1>2. Placed'
  BY <1>0, LimitsAssumption, <1>a DEF Placed, Recorded, Flags, TheoryState, Final,
     StartTheories, NoCheck, Spent
<1>3. FlagsMean'
  BY <1>0, LimitsAssumption, <1>a DEF FlagsMean, Placed, Recorded, Flags, Out,
     OutOfResources, OutOfTime, Final, StartTheories, NoCheck, Spent
<1>4. ModelsMean'
  BY <1>0, LimitsAssumption, <1>a DEF ModelsMean, SatIsChecked, Placed, Recorded, Flags,
     TheoryState, Out, OutOfResources, OutOfTime, Final, StartTheories, NoCheck, Spent
<1>5. ReasonsMean'
  BY <1>0, LimitsAssumption, <1>a DEF ReasonsMean, FlagsMean, Placed, Recorded, Flags,
     Answers, Out, OutOfResources, OutOfTime, Final, StartTheories, NoCheck, Spent
<1>6. RefutationsMean'
  BY <1>0, LimitsAssumption, <1>a DEF RefutationsMean, RefutedAt, UnsatInForce, Placed,
     Recorded, Flags, Final, StartTheories, NoCheck, Spent
<1> QED
  BY <1>1, <1>2, <1>3, <1>4, <1>5, <1>6 DEF IInv

\* Checked keeps the invariant.
LEMMA CheckedKeeps == IInv /\ Checked => IInv'
<1> SUFFICES ASSUME IInv, Checked PROVE IInv'
  OBVIOUS
<1>0. Recorded /\ Placed /\ FlagsMean /\ ModelsMean /\ ReasonsMean /\ RefutationsMean
  BY DEF IInv
<1>1. Recorded'
  <2>1. s' \in Flags
    BY <1>0, LimitsAssumption DEF Recorded, Flags, Checked, Conflict, NeedCheck
  <2>2. t' \in TheoryState
    BY <1>0, LimitsAssumption DEF Recorded, TheoryState, Checked, Conflict, NeedCheck
  <2>3. answer' \in Answers
    BY <1>0, LimitsAssumption DEF Recorded, Answers, Checked, Conflict, NeedCheck
  <2>4. limits' \in Limits /\ sat' \in {"minisat", "cadical"} /\ raised' \in BOOLEAN
    BY <1>0, LimitsAssumption DEF Recorded, Limits, Checked, Conflict, NeedCheck
  <2> QED
    BY <2>1, <2>2, <2>3, <2>4 DEF Recorded
<1>2. Placed'
  <2>1. level' \in 0..MaxLevel /\ status' \in {"true", "false", "undef", "assumption"}
    BY <1>0, LimitsAssumption DEF Placed, Checked, Conflict
  <2>2. refuted' \subseteq 0..Len(s'.trailOk)
    <3>1. refuted' \subseteq refuted \union {Len(s.trailOk)} /\ s' = s
      BY DEF Checked, Conflict
    <3> QED
      BY <1>0, <3>1 DEF Placed
  <2>3. pc' \in {"propagate", "decide", "final", "searched"}
    BY DEF Checked, Conflict
  <2>4. s' = s /\ outputs' = outputs /\ pc = "checked"
    BY DEF Checked
  <2> QED
    BY <1>0, <2>1, <2>2, <2>3, <2>4 DEF Placed
<1>3. FlagsMean'
  BY <1>0, LimitsAssumption DEF FlagsMean, Placed, Recorded, Flags, Out, OutOfResources,
     OutOfTime, Checked, Conflict, NeedCheck
<1>4. ModelsMean'
  BY <1>0, LimitsAssumption DEF ModelsMean, SatIsChecked, Placed, Recorded, Flags,
     TheoryState, Out, OutOfResources, OutOfTime, Checked, Conflict, NeedCheck
<1>5. ReasonsMean'
  BY <1>0, LimitsAssumption DEF ReasonsMean, FlagsMean, Placed, Recorded, Flags,
     Answers, Out, OutOfResources, OutOfTime, Checked, Conflict, NeedCheck
<1>6. RefutationsMean'
  BY <1>0, LimitsAssumption DEF RefutationsMean, RefutedAt, UnsatInForce, Placed,
     Recorded, Flags, Checked, Conflict, NeedCheck
<1> QED
  BY <1>1, <1>2, <1>3, <1>4, <1>5, <1>6 DEF IInv

\* Decide keeps the invariant.
LEMMA DecideKeeps == IInv /\ Decide => IInv'
<1> SUFFICES ASSUME IInv, Decide PROVE IInv'
  OBVIOUS
<1>0. Recorded /\ Placed /\ FlagsMean /\ ModelsMean /\ ReasonsMean /\ RefutationsMean
  BY DEF IInv
<1>s. limits \in Limits /\ s \in Flags
  BY <1>0 DEF Recorded
<1>a. Spent(s, SpendResource(s))
  BY <1>s, Spending
<1>b. Spent(SpendResource(s), SpendResource(SpendResource(s)))
  BY <1>s, <1>a, Spending DEF Spent
<1>c. Spent(s, SpendResource(SpendResource(s)))
  BY <1>s, <1>a, <1>b, SpendingTwice DEF Spent
<1>1. Recorded'
  <2>1. s' \in Flags
    BY ZenonT(60), <1>0, LimitsAssumption, <1>a, <1>c DEF Recorded, Flags, Decide,
       WithinBudget, Spent
  <2>2. t' \in TheoryState
    BY <1>0, LimitsAssumption, <1>a, <1>c DEF Recorded, TheoryState, Decide,
       WithinBudget, Spent
  <2>3. answer' \in Answers
    BY <1>0, LimitsAssumption, <1>a, <1>c DEF Recorded, Answers, Decide, WithinBudget, Spent
  <2>4. limits' \in Limits /\ sat' \in {"minisat", "cadical"} /\ raised' \in BOOLEAN
    BY <1>0, LimitsAssumption, <1>a, <1>c DEF Recorded, Limits, Decide, WithinBudget, Spent
  <2> QED
    BY <2>1, <2>2, <2>3, <2>4 DEF Recorded
<1>2. Placed'
  <2>1. /\ s'.inCheckSat = s.inCheckSat
        /\ s'.trailOk = s.trailOk
    BY <1>0, <1>a, <1>c DEF Decide, Spent, Recorded, Flags
  <2>2. level' \in 0..MaxLevel /\ status' \in {"true", "false", "undef", "assumption"}
    BY <1>0, LimitsAssumption DEF Placed, Decide
  <2>3. refuted' \subseteq 0..Len(s.trailOk)
    BY <1>0 DEF Placed, Decide
  <2>4. pc' \in {"searched", "final", "propagate"} /\ outputs' = outputs /\ pc = "decide"
    BY DEF Decide
  <2> QED
    BY <1>0, <2>1, <2>2, <2>3, <2>4 DEF Placed
<1>3. FlagsMean'
  BY ZenonT(60), <1>0, LimitsAssumption, <1>a, <1>c DEF FlagsMean, Placed, Recorded,
     Flags, Out, OutOfResources, OutOfTime, Decide, WithinBudget, Spent
<1>4. ModelsMean'
  BY <1>0, LimitsAssumption, <1>a, <1>c DEF ModelsMean, SatIsChecked, Placed, Recorded,
     Flags, TheoryState, Out, OutOfResources, OutOfTime, Decide, WithinBudget, Spent
<1>5. ReasonsMean'
  BY <1>0, LimitsAssumption, <1>a, <1>c DEF ReasonsMean, FlagsMean, Placed, Recorded,
     Flags, Answers, Out, OutOfResources, OutOfTime, Decide, WithinBudget, Spent
<1>6. RefutationsMean'
  BY ZenonT(60), <1>0, LimitsAssumption, <1>a, <1>c DEF RefutationsMean, RefutedAt,
     UnsatInForce, Placed, Recorded, Flags, Decide, WithinBudget, Spent
<1> QED
  BY <1>1, <1>2, <1>3, <1>4, <1>5, <1>6 DEF IInv

\* Searched keeps the invariant.
LEMMA SearchedKeeps == IInv /\ Searched => IInv'
<1> SUFFICES ASSUME IInv, Searched PROVE IInv'
  OBVIOUS
<1>0. Recorded /\ Placed /\ FlagsMean /\ ModelsMean /\ ReasonsMean /\ RefutationsMean
  BY DEF IInv
<1>s. limits \in Limits /\ s \in Flags
  BY <1>0 DEF Recorded
<1>a. Spent(s, SpendResource(s))
  BY <1>s, Spending
<1>b. Spent(SpendResource(s), SpendResource(SpendResource(s)))
  BY <1>s, <1>a, Spending DEF Spent
<1>c. Spent(s, SpendResource(SpendResource(s)))
  BY <1>s, <1>a, <1>b, SpendingTwice DEF Spent
<1>1. Recorded'
  <2>1. s' \in Flags
    BY ZenonT(60), <1>0, LimitsAssumption, <1>a, <1>b, <1>c DEF Recorded, Flags, Searched,
       WithinBudget, Spent
  <2>2. t' \in TheoryState
    BY <1>0, LimitsAssumption, <1>a, <1>b, <1>c DEF Recorded, TheoryState, Searched,
       WithinBudget, Spent
  <2>3. answer' \in Answers
    BY <1>0, LimitsAssumption, <1>a, <1>b, <1>c DEF Recorded, Answers, Searched,
       WithinBudget, Spent
  <2>4. limits' \in Limits /\ sat' \in {"minisat", "cadical"} /\ raised' \in BOOLEAN
    BY <1>0, LimitsAssumption, <1>a, <1>b, <1>c DEF Recorded, Limits, Searched,
       WithinBudget, Spent
  <2> QED
    BY <2>1, <2>2, <2>3, <2>4 DEF Recorded
<1>2. Placed'
  BY ZenonT(60), <1>0, LimitsAssumption, <1>a, <1>b, <1>c DEF Placed, Recorded, Flags,
     TheoryState, Searched, WithinBudget, Spent
<1>3. FlagsMean'
  BY ZenonT(60), <1>0, LimitsAssumption, <1>a, <1>b, <1>c DEF FlagsMean, Placed,
     Recorded, Flags, Out, OutOfResources, OutOfTime, Searched, WithinBudget, Spent
<1>4. ModelsMean'
  BY ZenonT(60), <1>0, LimitsAssumption, <1>a, <1>b, <1>c DEF ModelsMean, SatIsChecked,
     Placed, Recorded, Flags, TheoryState, Out, OutOfResources, OutOfTime, Searched,
     WithinBudget, Spent
<1>5. ReasonsMean'
  BY ZenonT(60), <1>0, LimitsAssumption, <1>a, <1>b, <1>c DEF ReasonsMean, FlagsMean,
     Placed, Recorded, Flags, Answers, Out, OutOfResources, OutOfTime, Searched,
     WithinBudget, Spent
<1>6. RefutationsMean'
  BY ZenonT(60), <1>0, LimitsAssumption, <1>a, <1>b, <1>c DEF RefutationsMean, RefutedAt,
     UnsatInForce, Placed, Recorded, Flags, Searched, WithinBudget, Spent
<1> QED
  BY <1>1, <1>2, <1>3, <1>4, <1>5, <1>6 DEF IInv

\* CadicalSearch keeps the invariant.
LEMMA CadicalSearchKeeps == IInv /\ CadicalSearch => IInv'
<1> SUFFICES ASSUME IInv, CadicalSearch PROVE IInv'
  OBVIOUS
<1>0. Recorded /\ Placed /\ FlagsMean /\ ModelsMean /\ ReasonsMean /\ RefutationsMean
  BY DEF IInv
<1>s. limits \in Limits /\ s \in Flags
  BY <1>0 DEF Recorded
<1>a. Spent(s, SpendResource(s))
  BY <1>s, Spending
<1>1. Recorded'
  <2>1. s' \in Flags
    BY ZenonT(60), <1>0, LimitsAssumption, <1>a DEF Recorded, Flags, CadicalSearch,
       StartTheories, NoCheck, Spent
  <2>2. t' \in TheoryState
    BY <1>0, Starting DEF Recorded, CadicalSearch, StartTheories
  <2>3. answer' \in Answers
    BY <1>0, LimitsAssumption, <1>a DEF Recorded, Answers, CadicalSearch, StartTheories,
       NoCheck, Spent
  <2>4. limits' \in Limits /\ sat' \in {"minisat", "cadical"} /\ raised' \in BOOLEAN
    BY <1>0, LimitsAssumption, <1>a DEF Recorded, Limits, CadicalSearch, StartTheories,
       NoCheck, Spent
  <2> QED
    BY <2>1, <2>2, <2>3, <2>4 DEF Recorded
<1>2. Placed'
  BY ZenonT(60), <1>0, LimitsAssumption, <1>a DEF Placed, Recorded, Flags, TheoryState,
     CadicalSearch, StartTheories, NoCheck, Spent
<1>3. FlagsMean'
  BY ZenonT(60), <1>0, LimitsAssumption, <1>a DEF FlagsMean, Placed, Recorded, Flags, Out,
     OutOfResources, OutOfTime, CadicalSearch, StartTheories, NoCheck, Spent
<1>4. ModelsMean'
  BY ZenonT(60), <1>0, LimitsAssumption, <1>a DEF ModelsMean, SatIsChecked, Placed,
     Recorded, Flags, TheoryState, Out, OutOfResources, OutOfTime, CadicalSearch,
     StartTheories, NoCheck, Spent
<1>5. ReasonsMean'
  BY ZenonT(60), <1>0, LimitsAssumption, <1>a DEF ReasonsMean, FlagsMean, Placed,
     Recorded, Flags, Answers, Out, OutOfResources, OutOfTime, CadicalSearch,
     StartTheories, NoCheck, Spent
<1>6. RefutationsMean'
  BY ZenonT(60), <1>0, LimitsAssumption, <1>a DEF RefutationsMean, RefutedAt,
     UnsatInForce, Placed, Recorded, Flags, CadicalSearch, StartTheories, NoCheck, Spent
<1> QED
  BY <1>1, <1>2, <1>3, <1>4, <1>5, <1>6 DEF IInv

\* CadicalUnsat keeps the invariant.
LEMMA CadicalUnsatKeeps == IInv /\ CadicalUnsat => IInv'
<1> SUFFICES ASSUME IInv, CadicalUnsat PROVE IInv'
  OBVIOUS
<1>0. Recorded /\ Placed /\ FlagsMean /\ ModelsMean /\ ReasonsMean /\ RefutationsMean
  BY DEF IInv
<1>1. Recorded'
  <2>1. s' \in Flags
    BY <1>0, LimitsAssumption DEF Recorded, Flags, CadicalUnsat
  <2>2. t' \in TheoryState
    BY <1>0, LimitsAssumption DEF Recorded, TheoryState, CadicalUnsat
  <2>3. answer' \in Answers
    BY <1>0, LimitsAssumption DEF Recorded, Answers, CadicalUnsat
  <2>4. limits' \in Limits /\ sat' \in {"minisat", "cadical"} /\ raised' \in BOOLEAN
    BY <1>0, LimitsAssumption DEF Recorded, Limits, CadicalUnsat
  <2> QED
    BY <2>1, <2>2, <2>3, <2>4 DEF Recorded
<1>2. Placed'
  BY <1>0, LimitsAssumption DEF Placed, Recorded, Flags, TheoryState, CadicalUnsat
<1>3. FlagsMean'
  BY <1>0, LimitsAssumption DEF FlagsMean, Placed, Recorded, Flags, Out, OutOfResources,
     OutOfTime, CadicalUnsat
<1>4. ModelsMean'
  BY <1>0, LimitsAssumption DEF ModelsMean, SatIsChecked, Placed, Recorded, Flags,
     TheoryState, Out, OutOfResources, OutOfTime, CadicalUnsat
<1>5. ReasonsMean'
  BY <1>0, LimitsAssumption DEF ReasonsMean, FlagsMean, Placed, Recorded, Flags,
     Answers, Out, OutOfResources, OutOfTime, CadicalUnsat
<1>6. RefutationsMean'
  BY <1>0, LimitsAssumption DEF RefutationsMean, RefutedAt, UnsatInForce, Placed,
     Recorded, Flags, CadicalUnsat
<1> QED
  BY <1>1, <1>2, <1>3, <1>4, <1>5, <1>6 DEF IInv

\* CadicalFound keeps the invariant.
LEMMA CadicalFoundKeeps == IInv /\ CadicalFound => IInv'
<1> SUFFICES ASSUME IInv, CadicalFound PROVE IInv'
  OBVIOUS
<1>0. Recorded /\ Placed /\ FlagsMean /\ ModelsMean /\ ReasonsMean /\ RefutationsMean
  BY DEF IInv
<1>s. limits \in Limits /\ s \in Flags
  BY <1>0 DEF Recorded
<1>a. Spent(s, SpendResource(s))
  BY <1>s, Spending
<1>1. Recorded'
  <2>1. s' \in Flags
    BY <1>0, LimitsAssumption, <1>a DEF Recorded, Flags, CadicalFound, StartTheories,
       NoCheck, Spent
  <2>2. t' \in TheoryState
    BY <1>0, Starting DEF Recorded, CadicalFound, StartTheories
  <2>3. answer' \in Answers
    BY <1>0, LimitsAssumption, <1>a DEF Recorded, Answers, CadicalFound, StartTheories,
       NoCheck, Spent
  <2>4. limits' \in Limits /\ sat' \in {"minisat", "cadical"} /\ raised' \in BOOLEAN
    BY <1>0, LimitsAssumption, <1>a DEF Recorded, Limits, CadicalFound, StartTheories,
       NoCheck, Spent
  <2> QED
    BY <2>1, <2>2, <2>3, <2>4 DEF Recorded
<1>2. Placed'
  BY <1>0, LimitsAssumption, <1>a DEF Placed, Recorded, Flags, TheoryState,
     CadicalFound, StartTheories, NoCheck, Spent
<1>3. FlagsMean'
  BY <1>0, LimitsAssumption, <1>a DEF FlagsMean, Placed, Recorded, Flags, Out,
     OutOfResources, OutOfTime, CadicalFound, StartTheories, NoCheck, Spent
<1>4. ModelsMean'
  BY <1>0, LimitsAssumption, <1>a DEF ModelsMean, SatIsChecked, Placed, Recorded, Flags,
     TheoryState, Out, OutOfResources, OutOfTime, CadicalFound, StartTheories, NoCheck,
     Spent
<1>5. ReasonsMean'
  BY <1>0, LimitsAssumption, <1>a DEF ReasonsMean, FlagsMean, Placed, Recorded, Flags,
     Answers, Out, OutOfResources, OutOfTime, CadicalFound, StartTheories, NoCheck,
     Spent
<1>6. RefutationsMean'
  BY <1>0, LimitsAssumption, <1>a DEF RefutationsMean, RefutedAt, UnsatInForce, Placed,
     Recorded, Flags, CadicalFound, StartTheories, NoCheck, Spent
<1> QED
  BY <1>1, <1>2, <1>3, <1>4, <1>5, <1>6 DEF IInv

\* CadicalChecked keeps the invariant.
LEMMA CadicalCheckedKeeps == IInv /\ CadicalChecked => IInv'
<1> SUFFICES ASSUME IInv, CadicalChecked PROVE IInv'
  OBVIOUS
<1>0. Recorded /\ Placed /\ FlagsMean /\ ModelsMean /\ ReasonsMean /\ RefutationsMean
  BY DEF IInv
<1>s. limits \in Limits /\ s \in Flags
  BY <1>0 DEF Recorded
<1>a. Spent(s, SpendResource(s))
  BY <1>s, Spending
<1>1. Recorded'
  <2>1. s' \in Flags
    BY ZenonT(60), <1>0, LimitsAssumption, <1>a DEF Recorded, Flags, CadicalChecked,
       StartTheories, NoCheck, Spent
  <2>2. t' \in TheoryState
    BY <1>0, Starting DEF Recorded, CadicalChecked, StartTheories
  <2>3. answer' \in Answers
    BY <1>0, LimitsAssumption, <1>a DEF Recorded, Answers, CadicalChecked,
       StartTheories, NoCheck, Spent
  <2>4. limits' \in Limits /\ sat' \in {"minisat", "cadical"} /\ raised' \in BOOLEAN
    BY <1>0, LimitsAssumption, <1>a DEF Recorded, Limits, CadicalChecked, StartTheories,
       NoCheck, Spent
  <2> QED
    BY <2>1, <2>2, <2>3, <2>4 DEF Recorded
<1>2. Placed'
  BY ZenonT(60), <1>0, LimitsAssumption, <1>a DEF Placed, Recorded, Flags, TheoryState,
     CadicalChecked, StartTheories, NoCheck, Spent
<1>3. FlagsMean'
  BY SMTT(30), <1>0, LimitsAssumption, <1>a DEF FlagsMean, Placed, Recorded, Flags, Out,
     OutOfResources, OutOfTime, CadicalChecked, StartTheories, NoCheck, Spent
<1>4. ModelsMean'
  BY SMTT(30), <1>0, LimitsAssumption, <1>a DEF ModelsMean, SatIsChecked, Placed,
     Recorded, Flags, TheoryState, Out, OutOfResources, OutOfTime, CadicalChecked,
     StartTheories, NoCheck, Spent
<1>5. ReasonsMean'
  BY <1>0, LimitsAssumption, <1>a DEF ReasonsMean, FlagsMean, Placed, Recorded, Flags,
     Answers, Out, OutOfResources, OutOfTime, CadicalChecked, StartTheories, NoCheck,
     Spent
<1>6. RefutationsMean'
  BY ZenonT(60), <1>0, LimitsAssumption, <1>a DEF RefutationsMean, RefutedAt,
     UnsatInForce, Placed, Recorded, Flags, CadicalChecked, StartTheories, NoCheck,
     Spent
<1> QED
  BY <1>1, <1>2, <1>3, <1>4, <1>5, <1>6 DEF IInv

\* Solved keeps the invariant.
LEMMA SolvedKeeps == IInv /\ Solved => IInv'
<1> SUFFICES ASSUME IInv, Solved PROVE IInv'
  OBVIOUS
<1>0. Recorded /\ Placed /\ FlagsMean /\ ModelsMean /\ ReasonsMean /\ RefutationsMean
  BY DEF IInv
<1>1. Recorded'
  <2>1. s' \in Flags
    BY <1>0, LimitsAssumption DEF Recorded, Flags, Solved, Reason, Unknown
  <2>2. t' \in TheoryState
    BY <1>0, LimitsAssumption DEF Recorded, TheoryState, Solved, Reason, Unknown
  <2>3. answer' \in Answers
    <3>1. CASE status = "undef" \/ (status = "true" /\ (s.interrupted \/ Out(s)))
      BY <3>1 DEF Solved, Reason, Unknown, Answers
    <3>2. CASE ~(status = "undef" \/ (status = "true" /\ (s.interrupted \/ Out(s))))
      <4> DEFINE st == IF status = "true" THEN "sat" ELSE "unsat"
      <4>1. st \in {"sat", "unsat", "unknown"} /\ t.complete \in BOOLEAN
        BY <1>0 DEF Recorded, TheoryState
      <4>2. answer' = [status |-> st, why |-> "none", checked |-> t.complete]
        BY <3>2 DEF Solved
      <4> HIDE DEF st
      <4> QED
        BY <4>1, <4>2 DEF Answers
    <3> QED
      BY <3>1, <3>2
  <2>4. limits' \in Limits /\ sat' \in {"minisat", "cadical"} /\ raised' \in BOOLEAN
    BY <1>0, LimitsAssumption DEF Recorded, Limits, Solved, Reason, Unknown
  <2> QED
    BY <2>1, <2>2, <2>3, <2>4 DEF Recorded
<1>2. Placed'
  BY <1>0, LimitsAssumption DEF Placed, Recorded, Flags, TheoryState, Solved, Reason,
     Unknown
<1>3. FlagsMean'
  BY <1>0, LimitsAssumption DEF FlagsMean, Placed, Recorded, Flags, Out, OutOfResources,
     OutOfTime, Solved, Reason, Unknown
<1>4. ModelsMean'
  BY <1>0, LimitsAssumption DEF ModelsMean, SatIsChecked, Placed, Recorded, Flags,
     TheoryState, Out, OutOfResources, OutOfTime, Solved, Reason, Unknown
<1>5. ReasonsMean'
  BY <1>0, LimitsAssumption DEF ReasonsMean, FlagsMean, Placed, Recorded, Flags,
     Answers, Out, OutOfResources, OutOfTime, Solved, Reason, Unknown
<1>6. RefutationsMean'
  BY <1>0, LimitsAssumption DEF RefutationsMean, RefutedAt, UnsatInForce, Placed,
     Recorded, Flags, Solved, Reason, Unknown
<1> QED
  BY <1>1, <1>2, <1>3, <1>4, <1>5, <1>6 DEF IInv

\* EndCall keeps the invariant.
LEMMA EndCallKeeps == IInv /\ EndCall => IInv'
<1> SUFFICES ASSUME IInv, EndCall PROVE IInv'
  OBVIOUS
<1>0. Recorded /\ Placed /\ FlagsMean /\ ModelsMean /\ ReasonsMean /\ RefutationsMean
  BY DEF IInv
<1>1. Recorded'
  <2>1. s' \in Flags
    <3> DEFINE call == 0
    <3>1. call \in 0..MaxLimit
      BY LimitsAssumption
    <3>2. s' = [s EXCEPT !.timer = "off", !.call = call]
      BY DEF EndCall, Refresh
    <3> HIDE DEF call
    <3> QED
      BY <1>0, <3>1, <3>2 DEF Recorded, Flags
  <2>2. t' \in TheoryState
    BY <1>0, LimitsAssumption DEF Recorded, TheoryState, EndCall, Refresh, Forget,
       NoCheck, Unknown
  <2>3. answer' \in Answers
    BY <1>0, LimitsAssumption DEF Recorded, Answers, EndCall, Refresh, Forget, NoCheck,
       Unknown
  <2>4. limits' \in Limits /\ sat' \in {"minisat", "cadical"} /\ raised' \in BOOLEAN
    BY <1>0, LimitsAssumption DEF Recorded, Limits, EndCall, Refresh, Forget, NoCheck,
       Unknown
  <2> QED
    BY <2>1, <2>2, <2>3, <2>4 DEF Recorded
<1>2. Placed'
  BY <1>0, LimitsAssumption DEF Placed, Recorded, Flags, TheoryState, EndCall, Refresh,
     Forget, NoCheck, Unknown
<1>3. FlagsMean'
  BY <1>0, LimitsAssumption DEF FlagsMean, Placed, Recorded, Flags, Out, OutOfResources,
     OutOfTime, EndCall, Refresh, Forget, NoCheck, Unknown
<1>4. ModelsMean'
  BY <1>0, LimitsAssumption DEF ModelsMean, SatIsChecked, Placed, Recorded, Flags,
     TheoryState, Out, OutOfResources, OutOfTime, EndCall, Refresh, Forget, NoCheck,
     Unknown
<1>5. ReasonsMean'
  BY <1>0, LimitsAssumption DEF ReasonsMean, FlagsMean, Placed, Recorded, Flags,
     Answers, Out, OutOfResources, OutOfTime, EndCall, Refresh, Forget, NoCheck, Unknown
<1>6. RefutationsMean'
  BY <1>0, LimitsAssumption DEF RefutationsMean, RefutedAt, UnsatInForce, Placed,
     Recorded, Flags, EndCall, Refresh, Forget, NoCheck, Unknown
<1> QED
  BY <1>1, <1>2, <1>3, <1>4, <1>5, <1>6 DEF IInv

\* Tick keeps the invariant.
LEMMA TickKeeps == IInv /\ Tick => IInv'
<1> SUFFICES ASSUME IInv, Tick PROVE IInv'
  OBVIOUS
<1>0. Recorded /\ Placed /\ FlagsMean /\ ModelsMean /\ ReasonsMean /\ RefutationsMean
  BY DEF IInv
<1>1. Recorded'
  <2>1. s' \in Flags
    BY <1>0, LimitsAssumption DEF Recorded, Flags, Tick
  <2>2. t' \in TheoryState
    BY <1>0, LimitsAssumption DEF Recorded, TheoryState, Tick
  <2>3. answer' \in Answers
    BY <1>0, LimitsAssumption DEF Recorded, Answers, Tick
  <2>4. limits' \in Limits /\ sat' \in {"minisat", "cadical"} /\ raised' \in BOOLEAN
    BY <1>0, LimitsAssumption DEF Recorded, Limits, Tick
  <2> QED
    BY <2>1, <2>2, <2>3, <2>4 DEF Recorded
<1>2. Placed'
  BY <1>0, LimitsAssumption DEF Placed, Recorded, Flags, TheoryState, Tick
<1>3. FlagsMean'
  BY <1>0, LimitsAssumption DEF FlagsMean, Placed, Recorded, Flags, Out, OutOfResources,
     OutOfTime, Tick
<1>4. ModelsMean'
  BY <1>0, LimitsAssumption DEF ModelsMean, SatIsChecked, Placed, Recorded, Flags,
     TheoryState, Out, OutOfResources, OutOfTime, Tick
<1>5. ReasonsMean'
  BY <1>0, LimitsAssumption DEF ReasonsMean, FlagsMean, Placed, Recorded, Flags,
     Answers, Out, OutOfResources, OutOfTime, Tick
<1>6. RefutationsMean'
  BY <1>0, LimitsAssumption DEF RefutationsMean, RefutedAt, UnsatInForce, Placed,
     Recorded, Flags, Tick
<1> QED
  BY <1>1, <1>2, <1>3, <1>4, <1>5, <1>6 DEF IInv

\* SetLimits keeps the invariant.
LEMMA SetLimitsKeeps == IInv /\ SetLimits => IInv'
<1> SUFFICES ASSUME IInv, SetLimits PROVE IInv'
  OBVIOUS
<1>0. Recorded /\ Placed /\ FlagsMean /\ ModelsMean /\ ReasonsMean /\ RefutationsMean
  BY DEF IInv
<1>1. Recorded'
  <2>1. s' \in Flags
    BY <1>0, LimitsAssumption DEF Recorded, Flags, SetLimits
  <2>2. t' \in TheoryState
    BY <1>0, LimitsAssumption DEF Recorded, TheoryState, SetLimits
  <2>3. answer' \in Answers
    BY <1>0, LimitsAssumption DEF Recorded, Answers, SetLimits
  <2>4. limits' \in Limits /\ sat' \in {"minisat", "cadical"} /\ raised' \in BOOLEAN
    BY <1>0, LimitsAssumption DEF Recorded, Limits, SetLimits
  <2> QED
    BY <2>1, <2>2, <2>3, <2>4 DEF Recorded
<1>2. Placed'
  BY <1>0, LimitsAssumption DEF Placed, Recorded, Flags, TheoryState, SetLimits
<1>3. FlagsMean'
  BY <1>0, LimitsAssumption DEF FlagsMean, Placed, Recorded, Flags, Out, OutOfResources,
     OutOfTime, SetLimits
<1>4. ModelsMean'
  BY <1>0, LimitsAssumption DEF ModelsMean, SatIsChecked, Placed, Recorded, Flags,
     TheoryState, Out, OutOfResources, OutOfTime, SetLimits
<1>5. ReasonsMean'
  BY <1>0, LimitsAssumption DEF ReasonsMean, FlagsMean, Placed, Recorded, Flags,
     Answers, Out, OutOfResources, OutOfTime, SetLimits
<1>6. RefutationsMean'
  BY <1>0, LimitsAssumption DEF RefutationsMean, RefutedAt, UnsatInForce, Placed,
     Recorded, Flags, SetLimits
<1> QED
  BY <1>1, <1>2, <1>3, <1>4, <1>5, <1>6 DEF IInv

\* SpendIdle keeps the invariant.
LEMMA SpendIdleKeeps == IInv /\ SpendIdle => IInv'
<1> SUFFICES ASSUME IInv, SpendIdle PROVE IInv'
  OBVIOUS
<1>0. Recorded /\ Placed /\ FlagsMean /\ ModelsMean /\ ReasonsMean /\ RefutationsMean
  BY DEF IInv
<1>s. limits \in Limits /\ s \in Flags
  BY <1>0 DEF Recorded
<1>a. Spent(s, SpendResource(s))
  BY <1>s, Spending
<1>1. Recorded'
  <2>1. s' \in Flags
    BY <1>0, LimitsAssumption, <1>a DEF Recorded, Flags, SpendIdle, Spent
  <2>2. t' \in TheoryState
    BY <1>0, LimitsAssumption, <1>a DEF Recorded, TheoryState, SpendIdle, Spent
  <2>3. answer' \in Answers
    BY <1>0, LimitsAssumption, <1>a DEF Recorded, Answers, SpendIdle, Spent
  <2>4. limits' \in Limits /\ sat' \in {"minisat", "cadical"} /\ raised' \in BOOLEAN
    BY <1>0, LimitsAssumption, <1>a DEF Recorded, Limits, SpendIdle, Spent
  <2> QED
    BY <2>1, <2>2, <2>3, <2>4 DEF Recorded
<1>2. Placed'
  BY <1>0, LimitsAssumption, <1>a DEF Placed, Recorded, Flags, TheoryState, SpendIdle, Spent
<1>3. FlagsMean'
  BY <1>0, LimitsAssumption, <1>a DEF FlagsMean, Placed, Recorded, Flags, Out,
     OutOfResources, OutOfTime, SpendIdle, Spent
<1>4. ModelsMean'
  BY <1>0, LimitsAssumption, <1>a DEF ModelsMean, SatIsChecked, Placed, Recorded, Flags,
     TheoryState, Out, OutOfResources, OutOfTime, SpendIdle, Spent
<1>5. ReasonsMean'
  BY <1>0, LimitsAssumption, <1>a DEF ReasonsMean, FlagsMean, Placed, Recorded, Flags,
     Answers, Out, OutOfResources, OutOfTime, SpendIdle, Spent
<1>6. RefutationsMean'
  BY <1>0, LimitsAssumption, <1>a DEF RefutationsMean, RefutedAt, UnsatInForce, Placed,
     Recorded, Flags, SpendIdle, Spent
<1> QED
  BY <1>1, <1>2, <1>3, <1>4, <1>5, <1>6 DEF IInv

\* Push keeps the invariant.
LEMMA PushKeeps == IInv /\ Push => IInv'
<1> SUFFICES ASSUME IInv, Push PROVE IInv'
  OBVIOUS
<1>0. Recorded /\ Placed /\ FlagsMean /\ ModelsMean /\ ReasonsMean /\ RefutationsMean
  BY DEF IInv
<1>s. limits \in Limits /\ s \in Flags
  BY <1>0 DEF Recorded
<1>a. Spent(s, SpendResource(s))
  BY <1>s, Spending
<1>1. Recorded'
  <2>1. s' \in Flags
    <3> DEFINE g == SpendResource(s)
               trailOk == Append(g.trailOk, s.ok)
    <3>1. g \in Flags /\ trailOk \in Seq(BOOLEAN)
      BY <1>s, <1>a DEF Spent, Flags
    <3>2. s' = [g EXCEPT !.trailOk = trailOk]
      BY DEF Push
    <3> HIDE DEF g, trailOk
    <3> QED
      BY <3>1, <3>2 DEF Flags
  <2>2. t' \in TheoryState
    BY <1>0, LimitsAssumption, <1>a DEF Recorded, TheoryState, Push, Spent
  <2>3. answer' \in Answers
    BY <1>0, LimitsAssumption, <1>a DEF Recorded, Answers, Push, Spent
  <2>4. limits' \in Limits /\ sat' \in {"minisat", "cadical"} /\ raised' \in BOOLEAN
    BY <1>0, LimitsAssumption, <1>a DEF Recorded, Limits, Push, Spent
  <2> QED
    BY <2>1, <2>2, <2>3, <2>4 DEF Recorded
<1>2. Placed'
  BY SMTT(30), <1>0, LimitsAssumption, <1>a DEF Placed, Recorded, Flags, TheoryState,
     Push, Spent
<1>3. FlagsMean'
  BY <1>0, LimitsAssumption, <1>a DEF FlagsMean, Placed, Recorded, Flags, Out,
     OutOfResources, OutOfTime, Push, Spent
<1>4. ModelsMean'
  BY <1>0, LimitsAssumption, <1>a DEF ModelsMean, SatIsChecked, Placed, Recorded, Flags,
     TheoryState, Out, OutOfResources, OutOfTime, Push, Spent
<1>5. ReasonsMean'
  BY <1>0, LimitsAssumption, <1>a DEF ReasonsMean, FlagsMean, Placed, Recorded, Flags,
     Answers, Out, OutOfResources, OutOfTime, Push, Spent
<1>6. RefutationsMean'
  BY SMTT(30), <1>0, LimitsAssumption, <1>a DEF RefutationsMean, RefutedAt,
     UnsatInForce, Placed, Recorded, Flags, Push, Spent
<1> QED
  BY <1>1, <1>2, <1>3, <1>4, <1>5, <1>6 DEF IInv

\* Pop keeps the invariant.
LEMMA PopKeeps == IInv /\ Pop => IInv'
<1> SUFFICES ASSUME IInv, Pop PROVE IInv'
  OBVIOUS
<1>0. Recorded /\ Placed /\ FlagsMean /\ ModelsMean /\ ReasonsMean /\ RefutationsMean
  BY DEF IInv
<1>1. Recorded'
  <2>1. s' \in Flags
    <3> DEFINE n == Len(s.trailOk)
               ok == s.trailOk[n]
               trailOk == SubSeq(s.trailOk, 1, n - 1)
    <3>1. s.trailOk \in Seq(BOOLEAN) /\ s.trailOk # <<>>
      BY <1>0 DEF Recorded, Flags, Pop
    <3>2. ok \in BOOLEAN /\ trailOk \in Seq(BOOLEAN)
      BY <3>1
    <3>3. s' = [s EXCEPT !.ok = ok, !.trailOk = trailOk]
      BY DEF Pop
    <3> HIDE DEF ok, trailOk
    <3> QED
      BY <1>0, <3>2, <3>3 DEF Recorded, Flags
  <2>2. t' \in TheoryState
    BY <1>0, LimitsAssumption DEF Recorded, TheoryState, Pop
  <2>3. answer' \in Answers
    BY <1>0, LimitsAssumption DEF Recorded, Answers, Pop
  <2>4. limits' \in Limits /\ sat' \in {"minisat", "cadical"} /\ raised' \in BOOLEAN
    BY <1>0, LimitsAssumption DEF Recorded, Limits, Pop
  <2> QED
    BY <2>1, <2>2, <2>3, <2>4 DEF Recorded
<1>2. Placed'
  BY SMTT(30), <1>0, LimitsAssumption DEF Placed, Recorded, Flags, TheoryState, Pop
<1>3. FlagsMean'
  BY <1>0, LimitsAssumption DEF FlagsMean, Placed, Recorded, Flags, Out, OutOfResources,
     OutOfTime, Pop
<1>4. ModelsMean'
  BY <1>0, LimitsAssumption DEF ModelsMean, SatIsChecked, Placed, Recorded, Flags,
     TheoryState, Out, OutOfResources, OutOfTime, Pop
<1>5. ReasonsMean'
  BY <1>0, LimitsAssumption DEF ReasonsMean, FlagsMean, Placed, Recorded, Flags,
     Answers, Out, OutOfResources, OutOfTime, Pop
<1>6. RefutationsMean'
  <2> DEFINE n == Len(s.trailOk)
  <2>1. s.trailOk \in Seq(BOOLEAN) /\ n \in Nat \ {0} /\ s \in Flags
    BY <1>0 DEF Recorded, Flags, Pop
  <2>2. s'.ok = s.trailOk[n] /\ s'.trailOk = SubSeq(s.trailOk, 1, n - 1)
    BY <2>1 DEF Pop, Flags
  <2>3. Len(s'.trailOk) = n - 1 /\ \A i \in 1..n - 1 : s'.trailOk[i] = s.trailOk[i]
    BY <2>1, <2>2
  <2>4. \A i \in 1..n : ~s.trailOk[i] => \E r \in refuted : r <= i - 1
    BY <1>0 DEF RefutationsMean, RefutedAt
  <2>5. refuted \subseteq 0..n /\ refuted' = refuted \intersect 0..n - 1 /\ pc' = "idle"
    BY <1>0 DEF Placed, Pop
  <2>6. \A i \in 1..n : ~s.trailOk[i] => \E r \in refuted' : r <= i - 1
    BY <2>1, <2>4, <2>5
  <2>7. UnsatInForce'
    BY <2>1, <2>2, <2>6 DEF UnsatInForce
  <2>8. \A i \in 1..Len(s'.trailOk) : ~s'.trailOk[i] => \E r \in refuted' : r <= i - 1
    BY SMTT(30), <2>1, <2>3, <2>6
  <2> QED
    BY <2>5, <2>7, <2>8 DEF RefutationsMean, RefutedAt
<1> QED
  BY <1>1, <1>2, <1>3, <1>4, <1>5, <1>6 DEF IInv

\* ResetAssertions keeps the invariant.
LEMMA ResetAssertionsKeeps == IInv /\ ResetAssertions => IInv'
<1> SUFFICES ASSUME IInv, ResetAssertions PROVE IInv'
  OBVIOUS
<1>0. Recorded /\ Placed /\ FlagsMean /\ ModelsMean /\ ReasonsMean /\ RefutationsMean
  BY DEF IInv
<1>1. Recorded'
  <2>1. s' \in Flags
    <3> DEFINE empty == <<>>
    <3>1. empty \in Seq(BOOLEAN)
      OBVIOUS
    <3>2. s' = [s EXCEPT !.ok = TRUE, !.trailOk = empty, !.interrupted = FALSE,
                         !.asynchInterrupt = FALSE]
      BY DEF ResetAssertions
    <3> HIDE DEF empty
    <3> QED
      BY <1>0, <3>1, <3>2 DEF Recorded, Flags
  <2>2. t' \in TheoryState
    BY <1>0, LimitsAssumption DEF Recorded, TheoryState, ResetAssertions
  <2>3. answer' \in Answers
    BY <1>0, LimitsAssumption DEF Recorded, Answers, ResetAssertions
  <2>4. limits' \in Limits /\ sat' \in {"minisat", "cadical"} /\ raised' \in BOOLEAN
    BY <1>0, LimitsAssumption DEF Recorded, Limits, ResetAssertions
  <2> QED
    BY <2>1, <2>2, <2>3, <2>4 DEF Recorded
<1>2. Placed'
  BY <1>0, LimitsAssumption DEF Placed, Recorded, Flags, TheoryState, ResetAssertions
<1>3. FlagsMean'
  BY <1>0, LimitsAssumption DEF FlagsMean, Placed, Recorded, Flags, Out, OutOfResources,
     OutOfTime, ResetAssertions
<1>4. ModelsMean'
  BY <1>0, LimitsAssumption DEF ModelsMean, SatIsChecked, Placed, Recorded, Flags,
     TheoryState, Out, OutOfResources, OutOfTime, ResetAssertions
<1>5. ReasonsMean'
  BY <1>0, LimitsAssumption DEF ReasonsMean, FlagsMean, Placed, Recorded, Flags,
     Answers, Out, OutOfResources, OutOfTime, ResetAssertions
<1>6. RefutationsMean'
  BY <1>0, LimitsAssumption DEF RefutationsMean, RefutedAt, UnsatInForce, Placed,
     Recorded, Flags, ResetAssertions
<1> QED
  BY <1>1, <1>2, <1>3, <1>4, <1>5, <1>6 DEF IInv

\* The invariant is kept by every step.
LEMMA Inductive == IInv /\ [Next]_vars => IInv'
<1> SUFFICES ASSUME IInv, [Next]_vars PROVE IInv'
  OBVIOUS
<1>1. CASE Step
  BY <1>1, RefuseKeeps, PreprocessKeeps, PresolveKeeps, TheoryCheckKeeps, EndRoundKeeps,
     LastCallKeeps, SolveKeeps, PropagateKeeps, FinalKeeps, CheckedKeeps, DecideKeeps,
     SearchedKeeps, CadicalSearchKeeps, CadicalUnsatKeeps, CadicalFoundKeeps,
     CadicalCheckedKeeps, SolvedKeeps, EndCallKeeps DEF Step
<1>2. CASE CheckSat \/ LogicException \/ Tick \/ SetLimits \/ SpendIdle \/ Push \/ Pop \/ ResetAssertions
  BY <1>2, CheckSatKeeps, LogicExceptionKeeps, TickKeeps, SetLimitsKeeps,
     SpendIdleKeeps, PushKeeps, PopKeeps, ResetAssertionsKeeps
<1>3. CASE UNCHANGED vars
  BY <1>3 DEF vars, IInv, Recorded, Placed, FlagsMean, ModelsMean, SatIsChecked,
     ReasonsMean, RefutationsMean, RefutedAt, UnsatInForce, Out, OutOfResources,
     OutOfTime
<1> QED
  BY <1>1, <1>2, <1>3 DEF Next

-----------------------------------------------------------------------------
(* What it implies. *)

\* The invariant has the type invariant in it.
LEMMA Types == IInv => TypeOK
<1> SUFFICES ASSUME IInv PROVE TypeOK
  OBVIOUS
<1>1. s \in Flags /\ t \in TheoryState /\ Placed
  BY DEF IInv, Recorded
<1>2. /\ s.total \in 0..MaxLimit /\ s.call \in 0..MaxLimit
      /\ s.timer \in {"off", "on", "expired"} /\ s.inCheckSat \in BOOLEAN
  BY <1>1 DEF Flags
<1>3. t.left \in 0..Theories
  BY <1>1 DEF TheoryState
<1>4. s.inCheckSat = (pc \notin {"idle", "driver", "presolve", "end"})
  BY <1>1, <1>2 DEF Placed
<1> QED
  BY <1>1, <1>2, <1>3, <1>4 DEF Placed, TypeOK

\* The reasons it allows are the ones ReasonFits lists.
LEMMA Fitting == IInv => ReasonFits
<1> SUFFICES ASSUME IInv, pc = "end", answer.status = "unknown"
    PROVE  CASE answer.why = "resourceout" -> OutOfResources(s)
             [] answer.why = "timeout" -> OutOfTime(s) /\ ~OutOfResources(s)
             [] answer.why = "interrupted" -> raised
  BY Types DEF ReasonFits, IInv, FlagsMean, Placed
<1>1. \/ answer.why = "resourceout" /\ OutOfResources(s)
      \/ answer.why = "timeout" /\ OutOfTime(s) /\ ~OutOfResources(s)
      \/ answer.why = "interrupted" /\ raised
  BY DEF IInv, ReasonsMean
<1> QED
  BY <1>1

\* The invariant holds in every reachable state.
LEMMA Invariance == Spec => []IInv
<1> QED
  BY Initially, Inductive, PTL DEF Spec

\* sat is answered (PropEngine::checkSat) only for a model that a full check of
\* the theories, run to its end, has confirmed: whatever the limits are, and
\* whichever of the two solvers, the theories or the driver notices them.
THEOREM SatChecked == Spec => []SatIsChecked
<1>1. IInv => SatIsChecked
  BY DEF IInv, ModelsMean
<1> QED
  BY <1>1, Invariance, PTL

\* unknown comes with the limit that was reached, and an interrupt of one check
\* (PropEngine::interrupt) does not stop a later one, unless an exception leaves it
\* for the next search.
THEOREM ReasonsFit == Spec => []ReasonFits
<1> QED
  BY Fitting, Invariance, PTL

\* MiniSat's ok is false only while a level is open at which the clauses were
\* refuted: push and pop save and restore it in step with the clauses.
THEOREM UnsatStands == Spec => []UnsatInForce
<1>1. IInv => UnsatInForce
  BY DEF IInv, RefutationsMean
<1> QED
  BY <1>1, Invariance, PTL

=============================================================================
