--------------------------- MODULE EqualityEngine ---------------------------
(***************************************************************************)
(* theory/uf/equality_engine: congruence closure over the registered terms,*)
(* undone by hand when the context pops.                                   *)
(*                                                                         *)
(* The engine is the record e of its vectors; Saved is what the context    *)
(* restores on a pop, the lengths of these vectors among it, and backtrack *)
(* cuts the vectors to the lengths.  A public method runs to its end and   *)
(* then empties the queues in propagate: while a queue is not empty only   *)
(* Propagate is enabled.  A method that adds its missing terms first is    *)
(* AddTerm, which ends with empty queues as well, before the method.       *)
(*                                                                         *)
(* Left out: shared (trigger) terms and their disequalities, the master    *)
(* engine, proofs.  Terms, their evaluation, and what the theory does when *)
(* it is notified are external.                                            *)
(***************************************************************************)
EXTENDS Integers, Sequences, FiniteSets, SequencesExt

CONSTANTS Term,          \* terms, operators of functions included
          Sig,           \* Sig[t]: kind, operator and children of t
          Value(_, _),   \* what the rewriter makes of an operator and constants
          True, False,   \* the Boolean constants
          First,         \* bound: terms that are there from the start
          Later,         \* bound: terms that are added, in this order
          Watched,       \* bound: the terms that may get triggers
          MaxLevel,      \* bound: context levels
          MaxFacts       \* bound: facts asserted in the open levels

ASSUME EngineAssumption ==
    /\ {True, False} \union ToSet(First \o Later) \union Watched \subseteq Term /\ True # False
    /\ MaxLevel \in Nat /\ MaxFacts \in Nat
    /\ \A t \in Term : Sig[t].kind \in {"op", "var", "const", "eq", "app", "interp"}

VARIABLES e,       \* the vectors of the engine
          saved,   \* the context: Saved(e) at every push
          facts    \* history: what was asserted at each level, as pairs

vars == <<e, saved, facts>>

Null == 0
NoApp == <<"null", Null, Null>>
Check(g, name, cond) == IF cond THEN g ELSE [g EXCEPT !.failed = @ \union {name}]
MaxOf(set) == CHOOSE n \in set : \A m \in set : m <= n

-----------------------------------------------------------------------------
(* Terms, nodes and lists. *)

Ids(g) == DOMAIN g.nodes
HasTerm(g, t) == \E i \in Ids(g) : g.nodes[i].term = t

\* getNodeId: partial applications share the term of the full one, which is last.
NodeId(g, t) == MaxOf({i \in Ids(g) : g.nodes[i].term = t})

Find(g, i) == g.nodes[i].find
IsConstant(g, i) == g.nodes[Find(g, i)].const
AreEqual(g, t1, t2) == Find(g, NodeId(g, t1)) = Find(g, NodeId(g, t2))
Class(g, i) == {j \in Ids(g) : Find(g, j) = Find(g, i)}

\* The ids on a list from id on: next(i) follows i until last(i).
Along(next(_), last(_), id, bound) ==
    LET walk[ids \in Seq(Nat)] ==
            IF Len(ids) > bound \/ last(Last(ids)) THEN ids
            ELSE walk[Append(ids, next(Last(ids)))]
    IN  walk[<<id>>]

\* The circular list of a class, starting from id.
Ring(g, id) ==
    Along(LAMBDA i : g.nodes[i].next, LAMBDA i : g.nodes[i].next = id, id, Len(g.nodes))

\* The list of the triggers of a node, of the edges of a node.
TriggersOf(g, id) ==
    IF g.nodes[id].trig = Null THEN <<>>
    ELSE Along(LAMBDA i : g.triggers[i].next, LAMBDA i : g.triggers[i].next = Null,
               g.nodes[id].trig, Len(g.triggers))

EdgesOf(g, id) ==
    IF g.nodes[id].edge = Null THEN <<>>
    ELSE Along(LAMBDA i : g.edges[i].next, LAMBDA i : g.edges[i].next = Null,
               g.nodes[id].edge, Len(g.edges))

\* The partner of an edge or a trigger: they come in pairs.
Other(i) == IF i % 2 = 1 THEN i + 1 ELSE i - 1

LookupsOf(g, key) == {x \in ToSet(g.lookups) : x.key = key}

Enqueue(g, i, j, why) == [g EXCEPT !.queue = Append(@, [a |-> i, b |-> j, why |-> why])]

-----------------------------------------------------------------------------
(* Adding terms. *)

NewNode(g, t) ==
    LET id == Len(g.nodes) + 1 IN
    [g EXCEPT !.nodes = Append(@,
        [ term |-> t, app |-> NoApp, norm |-> NoApp, const |-> FALSE, internal |-> TRUE,
          isEq |-> FALSE, toEval |-> 0, find |-> id, next |-> id, size |-> 1,
          use |-> <<>>, trig |-> Null, edge |-> Null ])]

\* An equality of a term with itself is true, of two constants false.
StoreApplicationLookup(g, key, id) ==
    LET q == [Check(g, "lookup twice", LookupsOf(g, key) = {}) EXCEPT
                !.lookups = Append(@, [key |-> key, id |-> id])]
    IN  IF key[1] # "eq" THEN q
        ELSE IF key[2] = key[3] THEN Enqueue(q, id, NodeId(g, True), "reflexivity")
        ELSE IF g.nodes[key[2]].const /\ g.nodes[key[3]].const
             THEN Enqueue(q, id, NodeId(g, False), "constants")
        ELSE q

UsedIn(g, id, fun) ==
    [g EXCEPT !.nodes[id].use = <<fun>> \o @, !.useMemory = Append(@, id)]

\* The application is the last node; a or b may be the node before.
NewApplicationNode(g, t, a, b, type) ==
    LET id == Len(g.nodes) + 1
        norm == <<type, Find(g, a), Find(g, b)>>
        n == [NewNode(g, t) EXCEPT !.nodes[id].app = <<type, a, b>>, !.nodes[id].norm = norm]
        there == LookupsOf(g, norm)
        q == IF there = {} THEN StoreApplicationLookup(n, norm, id)
             ELSE Enqueue(n, id, (CHOOSE x \in there : TRUE).id, "congruence")
    IN  UsedIn(UsedIn(q, a, id), b, id)

SubtermEvaluates(g, id) ==
    LET left == g.nodes[id].toEval - 1
        q == [Check(g, "evaluates too often", left >= 0) EXCEPT
                !.nodes[id].toEval = left, !.evals = Append(@, id)]
    IN  IF left = 0 THEN [q EXCEPT !.evalQueue = Append(@, id)] ELSE q

\* The application of op to the children, one after the other.
Curry(g, t, type) ==
    LET first == NodeId(g, Sig[t].op)
        add(acc, child) ==
            LET q == NewApplicationNode(acc.g, t, acc.id, NodeId(acc.g, child), type)
            IN  [g |-> q, id |-> Len(q.nodes)]
    IN  FoldLeft(add, [g |-> g, id |-> first], Sig[t].args).g

EvaluateConstants(g, t) ==
    LET id == Len(g.nodes)
        counted == [g EXCEPT !.nodes[id].toEval = Len(Sig[t].args)]
    IN  FoldLeft(LAMBDA q, child :
                    IF IsConstant(q, NodeId(q, child)) THEN SubtermEvaluates(q, id) ELSE q,
                 counted, Sig[t].args)

\* addTermInternal, when the children are there.  The code propagates after each
\* step of the currying; here the queues are emptied after the last.
AddTermInternal(g, t) ==
    LET sig == Sig[t]
        public(q) == [q EXCEPT !.nodes[Len(q.nodes)].internal = FALSE]
        withOp == IF sig.kind \in {"app", "interp"} /\ ~HasTerm(g, sig.op)
                  THEN NewNode(g, sig.op) ELSE g
    IN  IF HasTerm(g, t) \/ g.done THEN g
        ELSE CASE sig.kind = "eq" ->
                    LET q == public(NewApplicationNode(g, t, NodeId(g, sig.args[1]),
                                                       NodeId(g, sig.args[2]), "eq"))
                    IN  [q EXCEPT !.nodes[Len(q.nodes)].isEq = TRUE]
               [] sig.kind = "app" -> public(Curry(withOp, t, "app"))
               [] sig.kind = "interp" ->
                    EvaluateConstants(public(Curry(withOp, t, "interp")), t)
               [] OTHER -> LET q == public(NewNode(g, t))
                           IN  [q EXCEPT !.nodes[Len(q.nodes)].const = sig.kind = "const"]

Empty == [ nodes |-> <<>>,       \* d_nodes and the vectors as long as it
           useMemory |-> <<>>,   \* d_useListNodes, each with the node it is for
           lookups |-> <<>>,     \* d_applicationLookup(s)
           merges |-> <<>>,      \* d_assertedEqualities
           edges |-> <<>>,       \* d_equalityEdges
           triggers |-> <<>>,    \* d_equalityTriggers, d_equalityTriggersOriginal
           evals |-> <<>>,       \* d_subtermEvaluates
           deduced |-> <<>>,     \* d_deducedDisequalities and their reasons
           propagated |-> {},    \* d_propagatedDisequalities
           queue |-> <<>>,       \* d_propagationQueue
           evalQueue |-> <<>>,   \* d_evaluationQueue
           done |-> FALSE,       \* d_done
           notified |-> {},      \* the theory: the predicates it was told of
           failed |-> {} ]       \* Asserts that did not hold

\* init(), and addTerm for the first terms.
Init ==
    /\ e = FoldLeft(AddTermInternal, Empty, <<True, False>> \o First)
    /\ saved = <<>>
    /\ facts = <<{}>>

-----------------------------------------------------------------------------
(* Disequalities. *)

HasPropagatedDisequality(g, i, j) == <<i, j>> \in g.propagated

\* The map from disequalities to reasons has both directions.
Reasons(g) ==
    UNION {{d.pair, <<d.pair[2], d.pair[1]>>} : d \in ToSet(g.deduced)}

StorePropagatedDisequality(g, i, j, why) ==
    [Check(Check(Check(g, "disequality twice", <<i, j>> \notin Reasons(g)), "distinct", i # j),
           "reason", \A r \in why : Find(g, r[1]) = Find(g, r[2])) EXCEPT
        !.propagated = @ \union {<<i, j>>, <<j, i>>},
        !.deduced = Append(@, [pair |-> <<i, j>>, why |-> why])]

\* The equalities between the classes of i and j that are false, with i = 1 if
\* they are the way round.
FalseEqualities(g, i, j) ==
    {x \in LookupsOf(g, <<"eq", Find(g, i), Find(g, j)>>) :
        Find(g, x.id) = Find(g, NodeId(g, False))}

\* areDisequal, and the reasons it would store for it.
DisequalityReasons(g, i, j) ==
    LET ci == Find(g, i)
        cj == Find(g, j)
        false == NodeId(g, False)
        reason(x, l, r) == {<<l, g.nodes[x.id].app[2]>>, <<x.id, false>>,
                            <<r, g.nodes[x.id].app[3]>>}
    IN  IF g.nodes[ci].const /\ g.nodes[cj].const /\ ci # cj
        THEN {{<<i, ci>>, <<j, cj>>}}
        ELSE IF FalseEqualities(g, i, j) # {}
        THEN {reason(x, i, j) : x \in FalseEqualities(g, i, j)}
        ELSE {reason(x, j, i) : x \in FalseEqualities(g, j, i)}

AreDisequal(g, i, j) == HasPropagatedDisequality(g, i, j) \/ DisequalityReasons(g, i, j) # {}

\* areDisequal with ensureProof.
EnsureProof(g, i, j) ==
    IF HasPropagatedDisequality(g, i, j) \/ DisequalityReasons(g, i, j) = {} THEN g
    ELSE StorePropagatedDisequality(g, i, j, CHOOSE w \in DisequalityReasons(g, i, j) : TRUE)

-----------------------------------------------------------------------------
(* Merging two classes. *)

\* A trigger of a node that moves to class c: it fires when it meets its other
\* half, and its class is left alone from then on.
MoveTrigger(acc, tr, c) ==
    LET trs == acc.g.triggers
        moved == [acc.g EXCEPT !.triggers[tr].cls = c]
    IN  IF trs[tr].cls = trs[Other(tr)].cls THEN acc
        ELSE IF trs[Other(tr)].cls = c
             THEN [g |-> moved, fired |-> Append(acc.fired, tr)]
             ELSE [acc EXCEPT !.g = moved]

\* The members of class2 find c now, and their triggers follow.
MoveMembers(g, members, c) ==
    LET move(acc, id) ==
            FoldLeft(LAMBDA a, tr : MoveTrigger(a, tr, c),
                     [acc EXCEPT !.g.nodes[id].find = c], TriggersOf(acc.g, id))
    IN  FoldLeft(move, [g |-> g, fired |-> <<>>], members)

\* A use of a member: it may evaluate now, and it is congruent to what is found
\* under its arguments, or is what others find.
Recheck(g, id, fun, constant) ==
    LET q == IF g.nodes[fun].norm[1] = "interp" /\ constant /\ ~g.nodes[id].internal
             THEN SubtermEvaluates(g, NodeId(g, g.nodes[fun].term)) ELSE g
        norm == g.nodes[fun].norm
        key == <<norm[1], Find(g, norm[2]), Find(g, norm[3])>>
        there == LookupsOf(g, key)
        found == (CHOOSE x \in there : TRUE).id
    IN  IF there = {} THEN StoreApplicationLookup(q, key, fun)
        ELSE IF Find(g, fun) # Find(g, found) THEN Enqueue(q, fun, found, "congruence")
        ELSE q

RecheckUses(g, members, constant) ==
    FoldLeft(LAMBDA q, id : FoldLeft(LAMBDA r, fun : Recheck(r, id, fun, constant),
                                     q, g.nodes[id].use),
             g, members)

\* EqualityNode::merge: exchanging the next pointers joins or separates two rings.
SwapNext(g, c1, c2, sign) ==
    [g EXCEPT !.nodes[c1].next = g.nodes[c2].next, !.nodes[c2].next = g.nodes[c1].next,
              !.nodes[c1].size = @ + sign * g.nodes[c2].size]

\* A variant: the uses of the class that is absorbed are not looked at.
MergeWithoutUses(g, c1, c2) ==
    LET moved == MoveMembers(g, Ring(g, c2), c1)
    IN  [moved EXCEPT !.g = SwapNext(moved.g, c1, c2, 1)]

\* merge: class c2 into class c1, with the triggers that fire.
Merge(g, c1, c2) ==
    LET members == Ring(g, c2)
        checked == Check(g, "merge constants", ~g.nodes[c2].const)
        moved == MoveMembers(checked, members, c1)
        used == IF g.nodes[c2].isEq THEN moved.g
                ELSE RecheckUses(moved.g, members, g.nodes[c1].const)
    IN  [moved EXCEPT !.g = SwapNext(used, c1, c2, 1)]

UndoMerge(g, c1, c2) ==
    LET undoTrigger(q, tr) == [q EXCEPT !.triggers[tr].cls = c2]
        undo(q, id) == FoldLeft(undoTrigger, [q EXCEPT !.nodes[id].find = c2],
                                TriggersOf(q, id))
        apart == SwapNext(g, c1, c2, -1)
    IN  FoldLeft(undo, apart, Ring(apart, c2))

\* A variant: the edge joins the representatives, not the terms it is about.
AddGraphEdgeFind(g, i, j, why) ==
    LET k == Len(g.edges) + 1
        a == Find(g, i)
        b == Find(g, j)
    IN  [g EXCEPT !.edges = @ \o <<[node |-> b, next |-> g.nodes[a].edge, why |-> why],
                                   [node |-> a, next |-> g.nodes[b].edge, why |-> why]>>,
                  !.nodes[a].edge = k, !.nodes[b].edge = k + 1]

AddGraphEdge(g, i, j, why) ==
    LET k == Len(g.edges) + 1 IN
    [g EXCEPT !.edges = @ \o <<[node |-> j, next |-> g.nodes[i].edge, why |-> why],
                               [node |-> i, next |-> g.nodes[j].edge, why |-> why]>>,
              !.nodes[i].edge = k, !.nodes[j].edge = k + 1]

-----------------------------------------------------------------------------
(* Backtracking. *)

\* What the context keeps, for every level.
Saved(g) ==
    [ nodes |-> Len(g.nodes), lookups |-> Len(g.lookups), merges |-> Len(g.merges),
      triggers |-> Len(g.triggers), evals |-> Len(g.evals), deduced |-> Len(g.deduced),
      propagated |-> g.propagated, done |-> g.done, notified |-> g.notified ]

\* The elements of a vector above its length at level l, the last first.
Above(seq, len) == Reverse(SubSeq(seq, len + 1, Len(seq)))

UndoMerges(g, len) ==
    LET undo(q, m) == IF m[1] = Null THEN q ELSE UndoMerge(q, m[1], m[2])
    IN  [FoldLeft(undo, g, Above(g.merges, len)) EXCEPT !.merges = SubSeq(@, 1, len)]

UndoEdges(g, len) ==
    LET undo(q, k) ==
            [q EXCEPT !.nodes[q.edges[2 * k].node].edge = q.edges[2 * k - 1].next,
                      !.nodes[q.edges[2 * k - 1].node].edge = q.edges[2 * k].next]
        pairs == [k \in 1..Len(g.edges) \div 2 |-> k]
    IN  [FoldLeft(undo, g, Above(pairs, len)) EXCEPT !.edges = SubSeq(@, 1, 2 * len)]

UndoTriggers(g, len) ==
    LET undo(q, tr) == [q EXCEPT !.nodes[tr.cls].trig = tr.next]
    IN  [FoldLeft(undo, g, Above(g.triggers, len)) EXCEPT !.triggers = SubSeq(@, 1, len)]

UndoEvals(g, len) ==
    [FoldLeft(LAMBDA q, id : [q EXCEPT !.nodes[id].toEval = @ + 1], g, Above(g.evals, len))
        EXCEPT !.evals = SubSeq(@, 1, len)]

RemoveTopFromUseList(g, id) ==
    [Check(g, "use list", g.useMemory # <<>> /\ Last(g.useMemory) = id) EXCEPT
        !.nodes[id].use = Tail(@), !.useMemory = Front(@)]

UndoNodes(g, len) ==
    LET undo(q, n) == IF n.app = NoApp THEN q
                      ELSE RemoveTopFromUseList(RemoveTopFromUseList(q, n.app[3]), n.app[2])
    IN  [FoldLeft(undo, g, Above(g.nodes, len)) EXCEPT !.nodes = SubSeq(@, 1, len)]

\* A variant: merges are undone in the order they were made.
BacktrackForwards(g, c) ==
    LET undo(q, m) == IF m[1] = Null THEN q ELSE UndoMerge(q, m[1], m[2])
        undone == [FoldLeft(undo, g, SubSeq(g.merges, c.merges + 1, Len(g.merges)))
                    EXCEPT !.merges = SubSeq(@, 1, c.merges)]
        q1 == UndoEvals(UndoTriggers(UndoEdges(undone, c.merges), c.triggers), c.evals)
        q2 == [q1 EXCEPT !.lookups = SubSeq(@, 1, c.lookups),
                         !.deduced = SubSeq(@, 1, c.deduced)]
    IN  UndoNodes(q2, c.nodes)

\* A variant: the triggers are unlinked before the merges are undone.
BacktrackTriggersFirst(g, c) ==
    LET q1 == UndoEdges(UndoMerges(UndoTriggers(g, c.triggers), c.merges), c.merges)
        q2 == [UndoEvals(q1, c.evals) EXCEPT !.lookups = SubSeq(@, 1, c.lookups),
                                             !.deduced = SubSeq(@, 1, c.deduced)]
    IN  UndoNodes(q2, c.nodes)

\* A variant: the disequalities and their reasons are kept.
BacktrackKeepsReasons(g, c) ==
    LET q1 == UndoEvals(UndoTriggers(UndoEdges(UndoMerges(g, c.merges), c.merges),
                                     c.triggers), c.evals)
        q2 == [q1 EXCEPT !.lookups = SubSeq(@, 1, c.lookups)]
    IN  UndoNodes(q2, c.nodes)

\* A variant: the counts of what is left to evaluate stay.
BacktrackKeepsCounts(g, c) ==
    LET q1 == UndoTriggers(UndoEdges(UndoMerges(g, c.merges), c.merges), c.triggers)
        q2 == [q1 EXCEPT !.lookups = SubSeq(@, 1, c.lookups),
                         !.deduced = SubSeq(@, 1, c.deduced),
                         !.evals = SubSeq(@, 1, c.evals)]
    IN  UndoNodes(q2, c.nodes)

\* backtrack, to the lengths c that the context has restored.
Backtrack(g, c) ==
    LET queue == IF c.merges < Len(g.merges) THEN <<>> ELSE g.queue
        q1 == UndoEdges(UndoMerges([g EXCEPT !.queue = queue], c.merges), c.merges)
        q2 == [UndoEvals(UndoTriggers(q1, c.triggers), c.evals) EXCEPT
                !.lookups = SubSeq(@, 1, c.lookups), !.deduced = SubSeq(@, 1, c.deduced)]
    IN  UndoNodes(q2, c.nodes)

-----------------------------------------------------------------------------
(* propagate, one turn of its loop at a time. *)

Busy == e.queue # <<>> \/ e.evalQueue # <<>>

\* A class is absorbed by one with a public representative, then by one with a
\* constant, then by the bigger one.
MergeInto(g, c1, c2) ==
    LET n1 == g.nodes[c1]
        n2 == g.nodes[c2]
    IN  IF n1.internal # n2.internal THEN IF n1.internal THEN c2 ELSE c1
        ELSE IF n1.const # n2.const THEN IF n2.const THEN c2 ELSE c1
        ELSE IF n2.size > n1.size THEN c2 ELSE c1

\* The trigger tells the theory, which answers ok.  A disequality is told only
\* once, with its reason.
NotifyTrigger(g, tr, ok) ==
    LET t == g.triggers[tr].term
        pol == g.triggers[tr].pol
        l == NodeId(g, Sig[t].args[1])
        r == NodeId(g, Sig[t].args[2])
        isDiseq == Sig[t].kind = "eq" /\ ~pol
        stored == IF isDiseq THEN StorePropagatedDisequality(g, l, r,
                                      {<<NodeId(g, t), NodeId(g, False)>>})
                  ELSE g
    IN  IF g.done \/ (isDiseq /\ HasPropagatedDisequality(g, l, r)) THEN g
        ELSE [stored EXCEPT !.notified = @ \union {<<t, pol>>}, !.done = ~ok]

\* The theory finds a conflict on the trigger bad, or on none.
NotifyTriggers(g, fired, bad) ==
    FoldLeft(LAMBDA q, k : NotifyTrigger(q, fired[k], k # bad), g, [k \in DOMAIN fired |-> k])

\* A merge candidate whose classes c1 and c2 differ.
MergeClasses(g, cand, c1, c2) ==
    LET into == MergeInto(g, c1, c2)
        from == IF into = c1 THEN c2 ELSE c1
    IN  Merge([AddGraphEdge(g, cand.a, cand.b, cand.why) EXCEPT
                    !.merges = Append(@, <<into, from>>)], into, from)

\* Two constants: the engine is done, with an edge to explain it.
MergeConstants(g, cand) ==
    [AddGraphEdge(g, cand.a, cand.b, cand.why) EXCEPT
        !.merges = Append(@, <<Null, Null>>), !.done = TRUE]

\* A variant: the term stays in the queue.
EvaluateAgain(g) ==
    LET id == Head(g.evalQueue)
        t == g.nodes[id].term
        rep(child) == g.nodes[Find(g, NodeId(g, child))].term
        c == Value(Sig[t].op, [k \in DOMAIN Sig[t].args |-> rep(Sig[t].args[k])])
        q == AddTermInternal(g, c)
    IN  Enqueue(q, id, NodeId(q, c), "constants")

\* processEvaluationQueue, one term: the constant is added, and to be merged.
Evaluate(g) ==
    LET id == Head(g.evalQueue)
        t == g.nodes[id].term
        rep(child) == g.nodes[Find(g, NodeId(g, child))].term
        c == Value(Sig[t].op, [k \in DOMAIN Sig[t].args |-> rep(Sig[t].args[k])])
        q == AddTermInternal([g EXCEPT !.evalQueue = Tail(@)], c)
    IN  Enqueue(Check(q, "evaluates to constant", \A k \in DOMAIN Sig[t].args :
                            IsConstant(g, NodeId(g, Sig[t].args[k]))),
                id, NodeId(q, c), "constants")

PropagateMerge ==
    /\ ~e.done /\ e.evalQueue = <<>> /\ e.queue # <<>>
    /\ LET cand == Head(e.queue)
           g == [e EXCEPT !.queue = Tail(@)]
           c1 == Find(g, cand.a)
           c2 == Find(g, cand.b)
           m == MergeClasses(g, cand, c1, c2)
       IN  IF c1 = c2 THEN e' = g
           ELSE IF g.nodes[c1].const /\ g.nodes[c2].const THEN e' = MergeConstants(g, cand)
           ELSE \E bad \in {0} \union DOMAIN m.fired : e' = NotifyTriggers(m.g, m.fired, bad)
    /\ UNCHANGED <<saved, facts>>

PropagateEvaluation ==
    /\ ~e.done /\ e.evalQueue # <<>>
    /\ e' = Evaluate(e)
    /\ UNCHANGED <<saved, facts>>

PropagateDone ==
    /\ Busy /\ e.done
    /\ e' = [e EXCEPT !.queue = <<>>, !.evalQueue = <<>>]
    /\ UNCHANGED <<saved, facts>>

Propagate == PropagateMerge \/ PropagateEvaluation \/ PropagateDone

-----------------------------------------------------------------------------
(* The public methods. *)

FactCount == Cardinality(UNION {facts[l] : l \in DOMAIN facts})
Remember(pair) == facts' = [facts EXCEPT ![Len(facts)] = @ \union {pair}]
Has(t) == HasTerm(e, t)

AddTerm ==
    /\ ~Busy /\ ~e.done
    /\ \E k \in DOMAIN Later :
          /\ ~Has(Later[k])
          /\ \A i \in 1..k - 1 : Has(Later[i])
          /\ e' = AddTermInternal(e, Later[k])
    /\ UNCHANGED <<saved, facts>>

\* assertEqualityInternal, when the terms are there.
AssertEqualityInternal(t1, t2) ==
    /\ FactCount < MaxFacts
    /\ e' = Enqueue(e, NodeId(e, t1), NodeId(e, t2), "equality")
    /\ Remember(<<t1, t2>>)
    /\ UNCHANGED saved

AssertEquality(t) ==
    /\ ~Busy /\ ~e.done /\ Sig[t].kind = "eq"
    /\ LET l == Sig[t].args[1]
           r == Sig[t].args[2]
       IN  Has(l) /\ Has(r) /\ ~AreEqual(e, l, r) /\ AssertEqualityInternal(l, r)

AssertDisequality(t) ==
    /\ ~Busy /\ ~e.done /\ Sig[t].kind = "eq" /\ Has(t)
    /\ ~AreDisequal(e, NodeId(e, Sig[t].args[1]), NodeId(e, Sig[t].args[2]))
    /\ AssertEqualityInternal(t, False)

AssertPredicate(t, b) ==
    /\ ~Busy /\ ~e.done /\ Sig[t].bool /\ Has(t)
    /\ ~AreEqual(e, t, b)
    /\ AssertEqualityInternal(t, b)

\* A pair of triggers on the representatives of the two sides.
AddTriggerEqualityInternal(g, t1, t2, t, pol) ==
    LET c1 == Find(g, NodeId(g, t1))
        c2 == Find(g, NodeId(g, t2))
        k == Len(g.triggers) + 1
        new(c) == [cls |-> c, next |-> g.nodes[c].trig, term |-> t, pol |-> pol]
    IN  [g EXCEPT !.triggers = @ \o <<new(c1), new(c2)>>,
                  !.nodes[c1].trig = k, !.nodes[c2].trig = k + 1]

Tell(g, t, pol) == [g EXCEPT !.notified = @ \union {<<t, pol>>}]

HasTrigger(t) == \E k \in DOMAIN e.triggers : e.triggers[k].term = t

\* addTriggerEquality; a theory asks for a predicate once.
AddTriggerEquality(t) ==
    /\ ~Busy /\ ~e.done /\ Sig[t].kind = "eq" /\ t \in Watched /\ ~HasTrigger(t)
    /\ {<<t, TRUE>>, <<t, FALSE>>} \intersect e.notified = {}
    /\ LET l == Sig[t].args[1]
           r == Sig[t].args[2]
           i == NodeId(e, l)
           j == NodeId(e, r)
       IN  /\ Has(l) /\ Has(r)
           /\ \/ AreEqual(e, l, r) /\ e' = Tell(e, t, TRUE)
              \/ /\ ~AreEqual(e, l, r) /\ AreDisequal(e, i, j)
                 /\ e' = Tell(EnsureProof(e, i, j), t, FALSE)
              \/ /\ ~AreEqual(e, l, r) /\ ~AreDisequal(e, i, j) /\ Has(t)
                 /\ e' = AddTriggerEqualityInternal(
                            AddTriggerEqualityInternal(e, l, r, t, TRUE), t, False, t, FALSE)
    /\ UNCHANGED <<saved, facts>>

AddTriggerPredicate(t) ==
    /\ ~Busy /\ ~e.done /\ Sig[t].bool /\ t \in Watched /\ Has(t) /\ ~HasTrigger(t)
    /\ {<<t, TRUE>>, <<t, FALSE>>} \intersect e.notified = {}
    /\ e' = IF AreEqual(e, t, True) THEN Tell(e, t, TRUE)
            ELSE IF AreEqual(e, t, False) THEN Tell(e, t, FALSE)
            ELSE AddTriggerEqualityInternal(
                    AddTriggerEqualityInternal(e, t, True, t, TRUE), t, False, t, FALSE)
    /\ UNCHANGED <<saved, facts>>

Push ==
    /\ ~Busy /\ Len(saved) < MaxLevel
    /\ saved' = Append(saved, Saved(e))
    /\ facts' = Append(facts, {})
    /\ UNCHANGED e

\* The context restores what it keeps, then notifies the engine.
Pop ==
    /\ ~Busy /\ saved # <<>>
    /\ LET c == Last(saved) IN
       e' = Backtrack([e EXCEPT !.propagated = c.propagated, !.done = c.done,
                                !.notified = c.notified], c)
    /\ saved' = Front(saved)
    /\ facts' = Front(facts)

Next ==
    \/ Propagate \/ AddTerm \/ Push \/ Pop
    \/ \E t \in Term : \/ AssertEquality(t) \/ AssertDisequality(t)
                       \/ AssertPredicate(t, True) \/ AssertPredicate(t, False)
                       \/ AddTriggerEquality(t) \/ AddTriggerPredicate(t)

Spec == Init /\ [][Next]_vars

-----------------------------------------------------------------------------
(* Properties. *)

Quiet == ~Busy /\ ~e.done
InForce == UNION {facts[l] : l \in DOMAIN facts}

\* The type invariant: ids, lists and lengths stay within the vectors.
TypeOK ==
    /\ \A i \in Ids(e) :
          LET n == e.nodes[i] IN
          /\ n.term \in Term /\ {n.find, n.next} \subseteq Ids(e)
          /\ n.size \in 1..Len(e.nodes) /\ n.toEval \in 0..2
          /\ ToSet(n.use) \subseteq Ids(e)
          /\ n.trig \in 0..Len(e.triggers) /\ n.edge \in 0..Len(e.edges)
          /\ {n.const, n.internal, n.isEq} \subseteq BOOLEAN
    /\ Len(e.edges) = 2 * Len(e.merges) /\ Len(e.triggers) % 2 = 0
    /\ \A l \in DOMAIN saved : saved[l].nodes \in 2..Len(e.nodes)
    /\ Len(facts) = Len(saved) + 1

\* Whatever was merged and undone, each class is one ring of the size its
\* representative says, with a public representative if it has a public member
\* and a constant one if it has a constant.
ClassesIntact ==
    /\ TypeOK
    /\ \A i \in Ids(e) : Find(e, Find(e, i)) = Find(e, i)
    /\ \A c \in {Find(e, i) : i \in Ids(e)} :
          LET ring == Ring(e, c)
              class == Class(e, c)
          IN  /\ ToSet(ring) = class /\ Len(ring) = Cardinality(class)
              /\ e.nodes[c].size = Cardinality(class)
              /\ \A i \in class : /\ e.nodes[i].const => i = c
                                  /\ e.nodes[c].internal => e.nodes[i].internal

\* When propagate returns, the classes are closed: they hold what is asserted in
\* the open levels, congruent applications are together, an equality is true if
\* its sides are together and false if they are different constants, and what
\* can be evaluated is its value.
CongruenceComplete ==
    Quiet =>
        /\ \A p \in InForce : AreEqual(e, p[1], p[2])
        /\ \A i, j \in Ids(e) :
              LET a == e.nodes[i].app
                  b == e.nodes[j].app
              IN  (a # NoApp /\ a[1] = b[1] /\ Find(e, a[2]) = Find(e, b[2])
                             /\ Find(e, a[3]) = Find(e, b[3]))
                  => Find(e, i) = Find(e, j)
        /\ \A i \in Ids(e) :
              LET a == e.nodes[i].app IN
              (e.nodes[i].isEq =>
                  /\ Find(e, a[2]) = Find(e, a[3]) => Find(e, i) = NodeId(e, True)
                  /\ Find(e, a[2]) # Find(e, a[3]) /\ IsConstant(e, a[2]) /\ IsConstant(e, a[3])
                        => Find(e, i) = NodeId(e, False))
        /\ \A i \in Ids(e) :
              LET t == e.nodes[i].term
                  rep(child) == Find(e, NodeId(e, child))
                  args == Sig[t].args
              IN  (Sig[t].kind = "interp" /\ i = NodeId(e, t)
                   /\ \A k \in DOMAIN args : e.nodes[rep(args[k])].const)
                  => e.nodes[Find(e, i)].term =
                        Value(Sig[t].op, [k \in DOMAIN args |-> e.nodes[rep(args[k])].term])

Part(cls, i) == UNION {c \in cls : i \in c}

\* The classes before the first merge and after each merge, by the edges they left.
ClassesAt ==
    LET join(cls, i, j) == {c \in cls : i \notin c /\ j \notin c}
                           \union {Part(cls, i) \union Part(cls, j)}
        add(all, k) == Append(all, join(Last(all), e.edges[2 * k].node, e.edges[2 * k - 1].node))
    IN  FoldLeft(add, <<{{i} : i \in Ids(e)}>>, [k \in DOMAIN e.merges |-> k])

\* Why an edge between i and j may be there, given the classes before it.
Justified(cls, i, j, why) ==
    LET a == e.nodes[i].app
        b == e.nodes[j].app
        constants(id) == \E c \in Part(cls, id) : e.nodes[c].const
        args == Sig[e.nodes[i].term].args
    IN  CASE why = "equality" -> <<e.nodes[i].term, e.nodes[j].term>> \in InForce
          [] why = "congruence" -> a[1] = b[1] /\ b[2] \in Part(cls, a[2]) /\ b[3] \in Part(cls, a[3])
          [] why = "reflexivity" -> a[1] = "eq" /\ a[3] \in Part(cls, a[2]) /\ j = NodeId(e, True)
          [] why = "constants" -> \A k \in DOMAIN args : constants(NodeId(e, args[k]))

\* Nothing is together that should not be, and everything can be explained: two
\* terms are in a class just if the graph connects them, and each edge of it
\* stands for an assertion still in force or follows from the edges before it,
\* so that getExplanation finds a path and does not run in circles.
MergesJustified ==
    LET at == ClassesAt IN
    /\ \A k \in DOMAIN e.merges :
          Justified(at[k], e.edges[2 * k].node, e.edges[2 * k - 1].node, e.edges[2 * k].why)
    /\ LET classes == {Class(e, i) : i \in Ids(e)}
       IN  IF e.done THEN \A c \in classes : \E d \in Last(at) : c \subseteq d
           ELSE classes = Last(at)
    /\ \A i \in Ids(e) :
          ToSet(EdgesOf(e, i)) = {k \in DOMAIN e.edges : e.edges[Other(k)].node = i}

\* The two terms that a trigger waits for to be equal.
Sides(tr) ==
    IF Sig[tr.term].kind = "eq" /\ tr.pol THEN <<Sig[tr.term].args[1], Sig[tr.term].args[2]>>
    ELSE <<tr.term, IF tr.pol THEN True ELSE False>>

\* When propagate returns, the theory has been told of exactly the triggers that
\* hold at this level, and each trigger knows the class of its side.
TriggersTold ==
    /\ \A i \in Ids(e) : e.nodes[i].trig \in 0..Len(e.triggers)
    /\ Quiet => \A k \in DOMAIN e.triggers :
                    LET tr == e.triggers[k] IN
                    <<tr.term, tr.pol>> \in e.notified <=>
                        (AreEqual(e, Sides(tr)[1], Sides(tr)[2])
                         \/ (Sig[tr.term].kind = "eq" /\ ~tr.pol
                             /\ \E d \in {Sig[tr.term].args} :
                                   HasPropagatedDisequality(e, NodeId(e, d[1]), NodeId(e, d[2]))))
    /\ \A i \in Ids(e) : \A k \in ToSet(TriggersOf(e, i)) :
          e.triggers[k].cls = Find(e, i) \/ e.triggers[k].cls = e.triggers[Other(k)].cls

\* Every disequality that has been told is still explained by merges in force,
\* and areDisequal answers for every pair what the classes and the equalities
\* that are false say.  The Asserts of the engine hold: a disequality is stored
\* once and with reasons that hold, no key is stored twice, constants are never
\* merged and use lists are popped in the order they grew.
DisequalitiesExplained ==
    /\ e.failed = {} /\ e.propagated = Reasons(e)
    /\ \A d \in ToSet(e.deduced) : \A r \in d.why :
          {r[1], r[2]} \subseteq Ids(e) /\ Find(e, r[1]) = Find(e, r[2])
    /\ Quiet => \A i, j \in {k \in Ids(e) : ~e.nodes[k].internal /\ ~e.nodes[k].isEq} :
          AreDisequal(e, i, j) <=>
              \/ IsConstant(e, i) /\ IsConstant(e, j) /\ Find(e, i) # Find(e, j)
              \/ \E q \in Ids(e) :
                    /\ e.nodes[q].isEq /\ Find(e, q) = NodeId(e, False)
                    /\ {Find(e, e.nodes[q].app[2]), Find(e, e.nodes[q].app[3])}
                       = {Find(e, i), Find(e, j)}

\* An interpreted term counts the children that are not equal to a constant yet,
\* after any number of merges and undone merges.
EvaluationCounts ==
    Quiet => \A t \in {u \in Term : Sig[u].kind = "interp" /\ Has(u)} :
        e.nodes[NodeId(e, t)].toEval =
            Cardinality({k \in DOMAIN Sig[t].args : ~IsConstant(e, NodeId(e, Sig[t].args[k]))})

\* Terms still to be evaluated, classes, candidates: smaller in the first that differs.
Smaller(m, n) ==
    \E k \in DOMAIN m : m[k] < n[k] /\ \A i \in 1..k - 1 : m[i] = n[i]

Measure ==
    << Cardinality({i \in Ids(e) : e.nodes[i].toEval > 0}) + Len(e.evalQueue),
       Cardinality({Find(e, i) : i \in Ids(e)}),
       Len(e.queue) + Len(e.evalQueue) >>

\* propagate ends, whatever is in its queues: every turn of its loop evaluates a
\* term for the only time, or joins two classes, or leaves fewer candidates, so
\* congruences, evaluations and notifications do not keep one another going.
PropagateEnds == [][Busy => Smaller(Measure', Measure)]_vars
=============================================================================
