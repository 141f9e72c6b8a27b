# A TLA+ model of cvc5's backtracking core

cvc5 is an SMT solver.  This directory models the part of it on which everything
else stands: the machinery that saves and restores state as the SAT search, the
theories and the user push and pop; the session that drives it; the SAT solver's
callbacks and limits; congruence closure, which undoes itself by hand; and the
reference counts of terms.  Line numbers are those of the repository at
the commit this project was written against; paths are relative to the
repository (`src/src/...` in `PROJECT.json` is `src/...` in the repository).

## 1. Inventory

| Component | State | Operations | Interacts with | What makes it correct |
|---|---|---|---|---|
| `context/context.*` (`Context`, `Scope`, `ContextObj`, `ContextNotifyObj`) | stack of scopes; per scope a doubly-linked list of the objects last modified in it and a garbage list; per object a chain of saved copies | `push`, `pop`, `popto`, `makeCurrent`/`update`, `restoreAndContinue`, `destroy`, `enqueueToGarbageCollect` | every CD data structure calls `makeCurrent` before it changes; `~Scope` calls back `restore()`; notify objects call back before and after a pop | a pop restores exactly the state of the matching push; the lists stay well linked; nothing points into a released region |
| `context/context_mm.*` (`ContextMemoryManager`) | chunks in use, free chunks, saved bump pointers | `newData`, `push`, `pop` | `Context::push/pop`; `ContextObj::save` allocates here | live allocations never overlap, a chunk is never both in use and free, at most `maxFreeChunks` are kept |
| `context/cdo.h`, `cdlist.h`, `cdqueue.h`, `cdtrail_queue.h`, `cdmaybe.h` | a value, a vector and its size, a vector with a head index | `set`, `push_back`, `push`, `pop`/`dequeue`, `restore` | built on `ContextObj` | contents after a pop are those at the push, although the elements themselves are never saved |
| `context/cdhashmap.h`, `cdinsert_hashmap.h`, `cdhashset.h` | a hash table, and a ring of its elements in insertion order (or a vector of keys and a size) | `insert`, `operator[]`, `clear`, `restore` | each element is a `ContextObj` | table and ring hold the same elements after every pop; insertion order survives |
| `smt/context_manager.*`, `smt/solver_engine_state.*` | number of pending pops, user levels, postsolve flag; `SmtMode` | `userPush`, `userPop`, `notifyCheckSat(Result)`, `notifyResetAssertions`, `doPendingPops`, `setup`, `shutdown`, `cleanup` | `UserContext`, `Context`, `SmtDriver`, the SAT solver | pops are lazy, yet no command sees a scope that should be gone, and an answer is never offered for a scope that has been popped |
| `prop/cadical/cdclt_propagator.*` | assigned literals with decision levels, theory queue, activation literals per user level, fixed literals | IPASIR-UP callbacks, `user_push`, `user_pop`, `add_clause` | CaDiCaL calls back; `TheoryProxy`; `Context` is pushed and popped from the callbacks | the `Context` level equals the SAT decision level at every theory call |
| `prop/minisat/*`, `prop/sat_proof_manager.*` | trail, watches, reason clauses, assertion levels | CDCL(T) loop, `push`, `pop`, lemma addition | `TheoryProxy`, `CnfStream` | clauses of popped levels are removed; lemmas added during search are levelled correctly |
| `prop/prop_engine.*`, `cnf_stream.*`, `theory_proxy.*`, `skolem_def_manager.*` | literal/node maps, queue of lemmas, decision engine | `assertFormula`, `checkSat`, `propagate`, `theoryCheck` | SAT solver, `TheoryEngine` | literal maps stay consistent across backtracking |
| `theory/theory_engine.*`, `shared_solver.*`, `combination_engine.*` | fact queues, propagation map, in-conflict flag | `check`, `assertFact`, `propagate`, `lemma`, `conflict` | all theories, `TheoryProxy` | facts are dispatched to every interested theory once per context |
| `theory/uf/equality_engine.*` | union-find, use lists, trigger lists, proof graph, all undone by hand | `assertEquality`, `propagate`, `backtrack`, `getExplanation` | theories through notify callbacks; `ContextNotifyObj` | undo is the exact inverse of merge; explanations are acyclic |
| `expr/node_manager.*`, `node_value.*` | pool, reference counts (saturating 20 bits), zombies | `inc`, `dec`, `markForDeletion`, `reclaimZombies` | every `Node` | no node is freed while referenced; saturated counts never drop |
| `util/resource_manager.*` | resource and time budgets | `spendResource`, `beginCall`, `endCall`, listeners | everything that can run long | a limit is noticed, cumulative counters never go backwards |
| `theory/<theory>/*` (arith, arrays, bags, bv, datatypes, ff, fp, quantifiers, sep, sets, strings, uf) | per-theory solver state | per-theory procedures | `TheoryEngine` | soundness of each decision procedure |
| `preprocessing/*`, `rewriter/*`, `expr/*` (terms, skolems), `proof/*` | term transformations, proof DAGs | passes, rewrites, proof checks | assertions pipeline | equisatisfiability of each pass, correctness of each proof rule |
| `decision/*` | justification stack, assertion lists | `getNext`, `notifyAsserted` | `TheoryProxy`, contexts | decides only relevant literals |
| `parser/*`, `printer/*`, `api/*`, `main/*`, `options/*`, `base/*` | input, output, command line | parsing, printing, dispatch | user | I/O and glue |

The behaviours that are hard to test here:

* *Laziness across levels.*  An object is saved only when it changes, so a copy
  may stand for many levels, and the copies of different objects are interleaved
  in the lists of scopes below the one being popped.
* *Destruction out of order.*  An object may be destroyed while copies of it sit
  in the middle of the lists of several scopes, or from within `~Scope`, when the
  list it is in has been half consumed.
* *Bulk release.*  Memory of a popped level is released without running
  destructors, so every reference into it must have been removed before.
* *Structures that save an index only.*  `CDList`, `CDQueue`, `CDTrailQueue` and
  `CDInsertHashMap` keep their elements outside the context and save sizes;
  an element may be overwritten while a saved index still counts it.
* *Lazy pops.*  The `ContextManager` counts pops and performs them at the next
  command that needs a current context.

* *Callbacks from a foreign search.*  CaDiCaL decides, backtracks, fixes literals
  and asks for clauses at moments of its own choosing; what cvc5 tells the theories
  must follow, although fixed literals are reported once and the context forgets.
* *Undo by hand.*  The equality engine reverses merges, edges, triggers, counts and
  nodes itself, from a notification that comes after its lengths were restored.
* *Counts that saturate, and collections inside decrements.*
* *Limits noticed anywhere.*  A limit raises flags that several places of a check look
  at, each at its own moment, some after a result has been found.

No two threads run in this part of cvc5 (a time limit is polled, `WallClockTimer`)
and nothing is persisted: there is no crash recovery and no message passing.

## 2. Plan

| Step | Modules | State |
|---|---|---|
| 1 | `BacktrackStore` (abstract), `Context`, `ContextProofs` | modelled, checked, invariants proved |
| 2 | `BacktrackQueue`, `BacktrackMap` (abstract), `ContextObj`, `CDQueue`, `CDTrailQueue`, `CDHashMap`, `CDInsertHashMap` | modelled, checked, proved |
| 3 | `ContextMemoryManager`, `ContextNotify` | modelled, checked |
| 4 | `AssertionStack` (abstract), `ContextManager` with engine state, driver and assertions | modelled, checked |
| 5 | `CadicalPropagator`: the IPASIR-UP callbacks, `user_push`/`user_pop`, activation literals, with the levels of the SAT context | modelled, checked |
| 6 | `EqualityEngine`: merge, propagation and undo against what is asserted at the open levels | modelled, checked |
| 7 | `NodeManager`: reference counts, pool, zombies, destructor | modelled, checked |
| 8 | `ResourceLimits`: `ResourceManager` and what the driver, `PropEngine`, MiniSat, CaDiCaL's terminator and `TheoryEngine::check` make of a limit | modelled, checked |
| 9 | Proofs of `ResourceLimits`, `ContextMemoryManager`, `ContextNotify`, `ContextContainers` with its refinement, `CadicalPropagator`, `ContextManager` and `NodeManager` | proved |
| 10 | The refinements of `BacktrackStore` and `AssertionStack`, `ClausesInForce` of the propagator, the ring and the refinement of `CDHashMap` | proved |
| 11 | Proofs about `EqualityEngine`; assertion levels of MiniSat's clauses; the propagation map and explanations of `TheoryEngine`; trigger terms of the equality engine | candidates |

Steps 5 and 8 refine the arbitrary search of `ContextManager` from two sides: what
the search does to the levels, and how it ends.  The modules to be proved about
contain no recursive operators; loops are folds or recursive functions.

## 3. Modules and code

**`Context`** (`context/context.{h,cpp}`, `cdo.h`).  The memory is a record of
functions, one per pointer field of `ContextObj` (`next`, `prev`, `scope`,
`restore`) and the value of a `CDO`; `prev` points to a cell, the head of a scope
or the next field of a node, as `d_ppContextObjPrev` does.  Nodes are objects and
saved copies; a copy is allocated in the region of the scope that was current.
`SaveInPlace`, `Update`, `RestoreAndContinue`, `Unlink` and `Release` are the
pointer operations; `Set`, `Push`, `Popto`, `PopScope`, `RestoreStep`,
`RestoreDone`, `Collect`, `PopRegion`, `StartDestroy` and `DestroyStep` are the
steps.  A pop and a destroy are several steps, because `restore()` runs code of
the object in between.  `cmm` is the number of memory regions, which differs from
the level in the middle of a pop.

**`BacktrackStore`** is what `Context` promises: a stack of snapshots of all values.
`ImplementsStore` maps the value of an object at each level to what its chain of
copies says.

**`ContextObj`** has the one-object view of the same protocol (`MakeCurrent`,
`Continue`, `VersionAt`) for the data structures below; which pointers lead where
is the business of `Context`, that copies come back at the right level is what the
structures use.

**`CDQueue`** (with `CDList`), **`CDTrailQueue`**, **`CDHashMap`**,
**`CDInsertHashMap`**: each keeps its elements outside the context and saves
indices, or one object per element.  `BacktrackQueue` and `BacktrackMap` are the
contracts: contents (and, for maps, the order of insertion) per level.
In `CDHashMap` a pop restores element by element in any order, since the order of
`~Scope` depends on every other object of the context, and the garbage list is
emptied at the end.

**`ContextMemoryManager`** (`context_mm.{h,cpp}`): chunks, free chunks, the bump
pointer, the saved frames, and a ghost set of live allocations.

**`ContextNotify`** (`context.cpp` 23-56, 76-138, 272-294): the two intrusive lists
with pointers to pointers, the loops of `Context::pop` with their pre-stored
successor, callbacks that register objects or destroy their own, reuse of
addresses, and `~Context`.

**`ContextManager`** (`smt/context_manager.cpp`, `solver_engine_state.cpp`,
`smt_driver.cpp`, `assertions.cpp`, `quant_elim_solver.cpp`, and the commands of
`solver_engine.cpp`).  The calls of one command run one after the other in one thread, so each is an operator
on the record `eng`, and an action composes the calls of its command.  `saved` and
`cur` are the user context and what depends on it (assertion list, index of what
the SAT solver has, index of global definitions); `level`, `assertionLevel`,
`decisions` and `clauses` are the SAT side; the rest are the fields of the classes.
An `Assert` that fails is noted in `failed` and ends the run.  What reads the
assertions also appends the definitions of functions that are not in the list yet, some
before any pop that is due (`CollectAssertions`: `getAssertions`, the blocking of a
model), so that such a definition sits in the scope of assumptions and is appended
again when that is gone.  Quantifier elimination has a driver of its own
(`SmtDriverSingleCall`), which sends the whole list to the SAT solver again
(`AssertAll`) and has its query as an assumption, but records no answer: the mode and the
last recorded list stay, and `asked` is what the last search was about, also that of an
elimination.  Exceptions are
outcomes: a logic or type exception in a check, a second query without incremental
solving, a pop too many, an answer other than the announced status.  They are not
recoverable (`include/cvc5/cvc5.h`: only `CVC5ApiRecoverableException` leaves the
objects usable), so only the destructor follows.  `AssertionStack` is the contract: a
stack of frames, of which `Frames` reads off the engine the user's assertions in each
open scope, and which a destroyed engine has lost (`Shown`).  A name stands for a formula
in one role (`NamesAssumption`): asserted, assumed in a check, or the definition of a
function.

**`ContextContainers`** composes `CDQueue`, `CDTrailQueue` and `CDInsertHashMap` in one
context: one push and one pop for all three.  **`ContextHashMap`** puts a `CDHashMap`
alone in a context, because its pop takes many steps, and gives its properties names;
`ContextLevel` declares what both modules share.

**`CadicalPropagator`** (`prop/cadical/cdclt_propagator.{h,cpp}`, `cadical.cpp`).  A
callback runs to its end, so each is an operator on the record `s` and an action is
what CaDiCaL or cvc5 does with the callbacks that follow from it.  `info` is
`d_var_info`, `told` the literals the theory proxy has been given per level of the
SAT context, `db` CaDiCaL's clauses.  `NotifyAssignment`, `NotifyFixedAssignment`,
`NotifyNewDecisionLevel`, `NotifyBacktrack`, `CheckFoundModel`, `Decide`,
`CbPropagateCheck`/`CbPropagateNext`, `CbAddExternalClause`, `UserPush`, `UserPop`,
`AddClause` and `RenotifyFixed` carry the names of the code.  The environment is
assumed to behave as CaDiCaL's interface says, and no better: it notifies an
assignment at once; it makes the assumptions its first decisions; it fixes a literal
only if its clauses entail it, and not while it completes a partial model; it does
not store tautologies; it may drop clauses satisfied for good when a level is popped;
after a search it undoes its own trail only when it is used again
(`LateBacktrack`).  Theories may propagate, create variables, send
clauses or accept a partial model at every check.  Simplified are: the reason of a
propagation is asked for only when it is handed out (the code lets CaDiCaL ask later
as well, `cdclt_propagator.cpp` 387-426); what `getNextDecisionRequest` creates is created
by a theory check just before; the loop of `cb_check_found_model` is one turn, whose
outputs are those of any number of turns.

**`EqualityEngine`** (`theory/uf/equality_engine.{h,cpp}`, `equality_engine_types.h`).
`e` is the record of the engine's vectors, a node being one entry of all the vectors
indexed by `EqualityNodeId`.  `Saved` is what the context restores on a pop, and
`Backtrack` what the engine then does with it, in the order of the code: merges,
edges, triggers, evaluations, lookups, nodes.  Public methods are the actions
`AddTerm`, `AssertEquality`, `AssertDisequality`, `AssertPredicate`,
`AddTriggerEquality`, `AddTriggerPredicate`; each turn of the loop in `propagate` is
an action (`PropagateMerge`, `PropagateEvaluation`, `PropagateDone`).  A term is added
when its children are there; the code propagates between the steps of the currying
too, the model after the last.

**`NodeManager`** (`expr/node_manager_template.{h,cpp}`, `node_value.h`,
`node_builder.cpp`).  A decrement may call `markForDeletion`, that `reclaimZombies`,
and that decrements children: the stack `work` is the call stack.  The program holds
Nodes, values of attributes and a builder.  `MaxRC` and `Threshold` are constants of
the code made small.  The destructor is a sequence of phases: attributes and tables, the
sort of the nodes whose count got stuck (`SortRoot`, `SortVisit`, `EndSort`, phase
"sorting", with the stack and the visited set of `TopologicalSort`), their deletion in
that order.  A term is larger than the terms it is made of, which `NodeAssumption` says by
a size function.

**`ResourceLimits`** (`util/resource_manager.cpp`, `prop_engine.cpp`,
`minisat/core/Solver.cc`, `theory_engine.cpp`, `smt_driver.cpp`, `cadical.cpp`).  `pc` is
where a check is; a unit may be spent wherever the code spends one, the timer may
expire at any moment, and every place that looks at a flag or a counter is a step.
The search is reduced to its control: conflicts, lemmas and answers of the theories are
choices.  Lemmas reach the clauses where the theories send them: what adding them
spends (`Solver.cc:1994`) is part of what the theories spend, and a conflict they are in
comes after the check of the theories, while the code also meets one before a full check
with lemmas left by `pickBranchLit`.  CaDiCaL's terminator is asked before each
`cb_propagate`; when CaDiCaL asks is its own choice, and `LimitEnds` depends on it.

## 4. Runs

| Run | Bounds | What it shows |
|---|---|---|
| `context` | 2 objects, 3 levels, 2 values | lists doubly linked (`WellLinked`), no pointer to freed memory (`NoDangling`), refinement of `BacktrackStore`, every pop and destroy terminates |
| `containers` | 5 elements, 3 levels above the first, 2 keys, 2 values | no saved size or index leads beyond what is there (`SavedSizesFit`), an element is cleaned up once and after its last use (`CleanedOnceAndLast`), refinement of the snapshots (`ImplementsSnapshots`) |
| `cdhashmap` | 3 keys, 2 values, 2 levels | ring, table and allocated elements agree in the middle of a pop, and what a lower level saw is a beginning of the ring (`RingMatchesTable`); refinement with changing values and insertion order (`ImplementsMap`) |
| `context_memory` | 5 chunks of 3 bytes, 2 kept free, 3 regions, 5 allocations | live allocations disjoint, a chunk in one place only |
| `context_notify` | 3 addresses, 2 levels | each pop notifies what it found, once, latest first; lists intact and no write to freed memory; pops and the destructor end |
| `contexts` | 1 formula, 1 assumption, 1 definition, list of 2, 2 user scopes, 1 decision, abduction and both synthesis queries; with and without incremental solving | the code's asserts on levels hold on every path, scopes are accounted for and no assumption outlives its check, unsat answers are in force, refinement of `AssertionStack` |
| `cadical_propagator` | 2 atoms and 2 activation literals, 2 user levels, 3 decisions, 1 clause, 1 buffered | the theories know what is recorded (`TheoryInSync`), no propagation loses its reason (`PropagationsJustified`), a partial model in use still stands (`PartialModelStands`), the guarded clauses are what is in force (`ClausesInForce`), the asserts hold |
| `equality_engine` | 14 terms, 2 levels, 2 facts, 2 terms with triggers | classes and rings intact after undo, closure complete, every merge and disequality explained by what is in force, triggers told exactly, evaluation counts right, propagation ends |
| `node_manager` | 3 terms in a chain, counts stick at 3, collection at more than 1 zombie, 3 Nodes per term | counts exact or stuck, nothing freed is used, nothing is lost, calls return, the destructor ends with nothing left |
| `resource_limits` | 2 theories, limits up to 3, 2 decision levels, 1 user level, 2 outputs; both SAT solvers, every setting of limits | sat only after a full check, the reason of unknown is the limit reached, unsatisfiability is forgotten with its level, a limit ends the check |
| `difficulty_after_reset` | 2 formulas, 1 scope | violation, section 7 |
| `refutation_lost_to_limit` | 1 theory, limits up to 3 | violation, section 7 |

Type invariants are conjuncts of the first structural invariant of each module
(`SavedSizesFit`, `RingMatchesTable`, `ChunksInOnePlace`, `ListsIntact`,
`ScopesAccounted`, `AssertsHold` of the propagator, `ClassesIntact`, `CountsExact`,
`ReasonFits`); `Context`, about which we prove, keeps its own.

*Why the bounds are enough.*  The list code treats the first, a middle and the last
node of a list differently; two objects with several copies each give all three,
and `ContextProofs` covers every number.  Three levels give a
level above, at and below the one an object was saved in.  The queues need to run
empty, be refilled and run empty again above levels that still count elements: five
elements and four levels.  Rings need two elements for the general case of removal
and one for the last.  The engine needs a formula below and one inside a scope, and
an assumption above a formula: a list of two; two scopes give a pop that is not the
last.  One decision tells decision level 0 from the others.  An interpolation query
walks the code of an abduction query with a mode of its own, so the run makes the
latter; the theorems allow both.
The propagator needs a variable that survives a pop and one that does not, a literal
fixed at the upper level and kept, and a decision above the assumptions of both
levels.  A clause over variables of two levels shows whether its guard is that of the
right one.  The equality engine's terms include an application congruent to another, an
equality that becomes true by congruence or false by constants, and a term that is
evaluated, whose value then merges with a watched one; its two children may be equal
before they are constant, or not, so that a count per class would differ from the
count per child; two levels undo part of it.
In `NodeManager` three Nodes, a parent and an attribute exceed the maximal count, and
a chain of three makes a collection find new zombies twice.  In `ResourceLimits` two
theories allow a limit to strike between them; a limit of 3 is reached in the first
or in a later check.

*Symmetry* is used where objects, keys or chunks are interchangeable model values
and only invariants and safety refinements are checked.

*Deadlock* is not checked where the system may stop: a destroyed engine, context or
node manager, or a named bound that has been used up.

*Mutants.*  Each module has, next to the definitions, variants of them that a
plausible mistake would give ("A variant ..."); `PROJECT.json` pairs each property
with one that violates it.

## 5. Fairness

`UnwindTerminates` (`context`) and `PopEnds` (`context_notify`) assume weak fairness
of the steps inside a pop or a destroy only, and `PopEnds` of the pops that `~Context`
makes: they run in a loop in one thread, and callbacks return.  `CallsReturn` and `DestructorEnds` (`node_manager`) assume it of the
steps inside a call and of the destructor once begun, `LimitEnds` (`resource_limits`)
of the steps of a check under way: the calling thread runs.  Nothing is assumed of
the user, who need never give a command, of the timer, which need not expire, or of
theories, which may spend nothing.  That the theories do not send new
lemmas for ever at one assignment is a bound, `MaxOutputs`; under it `LimitEnds` says
that a limit stops the search although nobody is forced to look at once.

`PropagateEnds` (`equality_engine`) needs no fairness: it is an action property, a
measure that every turn of the loop makes smaller.

## 6. Proofs

Eight modules hold theorems.  Each proves an inductive invariant of its specification
and derives the properties of the runs from it, for every value of the constants;
the named assumptions on these say no more than that bounds are natural numbers and
that special values are none of the ordinary ones, and where they say more
(`NamesAssumption`, `NodeAssumption`) the paragraph below does too.

| Module | Theorems | Properties of |
|---|---|---|
| `ContextProofs` | `TypeCorrect`, `ListsWellLinked`, `NothingDangles`, `Refinement` | `Context` |
| `ContextMemoryManagerProofs` | `Disjointness`, `OnePlace` | `ContextMemoryManager` |
| `ContextNotifyProofs` | `ListsStayIntact`, `NotificationInOrder` | `ContextNotify` |
| `ContextContainersProofs` | `SizesFit`, `CleanedOnce`, `Refinement` | `CDQueue`, `CDTrailQueue`, `CDInsertHashMap` in one context |
| | `RingHolds`, `MapRefinement` | `CDHashMap` in a context |
| `ContextManagerProofs` | `LevelAssertsHold`, `EveryScopeAccounted`, `UnsatStaysInForce`, `Refinement` | `ContextManager` |
| `CadicalPropagatorProofs` | `NoAssertFails`, `TheoryToldTrail`, `ExplanationsKnown`, `ModelOutlivesNothing`, `ClausesSayWhatStands` | `CadicalPropagator` |
| `NodeManagerProofs` | `CountsExactHolds`, `NoUseAfterFreeHolds`, `NothingLostHolds` | `NodeManager` |
| `ResourceLimitsProofs` | `SatChecked`, `ReasonsFit`, `UnsatStands` | `ResourceLimits` |

**`ContextProofs`.**  The assumption is `ContextAssumption`: the null pointer, the list
heads and the absent value are none of the objects and values, the bound on levels is a
natural number.  The parts of `IInv` are

* `TypeOK`;
* `Linked`: the lists by their links alone.  Following a next field and then the
  previous field leads back (`Forward`), and the other way round (`Backward`); the
  head of a list points at a node of that list, and back, except in the list of a
  scope being deleted, where the previous field of the first node is stale
  (`Headed`);
* `Chained`: the copies of an object form a chain down to the bottom scope, one per
  scope it was modified in, each in the region of that scope and linked into the
  list of the scope before;
* `Valued`: only the oldest version of a map element has a null map;
* `Sorted`: no list is cyclic, since some numbering of the nodes decreases along it;
* `Control`: what `pc`, `level`, `target` and the garbage list say of each other.

`WellLinked` alone is not inductive: a restore step puts a copy's node in the place
where its object was, and keeps the lists only because the copy is the one node of
its object in that scope and region, which is `Chained`; in the middle of a pop the
list that is consumed breaks the back link that `WellLinked` asks for, which is the
exception in `Headed`.  There is one
lemma for each pointer operation, stating what it does to each field pointwise, one
for each part of the invariant under each operation, and one step per action on top.

`Refinement` proves that `Context` implements `BacktrackStore`.  The value in force at a
level is the value in the oldest copy made above it, or the object's own if there is
none.  A pop or a destroy is seen by the store when it begins; all further turns
of the loops stutter.  For a turn of `RestoreStep` this means that the copy it consumes is
the oldest above the level, or is hidden by an older one that comes later; an
object restored to a null map becomes garbage in the same moment, and garbage has
no value in the store.

**`ContextMemoryManagerProofs`.**  Assumed: chunks have a size, the other bounds are
natural numbers.  That live allocations do not overlap is not inductive, since a pop
moves the bump pointer back.  `Covered` says what a pop needs: whatever was handed
out before a push lies below every bump pointer saved since.  `Frames` says that a
saved frame still names the chunk it was saved in, and that frames do not cross;
`Current` that the bump pointer is in the last chunk; `Lists` that the two lists share
no chunk and hold none twice.

**`ContextNotifyProofs`.**  Assumed (`NotifyAssumption`): there are finitely many
addresses, the null pointer is none of them, the bound on levels is a natural number.
`IInv` says that there is an order of the two lists (`Lay`) such that

* head, next and previous fields are the ones of that order (`Chain`), no object is in
  it twice (`Apart`), and every object that exists is in it;
* in a loop of `Context::pop` what is left to call back is the end of the list, and the
  pointer followed next (`cur`, or the stored `next` during a callback) is its first
  object (`Loop`).

The second part needs the stored pointer to stay good while the callback changes
the list: a registration is in front of everything (`LoopCons`), and an object that
destroys itself is before what is left, because the list at the beginning of the
loop held no object twice (`LoopWithout`).  `WalkIs` shows that following the next fields
gives the order, so that the properties, which are about the walk, follow from it.

**`ContextContainersProofs`.**  Assumed: the bounds are natural numbers and
`CallCleanup` is a Boolean; `Key` and `Data` are any sets.  The three
structures save copies of a few fields only, so the invariant is about the chain of
copies (`Chain`: the scopes strictly increase from level 0) and what each copy promises
of the array it does not own.  `QInv`: the sizes and the iterators saved by the
`CDQueue` are at most `d_lastsave`, below which the list is not truncated
(`Protected`), and a fact is in the list once or has been cleaned up once
(`Accounted`).  `TInv`: the sizes of the `CDTrailQueue`'s list grow with the level
(`Grows`), and at each level the iterator, which is saved on its own, is within the
list of that level.  `MInv`: the keys on the `CDInsertHashMap`'s stack are distinct and
are the keys of the hash map, and the saved sizes grow with the level.
`Refinement` proves that the snapshots these copies stand for are the states
of `BacktrackQueue` and `BacktrackMap`: the initial states correspond, and an enqueue, a
dequeue, a push or a pop is that step of the specification or leaves it alone.

`CDHashMap` is in the same module.  Assumed there (`HashMapAssumption`): `Default` is a
value, the null pointer no address, the bound on levels a natural number.  The
invariant `HInv` says that there are a sequence `r` and a number `c[l]` per level with
these parts:

* `Ring`: `r` has the elements of the ring from `d_first` on, each once, and next and
  previous fields lead around it;
* `OfTable`: the table leads to the elements of `r` by their keys, and to no others;
* `OfHeap`: what is allocated is in `r` or waits to be deleted, the latter without a
  version left to restore; an element of `r` has its chain of versions, of which only
  the oldest may have a null `d_map` (`Alive`);
* `HSeen`: the first `c[l]` elements of `r` were in the map at level `l` and the others
  were not.

`Ring`, `OfTable` and `OfHeap` are kept by every operation, but they do not give the
insertion order of the lower levels, which `HSeen` does: an element is put at the end,
in the map at the current level only, so that a pop takes elements of the tail out, one
by one and in any order, and `r` without them still begins as each lower level
saw it (`GoneSeen`; `ElementGone` is about the pointers).  `SnapOfIs` shows
that the snapshots of the refinement are the beginnings of `r`, with the values of the
versions; an insertion or assignment changes the last of them (`AssignedSeen`,
`AddedSeen`) and a step inside a pop changes none.

**`ContextManagerProofs`.**  Assumed (`BoundsAssumption`): the bounds are natural
numbers; formulas, assumptions and definitions are any sets.  A command is a
composition of calls, so most of the proof is one lemma per call that says what it
keeps and what it changes of the engine; a command then is a few citations.  `IInv` has
the parts

* `Good`, which also holds after an exception: each field has its type; the SAT
  solver's assertion level and the SAT context follow the user context, with the
  decisions a search left on top, which are then due to be reset (`InStep`); at most one
  pop is due; the lists saved at the user levels grow with the level and their indices
  fit (`Versions`); a clause at an assertion level is in the list of that level
  (`InForce`);
* `Exact`, given up by an exception: every scope is the global one, a user's or
  due to be popped, and the level recorded by the i-th push is i;
* `Unsat`: the formulas of a refutation that still counts are in the list;
* `Done`, once the engine is destroyed.

`ScopesAccounted` alone is not inductive.  That a pop finds the SAT solver at decision
level 0 needs the flag of the pending reset to be set whenever decisions are
left; that the destructor pops no context below 0 after a check that threw needs the
part of `InStep` that does not count the user's scopes; and that a refutation is about
asserted formulas needs `InForce`, since the SAT solver drops clauses by its own
levels and the list is restored by the user context.  An index saved with a list stays
within the bound because every definition counted by it is in the list (`Fits`).  The
loops of `pop`, `resetAssertions` and the destructor are recursive functions over a
finite range: `PopsExist` and `UserPopsExist` show that such a function exists,
by an induction (`Counting`) over the natural numbers.

`Refinement` proves that the engine implements `AssertionStack`, with `NamesAssumption`
on top.  It needs more than `IInv`: `Abstracted` says between commands that the SAT
solver has been told, at each user level, the clauses of the list saved there up to its
index and the definitions up to theirs (`Loaded`), that the recorded levels are the
first ones and scopes above them show nothing of the user's (`Standing`), and that no
assumption is left in a list as long as another check may follow (`Plain`).
A check is followed call by call to the query, where the assumptions in
the list are those of this check (`Posed`), and so is a quantifier elimination, which
sends the list from its head; a deferred pop is a stutter.  The last part of
`ScopesAccounted`, that what was assumed is in no list that outlives the next command,
follows from `Plain`, which is why `EveryScopeAccounted` rests on `Abstracted` as well.

**`CadicalPropagatorProofs`.**  Assumed (`BoundsAssumption`): the bounds are natural
numbers, literals are integers.  The parts of the invariant are defined in
`CadicalPropagatorInvariant`.  `IInv` is `Good(s)`, about the
propagator's record alone, and `Searching`, about its relation to CaDiCaL's trail.
`Good` is preserved by each handler, whoever calls it, and has the parts

* `Bounded`, `Listed`, `Ordered`: `d_active_vars` has the active variables in the order
  of their user levels, and `d_active_vars_control` cuts it there;
* `Activations`: the active variables that are no atoms are the activation literals,
  one per user level;
* `Trail`, `Marked`: `d_assignments` has the values of the active variables, each once;
  below the first decision everything is fixed; a fixed atom is of user level 0;
* `InStep`: what the theories were told at each level of the SAT context is the atoms
  of the trail up to the mark in `d_assignment_control`, plus at the top what waits in
  `d_renotify_fixed`; an atom fixed below a user level was told below it;
* `ClausesGuarded`: a clause over a variable of an open user level has a positive
  activation literal;
* `Pending`: a waiting propagation rests on something known, and at decision level 0
  on something known at user level 0.

`AssertsHold` needs them all.  That `user_pop` finds only fixed literals and never
deactivates a variable it must keep rests on fixed atoms being of user level 0.  This is
so because CaDiCaL cannot fix an atom of a higher level: from a model of the
clauses another one is made by setting the activation literals to true and turning
that atom around, which `ClausesGuarded` allows (lemma `EntailedLow`).
`Searching` adds that decisions exist only in a search, that nothing is left to be
renotified then, and that each literal passed over for a partial model
has on the levels below it what that model rested on.

`ClausesSayWhatStands` proves `ClausesInForce`.  Equality of models before and after a
step is not inductive; the invariant `Meaning` says instead where clauses come
from and what they entail:

* `Sourced`: each clause is over a popped variable that was made true, is a tautology, or
  is a clause that was stated (asserted at an open level or a lemma) with the guard
  of a level in front at which it may stand: nothing outlives its level;
* `AssertedFollow`, `LemmasFollow`: what is asserted at level i, and a lemma whose
  variables reach exactly level i, is entailed by the clauses as soon as the activation
  literals up to i are false: nothing is lost;
* `FixedHold`: the value of a fixed variable is entailed whatever the activation literals
  are.  It is why a clause satisfied by a fixed literal need not be added.

Each handler keeps it (`Sound`).  For a pop, `user_pop` adds the literals that make
the popped variables true, so every model of what is left satisfies the clauses
CaDiCaL drops (`ShrunkStronger`), and what followed still follows.  For a lemma, its level is
that of its variables and not of the solver, so the lemma survives exactly the
pops that leave its variables.

**`NodeManagerProofs`.**  Assumed (`NodeAssumption`): terms are finitely many and well
founded (a size decreases towards children), variables have no children, the maximal
count is at least 2.  `CountsExact` is not inductive, since a decrement calls a
collection that calls decrements, and at each of them nodes are half gone.  The
parts of `IInv` are

* `Exact`, `NoneLeft`: counts are the number of references or stuck at the maximum;
  nothing refers to a node that is being freed;
* `Placed`: a live node with count zero is a zombie or in the collection's copy; the
  pool is the live shared terms;
* `CallStack`: a node is freed on top of the collection, decrements are on top of that,
  and a node that the pool returned holds its children, which are about to be given
  back by the builder;
* `Phased`, `Sorting`, `Ordered`: what each phase of the destructor has left; the sort,
  whose stack holds ever smaller terms, finishes a node after the nodes below it, so that
  below each node of the order is a downward closed set without it.

References are counted by cardinalities of sets of positions, and one reference more or
less is a bijection with a set that has one element more or less (`CountConcat`,
`CountTail` and their like), so no induction over a sum is needed.  That the destructor
leaves nothing (`NothingLost`) is the step `Topmost`: among the live nodes that are not
pinned a largest would have no parent, so its count would be zero and it would have
been collected.

**`ResourceLimitsProofs`.**  Assumed (`LimitsAssumption`): there is a theory, limits
and levels are natural numbers.  The invariant follows a check from the place where
a limit is noticed to the answer: `FlagsMean` (a raised flag stands for a limit that is
still reached, since nothing spent is given back, unless an exception left it up for the next
search), `ModelsMean` (a full check that
wants nothing more was complete or ended by a limit), `ReasonsMean` (a search without
a result was stopped by a limit), `RefutationsMean` (an `ok` saved as false by a push
was refuted at a level below), with `Recorded` and `Placed` for the types and what is
true at each `pc`.

Only model-checked:

* liveness (`UnwindTerminates`, `PopEnds`, `CallsReturn`, `DestructorEnds`, `LimitEnds`),
  which is out of this prover's reach;
* `EqualityEngine` (`ClassesIntact`, `CongruenceComplete`, `MergesJustified`, `TriggersTold`,
  `DisequalitiesExplained`, `EvaluationCounts`, `PropagateEnds`): an operation is a fold
  over the members of a class or over what a pop undoes, and each turn of it changes the
  whole graph; congruence and explanations are closures over paths, counts are sums over
  classes.  What such a fold computes is an induction over data, which is out of reach.

## 7. Findings

1. *Stale difficulty reply* (`solver_engine.cpp:3320-3325`, run
   `difficulty_after_reset`).  The test that the
   assertion list is unchanged compares its length and the user level.  With no
   scope open, `resetAssertions` (`solver_engine.cpp:3460`) leaves the mode as it is,
   so after a check, a reset and as many new assertions another list of the same
   length passes the test.
2. *A refutation lost to a limit* (`prop/minisat/core/Solver.cc:1762`, run
   `refutation_lost_to_limit`; MiniSat is not the default SAT solver).  `search()`
   returns `l_False` on a conflict at level 0 without clearing `ok`; a limit noticed
   before the end of `solve_()` replaces the status by `l_Undef`, so `ok` stays true.
   The literals of the conflict are propagated already, so the next check under the
   same assertions does not look at the falsified clause and may answer sat.  In the
   code `addClause_` propagates units at once, so a conflict at level 0 takes a unit
   learned in the search or a lemma of a theory; the model leaves open where it comes from.

Observed while modelling, without a run of their own:

* The mode that survives a reset: after unsat and reset-assertions, `get-unsat-core`
  and `get-proof` are admitted although nothing is asserted.
  `UnsatInForceUntilReset` shows that reset-assertions is the only way there.
* After `get-timeout-core` the status solver is set until the next check, and
  `getAbduct`, `getInterpolant` and their next forms (`solver_engine.cpp:2921, 2939,
  2959, 2977`) assert that it is not.  `AssertsHold` of `ContextManager` excepts this
  one Assert.
* `cb_check_found_model` returns false without a clause if a theory decision created
  variables (`cdclt_propagator.cpp:251-260`), which the comment at 227-234 says CaDiCaL
  does not expect.
* `user_pop` leaves `d_new_clauses`, so that a clause buffered in the last search may
  be over variables no longer observed; `AssertsHold` of `CadicalPropagator` excepts
  this (`"unobserved"`), and `ClausesInForce` shows that no meaning is changed.
* Literals passed over while a partial model is completed are not notified again if
  a backjump ends the model without undoing them; `PartialModelStands` says that
  this does not let a full model be accepted without the theories.
* In `user_pop` the branch that adds fixed literals again is never taken;
  `d_renotify_fixed` may hold a literal twice; `d_propagations` is kept by
  the early return of `notify_backtrack`, with the context unchanged.
* In `reclaimZombies` the second test for a zero count is redundant as long as
  nothing is given out between the two loops.
* An interrupt raised in a check that ends in a `LogicException` is not cleared and
  makes the next check that searches answer unknown.  `ReasonFits` shows that there is no
  other way to leave one, and that it is gone after that search.
* `getQuantifierElimination` does not count as a query.  Without incremental solving its
  negated query stays in the assertion list, and since `d_queryMade` is not set
  (`solver_engine_state.h:188-192`) a later check is allowed, and asks about it as well.
  `ScopesAccounted` says only of incremental solving that nothing assumed is left.
* After a quantifier elimination the mode is that of the check before, so that a model
  or an unsat core then asked for is read off the search of the elimination.
* `checkSynth` without incremental solving searches with the main solver through a
  driver that has no `ContextManager` (`sygus_solver.cpp:360`): the conjecture stays in
  the list and nothing resets the trail, so that an assertion added after it would
  meet the `Assert` on decision level 0 at `Solver.cc:466`.
* `d_thisCallResourceBudget` is computed and never read.

## 8. Not modelled

* The decision procedures of the theories, rewriting, preprocessing, proofs, and the
  terms they work on: most of the 560,000 lines of the repository (with the
  generated and public headers, the parser, the printer and the API).  They are
  sequential computations on unbounded terms whose correctness is semantic; a model
  checker says nothing about them that a model would not have to assume.  What the
  modules cover is where state outlives a call and is taken back.
* MiniSat's clauses, watches and conflict analysis, and the assertion levels of its
  clauses; the choice of what to decide (`decision/`); CaDiCaL itself.
* `TheoryEngine` beyond the control of `check`: dispatch of facts, shared terms,
  the propagation map.
* In `CadicalPropagator` phases and proof logging.  In `EqualityEngine` trigger terms
  and their shared disequalities, the master engine, proofs.  In `NodeManager`
  the construction of constants, types and skolems, which use the same counts
  and pool.  In `ResourceLimits` incomplete theories, the scope of assumptions
  (`ContextManager` has it), deep restarts, models, which are built with the limits
  off, and weights, which only scale a unit.
* `ContextObj` on which a level-0 pop would act, `makeSaveRestorePoint` (no caller),
  the debugging memory manager, iterators (they only read), `CDMaybe` and `CDRaised`
  (a `CDO` each).
* `SmtDriverDeepRestarts`, `--preprocess-only`, getters, printing; the search of
  `checkSynth` with the main solver (section 7).
* An attribute that is overwritten, and more than one attribute of a node
  (`NodeManager`); `ok` cleared by `addClause_` (`ResourceLimits`, where only searches
  refute).
* A notification callback that destroys another registered object: the code
  prepares for self-destruction only.
