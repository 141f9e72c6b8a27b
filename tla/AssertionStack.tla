--------------------------- MODULE AssertionStack ---------------------------
(***************************************************************************)
(* What the assertion-level commands of the solver promise: a stack of     *)
(* cumulative assertion lists in the sense of SMT-LIB, and a check that    *)
(* asks about exactly the formulas in force on the top of that stack, the  *)
(* assumptions given with the check, and every global definition.          *)
(***************************************************************************)
EXTENDS Sequences, SequencesExt

CONSTANTS Formula, Assumption, Definition

VARIABLES frames,   \* the assertions in force in each open scope, outermost first
          defs,     \* the global definitions
          asked     \* the formulas the last check that searched was about

vars == <<frames, defs, asked>>

Init ==
    /\ frames = << <<>> >>
    /\ defs = {}
    /\ asked = {}

InForce == Last(frames)

AddAssertion(f) ==
    /\ frames' = [frames EXCEPT ![Len(frames)] = Append(@, f)]
    /\ UNCHANGED <<defs, asked>>

Define(d) ==
    /\ defs' = defs \union {d}
    /\ UNCHANGED <<frames, asked>>

Push ==
    /\ frames' = Append(frames, InForce)
    /\ UNCHANGED <<defs, asked>>

Pop ==
    /\ Len(frames) > 1
    /\ frames' = Front(frames)
    /\ UNCHANGED <<defs, asked>>

\* Forget every assertion and scope, keep the global definitions.
Reset ==
    /\ frames' = << <<>> >>
    /\ UNCHANGED <<defs, asked>>

\* a: what is assumed for this check; without incremental solving the queries of
\* earlier quantifier eliminations as well, which nothing retracts.
Check(a) ==
    /\ asked' = ToSet(InForce) \union a \union defs
    /\ UNCHANGED <<frames, defs>>

\* A command that asserts nothing and asks nothing, or that is refused.
Other == UNCHANGED <<asked, defs, frames>>

Next ==
    \/ Other
    \/ \E a \in SUBSET Assumption : Check(a)
    \/ \E f \in Formula : AddAssertion(f)
    \/ \E d \in Definition : Define(d)
    \/ Push
    \/ Pop
    \/ Reset

Spec == Init /\ [][Next]_vars
=============================================================================
