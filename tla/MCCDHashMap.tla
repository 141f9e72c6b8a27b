---------------------------- MODULE MCCDHashMap ----------------------------
(* Instance of ContextHashMap for TLC. *)
EXTENDS ContextHashMap, TLC

\* Neither keys nor addresses are compared but for equality, and every
\* property is about single states or single steps.
Symmetry == Permutations(Key) \cup Permutations(Addr)
=============================================================================
