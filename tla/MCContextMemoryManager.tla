----------------------- MODULE MCContextMemoryManager -----------------------
(* Instance of ContextMemoryManager for TLC. *)
EXTENDS ContextMemoryManager, TLC

\* malloc may return any free address.
Symmetry == Permutations(Chunk)
=============================================================================
