----------------------------- MODULE MCContext -----------------------------
(* Instances of Context for TLC. *)
EXTENDS Context, TLC

\* Objects are interchangeable: no operation depends on an address.
Symmetry == Permutations(Obj)
=============================================================================
