----------------------------- MODULE ContextObj -----------------------------
(***************************************************************************)
(* One ContextObj as its subclass sees it.  Module Context shows how the   *)
(* chain of saved copies is kept; here it is the sequence "saved", oldest  *)
(* first.  An object is a record with at least the fields                  *)
(*   scope   level of the scope in which it was last modified              *)
(*   saved   its saved copies, each a record with a field scope            *)
(***************************************************************************)
EXTENDS Naturals, Sequences

\* ContextObj::makeCurrent: the top scope is level top, and copy is what the
\* copy constructor of the subclass makes of x.
MakeCurrent(x, top, copy) ==
  IF x.scope = top THEN x
  ELSE [x EXCEPT !.scope = top, !.saved = Append(@, copy)]

\* ~Scope() visits an object exactly if its current version is in that scope.
InScope(x, top) == top > 0 /\ x.scope = top

\* The copy that restore() is given.
LastCopy(x) == x.saved[Len(x.saved)]

\* The base class part of ContextObj::restoreAndContinue.
Continue(x) ==
  [x EXCEPT !.scope = LastCopy(x).scope,
            !.saved = SubSeq(@, 1, Len(@) - 1)]

\* The version of x in force at level l: the object itself, or the newest copy
\* that was current at l or below.
VersionAt(x, l) ==
  IF x.scope <= l THEN x
  ELSE LET older == {i \in DOMAIN x.saved : x.saved[i].scope <= l}
       IN  x.saved[CHOOSE i \in older : \A j \in older : j <= i]
=============================================================================
