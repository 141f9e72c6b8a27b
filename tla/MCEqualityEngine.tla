-------------------------- MODULE MCEqualityEngine --------------------------
EXTENDS EqualityEngine

Plain(kind) == [kind |-> kind, op |-> "f", args |-> <<>>, bool |-> FALSE]
Applied(kind, op, args) ==
    [kind |-> kind, op |-> op, args |-> args, bool |-> op = "f" /\ kind = "app"]

\* f is an uninterpreted predicate, g evaluates and g(0, 0) is 1; the equalities are
\* a = b, b = 0 and g(a, b) = b.  Its children become constants in one merge or two.
MCSig ==
    [ true |-> Plain("const"), false |-> Plain("const"),
      zero |-> Plain("const"), one |-> Plain("const"),
      a |-> Plain("var"), b |-> Plain("var"), f |-> Plain("op"), g |-> Plain("op"),
      fa |-> Applied("app", "f", <<"a">>),
      fb |-> Applied("app", "f", <<"b">>),
      gab |-> Applied("interp", "g", <<"a", "b">>),
      a_b |-> Applied("eq", "f", <<"a", "b">>),
      b_0 |-> Applied("eq", "f", <<"b", "zero">>),
      gab_b |-> Applied("eq", "f", <<"gab", "b">>) ]

MCTerm == DOMAIN MCSig
MCFirst == <<"a", "b", "zero", "fa", "gab">>
MCLater == <<"fb", "gab_b">>
MCValue(op, args) == "one"
=============================================================================
