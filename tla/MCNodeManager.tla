--------------------------- MODULE MCNodeManager ---------------------------
EXTENDS NodeManager

\* A variable, a term over it, and a term over that.
MCChildren == [x |-> <<>>, fx |-> <<"x">>, gfx |-> <<"fx">>]
MCKey == DOMAIN MCChildren
=============================================================================
