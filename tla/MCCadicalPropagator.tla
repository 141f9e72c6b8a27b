------------------------ MODULE MCCadicalPropagator ------------------------
EXTENDS CadicalPropagator

\* One variable of both polarities.  The others occur negated: a popped variable
\* is made true, which is what a clause that outlived its level would notice.
MCLiteral == {1, -1, -2, -3}
=============================================================================
