-------------------------- MODULE MCContextManager --------------------------
EXTENDS ContextManager, TLC

\* The formulas, assumptions and definitions of the small instances.
CONSTANTS F1, F2, A1, D1
=============================================================================
