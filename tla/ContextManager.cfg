\* With and without incremental solving: two nested user scopes, a list of two
\* formulas.
SPECIFICATION Spec
CONSTANTS
    F1 = F1
    F2 = F2
    A1 = A1
    D1 = D1
    Formula = {F1}
    Assumption = {A1}
    Definition = {D1}
    MaxList = 2
    MaxScopes = 2
    MaxDecisions = 1
    Queries = {"ABDUCT", "SYNTH", "FIND_SYNTH"}
INVARIANTS AssertsHold ScopesAccounted UnsatInForceUntilReset
PROPERTY ImplementsStack
CHECK_DEADLOCK FALSE
