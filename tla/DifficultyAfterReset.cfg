\* Reset-assertions and a list of the old length.
SPECIFICATION Spec
CONSTANTS
    F1 = F1
    F2 = F2
    A1 = A1
    D1 = D1
    Formula = {F1, F2}
    Assumption = {A1}
    Definition = {D1}
    MaxList = 2
    MaxScopes = 1
    MaxDecisions = 1
    Queries = {"ABDUCT", "SYNTH", "FIND_SYNTH"}
INVARIANT CheckedListUnchanged
CHECK_DEADLOCK FALSE
