SPECIFICATION Spec
CONSTANTS
    Rate = 3
    Burst = 6
    Second = 4
    Width = 7
    Callers = {c1, c2}
    Sizes = {1, 2, 5}
    Patience = 2
    MaxGap = 14
INVARIANTS
    TypeOK
    NeverTooFast
PROPERTIES
    GateOpens
