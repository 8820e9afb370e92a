SPECIFICATION Spec
CONSTANTS
    Rate = 1
    Burst = 2
    Second = 4
    Width = 7
    Callers = {c1}
    Sizes = {1}
    Patience = 1
    MaxGap = 14
PROPERTIES
    GateOpens
