SPECIFICATION Spec
CONSTANTS
    MaxAttempts = 4
    Guard = 1
    ReclaimAge = 2
INVARIANT TypeOK
PROPERTIES
    RefillsWhileSpare
    GatePassesLive
