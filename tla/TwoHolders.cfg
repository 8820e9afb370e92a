SPECIFICATION Spec
CONSTANTS
    Holders = {h1, h2}
    Spenders = {t1}
    Slots = {w1}
    NoChunk = NoChunk
    MaxNonce = 0
    Cap = 1
    ChunkUnits = 1
    SpendSizes = {1}
    Ttl = 1
    Guard = 0
    Late = 0
    MaxPause = 0
    MaxAttempts = 1
    Skew = 0
    Gap = 0
    MaxTime = 2
    ClockFails = FALSE
    Paced = FALSE
    SpinOutlasts = TRUE
    LateReconcile = FALSE
    MaxCalls = 1
SYMMETRY SymmetricHolders
CONSTRAINT NoDeadCalls
INVARIANT
    NoOverspend
PROPERTIES
    ImplementsEscrow
    ServesOnlyLive
