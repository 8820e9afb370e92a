SPECIFICATION Spec
CONSTANTS
    Holders = {h1}
    Spenders = {t1}
    Slots = {w1}
    NoChunk = NoChunk
    MaxNonce = 1
    Cap = 2
    ChunkUnits = 2
    SpendSizes = {1}
    Ttl = 2
    Guard = 1
    Late = 1
    MaxPause = 2
    MaxAttempts = 2
    Skew = 0
    Gap = 2
    MaxTime = 5
    ClockFails = FALSE
    Paced = FALSE
    SpinOutlasts = TRUE
    LateReconcile = FALSE
    MaxCalls = 1
INVARIANTS
    NoOverspend
