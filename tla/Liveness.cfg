SPECIFICATION FairSpec
CONSTANTS
    Holders = {h1}
    Spenders = {t1}
    Slots = {w1}
    NoChunk = NoChunk
    MaxNonce = 1
    Cap = 2
    ChunkUnits = 2
    SpendSizes = {1, 2}
    Ttl = 2
    Guard = 1
    Late = 1
    MaxPause = 1
    MaxAttempts = 2
    Skew = 0
    Gap = 1
    MaxTime = 3
    ClockFails = FALSE
    Paced = FALSE
    SpinOutlasts = FALSE
    LateReconcile = FALSE
    MaxCalls = 0
PROPERTIES
    RefillEnds
    ReturnCompletes
    RefillsAdvance
INVARIANTS
    LeaseAccounting
    CacheMatches
