SPECIFICATION Spec
CONSTANTS
    Holders = {h1}
    Spenders = {t1}
    Slots = {w1, w2}
    NoChunk = NoChunk
    MaxNonce = 1
    Cap = 3
    ChunkUnits = 2
    SpendSizes = {1, 2}
    Ttl = 2
    Guard = 1
    Late = 1
    MaxPause = 1
    MaxAttempts = 2
    Skew = 0
    Gap = 1
    MaxTime = 4
    ClockFails = FALSE
    Paced = TRUE
    SpinOutlasts = TRUE
    LateReconcile = FALSE
    MaxCalls = 0
SYMMETRY Symmetric
INVARIANTS
    TypeOK
    SpendableIsLive
    LeaseAccounting
    CacheMatches
    RefillOwnsBuffer
    Conservation
PROPERTY
    SettlesEach
