SPECIFICATION FairSpec
CONSTANTS
    MaxFrames = 4
CHECK_DEADLOCK FALSE
INVARIANTS
    TypeOK
    InOrder
    FinalMeansAll
    DoneMeansEnded
PROPERTIES
    IterationEnds
