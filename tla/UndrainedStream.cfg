SPECIFICATION Spec
CONSTANTS
    MaxFrames = 4
CHECK_DEADLOCK FALSE
INVARIANT
    DrainReleases
