SPECIFICATION Spec
CONSTANTS
    Setups <- MCGapSetups
    MaxOffered = 6
    MaxFlush = 1
CHECK_DEADLOCK FALSE
INVARIANT Lossless
