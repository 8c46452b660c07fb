CONSTANTS
    W = 8
    Capacities = {7}
    Payloads <- MCPayloads
    Room = 14
    MaxFrames = 3
    Shared = TRUE
SPECIFICATION Spec
INVARIANT Intact
