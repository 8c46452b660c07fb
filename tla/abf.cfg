CONSTANTS
    W = 3
    Capacities = {1, 2}
    Payloads <- MCPayloads
    Room = 6
    MaxFrames = 3
    Shared = FALSE
SPECIFICATION Spec
INVARIANTS AbfTypeOK Intact LossBounded
