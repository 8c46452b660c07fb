SPECIFICATION Spec
CONSTANTS
    Setups <- MCSetups
    MaxOffered = 6
    MaxFlush = 1
CHECK_DEADLOCK FALSE
INVARIANTS CodecTypeOK Room InBounds
PROPERTIES ImplementsChannel BackpressureClears AllHandedOut
