CONSTANTS
    Settle = 2
    Oversample = 2
    Preempts = 1
    MaxSwitch = 1
SPECIFICATION Spec
CHECK_DEADLOCK FALSE
PROPERTY SamplingEnds
