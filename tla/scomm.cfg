CONSTANTS
    Settle = 2
    Oversample = 2
    Preempts = 1
    MaxSwitch = 3
SPECIFICATION Spec
CHECK_DEADLOCK FALSE
INVARIANTS CtlTypeOK CountExact ResultsAreMeans ResistanceSound OwnSamples SettledSamples
PROPERTIES StepByStep Commissions
