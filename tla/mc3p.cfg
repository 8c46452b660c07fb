SPECIFICATION Spec
CONSTANTS
    Samples = 2
    SumModulus = 1024
    Scans <- MCScans
    Components <- MCComponents
INVARIANTS
    McTypeOK
    OffsetsOwn
    OffsetIsMean
    TrapMeasures
    BridgeMatchesSector
PROPERTY CalibrationEnds
