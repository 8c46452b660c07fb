CONSTANTS
    N = 2
    W = 4
    Delays <- MCDelays
    Bits = {b}
    Ports = {"MCU", "HOST"}
SPECIFICATION Spec
INVARIANTS CortosTypeOK FindsNotification OneOvertake
PROPERTIES ExactTimeouts TopRuns TimeoutsEnd
