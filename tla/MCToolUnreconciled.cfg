SPECIFICATION Spec
CONSTANTS
    N = 2
    Idempotent = {}
    Remote = {1, 2}
    FinishCurrent = {}
    Safe = {}
    Conflicting = {}
    Asks = {}
    Networked = {}
    MaxParallel = 2
    LeftCallsEnd = TRUE
    WritesMayFail = FALSE
    MaxStops = 1
CHECK_DEADLOCK FALSE
INVARIANT ReconciledBeforeEnd
