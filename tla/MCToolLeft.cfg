SPECIFICATION Spec
CONSTANTS
    N = 3
    Idempotent = {1, 2}
    Remote = {2}
    FinishCurrent = {1}
    Safe = {1, 2}
    Conflicting = {{1, 3}}
    Asks = {3}
    Networked = {}
    MaxParallel = 2
    LeftCallsEnd = FALSE
    WritesMayFail = TRUE
    MaxStops = 1
CHECK_DEADLOCK FALSE
INVARIANTS ToolTypeOK CallsAnswered
