SPECIFICATION FairSpec
CONSTANTS
    N = 3
    Idempotent = {1, 2}
    Remote = {2, 3}
    FinishCurrent = {1}
    Safe = {1, 2}
    Conflicting = {}
    Asks = {3}
    Networked = {3}
    MaxParallel = 2
    LeftCallsEnd = TRUE
    WritesMayFail = TRUE
    MaxStops = 2
CHECK_DEADLOCK FALSE
INVARIANTS ActsOnce RunsOnlyIfAllowed RefusedNeverRuns ReconciledBeforeEnd
PROPERTIES KeepsLedger SettledNeverRerun BatchEnds
