\* A stream whose last checkpoint could not be written.
SPECIFICATION OneSpec
CONSTANTS
    user = user
    other = w1
    Turns = {t1}
    Workers = {w1, w2}
    Runtimes = {r1}
    Messages <- MCMessages
    NoTurn = NoTurn
    NoWorker = NoWorker
    NoRuntime = NoRuntime
    UserMessage = user
    NoState = NoState
    LeaseSeconds = 2
    MaxNow = 3
    MaxHistory = 0
    RemoteTool = TRUE
    TimelyHeartbeats = TRUE
    Overlap = {}
    Modes = {"stream"}
    Drifts = {"match"}
    MaxCalls = 1
    MaxFaults = 1
INVARIANTS
    DurableCompletion
CHECK_DEADLOCK FALSE
