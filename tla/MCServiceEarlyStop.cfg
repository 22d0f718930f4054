\* A turn that stops before its first checkpoint.
SPECIFICATION OneSpec
CONSTANTS
    user = user
    other = w1
    Turns = {t1}
    Workers = {w1, w2}
    Runtimes = {r1}
    Messages <- MCMessages
    NoTurn = NoTurn
    NoWorker = NoWorker
    NoRuntime = NoRuntime
    UserMessage = user
    NoState = NoState
    LeaseSeconds = 2
    MaxNow = 3
    MaxHistory = 0
    RemoteTool = TRUE
    TimelyHeartbeats = TRUE
    Overlap = {}
    Modes = {"run"}
    Drifts = {"match"}
    MaxCalls = 2
    MaxFaults = 1
INVARIANTS
    RecoverableTurnsHaveCheckpoint
CHECK_DEADLOCK FALSE
