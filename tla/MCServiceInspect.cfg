\* A running turn is inspected after its tools have changed.
SPECIFICATION OneSpec
CONSTANTS
    user = user
    other = w1
    Turns = {t1}
    Workers = {w1, w2}
    Runtimes = {r1}
    Messages <- MCMessages
    NoTurn = NoTurn
    NoWorker = NoWorker
    NoRuntime = NoRuntime
    UserMessage = user
    NoState = NoState
    LeaseSeconds = 2
    MaxNow = 3
    MaxHistory = 0
    RemoteTool = TRUE
    TimelyHeartbeats = TRUE
    Overlap = {"inspect"}
    Modes = {"run"}
    Drifts = {"match", "revision"}
    MaxCalls = 3
    MaxFaults = 1
INVARIANTS
    NeverReplayed
CHECK_DEADLOCK FALSE
