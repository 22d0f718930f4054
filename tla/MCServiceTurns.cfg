\* Three calls: of one worker, that runs and streams while tools change, with two faults; of two
\* workers, with one fault and inspections at any time.
SPECIFICATION MCSpec
CONSTANTS
    user = user
    other = w2
    Turns = {t1}
    Workers = {w1, w2}
    Runtimes = {r1}
    Messages <- MCMessages
    NoTurn = NoTurn
    NoWorker = NoWorker
    NoRuntime = NoRuntime
    UserMessage = user
    NoState = NoState
    LeaseSeconds = 2
    MaxNow = 3
    MaxHistory = 0
    RemoteTool = TRUE
    TimelyHeartbeats = TRUE
    Overlap = {"inspect"}
    Modes = {"run"}
    Drifts = {"match"}
    MaxCalls = 3
    MaxFaults = 2
INVARIANTS ExclusiveExecution NeverReplayed RunsOnlyIfGranted DatabasesAgree
CHECK_DEADLOCK FALSE
