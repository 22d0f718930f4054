\* One reading call, one plan and one edit that asks, fails and can stay in doubt; a background
\* process that is replaced, a second cancellation, more events than there is room for.
SPECIFICATION MCSpec
CONSTANTS
    Looks = {read}
    Plans = {plan}
    Acts = {patch}
    Asking = {patch}
    Failing = {read, patch}
    Flaky = {patch}
    Doubtful = {patch}
    Limit = 1
    Extension = 1
    MaxTurns = 4
    MaxRetries = 1
    MaxBlocks = 2
    Batches <- MCBatches
    MaxBatch = 2
    MaxCrashes = 1
    read = read
    plan = plan
    patch = patch
    c1 = c1
    c2 = c2
    know = know
    ma = ma
    mb = mb
    mc = mc
    find = find
    Absent = Absent
    MaxForks = 2
    MaxCancels = 2
    Calls = {c1, c2}
    TotalTokens = 11
    ContextTokens = 9
    StageBudget <- MCStageBudget
    Prompts = {4, 6}
    AnswerTokens = {4}
    Requested = {0}
    Scripts <- MCScripts
    MaxAttempts = 2
    GatewayTools = {ma, mb}
    Capacity = 2
    MaxEvents = 3
CHECK_DEADLOCK FALSE
INVARIANTS LoopTypeOK ModelCallsBounded InspectionsBounded NoBlindRepeat
INVARIANTS GatewaySound ShownSound StoredSound GroupReaped StreamComplete
PROPERTIES LoopEnds CallsSettle StreamsSettle ShownGrows
