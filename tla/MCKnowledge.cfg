\* Two threads and two users before one breaker; one question on its way; one process that keeps the
\* index, and one that keeps vectors.
SPECIFICATION MCSpec
CONSTANTS
    Threads = {t1, t2}
    Users = {u1, u2}
    Window = 2
    MaxWait = 1
    Span = 1
    MaxUser = 1
    MaxGlobal = 2
    Threshold = 2
    Cooldown = 2
    MaxProbes = 1
    SuccessThreshold = 2
    MaxFailures = 0
    p1 = p1
    Procs = {p1}
    Ops = {"insert", "delete", "rebuild", "save_summary"}
    MayFail = {"embed", "upsert", "delete"}
    LeasesOutlast = TRUE
    MaxCalls = 4
    MaxFaults = 3
    Formulae <- MCFormulae
    Nesting = 5
INVARIANTS GuardsHold KnowledgeSound IndexSound
PROPERTIES BreakerRecovers QueuesDrain
