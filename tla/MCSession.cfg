\* Three turns, so that a lineage of length two and a cycle are possible; two
\* workers, runtimes and messages: handover, lease columns, lineage and transcripts.
SPECIFICATION MCSpec
CONSTANTS
    Turns = {t1, t2, t3}
    Workers = {w1, w2}
    Runtimes = {r1, r2}
    Messages = {m1, m2}
    NoTurn = NoTurn
    NoWorker = NoWorker
    NoRuntime = NoRuntime
    LeaseSeconds = 1
    MaxNow = 2
    MaxHistory = 2
    Tools <- MCTools
    Uses <- MCUses
    Contexts <- MCCallers
INVARIANTS
    StoreTypeOK
    LeaseAndTranscriptOK
    LineageOK
    LineageAcyclic
    OutcomesHonest
    HistoryKept
    PermissionsSound
PROPERTIES
    TerminalIsFinal
    ImplementsLifecycle
CHECK_DEADLOCK FALSE
SYMMETRY MCSymmetry
