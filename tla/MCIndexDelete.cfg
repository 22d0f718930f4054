SPECIFICATION Spec
CONSTANTS
    Procs = {p1}
    Ops = {"insert", "delete", "rebuild", "save_summary"}
    MayFail = {"embed", "upsert", "delete"}
    LeasesOutlast = TRUE
    MaxCalls = 2
    MaxFaults = 1
INVARIANT DeletedHasNoVectors
