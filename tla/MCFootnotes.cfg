\* One question, one provider, one answer with a section for each item.
SPECIFICATION GroundedSpec
CONSTANTS
    Packs <- MCPacks
    Payloads <- MCPayloads
    Outputs = {}
    Providers = 1
    HasExecutor = FALSE
    MaxQuestions = 1
CHECK_DEADLOCK FALSE
INVARIANT FootnotesTrue
