SPECIFICATION Spec
CONSTANTS
    Structured = TRUE
    Capture = FALSE
    FlattenResume = FALSE
    ReuseIds = FALSE
    TearSnapshot = FALSE
    Keep = 2
    MaxBatch = 1
    MaxCalls = 1
    MaxTurns = 2
    MaxCompactions = 0
    MaxStops = 1
INVARIANT ClearedStaysCleared
