SPECIFICATION Spec
CONSTANTS
    Structured = FALSE
    Capture = TRUE
    FlattenResume = FALSE
    ReuseIds = FALSE
    TearSnapshot = FALSE
    Keep = 2
    MaxBatch = 1
    MaxCalls = 1
    MaxTurns = 2
    MaxCompactions = 1
    MaxStops = 2
INVARIANT EffectsJournalled
INVARIANT ClearedStaysCleared
