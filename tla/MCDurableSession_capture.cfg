SPECIFICATION Spec
CONSTANTS
    Structured = TRUE
    Capture = TRUE
    FlattenResume = FALSE
    ReuseIds = TRUE
    TearSnapshot = FALSE
    Keep = 2
    MaxBatch = 1
    MaxCalls = 2
    MaxTurns = 2
    MaxCompactions = 1
    MaxStops = 1
INVARIANT JournalIsHistory
INVARIANT RequestPaired
VIEW Observed
