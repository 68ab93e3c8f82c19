SPECIFICATION Spec
CONSTANTS
    Structured = TRUE
    Capture = FALSE
    FlattenResume = FALSE
    ReuseIds = FALSE
    TearSnapshot = FALSE
    Keep = 2
    MaxBatch = 2
    MaxCalls = 2
    MaxTurns = 2
    MaxCompactions = 0
    MaxStops = 1
INVARIANT TypeOK
INVARIANT EffectsJournalled
INVARIANT RequestPaired
INVARIANT EffectsRecovered
INVARIANT InFlightUnended
INVARIANT NotesTruthful
INVARIANT MidTurnSeen
