SPECIFICATION Spec
CONSTANTS
    N = 2
    Workers = 2
    Kinds = {"shell", "tool", "search"}
    None = None
    MaxBatches = 2
INVARIANT ResultsSound
INVARIANT ContextsSound
PROPERTY CancelSound
PROPERTY BatchEnds
