SPECIFICATION Spec
CONSTANTS
    Callers = {c1, c2}
    Streaming = {c1}
    None = None
    MaxRpm = 2
    Window = 2
    MaxRead = 1
    MaxServer = 1
    MaxQuota = 1
    MaxLimited = 1
INVARIANT RateBounded
INVARIANT AttemptsSound
PROPERTY CallsEnd
CHECK_DEADLOCK FALSE
