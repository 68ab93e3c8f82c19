SPECIFICATION Spec
CONSTANTS
    MaxLines = 3
    MaxMessages = 2
    MaxFinished = 1
    MaxSigints = 2
INVARIANT QueueSound
INVARIANT InputSound
PROPERTY Served
CHECK_DEADLOCK FALSE
