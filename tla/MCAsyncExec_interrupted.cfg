SPECIFICATION Spec
CONSTANTS
    MaxTime = 2
    Tools = {t1, t2}
    Patient = {t1}
    None = None
    Retain = 1
    Delay = 3
INVARIANT DrainedIsReported
