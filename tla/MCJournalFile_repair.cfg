SPECIFICATION Spec
CONSTANTS
    p1 = p1
    p2 = p2
    t1 = t1
    t2 = t2
    NoOne = NoOne
    Procs = {p1, p2}
    Threads = {t1, t2}
    Exclusive = TRUE
    NewlineTear = FALSE
    WriteErrors = FALSE
    RepairCrash = TRUE
    MaxAppends = 3
    MaxCrashes = 2
INVARIANT AckedKept
