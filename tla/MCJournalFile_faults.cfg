SPECIFICATION Spec
CONSTANTS
    p1 = p1
    p2 = p2
    t1 = t1
    t2 = t2
    NoOne = NoOne
    Procs = {p1, p2}
    Threads = {t1, t2}
    Exclusive = TRUE
    NewlineTear = TRUE
    WriteErrors = TRUE
    RepairCrash = FALSE
    MaxAppends = 4
    MaxCrashes = 3
SYMMETRY Symmetry
INVARIANT TypeOK
INVARIANT AckedKept
