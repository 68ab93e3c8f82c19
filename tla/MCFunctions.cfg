SPECIFICATION FunctionSpec
CONSTANTS
    MaxLen = 5
    KeepLast = 2
    MaxHandlers = 2
    Rewritings = {"new", "newer"}
    Outcomes <- SomeOutcomes
    Entries <- SomeEntries
    MaxText = 4
    Catalog = {1, 2}
    Finds = {{1}, {1, 2}, {2, 3}}
    MaxKept = 2
    MaxEvents = 4
INVARIANT RepairSound
INVARIANT ResumeSafe
INVARIANT SummaryClean
INVARIANT RevealedKept
INVARIANT GateSound
INVARIANT HooksIndependent
INVARIANT ClientExact
INVARIANT FilesExact
CHECK_DEADLOCK FALSE
