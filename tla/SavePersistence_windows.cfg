\* Two paths compete for a backlog of one, with the Windows file write, whose
\* fallback may remove the destination before it retries; no crash.
CONSTANTS
    Paths = {srm, auto}
    Threads = {t1, t2}
    MaxPendingPaths = 1
    MaxAsyncCompletions = 1
    MaxWrites = 2
    MaxCrashes = 0
    Windows = TRUE
    NoJob = NoJob
SPECIFICATION Spec
SYMMETRY Symmetry
INVARIANTS
    NewestKept
    WindowsLossIsReported
CHECK_DEADLOCK FALSE
