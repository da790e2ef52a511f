\* The Windows file write against its comment.
CONSTANTS
    Paths = {srm}
    Threads = {t1}
    MaxPendingPaths = 1
    MaxAsyncCompletions = 1
    MaxWrites = 2
    MaxCrashes = 0
    Windows = TRUE
    NoJob = NoJob
SPECIFICATION Spec
INVARIANTS
    SnapshotPreserved
CHECK_DEADLOCK FALSE
