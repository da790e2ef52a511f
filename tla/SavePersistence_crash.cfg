\* One path written three times, two callers, one crash at any point (POSIX).
SPECIFICATION FairSpec
CONSTANTS
    Paths = {srm}
    Threads = {t1, t2}
    MaxPendingPaths = 1
    MaxAsyncCompletions = 1
    MaxWrites = 3
    MaxCrashes = 1
    Windows = FALSE
    NoJob = NoJob
INVARIANTS
    AckedIsDurable
    FlushCovers
PROPERTIES
    DiskNeverOlder
    ImplementsStore
    CallersReturn
CHECK_DEADLOCK FALSE
