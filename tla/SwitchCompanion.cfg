SPECIFICATION FairSpec
CONSTANTS
    MaxLaunches = 2
    MaxCalls = 2
    MaxCommands = 3
    Tasks = {t1, t2}
INVARIANTS
    NoStray
    OffStops
PROPERTIES
    AlignedReplies
    HostReturns
CHECK_DEADLOCK FALSE
