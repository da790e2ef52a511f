SPECIFICATION Spec
CONSTANTS
    MaxLaunches = 1
    MaxCalls = 0
    MaxCommands = 3
    Tasks = {t1, t2}
INVARIANTS
    OffMeansNone
CHECK_DEADLOCK FALSE
