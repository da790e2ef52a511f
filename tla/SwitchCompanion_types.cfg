SPECIFICATION Spec
CONSTANTS
    MaxLaunches = 2
    MaxCalls = 2
    MaxCommands = 3
    Tasks = {t1, t2}
INVARIANTS
    TypeOK
CHECK_DEADLOCK FALSE
