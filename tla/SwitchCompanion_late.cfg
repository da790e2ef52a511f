SPECIFICATION Spec
CONSTANTS
    MaxLaunches = 1
    MaxCalls = 2
    MaxCommands = 4
    Tasks = {t1, t2}
PROPERTIES
    EveryReplyAligned
CHECK_DEADLOCK FALSE
