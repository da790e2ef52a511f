SPECIFICATION FairSpec
CONSTANTS
    Callers = {ui1, ui2}
    Controller = ui1
    Slots = {slot}
    Ram = ram
    Controls = {"Pause", "Resume", "Fast", "Normal"}
    MaxPendingCommands = 2
    FrameLimit = 2
    MaxFrames = 3
    MaxCalls = 3
INVARIANTS
    PausedAsAsked
    FinalRam
PROPERTIES
    SaveIsCurrent
    CallersReturn
