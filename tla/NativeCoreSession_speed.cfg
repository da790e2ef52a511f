SPECIFICATION Spec
CONSTANTS
    Callers = {ui1}
    Controller = ui1
    Slots = {slot}
    Ram = ram
    Controls = {"Pause", "Resume", "Fast"}
    MaxPendingCommands = 2
    FrameLimit = 9
    MaxFrames = 2
    MaxCalls = 4
INVARIANTS
    PausedThroughSpeed
