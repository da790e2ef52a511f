SPECIFICATION Spec
CONSTANTS
    Savers = {"timer", "button", "exit"}
    MaxStates = 2
    Alike = {1, 2}
PROPERTIES
    SkipIsSafe
    CatchesUp
