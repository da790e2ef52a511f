SPECIFICATION BatterySpec
CONSTANTS
    Flushers = {"timer", "exit", "hide"}
    MaxSaves = 2
    MaxVisits = 2
PROPERTIES
    DiskGrows
    FlushPersists
    ExitLeaves
