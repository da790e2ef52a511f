SPECIFICATION Spec
CONSTANTS
    Slots = {1, 2}
    MaxTokens = 2
    MaxFriends = 2
INVARIANTS
    NoOrphan
PROPERTIES
    UnloadLeaves
    PollEnds
