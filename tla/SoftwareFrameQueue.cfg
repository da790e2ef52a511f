SPECIFICATION FairQueueSpec
CONSTANTS
    Capacity = 3
    MaxCoreCalls = 7
INVARIANTS
    NeverWhilePresented
    NewestKept
PROPERTIES
    PresentedInOrder
    EachPassed
