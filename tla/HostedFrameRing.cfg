SPECIFICATION FairRingSpec
CONSTANTS
    RingSlots = 3
    LockAttempts = 2
    MaxFrames = 4
    MaxRebuilds = 1
INVARIANTS
    NeverOverwriteHeld
PROPERTIES
    NewestFrameWins
    NeitherHangs
