SPECIFICATION RingSpec
CONSTANTS
    RingSlots = 3
    LockAttempts = 2
    MaxFrames = 2
    MaxRebuilds = 0
INVARIANT SlotsReleased
