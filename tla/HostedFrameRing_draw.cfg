SPECIFICATION RingSpec
CONSTANTS
    RingSlots = 3
    LockAttempts = 2
    MaxFrames = 4
    MaxRebuilds = 0
INVARIANT NotOverwrittenWhileDrawn
