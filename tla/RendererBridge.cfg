SPECIFICATION Spec
CONSTANTS
    RingSize = 2
    MaxFrames = 6
INVARIANTS
    HiddenBehindPicture
    OutstandingExact
    StatusTruthful
PROPERTIES
    Progress
