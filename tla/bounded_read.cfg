CONSTANTS
    WordMax = 7
    MaxOutput = 3
    MaxObject = 5
SPECIFICATION Spec
CHECK_DEADLOCK FALSE
INVARIANTS
    Bounded
    ReadVerdict
    StreamLossless
