CONSTANTS
    WordMax = 15
    MaxLen = 7
    MaxOutput = 4
SPECIFICATION Spec
CHECK_DEADLOCK FALSE
INVARIANTS
    OutputsHonest
    NoSilentOption
    CredentialsContained
    LimitsExact
    ViewIsWhole
