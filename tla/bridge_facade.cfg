CONSTANTS
    Slots = 4
    MaxBuffer = 3
    MaxChunk = 2
    MaxConfigEntries = 2
    MaxConfigBytes = 4
    MaxListEntries = 2
    MaxListBytes = 4
    HalfMax = 2
    WordMax = 4
    Lengths = {0, 3, 4}
    Configs <- MCConfigs
    Listings <- MCListings
    Words = {1, 3}
SPECIFICATION Spec
INVARIANTS
    OnlyKeysStay
    ErrorIsTrue
    AnswerIsExact
