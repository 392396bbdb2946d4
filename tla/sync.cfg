CONSTANTS
    Callers = {c1, c2}
    Writers = {}
    Copiers = {p1}
    Listers = {}
    Streams = {s1}
    Readers = {r1}
    NoResource = NoResource
SPECIFICATION LiveSpec
CHECK_DEADLOCK FALSE
INVARIANTS
    Excludes
    NoLostWakeup
    VerdictsAgree
PROPERTIES
    FinalDrains
    ImplementsSerial
