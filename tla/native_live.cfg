CONSTANTS
    Callers = {c1, c2}
    Tasks = {t1, t2}
    Streams = {s1}
    Writers = {w1}
    NoTask = NoTask
    NoHandle = NoHandle
SPECIFICATION FairSpec
CHECK_DEADLOCK FALSE
INVARIANTS
    WakeOwnership
    Poisoned
    Exclusive
PROPERTIES
    TerminalSticks
    EventuallyFree
    ImplementsProtocol
