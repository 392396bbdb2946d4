CONSTANTS
    Calls = {p1, p2}
    Operators = {o1}
    Streams = {s1}
    Listers = {}
    Writers = {w1}
    None = None
SPECIFICATION LiveSpec
CHECK_DEADLOCK FALSE
INVARIANTS
    NothingLeaks
    ClosedIsQuiet
    VerdictHolds
PROPERTIES
    WriterSticks
    Settles
