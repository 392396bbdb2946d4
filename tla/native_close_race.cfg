CONSTANTS
    Callers = {c1, c2}
    Tasks = {t1, t2, t3}
    Streams = {s1}
    Writers = {}
    NoTask = NoTask
    NoHandle = NoHandle
SYMMETRY Symmetry
SPECIFICATION Spec
CHECK_DEADLOCK FALSE
INVARIANT CloseCancels
