CONSTANTS
    Scheduler = main
    Callers = {main}
    Fibers = {f1, f2}
    Uploads = {}
    MaxChunks = 0
    Tasks = {t1, t2, t3}
    Streams = {s1}
    Writers = {}
    NoTask = NoTask
    NoHandle = NoHandle
SYMMETRY Symmetry
SPECIFICATION AwaitSpec
CHECK_DEADLOCK FALSE
INVARIANTS
    ByteMeansResult
    NoOrphan
    CloseCancels
