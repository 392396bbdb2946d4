CONSTANTS
    Scheduler = main
    Callers = {main}
    Fibers = {}
    Uploads = {u1}
    MaxChunks = 2
    Tasks = {t1, t2, t3, t4, t5}
    Streams = {}
    Writers = {w1}
    NoTask = NoTask
    NoHandle = NoHandle
SPECIFICATION FairAwaitSpec
CHECK_DEADLOCK FALSE
INVARIANTS
    UploadVerdict
PROPERTIES
    UploadEnds
