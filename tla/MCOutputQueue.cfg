SPECIFICATION FairSpec
CONSTANTS
    Bufs = {1, 2, 3, 4, 5, 6, 7, 8}
    BufSize = 2
    PipeSize = 3
    MaxPool = 1
    EomLimit = 1
    MaxBytes = 7
    None = None
CHECK_DEADLOCK FALSE
INVARIANTS
    QueueSound
    LocksExact
PROPERTIES
    ImplementsByteStream
    OutputLeaves
