SPECIFICATION FairSpec
CONSTANTS
    Streams <- TheStreams
    BufSize = 4
    MaxSizes = {4, 8}
    None = None
CHECK_DEADLOCK FALSE
INVARIANTS
    BufferSound
    NoDeadlock
PROPERTIES
    StreamEnds
