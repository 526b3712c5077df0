SPECIFICATION Spec
CONSTANTS
    Streams <- EndStreams
    BufSize = 4
    MaxSizes = {4, 8}
    None = None
CHECK_DEADLOCK FALSE
INVARIANTS
    LongMessageAlone
