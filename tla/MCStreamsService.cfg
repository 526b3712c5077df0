SPECIFICATION Spec
CONSTANTS
    Channels = {1, 2}
    SBuf = 2
    PBuf = 2
    Chunk = 2
    Scenarios <- MCScenarios
CHECK_DEADLOCK FALSE
INVARIANTS
    RequestsSound
    DataIntact
    NoLostWakeup
PROPERTIES
    WritesEnd
