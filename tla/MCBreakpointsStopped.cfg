SPECIFICATION Spec
CONSTANTS
    Groups = {1, 2}
    Threads = {1, 2}
    Bps = {1, 2}
    Clients = {1, 2}
    CodeLocs = {1}
    DataLocs = {2, 3}
    Attrs <- MCAttrs
    HwSlots = 1
    LocMax = 3
    SkipMax = 2
    Scenarios <- MCScenarios
CHECK_DEADLOCK FALSE
INVARIANTS
    StoppedAtCondition
