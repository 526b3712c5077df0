SPECIFICATION FairSpec
CONSTANTS
    Buf = {b1}
    Heap = {n1, n2}
    Handlers = {h1, h2}
    Threads = {t1, t2}
    Dispatcher = dispatcher
    NoHandler = NoHandler
    NoNode = NoNode
    Delays = {0, 1}
    Batch = 2
    MaxTime = 2
CHECK_DEADLOCK FALSE
INVARIANTS
    NoLostWakeup
    CancelWaitSafe
    QueuesSound
PROPERTIES
    EveryEventHandled
