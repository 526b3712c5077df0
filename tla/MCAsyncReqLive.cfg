SPECIFICATION FairSpec
CONSTANTS
    Objs <- TheObjs
    Workers = {w1, w2, w3, w4}
    Chans = {c1}
    BgReqs = {}
    MaxIdle = 1
    None = None
    TimerReq = TimerReq
    ShutdownReq = ShutdownReq
CHECK_DEADLOCK FALSE
PROPERTIES
    ShutdownCompletes
