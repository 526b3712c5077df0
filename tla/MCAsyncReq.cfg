SPECIFICATION Spec
CONSTANTS
    Objs <- TheObjs
    Workers = {w1, w2, w3, w4}
    Chans = {c1, c2}
    BgReqs = {b1}
    MaxIdle = 1
    None = None
    TimerReq = TimerReq
    ShutdownReq = ShutdownReq
SYMMETRY Symmetry
CHECK_DEADLOCK FALSE
INVARIANTS
    PoolSound
    ShutdownSafe
