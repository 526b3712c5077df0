SPECIFICATION FairSpec
CONSTANTS
    c1 = c1
    c2 = c2
    c3 = c3
    ch1 = ch1
    Clients = {c1, c2, c3}
    Chans = {ch1}
    Keys = {k1, k2}
    Entries = {e1, e2}
    Gate = Gate
    NULL = NULL
    ChanOf <- ChannelOfClient
    IdMod = 3
    MaxAccess = 2
    MaxSafe = 1
    MaxFlush = 1
CHECK_DEADLOCK FALSE
INVARIANTS
    ClientOnce
    ClientSafe
    WaitersHaveReply
PROPERTIES
    ClientFinishes
