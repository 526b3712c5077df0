SPECIFICATION FairSpec
CONSTANTS
    Cmds = {1, 2}
    MaxGen = 2
    MaxEv = 1
CHECK_DEADLOCK FALSE
INVARIANTS
    AnsweredOnce
    EventsInSession
    PairSound
PROPERTIES
    RedirectEnds
