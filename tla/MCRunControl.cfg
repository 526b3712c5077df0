SPECIFICATION FairSpec
CONSTANTS
    N = 2
    StopAllMax = 2
    StopRetries = 1
    SkipMax = 1
    AttachSelf = TRUE
    MaxInputs = 1
CHECK_DEADLOCK FALSE
INVARIANTS
    BooksSound
    StepOverAlone
    NoForgottenThread
PROPERTIES
    InterceptEnds
