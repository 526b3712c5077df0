SPECIFICATION Spec
CONSTANTS
    c1 = c1
    c2 = c2
    Chans = {c1, c2}
    Cmds = {k1, k2, k3}
    HashSize = 2
    HashBase <- Base
    TokenMod = 2
    ReenterOther = FALSE
    NULL = NULL
SYMMETRY Symmetry
CHECK_DEADLOCK FALSE
INVARIANTS
    CommandAccounted
    RepliesSound
