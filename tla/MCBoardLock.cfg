SPECIFICATION Spec
CHECK_DEADLOCK FALSE
CONSTANTS
    p1 = p1
    p2 = p2
    zero = zero
    one = one
    erased = erased
    Proc <- MCTwo
    UserRegion = {"sp", "nvram", "avail"}
    Slot = {1, 2}
    Val <- MCVal
    Blank = zero
    InitVal = one
    Erased = erased
    MaxRetry = 2
    RestoreTime = 2
    Signals = FALSE
    Restore = FALSE
SYMMETRY MCSym
INVARIANTS
    LockExclusive
    NoLostUpdate
    ReadsLatest
