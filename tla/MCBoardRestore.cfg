SPECIFICATION FairSpec
CHECK_DEADLOCK FALSE
CONSTANTS
    p1 = p1
    p2 = p2
    zero = zero
    one = one
    erased = erased
    Proc <- MCTwo
    UserRegion = {"sp"}
    Slot = {1}
    Val <- MCVal
    Blank = zero
    InitVal = one
    Erased = erased
    MaxRetry = 2
    RestoreTime = 2
    Signals = FALSE
    Restore = TRUE
INVARIANTS
    MonitorBalanced
PROPERTIES
    RestoreAloneComplete
    CallsReturn
