SPECIFICATION Spec
CONSTANTS
    p1 = p1
    p2 = p2
    zero = zero
    one = one
    erased = erased
    Proc <- MCTwo
    UserRegion = {"psi", "sp"}
    Slot = {1}
    Val = {zero}
    Blank = zero
    InitVal = zero
    Erased = erased
    MaxRetry = 2
    RestoreTime = 1
    Signals = TRUE
    Restore = TRUE
SYMMETRY MCSym
INVARIANTS
    SemaphoreDrift
    WritersExclusive
