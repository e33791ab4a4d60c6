CONSTANTS
    small   = small
    large   = large
    Proc    = {small, large}
    PoolLen = 56
    Request <- MCRequest
    MaxInterrupt = 1
SPECIFICATION FairSpec
CHECK_DEADLOCK FALSE
INVARIANTS
    PoolSound
    Exclusive
    NoAssertFails
    GivesUpRightly
PROPERTIES
    HandsOutDisjoint
    CallReturns
