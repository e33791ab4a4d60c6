SPECIFICATION Spec
CONSTANTS
    short = short
    long = long
    None = None
    Top = Top
    Proc = {p1, p2}
    App = {a1, a2}
    Id = {i1, i2}
    Value = {short, long}
    LengthOf <- MCLength
    Node = {n1, n2, n3}
SYMMETRY MCSym
CHECK_DEADLOCK FALSE
INVARIANTS
    TreeSound
    HoldsWhatWasStored
    OnlyObjectsLeak
    NoCrash
