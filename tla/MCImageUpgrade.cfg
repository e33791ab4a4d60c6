SPECIFICATION FairSpec
CONSTANTS
    NSect = 10
    First = 1
    Half = 4
    VaSect = 8
    Lens = {2, 3, 6, 8}
    MaxImage = 4
INVARIANTS
    UpgradeBoots
    FlagTellsTorn
PROPERTIES
    ElsewhereKept
    UpgradeEnds
CHECK_DEADLOCK FALSE
