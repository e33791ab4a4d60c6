SPECIFICATION FairSpec
CONSTANTS
    NSector = 2
    MaxVersion = 2
    MaxFault = 3
    MaxCut = 2
    Layout <- MCLayout
    Length <- MCLength
    Large = {}
INVARIANTS
    TypeOK
    OneFaultSurvivable
    DefaultNeedsTwoFaults
    NothingOlder
    QuietCopiesAgree
    BootReadsValidCopy
PROPERTY
    BootCompletes
