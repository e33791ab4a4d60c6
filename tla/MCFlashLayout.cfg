SPECIFICATION Spec
CONSTANTS
    NSect = 13
    Small = 8
    Units = {1, 3, 4}
    Geometry <- MCGeometry
    Lengths <- MCLengths
INVARIANTS
    OwnSectors
    InsideSectors
    NoSpareSector
    BootSectorSpared
