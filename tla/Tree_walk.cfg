CONSTANTS
    MaxDevice = 4
    Second <- SkipEven
SPECIFICATION Spec
INVARIANTS
    LookupFindsFirst
    RootDiskExcluded
    StopPrunesBelow
    FilterKeepsRows
    CombinatorsAgree
