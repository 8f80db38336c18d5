CONSTANTS
    MaxDevice = 4
    Second <- SkipEven
SPECIFICATION Spec
INVARIANTS
    StopEndsWalk
