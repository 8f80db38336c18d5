CONSTANTS
    p1 = p1
    p2 = p2
    sda = sda
    sda1 = sda1
    sda2 = sda2
    sdb = sdb
    sdc = sdc
    sdc1 = sdc1
    u1 = u1
    u2 = u2
    u3 = u3
    u4 = u4
    cubbit = cubbit
    other = other
    None = None
    Dev <- PlainDev
    Path <- PlainDev
    KernelPath <- Same
    Rows <- PlainRows
    Top <- PlainTop
    RootSource = sda1
    Uuid <- PlainUuid
    PartUuid <- PlainPart
    Label <- Labels
    Disk0 <- PlainDisk
    MkfsLabel = cubbit
    Proc <- TwoProcs
    Persistent <- NoProc
    Requests <- RaceRequests
    Formattable <- Sdc1Only
    MaxFaults = 1
SPECIFICATION Spec
SYMMETRY ProcSymmetry
INVARIANTS
    TypeOK
    RootDiskNeverMounted
    TargetHoldsItsUuid
    NoStacking
    Inv
    RefusalExplained
PROPERTIES
    ManagedMountsLabelled
    ImplementsContract
