CONSTANTS
    r1 = r1
    r2 = r2
    sda = sda
    sda1 = sda1
    sdb = sdb
    sdc = sdc
    sdd = sdd
    sde = sde
    u1 = u1
    u2 = u2
    u3 = u3
    u4 = u4
    u5 = u5
    None = None
    Dev <- NodeDev
    Path <- NodeDev
    KernelPath <- Same
    Rows <- NodeRows
    Top <- NodeTop
    RootSource = sda1
    Uuid <- NodeUuid
    PartUuid <- NoPart
    Label <- Labels
    Disk0 <- NodeDisk
    Size <- NodeSize
    MinSize = 2
    MkfsLabel = "CUBBIT"
    Xfs <- SecondRunner
    Runner <- TwoRunners
    BadDisk <- NoDev
    InUse <- JustSdd
    MaxFaults = 1
SPECIFICATION FairSpec
INVARIANTS
    TypeOK
    ProtectedUntouched
    ReportTrue
PROPERTIES
    OverwriteExplained
    SettleProtects
    AllGetFormatted
