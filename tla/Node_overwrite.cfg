CONSTANTS
    p1 = p1
    r1 = r1
    sda = sda
    sda1 = sda1
    sdb = sdb
    sdc = sdc
    u1 = u1
    u2 = u2
    u3 = u3
    cubbit = cubbit
    None = None
    Dev <- NodeDev
    Path <- NodeDev
    KernelPath <- Same
    Rows <- NodeRows
    Top <- NodeTop
    RootSource = sda1
    Uuid <- ThreeUuids
    PartUuid <- NoPart
    Label <- Labels
    Disk0 <- NodeDisk
    Proc <- OneProc
    Persistent <- OneProc
    Formattable <- NodeDev
    Requests <- NodeRequests
    MaxFaults = 0
    Runner <- OneRunner
    Size <- NodeSize
    MinSize = 2
    Xfs <- NoRunner
    BadDisk <- NoDev
    MaxInitFaults = 1
    MkfsLabel = cubbit
    Kind <- NodeKind
    FsSize <- NodeSize
    ScanMinSize = 2
    Foreign <- NoUuid
    MaxScanFaults = 0
SPECIFICATION NodeSpec
INVARIANTS
    TargetHoldsItsUuid
