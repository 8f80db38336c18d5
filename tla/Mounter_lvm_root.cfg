CONSTANTS
    p1 = p1
    sda = sda
    sda1 = sda1
    sdb = sdb
    sdb1 = sdb1
    sdb2 = sdb2
    sdc = sdc
    md0 = md0
    root = root
    data = data
    dm0 = dm0
    dm1 = dm1
    u1 = u1
    u2 = u2
    None = None
    Dev <- LvmDev
    Path <- LvmPath
    KernelPath <- LvmKernelPath
    Rows <- LvmRows
    Top <- LvmTop
    RootSource = root
    Uuid <- TwoUuids
    PartUuid <- NoPart
    Label <- NoLabels
    Disk0 <- LvmDisk
    MkfsLabel = None
    Proc <- OneProc
    Persistent <- NoProc
    Requests <- GivenFs
    Formattable <- NoDev
    MaxFaults = 0
SPECIFICATION Spec
INVARIANTS
    RootDiskNeverMounted
