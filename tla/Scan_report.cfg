CONSTANTS
    sda = sda
    sda1 = sda1
    sdb = sdb
    sdc = sdc
    sdc1 = sdc1
    u1 = u1
    u2 = u2
    u3 = u3
    u4 = u4
    u5 = u5
    u6 = u6
    None = None
    Dev <- NodeDev
    Path <- NodeDev
    KernelPath <- Same
    Rows <- NodeRows
    Top <- NodeTop
    RootSource = sda
    Uuid <- NodeUuid
    PartUuid <- NodePart
    Label <- NoLabels
    Disk0 <- NodeDisk
    Kind <- NodeKind
    Size <- Big
    FsSize <- SdbSmall
    MinSize = 2
    Foreign <- ForeignU4
    Mountable <- DataDevs
    Stray <- OnlySdb
    Formattable <- OnlySdc1
    MaxFaults = 1
SPECIFICATION Spec
INVARIANTS
    TypeOK
    SteadyReportedOnce
    LinesWereTrue
    ReportedUuidResolves
