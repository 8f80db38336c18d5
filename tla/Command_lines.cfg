CONSTANTS
    sda = sda
    sdb = sdb
    sdc = sdc
    sdd1 = sdd1
    None = None
    Dev <- Devices
    Rows <- InOrder
    Partition <- Partitions
    Root <- RootDisk
    Size <- SizeOf
    FsSize <- FsSizeOf
    Disk0 <- FirstDisks
    InitFlags <- InitLines
    MountFlags <- MountLines
    ScanFlags <- ScanLines
    DefaultDir <- Cubbit
    DefaultInitMinSize = 2
    DefaultScanMinSize = 2
SPECIFICATION Spec
INVARIANTS
    LabelRoundTrip
    DefaultsAgree
    UnmountFindsPrinted
