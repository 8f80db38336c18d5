--------------------------- MODULE MCStackedHost ---------------------------
(***************************************************************************)
(* DeviceMounter on nodes whose root filesystem is not on a plain          *)
(* partition: on a logical volume, and on a RAID1 of two disks.            *)
(***************************************************************************)
EXTENDS DeviceMounter

CONSTANTS p1, sda, sda1, sdb, sdb1, sdb2, sdc, md0, root, data, dm0, dm1, u1, u2

Fs(u) == [uuid |-> u, label |-> None]
Mount(u) == [op |-> "mount", uuid |-> u, fsGiven |-> TRUE, require |-> None]

OneProc == {p1}
NoProc == {}
NoDev == {}
NoLabels == {}
TwoUuids == {u1, u2}
NoPart == [d \in Dev |-> None]
GivenFs == {Mount(u1), Mount(u2)}

\* sda -> sda1 (LVM physical volume) -> /dev/mapper/root and /dev/mapper/data; sdc is
\* a plain data disk.
LvmDev  == {sda, sda1, root, data, sdc}
LvmPath == LvmDev \cup {dm0, dm1}
LvmKernelPath == [d \in LvmDev |-> CASE d = root -> dm0 [] d = data -> dm1 [] OTHER -> d]
LvmRows == <<sda, sda1, root, data, sdc>>
LvmTop  == <<1, 1, 1, 1, 5>>
LvmDisk == [d \in LvmDev |-> CASE d = data -> Fs(u1) [] d = sdc -> Fs(u2) [] OTHER -> Fs(None)]

\* sda and sdb mirror each other in md0, which hosts "/"; sdb2 is a spare
\* partition of the second mirror disk.
RaidDev  == {sda, sda1, md0, sdb, sdb1, sdb2}
RaidKernelPath == [d \in RaidDev |-> d]
RaidRows == <<sda, sda1, md0, sdb, sdb1, md0, sdb2>>
RaidTop  == <<1, 1, 1, 4, 4, 4, 4>>
RaidDisk == [d \in RaidDev |-> IF d = sdb2 THEN Fs(u1) ELSE Fs(None)]
=============================================================================
