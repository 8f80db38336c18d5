------------------------- MODULE MCDiskInitializer -------------------------
(***************************************************************************)
(* A small node for model-checking DiskInitializer: a partitioned root     *)
(* disk, a data disk that already has a filesystem, a disk below the       *)
(* minimum size, and two blank disks.                                      *)
(***************************************************************************)
EXTENDS DiskInitializer

CONSTANTS r1, r2, sda, sda1, sdb, sdc, sdd, sde, u1, u2, u3, u4, u5

NodeDev  == {sda, sda1, sdb, sdc, sdd, sde}
NodeRows == <<sda, sda1, sdb, sdc, sdd, sde>>
NodeTop  == <<1, 1, 3, 4, 5, 6>>
NodeSize == [d \in NodeDev |-> IF d = sdc THEN 1 ELSE 2]
NodeDisk == [d \in NodeDev |->
               [uuid |-> IF d = sdb THEN u1 ELSE None, label |-> None]]
\* Those of two blank disks, on the disk and in udev, and that of sdb: with one fault
\* a fresh UUID is left for every mkfs.
NodeUuid == {u1, u2, u3, u4, u5}
Same     == [d \in Dev |-> d]
NoPart   == [d \in Dev |-> None]
Labels   == {"CUBBIT"}
NoDev    == {}
OneRunner  == {r1}
TwoRunners == {r1, r2}
NoRunner   == {}
SecondRunner == {r2}
JustSdd    == {sdd}
=============================================================================
