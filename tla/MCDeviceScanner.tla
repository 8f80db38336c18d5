-------------------------- MODULE MCDeviceScanner --------------------------
(***************************************************************************)
(* A small node for model-checking DeviceScanner: a root disk with a data  *)
(* partition, a data disk without partitions, and a disk with a partition  *)
(* that has no filesystem yet and may get one, of --fs-type or not.        *)
(***************************************************************************)
EXTENDS DeviceScanner

CONSTANTS sda, sda1, sdb, sdc, sdc1, u1, u2, u3, u4, u5, u6

NodeDev  == {sda, sda1, sdb, sdc, sdc1}
NodeRows == <<sda, sda1, sdb, sdc, sdc1>>
NodeTop  == <<1, 1, 3, 4, 4>>
NodeKind == [d \in NodeDev |-> IF d \in {sda1, sdc1} THEN "part" ELSE "disk"]
NodeUuid == {u1, u2, u3, u4, u5, u6}
NodePart == [d \in NodeDev |-> CASE d = sda1 -> u5 [] d = sdc1 -> u3 [] OTHER -> None]
NodeDisk == [d \in NodeDev |->
               [uuid |-> CASE d = sda1 -> u1 [] d = sdb -> u2 [] OTHER -> None,
                label |-> None]]
Same     == [d \in Dev |-> d]
NoLabels == {}
NoDev    == {}
ForeignU4 == {u4}
DataDevs  == {sdb, sdc1}
OnlySdb   == {sdb}
OnlySdc1  == {sdc1}

\* A filesystem is smaller than its device: that on sdb is below the minimum.
Big      == [d \in NodeDev |-> 3]
SdbSmall == [d \in NodeDev |-> IF d = sdb THEN 1 ELSE 2]
=============================================================================
