---------------------------- MODULE MCDriverNode ----------------------------
(***************************************************************************)
(* A small node for model-checking DriverNode: a partitioned root disk, a  *)
(* data disk, and a blank disk that driver-init formats.                   *)
(***************************************************************************)
EXTENDS DriverNode

CONSTANTS p1, r1, sda, sda1, sdb, sdc, u1, u2, u3, cubbit

Fs(u, l) == [uuid |-> u, label |-> l]
Mount(u, given, l) == [op |-> "mount", uuid |-> u, fsGiven |-> given, require |-> l]
Unmount(u) == [op |-> "unmount", uuid |-> u, fsGiven |-> FALSE, require |-> None]

OneProc   == {p1}
OneRunner == {r1}
NoRunner  == {}
NoDev     == {}
Labels    == {cubbit}
NodeDev  == {sda, sda1, sdb, sdc}
NodeRows == <<sda, sda1, sdb, sdc>>
NodeTop  == <<1, 1, 3, 4>>
ThreeUuids == {u1, u2, u3}
NodeSize == [d \in NodeDev |-> 2]
NodeDisk == [d \in NodeDev |-> IF d = sdb THEN Fs(u1, cubbit) ELSE Fs(None, None)]
NodeKind == [d \in NodeDev |-> IF d = sda1 THEN "part" ELSE "disk"]
NoUuid   == {}
Same     == [d \in Dev |-> d]
NoPart   == [d \in Dev |-> None]

\* The data disk, and the filesystems that driver-init may make.
NodeRequests ==
    {Mount(u2, FALSE, cubbit), Mount(u2, TRUE, None), Unmount(u2)}
=============================================================================
