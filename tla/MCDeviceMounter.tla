-------------------------- MODULE MCDeviceMounter --------------------------
(***************************************************************************)
(* Small nodes and request sets for model-checking DeviceMounter.          *)
(***************************************************************************)
EXTENDS DeviceMounter, TLC

CONSTANTS p1, p2, sda, sda1, sda2, sdb, sdc, sdc1, u1, u2, u3, u4, cubbit, other

Fs(u, l) == [uuid |-> u, label |-> l]
Mount(u, given, l) == [op |-> "mount", uuid |-> u, fsGiven |-> given, require |-> l]
Unmount(u) == [op |-> "unmount", uuid |-> u, fsGiven |-> FALSE, require |-> None]

TwoProcs == {p1, p2}
NoProc   == {}
ProcSymmetry == Permutations(TwoProcs)

-----------------------------------------------------------------------------
(* A root disk with two partitions, a data disk without partitions, and a  *)
(* disk with a partition that has no filesystem yet but a partition UUID.  *)

PlainDev  == {sda, sda1, sda2, sdb, sdc, sdc1}
PlainRows == <<sda, sda1, sda2, sdb, sdc, sdc1>>
PlainTop  == <<1, 1, 1, 4, 5, 5>>
PlainUuid == {u1, u2, u3, u4}
PlainPart == [d \in PlainDev |-> IF d = sdc1 THEN u3 ELSE None]
PlainDisk == [d \in PlainDev |-> CASE d = sda2 -> Fs(u1, cubbit)
                                   [] d = sdb  -> Fs(u2, cubbit)
                                   [] OTHER    -> Fs(None, None)]
Same == [d \in Dev |-> d]
Labels == {cubbit, other}
Sdc1Only == {sdc1}

\* Every kind of request on the data disk, and a mount of the root disk.
DataRequests ==
    {Mount(u2, TRUE, None), Mount(u2, FALSE, cubbit), Mount(u2, FALSE, other),
     Unmount(u2), Mount(u1, TRUE, None)}

\* sdc1 is asked for by the PARTUUID it always has and by the UUID that mkfs may
\* give it.
RaceRequests ==
    DataRequests \cup {Mount(u3, TRUE, None), Mount(u4, FALSE, other), Unmount(u3)}

=============================================================================
