--------------------------- MODULE MCCommandLines ---------------------------
(***************************************************************************)
(* Three disks, a partition and a few command lines for model-checking CommandLines.    *)
(***************************************************************************)
EXTENDS CommandLines

CONSTANTS sda, sdb, sdc, sdd1

Lbl(n, len, p) == [name |-> n, length |-> len, portable |-> p]
Longest  == Lbl("CUBBIT", 10, TRUE)
TooLong  == Lbl("CUBBIT", 17, TRUE)
Unportable == Lbl("cubbit", 6, FALSE)

Cubbit   == [path |-> <<"mnt", "cubbit">>, slash |-> FALSE]
Mnt      == [path |-> <<"mnt">>, slash |-> FALSE]
MntSlash == [path |-> <<"mnt">>, slash |-> TRUE]

Devices    == {sda, sdb, sdc, sdd1}
InOrder    == <<sda, sdb, sdc, sdd1>>
RootDisk   == {sda}
Partitions == {sdd1}
\* The disk sdb is exactly of the default minimum, its filesystem is smaller.
SizeOf     == [d \in Devices |-> IF d = sdb THEN 2 ELSE 4]
FsSizeOf   == [d \in Devices |-> SizeOf[d] - 1]
FirstDisks == [d \in Devices |->
                  IF d \in {sda, sdd1} THEN [type |-> "ext4", label |-> None] ELSE None]

Levels == {[logLevel |-> None, debug |-> FALSE], [logLevel |-> "verbose", debug |-> FALSE],
           [logLevel |-> "verbose", debug |-> TRUE]}
Plain  == [logLevel |-> None, debug |-> FALSE]

InitLines ==
    {[fsType |-> t, label |-> l, minSize |-> s, dryRun |-> FALSE] @@ Plain :
        t \in ValidFSTypes \cup {None, "btrfs"}, s \in {2, 4},
        l \in {None, Longest, TooLong, Unportable}}
    \cup {[DefaultInit EXCEPT !.dryRun = TRUE]}
    \cup {[fsType |-> None, label |-> None, minSize |-> 2, dryRun |-> FALSE] @@ v : v \in Levels}

\* The partition is named by both its identifiers, the disks in both spellings; sdb under
\* two base directories.
Typed ==
    {[of |-> d, kind |-> "fs", spelling |-> s] : d \in Devices, s \in {"lsblk", "other"}}
    \cup {Identifier(d, "part") : d \in {sdb, sdd1}}

MountLines ==
    {[uuid |-> t[1], mountPoint |-> t[2], fsType |-> f, unmount |-> u,
      managedOnly |-> m, requireLabel |-> l] @@ Plain :
        t \in {t \in Typed \X {Cubbit, MntSlash} : t[1].of = sdb \/ t[2] = Cubbit},
        f \in {None, "xfs"}, u \in BOOLEAN, m \in BOOLEAN, l \in {None, Longest}}

ScanLines ==
    {[dir |-> b, fsTypes |-> t, minSize |-> 2] @@ v :
        b \in {None, Cubbit, Mnt, MntSlash}, v \in Levels,
        t \in {{"ext4"}, {"ext4", "xfs", None}, {None}, {"btrfs"}}}
=============================================================================
