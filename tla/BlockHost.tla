----------------------------- MODULE BlockHost -----------------------------
(***************************************************************************)
(* The Linux node that the three drivers run on, as far as they can see    *)
(* or change it: the block devices in the order lsblk lists them, what is  *)
(* on each of them, what udev has recorded of it, and the mounts and       *)
(* directories under the driver's mount point.                             *)
(*                                                                         *)
(* A device is identified with the NAME that `lsblk --paths` prints for    *)
(* it.  KernelPath is the path that the device's /dev/disk/by-uuid symlink *)
(* leads to: the same string for a disk or a partition, another one        *)
(* (/dev/dm-0 for /dev/mapper/vg-data) for a device-mapper node.           *)
(*                                                                         *)
(* The JSON forest of lsblk is kept in the order in which FlattenDevices   *)
(* visits it: Rows[k] is the k-th device visited and Top[k] the row of the *)
(* top-level device whose subtree row k belongs to.  A device with two     *)
(* parents (a RAID or multipath node) has a row under each of them.        *)
(***************************************************************************)
EXTENDS Naturals, Sequences

CONSTANTS
    Dev,         \* block devices (lsblk NAMEs)
    Path,        \* strings that name a device in some listing
    KernelPath,  \* KernelPath[d]: where the by-uuid symlink of d leads
    Rows,        \* the flattened lsblk listing
    Top,         \* Top[k]: row of the top-level device above row k
    RootSource,  \* Source of the "/" entry of mountinfo; None when there is none
    Uuid,        \* identifiers a caller may pass to --uuid
    PartUuid,    \* PartUuid[d]: partition-table UUID of d, or None
    Label,       \* filesystem labels
    Disk0,       \* Disk0[d]: the filesystem on d at the start
    None         \* the empty string of lsblk's columns

VARIABLES
    disk,    \* disk[d]: the filesystem on d, Blank when there is none
    udev,    \* udev[d]: the same columns as udev has them, which lsblk prints
    mounts,  \* mounts[u]: devices stacked on <mount point>/u, topmost last
    dirs     \* the u for which the directory <mount point>/u exists

hostVars == <<disk, udev, mounts, dirs>>

-----------------------------------------------------------------------------
(* What is on a device                                                     *)

\* UUID and LABEL columns; FSTYPE is empty exactly when UUID is.
Content == [uuid : Uuid \cup {None}, label : Label \cup {None}]

Blank == [uuid |-> None, label |-> None]

HasFs(c) == c.uuid # None

\* A node on which nothing is ambiguous: every device has a kernel path of its
\* own, and no two devices carry the same identifier.
ASSUME HostAssumption ==
    /\ Dev \subseteq Path
    /\ KernelPath \in [Dev -> Path]
    /\ \A d, e \in Dev : KernelPath[d] \in {e, KernelPath[e]} => d = e
    /\ Rows \in Seq(Dev)
    /\ Top \in [DOMAIN Rows -> DOMAIN Rows]
    /\ \A k \in DOMAIN Rows : Top[k] <= k /\ Top[Top[k]] = Top[k]
    /\ PartUuid \in [Dev -> Uuid \cup {None}]
    /\ None \notin Uuid \cup Label \cup Path
    /\ Disk0 \in [Dev -> Content]
    /\ \A d \in Dev : HasFs(Disk0[d]) \/ Disk0[d] = Blank
    /\ \A d, e \in Dev : d # e /\ HasFs(Disk0[d]) =>
          Disk0[d].uuid \notin {Disk0[e].uuid, PartUuid[e]}
    /\ \A d, e \in Dev : d # e /\ PartUuid[d] # None => PartUuid[d] # PartUuid[e]

\* d would be found by a search for the UUID or PARTUUID u in the columns cols.
Answers(d, u, cols) == cols[d].uuid = u \/ PartUuid[d] = u

Mounted(d) == \E u \in Uuid : \E i \in DOMAIN mounts[u] : mounts[u][i] = d

TopMount(u) == mounts[u][Len(mounts[u])]

\* A node whose udev is up to date, with nothing under the mount point yet.
HostInit ==
    /\ disk = Disk0
    /\ udev = Disk0
    /\ mounts = [u \in Uuid |-> <<>>]
    /\ dirs = {}

HostTypeOK ==
    /\ disk \in [Dev -> Content]
    /\ udev \in [Dev -> Content]
    /\ mounts \in [Uuid -> Seq(Dev)]
    /\ dirs \subseteq Uuid

-----------------------------------------------------------------------------
(* The lsblk listing                                                       *)

Listed(d) == \E k \in DOMAIN Rows : Rows[k] = d

\* The first of the devices S that the flattened listing shows.
FirstRow(S) ==
    CHOOSE k \in DOMAIN Rows :
        /\ Rows[k] \in S
        /\ \A j \in DOMAIN Rows : Rows[j] \in S => k <= j

Subtree(t) == {Rows[k] : k \in {j \in DOMAIN Rows : Top[j] = t}}

\* The device that the kernel opens for a path.
DeviceAt(p) == CHOOSE d \in Dev : p \in {d, KernelPath[d]}

\* Faulty variant: only the device of "/" itself is excluded.
RootDeviceOnly(source) == IF Listed(source) THEN {source} ELSE {}

\* The top-level search of FindRootDiskDescendants stops at the first disk
\* whose subtree shows the source, and returns that disk's whole subtree.
FindRootDiskDescendants(source) ==
    IF Listed(source) THEN Subtree(Top[FirstRow({source})]) ELSE {}

\* The devices that share a disk with the device mounted on "/": what the
\* guardrail is about.  Not a function of the program.
RootDiskDevices ==
    UNION {Subtree(Top[k]) : k \in {j \in DOMAIN Rows : Rows[j] = RootSource}}

\* lsblk lists every device, under the path its by-uuid symlink leads to.
NamesAgree == \A d \in Dev : Listed(d) /\ KernelPath[d] = d

\* The device of "/" lies on one top-level disk: no RAID, no multipath.
RootOnOneDisk ==
    \A j, k \in DOMAIN Rows : Rows[j] = RootSource /\ Rows[k] = RootSource => Top[j] = Top[k]

-----------------------------------------------------------------------------
(* What mkfs and udev do                                                   *)

\* mkfs draws a UUID that nothing on the node carries.
FreshUuid(u) ==
    \A d \in Dev : ~Answers(d, u, disk) /\ ~Answers(d, u, udev)

Mkfs(d, u, l) ==
    /\ FreshUuid(u)
    /\ disk' = [disk EXCEPT ![d] = [uuid |-> u, label |-> l]]

\* udev processes the change event of d, at any time after the write.
UdevRecords(d) ==
    /\ udev[d] # disk[d]
    /\ udev' = [udev EXCEPT ![d] = disk[d]]
=============================================================================
