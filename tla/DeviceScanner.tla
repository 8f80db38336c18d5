--------------------------- MODULE DeviceScanner ---------------------------
(***************************************************************************)
(* driver-scan: one process running ScanAll of services/scanner.go, while  *)
(* driver-mounter, driver-init and udev change the node.                   *)
(*                                                                         *)
(* A scan takes two pictures of the node at different moments: first the   *)
(* mount table (ScanMounted), then the lsblk listing (ScanUnmounted).  In  *)
(* between it asks the file system and lsblk about each mount, one call    *)
(* after the other.                                                        *)
(***************************************************************************)
EXTENDS BlockHost

CONSTANTS
    Kind,         \* Kind[d]: the TYPE column
    Size,         \* Size[d]: bytes, as lsblk reports them
    FsSize,       \* FsSize[d]: bytes that statfs reports of a filesystem on d
    MinSize,      \* --min-size
    Foreign,      \* UUIDs of filesystems whose type is not in --fs-type
    Mountable,    \* devices that are mounted and unmounted under --dir
    Stray,        \* devices that are mounted and unmounted elsewhere
    Formattable,  \* devices that are formatted during scans
    MaxFaults     \* bound on provider failures

ASSUME ScannerAssumption ==
    /\ Size \in [Dev -> Nat]
    /\ FsSize \in [Dev -> Nat]
    /\ MinSize \in Nat
    /\ Foreign \subseteq Uuid
    /\ Mountable \cup Stray \cup Formattable \subseteq Dev
    /\ MaxFaults \in Nat

VARIABLES
    elsewhere,  \* devices mounted outside --dir
    pc,         \* the part of the scan that comes next
    table,      \* mounts read from mountinfo and not measured yet
    entries,    \* mounts that passed the filters and have no UUID yet
    mounted,    \* result of ScanMounted
    unmounted,  \* result of ScanUnmounted
    faults,     \* provider failures so far
    steady,     \* history: devices that nothing happened to in this scan
    was         \* history: <<d, u>> d was mounted on u, <<d, None>> on nothing

ghosts == <<steady, was>>
vars == <<hostVars, elsewhere, pc, table, entries, mounted, unmounted, faults, ghosts>>

\* The UUID column of a device without one in the report: "N/A".
MountRow == [target : Uuid, device : Dev, uuid : Uuid \cup {None}]
DeviceRow == [row : DOMAIN Rows, uuid : Uuid \cup {None},
              status : {"partitioned", "not partitioned"}]

TypeOK ==
    /\ HostTypeOK
    /\ elsewhere \subseteq Dev
    /\ pc \in {"idle", "mountinfo", "statfs", "getuuid", "lsblk", "done", "failed"}
    /\ table \cup entries \subseteq Uuid \X Dev
    /\ mounted \subseteq MountRow
    /\ unmounted \subseteq DeviceRow
    /\ faults \in 0..MaxFaults
    /\ steady \subseteq Dev
    /\ was \subseteq Dev \X (Uuid \cup {None})

-----------------------------------------------------------------------------
(* Helpers                                                                 *)

Fault == faults < MaxFaults /\ faults' = faults + 1

Idle(d) == ~Mounted(d) /\ d \notin elsewhere

\* What is mounted where at this moment.
Now == {m \in Dev \X Uuid : \E i \in DOMAIN mounts[m[2]] : mounts[m[2]][i] = m[1]}
          \cup {<<d, None>> : d \in {e \in Dev : Idle(e)}}

\* Faulty variants: an index that is off by one; the device path when there is no
\* UUID.
UuidOfPrevious(d) ==
    LET k == FirstRow({d})
        e == Rows[IF k = 1 THEN 1 ELSE k - 1]
    IN  IF HasFs(udev[e]) THEN udev[e].uuid ELSE PartUuid[e]
DeviceAsUuid(d) == IF HasFs(udev[d]) THEN udev[d].uuid ELSE d

\* GetUUID and the same rule in ScanUnmounted: UUID, else PARTUUID, else "N/A".
ReportedUuid(d) == IF HasFs(udev[d]) THEN udev[d].uuid ELSE PartUuid[d]

HasChildren(k) == \E j \in DOMAIN Rows : j # k /\ Top[j] = k

-----------------------------------------------------------------------------
(* ScanMounted                                                             *)

Begin ==
    /\ pc \in {"idle", "done", "failed"}
    /\ pc' = "mountinfo"
    /\ table' = {} /\ entries' = {} /\ mounted' = {} /\ unmounted' = {}
    /\ steady' = Dev
    /\ was' = Now
    /\ UNCHANGED <<hostVars, elsewhere, faults>>

\* GetMounts: the mounts under --dir with a filesystem type of --fs-type.
ReadMounts ==
    /\ pc = "mountinfo"
    /\ table' = {m \in Uuid \X Dev :
                   /\ \E i \in DOMAIN mounts[m[1]] : mounts[m[1]][i] = m[2]
                   /\ disk[m[2]].uuid \notin Foreign}
    /\ pc' = "statfs"
    /\ UNCHANGED <<hostVars, elsewhere, entries, mounted, unmounted, faults, ghosts>>

\* The size that statfs reports at the target u: that of the filesystem on top,
\* or of the one that the directory itself is on, which is large enough.
LargeEnough(u) == mounts[u] # <<>> => FsSize[TopMount(u)] >= MinSize

\* The size filter, mount by mount: statfs fails without the directory, and a
\* mount that cannot be measured is left out.
MeasureMount(m) ==
    /\ pc = "statfs" /\ m \in table
    /\ table' = table \ {m}
    /\ \/ /\ entries' = IF m[1] \in dirs /\ LargeEnough(m[1]) THEN entries \cup {m} ELSE entries
          /\ UNCHANGED <<faults, steady>>
       \/ /\ Fault
          /\ steady' = steady \ {m[2]}
          /\ UNCHANGED entries
    /\ UNCHANGED <<hostVars, elsewhere, pc, mounted, unmounted, was>>

AllMeasured ==
    /\ pc = "statfs" /\ table = {}
    /\ pc' = "getuuid"
    /\ UNCHANGED <<hostVars, elsewhere, table, entries, mounted, unmounted, faults, ghosts>>

\* getUUID of one mount; its second statfs only fills in the sizes.
DescribeMount(m) ==
    /\ pc = "getuuid" /\ m \in entries
    /\ entries' = entries \ {m}
    /\ \E uuid \in Uuid \cup {None} :
          /\ \/ uuid = (IF Listed(m[2]) THEN ReportedUuid(m[2]) ELSE None) /\ UNCHANGED faults
             \/ uuid = None /\ Fault
          /\ mounted' = mounted \cup {[target |-> m[1], device |-> m[2], uuid |-> uuid]}
    /\ UNCHANGED <<hostVars, elsewhere, pc, table, unmounted, ghosts>>

AllDescribed ==
    /\ pc = "getuuid" /\ entries = {}
    /\ pc' = "lsblk"
    /\ UNCHANGED <<hostVars, elsewhere, table, entries, mounted, unmounted, faults, ghosts>>

-----------------------------------------------------------------------------
(* ScanUnmounted                                                           *)

\* Faulty variants: the mountpoint is not looked at; only partitions are listed.
MountsOverlooked(k) ==
    LET d == Rows[k] IN
    /\ udev[d].uuid \notin Foreign
    /\ Kind[d] \in {"disk", "part", "loop"}
    /\ ~(Kind[d] = "disk" /\ HasChildren(k))
    /\ Size[d] >= MinSize

DisksOverlooked(k) ==
    LET d == Rows[k] IN Idle(d) /\ Kind[d] = "part" /\ Size[d] >= MinSize

\* The filter of ScanUnmounted and the checks of its loop, for one row.
Free(k) ==
    LET d == Rows[k] IN
    /\ Idle(d)
    /\ udev[d].uuid \notin Foreign
    /\ Kind[d] \in {"disk", "part", "loop"}
    /\ ~(Kind[d] = "disk" /\ HasChildren(k))
    /\ Size[d] >= MinSize

ListUnmounted ==
    /\ pc = "lsblk"
    /\ unmounted' =
         {[row |-> k, uuid |-> ReportedUuid(Rows[k]),
           status |-> IF Kind[Rows[k]] = "part" THEN "partitioned" ELSE "not partitioned"] :
              k \in {j \in DOMAIN Rows : Free(j)}}
    /\ pc' = "done"
    /\ UNCHANGED <<hostVars, elsewhere, table, entries, mounted, faults, ghosts>>

\* mountinfo or lsblk fails: ScanAll returns the error and no device.
ScanFails ==
    /\ pc \in {"mountinfo", "lsblk"}
    /\ Fault
    /\ pc' = "failed"
    /\ mounted' = {}
    /\ UNCHANGED <<hostVars, elsewhere, table, entries, unmounted, ghosts>>

-----------------------------------------------------------------------------
(* The rest of the node                                                    *)

scan == <<pc, table, entries, mounted, unmounted, faults>>

Touch(d) ==
    /\ steady' = steady \ {d}
    /\ was' = was \cup Now'

\* driver-mounter makes or removes the target directory of a device.
Directory(u) ==
    /\ mounts[u] = <<>>
    /\ \E d \in Mountable : Answers(d, u, disk)
    /\ dirs' \in {dirs \cup {u}, dirs \ {u}}
    /\ UNCHANGED <<disk, udev, mounts, elsewhere, scan, ghosts>>

\* driver-mounter, which mounts a device only once on the same target and
\* never on top of another one.
MountFs(d) ==
    /\ HasFs(disk[d])
    /\ \E u \in dirs :
          /\ Answers(d, u, disk) /\ mounts[u] = <<>>
          /\ mounts' = [mounts EXCEPT ![u] = <<d>>]
    /\ UNCHANGED <<disk, udev, dirs, elsewhere, scan>>
    /\ Touch(d)

UnmountFs(u) ==
    /\ mounts[u] # <<>>
    /\ mounts' = [mounts EXCEPT ![u] = <<>>]
    /\ UNCHANGED <<disk, udev, dirs, elsewhere, scan>>
    /\ Touch(TopMount(u))

MountStray(d) ==
    /\ HasFs(disk[d]) /\ d \notin elsewhere
    /\ elsewhere' = elsewhere \cup {d}
    /\ UNCHANGED <<hostVars, scan>>
    /\ Touch(d)

UnmountStray(d) ==
    /\ d \in elsewhere
    /\ elsewhere' = elsewhere \ {d}
    /\ UNCHANGED <<hostVars, scan>>
    /\ Touch(d)

\* driver-init formats a bare disk, or an operator a partition.
FormatBlank(d) ==
    /\ Idle(d) /\ ~HasFs(disk[d])
    /\ \E u \in Uuid, l \in Label \cup {None} : Mkfs(d, u, l)
    /\ UNCHANGED <<udev, mounts, dirs, elsewhere, scan>>
    /\ Touch(d)

Udev(d) ==
    /\ UdevRecords(d)
    /\ UNCHANGED <<disk, mounts, dirs, elsewhere, scan>>
    /\ Touch(d)

-----------------------------------------------------------------------------

Init ==
    /\ HostInit
    /\ elsewhere = {}
    /\ pc = "idle"
    /\ table = {} /\ entries = {} /\ mounted = {} /\ unmounted = {}
    /\ faults = 0
    /\ steady = {} /\ was = {}

Scan ==
    \/ Begin \/ ReadMounts \/ AllMeasured \/ AllDescribed \/ ListUnmounted
    \/ \E m \in Uuid \X Dev : MeasureMount(m) \/ DescribeMount(m)

Next ==
    \/ Scan \/ ScanFails
    \/ \E d \in Mountable : MountFs(d)
    \/ \E d \in Stray : MountStray(d) \/ UnmountStray(d)
    \/ \E u \in Uuid : Directory(u) \/ UnmountFs(u)
    \/ \E d \in Formattable : FormatBlank(d)
    \/ \E d \in Dev : Udev(d)

Spec == Init /\ [][Next]_vars

-----------------------------------------------------------------------------
(* Properties                                                              *)

\* The places at which the finished report shows d.
ReportsOf(d) ==
    {r \in mounted : r.device = d} \cup {r \in unmounted : Rows[r.row] = d}

\* The selection that the flags of README.md:68-71 make: a filesystem of --fs-type or none,
\* and the minimum size.  It is compared with the size of the device if it is not mounted,
\* as the README says, and with that of the filesystem if it is, which only the code says
\* (providers/mountinfo_provider.go:111).  Disks with partitions are left out.
Selected(d, isMounted) ==
    /\ disk[d].uuid \notin Foreign
    /\ IF isMounted
         THEN FsSize[d] >= MinSize
         ELSE /\ Size[d] >= MinSize /\ Kind[d] \in {"disk", "part", "loop"}
              /\ Kind[d] = "disk" => \A k \in DOMAIN Rows : Rows[k] = d => ~HasChildren(k)

\* A selected device that nothing happened to while the scan ran, and of which udev is
\* up to date, is in the report once for every target it is mounted on, or once if it
\* is not mounted, although the two halves of the scan look at different moments and
\* other devices come and go; a device that is not selected is not in it.
SteadyReportedOnce ==
    pc = "done" =>
        \A d \in {e \in steady \ elsewhere : udev[e] = disk[e]} :
            LET targets == {u \in Uuid : \E i \in DOMAIN mounts[u] : mounts[u][i] = d} IN
            IF ~Selected(d, targets # {}) THEN ReportsOf(d) = {}
            ELSE IF targets = {} THEN \E r \in unmounted : ReportsOf(d) = {r}
            ELSE ReportsOf(d) \subseteq mounted /\ {r.target : r \in ReportsOf(d)} = targets

\* Whatever moves during a scan, each line of the report was true at some moment of
\* it: the device was mounted there, or it was not mounted.
LinesWereTrue ==
    pc = "done" =>
        /\ \A r \in mounted : <<r.device, r.target>> \in was
        /\ \A r \in unmounted : <<Rows[r.row], None>> \in was

\* A UUID that is reported is one that driver-mounter resolves to the device of the
\* same line, when the scan is over and later.
ReportedUuidResolves ==
    /\ \A r \in mounted : r.uuid # None => Answers(r.device, r.uuid, disk)
    /\ \A r \in unmounted : r.uuid # None => Answers(Rows[r.row], r.uuid, disk)
=============================================================================
