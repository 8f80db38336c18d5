---------------------------- MODULE CommandLines ----------------------------
(***************************************************************************)
(* The command lines of driver-init, driver-mounter and driver-scan, as    *)
(* one operator types them: what complete, validate and run make of the    *)
(* flags, and what becomes of a device that is formatted by one command,   *)
(* found by the next and mounted by a third.                               *)
(*                                                                         *)
(* Each command runs to its end before the next one starts and finds udev  *)
(* settled: what happens inside a command, and between commands that run   *)
(* side by side, is in DiskInitializer, DeviceMounter and DeviceScanner.   *)
(***************************************************************************)
EXTENDS Naturals, SequencesExt

CONSTANTS
    Dev,            \* disks without partitions, and partitions
    Partition,      \* those of them that are partitions, each with a PARTUUID
    Rows,           \* the devices in the order of lsblk
    Root,           \* the devices of the root disk
    Size, FsSize,   \* of a device, and of a filesystem that fills it
    Disk0,          \* the filesystem on each device at first, None if blank
    InitFlags, MountFlags, ScanFlags,     \* the command lines that are tried
    DefaultDir,
    DefaultInitMinSize, DefaultScanMinSize,   \* each command has its own literal
    None

VARIABLES
    disk,           \* disk[d]: [type, label] or None
    mounts,         \* set of [dev, dir, uuid]: dev is mounted on dir/uuid
    asked,          \* ghost: asked[d]: the flags of the driver-init that formatted d
    out             \* what the last command printed and returned

vars == <<disk, mounts, asked, out>>

ASSUME CommandAssumption ==
    /\ Size \in [Dev -> Nat] /\ FsSize \in [Dev -> Nat]
    /\ \A d \in Dev : FsSize[d] <= Size[d]
    /\ Root \subseteq Dev /\ Partition \subseteq Dev /\ Range(Rows) = Dev
    /\ \A f \in InitFlags : f.minSize \in Nat
    /\ \A f \in MountFlags :
           f.uuid \in [of : Dev, kind : {"fs", "part"}, spelling : {"lsblk", "other"}]
    /\ ~DefaultDir.slash
    /\ DefaultInitMinSize \in Nat
    /\ None \notin {"debug", "info", "warn", "error"} \cup {"ext4", "xfs", "vfat", "ntfs"}

\* Both literals are 50*1024*1024.
ASSUME DefaultSizesAssumption == DefaultScanMinSize = DefaultInitMinSize

-----------------------------------------------------------------------------
(* Filesystem types and labels: package fsutils                            *)

ValidFSTypes == {"ext4", "xfs", "vfat", "ntfs"}

\* A list of types is the set of its entries; an entry may be blank.
ParsedTypes(csv) == csv \ {None}

ParseFSTypes(csv) == ParsedTypes(csv) \subseteq ValidFSTypes

\* Faulty variant: takes labels of any length.
AnyLength(l) == l.length > 0 /\ l.portable

\* A label is [name, length, portable]; portable: A-Z and 0-9 only.
ValidateLabel(l) == l.length \in 1..10 /\ l.portable

\* The longest label of each type; mkfs.ext4 cuts a longer one, the others refuse it.
LabelRoom(t) ==
    CASE t = "ext4" -> 16 [] t = "xfs" -> 12 [] t = "vfat" -> 11 [] t = "ntfs" -> 128

Fits(t, l) == l # None => l.length <= LabelRoom(t)

MkfsAccepts(t, l) == t # "ext4" => Fits(t, l)

Mkfs(t, l) ==
    [type |-> t, label |-> IF Fits(t, l) THEN l ELSE [l EXCEPT !.length = LabelRoom(t)]]

-----------------------------------------------------------------------------
(* Flags common to all commands                                            *)

LogLevel(f) ==
    IF f.debug THEN "debug" ELSE IF f.logLevel = None THEN "warn" ELSE f.logLevel

ValidateGlobal(f) == LogLevel(f) \in {"debug", "info", "warn", "error"}

\* A command line that validate rejects ends there.
Reject == out' = [ok |-> FALSE, rows |-> {}] /\ UNCHANGED <<disk, mounts, asked>>

Return(ok, rows) == out' = [ok |-> ok, rows |-> rows]

-----------------------------------------------------------------------------
(* driver-init                                                             *)

\* Faulty variant: the default is not that of driver-scan.
DefaultsToXfs(f) == IF f.fsType = None THEN "xfs" ELSE f.fsType

InitFSType(f) == IF f.fsType = None THEN "ext4" ELSE f.fsType

InitValidate(f) ==
    /\ ValidateGlobal(f)
    /\ InitFSType(f) \in ValidFSTypes
    /\ f.label # None => ValidateLabel(f.label)

\* Only top-level devices are formatted.
Unformatted(f) == {d \in Dev \ Partition : disk[d] = None /\ Size[d] >= f.minSize}

\* None is no filesystem.
ASSUME MkfsAssumption ==
    \A f \in InitFlags : InitValidate(f) => Mkfs(InitFSType(f), f.label) # None

\* mkfs runs through the targets in the order of lsblk; the first that fails is the last.
Format(f) ==
    \E n \in 0..Len(Rows) :
        LET made == Unformatted(f) \cap {Rows[i] : i \in 1..n} IN
        /\ made # {} => MkfsAccepts(InitFSType(f), f.label)
        /\ disk' = [d \in Dev |-> IF d \in made THEN Mkfs(InitFSType(f), f.label) ELSE disk[d]]
        /\ asked' = [d \in Dev |-> IF d \in made THEN f ELSE asked[d]]
        /\ IF made = Unformatted(f) THEN Return(TRUE, made) ELSE Return(FALSE, {})

InitCommand(f) ==
    \/ ~InitValidate(f) /\ Reject
    \/ /\ InitValidate(f) /\ f.dryRun
       /\ Return(TRUE, Unformatted(f)) /\ UNCHANGED <<disk, mounts, asked>>
    \/ /\ InitValidate(f) /\ ~f.dryRun
       /\ Format(f) /\ UNCHANGED mounts

-----------------------------------------------------------------------------
(* driver-mounter                                                          *)

\* An identifier is [of, kind, spelling]: the UUID of the filesystem on a device or the
\* PARTUUID of a partition, as lsblk prints it or spelled otherwise (capitals, braces, no
\* dashes).
Identifier(d, kind) == [of |-> d, kind |-> kind, spelling |-> "lsblk"]

\* Faulty variant: prefers the PARTUUID.
PartUuidFirst(d) == Identifier(d, IF d \in Partition THEN "part" ELSE "fs")

\* The identifier that lsblk and driver-scan print for a device.
Printed(d) == Identifier(d, IF disk[d] # None THEN "fs" ELSE "part")

\* vfat has a serial number of 8 hexadecimal digits, ntfs one of 16; a PARTUUID of a GPT
\* is a UUID.
ParsesAsUuid(u) == u.kind = "fs" /\ disk[u.of] # None => disk[u.of].type \in {"ext4", "xfs"}

MountValidate(f) ==
    /\ ValidateGlobal(f)
    /\ ParsesAsUuid(f.uuid)
    /\ f.fsType # None => f.fsType \in ValidFSTypes
    /\ f.managedOnly => f.requireLabel # None
    /\ f.requireLabel # None => ValidateLabel(f.requireLabel)

\* Both the symlinks of udev and the rows of lsblk are compared to the letter; the rows are
\* searched for a PARTUUID as well.
Resolves(u) ==
    /\ u.spelling = "lsblk"
    /\ \/ u.kind = "fs" /\ disk[u.of] # None
       \/ u.kind = "part" /\ u.of \in Partition

At(f) == {m \in mounts : m.dir = f.mountPoint.path /\ m.uuid = f.uuid}

\* filepath.Join drops a trailing slash of the base directory.
Mounted(f) == [dev |-> f.uuid.of, dir |-> f.mountPoint.path, uuid |-> f.uuid]

\* What the steps of Mount allow before the mount(2) call.
Passes(f) ==
    /\ Resolves(f.uuid) /\ f.uuid.of \notin Root
    /\ f.managedOnly => disk[f.uuid.of] # None /\ disk[f.uuid.of].label = f.requireLabel

\* A device without a filesystem has no type that could be detected or mounted.
KernelAccepts(f) ==
    /\ disk[f.uuid.of] # None
    /\ f.fsType \in {None, disk[f.uuid.of].type}

MountCommand(f) ==
    \/ ~MountValidate(f) /\ Reject
    \/ /\ MountValidate(f) /\ f.unmount
       /\ mounts' = mounts \ At(f)
       /\ Return(TRUE, {}) /\ UNCHANGED <<disk, asked>>
    \/ /\ MountValidate(f) /\ ~f.unmount
       /\ LET ok == Passes(f) /\ (At(f) # {} \/ KernelAccepts(f)) IN
          /\ mounts' = IF ok /\ At(f) = {} THEN mounts \cup {Mounted(f)} ELSE mounts
          /\ Return(ok, {}) /\ UNCHANGED <<disk, asked>>

-----------------------------------------------------------------------------
(* driver-scan                                                             *)

ScanValidate(f) ==
    /\ ValidateGlobal(f)
    /\ f.dir # None
    /\ ParseFSTypes(f.fsTypes) /\ ParsedTypes(f.fsTypes) # {}

\* PrefixFilter puts a slash behind --dir; one that ends in a slash has nothing under it
\* (for / that leaves the root mount itself, which is no mount of driver-mounter).
UnderDir(m, dir) == ~dir.slash /\ IsPrefix(dir.path, m.dir)

\* Filesystems are measured by statfs when they are mounted, by lsblk when not.
MountedRows(f) ==
    {[dev |-> m.dev, status |-> "mounted"] :
        m \in {m \in mounts : /\ UnderDir(m, f.dir)
                              /\ disk[m.dev].type \in ParsedTypes(f.fsTypes)
                              /\ FsSize[m.dev] >= f.minSize}}

\* A disk without a filesystem is listed whatever --fs-type says; the root disk is in
\* use outside --dir.
UnmountedRows(f) ==
    {[dev |-> d, status |-> "unmounted"] :
        d \in {d \in Dev \ Root : /\ \A m \in mounts : m.dev # d
                                  /\ disk[d] # None => disk[d].type \in ParsedTypes(f.fsTypes)
                                  /\ Size[d] >= f.minSize}}

ScanCommand(f) ==
    \/ ~ScanValidate(f) /\ Reject
    \/ /\ ScanValidate(f)
       /\ Return(TRUE, MountedRows(f) \cup UnmountedRows(f))
       /\ UNCHANGED <<disk, mounts, asked>>

-----------------------------------------------------------------------------

Init ==
    /\ disk = Disk0 /\ mounts = {} /\ asked = [d \in Dev |-> None]
    /\ out = [ok |-> TRUE, rows |-> {}]

Next ==
    \/ \E f \in InitFlags : InitCommand(f)
    \/ \E f \in MountFlags : MountCommand(f)
    \/ \E f \in ScanFlags : ScanCommand(f)

Spec == Init /\ [][Next]_vars

-----------------------------------------------------------------------------
(* What the command lines are without any flag but the required ones       *)

DefaultInit ==
    [fsType |-> None, label |-> None, minSize |-> DefaultInitMinSize, dryRun |-> FALSE,
     logLevel |-> None, debug |-> FALSE]

\* None is no command line either.
ASSUME DefaultAssumption == DefaultInit # None

DefaultMount(d) ==
    [uuid |-> Printed(d), mountPoint |-> DefaultDir, fsType |-> None, unmount |-> FALSE,
     managedOnly |-> FALSE, requireLabel |-> None, logLevel |-> None, debug |-> FALSE]

DefaultScan ==
    [dir |-> DefaultDir, fsTypes |-> {"ext4"}, minSize |-> DefaultScanMinSize,
     logLevel |-> None, debug |-> FALSE]

-----------------------------------------------------------------------------
(* Properties                                                              *)

\* A device that driver-init was told to label L passes driver-mounter --managed-only
\* --require-label L: whatever the type, mkfs keeps every label that validate lets through.
LabelRoundTrip ==
    \A d \in Dev \ Root : asked[d] # None /\ asked[d].label # None =>
        Passes([DefaultMount(d) EXCEPT !.managedOnly = TRUE, !.requireLabel = asked[d].label])

\* The defaults of the three commands agree, though each command has its own: what
\* driver-init makes without flags, driver-mounter mounts without flags, and driver-scan
\* lists it without flags as long as it is not mounted; once it is mounted at the default
\* base directory, if the filesystem reaches --min-size by itself.
DefaultsAgree ==
    \A d \in Dev \ Root : asked[d] = DefaultInit =>
        /\ MountValidate(DefaultMount(d)) /\ Passes(DefaultMount(d))
        /\ (\A m \in mounts : m.dev # d) =>
               [dev |-> d, status |-> "unmounted"] \in UnmountedRows(DefaultScan)
        /\ At(DefaultMount(d)) # {} /\ FsSize[d] >= DefaultScanMinSize =>
               [dev |-> d, status |-> "mounted"] \in MountedRows(DefaultScan)

\* The target directory is named by the identifier as it was typed, and a device answers to
\* several.  A device that was named by its filesystem UUID, as the README asks, is found
\* again: the identifier that driver-scan prints for it later is accepted by
\* driver-mounter --unmount and names the target it is mounted on.  (A mount by PARTUUID is
\* not found that way, and stays.)
UnmountFindsPrinted ==
    \A m \in mounts : m.uuid.kind = "fs" =>
        LET f == [DefaultMount(m.dev) EXCEPT !.mountPoint = [path |-> m.dir, slash |-> FALSE],
                                             !.unmount = TRUE]
        IN  MountValidate(f) /\ m \in At(f)

\* What the README says of driver-mounter: any filesystem that driver-init has made can
\* be named to it by the UUID that lsblk and driver-scan print.
MadeCanBeMounted ==
    \A d \in Dev \ Root : asked[d] # None => MountValidate(DefaultMount(d))
=============================================================================
