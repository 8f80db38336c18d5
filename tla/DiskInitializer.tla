-------------------------- MODULE DiskInitializer --------------------------
(***************************************************************************)
(* driver-init: any number of processes, each running Init of              *)
(* services/initializer.go, on one node.                                   *)
(*                                                                         *)
(* Init decides from one lsblk listing, taken when it starts, which        *)
(* devices it formats, and then formats them one after the other in the    *)
(* order of the listing.  The listing shows what udev has recorded, not    *)
(* what is on the disks; `udevadm settle` after each mkfs is what keeps    *)
(* the two together.  The list of targets is kept as a set: its order is   *)
(* the order of the rows.                                                  *)
(***************************************************************************)
EXTENDS BlockHost

CONSTANTS
    Runner,      \* concurrent invocations of driver-init
    Size,        \* Size[d]: bytes, as lsblk reports them
    MinSize,     \* --min-size
    MkfsLabel,   \* --label, or None
    Xfs,         \* those with --fs-type xfs, whose mkfs refuses a filesystem
    BadDisk,     \* devices on which every mkfs fails
    InUse,       \* devices that something mounts and unmounts meanwhile
    MaxFaults    \* bound on provider failures, settle timeouts and kills

ASSUME InitializerAssumption ==
    /\ Size \in [Dev -> Nat]
    /\ MinSize \in Nat
    /\ MkfsLabel \in Label \cup {None}
    /\ Xfs \subseteq Runner
    /\ BadDisk \subseteq Dev
    /\ InUse \subseteq Dev
    /\ MaxFaults \in Nat

VARIABLES
    pc,         \* pc[r]: the provider call r makes next
    dryRun,     \* dryRun[r]: --dry-run
    targets,    \* targets[r]: the devices Init selected
    todo,       \* todo[r]: those of them the loop has not reached or finished
    res,        \* res[r]: how the run ended
    faults,     \* failures so far
    formatted,  \* history: devices on which mkfs succeeded in r's run
    unseen,     \* history: devices whose content r's listing did not show
    raced,      \* history: devices another run was formatting at r's listing, or since
    unsettled   \* history: devices whose settle timed out or was never reached

local == <<pc, dryRun, targets, todo, res>>
history == <<formatted, unseen, raced, unsettled>>
vars  == <<hostVars, local, faults, history>>

TypeOK ==
    /\ HostTypeOK
    /\ pc \in [Runner -> {"idle", "lsblk", "mkfs", "settle", "done"}]
    /\ dryRun \in [Runner -> BOOLEAN]
    /\ targets \in [Runner -> SUBSET Dev]
    /\ todo \in [Runner -> SUBSET Dev]
    /\ \A r \in Runner : todo[r] \subseteq targets[r]
    /\ res \in [Runner -> {"none", "ok", "error", "killed"}]
    /\ faults \in 0..MaxFaults
    /\ formatted \in [Runner -> SUBSET Dev]
    /\ unseen \in [Runner -> SUBSET Dev]
    /\ raced \in [Runner -> SUBSET Dev]
    /\ unsettled \subseteq Dev

-----------------------------------------------------------------------------
(* Helpers                                                                 *)

Goto(r, step) == pc' = [pc EXCEPT ![r] = step] /\ UNCHANGED res

Return(r, outcome) ==
    /\ pc'  = [pc EXCEPT ![r] = "done"]
    /\ res' = [res EXCEPT ![r] = outcome]

Fault == faults < MaxFaults /\ faults' = faults + 1

\* A top-level device without children.
Bare(d) ==
    \E k \in DOMAIN Rows :
        /\ Rows[k] = d
        /\ \A j \in DOMAIN Rows : Top[j] = Top[k] => j = k

\* Faulty variants of the selection: a check left out, a bound that excludes.
PartitionsOverlooked == {d \in Dev : ~HasFs(udev[d]) /\ ~Mounted(d) /\ Size[d] >= MinSize}
FilesystemOverlooked == {d \in Dev : Bare(d) /\ ~Mounted(d) /\ Size[d] >= MinSize}
MinSizeExcluded ==
    {d \in Dev : Bare(d) /\ ~HasFs(udev[d]) /\ ~Mounted(d) /\ Size[d] > MinSize}

\* The loop of Init that selects the targets.
Unformatted ==
    {d \in Dev : Bare(d) /\ ~HasFs(udev[d]) /\ ~Mounted(d) /\ Size[d] >= MinSize}

Current(r) == Rows[FirstRow(todo[r])]

-----------------------------------------------------------------------------
(* One run                                                                 *)

Reset(r, step, dry) ==
    /\ pc' = [pc EXCEPT ![r] = step]
    /\ dryRun' = [dryRun EXCEPT ![r] = dry]
    /\ targets' = [targets EXCEPT ![r] = {}]
    /\ todo' = [todo EXCEPT ![r] = {}]
    /\ res' = [res EXCEPT ![r] = "none"]
    /\ formatted' = [formatted EXCEPT ![r] = {}]
    /\ unseen' = [unseen EXCEPT ![r] = {}]
    /\ raced' = [raced EXCEPT ![r] = {}]
    /\ UNCHANGED <<hostVars, faults, unsettled>>

Start(r, dry) == pc[r] = "idle" /\ Reset(r, "lsblk", dry)

Finish(r) == pc[r] = "done" /\ Reset(r, "idle", FALSE)

Enumerate(r) ==
    /\ pc[r] = "lsblk"
    /\ targets' = [targets EXCEPT ![r] = Unformatted]
    /\ todo' = [todo EXCEPT ![r] = Unformatted]
    /\ unseen' = [unseen EXCEPT ![r] = {d \in Dev : udev[d] # disk[d]}]
    /\ raced' = [raced EXCEPT ![r] = {Current(q) : q \in {q \in Runner : pc[q] = "settle"}}]
    /\ Goto(r, "mkfs")
    /\ UNCHANGED <<hostVars, dryRun, faults, formatted, unsettled>>

\* Faulty variant: --dry-run is not looked at.
DryRunFormats(r) == todo[r] # {}

\* The head of the format loop; a dry run formats none of the targets.
Formats(r) == todo[r] # {} /\ ~dryRun[r]

LoopEnds(r) ==
    /\ pc[r] = "mkfs" /\ ~Formats(r)
    /\ Return(r, "ok")
    /\ UNCHANGED <<hostVars, dryRun, targets, todo, faults, history>>

\* mkfs refuses a mounted device; mkfs.xfs, which Format runs without -f, also one
\* that carries a filesystem; the others write over it.
MkfsAccepts(r, d) ==
    /\ d \notin BadDisk
    /\ ~Mounted(d)
    /\ r \in Xfs => ~HasFs(disk[d])

\* Faulty variant: mkfs -L is given the device.
DeviceAsLabel(r) ==
    LET d == Current(r) IN
    /\ pc[r] = "mkfs" /\ Formats(r)
    /\ MkfsAccepts(r, d)
    /\ \E u \in Uuid : Mkfs(d, u, IF MkfsLabel = None THEN None ELSE d)
    /\ formatted' = [formatted EXCEPT ![r] = @ \cup {d}]
    /\ unseen' = [q \in Runner |-> IF q = r THEN unseen[q] ELSE unseen[q] \cup {d}]
    /\ raced' = [q \in Runner |-> IF q = r THEN raced[q] ELSE raced[q] \cup {d}]
    /\ Goto(r, "settle")
    /\ UNCHANGED <<udev, mounts, dirs, dryRun, targets, todo, faults, unsettled>>

FormatNext(r) ==
    LET d == Current(r) IN
    /\ pc[r] = "mkfs" /\ Formats(r)
    /\ MkfsAccepts(r, d)
    /\ \E u \in Uuid : Mkfs(d, u, MkfsLabel)
    /\ formatted' = [formatted EXCEPT ![r] = @ \cup {d}]
    /\ unseen' = [q \in Runner |-> IF q = r THEN unseen[q] ELSE unseen[q] \cup {d}]
    /\ raced' = [q \in Runner |-> IF q = r THEN raced[q] ELSE raced[q] \cup {d}]
    /\ Goto(r, "settle")
    /\ UNCHANGED <<udev, mounts, dirs, dryRun, targets, todo, faults, unsettled>>

\* Format returns an error; Init returns it and the list of all its targets.
FormatRefused(r) ==
    /\ pc[r] = "mkfs" /\ Formats(r)
    /\ ~MkfsAccepts(r, Current(r))
    /\ Return(r, "error")
    /\ UNCHANGED <<hostVars, dryRun, targets, todo, faults, history>>

\* Faulty variant: no `udevadm settle` after mkfs.
NoSettle(r) ==
    /\ pc[r] = "settle"
    /\ todo' = [todo EXCEPT ![r] = @ \ {Current(r)}]
    /\ Goto(r, "mkfs")
    /\ UNCHANGED <<hostVars, dryRun, targets, faults, history>>

\* udevd has worked off its queue, or five seconds have passed: Format only logs
\* a warning then.
Settle(r) ==
    /\ pc[r] = "settle"
    /\ \/ udev' = disk /\ UNCHANGED <<faults, unsettled>>
       \/ Fault /\ unsettled' = unsettled \cup {Current(r)} /\ UNCHANGED udev
    /\ todo' = [todo EXCEPT ![r] = @ \ {Current(r)}]
    /\ Goto(r, "mkfs")
    /\ UNCHANGED <<disk, mounts, dirs, dryRun, targets, formatted, unseen, raced>>

\* lsblk or mkfs fails, and has changed nothing.
ProviderFails(r) ==
    /\ pc[r] = "lsblk" \/ (pc[r] = "mkfs" /\ Formats(r))
    /\ Fault
    /\ Return(r, "error")
    /\ UNCHANGED <<hostVars, dryRun, targets, todo, history>>

Crash(r) ==
    /\ pc[r] \in {"lsblk", "mkfs", "settle"}
    /\ Fault
    /\ Return(r, "killed")
    /\ unsettled' = IF pc[r] = "settle" THEN unsettled \cup {Current(r)} ELSE unsettled
    /\ UNCHANGED <<hostVars, dryRun, targets, todo, formatted, unseen, raced>>

-----------------------------------------------------------------------------
(* The rest of the node                                                    *)

Udev(d) ==
    /\ UdevRecords(d)
    /\ UNCHANGED <<disk, mounts, dirs, local, faults, history>>

\* Somebody mounts the filesystem on d, on a target that it answers to.
MountFs(d) ==
    /\ HasFs(disk[d])
    /\ \E u \in Uuid :
          /\ Answers(d, u, disk) /\ mounts[u] = <<>>
          /\ mounts' = [mounts EXCEPT ![u] = Append(@, d)]
    /\ UNCHANGED <<disk, udev, dirs, local, faults, history>>

UnmountFs(d) ==
    /\ \E u \in Uuid :
          /\ mounts[u] # <<>> /\ TopMount(u) = d
          /\ mounts' = [mounts EXCEPT ![u] = SubSeq(@, 1, Len(@) - 1)]
    /\ UNCHANGED <<disk, udev, dirs, local, faults, history>>

-----------------------------------------------------------------------------

Init ==
    /\ HostInit
    /\ pc = [r \in Runner |-> "idle"]
    /\ dryRun = [r \in Runner |-> FALSE]
    /\ targets = [r \in Runner |-> {}]
    /\ todo = [r \in Runner |-> {}]
    /\ res = [r \in Runner |-> "none"]
    /\ faults = 0
    /\ formatted = [r \in Runner |-> {}]
    /\ unseen = [r \in Runner |-> {}]
    /\ raced = [r \in Runner |-> {}]
    /\ unsettled = {}

Step(r) ==
    Enumerate(r) \/ LoopEnds(r) \/ FormatNext(r) \/ FormatRefused(r) \/ Settle(r)

Next ==
    \/ \E r \in Runner :
          \/ \E dry \in BOOLEAN : Start(r, dry)
          \/ Step(r) \/ ProviderFails(r) \/ Crash(r) \/ Finish(r)
    \/ \E d \in Dev : Udev(d)
    \/ \E d \in InUse : MountFs(d) \/ UnmountFs(d)

Spec == Init /\ [][Next]_vars

\* A run goes on, driver-init is run again and again, and not always with
\* --dry-run (a job on the node, or an operator who adds disks), udevd is running.
FairSpec ==
    /\ Spec
    /\ \A r \in Runner : WF_vars(Step(r)) /\ WF_vars(Finish(r)) /\ SF_vars(Start(r, FALSE))
    /\ \A d \in Dev : WF_vars(Udev(d))

-----------------------------------------------------------------------------
(* Properties                                                              *)

\* A device that is partitioned, too small, or carried a filesystem before the
\* drivers were run is never written to, whatever fails and whoever else runs.
Protected == {d \in Dev : ~Bare(d) \/ Size[d] < MinSize \/ HasFs(Disk0[d])}

ProtectedUntouched == \A d \in Protected : disk[d] = Disk0[d]

\* A filesystem is only ever overwritten by a run whose listing could not show
\* it: udev lagged behind the disk when lsblk ran, or another run wrote it since.
OverwriteExplained ==
    [][\A d \in Dev : disk'[d] # disk[d] /\ HasFs(disk[d]) =>
         \E r \in Runner : pc[r] = "mkfs" /\ pc'[r] = "settle" /\ d \in unseen[r]]_vars

\* The settle after each mkfs is what keeps runs apart: a filesystem is only overwritten
\* when the settle of its device has timed out or was cut short by a kill, or by a run
\* that overlapped with the formatting of that device.
SettleProtects ==
    [][\A d \in Dev : disk'[d] # disk[d] /\ HasFs(disk[d]) =>
         \/ d \in unsettled
         \/ \E r \in Runner : pc[r] = "mkfs" /\ pc'[r] = "settle" /\ d \in raced[r]]_vars

\* The list that Init returns with a nil error names exactly the devices it has
\* formatted, each of which carries a filesystem now; in a dry run it has
\* formatted none and names those it found unformatted.
ReportTrue ==
    \A r \in Runner :
        pc[r] = "done" /\ res[r] = "ok" =>
            /\ formatted[r] = (IF dryRun[r] THEN {} ELSE targets[r])
            /\ \A d \in formatted[r] : HasFs(disk[d])

\* services/initializer.go:36: "Init finds all unformatted disks that meet the
\* size threshold and formats them".  With driver-init run again and again,
\* every such disk that mkfs can format has a filesystem in the end.
AllGetFormatted ==
    \A d \in Dev \ BadDisk : Bare(d) /\ Size[d] >= MinSize => <>HasFs(disk[d])
=============================================================================
