# cmd-drivers in TLA+

A verification project for the three drivers of `cmd-drivers`: specifications of what they do
on a node, TLC runs that check them on small nodes, and theorems that TLAPS proves for every
node. Paths below are relative to the repository.

## 1. The system

| Part | State | Operations | Hard behaviour |
|---|---|---|---|
| `driver-mounter` (`services/mounter.go`) | none of its own; what a call has read so far | `Mount`, `Unmount`, `checkNotRootDisk` | no lock: every provider call can interleave with other calls; kills; retries by the CSI caller |
| `driver-init` (`services/initializer.go`) | the list of targets of one run | `Init` | decides once from a listing, then formats for a long time; concurrent runs; `udevadm settle` can time out |
| `driver-scan` (`services/scanner.go`) | the report under construction | `ScanAll`, `ScanMounted`, `ScanUnmounted` | two pictures of the node taken at different moments |
| lsblk wrapper (`fsutils/lsblk.go`) | none | `GetBlockDevices` with a filter, `GetBlockDevice`, `GetUUID`, `FlattenDevices`, `FindRootDiskDescendants`, `And`, `Or`, `Not` | recursion over a forest in which a device can appear twice; two verdicts (skip, stop) |
| device resolver (`providers/device_resolver.go`) | none | `ResolveUUID` | two sources with different names for a device |
| format provider (`providers/format_provider.go`) | none | `Format` | mkfs, sync, settle: three effects, any of which can fail |
| mount, mountinfo and statfs providers (`providers/`) | none | wrappers of `k8s.io/mount-utils`, `mountinfo`, `statfs` | their errors |
| command lines (`cli/`, `fsutils/fstype.go`) | flags | `complete`, `validate`, `run` of the three commands; types and labels | what one command accepts, another must be able to use |
| display, logger, version, entry points | none | print | |
| the node (external) | disks, udev records, mount table, directories | mkfs, mount, umount, udevd, lsblk | udev lags behind the disks |

The parts interact through the node only. The drivers share no memory and no lock; each is a
process that makes provider calls, one after the other, and every call reads or changes the node.
`driver-init` writes filesystems that udev records later; `driver-mounter` and `driver-scan` see
those records through lsblk and the by-uuid symlinks. What makes the drivers correct:

* **mounter**: what is mounted at `<mount point>/<uuid>` is the device with that UUID; nothing is
  mounted twice; the root disk never is; `--managed-only` means the label at the moment of the
  mount; both operations are idempotent, and a caller that repeats a call is served in the end.
* **init**: only devices without a filesystem are written to; the report is true; every
  qualifying device is formatted in the end.
* **scan**: a device that does not change is reported exactly once; nothing is invented; the
  reported UUID is one that the mounter accepts for the device.
* **the three together**: each driver finds on the node only what it reckons with of the others.
* **command lines**: labels, types and defaults of one command fit those of the others.
* **lsblk wrapper**: the recursive walk, the lookup and the root-disk search return what their
  comments say.

The hazards behind these properties are listed, each at its line, in `PROJECT.json`.

## 2. Modules

| Module | Models | Built on |
|---|---|---|
| `BlockHost` | the node, and the searches of a listing that all drivers use | |
| `DeviceMounter` | `driver-mounter`, with the resolver, the guardrail and the mount provider | `BlockHost` |
| `MountContract` | abstract: mounts as atomic, idempotent operations | |
| `DiskInitializer` | `driver-init`, with the format provider | `BlockHost` |
| `DeviceScanner` | `driver-scan`, with the mountinfo and statfs providers | `BlockHost` |
| `DriverNode` | the three drivers and udevd side by side on one node | `DeviceMounter`, instances of `DiskInitializer` and `DeviceScanner` |
| `CommandLines` | the flags of the three commands, one command after the other | |
| `LsblkTree` | the functions of `fsutils/lsblk.go` on nested listings | |
| `BlockHost_proofs`, `DeviceMounter_proofs`, `MountContract_proofs`, `DiskInitializer_proofs`, `DeviceScanner_proofs`, `DriverNode_proofs`, `CommandLines_proofs`, `LsblkTree_proofs` | theorems | the module of the same name; `MountContract_proofs` holds what `DeviceMounter` owes its callers: the contract and the reasons of a refusal |
| `MC...` | small nodes, requests and flags for TLC | the module of the same name; `MCStackedHost` is `DeviceMounter` on nodes with LVM and RAID |

Definitions marked *Faulty variant* take no part in a specification. Each is a plausible mistake in
the code it stands next to, and replacing the definition by it makes the run that `PROJECT.json`
names fail: they show that the properties can fail.

### BlockHost

A device is the NAME that `lsblk --paths` prints. `disk[d]` is the filesystem on it (UUID and
label; both FSTYPE and UUID are empty without one), `udev[d]` what udev has recorded of it and
lsblk prints; `UdevRecords` brings one up to date at any time. `KernelPath[d]` is where the by-uuid
link leads: the same string for disks and partitions, `/dev/dm-N` for a device-mapper node. `Rows`
and `Top` are the listing in the order of `FlattenDevices`. `mounts[u]` is the stack of devices
mounted on `<mount point>/u`, `dirs` the existing directories.

`HostAssumption` says that the node is not ambiguous: no two devices carry the same UUID or
PARTUUID (a cloned disk would), and kernel paths are unique. `NamesAgree` and `RootOnOneDisk` are
*not* assumed; they are hypotheses of two theorems, and two runs show what happens without them.

### DeviceMounter

Every provider call is an action of a process `p`, and `pc[p]` names the call that comes next:

| `pc` | Action | Code |
|---|---|---|
| resolve | `ResolveBySymlink` | `device_resolver.go:26-31` |
| lookup | `ResolveByLsblk` | `device_resolver.go:33-45` |
| root | `CheckNotRootDisk`, `SkipGuardrail` | `mounter.go:130-162` |
| info | `ReadDeviceInfo` (with the label check) | `mounter.go:72-88` |
| mkdir | `MakeTarget` | `mounter.go:92` |
| check | `CheckTarget` (with the decision on the filesystem type) | `mounter.go:96-111` |
| mount | `MountDevice` | `mounter.go:120-125` |
| stat, ucheck, umount, rmdir | `StatTarget`, `CheckMounted`, `UnmountTarget`, `RemoveTarget` | `mounter.go:171-197` |

`ProviderFails` is an error of any of these calls, `Crash` a kill between two of them, `Retry` the
same command line again. `FormatBlank` and `Udev` are `driver-init` (or an operator who formats a
partition) and udevd at work meanwhile.
`open`, `unguarded` and `disturbed` are history variables: whether the guardrail of a call was
skipped, which devices such calls mounted, and whether another actor changed something that the
call depends on. `checkNotRootDisk` reads mountinfo and lsblk; as neither the root mount nor the
stacking of devices changes in the model, it is one step.

Abstracted: the filesystem type (a call either passes `--fs-type` or relies on lsblk; a wrong
`--fs-type` is an error of the mount), mount options, and two spellings of a UUID.

`held`, `ask` and `Status` map the state to that of `MountContract`: the topmost question a caller
can ask is whether its call took effect at one moment between its start and its return.

### DiskInitializer

One action per provider call: `Enumerate` (lsblk and the selection loop), `FormatNext` and
`FormatRefused` (mkfs), `Settle`, and `LoopEnds`. `Settle` either brings udev up to date or times
out, which counts as a fault. A run that is killed between mkfs and `Settle` leaves stale records.
`Xfs` are the runs whose mkfs refuses a device with a filesystem, `mkfs.xfs` without `-f`;
`mkfs.ext4` without a terminal, `mkfs.vfat` and `mkfs.ntfs` write over it. `MountFs` and `UnmountFs` are other users.
mkfs is atomic: a kill in the middle of mkfs, which leaves a device with half a filesystem, is not
modelled. A fresh UUID is one that nothing carries at that moment; UUIDs that have been overwritten
are used again, which keeps the model finite. `unsettled` and `raced` are history variables: the
devices whose settle has timed out or was never reached, and for each run those that another run was formatting
when it listed the node, or has formatted since.

### DeviceScanner

`ReadMounts` takes the mount table; `MeasureMount` (the size filter) and `DescribeMount` (`getUUID`)
ask about one mount at a time, in any order; `ListUnmounted` is the lsblk call with the filter and the
loop of `ScanUnmounted`. In between anything may happen to the node. `GetUUID` searches a second
listing when the first does not show the device; both searches are the same function of the
listing (`LookupFindsFirst` in `LsblkTree`) and devices do not appear or vanish here, so it is one
step. The sizes in a line and the order of the lines are left out. `Directory`
is the mounter's `MkdirAll` and `os.Remove`, which make the size filter fail for a mount whose directory
is gone. `Selected` states which devices a report is about; the rule that a device with children is left
out holds for disks only, so a loop device with partitions is listed itself.
`steady` and `was` are history
variables: the devices that nothing happened to, and what has been true during the scan.

### DriverNode

`DeviceMounter`, `DiskInitializer` and `DeviceScanner` each describe one driver among actors that they
guess: `FormatBlank` and `Udev` in the first, `MountFs` and `UnmountFs` in the second, all of these and
`Directory` in the third. In `DriverNode` the actors are the real ones, on one set of disks, udev
records, mounts and directories, and the guesses become properties: `MounterUnharmed`,
`InitializerUnharmed` and `ScannerUnharmed` say that the node, seen by one driver, does only what that
driver's specification allows. What is proved and checked of a driver alone then holds on the node.

A step of one driver is its own action and what the others *notice* of it: `MounterNotices` and
`ScannerNotices` keep their history variables (`disturbed`; `steady` and `was`), which no code reads.
`Changed` is the set of devices whose disk, record or mounts a step changes. One scan is made,
at any time: the next one would start from the same empty state.

`MounterUnharmed` needs runs of `driver-init` that follow one another and neither die nor
time out (`OrderlyInit` in the proofs, one runner and `MaxInitFaults = 0` in the run). Without it
the mounter's own guarantee is lost for devices that `driver-init` has formatted, which `Node_overwrite`
shows. The second half of `DriverNode_proofs` says what is left, with any number of runs that overlap, time out
and die: devices with old data are never written to and are only mounted at their own targets, no
guarded call mounts the root disk, and reports of both other drivers remain true.

### CommandLines

The flags of a command are a record; `InitValidate`, `MountValidate` and `ScanValidate` are `complete`
and `validate` of `cli/init_cmd.go`, `cli/mount.go` and `cli/scan.go`, the `...Command` operators what
`run` does with them. Each command runs to its end and finds udev settled, because what happens inside a
command and between commands that overlap is the subject of the other modules; `Format` may still
fail at any of its devices. The module is about what travels from one command to the next: the type and the
label that mkfs makes of the flags, the identifier that `uuid.Parse` lets through, the target directory
that is named by the identifier as it was typed, the defaults that each command has of its own.

Abstracted: a comma-separated list is the set of its entries (`None` is a blank one), a label is its name,
its length and whether it is within `A-Z0-9`, an identifier is the device it belongs to, whether it is the UUID
of the filesystem or the PARTUUID of the partition (of a GPT), and whether it is spelled as lsblk prints it, a path is a sequence of directories and whether it was typed with a slash at
the end. `--options` is left out: it only becomes an argument of mount(8). `asked` is a history variable.

### LsblkTree

The variable `below` is the stacking of the devices; TLC reaches every stacking of up to
`MaxDevice` devices, with every order of children and devices under several parents. A number
stands for a `BlockDevice` together with its `Children`, so that a listing is a sequence of numbers and
what is below each is in `below`; a device with two parents is reached, and printed, twice. The two
recursive functions of the code (`FlattenDevices`, `filterDeviceRecursive`) have one scheme, `Walk`:
what a device contributes itself, then what its children do, in order. `Walk` is a recursive function, not a RECURSIVE operator, and can be proved about. The properties compare the functions with
definitions that do not recurse (closed sets of devices, searches of the flattened listing). This
is what justifies `Rows`, `Top`, `FirstRow` and `FindRootDiskDescendants` in `BlockHost`, which work
on the flattened listing: `RootDiskExcluded`, `LookupFindsFirst` and `FilterKeepsRows` are the connection.

## 3. Runs

| Run | Checks | Node and bounds |
|---|---|---|
| `Mounter_race` | `TypeOK`, `RootDiskNeverMounted`, `TargetHoldsItsUuid`, `NoStacking`, `Inv`, `RefusalExplained`, `ManagedMountsLabelled`, `ImplementsContract` | two processes, 1 fault; a root disk with two partitions, a data disk, a disk with a blank partition that gets formatted |
| `Init_race` | `TypeOK`, `ProtectedUntouched`, `ReportTrue`, `OverwriteExplained`, `SettleProtects`, `AllGetFormatted` | two runners, the second one with xfs, 1 fault, 5 UUIDs, a disk that is mounted and unmounted once it has a filesystem; fairness |
| `Scan_report` | `TypeOK`, `SteadyReportedOnce`, `LinesWereTrue`, `ReportedUuidResolves` | a root disk with a data partition, a data disk, a disk with a blank partition; mounts under `--dir` and elsewhere, formatting with a type of `--fs-type` or another one, 1 fault |
| `Node_drivers` | `MounterUnharmed`, `InitializerUnharmed`, `ScannerUnharmed`, `PersistentCallServed` | a persistent mounter with 3 faults, runs of `driver-init` one after the other, one scan, udevd; a partitioned root disk, a data disk, a blank disk, 3 UUIDs; fairness |
| `Command_lines` | `LabelRoundTrip`, `DefaultsAgree`, `UnmountFindsPrinted` | three disks, one of them the root disk, and a partition with a filesystem; every type, labels of the longest allowed length, too long, or with other characters, both identifiers of the partition, two spellings, two base directories for one disk |
| `Tree_walk` | `LookupFindsFirst`, `RootDiskExcluded`, `StopPrunesBelow`, `FilterKeepsRows`, `CombinatorsAgree` | all stackings of 4 devices, all 256 filters, combined with one more |

Why the bounds are enough.

* **Mounter.** The races are between two calls on one target; a third adds no new pair of steps, and the
  safety properties are proved for any number. One fault lets a call fail or die while the other one is
  anywhere; its repetition can then meet what it left behind. The node has one device of each kind
  that the code tells apart: on the root disk, formatted, a blank partition with a PARTUUID.
* **Initializer.** Two blank disks for "one of several fails", one disk below the minimum, one with data, one
  with partitions; the other sizes are exactly the minimum, so an off-by-one shows. Two runs overlap in every
  way, and one fault is a kill, a failing tool or a settle that times out at any step; either alone leads to
  an overwrite. Five UUIDs are enough for a fresh one at every mkfs.
* **Scanner.** One device for each reason to list it or not, and a filesystem that is below the minimum on a
  device that is not.
* **Node.** The data disk and the two filesystems that the blank disk could get need three UUIDs: a second
  format of the blank disk, the overwrite that must not happen, is possible and would break
  `MounterUnharmed`. Three faults let a call fail, be killed and fail again. Faults of `driver-init` are left out because
  `Node_overwrite` shows what a single one does; faults of a scan change nothing for the others, and
  are in `Scan_report`.
* **Command lines.** A label within the limits, at the longest length, too long for ext4, and with other characters
  covers the cases of `ValidateLabel` and of `LabelRoom`. One disk has exactly the minimum size, so that its
  filesystem falls below it. The partition can be mounted by either identifier, or by both at once.
* **lsblk.** Four devices are enough for a RAID with a volume on it.

`ProcSymmetry` is used in `Mounter_race` only, whose properties are safety properties that treat the two
processes alike. The histories are bounded by `MaxFaults` and by the single scan of `Node_drivers`; everything else is finite
by itself.

Runs that end in a violation, on purpose, because the code does not do what a comment or the
README says (details in `PROJECT.json` under `findings`):

| Run | Shows |
|---|---|
| `Mounter_lvm_root` | a logical volume of the root disk passes the guardrail (`/dev/dm-N` is compared with `/dev/mapper/...`) |
| `Mounter_raid_root` | with `/` on a mirror, devices of the second disk pass the guardrail |
| `Init_bad_disk` | one disk on which mkfs fails keeps all later disks unformatted |
| `Node_overwrite` | a run of `driver-init` is killed before the settle, the next one formats the same disk again, and a `Mount` that has resolved the first UUID mounts the second filesystem at the first one's target |
| `Tree_stop` | a filter's `stop` keeps the walk from the children of the device only, while the comment says that the remaining devices are not processed |
| `Command_made_mounted` | a disk that `driver-init` formats with vfat or ntfs can never be named to `driver-mounter`: `uuid.Parse` refuses its identifier |

Smaller disagreements met while modelling, which no run is spent on:

* `Unmount` "removes the empty directory" (`services/mounter.go:164`), but not one that is there without a
  mount (`:180`), such as the directory left by a `Mount` that failed after `MkdirAll`.
* `Mount` is "idempotent" (`README.md:95`), but a `--managed-only` mount of a target that is already mounted fails when the
  label differs: the label is checked first (`services/mounter.go:84`, `:100`). `RefusalExplained` states the
  reasons for which `Mount` may say no, this one included.
* Without `--fs-type`, a formatted logical volume whose by-uuid link exists is "not found": its
  kernel path is no lsblk name (`services/mounter.go:75`, `fsutils/lsblk.go:267`).
* `Unmount` with another spelling of the UUID returns nil while the device stays mounted: the spelling names another
  directory (`cli/mount.go:78`, `services/mounter.go:171`).
* On an error `Init` returns all its targets, not "the list of device paths that were formatted"
  (`services/initializer.go:39`, `:85`). The command line drops the list.
* A device that is mounted between the two halves of a scan is in neither (`services/scanner.go:45`, `:52`).
  `SteadyReportedOnce` is therefore about devices that nothing happens to.
* `--min-size` is the "minimum device size" (`README.md:71`) for unmounted devices only; a mounted one is
  measured by its filesystem (`providers/mountinfo_provider.go:111`), so a device of the minimum size leaves the report
  when it is mounted. `SteadyReportedOnce` and `DefaultsAgree` state the selection as it is.
* A `--dir` with a slash at the end reports no mounts under it, and `/` only the root mount itself
  (`providers/mountinfo_provider.go:39`).
* A partition can be named by its PARTUUID too (`providers/device_resolver.go:39`), although `--uuid` is the
  "Filesystem UUID" (`README.md:103`): it then gets a second target under the same base directory, and `Unmount`
  with the UUID that `driver-scan` prints does not find that one. `UnmountFindsPrinted` is therefore about
  mounts by filesystem UUID.
* A loop device with partitions is listed as "not partitioned" (`services/scanner.go:127`).
* `Or` does not include every device that a filter passes (`fsutils/lsblk.go:465`) when a later filter stops; no
  filter in use both stops and is combined.

### Fairness

* A process that runs takes its next step (`WF` of `Step`, of `MounterStep` on the node): the kernel
  schedules it, and provider calls return. Faults are never fair; they are bounded by `MaxFaults`, because
  no promise survives an unbounded number of them.
* A *persistent* caller repeats a failed call and takes a result (`WF` of `Retry` and `Leave`), as
  kubelet does with CSI calls. Other callers owe nothing.
* udevd is running (`WF` of `Udev`). The repository's README requires it.
* `driver-init` is started again and again without `--dry-run` in `Init_race` (`SF` of `Start(r, FALSE)`, strong because
  dry runs may come in between). It is not a daemon; the property is about the job or the operator that
  runs it whenever disks are added. In `Node_drivers` neither `driver-init` nor a scan owes anything.

`PersistentCallServed` is checked for one process, next to real formats of the device it asks for. With one process
mounting and another unmounting the same target for ever neither need succeed, and the code does not
promise it.

## 4. Proofs

`tlapm` proves, for every value of the constants that satisfies the named assumptions:

| Theorem | Statement |
|---|---|
| `TypeCorrect` | `Spec => []TypeOK` (mounter) |
| `TargetSafe` | `Spec => []TargetHoldsItsUuid` |
| `NeverStacked` | `Spec => []NoStacking` |
| `LabelSafe` | `Spec => ManagedMountsLabelled` |
| `RootDiskSafe` | `Spec => []RootDiskNeverMounted`, if `NamesAgree` and `RootOnOneDisk` |
| `InvSafe` | `Spec => []Inv` |
| `ContractKept` | `Spec => ImplementsContract`: the mounter implements `MountContract` |
| `RefusalsExplained` | `Spec => []RefusalExplained`, if `NamesAgree` |
| `InitializerTypeCorrect` | `Spec => []TypeOK` (driver-init) |
| `ProtectedSafe` | `Spec => []ProtectedUntouched` |
| `ReportSafe` | `Spec => []ReportTrue` |
| `OverwritesExplained` | `Spec => OverwriteExplained` |
| `SettlesProtect` | `Spec => SettleProtects` |
| `ScanTypes` | `Spec => []TypeOK` (driver-scan) |
| `LinesTrue` | `Spec => []LinesWereTrue` |
| `UuidsResolve` | `Spec => []ReportedUuidResolves` |
| `SteadyOnce` | `Spec => []SteadyReportedOnce`, if every device has exactly one row |
| `MounterKept` | `NodeSpec => MounterUnharmed`, if `OrderlyInit` |
| `InitializerKept` | `NodeSpec => InitializerUnharmed`, if `OrderlyInit` |
| `ScannerKept` | `NodeSpec => ScannerUnharmed`, if `OrderlyInit` |
| `NodeTargetSafe` | `NodeSpec => []TargetHoldsItsUuid`, if `OrderlyInit` |
| `NodeContractKept` | `NodeSpec => ImplementsContract`, if `OrderlyInit` |
| `NodeLabelSafe` | `NodeSpec => ManagedMountsLabelled`, if `OrderlyInit` |
| `NodeRefusalsExplained` | `NodeSpec => []RefusalExplained`, if `OrderlyInit` and `NamesAgree` |
| `NodeRootDiskSafe` | `NodeSpec => []RootDiskNeverMounted`, if `NamesAgree` and `RootOnOneDisk` |
| `NodeProtectedSafe` | `NodeSpec => []Initializer!ProtectedUntouched` |
| `NodeOldDataAtItsTarget` | `NodeSpec =>` always: what is mounted of the protected devices answers to its target |
| `NodeReportSafe` | `NodeSpec => []Initializer!ReportTrue` |
| `NodeOverwritesExplained` | `NodeSpec => Initializer!OverwriteExplained` |
| `NodeSettlesProtect` | `NodeSpec => Initializer!SettleProtects` |
| `NodeLinesTrue` | `NodeSpec => []Scanner!LinesWereTrue` |
| `LabelsRoundTrip` | `Spec => []LabelRoundTrip` (command lines) |
| `PrintedUnmounts` | `Spec => []UnmountFindsPrinted` |
| `DefaultsFit` | `Spec => []DefaultsAgree` |
| `SpecLookupFindsFirst` | `Spec => []LookupFindsFirst` (lsblk wrapper) |
| `SpecRootDiskExcluded` | `Spec => []RootDiskExcluded` |
| `SpecStopPrunesBelow` | `Spec => []StopPrunesBelow` |
| `SpecFilterKeepsRows` | `Spec => []FilterKeepsRows` |
| `SpecCombinatorsAgree` | `Spec => []CombinatorsAgree` |

**The mounter.** None of the properties is inductive: nothing in `NoStacking` says that two
processes that both saw an unmounted target will not both mount. It is true because the two would
mount *the same device*, and the kernel refuses to put a device on top of itself. `Inv` makes
this precise. A call past resolution has the path of the device that carries its identifier
(`PathCarriesUuid`); at most one device does (`OneCarrier`), which mkfs preserves because it formats
blank devices with fresh UUIDs; udev's record is the disk's or still empty (`UdevFollows`), so that an
identifier or a label that has been read stays true (`PathLabelled`); what is mounted on a target carries
the target's identifier (`TargetHoldsItsUuid`), hence is the device that the second call has. The path of
a guarded call is not excluded (`PathGuarded`), which gives `RootDiskSafe` where names are paths and the
search finds the whole root disk (lemma `RootDiskFound`). TLC checks `Inv` in `Mounter_race`.

**The contract.** `ContractInv` adds to these that a call at a step of `Mount` is a mount (`OpKnown`) and that
what is mounted has its directory (`MountedOnDir`), so that an `Unmount` that finds no directory may return
nil. The effect of a call is the step of `CheckTarget` or `MountDevice`, of `StatTarget`, `CheckMounted`
or `UnmountTarget` that settles its answer; there is one lemma for each way a step looks to the contract
(it goes on, fails, is served, is lost).

**Refusals.** `UndisturbedInv` says what a call that no other actor has disturbed still finds as it left
it: its directory, the target mounted or not, the filesystem that lsblk showed. Lemma
`OtherLeavesOrDisturbs` is the interference argument: a step of another process leaves the target alone or sets
`disturbed`. At each refusal the device then has one of the reasons of `Refusable`, and every other device that
answers to the identifier is the same one. Without `NamesAgree` it is false: a logical
volume with a by-uuid link is refused as "not found" (see the list in section 3).

**The initializer.** Types already need that targets come from the listing (`TargetsBare`):
otherwise `Current` names nothing. `ProtectedInv` adds that udev's record of a device that had a
filesystem at the start is the disk's, also after a settle that timed out, so that no listing makes
such a device a target. `ReportInv` accounts, at each point of the loop, for what has been formatted:
the targets without what is left to do, and between mkfs and settle the current one as well.
`SeenInv` says that a device that a run is still going to format carries a filesystem only if the run's
listing did not show it; the step that overwrites is then the one `OverwriteExplained` describes.
`SettledInv` says where udev may lag behind a filesystem: at a device that a run has made and not yet settled, or whose settle
did not come (`unsettled`). A device that a run has yet to format and that carries a filesystem is one of these,
or was formatted while the run was under way (`raced`); so an overwrite is always one of the two.

**The scanner.** `Inv` says that what is true now has been recorded as true during the scan (`WasCurrent`) and that
each mount read, kept or reported was true when it was read (`ReadWasTrue`); a UUID, once udev has it, stays
with its device. `SteadyInv` follows one device that nothing happens to through the scan (`Tracked`): it is in the table,
the entries or the report exactly when it should be, and in the second half exactly when it is free.

**The node.** Each of the three theorems shows that every step of the node is a step, or a stutter, of one driver's
specification. `OrderlyInv` carries the first: with one run at a time and no faults, udev lags only behind
the device between its mkfs and its settle, and the devices a run has still to format are blank; so each
format is a `FormatBlank` and each settle the `Udev` of one device. From `MounterKept` the mounter's invariants hold on the
node; they make each mount a `MountFs` on an empty target of a device that answers to it, which gives
`InitializerKept`, and with `DirsAnswered` (a directory was made for a device) and `MountedOnDir` also `ScannerKept`.

**The node, however driver-init is run.** Where runs overlap, time out or are killed, the three refinements are
lost, and what is left is proved about `NodeSpec` itself, without `OrderlyInit`. `AnyRunsInv` has the types and says
that a run only selects bare devices that are large enough (`AnyRunSteps` is what a step of a run does to the
node). `OldDataInv` adds that udev's record of a protected device is the disk's, so that no listing, however stale,
makes one a target. `OldTargetsInv` follows such a device into the mounter: a call resolves it by its own
identifier only, and mounts it there; this is what remains of `TargetHoldsItsUuid` in the situation of
`Node_overwrite`. `PathGuarded` does not depend on what is on the disks, and gives `NodeRootDiskSafe`. `AccountInv` and
`SeenInv` are the initializer's account and excuse again, next to real mounts, and `SettledInv`
its argument for `SettleProtects`, of which the other drivers disturb nothing. `HistoryInv` is the scan's:
the other drivers change the mounts only together with its history.

**The lsblk wrapper.** The invariant, `ForestInv`, says that children are newer than their parents (`LeadsUp`),
which is what makes the recursion end. TLA+ defines a recursive function by `CHOOSE`, so the first thing to prove is
that there is one (`UnfoldingExists`): the set of the numbers of newest devices for which a partial solution
exists contains 0 and is closed under adding one more device. The same argument gives the running concatenation that
`FlattenSeq` chooses from (`PartialSumsExist`). Induction over a set of numbers needs no operator parameter
(`Upward`, `Downward`, from `WFMin` of the library's theorems). From there on `Walk` unfolds at every device
(`WalkUnfolds`) and returns what the devices it reaches contribute (`WalkReaches`); the closed sets of the
properties are what is reached past devices that do not stop (`AboveIsReached`). `LookupFindsFirst` and
`FilterKeepsRows` need the order too: filtering commutes with concatenation, hence with the walk, row by row
(`FilterDevicesForEach`), and a search that stops at its device loses only rows below it.

**The command lines.** `Kept`: what is on a formatted device is what mkfs makes of validated flags, a device is as large as
its command asked for, and every mount has a filesystem and is named by one of the two identifiers of its device, as
lsblk prints it. Formatting never changes a device that has a filesystem, so that the identifier which a mount
was named by stays the printed one and stays acceptable. `DefaultSizesAssumption` says that the two literals
for `--min-size` (`cli/init_cmd.go:130`, `cli/scan.go:146`) are equal; `DefaultsFit` rests on it.

Only model-checked: liveness (`AllGetFormatted`, `PersistentCallServed`), which is out of the prover's reach. Every
other property of the runs is a theorem. What is proved of the scanner alone is not stated again of the
node: `SteadyReportedOnce` and `ReportedUuidResolves` hold there for orderly runs because `ScannerKept` says
that the node implements `DeviceScanner`, but the prover does not carry a theorem through an instance, so that this
last step is the reader's.

## 5. Not modelled

* Decoding of lsblk's JSON (`CustomInt64`, `CustomBool`): sizes and flags arrive as numbers and Booleans. It is
  string conversion without state, and the only place where a negative size could appear.
* `--options` of `driver-mounter`, which only becomes an argument of mount(8), and the free and used space in
  a report.
* Display, logging, version, entry points: no state of the system. The mocks and loop-device helpers of the tests.
* A kill in the middle of mkfs, which leaves a device with half a filesystem: what lsblk then shows depends on mkfs,
  which is external. Devices that appear or vanish, and cloned disks: the code has no provision for them, and
  the identifiers would be ambiguous for every tool on the node.
* Several nodes: the drivers keep nothing outside the node they run on.
