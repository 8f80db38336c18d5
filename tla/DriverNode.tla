----------------------------- MODULE DriverNode -----------------------------
(***************************************************************************)
(* One node on which driver-mounter, driver-init, driver-scan and udevd    *)
(* run side by side.  The drivers meet in the node only: what one of them  *)
(* changes (a disk, a mount, a directory), the others read through udev,   *)
(* lsblk and the mount table whenever they get there.                      *)
(*                                                                         *)
(* DeviceMounter, DiskInitializer and DeviceScanner each describe one      *)
(* driver among actors that they guess: a mounter next to somebody who     *)
(* formats blank devices, an initializer next to somebody who mounts.      *)
(* Here the actors are the real ones, and the guesses become properties.   *)
(***************************************************************************)
EXTENDS DeviceMounter

CONSTANTS
    Runner, MinSize, Xfs, BadDisk, MaxInitFaults,              \* of DiskInitializer
    Kind, FsSize, ScanMinSize, Foreign, MaxScanFaults,         \* of DeviceScanner
    Size                                                       \* of both

VARIABLES
    initPc, dryRun, targets, todo, initRes, initFaults,        \* of DiskInitializer
    formatted, unseen, raced, unsettled,
    scanPc, table, entries, mounted, unmounted, scanFaults,    \* of DeviceScanner
    steady, was

\* The mounter reckons with a format of any device.
ASSUME NodeAssumption ==
    /\ Formattable = Dev
    /\ Xfs \subseteq Runner
    /\ BadDisk \subseteq Dev
    /\ Size \in [Dev -> Nat] /\ FsSize \in [Dev -> Nat]
    /\ {MinSize, ScanMinSize, MaxInitFaults, MaxScanFaults} \subseteq Nat
    /\ Foreign \subseteq Uuid

\* The directories under the mount point mean nothing to driver-init.
Initializer ==
    INSTANCE DiskInitializer WITH
        pc <- initPc, res <- initRes, faults <- initFaults, dirs <- {},
        MaxFaults <- MaxInitFaults, InUse <- Dev

\* On this node nobody mounts anything outside --dir.
Scanner ==
    INSTANCE DeviceScanner WITH
        pc <- scanPc, faults <- scanFaults, elsewhere <- {},
        MaxFaults <- MaxScanFaults, MinSize <- ScanMinSize,
        Mountable <- Dev, Formattable <- Dev, Stray <- {}

mounterVars == <<pc, call, path, hasFs, res, faults, open, unguarded>>
initVars ==
    <<initPc, dryRun, targets, todo, initRes, initFaults, formatted, unseen, raced, unsettled>>
scanVars == <<scanPc, table, entries, mounted, unmounted, scanFaults>>
nodeVars == <<hostVars, mounterVars, disturbed, initVars, scanVars, steady, was>>

-----------------------------------------------------------------------------

NodeInit == Init /\ Initializer!Init /\ Scanner!Init

TargetsOf(d) == {u \in Uuid : \E i \in DOMAIN mounts[u] : mounts[u][i] = d}

Changed ==
    {d \in Dev : disk'[d] # disk[d] \/ udev'[d] # udev[d] \/ TargetsOf(d)' # TargetsOf(d)}

\* What the others do while a scan goes on.
ScannerNotices ==
    IF Changed = {}
      THEN UNCHANGED <<steady, was>>
      ELSE /\ steady' = steady \ Changed
           /\ was' = was \cup Scanner!Now'

\* A change of a disk or of udev's records may concern every running call.
MounterNotices ==
    IF disk' = disk /\ udev' = udev THEN UNCHANGED disturbed ELSE DisturbAll

OthersWait == ScannerNotices /\ UNCHANGED <<initVars, scanVars>>

MounterStep(p) == Step(p) /\ OthersWait

MounterRetry(p) == Retry(p) /\ OthersWait

MounterLeave(p) == Leave(p) /\ OthersWait

MounterOther(p) ==
    /\ \/ Call(p) \/ SkipGuardrail(p)
       \/ ProviderFails(p) \/ Crash(p)
    /\ OthersWait

InitializerStep(r) ==
    /\ \/ \E dry \in BOOLEAN : Initializer!Start(r, dry)
       \/ Initializer!Step(r) \/ Initializer!Finish(r)
       \/ Initializer!ProviderFails(r) \/ Initializer!Crash(r)
    /\ MounterNotices
    /\ ScannerNotices
    /\ UNCHANGED <<dirs, mounterVars, scanVars>>

\* At most one scan: the next one would start from the same empty state.
ScannerStep ==
    /\ Scanner!Scan \/ Scanner!ScanFails
    /\ scanPc' = "mountinfo" => scanPc = "idle"
    /\ UNCHANGED <<mounterVars, disturbed, initVars>>

UdevStep(d) == Udev(d) /\ OthersWait

NodeNext ==
    \/ \E p \in Proc : MounterStep(p) \/ MounterRetry(p) \/ MounterLeave(p) \/ MounterOther(p)
    \/ \E r \in Runner : InitializerStep(r)
    \/ ScannerStep
    \/ \E d \in Dev : UdevStep(d)

NodeSpec == NodeInit /\ [][NodeNext]_nodeVars

\* The fairness of the mounter; the other drivers may be run, and may stop anywhere.
NodeFairSpec ==
    /\ NodeSpec
    /\ \A p \in Proc : WF_nodeVars(MounterStep(p))
    /\ \A p \in Persistent : WF_nodeVars(MounterRetry(p)) /\ WF_nodeVars(MounterLeave(p))
    /\ \A d \in Dev : WF_nodeVars(UdevStep(d))

-----------------------------------------------------------------------------
(* Properties                                                              *)

\* Next to driver-init, the mounter sees nothing that its own specification does not
\* expect: one run after the other, without settle timeouts or kills, formats
\* blank devices only, and shows udev's new records one at a time.  Everything that
\* is true of DeviceMounter is then true on this node.
MounterUnharmed == Spec

\* Next to the mounter, driver-init sees a filesystem mounted only on a target that
\* it answers to, never a second time on the same target, and never a disk changed.
InitializerUnharmed == Initializer!Spec

\* A scan sees mounts come and go as its specification expects, each on a directory
\* that stays as long as the mount does, and only blank idle devices formatted.
ScannerUnharmed == Scanner!Spec
=============================================================================
