--------------------------- MODULE DeviceMounter ---------------------------
(***************************************************************************)
(* driver-mounter: any number of processes, each running Mount or Unmount  *)
(* of services/mounter.go for one UUID, on one node.                       *)
(*                                                                         *)
(* The program takes no lock and keeps no state between calls: what a call *)
(* knows is what it read from udev, lsblk, mountinfo and the file system,  *)
(* one provider call after the other.  Every provider call is an action,   *)
(* so the calls of two processes interleave between any two of them; a     *)
(* provider may fail and a process may be killed (at most MaxFaults times  *)
(* in a behaviour), and the caller may ask again.                          *)
(***************************************************************************)
EXTENDS BlockHost

CONSTANTS
    Proc,        \* concurrent invocations of driver-mounter
    Persistent,  \* those whose caller repeats a call until it returns nil
    Requests,    \* command lines that pass the validation of cli/mount.go
    Formattable, \* devices that are formatted while the mounter runs
    MkfsLabel,   \* label that mkfs writes
    MaxFaults    \* bound on provider failures and kills

\* fsGiven: --fs-type was passed.  require: the --require-label of a
\* --managed-only call, None for a call without --managed-only.
ASSUME MounterAssumption ==
    /\ Persistent \subseteq Proc
    /\ Requests \subseteq [op : {"mount", "unmount"}, uuid : Uuid,
                           fsGiven : BOOLEAN, require : Label \cup {None}]
    /\ Formattable \subseteq Dev
    /\ MkfsLabel \in Label \cup {None}
    /\ MaxFaults \in Nat

VARIABLES
    pc,         \* pc[p]: the provider call p makes next
    call,       \* call[p]: the request p serves
    path,       \* path[p]: devicePath, once resolved
    hasFs,      \* hasFs[p]: devInfo.FSType # ""
    res,        \* res[p]: how the call ended
    faults,     \* provider failures and kills so far
    open,       \* history: the guardrail of p's call was skipped
    unguarded,  \* history: devices mounted by calls whose guardrail was skipped
    disturbed   \* history: another actor changed what p's call depends on

local  == <<pc, call, path, hasFs, res>>
ghosts == <<open, unguarded, disturbed>>
vars   == <<hostVars, local, faults, ghosts>>

MountStep   == {"resolve", "lookup", "root", "info", "mkdir", "check", "mount"}
UnmountStep == {"stat", "ucheck", "umount", "rmdir"}
Running     == MountStep \cup UnmountStep

\* "refused" and "broken" are both errors to the caller: "broken" is the error
\* of a provider that failed, "refused" every other one.  "killed": no result.
Outcome == {"none", "ok", "refused", "broken", "killed"}

NoCall == [op |-> "none", uuid |-> None, fsGiven |-> FALSE, require |-> None]

TypeOK ==
    /\ HostTypeOK
    /\ pc \in [Proc -> Running \cup {"idle", "done"}]
    /\ call \in [Proc -> Requests \cup {NoCall}]
    /\ path \in [Proc -> Path \cup {None}]
    /\ hasFs \in [Proc -> BOOLEAN]
    /\ res \in [Proc -> Outcome]
    /\ faults \in 0..MaxFaults
    /\ open \in [Proc -> BOOLEAN]
    /\ unguarded \subseteq Dev
    /\ disturbed \in [Proc -> BOOLEAN]

-----------------------------------------------------------------------------
(* Helpers                                                                 *)

Goto(p, step) == pc' = [pc EXCEPT ![p] = step] /\ UNCHANGED res

Return(p, outcome) ==
    /\ pc'  = [pc EXCEPT ![p] = "done"]
    /\ res' = [res EXCEPT ![p] = outcome]

\* The file-system objects under u changed, by a step of p.
Disturb(p, u) ==
    disturbed' = [q \in Proc |->
        disturbed[q] \/ (q # p /\ pc[q] # "idle" /\ call[q].uuid = u)]

\* What mount(8) refuses: a missing target, a device without a filesystem, and
\* a device on top of itself (EBUSY).
KernelAccepts(d, u) ==
    /\ u \in dirs
    /\ HasFs(disk[d])
    /\ mounts[u] # <<>> => TopMount(u) # d

-----------------------------------------------------------------------------
(* The caller                                                              *)

Start(p, c) ==
    /\ pc' = [pc EXCEPT ![p] = IF c.op = "mount" THEN "resolve" ELSE "stat"]
    /\ call' = [call EXCEPT ![p] = c]
    /\ path' = [path EXCEPT ![p] = None]
    /\ hasFs' = [hasFs EXCEPT ![p] = FALSE]
    /\ res' = [res EXCEPT ![p] = "none"]
    /\ open' = [open EXCEPT ![p] = FALSE]
    /\ disturbed' = [disturbed EXCEPT ![p] = FALSE]
    /\ UNCHANGED <<hostVars, faults, unguarded>>

Call(p) == pc[p] = "idle" /\ \E c \in Requests : Start(p, c)

\* The same command line again, after an error or a kill.
Retry(p) == pc[p] = "done" /\ res[p] # "ok" /\ Start(p, call[p])

Leave(p) ==
    /\ pc[p] = "done"
    /\ res[p] = "ok" \/ p \notin Persistent
    /\ pc' = [pc EXCEPT ![p] = "idle"]
    /\ call' = [call EXCEPT ![p] = NoCall]
    /\ path' = [path EXCEPT ![p] = None]
    /\ hasFs' = [hasFs EXCEPT ![p] = FALSE]
    /\ res' = [res EXCEPT ![p] = "none"]
    /\ open' = [open EXCEPT ![p] = FALSE]
    /\ disturbed' = [disturbed EXCEPT ![p] = FALSE]
    /\ UNCHANGED <<hostVars, faults, unguarded>>

-----------------------------------------------------------------------------
(* Mount                                                                   *)

\* ResolveUUID, fast path.  The link is there only for a device whose record
\* in udev has the UUID; it may be missing all the same (no /dev/disk in a
\* container), and then lsblk is asked.
ResolveBySymlink(p) ==
    /\ pc[p] = "resolve"
    /\ \/ \E d \in Dev :
            /\ udev[d].uuid = call[p].uuid
            /\ path' = [path EXCEPT ![p] = KernelPath[d]]
            /\ Goto(p, "root")
       \/ UNCHANGED path /\ Goto(p, "lookup")
    /\ UNCHANGED <<hostVars, call, hasFs, faults, ghosts>>

\* The listed devices with the UUID or PARTUUID u.
Candidates(u) == {d \in Dev : Listed(d) /\ Answers(d, u, udev)}

\* Faulty variants: an index that is off by one; the UUID taken for a path.
NameOfPrevious(u) == Rows[FirstRow(Candidates(u)) - 1]
NameIsUuid(u) == u

\* The first device of the flattened listing that has the identifier.
NameOfFirst(u) == Rows[FirstRow(Candidates(u))]

\* ResolveUUID, fallback.
ResolveByLsblk(p) ==
    /\ pc[p] = "lookup"
    /\ \/ /\ Candidates(call[p].uuid) # {}
          /\ path' = [path EXCEPT ![p] = NameOfFirst(call[p].uuid)]
          /\ Goto(p, "root")
       \/ /\ Candidates(call[p].uuid) = {}
          /\ Return(p, "refused")
          /\ UNCHANGED path
    /\ UNCHANGED <<hostVars, call, hasFs, faults, ghosts>>

CheckNotRootDisk(p) ==
    /\ pc[p] = "root"
    /\ IF path[p] \in FindRootDiskDescendants(RootSource)
         THEN Return(p, "refused")
         ELSE Goto(p, "info")
    /\ UNCHANGED <<hostVars, call, path, hasFs, faults, ghosts>>

\* mountinfo or lsblk failed: the guardrail fails open.
SkipGuardrail(p) ==
    /\ pc[p] = "root"
    /\ faults < MaxFaults
    /\ faults' = faults + 1
    /\ Goto(p, "info")
    /\ open' = [open EXCEPT ![p] = TRUE]
    /\ UNCHANGED <<hostVars, call, path, hasFs, unguarded, disturbed>>

\* Faulty variant: --require-label is not compared.
LabelIgnored(c, d) == TRUE

LabelAccepted(c, d) == c.require \in {None, udev[d].label}

\* GetBlockDevice, which compares the path with the NAME column, and the label
\* check; neither is made for a call that needs nothing of the device.
ReadDeviceInfo(p) ==
    LET c == call[p]
        needed == c.require # None \/ ~c.fsGiven
    IN
    /\ pc[p] = "info"
    /\ \/ /\ ~needed
          /\ Goto(p, "mkdir")
          /\ UNCHANGED hasFs
       \/ /\ needed /\ Listed(path[p]) /\ LabelAccepted(c, path[p])
          /\ hasFs' = [hasFs EXCEPT ![p] = HasFs(udev[path[p]])]
          /\ Goto(p, "mkdir")
       \/ /\ needed /\ (Listed(path[p]) => ~LabelAccepted(c, path[p]))
          /\ Return(p, "refused")
          /\ UNCHANGED hasFs
    /\ UNCHANGED <<hostVars, call, path, faults, ghosts>>

MakeTarget(p) ==
    /\ pc[p] = "mkdir"
    /\ dirs' = dirs \cup {call[p].uuid}
    /\ IF dirs' = dirs THEN UNCHANGED disturbed ELSE Disturb(p, call[p].uuid)
    /\ Goto(p, "check")
    /\ UNCHANGED <<disk, udev, mounts, call, path, hasFs, faults, open, unguarded>>

\* Faulty variant: Mount does not ask whether the target is mounted.
CheckNothing(p) ==
    /\ pc[p] = "check"
    /\ IF call[p].fsGiven \/ hasFs[p] THEN Goto(p, "mount") ELSE Return(p, "refused")
    /\ UNCHANGED <<hostVars, call, path, hasFs, faults, ghosts>>

\* IsLikelyNotMountPoint, and what the code decides from it.
CheckTarget(p) ==
    LET u == call[p].uuid IN
    /\ pc[p] = "check"
    /\ \/ u \notin dirs /\ Return(p, "refused")
       \/ u \in dirs /\ mounts[u] # <<>> /\ Return(p, "ok")
       \/ /\ u \in dirs /\ mounts[u] = <<>>
          /\ IF call[p].fsGiven \/ hasFs[p]
               THEN Goto(p, "mount")
               ELSE Return(p, "refused")
    /\ UNCHANGED <<hostVars, call, path, hasFs, faults, ghosts>>

MountDevice(p) ==
    LET u == call[p].uuid
        d == DeviceAt(path[p])
    IN
    /\ pc[p] = "mount"
    /\ \/ /\ KernelAccepts(d, u)
          /\ mounts' = [mounts EXCEPT ![u] = Append(@, d)]
          /\ unguarded' = IF open[p] THEN unguarded \cup {d} ELSE unguarded
          /\ Disturb(p, u)
          /\ Return(p, "ok")
       \/ /\ ~KernelAccepts(d, u)
          /\ Return(p, "refused")
          /\ UNCHANGED <<mounts, unguarded, disturbed>>
    /\ UNCHANGED <<disk, udev, dirs, call, path, hasFs, faults, open>>

-----------------------------------------------------------------------------
(* Unmount                                                                 *)

StatTarget(p) ==
    /\ pc[p] = "stat"
    /\ IF call[p].uuid \in dirs THEN Goto(p, "ucheck") ELSE Return(p, "ok")
    /\ UNCHANGED <<hostVars, call, path, hasFs, faults, ghosts>>

\* Faulty variants: the answer of IsLikelyNotMountPoint taken the wrong way
\* round; an unmounted target treated as an error.
CheckMountedInverted(p) ==
    /\ pc[p] = "ucheck"
    /\ IF mounts[call[p].uuid] # <<>> THEN Return(p, "ok") ELSE Goto(p, "umount")
    /\ UNCHANGED <<hostVars, call, path, hasFs, faults, ghosts>>

CheckMountedStrict(p) ==
    /\ pc[p] = "ucheck"
    /\ IF mounts[call[p].uuid] # <<>> THEN Goto(p, "umount") ELSE Return(p, "refused")
    /\ UNCHANGED <<hostVars, call, path, hasFs, faults, ghosts>>

\* IsLikelyNotMountPoint: an unmounted target is what Unmount is asked for.
CheckMounted(p) ==
    LET u == call[p].uuid IN
    /\ pc[p] = "ucheck"
    /\ \/ u \notin dirs /\ Return(p, "refused")
       \/ u \in dirs /\ mounts[u] = <<>> /\ Return(p, "ok")
       \/ u \in dirs /\ mounts[u] # <<>> /\ Goto(p, "umount")
    /\ UNCHANGED <<hostVars, call, path, hasFs, faults, ghosts>>

\* umount(8) through k8s.io/mount-utils, for which "not mounted" is no error; a target
\* that is gone is one.
UnmountTarget(p) ==
    LET u == call[p].uuid IN
    /\ pc[p] = "umount"
    /\ \/ /\ mounts[u] # <<>>
          /\ mounts' = [mounts EXCEPT ![u] = SubSeq(@, 1, Len(@) - 1)]
          /\ Disturb(p, u)
          /\ Goto(p, "rmdir")
       \/ /\ mounts[u] = <<>>
          /\ IF u \in dirs THEN Goto(p, "rmdir") ELSE Return(p, "refused")
          /\ UNCHANGED <<mounts, disturbed>>
    /\ UNCHANGED <<disk, udev, dirs, call, path, hasFs, faults, open, unguarded>>

\* os.Remove is best effort: a busy directory stays, and the call succeeds.
RemoveTarget(p) ==
    LET u == call[p].uuid IN
    /\ pc[p] = "rmdir"
    /\ \/ /\ u \in dirs /\ mounts[u] = <<>>
          /\ dirs' = dirs \ {u}
          /\ Disturb(p, u)
       \/ /\ u \notin dirs \/ mounts[u] # <<>>
          /\ UNCHANGED <<dirs, disturbed>>
    /\ Return(p, "ok")
    /\ UNCHANGED <<disk, udev, mounts, call, path, hasFs, faults, open, unguarded>>

-----------------------------------------------------------------------------
(* Failures, and the rest of the node                                      *)

\* The provider that p calls returns an error and has done nothing.  A failing
\* os.Remove is only logged; a failing mountinfo is SkipGuardrail; a symlink
\* that cannot be read is ResolveBySymlink; os.Stat only matters for NotExist.
ProviderFails(p) ==
    /\ pc[p] \in Running \ {"resolve", "root", "stat"}
    /\ faults < MaxFaults
    /\ faults' = faults + 1
    /\ Return(p, IF pc[p] = "rmdir" THEN "ok" ELSE "broken")
    /\ UNCHANGED <<hostVars, call, path, hasFs, ghosts>>

Crash(p) ==
    /\ pc[p] \in Running
    /\ faults < MaxFaults
    /\ faults' = faults + 1
    /\ Return(p, "killed")
    /\ UNCHANGED <<hostVars, call, path, hasFs, ghosts>>

DisturbAll == disturbed' = [q \in Proc |-> disturbed[q] \/ pc[q] # "idle"]

\* driver-init formats a bare disk, or an operator a partition, that has no
\* filesystem.
FormatBlank(d) ==
    /\ ~HasFs(disk[d])
    /\ \E u \in Uuid : Mkfs(d, u, MkfsLabel)
    /\ DisturbAll
    /\ UNCHANGED <<udev, mounts, dirs, local, faults, open, unguarded>>

Udev(d) ==
    /\ UdevRecords(d)
    /\ DisturbAll
    /\ UNCHANGED <<disk, mounts, dirs, local, faults, open, unguarded>>

-----------------------------------------------------------------------------

Init ==
    /\ HostInit
    /\ pc = [p \in Proc |-> "idle"]
    /\ call = [p \in Proc |-> NoCall]
    /\ path = [p \in Proc |-> None]
    /\ hasFs = [p \in Proc |-> FALSE]
    /\ res = [p \in Proc |-> "none"]
    /\ faults = 0
    /\ open = [p \in Proc |-> FALSE]
    /\ unguarded = {}
    /\ disturbed = [p \in Proc |-> FALSE]

Step(p) ==
    \/ ResolveBySymlink(p) \/ ResolveByLsblk(p) \/ CheckNotRootDisk(p)
    \/ ReadDeviceInfo(p) \/ MakeTarget(p) \/ CheckTarget(p) \/ MountDevice(p)
    \/ StatTarget(p) \/ CheckMounted(p) \/ UnmountTarget(p) \/ RemoveTarget(p)

Next ==
    \/ \E p \in Proc :
          \/ Call(p) \/ Retry(p) \/ Leave(p)
          \/ Step(p) \/ SkipGuardrail(p) \/ ProviderFails(p) \/ Crash(p)
    \/ \E d \in Formattable : FormatBlank(d)
    \/ \E d \in Dev : Udev(d)

Spec == Init /\ [][Next]_vars

\* A running process goes on, a persistent caller repeats a failed call and
\* takes the result of one that succeeded, udevd is running.
FairSpec ==
    /\ Spec
    /\ \A p \in Proc : WF_vars(Step(p))
    /\ \A p \in Persistent : WF_vars(Retry(p)) /\ WF_vars(Leave(p))
    /\ \A d \in Dev : WF_vars(Udev(d))

-----------------------------------------------------------------------------
(* Properties                                                              *)

\* services/mounter.go:57 and the root-disk note of README.md: no device of
\* the disk that hosts "/" is ever mounted, except by a call whose guardrail
\* could not read mountinfo or lsblk and failed open.
RootDiskNeverMounted ==
    \A d \in RootDiskDevices : Mounted(d) => d \in unguarded

\* What is mounted on <mount point>/u is the device that carries u now, however
\* calls, formats and udev interleaved since the UUID was resolved.
TargetHoldsItsUuid ==
    \A u \in Uuid : \A i \in DOMAIN mounts[u] : Answers(mounts[u][i], u, disk)

\* Two calls that both saw an unmounted target do not both mount on it: an
\* unmount that succeeded would otherwise leave the target mounted.
NoStacking == \A u \in Uuid : Len(mounts[u]) <= 1

\* With --managed-only, what gets mounted has the required label at that
\* moment, not only when the label was read.
MountsWhatIsLabelled(p) ==
    LET u == call[p].uuid IN
    pc[p] = "mount" /\ pc'[p] = "done" /\ res'[p] = "ok" /\ call[p].require # None =>
        /\ mounts'[u] # <<>>
        /\ disk[Head(mounts'[u])].label = call[p].require

ManagedMountsLabelled == [][\A p \in Proc : MountsWhatIsLabelled(p)]_vars

\* The reasons for which Mount may say no: nothing with that identifier, a
\* device of the root disk, the wrong label, no filesystem.
Refusable(c) ==
    /\ c.op = "mount"
    /\ \A d \in Dev : Answers(d, c.uuid, udev) =>
          \/ d \in RootDiskDevices
          \/ c.require \notin {None, udev[d].label}
          \/ ~HasFs(udev[d])

\* Both operations are idempotent (README.md:95): with no failing provider and
\* no other actor touching the target, a call returns nil whether its target
\* is mounted, unmounted, or left over from a call that was killed half way,
\* unless Mount has a reason to refuse the device.
RefusalExplained ==
    \A p \in Proc :
        pc[p] = "done" /\ res[p] = "refused" /\ ~disturbed[p] => Refusable(call[p])

Servable(c) ==
    \/ c.op = "unmount"
    \/ \E d \in Dev :
          /\ Answers(d, c.uuid, disk) /\ HasFs(disk[d])
          /\ d \notin RootDiskDevices
          /\ c.require \in {None, disk[d].label}

\* A caller that repeats its call, as kubelet does with a CSI call, gets a nil
\* in the end: failures, kills and half-done calls leave nothing behind that
\* makes every later attempt fail.
PersistentCallServed ==
    \A p \in Persistent :
        (pc[p] # "idle" /\ Servable(call[p])) ~> (pc[p] = "idle")

-----------------------------------------------------------------------------
(* The inductive invariant behind the safety properties                    *)

\* The steps of Mount at which devicePath is known.
Resolved == {"root", "info", "mkdir", "check", "mount"}

CallKnown == \A p \in Proc : pc[p] # "idle" => call[p] \in Requests

PathNamesDevice ==
    \A p \in Proc : pc[p] \in Resolved => \E d \in Dev : path[p] \in {d, KernelPath[d]}

\* Past the guardrail, the path is not one that the guardrail excludes.
PathGuarded ==
    \A p \in Proc :
        pc[p] \in Resolved \ {"root"} =>
            open[p] \/ path[p] \notin FindRootDiskDescendants(RootSource)

\* A record of udev is that of the disk, or there is none yet.
UdevFollows ==
    \A d \in Dev : /\ HasFs(disk[d]) \/ disk[d] = Blank
                   /\ udev[d] \in {disk[d], Blank}

\* No two devices carry the same identifier.
OneCarrier ==
    \A u \in Uuid : \A d, e \in Dev : Answers(d, u, disk) /\ Answers(e, u, disk) => d = e

\* What a call has read of its device stays true until it mounts it.
PathCarriesUuid ==
    \A p \in Proc : pc[p] \in Resolved => Answers(DeviceAt(path[p]), call[p].uuid, disk)

PathLabelled ==
    \A p \in Proc :
        pc[p] \in {"mkdir", "check", "mount"} /\ call[p].require # None =>
            disk[DeviceAt(path[p])].label = call[p].require

\* The inductive invariant of Mount and Unmount: what a call has read of the node
\* (which device carries the UUID, its label, its distance from the root disk)
\* still holds whatever else has happened since, up to the mount.
Inv ==
    /\ CallKnown /\ PathNamesDevice /\ PathGuarded
    /\ UdevFollows /\ OneCarrier /\ PathCarriesUuid /\ PathLabelled
    /\ TargetHoldsItsUuid /\ NoStacking

-----------------------------------------------------------------------------
(* What a call promises, as an atomic operation on a set of mounts         *)

held == [u \in Uuid |-> IF mounts[u] = <<>> THEN None ELSE Head(mounts[u])]

ask == [p \in Proc |-> [op |-> call[p].op, uuid |-> call[p].uuid]]

\* Unmount has had its effect before os.Remove.
Status(p) ==
    CASE pc[p] = "idle"                        -> "idle"
      [] pc[p] = "done" /\ res[p] = "ok"       -> "served"
      [] pc[p] = "done" /\ res[p] = "killed"   -> "lost"
      [] pc[p] = "done" /\ res[p] \notin {"ok", "killed"} -> "failed"
      [] pc[p] = "rmdir"                       -> "served"
      [] OTHER                                 -> "open"

Contract ==
    INSTANCE MountContract WITH status <- [p \in Proc |-> Status(p)]

\* A call takes effect at one moment between its start and its return: nil from
\* Mount means that the target was mounted at that moment, nil from Unmount that
\* it was not, an error that nothing changed.
ImplementsContract == Contract!Spec
=============================================================================
