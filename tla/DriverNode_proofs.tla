-------------------------- MODULE DriverNode_proofs --------------------------
(***************************************************************************)
(* Proofs about DriverNode, for every node, every number of mounting       *)
(* processes and any scan.  The first part is what each driver keeps for   *)
(* the others as long as driver-init is run in an orderly way; the second  *)
(* part is what remains true however driver-init is run: with runs that    *)
(* overlap, that time out and that are killed.                             *)
(***************************************************************************)
EXTENDS DriverNode, MountContract_proofs

\* One run of driver-init after the other.
OneRun == \A q, r \in Runner : q = r

\* And without settle timeouts or kills.
OrderlyInit == Runner # {} /\ OneRun /\ MaxInitFaults = 0

\* What r has selected and not begun to format.
Waiting(r) == IF initPc[r] = "settle" THEN todo[r] \ {Initializer!Current(r)} ELSE todo[r]

NodeTypeOK ==
    /\ disk \in [Dev -> Content]
    /\ udev \in [Dev -> Content]
    /\ initPc \in [Runner -> {"idle", "lsblk", "mkfs", "settle", "done"}]
    /\ todo \in [Runner -> SUBSET Dev]
    /\ initFaults = 0
    /\ \A r \in Runner : \A d \in todo[r] : Initializer!Bare(d)
    /\ \A r \in Runner : initPc[r] = "settle" => todo[r] # {}

\* udev lags only behind the device that a run has just formatted, and no device
\* that waits to be formatted has a filesystem.
OrderlyInv ==
    /\ NodeTypeOK
    /\ \A d \in Dev : udev[d] # disk[d] =>
          \E r \in Runner : initPc[r] = "settle" /\ d = Initializer!Current(r)
    /\ \A r \in Runner :
          initPc[r] \in {"mkfs", "settle"} => \A d \in Waiting(r) : ~HasFs(disk[d])

\* At the start udev is up to date and nothing waits.
LEMMA InitOrderly ==
    ASSUME NodeInit
    PROVE  OrderlyInv
<1>1. disk = Disk0 /\ udev = Disk0 /\ initFaults = 0
      /\ initPc = [r \in Runner |-> "idle"] /\ todo = [r \in Runner |-> {}]
    BY DEF NodeInit, Init, HostInit, Initializer!Init
<1> QED BY <1>1, HostAssumption DEF OrderlyInv, NodeTypeOK

\* The device that the format loop has reached.
LEMMA CurrentWaits ==
    ASSUME NodeTypeOK, NEW r \in Runner, todo[r] # {}
    PROVE  Initializer!Current(r) \in todo[r] /\ Initializer!Current(r) \in Dev
<1>1. \E k \in DOMAIN Rows : Rows[k] \in todo[r]
    BY DEF NodeTypeOK, Initializer!Bare
<1> QED BY <1>1, FirstRowFound DEF Initializer!Current, Initializer!FirstRow, FirstRow, NodeTypeOK

-----------------------------------------------------------------------------
(* The steps of driver-init                                                *)

\* A run that is formatting cannot fail, and its settle does not time out.
LEMMA NoFault ==
    ASSUME NodeTypeOK, OrderlyInit
    PROVE  OneRun /\ ~Initializer!Fault
BY DEF NodeTypeOK, OrderlyInit, Initializer!Fault

\* The steps that change neither a disk nor a record of udev keep OrderlyInv, and the
\* mounter does not notice them.
QuietStep(r) ==
    \/ \E dry \in BOOLEAN : Initializer!Start(r, dry)
    \/ Initializer!Finish(r) \/ Initializer!Enumerate(r)
    \/ Initializer!LoopEnds(r) \/ Initializer!FormatRefused(r)

\* What these steps leave alone, and where they lead.
LEMMA QuietFrame ==
    ASSUME NEW r \in Runner, QuietStep(r)
    PROVE  /\ UNCHANGED <<disk, udev, mounts, initFaults>>
           /\ \E s : s \in {"idle", "lsblk", "mkfs", "done"} /\ initPc' = [initPc EXCEPT ![r] = s]
BY DEF QuietStep, Initializer!Start, Initializer!Finish, Initializer!Reset,
       Initializer!Enumerate, Initializer!LoopEnds, Initializer!FormatRefused,
       Initializer!Goto, Initializer!Return, Initializer!hostVars

\* What a run selects is bare, and udev shows no filesystem on it.
LEMMA SelectedBlank ==
    \A d \in Initializer!Unformatted : d \in Dev /\ Initializer!Bare(d) /\ ~HasFs(udev[d])
BY DEF Initializer!Unformatted, Initializer!HasFs, HasFs

\* Such a step selects blank devices only, as udev lags behind none when lsblk runs.
LEMMA QuietOrderly ==
    ASSUME OrderlyInv, OneRun, NEW r \in Runner, QuietStep(r)
    PROVE  OrderlyInv'
<1>1. PICK s : s \in {"idle", "lsblk", "mkfs", "done"} /\ initPc' = [initPc EXCEPT ![r] = s]
    BY QuietFrame
<1>2. UNCHANGED <<disk, udev, initFaults>> /\ initPc' \in [Runner -> {"idle", "lsblk", "mkfs", "settle", "done"}]
      /\ initPc'[r] = s
    BY <1>1, QuietFrame DEF OrderlyInv, NodeTypeOK
<1>3. \A q \in Runner : q = r
    BY DEF OneRun
<1>4. initPc[r] # "settle"
    BY DEF QuietStep, Initializer!Start, Initializer!Finish, Initializer!Enumerate,
           Initializer!LoopEnds, Initializer!FormatRefused
<1>5. udev = disk
  <2>1. \A d \in Dev : udev[d] = disk[d]
      BY <1>3, <1>4 DEF OrderlyInv
  <2> QED BY <2>1 DEF OrderlyInv, NodeTypeOK
<1>6. \/ todo' = todo /\ s = "done"
      \/ todo' = [todo EXCEPT ![r] = {}]
      \/ todo' = [todo EXCEPT ![r] = Initializer!Unformatted]
    BY <1>1, <1>2 DEF QuietStep, Initializer!Start, Initializer!Finish, Initializer!Reset,
       Initializer!Enumerate, Initializer!LoopEnds, Initializer!FormatRefused,
       Initializer!Goto, Initializer!Return, OrderlyInv, NodeTypeOK
<1>7. todo' \in [Runner -> SUBSET Dev] /\ \A d \in todo'[r] : Initializer!Bare(d)
    BY <1>6, SelectedBlank DEF OrderlyInv, NodeTypeOK
<1>8. s = "mkfs" => \A d \in todo'[r] : ~HasFs(udev[d])
    BY <1>6, SelectedBlank DEF OrderlyInv, NodeTypeOK
<1>9. NodeTypeOK'
    BY <1>1, <1>2, <1>3, <1>7 DEF OrderlyInv, NodeTypeOK, Initializer!Bare
<1>10. \A d \in Dev : udev'[d] = disk'[d]
    BY <1>2, <1>5
<1>11. \A q \in Runner : initPc'[q] \in {"mkfs", "settle"} => \A d \in Waiting(q)' : ~HasFs(disk'[d])
    BY <1>1, <1>2, <1>3, <1>5, <1>8 DEF Waiting
<1> QED BY <1>9, <1>10, <1>11 DEF OrderlyInv, HasFs

\* mkfs: one more device with a filesystem, which udev does not know of yet.
LEMMA FormatOrderly ==
    ASSUME OrderlyInv, OneRun, NEW r \in Runner, Initializer!FormatNext(r)
    PROVE  /\ OrderlyInv'
           /\ ~HasFs(disk[Initializer!Current(r)])
           /\ \E u \in Uuid : Mkfs(Initializer!Current(r), u, MkfsLabel)
           /\ disk' # disk
           /\ UNCHANGED <<udev, mounts>>
<1> DEFINE c == Initializer!Current(r)
<1>1. initPc[r] = "mkfs" /\ todo[r] # {} /\ UNCHANGED <<udev, mounts, todo, initFaults>>
      /\ initPc' = [initPc EXCEPT ![r] = "settle"]
    BY DEF Initializer!FormatNext, Initializer!Formats, Initializer!Goto
<1>2. c \in todo[r] /\ c \in Dev
    BY <1>1, CurrentWaits DEF OrderlyInv
<1>3. PICK u \in Uuid : Initializer!Mkfs(c, u, MkfsLabel)
    BY DEF Initializer!FormatNext
<1>4. Mkfs(c, u, MkfsLabel)
    BY <1>3 DEF Initializer!Mkfs, Mkfs, Initializer!FreshUuid, FreshUuid, Initializer!Answers, Answers
<1>5. \A q \in Runner : q = r
    BY DEF OneRun
<1>6. ~HasFs(disk[c])
    BY <1>1, <1>2 DEF OrderlyInv, Waiting
<1>7. c' = c
    BY <1>1 DEF Initializer!Current
<1> HIDE DEF c
<1>8. disk' \in [Dev -> Content]
    BY <1>2, <1>4, MkfsType, MounterAssumption DEF OrderlyInv, NodeTypeOK
<1>9. disk[c].uuid # u /\ disk'[c].uuid = u /\ \A d \in Dev : d # c => disk'[d] = disk[d]
    BY <1>2, <1>4 DEF Mkfs, FreshUuid, Answers, OrderlyInv, NodeTypeOK
<1>10. initPc' \in [Runner -> {"idle", "lsblk", "mkfs", "settle", "done"}] /\ initPc'[r] = "settle"
    BY <1>1 DEF OrderlyInv, NodeTypeOK
<1>11. NodeTypeOK'
    BY <1>1, <1>5, <1>8, <1>10 DEF OrderlyInv, NodeTypeOK, Initializer!Bare
<1>12. \A d \in Dev : d # c => udev'[d] = disk'[d]
    BY <1>1, <1>5, <1>9 DEF OrderlyInv
<1>13. \A d \in todo[r] : d # c => ~HasFs(disk'[d])
    BY <1>1, <1>9 DEF OrderlyInv, NodeTypeOK, Waiting
<1>14. Waiting(r)' = todo[r] \ {c}
    BY <1>1, <1>7, <1>10 DEF Waiting, c
<1>15. OrderlyInv'
  <2>1. \A d \in Dev : udev'[d] # disk'[d] => initPc'[r] = "settle" /\ d = c'
      BY <1>7, <1>10, <1>12
  <2>2. \A d \in Waiting(r)' : ~HasFs(disk'[d])
      BY <1>13, <1>14
  <2> QED BY <1>5, <1>11, <2>1, <2>2 DEF OrderlyInv, HasFs, c
<1>16. disk' # disk
    BY <1>9
<1> QED BY <1>1, <1>4, <1>6, <1>15, <1>16 DEF c

\* settle: udev records the device that has just been formatted, and no other.
LEMMA SettleOrderly ==
    ASSUME OrderlyInv, OneRun, NEW r \in Runner, Initializer!Settle(r), ~Initializer!Fault
    PROVE  /\ OrderlyInv'
           /\ UNCHANGED <<disk, mounts>>
           /\ udev' = udev \/ UdevRecords(Initializer!Current(r))
           /\ Initializer!Current(r) \in Dev
<1> DEFINE c == Initializer!Current(r)
<1>1. initPc[r] = "settle" /\ udev' = disk /\ UNCHANGED <<disk, mounts, initFaults>>
      /\ todo' = [todo EXCEPT ![r] = @ \ {c}] /\ initPc' = [initPc EXCEPT ![r] = "mkfs"]
    BY DEF Initializer!Settle, Initializer!Goto, OrderlyInv
<1>2. c \in Dev
    BY <1>1, CurrentWaits DEF OrderlyInv, NodeTypeOK
<1>3. \A q \in Runner : q = r
    BY DEF OneRun
<1>4. \A d \in todo[r] \ {c} : ~HasFs(disk[d])
    BY <1>1 DEF OrderlyInv, Waiting
<1>5. \A d \in Dev : d # c => udev[d] = disk[d]
    BY <1>3 DEF OrderlyInv
<1> HIDE DEF c
<1>6. initPc' \in [Runner -> {"idle", "lsblk", "mkfs", "settle", "done"}] /\ initPc'[r] = "mkfs"
      /\ todo' \in [Runner -> SUBSET Dev] /\ todo'[r] = todo[r] \ {c}
    BY <1>1 DEF OrderlyInv, NodeTypeOK
<1>7. NodeTypeOK'
    BY <1>1, <1>3, <1>6 DEF OrderlyInv, NodeTypeOK, Initializer!Bare
<1>8. OrderlyInv'
    BY <1>1, <1>3, <1>4, <1>6, <1>7 DEF OrderlyInv, Waiting, HasFs
<1>9. udev' = [udev EXCEPT ![c] = disk[c]]
    BY <1>1, <1>2, <1>5 DEF OrderlyInv, NodeTypeOK
<1>10. udev[c] = disk[c] => udev' = udev
    BY <1>9 DEF OrderlyInv, NodeTypeOK
<1> QED BY <1>1, <1>2, <1>8, <1>9, <1>10 DEF UdevRecords, c

-----------------------------------------------------------------------------
(* The steps of the others                                                 *)

\* Neither a step of the mounter nor one of a scan changes a disk, a record of udev
\* or anything of driver-init.
LEMMA OthersFrame ==
    ASSUME \/ \E p \in Proc :
                 MounterStep(p) \/ MounterRetry(p) \/ MounterLeave(p) \/ MounterOther(p)
           \/ ScannerStep
    PROVE  UNCHANGED <<disk, udev, initVars>>
<1>1. ASSUME NEW p \in Proc, MounterStep(p) \/ MounterRetry(p) \/ MounterLeave(p) \/ MounterOther(p)
      PROVE  UNCHANGED <<disk, udev, initVars>>
  <2>1. UNCHANGED initVars
      BY <1>1 DEF MounterStep, MounterRetry, MounterLeave, MounterOther, OthersWait
  <2>2. CASE Step(p)
      BY <2>1, <2>2 DEF Step, ResolveBySymlink, ResolveByLsblk,
         CheckNotRootDisk, ReadDeviceInfo, MakeTarget, CheckTarget,
         MountDevice, StatTarget, CheckMounted, UnmountTarget,
         RemoveTarget, hostVars
  <2>3. CASE \/ Call(p) \/ Retry(p) \/ Leave(p)
             \/ SkipGuardrail(p) \/ ProviderFails(p) \/ Crash(p)
      BY <2>1, <2>3 DEF Call, Retry, Start, Leave,
         SkipGuardrail, ProviderFails, Crash, hostVars
  <2> QED BY <1>1, <2>2, <2>3 DEF MounterStep, MounterRetry, MounterLeave, MounterOther
<1>2. CASE ScannerStep
  <2>1. UNCHANGED <<disk, udev>>
      BY <1>2 DEF ScannerStep, Scanner!Scan, Scanner!ScanFails, Scanner!Begin, Scanner!ReadMounts,
         Scanner!AllMeasured, Scanner!AllDescribed, Scanner!ListUnmounted, Scanner!MeasureMount,
         Scanner!DescribeMount, Scanner!hostVars
  <2> QED BY <1>2, <2>1 DEF ScannerStep
<1> QED BY <1>1, <1>2

\* OrderlyInv speaks of disks, of udev and of the runs only.
LEMMA OrderlyStays ==
    ASSUME OrderlyInv, UNCHANGED <<disk, udev, initVars>>
    PROVE  OrderlyInv'
BY DEF OrderlyInv, NodeTypeOK, initVars, Waiting, Initializer!Bare, Initializer!Current, HasFs

\* udevd only ever catches up.
LEMMA UdevOrderly ==
    ASSUME OrderlyInv, NEW d \in Dev, UdevStep(d)
    PROVE  OrderlyInv'
<1>1. udev' = [udev EXCEPT ![d] = disk[d]] /\ UNCHANGED <<disk, initVars>>
    BY DEF UdevStep, Udev, UdevRecords, OthersWait
<1>2. NodeTypeOK'
    BY <1>1 DEF OrderlyInv, NodeTypeOK, initVars, Initializer!Bare
<1>3. \A e \in Dev : udev'[e] # disk'[e] => udev[e] # disk[e]
    BY <1>1 DEF OrderlyInv, NodeTypeOK
<1> QED BY <1>1, <1>2, <1>3 DEF OrderlyInv, initVars, Waiting, Initializer!Current, HasFs

-----------------------------------------------------------------------------
(* Every step of the node is a step of the mounter's specification         *)

\* What the mounter sees of a step of driver-init.
LEMMA InitializerForMounter ==
    ASSUME OrderlyInv, OrderlyInit, NEW r \in Runner, InitializerStep(r)
    PROVE  OrderlyInv' /\ [Next]_vars
<1> USE DEF vars, hostVars, local, ghosts, mounterVars
<1>0. OneRun /\ ~Initializer!Fault
    BY NoFault DEF OrderlyInv
<1>1. UNCHANGED <<dirs, mounterVars>> /\ MounterNotices
    BY DEF InitializerStep
<1>2. disk' = disk /\ udev' = udev /\ mounts' = mounts => UNCHANGED vars
    BY <1>1 DEF MounterNotices
<1>3. CASE QuietStep(r)
    BY <1>0, <1>2, <1>3, QuietFrame, QuietOrderly
<1>4. CASE Initializer!FormatNext(r)
  <2> DEFINE c == Initializer!Current(r)
  <2>1. ~HasFs(disk[c]) /\ disk' # disk /\ UNCHANGED <<udev, mounts>> /\ OrderlyInv'
        /\ \E u \in Uuid : Mkfs(c, u, MkfsLabel)
      BY <1>0, <1>4, FormatOrderly
  <2>2. c \in Dev
      BY <1>4, CurrentWaits DEF Initializer!FormatNext, Initializer!Formats, OrderlyInv
  <2> HIDE DEF c
  <2>3. DisturbAll
      BY <1>1, <2>1 DEF MounterNotices
  <2>4. FormatBlank(c)
      BY <1>1, <2>1, <2>3 DEF FormatBlank
  <2> QED BY <2>1, <2>2, <2>4, NodeAssumption DEF Next
<1>5. CASE Initializer!Settle(r)
  <2> DEFINE c == Initializer!Current(r)
  <2>1. OrderlyInv' /\ UNCHANGED <<disk, mounts>> /\ c \in Dev /\ (udev' = udev \/ UdevRecords(c))
      BY <1>0, <1>5, SettleOrderly
  <2> HIDE DEF c
  <2>2. udev' # udev => DisturbAll
      BY <1>1 DEF MounterNotices
  <2>3. udev' # udev => Udev(c)
      BY <1>1, <2>1, <2>2 DEF Udev, UdevRecords
  <2> QED BY <1>2, <2>1, <2>3 DEF Next
<1>6. CASE Initializer!ProviderFails(r) \/ Initializer!Crash(r)
    BY <1>0, <1>6 DEF Initializer!ProviderFails, Initializer!Crash
<1> QED
    BY <1>3, <1>4, <1>5, <1>6 DEF InitializerStep, QuietStep, Initializer!Step

\* Each step of the node, seen by the mounter.
LEMMA NextForMounter ==
    ASSUME OrderlyInv, OrderlyInit, [NodeNext]_nodeVars
    PROVE  OrderlyInv' /\ [Next]_vars
<1>1. ASSUME NEW p \in Proc,
             MounterStep(p) \/ MounterRetry(p) \/ MounterLeave(p) \/ MounterOther(p)
      PROVE  OrderlyInv' /\ [Next]_vars
  <2>1. OrderlyInv'
      BY <1>1, OthersFrame, OrderlyStays
  <2>2. Next
      BY <1>1 DEF MounterStep, MounterRetry, MounterLeave, MounterOther, Next
  <2> QED BY <2>1, <2>2
<1>2. CASE ScannerStep
  <2>1. UNCHANGED vars
      BY <1>2 DEF ScannerStep, mounterVars, vars, local, ghosts,
         hostVars, Scanner!Scan, Scanner!ScanFails, Scanner!Begin, Scanner!ReadMounts,
         Scanner!AllMeasured, Scanner!AllDescribed, Scanner!ListUnmounted, Scanner!MeasureMount,
         Scanner!DescribeMount, Scanner!hostVars
  <2> QED BY <1>2, <2>1, OthersFrame, OrderlyStays
<1>3. ASSUME NEW d \in Dev, UdevStep(d)
      PROVE  OrderlyInv' /\ [Next]_vars
    BY <1>3, UdevOrderly DEF UdevStep, Next
<1>4. CASE UNCHANGED nodeVars
    BY <1>4, OrderlyStays
       DEF nodeVars, hostVars, mounterVars, vars, local, ghosts, hostVars
<1> QED BY <1>1, <1>2, <1>3, <1>4, InitializerForMounter DEF NodeNext

\* On a node where one run of driver-init follows the other and none of them is killed
\* or times out, the mounter never meets anything but what DeviceMounter describes,
\* while any number of mounts, formats and scans interleave.
THEOREM MounterKept ==
    ASSUME OrderlyInit
    PROVE  NodeSpec => MounterUnharmed
<1>1. NodeInit => OrderlyInv
    BY InitOrderly
<1>2. OrderlyInv /\ [NodeNext]_nodeVars => OrderlyInv' /\ [Next]_vars
    BY NextForMounter
<1>3. NodeInit => Init
    BY DEF NodeInit
<1> QED BY <1>1, <1>2, <1>3, PTL DEF NodeSpec, MounterUnharmed, Spec

\* Next to the real driver-init, what is mounted at a target carries its UUID.
THEOREM NodeTargetSafe ==
    ASSUME OrderlyInit
    PROVE  NodeSpec => []TargetHoldsItsUuid
BY MounterKept, TargetSafe, PTL DEF MounterUnharmed

-----------------------------------------------------------------------------
(* Every step of the node is a step of the initializer's specification     *)

\* The mounts and unmounts of the mounter are those that driver-init reckons with.
LEMMA MountsForInitializer ==
    ASSUME SafeInv, NEW p \in Proc, Mounts(p) \/ Unmounts(p), UNCHANGED <<disk, udev, initVars>>
    PROVE  Initializer!Next
<1> DEFINE u == call[p].uuid
<1>0. TypeInv /\ DataInv /\ TargetHoldsItsUuid /\ pc[p] # "idle" /\ u \in Uuid
    BY RunningRequest DEF SafeInv, Mounts, Unmounts
<1>1. CASE Mounts(p)
  <2> DEFINE d == DeviceAt(path[p])
  <2>1. mounts[u] = <<>>
      BY <1>0, <1>1, MountsOnEmptyTarget
  <2>2. pc[p] \in Resolved
      BY <1>1 DEF Mounts, Resolved
  <2>3. d \in Dev /\ Answers(d, u, disk)
      BY <1>0, <2>2, ResolvedDevice DEF DataInv, PathCarriesUuid
  <2>4. HasFs(disk[d]) /\ mounts' = [mounts EXCEPT ![u] = Append(@, d)]
      BY <1>1 DEF Mounts, KernelAccepts
  <2> HIDE DEF d, u
  <2>5. Initializer!MountFs(d)
      BY <1>0, <2>1, <2>3, <2>4 DEF Initializer!MountFs, Initializer!HasFs, HasFs,
         Initializer!Answers, Answers, initVars, Initializer!local, Initializer!history
  <2> QED BY <2>3, <2>5 DEF Initializer!Next
<1>2. CASE Unmounts(p)
  <2> DEFINE d == TopMount(u)
  <2>1. mounts[u] \in Seq(Dev) /\ mounts[u] # <<>>
      BY <1>0, <1>2 DEF Unmounts, TypeInv, TypeOK, HostTypeOK
  <2>2. Len(mounts[u]) \in DOMAIN mounts[u]
      BY <2>1
  <2>3. d \in Dev
      BY <2>1, <2>2 DEF TopMount
  <2>4. mounts' = [mounts EXCEPT ![u] = SubSeq(@, 1, Len(@) - 1)]
      BY <1>2 DEF Unmounts
  <2>5. Initializer!UnmountFs(d)
      BY <1>0, <2>1, <2>4 DEF Initializer!UnmountFs, Initializer!TopMount, TopMount,
         initVars, Initializer!local, Initializer!history
  <2> QED BY <2>3, <2>5 DEF Initializer!Next
<1> QED BY <1>1, <1>2

\* Each step of the node, seen by driver-init.
LEMMA NextForInitializer ==
    ASSUME SafeInv, [NodeNext]_nodeVars
    PROVE  [Initializer!Next]_(Initializer!vars)
<1> DEFINE stutters == UNCHANGED <<disk, udev, mounts, initVars>>
<1>0. stutters => UNCHANGED Initializer!vars
    BY DEF Initializer!vars, Initializer!hostVars, Initializer!local, Initializer!history, initVars
<1>1. ASSUME NEW p \in Proc,
             MounterStep(p) \/ MounterRetry(p) \/ MounterLeave(p) \/ MounterOther(p)
      PROVE  Initializer!Next \/ stutters
  <2>1. UNCHANGED <<disk, udev, initVars>>
      BY <1>1, OthersFrame
  <2>2. ProcStep(p)
      BY <1>1 DEF MounterStep, MounterRetry, MounterLeave, MounterOther, ProcStep
  <2> QED BY <2>1, <2>2, MountsStep, MountsForInitializer
<1>2. ASSUME ScannerStep
      PROVE  stutters
  <2>1. UNCHANGED mounts
      BY <1>2 DEF ScannerStep, Scanner!Scan, Scanner!ScanFails, Scanner!Begin, Scanner!ReadMounts,
         Scanner!AllMeasured, Scanner!AllDescribed, Scanner!ListUnmounted, Scanner!MeasureMount,
         Scanner!DescribeMount, Scanner!hostVars
  <2> QED BY <1>2, <2>1, OthersFrame
<1>3. ASSUME NEW r \in Runner, InitializerStep(r)
      PROVE  Initializer!Next
    BY <1>3 DEF InitializerStep, Initializer!Next
<1>4. ASSUME NEW d \in Dev, UdevStep(d)
      PROVE  Initializer!Next
  <2>1. Initializer!Udev(d)
      BY <1>4 DEF UdevStep, Udev, UdevRecords, OthersWait, initVars, Initializer!Udev,
         Initializer!UdevRecords, Initializer!local, Initializer!history
  <2> QED BY <2>1 DEF Initializer!Next
<1>5. CASE UNCHANGED nodeVars
  <2>1. stutters
      BY <1>5 DEF nodeVars, hostVars
  <2> QED BY <1>0, <2>1
<1>6. CASE NodeNext
  <2>1. Initializer!Next \/ stutters
    <3> HIDE DEF stutters
    <3>1. CASE \E p \in Proc : MounterStep(p) \/ MounterRetry(p) \/ MounterLeave(p) \/ MounterOther(p)
        BY <1>1, <3>1
    <3>2. CASE \E r \in Runner : InitializerStep(r)
        BY <1>3, <3>2
    <3>3. CASE \E d \in Dev : UdevStep(d)
        BY <1>4, <3>3
    <3> QED BY <1>2, <1>6, <3>1, <3>2, <3>3 DEF NodeNext
  <2> HIDE DEF stutters
  <2> QED BY <1>0, <2>1
<1> QED BY <1>5, <1>6

\* On such a node driver-init never meets anything but what DiskInitializer describes
\* either: each driver keeps what the other one relies on.
THEOREM InitializerKept ==
    ASSUME OrderlyInit
    PROVE  NodeSpec => InitializerUnharmed
<1>1. NodeSpec => []SafeInv
    BY MounterKept, SpecSafe, PTL DEF MounterUnharmed
<1>2. NodeInit => Initializer!Init
    BY DEF NodeInit
<1>3. SafeInv /\ [NodeNext]_nodeVars => [Initializer!Next]_(Initializer!vars)
    BY NextForInitializer
<1> QED BY <1>1, <1>2, <1>3, PTL DEF NodeSpec, InitializerUnharmed, Initializer!Spec

-----------------------------------------------------------------------------
(* Every step of the node is a step of the scanner's specification         *)

\* The directories under the mount point were made for devices of the node.
DirsAnswered == \A u \in dirs : \E d \in Dev : Answers(d, u, disk)

\* A directory is made for a device that answers to it, and a format takes no answer away.
LEMMA NextDirsAnswered ==
    ASSUME SafeInv, DirsAnswered, [Next]_vars
    PROVE  DirsAnswered'
<1>0. TypeInv /\ DataInv
    BY DEF SafeInv
<1>1. ASSUME NEW p \in Proc, MakeTarget(p)
      PROVE  DirsAnswered'
  <2>1. pc[p] \in Resolved /\ dirs' = dirs \cup {call[p].uuid} /\ disk' = disk
      BY <1>1 DEF MakeTarget, Resolved
  <2>2. DeviceAt(path[p]) \in Dev /\ Answers(DeviceAt(path[p]), call[p].uuid, disk)
      BY <1>0, <2>1, ResolvedDevice DEF DataInv, PathCarriesUuid
  <2> QED BY <2>1, <2>2 DEF DirsAnswered
<1>2. ASSUME NEW p \in Proc, ProcStep(p), ~MakeTarget(p)
      PROVE  DirsAnswered'
  <2>1. dirs' \subseteq dirs /\ disk' = disk
      BY <1>2 DEF ProcStep, Step, Call, Retry, Leave, Start, ResolveBySymlink, ResolveByLsblk,
         CheckNotRootDisk, SkipGuardrail, ReadDeviceInfo, CheckTarget, MountDevice, StatTarget,
         CheckMounted, UnmountTarget, RemoveTarget, ProviderFails, Crash, hostVars
  <2> QED BY <2>1 DEF DirsAnswered
<1>3. CASE NodeStep
  <2>1. dirs' = dirs
      BY <1>3 DEF NodeStep, FormatBlank, Udev
  <2>2. dirs \subseteq Uuid
      BY <1>0 DEF TypeInv, TypeOK, HostTypeOK
  <2> QED BY <1>0, <1>3, <2>1, <2>2, NodeKeepsAnswers DEF DirsAnswered, DataInv
<1>4. CASE UNCHANGED vars
    BY <1>4 DEF vars, hostVars, DirsAnswered
<1> QED BY <1>1, <1>2, <1>3, <1>4, NextCases

\* A step that leaves the disks, the mounts and the directories alone is none for a scan.
LEMMA ScannerStutters ==
    ASSUME UNCHANGED <<disk, udev, mounts, dirs, scanVars>>, ScannerNotices
    PROVE  UNCHANGED Scanner!vars
<1>1. Changed = {}
    BY DEF Changed, TargetsOf
<1> QED BY <1>1 DEF ScannerNotices, Scanner!vars, Scanner!hostVars, Scanner!ghosts, scanVars

\* A step that concerns exactly one device is the scan's Touch of it.
LEMMA ScannerTouch ==
    ASSUME NEW d, Changed = {d}, ScannerNotices
    PROVE  Scanner!Touch(d)
BY DEF ScannerNotices, Scanner!Touch

\* A new directory, or one less, on which nothing is mounted.
LEMMA DirectoryForScanner ==
    ASSUME ContractInv, DirsAnswered, NEW p \in Proc, MakeTarget(p) \/ RemoveTarget(p), OthersWait
    PROVE  [Scanner!Next]_(Scanner!vars)
<1> DEFINE u == call[p].uuid
<1>0. TypeInv /\ DataInv /\ MountedOnDir /\ pc[p] # "idle"
    BY DEF ContractInv, SafeInv, MakeTarget, RemoveTarget
<1>1. u \in Uuid
    BY <1>0, RunningRequest
<1>2. UNCHANGED <<disk, udev, mounts, scanVars>> /\ dirs' \in {dirs, dirs \cup {u}, dirs \ {u}}
    BY DEF MakeTarget, RemoveTarget, OthersWait
<1>3. CASE dirs' = dirs
    BY <1>2, <1>3, ScannerStutters DEF OthersWait
<1>4. CASE dirs' # dirs
  <2>1. mounts[u] = <<>>
      BY <1>0, <1>1, <1>4 DEF MakeTarget, RemoveTarget, MountedOnDir
  <2>2. \E d \in Dev : Answers(d, u, disk)
    <3>1. CASE MakeTarget(p)
      <4>1. pc[p] \in Resolved
          BY <3>1 DEF MakeTarget, Resolved
      <4> QED BY <1>0, <4>1, ResolvedDevice DEF DataInv, PathCarriesUuid
    <3>2. CASE RemoveTarget(p)
        BY <1>4, <3>2 DEF RemoveTarget, DirsAnswered
    <3> QED BY <3>1, <3>2
  <2>3. Changed = {}
      BY <1>2 DEF Changed, TargetsOf
  <2>4. UNCHANGED <<steady, was>>
      BY <2>3 DEF OthersWait, ScannerNotices
  <2> HIDE DEF u
  <2>5. Scanner!Directory(u)
      BY <1>2, <1>4, <2>1, <2>2, <2>4 DEF Scanner!Directory, Scanner!Answers, Answers,
         Scanner!scan, Scanner!ghosts, scanVars
  <2> QED BY <1>1, <2>5 DEF Scanner!Next
<1> QED BY <1>3, <1>4

\* A mount on an empty target, of the device that answers to it.
LEMMA MountForScanner ==
    ASSUME ContractInv, NEW p \in Proc, Mounts(p), UNCHANGED <<disk, udev, dirs>>, OthersWait
    PROVE  Scanner!Next
<1> DEFINE u == call[p].uuid
           d == DeviceAt(path[p])
<1>0. TypeInv /\ DataInv /\ TargetHoldsItsUuid /\ pc[p] # "idle" /\ pc[p] \in Resolved
    BY DEF ContractInv, SafeInv, Mounts, Resolved
<1>1. u \in Uuid /\ mounts[u] = <<>>
    BY <1>0, RunningRequest, MountsOnEmptyTarget
<1>2. d \in Dev /\ Answers(d, u, disk)
    BY <1>0, ResolvedDevice DEF DataInv, PathCarriesUuid
<1>3. HasFs(disk[d]) /\ u \in dirs /\ mounts' = [mounts EXCEPT ![u] = Append(@, d)]
    BY DEF Mounts, KernelAccepts
<1>4. mounts \in [Uuid -> Seq(Dev)]
    BY <1>0 DEF TypeInv, TypeOK, HostTypeOK
<1> HIDE DEF u, d
<1>5. mounts' = [mounts EXCEPT ![u] = <<d>>]
    BY <1>1, <1>2, <1>3, <1>4
<1>6. \A v \in Uuid : mounts'[v] = IF v = u THEN <<d>> ELSE mounts[v]
    BY <1>1, <1>4, <1>5
<1>7. DOMAIN <<d>> = {1} /\ <<d>>[1] = d /\ DOMAIN mounts[u] = {}
    BY <1>1
<1>8. \A e \in Dev : TargetsOf(e)' = IF e = d THEN TargetsOf(e) \cup {u} ELSE TargetsOf(e)
    BY <1>1, <1>2, <1>6, <1>7 DEF TargetsOf
<1>9. u \notin TargetsOf(d)
    BY <1>7 DEF TargetsOf
<1>10. Changed = {d}
    BY <1>2, <1>8, <1>9 DEF Changed
<1>11. Scanner!Touch(d)
    BY <1>10, ScannerTouch DEF OthersWait
<1>12. Scanner!MountFs(d)
    BY <1>1, <1>2, <1>3, <1>5, <1>11 DEF Scanner!MountFs, Scanner!HasFs, HasFs,
       Scanner!Answers, Answers, Scanner!scan, scanVars, OthersWait
<1> QED BY <1>2, <1>12 DEF Scanner!Next

\* An unmount takes the one mount of its target away.
LEMMA UnmountForScanner ==
    ASSUME ContractInv, NEW p \in Proc, Unmounts(p), UNCHANGED <<disk, udev, dirs>>, OthersWait
    PROVE  Scanner!Next
<1> DEFINE u == call[p].uuid
           d == TopMount(u)
<1>0. TypeInv /\ NoStacking /\ pc[p] # "idle"
    BY DEF ContractInv, SafeInv, Unmounts
<1>1. u \in Uuid /\ mounts[u] # <<>> /\ mounts' = [mounts EXCEPT ![u] = SubSeq(@, 1, Len(@) - 1)]
    BY <1>0, RunningRequest DEF Unmounts
<1>2. mounts \in [Uuid -> Seq(Dev)]
    BY <1>0 DEF TypeInv, TypeOK, HostTypeOK
<1>3. mounts[u] \in Seq(Dev) /\ Len(mounts[u]) <= 1
    BY <1>0, <1>1, <1>2 DEF NoStacking
<1>4. d = TopMount(u)
    OBVIOUS
<1> HIDE DEF u, d
<1>a. Len(mounts[u]) \in Nat /\ Len(mounts[u]) # 0
    BY <1>1, <1>3
<1>b. Len(mounts[u]) = 1
  <2>1. \A n \in Nat : n # 0 /\ n <= 1 => n = 1
      OBVIOUS
  <2> QED BY <1>3, <1>a, <2>1, Zenon
<1>c. DOMAIN mounts[u] = {1} /\ mounts[u][1] \in Dev
    BY <1>3, <1>b
<1>5. Len(mounts[u]) = 1 /\ d = mounts[u][1] /\ d \in Dev /\ DOMAIN mounts[u] = {1}
    BY <1>4, <1>b, <1>c DEF TopMount
<1>6. SubSeq(mounts[u], 1, Len(mounts[u]) - 1) = <<>>
    BY <1>5, SubSeqEmpty
<1>7. mounts' = [mounts EXCEPT ![u] = <<>>]
    BY <1>1, <1>2, <1>6
<1>8. \A v \in Uuid : mounts'[v] = IF v = u THEN <<>> ELSE mounts[v]
    BY <1>1, <1>2, <1>7
<1>9. \A e \in Dev : TargetsOf(e)' = IF e = d THEN TargetsOf(e) \ {u} ELSE TargetsOf(e)
    BY <1>1, <1>5, <1>8 DEF TargetsOf
<1>10. u \in TargetsOf(d)
    BY <1>1, <1>5 DEF TargetsOf
<1>11. Changed = {d}
    BY <1>5, <1>9, <1>10 DEF Changed
<1>12. Scanner!Touch(d)
    BY <1>11, ScannerTouch DEF OthersWait
<1>13. Scanner!UnmountFs(u)
    BY <1>1, <1>4, <1>7, <1>12 DEF Scanner!UnmountFs, Scanner!TopMount, TopMount,
       Scanner!scan, scanVars, OthersWait
<1> QED BY <1>1, <1>13 DEF Scanner!Next

\* The steps of the mounter, as a scan sees them.
LEMMA MounterForScanner ==
    ASSUME ContractInv, DirsAnswered, NEW p \in Proc,
           MounterStep(p) \/ MounterRetry(p) \/ MounterLeave(p) \/ MounterOther(p)
    PROVE  [Scanner!Next]_(Scanner!vars)
<1>1. OthersWait /\ ProcStep(p) /\ UNCHANGED <<disk, udev>>
    BY OthersFrame DEF MounterStep, MounterRetry, MounterLeave, MounterOther, ProcStep
<1>2. CASE MakeTarget(p) \/ RemoveTarget(p)
    BY <1>1, <1>2, DirectoryForScanner
<1>3. CASE ~MakeTarget(p) /\ ~RemoveTarget(p)
  <2>1. dirs' = dirs
      BY <1>1, <1>3 DEF ProcStep, Step, Call, Retry, Leave, Start, ResolveBySymlink, ResolveByLsblk,
         CheckNotRootDisk, SkipGuardrail, ReadDeviceInfo, CheckTarget, MountDevice, StatTarget,
         CheckMounted, UnmountTarget, ProviderFails, Crash, hostVars
  <2>2. CASE mounts' = mounts
      BY <1>1, <2>1, <2>2, ScannerStutters DEF OthersWait
  <2>3. CASE Mounts(p) \/ Unmounts(p)
      BY <1>1, <2>1, <2>3, MountForScanner, UnmountForScanner
  <2> QED BY <1>1, <2>2, <2>3, MountsStep
<1> QED BY <1>2, <1>3

\* udev's new record of one device.
LEMMA UdevForScanner ==
    ASSUME NodeTypeOK, NEW d \in Dev, UdevRecords(d), UNCHANGED <<disk, mounts, dirs, scanVars>>,
           ScannerNotices
    PROVE  Scanner!Next
<1>1. udev'[d] # udev[d] /\ \A e \in Dev : e # d => udev'[e] = udev[e]
    BY DEF UdevRecords, NodeTypeOK
<1>2. Changed = {d}
    BY <1>1 DEF Changed, TargetsOf
<1>3. Scanner!Udev(d)
    BY <1>2, ScannerTouch DEF Scanner!Udev, Scanner!UdevRecords, UdevRecords, Scanner!scan, scanVars
<1> QED BY <1>3 DEF Scanner!Next

\* The steps of driver-init: only blank devices that are not mounted are formatted.
LEMMA InitializerForScanner ==
    ASSUME OrderlyInv, OrderlyInit, NEW r \in Runner, InitializerStep(r)
    PROVE  [Scanner!Next]_(Scanner!vars)
<1> DEFINE c == Initializer!Current(r)
<1>0. /\ ScannerNotices /\ UNCHANGED <<dirs, scanVars>> /\ NodeTypeOK
      /\ OneRun /\ ~Initializer!Fault
    BY NoFault DEF InitializerStep, OrderlyInv
<1>1. CASE QuietStep(r)
    BY <1>0, <1>1, QuietFrame, ScannerStutters
<1>2. CASE Initializer!FormatNext(r)
  <2>1. ~HasFs(disk[c]) /\ UNCHANGED <<udev, mounts>>
        /\ \E u \in Uuid : Mkfs(c, u, MkfsLabel)
      BY <1>0, <1>2, FormatOrderly
  <2>2. c \in Dev /\ ~Mounted(c)
      BY <1>0, <1>2, CurrentWaits DEF Initializer!FormatNext, Initializer!Formats,
         Initializer!MkfsAccepts, Initializer!Mounted, Mounted
  <2> HIDE DEF c
  <2>3. PICK u \in Uuid : Mkfs(c, u, MkfsLabel)
      BY <2>1
  <2>4. disk'[c] # disk[c] /\ \A e \in Dev : e # c => disk'[e] = disk[e]
      BY <1>0, <2>2, <2>3 DEF Mkfs, FreshUuid, Answers, NodeTypeOK
  <2>5. Changed = {c}
      BY <2>1, <2>2, <2>4 DEF Changed, TargetsOf
  <2>6. Scanner!Mkfs(c, u, MkfsLabel)
      BY <2>3 DEF Scanner!Mkfs, Mkfs, Scanner!FreshUuid, FreshUuid, Scanner!Answers, Answers
  <2>7. MkfsLabel \in Label \cup {None}
      BY MounterAssumption
  <2>8. Scanner!FormatBlank(c)
      BY <1>0, <2>1, <2>2, <2>5, <2>6, <2>7, ScannerTouch DEF Scanner!FormatBlank, Scanner!Idle,
         Scanner!Mounted, Mounted, Scanner!HasFs, HasFs, Scanner!scan, scanVars
  <2> QED BY <2>2, <2>8 DEF Scanner!Next
<1>3. CASE Initializer!Settle(r)
  <2>1. UNCHANGED <<disk, mounts>> /\ c \in Dev /\ (udev' = udev \/ UdevRecords(c))
      BY <1>0, <1>3, SettleOrderly
  <2> QED BY <1>0, <2>1, ScannerStutters, UdevForScanner
<1>4. CASE Initializer!ProviderFails(r) \/ Initializer!Crash(r)
    BY <1>0, <1>4 DEF Initializer!ProviderFails, Initializer!Crash
<1> QED
    BY <1>1, <1>2, <1>3, <1>4 DEF InitializerStep, QuietStep, Initializer!Step

\* Each step of the node, seen by the scan.
LEMMA NextForScanner ==
    ASSUME OrderlyInit, OrderlyInv, ContractInv, DirsAnswered, [NodeNext]_nodeVars
    PROVE  [Scanner!Next]_(Scanner!vars)
<1>1. ASSUME NEW d \in Dev, UdevStep(d)
      PROVE  Scanner!Next
    BY <1>1, UdevForScanner DEF UdevStep, Udev, OthersWait, OrderlyInv
<1>2. CASE ScannerStep
    BY <1>2 DEF ScannerStep, Scanner!Next
<1>3. CASE UNCHANGED nodeVars
    BY <1>3 DEF nodeVars, hostVars, scanVars, Scanner!vars, Scanner!hostVars, Scanner!ghosts
<1> QED BY <1>1, <1>2, <1>3, MounterForScanner, InitializerForScanner DEF NodeNext

\* And a scan sees nothing but what DeviceScanner describes, so that what is proved of its
\* reports holds on a node on which all three drivers work.
THEOREM ScannerKept ==
    ASSUME OrderlyInit
    PROVE  NodeSpec => ScannerUnharmed
<1>1. NodeSpec => []OrderlyInv
  <2>1. NodeInit => OrderlyInv
      BY InitOrderly
  <2>2. OrderlyInv /\ [NodeNext]_nodeVars => OrderlyInv'
      BY NextForMounter
  <2> QED BY <2>1, <2>2, PTL DEF NodeSpec
<1>2. Spec => [](ContractInv /\ DirsAnswered)
  <2>1. Init => DirsAnswered
      BY DEF Init, HostInit, DirsAnswered
  <2>2. ContractInv /\ DirsAnswered /\ [Next]_vars => DirsAnswered'
      BY NextDirsAnswered DEF ContractInv
  <2> QED BY <2>1, <2>2, SpecContractInv, PTL DEF Spec
<1>3. NodeInit => Scanner!Init
    BY DEF NodeInit
<1>4. OrderlyInv /\ ContractInv /\ DirsAnswered /\ [NodeNext]_nodeVars
        => [Scanner!Next]_(Scanner!vars)
    BY NextForScanner
<1>5. NodeSpec => Spec
    BY MounterKept DEF MounterUnharmed
<1> QED BY <1>1, <1>2, <1>3, <1>4, <1>5, PTL DEF NodeSpec, ScannerUnharmed, Scanner!Spec

-----------------------------------------------------------------------------
(* What holds however driver-init is run                                   *)

\* The types on a node with any number of runs of driver-init, which may overlap, time
\* out and die: what a run selects and has still to format is bare and large enough.
AnyRunsInv ==
    /\ TypeInv
    /\ initPc \in [Runner -> {"idle", "lsblk", "mkfs", "settle", "done"}]
    /\ targets \in [Runner -> SUBSET Dev] /\ todo \in [Runner -> SUBSET Dev]
    /\ \A r \in Runner : todo[r] \subseteq targets[r]
    /\ \A r \in Runner : \A d \in targets[r] : Initializer!Bare(d) /\ Size[d] >= MinSize

\* What a step of a run does to the node and to the runs.
LEMMA AnyRunSteps ==
    ASSUME AnyRunsInv, NEW r \in Runner, InitializerStep(r)
    PROVE  /\ \/ UNCHANGED <<disk, udev>>
              \/ Initializer!FormatNext(r) /\ udev' = udev
              \/ Initializer!Settle(r) /\ UNCHANGED disk /\ udev' \in {udev, disk}
           /\ UNCHANGED <<mounts, dirs, mounterVars>>
           /\ \E s \in {"idle", "lsblk", "mkfs", "settle", "done"} : initPc' = [initPc EXCEPT ![r] = s]
           /\ \E S \in {{}, targets[r], Initializer!Unformatted} : targets' = [targets EXCEPT ![r] = S]
           /\ \E S \in SUBSET targets'[r] : todo' = [todo EXCEPT ![r] = S]
<1> USE DEF AnyRunsInv, Initializer!hostVars
<1>0. UNCHANGED <<dirs, mounterVars>>
    BY DEF InitializerStep
<1>f. /\ \A f \in {initPc, targets, todo} : f = [f EXCEPT ![r] = f[r]]
      /\ \A S : [targets EXCEPT ![r] = S][r] = S
    OBVIOUS
<1>1. ASSUME NEW step, NEW dry, Initializer!Reset(r, step, dry), step \in {"lsblk", "idle"}
      PROVE  /\ UNCHANGED <<disk, udev, mounts>>
             /\ initPc' = [initPc EXCEPT ![r] = step]
             /\ targets' = [targets EXCEPT ![r] = {}]
             /\ todo' = [todo EXCEPT ![r] = {}]
    BY <1>1 DEF Initializer!Reset
<1>2. CASE (\E dry \in BOOLEAN : Initializer!Start(r, dry)) \/ Initializer!Finish(r)
    BY <1>0, <1>1, <1>2, <1>f DEF Initializer!Start, Initializer!Finish
<1>3. CASE Initializer!Enumerate(r)
    BY <1>0, <1>3, <1>f DEF Initializer!Enumerate, Initializer!Goto
<1>4. CASE Initializer!LoopEnds(r) \/ Initializer!FormatRefused(r)
           \/ Initializer!ProviderFails(r) \/ Initializer!Crash(r)
    BY <1>0, <1>4, <1>f
       DEF Initializer!LoopEnds, Initializer!FormatRefused, Initializer!ProviderFails,
           Initializer!Crash, Initializer!Return
<1>5. CASE Initializer!FormatNext(r)
    BY <1>0, <1>5, <1>f DEF Initializer!FormatNext, Initializer!Goto
<1>6. CASE Initializer!Settle(r)
    BY <1>0, <1>6, <1>f DEF Initializer!Settle, Initializer!Goto
<1> QED BY <1>2, <1>3, <1>4, <1>5, <1>6 DEF InitializerStep, Initializer!Step

\* The device that a run formats is one of its targets.
LEMMA FormatsTarget ==
    ASSUME AnyRunsInv, NEW r \in Runner, Initializer!FormatNext(r)
    PROVE  /\ Initializer!Current(r) \in targets[r]
           /\ \E u \in Uuid : Mkfs(Initializer!Current(r), u, MkfsLabel)
<1>1. todo[r] # {} /\ todo[r] \subseteq targets[r]
    BY DEF AnyRunsInv, Initializer!FormatNext, Initializer!Formats
<1>2. \E k \in DOMAIN Rows : Rows[k] \in todo[r]
    BY <1>1 DEF AnyRunsInv, Initializer!Bare
<1>3. Initializer!Current(r) \in todo[r]
    BY <1>2, FirstRowFound DEF Initializer!Current, Initializer!FirstRow, FirstRow
<1>4. \E u \in Uuid : Mkfs(Initializer!Current(r), u, MkfsLabel)
    BY DEF Initializer!FormatNext, Initializer!Mkfs, Mkfs, Initializer!FreshUuid, FreshUuid,
       Initializer!Answers, Answers
<1> QED BY <1>1, <1>3, <1>4

\* The steps of the others, seen by the mounter: its own, or none.
LEMMA OtherSteps ==
    ASSUME [NodeNext]_nodeVars, ~\E r \in Runner : InitializerStep(r)
    PROVE  [Next]_vars /\ UNCHANGED <<disk, initVars>>
<1>1. ASSUME NEW p \in Proc,
             MounterStep(p) \/ MounterRetry(p) \/ MounterLeave(p) \/ MounterOther(p)
      PROVE  Next /\ UNCHANGED <<disk, initVars>>
    BY <1>1, OthersFrame DEF MounterStep, MounterRetry, MounterLeave, MounterOther, Next
<1>2. CASE ScannerStep
  <2>1. UNCHANGED vars
      BY <1>2 DEF ScannerStep, mounterVars, vars, local, ghosts,
         hostVars, Scanner!Scan, Scanner!ScanFails, Scanner!Begin, Scanner!ReadMounts,
         Scanner!AllMeasured, Scanner!AllDescribed, Scanner!ListUnmounted, Scanner!MeasureMount,
         Scanner!DescribeMount, Scanner!hostVars
  <2> QED BY <1>2, <2>1, OthersFrame
<1>3. ASSUME NEW d \in Dev, UdevStep(d)
      PROVE  Next /\ UNCHANGED <<disk, initVars>>
    BY <1>3 DEF UdevStep, Udev, OthersWait, Next
<1>4. CASE UNCHANGED nodeVars
    BY <1>4 DEF nodeVars, hostVars, mounterVars, vars, local, ghosts
<1> QED BY <1>1, <1>2, <1>3, <1>4 DEF NodeNext

\* The types at the start, after every step, and always.
LEMMA InitAnyRuns ==
    ASSUME NodeInit
    PROVE  AnyRunsInv
<1>1. TypeInv
    BY InitTypeInv DEF NodeInit
<1> QED BY <1>1 DEF NodeInit, Initializer!Init, AnyRunsInv

\* A run changes disks and udev's records, and disturbs the calls; what a call has is its own.
LEMMA RunKeepsTypes ==
    ASSUME AnyRunsInv, NEW r \in Runner, InitializerStep(r)
    PROVE  TypeInv'
<1>1. disk \in [Dev -> Content] /\ udev \in [Dev -> Content]
    BY DEF AnyRunsInv, TypeInv, TypeOK, HostTypeOK
<1>2. disk' \in [Dev -> Content] /\ udev' \in [Dev -> Content]
  <2>1. CASE Initializer!FormatNext(r) /\ udev' = udev
    <3>1. Initializer!Current(r) \in Dev
        BY <2>1, FormatsTarget DEF AnyRunsInv
    <3>2. MkfsLabel \in Label \cup {None}
        BY MounterAssumption
    <3> QED BY <1>1, <2>1, <3>1, <3>2, FormatsTarget, MkfsType
  <2> QED BY <1>1, <2>1, AnyRunSteps
<1>3. UNCHANGED <<mounts, dirs, mounterVars>>
    BY AnyRunSteps
<1>4. disturbed' \in [Proc -> BOOLEAN]
    BY DEF InitializerStep, MounterNotices, DisturbAll, AnyRunsInv, TypeInv, TypeOK
<1> QED BY <1>2, <1>3, <1>4
    DEF AnyRunsInv, TypeInv, TypeOK, HostTypeOK, CallKnown, PathNamesDevice, mounterVars

LEMMA NextAnyRuns ==
    ASSUME AnyRunsInv, [NodeNext]_nodeVars
    PROVE  AnyRunsInv'
<1>1. ASSUME NEW r \in Runner, InitializerStep(r)
      PROVE  AnyRunsInv'
  <2>1. \A d \in Initializer!Unformatted : d \in Dev /\ Initializer!Bare(d) /\ Size[d] >= MinSize
      BY DEF Initializer!Unformatted
  <2>2. PICK S \in {{}, targets[r], Initializer!Unformatted} : targets' = [targets EXCEPT ![r] = S]
      BY <1>1, AnyRunSteps
  <2>3. S \subseteq Dev /\ \A d \in S : Initializer!Bare(d) /\ Size[d] >= MinSize
      BY <2>1 DEF AnyRunsInv
  <2>4. PICK T \in SUBSET targets'[r] : todo' = [todo EXCEPT ![r] = T]
      BY <1>1, AnyRunSteps
  <2>5. /\ targets' \in [Runner -> SUBSET Dev] /\ todo' \in [Runner -> SUBSET Dev]
        /\ \A q \in Runner : todo'[q] \subseteq targets'[q]
        /\ \A q \in Runner : \A d \in targets'[q] : Initializer!Bare(d) /\ Size[d] >= MinSize
      BY <2>2, <2>3, <2>4 DEF AnyRunsInv
  <2>6. initPc' \in [Runner -> {"idle", "lsblk", "mkfs", "settle", "done"}]
      BY <1>1, AnyRunSteps DEF AnyRunsInv
  <2>7. TypeInv'
      BY <1>1, RunKeepsTypes
  <2> QED BY <2>5, <2>6, <2>7 DEF AnyRunsInv, Initializer!Bare
<1>2. CASE ~\E r \in Runner : InitializerStep(r)
  <2>1. TypeInv' /\ UNCHANGED initVars
      BY <1>2, OtherSteps, NextTypeInv DEF AnyRunsInv
  <2> QED BY <2>1 DEF AnyRunsInv, initVars, Initializer!Bare
<1> QED BY <1>1, <1>2

LEMMA NodeAnyRuns == NodeSpec => []AnyRunsInv
BY InitAnyRuns, NextAnyRuns, PTL DEF NodeSpec

\* The guardrail does not rest on driver-init: however many runs overlap, time out or are
\* killed, and whatever they format, no call whose guardrail ran mounts a device of the
\* root disk.
THEOREM NodeRootDiskSafe ==
    ASSUME NamesAgree, RootOnOneDisk
    PROVE  NodeSpec => []RootDiskNeverMounted
<1> DEFINE I == PathGuarded /\ RootDiskNeverMounted
<1>1. NodeInit => I
  <2> SUFFICES ASSUME NodeInit PROVE I
      OBVIOUS
  <2>1. Init
      BY DEF NodeInit
  <2>2. PathGuarded
      BY <2>1 DEF Init, PathGuarded, Resolved
  <2>3. RootDiskNeverMounted
      BY <2>1 DEF Init, HostInit, RootDiskNeverMounted, Mounted
  <2> QED BY <2>2, <2>3
<1>2. AnyRunsInv /\ I /\ [NodeNext]_nodeVars => I'
  <2> SUFFICES ASSUME AnyRunsInv, I, [NodeNext]_nodeVars PROVE I'
      OBVIOUS
  <2>1. ASSUME NEW r \in Runner, InitializerStep(r)
        PROVE  I'
      BY <2>1, AnyRunSteps DEF mounterVars, PathGuarded, RootDiskNeverMounted, Mounted
  <2>2. CASE ~\E r \in Runner : InitializerStep(r)
      BY <2>2, OtherSteps, NextPathGuarded, NextRootDisk DEF AnyRunsInv
  <2> QED BY <2>1, <2>2
<1>3. I => RootDiskNeverMounted
    OBVIOUS
<1> QED BY <1>1, <1>2, <1>3, NodeAnyRuns, PTL DEF NodeSpec

-----------------------------------------------------------------------------
(* What no run of driver-init writes to                                    *)

\* udev's record of a protected device is the disk's, so that no listing shows a device that
\* had a filesystem at the start as unformatted.
OldDataInv ==
    /\ Initializer!ProtectedUntouched
    /\ \A d \in Initializer!Protected : udev[d] = Disk0[d]
    /\ \A r \in Runner : \A d \in targets[r] : ~HasFs(Disk0[d])

\* Formats spare what is protected, and udev records of it what is there.
LEMMA NextOldData ==
    ASSUME AnyRunsInv, OldDataInv, [NodeNext]_nodeVars
    PROVE  OldDataInv'
<1>a. disk \in [Dev -> Content] /\ udev \in [Dev -> Content]
    BY DEF AnyRunsInv, TypeInv, TypeOK, HostTypeOK
<1>b. \A d \in Initializer!Protected : d \in Dev /\ disk[d] = Disk0[d] /\ udev[d] = Disk0[d]
    BY DEF OldDataInv, Initializer!ProtectedUntouched, Initializer!Protected
<1>1. ASSUME NEW r \in Runner, InitializerStep(r)
      PROVE  OldDataInv'
  <2>1. \A q \in Runner : \A d \in targets'[q] : ~HasFs(Disk0[d])
    <3>1. PICK S \in {{}, targets[r], Initializer!Unformatted} : targets' = [targets EXCEPT ![r] = S]
        BY <1>1, AnyRunSteps
    <3>2. \A d \in Initializer!Unformatted : ~HasFs(Disk0[d])
        BY <1>b DEF Initializer!Unformatted, Initializer!Protected, Initializer!HasFs, HasFs
    <3> QED BY <3>1, <3>2 DEF AnyRunsInv, OldDataInv
  <2>2. CASE UNCHANGED <<disk, udev>>
      BY <2>1, <2>2 DEF OldDataInv, Initializer!ProtectedUntouched, Initializer!Protected
  <2>3. CASE Initializer!FormatNext(r) /\ udev' = udev
    <3> DEFINE c == Initializer!Current(r)
    <3>1. c \in targets[r] /\ c \in Dev
        BY <2>3, FormatsTarget DEF AnyRunsInv
    <3>2. c \notin Initializer!Protected
      <4>1. Initializer!Bare(c) /\ Size[c] >= MinSize /\ ~HasFs(Disk0[c])
          BY <3>1 DEF AnyRunsInv, OldDataInv
      <4> QED BY <3>1, <4>1, NodeAssumption DEF Initializer!Protected, Initializer!HasFs, HasFs
    <3>3. \A d \in Dev : d # c => disk'[d] = disk[d]
        BY <1>a, <2>3, FormatsTarget DEF Mkfs
    <3> HIDE DEF c
    <3>4. Initializer!ProtectedUntouched'
        BY <3>2, <3>3 DEF OldDataInv, Initializer!ProtectedUntouched, Initializer!Protected
    <3> QED BY <2>1, <2>3, <3>4 DEF OldDataInv, Initializer!Protected
  <2>4. CASE Initializer!Settle(r) /\ UNCHANGED disk /\ udev' \in {udev, disk}
      BY <1>b, <2>1, <2>4 DEF OldDataInv, Initializer!ProtectedUntouched, Initializer!Protected
  <2> QED BY <1>1, <2>2, <2>3, <2>4, AnyRunSteps
<1>2. CASE ~\E r \in Runner : InitializerStep(r)
  <2>1. UNCHANGED <<disk, initVars>>
      BY <1>2, OtherSteps
  <2>2. udev' = udev \/ \E d \in Dev : udev' = [udev EXCEPT ![d] = disk[d]]
      BY <1>2, OthersFrame DEF NodeNext, UdevStep, Udev, UdevRecords, nodeVars, hostVars
  <2>3. \A e \in Initializer!Protected : udev'[e] = Disk0[e]
      BY <1>a, <1>b, <2>2
  <2> QED BY <2>1, <2>3
      DEF OldDataInv, Initializer!ProtectedUntouched, Initializer!Protected, initVars
<1> QED BY <1>1, <1>2

LEMMA NodeOldData == NodeSpec => []OldDataInv
<1>1. NodeInit => OldDataInv
  <2> SUFFICES ASSUME NodeInit PROVE OldDataInv
      OBVIOUS
  <2>1. disk = Disk0 /\ udev = Disk0 /\ targets = [r \in Runner |-> {}]
      BY DEF NodeInit, Init, HostInit, Initializer!Init
  <2> QED BY <2>1 DEF OldDataInv, Initializer!ProtectedUntouched, Initializer!Protected
<1>2. AnyRunsInv /\ OldDataInv /\ [NodeNext]_nodeVars => OldDataInv'
    BY NextOldData
<1> QED BY <1>1, <1>2, NodeAnyRuns, PTL DEF NodeSpec

\* On a node with mounts, scans and any number of runs of driver-init, orderly or not, a
\* device that is partitioned, too small, or carried a filesystem before is never written to.
THEOREM NodeProtectedSafe == NodeSpec => []Initializer!ProtectedUntouched
<1>1. OldDataInv => Initializer!ProtectedUntouched
    BY DEF OldDataInv
<1> QED BY <1>1, NodeOldData, PTL

-----------------------------------------------------------------------------
(* Where the devices are mounted that no run writes to                     *)

\* What is mounted at u of the protected devices answers to u, and so does the device that
\* a call for u has resolved.
OldTargetsInv ==
    /\ \A p \in Proc :
          pc[p] \in Resolved /\ DeviceAt(path[p]) \in Initializer!Protected =>
              Answers(DeviceAt(path[p]), call[p].uuid, Disk0)
    /\ \A u \in Uuid : \A i \in DOMAIN mounts[u] :
          mounts[u][i] \in Initializer!Protected => Answers(mounts[u][i], u, Disk0)

\* A mount or an unmount brings at most one device to one target.
LEMMA MountedWhere ==
    ASSUME TypeInv, NEW p \in Proc, Mounts(p) \/ Unmounts(p),
           NEW v \in Uuid, NEW i \in DOMAIN mounts'[v]
    PROVE  \/ \E j \in DOMAIN mounts[v] : mounts[v][j] = mounts'[v][i]
           \/ Mounts(p) /\ v = call[p].uuid /\ mounts'[v][i] = DeviceAt(path[p])
<1> DEFINE s == mounts[v]
           d == DeviceAt(path[p])
<1>1. mounts \in [Uuid -> Seq(Dev)] /\ s \in Seq(Dev)
    BY DEF TypeInv, TypeOK, HostTypeOK
<1>2. CASE mounts'[v] = s
    BY <1>2
<1>3. CASE mounts'[v] # s
  <2>1. v = call[p].uuid
      BY <1>1, <1>3 DEF Mounts, Unmounts
  <2>2. CASE Mounts(p)
    <3>1. d \in Dev
        BY <2>2, ResolvedDevice DEF Mounts, Resolved
    <3>2. mounts'[v] = Append(s, d)
        BY <1>1, <2>1, <2>2 DEF Mounts
    <3> HIDE DEF s, d
    <3>3. (i \in DOMAIN s /\ mounts'[v][i] = s[i]) \/ mounts'[v][i] = d
        BY <1>1, <3>1, <3>2
    <3> QED BY <2>1, <2>2, <3>3 DEF s, d
  <2>3. CASE Unmounts(p)
    <3>1. mounts'[v] = SubSeq(s, 1, Len(s) - 1) /\ s # <<>>
        BY <1>1, <2>1, <2>3 DEF Unmounts
    <3> HIDE DEF s, d
    <3>2. i \in DOMAIN s /\ mounts'[v][i] = s[i]
        BY <1>1, <3>1
    <3> QED BY <3>2 DEF s
  <2> QED BY <2>2, <2>3
<1> QED BY <1>2, <1>3

\* A call resolves a protected device by its own identifier only, and mounts it there.
LEMMA ProcOldTargets ==
    ASSUME AnyRunsInv, OldDataInv, OldTargetsInv, NEW p \in Proc, ProcStep(p)
    PROVE  OldTargetsInv'
<1> DEFINE old == Initializer!Protected
<1>0. TypeInv /\ old' = old
    BY DEF AnyRunsInv, Initializer!Protected
<1>1. ASSUME NEW q \in Proc, pc'[q] \in Resolved, DeviceAt(path'[q]) \in old
      PROVE  Answers(DeviceAt(path'[q]), call'[q].uuid, Disk0)
  <2>1. CASE q # p
      BY <1>0, <1>1, <2>1, OthersUnchanged DEF OldTargetsInv
  <2>2. CASE q = p /\ Resolves(p)
    <3>1. PICK d \in Dev : path'[p] \in {d, KernelPath[d]} /\ Answers(d, call[p].uuid, udev)
        BY <2>2 DEF Resolves
    <3>2. DeviceAt(path'[p]) = d /\ d \in old
        BY <1>1, <2>2, <3>1, DeviceAtPath
    <3>3. udev[d] = Disk0[d]
        BY <3>2 DEF OldDataInv
    <3>4. call'[p] = call[p]
        BY <1>0, <1>1, <2>2, ResolvedStep
    <3> HIDE DEF old
    <3> QED BY <2>2, <3>1, <3>2, <3>3, <3>4 DEF Answers
  <2>3. CASE q = p /\ (PassesGuard(p) \/ PassesInfo(p) \/ PassesTarget(p))
    <3>1. call' = call /\ path' = path /\ pc[p] \in Resolved
        BY <1>0, <1>1, <2>3, ResolvedStep DEF PassesGuard, PassesInfo, PassesTarget, Resolved
    <3> QED BY <1>1, <2>3, <3>1 DEF OldTargetsInv
  <2> QED BY <1>0, <1>1, <2>1, <2>2, <2>3, ResolvedStep
<1>2. ASSUME NEW u \in Uuid, NEW i \in DOMAIN mounts'[u], mounts'[u][i] \in old
      PROVE  Answers(mounts'[u][i], u, Disk0)
  <2>1. CASE UNCHANGED mounts
      BY <1>2, <2>1 DEF OldTargetsInv
  <2>2. CASE \E j \in DOMAIN mounts[u] : mounts[u][j] = mounts'[u][i]
      BY <1>2, <2>2 DEF OldTargetsInv
  <2>3. CASE Mounts(p) /\ u = call[p].uuid /\ mounts'[u][i] = DeviceAt(path[p])
    <3>1. pc[p] \in Resolved
        BY <2>3 DEF Mounts, Resolved
    <3> QED BY <1>2, <2>3, <3>1 DEF OldTargetsInv
  <2> QED BY <1>0, <2>1, <2>2, <2>3, MountsStep, MountedWhere
<1> HIDE DEF old
<1> QED BY <1>0, <1>1, <1>2 DEF OldTargetsInv, Answers, old

\* Runs of driver-init mount nothing.
LEMMA NextOldTargets ==
    ASSUME AnyRunsInv, OldDataInv, OldTargetsInv, [NodeNext]_nodeVars
    PROVE  OldTargetsInv'
<1>0. UNCHANGED <<pc, call, path, mounts>> => OldTargetsInv'
    BY DEF OldTargetsInv, Answers, DeviceAt, Initializer!Protected
<1>1. ASSUME NEW r \in Runner, InitializerStep(r)
      PROVE  OldTargetsInv'
    BY <1>0, <1>1, AnyRunSteps DEF mounterVars
<1>2. CASE ~\E r \in Runner : InitializerStep(r)
  <2>1. [Next]_vars
      BY <1>2, OtherSteps
  <2>2. NodeStep \/ UNCHANGED vars => UNCHANGED <<pc, call, path, mounts>>
      BY NodeStepFrame DEF vars, hostVars, local
  <2> QED BY <1>0, <2>1, <2>2, NextCases, ProcOldTargets
<1> QED BY <1>1, <1>2

\* Old data is only ever found at its own target, even on a node on which runs of driver-init
\* overlap, time out or die and the mounter's guarantee for new filesystems is lost.
THEOREM NodeOldDataAtItsTarget ==
    NodeSpec => [](\A u \in Uuid : \A i \in DOMAIN mounts[u] :
                      mounts[u][i] \in Initializer!Protected => Answers(mounts[u][i], u, disk))
<1> DEFINE P == \A u \in Uuid : \A i \in DOMAIN mounts[u] :
                   mounts[u][i] \in Initializer!Protected => Answers(mounts[u][i], u, disk)
<1>1. NodeInit => OldTargetsInv
    BY DEF NodeInit, Init, HostInit, OldTargetsInv, Resolved
<1>2. AnyRunsInv /\ OldDataInv /\ OldTargetsInv /\ [NodeNext]_nodeVars => OldTargetsInv'
    BY NextOldTargets
<1>3. OldDataInv /\ OldTargetsInv => P
    BY DEF OldDataInv, OldTargetsInv, Initializer!ProtectedUntouched, Answers
<1> QED BY <1>1, <1>2, <1>3, NodeAnyRuns, NodeOldData, PTL DEF NodeSpec

-----------------------------------------------------------------------------
(* The lines of a report                                                   *)

\* Once the scan has begun, its history has what is mounted where; what was read is in it.
HistoryInv ==
    /\ scanPc # "idle" => Scanner!Now \subseteq was
    /\ \A m \in table \cup entries : <<m[2], m[1]>> \in was
    /\ \A r \in mounted : <<r.device, r.target>> \in was
    /\ \A r \in unmounted : <<Rows[r.row], None>> \in was

\* The other drivers and udevd leave the scan alone, and its history grows with the mounts.
LEMMA OthersForHistory ==
    ASSUME HistoryInv, UNCHANGED scanVars, ScannerNotices
    PROVE  HistoryInv'
<1>1. was \subseteq was' /\ (Scanner!Now' \subseteq was' \/ UNCHANGED <<Scanner!Now, was>>)
  <2>1. CASE Changed = {}
    <3>1. \A d \in Dev : TargetsOf(d)' = TargetsOf(d)
        BY <2>1 DEF Changed
    <3>2. \A d \in Dev, u \in Uuid :
              (\E i \in DOMAIN mounts'[u] : mounts'[u][i] = d)
                <=> (\E i \in DOMAIN mounts[u] : mounts[u][i] = d)
        BY <3>1 DEF TargetsOf
    <3>3. \A d \in Dev : Scanner!Idle(d)' <=> Scanner!Idle(d)
        BY <3>2 DEF Scanner!Idle, Scanner!Mounted
    <3>4. Scanner!Now' = Scanner!Now
        BY <3>2, <3>3 DEF Scanner!Now
    <3> QED BY <2>1, <3>4 DEF ScannerNotices
  <2>2. CASE Changed # {}
      BY <2>2 DEF ScannerNotices
  <2> QED BY <2>1, <2>2
<1> QED BY <1>1 DEF HistoryInv, scanVars

\* What the scan reads and reports is what is mounted, or is not, at that moment.
LEMMA ScannerForHistory ==
    ASSUME HistoryInv, ScannerStep
    PROVE  HistoryInv'
<1> USE DEF Scanner!hostVars, Scanner!ghosts
<1>0. UNCHANGED mounts
    BY DEF ScannerStep, Scanner!Scan, Scanner!ScanFails, Scanner!Begin, Scanner!ReadMounts,
       Scanner!AllMeasured, Scanner!AllDescribed, Scanner!ListUnmounted, Scanner!MeasureMount,
       Scanner!DescribeMount
<1>1. Scanner!Now' = Scanner!Now
    BY <1>0 DEF Scanner!Now, Scanner!Idle, Scanner!Mounted
<1>2. CASE Scanner!Begin
    BY <1>1, <1>2 DEF Scanner!Begin, HistoryInv
<1>3. CASE Scanner!ReadMounts
  <2>1. \A m \in table' : <<m[2], m[1]>> \in Scanner!Now
      BY <1>3 DEF Scanner!ReadMounts, Scanner!Now
  <2> QED BY <1>1, <1>3, <2>1 DEF Scanner!ReadMounts, HistoryInv
<1>4. ASSUME NEW m \in Uuid \X Dev, Scanner!MeasureMount(m)
      PROVE  HistoryInv'
  <2>1. was' = was /\ scanPc' = scanPc /\ UNCHANGED <<mounted, unmounted>>
      BY <1>4 DEF Scanner!MeasureMount
  <2>2. table' \cup entries' \subseteq table \cup entries
      BY <1>4 DEF Scanner!MeasureMount
  <2> QED BY <1>1, <2>1, <2>2 DEF HistoryInv
<1>5. ASSUME NEW m \in Uuid \X Dev, Scanner!DescribeMount(m)
      PROVE  HistoryInv'
  <2>1. was' = was /\ scanPc' = scanPc /\ UNCHANGED <<table, unmounted>>
      BY <1>5 DEF Scanner!DescribeMount
  <2>2. m \in entries /\ entries' \subseteq entries
      BY <1>5 DEF Scanner!DescribeMount
  <2>3. \E uuid : mounted' = mounted \cup {[target |-> m[1], device |-> m[2], uuid |-> uuid]}
      BY <1>5 DEF Scanner!DescribeMount
  <2> QED BY <1>1, <2>1, <2>2, <2>3 DEF HistoryInv
<1>6. CASE Scanner!ListUnmounted
  <2>1. ASSUME NEW r \in unmounted'
        PROVE  r.row \in DOMAIN Rows /\ Scanner!Idle(Rows[r.row])
    <3>1. PICK k \in {j \in DOMAIN Rows : Scanner!Free(j)} :
              \E x, s : r = [row |-> k, uuid |-> x, status |-> s]
        BY <1>6 DEF Scanner!ListUnmounted
    <3>2. r.row = k
        BY <3>1
    <3> QED BY <3>1, <3>2 DEF Scanner!Free
  <2>2. \A k \in DOMAIN Rows : Rows[k] \in Dev
      BY HostAssumption
  <2>3. \A r \in unmounted' : <<Rows[r.row], None>> \in Scanner!Now
      BY <2>1, <2>2 DEF Scanner!Now
  <2> QED BY <1>1, <1>6, <2>3 DEF Scanner!ListUnmounted, HistoryInv
<1>7. CASE Scanner!AllMeasured \/ Scanner!AllDescribed \/ Scanner!ScanFails
    BY <1>1, <1>7 DEF Scanner!AllMeasured, Scanner!AllDescribed, Scanner!ScanFails, HistoryInv
<1> QED BY <1>2, <1>3, <1>4, <1>5, <1>6, <1>7 DEF ScannerStep, Scanner!Scan

\* No line of a report is invented, even while runs of driver-init overlap, time out or die.
THEOREM NodeLinesTrue == NodeSpec => []Scanner!LinesWereTrue
<1>1. NodeInit => HistoryInv
    BY DEF NodeInit, Scanner!Init, HistoryInv
<1>2. HistoryInv /\ [NodeNext]_nodeVars => HistoryInv'
  <2> SUFFICES ASSUME HistoryInv, [NodeNext]_nodeVars PROVE HistoryInv'
      OBVIOUS
  <2>1. CASE UNCHANGED nodeVars
      BY <2>1 DEF nodeVars, hostVars, scanVars, HistoryInv, Scanner!Now, Scanner!Idle, Scanner!Mounted
  <2>2. ASSUME NEW p \in Proc,
               MounterStep(p) \/ MounterRetry(p) \/ MounterLeave(p) \/ MounterOther(p)
        PROVE  HistoryInv'
      BY <2>2, OthersForHistory
         DEF MounterStep, MounterRetry, MounterLeave, MounterOther, OthersWait
  <2>3. ASSUME NEW r \in Runner, InitializerStep(r)
        PROVE  HistoryInv'
      BY <2>3, OthersForHistory DEF InitializerStep
  <2>4. ASSUME NEW d \in Dev, UdevStep(d)
        PROVE  HistoryInv'
      BY <2>4, OthersForHistory DEF UdevStep, OthersWait
  <2> QED BY <2>1, <2>2, <2>3, <2>4, ScannerForHistory DEF NodeNext
<1>3. HistoryInv => Scanner!LinesWereTrue
    BY DEF HistoryInv, Scanner!LinesWereTrue
<1> QED BY <1>1, <1>2, <1>3, PTL DEF NodeSpec

-----------------------------------------------------------------------------
(* What a run reports                                                      *)

RunTypes ==
    /\ dryRun \in [Runner -> BOOLEAN]
    /\ initRes \in [Runner -> {"none", "ok", "error", "killed"}]
    /\ formatted \in [Runner -> SUBSET Dev]

\* What r has formatted carries a filesystem, and is what its loop has worked off.
Accounted(r) ==
    /\ \A d \in formatted[r] : HasFs(disk[d])
    /\ initPc[r] = "lsblk" => formatted[r] = {}
    /\ initPc[r] = "mkfs" => formatted[r] = (IF dryRun[r] THEN {} ELSE targets[r] \ todo[r])
    /\ initPc[r] = "settle" =>
          /\ ~dryRun[r] /\ todo[r] # {}
          /\ formatted[r] = (targets[r] \ todo[r]) \cup {Initializer!Current(r)}
    /\ initPc[r] = "done" /\ initRes[r] = "ok" =>
          formatted[r] = (IF dryRun[r] THEN {} ELSE targets[r])

AccountInv == RunTypes /\ \A r \in Runner : Accounted(r)

\* No step of the node takes a filesystem away.
LEMMA FilesystemsStay ==
    ASSUME AnyRunsInv, [NodeNext]_nodeVars, NEW d \in Dev, HasFs(disk[d])
    PROVE  HasFs(disk'[d])
<1>1. ASSUME NEW r \in Runner, Initializer!FormatNext(r)
      PROVE  HasFs(disk'[d])
  <2>1. PICK u \in Uuid : Mkfs(Initializer!Current(r), u, MkfsLabel)
      BY <1>1, FormatsTarget
  <2>2. u # None /\ disk \in [Dev -> Content]
      BY HostAssumption DEF AnyRunsInv, TypeInv, TypeOK, HostTypeOK
  <2> QED BY <2>1, <2>2 DEF Mkfs, HasFs
<1> QED BY <1>1, AnyRunSteps, OtherSteps DEF HasFs

\* What happens to the runs that a step of the node is not one of.
LEMMA AccountStays ==
    ASSUME AnyRunsInv, RunTypes, NEW q \in Runner, Accounted(q), [NodeNext]_nodeVars,
           UNCHANGED <<initPc[q], initRes[q], dryRun[q], targets[q], todo[q], formatted[q]>>
    PROVE  Accounted(q)'
<1>1. \A d \in formatted'[q] : d \in Dev /\ d \in formatted[q]
    BY DEF RunTypes
<1>2. \A d \in formatted'[q] : HasFs(disk'[d])
    BY <1>1, FilesystemsStay DEF Accounted
<1>3. Initializer!Current(q)' = Initializer!Current(q)
    BY DEF Initializer!Current, Initializer!FirstRow
<1> HIDE DEF RunTypes
<1> QED BY <1>2, <1>3 DEF Accounted, HasFs

\* The steps of a run, as far as its account goes.
LEMMA RunAccounted ==
    ASSUME AnyRunsInv, AccountInv, NodeNext, NEW r \in Runner, InitializerStep(r)
    PROVE  /\ RunTypes'
           /\ Accounted(r)'
           /\ \A q \in Runner \ {r} :
                 UNCHANGED <<initPc[q], initRes[q], dryRun[q], targets[q], todo[q], formatted[q]>>
<1> DEFINE c == Initializer!Current(r)
           kept(q) == UNCHANGED <<initPc[q], initRes[q], dryRun[q], targets[q], todo[q], formatted[q]>>
<1> USE DEF Initializer!hostVars
<1>a. /\ RunTypes /\ Accounted(r)
      /\ initPc \in [Runner -> {"idle", "lsblk", "mkfs", "settle", "done"}]
      /\ targets \in [Runner -> SUBSET Dev] /\ todo \in [Runner -> SUBSET Dev]
      /\ \A d \in formatted[r] : d \in Dev /\ HasFs(disk[d]) /\ HasFs(disk'[d])
  <2>1. \A d \in formatted[r] : d \in Dev /\ HasFs(disk[d])
      BY DEF AccountInv, Accounted, RunTypes
  <2> QED BY <2>1, FilesystemsStay DEF AccountInv, AnyRunsInv
<1>1. ASSUME NEW step, NEW dry \in BOOLEAN, Initializer!Reset(r, step, dry), step \in {"lsblk", "idle"}
      PROVE  RunTypes' /\ Accounted(r)' /\ \A q \in Runner \ {r} : kept(q)
    BY <1>1, <1>a DEF Initializer!Reset, RunTypes, Accounted
<1>2. CASE Initializer!Enumerate(r)
  <2>1. /\ initPc'[r] = "mkfs" /\ targets'[r] = todo'[r] /\ formatted'[r] = {}
        /\ \A q \in Runner \ {r} : kept(q)
      BY <1>2, <1>a DEF Initializer!Enumerate, Initializer!Goto, Accounted
  <2> QED BY <1>2, <1>a, <2>1 DEF Initializer!Enumerate, Initializer!Goto, Accounted, RunTypes
<1>3. CASE Initializer!LoopEnds(r)
  <2>1. initPc'[r] = "done" /\ \A q \in Runner \ {r} : kept(q)
      BY <1>3, <1>a DEF Initializer!LoopEnds, Initializer!Return, Initializer!history, RunTypes
  <2>2. formatted[r] = (IF dryRun[r] THEN {} ELSE targets[r])
      BY <1>3, <1>a DEF Initializer!LoopEnds, Initializer!Formats, Accounted
  <2> QED
      BY <1>3, <1>a, <2>1, <2>2
         DEF Initializer!LoopEnds, Initializer!Return, Initializer!history, Accounted, RunTypes
<1>4. CASE Initializer!FormatNext(r)
  <2>1. /\ initPc[r] = "mkfs" /\ ~dryRun[r] /\ todo[r] # {}
        /\ initPc'[r] = "settle" /\ UNCHANGED <<dryRun, targets, todo, initRes>>
        /\ formatted'[r] = formatted[r] \cup {c} /\ \A q \in Runner \ {r} : kept(q)
      BY <1>4, <1>a DEF Initializer!FormatNext, Initializer!Formats, Initializer!Goto, RunTypes
  <2>2. c' = c
      BY <2>1 DEF Initializer!Current, Initializer!FirstRow
  <2>3. c \in Dev /\ HasFs(disk'[c])
    <3>1. PICK u \in Uuid : Mkfs(c, u, MkfsLabel)
        BY <1>4, FormatsTarget
    <3>2. c \in Dev /\ u # None /\ disk \in [Dev -> Content]
        BY <1>4, FormatsTarget, HostAssumption DEF AnyRunsInv, TypeInv, TypeOK, HostTypeOK
    <3> HIDE DEF c
    <3> QED BY <3>1, <3>2 DEF Mkfs, HasFs
  <2>4. formatted' \in [Runner -> SUBSET Dev]
      BY <1>4, <1>a, <2>3 DEF Initializer!FormatNext, RunTypes
  <2> HIDE DEF c
  <2>5. RunTypes'
      BY <1>a, <2>1, <2>4 DEF RunTypes
  <2>6. Accounted(r)'
      BY <1>a, <2>1, <2>2, <2>3 DEF Accounted, HasFs, c
  <2> QED BY <2>1, <2>5, <2>6
<1>5. CASE Initializer!Settle(r)
  <2>1. /\ initPc[r] = "settle" /\ initPc'[r] = "mkfs" /\ todo'[r] = todo[r] \ {c}
        /\ UNCHANGED <<dryRun, targets, formatted, initRes>> /\ \A q \in Runner \ {r} : kept(q)
      BY <1>5, <1>a DEF Initializer!Settle, Initializer!Goto
  <2>2. c \in targets[r]
    <3>1. todo[r] # {} /\ todo[r] \subseteq targets[r]
        BY <1>a, <2>1 DEF Accounted, AnyRunsInv
    <3>2. \E k \in DOMAIN Rows : Rows[k] \in todo[r]
        BY <3>1 DEF AnyRunsInv, Initializer!Bare
    <3> QED BY <3>1, <3>2, FirstRowFound DEF Initializer!Current, Initializer!FirstRow, FirstRow
  <2>3. formatted'[r] = targets'[r] \ todo'[r] /\ ~dryRun'[r]
      BY <1>a, <2>1, <2>2 DEF Accounted
  <2> QED BY <1>a, <2>1, <2>3 DEF Accounted, RunTypes, HasFs
<1>6. ASSUME NEW outcome \in {"error", "killed"}, Initializer!Return(r, outcome),
             UNCHANGED <<dryRun, targets, todo, formatted>>
      PROVE  RunTypes' /\ Accounted(r)' /\ \A q \in Runner \ {r} : kept(q)
    BY <1>6, <1>a DEF Initializer!Return, RunTypes, Accounted, HasFs
<1>7. CASE (\E dry \in BOOLEAN : Initializer!Start(r, dry)) \/ Initializer!Finish(r)
    BY <1>1, <1>7 DEF Initializer!Start, Initializer!Finish
<1>8. CASE Initializer!FormatRefused(r) \/ Initializer!ProviderFails(r) \/ Initializer!Crash(r)
    BY <1>6, <1>8 DEF Initializer!FormatRefused, Initializer!ProviderFails, Initializer!Crash,
       Initializer!history
<1> QED BY <1>2, <1>3, <1>4, <1>5, <1>7, <1>8 DEF InitializerStep, Initializer!Step

\* What Init returns with a nil error is what it formatted, and it stays formatted, while other
\* runs, mounts and scans interleave with it in any way.
THEOREM NodeReportSafe == NodeSpec => []Initializer!ReportTrue
<1>1. NodeInit => AccountInv
    BY DEF NodeInit, Initializer!Init, AccountInv, Accounted, RunTypes
<1>2. AnyRunsInv /\ AccountInv /\ [NodeNext]_nodeVars => AccountInv'
  <2> SUFFICES ASSUME AnyRunsInv, AccountInv, [NodeNext]_nodeVars PROVE AccountInv'
      OBVIOUS
  <2>1. ASSUME NodeNext, NEW r \in Runner, InitializerStep(r)
        PROVE  AccountInv'
      BY <2>1, RunAccounted, AccountStays DEF AccountInv
  <2>2. CASE ~\E r \in Runner : InitializerStep(r)
    <3>1. UNCHANGED initVars
        BY <2>2, OtherSteps
    <3>2. \A q \in Runner : Accounted(q)'
        BY <3>1, AccountStays DEF AccountInv, initVars
    <3> QED BY <3>1, <3>2 DEF AccountInv, RunTypes, initVars
  <2>3. CASE UNCHANGED nodeVars
    <3>1. UNCHANGED initVars
        BY <2>3 DEF nodeVars
    <3>2. \A q \in Runner : Accounted(q)'
        BY <3>1, AccountStays DEF AccountInv, initVars
    <3> QED BY <3>1, <3>2 DEF AccountInv, RunTypes, initVars
  <2> QED BY <2>1, <2>2, <2>3
<1>3. AccountInv => Initializer!ReportTrue
    BY DEF AccountInv, Accounted, Initializer!ReportTrue, Initializer!HasFs, HasFs
<1> QED BY <1>1, <1>2, <1>3, NodeAnyRuns, PTL DEF NodeSpec

-----------------------------------------------------------------------------
(* What overwrites a filesystem                                            *)

\* A device that r is going to format carries a filesystem only if r's listing did not show it.
SeenBy(r) ==
    initPc[r] \in {"mkfs", "settle"} =>
        \A d \in Waiting(r) : HasFs(disk[d]) => d \in unseen[r]

SeenInv == unseen \in [Runner -> SUBSET Dev] /\ \A r \in Runner : SeenBy(r)

\* A run that a step is not one of is as much in the picture as before.
LEMMA SeenStays ==
    ASSUME AnyRunsInv, NEW q \in Runner, SeenBy(q), initPc'[q] \in {initPc[q], "done"},
           todo'[q] = todo[q], unseen[q] \subseteq unseen'[q],
           \A d \in Dev : HasFs(disk'[d]) => HasFs(disk[d]) \/ d \in unseen'[q]
    PROVE  SeenBy(q)'
<1>1. Initializer!Current(q)' = Initializer!Current(q)
    BY DEF Initializer!Current, Initializer!FirstRow
<1>2. todo[q] \subseteq Dev
    BY DEF AnyRunsInv
<1>3. initPc'[q] # "done" => Waiting(q)' = Waiting(q) /\ Waiting(q) \subseteq Dev /\ initPc'[q] = initPc[q]
    BY <1>1, <1>2 DEF Waiting
<1> QED BY <1>3 DEF SeenBy, HasFs

\* What a listing did not show, and what other runs format after it, is unseen.
LEMMA RunSeen ==
    ASSUME AnyRunsInv, SeenInv, NEW r \in Runner, InitializerStep(r)
    PROVE  SeenInv'
<1> DEFINE c == Initializer!Current(r)
<1> USE DEF Initializer!hostVars
<1>a. /\ initPc \in [Runner -> {"idle", "lsblk", "mkfs", "settle", "done"}]
      /\ todo \in [Runner -> SUBSET Dev] /\ unseen \in [Runner -> SUBSET Dev]
      /\ disk \in [Dev -> Content] /\ \A q \in Runner : SeenBy(q)
    BY DEF AnyRunsInv, SeenInv, TypeInv, TypeOK, HostTypeOK
<1>1. ASSUME NEW step, NEW dry, Initializer!Reset(r, step, dry), step \in {"lsblk", "idle"}
      PROVE  SeenInv'
  <2>1. /\ unseen' \in [Runner -> SUBSET Dev] /\ initPc'[r] \notin {"mkfs", "settle"} /\ disk' = disk
        /\ \A q \in Runner \ {r} : UNCHANGED <<initPc[q], todo[q], unseen[q]>>
      BY <1>1, <1>a DEF Initializer!Reset
  <2>2. \A q \in Runner \ {r} : SeenBy(q)'
      BY <2>1, <1>a, SeenStays
  <2> QED BY <2>1, <2>2 DEF SeenInv, SeenBy
<1>2. CASE Initializer!Enumerate(r)
  <2>1. /\ initPc'[r] = "mkfs" /\ disk' = disk
        /\ todo'[r] = Initializer!Unformatted /\ unseen'[r] = {d \in Dev : udev[d] # disk[d]}
        /\ unseen' \in [Runner -> SUBSET Dev]
        /\ \A q \in Runner \ {r} : UNCHANGED <<initPc[q], todo[q], unseen[q]>>
      BY <1>2, <1>a DEF Initializer!Enumerate, Initializer!Goto
  <2>2. \A d \in Initializer!Unformatted : HasFs(disk[d]) => d \in unseen'[r]
      BY <2>1 DEF Initializer!Unformatted, Initializer!HasFs, HasFs
  <2>3. SeenBy(r)'
      BY <2>1, <2>2 DEF SeenBy, Waiting, HasFs
  <2>4. \A q \in Runner \ {r} : SeenBy(q)'
      BY <2>1, <1>a, SeenStays
  <2> QED BY <2>1, <2>3, <2>4 DEF SeenInv
<1>3. CASE Initializer!FormatNext(r)
  <2>1. PICK u \in Uuid : Mkfs(c, u, MkfsLabel)
      BY <1>3, FormatsTarget
  <2>2. c \in Dev /\ todo[r] \subseteq Dev
      BY <1>3, <1>a, FormatsTarget DEF AnyRunsInv
  <2>3. /\ initPc[r] = "mkfs" /\ initPc'[r] = "settle" /\ todo' = todo
        /\ unseen' = [q \in Runner |-> IF q = r THEN unseen[q] ELSE unseen[q] \cup {c}]
        /\ \A q \in Runner \ {r} : UNCHANGED initPc[q]
      BY <1>3, <1>a DEF Initializer!FormatNext, Initializer!Goto
  <2>4. c' = c
      BY <2>3 DEF Initializer!Current, Initializer!FirstRow
  <2> HIDE DEF c
  <2>5. \A d \in Dev : d # c => disk'[d] = disk[d]
      BY <1>a, <2>1 DEF Mkfs
  <2>6. unseen' \in [Runner -> SUBSET Dev]
      BY <1>a, <2>2, <2>3
  <2>7. Waiting(r)' = todo[r] \ {c} /\ Waiting(r) = todo[r]
      BY <2>3, <2>4 DEF Waiting, c
  <2>8. SeenBy(r)'
      BY <1>a, <2>2, <2>3, <2>5, <2>7 DEF SeenBy, HasFs
  <2>9. \A q \in Runner \ {r} : SeenBy(q)'
    <3> SUFFICES ASSUME NEW q \in Runner \ {r} PROVE SeenBy(q)'
        OBVIOUS
    <3>1. unseen'[q] = unseen[q] \cup {c} /\ initPc'[q] = initPc[q] /\ todo'[q] = todo[q]
        BY <2>3
    <3>2. \A d \in Dev : HasFs(disk'[d]) => HasFs(disk[d]) \/ d \in unseen'[q]
        BY <2>5, <3>1 DEF HasFs
    <3> QED BY <1>a, <3>1, <3>2, SeenStays
  <2> QED BY <2>6, <2>8, <2>9 DEF SeenInv
<1>4. CASE Initializer!Settle(r)
  <2>1. /\ initPc[r] = "settle" /\ initPc'[r] = "mkfs" /\ todo'[r] = todo[r] \ {c}
        /\ UNCHANGED <<disk, unseen>>
        /\ \A q \in Runner \ {r} : UNCHANGED <<initPc[q], todo[q]>>
      BY <1>4, <1>a DEF Initializer!Settle, Initializer!Goto
  <2>2. SeenBy(r)'
      BY <1>a, <2>1 DEF SeenBy, Waiting, HasFs
  <2>3. \A q \in Runner \ {r} : SeenBy(q)'
      BY <1>a, <2>1, SeenStays
  <2> QED BY <1>a, <2>1, <2>2, <2>3 DEF SeenInv
<1>5. ASSUME NEW outcome, Initializer!Return(r, outcome), UNCHANGED <<disk, todo, unseen>>
      PROVE  SeenInv'
  <2>1. \A q \in Runner : initPc'[q] \in {initPc[q], "done"}
      BY <1>5, <1>a DEF Initializer!Return
  <2> QED BY <1>5, <1>a, <2>1, SeenStays DEF SeenInv
<1>6. CASE (\E dry \in BOOLEAN : Initializer!Start(r, dry)) \/ Initializer!Finish(r)
    BY <1>1, <1>6 DEF Initializer!Start, Initializer!Finish
<1>7. CASE \/ Initializer!LoopEnds(r) \/ Initializer!FormatRefused(r)
           \/ Initializer!ProviderFails(r) \/ Initializer!Crash(r)
    BY <1>5, <1>7 DEF Initializer!LoopEnds, Initializer!FormatRefused, Initializer!ProviderFails,
       Initializer!Crash, Initializer!history
<1> QED BY <1>2, <1>3, <1>4, <1>6, <1>7 DEF InitializerStep, Initializer!Step

\* The device that a step overwrites is one that some run has waited to format.
LEMMA NodeOverwriteStep ==
    ASSUME AnyRunsInv, [NodeNext]_nodeVars, NEW d \in Dev, disk'[d] # disk[d]
    PROVE  \E r \in Runner : initPc[r] = "mkfs" /\ initPc'[r] = "settle" /\ d \in Waiting(r)
<1>1. PICK r \in Runner : InitializerStep(r) /\ Initializer!FormatNext(r)
    BY AnyRunSteps, OtherSteps
<1>2. d = Initializer!Current(r)
    BY <1>1, FormatsTarget DEF Mkfs, AnyRunsInv, TypeInv, TypeOK, HostTypeOK
<1>3. initPc[r] = "mkfs" /\ initPc'[r] = "settle" /\ todo[r] # {}
    BY <1>1 DEF Initializer!FormatNext, Initializer!Formats, Initializer!Goto, AnyRunsInv
<1>4. d \in todo[r]
  <2>1. \E k \in DOMAIN Rows : Rows[k] \in todo[r]
      BY <1>3 DEF AnyRunsInv, Initializer!Bare
  <2> QED BY <1>2, <2>1, FirstRowFound DEF Initializer!Current, Initializer!FirstRow, FirstRow
<1> QED BY <1>3, <1>4 DEF Waiting

\* On the whole node, a filesystem is only ever overwritten by a run of driver-init whose one
\* listing could not show it: no mount, unmount, scan or udevd has any part in it.
THEOREM NodeOverwritesExplained == NodeSpec => Initializer!OverwriteExplained
<1> DEFINE Explained ==
        \A d \in Dev : disk'[d] # disk[d] /\ HasFs(disk[d]) =>
            \E r \in Runner : initPc[r] = "mkfs" /\ initPc'[r] = "settle" /\ d \in unseen[r]
<1>1. NodeInit => SeenInv
    BY DEF NodeInit, Initializer!Init, SeenInv, SeenBy
<1>2. AnyRunsInv /\ SeenInv /\ [NodeNext]_nodeVars => SeenInv'
  <2> SUFFICES ASSUME AnyRunsInv, SeenInv, [NodeNext]_nodeVars PROVE SeenInv'
      OBVIOUS
  <2>1. CASE ~\E r \in Runner : InitializerStep(r)
    <3>1. UNCHANGED <<disk, initVars>>
        BY <2>1, OtherSteps
    <3>2. \A q \in Runner : SeenBy(q)'
        BY <3>1, SeenStays DEF SeenInv, initVars
    <3> QED BY <3>1, <3>2 DEF SeenInv, initVars
  <2> QED BY <2>1, RunSeen
<1>3. AnyRunsInv /\ SeenInv /\ [NodeNext]_nodeVars => Explained
    BY NodeOverwriteStep DEF SeenInv, SeenBy
<1>4. Initializer!OverwriteExplained <=> [][Explained]_(Initializer!vars)
    BY DEF Initializer!OverwriteExplained, Initializer!HasFs, HasFs
<1> HIDE DEF Explained
<1> QED BY <1>1, <1>2, <1>3, <1>4, NodeAnyRuns, PTL DEF NodeSpec

-----------------------------------------------------------------------------
(* What the settle protects                                                *)

\* udev lags behind a disk only until the settle of the run that wrote it.
Lag(d) ==
    udev[d] # disk[d] =>
        \/ d \in unsettled
        \/ \E q \in Runner : initPc[q] = "settle" /\ Initializer!Current(q) = d

\* A device that r is going to format carries a filesystem only if its settle has failed,
\* or another run has overlapped with r on it.
RacedBy(r) ==
    initPc[r] \in {"mkfs", "settle"} =>
        \A d \in Waiting(r) : HasFs(disk[d]) => d \in unsettled \cup raced[r]

SettledInv ==
    /\ raced = [q \in Runner |-> raced[q]]
    /\ \A d \in Dev : Lag(d)
    /\ \A r \in Runner : RacedBy(r)

\* A run that a step is not one of is protected as before.
LEMMA RacedStays ==
    ASSUME AnyRunsInv, NEW q \in Runner, RacedBy(q), initPc'[q] \in {initPc[q], "done"},
           todo'[q] = todo[q], unsettled \subseteq unsettled', raced[q] \subseteq raced'[q],
           \A d \in Dev : HasFs(disk'[d]) => HasFs(disk[d]) \/ d \in raced'[q]
    PROVE  RacedBy(q)'
<1>1. Initializer!Current(q)' = Initializer!Current(q)
    BY DEF Initializer!Current, Initializer!FirstRow
<1>2. todo[q] \subseteq Dev
    BY DEF AnyRunsInv
<1>3. initPc'[q] # "done" => Waiting(q)' = Waiting(q) /\ Waiting(q) \subseteq Dev /\ initPc'[q] = initPc[q]
    BY <1>1, <1>2 DEF Waiting
<1> QED BY <1>3 DEF RacedBy, HasFs

\* A run that still waits for udevd, or has given it up, accounts for the lag as before.
LEMMA LagStays ==
    ASSUME NEW d \in Dev, Lag(d), unsettled \subseteq unsettled',
           disk'[d] = disk[d], udev'[d] \in {udev[d], disk[d]},
           \A q \in Runner : initPc[q] = "settle" =>
               \/ initPc'[q] = "settle" /\ todo'[q] = todo[q]
               \/ Initializer!Current(q) \in unsettled'
    PROVE  Lag(d)'
<1> SUFFICES ASSUME udev[d] # disk[d], d \notin unsettled'
             PROVE  \E q \in Runner : initPc'[q] = "settle" /\ Initializer!Current(q)' = d
    BY DEF Lag
<1>1. PICK q \in Runner : initPc[q] = "settle" /\ Initializer!Current(q) = d
    BY DEF Lag
<1>2. initPc'[q] = "settle" /\ todo'[q] = todo[q]
    BY <1>1
<1> QED BY <1>1, <1>2 DEF Initializer!Current, Initializer!FirstRow

\* The steps of a run.
LEMMA RunSettled ==
    ASSUME AnyRunsInv, SettledInv, NEW r \in Runner, InitializerStep(r)
    PROVE  SettledInv'
<1> DEFINE c == Initializer!Current(r)
<1> USE DEF Initializer!hostVars, Initializer!history
<1>a. /\ initPc \in [Runner -> {"idle", "lsblk", "mkfs", "settle", "done"}]
      /\ todo \in [Runner -> SUBSET Dev] /\ raced = [q \in Runner |-> raced[q]]
      /\ disk \in [Dev -> Content]
      /\ (\A d \in Dev : Lag(d)) /\ \A q \in Runner : RacedBy(q)
    BY DEF AnyRunsInv, SettledInv, TypeInv, TypeOK, HostTypeOK
<1>1. ASSUME NEW step, NEW dry, Initializer!Reset(r, step, dry), step \in {"lsblk", "idle"},
             initPc[r] # "settle"
      PROVE  SettledInv'
  <2>1. /\ raced' = [raced EXCEPT ![r] = {}] /\ initPc'[r] \notin {"mkfs", "settle"}
        /\ UNCHANGED <<disk, udev, unsettled>>
        /\ \A q \in Runner \ {r} : UNCHANGED <<initPc[q], todo[q]>>
      BY <1>1, <1>a DEF Initializer!Reset
  <2>2. raced' = [q \in Runner |-> raced'[q]] /\ \A q \in Runner \ {r} : raced'[q] = raced[q]
      BY <1>a, <2>1
  <2>3. \A q \in Runner \ {r} : RacedBy(q)'
      BY <2>1, <2>2, <1>a, RacedStays
  <2>4. \A d \in Dev : Lag(d)'
      BY <1>1, <2>1, <1>a, LagStays
  <2> QED BY <2>1, <2>2, <2>3, <2>4 DEF SettledInv, RacedBy
<1>2. CASE Initializer!Enumerate(r)
  <2> DEFINE R == {Initializer!Current(q) : q \in {q \in Runner : initPc[q] = "settle"}}
  <2>1. /\ initPc[r] = "lsblk" /\ initPc'[r] = "mkfs" /\ UNCHANGED <<disk, udev, unsettled>>
        /\ todo'[r] = Initializer!Unformatted /\ raced' = [raced EXCEPT ![r] = R]
        /\ \A q \in Runner \ {r} : UNCHANGED <<initPc[q], todo[q]>>
      BY <1>2, <1>a DEF Initializer!Enumerate, Initializer!Goto
  <2>2. /\ raced' = [q \in Runner |-> raced'[q]] /\ raced'[r] = R
        /\ \A q \in Runner \ {r} : raced'[q] = raced[q]
      BY <1>a, <2>1
  <2>3. \A d \in Initializer!Unformatted : d \in Dev /\ ~HasFs(udev[d])
      BY SelectedBlank
  <2>4. \A d \in Initializer!Unformatted : HasFs(disk[d]) => d \in unsettled \cup R
      BY <1>a, <2>3 DEF Lag
  <2> HIDE DEF R
  <2>5. RacedBy(r)'
      BY <2>1, <2>2, <2>4 DEF RacedBy, Waiting, HasFs
  <2>6. \A q \in Runner \ {r} : RacedBy(q)'
      BY <2>1, <2>2, <1>a, RacedStays
  <2>7. \A d \in Dev : Lag(d)'
      BY <2>1, <1>a, LagStays
  <2> QED BY <2>2, <2>5, <2>6, <2>7 DEF SettledInv
<1>3. CASE Initializer!FormatNext(r)
  <2>1. PICK u \in Uuid : Mkfs(c, u, MkfsLabel)
      BY <1>3, FormatsTarget
  <2>2. c \in Dev /\ todo[r] \subseteq Dev
      BY <1>3, <1>a, FormatsTarget DEF AnyRunsInv
  <2>3. /\ initPc[r] = "mkfs" /\ initPc'[r] = "settle" /\ UNCHANGED <<todo, udev, unsettled>>
        /\ raced' = [q \in Runner |-> IF q = r THEN raced[q] ELSE raced[q] \cup {c}]
        /\ \A q \in Runner \ {r} : UNCHANGED initPc[q]
      BY <1>3, <1>a DEF Initializer!FormatNext, Initializer!Goto
  <2>4. c' = c
      BY <2>3 DEF Initializer!Current, Initializer!FirstRow
  <2>5. \A d \in Dev : d = c => Lag(d)'
      BY <2>3, <2>4 DEF Lag
  <2> HIDE DEF c
  <2>6. \A d \in Dev : d # c => disk'[d] = disk[d]
      BY <1>a, <2>1 DEF Mkfs
  <2>7. /\ raced' = [q \in Runner |-> raced'[q]] /\ raced'[r] = raced[r]
        /\ \A q \in Runner \ {r} : raced'[q] = raced[q] \cup {c}
      BY <2>3
  <2>8. Waiting(r)' = todo[r] \ {c} /\ Waiting(r) = todo[r]
      BY <2>3, <2>4 DEF Waiting, c
  <2>9. RacedBy(r)'
      BY <1>a, <2>2, <2>3, <2>6, <2>7, <2>8 DEF RacedBy, HasFs
  <2>10. \A q \in Runner \ {r} : RacedBy(q)'
    <3> SUFFICES ASSUME NEW q \in Runner \ {r} PROVE RacedBy(q)'
        OBVIOUS
    <3>1. raced'[q] = raced[q] \cup {c} /\ initPc'[q] = initPc[q] /\ todo'[q] = todo[q]
        BY <2>3, <2>7
    <3>2. \A d \in Dev : HasFs(disk'[d]) => HasFs(disk[d]) \/ d \in raced'[q]
        BY <2>6, <3>1 DEF HasFs
    <3> QED BY <1>a, <2>3, <3>1, <3>2, RacedStays
  <2>11. \A d \in Dev : d # c => Lag(d)'
    <3> SUFFICES ASSUME NEW d \in Dev, d # c PROVE Lag(d)'
        OBVIOUS
    <3>1. \A q \in Runner : initPc[q] = "settle" => initPc'[q] = "settle" /\ todo'[q] = todo[q]
        BY <2>3
    <3> QED BY <1>a, <2>3, <2>6, <3>1, LagStays
  <2> QED BY <2>5, <2>7, <2>9, <2>10, <2>11 DEF SettledInv
<1>4. CASE Initializer!Settle(r)
  <2>1. /\ initPc[r] = "settle" /\ initPc'[r] = "mkfs" /\ todo'[r] = todo[r] \ {c}
        /\ UNCHANGED <<disk, raced>> /\ unsettled \subseteq unsettled'
        /\ udev' = disk \/ (udev' = udev /\ c \in unsettled')
        /\ \A q \in Runner \ {r} : UNCHANGED <<initPc[q], todo[q]>>
      BY <1>4, <1>a DEF Initializer!Settle, Initializer!Goto
  <2>2. RacedBy(r)'
      BY <1>a, <2>1 DEF RacedBy, Waiting, HasFs
  <2>3. \A q \in Runner \ {r} : RacedBy(q)'
      BY <1>a, <2>1, RacedStays
  <2>4. CASE udev' = disk
    <3>1. \A d \in Dev : Lag(d)'
        BY <2>1, <2>4 DEF Lag
    <3> QED BY <1>a, <2>1, <2>2, <2>3, <3>1 DEF SettledInv
  <2>5. CASE udev' = udev /\ c \in unsettled'
    <3>1. \A d \in Dev : Lag(d)'
        BY <1>a, <2>1, <2>5, LagStays
    <3> QED BY <1>a, <2>1, <2>2, <2>3, <3>1 DEF SettledInv
  <2> QED BY <2>1, <2>4, <2>5
<1>5. ASSUME NEW outcome, Initializer!Return(r, outcome), UNCHANGED <<disk, udev, todo, raced>>,
             unsettled \subseteq unsettled', initPc[r] = "settle" => c \in unsettled'
      PROVE  SettledInv'
  <2>1. \A q \in Runner : initPc'[q] \in {initPc[q], "done"} /\ (q # r => initPc'[q] = initPc[q])
      BY <1>5, <1>a DEF Initializer!Return
  <2>2. \A q \in Runner : RacedBy(q)'
      BY <1>5, <1>a, <2>1, RacedStays
  <2>3. \A d \in Dev : Lag(d)'
      BY <1>5, <1>a, <2>1, LagStays
  <2> QED BY <1>5, <1>a, <2>2, <2>3 DEF SettledInv
<1>6. CASE (\E dry \in BOOLEAN : Initializer!Start(r, dry)) \/ Initializer!Finish(r)
    BY <1>1, <1>6 DEF Initializer!Start, Initializer!Finish
<1>7. CASE \/ Initializer!LoopEnds(r) \/ Initializer!FormatRefused(r) \/ Initializer!ProviderFails(r)
    BY <1>5, <1>7 DEF Initializer!LoopEnds, Initializer!FormatRefused, Initializer!ProviderFails
<1>8. CASE Initializer!Crash(r)
    BY <1>5, <1>8 DEF Initializer!Crash
<1> QED BY <1>2, <1>3, <1>4, <1>6, <1>7, <1>8 DEF InitializerStep, Initializer!Step

\* The steps of the others, of which only those of udevd touch its records.
LEMMA OthersSettled ==
    ASSUME AnyRunsInv, SettledInv, [NodeNext]_nodeVars, ~\E r \in Runner : InitializerStep(r)
    PROVE  SettledInv'
<1>1. UNCHANGED <<disk, initVars>>
    BY OtherSteps
<1>2. \A d \in Dev : udev'[d] \in {udev[d], disk[d]}
  <2>1. CASE UNCHANGED nodeVars
      BY <2>1 DEF nodeVars, hostVars
  <2>2. ASSUME NEW d \in Dev, UdevStep(d)
        PROVE  udev' = [udev EXCEPT ![d] = disk[d]]
      BY <2>2 DEF UdevStep, Udev, UdevRecords
  <2> QED BY <2>1, <2>2, OthersFrame DEF NodeNext, AnyRunsInv, TypeInv, TypeOK, HostTypeOK
<1>3. \A d \in Dev : Lag(d)'
    BY <1>1, <1>2, LagStays DEF SettledInv, initVars
<1>4. \A q \in Runner : RacedBy(q)'
    BY <1>1, RacedStays DEF SettledInv, initVars
<1> QED BY <1>1, <1>3, <1>4 DEF SettledInv, initVars

\* On the whole node, with any number of runs, mounts and scans, a filesystem is only overwritten
\* when the settle of its device timed out or was never reached, or by a run that overlapped
\* with its formatting.
THEOREM NodeSettlesProtect == NodeSpec => Initializer!SettleProtects
<1> DEFINE Settled ==
        \A d \in Dev : disk'[d] # disk[d] /\ HasFs(disk[d]) =>
            \/ d \in unsettled
            \/ \E r \in Runner : initPc[r] = "mkfs" /\ initPc'[r] = "settle" /\ d \in raced[r]
<1>1. NodeInit => SettledInv
    BY DEF NodeInit, Init, HostInit, Initializer!Init, SettledInv, Lag, RacedBy
<1>2. AnyRunsInv /\ SettledInv /\ [NodeNext]_nodeVars => SettledInv'
    BY RunSettled, OthersSettled
<1>3. AnyRunsInv /\ SettledInv /\ [NodeNext]_nodeVars => Settled
    BY NodeOverwriteStep DEF SettledInv, RacedBy
<1>4. Initializer!SettleProtects <=> [][Settled]_(Initializer!vars)
    BY DEF Initializer!SettleProtects, Initializer!HasFs, HasFs
<1> HIDE DEF Settled
<1> QED BY <1>1, <1>2, <1>3, <1>4, NodeAnyRuns, PTL DEF NodeSpec

-----------------------------------------------------------------------------
(* What follows for the mounter                                            *)

\* Next to orderly runs of driver-init, any number of scans and udevd, each call of the
\* mounter still takes effect at one moment, or not at all.
THEOREM NodeContractKept ==
    ASSUME OrderlyInit
    PROVE  NodeSpec => ImplementsContract
BY MounterKept, ContractKept, PTL DEF MounterUnharmed

\* And a --managed-only call only ever mounts a device that carries the label at that moment.
THEOREM NodeLabelSafe ==
    ASSUME OrderlyInit
    PROVE  NodeSpec => ManagedMountsLabelled
BY MounterKept, LabelSafe, PTL DEF MounterUnharmed

\* And a call that none of the other actors has disturbed is refused only for a reason that
\* the device gives.
THEOREM NodeRefusalsExplained ==
    ASSUME OrderlyInit, NamesAgree
    PROVE  NodeSpec => []RefusalExplained
BY MounterKept, RefusalsExplained, PTL DEF MounterUnharmed
=============================================================================
