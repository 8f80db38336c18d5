----------------------- MODULE DiskInitializer_proofs -----------------------
(***************************************************************************)
(* Proofs about DiskInitializer, for every node, every number of           *)
(* concurrent runs of driver-init and any number of faults.                *)
(***************************************************************************)
EXTENDS DiskInitializer, BlockHost_proofs

(* Types                                                                   *)

\* Init selects from the listing, and what it selects stays selected.
TargetsBare ==
    \A r \in Runner : \A d \in targets[r] : Bare(d) /\ Size[d] >= MinSize

\* A run that waits for udevd waits for one of its targets.
SettlesTarget == \A r \in Runner : pc[r] = "settle" => todo[r] # {}

TypeInv == TypeOK /\ TargetsBare /\ SettlesTarget

LEMMA InitTypeInv ==
    ASSUME Init
    PROVE  TypeInv
<1>1. HostTypeOK
    BY HostInitTypeOK DEF Init
<1>2. TypeOK
    BY <1>1, InitializerAssumption DEF Init, TypeOK
<1>3. TargetsBare /\ SettlesTarget
    BY DEF Init, TargetsBare, SettlesTarget
<1> QED BY <1>2, <1>3 DEF TypeInv

\* A fault uses up one of the MaxFaults.
LEMMA FaultType ==
    ASSUME faults \in 0..MaxFaults, Fault
    PROVE  faults' \in 0..MaxFaults
BY InitializerAssumption DEF Fault

\* The device that the format loop has reached is one of the targets.
LEMMA CurrentIsTarget ==
    ASSUME TypeInv, NEW r \in Runner, todo[r] # {}
    PROVE  /\ Current(r) \in todo[r]
           /\ Current(r) \in targets[r]
           /\ Current(r) \in Dev
<1>1. todo[r] \subseteq targets[r] /\ targets[r] \subseteq Dev
    BY DEF TypeInv, TypeOK
<1>2. PICK d \in todo[r] : Bare(d)
    BY <1>1 DEF TypeInv, TargetsBare
<1>3. \E k \in DOMAIN Rows : Rows[k] \in todo[r]
    BY <1>2 DEF Bare
<1>4. Current(r) \in todo[r]
    BY <1>3, FirstRowFound DEF Current
<1> QED BY <1>1, <1>4

\* Every step of a run or of the node preserves TypeInv.
LEMMA NextTypeInv ==
    ASSUME TypeInv, [Next]_vars
    PROVE  TypeInv'
<1> USE DEF TypeInv, TypeOK, HostTypeOK, TargetsBare, SettlesTarget, hostVars, history
<1>1. ASSUME NEW r \in Runner, NEW dry \in BOOLEAN, Start(r, dry)
      PROVE  TypeInv'
    BY <1>1 DEF Start, Reset
<1>2. ASSUME NEW r \in Runner, Finish(r)
      PROVE  TypeInv'
    BY <1>2 DEF Finish, Reset
<1>3. ASSUME NEW r \in Runner, Enumerate(r)
      PROVE  TypeInv'
  <2>1. Unformatted \subseteq Dev /\ {d \in Dev : udev[d] # disk[d]} \subseteq Dev
      BY DEF Unformatted
  <2>2. \A d \in Unformatted : Bare(d) /\ Size[d] >= MinSize
      BY DEF Unformatted
  <2>3. {Current(q) : q \in {q \in Runner : pc[q] = "settle"}} \subseteq Dev
      BY CurrentIsTarget
  <2> QED BY <1>3, <2>1, <2>2, <2>3 DEF Enumerate, Goto
<1>4. ASSUME NEW r \in Runner, LoopEnds(r)
      PROVE  TypeInv'
    BY <1>4 DEF LoopEnds, Return
<1>5. ASSUME NEW r \in Runner, FormatNext(r)
      PROVE  TypeInv'
  <2> DEFINE c == Current(r)
  <2>1. PICK u \in Uuid : Mkfs(c, u, MkfsLabel)
      BY <1>5 DEF FormatNext
  <2>2. c \in Dev
      BY <1>5, CurrentIsTarget DEF FormatNext, Formats
  <2>3. disk' \in [Dev -> Content]
      BY <2>1, <2>2, InitializerAssumption, MkfsType
  <2> HIDE DEF c
  <2>4. {formatted', unseen', raced'} \subseteq [Runner -> SUBSET Dev] /\ todo'[r] # {}
      BY <1>5, <2>2 DEF FormatNext, Formats, c
  <2> QED BY <1>5, <2>3, <2>4 DEF FormatNext, Goto
<1>6. ASSUME NEW r \in Runner, FormatRefused(r)
      PROVE  TypeInv'
    BY <1>6 DEF FormatRefused, Return
<1>7. ASSUME NEW r \in Runner, Settle(r)
      PROVE  TypeInv'
  <2>1. Current(r) \in Dev
      BY <1>7, CurrentIsTarget DEF Settle
  <2>2. unsettled' \subseteq Dev
      BY <1>7, <2>1 DEF Settle
  <2> QED BY <1>7, <2>2, FaultType DEF Settle, Goto
<1>8. ASSUME NEW r \in Runner, ProviderFails(r)
      PROVE  TypeInv'
    BY <1>8, FaultType DEF ProviderFails, Return
<1>9. ASSUME NEW r \in Runner, Crash(r)
      PROVE  TypeInv'
  <2>1. unsettled' \subseteq Dev
      BY <1>9, CurrentIsTarget DEF Crash
  <2> QED BY <1>9, <2>1, FaultType DEF Crash, Return
<1>10. ASSUME NEW d \in Dev, Udev(d)
       PROVE  TypeInv'
    BY <1>10 DEF Udev, UdevRecords, local
<1>11. ASSUME NEW d \in Dev, MountFs(d)
       PROVE  TypeInv'
  <2>1. PICK u \in Uuid : mounts' = [mounts EXCEPT ![u] = Append(@, d)]
      BY <1>11 DEF MountFs
  <2>2. Append(mounts[u], d) \in Seq(Dev)
      OBVIOUS
  <2>3. mounts' \in [Uuid -> Seq(Dev)]
      BY <2>1, <2>2
  <2> QED BY <1>11, <2>3 DEF MountFs, local
<1>12. ASSUME NEW d \in Dev, UnmountFs(d)
       PROVE  TypeInv'
  <2>1. PICK u \in Uuid : /\ mounts[u] # <<>>
                         /\ mounts' = [mounts EXCEPT ![u] = SubSeq(@, 1, Len(@) - 1)]
      BY <1>12 DEF UnmountFs
  <2>2. \A s \in Seq(Dev) : s # <<>> => SubSeq(s, 1, Len(s) - 1) \in Seq(Dev)
      OBVIOUS
  <2>3. mounts' \in [Uuid -> Seq(Dev)]
      BY <2>1, <2>2
  <2> QED BY <1>12, <2>3 DEF UnmountFs, local
<1>13. CASE UNCHANGED vars
    BY <1>13 DEF vars, local
<1> QED
    BY <1>1, <1>2, <1>3, <1>4, <1>5, <1>6, <1>7, <1>8, <1>9, <1>10, <1>11, <1>12, <1>13,
       InitializerAssumption
       DEF Next, Step

\* Every reachable state of driver-init is well typed.
THEOREM InitializerTypeCorrect == Spec => []TypeOK
<1>1. Init => TypeInv
    BY InitTypeInv
<1>2. TypeInv /\ [Next]_vars => TypeInv'
    BY NextTypeInv
<1>3. TypeInv => TypeOK
    BY DEF TypeInv
<1> QED BY <1>1, <1>2, <1>3, PTL DEF Spec

-----------------------------------------------------------------------------
(* What the initializer never writes to                                    *)

\* udev's record of a device that had a filesystem at the start is the disk's,
\* so that no listing shows it as unformatted, and none of the targets is
\* protected.
ProtectedInv ==
    /\ ProtectedUntouched
    /\ \A d \in Dev : HasFs(Disk0[d]) => udev[d] = Disk0[d]
    /\ \A r \in Runner : \A d \in targets[r] : ~HasFs(Disk0[d])

\* A target is not protected.
LEMMA TargetUnprotected ==
    ASSUME TypeInv, ProtectedInv, NEW r \in Runner, NEW d \in targets[r]
    PROVE  d \notin Protected
<1>1. d \in Dev /\ Size[d] \in Nat /\ MinSize \in Nat
    BY InitializerAssumption DEF TypeInv, TypeOK
<1>2. Bare(d) /\ Size[d] >= MinSize
    BY DEF TypeInv, TargetsBare
<1>3. ~HasFs(Disk0[d])
    BY DEF ProtectedInv
<1> QED BY <1>1, <1>2, <1>3 DEF Protected

\* The disk and udev agree on a device that had a filesystem at the start.
LEMMA OldDataRecorded ==
    ASSUME ProtectedInv, NEW d \in Dev, HasFs(Disk0[d])
    PROVE  disk[d] = Disk0[d] /\ udev[d] = Disk0[d]
BY DEF ProtectedInv, ProtectedUntouched, Protected

\* Every step preserves ProtectedInv: mkfs writes to targets only.
LEMMA NextProtectedInv ==
    ASSUME TypeInv, ProtectedInv, [Next]_vars
    PROVE  ProtectedInv'
<1> USE DEF hostVars, history
<1>a. TypeOK /\ HostTypeOK
    BY DEF TypeInv, TypeOK
<1>1. ASSUME NEW r \in Runner, NEW dry \in BOOLEAN, Start(r, dry)
      PROVE  ProtectedInv'
    BY <1>1, <1>a DEF Start, Reset, ProtectedInv, ProtectedUntouched, TypeOK
<1>2. ASSUME NEW r \in Runner, Finish(r)
      PROVE  ProtectedInv'
    BY <1>2, <1>a DEF Finish, Reset, ProtectedInv, ProtectedUntouched, TypeOK
<1>3. ASSUME NEW r \in Runner, Enumerate(r)
      PROVE  ProtectedInv'
  <2>1. \A d \in Unformatted : ~HasFs(Disk0[d])
      BY DEF Unformatted, ProtectedInv
  <2> QED
      BY <1>3, <1>a, <2>1 DEF Enumerate, ProtectedInv, ProtectedUntouched, TypeOK
<1>4. ASSUME NEW r \in Runner, FormatNext(r)
      PROVE  ProtectedInv'
  <2> DEFINE c == Current(r)
  <2>1. c \notin Protected
      BY <1>4, CurrentIsTarget, TargetUnprotected DEF FormatNext, Formats
  <2>2. PICK u \in Uuid : Mkfs(c, u, MkfsLabel)
      BY <1>4 DEF FormatNext
  <2>3. \A d \in Dev : d # c => disk'[d] = disk[d]
      BY <2>2, <1>a DEF Mkfs, HostTypeOK
  <2> HIDE DEF c
  <2>4. ProtectedUntouched'
      BY <2>1, <2>3 DEF ProtectedInv, ProtectedUntouched, Protected
  <2> QED BY <1>4, <2>4 DEF FormatNext, ProtectedInv
<1>5. ASSUME NEW r \in Runner, Settle(r)
      PROVE  ProtectedInv'
  <2>1. \A d \in Dev : HasFs(Disk0[d]) => udev'[d] = Disk0[d]
      BY <1>5, OldDataRecorded DEF Settle
  <2> QED BY <1>5, <2>1 DEF Settle, ProtectedInv, ProtectedUntouched
<1>6. ASSUME NEW d \in Dev, Udev(d)
      PROVE  ProtectedInv'
  <2>1. \A e \in Dev : HasFs(Disk0[e]) => udev'[e] = Disk0[e]
      BY <1>6, <1>a, OldDataRecorded DEF Udev, UdevRecords, HostTypeOK
  <2> QED BY <1>6, <2>1 DEF Udev, local, ProtectedInv, ProtectedUntouched
<1>7. ASSUME NEW r \in Runner,
             LoopEnds(r) \/ FormatRefused(r) \/ ProviderFails(r) \/ Crash(r)
      PROVE  ProtectedInv'
    BY <1>7
       DEF LoopEnds, FormatRefused, ProviderFails, Crash, ProtectedInv, ProtectedUntouched
<1>8. ASSUME NEW d \in Dev, MountFs(d) \/ UnmountFs(d)
      PROVE  ProtectedInv'
    BY <1>8 DEF MountFs, UnmountFs, local, ProtectedInv, ProtectedUntouched
<1>9. CASE UNCHANGED vars
    BY <1>9 DEF vars, local, ProtectedInv, ProtectedUntouched
<1> QED
    BY <1>1, <1>2, <1>3, <1>4, <1>5, <1>6, <1>7, <1>8, <1>9, InitializerAssumption
       DEF Next, Step

\* A device that is partitioned, too small, or carried a filesystem before the
\* drivers were run is never written to, however many runs of driver-init
\* there are and whatever fails.
THEOREM ProtectedSafe == Spec => []ProtectedUntouched
<1>1. Init => TypeInv
    BY InitTypeInv
<1>2. Init => ProtectedInv
    BY DEF Init, HostInit, ProtectedInv, ProtectedUntouched, Protected
<1>3. TypeInv /\ [Next]_vars => TypeInv'
    BY NextTypeInv
<1>4. TypeInv /\ ProtectedInv /\ [Next]_vars => ProtectedInv'
    BY NextProtectedInv
<1>5. ProtectedInv => ProtectedUntouched
    BY DEF ProtectedInv
<1> QED BY <1>1, <1>2, <1>3, <1>4, <1>5, PTL DEF Spec

-----------------------------------------------------------------------------
(* What a run reports                                                      *)

\* What a run has formatted carries a filesystem, and is what its loop has
\* worked off: all of the targets in the end.
Written(r) == \A d \in formatted[r] : HasFs(disk[d])

Accounted(r) ==
    /\ pc[r] = "lsblk" => formatted[r] = {}
    /\ pc[r] = "mkfs" => formatted[r] = (IF dryRun[r] THEN {} ELSE targets[r] \ todo[r])
    /\ pc[r] = "settle" =>
          /\ ~dryRun[r] /\ todo[r] # {}
          /\ formatted[r] = (targets[r] \ todo[r]) \cup {Current(r)}
    /\ pc[r] = "done" /\ res[r] = "ok" =>
          formatted[r] = (IF dryRun[r] THEN {} ELSE targets[r])

ReportInv == \A r \in Runner : Written(r) /\ Accounted(r)

\* A step of one run leaves the account of the others alone.
LEMMA OthersAccounted ==
    ASSUME TypeOK, NEW r \in Runner, NEW q \in Runner, q # r, Accounted(q),
           pc'[q] = pc[q], res'[q] = res[q], dryRun'[q] = dryRun[q],
           targets'[q] = targets[q], todo'[q] = todo[q], formatted'[q] = formatted[q]
    PROVE  Accounted(q)'
BY DEF Accounted, Current

\* A step that changes neither the disks nor what was formatted keeps Written.
LEMMA WrittenStays ==
    ASSUME NEW q \in Runner, Written(q), disk' = disk, formatted'[q] \subseteq formatted[q]
    PROVE  Written(q)'
BY DEF Written

\* Every step preserves ReportInv.
LEMMA NextReportInv ==
    ASSUME TypeInv, ReportInv, [Next]_vars
    PROVE  ReportInv'
<1> USE DEF hostVars, history
<1>a. TypeOK /\ HostTypeOK
    BY DEF TypeInv, TypeOK
<1>b. \A q \in Runner : Written(q) /\ Accounted(q)
    BY DEF ReportInv
<1>1. ASSUME NEW r \in Runner, NEW step, NEW dry, Reset(r, step, dry), step \in {"lsblk", "idle"}
      PROVE  ReportInv'
  <2>1. \A q \in Runner : Written(q)'
      BY <1>1, <1>a, <1>b, WrittenStays DEF Reset, TypeOK
  <2>2. Accounted(r)'
      BY <1>1, <1>a DEF Reset, Accounted, TypeOK
  <2>3. \A q \in Runner : q # r => Accounted(q)'
      BY <1>1, <1>a, <1>b, OthersAccounted DEF Reset, TypeOK
  <2> QED BY <2>1, <2>2, <2>3 DEF ReportInv
<1>2. ASSUME NEW r \in Runner, Enumerate(r)
      PROVE  ReportInv'
  <2>1. \A q \in Runner : Written(q)'
      BY <1>2, <1>b, WrittenStays DEF Enumerate
  <2>2. Accounted(r)'
      BY <1>2, <1>a, <1>b DEF Enumerate, Goto, Accounted, TypeOK
  <2>3. \A q \in Runner : q # r => Accounted(q)'
      BY <1>2, <1>a, <1>b, OthersAccounted DEF Enumerate, Goto, TypeOK
  <2> QED BY <2>1, <2>2, <2>3 DEF ReportInv
<1>3. ASSUME NEW r \in Runner, LoopEnds(r)
      PROVE  ReportInv'
  <2>1. \A q \in Runner : Written(q)'
      BY <1>3, <1>b, WrittenStays DEF LoopEnds
  <2>2. Accounted(r)'
      BY <1>3, <1>a, <1>b DEF LoopEnds, Formats, Return, Accounted, TypeOK
  <2>3. \A q \in Runner : q # r => Accounted(q)'
      BY <1>3, <1>a, <1>b, OthersAccounted DEF LoopEnds, Return, TypeOK
  <2> QED BY <2>1, <2>2, <2>3 DEF ReportInv
<1>4. ASSUME NEW r \in Runner, FormatNext(r)
      PROVE  ReportInv'
  <2> DEFINE c == Current(r)
  <2>1. PICK u \in Uuid : Mkfs(c, u, MkfsLabel)
      BY <1>4 DEF FormatNext
  <2>2. c \in Dev /\ u # None
      BY <1>4, CurrentIsTarget, HostAssumption DEF FormatNext, Formats
  <2>3. HasFs(disk'[c]) /\ \A d \in Dev : d # c => disk'[d] = disk[d]
      BY <2>1, <2>2, <1>a DEF Mkfs, HasFs, HostTypeOK
  <2>4. formatted'[r] = formatted[r] \cup {c} /\ \A q \in Runner : q # r => formatted'[q] = formatted[q]
      BY <1>4, <1>a DEF FormatNext, TypeOK
  <2>5. \A q \in Runner : Written(q)'
    <3> SUFFICES ASSUME NEW q \in Runner, NEW d \in formatted'[q]
                 PROVE  HasFs(disk'[d])
        BY DEF Written, HasFs
    <3>1. CASE d = c
        BY <3>1, <2>3
    <3>2. CASE d # c
      <4>1. d \in formatted[q]
          BY <3>2, <2>4
      <4>2. d \in Dev
          BY <4>1, <1>a DEF TypeOK
      <4> QED BY <3>2, <4>1, <4>2, <2>3, <1>b DEF Written
    <3> QED BY <3>1, <3>2
  <2>6. Accounted(r)'
    <3>1. pc'[r] = "settle" /\ UNCHANGED <<dryRun, targets, todo>>
        BY <1>4, <1>a DEF FormatNext, Goto, TypeOK
    <3>2. ~dryRun[r] /\ todo[r] # {} /\ formatted[r] = targets[r] \ todo[r]
        BY <1>4, <1>b DEF FormatNext, Formats, Accounted
    <3>3. Current(r)' = Current(r)
        BY <3>1 DEF Current
    <3> QED BY <3>1, <3>2, <3>3, <2>4 DEF Accounted
  <2>7. \A q \in Runner : q # r => Accounted(q)'
      BY <1>4, <1>a, <1>b, <2>4, OthersAccounted DEF FormatNext, Goto, TypeOK
  <2> QED BY <2>5, <2>6, <2>7 DEF ReportInv
<1>5. ASSUME NEW r \in Runner, Settle(r)
      PROVE  ReportInv'
  <2>1. \A q \in Runner : Written(q)'
      BY <1>5, <1>b, WrittenStays DEF Settle
  <2>2. Accounted(r)'
    <3>1. pc'[r] = "mkfs" /\ todo'[r] = todo[r] \ {Current(r)} /\ UNCHANGED <<dryRun, targets, formatted>>
        BY <1>5, <1>a DEF Settle, Goto, TypeOK
    <3>2. ~dryRun[r] /\ formatted[r] = (targets[r] \ todo[r]) \cup {Current(r)}
        BY <1>5, <1>b DEF Settle, Accounted
    <3>3. Current(r) \in targets[r]
        BY <1>5, <1>b, CurrentIsTarget DEF Settle, Accounted
    <3>4. formatted'[r] = targets'[r] \ todo'[r]
        BY <3>1, <3>2, <3>3
    <3> QED BY <3>1, <3>2, <3>4 DEF Accounted
  <2>3. \A q \in Runner : q # r => Accounted(q)'
      BY <1>5, <1>a, <1>b, OthersAccounted DEF Settle, Goto, TypeOK
  <2> QED BY <2>1, <2>2, <2>3 DEF ReportInv
<1>6. ASSUME NEW r \in Runner, NEW outcome \in {"error", "killed"}, Return(r, outcome),
             UNCHANGED <<hostVars, dryRun, targets, todo, formatted>>
      PROVE  ReportInv'
  <2>1. \A q \in Runner : Written(q)'
      BY <1>6, <1>b, WrittenStays
  <2>2. Accounted(r)'
      BY <1>6, <1>a DEF Return, Accounted, TypeOK
  <2>3. \A q \in Runner : q # r => Accounted(q)'
      BY <1>6, <1>a, <1>b, OthersAccounted DEF Return, TypeOK
  <2> QED BY <2>1, <2>2, <2>3 DEF ReportInv
<1>7. CASE UNCHANGED <<disk, local, formatted>>
  <2>1. \A q \in Runner : Written(q)'
      BY <1>7, <1>b, WrittenStays
  <2>2. \A q \in Runner : Accounted(q)'
      BY <1>7, <1>b DEF local, Accounted, Current
  <2> QED BY <2>1, <2>2 DEF ReportInv
<1>8. \A r \in Runner : \A dry \in BOOLEAN : Start(r, dry) => ReportInv'
    BY <1>1 DEF Start
<1>9. \A r \in Runner : Finish(r) => ReportInv'
    BY <1>1 DEF Finish
<1>10. \A r \in Runner : FormatRefused(r) \/ ProviderFails(r) \/ Crash(r) => ReportInv'
    BY <1>6 DEF FormatRefused, ProviderFails, Crash
<1>11. \A d \in Dev : Udev(d) \/ MountFs(d) \/ UnmountFs(d) => ReportInv'
    BY <1>7 DEF Udev, MountFs, UnmountFs
<1>12. UNCHANGED vars => ReportInv'
    BY <1>7 DEF vars
<1> QED
    BY <1>2, <1>3, <1>4, <1>5, <1>8, <1>9, <1>10, <1>11, <1>12, InitializerAssumption
       DEF Next, Step

\* What Init returns with a nil error is what it formatted, all of which
\* carries a filesystem, however many runs there are and whatever fails.
THEOREM ReportSafe == Spec => []ReportTrue
<1>1. Init => TypeInv
    BY InitTypeInv
<1>2. Init => ReportInv
    BY DEF Init, ReportInv, Written, Accounted
<1>3. TypeInv /\ [Next]_vars => TypeInv'
    BY NextTypeInv
<1>4. TypeInv /\ ReportInv /\ [Next]_vars => ReportInv'
    BY NextReportInv
<1>5. ReportInv => ReportTrue
    BY DEF ReportInv, ReportTrue, Written, Accounted
<1> QED BY <1>1, <1>2, <1>3, <1>4, <1>5, PTL DEF Spec
-----------------------------------------------------------------------------
(* What can be overwritten                                                 *)

\* The devices that r is still going to format.
Ahead(r) == IF pc[r] = "settle" THEN todo[r] \ {Current(r)} ELSE todo[r]

\* A device that r is going to format carries a filesystem only if the listing
\* of r did not show it.
SeenOr(r) ==
    pc[r] \in {"mkfs", "settle"} =>
        \A d \in Ahead(r) : HasFs(disk[d]) => d \in unseen[r]

SeenInv == \A r \in Runner : SeenOr(r)

\* A step that leaves the disks alone, adds nothing to what a run is going to
\* format, and does not make it forget what it did not see.
LEMMA SeenStays ==
    ASSUME NEW q \in Runner, SeenOr(q), disk' = disk, unseen'[q] = unseen[q],
           todo'[q] = todo[q], pc'[q] \in {pc[q], "done"}
    PROVE  SeenOr(q)'
BY DEF SeenOr, Ahead, Current

\* Every step preserves SeenInv.
LEMMA NextSeenInv ==
    ASSUME TypeInv, SeenInv, [Next]_vars
    PROVE  SeenInv'
<1> USE DEF hostVars, history
<1>a. TypeOK /\ HostTypeOK
    BY DEF TypeInv, TypeOK
<1>b. \A q \in Runner : SeenOr(q)
    BY DEF SeenInv
<1>1. ASSUME NEW r \in Runner, NEW step, NEW dry, Reset(r, step, dry), step \in {"lsblk", "idle"}
      PROVE  SeenInv'
  <2>1. SeenOr(r)'
      BY <1>1, <1>a DEF Reset, SeenOr, TypeOK
  <2>2. \A q \in Runner : q # r => SeenOr(q)'
      BY <1>1, <1>a, <1>b, SeenStays DEF Reset, TypeOK
  <2> QED BY <2>1, <2>2 DEF SeenInv
<1>2. ASSUME NEW r \in Runner, Enumerate(r)
      PROVE  SeenInv'
  <2>1. \A d \in Unformatted : HasFs(disk[d]) => udev[d] # disk[d] /\ d \in Dev
      BY DEF Unformatted
  <2>2. SeenOr(r)'
      BY <1>2, <2>1, <1>a DEF Enumerate, Goto, SeenOr, Ahead, TypeOK
  <2>3. \A q \in Runner : q # r => SeenOr(q)'
      BY <1>2, <1>a, <1>b, SeenStays DEF Enumerate, Goto, TypeOK
  <2> QED BY <2>2, <2>3 DEF SeenInv
<1>3. ASSUME NEW r \in Runner, FormatNext(r)
      PROVE  SeenInv'
  <2> DEFINE c == Current(r)
  <2>1. PICK u \in Uuid : Mkfs(c, u, MkfsLabel)
      BY <1>3 DEF FormatNext
  <2>2. \A d \in Dev : d # c => disk'[d] = disk[d]
      BY <2>1, <1>a DEF Mkfs, HostTypeOK
  <2>3. UNCHANGED <<todo, targets>> /\ pc[r] = "mkfs" /\ pc'[r] = "settle"
      BY <1>3, <1>a DEF FormatNext, Goto, TypeOK
  <2>4. \A q \in Runner : Current(q)' = Current(q) /\ todo[q] \subseteq Dev
      BY <2>3, <1>a DEF Current, TypeOK
  <2>5. SeenOr(r)'
    <3> SUFFICES ASSUME NEW d \in Ahead(r)', HasFs(disk'[d])
                 PROVE  d \in unseen'[r]
        BY DEF SeenOr, HasFs
    <3>1. d \in todo[r] /\ d # c
        BY <2>3, <2>4 DEF Ahead
    <3>2. d \in Dev /\ HasFs(disk[d])
        BY <3>1, <2>2, <2>4
    <3>3. d \in unseen[r]
        BY <3>1, <3>2, <2>3, <1>b DEF SeenOr, Ahead
    <3> QED BY <3>3, <1>3 DEF FormatNext
  <2>6. ASSUME NEW q \in Runner, q # r
        PROVE  SeenOr(q)'
    <3>1. pc'[q] = pc[q] /\ unseen'[q] = unseen[q] \cup {c}
        BY <1>3, <2>6, <1>a DEF FormatNext, Goto, TypeOK
    <3>2. Ahead(q)' = Ahead(q) /\ Ahead(q) \subseteq Dev
        BY <3>1, <2>3, <2>4 DEF Ahead
    <3> SUFFICES ASSUME pc[q] \in {"mkfs", "settle"}, NEW d \in Ahead(q), HasFs(disk'[d])
                 PROVE  d \in unseen'[q]
        BY <3>1, <3>2 DEF SeenOr, HasFs
    <3>3. CASE d = c
        BY <3>1, <3>3
    <3>4. CASE d # c
        BY <3>1, <3>2, <3>4, <2>2, <1>b DEF SeenOr
    <3> QED BY <3>3, <3>4
  <2> QED BY <2>5, <2>6 DEF SeenInv
<1>4. ASSUME NEW r \in Runner, Settle(r)
      PROVE  SeenInv'
  <2>1. /\ pc[r] = "settle" /\ pc'[r] = "mkfs"
        /\ todo'[r] = todo[r] \ {Current(r)}
        /\ UNCHANGED <<disk, unseen>>
      BY <1>4, <1>a DEF Settle, Goto, TypeOK
  <2>2. SeenOr(r)'
      BY <2>1, <1>b DEF SeenOr, Ahead
  <2>3. \A q \in Runner : q # r => SeenOr(q)'
      BY <1>4, <1>a, <1>b, SeenStays DEF Settle, Goto, TypeOK
  <2> QED BY <2>2, <2>3 DEF SeenInv
<1>5. ASSUME NEW r \in Runner, NEW outcome, Return(r, outcome), UNCHANGED <<disk, todo, unseen>>
      PROVE  SeenInv'
    BY <1>5, <1>a, <1>b, SeenStays DEF Return, SeenInv, TypeOK
<1>6. CASE UNCHANGED <<disk, local, unseen>>
    BY <1>6, <1>b, SeenStays DEF local, SeenInv
<1>7. \A r \in Runner : \A dry \in BOOLEAN : Start(r, dry) => SeenInv'
    BY <1>1 DEF Start
<1>8. \A r \in Runner : Finish(r) => SeenInv'
    BY <1>1 DEF Finish
<1>9. \A r \in Runner :
          LoopEnds(r) \/ FormatRefused(r) \/ ProviderFails(r) \/ Crash(r) => SeenInv'
    BY <1>5 DEF LoopEnds, FormatRefused, ProviderFails, Crash
<1>10. \A d \in Dev : Udev(d) \/ MountFs(d) \/ UnmountFs(d) => SeenInv'
    BY <1>6 DEF Udev, MountFs, UnmountFs
<1>11. UNCHANGED vars => SeenInv'
    BY <1>6 DEF vars
<1> QED
    BY <1>2, <1>3, <1>4, <1>7, <1>8, <1>9, <1>10, <1>11, InitializerAssumption
       DEF Next, Step

\* The device that a step overwrites is the one that some run has reached.
LEMMA OverwriteStep ==
    ASSUME TypeInv, Next, NEW d \in Dev, disk'[d] # disk[d], HasFs(disk[d])
    PROVE  \E r \in Runner : pc[r] = "mkfs" /\ pc'[r] = "settle" /\ d \in Ahead(r)
<1> USE DEF hostVars, history
<1>1. CASE \E r \in Runner : FormatNext(r)
  <2>1. PICK r \in Runner : FormatNext(r)
      BY <1>1
  <2>2. PICK u \in Uuid : Mkfs(Current(r), u, MkfsLabel)
      BY <2>1 DEF FormatNext
  <2>3. d = Current(r)
      BY <2>2 DEF Mkfs, TypeInv, TypeOK, HostTypeOK
  <2>4. d \in Ahead(r) /\ pc[r] = "mkfs"
      BY <2>1, <2>3, CurrentIsTarget DEF FormatNext, Formats, Ahead
  <2>5. pc'[r] = "settle"
      BY <2>1 DEF FormatNext, Goto, TypeInv, TypeOK
  <2> QED BY <2>4, <2>5
<1>2. CASE ~\E r \in Runner : FormatNext(r)
  <2>1. disk' = disk
      BY <1>2
         DEF Next, Step, Start, Finish, Reset, Enumerate, LoopEnds, FormatRefused, Settle,
             ProviderFails, Crash, Udev, MountFs, UnmountFs
  <2> QED BY <2>1
<1> QED BY <1>1, <1>2

\* A filesystem is only ever overwritten by a run whose listing could not show
\* it, however many runs there are and whatever fails.
THEOREM OverwritesExplained == Spec => OverwriteExplained
<1> DEFINE Explained ==
        \A d \in Dev : disk'[d] # disk[d] /\ HasFs(disk[d]) =>
            \E r \in Runner : pc[r] = "mkfs" /\ pc'[r] = "settle" /\ d \in unseen[r]
<1>1. Init => TypeInv
    BY InitTypeInv
<1>2. Init => SeenInv
    BY DEF Init, SeenInv, SeenOr
<1>3. TypeInv /\ [Next]_vars => TypeInv'
    BY NextTypeInv
<1>4. TypeInv /\ SeenInv /\ [Next]_vars => SeenInv'
    BY NextSeenInv
<1>5. TypeInv /\ SeenInv /\ [Next]_vars => [Explained]_vars
    BY OverwriteStep DEF SeenInv, SeenOr
<1>6. OverwriteExplained <=> [][Explained]_vars
    BY PTL DEF OverwriteExplained
<1> QED BY <1>1, <1>2, <1>3, <1>4, <1>5, <1>6, PTL DEF Spec

-----------------------------------------------------------------------------
(* What the settle protects                                                *)

\* udev lags behind a disk only until the settle of the run that wrote it, if that
\* settle is reached and does not time out.
Lag(d) ==
    udev[d] # disk[d] => d \in unsettled \/ \E q \in Runner : pc[q] = "settle" /\ Current(q) = d

\* A device that r is going to format carries a filesystem only if its settle has
\* failed, or another run has overlapped with r on it.
RacedOr(r) ==
    pc[r] \in {"mkfs", "settle"} =>
        \A d \in Ahead(r) : HasFs(disk[d]) => d \in unsettled \cup raced[r]

SettledInv == (\A d \in Dev : Lag(d)) /\ \A r \in Runner : RacedOr(r)

\* A step that leaves the disks alone, adds nothing to what a run is going to format,
\* and does not make it forget what it raced with.
LEMMA RacedStays ==
    ASSUME NEW q \in Runner, RacedOr(q), disk' = disk, unsettled \subseteq unsettled',
           raced'[q] = raced[q], todo'[q] = todo[q], pc'[q] \in {pc[q], "done"}
    PROVE  RacedOr(q)'
BY DEF RacedOr, Ahead, Current

\* A step that leaves disk and udev alone, and is not one of a run that settles.
LEMMA LagStays ==
    ASSUME NEW d \in Dev, Lag(d), disk' = disk, udev'[d] \in {udev[d], disk[d]},
           unsettled \subseteq unsettled',
           \A q \in Runner : pc[q] = "settle" => pc'[q] = "settle" /\ todo'[q] = todo[q]
    PROVE  Lag(d)'
BY DEF Lag, Current

LEMMA NextSettledInv ==
    ASSUME TypeInv, SettledInv, [Next]_vars
    PROVE  SettledInv'
<1> USE DEF hostVars, history
<1>a. TypeOK /\ HostTypeOK
    BY DEF TypeInv, TypeOK
<1>b. (\A d \in Dev : Lag(d)) /\ \A q \in Runner : RacedOr(q)
    BY DEF SettledInv
<1>1. ASSUME NEW r \in Runner, NEW step, NEW dry, Reset(r, step, dry),
             pc[r] # "settle", step \in {"lsblk", "idle"}
      PROVE  SettledInv'
  <2>1. \A d \in Dev : Lag(d)'
      BY <1>1, <1>a, <1>b, LagStays DEF Reset, TypeOK
  <2>2. RacedOr(r)'
      BY <1>1, <1>a DEF Reset, RacedOr, TypeOK
  <2>3. \A q \in Runner : q # r => RacedOr(q)'
      BY <1>1, <1>a, <1>b, RacedStays DEF Reset, TypeOK
  <2> QED BY <2>1, <2>2, <2>3 DEF SettledInv
<1>2. ASSUME NEW r \in Runner, Enumerate(r)
      PROVE  SettledInv'
  <2>1. \A d \in Dev : Lag(d)'
      BY <1>2, <1>a, <1>b, LagStays DEF Enumerate, Goto, TypeOK
  <2>2. \A d \in Unformatted : HasFs(disk[d]) => udev[d] # disk[d] /\ d \in Dev
      BY DEF Unformatted
  <2>3. \A d \in Unformatted : HasFs(disk[d]) => d \in unsettled \cup raced'[r]
      BY <1>2, <1>a, <1>b, <2>2 DEF Enumerate, Lag, TypeOK
  <2>4. RacedOr(r)'
      BY <1>2, <2>3, <1>a DEF Enumerate, Goto, RacedOr, Ahead, TypeOK
  <2>5. \A q \in Runner : q # r => RacedOr(q)'
      BY <1>2, <1>a, <1>b, RacedStays DEF Enumerate, Goto, TypeOK
  <2> QED BY <2>1, <2>4, <2>5 DEF SettledInv
<1>3. ASSUME NEW r \in Runner, FormatNext(r)
      PROVE  SettledInv'
  <2> DEFINE c == Current(r)
  <2>1. PICK u \in Uuid : Mkfs(c, u, MkfsLabel)
      BY <1>3 DEF FormatNext
  <2>2. \A d \in Dev : d # c => disk'[d] = disk[d]
      BY <2>1, <1>a DEF Mkfs, HostTypeOK
  <2>3. UNCHANGED <<todo, targets, udev, unsettled>> /\ pc[r] = "mkfs" /\ pc'[r] = "settle"
      BY <1>3, <1>a DEF FormatNext, Goto, TypeOK
  <2>4. \A q \in Runner : Current(q)' = Current(q) /\ todo[q] \subseteq Dev
      BY <2>3, <1>a DEF Current, TypeOK
  <2>5. \A q \in Runner : q # r => pc'[q] = pc[q] /\ raced'[q] = raced[q] \cup {c}
      BY <1>3, <1>a DEF FormatNext, Goto, TypeOK
  <2>6. ASSUME NEW d \in Dev
        PROVE  Lag(d)'
    <3>1. CASE d = c
        BY <3>1, <2>3, <2>4 DEF Lag
    <3>2. CASE d # c
      <4> SUFFICES ASSUME udev[d] # disk[d], d \notin unsettled
                   PROVE  \E q \in Runner : pc'[q] = "settle" /\ Current(q)' = d
          BY <3>2, <2>2, <2>3 DEF Lag
      <4>1. PICK q \in Runner : pc[q] = "settle" /\ Current(q) = d
          BY <1>b DEF Lag
      <4> QED BY <4>1, <2>3, <2>4, <2>5
    <3> QED BY <3>1, <3>2
  <2>7. RacedOr(r)'
    <3> SUFFICES ASSUME NEW d \in Ahead(r)', HasFs(disk'[d])
                 PROVE  d \in unsettled \cup raced'[r]
        BY <2>3 DEF RacedOr, HasFs
    <3>1. d \in todo[r] /\ d # c
        BY <2>3, <2>4 DEF Ahead
    <3>2. d \in Dev /\ HasFs(disk[d])
        BY <3>1, <2>2, <2>4
    <3>3. d \in unsettled \cup raced[r]
        BY <3>1, <3>2, <2>3, <1>b DEF RacedOr, Ahead
    <3> QED BY <3>3, <1>3, <1>a DEF FormatNext, TypeOK
  <2>8. ASSUME NEW q \in Runner, q # r
        PROVE  RacedOr(q)'
    <3>1. Ahead(q)' = Ahead(q) /\ Ahead(q) \subseteq Dev
        BY <2>3, <2>4, <2>5, <2>8 DEF Ahead
    <3> SUFFICES ASSUME pc[q] \in {"mkfs", "settle"}, NEW d \in Ahead(q), HasFs(disk'[d])
                 PROVE  d \in unsettled \cup raced'[q]
        BY <3>1, <2>3, <2>5, <2>8 DEF RacedOr, HasFs
    <3>2. CASE d = c
        BY <3>2, <2>5, <2>8
    <3>3. CASE d # c
        BY <3>1, <3>3, <2>2, <2>5, <2>8, <1>b DEF RacedOr
    <3> QED BY <3>2, <3>3
  <2> QED BY <2>6, <2>7, <2>8 DEF SettledInv
<1>4. ASSUME NEW r \in Runner, Settle(r)
      PROVE  SettledInv'
  <2>1. /\ pc[r] = "settle" /\ pc'[r] = "mkfs"
        /\ todo'[r] = todo[r] \ {Current(r)}
        /\ UNCHANGED <<disk, raced>>
        /\ unsettled \subseteq unsettled'
        /\ \A q \in Runner : q # r => pc'[q] = pc[q] /\ todo'[q] = todo[q]
      BY <1>4, <1>a DEF Settle, Goto, TypeOK
  <2>2. \A d \in Dev : Lag(d)'
    <3>1. CASE udev' = disk
        BY <3>1, <2>1 DEF Lag
    <3>2. CASE udev' = udev /\ Current(r) \in unsettled'
      <4> SUFFICES ASSUME NEW d \in Dev, udev[d] # disk[d], d \notin unsettled'
                   PROVE  \E q \in Runner : pc'[q] = "settle" /\ Current(q)' = d
          BY <3>2, <2>1 DEF Lag
      <4>1. PICK q \in Runner : pc[q] = "settle" /\ Current(q) = d
          BY <1>b, <2>1 DEF Lag
      <4>2. q # r
          BY <4>1, <3>2
      <4> QED BY <4>1, <4>2, <2>1 DEF Current
    <3> QED BY <1>4, <3>1, <3>2 DEF Settle
  <2>3. RacedOr(r)'
      BY <2>1, <1>b DEF RacedOr, Ahead
  <2>4. \A q \in Runner : q # r => RacedOr(q)'
      BY <2>1, <1>b, RacedStays
  <2> QED BY <2>2, <2>3, <2>4 DEF SettledInv
<1>5. ASSUME NEW r \in Runner, NEW outcome, Return(r, outcome), pc[r] # "settle",
             UNCHANGED <<disk, udev, todo, raced, unsettled>>
      PROVE  SettledInv'
  <2>1. \A q \in Runner : pc'[q] \in {pc[q], "done"} /\ (q # r => pc'[q] = pc[q])
      BY <1>5, <1>a DEF Return, TypeOK
  <2>2. \A d \in Dev : Lag(d)'
      BY <1>5, <1>b, <2>1, LagStays
  <2>3. \A q \in Runner : RacedOr(q)'
      BY <1>5, <1>b, <2>1, RacedStays
  <2> QED BY <2>2, <2>3 DEF SettledInv
<1>6. ASSUME NEW r \in Runner, Crash(r)
      PROVE  SettledInv'
  <2>1. /\ \A q \in Runner : pc'[q] \in {pc[q], "done"} /\ (q # r => pc'[q] = pc[q])
        /\ UNCHANGED <<disk, udev, todo, raced>>
        /\ unsettled \subseteq unsettled'
        /\ pc[r] = "settle" => Current(r) \in unsettled'
      BY <1>6, <1>a DEF Crash, Return, TypeOK
  <2>2. ASSUME NEW d \in Dev
        PROVE  Lag(d)'
    <3> SUFFICES ASSUME udev[d] # disk[d], d \notin unsettled'
                 PROVE  \E q \in Runner : pc'[q] = "settle" /\ Current(q)' = d
        BY <2>1 DEF Lag
    <3>1. PICK q \in Runner : pc[q] = "settle" /\ Current(q) = d
        BY <1>b, <2>1 DEF Lag
    <3> QED BY <3>1, <2>1 DEF Current
  <2>3. \A q \in Runner : RacedOr(q)'
      BY <1>b, <2>1, RacedStays
  <2> QED BY <2>2, <2>3 DEF SettledInv
<1>7. ASSUME UNCHANGED <<disk, local, raced, unsettled>>, \A d \in Dev : udev'[d] \in {udev[d], disk[d]}
      PROVE  SettledInv'
  <2>1. \A d \in Dev : Lag(d)'
      BY <1>7, <1>b, LagStays DEF local
  <2>2. \A q \in Runner : RacedOr(q)'
      BY <1>7, <1>b, RacedStays DEF local
  <2> QED BY <2>1, <2>2 DEF SettledInv
<1>8. \A r \in Runner : \A dry \in BOOLEAN : Start(r, dry) \/ Finish(r) => SettledInv'
    BY <1>1 DEF Start, Finish
<1>9. \A r \in Runner : LoopEnds(r) \/ FormatRefused(r) \/ ProviderFails(r) => SettledInv'
    BY <1>5 DEF LoopEnds, FormatRefused, ProviderFails
<1>10. \A d \in Dev : Udev(d) => SettledInv'
    BY <1>7, <1>a DEF Udev, UdevRecords, HostTypeOK
<1>11. \A d \in Dev : MountFs(d) \/ UnmountFs(d) => SettledInv'
    BY <1>7 DEF MountFs, UnmountFs
<1>12. UNCHANGED vars => SettledInv'
    BY <1>7 DEF vars
<1> QED
    BY <1>2, <1>3, <1>4, <1>6, <1>8, <1>9, <1>10, <1>11, <1>12, InitializerAssumption
       DEF Next, Step

\* A filesystem is only overwritten when the settle of its device timed out or was
\* never reached, or by a run that overlapped with its formatting, however many runs
\* there are.
THEOREM SettlesProtect == Spec => SettleProtects
<1> DEFINE Settled ==
        \A d \in Dev : disk'[d] # disk[d] /\ HasFs(disk[d]) =>
            \/ d \in unsettled
            \/ \E r \in Runner : pc[r] = "mkfs" /\ pc'[r] = "settle" /\ d \in raced[r]
<1>1. Init => TypeInv /\ SettledInv
  <2>1. Init => SettledInv
      BY DEF Init, HostInit, SettledInv, Lag, RacedOr
  <2> QED BY <2>1, InitTypeInv
<1>2. TypeInv /\ SettledInv /\ [Next]_vars => (TypeInv /\ SettledInv)'
    BY NextTypeInv, NextSettledInv
<1>3. TypeInv /\ SettledInv /\ [Next]_vars => [Settled]_vars
  <2> SUFFICES ASSUME TypeInv, SettledInv, Next,
                      NEW d \in Dev, disk'[d] # disk[d], HasFs(disk[d])
               PROVE  \/ d \in unsettled
                      \/ \E r \in Runner : pc[r] = "mkfs" /\ pc'[r] = "settle" /\ d \in raced[r]
      OBVIOUS
  <2>1. PICK r \in Runner : pc[r] = "mkfs" /\ pc'[r] = "settle" /\ d \in Ahead(r)
      BY OverwriteStep
  <2> QED BY <2>1 DEF SettledInv, RacedOr
<1>4. SettleProtects <=> [][Settled]_vars
    BY PTL DEF SettleProtects
<1> QED BY <1>1, <1>2, <1>3, <1>4, PTL DEF Spec
=============================================================================
