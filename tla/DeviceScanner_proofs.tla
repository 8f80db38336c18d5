------------------------- MODULE DeviceScanner_proofs -------------------------
(***************************************************************************)
(* Proofs about driver-scan: whatever the node does while a scan runs,     *)
(* what the report says was true at some moment of the scan, and the UUIDs *)
(* in it can be handed to driver-mounter.                                  *)
(***************************************************************************)
EXTENDS DeviceScanner, BlockHost_proofs

\* The steps of the other actors.
Environment ==
    \/ \E d \in Mountable : MountFs(d)
    \/ \E d \in Stray : MountStray(d) \/ UnmountStray(d)
    \/ \E u \in Uuid : Directory(u) \/ UnmountFs(u)
    \/ \E d \in Formattable : FormatBlank(d)
    \/ \E d \in Dev : Udev(d)

\* udev has nothing or the truth of a device, since no filesystem is overwritten.
UdevTrue == \A d \in Dev : HasFs(udev[d]) => udev[d] = disk[d]

\* Once a scan has begun, the history has what is mounted where.
WasCurrent == pc # "idle" => Now \subseteq was

\* Every mount that was read, and every line of the report, is in the history.
ReadWasTrue ==
    /\ \A m \in table \cup entries : <<m[2], m[1]>> \in was
    /\ \A r \in mounted : <<r.device, r.target>> \in was
    /\ \A r \in unmounted : <<Rows[r.row], None>> \in was

Inv == TypeOK /\ UdevTrue /\ WasCurrent /\ ReadWasTrue /\ ReportedUuidResolves

-----------------------------------------------------------------------------
(* Types                                                                   *)

LEMMA NowType == Now \subseteq Dev \X (Uuid \cup {None})
BY DEF Now

LEMMA ReportedType ==
    ASSUME TypeOK, NEW d \in Dev
    PROVE  ReportedUuid(d) \in Uuid \cup {None}
<1>1. udev[d] \in Content /\ PartUuid[d] \in Uuid \cup {None}
    BY HostAssumption DEF TypeOK, HostTypeOK
<1> QED BY <1>1 DEF ReportedUuid, Content

LEMMA TopMountType ==
    ASSUME TypeOK, NEW u \in Uuid, mounts[u] # <<>>
    PROVE  TopMount(u) \in Dev
<1>1. mounts[u] \in Seq(Dev)
    BY DEF TypeOK, HostTypeOK
<1>2. Len(mounts[u]) \in DOMAIN mounts[u]
    BY <1>1
<1> QED BY <1>1, <1>2 DEF TopMount

\* What a touch of a device does to the history.
LEMMA TouchType ==
    ASSUME TypeOK, NEW d, Touch(d)
    PROVE  /\ steady' \subseteq Dev
           /\ was' \subseteq Dev \X (Uuid \cup {None})
           /\ was \subseteq was' /\ Now' \subseteq was'
<1>1. Now' \subseteq Dev \X (Uuid \cup {None})
    BY DEF Now
<1> QED BY <1>1 DEF Touch, TypeOK

\* Each step of the other actors leaves the scan alone, and all but the making of
\* directories are written down in the history.
LEMMA EnvironmentStep ==
    ASSUME TypeOK, Environment
    PROVE  /\ UNCHANGED scan
           /\ HostTypeOK' /\ elsewhere' \subseteq Dev
           /\ \/ \E d \in Dev : Touch(d)
              \/ UNCHANGED <<disk, udev, mounts, elsewhere, ghosts>>
<1> USE ScannerAssumption DEF TypeOK, HostTypeOK
<1>1. ASSUME NEW d \in Mountable, MountFs(d)
      PROVE  UNCHANGED scan /\ HostTypeOK' /\ elsewhere' \subseteq Dev /\ Touch(d)
  <2>1. <<d>> \in Seq(Dev)
      OBVIOUS
  <2>2. mounts' \in [Uuid -> Seq(Dev)]
      BY <1>1, <2>1 DEF MountFs
  <2> QED BY <1>1, <2>2 DEF MountFs
<1>2. ASSUME NEW d \in Stray, MountStray(d) \/ UnmountStray(d)
      PROVE  UNCHANGED scan /\ HostTypeOK' /\ elsewhere' \subseteq Dev /\ Touch(d)
    BY <1>2 DEF MountStray, UnmountStray, hostVars
<1>3. ASSUME NEW u \in Uuid, Directory(u)
      PROVE  /\ UNCHANGED scan /\ HostTypeOK' /\ elsewhere' \subseteq Dev
             /\ UNCHANGED <<disk, udev, mounts, elsewhere, ghosts>>
    BY <1>3 DEF Directory
<1>4. ASSUME NEW u \in Uuid, UnmountFs(u)
      PROVE  /\ UNCHANGED scan /\ HostTypeOK' /\ elsewhere' \subseteq Dev
             /\ TopMount(u) \in Dev /\ Touch(TopMount(u))
  <2>1. TopMount(u) \in Dev
      BY <1>4, TopMountType DEF UnmountFs
  <2>2. mounts' \in [Uuid -> Seq(Dev)]
      BY <1>4 DEF UnmountFs
  <2> QED BY <1>4, <2>1, <2>2 DEF UnmountFs
<1>5. ASSUME NEW d \in Formattable, FormatBlank(d)
      PROVE  UNCHANGED scan /\ HostTypeOK' /\ elsewhere' \subseteq Dev /\ Touch(d)
  <2>1. disk' \in [Dev -> Content]
      BY <1>5, MkfsType DEF FormatBlank
  <2> QED BY <1>5, <2>1 DEF FormatBlank
<1>6. ASSUME NEW d \in Dev, Udev(d)
      PROVE  UNCHANGED scan /\ HostTypeOK' /\ elsewhere' \subseteq Dev /\ Touch(d)
    BY <1>6 DEF Udev, UdevRecords
<1> QED BY <1>1, <1>2, <1>3, <1>4, <1>5, <1>6 DEF Environment

\* What ScanUnmounted says of a row.
LEMMA ListedRow ==
    ASSUME ListUnmounted, NEW r \in unmounted'
    PROVE  /\ r.row \in DOMAIN Rows /\ Free(r.row)
           /\ r.uuid = ReportedUuid(Rows[r.row])
           /\ r.status = IF Kind[Rows[r.row]] = "part" THEN "partitioned" ELSE "not partitioned"
           /\ r = [row |-> r.row, uuid |-> r.uuid, status |-> r.status]
<1>1. PICK k \in {j \in DOMAIN Rows : Free(j)} :
          r = [row |-> k, uuid |-> ReportedUuid(Rows[k]),
               status |-> IF Kind[Rows[k]] = "part" THEN "partitioned" ELSE "not partitioned"]
    BY DEF ListUnmounted
<1>2. /\ r.row = k /\ r.uuid = ReportedUuid(Rows[k])
      /\ r.status = IF Kind[Rows[k]] = "part" THEN "partitioned" ELSE "not partitioned"
    BY <1>1
<1>3. r = [row |-> r.row, uuid |-> r.uuid, status |-> r.status]
    BY <1>1
<1> QED BY <1>1, <1>2, <1>3

LEMMA NextTypeOK == TypeOK /\ [Next]_vars => TypeOK'
<1> SUFFICES ASSUME TypeOK, [Next]_vars
             PROVE  TypeOK'
    OBVIOUS
<1>1. CASE Environment
  <2>1. steady' \subseteq Dev /\ was' \subseteq Dev \X (Uuid \cup {None})
      BY <1>1, EnvironmentStep, TouchType DEF TypeOK, ghosts
  <2> QED BY <1>1, <2>1, EnvironmentStep DEF TypeOK, scan
<1>2. CASE Begin
    BY <1>2, NowType DEF Begin, TypeOK, HostTypeOK, hostVars
<1>3. CASE ReadMounts
    BY <1>3 DEF ReadMounts, TypeOK, HostTypeOK, hostVars, ghosts
<1>4. ASSUME NEW m \in Uuid \X Dev, MeasureMount(m)
      PROVE  TypeOK'
    BY <1>4, ScannerAssumption DEF MeasureMount, Fault, TypeOK, HostTypeOK, hostVars
<1>5. ASSUME NEW m \in Uuid \X Dev, DescribeMount(m)
      PROVE  TypeOK'
  <2>1. mounted' \subseteq MountRow
    <3>1. PICK uuid \in Uuid \cup {None} :
              mounted' = mounted \cup {[target |-> m[1], device |-> m[2], uuid |-> uuid]}
        BY <1>5 DEF DescribeMount
    <3>2. [target |-> m[1], device |-> m[2], uuid |-> uuid] \in MountRow
        BY DEF MountRow
    <3> QED BY <3>1, <3>2 DEF TypeOK
  <2> QED BY <1>5, <2>1, ScannerAssumption
         DEF DescribeMount, Fault, TypeOK, HostTypeOK, hostVars, ghosts
<1>6. CASE AllMeasured \/ AllDescribed
    BY <1>6 DEF AllMeasured, AllDescribed, TypeOK, HostTypeOK, hostVars, ghosts
<1>7. CASE ListUnmounted
  <2>1. \A k \in DOMAIN Rows : Rows[k] \in Dev
      BY HostAssumption
  <2>2. \A k \in DOMAIN Rows : ReportedUuid(Rows[k]) \in Uuid \cup {None}
      BY <2>1, ReportedType
  <2>3. unmounted' \subseteq DeviceRow
    <3> SUFFICES ASSUME NEW r \in unmounted'
                 PROVE  r \in DeviceRow
        OBVIOUS
    <3>1. /\ r.row \in DOMAIN Rows /\ r.uuid \in Uuid \cup {None}
          /\ r.status \in {"partitioned", "not partitioned"}
        BY <1>7, <2>2, ListedRow
    <3>2. r = [row |-> r.row, uuid |-> r.uuid, status |-> r.status]
        BY <1>7, ListedRow
    <3> QED BY <3>1, <3>2 DEF DeviceRow
  <2> QED BY <1>7, <2>3 DEF ListUnmounted, TypeOK, HostTypeOK, hostVars, ghosts
<1>8. CASE ScanFails
    BY <1>8, ScannerAssumption DEF ScanFails, Fault, TypeOK, HostTypeOK, hostVars, ghosts
<1>9. CASE UNCHANGED vars
    BY <1>9 DEF vars, TypeOK, HostTypeOK, hostVars, ghosts
<1> QED BY <1>1, <1>2, <1>3, <1>4, <1>5, <1>6, <1>7, <1>8, <1>9 DEF Next, Scan, Environment

-----------------------------------------------------------------------------
(* The lines of the report                                                 *)

\* The mount table is what changes what is mounted where.
LEMMA SameNow ==
    ASSUME UNCHANGED <<mounts, elsewhere>>
    PROVE  Now' = Now
BY DEF Now, Idle, Mounted

\* A filesystem stays what it is, and udev gets to know it.
LEMMA DisksKept ==
    ASSUME TypeOK, UdevTrue, [Next]_vars
    PROVE  /\ UdevTrue'
           /\ \A d \in Dev : HasFs(disk[d]) => disk'[d] = disk[d]
<1>1. ASSUME NEW e \in Dev, FormatBlank(e)
      PROVE  /\ UdevTrue'
             /\ \A d \in Dev : HasFs(disk[d]) => disk'[d] = disk[d]
  <2>1. ~HasFs(disk[e]) /\ UNCHANGED udev /\ \A d \in Dev : d # e => disk'[d] = disk[d]
      BY <1>1 DEF FormatBlank, Mkfs
  <2> QED BY <2>1 DEF UdevTrue, HasFs
<1>2. ASSUME NEW e \in Dev, Udev(e)
      PROVE  UdevTrue' /\ UNCHANGED disk
    BY <1>2 DEF UdevTrue, Udev, UdevRecords, TypeOK, HostTypeOK, HasFs
<1>3. CASE UNCHANGED <<disk, udev>>
    BY <1>3 DEF UdevTrue, HasFs
<1> QED BY <1>1, <1>2, <1>3, ScannerAssumption
       DEF Next, Scan, Begin, ReadMounts, MeasureMount, AllMeasured, DescribeMount, AllDescribed,
           ListUnmounted, ScanFails, MountFs, MountStray, UnmountStray, Directory, UnmountFs,
           hostVars, vars

\* What udev shows of a device is a UUID that the device answers to.
LEMMA ReportedAnswers ==
    ASSUME TypeOK, UdevTrue, NEW d \in Dev, ReportedUuid(d) # None
    PROVE  Answers(d, ReportedUuid(d), disk)
BY DEF UdevTrue, ReportedUuid, Answers

LEMMA AnswersKept ==
    ASSUME TypeOK, UdevTrue, [Next]_vars, NEW d \in Dev, NEW u \in Uuid, Answers(d, u, disk)
    PROVE  Answers(d, u, disk')
<1>1. u # None
    BY HostAssumption
<1> QED BY <1>1, DisksKept DEF Answers, HasFs

LEMMA NextResolves ==
    ASSUME Inv, [Next]_vars
    PROVE  ReportedUuidResolves'
<1> USE DEF Inv
<1>0. /\ \A r \in mounted : r.uuid # None => r.device \in Dev /\ Answers(r.device, r.uuid, disk')
      /\ \A r \in unmounted : r.uuid # None => Answers(Rows[r.row], r.uuid, disk')
  <2>1. \A k \in DOMAIN Rows : Rows[k] \in Dev
      BY HostAssumption
  <2>2. \A r \in mounted : r.device \in Dev /\ r.uuid \in Uuid \cup {None}
      BY DEF TypeOK, MountRow
  <2>3. \A r \in unmounted : r.row \in DOMAIN Rows /\ r.uuid \in Uuid \cup {None}
      BY DEF TypeOK, DeviceRow
  <2> QED BY <2>1, <2>2, <2>3, AnswersKept DEF ReportedUuidResolves
<1>1. CASE mounted' \subseteq mounted /\ unmounted' \subseteq unmounted
    BY <1>0, <1>1 DEF ReportedUuidResolves, Answers
<1>2. ASSUME NEW m \in Uuid \X Dev, DescribeMount(m)
      PROVE  ReportedUuidResolves'
  <2>1. UNCHANGED <<disk, unmounted>>
      BY <1>2 DEF DescribeMount, hostVars
  <2>2. PICK uuid \in {ReportedUuid(m[2]), None} :
            mounted' = mounted \cup {[target |-> m[1], device |-> m[2], uuid |-> uuid]}
      BY <1>2 DEF DescribeMount
  <2>3. uuid # None => Answers(m[2], uuid, disk)
      BY <2>2, ReportedAnswers
  <2> QED BY <1>0, <2>1, <2>2, <2>3 DEF ReportedUuidResolves, Answers
<1>3. CASE ListUnmounted
  <2>1. UNCHANGED <<disk, mounted>>
      BY <1>3 DEF ListUnmounted, hostVars
  <2>2. \A r \in unmounted' : r.row \in DOMAIN Rows /\ r.uuid = ReportedUuid(Rows[r.row])
      BY <1>3, ListedRow
  <2>3. \A k \in DOMAIN Rows : Rows[k] \in Dev
      BY HostAssumption
  <2> QED BY <1>0, <2>1, <2>2, <2>3, ReportedAnswers DEF ReportedUuidResolves, Answers
<1>4. CASE ~(\E m \in Uuid \X Dev : DescribeMount(m)) /\ ~ListUnmounted
  <2>1. mounted' \subseteq mounted /\ unmounted' \subseteq unmounted
      BY <1>4 DEF Next, Scan, Begin, ReadMounts, MeasureMount, AllMeasured, AllDescribed, ScanFails,
         MountFs, MountStray, UnmountStray, Directory, UnmountFs, FormatBlank, Udev, scan, vars
  <2> QED BY <1>1, <2>1
<1> QED BY <1>2, <1>3, <1>4

LEMMA NextWasTrue ==
    ASSUME Inv, [Next]_vars
    PROVE  WasCurrent' /\ ReadWasTrue'
<1> USE DEF Inv
<1>1. CASE Environment
  <2>1. UNCHANGED scan /\ was \subseteq was'
      BY <1>1, EnvironmentStep, TouchType DEF ghosts
  <2>2. pc # "idle" => Now' \subseteq was'
      BY <1>1, EnvironmentStep, TouchType, SameNow DEF ghosts, WasCurrent
  <2> QED BY <2>1, <2>2 DEF WasCurrent, ReadWasTrue, scan
<1>2. CASE Begin
  <2>1. Now' = Now
      BY <1>2, SameNow DEF Begin, hostVars
  <2> QED BY <1>2, <2>1 DEF Begin, WasCurrent, ReadWasTrue
<1>3. CASE ReadMounts
  <2>1. Now' = Now /\ Now \subseteq was /\ was' = was
      BY <1>3, SameNow DEF ReadMounts, hostVars, ghosts, WasCurrent
  <2>2. \A m \in table' : <<m[2], m[1]>> \in Now
      BY <1>3 DEF ReadMounts, Now
  <2> QED BY <1>3, <2>1, <2>2 DEF ReadMounts, WasCurrent, ReadWasTrue
<1>4. ASSUME NEW m \in Uuid \X Dev, MeasureMount(m)
      PROVE  WasCurrent' /\ ReadWasTrue'
  <2>1. Now' = Now /\ was' = was /\ pc' = pc /\ UNCHANGED <<mounted, unmounted>>
      BY <1>4, SameNow DEF MeasureMount, hostVars
  <2>2. table' \cup entries' \subseteq table \cup entries
      BY <1>4 DEF MeasureMount
  <2> QED BY <2>1, <2>2 DEF WasCurrent, ReadWasTrue
<1>5. ASSUME NEW m \in Uuid \X Dev, DescribeMount(m)
      PROVE  WasCurrent' /\ ReadWasTrue'
  <2>1. Now' = Now /\ was' = was /\ pc' = pc /\ UNCHANGED <<table, unmounted>>
      BY <1>5, SameNow DEF DescribeMount, hostVars, ghosts
  <2>2. m \in entries /\ entries' \subseteq entries
      BY <1>5 DEF DescribeMount
  <2>3. \E uuid : mounted' = mounted \cup {[target |-> m[1], device |-> m[2], uuid |-> uuid]}
      BY <1>5 DEF DescribeMount
  <2> QED BY <2>1, <2>2, <2>3 DEF WasCurrent, ReadWasTrue
<1>6. CASE ListUnmounted
  <2>1. Now' = Now /\ Now \subseteq was /\ was' = was /\ UNCHANGED <<table, entries, mounted>>
      BY <1>6, SameNow DEF ListUnmounted, hostVars, ghosts, WasCurrent
  <2>2. \A r \in unmounted' : r.row \in DOMAIN Rows /\ Idle(Rows[r.row])
      BY <1>6, ListedRow DEF Free
  <2>3. \A k \in DOMAIN Rows : Rows[k] \in Dev
      BY HostAssumption
  <2>4. \A r \in unmounted' : <<Rows[r.row], None>> \in Now
      BY <2>2, <2>3 DEF Now
  <2> QED BY <1>6, <2>1, <2>4 DEF WasCurrent, ReadWasTrue
<1>7. CASE AllMeasured \/ AllDescribed \/ ScanFails \/ UNCHANGED vars
  <2>1. Now' = Now /\ was' = was /\ UNCHANGED <<table, entries, unmounted>> /\ mounted' \subseteq mounted
      BY <1>7, SameNow DEF AllMeasured, AllDescribed, ScanFails, vars, hostVars, ghosts
  <2>2. pc' # "idle" => pc # "idle"
      BY <1>7 DEF AllMeasured, AllDescribed, ScanFails, vars
  <2> QED BY <2>1, <2>2 DEF WasCurrent, ReadWasTrue
<1> QED BY <1>1, <1>2, <1>3, <1>4, <1>5, <1>6, <1>7 DEF Next, Scan, Environment

-----------------------------------------------------------------------------
(* Devices that nothing happens to                                         *)

\* A target holds one filesystem at most, and has its directory.
TargetsSimple ==
    \A u \in Uuid : mounts[u] # <<>> => u \in dirs /\ \E d \in Dev : mounts[u] = <<d>>

On(d, u) == \E i \in DOMAIN mounts[u] : mounts[u][i] = d

Wanted(d, u) == On(d, u) /\ disk[d].uuid \notin Foreign /\ FsSize[d] >= MinSize

\* How far the scan has got with the mounts of d, and whether it lists d as unmounted.
Tracked(d) ==
    /\ pc \in {"mountinfo", "statfs"} => mounted = {}
    /\ pc \in {"mountinfo", "statfs", "getuuid", "lsblk"} => unmounted = {}
    /\ pc = "mountinfo" => entries = {}
    /\ pc = "statfs" => \A u \in Uuid :
          /\ <<u, d>> \in table => On(d, u) /\ disk[d].uuid \notin Foreign
          /\ <<u, d>> \in entries => Wanted(d, u)
          /\ Wanted(d, u) => <<u, d>> \in table \cup entries
    /\ pc \in {"getuuid", "lsblk", "done"} => \A u \in Uuid :
          Wanted(d, u) <=>
              <<u, d>> \in entries \/ \E r \in mounted : r.device = d /\ r.target = u
    /\ pc \in {"lsblk", "done"} => entries = {}
    /\ pc = "done" => \A k \in DOMAIN Rows :
          Rows[k] = d => (Free(k) <=> \E r \in unmounted : r.row = k)

\* ScanUnmounted writes one line for a row.
OneLine == \A q, r \in unmounted : q.row = r.row => q = r

SteadyInv == Inv /\ TargetsSimple /\ OneLine /\ \A d \in steady : Tracked(d)

LEMMA NextTargetsSimple ==
    ASSUME TypeOK, TargetsSimple, [Next]_vars
    PROVE  TargetsSimple'
<1>1. ASSUME NEW d \in Mountable, MountFs(d)
      PROVE  TargetsSimple'
  <2>1. PICK v \in dirs : mounts' = [mounts EXCEPT ![v] = <<d>>] /\ UNCHANGED dirs
      BY <1>1 DEF MountFs
  <2> QED BY <2>1, ScannerAssumption DEF TargetsSimple, TypeOK, HostTypeOK
<1>2. ASSUME NEW v \in Uuid, UnmountFs(v)
      PROVE  TargetsSimple'
  <2>1. UNCHANGED dirs /\ \A u \in Uuid : mounts'[u] = IF u = v THEN <<>> ELSE mounts[u]
      BY <1>2 DEF UnmountFs, TypeOK, HostTypeOK
  <2>2. ASSUME NEW u \in Uuid
        PROVE  mounts'[u] # <<>> => u \in dirs' /\ \E d \in Dev : mounts'[u] = <<d>>
    <3>1. CASE u = v
        BY <2>1, <3>1, Zenon
    <3>2. CASE u # v
      <4>1. mounts'[u] = mounts[u] /\ dirs' = dirs
          BY <2>1, <3>2, Zenon
      <4> QED BY <4>1, Zenon DEF TargetsSimple
    <3> QED BY <3>1, <3>2
  <2> QED BY <2>2, Zenon DEF TargetsSimple
<1>3. ASSUME NEW v \in Uuid, Directory(v)
      PROVE  TargetsSimple'
    BY <1>3 DEF Directory, TargetsSimple
<1>4. CASE UNCHANGED <<mounts, dirs>>
    BY <1>4 DEF TargetsSimple
<1> QED BY <1>1, <1>2, <1>3, <1>4
       DEF Next, Scan, Begin, ReadMounts, MeasureMount, AllMeasured, DescribeMount, AllDescribed,
           ListUnmounted, ScanFails, MountStray, UnmountStray, FormatBlank, Udev, hostVars, vars

\* The filesystem on top of a target is the only one there.
LEMMA OnTop ==
    ASSUME TargetsSimple, NEW u \in Uuid, NEW d, On(d, u)
    PROVE  mounts[u] # <<>> /\ TopMount(u) = d /\ u \in dirs
<1>1. mounts[u] # <<>>
    BY DEF On
<1>2. PICK e \in Dev : mounts[u] = <<e>>
    BY <1>1 DEF TargetsSimple
<1>3. d = e /\ TopMount(u) = e
    BY <1>2 DEF On, TopMount
<1> QED BY <1>1, <1>3 DEF TargetsSimple

\* Whoever is still steady after a step of the others was not concerned by it.
LEMMA SteadyUndisturbed ==
    ASSUME TypeOK, TargetsSimple, Environment, NEW d \in Dev, d \in steady'
    PROVE  /\ d \in steady /\ disk'[d] = disk[d] /\ udev'[d] = udev[d]
           /\ \A u \in Uuid : On(d, u)' <=> On(d, u)
           /\ d \in elsewhere' <=> d \in elsewhere
<1> USE DEF TypeOK, HostTypeOK
<1> DEFINE Same == /\ d \in steady /\ disk'[d] = disk[d] /\ udev'[d] = udev[d]
                   /\ \A u \in Uuid : On(d, u)' <=> On(d, u)
                   /\ d \in elsewhere' <=> d \in elsewhere
<1>1. ASSUME NEW e \in Mountable, MountFs(e)
      PROVE  Same
  <2>1. d # e /\ d \in steady
      BY <1>1 DEF MountFs, Touch
  <2>2. PICK v \in dirs : mounts[v] = <<>> /\ mounts' = [mounts EXCEPT ![v] = <<e>>]
      BY <1>1 DEF MountFs
  <2>3. \A u \in Uuid : On(d, u)' <=> On(d, u)
    <3> TAKE u \in Uuid
    <3>1. CASE u = v
      <4>1. mounts'[u] = <<e>> /\ mounts[u] = <<>>
          BY <2>2, <3>1
      <4> QED BY <4>1, <2>1 DEF On
    <3>2. CASE u # v
        BY <2>2, <3>2 DEF On
    <3> QED BY <3>1, <3>2
  <2> QED BY <1>1, <2>1, <2>3 DEF MountFs
<1>2. ASSUME NEW v \in Uuid, UnmountFs(v)
      PROVE  Same
  <2>1. d # TopMount(v) /\ d \in steady
      BY <1>2 DEF UnmountFs, Touch
  <2>2. ~On(d, v)
      BY <2>1, OnTop
  <2>3. mounts' = [mounts EXCEPT ![v] = <<>>]
      BY <1>2 DEF UnmountFs
  <2>4. \A u \in Uuid : On(d, u)' <=> On(d, u)
    <3> TAKE u \in Uuid
    <3>1. CASE u = v
        BY <2>2, <2>3, <3>1 DEF On
    <3>2. CASE u # v
        BY <2>3, <3>2 DEF On
    <3> QED BY <3>1, <3>2
  <2> QED BY <1>2, <2>1, <2>4 DEF UnmountFs
<1>3. ASSUME NEW e \in Stray, MountStray(e) \/ UnmountStray(e)
      PROVE  Same
    BY <1>3 DEF MountStray, UnmountStray, Touch, On, hostVars
<1>4. ASSUME NEW v \in Uuid, Directory(v)
      PROVE  Same
    BY <1>4 DEF Directory, On, ghosts
<1>5. ASSUME NEW e \in Formattable, FormatBlank(e)
      PROVE  Same
    BY <1>5 DEF FormatBlank, Mkfs, Touch, On
<1>6. ASSUME NEW e \in Dev, Udev(e)
      PROVE  Same
    BY <1>6 DEF Udev, UdevRecords, Touch, On
<1> QED BY <1>1, <1>2, <1>3, <1>4, <1>5, <1>6 DEF Environment

LEMMA MountedIsOn ==
    ASSUME NEW d
    PROVE  Mounted(d) <=> \E u \in Uuid : On(d, u)
BY DEF Mounted, On

\* The columns and mounts of a device decide whether its rows are listed as unmounted.
LEMMA SameFree ==
    ASSUME NEW d, NEW k \in DOMAIN Rows, Rows[k] = d, udev'[d] = udev[d],
           \A u \in Uuid : On(d, u)' <=> On(d, u),
           d \in elsewhere' <=> d \in elsewhere
    PROVE  Free(k)' <=> Free(k)
<1>1. Mounted(d)' <=> Mounted(d)
    BY DEF Mounted, On
<1>2. Idle(d)' <=> Idle(d)
    BY <1>1 DEF Idle
<1> QED BY <1>2 DEF Free

LEMMA TrackedUndisturbed ==
    ASSUME TypeOK, NEW d \in Dev, Tracked(d), UNCHANGED scan,
           disk'[d] = disk[d], udev'[d] = udev[d],
           \A u \in Uuid : On(d, u)' <=> On(d, u),
           d \in elsewhere' <=> d \in elsewhere
    PROVE  Tracked(d)'
<1>1. \A u \in Uuid : Wanted(d, u)' <=> Wanted(d, u)
    BY DEF Wanted
<1>2. \A k \in DOMAIN Rows : Rows[k] = d => (Free(k)' <=> Free(k))
    BY SameFree
<1> QED BY <1>1, <1>2 DEF Tracked, scan

LEMMA SameWanted ==
    ASSUME NEW d, UNCHANGED hostVars
    PROVE  \A u \in Uuid : (On(d, u)' <=> On(d, u)) /\ (Wanted(d, u)' <=> Wanted(d, u))
BY DEF On, Wanted, hostVars

LEMMA NextTracked ==
    ASSUME SteadyInv, [Next]_vars, NEW d \in Dev, d \in steady'
    PROVE  Tracked(d)'
<1> USE DEF SteadyInv, Inv
<1>1. CASE Environment
    BY <1>1, SteadyUndisturbed, EnvironmentStep, TrackedUndisturbed
<1>2. CASE Begin
    BY <1>2 DEF Begin, Tracked
<1>3. CASE ReadMounts
  <2>1. d \in steady /\ Tracked(d) /\ UNCHANGED <<hostVars, entries, mounted, unmounted>>
      BY <1>3 DEF ReadMounts, ghosts
  <2>2. entries = {} /\ mounted = {} /\ unmounted = {} /\ pc' = "statfs"
      BY <1>3, <2>1 DEF ReadMounts, Tracked
  <2>3. \A u \in Uuid : <<u, d>> \in table' <=> On(d, u) /\ disk[d].uuid \notin Foreign
      BY <1>3 DEF ReadMounts, On
  <2>4. \A u \in Uuid : (On(d, u)' <=> On(d, u)) /\ (Wanted(d, u)' <=> Wanted(d, u))
      BY <2>1, SameWanted
  <2>5. disk' = disk
      BY <2>1 DEF hostVars
  <2> QED BY <2>1, <2>2, <2>3, <2>4, <2>5 DEF Tracked, Wanted
<1>4. ASSUME NEW m \in Uuid \X Dev, MeasureMount(m)
      PROVE  Tracked(d)'
  <2>1. d \in steady /\ Tracked(d) /\ pc = "statfs"
        /\ UNCHANGED <<hostVars, elsewhere, pc, mounted, unmounted>>
        /\ table' = table \ {m} /\ m \in table
      BY <1>4 DEF MeasureMount
  <2>2. \A u \in Uuid : (On(d, u)' <=> On(d, u)) /\ (Wanted(d, u)' <=> Wanted(d, u))
      BY <2>1, SameWanted
  <2>3. disk' = disk
      BY <2>1 DEF hostVars
  <2>4. CASE m[2] # d
    <3>1. \A u \in Uuid : m # <<u, d>>
        BY <2>4
    <3>2. \A u \in Uuid : /\ <<u, d>> \in table' <=> <<u, d>> \in table
                          /\ <<u, d>> \in entries' <=> <<u, d>> \in entries
        BY <1>4, <2>1, <3>1 DEF MeasureMount
    <3> QED BY <2>1, <2>2, <2>3, <3>2 DEF Tracked
  <2>5. CASE m[2] = d
    <3>1. m = <<m[1], d>> /\ m[1] \in Uuid
        BY <2>5
    <3>2. On(d, m[1]) /\ disk[d].uuid \notin Foreign
        BY <2>1, <3>1 DEF Tracked
    <3>3. m[1] \in dirs /\ (LargeEnough(m[1]) <=> FsSize[d] >= MinSize)
        BY <3>1, <3>2, OnTop DEF LargeEnough
    <3>4. entries' = IF Wanted(d, m[1]) THEN entries \cup {m} ELSE entries
        BY <1>4, <2>5, <3>2, <3>3 DEF MeasureMount, Wanted
    <3>5. \A u \in Uuid : u # m[1] =>
              /\ <<u, d>> \in table' <=> <<u, d>> \in table
              /\ <<u, d>> \in entries' <=> <<u, d>> \in entries
        BY <2>1, <3>1, <3>4
    <3>6. <<m[1], d>> \notin table' /\ (Wanted(d, m[1]) => <<m[1], d>> \in entries')
        BY <2>1, <3>1, <3>4
    <3>7. <<m[1], d>> \in entries' => Wanted(d, m[1])
        BY <2>1, <3>1, <3>4 DEF Tracked
    <3>8. ASSUME NEW u \in Uuid
          PROVE  /\ <<u, d>> \in table' => On(d, u)' /\ disk'[d].uuid \notin Foreign
                 /\ <<u, d>> \in entries' => Wanted(d, u)'
                 /\ Wanted(d, u)' => <<u, d>> \in table' \cup entries'
      <4>1. CASE u = m[1]
          BY <2>2, <2>3, <3>6, <3>7, <4>1
      <4>2. CASE u # m[1]
          BY <2>1, <2>2, <2>3, <3>5, <4>2 DEF Tracked
      <4> QED BY <4>1, <4>2
    <3> QED BY <2>1, <3>8 DEF Tracked
  <2> QED BY <2>4, <2>5
<1>5. CASE AllMeasured
  <2>1. d \in steady /\ Tracked(d) /\ UNCHANGED <<hostVars, table, entries, mounted, unmounted>>
        /\ pc = "statfs" /\ table = {} /\ pc' = "getuuid"
      BY <1>5 DEF AllMeasured, ghosts
  <2>2. \A u \in Uuid : Wanted(d, u)' <=> Wanted(d, u)
      BY <2>1, SameWanted
  <2> QED BY <2>1, <2>2 DEF Tracked
<1>6. ASSUME NEW m \in Uuid \X Dev, DescribeMount(m)
      PROVE  Tracked(d)'
  <2>1. d \in steady /\ Tracked(d) /\ UNCHANGED <<hostVars, table, unmounted>>
        /\ pc = "getuuid" /\ pc' = pc /\ m \in entries /\ entries' = entries \ {m}
      BY <1>6 DEF DescribeMount, ghosts
  <2>2. PICK uuid : mounted' = mounted \cup {[target |-> m[1], device |-> m[2], uuid |-> uuid]}
      BY <1>6 DEF DescribeMount
  <2>3. \A u \in Uuid : Wanted(d, u)' <=> Wanted(d, u)
      BY <2>1, SameWanted
  <2>4. ASSUME NEW u \in Uuid
        PROVE  (<<u, d>> \in entries \/ \E r \in mounted : r.device = d /\ r.target = u)
               <=> (<<u, d>> \in entries' \/ \E r \in mounted' : r.device = d /\ r.target = u)
    <3>1. CASE m = <<u, d>>
      <4> DEFINE line == [target |-> m[1], device |-> m[2], uuid |-> uuid]
      <4>1. line \in mounted' /\ line.device = d /\ line.target = u
          BY <2>2, <3>1
      <4> QED BY <2>1, <3>1, <4>1
    <3>2. CASE m # <<u, d>>
      <4>1. ~(m[1] = u /\ m[2] = d)
          BY <3>2
      <4> QED BY <2>1, <2>2, <3>2, <4>1
    <3> QED BY <3>1, <3>2
  <2> QED BY <2>1, <2>3, <2>4 DEF Tracked
<1>7. CASE AllDescribed
  <2>1. d \in steady /\ Tracked(d) /\ UNCHANGED <<hostVars, table, entries, mounted, unmounted>>
        /\ pc = "getuuid" /\ entries = {} /\ pc' = "lsblk"
      BY <1>7 DEF AllDescribed, ghosts
  <2>2. \A u \in Uuid : Wanted(d, u)' <=> Wanted(d, u)
      BY <2>1, SameWanted
  <2> QED BY <2>1, <2>2 DEF Tracked
<1>8. CASE ListUnmounted
  <2>1. d \in steady /\ Tracked(d) /\ UNCHANGED <<hostVars, elsewhere, table, entries, mounted>>
        /\ pc = "lsblk" /\ pc' = "done"
      BY <1>8 DEF ListUnmounted, ghosts
  <2>2. \A u \in Uuid : (On(d, u)' <=> On(d, u)) /\ (Wanted(d, u)' <=> Wanted(d, u))
      BY <2>1, SameWanted
  <2>3. ASSUME NEW k \in DOMAIN Rows, Rows[k] = d
        PROVE  Free(k)' <=> \E r \in unmounted' : r.row = k
    <3>1. Free(k) <=> \E r \in unmounted' : r.row = k
      <4>1. ASSUME Free(k)
            PROVE  \E r \in unmounted' : r.row = k
        <5> DEFINE r == [row |-> k, uuid |-> ReportedUuid(Rows[k]),
                         status |-> IF Kind[Rows[k]] = "part" THEN "partitioned"
                                    ELSE "not partitioned"]
        <5>1. r \in unmounted' /\ r.row = k
            BY <1>8, <4>1 DEF ListUnmounted
        <5> QED BY <5>1
      <4> QED BY <1>8, <4>1, ListedRow
    <3>2. Free(k)' <=> Free(k)
        BY <2>1, <2>2, <2>3, SameFree DEF hostVars
    <3> QED BY <3>1, <3>2
  <2> QED BY <2>1, <2>2, <2>3 DEF Tracked
<1>9. CASE ScanFails
    BY <1>9 DEF ScanFails, Tracked
<1>10. CASE UNCHANGED vars
  <2>1. d \in steady /\ UNCHANGED scan /\ UNCHANGED hostVars /\ UNCHANGED elsewhere
      BY <1>10 DEF vars, scan, ghosts
  <2> QED BY <2>1, SameWanted, TrackedUndisturbed DEF hostVars
<1> QED BY <1>1, <1>2, <1>3, <1>4, <1>5, <1>6, <1>7, <1>8, <1>9, <1>10 DEF Next, Scan, Environment

-----------------------------------------------------------------------------
(* Theorems                                                                *)

LEMMA InitInv == Init => Inv
<1> SUFFICES ASSUME Init
             PROVE  Inv
    OBVIOUS
<1>1. TypeOK
    BY HostInitTypeOK, ScannerAssumption DEF Init, TypeOK
<1> QED BY <1>1 DEF Init, HostInit, Inv, UdevTrue, WasCurrent, ReadWasTrue, ReportedUuidResolves

LEMMA SpecInv == Spec => []Inv
<1>1. Inv /\ [Next]_vars => Inv'
    BY NextTypeOK, DisksKept, NextResolves, NextWasTrue DEF Inv
<1> QED BY <1>1, InitInv, PTL DEF Spec

LEMMA NextOneLine ==
    ASSUME TypeOK, OneLine, [Next]_vars
    PROVE  OneLine'
<1>1. CASE ListUnmounted
  <2> SUFFICES ASSUME NEW q \in unmounted', NEW r \in unmounted', q.row = r.row
               PROVE  q = r
      BY DEF OneLine
  <2>1. q.uuid = r.uuid /\ q.status = r.status
      BY <1>1, ListedRow
  <2>2. /\ q = [row |-> q.row, uuid |-> q.uuid, status |-> q.status]
        /\ r = [row |-> r.row, uuid |-> r.uuid, status |-> r.status]
      BY <1>1, ListedRow
  <2> QED BY <2>1, <2>2
<1>2. CASE ~ListUnmounted
  <2>1. unmounted' \subseteq unmounted
      BY <1>2, EnvironmentStep DEF Next, Environment, Scan, Begin, ReadMounts, MeasureMount,
         AllMeasured, DescribeMount, AllDescribed, ScanFails, scan, vars
  <2> QED BY <2>1 DEF OneLine
<1> QED BY <1>1, <1>2

LEMMA SpecSteady == Spec => []SteadyInv
<1>1. Init => SteadyInv
  <2>1. Init => TargetsSimple
    <3>1. Init => \A u \in Uuid : mounts[u] = <<>>
        BY DEF Init, HostInit
    <3> QED BY <3>1, Zenon DEF TargetsSimple
  <2>2. Init => steady = {} /\ unmounted = {}
      BY DEF Init
  <2> QED BY <2>1, <2>2, InitInv DEF SteadyInv, OneLine
<1>2. SteadyInv /\ [Next]_vars => SteadyInv'
  <2> SUFFICES ASSUME SteadyInv, [Next]_vars
               PROVE  SteadyInv'
      OBVIOUS
  <2>1. Inv'
      BY NextTypeOK, DisksKept, NextResolves, NextWasTrue DEF SteadyInv, Inv
  <2>2. TargetsSimple'
      BY NextTargetsSimple DEF SteadyInv, Inv
  <2>3. steady' \subseteq Dev
      BY <2>1 DEF Inv, TypeOK
  <2>4. OneLine'
      BY NextOneLine DEF SteadyInv, Inv
  <2> QED BY <2>1, <2>2, <2>3, <2>4, NextTracked DEF SteadyInv
<1> QED BY <1>1, <1>2, PTL DEF Spec

\* The state of a scan and of the node keeps its types.
THEOREM ScanTypes == Spec => []TypeOK
BY SpecInv, PTL DEF Inv

\* No line of the report says of a device what was true at no moment of the scan.
THEOREM LinesTrue == Spec => []LinesWereTrue
<1>1. Inv => LinesWereTrue
    BY DEF Inv, ReadWasTrue, LinesWereTrue
<1> QED BY <1>1, SpecInv, PTL

\* driver-mounter finds the device of a line by the UUID of the line, then and later.
THEOREM UuidsResolve == Spec => []ReportedUuidResolves
BY SpecInv, PTL DEF Inv

\* On a node whose devices have one row each, a device that nothing happens to is in the
\* report exactly as often as it should be, whatever becomes of the others.
THEOREM SteadyOnce ==
    ASSUME \A d \in Dev : Listed(d), \A j, k \in DOMAIN Rows : Rows[j] = Rows[k] => j = k
    PROVE  Spec => []SteadyReportedOnce
<1>1. ASSUME SteadyInv, pc = "done", NEW d \in steady, d \notin elsewhere, udev[d] = disk[d]
      PROVE  LET targets == {u \in Uuid : On(d, u)} IN
             IF ~Selected(d, targets # {}) THEN ReportsOf(d) = {}
             ELSE IF targets = {} THEN \E r \in unmounted : ReportsOf(d) = {r}
             ELSE ReportsOf(d) \subseteq mounted /\ {r.target : r \in ReportsOf(d)} = targets
  <2> DEFINE targets == {u \in Uuid : On(d, u)}
             ofMounted == {r \in mounted : r.device = d}
             ofUnmounted == {r \in unmounted : Rows[r.row] = d}
  <2>1. TypeOK /\ d \in Dev /\ Tracked(d) /\ Rows \in Seq(Dev)
      BY <1>1, HostAssumption DEF SteadyInv, Inv, TypeOK
  <2>2. PICK k \in DOMAIN Rows : Rows[k] = d
      BY <2>1 DEF Listed
  <2>3. \A j \in DOMAIN Rows : Rows[j] = d => j = k
      BY <2>2
  <2>4. ReportsOf(d) = ofMounted \cup ofUnmounted
      BY DEF ReportsOf
  <2>5. \A u \in Uuid : Wanted(d, u) <=> \E r \in ofMounted : r.target = u
      BY <1>1, <2>1 DEF Tracked
  <2>6. \A r \in ofMounted : r.target \in Uuid
      BY <2>1 DEF TypeOK, MountRow
  <2>7. Free(k) <=> \E r \in unmounted : r.row = k
      BY <1>1, <2>1, <2>2 DEF Tracked
  <2>8. \A r \in ofUnmounted : r.row = k
      BY <2>1, <2>3 DEF TypeOK, DeviceRow
  <2>9. Free(k) <=> targets = {} /\ Selected(d, FALSE)
    <3>1. Idle(d) <=> targets = {}
        BY <1>1, MountedIsOn DEF Idle
    <3>2. Selected(d, FALSE) <=>
              /\ disk[d].uuid \notin Foreign /\ Size[d] >= MinSize
              /\ Kind[d] \in {"disk", "part", "loop"} /\ ~(Kind[d] = "disk" /\ HasChildren(k))
        BY <2>2, <2>3 DEF Selected
    <3>3. Free(k) <=>
              /\ Idle(d) /\ udev[d].uuid \notin Foreign /\ Size[d] >= MinSize
              /\ Kind[d] \in {"disk", "part", "loop"} /\ ~(Kind[d] = "disk" /\ HasChildren(k))
        BY <2>2 DEF Free
    <3> QED BY <1>1, <3>1, <3>2, <3>3
  <2>10. CASE targets # {}
    <3>1. ~Free(k) /\ ofUnmounted = {}
        BY <2>7, <2>8, <2>9, <2>10
    <3>2. {r.target : r \in ofMounted} = {u \in Uuid : Wanted(d, u)}
        BY <2>5, <2>6
    <3>3. Selected(d, TRUE) <=> disk[d].uuid \notin Foreign /\ FsSize[d] >= MinSize
        BY DEF Selected
    <3>4. CASE Selected(d, TRUE)
      <4>1. {u \in Uuid : Wanted(d, u)} = targets
          BY <3>3, <3>4 DEF Wanted
      <4> QED BY <2>4, <2>10, <3>1, <3>2, <3>4, <4>1
    <3>5. CASE ~Selected(d, TRUE)
      <4>1. \A u \in Uuid : ~Wanted(d, u)
          BY <3>3, <3>5 DEF Wanted
      <4>2. ofMounted = {}
          BY <2>5, <2>6, <4>1
      <4> QED BY <2>4, <2>10, <3>1, <3>5, <4>2
    <3> QED BY <3>4, <3>5
  <2>11. CASE targets = {}
    <3>1. \A u \in Uuid : ~Wanted(d, u)
        BY <2>11 DEF Wanted
    <3>2. ofMounted = {}
        BY <2>5, <2>6, <3>1
    <3>3. CASE Selected(d, FALSE)
      <4>1. PICK r \in unmounted : r.row = k
          BY <2>7, <2>9, <2>11, <3>3
      <4>2. ofUnmounted = {r}
          BY <1>1, <2>2, <2>8, <4>1 DEF SteadyInv, OneLine
      <4> QED BY <2>4, <2>11, <3>2, <3>3, <4>1, <4>2
    <3>4. CASE ~Selected(d, FALSE)
      <4>1. ofUnmounted = {}
          BY <2>7, <2>8, <2>9, <3>4
      <4> QED BY <2>4, <2>11, <3>2, <3>4, <4>1
    <3> QED BY <3>3, <3>4
  <2> QED BY <2>10, <2>11
<1>2. SteadyInv => SteadyReportedOnce
    BY <1>1 DEF SteadyReportedOnce, On
<1> QED BY <1>2, SpecSteady, PTL
=============================================================================
