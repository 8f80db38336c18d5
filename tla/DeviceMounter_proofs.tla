------------------------ MODULE DeviceMounter_proofs ------------------------
(***************************************************************************)
(* Proofs about DeviceMounter, for every node, every set of processes and  *)
(* requests, and any number of faults.                                     *)
(***************************************************************************)
EXTENDS DeviceMounter, BlockHost_proofs, SequenceTheorems

\* The part of the invariant that types need: a running call has a request, and
\* a resolved path leads to a device.
TypeInv == TypeOK /\ CallKnown /\ PathNamesDevice

LEMMA InitTypeInv ==
    ASSUME Init
    PROVE  TypeInv
<1>1. HostTypeOK
    BY HostInitTypeOK DEF Init
<1>2. TypeOK
    BY <1>1, MounterAssumption DEF Init, TypeOK, Outcome
<1>3. CallKnown /\ PathNamesDevice
    BY DEF Init, CallKnown, PathNamesDevice, Resolved
<1> QED BY <1>2, <1>3 DEF TypeInv

\* What lsblk resolves a UUID to is a device.
LEMMA NameOfFirstIsDev ==
    ASSUME NEW u, Candidates(u) # {}
    PROVE  /\ NameOfFirst(u) \in Dev
           /\ NameOfFirst(u) \in Candidates(u)
<1>1. \E k \in DOMAIN Rows : Rows[k] \in Candidates(u)
    BY DEF Candidates, Listed
<1>2. NameOfFirst(u) \in Candidates(u)
    BY <1>1, FirstRowFound DEF NameOfFirst
<1> QED BY <1>2 DEF Candidates

\* The device that a call is about to mount is a device of the node.
LEMMA ResolvedDevice ==
    ASSUME TypeInv, NEW p \in Proc, pc[p] \in Resolved
    PROVE  /\ DeviceAt(path[p]) \in Dev
           /\ path[p] \in {DeviceAt(path[p]), KernelPath[DeviceAt(path[p])]}
<1>1. PICK d \in Dev : path[p] \in {d, KernelPath[d]}
    BY DEF TypeInv, PathNamesDevice
<1>2. DeviceAt(path[p]) = d
    BY <1>1, DeviceAtPath
<1> QED BY <1>1, <1>2

\* A running call has a request of the right type.
LEMMA RunningRequest ==
    ASSUME TypeInv, NEW p \in Proc, pc[p] # "idle"
    PROVE  /\ call[p] \in Requests
           /\ call[p].uuid \in Uuid
    BY MounterAssumption DEF TypeInv, CallKnown

\* A step of one running call keeps what TypeInv says of the control state, if
\* the path leads to a device wherever it is resolved afterwards.
LEMMA PcMoves ==
    ASSUME TypeInv, NEW p \in Proc, NEW s \in Running \cup {"done"}, pc[p] # "idle",
           pc' = [pc EXCEPT ![p] = s], call' = call,
           path' \in [Proc -> Path \cup {None}],
           \A q \in Proc \ {p} : path'[q] = path[q],
           s \in Resolved => \E d \in Dev : path'[p] \in {d, KernelPath[d]}
    PROVE  /\ pc' \in [Proc -> Running \cup {"idle", "done"}]
           /\ call' \in [Proc -> Requests \cup {NoCall}]
           /\ CallKnown' /\ PathNamesDevice'
<1>1. pc' \in [Proc -> Running \cup {"idle", "done"}] /\ call' \in [Proc -> Requests \cup {NoCall}]
    BY DEF TypeInv, TypeOK
<1>2. CallKnown'
    BY DEF TypeInv, TypeOK, CallKnown
<1>3. PathNamesDevice'
  <2> SUFFICES ASSUME NEW q \in Proc, pc'[q] \in Resolved
               PROVE  \E d \in Dev : path'[q] \in {d, KernelPath[d]}
      BY DEF PathNamesDevice
  <2>1. CASE q = p
      BY <2>1 DEF TypeInv, TypeOK
  <2>2. CASE q # p
      BY <2>2 DEF TypeInv, TypeOK, PathNamesDevice
  <2> QED BY <2>1, <2>2
<1> QED BY <1>1, <1>2, <1>3

\* The same for a step that leaves the path alone and does not enter the
\* resolved steps from outside.
LEMMA PcMovesOn ==
    ASSUME TypeInv, NEW p \in Proc, NEW s \in Running \cup {"done"}, pc[p] # "idle",
           pc' = [pc EXCEPT ![p] = s], call' = call, path' = path,
           s \in Resolved => pc[p] \in Resolved
    PROVE  /\ pc' \in [Proc -> Running \cup {"idle", "done"}]
           /\ call' \in [Proc -> Requests \cup {NoCall}]
           /\ path' \in [Proc -> Path \cup {None}]
           /\ CallKnown' /\ PathNamesDevice'
<1>1. s \in Resolved => \E d \in Dev : path'[p] \in {d, KernelPath[d]}
    BY DEF TypeInv, PathNamesDevice
<1>2. path' \in [Proc -> Path \cup {None}]
    BY DEF TypeInv, TypeOK
<1> QED BY <1>1, <1>2, PcMoves

\* Every step preserves TypeInv.
LEMMA NextTypeInv ==
    ASSUME TypeInv, [Next]_vars
    PROVE  TypeInv'
<1> USE DEF Resolved, Outcome, Running, MountStep, UnmountStep
<1>a. /\ HostTypeOK /\ TypeOK
    BY DEF TypeInv, TypeOK
<1>1. ASSUME NEW p \in Proc, NEW c \in Requests, Start(p, c)
      PROVE  TypeInv'
    BY <1>1, <1>a DEF Start, hostVars, TypeInv, TypeOK, HostTypeOK, CallKnown, PathNamesDevice
<1>2. CASE \E p \in Proc : Call(p)
    BY <1>1, <1>2 DEF Call
<1>3. CASE \E p \in Proc : Retry(p)
    BY <1>1, <1>3 DEF Retry, TypeInv, CallKnown
<1>4. CASE \E p \in Proc : Leave(p)
    BY <1>4, <1>a DEF Leave, hostVars, TypeInv, TypeOK, HostTypeOK, CallKnown, PathNamesDevice
<1>5. ASSUME NEW p \in Proc, ResolveBySymlink(p)
      PROVE  TypeInv'
  <2>1. CASE \E d \in Dev : path' = [path EXCEPT ![p] = KernelPath[d]] /\ Goto(p, "root")
    <3>1. PICK d \in Dev : path' = [path EXCEPT ![p] = KernelPath[d]] /\ Goto(p, "root")
        BY <2>1
    <3>2. KernelPath[d] \in Path
        BY HostAssumption
    <3>3. /\ path' \in [Proc -> Path \cup {None}]
          /\ \A q \in Proc \ {p} : path'[q] = path[q]
          /\ path'[p] = KernelPath[d]
        BY <3>1, <3>2, <1>a DEF TypeOK
    <3>4. pc[p] # "idle" /\ call' = call
        BY <1>5 DEF ResolveBySymlink
    <3>5. /\ pc' \in [Proc -> Running \cup {"idle", "done"}]
          /\ call' \in [Proc -> Requests \cup {NoCall}]
          /\ CallKnown' /\ PathNamesDevice'
        BY <3>1, <3>3, <3>4, PcMoves DEF Goto
    <3> QED
        BY <1>5, <3>1, <3>3, <3>5, <1>a
           DEF ResolveBySymlink, Goto, hostVars, ghosts, TypeInv, TypeOK, HostTypeOK
  <2>2. CASE UNCHANGED path /\ Goto(p, "lookup")
    BY <1>5, <2>2, <1>a, PcMovesOn
       DEF ResolveBySymlink, Goto, hostVars, ghosts, TypeInv, TypeOK, HostTypeOK
  <2> QED BY <1>5, <2>1, <2>2 DEF ResolveBySymlink
<1>6. ASSUME NEW p \in Proc, ResolveByLsblk(p)
      PROVE  TypeInv'
  <2> DEFINE n == NameOfFirst(call[p].uuid)
  <2>1. CASE Candidates(call[p].uuid) # {} /\ path' = [path EXCEPT ![p] = n] /\ Goto(p, "root")
    <3>1. n \in Dev /\ n \in Path
        BY <2>1, NameOfFirstIsDev, HostAssumption
    <3>2. /\ path' \in [Proc -> Path \cup {None}]
          /\ \A q \in Proc \ {p} : path'[q] = path[q]
          /\ path'[p] = n
        BY <2>1, <3>1, <1>a DEF TypeOK
    <3>3. pc[p] # "idle" /\ call' = call
        BY <1>6 DEF ResolveByLsblk
    <3>4. /\ pc' \in [Proc -> Running \cup {"idle", "done"}]
          /\ call' \in [Proc -> Requests \cup {NoCall}]
          /\ CallKnown' /\ PathNamesDevice'
        BY <2>1, <3>1, <3>2, <3>3, PcMoves DEF Goto
    <3> QED
        BY <1>6, <2>1, <3>2, <3>4, <1>a
           DEF ResolveByLsblk, Goto, hostVars, ghosts, TypeInv, TypeOK, HostTypeOK
  <2>2. CASE Return(p, "refused") /\ UNCHANGED path
    BY <1>6, <2>2, <1>a, PcMovesOn
       DEF ResolveByLsblk, Return, hostVars, ghosts, TypeInv, TypeOK, HostTypeOK
  <2> QED BY <1>6, <2>1, <2>2 DEF ResolveByLsblk
<1>b. ASSUME NEW p \in Proc, NEW s \in Running \cup {"done"}, NEW r \in Outcome,
             pc[p] # "idle", pc' = [pc EXCEPT ![p] = s],
             res' \in {res, [res EXCEPT ![p] = r]}, UNCHANGED <<call, path>>,
             s \in Resolved => pc[p] \in Resolved,
             HostTypeOK', hasFs' \in [Proc -> BOOLEAN], faults' \in 0..MaxFaults,
             open' \in [Proc -> BOOLEAN], unguarded' \subseteq Dev,
             disturbed' \in [Proc -> BOOLEAN]
      PROVE  TypeInv'
  <2>1. res' \in [Proc -> Outcome]
      BY <1>a, <1>b DEF TypeOK
  <2> QED BY <2>1, <1>b, PcMovesOn DEF TypeInv, TypeOK
<1>7. ASSUME NEW p \in Proc, CheckNotRootDisk(p)
      PROVE  TypeInv'
    BY <1>7, <1>a, <1>b DEF CheckNotRootDisk, Goto, Return, hostVars, ghosts, TypeOK, HostTypeOK
<1>8. ASSUME NEW p \in Proc, SkipGuardrail(p)
      PROVE  TypeInv'
  <2>1. /\ pc[p] = "root" /\ Goto(p, "info") /\ faults' \in 0..MaxFaults
        /\ open' \in [Proc -> BOOLEAN]
        /\ UNCHANGED <<hostVars, call, path, hasFs, unguarded, disturbed>>
      BY <1>8, <1>a, MounterAssumption DEF SkipGuardrail, TypeOK
  <2> QED BY <2>1, <1>a, <1>b DEF Goto, hostVars, TypeOK, HostTypeOK
<1>9. ASSUME NEW p \in Proc, ReadDeviceInfo(p)
      PROVE  TypeInv'
  <2>1. hasFs' \in [Proc -> BOOLEAN]
      BY <1>9, <1>a DEF ReadDeviceInfo, HasFs, TypeOK
  <2>2. /\ \/ Goto(p, "mkdir")
           \/ Return(p, "refused")
        /\ pc[p] = "info"
        /\ UNCHANGED <<hostVars, call, path, faults, ghosts>>
      BY <1>9 DEF ReadDeviceInfo
  <2> QED BY <2>1, <2>2, <1>a, <1>b DEF Goto, Return, hostVars, ghosts, TypeOK, HostTypeOK
<1>10. ASSUME NEW p \in Proc, MakeTarget(p)
       PROVE  TypeInv'
  <2>1. pc[p] # "idle" /\ call[p].uuid \in Uuid
      BY <1>10, RunningRequest DEF MakeTarget
  <2>2. HostTypeOK' /\ disturbed' \in [Proc -> BOOLEAN]
      BY <1>10, <2>1, <1>a DEF MakeTarget, Disturb, TypeOK, HostTypeOK
  <2> QED BY <1>10, <2>1, <2>2, <1>a, <1>b DEF MakeTarget, Goto, TypeOK
<1>11. ASSUME NEW p \in Proc, CheckTarget(p)
       PROVE  TypeInv'
    BY <1>11, <1>a, <1>b DEF CheckTarget, Goto, Return, hostVars, ghosts, TypeOK, HostTypeOK
<1>12. ASSUME NEW p \in Proc, MountDevice(p)
       PROVE  TypeInv'
  <2>2. pc[p] # "idle" /\ DeviceAt(path[p]) \in Dev /\ call[p].uuid \in Uuid
      BY <1>12, ResolvedDevice, RunningRequest DEF MountDevice
  <2>3. Append(mounts[call[p].uuid], DeviceAt(path[p])) \in Seq(Dev)
      BY <2>2, <1>a DEF HostTypeOK
  <2>4. HostTypeOK' /\ disturbed' \in [Proc -> BOOLEAN] /\ unguarded' \subseteq Dev
      BY <1>12, <2>2, <2>3, <1>a DEF MountDevice, Disturb, TypeOK, HostTypeOK
  <2> QED BY <1>12, <2>2, <2>4, <1>a, <1>b DEF MountDevice, Return, TypeOK
<1>13. ASSUME NEW p \in Proc, StatTarget(p)
       PROVE  TypeInv'
    BY <1>13, <1>a, <1>b DEF StatTarget, Goto, Return, hostVars, ghosts, TypeOK, HostTypeOK
<1>14. ASSUME NEW p \in Proc, CheckMounted(p)
       PROVE  TypeInv'
    BY <1>14, <1>a, <1>b DEF CheckMounted, Goto, Return, hostVars, ghosts, TypeOK, HostTypeOK
<1>15. ASSUME NEW p \in Proc, UnmountTarget(p)
       PROVE  TypeInv'
  <2>2. pc[p] # "idle" /\ call[p].uuid \in Uuid
      BY <1>15, RunningRequest DEF UnmountTarget
  <2>3. \A s \in Seq(Dev) : s # <<>> => SubSeq(s, 1, Len(s) - 1) \in Seq(Dev)
      OBVIOUS
  <2>4. HostTypeOK' /\ disturbed' \in [Proc -> BOOLEAN]
    <3>1. mounts' \in [Uuid -> Seq(Dev)]
      <4>1. mounts \in [Uuid -> Seq(Dev)]
          BY <1>a DEF HostTypeOK
      <4>2. \/ mounts' = mounts
            \/ /\ mounts[call[p].uuid] # <<>>
               /\ mounts' = [mounts EXCEPT ![call[p].uuid] = SubSeq(@, 1, Len(@) - 1)]
          BY <1>15 DEF UnmountTarget
      <4> QED BY <2>2, <2>3, <4>1, <4>2
    <3>2. UNCHANGED <<disk, udev, dirs>>
        BY <1>15 DEF UnmountTarget
    <3>3. disturbed' \in [Proc -> BOOLEAN]
        BY <1>15, <1>a DEF UnmountTarget, Disturb, TypeOK
    <3> QED BY <3>1, <3>2, <3>3, <1>a DEF HostTypeOK
  <2> QED BY <1>15, <2>2, <2>4, <1>a, <1>b DEF UnmountTarget, Goto, Return, TypeOK
<1>16. ASSUME NEW p \in Proc, RemoveTarget(p)
       PROVE  TypeInv'
  <2>1. HostTypeOK' /\ disturbed' \in [Proc -> BOOLEAN]
      BY <1>16, <1>a DEF RemoveTarget, Disturb, TypeOK, HostTypeOK
  <2>2. /\ pc[p] = "rmdir" /\ Return(p, "ok")
        /\ UNCHANGED <<call, path, hasFs, faults, open, unguarded>>
      BY <1>16 DEF RemoveTarget
  <2> QED BY <2>1, <2>2, <1>a, <1>b DEF Return, TypeOK
<1>17. ASSUME NEW p \in Proc, ProviderFails(p)
       PROVE  TypeInv'
  <2>1. /\ pc[p] # "idle" /\ faults' \in 0..MaxFaults
        /\ \E r \in Outcome : Return(p, r)
        /\ UNCHANGED <<hostVars, call, path, hasFs, ghosts>>
      BY <1>17, <1>a, MounterAssumption DEF ProviderFails, TypeOK
  <2> QED BY <2>1, <1>a, <1>b DEF Return, hostVars, ghosts, TypeOK, HostTypeOK
<1>18. ASSUME NEW p \in Proc, Crash(p)
       PROVE  TypeInv'
  <2>1. pc[p] # "idle" /\ faults' \in 0..MaxFaults
      BY <1>18, <1>a, MounterAssumption DEF Crash, TypeOK
  <2> QED BY <1>18, <2>1, <1>a, <1>b DEF Crash, Return, hostVars, ghosts, TypeOK, HostTypeOK
<1>c. ASSUME HostTypeOK', UNCHANGED <<local, faults, open, unguarded>>,
             disturbed' \in [Proc -> BOOLEAN]
      PROVE  TypeInv'
  <2>1. TypeOK'
      BY <1>c, <1>a DEF local, TypeOK
  <2>2. CallKnown' /\ PathNamesDevice'
      BY <1>c DEF local, TypeInv, CallKnown, PathNamesDevice
  <2> QED BY <2>1, <2>2 DEF TypeInv
<1>19. CASE \E d \in Formattable : FormatBlank(d)
  <2>1. disk' \in [Dev -> Content]
      BY <1>19, <1>a, MounterAssumption, MkfsType DEF FormatBlank, HostTypeOK
  <2> QED BY <1>19, <2>1, <1>a, <1>c DEF FormatBlank, DisturbAll, TypeOK, HostTypeOK
<1>20. CASE \E d \in Dev : Udev(d)
  <2>1. HostTypeOK'
      BY <1>20, <1>a DEF Udev, UdevRecords, HostTypeOK
  <2> QED BY <1>20, <2>1, <1>a, <1>c DEF Udev, DisturbAll, TypeOK
<1>21. CASE UNCHANGED vars
    BY <1>21, <1>a, <1>c DEF vars, hostVars, ghosts, TypeOK, HostTypeOK
<1> QED
    BY <1>2, <1>3, <1>4, <1>5, <1>6, <1>7, <1>8, <1>9, <1>10, <1>11, <1>12,
       <1>13, <1>14, <1>15, <1>16, <1>17, <1>18, <1>19, <1>20, <1>21
       DEF Next, Step

\* Every variable keeps its type in every behaviour.
THEOREM TypeCorrect == Spec => []TypeOK
<1>1. Spec => []TypeInv
    BY InitTypeInv, NextTypeInv, PTL DEF Spec
<1>2. TypeInv => TypeOK
    BY DEF TypeInv
<1> QED BY <1>1, <1>2, PTL

-----------------------------------------------------------------------------
(* What one step can do, for all the invariants below                      *)

\* The steps of process p, and those of the rest of the node.
ProcStep(p) ==
    \/ Call(p) \/ Retry(p) \/ Leave(p)
    \/ Step(p) \/ SkipGuardrail(p) \/ ProviderFails(p) \/ Crash(p)

NodeStep ==
    \/ \E d \in Formattable : FormatBlank(d)
    \/ \E d \in Dev : Udev(d)

LEMMA NextCases ==
    [Next]_vars => (\E p \in Proc : ProcStep(p)) \/ NodeStep \/ UNCHANGED vars
BY DEF Next, ProcStep, NodeStep

\* A step of p leaves the disks alone, and what the other processes know.
LEMMA OthersUnchanged ==
    ASSUME TypeInv, NEW p \in Proc, ProcStep(p)
    PROVE  /\ UNCHANGED <<disk, udev>>
           /\ \A q \in Proc \ {p} : /\ pc'[q] = pc[q] /\ call'[q] = call[q]
                                   /\ path'[q] = path[q] /\ open'[q] = open[q]
<1> USE DEF TypeInv, TypeOK
<1>1. ASSUME NEW c, Start(p, c)
      PROVE  /\ UNCHANGED <<disk, udev>>
             /\ \A q \in Proc \ {p} : /\ pc'[q] = pc[q] /\ call'[q] = call[q]
                                     /\ path'[q] = path[q] /\ open'[q] = open[q]
    BY <1>1 DEF Start, hostVars
<1>2. CASE Call(p) \/ Retry(p)
    BY <1>1, <1>2 DEF Call, Retry
<1>3. CASE Leave(p)
    BY <1>3 DEF Leave, hostVars
<1>4. CASE ResolveBySymlink(p)
    BY <1>4 DEF ResolveBySymlink, Goto, hostVars, ghosts
<1>5. CASE ResolveByLsblk(p)
    BY <1>5 DEF ResolveByLsblk, Goto, Return, hostVars, ghosts
<1>6. CASE CheckNotRootDisk(p) \/ SkipGuardrail(p)
    BY <1>6 DEF CheckNotRootDisk, SkipGuardrail, Goto, Return, hostVars, ghosts
<1>7. CASE ReadDeviceInfo(p)
    BY <1>7 DEF ReadDeviceInfo, Goto, Return, hostVars, ghosts
<1>8. CASE MakeTarget(p) \/ CheckTarget(p)
    BY <1>8 DEF MakeTarget, CheckTarget, Goto, Return, hostVars, ghosts
<1>9. CASE MountDevice(p)
    BY <1>9 DEF MountDevice, Return
<1>10. CASE StatTarget(p) \/ CheckMounted(p)
    BY <1>10 DEF StatTarget, CheckMounted, Goto, Return, hostVars, ghosts
<1>11. CASE UnmountTarget(p)
    BY <1>11 DEF UnmountTarget, Goto, Return
<1>12. CASE RemoveTarget(p)
    BY <1>12 DEF RemoveTarget, Return
<1>13. CASE ProviderFails(p) \/ Crash(p)
    BY <1>13 DEF ProviderFails, Crash, Return, hostVars, ghosts
<1> QED
    BY <1>2, <1>3, <1>4, <1>5, <1>6, <1>7, <1>8, <1>9, <1>10, <1>11, <1>12, <1>13
       DEF ProcStep, Step

\* How a call comes to, and goes through, the steps at which its path is known.
Resolves(p) ==
    /\ pc'[p] = "root"
    /\ \E d \in Dev : path'[p] \in {d, KernelPath[d]} /\ Answers(d, call[p].uuid, udev)

PassesGuard(p) ==
    /\ pc[p] = "root" /\ pc'[p] = "info" /\ path' = path
    /\ open'[p] \/ path[p] \notin FindRootDiskDescendants(RootSource)

PassesInfo(p) ==
    /\ pc[p] = "info" /\ pc'[p] = "mkdir" /\ path' = path /\ open' = open
    /\ call[p].require # None => Listed(path[p]) /\ LabelAccepted(call[p], path[p])

PassesTarget(p) ==
    /\ pc[p] \in {"mkdir", "check"} /\ pc'[p] \in {"check", "mount"}
    /\ path' = path /\ open' = open

LEMMA ResolvedStep ==
    ASSUME TypeInv, NEW p \in Proc, ProcStep(p), pc'[p] \in Resolved
    PROVE  /\ call' = call
           /\ Resolves(p) \/ PassesGuard(p) \/ PassesInfo(p) \/ PassesTarget(p)
<1> USE DEF Resolved
<1>1. pc \in [Proc -> Running \cup {"idle", "done"}] /\ path \in [Proc -> Path \cup {None}]
         /\ open \in [Proc -> BOOLEAN]
    BY DEF TypeInv, TypeOK
<1>2. ASSUME NEW r, Return(p, r)
      PROVE  FALSE
    BY <1>1, <1>2 DEF Return
<1>3. ~Call(p) /\ ~Retry(p) /\ ~Leave(p)
    BY <1>1 DEF Call, Retry, Start, Leave
<1>4. CASE ResolveBySymlink(p)
  <2>1. PICK d \in Dev : /\ udev[d].uuid = call[p].uuid
                         /\ path' = [path EXCEPT ![p] = KernelPath[d]]
                         /\ Goto(p, "root")
      BY <1>1, <1>4 DEF ResolveBySymlink, Goto
  <2>2. Resolves(p)
      BY <1>1, <2>1 DEF Resolves, Answers, Goto
  <2> QED BY <1>4, <2>2 DEF ResolveBySymlink
<1>5. CASE ResolveByLsblk(p)
  <2>1. /\ Candidates(call[p].uuid) # {} /\ Goto(p, "root")
        /\ path' = [path EXCEPT ![p] = NameOfFirst(call[p].uuid)]
      BY <1>2, <1>5 DEF ResolveByLsblk
  <2>2. Resolves(p)
      BY <1>1, <2>1, NameOfFirstIsDev DEF Resolves, Candidates, Goto
  <2> QED BY <1>5, <2>2 DEF ResolveByLsblk
<1>6. CASE CheckNotRootDisk(p) \/ SkipGuardrail(p)
  <2>1. PassesGuard(p)
      BY <1>1, <1>2, <1>6 DEF CheckNotRootDisk, SkipGuardrail, Goto, PassesGuard
  <2> QED BY <1>6, <2>1 DEF CheckNotRootDisk, SkipGuardrail
<1>7. CASE ReadDeviceInfo(p)
  <2>1. PassesInfo(p)
      BY <1>1, <1>2, <1>7 DEF ReadDeviceInfo, Goto, PassesInfo, ghosts
  <2> QED BY <1>7, <2>1 DEF ReadDeviceInfo
<1>8. CASE MakeTarget(p) \/ CheckTarget(p)
  <2>1. PassesTarget(p)
      BY <1>1, <1>2, <1>8 DEF MakeTarget, CheckTarget, Goto, PassesTarget, ghosts
  <2> QED BY <1>8, <2>1 DEF MakeTarget, CheckTarget
<1>9. ~MountDevice(p) /\ ~RemoveTarget(p) /\ ~ProviderFails(p) /\ ~Crash(p)
    BY <1>2 DEF MountDevice, RemoveTarget, ProviderFails, Crash
<1>10. ~StatTarget(p) /\ ~CheckMounted(p) /\ ~UnmountTarget(p)
    BY <1>1, <1>2 DEF StatTarget, CheckMounted, UnmountTarget, Goto
<1> QED BY <1>3, <1>4, <1>5, <1>6, <1>7, <1>8, <1>9, <1>10 DEF ProcStep, Step

\* How a step of p can change what is mounted.
Mounts(p) ==
    LET u == call[p].uuid
        d == DeviceAt(path[p])
    IN  /\ pc[p] = "mount" /\ KernelAccepts(d, u)
        /\ mounts' = [mounts EXCEPT ![u] = Append(@, d)]
        /\ unguarded' = IF open[p] THEN unguarded \cup {d} ELSE unguarded

Unmounts(p) ==
    LET u == call[p].uuid
    IN  /\ pc[p] = "umount" /\ mounts[u] # <<>>
        /\ mounts' = [mounts EXCEPT ![u] = SubSeq(@, 1, Len(@) - 1)]
        /\ unguarded' = unguarded

LEMMA MountsStep ==
    ASSUME NEW p \in Proc, ProcStep(p)
    PROVE  UNCHANGED <<mounts, unguarded>> \/ Mounts(p) \/ Unmounts(p)
<1>1. CASE MountDevice(p)
    BY <1>1 DEF MountDevice, Mounts
<1>2. CASE UnmountTarget(p)
    BY <1>2 DEF UnmountTarget, Unmounts
<1>3. CASE Call(p) \/ Retry(p) \/ Leave(p)
    BY <1>3 DEF Call, Retry, Leave, Start, hostVars
<1>4. CASE ResolveBySymlink(p) \/ ResolveByLsblk(p) \/ CheckNotRootDisk(p) \/ SkipGuardrail(p)
    BY <1>4 DEF ResolveBySymlink, ResolveByLsblk, CheckNotRootDisk, SkipGuardrail, hostVars, ghosts
<1>5. CASE ReadDeviceInfo(p) \/ MakeTarget(p) \/ CheckTarget(p)
    BY <1>5 DEF ReadDeviceInfo, MakeTarget, CheckTarget, hostVars, ghosts
<1>6. CASE StatTarget(p) \/ CheckMounted(p) \/ RemoveTarget(p)
    BY <1>6 DEF StatTarget, CheckMounted, RemoveTarget, hostVars, ghosts
<1>7. CASE ProviderFails(p) \/ Crash(p)
    BY <1>7 DEF ProviderFails, Crash, hostVars, ghosts
<1> QED BY <1>1, <1>2, <1>3, <1>4, <1>5, <1>6, <1>7 DEF ProcStep, Step

\* The rest of the node changes neither the processes nor the mounts.
LEMMA NodeStepFrame ==
    ASSUME NodeStep
    PROVE  UNCHANGED <<mounts, pc, call, path, open, unguarded>>
BY DEF NodeStep, FormatBlank, Udev, local

-----------------------------------------------------------------------------
(* The guardrail                                                           *)

LEMMA NextPathGuarded ==
    ASSUME TypeInv, PathGuarded, [Next]_vars
    PROVE  PathGuarded'
<1> SUFFICES ASSUME NEW q \in Proc, pc'[q] \in Resolved \ {"root"}
             PROVE  open'[q] \/ path'[q] \notin FindRootDiskDescendants(RootSource)
    BY DEF PathGuarded
<1>1. ASSUME NEW p \in Proc, ProcStep(p)
      PROVE  open'[q] \/ path'[q] \notin FindRootDiskDescendants(RootSource)
  <2>1. CASE q # p
      BY <1>1, <2>1, OthersUnchanged DEF PathGuarded
  <2>2. CASE q = p
    <3>1. PassesGuard(p) \/ PassesInfo(p) \/ PassesTarget(p)
        BY <1>1, <2>2, ResolvedStep DEF Resolves
    <3> QED BY <3>1, <2>2 DEF PassesGuard, PassesInfo, PassesTarget, PathGuarded, Resolved
  <2> QED BY <2>1, <2>2
<1>2. CASE NodeStep
    BY <1>2, NodeStepFrame DEF PathGuarded
<1>3. CASE UNCHANGED vars
    BY <1>3 DEF vars, local, ghosts, PathGuarded
<1> QED BY <1>1, <1>2, <1>3, NextCases

\* A mount adds at most one device to those mounted, an unmount none.
LEMMA MountedAfter ==
    ASSUME TypeInv, NEW p \in Proc, Mounts(p) \/ Unmounts(p), NEW e \in Dev, Mounted(e)'
    PROVE  Mounted(e) \/ (Mounts(p) /\ e = DeviceAt(path[p]))
<1>1. mounts \in [Uuid -> Seq(Dev)]
    BY DEF TypeInv, TypeOK, HostTypeOK
<1>0. PICK u \in Uuid : \E i \in DOMAIN mounts'[u] : mounts'[u][i] = e
    BY DEF Mounted
<1>2. PICK i \in DOMAIN mounts'[u] : mounts'[u][i] = e
    BY <1>0
<1>3. CASE mounts'[u] = mounts[u]
    BY <1>2, <1>3 DEF Mounted
<1>4. CASE mounts'[u] # mounts[u]
  <2>1. u = call[p].uuid
      BY <1>1, <1>4 DEF Mounts, Unmounts
  <2> DEFINE s == mounts[u]
  <2>2. s \in Seq(Dev)
      BY <1>1
  <2>3. CASE Mounts(p)
    <3>1. pc[p] \in Resolved
        BY <2>3 DEF Mounts, Resolved
    <3>2. DeviceAt(path[p]) \in Dev
        BY <3>1, ResolvedDevice
    <3>3. mounts'[u] = Append(s, DeviceAt(path[p]))
        BY <2>1, <2>3, <1>1 DEF Mounts
    <3>4. i \in 1..Len(s) => s[i] = e
        BY <1>2, <2>2, <3>2, <3>3
    <3>5. i \notin 1..Len(s) => e = DeviceAt(path[p])
        BY <1>2, <2>2, <3>2, <3>3
    <3>6. DOMAIN s = 1..Len(s)
        BY <2>2
    <3> QED BY <2>3, <3>4, <3>5, <3>6 DEF Mounted
  <2>4. CASE Unmounts(p)
    <3>1. mounts'[u] = SubSeq(s, 1, Len(s) - 1)
        BY <2>1, <2>4, <1>1 DEF Unmounts
    <3>2. s # <<>>
        BY <2>1, <2>4 DEF Unmounts
    <3>3. i \in DOMAIN s /\ s[i] = e
        BY <1>2, <2>2, <3>1, <3>2
    <3> QED BY <3>3 DEF Mounted
  <2> QED BY <2>3, <2>4
<1> QED BY <1>3, <1>4

LEMMA NextRootDisk ==
    ASSUME NamesAgree, RootOnOneDisk, TypeInv, PathGuarded, RootDiskNeverMounted, [Next]_vars
    PROVE  RootDiskNeverMounted'
<1> SUFFICES ASSUME NEW e \in RootDiskDevices, Mounted(e)'
             PROVE  e \in unguarded'
    BY DEF RootDiskNeverMounted
<1>1. ASSUME NEW p \in Proc, ProcStep(p)
      PROVE  e \in unguarded'
  <2>1. CASE UNCHANGED <<mounts, unguarded>>
      BY <2>1 DEF Mounted, RootDiskNeverMounted
  <2>2. CASE Mounts(p) \/ Unmounts(p)
    <3>1. CASE Mounted(e)
        BY <2>2, <3>1 DEF RootDiskNeverMounted, Mounts, Unmounts
    <3>2. CASE Mounts(p) /\ e = DeviceAt(path[p])
      <4>1. pc[p] \in Resolved \ {"root"}
          BY <3>2 DEF Mounts, Resolved
      <4>2. path[p] = e
          BY <3>2, <4>1, ResolvedDevice DEF NamesAgree
      <4>3. open[p]
          BY <4>1, <4>2, RootDiskFound DEF PathGuarded
      <4> QED BY <3>2, <4>3 DEF Mounts
    <3>3. e \in Dev
      <4>1. PICK k \in DOMAIN Rows : Rows[k] = e
          BY DEF RootDiskDevices, Subtree
      <4> QED BY <4>1, ListedIsDev DEF Listed
    <3> QED BY <2>2, <3>1, <3>2, <3>3, MountedAfter
  <2> QED BY <1>1, <2>1, <2>2, MountsStep
<1>2. CASE NodeStep
    BY <1>2, NodeStepFrame DEF Mounted, RootDiskNeverMounted
<1>3. CASE UNCHANGED vars
    BY <1>3 DEF vars, hostVars, ghosts, Mounted, RootDiskNeverMounted
<1> QED BY <1>1, <1>2, <1>3, NextCases

\* The guardrail of services/mounter.go keeps the root disk from being mounted:
\* on every node where lsblk and the by-uuid links use the same names and "/"
\* lies on one disk, for any number of concurrent calls, kills and failures.
THEOREM RootDiskSafe ==
    ASSUME NamesAgree, RootOnOneDisk
    PROVE  Spec => []RootDiskNeverMounted
<1> DEFINE I == TypeInv /\ PathGuarded /\ RootDiskNeverMounted
<1>1. Init => I
  <2> SUFFICES ASSUME Init PROVE I
      OBVIOUS
  <2>1. PathGuarded
      BY DEF Init, PathGuarded, Resolved
  <2>2. RootDiskNeverMounted
      BY DEF Init, HostInit, RootDiskNeverMounted, Mounted
  <2> QED BY <2>1, <2>2, InitTypeInv
<1>2. I /\ [Next]_vars => I'
    BY NextTypeInv, NextPathGuarded, NextRootDisk
<1>3. I => RootDiskNeverMounted
    OBVIOUS
<1> QED BY <1>1, <1>2, <1>3, PTL DEF Spec

-----------------------------------------------------------------------------
(* What a call has read stays true until it mounts                         *)

DataInv == UdevFollows /\ OneCarrier /\ PathCarriesUuid /\ PathLabelled

\* A record of udev, and a label, are those of a disk with a filesystem.
LEMMA RecordedIsOnDisk ==
    ASSUME TypeInv, UdevFollows, NEW d \in Dev
    PROVE  /\ \A u \in Uuid : Answers(d, u, udev) => Answers(d, u, disk)
           /\ udev[d].label # None => disk[d].label = udev[d].label
<1>1. udev[d] \in {disk[d], Blank}
    BY DEF UdevFollows
<1>2. None \notin Uuid
    BY HostAssumption
<1> QED BY <1>1, <1>2 DEF Answers, Blank

\* The rest of the node keeps the disks distinguishable, and what is on them.
LEMMA NodeKeepsDisks ==
    ASSUME TypeInv, UdevFollows, OneCarrier, NodeStep
    PROVE  /\ UdevFollows' /\ OneCarrier'
           /\ \A d \in Dev : HasFs(disk[d]) => disk'[d] = disk[d]
<1>1. disk \in [Dev -> Content] /\ udev \in [Dev -> Content]
    BY DEF TypeInv, TypeOK, HostTypeOK
<1>2. ASSUME NEW d \in Formattable, FormatBlank(d)
      PROVE  /\ UdevFollows' /\ OneCarrier'
             /\ \A e \in Dev : HasFs(disk[e]) => disk'[e] = disk[e]
  <2>1. d \in Dev /\ udev' = udev /\ ~HasFs(disk[d])
      BY <1>2, MounterAssumption DEF FormatBlank
  <2>2. PICK u \in Uuid : Mkfs(d, u, MkfsLabel)
      BY <1>2 DEF FormatBlank
  <2>3. disk' = [disk EXCEPT ![d] = [uuid |-> u, label |-> MkfsLabel]]
      BY <2>2 DEF Mkfs
  <2>4. \A e \in Dev : HasFs(disk[e]) => disk'[e] = disk[e]
      BY <1>1, <2>1, <2>3
  <2>5. u # None
      BY HostAssumption
  <2>6. UdevFollows'
    <3>1. disk[d] = Blank /\ udev[d] = Blank
        BY <2>1 DEF UdevFollows
    <3>2. \A e \in Dev \ {d} : disk'[e] = disk[e]
        BY <1>1, <2>3
    <3>3. HasFs(disk'[d])
        BY <1>1, <2>1, <2>3, <2>5 DEF HasFs
    <3> QED BY <2>1, <3>1, <3>2, <3>3 DEF UdevFollows
  <2>7. OneCarrier'
    <3> SUFFICES ASSUME NEW v \in Uuid, NEW e \in Dev, NEW f \in Dev,
                        Answers(e, v, disk'), Answers(f, v, disk')
                 PROVE  e = f
        BY DEF OneCarrier
    <3>1. \A g \in Dev : Answers(g, v, disk') => Answers(g, v, disk) \/ (g = d /\ v = u)
        BY <1>1, <2>3 DEF Answers
    <3>2. \A g \in Dev : ~Answers(g, u, disk)
        BY <2>2 DEF Mkfs, FreshUuid
    <3> QED BY <3>1, <3>2 DEF OneCarrier
  <2> QED BY <2>4, <2>6, <2>7
<1>3. ASSUME NEW d \in Dev, Udev(d)
      PROVE  /\ UdevFollows' /\ OneCarrier'
             /\ \A e \in Dev : HasFs(disk[e]) => disk'[e] = disk[e]
  <2>1. disk' = disk /\ udev' = [udev EXCEPT ![d] = disk[d]]
      BY <1>3 DEF Udev, UdevRecords
  <2>2. UdevFollows'
      BY <1>1, <2>1 DEF UdevFollows
  <2>3. OneCarrier'
      BY <2>1 DEF OneCarrier, Answers
  <2> QED BY <2>1, <2>2, <2>3
<1> QED BY <1>2, <1>3 DEF NodeStep

\* A device that answers to an identifier, or has a label, keeps it.
LEMMA NodeKeepsAnswers ==
    ASSUME TypeInv, UdevFollows, OneCarrier, NodeStep, NEW d \in Dev
    PROVE  /\ \A u \in Uuid : Answers(d, u, disk) => Answers(d, u, disk')
           /\ disk[d].label # None => disk'[d].label = disk[d].label
<1>1. HasFs(disk[d]) => disk'[d] = disk[d]
    BY NodeKeepsDisks
<1>2. ~HasFs(disk[d]) => disk[d].uuid = None /\ disk[d].label = None
    BY DEF UdevFollows, Blank
<1>3. None \notin Uuid
    BY HostAssumption
<1> QED BY <1>1, <1>2, <1>3 DEF Answers

LEMMA NextPathCarriesUuid ==
    ASSUME TypeInv, DataInv, [Next]_vars
    PROVE  PathCarriesUuid'
<1> SUFFICES ASSUME NEW q \in Proc, pc'[q] \in Resolved
             PROVE  Answers(DeviceAt(path'[q]), call'[q].uuid, disk')
    BY DEF PathCarriesUuid
<1>1. ASSUME NEW p \in Proc, ProcStep(p)
      PROVE  Answers(DeviceAt(path'[q]), call'[q].uuid, disk')
  <2>0. disk' = disk /\ udev' = udev
      BY <1>1, OthersUnchanged
  <2>1. CASE q # p
      BY <1>1, <2>0, <2>1, OthersUnchanged DEF DataInv, PathCarriesUuid
  <2>2. CASE q = p
    <3>1. call' = call
        BY <1>1, <2>2, ResolvedStep
    <3>2. CASE Resolves(p)
      <4>1. PICK d \in Dev : path'[p] \in {d, KernelPath[d]} /\ Answers(d, call[p].uuid, udev)
          BY <3>2 DEF Resolves
      <4>2. pc[p] # "idle"
        <5>1. pc[p] = "idle" => ~Resolves(p)
            BY <1>1 DEF ProcStep, Step, Call, Start, Retry, Leave, ResolveBySymlink, ResolveByLsblk,
                        CheckNotRootDisk, ReadDeviceInfo, MakeTarget, CheckTarget, MountDevice,
                        StatTarget, CheckMounted, UnmountTarget, RemoveTarget, SkipGuardrail,
                        ProviderFails, Crash, Resolves, TypeInv, TypeOK, Running, MountStep, UnmountStep
        <5> QED BY <3>2, <5>1
      <4>3. call[p].uuid \in Uuid
          BY <4>2, RunningRequest
      <4>4. Answers(d, call[p].uuid, disk)
          BY <4>1, <4>3, RecordedIsOnDisk DEF DataInv
      <4>5. DeviceAt(path'[p]) = d
          BY <4>1, DeviceAtPath
      <4> QED BY <2>0, <2>2, <3>1, <4>4, <4>5
    <3>3. CASE PassesGuard(p) \/ PassesInfo(p) \/ PassesTarget(p)
        BY <2>0, <2>2, <3>1, <3>3
           DEF PassesGuard, PassesInfo, PassesTarget, DataInv, PathCarriesUuid, Resolved
    <3> QED BY <1>1, <2>2, <3>2, <3>3, ResolvedStep
  <2> QED BY <2>1, <2>2
<1>2. CASE NodeStep
  <2>1. UNCHANGED <<pc, call, path>>
      BY <1>2, NodeStepFrame
  <2>2. DeviceAt(path[q]) \in Dev
      BY <2>1, ResolvedDevice
  <2>3. call[q].uuid \in Uuid
      BY <2>1, RunningRequest DEF Resolved
  <2>4. Answers(DeviceAt(path[q]), call[q].uuid, disk)
      BY <2>1 DEF DataInv, PathCarriesUuid
  <2>5. Answers(DeviceAt(path[q]), call[q].uuid, disk')
      BY <1>2, <2>2, <2>3, <2>4, NodeKeepsAnswers DEF DataInv
  <2> QED BY <2>1, <2>5
<1>3. CASE UNCHANGED vars
    BY <1>3 DEF vars, hostVars, local, DataInv, PathCarriesUuid
<1> QED BY <1>1, <1>2, <1>3, NextCases

LEMMA NextPathLabelled ==
    ASSUME TypeInv, DataInv, [Next]_vars
    PROVE  PathLabelled'
<1> SUFFICES ASSUME NEW q \in Proc, pc'[q] \in {"mkdir", "check", "mount"},
                    call'[q].require # None
             PROVE  disk'[DeviceAt(path'[q])].label = call'[q].require
    BY DEF PathLabelled
<1> USE DEF Resolved
<1>1. ASSUME NEW p \in Proc, ProcStep(p)
      PROVE  disk'[DeviceAt(path'[q])].label = call'[q].require
  <2>0. disk' = disk
      BY <1>1, OthersUnchanged
  <2>1. CASE q # p
      BY <1>1, <2>0, <2>1, OthersUnchanged DEF DataInv, PathLabelled
  <2>2. CASE q = p
    <3>1. call' = call /\ (PassesInfo(p) \/ PassesTarget(p))
        BY <1>1, <2>2, ResolvedStep DEF Resolves, PassesGuard
    <3>2. CASE PassesInfo(p)
      <4>1. Listed(path[p]) /\ LabelAccepted(call[p], path[p]) /\ path' = path
          BY <2>2, <3>1, <3>2 DEF PassesInfo
      <4>2. path[p] \in Dev
          BY <4>1, ListedIsDev
      <4>3. DeviceAt(path[p]) = path[p]
          BY <4>2, DeviceAtPath
      <4>4. udev[path[p]].label = call[p].require
          BY <2>2, <3>1, <4>1 DEF LabelAccepted
      <4>5. disk[path[p]].label = udev[path[p]].label
          BY <2>2, <3>1, <4>2, <4>4, RecordedIsOnDisk DEF DataInv
      <4> QED BY <2>0, <2>2, <3>1, <4>1, <4>3, <4>4, <4>5
    <3>3. CASE PassesTarget(p)
        BY <2>0, <2>2, <3>1, <3>3 DEF PassesTarget, DataInv, PathLabelled
    <3> QED BY <3>1, <3>2, <3>3
  <2> QED BY <2>1, <2>2
<1>2. CASE NodeStep
  <2>1. UNCHANGED <<pc, call, path>>
      BY <1>2, NodeStepFrame
  <2>2. DeviceAt(path[q]) \in Dev
      BY <2>1, ResolvedDevice
  <2>3. disk[DeviceAt(path[q])].label = call[q].require /\ call[q].require # None
      BY <2>1 DEF DataInv, PathLabelled
  <2> QED BY <1>2, <2>1, <2>2, <2>3, NodeKeepsAnswers DEF DataInv
<1>3. CASE UNCHANGED vars
    BY <1>3 DEF vars, hostVars, local, DataInv, PathLabelled
<1> QED BY <1>1, <1>2, <1>3, NextCases

LEMMA NextDataInv ==
    ASSUME TypeInv, DataInv, [Next]_vars
    PROVE  DataInv'
<1>1. UdevFollows' /\ OneCarrier'
  <2>1. CASE UNCHANGED <<disk, udev>>
      BY <2>1 DEF DataInv, UdevFollows, OneCarrier, Answers
  <2>2. CASE NodeStep
      BY <2>2, NodeKeepsDisks DEF DataInv
  <2>3. UNCHANGED vars => UNCHANGED <<disk, udev>>
      BY DEF vars, hostVars
  <2> QED BY <2>1, <2>2, <2>3, OthersUnchanged, NextCases
<1>2. PathCarriesUuid' /\ PathLabelled'
    BY NextPathCarriesUuid, NextPathLabelled
<1> QED BY <1>1, <1>2 DEF DataInv

LEMMA InitDataInv ==
    ASSUME Init
    PROVE  DataInv
<1>1. disk = Disk0 /\ udev = Disk0
    BY DEF Init, HostInit
<1>2. UdevFollows
    BY <1>1, HostAssumption DEF UdevFollows
<1>3. OneCarrier
    BY <1>1, HostAssumption DEF OneCarrier, Answers, HasFs
<1>4. PathCarriesUuid /\ PathLabelled
    BY DEF Init, PathCarriesUuid, PathLabelled, Resolved
<1> QED BY <1>2, <1>3, <1>4 DEF DataInv

-----------------------------------------------------------------------------
(* What is mounted                                                         *)

\* The kernel stacks nothing on a target: whoever resolved the same UUID has
\* resolved the same device, and a device is not mounted over itself.
LEMMA MountsOnEmptyTarget ==
    ASSUME TypeInv, DataInv, TargetHoldsItsUuid, NEW p \in Proc, Mounts(p)
    PROVE  mounts[call[p].uuid] = <<>>
<1> DEFINE u == call[p].uuid
           d == DeviceAt(path[p])
           s == mounts[u]
<1>1. pc[p] \in Resolved /\ pc[p] # "idle"
    BY DEF Mounts, Resolved
<1>2. u \in Uuid /\ d \in Dev /\ Answers(d, u, disk)
    BY <1>1, RunningRequest, ResolvedDevice DEF DataInv, PathCarriesUuid
<1>3. s \in Seq(Dev)
    BY <1>2 DEF TypeInv, TypeOK, HostTypeOK
<1>4. ASSUME s # <<>>
      PROVE  FALSE
  <2>1. Len(s) \in DOMAIN s /\ s[Len(s)] \in Dev
      BY <1>3, <1>4
  <2>2. Answers(s[Len(s)], u, disk)
      BY <1>2, <2>1 DEF TargetHoldsItsUuid
  <2>3. s[Len(s)] = d
      BY <1>2, <2>1, <2>2 DEF DataInv, OneCarrier
  <2> QED BY <1>4, <2>3 DEF Mounts, KernelAccepts, TopMount
<1> QED BY <1>4

LEMMA NextTargets ==
    ASSUME TypeInv, DataInv, TargetHoldsItsUuid, NoStacking, [Next]_vars
    PROVE  TargetHoldsItsUuid' /\ NoStacking'
<1>0. mounts \in [Uuid -> Seq(Dev)]
    BY DEF TypeInv, TypeOK, HostTypeOK
<1>1. ASSUME NEW p \in Proc, ProcStep(p)
      PROVE  TargetHoldsItsUuid' /\ NoStacking'
  <2>0. disk' = disk
      BY <1>1, OthersUnchanged
  <2> DEFINE u == call[p].uuid
             d == DeviceAt(path[p])
  <2>1. CASE UNCHANGED mounts
      BY <2>0, <2>1 DEF TargetHoldsItsUuid, NoStacking, Answers
  <2>2. CASE Mounts(p)
    <3>1. pc[p] \in Resolved /\ pc[p] # "idle"
        BY <2>2 DEF Mounts, Resolved
    <3>2. u \in Uuid /\ d \in Dev /\ Answers(d, u, disk)
        BY <3>1, RunningRequest, ResolvedDevice DEF DataInv, PathCarriesUuid
    <3>3. mounts[u] = <<>>
        BY <2>2, MountsOnEmptyTarget
    <3>4. Append(<<>>, d) = <<d>>
        OBVIOUS
    <3>5. \A v \in Uuid : mounts'[v] = IF v = u THEN <<d>> ELSE mounts[v]
        BY <1>0, <2>2, <3>2, <3>3, <3>4 DEF Mounts
    <3>6. Len(<<d>>) = 1 /\ DOMAIN <<d>> = {1} /\ <<d>>[1] = d
        OBVIOUS
    <3>7. TargetHoldsItsUuid'
      <4> SUFFICES ASSUME NEW v \in Uuid, NEW i \in DOMAIN mounts'[v]
                   PROVE  Answers(mounts'[v][i], v, disk')
          BY DEF TargetHoldsItsUuid
      <4>1. CASE v = u
          BY <2>0, <3>2, <3>5, <3>6, <4>1
      <4>2. CASE v # u
          BY <2>0, <3>5, <4>2 DEF TargetHoldsItsUuid
      <4> QED BY <4>1, <4>2
    <3>8. NoStacking'
      <4> SUFFICES ASSUME NEW v \in Uuid
                   PROVE  Len(mounts'[v]) <= 1
          BY DEF NoStacking
      <4>1. CASE v = u
        <5>1. mounts'[v] = <<d>>
            BY <3>5, <4>1
        <5> HIDE DEF u, d
        <5> QED BY <3>6, <5>1
      <4>2. CASE v # u
        <5>1. mounts'[v] = mounts[v]
            BY <3>5, <4>2
        <5> QED BY <5>1 DEF NoStacking
      <4> QED BY <4>1, <4>2
    <3> QED BY <3>7, <3>8
  <2>3. CASE Unmounts(p)
    <3>1. pc[p] # "idle" /\ u \in Uuid
        BY <2>3, RunningRequest DEF Unmounts
    <3>2. mounts[u] \in Seq(Dev) /\ mounts[u] # <<>> /\ Len(mounts[u]) <= 1
        BY <1>0, <2>3, <3>1 DEF Unmounts, NoStacking
    <3>a. Len(mounts[u]) \in Nat /\ Len(mounts[u]) - 1 \in Int /\ Len(mounts[u]) - 1 < 1
        BY <3>2
    <3>3. SubSeq(mounts[u], 1, Len(mounts[u]) - 1) = <<>>
        BY <3>a, SubSeqEmpty
    <3>4. \A v \in Uuid : mounts'[v] = IF v = u THEN <<>> ELSE mounts[v]
        BY <1>0, <2>3, <3>1, <3>3 DEF Unmounts
    <3> QED BY <2>0, <3>4 DEF TargetHoldsItsUuid, NoStacking, Answers
  <2> QED BY <1>1, <2>1, <2>2, <2>3, MountsStep
<1>2. CASE NodeStep
  <2>1. mounts' = mounts
      BY <1>2, NodeStepFrame
  <2>2. ASSUME NEW v \in Uuid, NEW i \in DOMAIN mounts[v]
        PROVE  mounts[v][i] \in Dev
    <3>1. mounts[v] \in Seq(Dev)
        BY <1>0
    <3> QED BY <3>1
  <2>3. \A v \in Uuid : \A i \in DOMAIN mounts[v] : Answers(mounts[v][i], v, disk')
      BY <1>2, <2>2, NodeKeepsAnswers DEF DataInv, TargetHoldsItsUuid
  <2> QED BY <2>1, <2>3 DEF TargetHoldsItsUuid, NoStacking
<1>3. CASE UNCHANGED vars
    BY <1>3 DEF vars, hostVars, TargetHoldsItsUuid, NoStacking, Answers
<1> QED BY <1>1, <1>2, <1>3, NextCases

LEMMA InitTargets ==
    ASSUME Init
    PROVE  TargetHoldsItsUuid /\ NoStacking
BY DEF Init, HostInit, TargetHoldsItsUuid, NoStacking

\* All that is known of a state, but for the guardrail.
SafeInv == TypeInv /\ DataInv /\ TargetHoldsItsUuid /\ NoStacking

LEMMA SpecSafe == Spec => []SafeInv
<1>1. Init => SafeInv
    BY InitTypeInv, InitDataInv, InitTargets DEF SafeInv
<1>2. SafeInv /\ [Next]_vars => SafeInv'
    BY NextTypeInv, NextDataInv, NextTargets DEF SafeInv
<1> QED BY <1>1, <1>2, PTL DEF Spec

\* Whatever Mount and Unmount calls, formats and udev events interleave, a target
\* only ever holds the device that carries its UUID.
THEOREM TargetSafe == Spec => []TargetHoldsItsUuid
<1>1. SafeInv => TargetHoldsItsUuid
    BY DEF SafeInv
<1> QED BY <1>1, SpecSafe, PTL

\* And it holds at most one device: concurrent Mounts of one UUID mount once.
THEOREM NeverStacked == Spec => []NoStacking
<1>1. SafeInv => NoStacking
    BY DEF SafeInv
<1> QED BY <1>1, SpecSafe, PTL

\* A call of --managed-only mounts a device that has the label as it mounts it.
LEMMA MountIsLabelled ==
    ASSUME TypeInv, DataInv, TargetHoldsItsUuid, [Next]_vars, NEW q \in Proc
    PROVE  MountsWhatIsLabelled(q)
<1> DEFINE u == call[q].uuid
           d == DeviceAt(path[q])
<1> SUFFICES ASSUME pc[q] = "mount", pc'[q] = "done", res'[q] = "ok", call[q].require # None
             PROVE  mounts'[u] # <<>> /\ disk[Head(mounts'[u])].label = call[q].require
    BY DEF MountsWhatIsLabelled
<1>0. pc \in [Proc -> Running \cup {"idle", "done"}] /\ res \in [Proc -> Outcome]
    BY DEF TypeInv, TypeOK
<1>1. PICK p \in Proc : ProcStep(p)
  <2>1. ~NodeStep
      BY NodeStepFrame
  <2>2. ~UNCHANGED vars
      BY DEF vars, local
  <2> QED BY <2>1, <2>2, NextCases
<1>2. p = q
    BY <1>1, OthersUnchanged
<1>3. MountDevice(q)
  <2>1. ~ProviderFails(q) /\ ~Crash(q)
      BY <1>0 DEF ProviderFails, Crash, Return
  <2>2. ~Call(q) /\ ~Retry(q) /\ ~Leave(q) /\ ~ResolveBySymlink(q) /\ ~ResolveByLsblk(q)
        /\ ~CheckNotRootDisk(q) /\ ~SkipGuardrail(q) /\ ~ReadDeviceInfo(q) /\ ~MakeTarget(q)
        /\ ~CheckTarget(q) /\ ~StatTarget(q) /\ ~CheckMounted(q) /\ ~UnmountTarget(q)
        /\ ~RemoveTarget(q)
      BY DEF Call, Retry, Leave, ResolveBySymlink, ResolveByLsblk, CheckNotRootDisk, SkipGuardrail,
             ReadDeviceInfo, MakeTarget, CheckTarget, StatTarget, CheckMounted, UnmountTarget,
             RemoveTarget
  <2> QED BY <1>1, <1>2, <2>1, <2>2 DEF ProcStep, Step
<1>4. ~Return(q, "refused")
    BY <1>0 DEF Return
<1>5. Mounts(q)
    BY <1>3, <1>4 DEF MountDevice, Mounts
<1>6. mounts[u] = <<>> /\ u \in Uuid
    BY <1>5, MountsOnEmptyTarget, RunningRequest DEF Mounts
<1>7. mounts'[u] = Append(<<>>, d)
    BY <1>5, <1>6 DEF Mounts, TypeInv, TypeOK, HostTypeOK
<1>8. Append(<<>>, d) # <<>> /\ Head(Append(<<>>, d)) = d
    OBVIOUS
<1>9. disk[d].label = call[q].require
    BY DEF DataInv, PathLabelled
<1> QED BY <1>7, <1>8, <1>9

THEOREM LabelSafe == Spec => ManagedMountsLabelled
<1> DEFINE A == \A p \in Proc : MountsWhatIsLabelled(p)
<1>1. SafeInv /\ [Next]_vars => [A]_vars
    BY MountIsLabelled DEF SafeInv
<1> QED BY <1>1, SpecSafe, PTL DEF Spec, ManagedMountsLabelled

\* What a call has read of the node stays true until it mounts: the invariant that
\* the runs check is one of every node.
THEOREM InvSafe == Spec => []Inv
<1>1. Init => PathGuarded
    BY DEF Init, PathGuarded, Resolved
<1>2. SafeInv /\ PathGuarded /\ [Next]_vars => PathGuarded'
    BY NextPathGuarded DEF SafeInv
<1>3. SafeInv /\ PathGuarded => Inv
    BY DEF SafeInv, Inv, TypeInv, DataInv
<1> QED BY <1>1, <1>2, <1>3, SpecSafe, PTL DEF Spec
=============================================================================
