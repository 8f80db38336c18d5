------------------------- MODULE MountContract_proofs -------------------------
(***************************************************************************)
(* DeviceMounter implements MountContract, for every node, every set of    *)
(* processes and requests, and any number of faults; and why a call of     *)
(* Mount or Unmount is refused, where lsblk names are kernel paths.        *)
(***************************************************************************)
EXTENDS DeviceMounter_proofs

\* The call that a process runs is of the kind of the step it is at, and what is
\* mounted is mounted on a directory.
OpKnown ==
    \A p \in Proc : /\ pc[p] \in MountStep => call[p].op = "mount"
                    /\ pc[p] \in UnmountStep => call[p].op = "unmount"

MountedOnDir == \A u \in Uuid : mounts[u] # <<>> => u \in dirs

ContractInv == SafeInv /\ OpKnown /\ MountedOnDir

contractVars == <<held, ask, [p \in Proc |-> Status(p)]>>

\* The steps of a call that has had no effect yet.
Before == Running \ {"rmdir"}

-----------------------------------------------------------------------------
(* The two additional invariants                                           *)

LEMMA NextOpKnown ==
    ASSUME TypeInv, OpKnown, [Next]_vars
    PROVE  OpKnown'
<1>0. pc \in [Proc -> Running \cup {"idle", "done"}] /\ call \in [Proc -> Requests \cup {NoCall}]
    BY DEF TypeInv, TypeOK
<1> SUFFICES ASSUME NEW q \in Proc
             PROVE  /\ pc'[q] \in MountStep => call'[q].op = "mount"
                    /\ pc'[q] \in UnmountStep => call'[q].op = "unmount"
    BY DEF OpKnown
<1>1. ASSUME NEW p \in Proc, ProcStep(p)
      PROVE  /\ pc'[q] \in MountStep => call'[q].op = "mount"
             /\ pc'[q] \in UnmountStep => call'[q].op = "unmount"
  <2> USE <1>0 DEF MountStep, UnmountStep, Running
  <2>1. CASE q # p
      BY <1>1, <2>1, OthersUnchanged DEF OpKnown
  <2>2. ASSUME NEW c \in Requests, Start(p, c)
        PROVE  /\ pc'[p] \in MountStep => call'[p].op = "mount"
               /\ pc'[p] \in UnmountStep => call'[p].op = "unmount"
    <3>1. c.op \in {"mount", "unmount"}
        BY MounterAssumption
    <3> QED BY <2>2, <3>1 DEF Start
  <2>3. CASE q = p /\ (Call(p) \/ Retry(p))
      BY <2>2, <2>3, RunningRequest DEF Call, Retry
  <2>4. CASE q = p /\ Leave(p)
      BY <2>4 DEF Leave
  <2>5. CASE q = p /\ (ResolveBySymlink(p) \/ ResolveByLsblk(p) \/ CheckNotRootDisk(p) \/ SkipGuardrail(p)
                        \/ ReadDeviceInfo(p) \/ MakeTarget(p) \/ CheckTarget(p) \/ MountDevice(p))
      BY <2>5 DEF ResolveBySymlink, ResolveByLsblk, CheckNotRootDisk, SkipGuardrail, ReadDeviceInfo,
         MakeTarget, CheckTarget, MountDevice, Goto, Return, OpKnown
  <2>6. CASE q = p /\ (StatTarget(p) \/ CheckMounted(p) \/ UnmountTarget(p) \/ RemoveTarget(p)
                        \/ ProviderFails(p) \/ Crash(p))
      BY <2>6 DEF StatTarget, CheckMounted, UnmountTarget, RemoveTarget, ProviderFails, Crash,
         Goto, Return, OpKnown
  <2> QED BY <1>1, <2>1, <2>3, <2>4, <2>5, <2>6 DEF ProcStep, Step
<1>2. CASE NodeStep \/ UNCHANGED vars
    BY <1>2, NodeStepFrame DEF vars, local, OpKnown
<1> QED BY <1>1, <1>2, NextCases

\* A directory goes only when nothing is mounted on it, and a mount needs one.
LEMMA NextMountedOnDir ==
    ASSUME TypeInv, MountedOnDir, [Next]_vars
    PROVE  MountedOnDir'
<1>0. mounts \in [Uuid -> Seq(Dev)]
    BY DEF TypeInv, TypeOK, HostTypeOK
<1>1. ASSUME NEW p \in Proc, MakeTarget(p) \/ RemoveTarget(p)
      PROVE  MountedOnDir'
    BY <1>1 DEF MakeTarget, RemoveTarget, MountedOnDir
<1>2. ASSUME NEW p \in Proc, MountDevice(p) \/ UnmountTarget(p)
      PROVE  MountedOnDir'
  <2>1. call[p].uuid \in dirs \/ mounts' = mounts \/ mounts[call[p].uuid] # <<>>
      BY <1>2 DEF MountDevice, UnmountTarget, KernelAccepts
  <2>2. dirs' = dirs /\ \A u \in Uuid : u # call[p].uuid => mounts'[u] = mounts[u]
      BY <1>0, <1>2 DEF MountDevice, UnmountTarget
  <2> QED BY <2>1, <2>2 DEF MountedOnDir
<1>3. CASE UNCHANGED <<mounts, dirs>>
    BY <1>3 DEF MountedOnDir
<1>4. ASSUME NEW p \in Proc, ProcStep(p), ~MakeTarget(p), ~RemoveTarget(p), ~MountDevice(p),
             ~UnmountTarget(p)
      PROVE  UNCHANGED <<mounts, dirs>>
    BY <1>4 DEF ProcStep, Step, Call, Retry, Leave, Start, ResolveBySymlink, ResolveByLsblk,
       CheckNotRootDisk, SkipGuardrail, ReadDeviceInfo, CheckTarget, StatTarget, CheckMounted,
       ProviderFails, Crash, hostVars
<1>5. NodeStep \/ UNCHANGED vars => UNCHANGED <<mounts, dirs>>
    BY DEF NodeStep, FormatBlank, Udev, vars, hostVars
<1> QED BY <1>1, <1>2, <1>3, <1>4, <1>5, NextCases

LEMMA SpecContractInv == Spec => []ContractInv
<1>1. Init => OpKnown /\ MountedOnDir
    BY DEF Init, HostInit, OpKnown, MountedOnDir, MountStep, UnmountStep
<1>2. SafeInv /\ OpKnown /\ MountedOnDir /\ [Next]_vars => OpKnown' /\ MountedOnDir'
    BY NextOpKnown, NextMountedOnDir DEF SafeInv
<1>3. ContractInv <=> SafeInv /\ OpKnown /\ MountedOnDir
    BY DEF ContractInv
<1> QED BY <1>1, <1>2, <1>3, SpecSafe, PTL DEF Spec

-----------------------------------------------------------------------------
(* What the contract sees of a step                                        *)

\* Only the status of the process that moves changes.
LEMMA OneTurn ==
    ASSUME NEW p \in Proc,
           \A q \in Proc \ {p} : pc'[q] = pc[q] /\ res'[q] = res[q]
    PROVE  [q \in Proc |-> Status(q)]' = [[q \in Proc |-> Status(q)] EXCEPT ![p] = Status(p)']
<1>1. \A q \in Proc \ {p} : Status(q)' = Status(q)
    BY DEF Status
<1>2. [q \in Proc |-> Status(q)]' = [q \in Proc |-> Status(q)']
    OBVIOUS
<1> QED BY <1>1, <1>2

LEMMA ProjectionStays ==
    /\ mounts' = mounts => held' = held
    /\ call' = call => ask' = ask
BY DEF held, ask

LEMMA ContractGoesOn ==
    ASSUME TypeInv, NEW p \in Proc, NEW s \in Before, pc[p] \in Before, Goto(p, s),
           UNCHANGED <<mounts, call>>
    PROVE  UNCHANGED contractVars
<1>1. Status(p)' = Status(p)
    BY DEF Status, Goto, TypeInv, TypeOK, Before, Running, MountStep, UnmountStep
<1>2. [q \in Proc |-> Status(q)]' = [q \in Proc |-> Status(q)]
    BY <1>1, OneTurn DEF Goto, TypeInv, TypeOK
<1> QED BY <1>2, ProjectionStays DEF contractVars

LEMMA ContractFails ==
    ASSUME TypeInv, NEW p \in Proc, NEW o \in {"refused", "broken"}, pc[p] \in Before, Return(p, o),
           UNCHANGED <<mounts, call>>
    PROVE  Contract!Fail(p)
<1>1. Status(p) = "open" /\ Status(p)' = "failed"
    BY DEF Status, Return, TypeInv, TypeOK, Before, Running, MountStep, UnmountStep
<1>2. [q \in Proc |-> Status(q)]' = [[q \in Proc |-> Status(q)] EXCEPT ![p] = "failed"]
    BY <1>1, OneTurn DEF Return, TypeInv, TypeOK
<1> QED BY <1>1, <1>2, ProjectionStays DEF Contract!Fail, Contract!Turn

\* A target holds nothing exactly when nothing is mounted on it.
LEMMA HeldNone ==
    ASSUME TypeInv, NEW u \in Uuid
    PROVE  held[u] = None <=> mounts[u] = <<>>
<1>1. mounts[u] \in Seq(Dev)
    BY DEF TypeInv, TypeOK, HostTypeOK
<1>2. mounts[u] # <<>> => Head(mounts[u]) \in Dev
    BY <1>1
<1>3. None \notin Dev
    BY HostAssumption
<1> QED BY <1>2, <1>3 DEF held

\* The effect of a call, at the step at which it has it.
Effect(p) ==
    LET u == call[p].uuid IN
    \/ /\ call[p].op = "mount"
       /\ IF held[u] = None THEN \E d \in Dev : held' = [held EXCEPT ![u] = d] ELSE held' = held
    \/ call[p].op = "unmount" /\ held' = [held EXCEPT ![u] = None]

LEMMA ContractServed ==
    ASSUME TypeInv, NEW p \in Proc, pc[p] \in Before, Return(p, "ok") \/ Goto(p, "rmdir"),
           call' = call, Effect(p)
    PROVE  Contract!TakeEffect(p)
<1>1. Status(p) = "open" /\ Status(p)' = "served"
    BY DEF Status, Return, Goto, TypeInv, TypeOK, Before, Running, MountStep, UnmountStep
<1>2. [q \in Proc |-> Status(q)]' = [[q \in Proc |-> Status(q)] EXCEPT ![p] = "served"]
    BY <1>1, OneTurn DEF Return, Goto, TypeInv, TypeOK
<1>3. ask[p].op = call[p].op /\ ask[p].uuid = call[p].uuid /\ ask' = ask
    BY ProjectionStays DEF ask
<1> QED BY <1>1, <1>2, <1>3 DEF Contract!TakeEffect, Contract!Turn, Effect

-----------------------------------------------------------------------------
(* Step by step                                                            *)

\* The caller: a new question, the same one again, or the answer taken.
LEMMA CallerImplements ==
    ASSUME ContractInv, NEW p \in Proc, Call(p) \/ Retry(p) \/ Leave(p)
    PROVE  Contract!Next
<1>0. TypeInv /\ pc \in [Proc -> Running \cup {"idle", "done"}] /\ res \in [Proc -> Outcome]
      /\ call \in [Proc -> Requests \cup {NoCall}]
    BY DEF ContractInv, SafeInv, TypeInv, TypeOK
<1>1. ASSUME NEW c \in Requests, Start(p, c), Status(p) \in {"idle", "failed", "lost"},
             Status(p) # "idle" => c = call[p]
      PROVE  Contract!Begin(p)
  <2>1. Status(p)' = "open"
      BY <1>0, <1>1 DEF Status, Start
  <2>2. [q \in Proc |-> Status(q)]' = [[q \in Proc |-> Status(q)] EXCEPT ![p] = "open"]
      BY <1>0, <1>1, <2>1, OneTurn DEF Start
  <2> DEFINE a == [op |-> c.op, uuid |-> c.uuid]
  <2>3. a \in Contract!Asked
      BY MounterAssumption DEF Contract!Asked
  <2>4. ask' = [ask EXCEPT ![p] = a]
      BY <1>0, <1>1 DEF Start, ask
  <2>5. Status(p) # "idle" => a = ask[p]
      BY <1>1 DEF ask
  <2>6. held' = held
      BY <1>1, ProjectionStays DEF Start, hostVars
  <2> HIDE DEF a
  <2> QED BY <1>1, <2>2, <2>3, <2>4, <2>5, <2>6 DEF Contract!Begin, Contract!Turn
<1>2. CASE Call(p)
  <2>1. Status(p) = "idle"
      BY <1>2 DEF Call, Status
  <2> QED BY <1>1, <1>2, <2>1 DEF Call, Contract!Next
<1>3. CASE Retry(p)
  <2>1. Status(p) \in {"failed", "lost"}
      BY <1>3, <1>0 DEF Retry, Status
  <2>2. call[p] \in Requests
      BY <1>0, <1>3, RunningRequest DEF Retry
  <2> QED BY <1>1, <1>3, <2>1, <2>2 DEF Retry, Contract!Next
<1>4. CASE Leave(p)
  <2>1. Status(p) \in {"served", "failed", "lost"} /\ Status(p)' = "idle"
      BY <1>0, <1>4 DEF Leave, Status
  <2>2. [q \in Proc |-> Status(q)]' = [[q \in Proc |-> Status(q)] EXCEPT ![p] = "idle"]
      BY <1>0, <1>4, <2>1, OneTurn DEF Leave
  <2>3. ask' = [ask EXCEPT ![p] = [op |-> "none", uuid |-> None]] /\ held' = held
      BY <1>0, <1>4, ProjectionStays DEF Leave, ask, NoCall, hostVars
  <2> QED BY <2>1, <2>2, <2>3 DEF Contract!End, Contract!Turn, Contract!Next
<1> QED BY <1>2, <1>3, <1>4

\* A step of Mount has the effect where it finds the target mounted or mounts it.
LEMMA MountImplements ==
    ASSUME ContractInv, NEW p \in Proc,
           \/ ResolveBySymlink(p) \/ ResolveByLsblk(p) \/ CheckNotRootDisk(p) \/ SkipGuardrail(p)
           \/ ReadDeviceInfo(p) \/ MakeTarget(p) \/ CheckTarget(p) \/ MountDevice(p)
    PROVE  Contract!Next \/ UNCHANGED contractVars
<1> USE DEF hostVars
<1>0. TypeInv /\ DataInv /\ TargetHoldsItsUuid /\ OpKnown
    BY DEF ContractInv, SafeInv
<1>1. /\ pc[p] \in Before /\ pc[p] \in MountStep /\ pc[p] # "idle"
      /\ {"root", "lookup", "info", "mkdir", "check", "mount"} \subseteq Before
    BY DEF ResolveBySymlink, ResolveByLsblk, CheckNotRootDisk, SkipGuardrail, ReadDeviceInfo,
       MakeTarget, CheckTarget, MountDevice, Before, Running, MountStep, UnmountStep
<1>2. call[p].op = "mount" /\ call[p].uuid \in Uuid
    BY <1>0, <1>1, RunningRequest DEF OpKnown
<1>3. CASE UNCHANGED <<mounts, call>> /\ (Return(p, "refused") \/ \E s \in Before : Goto(p, s))
    BY <1>0, <1>1, <1>3, ContractFails, ContractGoesOn DEF Contract!Next
<1>4. CASE ResolveBySymlink(p) \/ ResolveByLsblk(p) \/ CheckNotRootDisk(p) \/ SkipGuardrail(p)
           \/ ReadDeviceInfo(p) \/ MakeTarget(p)
    BY <1>1, <1>3, <1>4 DEF ResolveBySymlink, ResolveByLsblk, CheckNotRootDisk, SkipGuardrail,
       ReadDeviceInfo, MakeTarget
<1>5. CASE CheckTarget(p)
  <2>1. CASE mounts[call[p].uuid] # <<>> /\ Return(p, "ok")
    <3>1. held[call[p].uuid] # None /\ held' = held /\ call' = call
        BY <1>0, <1>2, <1>5, <2>1, HeldNone, ProjectionStays DEF CheckTarget
    <3> QED BY <1>0, <1>1, <1>2, <2>1, <3>1, ContractServed DEF Effect, Contract!Next
  <2> QED BY <1>1, <1>3, <1>5, <2>1 DEF CheckTarget
<1>6. CASE MountDevice(p)
  <2>1. CASE Mounts(p) /\ Return(p, "ok") /\ call' = call
    <3> DEFINE u == call[p].uuid
               d == DeviceAt(path[p])
    <3>1. mounts[u] = <<>>
        BY <1>0, <2>1, MountsOnEmptyTarget
    <3>2. d \in Dev
        BY <1>0, <2>1, ResolvedDevice DEF Mounts, Resolved
    <3>3. Append(<<>>, d) # <<>> /\ Head(Append(<<>>, d)) = d
        BY <3>2
    <3>4. mounts \in [Uuid -> Seq(Dev)]
        BY <1>0 DEF TypeInv, TypeOK, HostTypeOK
    <3>5. mounts' = [mounts EXCEPT ![u] = Append(<<>>, d)]
        BY <2>1, <3>1, <3>4, <1>2 DEF Mounts
    <3> HIDE DEF d
    <3>6. held' = [held EXCEPT ![u] = d]
        BY <1>2, <3>3, <3>4, <3>5 DEF held
    <3>7. held[u] = None
        BY <1>0, <1>2, <3>1, HeldNone
    <3> QED BY <1>0, <1>1, <1>2, <2>1, <3>2, <3>6, <3>7, ContractServed DEF Effect, Contract!Next
  <2> QED BY <1>3, <1>6, <2>1 DEF MountDevice, Mounts
<1> QED BY <1>4, <1>5, <1>6

\* A step of Unmount has the effect where it finds nothing mounted or unmounts.
LEMMA UnmountImplements ==
    ASSUME ContractInv, NEW p \in Proc,
           StatTarget(p) \/ CheckMounted(p) \/ UnmountTarget(p) \/ RemoveTarget(p)
    PROVE  Contract!Next \/ UNCHANGED contractVars
<1> USE DEF hostVars
<1>0. TypeInv /\ NoStacking /\ OpKnown /\ MountedOnDir
    BY DEF ContractInv, SafeInv
<1> DEFINE u == call[p].uuid
<1>1. /\ pc[p] \in UnmountStep /\ pc[p] # "idle"
      /\ {"stat", "ucheck", "umount"} \subseteq Before
    BY DEF StatTarget, CheckMounted, UnmountTarget, RemoveTarget, Before, Running, MountStep, UnmountStep
<1>2. call[p].op = "unmount" /\ u \in Uuid
    BY <1>0, <1>1, RunningRequest DEF OpKnown
<1>3. CASE /\ pc[p] \in Before /\ UNCHANGED <<mounts, call>>
           /\ Return(p, "refused") \/ \E s \in Before : Goto(p, s)
    BY <1>0, <1>3, ContractFails, ContractGoesOn DEF Contract!Next
<1>4. CASE /\ pc[p] \in Before /\ UNCHANGED <<mounts, call>> /\ mounts[u] = <<>>
           /\ Return(p, "ok") \/ Goto(p, "rmdir")
  <2>1. held[u] = None /\ held' = held
      BY <1>0, <1>2, <1>4, HeldNone, ProjectionStays
  <2>2. held' = [held EXCEPT ![u] = None]
      BY <1>2, <2>1 DEF held
  <2> QED BY <1>0, <1>2, <1>4, <2>2, ContractServed DEF Effect, Contract!Next
<1>5. CASE StatTarget(p)
    BY <1>0, <1>1, <1>2, <1>3, <1>4, <1>5 DEF StatTarget, MountedOnDir
<1>6. CASE CheckMounted(p)
    BY <1>1, <1>3, <1>4, <1>6 DEF CheckMounted
<1>7. CASE UnmountTarget(p)
  <2>1. CASE Unmounts(p) /\ Goto(p, "rmdir") /\ call' = call
    <3>1. mounts \in [Uuid -> Seq(Dev)]
        BY <1>0 DEF TypeInv, TypeOK, HostTypeOK
    <3>2. mounts[u] \in Seq(Dev) /\ Len(mounts[u]) <= 1
        BY <1>0, <1>2, <3>1 DEF NoStacking
    <3>3. Len(mounts[u]) \in Nat /\ Len(mounts[u]) - 1 \in Int /\ Len(mounts[u]) - 1 < 1
        BY <3>2
    <3>4. SubSeq(mounts[u], 1, Len(mounts[u]) - 1) = <<>>
        BY <3>3, SubSeqEmpty
    <3>5. mounts' = [mounts EXCEPT ![u] = <<>>]
        BY <1>2, <2>1, <3>1, <3>4 DEF Unmounts
    <3>6. held' = [held EXCEPT ![u] = None]
        BY <1>2, <3>1, <3>5 DEF held
    <3> QED BY <1>0, <1>1, <1>2, <2>1, <3>6, ContractServed DEF Effect, Contract!Next, Unmounts
  <2> QED BY <1>1, <1>3, <1>4, <1>7, <2>1 DEF UnmountTarget, Unmounts
<1>8. CASE RemoveTarget(p)
  <2>1. Status(p) = "served" /\ Status(p)' = "served"
      BY <1>0, <1>8 DEF RemoveTarget, Return, Status, TypeInv, TypeOK
  <2>2. [q \in Proc |-> Status(q)]' = [q \in Proc |-> Status(q)]
      BY <1>0, <1>8, <2>1, OneTurn DEF RemoveTarget, Return, TypeInv, TypeOK
  <2> QED BY <1>8, <2>2, ProjectionStays DEF RemoveTarget, contractVars
<1> QED BY <1>5, <1>6, <1>7, <1>8

\* A failing provider ends a call without effect, a kill loses it.
LEMMA FaultImplements ==
    ASSUME ContractInv, NEW p \in Proc, ProviderFails(p) \/ Crash(p)
    PROVE  Contract!Next \/ UNCHANGED contractVars
<1>0. TypeInv /\ pc \in [Proc -> Running \cup {"idle", "done"}] /\ res \in [Proc -> Outcome]
    BY DEF ContractInv, SafeInv, TypeInv, TypeOK
<1>1. UNCHANGED <<mounts, call>> /\ held' = held /\ ask' = ask /\ pc[p] \in Running
    BY ProjectionStays DEF ProviderFails, Crash, hostVars
<1>2. CASE ProviderFails(p) /\ pc[p] # "rmdir"
    BY <1>0, <1>1, <1>2, ContractFails DEF ProviderFails, Before, Contract!Next
<1>3. CASE ProviderFails(p) /\ pc[p] = "rmdir"
  <2>1. Status(p) = "served" /\ Status(p)' = "served"
      BY <1>0, <1>3 DEF ProviderFails, Return, Status
  <2>2. [q \in Proc |-> Status(q)]' = [q \in Proc |-> Status(q)]
      BY <1>0, <1>3, <2>1, OneTurn DEF ProviderFails, Return
  <2> QED BY <1>1, <2>2 DEF contractVars
<1>4. CASE Crash(p)
  <2>1. Status(p) \in {"open", "served"} /\ Status(p)' = "lost"
      BY <1>0, <1>1, <1>4 DEF Crash, Return, Status, Running, MountStep, UnmountStep
  <2>2. [q \in Proc |-> Status(q)]' = [[q \in Proc |-> Status(q)] EXCEPT ![p] = "lost"]
      BY <1>0, <1>4, <2>1, OneTurn DEF Crash, Return
  <2> QED BY <1>1, <2>1, <2>2 DEF Contract!Lose, Contract!Turn, Contract!Next
<1> QED BY <1>2, <1>3, <1>4

\* Mount and Unmount are atomic: every call of every process takes effect at one
\* step between its start and its return, and a call that fails takes none.
THEOREM ContractKept == Spec => ImplementsContract
<1>1. Init => Contract!Init
    BY DEF Init, HostInit, Contract!Init, held, ask, NoCall, Status
<1>2. ContractInv /\ [Next]_vars => [Contract!Next]_contractVars
  <2> SUFFICES ASSUME ContractInv, [Next]_vars
               PROVE  Contract!Next \/ UNCHANGED contractVars
      OBVIOUS
  <2>1. ASSUME NEW p \in Proc, ProcStep(p)
        PROVE  Contract!Next \/ UNCHANGED contractVars
      BY <2>1, CallerImplements, MountImplements, UnmountImplements, FaultImplements
         DEF ProcStep, Step
  <2>2. CASE NodeStep
      BY <2>2 DEF NodeStep, FormatBlank, Udev, local, contractVars, held, ask, Status
  <2>3. CASE UNCHANGED vars
      BY <2>3 DEF vars, hostVars, local, contractVars, held, ask, Status
  <2> QED BY <2>1, <2>2, <2>3, NextCases
<1> QED BY <1>1, <1>2, SpecContractInv, PTL DEF Spec, ImplementsContract, Contract!Spec, contractVars

-----------------------------------------------------------------------------
(* Why Mount and Unmount say no                                            *)

\* What a call that nobody has disturbed still finds as it left it: the target, and
\* the filesystem that lsblk showed.
TargetAsLeft(p) ==
    /\ pc[p] \in {"check", "mount", "ucheck", "umount"} => call[p].uuid \in dirs
    /\ pc[p] = "mount" => mounts[call[p].uuid] = <<>>
    /\ pc[p] = "umount" => mounts[call[p].uuid] # <<>>

FsAsRead(p) ==
    pc[p] \in {"mkdir", "check", "mount"} /\ ~call[p].fsGiven =>
        (hasFs[p] <=> HasFs(udev[DeviceAt(path[p])]))

RefusedForReason(p) == pc[p] = "done" /\ res[p] = "refused" => Refusable(call[p])

UndisturbedInv ==
    \A p \in Proc : ~disturbed[p] => TargetAsLeft(p) /\ FsAsRead(p) /\ RefusedForReason(p)

\* What p has and knows.
Own(p) == <<pc[p], call[p], path[p], hasFs[p], res[p]>>

Target(p) == <<call[p].uuid \in dirs, mounts[call[p].uuid]>>

-----------------------------------------------------------------------------
(* The steps of the others                                                 *)

\* A step of q either leaves the target of p alone or disturbs p.
LEMMA OtherLeavesOrDisturbs ==
    ASSUME TypeInv, NEW p \in Proc, NEW q \in Proc \ {p}, ProcStep(q), pc[p] # "idle",
           ~disturbed'[p]
    PROVE  ~disturbed[p] /\ UNCHANGED <<Own(p), udev, Target(p)>>
<1>0. UNCHANGED <<pc[p], call[p], path[p], udev>>
    BY OthersUnchanged
<1>1. call[p].uuid \in Uuid /\ mounts \in [Uuid -> Seq(Dev)] /\ hasFs \in [Proc -> BOOLEAN]
      /\ res \in [Proc -> Outcome] /\ disturbed \in [Proc -> BOOLEAN]
    BY RunningRequest DEF TypeInv, TypeOK, HostTypeOK
<1>2. UNCHANGED <<hasFs[p], res[p]>>
  <2>1. ASSUME NEW c, Start(q, c)
        PROVE  UNCHANGED <<hasFs[p], res[p]>>
      BY <1>1, <2>1 DEF Start
  <2>2. CASE Call(q) \/ Retry(q) \/ Leave(q)
      BY <1>1, <2>1, <2>2 DEF Call, Retry, Leave
  <2>3. CASE Step(q)
      BY <1>1, <2>3 DEF Step, ResolveBySymlink, ResolveByLsblk, CheckNotRootDisk, ReadDeviceInfo,
         MakeTarget, CheckTarget, MountDevice, StatTarget, CheckMounted, UnmountTarget,
         RemoveTarget, Goto, Return
  <2>4. CASE SkipGuardrail(q) \/ ProviderFails(q) \/ Crash(q)
      BY <1>1, <2>4 DEF SkipGuardrail, ProviderFails, Crash, Goto, Return
  <2> QED BY <2>2, <2>3, <2>4 DEF ProcStep
<1>3. ASSUME NEW u \in Uuid, Disturb(q, u)
      PROVE  ~disturbed[p] /\ call[p].uuid # u
    BY <1>3 DEF Disturb
<1>4. ASSUME disturbed' = disturbed \/ disturbed' = [disturbed EXCEPT ![q] = FALSE]
      PROVE  ~disturbed[p]
    BY <1>1, <1>4
<1>5. call[q].uuid \in Uuid \/ pc[q] = "idle"
    BY RunningRequest
<1>6. CASE MakeTarget(q) \/ RemoveTarget(q)
  <2>1. UNCHANGED mounts /\ pc[q] # "idle"
      BY <1>6 DEF MakeTarget, RemoveTarget
  <2>2. CASE dirs' = dirs /\ disturbed' = disturbed
      BY <1>0, <1>2, <1>4, <2>1, <2>2 DEF Own, Target
  <2>3. CASE Disturb(q, call[q].uuid) /\ dirs' \in {dirs \cup {call[q].uuid}, dirs \ {call[q].uuid}}
      BY <1>0, <1>2, <1>3, <1>5, <2>1, <2>3 DEF Own, Target
  <2> QED BY <1>6, <2>2, <2>3 DEF MakeTarget, RemoveTarget
<1>7. CASE MountDevice(q) \/ UnmountTarget(q)
  <2>1. UNCHANGED dirs /\ pc[q] # "idle"
      BY <1>7 DEF MountDevice, UnmountTarget
  <2>2. CASE mounts' = mounts /\ disturbed' = disturbed
      BY <1>0, <1>2, <1>4, <2>1, <2>2 DEF Own, Target
  <2>3. CASE /\ Disturb(q, call[q].uuid)
             /\ \E s : mounts' = [mounts EXCEPT ![call[q].uuid] = s]
      BY <1>0, <1>1, <1>2, <1>3, <1>5, <2>1, <2>3 DEF Own, Target
  <2> QED BY <1>7, <2>2, <2>3 DEF MountDevice, UnmountTarget
<1>8. CASE ~(MakeTarget(q) \/ RemoveTarget(q) \/ MountDevice(q) \/ UnmountTarget(q))
  <2>1. UNCHANGED <<dirs, mounts>>
        /\ (disturbed' = disturbed \/ disturbed' = [disturbed EXCEPT ![q] = FALSE])
      BY <1>8 DEF ProcStep, Step, Call, Retry, Leave, Start, ResolveBySymlink, ResolveByLsblk,
         CheckNotRootDisk, SkipGuardrail, ReadDeviceInfo, CheckTarget, StatTarget, CheckMounted,
         ProviderFails, Crash, hostVars, ghosts
  <2> QED BY <1>0, <1>2, <1>4, <2>1 DEF Own, Target
<1> QED BY <1>6, <1>7, <1>8

\* What is said of p depends on nothing else.
LEMMA LeftAlone ==
    ASSUME NEW p \in Proc, UNCHANGED <<Own(p), udev, Target(p)>>,
           TargetAsLeft(p) /\ FsAsRead(p) /\ RefusedForReason(p)
    PROVE  (TargetAsLeft(p) /\ FsAsRead(p) /\ RefusedForReason(p))'
<1>1. UNCHANGED <<pc[p], call[p], path[p], hasFs[p], res[p], udev>>
      /\ (call[p].uuid \in dirs)' = (call[p].uuid \in dirs)
      /\ mounts'[call[p].uuid] = mounts[call[p].uuid]
    BY DEF Own, Target
<1>2. TargetAsLeft(p)'
    BY <1>1 DEF TargetAsLeft
<1>3. FsAsRead(p)'
    BY <1>1 DEF FsAsRead
<1>4. RefusedForReason(p)'
    BY <1>1 DEF RefusedForReason, Refusable, Answers
<1> QED BY <1>2, <1>3, <1>4

-----------------------------------------------------------------------------
(* The steps of the call itself                                            *)

\* A record of udev that answers is one of the device that the call has resolved.
LEMMA RecordIsOfPath ==
    ASSUME TypeInv, DataInv, NEW p \in Proc, pc[p] \in Resolved,
           NEW d \in Dev, Answers(d, call[p].uuid, udev)
    PROVE  d = DeviceAt(path[p])
<1>1. call[p].uuid \in Uuid
    BY RunningRequest DEF Resolved
<1>2. Answers(d, call[p].uuid, disk)
    BY <1>1, RecordedIsOnDisk DEF DataInv
<1> QED BY <1>1, <1>2, ResolvedDevice DEF DataInv, PathCarriesUuid, OneCarrier

\* Where names are kernel paths, the path is the device.
LEMMA PathIsDevice ==
    ASSUME NamesAgree, TypeInv, NEW p \in Proc, pc[p] \in Resolved
    PROVE  path[p] = DeviceAt(path[p]) /\ path[p] \in Dev /\ Listed(path[p])
BY ResolvedDevice DEF NamesAgree

\* The guardrail excludes devices of the root disk only.
LEMMA ExcludedOnRootDisk ==
    FindRootDiskDescendants(RootSource) \subseteq RootDiskDevices
<1>1. CASE Listed(RootSource)
  <2>1. \E k \in DOMAIN Rows : Rows[k] \in {RootSource}
      BY <1>1 DEF Listed
  <2>2. FirstRow({RootSource}) \in DOMAIN Rows /\ Rows[FirstRow({RootSource})] = RootSource
      BY <2>1, FirstRowFound
  <2> QED BY <1>1, <2>2 DEF FindRootDiskDescendants, RootDiskDevices
<1>2. CASE ~Listed(RootSource)
    BY <1>2 DEF FindRootDiskDescendants
<1> QED BY <1>1, <1>2

\* A call of Mount that refuses the device of its path for one of the reasons.
LEMMA RefusesPath ==
    ASSUME TypeInv, DataInv, OpKnown, NEW p \in Proc, pc[p] \in Resolved, Return(p, "refused"),
           UNCHANGED <<call, udev>>,
           LET d == DeviceAt(path[p]) IN
              \/ d \in RootDiskDevices
              \/ call[p].require \notin {None, udev[d].label}
              \/ ~HasFs(udev[d])
    PROVE  (TargetAsLeft(p) /\ FsAsRead(p) /\ RefusedForReason(p))'
<1>1. pc'[p] = "done"
    BY DEF Return, TypeInv, TypeOK
<1>2. call[p].op = "mount"
    BY DEF OpKnown, Resolved, MountStep
<1>3. Refusable(call[p])
    BY <1>2, RecordIsOfPath DEF Refusable
<1>4. Refusable(call[p])'
    BY <1>3 DEF Refusable, Answers, HasFs
<1> QED BY <1>1, <1>4 DEF TargetAsLeft, FsAsRead, RefusedForReason

\* A step that ends the call otherwise, or takes it where nothing is claimed.
LEMMA NothingClaimed ==
    ASSUME NEW p \in Proc,
           \/ pc'[p] \in {"idle", "resolve", "lookup", "root", "info", "stat", "rmdir"}
           \/ pc'[p] = "done" /\ res'[p] # "refused"
    PROVE  (TargetAsLeft(p) /\ FsAsRead(p) /\ RefusedForReason(p))'
BY DEF TargetAsLeft, FsAsRead, RefusedForReason

\* Resolution, the guardrail and the information of lsblk.
LEMMA DeviceStepsExplained ==
    ASSUME NamesAgree, TypeInv, DataInv, OpKnown, NEW p \in Proc,
           \/ ResolveBySymlink(p) \/ ResolveByLsblk(p) \/ CheckNotRootDisk(p)
           \/ SkipGuardrail(p) \/ ReadDeviceInfo(p)
    PROVE  (TargetAsLeft(p) /\ FsAsRead(p) /\ RefusedForReason(p))'
<1>0. pc \in [Proc -> Running \cup {"idle", "done"}] /\ res \in [Proc -> Outcome]
      /\ hasFs \in [Proc -> BOOLEAN]
    BY DEF TypeInv, TypeOK
<1>1. CASE ResolveBySymlink(p) \/ SkipGuardrail(p)
    BY <1>0, <1>1, NothingClaimed DEF ResolveBySymlink, SkipGuardrail, Goto
<1>2. CASE ResolveByLsblk(p)
  <2>1. CASE Goto(p, "root")
      BY <1>0, <2>1, NothingClaimed DEF Goto
  <2>2. CASE Candidates(call[p].uuid) = {} /\ Return(p, "refused")
    <3>1. \A d \in Dev : ~Answers(d, call[p].uuid, udev)
        BY <2>2 DEF Candidates, NamesAgree
    <3>2. call[p].op = "mount" /\ UNCHANGED <<call, udev>>
        BY <1>2 DEF ResolveByLsblk, OpKnown, MountStep, hostVars
    <3>3. Refusable(call[p])'
        BY <3>1, <3>2 DEF Refusable, Answers
    <3>4. pc'[p] = "done"
        BY <1>0, <2>2 DEF Return
    <3> QED BY <3>3, <3>4 DEF TargetAsLeft, FsAsRead, RefusedForReason
  <2> QED BY <1>2, <2>1, <2>2 DEF ResolveByLsblk
<1>3. CASE CheckNotRootDisk(p)
  <2>1. pc[p] \in Resolved /\ UNCHANGED <<call, udev>>
      BY <1>3 DEF CheckNotRootDisk, Resolved, hostVars
  <2>2. CASE path[p] \in FindRootDiskDescendants(RootSource) /\ Return(p, "refused")
    <3>1. DeviceAt(path[p]) \in RootDiskDevices
        BY <2>1, <2>2, PathIsDevice, ExcludedOnRootDisk
    <3> QED BY <2>1, <2>2, <3>1, RefusesPath
  <2>3. CASE Goto(p, "info")
      BY <1>0, <2>3, NothingClaimed DEF Goto
  <2> QED BY <1>3, <2>2, <2>3 DEF CheckNotRootDisk
<1>4. CASE ReadDeviceInfo(p)
  <2>1. pc[p] \in Resolved /\ UNCHANGED <<call, udev, path>>
      BY <1>4 DEF ReadDeviceInfo, Resolved, hostVars
  <2>2. path[p] = DeviceAt(path[p]) /\ Listed(path[p])
      BY <2>1, PathIsDevice
  <2>3. CASE Return(p, "refused")
    <3>1. ~LabelAccepted(call[p], path[p])
        BY <1>0, <1>4, <2>2, <2>3 DEF ReadDeviceInfo, Return, Goto
    <3>2. call[p].require \notin {None, udev[DeviceAt(path[p])].label}
        BY <2>2, <3>1 DEF LabelAccepted
    <3> QED BY <2>1, <2>3, <3>2, RefusesPath
  <2>4. CASE Goto(p, "mkdir") /\ call[p].fsGiven
      BY <1>0, <2>1, <2>4 DEF Goto, TargetAsLeft, FsAsRead, RefusedForReason
  <2>5. CASE Goto(p, "mkdir") /\ hasFs' = [hasFs EXCEPT ![p] = HasFs(udev[path[p]])]
    <3>1. pc'[p] = "mkdir"
        BY <1>0, <2>5 DEF Goto
    <3>2. hasFs'[p] <=> HasFs(udev[path[p]])
        BY <1>0, <2>5
    <3>3. FsAsRead(p)'
        BY <2>1, <2>2, <3>2 DEF FsAsRead, HasFs
    <3> QED BY <3>1, <3>3 DEF TargetAsLeft, RefusedForReason
  <2> QED BY <1>4, <2>3, <2>4, <2>5 DEF ReadDeviceInfo
<1> QED BY <1>1, <1>2, <1>3, <1>4

\* The steps of Mount at the target.
LEMMA TargetStepsExplained ==
    ASSUME TypeInv, DataInv, OpKnown, NEW p \in Proc, TargetAsLeft(p), FsAsRead(p),
           MakeTarget(p) \/ CheckTarget(p) \/ MountDevice(p)
    PROVE  (TargetAsLeft(p) /\ FsAsRead(p) /\ RefusedForReason(p))'
<1> DEFINE u == call[p].uuid
           d == DeviceAt(path[p])
<1>0. /\ pc \in [Proc -> Running \cup {"idle", "done"}] /\ res \in [Proc -> Outcome]
      /\ pc[p] \in Resolved /\ UNCHANGED <<call, path, hasFs, udev>>
    BY DEF TypeInv, TypeOK, MakeTarget, CheckTarget, MountDevice, Resolved, hostVars
<1>1. CASE MakeTarget(p)
  <2>1. pc'[p] = "check" /\ u \in dirs' /\ pc[p] = "mkdir"
      BY <1>0, <1>1 DEF MakeTarget, Goto
  <2>2. FsAsRead(p)'
      BY <1>0, <2>1 DEF FsAsRead
  <2> QED BY <1>0, <2>1, <2>2 DEF TargetAsLeft, RefusedForReason
<1>2. CASE CheckTarget(p)
  <2>0. pc[p] = "check" /\ u \in dirs /\ UNCHANGED <<dirs, mounts>>
      BY <1>2 DEF CheckTarget, TargetAsLeft, hostVars
  <2>1. CASE Return(p, "ok")
      BY <1>0, <2>1, NothingClaimed DEF Return
  <2>2. CASE mounts[u] = <<>> /\ Goto(p, "mount")
    <3>1. pc'[p] = "mount"
        BY <1>0, <2>2 DEF Goto
    <3>2. FsAsRead(p)'
        BY <1>0, <2>0, <3>1 DEF FsAsRead
    <3> QED BY <1>0, <2>0, <2>2, <3>1, <3>2 DEF TargetAsLeft, RefusedForReason
  <2>3. CASE ~call[p].fsGiven /\ ~hasFs[p] /\ Return(p, "refused")
    <3>1. ~HasFs(udev[d])
        BY <2>0, <2>3 DEF FsAsRead
    <3> QED BY <1>0, <2>3, <3>1, RefusesPath
  <2> QED BY <1>2, <2>0, <2>1, <2>2, <2>3 DEF CheckTarget
<1>3. CASE MountDevice(p)
  <2>1. CASE Return(p, "ok")
      BY <1>0, <2>1, NothingClaimed DEF Return
  <2>2. CASE ~KernelAccepts(d, u) /\ Return(p, "refused")
    <3>1. u \in dirs /\ mounts[u] = <<>>
        BY <1>3 DEF MountDevice, TargetAsLeft
    <3>2. ~HasFs(disk[d])
        BY <2>2, <3>1 DEF KernelAccepts
    <3>3. d \in Dev
        BY <1>0, ResolvedDevice
    <3>4. ~HasFs(udev[d])
        BY <3>2, <3>3 DEF DataInv, UdevFollows, HasFs, Blank
    <3> QED BY <1>0, <2>2, <3>4, RefusesPath
  <2> QED BY <1>3, <2>1, <2>2 DEF MountDevice
<1> QED BY <1>1, <1>2, <1>3

\* Unmount refuses nothing.
LEMMA UnmountExplained ==
    ASSUME TypeInv, NEW p \in Proc, TargetAsLeft(p),
           StatTarget(p) \/ CheckMounted(p) \/ UnmountTarget(p) \/ RemoveTarget(p)
    PROVE  (TargetAsLeft(p) /\ FsAsRead(p) /\ RefusedForReason(p))'
<1> DEFINE u == call[p].uuid
<1>0. pc \in [Proc -> Running \cup {"idle", "done"}] /\ res \in [Proc -> Outcome]
      /\ call' = call
    BY DEF TypeInv, TypeOK, StatTarget, CheckMounted, UnmountTarget, RemoveTarget
<1>1. CASE Return(p, "ok") \/ Goto(p, "rmdir")
    BY <1>0, <1>1, NothingClaimed DEF Return, Goto
<1>2. CASE StatTarget(p) /\ u \in dirs /\ Goto(p, "ucheck")
  <2>1. pc'[p] = "ucheck" /\ dirs' = dirs
      BY <1>0, <1>2 DEF StatTarget, Goto, hostVars
  <2> QED BY <1>0, <1>2, <2>1 DEF TargetAsLeft, FsAsRead, RefusedForReason
<1>3. CASE CheckMounted(p) /\ u \in dirs /\ mounts[u] # <<>> /\ Goto(p, "umount")
  <2>1. pc'[p] = "umount" /\ UNCHANGED <<dirs, mounts>>
      BY <1>0, <1>3 DEF CheckMounted, Goto, hostVars
  <2> QED BY <1>0, <1>3, <2>1 DEF TargetAsLeft, FsAsRead, RefusedForReason
<1> QED BY <1>1, <1>2, <1>3 DEF StatTarget, CheckMounted, UnmountTarget, RemoveTarget, TargetAsLeft

LEMMA OwnStepExplained ==
    ASSUME NamesAgree, ContractInv, UndisturbedInv, NEW p \in Proc, ProcStep(p), ~disturbed'[p]
    PROVE  (TargetAsLeft(p) /\ FsAsRead(p) /\ RefusedForReason(p))'
<1>0. /\ TypeInv /\ DataInv /\ OpKnown
      /\ pc \in [Proc -> Running \cup {"idle", "done"}] /\ res \in [Proc -> Outcome]
      /\ disturbed \in [Proc -> BOOLEAN]
    BY DEF ContractInv, SafeInv, TypeInv, TypeOK
<1>1. CASE Call(p) \/ Retry(p) \/ Leave(p)
  <2>1. pc'[p] \in {"idle", "resolve", "stat"}
      BY <1>0, <1>1 DEF Call, Retry, Leave, Start
  <2> QED BY <2>1, NothingClaimed
<1>2. CASE ProviderFails(p) \/ Crash(p)
  <2>1. pc'[p] = "done" /\ res'[p] # "refused"
      BY <1>0, <1>2 DEF ProviderFails, Crash, Return
  <2> QED BY <2>1, NothingClaimed
<1>3. CASE \/ ResolveBySymlink(p) \/ ResolveByLsblk(p) \/ CheckNotRootDisk(p)
           \/ SkipGuardrail(p) \/ ReadDeviceInfo(p)
    BY <1>0, <1>3, DeviceStepsExplained
<1>4. CASE \/ MakeTarget(p) \/ CheckTarget(p) \/ MountDevice(p)
           \/ StatTarget(p) \/ CheckMounted(p) \/ UnmountTarget(p) \/ RemoveTarget(p)
  <2>1. ~disturbed[p]
    <3>1. disturbed' = disturbed \/ Disturb(p, call[p].uuid)
        BY <1>4 DEF MakeTarget, CheckTarget, MountDevice, StatTarget, CheckMounted, UnmountTarget,
           RemoveTarget, ghosts
    <3> QED BY <3>1 DEF Disturb
  <2>2. TargetAsLeft(p) /\ FsAsRead(p)
      BY <2>1 DEF UndisturbedInv
  <2> QED BY <1>0, <1>4, <2>2, TargetStepsExplained, UnmountExplained
<1> QED BY <1>1, <1>2, <1>3, <1>4 DEF ProcStep, Step

-----------------------------------------------------------------------------

LEMMA NextUndisturbed ==
    ASSUME NamesAgree, ContractInv, UndisturbedInv, [Next]_vars
    PROVE  UndisturbedInv'
<1>0. TypeInv /\ pc \in [Proc -> Running \cup {"idle", "done"}]
    BY DEF ContractInv, SafeInv, TypeInv, TypeOK
<1> SUFFICES ASSUME NEW p \in Proc, ~disturbed'[p]
             PROVE  (TargetAsLeft(p) /\ FsAsRead(p) /\ RefusedForReason(p))'
    BY DEF UndisturbedInv
<1>1. ASSUME NEW q \in Proc, ProcStep(q)
      PROVE  (TargetAsLeft(p) /\ FsAsRead(p) /\ RefusedForReason(p))'
  <2>1. CASE q = p
      BY <1>1, <2>1, OwnStepExplained
  <2>2. CASE q # p /\ pc[p] = "idle"
    <3>1. pc'[p] = "idle"
        BY <1>0, <1>1, <2>2, OthersUnchanged
    <3> QED BY <3>1, NothingClaimed
  <2>3. CASE q # p /\ pc[p] # "idle"
    <3>1. ~disturbed[p] /\ UNCHANGED <<Own(p), udev, Target(p)>>
        BY <1>0, <1>1, <2>3, OtherLeavesOrDisturbs
    <3> QED BY <3>1, LeftAlone DEF UndisturbedInv
  <2> QED BY <2>1, <2>2, <2>3
<1>2. CASE NodeStep
  <2>1. pc' = pc /\ DisturbAll
      BY <1>2 DEF NodeStep, FormatBlank, Udev, local
  <2>2. pc'[p] = "idle"
      BY <2>1 DEF DisturbAll
  <2> QED BY <2>2, NothingClaimed
<1>3. CASE UNCHANGED vars
  <2>1. ~disturbed[p] /\ UNCHANGED <<Own(p), udev, Target(p)>>
      BY <1>3 DEF vars, hostVars, local, ghosts, Own, Target
  <2> QED BY <2>1, LeftAlone DEF UndisturbedInv
<1> QED BY <1>1, <1>2, <1>3, NextCases

\* Both operations are idempotent: unless the device or its listing gives Mount a reason,
\* a call on a target that nobody touches meanwhile is served, whatever earlier calls, with
\* any number of failures and kills, have left behind.
THEOREM RefusalsExplained ==
    ASSUME NamesAgree
    PROVE  Spec => []RefusalExplained
<1>1. Init => UndisturbedInv
    BY DEF Init, UndisturbedInv, TargetAsLeft, FsAsRead, RefusedForReason
<1>2. ContractInv /\ UndisturbedInv /\ [Next]_vars => UndisturbedInv'
    BY NextUndisturbed
<1>3. UndisturbedInv => RefusalExplained
    BY DEF UndisturbedInv, RefusedForReason, RefusalExplained
<1> QED BY <1>1, <1>2, <1>3, SpecContractInv, PTL DEF Spec
==============================================================================
