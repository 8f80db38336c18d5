------------------------- MODULE CommandLines_proofs -------------------------
(***************************************************************************)
(* What the flags of one command promise the next one, proved for any      *)
(* disks and any command lines.                                            *)
(***************************************************************************)
EXTENDS CommandLines, TLAPS

Target == [dev : Dev, dir : {f.mountPoint.path : f \in MountFlags},
           uuid : [of : Dev, kind : {"fs", "part"}, spelling : {"lsblk", "other"}]]

\* A device carries what the driver-init that formatted it was told to make and is as large
\* as it had to be; a mounted device has a filesystem, and a mount is at the directory named
\* by one of the two identifiers of its device, in the spelling of lsblk.
Kept ==
    /\ \A d \in Dev : asked[d] # None =>
           /\ InitValidate(asked[d])
           /\ disk[d] = Mkfs(InitFSType(asked[d]), asked[d].label)
           /\ disk[d] # None /\ Size[d] >= asked[d].minSize
    /\ mounts \subseteq Target
    /\ \A m \in mounts :
           /\ m.uuid = Identifier(m.dev, m.uuid.kind)
           /\ disk[m.dev] # None
           /\ m.uuid.kind = "fs" => ParsesAsUuid(m.uuid)

LEMMA InitKept == Init => Kept
BY DEF Init, Kept

LEMMA FormatKept ==
    ASSUME Kept, NEW f \in InitFlags, InitValidate(f), Format(f), UNCHANGED mounts
    PROVE  Kept'
<1>1. PICK made \in SUBSET Dev :
          /\ \A d \in made : disk[d] = None /\ Size[d] >= f.minSize
          /\ disk' = [d \in Dev |-> IF d \in made THEN Mkfs(InitFSType(f), f.label) ELSE disk[d]]
          /\ asked' = [d \in Dev |-> IF d \in made THEN f ELSE asked[d]]
    BY DEF Format, Unformatted
<1>2. \A d \in Dev : asked'[d] # None =>
          /\ InitValidate(asked'[d])
          /\ disk'[d] = Mkfs(InitFSType(asked'[d]), asked'[d].label)
          /\ disk'[d] # None /\ Size[d] >= asked'[d].minSize
  <2> TAKE d \in Dev
  <2>1. CASE d \in made
      BY <1>1, <2>1, MkfsAssumption
  <2>2. CASE d \notin made
      BY <1>1, <2>2 DEF Kept
  <2> QED BY <2>1, <2>2
<1>3. \A d \in Dev : disk[d] # None => disk'[d] = disk[d]
    BY <1>1
<1>4. ASSUME NEW m \in mounts
      PROVE  m.dev \in Dev /\ m.uuid.of = m.dev
  <2>1. m \in Target /\ m.uuid = Identifier(m.dev, m.uuid.kind)
      BY DEF Kept
  <2> QED BY <2>1 DEF Target, Identifier
<1>5. \A m \in mounts' :
          /\ disk'[m.dev] # None
          /\ m.uuid.kind = "fs" => ParsesAsUuid(m.uuid)'
    BY <1>3, <1>4 DEF Kept, ParsesAsUuid
<1>6. /\ mounts' \subseteq Target
      /\ \A m \in mounts' : m.uuid = Identifier(m.dev, m.uuid.kind)
    BY DEF Kept
<1> QED BY <1>2, <1>5, <1>6 DEF Kept

LEMMA MountKept ==
    ASSUME Kept, NEW f \in MountFlags, MountCommand(f)
    PROVE  Kept'
<1>1. UNCHANGED <<disk, asked>>
    BY DEF MountCommand, Reject
<1>2. \/ mounts' \subseteq mounts
      \/ /\ mounts' = mounts \cup {Mounted(f)}
         /\ MountValidate(f) /\ Passes(f) /\ KernelAccepts(f)
    BY DEF MountCommand, Reject
<1>3. f.uuid \in [of : Dev, kind : {"fs", "part"}, spelling : {"lsblk", "other"}]
    BY CommandAssumption
<1>4. Mounted(f) \in Target
    BY <1>3 DEF Mounted, Target
<1>5. ASSUME MountValidate(f), Passes(f), KernelAccepts(f), NEW m, m = Mounted(f)
      PROVE  /\ m.uuid = Identifier(m.dev, m.uuid.kind)
             /\ disk[m.dev] # None
             /\ m.uuid.kind = "fs" => ParsesAsUuid(m.uuid)
    BY <1>3, <1>5 DEF MountValidate, Passes, Resolves, KernelAccepts, Mounted, Identifier
<1>6. \A m : ParsesAsUuid(m.uuid) <=> ParsesAsUuid(m.uuid)'
    BY <1>1 DEF ParsesAsUuid
<1> QED BY <1>1, <1>2, <1>4, <1>5, <1>6 DEF Kept

LEMMA NextKept == Kept /\ [Next]_vars => Kept'
<1> SUFFICES ASSUME Kept, [Next]_vars
             PROVE  Kept'
    OBVIOUS
<1>1. ASSUME NEW f \in InitFlags, InitCommand(f)
      PROVE  Kept'
  <2>1. CASE UNCHANGED <<disk, mounts, asked>>
      BY <2>1 DEF Kept, ParsesAsUuid
  <2> QED BY <1>1, <2>1, FormatKept DEF InitCommand, Reject
<1>2. ASSUME NEW f \in ScanFlags, ScanCommand(f)
      PROVE  Kept'
    BY <1>2 DEF Kept, ScanCommand, Reject, ParsesAsUuid
<1>3. CASE UNCHANGED vars
    BY <1>3 DEF Kept, vars, ParsesAsUuid
<1> QED BY <1>1, <1>2, <1>3, MountKept DEF Next

LEMMA SpecKept == Spec => []Kept
BY InitKept, NextKept, PTL DEF Spec

-----------------------------------------------------------------------------

\* Every label that validate lets through fits every type of filesystem.
LEMMA ValidLabelFits ==
    ASSUME NEW t \in ValidFSTypes, NEW l, l # None, ValidateLabel(l)
    PROVE  Fits(t, l)
BY DEF ValidFSTypes, ValidateLabel, Fits, LabelRoom

\* Whatever label driver-init was given, a mount that requires that label is not refused.
THEOREM LabelsRoundTrip == Spec => []LabelRoundTrip
<1>1. Kept => LabelRoundTrip
  <2> SUFFICES ASSUME Kept, NEW d \in Dev \ Root, asked[d] # None, asked[d].label # None
               PROVE  Passes([DefaultMount(d) EXCEPT !.managedOnly = TRUE,
                                                     !.requireLabel = asked[d].label])
      BY DEF LabelRoundTrip
  <2> DEFINE t == InitFSType(asked[d])
             l == asked[d].label
             f == [DefaultMount(d) EXCEPT !.managedOnly = TRUE, !.requireLabel = l]
  <2>1. t \in ValidFSTypes /\ ValidateLabel(l) /\ disk[d] = Mkfs(t, l) /\ disk[d] # None
      BY DEF Kept, InitValidate
  <2>2. Fits(t, l)
      BY <2>1, ValidLabelFits
  <2>3. disk[d].label = l
      BY <2>1, <2>2 DEF Mkfs
  <2>4. f.uuid = Printed(d) /\ f.requireLabel = l
      BY DEF DefaultMount
  <2> HIDE DEF f
  <2> QED BY <2>1, <2>3, <2>4 DEF Passes, Resolves, Printed, Identifier, f
<1> QED BY <1>1, SpecKept, PTL

\* Whatever is mounted by a filesystem UUID, in whatever order the commands came, is
\* unmounted by the identifier that driver-scan prints.
THEOREM PrintedUnmounts == Spec => []UnmountFindsPrinted
<1>1. ASSUME Kept, NEW m \in mounts, m.uuid.kind = "fs"
      PROVE  LET f == [DefaultMount(m.dev) EXCEPT
                           !.mountPoint = [path |-> m.dir, slash |-> FALSE],
                           !.unmount = TRUE]
             IN  MountValidate(f) /\ m \in At(f)
  <2> DEFINE f == [DefaultMount(m.dev) EXCEPT !.mountPoint = [path |-> m.dir, slash |-> FALSE],
                                              !.unmount = TRUE]
  <2>1. m.uuid = Printed(m.dev) /\ ParsesAsUuid(m.uuid)
      BY <1>1 DEF Kept, Printed
  <2>2. /\ f.uuid = Printed(m.dev) /\ f.mountPoint.path = m.dir
        /\ f.fsType = None /\ f.managedOnly = FALSE /\ f.requireLabel = None
        /\ f.logLevel = None /\ f.debug = FALSE
      BY DEF DefaultMount
  <2> HIDE DEF f
  <2>3. m \in At(f)
      BY <2>1, <2>2 DEF At
  <2>4. MountValidate(f)
      BY <2>1, <2>2, CommandAssumption DEF MountValidate, ValidateGlobal, LogLevel
  <2> QED BY <2>3, <2>4 DEF f
<1>2. Kept => UnmountFindsPrinted
    BY <1>1 DEF UnmountFindsPrinted
<1> QED BY <1>2, SpecKept, PTL

\* The defaults of the three commands fit together, for devices of any size.
THEOREM DefaultsFit == Spec => []DefaultsAgree
<1>1. ASSUME Kept, NEW d \in Dev \ Root, asked[d] = DefaultInit
      PROVE  /\ MountValidate(DefaultMount(d)) /\ Passes(DefaultMount(d))
             /\ (\A m \in mounts : m.dev # d) =>
                    [dev |-> d, status |-> "unmounted"] \in UnmountedRows(DefaultScan)
             /\ At(DefaultMount(d)) # {} /\ FsSize[d] >= DefaultScanMinSize =>
                    [dev |-> d, status |-> "mounted"] \in MountedRows(DefaultScan)
  <2>1. disk[d] # None /\ disk[d].type = "ext4" /\ Size[d] >= DefaultInitMinSize
    <3>1. /\ asked[d] # None /\ InitFSType(asked[d]) = "ext4"
          /\ asked[d].minSize = DefaultInitMinSize
        BY <1>1, DefaultAssumption DEF DefaultInit, InitFSType
    <3>2. /\ disk[d] = Mkfs("ext4", asked[d].label) /\ disk[d] # None
          /\ Size[d] >= asked[d].minSize
        BY <1>1, <3>1 DEF Kept
    <3> QED BY <3>1, <3>2 DEF Mkfs
  <2>2. MountValidate(DefaultMount(d)) /\ Passes(DefaultMount(d))
      BY <1>1, <2>1, CommandAssumption DEF DefaultMount, MountValidate, Passes, Resolves,
         Printed, Identifier, ParsesAsUuid, ValidateGlobal, LogLevel
  <2>3. ParsedTypes(DefaultScan.fsTypes) = {"ext4"} /\ DefaultScan.minSize = DefaultScanMinSize
      BY CommandAssumption DEF DefaultScan, ParsedTypes
  <2>4. ASSUME NEW m \in At(DefaultMount(d)), FsSize[d] >= DefaultScanMinSize
        PROVE  [dev |-> d, status |-> "mounted"] \in MountedRows(DefaultScan)
    <3>1. m \in mounts /\ m.dir = DefaultDir.path /\ m.dev = d
      <4>1. /\ DefaultMount(d).mountPoint = DefaultDir
            /\ DefaultMount(d).uuid = Printed(d)
          BY DEF DefaultMount
      <4>2. m \in mounts /\ m.dir = DefaultDir.path /\ m.uuid = Printed(d)
          BY <2>4, <4>1 DEF At
      <4>3. Identifier(m.dev, m.uuid.kind) = Printed(d)
          BY <1>1, <4>2 DEF Kept
      <4> QED BY <4>2, <4>3 DEF Printed, Identifier
    <3>2. UnderDir(m, DefaultScan.dir)
        BY <3>1, CommandAssumption DEF UnderDir, DefaultScan, IsPrefix
    <3> QED BY <2>4, <2>1, <2>3, <3>1, <3>2 DEF MountedRows
  <2>5. ASSUME \A m \in mounts : m.dev # d
        PROVE  [dev |-> d, status |-> "unmounted"] \in UnmountedRows(DefaultScan)
    <3>1. Size[d] >= DefaultScanMinSize
        BY <2>1, DefaultSizesAssumption
    <3> QED BY <2>1, <2>3, <2>5, <3>1 DEF UnmountedRows
  <2> QED BY <2>2, <2>4, <2>5
<1>2. Kept => DefaultsAgree
    BY <1>1 DEF DefaultsAgree
<1> QED BY <1>2, SpecKept, PTL
=============================================================================
