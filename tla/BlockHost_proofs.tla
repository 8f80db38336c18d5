-------------------------- MODULE BlockHost_proofs --------------------------
(***************************************************************************)
(* Facts about the operators of BlockHost, for the proofs of the modules   *)
(* that are built on it.                                                   *)
(***************************************************************************)
EXTENDS BlockHost, TLAPS, WellFoundedInduction

\* A set of natural numbers that is not empty has a least element.
LEMMA LeastNat ==
    ASSUME NEW T, T \subseteq Nat, T # {}
    PROVE  \E x \in T : \A y \in T : x <= y
<1>1. PICK x \in T : \A y \in T : <<y, x>> \notin OpToRel(<, Nat)
    BY NatLessThanWellFounded, WFMin, Zenon
<1>2. \A y \in T : <<y, x>> \in OpToRel(<, Nat) <=> y < x
    BY DEF OpToRel
<1>3. \A y \in T : ~(y < x) => x <= y
    OBVIOUS
<1>4. \A y \in T : x <= y
    BY <1>1, <1>2, <1>3
<1> QED BY <1>4

\* A search of the listing (FlattenDevices and a loop) that can succeed returns
\* the first row that matches.
LEMMA FirstRowFound ==
    ASSUME NEW S, \E k \in DOMAIN Rows : Rows[k] \in S
    PROVE  /\ FirstRow(S) \in DOMAIN Rows
           /\ Rows[FirstRow(S)] \in S
           /\ \A j \in DOMAIN Rows : Rows[j] \in S => FirstRow(S) <= j
<1> DEFINE T == {k \in DOMAIN Rows : Rows[k] \in S}
<1>1. T \subseteq Nat /\ T # {}
    BY HostAssumption
<1>2. \E x \in T : \A y \in T : x <= y
    BY <1>1, LeastNat
<1> QED BY <1>2 DEF FirstRow

\* A path leads to one device, by its name or by its kernel path.
LEMMA DeviceAtPath ==
    ASSUME NEW d \in Dev, NEW p, p \in {d, KernelPath[d]}
    PROVE  DeviceAt(p) = d
<1>1. \A e \in Dev : p \in {e, KernelPath[e]} => e = d
    BY HostAssumption
<1> QED BY <1>1 DEF DeviceAt

\* On a node whose root device lies on one disk, the guardrail's search finds
\* all of that disk.
LEMMA RootDiskFound ==
    ASSUME RootOnOneDisk
    PROVE  RootDiskDevices = FindRootDiskDescendants(RootSource)
<1> DEFINE K == {j \in DOMAIN Rows : Rows[j] = RootSource}
<1>1. CASE ~Listed(RootSource)
    BY <1>1 DEF Listed, RootDiskDevices, FindRootDiskDescendants
<1>2. CASE Listed(RootSource)
  <2> DEFINE f == FirstRow({RootSource})
  <2>1. f \in K
    BY <1>2, FirstRowFound DEF Listed
  <2>2. \A k \in K : Top[k] = Top[f]
    BY <2>1 DEF RootOnOneDisk
  <2>3. {Subtree(Top[k]) : k \in K} = {Subtree(Top[f])}
    BY <2>1, <2>2
  <2>4. RootDiskDevices = UNION {Subtree(Top[k]) : k \in K}
    BY DEF RootDiskDevices
  <2>5. FindRootDiskDescendants(RootSource) = Subtree(Top[f])
    BY <1>2 DEF FindRootDiskDescendants
  <2> QED BY <2>3, <2>4, <2>5
<1> QED BY <1>1, <1>2

\* What lsblk lists is a device.
LEMMA ListedIsDev ==
    ASSUME NEW d, Listed(d)
    PROVE  d \in Dev
<1>1. PICK k \in DOMAIN Rows : Rows[k] = d
    BY DEF Listed
<1>2. Rows \in Seq(Dev)
    BY HostAssumption
<1>3. Rows[k] \in Dev
    BY <1>2
<1> QED BY <1>1, <1>3

\* The initial state of the node has the types.
LEMMA HostInitTypeOK ==
    ASSUME HostInit
    PROVE  HostTypeOK
<1>1. disk \in [Dev -> Content] /\ udev \in [Dev -> Content]
    BY HostAssumption DEF HostInit
<1>2. mounts \in [Uuid -> Seq(Dev)]
    BY DEF HostInit
<1>3. dirs \subseteq Uuid
    BY DEF HostInit
<1> QED BY <1>1, <1>2, <1>3 DEF HostTypeOK

\* mkfs puts content of the right type on a device.
LEMMA MkfsType ==
    ASSUME NEW d \in Dev, NEW u \in Uuid, NEW l \in Label \cup {None},
           disk \in [Dev -> Content], Mkfs(d, u, l)
    PROVE  disk' \in [Dev -> Content]
<1>1. [uuid |-> u, label |-> l] \in Content
    BY DEF Content
<1> QED BY <1>1 DEF Mkfs
=============================================================================
