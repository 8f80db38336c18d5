----------------------------- MODULE LsblkTree -----------------------------
(***************************************************************************)
(* The forest of block devices that `lsblk --json` prints, and the         *)
(* functions of fsutils/lsblk.go that walk it: the recursive filter with   *)
(* its skip and stop verdicts, the filter combinators, the lookup of one   *)
(* device and the search for the root disk.                                *)
(*                                                                         *)
(* The variable is the stacking of the devices, which other tools change;  *)
(* the functions are operators on the listing of the moment.  Devices are  *)
(* numbered in the order of their creation and lie on older ones.          *)
(***************************************************************************)
EXTENDS Naturals, SequencesExt

CONSTANTS
    MaxDevice,  \* bound on the number of devices
    Second      \* the filters that are combined with an arbitrary one

VARIABLES
    below,  \* below[d]: the devices that lie directly on d, in lsblk's order
    f, g    \* two filters

vars == <<below, f, g>>

Device == 1..MaxDevice

\* A FilterFunc, as the verdict it has for each device.
Verdict == [skip : BOOLEAN, stop : BOOLEAN]
Filter  == [Device -> Verdict]

ASSUME TreeAssumption == MaxDevice \in Nat /\ Second \subseteq Filter

-----------------------------------------------------------------------------
(* The listing                                                             *)

Parents(d) == {e \in Device : d \in ToSet(below[e])}

Tops == {d \in Device : Parents(d) = {}}

\* The devices of keep, in the order of the rows: the loop of FilterDevices.
FilterDevices(devices, keep) ==
    FlattenSeq([i \in DOMAIN devices |-> IF devices[i] \in keep THEN <<devices[i]>> ELSE <<>>])

\* The top level of the forest.  A number stands for the BlockDevice with its Children,
\* which are the devices of below; one with two parents is printed twice.
Listing == FilterDevices([d \in Device |-> d], Tops)

\* What a recursive function returns for each of the devices, appended in turn.
ForEach(walk, devices) == FlattenSeq([i \in DOMAIN devices |-> walk[devices[i]]])

\* The recursion of this file: a device contributes kept, then come its children in next.
Walk(kept, next) ==
    LET walk[d \in Device] == kept[d] \o ForEach(walk, next[d])
    IN  walk

FlattenDevices(devices) == ForEach(Walk([d \in Device |-> <<d>>], below), devices)

-----------------------------------------------------------------------------
(* GetBlockDevices and GetBlockDevice                                      *)

Included(filter) == {d \in Device : ~filter[d].skip}

\* A stop leaves out the children of the device, and nothing else.
FilterDeviceRecursive(filter) ==
    Walk([d \in Device |-> IF filter[d].skip THEN <<>> ELSE <<d>>],
         [d \in Device |-> IF filter[d].stop THEN <<>> ELSE below[d]])

\* Faulty variants: a stop is not noticed; children are not visited.
StopIgnored(devices, filter) == FilterDevices(FlattenDevices(devices), Included(filter))
ChildrenForgotten(devices, filter) == FilterDevices(devices, Included(filter))

GetBlockDevices(devices, filter) == ForEach(FilterDeviceRecursive(filter), devices)

DeviceNameMatch(name) ==
    [d \in Device |-> [skip |-> d # name, stop |-> d = name]]

\* One device, or the empty sequence for "not found".
First(devices) == SubSeq(devices, 1, IF devices = <<>> THEN 0 ELSE 1)

\* Faulty variant: a lookup that only knows top-level devices.
TopLevelDevice(devices, name) == First(FilterDevices(devices, {name}))

GetBlockDevice(devices, name) == First(GetBlockDevices(devices, DeviceNameMatch(name)))

-----------------------------------------------------------------------------
(* FindRootDiskDescendants                                                 *)

Subtree(device) == ToSet(FlattenDevices(<<device>>))

\* Faulty variant: what lies on the root device, not what shares its disk.
RootDeviceDescendants(devices, source) ==
    IF source \in ToSet(FlattenDevices(devices)) THEN Subtree(source) ELSE {}

FindRootDiskDescendants(devices, source) ==
    LET hits == {i \in DOMAIN devices : source \in Subtree(devices[i])}
    IN  IF hits = {} THEN {} ELSE Subtree(devices[Min(hits)])

-----------------------------------------------------------------------------
(* And, Or, Not                                                            *)

\* The first filter that skips or stops decides.
And(a, b) == [d \in Device |-> IF a[d].skip \/ a[d].stop THEN a[d] ELSE b[d]]

\* Faulty variant: the last filter alone decides.
OrLastDecides(a, b) == [d \in Device |-> IF a[d].stop THEN a[d] ELSE b[d]]

\* A stop decides at once; otherwise a device is skipped that every filter skips.
Or(a, b) ==
    [d \in Device |->
        IF a[d].stop THEN a[d]
        ELSE IF b[d].stop THEN b[d]
        ELSE [skip |-> a[d].skip /\ b[d].skip, stop |-> FALSE]]

Not(a) == [d \in Device |-> [skip |-> ~a[d].skip, stop |-> a[d].stop]]

-----------------------------------------------------------------------------
(* Other tools change the stacking                                         *)

Init ==
    /\ below = [d \in Device |-> <<>>]
    /\ f \in Filter
    /\ g \in Second

Stack(d, e) ==
    /\ d < e /\ e \notin ToSet(below[d])
    /\ below' = [below EXCEPT ![d] = Append(@, e)]
    /\ UNCHANGED <<f, g>>

Unstack(d, e) ==
    /\ e \in ToSet(below[d])
    /\ below' = [below EXCEPT ![d] = FilterDevices(@, Device \ {e})]
    /\ UNCHANGED <<f, g>>

Next == \E d, e \in Device : Stack(d, e) \/ Unstack(d, e)

Spec == Init /\ [][Next]_vars

-----------------------------------------------------------------------------
(* Properties                                                              *)

\* The devices of D and what lies on them, directly or along devices of S: the
\* members of every set that has D and is closed under going up from S.
Above(D, S) ==
    {e \in Device :
        \A X \in SUBSET Device :
            D \subseteq X /\ (\A d \in X \cap S : ToSet(below[d]) \subseteq X) => e \in X}

\* GetBlockDevice, with its filter that stops in the middle of the walk, finds
\* what a search of the flattened listing finds: GetUUID relies on the two being
\* the same search.
LookupFindsFirst ==
    \A name \in Device \cup {0} :
        GetBlockDevice(Listing, name) =
            First(FilterDevices(FlattenDevices(Listing), {name}))

\* The guardrail excludes the root device and everything on one disk: the
\* oldest top-level disk that it lies on.
RootDiskExcluded ==
    \A source \in Device :
        LET disks == {d \in Tops : source \in Above({d}, Device)}
        IN  FindRootDiskDescendants(Listing, source) = Above({Min(disks)}, Device)

\* Nothing is returned that the filter skips, or that can only be reached through a
\* device at which it has stopped.
StopPrunesBelow ==
    ToSet(GetBlockDevices(Listing, f)) \subseteq
        Above(Tops, {d \in Device : ~f[d].stop}) \cap Included(f)

\* fsutils/lsblk.go:127: "stop: if true, stop processing remaining devices".  Of the
\* rows of the listing, those up to the first stop are filtered.
StopEndsWalk ==
    LET rows  == FlattenDevices(Listing)
        stops == {i \in DOMAIN rows : f[rows[i]].stop}
        processed == IF stops = {} THEN rows ELSE SubSeq(rows, 1, Min(stops))
    IN  GetBlockDevices(Listing, f) = FilterDevices(processed, Included(f))

NeverStops(a) == \A d \in Device : ~a[d].stop

\* As long as no filter stops, filtering the forest is filtering its flattened
\* listing, row by row: what the scanner and the initializer rely on.
FilterKeepsRows ==
    NeverStops(f) =>
        GetBlockDevices(Listing, f) =
            FilterDevices(FlattenDevices(Listing), Included(f))

\* Without stops, And, Or and Not are the connectives on "is included", so that
\* the usual laws relate what they return.
CombinatorsAgree ==
    NeverStops(f) /\ NeverStops(g) =>
        LET Returned(a) == ToSet(GetBlockDevices(Listing, a)) IN
        /\ Returned(And(f, g)) = Returned(f) \cap Returned(g)
        /\ Returned(Or(f, g)) = Returned(f) \cup Returned(g)
        /\ Returned(Not(And(f, g))) = Returned(Or(Not(f), Not(g)))
=============================================================================
