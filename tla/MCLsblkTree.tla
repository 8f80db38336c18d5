---------------------------- MODULE MCLsblkTree ----------------------------
(***************************************************************************)
(* Forests of a few devices for model-checking LsblkTree.  Four devices    *)
(* make a RAID of two disks with a partition or a volume on it; every      *)
(* stacking and every order of children is reached.                        *)
(***************************************************************************)
EXTENDS LsblkTree

\* One filter that never stops, and for every pair of verdicts a device on which the
\* arbitrary filter and this one have them.
SkipEven == {[d \in Device |-> [skip |-> d % 2 = 0, stop |-> FALSE]]}
=============================================================================
