---------------------------- MODULE MCDiskHelper ----------------------------
(***************************************************************************)
(* Instances of DiskHelper for TLC: the root file system, a partition on   *)
(* /userdata that fstab mounts read-only or not, and one on /mnt/sd.       *)
(***************************************************************************)
EXTENDS DiskHelper

CONSTANTS root, userdata, sd

ConstOpt == [p \in Parts |-> IF p = userdata THEN "ro" ELSE "rw"]
=============================================================================
