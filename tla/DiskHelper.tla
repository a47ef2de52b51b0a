------------------------------ MODULE DiskHelper ------------------------------
(***************************************************************************)
(* The disk helpers of a booting board: mount-helper (check, mount, resize *)
(* every partition of /etc/fstab) or resize-helper (resize the mounted     *)
(* ones), both over the functions of disk-helper.                          *)
(*                                                                         *)
(* Each partition has a process of its own (do_part LINE&).  The power may *)
(* fail between any two steps, and mkfs is two steps, because a file       *)
(* system half made is lost.  A boot starts again from what is on the      *)
(* disks; mounts, processes and the backup under /tmp are gone.            *)
(* Mount points are taken not to lie below one another.                    *)
(***************************************************************************)
EXTENDS Naturals

CONSTANTS
  Parts,        \* the partitions in /etc/fstab
  Root,         \* those mounted on / (one, or none)
  Helpers,      \* helper a board may have: "mount", "resize"
  Checked,      \* partitions with a PASS and an FSCK
  Resizable,    \* partitions with an FSRESIZE
  Formattable,  \* partitions format_part has a tool for
  Ubi,          \* UBI volumes of type ubifs
  Deep,         \* mount points that are not directly below /
  Opt,          \* "ro" or "rw" in the options of each partition
  MaxBoot,      \* bound: boots
  MaxFail       \* bound: commands that fail for no reason of the model

ASSUME DiskAssumption ==
  /\ Root \subseteq Parts /\ Checked \subseteq Parts /\ Resizable \subseteq Parts
  /\ Formattable \subseteq Parts /\ Ubi \subseteq Parts /\ Deep \subseteq Parts
  /\ Root \cap (Deep \cup Ubi) = {}
  /\ Helpers \subseteq {"mount", "resize"} /\ Helpers # {}
  /\ Opt \in [Parts -> {"ro", "rw"}]
  /\ MaxBoot \in Nat /\ MaxFail \in Nat

VARIABLES
  helper,      \* the installed helper
  auto, skip,  \* /.auto_mkfs and /.skip_fsck exist
  pc,          \* where the process of each partition is
  fs,          \* "good" or "bad": the file system can be mounted
  full,        \* it fills the partition
  data,        \* the user's files are in it
  marker,      \* it holds .resized
  under,       \* the directory below the mount point holds .resized
  mnt, was,    \* mounted "ro", "rw" or "no", now and when the helper started
  mode,        \* MOUNT_RO_RW
  backup,      \* TEMP_BACKUP: "none", "partial", "bare" or "full" (of the files)
  boots, fails

setup == <<helper, auto, skip>>
disk  == <<fs, full, data, marker, under>>
vars  == <<setup, pc, disk, mnt, was, mode, backup, boots, fails>>

Labels == {"off", "check", "mount", "mkfs", "made", "again", "resize", "grow", "mark",
           "backup", "umount", "wipe", "wiped", "restore", "drop", "mode", "done",
           "stuck"}       \* done, but the last remount failed

\* What is mounted when the helper starts: the root file system by the kernel;
\* others by systemd before resize-helper, or perhaps by hand before mount-helper.
Mounts(h, f) ==
  {w \in [Parts -> {"no", "ro", "rw"}] : \A p \in Parts :
     IF p \in Root THEN w[p] # "no"
     ELSE w[p] \in (IF f[p] = "good" THEN {Opt[p]} ELSE {"no"})
                     \cup (IF h = "mount" THEN {"no"} ELSE {})}

Init ==
  /\ helper \in Helpers /\ auto \in BOOLEAN /\ skip \in BOOLEAN
  /\ pc = [p \in Parts |-> "off"]
  /\ fs \in {f \in [Parts -> {"good", "bad"}] : \A p \in Root : f[p] = "good"}
  /\ full = [p \in Parts |-> FALSE] /\ data = [p \in Parts |-> TRUE]
  /\ marker = [p \in Parts |-> FALSE] /\ under = [p \in Parts |-> FALSE]
  /\ was \in Mounts(helper, fs) /\ mnt = was
  /\ mode = [p \in Parts |-> "rw"] /\ backup = [p \in Parts |-> "none"]
  /\ boots = 1 /\ fails = 0

-----------------------------------------------------------------------------
At(p, l) == pc[p] = l
Goto(p, l) == pc' = [pc EXCEPT ![p] = l]
Fails == fails < MaxFail /\ fails' = fails + 1
AutoMkfs == auto /\ helper = "mount"                    \* resize-helper never sets it
RootRw == \A p \in Root : mnt[p] = "rw"

IsRo_mut(p) == mnt[p]                                   \* not mounted is not rw
IsRo(p) == IF mnt[p] = "ro" THEN "ro" ELSE "rw"         \* is_ro, as a mode

\* remount_part m, whose failure only its last caller passes on
Remounts(p, m) == mnt' = [mnt EXCEPT ![p] = IF @ = "no" THEN @ ELSE m]
RemountFails(p, m) == mnt[p] \notin {"no", m} /\ Fails /\ UNCHANGED mnt
Remount(p, m) == (Remounts(p, m) /\ UNCHANGED fails) \/ RemountFails(p, m)

\* touch $MOUNT_POINT/.resized, wherever the mount point leads
Touched(p) ==
  /\ marker' = [marker EXCEPT ![p] = @ \/ mnt'[p] = "rw"]
  /\ under' = [under EXCEPT ![p] = @ \/ (mnt'[p] = "no" /\ RootRw)]

\* mkfs overwrites the partition, and then has made an empty file system.
Wipe(p) ==
  /\ fs' = [fs EXCEPT ![p] = "bad"] /\ full' = [full EXCEPT ![p] = FALSE]
  /\ data' = [data EXCEPT ![p] = FALSE] /\ marker' = [marker EXCEPT ![p] = FALSE]
  /\ UNCHANGED under
Make(p) ==
  /\ fs' = [fs EXCEPT ![p] = "good"] /\ full' = [full EXCEPT ![p] = TRUE]
  /\ UNCHANGED <<data, marker, under>>

\* mount_part succeeds or fails: back in do_part, or in format_resize.
Mounted(p) == Goto(p, IF backup[p] = "none" THEN "resize" ELSE "restore")
NotMounted(p) == Goto(p, IF backup[p] = "none" THEN "done" ELSE "drop")

-----------------------------------------------------------------------------
(* prepare_part, check_part, mount_part *)

Prepare(p) ==
  /\ At(p, "off")
  /\ helper = "resize" => mnt[p] # "no"                 \* a line of /proc/mounts
  /\ mode' = [mode EXCEPT ![p] = IsRo(p)]
  /\ Goto(p, IF helper = "mount" THEN "check" ELSE "resize")
  /\ UNCHANGED <<setup, disk, mnt, was, backup, boots, fails>>

\* There is no such device, or its file system type is not supported.
PrepareFail(p) ==
  /\ At(p, "off")
  /\ Fails
  /\ Goto(p, "done")
  /\ UNCHANGED <<setup, disk, mnt, was, mode, backup, boots>>

\* prepare_ubi fails: the volume is made anew if it may, and either way the
\* helper goes on.
PrepareUbi(p) ==
  /\ At(p, "off") /\ p \in Ubi /\ mnt[p] = "no" /\ helper = "mount"
  /\ Fails
  /\ mode' = [mode EXCEPT ![p] = "rw"]
  /\ Goto(p, "check")
  /\ IF ~AutoMkfs THEN UNCHANGED disk
     ELSE \E ok \in {"good", "bad"} :
            /\ fs' = [fs EXCEPT ![p] = ok] /\ full' = [full EXCEPT ![p] = ok = "good"]
            /\ data' = [data EXCEPT ![p] = FALSE] /\ marker' = [marker EXCEPT ![p] = FALSE]
            /\ UNCHANGED under
  /\ UNCHANGED <<setup, mnt, was, backup, boots>>

\* A checked partition is unmounted, or made read-only if it can be; fsck may
\* repair it.
Check(p) ==
  /\ At(p, "check")
  /\ Goto(p, "mount")
  /\ IF skip \/ p \notin Checked
       THEN UNCHANGED <<mnt, fs, fails>>
       ELSE /\ \/ Remount(p, "ro")
               \/ p \notin Root /\ mnt' = [mnt EXCEPT ![p] = "no"] /\ UNCHANGED fails
            /\ fs' \in {fs, [fs EXCEPT ![p] = "good"]}
  /\ UNCHANGED <<setup, full, data, marker, under, was, mode, backup, boots>>

Remembered_mut(p) == IsRo(p)                            \* also when it was mounted
Remembered(p) == mode[p]

MountIsThere(p) ==
  /\ At(p, "mount") /\ mnt[p] # "no"
  /\ mode' = [mode EXCEPT ![p] = Remembered(p)]
  /\ Mounted(p)
  /\ UNCHANGED <<setup, disk, mnt, was, backup, boots, fails>>

Mount(p) ==
  /\ \/ At(p, "mount") \/ At(p, "again")
  /\ mnt[p] = "no" /\ fs[p] = "good"
  /\ mnt' = [mnt EXCEPT ![p] = Opt[p]] /\ mode' = [mode EXCEPT ![p] = Opt[p]]
  /\ Mounted(p)
  /\ UNCHANGED <<setup, disk, was, backup, boots, fails>>

\* A failed mount is a success of mount_part, unless the partition was to be
\* formatted.
MountFail(p) ==
  /\ At(p, "mount") /\ mnt[p] = "no"
  /\ \/ fs[p] = "bad" /\ UNCHANGED fails
     \/ fs[p] = "good" /\ Fails
  /\ IF AutoMkfs THEN Goto(p, "mkfs") /\ UNCHANGED mode
             ELSE mode' = [mode EXCEPT ![p] = "rw"] /\ Mounted(p)
  /\ UNCHANGED <<setup, disk, mnt, was, backup, boots>>

MountAgainFail(p) ==
  /\ At(p, "again")
  /\ Fails
  /\ NotMounted(p)
  /\ UNCHANGED <<setup, disk, mnt, was, mode, backup, boots>>

\* format_part fails before it touches the partition: no tool, no file system.
MkfsFail(p) ==
  /\ At(p, "mkfs")
  /\ IF p \in Formattable THEN Fails ELSE UNCHANGED fails
  /\ NotMounted(p)
  /\ UNCHANGED <<setup, disk, mnt, was, mode, backup, boots>>

Mkfs(p) ==
  /\ At(p, "mkfs") /\ p \in Formattable
  /\ Wipe(p)
  /\ Goto(p, "made")
  /\ UNCHANGED <<setup, mnt, was, mode, backup, boots, fails>>

Made(p) ==
  /\ At(p, "made")
  /\ \/ Make(p) /\ Goto(p, "again") /\ UNCHANGED fails
     \/ Fails /\ NotMounted(p) /\ UNCHANGED disk
  /\ UNCHANGED <<setup, mnt, was, mode, backup, boots>>

-----------------------------------------------------------------------------
(* resize_part *)

Resize(p) ==
  /\ At(p, "resize")
  /\ IF (IF mnt[p] = "no" THEN under[p] ELSE marker[p]) \/ p \notin Resizable
       THEN Goto(p, "mode") /\ UNCHANGED <<mnt, fails>>
       ELSE Goto(p, "grow") /\ Remount(p, "rw")
  /\ UNCHANGED <<setup, disk, was, mode, backup, boots>>

\* eval $FSRESIZE; whether it works depends on the tool and the size.
Grow(p) ==
  /\ At(p, "grow")
  /\ \/ fs[p] = "good" /\ full' = [full EXCEPT ![p] = TRUE] /\ Goto(p, "mark")
     \/ Goto(p, IF p \in Root THEN "mode" ELSE "backup") /\ UNCHANGED full
  /\ UNCHANGED <<setup, fs, data, marker, under, mnt, was, mode, backup, boots, fails>>

Mark(p) ==
  /\ At(p, "mark")
  /\ Goto(p, "mode")
  /\ UNCHANGED mnt
  /\ Touched(p)
  /\ UNCHANGED <<setup, fs, full, data, was, mode, backup, boots, fails>>

Backup_mut(p) ==                                        \* cp, without || return 1
  /\ At(p, "backup")
  /\ \/ /\ backup' = [backup EXCEPT ![p] = IF data[p] /\ mnt[p] # "no" THEN "full" ELSE "bare"]
        /\ Goto(p, "umount") /\ UNCHANGED fails
     \/ /\ Fails
        /\ backup' = [backup EXCEPT ![p] = "partial"]
        /\ Goto(p, "umount")
  /\ UNCHANGED <<setup, disk, mnt, was, mode, boots>>

\* cp -a "$SRC" "$BACKUP/"
Backup(p) ==
  /\ At(p, "backup")
  /\ \/ /\ backup' = [backup EXCEPT ![p] = IF data[p] /\ mnt[p] # "no" THEN "full" ELSE "bare"]
        /\ Goto(p, "umount") /\ UNCHANGED fails
     \/ /\ Fails
        /\ backup' = [backup EXCEPT ![p] = "partial"]
        /\ Goto(p, "drop")
  /\ UNCHANGED <<setup, disk, mnt, was, mode, boots>>

\* umount "$SRC", which fails when it is busy, and when it is not mounted
Umount(p) ==
  /\ At(p, "umount")
  /\ \/ mnt[p] # "no" /\ Goto(p, "wipe") /\ mnt' = [mnt EXCEPT ![p] = "no"] /\ UNCHANGED fails
     \/ mnt[p] # "no" /\ Fails /\ Goto(p, "drop") /\ UNCHANGED mnt
     \/ mnt[p] = "no" /\ Goto(p, "drop") /\ UNCHANGED <<mnt, fails>>
  /\ UNCHANGED <<setup, disk, was, mode, backup, boots>>

FormatFail(p) ==
  /\ At(p, "wipe")
  /\ IF p \in Formattable THEN Fails ELSE UNCHANGED fails
  /\ Goto(p, "drop")
  /\ UNCHANGED <<setup, disk, mnt, was, mode, backup, boots>>

Format(p) ==
  /\ At(p, "wipe") /\ p \in Formattable
  /\ Wipe(p)
  /\ Goto(p, "wiped")
  /\ UNCHANGED <<setup, mnt, was, mode, backup, boots, fails>>

Formatted(p) ==
  /\ At(p, "wiped")
  /\ \/ Make(p) /\ Goto(p, "mount") /\ UNCHANGED fails
     \/ Fails /\ Goto(p, "drop") /\ UNCHANGED disk
  /\ UNCHANGED <<setup, mnt, was, mode, backup, boots>>

\* remount_part rw; cp -a "$BACKUP/$SRC" $(dirname "$SRC"): the backup is in
\* $BACKUP/$(basename "$SRC"), which is $BACKUP/$SRC only just below /.  A copy to
\* a partition that could not be remounted fails.
Restore(p) ==
  /\ At(p, "restore")
  /\ Goto(p, "drop")
  /\ \/ /\ p \notin Deep
        /\ Remounts(p, "rw")
        /\ data' = [data EXCEPT ![p] = @ \/ (mnt[p] # "no" /\ backup[p] = "full")]
        /\ Touched(p)
        /\ UNCHANGED fails
     \/ p \in Deep /\ Remounts(p, "rw") /\ UNCHANGED <<data, marker, under, fails>>
     \/ p \notin Deep /\ Remounts(p, "rw") /\ Fails /\ UNCHANGED <<data, marker, under>>
     \/ RemountFails(p, "rw") /\ UNCHANGED <<data, marker, under>>
  /\ UNCHANGED <<setup, fs, full, was, mode, backup, boots>>

Drop_mut(p) ==                                          \* if format_resize forgotten
  /\ At(p, "drop")
  /\ backup' = [backup EXCEPT ![p] = "none"]
  /\ Goto(p, "mode")
  /\ UNCHANGED mnt /\ Touched(p)
  /\ UNCHANGED <<setup, fs, full, data, was, mode, boots, fails>>

\* rm -rf $TEMP_BACKUP, whatever became of format_resize
Drop(p) ==
  /\ At(p, "drop")
  /\ backup' = [backup EXCEPT ![p] = "none"]
  /\ Goto(p, "mode")
  /\ UNCHANGED <<setup, disk, mnt, was, mode, boots, fails>>

\* remount_part $MOUNT_RO_RW; resize-helper passes a variable nobody sets, so
\* mount takes the options of /etc/fstab.
SetMode(p) ==
  /\ At(p, "mode")
  /\ LET m == IF helper = "mount" THEN mode[p] ELSE Opt[p]
     IN  \/ Remounts(p, m) /\ Goto(p, "done") /\ UNCHANGED fails
         \/ RemountFails(p, m) /\ Goto(p, "stuck")
  /\ UNCHANGED <<setup, disk, was, mode, backup, boots>>

\* The power fails or the board is rebooted.
Boot ==
  /\ boots < MaxBoot /\ boots' = boots + 1
  /\ pc' = [p \in Parts |-> "off"]
  /\ was' \in Mounts(helper, fs) /\ mnt' = was'
  /\ mode' = [p \in Parts |-> "rw"] /\ backup' = [p \in Parts |-> "none"]
  /\ UNCHANGED <<setup, disk, fails>>

do_part(p) ==
  \/ Prepare(p) \/ PrepareFail(p) \/ PrepareUbi(p) \/ Check(p)
  \/ MountIsThere(p) \/ Mount(p) \/ MountFail(p) \/ MountAgainFail(p)
  \/ MkfsFail(p) \/ Mkfs(p) \/ Made(p)
  \/ Resize(p) \/ Grow(p) \/ Mark(p) \/ Backup(p) \/ Umount(p)
  \/ FormatFail(p) \/ Format(p) \/ Formatted(p) \/ Restore(p) \/ Drop(p) \/ SetMode(p)

Next == Boot \/ \E p \in Parts : do_part(p)

Spec == Init /\ [][Next]_vars

-----------------------------------------------------------------------------
TypeOK ==
  /\ helper \in {"mount", "resize"} /\ auto \in BOOLEAN /\ skip \in BOOLEAN
  /\ pc \in [Parts -> Labels]
  /\ fs \in [Parts -> {"good", "bad"}] /\ full \in [Parts -> BOOLEAN]
  /\ data \in [Parts -> BOOLEAN]
  /\ marker \in [Parts -> BOOLEAN] /\ under \in [Parts -> BOOLEAN]
  /\ mnt \in [Parts -> {"no", "ro", "rw"}] /\ was \in [Parts -> {"no", "ro", "rw"}]
  /\ mode \in [Parts -> {"ro", "rw"}]
  /\ backup \in [Parts -> {"none", "partial", "bare", "full"}]
  /\ boots \in Nat /\ fails \in 0..MaxFail

\* A file system that says it was resized (.resized) fills its partition: over
\* crashes, failures and both ways to resize, no partition is left small for good.
MarkerMeansFull == \A p \in Parts : marker[p] => full[p]

\* Unless /.auto_mkfs asks for it, the user's files never leave a partition
\* before a complete copy exists (format_resize, "Backup original data").
WipedWithCopy ==
  [][\A p \in Parts : data[p] /\ ~data'[p] => AutoMkfs \/ backup[p] = "full"]_vars

\* The mode the helper leaves a partition in: the one it has, or the one the last
\* remount asked for, when that fails.
Over(p) == pc[p] \in {"done", "stuck"}
LeftIn(p) == IF At(p, "stuck") THEN mode[p] ELSE mnt[p]

\* "Restore ro/rw" (mount-helper:44): the helper leaves a root file system as it
\* found it, and nothing writable that neither was nor is meant to be, whichever
\* commands fail on the way; only when the last remount itself fails may the
\* partition be in another mode, and it was asked for the right one.
RoRwRestored ==
  helper = "mount" =>
    \A p \in Parts : Over(p) =>
      /\ p \in Root => LeftIn(p) = was[p]
      /\ LeftIn(p) = "rw" => "rw" \in {was[p], Opt[p]}

\* "Restore backup data" (disk-helper:269): without /.auto_mkfs, the files of a
\* partition are still in it when the helper is done with it.
FilesSurvive == \A p \in Parts : Over(p) /\ ~AutoMkfs => data[p]
=============================================================================
