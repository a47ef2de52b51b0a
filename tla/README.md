# TLA+ models of the Unihiker M10 BSP

The repository is a board support package: a build system (Rockchip's SDK scripts under
`device/rockchip/common`), the root file system it produces (`debian/`, and the overlays under
`device/rockchip/common/overlays/rootfs`), and vendored tools. Its own logic is shell script; the C
code the build depends on is kconfig, which keeps the configuration every stage of the build reads.

Two halves are modelled. On the board, what can go wrong concerns processes that run at the same time,
udev events that arrive at any moment, files under `/var/run` that are the memory of a script between two
invocations, and power that fails at boot. In the build, it concerns the configuration: conditions that
are rewritten, values that are cached, files that are written in several steps, and what a user of
menuconfig sees and does.

Paths below are relative to `src/`; `rootfs/` stands for `device/rockchip/common/overlays/rootfs/`,
`scripts/` for `device/rockchip/common/scripts/`, `kconfig/` for `device/rockchip/common/kconfig/`.

## 1. The system

| Component | State it keeps | Operations | Interacts with |
|---|---|---|---|
| `rootfs/usb-gadget/usr/bin/usbdevice`, its service, init script and udev rule | `/var/run/.usb*` (functions started, configured, daemons, lock), the configfs gadget | start, update, stop, restart | udev (every UDC or USB state event asks for an update), systemd or init, the daemon loops it forks, functionfs daemons, the kernel |
| `rootfs/disk-helpers`: `mount-helper`, `resize-helper` over `disk-helper` | file systems, `.resized`, `/.auto_mkfs`, `/.skip_fsck`, mounts | check, mount, format, resize every partition, one process each | `/etc/fstab`, mkfs, fsck and resize tools, the power |
| `scripts/partition-helper`, `mk-partitions.sh` | CMDLINE of the parameter file, the cached `$PART_TABLE` | parse, look up, edit, save | `build.sh`, the editor, every stage that asks for a size or an offset |
| `scripts/build.sh`, `build-helper`, `mk-all.sh` | `.config`, output directories, log of the session | init, pre-build, build and post-build hooks | all `mk-*`, `check-*`, `post-*` scripts |
| `kconfig/`: `expr.c`, `menu.c`, `zconf.y`, `symbol.c` | the tree of a Kconfig, its symbols with their values and caches | parse and finish the tree, calculate, set, show | all programs of kconfig |
| `kconfig/confdata.c`, `conf.c` | `.config`, `auto.conf`, the header, the dependency files | every target: ask, update, save, minimal, random, sync | `build.sh`, Kbuild rules, an earlier run that was killed |
| `kconfig/mconf.c`, `lxdialog/` | loops of menus and boxes over the tree, the file to save to | every key, search, load, save, resize, SIGINT, exit | the terminal, the files |
| `scripts/post-*.sh`, `post-helper` | the root file system being built | edits of fstab, hostname, overlays, modules | the disk helpers at boot (fstab) |
| `rootfs/input-event-daemon/usr/bin/power-key.sh` | a PID file, a lock file, the time stamp of `/sys/power/state` | press, release, short press, long press | input-event-daemon, suspend, power-off |
| `rootfs/log-guardian` | a PID file, the log directories | make room by deleting, rotating, truncating | every program that logs |
| `rootfs/bootanim` | a PID file, two freeze files | start, stop, timeout | the display server, hooks |
| `debian/overlay` services (`rockchip.sh`, `resize-disk.sh`, ...) | flags of the first boot | first-boot configuration, reboot | the disk helpers |
| `debian/*.sh` | a chroot and its mounts | build the Debian root file system | `build.sh` |

Fstrim, async-commit, generate-logs, irqbalance and chromium are single commands or loops around one.
linux-kbuild, avbtool, toolchains, `tools/` and the binaries are third-party; kernel, u-boot
and rkbin are submodules whose sources are not in the repository. The Unihiker image of the repository
replaces the gadget script by a fixed RNDIS service (`rootfs/usb-gadget/install.sh` lines 19-25); the
script itself is kept, and it is what any other root file system of this SDK installs.

What is hard, and what makes each part correct:

- **usbdevice**: requests overlap; the lock file is removed by a request that holds it; daemon loops
  outlive the request that started them and read files the next request removes; USB state is read
  first and acted on later; a gadget must never be composed of two configurations; a late UDC or a
  cable change must not leave the board without its gadget.
- **disk helpers**: power may fail between mkfs and the end of a restore; a helper may fail at any
  command; partitions are handled concurrently; files must not be wiped unless a copy exists or the
  user asked for it; `.resized` must be true; ro/rw states must come back.
- **partition table**: the table is edited as text, offsets are recomputed as sums; the CMDLINE that
  is flashed, and what the build looks up, must agree.
- **kconfig's tree**: conditions keep their meaning through propagation, rewriting and simplification;
  no entry is lost when submenus are made; a recursive dependency is found.
- **kconfig's values**: a cached value is the calculated one; what is saved reads back into the same
  values and obeys the Kconfig; new symbols are asked for until none is left; a kill loses neither the
  configuration nor a change the build must see.
- **menuconfig**: a key acts on what the screen shows; everything visible can be reached; nothing is
  lost without a question; ESC leads out.

## 2. Modules

| Module | What it is | Code |
|---|---|---|
| `UsbLock` | abstract: touch, open, flock and unlink of the lock file | `usbdevice` 772, 784-787, 833 |
| `UsbExposure` | abstract: what the script promises the host, and its own next run | `usb_start`, `usb_stop` as a whole |
| `UsbDevice` | the script, its loops, service, udev rule and kernel | `usbdevice`, `usbdevice.service`, `S50usbdevice.sh`, `61-usbdevice.rules` |
| `MCUsbDevice` | instances of it for TLC | |
| `DiskHelper`, `MCDiskHelper` | the helpers at boot; instances of it | `disk-helper`, `mount-helper`, `resize-helper` |
| `PartitionTable` | the table, its edit and its lookups | `partition-helper`, `mk-partitions.sh` |
| `KOperand` | expressions: making them, what a leaf is worth, rewriting an operand, joining two | `kconfig/expr.c` |
| `KExpr` | expressions: what recurses over trees: evaluating, simplifying, printing | `kconfig/expr.c` |
| `KMenu` | the tree: what the grammar's actions do to it, `menu_finalize`, `sym_check_deps` | `menu.c`, `zconf.y`, `symbol.c` 1090-1344 |
| `KParse`, `MCKParse` | the parser: a Kconfig as a sequence of statements | `zconf.y` |
| `KSymbol` | visibility, calculation, the cache, setting values | `symbol.c`, `menu.c` 625-698 |
| `KConfData` | reading and writing configurations | `confdata.c` |
| `ConfFiles` | abstract: the files conf leaves, whatever they say and wherever a run ends, and the build | `conf_write`, `conf_write_autoconf`, `conf_split_config` as a whole |
| `KConf`, `MCKConf` | the program conf, its files, its user, kills, the build | `conf.c`, `confdata.c` |
| `LxDialog` | what a key or a resize does to a box | `lxdialog/*.c` |
| `Dialogs` | abstract: the screen, any boxes one after the other, with their keys and resizes | `lxdialog/*.c`, `mconf.c` |
| `KMconf`, `MCKMconf` | the program mconf | `mconf.c`, `menu.c` 700-879 |
| `MCKconfig` | Kconfigs of the instances, as sequences of statements | |
| `UsbLock_proofs`, `UsbDevice_proofs`, `UsbSerial_proofs`, `DiskHelper_proofs`, `PartitionTable_proofs`, `LxDialog_proofs`, `KOperand_proofs`, `ConfFiles_proofs` | theorems | |

`KParse` extends `KMenu` (which extends `KExpr`, which extends
`KOperand`); `KConf` and `KMconf` extend `KConfData`, which extends `KSymbol` and with it `KMenu`: the two programs work on the same operators, and an operator takes
and returns the symbols in memory as a record where the C functions work on globals.

### UsbDevice

A *request* is an invocation of the script. The statements of the script between two points that
another process can distinguish are one action; the action's name is the stage (`Gate`, `Probe`,
`Dispatch`, `StopUnbind` ... `StartDone`). Its shell variables are per request (`want` is
`USB_FUNCS`, `old` is `OLD_FUNCS`, `seen` is `USB_STATE`); files under `/var/run` are shared (`funcs`
is `.usb_funcs`, where an empty file is `{}` and a missing one `NoFile`; `conf` is `.usb_configured`;
`dfiles` are the `.usb_daemon_*`; `tag` is the file of `S50usbdevice.sh`; `path` is the inode the lock
file names). The kernel's side is `gadget`, `fdirs`, `items` (the directories with items of their own,
which `uvc_prepare` makes for the instances in `Filled` and nothing removes: `rmdir` is refused there),
`links`, `attr` (the UDC attribute), `exposed` (what a host can see), `udc` and `host`. Binding and
unbinding raise a udev event, as the kernel does. `sp` are the background loops of `usb_start_daemon`,
identified by instance, by who started them (systemd kills only its own) and a slot, `up` the daemon
processes, `dying` those that were told to end: `Kill` only signals (`usbdevice` 297), and the process
ends later (`DaemonEnds`) or crashes unasked (`DaemonCrash`). systemd signals what is left of a failed
service (`ServiceKill`) and waits for it (`ServiceSweep`).

Functions are represented by their instances; loops over instances visit them in any order. The
mass storage function is an instance without a daemon. Polling (`usb_wait_access`, the half second
sleeps) is waiting for a condition; giving up is an action with a bound, or one that happens when
nothing is left that could satisfy the condition. udev events that arrive while one waits are one.

### DiskHelper

One process per partition, `pc[p]` its place in `do_part`. Tools are data: `Checked`, `Resizable`,
`Formattable`, `Ubi`, `Deep` say what applies to which partition, and `Opt` the mode in fstab. mkfs is two
steps, because power may fail between. `data[p]` says that the user's files are there, `backup[p]`
what `TEMP_BACKUP` holds (`bare` is a complete copy of something that is not the user's files), `marker[p]` that the
file system has `.resized`, `under[p]` that the directory below the mount point has it. Every
`mount -o remount` may fail (`Remount`): `check_part` and `resize_part` go on, a restore copies nothing, and when
the last one fails the process ends at `stuck`. `Boot` is a
reboot or a power failure: mounts, processes and the backup are gone. TEMP_BACKUP comes from `mktemp -d`;
on boards whose /tmp is on disk its leftovers survive, but nothing ever reads them again.

### PartitionTable

`param` is CMDLINE, `table` is `$PART_TABLE` with its hidden first line (the space before the first
partition), `edited` what the editor left. The loop of `rk_partition_to_cmdline` is one action per
line, because the loop can stop in the middle: `CmdlineUnlimited` is the shell error of `$(( - ))`, which
ends the loop while the pipeline's status is that of its last command. An edit changes, deletes or adds
one line at a time; edits may follow one another.

### The tree of a Kconfig: KOperand, KExpr, KMenu, KParse

A Kconfig is the sequence of statements the lexer yields; each is an action of `KParse`, and the last
one finishes the tree and checks for recursive dependencies. `node`, `prop`, `up` and `kids` are the menus
(`struct menu`), the properties and their pointers; `dir`, `rev`, `imp` the dependencies of a symbol.
An expression is a tree of records. `raw` remembers the tree before `menu_finalize`, as what the
finished one is compared with. Sharing of subtrees in memory is not modelled. `KOperand` holds every
definition on expressions that is not recursive, so that it can be proved about; `Environment` says which
values symbols can have, and `TypeOK` of `KParse` that the environments it evaluates in are of this kind.

### The values of symbols: KSymbol, KConfData

`d` is `struct symbol` for all symbols: `tri` and `val` are `curr`, `utri`, `uval`, `usel` and `user` what
the user set (`SYMBOL_DEF_USER`), `valid` and `write` the flags, `changed` that `sym_change_count` is not
zero. Values are calculated one by one, as the C code does, because calculating has effects on other
symbols. A number is an integer or `Empty`; hex numbers are numbers. A line of a configuration is a
symbol and its value.

### KConf

`work` is what the program has still to do: a stack of tasks, pushed where the C code recurses or has
statements left. Questions are answered by `Answer` with any answer; a file can fail to be written
(`Fails`), and `Kill` may come at any task; `Edit` changes the Kconfig before a run; `Build` reads
`auto.conf` and the touched files. `files` maps the names of the files that exist to their lines.

What a run does to its files is also stated without the tasks, in `ConfFiles`. `KConf` renames and creates
files by its operators, and gives it three things: the step the next task is, the dependency files the
stack still has to touch, and the lines about to become `auto.conf`. Every step of `KConf` is then a step of
`ConfFiles` or changes no file (`FilesSpec`).

### LxDialog, Dialogs and KMconf

A box is a record, and a key an operator that gives the box it leaves. `Menu` remembers which item is
printed on which row, apart from which item a key would act on; `Text` counts lines where the code counts
newlines back from a pointer. `KMconf`'s `stack` holds the loops of `conf()`, `conf_choice()`,
`conf_string()` and so on that have not returned, the innermost first, and `dlg` the box on the
screen. `Dialogs` holds what `mconf` shows apart from why: a box of any contents opens where the code
opens one (`Opening`), a key changes it (`Key`), a resize draws it again (`Redraw`), and it returns
(`Return`). `KMconf` uses its definitions and implements its `ScreenSpec`, which TLC checks; the theorems
on boxes are about `ScreenSpec`. Without a box the innermost loop goes on to open its next one; keys that change the box only
are `Move`, those that return from a dialog function `Act` or `Escape`. A resize or a SIGINT may come at
any box. `adrift` is a history variable: edits or write flags were dropped without being saved (see the
known deviations).

## 3. Runs

Every run finishes in seconds to about three minutes with two workers. Every bound is a
constant named in its cfg.

| Run | What it checks | Bounds, and why they are enough |
|---|---|---|
| `usb_safety` | `TypeOK`, `RecordedIsLinked`, `DaemonHasLoop`, `KeepsExposure`, `StopIsClean` under `S50usbdevice.sh` | one request at a time, one environment event of any kind at any moment, four instances: with functionfs, with a daemon nobody waits for and items of its own, without a daemon, not supported by the kernel; two configurations that share an instance. Daemons end any time after they were told to (`EndInTime` is FALSE here and in the other runs but `usb_live`). One event suffices to interrupt every stage of a request; the UDC is late as well |
| `usb_overlap` | `LockProtocol`: the script implements `UsbLock` | two requests, three inodes (one per descriptor and one for the path), one failing stage |
| `usb_live` | `Settles`, under systemd | two requests that may overlap, so that the update a bind triggers runs beside the restart that bound; one functionfs instance; a UDC that comes at any moment after the boot, one pull of the cable at any moment, one restart of the service, no failing stage, no request by hand, and `EndInTime` (see Fairness) |
| `usb_lock` (violation) | `MutualExclusion` | see findings |
| `usb_retry` (violation) | `RetriesUntilUp` | see findings |
| `disk_boot` | `TypeOK`, `MarkerMeansFull`, `RoRwRestored`, `WipedWithCopy` | a root file system and a data partition in parallel, either helper, two boots (so one power failure anywhere and a complete boot after it), two unexpected failures (so that a remount may fail after another command did) |
| `disk_restore` (violation) | `FilesSurvive` | one partition, no failure |
| `part_edit` | `TypeOK`, `Contiguous`, `LookupsAgree`, `EditIsSaved` | two names, two sizes, four lines: a duplicate name, a partition that grows in the middle, a deleted one, and an insertion at every place all occur. Any number of edits |
| `part_unlimited` (violation) | `UnlimitedIsKept` | the same |
| `kparse` | `TypeOK`, `KeepsMeaning`, `SelectsGathered`, `SourceOrder`, `SubmenuReached`, `CycleReported`, `PrintsBack` | Kconfigs of up to four entries over a tristate, two bool symbols and a choice, with holes that take every expression of up to three operands: every rule that joins, turns or drops operands applies somewhere, and entries fall below one another in every way |
| `kconf` | `TypeOK`, `SavedReadsBack`, `SavedObeys`, `NewAsked`, `CacheIsFresh`, `MinimalIsEnough`, `DependentsRebuilt`, `FilesSpec` (conf implements `ConfFiles`), `AcceptedIsSet`, `RunEnds` | three versions of a Kconfig (modules, choices, a select, an imply, ranges), all targets, all answers, a failure or a kill at every step; one run, on five states of the disk that earlier runs of any version, killed ones too, or an editor may have left |
| `kmconf` | `TypeOK`, `ShownIsActedOn`, `PageStays`, `EntriesReachable`, `JumpLands`, `CleanIsSaved`, `ScreenSpec` (mconf implements `Dialogs`), `EscapeLeaves` | five starts: a Kconfig with every kind of entry, to walk in (19 lines: a menu of five rows, so that menus scroll; 21 lines in single menu mode, where a choice fits), and three small ones to change, search, load, save and resize in; `work` bounds these (one, or two where a save is followed by another), keys are not bounded |

Deadlock is checked where the system never stops (`part_edit`, `part_unlimited`); the USB and disk
runs end, as the code does, when no request and no event is left, or when the last boot is over, and the
kconfig runs when the Kconfig is read, no run is left, or the program has returned.

Every property of a passing run has a mutant: a definition changed as a plausible bug in the code
would change it (`<Name>_mut` stands above `<Name>`), under which TLC finds the property violated.

### Fairness

`Settles` and `RetriesUntilUp` are checked under `FairSpec`. Each process that can continue does
(weak fairness per request, per loop); a daemon that is told to end does; udev delivers events; systemd cleans up and restarts a failed
service (`Restart=on-failure`) within its start limit, and `S50usbdevice.sh` goes on with its loop. The UDC driver is probed in the
end, and a connected host configures a gadget it sees and notices one that leaves: both are
assumptions about the world, and `Settles` says nothing without them. No fairness is assumed for
failures, crashes, the cable or the user. `RunEnds` needs conf to go on and its questions to be
answered: a user who leaves a question alone leaves conf waiting. `EscapeLeaves` states its own
condition: from some moment on someone presses only ESC (and No at the end), and goes on doing so.

`Settles` has one way out, and two conditions. The way out: the UDC comes so late that systemd has given
up. The first condition is a timing assumption, `EndInTime`: a daemon that was told to end is gone before
`usb_wait_access` looks for its successor. adbd ends on the signal at once, and the update that sent it has
to go through `usb_mount` and `fuser` first, but nothing in the code waits for it, and without the
assumption `Settles` is false. The second: nobody requests anything by hand. Both are constants of the cfg (`EndInTime`, `EnvKinds`),
and what happens without them is under the known deviations.

### Findings

- `usb_lock`: `rm -f $TMP_DIR/.usb*` in `usb_stop` removes the lock file under its own lock; the update a
  restart triggers by its own bind enters beside it.
- `usb_retry`: the same `rm` removes the tag file of `S50usbdevice.sh`, so its retry loop ends after the
  first failure.
- `disk_restore`: a format-resize of a mount point that is not directly below `/` looks for its backup at
  the wrong path, and the backup is then deleted.
- `part_unlimited`: a size written as `0` is not "unlimited" but ends CMDLINE before that partition,
  with status 0.

### Known deviations without a run

Met while modelling; each is in the model, and none of the passing properties claims the opposite.

- "Don't spawn after stopped" (`usbdevice` 283-285): the check and the start are two steps, and a stop
  between them is followed by a start (`LoopCheck`, `LoopStart`).
- A refused write to UDC (722) does not end the stage, because `eval $f || return 1` switches `set -e`
  off; the functions are recorded as started although nothing is bound (`StartBind`, `StartDone`).
- After a start stage fails, links, daemons and binding stay and the record does not; the next request
  sees an empty `OLD_FUNCS` and stops nothing (`StartFail`, `PrepFail`). Therefore `KeepsExposure` and
  `RecordedIsLinked` are checked without failing stages and without overlap.
- Two instances of one function share a binary; the loop of the second waits for the process of the
  first (`LoopStart`, `Exec`).
- A daemon that was told to end satisfies `usb_wait_access` until it ends (`fuser`, 211). When it ends
  before the bind, the write to UDC is refused, nothing looks at that, the functions are recorded, and no
  event follows: the gadget stays unbound. When it ends after the bind, and the host was fast enough to
  configure the gadget, the update that follows reads DISCONNECTED while `.usb_configured` is there and
  signals the new daemon in turn: this can repeat (TLC finds such behaviours with `EndInTime = FALSE` in `usb_live`).
- A restart by hand that fails in `usb_prepare`, because the UDC is not there yet, stops the gadget (804)
  under a lock file that the service's own restart has removed meanwhile: its last `rm` disables what the
  service has just started, the service counts as up, and nothing enables it again (TLC finds it with
  `EnvKinds = {"user"}` in `usb_live`). This is what `usb_lock` leads to.
- `functions/uvc.0` outlives every stop (766-767), with the items `uvc_prepare` made: `rmdir` is refused
  and `|| true` hides it. `StopIsClean` therefore excepts directories with items of their own.
- After the init stage failed (646) the gadget directory exists, and no later request initialises it
  (`InitFail`).
- The last remount of `do_part` (`mount-helper` 45) may fail; the partition then stays in the mode it has,
  and nobody looks at the status. `RoRwRestored` says of that case (`stuck`) that the mode asked for was right.
- `resize-helper` 41 restores `$MOUNTED_RO_RW`, which nothing sets; `remount_part` then takes the
  options of fstab (`SetMode`).
- `mount_part` returns success for a mount that failed (`MountFail`), and the resize that follows works
  on an unmounted device.

- kconfig, the tree: `sym_check_deps` returns no symbol to the one where the cycle starts, so `conf_parse` never
  counts it as an error (the message is printed, which is what `CycleReported` says); the conditions of
  `imply` are not searched. `expr_trans_compare` is not exact for a negation over tristates.
- kconfig, the values: setting a string to what is remembered already sets its user flag without clearing
  what was calculated (`symbol.c` 676-723); a tristate choice loses its user value while it is calculated;
  the reset of a number out of range clears one symbol only (`confdata.c` 447-470). `AcceptedIsSet` and
  `CacheIsFresh` name these exceptions. Looking at visibility sets user flags (`menu_is_visible`).
- `conf_write`: between its two renames only `.config.old` exists (`ConfigSurvives` counts it), and whether
  the first one worked is not looked at (`backup`). What the disk refuses while a file is written (a full
  disk) is not noticed either, and not modelled. A `.config` that is empty replaces a complete
  `.config.old`: conf never leaves one, so `FilesSpec` starts without.
- mconf, `adrift`: loading a file that does not exist clears the change count first (`mconf.c` 918,
  `confdata.c` 407), so the exit no longer asks; a SIGINT at the message of a save, or a save after one
  whose last rename failed, writes a configuration without the symbols that were written already, because
  their flags are spent (`confdata.c` 789-807, 836-838).
- mconf on small terminals: `conf_string`, `conf_load` and `conf_save` repeat a box that does not fit for
  ever (`Hung`); a question at the exit that does not fit means No; a choice needs 21 lines and cannot be
  changed, without a message, on 19 or 20.
- mconf after a resize: the rows of a menu may show other items than the keys act on, and a menu scrolled
  before the terminal was enlarged may print an item that does not exist (`menubox.c` 241-266, `MenuCrashes`;
  hence `redrawn` in `ShownIsActedOn`). A resized text goes back too far, by the borders of its box.
- mconf, the search: a result inside a choice leads to the choice's menu, which does not list it; entries of
  the main menu have no key.

## 4. Proofs

The theorems hold for every value of the constants that satisfies the named assumptions: any number of
requests, instances, configurations, partitions, failures, boots, lines and sizes. Each specification
has assumptions that only say what kind of thing a constant is.

| Theorem | Statement | Argument |
|---|---|---|
| `UsbLock_proofs!InodeExclusionThm` | requests inside hold distinct inodes | inductive by itself: one request moves and the others wait (`OthersWait`); `Flock` is the only way in, has the guard, and nothing changes a descriptor inside (`WayIn`) |
| `UsbLock_proofs!MutualExclusionThm` | without an unlink at most one request is inside | strengthened by: a request past the open has the inode that the path names, which no line then changes (`FileStays`). That is what `usb_stop` breaks |
| `UsbDevice_proofs!TypeCorrect` | `TypeOK` of the whole USB system | inductive; one step per action. It contains that nothing unsupported is ever linked |
| `UsbDevice_proofs!ImplementsLock` | `Spec => LockProtocol` | refinement: the mapped `lpc` is `in` from `flock` to the end of the script; `Request`, `Open`, `Flock`, `StopFiles`, `End` are the protocol's steps and all others stutter |
| `UsbDevice_proofs!InsideInodesDiffer` | two requests inside hold distinct inodes | `ImplementsLock` and `InodeExclusionThm` of the instance |
| `UsbSerial_proofs!RecordedIsLinkedThm`, `DaemonHasLoopThm` | `Spec /\ []Undisturbed => []RecordedIsLinked`, the same for `DaemonHasLoop` | by `SerialInv`: for each stage of a request, which of the files, links, directories and loops it has already made agree with the functions it wants, and for the time between requests that all of them agree. Each stage needs what the stage before left |
| `UsbSerial_proofs!KeepsExposureThm` | `Spec /\ []Undisturbed => KeepsExposure` | refinement of `UsbExposure`: from `SerialInv`, only `StartBind` makes something appear, with the links of one configuration complete and nothing exposed before; what is recorded changes at `StopFiles` and `StartDone` |
| `UsbSerial_proofs!StopIsCleanThm` | `Spec /\ []Serial => StopIsClean` | from what each stage of a stop removed, and from `items`: what `rmdir` leaves is a functionfs directory or has items of its own; it needs no request beside it, and holds whatever fails |
| `UsbSerial_proofs!OneRequestIsUndisturbed` | `Spec => []Undisturbed` with one requester and `MaxFail = 0` | from `TypeOK`: the hypothesis holds of the instance that `usb_safety` checks, for any other constants |
| `DiskHelper_proofs!TypeCorrect` | `TypeOK` | inductive |
| `DiskHelper_proofs!MarkerTrue` | `MarkerMeansFull` | strengthened by: wherever `.resized` may be written next (after a resize that worked, at a restore), the file system is full |
| `DiskHelper_proofs!WipedWithCopyThm` | `WipedWithCopy` | strengthened by: between the backup and the mkfs, the backup is complete for files that are still there; mkfs of `mount_part` without a backup runs only with `/.auto_mkfs` |
| `DiskHelper_proofs!RoRwRestoredThm` | `RoRwRestored` | strengthened by: from `prepare_part` on, the saved mode of the root file system is the one it had, and that of another is the one it had or fstab's, whichever remounts fail on the way; at `done` the partition has that mode, at `stuck` it was asked for it |
| `PartitionTable_proofs!TypeCorrect` | `TypeOK` | from the invariant below: a table has its hidden line first and nowhere else |
| `PartitionTable_proofs!ContiguousThm` | `Contiguous` | strengthened by: in the loop, `OFFSET` is where the partition printed last ends, something is printed as soon as the first partition was read, and the CMDLINE begins with a partition of a given size (so that it can be parsed again) |
| `PartitionTable_proofs!EditIsSavedThm` | `EditIsSaved` | strengthened by: what was printed up to a line are the lines before it, the hidden one left out, and the first offset is the hidden line's size; a table that is not `Faithful` may end the loop early |
| `PartitionTable_proofs!LookupsAgreeThm` | `LookupsAgree` | from `Contiguous`: the sum of the sizes before a line is the offset of its partition, by induction over the lines |
| `LxDialog_proofs!MenuOpensSound`, `MenuKeysSound` | whatever position was saved, the rows of a menu show the items the keys act on, and every key keeps it so | by cases of the key; scrolling shifts the rows, and those that come up, the old and the new choice are printed |
| `ListOpensSound`, `ListKeysSound` | the choice of a list is on the screen | by cases of the key |
| `InputOpensSound`, `InputKeysSound` | the cursor stands where the next key acts | the position stays the sum of the first character shown and the column; lengths of the pieces of the text by the library's facts on sequences |
| `TextOpensSound`, `TextKeysSound`, `TextResizesSound` | going back by the lines displayed leads to the first of them | strengthened by the typing of the page and by: the end is known exactly if a line was read beyond the last |
| `SidewaysStays`, `ReopenedStays` | a page stays when it is shifted, and when it is opened again where it was left | from the theorems above: printing starts where going back leads |
| `LxDialog_proofs!ShownIsActedOnThm`, `PageStaysThm` | `ScreenSpec => []ShownIsActedOn`, the same for `PageStays` | by `ScreenInv`: besides soundness, the typing of the box, that a menu that was not redrawn has the height its terminal gives it, and that a text that was opened closed stays so. One step per kind of box, from the theorems above |
| `LxDialog_proofs!ShiftKeepsPageThm` | `ScreenSpec => ShiftKeepsPage` (no run checks it) | from `ScreenInv` and `SidewaysStays`; keys other than the shifts leave `hscroll`, and no other step turns a text into a text but a resize, which leaves it too |
| `KOperand_proofs!TransformKeepsValue`, `OppositeNegates`, `BoolOperandAgrees` | what `expr_transform` and `expr_trans_bool` make of a leaf has its value (for `expr_trans_bool`, is n in the same environments) | a comparison of a bool or tristate with a constant compares their values (`ComparedWithConst`), though the code compares strings |
| `KOperand_proofs!JoinOrKeepsValue`, `JoinAndKeepsValue` | two operands that join have the value of the join | by the cases of `expr_join_or`, `expr_join_and`; the third constant is the one value left of a tristate |
| `KOperand_proofs!EliminateDups1KeepsValue` | a call of `expr_eliminate_dups1` keeps the value of a tree with any number of operands, in whatever order it meets their pairs | a list of operands has the value of the tree it was taken from (`LeavesKeepValue`) and of the tree it is put back into (`RebuildKeepsValue`); a join changes two of them and neither the greatest nor the least value (`JoinedKeepsValue`, from the two theorems above); by induction over the joins |
| `KOperand_proofs!EliminateYnKeepsValue` | `expr_eliminate_yn` keeps the value of every tree and leaves n and y nowhere as an operand | `TreeInduction` over a set of trees of finite depth |
| `KOperand_proofs!TransformTreeKeepsValue` | `expr_transform` keeps the value of every tree, and negates only symbols in what it makes | it calls itself on trees it has made, so induction over parts does not do: `SizeInduction` over a depth in which a negation of size n counts 2n+1 (`Weighted`), with the strengthening that the result is no larger than the tree |
| `KOperand_proofs!RewriteMBounds` | `rewrite_m` bounds every m by MODULES and changes nothing else | `TreeInduction` |
| `KOperand_proofs!TransBoolAgrees` | `expr_trans_bool` keeps whether a tree is n, if only symbols are negated in it | `TreeInduction`. The condition is needed: `!(A != n)` is n for A = m, `!A` is not |
| `KOperand_proofs!BoundedConditionMeans` | the condition `menu_finalize` gives an entry or a property is worth the lesser of its own (with m bounded by MODULES) and of the one around it; made one of a bool, it is n just when that is | from the five above: the trees that negate only symbols are a set of trees of their own (`NegatesSymbolsTrees`), which joining and `expr_eliminate_yn` do not leave, so `expr_trans_bool` finds what it needs; by induction over the turns of `expr_eliminate_dups` |
| `KOperand_proofs!TransCompareSaysN` | `expr_trans_compare` with n says whether a tree about bools and tristates is n, if no negated part is m | `TreeInduction` for = and != together. The condition is needed: `!A` becomes `A = n`, which is n for A = m |
| `ConfFiles_proofs!IInvHolds`, `DependentsRebuiltThm` | `FilesSpec => []DependentsRebuilt` | strengthened by: while symbols are touched, what the next auto.conf changes is touched or left to touch; when it has its temporary name, all of it is; a touch is forgotten by a build only, which then knows what auto.conf says |
| `ConfFiles_proofs!ConfigSurvivesThm`, `SavesAtOnceThm` | a complete configuration stays, and is replaced in one step by a complete one (no run checks these) | from the other part of `IInv`: no `.config` is cut short, nor is `tmpconfig` from its end of writing to its rename |
| `ConfFiles_proofs!AutoAtOnceThm` | auto.conf is replaced in one step, after all it changes is touched (no run checks it) | from `IInv`: only `rename` changes auto.conf |

Hypotheses. `Serial` says that no two requests are under way at a time, and
`Undisturbed` that no stage has failed either. Both are needed: a request that overlaps another enters
beside it (`usb_lock`), a start stage that failed leaves its links and no record, and under systemd the
clean-up after a failed service kills loops whose daemon files stay. They are hypotheses about behaviours,
not about constants: the theorems hold of every behaviour in which requests happened not to overlap,
however many there may be, with any UDC, cable and user events, crashes of daemons and restarts by systemd.

The theorems on boxes are about any sequence of boxes with any contents; they hold of `KMconf` because it
implements `ScreenSpec`, which TLC checks (the run `kmconf`) and which is not proved: what fills the boxes
recurses over the menu tree. Likewise those on the files of conf are about any configurations and any order
of runs, kills and builds; they hold of `KConf` because TLC checks that it implements `FilesSpec` (the run
`kconf`), and `DependentsRebuilt` there is the definition proved here. `FilesSpec` starts from anything that
earlier runs may leave: any files, but no empty `.config`, and no change that the build does not know of and
no dependency file tells. The theorems on expressions are about every set of symbols, every legal
environment and all operands. The operators of `KExpr` on whole trees are `RECURSIVE`, which the prover cannot
read; the theorems on trees are about any function that satisfies the equation of such an operator, and
any assignment `V` of values that satisfies the equations of `expr_calc_value`, on a set of trees that
contains the parts of each. `Trees` and `Valuation` state exactly that, `Transforms`, `TransBool`, `RewritesM`,
`ComparesWithN`, `EliminatesYn`, `Flattens` and `Rebuilds` the equations; the trees of finite depth are such
a set. Two hypotheses are left: of `expr_eq`, which compares what it has simplified, that equal trees have
equal values (`EqualKeeps`), and of the calls of `expr_eliminate_dups1` for operands that are trees, that they
keep theirs. NULL, which stands for y, is not among the trees.

Induction is done through sets: a set of natural numbers that is not empty has a least element (`LeastOf`,
from the library's theorem on well-founded relations), so a set of counterexamples has a smallest one.

Only model-checked: that `KConf` and `KMconf` implement `ConfFiles` and `Dialogs`, and the other properties of
kconfig (`kparse`, `kconf`, and of `kmconf` `EntriesReachable`, `JumpLands` and `CleanIsSaved`): their operators
recurse over the menu tree and call each other through it, and a `RECURSIVE` operator is out of the prover's
reach. Of `KeepsMeaning` (`kparse`) the theorems on trees prove the part that is about one expression. All
liveness (`Settles`, `RunEnds`, `EscapeLeaves`) is out of the prover's reach.

## 5. Not modelled, and the plan

Not modelled within kconfig: the lexer with `source` and its strings; help texts; the option statements
(`env`, `defconfig_list`, `allnoconfig_y`); `KCONFIG_ALLCONFIG`, `KCONFIG_OVERWRITECONFIG`,
`KCONFIG_NOSILENTUPDATE` and `KCONFIG_PROBABILITY`; regular expressions (a search has any of a few
results); the texts of the boxes (a symbol's lines are counted); names of files that are directories; a menu
without any entry; terminals of less than 9 lines. The front ends nconf, gconf and qconf are windows
over the same functions that the build scripts do not start; they would repeat `KMconf` with other boxes.

Hazards of components not modelled yet, for the modules planned below: a stage that runs in a pipeline
with tee fails only in PIPESTATUS (`scripts/build-helper` 63); `power-key.sh` waits half a second outside its
lock on release (93); a second log-guardian kills every process of its name, itself included (31), and a log
that is copied and then truncated loses lines in between (92); the timeout and the stop of two bootanims
kill the children of whatever session the PID file names (93); `rockchip.sh` reboots on first boot while
`resize-disk.sh` may be running (36).

Not modelled within the other modelled components: the attribute values of the USB functions; the local mount of
mass storage; units of sizes; A/B suffixes of partition names and the extra-partition queries; nested mount
points; a first partition that grows (its CMDLINE cannot be parsed again: `grep -o "0x.*"` then begins at an
offset).

Next, in this order:

1. `UsbUms`: the mass storage function with its image and its local mount (`usbdevice` 503-566), as a
   module that shares `host` and the stages of `UsbDevice`; invariant: the image is never mounted
   locally while a host has it.
2. `BuildPipeline`: `build.sh`, `build-helper` and `mk-all.sh`: the stages over the hooks' commands, a
   failing stage in a pipeline with tee, the session's log and output links, and `mk-rootfs.sh` with
   the post hooks; one run, and proofs that a session which ended well ran every requested stage in order.
3. `PowerKey` and `LogGuardian`: timer against release, suspend debounce; making room while programs
   write, and the restart of the guardian; `BootAnim` if it shares their structure.
4. `FirstBoot`: `rockchip.sh` and `resize-disk.sh` over reboots, composed with `DiskHelper`.
5. Proofs: `expr_eq` and `expr_eliminate_eq`, which call each other, by one size for both; `CleanIsSaved` of
   `KMconf` by way of an abstract module for the changes that are not saved; the invariants of the new modules.

A component whose properties fit the state of an existing run joins that run.
