------------------------------ MODULE UsbDevice ------------------------------
(***************************************************************************)
(* The script usbdevice, that composes the USB gadget of the board, with   *)
(* everything that runs beside it: the service that starts it              *)
(* (usbdevice.service or S50usbdevice.sh), the udev rule that requests an  *)
(* update on every event of the UDC or of the USB state, the background    *)
(* loop the script forks for each daemon, the daemons, and the part of the *)
(* kernel it talks to (configfs gadget, UDC, functionfs, USB state).       *)
(*                                                                         *)
(* A request is one invocation of the script; its statements between two   *)
(* that other processes can tell apart are one action.  A function of the  *)
(* gadget is represented by its instances (adb is ffs.adb, uvc may be      *)
(* uvc.0 and uvc.1); instances of a loop are visited in any order.         *)
(***************************************************************************)
EXTENDS Integers, FiniteSets

CONSTANTS
  Reqs,          \* slots for concurrent invocations of the script
  Insts,         \* function instances
  Supported,     \* instances the kernel can create in configfs
  Daemons,       \* instances whose prepare stage starts a daemon
  Ffs,           \* instances named ffs.*: prepare also waits for the daemon
  Filled,        \* instances whose prepare makes items below their directory
  Execs, Exec,   \* daemon binaries, and the binary of each instance
  Slots,         \* background loops an instance can have at a time, per origin
  Configs,       \* function sets that .usb_config may ask for
  NoFile,        \* the funcs file does not exist
  Down,          \* no process of a binary runs
  Inodes, NoInode,
  Systemd,       \* usbdevice.service (TRUE) or S50usbdevice.sh (FALSE)
  ManualActs,    \* actions a user requests by hand
  UdcAtBoot,     \* the UDC is registered before the service starts
  EndInTime,     \* a daemon told to end is gone before a request waits for it
  EnvKinds,      \* environment events that happen
  MaxEnv,        \* bound: environment events
  MaxFail,       \* bound: failures of a stage, of a wait, of a bind
  StartLimit     \* bound: restarts of the service after a failure

ASSUME InstsAssumption ==
  /\ Supported \subseteq Insts /\ Daemons \subseteq Insts /\ Ffs \subseteq Daemons
  /\ Filled \subseteq Insts
  /\ Exec \in [Daemons -> Execs]
  /\ Configs \subseteq (SUBSET Insts) \ {{}} /\ Configs # {}
ASSUME FileAssumption == (\A S \in SUBSET Insts : NoFile # S) /\ NoInode \notin Inodes
ASSUME DownAssumption == \A i \in Daemons, o \in {"svc", "udev", "user"} : Down # <<i, o>>
ASSUME BoundsAssumption ==
  /\ MaxEnv \in Nat /\ MaxFail \in Nat /\ StartLimit \in Nat
  /\ Systemd \in BOOLEAN /\ UdcAtBoot \in BOOLEAN /\ EndInTime \in BOOLEAN
  /\ ManualActs \subseteq {"start", "stop", "restart", "update"}
  /\ EnvKinds \subseteq {"crash", "udc", "cable", "user", "edit", "stop"}

VARIABLES
  pc,         \* where each request is in the script
  act, org,   \* its action, and who asked for it
  want, old,  \* its USB_FUNCS and OLD_FUNCS, as instances
  seen, ret,  \* its USB_STATE, and where usb_stop returns to
  todo, cur,  \* instances left in its loop, and the one it waits for
  fd, path,   \* descriptor 3 of each request, inode of the lock file
  funcs,      \* .usb_funcs: NoFile, {} (touched) or the started functions
  conf,       \* .usb_configured exists
  dfiles,     \* instances whose .usb_daemon_<instance> exists
  tag,        \* .usbdevice exists (S50usbdevice.sh)
  gadget,     \* the gadget directory exists
  fdirs,      \* instances with a directory under functions/
  items,      \* those whose directory has items of its own, and cannot be removed
  links,      \* instances linked in configs/b.1
  attr,       \* the UDC attribute of the gadget names the UDC
  exposed,    \* instances the bound gadget is composed of
  udc,        \* a UDC is registered
  host,       \* /sys/class/android_usb/android0/state
  sp,         \* background loop in each <<instance, origin, slot>>
  up,         \* instance and origin of the process of each binary, or Down
  dying,      \* binaries whose process was told to end and has not ended
  sup,        \* the service
  starts,     \* restarts of the service so far
  cfg,        \* function set in .usb_config
  pend,       \* a udev event waits for its update request
  env, fails  \* consumption of MaxEnv and MaxFail

call   == <<act, org>>
shell  == <<want, old, seen, ret>>
iter   == <<todo, cur>>
req    == <<pc, call, shell, iter>>
files  == <<funcs, conf, dfiles, tag>>
lock   == <<fd, path>>
dirs   == <<gadget, fdirs, items>>
kernel == <<dirs, links, attr, exposed>>
usb    == <<udc, host>>
bg     == <<sp, up, dying>>
world  == <<sup, starts, cfg, pend>>
bounds == <<env, fails>>
vars == <<req, lock, files, kernel, usb, bg, world, bounds>>

Origins == {"svc", "udev", "user"}
Loops   == Daemons \X Origins \X Slots
Acts    == {"start", "update", "stop", "restart"}
Labels  == {"idle", "touched", "opened", "gate", "load", "probe", "dispatch",
            "stop", "stopinst", "stoplinks", "stopfiles", "enable", "start",
            "prep", "wait", "startinst", "done", "failed"}
States  == {"DISCONNECTED", "CONNECTED", "CONFIGURED"}
Returns == {"failed", "dispatch", "done", "enable"}

Init ==
  /\ pc = [r \in Reqs |-> "idle"]
  /\ act = [r \in Reqs |-> "update"] /\ org = [r \in Reqs |-> "udev"]
  /\ want = [r \in Reqs |-> {}] /\ old = [r \in Reqs |-> {}]
  /\ seen = [r \in Reqs |-> "DISCONNECTED"] /\ ret = [r \in Reqs |-> "done"]
  /\ todo = [r \in Reqs |-> {}] /\ cur = [r \in Reqs |-> {}]
  /\ fd = [r \in Reqs |-> NoInode] /\ path = NoInode
  /\ funcs = NoFile /\ conf = FALSE /\ dfiles = {} /\ tag = FALSE
  /\ gadget = FALSE /\ fdirs = {} /\ items = {} /\ links = {} /\ attr = FALSE /\ exposed = {}
  /\ udc = UdcAtBoot /\ host = "DISCONNECTED"
  /\ sp = [l \in Loops |-> "none"] /\ up = [e \in Execs |-> Down] /\ dying = {}
  /\ sup = "off" /\ starts = 0 /\ cfg \in Configs /\ pend = FALSE
  /\ env = 0 /\ fails = 0

-----------------------------------------------------------------------------
(* Helpers *)

Env(k) == k \in EnvKinds /\ env < MaxEnv /\ env' = env + 1

Inside(r) == pc[r] \notin {"idle", "touched", "opened"}
Goto(r, l) == pc' = [pc EXCEPT ![r] = l]
FreeInodes == Inodes \ ({fd[r] : r \in Reqs} \cup {path})
Running(e) == up[e] # Down
Recorded == IF funcs = NoFile THEN {} ELSE funcs        \* usb_get_started

\* Every functionfs instance of S has a daemon behind its endpoint 0.
FfsReady(S) == \A i \in S \cap Ffs : Running(Exec[i])

\* Whether the kernel accepts to bind the gadget as it is linked.
CanBind == links # {} /\ FfsReady(links)

\* echo > UDC.  The kernel reports it, as it does each time a gadget is bound to a
\* UDC or leaves it, with a change event of the UDC.
Unbind == attr' = FALSE /\ exposed' = {} /\ pend' = (pend \/ exposed # {})

\* start-stop-daemon -K tells the processes of the binaries es to end, and does
\* not wait for them.
Kill(es) == dying' = dying \cup {e \in es : Running(e)}

\* The process of a binary ends.  functionfs unregisters the gadget when the
\* daemon behind one of its instances goes away.
Ends(e) ==
  /\ up' = [up EXCEPT ![e] = Down] /\ dying' = dying \ {e}
  /\ IF \E i \in exposed \cap Ffs : Exec[i] = e THEN Unbind
       ELSE UNCHANGED <<attr, exposed, pend>>

\* A request is started: touch $LOCK_FILE.
Request(r, a, o) ==
  /\ pc[r] = "idle"
  /\ Goto(r, "touched")
  /\ act' = [act EXCEPT ![r] = a] /\ org' = [org EXCEPT ![r] = o]
  /\ IF path = NoInode THEN path' \in FreeInodes ELSE UNCHANGED path
  /\ UNCHANGED <<shell, iter, fd>>

\* The script of request r ends, and its variables with it; the service looks
\* at its exit status.
End(r, ok) ==
  /\ Goto(r, "idle")
  /\ act' = [act EXCEPT ![r] = "update"] /\ org' = [org EXCEPT ![r] = "udev"]
  /\ want' = [want EXCEPT ![r] = {}] /\ old' = [old EXCEPT ![r] = {}]
  /\ seen' = [seen EXCEPT ![r] = "DISCONNECTED"] /\ ret' = [ret EXCEPT ![r] = "done"]
  /\ todo' = [todo EXCEPT ![r] = {}] /\ cur' = [cur EXCEPT ![r] = {}]
  /\ fd' = [fd EXCEPT ![r] = NoInode]
  /\ sup' = IF org[r] = "svc" /\ act[r] = "restart"
              THEN IF ok THEN "up" ELSE "failed"
              ELSE sup

-----------------------------------------------------------------------------
(* The script: lock, prepare, dispatch *)

\* exec 3<$LOCK_FILE, which ends the script when the file is gone again
Open(r) ==
  /\ pc[r] = "touched"
  /\ IF path = NoInode
       THEN End(r, FALSE)
       ELSE /\ Goto(r, "opened")
            /\ fd' = [fd EXCEPT ![r] = path]
            /\ UNCHANGED <<call, shell, iter, sup>>
  /\ UNCHANGED <<path, files, kernel, usb, bg, starts, cfg, pend, bounds>>

\* flock -x 3
LockFree_mut(r) == TRUE                                  \* flock -s
LockFree(r) == \A q \in Reqs \ {r} : Inside(q) => fd[q] # fd[r]
Flock(r) ==
  /\ pc[r] = "opened"
  /\ LockFree(r)
  /\ Goto(r, "gate")
  /\ UNCHANGED <<call, shell, iter>>
  /\ UNCHANGED <<lock, files, kernel, usb, bg, world, bounds>>

\* An update is ignored while disabled; otherwise usb_load_config, and usb_init
\* the first time.
Gate(r) ==
  /\ pc[r] = "gate"
  /\ IF act[r] = "update" /\ funcs = NoFile
       THEN End(r, TRUE) /\ UNCHANGED <<files, gadget>>
       ELSE /\ Goto(r, "probe")
            /\ want' = [want EXCEPT ![r] = cfg]
            /\ gadget' = TRUE
            /\ IF gadget THEN UNCHANGED files
               ELSE funcs' = NoFile /\ conf' = FALSE /\ UNCHANGED <<dfiles, tag>>
            /\ UNCHANGED <<call, old, seen, ret, iter, fd, sup>>
  /\ UNCHANGED <<path, fdirs, items, links, attr, exposed, usb, bg, starts, cfg, pend, bounds>>

\* A hook of the init stage fails, before or after usb_disable in usb_init.
InitFail(r) ==
  /\ pc[r] = "gate" /\ ~gadget
  /\ act[r] = "update" => funcs # NoFile
  /\ fails < MaxFail /\ fails' = fails + 1
  /\ Goto(r, "stop")
  /\ want' = [want EXCEPT ![r] = cfg] /\ ret' = [ret EXCEPT ![r] = "failed"]
  /\ gadget' = TRUE
  /\ (UNCHANGED <<funcs, conf>>) \/ (funcs' = NoFile /\ conf' = FALSE)
  /\ UNCHANGED <<call, old, seen, iter, lock, dfiles, tag, fdirs, items, links, attr, exposed,
                 usb, bg, world, env>>

FuncsChanged_mut(r) == FALSE
FuncsChanged(r) == Recorded \notin {{}, want[r]}

\* USB_STATE, USB_UDC and OLD_FUNCS; usb_stop when the functions changed, and,
\* with OLD_FUNCS still unset, when there is no UDC.
Probe(r) ==
  /\ pc[r] = "probe"
  /\ seen' = [seen EXCEPT ![r] = host]
  /\ IF ~udc
       THEN Goto(r, "stop") /\ ret' = [ret EXCEPT ![r] = "failed"] /\ UNCHANGED old
       ELSE /\ old' = [old EXCEPT ![r] = Recorded]
            /\ IF FuncsChanged(r)
                 THEN Goto(r, "stop") /\ ret' = [ret EXCEPT ![r] = "dispatch"]
                 ELSE Goto(r, "dispatch") /\ UNCHANGED ret
  /\ UNCHANGED <<call, want, iter>>
  /\ UNCHANGED <<lock, files, kernel, usb, bg, world, bounds>>

\* usb_enable or usb_disable, then the stage the action asks for
Dispatch(r) ==
  /\ pc[r] = "dispatch"
  /\ \/ /\ act[r] \in {"start", "update"}
        /\ Goto(r, "start")
        /\ funcs' = Recorded
        /\ UNCHANGED <<ret, conf>>
     \/ /\ act[r] \in {"stop", "restart"}
        /\ Goto(r, "stop")
        /\ ret' = [ret EXCEPT ![r] = IF act[r] = "stop" THEN "done" ELSE "enable"]
        /\ funcs' = NoFile /\ conf' = FALSE
  /\ UNCHANGED <<call, want, old, seen, iter, lock, dfiles, tag, kernel, usb, bg, world, bounds>>

\* usb_enable in usb_restart
Enable(r) ==
  /\ pc[r] = "enable"
  /\ Goto(r, "start")
  /\ UNCHANGED <<call, shell, iter>>
  /\ funcs' = Recorded
  /\ UNCHANGED <<lock, conf, dfiles, tag, kernel, usb, bg, world, bounds>>

\* The script exits; a failed prepare is not an error for stop.
Finish(r) ==
  /\ pc[r] \in {"done", "failed"}
  /\ End(r, pc[r] = "done" \/ act[r] = "stop")
  /\ UNCHANGED <<path, files, kernel, usb, bg, starts, cfg, pend, bounds>>

-----------------------------------------------------------------------------
(* usb_stop *)

StopUnbind(r) ==
  /\ pc[r] = "stop"
  /\ Goto(r, "stopinst")
  /\ todo' = [todo EXCEPT ![r] = old[r]]
  /\ UNCHANGED <<call, shell, cur>>
  /\ conf' = FALSE
  /\ Unbind
  /\ UNCHANGED <<lock, funcs, dfiles, tag, dirs, links, usb, bg, sup, starts, cfg, bounds>>

\* usb_stop_daemon of one old instance whose directory exists
StopInst(r) ==
  /\ pc[r] = "stopinst"
  /\ \E i \in todo[r] :
       /\ todo' = [todo EXCEPT ![r] = @ \ {i}]
       /\ dfiles' = IF i \in fdirs THEN dfiles \ {i} ELSE dfiles
       /\ Kill(IF i \in fdirs \cap dfiles THEN {Exec[i]} ELSE {})
  /\ UNCHANGED <<pc, call, shell, cur>>
  /\ UNCHANGED <<lock, funcs, conf, tag, kernel, usb, sp, up, world, bounds>>

KeptDirs_mut == fdirs                                    \* rmdir forgotten
KeptDirs == fdirs \cap (Ffs \cup items)                  \* ! -name 'ffs.*'; not empty

\* rm -f f-* (which unbinds a gadget that is bound), rmdir all but ffs.*; that it
\* is refused for a directory with items below it is not looked at.
StopLinks(r) ==
  /\ pc[r] = "stopinst" /\ todo[r] = {}
  /\ Goto(r, "stopfiles")
  /\ UNCHANGED <<call, shell, iter>>
  /\ links' = {}
  /\ IF links = {} THEN UNCHANGED <<attr, exposed, pend>> ELSE Unbind
  /\ fdirs' = KeptDirs
  /\ UNCHANGED <<lock, files, gadget, items, usb, bg, sup, starts, cfg, bounds>>

\* unset OLD_FUNCS; rm -f /var/run/.usb*, which takes the lock file and the tag
\* file of S50usbdevice.sh along
StopFiles(r) ==
  /\ pc[r] = "stopfiles"
  /\ Goto(r, ret[r])
  /\ old' = [old EXCEPT ![r] = {}]
  /\ UNCHANGED <<call, want, seen, ret, iter>>
  /\ funcs' = NoFile /\ conf' = FALSE /\ dfiles' = {} /\ tag' = FALSE
  /\ path' = NoInode
  /\ UNCHANGED <<fd, kernel, usb, bg, world, bounds>>

-----------------------------------------------------------------------------
(* usb_start *)

\* The state the request read in prepare decides: remember a configured gadget,
\* unbind one that was configured and is disconnected now, and tell its daemons
\* to end.
StartState(r) ==
  /\ pc[r] = "start"
  /\ Goto(r, "prep")
  /\ todo' = [todo EXCEPT ![r] = want[r]]
  /\ UNCHANGED <<call, shell, cur>>
  /\ conf' = CASE seen[r] = "CONFIGURED" -> TRUE
               [] seen[r] = "DISCONNECTED" -> FALSE
               [] OTHER -> conf
  /\ IF seen[r] = "DISCONNECTED" /\ conf
       THEN Unbind /\ Kill({Exec[i] : i \in want[r] \cap dfiles})
       ELSE UNCHANGED <<attr, exposed, pend, dying>>
  /\ UNCHANGED <<lock, funcs, dfiles, tag, dirs, links, usb, sp, up, sup, starts, cfg, bounds>>

\* usb_symlink: the kernel may refuse a new link while the gadget is bound.
Link(i) == links' \in IF i \in links \/ ~attr THEN {links \cup {i}}
                                             ELSE {links, links \cup {i}}

Made_mut(i) == {i}
Made(i) == {i} \cap Supported                            \* mkdir -p, or continue

\* uvc_prepare makes items below the directory of its instance.
Fill(i) == items' = items \cup (Made(i) \cap Filled)

\* usb_start_daemon: nothing if its file says it is started already
StartDaemon(r, i) ==
  IF i \in Daemons \ dfiles
    THEN /\ dfiles' = dfiles \cup {i}
         /\ \E k \in Slots : /\ sp[<<i, org[r], k>>] = "none"
                             /\ sp' = [sp EXCEPT ![<<i, org[r], k>>] = "loop"]
    ELSE UNCHANGED <<dfiles, sp>>

\* mkdir the instance, unless the kernel lacks it; its prepare stage makes items
\* below it and starts its daemon; functionfs instances wait for the daemon.
PrepInst(r) ==
  /\ pc[r] = "prep"
  /\ \E i \in todo[r] :
       /\ todo' = [todo EXCEPT ![r] = @ \ {i}]
       /\ fdirs' = fdirs \cup Made(i) /\ Fill(i)
       /\ IF i \in Supported THEN StartDaemon(r, i) ELSE UNCHANGED <<dfiles, sp>>
       /\ IF i \in Supported \cap Ffs
            THEN /\ Goto(r, "wait")
                 /\ cur' = [cur EXCEPT ![r] = {i}]
                 /\ UNCHANGED links
            ELSE /\ UNCHANGED <<pc, cur>>
                 /\ IF i \in Supported THEN Link(i) ELSE UNCHANGED links
  /\ UNCHANGED <<call, shell>>
  /\ UNCHANGED <<lock, funcs, conf, tag, gadget, attr, exposed, usb, up, dying, world, bounds>>

\* usb_wait_access finds a process on the functionfs mount: the daemon, or, unless
\* EndInTime, one that was told to end and has yet to do so.
WaitOk(r) ==
  /\ pc[r] = "wait"
  /\ FfsReady(cur[r])
  /\ EndInTime => \A i \in cur[r] : Exec[i] \notin dying
  /\ \E i \in cur[r] : Link(i)
  /\ Goto(r, "prep")
  /\ cur' = [cur EXCEPT ![r] = {}]
  /\ UNCHANGED <<call, shell, todo>>
  /\ UNCHANGED <<lock, files, dirs, attr, exposed, usb, bg, world, bounds>>

\* usb_wait_access gives up after 200 rounds: the daemon is slow, which MaxFail
\* bounds, or no loop is left to start it.
WaitFail(r) ==
  /\ pc[r] = "wait"
  /\ \/ fails < MaxFail /\ fails' = fails + 1
     \/ /\ ~FfsReady(cur[r])
        /\ \A l \in Loops : l[1] \in cur[r] => sp[l] = "none"
        /\ UNCHANGED fails
  /\ Goto(r, "failed")
  /\ UNCHANGED <<call, shell, iter>>
  /\ UNCHANGED <<lock, files, kernel, usb, bg, world, env>>

\* A command or a hook of a prepare stage fails, at its beginning or at its end.
PrepFail(r) ==
  /\ pc[r] = "prep"
  /\ fails < MaxFail /\ fails' = fails + 1
  /\ \E i \in todo[r] \cap Supported :
       /\ fdirs' = fdirs \cup {i}
       /\ \/ UNCHANGED <<items, dfiles, sp>>
          \/ Fill(i) /\ StartDaemon(r, i)
  /\ Goto(r, "failed")
  /\ UNCHANGED <<call, shell, iter>>
  /\ UNCHANGED <<lock, funcs, conf, tag, gadget, links, attr, exposed, usb, up, dying, world, env>>

ToBind_mut == attr                                       \* ! forgotten
ToBind == ~attr                                          \* ! grep -q "^$USB_UDC$" UDC

\* echo $USB_UDC > UDC unless it is there already; a refused write is ignored.
\* MaxFail bounds the daemons that opened endpoint 0 but are not ready for it.
StartBind(r) ==
  /\ pc[r] = "prep" /\ todo[r] = {}
  /\ Goto(r, "startinst")
  /\ UNCHANGED <<call, shell, iter>>
  /\ \/ ToBind /\ udc /\ CanBind /\ attr' = TRUE /\ exposed' = links /\ pend' = TRUE
          /\ UNCHANGED fails
     \/ ToBind /\ ~(udc /\ CanBind) /\ UNCHANGED <<attr, exposed, pend, fails>>
     \/ ToBind /\ links \cap Ffs # {} /\ fails < MaxFail
          /\ fails' = fails + 1 /\ UNCHANGED <<attr, exposed, pend>>
     \/ ~ToBind /\ UNCHANGED <<attr, exposed, pend, fails>>
  /\ UNCHANGED <<lock, files, dirs, links, usb, bg, sup, starts, cfg, env>>

\* All start stages succeed: usb_set_started.
StartDone(r) ==
  /\ pc[r] = "startinst"
  /\ Goto(r, "done")
  /\ UNCHANGED <<call, shell, iter>>
  /\ funcs' = want[r]
  /\ UNCHANGED <<lock, conf, dfiles, tag, kernel, usb, bg, world, bounds>>

\* A command or a hook of a start stage fails.
StartFail(r) ==
  /\ pc[r] = "startinst" /\ want[r] \cap fdirs # {}
  /\ fails < MaxFail /\ fails' = fails + 1
  /\ Goto(r, "failed")
  /\ UNCHANGED <<call, shell, iter>>
  /\ UNCHANGED <<lock, files, kernel, usb, bg, world, env>>

Script(r) ==
  \/ Open(r) \/ Flock(r) \/ Gate(r) \/ InitFail(r) \/ Probe(r) \/ Dispatch(r)
  \/ Enable(r) \/ Finish(r)
  \/ StopUnbind(r) \/ StopInst(r) \/ StopLinks(r) \/ StopFiles(r)
  \/ StartState(r) \/ PrepInst(r) \/ WaitOk(r) \/ WaitFail(r) \/ PrepFail(r)
  \/ StartBind(r) \/ StartDone(r) \/ StartFail(r)

-----------------------------------------------------------------------------
(* The background loops of usb_start_daemon, and the daemons *)

\* while usb_is_enabled; do if usb_daemon_is_enabled
LoopCheck(l) ==
  /\ sp[l] = "loop"
  /\ \/ funcs = NoFile /\ sp' = [sp EXCEPT ![l] = "none"]
     \/ funcs # NoFile /\ l[1] \in dfiles /\ sp' = [sp EXCEPT ![l] = "start"]
  /\ UNCHANGED <<req, lock, files, kernel, usb, up, dying, world, bounds>>

\* start-stop-daemon -S starts nothing when a process of the binary exists.
LoopStart(l) ==
  /\ sp[l] = "start"
  /\ sp' = [sp EXCEPT ![l] = "wait"]
  /\ up' = IF Running(Exec[l[1]]) THEN up ELSE [up EXCEPT ![Exec[l[1]]] = <<l[1], l[2]>>]
  /\ UNCHANGED <<req, lock, files, kernel, usb, dying, world, bounds>>

LoopWait_mut(l) ==                                       \* no respawn
  /\ sp[l] = "wait"
  /\ ~Running(Exec[l[1]])
  /\ sp' = [sp EXCEPT ![l] = "none"]
  /\ UNCHANGED <<req, lock, files, kernel, usb, up, dying, world, bounds>>

\* while start-stop-daemon -K -t; do sleep: until no process of the binary exists
LoopWait(l) ==
  /\ sp[l] = "wait"
  /\ ~Running(Exec[l[1]])
  /\ sp' = [sp EXCEPT ![l] = "loop"]
  /\ UNCHANGED <<req, lock, files, kernel, usb, up, dying, world, bounds>>

\* A daemon ends because it was told to, or crashes.
DaemonEnds(e) ==
  /\ e \in dying
  /\ Ends(e)
  /\ UNCHANGED <<req, lock, files, dirs, links, usb, sp, sup, starts, cfg, bounds>>

DaemonCrash(e) ==
  /\ Running(e)
  /\ Env("crash")
  /\ Ends(e)
  /\ UNCHANGED <<req, lock, files, dirs, links, usb, sp, sup, starts, cfg, fails>>

-----------------------------------------------------------------------------
(* The kernel: UDC and USB state, each change a udev event *)

UdcLeaves ==
  /\ udc /\ udc' = FALSE
  /\ Env("udc")
  /\ exposed' = {}
  /\ pend' = TRUE
  /\ UNCHANGED <<req, lock, files, dirs, links, attr, host, bg, sup, starts, cfg, fails>>

\* A gadget whose UDC attribute names the UDC is bound again when it returns.
UdcArrives ==
  /\ ~udc /\ udc' = TRUE
  /\ exposed' = IF attr /\ CanBind THEN links ELSE {}
  /\ pend' = TRUE
  /\ UNCHANGED <<req, lock, files, dirs, links, attr, host, bg, sup, starts, cfg, bounds>>

\* The host connects and configures the gadget.
HostAdvance ==
  /\ exposed # {} /\ host # "CONFIGURED"
  /\ host' = IF host = "DISCONNECTED" THEN "CONNECTED" ELSE "CONFIGURED"
  /\ pend' = TRUE
  /\ UNCHANGED <<req, lock, files, kernel, udc, bg, sup, starts, cfg, bounds>>

\* The host sees the gadget leave, or the cable is pulled.
HostLeaves ==
  /\ host # "DISCONNECTED" /\ host' = "DISCONNECTED"
  /\ \/ exposed = {} /\ UNCHANGED env
     \/ exposed # {} /\ Env("cable")
  /\ pend' = TRUE
  /\ UNCHANGED <<req, lock, files, kernel, udc, bg, sup, starts, cfg, fails>>

-----------------------------------------------------------------------------
(* Where requests come from *)

\* 61-usbdevice.rules: events that arrive while one waits ask for the same
\* update, so one request stands for all of them.
UdevRequest(r) ==
  /\ pend /\ pend' = FALSE
  /\ Request(r, "update", "udev")
  /\ UNCHANGED <<files, kernel, usb, bg, sup, starts, cfg, bounds>>

UserRequest(r) ==
  /\ Env("user")
  /\ \E a \in ManualActs : Request(r, a, "user")
  /\ UNCHANGED <<files, kernel, usb, bg, world, fails>>

EditConfig ==
  /\ Env("edit")
  /\ cfg' \in Configs \ {cfg}
  /\ UNCHANGED <<req, lock, files, kernel, usb, bg, sup, starts, pend, fails>>

\* The service is started at boot: ExecStart, or S50usbdevice.sh start.
ServiceStart(r) ==
  /\ sup = "off" /\ starts = 0
  /\ sup' = "starting" /\ starts' = 1
  /\ tag' = (tag \/ ~Systemd)
  /\ Request(r, "restart", "svc")
  /\ UNCHANGED <<funcs, conf, dfiles, kernel, usb, bg, cfg, pend, bounds>>

\* systemd kills what is left of the processes of a service that failed, waits
\* until they are gone and restarts it, at most StartLimit times.
Served == {e \in Execs : \E i \in Daemons : up[e] = <<i, "svc">>}
ServiceKill ==
  /\ Systemd /\ sup = "failed"
  /\ sup' = "killed"
  /\ sp' = [l \in Loops |-> IF l[2] = "svc" THEN "none" ELSE sp[l]]
  /\ Kill(Served)
  /\ UNCHANGED <<req, lock, files, kernel, usb, up, starts, cfg, pend, bounds>>

ServiceSweep ==
  /\ sup = "killed" /\ Served = {}
  /\ sup' = IF starts <= StartLimit THEN "sleep" ELSE "gaveup"
  /\ UNCHANGED <<req, lock, files, kernel, usb, bg, starts, cfg, pend, bounds>>

ServiceRestart(r) ==
  /\ Systemd /\ sup = "sleep"
  /\ sup' = "starting" /\ starts' = starts + 1
  /\ Request(r, "restart", "svc")
  /\ UNCHANGED <<files, kernel, usb, bg, cfg, pend, bounds>>

\* The loop of S50usbdevice.sh: after a failure, retry while the tag file exists.
RcRetry(r) ==
  /\ ~Systemd /\ sup = "failed"
  /\ IF tag THEN sup' = "starting" /\ Request(r, "restart", "svc")
            ELSE sup' = "off" /\ UNCHANGED <<req, lock>>
  /\ UNCHANGED <<files, kernel, usb, bg, starts, cfg, pend, bounds>>

\* ExecStop of a service that is up, or S50usbdevice.sh stop at any time.
ServiceStop(r) ==
  /\ starts > 0
  /\ Systemd => sup = "up"
  /\ Env("stop")
  /\ sup' = IF sup = "up" THEN "off" ELSE sup
  /\ tag' = (tag /\ Systemd)
  /\ Request(r, "stop", "svc")
  /\ UNCHANGED <<funcs, conf, dfiles, kernel, usb, bg, starts, cfg, pend, fails>>

Requests(r) == UdevRequest(r) \/ UserRequest(r) \/ ServiceStart(r) \/ ServiceRestart(r)
                 \/ RcRetry(r) \/ ServiceStop(r)
Background == \E l \in Loops : LoopCheck(l) \/ LoopStart(l) \/ LoopWait(l)
Outside == UdcLeaves \/ UdcArrives \/ HostAdvance \/ HostLeaves \/ EditConfig
             \/ ServiceKill \/ ServiceSweep \/ \E e \in Execs : DaemonEnds(e) \/ DaemonCrash(e)

Next == (\E r \in Reqs : Script(r) \/ Requests(r)) \/ Background \/ Outside

Spec == Init /\ [][Next]_vars

-----------------------------------------------------------------------------
TypeReq ==
  /\ pc \in [Reqs -> Labels] /\ act \in [Reqs -> Acts] /\ org \in [Reqs -> Origins]
  /\ want \in [Reqs -> SUBSET Insts] /\ old \in [Reqs -> SUBSET Insts]
  /\ seen \in [Reqs -> States] /\ ret \in [Reqs -> Returns]
  /\ todo \in [Reqs -> SUBSET Insts] /\ cur \in [Reqs -> SUBSET (Supported \cap Ffs)]
TypeLock == fd \in [Reqs -> Inodes \cup {NoInode}] /\ path \in Inodes \cup {NoInode}
TypeFiles ==
  /\ (funcs = NoFile \/ funcs \in SUBSET Insts) /\ conf \in BOOLEAN
  /\ dfiles \subseteq Daemons /\ tag \in BOOLEAN
TypeKernel ==
  /\ gadget \in BOOLEAN /\ fdirs \subseteq Supported /\ items \subseteq fdirs \cap Filled
  /\ links \subseteq Supported /\ attr \in BOOLEAN /\ exposed \subseteq Supported
  /\ udc \in BOOLEAN /\ host \in States
TypeBg ==
  /\ sp \in [Loops -> {"none", "loop", "start", "wait"}]
  /\ DOMAIN up = Execs /\ dying \subseteq Execs
  /\ \A e \in Execs : up[e] = Down \/ up[e] \in Daemons \X Origins
TypeWorld ==
  /\ sup \in {"off", "starting", "up", "failed", "killed", "sleep", "gaveup"}
  /\ starts \in Nat /\ cfg \in Configs /\ pend \in BOOLEAN
  /\ env \in 0..MaxEnv /\ fails \in 0..MaxFail

TypeOK == TypeReq /\ TypeLock /\ TypeFiles /\ TypeKernel /\ TypeBg /\ TypeWorld

-----------------------------------------------------------------------------
(* Safety *)

Idle == \A r \in Reqs : pc[r] = "idle"

\* The lock keeps requests apart (comment "Lock it", line 784).
MutualExclusion == \A r, q \in Reqs : Inside(r) /\ Inside(q) => r = q

\* Between requests, the functions recorded as started are the ones linked in
\* the gadget, so that the next usb_stop takes apart what is there.
RecordedIsLinked == Idle /\ Recorded # {} => links = Recorded \cap Supported

\* While the gadget is enabled, a daemon that counts as started has a loop that
\* spawns it again: usb_start_daemon ("Already started") relies on it.
DaemonHasLoop ==
  funcs # NoFile =>
    \A i \in dfiles : \E l \in Loops : l[1] = i /\ sp[l] # "none"

\* A stop request that found the UDC leaves nothing of the gadget behind that the
\* next start could be misled by: no record, no daemon file, no link, no binding,
\* and no directory but those kept on purpose or because rmdir refuses them.
StopIsClean ==
  [][\A r \in Reqs :
       pc[r] = "done" /\ act[r] = "stop" /\ pc'[r] = "idle"
         => /\ funcs = NoFile /\ dfiles = {} /\ links = {} /\ ~attr /\ exposed = {}
            /\ fdirs \subseteq Ffs \cup items]_vars

\* Requests are serialised by flock per inode of the lock file, and by nothing
\* more: the script follows the protocol of UsbLock with an unlinking owner.
Lock == INSTANCE UsbLock WITH
          MayUnlink <- TRUE,
          lpc <- [r \in Reqs |-> IF Inside(r) THEN "in"
                                 ELSE IF pc[r] = "idle" THEN "out" ELSE pc[r]]
LockProtocol == Lock!Spec

\* While requests do not overlap and no stage fails, the script keeps the
\* promise of UsbExposure: whole configurations, replaced only when taken away.
Exposure == INSTANCE UsbExposure WITH
              Wholes <- {C \cap Supported : C \in Configs} \ {{}},
              recorded <- Recorded \cap Supported
KeepsExposure == Exposure!Spec

-----------------------------------------------------------------------------
(* Liveness *)

\* Each process of the system that can continue does; the UDC driver is probed
\* in the end, and a host that is connected configures a gadget it sees.
Fairness ==
  /\ \A r \in Reqs : WF_vars(Script(r))
  /\ \A r \in Reqs : WF_vars(UdevRequest(r) \/ ServiceRestart(r) \/ RcRetry(r) \/ ServiceStart(r))
  /\ \A l \in Loops : WF_vars(LoopCheck(l) \/ LoopStart(l) \/ LoopWait(l))
  /\ \A e \in Execs : WF_vars(DaemonEnds(e))
  /\ WF_vars(ServiceKill \/ ServiceSweep) /\ WF_vars(UdcArrives)
  /\ WF_vars(HostAdvance) /\ WF_vars(exposed = {} /\ HostLeaves)

FairSpec == Spec /\ Fairness

\* Once the service is started, the configured functions end up in front of the
\* host, and the script knows that they are configured, however late the UDC comes,
\* whatever the cable does, and although the update that a bind triggers overlaps
\* the restart that bound; unless systemd had stopped restarting the service.
Settles ==
  <>[](\/ exposed = cfg \cap Supported /\ host = "CONFIGURED" /\ conf
       \/ sup = "gaveup" /\ starts > StartLimit)

\* "Retry ${1}ing usbdevice service" (S50usbdevice.sh:22): a start that failed is
\* repeated until it succeeds.
RetriesUntilUp == sup = "failed" ~> sup = "up"

=============================================================================
