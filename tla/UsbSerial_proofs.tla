--------------------------- MODULE UsbSerial_proofs ---------------------------
(***************************************************************************)
(* Proofs about usbdevice while its requests do not overlap: what the lock *)
(* is there for, and what it cannot give (UsbDevice!MutualExclusion).  Any *)
(* number of requests may come one after the other, from the service, from *)
(* udev and from the user, while daemons crash and respawn, the UDC comes  *)
(* and goes, the host connects and the configuration is edited.            *)
(***************************************************************************)
EXTENDS UsbDevice_proofs

\* No two requests are under way at a time.
Serial == \A r, q \in Reqs : pc[r] # "idle" /\ pc[q] # "idle" => r = q

\* Nor has a command, a hook or a wait of one of them failed.
Undisturbed == Serial /\ fails = 0

-----------------------------------------------------------------------------
(* The inductive invariant *)

\* Nothing of a gadget is there, and none is recorded.
Clean == funcs = NoFile /\ dfiles = {} /\ links = {} /\ ~attr

\* Where a request leaves the files and the gadget, and finds them.
Rest == Clean \/ (funcs \in Configs /\ links = funcs \cap Supported)

\* The functions request r asks for are there already ...
Kept(r) == funcs = want[r] /\ links = want[r] \cap Supported

\* ... or it has linked some of them, for the first time.
Partial(r) == funcs = {} /\ ~attr /\ links \subseteq want[r] \cap Supported

\* What holds at each place of the script.
Phase(r) ==
  /\ pc[r] = "touched" => path # NoInode
  /\ pc[r] \in {"touched", "opened", "gate", "probe", "done"} => Rest
  /\ pc[r] \in {"enable", "failed"} => Clean
  /\ pc[r] \notin {"idle", "touched", "opened", "gate"} => gadget
  /\ pc[r] \notin {"idle", "touched", "opened", "gate", "done", "failed"} => want[r] \in Configs
  /\ pc[r] = "dispatch" => Clean \/ Kept(r)
  /\ pc[r] = "stopinst" => ~attr
  /\ pc[r] = "stopfiles" => ~attr /\ links = {}
  /\ pc[r] = "start" => Kept(r) \/ (Partial(r) /\ links = {})
  /\ pc[r] \in {"prep", "wait"} => (Kept(r) \/ Partial(r)) /\ todo[r] \subseteq want[r]
  /\ pc[r] = "prep" => (want[r] \ todo[r]) \cap Supported \subseteq links
  /\ pc[r] = "wait" =>
       \E i \in want[r] \cap Supported \cap dfiles :
          cur[r] = {i} /\ (want[r] \ (todo[r] \cup {i})) \cap Supported \subseteq links
  /\ pc[r] = "startinst" => links = want[r] \cap Supported /\ funcs \in {{}, want[r]}

\* The gadget that is bound is a whole configuration, the recorded one if there is one.
Bound ==
  /\ attr => /\ links # {} /\ \E C \in Configs : links = C \cap Supported
             /\ Recorded # {} => links = Recorded \cap Supported
  /\ exposed # {} => attr /\ exposed = links
  /\ ~gadget => Clean

\* Daemons that count as started are looked after, and still are when systemd
\* kills what is left of the service.
HasLoop(i, O) == \E l \in Loops : l[1] = i /\ l[2] \in O /\ sp[l] # "none"
Watched ==
  /\ funcs # NoFile => \A i \in dfiles : HasLoop(i, Origins)
  /\ Systemd /\ sup = "failed" =>
       /\ funcs # NoFile => \A i \in dfiles : HasLoop(i, {"udev", "user"})
       /\ \A r \in Reqs : pc[r] # "idle" => org[r] # "svc"

SerialInv ==
  /\ \A r \in Reqs : Phase(r)
  /\ Idle => Rest
  /\ Bound
  /\ Watched

-----------------------------------------------------------------------------
\* One request moves and the others are idle, before and after.
LEMMA OthersIdle ==
  ASSUME TypeReq, Serial, Serial', NEW r \in Reqs, NEW l, Goto(r, l),
         pc[r] # "idle" \/ l # "idle", NEW q \in Reqs, q # r
  PROVE  pc[q] = "idle" /\ pc'[q] = "idle" /\ Phase(q)'
<1>1. pc'[r] = l /\ pc'[q] = pc[q]
  BY DEF TypeReq, Goto
<1>2. pc[q] = "idle" /\ pc'[q] = "idle"
  BY <1>1 DEF Serial
<1>3. QED
  BY <1>2 DEF Phase

\* So a step of a request keeps the invariant when it keeps its own part of it.
LEMMA StepKeeps ==
  ASSUME TypeReq, Serial, Serial', NEW r \in Reqs, NEW l, Goto(r, l),
         pc[r] # "idle" \/ l # "idle",
         Phase(r)', Bound', Watched', l = "idle" => Rest'
  PROVE  SerialInv'
<1>1. \A q \in Reqs : Phase(q)'
  BY OthersIdle
<1>2. Idle' => Rest'
  BY DEF Idle, TypeReq, Goto
<1>3. QED
  BY <1>1, <1>2 DEF SerialInv

\* Steps that start no daemon and end no loop.
LEMMA WatchedStays ==
  ASSUME TypeReq, Watched, UNCHANGED <<sp, sup, org>>,
         funcs' # NoFile => dfiles' = {} \/ (funcs # NoFile /\ dfiles' \subseteq dfiles),
         \A q \in Reqs : pc'[q] # "idle" => pc[q] # "idle"
  PROVE  Watched'
BY DEF Watched, HasLoop

\* Steps outside the script: the gadget may be unbound, and no more.
LEMMA OutsideKeeps ==
  ASSUME SerialInv, UNCHANGED <<req, lock, files, gadget, fdirs, links>>,
         attr' => attr, Bound', Watched'
  PROVE  SerialInv'
<1> USE DEF req, shell, iter, lock, files
<1>1. Rest => Rest'
  BY DEF Rest, Clean
<1>2. \A q \in Reqs : Phase(q)'
  BY <1>1 DEF SerialInv, Phase, Clean, Kept, Partial
<1>3. QED
  BY <1>1, <1>2 DEF SerialInv, Idle

\* A request starts at rest.
LEMMA RequestKeeps ==
  ASSUME TypeOK, Serial, Serial', SerialInv, NEW r \in Reqs, NEW a, NEW o, Request(r, a, o),
         UNCHANGED <<funcs, conf, dfiles, kernel, sp>>,
         sup' # "failed" \/ (sup = "failed" /\ o # "svc") \/ ~Systemd
  PROVE  SerialInv'
<1> USE DEF Request, kernel, dirs
<1>1. Goto(r, "touched") /\ pc[r] = "idle" /\ pc'[r] = "touched"
  BY DEF TypeOK, TypeReq, Goto
<1>2. \A q \in Reqs : q # r => pc[q] = "idle" /\ pc'[q] = "idle"
  BY <1>1, OthersIdle DEF TypeOK
<1>3. Rest'
  <2>1. Idle
    BY <1>1, <1>2 DEF Idle
  <2>2. QED
    BY <2>1 DEF SerialInv, Rest, Clean
<1>4. path' # NoInode
  BY FileAssumption DEF FileAssumption, FreeInodes, TypeOK, TypeLock
<1>5. Phase(r)'
  BY <1>1, <1>3, <1>4 DEF Phase
<1>6. Bound'
  BY DEF SerialInv, Bound, Recorded, Clean
<1>7. Watched'
  <2>1. funcs' # NoFile => \A i \in dfiles' : HasLoop(i, Origins)'
    BY DEF SerialInv, Watched, HasLoop
  <2>2. ASSUME Systemd, sup' = "failed"
        PROVE  /\ funcs' # NoFile => \A i \in dfiles' : HasLoop(i, {"udev", "user"})'
               /\ \A q \in Reqs : pc'[q] # "idle" => org'[q] # "svc"
    <3>1. sup = "failed" /\ o # "svc"
      BY <2>2
    <3>2. funcs' # NoFile => \A i \in dfiles' : HasLoop(i, {"udev", "user"})'
      BY <2>2, <3>1 DEF SerialInv, Watched, HasLoop
    <3>3. \A q \in Reqs : pc'[q] # "idle" => org'[q] # "svc"
      BY <1>2, <3>1 DEF TypeOK, TypeReq
    <3>4. QED
      BY <3>2, <3>3
  <2>3. QED
    BY <2>1, <2>2 DEF Watched
<1>8. QED
  BY <1>1, <1>5, <1>6, <1>7, StepKeeps DEF TypeOK
-----------------------------------------------------------------------------
\* Every step of a system whose requests do not overlap and do not fail keeps the
\* invariant.
LEMMA SerialStep ==
  ASSUME TypeOK, TypeOK', Undisturbed, Undisturbed', SerialInv, [Next]_vars
  PROVE  SerialInv'
<1> USE InstsAssumption, FileAssumption
    DEF InstsAssumption, FileAssumption, TypeOK, Undisturbed, SerialInv
<1> USE DEF call, shell, iter, lock, files, dirs, kernel, usb, bg, world, bounds, Unbind
<1>1. ASSUME NEW r \in Reqs, Open(r) PROVE SerialInv'
  <2>0. pc[r] = "touched" /\ path # NoInode
    BY <1>1 DEF Open, Phase
  <2>1. Goto(r, "opened") /\ pc'[r] = "opened" /\ pc[r] = "touched"
    BY <1>1, <2>0 DEF Open, TypeReq, Goto
  <2>2. UNCHANGED <<call, sup>>
    BY <1>1, <2>0 DEF Open
  <2>3. Phase(r)'
    BY <1>1, <2>1 DEF Open, Phase, Rest, Clean
  <2>4. Bound'
    BY <1>1 DEF Open, Bound, Recorded, Clean
  <2>5. Watched'
    BY <1>1, <2>1, <2>2, WatchedStays DEF Open, TypeReq, Goto
  <2>6. QED
    BY <2>1, <2>3, <2>4, <2>5, StepKeeps
<1>2. ASSUME NEW r \in Reqs, Flock(r) PROVE SerialInv'
  <2>1. Goto(r, "gate") /\ pc'[r] = "gate" /\ pc[r] = "opened"
    BY <1>2 DEF Flock, TypeReq, Goto
  <2>2. Phase(r)'
    BY <1>2, <2>1 DEF Flock, Phase, Rest, Clean
  <2>3. Bound'
    BY <1>2 DEF Flock, Bound, Recorded, Clean
  <2>4. Watched'
    BY <1>2, <2>1, WatchedStays DEF Flock, TypeReq, Goto
  <2>5. QED
    BY <2>1, <2>2, <2>3, <2>4, StepKeeps
<1>3. ASSUME NEW r \in Reqs, Gate(r) PROVE SerialInv'
  <2>1. Rest /\ pc[r] = "gate"
    BY <1>3 DEF Gate, Phase
  <2>2. CASE act[r] = "update" /\ funcs = NoFile
    <3>1. Goto(r, "idle") /\ pc'[r] = "idle" /\ UNCHANGED <<funcs, dfiles, links, attr, exposed, gadget, sp, sup>>
      BY <1>3, <2>2 DEF Gate, End, TypeReq, Goto
    <3>2. Phase(r)' /\ Rest' /\ Bound'
      BY <2>1, <3>1 DEF Phase, Rest, Bound, Clean, Recorded
    <3>3. Watched'
      <4>1. \A q \in Reqs : pc'[q] = "idle"
        BY <2>1, <3>1, OthersIdle
      <4>2. funcs' = NoFile
        BY <2>2, <3>1
      <4>3. QED
        BY <4>1, <4>2 DEF Watched
    <3>4. QED
      BY <2>1, <3>1, <3>2, <3>3, StepKeeps
  <2>3. CASE ~(act[r] = "update" /\ funcs = NoFile)
    <3>1. /\ Goto(r, "probe") /\ pc'[r] = "probe" /\ want'[r] = cfg /\ gadget'
          /\ UNCHANGED <<call, dfiles, links, attr, exposed, sp, sup>>
          /\ funcs' = IF gadget THEN funcs ELSE NoFile
      <4>1. /\ Goto(r, "probe") /\ want' = [want EXCEPT ![r] = cfg] /\ gadget' = TRUE
            /\ IF gadget THEN UNCHANGED files
               ELSE funcs' = NoFile /\ conf' = FALSE /\ UNCHANGED <<dfiles, tag>>
            /\ UNCHANGED <<call, sup>>
        BY <1>3, <2>3 DEF Gate
      <4>2. UNCHANGED <<dfiles, links, attr, exposed, sp>>
        BY <1>3, <4>1 DEF Gate
      <4>3. QED
        BY <4>1, <4>2 DEF TypeReq, Goto
    <3>2. UNCHANGED funcs
      BY <3>1 DEF Bound, Clean
    <3>3. Phase(r)' /\ Bound'
      BY <2>1, <3>1, <3>2 DEF Phase, Rest, Bound, Clean, Recorded, TypeWorld
    <3>4. Watched'
      BY <2>1, <3>1, <3>2, WatchedStays DEF TypeReq, Goto
    <3>5. QED
      BY <2>1, <3>1, <3>3, <3>4, StepKeeps
  <2>4. QED
    BY <2>2, <2>3
<1>4. ASSUME NEW r \in Reqs, Probe(r) PROVE SerialInv'
  <2>1. Rest /\ pc[r] = "probe" /\ gadget /\ want[r] \in Configs
    BY <1>4 DEF Probe, Phase
  <2>2. PICK l \in {"stop", "dispatch"} :
          Goto(r, l) /\ pc'[r] = l /\ (l = "dispatch" => ~FuncsChanged(r))
    BY <1>4 DEF Probe, TypeReq, Goto
  <2>3. Phase(r)'
    BY <1>4, <2>1, <2>2 DEF Probe, Phase, Rest, Clean, Kept, FuncsChanged, Recorded
  <2>4. Bound'
    BY <1>4 DEF Probe, Bound, Recorded, Clean
  <2>5. Watched'
    BY <1>4, <2>1, <2>2, WatchedStays DEF Probe, TypeReq, Goto
  <2>6. QED
    BY <2>1, <2>2, <2>3, <2>4, <2>5, StepKeeps
<1>5. ASSUME NEW r \in Reqs, Dispatch(r) PROVE SerialInv'
  <2>1. pc[r] = "dispatch" /\ gadget /\ want[r] \in Configs /\ (Clean \/ Kept(r))
    BY <1>5 DEF Dispatch, Phase
  <2>2. CASE Goto(r, "start") /\ funcs' = Recorded /\ UNCHANGED <<ret, conf>>
    <3>1. pc'[r] = "start"
      BY <2>2 DEF TypeReq, Goto
    <3>2. Phase(r)'
      BY <1>5, <2>1, <2>2, <3>1 DEF Dispatch, Phase, Clean, Kept, Partial, Recorded
    <3>3. Bound'
      BY <1>5, <2>1, <2>2 DEF Dispatch, Bound, Recorded, Clean, Kept
    <3>4. Watched'
      BY <1>5, <2>1, <2>2, <3>1, WatchedStays DEF Dispatch, TypeReq, Goto, Clean, Kept, Recorded
    <3>5. QED
      BY <2>1, <2>2, <3>2, <3>3, <3>4, StepKeeps
  <2>3. CASE Goto(r, "stop") /\ funcs' = NoFile
    <3>1. pc'[r] = "stop"
      BY <2>3 DEF TypeReq, Goto
    <3>2. Phase(r)'
      BY <1>5, <2>1, <2>3, <3>1 DEF Dispatch, Phase
    <3>3. Bound'
      BY <1>5, <2>1, <2>3 DEF Dispatch, Bound, Recorded, Clean, Kept
    <3>4. Watched'
      BY <1>5, <2>1, <2>3, <3>1, WatchedStays DEF Dispatch, TypeReq, Goto
    <3>5. QED
      BY <2>1, <2>3, <3>2, <3>3, <3>4, StepKeeps
  <2>4. QED
    BY <1>5, <2>2, <2>3 DEF Dispatch
<1>6. ASSUME NEW r \in Reqs, Enable(r) PROVE SerialInv'
  <2>1. pc[r] = "enable" /\ gadget /\ want[r] \in Configs /\ Clean
    BY <1>6 DEF Enable, Phase
  <2>2. Goto(r, "start") /\ pc'[r] = "start" /\ funcs' = {}
    BY <1>6, <2>1 DEF Enable, TypeReq, Goto, Recorded, Clean
  <2>3. Phase(r)'
    BY <1>6, <2>1, <2>2 DEF Enable, Phase, Clean, Partial
  <2>4. Bound'
    BY <1>6, <2>1, <2>2 DEF Enable, Bound, Recorded, Clean
  <2>5. Watched'
    BY <1>6, <2>1, <2>2, WatchedStays DEF Enable, TypeReq, Goto, Clean
  <2>6. QED
    BY <2>1, <2>2, <2>3, <2>4, <2>5, StepKeeps
<1>7. ASSUME NEW r \in Reqs, Finish(r) PROVE SerialInv'
  <2>1. Goto(r, "idle") /\ pc'[r] = "idle" /\ pc[r] \in {"done", "failed"}
    BY <1>7 DEF Finish, End, TypeReq, Goto
  <2>2. Phase(r)' /\ Rest'
    BY <1>7, <2>1 DEF Finish, End, Phase, Rest, Clean
  <2>3. Bound'
    BY <1>7 DEF Finish, End, Bound, Recorded, Clean
  <2>4. \A q \in Reqs : pc'[q] = "idle"
    BY <2>1, OthersIdle
  <2>5. UNCHANGED <<funcs, dfiles, sp>> /\ (sup' = "failed" => sup = "failed" \/ pc[r] = "failed")
    BY <1>7 DEF Finish, End
  <2>6. pc[r] = "failed" => funcs = NoFile
    BY DEF Phase, Clean
  <2>7. Watched'
    BY <2>4, <2>5, <2>6 DEF Watched, HasLoop
  <2>8. QED
    BY <2>1, <2>2, <2>3, <2>7, StepKeeps
<1>8. ASSUME NEW r \in Reqs, StopUnbind(r) PROVE SerialInv'
  <2>1. pc[r] = "stop" /\ gadget /\ want[r] \in Configs
    BY <1>8 DEF StopUnbind, Phase
  <2>2. Goto(r, "stopinst") /\ pc'[r] = "stopinst"
    BY <1>8 DEF StopUnbind, TypeReq, Goto
  <2>3. Phase(r)'
    BY <1>8, <2>1, <2>2 DEF StopUnbind, Phase
  <2>4. Bound'
    BY <1>8, <2>1 DEF StopUnbind, Bound
  <2>5. Watched'
    BY <1>8, <2>1, <2>2, WatchedStays DEF StopUnbind, TypeReq, Goto
  <2>6. QED
    BY <2>1, <2>2, <2>3, <2>4, <2>5, StepKeeps
<1>9. ASSUME NEW r \in Reqs, StopInst(r) PROVE SerialInv'
  <2>1. pc[r] = "stopinst" /\ gadget /\ want[r] \in Configs /\ ~attr
    BY <1>9 DEF StopInst, Phase
  <2>2. Goto(r, "stopinst") /\ pc'[r] = "stopinst"
    BY <1>9, <2>1 DEF StopInst, TypeReq, Goto
  <2>3. dfiles' \subseteq dfiles /\ attr' = FALSE /\ exposed' = {}
    BY <1>9, <2>1 DEF StopInst, Bound
  <2>4. Phase(r)'
    BY <1>9, <2>1, <2>2, <2>3 DEF StopInst, Phase
  <2>5. Bound'
    BY <1>9, <2>1, <2>3 DEF StopInst, Bound
  <2>6. Watched'
    BY <1>9, <2>1, <2>2, <2>3, WatchedStays DEF StopInst
  <2>7. QED
    BY <2>1, <2>2, <2>4, <2>5, <2>6, StepKeeps
<1>10. ASSUME NEW r \in Reqs, StopLinks(r) PROVE SerialInv'
  <2>1. pc[r] = "stopinst" /\ gadget /\ want[r] \in Configs /\ ~attr
    BY <1>10 DEF StopLinks, Phase
  <2>2. Goto(r, "stopfiles") /\ pc'[r] = "stopfiles"
    BY <1>10 DEF StopLinks, TypeReq, Goto
  <2>3. links' = {} /\ attr' = FALSE /\ exposed' = {}
    BY <1>10, <2>1 DEF StopLinks, Bound
  <2>4. Phase(r)'
    BY <1>10, <2>1, <2>2, <2>3 DEF StopLinks, Phase
  <2>5. Bound'
    BY <1>10, <2>1, <2>3 DEF StopLinks, Bound
  <2>6. Watched'
    BY <1>10, <2>1, <2>2, WatchedStays DEF StopLinks, TypeReq, Goto
  <2>7. QED
    BY <2>1, <2>2, <2>4, <2>5, <2>6, StepKeeps
<1>11. ASSUME NEW r \in Reqs, StopFiles(r) PROVE SerialInv'
  <2>1. pc[r] = "stopfiles" /\ gadget /\ want[r] \in Configs /\ ~attr /\ links = {}
    BY <1>11 DEF StopFiles, Phase
  <2>2. Goto(r, ret[r]) /\ pc'[r] = ret[r] /\ ret[r] \in {"failed", "dispatch", "done", "enable"}
    BY <1>11 DEF StopFiles, TypeReq, Goto, Returns
  <2>3. Clean'
    BY <1>11, <2>1 DEF StopFiles, Clean
  <2>4. Phase(r)'
    BY <1>11, <2>1, <2>2, <2>3 DEF StopFiles, Phase, Rest
  <2>5. Bound'
    BY <1>11, <2>1, <2>3 DEF StopFiles, Bound
  <2>6. Watched'
    BY <1>11, <2>1, <2>2, WatchedStays DEF StopFiles, TypeReq, Goto
  <2>7. QED
    BY <2>1, <2>2, <2>4, <2>5, <2>6, StepKeeps
<1>12. ASSUME NEW r \in Reqs, StartState(r) PROVE SerialInv'
  <2>1. pc[r] = "start" /\ gadget /\ want[r] \in Configs /\ (Kept(r) \/ (Partial(r) /\ links = {}))
    BY <1>12 DEF StartState, Phase
  <2>2. Goto(r, "prep") /\ pc'[r] = "prep" /\ todo'[r] = want[r]
    BY <1>12 DEF StartState, TypeReq, Goto
  <2>3. \/ UNCHANGED <<attr, exposed>>
        \/ attr' = FALSE /\ exposed' = {}
    BY <1>12 DEF StartState
  <2>4. Kept(r)' \/ Partial(r)'
    BY <1>12, <2>1, <2>3 DEF StartState, Kept, Partial
  <2>6. Phase(r)'
    BY <1>12, <2>1, <2>2, <2>4 DEF StartState, Phase
  <2>7. Bound'
    BY <1>12, <2>1, <2>3 DEF StartState, Bound, Recorded
  <2>8. Watched'
    BY <1>12, <2>1, <2>2, WatchedStays DEF StartState, TypeReq, Goto
  <2>9. QED
    BY <2>1, <2>2, <2>6, <2>7, <2>8, StepKeeps
<1>13. ASSUME NEW r \in Reqs, PrepInst(r) PROVE SerialInv'
  <2>1. /\ pc[r] = "prep" /\ gadget /\ want[r] \in Configs
        /\ Kept(r) \/ Partial(r)
        /\ todo[r] \subseteq want[r] /\ (want[r] \ todo[r]) \cap Supported \subseteq links
    BY <1>13 DEF PrepInst, Phase
  <2>2. PICK f \in todo[r] :
          /\ todo' = [todo EXCEPT ![r] = @ \ {f}]
          /\ IF f \in Supported THEN StartDaemon(r, f) ELSE UNCHANGED <<dfiles, sp>>
          /\ IF f \in Supported \cap Ffs
               THEN /\ Goto(r, "wait")
                    /\ cur' = [cur EXCEPT ![r] = {f}]
                    /\ UNCHANGED links
               ELSE /\ UNCHANGED <<pc, cur>>
                    /\ IF f \in Supported THEN Link(f) ELSE UNCHANGED links
    BY <1>13 DEF PrepInst
  <2>3. UNCHANGED <<call, shell, funcs, gadget, attr, exposed, sup>>
    BY <1>13 DEF PrepInst
  <2>4. f \in want[r] /\ todo'[r] = todo[r] \ {f} /\ want[r] \subseteq Insts
    BY <2>1, <2>2 DEF TypeReq
  <2>5. f \in Supported => links' \in {links, links \cup {f}} /\ (f \in Ffs \/ f \in links')
    <3>1. CASE attr
      BY <2>1, <2>2, <2>4, <3>1 DEF Link, Kept, Partial
    <3>2. CASE ~attr
      BY <2>2, <3>2 DEF Link
    <3>3. QED
      BY <3>1, <3>2
  <2>6. links \subseteq links' /\ (Kept(r) => links' = links)
    <3>1. CASE f \in Supported
      <4>1. links' = links \/ links' = links \cup {f}
        BY <2>5, <3>1
      <4>2. Kept(r) => links \cup {f} = links
        BY <2>4, <3>1 DEF Kept
      <4>3. QED
        BY <4>1, <4>2
    <3>2. CASE f \notin Supported
      BY <2>2, <3>2
    <3>3. QED
      BY <3>1, <3>2
  <2>7. Kept(r)' \/ Partial(r)'
    BY <2>1, <2>2, <2>3, <2>4, <2>5, <2>6 DEF Kept, Partial
  <2>8. PICK l \in {"prep", "wait"} :
          /\ Goto(r, l) /\ pc'[r] = l
          /\ l = "prep" => (f \in Supported => f \in links')
          /\ l = "wait" => cur'[r] = {f} /\ f \in Supported \cap dfiles'
    <3>1. f \in Supported \cap Ffs => f \in dfiles'
      BY <2>2 DEF StartDaemon
    <3>2. QED
      BY <2>1, <2>2, <2>5, <3>1 DEF TypeReq, Goto
  <2>9. /\ (want'[r] \ (todo'[r] \cup {f})) \cap Supported \subseteq links'
        /\ pc'[r] = "prep" => (want'[r] \ todo'[r]) \cap Supported \subseteq links'
    BY <2>1, <2>3, <2>4, <2>6, <2>8
  <2>10. Phase(r)'
    BY <2>1, <2>3, <2>4, <2>7, <2>8, <2>9 DEF Phase
  <2>11. Bound'
    BY <2>1, <2>3, <2>6 DEF Bound, Kept, Partial, Recorded
  <2>12. Watched'
    <3>1. CASE UNCHANGED <<dfiles, sp>>
      BY <2>1, <2>3, <2>8, <3>1, WatchedStays DEF TypeReq, Goto, Kept, Partial
    <3>2. CASE f \in Daemons /\ dfiles' = dfiles \cup {f} /\ \E k \in Slots :
                 sp' = [sp EXCEPT ![<<f, org[r], k>>] = "loop"]
      <4>1. PICK k \in Slots : sp' = [sp EXCEPT ![<<f, org[r], k>>] = "loop"]
        BY <3>2
      <4>2. <<f, org[r], k>> \in Loops /\ org[r] \in Origins /\ DOMAIN sp = Loops
        BY <3>2 DEF Loops, TypeReq, TypeBg
      <4>3. \A i, O : HasLoop(i, O) => HasLoop(i, O)'
        BY <4>1, <4>2 DEF HasLoop
      <4>4. \A O : org[r] \in O => HasLoop(f, O)'
        BY <4>1, <4>2 DEF HasLoop
      <4>5. \A q \in Reqs : pc'[q] # "idle" => pc[q] # "idle"
        BY <2>1, <2>8 DEF TypeReq, Goto
      <4>6. funcs # NoFile
        BY <2>1 DEF Kept, Partial, TypeReq
      <4>7. Systemd /\ sup = "failed" => org[r] \in {"udev", "user"}
        BY <2>1, <4>2 DEF Watched, Origins
      <4>8. QED
        BY <2>3, <3>2, <4>2, <4>3, <4>4, <4>5, <4>6, <4>7 DEF Watched
    <3>3. QED
      BY <2>2, <3>1, <3>2 DEF StartDaemon
  <2>13. QED
    BY <2>1, <2>8, <2>10, <2>11, <2>12, StepKeeps
<1>14. ASSUME NEW r \in Reqs, WaitOk(r) PROVE SerialInv'
  <2>1. pc[r] = "wait" /\ gadget /\ want[r] \in Configs
        /\ (Kept(r) \/ Partial(r)) /\ todo[r] \subseteq want[r]
    BY <1>14 DEF WaitOk, Phase
  <2>2. PICK f \in want[r] \cap Supported \cap dfiles :
          cur[r] = {f} /\ (want[r] \ (todo[r] \cup {f})) \cap Supported \subseteq links
    BY <1>14 DEF WaitOk, Phase
  <2>3. Goto(r, "prep") /\ pc'[r] = "prep" /\ Link(f)
        /\ UNCHANGED <<call, shell, todo, funcs, gadget, dfiles, attr, exposed, sp, sup>>
    BY <1>14, <2>2 DEF WaitOk, TypeReq, Goto
  <2>4. links' \in {links, links \cup {f}} /\ f \in links'
    BY <2>1, <2>2, <2>3 DEF Link, Kept, Partial
  <2>5. Kept(r)' \/ Partial(r)'
    BY <2>1, <2>2, <2>3, <2>4 DEF Kept, Partial
  <2>6. Phase(r)'
    BY <2>1, <2>2, <2>3, <2>4, <2>5 DEF Phase
  <2>7. Bound'
    <3>1. attr => links' = links
      <4>1. attr => links \cup {f} = links
        BY <2>1, <2>2 DEF Kept, Partial
      <4>2. QED
        BY <2>4, <4>1
    <3>2. QED
      BY <2>1, <2>3, <3>1 DEF Bound, Recorded
  <2>8. Watched'
    BY <2>1, <2>3, WatchedStays DEF TypeReq, Goto, Kept, Partial
  <2>9. QED
    BY <2>1, <2>3, <2>6, <2>7, <2>8, StepKeeps
<1>15. ASSUME NEW r \in Reqs, WaitFail(r) PROVE FALSE
  <2>1. PICK i \in dfiles : cur[r] = {i}
    BY <1>15 DEF WaitFail, Phase
  <2>2. funcs # NoFile
    BY <1>15 DEF WaitFail, Phase, Kept, Partial, TypeReq
  <2>3. \E l \in Loops : l[1] \in cur[r] /\ sp[l] # "none"
    BY <2>1, <2>2 DEF Watched, HasLoop
  <2>4. fails = 0 /\ fails' = 0
    OBVIOUS
  <2>5. QED
    BY <1>15, <2>3, <2>4 DEF WaitFail
<1>16. ASSUME NEW r \in Reqs, InitFail(r) \/ PrepFail(r) \/ StartFail(r) PROVE FALSE
  BY <1>16 DEF InitFail, PrepFail, StartFail
<1>17. ASSUME NEW r \in Reqs, StartBind(r) PROVE SerialInv'
  <2>1. pc[r] = "prep" /\ todo[r] = {} /\ gadget /\ want[r] \in Configs
        /\ (Kept(r) \/ Partial(r)) /\ want[r] \cap Supported \subseteq links
    BY <1>17 DEF StartBind, Phase
  <2>2. links = want[r] \cap Supported /\ funcs \in {{}, want[r]}
    BY <2>1 DEF Kept, Partial
  <2>3. Goto(r, "startinst") /\ pc'[r] = "startinst"
    BY <1>17 DEF StartBind, TypeReq, Goto
  <2>4. \/ attr' = TRUE /\ exposed' = links /\ links # {}
        \/ UNCHANGED <<attr, exposed>>
    BY <1>17 DEF StartBind, CanBind
  <2>5. Phase(r)'
    BY <1>17, <2>1, <2>2, <2>3 DEF StartBind, Phase
  <2>6. Bound'
    BY <1>17, <2>1, <2>2, <2>4 DEF StartBind, Bound, Recorded
  <2>7. Watched'
    BY <1>17, <2>1, <2>3, WatchedStays DEF StartBind, TypeReq, Goto, Kept, Partial
  <2>8. QED
    BY <2>1, <2>3, <2>5, <2>6, <2>7, StepKeeps
<1>18. ASSUME NEW r \in Reqs, StartDone(r) PROVE SerialInv'
  <2>1. pc[r] = "startinst" /\ gadget /\ want[r] \in Configs
        /\ links = want[r] \cap Supported /\ funcs \in {{}, want[r]}
    BY <1>18 DEF StartDone, Phase
  <2>2. Goto(r, "done") /\ pc'[r] = "done" /\ funcs' = want[r]
    BY <1>18 DEF StartDone, TypeReq, Goto
  <2>3. Phase(r)'
    BY <1>18, <2>1, <2>2 DEF StartDone, Phase, Rest
  <2>4. Bound'
    BY <1>18, <2>1, <2>2 DEF StartDone, Bound, Recorded
  <2>5. Watched'
    BY <1>18, <2>1, <2>2, WatchedStays DEF StartDone, TypeReq, Goto
  <2>6. QED
    BY <2>1, <2>2, <2>3, <2>4, <2>5, StepKeeps
<1>19. ASSUME NEW r \in Reqs, UdevRequest(r) PROVE SerialInv'
  BY <1>19, RequestKeeps DEF UdevRequest
<1>20. ASSUME NEW r \in Reqs, UserRequest(r) PROVE SerialInv'
  BY <1>20, RequestKeeps DEF UserRequest
<1>21. ASSUME NEW r \in Reqs, ServiceStart(r) PROVE SerialInv'
  BY <1>21, RequestKeeps DEF ServiceStart
<1>22. ASSUME NEW r \in Reqs, ServiceRestart(r) PROVE SerialInv'
  BY <1>22, RequestKeeps DEF ServiceRestart
<1>23. ASSUME NEW r \in Reqs, RcRetry(r), tag PROVE SerialInv'
  BY <1>23, RequestKeeps DEF RcRetry
<1>24. ASSUME NEW r \in Reqs, RcRetry(r), ~tag PROVE SerialInv'
  <2>1. Bound'
    BY <1>24 DEF RcRetry, Bound, Recorded, Clean
  <2>2. Watched'
    BY <1>24 DEF RcRetry, Watched, HasLoop, req
  <2>3. QED
    BY <1>24, <2>1, <2>2, OutsideKeeps DEF RcRetry
<1>25. ASSUME NEW r \in Reqs, ServiceStop(r) PROVE SerialInv'
  BY <1>25, RequestKeeps DEF ServiceStop
<1>26. ASSUME NEW l \in Loops, LoopCheck(l) \/ LoopStart(l) \/ LoopWait(l) PROVE SerialInv'
  <2>1. UNCHANGED <<req, lock, files, kernel, sup>>
    BY <1>26 DEF LoopCheck, LoopStart, LoopWait
  <2>2. Bound'
    BY <2>1 DEF Bound, Recorded, Clean
  <2>3. funcs # NoFile => \A k \in Loops : sp[k] # "none" => sp'[k] # "none"
    BY <1>26 DEF LoopCheck, LoopStart, LoopWait, TypeBg
  <2>4. Watched'
    BY <2>1, <2>3 DEF Watched, HasLoop, req
  <2>5. QED
    BY <2>1, <2>2, <2>4, OutsideKeeps
<1>27. ASSUME UdcLeaves \/ UdcArrives \/ HostAdvance \/ HostLeaves \/ EditConfig PROVE SerialInv'
  <2>1. UNCHANGED <<req, lock, files, gadget, fdirs, links, attr, sp, sup>>
    BY <1>27 DEF UdcLeaves, UdcArrives, HostAdvance, HostLeaves, EditConfig
  <2>2. exposed' = exposed \/ exposed' = {} \/ (attr /\ exposed' = links)
    BY <1>27 DEF UdcLeaves, UdcArrives, HostAdvance, HostLeaves, EditConfig
  <2>3. Bound'
    BY <2>1, <2>2 DEF Bound, Recorded, Clean
  <2>4. Watched'
    BY <2>1, WatchedStays DEF req
  <2>5. QED
    BY <2>1, <2>3, <2>4, OutsideKeeps
<1>28. ASSUME ServiceKill \/ ServiceSweep PROVE SerialInv'
  <2>1. UNCHANGED <<req, lock, files, kernel>>
    BY <1>28 DEF ServiceKill, ServiceSweep
  <2>2. Bound'
    BY <2>1 DEF Bound, Recorded, Clean
  <2>3. Watched'
    <3>1. CASE ServiceKill
      <4>1. /\ sup = "failed" /\ Systemd /\ sup' # "failed"
            /\ \A l \in Loops : l[2] # "svc" => sp'[l] = sp[l]
        BY <3>1 DEF ServiceKill
      <4>2. \A i : HasLoop(i, {"udev", "user"}) => HasLoop(i, Origins)'
        BY <4>1 DEF HasLoop, Origins
      <4>3. QED
        BY <2>1, <4>1, <4>2 DEF Watched
    <3>2. CASE ServiceSweep
      BY <2>1, <3>2 DEF ServiceSweep, Watched, HasLoop
    <3>3. QED
      BY <1>28, <3>1, <3>2
  <2>4. QED
    BY <2>1, <2>2, <2>3, OutsideKeeps
<1>29. ASSUME NEW e \in Execs, DaemonEnds(e) \/ DaemonCrash(e) PROVE SerialInv'
  <2>1. UNCHANGED <<req, lock, files, gadget, fdirs, links, sp, sup>>
        /\ (UNCHANGED <<attr, exposed>> \/ (attr' = FALSE /\ exposed' = {}))
    BY <1>29 DEF DaemonEnds, DaemonCrash, Ends
  <2>2. Bound'
    BY <2>1 DEF Bound, Recorded, Clean
  <2>3. Watched'
    BY <2>1, WatchedStays DEF req
  <2>4. QED
    BY <2>1, <2>2, <2>3, OutsideKeeps
<1>30. CASE UNCHANGED vars
  <2>1. Bound'
    BY <1>30 DEF vars, Bound, Recorded, Clean
  <2>2. Watched'
    BY <1>30, WatchedStays DEF vars, req
  <2>3. QED
    BY <1>30, <2>1, <2>2, OutsideKeeps DEF vars
<1>31. QED
  BY <1>1, <1>2, <1>3, <1>4, <1>5, <1>6, <1>7, <1>8, <1>9, <1>10, <1>11, <1>12,
     <1>13, <1>14, <1>15, <1>16, <1>17, <1>18, <1>19, <1>20, <1>21, <1>22,
     <1>23, <1>24, <1>25, <1>26, <1>27, <1>28, <1>29, <1>30
     DEF Next, Script, Requests, Background, Outside
-----------------------------------------------------------------------------
(* What it gives *)

\* Requests that run one at a time, none of whose commands fails, keep the
\* invariant.
LEMMA SerialInvHolds == Spec /\ []Undisturbed => []SerialInv
<1>1. Init => SerialInv
  <2> SUFFICES ASSUME Init PROVE SerialInv
    OBVIOUS
  <2>1. Clean /\ \A r \in Reqs : pc[r] = "idle"
    BY DEF Init, Clean
  <2>2. (\A r \in Reqs : Phase(r)) /\ Rest
    BY <2>1 DEF Phase, Rest
  <2>3. Bound /\ Watched
    BY <2>1 DEF Init, Bound, Watched, Clean
  <2>4. QED
    BY <2>2, <2>3 DEF SerialInv
<1>2. TypeOK /\ TypeOK' /\ Undisturbed /\ Undisturbed' /\ SerialInv /\ [Next]_vars => SerialInv'
  BY SerialStep
<1>3. QED
  BY <1>1, <1>2, TypeCorrect, PTL DEF Spec

\* Between requests that did not overlap and did not fail, the functions recorded
\* as started are the ones linked in the gadget.
THEOREM RecordedIsLinkedThm == Spec /\ []Undisturbed => []RecordedIsLinked
<1>1. SerialInv => RecordedIsLinked
  BY DEF SerialInv, RecordedIsLinked, Rest, Clean, Recorded
<1>2. QED
  BY <1>1, SerialInvHolds, PTL

\* Nor does a daemon that counts as started ever lose its loop, whatever systemd
\* kills when the UDC comes late.
THEOREM DaemonHasLoopThm == Spec /\ []Undisturbed => []DaemonHasLoop
<1>1. SerialInv => DaemonHasLoop
  BY DEF SerialInv, DaemonHasLoop, Watched, HasLoop
<1>2. QED
  BY <1>1, SerialInvHolds, PTL

\* One request at a time that starts no failing stage: the instance TLC checks.
THEOREM OneRequestIsUndisturbed ==
  ASSUME NEW r \in Reqs, Reqs = {r}, MaxFail = 0
  PROVE  Spec => []Undisturbed
<1>1. TypeOK => Undisturbed
  BY DEF TypeOK, TypeWorld, Undisturbed, Serial
<1>2. QED
  BY <1>1, TypeCorrect, PTL
-----------------------------------------------------------------------------
(* The refinement of UsbExposure *)

\* A step that changes what is exposed or what is recorded, not both, exposes a
\* gadget only where none was, and records a configuration or nothing.
LEMMA ExposureStep ==
  ASSUME TypeOK, TypeOK', Bound', exposed' # exposed => UNCHANGED funcs,
         exposed' # exposed => exposed = {} \/ exposed' = {},
         funcs' # funcs => Recorded' \in Configs \cup {{}}
  PROVE  Exposure!Next \/ UNCHANGED <<exposed, Recorded \cap Supported>>
<1> DEFINE Wholes == {C \cap Supported : C \in Configs} \ {{}}
<1>1. CASE exposed' # exposed
  <2>1. UNCHANGED (Recorded \cap Supported)
    BY <1>1 DEF Recorded
  <2>2. CASE exposed' = {}
    <3>1. Exposure!Vanish
      BY <1>1, <2>1, <2>2 DEF Exposure!Vanish
    <3>2. QED
      BY <3>1 DEF Exposure!Next
  <2>3. CASE exposed' # {}
    <3>1. exposed = {}
      BY <1>1, <2>3
    <3>2. exposed' \in Wholes
      BY <2>3 DEF Bound
    <3>3. Recorded' \cap Supported \in {{}, exposed'}
      BY <2>3 DEF Bound
    <3>4. Exposure!Appear(exposed')
      BY <2>1, <3>1, <3>3 DEF Exposure!Appear
    <3>5. QED
      BY <3>2, <3>4 DEF Exposure!Next
  <2>4. QED
    BY <2>2, <2>3
<1>2. CASE exposed' = exposed /\ Recorded' \cap Supported # Recorded \cap Supported
  <2>1. Recorded' \in Configs \cup {{}}
    BY <1>2 DEF Recorded
  <2>2. CASE Recorded' \cap Supported = {}
    <3>1. Exposure!Forget
      BY <1>2, <2>2 DEF Exposure!Forget
    <3>2. QED
      BY <3>1 DEF Exposure!Next
  <2>3. CASE Recorded' \cap Supported # {}
    <3>1. Recorded' \cap Supported \in Wholes
      BY <2>1, <2>3
    <3>2. exposed' \in {{}, Recorded' \cap Supported}
      BY <2>3 DEF Bound
    <3>3. Exposure!Record(Recorded' \cap Supported)
      BY <1>2, <3>2 DEF Exposure!Record
    <3>4. QED
      BY <3>1, <3>3 DEF Exposure!Next
  <2>4. QED
    BY <2>2, <2>3
<1>3. QED
  BY <1>1, <1>2

\* While requests neither overlap nor fail, the script keeps the promise of
\* UsbExposure: the host sees whole configurations only, one is replaced only after
\* it was taken away, and what is recorded never contradicts what is exposed.
THEOREM KeepsExposureThm == Spec /\ []Undisturbed => KeepsExposure
<1>1. Init => Exposure!Init
  BY DEF Init, Exposure!Init, Recorded
<1>2. TypeOK /\ TypeOK' /\ SerialInv /\ SerialInv' /\ [Next]_vars
        => [Exposure!Next]_<<exposed, Recorded \cap Supported>>
  <2> SUFFICES ASSUME TypeOK, TypeOK', SerialInv, SerialInv', [Next]_vars
               PROVE  Exposure!Next \/ UNCHANGED <<exposed, Recorded \cap Supported>>
    OBVIOUS
  <2> USE DEF kernel, dirs, files, bg, Unbind
  <2>1. Bound /\ Bound'
    BY DEF SerialInv
  <2>2. ASSUME UNCHANGED funcs, exposed' \in {exposed, {}} \/ exposed = {} \/ (exposed' = links /\ exposed = links)
        PROVE  Exposure!Next \/ UNCHANGED <<exposed, Recorded \cap Supported>>
    BY <2>1, <2>2, ExposureStep
  <2>3. ASSUME UNCHANGED exposed, Recorded' \in Configs \cup {{}}
        PROVE  Exposure!Next \/ UNCHANGED <<exposed, Recorded \cap Supported>>
    BY <2>1, <2>3, ExposureStep
  <2>4. ASSUME NEW r \in Reqs, Gate(r) \/ InitFail(r) \/ Enable(r) \/ Dispatch(r) \/ StopFiles(r) \/ StartDone(r)
        PROVE  Exposure!Next \/ UNCHANGED <<exposed, Recorded \cap Supported>>
    <3>1. UNCHANGED exposed
      BY <2>4 DEF Gate, InitFail, Enable, Dispatch, StopFiles, StartDone
    <3>2. funcs' \in {funcs, NoFile, Recorded} \/ (funcs' = want[r] /\ want[r] \in Configs)
      BY <2>4 DEF Gate, InitFail, Enable, Dispatch, StopFiles, StartDone, SerialInv, Phase
    <3>3. funcs' \in {funcs, NoFile, Recorded} =>
            Recorded' \cap Supported \in {{}, Recorded \cap Supported}
      BY DEF Recorded
    <3>4. funcs' = want[r] /\ want[r] \in Configs => Recorded' \in Configs
      BY InstsAssumption, FileAssumption DEF Recorded, InstsAssumption, FileAssumption
    <3>5. CASE UNCHANGED (Recorded \cap Supported)
      BY <3>1, <3>5
    <3>6. CASE ~UNCHANGED (Recorded \cap Supported)
      <4>1. Recorded' \in Configs \/ funcs' = NoFile \/ Recorded' = {}
        BY <3>2, <3>3, <3>4, <3>6 DEF Recorded
      <4>2. QED
        BY <2>3, <3>1, <4>1 DEF Recorded
    <3>7. QED
      BY <3>5, <3>6
  <2>5. ASSUME NEW r \in Reqs,
               \/ Open(r) \/ Flock(r) \/ Probe(r) \/ Finish(r) \/ StopUnbind(r) \/ StopInst(r)
               \/ StopLinks(r) \/ StartState(r) \/ PrepInst(r) \/ WaitOk(r) \/ WaitFail(r)
               \/ PrepFail(r) \/ StartFail(r)
        PROVE  UNCHANGED funcs /\ exposed' \in {exposed, {}}
    BY <2>5 DEF Open, Flock, Probe, Finish, StopUnbind, StopInst, StopLinks, StartState,
       PrepInst, WaitOk, WaitFail, PrepFail, StartFail
  <2>6. ASSUME NEW r \in Reqs, StartBind(r)
        PROVE  UNCHANGED funcs /\ (UNCHANGED exposed \/ exposed = {})
    BY <2>1, <2>6 DEF StartBind, ToBind, Bound
  <2>7. ASSUME NEW r \in Reqs, Requests(r)
        PROVE  UNCHANGED <<funcs, exposed>>
    BY <2>7 DEF Requests, UdevRequest, UserRequest, ServiceStart, ServiceRestart, RcRetry, ServiceStop
  <2>8. ASSUME Background PROVE UNCHANGED <<funcs, exposed>>
    BY <2>8 DEF Background, LoopCheck, LoopStart, LoopWait
  <2>9. ASSUME Outside
        PROVE  UNCHANGED funcs /\ (exposed' \in {exposed, {}} \/ exposed = {} \/ (exposed' = links /\ exposed = links))
    <3>1. CASE UdcArrives
      BY <2>1, <3>1 DEF UdcArrives, Bound
    <3>2. CASE ~UdcArrives
      BY <2>9, <3>2 DEF Outside, UdcLeaves, HostAdvance, HostLeaves, EditConfig, ServiceKill,
         ServiceSweep, DaemonEnds, DaemonCrash, Ends
    <3>3. QED
      BY <3>1, <3>2
  <2>10. CASE UNCHANGED vars
    BY <2>10 DEF vars, Recorded
  <2>11. QED
    BY <2>2, <2>4, <2>5, <2>6, <2>7, <2>8, <2>9, <2>10 DEF Next, Script
<1>3. QED
  BY <1>1, <1>2, SerialInvHolds, TypeCorrect, PTL DEF Spec, KeepsExposure, Exposure!Spec
-----------------------------------------------------------------------------
(* A stop leaves nothing, even when stages fail *)

Gone ==
  /\ funcs = NoFile /\ dfiles = {} /\ links = {} /\ ~attr /\ exposed = {}
  /\ fdirs \subseteq Ffs \cup items

\* How a stop request gets to its end: never through the start stage, and never
\* past usb_stop with something left that usb_stop can take away.
StopAt(r) ==
  /\ ret[r] = "enable" => act[r] = "restart" /\ pc[r] # "idle"
  /\ pc[r] \in {"enable", "start", "prep", "wait", "startinst"} => act[r] # "stop"
  /\ pc[r] = "stopinst" => ~attr /\ exposed = {}
  /\ pc[r] = "stopfiles" => ~attr /\ exposed = {} /\ links = {} /\ fdirs \subseteq Ffs \cup items
  /\ pc[r] = "done" /\ act[r] = "stop" => Gone
StopInv == \A r \in Reqs : StopAt(r)

\* A request that moves keeps what it says of the others, which are idle.
LEMMA StopStep ==
  ASSUME TypeReq, Serial, Serial', StopInv, NEW r \in Reqs, NEW l, Goto(r, l),
         pc[r] # "idle" \/ l # "idle",
         \A q \in Reqs : q # r => ret'[q] = ret[q] /\ act'[q] = act[q],
         StopAt(r)'
  PROVE  StopInv'
<1>1. ASSUME NEW q \in Reqs, q # r PROVE StopAt(q)'
  <2>1. pc[q] = "idle" /\ pc'[q] = "idle"
    BY <1>1, OthersIdle
  <2>2. ret[q] # "enable"
    BY <2>1 DEF StopInv, StopAt
  <2>3. QED
    BY <1>1, <2>1, <2>2 DEF StopAt
<1>2. QED
  BY <1>1 DEF StopInv

\* Steps outside the script at most unbind the gadget.
LEMMA StopOutside ==
  ASSUME StopInv, UNCHANGED <<req, files, fdirs, items, links>>,
         attr' => attr, exposed' \in {exposed, {}} \/ attr
  PROVE  StopInv'
BY DEF StopInv, StopAt, Gone, req, call, shell, files

\* One request that ends by itself.
LEMMA StopEnds ==
  ASSUME TypeReq, Serial, Serial', StopInv, NEW r \in Reqs, NEW ok, End(r, ok), pc[r] # "idle"
  PROVE  StopInv'
<1>1. Goto(r, "idle") /\ pc'[r] = "idle" /\ ret'[r] = "done"
      /\ \A q \in Reqs : q # r => ret'[q] = ret[q] /\ act'[q] = act[q]
  BY DEF End, TypeReq, Goto
<1>2. StopAt(r)'
  BY <1>1 DEF StopAt
<1>3. QED
  BY <1>1, <1>2, StopStep

\* Whatever fails, a stop request that ends well leaves no record, no daemon file,
\* no link, no bound gadget, and no directory but those of functionfs, which are
\* kept, and those with items of their own, which rmdir refuses.
THEOREM StopIsCleanThm == Spec /\ []Serial => StopIsClean
<1>1. Init => StopInv
  BY DEF Init, StopInv, StopAt
<1>2. TypeOK /\ Serial /\ Serial' /\ StopInv /\ [Next]_vars => StopInv'
  <2> SUFFICES ASSUME TypeOK, Serial, Serial', StopInv, [Next]_vars PROVE StopInv'
    OBVIOUS
  <2> USE DEF TypeOK, call, shell, iter, files, kernel, dirs, bg, Unbind
  <2>1. ASSUME NEW r \in Reqs, Request(r, "update", "udev") \/ Request(r, "restart", "svc")
                 \/ Request(r, "stop", "svc") \/ \E a \in ManualActs : Request(r, a, "user")
        PROVE  StopInv'
    <3>1. Goto(r, "touched") /\ pc'[r] = "touched" /\ pc[r] = "idle" /\ UNCHANGED ret
          /\ \A q \in Reqs : q # r => act'[q] = act[q]
      BY <2>1 DEF Request, TypeReq, Goto
    <3>2. StopAt(r)'
      BY <3>1 DEF StopInv, StopAt
    <3>3. QED
      BY <3>1, <3>2, StopStep
  <2>2. ASSUME NEW r \in Reqs, Open(r) PROVE StopInv'
    <3>1. CASE path = NoInode
      BY <2>2, <3>1, StopEnds DEF Open
    <3>2. CASE path # NoInode
      <4>1. Goto(r, "opened") /\ pc'[r] = "opened" /\ pc[r] # "idle" /\ UNCHANGED <<act, ret>>
        BY <2>2, <3>2 DEF Open, TypeReq, Goto
      <4>2. StopAt(r)'
        BY <4>1 DEF StopInv, StopAt
      <4>3. QED
        BY <4>1, <4>2, StopStep
    <3>3. QED
      BY <3>1, <3>2
  <2>3. ASSUME NEW r \in Reqs, Gate(r) PROVE StopInv'
    <3>1. CASE End(r, TRUE)
      BY <2>3, <3>1, StopEnds DEF Gate
    <3>2. CASE Goto(r, "probe") /\ UNCHANGED <<call, ret>>
      <4>1. pc'[r] = "probe" /\ pc[r] # "idle"
        BY <2>3, <3>2 DEF Gate, TypeReq, Goto
      <4>2. StopAt(r)'
        BY <3>2, <4>1 DEF StopInv, StopAt
      <4>3. QED
        BY <3>2, <4>1, <4>2, StopStep
    <3>3. QED
      BY <2>3, <3>1, <3>2 DEF Gate
  <2>4. ASSUME NEW r \in Reqs, Finish(r) PROVE StopInv'
    BY <2>4, StopEnds DEF Finish
  <2>5. ASSUME NEW r \in Reqs, NEW l \in Labels, l # "idle", Goto(r, l), pc[r] # "idle",
               UNCHANGED <<act, ret>>, StopAt(r)'
        PROVE  StopInv'
    BY <2>5, StopStep
  <2>6. ASSUME NEW r \in Reqs, Flock(r) PROVE StopInv'
    <3>1. Goto(r, "gate") /\ pc'[r] = "gate" /\ pc[r] # "idle" /\ UNCHANGED <<act, ret>>
      BY <2>6 DEF Flock, TypeReq, Goto
    <3>2. StopAt(r)'
      BY <3>1 DEF StopInv, StopAt
    <3>3. QED
      BY <2>5, <3>1, <3>2 DEF Labels
  <2>7. ASSUME NEW r \in Reqs, Probe(r) PROVE StopInv'
    <3>1. PICK l \in {"stop", "dispatch"} :
            Goto(r, l) /\ pc'[r] = l /\ pc[r] # "idle" /\ UNCHANGED act
            /\ (ret'[r] # "enable" \/ UNCHANGED ret)
            /\ \A q \in Reqs : q # r => ret'[q] = ret[q]
      BY <2>7 DEF Probe, TypeReq, Goto
    <3>2. StopAt(r)'
      BY <3>1 DEF StopInv, StopAt
    <3>3. QED
      BY <3>1, <3>2, StopStep
  <2>8. ASSUME NEW r \in Reqs, Dispatch(r) PROVE StopInv'
    <3>1. PICK l \in {"start", "stop"} :
            /\ Goto(r, l) /\ pc'[r] = l /\ pc[r] # "idle" /\ UNCHANGED act
            /\ l = "start" => act[r] # "stop" /\ UNCHANGED ret
            /\ l = "stop" => ret'[r] = "done" \/ (ret'[r] = "enable" /\ act[r] = "restart")
            /\ \A q \in Reqs : q # r => ret'[q] = ret[q]
      BY <2>8 DEF Dispatch, TypeReq, Goto
    <3>2. StopAt(r)'
      BY <3>1 DEF StopInv, StopAt
    <3>3. QED
      BY <3>1, <3>2, StopStep
  <2>9. ASSUME NEW r \in Reqs, StopUnbind(r) PROVE StopInv'
    <3>1. Goto(r, "stopinst") /\ pc'[r] = "stopinst" /\ pc[r] # "idle"
          /\ UNCHANGED <<act, ret>> /\ ~attr' /\ exposed' = {}
      BY <2>9 DEF StopUnbind, TypeReq, Goto
    <3>2. StopAt(r)'
      BY <3>1 DEF StopInv, StopAt
    <3>3. QED
      BY <2>5, <3>1, <3>2 DEF Labels
  <2>10. ASSUME NEW r \in Reqs, StopInst(r) PROVE StopInv'
    <3>1. pc[r] = "stopinst" /\ ~attr /\ exposed = {}
      BY <2>10 DEF StopInst, StopInv, StopAt
    <3>2. Goto(r, "stopinst") /\ pc'[r] = "stopinst" /\ UNCHANGED <<act, ret, attr, exposed>>
      BY <2>10, <3>1 DEF StopInst, TypeReq, Goto
    <3>3. StopAt(r)'
      BY <3>1, <3>2 DEF StopInv, StopAt
    <3>4. QED
      BY <2>5, <3>1, <3>2, <3>3 DEF Labels
  <2>11. ASSUME NEW r \in Reqs, StopLinks(r) PROVE StopInv'
    <3>1. pc[r] = "stopinst" /\ ~attr /\ exposed = {}
      BY <2>11 DEF StopLinks, StopInv, StopAt
    <3>2. Goto(r, "stopfiles") /\ pc'[r] = "stopfiles" /\ UNCHANGED <<act, ret>>
          /\ ~attr' /\ exposed' = {} /\ links' = {} /\ fdirs' \subseteq Ffs \cup items'
      BY <2>11, <3>1 DEF StopLinks, KeptDirs, TypeReq, Goto
    <3>3. StopAt(r)'
      BY <3>1, <3>2 DEF StopInv, StopAt
    <3>4. QED
      BY <2>5, <3>1, <3>2, <3>3 DEF Labels
  <2>12. ASSUME NEW r \in Reqs, StopFiles(r) PROVE StopInv'
    <3>1. pc[r] = "stopfiles" /\ ~attr /\ exposed = {} /\ links = {}
          /\ fdirs \subseteq Ffs \cup items
          /\ (ret[r] = "enable" => act[r] = "restart")
      BY <2>12 DEF StopFiles, StopInv, StopAt
    <3>2. Goto(r, ret[r]) /\ pc'[r] = ret[r] /\ ret[r] \in Returns /\ UNCHANGED <<act, ret>>
      BY <2>12 DEF StopFiles, TypeReq, Goto
    <3>3. Gone'
      BY <2>12, <3>1 DEF StopFiles, Gone
    <3>4. StopAt(r)'
      BY <3>1, <3>2, <3>3 DEF StopAt, Returns
    <3>5. QED
      BY <2>5, <3>1, <3>2, <3>4 DEF Labels, Returns
  <2>13. ASSUME NEW r \in Reqs, NEW l \in {"start", "prep", "wait", "startinst", "done", "failed"},
                pc[r] \in {"enable", "start", "prep", "wait", "startinst"},
                Goto(r, l), UNCHANGED <<act, ret>>
         PROVE  StopInv'
    <3>1. pc'[r] = l /\ act[r] # "stop"
      BY <2>13 DEF StopInv, StopAt, TypeReq, Goto
    <3>2. StopAt(r)'
      BY <2>13, <3>1 DEF StopInv, StopAt
    <3>3. QED
      BY <2>5, <2>13, <3>2 DEF Labels
  <2>14. ASSUME NEW r \in Reqs,
                \/ Enable(r) \/ StartState(r) \/ WaitOk(r) \/ WaitFail(r) \/ PrepFail(r)
                \/ StartBind(r) \/ StartDone(r) \/ StartFail(r)
         PROVE  StopInv'
    BY <2>13, <2>14 DEF Enable, StartState, WaitOk, WaitFail, PrepFail, StartBind, StartDone, StartFail
  <2>15. ASSUME NEW r \in Reqs, PrepInst(r) PROVE StopInv'
    <3>1. pc[r] = "prep" /\ UNCHANGED <<act, ret>> /\ (Goto(r, "wait") \/ UNCHANGED pc)
      BY <2>15 DEF PrepInst
    <3>2. Goto(r, "wait") \/ Goto(r, "prep")
      BY <3>1 DEF Goto, TypeReq
    <3>3. QED
      BY <2>13, <3>1, <3>2
  <2>16. ASSUME NEW r \in Reqs, Requests(r) PROVE StopInv'
    <3>1. CASE RcRetry(r) /\ ~tag
      BY <3>1, StopOutside DEF RcRetry
    <3>2. CASE ~(RcRetry(r) /\ ~tag)
      BY <2>1, <2>16, <3>2 DEF Requests, UdevRequest, UserRequest, ServiceStart, ServiceRestart,
         RcRetry, ServiceStop
    <3>3. QED
      BY <3>1, <3>2
  <2>17. ASSUME Background PROVE StopInv'
    BY <2>17, StopOutside DEF Background, LoopCheck, LoopStart, LoopWait
  <2>18. ASSUME Outside PROVE StopInv'
    BY <2>18, StopOutside DEF Outside, UdcLeaves, UdcArrives, HostAdvance, HostLeaves, EditConfig,
       ServiceKill, ServiceSweep, DaemonEnds, DaemonCrash, Ends
  <2>19. ASSUME NEW r \in Reqs, InitFail(r) PROVE StopInv'
    <3>1. /\ Goto(r, "stop") /\ pc'[r] = "stop" /\ pc[r] # "idle" /\ UNCHANGED act
          /\ ret'[r] = "failed" /\ \A q \in Reqs : q # r => ret'[q] = ret[q]
      BY <2>19 DEF InitFail, TypeReq, Goto
    <3>2. StopAt(r)'
      BY <3>1 DEF StopAt
    <3>3. QED
      BY <3>1, <3>2, StopStep
  <2>20. CASE UNCHANGED vars
    BY <2>20, StopOutside DEF vars
  <2>21. QED
    BY <2>2, <2>3, <2>4, <2>6, <2>7, <2>8, <2>9, <2>10, <2>11, <2>12, <2>14, <2>15, <2>16,
       <2>17, <2>18, <2>19, <2>20 DEF Next, Script
<1>3. StopInv => \A r \in Reqs : pc[r] = "done" /\ act[r] = "stop" => Gone
  BY DEF StopInv, StopAt
<1>4. (\A r \in Reqs : pc[r] = "done" /\ act[r] = "stop" => Gone) =>
        [\A r \in Reqs : pc[r] = "done" /\ act[r] = "stop" /\ pc'[r] = "idle"
           => /\ funcs = NoFile /\ dfiles = {} /\ links = {} /\ ~attr /\ exposed = {}
              /\ fdirs \subseteq Ffs \cup items]_vars
  BY DEF Gone
<1>5. QED
  BY <1>1, <1>2, <1>3, <1>4, TypeCorrect, PTL DEF Spec, StopIsClean
=============================================================================
