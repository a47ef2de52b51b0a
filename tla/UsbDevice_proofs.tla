--------------------------- MODULE UsbDevice_proofs ---------------------------
(***************************************************************************)
(* Proofs about usbdevice, for any number of concurrent requests, any      *)
(* instances and configurations, and every bound.                          *)
(***************************************************************************)
EXTENDS UsbDevice, TLAPS

\* Every variable keeps its type: no step of the script, of the loops, of the
\* service or of the kernel leaves the state the model describes.
THEOREM TypeCorrect == Spec => []TypeOK
<1> USE InstsAssumption, FileAssumption, BoundsAssumption
    DEF InstsAssumption, FileAssumption, BoundsAssumption
<1> USE DEF TypeOK, Labels, States, Acts, Origins, Returns
<1>1. Init => TypeOK
  <2> SUFFICES ASSUME Init PROVE TypeOK
    OBVIOUS
  <2>1. TypeReq
    BY DEF Init, TypeReq
  <2>2. TypeLock
    BY DEF Init, TypeLock
  <2>3. TypeFiles
    BY DEF Init, TypeFiles
  <2>4. TypeKernel
    BY DEF Init, TypeKernel
  <2>5. TypeBg
    BY DEF Init, TypeBg
  <2>6. TypeWorld
    <3>1. sup \in {"off", "starting", "up", "failed", "killed", "sleep", "gaveup"} /\ starts \in Nat
      BY DEF Init
    <3>2. cfg \in Configs /\ pend \in BOOLEAN
      BY DEF Init
    <3>3. env \in 0..MaxEnv /\ fails \in 0..MaxFail
      BY DEF Init
    <3>4. QED
      BY <3>1, <3>2, <3>3 DEF TypeWorld
  <2>7. QED
    BY <2>1, <2>2, <2>3, <2>4, <2>5, <2>6
<1>2. TypeOK /\ [Next]_vars => TypeOK'
  <2> SUFFICES ASSUME TypeOK, [Next]_vars PROVE TypeOK'
    OBVIOUS
  <2> USE DEF req, call, shell, iter, files, lock, dirs, kernel, usb, bg, world, bounds, Unbind
  <2>1. ASSUME NEW r \in Reqs, Open(r) PROVE TypeOK'
    <3>1. TypeReq'
      <4>1. CASE path = NoInode
        BY <4>1, <2>1 DEF Open, End, Goto, TypeReq
      <4>2. CASE path # NoInode
        BY <4>2, <2>1 DEF Open, Goto, TypeReq
      <4>3. QED
        BY <4>1, <4>2
    <3>2. TypeLock'
      BY <2>1 DEF Open, End, Goto, TypeLock
    <3>3. TypeWorld'
      BY <2>1 DEF Open, End, Goto, TypeWorld
    <3>4. TypeFiles' /\ TypeKernel' /\ TypeBg'
      BY <2>1 DEF Open, TypeFiles, TypeKernel, TypeBg, End
    <3>5. QED
      BY <3>1, <3>2, <3>3, <3>4
  <2>2. ASSUME NEW r \in Reqs, Flock(r) PROVE TypeOK'
    <3>1. TypeReq'
      BY <2>2 DEF Flock, Goto, TypeReq
    <3>2. TypeLock' /\ TypeFiles' /\ TypeKernel' /\ TypeBg' /\ TypeWorld'
      BY <2>2 DEF Flock, TypeLock, TypeFiles, TypeKernel, TypeBg, TypeWorld
    <3>3. QED
      BY <3>1, <3>2
  <2>3. ASSUME NEW r \in Reqs, Gate(r) PROVE TypeOK'
    <3>1. TypeReq'
      BY <2>3 DEF Gate, End, Goto, TypeReq, TypeWorld
    <3>2. TypeLock'
      BY <2>3 DEF Gate, End, Goto, TypeLock
    <3>3. TypeFiles'
      BY <2>3 DEF Gate, End, Goto, TypeFiles
    <3>4. TypeKernel'
      BY <2>3 DEF Gate, End, Goto, TypeKernel
    <3>5. TypeWorld'
      BY <2>3 DEF Gate, End, Goto, TypeWorld
    <3>6. TypeBg'
      BY <2>3 DEF Gate, TypeBg, End
    <3>7. QED
      BY <3>1, <3>2, <3>3, <3>4, <3>5, <3>6
  <2>4. ASSUME NEW r \in Reqs, Probe(r) PROVE TypeOK'
    <3>1. TypeReq'
      BY <2>4 DEF Probe, Goto, FuncsChanged, Recorded, TypeReq, TypeFiles,
         TypeKernel
    <3>2. TypeLock' /\ TypeFiles' /\ TypeKernel' /\ TypeBg' /\ TypeWorld'
      BY <2>4 DEF Probe, TypeLock, TypeFiles, TypeKernel, TypeBg, TypeWorld
    <3>3. QED
      BY <3>1, <3>2
  <2>5. ASSUME NEW r \in Reqs, Dispatch(r) PROVE TypeOK'
    <3>1. TypeReq'
      BY <2>5 DEF Dispatch, Goto, Recorded, TypeReq
    <3>2. TypeFiles'
      BY <2>5 DEF Dispatch, Goto, Recorded, TypeFiles
    <3>3. TypeLock' /\ TypeKernel' /\ TypeBg' /\ TypeWorld'
      BY <2>5 DEF Dispatch, TypeLock, TypeKernel, TypeBg, TypeWorld
    <3>4. QED
      BY <3>1, <3>2, <3>3
  <2>6. ASSUME NEW r \in Reqs, Enable(r) PROVE TypeOK'
    <3>1. TypeReq'
      BY <2>6 DEF Enable, Goto, Recorded, TypeReq
    <3>2. TypeFiles'
      BY <2>6 DEF Enable, Goto, Recorded, TypeFiles
    <3>3. TypeLock' /\ TypeKernel' /\ TypeBg' /\ TypeWorld'
      BY <2>6 DEF Enable, TypeLock, TypeKernel, TypeBg, TypeWorld
    <3>4. QED
      BY <3>1, <3>2, <3>3
  <2>7. ASSUME NEW r \in Reqs, Finish(r) PROVE TypeOK'
    <3>1. TypeReq'
      BY <2>7 DEF Finish, End, Goto, TypeReq
    <3>2. TypeLock'
      BY <2>7 DEF Finish, End, Goto, TypeLock
    <3>3. TypeWorld'
      BY <2>7 DEF Finish, End, Goto, TypeWorld
    <3>4. TypeFiles' /\ TypeKernel' /\ TypeBg'
      BY <2>7 DEF Finish, TypeFiles, TypeKernel, TypeBg, End
    <3>5. QED
      BY <3>1, <3>2, <3>3, <3>4
  <2>8. ASSUME NEW r \in Reqs, StopUnbind(r) PROVE TypeOK'
    <3>1. TypeReq'
      BY <2>8 DEF StopUnbind, Goto, TypeReq
    <3>2. TypeFiles'
      BY <2>8 DEF StopUnbind, Goto, TypeFiles
    <3>3. TypeKernel'
      BY <2>8 DEF StopUnbind, Goto, TypeKernel
    <3>4. TypeWorld'
      BY <2>8 DEF StopUnbind, TypeWorld
    <3>5. TypeLock' /\ TypeBg'
      BY <2>8 DEF StopUnbind, TypeLock, TypeBg
    <3>6. QED
      BY <3>1, <3>2, <3>3, <3>4, <3>5
  <2>9. ASSUME NEW r \in Reqs, StopInst(r) PROVE TypeOK'
    <3>1. TypeReq'
      BY <2>9 DEF StopInst, TypeReq
    <3>2. TypeFiles'
      BY <2>9 DEF StopInst, TypeFiles
    <3>3. TypeBg'
      <4>1. \A es : Kill(es) => (es \subseteq Execs => dying' \subseteq Execs)
        BY DEF Kill, TypeBg
      <4>2. \A i \in dfiles : Exec[i] \in Execs
        BY DEF TypeFiles
      <4>3. dying' \subseteq Execs
        BY <2>9, <4>1, <4>2 DEF StopInst
      <4>4. QED
        BY <2>9, <4>3 DEF StopInst, TypeBg
    <3>4. TypeLock' /\ TypeKernel' /\ TypeWorld'
      BY <2>9 DEF StopInst, TypeLock, TypeKernel, TypeWorld
    <3>5. QED
      BY <3>1, <3>2, <3>3, <3>4
  <2>10. ASSUME NEW r \in Reqs, StopLinks(r) PROVE TypeOK'
    <3>1. TypeReq'
      BY <2>10 DEF StopLinks, Goto, TypeReq
    <3>2. TypeKernel'
      BY <2>10 DEF StopLinks, Goto, KeptDirs, TypeKernel
    <3>3. TypeWorld'
      BY <2>10 DEF StopLinks, TypeWorld
    <3>4. TypeLock' /\ TypeFiles' /\ TypeBg'
      BY <2>10 DEF StopLinks, TypeLock, TypeFiles, TypeBg
    <3>5. QED
      BY <3>1, <3>2, <3>3, <3>4
  <2>11. ASSUME NEW r \in Reqs, StopFiles(r) PROVE TypeOK'
    <3>1. TypeReq'
      BY <2>11 DEF StopFiles, Goto, TypeReq
    <3>2. TypeLock'
      BY <2>11 DEF StopFiles, Goto, TypeLock
    <3>3. TypeFiles'
      BY <2>11 DEF StopFiles, Goto, TypeFiles
    <3>4. TypeKernel' /\ TypeBg' /\ TypeWorld'
      BY <2>11 DEF StopFiles, TypeKernel, TypeBg, TypeWorld
    <3>5. QED
      BY <3>1, <3>2, <3>3, <3>4
  <2>12. ASSUME NEW r \in Reqs, StartState(r) PROVE TypeOK'
    <3>1. TypeReq'
      BY <2>12 DEF StartState, Goto, TypeReq
    <3>2. TypeFiles'
      BY <2>12 DEF StartState, Goto, TypeFiles
    <3>3. TypeKernel'
      BY <2>12 DEF StartState, Goto, TypeKernel
    <3>4. TypeBg'
      <4>1. \A i \in dfiles : Exec[i] \in Execs
        BY DEF TypeFiles
      <4>2. dying' \subseteq Execs
        BY <2>12, <4>1 DEF StartState, Kill, TypeBg
      <4>3. QED
        BY <2>12, <4>2 DEF StartState, TypeBg
    <3>5. TypeWorld'
      BY <2>12 DEF StartState, TypeWorld
    <3>6. TypeLock'
      BY <2>12 DEF StartState, TypeLock
    <3>7. QED
      BY <3>1, <3>2, <3>3, <3>4, <3>5, <3>6
  <2>a. ASSUME NEW r \in Reqs, NEW i, StartDaemon(r, i), UNCHANGED <<up, dying>>
        PROVE  TypeBg' /\ dfiles' \subseteq Daemons
    <3>1. CASE i \in Daemons \ dfiles
      <4>1. PICK k \in Slots : sp' = [sp EXCEPT ![<<i, org[r], k>>] = "loop"]
        BY <2>a, <3>1 DEF StartDaemon
      <4>2. sp' \in [Loops -> {"none", "loop", "start", "wait"}]
        BY <4>1 DEF TypeBg
      <4>3. dfiles' \subseteq Daemons
        BY <2>a, <3>1 DEF StartDaemon, TypeFiles
      <4>4. QED
        BY <2>a, <4>2, <4>3 DEF TypeBg
    <3>2. CASE i \notin Daemons \ dfiles
      BY <2>a, <3>2 DEF StartDaemon, TypeBg, TypeFiles
    <3>3. QED
      BY <3>1, <3>2
  <2>13. ASSUME NEW r \in Reqs, PrepInst(r) PROVE TypeOK'
    <3>1. TypeReq'
      BY <2>13 DEF PrepInst, Goto, Made, Link, TypeReq
    <3>2. TypeKernel'
      BY <2>13 DEF PrepInst, Goto, Made, Fill, Link, TypeKernel, TypeReq
    <3>3. TypeBg' /\ dfiles' \subseteq Daemons
      <4>1. PICK i \in todo[r] :
              IF i \in Supported THEN StartDaemon(r, i) ELSE UNCHANGED <<dfiles, sp>>
        BY <2>13 DEF PrepInst
      <4>2. UNCHANGED <<up, dying>>
        BY <2>13 DEF PrepInst
      <4>3. QED
        BY <2>a, <4>1, <4>2 DEF TypeBg, TypeFiles
    <3>4. TypeFiles'
      BY <2>13, <3>3 DEF PrepInst, TypeFiles
    <3>5. TypeLock' /\ TypeWorld'
      BY <2>13 DEF PrepInst, TypeLock, TypeWorld
    <3>6. QED
      BY <3>1, <3>2, <3>3, <3>4, <3>5
  <2>14. ASSUME NEW r \in Reqs, WaitOk(r) PROVE TypeOK'
    <3>1. TypeReq'
      BY <2>14 DEF WaitOk, Goto, Link, TypeReq
    <3>2. TypeKernel'
      BY <2>14 DEF WaitOk, Goto, Link, TypeKernel, TypeReq
    <3>3. TypeLock' /\ TypeFiles' /\ TypeBg' /\ TypeWorld'
      BY <2>14 DEF WaitOk, TypeLock, TypeFiles, TypeBg, TypeWorld
    <3>4. QED
      BY <3>1, <3>2, <3>3
  <2>15. ASSUME NEW r \in Reqs, WaitFail(r) PROVE TypeOK'
    <3>1. TypeReq'
      BY <2>15 DEF WaitFail, Goto, TypeReq
    <3>2. TypeWorld'
      BY <2>15 DEF WaitFail, Goto, TypeWorld
    <3>3. TypeLock' /\ TypeFiles' /\ TypeKernel' /\ TypeBg'
      BY <2>15 DEF WaitFail, TypeLock, TypeFiles, TypeKernel, TypeBg
    <3>4. QED
      BY <3>1, <3>2, <3>3
  <2>16. ASSUME NEW r \in Reqs, PrepFail(r) PROVE TypeOK'
    <3>1. TypeReq'
      BY <2>16 DEF PrepFail, Goto, TypeReq
    <3>2. PICK i \in todo[r] \cap Supported :
            /\ fdirs' = fdirs \cup {i}
            /\ \/ UNCHANGED <<items, dfiles, sp>>
               \/ Fill(i) /\ StartDaemon(r, i)
      BY <2>16 DEF PrepFail
    <3>3. TypeKernel'
      BY <2>16, <3>2 DEF PrepFail, Fill, Made, TypeKernel
    <3>4. TypeBg' /\ dfiles' \subseteq Daemons
      BY <2>16, <2>a, <3>2 DEF PrepFail, TypeBg, TypeFiles
    <3>5. TypeFiles'
      BY <2>16, <3>4 DEF PrepFail, TypeFiles
    <3>6. TypeWorld'
      BY <2>16 DEF PrepFail, TypeWorld
    <3>7. TypeLock'
      BY <2>16 DEF PrepFail, TypeLock
    <3>8. QED
      BY <3>1, <3>3, <3>4, <3>5, <3>6, <3>7
  <2>17. ASSUME NEW r \in Reqs, StartBind(r) PROVE TypeOK'
    <3>1. TypeReq'
      BY <2>17 DEF StartBind, Goto, CanBind, TypeReq
    <3>2. TypeKernel'
      BY <2>17 DEF StartBind, Goto, CanBind, TypeKernel
    <3>3. TypeWorld'
      <4>1. pend' \in BOOLEAN /\ (UNCHANGED fails \/ (fails < MaxFail /\ fails' = fails + 1))
        BY <2>17 DEF StartBind, TypeWorld
      <4>2. QED
        BY <2>17, <4>1 DEF StartBind, TypeWorld
    <3>4. TypeLock' /\ TypeFiles' /\ TypeBg'
      BY <2>17 DEF StartBind, TypeLock, TypeFiles, TypeBg
    <3>5. QED
      BY <3>1, <3>2, <3>3, <3>4
  <2>18. ASSUME NEW r \in Reqs, StartDone(r) PROVE TypeOK'
    <3>1. TypeReq'
      BY <2>18 DEF StartDone, Goto, TypeReq
    <3>2. TypeFiles'
      BY <2>18 DEF StartDone, Goto, TypeFiles, TypeReq
    <3>3. TypeLock' /\ TypeKernel' /\ TypeBg' /\ TypeWorld'
      BY <2>18 DEF StartDone, TypeLock, TypeKernel, TypeBg, TypeWorld
    <3>4. QED
      BY <3>1, <3>2, <3>3
  <2>19. ASSUME NEW r \in Reqs, StartFail(r) PROVE TypeOK'
    <3>1. TypeReq'
      BY <2>19 DEF StartFail, Goto, TypeReq
    <3>2. TypeWorld'
      BY <2>19 DEF StartFail, Goto, TypeWorld
    <3>3. TypeLock' /\ TypeFiles' /\ TypeKernel' /\ TypeBg'
      BY <2>19 DEF StartFail, TypeLock, TypeFiles, TypeKernel, TypeBg
    <3>4. QED
      BY <3>1, <3>2, <3>3
  <2>20. ASSUME NEW r \in Reqs, UdevRequest(r) PROVE TypeOK'
    <3>1. TypeReq'
      BY <2>20 DEF UdevRequest, Request, Goto, FreeInodes, TypeReq
    <3>2. TypeLock'
      BY <2>20 DEF UdevRequest, Request, Goto, FreeInodes, TypeLock
    <3>3. TypeWorld'
      BY <2>20 DEF UdevRequest, Request, Goto, FreeInodes, TypeWorld
    <3>4. TypeFiles' /\ TypeKernel' /\ TypeBg'
      BY <2>20 DEF UdevRequest, TypeFiles, TypeKernel, TypeBg, Request
    <3>5. QED
      BY <3>1, <3>2, <3>3, <3>4
  <2>21. ASSUME NEW r \in Reqs, UserRequest(r) PROVE TypeOK'
    <3>1. TypeReq'
      BY <2>21 DEF UserRequest, Env, Request, Goto, FreeInodes, TypeReq
    <3>2. TypeLock'
      BY <2>21 DEF UserRequest, Env, Request, Goto, FreeInodes, TypeLock
    <3>3. TypeWorld'
      BY <2>21 DEF UserRequest, Env, Request, Goto, FreeInodes, TypeWorld
    <3>4. TypeFiles' /\ TypeKernel' /\ TypeBg'
      BY <2>21 DEF UserRequest, TypeFiles, TypeKernel, TypeBg, Request
    <3>5. QED
      BY <3>1, <3>2, <3>3, <3>4
  <2>22. ASSUME NEW r \in Reqs, ServiceStart(r) PROVE TypeOK'
    <3>1. TypeReq'
      BY <2>22 DEF ServiceStart, Request, Goto, FreeInodes, TypeReq
    <3>2. TypeLock'
      BY <2>22 DEF ServiceStart, Request, Goto, FreeInodes, TypeLock
    <3>3. TypeFiles'
      BY <2>22 DEF ServiceStart, Request, Goto, FreeInodes, TypeFiles
    <3>4. TypeWorld'
      BY <2>22 DEF ServiceStart, Request, Goto, FreeInodes, TypeWorld
    <3>5. TypeKernel' /\ TypeBg'
      BY <2>22 DEF ServiceStart, TypeKernel, TypeBg, Request
    <3>6. QED
      BY <3>1, <3>2, <3>3, <3>4, <3>5
  <2>23. ASSUME NEW r \in Reqs, ServiceRestart(r) PROVE TypeOK'
    <3>1. TypeReq'
      BY <2>23 DEF ServiceRestart, Request, Goto, FreeInodes, TypeReq
    <3>2. TypeLock'
      BY <2>23 DEF ServiceRestart, Request, Goto, FreeInodes, TypeLock
    <3>3. TypeWorld'
      BY <2>23 DEF ServiceRestart, Request, Goto, FreeInodes, TypeWorld
    <3>4. TypeFiles' /\ TypeKernel' /\ TypeBg'
      BY <2>23 DEF ServiceRestart, TypeFiles, TypeKernel, TypeBg, Request
    <3>5. QED
      BY <3>1, <3>2, <3>3, <3>4
  <2>24. ASSUME NEW r \in Reqs, RcRetry(r) PROVE TypeOK'
    <3>1. TypeReq'
      BY <2>24 DEF RcRetry, Request, Goto, FreeInodes, TypeReq
    <3>2. TypeLock'
      BY <2>24 DEF RcRetry, Request, Goto, FreeInodes, TypeLock
    <3>3. TypeWorld'
      BY <2>24 DEF RcRetry, Request, Goto, FreeInodes, TypeWorld
    <3>4. TypeFiles' /\ TypeKernel' /\ TypeBg'
      BY <2>24 DEF RcRetry, TypeFiles, TypeKernel, TypeBg, Request
    <3>5. QED
      BY <3>1, <3>2, <3>3, <3>4
  <2>25. ASSUME NEW r \in Reqs, ServiceStop(r) PROVE TypeOK'
    <3>1. TypeReq'
      BY <2>25 DEF ServiceStop, Env, Request, Goto, FreeInodes, TypeReq
    <3>2. TypeLock'
      BY <2>25 DEF ServiceStop, Env, Request, Goto, FreeInodes, TypeLock
    <3>3. TypeFiles'
      BY <2>25 DEF ServiceStop, Env, Request, Goto, FreeInodes, TypeFiles
    <3>4. TypeWorld'
      BY <2>25 DEF ServiceStop, Env, Request, Goto, FreeInodes, TypeWorld
    <3>5. TypeKernel' /\ TypeBg'
      BY <2>25 DEF ServiceStop, TypeKernel, TypeBg, Request
    <3>6. QED
      BY <3>1, <3>2, <3>3, <3>4, <3>5
  <2>26. ASSUME NEW l \in Loops, LoopCheck(l) PROVE TypeOK'
    <3>1. TypeBg'
      BY <2>26 DEF LoopCheck, Loops, TypeBg
    <3>2. TypeReq' /\ TypeLock' /\ TypeFiles' /\ TypeKernel' /\ TypeWorld'
      BY <2>26 DEF LoopCheck, TypeReq, TypeLock, TypeFiles, TypeKernel, TypeWorld
    <3>3. QED
      BY <3>1, <3>2
  <2>27. ASSUME NEW l \in Loops, LoopStart(l) PROVE TypeOK'
    <3>1. TypeBg'
      BY <2>27 DEF LoopStart, Loops, TypeBg
    <3>2. TypeReq' /\ TypeLock' /\ TypeFiles' /\ TypeKernel' /\ TypeWorld'
      BY <2>27 DEF LoopStart, TypeReq, TypeLock, TypeFiles, TypeKernel, TypeWorld
    <3>3. QED
      BY <3>1, <3>2
  <2>28. ASSUME NEW l \in Loops, LoopWait(l) PROVE TypeOK'
    <3>1. TypeBg'
      BY <2>28 DEF LoopWait, TypeBg
    <3>2. TypeReq' /\ TypeLock' /\ TypeFiles' /\ TypeKernel' /\ TypeWorld'
      BY <2>28 DEF LoopWait, TypeReq, TypeLock, TypeFiles, TypeKernel, TypeWorld
    <3>3. QED
      BY <3>1, <3>2
  <2>29. ASSUME UdcLeaves PROVE TypeOK'
    <3>1. TypeKernel'
      BY <2>29 DEF UdcLeaves, Env, TypeKernel
    <3>2. TypeWorld'
      BY <2>29 DEF UdcLeaves, Env, TypeWorld
    <3>3. TypeReq' /\ TypeLock' /\ TypeFiles' /\ TypeBg'
      BY <2>29 DEF UdcLeaves, TypeReq, TypeLock, TypeFiles, TypeBg
    <3>4. QED
      BY <3>1, <3>2, <3>3
  <2>30. ASSUME UdcArrives PROVE TypeOK'
    <3>1. TypeKernel'
      BY <2>30 DEF UdcArrives, CanBind, TypeKernel
    <3>2. TypeWorld'
      BY <2>30 DEF UdcArrives, CanBind, TypeWorld
    <3>3. TypeReq' /\ TypeLock' /\ TypeFiles' /\ TypeBg'
      BY <2>30 DEF UdcArrives, TypeReq, TypeLock, TypeFiles, TypeBg
    <3>4. QED
      BY <3>1, <3>2, <3>3
  <2>31. ASSUME HostAdvance PROVE TypeOK'
    <3>1. TypeKernel'
      BY <2>31 DEF HostAdvance, TypeKernel
    <3>2. TypeWorld'
      BY <2>31 DEF HostAdvance, TypeWorld
    <3>3. TypeReq' /\ TypeLock' /\ TypeFiles' /\ TypeBg'
      BY <2>31 DEF HostAdvance, TypeReq, TypeLock, TypeFiles, TypeBg
    <3>4. QED
      BY <3>1, <3>2, <3>3
  <2>32. ASSUME HostLeaves PROVE TypeOK'
    <3>1. TypeKernel'
      BY <2>32 DEF HostLeaves, Env, TypeKernel
    <3>2. TypeWorld'
      BY <2>32 DEF HostLeaves, Env, TypeWorld
    <3>3. TypeReq' /\ TypeLock' /\ TypeFiles' /\ TypeBg'
      BY <2>32 DEF HostLeaves, TypeReq, TypeLock, TypeFiles, TypeBg
    <3>4. QED
      BY <3>1, <3>2, <3>3
  <2>33. ASSUME EditConfig PROVE TypeOK'
    <3>1. TypeWorld'
      BY <2>33 DEF EditConfig, Env, TypeWorld
    <3>2. TypeReq' /\ TypeLock' /\ TypeFiles' /\ TypeKernel' /\ TypeBg'
      BY <2>33 DEF EditConfig, TypeReq, TypeLock, TypeFiles, TypeKernel, TypeBg
    <3>3. QED
      BY <3>1, <3>2
  <2>34. ASSUME ServiceKill PROVE TypeOK'
    <3>1. TypeBg'
      BY <2>34 DEF ServiceKill, Kill, Served, TypeBg
    <3>2. TypeWorld'
      BY <2>34 DEF ServiceKill, TypeWorld
    <3>3. TypeReq' /\ TypeLock' /\ TypeFiles' /\ TypeKernel'
      BY <2>34 DEF ServiceKill, TypeReq, TypeLock, TypeFiles, TypeKernel
    <3>4. QED
      BY <3>1, <3>2, <3>3
  <2>35. ASSUME ServiceSweep PROVE TypeOK'
    <3>1. TypeWorld'
      BY <2>35 DEF ServiceSweep, TypeWorld
    <3>2. TypeReq' /\ TypeLock' /\ TypeFiles' /\ TypeKernel' /\ TypeBg'
      BY <2>35 DEF ServiceSweep, TypeReq, TypeLock, TypeFiles, TypeKernel, TypeBg
    <3>3. QED
      BY <3>1, <3>2
  <2>36. ASSUME NEW e \in Execs, DaemonEnds(e) \/ DaemonCrash(e) PROVE TypeOK'
    <3>1. TypeKernel'
      BY <2>36 DEF DaemonEnds, DaemonCrash, Env, Ends, TypeKernel
    <3>2. TypeBg'
      BY <2>36 DEF DaemonEnds, DaemonCrash, Env, Ends, TypeBg
    <3>3. TypeWorld'
      <4>1. pend' \in BOOLEAN
        BY <2>36 DEF DaemonEnds, DaemonCrash, Ends, TypeWorld
      <4>2. UNCHANGED fails /\ (UNCHANGED env \/ (env < MaxEnv /\ env' = env + 1))
        BY <2>36 DEF DaemonEnds, DaemonCrash, Env
      <4>3. UNCHANGED <<sup, starts, cfg>>
        BY <2>36 DEF DaemonEnds, DaemonCrash
      <4>4. QED
        BY <4>1, <4>2, <4>3 DEF TypeWorld
    <3>4. TypeReq' /\ TypeLock' /\ TypeFiles'
      BY <2>36 DEF DaemonEnds, DaemonCrash, TypeReq, TypeLock, TypeFiles
    <3>5. QED
      BY <3>1, <3>2, <3>3, <3>4
  <2>37. ASSUME NEW r \in Reqs, InitFail(r) PROVE TypeOK'
    <3>1. TypeReq'
      BY <2>37 DEF InitFail, Goto, TypeReq, TypeWorld
    <3>2. TypeFiles'
      BY <2>37 DEF InitFail, TypeFiles
    <3>3. TypeKernel'
      BY <2>37 DEF InitFail, TypeKernel
    <3>4. TypeWorld'
      BY <2>37 DEF InitFail, TypeWorld
    <3>5. TypeLock' /\ TypeBg'
      BY <2>37 DEF InitFail, TypeLock, TypeBg
    <3>6. QED
      BY <3>1, <3>2, <3>3, <3>4, <3>5
  <2>38. CASE UNCHANGED vars
    BY <2>38 DEF vars, TypeReq, TypeLock, TypeFiles, TypeKernel, TypeBg, TypeWorld
  <2>39. QED
    BY <2>1, <2>2, <2>3, <2>4, <2>5, <2>6, <2>7, <2>8, <2>9, <2>10, <2>11,
       <2>12, <2>13, <2>14, <2>15, <2>16, <2>17, <2>18, <2>19, <2>20, <2>21,
       <2>22, <2>23, <2>24, <2>25, <2>26, <2>27, <2>28, <2>29, <2>30, <2>31,
       <2>32, <2>33, <2>34, <2>35, <2>36, <2>37, <2>38
    DEF Next, Script, Requests, Background, Outside
<1>3. QED
  BY <1>1, <1>2, PTL DEF Spec

-----------------------------------------------------------------------------
\* A step that keeps the descriptors and the path, and moves requests only
\* within the critical section, is a stutter of the protocol.
LEMMA InsideStutter ==
  ASSUME NEW r \in Reqs, NEW l \in Labels, TypeReq, Goto(r, l), Inside(r),
         l \notin {"idle", "touched", "opened"}, UNCHANGED lock
  PROVE  UNCHANGED Lock!vars
BY DEF Lock!vars, TypeReq, Goto, Inside, lock

\* A request enters the protocol by touching the lock file.
LEMMA RequestTouches ==
  ASSUME NEW r \in Reqs, NEW a, NEW o, TypeReq, Request(r, a, o)
  PROVE  Lock!Touch(r)
BY DEF Request, Goto, Inside, TypeReq, FreeInodes, Lock!Touch, Lock!Touched,
   Lock!FreeInodes

\* The end of a script releases the lock.
LEMMA EndReleases ==
  ASSUME NEW r \in Reqs, NEW ok, TypeReq, Inside(r), End(r, ok), UNCHANGED path
  PROVE  Lock!Release(r)
BY DEF End, Goto, Inside, TypeReq, Lock!Release

\* Every behaviour of the script is one of the lock protocol whose owner may
\* unlink the lock file: "Lock it" (line 784) gives this much and no more.
THEOREM ImplementsLock == Spec => LockProtocol
<1> USE DEF Labels, Returns
<1>1. Init => Lock!Init
  BY DEF Init, Lock!Init, Inside
<1>2. TypeOK /\ [Next]_vars => [Lock!Next]_Lock!vars
  <2> SUFFICES ASSUME TypeOK, [Next]_vars PROVE Lock!Next \/ UNCHANGED Lock!vars
    OBVIOUS
  <2> TypeReq
    BY DEF TypeOK
  <2>1. ASSUME NEW r \in Reqs, Open(r) PROVE Lock!Next \/ UNCHANGED Lock!vars
    <3>1. Lock!Open(r)
      <4>1. CASE path = NoInode
        BY <2>1, <4>1 DEF Open, End, Goto, Inside, TypeReq, Lock!Open
      <4>2. CASE path # NoInode
        BY <2>1, <4>2 DEF Open, Goto, Inside, TypeReq, Lock!Open
      <4>3. QED
        BY <4>1, <4>2
    <3>2. QED
      BY <3>1 DEF Lock!Next
  <2>2. ASSUME NEW r \in Reqs, Flock(r) PROVE Lock!Next \/ UNCHANGED Lock!vars
    <3>1. Lock!Flock(r)
      BY <2>2 DEF Flock, LockFree, Goto, Inside, TypeReq, lock, Lock!Flock,
         Lock!Free
    <3>2. QED
      BY <3>1 DEF Lock!Next
  <2>3. ASSUME NEW r \in Reqs, Gate(r) PROVE Lock!Next \/ UNCHANGED Lock!vars
    <3>1. CASE act[r] = "update" /\ funcs = NoFile
      BY <2>3, <3>1, EndReleases DEF Gate, Inside, Lock!Next
    <3>2. CASE ~(act[r] = "update" /\ funcs = NoFile)
      BY <2>3, <3>2, InsideStutter DEF Gate, Inside, lock
    <3>3. QED
      BY <3>1, <3>2
  <2>4. ASSUME NEW r \in Reqs, Finish(r) PROVE Lock!Next \/ UNCHANGED Lock!vars
    BY <2>4, EndReleases DEF Finish, Inside, Lock!Next
  <2>5. ASSUME NEW r \in Reqs, StopFiles(r) PROVE Lock!Next \/ UNCHANGED Lock!vars
    <3>1. Lock!Unlink(r)
      BY <2>5 DEF StopFiles, Goto, Inside, TypeReq, Lock!Unlink
    <3>2. QED
      BY <3>1 DEF Lock!Next
  <2>6. ASSUME NEW r \in Reqs, Probe(r) PROVE Lock!Next \/ UNCHANGED Lock!vars
    BY <2>6, InsideStutter DEF Probe, Inside, lock
  <2>7. ASSUME NEW r \in Reqs, Dispatch(r) PROVE Lock!Next \/ UNCHANGED Lock!vars
    BY <2>7, InsideStutter DEF Dispatch, Inside, lock
  <2>8. ASSUME NEW r \in Reqs, Enable(r) PROVE Lock!Next \/ UNCHANGED Lock!vars
    BY <2>8, InsideStutter DEF Enable, Inside, lock
  <2>9. ASSUME NEW r \in Reqs, StopUnbind(r) PROVE Lock!Next \/ UNCHANGED Lock!vars
    BY <2>9, InsideStutter DEF StopUnbind, Inside, lock
  <2>10. ASSUME NEW r \in Reqs, StopInst(r) PROVE Lock!Next \/ UNCHANGED Lock!vars
    BY <2>10 DEF StopInst, lock, Lock!vars, Inside
  <2>11. ASSUME NEW r \in Reqs, StopLinks(r) PROVE Lock!Next \/ UNCHANGED Lock!vars
    BY <2>11, InsideStutter DEF StopLinks, Inside, lock
  <2>12. ASSUME NEW r \in Reqs, StartState(r) PROVE Lock!Next \/ UNCHANGED Lock!vars
    BY <2>12, InsideStutter DEF StartState, Inside, lock
  <2>13. ASSUME NEW r \in Reqs, PrepInst(r) PROVE Lock!Next \/ UNCHANGED Lock!vars
    <3>1. Inside(r) /\ UNCHANGED lock /\ (Goto(r, "wait") \/ UNCHANGED pc)
      BY <2>13 DEF PrepInst, Inside
    <3>2. CASE Goto(r, "wait")
      BY <3>1, <3>2, InsideStutter
    <3>3. CASE UNCHANGED pc
      BY <3>1, <3>3 DEF lock, Inside, Lock!vars
    <3>4. QED
      BY <3>1, <3>2, <3>3
  <2>14. ASSUME NEW r \in Reqs, WaitOk(r) PROVE Lock!Next \/ UNCHANGED Lock!vars
    BY <2>14, InsideStutter DEF WaitOk, Inside, lock
  <2>15. ASSUME NEW r \in Reqs, WaitFail(r) PROVE Lock!Next \/ UNCHANGED Lock!vars
    BY <2>15, InsideStutter DEF WaitFail, Inside, lock
  <2>16. ASSUME NEW r \in Reqs, PrepFail(r) PROVE Lock!Next \/ UNCHANGED Lock!vars
    BY <2>16, InsideStutter DEF PrepFail, Inside, lock
  <2>17. ASSUME NEW r \in Reqs, StartBind(r) PROVE Lock!Next \/ UNCHANGED Lock!vars
    BY <2>17, InsideStutter DEF StartBind, Inside, lock
  <2>18. ASSUME NEW r \in Reqs, StartDone(r) PROVE Lock!Next \/ UNCHANGED Lock!vars
    BY <2>18, InsideStutter DEF StartDone, Inside, lock
  <2>19. ASSUME NEW r \in Reqs, StartFail(r) PROVE Lock!Next \/ UNCHANGED Lock!vars
    BY <2>19, InsideStutter DEF StartFail, Inside, lock
  <2>20. ASSUME NEW r \in Reqs, UdevRequest(r) PROVE Lock!Next \/ UNCHANGED Lock!vars
    BY <2>20, RequestTouches DEF UdevRequest, Lock!Next
  <2>21. ASSUME NEW r \in Reqs, UserRequest(r) PROVE Lock!Next \/ UNCHANGED Lock!vars
    BY <2>21, RequestTouches DEF UserRequest, Lock!Next
  <2>22. ASSUME NEW r \in Reqs, ServiceStart(r) PROVE Lock!Next \/ UNCHANGED Lock!vars
    BY <2>22, RequestTouches DEF ServiceStart, Lock!Next
  <2>23. ASSUME NEW r \in Reqs, ServiceRestart(r) PROVE Lock!Next \/ UNCHANGED Lock!vars
    BY <2>23, RequestTouches DEF ServiceRestart, Lock!Next
  <2>24. ASSUME NEW r \in Reqs, RcRetry(r) PROVE Lock!Next \/ UNCHANGED Lock!vars
    <3>1. CASE tag
      BY <2>24, <3>1, RequestTouches DEF RcRetry, Lock!Next
    <3>2. CASE ~tag
      BY <2>24, <3>2 DEF RcRetry, req, lock, Inside, Lock!vars
    <3>3. QED
      BY <3>1, <3>2
  <2>25. ASSUME NEW r \in Reqs, ServiceStop(r) PROVE Lock!Next \/ UNCHANGED Lock!vars
    BY <2>25, RequestTouches DEF ServiceStop, Lock!Next
  <2>26. ASSUME Background PROVE Lock!Next \/ UNCHANGED Lock!vars
    BY <2>26 DEF Background, LoopCheck, LoopStart, LoopWait, req, lock,
       Inside, Lock!vars
  <2>27. ASSUME Outside PROVE Lock!Next \/ UNCHANGED Lock!vars
    BY <2>27 DEF Outside, UdcLeaves, UdcArrives, HostAdvance, HostLeaves,
       EditConfig, ServiceKill, ServiceSweep, DaemonEnds, DaemonCrash,
       req, lock, Inside, Lock!vars
  <2>28. ASSUME NEW r \in Reqs, InitFail(r) PROVE Lock!Next \/ UNCHANGED Lock!vars
    BY <2>28, InsideStutter DEF InitFail, Inside, lock
  <2>29. CASE UNCHANGED vars
    BY <2>29 DEF vars, req, lock, Inside, Lock!vars
  <2>30. QED
    BY <2>1, <2>2, <2>3, <2>4, <2>5, <2>6, <2>7, <2>8, <2>9, <2>10, <2>11,
       <2>12, <2>13, <2>14, <2>15, <2>16, <2>17, <2>18, <2>19, <2>20, <2>21,
       <2>22, <2>23, <2>24, <2>25, <2>26, <2>27, <2>28, <2>29
       DEF Next, Script, Requests
<1>3. QED
  BY <1>1, <1>2, TypeCorrect, PTL DEF Spec, LockProtocol, Lock!Spec

\* What the lock gives the script: two requests inside hold locks on distinct
\* inodes, so at most one of them has locked the file the path names now.
LP == INSTANCE UsbLock_proofs WITH
        MayUnlink <- TRUE,
        lpc <- [r \in Reqs |-> IF Inside(r) THEN "in"
                               ELSE IF pc[r] = "idle" THEN "out" ELSE pc[r]]

\* The exclusion the lock protocol gives, for the script that implements it.
THEOREM InsideInodesDiffer == Spec => []Lock!InodeExclusion
<1>1. LP!Spec => []LP!InodeExclusion
  BY LP!InodeExclusionThm
<1>2. Lock!Init => LP!Init
  BY DEF Lock!Init, LP!Init
<1>3. [Lock!Next]_Lock!vars => [LP!Next]_LP!vars
  BY DEF Lock!Next, LP!Next, Lock!vars, LP!vars, Lock!Touch, LP!Touch, Lock!Touched,
         LP!Touched, Lock!FreeInodes, LP!FreeInodes, Lock!Open, LP!Open, Lock!Flock,
         LP!Flock, Lock!Free, LP!Free, Lock!Unlink, LP!Unlink, Lock!Release, LP!Release
<1>4. LP!InodeExclusion => Lock!InodeExclusion
  BY DEF LP!InodeExclusion, Lock!InodeExclusion
<1>5. QED
  BY <1>1, <1>2, <1>3, <1>4, ImplementsLock, PTL DEF LockProtocol, Lock!Spec,
     LP!Spec
=============================================================================
