-------------------------- MODULE DiskHelper_proofs --------------------------
(***************************************************************************)
(* Proofs about the disk helpers, for any partitions, options, numbers of  *)
(* boots and of failures.                                                  *)
(***************************************************************************)
EXTENDS DiskHelper, TLAPS

\* The part of the state that each partition has of its own keeps its type.
TypeDisk ==
  /\ fs \in [Parts -> {"good", "bad"}] /\ full \in [Parts -> BOOLEAN]
  /\ data \in [Parts -> BOOLEAN]
  /\ marker \in [Parts -> BOOLEAN] /\ under \in [Parts -> BOOLEAN]
TypeRun ==
  /\ pc \in [Parts -> Labels]
  /\ mode \in [Parts -> {"ro", "rw"}]
  /\ backup \in [Parts -> {"none", "partial", "bare", "full"}]
TypeMount ==
  /\ mnt \in [Parts -> {"no", "ro", "rw"}] /\ was \in [Parts -> {"no", "ro", "rw"}]
TypeRest ==
  /\ helper \in {"mount", "resize"} /\ auto \in BOOLEAN /\ skip \in BOOLEAN
  /\ boots \in Nat /\ fails \in 0..MaxFail

\* The four parts together are the type invariant.
LEMMA TypeParts == TypeOK <=> TypeDisk /\ TypeRun /\ TypeMount /\ TypeRest
BY DEF TypeOK, TypeDisk, TypeRun, TypeMount, TypeRest

\* What is mounted when a helper starts has a mode for every partition.
LEMMA MountsType == ASSUME NEW h, NEW f PROVE Mounts(h, f) \subseteq [Parts -> {"no", "ro", "rw"}]
BY DEF Mounts

\* Every variable keeps its type.
THEOREM TypeCorrect == Spec => []TypeOK
<1> USE DiskAssumption DEF DiskAssumption
<1>1. Init => TypeOK
  BY MountsType DEF Init, TypeOK, Labels
<1>2. TypeOK /\ [Next]_vars => TypeOK'
  <2> SUFFICES ASSUME TypeOK, [Next]_vars PROVE TypeOK'
    OBVIOUS
  <2> USE DEF At, Labels, setup, disk
  <2>0. TypeDisk /\ TypeRun /\ TypeMount /\ TypeRest
    BY TypeParts
  <2>1. ASSUME NEW p \in Parts, Prepare(p) PROVE TypeOK'
    <3>1. TypeDisk'
      BY <2>0, <2>1 DEF Prepare, Goto, IsRo, TypeDisk
    <3>2. TypeRun'
      BY <2>0, <2>1 DEF Prepare, Goto, IsRo, TypeRun
    <3>3. TypeMount'
      BY <2>0, <2>1 DEF Prepare, Goto, IsRo, TypeMount
    <3>4. TypeRest'
      BY <2>0, <2>1 DEF Prepare, Goto, IsRo, TypeRest
    <3>5. QED
      BY <3>1, <3>2, <3>3, <3>4 DEF TypeOK, TypeDisk, TypeRun, TypeMount, TypeRest
  <2>2. ASSUME NEW p \in Parts, PrepareFail(p) PROVE TypeOK'
    <3>1. TypeDisk'
      BY <2>0, <2>2 DEF PrepareFail, Fails, Goto, TypeDisk
    <3>2. TypeRun'
      BY <2>0, <2>2 DEF PrepareFail, Fails, Goto, TypeRun
    <3>3. TypeMount'
      BY <2>0, <2>2 DEF PrepareFail, Fails, Goto, TypeMount
    <3>4. TypeRest'
      BY <2>0, <2>2 DEF PrepareFail, Fails, Goto, TypeRest
    <3>5. QED
      BY <3>1, <3>2, <3>3, <3>4 DEF TypeOK, TypeDisk, TypeRun, TypeMount, TypeRest
  <2>3. ASSUME NEW p \in Parts, PrepareUbi(p) PROVE TypeOK'
    <3>1. TypeDisk'
      <4>1. CASE ~AutoMkfs
        BY <2>0, <2>3, <4>1 DEF PrepareUbi, TypeDisk
      <4>2. CASE AutoMkfs
        <5>1. PICK ok \in {"good", "bad"} :
                /\ fs' = [fs EXCEPT ![p] = ok] /\ full' = [full EXCEPT ![p] = ok = "good"]
                /\ data' = [data EXCEPT ![p] = FALSE] /\ marker' = [marker EXCEPT ![p] = FALSE]
                /\ UNCHANGED under
          BY <2>3, <4>2 DEF PrepareUbi
        <5>2. fs' \in [Parts -> {"good", "bad"}]
          BY <2>0, <5>1 DEF TypeDisk
        <5>3. full' \in [Parts -> BOOLEAN]
          BY <2>0, <5>1, Zenon DEF TypeDisk
        <5>4. data' \in [Parts -> BOOLEAN] /\ marker' \in [Parts -> BOOLEAN]
              /\ under' \in [Parts -> BOOLEAN]
          BY <2>0, <5>1 DEF TypeDisk
        <5>5. QED
          BY <5>2, <5>3, <5>4 DEF TypeDisk
      <4>3. QED
        BY <4>1, <4>2
    <3>2. TypeRun'
      BY <2>0, <2>3 DEF PrepareUbi, Fails, Goto, AutoMkfs, TypeRun
    <3>3. TypeMount'
      BY <2>0, <2>3 DEF PrepareUbi, Fails, Goto, AutoMkfs, TypeMount
    <3>4. TypeRest'
      BY <2>0, <2>3 DEF PrepareUbi, Fails, Goto, AutoMkfs, TypeRest
    <3>5. QED
      BY <3>1, <3>2, <3>3, <3>4 DEF TypeOK, TypeDisk, TypeRun, TypeMount, TypeRest
  <2>4. ASSUME NEW p \in Parts, Check(p) PROVE TypeOK'
    <3>1. TypeDisk'
      BY <2>0, <2>4 DEF Check, Remount, Remounts, RemountFails, Fails, Goto, TypeDisk
    <3>2. TypeRun'
      BY <2>0, <2>4 DEF Check, Remount, Remounts, RemountFails, Fails, Goto, TypeRun
    <3>3. TypeMount'
      BY <2>0, <2>4 DEF Check, Remount, Remounts, RemountFails, Fails, Goto, TypeMount
    <3>4. TypeRest'
      BY <2>0, <2>4 DEF Check, Remount, Remounts, RemountFails, Fails, Goto, TypeRest
    <3>5. QED
      BY <3>1, <3>2, <3>3, <3>4 DEF TypeOK, TypeDisk, TypeRun, TypeMount, TypeRest
  <2>5. ASSUME NEW p \in Parts, MountIsThere(p) PROVE TypeOK'
    <3>1. TypeDisk'
      BY <2>0, <2>5 DEF MountIsThere, Remembered, Mounted, Goto, TypeDisk
    <3>2. TypeRun'
      BY <2>0, <2>5 DEF MountIsThere, Remembered, Mounted, Goto, TypeRun
    <3>3. TypeMount'
      BY <2>0, <2>5 DEF MountIsThere, Remembered, Mounted, Goto, TypeMount
    <3>4. TypeRest'
      BY <2>0, <2>5 DEF MountIsThere, Remembered, Mounted, Goto, TypeRest
    <3>5. QED
      BY <3>1, <3>2, <3>3, <3>4 DEF TypeOK, TypeDisk, TypeRun, TypeMount, TypeRest
  <2>6. ASSUME NEW p \in Parts, Mount(p) PROVE TypeOK'
    <3>1. TypeDisk'
      BY <2>0, <2>6 DEF Mount, Mounted, Goto, TypeDisk
    <3>2. TypeRun'
      BY <2>0, <2>6 DEF Mount, Mounted, Goto, TypeRun
    <3>3. TypeMount'
      BY <2>0, <2>6 DEF Mount, Mounted, Goto, TypeMount
    <3>4. TypeRest'
      BY <2>0, <2>6 DEF Mount, Mounted, Goto, TypeRest
    <3>5. QED
      BY <3>1, <3>2, <3>3, <3>4 DEF TypeOK, TypeDisk, TypeRun, TypeMount, TypeRest
  <2>7. ASSUME NEW p \in Parts, MountFail(p) PROVE TypeOK'
    <3>1. TypeDisk'
      BY <2>0, <2>7 DEF MountFail, Fails, AutoMkfs, Mounted, Goto, TypeDisk
    <3>2. TypeRun'
      BY <2>0, <2>7 DEF MountFail, Fails, AutoMkfs, Mounted, Goto, TypeRun
    <3>3. TypeMount'
      BY <2>0, <2>7 DEF MountFail, Fails, AutoMkfs, Mounted, Goto, TypeMount
    <3>4. TypeRest'
      BY <2>0, <2>7 DEF MountFail, Fails, AutoMkfs, Mounted, Goto, TypeRest
    <3>5. QED
      BY <3>1, <3>2, <3>3, <3>4 DEF TypeOK, TypeDisk, TypeRun, TypeMount, TypeRest
  <2>8. ASSUME NEW p \in Parts, MountAgainFail(p) PROVE TypeOK'
    <3>1. TypeDisk'
      BY <2>0, <2>8 DEF MountAgainFail, Fails, NotMounted, Goto, TypeDisk
    <3>2. TypeRun'
      BY <2>0, <2>8 DEF MountAgainFail, Fails, NotMounted, Goto, TypeRun
    <3>3. TypeMount'
      BY <2>0, <2>8 DEF MountAgainFail, Fails, NotMounted, Goto, TypeMount
    <3>4. TypeRest'
      BY <2>0, <2>8 DEF MountAgainFail, Fails, NotMounted, Goto, TypeRest
    <3>5. QED
      BY <3>1, <3>2, <3>3, <3>4 DEF TypeOK, TypeDisk, TypeRun, TypeMount, TypeRest
  <2>9. ASSUME NEW p \in Parts, MkfsFail(p) PROVE TypeOK'
    <3>1. TypeDisk'
      BY <2>0, <2>9 DEF MkfsFail, Fails, NotMounted, Goto, TypeDisk
    <3>2. TypeRun'
      BY <2>0, <2>9 DEF MkfsFail, Fails, NotMounted, Goto, TypeRun
    <3>3. TypeMount'
      BY <2>0, <2>9 DEF MkfsFail, Fails, NotMounted, Goto, TypeMount
    <3>4. TypeRest'
      BY <2>0, <2>9 DEF MkfsFail, Fails, NotMounted, Goto, TypeRest
    <3>5. QED
      BY <3>1, <3>2, <3>3, <3>4 DEF TypeOK, TypeDisk, TypeRun, TypeMount, TypeRest
  <2>10. ASSUME NEW p \in Parts, Mkfs(p) PROVE TypeOK'
    <3>1. TypeDisk'
      BY <2>0, <2>10 DEF Mkfs, Wipe, Goto, TypeDisk
    <3>2. TypeRun'
      BY <2>0, <2>10 DEF Mkfs, Wipe, Goto, TypeRun
    <3>3. TypeMount'
      BY <2>0, <2>10 DEF Mkfs, Wipe, Goto, TypeMount
    <3>4. TypeRest'
      BY <2>0, <2>10 DEF Mkfs, Wipe, Goto, TypeRest
    <3>5. QED
      BY <3>1, <3>2, <3>3, <3>4 DEF TypeOK, TypeDisk, TypeRun, TypeMount, TypeRest
  <2>11. ASSUME NEW p \in Parts, Made(p) PROVE TypeOK'
    <3>1. TypeDisk'
      <4>1. CASE Make(p)
        BY <2>0, <4>1 DEF Make, TypeDisk
      <4>2. CASE UNCHANGED disk
        BY <2>0, <4>2 DEF TypeDisk
      <4>3. QED
        BY <2>11, <4>1, <4>2 DEF Made
    <3>2. TypeRun'
      BY <2>0, <2>11 DEF Made, Make, Fails, NotMounted, Goto, TypeRun
    <3>3. TypeMount'
      BY <2>0, <2>11 DEF Made, Make, Fails, NotMounted, Goto, TypeMount
    <3>4. TypeRest'
      BY <2>0, <2>11 DEF Made, Make, Fails, NotMounted, Goto, TypeRest
    <3>5. QED
      BY <3>1, <3>2, <3>3, <3>4 DEF TypeOK, TypeDisk, TypeRun, TypeMount, TypeRest
  <2>12. ASSUME NEW p \in Parts, Resize(p) PROVE TypeOK'
    <3>1. TypeDisk'
      BY <2>0, <2>12 DEF Resize, Remount, Remounts, RemountFails, Fails, Goto, TypeDisk
    <3>2. TypeRun'
      BY <2>0, <2>12 DEF Resize, Remount, Remounts, RemountFails, Fails, Goto, TypeRun
    <3>3. TypeMount'
      BY <2>0, <2>12 DEF Resize, Remount, Remounts, RemountFails, Fails, Goto, TypeMount
    <3>4. TypeRest'
      BY <2>0, <2>12 DEF Resize, Remount, Remounts, RemountFails, Fails, Goto, TypeRest
    <3>5. QED
      BY <3>1, <3>2, <3>3, <3>4 DEF TypeOK, TypeDisk, TypeRun, TypeMount, TypeRest
  <2>13. ASSUME NEW p \in Parts, Grow(p) PROVE TypeOK'
    <3>1. TypeDisk'
      BY <2>0, <2>13 DEF Grow, Goto, TypeDisk
    <3>2. TypeRun'
      BY <2>0, <2>13 DEF Grow, Goto, TypeRun
    <3>3. TypeMount'
      BY <2>0, <2>13 DEF Grow, Goto, TypeMount
    <3>4. TypeRest'
      BY <2>0, <2>13 DEF Grow, Goto, TypeRest
    <3>5. QED
      BY <3>1, <3>2, <3>3, <3>4 DEF TypeOK, TypeDisk, TypeRun, TypeMount, TypeRest
  <2>14. ASSUME NEW p \in Parts, Mark(p) PROVE TypeOK'
    <3>1. TypeDisk'
      BY <2>0, <2>14 DEF Mark, Goto, Touched, RootRw, TypeDisk
    <3>2. TypeRun'
      BY <2>0, <2>14 DEF Mark, Goto, Touched, RootRw, TypeRun
    <3>3. TypeMount'
      BY <2>0, <2>14 DEF Mark, Goto, Touched, RootRw, TypeMount
    <3>4. TypeRest'
      BY <2>0, <2>14 DEF Mark, Goto, Touched, RootRw, TypeRest
    <3>5. QED
      BY <3>1, <3>2, <3>3, <3>4 DEF TypeOK, TypeDisk, TypeRun, TypeMount, TypeRest
  <2>15. ASSUME NEW p \in Parts, Backup(p) PROVE TypeOK'
    <3>1. TypeDisk'
      BY <2>0, <2>15 DEF Backup, Fails, Goto, TypeDisk
    <3>2. TypeRun'
      BY <2>0, <2>15 DEF Backup, Fails, Goto, TypeRun
    <3>3. TypeMount'
      BY <2>0, <2>15 DEF Backup, Fails, Goto, TypeMount
    <3>4. TypeRest'
      BY <2>0, <2>15 DEF Backup, Fails, Goto, TypeRest
    <3>5. QED
      BY <3>1, <3>2, <3>3, <3>4 DEF TypeOK, TypeDisk, TypeRun, TypeMount, TypeRest
  <2>16. ASSUME NEW p \in Parts, Umount(p) PROVE TypeOK'
    <3>1. TypeDisk'
      BY <2>0, <2>16 DEF Umount, Fails, Goto, TypeDisk
    <3>2. TypeRun'
      BY <2>0, <2>16 DEF Umount, Fails, Goto, TypeRun
    <3>3. TypeMount'
      BY <2>0, <2>16 DEF Umount, Fails, Goto, TypeMount
    <3>4. TypeRest'
      BY <2>0, <2>16 DEF Umount, Fails, Goto, TypeRest
    <3>5. QED
      BY <3>1, <3>2, <3>3, <3>4 DEF TypeOK, TypeDisk, TypeRun, TypeMount, TypeRest
  <2>17. ASSUME NEW p \in Parts, FormatFail(p) PROVE TypeOK'
    <3>1. TypeDisk'
      BY <2>0, <2>17 DEF FormatFail, Fails, Goto, TypeDisk
    <3>2. TypeRun'
      BY <2>0, <2>17 DEF FormatFail, Fails, Goto, TypeRun
    <3>3. TypeMount'
      BY <2>0, <2>17 DEF FormatFail, Fails, Goto, TypeMount
    <3>4. TypeRest'
      BY <2>0, <2>17 DEF FormatFail, Fails, Goto, TypeRest
    <3>5. QED
      BY <3>1, <3>2, <3>3, <3>4 DEF TypeOK, TypeDisk, TypeRun, TypeMount, TypeRest
  <2>18. ASSUME NEW p \in Parts, Format(p) PROVE TypeOK'
    <3>1. TypeDisk'
      BY <2>0, <2>18 DEF Format, Wipe, Goto, TypeDisk
    <3>2. TypeRun'
      BY <2>0, <2>18 DEF Format, Wipe, Goto, TypeRun
    <3>3. TypeMount'
      BY <2>0, <2>18 DEF Format, Wipe, Goto, TypeMount
    <3>4. TypeRest'
      BY <2>0, <2>18 DEF Format, Wipe, Goto, TypeRest
    <3>5. QED
      BY <3>1, <3>2, <3>3, <3>4 DEF TypeOK, TypeDisk, TypeRun, TypeMount, TypeRest
  <2>19. ASSUME NEW p \in Parts, Formatted(p) PROVE TypeOK'
    <3>1. TypeDisk'
      <4>1. CASE Make(p)
        BY <2>0, <4>1 DEF Make, TypeDisk
      <4>2. CASE UNCHANGED disk
        BY <2>0, <4>2 DEF TypeDisk
      <4>3. QED
        BY <2>19, <4>1, <4>2 DEF Formatted
    <3>2. TypeRun'
      BY <2>0, <2>19 DEF Formatted, Make, Fails, Goto, TypeRun
    <3>3. TypeMount'
      BY <2>0, <2>19 DEF Formatted, Make, Fails, Goto, TypeMount
    <3>4. TypeRest'
      BY <2>0, <2>19 DEF Formatted, Make, Fails, Goto, TypeRest
    <3>5. QED
      BY <3>1, <3>2, <3>3, <3>4 DEF TypeOK, TypeDisk, TypeRun, TypeMount, TypeRest
  <2>20. ASSUME NEW p \in Parts, Restore(p) PROVE TypeOK'
    <3>1. TypeDisk'
      BY <2>0, <2>20 DEF Restore, Remounts, RemountFails, Goto, Touched, RootRw, Fails, TypeDisk
    <3>2. TypeRun'
      BY <2>0, <2>20 DEF Restore, Remounts, RemountFails, Goto, Touched, RootRw, Fails, TypeRun
    <3>3. TypeMount'
      BY <2>0, <2>20 DEF Restore, Remounts, RemountFails, Goto, Touched, RootRw, Fails, TypeMount
    <3>4. TypeRest'
      BY <2>0, <2>20 DEF Restore, Remounts, RemountFails, Goto, Touched, RootRw, Fails, TypeRest
    <3>5. QED
      BY <3>1, <3>2, <3>3, <3>4 DEF TypeOK, TypeDisk, TypeRun, TypeMount, TypeRest
  <2>21. ASSUME NEW p \in Parts, Drop(p) PROVE TypeOK'
    <3>1. TypeDisk'
      BY <2>0, <2>21 DEF Drop, Goto, TypeDisk
    <3>2. TypeRun'
      BY <2>0, <2>21 DEF Drop, Goto, TypeRun
    <3>3. TypeMount'
      BY <2>0, <2>21 DEF Drop, Goto, TypeMount
    <3>4. TypeRest'
      BY <2>0, <2>21 DEF Drop, Goto, TypeRest
    <3>5. QED
      BY <3>1, <3>2, <3>3, <3>4 DEF TypeOK, TypeDisk, TypeRun, TypeMount, TypeRest
  <2>22. ASSUME NEW p \in Parts, SetMode(p) PROVE TypeOK'
    <3>1. TypeDisk'
      BY <2>0, <2>22 DEF SetMode, Remounts, RemountFails, Fails, Goto, TypeDisk
    <3>2. TypeRun'
      BY <2>0, <2>22 DEF SetMode, Remounts, RemountFails, Fails, Goto, TypeRun
    <3>3. TypeMount'
      <4>1. PICK m \in {"ro", "rw"} : Remounts(p, m) \/ RemountFails(p, m)
        BY <2>0, <2>22 DEF SetMode, TypeRun
      <4>2. mnt' \in [Parts -> {"no", "ro", "rw"}]
        BY <2>0, <4>1 DEF Remounts, RemountFails, TypeMount
      <4>3. QED
        BY <2>0, <2>22, <4>2 DEF SetMode, TypeMount
    <3>4. TypeRest'
      BY <2>0, <2>22 DEF SetMode, Remounts, RemountFails, Fails, Goto, TypeRest
    <3>5. QED
      BY <3>1, <3>2, <3>3, <3>4 DEF TypeOK, TypeDisk, TypeRun, TypeMount, TypeRest
  <2>23. CASE Boot
    BY <2>23, MountsType DEF Boot, TypeOK
  <2>24. CASE UNCHANGED vars
    BY <2>24 DEF vars, TypeOK
  <2>25. QED
    BY <2>1, <2>2, <2>3, <2>4, <2>5, <2>6, <2>7, <2>8, <2>9, <2>10, <2>11,
       <2>12, <2>13, <2>14, <2>15, <2>16, <2>17, <2>18, <2>19, <2>20, <2>21,
       <2>22, <2>23, <2>24 DEF Next, do_part
<1>3. QED
  BY <1>1, <1>2, PTL DEF Spec

-----------------------------------------------------------------------------
\* Why a marked file system is full: whoever is about to touch .resized has just
\* resized or made the file system, and a fallback in mount_part comes from mkfs.
Grown(p) ==
  /\ marker[p] => full[p]
  /\ pc[p] \in {"mark", "again", "restore"} => full[p]
  /\ pc[p] = "mount" /\ backup[p] # "none" => full[p]
  /\ pc[p] \in {"off", "check"} => backup[p] = "none"

AllGrown == \A p \in Parts : Grown(p)

\* No partition is marked as resized while its file system leaves room: for any
\* crashes and failures (resize_part, touch .resized).
THEOREM MarkerTrue == Spec => []MarkerMeansFull
<1> USE DiskAssumption DEF DiskAssumption
<1>1. Init => AllGrown
  BY DEF Init, Mounts, AllGrown, Grown
<1>2. TypeOK /\ AllGrown /\ [Next]_vars => AllGrown'
  <2> SUFFICES ASSUME TypeOK, AllGrown, [Next]_vars PROVE AllGrown'
    OBVIOUS
  <2> USE DEF At, setup, disk, AllGrown, Grown
  <2>1. ASSUME NEW p \in Parts, Prepare(p) PROVE AllGrown'
    BY <2>1 DEF Prepare, Goto, IsRo, TypeOK
  <2>2. ASSUME NEW p \in Parts, PrepareFail(p) PROVE AllGrown'
    BY <2>2 DEF PrepareFail, Fails, Goto, TypeOK
  <2>3. ASSUME NEW p \in Parts, PrepareUbi(p) PROVE AllGrown'
    BY <2>3 DEF PrepareUbi, Fails, Goto, AutoMkfs, TypeOK
  <2>4. ASSUME NEW p \in Parts, Check(p) PROVE AllGrown'
    BY <2>4 DEF Check, Remount, Remounts, RemountFails, Fails, Goto, TypeOK
  <2>5. ASSUME NEW p \in Parts, MountIsThere(p) PROVE AllGrown'
    BY <2>5 DEF MountIsThere, Remembered, Mounted, Goto, TypeOK
  <2>6. ASSUME NEW p \in Parts, Mount(p) PROVE AllGrown'
    BY <2>6 DEF Mount, Mounted, Goto, TypeOK
  <2>7. ASSUME NEW p \in Parts, MountFail(p) PROVE AllGrown'
    BY <2>7 DEF MountFail, Fails, AutoMkfs, Mounted, Goto, TypeOK
  <2>8. ASSUME NEW p \in Parts, MountAgainFail(p) PROVE AllGrown'
    BY <2>8 DEF MountAgainFail, Fails, NotMounted, Goto, TypeOK
  <2>9. ASSUME NEW p \in Parts, MkfsFail(p) PROVE AllGrown'
    BY <2>9 DEF MkfsFail, Fails, NotMounted, Goto, TypeOK
  <2>10. ASSUME NEW p \in Parts, Mkfs(p) PROVE AllGrown'
    BY <2>10 DEF Mkfs, Wipe, Goto, TypeOK
  <2>11. ASSUME NEW p \in Parts, Made(p) PROVE AllGrown'
    BY <2>11 DEF Made, Make, Fails, NotMounted, Goto, TypeOK
  <2>12. ASSUME NEW p \in Parts, Resize(p) PROVE AllGrown'
    BY <2>12 DEF Resize, Remount, Remounts, RemountFails, Fails, Goto, TypeOK
  <2>13. ASSUME NEW p \in Parts, Grow(p) PROVE AllGrown'
    BY <2>13 DEF Grow, Goto, TypeOK
  <2>14. ASSUME NEW p \in Parts, Mark(p) PROVE AllGrown'
    BY <2>14 DEF Mark, Goto, Touched, RootRw, TypeOK
  <2>15. ASSUME NEW p \in Parts, Backup(p) PROVE AllGrown'
    BY <2>15 DEF Backup, Fails, Goto, TypeOK
  <2>16. ASSUME NEW p \in Parts, Umount(p) PROVE AllGrown'
    BY <2>16 DEF Umount, Fails, Goto, TypeOK
  <2>17. ASSUME NEW p \in Parts, FormatFail(p) PROVE AllGrown'
    BY <2>17 DEF FormatFail, Fails, Goto, TypeOK
  <2>18. ASSUME NEW p \in Parts, Format(p) PROVE AllGrown'
    BY <2>18 DEF Format, Wipe, Goto, TypeOK
  <2>19. ASSUME NEW p \in Parts, Formatted(p) PROVE AllGrown'
    BY <2>19 DEF Formatted, Make, Fails, Goto, TypeOK
  <2>20. ASSUME NEW p \in Parts, Restore(p) PROVE AllGrown'
    BY <2>20 DEF Restore, Remounts, RemountFails, Goto, Touched, RootRw, Fails, TypeOK
  <2>21. ASSUME NEW p \in Parts, Drop(p) PROVE AllGrown'
    BY <2>21 DEF Drop, Goto, TypeOK
  <2>22. ASSUME NEW p \in Parts, SetMode(p) PROVE AllGrown'
    BY <2>22 DEF SetMode, Remounts, RemountFails, Fails, Goto, TypeOK
  <2>23. CASE Boot
    BY <2>23 DEF Boot, Mounts, TypeOK
  <2>24. CASE UNCHANGED vars
    BY <2>24 DEF vars
  <2>25. QED
    BY <2>1, <2>2, <2>3, <2>4, <2>5, <2>6, <2>7, <2>8, <2>9, <2>10, <2>11,
       <2>12, <2>13, <2>14, <2>15, <2>16, <2>17, <2>18, <2>19, <2>20, <2>21,
       <2>22, <2>23, <2>24 DEF Next, do_part
<1>3. AllGrown => MarkerMeansFull
  BY DEF AllGrown, Grown, MarkerMeansFull
<1>4. QED
  BY <1>1, <1>2, <1>3, TypeCorrect, PTL DEF Spec

-----------------------------------------------------------------------------
\* Why files are wiped with a copy in hand: past the backup of a mounted partition
\* the copy is complete, and mount_part only formats when it was allowed to.
Copied(p) ==
  /\ pc[p] = "umount" /\ mnt[p] # "no" /\ data[p] => backup[p] = "full"
  /\ pc[p] = "wipe" /\ data[p] => backup[p] = "full"
  /\ pc[p] = "mkfs" => AutoMkfs

AllCopied == \A p \in Parts : Copied(p)

\* The user's files are only wiped with a complete copy in hand, or by the leave
\* of /.auto_mkfs: whatever fails, and whenever the power does.
THEOREM WipedWithCopyThm == Spec => WipedWithCopy
<1> USE DiskAssumption DEF DiskAssumption
<1>1. Init => AllCopied
  BY DEF Init, Mounts, AllCopied, Copied, AutoMkfs
<1>2. TypeOK /\ AllCopied /\ [Next]_vars => AllCopied'
  <2> SUFFICES ASSUME TypeOK, AllCopied, [Next]_vars PROVE AllCopied'
    OBVIOUS
  <2> USE DEF At, setup, disk, AllCopied, Copied, AutoMkfs
  <2>1. ASSUME NEW p \in Parts, Prepare(p) PROVE AllCopied'
    BY <2>1 DEF Prepare, Goto, IsRo, TypeOK
  <2>2. ASSUME NEW p \in Parts, PrepareFail(p) PROVE AllCopied'
    BY <2>2 DEF PrepareFail, Fails, Goto, TypeOK
  <2>3. ASSUME NEW p \in Parts, PrepareUbi(p) PROVE AllCopied'
    BY <2>3 DEF PrepareUbi, Fails, Goto, AutoMkfs, TypeOK
  <2>4. ASSUME NEW p \in Parts, Check(p) PROVE AllCopied'
    BY <2>4 DEF Check, Remount, Remounts, RemountFails, Fails, Goto, TypeOK
  <2>5. ASSUME NEW p \in Parts, MountIsThere(p) PROVE AllCopied'
    BY <2>5 DEF MountIsThere, Remembered, Mounted, Goto, TypeOK
  <2>6. ASSUME NEW p \in Parts, Mount(p) PROVE AllCopied'
    BY <2>6 DEF Mount, Mounted, Goto, TypeOK
  <2>7. ASSUME NEW p \in Parts, MountFail(p) PROVE AllCopied'
    BY <2>7 DEF MountFail, Fails, AutoMkfs, Mounted, Goto, TypeOK
  <2>8. ASSUME NEW p \in Parts, MountAgainFail(p) PROVE AllCopied'
    BY <2>8 DEF MountAgainFail, Fails, NotMounted, Goto, TypeOK
  <2>9. ASSUME NEW p \in Parts, MkfsFail(p) PROVE AllCopied'
    BY <2>9 DEF MkfsFail, Fails, NotMounted, Goto, TypeOK
  <2>10. ASSUME NEW p \in Parts, Mkfs(p) PROVE AllCopied'
    BY <2>10 DEF Mkfs, Wipe, Goto, TypeOK
  <2>11. ASSUME NEW p \in Parts, Made(p) PROVE AllCopied'
    BY <2>11 DEF Made, Make, Fails, NotMounted, Goto, TypeOK
  <2>12. ASSUME NEW p \in Parts, Resize(p) PROVE AllCopied'
    BY <2>12 DEF Resize, Remount, Remounts, RemountFails, Fails, Goto, TypeOK
  <2>13. ASSUME NEW p \in Parts, Grow(p) PROVE AllCopied'
    BY <2>13 DEF Grow, Goto, TypeOK
  <2>14. ASSUME NEW p \in Parts, Mark(p) PROVE AllCopied'
    BY <2>14 DEF Mark, Goto, Touched, RootRw, TypeOK
  <2>15. ASSUME NEW p \in Parts, Backup(p) PROVE AllCopied'
    BY <2>15 DEF Backup, Fails, Goto, TypeOK
  <2>16. ASSUME NEW p \in Parts, Umount(p) PROVE AllCopied'
    BY <2>16 DEF Umount, Fails, Goto, TypeOK
  <2>17. ASSUME NEW p \in Parts, FormatFail(p) PROVE AllCopied'
    BY <2>17 DEF FormatFail, Fails, Goto, TypeOK
  <2>18. ASSUME NEW p \in Parts, Format(p) PROVE AllCopied'
    BY <2>18 DEF Format, Wipe, Goto, TypeOK
  <2>19. ASSUME NEW p \in Parts, Formatted(p) PROVE AllCopied'
    BY <2>19 DEF Formatted, Make, Fails, Goto, TypeOK
  <2>20. ASSUME NEW p \in Parts, Restore(p) PROVE AllCopied'
    BY <2>20 DEF Restore, Remounts, RemountFails, Goto, Touched, RootRw, Fails, TypeOK
  <2>21. ASSUME NEW p \in Parts, Drop(p) PROVE AllCopied'
    BY <2>21 DEF Drop, Goto, TypeOK
  <2>22. ASSUME NEW p \in Parts, SetMode(p) PROVE AllCopied'
    BY <2>22 DEF SetMode, Remounts, RemountFails, Fails, Goto, TypeOK
  <2>23. CASE Boot
    BY <2>23 DEF Boot, Mounts, TypeOK
  <2>24. CASE UNCHANGED vars
    BY <2>24 DEF vars
  <2>25. QED
    BY <2>1, <2>2, <2>3, <2>4, <2>5, <2>6, <2>7, <2>8, <2>9, <2>10, <2>11,
       <2>12, <2>13, <2>14, <2>15, <2>16, <2>17, <2>18, <2>19, <2>20, <2>21,
       <2>22, <2>23, <2>24 DEF Next, do_part
<1>3. TypeOK /\ AllCopied /\ [Next]_vars =>
         (\A p \in Parts : data[p] /\ ~data'[p] => AutoMkfs \/ backup[p] = "full")
  <2> SUFFICES ASSUME TypeOK, AllCopied, [Next]_vars, NEW q \in Parts, data[q], ~data'[q]
               PROVE  AutoMkfs \/ backup[q] = "full"
    OBVIOUS
  <2> USE DEF TypeOK, disk
  <2>1. CASE Boot \/ UNCHANGED vars
    BY <2>1 DEF Boot, vars
  <2>2. ASSUME NEW p \in Parts, Mkfs(p) \/ Format(p) PROVE AutoMkfs \/ backup[q] = "full"
    BY <2>2 DEF Mkfs, Format, Wipe, At, AllCopied, Copied
  <2>3. ASSUME NEW p \in Parts, PrepareUbi(p) PROVE AutoMkfs \/ backup[q] = "full"
    BY <2>3 DEF PrepareUbi
  <2>4. ASSUME NEW p \in Parts, Restore(p) PROVE AutoMkfs \/ backup[q] = "full"
    BY <2>4 DEF Restore
  <2>5. ASSUME NEW p \in Parts, do_part(p), ~Mkfs(p), ~Format(p), ~PrepareUbi(p), ~Restore(p)
        PROVE  AutoMkfs \/ backup[q] = "full"
    BY <2>5 DEF do_part, Prepare, PrepareFail, Check, MountIsThere, Mount, MountFail,
       MountAgainFail, MkfsFail, Made, Make, Resize, Grow, Mark, Backup, Umount,
       FormatFail, Formatted, Drop, SetMode
  <2>6. QED
    BY <2>1, <2>2, <2>3, <2>4, <2>5 DEF Next
<1>4. QED
  BY <1>1, <1>2, <1>3, TypeCorrect, PTL DEF Spec, WipedWithCopy

-----------------------------------------------------------------------------
\* Why the mode comes back: MOUNT_RO_RW of a mounted partition is what it was or
\* what fstab says, and a root file system never is unmounted on the way.
Remembers(p) ==
  /\ pc[p] = "off" => mnt[p] = was[p]
  /\ pc[p] \notin {"off", "done"} /\ mnt[p] # "no" /\ mode[p] = "rw" => "rw" \in {was[p], Opt[p]}
  /\ pc[p] = "stuck" => mnt[p] # "no"
  /\ pc[p] = "done" /\ mnt[p] = "rw" => "rw" \in {was[p], Opt[p]}
  /\ pc[p] \in {"mkfs", "made", "again", "wipe", "wiped"} => mnt[p] = "no"
RootRemembers(p) ==
  /\ was[p] # "no" /\ mnt[p] # "no"
  /\ pc[p] \in {"off", "check", "mount", "resize", "grow", "mark", "mode", "done",
               "stuck"}
  /\ pc[p] \notin {"off", "done"} => mode[p] = was[p]
  /\ pc[p] \in {"off", "done"} => mnt[p] = was[p]
  /\ backup[p] = "none"

AllRemember ==
  helper = "mount" =>
    (\A p \in Parts : Remembers(p)) /\ (\A p \in Root : RootRemembers(p))

\* mount-helper leaves root file systems in the mode it found them in, and nothing
\* writable that neither was nor is meant to be.
THEOREM RoRwRestoredThm == Spec => []RoRwRestored
<1> USE DiskAssumption DEF DiskAssumption
<1>1. Init => AllRemember
  BY DEF Init, Mounts, AllRemember, Remembers, RootRemembers
<1>2. TypeOK /\ AllRemember /\ [Next]_vars => AllRemember'
  <2> SUFFICES ASSUME TypeOK, AllRemember, [Next]_vars PROVE AllRemember'
    OBVIOUS
  <2> USE DEF At, setup, disk, AllRemember, Remembers, RootRemembers
  <2>1. ASSUME NEW p \in Parts, Prepare(p) PROVE AllRemember'
    BY <2>1 DEF Prepare, Goto, IsRo, TypeOK
  <2>2. ASSUME NEW p \in Parts, PrepareFail(p) PROVE AllRemember'
    BY <2>2 DEF PrepareFail, Fails, Goto, TypeOK
  <2>3. ASSUME NEW p \in Parts, PrepareUbi(p) PROVE AllRemember'
    BY <2>3 DEF PrepareUbi, Fails, Goto, AutoMkfs, TypeOK
  <2>4. ASSUME NEW p \in Parts, Check(p) PROVE AllRemember'
    BY <2>4 DEF Check, Remount, Remounts, RemountFails, Fails, Goto, TypeOK
  <2>5. ASSUME NEW p \in Parts, MountIsThere(p) PROVE AllRemember'
    BY <2>5 DEF MountIsThere, Remembered, Mounted, Goto, TypeOK
  <2>6. ASSUME NEW p \in Parts, Mount(p) PROVE AllRemember'
    BY <2>6 DEF Mount, Mounted, Goto, TypeOK
  <2>7. ASSUME NEW p \in Parts, MountFail(p) PROVE AllRemember'
    BY <2>7 DEF MountFail, Fails, AutoMkfs, Mounted, Goto, TypeOK
  <2>8. ASSUME NEW p \in Parts, MountAgainFail(p) PROVE AllRemember'
    BY <2>8 DEF MountAgainFail, Fails, NotMounted, Goto, TypeOK
  <2>9. ASSUME NEW p \in Parts, MkfsFail(p) PROVE AllRemember'
    BY <2>9 DEF MkfsFail, Fails, NotMounted, Goto, TypeOK
  <2>10. ASSUME NEW p \in Parts, Mkfs(p) PROVE AllRemember'
    BY <2>10 DEF Mkfs, Wipe, Goto, TypeOK
  <2>11. ASSUME NEW p \in Parts, Made(p) PROVE AllRemember'
    BY <2>11 DEF Made, Make, Fails, NotMounted, Goto, TypeOK
  <2>12. ASSUME NEW p \in Parts, Resize(p) PROVE AllRemember'
    BY <2>12 DEF Resize, Remount, Remounts, RemountFails, Fails, Goto, TypeOK
  <2>13. ASSUME NEW p \in Parts, Grow(p) PROVE AllRemember'
    BY <2>13 DEF Grow, Goto, TypeOK
  <2>14. ASSUME NEW p \in Parts, Mark(p) PROVE AllRemember'
    BY <2>14 DEF Mark, Goto, Touched, RootRw, TypeOK
  <2>15. ASSUME NEW p \in Parts, Backup(p) PROVE AllRemember'
    BY <2>15 DEF Backup, Fails, Goto, TypeOK
  <2>16. ASSUME NEW p \in Parts, Umount(p) PROVE AllRemember'
    BY <2>16 DEF Umount, Fails, Goto, TypeOK
  <2>17. ASSUME NEW p \in Parts, FormatFail(p) PROVE AllRemember'
    BY <2>17 DEF FormatFail, Fails, Goto, TypeOK
  <2>18. ASSUME NEW p \in Parts, Format(p) PROVE AllRemember'
    BY <2>18 DEF Format, Wipe, Goto, TypeOK
  <2>19. ASSUME NEW p \in Parts, Formatted(p) PROVE AllRemember'
    BY <2>19 DEF Formatted, Make, Fails, Goto, TypeOK
  <2>20. ASSUME NEW p \in Parts, Restore(p) PROVE AllRemember'
    BY <2>20 DEF Restore, Remounts, RemountFails, Goto, Touched, RootRw, Fails, TypeOK
  <2>21. ASSUME NEW p \in Parts, Drop(p) PROVE AllRemember'
    BY <2>21 DEF Drop, Goto, TypeOK
  <2>22. ASSUME NEW p \in Parts, SetMode(p) PROVE AllRemember'
    BY <2>22 DEF SetMode, Remounts, RemountFails, Fails, Goto, TypeOK
  <2>23. CASE Boot
    BY <2>23 DEF Boot, Mounts, TypeOK
  <2>24. CASE UNCHANGED vars
    BY <2>24 DEF vars
  <2>25. QED
    BY <2>1, <2>2, <2>3, <2>4, <2>5, <2>6, <2>7, <2>8, <2>9, <2>10, <2>11,
       <2>12, <2>13, <2>14, <2>15, <2>16, <2>17, <2>18, <2>19, <2>20, <2>21,
       <2>22, <2>23, <2>24 DEF Next, do_part
<1>3. AllRemember => RoRwRestored
  BY DEF AllRemember, Remembers, RootRemembers, RoRwRestored, Over, LeftIn, At
<1>4. QED
  BY <1>1, <1>2, <1>3, TypeCorrect, PTL DEF Spec
=============================================================================
