---------------------------- MODULE UsbLock_proofs ----------------------------
(* Proofs about the lock file protocol, for any number of requests.  They     *)
(* follow one request through a step, and what the step leaves of the others. *)
EXTENDS UsbLock, TLAPS

\* the lines of the script that one request may execute next
Line(r) == Touch(r) \/ Open(r) \/ Flock(r) \/ Unlink(r) \/ Release(r)

\* What r has does not change.
Waits(r) == lpc'[r] = lpc[r] /\ fd'[r] = fd[r]

\* Every variable of the protocol keeps its type: the label, the descriptor and
\* the path, whichever line is executed.
THEOREM TypeCorrect == Spec => []TypeOK
<1>1. ASSUME TypeOK, NEW r \in Reqs, Line(r)
      PROVE  TypeOK'
  <2> USE <1>1 DEF Line, TypeOK, Touch, Open, Flock, Unlink, Release
  <2>labels. lpc' \in [Reqs -> {"out", "touched", "opened", "in"}]
    OBVIOUS
  <2>inode. path' \in Inodes \cup {NoInode}
    BY DEF Touched, FreeInodes
  <2>descriptors. fd' \in [Reqs -> Inodes \cup {NoInode}]
    OBVIOUS
  <2> QED
    BY <2>labels, <2>inode, <2>descriptors
<1>2. TypeOK /\ UNCHANGED vars => TypeOK'
  BY DEF TypeOK, vars
<1>3. TypeOK /\ [Next]_vars => TypeOK'
  BY <1>1, <1>2 DEF Next, Line
<1>4. Init => TypeOK
  BY DEF TypeOK, Init
<1> QED
  BY <1>3, <1>4, PTL DEF Spec

-----------------------------------------------------------------------------
\* One request executes a line, and the others wait.
LEMMA OthersWait ==
  ASSUME TypeOK, NEW r \in Reqs, Line(r)
  PROVE  \A q \in Reqs \ {r} : Waits(q)
BY DEF Line, Waits, TypeOK, Touch, Open, Flock, Unlink, Release

\* flock is the only way in, and inside no line gives a request another inode.
LEMMA WayIn ==
  ASSUME TypeOK, NEW r \in Reqs, Line(r), lpc'[r] = "in"
  PROVE  /\ lpc[r] = "in" \/ Flock(r)
         /\ fd'[r] = fd[r]
BY DEF Line, TypeOK, Touch, Open, Flock, Unlink, Release

\* Requests inside hold distinct inodes, whatever is unlinked: the guarantee
\* of flock -x on the inode a request opened.  A step brings one request inside
\* at most, past those that flock has found there; so no more than this needs to
\* hold before it.
THEOREM InodeExclusionThm == Spec => []InodeExclusion
<1>1. ASSUME TypeOK, InodeExclusion, NEW r \in Reqs, Line(r)
      PROVE  InodeExclusion'
  <2> DEFINE Apart(p, q) == lpc[p] = "in" /\ lpc[q] = "in" => fd[p] # fd[q]
  <2>1. \A q \in Reqs \ {r} : Waits(q)
    BY <1>1, OthersWait
  <2>2. \A p \in Reqs \ {r}, q \in Reqs \ {r} : p # q => Apart(p, q)'
    BY <1>1, <2>1 DEF Waits, InodeExclusion
  <2>3. ASSUME NEW q \in Reqs \ {r}
        PROVE  Apart(r, q)' /\ Apart(q, r)'
    <3> SUFFICES ASSUME lpc'[r] = "in", lpc'[q] = "in"
                 PROVE  fd'[r] # fd'[q]
      OBVIOUS
    <3>1. lpc[q] = "in" /\ fd'[q] = fd[q] /\ fd'[r] = fd[r]
      BY <1>1, <2>1, WayIn DEF Waits
    <3>2. CASE lpc[r] = "in"
      BY <1>1, <3>1, <3>2 DEF InodeExclusion
    <3>3. CASE Flock(r)
      BY <3>1, <3>3 DEF Flock, Free
    <3> QED
      BY <1>1, <3>2, <3>3, WayIn
  <2> QED
    BY <2>2, <2>3 DEF InodeExclusion
<1>2. TypeOK /\ InodeExclusion /\ [Next]_vars => InodeExclusion'
  <2>1. InodeExclusion /\ UNCHANGED vars => InodeExclusion'
    BY DEF InodeExclusion, vars
  <2> QED
    BY <1>1, <2>1 DEF Next, Line
<1>3. Init => InodeExclusion
  BY DEF InodeExclusion, Init
<1> QED
  BY <1>2, <1>3, TypeCorrect, PTL DEF Spec

-----------------------------------------------------------------------------
\* Without unlinking, every descriptor is one of the inode the path names: a
\* newcomer can only open the inode a request inside has locked.  That the path
\* names one matters, since touch makes a new one only where there is none.
OnPath == \A r \in Reqs : lpc[r] \in {"opened", "in"} => path # NoInode /\ fd[r] = path

\* Only rm takes the file from the path, and only touch, where there is none,
\* gives it another.
LEMMA FileStays ==
  ASSUME ~MayUnlink, path # NoInode, NEW r \in Reqs, Line(r)
  PROVE  path' = path
BY DEF Line, Touch, Touched, Open, Flock, Unlink, Release

\* "Lock it" (line 784) is kept by a script that never unlinks the lock file.
THEOREM MutualExclusionThm == ASSUME ~MayUnlink PROVE Spec => []MutualExclusion
<1>1. ASSUME TypeOK, OnPath, NEW r \in Reqs, Line(r)
      PROVE  OnPath'
  <2> SUFFICES ASSUME NEW q \in Reqs, lpc'[q] \in {"opened", "in"}
               PROVE  path' # NoInode /\ fd'[q] = path'
    BY DEF OnPath
  <2>1. CASE q = r
    <3>1. Open(r) \/ Flock(r)
      BY <1>1, <2>1 DEF Line, TypeOK, Touch, Unlink, Release
    <3> QED
      BY <1>1, <2>1, <3>1 DEF Open, Flock, OnPath, TypeOK
  <2>2. CASE q # r
    <3>1. lpc[q] \in {"opened", "in"} /\ fd'[q] = fd[q]
      BY <1>1, <2>2, OthersWait DEF Waits
    <3>2. path # NoInode /\ fd[q] = path
      BY <1>1, <3>1 DEF OnPath
    <3> QED
      BY <1>1, <3>1, <3>2, FileStays
  <2> QED
    BY <2>1, <2>2
<1>2. TypeOK /\ OnPath /\ [Next]_vars => OnPath'
  <2>1. OnPath /\ UNCHANGED vars => OnPath'
    BY DEF OnPath, vars
  <2> QED
    BY <1>1, <2>1 DEF Next, Line
<1>3. Init => OnPath
  BY DEF OnPath, Init
<1>4. OnPath /\ InodeExclusion => MutualExclusion
  BY DEF OnPath, InodeExclusion, MutualExclusion
<1> QED
  BY <1>2, <1>3, <1>4, TypeCorrect, InodeExclusionThm, PTL DEF Spec
=============================================================================
