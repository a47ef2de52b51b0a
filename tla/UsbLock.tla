------------------------------ MODULE UsbLock ------------------------------
(***************************************************************************)
(* The lock file protocol of usbdevice (lines 784-787 and 833, and the     *)
(* "rm -f $TMP_DIR/.usb*" of usb_stop, line 772).                          *)
(*                                                                         *)
(* A request touches the lock file, opens it and takes flock on the inode  *)
(* it opened.  flock excludes requests that opened the SAME inode.  Inside *)
(* the critical section usb_stop may unlink the path, and the next touch   *)
(* then creates another inode.  An inode is identified by a value that is  *)
(* free when no descriptor and no path refers to it, so no counter grows.  *)
(***************************************************************************)
CONSTANTS
  Reqs,       \* concurrent invocations of the script
  Inodes,     \* inode identities of the tmpfs that holds /var/run: more than there
              \* are requests, for Touch never to wait
  NoInode,    \* no descriptor, or no such path
  MayUnlink   \* whether some request runs usb_stop

VARIABLES
  lpc,        \* where each request is in the protocol
  fd,         \* inode behind descriptor 3 of each request
  path        \* inode the path /var/run/.usbdevice.lock names

vars == <<lpc, fd, path>>

FreeInodes == Inodes \ ({fd[r] : r \in Reqs} \cup {path})

Init ==
  /\ lpc = [r \in Reqs |-> "out"]
  /\ fd = [r \in Reqs |-> NoInode]
  /\ path = NoInode

Touched == IF path = NoInode THEN path' \in FreeInodes ELSE UNCHANGED path

\* touch $LOCK_FILE
Touch(r) ==
  /\ lpc[r] = "out"
  /\ lpc' = [lpc EXCEPT ![r] = "touched"]
  /\ Touched
  /\ UNCHANGED fd

\* exec 3<$LOCK_FILE: fails, and set -e ends the script, when a concurrent
\* usb_stop has removed the file since it was touched.
Open(r) ==
  /\ lpc[r] = "touched"
  /\ lpc' = [lpc EXCEPT ![r] = IF path = NoInode THEN "out" ELSE "opened"]
  /\ fd' = [fd EXCEPT ![r] = path]
  /\ UNCHANGED path

Free(r) == \A q \in Reqs \ {r} : lpc[q] = "in" => fd[q] # fd[r]

\* flock -x 3
Flock(r) ==
  /\ lpc[r] = "opened"
  /\ Free(r)
  /\ lpc' = [lpc EXCEPT ![r] = "in"]
  /\ UNCHANGED <<fd, path>>

\* rm -f $TMP_DIR/.usb*, by a request that runs usb_stop
Unlink(r) ==
  /\ MayUnlink
  /\ lpc[r] = "in"
  /\ path' = NoInode
  /\ UNCHANGED <<lpc, fd>>

\* flock -u 3, or the exit of the script closing descriptor 3
Release(r) ==
  /\ lpc[r] = "in"
  /\ lpc' = [lpc EXCEPT ![r] = "out"]
  /\ fd' = [fd EXCEPT ![r] = NoInode]
  /\ UNCHANGED path

Next == \E r \in Reqs :
          Touch(r) \/ Open(r) \/ Flock(r) \/ Unlink(r) \/ Release(r)

Spec == Init /\ [][Next]_vars

-----------------------------------------------------------------------------
TypeOK ==
  /\ lpc \in [Reqs -> {"out", "touched", "opened", "in"}]
  /\ fd \in [Reqs -> Inodes \cup {NoInode}]
  /\ path \in Inodes \cup {NoInode}

\* At most one request is between flock -x 3 and the end of the script: what
\* the comment "Lock it" of line 784 promises.
MutualExclusion ==
  \A r, q \in Reqs : lpc[r] = "in" /\ lpc[q] = "in" => r = q

\* What flock leaves when the file may be unlinked: of the requests inside, no
\* two hold the same inode, so at most one holds the one the path names now.
InodeExclusion ==
  \A r, q \in Reqs : lpc[r] = "in" /\ lpc[q] = "in" /\ r # q => fd[r] # fd[q]

=============================================================================
