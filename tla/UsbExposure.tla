---------------------------- MODULE UsbExposure ----------------------------
(***************************************************************************)
(* What usbdevice promises to the USB host and to its own next run: the    *)
(* host sees no gadget or all of one configuration, a configuration is     *)
(* replaced only after it was taken away, and what is recorded as started  *)
(* never contradicts what is exposed.                                      *)
(***************************************************************************)
CONSTANT Wholes   \* the instances of each configuration; none is empty

VARIABLES exposed,   \* instances the host can see
          recorded   \* instances recorded as started, {} when none

Init == exposed = {} /\ recorded = {}

Appear(w) ==
  /\ exposed = {} /\ recorded \in {{}, w}
  /\ exposed' = w
  /\ UNCHANGED recorded

Vanish == exposed # {} /\ exposed' = {} /\ UNCHANGED recorded

Record(w) ==
  /\ exposed \in {{}, w}
  /\ recorded' = w
  /\ UNCHANGED exposed

Forget == recorded # {} /\ recorded' = {} /\ UNCHANGED exposed

Next == Vanish \/ Forget \/ \E w \in Wholes : Appear(w) \/ Record(w)

Spec == Init /\ [][Next]_<<exposed, recorded>>

\* A recorded configuration is the exposed one, whenever both exist.
Agree == exposed # {} /\ recorded # {} => exposed = recorded
=============================================================================
