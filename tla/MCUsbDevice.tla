---------------------------- MODULE MCUsbDevice ----------------------------
(***************************************************************************)
(* Instances of UsbDevice for TLC: adb (functionfs, so prepare waits for   *)
(* its daemon), uvc (a daemon nobody waits for, with items of its own),    *)
(* rndis (no daemon), uac (no daemon; the kernel does not have it).        *)
(***************************************************************************)
EXTENDS UsbDevice, TLC

CONSTANTS adb, uvc, rndis, uac, adbd, uvcGadget

ConstExec == [i \in Daemons |-> IF i = adb THEN adbd ELSE uvcGadget]
=============================================================================
