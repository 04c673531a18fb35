---------------------------- MODULE MCUsbUpgrade ----------------------------
(* Three fragments, the first two of the same percentage.                   *)
EXTENDS UsbUpgrade

MCPercent == [n \in 0..Frags |-> n \div 3]
=============================================================================
