----------------------------- MODULE MCDevices -----------------------------
(***************************************************************************)
(* Devices for TLC: the last two devices of a line, since device -1 of the *)
(* terminals is printer 7.                                                 *)
(***************************************************************************)
EXTENDS Devices, TLC

Numbers == {6, 7}
Programs == 6 :> {"SYS4", "SYS5"} @@ 7 :> {"SYS3", "SYS4", "SYS5"}
=============================================================================
