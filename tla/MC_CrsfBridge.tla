---------------------------- MODULE MC_CrsfBridge ----------------------------
(* Ticks of a quarter of a second: half a second to the failsafe, one second  *)
(* of sleep after a failed reopening.                                         *)
EXTENDS CrsfBridge
=============================================================================
