----------------------------- MODULE MCDetectCtrl -----------------------------
(***************************************************************************)
(* Detection and horn checked by TLC.  The horn sounds for three seconds   *)
(* where detection waits for two: the timers overlap in either order.  Two *)
(* automatic requests and two alarms at a time are enough for a timer to   *)
(* meet the one started before it.                                         *)
(***************************************************************************)
EXTENDS DetectCtrl

MCStarters == {"session", "file"}
MCFunctions == {START, CLOSE}
MCTimes == {2, 3}
MCMaxTimers == 4
MCDetectDelay == 2
MCHornTime == 3
MCMaxAutos == 2
MCMaxAlarms == 2
=============================================================================
