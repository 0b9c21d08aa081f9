------------------------------ MODULE MCHyTimer ------------------------------
(***************************************************************************)
(* The timer service checked by TLC: two threads, timers of one and two    *)
(* seconds, at most three of them at a time, so that the first, a middle   *)
(* and the last timer of the list can expire in the same walk.             *)
(***************************************************************************)
EXTENDS HyTimer

MCStarters == {"session", "file"}
MCFunctions == {"start_detect", "close_alarm"}
MCTimes == 0..2
MCMaxTimers == 3
=============================================================================
