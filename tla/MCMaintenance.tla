---------------------------- MODULE MCMaintenance ----------------------------
(***************************************************************************)
(* Two settings, the second without rectangles; two updates that overlap,  *)
(* and two requests and two resets, so that a reboot cuts a setting or an  *)
(* update and the next boot reads what it left.                            *)
(***************************************************************************)
EXTENDS Maintenance

MCMaxSettings == 2
MCMaxRect == 2
MCRectCount == [s \in 0..2 |-> IF s = 1 THEN 2 ELSE 0]
MCMaxRequests == 2
MCMaxResets == 2
=============================================================================
