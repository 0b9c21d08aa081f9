----------------------------- MODULE MCVideoTask -----------------------------
(* Three tasks, a reboot above one pending upload, and a count of four     *)
(* values that wraps below zero as the program's does.                     *)
EXTENDS VideoTask, TLC

CONSTANTS k1, k2, k3

MCTasks == {k1, k2, k3}
MCMaxSending == 1
MCCuntWidth == 4

Symmetry == Permutations(MCTasks)
=============================================================================
