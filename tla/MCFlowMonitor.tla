---------------------------- MODULE MCFlowMonitor ----------------------------
(***************************************************************************)
(* Three kilobytes of traffic over two months that the database accepts    *)
(* and one that it does not, two starts of the program, and counters that  *)
(* are read as two at most.                                                *)
(***************************************************************************)
EXTENDS FlowMonitor

MCLastMonth == 2
MCCap == 2
MCMaxPassed == 3
MCMaxBoots == 2
MCMaxMonth == 3
=============================================================================
