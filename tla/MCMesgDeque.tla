----------------------------- MODULE MCMesgDeque -----------------------------
(***************************************************************************)
(* The deque checked by TLC, with four messages and a counter of eight     *)
(* values.  Four puts are one more than any scenario of the code needs: a  *)
(* put that signals, a put that finds the list not empty, a put overtaken  *)
(* by the get, and one that meets the state these leave behind.            *)
(***************************************************************************)
EXTENDS MesgDeque

MCMaxPuts == 4

\* Spaced alarms meet the same few states at each put: more of them are cheap.
MCMaxPutsSpaced == 7
MCNumsWidth == 8
=============================================================================
