------------------------------ MODULE MCLiveView ------------------------------
(***************************************************************************)
(* Two request threads, a channel with a power switch and one without, and *)
(* two connections that can get the same descriptor number, so that it     *)
(* comes back while a thread still holds it.                               *)
(***************************************************************************)
EXTENDS LiveView

CONSTANTS t1, t2, fd1, fd2

MCThreads == {t1, t2}
MCChannels == {1, 2}
MCFds == {fd1, fd2}
MCMaxConns == 2

Symmetry == Permutations(MCThreads) \cup Permutations(MCFds)
=============================================================================
