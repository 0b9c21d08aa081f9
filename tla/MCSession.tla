------------------------------ MODULE MCSession ------------------------------
(***************************************************************************)
(* A header of two units, so that it can arrive in pieces; bodies of none, *)
(* one and two; two messages on a connection and two connections, so that  *)
(* what one leaves behind can meet the next.                               *)
(***************************************************************************)
EXTENDS Session

MCHeadLen == 2
MCLens == {0, 1, 2}
MCMaxSent == 2
MCMaxConns == 2
=============================================================================
