------------------------------ MODULE MesgQueue ------------------------------
(***************************************************************************)
(* What the message deque of hy_proj/base (hy_deque.h:50-54) promises to   *)
(* its users, the decode thread and the file management thread: a FIFO     *)
(* queue.  A message handed to hy_put_mesg is returned by exactly one      *)
(* hy_get_mesg, in the order of the puts, and hy_get_mesg returns nothing  *)
(* else.  A message is named by the number of the put that brought it.     *)
(***************************************************************************)
EXTENDS Naturals, Sequences

VARIABLES queue,  \* messages put and not yet returned, oldest first
          out     \* everything hy_get_mesg has returned, oldest first

qvars == <<queue, out>>

QInit == queue = <<>> /\ out = <<>>

\* hy_put_mesg: the next message joins the end of the queue.
Put == /\ queue' = Append(queue, Len(out) + Len(queue) + 1)
       /\ UNCHANGED out

\* hy_get_mesg: returns the oldest message, and only when there is one.
Get == /\ queue # <<>>
       /\ out' = Append(out, Head(queue))
       /\ queue' = Tail(queue)

QNext == Put \/ Get

QSpec == QInit /\ [][QNext]_qvars

\* A message that was put does not stay in the queue for ever.
QFairSpec == QSpec /\ WF_qvars(Get)
=============================================================================
