-------------------------------- MODULE Inbox --------------------------------
(***************************************************************************)
(* What the session thread (hy_session_handler.c:765-859) promises to the  *)
(* control server, whatever TCP makes of the messages: on each connection  *)
(* the commands that have arrived are handled whole, one by one and in     *)
(* order, none is skipped, none follows a command with a wrong flag, and   *)
(* each is handled unless the connection is given up.                      *)
(***************************************************************************)
EXTENDS Naturals, Sequences

CONSTANT Command  \* what a server can send: a frame and the validity of its flag

VARIABLES arrived,   \* the commands that have arrived on this connection
          executed,  \* those that have been handled
          up         \* the device has a connection, or what is left of one

ivars == <<arrived, executed, up>>

IInit == arrived = <<>> /\ executed = <<>> /\ ~up

\* hy_tcp_connect: every connection begins with an empty inbox.
NewConnection == /\ ~up
                 /\ arrived' = <<>>
                 /\ executed' = <<>>
                 /\ up' = TRUE

Arrive(c) == /\ up
             /\ arrived' = Append(arrived, c)
             /\ UNCHANGED <<executed, up>>

\* The next command, unless the last one had a wrong flag.
Waiting == /\ Len(executed) < Len(arrived)
           /\ executed # <<>> => executed[Len(executed)].flag

\* hy_sig_cmd_handler; what has been read is handled even if the connection
\* has died since.
Execute == /\ Waiting
           /\ executed' = Append(executed, arrived[Len(executed) + 1])
           /\ UNCHANGED <<arrived, up>>

\* The connection is lost, or given up.
GiveUp == /\ up
          /\ up' = FALSE
          /\ UNCHANGED <<arrived, executed>>

INext == NewConnection \/ (\E c \in Command : Arrive(c)) \/ Execute \/ GiveUp

ISpec == IInit /\ [][INext]_ivars

\* As long as there is a connection, a command that has arrived does not wait
\* for ever.
IFairSpec == ISpec /\ WF_ivars(up /\ Execute)
=============================================================================
