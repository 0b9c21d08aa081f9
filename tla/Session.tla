------------------------------- MODULE Session -------------------------------
(***************************************************************************)
(* The session with the control server (hy_session_handler.c): the session *)
(* thread connects, logs in, and reads commands off a stream that delivers *)
(* them in pieces; the server sends, falls silent, closes or dies at any   *)
(* point of a message.  What a command does is modelled in DetectCtrl and  *)
(* LiveView; here it is handled or not.                                    *)
(***************************************************************************)
EXTENDS Integers, Sequences

CONSTANTS
    HeadLen,   \* length of M_HY_HEADER, in the units the stream delivers
    Lens,      \* the lengths of message bodies, in the same units
    MaxSent,   \* bound on the messages sent over one connection
    MaxConns   \* bound on the connections

ASSUME HeadAssumption == HeadLen \in Nat \ {0}
ASSUME LensAssumption == Lens \subseteq Nat
ASSUME SessionBounds == MaxSent \in Nat /\ MaxConns \in Nat

VARIABLES
    pc,        \* where the session thread is in its loop
    head,      \* what mesg_buf holds of the header: current_head_num units
    context,   \* what it holds of the body: current_contex_num units
    conn,      \* the connection as the device's socket knows it
    wire,      \* what has arrived on it and has not been read
    sent,      \* the messages the server has begun on this connection
    out,       \* how much of the last of them has arrived
    handled,   \* history: the frames handled on this connection, in order
    conns      \* the number of connections so far

bufVars == <<head, context>>
serverVars == <<sent, out>>
vars == <<pc, bufVars, conn, wire, serverVars, handled, conns>>

\* M_HY_HEADER: is its flag DEFAULT_FLAG, and how long is the body?
Message == [flag : BOOLEAN, len : Lens]

\* The stream carries <<k, j>>, the j-th unit of the k-th message.
FrameLen(m) == HeadLen + m.len
Frame(k) == [j \in 1..FrameLen(sent[k]) |-> <<k, j>>]

\* b_is_connected is TRUE here and nowhere else, and only here mesg_buf, a local
\* of the loop's body, has been initialised.
Connected == pc \in {"select", "read", "handle"}

Unit == (1..MaxSent) \X (Nat \ {0})

TypeOK ==
    /\ pc \in {"connect", "login", "select", "read", "handle", "down"}
    /\ head \in Seq(Unit) /\ Len(head) <= HeadLen
    /\ context \in Seq(Unit)
    /\ conn \in {"none", "open", "eof", "reset"}
    /\ wire \in Seq(Unit)
    /\ sent \in Seq(Message)
    /\ out \in Nat
    /\ handled \in Seq(Seq(Unit))
    /\ conns \in 0..MaxConns
    \* The body never outgrows what the header announced.
    /\ Connected /\ context # <<>> => /\ Len(head) = HeadLen
                                      /\ Len(context) <= sent[head[1][1]].len

Init ==
    /\ pc = "connect"
    /\ head = <<>> /\ context = <<>>
    /\ conn = "none" /\ wire = <<>>
    /\ sent = <<>> /\ out = 0
    /\ handled = <<>>
    /\ conns = 0
-----------------------------------------------------------------------------
(* The server and the network.                                             *)

\* No message is under way.
AtBoundary == sent # <<>> => out = FrameLen(sent[Len(sent)])

\* The first unit of the next message arrives.
ServerBegins(m) ==
    /\ conn = "open"
    /\ AtBoundary
    /\ Len(sent) < MaxSent
    /\ sent' = Append(sent, m)
    /\ out' = 1
    /\ wire' = Append(wire, <<Len(sent) + 1, 1>>)
    /\ UNCHANGED <<pc, bufVars, conn, handled, conns>>

\* The next unit of the message under way arrives.
ServerGoesOn ==
    /\ conn = "open"
    /\ ~AtBoundary
    /\ out' = out + 1
    /\ wire' = Append(wire, <<Len(sent), out + 1>>)
    /\ UNCHANGED <<pc, bufVars, conn, sent, handled, conns>>

\* The server closes: what has arrived can still be read.
ServerCloses ==
    /\ conn = "open"
    /\ conn' = "eof"
    /\ UNCHANGED <<pc, bufVars, wire, serverVars, handled, conns>>

\* The connection is reset: what has arrived is lost.
ConnectionReset ==
    /\ conn \in {"open", "eof"}
    /\ conn' = "reset"
    /\ wire' = <<>>
    /\ UNCHANGED <<pc, bufVars, serverVars, handled, conns>>

Server == \/ \E m \in Message : ServerBegins(m)
          \/ ServerGoesOn \/ ServerCloses \/ ConnectionReset
-----------------------------------------------------------------------------
(* The session thread.                                                     *)

\* hy_tcp_connect succeeds.  As long as it fails the thread sleeps ten seconds
\* and tries again, which changes nothing.
Connect ==
    /\ pc = "connect"
    /\ conns < MaxConns
    /\ conns' = conns + 1
    /\ conn' = "open" /\ wire' = <<>>
    /\ sent' = <<>> /\ out' = 0
    /\ handled' = <<>>
    /\ pc' = "login"
    /\ UNCHANGED bufVars

\* hy_sig_init_mesg_buf.
InitMesgBuf == head' = <<>> /\ context' = <<>>

\* hy_sig_send_login_meg: a peer that has closed may or may not have answered
\* the first write with a reset when the second is made.
Login ==
    /\ pc = "login"
    /\ \/ conn # "reset" /\ pc' = "select" /\ InitMesgBuf
       \/ conn # "open" /\ pc' = "down" /\ UNCHANGED bufVars
    /\ UNCHANGED <<conn, wire, serverVars, handled, conns>>

Readable == wire # <<>> \/ conn # "open"

SelectReadable ==
    /\ pc = "select"
    /\ Readable
    /\ pc' = "read"
    /\ UNCHANGED <<bufVars, conn, wire, serverVars, handled, conns>>

\* Faulty SelectTimeout: the loop goes on after a timeout.
SelectTimeoutIgnored ==
    /\ pc = "select"
    /\ ~Readable
    /\ UNCHANGED vars

\* Nothing has come for 120 seconds.
SelectTimeout ==
    /\ pc = "select"
    /\ ~Readable
    /\ pc' = "down"
    /\ UNCHANGED <<bufVars, conn, wire, serverVars, handled, conns>>

\* select fails: a signal has interrupted it.
SelectError ==
    /\ pc = "select"
    /\ pc' = "down"
    /\ UNCHANGED <<bufVars, conn, wire, serverVars, handled, conns>>

\* What read returns when n units are asked for and some have arrived.
Got(n) == SubSeq(wire, 1, IF Len(wire) < n THEN Len(wire) ELSE n)
Rest(n) == SubSeq(wire, 1 + Len(Got(n)), Len(wire))

\* The rest of the header is read.  When it is complete the same call of
\* hy_sig_read_mesg_buf goes on to the body, without another select.
ReadHead ==
    LET need == HeadLen - Len(head) IN
    /\ pc = "read"
    /\ need > 0
    /\ wire # <<>>
    /\ head' = head \o Got(need)
    /\ wire' = Rest(need)
    /\ pc' = IF Len(head') = HeadLen THEN "read" ELSE "select"
    /\ UNCHANGED <<context, conn, serverVars, handled, conns>>

\* Faulty ReadHeadEnd: an end of file is taken for a read that is not finished.
ReadHeadEndUnnoticed ==
    /\ pc = "read"
    /\ Len(head) < HeadLen
    /\ wire = <<>>
    /\ conn \in {"eof", "reset"}
    /\ pc' = IF conn = "eof" THEN "select" ELSE "down"
    /\ UNCHANGED <<bufVars, conn, wire, serverVars, handled, conns>>

\* read returns 0 or -1 where the header should be.
ReadHeadEnd ==
    /\ pc = "read"
    /\ Len(head) < HeadLen
    /\ wire = <<>>
    /\ conn \in {"eof", "reset"}
    /\ pc' = "down"
    /\ UNCHANGED <<bufVars, conn, wire, serverVars, handled, conns>>

\* need_context_num - current_contex_num, once the header has been read.
BodyNeed == sent[head[1][1]].len - Len(context)

\* Faulty ReadBody: what is asked for is the whole body, not its rest.
ReadBodyWhole ==
    LET need == sent[head[1][1]].len IN
    /\ pc = "read"
    /\ Len(head) = HeadLen
    /\ need = 0 \/ wire # <<>>
    /\ context' = context \o Got(need)
    /\ wire' = Rest(need)
    /\ pc' = IF Len(context') = need THEN "handle" ELSE "select"
    /\ UNCHANGED <<head, conn, serverVars, handled, conns>>

\* Faulty ReadBody: a body of length zero is never finished.
ReadBodyNotEmpty ==
    /\ pc = "read"
    /\ Len(head) = HeadLen
    /\ BodyNeed = 0 \/ wire # <<>>
    /\ context' = context \o Got(BodyNeed)
    /\ wire' = Rest(BodyNeed)
    /\ pc' = IF context' # <<>> /\ Len(Got(BodyNeed)) = BodyNeed
             THEN "handle" ELSE "select"
    /\ UNCHANGED <<head, conn, serverVars, handled, conns>>

\* The rest of the body is read, or a read of nothing returns at once.  With
\* something to read and nothing there the call blocks.
ReadBody ==
    /\ pc = "read"
    /\ Len(head) = HeadLen
    /\ BodyNeed = 0 \/ wire # <<>>
    /\ context' = context \o Got(BodyNeed)
    /\ wire' = Rest(BodyNeed)
    /\ pc' = IF Len(Got(BodyNeed)) = BodyNeed THEN "handle" ELSE "select"
    /\ UNCHANGED <<head, conn, serverVars, handled, conns>>

\* read returns 0 or -1 where the body should be; 0 counts as progress.
ReadBodyEnd ==
    /\ pc = "read"
    /\ Len(head) = HeadLen
    /\ BodyNeed > 0 /\ wire = <<>>
    /\ conn \in {"eof", "reset"}
    /\ pc' = IF conn = "eof" THEN "select" ELSE "down"
    /\ UNCHANGED <<bufVars, conn, wire, serverVars, handled, conns>>

\* Faulty Handle: a wrong flag does not end the connection.
HandleAnyFlag ==
    /\ pc = "handle"
    /\ handled' = Append(handled, head \o context)
    /\ InitMesgBuf
    /\ pc' = "select"
    /\ UNCHANGED <<conn, wire, serverVars, conns>>

\* Faulty Handle: the body stays in the buffer.
HandleKeepsContext ==
    /\ pc = "handle"
    /\ handled' = Append(handled, head \o context)
    /\ head' = <<>>
    /\ pc' = IF sent[head[1][1]].flag THEN "select" ELSE "down"
    /\ UNCHANGED <<context, conn, wire, serverVars, conns>>

\* hy_sig_cmd_handler: with a wrong flag it clears b_is_connected and the loop
\* ends.
Handle ==
    /\ pc = "handle"
    /\ handled' = Append(handled, head \o context)
    /\ InitMesgBuf
    /\ pc' = IF sent[head[1][1]].flag THEN "select" ELSE "down"
    /\ UNCHANGED <<conn, wire, serverVars, conns>>

\* DISCONNECTED: the socket is closed, b_is_connected cleared, the live view
\* stopped (see LiveView), and after ten seconds the thread connects again.
Disconnected ==
    /\ pc = "down"
    /\ conn' = "none"
    /\ wire' = <<>>
    /\ pc' = "connect"
    /\ UNCHANGED <<bufVars, serverVars, handled, conns>>

\* All that needs no word from the server and no luck.
SessionThread ==
    \/ Login \/ SelectReadable \/ SelectTimeout
    \/ ReadHead \/ ReadHeadEnd \/ ReadBody \/ ReadBodyEnd
    \/ Handle \/ Disconnected
-----------------------------------------------------------------------------
Next == Server \/ Connect \/ SelectError \/ SessionThread

Spec == Init /\ [][Next]_vars

\* The thread is scheduled, and 120 seconds of silence pass.  The server need
\* neither accept a connection nor send anything.
FairSpec == Spec /\ WF_vars(SessionThread)
-----------------------------------------------------------------------------
(* Properties.                                                             *)

\* However the stream is cut into pieces, the frames handled are the messages
\* sent on this connection, whole and in order (hy_session_handler.c:902-951).
HandledInOrder ==
    /\ Len(handled) <= Len(sent)
    /\ \A k \in 1..Len(handled) : handled[k] = Frame(k)

\* A message with a wrong flag is the last that is looked at: the stream may
\* have lost its framing (hy_session_handler.c:621-626).
NothingAfterBadFlag ==
    \A k \in 1..Len(handled) : ~sent[k].flag => k = Len(handled) /\ pc # "select"

\* When the thread sleeps in select with nothing to read, every message that has
\* arrived whole has been handled: the timeout never drops one, and none waits
\* for its successor (hy_session_handler.c:942-950).
AllHandledWhenIdle ==
    pc = "select" /\ conn # "reset" /\ wire = <<>> =>
        Len(handled) = IF AtBoundary THEN Len(sent) ELSE Len(sent) - 1

\* What has arrived and has not been handled, and whether it ends within a body.
Unhandled == (IF Connected THEN head \o context ELSE <<>>) \o wire
EndsInBody ==
    /\ Unhandled # <<>>
    /\ LET last == Unhandled[Len(Unhandled)] IN
         last[2] \in HeadLen..(FrameLen(sent[last[1]]) - 1)

\* A connection is given up wherever a reset hits it, and when the server has
\* closed it, if not in the middle of a body.  There an end of file reads as
\* progress and the loop spins (hy_session_handler.c:929-938).
EndNoticed == (conn = "reset" \/ (conn = "eof" /\ ~EndsInBody)) ~> (conn = "none")

\* A connection on which nothing comes any more is given up, if the silence
\* did not begin within a message (hy_session_handler.c:810-815).
SilenceNoticed == []<>(conn # "open" \/ ~AtBoundary)

\* The messages that have arrived whole, and those that have been handled, as the
\* server sees them.
Command == {[frame |-> [j \in 1..(HeadLen + len) |-> <<k, j>>], flag |-> flag] :
              k \in 1..MaxSent, len \in Lens, flag \in BOOLEAN}
Arrived == [k \in 1..(IF AtBoundary THEN Len(sent) ELSE Len(sent) - 1) |->
              [frame |-> Frame(k), flag |-> sent[k].flag]]
Executed == [k \in 1..Len(handled) |-> [frame |-> handled[k], flag |-> sent[k].flag]]

\* Whatever the stream does to the messages, the session is the inbox of whole
\* commands that the server takes it for (hy_session_handler.c:765-951).
Commands == INSTANCE Inbox WITH
    arrived <- Arrived, executed <- Executed, up <- conn \in {"open", "eof"}
ImplementsInbox == Commands!IFairSpec
=============================================================================
