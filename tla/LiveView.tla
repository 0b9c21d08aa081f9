------------------------------- MODULE LiveView -------------------------------
(***************************************************************************)
(* Live views: a request of the server starts a detached thread that       *)
(* powers the camera, pings it, starts ffmpeg and answers; a stop, and the *)
(* loss of the connection, stop ffmpeg from the session thread.  All of    *)
(* them share stream_is_opened, current_play_cmd and real_time_fd, and     *)
(* lock nothing (hy_session_handler.c, hy_stream_ctrl.c).                  *)
(***************************************************************************)
EXTENDS Integers, SequencesExt

CONSTANTS
    Threads,   \* the request threads that can be alive at a time
    Channels,  \* the configured camera channels, channel 1 without a power
               \* switch; a request for any other finds no address to ping and
               \* is refused as by PingFails
    Fds,       \* descriptor numbers the session's socket can get
    MaxConns   \* bound on the connections

ASSUME ChannelsAssumption == Channels \subseteq Nat /\ 1 \in Channels
ASSUME ConnsAssumption == MaxConns \in Nat

VARIABLES
    stream_is_opened,  \* has ffmpeg been started and not stopped?
    current_play_cmd,  \* the channel in the command line of ffmpeg
    streams,           \* the running ffmpeg processes: the channels they were
                       \* asked for and the channels they play
    cam,               \* is the switched camera on?
    real_time_fd,      \* the descriptor the request threads answer to
    fd,                \* the session's socket, or 0
    conn,              \* number of the current or last connection
    sessPc,            \* where the session thread is in its loop
    sessReq,           \* the channel it was told to stop, 0 if it was not told
    thPc,              \* where each request thread is, "free" if there is none
    thChan,            \* the channel each was asked for
    thConn,            \* the connection that asked
    thFd,              \* the descriptor each will answer to
    overlap,           \* history: have two threads been in start_realplay or
                       \* stop_realplay at the same time?
    chased             \* history: has a stop overtaken a request?

streamVars == <<stream_is_opened, current_play_cmd, streams>>
sessVars == <<fd, conn, sessPc, sessReq>>
thVars == <<thPc, thChan, thConn, thFd>>
vars == <<streamVars, cam, real_time_fd, sessVars, thVars, overlap, chased>>

\* Where a request thread is inside hy_simple_stream_start_realplay.
InStart == {"stop", "kill", "clear", "cmd", "start", "set"}

\* Where the session thread is inside hy_simple_stream_stop_realplay.
InStop == {"kill", "clear"}

TypeOK ==
    /\ stream_is_opened \in BOOLEAN
    /\ current_play_cmd \in Channels \cup {0}
    /\ streams \in Seq([asked : Channels, plays : Channels])
    /\ cam \in BOOLEAN
    /\ real_time_fd \in Fds \cup {0} /\ fd \in Fds \cup {0}
    /\ conn \in 0..MaxConns
    /\ sessPc \in {"off", "idle", "stop", "camera"} \cup InStop
    /\ sessReq \in Channels \cup {0}
    /\ thPc \in [Threads -> {"free", "born", "ping", "test", "answer"} \cup InStart]
    /\ thChan \in [Threads -> Channels]
    /\ thConn \in [Threads -> 0..MaxConns]
    /\ thFd \in [Threads -> Fds \cup {0}]
    /\ overlap \in BOOLEAN /\ chased \in BOOLEAN

Init ==
    /\ stream_is_opened = FALSE /\ current_play_cmd = 0 /\ streams = <<>>
    /\ cam \in BOOLEAN
    /\ real_time_fd = 0 /\ fd = 0 /\ conn = 0
    /\ sessPc = "off" /\ sessReq = 0
    /\ thPc = [t \in Threads |-> "free"]
    /\ thChan = [t \in Threads |-> 1]
    /\ thConn = [t \in Threads |-> 0]
    /\ thFd = [t \in Threads |-> 0]
    /\ overlap = FALSE /\ chased = FALSE

NobodyAlive == \A t \in Threads : thPc[t] = "free"

\* Is somebody starting or stopping a stream?
SomebodyInside == sessPc \in InStop \/ \E t \in Threads : thPc[t] \in InStart

GoTo(t, place) == thPc' = [thPc EXCEPT ![t] = place]
-----------------------------------------------------------------------------
(* The session thread.                                                     *)

\* A new connection: its socket gets any number that is free.
Connect ==
    /\ sessPc = "off"
    /\ conn < MaxConns
    /\ conn' = conn + 1
    /\ fd' \in Fds
    /\ sessPc' = "idle"
    /\ UNCHANGED <<streamVars, cam, real_time_fd, sessReq, thVars, overlap, chased>>

\* Faulty RecvRequest: the descriptor is kept from the first request on.
RecvRequestFirstFd(t, c) ==
    /\ sessPc = "idle"
    /\ thPc[t] = "free"
    /\ real_time_fd' = IF real_time_fd = 0 THEN fd ELSE real_time_fd
    /\ thChan' = [thChan EXCEPT ![t] = c]
    /\ thConn' = [thConn EXCEPT ![t] = conn]
    /\ GoTo(t, "born")
    /\ UNCHANGED <<streamVars, cam, sessVars, thFd, overlap, chased>>

\* ATOD_REAL_TIME_REQUEST: the thread gets a copy of the request, and the
\* descriptor through a global.
RecvRequest(t, c) ==
    /\ sessPc = "idle"
    /\ thPc[t] = "free"
    /\ real_time_fd' = fd
    /\ thChan' = [thChan EXCEPT ![t] = c]
    /\ thConn' = [thConn EXCEPT ![t] = conn]
    /\ GoTo(t, "born")
    /\ UNCHANGED <<streamVars, cam, sessVars, thFd, overlap, chased>>

\* Faulty RecvStop: the camera is turned off before its stream is stopped.
RecvStopCameraFirst(c) ==
    /\ sessPc = "idle"
    /\ sessReq' = c
    /\ sessPc' = "stop"
    /\ cam' = IF c # 1 THEN FALSE ELSE cam
    /\ chased' = (chased \/ ~NobodyAlive)
    /\ UNCHANGED <<streamVars, real_time_fd, fd, conn, thVars, overlap>>

\* ATOD_REAL_STREAM_STOP for channel c.
RecvStop(c) ==
    /\ sessPc = "idle"
    /\ sessReq' = c
    /\ sessPc' = "stop"
    /\ chased' = (chased \/ ~NobodyAlive)
    /\ UNCHANGED <<streamVars, cam, real_time_fd, fd, conn, thVars, overlap>>

\* Faulty Disconnected: the stream is left to itself.
DisconnectedNoStop ==
    /\ sessPc = "idle"
    /\ fd' = 0
    /\ sessReq' = 0
    /\ sessPc' = "off"
    /\ chased' = (chased \/ ~NobodyAlive)
    /\ UNCHANGED <<streamVars, cam, real_time_fd, conn, thVars, overlap>>

\* DISCONNECTED: the socket is closed.
Disconnected ==
    /\ sessPc = "idle"
    /\ fd' = 0
    /\ sessReq' = 0
    /\ sessPc' = "stop"
    /\ chased' = (chased \/ ~NobodyAlive)
    /\ UNCHANGED <<streamVars, cam, real_time_fd, conn, thVars, overlap>>

\* What follows the stop of the stream: after a disconnection ten seconds of
\* sleep and another try, after a request the camera.
AfterStop == IF sessReq = 0 THEN "off" ELSE "camera"

\* hy_simple_stream_stop_realplay tests the flag,
SessStop ==
    /\ sessPc = "stop"
    /\ sessPc' = IF stream_is_opened THEN "kill" ELSE AfterStop
    /\ overlap' = (overlap \/ SomebodyInside)
    /\ UNCHANGED <<streamVars, cam, real_time_fd, fd, conn, sessReq, thVars, chased>>

\* kills every ffmpeg there is
SessKill ==
    /\ sessPc = "kill"
    /\ streams' = <<>>
    /\ sessPc' = "clear"
    /\ UNCHANGED <<stream_is_opened, current_play_cmd, cam, real_time_fd, fd, conn,
                   sessReq, thVars, overlap, chased>>

\* and, a millisecond later, clears the flag.
SessClear ==
    /\ sessPc = "clear"
    /\ stream_is_opened' = FALSE
    /\ sessPc' = AfterStop
    /\ UNCHANGED <<current_play_cmd, streams, cam, real_time_fd, fd, conn, sessReq,
                   thVars, overlap, chased>>

\* Unless the request was for channel 1 the camera is turned off, with a
\* datagram that can be lost; then detection is turned on (DetectCtrl) and the
\* answer is sent.
SessCamera ==
    /\ sessPc = "camera"
    /\ cam' \in IF sessReq # 1 THEN {FALSE, cam} ELSE {cam}
    /\ sessReq' = 0
    /\ sessPc' = "idle"
    /\ UNCHANGED <<streamVars, real_time_fd, fd, conn, thVars, overlap, chased>>
-----------------------------------------------------------------------------
(* A request thread.                                                       *)

\* The camera of any channel but 1 is turned on, with a datagram that can be
\* lost.
PowerCamera(t) ==
    /\ thPc[t] = "born" /\ thChan[t] # 1
    /\ cam' \in {TRUE, cam}
    /\ GoTo(t, "ping")
    /\ UNCHANGED <<streamVars, real_time_fd, sessVars, thChan, thConn, thFd, overlap,
                   chased>>

\* No ping answers, or the camera is not on: the request is refused.  The
\* descriptor is read when the answer is made.
PingFails(t) ==
    /\ thPc[t] = "ping"
    /\ thFd' = [thFd EXCEPT ![t] = real_time_fd]
    /\ GoTo(t, "answer")
    /\ UNCHANGED <<streamVars, cam, real_time_fd, sessVars, thChan, thConn, overlap,
                   chased>>

\* The camera answers, or needs no ping: start_realplay is called.  Again the
\* descriptor is read now, for an answer given when the stream runs.
CallStart(t) ==
    /\ \/ thPc[t] = "ping" /\ cam
       \/ thPc[t] = "born" /\ thChan[t] = 1
    /\ thFd' = [thFd EXCEPT ![t] = real_time_fd]
    /\ GoTo(t, "test")
    /\ UNCHANGED <<streamVars, cam, real_time_fd, sessVars, thChan, thConn, overlap,
                   chased>>

\* Is another stream to be stopped first?
TestOpened(t) ==
    /\ thPc[t] = "test"
    /\ GoTo(t, IF stream_is_opened THEN "stop" ELSE "cmd")
    /\ overlap' = (overlap \/ SomebodyInside)
    /\ UNCHANGED <<streamVars, cam, real_time_fd, sessVars, thChan, thConn, thFd, chased>>

\* stop_realplay tests the flag once more, which is FALSE if another thread has
\* stopped the stream in the meantime.
ThreadStop(t) ==
    /\ thPc[t] = "stop"
    /\ GoTo(t, IF stream_is_opened THEN "kill" ELSE "cmd")
    /\ UNCHANGED <<streamVars, cam, real_time_fd, sessVars, thChan, thConn, thFd,
                   overlap, chased>>

\* Faulty ThreadKill: the old stream is left running.
ThreadKillForgotten(t) ==
    /\ thPc[t] = "kill"
    /\ GoTo(t, "clear")
    /\ UNCHANGED <<streamVars, cam, real_time_fd, sessVars, thChan, thConn, thFd,
                   overlap, chased>>

ThreadKill(t) ==
    /\ thPc[t] = "kill"
    /\ streams' = <<>>
    /\ GoTo(t, "clear")
    /\ UNCHANGED <<stream_is_opened, current_play_cmd, cam, real_time_fd, sessVars,
                   thChan, thConn, thFd, overlap, chased>>

ThreadClear(t) ==
    /\ thPc[t] = "clear"
    /\ stream_is_opened' = FALSE
    /\ GoTo(t, "cmd")
    /\ UNCHANGED <<current_play_cmd, streams, cam, real_time_fd, sessVars, thChan,
                   thConn, thFd, overlap, chased>>

\* Faulty WriteCmd: the command line is written once.
WriteCmdOnce(t) ==
    /\ thPc[t] = "cmd"
    /\ current_play_cmd' = IF current_play_cmd = 0 THEN thChan[t] ELSE current_play_cmd
    /\ GoTo(t, "start")
    /\ UNCHANGED <<stream_is_opened, streams, cam, real_time_fd, sessVars, thChan,
                   thConn, thFd, overlap, chased>>

\* The command line is written into a buffer all threads share.
WriteCmd(t) ==
    /\ thPc[t] = "cmd"
    /\ current_play_cmd' = thChan[t]
    /\ GoTo(t, "start")
    /\ UNCHANGED <<stream_is_opened, streams, cam, real_time_fd, sessVars, thChan,
                   thConn, thFd, overlap, chased>>

\* The shell puts ffmpeg into the background and returns.
StartStream(t) ==
    /\ thPc[t] = "start"
    /\ streams' = Append(streams, [asked |-> thChan[t], plays |-> current_play_cmd])
    /\ GoTo(t, "set")
    /\ UNCHANGED <<stream_is_opened, current_play_cmd, cam, real_time_fd, sessVars,
                   thChan, thConn, thFd, overlap, chased>>

SetOpened(t) ==
    /\ thPc[t] = "set"
    /\ stream_is_opened' = TRUE
    /\ GoTo(t, "answer")
    /\ UNCHANGED <<current_play_cmd, streams, cam, real_time_fd, sessVars, thChan,
                   thConn, thFd, overlap, chased>>

\* The answer is written to the descriptor, and what became of the stream to a
\* connection of its own; the thread ends and its locals with it.
Answer(t) ==
    /\ thPc[t] = "answer"
    /\ GoTo(t, "free")
    /\ thChan' = [thChan EXCEPT ![t] = 1]
    /\ thConn' = [thConn EXCEPT ![t] = 0]
    /\ thFd' = [thFd EXCEPT ![t] = 0]
    /\ UNCHANGED <<streamVars, cam, real_time_fd, sessVars, overlap, chased>>

\* A stream can end by itself: its camera or the server goes away.  Nothing
\* tells the program.
StreamEnds ==
    /\ \E i \in DOMAIN streams : streams' = RemoveAt(streams, i)
    /\ UNCHANGED <<stream_is_opened, current_play_cmd, cam, real_time_fd, sessVars,
                   thVars, overlap, chased>>
-----------------------------------------------------------------------------
SessionThread ==
    \/ Connect \/ Disconnected
    \/ \E t \in Threads, c \in Channels : RecvRequest(t, c)
    \/ \E c \in Channels : RecvStop(c)
    \/ SessStop \/ SessKill \/ SessClear \/ SessCamera

RequestThread(t) ==
    \/ PowerCamera(t) \/ PingFails(t) \/ CallStart(t)
    \/ TestOpened(t) \/ ThreadStop(t) \/ ThreadKill(t) \/ ThreadClear(t)
    \/ WriteCmd(t) \/ StartStream(t) \/ SetOpened(t)
    \/ Answer(t)

Next == SessionThread \/ (\E t \in Threads : RequestThread(t)) \/ StreamEnds

Spec == Init /\ [][Next]_vars
-----------------------------------------------------------------------------
(* Properties.  Without locks they hold as long as nobody starts or stops  *)
(* a stream while somebody else does, or until a stop overtakes a request: *)
(* the histories say from when on they may not.                            *)

\* At most one ffmpeg publishes, and stream_is_opened knows of it, so that the
\* next stop can reach it (hy_stream_ctrl.c:281-294, 328-346).
StreamAccounted ==
    ~overlap => /\ Len(streams) <= 1
                /\ streams # <<>> /\ ~SomebodyInside => stream_is_opened

\* A stream shows the channel that was asked for, although all threads write
\* the same command line (hy_stream_ctrl.c:288-290).
AskedChannelPlays ==
    ~overlap => \A i \in DOMAIN streams : streams[i].plays = streams[i].asked

\* An answer goes to the connection that asked as long as that one is open,
\* although the descriptor is read long after the request
\* (hy_session_handler.c:651, 750-759).
AnswerToAsker ==
    \A t \in Threads :
        /\ thPc[t] \in {"born", "ping"} /\ fd # 0 /\ thConn[t] = conn
             => real_time_fd = fd
        /\ thPc[t] \in {"test", "answer"} \cup InStart /\ fd # 0 /\ thConn[t] = conn
             => thFd[t] = fd

\* With no session and no request under way nothing is published
\* (hy_session_handler.c:849-853).
NoStreamWithoutSession ==
    ~overlap /\ ~chased /\ sessPc = "off" => streams = <<>>

\* A stream of the switched camera plays only while that one is on
\* (hy_session_handler.c:329-334).
PlayingCameraOn ==
    ~overlap /\ ~chased => \A i \in DOMAIN streams : streams[i].plays # 1 => cam
=============================================================================
