---------------------------- MODULE LiveViewProofs ----------------------------
(***************************************************************************)
(* Proofs about LiveView, for any number of request threads, channels,     *)
(* descriptors and connections.                                            *)
(***************************************************************************)
EXTENDS LiveView, SequenceTheorems, TLAPS

\* Until two threads have met, at most one is inside.
Alone ==
    /\ sessPc \in InStop => \A t \in Threads : thPc[t] \notin InStart
    /\ \A t, u \in Threads : thPc[t] \in InStart /\ thPc[u] \in InStart => t = u

\* What a thread that is inside alone finds: the stream it was told of, then none,
\* then its own channel in the command line.
Undisturbed ==
    /\ \A t \in Threads :
         /\ thPc[t] = "stop" => stream_is_opened
         /\ thPc[t] \in {"clear", "cmd", "start"} => streams = <<>>
         /\ thPc[t] = "start" => current_play_cmd = thChan[t]
    /\ sessPc = "clear" => streams = <<>>

InsideInv ==
    /\ ~overlap => Alone /\ Undisturbed
    /\ StreamAccounted /\ AskedChannelPlays

\* Until a stop has overtaken a request, the session thread stops with no request
\* under way, leaves no stream behind it, and the camera of a request stays on.
ChaseInv ==
    /\ ~chased /\ sessPc # "idle" => NobodyAlive
    /\ ~chased => \A t \in Threads :
         thPc[t] \in {"test"} \cup InStart /\ thChan[t] # 1 => cam
    /\ ~overlap /\ ~chased /\ sessPc \in {"clear", "camera", "off"} => streams = <<>>
    /\ PlayingCameraOn

\* No thread comes from a connection that is still to be made.
AskerInv == AnswerToAsker /\ \A t \in Threads : thConn[t] <= conn

\* A thread that starts a stream has a command line.
Written == \A t \in Threads : thPc[t] = "start" => current_play_cmd \in Channels

IInv == TypeOK /\ Written /\ InsideInv /\ ChaseInv /\ AskerInv
-----------------------------------------------------------------------------
(* Sequences.                                                              *)

\* What remains of a sequence without one of its elements.
LEMMA Removed ==
  ASSUME NEW S, NEW s \in Seq(S), NEW i \in DOMAIN s
  PROVE  /\ RemoveAt(s, i) \in Seq(S)
         /\ Len(RemoveAt(s, i)) = Len(s) - 1
         /\ \A j \in DOMAIN RemoveAt(s, i) : \E k \in DOMAIN s : RemoveAt(s, i)[j] = s[k]
<1> DEFINE left == SubSeq(s, 1, i - 1)
           right == SubSeq(s, i + 1, Len(s))
<1>1. i \in 1..Len(s) /\ Len(s) \in Nat /\ \A j \in 1..Len(s) : s[j] \in S
  BY LenProperties
<1>2. left \in Seq(S) /\ Len(left) = i - 1 /\ \A j \in 1..(i - 1) : left[j] = s[j]
  BY <1>1, SubSeqProperties
<1>3. /\ right \in Seq(S) /\ Len(right) = Len(s) - i
      /\ \A j \in 1..(Len(s) - i) : right[j] = s[i + j]
  BY <1>1, SubSeqProperties
<1> HIDE DEF left, right
<1>4. /\ left \o right \in Seq(S) /\ Len(left \o right) = Len(s) - 1
      /\ \A j \in 1..(Len(s) - 1) :
           (left \o right)[j] = IF j <= i - 1 THEN left[j] ELSE right[j - (i - 1)]
  <2>1. /\ left \o right \in Seq(S) /\ Len(left \o right) = Len(left) + Len(right)
        /\ \A j \in 1..(Len(left) + Len(right)) :
             (left \o right)[j] = IF j <= Len(left) THEN left[j] ELSE right[j - Len(left)]
    BY <1>2, <1>3, ConcatProperties
  <2>2. Len(left) = i - 1 /\ Len(left) + Len(right) = Len(s) - 1
    BY <1>1, <1>2, <1>3
  <2> QED BY <2>1, <2>2
<1>5. ASSUME NEW j \in DOMAIN (left \o right)
      PROVE  \E k \in DOMAIN s : (left \o right)[j] = s[k]
  <2>1. j \in 1..(Len(s) - 1)
    BY <1>4, LenProperties
  <2>2. (left \o right)[j] = IF j <= i - 1 THEN left[j] ELSE right[j - (i - 1)]
    BY <1>4, <2>1
  <2>3. CASE j <= i - 1
    BY <1>1, <1>2, <2>1, <2>2, <2>3
  <2>4. CASE j > i - 1
    <3>1. j - (i - 1) \in 1..(Len(s) - i) /\ i + (j - (i - 1)) = j + 1 /\ j + 1 \in 1..Len(s)
      BY <1>1, <2>1, <2>4
    <3>2. right[j - (i - 1)] = s[j + 1]
      BY <1>3, <3>1
    <3> QED BY <1>1, <2>1, <2>2, <2>4, <3>1, <3>2
  <2> QED BY <1>1, <2>1, <2>3, <2>4
<1> QED BY <1>4, <1>5 DEF RemoveAt, left, right

\* A stream that has been started is the last of them.
LEMMA Started ==
  ASSUME NEW S, NEW s \in Seq(S), NEW e \in S
  PROVE  /\ Append(s, e) \in Seq(S)
         /\ s = <<>> => Len(Append(s, e)) = 1 /\ Append(s, e)[1] = e
  BY AppendProperties, EmptySeq

\* At most one stream is left of at most one.
LEMMA FewerStreams ==
  ASSUME TypeOK, StreamEnds
  PROVE  /\ streams' \in Seq([asked : Channels, plays : Channels])
         /\ streams # <<>>
         /\ Len(streams) <= 1 => streams' = <<>>
         /\ \A j \in DOMAIN streams' : \E k \in DOMAIN streams : streams'[j] = streams[k]
<1>1. PICK i \in DOMAIN streams : streams' = RemoveAt(streams, i)
  BY DEF StreamEnds
<1>2. streams \in Seq([asked : Channels, plays : Channels])
  BY DEF TypeOK
<1>3. /\ streams' \in Seq([asked : Channels, plays : Channels])
      /\ Len(streams') = Len(streams) - 1
      /\ \A j \in DOMAIN streams' : \E k \in DOMAIN streams : streams'[j] = streams[k]
  BY <1>1, <1>2, Removed
<1>4. streams # <<>>
  BY <1>1
<1>5. Len(streams) <= 1 => Len(streams') = 0
  BY <1>2, <1>3, <1>4
<1> QED BY <1>3, <1>4, <1>5
-----------------------------------------------------------------------------
(* The steps.                                                              *)

LEMMA InitInv == Init => IInv
<1> SUFFICES ASSUME Init PROVE IInv
  OBVIOUS
<1>1. TypeOK
  <2>1. 0 \in 0..MaxConns /\ 1 \in Channels
    BY ChannelsAssumption, ConnsAssumption
  <2>2. streams \in Seq([asked : Channels, plays : Channels])
    BY DEF Init
  <2> QED BY <2>1, <2>2 DEF Init, TypeOK
<1>2. InsideInv
  BY DEF Init, InsideInv, Alone, Undisturbed, StreamAccounted, AskedChannelPlays, InStop, InStart
<1>3. ChaseInv
  BY DEF Init, ChaseInv, NobodyAlive, PlayingCameraOn, InStart
<1>4. AskerInv /\ Written
  BY DEF Init, AskerInv, AnswerToAsker, Written, InStart
<1> QED BY <1>1, <1>2, <1>3, <1>4 DEF IInv

\* Types.
LEMMA TypeStep == ASSUME IInv, [Next]_vars PROVE TypeOK'
<1> USE DEF IInv, TypeOK, streamVars, sessVars, thVars, GoTo, AfterStop, InStop, InStart
<1>1. CASE Connect
  BY <1>1, ConnsAssumption DEF Connect
<1>2. CASE Disconnected
  BY <1>2 DEF Disconnected
<1>3. ASSUME NEW t \in Threads, NEW c \in Channels, RecvRequest(t, c) PROVE TypeOK'
  BY <1>3 DEF RecvRequest
<1>4. ASSUME NEW c \in Channels, RecvStop(c) PROVE TypeOK'
  BY <1>4 DEF RecvStop
<1>5. CASE SessStop
  BY <1>5 DEF SessStop
<1>6. CASE SessKill
  BY <1>6 DEF SessKill
<1>7. CASE SessClear
  BY <1>7 DEF SessClear
<1>8. CASE SessCamera
  BY <1>8 DEF SessCamera
<1>9. ASSUME NEW t \in Threads, PowerCamera(t) PROVE TypeOK'
  BY <1>9 DEF PowerCamera
<1>10. ASSUME NEW t \in Threads, PingFails(t) PROVE TypeOK'
  BY <1>10 DEF PingFails
<1>11. ASSUME NEW t \in Threads, CallStart(t) PROVE TypeOK'
  BY <1>11 DEF CallStart
<1>12. ASSUME NEW t \in Threads, TestOpened(t) PROVE TypeOK'
  BY <1>12 DEF TestOpened
<1>13. ASSUME NEW t \in Threads, ThreadStop(t) PROVE TypeOK'
  BY <1>13 DEF ThreadStop
<1>14. ASSUME NEW t \in Threads, ThreadKill(t) PROVE TypeOK'
  BY <1>14 DEF ThreadKill
<1>15. ASSUME NEW t \in Threads, ThreadClear(t) PROVE TypeOK'
  BY <1>15 DEF ThreadClear
<1>16. ASSUME NEW t \in Threads, WriteCmd(t) PROVE TypeOK'
  BY <1>16 DEF WriteCmd
<1>17. ASSUME NEW t \in Threads, StartStream(t) PROVE TypeOK'
  <2>1. [asked |-> thChan[t], plays |-> current_play_cmd] \in [asked : Channels, plays : Channels]
    BY <1>17 DEF StartStream, Written
  <2> QED BY <1>17, <2>1, Started DEF StartStream
<1>18. ASSUME NEW t \in Threads, SetOpened(t) PROVE TypeOK'
  BY <1>18 DEF SetOpened
<1>19. ASSUME NEW t \in Threads, Answer(t) PROVE TypeOK'
  BY <1>19, ChannelsAssumption, ConnsAssumption DEF Answer
<1>20. CASE StreamEnds
  BY <1>20, FewerStreams DEF StreamEnds
<1>21. CASE UNCHANGED vars
  BY <1>21 DEF vars
<1> QED BY <1>1, <1>2, <1>3, <1>4, <1>5, <1>6, <1>7, <1>8, <1>9, <1>10, <1>11, <1>12, <1>13, <1>14, <1>15, <1>16, <1>17, <1>18, <1>19, <1>20, <1>21
       DEF Next, SessionThread, RequestThread

\* The command line.
LEMMA WrittenStep == ASSUME IInv, [Next]_vars PROVE Written'
<1> USE DEF IInv, TypeOK, Written, streamVars, sessVars, thVars, GoTo, AfterStop, InStop, InStart
<1>1. CASE Connect
  BY <1>1 DEF Connect
<1>2. CASE Disconnected
  BY <1>2 DEF Disconnected
<1>3. ASSUME NEW t \in Threads, NEW c \in Channels, RecvRequest(t, c) PROVE Written'
  BY <1>3 DEF RecvRequest
<1>4. ASSUME NEW c \in Channels, RecvStop(c) PROVE Written'
  BY <1>4 DEF RecvStop
<1>5. CASE SessStop
  BY <1>5 DEF SessStop
<1>6. CASE SessKill
  BY <1>6 DEF SessKill
<1>7. CASE SessClear
  BY <1>7 DEF SessClear
<1>8. CASE SessCamera
  BY <1>8 DEF SessCamera
<1>9. ASSUME NEW t \in Threads, PowerCamera(t) PROVE Written'
  BY <1>9 DEF PowerCamera
<1>10. ASSUME NEW t \in Threads, PingFails(t) PROVE Written'
  BY <1>10 DEF PingFails
<1>11. ASSUME NEW t \in Threads, CallStart(t) PROVE Written'
  BY <1>11 DEF CallStart
<1>12. ASSUME NEW t \in Threads, TestOpened(t) PROVE Written'
  BY <1>12 DEF TestOpened
<1>13. ASSUME NEW t \in Threads, ThreadStop(t) PROVE Written'
  BY <1>13 DEF ThreadStop
<1>14. ASSUME NEW t \in Threads, ThreadKill(t) PROVE Written'
  BY <1>14 DEF ThreadKill
<1>15. ASSUME NEW t \in Threads, ThreadClear(t) PROVE Written'
  BY <1>15 DEF ThreadClear
<1>16. ASSUME NEW t \in Threads, WriteCmd(t) PROVE Written'
  BY <1>16 DEF WriteCmd
<1>17. ASSUME NEW t \in Threads, StartStream(t) PROVE Written'
  BY <1>17 DEF StartStream
<1>18. ASSUME NEW t \in Threads, SetOpened(t) PROVE Written'
  BY <1>18 DEF SetOpened
<1>19. ASSUME NEW t \in Threads, Answer(t) PROVE Written'
  BY <1>19 DEF Answer
<1>20. CASE StreamEnds
  BY <1>20 DEF StreamEnds
<1>21. CASE UNCHANGED vars
  BY <1>21 DEF vars
<1> QED BY <1>1, <1>2, <1>3, <1>4, <1>5, <1>6, <1>7, <1>8, <1>9, <1>10, <1>11, <1>12, <1>13, <1>14, <1>15, <1>16, <1>17, <1>18, <1>19, <1>20, <1>21
       DEF Next, SessionThread, RequestThread

\* Whom the threads answer.
LEMMA AskerStep == ASSUME IInv, [Next]_vars PROVE AskerInv'
<1> USE DEF IInv, TypeOK, AskerInv, AnswerToAsker, streamVars, sessVars, thVars, GoTo, AfterStop, InStop, InStart
<1>1. CASE Connect
  BY <1>1 DEF Connect
<1>2. CASE Disconnected
  BY <1>2 DEF Disconnected
<1>3. ASSUME NEW t \in Threads, NEW c \in Channels, RecvRequest(t, c) PROVE AskerInv'
  BY <1>3 DEF RecvRequest
<1>4. ASSUME NEW c \in Channels, RecvStop(c) PROVE AskerInv'
  BY <1>4 DEF RecvStop
<1>5. CASE SessStop
  BY <1>5 DEF SessStop
<1>6. CASE SessKill
  BY <1>6 DEF SessKill
<1>7. CASE SessClear
  BY <1>7 DEF SessClear
<1>8. CASE SessCamera
  BY <1>8 DEF SessCamera
<1>9. ASSUME NEW t \in Threads, PowerCamera(t) PROVE AskerInv'
  BY <1>9 DEF PowerCamera
<1>10. ASSUME NEW t \in Threads, PingFails(t) PROVE AskerInv'
  BY <1>10 DEF PingFails
<1>11. ASSUME NEW t \in Threads, CallStart(t) PROVE AskerInv'
  BY <1>11 DEF CallStart
<1>12. ASSUME NEW t \in Threads, TestOpened(t) PROVE AskerInv'
  BY <1>12 DEF TestOpened
<1>13. ASSUME NEW t \in Threads, ThreadStop(t) PROVE AskerInv'
  BY <1>13 DEF ThreadStop
<1>14. ASSUME NEW t \in Threads, ThreadKill(t) PROVE AskerInv'
  BY <1>14 DEF ThreadKill
<1>15. ASSUME NEW t \in Threads, ThreadClear(t) PROVE AskerInv'
  BY <1>15 DEF ThreadClear
<1>16. ASSUME NEW t \in Threads, WriteCmd(t) PROVE AskerInv'
  BY <1>16 DEF WriteCmd
<1>17. ASSUME NEW t \in Threads, StartStream(t) PROVE AskerInv'
  BY <1>17 DEF StartStream
<1>18. ASSUME NEW t \in Threads, SetOpened(t) PROVE AskerInv'
  BY <1>18 DEF SetOpened
<1>19. ASSUME NEW t \in Threads, Answer(t) PROVE AskerInv'
  BY <1>19 DEF Answer
<1>20. CASE StreamEnds
  BY <1>20 DEF StreamEnds
<1>21. CASE UNCHANGED vars
  BY <1>21 DEF vars
<1> QED BY <1>1, <1>2, <1>3, <1>4, <1>5, <1>6, <1>7, <1>8, <1>9, <1>10, <1>11, <1>12, <1>13, <1>14, <1>15, <1>16, <1>17, <1>18, <1>19, <1>20, <1>21
       DEF Next, SessionThread, RequestThread

\* Who is inside, and what is published.
LEMMA InsideStep == ASSUME IInv, [Next]_vars PROVE InsideInv'
<1> USE DEF IInv, TypeOK, InsideInv, Alone, Undisturbed, StreamAccounted, AskedChannelPlays, SomebodyInside, streamVars, sessVars, thVars, GoTo, AfterStop, InStop, InStart
<1>1. CASE Connect
  BY <1>1 DEF Connect
<1>2. CASE Disconnected
  BY <1>2 DEF Disconnected
<1>3. ASSUME NEW t \in Threads, NEW c \in Channels, RecvRequest(t, c) PROVE InsideInv'
  BY <1>3 DEF RecvRequest
<1>4. ASSUME NEW c \in Channels, RecvStop(c) PROVE InsideInv'
  BY <1>4 DEF RecvStop
<1>5. CASE SessStop
  BY <1>5 DEF SessStop
<1>6. CASE SessKill
  BY <1>6 DEF SessKill
<1>7. CASE SessClear
  BY <1>7 DEF SessClear
<1>8. CASE SessCamera
  BY <1>8 DEF SessCamera
<1>9. ASSUME NEW t \in Threads, PowerCamera(t) PROVE InsideInv'
  BY <1>9 DEF PowerCamera
<1>10. ASSUME NEW t \in Threads, PingFails(t) PROVE InsideInv'
  BY <1>10 DEF PingFails
<1>11. ASSUME NEW t \in Threads, CallStart(t) PROVE InsideInv'
  BY <1>11 DEF CallStart
<1>12. ASSUME NEW t \in Threads, TestOpened(t) PROVE InsideInv'
  BY <1>12 DEF TestOpened
<1>13. ASSUME NEW t \in Threads, ThreadStop(t) PROVE InsideInv'
  BY <1>13 DEF ThreadStop
<1>14. ASSUME NEW t \in Threads, ThreadKill(t) PROVE InsideInv'
  BY <1>14 DEF ThreadKill
<1>15. ASSUME NEW t \in Threads, ThreadClear(t) PROVE InsideInv'
  BY <1>15 DEF ThreadClear
<1>16. ASSUME NEW t \in Threads, WriteCmd(t) PROVE InsideInv'
  BY <1>16 DEF WriteCmd
<1>17. ASSUME NEW t \in Threads, StartStream(t) PROVE InsideInv'
  BY <1>17 DEF StartStream
<1>18. ASSUME NEW t \in Threads, SetOpened(t) PROVE InsideInv'
  BY <1>18 DEF SetOpened
<1>19. ASSUME NEW t \in Threads, Answer(t) PROVE InsideInv'
  BY <1>19 DEF Answer
<1>20. CASE StreamEnds
  <2>1. ~overlap' => Alone' /\ Undisturbed'
    BY <1>20, FewerStreams DEF StreamEnds
  <2>2. StreamAccounted'
    BY <1>20, FewerStreams DEF StreamEnds
  <2>3. AskedChannelPlays'
    BY <1>20, FewerStreams DEF StreamEnds
  <2> QED BY <2>1, <2>2, <2>3
<1>21. CASE UNCHANGED vars
  BY <1>21 DEF vars
<1> QED BY <1>1, <1>2, <1>3, <1>4, <1>5, <1>6, <1>7, <1>8, <1>9, <1>10, <1>11, <1>12, <1>13, <1>14, <1>15, <1>16, <1>17, <1>18, <1>19, <1>20, <1>21
       DEF Next, SessionThread, RequestThread

\* What a stop leaves.
LEMMA ChaseStep == ASSUME IInv, [Next]_vars PROVE ChaseInv'
<1> USE DEF IInv, TypeOK, ChaseInv, InsideInv, Undisturbed, AskedChannelPlays, StreamAccounted, SomebodyInside, PlayingCameraOn, NobodyAlive, streamVars, sessVars, thVars, GoTo, AfterStop, InStop, InStart
<1>1. CASE Connect
  BY <1>1 DEF Connect
<1>2. CASE Disconnected
  BY <1>2 DEF Disconnected
<1>3. ASSUME NEW t \in Threads, NEW c \in Channels, RecvRequest(t, c) PROVE ChaseInv'
  BY <1>3 DEF RecvRequest
<1>4. ASSUME NEW c \in Channels, RecvStop(c) PROVE ChaseInv'
  BY <1>4 DEF RecvStop
<1>5. CASE SessStop
  BY <1>5 DEF SessStop
<1>6. CASE SessKill
  BY <1>6 DEF SessKill
<1>7. CASE SessClear
  BY <1>7 DEF SessClear
<1>8. CASE SessCamera
  BY <1>8 DEF SessCamera
<1>9. ASSUME NEW t \in Threads, PowerCamera(t) PROVE ChaseInv'
  <2>1. cam => cam'
    BY <1>9 DEF PowerCamera
  <2>2. PlayingCameraOn'
    BY <1>9, <2>1 DEF PowerCamera
  <2>3. ~chased' => \A u \in Threads :
          thPc[u]' \in {"test"} \cup InStart /\ thChan[u]' # 1 => cam'
    BY <1>9, <2>1 DEF PowerCamera
  <2> QED BY <1>9, <2>2, <2>3 DEF PowerCamera
<1>10. ASSUME NEW t \in Threads, PingFails(t) PROVE ChaseInv'
  BY <1>10 DEF PingFails
<1>11. ASSUME NEW t \in Threads, CallStart(t) PROVE ChaseInv'
  BY <1>11 DEF CallStart
<1>12. ASSUME NEW t \in Threads, TestOpened(t) PROVE ChaseInv'
  BY <1>12 DEF TestOpened
<1>13. ASSUME NEW t \in Threads, ThreadStop(t) PROVE ChaseInv'
  BY <1>13 DEF ThreadStop
<1>14. ASSUME NEW t \in Threads, ThreadKill(t) PROVE ChaseInv'
  BY <1>14 DEF ThreadKill
<1>15. ASSUME NEW t \in Threads, ThreadClear(t) PROVE ChaseInv'
  BY <1>15 DEF ThreadClear
<1>16. ASSUME NEW t \in Threads, WriteCmd(t) PROVE ChaseInv'
  BY <1>16 DEF WriteCmd
<1>17. ASSUME NEW t \in Threads, StartStream(t) PROVE ChaseInv'
  BY <1>17 DEF StartStream
<1>18. ASSUME NEW t \in Threads, SetOpened(t) PROVE ChaseInv'
  BY <1>18 DEF SetOpened
<1>19. ASSUME NEW t \in Threads, Answer(t) PROVE ChaseInv'
  BY <1>19 DEF Answer
<1>20. CASE StreamEnds
  <2>1. streams # <<>>
    BY <1>20, FewerStreams
  <2>2. PlayingCameraOn'
    BY <1>20, FewerStreams DEF StreamEnds
  <2> QED BY <1>20, <2>1, <2>2 DEF StreamEnds
<1>21. CASE UNCHANGED vars
  BY <1>21 DEF vars
<1> QED BY <1>1, <1>2, <1>3, <1>4, <1>5, <1>6, <1>7, <1>8, <1>9, <1>10, <1>11, <1>12, <1>13, <1>14, <1>15, <1>16, <1>17, <1>18, <1>19, <1>20, <1>21
       DEF Next, SessionThread, RequestThread

-----------------------------------------------------------------------------
(* The theorems.                                                           *)

LEMMA Invariance == Spec => []IInv
<1>1. IInv /\ [Next]_vars => IInv'
  BY TypeStep, WrittenStep, AskerStep, InsideStep, ChaseStep DEF IInv
<1> QED BY InitInv, <1>1, PTL DEF Spec

\* Every variable keeps its type.
THEOREM TypeCorrect == Spec => []TypeOK
<1>1. IInv => TypeOK
  BY DEF IInv
<1> QED BY <1>1, Invariance, PTL

\* Until two have met at most one ffmpeg publishes, and the flag knows of it.
THEOREM StreamAccountedCorrect == Spec => []StreamAccounted
<1>1. IInv => StreamAccounted
  BY DEF IInv, InsideInv
<1> QED BY <1>1, Invariance, PTL

\* Until then the stream shows the channel it was asked for.
THEOREM AskedChannelPlaysCorrect == Spec => []AskedChannelPlays
<1>1. IInv => AskedChannelPlays
  BY DEF IInv, InsideInv
<1> QED BY <1>1, Invariance, PTL

\* While the connection that asked is open its answer goes to no other.
THEOREM AnswerToAskerCorrect == Spec => []AnswerToAsker
<1>1. IInv => AnswerToAsker
  BY DEF IInv, AskerInv
<1> QED BY <1>1, Invariance, PTL

\* Until a stop overtakes a request a stream's camera stays on.
THEOREM PlayingCameraOnCorrect == Spec => []PlayingCameraOn
<1>1. IInv => PlayingCameraOn
  BY DEF IInv, ChaseInv
<1> QED BY <1>1, Invariance, PTL

\* With no session, no request under way and no stop overtaken, nothing is published.
THEOREM NoStreamWithoutSessionCorrect == Spec => []NoStreamWithoutSession
<1>1. IInv => NoStreamWithoutSession
  BY DEF IInv, ChaseInv, NoStreamWithoutSession
<1> QED BY <1>1, Invariance, PTL
-----------------------------------------------------------------------------
(* The live view as an implementation of Player.                           *)

\* What is published, as the player has it.
Publishing == [i \in DOMAIN streams |-> streams[i].plays]

P == INSTANCE Player WITH playing <- Publishing

\* Every step plays one channel, stops it, or changes nothing that is published,
\* until two threads are in start_realplay or stop_realplay at once.
PlayerUntilOverlap == P!PInit /\ [][overlap' \/ [P!PNext]_Publishing]_vars

\* Nothing is published without a stream.
LEMMA NothingPublished == streams = <<>> => Publishing = <<>>
BY DEF Publishing

\* A stream that ends alone leaves the player stopped.
LEMMA EndsAlone ==
  ASSUME IInv, StreamEnds, ~overlap
  PROVE  P!Stop
<1>1. streams # <<>> /\ streams' = <<>>
  BY FewerStreams DEF IInv, InsideInv, StreamAccounted
<1>2. streams \in Seq([asked : Channels, plays : Channels]) /\ Len(streams) # 0
  BY <1>1 DEF IInv, TypeOK
<1>3. 1 \in DOMAIN Publishing
  BY <1>2 DEF Publishing
<1>4. Publishing # <<>> /\ Publishing' = <<>>
  BY <1>1, <1>3 DEF Publishing
<1> QED BY <1>4 DEF P!Stop

\* Killing every ffmpeg stops the player or finds it stopped.
LEMMA KillStops ==
  ASSUME streams' = <<>>
  PROVE  [P!PNext]_Publishing
<1>1. Publishing' = <<>>
  BY DEF Publishing
<1> QED BY <1>1 DEF P!PNext, P!Stop

\* A thread that is inside alone starts the channel it was asked for, and only that.
LEMMA StartPlays ==
  ASSUME IInv, ~overlap, NEW t \in Threads, StartStream(t)
  PROVE  P!Play(thChan[t])
<1>1. streams = <<>> /\ current_play_cmd = thChan[t]
  BY DEF IInv, InsideInv, Undisturbed, StartStream
<1>2. streams' = <<[asked |-> thChan[t], plays |-> thChan[t]]>>
  BY <1>1 DEF StartStream
<1>3. Publishing' = <<thChan[t]>>
  BY <1>2 DEF Publishing
<1> QED BY <1>1, <1>3, NothingPublished DEF P!Play

\* Each step, with what is published in its place.
LEMMA PlayerStep == ASSUME IInv, [Next]_vars PROVE overlap' \/ [P!PNext]_Publishing
<1> SUFFICES ASSUME ~overlap' PROVE [P!PNext]_Publishing
  OBVIOUS
<1>1. overlap \in BOOLEAN /\ overlap' \in {overlap, overlap \/ SomebodyInside}
  BY DEF IInv, TypeOK, Next, SessionThread, RequestThread, Connect, Disconnected, RecvRequest,
         RecvStop, SessStop, SessKill, SessClear, SessCamera, PowerCamera, PingFails, CallStart,
         TestOpened, ThreadStop, ThreadKill, ThreadClear, WriteCmd, StartStream, SetOpened,
         Answer, StreamEnds, vars
<1>2. ~overlap
  BY <1>1
<1>3. CASE UNCHANGED streams
  BY <1>3 DEF Publishing
<1>4. CASE SessKill
  BY <1>4, KillStops DEF SessKill
<1>5. ASSUME NEW t \in Threads, ThreadKill(t) PROVE [P!PNext]_Publishing
  BY <1>5, KillStops DEF ThreadKill
<1>6. ASSUME NEW t \in Threads, StartStream(t) PROVE [P!PNext]_Publishing
  <2>1. P!Play(thChan[t]) /\ thChan[t] \in Channels
    BY <1>2, <1>6, StartPlays DEF IInv, TypeOK
  <2> QED BY <2>1 DEF P!PNext
<1>7. CASE StreamEnds
  BY <1>2, <1>7, EndsAlone DEF P!PNext
<1> QED BY <1>3, <1>4, <1>5, <1>6, <1>7
        DEF Next, SessionThread, RequestThread, Connect, Disconnected, RecvRequest, RecvStop,
            SessStop, SessClear, SessCamera, PowerCamera, PingFails, CallStart, TestOpened,
            ThreadStop, ThreadClear, WriteCmd, SetOpened, Answer, vars, streamVars

\* Until two threads overlap the live view is a player of one stream: none starts
\* before the one before it is stopped, and each shows the channel of its request.
THEOREM RefinesPlayerUntilOverlap == Spec => PlayerUntilOverlap
<1>1. Init => P!PInit
  BY NothingPublished DEF Init, P!PInit
<1>2. IInv /\ [Next]_vars => [overlap' \/ [P!PNext]_Publishing]_vars
  BY PlayerStep
<1> QED BY <1>1, <1>2, Invariance, PTL DEF Spec, PlayerUntilOverlap
=============================================================================
