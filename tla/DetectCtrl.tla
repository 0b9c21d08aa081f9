------------------------------ MODULE DetectCtrl ------------------------------
(***************************************************************************)
(* How detection is turned on and off and how an alarm sounds the horn:    *)
(* five threads meet in one flag, one queue and the timer service.         *)
(*   - The session thread obeys the server: a manual PTZ request turns     *)
(*     detection off; an automatic one, or the end of a live view, drives  *)
(*     the camera to its preset and starts a timer that turns it on.       *)
(*   - The decode thread reads the flag once a frame and puts alarms.      *)
(*   - The file management thread opens the horn for each alarm and starts *)
(*     a timer that closes it.                                             *)
(*   - The timer thread (HyTimer) calls both functions.                    *)
(*   - The power controller MK60 obeys datagrams, which can be lost.       *)
(* The message deque is the queue it promises to be: see MesgDeque for     *)
(* when it is not.                                                         *)
(***************************************************************************)
EXTENDS HyTimer

CONSTANTS
    DetectDelay,  \* seconds from an automatic request to detection: 2
    HornTime,     \* seconds the horn sounds: 30
    MaxAutos,     \* bound on the automatic requests under way
    MaxAlarms     \* bound on the alarms queued or sounding

START == "hy_sig_start_detect"
CLOSE == "send_close_alarm_package_to_mk60"

\* The users of the timer service, and no others.
ASSUME UsersAssumption == /\ Starters = {"session", "file"}
                          /\ Functions = {START, CLOSE}
                          /\ Times = {DetectDelay, HornTime}
ASSUME DelaysAssumption == /\ DetectDelay \in Nat \ {0}
                           /\ HornTime \in Nat \ {0}
ASSUME LimitsAssumption == /\ MaxAutos \in Nat /\ MaxAlarms \in Nat
                           /\ MaxTimers = MaxAutos + MaxAlarms

VARIABLES
    starting,     \* g_hy_detect_info.starting: is detection on?
    sessionPc,    \* where the session thread is in its command handler
    lastReq,      \* history: the last request handled, or "boot"
    walks,        \* history: walks ended since then, up to DetectDelay
    decodePc,     \* where the decode thread is in its loop
    lateFrames,   \* history: frames analysed since detection was turned off
    alarms,       \* number of alarms in data_mesg_deque
    filePc,       \* where the file management thread is in its loop
    horn,         \* is the horn on?
    closeLost     \* history: was the last datagram that closes it lost?

sessionVars == <<sessionPc, lastReq, walks>>
decodeVars == <<decodePc, lateFrames>>
fileVars == <<filePc, horn, closeLost>>
vars == <<timerVars, sessionVars, decodeVars, fileVars, starting, alarms>>

TypeOK ==
    /\ TimerTypeOK
    /\ starting \in BOOLEAN
    /\ sessionPc \in {"idle", "preset", "link"}
    /\ lastReq \in {"boot", "manu", "auto"}
    /\ walks \in 0..DetectDelay
    /\ decodePc \in {"test", "frame"}
    /\ lateFrames \in Nat
    /\ alarms \in Nat
    /\ filePc \in {"get", "open", "start", "link"}
    /\ horn \in BOOLEAN
    /\ closeLost \in BOOLEAN

\* main has parsed mv.config (global_config.c:139), or failed to open it.
Init ==
    /\ TimerInit
    /\ starting \in BOOLEAN
    /\ sessionPc = "idle" /\ lastReq = "boot" /\ walks = 0
    /\ decodePc = "test" /\ lateFrames = 0
    /\ alarms = 0
    /\ filePc = "get" /\ horn = FALSE /\ closeLost = FALSE

TimersOf(f) == {i \in 1..Len(timers) : timers[i].function = f}
-----------------------------------------------------------------------------
(* The session thread.                                                     *)

\* ATOD_PTZ_MANU.
RecvManu ==
    /\ sessionPc = "idle"
    /\ starting' = FALSE
    /\ lastReq' = "manu" /\ walks' = 0
    /\ UNCHANGED <<timerVars, sessionPc, decodeVars, fileVars, alarms>>

\* ATOD_PTZ_AUTO, or ATOD_REAL_STREAM_STOP after it has stopped the stream:
\* hy_sig_handle_ptz_auto_req calls the camera.
RecvAuto ==
    /\ sessionPc = "idle"
    /\ Cardinality(TimersOf(START)) < MaxAutos
    /\ sessionPc' = "preset"
    /\ lastReq' = "auto" /\ walks' = 0
    /\ UNCHANGED <<timerVars, decodeVars, fileVars, starting, alarms>>

\* Faulty StartDetectTimer: the timer goes on for ever.
StartDetectTimerCircle ==
    /\ sessionPc = "preset"
    /\ StartTimer("session", START, CIRCLE, DetectDelay)
    /\ sessionPc' = "link"
    /\ UNCHANGED <<lastReq, walks, decodeVars, fileVars, starting, alarms>>

\* Faulty StartDetectTimer: a delay of zero, which hy_start_timer refuses.
StartDetectTimerZero ==
    /\ sessionPc = "preset"
    /\ sessionPc' = "idle"
    /\ UNCHANGED <<timerVars, lastReq, walks, decodeVars, fileVars, starting, alarms>>

\* The camera has answered, or not: the timer is started all the same.
StartDetectTimer ==
    /\ sessionPc = "preset"
    /\ StartTimer("session", START, SINGLE, DetectDelay)
    /\ sessionPc' = "link"
    /\ UNCHANGED <<lastReq, walks, decodeVars, fileVars, starting, alarms>>

LinkDetectTimer ==
    /\ sessionPc = "link"
    /\ LinkTimer("session")
    /\ sessionPc' = "idle"
    /\ UNCHANGED <<lastReq, walks, decodeVars, fileVars, starting, alarms>>
-----------------------------------------------------------------------------
(* The decode thread.                                                      *)

\* The top of the loop reads the flag.  When it is off the thread sleeps a
\* second and reads it again.
DecodeTest ==
    /\ decodePc = "test"
    /\ starting
    /\ decodePc' = "frame"
    /\ UNCHANGED <<timerVars, sessionVars, fileVars, starting, lateFrames, alarms>>

\* Alarms the decode thread may put without going beyond the bound.
AlarmRoom ==
    MaxAlarms - alarms - Cardinality(TimersOf(CLOSE))
              - (IF filePc = "get" THEN 0 ELSE 1)

\* Faulty DecodeFrame: the flag is not read again after the frame.
DecodeFrameNoTest ==
    /\ decodePc = "frame"
    /\ \E n \in 0..2 : n <= AlarmRoom /\ alarms' = alarms + n
    /\ lateFrames' = IF starting THEN 0 ELSE lateFrames + 1
    /\ UNCHANGED <<timerVars, sessionVars, fileVars, starting, decodePc>>

\* One frame is fetched and analysed, which takes long.  It may hold an alarm,
\* and every 500th frame puts one more (ALARM_TEST is defined).
DecodeFrame ==
    /\ decodePc = "frame"
    /\ \E n \in 0..2 : n <= AlarmRoom /\ alarms' = alarms + n
    /\ lateFrames' = IF starting THEN 0 ELSE lateFrames + 1
    /\ decodePc' = "test"
    /\ UNCHANGED <<timerVars, sessionVars, fileVars, starting>>
-----------------------------------------------------------------------------
(* The file management thread.                                             *)

\* hy_get_mesg returns.
GetAlarm ==
    /\ filePc = "get"
    /\ alarms > 0
    /\ alarms' = alarms - 1
    /\ filePc' = "open"
    /\ UNCHANGED <<timerVars, sessionVars, decodeVars, starting, horn, closeLost>>

\* Faulty OpenHorn: an alarm with another one behind it starts no timer.
OpenHornCoalesced ==
    /\ filePc = "open"
    /\ horn' \in {TRUE, horn}
    /\ closeLost' = FALSE
    /\ filePc' = IF alarms > 0 THEN "get" ELSE "start"
    /\ UNCHANGED <<timerVars, sessionVars, decodeVars, starting, alarms>>

\* send_open_alarm_package_to_mk60: the datagram arrives or is lost.
OpenHorn ==
    /\ filePc = "open"
    /\ horn' \in {TRUE, horn}
    /\ closeLost' = FALSE
    /\ filePc' = "start"
    /\ UNCHANGED <<timerVars, sessionVars, decodeVars, starting, alarms>>

\* Faulty StartCloseTimer: a time of zero, which hy_start_timer refuses.
StartCloseTimerZero ==
    /\ filePc = "start"
    /\ filePc' = "get"
    /\ UNCHANGED <<timerVars, sessionVars, decodeVars, starting, alarms, horn,
                   closeLost>>

StartCloseTimer ==
    /\ filePc = "start"
    /\ StartTimer("file", CLOSE, SINGLE, HornTime)
    /\ filePc' = "link"
    /\ UNCHANGED <<sessionVars, decodeVars, starting, alarms, horn, closeLost>>

\* Then the thread that takes pictures is created (hy_file_manage.c:626), which
\* is not modelled here, and the message is freed.
LinkCloseTimer ==
    /\ filePc = "link"
    /\ LinkTimer("file")
    /\ filePc' = "get"
    /\ UNCHANGED <<sessionVars, decodeVars, starting, alarms, horn, closeLost>>
-----------------------------------------------------------------------------
(* The timer thread.                                                       *)

Walk ==
    /\ WalkLock \/ WalkVisit
    /\ UNCHANGED <<sessionVars, decodeVars, fileVars, starting, alarms>>

WalkEnds ==
    /\ WalkUnlock
    /\ walks' = IF walks = DetectDelay THEN walks ELSE walks + 1
    /\ UNCHANGED <<sessionPc, lastReq, decodeVars, fileVars, starting, alarms>>

\* hy_sig_start_detect: it looks at nothing.
CallStartDetect ==
    /\ WalkCall
    /\ Expired.function = START
    /\ starting' = TRUE
    /\ lateFrames' = 0
    /\ UNCHANGED <<sessionVars, decodePc, fileVars, alarms>>

\* send_close_alarm_package_to_mk60: the datagram arrives or is lost.
CallCloseHorn ==
    /\ WalkCall
    /\ Expired.function = CLOSE
    /\ \/ horn' = FALSE /\ closeLost' = FALSE
       \/ UNCHANGED horn /\ closeLost' = TRUE
    /\ UNCHANGED <<sessionVars, decodeVars, starting, alarms, filePc>>
-----------------------------------------------------------------------------
TimerThread == Walk \/ WalkEnds \/ CallStartDetect \/ CallCloseHorn

SessionNext == RecvManu \/ RecvAuto \/ StartDetectTimer \/ LinkDetectTimer

FileNext == GetAlarm \/ OpenHorn \/ StartCloseTimer \/ LinkCloseTimer

Next == TimerThread \/ SessionNext \/ FileNext \/ DecodeTest \/ DecodeFrame

Spec == Init /\ [][Next]_vars

\* Every thread is scheduled, and the camera's answer is waited for no longer
\* than its protocol allows.  Strong fairness where a thread waits for
\* timer_mutex: see HyTimer.  Requests and alarms need never come.
Fairness ==
    /\ WF_vars(TimerThread)
    /\ WF_vars(StartDetectTimer) /\ SF_vars(LinkDetectTimer)
    /\ WF_vars(GetAlarm) /\ WF_vars(OpenHorn) /\ WF_vars(StartCloseTimer)
    /\ SF_vars(LinkCloseTimer)

FairSpec == Spec /\ Fairness
-----------------------------------------------------------------------------
(* Properties.                                                             *)

\* A horn that is on has its end in sight (hy_file_manage.c:616-621): a timer
\* that closes it is linked, or about to be, unless the datagram of the last
\* one was lost.  Overlapping alarms share the horn and not the timers.
HornClosePending ==
    horn /\ ~closeLost => filePc \in {"start", "link"} \/ Linked(CLOSE)

\* Detection is off only on the server's word: it was switched to manual, or
\* the timer that turns detection on again is on its way, or mv.config could
\* not be opened at boot (hy_session_handler.c:484-491, hy_detect_flow_ctrl.c:14).
OffOnlyOnRequest ==
    ~starting => \/ lastReq \in {"boot", "manu"}
                 \/ sessionPc \in {"preset", "link"}
                 \/ Linked(START)

\* A manual request is safe from earlier automatic ones after as many walks of
\* the timer list as their delay has seconds: nothing is left then that could
\* turn detection on behind the server's back (hy_session_handler.c:484, 491).
StaleAutosDieOut ==
    lastReq = "manu" /\ walks = DetectDelay => ~Linked(START)

\* The decode thread reads the flag once a frame (decode.c:400): after detection
\* is turned off at most the frame in hand is analysed and can raise an alarm.
AtMostOneLateFrame == lateFrames <= 1

\* The horn is closed some day, or the datagram that closes it was lost: nobody
\* repeats it (hy_mk60_ctrl.c:57-71).
HornGoesOff == horn ~> (~horn \/ closeLost)

\* An automatic request turns detection on, unless a manual one follows it.
AutoTurnsDetectionOn == (lastReq = "auto") ~> (starting \/ lastReq = "manu")

\* What hy_session_handler.c:676 says of a manual request: "ptz manual control,
\* close the algorithm".
ManuStaysOff == lastReq = "manu" => ~starting
=============================================================================
