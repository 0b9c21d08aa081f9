-------------------------- MODULE DetectCtrlProofs --------------------------
(***************************************************************************)
(* Proofs about detection and horn, for any delays and any number of       *)
(* requests and alarms.  What the timer service guarantees is taken from   *)
(* HyTimerProofs; the invariant adds what its two users started.           *)
(***************************************************************************)
EXTENDS DetectCtrl, HyTimerProofs, FiniteSetTheorems

\* A thread on its way to the lock brings the timer it was told to start.
PendingMatches ==
    /\ sessionPc = "link" => /\ pending["session"].function = START
                             /\ pending["session"].timer_type = SINGLE
                             /\ pending["session"].save_expires_value = DetectDelay
    /\ filePc = "link" => pending["file"].function = CLOSE

\* Walks the timers in the list have begun with since the last request, the
\* one under way included.
WalksBegun == walks + (IF timerPc = "sleep" THEN 0 ELSE 1)

\* No automatic request is under way while the last one handled was manual,
\* and the timers of earlier ones have aged with every walk since.
AutosAge ==
    /\ lastReq = "manu" => sessionPc = "idle"
    /\ \A i \in 1..Len(timers) : timers[i].function = START =>
         /\ timers[i].timer_type = SINGLE
         /\ timers[i].save_expires_value = DetectDelay
         /\ timerPc # "sleep" => timers[i].age > 0
         /\ lastReq = "manu" => timers[i].age >= WalksBegun

\* A frame was begun with detection on.
FrameBegunInTime == /\ lateFrames <= 1
                    /\ starting \/ decodePc = "frame" => lateFrames = 0

\* The type invariant in two halves: each prover is good at one of them.
Flags == starting \in BOOLEAN /\ horn \in BOOLEAN /\ closeLost \in BOOLEAN
Values == /\ sessionPc \in {"idle", "preset", "link"}
          /\ lastReq \in {"boot", "manu", "auto"}
          /\ walks \in 0..DetectDelay
          /\ decodePc \in {"test", "frame"}
          /\ lateFrames \in Nat
          /\ alarms \in Nat
          /\ filePc \in {"get", "open", "start", "link"}

DetectInv == /\ Flags
             /\ Values
             /\ TimerInv
             /\ PendingMatches
             /\ AutosAge
             /\ FrameBegunInTime
             /\ OffOnlyOnRequest
             /\ HornClosePending

LEMMA InitDetectInv == Init => DetectInv
<1> SUFFICES ASSUME Init PROVE DetectInv
  OBVIOUS
<1>1. TimerInv
  BY InitTimerInv DEF Init
<1>2. Flags /\ Values
  <2>1. Flags
    BY DEF Init, Flags
  <2>2. Values
    BY DelaysAssumption DEF Init, Values
  <2> QED
    BY <2>1, <2>2
<1>3. timers = <<>>
  BY DEF Init, TimerInit
<1>4. PendingMatches /\ FrameBegunInTime /\ OffOnlyOnRequest /\ HornClosePending
  BY DEF Init, PendingMatches, FrameBegunInTime, OffOnlyOnRequest, HornClosePending
<1>5. AutosAge
  BY <1>3 DEF Init, AutosAge
<1> QED
  BY <1>1, <1>2, <1>4, <1>5 DEF DetectInv
-----------------------------------------------------------------------------
\* The steps that leave the timer service alone.
LEMMA StepOutside ==
    ASSUME DetectInv,
           \/ RecvManu \/ RecvAuto \/ DecodeTest \/ DecodeFrame
           \/ GetAlarm \/ OpenHorn
    PROVE  DetectInv'
<1>1. UNCHANGED timerVars
  BY DEF RecvManu, RecvAuto, DecodeTest, DecodeFrame, GetAlarm, OpenHorn
<1>2. TimerInv'
  BY <1>1, StepTimer DEF DetectInv
<1>3. Flags' /\ Values'
  <2>1. Flags'
    BY DEF DetectInv, Flags, RecvManu, RecvAuto, DecodeTest, DecodeFrame, GetAlarm,
           OpenHorn, fileVars
  <2>2. CASE RecvManu \/ RecvAuto
    <3>1. /\ sessionPc' \in {"idle", "preset", "link"}
          /\ lastReq' \in {"boot", "manu", "auto"}
          /\ walks' = 0
          /\ UNCHANGED <<decodePc, lateFrames, alarms, filePc>>
      BY <2>2 DEF RecvManu, RecvAuto, decodeVars, fileVars
    <3> QED
      BY <2>1, <3>1, DelaysAssumption DEF DetectInv, Values
  <2>3. CASE DecodeTest
    <3>1. /\ decodePc' = "frame"
          /\ UNCHANGED <<sessionPc, lastReq, walks, lateFrames, alarms, filePc>>
      BY <2>3 DEF DecodeTest, sessionVars, fileVars
    <3> QED
      BY <2>1, <3>1 DEF DetectInv, Values
  <2>4. CASE DecodeFrame
    <3>1. /\ decodePc' = "test"
          /\ \E m \in 0..2 : alarms' = alarms + m
          /\ UNCHANGED <<sessionPc, lastReq, walks, filePc>>
      BY <2>4 DEF DecodeFrame, sessionVars, fileVars
    <3>2. lateFrames' \in {0, lateFrames + 1}
      BY <2>4 DEF DecodeFrame
    <3> QED
      BY <2>1, <3>1, <3>2 DEF DetectInv, Values
  <2>5. CASE GetAlarm
    <3>1. /\ filePc' = "open" /\ alarms > 0 /\ alarms' = alarms - 1
          /\ UNCHANGED <<sessionPc, lastReq, walks, decodePc, lateFrames>>
      BY <2>5 DEF GetAlarm, sessionVars, decodeVars
    <3> QED
      BY <2>1, <3>1 DEF DetectInv, Values
  <2>6. CASE OpenHorn
    <3>1. /\ filePc' = "start"
          /\ UNCHANGED <<sessionPc, lastReq, walks, decodePc, lateFrames, alarms>>
      BY <2>6 DEF OpenHorn, sessionVars, decodeVars
    <3> QED
      BY <2>1, <3>1 DEF DetectInv, Values
  <2> QED
    BY <2>1, <2>2, <2>3, <2>4, <2>5, <2>6
<1>4. \A f : Linked(f)' <=> Linked(f)
  BY <1>1 DEF timerVars, Linked
<1>5. PendingMatches'
  BY <1>1 DEF DetectInv, PendingMatches, timerVars, RecvManu, RecvAuto, DecodeTest,
     DecodeFrame, GetAlarm, OpenHorn, sessionVars, decodeVars, fileVars
<1>6. AutosAge'
  <2>1. UNCHANGED <<timers, timerPc>>
    BY <1>1 DEF timerVars
  <2>2. \A i \in 1..Len(timers) : timers[i].age \in Nat
    BY Element DEF DetectInv
  <2>3. CASE RecvManu
    BY <2>1, <2>2, <2>3 DEF DetectInv, AutosAge, WalksBegun, RecvManu
  <2>4. CASE RecvAuto
    BY <2>1, <2>4 DEF DetectInv, AutosAge, RecvAuto
  <2>5. CASE UNCHANGED sessionVars
    BY <2>1, <2>5 DEF DetectInv, AutosAge, WalksBegun, sessionVars
  <2> QED
    BY <2>3, <2>4, <2>5 DEF DecodeTest, DecodeFrame, GetAlarm, OpenHorn
<1>7. FrameBegunInTime'
  <2>1. CASE RecvManu
    BY <2>1 DEF DetectInv, FrameBegunInTime, RecvManu, decodeVars
  <2>2. CASE RecvAuto \/ GetAlarm \/ OpenHorn
    <3>1. UNCHANGED <<starting, decodePc, lateFrames>>
      BY <2>2 DEF RecvAuto, GetAlarm, OpenHorn, decodeVars
    <3> QED
      BY <3>1 DEF DetectInv, FrameBegunInTime
  <2>3. CASE DecodeTest
    BY <2>3 DEF DetectInv, FrameBegunInTime, DecodeTest
  <2>4. CASE DecodeFrame
    <3>1. lateFrames = 0 /\ decodePc' = "test" /\ starting' = starting
      BY <2>4 DEF DetectInv, FrameBegunInTime, DecodeFrame
    <3>2. CASE starting
      <4>1. lateFrames' = 0
        BY <2>4, <3>2 DEF DecodeFrame
      <4> QED
        BY <4>1 DEF FrameBegunInTime
    <3>3. CASE ~starting
      <4>1. lateFrames' = 1
        BY <2>4, <3>1, <3>3 DEF DecodeFrame
      <4> QED
        BY <3>1, <3>3, <4>1 DEF FrameBegunInTime
    <3> QED
      BY <3>2, <3>3
  <2> QED
    BY <2>1, <2>2, <2>3, <2>4
<1>8. OffOnlyOnRequest'
  BY <1>4 DEF DetectInv, OffOnlyOnRequest, RecvManu, RecvAuto, DecodeTest,
     DecodeFrame, GetAlarm, OpenHorn, sessionVars, decodeVars, fileVars
<1>9. HornClosePending'
  BY <1>4 DEF DetectInv, HornClosePending, RecvManu, RecvAuto, DecodeTest,
     DecodeFrame, GetAlarm, OpenHorn, sessionVars, decodeVars, fileVars
<1> QED
  BY <1>2, <1>3, <1>5, <1>6, <1>7, <1>8, <1>9 DEF DetectInv
-----------------------------------------------------------------------------
\* The two users are known to the timer service.
LEMMA Users == /\ "session" \in Starters /\ "file" \in Starters
               /\ START \in Functions /\ CLOSE \in Functions /\ START # CLOSE
               /\ DetectDelay \in Times /\ HornTime \in Times
  BY UsersAssumption DEF START, CLOSE

\* hy_start_timer, called by the session thread.
LEMMA StepStartDetectTimer ==
    ASSUME DetectInv, StartDetectTimer
    PROVE  DetectInv'
<1> DEFINE t == NewTimer(START, SINGLE, DetectDelay)
<1>1. TimerInv'
  BY Users, StepStartTimer DEF DetectInv, StartDetectTimer
<1>2. /\ sessionPc = "preset" /\ sessionPc' = "link"
      /\ UNCHANGED <<lastReq, walks, decodeVars, fileVars, starting, alarms>>
      /\ UNCHANGED <<timers, timerPc>>
      /\ pending' = [pending EXCEPT !["session"] = t]
  BY DEF StartDetectTimer, StartTimer
<1>3. pending \in [Starters -> Timer \cup {NoTimer}]
  BY DEF DetectInv, TimerInv, TimerTypeOK
<1>4. pending'["session"] = t /\ pending'["file"] = pending["file"]
  BY <1>2, <1>3, Users
<1>5. Flags' /\ FrameBegunInTime'
  BY <1>2 DEF DetectInv, Flags, FrameBegunInTime, decodeVars, fileVars
<1>6. Values'
  BY <1>2 DEF DetectInv, Values, decodeVars, fileVars
<1>7. PendingMatches'
  BY <1>2, <1>4 DEF DetectInv, PendingMatches, NewTimer, fileVars
<1>8. AutosAge'
  <2>1. UNCHANGED WalksBegun
    BY <1>2 DEF WalksBegun
  <2> QED
    BY <1>2, <2>1 DEF DetectInv, AutosAge
<1>9. OffOnlyOnRequest'
  BY <1>2 DEF OffOnlyOnRequest
<1>10. HornClosePending'
  BY <1>2 DEF DetectInv, HornClosePending, Linked, fileVars
<1> QED
  BY <1>1, <1>5, <1>6, <1>7, <1>8, <1>9, <1>10 DEF DetectInv

\* hy_start_timer, called by the file management thread.
LEMMA StepStartCloseTimer ==
    ASSUME DetectInv, StartCloseTimer
    PROVE  DetectInv'
<1> DEFINE t == NewTimer(CLOSE, SINGLE, HornTime)
<1>1. TimerInv'
  BY Users, StepStartTimer DEF DetectInv, StartCloseTimer
<1>2. /\ filePc = "start" /\ filePc' = "link"
      /\ UNCHANGED <<sessionVars, decodeVars, starting, alarms, horn, closeLost>>
      /\ UNCHANGED <<timers, timerPc>>
      /\ pending' = [pending EXCEPT !["file"] = t]
  BY DEF StartCloseTimer, StartTimer
<1>3. pending \in [Starters -> Timer \cup {NoTimer}]
  BY DEF DetectInv, TimerInv, TimerTypeOK
<1>4. pending'["file"] = t /\ pending'["session"] = pending["session"]
  BY <1>2, <1>3, Users
<1>5. Flags' /\ FrameBegunInTime'
  BY <1>2 DEF DetectInv, Flags, FrameBegunInTime, decodeVars
<1>6. Values'
  BY <1>2 DEF DetectInv, Values, sessionVars, decodeVars
<1>7. PendingMatches'
  BY <1>2, <1>4 DEF DetectInv, PendingMatches, NewTimer, sessionVars
<1>8. AutosAge'
  <2>1. UNCHANGED <<sessionPc, lastReq, WalksBegun>>
    BY <1>2 DEF WalksBegun, sessionVars
  <2> QED
    BY <1>2, <2>1 DEF DetectInv, AutosAge
<1>9. OffOnlyOnRequest'
  BY <1>2 DEF DetectInv, OffOnlyOnRequest, Linked, sessionVars
<1>10. HornClosePending'
  BY <1>2 DEF HornClosePending
<1> QED
  BY <1>1, <1>5, <1>6, <1>7, <1>8, <1>9, <1>10 DEF DetectInv
-----------------------------------------------------------------------------
\* The timer of the session thread joins the list: no walk is under way, and
\* the last request was not manual, for it is still being handled.
LEMMA StepLinkDetectTimer ==
    ASSUME DetectInv, LinkDetectTimer
    PROVE  DetectInv'
<1>1. LinkTimer("session") /\ "session" \in Starters
  BY Users DEF LinkDetectTimer
<1>2. TimerInv /\ TimerInv'
  BY <1>1, StepLinkTimer DEF DetectInv
<1>3. /\ sessionPc = "link" /\ sessionPc' = "idle"
      /\ UNCHANGED <<lastReq, walks, decodeVars, fileVars, starting, alarms>>
  BY DEF LinkDetectTimer
<1>4. /\ pending["session"].function = START
      /\ pending["session"].timer_type = SINGLE
      /\ pending["session"].save_expires_value = DetectDelay
  BY <1>3 DEF DetectInv, PendingMatches
<1>5. timerPc = "sleep" /\ timerPc' = "sleep"
  BY <1>1, <1>2 DEF LinkTimer, TimerInv, MutexHeldInWalk, nobody, timerThread
<1>6. pending'["file"] = pending["file"]
  BY <1>1, <1>2, Users DEF LinkTimer, TimerInv, TimerTypeOK
<1>7. Flags' /\ FrameBegunInTime'
  BY <1>3 DEF DetectInv, Flags, FrameBegunInTime, decodeVars, fileVars
<1>8. Values'
  BY <1>3 DEF DetectInv, Values, decodeVars, fileVars
<1>9. PendingMatches'
  BY <1>3, <1>6 DEF DetectInv, PendingMatches, fileVars
<1>10. AutosAge'
  <2>1. lastReq # "manu" /\ lastReq' # "manu"
    BY <1>3 DEF DetectInv, AutosAge
  <2>2. ASSUME NEW i \in 1..Len(timers'), timers'[i].function = START
        PROVE  /\ timers'[i].timer_type = SINGLE
               /\ timers'[i].save_expires_value = DetectDelay
    BY <2>2, <1>1, <1>2, <1>4, LinkTimerOrigin DEF DetectInv, AutosAge
  <2> QED
    BY <2>1, <2>2, <1>5 DEF AutosAge
<1>11. OffOnlyOnRequest'
  <2>1. Linked(START)'
    BY <1>1, <1>2, <1>4, LinkTimerLinks
  <2> QED
    BY <2>1 DEF OffOnlyOnRequest
<1>12. HornClosePending'
  <2>1. Linked(CLOSE)' <=> Linked(CLOSE) \/ pending["session"].function = CLOSE
    BY <1>1, <1>2, LinkTimerLinks
  <2> QED
    BY <2>1, <1>3 DEF DetectInv, HornClosePending, fileVars
<1> QED
  BY <1>2, <1>7, <1>8, <1>9, <1>10, <1>11, <1>12 DEF DetectInv

\* The timer of the file management thread joins the list.
LEMMA StepLinkCloseTimer ==
    ASSUME DetectInv, LinkCloseTimer
    PROVE  DetectInv'
<1>1. LinkTimer("file") /\ "file" \in Starters
  BY Users DEF LinkCloseTimer
<1>2. TimerInv /\ TimerInv'
  BY <1>1, StepLinkTimer DEF DetectInv
<1>3. /\ filePc = "link" /\ filePc' = "get"
      /\ UNCHANGED <<sessionVars, decodeVars, starting, alarms, horn, closeLost>>
  BY DEF LinkCloseTimer
<1>4. pending["file"].function = CLOSE
  BY <1>3 DEF DetectInv, PendingMatches
<1>5. UNCHANGED timerPc
  BY <1>1 DEF LinkTimer
<1>6. pending'["session"] = pending["session"]
  BY <1>1, <1>2, Users DEF LinkTimer, TimerInv, TimerTypeOK
<1>7. Flags' /\ FrameBegunInTime'
  BY <1>3 DEF DetectInv, Flags, FrameBegunInTime, decodeVars
<1>8. Values'
  BY <1>3 DEF DetectInv, Values, sessionVars, decodeVars
<1>9. PendingMatches'
  BY <1>3, <1>6 DEF DetectInv, PendingMatches, sessionVars
<1>10. AutosAge'
  <2>1. UNCHANGED <<sessionPc, lastReq, WalksBegun>>
    BY <1>3, <1>5 DEF WalksBegun, sessionVars
  <2>2. ASSUME NEW i \in 1..Len(timers'), timers'[i].function = START
        PROVE  i \in 1..Len(timers) /\ timers'[i] = timers[i]
    BY <2>2, <1>1, <1>2, <1>4, Users, LinkTimerOrigin
  <2> QED
    BY <2>1, <2>2, <1>5 DEF DetectInv, AutosAge
<1>11. OffOnlyOnRequest'
  <2>1. Linked(START)' <=> Linked(START) \/ pending["file"].function = START
    BY <1>1, <1>2, LinkTimerLinks
  <2> QED
    BY <2>1, <1>3 DEF DetectInv, OffOnlyOnRequest, sessionVars
<1>12. HornClosePending'
  <2>1. Linked(CLOSE)'
    BY <1>1, <1>2, <1>4, LinkTimerLinks
  <2> QED
    BY <2>1 DEF HornClosePending
<1> QED
  BY <1>2, <1>7, <1>8, <1>9, <1>10, <1>11, <1>12 DEF DetectInv
-----------------------------------------------------------------------------
\* The timer thread links nothing, and whenever it begins a walk the timers
\* grow older: they keep up with the walks counted since the last request.
LEMMA WalkAges ==
    ASSUME DetectInv, TimerThreadStep,
           UNCHANGED <<sessionPc, lastReq>>,
           \/ walks' = walks
           \/ WalkUnlock /\ walks' = walks + 1
    PROVE  AutosAge'
<1>1. TimerInv /\ TimerInv' /\ walks \in Nat
  BY StepTimer, DelaysAssumption DEF DetectInv, Values, TimerNext
<1>2. \/ WalkLock /\ timerPc = "sleep" /\ timerPc' # "sleep"
      \/ ~WalkLock /\ ~WalkUnlock /\ timerPc # "sleep" /\ timerPc' # "sleep"
      \/ ~WalkLock /\ WalkUnlock /\ timerPc # "sleep" /\ timerPc' = "sleep"
  BY DEF TimerThreadStep, WalkLock, WalkVisit, WalkCall, WalkUnlock
<1>3. /\ WalksBegun \in Nat /\ WalksBegun' \in Nat
      /\ WalkLock => WalksBegun' <= WalksBegun + 1
      /\ ~WalkLock => WalksBegun' <= WalksBegun
  <2>1. CASE WalkLock
    <3>1. timerPc = "sleep" /\ timerPc' # "sleep" /\ walks' = walks
      BY <2>1, <1>2 DEF WalkLock, WalkUnlock
    <3> QED
      BY <2>1, <3>1, <1>1 DEF WalksBegun
  <2>2. CASE ~WalkLock /\ ~WalkUnlock
    <3>1. timerPc # "sleep" /\ timerPc' # "sleep" /\ walks' = walks
      BY <2>2, <1>2
    <3> QED
      BY <2>2, <3>1, <1>1 DEF WalksBegun
  <2>3. CASE ~WalkLock /\ WalkUnlock
    <3>1. timerPc # "sleep" /\ timerPc' = "sleep"
      BY <2>3, <1>2
    <3>2. walks' = walks \/ walks' = walks + 1
      OBVIOUS
    <3>3. /\ WalksBegun \in Nat /\ WalksBegun' \in Nat
          /\ WalksBegun' <= WalksBegun
      BY <3>1, <3>2, <1>1 DEF WalksBegun
    <3> QED
      BY <2>3, <3>3
  <2> QED
    BY <2>1, <2>2, <2>3
<1>6. ASSUME NEW i \in 1..Len(timers'), timers'[i].function = START
      PROVE  /\ timers'[i].timer_type = SINGLE
             /\ timers'[i].save_expires_value = DetectDelay
             /\ timerPc' # "sleep" => timers'[i].age > 0
             /\ lastReq = "manu" => timers'[i].age >= WalksBegun'
  <2>1. PICK k \in 1..Len(timers) :
          /\ timers[k].function = START
          /\ timers'[i].timer_type = timers[k].timer_type
          /\ timers'[i].save_expires_value = timers[k].save_expires_value
          /\ timers[k].timer_type = SINGLE =>
               timers'[i].age = timers[k].age + (IF WalkLock THEN 1 ELSE 0)
    BY <1>1, <1>6, WalkOrigin
  <2>2. timers[k].age \in Nat
    BY <1>1, Element
  <2>3. /\ timers[k].timer_type = SINGLE
        /\ timers[k].save_expires_value = DetectDelay
        /\ timerPc # "sleep" => timers[k].age > 0
        /\ lastReq = "manu" => timers[k].age >= WalksBegun
    BY <2>1 DEF DetectInv, AutosAge
  <2>4. timers'[i].age = timers[k].age + (IF WalkLock THEN 1 ELSE 0)
    BY <2>1, <2>3
  <2> QED
    BY <2>1, <2>2, <2>3, <2>4, <1>2, <1>3
<1> QED
  BY <1>6 DEF DetectInv, AutosAge

\* A walk begins, goes on or ends.
LEMMA StepWalk ==
    ASSUME DetectInv, Walk \/ WalkEnds
    PROVE  DetectInv'
<1>1. WalkLock \/ WalkVisit \/ WalkUnlock
  BY DEF Walk, WalkEnds
<1>2. TimerThreadStep
  BY <1>1 DEF TimerThreadStep
<1>3. TimerInv /\ TimerInv'
  BY <1>2, StepTimer DEF DetectInv, TimerNext
<1>4. UNCHANGED <<sessionPc, lastReq, decodeVars, fileVars, starting, alarms>>
  BY DEF Walk, WalkEnds, sessionVars
<1>5. /\ walks' \in 0..DetectDelay
      /\ walks' = walks \/ (WalkUnlock /\ walks' = walks + 1)
  <2>1. walks \in 0..DetectDelay /\ DetectDelay \in Nat
    BY DelaysAssumption DEF DetectInv, Values
  <2>2. CASE Walk
    <3>1. walks' = walks
      BY <2>2 DEF Walk, sessionVars
    <3>2. walks' \in 0..DetectDelay
      BY <2>1, <3>1
    <3> QED
      BY <3>1, <3>2
  <2>3. CASE WalkEnds
    <3>1. WalkUnlock /\ walks' = IF walks = DetectDelay THEN walks ELSE walks + 1
      BY <2>3 DEF WalkEnds
    <3>2. walks' \in 0..DetectDelay
      BY <2>1, <3>1
    <3>3. walks' = walks \/ walks' = walks + 1
      BY <3>1
    <3> QED
      BY <3>1, <3>2, <3>3
  <2> QED
    BY <2>2, <2>3
<1>6. \A f : Linked(f)' <=> Linked(f)
  BY <1>1, <1>3, WalkKeepsLinked
<1>7. pending' = pending
  BY <1>1 DEF WalkLock, WalkVisit, WalkUnlock
<1>8. Flags' /\ FrameBegunInTime'
  BY <1>4 DEF DetectInv, Flags, FrameBegunInTime, decodeVars, fileVars
<1>9. Values'
  BY <1>4, <1>5 DEF DetectInv, Values, decodeVars, fileVars
<1>10. PendingMatches'
  BY <1>4, <1>7 DEF DetectInv, PendingMatches, fileVars
<1>11. AutosAge'
  BY <1>2, <1>4, <1>5, WalkAges
<1>12. OffOnlyOnRequest'
  BY <1>4, <1>6 DEF DetectInv, OffOnlyOnRequest
<1>13. HornClosePending'
  BY <1>4, <1>6 DEF DetectInv, HornClosePending, fileVars
<1> QED
  BY <1>3, <1>8, <1>9, <1>10, <1>11, <1>12, <1>13 DEF DetectInv

\* A timer's function is called.
LEMMA StepCall ==
    ASSUME DetectInv, CallStartDetect \/ CallCloseHorn
    PROVE  DetectInv'
<1>1. WalkCall /\ TimerThreadStep
  BY DEF CallStartDetect, CallCloseHorn, TimerThreadStep
<1>2. TimerInv /\ TimerInv'
  BY <1>1, StepTimer DEF DetectInv, TimerNext
<1>3. UNCHANGED <<sessionVars, decodePc, filePc, alarms, pending>>
  BY <1>1 DEF WalkCall, CallStartDetect, CallCloseHorn, fileVars, decodeVars
<1>4. Values'
  <2>1. lateFrames' \in {0, lateFrames}
    BY DEF CallStartDetect, CallCloseHorn, decodeVars
  <2> QED
    BY <1>3, <2>1 DEF DetectInv, Values, sessionVars
<1>5. PendingMatches'
  BY <1>3 DEF DetectInv, PendingMatches, sessionVars
<1>6. AutosAge'
  <2>1. walks' = walks /\ UNCHANGED <<sessionPc, lastReq>>
    BY <1>3 DEF sessionVars
  <2> QED
    BY <1>1, <2>1, WalkAges
<1>7. CASE CallStartDetect
  <2>1. starting' = TRUE /\ lateFrames' = 0 /\ UNCHANGED <<horn, closeLost>>
    BY <1>7 DEF CallStartDetect, fileVars
  <2>2. Flags' /\ FrameBegunInTime' /\ OffOnlyOnRequest'
    BY <2>1 DEF DetectInv, Flags, FrameBegunInTime, OffOnlyOnRequest
  <2>3. HornClosePending'
    <3>1. Linked(CLOSE) => Linked(CLOSE)'
      BY <1>1, <1>2, <1>7, Users, CallKeepsOthersLinked DEF CallStartDetect
    <3> QED
      BY <1>3, <2>1, <3>1 DEF DetectInv, HornClosePending
  <2> QED
    BY <1>2, <1>4, <1>5, <1>6, <2>2, <2>3 DEF DetectInv
<1>8. CASE CallCloseHorn
  <2>1. /\ UNCHANGED <<decodeVars, starting>>
        /\ \/ horn' = FALSE /\ closeLost' = FALSE
           \/ horn' = horn /\ closeLost' = TRUE
    BY <1>8 DEF CallCloseHorn
  <2>2. Flags' /\ FrameBegunInTime' /\ HornClosePending'
    BY <2>1 DEF DetectInv, Flags, FrameBegunInTime, HornClosePending, decodeVars
  <2>3. OffOnlyOnRequest'
    <3>1. Linked(START) => Linked(START)'
      BY <1>1, <1>2, <1>8, Users, CallKeepsOthersLinked DEF CallCloseHorn
    <3> QED
      BY <1>3, <2>1, <3>1 DEF DetectInv, OffOnlyOnRequest, sessionVars
  <2> QED
    BY <1>2, <1>4, <1>5, <1>6, <2>2, <2>3 DEF DetectInv
<1> QED
  BY <1>7, <1>8

LEMMA StepDetect == DetectInv /\ [Next]_vars => DetectInv'
<1> SUFFICES ASSUME DetectInv, [Next]_vars PROVE DetectInv'
  OBVIOUS
<1>1. CASE TimerThread
  BY <1>1, StepWalk, StepCall DEF TimerThread
<1>2. CASE SessionNext
  BY <1>2, StepOutside, StepStartDetectTimer, StepLinkDetectTimer DEF SessionNext
<1>3. CASE FileNext
  BY <1>3, StepOutside, StepStartCloseTimer, StepLinkCloseTimer DEF FileNext
<1>4. CASE DecodeTest \/ DecodeFrame
  BY <1>4, StepOutside
<1>5. CASE UNCHANGED vars
  <2>1. UNCHANGED timerVars /\ UNCHANGED <<sessionVars, decodeVars, fileVars, starting,
                                          alarms>>
    BY <1>5 DEF vars
  <2>2. TimerInv'
    BY <2>1, StepTimer DEF DetectInv
  <2>3. Flags' /\ FrameBegunInTime'
    BY <2>1 DEF DetectInv, Flags, FrameBegunInTime, decodeVars, fileVars
  <2>4. Values'
    BY <2>1 DEF DetectInv, Values, sessionVars, decodeVars, fileVars
  <2>5. PendingMatches'
    BY <2>1 DEF DetectInv, PendingMatches, timerVars, sessionVars, fileVars
  <2>6. AutosAge'
    BY <2>1 DEF DetectInv, AutosAge, WalksBegun, timerVars, sessionVars
  <2>7. OffOnlyOnRequest'
    BY <2>1 DEF DetectInv, OffOnlyOnRequest, Linked, timerVars, sessionVars
  <2>8. HornClosePending'
    BY <2>1 DEF DetectInv, HornClosePending, Linked, timerVars, fileVars
  <2> QED
    BY <2>2, <2>3, <2>4, <2>5, <2>6, <2>7, <2>8 DEF DetectInv
<1> QED
  BY <1>1, <1>2, <1>3, <1>4, <1>5 DEF Next

\* The invariant holds of every behaviour.
THEOREM DetectInvariant == Spec => []DetectInv
<1> QED
  BY InitDetectInv, StepDetect, PTL DEF Spec
-----------------------------------------------------------------------------
\* Every variable keeps its type, the timer service's included.
THEOREM DetectTypeCorrect == Spec => []TypeOK
<1>1. DetectInv => TypeOK
  <2> SUFFICES ASSUME DetectInv PROVE TypeOK
    OBVIOUS
  <2>1. TimerTypeOK
    BY DEF DetectInv, TimerInv
  <2> QED
    BY <2>1 DEF DetectInv, Flags, Values, TypeOK
<1> QED
  BY <1>1, DetectInvariant, PTL

\* Detection is off only on the server's word, or with its return on the way
\* (hy_session_handler.c:484-491).
THEOREM OffOnlyOnRequestCorrect == Spec => []OffOnlyOnRequest
<1>1. DetectInv => OffOnlyOnRequest
  BY DEF DetectInv
<1> QED
  BY <1>1, DetectInvariant, PTL

\* A horn that is on has a timer that closes it, unless the closing datagram
\* was lost (hy_file_manage.c:616-621).
THEOREM HornClosePendingCorrect == Spec => []HornClosePending
<1>1. DetectInv => HornClosePending
  BY DEF DetectInv
<1> QED
  BY <1>1, DetectInvariant, PTL

\* At most one frame is analysed after detection was turned off (decode.c:400).
THEOREM AtMostOneLateFrameCorrect == Spec => []AtMostOneLateFrame
<1>1. DetectInv => AtMostOneLateFrame
  BY DEF DetectInv, FrameBegunInTime, AtMostOneLateFrame
<1> QED
  BY <1>1, DetectInvariant, PTL

\* DetectDelay walks after a manual request no earlier automatic request can
\* turn detection on again: a timer of that age would have no time left, and
\* the walk that counted it down to nothing would have unlinked it
\* (hy_timer.c:152-168).
THEOREM StaleAutosDieOutCorrect == Spec => []StaleAutosDieOut
<1>1. DetectInv => StaleAutosDieOut
  <2> SUFFICES ASSUME DetectInv, lastReq = "manu", walks = DetectDelay,
                      NEW i \in 1..Len(timers), timers[i].function = START
               PROVE  FALSE
    BY DEF StaleAutosDieOut, Linked
  <2>1. /\ timers[i].save_expires_value = DetectDelay
        /\ timers[i].age >= WalksBegun
    BY DEF DetectInv, AutosAge
  <2>2. /\ timers[i].expires + timers[i].age =
             timers[i].save_expires_value + (IF Visited(i) THEN 0 ELSE 1)
        /\ \/ timers[i].expires \in 1..timers[i].save_expires_value
           \/ timers[i].expires = 0 /\ timerPc = "call" /\ i = pos
        /\ timers[i].age \in Nat
    BY Element DEF DetectInv
  <2>3. DetectDelay \in Nat
    BY DelaysAssumption
  <2> QED
    BY <2>1, <2>2, <2>3 DEF WalksBegun, Visited
<1> QED
  BY <1>1, DetectInvariant, PTL
-----------------------------------------------------------------------------
(* Detection and horn as users of the timer service: how many timers there *)
(* can be, so that every step is one the service knows.                    *)

LEMMA FiniteTimers ==
    ASSUME TimerInv, NEW f
    PROVE  IsFiniteSet(TimersOf(f)) /\ Cardinality(TimersOf(f)) \in Nat
<1>1. Len(timers) \in Nat
  BY DEF TimerInv, TimerTypeOK
<1>2. IsFiniteSet(1..Len(timers))
  BY <1>1, FS_Interval
<1>3. TimersOf(f) \in SUBSET (1..Len(timers))
  BY DEF TimersOf
<1> QED
  BY <1>2, <1>3, FS_Subset, FS_CardinalityType

\* Each timer in the list calls one of the two functions.
LEMMA TimersOfBoth ==
    ASSUME TimerInv
    PROVE  Len(timers) <= Cardinality(TimersOf(START)) + Cardinality(TimersOf(CLOSE))
<1>1. Len(timers) \in Nat
  BY DEF TimerInv, TimerTypeOK
<1>2. Cardinality(1..Len(timers)) = Len(timers)
  <2>1. Cardinality(1..Len(timers)) =
          IF 1 > Len(timers) THEN 0 ELSE Len(timers) - 1 + 1
    BY <1>1, FS_Interval
  <2> QED
    BY <2>1, <1>1
<1>3. 1..Len(timers) = TimersOf(START) \cup TimersOf(CLOSE)
  <2>1. ASSUME NEW i \in 1..Len(timers)
        PROVE  timers[i].function \in {START, CLOSE}
    BY Element, UsersAssumption DEF Timer
  <2> QED
    BY <2>1 DEF TimersOf
<1>4. Cardinality(TimersOf(START) \cup TimersOf(CLOSE)) =
        Cardinality(TimersOf(START)) + Cardinality(TimersOf(CLOSE))
          - Cardinality(TimersOf(START) \cap TimersOf(CLOSE))
  BY FiniteTimers, FS_Union
<1>5. TimersOf(START) \cap TimersOf(CLOSE) \in SUBSET TimersOf(START)
  OBVIOUS
<1>6. Cardinality(TimersOf(START) \cap TimersOf(CLOSE)) \in Nat
  BY <1>5, FiniteTimers, FS_Subset, FS_CardinalityType
<1>7. Cardinality(TimersOf(START)) \in Nat /\ Cardinality(TimersOf(CLOSE)) \in Nat
  BY FiniteTimers
<1> DEFINE both == Cardinality(TimersOf(START) \cap TimersOf(CLOSE))
           ofStart == Cardinality(TimersOf(START))
           ofClose == Cardinality(TimersOf(CLOSE))
<1>8. Len(timers) = ofStart + ofClose - both
  BY <1>2, <1>3, <1>4
<1> HIDE DEF both, ofStart, ofClose
<1>9. both \in Nat /\ ofStart \in Nat /\ ofClose \in Nat
  BY <1>6, <1>7 DEF both, ofStart, ofClose
<1>10. Len(timers) <= ofStart + ofClose
  BY <1>8, <1>9
<1> QED
  BY <1>10 DEF ofStart, ofClose

\* A link adds one timer, to those with its function.
LEMMA LinkCounts ==
    ASSUME TimerInv, NEW s \in Starters, LinkTimer(s), NEW f
    PROVE  Cardinality(TimersOf(f)') =
             Cardinality(TimersOf(f)) + (IF pending[s].function = f THEN 1 ELSE 0)
<1> DEFINE n == Len(timers)
<1>1. pending[s] \in Timer
  BY DEF LinkTimer, TimerInv, PendingFresh
<1>2. timers \in Seq(Timer) /\ n \in Nat
  BY DEF TimerInv, TimerTypeOK
<1>3. timers' = Append(timers, pending[s])
  BY DEF LinkTimer
<1>4. /\ Len(timers') = n + 1
      /\ \A i \in 1..n : timers'[i] = timers[i]
      /\ timers'[n + 1] = pending[s]
  BY <1>1, <1>2, <1>3
<1>5. n + 1 \notin TimersOf(f)
  BY <1>2 DEF TimersOf
<1>6. CASE pending[s].function = f
  <2>1. TimersOf(f)' = TimersOf(f) \cup {n + 1}
    BY <1>2, <1>4, <1>6 DEF TimersOf
  <2> QED
    BY <2>1, <1>5, <1>6, FiniteTimers, FS_AddElement
<1>7. CASE pending[s].function # f
  <2>1. TimersOf(f)' = TimersOf(f)
    BY <1>2, <1>4, <1>7 DEF TimersOf
  <2> QED
    BY <2>1, <1>7, FiniteTimers
<1> QED
  BY <1>6, <1>7

\* The timer thread adds none.
LEMMA WalkCounts ==
    ASSUME TimerInv, TimerThreadStep, NEW f
    PROVE  Cardinality(TimersOf(f)') \in 0..Cardinality(TimersOf(f))
<1> DEFINE n == Len(timers)
<1>1. timers \in Seq(Timer) /\ n \in Nat
  BY DEF TimerInv, TimerTypeOK
<1>2. CASE WalkLock \/ WalkVisit \/ WalkUnlock
  <2>1. TimersOf(f)' = TimersOf(f)
    BY <1>2, WalkKeepsFunctions DEF TimersOf
  <2> QED
    BY <2>1, FiniteTimers
<1>3. CASE WalkCall
  <2>1. pos \in 1..n
    BY <1>3 DEF WalkCall, TimerInv, CallAtPos
  <2>2. CASE Expired.timer_type = SINGLE
    <3>1. timers' = [j \in 1..(n - 1) |-> IF j < pos THEN timers[j] ELSE timers[j + 1]]
      BY <1>3, <2>2 DEF WalkCall, Stopped
    <3>2. Len(timers') = n - 1
      BY <3>1, <2>1, <1>1
    <3> DEFINE before == [j \in TimersOf(f)' |-> IF j < pos THEN j ELSE j + 1]
    <3>3. ASSUME NEW j \in TimersOf(f)'
          PROVE  before[j] \in TimersOf(f) /\ j \in Nat
      <4>1. j \in 1..(n - 1) /\ timers'[j].function = f
        BY <3>2 DEF TimersOf
      <4>2. before[j] \in 1..n /\ timers'[j] = timers[before[j]]
        BY <4>1, <3>1, <2>1, <1>1
      <4> QED
        BY <4>1, <4>2 DEF TimersOf
    <3>4. before \in Injection(TimersOf(f)', TimersOf(f))
      <4>1. before \in [TimersOf(f)' -> TimersOf(f)]
        BY <3>3
      <4>2. ASSUME NEW j \in TimersOf(f)', NEW k \in TimersOf(f)',
                   before[j] = before[k]
            PROVE  j = k
        BY <3>3, <4>2, <2>1
      <4> QED
        BY <4>1, <4>2 DEF Injection, IsInjective
    <3>5. IsFiniteSet(TimersOf(f)')
      BY <3>4, FiniteTimers, FS_Injection
    <3>6. Cardinality(TimersOf(f)') <= Cardinality(TimersOf(f))
      BY <3>4, FiniteTimers, FS_Injection
    <3>7. Cardinality(TimersOf(f)') \in Nat
      BY <3>5, FS_CardinalityType
    <3> QED
      BY <3>6, <3>7, FiniteTimers
  <2>3. CASE Expired.timer_type # SINGLE
    <3>1. timers' = Reset(pos)
      BY <1>3, <2>3 DEF WalkCall
    <3>2. /\ Len(timers') = n
          /\ \A i \in 1..n : timers'[i].function = timers[i].function
      BY <3>1, <2>1, <1>1, Element DEF Reset, Timer
    <3>3. TimersOf(f)' = TimersOf(f)
      BY <3>2 DEF TimersOf
    <3> QED
      BY <3>3, FiniteTimers
  <2> QED
    BY <2>2, <2>3
<1> QED
  BY <1>2, <1>3 DEF TimerThreadStep

\* The requests and the alarms under way, each at one place: in a thread's
\* hands or in the list.
Bounded ==
    /\ Cardinality(TimersOf(START)) + (IF sessionPc = "idle" THEN 0 ELSE 1) <= MaxAutos
    /\ alarms + Cardinality(TimersOf(CLOSE)) + (IF filePc = "get" THEN 0 ELSE 1)
         <= MaxAlarms

\* A thread has a timer in hand only on its way to the lock, and the timers
\* that close the horn are single ones of HornTime.
CloseTimers ==
    /\ pending["session"] # NoTimer => sessionPc = "link"
    /\ pending["file"] # NoTimer => filePc = "link"
    /\ filePc = "link" => /\ pending["file"].timer_type = SINGLE
                          /\ pending["file"].save_expires_value = HornTime
    /\ \A i \in 1..Len(timers) : timers[i].function = CLOSE =>
         /\ timers[i].timer_type = SINGLE
         /\ timers[i].save_expires_value = HornTime

LEMMA InitService == Init => Bounded /\ CloseTimers
<1> SUFFICES ASSUME Init PROVE Bounded /\ CloseTimers
  OBVIOUS
<1>1. timers = <<>> /\ pending["session"] = NoTimer /\ pending["file"] = NoTimer
  BY Users DEF Init, TimerInit
<1>2. TimersOf(START) = {} /\ TimersOf(CLOSE) = {}
  BY <1>1 DEF TimersOf
<1>3. sessionPc = "idle" /\ filePc = "get" /\ alarms = 0
  BY DEF Init
<1> QED
  BY <1>1, <1>2, <1>3, FS_EmptySet, LimitsAssumption DEF Bounded, CloseTimers

\* The steps that leave the timer service alone pass a request or an alarm on.
LEMMA OutsideService ==
    ASSUME DetectInv, Bounded, CloseTimers,
           \/ RecvManu \/ RecvAuto \/ DecodeTest \/ DecodeFrame
           \/ GetAlarm \/ OpenHorn
    PROVE  Bounded' /\ CloseTimers' /\ UNCHANGED timerVars
<1> DEFINE ofStart == Cardinality(TimersOf(START))
           ofClose == Cardinality(TimersOf(CLOSE))
<1>1. UNCHANGED timerVars
  BY DEF RecvManu, RecvAuto, DecodeTest, DecodeFrame, GetAlarm, OpenHorn
<1>2. UNCHANGED <<timers, pending>>
  BY <1>1 DEF timerVars
<1>3. UNCHANGED <<ofStart, ofClose>>
  BY <1>2 DEF TimersOf
<1>4. ofStart \in Nat /\ ofClose \in Nat /\ MaxAutos \in Nat /\ MaxAlarms \in Nat
  BY FiniteTimers, LimitsAssumption DEF DetectInv
<1>5. alarms \in Nat
  BY DEF DetectInv, Values
<1>6. /\ ofStart + (IF sessionPc = "idle" THEN 0 ELSE 1) <= MaxAutos
      /\ alarms + ofClose + (IF filePc = "get" THEN 0 ELSE 1) <= MaxAlarms
  BY DEF Bounded
<1> SUFFICES /\ ofStart + (IF sessionPc' = "idle" THEN 0 ELSE 1) <= MaxAutos
             /\ alarms' + ofClose + (IF filePc' = "get" THEN 0 ELSE 1) <= MaxAlarms
             /\ CloseTimers'
  BY <1>1, <1>3 DEF Bounded
<1>7. sessionPc' # sessionPc =>
        /\ sessionPc = "idle" /\ sessionPc' = "preset" /\ ofStart < MaxAutos
  BY DEF RecvManu, RecvAuto, DecodeTest, DecodeFrame, GetAlarm, OpenHorn, sessionVars
<1>8. \/ alarms' = alarms /\ filePc' = filePc
      \/ filePc' = filePc /\ \E n \in 0..2 : n <= AlarmRoom /\ alarms' = alarms + n
      \/ filePc = "get" /\ alarms > 0 /\ alarms' = alarms - 1 /\ filePc' = "open"
      \/ filePc = "open" /\ alarms' = alarms /\ filePc' = "start"
  BY DEF RecvManu, RecvAuto, DecodeTest, DecodeFrame, GetAlarm, OpenHorn, fileVars
<1>9. AlarmRoom = MaxAlarms - alarms - ofClose - (IF filePc = "get" THEN 0 ELSE 1)
  BY DEF AlarmRoom
<1>10. CloseTimers'
  BY <1>2, <1>7, <1>8 DEF CloseTimers
<1> HIDE DEF ofStart, ofClose
<1>11. ofStart + (IF sessionPc' = "idle" THEN 0 ELSE 1) <= MaxAutos
  BY <1>4, <1>6, <1>7
<1>12. alarms' + ofClose + (IF filePc' = "get" THEN 0 ELSE 1) <= MaxAlarms
  BY <1>4, <1>5, <1>6, <1>8, <1>9
<1> QED
  BY <1>10, <1>11, <1>12

\* There is room for the timer of a request or an alarm that has been let in.
LEMMA StartService ==
    ASSUME DetectInv, Bounded, CloseTimers, StartDetectTimer \/ StartCloseTimer
    PROVE  Bounded' /\ CloseTimers' /\ TimerNext
<1> DEFINE ofStart == Cardinality(TimersOf(START))
           ofClose == Cardinality(TimersOf(CLOSE))
           inHand == {s \in Starters : pending[s] # NoTimer}
<1>1. timers' = timers
  BY DEF StartDetectTimer, StartCloseTimer, StartTimer
<1>2. UNCHANGED <<ofStart, ofClose>>
  BY <1>1 DEF TimersOf
<1>3. /\ ofStart \in Nat /\ ofClose \in Nat /\ alarms \in Nat
      /\ Len(timers) \in Nat /\ Len(timers) <= ofStart + ofClose
      /\ MaxAutos \in Nat /\ MaxAlarms \in Nat /\ MaxTimers = MaxAutos + MaxAlarms
  BY FiniteTimers, TimersOfBoth, LimitsAssumption
     DEF DetectInv, Values, TimerInv, TimerTypeOK
<1>4. /\ ofStart + (IF sessionPc = "idle" THEN 0 ELSE 1) <= MaxAutos
      /\ alarms + ofClose + (IF filePc = "get" THEN 0 ELSE 1) <= MaxAlarms
  BY DEF Bounded
<1>5. pending \in [Starters -> Timer \cup {NoTimer}]
  BY DEF DetectInv, TimerInv, TimerTypeOK
<1>6. CASE StartDetectTimer
  <2>1. /\ sessionPc = "preset" /\ sessionPc' = "link"
        /\ UNCHANGED <<filePc, alarms>>
        /\ pending["session"] = NoTimer
        /\ pending' = [pending EXCEPT !["session"] =
                         NewTimer(START, SINGLE, DetectDelay)]
    BY <1>6 DEF StartDetectTimer, StartTimer, fileVars
  <2>2. pending'["file"] = pending["file"]
    BY <2>1, <1>5, Users
  <2>3. Bounded'
    BY <2>1, <1>2, <1>4 DEF Bounded
  <2>4. CloseTimers'
    BY <2>1, <2>2, <1>1 DEF CloseTimers
  <2>5. \A s \in inHand : s = "file" /\ filePc = "link"
    BY <2>1, UsersAssumption DEF CloseTimers
  <2>6. Cardinality(inHand) \in 0..(IF filePc = "get" THEN 0 ELSE 1)
    <3> HIDE DEF inHand
    <3>1. CASE inHand = {}
      BY <3>1, FS_EmptySet
    <3>2. CASE inHand # {}
      <4>1. inHand = {"file"} /\ filePc = "link"
        BY <3>2, <2>5
      <4>2. Cardinality({"file"}) = 1
        BY FS_Singleton
      <4> QED
        BY <4>1, <4>2
    <3> QED
      BY <3>1, <3>2
  <2>7. Len(timers) + Cardinality(inHand) < MaxTimers
    <3> HIDE DEF inHand, ofStart, ofClose
    <3> QED
      BY <1>3, <1>4, <2>1, <2>6
  <2>8. RoomForTimer
    BY <2>7 DEF RoomForTimer
  <2> QED
    BY <1>6, <2>3, <2>4, <2>8, Users DEF TimerNext, StartDetectTimer
<1>7. CASE StartCloseTimer
  <2>1. /\ filePc = "start" /\ filePc' = "link"
        /\ UNCHANGED <<sessionPc, alarms>>
        /\ pending["file"] = NoTimer
        /\ pending' = [pending EXCEPT !["file"] = NewTimer(CLOSE, SINGLE, HornTime)]
    BY <1>7 DEF StartCloseTimer, StartTimer, sessionVars
  <2>2. /\ pending'["session"] = pending["session"]
        /\ pending'["file"] = NewTimer(CLOSE, SINGLE, HornTime)
    BY <2>1, <1>5, Users
  <2>3. Bounded'
    BY <2>1, <1>2, <1>4 DEF Bounded
  <2>4. CloseTimers'
    BY <2>1, <2>2, <1>1 DEF CloseTimers, NewTimer
  <2>5. \A s \in inHand : s = "session" /\ sessionPc = "link"
    BY <2>1, UsersAssumption DEF CloseTimers
  <2>6. Cardinality(inHand) \in 0..(IF sessionPc = "idle" THEN 0 ELSE 1)
    <3> HIDE DEF inHand
    <3>1. CASE inHand = {}
      BY <3>1, FS_EmptySet
    <3>2. CASE inHand # {}
      <4>1. inHand = {"session"} /\ sessionPc = "link"
        BY <3>2, <2>5
      <4>2. Cardinality({"session"}) = 1
        BY FS_Singleton
      <4> QED
        BY <4>1, <4>2
    <3> QED
      BY <3>1, <3>2
  <2>7. Len(timers) + Cardinality(inHand) < MaxTimers
    <3> HIDE DEF inHand, ofStart, ofClose
    <3> QED
      BY <1>3, <1>4, <2>1, <2>6
  <2>8. RoomForTimer
    BY <2>7 DEF RoomForTimer
  <2> QED
    BY <1>7, <2>3, <2>4, <2>8, Users DEF TimerNext, StartCloseTimer
<1> QED
  BY <1>6, <1>7

\* A linked timer takes the place of the request or alarm it was started for.
LEMMA LinkService ==
    ASSUME DetectInv, Bounded, CloseTimers, LinkDetectTimer \/ LinkCloseTimer
    PROVE  Bounded' /\ CloseTimers' /\ TimerNext
<1> DEFINE ofStart == Cardinality(TimersOf(START))
           ofClose == Cardinality(TimersOf(CLOSE))
<1>1. TimerInv /\ pending \in [Starters -> Timer \cup {NoTimer}]
  BY DEF DetectInv, TimerInv, TimerTypeOK
<1>2. ofStart \in Nat /\ ofClose \in Nat
  BY <1>1, FiniteTimers
<1>3. CASE LinkDetectTimer
  <2>1. /\ LinkTimer("session") /\ "session" \in Starters
        /\ sessionPc = "link" /\ sessionPc' = "idle"
        /\ UNCHANGED <<filePc, alarms>>
    BY <1>3, Users DEF LinkDetectTimer, fileVars
  <2>2. pending["session"].function = START
    BY <2>1 DEF DetectInv, PendingMatches
  <2>3. ofStart' = ofStart + 1 /\ ofClose' = ofClose + 0
    <3>1. ofStart' = ofStart + (IF pending["session"].function = START THEN 1 ELSE 0)
      BY <2>1, <1>1, LinkCounts
    <3>2. ofClose' = ofClose + (IF pending["session"].function = CLOSE THEN 1 ELSE 0)
      BY <2>1, <1>1, LinkCounts
    <3> QED
      BY <3>1, <3>2, <2>2, Users
  <2>4. Bounded'
    BY <2>1, <2>3, <1>2 DEF Bounded
  <2>5. pending'["file"] = pending["file"] /\ pending'["session"] = NoTimer
    BY <2>1, <1>1, Users DEF LinkTimer
  <2>6. ASSUME NEW i \in 1..Len(timers'), timers'[i].function = CLOSE
        PROVE  i \in 1..Len(timers) /\ timers'[i] = timers[i]
    BY <2>1, <2>2, <2>6, <1>1, Users, LinkTimerOrigin
  <2>7. CloseTimers'
    BY <2>1, <2>5, <2>6 DEF CloseTimers
  <2> QED
    BY <2>1, <2>4, <2>7 DEF TimerNext
<1>4. CASE LinkCloseTimer
  <2>1. /\ LinkTimer("file") /\ "file" \in Starters
        /\ filePc = "link" /\ filePc' = "get"
        /\ UNCHANGED <<sessionPc, alarms>>
    BY <1>4, Users DEF LinkCloseTimer, sessionVars
  <2>2. pending["file"].function = CLOSE
    BY <2>1 DEF DetectInv, PendingMatches
  <2>3. ofStart' = ofStart + 0 /\ ofClose' = ofClose + 1
    <3>1. ofStart' = ofStart + (IF pending["file"].function = START THEN 1 ELSE 0)
      BY <2>1, <1>1, LinkCounts
    <3>2. ofClose' = ofClose + (IF pending["file"].function = CLOSE THEN 1 ELSE 0)
      BY <2>1, <1>1, LinkCounts
    <3> QED
      BY <3>1, <3>2, <2>2, Users
  <2>4. Bounded'
    <3>1. alarms \in Nat
      BY DEF DetectInv, Values
    <3> QED
      BY <2>1, <2>3, <1>2, <3>1 DEF Bounded
  <2>5. pending'["session"] = pending["session"] /\ pending'["file"] = NoTimer
    BY <2>1, <1>1, Users DEF LinkTimer
  <2>6. ASSUME NEW i \in 1..Len(timers'), timers'[i].function = CLOSE
        PROVE  /\ timers'[i].timer_type = SINGLE
               /\ timers'[i].save_expires_value = HornTime
    BY <2>1, <2>6, <1>1, LinkTimerOrigin DEF CloseTimers
  <2>7. CloseTimers'
    BY <2>1, <2>5, <2>6 DEF CloseTimers
  <2> QED
    BY <2>1, <2>4, <2>7 DEF TimerNext
<1> QED
  BY <1>3, <1>4

\* The timer thread runs as the service says, and makes room at most.
LEMMA WalkService ==
    ASSUME DetectInv, Bounded, CloseTimers, TimerThread
    PROVE  Bounded' /\ CloseTimers' /\ TimerNext
<1> DEFINE ofStart == Cardinality(TimersOf(START))
           ofClose == Cardinality(TimersOf(CLOSE))
<1>1. TimerThreadStep /\ TimerInv /\ TimerInv'
  <2>1. TimerThreadStep
    BY DEF TimerThread, Walk, WalkEnds, CallStartDetect, CallCloseHorn, TimerThreadStep
  <2> QED
    BY <2>1, StepDetect DEF DetectInv, Next
<1>2. UNCHANGED <<sessionPc, filePc, alarms, pending>>
  BY DEF TimerThread, Walk, WalkEnds, CallStartDetect, CallCloseHorn, sessionVars,
         fileVars, WalkLock, WalkVisit, WalkUnlock, WalkCall
<1>3. ofStart' \in 0..ofStart /\ ofClose' \in 0..ofClose
  BY <1>1, WalkCounts
<1>4. ofStart \in Nat /\ ofClose \in Nat
  BY <1>1, FiniteTimers
<1>5. Bounded'
  <2>1. alarms \in Nat /\ MaxAutos \in Nat /\ MaxAlarms \in Nat
    BY LimitsAssumption DEF DetectInv, Values
  <2>2. /\ ofStart + (IF sessionPc = "idle" THEN 0 ELSE 1) <= MaxAutos
        /\ alarms + ofClose + (IF filePc = "get" THEN 0 ELSE 1) <= MaxAlarms
    BY DEF Bounded
  <2> HIDE DEF ofStart, ofClose
  <2>3. ASSUME NEW a \in 0..ofStart, NEW b \in 0..ofClose
        PROVE  /\ a + (IF sessionPc = "idle" THEN 0 ELSE 1) <= MaxAutos
               /\ alarms + b + (IF filePc = "get" THEN 0 ELSE 1) <= MaxAlarms
    BY <1>4, <2>1, <2>2
  <2>4. /\ ofStart' + (IF sessionPc' = "idle" THEN 0 ELSE 1) <= MaxAutos
        /\ alarms' + ofClose' + (IF filePc' = "get" THEN 0 ELSE 1) <= MaxAlarms
    BY <1>2, <1>3, <2>3
  <2> QED
    BY <2>4 DEF Bounded, ofStart, ofClose
<1>6. CloseTimers'
  <2>1. ASSUME NEW i \in 1..Len(timers'), timers'[i].function = CLOSE
        PROVE  /\ timers'[i].timer_type = SINGLE
               /\ timers'[i].save_expires_value = HornTime
    BY <2>1, <1>1, WalkOrigin DEF CloseTimers
  <2> QED
    BY <2>1, <1>2 DEF CloseTimers
<1> QED
  BY <1>1, <1>5, <1>6 DEF TimerNext

LEMMA StepService ==
    ASSUME DetectInv, Bounded, CloseTimers, [Next]_vars
    PROVE  Bounded' /\ CloseTimers' /\ [TimerNext]_timerVars
<1>1. CASE TimerThread
  BY <1>1, WalkService
<1>2. CASE SessionNext
  BY <1>2, OutsideService, StartService, LinkService DEF SessionNext
<1>3. CASE FileNext
  BY <1>3, OutsideService, StartService, LinkService DEF FileNext
<1>4. CASE DecodeTest \/ DecodeFrame
  BY <1>4, OutsideService
<1>5. CASE UNCHANGED vars
  <2>1. UNCHANGED <<timerVars, timers, pending, sessionPc, filePc, alarms>>
    BY <1>5 DEF vars, timerVars, sessionVars, fileVars
  <2>2. TimersOf(START)' = TimersOf(START) /\ TimersOf(CLOSE)' = TimersOf(CLOSE)
    BY <2>1 DEF TimersOf
  <2> QED
    BY <2>1, <2>2 DEF Bounded, CloseTimers
<1> QED
  BY <1>1, <1>2, <1>3, <1>4, <1>5 DEF Next

LEMMA ServiceInvariant == Spec => [](Bounded /\ CloseTimers)
<1>1. DetectInv /\ (Bounded /\ CloseTimers) /\ [Next]_vars => (Bounded /\ CloseTimers)'
  BY StepService
<1> QED
  BY InitService, <1>1, DetectInvariant, PTL DEF Spec

\* Detection and horn use the timer service as it is meant to be used, within
\* its bounds: whatever HyTimer says of its timers is true here, be the threads
\* at whatever point (hy_session_handler.c:491, hy_file_manage.c:619-621).
THEOREM UsesTimersCorrectly == Spec => TimerSpec
<1>1. Init => TimerInit
  BY DEF Init
<1>2. DetectInv /\ (Bounded /\ CloseTimers) /\ [Next]_vars => [TimerNext]_timerVars
  BY StepService
<1> QED
  BY <1>1, <1>2, DetectInvariant, ServiceInvariant, PTL DEF Spec, TimerSpec

\* The environment's bounds on requests and alarms bound the list as well: a
\* timer is linked for each of them at most, and none is linked twice
\* (hy_session_handler.c:482-493, hy_file_manage.c:619-621).
THEOREM TimersBounded ==
    Spec => [](Bounded /\ Len(timers) <= MaxAutos + MaxAlarms)
<1>1. DetectInv /\ Bounded => Len(timers) <= MaxAutos + MaxAlarms
  <2> SUFFICES ASSUME DetectInv, Bounded
               PROVE  Len(timers) <= MaxAutos + MaxAlarms
    OBVIOUS
  <2> DEFINE ofStart == Cardinality(TimersOf(START))
             ofClose == Cardinality(TimersOf(CLOSE))
  <2>1. /\ ofStart \in Nat /\ ofClose \in Nat /\ alarms \in Nat
        /\ Len(timers) \in Nat /\ Len(timers) <= ofStart + ofClose
        /\ MaxAutos \in Nat /\ MaxAlarms \in Nat
    BY FiniteTimers, TimersOfBoth, LimitsAssumption
       DEF DetectInv, Values, TimerInv, TimerTypeOK
  <2>2. /\ ofStart + (IF sessionPc = "idle" THEN 0 ELSE 1) <= MaxAutos
        /\ alarms + ofClose + (IF filePc = "get" THEN 0 ELSE 1) <= MaxAlarms
    BY DEF Bounded
  <2> HIDE DEF ofStart, ofClose
  <2> QED
    BY <2>1, <2>2
<1> QED
  BY <1>1, DetectInvariant, ServiceInvariant, PTL

\* A linked single timer is no older than its time.
LEMMA NoTimerTooOld ==
    ASSUME TimerInv, NEW i \in 1..Len(timers)
    PROVE  timers[i].age <= timers[i].save_expires_value
  BY Element DEF Visited

\* The horn that is on goes off in time: the timer that closes it calls once,
\* and has seen no more than HornTime walks, unless the closing datagram was
\* lost (hy_file_manage.c:616-621).
HornEndsInTime ==
    horn /\ ~closeLost =>
      \/ filePc \in {"start", "link"}
      \/ \E i \in TimersOf(CLOSE) : /\ timers[i].timer_type = SINGLE
                                    /\ timers[i].age <= HornTime

\* Detection that is off after an automatic request comes back in time: the
\* timer that turns it on has seen no more than DetectDelay walks
\* (hy_session_handler.c:484-491).
AutoComesInTime ==
    ~starting /\ lastReq = "auto" =>
      \/ sessionPc \in {"preset", "link"}
      \/ \E i \in TimersOf(START) : /\ timers[i].timer_type = SINGLE
                                    /\ timers[i].age <= DetectDelay

\* What HornGoesOff says will happen some day is never more than HornTime
\* walks away.
THEOREM HornEndsInTimeCorrect == Spec => []HornEndsInTime
<1>1. DetectInv /\ CloseTimers => HornEndsInTime
  <2> SUFFICES ASSUME DetectInv, CloseTimers, Linked(CLOSE)
               PROVE  \E i \in TimersOf(CLOSE) : /\ timers[i].timer_type = SINGLE
                                                 /\ timers[i].age <= HornTime
    BY DEF DetectInv, HornClosePending, HornEndsInTime
  <2>1. PICK i \in 1..Len(timers) : timers[i].function = CLOSE
    BY DEF Linked
  <2>2. timers[i].timer_type = SINGLE /\ timers[i].save_expires_value = HornTime
    BY <2>1 DEF CloseTimers
  <2>3. timers[i].age <= timers[i].save_expires_value
    BY NoTimerTooOld DEF DetectInv
  <2> QED
    BY <2>1, <2>2, <2>3 DEF TimersOf
<1> QED
  BY <1>1, DetectInvariant, ServiceInvariant, PTL

\* What AutoTurnsDetectionOn says will happen some day is never more than
\* DetectDelay walks away, once the camera has answered.
THEOREM AutoComesInTimeCorrect == Spec => []AutoComesInTime
<1>1. DetectInv => AutoComesInTime
  <2> SUFFICES ASSUME DetectInv, Linked(START)
               PROVE  \E i \in TimersOf(START) : /\ timers[i].timer_type = SINGLE
                                                 /\ timers[i].age <= DetectDelay
    BY DEF DetectInv, OffOnlyOnRequest, AutoComesInTime
  <2>1. PICK i \in 1..Len(timers) : timers[i].function = START
    BY DEF Linked
  <2>2. timers[i].timer_type = SINGLE /\ timers[i].save_expires_value = DetectDelay
    BY <2>1 DEF DetectInv, AutosAge
  <2>3. timers[i].age <= timers[i].save_expires_value
    BY NoTimerTooOld DEF DetectInv
  <2> QED
    BY <2>1, <2>2, <2>3 DEF TimersOf
<1> QED
  BY <1>1, DetectInvariant, PTL
=============================================================================
