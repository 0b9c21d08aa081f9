---------------------------- MODULE HyTimerProofs ----------------------------
(***************************************************************************)
(* Proofs about the timer service, for any threads, functions, times and   *)
(* number of timers.  The invariant adds to the properties what makes them *)
(* inductive: where pos stands when a function is called, and that a timer *)
(* waiting for the mutex has not been counted down.                        *)
(***************************************************************************)
EXTENDS HyTimer, TLAPS

\* While a function is called its timer is in the list, with no time left.
CallAtPos == timerPc = "call" =>
                pos \in 1..Len(timers) /\ timers[pos].expires = 0

\* A timer waits to be linked as hy_start_timer filled it in.
PendingFresh ==
    \A s \in Starters : pending[s] # NoTimer =>
        /\ pending[s] \in Timer
        /\ pending[s].age = 0
        /\ pending[s].expires = pending[s].save_expires_value
        /\ pending[s].expires > 0

\* hy_start_timer refuses a time of zero.
NoZeroTimer == \A i \in 1..Len(timers) : timers[i].save_expires_value > 0

TimerInv == /\ TimerTypeOK
            /\ MutexHeldInWalk
            /\ OnSchedule
            /\ NeverOverdue
            /\ CallAtPos
            /\ PendingFresh
            /\ NoZeroTimer

\* The invariant of a list spelled out at each index, as the steps use it.
LEMMA Element ==
    ASSUME TimerInv, NEW i \in 1..Len(timers)
    PROVE  /\ timers[i] \in Timer
           /\ timers[i].expires \in Nat
           /\ timers[i].age \in Nat
           /\ timers[i].save_expires_value \in Nat \ {0}
           /\ timers[i].expires + timers[i].age =
                timers[i].save_expires_value + (IF Visited(i) THEN 0 ELSE 1)
           /\ \/ timers[i].expires \in 1..timers[i].save_expires_value
              \/ timers[i].expires = 0 /\ timerPc = "call" /\ i = pos
<1>1. timers[i] \in Timer
  BY DEF TimerInv, TimerTypeOK
<1> QED
  BY <1>1 DEF TimerInv, Timer, OnSchedule, NeverOverdue, NoZeroTimer

LEMMA InitTimerInv == TimerInit => TimerInv
  BY DEF TimerInit, TimerInv, TimerTypeOK, MutexHeldInWalk, OnSchedule,
         NeverOverdue, CallAtPos, PendingFresh, NoZeroTimer, nobody, timerThread
-----------------------------------------------------------------------------
\* hy_start_timer up to the lock touches only what its own thread has.
LEMMA StepStartTimer ==
    ASSUME TimerInv, NEW s \in Starters, NEW f \in Functions,
           NEW type \in {SINGLE, CIRCLE}, NEW time \in Times,
           StartTimer(s, f, type, time)
    PROVE  TimerInv'
<1> DEFINE t == NewTimer(f, type, time)
<1>1. time \in Nat /\ time > 0
  BY TimesAssumption DEF StartTimer
<1>2. t \in Timer /\ t.age = 0 /\ t.expires = time /\ t.save_expires_value = time
  BY <1>1 DEF NewTimer, Timer
<1>3. pending' = [pending EXCEPT ![s] = t]
  BY DEF StartTimer
<1>4. pending \in [Starters -> Timer \cup {NoTimer}]
  BY DEF TimerInv, TimerTypeOK
<1>5. UNCHANGED <<timers, timer_mutex, timerPc, pos>>
  BY DEF StartTimer
<1> HIDE DEF t
<1>6. \A r \in Starters : pending'[r] = IF r = s THEN t ELSE pending[r]
  BY <1>3, <1>4
<1>7. TimerTypeOK'
  BY <1>2, <1>3, <1>4, <1>5 DEF TimerInv, TimerTypeOK
<1>8. PendingFresh'
  BY <1>1, <1>2, <1>6 DEF TimerInv, PendingFresh
<1>9. (MutexHeldInWalk /\ OnSchedule /\ NeverOverdue /\ CallAtPos /\ NoZeroTimer)'
  BY <1>5 DEF TimerInv, MutexHeldInWalk, OnSchedule, NeverOverdue, CallAtPos,
              NoZeroTimer, Visited
<1> QED
  BY <1>7, <1>8, <1>9 DEF TimerInv

\* A timer is linked only between two walks, when every timer counts as visited.
LEMMA StepLinkTimer ==
    ASSUME TimerInv, NEW s \in Starters, LinkTimer(s)
    PROVE  TimerInv'
<1> DEFINE t == pending[s]
           n == Len(timers)
<1>1. /\ t \in Timer /\ t.age = 0 /\ t.expires = t.save_expires_value
      /\ t.expires \in Nat /\ t.expires > 0
  BY DEF LinkTimer, TimerInv, PendingFresh, Timer
<1>2. timerPc = "sleep" /\ timerPc' = "sleep" /\ UNCHANGED <<timer_mutex, pos>>
  BY DEF LinkTimer, TimerInv, MutexHeldInWalk, TimerTypeOK, nobody, timerThread
<1>3. timers \in Seq(Timer) /\ pos \in Nat \ {0} /\ pos <= n + 1 /\ n \in Nat
  BY DEF TimerInv, TimerTypeOK
<1>4. timers' = Append(timers, t)
  BY DEF LinkTimer
<1> HIDE DEF t
<1>5. /\ timers' \in Seq(Timer)
      /\ Len(timers') = n + 1
      /\ \A i \in 1..n : timers'[i] = timers[i]
      /\ timers'[n + 1] = t
  BY <1>1, <1>3, <1>4
<1>6. pending' \in [Starters -> Timer \cup {NoTimer}]
  BY DEF LinkTimer, TimerInv, TimerTypeOK
<1>7. TimerTypeOK' /\ MutexHeldInWalk' /\ CallAtPos'
  BY <1>2, <1>3, <1>5, <1>6 DEF TimerInv, TimerTypeOK, MutexHeldInWalk, CallAtPos
<1>8. ASSUME NEW i \in 1..Len(timers')
      PROVE  /\ timers'[i].expires + timers'[i].age = timers'[i].save_expires_value
             /\ timers'[i].save_expires_value > 0
             /\ timers'[i].expires \in 1..timers'[i].save_expires_value
  <2>1. CASE i = n + 1
    BY <2>1, <1>1, <1>5
  <2>2. CASE i \in 1..n
    BY <2>2, <1>2, <1>5, Element DEF Visited
  <2> QED
    BY <2>1, <2>2, <1>3, <1>5
<1>9. OnSchedule'
  <2>1. \A i \in 1..Len(timers') : timers'[i] \in Timer
    BY <1>5
  <2>2. \A i \in 1..Len(timers') : timers'[i].save_expires_value \in Nat
    BY <2>1 DEF Timer
  <2> QED
    BY <2>2, <1>2, <1>8 DEF OnSchedule, Visited
<1>10. NeverOverdue' /\ NoZeroTimer'
  BY <1>8, <1>5, <1>3 DEF NeverOverdue, NoZeroTimer
<1>11. PendingFresh'
  BY DEF LinkTimer, TimerInv, PendingFresh, TimerTypeOK
<1> QED
  BY <1>7, <1>9, <1>10, <1>11 DEF TimerInv
-----------------------------------------------------------------------------
\* A walk begins: every timer has seen one walk more, and none is counted yet.
LEMMA StepWalkLock ==
    ASSUME TimerInv, WalkLock
    PROVE  TimerInv'
<1> DEFINE n == Len(timers)
           Older(t) == [t EXCEPT !.age = t.age + 1]
<1>1. /\ timerPc = "sleep" /\ timerPc' = "walk" /\ pos' = 1
      /\ timer_mutex' = timerThread /\ pending' = pending
  BY DEF WalkLock
<1>2. timers \in Seq(Timer) /\ n \in Nat
  BY DEF TimerInv, TimerTypeOK
<1>3. timers' = [i \in 1..n |-> Older(timers[i])]
  BY <1>2 DEF WalkLock
<1>4. \A t \in Timer : /\ Older(t) \in Timer /\ Older(t).age = t.age + 1
                       /\ Older(t).expires = t.expires
                       /\ Older(t).save_expires_value = t.save_expires_value
  BY DEF Timer
<1> HIDE DEF Older
<1>5. \A i \in 1..n : timers[i] \in Timer
  BY <1>2
<1>6. /\ timers' \in Seq(Timer)
      /\ Len(timers') = n
      /\ \A i \in 1..n : timers'[i] = Older(timers[i])
  BY <1>2, <1>3, <1>4, <1>5
<1>7. TimerTypeOK' /\ MutexHeldInWalk' /\ CallAtPos' /\ PendingFresh'
  BY <1>1, <1>2, <1>6
  DEF TimerInv, TimerTypeOK, MutexHeldInWalk, CallAtPos, PendingFresh
<1>8. ASSUME NEW i \in 1..n
      PROVE  /\ timers'[i].expires + timers'[i].age =
                  timers'[i].save_expires_value + 1
             /\ timers'[i].expires \in 1..timers'[i].save_expires_value
             /\ timers'[i].save_expires_value > 0
  <2>1. Visited(i)
    BY <1>1 DEF Visited
  <2>2. /\ timers[i].expires \in 1..timers[i].save_expires_value
        /\ timers[i].save_expires_value \in Nat \ {0}
        /\ timers[i].age \in Nat
        /\ timers[i].expires + timers[i].age = timers[i].save_expires_value
    BY <2>1, <1>1, Element
  <2>3. /\ timers'[i].expires = timers[i].expires
        /\ timers'[i].age = timers[i].age + 1
        /\ timers'[i].save_expires_value = timers[i].save_expires_value
    BY <1>4, <1>5, <1>6
  <2> QED
    BY <2>2, <2>3
<1>9. OnSchedule' /\ NeverOverdue' /\ NoZeroTimer'
  BY <1>1, <1>6, <1>8 DEF OnSchedule, NeverOverdue, NoZeroTimer, Visited
<1> QED
  BY <1>7, <1>9 DEF TimerInv

\* One timer is counted down, and none but it.
LEMMA StepWalkVisit ==
    ASSUME TimerInv, WalkVisit
    PROVE  TimerInv'
<1> DEFINE n == Len(timers)
           Less(t) == [t EXCEPT !.expires = t.expires - 1]
<1>1. /\ timerPc = "walk" /\ pos \in 1..n
      /\ timer_mutex' = timer_mutex /\ pending' = pending
  BY DEF WalkVisit, TimerInv, TimerTypeOK
<1>2. timers \in Seq(Timer) /\ n \in Nat
  BY DEF TimerInv, TimerTypeOK
<1>3. /\ timers[pos] \in Timer
      /\ timers[pos].expires \in Nat /\ timers[pos].expires > 0
  BY <1>1, Element
<1>4. /\ Less(timers[pos]) \in Timer
      /\ Less(timers[pos]).expires = timers[pos].expires - 1
      /\ Less(timers[pos]).age = timers[pos].age
      /\ Less(timers[pos]).save_expires_value = timers[pos].save_expires_value
  BY <1>3 DEF Timer
<1>5. timers' = [timers EXCEPT ![pos] = Less(timers[pos])]
  BY DEF WalkVisit
<1> HIDE DEF Less
<1>6. /\ timers' \in Seq(Timer)
      /\ Len(timers') = n
      /\ \A i \in 1..n :
           timers'[i] = IF i = pos THEN Less(timers[pos]) ELSE timers[i]
  BY <1>1, <1>2, <1>4, <1>5
<1>7. \/ timers'[pos].expires = 0 /\ timerPc' = "call" /\ pos' = pos
      \/ timers'[pos].expires > 0 /\ timerPc' = "walk" /\ pos' = pos + 1
  BY <1>1, <1>3, <1>4, <1>6 DEF WalkVisit
<1>8. TimerTypeOK' /\ MutexHeldInWalk' /\ CallAtPos' /\ PendingFresh'
  BY <1>1, <1>2, <1>6, <1>7
  DEF TimerInv, TimerTypeOK, MutexHeldInWalk, CallAtPos, PendingFresh
<1>9. ASSUME NEW i \in 1..n
      PROVE  /\ timers'[i].expires + timers'[i].age =
                  timers'[i].save_expires_value + (IF Visited(i)' THEN 0 ELSE 1)
             /\ \/ timers'[i].expires \in 1..timers'[i].save_expires_value
                \/ timers'[i].expires = 0 /\ timerPc' = "call" /\ i = pos'
             /\ timers'[i].save_expires_value > 0
  <2>1. CASE i = pos
    <3>1. Visited(i)' /\ ~Visited(i)
      BY <2>1, <1>1, <1>7 DEF Visited
    <3>2. /\ timers[pos].expires \in 1..timers[pos].save_expires_value
          /\ timers[pos].save_expires_value \in Nat \ {0}
          /\ timers[pos].age \in Nat
          /\ timers[pos].expires + timers[pos].age =
               timers[pos].save_expires_value + 1
      BY <2>1, <3>1, <1>1, Element
    <3>3. /\ timers'[pos].expires = timers[pos].expires - 1
          /\ timers'[pos].age = timers[pos].age
          /\ timers'[pos].save_expires_value = timers[pos].save_expires_value
      BY <1>1, <1>4, <1>6
    <3> QED
      BY <2>1, <3>1, <3>2, <3>3, <1>7
  <2>2. CASE i # pos
    <3>1. Visited(i)' <=> Visited(i)
      BY <2>2, <1>1, <1>7 DEF Visited
    <3> QED
      BY <2>2, <3>1, <1>1, <1>6, Element
  <2> QED
    BY <2>1, <2>2
<1>10. OnSchedule' /\ NeverOverdue' /\ NoZeroTimer'
  BY <1>6, <1>9 DEF OnSchedule, NeverOverdue, NoZeroTimer
<1> QED
  BY <1>8, <1>10 DEF TimerInv
-----------------------------------------------------------------------------
\* After the function, a single timer leaves the list and its successor takes
\* its index; a circular one starts over.
LEMMA StepWalkCall ==
    ASSUME TimerInv, WalkCall
    PROVE  TimerInv'
<1> DEFINE n == Len(timers)
<1>1. /\ timerPc = "call" /\ timerPc' = "walk" /\ pos \in 1..n
      /\ timer_mutex' = timer_mutex /\ pending' = pending
  BY DEF WalkCall, TimerInv, TimerTypeOK, CallAtPos
<1>2. timers \in Seq(Timer) /\ n \in Nat \ {0} /\ timers[pos].expires = 0
  BY <1>1 DEF TimerInv, TimerTypeOK, CallAtPos
<1>3. \A i \in 1..n : timers[i] \in Timer
  BY <1>2
<1>4. CASE timers[pos].timer_type = SINGLE
  <2>1. /\ pos' = pos
        /\ timers' = [j \in 1..(n - 1) |-> IF j < pos THEN timers[j] ELSE timers[j + 1]]
    BY <1>4 DEF WalkCall, Expired, Stopped
  <2>2. /\ timers' \in Seq(Timer)
        /\ Len(timers') = n - 1
        /\ \A j \in 1..(n - 1) :
             timers'[j] = timers[IF j < pos THEN j ELSE j + 1]
    BY <2>1, <1>2, <1>3
  <2>3. TimerTypeOK' /\ MutexHeldInWalk' /\ CallAtPos' /\ PendingFresh'
    BY <1>1, <1>2, <2>1, <2>2
    DEF TimerInv, TimerTypeOK, MutexHeldInWalk, CallAtPos, PendingFresh
  <2>4. ASSUME NEW j \in 1..(n - 1)
        PROVE  /\ timers'[j].expires + timers'[j].age =
                    timers'[j].save_expires_value + (IF Visited(j)' THEN 0 ELSE 1)
               /\ timers'[j].expires \in 1..timers'[j].save_expires_value
               /\ timers'[j].save_expires_value > 0
    <3> DEFINE i == IF j < pos THEN j ELSE j + 1
    <3>1. i \in 1..n /\ i # pos /\ timers'[j] = timers[i]
      BY <1>1, <1>2, <2>2
    <3>2. Visited(j)' <=> Visited(i)
      BY <1>1, <1>2, <2>1 DEF Visited
    <3> HIDE DEF i
    <3> QED
      BY <3>1, <3>2, Element
  <2>5. OnSchedule' /\ NeverOverdue' /\ NoZeroTimer'
    BY <2>2, <2>4 DEF OnSchedule, NeverOverdue, NoZeroTimer
  <2> QED
    BY <2>3, <2>5 DEF TimerInv
<1>5. CASE timers[pos].timer_type # SINGLE
  <2> DEFINE Again(t) == [t EXCEPT !.expires = t.save_expires_value, !.age = 0]
  <2>1. pos' = pos + 1 /\ timers' = [timers EXCEPT ![pos] = Again(timers[pos])]
    <3>1. pos' = pos + 1 /\ timers' = Reset(pos)
      BY <1>5 DEF WalkCall, Expired
    <3>2. Reset(pos) = [timers EXCEPT ![pos] = Again(timers[pos])]
      BY <1>1, <1>2, <1>3 DEF Reset, Timer
    <3> QED
      BY <3>1, <3>2
  <2>2. /\ Again(timers[pos]) \in Timer
        /\ Again(timers[pos]).expires = timers[pos].save_expires_value
        /\ Again(timers[pos]).age = 0
        /\ Again(timers[pos]).save_expires_value = timers[pos].save_expires_value
    BY <1>1, <1>3 DEF Timer
  <2> HIDE DEF Again
  <2>3. /\ timers' \in Seq(Timer)
        /\ Len(timers') = n
        /\ \A i \in 1..n :
             timers'[i] = IF i = pos THEN Again(timers[pos]) ELSE timers[i]
    BY <1>1, <1>2, <2>1, <2>2
  <2>4. TimerTypeOK' /\ MutexHeldInWalk' /\ CallAtPos' /\ PendingFresh'
    BY <1>1, <1>2, <2>1, <2>3
    DEF TimerInv, TimerTypeOK, MutexHeldInWalk, CallAtPos, PendingFresh
  <2>5. ASSUME NEW i \in 1..n
        PROVE  /\ timers'[i].expires + timers'[i].age =
                    timers'[i].save_expires_value + (IF Visited(i)' THEN 0 ELSE 1)
               /\ timers'[i].expires \in 1..timers'[i].save_expires_value
               /\ timers'[i].save_expires_value > 0
    <3>1. CASE i = pos
      <4>1. Visited(i)'
        BY <3>1, <1>1, <2>1 DEF Visited
      <4> QED
        BY <3>1, <4>1, <2>2, <2>3, Element
    <3>2. CASE i # pos
      <4>1. Visited(i)' <=> Visited(i)
        BY <3>2, <1>1, <2>1 DEF Visited
      <4> QED
        BY <3>2, <4>1, <1>1, <2>3, Element
    <3> QED
      BY <3>1, <3>2
  <2>6. OnSchedule' /\ NeverOverdue' /\ NoZeroTimer'
    BY <2>3, <2>5 DEF OnSchedule, NeverOverdue, NoZeroTimer
  <2> QED
    BY <2>4, <2>6 DEF TimerInv
<1> QED
  BY <1>4, <1>5

\* The walk ends past the last timer: all of them have been counted.
LEMMA StepWalkUnlock ==
    ASSUME TimerInv, WalkUnlock
    PROVE  TimerInv'
<1>1. /\ timerPc = "walk" /\ timerPc' = "sleep" /\ pos > Len(timers) /\ pos' = 1
      /\ timer_mutex' = nobody /\ UNCHANGED <<timers, pending>>
  BY DEF WalkUnlock
<1>2. Len(timers) \in Nat /\ pos \in Nat
  BY DEF TimerInv, TimerTypeOK
<1>3. TimerTypeOK' /\ MutexHeldInWalk' /\ CallAtPos' /\ PendingFresh'
  BY <1>1, <1>2
  DEF TimerInv, TimerTypeOK, MutexHeldInWalk, CallAtPos, PendingFresh, nobody,
      timerThread
<1>4. \A i \in 1..Len(timers) : Visited(i) /\ Visited(i)'
  BY <1>1, <1>2 DEF Visited
<1>5. OnSchedule' /\ NeverOverdue' /\ NoZeroTimer'
  BY <1>1, <1>4, Element DEF OnSchedule, NeverOverdue, NoZeroTimer
<1> QED
  BY <1>3, <1>5 DEF TimerInv

LEMMA StepTimer == TimerInv /\ [TimerNext]_timerVars => TimerInv'
<1> SUFFICES ASSUME TimerInv, [TimerNext]_timerVars PROVE TimerInv'
  OBVIOUS
<1>1. CASE \E s \in Starters, f \in Functions, type \in {SINGLE, CIRCLE}, time \in Times :
             StartTimer(s, f, type, time)
  BY <1>1, StepStartTimer
<1>2. CASE \E s \in Starters : LinkTimer(s)
  BY <1>2, StepLinkTimer
<1>3. CASE TimerThreadStep
  BY <1>3, StepWalkLock, StepWalkVisit, StepWalkCall, StepWalkUnlock DEF TimerThreadStep
<1>4. CASE UNCHANGED timerVars
  BY <1>4 DEF timerVars, TimerInv, TimerTypeOK, MutexHeldInWalk, OnSchedule,
              NeverOverdue, CallAtPos, PendingFresh, NoZeroTimer, Visited
<1> QED
  BY <1>1, <1>2, <1>3, <1>4 DEF TimerNext

\* The invariant holds of every behaviour of the timer service.
THEOREM TimerInvariant == TimerSpec => []TimerInv
<1> QED
  BY InitTimerInv, StepTimer, PTL DEF TimerSpec

\* The list, the mutex and the walk keep their types: in particular the walk
\* never stands beyond the end of the list it shortens (hy_timer.c:149-173).
THEOREM TimerTypeCorrect == TimerSpec => []TimerTypeOK
<1> QED
  BY TimerInvariant, PTL DEF TimerInv

\* Every walk counts every timer down exactly once, whatever leaves the list
\* during the walk (hy_timer.c:152-172).
THEOREM ScheduleCorrect == TimerSpec => []OnSchedule
<1> QED
  BY TimerInvariant, PTL DEF TimerInv

\* No timer is ever decremented below zero, where the unsigned expires would
\* wrap (hy_timer.c:152).
THEOREM OverdueCorrect == TimerSpec => []NeverOverdue
<1> QED
  BY TimerInvariant, PTL DEF TimerInv

\* The list is walked under the mutex (hy_timer.c:146, 192).
THEOREM WalkMutexCorrect == TimerSpec => []MutexHeldInWalk
<1> QED
  BY TimerInvariant, PTL DEF TimerInv

\* A function is called in the walk its start asked for, neither earlier nor
\* later: as many walks after its timer was linked or last reset as the time it
\* was started with, whatever was linked, called or unlinked in between
\* (hy_timer.c:149-173).
CalledOnTime == timerPc = "call" => Expired.age = Expired.save_expires_value

\* Every call is in time.
THEOREM CalledOnTimeCorrect == TimerSpec => []CalledOnTime
<1>1. TimerInv => CalledOnTime
  <2> SUFFICES ASSUME TimerInv, timerPc = "call"
               PROVE  timers[pos].age = timers[pos].save_expires_value
    BY DEF CalledOnTime, Expired
  <2>1. pos \in 1..Len(timers) /\ timers[pos].expires = 0
    BY DEF TimerInv, CallAtPos
  <2>2. Visited(pos)
    BY DEF Visited, TimerInv, TimerTypeOK
  <2> QED
    BY <2>1, <2>2, Element
<1> QED
  BY <1>1, TimerInvariant, PTL

\* What a walk has still to do: two steps for each timer from pos on, to count
\* it down and to call its function, and the one that unlocks.
WalkLeft == CASE timerPc = "sleep" -> 0
              [] timerPc = "walk" -> 2 * (Len(timers) + 1 - pos) + 1
              [] timerPc = "call" -> 2 * (Len(timers) + 1 - pos)

\* A walk comes to its end, although its list gets shorter and its circular
\* timers start again under it: each step of the timer thread brings the end
\* nearer, and no thread that starts a timer puts it off (hy_timer.c:146-192).
WalkProgresses ==
    [][timerPc # "sleep" => \/ WalkLeft' \in 0..(WalkLeft - 1)
                            \/ UNCHANGED <<timers, timerPc, pos>>]_timerVars

\* The list cannot grow under the walk, and the walk cannot stand still.
THEOREM WalkProgressesCorrect == TimerSpec => WalkProgresses
<1>1. ASSUME TimerInv, [TimerNext]_timerVars, timerPc # "sleep"
      PROVE  \/ WalkLeft' \in 0..(WalkLeft - 1)
             \/ UNCHANGED <<timers, timerPc, pos>>
  <2> DEFINE n == Len(timers)
  <2>1. /\ timers \in Seq(Timer) /\ n \in Nat
        /\ pos \in Nat /\ pos >= 1 /\ pos <= n + 1
        /\ timerPc \in {"walk", "call"}
        /\ timer_mutex = timerThread
    BY <1>1 DEF TimerInv, TimerTypeOK, MutexHeldInWalk
  <2>2. CASE WalkLock
    BY <1>1, <2>2 DEF WalkLock
  <2>3. CASE WalkVisit
    <3>1. timerPc = "walk" /\ pos <= n
      BY <2>3 DEF WalkVisit
    <3>2. Len(timers') = n
      <4>1. timers' = [timers EXCEPT ![pos] =
                         [timers[pos] EXCEPT !.expires = timers[pos].expires - 1]]
        BY <2>3 DEF WalkVisit
      <4> QED
        BY <4>1, <2>1
    <3>3. \/ timerPc' = "call" /\ pos' = pos
          \/ timerPc' = "walk" /\ pos' = pos + 1
      BY <2>3 DEF WalkVisit
    <3> QED
      BY <3>1, <3>2, <3>3, <2>1 DEF WalkLeft
  <2>4. CASE WalkCall
    <3>1. timerPc = "call" /\ timerPc' = "walk" /\ pos <= n
      BY <2>4, <1>1 DEF WalkCall, TimerInv, CallAtPos
    <3>2. CASE Expired.timer_type = SINGLE
      <4>1. timers' = [j \in 1..(n - 1) |->
                         IF j < pos THEN timers[j] ELSE timers[j + 1]]
        BY <2>4, <3>2 DEF WalkCall, Stopped
      <4>2. Len(timers') = n - 1
        BY <4>1, <3>1, <2>1
      <4>3. pos' = pos
        BY <2>4, <3>2 DEF WalkCall
      <4> QED
        BY <4>2, <4>3, <3>1, <2>1 DEF WalkLeft
    <3>3. CASE Expired.timer_type # SINGLE
      <4>1. timers' = Reset(pos) /\ pos' = pos + 1
        BY <2>4, <3>3 DEF WalkCall
      <4>2. Len(timers') = n
        BY <4>1, <3>1, <2>1 DEF Reset
      <4> QED
        BY <4>1, <4>2, <3>1, <2>1 DEF WalkLeft
    <3> QED
      BY <3>2, <3>3
  <2>5. CASE WalkUnlock
    <3>1. timerPc = "walk" /\ pos > n /\ timerPc' = "sleep"
      BY <2>5 DEF WalkUnlock
    <3> QED
      BY <3>1, <2>1 DEF WalkLeft
  <2>6. ASSUME NEW s \in Starters, LinkTimer(s)
        PROVE  FALSE
    BY <2>1, <2>6 DEF LinkTimer, nobody, timerThread
  <2>7. ASSUME NEW s \in Starters, NEW f, NEW type, NEW time,
               StartTimer(s, f, type, time)
        PROVE  UNCHANGED <<timers, timerPc, pos>>
    BY <2>7 DEF StartTimer
  <2>8. CASE UNCHANGED timerVars
    BY <2>8 DEF timerVars
  <2> QED
    BY <1>1, <2>2, <2>3, <2>4, <2>5, <2>6, <2>7, <2>8 DEF TimerNext, TimerThreadStep
<1> QED
  BY <1>1, TimerInvariant, PTL DEF TimerSpec, WalkProgresses
-----------------------------------------------------------------------------
(* Which functions have a timer in the list, for those who compose with it.  *)

\* A timer that gets the lock joins the others.
LEMMA LinkTimerLinks ==
    ASSUME TimerInv, NEW s \in Starters, LinkTimer(s), NEW f
    PROVE  Linked(f)' <=> Linked(f) \/ pending[s].function = f
<1> DEFINE n == Len(timers)
<1>1. pending[s] \in Timer
  BY DEF LinkTimer, TimerInv, PendingFresh
<1>2. timers \in Seq(Timer) /\ n \in Nat
  BY DEF TimerInv, TimerTypeOK
<1>3. timers' = Append(timers, pending[s])
  BY DEF LinkTimer
<1>4. /\ Len(timers') = n + 1
      /\ \A i \in 1..n : timers'[i] = timers[i]
      /\ timers'[n + 1] = pending[s]
  BY <1>1, <1>2, <1>3
<1> QED
  BY <1>2, <1>4 DEF Linked

\* Beginning, going on with and ending a walk links and unlinks nothing.
LEMMA WalkKeepsFunctions ==
    ASSUME TimerInv, WalkLock \/ WalkVisit \/ WalkUnlock
    PROVE  /\ Len(timers') = Len(timers)
           /\ \A i \in 1..Len(timers) : timers'[i].function = timers[i].function
<1>1. timers \in Seq(Timer) /\ Len(timers) \in Nat
  BY DEF TimerInv, TimerTypeOK
<1>2. \A i \in 1..Len(timers) : timers[i] \in Timer
  BY <1>1
<1>3. CASE WalkLock
  BY <1>3, <1>1, <1>2 DEF WalkLock, Timer
<1>4. CASE WalkVisit
  <2>1. pos \in 1..Len(timers)
    BY <1>4 DEF WalkVisit, TimerInv, TimerTypeOK
  <2>2. timers' = [timers EXCEPT ![pos] =
                    [timers[pos] EXCEPT !.expires = timers[pos].expires - 1]]
    BY <1>4 DEF WalkVisit
  <2> QED
    BY <2>1, <2>2, <1>1, <1>2 DEF Timer
<1>5. CASE WalkUnlock
  BY <1>5 DEF WalkUnlock
<1> QED
  BY <1>3, <1>4, <1>5

LEMMA WalkKeepsLinked ==
    ASSUME TimerInv, WalkLock \/ WalkVisit \/ WalkUnlock, NEW f
    PROVE  Linked(f)' <=> Linked(f)
  BY WalkKeepsFunctions DEF Linked

\* A call unlinks no function but, at most, the one called.
LEMMA CallKeepsOthersLinked ==
    ASSUME TimerInv, WalkCall, NEW f, f # Expired.function, Linked(f)
    PROVE  Linked(f)'
<1> DEFINE n == Len(timers)
<1>1. timers \in Seq(Timer) /\ n \in Nat /\ pos \in 1..n
  BY DEF TimerInv, TimerTypeOK, CallAtPos, WalkCall
<1>2. PICK i \in 1..n : timers[i].function = f
  BY DEF Linked
<1>3. i # pos /\ timers[i] \in Timer /\ timers[pos] \in Timer
  BY <1>1, <1>2 DEF Expired
<1>4. CASE timers[pos].timer_type = SINGLE
  <2>1. timers' = [j \in 1..(n - 1) |-> IF j < pos THEN timers[j] ELSE timers[j + 1]]
    BY <1>4 DEF WalkCall, Expired, Stopped
  <2> DEFINE k == IF i < pos THEN i ELSE i - 1
  <2>2. Len(timers') = n - 1 /\ k \in 1..(n - 1) /\ timers'[k] = timers[i]
    BY <2>1, <1>1, <1>2, <1>3
  <2> QED
    BY <2>2, <1>2 DEF Linked
<1>5. CASE timers[pos].timer_type # SINGLE
  <2>1. timers' = Reset(pos)
    BY <1>5 DEF WalkCall, Expired
  <2>2. Len(timers') = n /\ timers'[i] = timers[i]
    BY <2>1, <1>1, <1>2, <1>3 DEF Reset
  <2> QED
    BY <2>2, <1>2 DEF Linked
<1> QED
  BY <1>4, <1>5

\* After a link every timer in the list was there before, or was pending.
LEMMA LinkTimerOrigin ==
    ASSUME TimerInv, NEW s \in Starters, LinkTimer(s), NEW i \in 1..Len(timers')
    PROVE  \/ i \in 1..Len(timers) /\ timers'[i] = timers[i]
           \/ timers'[i] = pending[s]
<1>1. pending[s] \in Timer
  BY DEF LinkTimer, TimerInv, PendingFresh
<1>2. timers \in Seq(Timer) /\ Len(timers) \in Nat
  BY DEF TimerInv, TimerTypeOK
<1>3. timers' = Append(timers, pending[s])
  BY DEF LinkTimer
<1> QED
  BY <1>1, <1>2, <1>3

\* The timer thread creates no timer: each one left was there before the step,
\* and only the beginning of a walk or the reset of a circular timer changes
\* its age.
LEMMA WalkOrigin ==
    ASSUME TimerInv, TimerThreadStep, NEW i \in 1..Len(timers')
    PROVE  \E k \in 1..Len(timers) :
             /\ timers'[i].function = timers[k].function
             /\ timers'[i].timer_type = timers[k].timer_type
             /\ timers'[i].save_expires_value = timers[k].save_expires_value
             /\ timers[k].timer_type = SINGLE =>
                  timers'[i].age = timers[k].age + (IF WalkLock THEN 1 ELSE 0)
<1> DEFINE n == Len(timers)
<1>1. timers \in Seq(Timer) /\ n \in Nat
  BY DEF TimerInv, TimerTypeOK
<1>2. \A k \in 1..n : timers[k] \in Timer /\ timers[k].age \in Nat
  BY <1>1, Element
<1>3. CASE WalkLock
  <2>1. Len(timers') = n
    BY <1>3, <1>1 DEF WalkLock
  <2>2. timers'[i] = [timers[i] EXCEPT !.age = timers[i].age + 1]
    BY <1>3, <2>1, <1>1 DEF WalkLock
  <2> QED
    BY <1>3, <2>1, <2>2, <1>2 DEF Timer
<1>4. CASE WalkVisit
  <2>1. pos \in 1..n /\ timerPc = "walk"
    BY <1>4 DEF WalkVisit, TimerInv, TimerTypeOK
  <2>2. timers' = [timers EXCEPT ![pos] =
                    [timers[pos] EXCEPT !.expires = timers[pos].expires - 1]]
    BY <1>4 DEF WalkVisit
  <2>3. Len(timers') = n
    BY <2>1, <2>2, <1>1
  <2>4. ~WalkLock
    BY <2>1 DEF WalkLock
  <2>5. CASE i = pos
    <3>1. timers'[i] = [timers[i] EXCEPT !.expires = timers[i].expires - 1]
      BY <2>1, <2>2, <2>5, <1>1
    <3> QED
      BY <3>1, <2>1, <2>4, <2>5, <1>2 DEF Timer
  <2>6. CASE i # pos
    <3>1. i \in 1..n /\ timers'[i] = timers[i]
      BY <2>1, <2>2, <2>3, <2>6, <1>1
    <3> QED
      BY <3>1, <2>4, <1>2
  <2> QED
    BY <2>5, <2>6
<1>5. CASE WalkUnlock
  <2>1. ~WalkLock /\ timers' = timers
    BY <1>5 DEF WalkLock, WalkUnlock
  <2> QED
    BY <2>1, <1>2
<1>6. CASE WalkCall
  <2>1. pos \in 1..n /\ ~WalkLock
    BY <1>6 DEF WalkCall, WalkLock, TimerInv, CallAtPos
  <2>2. CASE timers[pos].timer_type = SINGLE
    <3>1. timers' = [j \in 1..(n - 1) |-> IF j < pos THEN timers[j] ELSE timers[j + 1]]
      BY <1>6, <2>2 DEF WalkCall, Expired, Stopped
    <3> DEFINE k == IF i < pos THEN i ELSE i + 1
    <3>2. k \in 1..n /\ timers'[i] = timers[k]
      BY <3>1, <2>1, <1>1
    <3> QED
      BY <3>2, <2>1, <1>2
  <2>3. CASE timers[pos].timer_type # SINGLE
    <3> DEFINE again == [timers[pos] EXCEPT
                           !.expires = timers[pos].save_expires_value, !.age = 0]
    <3>1. timers' = [timers EXCEPT ![pos] = again]
      <4>1. timers' = Reset(pos)
        BY <1>6, <2>3 DEF WalkCall, Expired
      <4>2. Reset(pos) = [timers EXCEPT ![pos] = again]
        BY <2>1, <1>1, <1>2 DEF Reset, Timer
      <4> QED
        BY <4>1, <4>2
    <3> HIDE DEF again
    <3>2. /\ i \in 1..n
          /\ i # pos => timers'[i] = timers[i]
          /\ i = pos => timers'[i] = again
      BY <3>1, <2>1, <1>1
    <3> USE DEF again
    <3>3. CASE i # pos
      BY <3>2, <3>3, <2>1, <1>2
    <3>4. CASE i = pos
      BY <3>2, <3>4, <2>1, <2>3, <1>2 DEF Timer
    <3> QED
      BY <3>3, <3>4
  <2> QED
    BY <2>2, <2>3
<1> QED
  BY <1>3, <1>4, <1>5, <1>6 DEF TimerThreadStep
=============================================================================
