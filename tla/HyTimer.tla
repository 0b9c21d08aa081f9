------------------------------- MODULE HyTimer -------------------------------
(***************************************************************************)
(* The timer service of src/hy_proj/base/src/hy_timer.c: threads start     *)
(* timers with hy_start_timer; the timer thread wakes up every second,     *)
(* walks the list under timer_mutex and calls the functions of the timers  *)
(* that expire, still under the mutex.  The list changes under the walk: a *)
(* single timer is unlinked and freed where the walk stands.               *)
(***************************************************************************)
EXTENDS Integers, Sequences, FiniteSets

CONSTANTS
    Starters,     \* the threads that start timers
    Functions,    \* the functions timers are started with
    Times,        \* the values of hy_start_timer's argument time
    MaxTimers,    \* bound on the timers that are linked or being started
    NoTimer       \* what pending holds for a thread that starts no timer

ASSUME TimesAssumption == Times \subseteq Nat
ASSUME BoundAssumption == MaxTimers \in Nat

VARIABLES
    timers,       \* the list behind timer_mgt.timer_head, in list order
    timer_mutex,  \* owner of timer_mgt.timer_mutex
    timerPc,      \* where the timer thread is in its loop
    pos,          \* index in timers of the walk's local pos
    pending       \* the timer a thread in hy_start_timer is about to link

timerVars == <<timers, timer_mutex, timerPc, pos, pending>>

SINGLE == "HY_SINGLE_TIRGGER"
CIRCLE == "HY_CIRCLE_TIRGGER"
nobody == "nobody"
timerThread == "timer"

\* hy_timer_t, with a history of the program: age, the number of walks begun
\* since the timer was linked or last reset.
Timer == [function : Functions, timer_type : {SINGLE, CIRCLE},
          expires : Nat, save_expires_value : Nat, age : Nat]

TimerTypeOK ==
    /\ timers \in Seq(Timer)
    /\ timer_mutex \in {timerThread, nobody}
    /\ timerPc \in {"sleep", "walk", "call"}
    /\ pos \in Nat \ {0}
    /\ pos <= Len(timers) + 1
    /\ pending \in [Starters -> Timer \cup {NoTimer}]

\* hy_init_timer_mgt.
TimerInit ==
    /\ timers = <<>>
    /\ timer_mutex = nobody
    /\ timerPc = "sleep"
    /\ pos = 1
    /\ pending = [s \in Starters |-> NoTimer]
-----------------------------------------------------------------------------
(* A thread calls hy_init_timer and hy_start_timer.                        *)

\* A new timer that expires in time seconds.
NewTimer(function, type, time) ==
    [function |-> function, timer_type |-> type, expires |-> time,
     save_expires_value |-> time, age |-> 0]

\* hy_start_timer up to the lock.  With time 0 it returns -1 and does nothing.
StartTimer(s, function, type, time) ==
    /\ pending[s] = NoTimer
    /\ time > 0
    /\ pending' = [pending EXCEPT ![s] = NewTimer(function, type, time)]
    /\ UNCHANGED <<timers, timer_mutex, timerPc, pos>>

\* Lock, list_add_tail, unlock: nothing looks at the list without the lock.
LinkTimer(s) ==
    /\ pending[s] # NoTimer
    /\ timer_mutex = nobody
    /\ timers' = Append(timers, pending[s])
    /\ pending' = [pending EXCEPT ![s] = NoTimer]
    /\ UNCHANGED <<timer_mutex, timerPc, pos>>
-----------------------------------------------------------------------------
(* The timer thread.                                                       *)

\* The thread has slept its second: it locks the list and starts at its head.
WalkLock ==
    /\ timerPc = "sleep"
    /\ timer_mutex = nobody
    /\ timer_mutex' = timerThread
    /\ timerPc' = "walk"
    /\ pos' = 1
    /\ timers' = [i \in DOMAIN timers |->
                     [timers[i] EXCEPT !.age = timers[i].age + 1]]
    /\ UNCHANGED pending

\* Faulty WalkVisit: the expired timer is looked for with < instead of <=.
WalkVisitStrict ==
    /\ timerPc = "walk"
    /\ pos <= Len(timers)
    /\ timers' = [timers EXCEPT ![pos].expires = timers[pos].expires - 1]
    /\ IF timers'[pos].expires < 0
       THEN timerPc' = "call" /\ UNCHANGED pos
       ELSE pos' = pos + 1 /\ UNCHANGED timerPc
    /\ UNCHANGED <<timer_mutex, pending>>

\* Count the timer at pos down; go on to the next one unless it has expired.
WalkVisit ==
    /\ timerPc = "walk"
    /\ pos <= Len(timers)
    /\ timers' = [timers EXCEPT ![pos].expires = timers[pos].expires - 1]
    /\ IF timers'[pos].expires <= 0
       THEN timerPc' = "call" /\ UNCHANGED pos
       ELSE pos' = pos + 1 /\ UNCHANGED timerPc
    /\ UNCHANGED <<timer_mutex, pending>>

\* hy_stop_timer: the list without its element i.
Stopped(i) ==
    [j \in 1..(Len(timers) - 1) |-> IF j < i THEN timers[j] ELSE timers[j + 1]]

\* hy_reset_timer.
Reset(i) ==
    [timers EXCEPT ![i].expires = timers[i].save_expires_value, ![i].age = 0]

\* The timer at pos is the one whose function is being called.
Expired == timers[pos]

\* Faulty WalkCall: the walk steps to the next node after the removal has
\* already brought it there, as list_for_each_entry would.
WalkCallSkips ==
    /\ timerPc = "call"
    /\ timers' = IF Expired.timer_type = SINGLE THEN Stopped(pos) ELSE Reset(pos)
    /\ pos' = pos + 1
    /\ timerPc' = "walk"
    /\ UNCHANGED <<timer_mutex, pending>>

\* The function returns.  A single timer is unlinked and freed, and the walk
\* goes on from the node that followed it; a circular one is reset.
WalkCall ==
    /\ timerPc = "call"
    /\ IF Expired.timer_type = SINGLE
       THEN timers' = Stopped(pos) /\ UNCHANGED pos
       ELSE timers' = Reset(pos) /\ pos' = pos + 1
    /\ timerPc' = "walk"
    /\ UNCHANGED <<timer_mutex, pending>>

\* Faulty WalkUnlock: the thread goes to sleep with the mutex when the list is
\* empty.
WalkUnlockForgotten ==
    /\ timerPc = "walk"
    /\ pos > Len(timers)
    /\ timer_mutex' = IF timers = <<>> THEN timer_mutex ELSE nobody
    /\ timerPc' = "sleep"
    /\ pos' = 1
    /\ UNCHANGED <<timers, pending>>

WalkUnlock ==
    /\ timerPc = "walk"
    /\ pos > Len(timers)
    /\ timer_mutex' = nobody
    /\ timerPc' = "sleep"
    /\ pos' = 1
    /\ UNCHANGED <<timers, pending>>
-----------------------------------------------------------------------------
\* Room for one more timer under the bound.
RoomForTimer ==
    Len(timers) + Cardinality({s \in Starters : pending[s] # NoTimer}) < MaxTimers

TimerThreadStep == WalkLock \/ WalkVisit \/ WalkCall \/ WalkUnlock

TimerNext ==
    \/ TimerThreadStep
    \/ \E s \in Starters :
         \/ LinkTimer(s)
         \/ \E f \in Functions, type \in {SINGLE, CIRCLE}, time \in Times :
              RoomForTimer /\ StartTimer(s, f, type, time)

TimerSpec == TimerInit /\ [][TimerNext]_timerVars

\* The timer thread is scheduled.  Strong fairness for a thread that waits for
\* timer_mutex: the timer thread sleeps a second between two walks, during
\* which a starter that is scheduled finds the mutex free.
TimerFairness == /\ WF_timerVars(TimerThreadStep)
                 /\ \A s \in Starters : SF_timerVars(LinkTimer(s))

TimerFairSpec == TimerSpec /\ TimerFairness
-----------------------------------------------------------------------------
(* Properties.                                                             *)

\* In a walk, the timers behind pos have been counted down, and the one at pos
\* when its function is being called.
Visited(i) == \/ timerPc = "sleep"
              \/ timerPc = "walk" /\ i < pos
              \/ timerPc = "call" /\ i <= pos

\* Every walk counts every timer down exactly once, although timers leave the
\* list under it (hy_timer.c:149-173): what a timer has left and what it has
\* seen add up, so that it expires at the walk its start asked for.
OnSchedule ==
    \A i \in 1..Len(timers) :
        timers[i].expires + timers[i].age =
            timers[i].save_expires_value + (IF Visited(i) THEN 0 ELSE 1)

\* A linked timer has time left, unless its function is being called: expires
\* is unsigned, and a decrement below zero would arm the timer for 136 years
\* (hy_timer.c:152).
NeverOverdue ==
    \A i \in 1..Len(timers) :
        \/ timers[i].expires \in 1..timers[i].save_expires_value
        \/ timers[i].expires = 0 /\ timerPc = "call" /\ i = pos

\* The list is walked by the owner of the mutex and nobody else
\* (hy_timer.c:146, 192).
MutexHeldInWalk == (timer_mutex = timerThread) <=> timerPc # "sleep"

Linked(f) == \E i \in 1..Len(timers) : timers[i].function = f
Called(f) == timerPc = "call" /\ Expired.function = f

\* A function whose timer has been started is called some day: neither the
\* lock nor the changes of the list keep it waiting for ever.
StartedTimerFires ==
    \A s \in Starters, f \in Functions :
        (pending[s] # NoTimer /\ pending[s].function = f) ~> Called(f)
=============================================================================
