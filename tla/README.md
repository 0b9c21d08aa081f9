# TLA+ models and proofs for guangxi, a video detection device

The program under `src/decode` runs on a DM8168 board beside up to a few network
cameras.  It decodes one camera's stream, looks for smoke and intruders in it, sounds
a horn and sends pictures when it finds some, and obeys a control server that can
steer the cameras, ask for live views and recordings, and change the detection.  It is
one process of about a dozen POSIX threads that share globals, mostly without locks,
and drive the rest of the device through `system()`, datagrams and sockets.

This directory models the parts whose correctness depends on the order in which the
threads, the server, the network and the child processes act.  TLC checks small
instances of every model; TLAPS proves the safety properties of all of them for all
values of their constants.  All line numbers are those of the sources.

## 1. The system

### Components, their state and their operations

| component | state | operations | hard about it |
|---|---|---|---|
| message deque (`hy_proj/base/src/hy_deque.c`) | linked list, `mesg_nums`, two mutexes, a condition variable | `hy_put_mesg` (decode thread), `hy_get_mesg` (file thread) | the count is tested without the mutex that protects it; the wait is on a mutex that was not locked; no test after the wait |
| timer service (`hy_timer.c`) | list of timers, `timer_mutex` | `hy_start_timer` from any thread, the timer thread's walk each second | timers leave the list under the walk; functions run under the mutex; unsigned counts |
| detection control (`hy_detect_flow_ctrl.c`, `hy_session_handler.c` 482-493, `decode.c` 399-660) | `g_hy_detect_info.starting` | manual and automatic PTZ requests, the timer that turns detection on, the decode loop | the flag has four users and no lock; timers outlive the request that started them |
| alarm and horn (`hy_file_manage.c` 596-649, `hy_mk60_ctrl.c`) | the horn, a timer per alarm | open and close datagrams to the MK60 power controller | datagrams are lost; alarms overlap |
| server session (`hy_session_handler.c`) | socket, `mesg_buf`, `b_is_connected` | connect, log in, read a message in pieces, handle it, give a connection up | TCP cuts messages anywhere; silence; end of file and reset at any point |
| live view (`hy_stream_ctrl.c`, `hy_session_handler.c` 260-347, 641-657, 736-763) | `stream_is_opened`, `current_play_cmd`, `real_time_fd`, ffmpeg processes, the camera's power | start (a detached thread per request), stop (session thread), loss of the session | everything is shared and nothing is locked; a start takes seconds |
| video tasks (`hy_file_manage.c` 510-592) | `hy_mv_record_flag`, `hy_mv_record_sending_cunt`, files | record, upload, remove, reboot | test and set apart; `++` and `--` from several threads |
| picture tasks, upload of alarms (`hy_file_manage.c` 272-508) | a file each | take or find a picture, upload, remove | none shared |
| decode and analysis (`decode.c`, `dspvideodecodec.c`, `hy_picture_convert.c`) | frame counters, buffers, areas, current channel | one frame per turn; channel switch; alarm intervals | areas are overwritten while they are copied |
| flow monitor (`hy_flow_moniter.c`) | traffic per month in a database, last counters | sample each minute, report | counters restart; the database fails; the month changes |
| 4G status, device status (`hy_cdma_status.c`, `hy_device_status.c`) | none shared | run a command, parse it, send it | parsing |
| watchdog (`hy_watchdog.c`) | the device file | feed | none |
| update (`hy_update.c`, `hy_session_handler.c` 419-443) | `a9_update_flag`, the tarball, its digest, the program on disk | fetch, check, unpack, reboot | flag tested by one thread and set by another; downloads stop anywhere; the process ends while the program is overwritten |
| serial protocol (`hy_serial_ctrl_protocol.c`, `check.c`) | none | pack, unpack, CRC | lengths, checksums |
| configuration (`global_config.c`, vendored iniparser) | `mv.config` | load or fill at boot, rewrite in place | a reset in the middle of a rewrite; nothing is synced to disk |
| PTZ control (`hy_ptz_ctrl.c`, `hy_proj/ptz`) | tour table | ONVIF calls | generated stubs |
| base utilities (`hy_thread_utils.c`, `hy_io_utils.c`, ...) | `b_thread_running` | start and stop a thread, write all of a buffer | stop before the thread has run; short writes |

### How they interact

`main` (`main.c` 31-77) reads the configuration, creates the deque, and starts the
session, file management, timer, status and decode threads, in an order that the models
take as their initial states: the file thread waits on the deque before the decode
thread, which first sleeps two seconds (`decode.c:368`), can put anything.

    control server --messages--> session thread --starting--> decode thread
                                   |  |  |                      | alarms
              live view thread <---+  |  +--> video task        v
              (one per request)       |      (one per request)  deque
                                      v                         |
       camera power, horn <------ timer thread <---------- file thread
          (MK60, UDP)          calls functions          horn on, timer

  * The session thread and the file thread both start timers; the timer thread calls
    `hy_sig_start_detect` and `send_close_alarm_package_to_mk60`.
  * The decode thread and the file thread share the deque.
  * The live view threads and the session thread share ffmpeg: `hy_simple_stream_stop_realplay`
    kills every ffmpeg there is, recordings of video tasks included.
  * The session thread overwrites the detection areas that the decode thread copies at
    each frame, writes them to `mv.config`, and starts the updates; a reboot, of an update,
    of a request or of a video task, ends everything but the files.
  * A stop of the live view ends with an automatic PTZ request, which turns detection on.

### What makes each component correct

  * Deque: every message put is returned, once and in order; no wakeup is lost; the list
    head is never returned; the two mutexes do what their names say.
  * Timer service: each timer expires at the walk its start asked for, and is called.
  * Detection: on and off when the server said so and no later than the code allows;
    nothing but the server turns it off.
  * Horn: it does not sound for ever unless a datagram was lost.
  * Session: commands are handled whole, once, in order; a dead connection is noticed.
  * Live view: at most one stream, known to the program, of the channel asked for, from
    a camera that is on, and answered to the connection that asked.
  * Video tasks: one recording at a time; a count that is the number of pending
    uploads; no file removed that is needed; reboot only beyond the limit.
  * Areas: a frame is analysed with the areas of one setting; a setting survives reboots.
  * Update: one at a time; the next is let in; no part of a tarball is unpacked.

`PROJECT.json` lists under "hazards" where each of these can go wrong.

## 2. The modules

Every module has a comment at each action saying what it stands for; `PROJECT.json`
"map" gives the lines.  Definitions whose comment begins with "Faulty" are plausible
bugs.  No specification uses them; each makes one property fail when it takes the place
of the definition it follows, which shows that the property can fail.

**`MesgDeque`** has one action per statement that touches shared state: `PutLock` to
`PutUnlockCond` are `hy_put_mesg`, `GetTest` to `GetReturn` are `hy_get_mesg`, `Handle`
is the file thread's loop.  `putPc` and `getPc` are the places between the statements.
POSIX leaves `pthread_cond_wait` on a mutex the caller has not locked undefined; the
model does what glibc's default mutex does, which checks no owner: `CondWait` frees the
mutex whoever holds it, `CondReturn` takes it, and nothing unlocks it.  When the list
head has been handed out as a message the file thread reads and frees memory behind
it; the model ends there (`Corrupt`).  `Pace` says when alarms come, `Spurious` whether
`pthread_cond_wait` may return unasked.
**`MesgQueue`** is what the deque promises: a FIFO queue that is emptied some day.

**`HyTimer`** models a start in two steps (the timer is filled in, then linked under the
mutex) and the walk in one step per timer, since functions run under the mutex but other
threads go on.  `age` is a history: the number of walks a timer has seen.

**`DetectCtrl`** extends `HyTimer` with its users: session, decode and file thread, the
horn, and the datagrams that open and close it, each of which can be lost.  `RecvAuto` stands for the end of an
automatic request and of a stopped live view.  The deque appears as a bounded counter,
that is, as the queue of `MesgQueue`.

**`Session`** models the connection as units of a stream, each tagged with message and
position.  A read takes what has arrived.  Header and body are read in one call of
`hy_sig_read_mesg_buf`, so the body is read, and the thread can block, outside `select`.
The two seconds of sleep after an unfinished read and the ten after a disconnection
change no state.  What a command does is in the other modules.  Bodies fit `mesg_context`
(1024 bytes), as those of the protocol in `hy_protocl.h` do.

**`LiveView`** has a slot per request thread alive, and the steps of
`hy_simple_stream_start_realplay` and `stop_realplay` in both kinds of thread.  A
datagram to the camera may be lost, a ping may fail with the camera on, ffmpeg may end
by itself.  `overlap` records that two threads have been inside start or stop at a time,
`chased` that a stop or a disconnection has come while a request was under way.

**`VideoTask`** follows `hy_data_handle_video_record_task`; `++` and `--` are a read and
a write.  `overlap` records that a second task has been let in, `torn` that two updates
of the count have met.  The function uses a variable `fd` that it does not declare and
that no header declares; the model takes it for the local variable it is in the picture
task.  Each task has a file name of its own, that is, two tasks for one channel do not
start in the same second.

**`FlowMonitor`** has one action for the sample, one for its accounting and one for the
report of each turn of the loop, so that the link, the clock and a crash come between
them; the calls of the database within one can fail one by one.  The counters are in
kilobytes, as they are after line 171; `Cap` is the greatest int there.  `i` is kept by
its remainder, all that the loop looks at once the first turn is over.  `passed`, `first`,
`base` and the flags behind `boots` are histories.

**`Player`** is what `LiveView` promises: a player of one stream, stopped before it plays
another, of the channel it was asked for.  No run uses it; `LiveViewProofs` shows that the
live view is one until two threads overlap.

**`Inbox`** is what `Session` promises: whole commands that arrive and are executed one by
one, in order, none after one with a wrong flag, each unless the connection is given up.
`Session!ImplementsInbox` maps the units that have arrived to the messages they complete.

**`DetectArea`** follows a setting of detection areas: `RecvArea`, `CopyArea` in any order of
the parts (a `memcpy`), `OpenFile`, `OpenFails` and `WriteFile` in the session thread,
`CopyTest` to `CopyEnds` in the decode thread, which reads the count twice, `BootReinit` to
`BootRead` in `parse_detect_info_file`.  A setting is a number, an area the number of the
setting each part of it is from.  `file` is `mv.config` as the program sees it, `disk` what
a loss of power leaves of it (`WriteBack`: there is no `fsync`).  `met` records that the
session thread has been in `memcpy` during this copy, `base` whose count the copy found
first, `saved` and `unsaved` what was last written and that an open has failed since.

**`Update`** has one action per step of `a9_handle_update_thread`, for threads that overlap and
use the same two file names.  wget takes another name when its file is there, leaves part
of it when it breaks off, and can give up before it has made one.  The digest of a
file that cannot be read is a buffer nobody has written: the comparison can go either way.
`rm`, `wget`, `md5sum` and `tar` can each fail, and a failure that nobody looks at is a step
to the next line: `Unpack` may find that tar has not begun, `Unpacked` that it has stopped
half-way through a whole tarball (no room, an error of the disk, killed), and both go on to
`reboot`.  `raced` records that an update was let in while another stood between the test of
the flag and its setting, or after one had called `reboot` and cleared the flag; `blind` that
such a buffer has been compared; `cut` that the last unpacking of a whole tarball to stop
has done so before the whole program was there.

**`Maintenance`** composes the two with the session thread they share, with requests for a
reboot, and with the end of the process, by a reboot that has been called for or by a loss
of power at any point.  Either sets `cut` when it meets an unpacking, a loss of power also
when the program just unpacked had not been written back.

The `MC` modules give the constants their values.

## 3. What TLC checks

| run | what it asks |
|---|---|
| `deque` | With spurious wakeups and alarms at any pace after the file thread's first wait: until the list head is taken for a message the count matches the list, messages are returned once and in order, no wakeup is lost, only a get that has waited can take the head, `hy_put_mesg` returns, every message is taken. |
| `deque_spaced` | With alarms so far apart that the file thread waits again in between, and no spurious wakeups, the deque implements `MesgQueue`, its fairness included.  The start order does not guarantee this pace; the run says what is missing for the deque to be a queue. |
| `deque_head` | (violated) Two alarms close together are enough for `hy_get_mesg` to return the list head, without a spurious wakeup: the second put's signal comes when its message has already been taken, and wakes a wait on an empty list. |
| `timer` | Every walk counts every timer down once, none runs below zero, a started timer's function is called. |
| `detect` | A sounding horn has a timer that closes it; detection is off only on request; two walks after a manual request nothing can turn it on; at most one frame is analysed late; horn and detection get where they should. |
| `detect_manu` | (violated) The comment at `hy_session_handler.c:676` says a manual request closes the algorithm; the timer of an earlier automatic one opens it again. |
| `session` | Commands are handled whole and in order however the stream is cut, nothing follows a bad flag, nothing waits in the buffer while `select` sleeps; it implements `Inbox`; closed, reset and silent connections are given up. |
| `maintenance` | Through reboots and losses of power at any point: a frame is analysed with the areas of one setting unless a `memcpy` has met its copy; the areas in memory are those last written; until two are let in together there is one update at a time; without one the flag is clear, and with one it is cleared some day; half a program is booted only where the unpacking of a whole tarball was cut, updates raced, or a digest was not read. |
| `live` | Until two threads overlap there is one stream, the flag knows of it, and it shows what was asked; until a stop overtakes a request nothing plays without a session or from a camera that is off; an answer goes to the connection that asked as long as it is open. |
| `video` | Until tasks overlap the flag is exact; until updates meet the count is exact; until either, no needed file is removed; reboots are justified. |
| `video_one` | (violated) The comment at `hy_file_manage.c:31` says nothing is recorded during a recording; two tasks pass the test at 522 before either sets the flag at 533. |
| `flow` | However the counters start again, reads and writes of the database fail and the program restarts, no more is stored than has passed; while no counter falls and no call fails, all that was sampled is stored once, across the end of a month too; while no call fails, no total shrinks. All but the second until one counter alone falls. |

What the runs taught about the code, beyond the three violations:

  * `EndNoticed` excludes an end of file within a body because the loop really spins
    there: `read` returns 0, which lines 929-938 count as progress, `select` reports the
    socket readable again, and the session never reconnects.  `SilenceNoticed` excludes a
    silence within a message: the body is read by a blocking `read` outside `select`.
  * `StreamAccounted` fails without `~overlap`: a stop between the start of ffmpeg and the
    assignment of `stream_is_opened` is undone by it, and two requests at once leave two
    streams.  `PlayingCameraOn` fails without `~chased`: a stop that overtakes its request
    turns the camera off before the stream starts.
  * `CountExact` fails without `~torn`, and the unsigned count can then wrap below zero,
    which is above five and reboots the device at the next task.
  * `NeverOvercounts` and `TotalNeverShrinks` fail without `~oneBehind`: when one counter has
    fallen and the other not, lines 190 and 197 both add, the first a difference that can
    be negative.  A read that fails gives -1, which line 190 adds to and stores: the total
    of the month is lost, which `TotalNeverShrinks` excludes by `~dbFailed`.  From 2021 on
    every call refuses the year and nothing is stored.
  * `OnlyOneUpdate` fails without `~raced`: the session thread tests `a9_update_flag` at line
    426 and the thread it has created sets it, at `hy_update.c:101`.  The flag is cleared at
    144 while `reboot` has only been called, so that another update can be let in and
    unpack while the board goes down.
  * `NoHalfProgram` fails without `~blind`: `calc` and `orig` are not initialised, and with an
    empty digest file they are compared as they are.  It fails without `cut`: tar unpacks
    over the program in place, line 140 ignores that it has failed, line 142 reboots, and a
    reset in the middle does the same.  The code has no protection from that; what the
    property shows is that a tarball that has come in part is not unpacked.
  * `AreasOfOneSetting` fails without `~met`: the count and the rectangles are copied one by one
    while the session thread overwrites them, and the count can be that of one setting and
    the rectangles those of another.
  * A setting is answered (497-501) before it is copied and written, and a failure to open
    `mv.config` is ignored: `AreasSurvive` speaks of what has been written (`saved`).
  * The comment at `hy_file_manage.c:35` says the reboot comes above ten pending uploads;
    line 534 has five.  `hy_io_utils.h` says `hy_read` loops until it has read all it was
    asked for; it reads once, and `hy_sig_read_mesg_buf` depends on that.

### Bounds, and why they are enough

  * `MaxPuts` 4 (7 when spaced), `NumsWidth` 8: the list is empty, has one and has several
    nodes, and the count wraps below zero within reach.  The proofs have no such bounds.
  * Timers: three at a time of zero to two seconds, single and circular: one, two or none
    leave a walk at its start, middle and end.
  * Detection: delay 2 as in the code, horn 3 instead of 30 so that it is longer than the
    delay, two automatic requests and two alarms under way, so that two timers of either
    kind overlap.
  * Session: a header of two units and bodies of zero to two can arrive in any pieces; two
    messages per connection and two connections let one meet what the other left.
  * Live view: two request threads and the session thread are all that can be between any
    two statements of each other; a channel with a power switch and one without; two
    connections with the same or another descriptor number.
  * Video tasks: one that records, one that uploads and one more; a limit of 1 instead
    of 5 and a width of 4 instead of 2^32, so that both are reached.  The limit and the width
    are constants of the module.
  * Flow monitor: three kilobytes over two months that the database accepts and one that it
    does not, two starts of the program, counters that stand still at two.  That gives
    every combination of a falling and a standing counter, a failing call and a new month.
  * Maintenance: two settings, one of two rectangles and one of none, so that a count can be
    met by fewer or more rectangles; two updates at a time; two requests and two resets, so
    that a reset cuts a setting or an update and another the boot that follows.

Symmetry is used for request threads, descriptor numbers and tasks, in runs without
liveness properties only.  Deadlock is checked where the system cannot stop (`timer`,
`detect`, `video`, `flow`, `maintenance`).  The deque's runs stop after `MaxPuts` messages; a session and a
request thread stop after the last connection the bound allows, and a session also while
it blocks in a body; so these do not check it.

### Fairness

  * `deque`: weak fairness of both threads' steps, none for alarms and spurious wakeups.
  * `timer`, `detect`: weak fairness of the timer thread and of each thread that has a
    step to do; strong fairness of a thread waiting for `timer_mutex`, because the timer
    thread sleeps a second between two walks with the mutex free, longer than any thread
    waits to be scheduled.  None for requests and alarms.
  * `session`: weak fairness of the session thread, 120 seconds of silence included.  None
    for the server, for `connect` to succeed and for signals that interrupt `select`.
    `ImplementsInbox` includes the fairness of `Inbox`: while there is a connection, a
    command that has arrived is executed.
  * `maintenance`: weak fairness of the update threads' steps, because ping gives up and
    wget waits 900 seconds for an answer and tries 20 times (`hy_update.c`).  None for the
    session and decode threads, requests and resets.
  * `live`, `video`, `flow`: none; nothing there is claimed to happen.  ffmpeg and the uploads have
    no timeout that would justify it.

## 4. What is proved

Eight modules of proofs hold for every value of the constants that satisfies the named
assumptions of the modules: natural numbers for the bounds, `MaxPuts < NumsWidth` (fewer
than 2^32 messages), positive delays, the two users and two functions of the timer
service, a header of at least one unit, fewer video tasks at a time than the count can hold
(`TasksAssumption`), a setting of no areas that has no rectangles.  Each proves an inductive
invariant, `IInv` unless it has another name below, which TLC has checked on the instance
of the run; the types are part of it and are proved there, not checked by a run.

  * **Deque.**  `IInv` is `TypeOK /\ MutexOwned /\ CountLags /\ Order /\ Started /\
    CondMutexOwned /\ Waiting`.  `CountMatchesList` is not inductive: inside the critical
    sections the count lags the list by one, and once the head has been taken the list is
    off by one for good; `MutexOwned` says who is in a critical section, `CountLags` by how
    much the count is off there, `Order` extends `ExactlyOnceInOrder` to every place.
    `Waiting` is what a sleeping file thread knows of the put under way.  From it follow
    `TypeCorrect`, `CountCorrect`, `OrderCorrect`, `CondMutexCorrect` and `WakeupCorrect`.
  * **Timers.**  `TimerInv` is `TimerTypeOK /\ MutexHeldInWalk /\ OnSchedule /\ NeverOverdue
    /\ CallAtPos /\ PendingFresh /\ NoZeroTimer`.  The last three say that a function is
    called for the timer where the walk stands, that a timer not yet linked has its full
    time, and that no timer is started with zero seconds (which `hy_start_timer` refuses).
    The hard step is `WalkCall`, which removes an element of the list under the walk.
  * **Detection.**  `DetectInv` is `Flags /\ Values /\ TimerInv /\ PendingMatches /\ AutosAge
    /\ FrameBegunInTime /\ OffOnlyOnRequest /\ HornClosePending`.  `TimerInv` is reused: each
    step of `DetectCtrl` is a step of `TimerNext` or leaves the timers alone.  `AutosAge`
    relates the age of each automatic timer to the walks since the last request, which is
    why `StaleAutosDieOut` holds; `PendingMatches` ties what a thread is about to link to
    its place in its loop.

  * **Session** (`SessionProofs`).  `HandledInOrder` says nothing of what is still in the
    stream.  `WireInv` says, for any two units in it, what follows a unit within its
    message and what follows the message; a property of pairs instead of one of neighbours,
    so that no induction along the stream is needed to know what a read of n units gets.
    `BufInv` says that `head` and `context` are the beginning of the next message, `NextInv` that
    the stream goes on where they end, `ConnInv` that a bad flag leads out of the loop.
    `ReadUnits` is the lemma about reads, `ReadHeadInv` and `ReadBodyInv` the hard steps.
    `ImplementsInboxSafely` shows every step to be one of `Inbox` or a stutter; it needs
    `Whole`, that nothing is handled before it has arrived to its end.
  * **Live view** (`LiveViewProofs`).  `StreamAccounted` and `AskedChannelPlays` speak of the
    threads that are outside; `Alone` and `Undisturbed` say what a thread finds that is
    inside alone, place by place.  `ChaseInv` says that no request is under way while the
    session thread stops, until `chased`, and that the camera of a request that has been
    pinged stays on.  `AskerInv` adds that no thread comes from a connection still to be made.
  * **Video tasks** (`VideoTaskProofs`).  `CountExact` compares a counter of limited width with a
    cardinality; `UpdatesApart` says that what a task has read is still the count when it
    writes, until `torn`, and the lemmas `RemainderSum`, `AtJoined` and `AtLeft` that a task
    more or less is a count more or less.  `NobodyCounted` is why leftovers can be removed.
  * **Flow monitor** (`FlowMonitorProofs`).  `BehindNoticed` says that an accounting with one
    counter behind alone has set `oneBehind`; from it follows `TotalNeverShrinksCorrect`.
    `NeverOvercounts` is not inductive: `SlackEnough` says that what has passed and is not
    stored covers all that the next sample can add, with the counters further on or started
    again, and `NeverBelow` that no total falls below -1, so that a failed read raises none.
    `StoredSince` extends `SampledIsStored` to the place between a sample and its accounting.
    How the sum over the months changes with one of them (`SumOfChanged`) is an induction over
    the months; the library's induction theorems take an operator, which no prover here
    instantiates, so `LeastElement` derives it from the order of finite sets instead.
  * **Maintenance** (`MaintenanceProofs`).  `Kept` says which settings memory and files can hold
    at each place of the boot and of a setting, `Copied` how far a frame's copy has got, and
    `Meets` that the session thread cannot be in `memcpy` unnoticed.  `FlagHeld` is why the
    flag clear means no update, `Unpacks` why only a whole tarball is unpacked and
    where half a program can come from.

### What is proved beyond the properties of the runs

The proof modules state further properties, at their ends, each with its proof; they hold
for every value of the constants and no run lists them.  (TLC has found none of them violated
on the instances of the runs.)

Refinements:

  * `RefinesQueueUntilHead` (deque): at any pace of alarms and with spurious wakeups every
    step is a step of `MesgQueue` or a stutter until `hy_get_mesg` picks up the list head, and
    nothing comes back from that.  So the unlocked reads of `mesg_nums` and `head->next` do
    no harm but that one.  `HeadOnlyAfterWakeup`, of run `deque`, says where it comes from: a get that has
    passed the test at line 65 finds a message, one that comes from the wait may not.
    That the queue is implemented to the end at the pace of `deque_spaced` is only
    model-checked: nothing in the code holds alarms to that pace.
  * `ImplementsInboxSafely` (session), above.
  * `RefinesPlayerUntilOverlap` (live view): `Alone` and `Undisturbed` make each kill a stop of
    `Player` and each start a `Play` of the channel asked for; `FewerStreams` does the same for
    a stream that ends by itself.
  * `UsesTimersCorrectly` (detection): `DetectCtrl` with all its threads implements
    `TimerSpec`, so that every theorem of `HyTimerProofs` is one about it.  It needs that the list
    never gets longer than the service expects (`TimersBounded`).

The parts of liveness properties that are safety.  No prover here can show that a thread goes
on, but what it has to go through is a matter of steps:

  * `NeverBothWaitCorrect` for `PutReturns` and `EveryMessageTaken`: there is no deadlock of the
    two mutexes and the condition, although the file thread keeps the condition mutex.
    `CondFreed` is the invariant behind it.
  * `WalkProgressesCorrect` and `CalledOnTimeCorrect` for `StartedTimerFires`: a walk gets nearer
    to its end at every step, and a function is called at the walk its start asked for.
  * `HornEndsInTimeCorrect` and `AutoComesInTimeCorrect` for `HornGoesOff` and
    `AutoTurnsDetectionOn`: the timer that will do it is there, and has seen no more walks
    than its time.
  * `UpdateProgressesCorrect` for `UpdateEnds`: the update thread has at most 14 steps.
  * `BlocksOnlyInBodyCorrect` and `ResetNoticedSoonCorrect` for `SilenceNoticed` and
    `EndNoticed`: the thread blocks outside `select` only in the middle of a body, and a reset
    is at most five of its steps from the end of the connection.

Bounds and histories:

  * `CountNeverWrapsCorrect`: `mesg_nums` wraps only once the head has been taken.
  * `PendingBoundedCorrect`, `OneUntilOverlapCorrect` and `LeftoversRemovedCorrect` (video tasks):
    pending uploads stay within one of the limit, one task records, and files left over stay
    only while an upload is pending.
  * `PastMonthsClosedCorrect` and `NeverBelowCorrect` (flow): a month that is over keeps its
    total; no total falls below the mark of a failed read until one counter falls alone.
  * `NoSettingComesBackCorrect` and `UnpacksOnlyWholeCorrect` (maintenance): an older setting
    comes back only in a boot from a disk that the newer one had not reached; tar is only
    run on a whole tarball, but for `raced` and `blind`, whatever tar then makes of it.

Only model-checked: that something happens at all, which rests on fairness and `ENABLED`
(`PutReturns`, `EveryMessageTaken`, `StartedTimerFires`, `HornGoesOff`,
`AutoTurnsDetectionOn`, `EndNoticed`, `SilenceNoticed`, `UpdateEnds`, and the fairness part of
`ImplementsFifo` and `ImplementsInbox`), and the instances in which a property is violated
(`HeadNeverTaken`, `ManuStaysOff`, `AtMostOneRecording`).

## 5. What is not modelled

  * Failures of `malloc` and `pthread_create`, which the code hardly tests, and of mutex calls.
  * The thread that answers a request for the flow (`hy_flow_moniter.c` 430-500), but for what
    it reads; it frees its parameter twice.
  * The decode thread's frame counters and interval between alarms: any frame may raise one.
    The channel switch is never asked for.  A frame that fails to decode ends the thread for good.
  * A setting of detection areas for channel 0.  One for a channel above 1 is refused; the test
    at `hy_session_handler.c:504` lets 0 through, and line 509 copies it to
    `channel_detect_area[-1]`, over `starting`, `cur_channel` and what lies before them, which
    line 511 writes to `mv.config`.  What follows is undefined.  `DetectArea` has the
    settings for channel 1 only.
  * What the server receives: the length of the answer to an update request that is refused
    is an uninitialised variable.
  * `hy_serial_ctrl_protocol.c` and `check.c`, `onvif_tour.c`, `hy_channe_scheduler.c`: nothing calls
    them.  `hy_stop_thread` is called when SIGINT ends the process and not otherwise.
  * Memory: double frees, overlong messages.
  * The race on the global `addr` of `hy_mk60_ctrl.c`; a datagram sent to a half written
    address is one of those that are lost.
  * Short writes: `hy_write` starts the buffer again after one.  The sockets block, so
    that `write` takes all or fails.
  * The libraries below: libavformat, TI's codec, ONVIF stubs, iniparser, sqlite, zlog.
  * 4G status, device status and watchdog, which read and send and keep no state.

## 6. What could come next

 1. The frame counters of the decode loop, with the interval between two alarms, composed
    with `DetectArea` and `DetectCtrl`.
 2. `LiveView` and `VideoTask` composed: a stop of the live view kills a recording.
 3. `SerialCodec`, once something calls `hy_serial_ctrl_protocol.c`: packing, unpacking and CRC
    as recursive functions against a reference definition over short frames.
