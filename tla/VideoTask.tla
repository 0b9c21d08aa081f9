------------------------------ MODULE VideoTask ------------------------------
(***************************************************************************)
(* Video tasks: each request of the server for a recording starts a thread *)
(* that records a file with ffmpeg, uploads and removes it                 *)
(* (hy_data_handle_video_record_task of hy_file_manage.c).  The threads    *)
(* share hy_mv_record_flag, which lets one record at a time, and           *)
(* hy_mv_record_sending_cunt, which says whether files are still needed    *)
(* and reboots the device when too many are.  Nothing is locked.           *)
(*                                                                         *)
(* Each task has a file of its own: file names hold the second and the     *)
(* channel, and no two tasks of one channel start in one second here.      *)
(***************************************************************************)
EXTENDS Integers, FiniteSets

CONSTANTS
    Tasks,       \* the video task threads that can be alive at a time
    MaxSending,  \* the count above which the device is rebooted
    CuntWidth    \* hy_mv_record_sending_cunt counts modulo CuntWidth

ASSUME SendingAssumption == MaxSending \in Nat /\ CuntWidth \in Nat /\ CuntWidth > MaxSending
\* There are fewer threads than the count can hold.
ASSUME TasksAssumption == IsFiniteSet(Tasks) /\ Cardinality(Tasks) < CuntWidth

VARIABLES
    hy_mv_record_flag,
    hy_mv_record_sending_cunt,
    pc,         \* where each thread is, "free" if there is none
    cuntRead,   \* what it read for the ++ or the -- it is in
    file,       \* its file: "none", "there" or "removed" by another task
    leftovers,  \* are there files of tasks that could not connect?
    rebooting,  \* has the reboot command been given?
    overlap,    \* history: has a task been let in while another was recording?
    torn        \* history: have two ++ or -- run into each other?

shared == <<hy_mv_record_flag, hy_mv_record_sending_cunt>>
vars == <<shared, pc, cuntRead, file, leftovers, rebooting, overlap, torn>>

\* Where a thread has been let in by the flag and has not cleared it.
Inside == {"set", "limit", "reboot", "zero", "removeAll", "incRead", "incWrite",
           "record", "recording", "clear"}

\* Where a thread is counted in hy_mv_record_sending_cunt.
Counted == {"record", "recording", "clear", "connect", "send", "remove", "decRead",
            "decWrite"}

\* Between the read and the write of a ++ or a --.
Updating == {"incWrite", "decWrite"}

\* From the start of ffmpeg until the upload has ended.
Needed == {"recording", "clear", "connect", "send"}

At(places) == {t \in Tasks : pc[t] \in places}

TypeOK ==
    /\ hy_mv_record_flag \in BOOLEAN
    /\ hy_mv_record_sending_cunt \in 0..(CuntWidth - 1)
    /\ pc \in [Tasks -> {"free", "test"} \cup Inside \cup Counted]
    /\ cuntRead \in [Tasks -> 0..(CuntWidth - 1)]
    /\ file \in [Tasks -> {"none", "there", "removed"}]
    /\ leftovers \in BOOLEAN /\ rebooting \in BOOLEAN
    /\ overlap \in BOOLEAN /\ torn \in BOOLEAN

Init ==
    /\ hy_mv_record_flag = FALSE
    /\ hy_mv_record_sending_cunt = 0
    /\ pc = [t \in Tasks |-> "free"]
    /\ cuntRead = [t \in Tasks |-> 0]
    /\ file = [t \in Tasks |-> "none"]
    /\ leftovers = FALSE /\ rebooting = FALSE
    /\ overlap = FALSE /\ torn = FALSE

GoTo(t, place) == pc' = [pc EXCEPT ![t] = place]

\* The shell's rm on everything in the directory.
RemoveAllFiles ==
    /\ file' = [t \in Tasks |-> IF file[t] = "there" THEN "removed" ELSE file[t]]
    /\ leftovers' = FALSE
-----------------------------------------------------------------------------
\* A request for a video: the session thread answers and starts a thread.
NewTask(t) ==
    /\ pc[t] = "free"
    /\ GoTo(t, "test")
    /\ UNCHANGED <<shared, cuntRead, file, leftovers, rebooting, overlap, torn>>

\* The request is released: its channel does not exist, or a recording is
\* under way.
Release(t) ==
    /\ pc[t] = "test"
    /\ GoTo(t, "free")
    /\ UNCHANGED <<shared, cuntRead, file, leftovers, rebooting, overlap, torn>>

\* No recording is under way as far as the flag says.
PassFlag(t) ==
    /\ pc[t] = "test"
    /\ ~hy_mv_record_flag
    /\ GoTo(t, "set")
    /\ overlap' = (overlap \/ At(Inside) # {})
    /\ UNCHANGED <<shared, cuntRead, file, leftovers, rebooting, torn>>

SetFlag(t) ==
    /\ pc[t] = "set"
    /\ hy_mv_record_flag' = TRUE
    /\ GoTo(t, "limit")
    /\ UNCHANGED <<hy_mv_record_sending_cunt, cuntRead, file, leftovers, rebooting,
                   overlap, torn>>

\* Faulty TestLimit: off by one.
TestLimitEqual(t) ==
    /\ pc[t] = "limit"
    /\ GoTo(t, IF hy_mv_record_sending_cunt >= MaxSending THEN "reboot" ELSE "zero")
    /\ UNCHANGED <<shared, cuntRead, file, leftovers, rebooting, overlap, torn>>

\* Are too many uploads pending?
TestLimit(t) ==
    /\ pc[t] = "limit"
    /\ GoTo(t, IF hy_mv_record_sending_cunt > MaxSending THEN "reboot" ELSE "zero")
    /\ UNCHANGED <<shared, cuntRead, file, leftovers, rebooting, overlap, torn>>

\* Everything is removed and the device told to reboot; the thread goes on
\* until that happens.
CallReboot(t) ==
    /\ pc[t] = "reboot"
    /\ RemoveAllFiles
    /\ rebooting' = TRUE
    /\ GoTo(t, "zero")
    /\ UNCHANGED <<shared, cuntRead, overlap, torn>>

\* Faulty TestZero: what is left over is removed before every recording.
TestZeroAlways(t) ==
    /\ pc[t] = "zero"
    /\ GoTo(t, "removeAll")
    /\ UNCHANGED <<shared, cuntRead, file, leftovers, rebooting, overlap, torn>>

\* Is no upload pending, so that every file there is has been left over?
TestZero(t) ==
    /\ pc[t] = "zero"
    /\ GoTo(t, IF hy_mv_record_sending_cunt = 0 THEN "removeAll" ELSE "incRead")
    /\ UNCHANGED <<shared, cuntRead, file, leftovers, rebooting, overlap, torn>>

RemoveLeftovers(t) ==
    /\ pc[t] = "removeAll"
    /\ RemoveAllFiles
    /\ GoTo(t, "incRead")
    /\ UNCHANGED <<shared, cuntRead, rebooting, overlap, torn>>

\* The first half of a ++ or --.
ReadCount(t, from, to) ==
    /\ pc[t] = from
    /\ cuntRead' = [cuntRead EXCEPT ![t] = hy_mv_record_sending_cunt]
    /\ torn' = (torn \/ At(Updating) # {})
    /\ GoTo(t, to)
    /\ UNCHANGED <<shared, file, leftovers, rebooting, overlap>>

IncRead(t) == ReadCount(t, "incRead", "incWrite")

IncWrite(t) ==
    /\ pc[t] = "incWrite"
    /\ hy_mv_record_sending_cunt' = (cuntRead[t] + 1) % CuntWidth
    /\ cuntRead' = [cuntRead EXCEPT ![t] = 0]
    /\ GoTo(t, "record")
    /\ UNCHANGED <<hy_mv_record_flag, file, leftovers, rebooting, overlap, torn>>

\* ffmpeg runs in the foreground: it opens its file, or fails before it does.
StartRecording(t) ==
    /\ pc[t] = "record"
    /\ \E made \in {"none", "there"} : file' = [file EXCEPT ![t] = made]
    /\ GoTo(t, "recording")
    /\ UNCHANGED <<shared, cuntRead, leftovers, rebooting, overlap, torn>>

\* ffmpeg ends after the seconds asked for, on an error, or killed by a stop
\* of the live view (LiveView).
EndRecording(t) ==
    /\ pc[t] = "recording"
    /\ GoTo(t, "clear")
    /\ UNCHANGED <<shared, cuntRead, file, leftovers, rebooting, overlap, torn>>

\* Faulty ClearFlag: the flag is left set.
ClearFlagForgotten(t) ==
    /\ pc[t] = "clear"
    /\ GoTo(t, "connect")
    /\ UNCHANGED <<shared, cuntRead, file, leftovers, rebooting, overlap, torn>>

ClearFlag(t) ==
    /\ pc[t] = "clear"
    /\ hy_mv_record_flag' = FALSE
    /\ GoTo(t, "connect")
    /\ UNCHANGED <<hy_mv_record_sending_cunt, cuntRead, file, leftovers, rebooting,
                   overlap, torn>>

\* Faulty ConnectFails: the task is not uncounted.
ConnectFailsCounted(t) ==
    /\ pc[t] = "connect"
    /\ leftovers' = (leftovers \/ file[t] = "there")
    /\ file' = [file EXCEPT ![t] = "none"]
    /\ GoTo(t, "free")
    /\ UNCHANGED <<shared, cuntRead, rebooting, overlap, torn>>

\* The server cannot be reached: the file is left over.
ConnectFails(t) ==
    /\ pc[t] = "connect"
    /\ leftovers' = (leftovers \/ file[t] = "there")
    /\ file' = [file EXCEPT ![t] = "none"]
    /\ GoTo(t, "decRead")
    /\ UNCHANGED <<shared, cuntRead, rebooting, overlap, torn>>

ConnectSucceeds(t) ==
    /\ pc[t] = "connect"
    /\ GoTo(t, "send")
    /\ UNCHANGED <<shared, cuntRead, file, leftovers, rebooting, overlap, torn>>

\* Header and file are sent; the result of neither is looked at.
Send(t) ==
    /\ pc[t] = "send"
    /\ GoTo(t, "remove")
    /\ UNCHANGED <<shared, cuntRead, file, leftovers, rebooting, overlap, torn>>

RemoveOwn(t) ==
    /\ pc[t] = "remove"
    /\ file' = [file EXCEPT ![t] = "none"]
    /\ GoTo(t, "decRead")
    /\ UNCHANGED <<shared, cuntRead, leftovers, rebooting, overlap, torn>>

DecRead(t) == ReadCount(t, "decRead", "decWrite")

DecWrite(t) ==
    /\ pc[t] = "decWrite"
    /\ hy_mv_record_sending_cunt' = (cuntRead[t] - 1) % CuntWidth
    /\ cuntRead' = [cuntRead EXCEPT ![t] = 0]
    /\ GoTo(t, "free")
    /\ UNCHANGED <<hy_mv_record_flag, file, leftovers, rebooting, overlap, torn>>

\* The device reboots: the program starts again and removes every file.
Reboot ==
    /\ rebooting
    /\ hy_mv_record_flag' = FALSE
    /\ hy_mv_record_sending_cunt' = 0
    /\ pc' = [t \in Tasks |-> "free"]
    /\ cuntRead' = [t \in Tasks |-> 0]
    /\ file' = [t \in Tasks |-> "none"]
    /\ leftovers' = FALSE /\ rebooting' = FALSE
    /\ overlap' = FALSE /\ torn' = FALSE
-----------------------------------------------------------------------------
VideoTask(t) ==
    \/ Release(t) \/ PassFlag(t) \/ SetFlag(t)
    \/ TestLimit(t) \/ CallReboot(t) \/ TestZero(t) \/ RemoveLeftovers(t)
    \/ IncRead(t) \/ IncWrite(t)
    \/ StartRecording(t) \/ EndRecording(t) \/ ClearFlag(t)
    \/ ConnectFails(t) \/ ConnectSucceeds(t) \/ Send(t) \/ RemoveOwn(t)
    \/ DecRead(t) \/ DecWrite(t)

Next == (\E t \in Tasks : NewTask(t) \/ VideoTask(t)) \/ Reboot

Spec == Init /\ [][Next]_vars
-----------------------------------------------------------------------------
(* Properties.  The flag and the count are right until two tasks are       *)
(* let in together or two updates of the count run into each other.        *)

\* One ffmpeg records at a time, as the comment on hy_mv_record_flag says
\* (hy_file_manage.c:31): false in this program, which tests the flag at line
\* 522 and sets it at 533.
AtMostOneRecording == Cardinality(At({"recording"})) <= 1

\* Until two tasks overlap the flag is set exactly while one is between its two
\* assignments, and that is one task only (hy_file_manage.c:522-546).
FlagExact ==
    ~overlap => /\ Cardinality(At(Inside)) <= 1
                /\ hy_mv_record_flag = (At(Inside \ {"set"}) # {})

\* The count is the number of tasks between their ++ and their --
\* whatever way they take, until two updates run into each other
\* (hy_file_manage.c:544, 555, 587).
CountExact ==
    ~torn => hy_mv_record_sending_cunt = Cardinality(At(Counted)) % CuntWidth

\* rm *.mp4 takes the file of no task that still needs it: the count is zero
\* only when nobody does (hy_file_manage.c:539-542).
NeededFilesKept ==
    ~overlap /\ ~torn /\ ~rebooting => \A t \in At(Needed) : file[t] # "removed"

\* A thread takes the way to the reboot only when more uploads than the limit
\* are pending (hy_file_manage.c:534-538).
RebootJustified ==
    [][\A t \in Tasks :
         ~torn /\ pc[t] = "limit" /\ pc[t]' = "reboot"
           => Cardinality(At(Counted)) > MaxSending]_vars
=============================================================================
