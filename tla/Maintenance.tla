----------------------------- MODULE Maintenance -----------------------------
(***************************************************************************)
(* What outlives the process: the settings of the detection areas and the  *)
(* program itself.  DetectArea and Update are composed: one session thread *)
(* serves both, an update or a request ends in a reboot while the other    *)
(* threads go on, and the power fails at any point.                        *)
(***************************************************************************)
EXTENDS DetectArea, Update

CONSTANTS
    MaxRequests,  \* bound on the requests of the server
    MaxResets     \* bound on the reboots and losses of power

ASSUME MaintenanceBounds == MaxRequests \in Nat /\ MaxResets \in Nat

VARIABLES
    requests,  \* how many requests there have been
    resets     \* how many reboots and losses of power

vars == <<areaVars, updateVars, requests, resets>>

TypeOK ==
    /\ AreaTypeOK /\ UpdateTypeOK
    /\ requests \in 0..MaxRequests
    /\ resets \in 0..MaxResets

Init ==
    /\ AreaInit /\ UpdateInit
    /\ requests = 0 /\ resets = 0
-----------------------------------------------------------------------------
(* The session thread, one request at a time.                              *)

Request == requests < MaxRequests /\ requests' = requests + 1

SetArea == Request /\ RecvArea /\ UNCHANGED <<updateVars, resets>>

RequestUpdate ==
    /\ Request
    /\ spc = "idle"
    /\ \E u \in Updates : NewUpdate(u)
    /\ UNCHANGED <<areaVars, resets>>

\* hy_sig_handle_reboot; a video task that finds too many uploads does the same.
RequestReboot ==
    /\ Request
    /\ spc = "idle"
    /\ rebooting' = TRUE
    /\ UNCHANGED <<areaVars, flag, upc, tar, md5, prog, raced, blind, cut, resets>>
-----------------------------------------------------------------------------
(* The end of the process.                                                 *)

\* What it held in memory is gone; main begins anew.
ProcessGone ==
    /\ resets < MaxResets /\ resets' = resets + 1
    /\ area' = Whole(0)
    /\ spc' = "boot" /\ left' = {}
    /\ dpc' = "off" /\ given' = NoAreas /\ idx' = 0
    /\ met' = FALSE /\ base' = 0
    /\ unsaved' = FALSE
    /\ flag' = 0 /\ upc' = [u \in Updates |-> "none"]
    /\ rebooting' = FALSE
    /\ UNCHANGED <<setting, requests, raced, blind>>

CutShort == \E u \in Updates : upc[u] = "unpacking"

\* reboot has got as far as to kill the process and to write back the files.
Reboot ==
    /\ rebooting
    /\ ProcessGone
    /\ disk' = file
    /\ prog' = IF prog = "new" THEN "old" ELSE prog
    /\ cut' = (cut \/ CutShort)
    /\ UNCHANGED <<file, saved, tar, md5>>

\* The power fails, or the watchdog resets the board: what has not been written
\* back is lost.  Of a program just unpacked that can be all, nothing or some.
PowerLoss ==
    /\ ProcessGone
    /\ file' = disk
    /\ saved' = disk.area[0]
    /\ prog' \in (IF prog = "new" THEN {"old", "part"} ELSE {prog})
    /\ cut' = (cut \/ CutShort \/ (prog = "new" /\ prog' = "part"))
    /\ UNCHANGED <<disk, tar, md5>>
-----------------------------------------------------------------------------
AreaStep ==
    /\ \/ BootReinit \/ BootInit \/ BootRead
       \/ \E p \in Part : CopyArea(p)
       \/ OpenFile \/ OpenFails \/ WriteFile \/ WriteBack
       \/ DecodeThread
    /\ UNCHANGED <<updateVars, requests, resets>>

UpdateStep ==
    /\ \E u \in Updates : UpdateThread(u)
    /\ UNCHANGED <<areaVars, requests, resets>>

Next ==
    \/ SetArea \/ RequestUpdate \/ RequestReboot
    \/ AreaStep \/ UpdateStep
    \/ Reboot \/ PowerLoss

Spec == Init /\ [][Next]_vars

\* The update threads are scheduled, and ping and wget give up some day: wget
\* waits 900 seconds for an answer and tries 20 times.
FairSpec == Spec /\ WF_vars(UpdateStep)
-----------------------------------------------------------------------------
(* Properties.                                                             *)

\* What a frame is analysed with if all of its areas are from one setting.
GivenBy(s) == [set |-> RectCount[s] # 0, count |-> RectCount[s],
               rect |-> [i \in 1..MaxRect |-> IF i <= RectCount[s] THEN s ELSE 0]]

\* A frame is analysed with the count and the rectangles of one setting, unless
\* the session thread's memcpy has met the copy (decode.c:509-535,
\* hy_session_handler.c:509).
AreasOfOneSetting == dpc = "analyse" /\ ~met => given = GivenBy(base)

\* Between two settings the areas in memory are those last written to mv.config,
\* through reboots at any point of a rewrite, and after a loss of power those that
\* had been written back (global_config.c:82-175).
AreasSurvive == spc = "idle" /\ ~unsaved => area = Whole(saved)

\* A second update is let in only between the test of the flag and its setting
\* (hy_session_handler.c:426, hy_update.c:101).
OnlyOneUpdate ==
    ~raced => \A u, v \in Updates : Alive(u) /\ Alive(v) => u = v

\* However updates end and overlap, the flag does not stay set without one: the
\* next request is let in (hy_update.c:107, 122, 130, 144).
LetsNextIn == (\A u \in Updates : ~Alive(u)) => flag = 0

\* The device starts half a program only if an unpacking of a whole tarball was
\* stopped before its end, from which the code has no protection: tar failed
\* (hy_update.c:140 ignores it and 142 reboots), or the process or the board went
\* down.  A tarball that has come in part is not unpacked, however the downloads and
\* the removals fail, unless the update was let in beside another or compared a
\* digest that it could not read (hy_update.c:111-141).
NoHalfProgram == spc = "boot" /\ prog = "part" => cut \/ raced \/ blind

\* The flag is cleared some day, whatever the server and the network do.
UpdateEnds == flag = 1 ~> flag = 0
=============================================================================
