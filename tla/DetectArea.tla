------------------------------ MODULE DetectArea ------------------------------
(***************************************************************************)
(* The detection areas of the camera that is analysed: the session thread  *)
(* overwrites them in memory and then in mv.config                         *)
(* (hy_session_handler.c:495-512, global_config.c:148-175), the decode     *)
(* thread copies them to the algorithm at each frame (decode.c:509-538),   *)
(* and a boot reads them back (global_config.c:82-146).  A setting is      *)
(* named by its number, 0 is that of no areas.  What ends the process and  *)
(* the device is in Maintenance.                                           *)
(***************************************************************************)
EXTENDS Integers

CONSTANTS
    MaxSettings,  \* bound on the settings the server sends
    MaxRect,      \* the number of rectangles there is room for
    RectCount     \* how many of them each setting has

ASSUME AreaBounds == MaxSettings \in Nat /\ MaxRect \in Nat
ASSUME RectCountAssumption ==
    /\ RectCount \in [0..MaxSettings -> 0..MaxRect]
    /\ RectCount[0] = 0

VARIABLES
    area,     \* channel_detect_area[0]: the setting each part of it is from
    spc,      \* where main's boot, and then the session thread is
    setting,  \* the last setting received: it is in mesg_buf while it is handled
    left,     \* the parts memcpy has not copied yet
    file,     \* mv.config as the program sees it
    disk,     \* what of it a loss of power leaves
    dpc,      \* where the decode thread is within a frame
    given,    \* yyPtr: the areas given to the algorithm
    idx,      \* i, the number of rectangles copied
    met,      \* history: the session thread has been in memcpy during this copy
    base,     \* history: the setting whose count this copy found first
    saved,    \* history: the setting last written to a file that is still there
    unsaved   \* history: the file could not be opened for the last setting

fileVars == <<file, disk, saved, unsaved>>
decodeVars == <<dpc, given, idx, met, base>>
areaVars == <<area, spc, setting, left, fileVars, decodeVars>>

Setting == 0..MaxSettings

\* Part 0 is the count, part i the i-th rectangle.
Part == 0..MaxRect
Whole(s) == [p \in Part |-> s]

\* yyPtr after its memset.
NoAreas == [set |-> FALSE, count |-> 0, rect |-> [i \in 1..MaxRect |-> 0]]

\* mv.config: missing, shorter than hy_detect_info_t, or with the areas of one.
Content == [size : {"none", "short", "full"}, area : [Part -> Setting]]
NoFile == [size |-> "none", area |-> Whole(0)]
ShortFile == [size |-> "short", area |-> Whole(0)]
FileWith(a) == [size |-> "full", area |-> a]

AreaTypeOK ==
    /\ area \in [Part -> Setting]
    /\ spc \in {"boot", "init", "idle", "copy", "open", "write"}
    /\ setting \in Setting
    /\ left \subseteq Part
    /\ file \in Content /\ disk \in Content
    /\ dpc \in {"off", "test", "count", "rects", "analyse"}
    /\ given \in [set : BOOLEAN, count : 0..MaxRect, rect : [1..MaxRect -> Setting]]
    /\ idx \in 0..MaxRect
    /\ met \in BOOLEAN /\ base \in Setting
    /\ saved \in Setting /\ unsaved \in BOOLEAN

\* The device is switched on for the first time.
AreaInit ==
    /\ area = Whole(0)
    /\ spc = "boot"
    /\ setting = 0 /\ left = {}
    /\ file = NoFile /\ disk = NoFile
    /\ dpc = "off" /\ given = NoAreas /\ idx = 0
    /\ met = FALSE /\ base = 0
    /\ saved = 0 /\ unsaved = FALSE
-----------------------------------------------------------------------------
(* parse_detect_info_file, before any thread is started.                   *)

\* The file is created empty, or is found too short.
BootReinit ==
    /\ spc = "boot"
    /\ file.size # "full"
    /\ file' = ShortFile
    /\ spc' = "init"
    /\ UNCHANGED <<area, setting, left, disk, saved, unsaved, decodeVars>>

\* It is filled with no areas; then the threads are started.
BootInit ==
    /\ spc = "init"
    /\ area' = Whole(0)
    /\ file' = FileWith(Whole(0))
    /\ spc' = "idle"
    /\ dpc' = "test"
    /\ UNCHANGED <<setting, left, disk, saved, unsaved, given, idx, met, base>>

\* Faulty BootRead: the areas are cleared whatever the file holds.
BootReadNothing ==
    /\ spc = "boot"
    /\ file.size = "full"
    /\ area' = Whole(0)
    /\ file' = FileWith(Whole(0))
    /\ spc' = "idle"
    /\ dpc' = "test"
    /\ UNCHANGED <<setting, left, disk, saved, unsaved, given, idx, met, base>>

BootRead ==
    /\ spc = "boot"
    /\ file.size = "full"
    /\ area' = file.area
    /\ spc' = "idle"
    /\ dpc' = "test"
    /\ UNCHANGED <<setting, left, fileVars, given, idx, met, base>>
-----------------------------------------------------------------------------
(* The session thread: hy_sig_handle_set_detect_area.                      *)

Copying == dpc \in {"count", "rects"}

\* The answer is sent before anything is done (497-501).  A setting for a channel
\* above 1, or with too many rectangles, ends here and changes nothing.  One for
\* channel 0 passes the test (504), and the memcpy then writes before the array: what
\* that does is undefined and not modelled.
RecvArea ==
    /\ spc = "idle"
    /\ setting < MaxSettings
    /\ setting' = setting + 1
    /\ left' = Part
    /\ spc' = "copy"
    /\ met' = (met \/ Copying)
    /\ UNCHANGED <<area, fileVars, dpc, given, idx, base>>

\* memcpy, in whatever order it copies.
CopyArea(p) ==
    /\ spc = "copy"
    /\ p \in left
    /\ area' = [area EXCEPT ![p] = setting]
    /\ left' = left \ {p}
    /\ spc' = IF left' = {} THEN "open" ELSE "copy"
    /\ UNCHANGED <<setting, fileVars, decodeVars>>

\* fopen "rb+": what is in the file stays until it is overwritten.
OpenFile ==
    /\ spc = "open"
    /\ file.size # "none"
    /\ spc' = "write"
    /\ UNCHANGED <<area, setting, left, fileVars, decodeVars>>

\* It fails, and nobody looks at what update_detect_info_file returns.
OpenFails ==
    /\ spc = "open"
    /\ spc' = "idle"
    /\ unsaved' = TRUE
    /\ UNCHANGED <<area, setting, left, file, disk, saved, decodeVars>>

\* fwrite fills the stream's buffer, fclose writes it in one call.
WriteFile ==
    /\ spc = "write"
    /\ file' = FileWith(area)
    /\ saved' = setting
    /\ unsaved' = FALSE
    /\ spc' = "idle"
    /\ UNCHANGED <<area, setting, left, disk, decodeVars>>

\* The kernel writes the file back when it likes: there is no fsync.
WriteBack ==
    /\ disk # file
    /\ disk' = file
    /\ UNCHANGED <<area, spc, setting, left, file, saved, unsaved, decodeVars>>
-----------------------------------------------------------------------------
(* The decode thread.                                                      *)

\* Faulty CopyTest: what the last frame was given is not cleared.
CopyTestNoClear ==
    /\ dpc = "test"
    /\ base' = area[0]
    /\ met' = (spc = "copy")
    /\ IF RectCount[area[0]] = 0
       THEN dpc' = "analyse" /\ UNCHANGED given
       ELSE dpc' = "count" /\ given' = [given EXCEPT !.set = TRUE]
    /\ UNCHANGED <<area, spc, setting, left, fileVars, idx>>

\* memset (509), and the test for any rectangles (513).
CopyTest ==
    /\ dpc = "test"
    /\ base' = area[0]
    /\ met' = (spc = "copy")
    /\ given' = [NoAreas EXCEPT !.set = RectCount[area[0]] # 0]
    /\ dpc' = IF RectCount[area[0]] = 0 THEN "analyse" ELSE "count"
    /\ UNCHANGED <<area, spc, setting, left, fileVars, idx>>

\* The count is read again (522).
CopyCount ==
    /\ dpc = "count"
    /\ given' = [given EXCEPT !.count = RectCount[area[0]]]
    /\ idx' = 0
    /\ dpc' = "rects"
    /\ UNCHANGED <<area, spc, setting, left, fileVars, met, base>>

\* A rectangle is copied (523-534).
CopyRect ==
    /\ dpc = "rects"
    /\ idx < given.count
    /\ given' = [given EXCEPT !.rect[idx + 1] = area[idx + 1]]
    /\ idx' = idx + 1
    /\ UNCHANGED <<area, spc, setting, left, fileVars, dpc, met, base>>

CopyEnds ==
    /\ dpc = "rects"
    /\ idx = given.count
    /\ dpc' = "analyse"
    /\ UNCHANGED <<area, spc, setting, left, fileVars, given, idx, met, base>>

\* Venc_process (538), and the next frame.  A frame with detection off, or before
\* the first I frame, copies nothing.
Analyse ==
    /\ dpc = "analyse"
    /\ dpc' = "test"
    /\ UNCHANGED <<area, spc, setting, left, fileVars, given, idx, met, base>>

DecodeThread == CopyTest \/ CopyCount \/ CopyRect \/ CopyEnds \/ Analyse
=============================================================================
