-------------------------- MODULE MaintenanceProofs --------------------------
(***************************************************************************)
(* Proofs about Maintenance, for any number of updates, settings, requests *)
(* and resets.                                                             *)
(***************************************************************************)
EXTENDS Maintenance, TLAPS

\* What is kept of the settings: outside a memcpy the areas in memory are those of
\* one setting, the files hold one setting or none at all, and mv.config the one
\* that saved names.
Kept ==
    /\ spc = "copy" => \A p \in Part \ left : area[p] = setting
    /\ spc \in {"open", "write"} => area = Whole(setting)
    /\ spc \in {"idle", "boot", "init"} => area = Whole(area[0])
    /\ spc \in {"boot", "init"} => dpc = "off"
    /\ spc = "init" => saved = 0
    /\ disk.area = Whole(disk.area[0]) /\ file.area = Whole(saved)
    /\ file.size # "full" => file.area = Whole(0)
    /\ disk.size # "full" => disk.area = Whole(0)

\* What the decode thread has copied so far, if no memcpy has met it.
Progress(n) == \A i \in 1..MaxRect : given.rect[i] = IF i <= n THEN base ELSE 0
Copied ==
    ~met =>
      /\ Copying => area = Whole(base) /\ RectCount[base] # 0 /\ given.set = TRUE
      /\ dpc = "count" => Progress(0)
      /\ dpc = "rects" => /\ given.count = RectCount[base]
                          /\ idx <= RectCount[base]
                          /\ Progress(idx)
      /\ dpc = "analyse" => /\ given.set = (RectCount[base] # 0)
                            /\ given.count = RectCount[base]
                            /\ Progress(RectCount[base])

\* While a copy is under way, the session thread is in memcpy only if it is met.
Meets == Copying /\ spc = "copy" => met

AreaInv == AreaTypeOK /\ Kept /\ Copied /\ Meets /\ AreasSurvive

\* The flag is set for every update that has got past its setting.
FlagHeld == ~raced => \A u \in Updates : Alive(u) /\ upc[u] # "set" => flag = 1

\* A boot starts no update.
NoneAtBoot == spc \in {"boot", "init"} => \A u \in Updates : ~Alive(u)

\* A half program is there while a whole tarball is unpacked, or since an unpacking
\* was cut; and only a whole tarball is unpacked.
Unpacks ==
    ~raced /\ ~blind =>
      /\ prog = "part" => cut \/ CutShort
      /\ \A u \in Updates : /\ upc[u] \in {"unpack", "unpacking"} => tar.data = "whole"
                            /\ upc[u] # "spoiling"

UpdateInv ==
    UpdateTypeOK /\ OnlyOneUpdate /\ FlagHeld /\ LetsNextIn /\ NoneAtBoot /\ Unpacks

IInv == TypeOK /\ AreaInv /\ UpdateInv
-----------------------------------------------------------------------------
(* The areas.                                                              *)

\* Whole(s) holds s in every part, the first included.
LEMMA WholeFacts ==
  /\ 0 \in Part /\ 0 \in Setting
  /\ \A s \in Setting : Whole(s) \in [Part -> Setting] /\ Whole(s)[0] = s
  BY AreaBounds DEF Whole, Part, Setting

\* What the files can hold.
LEMMA FileFacts ==
  /\ NoFile \in Content /\ NoFile.size = "none" /\ NoFile.area = Whole(0)
  /\ ShortFile \in Content /\ ShortFile.size = "short" /\ ShortFile.area = Whole(0)
  /\ \A a \in [Part -> Setting] :
       FileWith(a) \in Content /\ FileWith(a).size = "full" /\ FileWith(a).area = a
  /\ \A f \in Content : f.area \in [Part -> Setting]
  BY WholeFacts DEF NoFile, ShortFile, FileWith, Content

\* What the algorithm can be given, as a set and as the frame begins.
GivenAreas == [set : BOOLEAN, count : 0..MaxRect, rect : [1..MaxRect -> Setting]]

LEMMA NoAreasFacts ==
  /\ NoAreas \in GivenAreas
  /\ \A b \in BOOLEAN : [NoAreas EXCEPT !.set = b] \in GivenAreas
  BY AreaBounds DEF NoAreas, GivenAreas, Setting

LEMMA AreaInitInv == AreaInit => AreaInv
<1> SUFFICES ASSUME AreaInit PROVE AreaInv
  OBVIOUS
<1>1. AreaTypeOK
  <2>1. Whole(0) \in [Part -> Setting] /\ NoAreas \in GivenAreas /\ 0 \in 0..MaxRect
    BY AreaBounds, WholeFacts, NoAreasFacts
  <2> QED BY <2>1, WholeFacts, FileFacts DEF AreaInit, AreaTypeOK, GivenAreas
<1>2. Kept
  BY WholeFacts, FileFacts DEF AreaInit, Kept
<1> QED BY <1>1, <1>2 DEF AreaInit, AreaInv, Copied, Meets, AreasSurvive, Copying

LEMMA CopiedKept ==
  ASSUME Copied, UNCHANGED <<dpc, given, idx, base>>, met => met',
         Copying /\ ~met' => UNCHANGED area
  PROVE  Copied'
  BY DEF Copied, Progress, Copying, Whole

LEMMA BootReinitInv == ASSUME AreaInv, BootReinit PROVE AreaInv'
<1> USE DEF AreaInv, fileVars, decodeVars
<1>1. AreaTypeOK'
  BY AreaBounds, WholeFacts, FileFacts DEF BootReinit, AreaTypeOK, Setting
<1>2. Kept' /\ AreasSurvive'
  BY WholeFacts, FileFacts DEF BootReinit, AreaTypeOK, Kept, AreasSurvive
<1>3. Meets'
  BY DEF BootReinit, AreaTypeOK, Kept, Meets, Copying
<1>4. Copied'
  BY CopiedKept DEF BootReinit, Kept, Copying, Meets
<1> QED BY <1>1, <1>2, <1>3, <1>4

LEMMA BootInitInv == ASSUME AreaInv, BootInit PROVE AreaInv'
<1> USE DEF AreaInv, fileVars, decodeVars
<1>1. AreaTypeOK'
  BY AreaBounds, WholeFacts, FileFacts DEF BootInit, AreaTypeOK, Setting
<1>2. Kept' /\ AreasSurvive'
  BY WholeFacts, FileFacts DEF BootInit, AreaTypeOK, Kept, AreasSurvive
<1>3. Meets'
  BY DEF BootInit, AreaTypeOK, Kept, Meets, Copying
<1>4. Copied'
  BY DEF BootInit, Kept, Copied, Copying
<1> QED BY <1>1, <1>2, <1>3, <1>4

LEMMA BootReadInv == ASSUME AreaInv, BootRead PROVE AreaInv'
<1> USE DEF AreaInv, fileVars, decodeVars
<1>1. AreaTypeOK'
  BY AreaBounds, WholeFacts, FileFacts DEF BootRead, AreaTypeOK, Setting
<1>2. Kept' /\ AreasSurvive'
  BY WholeFacts, FileFacts DEF BootRead, AreaTypeOK, Kept, AreasSurvive
<1>3. Meets'
  BY DEF BootRead, AreaTypeOK, Kept, Meets, Copying
<1>4. Copied'
  BY DEF BootRead, Kept, Copied, Copying
<1> QED BY <1>1, <1>2, <1>3, <1>4

LEMMA RecvAreaInv == ASSUME AreaInv, RecvArea PROVE AreaInv'
<1> USE DEF AreaInv, fileVars, decodeVars
<1>1. AreaTypeOK'
  BY AreaBounds, WholeFacts, FileFacts DEF RecvArea, AreaTypeOK, Setting
<1>2. Kept' /\ AreasSurvive'
  BY WholeFacts, FileFacts DEF RecvArea, AreaTypeOK, Kept, AreasSurvive
<1>3. Meets'
  BY DEF RecvArea, AreaTypeOK, Kept, Meets, Copying
<1>4. Copied'
  BY CopiedKept DEF RecvArea, Kept, Copying, Meets
<1> QED BY <1>1, <1>2, <1>3, <1>4

LEMMA CopyAreaInv == ASSUME AreaInv, NEW p \in Part, CopyArea(p) PROVE AreaInv'
<1> USE DEF AreaInv, fileVars, decodeVars
<1>1. AreaTypeOK'
  BY AreaBounds, WholeFacts, FileFacts DEF CopyArea, AreaTypeOK, Setting
<1>2. Kept' /\ AreasSurvive'
  <2>1. left' = {} => area' = Whole(setting)
    BY DEF CopyArea, AreaTypeOK, Kept, Whole
  <2> QED BY <2>1 DEF CopyArea, AreaTypeOK, Kept, AreasSurvive
<1>3. Meets'
  BY DEF CopyArea, AreaTypeOK, Kept, Meets, Copying
<1>4. Copied'
  BY CopiedKept DEF CopyArea, Kept, Copying, Meets
<1> QED BY <1>1, <1>2, <1>3, <1>4

LEMMA OpenFileInv == ASSUME AreaInv, OpenFile PROVE AreaInv'
<1> USE DEF AreaInv, fileVars, decodeVars
<1>1. AreaTypeOK'
  BY AreaBounds, WholeFacts, FileFacts DEF OpenFile, AreaTypeOK, Setting
<1>2. Kept' /\ AreasSurvive'
  BY WholeFacts, FileFacts DEF OpenFile, AreaTypeOK, Kept, AreasSurvive
<1>3. Meets'
  BY DEF OpenFile, AreaTypeOK, Kept, Meets, Copying
<1>4. Copied'
  BY CopiedKept DEF OpenFile, Kept, Copying, Meets
<1> QED BY <1>1, <1>2, <1>3, <1>4

LEMMA OpenFailsInv == ASSUME AreaInv, OpenFails PROVE AreaInv'
<1> USE DEF AreaInv, fileVars, decodeVars
<1>1. AreaTypeOK'
  BY AreaBounds, WholeFacts, FileFacts DEF OpenFails, AreaTypeOK, Setting
<1>2. Kept' /\ AreasSurvive'
  BY WholeFacts, FileFacts DEF OpenFails, AreaTypeOK, Kept, AreasSurvive
<1>3. Meets'
  BY DEF OpenFails, AreaTypeOK, Kept, Meets, Copying
<1>4. Copied'
  BY CopiedKept DEF OpenFails, Kept, Copying, Meets
<1> QED BY <1>1, <1>2, <1>3, <1>4

LEMMA WriteFileInv == ASSUME AreaInv, WriteFile PROVE AreaInv'
<1> USE DEF AreaInv, fileVars, decodeVars
<1>1. AreaTypeOK'
  BY AreaBounds, WholeFacts, FileFacts DEF WriteFile, AreaTypeOK, Setting
<1>2. Kept' /\ AreasSurvive'
  BY WholeFacts, FileFacts DEF WriteFile, AreaTypeOK, Kept, AreasSurvive
<1>3. Meets'
  BY DEF WriteFile, AreaTypeOK, Kept, Meets, Copying
<1>4. Copied'
  BY CopiedKept DEF WriteFile, Kept, Copying, Meets
<1> QED BY <1>1, <1>2, <1>3, <1>4

LEMMA WriteBackInv == ASSUME AreaInv, WriteBack PROVE AreaInv'
<1> USE DEF AreaInv, fileVars, decodeVars
<1>1. AreaTypeOK'
  BY AreaBounds, WholeFacts, FileFacts DEF WriteBack, AreaTypeOK, Setting
<1>2. Kept' /\ AreasSurvive'
  BY WholeFacts, FileFacts DEF WriteBack, AreaTypeOK, Kept, AreasSurvive
<1>3. Meets'
  BY DEF WriteBack, AreaTypeOK, Kept, Meets, Copying
<1>4. Copied'
  BY CopiedKept DEF WriteBack, Kept, Copying, Meets
<1> QED BY <1>1, <1>2, <1>3, <1>4

LEMMA CopyTestInv == ASSUME AreaInv, CopyTest PROVE AreaInv'
<1> USE DEF AreaInv, fileVars, decodeVars
<1>1. AreaTypeOK'
  BY NoAreasFacts, WholeFacts DEF CopyTest, AreaTypeOK, GivenAreas
<1>2. Kept' /\ AreasSurvive'
  BY DEF CopyTest, Kept, AreasSurvive, Whole
<1>3. Meets'
  BY DEF CopyTest, Meets, Copying
<1>4. Copied'
  <2>1. /\ given'.set = (RectCount[area[0]] # 0) /\ given'.count = 0
        /\ \A i \in 1..MaxRect : given'.rect[i] = 0
    BY DEF CopyTest, NoAreas
  <2>2. ~met' => area' = Whole(base')
    BY WholeFacts DEF CopyTest, AreaTypeOK, Kept
  <2>3. /\ base' = area[0] /\ area' = area
        /\ dpc' = IF RectCount[area[0]] = 0 THEN "analyse" ELSE "count"
    BY DEF CopyTest
  <2>4. CASE RectCount[area[0]] = 0
    BY <2>1, <2>3, <2>4 DEF Copied, Progress, Copying
  <2>5. CASE RectCount[area[0]] # 0
    <3>1. given'.set = TRUE
      BY <2>1, <2>5
    <3>2. dpc' = "count" /\ RectCount[base'] # 0
      BY <2>3, <2>5
    <3>3. Progress(0)'
      BY <2>1 DEF Progress
    <3>4. ~met' => (area = Whole(base))'
      BY <2>2
    <3> QED BY <3>1, <3>2, <3>3, <3>4 DEF Copied
  <2> QED BY <2>4, <2>5
<1> QED BY <1>1, <1>2, <1>3, <1>4

LEMMA CopyCountInv == ASSUME AreaInv, CopyCount PROVE AreaInv'
<1> USE DEF AreaInv, fileVars, decodeVars
<1>1. AreaTypeOK'
  <2>1. RectCount[area[0]] \in 0..MaxRect
    BY RectCountAssumption, WholeFacts DEF AreaTypeOK, Setting
  <2>2. [given EXCEPT !.count = RectCount[area[0]]] \in GivenAreas
    BY <2>1 DEF AreaTypeOK, GivenAreas
  <2> QED BY <2>2, AreaBounds DEF CopyCount, AreaTypeOK, GivenAreas
<1>2. Kept' /\ AreasSurvive'
  BY DEF CopyCount, Kept, AreasSurvive, Whole
<1>3. Meets'
  BY DEF CopyCount, Meets, Copying
<1>4. Copied'
  <2>1. /\ given'.set = given.set /\ given'.count = RectCount[area[0]]
        /\ given'.rect = given.rect
    BY DEF CopyCount, AreaTypeOK
  <2>2. area = Whole(base) => area[0] = base /\ RectCount[base] \in 0..MaxRect
    BY WholeFacts, RectCountAssumption DEF AreaTypeOK, Setting
  <2> QED BY <2>1, <2>2 DEF CopyCount, Copied, Progress, Copying, Whole
<1> QED BY <1>1, <1>2, <1>3, <1>4

LEMMA CopyRectInv == ASSUME AreaInv, CopyRect PROVE AreaInv'
<1> USE DEF AreaInv, fileVars, decodeVars
<1>1. AreaTypeOK'
  <2>1. idx + 1 \in 1..MaxRect /\ area[idx + 1] \in Setting
    BY AreaBounds DEF CopyRect, AreaTypeOK, Part
  <2>2. [given EXCEPT !.rect[idx + 1] = area[idx + 1]] \in GivenAreas
    BY <2>1 DEF AreaTypeOK, GivenAreas
  <2> QED BY <2>1, <2>2 DEF CopyRect, AreaTypeOK, GivenAreas
<1>2. Kept' /\ AreasSurvive'
  BY DEF CopyRect, Kept, AreasSurvive, Whole
<1>3. Meets'
  BY DEF CopyRect, Meets, Copying
<1>4. Copied'
  BY AreaBounds, RectCountAssumption DEF CopyRect, AreaTypeOK, Copied, Progress, Copying, Whole, Part
<1> QED BY <1>1, <1>2, <1>3, <1>4

LEMMA CopyEndsInv == ASSUME AreaInv, CopyEnds PROVE AreaInv'
<1> USE DEF AreaInv, fileVars, decodeVars
<1>1. AreaTypeOK'
  BY DEF CopyEnds, AreaTypeOK
<1>2. Kept' /\ AreasSurvive'
  BY DEF CopyEnds, Kept, AreasSurvive, Whole
<1>3. Meets'
  BY DEF CopyEnds, Meets, Copying
<1>4. Copied'
  BY DEF CopyEnds, Copied, Progress, Copying
<1> QED BY <1>1, <1>2, <1>3, <1>4

LEMMA AnalyseInv == ASSUME AreaInv, Analyse PROVE AreaInv'
<1> USE DEF AreaInv, fileVars, decodeVars
<1>1. AreaTypeOK'
  BY DEF Analyse, AreaTypeOK
<1>2. Kept' /\ AreasSurvive'
  BY DEF Analyse, Kept, AreasSurvive, Whole
<1>3. Meets'
  BY DEF Analyse, Meets, Copying
<1>4. Copied'
  BY DEF Analyse, Copied, Copying
<1> QED BY <1>1, <1>2, <1>3, <1>4

\* The end of the process takes what is in memory with it; what comes back is in
\* the file.
LEMMA AreaResetInv == ASSUME AreaInv, Reboot \/ PowerLoss PROVE AreaInv'
<1> USE DEF AreaInv
<1>1. file' \in Content /\ disk' \in Content /\ saved' \in Setting
  BY WholeFacts, FileFacts DEF Reboot, PowerLoss, AreaTypeOK
<1>2. /\ area' = Whole(0) /\ spc' = "boot" /\ left' = {} /\ dpc' = "off"
      /\ given' = NoAreas /\ idx' = 0 /\ met' = FALSE /\ base' = 0
      /\ unsaved' = FALSE /\ setting' = setting
  BY DEF Reboot, PowerLoss, ProcessGone
<1>3. AreaTypeOK'
  <2>1. NoAreas \in GivenAreas /\ Whole(0) \in [Part -> Setting] /\ 0 \in 0..MaxRect
    BY AreaBounds, WholeFacts, NoAreasFacts
  <2> QED BY <1>1, <1>2, <2>1, WholeFacts DEF AreaTypeOK, GivenAreas
<1>4. Kept' /\ AreasSurvive'
  <2>1. Whole(0) = Whole(Whole(0)[0])
    BY WholeFacts
  <2>2. CASE Reboot
    <3>1. file.area = Whole(file.area[0])
      BY WholeFacts DEF AreaTypeOK, Kept
    <3> QED BY <1>2, <2>1, <2>2, <3>1 DEF Reboot, Kept, AreasSurvive
  <2>3. CASE PowerLoss
    BY <1>2, <2>1, <2>3 DEF PowerLoss, Kept, AreasSurvive
  <2> QED BY <2>2, <2>3
<1>5. Copied' /\ Meets'
  BY <1>2 DEF Copied, Meets, Copying
<1> QED BY <1>3, <1>4, <1>5

LEMMA AreaSameInv == ASSUME AreaInv, UNCHANGED areaVars PROVE AreaInv'
  BY DEF AreaInv, areaVars, fileVars, decodeVars, AreaTypeOK, Kept, Copied, Progress, Meets,
         Copying, AreasSurvive, Whole

\* Every step of Maintenance preserves what is known of the areas.
LEMMA AreaInvStep == ASSUME AreaInv, [Next]_vars PROVE AreaInv'
<1>1. CASE SetArea
  BY <1>1, RecvAreaInv DEF SetArea
<1>2. CASE RequestUpdate \/ RequestReboot \/ UpdateStep \/ UNCHANGED vars
  BY <1>2, AreaSameInv DEF RequestUpdate, RequestReboot, UpdateStep, vars
<1>3. CASE AreaStep
  BY <1>3, BootReinitInv, BootInitInv, BootReadInv, CopyAreaInv, OpenFileInv, OpenFailsInv,
     WriteFileInv, WriteBackInv, CopyTestInv, CopyCountInv, CopyRectInv, CopyEndsInv, AnalyseInv
  DEF AreaStep, DecodeThread
<1>4. CASE Reboot \/ PowerLoss
  BY <1>4, AreaResetInv
<1> QED BY <1>1, <1>2, <1>3, <1>4 DEF Next

\* What has been copied whole is what GivenBy says.
LEMMA CopiedWhole == AreaInv => AreasOfOneSetting
<1> SUFFICES ASSUME AreaInv, dpc = "analyse", ~met PROVE given = GivenBy(base)
  BY DEF AreasOfOneSetting
<1>1. given \in GivenAreas
  BY DEF AreaInv, AreaTypeOK, GivenAreas
<1>2. /\ given.set = (RectCount[base] # 0) /\ given.count = RectCount[base]
      /\ Progress(RectCount[base])
  BY DEF AreaInv, Copied
<1>3. given.rect = [i \in 1..MaxRect |-> IF i <= RectCount[base] THEN base ELSE 0]
  BY <1>1, <1>2 DEF Progress, GivenAreas
<1> QED BY <1>1, <1>2, <1>3 DEF GivenBy, GivenAreas
-----------------------------------------------------------------------------
(* The updates.                                                            *)

\* The files of wget.
LEMMA FetchFacts ==
  /\ Absent \in File /\ Absent.data = "absent"
  /\ \A f \in File, u \in Updates : Created(f, u) \in File
  /\ \A f \in File, u \in Updates, data \in Fetched : Grown(f, u, data) \in File
  BY DEF Absent, File, Fetched, Created, Grown

LEMMA UpdateInitInv == UpdateInit /\ spc = "boot" => UpdateInv
  BY FetchFacts DEF UpdateInit, UpdateInv, UpdateTypeOK, OnlyOneUpdate, FlagHeld, LetsNextIn,
                    NoneAtBoot, Unpacks, CutShort, Alive

LEMMA NewUpdateInv ==
  ASSUME UpdateInv, NEW u \in Updates, NewUpdate(u), spc = "idle", UNCHANGED spc
  PROVE  UpdateInv'
<1> USE DEF UpdateInv
<1>1. UpdateTypeOK'
  BY DEF NewUpdate, Goto, UpdateTypeOK, Steps
<1>2. ~raced' => ~raced /\ \A v \in Updates : ~Alive(v)
  <2>1. ~raced' => ~raced /\ \A v \in Updates : upc[v] # "set"
    BY DEF NewUpdate, UpdateTypeOK
  <2>2. flag = 0
    BY DEF NewUpdate
  <2> QED BY <2>1, <2>2 DEF FlagHeld
<1>3. OnlyOneUpdate' /\ FlagHeld'
  BY <1>2 DEF NewUpdate, Goto, UpdateTypeOK, OnlyOneUpdate, FlagHeld, Alive
<1>4. LetsNextIn' /\ NoneAtBoot'
  BY DEF NewUpdate, Goto, UpdateTypeOK, LetsNextIn, NoneAtBoot, Alive
<1>5. Unpacks'
  BY DEF NewUpdate, Goto, UpdateTypeOK, Unpacks, CutShort
<1> QED BY <1>1, <1>3, <1>4, <1>5

LEMMA SetFlagInv ==
  ASSUME UpdateInv, NEW u \in Updates, SetFlag(u), UNCHANGED spc
  PROVE  UpdateInv'
<1> USE DEF UpdateInv
<1>1. UpdateTypeOK'
  BY FetchFacts DEF SetFlag, Goto, UpdateTypeOK, Steps, Fetching, Unpacking
<1>2. OnlyOneUpdate' /\ FlagHeld'
  BY DEF SetFlag, Goto, UpdateTypeOK, OnlyOneUpdate, FlagHeld, Alive
<1>3. LetsNextIn' /\ NoneAtBoot'
  BY DEF SetFlag, Goto, UpdateTypeOK, LetsNextIn, NoneAtBoot, Alive
<1>4. Unpacks'
  BY DEF SetFlag, Goto, UpdateTypeOK, OnlyOneUpdate, Unpacks, CutShort, Alive
<1> QED BY <1>1, <1>2, <1>3, <1>4

LEMMA PingServerInv ==
  ASSUME UpdateInv, NEW u \in Updates, PingServer(u), UNCHANGED spc
  PROVE  UpdateInv'
<1> USE DEF UpdateInv
<1>1. UpdateTypeOK'
  BY FetchFacts DEF PingServer, Goto, UpdateTypeOK, Steps, Fetching, Unpacking
<1>2. OnlyOneUpdate' /\ FlagHeld'
  BY DEF PingServer, Goto, UpdateTypeOK, OnlyOneUpdate, FlagHeld, Alive
<1>3. LetsNextIn' /\ NoneAtBoot'
  BY DEF PingServer, Goto, UpdateTypeOK, LetsNextIn, NoneAtBoot, Alive
<1>4. Unpacks'
  BY DEF PingServer, Goto, UpdateTypeOK, OnlyOneUpdate, Unpacks, CutShort, Alive
<1> QED BY <1>1, <1>2, <1>3, <1>4

LEMMA PingFailsInv ==
  ASSUME UpdateInv, NEW u \in Updates, PingFails(u), UNCHANGED spc
  PROVE  UpdateInv'
<1> USE DEF UpdateInv
<1>1. UpdateTypeOK'
  BY FetchFacts DEF PingFails, Goto, UpdateTypeOK, Steps, Fetching, Unpacking
<1>2. OnlyOneUpdate' /\ FlagHeld'
  BY DEF PingFails, Goto, UpdateTypeOK, OnlyOneUpdate, FlagHeld, Alive
<1>3. LetsNextIn' /\ NoneAtBoot'
  BY DEF PingFails, Goto, UpdateTypeOK, LetsNextIn, NoneAtBoot, Alive
<1>4. Unpacks'
  BY DEF PingFails, Goto, UpdateTypeOK, OnlyOneUpdate, Unpacks, CutShort, Alive
<1> QED BY <1>1, <1>2, <1>3, <1>4

LEMMA RemoveMd5Inv ==
  ASSUME UpdateInv, NEW u \in Updates, RemoveMd5(u), UNCHANGED spc
  PROVE  UpdateInv'
<1> USE DEF UpdateInv
<1>1. UpdateTypeOK'
  BY FetchFacts DEF RemoveMd5, Goto, UpdateTypeOK, Steps, Fetching, Unpacking
<1>2. OnlyOneUpdate' /\ FlagHeld'
  BY DEF RemoveMd5, Goto, UpdateTypeOK, OnlyOneUpdate, FlagHeld, Alive
<1>3. LetsNextIn' /\ NoneAtBoot'
  BY DEF RemoveMd5, Goto, UpdateTypeOK, LetsNextIn, NoneAtBoot, Alive
<1>4. Unpacks'
  BY DEF RemoveMd5, Goto, UpdateTypeOK, OnlyOneUpdate, Unpacks, CutShort, Alive
<1> QED BY <1>1, <1>2, <1>3, <1>4

LEMMA RemoveTarInv ==
  ASSUME UpdateInv, NEW u \in Updates, RemoveTar(u), UNCHANGED spc
  PROVE  UpdateInv'
<1> USE DEF UpdateInv
<1>1. UpdateTypeOK'
  BY FetchFacts DEF RemoveTar, Goto, UpdateTypeOK, Steps, Fetching, Unpacking
<1>2. OnlyOneUpdate' /\ FlagHeld'
  BY DEF RemoveTar, Goto, UpdateTypeOK, OnlyOneUpdate, FlagHeld, Alive
<1>3. LetsNextIn' /\ NoneAtBoot'
  BY DEF RemoveTar, Goto, UpdateTypeOK, LetsNextIn, NoneAtBoot, Alive
<1>4. Unpacks'
  BY DEF RemoveTar, Goto, UpdateTypeOK, OnlyOneUpdate, Unpacks, CutShort, Alive
<1> QED BY <1>1, <1>2, <1>3, <1>4

LEMMA BeginTarInv ==
  ASSUME UpdateInv, NEW u \in Updates, BeginTar(u), UNCHANGED spc
  PROVE  UpdateInv'
<1> USE DEF UpdateInv
<1>1. UpdateTypeOK'
  BY FetchFacts DEF BeginTar, Goto, UpdateTypeOK, Steps, Fetching, Unpacking
<1>2. OnlyOneUpdate' /\ FlagHeld'
  BY DEF BeginTar, Goto, UpdateTypeOK, OnlyOneUpdate, FlagHeld, Alive
<1>3. LetsNextIn' /\ NoneAtBoot'
  BY DEF BeginTar, Goto, UpdateTypeOK, LetsNextIn, NoneAtBoot, Alive
<1>4. Unpacks'
  BY DEF BeginTar, Goto, UpdateTypeOK, OnlyOneUpdate, Unpacks, CutShort, Alive
<1> QED BY <1>1, <1>2, <1>3, <1>4

LEMMA EndTarInv ==
  ASSUME UpdateInv, NEW u \in Updates, EndTar(u), UNCHANGED spc
  PROVE  UpdateInv'
<1> USE DEF UpdateInv
<1>1. UpdateTypeOK'
  BY FetchFacts DEF EndTar, Goto, UpdateTypeOK, Steps, Fetching, Unpacking
<1>2. OnlyOneUpdate' /\ FlagHeld'
  BY DEF EndTar, Goto, UpdateTypeOK, OnlyOneUpdate, FlagHeld, Alive
<1>3. LetsNextIn' /\ NoneAtBoot'
  BY DEF EndTar, Goto, UpdateTypeOK, LetsNextIn, NoneAtBoot, Alive
<1>4. Unpacks'
  BY DEF EndTar, Goto, UpdateTypeOK, OnlyOneUpdate, Unpacks, CutShort, Alive
<1> QED BY <1>1, <1>2, <1>3, <1>4

LEMMA BeginMd5Inv ==
  ASSUME UpdateInv, NEW u \in Updates, BeginMd5(u), UNCHANGED spc
  PROVE  UpdateInv'
<1> USE DEF UpdateInv
<1>1. UpdateTypeOK'
  BY FetchFacts DEF BeginMd5, Goto, UpdateTypeOK, Steps, Fetching, Unpacking
<1>2. OnlyOneUpdate' /\ FlagHeld'
  BY DEF BeginMd5, Goto, UpdateTypeOK, OnlyOneUpdate, FlagHeld, Alive
<1>3. LetsNextIn' /\ NoneAtBoot'
  BY DEF BeginMd5, Goto, UpdateTypeOK, LetsNextIn, NoneAtBoot, Alive
<1>4. Unpacks'
  BY DEF BeginMd5, Goto, UpdateTypeOK, OnlyOneUpdate, Unpacks, CutShort, Alive
<1> QED BY <1>1, <1>2, <1>3, <1>4

LEMMA EndMd5Inv ==
  ASSUME UpdateInv, NEW u \in Updates, EndMd5(u), UNCHANGED spc
  PROVE  UpdateInv'
<1> USE DEF UpdateInv
<1>1. UpdateTypeOK'
  BY FetchFacts DEF EndMd5, Goto, UpdateTypeOK, Steps, Fetching, Unpacking
<1>2. OnlyOneUpdate' /\ FlagHeld'
  BY DEF EndMd5, Goto, UpdateTypeOK, OnlyOneUpdate, FlagHeld, Alive
<1>3. LetsNextIn' /\ NoneAtBoot'
  BY DEF EndMd5, Goto, UpdateTypeOK, LetsNextIn, NoneAtBoot, Alive
<1>4. Unpacks'
  BY DEF EndMd5, Goto, UpdateTypeOK, OnlyOneUpdate, Unpacks, CutShort, Alive
<1> QED BY <1>1, <1>2, <1>3, <1>4

LEMMA ExistInv ==
  ASSUME UpdateInv, NEW u \in Updates, Exist(u), UNCHANGED spc
  PROVE  UpdateInv'
<1> USE DEF UpdateInv
<1>1. UpdateTypeOK'
  BY FetchFacts DEF Exist, Goto, UpdateTypeOK, Steps, Fetching, Unpacking
<1>2. OnlyOneUpdate' /\ FlagHeld'
  BY DEF Exist, Goto, UpdateTypeOK, OnlyOneUpdate, FlagHeld, Alive
<1>3. LetsNextIn' /\ NoneAtBoot'
  BY DEF Exist, Goto, UpdateTypeOK, LetsNextIn, NoneAtBoot, Alive
<1>4. Unpacks'
  BY DEF Exist, Goto, UpdateTypeOK, OnlyOneUpdate, Unpacks, CutShort, Alive
<1> QED BY <1>1, <1>2, <1>3, <1>4

LEMMA CheckInv ==
  ASSUME UpdateInv, NEW u \in Updates, Check(u), UNCHANGED spc
  PROVE  UpdateInv'
<1> USE DEF UpdateInv
<1>1. UpdateTypeOK'
  BY FetchFacts DEF Check, Goto, UpdateTypeOK, Steps, Fetching, Unpacking
<1>2. OnlyOneUpdate' /\ FlagHeld'
  BY DEF Check, Goto, UpdateTypeOK, OnlyOneUpdate, FlagHeld, Alive, Agree
<1>3. LetsNextIn' /\ NoneAtBoot'
  BY DEF Check, Goto, UpdateTypeOK, LetsNextIn, NoneAtBoot, Alive, Agree
<1>4. Unpacks'
  BY DEF Check, Goto, UpdateTypeOK, OnlyOneUpdate, Unpacks, CutShort, Alive, Agree
<1> QED BY <1>1, <1>2, <1>3, <1>4

LEMMA UnpackInv ==
  ASSUME UpdateInv, NEW u \in Updates, Unpack(u), UNCHANGED spc
  PROVE  UpdateInv'
<1> USE DEF UpdateInv
<1>1. UpdateTypeOK'
  BY FetchFacts DEF Unpack, Goto, UpdateTypeOK, Steps, Fetching, Unpacking
<1>2. OnlyOneUpdate' /\ FlagHeld'
  BY DEF Unpack, Goto, UpdateTypeOK, OnlyOneUpdate, FlagHeld, Alive, Unpacking
<1>3. LetsNextIn' /\ NoneAtBoot'
  BY DEF Unpack, Goto, UpdateTypeOK, LetsNextIn, NoneAtBoot, Alive, Unpacking
<1>4. Unpacks'
  BY DEF Unpack, Goto, UpdateTypeOK, OnlyOneUpdate, Unpacks, CutShort, Alive, Unpacking
<1> QED BY <1>1, <1>2, <1>3, <1>4

LEMMA UnpackedInv ==
  ASSUME UpdateInv, NEW u \in Updates, Unpacked(u), UNCHANGED spc
  PROVE  UpdateInv'
<1> USE DEF UpdateInv
<1>1. UpdateTypeOK'
  BY FetchFacts DEF Unpacked, Goto, UpdateTypeOK, Steps, Fetching, Unpacking
<1>2. OnlyOneUpdate' /\ FlagHeld'
  BY DEF Unpacked, Goto, UpdateTypeOK, OnlyOneUpdate, FlagHeld, Alive, Unpacking
<1>3. LetsNextIn' /\ NoneAtBoot'
  BY DEF Unpacked, Goto, UpdateTypeOK, LetsNextIn, NoneAtBoot, Alive, Unpacking
<1>4. Unpacks'
  BY DEF Unpacked, Goto, UpdateTypeOK, OnlyOneUpdate, Unpacks, CutShort, Alive, Unpacking
<1> QED BY <1>1, <1>2, <1>3, <1>4

LEMMA CallRebootInv ==
  ASSUME UpdateInv, NEW u \in Updates, CallReboot(u), UNCHANGED spc
  PROVE  UpdateInv'
<1> USE DEF UpdateInv
<1>1. UpdateTypeOK'
  BY FetchFacts DEF CallReboot, Goto, UpdateTypeOK, Steps, Fetching, Unpacking
<1>2. OnlyOneUpdate' /\ FlagHeld'
  BY DEF CallReboot, Goto, UpdateTypeOK, OnlyOneUpdate, FlagHeld, Alive
<1>3. LetsNextIn' /\ NoneAtBoot'
  BY DEF CallReboot, Goto, UpdateTypeOK, LetsNextIn, NoneAtBoot, Alive
<1>4. Unpacks'
  BY DEF CallReboot, Goto, UpdateTypeOK, OnlyOneUpdate, Unpacks, CutShort, Alive
<1> QED BY <1>1, <1>2, <1>3, <1>4

LEMMA ClearFlagInv ==
  ASSUME UpdateInv, NEW u \in Updates, ClearFlag(u), UNCHANGED spc
  PROVE  UpdateInv'
<1> USE DEF UpdateInv
<1>1. UpdateTypeOK'
  BY FetchFacts DEF ClearFlag, Goto, UpdateTypeOK, Steps, Fetching, Unpacking
<1>2. OnlyOneUpdate' /\ FlagHeld'
  BY DEF ClearFlag, Goto, UpdateTypeOK, OnlyOneUpdate, FlagHeld, Alive
<1>3. LetsNextIn' /\ NoneAtBoot'
  BY DEF ClearFlag, Goto, UpdateTypeOK, LetsNextIn, NoneAtBoot, Alive
<1>4. Unpacks'
  BY DEF ClearFlag, Goto, UpdateTypeOK, OnlyOneUpdate, Unpacks, CutShort, Alive
<1> QED BY <1>1, <1>2, <1>3, <1>4

LEMMA UpdateResetInv == ASSUME UpdateInv, Reboot \/ PowerLoss PROVE UpdateInv'
<1> USE DEF UpdateInv
<1>1. /\ flag' = 0 /\ rebooting' = FALSE /\ \A u \in Updates : upc'[u] = "none"
      /\ upc' \in [Updates -> {"none"}]
  BY DEF Reboot, PowerLoss, ProcessGone
<1>2. /\ raced' = raced /\ blind' = blind /\ tar' = tar /\ md5' = md5
      /\ prog' \in {"old", "part", "new"} /\ cut' \in BOOLEAN
  BY DEF Reboot, PowerLoss, ProcessGone, UpdateTypeOK
<1>3. UpdateTypeOK'
  BY <1>1, <1>2 DEF UpdateTypeOK
<1>4. OnlyOneUpdate' /\ FlagHeld' /\ LetsNextIn' /\ NoneAtBoot'
  BY <1>1 DEF OnlyOneUpdate, FlagHeld, LetsNextIn, NoneAtBoot, Alive
<1>5. Unpacks'
  <2>1. ~raced /\ ~blind /\ prog' = "part" => cut'
    <3>1. CASE Reboot
      BY <3>1 DEF Reboot, UpdateTypeOK, Unpacks, CutShort
    <3>2. CASE PowerLoss
      BY <3>2 DEF PowerLoss, UpdateTypeOK, Unpacks, CutShort
    <3> QED BY <3>1, <3>2
  <2> QED BY <1>1, <1>2, <2>1 DEF Unpacks
<1> QED BY <1>3, <1>4, <1>5

\* A step that leaves the updates alone does not go back to the boot.
LEMMA UpdateSameInv ==
  ASSUME UpdateInv, UNCHANGED updateVars,
         spc' \in {"boot", "init"} => spc \in {"boot", "init"}
  PROVE  UpdateInv'
  BY DEF UpdateInv, updateVars, UpdateTypeOK, OnlyOneUpdate, FlagHeld, LetsNextIn, NoneAtBoot,
         Unpacks, CutShort, Alive

\* Every step of Maintenance preserves what is known of the updates.
LEMMA UpdateInvStep == ASSUME UpdateInv, [Next]_vars PROVE UpdateInv'
<1>1. CASE SetArea
  BY <1>1, UpdateSameInv DEF SetArea, RecvArea
<1>2. CASE RequestUpdate
  BY <1>2, NewUpdateInv DEF RequestUpdate, areaVars
<1>3. CASE RequestReboot
  <2>1. UpdateTypeOK'
    BY <1>3 DEF RequestReboot, UpdateInv, UpdateTypeOK
  <2> QED BY <1>3, <2>1 DEF RequestReboot, areaVars, UpdateInv, OnlyOneUpdate, FlagHeld, LetsNextIn,
          NoneAtBoot, Unpacks, CutShort, Alive
<1>4. CASE AreaStep
  <2>1. spc' \in {"boot", "init"} => spc \in {"boot", "init"}
    BY <1>4 DEF AreaStep, BootReinit, BootInit, BootRead, CopyArea, OpenFile, OpenFails, WriteFile,
       WriteBack, DecodeThread, CopyTest, CopyCount, CopyRect, CopyEnds, Analyse
  <2> QED BY <1>4, <2>1, UpdateSameInv DEF AreaStep
<1>5. CASE UpdateStep
  <2>1. PICK u \in Updates : UpdateThread(u)
    BY <1>5 DEF UpdateStep
  <2>2. UNCHANGED spc
    BY <1>5 DEF UpdateStep, areaVars
  <2> QED BY <2>1, <2>2, SetFlagInv, PingServerInv, PingFailsInv, RemoveMd5Inv, RemoveTarInv,
          BeginTarInv, EndTarInv, BeginMd5Inv, EndMd5Inv, ExistInv, CheckInv, UnpackInv,
          UnpackedInv, CallRebootInv, ClearFlagInv
       DEF UpdateThread
<1>6. CASE Reboot \/ PowerLoss
  BY <1>6, UpdateResetInv
<1>7. CASE UNCHANGED vars
  BY <1>7, UpdateSameInv DEF vars, areaVars
<1> QED BY <1>1, <1>2, <1>3, <1>4, <1>5, <1>6, <1>7 DEF Next

\* The requests and the resets are counted within their bounds.
LEMMA BoundsStep == ASSUME TypeOK, [Next]_vars
                    PROVE  (requests \in 0..MaxRequests /\ resets \in 0..MaxResets)'
<1>1. (requests \in 0..MaxRequests)'
  BY MaintenanceBounds DEF TypeOK, Next, vars, SetArea, RequestUpdate, RequestReboot, Request,
     AreaStep, UpdateStep, Reboot, PowerLoss, ProcessGone
<1>2. (resets \in 0..MaxResets)'
  BY MaintenanceBounds DEF TypeOK, Next, vars, SetArea, RequestUpdate, RequestReboot, Request,
     AreaStep, UpdateStep, Reboot, PowerLoss, ProcessGone
<1> QED BY <1>1, <1>2
-----------------------------------------------------------------------------
(* What is proved beside the properties of the runs.                       *)

\* A setting that has been written to mv.config is given up for an older one in one
\* case only: the power is lost before the kernel has written the file back, and
\* what had been written back is there again (global_config.c:82-175).  No reboot and
\* no step of the boot brings one back.
NoSettingComesBack == [][saved' < saved => disk # file /\ file' = disk]_vars

\* Why: settings are numbered as they come, mv.config holds one that has come, and
\* what is written back of it is not newer.
Ordered == disk.area[0] <= saved /\ saved <= setting

\* How far a thread is from its end, whatever ping and wget do: a9_handle_update_thread
\* is walked from its top to its end (hy_update.c:98-147).
StepsLeft ==
    [none |-> 0, clear |-> 1, reboot |-> 2, unpacking |-> 3, spoiling |-> 3, unpack |-> 4,
     check |-> 5, exist |-> 6, md5 |-> 7, getmd5 |-> 8, tar |-> 9, gettar |-> 10,
     rmtar |-> 11, rmmd5 |-> 12, ping |-> 13, set |-> 14]

\* An update thread never goes back: each of its steps, and each end of the process,
\* brings it nearer to its end.  With LetsNextIn, which has a thread alive as long as
\* the flag is set, it is the part of UpdateEnds that needs no fairness.
UpdateProgresses ==
    [][\A u \in Updates :
         Alive(u) /\ upc'[u] # upc[u] => StepsLeft[upc'[u]] < StepsLeft[upc[u]]]_vars

\* However wget, md5sum, rm and the network fail, tar is only let loose on a tarball
\* that is whole, and it stays whole while it is unpacked, unless updates have run into
\* each other or a digest that was not read has been compared (hy_update.c:111-140).
\* Nothing is said of how tar ends, which nobody looks at.
UnpacksOnlyWhole ==
    ~raced /\ ~blind =>
      \A u \in Updates : upc[u] \in {"unpack"} \cup Unpacking => tar.data = "whole"

\* The settings are numbered as they come, and a boot brings back one of them.
LEMMA OrderedStep ==
  ASSUME AreaInv, Ordered, [Next]_vars
  PROVE  Ordered'
<1>1. /\ saved \in Nat /\ setting \in Nat /\ disk.area[0] \in Nat
      /\ file.area[0] = saved
  <2>1. saved \in Setting /\ setting \in Setting /\ disk.area[0] \in Setting
    BY WholeFacts, FileFacts DEF AreaInv, AreaTypeOK
  <2>2. file.area[0] = saved
    BY <2>1, WholeFacts DEF AreaInv, Kept
  <2> QED BY <2>1, <2>2, AreaBounds DEF Setting
<1>2. CASE UNCHANGED <<fileVars, setting>>
  BY <1>2 DEF fileVars, Ordered
<1>3. CASE SetArea
  BY <1>1, <1>3 DEF SetArea, RecvArea, fileVars, Ordered
<1>4. CASE AreaStep
  <2>1. CASE BootReinit
    BY <1>1, <2>1 DEF BootReinit, Ordered
  <2>2. CASE BootInit
    BY <1>1, <2>2 DEF BootInit, Ordered
  <2>3. CASE OpenFails
    BY <1>1, <2>3 DEF OpenFails, Ordered
  <2>4. CASE WriteFile
    BY <1>1, <2>4 DEF WriteFile, Ordered
  <2>5. CASE WriteBack
    BY <1>1, <2>5 DEF WriteBack, Ordered
  <2>6. CASE BootRead \/ (\E p \in Part : CopyArea(p)) \/ OpenFile \/ DecodeThread
    BY <1>2, <2>6 DEF BootRead, CopyArea, OpenFile, DecodeThread, CopyTest, CopyCount,
       CopyRect, CopyEnds, Analyse
  <2> QED BY <1>4, <2>1, <2>2, <2>3, <2>4, <2>5, <2>6 DEF AreaStep
<1>5. CASE Reboot
  BY <1>1, <1>5 DEF Reboot, ProcessGone, Ordered
<1>6. CASE PowerLoss
  BY <1>1, <1>6 DEF PowerLoss, ProcessGone, Ordered
<1>7. CASE RequestUpdate \/ RequestReboot \/ UpdateStep \/ UNCHANGED vars
  BY <1>2, <1>7 DEF RequestUpdate, RequestReboot, UpdateStep, areaVars, vars
<1> QED BY <1>3, <1>4, <1>5, <1>6, <1>7 DEF Next

\* A setting comes back only out of what had been written back.
LEMMA ComesBackStep ==
  ASSUME AreaInv, Ordered, [Next]_vars, saved' < saved
  PROVE  disk # file /\ file' = disk
<1>1. saved \in Nat /\ setting \in Nat /\ file.area[0] = saved
  BY WholeFacts, AreaBounds DEF AreaInv, AreaTypeOK, Kept, Setting
<1>2. saved' # saved
  BY <1>1
<1>3. ~WriteFile
  BY <1>1 DEF WriteFile, Ordered
<1>4. PowerLoss
  BY <1>2, <1>3 DEF Next, SetArea, RecvArea, RequestUpdate, RequestReboot, AreaStep, UpdateStep,
     BootReinit, BootInit, BootRead, CopyArea, OpenFile, OpenFails, WriteBack, DecodeThread,
     CopyTest, CopyCount, CopyRect, CopyEnds, Analyse, Reboot, vars, areaVars, fileVars
<1> QED BY <1>1, <1>2, <1>4 DEF PowerLoss

\* The steps of a thread follow each other as StepsLeft says.
LEMMA ProgressStep ==
  ASSUME UpdateInv, [Next]_vars, NEW u \in Updates, Alive(u), upc'[u] # upc[u]
  PROVE  StepsLeft[upc'[u]] < StepsLeft[upc[u]]
<1>1. /\ upc \in [Updates -> Steps \cup {"none"}] /\ upc[u] # "none"
      /\ StepsLeft["none"] = 0
      /\ \A s \in Steps : StepsLeft[s] \in Nat /\ StepsLeft[s] > 0
  BY DEF UpdateInv, UpdateTypeOK, Alive, Steps, Fetching, Unpacking, StepsLeft
<1>2. CASE Reboot \/ PowerLoss
  <2>1. upc'[u] = "none" /\ upc[u] \in Steps
    BY <1>1, <1>2 DEF Reboot, PowerLoss, ProcessGone
  <2> QED BY <1>1, <2>1
<1>3. CASE RequestUpdate
  BY <1>1, <1>3 DEF RequestUpdate, NewUpdate, Goto
<1>4. CASE UpdateStep
  <2>1. PICK v \in Updates : UpdateThread(v)
    BY <1>4 DEF UpdateStep
  <2>2. v = u
    BY <1>1, <2>1 DEF UpdateThread, Goto, SetFlag, PingServer, PingFails, RemoveMd5, RemoveTar,
       BeginTar, EndTar, BeginMd5, EndMd5, Exist, Check, Unpack, Unpacked, CallReboot, ClearFlag
  <2>3. CASE SetFlag(u) \/ PingServer(u) \/ PingFails(u) \/ RemoveMd5(u) \/ RemoveTar(u)
    BY <1>1, <2>3 DEF Goto, SetFlag, PingServer, PingFails, RemoveMd5, RemoveTar, StepsLeft
  <2>4. CASE BeginTar(u) \/ EndTar(u) \/ BeginMd5(u) \/ EndMd5(u)
    BY <1>1, <2>4 DEF Goto, BeginTar, EndTar, BeginMd5, EndMd5, StepsLeft
  <2>5. CASE Exist(u) \/ Check(u)
    BY <1>1, <2>5 DEF Goto, Exist, Check, StepsLeft
  <2>6. CASE Unpack(u) \/ Unpacked(u)
    BY <1>1, <2>6 DEF Goto, Unpack, Unpacked, Unpacking, StepsLeft
  <2>7. CASE CallReboot(u) \/ ClearFlag(u)
    BY <1>1, <2>7 DEF Goto, CallReboot, ClearFlag, StepsLeft
  <2> QED BY <2>1, <2>2, <2>3, <2>4, <2>5, <2>6, <2>7 DEF UpdateThread
<1>5. CASE SetArea \/ RequestReboot \/ AreaStep \/ UNCHANGED vars
  BY <1>5 DEF SetArea, RequestReboot, AreaStep, vars, updateVars
<1> QED BY <1>2, <1>3, <1>4, <1>5 DEF Next
-----------------------------------------------------------------------------
(* The theorems.                                                           *)

LEMMA Invariance == Spec => []IInv
<1>1. Init => IInv
  <2> SUFFICES ASSUME Init PROVE IInv
    OBVIOUS
  <2>1. AreaInv /\ UpdateInv
    BY AreaInitInv, UpdateInitInv DEF Init, AreaInit
  <2>2. requests \in 0..MaxRequests /\ resets \in 0..MaxResets
    <3>1. requests = 0 /\ resets = 0
      BY DEF Init
    <3> QED BY <3>1, MaintenanceBounds
  <2> QED BY <2>1, <2>2 DEF IInv, TypeOK, AreaInv, UpdateInv
<1>2. IInv /\ [Next]_vars => IInv'
  BY AreaInvStep, UpdateInvStep, BoundsStep DEF IInv, TypeOK, AreaInv, UpdateInv
<1> QED BY <1>1, <1>2, PTL DEF Spec

\* Every variable keeps its type.
THEOREM TypeCorrect == Spec => []TypeOK
<1>1. IInv => TypeOK
  BY DEF IInv
<1> QED BY <1>1, Invariance, PTL

\* A frame is analysed with the areas of one setting, unless memcpy has met its
\* copy.
THEOREM AreasOfOneSettingCorrect == Spec => []AreasOfOneSetting
<1>1. IInv => AreasOfOneSetting
  BY CopiedWhole DEF IInv
<1> QED BY <1>1, Invariance, PTL

\* The areas survive reboots and losses of power as far as they have been written.
THEOREM AreasSurviveCorrect == Spec => []AreasSurvive
<1>1. IInv => AreasSurvive
  BY DEF IInv, AreaInv
<1> QED BY <1>1, Invariance, PTL

\* Updates exclude each other but for the race.
THEOREM OnlyOneUpdateCorrect == Spec => []OnlyOneUpdate
<1>1. IInv => OnlyOneUpdate
  BY DEF IInv, UpdateInv
<1> QED BY <1>1, Invariance, PTL

\* The flag is not left set.
THEOREM LetsNextInCorrect == Spec => []LetsNextIn
<1>1. IInv => LetsNextIn
  BY DEF IInv, UpdateInv
<1> QED BY <1>1, Invariance, PTL

\* A boot finds half a program only where an unpacking was cut, in its own tar or by
\* the end of the process, or where the two races let a part of a tarball through.
THEOREM NoHalfProgramCorrect == Spec => []NoHalfProgram
<1>1. IInv => NoHalfProgram
  BY DEF IInv, UpdateInv, NoHalfProgram, NoneAtBoot, Unpacks, CutShort, Alive
<1> QED BY <1>1, Invariance, PTL

\* A setting in the file gives way to an older one only in a loss of power.
THEOREM NoSettingComesBackCorrect == Spec => NoSettingComesBack
<1>1. Init => Ordered
  BY FileFacts, WholeFacts DEF Init, AreaInit, Ordered, NoFile, Whole
<1>2. IInv /\ Ordered /\ [Next]_vars => Ordered'
  BY OrderedStep DEF IInv
<1>3. IInv /\ Ordered /\ [Next]_vars
        => [saved' < saved => disk # file /\ file' = disk]_vars
  BY ComesBackStep DEF IInv
<1> QED BY <1>1, <1>2, <1>3, Invariance, PTL DEF Spec, NoSettingComesBack

\* An update thread walks to its end.
THEOREM UpdateProgressesCorrect == Spec => UpdateProgresses
<1>1. IInv /\ [Next]_vars
        => [\A u \in Updates : Alive(u) /\ upc'[u] # upc[u]
                                 => StepsLeft[upc'[u]] < StepsLeft[upc[u]]]_vars
  BY ProgressStep DEF IInv
<1> QED BY <1>1, Invariance, PTL DEF Spec, UpdateProgresses

\* A tarball that has come in part is not unpacked.
THEOREM UnpacksOnlyWholeCorrect == Spec => []UnpacksOnlyWhole
<1>1. IInv => UnpacksOnlyWhole
  BY DEF IInv, UpdateInv, Unpacks, UnpacksOnlyWhole, Unpacking
<1> QED BY <1>1, Invariance, PTL
=============================================================================
