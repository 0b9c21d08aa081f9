--------------------------- MODULE VideoTaskProofs ---------------------------
(***************************************************************************)
(* Proofs about VideoTask, for any number of tasks, limit and width of the *)
(* count.                                                                  *)
(***************************************************************************)
EXTENDS VideoTask, FiniteSetTheorems, TLAPS

\* Until two tasks overlap, one at most is inside, and the flag is set once it has
\* set it.
Alone ==
    ~overlap => /\ \A t, o \in Tasks : pc[t] \in Inside /\ pc[o] \in Inside => t = o
                /\ hy_mv_record_flag <=> \E t \in Tasks : pc[t] \in Inside \ {"set"}

\* Until two updates meet, one at most is under way and what it has read still is
\* the count.
UpdatesApart ==
    ~torn => /\ \A t, o \in Tasks : pc[t] \in Updating /\ pc[o] \in Updating => t = o
             /\ \A t \in Tasks :
                  pc[t] \in Updating => cuntRead[t] = hy_mv_record_sending_cunt

\* Between the test for zero and the removal nobody is counted.
NobodyCounted ==
    ~overlap /\ ~torn => \A t \in Tasks : pc[t] = "removeAll" => At(Counted) = {}

IInv == TypeOK /\ Alone /\ UpdatesApart /\ CountExact /\ NobodyCounted /\ NeededFilesKept
-----------------------------------------------------------------------------
(* Arithmetic and sets.                                                    *)

\* A number, its quotient and its remainder.
LEMMA Division ==
  ASSUME NEW w \in Nat \ {0}, NEW c \in Int
  PROVE  c \div w \in Int /\ c % w \in 0..(w - 1) /\ c = w * (c \div w) + (c % w)
<1>1. c \div w \in Int /\ c = w * (c \div w) + (c % w)
  OBVIOUS
<1>2. c % w \in 0..(w - 1)
  OBVIOUS
<1> QED BY <1>1, <1>2

LEMMA Remainder ==
  ASSUME NEW w \in Nat \ {0}, NEW q \in Int, NEW r \in 0..(w - 1)
  PROVE  (w * q + r) % w = r
  OBVIOUS

\* Counting on from a remainder is counting on from the number.
LEMMA RemainderSum ==
  ASSUME NEW w \in Nat \ {0}, NEW c \in Int, NEW d \in Int
  PROVE  ((c % w) + d) % w = (c + d) % w
<1>1. PICK q \in Int, r \in 0..(w - 1) : q = c \div w /\ r = c % w /\ c = w * q + r
  BY Division
<1>2. PICK p \in Int, s \in 0..(w - 1) : s = (r + d) % w /\ r + d = w * p + s
  <2>1. r + d \in Int
    OBVIOUS
  <2> QED BY <2>1, Division
<1>3. PICK a \in Int, b \in Int : a = w * q /\ b = w * p /\ a + b = w * (q + p)
  OBVIOUS
<1>4. c + d = w * (q + p) + s
  <2>1. c = a + r /\ r + d = b + s
    BY <1>1, <1>2, <1>3
  <2>2. c + d = (a + b) + s
    BY <2>1
  <2> QED BY <2>2, <1>3
<1>5. (w * (q + p) + s) % w = s
  <2>1. q + p \in Int
    OBVIOUS
  <2> QED BY <2>1, Remainder
<1> QED BY <1>1, <1>2, <1>4, <1>5

\* The tasks at some places are finitely many, and fewer than the count can hold.
LEMMA AtFinite ==
  ASSUME NEW S
  PROVE  /\ IsFiniteSet(At(S)) /\ Cardinality(At(S)) \in Nat
         /\ Cardinality(At(S)) < CuntWidth
<1>1. At(S) \subseteq Tasks
  BY DEF At
<1>2. IsFiniteSet(At(S)) /\ Cardinality(At(S)) <= Cardinality(Tasks)
  BY <1>1, TasksAssumption, FS_Subset
<1>3. Cardinality(At(S)) \in Nat /\ Cardinality(Tasks) \in Nat
  BY <1>2, TasksAssumption, FS_CardinalityType
<1> QED BY <1>2, <1>3, TasksAssumption, SendingAssumption

\* A thread that goes from one of the places to another changes nothing; one that
\* comes or goes changes the number by one.
LEMMA AtKept ==
  ASSUME TypeOK, NEW S, NEW t \in Tasks, NEW place, GoTo(t, place), pc[t] \in S <=> place \in S
  PROVE  At(S)' = At(S)
  BY DEF At, GoTo, TypeOK

LEMMA AtJoined ==
  ASSUME TypeOK, NEW S, NEW t \in Tasks, NEW place, GoTo(t, place), pc[t] \notin S, place \in S
  PROVE  Cardinality(At(S)') = Cardinality(At(S)) + 1
<1>1. At(S)' = At(S) \cup {t} /\ t \notin At(S)
  BY DEF At, GoTo, TypeOK
<1> QED BY <1>1, AtFinite, FS_AddElement

LEMMA AtLeft ==
  ASSUME TypeOK, NEW S, NEW t \in Tasks, NEW place, GoTo(t, place), pc[t] \in S, place \notin S
  PROVE  Cardinality(At(S)') = Cardinality(At(S)) - 1
<1>1. At(S)' = At(S) \ {t} /\ t \in At(S)
  BY DEF At, GoTo, TypeOK
<1> QED BY <1>1, AtFinite, FS_RemoveElement
-----------------------------------------------------------------------------
(* The steps.                                                              *)

LEMMA InitInv == Init => IInv
<1> SUFFICES ASSUME Init PROVE IInv
  OBVIOUS
<1>1. TypeOK
  <2>1. 0 \in 0..(CuntWidth - 1)
    BY SendingAssumption
  <2> QED BY <2>1 DEF Init, TypeOK
<1>2. At(Counted) = {} /\ At(Needed) = {}
  BY DEF Init, At, Counted, Needed
<1>3. 0 % CuntWidth = 0
  BY SendingAssumption
<1>4. CountExact
  BY <1>2, <1>3, FS_EmptySet DEF Init, CountExact
<1>5. Alone /\ UpdatesApart
  BY DEF Init, Alone, UpdatesApart, Inside, Updating
<1> QED BY <1>1, <1>2, <1>4, <1>5 DEF IInv, NobodyCounted, NeededFilesKept

LEMMA NewTaskInv == ASSUME IInv, NEW t \in Tasks, NewTask(t) PROVE IInv'
<1> USE DEF IInv, shared
<1>1. TypeOK'
  BY DEF NewTask, GoTo, TypeOK, Inside, Counted
<1>2. Alone'
  BY DEF NewTask, GoTo, TypeOK, Alone, Inside
<1>3. UpdatesApart'
  BY DEF NewTask, GoTo, TypeOK, UpdatesApart, Updating
<1>4. CountExact'
  <2>1. At(Counted)' = At(Counted)
    BY AtKept DEF NewTask, Counted
  <2> QED BY <2>1 DEF NewTask, CountExact
<1>5. NobodyCounted'
  BY DEF NewTask, GoTo, TypeOK, Alone, NobodyCounted, At, Inside, Counted
<1>6. NeededFilesKept'
  BY DEF NewTask, GoTo, TypeOK, NeededFilesKept, At, Needed
<1> QED BY <1>1, <1>2, <1>3, <1>4, <1>5, <1>6

LEMMA ReleaseInv == ASSUME IInv, NEW t \in Tasks, Release(t) PROVE IInv'
<1> USE DEF IInv, shared
<1>1. TypeOK'
  BY DEF Release, GoTo, TypeOK, Inside, Counted
<1>2. Alone'
  BY DEF Release, GoTo, TypeOK, Alone, Inside
<1>3. UpdatesApart'
  BY DEF Release, GoTo, TypeOK, UpdatesApart, Updating
<1>4. CountExact'
  <2>1. At(Counted)' = At(Counted)
    BY AtKept DEF Release, Counted
  <2> QED BY <2>1 DEF Release, CountExact
<1>5. NobodyCounted'
  BY DEF Release, GoTo, TypeOK, Alone, NobodyCounted, At, Inside, Counted
<1>6. NeededFilesKept'
  BY DEF Release, GoTo, TypeOK, NeededFilesKept, At, Needed
<1> QED BY <1>1, <1>2, <1>3, <1>4, <1>5, <1>6

LEMMA PassFlagInv == ASSUME IInv, NEW t \in Tasks, PassFlag(t) PROVE IInv'
<1> USE DEF IInv, shared
<1>1. TypeOK'
  BY DEF PassFlag, GoTo, TypeOK, Inside, Counted
<1>2. Alone'
  BY DEF PassFlag, GoTo, TypeOK, Alone, Inside, At
<1>3. UpdatesApart'
  BY DEF PassFlag, GoTo, TypeOK, UpdatesApart, Updating
<1>4. CountExact'
  <2>1. At(Counted)' = At(Counted)
    BY AtKept DEF PassFlag, Counted
  <2> QED BY <2>1 DEF PassFlag, CountExact
<1>5. NobodyCounted'
  BY DEF PassFlag, GoTo, TypeOK, Alone, NobodyCounted, At, Inside, Counted
<1>6. NeededFilesKept'
  BY DEF PassFlag, GoTo, TypeOK, NeededFilesKept, At, Needed
<1> QED BY <1>1, <1>2, <1>3, <1>4, <1>5, <1>6

LEMMA SetFlagInv == ASSUME IInv, NEW t \in Tasks, SetFlag(t) PROVE IInv'
<1> USE DEF IInv, shared
<1>1. TypeOK'
  BY DEF SetFlag, GoTo, TypeOK, Inside, Counted
<1>2. Alone'
  BY DEF SetFlag, GoTo, TypeOK, Alone, Inside
<1>3. UpdatesApart'
  BY DEF SetFlag, GoTo, TypeOK, UpdatesApart, Updating
<1>4. CountExact'
  <2>1. At(Counted)' = At(Counted)
    BY AtKept DEF SetFlag, Counted
  <2> QED BY <2>1 DEF SetFlag, CountExact
<1>5. NobodyCounted'
  BY DEF SetFlag, GoTo, TypeOK, Alone, NobodyCounted, At, Inside, Counted
<1>6. NeededFilesKept'
  BY DEF SetFlag, GoTo, TypeOK, NeededFilesKept, At, Needed
<1> QED BY <1>1, <1>2, <1>3, <1>4, <1>5, <1>6

LEMMA TestLimitInv == ASSUME IInv, NEW t \in Tasks, TestLimit(t) PROVE IInv'
<1> USE DEF IInv, shared
<1>1. TypeOK'
  BY DEF TestLimit, GoTo, TypeOK, Inside, Counted
<1>2. Alone'
  BY DEF TestLimit, GoTo, TypeOK, Alone, Inside
<1>3. UpdatesApart'
  BY DEF TestLimit, GoTo, TypeOK, UpdatesApart, Updating
<1>4. CountExact'
  <2>1. At(Counted)' = At(Counted)
    BY AtKept DEF TestLimit, Counted
  <2> QED BY <2>1 DEF TestLimit, CountExact
<1>5. NobodyCounted'
  BY DEF TestLimit, GoTo, TypeOK, Alone, NobodyCounted, At, Inside, Counted
<1>6. NeededFilesKept'
  BY DEF TestLimit, GoTo, TypeOK, NeededFilesKept, At, Needed
<1> QED BY <1>1, <1>2, <1>3, <1>4, <1>5, <1>6

LEMMA CallRebootInv == ASSUME IInv, NEW t \in Tasks, CallReboot(t) PROVE IInv'
<1> USE DEF IInv, shared
<1>1. TypeOK'
  BY DEF CallReboot, GoTo, TypeOK, RemoveAllFiles, Inside, Counted
<1>2. Alone'
  BY DEF CallReboot, GoTo, TypeOK, Alone, Inside
<1>3. UpdatesApart'
  BY DEF CallReboot, GoTo, TypeOK, UpdatesApart, Updating
<1>4. CountExact'
  <2>1. At(Counted)' = At(Counted)
    BY AtKept DEF CallReboot, Counted
  <2> QED BY <2>1 DEF CallReboot, CountExact
<1>5. NobodyCounted'
  BY DEF CallReboot, GoTo, TypeOK, Alone, NobodyCounted, At, Inside, Counted
<1>6. NeededFilesKept'
  BY DEF CallReboot, NeededFilesKept
<1> QED BY <1>1, <1>2, <1>3, <1>4, <1>5, <1>6

LEMMA TestZeroInv == ASSUME IInv, NEW t \in Tasks, TestZero(t) PROVE IInv'
<1> USE DEF IInv, shared
<1>1. TypeOK'
  BY DEF TestZero, GoTo, TypeOK, Inside, Counted
<1>2. Alone'
  BY DEF TestZero, GoTo, TypeOK, Alone, Inside
<1>3. UpdatesApart'
  BY DEF TestZero, GoTo, TypeOK, UpdatesApart, Updating
<1>4. CountExact'
  <2>1. At(Counted)' = At(Counted)
    BY AtKept DEF TestZero, Counted
  <2> QED BY <2>1 DEF TestZero, CountExact
<1>5. NobodyCounted'
  <2>1. ~torn /\ hy_mv_record_sending_cunt = 0 => At(Counted) = {}
    <3>1. \A c \in Nat : c < CuntWidth /\ c % CuntWidth = 0 => c = 0
      BY SendingAssumption
    <3> QED BY <3>1, AtFinite, FS_EmptySet DEF CountExact
  <2>2. At(Counted)' = At(Counted)
    BY AtKept DEF TestZero, Counted
  <2>3. ~overlap => \A o \in Tasks : pc[o] = "removeAll" => o = t
    BY DEF TestZero, Alone, Inside
  <2> QED BY <2>1, <2>2, <2>3 DEF TestZero, GoTo, TypeOK, NobodyCounted
<1>6. NeededFilesKept'
  BY DEF TestZero, GoTo, TypeOK, NeededFilesKept, At, Needed
<1> QED BY <1>1, <1>2, <1>3, <1>4, <1>5, <1>6

LEMMA RemoveLeftoversInv == ASSUME IInv, NEW t \in Tasks, RemoveLeftovers(t) PROVE IInv'
<1> USE DEF IInv, shared
<1>1. TypeOK'
  BY DEF RemoveLeftovers, GoTo, TypeOK, RemoveAllFiles, Inside, Counted
<1>2. Alone'
  BY DEF RemoveLeftovers, GoTo, TypeOK, Alone, Inside
<1>3. UpdatesApart'
  BY DEF RemoveLeftovers, GoTo, TypeOK, UpdatesApart, Updating
<1>4. CountExact'
  <2>1. At(Counted)' = At(Counted)
    BY AtKept DEF RemoveLeftovers, Counted
  <2> QED BY <2>1 DEF RemoveLeftovers, CountExact
<1>5. NobodyCounted'
  BY DEF RemoveLeftovers, GoTo, TypeOK, Alone, NobodyCounted, At, Inside, Counted
<1>6. NeededFilesKept'
  BY DEF RemoveLeftovers, GoTo, TypeOK, NobodyCounted, NeededFilesKept, At, Needed, Counted
<1> QED BY <1>1, <1>2, <1>3, <1>4, <1>5, <1>6

LEMMA IncReadInv == ASSUME IInv, NEW t \in Tasks, IncRead(t) PROVE IInv'
<1> USE DEF IInv, shared
<1>1. TypeOK'
  BY DEF IncRead, ReadCount, GoTo, TypeOK, Inside, Counted
<1>2. Alone'
  BY DEF IncRead, ReadCount, GoTo, TypeOK, Alone, Inside
<1>3. UpdatesApart'
  BY DEF IncRead, ReadCount, GoTo, TypeOK, UpdatesApart, Updating, At
<1>4. CountExact'
  <2>1. At(Counted)' = At(Counted)
    BY AtKept DEF IncRead, ReadCount, Counted
  <2> QED BY <2>1 DEF IncRead, ReadCount, CountExact
<1>5. NobodyCounted'
  BY DEF IncRead, ReadCount, GoTo, TypeOK, Alone, NobodyCounted, At, Inside, Counted
<1>6. NeededFilesKept'
  BY DEF IncRead, ReadCount, GoTo, TypeOK, NeededFilesKept, At, Needed
<1> QED BY <1>1, <1>2, <1>3, <1>4, <1>5, <1>6

LEMMA IncWriteInv == ASSUME IInv, NEW t \in Tasks, IncWrite(t) PROVE IInv'
<1> USE DEF IInv, shared
<1>1. TypeOK'
  BY SendingAssumption DEF IncWrite, GoTo, TypeOK, Inside, Counted
<1>2. Alone'
  BY DEF IncWrite, GoTo, TypeOK, Alone, Inside
<1>3. UpdatesApart'
  BY DEF IncWrite, GoTo, TypeOK, UpdatesApart, Updating
<1>4. CountExact'
  <2>1. Cardinality(At(Counted)') = Cardinality(At(Counted)) + 1
    BY AtJoined DEF IncWrite, Counted, IInv
  <2>2. ~torn => cuntRead[t] = Cardinality(At(Counted)) % CuntWidth
    BY DEF IncWrite, UpdatesApart, Updating, CountExact
  <2> QED BY <2>1, <2>2, AtFinite, RemainderSum, SendingAssumption DEF IncWrite, CountExact
<1>5. NobodyCounted'
  BY DEF IncWrite, GoTo, TypeOK, Alone, NobodyCounted, At, Inside, Counted
<1>6. NeededFilesKept'
  BY DEF IncWrite, GoTo, TypeOK, NeededFilesKept, At, Needed
<1> QED BY <1>1, <1>2, <1>3, <1>4, <1>5, <1>6

LEMMA StartRecordingInv == ASSUME IInv, NEW t \in Tasks, StartRecording(t) PROVE IInv'
<1> USE DEF IInv, shared
<1>1. TypeOK'
  BY DEF StartRecording, GoTo, TypeOK, Inside, Counted
<1>2. Alone'
  BY DEF StartRecording, GoTo, TypeOK, Alone, Inside
<1>3. UpdatesApart'
  BY DEF StartRecording, GoTo, TypeOK, UpdatesApart, Updating
<1>4. CountExact'
  <2>1. At(Counted)' = At(Counted)
    BY AtKept DEF StartRecording, Counted
  <2> QED BY <2>1 DEF StartRecording, CountExact
<1>5. NobodyCounted'
  BY DEF StartRecording, GoTo, TypeOK, Alone, NobodyCounted, At, Inside, Counted
<1>6. NeededFilesKept'
  BY DEF StartRecording, GoTo, TypeOK, NeededFilesKept, At, Needed
<1> QED BY <1>1, <1>2, <1>3, <1>4, <1>5, <1>6

LEMMA EndRecordingInv == ASSUME IInv, NEW t \in Tasks, EndRecording(t) PROVE IInv'
<1> USE DEF IInv, shared
<1>1. TypeOK'
  BY DEF EndRecording, GoTo, TypeOK, Inside, Counted
<1>2. Alone'
  BY DEF EndRecording, GoTo, TypeOK, Alone, Inside
<1>3. UpdatesApart'
  BY DEF EndRecording, GoTo, TypeOK, UpdatesApart, Updating
<1>4. CountExact'
  <2>1. At(Counted)' = At(Counted)
    BY AtKept DEF EndRecording, Counted
  <2> QED BY <2>1 DEF EndRecording, CountExact
<1>5. NobodyCounted'
  BY DEF EndRecording, GoTo, TypeOK, Alone, NobodyCounted, At, Inside, Counted
<1>6. NeededFilesKept'
  BY DEF EndRecording, GoTo, TypeOK, NeededFilesKept, At, Needed
<1> QED BY <1>1, <1>2, <1>3, <1>4, <1>5, <1>6

LEMMA ClearFlagInv == ASSUME IInv, NEW t \in Tasks, ClearFlag(t) PROVE IInv'
<1> USE DEF IInv, shared
<1>1. TypeOK'
  BY DEF ClearFlag, GoTo, TypeOK, Inside, Counted
<1>2. Alone'
  BY DEF ClearFlag, GoTo, TypeOK, Alone, Inside
<1>3. UpdatesApart'
  BY DEF ClearFlag, GoTo, TypeOK, UpdatesApart, Updating
<1>4. CountExact'
  <2>1. At(Counted)' = At(Counted)
    BY AtKept DEF ClearFlag, Counted
  <2> QED BY <2>1 DEF ClearFlag, CountExact
<1>5. NobodyCounted'
  BY DEF ClearFlag, GoTo, TypeOK, Alone, NobodyCounted, At, Inside, Counted
<1>6. NeededFilesKept'
  BY DEF ClearFlag, GoTo, TypeOK, NeededFilesKept, At, Needed
<1> QED BY <1>1, <1>2, <1>3, <1>4, <1>5, <1>6

LEMMA ConnectFailsInv == ASSUME IInv, NEW t \in Tasks, ConnectFails(t) PROVE IInv'
<1> USE DEF IInv, shared
<1>1. TypeOK'
  BY DEF ConnectFails, GoTo, TypeOK, Inside, Counted
<1>2. Alone'
  BY DEF ConnectFails, GoTo, TypeOK, Alone, Inside
<1>3. UpdatesApart'
  BY DEF ConnectFails, GoTo, TypeOK, UpdatesApart, Updating
<1>4. CountExact'
  <2>1. At(Counted)' = At(Counted)
    BY AtKept DEF ConnectFails, Counted
  <2> QED BY <2>1 DEF ConnectFails, CountExact
<1>5. NobodyCounted'
  BY DEF ConnectFails, GoTo, TypeOK, Alone, NobodyCounted, At, Inside, Counted
<1>6. NeededFilesKept'
  BY DEF ConnectFails, GoTo, TypeOK, NeededFilesKept, At, Needed
<1> QED BY <1>1, <1>2, <1>3, <1>4, <1>5, <1>6

LEMMA ConnectSucceedsInv == ASSUME IInv, NEW t \in Tasks, ConnectSucceeds(t) PROVE IInv'
<1> USE DEF IInv, shared
<1>1. TypeOK'
  BY DEF ConnectSucceeds, GoTo, TypeOK, Inside, Counted
<1>2. Alone'
  BY DEF ConnectSucceeds, GoTo, TypeOK, Alone, Inside
<1>3. UpdatesApart'
  BY DEF ConnectSucceeds, GoTo, TypeOK, UpdatesApart, Updating
<1>4. CountExact'
  <2>1. At(Counted)' = At(Counted)
    BY AtKept DEF ConnectSucceeds, Counted
  <2> QED BY <2>1 DEF ConnectSucceeds, CountExact
<1>5. NobodyCounted'
  BY DEF ConnectSucceeds, GoTo, TypeOK, Alone, NobodyCounted, At, Inside, Counted
<1>6. NeededFilesKept'
  BY DEF ConnectSucceeds, GoTo, TypeOK, NeededFilesKept, At, Needed
<1> QED BY <1>1, <1>2, <1>3, <1>4, <1>5, <1>6

LEMMA SendInv == ASSUME IInv, NEW t \in Tasks, Send(t) PROVE IInv'
<1> USE DEF IInv, shared
<1>1. TypeOK'
  BY DEF Send, GoTo, TypeOK, Inside, Counted
<1>2. Alone'
  BY DEF Send, GoTo, TypeOK, Alone, Inside
<1>3. UpdatesApart'
  BY DEF Send, GoTo, TypeOK, UpdatesApart, Updating
<1>4. CountExact'
  <2>1. At(Counted)' = At(Counted)
    BY AtKept DEF Send, Counted
  <2> QED BY <2>1 DEF Send, CountExact
<1>5. NobodyCounted'
  BY DEF Send, GoTo, TypeOK, Alone, NobodyCounted, At, Inside, Counted
<1>6. NeededFilesKept'
  BY DEF Send, GoTo, TypeOK, NeededFilesKept, At, Needed
<1> QED BY <1>1, <1>2, <1>3, <1>4, <1>5, <1>6

LEMMA RemoveOwnInv == ASSUME IInv, NEW t \in Tasks, RemoveOwn(t) PROVE IInv'
<1> USE DEF IInv, shared
<1>1. TypeOK'
  BY DEF RemoveOwn, GoTo, TypeOK, Inside, Counted
<1>2. Alone'
  BY DEF RemoveOwn, GoTo, TypeOK, Alone, Inside
<1>3. UpdatesApart'
  BY DEF RemoveOwn, GoTo, TypeOK, UpdatesApart, Updating
<1>4. CountExact'
  <2>1. At(Counted)' = At(Counted)
    BY AtKept DEF RemoveOwn, Counted
  <2> QED BY <2>1 DEF RemoveOwn, CountExact
<1>5. NobodyCounted'
  BY DEF RemoveOwn, GoTo, TypeOK, Alone, NobodyCounted, At, Inside, Counted
<1>6. NeededFilesKept'
  BY DEF RemoveOwn, GoTo, TypeOK, NeededFilesKept, At, Needed
<1> QED BY <1>1, <1>2, <1>3, <1>4, <1>5, <1>6

LEMMA DecReadInv == ASSUME IInv, NEW t \in Tasks, DecRead(t) PROVE IInv'
<1> USE DEF IInv, shared
<1>1. TypeOK'
  BY DEF DecRead, ReadCount, GoTo, TypeOK, Inside, Counted
<1>2. Alone'
  BY DEF DecRead, ReadCount, GoTo, TypeOK, Alone, Inside
<1>3. UpdatesApart'
  BY DEF DecRead, ReadCount, GoTo, TypeOK, UpdatesApart, Updating, At
<1>4. CountExact'
  <2>1. At(Counted)' = At(Counted)
    BY AtKept DEF DecRead, ReadCount, Counted
  <2> QED BY <2>1 DEF DecRead, ReadCount, CountExact
<1>5. NobodyCounted'
  BY DEF DecRead, ReadCount, GoTo, TypeOK, Alone, NobodyCounted, At, Inside, Counted
<1>6. NeededFilesKept'
  BY DEF DecRead, ReadCount, GoTo, TypeOK, NeededFilesKept, At, Needed
<1> QED BY <1>1, <1>2, <1>3, <1>4, <1>5, <1>6

LEMMA DecWriteInv == ASSUME IInv, NEW t \in Tasks, DecWrite(t) PROVE IInv'
<1> USE DEF IInv, shared
<1>1. TypeOK'
  BY SendingAssumption DEF DecWrite, GoTo, TypeOK, Inside, Counted
<1>2. Alone'
  BY DEF DecWrite, GoTo, TypeOK, Alone, Inside
<1>3. UpdatesApart'
  BY DEF DecWrite, GoTo, TypeOK, UpdatesApart, Updating
<1>4. CountExact'
  <2>1. Cardinality(At(Counted)') = Cardinality(At(Counted)) - 1
    BY AtLeft DEF DecWrite, Counted, IInv
  <2>2. ~torn => cuntRead[t] = Cardinality(At(Counted)) % CuntWidth
    BY DEF DecWrite, UpdatesApart, Updating, CountExact
  <2>3. ASSUME NEW c \in Nat PROVE ((c % CuntWidth) - 1) % CuntWidth = (c - 1) % CuntWidth
    <3>1. CuntWidth \in Nat \ {0} /\ -1 \in Int /\ c \in Int
      BY SendingAssumption
    <3>2. ((c % CuntWidth) + (-1)) % CuntWidth = (c + (-1)) % CuntWidth
      BY <3>1, RemainderSum
    <3>3. (c % CuntWidth) + (-1) = (c % CuntWidth) - 1 /\ c + (-1) = c - 1
      BY <3>1
    <3> QED BY <3>2, <3>3
  <2> QED BY <2>1, <2>2, <2>3, AtFinite DEF DecWrite, CountExact
<1>5. NobodyCounted'
  BY DEF DecWrite, GoTo, TypeOK, Alone, NobodyCounted, At, Inside, Counted
<1>6. NeededFilesKept'
  BY DEF DecWrite, GoTo, TypeOK, NeededFilesKept, At, Needed
<1> QED BY <1>1, <1>2, <1>3, <1>4, <1>5, <1>6

LEMMA RebootInv == ASSUME IInv, Reboot PROVE IInv'
<1>1. TypeOK'
  <2>1. 0 \in 0..(CuntWidth - 1)
    BY SendingAssumption
  <2> QED BY <2>1 DEF IInv, Reboot, TypeOK
<1>2. At(Counted)' = {} /\ At(Needed)' = {}
  BY DEF Reboot, At, Counted, Needed
<1>3. CountExact'
  BY <1>2, SendingAssumption, FS_EmptySet DEF Reboot, CountExact
<1>4. Alone' /\ UpdatesApart'
  BY DEF Reboot, Alone, UpdatesApart, Inside, Updating
<1> QED BY <1>1, <1>2, <1>3, <1>4 DEF IInv, NobodyCounted, NeededFilesKept

LEMMA StutterInv == ASSUME IInv, UNCHANGED vars PROVE IInv'
  BY DEF IInv, vars, shared, TypeOK, Alone, UpdatesApart, CountExact, NobodyCounted,
         NeededFilesKept, At
-----------------------------------------------------------------------------
(* What is proved beside the properties of the runs.                       *)

\* One ffmpeg records at a time as long as no task is let in beside another: what the
\* comment on the flag says (hy_file_manage.c:31) fails by that race alone.
OneUntilOverlap == ~overlap => Cardinality(At({"recording"})) <= 1

\* Where a task has found room and has not counted itself yet.
Past == {"zero", "removeAll", "incRead", "incWrite"}

\* As long as the tasks come one by one, the uploads pending are at most one more than
\* the limit, and the limit while one more is about to be counted: the device reboots
\* before there are more (hy_file_manage.c:534-544).
PendingBounded ==
    ~overlap /\ ~torn /\ ~rebooting =>
      /\ Cardinality(At(Counted)) <= MaxSending + 1
      /\ At(Past) # {} => Cardinality(At(Counted)) <= MaxSending

\* A task records without having removed what is left over only when an upload is
\* pending: the files of tasks that could not connect, which nobody sends, stay no longer
\* than that (hy_file_manage.c:539-544, 551-557).
LeftoversRemoved ==
    [][\A t \in Tasks :
         ~torn /\ pc[t] = "zero" /\ pc'[t] = "incRead" => At(Counted) # {}]_vars

\* The count is the number itself: there are fewer tasks than it can hold.
LEMMA CountIsNumber ==
  ASSUME IInv, ~torn
  PROVE  hy_mv_record_sending_cunt = Cardinality(At(Counted))
<1>1. \A c \in Nat : c < CuntWidth => c % CuntWidth = c
  BY SendingAssumption
<1> QED BY <1>1, AtFinite DEF IInv, CountExact

\* What one thread's step does to the number of pending uploads.
LEMMA PendingStep ==
  ASSUME IInv, NEW t \in Tasks, NewTask(t) \/ VideoTask(t)
  PROVE  /\ IncWrite(t) => Cardinality(At(Counted)') = Cardinality(At(Counted)) + 1
         /\ ~IncWrite(t) => Cardinality(At(Counted)') <= Cardinality(At(Counted))
<1>1. TypeOK
  BY DEF IInv
<1>2. CASE IncWrite(t)
  BY <1>1, <1>2, AtJoined DEF IncWrite, Counted
<1>3. CASE DecWrite(t)
  <2>1. Cardinality(At(Counted)') = Cardinality(At(Counted)) - 1
    BY <1>1, <1>3, AtLeft DEF DecWrite, Counted
  <2>2. ~IncWrite(t)
    BY <1>3 DEF DecWrite, IncWrite
  <2> QED BY <2>1, <2>2, AtFinite
<1>4. CASE ~IncWrite(t) /\ ~DecWrite(t)
  <2>1. PICK place : GoTo(t, place) /\ (pc[t] \in Counted <=> place \in Counted)
    <3>1. CASE NewTask(t) \/ Release(t) \/ PassFlag(t) \/ SetFlag(t) \/ CallReboot(t)
               \/ RemoveLeftovers(t) \/ StartRecording(t) \/ EndRecording(t) \/ ClearFlag(t)
      BY <3>1 DEF NewTask, Release, PassFlag, SetFlag, CallReboot, RemoveLeftovers,
         StartRecording, EndRecording, ClearFlag, Counted
    <3>2. CASE TestLimit(t) \/ TestZero(t) \/ IncRead(t) \/ DecRead(t)
      BY <3>2 DEF TestLimit, TestZero, IncRead, DecRead, ReadCount, Counted
    <3>3. CASE ConnectFails(t) \/ ConnectSucceeds(t) \/ Send(t) \/ RemoveOwn(t)
      BY <3>3 DEF ConnectFails, ConnectSucceeds, Send, RemoveOwn, Counted
    <3> QED BY <1>4, <3>1, <3>2, <3>3 DEF VideoTask
  <2>2. At(Counted)' = At(Counted)
    BY <1>1, <2>1, AtKept
  <2> QED BY <1>4, <2>2, AtFinite
<1> QED BY <1>2, <1>3, <1>4

LEMMA PendingBoundedStep == ASSUME IInv, PendingBounded, [Next]_vars PROVE PendingBounded'
<1>1. CASE UNCHANGED vars
  BY <1>1 DEF vars, shared, PendingBounded, At
<1>2. CASE Reboot
  <2>1. At(Counted)' = {} /\ At(Past)' = {}
    BY <1>2 DEF Reboot, At, Counted, Past
  <2>2. Cardinality(At(Counted)') = 0
    BY <2>1, FS_EmptySet
  <2> QED BY <2>1, <2>2, SendingAssumption DEF PendingBounded
<1>3. ASSUME NEW t \in Tasks, NewTask(t) \/ VideoTask(t) PROVE PendingBounded'
  <2> SUFFICES ASSUME ~overlap', ~torn', ~rebooting'
               PROVE  /\ Cardinality(At(Counted)') <= MaxSending + 1
                      /\ At(Past)' # {} => Cardinality(At(Counted)') <= MaxSending
    BY DEF PendingBounded
  <2>1. ~overlap /\ ~torn /\ ~rebooting /\ ~CallReboot(t)
    <3>1. ~CallReboot(t)
      BY DEF CallReboot
    <3>2. rebooting' = rebooting
      BY <1>3, <3>1 DEF VideoTask, NewTask, Release, PassFlag, SetFlag, TestLimit, TestZero,
         RemoveLeftovers, IncRead, IncWrite, StartRecording, EndRecording, ClearFlag,
         ConnectFails, ConnectSucceeds, Send, RemoveOwn, DecRead, DecWrite, ReadCount, shared
    <3>3. overlap \in BOOLEAN /\ overlap' \in {overlap, overlap \/ At(Inside) # {}}
      BY <1>3, <3>1 DEF IInv, TypeOK, VideoTask, NewTask, Release, PassFlag, SetFlag, TestLimit, TestZero,
         RemoveLeftovers, IncRead, IncWrite, StartRecording, EndRecording, ClearFlag,
         ConnectFails, ConnectSucceeds, Send, RemoveOwn, DecRead, DecWrite, ReadCount, shared
    <3>4. torn \in BOOLEAN /\ torn' \in {torn, torn \/ At(Updating) # {}}
      BY <1>3, <3>1 DEF IInv, TypeOK, VideoTask, NewTask, Release, PassFlag, SetFlag, TestLimit, TestZero,
         RemoveLeftovers, IncRead, IncWrite, StartRecording, EndRecording, ClearFlag,
         ConnectFails, ConnectSucceeds, Send, RemoveOwn, DecRead, DecWrite, ReadCount, shared
    <3> QED BY <3>1, <3>2, <3>3, <3>4
  <2>2. /\ Cardinality(At(Counted)) <= MaxSending + 1
        /\ At(Past) # {} => Cardinality(At(Counted)) <= MaxSending
    BY <2>1 DEF PendingBounded
  <2>3. /\ Cardinality(At(Counted)) \in Nat /\ Cardinality(At(Counted)') \in Nat
        /\ MaxSending \in Nat
    <3>1. Cardinality(At(Counted)) \in Nat
      BY AtFinite
    <3>2. At(Counted)' \subseteq Tasks
      BY DEF At
    <3>3. Cardinality(At(Counted)') \in Nat
      BY <3>2, TasksAssumption, FS_Subset, FS_CardinalityType
    <3> QED BY <3>1, <3>3, SendingAssumption
  <2>4. CASE IncWrite(t)
    <3>1. t \in At(Past)
      BY <2>4 DEF IncWrite, At, Past
    <3>2. Cardinality(At(Counted)') = Cardinality(At(Counted)) + 1
      BY <1>3, <2>4, PendingStep
    <3>3. At(Past)' = {}
      BY <2>1, <2>4 DEF IInv, TypeOK, Alone, IncWrite, GoTo, At, Past, Inside
    <3> QED BY <2>2, <2>3, <3>1, <3>2, <3>3
  <2>5. CASE ~IncWrite(t)
    <3>1. Cardinality(At(Counted)') <= Cardinality(At(Counted))
      BY <1>3, <2>5, PendingStep
    <3>2. CASE At(Past) # {} \/ At(Past)' = {}
      BY <2>2, <2>3, <3>1, <3>2
    <3>3. CASE At(Past) = {} /\ At(Past)' # {}
      <4>1. pc[t] \notin Past /\ pc'[t] \in Past
        <5>1. PICK o \in Tasks : pc'[o] \in Past /\ pc[o] \notin Past
          BY <3>3 DEF At
        <5>2. o = t
          BY <1>3, <5>1 DEF IInv, TypeOK, VideoTask, NewTask, Release, PassFlag, SetFlag, TestLimit,
             CallReboot, TestZero, RemoveLeftovers, IncRead, IncWrite, StartRecording,
             EndRecording, ClearFlag, ConnectFails, ConnectSucceeds, Send, RemoveOwn, DecRead,
             DecWrite, ReadCount, GoTo
        <5> QED BY <5>1, <5>2
      <4>2. TestLimit(t) /\ pc'[t] = "zero"
        BY <1>3, <2>1, <4>1 DEF IInv, TypeOK, VideoTask, NewTask, Release, PassFlag, SetFlag, TestLimit,
           TestZero, RemoveLeftovers, IncRead, IncWrite, StartRecording, EndRecording,
           ClearFlag, ConnectFails, ConnectSucceeds, Send, RemoveOwn, DecRead, DecWrite,
           ReadCount, GoTo, Past
      <4>3. ~(hy_mv_record_sending_cunt > MaxSending)
        BY <4>2 DEF TestLimit, GoTo, IInv, TypeOK
      <4> QED BY <2>1, <2>3, <3>1, <4>3, CountIsNumber
    <3> QED BY <3>2, <3>3
  <2> QED BY <2>4, <2>5
<1> QED BY <1>1, <1>2, <1>3 DEF Next
-----------------------------------------------------------------------------
(* The theorems.                                                           *)

LEMMA Invariance == Spec => []IInv
<1>1. Init => IInv
  BY InitInv
<1>2. IInv /\ [Next]_vars => IInv'
  BY NewTaskInv, ReleaseInv, PassFlagInv, SetFlagInv, TestLimitInv, CallRebootInv,
     TestZeroInv, RemoveLeftoversInv, IncReadInv, IncWriteInv, StartRecordingInv,
     EndRecordingInv, ClearFlagInv, ConnectFailsInv, ConnectSucceedsInv, SendInv,
     RemoveOwnInv, DecReadInv, DecWriteInv, RebootInv, StutterInv
  DEF Next, VideoTask
<1> QED BY <1>1, <1>2, PTL DEF Spec

\* Every variable keeps its type.
THEOREM TypeCorrect == Spec => []TypeOK
<1>1. IInv => TypeOK
  BY DEF IInv
<1> QED BY <1>1, Invariance, PTL

\* Until two tasks overlap, the flag says whether one is between its assignments,
\* and it is one only.
THEOREM FlagExactCorrect == Spec => []FlagExact
<1>1. ASSUME IInv PROVE FlagExact
  <2> SUFFICES ASSUME ~overlap
               PROVE  /\ Cardinality(At(Inside)) <= 1
                      /\ hy_mv_record_flag = (At(Inside \ {"set"}) # {})
    BY DEF FlagExact
  <2>1. Cardinality(At(Inside)) <= 1
    <3>1. CASE At(Inside) = {}
      BY <3>1, FS_EmptySet
    <3>2. CASE At(Inside) # {}
      <4>1. PICK t \in Tasks : pc[t] \in Inside
        BY <3>2 DEF At
      <4>2. At(Inside) = {t}
        BY <1>1, <4>1 DEF IInv, Alone, At
      <4> QED BY <4>2, FS_Singleton
    <3> QED BY <3>1, <3>2
  <2>2. hy_mv_record_flag <=> At(Inside \ {"set"}) # {}
    BY <1>1 DEF IInv, Alone, At
  <2>3. hy_mv_record_flag \in BOOLEAN
    BY <1>1 DEF IInv, TypeOK
  <2> QED BY <2>1, <2>2, <2>3
<1> QED BY <1>1, Invariance, PTL

\* Until two updates meet, the count is the number of tasks counted.
THEOREM CountExactCorrect == Spec => []CountExact
<1>1. IInv => CountExact
  BY DEF IInv
<1> QED BY <1>1, Invariance, PTL

\* Until either, no file is removed that is needed.
THEOREM NeededFilesKeptCorrect == Spec => []NeededFilesKept
<1>1. IInv => NeededFilesKept
  BY DEF IInv
<1> QED BY <1>1, Invariance, PTL

\* A reboot is called for only beyond the limit.
THEOREM RebootJustifiedCorrect == Spec => RebootJustified
<1> DEFINE A == \A t \in Tasks :
                 ~torn /\ pc[t] = "limit" /\ pc[t]' = "reboot"
                   => Cardinality(At(Counted)) > MaxSending
<1>1. ASSUME IInv, [Next]_vars PROVE [A]_vars
  <2> SUFFICES ASSUME Next PROVE A
    BY <1>1
  <2> SUFFICES ASSUME NEW t \in Tasks, ~torn, pc[t] = "limit", pc[t]' = "reboot"
               PROVE  Cardinality(At(Counted)) > MaxSending
    OBVIOUS
  <2>1. hy_mv_record_sending_cunt > MaxSending
    BY <1>1 DEF IInv, TypeOK, Next, VideoTask, GoTo, NewTask, Release, PassFlag, SetFlag, TestLimit, CallReboot,
       TestZero, RemoveLeftovers, IncRead, IncWrite, StartRecording, EndRecording, ClearFlag,
       ConnectFails, ConnectSucceeds, Send, RemoveOwn, DecRead, DecWrite, ReadCount, Reboot
  <2>2. \A c \in Nat : c % CuntWidth <= c
    BY SendingAssumption
  <2>3. hy_mv_record_sending_cunt = Cardinality(At(Counted)) % CuntWidth
    BY <1>1 DEF IInv, CountExact
  <2>4. hy_mv_record_sending_cunt \in Nat
    BY <1>1 DEF IInv, TypeOK
  <2> QED BY <2>1, <2>2, <2>3, <2>4, AtFinite, SendingAssumption
<1>2. IInv /\ [Next]_vars => [A]_vars
  BY <1>1
<1> QED BY <1>2, Invariance, PTL DEF Spec, RebootJustified

\* Until two tasks overlap, one at most records.
THEOREM OneUntilOverlapCorrect == Spec => []OneUntilOverlap
<1>1. ASSUME FlagExact PROVE OneUntilOverlap
  <2>1. At({"recording"}) \subseteq At(Inside)
    BY DEF At, Inside
  <2>2. Cardinality(At({"recording"})) <= Cardinality(At(Inside))
    BY <2>1, AtFinite, FS_Subset
  <2> QED BY <1>1, <2>2, AtFinite DEF FlagExact, OneUntilOverlap
<1> QED BY <1>1, FlagExactCorrect, PTL

\* Until two tasks overlap or two updates meet, the uploads pending are bounded by the
\* limit.
THEOREM PendingBoundedCorrect == Spec => []PendingBounded
<1>1. ASSUME Init PROVE PendingBounded
  <2>1. At(Counted) = {} /\ At(Past) = {}
    BY <1>1 DEF Init, At, Counted, Past
  <2> QED BY <2>1, FS_EmptySet, SendingAssumption DEF PendingBounded
<1>2. IInv /\ PendingBounded /\ [Next]_vars => PendingBounded'
  BY PendingBoundedStep
<1> QED BY <1>1, <1>2, Invariance, PTL DEF Spec

\* What is left over is removed unless somebody is counted.
THEOREM LeftoversRemovedCorrect == Spec => LeftoversRemoved
<1> DEFINE A == \A t \in Tasks : ~torn /\ pc[t] = "zero" /\ pc'[t] = "incRead" => At(Counted) # {}
<1>1. ASSUME IInv, Next PROVE A
  <2> SUFFICES ASSUME NEW t \in Tasks, ~torn, pc[t] = "zero", pc'[t] = "incRead"
               PROVE  At(Counted) # {}
    OBVIOUS
  <2>1. hy_mv_record_sending_cunt # 0
    BY <1>1 DEF IInv, TypeOK, Next, VideoTask, GoTo, NewTask, Release, PassFlag, SetFlag, TestLimit,
       CallReboot, TestZero, RemoveLeftovers, IncRead, IncWrite, StartRecording, EndRecording,
       ClearFlag, ConnectFails, ConnectSucceeds, Send, RemoveOwn, DecRead, DecWrite, ReadCount,
       Reboot
  <2> QED BY <1>1, <2>1, CountIsNumber, FS_EmptySet
<1>2. IInv /\ [Next]_vars => [A]_vars
  BY <1>1
<1> QED BY <1>2, Invariance, PTL DEF Spec, LeftoversRemoved
=============================================================================
