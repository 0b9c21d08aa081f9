--------------------------- MODULE MesgDequeProofs ---------------------------
(***************************************************************************)
(* Proofs about MesgDeque, for any number of messages, any width of        *)
(* mesg_nums, with and without spurious wakeups and at every pace of       *)
(* alarms.                                                                 *)
(***************************************************************************)
EXTENDS MesgDeque, Integers, SequenceTheorems, TLAPS

\* The owners of deque_mutex are the threads inside its critical sections.
MutexOwned ==
    /\ (deque_mutex = "decode") <=> putPc \in {"link", "count", "unlock"}
    /\ (deque_mutex = "file") <=> getPc \in {"unlink", "count", "return"}

\* mesg_nums lags behind the list only inside the critical sections, and the
\* list holds nothing that was not put.
CountLags ==
    /\ Len(list) <= Linked
    /\ ~(TookHead /\ getPc \in {"count", "return", "corrupt"}) =>
      Len(list) = IF putPc = "count" THEN mesg_nums + 1
                  ELSE IF getPc = "count" THEN mesg_nums - 1 ELSE mesg_nums

\* ExactlyOnceInOrder node by node, with what hy_get_mesg holds in got_node.
Order ==
    ~TookHead =>
      /\ \A i \in 1..Len(taken) : taken[i] = i
      /\ \A i \in 1..Len(list) : list[i] = Len(taken) + Len(InHand) + i
      /\ Linked = Len(taken) + Len(InHand) + Len(list)
      /\ getPc \in {"lock", "unlink"} => list # <<>> /\ got_node = list[1]
      /\ getPc \in {"count", "return"} => got_node = Len(taken) + 1

\* Before the file thread first waits nothing has been put, and afterwards it
\* has an owner for the condition mutex.
Started ==
    /\ getPc = "handle" => taken # <<>>
    /\ putPc = "link" => puts > 0
    /\ Pace # "any" /\ ~HasWaited =>
         /\ putPc = "idle" /\ puts = 0 /\ list = <<>> /\ mesg_nums = 0
         /\ deque_condition_mutex = nobody

\* What the file thread can have missed when it decides to wait.
Waiting ==
    Pace # "any" /\ getPc \in {"wait", "parked"} =>
      \/ list = <<>>
      \/ /\ Len(list) = 1
         /\ putPc \in {"count", "unlock", "test", "lockCond", "signal"}

IInv == TypeOK /\ MutexOwned /\ CountLags /\ Order /\ Started
          /\ CondMutexOwned /\ Waiting

USE BoundsAssumption, EnvironmentAssumption

LEMMA Lengths ==
    TypeOK => /\ Len(taken) \in Nat /\ Len(list) \in Nat
              /\ (Len(list) = 0) <=> (list = <<>>)
              /\ Len(InHand) = IF getPc \in {"count", "return"} THEN 1 ELSE 0
              /\ Len(InHand) \in Nat
  BY DEF TypeOK, InHand

LEMMA InitIInv == Init => IInv
  BY DEF Init, IInv, TypeOK, MutexOwned, CountLags, Order, Started,
         CondMutexOwned, Waiting, TookHead, Linked, InHand, HasWaited, HEAD,
         Threads, nobody

LEMMA StepTypeOK == IInv /\ [Next]_vars => TypeOK'
<1> SUFFICES ASSUME IInv, [Next]_vars
             PROVE  TypeOK'
  OBVIOUS
<1> USE DEF IInv, TypeOK, Threads, nobody, HEAD
<1>1. CASE PutLock
  BY <1>1 DEF PutLock
<1>2. CASE PutStep
  <2>1. CASE PutLink
    <3>1. puts \in 1..MaxPuts
      BY <2>1 DEF PutLink, Started
    <3> QED  BY <2>1, <3>1 DEF PutLink
  <2>2. CASE PutCount
    BY <2>2 DEF PutCount, Incremented
  <2>3. CASE PutUnlock \/ PutTest \/ PutLockCond \/ PutSignal \/ PutUnlockCond
    BY <2>3 DEF PutUnlock, PutTest, PutLockCond, PutSignal, PutUnlockCond
  <2> QED  BY <1>2, <2>1, <2>2, <2>3 DEF PutStep
<1>3. CASE GetStep
  <2>1. CASE GetTest \/ CondWait \/ CondReturn \/ GetLock \/ Handle
    BY <2>1 DEF GetTest, CondWait, CondReturn, GetLock, Handle
  <2>2. CASE GetRead
    BY <2>2 DEF GetRead, FirstNode
  <2>3. CASE GetUnlink
    <3>1. ListWithoutFirst \in Seq(1..MaxPuts)
      <4>1. CASE list = <<>>
        BY <4>1 DEF ListWithoutFirst
      <4>2. CASE list # <<>>
        BY <4>2 DEF ListWithoutFirst
      <4> QED  BY <4>1, <4>2
    <3> QED  BY <2>3, <3>1 DEF GetUnlink
  <2>4. CASE GetCount
    BY <2>4 DEF GetCount, Decremented
  <2>5. CASE GetReturn
    BY <2>5 DEF GetReturn
  <2> QED  BY <1>3, <2>1, <2>2, <2>3, <2>4, <2>5 DEF GetStep
<1>4. CASE SpuriousWakeup
  BY <1>4 DEF SpuriousWakeup
<1>5. CASE UNCHANGED vars
  BY <1>5 DEF vars
<1> QED  BY <1>1, <1>2, <1>3, <1>4, <1>5 DEF Next

LEMMA StepMutexOwned == IInv /\ [Next]_vars => MutexOwned'
<1> SUFFICES ASSUME IInv, [Next]_vars
             PROVE  MutexOwned'
  OBVIOUS
<1> USE DEF IInv, TypeOK, MutexOwned, Threads, nobody
<1>1. CASE PutLock
  BY <1>1 DEF PutLock
<1>2. CASE PutStep
  BY <1>2 DEF PutStep, PutLink, PutCount, PutUnlock, PutTest, PutLockCond,
              PutSignal, PutUnlockCond
<1>3. CASE GetStep
  BY <1>3 DEF GetStep, GetTest, CondWait, CondReturn, GetRead, GetLock,
              GetUnlink, GetCount, GetReturn, Handle
<1>4. CASE SpuriousWakeup
  BY <1>4 DEF SpuriousWakeup
<1>5. CASE UNCHANGED vars
  BY <1>5 DEF vars
<1> QED  BY <1>1, <1>2, <1>3, <1>4, <1>5 DEF Next

LEMMA StepCountLags == IInv /\ [Next]_vars => CountLags'
<1> SUFFICES ASSUME IInv, [Next]_vars
             PROVE  CountLags'
  OBVIOUS
<1> USE DEF IInv, TypeOK, MutexOwned, CountLags, TookHead, HEAD, Linked
<1>1. CASE PutLock
  BY <1>1 DEF PutLock
<1>2. CASE PutStep
  <2>1. CASE PutLink
    BY <2>1 DEF PutLink, Corrupt
  <2>2. CASE PutCount
    <3>1. getPc \notin {"count", "return", "corrupt"}
      BY <2>2 DEF PutCount, Corrupt
    <3>2. Len(list) = mesg_nums + 1 /\ Len(list) <= MaxPuts
      BY <2>2, <3>1, Lengths DEF PutCount
    <3>3. mesg_nums' = mesg_nums + 1
      BY <2>2, <3>2, Lengths DEF PutCount, Incremented
    <3> QED  BY <2>2, <3>1, <3>2, <3>3 DEF PutCount
  <2>3. CASE PutUnlock \/ PutTest \/ PutLockCond \/ PutSignal \/ PutUnlockCond
    BY <2>3 DEF PutUnlock, PutTest, PutLockCond, PutSignal, PutUnlockCond
  <2> QED  BY <1>2, <2>1, <2>2, <2>3 DEF PutStep
<1>3. CASE GetStep
  <2>1. CASE GetTest \/ CondWait \/ CondReturn \/ GetRead \/ GetLock \/ Handle
    BY <2>1 DEF GetTest, CondWait, CondReturn, GetRead, GetLock, Handle
  <2>2. CASE GetUnlink
    <3>1. CASE list = <<>>
      <4>1. TookHead'
        BY <2>2, <3>1 DEF GetUnlink, Order
      <4> QED  BY <2>2, <3>1, <4>1 DEF GetUnlink, ListWithoutFirst
    <3>2. CASE list # <<>>
      <4>1. Len(list') = Len(list) - 1
        BY <2>2, <3>2 DEF GetUnlink, ListWithoutFirst
      <4> QED  BY <2>2, <4>1, Lengths DEF GetUnlink
    <3> QED  BY <3>1, <3>2
  <2>3. CASE GetCount
    BY <2>3 DEF GetCount, Decremented
  <2>4. CASE GetReturn
    BY <2>4 DEF GetReturn
  <2> QED  BY <1>3, <2>1, <2>2, <2>3, <2>4 DEF GetStep
<1>4. CASE SpuriousWakeup
  BY <1>4 DEF SpuriousWakeup
<1>5. CASE UNCHANGED vars
  BY <1>5 DEF vars
<1> QED  BY <1>1, <1>2, <1>3, <1>4, <1>5 DEF Next

LEMMA StepOrder == IInv /\ [Next]_vars => Order'
<1> SUFFICES ASSUME IInv, [Next]_vars
             PROVE  Order'
  OBVIOUS
<1> USE DEF IInv, TypeOK, MutexOwned, Order, TookHead, HEAD, Linked, InHand
<1>1. CASE PutLock
  BY <1>1 DEF PutLock
<1>2. CASE PutStep
  <2>1. CASE PutLink
    <3> SUFFICES ASSUME ~TookHead
                 PROVE  Order'
      BY <2>1 DEF PutLink
    <3>1. /\ Len(list') = Len(list) + 1
          /\ \A i \in 1..Len(list) : list'[i] = list[i]
          /\ list'[Len(list) + 1] = puts
      BY <2>1 DEF PutLink
    <3> HIDE DEF InHand
    <3>2. puts = Len(taken) + Len(InHand) + Len(list) + 1
      BY <2>1, Lengths DEF PutLink
    <3>3. ASSUME NEW i \in 1..Len(list')
          PROVE  list'[i] = Len(taken) + Len(InHand) + i
      <4>1. CASE i = Len(list) + 1
        BY <3>1, <3>2, <4>1, Lengths
      <4>2. CASE i # Len(list) + 1
        <5>1. i \in 1..Len(list)
          BY <3>1, <4>2, Lengths
        <5> QED  BY <3>1, <5>1
      <4> QED  BY <4>1, <4>2
    <3>4. Linked' = Len(taken) + Len(InHand) + Len(list')
      BY <2>1, <3>1, <3>2, Lengths DEF PutLink
    <3>5. InHand' = InHand /\ taken' = taken /\ getPc' = getPc
          /\ got_node' = got_node
      BY <2>1 DEF PutLink, InHand
    <3>6. getPc \in {"lock", "unlink"} => list' # <<>> /\ list'[1] = list[1]
      <4>1. list # <<>> => 1 \in 1..Len(list)
        BY Lengths
      <4>2. list' = <<>> => Len(list') = 0
        OBVIOUS
      <4>3. list' # <<>>
        BY <3>1, <4>2, Lengths
      <4> QED  BY <3>1, <4>1, <4>3
    <3> QED  BY <3>3, <3>4, <3>5, <3>6
  <2>2. CASE PutCount \/ PutUnlock \/ PutTest \/ PutLockCond \/ PutSignal
               \/ PutUnlockCond
    BY <2>2 DEF PutCount, PutUnlock, PutTest, PutLockCond, PutSignal,
                PutUnlockCond
  <2> QED  BY <1>2, <2>1, <2>2 DEF PutStep
<1>3. CASE GetStep
  <2>1. CASE GetTest \/ CondWait \/ CondReturn \/ GetLock \/ GetCount \/ Handle
    BY <2>1 DEF GetTest, CondWait, CondReturn, GetLock, GetCount, Handle
  <2>2. CASE GetRead
    BY <2>2 DEF GetRead, FirstNode
  <2>3. CASE GetUnlink
    <3> SUFFICES ASSUME ~TookHead
                 PROVE  Order'
      BY <2>3 DEF GetUnlink
    <3>1. list # <<>> /\ got_node = list[1] /\ list' = Tail(list)
      BY <2>3 DEF GetUnlink, ListWithoutFirst
    <3>2. /\ Len(list') = Len(list) - 1
          /\ \A i \in 1..Len(list') : list'[i] = list[i + 1]
      BY <3>1
    <3>3. Len(InHand) = 0 /\ Len(InHand') = 1
      BY <2>3 DEF GetUnlink
    <3> HIDE DEF InHand
    <3>4. got_node = Len(taken) + 1
      <4>1. 1 \in 1..Len(list)
        BY <3>1, Lengths
      <4> QED  BY <3>1, <3>3, <4>1, Lengths
    <3>5. ASSUME NEW i \in 1..Len(list')
          PROVE  list'[i] = Len(taken) + Len(InHand') + i
      <4>1. i + 1 \in 1..Len(list)
        BY <3>2, Lengths
      <4> QED  BY <3>2, <3>3, <4>1, Lengths
    <3>6. Linked' = Len(taken) + Len(InHand') + Len(list')
      <4>1. Linked = Len(taken) + Len(InHand) + Len(list)
        OBVIOUS
      <4>2. Linked' = Linked
        BY <2>3 DEF GetUnlink
      <4> HIDE DEF Linked
      <4> QED  BY <3>2, <3>3, <4>1, <4>2, Lengths
    <3> QED  BY <2>3, <3>4, <3>5, <3>6 DEF GetUnlink
  <2>4. CASE GetReturn
    BY <2>4 DEF GetReturn
  <2> QED  BY <1>3, <2>1, <2>2, <2>3, <2>4 DEF GetStep
<1>4. CASE SpuriousWakeup
  BY <1>4 DEF SpuriousWakeup
<1>5. CASE UNCHANGED vars
  BY <1>5 DEF vars
<1> QED  BY <1>1, <1>2, <1>3, <1>4, <1>5 DEF Next

LEMMA StepStarted == IInv /\ [Next]_vars => Started'
<1> SUFFICES ASSUME IInv, [Next]_vars
             PROVE  Started'
  OBVIOUS
<1> USE DEF IInv, TypeOK, Started, HasWaited
<1>1. CASE PutLock
  <2>1. Pace # "any" => HasWaited
    <3>1. CASE Pace = "afterFirstWait"
      BY <1>1, <3>1 DEF PutLock, MayPut
    <3>2. CASE Pace = "whileWaiting"
      BY <1>1, <3>2 DEF PutLock, MayPut
    <3> QED  BY <3>1, <3>2
  <2> QED  BY <1>1, <2>1 DEF PutLock
<1>2. CASE PutStep
  BY <1>2 DEF PutStep, PutLink, PutCount, PutUnlock, PutTest, PutLockCond,
              PutSignal, PutUnlockCond
<1>3. CASE GetStep
  <2>1. CASE GetTest \/ CondWait \/ CondReturn \/ GetRead \/ GetLock
               \/ GetUnlink \/ GetCount \/ Handle
    BY <2>1 DEF GetTest, CondWait, CondReturn, GetRead, GetLock, GetUnlink,
                GetCount, Handle
  <2>2. CASE GetReturn
    BY <2>2 DEF GetReturn
  <2> QED  BY <1>3, <2>1, <2>2 DEF GetStep
<1>4. CASE SpuriousWakeup
  BY <1>4 DEF SpuriousWakeup
<1>5. CASE UNCHANGED vars
  BY <1>5 DEF vars
<1> QED  BY <1>1, <1>2, <1>3, <1>4, <1>5 DEF Next

LEMMA StepCondMutexOwned == IInv /\ [Next]_vars => CondMutexOwned'
<1> SUFFICES ASSUME IInv, [Next]_vars
             PROVE  CondMutexOwned'
  OBVIOUS
<1> USE DEF IInv, TypeOK, Started, CondMutexOwned, HasWaited, nobody
<1>1. CASE PutLock
  BY <1>1 DEF PutLock
<1>2. CASE PutStep
  BY <1>2 DEF PutStep, PutLink, PutCount, PutUnlock, PutTest, PutLockCond,
              PutSignal, PutUnlockCond
<1>3. CASE GetStep
  <2>1. CASE GetTest \/ CondWait \/ CondReturn
    BY <2>1 DEF GetTest, CondWait, CondReturn
  <2>2. CASE GetRead \/ GetLock \/ GetUnlink \/ GetCount \/ Handle
    BY <2>2 DEF GetRead, GetLock, GetUnlink, GetCount, Handle
  <2>3. CASE GetReturn
    BY <2>3 DEF GetReturn
  <2> QED  BY <1>3, <2>1, <2>2, <2>3 DEF GetStep
<1>4. CASE SpuriousWakeup
  BY <1>4 DEF SpuriousWakeup
<1>5. CASE UNCHANGED vars
  BY <1>5 DEF vars
<1> QED  BY <1>1, <1>2, <1>3, <1>4, <1>5 DEF Next

LEMMA StepWaiting == IInv /\ [Next]_vars => Waiting'
<1> SUFFICES ASSUME IInv, [Next]_vars
             PROVE  Waiting'
  OBVIOUS
<1> USE DEF IInv, TypeOK, Waiting, CountLags, TookHead, HEAD
<1>1. CASE PutLock
  BY <1>1 DEF PutLock
<1>2. CASE PutStep
  <2>1. CASE PutLink
    BY <2>1 DEF PutLink
  <2>2. CASE PutTest
    BY <2>2 DEF PutTest
  <2>3. CASE PutSignal
    BY <2>3 DEF PutSignal, CondMutexOwned, Started
  <2>4. CASE PutCount \/ PutUnlock \/ PutLockCond \/ PutUnlockCond
    BY <2>4 DEF PutCount, PutUnlock, PutLockCond, PutUnlockCond
  <2> QED  BY <1>2, <2>1, <2>2, <2>3, <2>4 DEF PutStep
<1>3. CASE GetStep
  <2>1. CASE GetTest
    <3>1. Len(list) = 0 => list = <<>>
      OBVIOUS
    <3>2. ~TookHead
      BY <2>1 DEF GetTest
    <3>3. Len(list) = IF putPc = "count" THEN mesg_nums + 1 ELSE mesg_nums
      BY <2>1, <3>2 DEF GetTest
    <3>4. mesg_nums = 0 => list = <<>> \/ (Len(list) = 1 /\ putPc = "count")
      BY <3>1, <3>3
    <3> QED  BY <2>1, <3>4 DEF GetTest
  <2>2. CASE CondWait \/ CondReturn \/ GetRead \/ GetLock \/ GetUnlink
               \/ GetCount \/ GetReturn \/ Handle
    BY <2>2 DEF CondWait, CondReturn, GetRead, GetLock, GetUnlink, GetCount,
                GetReturn, Handle
  <2> QED  BY <1>3, <2>1, <2>2 DEF GetStep
<1>4. CASE SpuriousWakeup
  BY <1>4 DEF SpuriousWakeup
<1>5. CASE UNCHANGED vars
  BY <1>5 DEF vars
<1> QED  BY <1>1, <1>2, <1>3, <1>4, <1>5 DEF Next

LEMMA StepIInv == IInv /\ [Next]_vars => IInv'
  BY StepTypeOK, StepMutexOwned, StepCountLags, StepOrder, StepStarted,
     StepCondMutexOwned, StepWaiting DEF IInv

LEMMA SpecIInv == Spec => []IInv
  BY InitIInv, StepIInv, PTL DEF Spec

-----------------------------------------------------------------------------
\* Every variable keeps its type in every state, whatever the number of
\* messages and the width of mesg_nums: mesg_nums (hy_deque.c:43, 73) wraps
\* instead of leaving the range of hy_u32.
THEOREM TypeCorrect == Spec => []TypeOK
<1>1. IInv => TypeOK
  BY DEF IInv
<1> QED  BY <1>1, SpecIInv, PTL

\* mesg_nums is the length of the list in every state in which no thread is
\* inside a critical section of deque_mutex.
THEOREM CountCorrect == Spec => []CountMatchesList
<1>1. IInv => CountMatchesList
  BY DEF IInv, TypeOK, MutexOwned, CountLags, CountMatchesList, Corrupt, TookHead,
         nobody
<1> QED  BY <1>1, SpecIInv, PTL

\* Nothing is lost, duplicated or reordered between hy_put_mesg and
\* hy_get_mesg before the list head is taken for a message.
THEOREM OrderCorrect == Spec => []ExactlyOnceInOrder
<1>1. IInv => ExactlyOnceInOrder
  <2> SUFFICES ASSUME IInv, ~TookHead
               PROVE  taken \o InHand \o list = [i \in 1..Linked |-> i]
    BY DEF ExactlyOnceInOrder
  <2> USE DEF IInv
  <2>1. /\ taken \in Seq(Int) /\ InHand \in Seq(Int) /\ list \in Seq(Int)
        /\ Linked \in Nat
    BY DEF TypeOK, InHand, Linked, Started
  <2>2. \A i \in 1..Len(InHand) : InHand[i] = Len(taken) + i
    BY DEF Order, InHand, TypeOK
  <2>3. /\ \A i \in 1..Len(taken) : taken[i] = i
        /\ \A i \in 1..Len(list) : list[i] = Len(taken) + Len(InHand) + i
        /\ Linked = Len(taken) + Len(InHand) + Len(list)
    BY DEF Order
  <2> DEFINE got == taken \o InHand
             all == got \o list
  <2>4. got \in Seq(Int) /\ Len(got) = Len(taken) + Len(InHand)
    BY <2>1, ConcatProperties
  <2>5. ASSUME NEW i \in 1..Len(got)
        PROVE  got[i] = i
    <3>1. got[i] = IF i <= Len(taken) THEN taken[i] ELSE InHand[i - Len(taken)]
      BY <2>1, <2>4, ConcatProperties
    <3>2. i \in Nat /\ i >= 1 /\ i <= Len(taken) + Len(InHand)
      BY <2>4, Lengths
    <3> HIDE DEF got
    <3>3. CASE i <= Len(taken)
      BY <2>3, <3>1, <3>2, <3>3, Lengths
    <3>4. CASE ~(i <= Len(taken))
      <4>1. i - Len(taken) \in 1..Len(InHand)
        BY <3>2, <3>4, Lengths
      <4> QED  BY <2>2, <3>1, <3>2, <3>4, <4>1, Lengths
    <3> QED  BY <3>3, <3>4
  <2> HIDE DEF got
  <2>6. all \in Seq(Int) /\ Len(all) = Linked
    <3>1. all \in Seq(Int) /\ Len(all) = Len(got) + Len(list)
      BY <2>1, <2>4, ConcatProperties
    <3> QED  BY <2>3, <2>4, <3>1, Lengths
  <2>7. ASSUME NEW i \in 1..Linked
        PROVE  all[i] = i
    <3>1. all[i] = IF i <= Len(got) THEN got[i] ELSE list[i - Len(got)]
      BY <2>1, <2>3, <2>4, ConcatProperties
    <3>2. CASE i <= Len(got)
      BY <2>4, <2>5, <3>1, <3>2, Lengths
    <3>3. CASE ~(i <= Len(got))
      <4>1. i - Len(got) \in 1..Len(list)
        BY <2>3, <2>4, <3>3, Lengths
      <4> QED  BY <2>3, <2>4, <3>1, <3>3, <4>1, Lengths
    <3> QED  BY <3>2, <3>3
  <2> HIDE DEF all
  <2>8. all = [i \in 1..Linked |-> i]
    BY <2>6, <2>7
  <2> QED  BY <2>8 DEF all, got
<1> QED  BY <1>1, SpecIInv, PTL

\* When the file thread waits before the first put, the condition mutex has
\* the owner the code relies on, though hy_get_mesg never locks it.
THEOREM CondMutexCorrect == Spec => []CondMutexOwned
<1>1. IInv => CondMutexOwned
  BY DEF IInv
<1> QED  BY <1>1, SpecIInv, PTL

\* When the file thread waits before the first put, no wakeup is lost.
THEOREM WakeupCorrect == Spec => []NoLostWakeup
<1>1. IInv => NoLostWakeup
  BY Lengths DEF IInv, Waiting, NoLostWakeup, CountLags, TookHead
<1> QED  BY <1>1, SpecIInv, PTL
-----------------------------------------------------------------------------
(* What holds at every pace of alarms, until the list head is taken.       *)

\* A get that has taken the list head never gets rid of it.
LEMMA HeadStays == TypeOK /\ TookHead /\ [Next]_vars => TookHead'
<1> SUFFICES ASSUME TypeOK, TookHead, [Next]_vars
             PROVE  TookHead'
  OBVIOUS
<1> USE DEF TookHead, HEAD
<1>1. CASE PutLock
  BY <1>1 DEF PutLock
<1>2. CASE PutStep
  BY <1>2 DEF PutStep, PutLink, PutCount, PutUnlock, PutTest, PutLockCond,
              PutSignal, PutUnlockCond
<1>3. CASE GetStep
  BY <1>3 DEF GetStep, GetTest, CondWait, CondReturn, GetRead, GetLock,
              GetUnlink, GetCount, GetReturn, Handle
<1>4. CASE SpuriousWakeup
  BY <1>4 DEF SpuriousWakeup
<1>5. CASE UNCHANGED vars
  BY <1>5 DEF vars
<1> QED  BY <1>1, <1>2, <1>3, <1>4, <1>5 DEF Next

\* Each statement of hy_put_mesg and hy_get_mesg is a step of the queue or a
\* stutter, as long as the list head is not taken: linking a node is the
\* abstract Put, returning it the abstract Get.
LEMMA StepOfQueue ==
    ASSUME IInv, [Next]_vars, ~TookHead'
    PROVE  [Fifo!QNext]_(Fifo!qvars)
<1> USE DEF IInv, TypeOK, Fifo!qvars
<1>0. ~TookHead
  BY HeadStays
<1>1. CASE PutLink
  <2>1. InHand = <<>> /\ InHand' = <<>>
    BY <1>1 DEF PutLink, MutexOwned, InHand
  <2>2. InHand \o list = list /\ InHand' \o list' = list'
    BY <1>1, <2>1 DEF PutLink
  <2>3. puts = Len(taken) + Len(list) + 1
    BY <1>0, <1>1, <2>1, Lengths DEF PutLink, Order, Linked
  <2> QED  BY <1>1, <2>2, <2>3 DEF PutLink, Fifo!QNext, Fifo!Put
<1>2. CASE GetUnlink
  <2>1. list # <<>> /\ got_node = list[1]
    BY <1>0, <1>2 DEF GetUnlink, Order
  <2>2. InHand \o list = list
    BY <1>2 DEF GetUnlink, InHand
  <2>3. InHand' \o list' = <<list[1]>> \o Tail(list)
    BY <1>2, <2>1 DEF GetUnlink, ListWithoutFirst, InHand
  <2>4. <<list[1]>> \o Tail(list) = list
    BY <2>1
  <2> QED  BY <1>2, <2>2, <2>3, <2>4 DEF GetUnlink
<1>3. CASE GetReturn
  <2>1. InHand = <<got_node>> /\ InHand' = <<>>
    BY <1>3 DEF GetReturn, InHand
  <2>2. /\ InHand \o list # <<>>
        /\ Head(InHand \o list) = got_node
        /\ Tail(InHand \o list) = list
    BY <2>1
  <2>3. InHand' \o list' = list
    BY <1>3, <2>1 DEF GetReturn
  <2> QED  BY <1>3, <2>2, <2>3 DEF GetReturn, Fifo!QNext, Fifo!Get
<1>4. CASE PutLock \/ PutCount \/ PutUnlock \/ PutTest \/ PutLockCond
             \/ PutUnlockCond
  BY <1>4 DEF PutLock, PutCount, PutUnlock, PutTest, PutLockCond,
              PutUnlockCond, InHand
<1>5. CASE PutSignal
  BY <1>5 DEF PutSignal, InHand
<1>6. CASE GetTest \/ CondWait \/ CondReturn \/ GetRead \/ GetLock
             \/ GetCount \/ Handle \/ SpuriousWakeup \/ UNCHANGED vars
  BY <1>6 DEF GetTest, CondWait, CondReturn, GetRead, GetLock, GetCount,
              Handle, SpuriousWakeup, vars, InHand
<1> QED  BY <1>1, <1>2, <1>3, <1>4, <1>5, <1>6 DEF Next, PutStep, GetStep

\* The deque behaves as the queue up to the step that takes the list head,
\* and a deque that has taken it is lost for good.
QueueUntilHead == [][/\ TookHead' \/ [Fifo!QNext]_(Fifo!qvars)
                     /\ TookHead => TookHead']_vars

\* At any pace of alarms and with spurious wakeups the deque implements the
\* queue its users expect until hy_get_mesg picks up the list head: the
\* unlocked reads of mesg_nums and head->next (hy_deque.c:48, 65, 69) do no
\* other harm.
THEOREM RefinesQueueUntilHead == Spec => Fifo!QInit /\ QueueUntilHead
<1>1. Init => Fifo!QInit
  BY DEF Init, Fifo!QInit, InHand
<1>2. ASSUME IInv, [Next]_vars
      PROVE  /\ TookHead' \/ [Fifo!QNext]_(Fifo!qvars)
             /\ TookHead => TookHead'
  BY <1>2, StepOfQueue, HeadStays DEF IInv
<1> QED  BY <1>1, <1>2, SpecIInv, PTL DEF Spec, QueueUntilHead

\* Only the missing second test lets a get take the list head.
THEOREM HeadOnlyAfterWakeupCorrect == Spec => HeadOnlyAfterWakeup
<1>1. ASSUME IInv, [Next]_vars, getPc = "test", getPc' = "read"
      PROVE  list # <<>>
  <2>1. mesg_nums # 0
    <3>1. GetTest
      BY <1>1 DEF Next, PutLock, PutStep, PutLink, PutCount, PutUnlock, PutTest,
         PutLockCond, PutSignal, PutUnlockCond, GetStep, CondWait, CondReturn,
         GetRead, GetLock, GetUnlink, GetCount, GetReturn, Handle, SpuriousWakeup,
         vars
    <3> QED  BY <1>1, <3>1 DEF GetTest
  <2>2. Len(list) = IF putPc = "count" THEN mesg_nums + 1 ELSE mesg_nums
    BY <1>1 DEF IInv, CountLags
  <2>3. mesg_nums \in Nat
    BY <1>1 DEF IInv, TypeOK
  <2> QED  BY <1>1, <2>1, <2>2, <2>3, Lengths DEF IInv
<1>2. ASSUME IInv, [Next]_vars, getPc = "read", list # <<>>
      PROVE  list' # <<>> /\ ~TookHead'
  <2> USE DEF IInv, TypeOK
  <2>1. CASE PutLink
    <3>1. Len(list') = Len(list) + 1
      BY <2>1 DEF PutLink
    <3>2. list' = <<>> => Len(list') = 0
      OBVIOUS
    <3> QED  BY <1>2, <2>1, <3>1, <3>2, Lengths DEF PutLink, TookHead
  <2>2. CASE GetRead
    <3>1. got_node' \in 1..MaxPuts
      BY <1>2, <2>2 DEF GetRead, FirstNode
    <3> QED  BY <1>2, <2>2, <3>1 DEF GetRead, TookHead, HEAD
  <2>3. CASE ~PutLink /\ ~GetRead
    <3>1. list' = list /\ getPc' = "read"
      BY <1>2, <2>3 DEF Next, PutLock, PutStep, PutCount, PutUnlock, PutTest,
         PutLockCond, PutSignal, PutUnlockCond, GetStep, GetTest, CondWait,
         CondReturn, GetLock, GetUnlink, GetCount, GetReturn, Handle,
         SpuriousWakeup, vars
    <3> QED  BY <1>2, <3>1 DEF TookHead
  <2> QED  BY <2>1, <2>2, <2>3
<1> QED  BY <1>1, <1>2, SpecIInv, PTL DEF Spec, HeadOnlyAfterWakeup

\* mesg_nums counts up and down by one: hy_u32 does not wrap, at 0 or at its
\* other end, before the list head is taken (hy_deque.c:43, 73).
CountNeverWraps ==
    [][~TookHead' => \/ mesg_nums' = mesg_nums
                     \/ mesg_nums' = mesg_nums + 1
                     \/ mesg_nums' = mesg_nums - 1]_vars

\* The count wraps only when the list head has been taken.
THEOREM CountNeverWrapsCorrect == Spec => CountNeverWraps
<1>1. ASSUME IInv, [Next]_vars, ~TookHead'
      PROVE  \/ mesg_nums' = mesg_nums
             \/ mesg_nums' = mesg_nums + 1
             \/ mesg_nums' = mesg_nums - 1
  <2>0. ~TookHead
    BY <1>1, HeadStays DEF IInv
  <2> USE DEF IInv, TypeOK
  <2>1. CASE PutCount
    <3>1. Len(list) = mesg_nums + 1 /\ Len(list) <= MaxPuts
      <4>1. getPc # "count"
        BY <1>1, <2>1 DEF PutCount, MutexOwned
      <4>2. Linked <= MaxPuts
        BY <1>1, <2>1 DEF PutCount, Linked
      <4> QED  BY <1>1, <2>0, <2>1, <4>1, <4>2, Lengths
               DEF PutCount, CountLags, Linked
    <3> QED  BY <1>1, <2>1, <3>1 DEF PutCount, Incremented
  <2>2. CASE GetCount
    <3>1. mesg_nums # 0
      <4>1. putPc # "count"
        BY <1>1, <2>2 DEF GetCount, MutexOwned
      <4>2. Len(list) = mesg_nums - 1
        BY <1>1, <2>0, <2>2, <4>1 DEF GetCount, CountLags
      <4> QED  BY <1>1, <4>2, Lengths
    <3> QED  BY <1>1, <2>2, <3>1 DEF GetCount, Decremented
  <2>3. CASE ~PutCount /\ ~GetCount
    BY <1>1, <2>3 DEF Next, PutLock, PutStep, PutLink, PutUnlock, PutTest,
       PutLockCond, PutSignal, PutUnlockCond, GetStep, GetTest, CondWait,
       CondReturn, GetRead, GetLock, GetUnlink, GetReturn, Handle,
       SpuriousWakeup, vars
  <2> QED  BY <2>1, <2>2, <2>3
<1> QED  BY <1>1, SpecIInv, PTL DEF Spec, CountNeverWraps

\* Where a thread cannot go on without the other: the decode thread at the lock
\* of either mutex, the file thread at the lock of deque_mutex, asleep, and
\* where pthread_cond_wait takes the condition mutex again.
PutWaits == \/ putPc = "idle" /\ deque_mutex # nobody
            \/ putPc = "lockCond" /\ deque_condition_mutex # nobody
GetWaits == \/ getPc = "parked"
            \/ getPc = "lock" /\ deque_mutex # nobody
            \/ getPc = "signalled" /\ deque_condition_mutex # nobody

\* The two threads never wait for each other, although the file thread keeps
\* the condition mutex while it locks the other one and while it handles
\* messages (hy_deque.c:39, 50, 67, 71).
NeverBothWait == ~(PutWaits /\ GetWaits)

\* Who sleeps, or is about to return from pthread_cond_wait, does not own the
\* condition mutex, and the decode thread owns it only up to its unlock.
CondFreed ==
    /\ getPc \in {"parked", "signalled"} => deque_condition_mutex # "file"
    /\ deque_condition_mutex = "decode" => putPc \in {"signal", "unlockCond"}

LEMMA StepCondFreed == IInv /\ CondFreed /\ [Next]_vars => CondFreed'
<1> SUFFICES ASSUME IInv, CondFreed, [Next]_vars
             PROVE  CondFreed'
  OBVIOUS
<1> USE DEF IInv, TypeOK, CondFreed, nobody
<1>1. CASE PutLock
  BY <1>1 DEF PutLock
<1>2. CASE PutStep
  BY <1>2 DEF PutStep, PutLink, PutCount, PutUnlock, PutTest, PutLockCond,
              PutSignal, PutUnlockCond
<1>3. CASE GetStep
  BY <1>3 DEF GetStep, GetTest, CondWait, CondReturn, GetRead, GetLock,
              GetUnlink, GetCount, GetReturn, Handle
<1>4. CASE SpuriousWakeup
  BY <1>4 DEF SpuriousWakeup
<1>5. CASE UNCHANGED vars
  BY <1>5 DEF vars
<1> QED  BY <1>1, <1>2, <1>3, <1>4, <1>5 DEF Next

\* Neither mutex, nor both together, nor the condition, can make the two
\* threads wait for each other, at any pace of alarms.
THEOREM NeverBothWaitCorrect == Spec => []NeverBothWait
<1>1. Init => CondFreed
  BY DEF Init, CondFreed, nobody
<1>2. IInv /\ CondFreed => NeverBothWait
  BY DEF IInv, TypeOK, MutexOwned, CondFreed, NeverBothWait, PutWaits, GetWaits,
         Threads, nobody
<1> QED  BY <1>1, <1>2, StepCondFreed, SpecIInv, PTL DEF Spec
=============================================================================
