------------------------------ MODULE MesgDeque ------------------------------
(***************************************************************************)
(* The message deque of src/hy_proj/base/src/hy_deque.c between its two    *)
(* users: the decode thread, the only caller of hy_put_mesg (decode.c:598, *)
(* 655), and the file management thread, the only caller of hy_get_mesg    *)
(* (hy_file_manage.c:608).  One action per statement that touches state    *)
(* the other thread sees: hy_put_mesg and hy_get_mesg read mesg_nums and   *)
(* head->next without the mutex that protects them, and hy_get_mesg calls  *)
(* pthread_cond_wait on a mutex it has not locked.                         *)
(*                                                                         *)
(* That call is undefined in POSIX.  The library the program is built with *)
(* (glibc, default mutex type) checks no owner: the wait frees the mutex   *)
(* whoever holds it, and takes it before it returns.  Nothing in           *)
(* hy_get_mesg ever unlocks it, so from its first return on the file       *)
(* thread owns deque_condition_mutex except while it waits.                *)
(***************************************************************************)
EXTENDS Naturals, Sequences

CONSTANTS
    MaxPuts,      \* bound on the number of messages put in a behaviour
    NumsWidth,    \* number of values of mesg_nums, a hy_u32: 2^32 in the code
    Spurious,     \* may pthread_cond_wait return without a signal?
    Pace          \* when the decode thread finds an alarm, see MayPut

ASSUME BoundsAssumption == /\ MaxPuts \in Nat
                           /\ NumsWidth \in Nat
                           /\ MaxPuts < NumsWidth
ASSUME EnvironmentAssumption ==
    /\ Spurious \in BOOLEAN
    /\ Pace \in {"any", "afterFirstWait", "whileWaiting"}

VARIABLES
    list,         \* the nodes linked behind deque->head, oldest first
    mesg_nums,    \* deque->mesg_nums
    deque_mutex,  \* owner of deque->deque_mutex
    deque_condition_mutex,  \* owner of deque->deque_condition_mutex
    putPc,        \* where the decode thread is in hy_put_mesg
    getPc,        \* where the file management thread is in hy_get_mesg
    got_node,     \* hy_get_mesg's local of that name
    puts,         \* messages created by the decode thread so far
    taken         \* what hy_get_mesg has returned, oldest first

vars == <<list, mesg_nums, deque_mutex, deque_condition_mutex, putPc, getPc,
          got_node, puts, taken>>

Threads == {"decode", "file"}
nobody == "nobody"
HEAD == 0   \* the address of the list head itself, where no message lives

TypeOK ==
    /\ list \in Seq(1..MaxPuts)
    /\ mesg_nums \in 0..(NumsWidth - 1)
    /\ deque_mutex \in Threads \cup {nobody}
    /\ deque_condition_mutex \in Threads \cup {nobody}
    /\ putPc \in {"idle", "link", "count", "unlock", "test", "lockCond",
                  "signal", "unlockCond"}
    /\ getPc \in {"test", "wait", "parked", "signalled", "read", "lock",
                  "unlink", "count", "return", "handle", "corrupt"}
    /\ got_node \in 0..MaxPuts
    /\ puts \in 0..MaxPuts
    /\ taken \in Seq(0..MaxPuts)

\* hy_init_mesg_deque_t, run by main before either thread exists.
Init ==
    /\ list = <<>>
    /\ mesg_nums = 0
    /\ deque_mutex = nobody
    /\ deque_condition_mutex = nobody
    /\ putPc = "idle"
    /\ getPc = "test"
    /\ got_node = HEAD
    /\ puts = 0
    /\ taken = <<>>

-----------------------------------------------------------------------------
\* Unsigned arithmetic on mesg_nums.
Incremented(n) == IF n = NumsWidth - 1 THEN 0 ELSE n + 1

Decremented(n) == IF n = 0 THEN NumsWidth - 1 ELSE n - 1

\* head->next: the oldest node, or the head itself when the list is empty.
FirstNode == IF list = <<>> THEN HEAD ELSE Head(list)

\* list_del(head->next).  On an empty list this deletes the head from itself.
ListWithoutFirst == IF list = <<>> THEN <<>> ELSE Tail(list)

\* When the file thread has been handed the list head as a message, it reads
\* and frees memory behind it: undefined, and the process may do anything.
Corrupt == getPc = "corrupt"

\* The pace of alarms.  "any" makes no assumption.  "afterFirstWait" is what
\* main.c's start order and the two seconds decode.c:368 sleeps give: the file
\* thread is waiting before the first put.  "whileWaiting" is the pace under
\* which every alarm has been handled, and the list been found empty again,
\* before the next one is put.
HasWaited == getPc \notin {"test", "wait"} \/ taken # <<>>
MayPut ==
    CASE Pace = "any" -> TRUE
      [] Pace = "afterFirstWait" -> HasWaited
      [] Pace = "whileWaiting" -> HasWaited /\ getPc \in {"wait", "parked"}
-----------------------------------------------------------------------------
(* hy_put_mesg, in the decode thread.                                      *)

PutLock ==
    /\ putPc = "idle" /\ ~Corrupt
    /\ puts < MaxPuts /\ MayPut
    /\ deque_mutex = nobody
    /\ deque_mutex' = "decode"
    /\ puts' = puts + 1
    /\ putPc' = "link"
    /\ UNCHANGED <<list, mesg_nums, deque_condition_mutex, getPc, got_node, taken>>

\* Faulty PutLink: list_add for list_add_tail.
PutLinkAtHead ==
    /\ putPc = "link" /\ ~Corrupt
    /\ list' = <<puts>> \o list
    /\ putPc' = "count"
    /\ UNCHANGED <<mesg_nums, deque_mutex, deque_condition_mutex, getPc,
                   got_node, puts, taken>>

PutLink ==
    /\ putPc = "link" /\ ~Corrupt
    /\ list' = Append(list, puts)
    /\ putPc' = "count"
    /\ UNCHANGED <<mesg_nums, deque_mutex, deque_condition_mutex, getPc,
                   got_node, puts, taken>>

PutCount ==
    /\ putPc = "count" /\ ~Corrupt
    /\ mesg_nums' = Incremented(mesg_nums)
    /\ putPc' = "unlock"
    /\ UNCHANGED <<list, deque_mutex, deque_condition_mutex, getPc, got_node,
                   puts, taken>>

PutUnlock ==
    /\ putPc = "unlock" /\ ~Corrupt
    /\ deque_mutex' = nobody
    /\ putPc' = "test"
    /\ UNCHANGED <<list, mesg_nums, deque_condition_mutex, getPc, got_node,
                   puts, taken>>

\* Faulty PutTest: it looks for the count from before the put.
PutTestStale ==
    /\ putPc = "test" /\ ~Corrupt
    /\ putPc' = IF mesg_nums = 0 THEN "lockCond" ELSE "idle"
    /\ UNCHANGED <<list, mesg_nums, deque_mutex, deque_condition_mutex, getPc,
                   got_node, puts, taken>>

\* The count is read again after the mutex is released.
PutTest ==
    /\ putPc = "test" /\ ~Corrupt
    /\ putPc' = IF mesg_nums = 1 THEN "lockCond" ELSE "idle"
    /\ UNCHANGED <<list, mesg_nums, deque_mutex, deque_condition_mutex, getPc,
                   got_node, puts, taken>>

PutLockCond ==
    /\ putPc = "lockCond" /\ ~Corrupt
    /\ deque_condition_mutex = nobody
    /\ deque_condition_mutex' = "decode"
    /\ putPc' = "signal"
    /\ UNCHANGED <<list, mesg_nums, deque_mutex, getPc, got_node, puts, taken>>

\* Faulty PutSignal: the signal wakes nobody up.
PutSignalNobody ==
    /\ putPc = "signal" /\ ~Corrupt
    /\ putPc' = "unlockCond"
    /\ UNCHANGED <<list, mesg_nums, deque_mutex, deque_condition_mutex, getPc,
                   got_node, puts, taken>>

\* A signal reaches the file thread only when it is already waiting.
PutSignal ==
    /\ putPc = "signal" /\ ~Corrupt
    /\ getPc' = IF getPc = "parked" THEN "signalled" ELSE getPc
    /\ putPc' = "unlockCond"
    /\ UNCHANGED <<list, mesg_nums, deque_mutex, deque_condition_mutex,
                   got_node, puts, taken>>

PutUnlockCond ==
    /\ putPc = "unlockCond" /\ ~Corrupt
    /\ deque_condition_mutex' = nobody
    /\ putPc' = "idle"
    /\ UNCHANGED <<list, mesg_nums, deque_mutex, getPc, got_node, puts, taken>>
-----------------------------------------------------------------------------
(* hy_get_mesg, in the file management thread.                             *)

GetTest ==
    /\ getPc = "test"
    /\ getPc' = IF mesg_nums = 0 THEN "wait" ELSE "read"
    /\ UNCHANGED <<list, mesg_nums, deque_mutex, deque_condition_mutex, putPc,
                   got_node, puts, taken>>

\* Faulty CondWait: the file thread sleeps with the condition mutex.
CondWaitKeepsMutex ==
    /\ getPc = "wait"
    /\ getPc' = "parked"
    /\ UNCHANGED <<list, mesg_nums, deque_mutex, deque_condition_mutex, putPc,
                   got_node, puts, taken>>

\* pthread_cond_wait starts: it frees the mutex, whoever owns it.
CondWait ==
    /\ getPc = "wait"
    /\ deque_condition_mutex' = nobody
    /\ getPc' = "parked"
    /\ UNCHANGED <<list, mesg_nums, deque_mutex, putPc, got_node, puts, taken>>

SpuriousWakeup ==
    /\ Spurious
    /\ getPc = "parked"
    /\ getPc' = "signalled"
    /\ UNCHANGED <<list, mesg_nums, deque_mutex, deque_condition_mutex, putPc,
                   got_node, puts, taken>>

\* pthread_cond_wait returns, owning the mutex.  The caller does not test
\* mesg_nums again.
CondReturn ==
    /\ getPc = "signalled"
    /\ deque_condition_mutex = nobody
    /\ deque_condition_mutex' = "file"
    /\ getPc' = "read"
    /\ UNCHANGED <<list, mesg_nums, deque_mutex, putPc, got_node, puts, taken>>

\* got_node is read before deque_mutex is locked.
GetRead ==
    /\ getPc = "read"
    /\ got_node' = FirstNode
    /\ getPc' = "lock"
    /\ UNCHANGED <<list, mesg_nums, deque_mutex, deque_condition_mutex, putPc,
                   puts, taken>>

GetLock ==
    /\ getPc = "lock"
    /\ deque_mutex = nobody
    /\ deque_mutex' = "file"
    /\ getPc' = "unlink"
    /\ UNCHANGED <<list, mesg_nums, deque_condition_mutex, putPc, got_node,
                   puts, taken>>

\* Faulty GetUnlink: the node returned stays in the list.
GetUnlinkForgotten ==
    /\ getPc = "unlink"
    /\ getPc' = "count"
    /\ UNCHANGED <<list, mesg_nums, deque_mutex, deque_condition_mutex, putPc,
                   got_node, puts, taken>>

\* The node unlinked is the first one now, which need not be got_node.
GetUnlink ==
    /\ getPc = "unlink"
    /\ list' = ListWithoutFirst
    /\ getPc' = "count"
    /\ UNCHANGED <<mesg_nums, deque_mutex, deque_condition_mutex, putPc,
                   got_node, puts, taken>>

\* Faulty GetCount: the count is reset.
GetCountReset ==
    /\ getPc = "count"
    /\ mesg_nums' = 0
    /\ getPc' = "return"
    /\ UNCHANGED <<list, deque_mutex, deque_condition_mutex, putPc, got_node,
                   puts, taken>>

\* Faulty GetCount: the node is taken and still counted.
GetCountForgotten ==
    /\ getPc = "count"
    /\ getPc' = "return"
    /\ UNCHANGED <<list, mesg_nums, deque_mutex, deque_condition_mutex, putPc,
                   got_node, puts, taken>>

GetCount ==
    /\ getPc = "count"
    /\ mesg_nums' = Decremented(mesg_nums)
    /\ getPc' = "return"
    /\ UNCHANGED <<list, deque_mutex, deque_condition_mutex, putPc, got_node,
                   puts, taken>>

\* Unlock deque_mutex and return got_node.
GetReturn ==
    /\ getPc = "return"
    /\ deque_mutex' = nobody
    /\ taken' = Append(taken, got_node)
    /\ getPc' = IF got_node = HEAD THEN "corrupt" ELSE "handle"
    /\ UNCHANGED <<list, mesg_nums, deque_condition_mutex, putPc, got_node, puts>>

\* hy_file_manage_thread_cb handles the message, frees it and asks for the
\* next one; it does not touch the deque meanwhile.
Handle ==
    /\ getPc = "handle"
    /\ getPc' = "test"
    /\ UNCHANGED <<list, mesg_nums, deque_mutex, deque_condition_mutex, putPc,
                   got_node, puts, taken>>
-----------------------------------------------------------------------------
\* hy_put_mesg once it has been entered.
PutStep == \/ PutLink \/ PutCount \/ PutUnlock \/ PutTest
           \/ PutLockCond \/ PutSignal \/ PutUnlockCond

\* hy_get_mesg and the loop that calls it.
GetStep == \/ GetTest \/ CondWait \/ CondReturn \/ GetRead \/ GetLock
           \/ GetUnlink \/ GetCount \/ GetReturn \/ Handle

Next == PutLock \/ PutStep \/ GetStep \/ SpuriousWakeup

Spec == Init /\ [][Next]_vars

\* The scheduler runs both threads.  An alarm need not ever be found, so
\* PutLock has no fairness, and no spurious wakeup is owed to anyone.
FairSpec == Spec /\ WF_vars(PutStep) /\ WF_vars(GetStep)
-----------------------------------------------------------------------------
(* Properties.                                                             *)

\* The file thread is about to return the list head as a message, or has.
TookHead == /\ got_node = HEAD
            /\ getPc \in {"lock", "unlink", "count", "return", "corrupt"}

\* Messages that have been linked, and the one hy_get_mesg has unlinked but
\* not returned yet.
Linked == IF putPc = "link" THEN puts - 1 ELSE puts
InHand == IF getPc \in {"count", "return"} THEN <<got_node>> ELSE <<>>

\* hy_deque.c:43 and 73 against 42 and 72: whenever nobody is inside a critical
\* section, mesg_nums is the length of the list.  The unlocked tests at 48 and
\* 65 are only as good as this.
CountMatchesList ==
    deque_mutex = nobody /\ ~Corrupt => mesg_nums = Len(list)

\* hy_put_mesg and hy_get_mesg lose, duplicate and reorder nothing: what was
\* returned, then the node in hand, then the list are the messages put, in
\* order.  It is promised until hy_get_mesg picks up the list head.
ExactlyOnceInOrder ==
    TookHead \/ taken \o InHand \o list = [i \in 1..Linked |-> i]

\* Once the file thread waits before the first put, the mutex that
\* hy_get_mesg never locks explicitly (hy_deque.c:67) is owned as if it did:
\* by the file thread outside pthread_cond_wait, by the decode thread exactly
\* from 50 to 52.  Neither frees the other's.
CondMutexOwned ==
    Pace # "any" =>
      /\ (deque_condition_mutex = "decode") <=> putPc \in {"signal", "unlockCond"}
      /\ HasWaited => ((deque_condition_mutex = "file")
                         <=> getPc \notin {"parked", "signalled"})

\* No wakeup is lost (hy_deque.c:48-53 against 65-68): while the file thread
\* sleeps on a list that is not empty, the put that filled it is still on its
\* way to the signal, and will find the count that makes it signal.
NoLostWakeup ==
    Pace # "any" /\ getPc = "parked" /\ list # <<>> =>
      \/ putPc \in {"count", "lockCond", "signal"}
      \/ putPc \in {"unlock", "test"} /\ mesg_nums = 1

\* The file thread never takes the list head for a message (hy_deque.h:37).
HeadNeverTaken == ~TookHead

\* A get whose test has found a message finds one to take: what it saw without
\* the mutex is still there when it reads head->next, since nobody else takes
\* messages.  So only a get that has come through pthread_cond_wait, after
\* which nothing is tested again (hy_deque.c:65-69), can take the list head.
HeadOnlyAfterWakeup ==
    [][/\ getPc = "test" /\ getPc' = "read" => list # <<>>
       /\ getPc = "read" /\ list # <<>> => list' # <<>> /\ ~TookHead']_vars

\* The decode thread gets out of hy_put_mesg: it is not held for ever on the
\* condition mutex, which the file thread keeps while it handles messages.
PutReturns == putPc # "idle" ~> (putPc = "idle" \/ Corrupt)

\* Every message put is returned by hy_get_mesg some day.
EveryMessageTaken ==
    \A n \in 1..MaxPuts : (puts >= n) ~> (Len(taken) >= n \/ Corrupt)

\* At a pace of alarms that lets the file thread wait again between two puts,
\* and without spurious wakeups, the deque is the queue it promises to be.
Fifo == INSTANCE MesgQueue WITH queue <- InHand \o list, out <- taken
ImplementsFifo == Fifo!QFairSpec
=============================================================================
