-------------------------------- MODULE Update --------------------------------
(***************************************************************************)
(* The update of the program (hy_update.c): a thread per request that the  *)
(* session thread lets in (hy_session_handler.c:419-443) fetches a tarball *)
(* and its digest, compares them, unpacks the tarball over the program and *)
(* reboots.  All of them use the same two file names.  What a reboot does  *)
(* is in Maintenance.                                                      *)
(***************************************************************************)
EXTENDS Integers

CONSTANT Updates  \* the update threads there can be at a time

VARIABLES
    flag,       \* a9_update_flag
    upc,        \* where each update thread is
    tar,        \* mv_detect.tar.bz2: whose it is and how much of it is there
    md5,        \* mv_detect.md5
    prog,       \* the program that the next boot starts: "old" is one whole on disk
    rebooting,  \* somebody has called reboot
    raced,      \* history: an update has been let in before another had set the
                \* flag, or when one had already called reboot
    blind,      \* history: a digest has been compared with one nobody had read
    cut         \* history: of the unpackings of a whole tarball, the last to stop
                \* did so before the whole program was there, on disk

updateVars == <<flag, upc, tar, md5, prog, rebooting, raced, blind, cut>>

\* wget writes a file as it comes; part of it can be nothing.
Absent == [by |-> "nobody", data |-> "absent"]
Fetched == {"part", "whole"}
File == [by : Updates \cup {"nobody"}, data : Fetched \cup {"absent"}]

Fetching == {"ping", "rmmd5", "rmtar", "gettar", "tar", "getmd5", "md5"}
Unpacking == {"unpacking", "spoiling"}
Steps == Fetching \cup Unpacking \cup {"set", "exist", "check", "unpack", "reboot", "clear"}
Alive(u) == upc[u] # "none"

UpdateTypeOK ==
    /\ flag \in {0, 1}
    /\ upc \in [Updates -> Steps \cup {"none"}]
    /\ tar \in File
    /\ md5 \in File
    /\ prog \in {"old", "part", "new"}
    /\ rebooting \in BOOLEAN
    /\ raced \in BOOLEAN /\ blind \in BOOLEAN /\ cut \in BOOLEAN

UpdateInit ==
    /\ flag = 0
    /\ upc = [u \in Updates |-> "none"]
    /\ tar = Absent /\ md5 = Absent
    /\ prog = "old"
    /\ rebooting = FALSE
    /\ raced = FALSE /\ blind = FALSE /\ cut = FALSE

Goto(u, step) == upc' = [upc EXCEPT ![u] = step]
-----------------------------------------------------------------------------
\* Faulty NewUpdate: the flag is not tested.
NewUpdateAlways(u) ==
    /\ upc[u] = "none"
    /\ Goto(u, "set")
    /\ raced' = (raced \/ rebooting \/ \E v \in Updates : upc[v] = "set")
    /\ UNCHANGED <<flag, tar, md5, prog, rebooting, blind, cut>>

\* hy_sig_handle_update, in the session thread: without the flag a thread is
\* created.  With it, or if that fails, nothing changes; the answer carries as
\* its length a result that is not initialised when there was nothing to do.
NewUpdate(u) ==
    /\ flag = 0
    /\ upc[u] = "none"
    /\ Goto(u, "set")
    /\ raced' = (raced \/ rebooting \/ \E v \in Updates : upc[v] = "set")
    /\ UNCHANGED <<flag, tar, md5, prog, rebooting, blind, cut>>

SetFlag(u) ==
    /\ upc[u] = "set"
    /\ flag' = 1
    /\ Goto(u, "ping")
    /\ UNCHANGED <<tar, md5, prog, rebooting, raced, blind, cut>>

PingServer(u) ==
    /\ upc[u] = "ping"
    /\ Goto(u, "rmmd5")
    /\ UNCHANGED <<flag, tar, md5, prog, rebooting, raced, blind, cut>>

\* Faulty PingFails: the flag is left set.
PingFailsFlagged(u) ==
    /\ upc[u] = "ping"
    /\ Goto(u, "none")
    /\ UNCHANGED <<flag, tar, md5, prog, rebooting, raced, blind, cut>>

\* Faulty PingFails: the thread waits for its server.
PingFailsRetries(u) ==
    /\ upc[u] = "ping"
    /\ Goto(u, "set")
    /\ UNCHANGED <<flag, tar, md5, prog, rebooting, raced, blind, cut>>

PingFails(u) ==
    /\ upc[u] = "ping"
    /\ Goto(u, "clear")
    /\ UNCHANGED <<flag, tar, md5, prog, rebooting, raced, blind, cut>>

\* rm can fail, and nobody looks: the file of an earlier update stays.
RemoveMd5(u) ==
    /\ upc[u] = "rmmd5"
    /\ md5' \in {Absent, md5}
    /\ Goto(u, "rmtar")
    /\ UNCHANGED <<flag, tar, prog, rebooting, raced, blind, cut>>

RemoveTar(u) ==
    /\ upc[u] = "rmtar"
    /\ tar' \in {Absent, tar}
    /\ Goto(u, "gettar")
    /\ UNCHANGED <<flag, md5, prog, rebooting, raced, blind, cut>>

\* wget gives a file another name if there is one of that name already; if that
\* one is from the same slot's earlier thread, nobody writes it any more.
Created(f, u) ==
    IF f = Absent THEN [by |-> u, data |-> "part"]
    ELSE IF f.by = u THEN [f EXCEPT !.by = "nobody"] ELSE f

\* wget goes on with the file it has created, under whatever name it is by now.
Grown(f, u, data) == IF f.by = u THEN [f EXCEPT !.data = data] ELSE f

\* The first wget reaches the server, or gives up.
BeginTar(u) ==
    /\ upc[u] = "gettar"
    /\ \/ tar' = Created(tar, u) /\ Goto(u, "tar")
       \/ UNCHANGED tar /\ Goto(u, "getmd5")
    /\ UNCHANGED <<flag, md5, prog, rebooting, raced, blind, cut>>

\* It ends, or breaks off; nobody looks which.
EndTar(u) ==
    /\ upc[u] = "tar"
    /\ \E data \in Fetched : tar' = Grown(tar, u, data)
    /\ Goto(u, "getmd5")
    /\ UNCHANGED <<flag, md5, prog, rebooting, raced, blind, cut>>

BeginMd5(u) ==
    /\ upc[u] = "getmd5"
    /\ \/ md5' = Created(md5, u) /\ Goto(u, "md5")
       \/ UNCHANGED md5 /\ Goto(u, "exist")
    /\ UNCHANGED <<flag, tar, prog, rebooting, raced, blind, cut>>

EndMd5(u) ==
    /\ upc[u] = "md5"
    /\ \E data \in Fetched : md5' = Grown(md5, u, data)
    /\ Goto(u, "exist")
    /\ UNCHANGED <<flag, tar, prog, rebooting, raced, blind, cut>>

\* a9_update_file_exist_judge.
Exist(u) ==
    /\ upc[u] = "exist"
    /\ Goto(u, IF Absent \notin {tar, md5} THEN "check" ELSE "clear")
    /\ UNCHANGED <<flag, tar, md5, prog, rebooting, raced, blind, cut>>

\* Without the files, or with less than a whole digest, one of the buffers calc
\* and orig holds what was on the stack.
Unread == tar.data = "absent" \/ md5.data # "whole"
Agree == ~Unread /\ tar.data = "whole"

\* Faulty Check: a tarball that is there passes.
CheckNothing(u) ==
    /\ upc[u] = "check"
    /\ Goto(u, "unpack")
    /\ blind' = (blind \/ Unread)
    /\ UNCHANGED <<flag, tar, md5, prog, rebooting, raced, cut>>

\* a9_file_md5_calc; popen can fail.
Check(u) ==
    /\ upc[u] = "check"
    /\ \/ (Agree \/ Unread) /\ Goto(u, "unpack")
       \/ Goto(u, "clear")
    /\ blind' = (blind \/ Unread)
    /\ UNCHANGED <<flag, tar, md5, prog, rebooting, raced, cut>>

\* tar begins to overwrite the program.  Or it does not get that far, whatever the
\* tarball is, and nobody looks.
Unpack(u) ==
    /\ upc[u] = "unpack"
    /\ \/ /\ tar.data = "whole"
          /\ Goto(u, "unpacking") /\ prog' = "part"
       \/ /\ tar.data = "part"
          /\ Goto(u, "spoiling") /\ prog' = "part"
       \/ Goto(u, "reboot") /\ UNCHANGED prog
    /\ UNCHANGED <<flag, tar, md5, rebooting, raced, blind, cut>>

\* It ends.  The whole program is there if the whole tarball was, if no other
\* unpacking is under way, and if tar has not failed half-way: no room, an error of
\* the disk, killed.  What system returns is not looked at.
Unpacked(u) ==
    /\ upc[u] \in Unpacking
    /\ \/ /\ upc[u] = "unpacking"
          /\ \A v \in Updates \ {u} : upc[v] \notin Unpacking
          /\ prog' = "new" /\ cut' = FALSE
       \/ prog' = "part" /\ cut' = (cut \/ upc[u] = "unpacking")
    /\ Goto(u, "reboot")
    /\ UNCHANGED <<flag, tar, md5, rebooting, raced, blind>>

\* Three seconds later.
CallReboot(u) ==
    /\ upc[u] = "reboot"
    /\ rebooting' = TRUE
    /\ Goto(u, "clear")
    /\ UNCHANGED <<flag, tar, md5, prog, raced, blind, cut>>

ClearFlag(u) ==
    /\ upc[u] = "clear"
    /\ flag' = 0
    /\ Goto(u, "none")
    /\ UNCHANGED <<tar, md5, prog, rebooting, raced, blind, cut>>

UpdateThread(u) ==
    \/ SetFlag(u) \/ PingServer(u) \/ PingFails(u) \/ RemoveMd5(u) \/ RemoveTar(u)
    \/ BeginTar(u) \/ EndTar(u) \/ BeginMd5(u) \/ EndMd5(u) \/ Exist(u) \/ Check(u)
    \/ Unpack(u) \/ Unpacked(u) \/ CallReboot(u) \/ ClearFlag(u)
=============================================================================
