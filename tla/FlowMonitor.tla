----------------------------- MODULE FlowMonitor -----------------------------
(***************************************************************************)
(* The flow monitor (hy_flow_moniter.c): once a minute it reads the        *)
(* counters of the network interface and adds what has passed since the    *)
(* last time to the month's total in a database; every other time it sends *)
(* the total to the server.  The counters start again from zero when the   *)
(* link is set up again, the database fails, the month ends, the process   *)
(* dies: at any point.                                                     *)
(*                                                                         *)
(* Traffic is counted in the units of the database, kilobytes.             *)
(***************************************************************************)
EXTENDS Integers

CONSTANTS
    LastMonth,  \* months are numbered; the functions of the database refuse
                \* those after December 2020, which is LastMonth
    Cap,        \* sscanf reads a counter into an int: what is greater is Cap
    MaxPassed,  \* bound on the traffic
    MaxBoots,   \* bound on the starts of the program
    MaxMonth    \* bound on the months

ASSUME FlowAssumption ==
    /\ LastMonth \in Nat /\ Cap \in Nat
    /\ MaxPassed \in Nat /\ MaxBoots \in Nat /\ MaxMonth \in Nat \ {0}

VARIABLES
    rx, tx,          \* the counters of the interface
    month,           \* the current month
    passed,          \* history: the traffic so far
    total,           \* the database: the total of each month that has a row
    pc,              \* where the thread is in its loop
    i,               \* the local i: 0, or its remainder by 2 counted from 1
    rx_now, tx_now, rx_pre, tx_pre, sampled,  \* its locals; sampled is the
                     \* month it has read from the clock
    first,           \* history: the counters at the first sample of this boot
    base,            \* history: what was stored then, an integer
    boots,           \* number of starts of the program
    restarted,       \* history: has a counter been lower than before?
    oneBehind,       \* history: has one counter been lower and the other not?
    dbFailed         \* history: has the database failed?

ifVars == <<rx, tx, month, passed>>
sampleVars == <<i, rx_now, tx_now, rx_pre, tx_pre, sampled>>
histVars == <<restarted, oneBehind, dbFailed>>
vars == <<ifVars, total, pc, sampleVars, first, base, boots, histVars>>

Failed == -1   \* what flow_monitor_get_value_from_database returns on failure

Months == 1..MaxMonth
Accepted(m) == m <= LastMonth

TypeOK ==
    /\ rx \in Nat /\ tx \in Nat /\ passed \in Nat
    /\ first \in Nat /\ boots \in Nat
    /\ rx_now \in 0..Cap /\ tx_now \in 0..Cap
    /\ rx_pre \in 0..Cap /\ tx_pre \in 0..Cap
    /\ month \in Months /\ sampled \in Months
    /\ DOMAIN total \subseteq {m \in Months : Accepted(m)}
    /\ total \in [DOMAIN total -> Int]
    /\ pc \in {"start", "sample", "account", "report"}
    /\ i \in 0..2
    /\ restarted \in BOOLEAN /\ oneBehind \in BOOLEAN /\ dbFailed \in BOOLEAN

\* The total of a month in a table, where a month without a row has nothing.
ValueIn(t, m) == IF m \in DOMAIN t THEN t[m] ELSE 0
Value(m) == ValueIn(total, m)

\* What is stored for all months together.
SumOf(t) ==
    LET upTo[m \in 0..MaxMonth] == IF m = 0 THEN 0 ELSE upTo[m - 1] + ValueIn(t, m)
    IN  upTo[MaxMonth]
Stored == SumOf(total)

Init ==
    /\ rx = 0 /\ tx = 0 /\ month = 1 /\ passed = 0
    /\ total = << >>
    /\ pc = "start" /\ i = 0
    /\ rx_now = 0 /\ tx_now = 0 /\ rx_pre = 0 /\ tx_pre = 0 /\ sampled = 1
    /\ first = 0 /\ base = 0
    /\ boots = 1
    /\ restarted = FALSE /\ oneBehind = FALSE /\ dbFailed = FALSE
-----------------------------------------------------------------------------
(* The interface and the clock.                                            *)

Traffic ==
    /\ passed < MaxPassed
    /\ passed' = passed + 1
    /\ \/ rx' = rx + 1 /\ UNCHANGED tx
       \/ tx' = tx + 1 /\ UNCHANGED rx
    /\ UNCHANGED <<month, total, pc, sampleVars, first, base, boots, histVars>>

\* The link is set up again: a new interface counts from zero.
LinkRestart ==
    /\ rx + tx > 0
    /\ rx' = 0 /\ tx' = 0
    /\ UNCHANGED <<month, passed, total, pc, sampleVars, first, base, boots, histVars>>

MonthEnds ==
    /\ month < MaxMonth
    /\ month' = month + 1
    /\ UNCHANGED <<rx, tx, passed, total, pc, sampleVars, first, base, boots, histVars>>
-----------------------------------------------------------------------------
(* The database.                                                           *)

\* flow_monitor_get_value_from_database: a select that finds no row leaves 0.
GetValue(m) == IF Accepted(m) THEN Value(m) ELSE Failed

\* What a read can give, and whether it has failed.
Reads(m) == {[value |-> GetValue(m), failed |-> ~Accepted(m)],
             [value |-> Failed, failed |-> TRUE]}

\* Faulty Inserted: a new month gets no row.
InsertedNothing(t, m) == t

\* flow_monitor_insert_new_record_to_database.  A row that is there already,
\* with a total of zero, gets a twin, which every update changes with it.
Inserted(t, m) ==
    IF Accepted(m)
    THEN [k \in DOMAIN t \cup {m} |-> IF k = m THEN 0 ELSE t[k]]
    ELSE t

\* flow_monitor_update_value_in_database: an update of no row changes nothing.
Updated(t, m, value) ==
    IF Accepted(m) /\ m \in DOMAIN t THEN [t EXCEPT ![m] = value] ELSE t
-----------------------------------------------------------------------------
(* The thread.                                                             *)

\* Once the clock and the interface are there, a kilobyte is added to the
\* month's total, if the month has a row.
Start ==
    /\ pc = "start"
    /\ \E r \in Reads(month), written \in BOOLEAN :
         /\ total' = IF written THEN Updated(total, month, r.value + 1) ELSE total
         /\ dbFailed' = (dbFailed \/ r.failed \/ ~written)
    /\ i' = 0 /\ rx_now' = 0 /\ tx_now' = 0 /\ rx_pre' = 0 /\ tx_pre' = 0
    /\ sampled' = month
    /\ pc' = "sample"
    /\ UNCHANGED <<ifVars, first, base, boots, restarted, oneBehind>>

\* What sscanf makes of a counter that is greater than an int.
AsRead(counter) == IF counter > Cap THEN Cap ELSE counter

\* Faulty Sample: the first sample is counted from zero.
SampleFromZero ==
    /\ pc = "sample"
    /\ sampled' = month
    /\ rx_now' = AsRead(rx) /\ tx_now' = AsRead(tx)
    /\ first' = IF i = 0 THEN rx_now' + tx_now' ELSE first
    /\ base' = IF i = 0 THEN Stored ELSE base
    /\ restarted' = (restarted \/ rx_pre > rx_now' \/ tx_pre > tx_now')
    /\ oneBehind' = (oneBehind \/ ((rx_pre > rx_now') # (tx_pre > tx_now')))
    /\ pc' = "account"
    /\ UNCHANGED <<ifVars, total, i, rx_pre, tx_pre, boots, dbFailed>>

\* Clock and counters are read; the first time they are only remembered.
Sample ==
    /\ pc = "sample"
    /\ sampled' = month
    /\ rx_now' = AsRead(rx) /\ tx_now' = AsRead(tx)
    /\ rx_pre' = IF i = 0 THEN rx_now' ELSE rx_pre
    /\ tx_pre' = IF i = 0 THEN tx_now' ELSE tx_pre
    /\ first' = IF i = 0 THEN rx_now' + tx_now' ELSE first
    /\ base' = IF i = 0 THEN Stored ELSE base
    /\ restarted' = (restarted \/ rx_pre' > rx_now' \/ tx_pre' > tx_now')
    /\ oneBehind' = (oneBehind \/ ((rx_pre' > rx_now') # (tx_pre' > tx_now')))
    /\ pc' = "account"
    /\ UNCHANGED <<ifVars, total, i, boots, dbFailed>>

\* ifconfig prints no counters: the loop starts again, with i unchanged.
SampleFails ==
    /\ pc = "sample"
    /\ sampled' = month
    /\ rx_now' = 0 /\ tx_now' = 0
    /\ UNCHANGED <<ifVars, total, pc, i, rx_pre, tx_pre, first, base, boots, histVars>>

\* The first test of the loop: the difference, if a counter has not fallen.
Difference == IF rx_pre <= rx_now \/ tx_pre <= tx_now
              THEN rx_now - rx_pre + tx_now - tx_pre ELSE 0

\* Faulty Added: a counter that has started again is not noticed.
AddedDifference == rx_now - rx_pre + tx_now - tx_pre

\* With the second: all of both counters, if one has fallen.  The tests do not
\* exclude each other.
Added == Difference + IF rx_pre > rx_now \/ tx_pre > tx_now THEN rx_now + tx_now ELSE 0

\* What has passed is added to what the database has for the month, and a
\* month for which it has nothing gets a row.  The insert and the update of each
\* test can fail, and nothing looks at that.  Every other time a report follows.
Account ==
    /\ pc = "account"
    /\ \E r \in Reads(sampled), inserted \in BOOLEAN :
         LET row == IF r.value = 0 /\ inserted THEN Inserted(total, sampled) ELSE total
             done == Updated(row, sampled, r.value + Added)
         IN /\ total' \in {row, Updated(row, sampled, r.value + Difference), done}
            /\ dbFailed' = (dbFailed \/ r.failed \/ ~inserted \/ total' # done)
    /\ rx_pre' = rx_now /\ tx_pre' = tx_now
    /\ pc' = IF i = 1 THEN "sample" ELSE "report"
    /\ i' = IF i = 1 THEN 2 ELSE i
    /\ UNCHANGED <<ifVars, rx_now, tx_now, sampled, first, base, boots, restarted,
                   oneBehind>>

\* The total is read again and sent, or the server cannot be reached.
Report ==
    /\ pc = "report"
    /\ i' = 1
    /\ pc' = "sample"
    /\ UNCHANGED <<ifVars, total, rx_now, tx_now, rx_pre, tx_pre, sampled, first, base,
                   boots, histVars>>

\* The program ends and starts again, with the interface as it is.
Crash ==
    /\ boots < MaxBoots
    /\ boots' = boots + 1
    /\ pc' = "start"
    /\ restarted' = FALSE
    /\ UNCHANGED <<ifVars, total, sampleVars, first, base, oneBehind, dbFailed>>
-----------------------------------------------------------------------------
MonitorThread == Start \/ Sample \/ SampleFails \/ Account \/ Report

Next == Traffic \/ LinkRestart \/ MonthEnds \/ MonitorThread \/ Crash

Spec == Init /\ [][Next]_vars
-----------------------------------------------------------------------------
(* Properties.  They hold until one counter is behind and the other is     *)
(* not, when both tests of the sampling are true                           *)
(* (hy_flow_moniter.c:187-199); and, all but the first, until the database *)
(* fails.                                                                  *)

\* No more is stored than has passed, but for the kilobyte each start adds:
\* neither a restart of the counters nor one of the program counts traffic twice,
\* whatever reads and writes of the database fail (hy_flow_moniter.c:139-199).
NeverOvercounts ==
    ~oneBehind => Stored <= passed + boots

\* A month's total never shrinks (hy_flow_moniter.c:187-199, 350-378).
TotalNeverShrinks ==
    [][~oneBehind' /\ ~dbFailed' => \A m \in Months : Value(m)' >= Value(m)]_vars

\* As long as no counter falls all that was sampled is stored, each kilobyte
\* once, also across the end of a month (hy_flow_moniter.c:181-199).
SampledIsStored ==
    pc = "report" \/ (pc = "sample" /\ i # 0) =>
        (~restarted /\ ~dbFailed => Stored = base + rx_pre + tx_pre - first)
=============================================================================
