-------------------------- MODULE FlowMonitorProofs --------------------------
(***************************************************************************)
(* Proofs about FlowMonitor, for any traffic, months, starts and width of  *)
(* the counters.                                                           *)
(***************************************************************************)
EXTENDS FlowMonitor, FiniteSetTheorems, TLAPS

\* A sample in which one counter has fallen and the other has not is noticed before
\* it is accounted for.
BehindNoticed ==
    pc = "account" /\ ~oneBehind => (rx_pre > rx_now <=> tx_pre > tx_now)

\* What has passed, with the kilobyte of each start, and is not stored.
Slack == passed + boots - Stored

\* What a sample of counters x and y can add to one of a and b is no more than n:
\* the counters go on from there, or have started again.
Covered(x, y, a, b, n) ==
    \/ x + y <= n
    \/ /\ a <= AsRead(x) /\ b <= AsRead(y)
       /\ AsRead(x) - a + AsRead(y) - b <= n

\* Between two samples there is slack for all that the second one can add.
SlackEnough ==
    ~oneBehind =>
        /\ Slack >= 0
        /\ pc = "start" => Slack >= 1
        /\ pc = "report" \/ (pc = "sample" /\ i # 0) => Covered(rx, tx, rx_pre, tx_pre, Slack)
        /\ pc = "account" => Covered(rx, tx, rx_now, tx_now, Slack - Added)

\* A total that has been lost is Failed at the least, so that a failed read never
\* raises a total.
NeverBelow == ~oneBehind => \A m \in Months : Value(m) >= Failed

\* What has been stored since the first sample of this boot, between two samples too.
StoredSince ==
    /\ base \in Int
    /\ ~restarted /\ ~dbFailed =>
        /\ pc \in {"account", "report"} \/ (pc = "sample" /\ i # 0) =>
             Stored = base + rx_pre + tx_pre - first
        /\ pc = "account" => rx_pre <= rx_now /\ tx_pre <= tx_now

SumInv == SlackEnough /\ NeverBelow /\ StoredSince

IInv == TypeOK /\ BehindNoticed
-----------------------------------------------------------------------------
(* The database.                                                           *)

\* Both writes keep a table of totals one.
LEMMA InsertedType ==
  ASSUME NEW t, t \in [DOMAIN t -> Int], DOMAIN t \subseteq {m \in Months : Accepted(m)},
         NEW m \in Months
  PROVE  /\ Inserted(t, m) \in [DOMAIN Inserted(t, m) -> Int]
         /\ DOMAIN Inserted(t, m) \subseteq {k \in Months : Accepted(k)}
  BY DEF Inserted

LEMMA UpdatedType ==
  ASSUME NEW t, t \in [DOMAIN t -> Int], DOMAIN t \subseteq {m \in Months : Accepted(m)},
         NEW m \in Months, NEW value \in Int
  PROVE  /\ Updated(t, m, value) \in [DOMAIN Updated(t, m, value) -> Int]
         /\ DOMAIN Updated(t, m, value) \subseteq {k \in Months : Accepted(k)}
  BY DEF Updated

\* What a read gives is an integer, and the month's total if it has not failed.
LEMMA ReadsFacts ==
  ASSUME TypeOK, NEW m \in Months, NEW r \in Reads(m)
  PROVE  r.value \in Int /\ (~r.failed => Accepted(m) /\ r.value = Value(m))
<1>1. Value(m) \in Int
  BY DEF Value, ValueIn, TypeOK
<1>2. GetValue(m) \in Int
  BY <1>1 DEF GetValue, Failed
<1>3. CASE r = [value |-> GetValue(m), failed |-> ~Accepted(m)]
  <2>1. r.value = GetValue(m) /\ r.failed = ~Accepted(m)
    BY ONLY <1>3
  <2> QED BY <2>1, <1>2 DEF GetValue
<1>4. CASE r = [value |-> Failed, failed |-> TRUE]
  <2>1. r.value = Failed /\ r.failed = TRUE
    BY ONLY <1>4
  <2> QED BY <2>1 DEF Failed
<1> QED BY <1>3, <1>4 DEF Reads

\* What a sample adds is an integer, and not negative unless one counter alone has
\* fallen.
LEMMA AddedFacts ==
  ASSUME TypeOK
  PROVE  /\ Added \in Int /\ Difference \in Int
         /\ (rx_pre > rx_now <=> tx_pre > tx_now) => Added >= 0
  BY FlowAssumption DEF TypeOK, Added, Difference
-----------------------------------------------------------------------------
(* Sums over the months.  The library's induction on numbers has an        *)
(* operator for a parameter; the order of finite sets has none.            *)

\* A set of natural numbers has a least element.
LEMMA LeastElement ==
  ASSUME NEW T \in SUBSET Nat, NEW n \in T
  PROVE  \E x \in T : \A y \in T : x <= y
<1> DEFINE S == 0..n
           W == {0..m : m \in T \cap S}
<1>1. W \subseteq FiniteSubsetsOf(S) /\ W # {}
  <2>1. \A m \in T \cap S : 0..m \in SUBSET S
    OBVIOUS
  <2>2. IsFiniteSet(S)
    BY FS_Interval
  <2>3. W \subseteq SUBSET S
    BY <2>1
  <2>4. n \in T \cap S
    OBVIOUS
  <2> QED BY <2>2, <2>3, <2>4, FS_FiniteSubsetsOfFinite
<1> HIDE DEF W
<1>2. PICK w \in W : \A v \in W : ~(<<v, w>> \in StrictSubsetOrdering(S))
  BY <1>1, WFMin, FS_StrictSubsetOrderingWellFounded
<1>3. PICK x \in T \cap S : w = 0..x
  BY DEF W
<1>4. ASSUME NEW y \in T, y < x PROVE FALSE
  <2>1. y \in T \cap S
    BY <1>4
  <2>2. 0..y \in W
    BY <2>1 DEF W
  <2>3. /\ 0..y \in SUBSET S /\ 0..x \in SUBSET S /\ 0..y \subseteq 0..x
        /\ x \in 0..x /\ x \notin 0..y
    BY <2>1, <1>4
  <2>4. <<0..y, 0..x>> \in StrictSubsetOrdering(S)
    BY <2>3 DEF StrictSubsetOrdering
  <2> QED BY <2>2, <2>4, <1>2, <1>3
<1>5. ASSUME NEW y \in T PROVE x <= y
  <2>1. x \in Nat /\ y \in Nat /\ ~(y < x)
    BY <1>4
  <2> QED BY <2>1
<1> QED BY <1>5

\* What holds at 0 and passes from each month to the next holds for all.
LEMMA MonthInduction ==
  ASSUME NEW S, 0 \in S, \A n \in 0..MaxMonth - 1 : n \in S => n + 1 \in S
  PROVE  0..MaxMonth \subseteq S
<1> DEFINE T == 0..MaxMonth \ S
<1> SUFFICES ASSUME T # {} PROVE FALSE
  OBVIOUS
<1>1. PICK x \in T : \A y \in T : x <= y
  <2>1. T \in SUBSET Nat
    BY FlowAssumption
  <2> HIDE DEF T
  <2> QED BY <2>1, LeastElement
<1>2. x \in 0..MaxMonth /\ x # 0 /\ x - 1 \in 0..MaxMonth - 1 /\ x - 1 \notin T
  BY <1>1, FlowAssumption
<1> QED BY <1>2, FlowAssumption

\* f[m] is the sum of the first m months of t, up to n.
SumsUpTo(t, f, n) ==
    f = [m \in 0..n |-> IF m = 0 THEN 0 ELSE f[m - 1] + ValueIn(t, m)]

LEMMA SumsExist == ASSUME NEW t PROVE \E f : SumsUpTo(t, f, MaxMonth)
<1> DEFINE S == {n \in 0..MaxMonth : \E f : SumsUpTo(t, f, n)}
<1>1. 0 \in S
  <2>1. SumsUpTo(t, [m \in 0..0 |-> 0], 0)
    BY DEF SumsUpTo
  <2> QED BY <2>1, FlowAssumption
<1>2. ASSUME NEW n \in 0..MaxMonth - 1, n \in S PROVE n + 1 \in S
  <2>1. PICK f : SumsUpTo(t, f, n)
    BY <1>2
  <2> DEFINE g == [m \in 0..n + 1 |-> IF m = n + 1 THEN f[n] + ValueIn(t, n + 1) ELSE f[m]]
  <2>2. \A m \in 0..n : g[m] = f[m] /\ f[m] = IF m = 0 THEN 0 ELSE f[m - 1] + ValueIn(t, m)
    BY <2>1, FlowAssumption DEF SumsUpTo
  <2>3. g[n + 1] = g[n] + ValueIn(t, n + 1)
    BY FlowAssumption
  <2>4. ASSUME NEW m \in 0..n + 1
        PROVE  g[m] = IF m = 0 THEN 0 ELSE g[m - 1] + ValueIn(t, m)
    <3> HIDE DEF g
    <3>1. CASE m = n + 1
      BY <3>1, <2>3, FlowAssumption
    <3>2. CASE m \in 0..n
      <4>1. m # 0 => m - 1 \in 0..n
        BY <3>2, FlowAssumption
      <4> QED BY <3>2, <4>1, <2>2
    <3> QED BY <3>1, <3>2, FlowAssumption
  <2>5. SumsUpTo(t, g, n + 1)
    BY <2>4 DEF SumsUpTo
  <2> HIDE DEF g
  <2> QED BY <2>5, FlowAssumption
<1>3. MaxMonth \in S
  <2> HIDE DEF S
  <2> QED BY <1>1, <1>2, MonthInduction, FlowAssumption
<1> QED BY <1>3

\* SumOf is such a sum up to the last month.
LEMMA SumOfUnfolded ==
  ASSUME NEW t PROVE \E f : SumsUpTo(t, f, MaxMonth) /\ SumOf(t) = f[MaxMonth]
<1> DEFINE g == CHOOSE f : f = [m \in 0..MaxMonth |-> IF m = 0 THEN 0
                                                     ELSE f[m - 1] + ValueIn(t, m)]
<1>1. SumOf(t) = g[MaxMonth]
  BY Zenon DEF SumOf
<1>2. PICK f : SumsUpTo(t, f, MaxMonth)
  BY SumsExist
<1>3. SumsUpTo(t, g, MaxMonth)
  BY Zenon, <1>2 DEF SumsUpTo
<1> HIDE DEF g
<1> QED BY <1>1, <1>3

IsTable(t) == \A m \in Months : ValueIn(t, m) \in Int

\* A table that differs from another in one month differs in its sum by as much.
LEMMA SumOfChanged ==
  ASSUME NEW t, NEW u, IsTable(t), IsTable(u), NEW k \in Months,
         \A m \in Months : m # k => ValueIn(u, m) = ValueIn(t, m)
  PROVE  /\ SumOf(t) \in Int /\ SumOf(u) \in Int
         /\ SumOf(u) = SumOf(t) + ValueIn(u, k) - ValueIn(t, k)
<1>1. PICK f : SumsUpTo(t, f, MaxMonth) /\ SumOf(t) = f[MaxMonth]
  BY SumOfUnfolded
<1>2. PICK g : SumsUpTo(u, g, MaxMonth) /\ SumOf(u) = g[MaxMonth]
  BY SumOfUnfolded
<1> DEFINE D == ValueIn(u, k) - ValueIn(t, k)
           S == {m \in 0..MaxMonth : /\ f[m] \in Int /\ g[m] \in Int
                                     /\ g[m] = IF k <= m THEN f[m] + D ELSE f[m]}
<1>f. \A m \in 0..MaxMonth : f[m] = IF m = 0 THEN 0 ELSE f[m - 1] + ValueIn(t, m)
  BY <1>1 DEF SumsUpTo
<1>g. \A m \in 0..MaxMonth : g[m] = IF m = 0 THEN 0 ELSE g[m - 1] + ValueIn(u, m)
  BY <1>2 DEF SumsUpTo
<1>3. f[0] = 0 /\ g[0] = 0
  BY <1>f, <1>g, FlowAssumption
<1>4. 0 \in S
  BY <1>3, FlowAssumption DEF Months
<1>5. ASSUME NEW n \in 0..MaxMonth - 1, n \in S PROVE n + 1 \in S
  <2>1. n + 1 \in Months /\ n + 1 \in 0..MaxMonth /\ n + 1 # 0 /\ n + 1 - 1 = n
    BY FlowAssumption DEF Months
  <2>2. f[n + 1] = f[n] + ValueIn(t, n + 1)
    BY <1>f, <2>1
  <2>3. g[n + 1] = g[n] + ValueIn(u, n + 1)
    BY <1>g, <2>1
  <2>4. /\ ValueIn(t, n + 1) \in Int /\ ValueIn(u, n + 1) \in Int
        /\ ValueIn(t, k) \in Int /\ ValueIn(u, k) \in Int
    BY <2>1 DEF IsTable
  <2>5. CASE n + 1 = k
    <3>1. ~(k <= n) /\ k <= n + 1
      BY <2>5, FlowAssumption DEF Months
    <3> QED BY <3>1, <2>5, <2>1, <2>2, <2>3, <2>4, <1>5
  <2>6. CASE n + 1 # k
    <3>1. k <= n <=> k <= n + 1
      BY <2>6, FlowAssumption DEF Months
    <3>2. ValueIn(u, n + 1) = ValueIn(t, n + 1)
      BY <2>6, <2>1
    <3> QED BY <3>1, <3>2, <2>1, <2>2, <2>3, <2>4, <1>5
  <2> QED BY <2>5, <2>6
<1>6. MaxMonth \in S
  <2> HIDE DEF S
  <2> QED BY <1>4, <1>5, MonthInduction, FlowAssumption
<1>7. k <= MaxMonth
  BY FlowAssumption DEF Months
<1>8. D \in Int /\ ValueIn(u, k) \in Int /\ ValueIn(t, k) \in Int
  BY DEF IsTable
<1> QED BY <1>1, <1>2, <1>6, <1>7, <1>8
-----------------------------------------------------------------------------
(* The steps.                                                              *)

LEMMA InitInv == Init => IInv
<1> SUFFICES ASSUME Init PROVE IInv
  OBVIOUS
<1>1. 0 \in 0..Cap /\ 1 \in Months /\ 0 \in 0..2 /\ 0 \in Nat /\ 1 \in Nat
  BY FlowAssumption DEF Months
<1>2. total \in [DOMAIN total -> Int] /\ DOMAIN total \subseteq {m \in Months : Accepted(m)}
  BY DEF Init
<1>3. TypeOK
  BY <1>1, <1>2 DEF Init, TypeOK
<1>4. BehindNoticed
  BY DEF Init, BehindNoticed
<1> QED BY <1>3, <1>4 DEF IInv

LEMMA AccountType == ASSUME IInv, Account PROVE TypeOK'
<1> USE DEF IInv
<1>1. PICK r \in Reads(sampled), inserted \in BOOLEAN :
        LET row == IF r.value = 0 /\ inserted THEN Inserted(total, sampled) ELSE total
            done == Updated(row, sampled, r.value + Added)
        IN total' \in {row, Updated(row, sampled, r.value + Difference), done}
  BY DEF Account
<1> DEFINE row == IF r.value = 0 /\ inserted THEN Inserted(total, sampled) ELSE total
<1>2. sampled \in Months /\ r.value + Added \in Int /\ r.value + Difference \in Int
  BY ReadsFacts, AddedFacts DEF TypeOK
<1>3. row \in [DOMAIN row -> Int] /\ DOMAIN row \subseteq {m \in Months : Accepted(m)}
  BY <1>2, InsertedType DEF TypeOK
<1>4. total' \in [DOMAIN total' -> Int] /\ DOMAIN total' \subseteq {m \in Months : Accepted(m)}
  BY <1>1, <1>2, <1>3, UpdatedType
<1>5. dbFailed' \in BOOLEAN
  BY DEF Account
<1> QED BY <1>4, <1>5 DEF Account, TypeOK, ifVars

LEMMA StartType == ASSUME IInv, Start PROVE TypeOK'
<1> USE DEF IInv
<1>1. PICK r \in Reads(month), written \in BOOLEAN :
        total' = IF written THEN Updated(total, month, r.value + 1) ELSE total
  BY DEF Start
<1>2. month \in Months /\ r.value + 1 \in Int
  BY ReadsFacts DEF TypeOK
<1>3. total' \in [DOMAIN total' -> Int] /\ DOMAIN total' \subseteq {m \in Months : Accepted(m)}
  BY <1>1, <1>2, UpdatedType DEF TypeOK
<1>4. dbFailed' \in BOOLEAN
  BY DEF Start
<1> QED BY <1>3, <1>4, FlowAssumption DEF Start, TypeOK, ifVars

LEMMA SampleInv == ASSUME IInv, Sample PROVE IInv'
<1>1. AsRead(rx) \in 0..Cap /\ AsRead(tx) \in 0..Cap
  BY FlowAssumption DEF IInv, TypeOK, AsRead
<1>2. TypeOK'
  BY <1>1 DEF Sample, IInv, TypeOK, ifVars
<1>3. BehindNoticed'
  BY DEF Sample, BehindNoticed
<1> QED BY <1>2, <1>3 DEF IInv

\* Every step preserves the invariant.
LEMMA StepInv == ASSUME IInv, [Next]_vars PROVE IInv'
<1> USE DEF ifVars, sampleVars, histVars, IInv
<1>1. CASE Traffic
  BY <1>1 DEF Traffic, TypeOK, BehindNoticed
<1>2. CASE LinkRestart
  BY <1>2 DEF LinkRestart, TypeOK, BehindNoticed
<1>3. CASE MonthEnds
  BY <1>3, FlowAssumption DEF MonthEnds, TypeOK, BehindNoticed, Months
<1>4. CASE Start
  BY <1>4, StartType DEF Start, BehindNoticed
<1>5. CASE Sample
  BY <1>5, SampleInv
<1>6. CASE SampleFails
  BY <1>6, FlowAssumption DEF SampleFails, TypeOK, BehindNoticed
<1>7. CASE Account
  BY <1>7, AccountType DEF Account, BehindNoticed
<1>8. CASE Report
  BY <1>8 DEF Report, TypeOK, BehindNoticed
<1>9. CASE Crash
  <2>1. boots' \in Nat
    BY <1>9 DEF Crash, TypeOK
  <2>2. TypeOK'
    BY <1>9, <2>1 DEF Crash, TypeOK
  <2>3. BehindNoticed'
    BY <1>9 DEF Crash, BehindNoticed
  <2> QED BY <2>2, <2>3
<1>10. CASE UNCHANGED vars
  BY <1>10 DEF vars, TypeOK, BehindNoticed
<1> QED BY <1>1, <1>2, <1>3, <1>4, <1>5, <1>6, <1>7, <1>8, <1>9, <1>10 DEF Next, MonitorThread

\* A step after which nothing has failed takes nothing from any month's total.
NotShrunk == ~oneBehind' /\ ~dbFailed' => \A m \in Months : Value(m)' >= Value(m)

LEMMA AccountNotShrunk == ASSUME IInv, Account, ~oneBehind', ~dbFailed', NEW m \in Months
                          PROVE  Value(m)' >= Value(m)
<1> USE DEF IInv
<1>1. PICK r \in Reads(sampled), inserted \in BOOLEAN :
        LET row == IF r.value = 0 /\ inserted THEN Inserted(total, sampled) ELSE total
            done == Updated(row, sampled, r.value + Added)
        IN dbFailed' = (dbFailed \/ r.failed \/ ~inserted \/ total' # done)
  BY DEF Account
<1> DEFINE row == IF r.value = 0 THEN Inserted(total, sampled) ELSE total
<1>2. ~r.failed /\ inserted /\ total' = Updated(row, sampled, r.value + Added)
  BY <1>1
<1>3. sampled \in Months /\ Accepted(sampled) /\ r.value = Value(sampled)
  BY <1>2, ReadsFacts DEF TypeOK
<1>4. Added \in Int /\ Added >= 0
  BY AddedFacts DEF Account, BehindNoticed
<1>5. sampled \in DOMAIN row /\ DOMAIN total \subseteq DOMAIN row
  BY <1>3 DEF Inserted, Value, ValueIn
<1>6. \A k \in Months : k # sampled => (k \in DOMAIN row <=> k \in DOMAIN total)
                                     /\ (k \in DOMAIN total => row[k] = total[k])
  BY <1>3 DEF Inserted
<1>7. CASE m = sampled
  <2>1. Value(m)' = r.value + Added
    BY <1>2, <1>3, <1>5, <1>7 DEF Updated, Value, ValueIn
  <2>2. Value(m) \in Int
    BY DEF TypeOK, Value, ValueIn
  <2> QED BY <2>1, <2>2, <1>3, <1>4, <1>7
<1>8. CASE m # sampled
  <2>1. Value(m)' = Value(m)
    BY <1>2, <1>3, <1>5, <1>6, <1>8 DEF Updated, Value, ValueIn
  <2>2. Value(m) \in Int
    BY DEF TypeOK, Value, ValueIn
  <2> QED BY <2>1, <2>2
<1> QED BY <1>7, <1>8

LEMMA StartNotShrunk == ASSUME IInv, Start, ~dbFailed', NEW m \in Months
                        PROVE  Value(m)' >= Value(m)
<1> USE DEF IInv
<1>1. PICK r \in Reads(month), written \in BOOLEAN :
        /\ total' = IF written THEN Updated(total, month, r.value + 1) ELSE total
        /\ dbFailed' = (dbFailed \/ r.failed \/ ~written)
  BY DEF Start
<1>2. ~r.failed /\ total' = Updated(total, month, r.value + 1)
  BY <1>1
<1>3. month \in Months /\ r.value = Value(month)
  BY <1>2, ReadsFacts DEF TypeOK
<1>4. Value(m) \in Int
  BY DEF TypeOK, Value, ValueIn
<1>5. Value(m)' = Value(m) \/ Value(m)' = Value(m) + 1
  BY <1>2, <1>3 DEF Updated, Value, ValueIn, TypeOK
<1> QED BY <1>4, <1>5

LEMMA StepNotShrunk == ASSUME IInv, [Next]_vars PROVE [NotShrunk]_vars
<1>1. CASE Account
  BY <1>1, AccountNotShrunk DEF NotShrunk
<1>2. CASE Start
  BY <1>2, StartNotShrunk DEF NotShrunk
<1>3. CASE UNCHANGED total
  <2>1. \A m \in Months : Value(m)' = Value(m) /\ Value(m) \in Int
    BY <1>3 DEF IInv, TypeOK, Value, ValueIn
  <2> QED BY <2>1 DEF NotShrunk
<1>4. CASE UNCHANGED vars
  BY <1>4
<1>5. Next => Account \/ Start \/ UNCHANGED total
  BY DEF Next, MonitorThread, Traffic, LinkRestart, MonthEnds, Sample, SampleFails, Report, Crash
<1> QED BY <1>1, <1>2, <1>3, <1>4, <1>5
-----------------------------------------------------------------------------
(* The sum under the writes, and under each step.                          *)

LEMMA TotalIsTable ==
  ASSUME NEW t, t \in [DOMAIN t -> Int] PROVE IsTable(t)
BY DEF IsTable, ValueIn

\* A row that is inserted where there is nothing changes no total.
LEMMA InsertedSum ==
  ASSUME NEW t, t \in [DOMAIN t -> Int], DOMAIN t \subseteq {k \in Months : Accepted(k)},
         NEW m \in Months, ValueIn(t, m) = 0
  PROVE  /\ SumOf(Inserted(t, m)) = SumOf(t)
         /\ \A k \in Months : ValueIn(Inserted(t, m), k) = ValueIn(t, k)
<1> DEFINE u == Inserted(t, m)
<1>1. \A k \in Months : ValueIn(u, k) = ValueIn(t, k)
  BY DEF Inserted, ValueIn
<1>2. IsTable(t) /\ IsTable(u)
  BY InsertedType, TotalIsTable
<1> HIDE DEF u
<1>3. /\ SumOf(t) \in Int /\ SumOf(u) \in Int
      /\ SumOf(u) = SumOf(t) + ValueIn(u, m) - ValueIn(t, m)
  BY <1>1, <1>2, SumOfChanged
<1>4. ValueIn(u, m) = ValueIn(t, m)
  BY <1>1
<1>5. SumOf(u) = SumOf(t)
  BY <1>3, <1>4
<1> QED BY <1>1, <1>5 DEF u

\* An update changes the sum as it changes the month's total, or changes nothing.
LEMMA UpdatedSum ==
  ASSUME NEW t, t \in [DOMAIN t -> Int], DOMAIN t \subseteq {k \in Months : Accepted(k)},
         NEW m \in Months, NEW value \in Int
  PROVE  LET u == Updated(t, m, value)
         IN  /\ SumOf(t) \in Int
             /\ \/ u = t /\ ~(Accepted(m) /\ m \in DOMAIN t)
                \/ /\ Accepted(m) /\ m \in DOMAIN t
                   /\ ValueIn(u, m) = value
                   /\ \A k \in Months : k # m => ValueIn(u, k) = ValueIn(t, k)
                   /\ SumOf(u) = SumOf(t) + value - ValueIn(t, m)
<1> DEFINE u == Updated(t, m, value)
<1>1. IsTable(t) /\ IsTable(u)
  BY UpdatedType, TotalIsTable
<1>2. \A k \in Months : k # m => ValueIn(u, k) = ValueIn(t, k)
  BY DEF Updated, ValueIn
<1>3. Accepted(m) /\ m \in DOMAIN t => ValueIn(u, m) = value
  BY DEF Updated, ValueIn
<1>4. ~(Accepted(m) /\ m \in DOMAIN t) => u = t
  BY DEF Updated
<1> HIDE DEF u
<1>5. /\ SumOf(t) \in Int /\ SumOf(u) \in Int
      /\ SumOf(u) = SumOf(t) + ValueIn(u, m) - ValueIn(t, m)
  BY <1>1, <1>2, SumOfChanged
<1> QED BY <1>2, <1>3, <1>4, <1>5 DEF u

\* No more than n is stored, and no total falls below Failed, unless one counter
\* alone has fallen.
StoresAtMost(n) ==
    /\ Stored \in Int /\ Stored' \in Int
    /\ ~oneBehind /\ NeverBelow => Stored' <= Stored + n /\ NeverBelow'

\* One write of v + n to a month of which a read has given v.
LEMMA WriteStores ==
  ASSUME TypeOK, NEW m \in Months, NEW r \in Reads(m), NEW n \in Int, NEW a \in Int,
         n >= 0 \/ oneBehind, n <= a \/ oneBehind,
         NEW t, t \in [DOMAIN t -> Int], DOMAIN t \subseteq {k \in Months : Accepted(k)},
         SumOf(t) = Stored, \A k \in Months : ValueIn(t, k) = Value(k),
         total' = Updated(t, m, r.value + n), oneBehind' = oneBehind
  PROVE  /\ StoresAtMost(a)
         /\ ~r.failed /\ m \in DOMAIN t => Stored' = Stored + n
<1>1. r.value \in Int /\ (~r.failed => Accepted(m) /\ r.value = Value(m))
  BY ReadsFacts
<1>2. r.value = Value(m) \/ r.value = Failed
  BY DEF Reads, GetValue
<1>3. IsTable(total)
  BY TotalIsTable DEF TypeOK
<1>4. \A k \in Months : Value(k) \in Int
  BY <1>3 DEF IsTable, Value
<1>5. SumOf(t) \in Int
      /\ \/ total' = t /\ ~(Accepted(m) /\ m \in DOMAIN t)
         \/ /\ Accepted(m) /\ m \in DOMAIN t
            /\ ValueIn(total', m) = r.value + n
            /\ \A k \in Months : k # m => ValueIn(total', k) = ValueIn(t, k)
            /\ SumOf(total') = SumOf(t) + (r.value + n) - ValueIn(t, m)
  BY <1>1, UpdatedSum
<1>6. CASE total' = t /\ ~(Accepted(m) /\ m \in DOMAIN t)
  <2>1. Stored' = Stored /\ Stored \in Int
    BY <1>5, <1>6 DEF Stored
  <2>2. \A k \in Months : Value(k)' = Value(k)
    BY <1>6 DEF Value
  <2>3. ~oneBehind => Stored' <= Stored + a
    BY <2>1
  <2>4. NeverBelow => NeverBelow'
    BY <2>2 DEF NeverBelow
  <2> QED BY <2>1, <2>3, <2>4, <1>1, <1>6 DEF StoresAtMost
<1>7. CASE /\ Accepted(m) /\ m \in DOMAIN t
           /\ ValueIn(total', m) = r.value + n
           /\ \A k \in Months : k # m => ValueIn(total', k) = ValueIn(t, k)
           /\ SumOf(total') = SumOf(t) + (r.value + n) - ValueIn(t, m)
  <2>1. Stored \in Int /\ Stored' = Stored + (r.value + n) - Value(m)
    BY <1>5, <1>7 DEF Stored
  <2>2. Stored' \in Int
    BY <2>1, <1>1, <1>4
  <2>3. Value(m)' = r.value + n /\ \A k \in Months : k # m => Value(k)' = Value(k)
    BY <1>7 DEF Value
  <2>4. ASSUME ~oneBehind, NeverBelow PROVE Stored' <= Stored + a /\ NeverBelow'
    <3>1. Value(m) >= Failed /\ Value(m) \in Int /\ \A k \in Months : Value(k) >= Failed
      BY <2>4, <1>4 DEF NeverBelow
    <3>2. r.value <= Value(m) /\ r.value >= Failed
      BY <3>1, <1>2 DEF Failed
    <3>3. Stored' <= Stored + a
      BY <3>1, <3>2, <2>1, <1>1, <2>4
    <3>4. \A k \in Months : Value(k)' >= Failed
      BY <3>1, <3>2, <2>3, <1>1, <2>4 DEF Failed
    <3>5. NeverBelow'
      BY <3>4 DEF NeverBelow, Failed
    <3> QED BY <3>3, <3>5
  <2>5. ~r.failed => Stored' = Stored + n
    BY <2>1, <1>1, <1>4
  <2> QED BY <2>1, <2>2, <2>4, <2>5 DEF StoresAtMost
<1> QED BY <1>5, <1>6, <1>7

\* Whatever fails, an accounting stores no more than Added; just that, if nothing does.
LEMMA AccountStores ==
  ASSUME IInv, Account
  PROVE  StoresAtMost(Added) /\ (~dbFailed' => Stored' = Stored + Added)
<1>1. PICK r \in Reads(sampled), inserted \in BOOLEAN :
        LET row == IF r.value = 0 /\ inserted THEN Inserted(total, sampled) ELSE total
            done == Updated(row, sampled, r.value + Added)
        IN /\ total' \in {row, Updated(row, sampled, r.value + Difference), done}
           /\ dbFailed' = (dbFailed \/ r.failed \/ ~inserted \/ total' # done)
  BY DEF Account
<1> DEFINE row == IF r.value = 0 /\ inserted THEN Inserted(total, sampled) ELSE total
<1>2. TypeOK /\ sampled \in Months /\ oneBehind' = oneBehind
  BY DEF IInv, TypeOK, Account
<1>3. /\ total \in [DOMAIN total -> Int]
      /\ DOMAIN total \subseteq {m \in Months : Accepted(m)}
  BY <1>2 DEF TypeOK
<1>4. r.value \in Int /\ (~r.failed => Accepted(sampled) /\ r.value = Value(sampled))
  BY <1>2, ReadsFacts
<1>5. r.value = 0 => Value(sampled) = 0 /\ Accepted(sampled)
  BY <1>4 DEF Reads, GetValue, Failed
<1>6. /\ row \in [DOMAIN row -> Int]
      /\ DOMAIN row \subseteq {m \in Months : Accepted(m)}
      /\ SumOf(row) = Stored /\ \A m \in Months : ValueIn(row, m) = Value(m)
  <2>1. CASE r.value = 0 /\ inserted
    <3>1. ValueIn(total, sampled) = 0
      BY <2>1, <1>5 DEF Value
    <3> QED BY <2>1, <3>1, <1>2, <1>3, InsertedType, InsertedSum DEF Stored, Value
  <2>2. CASE ~(r.value = 0 /\ inserted)
    BY <2>2, <1>3 DEF Stored, Value
  <2> QED BY <2>1, <2>2
<1>7. ~r.failed /\ inserted => sampled \in DOMAIN row
  <2>1. Value(sampled) # 0 => sampled \in DOMAIN total
    BY DEF Value, ValueIn
  <2> QED BY <2>1, <1>4 DEF Inserted
<1>8. /\ Added \in Int /\ Difference \in Int
      /\ oneBehind \/ (Added >= 0 /\ Difference >= 0 /\ Difference <= Added)
  <2>1. rx_pre \in Int /\ rx_now \in Nat /\ tx_pre \in Int /\ tx_now \in Nat
    BY <1>2, FlowAssumption DEF TypeOK
  <2>2. ~oneBehind => (rx_pre > rx_now <=> tx_pre > tx_now)
    BY DEF IInv, BehindNoticed, Account
  <2> QED BY <2>1, <2>2 DEF Added, Difference
<1>9. SumOf(total) \in Int
  BY <1>2, <1>3, TotalIsTable, SumOfChanged
<1> HIDE DEF row
<1>10. CASE total' = row
  <2>1. Stored' = Stored /\ Stored \in Int /\ \A m \in Months : Value(m)' = Value(m)
    BY <1>6, <1>9, <1>10 DEF Stored, Value
  <2>2. StoresAtMost(Added)
    BY <2>1, <1>2, <1>8 DEF StoresAtMost, NeverBelow
  <2>3. ~dbFailed' => Stored' = Stored + Added
    <3> SUFFICES ASSUME ~dbFailed' PROVE Stored' = Stored + Added
      OBVIOUS
    <3>1. total' = Updated(row, sampled, r.value + Added) /\ ~r.failed /\ inserted
      BY <1>1 DEF row
    <3> QED BY <3>1, <1>2, <1>4, <1>6, <1>7, <1>8, WriteStores
  <2> QED BY <2>2, <2>3
<1>11. CASE total' = Updated(row, sampled, r.value + Difference)
  <2>1. StoresAtMost(Added)
    BY <1>2, <1>6, <1>8, <1>11, WriteStores
  <2>2. ~dbFailed' => Stored' = Stored + Added
    <3> SUFFICES ASSUME ~dbFailed' PROVE Stored' = Stored + Added
      OBVIOUS
    <3>1. total' = Updated(row, sampled, r.value + Added) /\ ~r.failed /\ inserted
      BY <1>1 DEF row
    <3> QED BY <3>1, <1>2, <1>4, <1>6, <1>7, <1>8, WriteStores
  <2> QED BY <2>1, <2>2
<1>12. CASE total' = Updated(row, sampled, r.value + Added)
  <2>1. StoresAtMost(Added) /\ (~r.failed /\ sampled \in DOMAIN row => Stored' = Stored + Added)
    BY <1>2, <1>6, <1>8, <1>12, WriteStores
  <2>2. ~dbFailed' => ~r.failed /\ inserted
    BY <1>1
  <2> QED BY <2>1, <2>2, <1>7
<1> QED BY <1>1, <1>10, <1>11, <1>12 DEF row

\* A start stores a kilobyte at most.
LEMMA StartStores == ASSUME IInv, Start PROVE StoresAtMost(1)
<1>1. PICK r \in Reads(month), written \in BOOLEAN :
        total' = IF written THEN Updated(total, month, r.value + 1) ELSE total
  BY DEF Start
<1>2. TypeOK /\ month \in Months /\ oneBehind' = oneBehind
  BY DEF IInv, TypeOK, Start
<1>3. /\ total \in [DOMAIN total -> Int]
      /\ DOMAIN total \subseteq {m \in Months : Accepted(m)}
  BY <1>2 DEF TypeOK
<1>4. CASE total' = Updated(total, month, r.value + 1)
  <2>1. SumOf(total) = Stored /\ \A m \in Months : ValueIn(total, m) = Value(m)
    BY DEF Stored, Value
  <2> QED BY <1>2, <1>3, <1>4, <2>1, WriteStores
<1>5. CASE total' = total
  <2>1. Stored \in Int
    BY <1>2, <1>3, TotalIsTable, SumOfChanged DEF Stored
  <2>2. Stored' = Stored /\ \A m \in Months : Value(m)' = Value(m)
    BY <1>5 DEF Stored, Value
  <2> QED BY <2>1, <2>2, <1>2 DEF StoresAtMost, NeverBelow
<1> QED BY <1>1, <1>4, <1>5

\* While traffic passes, what covers the counters grows with them.
LEMMA CoveredGrows ==
  ASSUME NEW x \in Nat, NEW y \in Nat, NEW a \in 0..Cap, NEW b \in 0..Cap, NEW n \in Int,
         Covered(x, y, a, b, n)
  PROVE  Covered(x + 1, y, a, b, n + 1) /\ Covered(x, y + 1, a, b, n + 1)
BY FlowAssumption DEF Covered, AsRead

\* What covers them is not negative, and covers counters that have started again.
LEMMA CoveredRestarts ==
  ASSUME NEW x \in Nat, NEW y \in Nat, NEW a \in 0..Cap, NEW b \in 0..Cap, NEW n \in Int,
         Covered(x, y, a, b, n)
  PROVE  n >= 0 /\ Covered(0, 0, a, b, n)
BY FlowAssumption DEF Covered, AsRead

\* A sample covers itself.
LEMMA CoveredAtOnce ==
  ASSUME NEW x \in Nat, NEW y \in Nat, NEW n \in Nat
  PROVE  Covered(x, y, AsRead(x), AsRead(y), n)
BY FlowAssumption DEF Covered, AsRead

LEMMA InitSum == Init => SumInv
<1> SUFFICES ASSUME Init PROVE SumInv
  OBVIOUS
<1>1. DOMAIN total = {}
  BY DEF Init
<1>2. \A m \in Months : Value(m) = 0
  BY <1>1 DEF Value, ValueIn
<1>3. Stored = 0
  <2>1. PICK f : SumsUpTo(total, f, MaxMonth) /\ Stored = f[MaxMonth]
    BY SumOfUnfolded DEF Stored
  <2>2. \A m \in 0..MaxMonth : f[m] = IF m = 0 THEN 0 ELSE f[m - 1] + ValueIn(total, m)
    BY <2>1 DEF SumsUpTo
  <2> DEFINE S == {m \in 0..MaxMonth : f[m] = 0}
  <2>3. 0 \in S
    BY <2>2, FlowAssumption
  <2>4. ASSUME NEW n \in 0..MaxMonth - 1, n \in S PROVE n + 1 \in S
    <3>1. n + 1 \in Months /\ n + 1 \in 0..MaxMonth /\ n + 1 # 0 /\ n + 1 - 1 = n
      BY FlowAssumption DEF Months
    <3>2. ValueIn(total, n + 1) = 0
      BY <3>1, <1>2 DEF Value
    <3> QED BY <3>1, <3>2, <2>2, <2>4
  <2>5. MaxMonth \in S
    <3> HIDE DEF S
    <3> QED BY <2>3, <2>4, MonthInduction, FlowAssumption
  <2> QED BY <2>1, <2>5
<1>4. SlackEnough
  BY <1>3 DEF Init, SlackEnough, Slack
<1>5. NeverBelow
  BY <1>2 DEF NeverBelow, Failed
<1>6. StoredSince
  BY DEF Init, StoredSince
<1> QED BY <1>4, <1>5, <1>6 DEF SumInv

\* The types that the steps below need.
LEMMA SumTypes ==
  ASSUME IInv
  PROVE  /\ rx \in Nat /\ tx \in Nat /\ passed \in Nat /\ boots \in Nat /\ first \in Nat
         /\ rx_now \in 0..Cap /\ tx_now \in 0..Cap /\ rx_pre \in 0..Cap /\ tx_pre \in 0..Cap
         /\ Stored \in Int /\ Slack \in Int /\ Added \in Int
         /\ i \in 0..2
<1>1. Stored \in Int
  BY TotalIsTable, SumOfChanged, FlowAssumption DEF IInv, TypeOK, Stored, Months
<1>2. Added \in Int
  BY AddedFacts DEF IInv
<1> QED BY <1>1, <1>2 DEF IInv, TypeOK, Slack

\* The steps that leave the database alone leave the sum and the totals alone.
LEMMA SumUnchanged ==
  ASSUME UNCHANGED total
  PROVE  Stored' = Stored /\ \A m \in Months : Value(m)' = Value(m)
BY DEF Stored, Value

LEMMA SampleSum == ASSUME IInv, SumInv, Sample PROVE SumInv'
<1>1. Stored' = Stored /\ \A m \in Months : Value(m)' = Value(m)
  BY SumUnchanged DEF Sample
<1>2. /\ AsRead(rx) \in 0..Cap /\ AsRead(tx) \in 0..Cap
      /\ AsRead(rx) <= rx /\ AsRead(tx) <= tx
  BY SumTypes, FlowAssumption DEF AsRead
<1>3. /\ rx' = rx /\ tx' = tx /\ passed' = passed /\ boots' = boots
      /\ rx_now' = AsRead(rx) /\ tx_now' = AsRead(tx) /\ pc' = "account" /\ i' = i
      /\ dbFailed' = dbFailed
  BY DEF Sample, ifVars
<1>4. Slack' = Slack
  BY <1>1, <1>3 DEF Slack
<1>5. NeverBelow'
  BY <1>1 DEF Sample, SumInv, NeverBelow
<1>6. ASSUME ~oneBehind' PROVE Slack' >= 0 /\ Covered(rx, tx, rx_now, tx_now, Slack - Added)'
  <2>1. ~oneBehind /\ (rx_pre' > AsRead(rx) <=> tx_pre' > AsRead(tx)) /\ Slack >= 0
    BY <1>3, <1>6 DEF Sample, SumInv, SlackEnough
  <2>2. Added' \in 0..Slack
    <3>1. CASE i = 0
      <4>1. rx_pre' = AsRead(rx) /\ tx_pre' = AsRead(tx)
        BY <3>1 DEF Sample
      <4>2. Added' = 0
        BY <4>1, <1>2, <1>3 DEF Added, Difference
      <4> QED BY <4>2, <2>1, SumTypes
    <3>2. CASE i # 0
      <4>1. rx_pre' = rx_pre /\ tx_pre' = tx_pre
        BY <3>2 DEF Sample
      <4>2. Covered(rx, tx, rx_pre, tx_pre, Slack)
        BY <3>2, <2>1 DEF Sample, SumInv, SlackEnough
      <4> QED BY <4>1, <4>2, <2>1, <1>2, <1>3, SumTypes, FlowAssumption
              DEF Added, Difference, Covered
    <3> QED BY <3>1, <3>2
  <2>3. Slack - Added' \in Nat
    BY <2>2, SumTypes
  <2>4. Covered(rx, tx, AsRead(rx), AsRead(tx), Slack - Added')
    BY <2>3, SumTypes, CoveredAtOnce
  <2> QED BY <2>1, <2>4, <1>3, <1>4
<1>7. SlackEnough'
  BY <1>3, <1>6 DEF SlackEnough
<1>8. StoredSince'
  <2>1. base' \in Int
    BY SumTypes DEF Sample, SumInv, StoredSince
  <2>2. ASSUME ~restarted', ~dbFailed'
        PROVE  Stored' = base' + rx_pre' + tx_pre' - first' /\ rx_pre' <= rx_now' /\ tx_pre' <= tx_now'
    <3>1. ~restarted /\ ~(rx_pre' > rx_now') /\ ~(tx_pre' > tx_now')
      BY <2>2 DEF Sample
    <3>2. CASE i = 0
      <4>1. rx_pre' = AsRead(rx) /\ tx_pre' = AsRead(tx) /\ base' = Stored
            /\ first' = AsRead(rx) + AsRead(tx)
        BY <3>2 DEF Sample
      <4> QED BY <4>1, <1>1, <1>2, <1>3, SumTypes
    <3>3. CASE i # 0
      <4>1. rx_pre' = rx_pre /\ tx_pre' = tx_pre /\ base' = base /\ first' = first
        BY <3>3 DEF Sample
      <4>2. Stored = base + rx_pre + tx_pre - first
        BY <3>1, <3>3, <2>2, <1>3 DEF Sample, SumInv, StoredSince
      <4> QED BY <4>1, <4>2, <3>1, <1>1, <1>2, <1>3, SumTypes
    <3> QED BY <3>2, <3>3
  <2> QED BY <2>1, <2>2, <1>3 DEF StoredSince
<1> QED BY <1>5, <1>7, <1>8 DEF SumInv

LEMMA AccountSum == ASSUME IInv, SumInv, Account PROVE SumInv'
<1>1. StoresAtMost(Added) /\ (~dbFailed' => Stored' = Stored + Added)
  BY AccountStores
<1>2. /\ rx' = rx /\ tx' = tx /\ passed' = passed /\ boots' = boots
      /\ rx_pre' = rx_now /\ tx_pre' = tx_now /\ pc' \in {"sample", "report"}
      /\ restarted' = restarted /\ oneBehind' = oneBehind /\ base' = base /\ first' = first
      /\ (~dbFailed' => ~dbFailed) /\ pc = "account"
  BY DEF Account, ifVars
<1>3. ~oneBehind => Slack' \in Int /\ Slack' >= Slack - Added
  BY <1>1, <1>2, SumTypes DEF StoresAtMost, Slack, SumInv
<1>4. NeverBelow'
  BY <1>1, <1>2 DEF StoresAtMost, SumInv, NeverBelow
<1>5. SlackEnough'
  <2> SUFFICES ASSUME ~oneBehind
               PROVE  Slack' >= 0 /\ Covered(rx, tx, rx_now, tx_now, Slack')
    BY <1>2 DEF SlackEnough
  <2>1. Covered(rx, tx, rx_now, tx_now, Slack - Added)
    BY <1>2 DEF SumInv, SlackEnough
  <2>2. Covered(rx, tx, rx_now, tx_now, Slack')
    BY <2>1, <1>3, SumTypes, FlowAssumption DEF Covered, AsRead
  <2> QED BY <2>2, <1>3, SumTypes, CoveredRestarts
<1>6. StoredSince'
  <2>1. base' \in Int
    BY <1>2 DEF SumInv, StoredSince
  <2>2. ASSUME ~restarted', ~dbFailed' PROVE Stored' = base + rx_now + tx_now - first
    <3>1. /\ Stored = base + rx_pre + tx_pre - first /\ rx_pre <= rx_now /\ tx_pre <= tx_now
          /\ base \in Int
      BY <2>2, <1>2 DEF SumInv, StoredSince
    <3>2. Added = rx_now - rx_pre + tx_now - tx_pre
      BY <3>1, SumTypes, FlowAssumption DEF Added, Difference
    <3>3. Stored' = Stored + Added
      BY <2>2, <1>1
    <3> QED BY <3>1, <3>2, <3>3, SumTypes
  <2> QED BY <2>1, <2>2, <1>2 DEF StoredSince
<1> QED BY <1>4, <1>5, <1>6 DEF SumInv

\* Every step preserves the invariant of the sums.
LEMMA StepSum == ASSUME IInv, SumInv, [Next]_vars PROVE SumInv'
<1>1. CASE Traffic
  <2>1. Stored' = Stored /\ \A m \in Months : Value(m)' = Value(m)
    BY <1>1, SumUnchanged DEF Traffic
  <2>2. Slack' = Slack + 1
    BY <1>1, <2>1, SumTypes DEF Traffic, Slack
  <2>3. SlackEnough'
    <3> SUFFICES ASSUME ~oneBehind PROVE SlackEnough'
      BY <1>1 DEF SlackEnough, Traffic, histVars
    <3>1. Slack >= 0 /\ (pc = "start" => Slack >= 1)
      BY DEF SumInv, SlackEnough
    <3>2. /\ pc' = pc /\ i' = i /\ rx_pre' = rx_pre /\ tx_pre' = tx_pre
          /\ rx_now' = rx_now /\ tx_now' = tx_now
      BY <1>1 DEF Traffic, sampleVars
    <3>3. ASSUME pc = "report" \/ (pc = "sample" /\ i # 0)
          PROVE  Covered(rx, tx, rx_pre, tx_pre, Slack)'
      <4>1. Covered(rx, tx, rx_pre, tx_pre, Slack)
        BY <3>3 DEF SumInv, SlackEnough
      <4> QED BY <4>1, <3>2, <2>2, <1>1, CoveredGrows, SumTypes DEF Traffic
    <3>4. ASSUME pc = "account" PROVE Covered(rx, tx, rx_now, tx_now, Slack - Added)'
      <4>1. Covered(rx, tx, rx_now, tx_now, Slack - Added)
        BY <3>4 DEF SumInv, SlackEnough
      <4>2. Added' = Added
        BY <3>2 DEF Added, Difference
      <4>3. Slack - Added \in Int /\ Slack' - Added' = (Slack - Added) + 1
        BY <4>2, <2>2, SumTypes
      <4> QED BY <4>1, <4>3, <3>2, <1>1, CoveredGrows, SumTypes DEF Traffic
    <3> QED BY <3>1, <3>2, <3>3, <3>4, <2>2, SumTypes DEF SlackEnough
  <2>4. NeverBelow' /\ StoredSince'
    BY <1>1, <2>1 DEF Traffic, sampleVars, histVars, SumInv, NeverBelow, StoredSince
  <2> QED BY <2>3, <2>4 DEF SumInv
<1>2. CASE LinkRestart
  <2>1. Stored' = Stored /\ \A m \in Months : Value(m)' = Value(m)
    BY <1>2, SumUnchanged DEF LinkRestart
  <2>2. Slack' = Slack
    BY <1>2, <2>1 DEF LinkRestart, Slack
  <2>3. SlackEnough'
    <3> SUFFICES ASSUME ~oneBehind PROVE SlackEnough'
      BY <1>2 DEF SlackEnough, LinkRestart, histVars
    <3>1. Slack >= 0 /\ (pc = "start" => Slack >= 1)
      BY DEF SumInv, SlackEnough
    <3>2. /\ pc' = pc /\ i' = i /\ rx_pre' = rx_pre /\ tx_pre' = tx_pre
          /\ rx_now' = rx_now /\ tx_now' = tx_now /\ rx' = 0 /\ tx' = 0
      BY <1>2 DEF LinkRestart, sampleVars
    <3>3. ASSUME pc = "report" \/ (pc = "sample" /\ i # 0)
          PROVE  Covered(rx, tx, rx_pre, tx_pre, Slack)'
      <4>1. Covered(rx, tx, rx_pre, tx_pre, Slack)
        BY <3>3 DEF SumInv, SlackEnough
      <4> QED BY <4>1, <3>2, <2>2, CoveredRestarts, SumTypes
    <3>4. ASSUME pc = "account" PROVE Covered(rx, tx, rx_now, tx_now, Slack - Added)'
      <4>1. Covered(rx, tx, rx_now, tx_now, Slack - Added)
        BY <3>4 DEF SumInv, SlackEnough
      <4>2. Added' = Added
        BY <3>2 DEF Added, Difference
      <4>3. Slack - Added \in Int /\ Slack' - Added' = Slack - Added
        BY <4>2, <2>2, SumTypes
      <4> QED BY <4>1, <4>3, <3>2, CoveredRestarts, SumTypes
    <3> QED BY <3>1, <3>2, <3>3, <3>4, <2>2 DEF SlackEnough
  <2>4. NeverBelow' /\ StoredSince'
    BY <1>2, <2>1 DEF LinkRestart, sampleVars, histVars, SumInv, NeverBelow, StoredSince
  <2> QED BY <2>3, <2>4 DEF SumInv
<1>3. CASE MonthEnds \/ Report \/ UNCHANGED vars
  <2>1. Stored' = Stored /\ \A m \in Months : Value(m)' = Value(m)
    BY <1>3, SumUnchanged DEF MonthEnds, Report, vars
  <2>2. Slack' = Slack /\ rx' = rx /\ tx' = tx /\ oneBehind' = oneBehind
    BY <1>3, <2>1 DEF MonthEnds, Report, vars, ifVars, histVars, Slack
  <2>3. Added' = Added
    BY <1>3 DEF MonthEnds, Report, vars, sampleVars, Added, Difference
  <2>4. SlackEnough'
    BY <1>3, <2>2, <2>3
    DEF MonthEnds, Report, vars, ifVars, sampleVars, histVars, SumInv, SlackEnough
  <2>5. NeverBelow' /\ StoredSince'
    BY <1>3, <2>1
    DEF MonthEnds, Report, vars, sampleVars, histVars, SumInv, NeverBelow, StoredSince
  <2> QED BY <2>4, <2>5 DEF SumInv
<1>4. CASE Start
  <2>1. StoresAtMost(1)
    BY <1>4, StartStores
  <2>2. /\ pc = "start" /\ pc' = "sample" /\ i' = 0 /\ passed' = passed /\ boots' = boots
        /\ oneBehind' = oneBehind /\ base' = base
    BY <1>4 DEF Start, ifVars
  <2>3. SlackEnough'
    BY <2>1, <2>2, SumTypes DEF StoresAtMost, SumInv, SlackEnough, Slack
  <2>4. NeverBelow'
    BY <2>1, <2>2 DEF StoresAtMost, SumInv, NeverBelow
  <2>5. StoredSince'
    BY <2>2 DEF SumInv, StoredSince
  <2> QED BY <2>3, <2>4, <2>5 DEF SumInv
<1>5. CASE Sample
  BY <1>5, SampleSum
<1>6. CASE SampleFails
  <2>1. Stored' = Stored /\ \A m \in Months : Value(m)' = Value(m)
    BY <1>6, SumUnchanged DEF SampleFails
  <2>2. /\ Slack' = Slack /\ rx' = rx /\ tx' = tx /\ pc = "sample" /\ pc' = "sample"
        /\ i' = i /\ rx_pre' = rx_pre /\ tx_pre' = tx_pre /\ oneBehind' = oneBehind
        /\ base' = base /\ first' = first /\ restarted' = restarted /\ dbFailed' = dbFailed
    BY <1>6, <2>1 DEF SampleFails, ifVars, histVars, Slack
  <2>3. SlackEnough'
    BY <2>2 DEF SumInv, SlackEnough
  <2>4. NeverBelow' /\ StoredSince'
    BY <2>1, <2>2 DEF SumInv, NeverBelow, StoredSince
  <2> QED BY <2>3, <2>4 DEF SumInv
<1>7. CASE Account
  BY <1>7, AccountSum
<1>8. CASE Crash
  <2>1. Stored' = Stored /\ \A m \in Months : Value(m)' = Value(m)
    BY <1>8, SumUnchanged DEF Crash
  <2>2. /\ pc' = "start" /\ boots' = boots + 1 /\ passed' = passed
        /\ oneBehind' = oneBehind /\ base' = base
    BY <1>8 DEF Crash, ifVars
  <2>3. Slack' = Slack + 1
    BY <2>1, <2>2, SumTypes DEF Slack
  <2>4. SlackEnough'
    BY <2>2, <2>3, SumTypes DEF SumInv, SlackEnough
  <2>5. NeverBelow' /\ StoredSince'
    BY <2>1, <2>2 DEF SumInv, NeverBelow, StoredSince
  <2> QED BY <2>4, <2>5 DEF SumInv
<1> QED BY <1>1, <1>2, <1>3, <1>4, <1>5, <1>6, <1>7, <1>8 DEF Next, MonitorThread
-----------------------------------------------------------------------------
(* What is proved beside the properties of the runs.                       *)

\* Once a later month has been sampled, the totals of those before it are final:
\* traffic goes to the month of its sample, a start writes to the current month, and no
\* failed call or restart reopens a month that is over (hy_flow_moniter.c:139-199).
PastMonthsClosed == [][\A m \in Months : m < sampled => Value(m)' = Value(m)]_vars

\* The clock is never behind a sample.
SampledBefore == sampled <= month

LEMMA SampledBeforeStep == ASSUME IInv, SampledBefore, [Next]_vars PROVE SampledBefore'
<1>1. month \in Nat /\ sampled \in Nat
  BY FlowAssumption DEF IInv, TypeOK, Months
<1>2. CASE MonthEnds
  BY <1>1, <1>2 DEF MonthEnds, sampleVars, SampledBefore
<1>3. CASE sampled' = month /\ month' = month
  BY <1>1, <1>3 DEF SampledBefore
<1>4. CASE sampled' = sampled /\ month' = month
  BY <1>4 DEF SampledBefore
<1>5. Next => \/ MonthEnds
              \/ sampled' = month /\ month' = month
              \/ sampled' = sampled /\ month' = month
  BY DEF Next, MonitorThread, Traffic, LinkRestart, Start, Sample, SampleFails, Account, Report,
     Crash, ifVars, sampleVars
<1> QED BY <1>2, <1>3, <1>4, <1>5 DEF vars, ifVars, sampleVars

\* Both writes leave every other month alone.
LEMMA OthersAlone ==
  ASSUME NEW t, NEW m, NEW value, NEW k, k # m
  PROVE  /\ ValueIn(Inserted(t, m), k) = ValueIn(t, k)
         /\ ValueIn(Updated(t, m, value), k) = ValueIn(t, k)
  BY DEF Inserted, Updated, ValueIn

\* What one step leaves of the months before the one sampled.
LEMMA ClosedStep ==
  ASSUME IInv, SampledBefore, [Next]_vars, NEW m \in Months, m < sampled
  PROVE  Value(m)' = Value(m)
<1>1. m # sampled /\ m # month
  BY FlowAssumption DEF IInv, TypeOK, Months, SampledBefore
<1>2. CASE Account
  <2>1. PICK r \in Reads(sampled), inserted \in BOOLEAN :
          LET row == IF r.value = 0 /\ inserted THEN Inserted(total, sampled) ELSE total
              done == Updated(row, sampled, r.value + Added)
          IN total' \in {row, Updated(row, sampled, r.value + Difference), done}
    BY <1>2 DEF Account
  <2> DEFINE row == IF r.value = 0 /\ inserted THEN Inserted(total, sampled) ELSE total
  <2>2. ValueIn(row, m) = ValueIn(total, m)
    BY <1>1, OthersAlone
  <2>3. total' \in {row, Updated(row, sampled, r.value + Difference),
                    Updated(row, sampled, r.value + Added)}
    BY <2>1
  <2> HIDE DEF row
  <2>4. ValueIn(total', m) = ValueIn(row, m)
    BY <1>1, <2>3, OthersAlone
  <2> QED BY <2>2, <2>4 DEF Value
<1>3. CASE Start
  <2>1. PICK r \in Reads(month), written \in BOOLEAN :
          total' = IF written THEN Updated(total, month, r.value + 1) ELSE total
    BY <1>3 DEF Start
  <2>2. ValueIn(total', m) = ValueIn(total, m)
    BY <1>1, <2>1, OthersAlone
  <2> QED BY <2>2 DEF Value
<1>4. CASE UNCHANGED total
  BY <1>4 DEF Value
<1>5. Next => Account \/ Start \/ UNCHANGED total
  BY DEF Next, MonitorThread, Traffic, LinkRestart, MonthEnds, Sample, SampleFails, Report, Crash
<1> QED BY <1>2, <1>3, <1>4, <1>5 DEF vars
-----------------------------------------------------------------------------
(* The theorems.                                                           *)

LEMMA Invariance == Spec => []IInv
<1>1. IInv /\ [Next]_vars => IInv'
  BY StepInv
<1> QED BY InitInv, <1>1, PTL DEF Spec

\* Every variable keeps its type: the counters their width, the table its months.
THEOREM TypeCorrect == Spec => []TypeOK
<1>1. IInv => TypeOK
  BY DEF IInv
<1> QED BY <1>1, Invariance, PTL

\* No month's total shrinks while the database works and no counter falls alone.
THEOREM TotalNeverShrinksCorrect == Spec => TotalNeverShrinks
<1>1. IInv /\ [Next]_vars => [NotShrunk]_vars
  BY StepNotShrunk
<1>2. TotalNeverShrinks <=> [][NotShrunk]_vars
  BY PTL DEF TotalNeverShrinks, NotShrunk
<1> QED BY <1>1, <1>2, Invariance, PTL DEF Spec

LEMMA SumInvariance == Spec => []SumInv
<1>1. IInv /\ SumInv /\ [Next]_vars => SumInv'
  BY StepSum
<1> QED BY InitSum, <1>1, Invariance, PTL DEF Spec

\* No traffic is counted twice, whatever fails or starts again, until one counter falls
\* alone.
THEOREM NeverOvercountsCorrect == Spec => []NeverOvercounts
<1>1. IInv /\ SumInv => NeverOvercounts
  BY SumTypes DEF SumInv, SlackEnough, Slack, NeverOvercounts
<1> QED BY <1>1, Invariance, SumInvariance, PTL

\* All that was sampled is stored, each kilobyte once, until a call fails or a counter
\* falls.
THEOREM SampledIsStoredCorrect == Spec => []SampledIsStored
<1>1. SumInv => SampledIsStored
  BY DEF SumInv, StoredSince, SampledIsStored
<1> QED BY <1>1, SumInvariance, PTL

\* However the database fails, a total is the mark of a failed read at the least: what
\* is added to a failed read never lets a total run below it.
THEOREM NeverBelowCorrect == Spec => []NeverBelow
<1>1. SumInv => NeverBelow
  BY DEF SumInv
<1> QED BY <1>1, SumInvariance, PTL

\* The months that are over keep their totals, whatever fails or starts again.
THEOREM PastMonthsClosedCorrect == Spec => PastMonthsClosed
<1>1. Init => SampledBefore
  BY DEF Init, SampledBefore
<1>2. IInv /\ SampledBefore /\ [Next]_vars => SampledBefore'
  BY SampledBeforeStep
<1>3. IInv /\ SampledBefore /\ [Next]_vars
        => [\A m \in Months : m < sampled => Value(m)' = Value(m)]_vars
  BY ClosedStep
<1> QED BY <1>1, <1>2, <1>3, Invariance, PTL DEF Spec, PastMonthsClosed
=============================================================================
