------------------------- MODULE KlineFetcherProofs -------------------------
(***************************************************************************)
(* Any number of processes and goroutines, whatever fails and dies, keep   *)
(* the stored bars of an interval without a hole, and the meta row within  *)
(* the table.  The rounds do not exclude each other: what makes them       *)
(* harmless is that each of them only ever writes right above a stretch    *)
(* that is already complete (Sound), and that rows never go away (Kept).   *)
(* The last section is about one process, whose rounds do exclude each     *)
(* other (Locked): what its rounds refresh and what its meta row says.     *)
(***************************************************************************)
EXTENDS KlineFetcher, WellFoundedInduction, FiniteSetTheorems, TLAPS

\* Rows are bars of the exchange, which has none beyond the current period.
Kept == \A iv \in Intervals : \A b \in Bars :
          /\ source[iv][b] # None => b <= now[iv]
          /\ table[iv][b] # None => source[iv][b] # None

\* Every bar the exchange has below period s is stored.
CompleteBelow(iv, s) ==
  \A b \in Bars : b < s /\ source[iv][b] # None => table[iv][b] # None

\* The batch is the next stretch of bars from the start of the round on.
NextStretch(iv, s, e, got) ==
  /\ DOMAIN got # {}
  /\ \A b \in DOMAIN got : b \in s..e /\ got[b] # None /\ source[iv][b] # None
  /\ \A b \in DOMAIN got : \A c \in Bars :
       s <= c /\ c <= b /\ source[iv][c] # None => c \in DOMAIN got

SoundJob(j) ==
  /\ job[j].pc \in {"fetch", "upsert"} =>
       /\ CompleteBelow(Interval(j), job[j].start)
       /\ job[j].end <= now[Interval(j)] /\ job[j].start <= job[j].end + 1
  /\ job[j].pc = "upsert" =>
       NextStretch(Interval(j), job[j].start, job[j].end, job[j].got)

\* What a round is about to write to the meta row.
AggJob(j) == job[j].pc = "meta" =>
  /\ job[j].agg.count <= Cardinality(Stored(table[Interval(j)]))
  /\ job[j].agg.latest <= Latest(table[Interval(j)])

Sound == \A j \in Jobs : SoundJob(j) /\ AggJob(j)

IInv == TypeOK /\ Kept /\ NoHole /\ Sound /\ MetaWithinTable

-----------------------------------------------------------------------------
(* Bars, rows and batches. *)

LEMMA BarsHaveMax ==
  ASSUME NEW S \in SUBSET Bars, S # {}
  PROVE  \E m \in S : \A b \in S : b <= m
<1>. DEFINE R == OpToRel(<, Nat)
            T == {MaxBar - b : b \in S}
<1>1. MaxBar \in Nat BY KlineAssumption
<1>2. IsWellFoundedOn(R, Nat) BY NatLessThanWellFounded
<1>3. T \subseteq Nat
  <2>1. \A b \in S : b \in Nat /\ MaxBar - b \in Nat BY <1>1 DEF Bars
  <2>. QED BY <2>1
<1>4. T # {}
  <2>1. PICK b \in S : TRUE OBVIOUS
  <2>2. MaxBar - b \in T BY <2>1
  <2>. QED BY <2>2
<1>. HIDE DEF T
<1>5. PICK x \in T : \A y \in T : ~(<<y, x>> \in R) BY <1>2, <1>3, <1>4, WFMin
<1>6. \A y \in T : ~(y < x) BY <1>5, <1>3 DEF OpToRel
<1>7. PICK m \in S : x = MaxBar - m BY <1>5 DEF T
<1>8. \A b \in S : ~(MaxBar - b < MaxBar - m) BY <1>6, <1>7 DEF T
<1>9. \A b \in S : b \in Int BY DEF Bars
<1>. QED BY <1>7, <1>8, <1>9, <1>1

LEMMA LatestIsNewest ==
  ASSUME NEW rows \in [Bars -> Version]
  PROVE  /\ Latest(rows) \in -1..MaxBar
         /\ \A b \in Stored(rows) : b <= Latest(rows)
         /\ Stored(rows) # {} => Latest(rows) \in Stored(rows)
         /\ Stored(rows) = {} => Latest(rows) = -1
<1>1. Stored(rows) \in SUBSET Bars BY DEF Stored
<1>2. MaxBar \in Nat BY KlineAssumption
<1>3. CASE Stored(rows) = {} BY <1>2, <1>3 DEF Latest
<1>4. CASE Stored(rows) # {}
  <2>1. \E m \in Stored(rows) : \A b \in Stored(rows) : b <= m BY <1>1, <1>4, BarsHaveMax
  <2>2. /\ Latest(rows) \in Stored(rows)
        /\ \A b \in Stored(rows) : b <= Latest(rows)
    BY <2>1, <1>4 DEF Latest
  <2>. QED BY <2>2, <1>1, <1>2, <1>4 DEF Bars
<1>. QED BY <1>3, <1>4

LEMMA LastOfIsLast ==
  ASSUME NEW got, DOMAIN got \in SUBSET Bars, DOMAIN got # {}
  PROVE  LastOf(got) \in DOMAIN got /\ \A b \in DOMAIN got : b <= LastOf(got)
BY BarsHaveMax DEF LastOf

LEMMA StoredFinite ==
  ASSUME NEW rows
  PROVE  IsFiniteSet(Stored(rows)) /\ Cardinality(Stored(rows)) \in Nat
<1>1. IsFiniteSet(Bars) BY FS_Interval, KlineAssumption DEF Bars
<1>2. Stored(rows) \subseteq Bars BY DEF Stored
<1>. QED BY <1>1, <1>2, FS_Subset, FS_CardinalityType

LEMMA StatsType ==
  ASSUME NEW rows \in [Bars -> Version]
  PROVE  Stats(rows) \in MetaRow
BY LatestIsNewest, StoredFinite DEF Stats, MetaRow

\* More rows, larger figures.
LEMMA StatsGrow ==
  ASSUME NEW rows \in [Bars -> Version], NEW more \in [Bars -> Version],
         Stored(rows) \subseteq Stored(more)
  PROVE  /\ Cardinality(Stored(rows)) <= Cardinality(Stored(more))
         /\ Latest(rows) <= Latest(more)
<1>1. Cardinality(Stored(rows)) <= Cardinality(Stored(more))
  BY StoredFinite, FS_Subset
<1>2. Latest(rows) <= Latest(more)
  <2>1. Latest(rows) \in Int /\ Latest(more) \in Int /\ -1 <= Latest(more)
    BY LatestIsNewest
  <2>2. CASE Stored(rows) = {} BY <2>1, <2>2, LatestIsNewest
  <2>3. CASE Stored(rows) # {} BY <2>3, LatestIsNewest
  <2>. QED BY <2>2, <2>3
<1>. QED BY <1>1, <1>2

LEMMA IntervalType ==
  ASSUME TypeOK, NEW j \in Jobs
  PROVE  Interval(j) \in Intervals /\ job[j] \in Round
BY DEF TypeOK, Interval, Intervals, Round

LEMMA NoBatchType == NoBatch \in Batches
<1>1. NoBatch \in [{} -> Version] BY DEF NoBatch
<1>. QED BY <1>1 DEF Batches

LEMMA FreshType ==
  ASSUME NEW pc \in {"idle", "latest"}, NEW i \in 1..Len(Order)
  PROVE  Fresh(pc, i) \in Round /\ Fresh(pc, i).pc = pc
<1>1. 0 \in Bars /\ [count |-> 0, latest |-> -1] \in MetaRow
  BY KlineAssumption DEF Bars, MetaRow
<1>. QED BY <1>1, NoBatchType DEF Fresh, Round

LEMMA IdleType == Idle \in Round /\ Idle.pc = "idle"
BY FreshType, KlineAssumption DEF Idle

LEMMA NotBegunType == NotBegun \in [from : Bars, source : [Bars -> Version]]
BY KlineAssumption DEF NotBegun, NoRows, Bars, Version, None, Revised

LEMMA BatchOfBars ==
  ASSUME NEW got \in Batches
  PROVE  DOMAIN got \in SUBSET Bars /\ \A b \in DOMAIN got : got[b] \in Version
BY DEF Batches

LEMMA MergedType ==
  ASSUME NEW rows \in [Bars -> Version], NEW got \in Batches
  PROVE  Merged(rows, got) \in [Bars -> Version]
BY BatchOfBars DEF Merged

LEMMA StartTimeType ==
  ASSUME TypeOK, NEW iv \in Intervals
  PROVE  StartTime(iv) \in Bars
<1>1. table[iv] \in [Bars -> Version] BY DEF TypeOK
<1>2. Latest(table[iv]) \in -1..MaxBar BY <1>1, LatestIsNewest
<1>3. Lookback[iv] \in Nat /\ MaxBar \in Nat BY KlineAssumption
<1>. QED BY <1>2, <1>3 DEF StartTime, Bars

-----------------------------------------------------------------------------
(* Types. *)

LEMMA ReturnType ==
  ASSUME TypeOK, NEW j \in Jobs, NEW ok, Return(j, ok)
  PROVE  /\ job' \in [Jobs -> Round] /\ syncing' \in [Procs -> BOOLEAN]
         /\ began' \in [Jobs -> [from : Bars, source : [Bars -> Version]]]
         /\ job'[j].pc \in {"idle", "latest"}
         /\ \A k \in Jobs \ {j} : job'[k] = job[k]
<1>1. Idle \in Round /\ Idle.pc = "idle" BY IdleType
<1>3. began' \in [Jobs -> [from : Bars, source : [Bars -> Version]]]
  BY NotBegunType DEF Return, TypeOK
<1>4. CASE GoesOn(j, ok)
  <2>. DEFINE n == Fresh("latest", job[j].at + 1)
  <2>1. job[j].at \in 1..Len(Order) /\ Len(Order) \in Nat
    BY IntervalType, KlineAssumption DEF Round
  <2>2. job[j].at + 1 \in 1..Len(Order) BY <1>4, <2>1 DEF GoesOn
  <2>3. n \in Round /\ n.pc = "latest" BY <2>2, FreshType
  <2>5. job' = [job EXCEPT ![j] = n] /\ syncing' = syncing
    BY <1>4 DEF Return, Goto
  <2>. HIDE DEF n
  <2>6. job' \in [Jobs -> Round] /\ job'[j] = n /\ \A k \in Jobs \ {j} : job'[k] = job[k]
    BY <2>3, <2>5 DEF TypeOK
  <2>. QED BY <1>3, <2>3, <2>5, <2>6 DEF TypeOK
<1>5. CASE ~GoesOn(j, ok)
  <2>1. /\ job' = [job EXCEPT ![j] = Idle]
        /\ syncing' = [syncing EXCEPT ![ProcOf[j]] = FALSE]
    BY <1>5 DEF Return
  <2>2. /\ job' \in [Jobs -> Round] /\ job'[j] = Idle
        /\ \A k \in Jobs \ {j} : job'[k] = job[k]
    BY <2>1, <1>1 DEF TypeOK
  <2>3. syncing' \in [Procs -> BOOLEAN] BY <2>1 DEF TypeOK
  <2>. QED BY <1>1, <1>3, <2>2, <2>3
<1>. QED BY <1>4, <1>5

LEMMA WriteType ==
  ASSUME TypeOK, NEW j \in Jobs, WriteBatch(j)
  PROVE  /\ table' \in [Intervals -> [Bars -> Version]]
         /\ table'[Interval(j)] = Merged(table[Interval(j)], job[j].got)
         /\ \A iv \in Intervals \ {Interval(j)} : table'[iv] = table[iv]
<1>1. table[Interval(j)] \in [Bars -> Version] /\ job[j].got \in Batches
  BY IntervalType DEF TypeOK, Round
<1>2. Merged(table[Interval(j)], job[j].got) \in [Bars -> Version]
  BY <1>1, MergedType
<1>. QED BY <1>2, IntervalType DEF WriteBatch, TypeOK

LEMMA TypeStep == TypeOK /\ Sound /\ [Next]_vars => TypeOK'
<1>. SUFFICES ASSUME TypeOK, Sound, [Next]_vars PROVE TypeOK'
  OBVIOUS
<1>. USE DEF world
<1>1. ASSUME NEW j \in Jobs, Fire(j) PROVE TypeOK'
  <2>1. job[j] \in Round BY IntervalType
  <2>2. [job[j] EXCEPT !.pc = "latest"] \in Round BY <2>1 DEF Round
  <2>3. job' \in [Jobs -> Round] BY <1>1, <2>2 DEF Fire, TypeOK
  <2>. QED BY <1>1, <2>3 DEF Fire, TypeOK
<1>2. ASSUME NEW j \in Jobs, Begin(j) PROVE TypeOK'
  <2>1. Interval(j) \in Intervals /\ job[j] \in Round BY IntervalType
  <2>2. StartTime(Interval(j)) \in Bars /\ now[Interval(j)] \in Bars
        /\ source[Interval(j)] \in [Bars -> Version]
    BY <2>1, StartTimeType DEF TypeOK
  <2>. DEFINE n == [job[j] EXCEPT !.pc = "fetch", !.start = StartTime(Interval(j)),
                                  !.end = now[Interval(j)]]
              f == [from |-> StartTime(Interval(j)), source |-> source[Interval(j)]]
  <2>3. StartTime(Interval(j)) \in Nat BY <2>2 DEF Bars
  <2>4. n \in Round BY <2>1, <2>2, <2>3 DEF Round
  <2>5. f \in [from : Bars, source : [Bars -> Version]] BY <2>2
  <2>6. job' = [job EXCEPT ![j] = n] /\ began' = [began EXCEPT ![j] = f]
        /\ UNCHANGED <<syncing, now, source, alive, table, meta, faults>>
    BY <1>2 DEF Begin, Goto
  <2>. HIDE DEF n, f
  <2>. QED BY <2>4, <2>5, <2>6 DEF TypeOK
<1>3. ASSUME NEW j \in Jobs, Fetch(j) PROVE TypeOK'
  <2>1. Interval(j) \in Intervals /\ job[j] \in Round BY IntervalType
  <2>2. PICK batch \in SUBSET Answer(j) :
          Goto(j, [job[j] EXCEPT !.pc  = IF batch = {} THEN "sync" ELSE "upsert",
                                 !.got = [b \in batch |-> source[Interval(j)][b]]])
    BY <1>3 DEF Fetch
  <2>. DEFINE got == [b \in batch |-> source[Interval(j)][b]]
              n == [job[j] EXCEPT !.pc  = IF batch = {} THEN "sync" ELSE "upsert",
                                  !.got = got]
  <2>3. batch \in SUBSET Bars BY DEF Answer
  <2>4. got \in [batch -> Version] BY <2>1, <2>3 DEF TypeOK
  <2>5. got \in Batches BY <2>3, <2>4 DEF Batches
  <2>6. job' = [job EXCEPT ![j] = n] /\ syncing' = syncing BY <2>2 DEF Goto
  <2>. HIDE DEF got
  <2>7. n \in Round BY <2>1, <2>5 DEF Round
  <2>. HIDE DEF n
  <2>. QED BY <1>3, <2>6, <2>7 DEF Fetch, TypeOK
<1>4. ASSUME NEW j \in Jobs, RangeDone(j) PROVE TypeOK'
  <2>1. job[j] \in Round BY IntervalType
  <2>2. [job[j] EXCEPT !.pc = "sync"] \in Round BY <2>1 DEF Round
  <2>. QED BY <1>4, <2>2 DEF RangeDone, Goto, TypeOK
<1>5. ASSUME NEW j \in Jobs, Upsert(j) PROVE TypeOK'
  <2>1. job[j] \in Round BY IntervalType
  <2>. DEFINE n == [job[j] EXCEPT !.pc    = IF ShortBatch(job[j].got) THEN "sync" ELSE "fetch",
                                  !.start = LastOf(job[j].got) + 1,
                                  !.got   = NoBatch]
  <2>2. job[j].got \in Batches BY <2>1 DEF Round
  <2>3. LastOf(job[j].got) \in Bars
    <3>1. DOMAIN job[j].got \in SUBSET Bars BY <2>2, BatchOfBars
    <3>2. DOMAIN job[j].got # {} BY <1>5 DEF Upsert, Sound, SoundJob, NextStretch
    <3>. QED BY <3>1, <3>2, LastOfIsLast
  <2>4. LastOf(job[j].got) + 1 \in Nat BY <2>3 DEF Bars
  <2>5. n \in Round BY <2>1, <2>4, NoBatchType DEF Round
  <2>6. job' = [job EXCEPT ![j] = n] /\ syncing' = syncing BY <1>5 DEF Upsert, Goto
  <2>7. table' \in [Intervals -> [Bars -> Version]] BY <1>5, WriteType DEF Upsert
  <2>. HIDE DEF n
  <2>. QED BY <1>5, <2>5, <2>6, <2>7 DEF Upsert, TypeOK
<1>6. ASSUME NEW j \in Jobs, Aggregate(j) PROVE TypeOK'
  <2>1. Interval(j) \in Intervals /\ job[j] \in Round BY IntervalType
  <2>2. Stats(table[Interval(j)]) \in MetaRow BY <2>1, StatsType DEF TypeOK
  <2>3. [job[j] EXCEPT !.pc = "meta", !.agg = Stats(table[Interval(j)])] \in Round
    BY <2>1, <2>2 DEF Round
  <2>. QED BY <1>6, <2>3 DEF Aggregate, Goto, TypeOK
<1>7. ASSUME NEW j \in Jobs, SaveMeta(j) PROVE TypeOK'
  <2>1. job[j].agg \in MetaRow BY IntervalType DEF Round
  <2>2. meta' \in [Intervals -> MetaRow] BY <1>7, <2>1 DEF SaveMeta, TypeOK
  <2>. QED BY <1>7, <2>2, ReturnType DEF SaveMeta, TypeOK
<1>8. ASSUME NEW j \in Jobs, NotAnswered(j) PROVE TypeOK'
  BY <1>8, ReturnType DEF NotAnswered, TypeOK
<1>9. ASSUME NEW j \in Jobs, Fail(j) PROVE TypeOK'
  <2>1. table' \in [Intervals -> [Bars -> Version]]
    BY <1>9, WriteType DEF Fail, TypeOK
  <2>2. faults' \in 0..MaxFaults BY <1>9, KlineAssumption DEF Fail, TypeOK
  <2>. QED BY <1>9, <2>1, <2>2, ReturnType DEF Fail, TypeOK
<1>10. ASSUME NEW j \in Jobs, SyncFails(j) PROVE TypeOK'
  <2>1. faults' \in 0..MaxFaults BY <1>10, KlineAssumption DEF SyncFails, TypeOK
  <2>. QED BY <1>10, <2>1, ReturnType DEF SyncFails, TypeOK
<1>11. ASSUME NEW p \in Procs, Start(p) PROVE TypeOK'
  BY <1>11 DEF Start, TypeOK
<1>12. ASSUME NEW p \in Procs, Kill(p) PROVE TypeOK'
  <2>1. table' \in [Intervals -> [Bars -> Version]]
    BY <1>12, WriteType DEF Kill, TypeOK
  <2>2. faults' \in 0..MaxFaults BY <1>12, KlineAssumption DEF Kill, TypeOK
  <2>3. job' \in [Jobs -> Round] BY <1>12, IdleType DEF Kill, TypeOK
  <2>4. began' \in [Jobs -> [from : Bars, source : [Bars -> Version]]]
    BY <1>12, NotBegunType DEF Kill, TypeOK
  <2>. QED BY <1>12, <2>1, <2>2, <2>3, <2>4 DEF Kill, TypeOK
<1>13. ASSUME NEW iv \in Intervals, NextPeriod(iv) PROVE TypeOK'
  <2>1. now[iv] + 1 \in Bars BY <1>13, KlineAssumption DEF NextPeriod, TypeOK, Bars
  <2>2. now' \in [Intervals -> Bars] BY <1>13, <2>1 DEF NextPeriod, TypeOK
  <2>3. PICK v \in {None, Live} : source' = [source EXCEPT ![iv] =
          [b \in Bars |-> IF b = now[iv] + 1 THEN v
                          ELSE IF @[b] = Live THEN Closed ELSE @[b]]]
    BY <1>13 DEF NextPeriod
  <2>4. [b \in Bars |-> IF b = now[iv] + 1 THEN v
           ELSE IF source[iv][b] = Live THEN Closed ELSE source[iv][b]]
        \in [Bars -> Version]
    BY DEF TypeOK, Version, None, Live, Closed, Revised
  <2>5. source' \in [Intervals -> [Bars -> Version]] BY <2>3, <2>4 DEF TypeOK
  <2>. QED BY <1>13, <2>2, <2>5 DEF NextPeriod, TypeOK
<1>14. ASSUME NEW iv \in Intervals, Revise(iv) PROVE TypeOK'
  <2>1. Revised \in Version BY DEF Version, None, Revised
  <2>. QED BY <1>14, <2>1 DEF Revise, TypeOK
<1>15. CASE UNCHANGED vars
  BY <1>15 DEF vars, TypeOK
<1>. QED
  BY <1>1, <1>2, <1>3, <1>4, <1>5, <1>6, <1>7, <1>8, <1>9, <1>10, <1>11, <1>12,
     <1>13, <1>14, <1>15 DEF Next, JobStep, Step

-----------------------------------------------------------------------------
(* What a step of somebody else leaves true. *)

\* The exchange only gains bars after the current period; rows only come.
Grown == \A iv \in Intervals :
  /\ now[iv] <= now'[iv]
  /\ \A b \in Bars :
       /\ source[iv][b] # None => source'[iv][b] # None
       /\ b <= now[iv] /\ source'[iv][b] # None => source[iv][b] # None
       /\ table[iv][b] # None => table'[iv][b] # None

LEMMA QuietGrown ==
  ASSUME TypeOK, UNCHANGED <<world, table>>
  PROVE  Grown /\ (Kept => Kept') /\ (NoHole => NoHole')
BY DEF Grown, Kept, NoHole, TypeOK, world, Bars, Stored

LEMMA GrownStats ==
  ASSUME TypeOK, TypeOK', Grown, NEW iv \in Intervals
  PROVE  /\ Cardinality(Stored(table[iv])) <= Cardinality(Stored(table'[iv]))
         /\ Latest(table[iv]) <= Latest(table'[iv])
         /\ Cardinality(Stored(table[iv])) \in Int /\ Cardinality(Stored(table'[iv])) \in Int
         /\ Latest(table[iv]) \in Int /\ Latest(table'[iv]) \in Int
<1>1. table[iv] \in [Bars -> Version] /\ table'[iv] \in [Bars -> Version]
  BY DEF TypeOK
<1>2. Stored(table[iv]) \subseteq Stored(table'[iv]) BY DEF Grown, Stored
<1>3. /\ Cardinality(Stored(table[iv])) \in Int /\ Cardinality(Stored(table'[iv])) \in Int
      /\ Latest(table[iv]) \in Int /\ Latest(table'[iv]) \in Int
  BY <1>1, StoredFinite, LatestIsNewest
<1>. QED BY <1>1, <1>2, <1>3, StatsGrow

LEMMA JobKept ==
  ASSUME TypeOK, TypeOK', Grown, NEW k \in Jobs, job'[k] = job[k],
         SoundJob(k), AggJob(k)
  PROVE  SoundJob(k)' /\ AggJob(k)'
<1>. DEFINE iv == Interval(k)
<1>1. Interval(k)' = Interval(k) /\ iv \in Intervals /\ job[k] \in Round
  BY IntervalType DEF Interval
<1>2. /\ now[iv] \in Int /\ now'[iv] \in Int /\ now[iv] <= now'[iv]
      /\ \A b \in Bars : b \in Int
  BY <1>1 DEF Grown, TypeOK, Bars
<1>3. job[k].start \in Nat /\ job[k].end \in Int /\ job[k].got \in Batches
  BY <1>1 DEF Round, Bars
<1>. HIDE DEF iv
<1>4. ASSUME job[k].pc \in {"fetch", "upsert"}
      PROVE  /\ CompleteBelow(iv, job[k].start)'
             /\ job[k].end <= now'[iv]
  <2>1. CompleteBelow(iv, job[k].start) /\ job[k].end <= now[iv]
        /\ job[k].start <= job[k].end + 1
    BY <1>4 DEF SoundJob, iv
  <2>2. \A b \in Bars : b < job[k].start => b <= now[iv] BY <2>1, <1>2, <1>3
  <2>3. \A b \in Bars : b < job[k].start /\ source'[iv][b] # None => table'[iv][b] # None
    BY <2>1, <2>2, <1>1 DEF Grown, CompleteBelow, iv
  <2>4. job'[k].start = job[k].start OBVIOUS
  <2>. QED BY <2>1, <2>3, <2>4, <1>2, <1>3, <1>1 DEF CompleteBelow, iv
<1>5. ASSUME job[k].pc = "upsert"
      PROVE  NextStretch(iv, job[k].start, job[k].end, job[k].got)'
  <2>1. /\ NextStretch(iv, job[k].start, job[k].end, job[k].got)
        /\ job[k].end <= now[iv]
    BY <1>5 DEF SoundJob, iv
  <2>2. DOMAIN job[k].got \in SUBSET Bars BY <1>3, BatchOfBars
  <2>3. \A c \in Bars, b \in DOMAIN job[k].got : c <= b => c <= now[iv]
    BY <2>1, <2>2, <1>2, <1>3 DEF NextStretch
  <2>. QED BY <2>1, <2>2, <2>3, <1>1 DEF Grown, NextStretch, iv
<1>6. SoundJob(k)'
  BY <1>1, <1>4, <1>5 DEF SoundJob, iv
<1>7. AggJob(k)'
  <2>1. job[k].agg \in MetaRow BY <1>1 DEF Round
  <2>2. job[k].agg.count \in Int /\ job[k].agg.latest \in Int BY <2>1 DEF MetaRow
  <2>. QED BY <2>2, <1>1, GrownStats DEF AggJob, iv
<1>. QED BY <1>6, <1>7

LEMMA MetaKept ==
  ASSUME TypeOK, TypeOK', Grown, MetaWithinTable, meta' = meta
  PROVE  MetaWithinTable'
<1>. SUFFICES ASSUME NEW iv \in Intervals
     PROVE /\ meta[iv].count <= Cardinality(Stored(table'[iv]))
           /\ meta[iv].latest <= Latest(table'[iv])
  BY DEF MetaWithinTable
<1>1. meta[iv] \in MetaRow BY DEF TypeOK
<1>2. meta[iv].count \in Int /\ meta[iv].latest \in Int BY <1>1 DEF MetaRow
<1>. QED BY <1>2, GrownStats DEF MetaWithinTable

-----------------------------------------------------------------------------
(* The two steps everything rests on. *)

\* A round starts above a complete stretch.
LEMMA StartSound ==
  ASSUME TypeOK, Kept, NoHole, NEW iv \in Intervals
  PROVE  StartTime(iv) <= now[iv] /\ CompleteBelow(iv, StartTime(iv))
<1>. DEFINE newest == Latest(table[iv])
<1>1. table[iv] \in [Bars -> Version] /\ now[iv] \in Bars BY DEF TypeOK
<1>2. newest \in -1..MaxBar BY <1>1, LatestIsNewest
<1>3. Lookback[iv] \in Nat BY KlineAssumption
<1>4. now[iv] \in Nat /\ Bars \subseteq Nat BY <1>1 DEF Bars
<1>. HIDE DEF newest
<1>5. CASE newest = -1 \/ newest - Lookback[iv] < 0
  <2>1. StartTime(iv) = 0 BY <1>5 DEF StartTime, newest
  <2>. QED BY <2>1, <1>4 DEF CompleteBelow
<1>6. CASE ~(newest = -1 \/ newest - Lookback[iv] < 0)
  <2>1. StartTime(iv) = newest - Lookback[iv] BY <1>6 DEF StartTime, newest
  <2>2. newest \in Stored(table[iv]) BY <1>1, <1>6, LatestIsNewest DEF newest
  <2>3. newest <= now[iv] BY <2>2 DEF Kept, Stored
  <2>4. ASSUME NEW b \in Bars, b < StartTime(iv), source[iv][b] # None
        PROVE  table[iv][b] # None
    <3>1. b \in 0..newest BY <2>1, <2>4, <1>2, <1>3, <1>4
    <3>. QED BY <3>1, <2>2, <2>4 DEF NoHole
  <2>. QED BY <2>1, <2>3, <2>4, <1>2, <1>3, <1>4 DEF CompleteBelow
<1>. QED BY <1>5, <1>6

\* The batch of a round goes into the table without leaving a hole.
LEMMA WriteSound ==
  ASSUME TypeOK, Kept, NoHole, NEW j \in Jobs, SoundJob(j), job[j].pc = "upsert",
         WriteBatch(j), UNCHANGED world
  PROVE  /\ Grown /\ Kept' /\ NoHole'
         /\ LastOf(job[j].got) \in job[j].start..job[j].end
         /\ \A b \in Bars : /\ b < LastOf(job[j].got) + 1
                            /\ source[Interval(j)][b] # None
                            => table'[Interval(j)][b] # None
<1>. DEFINE iv == Interval(j)
            got == job[j].got
            last == LastOf(got)
<1>1. iv \in Intervals /\ job[j] \in Round BY IntervalType
<1>2. got \in Batches /\ job[j].start \in Int /\ job[j].end \in Int
  BY <1>1 DEF Round, Bars
<1>3. DOMAIN got \in SUBSET Bars BY <1>2, BatchOfBars
<1>4. NextStretch(iv, job[j].start, job[j].end, got)
      /\ CompleteBelow(iv, job[j].start)
  BY DEF SoundJob
<1>5. /\ table'[iv] = Merged(table[iv], got)
      /\ \A i \in Intervals \ {iv} : table'[i] = table[i]
  BY WriteType
<1>6. now' = now /\ source' = source BY DEF world
<1>7. \A b \in Bars : b \in Int BY DEF Bars
<1>. HIDE DEF iv, got
<1>8. last \in DOMAIN got /\ \A b \in DOMAIN got : b <= last
  BY <1>3, <1>4, LastOfIsLast DEF NextStretch
<1>9. last \in job[j].start..job[j].end BY <1>4, <1>8 DEF NextStretch
<1>10. \A b \in Bars : table'[iv][b] # None <=> b \in DOMAIN got \/ table[iv][b] # None
  BY <1>4, <1>5 DEF Merged, NextStretch
<1>11. Grown
  <2>1. \A i \in Intervals : now[i] \in Int BY DEF TypeOK, Bars
  <2>2. \A i \in Intervals, b \in Bars : table[i][b] # None => table'[i][b] # None
    BY <1>5, <1>10
  <2>. QED BY <1>6, <2>1, <2>2 DEF Grown
<1>12. Kept'
  <2>. SUFFICES ASSUME NEW i \in Intervals, NEW b \in Bars, table'[i][b] # None
       PROVE source[i][b] # None
    BY <1>6 DEF Kept
  <2>1. CASE i = iv BY <2>1, <1>10, <1>4 DEF Kept, NextStretch
  <2>2. CASE i # iv BY <2>2, <1>5 DEF Kept
  <2>. QED BY <2>1, <2>2
<1>13. ASSUME NEW b \in Bars, b < last + 1, source[iv][b] # None
       PROVE  table'[iv][b] # None
  <2>1. b <= last BY <1>13, <1>7, <1>8, <1>3
  <2>2. CASE b < job[j].start BY <2>2, <1>4, <1>13, <1>10 DEF CompleteBelow
  <2>3. CASE ~(b < job[j].start)
    <3>1. job[j].start <= b BY <2>3, <1>2, <1>7
    <3>2. b \in DOMAIN got BY <3>1, <2>1, <1>4, <1>8, <1>13 DEF NextStretch
    <3>. QED BY <3>2, <1>10
  <2>. QED BY <2>2, <2>3
<1>14. NoHole'
  <2>. SUFFICES ASSUME NEW i \in Intervals, NEW c \in Stored(table'[i]), NEW b \in 0..c,
                       source[i][b] # None
       PROVE table'[i][b] # None
    BY <1>6 DEF NoHole
  <2>1. c \in Bars /\ table'[i][c] # None BY DEF Stored
  <2>2. b \in Bars /\ b <= c BY <2>1, KlineAssumption DEF Bars
  <2>3. CASE c \in Stored(table[i])
    <3>1. table[i][b] # None BY <2>3 DEF NoHole
    <3>. QED BY <3>1, <2>2, <1>11 DEF Grown
  <2>4. CASE c \notin Stored(table[i])
    <3>1. i = iv /\ c \in DOMAIN got BY <2>1, <2>4, <1>5, <1>10 DEF Stored
    <3>2. b < last + 1 BY <3>1, <2>1, <2>2, <1>3, <1>7, <1>8
    <3>. QED BY <3>1, <3>2, <2>2, <1>13
  <2>. QED BY <2>3, <2>4
<1>. QED BY <1>9, <1>11, <1>12, <1>13, <1>14 DEF iv, got

LEMMA OthersKept ==
  ASSUME TypeOK, TypeOK', Grown, Sound, NEW j \in Jobs,
         \A k \in Jobs \ {j} : job'[k] = job[k], SoundJob(j)', AggJob(j)'
  PROVE  Sound'
<1>. SUFFICES ASSUME NEW k \in Jobs \ {j} PROVE SoundJob(k)' /\ AggJob(k)'
  BY DEF Sound
<1>. QED BY JobKept DEF Sound

LEMMA ReturnSound ==
  ASSUME TypeOK, TypeOK', Grown, Sound, NEW j \in Jobs, NEW ok, Return(j, ok)
  PROVE  Sound'
<1>1. job'[j].pc \in {"idle", "latest"} /\ \A k \in Jobs \ {j} : job'[k] = job[k]
  BY ReturnType
<1>2. SoundJob(j)' /\ AggJob(j)' BY <1>1 DEF SoundJob, AggJob
<1>. QED BY <1>1, <1>2, OthersKept

LEMMA GotoOthers ==
  ASSUME TypeOK, NEW j \in Jobs, NEW n, Goto(j, n)
  PROVE  job'[j] = n /\ \A k \in Jobs \ {j} : job'[k] = job[k]
BY DEF TypeOK, Goto

-----------------------------------------------------------------------------
LEMMA IInvInit == Init => IInv
<1>. SUFFICES ASSUME Init PROVE IInv
  OBVIOUS
<1>1. NoRows \in [Bars -> Version] /\ Stored(NoRows) = {}
  BY DEF NoRows, Version, Stored, None, Revised
<1>2. [NoRows EXCEPT ![0] = Live] \in [Bars -> Version]
  <2>1. Live \in Version BY DEF Version, Live, None, Revised
  <2>. QED BY <1>1, <2>1
<1>3. Stats(NoRows) \in MetaRow BY <1>1, StatsType
<1>4. TypeOK
  <2>1. 0 \in Bars /\ 0 \in 0..MaxFaults BY KlineAssumption DEF Bars
  <2>. QED BY <1>1, <1>2, <1>3, <2>1, IdleType, NotBegunType DEF Init, TypeOK
<1>5. Kept BY KlineAssumption DEF Init, Kept, NoRows, Bars, None, Live
<1>6. NoHole BY <1>1 DEF Init, NoHole
<1>7. Sound BY IdleType DEF Init, Sound, SoundJob, AggJob
<1>8. MetaWithinTable
  <2>1. Stats(NoRows).count = Cardinality(Stored(NoRows))
        /\ Stats(NoRows).latest = Latest(NoRows)
    BY DEF Stats
  <2>2. Cardinality(Stored(NoRows)) \in Int /\ Latest(NoRows) \in Int
    BY <1>1, StoredFinite, LatestIsNewest
  <2>. QED BY <2>1, <2>2 DEF Init, MetaWithinTable
<1>. QED BY <1>4, <1>5, <1>6, <1>7, <1>8 DEF IInv

LEMMA IInvStep == IInv /\ [Next]_vars => IInv'
<1>. SUFFICES ASSUME IInv, [Next]_vars PROVE IInv'
  OBVIOUS
<1>. USE DEF world
<1>1. TypeOK /\ Kept /\ NoHole /\ Sound /\ MetaWithinTable /\ TypeOK'
  BY TypeStep DEF IInv
<1>. SUFFICES Kept' /\ NoHole' /\ Sound' /\ MetaWithinTable'
  BY <1>1 DEF IInv
<1>2. ASSUME NEW j \in Jobs, Fire(j) PROVE Kept' /\ NoHole' /\ Sound' /\ MetaWithinTable'
  <2>1. Grown /\ Kept' /\ NoHole' BY <1>1, <1>2, QuietGrown DEF Fire
  <2>2. job[j] \in Round BY <1>1, IntervalType
  <2>3. job'[j].pc = "latest" /\ \A k \in Jobs \ {j} : job'[k] = job[k]
    BY <1>1, <1>2, <2>2 DEF Fire, TypeOK, Round
  <2>4. SoundJob(j)' /\ AggJob(j)' BY <2>3 DEF SoundJob, AggJob
  <2>5. Sound' BY <1>1, <2>1, <2>3, <2>4, OthersKept
  <2>. QED BY <1>1, <1>2, <2>1, <2>5, MetaKept DEF Fire
<1>3. ASSUME NEW j \in Jobs, Begin(j) PROVE Kept' /\ NoHole' /\ Sound' /\ MetaWithinTable'
  <2>. DEFINE iv == Interval(j)
              n == [job[j] EXCEPT !.pc = "fetch", !.start = StartTime(iv), !.end = now[iv]]
  <2>1. Grown /\ Kept' /\ NoHole' BY <1>1, <1>3, QuietGrown DEF Begin
  <2>2. job[j] \in Round /\ iv \in Intervals BY <1>1, IntervalType
  <2>3. Goto(j, n) BY <1>3 DEF Begin
  <2>4. job'[j] = n /\ \A k \in Jobs \ {j} : job'[k] = job[k]
    BY <1>1, <2>3, GotoOthers
  <2>5. /\ n.pc = "fetch" /\ n.start = StartTime(iv) /\ n.end = now[iv] /\ n.at = job[j].at
    BY <2>2 DEF Round
  <2>6. StartTime(iv) <= now[iv] /\ CompleteBelow(iv, StartTime(iv))
    BY <1>1, <2>2, StartSound
  <2>7. StartTime(iv) \in Int /\ now[iv] \in Int
    BY <1>1, <2>2, StartTimeType DEF TypeOK, Bars
  <2>. HIDE DEF n
  <2>8. Interval(j)' = iv BY <2>4, <2>5 DEF Interval
  <2>9. SoundJob(j)'
    <3>1. now' = now /\ source' = source /\ table' = table BY <1>3 DEF Begin
    <3>2. \A b \in Bars : b < StartTime(iv) /\ source'[iv][b] # None => table'[iv][b] # None
      BY <2>6, <3>1 DEF CompleteBelow
    <3>. QED BY <2>4, <2>5, <2>6, <2>7, <2>8, <3>1, <3>2 DEF SoundJob, CompleteBelow
  <2>10. AggJob(j)' BY <2>4, <2>5 DEF AggJob
  <2>11. Sound' BY <1>1, <2>1, <2>4, <2>9, <2>10, OthersKept
  <2>. QED BY <1>1, <1>3, <2>1, <2>11, MetaKept DEF Begin
<1>4. ASSUME NEW j \in Jobs, Fetch(j) PROVE Kept' /\ NoHole' /\ Sound' /\ MetaWithinTable'
  <2>. DEFINE iv == Interval(j)
  <2>1. Grown /\ Kept' /\ NoHole' BY <1>1, <1>4, QuietGrown DEF Fetch
  <2>2. job[j] \in Round /\ iv \in Intervals BY <1>1, IntervalType
  <2>3. PICK batch \in SUBSET Answer(j) :
          /\ IsBatch(batch, Answer(j))
          /\ Goto(j, [job[j] EXCEPT !.pc  = IF batch = {} THEN "sync" ELSE "upsert",
                                    !.got = [b \in batch |-> source[iv][b]]])
    BY <1>4 DEF Fetch
  <2>. DEFINE got == [b \in batch |-> source[iv][b]]
              n == [job[j] EXCEPT !.pc  = IF batch = {} THEN "sync" ELSE "upsert", !.got = got]
  <2>4. job'[j] = n /\ \A k \in Jobs \ {j} : job'[k] = job[k]
    BY <1>1, <2>3, GotoOthers
  <2>. HIDE DEF got
  <2>5. /\ n.pc = IF batch = {} THEN "sync" ELSE "upsert"
        /\ n.got = got /\ n.start = job[j].start /\ n.end = job[j].end /\ n.at = job[j].at
    BY <2>2 DEF Round
  <2>. HIDE DEF n
  <2>6. Interval(j)' = iv BY <2>4, <2>5 DEF Interval
  <2>7. /\ CompleteBelow(iv, job[j].start)
        /\ job[j].end <= now[iv] /\ job[j].start <= job[j].end + 1
    BY <1>1, <1>4 DEF Fetch, Sound, SoundJob
  <2>8. now' = now /\ source' = source /\ table' = table BY <1>4 DEF Fetch
  <2>9. batch # {} => NextStretch(iv, job[j].start, job[j].end, got)
    <3>. SUFFICES ASSUME batch # {} PROVE NextStretch(iv, job[j].start, job[j].end, got)
      OBVIOUS
    <3>1. DOMAIN got = batch /\ \A b \in batch : got[b] = source[iv][b] BY DEF got
    <3>2. \A b \in batch : /\ b \in Bars /\ job[j].start <= b /\ b <= job[j].end
                           /\ source[iv][b] # None
      BY DEF Answer
    <3>3. job[j].start \in Int /\ job[j].end \in Int BY <2>2 DEF Round, Bars
    <3>4. \A b \in batch : b \in job[j].start..job[j].end
      BY <3>2, <3>3 DEF Bars
    <3>5. ASSUME NEW b \in batch, NEW c \in Bars, job[j].start <= c, c <= b, source[iv][c] # None
          PROVE  c \in batch
      <4>1. c <= job[j].end BY <3>2, <3>3, <3>5 DEF Bars
      <4>2. c \in Answer(j) BY <3>5, <4>1 DEF Answer
      <4>. QED BY <2>3, <3>5, <4>2 DEF IsBatch
    <3>. QED BY <3>1, <3>2, <3>4, <3>5 DEF NextStretch
  <2>10. SoundJob(j)'
    <3>1. \A b \in Bars : b < job[j].start /\ source'[iv][b] # None => table'[iv][b] # None
      BY <2>7, <2>8 DEF CompleteBelow
    <3>2. CASE batch = {} BY <3>2, <2>4, <2>5 DEF SoundJob
    <3>3. CASE batch # {}
      <4>. QED BY <3>1, <3>3, <2>4, <2>5, <2>6, <2>7, <2>8, <2>9
           DEF SoundJob, CompleteBelow, NextStretch
    <3>. QED BY <3>2, <3>3
  <2>11. AggJob(j)' BY <2>4, <2>5 DEF AggJob
  <2>12. Sound' BY <1>1, <2>1, <2>4, <2>10, <2>11, OthersKept
  <2>. QED BY <1>1, <1>4, <2>1, <2>12, MetaKept DEF Fetch
<1>5. ASSUME NEW j \in Jobs, RangeDone(j) PROVE Kept' /\ NoHole' /\ Sound' /\ MetaWithinTable'
  <2>1. Grown /\ Kept' /\ NoHole' BY <1>1, <1>5, QuietGrown DEF RangeDone
  <2>2. job[j] \in Round BY <1>1, IntervalType
  <2>3. job'[j].pc = "sync" /\ \A k \in Jobs \ {j} : job'[k] = job[k]
    BY <1>1, <1>5, <2>2 DEF RangeDone, Goto, TypeOK, Round
  <2>4. SoundJob(j)' /\ AggJob(j)' BY <2>3 DEF SoundJob, AggJob
  <2>5. Sound' BY <1>1, <2>1, <2>3, <2>4, OthersKept
  <2>. QED BY <1>1, <1>5, <2>1, <2>5, MetaKept DEF RangeDone
<1>6. ASSUME NEW j \in Jobs, Upsert(j) PROVE Kept' /\ NoHole' /\ Sound' /\ MetaWithinTable'
  <2>. DEFINE iv == Interval(j)
              last == LastOf(job[j].got)
              n == [job[j] EXCEPT !.pc    = IF ShortBatch(job[j].got) THEN "sync" ELSE "fetch",
                                  !.start = last + 1,
                                  !.got   = NoBatch]
  <2>1. SoundJob(j) /\ job[j].pc = "upsert" /\ WriteBatch(j) /\ UNCHANGED world
    BY <1>1, <1>6 DEF Upsert, Sound
  <2>2. /\ Grown /\ Kept' /\ NoHole'
        /\ last \in job[j].start..job[j].end
        /\ \A b \in Bars : b < last + 1 /\ source[iv][b] # None => table'[iv][b] # None
    BY <1>1, <2>1, WriteSound
  <2>3. job[j] \in Round /\ iv \in Intervals BY <1>1, IntervalType
  <2>4. Goto(j, n) BY <1>6 DEF Upsert
  <2>5. job'[j] = n /\ \A k \in Jobs \ {j} : job'[k] = job[k]
    BY <1>1, <2>4, GotoOthers
  <2>. HIDE DEF last
  <2>6. /\ n.pc \in {"sync", "fetch"} /\ n.start = last + 1 /\ n.end = job[j].end
        /\ n.at = job[j].at
    BY <2>3 DEF Round
  <2>. HIDE DEF n
  <2>7. Interval(j)' = iv BY <2>5, <2>6 DEF Interval
  <2>8. job[j].end <= now[iv] BY <2>1 DEF SoundJob
  <2>9. job[j].end \in Int /\ job[j].start \in Int /\ last \in Int
    BY <2>2, <2>3 DEF Round, Bars
  <2>10. SoundJob(j)'
    BY <2>1, <2>2, <2>5, <2>6, <2>7, <2>8, <2>9 DEF SoundJob, CompleteBelow
  <2>11. AggJob(j)' BY <2>5, <2>6 DEF AggJob
  <2>12. Sound' BY <1>1, <2>2, <2>5, <2>10, <2>11, OthersKept
  <2>. QED BY <1>1, <1>6, <2>2, <2>12, MetaKept DEF Upsert
<1>7. ASSUME NEW j \in Jobs, Aggregate(j) PROVE Kept' /\ NoHole' /\ Sound' /\ MetaWithinTable'
  <2>. DEFINE iv == Interval(j)
              agg == Stats(table[iv])
              n == [job[j] EXCEPT !.pc = "meta", !.agg = agg]
  <2>1. Grown /\ Kept' /\ NoHole' BY <1>1, <1>7, QuietGrown DEF Aggregate
  <2>2. job[j] \in Round /\ iv \in Intervals BY <1>1, IntervalType
  <2>3. Goto(j, n) BY <1>7 DEF Aggregate
  <2>4. job'[j] = n /\ \A k \in Jobs \ {j} : job'[k] = job[k]
    BY <1>1, <2>3, GotoOthers
  <2>5. agg.count = Cardinality(Stored(table[iv])) /\ agg.latest = Latest(table[iv])
    BY DEF Stats
  <2>. HIDE DEF agg
  <2>6. n.pc = "meta" /\ n.agg = agg /\ n.at = job[j].at BY <2>2 DEF Round
  <2>. HIDE DEF n
  <2>7. Interval(j)' = iv BY <2>4, <2>6 DEF Interval
  <2>8. SoundJob(j)' BY <2>4, <2>6 DEF SoundJob
  <2>9. /\ Cardinality(Stored(table[iv])) \in Int /\ Latest(table[iv]) \in Int
        /\ table' = table
    BY <1>1, <1>7, <2>1, <2>2, GrownStats DEF Aggregate
  <2>10. AggJob(j)'
    <3>1. agg.count <= Cardinality(Stored(table'[iv])) /\ agg.latest <= Latest(table'[iv])
      BY <2>5, <2>9
    <3>2. job'[j].agg = agg BY <2>4, <2>6
    <3>. QED BY <2>7, <3>1, <3>2 DEF AggJob, Stored, Latest
  <2>11. Sound' BY <1>1, <2>1, <2>4, <2>8, <2>10, OthersKept
  <2>. QED BY <1>1, <1>7, <2>1, <2>11, MetaKept DEF Aggregate
<1>8. ASSUME NEW j \in Jobs, SaveMeta(j) PROVE Kept' /\ NoHole' /\ Sound' /\ MetaWithinTable'
  <2>1. Grown /\ Kept' /\ NoHole' BY <1>1, <1>8, QuietGrown DEF SaveMeta
  <2>2. Sound' BY <1>1, <1>8, <2>1, ReturnSound DEF SaveMeta
  <2>3. /\ job[j].agg.count <= Cardinality(Stored(table[Interval(j)]))
        /\ job[j].agg.latest <= Latest(table[Interval(j)])
    BY <1>1, <1>8 DEF SaveMeta, Sound, AggJob
  <2>4. /\ table' = table
        /\ meta'[Interval(j)] = job[j].agg
        /\ \A iv \in Intervals \ {Interval(j)} : meta'[iv] = meta[iv]
    BY <1>1, <1>8, IntervalType DEF SaveMeta, TypeOK
  <2>5. ASSUME NEW iv \in Intervals
        PROVE  /\ meta'[iv].count <= Cardinality(Stored(table[iv]))
               /\ meta'[iv].latest <= Latest(table[iv])
    <3>1. CASE iv = Interval(j) BY <3>1, <2>3, <2>4
    <3>2. CASE iv # Interval(j) BY <1>1, <3>2, <2>4 DEF MetaWithinTable
    <3>. QED BY <3>1, <3>2
  <2>6. MetaWithinTable' BY <2>4, <2>5 DEF MetaWithinTable
  <2>. QED BY <2>1, <2>2, <2>6
<1>9. ASSUME NEW j \in Jobs, NotAnswered(j) PROVE Kept' /\ NoHole' /\ Sound' /\ MetaWithinTable'
  <2>1. Grown /\ Kept' /\ NoHole' BY <1>1, <1>9, QuietGrown DEF NotAnswered
  <2>2. Sound' BY <1>1, <1>9, <2>1, ReturnSound DEF NotAnswered
  <2>. QED BY <1>1, <1>9, <2>1, <2>2, MetaKept DEF NotAnswered
<1>10. ASSUME NEW j \in Jobs, Fail(j) PROVE Kept' /\ NoHole' /\ Sound' /\ MetaWithinTable'
  <2>1. Grown /\ Kept' /\ NoHole'
    <3>1. CASE UNCHANGED table BY <1>1, <1>10, <3>1, QuietGrown DEF Fail
    <3>2. CASE job[j].pc = "upsert" /\ WriteBatch(j)
      BY <1>1, <1>10, <3>2, WriteSound DEF Fail, Sound
    <3>. QED BY <1>10, <3>1, <3>2 DEF Fail
  <2>2. Sound' BY <1>1, <1>10, <2>1, ReturnSound DEF Fail
  <2>. QED BY <1>1, <1>10, <2>1, <2>2, MetaKept DEF Fail
<1>11. ASSUME NEW j \in Jobs, SyncFails(j) PROVE Kept' /\ NoHole' /\ Sound' /\ MetaWithinTable'
  <2>1. Grown /\ Kept' /\ NoHole' BY <1>1, <1>11, QuietGrown DEF SyncFails
  <2>2. Sound' BY <1>1, <1>11, <2>1, ReturnSound DEF SyncFails
  <2>. QED BY <1>1, <1>11, <2>1, <2>2, MetaKept DEF SyncFails
<1>12. ASSUME NEW p \in Procs, Start(p) PROVE Kept' /\ NoHole' /\ Sound' /\ MetaWithinTable'
  <2>1. Grown /\ Kept' /\ NoHole' BY <1>1, <1>12, QuietGrown DEF Start
  <2>2. Sound' BY <1>1, <1>12, <2>1, JobKept DEF Start, Sound
  <2>. QED BY <1>1, <1>12, <2>1, <2>2, MetaKept DEF Start
<1>13. ASSUME NEW p \in Procs, Kill(p) PROVE Kept' /\ NoHole' /\ Sound' /\ MetaWithinTable'
  <2>1. Grown /\ Kept' /\ NoHole'
    <3>1. CASE UNCHANGED table BY <1>1, <1>13, <3>1, QuietGrown DEF Kill
    <3>2. ASSUME NEW j \in Jobs, job[j].pc = "upsert", WriteBatch(j)
          PROVE Grown /\ Kept' /\ NoHole'
      BY <1>1, <1>13, <3>2, WriteSound DEF Kill, Sound
    <3>. QED BY <1>13, <3>1, <3>2 DEF Kill
  <2>2. ASSUME NEW k \in Jobs PROVE SoundJob(k)' /\ AggJob(k)'
    <3>1. CASE ProcOf[k] = p
      <4>1. job'[k].pc = "idle" BY <1>13, <3>1, IdleType DEF Kill
      <4>. QED BY <4>1 DEF SoundJob, AggJob
    <3>2. CASE ProcOf[k] # p
      <4>1. job'[k] = job[k] BY <1>13, <3>2 DEF Kill
      <4>. QED BY <1>1, <2>1, <4>1, JobKept DEF Sound
    <3>. QED BY <3>1, <3>2
  <2>3. Sound' BY <2>2 DEF Sound
  <2>. QED BY <1>1, <1>13, <2>1, <2>3, MetaKept DEF Kill
<1>14. ASSUME NEW iv \in Intervals, NextPeriod(iv) PROVE Kept' /\ NoHole' /\ Sound' /\ MetaWithinTable'
  <2>1. PICK v \in {None, Live} : source' = [source EXCEPT ![iv] =
          [b \in Bars |-> IF b = now[iv] + 1 THEN v
                          ELSE IF @[b] = Live THEN Closed ELSE @[b]]]
    BY <1>14 DEF NextPeriod
  <2>2. /\ now' = [now EXCEPT ![iv] = @ + 1] /\ table' = table /\ job' = job /\ meta' = meta
    BY <1>14 DEF NextPeriod
  <2>3. /\ \A i \in Intervals : now[i] \in Int
        /\ \A b \in Bars : b \in Int
    BY <1>1 DEF TypeOK, Bars
  <2>4. /\ now'[iv] = now[iv] + 1
        /\ \A i \in Intervals \ {iv} : now'[i] = now[i] /\ source'[i] = source[i]
    BY <1>1, <2>1, <2>2 DEF TypeOK
  <2>5. \A b \in Bars : b # now[iv] + 1 => (source'[iv][b] # None <=> source[iv][b] # None)
    BY <1>1, <2>1 DEF TypeOK, None, Live, Closed
  <2>6. \A b \in Bars : source[iv][b] # None => b # now[iv] + 1
    BY <1>1, <2>3 DEF Kept
  <2>7. Grown BY <2>2, <2>3, <2>4, <2>5, <2>6 DEF Grown
  <2>8. Kept'
    <3>1. ASSUME NEW b \in Bars, source'[iv][b] # None PROVE b <= now'[iv]
      BY <1>1, <3>1, <2>3, <2>4, <2>5 DEF Kept
    <3>. QED BY <1>1, <3>1, <2>2, <2>4, <2>7 DEF Kept, Grown
  <2>9. NoHole'
    <3>. SUFFICES ASSUME NEW i \in Intervals, NEW c \in Stored(table[i]), NEW b \in 0..c,
                         source'[i][b] # None
         PROVE table[i][b] # None
      BY <2>2 DEF NoHole
    <3>1. c \in Bars /\ c <= now[i] BY <1>1 DEF Stored, Kept
    <3>2. b \in Bars /\ b <= now[i] BY <3>1, <2>3, KlineAssumption DEF Bars
    <3>3. source[i][b] # None BY <3>2, <2>7 DEF Grown
    <3>. QED BY <1>1, <3>3 DEF NoHole
  <2>10. Sound' BY <1>1, <2>2, <2>7, JobKept DEF Sound
  <2>. QED BY <1>1, <2>2, <2>7, <2>8, <2>9, <2>10, MetaKept
<1>15. ASSUME NEW iv \in Intervals, Revise(iv) PROVE Kept' /\ NoHole' /\ Sound' /\ MetaWithinTable'
  <2>1. PICK r \in Bars : source[iv][r] = Closed /\ source' = [source EXCEPT ![iv][r] = Revised]
    BY <1>15 DEF Revise
  <2>2. now' = now /\ table' = table /\ job' = job /\ meta' = meta BY <1>15 DEF Revise
  <2>3. \A i \in Intervals, b \in Bars : source'[i][b] # None <=> source[i][b] # None
    BY <1>1, <2>1 DEF TypeOK, None, Closed, Revised
  <2>4. Grown
    <3>1. \A i \in Intervals : now[i] \in Int BY <1>1 DEF TypeOK, Bars
    <3>. QED BY <2>2, <2>3, <3>1 DEF Grown
  <2>5. Kept' BY <1>1, <2>2, <2>3 DEF Kept
  <2>6. NoHole'
    <3>1. \A i \in Intervals : \A c \in Stored(table[i]) : \A b \in 0..c : b \in Bars
      BY KlineAssumption DEF Stored, Bars
    <3>. QED BY <1>1, <2>2, <2>3, <3>1 DEF NoHole
  <2>7. Sound' BY <1>1, <2>2, <2>4, JobKept DEF Sound
  <2>. QED BY <1>1, <2>2, <2>4, <2>5, <2>6, <2>7, MetaKept
<1>16. CASE UNCHANGED vars
  <2>1. UNCHANGED <<world, table, job, meta>> BY <1>16 DEF vars
  <2>2. Grown /\ Kept' /\ NoHole' BY <1>1, <2>1, QuietGrown
  <2>3. Sound' BY <1>1, <2>1, <2>2, JobKept DEF Sound
  <2>. QED BY <1>1, <2>1, <2>2, <2>3, MetaKept
<1>. QED
  BY <1>2, <1>3, <1>4, <1>5, <1>6, <1>7, <1>8, <1>9, <1>10, <1>11, <1>12,
     <1>13, <1>14, <1>15, <1>16 DEF Next, JobStep, Step

LEMMA IInvAlways == Spec => []IInv
<1>. QED BY IInvInit, IInvStep, PTL DEF Spec

-----------------------------------------------------------------------------
\* For any processes, goroutines, intervals, look-backs and batch limit, every
\* variable of the fetcher keeps its type: in particular a round never starts
\* before klineEarliestTime (StartTime) whatever the table holds.
THEOREM FetcherTypeCorrect == Spec => []TypeOK
BY IInvAlways, PTL DEF IInv

\* However many rounds of however many processes overlap, fail or die (fetchAll,
\* runWithLock), no bar the exchange has is missing below a stored one: resuming
\* at the newest row loses nothing.
THEOREM NoHoleEver == Spec => []NoHole
BY IInvAlways, PTL DEF IInv

\* Although the aggregate and the upsert of KLineMetaRecord.Sync are two steps
\* other rounds come between, the meta row never announces more bars, or later
\* ones, than the table holds.
THEOREM MetaBounded == Spec => []MetaWithinTable
BY IInvAlways, PTL DEF IInv
-----------------------------------------------------------------------------
(* One process.  Its rounds exclude each other (runWithLock), so what a round *)
(* has seen of the table stays true until it writes.                          *)

OneProcess == \E p \in Procs : Procs = {p}

\* A process runs one round at a time.
Locked ==
  /\ \A j \in Jobs : job[j].pc # "idle" => syncing[ProcOf[j]]
  /\ \A j, k \in Jobs :
       job[j].pc # "idle" /\ job[k].pc # "idle" /\ ProcOf[j] = ProcOf[k] => j = k

\* The exchange shows one live bar, the current one.
LiveIsNow == \A iv \in Intervals : \A b \in Bars : source[iv][b] = Live => b = now[iv]

\* A round passes a live row only when it has come to its end, and everything it
\* has passed is as new as when it began.
Refreshed(j) ==
  LET rows == table[Interval(j)]
      old  == began[j].source
  IN  job[j].pc \in {"fetch", "upsert"} =>
        /\ \A b \in Bars : rows[b] = Live /\ b < job[j].start => job[j].start > job[j].end
        /\ \A b \in Bars : began[j].from <= b /\ b < job[j].start => rows[b] >= old[b]
        /\ \A b \in Bars : old[b] <= source[Interval(j)][b]
        /\ \A b \in Bars : old[b] # None => b <= job[j].end

\* A batch is as new as that, a live bar in it is the newest of all, and a short
\* one is the last.
Brings(j) ==
  LET got == job[j].got
      old == began[j].source
  IN  job[j].pc = "upsert" =>
        /\ \A b \in DOMAIN got : got[b] >= old[b]
        /\ \A b \in DOMAIN got : got[b] = Live =>
             b = job[j].end /\ \A c \in Stored(table[Interval(j)]) : c <= b
        /\ ShortBatch(got) =>
             \A b \in Bars : b >= job[j].start /\ old[b] # None => b \in DOMAIN got

Announces(j) == job[j].pc = "meta" => job[j].agg = Stats(table[Interval(j)])

Knows(j) == Refreshed(j) /\ Brings(j) /\ Announces(j)

AloneInv == Locked /\ LiveIsNow /\ OnlyNewestLive /\ \A j \in Jobs : Knows(j)

\* The steps that take a job somewhere, or leave all of them alone.
LEMMA StepOfJob ==
  ASSUME [Next]_vars
  PROVE  \/ \E j \in Jobs :
              Fire(j) \/ Begin(j) \/ Fetch(j) \/ RangeDone(j) \/ Upsert(j) \/ Aggregate(j)
              \/ SaveMeta(j) \/ NotAnswered(j) \/ Fail(j) \/ SyncFails(j)
         \/ \E p \in Procs : Kill(p)
         \/ UNCHANGED <<job, began, table, syncing, meta>>
BY DEF Next, JobStep, Step, Start, NextPeriod, Revise, vars

LEMMA ReturnLock ==
  ASSUME TypeOK, Locked, NEW j \in Jobs, NEW ok, Return(j, ok), job[j].pc # "idle"
  PROVE  Locked'
<1>1. /\ job'[j].pc \in {"idle", "latest"} /\ \A k \in Jobs \ {j} : job'[k] = job[k]
      /\ ProcOf \in [Jobs -> Procs] /\ syncing \in [Procs -> BOOLEAN]
  BY ReturnType, KlineAssumption DEF TypeOK
<1>2. CASE GoesOn(j, ok)
  <2>1. syncing' = syncing BY <1>2 DEF Return, Goto
  <2>. QED BY <1>1, <2>1 DEF Locked
<1>3. CASE ~GoesOn(j, ok)
  <2>1. job'[j].pc = "idle" /\ syncing' = [syncing EXCEPT ![ProcOf[j]] = FALSE]
    BY <1>3, IdleType DEF Return, TypeOK
  <2>. QED BY <1>1, <2>1 DEF Locked
<1>. QED BY <1>2, <1>3

LEMMA GotoLock ==
  ASSUME TypeOK, Locked, NEW j \in Jobs, NEW n, Goto(j, n), job[j].pc # "idle"
  PROVE  Locked'
<1>1. /\ job'[j] = n /\ \A k \in Jobs \ {j} : job'[k] = job[k]
      /\ syncing' = syncing
  BY GotoOthers DEF Goto
<1>. QED BY <1>1 DEF Locked

LEMMA LockedStep ==
  ASSUME TypeOK, Locked, [Next]_vars
  PROVE  Locked'
<1>1. ASSUME NEW j \in Jobs, Fire(j) PROVE Locked'
  <2>1. /\ ProcOf \in [Jobs -> Procs] /\ ~syncing[ProcOf[j]]
        /\ syncing' = [syncing EXCEPT ![ProcOf[j]] = TRUE]
        /\ \A k \in Jobs \ {j} : job'[k] = job[k]
    BY <1>1, KlineAssumption DEF Fire, MayStart, TypeOK
  <2>2. \A k \in Jobs : ProcOf[k] = ProcOf[j] => job[k].pc = "idle"
    BY <2>1 DEF Locked
  <2>. QED BY <2>1, <2>2 DEF Locked, TypeOK
<1>2. ASSUME NEW j \in Jobs, Begin(j) PROVE Locked'
  BY <1>2, GotoLock DEF Begin
<1>3. ASSUME NEW j \in Jobs, Fetch(j) PROVE Locked'
  BY <1>3, GotoLock DEF Fetch
<1>4. ASSUME NEW j \in Jobs, RangeDone(j) PROVE Locked'
  BY <1>4, GotoLock DEF RangeDone
<1>5. ASSUME NEW j \in Jobs, Upsert(j) PROVE Locked'
  BY <1>5, GotoLock DEF Upsert
<1>6. ASSUME NEW j \in Jobs, Aggregate(j) PROVE Locked'
  BY <1>6, GotoLock DEF Aggregate
<1>7. ASSUME NEW j \in Jobs, SaveMeta(j) \/ NotAnswered(j) \/ Fail(j) \/ SyncFails(j)
      PROVE  Locked'
  <2>1. \E ok \in BOOLEAN : Return(j, ok)
    BY <1>7 DEF SaveMeta, NotAnswered, Fail, SyncFails
  <2>2. job[j].pc # "idle" BY <1>7 DEF SaveMeta, NotAnswered, Fail, SyncFails
  <2>. QED BY <2>1, <2>2, ReturnLock
<1>8. ASSUME NEW p \in Procs, Kill(p) PROVE Locked'
  <2>1. /\ syncing' = [syncing EXCEPT ![p] = FALSE]
        /\ \A k \in Jobs : job'[k] = IF ProcOf[k] = p THEN Idle ELSE job[k]
        /\ ProcOf \in [Jobs -> Procs]
    BY <1>8, KlineAssumption DEF Kill
  <2>2. \A k \in Jobs : job'[k].pc # "idle" => job'[k] = job[k] /\ ProcOf[k] # p
    BY <2>1, IdleType
  <2>. QED BY <2>1, <2>2 DEF Locked, TypeOK
<1>9. CASE UNCHANGED <<job, began, table, syncing, meta>> BY <1>9 DEF Locked
<1>. QED BY <1>1, <1>2, <1>3, <1>4, <1>5, <1>6, <1>7, <1>8, <1>9, StepOfJob

LEMMA OthersIdle ==
  ASSUME OneProcess, Locked, NEW j \in Jobs, job[j].pc # "idle", NEW k \in Jobs \ {j}
  PROVE  job[k].pc = "idle"
BY KlineAssumption DEF OneProcess, Locked
\* What the exchange shows of a bar only gets newer.
LEMMA SourceStep ==
  ASSUME TypeOK, Kept, LiveIsNow, [Next]_vars
  PROVE  /\ \A iv \in Intervals, b \in Bars : source'[iv][b] >= source[iv][b]
         /\ LiveIsNow'
<1>0. /\ \A iv \in Intervals, b \in Bars : source[iv][b] \in Version
      /\ \A iv \in Intervals : now[iv] \in Bars
  BY DEF TypeOK
<1>1. \A iv \in Intervals, b \in Bars : source[iv][b] \in Int /\ b \in Int /\ now[iv] \in Int
  BY <1>0 DEF Version, None, Revised, Bars
<1>2. CASE UNCHANGED world BY <1>1, <1>2 DEF world, LiveIsNow
<1>3. ASSUME NEW iv \in Intervals, NextPeriod(iv)
      PROVE  /\ \A i \in Intervals, b \in Bars : source'[i][b] >= source[i][b]
             /\ LiveIsNow'
  <2>1. PICK v \in {None, Live} : source' = [source EXCEPT ![iv] =
          [b \in Bars |-> IF b = now[iv] + 1 THEN v
                          ELSE IF @[b] = Live THEN Closed ELSE @[b]]]
    BY <1>3 DEF NextPeriod
  <2>. DEFINE next == [b \in Bars |-> IF b = now[iv] + 1 THEN v
                          ELSE IF source[iv][b] = Live THEN Closed ELSE source[iv][b]]
  <2>a. source' = [source EXCEPT ![iv] = next] BY <2>1
  <2>b. \A b \in Bars : next[b] = IF b = now[iv] + 1 THEN v
                          ELSE IF source[iv][b] = Live THEN Closed ELSE source[iv][b]
    OBVIOUS
  <2>. HIDE DEF next
  <2>c. source'[iv] = next BY <2>a DEF TypeOK
  <2>2. \A b \in Bars : source'[iv][b] = IF b = now[iv] + 1 THEN v
                          ELSE IF source[iv][b] = Live THEN Closed ELSE source[iv][b]
    BY <2>b, <2>c
  <2>3. /\ \A i \in Intervals \ {iv} : source'[i] = source[i] /\ now'[i] = now[i]
        /\ now'[iv] = now[iv] + 1
    <3>1. now' = [now EXCEPT ![iv] = now[iv] + 1] BY <1>3 DEF NextPeriod
    <3>2. now \in [Intervals -> Bars] /\ source \in [Intervals -> [Bars -> Version]]
      BY DEF TypeOK
    <3>. QED BY <2>a, <3>1, <3>2
  <2>4. \A b \in Bars : b = now[iv] + 1 => source[iv][b] = None
    BY <1>1 DEF Kept
  <2>5. v \in {0, 1} BY DEF None, Live
  <2>6. \A b \in Bars : source'[iv][b] >= source[iv][b]
    BY <1>1, <2>2, <2>4, <2>5 DEF None, Live, Closed
  <2>7. \A b \in Bars : source'[iv][b] = Live => b = now[iv] + 1
    BY <2>2 DEF Live, Closed
  <2>8. LiveIsNow' BY <2>3, <2>7 DEF LiveIsNow
  <2>9. \A i \in Intervals, b \in Bars : source'[i][b] >= source[i][b]
    BY <1>1, <2>3, <2>6
  <2>. QED BY <2>8, <2>9
<1>4. ASSUME NEW iv \in Intervals, Revise(iv)
      PROVE  /\ \A i \in Intervals, b \in Bars : source'[i][b] >= source[i][b]
             /\ LiveIsNow'
  <2>1. PICK r \in Bars : source[iv][r] = Closed /\ source' = [source EXCEPT ![iv][r] = Revised]
    BY <1>4 DEF Revise
  <2>2. now' = now BY <1>4 DEF Revise
  <2>3. \A i \in Intervals, b \in Bars :
          source'[i][b] = source[i][b] \/ (source[i][b] = Closed /\ source'[i][b] = Revised)
    <3>1. source \in [Intervals -> [Bars -> Version]] BY DEF TypeOK
    <3>2. source'[iv] = [source[iv] EXCEPT ![r] = Revised] BY <2>1, <3>1
    <3>3. \A i \in Intervals \ {iv} : source'[i] = source[i] BY <2>1, <3>1
    <3>4. source[iv] \in [Bars -> Version] BY <3>1
    <3>5. \A b \in Bars : source'[iv][b] = IF b = r THEN Revised ELSE source[iv][b]
      BY <3>2, <3>4
    <3>6. \A b \in Bars :
            source'[iv][b] = source[iv][b] \/ (source[iv][b] = Closed /\ source'[iv][b] = Revised)
      <4>1. source[iv][r] = Closed BY <2>1
      <4>. QED BY <3>5, <4>1
    <3>. SUFFICES ASSUME NEW i \in Intervals, NEW b \in Bars
         PROVE  source'[i][b] = source[i][b]
                \/ (source[i][b] = Closed /\ source'[i][b] = Revised)
      OBVIOUS
    <3>7. CASE i = iv BY <3>6, <3>7
    <3>8. CASE i # iv BY <3>3, <3>8
    <3>. QED BY <3>7, <3>8
  <2>4. \A i \in Intervals, b \in Bars : source'[i][b] >= source[i][b]
    BY <1>1, <2>3 DEF Closed, Revised
  <2>. QED BY <2>2, <2>3, <2>4 DEF LiveIsNow, Revised, Live
<1>. QED
  BY <1>2, <1>3, <1>4
  DEF Next, JobStep, Step, Fire, Begin, Fetch, RangeDone, Upsert, Aggregate, SaveMeta,
      NotAnswered, Fail, SyncFails, Start, Kill, vars, world

LEMMA KnowsKept ==
  ASSUME TypeOK, NEW k \in Jobs, Knows(k),
         UNCHANGED <<job, began, table>>,
         \A iv \in Intervals, b \in Bars : source'[iv][b] >= source[iv][b], TypeOK'
  PROVE  Knows(k)'
<1>. DEFINE iv == Interval(k)
<1>1. iv \in Intervals /\ Interval(k)' = iv BY IntervalType DEF Interval
<1>2. \A b \in Bars : /\ source[iv][b] \in Int /\ source'[iv][b] \in Int
                      /\ began[k].source[b] \in Int
                      /\ source'[iv][b] >= source[iv][b]
  <2>1. /\ source[iv] \in [Bars -> Version] /\ source'[iv] \in [Bars -> Version]
        /\ began[k].source \in [Bars -> Version]
    BY <1>1 DEF TypeOK
  <2>. HIDE DEF iv
  <2>2. \A v \in Version : v \in Int BY DEF Version, None, Revised
  <2>. QED BY <1>1, <2>1, <2>2
<1>. HIDE DEF iv
<1>3. Refreshed(k)'
  <2>1. Refreshed(k) BY DEF Knows
  <2>. QED BY <1>1, <1>2, <2>1 DEF Refreshed, iv
<1>4. Brings(k)'
  <2>1. Stored(table[iv])' = Stored(table[iv]) BY <1>1 DEF Stored, iv
  <2>. QED BY <1>1, <2>1 DEF Knows, Brings, ShortBatch, iv
<1>5. Announces(k)'
  <2>1. table'[iv] = table[iv] BY <1>1
  <2>. QED BY <1>1, <2>1 DEF Knows, Announces, iv
<1>. QED BY <1>3, <1>4, <1>5 DEF Knows

LEMMA NothingToKnow ==
  ASSUME NEW k \in Jobs, job'[k].pc \in {"idle", "latest", "sync"}
  PROVE  Knows(k)'
BY DEF Knows, Refreshed, Brings, Announces

\* Whatever a batch overwrites, it leaves the live row the newest, and nothing it
\* passes is older than when the round began.
LEMMA WriteLive ==
  ASSUME TypeOK, TypeOK', Kept, OnlyNewestLive, NEW j \in Jobs, SoundJob(j), Knows(j),
         job[j].pc = "upsert", WriteBatch(j)
  PROVE  /\ OnlyNewestLive'
         /\ LastOf(job[j].got) \in DOMAIN job[j].got
         /\ \A b \in DOMAIN job[j].got : b <= LastOf(job[j].got)
         /\ \A b \in Bars : table'[Interval(j)][b] = Live /\ b < LastOf(job[j].got) + 1 =>
              LastOf(job[j].got) + 1 > job[j].end
         /\ \A b \in Bars : began[j].from <= b /\ b < LastOf(job[j].got) + 1 =>
              table'[Interval(j)][b] >= began[j].source[b]
<1>. DEFINE iv == Interval(j)
            got == job[j].got
            last == LastOf(got)
            rows == table[iv]
            new == table'[iv]
            old == began[j].source
            start == job[j].start
            end == job[j].end
<1>1. iv \in Intervals /\ job[j] \in Round BY IntervalType
<1>2. got \in Batches /\ start \in Int /\ end \in Int BY <1>1 DEF Round, Bars
<1>3. /\ DOMAIN got \in SUBSET Bars
      /\ \A b \in DOMAIN got : got[b] \in Version
  BY <1>2, BatchOfBars
<1>4. NextStretch(iv, start, end, got) BY DEF SoundJob
<1>5. /\ new = Merged(rows, got)
      /\ \A i \in Intervals \ {iv} : table'[i] = table[i]
  BY WriteType
<1>6. /\ rows \in [Bars -> Version] /\ new \in [Bars -> Version] /\ old \in [Bars -> Version]
      /\ source[iv] \in [Bars -> Version] /\ began[j].from \in Int
      /\ \A b \in Bars : b \in Int
  BY <1>1 DEF TypeOK, Bars
<1>7. /\ \A b \in Bars : rows[b] = Live /\ b < start => start > end
      /\ \A b \in Bars : began[j].from <= b /\ b < start => rows[b] >= old[b]
      /\ \A b \in Bars : old[b] <= source[iv][b]
  BY DEF Knows, Refreshed
<1>8. /\ \A b \in DOMAIN got : got[b] >= old[b]
      /\ \A b \in DOMAIN got : got[b] = Live =>
           b = end /\ \A c \in Stored(rows) : c <= b
  BY DEF Knows, Brings
<1>8a. \A c \in Stored(rows) : c \in Bars /\ rows[c] # None BY DEF Stored
<1>9. \A c \in Stored(rows) : source[iv][c] # None BY <1>1 DEF Kept, Stored
<1>10. \A b \in Bars : rows[b] = Live => b \in Stored(rows) /\ \A c \in Stored(rows) : c <= b
  <2>1. \A b \in Bars : rows[b] = Live => b \in Stored(rows) /\ b = Latest(rows)
    BY <1>1 DEF OnlyNewestLive, Stored, Live, None
  <2>. QED BY <2>1, <1>6, LatestIsNewest
<1>. HIDE DEF iv, got, rows, new, old, start, end
<1>11. /\ last \in DOMAIN got /\ \A b \in DOMAIN got : b <= last
  BY <1>3, <1>4, LastOfIsLast DEF NextStretch
<1>12. /\ \A b \in DOMAIN got : start <= b /\ b <= end
       /\ start <= end
  BY <1>2, <1>4, <1>11 DEF NextStretch
<1>13. \A b \in DOMAIN got, c \in Bars :
         start <= c /\ c <= b /\ source[iv][c] # None => c \in DOMAIN got
  BY <1>4 DEF NextStretch
<1>14. \A b \in Bars : new[b] = IF b \in DOMAIN got THEN got[b] ELSE rows[b]
  BY <1>5 DEF Merged
\* A live row that is not in the batch lies above it.
<1>15. ASSUME NEW b \in Bars, rows[b] = Live, b \notin DOMAIN got
       PROVE  b > last
  <2>1. b \in Int /\ last \in Int BY <1>3, <1>6, <1>11
  <2>2. b >= start BY <1>2, <1>7, <1>12, <1>15, <2>1
  <2>3. source[iv][b] # None BY <1>9, <1>10, <1>15
  <2>4. ~(b <= last) BY <1>11, <1>13, <1>15, <2>2, <2>3
  <2>. QED BY <2>1, <2>4
<1>16. ASSUME NEW b \in Bars, new[b] = Live, NEW c \in Stored(new)
       PROVE  c <= b
  <2>1. c \in Bars /\ (c \in DOMAIN got \/ c \in Stored(rows))
    BY <1>14, <1>6 DEF Stored
  <2>2. CASE b \in DOMAIN got
    <3>1. b = end /\ \A d \in Stored(rows) : d <= b BY <1>8, <1>14, <1>16, <2>2
    <3>. QED BY <2>1, <3>1, <1>12
  <2>3. CASE b \notin DOMAIN got
    <3>1. rows[b] = Live BY <1>14, <1>16, <2>3
    <3>2. b > last /\ \A d \in Stored(rows) : d <= b BY <1>10, <1>15, <2>3, <3>1
    <3>3. b \in Int /\ last \in Int /\ c \in Int BY <1>3, <1>6, <1>11, <2>1
    <3>. QED BY <2>1, <3>2, <3>3, <1>11
  <2>. QED BY <2>2, <2>3
<1>17. \A b \in Bars : new[b] = Live => b = Latest(new)
  <2>. SUFFICES ASSUME NEW b \in Bars, new[b] = Live PROVE b = Latest(new)
    OBVIOUS
  <2>1. b \in Stored(new) BY DEF Stored, Live, None
  <2>2. Latest(new) \in Stored(new) /\ b <= Latest(new) /\ Latest(new) \in Int
    BY <1>6, <2>1, LatestIsNewest
  <2>3. Latest(new) <= b BY <1>16, <2>2
  <2>. QED BY <1>6, <2>2, <2>3
<1>18. OnlyNewestLive'
  <2>. SUFFICES ASSUME NEW i \in Intervals, NEW b \in Stored(table'[i]), table'[i][b] = Live
       PROVE b = Latest(table'[i])
    BY DEF OnlyNewestLive
  <2>1. b \in Bars BY DEF Stored
  <2>2. CASE i = iv BY <1>17, <2>1, <2>2 DEF new
  <2>3. CASE i # iv BY <1>5, <2>3 DEF OnlyNewestLive
  <2>. QED BY <2>2, <2>3
<1>19. ASSUME NEW b \in Bars, new[b] = Live, b < last + 1
       PROVE  last + 1 > end
  <2>1. b \in Int /\ last \in Int BY <1>3, <1>6, <1>11
  <2>2. b \in DOMAIN got
    <3>1. ~(b > last) BY <1>19, <2>1
    <3>. QED BY <1>14, <1>15, <1>19, <3>1
  <2>3. b = end BY <1>8, <1>14, <1>19, <2>2
  <2>. QED BY <1>19, <2>1, <2>3
<1>20. ASSUME NEW b \in Bars, began[j].from <= b, b < last + 1
       PROVE  new[b] >= old[b]
  <2>1. b \in Int /\ last \in Int BY <1>3, <1>6, <1>11
  <2>2. new[b] \in 0..3 /\ old[b] \in 0..3 /\ source[iv][b] \in 0..3
    BY <1>6 DEF Version, None, Revised
  <2>3. CASE b \in DOMAIN got BY <1>8, <1>14, <2>3
  <2>4. CASE b \notin DOMAIN got /\ b < start BY <1>7, <1>14, <1>20, <2>4
  <2>5. CASE b \notin DOMAIN got /\ ~(b < start)
    <3>1. source[iv][b] = None BY <1>2, <1>11, <1>13, <1>20, <2>1, <2>5
    <3>2. old[b] <= 0 BY <1>7, <3>1 DEF None
    <3>. QED BY <2>2, <3>2
  <2>. QED BY <2>3, <2>4, <2>5
<1>. QED BY <1>11, <1>18, <1>19, <1>20 DEF iv, got, new, old, end
LEMMA AloneStep ==
  ASSUME OneProcess, IInv, AloneInv, [Next]_vars
  PROVE  AloneInv'
<1>1. TypeOK /\ Kept /\ Sound /\ TypeOK' BY IInvStep DEF IInv
<1>2. Locked /\ LiveIsNow /\ OnlyNewestLive /\ \A j \in Jobs : Knows(j) BY DEF AloneInv
<1>3. Locked' BY <1>1, <1>2, LockedStep
<1>4. /\ LiveIsNow'
      /\ \A iv \in Intervals, b \in Bars : source'[iv][b] >= source[iv][b]
  BY <1>1, <1>2, SourceStep
<1>. SUFFICES OnlyNewestLive' /\ \A j \in Jobs : Knows(j)'
  BY <1>3, <1>4 DEF AloneInv
<1>5. table' = table => OnlyNewestLive' BY <1>2 DEF OnlyNewestLive, Stored
<1>6. ASSUME NEW j \in Jobs, job[j].pc # "idle", Knows(j)',
             \A k \in Jobs \ {j} : job'[k] = job[k]
      PROVE  \A k \in Jobs : Knows(k)'
  <2>. SUFFICES ASSUME NEW k \in Jobs \ {j} PROVE Knows(k)'
    BY <1>6
  <2>1. job[k].pc = "idle" BY <1>2, <1>6, OthersIdle
  <2>. QED BY <1>6, <2>1, NothingToKnow
<1>7. ASSUME NEW j \in Jobs, NEW ok, Return(j, ok), job[j].pc # "idle"
      PROVE  \A k \in Jobs : Knows(k)'
  <2>1. job'[j].pc \in {"idle", "latest"} /\ \A k \in Jobs \ {j} : job'[k] = job[k]
    BY <1>1, <1>7, ReturnType
  <2>. QED BY <1>6, <1>7, <2>1, NothingToKnow
<1>8. ASSUME NEW j \in Jobs, Fire(j) PROVE OnlyNewestLive' /\ \A k \in Jobs : Knows(k)'
  <2>1. job[j] \in Round BY <1>1, IntervalType
  <2>2. job'[j].pc = "latest" /\ \A k \in Jobs \ {j} : job'[k] = job[k]
    BY <1>1, <1>8, <2>1 DEF Fire, TypeOK, Round
  <2>3. \A k \in Jobs : job[k].pc = "idle"
    BY <1>2, <1>8, KlineAssumption DEF OneProcess, Fire, MayStart, Locked
  <2>4. \A k \in Jobs : Knows(k)'
    <3>. SUFFICES ASSUME NEW k \in Jobs PROVE Knows(k)'
      OBVIOUS
    <3>. QED BY <2>2, <2>3, NothingToKnow
  <2>. QED BY <1>5, <1>8, <2>4 DEF Fire
<1>9. ASSUME NEW j \in Jobs, Begin(j) PROVE OnlyNewestLive' /\ \A k \in Jobs : Knows(k)'
  <2>. DEFINE iv == Interval(j)
              n == [job[j] EXCEPT !.pc = "fetch", !.start = StartTime(iv), !.end = now[iv]]
              f == [from |-> StartTime(iv), source |-> source[iv]]
  <2>1. job[j] \in Round /\ iv \in Intervals BY <1>1, IntervalType
  <2>2. /\ Goto(j, n) /\ began' = [began EXCEPT ![j] = f]
        /\ table' = table /\ source' = source /\ job[j].pc = "latest"
    BY <1>9 DEF Begin, world
  <2>3. job'[j] = n /\ \A k \in Jobs \ {j} : job'[k] = job[k]
    BY <1>1, <2>2, GotoOthers
  <2>4. began'[j] = f BY <1>1, <2>2 DEF TypeOK
  <2>5. /\ n.pc = "fetch" /\ n.start = StartTime(iv) /\ n.end = now[iv] /\ n.at = job[j].at
        /\ f.from = StartTime(iv) /\ f.source = source[iv]
    BY <2>1 DEF Round
  <2>. HIDE DEF n, f
  <2>6. Interval(j)' = iv BY <2>3, <2>5 DEF Interval
  <2>7. /\ table[iv] \in [Bars -> Version] /\ source[iv] \in [Bars -> Version]
        /\ StartTime(iv) \in Int /\ \A b \in Bars : b \in Int
        /\ Lookback[iv] \in Nat
    BY <1>1, <2>1, StartTimeType, KlineAssumption DEF TypeOK, Bars
  <2>8. \A b \in Bars : source[iv][b] <= source[iv][b]
    BY <2>7 DEF Version, None, Revised
  <2>9. ASSUME NEW b \in Bars, table[iv][b] = Live PROVE ~(b < StartTime(iv))
    <3>1. b \in Stored(table[iv]) BY <2>9 DEF Stored, Live, None
    <3>2. b = Latest(table[iv]) BY <1>2, <2>1, <2>9, <3>1 DEF OnlyNewestLive
    <3>3. b \in Nat BY KlineAssumption DEF Bars
    <3>. QED BY <2>7, <3>2, <3>3 DEF StartTime
  <2>10. \A b \in Bars : source[iv][b] # None => b <= now[iv] BY <1>1, <2>1 DEF Kept
  <2>11. Refreshed(j)'
    BY <2>2, <2>3, <2>4, <2>5, <2>6, <2>7, <2>8, <2>9, <2>10 DEF Refreshed
  <2>12. Knows(j)' BY <2>3, <2>5, <2>11 DEF Knows, Brings, Announces
  <2>13. \A k \in Jobs : Knows(k)' BY <1>6, <2>2, <2>3, <2>12
  <2>. QED BY <1>5, <2>2, <2>13
<1>10. ASSUME NEW j \in Jobs, Fetch(j) PROVE OnlyNewestLive' /\ \A k \in Jobs : Knows(k)'
  <2>. DEFINE iv == Interval(j)
              old == began[j].source
  <2>1. job[j] \in Round /\ iv \in Intervals BY <1>1, IntervalType
  <2>2. PICK batch \in SUBSET Answer(j) :
          /\ IsBatch(batch, Answer(j))
          /\ Goto(j, [job[j] EXCEPT !.pc  = IF batch = {} THEN "sync" ELSE "upsert",
                                    !.got = [b \in batch |-> source[iv][b]]])
    BY <1>10 DEF Fetch
  <2>. DEFINE got == [b \in batch |-> source[iv][b]]
              n == [job[j] EXCEPT !.pc  = IF batch = {} THEN "sync" ELSE "upsert", !.got = got]
  <2>3. job'[j] = n /\ \A k \in Jobs \ {j} : job'[k] = job[k]
    BY <1>1, <2>2, GotoOthers
  <2>. HIDE DEF got
  <2>4. /\ n.pc = IF batch = {} THEN "sync" ELSE "upsert"
        /\ n.got = got /\ n.start = job[j].start /\ n.end = job[j].end /\ n.at = job[j].at
    BY <2>1 DEF Round
  <2>. HIDE DEF n
  <2>5. Interval(j)' = iv BY <2>3, <2>4 DEF Interval
  <2>6. /\ table' = table /\ began' = began /\ source' = source /\ now' = now
        /\ job[j].pc = "fetch"
    BY <1>10 DEF Fetch, world
  <2>7. /\ DOMAIN got = batch /\ \A b \in batch : got[b] = source[iv][b]
        /\ batch \subseteq Bars
    BY DEF got, Answer
  <2>8. /\ job[j].start \in Int /\ job[j].end \in Int /\ now[iv] \in Int
        /\ \A b \in Bars : b \in Int
    BY <1>1, <2>1 DEF Round, Bars, TypeOK
  <2>9. CASE batch = {}
    <3>1. job'[j].pc = "sync" BY <2>3, <2>4, <2>9
    <3>2. Knows(j)' BY <3>1, NothingToKnow
    <3>3. \A k \in Jobs : Knows(k)' BY <1>6, <2>3, <2>6, <3>2
    <3>. QED BY <1>5, <2>6, <3>3
  <2>10. CASE batch # {}
    <3>1. Refreshed(j) BY <1>2 DEF Knows
    <3>2. Refreshed(j)' BY <2>3, <2>4, <2>5, <2>6, <3>1 DEF Refreshed
    <3>3. \A b \in batch : got[b] >= old[b]
      <4>1. \A b \in Bars : old[b] <= source[iv][b] BY <2>6, <3>1 DEF Refreshed
      <4>2. \A b \in Bars : old[b] \in Version /\ source[iv][b] \in Version
        BY <1>1, <2>1 DEF TypeOK
      <4>. QED BY <2>7, <4>1, <4>2 DEF Version, None, Revised
    <3>4. ASSUME NEW b \in batch, got[b] = Live
          PROVE  b = job[j].end /\ \A c \in Stored(table[iv]) : c <= b
      <4>1. b \in Bars /\ b <= job[j].end /\ source[iv][b] = Live
        BY <2>7, <3>4 DEF Answer
      <4>2. b = now[iv] BY <1>2, <2>1, <4>1 DEF LiveIsNow
      <4>3. job[j].end <= now[iv] BY <1>1, <2>6 DEF Sound, SoundJob
      <4>4. \A c \in Stored(table[iv]) : c <= now[iv] BY <1>1, <2>1 DEF Stored, Kept
      <4>. QED BY <2>8, <4>1, <4>2, <4>3, <4>4
    <3>5. ASSUME ShortBatch(got), NEW b \in Bars, b >= job[j].start, old[b] # None
          PROVE  b \in batch
      <4>1. b <= job[j].end /\ old[b] <= source[iv][b] BY <2>6, <3>1, <3>5 DEF Refreshed
      <4>2. old[b] \in 0..3 /\ source[iv][b] \in 0..3
        BY <1>1, <2>1 DEF TypeOK, Version, None, Revised
      <4>3. source[iv][b] # None BY <3>5, <4>1, <4>2 DEF None
      <4>4. b \in Answer(j) BY <2>8, <3>5, <4>1, <4>3 DEF Answer
      <4>5. Cardinality(batch) # Limit
        <5>1. Cardinality(batch) < Limit BY <2>7, <3>5 DEF ShortBatch
        <5>. QED BY <5>1, KlineAssumption
      <4>. QED BY <2>2, <4>4, <4>5 DEF IsBatch
    <3>6. Brings(j)'
      <4>1. \A c \in Stored(table'[iv]) : c \in Stored(table[iv]) BY <2>6
      <4>. QED BY <2>3, <2>4, <2>5, <2>6, <2>7, <3>3, <3>4, <3>5, <4>1
           DEF Brings, ShortBatch
    <3>7. Knows(j)' BY <2>3, <2>4, <2>10, <3>2, <3>6 DEF Knows, Announces
    <3>8. \A k \in Jobs : Knows(k)' BY <1>6, <2>3, <2>6, <3>7
    <3>. QED BY <1>5, <2>6, <3>8
  <2>. QED BY <2>9, <2>10
<1>11. ASSUME NEW j \in Jobs, RangeDone(j) PROVE OnlyNewestLive' /\ \A k \in Jobs : Knows(k)'
  <2>1. job[j] \in Round BY <1>1, IntervalType
  <2>2. job'[j].pc = "sync" /\ \A k \in Jobs \ {j} : job'[k] = job[k]
    BY <1>1, <1>11, <2>1 DEF RangeDone, Goto, TypeOK, Round
  <2>3. job[j].pc # "idle" /\ table' = table BY <1>11 DEF RangeDone
  <2>4. \A k \in Jobs : Knows(k)' BY <1>6, <2>2, <2>3, NothingToKnow
  <2>. QED BY <1>5, <2>3, <2>4
<1>12. ASSUME NEW j \in Jobs, Upsert(j) PROVE OnlyNewestLive' /\ \A k \in Jobs : Knows(k)'
  <2>. DEFINE iv == Interval(j)
              last == LastOf(job[j].got)
              n == [job[j] EXCEPT !.pc    = IF ShortBatch(job[j].got) THEN "sync" ELSE "fetch",
                                  !.start = last + 1,
                                  !.got   = NoBatch]
  <2>1. job[j] \in Round /\ iv \in Intervals BY <1>1, IntervalType
  <2>2. /\ SoundJob(j) /\ Knows(j) /\ job[j].pc = "upsert" /\ WriteBatch(j)
        /\ UNCHANGED <<source, began>>
    BY <1>1, <1>2, <1>12 DEF Upsert, Sound, world
  <2>3. /\ OnlyNewestLive'
        /\ \A b \in Bars : table'[iv][b] = Live /\ b < last + 1 => last + 1 > job[j].end
        /\ \A b \in Bars : began[j].from <= b /\ b < last + 1 =>
             table'[iv][b] >= began[j].source[b]
    BY <1>1, <1>2, <2>2, WriteLive
  <2>4. Goto(j, n) BY <1>12 DEF Upsert
  <2>5. job'[j] = n /\ \A k \in Jobs \ {j} : job'[k] = job[k]
    BY <1>1, <2>4, GotoOthers
  <2>. HIDE DEF last
  <2>6. /\ n.pc \in {"sync", "fetch"} /\ n.start = last + 1 /\ n.end = job[j].end
        /\ n.at = job[j].at
    BY <2>1 DEF Round
  <2>. HIDE DEF n
  <2>7. Interval(j)' = iv BY <2>5, <2>6 DEF Interval
  <2>8. /\ \A b \in Bars : began[j].source[b] <= source[iv][b]
        /\ \A b \in Bars : began[j].source[b] # None => b <= job[j].end
    BY <2>2 DEF Knows, Refreshed
  <2>9. Refreshed(j)' BY <2>2, <2>3, <2>5, <2>6, <2>7, <2>8 DEF Refreshed
  <2>10. Knows(j)' BY <2>5, <2>6, <2>9 DEF Knows, Brings, Announces
  <2>11. \A k \in Jobs : Knows(k)' BY <1>6, <2>2, <2>5, <2>10
  <2>. QED BY <2>3, <2>11
<1>13. ASSUME NEW j \in Jobs, Aggregate(j) PROVE OnlyNewestLive' /\ \A k \in Jobs : Knows(k)'
  <2>. DEFINE iv == Interval(j)
              agg == Stats(table[iv])
              n == [job[j] EXCEPT !.pc = "meta", !.agg = agg]
  <2>1. job[j] \in Round /\ iv \in Intervals BY <1>1, IntervalType
  <2>2. Goto(j, n) /\ table' = table /\ job[j].pc # "idle" BY <1>13 DEF Aggregate
  <2>3. job'[j] = n /\ \A k \in Jobs \ {j} : job'[k] = job[k]
    BY <1>1, <2>2, GotoOthers
  <2>. HIDE DEF agg
  <2>4. n.pc = "meta" /\ n.agg = agg /\ n.at = job[j].at BY <2>1 DEF Round
  <2>. HIDE DEF n
  <2>5. Interval(j)' = iv BY <2>3, <2>4 DEF Interval
  <2>7. Knows(j)'
    <3>1. Stats(table'[iv]) = agg BY <2>2 DEF agg
    <3>. QED BY <2>3, <2>4, <2>5, <3>1 DEF Knows, Refreshed, Brings, Announces
  <2>8. \A k \in Jobs : Knows(k)' BY <1>6, <2>2, <2>3, <2>7
  <2>. QED BY <1>5, <2>2, <2>8
<1>14. ASSUME NEW j \in Jobs, SaveMeta(j) \/ NotAnswered(j) \/ SyncFails(j)
       PROVE  OnlyNewestLive' /\ \A k \in Jobs : Knows(k)'
  <2>1. /\ \E ok \in BOOLEAN : Return(j, ok)
        /\ job[j].pc # "idle" /\ table' = table
    BY <1>14 DEF SaveMeta, NotAnswered, SyncFails
  <2>. QED BY <1>5, <1>7, <2>1
<1>15. ASSUME NEW j \in Jobs, Fail(j) PROVE OnlyNewestLive' /\ \A k \in Jobs : Knows(k)'
  <2>1. Return(j, FALSE) /\ job[j].pc # "idle" BY <1>15 DEF Fail
  <2>2. \A k \in Jobs : Knows(k)' BY <1>7, <2>1
  <2>3. CASE job[j].pc = "upsert" /\ WriteBatch(j)
    <3>1. SoundJob(j) /\ Knows(j) BY <1>1, <1>2 DEF Sound
    <3>. QED BY <1>1, <1>2, <2>2, <2>3, <3>1, WriteLive
  <2>. QED BY <1>5, <1>15, <2>2, <2>3 DEF Fail
<1>16. ASSUME NEW p \in Procs, Kill(p) PROVE OnlyNewestLive' /\ \A k \in Jobs : Knows(k)'
  <2>1. \A k \in Jobs : job'[k] = Idle
    BY <1>16, KlineAssumption DEF Kill, OneProcess
  <2>2. \A k \in Jobs : Knows(k)'
    <3>. SUFFICES ASSUME NEW k \in Jobs PROVE Knows(k)'
      OBVIOUS
    <3>. QED BY <2>1, IdleType, NothingToKnow
  <2>3. ASSUME NEW j \in Jobs, job[j].pc = "upsert", WriteBatch(j) PROVE OnlyNewestLive'
    <3>1. SoundJob(j) /\ Knows(j) BY <1>1, <1>2 DEF Sound
    <3>. QED BY <1>1, <1>2, <2>3, <3>1, WriteLive
  <2>. QED BY <1>5, <1>16, <2>2, <2>3 DEF Kill
<1>17. CASE UNCHANGED <<job, began, table, syncing, meta>>
  <2>1. \A k \in Jobs : Knows(k)'
    <3>. SUFFICES ASSUME NEW k \in Jobs PROVE Knows(k)'
      OBVIOUS
    <3>. QED BY <1>1, <1>2, <1>4, <1>17, KnowsKept
  <2>. QED BY <1>5, <1>17, <2>1
<1>. QED
  BY <1>8, <1>9, <1>10, <1>11, <1>12, <1>13, <1>14, <1>15, <1>16, <1>17, StepOfJob
LEMMA AloneInit == Init => AloneInv
<1>. SUFFICES ASSUME Init PROVE AloneInv
  OBVIOUS
<1>1. \A j \in Jobs : job[j].pc = "idle" BY IdleType DEF Init
<1>2. Locked BY <1>1 DEF Locked
<1>3. LiveIsNow BY KlineAssumption DEF Init, LiveIsNow, NoRows, None, Live, Bars
<1>4. OnlyNewestLive BY DEF Init, OnlyNewestLive, NoRows, Stored
<1>5. \A j \in Jobs : Knows(j) BY <1>1 DEF Knows, Refreshed, Brings, Announces
<1>. QED BY <1>2, <1>3, <1>4, <1>5 DEF AloneInv

LEMMA AloneAlways == ASSUME OneProcess PROVE Spec => [](IInv /\ AloneInv)
<1>1. Init => IInv /\ AloneInv BY IInvInit, AloneInit
<1>2. IInv /\ AloneInv /\ [Next]_vars => (IInv /\ AloneInv)' BY IInvStep, AloneStep
<1>. QED BY <1>1, <1>2, PTL DEF Spec

\* With one process that fetches, a row stored while its bar was still live
\* (fetchAll asks up to now) is the newest row: the next round, which starts no
\* later than there, overwrites it, whatever failed or died in between.
THEOREM LiveRowIsNewest == ASSUME OneProcess PROVE Spec => []OnlyNewestLive
<1>1. AloneInv => OnlyNewestLive BY DEF AloneInv
<1>. QED BY <1>1, AloneAlways, PTL

LEMMA RefreshStep ==
  ASSUME OneProcess, IInv, AloneInv, [Next]_vars, NEW j \in Jobs,
         job[j].pc \in {"fetch", "upsert"}, job'[j].pc = "sync",
         NEW b \in Bars, b >= began[j].from
  PROVE  table'[Interval(j)][b] >= began[j].source[b]
<1>. DEFINE iv == Interval(j)
            old == began[j].source
<1>1. TypeOK /\ Kept /\ Sound /\ TypeOK' BY IInvStep DEF IInv
<1>2. Locked /\ OnlyNewestLive /\ Refreshed(j) /\ Brings(j) /\ Knows(j)
  BY DEF AloneInv, Knows
<1>3. job[j] \in Round /\ iv \in Intervals BY <1>1, IntervalType
<1>4. /\ table[iv] \in [Bars -> Version] /\ table'[iv] \in [Bars -> Version]
      /\ old \in [Bars -> Version]
      /\ job[j].start \in Int /\ job[j].end \in Int /\ b \in Int
  BY <1>1, <1>3 DEF TypeOK, Round, Bars
<1>5. table[iv][b] \in 0..3 /\ table'[iv][b] \in 0..3 /\ old[b] \in 0..3
  BY <1>4 DEF Version, None, Revised
\* Below the start the round has been; beyond it there was nothing to fetch.
<1>6. ASSUME table' = table, b >= job[j].start => old[b] = None
      PROVE  table'[iv][b] >= old[b]
  <2>1. CASE b < job[j].start BY <1>2, <1>6, <2>1 DEF Refreshed
  <2>2. CASE b >= job[j].start BY <1>5, <1>6, <2>2 DEF None
  <2>. QED BY <1>4, <2>1, <2>2
<1>7. CASE Fetch(j)
  <2>1. PICK batch \in SUBSET Answer(j) :
          /\ IsBatch(batch, Answer(j))
          /\ Goto(j, [job[j] EXCEPT !.pc  = IF batch = {} THEN "sync" ELSE "upsert",
                                    !.got = [c \in batch |-> source[iv][c]]])
    BY <1>7 DEF Fetch
  <2>2. job'[j].pc = IF batch = {} THEN "sync" ELSE "upsert"
    <3>. DEFINE n == [job[j] EXCEPT !.pc  = IF batch = {} THEN "sync" ELSE "upsert",
                                    !.got = [c \in batch |-> source[iv][c]]]
    <3>1. n.pc = IF batch = {} THEN "sync" ELSE "upsert" BY <1>3 DEF Round
    <3>2. job'[j] = n BY <1>1, <2>1, GotoOthers
    <3>. QED BY <3>1, <3>2
  <2>3. batch = {} BY <2>2
  <2>4. Answer(j) = {}
    BY <2>1, <2>3, FS_EmptySet, KlineAssumption DEF IsBatch
  <2>5. ASSUME b >= job[j].start PROVE old[b] = None
    <3>1. source[iv][b] \in 0..3 BY <1>1, <1>3 DEF TypeOK, Version, None, Revised
    <3>2. old[b] <= source[iv][b] /\ (old[b] # None => b <= job[j].end)
      BY <1>2 DEF Refreshed
    <3>3. b <= job[j].end => source[iv][b] = None BY <1>4, <2>4, <2>5 DEF Answer
    <3>. QED BY <1>5, <3>1, <3>2, <3>3 DEF None
  <2>. QED BY <1>6, <1>7, <2>5 DEF Fetch
<1>8. CASE RangeDone(j)
  <2>1. job[j].start > job[j].end /\ table' = table BY <1>8 DEF RangeDone
  <2>2. old[b] # None => b <= job[j].end BY <1>2 DEF Refreshed
  <2>. QED BY <1>4, <1>6, <2>1, <2>2
<1>9. CASE Upsert(j)
  <2>. DEFINE last == LastOf(job[j].got)
  <2>1. job[j].pc = "upsert" /\ WriteBatch(j) /\ SoundJob(j)
    BY <1>1, <1>9 DEF Upsert, Sound
  <2>2. /\ last \in DOMAIN job[j].got /\ \A c \in DOMAIN job[j].got : c <= last
        /\ \A c \in Bars : began[j].from <= c /\ c < last + 1 => table'[iv][c] >= old[c]
    BY <1>1, <1>2, <2>1, WriteLive
  <2>3. last \in job[j].start..job[j].end BY <2>1, <2>2 DEF SoundJob, NextStretch
  <2>4. ShortBatch(job[j].got)
    <3>1. job'[j].pc = IF ShortBatch(job[j].got) THEN "sync" ELSE "fetch"
      <4>. DEFINE n == [job[j] EXCEPT !.pc    = IF ShortBatch(job[j].got)
                                                THEN "sync" ELSE "fetch",
                                      !.start = LastOf(job[j].got) + 1,
                                      !.got   = NoBatch]
      <4>1. n.pc = IF ShortBatch(job[j].got) THEN "sync" ELSE "fetch" BY <1>3 DEF Round
      <4>2. Goto(j, n) BY <1>9 DEF Upsert
      <4>3. job'[j] = n BY <1>1, <4>2, GotoOthers
      <4>. QED BY <4>1, <4>3
    <3>. QED BY <3>1
  <2>. HIDE DEF last
  <2>5. CASE b < last + 1
    <3>1. began[j].from <= b
      <4>1. began[j].from \in Int BY <1>1 DEF TypeOK, Bars
      <4>. QED BY <1>4, <4>1
    <3>. QED BY <2>2, <2>5, <3>1
  <2>6. CASE ~(b < last + 1)
    <3>1. b >= job[j].start /\ ~(b <= last) BY <1>4, <2>3, <2>6
    <3>2. old[b] = None BY <1>2, <2>1, <2>2, <2>4, <3>1 DEF Brings
    <3>. QED BY <1>5, <3>2 DEF None
  <2>. QED BY <2>5, <2>6
<1>10. Fetch(j) \/ RangeDone(j) \/ Upsert(j)
  <2>1. ASSUME NEW k \in Jobs, k # j PROVE job[k].pc = "idle"
    BY <1>2, <2>1, OthersIdle
  <2>2. ASSUME NEW k \in Jobs, NEW ok, Return(k, ok) PROVE FALSE
    <3>1. job'[k].pc \in {"idle", "latest"} /\ \A i \in Jobs \ {k} : job'[i] = job[i]
      BY <1>1, <2>2, ReturnType
    <3>. QED BY <3>1
  <2>3. ASSUME NEW k \in Jobs,
               Fire(k) \/ Begin(k) \/ Fetch(k) \/ RangeDone(k) \/ Upsert(k) \/ Aggregate(k)
        PROVE  k = j
    <3>1. k # j => job'[j] = job[j]
      BY <1>1, <2>3
      DEF Fire, Begin, Fetch, RangeDone, Upsert, Aggregate, Goto, TypeOK
    <3>. QED BY <3>1
  <2>4. ~(Fire(j) \/ Begin(j) \/ Aggregate(j)) BY DEF Fire, Begin, Aggregate
  <2>5. ASSUME NEW k \in Jobs, SaveMeta(k) \/ NotAnswered(k) \/ Fail(k) \/ SyncFails(k)
        PROVE  FALSE
    <3>1. \E ok \in BOOLEAN : Return(k, ok)
      BY <2>5 DEF SaveMeta, NotAnswered, Fail, SyncFails
    <3>. QED BY <2>2, <3>1
  <2>6. ASSUME NEW p \in Procs, Kill(p) PROVE FALSE
    <3>1. job'[j] = Idle \/ job'[j] = job[j] BY <2>6 DEF Kill
    <3>. QED BY <3>1, IdleType
  <2>7. ~UNCHANGED <<job, began, table, syncing, meta>> OBVIOUS
  <2>. QED BY <2>3, <2>4, <2>5, <2>6, <2>7, StepOfJob
<1>. QED BY <1>7, <1>8, <1>9, <1>10 DEF iv, old

\* With one process, a round of fetchAll that ends without an error leaves every
\* bar of the look-back window and after at least as new as the exchange showed it
\* when the round began, corrections of old bars included.
THEOREM RoundsRefresh == ASSUME OneProcess PROVE Spec => RoundRefreshes
<1>. DEFINE Renewed == \A j \in Jobs :
       job[j].pc \in {"fetch", "upsert"} /\ job'[j].pc = "sync" =>
         \A b \in Bars : b >= began[j].from =>
           table'[Interval(j)][b] >= began[j].source[b]
<1>1. IInv /\ AloneInv /\ [Next]_vars => [Renewed]_vars BY RefreshStep
<1>2. Spec => [][Renewed]_vars BY <1>1, AloneAlways, PTL DEF Spec
<1>. QED BY <1>2 DEF RoundRefreshes

LEMMA MetaStep ==
  ASSUME OneProcess, IInv, AloneInv, [Next]_vars, NEW iv \in Intervals, meta'[iv] # meta[iv]
  PROVE  meta'[iv] = Stats(table[iv])
<1>1. PICK j \in Jobs : SaveMeta(j)
  BY DEF Next, JobStep, Step, Fire, Begin, Fetch, RangeDone, Upsert, Aggregate,
         NotAnswered, Fail, SyncFails, Start, Kill, NextPeriod, Revise, vars
<1>2. TypeOK /\ Announces(j) BY DEF IInv, AloneInv, Knows
<1>3. /\ job[j].pc = "meta" /\ meta' = [meta EXCEPT ![Interval(j)] = job[j].agg]
      /\ meta \in [Intervals -> MetaRow]
  BY <1>1, <1>2 DEF SaveMeta, TypeOK
<1>4. iv = Interval(j) /\ meta'[iv] = job[j].agg BY <1>3
<1>. QED BY <1>2, <1>3, <1>4 DEF Announces

\* With one process, what KLineMetaRecord.Sync writes is what the table holds at
\* that moment, although it read the aggregate in an earlier query.
THEOREM MetaIsExact == ASSUME OneProcess PROVE Spec => MetaMatches
<1>. DEFINE Exact == \A iv \in Intervals :
       meta'[iv] # meta[iv] => meta'[iv] = Stats(table[iv])
<1>1. IInv /\ AloneInv /\ [Next]_vars => [Exact]_vars BY MetaStep
<1>2. Spec => [][Exact]_vars BY <1>1, AloneAlways, PTL DEF Spec
<1>. QED BY <1>2 DEF MetaMatches

\* However many processes there are, each runs one round at a time: the flag of
\* runWithLock is held as long as a round of the process goes on.
THEOREM RoundsExclude == Spec => []Locked
<1>1. Init => IInv /\ Locked BY IInvInit, AloneInit DEF AloneInv
<1>2. IInv /\ Locked /\ [Next]_vars => (IInv /\ Locked)'
  BY IInvStep, LockedStep DEF IInv
<1>. QED BY <1>1, <1>2, PTL DEF Spec
=============================================================================
