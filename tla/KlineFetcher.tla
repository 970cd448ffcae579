---------------------------- MODULE KlineFetcher ----------------------------
(***************************************************************************)
(* fetchklines: rounds of fetchAll over the intervals of one symbol, from  *)
(* the exchange into the crypto_kline table and its meta row.  Rounds are  *)
(* started by the scheduler of a process, in goroutines of their own, and  *)
(* "fetchklines --once" is a second process on the same tables.            *)
(*                                                                         *)
(* A bar is the number of its period since klineEarliestTime.  A row is a  *)
(* version of its bar: what the exchange showed while the bar was live,    *)
(* once it was closed, or after it was revised.                            *)
(***************************************************************************)
EXTENDS Integers, Sequences, FiniteSets

CONSTANTS
  Procs,      \* processes that fetch
  Jobs,       \* goroutines that can run a round
  ProcOf,     \* the process of a goroutine
  Order,      \* the intervals, in the order Run takes them
  Down,       \* intervals the exchange never answers for
  Lookback,   \* klineLookbackBars
  Limit,      \* fetchBatchLimit
  MaxBar,     \* bound: last period of a behaviour
  MaxFaults   \* bound: failed calls and kills

Intervals == {Order[i] : i \in 1..Len(Order)}
Bars      == 0..MaxBar

ASSUME KlineAssumption ==
  /\ ProcOf \in [Jobs -> Procs]
  /\ Order \in Seq(STRING) /\ Len(Order) > 0
  /\ Down \subseteq Intervals
  /\ Lookback \in [Intervals -> Nat]
  /\ Limit \in Nat \ {0} /\ MaxBar \in Nat /\ MaxFaults \in Nat

\* A version of a bar; a bar the exchange lost, or a row not stored, is None.
None == 0
Live == 1
Closed == 2
Revised == 3
Version == None..Revised

VARIABLES
  now,      \* the current period of each interval
  source,   \* what the exchange shows for each bar
  table,    \* the rows of crypto_kline
  meta,     \* the row of crypto_kline_meta
  alive,    \* processes that were started and did not die
  syncing,  \* KlineFetcher.syncing of each process
  job,      \* the round a goroutine runs
  began,    \* what the exchange showed when fetchAll began, and where it began
  faults

world == <<now, source>>
vars == <<now, source, table, meta, alive, syncing, job, began, faults>>

-----------------------------------------------------------------------------
(* The rows of one interval. *)

Stored(rows) == {b \in Bars : rows[b] # None}

\* GetLatestKLineTime: -1 stands for "no row".
Latest(rows) ==
  IF Stored(rows) = {} THEN -1
  ELSE CHOOSE b \in Stored(rows) : \A c \in Stored(rows) : c <= b

\* (mutant: the periods are counted, not the rows)
StatsByPeriod(rows) == [count |-> Latest(rows) + 1, latest |-> Latest(rows)]

\* The aggregate of KLineMetaRecord.Sync.
Stats(rows) == [count |-> Cardinality(Stored(rows)), latest |-> Latest(rows)]

NoRows  == [b \in Bars |-> None]
NoBatch == [b \in {} |-> None]
Fresh(pc, i) == [pc |-> pc, at |-> i, start |-> 0, end |-> 0, got |-> NoBatch,
                 agg |-> [count |-> 0, latest |-> -1]]
Idle == Fresh("idle", 1)

NotBegun == [from |-> 0, source |-> NoRows]

Interval(j) == Order[job[j].at]

\* (mutants: no look-back; no floor; the look-back counted from now)
StartAfterNewest(iv) == Latest(table[iv]) + 1
StartUnfloored(iv) ==
  IF Latest(table[iv]) = -1 THEN 0 ELSE Latest(table[iv]) - Lookback[iv]
StartBackFromNow(iv) ==
  IF now[iv] < Lookback[iv] THEN 0 ELSE now[iv] - Lookback[iv]

\* fetchAll: the first period to fetch.
StartTime(iv) ==
  LET back == Latest(table[iv]) - Lookback[iv]
  IN  IF Latest(table[iv]) = -1 \/ back < 0 THEN 0 ELSE back

Init ==
  /\ now = [iv \in Intervals |-> 0]
  /\ source = [iv \in Intervals |-> [NoRows EXCEPT ![0] = Live]]
  /\ table = [iv \in Intervals |-> NoRows]
  /\ meta = [iv \in Intervals |-> Stats(NoRows)]
  /\ alive = [p \in Procs |-> FALSE]
  /\ syncing = [p \in Procs |-> FALSE]
  /\ job = [j \in Jobs |-> Idle]
  /\ began = [j \in Jobs |-> NotBegun]
  /\ faults = 0

-----------------------------------------------------------------------------
(* A round. *)

Goto(j, next) == /\ job' = [job EXCEPT ![j] = next]
                 /\ UNCHANGED syncing

\* (mutant: an error of one interval ends the round)
GoesOnUnlessError(j, ok) == ok /\ job[j].at < Len(Order)
GoesOn(j, ok) == job[j].at < Len(Order)

\* fetchAll returns; Run logs an error and goes on with the next interval, and
\* after the last one runWithLock clears syncing.
Return(j, ok) ==
  /\ began' = [began EXCEPT ![j] = NotBegun]
  /\ IF GoesOn(j, ok)
     THEN Goto(j, Fresh("latest", job[j].at + 1))
     ELSE /\ job' = [job EXCEPT ![j] = Idle]
          /\ syncing' = [syncing EXCEPT ![ProcOf[j]] = FALSE]

\* (mutant: the flag is set but not looked at)
MayRun(j) == TRUE
\* CompareAndSwap of runWithLock; a round that finds it set is skipped.
MayStart(j) == ~syncing[ProcOf[j]]

Start(p) ==
  /\ ~alive[p]
  /\ alive' = [alive EXCEPT ![p] = TRUE]
  /\ UNCHANGED <<world, table, meta, syncing, job, began, faults>>

\* StartPeriodic runs a first round, then the scheduler starts one each interval.
Fire(j) ==
  /\ alive[ProcOf[j]] /\ job[j].pc = "idle" /\ MayStart(j)
  /\ syncing' = [syncing EXCEPT ![ProcOf[j]] = TRUE]
  /\ job' = [job EXCEPT ![j].pc = "latest"]
  /\ UNCHANGED <<world, alive, table, meta, began, faults>>

\* The resume point and endTime.
Begin(j) ==
  /\ job[j].pc = "latest"
  /\ LET iv == Interval(j)
     IN  /\ Goto(j, [job[j] EXCEPT !.pc = "fetch", !.start = StartTime(iv), !.end = now[iv]])
         /\ began' = [began EXCEPT ![j] = [from |-> StartTime(iv), source |-> source[iv]]]
  /\ UNCHANGED <<world, alive, table, meta, faults>>

\* The exchange answers with the first Limit bars of a range.
Answer(j) == {b \in Bars : /\ job[j].start <= b /\ b <= job[j].end
                          /\ source[Interval(j)][b] # None}

IsBatch(batch, range) ==
  /\ \A b \in batch, c \in range : c <= b => c \in batch
  /\ Cardinality(batch) <= Limit
  /\ batch = range \/ Cardinality(batch) = Limit

\* fetchBatch; an empty answer ends the loop.
Fetch(j) ==
  /\ job[j].pc = "fetch" /\ job[j].start <= job[j].end
  /\ Interval(j) \notin Down
  /\ \E batch \in SUBSET Answer(j) :
       /\ IsBatch(batch, Answer(j))
       /\ Goto(j, [job[j] EXCEPT !.pc  = IF batch = {} THEN "sync" ELSE "upsert",
                                 !.got = [b \in batch |-> source[Interval(j)][b]]])
  /\ UNCHANGED <<world, alive, table, meta, began, faults>>

RangeDone(j) ==
  /\ job[j].pc = "fetch" /\ job[j].start > job[j].end
  /\ Goto(j, [job[j] EXCEPT !.pc = "sync"])
  /\ UNCHANGED <<world, alive, table, meta, began, faults>>

\* (mutant: rows that exist are left alone)
MergedNewOnly(rows, got) ==
  [b \in Bars |-> IF b \in DOMAIN got /\ rows[b] = None THEN got[b] ELSE rows[b]]

\* BatchUpsertKLines: one transaction, newer values over the stored ones.
Merged(rows, got) == [b \in Bars |-> IF b \in DOMAIN got THEN got[b] ELSE rows[b]]

LastOf(got) == CHOOSE b \in DOMAIN got : \A c \in DOMAIN got : c <= b

ShortBatch(got) == Cardinality(DOMAIN got) < Limit

WriteBatch(j) ==
  table' = [table EXCEPT ![Interval(j)] = Merged(@, job[j].got)]

Upsert(j) ==
  /\ job[j].pc = "upsert"
  /\ WriteBatch(j)
  /\ Goto(j, [job[j] EXCEPT !.pc    = IF ShortBatch(job[j].got) THEN "sync" ELSE "fetch",
                            !.start = LastOf(job[j].got) + 1,
                            !.got   = NoBatch])
  /\ UNCHANGED <<world, alive, meta, began, faults>>

\* KLineMetaRecord.Sync: read the aggregate ...
Aggregate(j) ==
  /\ job[j].pc = "sync"
  /\ Goto(j, [job[j] EXCEPT !.pc = "meta", !.agg = Stats(table[Interval(j)])])
  /\ UNCHANGED <<world, alive, table, meta, began, faults>>

\* ... then upsert it.
SaveMeta(j) ==
  /\ job[j].pc = "meta"
  /\ meta' = [meta EXCEPT ![Interval(j)] = job[j].agg]
  /\ Return(j, TRUE)
  /\ UNCHANGED <<world, alive, table, faults>>

Step(j) == \/ Begin(j) \/ Fetch(j) \/ RangeDone(j) \/ Upsert(j)
           \/ Aggregate(j) \/ SaveMeta(j)

-----------------------------------------------------------------------------
(* Failures. *)

NotAnswered(j) ==
  /\ job[j].pc = "fetch" /\ job[j].start <= job[j].end
  /\ Interval(j) \in Down
  /\ Return(j, FALSE)
  /\ UNCHANGED <<world, alive, table, meta, faults>>

\* A call of fetchAll fails; a batch may be committed although its call fails.
Fail(j) ==
  /\ job[j].pc \in {"latest", "fetch", "upsert"} /\ faults < MaxFaults
  /\ job[j].pc = "fetch" => job[j].start <= job[j].end
  /\ \/ UNCHANGED table
     \/ job[j].pc = "upsert" /\ WriteBatch(j)
  /\ Return(j, FALSE)
  /\ faults' = faults + 1
  /\ UNCHANGED <<world, alive, meta>>

\* A failed Sync is only logged.
SyncFails(j) ==
  /\ job[j].pc \in {"sync", "meta"} /\ faults < MaxFaults
  /\ Return(j, TRUE)
  /\ faults' = faults + 1
  /\ UNCHANGED <<world, alive, table, meta>>

\* The process dies, also between the commit of a batch and its answer.
Kill(p) ==
  /\ alive[p] /\ faults < MaxFaults
  /\ \/ UNCHANGED table
     \/ \E j \in Jobs : ProcOf[j] = p /\ job[j].pc = "upsert" /\ WriteBatch(j)
  /\ alive' = [alive EXCEPT ![p] = FALSE]
  /\ syncing' = [syncing EXCEPT ![p] = FALSE]
  /\ job' = [j \in Jobs |-> IF ProcOf[j] = p THEN Idle ELSE job[j]]
  /\ began' = [j \in Jobs |-> IF ProcOf[j] = p THEN NotBegun ELSE began[j]]
  /\ faults' = faults + 1
  /\ UNCHANGED <<world, meta>>

-----------------------------------------------------------------------------
(* The exchange. *)

\* The current bar closes and the next period begins; the exchange may be down
\* for the whole of it and have no bar.  (Of an interval in Down nothing is seen.)
NextPeriod(iv) ==
  /\ iv \notin Down /\ now[iv] < MaxBar
  /\ now' = [now EXCEPT ![iv] = @ + 1]
  /\ \E v \in {None, Live} :
       source' = [source EXCEPT ![iv] =
         [b \in Bars |-> IF b = now[iv] + 1 THEN v
                         ELSE IF @[b] = Live THEN Closed ELSE @[b]]]
  /\ UNCHANGED <<table, meta, alive, syncing, job, began, faults>>

\* The exchange corrects a closed bar.
Revise(iv) ==
  /\ \E b \in Bars : /\ source[iv][b] = Closed
                     /\ source' = [source EXCEPT ![iv][b] = Revised]
  /\ UNCHANGED <<now, table, meta, alive, syncing, job, began, faults>>

JobStep(j) == Step(j) \/ NotAnswered(j)

Next == \/ \E j \in Jobs : Fire(j) \/ JobStep(j) \/ Fail(j) \/ SyncFails(j)
        \/ \E p \in Procs : Start(p) \/ Kill(p)
        \/ \E iv \in Intervals : NextPeriod(iv) \/ Revise(iv)

Spec == Init /\ [][Next]_vars

\* The scheduler of a process fires again and again, and a round that runs goes
\* on; nothing starts a dead process.
FairSpec == /\ Spec
            /\ \A p \in Procs : WF_vars(\E j \in Jobs : ProcOf[j] = p /\ Fire(j))
            /\ \A j \in Jobs : WF_vars(JobStep(j))

-----------------------------------------------------------------------------
Batches == UNION {[S -> Version] : S \in SUBSET Bars}
MetaRow == [count : Nat, latest : -1..MaxBar]
Round   == [pc : {"idle", "latest", "fetch", "upsert", "sync", "meta"},
            at : 1..Len(Order), start : Nat, end : Bars,
            got : Batches, agg : MetaRow]

TypeOK ==
  /\ now \in [Intervals -> Bars]
  /\ source \in [Intervals -> [Bars -> Version]]
  /\ table \in [Intervals -> [Bars -> Version]]
  /\ meta \in [Intervals -> MetaRow]
  /\ alive \in [Procs -> BOOLEAN] /\ syncing \in [Procs -> BOOLEAN]
  /\ job \in [Jobs -> Round]
  /\ began \in [Jobs -> [from : Bars, source : [Bars -> Version]]]
  /\ faults \in 0..MaxFaults

\* Resuming needs no more than the newest row: whatever rounds failed, died or
\* overlapped, no bar the exchange has is missing below a stored one.
NoHole ==
  \A iv \in Intervals : \A c \in Stored(table[iv]) : \A b \in 0..c :
    source[iv][b] # None => table[iv][b] # None

\* The meta row never announces more than the table holds.
MetaWithinTable ==
  \A iv \in Intervals : /\ meta[iv].count <= Cardinality(Stored(table[iv]))
                        /\ meta[iv].latest <= Latest(table[iv])

-----------------------------------------------------------------------------
(* With the fetching left to one process. *)

\* A row of a bar that was still live when it was fetched is the newest row,
\* hence fetched again by the next round however late that comes.
OnlyNewestLive ==
  \A iv \in Intervals : \A b \in Stored(table[iv]) :
    table[iv][b] = Live => b = Latest(table[iv])

\* When the batches of an interval end without an error, every bar of the
\* look-back window and after is stored as new as the exchange showed it when
\* the round began: corrections included.
RoundRefreshes ==
  [][\A j \in Jobs :
       job[j].pc \in {"fetch", "upsert"} /\ job'[j].pc = "sync" =>
         \A b \in Bars : b >= began[j].from =>
           table'[Interval(j)][b] >= began[j].source[b]]_vars

\* The meta row is never set to figures the table has outgrown.
MetaMatches ==
  [][\A iv \in Intervals : meta'[iv] # meta[iv] => meta'[iv] = Stats(table[iv])]_vars

-----------------------------------------------------------------------------
\* As long as a process lives, every bar of an interval the exchange answers for
\* is stored in the end, whatever other intervals and finitely many calls do.
BarsArrive ==
  \A iv \in Intervals \ Down : \A b \in Bars :
    source[iv][b] # None ~> table[iv][b] # None \/ \A p \in Procs : ~alive[p]
=============================================================================
