--------------------------- MODULE PaperStrategy ---------------------------
(***************************************************************************)
(* The live (paper) strategy: Runner.RunLoop fires Strategy.Run, and one   *)
(* Run reads klines, the Redis state and the crypto_trades table, then     *)
(* writes trade rows and, last of all, the Redis state.  The two stores    *)
(* are not written atomically, so a run can stop between any two calls.    *)
(*                                                                         *)
(* Time advances by the ticker interval.  PauseUntil is kept as the number *)
(* of ticks left; the sums over created_at ranges are kept as running sums *)
(* that the calendar resets.  Prices and quantities are integers.          *)
(***************************************************************************)
EXTENDS Integers, Sequences, FiniteSets

CONSTANTS
  Runners,          \* processes started with "strategy run"
  Daemons,          \* those of them started with --daemon (the others run once)
  Bars,             \* what the last 4h bars can show: see BarsAssumption
  RiskAmount,       \* RiskCapitalUSDT * RiskPerTrade
  RiskCapital,      \* RiskCapitalUSDT
  DailyLossLimit,   \* RiskCapitalUSDT * MaxDailyLossPct
  WeeklyLossLimit,  \* RiskCapitalUSDT * MaxWeeklyLossPct
  LossStreakLimit,  \* lossStreakLimit
  PauseTicks,       \* pauseDuration, in ticks
  TicksPerDay, TicksPerWeek,
  MaxHoldBars,      \* cfg.MaxHoldBars (0: no timeout)
  MaxTrades,        \* bound: buy rows written in a behaviour
  MaxFaults         \* bound: failed calls, kills, signals and lost keys

\* last: Close of the last bar; stop: the stop of EvaluateSignal, 0 when the
\* bars give no entry; atrTrail: lastPrice - ATR * multiplier, 0 without an ATR.
BarsAssumption ==
  \A b \in Bars : /\ b \in [last : Nat \ {0}, stop : Nat, atrTrail : Nat]
                  /\ b.stop < b.last

ParametersAssumption ==
  /\ Daemons \subseteq Runners
  /\ RiskAmount \in Nat /\ RiskCapital \in Nat
  /\ DailyLossLimit \in Nat /\ WeeklyLossLimit \in Nat
  /\ LossStreakLimit \in Nat \ {0}
  /\ PauseTicks \in Nat \ {0}
  /\ TicksPerDay \in Nat \ {0} /\ TicksPerWeek \in Nat \ {0}
  /\ MaxHoldBars \in Nat /\ MaxTrades \in Nat /\ MaxFaults \in Nat

ASSUME PaperAssumption == BarsAssumption /\ ParametersAssumption

VARIABLES
  market,        \* the 4h kline table as a run reads it
  redis,         \* the "runtime" key; a missing key reads as ZeroState
  open,          \* rows with status 'open', in id order
  soldQty,       \* quantity of the partial sell rows since the last buy row
  closedTrades,  \* buy rows closed so far
  exitRows,      \* exit sell rows written so far
  dailyPnL, weeklyPnL, lossStreak,   \* what trade_stats.go computes from sell rows
  clock,         \* tick of the week
  proc,          \* "down", "first" (before the first RunOnce returned), "loop"
  due,           \* a tick waits in the runner's ticker channel
  stopping,      \* SIGTERM arrived: ctx is cancelled
  pc, st, bar,   \* the run in progress: next step, StrategyState, bars read
  faults,        \* faults so far
  sinceGate      \* ticks since a run last saw the risk gate, capped at PauseTicks

dbVars   == <<open, soldQty, closedTrades, exitRows, dailyPnL, weeklyPnL, lossStreak>>
procVars == <<proc, due, stopping>>
runVars  == <<pc, st, bar>>
vars == <<market, redis, dbVars, clock, procVars, runVars, faults, sinceGate>>

-----------------------------------------------------------------------------
(* State of a strategy and of its rows. *)

NoBar == [last |-> 0, stop |-> 0, atrTrail |-> 0]

ZeroState ==
  [hasPosition |-> FALSE, entryPrice |-> 0, stopLoss |-> 0, qtyTotal |-> 0,
   qtyRemain |-> 0, riskPerUnit |-> 0, tp1Done |-> FALSE, tp2Done |-> FALSE,
   trailStop |-> 0, holdBars |-> 0, pauseUntil |-> 0]

StrategyState ==
  [hasPosition : BOOLEAN, entryPrice : Nat, stopLoss : Nat, qtyTotal : Nat,
   qtyRemain : Int, riskPerUnit : Nat, tp1Done : BOOLEAN, tp2Done : BOOLEAN,
   trailStop : Nat, holdBars : Nat, pauseUntil : 0..PauseTicks]

TradeRecord == {t \in [price : Nat, stop : Nat, qty : Nat] : t.stop < t.price}

Running(r) == proc[r] \in {"first", "loop"}
AllIdle == \A r \in Runners : pc[r] = "idle"

\* BuildPosition: the quantity risked, capped by the capital.
BuildPosition(entry, stop) ==
  LET byRisk == RiskAmount \div (entry - stop)
      byCash == RiskCapital \div entry
  IN  IF byRisk * entry > RiskCapital THEN byCash ELSE byRisk

\* The three conditions of refreshRiskStateFromDB.
RiskGate == \/ dailyPnL <= -DailyLossLimit
            \/ weeklyPnL <= -WeeklyLossLimit
            \/ lossStreak >= LossStreakLimit

Init ==
  /\ market = NoBar
  /\ redis = ZeroState
  /\ open = <<>> /\ soldQty = 0 /\ closedTrades = 0 /\ exitRows = 0
  /\ dailyPnL = 0 /\ weeklyPnL = 0 /\ lossStreak = 0
  /\ clock = 0
  /\ proc = [r \in Runners |-> "down"]
  /\ due = [r \in Runners |-> FALSE]
  /\ stopping = [r \in Runners |-> FALSE]
  /\ pc = [r \in Runners |-> "idle"]
  /\ st = [r \in Runners |-> ZeroState]
  /\ bar = [r \in Runners |-> NoBar]
  /\ faults = 0 /\ sinceGate = PauseTicks

-----------------------------------------------------------------------------
(* The runner around a run. *)

\* RunOnce returns.  RunLoop leaves on an error of its first run and when ctx
\* is done; later errors are only logged.  A one-shot process always ends.
EndRun(r, ok) ==
  /\ pc' = [pc EXCEPT ![r] = "idle"]
  /\ st' = [st EXCEPT ![r] = ZeroState]
  /\ bar' = [bar EXCEPT ![r] = NoBar]
  /\ proc' = [proc EXCEPT ![r] =
       IF r \in Daemons /\ ~stopping[r] /\ (ok \/ proc[r] = "loop")
       THEN "loop" ELSE "down"]
  /\ UNCHANGED <<due, stopping>>

\* The run goes on at step "next" with state "s".
Continue(r, next, s) ==
  /\ pc' = [pc EXCEPT ![r] = next]
  /\ st' = [st EXCEPT ![r] = s]
  /\ UNCHANGED <<bar, procVars>>

Start(r) ==
  /\ proc[r] = "down"
  /\ proc' = [proc EXCEPT ![r] = "first"]
  /\ due' = [due EXCEPT ![r] = TRUE]
  /\ stopping' = [stopping EXCEPT ![r] = FALSE]
  /\ UNCHANGED <<market, redis, dbVars, clock, runVars, faults, sinceGate>>

\* SIGTERM cancels the context every Redis call of the daemon uses.
Sigterm(r) ==
  /\ r \in Daemons /\ Running(r) /\ ~stopping[r]
  /\ faults < MaxFaults
  /\ stopping' = [stopping EXCEPT ![r] = TRUE]
  /\ faults' = faults + 1
  /\ UNCHANGED <<market, redis, dbVars, clock, proc, due, runVars, sinceGate>>

\* ctx.Done between two runs (a Load with the cancelled context fails too).
Stop(r) ==
  /\ Running(r) /\ stopping[r] /\ pc[r] = "idle"
  /\ proc' = [proc EXCEPT ![r] = "down"]
  /\ UNCHANGED <<market, redis, dbVars, clock, due, stopping, runVars, faults, sinceGate>>

-----------------------------------------------------------------------------
(* Strategy.Run, one action per call to a store. *)

\* GetKLines and StateStore.Load.
Load(r) ==
  /\ Running(r) /\ due[r] /\ ~stopping[r] /\ pc[r] = "idle"
  /\ due' = [due EXCEPT ![r] = FALSE]
  /\ pc' = [pc EXCEPT ![r] = "recover"]
  /\ st' = [st EXCEPT ![r] = redis]
  /\ bar' = [bar EXCEPT ![r] = market]
  /\ UNCHANGED <<market, redis, dbVars, clock, proc, stopping, faults, sinceGate>>

\* (mutants: the operands of the risk swapped; no rebuild; no clearing)
RecoveredNegativeRisk(s) ==
  IF open = <<>> THEN [s EXCEPT !.hasPosition = FALSE]
  ELSE IF s.hasPosition THEN s
  ELSE [s EXCEPT !.hasPosition = TRUE, !.riskPerUnit = open[1].stop - open[1].price]

RecoveredFromRedisOnly(s) ==
  IF open = <<>> THEN [s EXCEPT !.hasPosition = FALSE] ELSE s

RecoveredNotCleared(s) ==
  IF open = <<>> \/ s.hasPosition THEN s
  ELSE [s EXCEPT !.hasPosition = TRUE, !.entryPrice = open[1].price,
                 !.stopLoss = open[1].stop, !.qtyTotal = open[1].qty,
                 !.qtyRemain = open[1].qty, !.riskPerUnit = open[1].price - open[1].stop]

\* recoverPositionState: only these five fields are rebuilt from the trade row,
\* and without an open row only HasPosition is cleared.
Recovered(s) ==
  IF open = <<>> THEN [s EXCEPT !.hasPosition = FALSE]
  ELSE IF s.hasPosition THEN s
  ELSE [s EXCEPT !.hasPosition = TRUE,
                 !.entryPrice = open[1].price, !.stopLoss = open[1].stop,
                 !.qtyTotal = open[1].qty, !.qtyRemain = open[1].qty,
                 !.riskPerUnit = open[1].price - open[1].stop]

Recover(r) ==
  /\ pc[r] = "recover"
  /\ Continue(r, "risk", Recovered(st[r]))
  /\ UNCHANGED <<market, redis, dbVars, clock, faults, sinceGate>>

\* (mutants: the gate is looked at only while a position is held; a pause ends
\* with the sums that caused it)
PauseWhileHolding(s) == IF RiskGate /\ s.hasPosition THEN PauseTicks ELSE s.pauseUntil
PauseOnlyNow(s) == IF RiskGate THEN PauseTicks ELSE 0

\* refreshRiskStateFromDB: every run that sees the gate renews the pause.
PauseAfter(s) == IF RiskGate THEN PauseTicks ELSE s.pauseUntil

RefreshRisk(r) ==
  /\ pc[r] = "risk"
  /\ Continue(r, "act", [st[r] EXCEPT !.pauseUntil = PauseAfter(st[r])])
  /\ sinceGate' = IF RiskGate THEN 0 ELSE sinceGate
  /\ UNCHANGED <<market, redis, dbVars, clock, faults>>

EntryQty(r) ==
  IF bar[r].stop = 0 THEN 0 ELSE BuildPosition(bar[r].last, bar[r].stop)

Paused(r) ==
  /\ pc[r] = "act" /\ ~st[r].hasPosition /\ st[r].pauseUntil > 0
  /\ Continue(r, "save", st[r])
  /\ UNCHANGED <<market, redis, dbVars, clock, faults, sinceGate>>

\* No signal, or an empty position plan: Run returns without a Save (at the
\* bound MaxTrades no bar gives a signal).
NoEntry(r) ==
  /\ pc[r] = "act" /\ ~st[r].hasPosition /\ st[r].pauseUntil = 0
  /\ EntryQty(r) <= 0 \/ closedTrades + Len(open) >= MaxTrades
  /\ EndRun(r, TRUE)
  /\ UNCHANGED <<market, redis, dbVars, clock, faults, sinceGate>>

\* (mutant: the stop of the last position stays)
AfterOpenOldStop(r) ==
  [st[r] EXCEPT !.hasPosition = TRUE, !.entryPrice = bar[r].last,
                !.qtyTotal = EntryQty(r), !.qtyRemain = EntryQty(r),
                !.riskPerUnit = bar[r].last - bar[r].stop]

AfterOpen(r) ==
  [ZeroState EXCEPT !.hasPosition = TRUE,
     !.entryPrice = bar[r].last, !.stopLoss = bar[r].stop,
     !.qtyTotal = EntryQty(r), !.qtyRemain = EntryQty(r),
     !.riskPerUnit = bar[r].last - bar[r].stop,
     !.pauseUntil = st[r].pauseUntil]

\* PaperExecutor.Open, then the new state, still unsaved.
Open(r) ==
  /\ pc[r] = "act" /\ ~st[r].hasPosition /\ st[r].pauseUntil = 0
  /\ EntryQty(r) > 0
  /\ closedTrades + Len(open) < MaxTrades
  /\ open' = Append(open, [price |-> bar[r].last, stop |-> bar[r].stop, qty |-> EntryQty(r)])
  /\ soldQty' = 0
  /\ Continue(r, "save", AfterOpen(r))
  /\ UNCHANGED <<market, redis, closedTrades, exitRows, dailyPnL, weeklyPnL,
                 lossStreak, clock, faults, sinceGate>>

TP1(s) == s.entryPrice + s.riskPerUnit
TP2(s) == s.entryPrice + 2 * s.riskPerUnit
Part(q, tenths) == (q * tenths) \div 10

\* One rung of the ladder: the state changes, then PartialClose inserts a sell
\* row (pnl 0).  A rung that is not reached changes nothing.
Rung(r, next, reached, qty, s) ==
  /\ Continue(r, next, IF reached THEN [s EXCEPT !.qtyRemain = @ - qty] ELSE s)
  /\ soldQty' = IF reached THEN soldQty + qty ELSE soldQty
  /\ UNCHANGED <<market, redis, open, closedTrades, exitRows,
                 dailyPnL, weeklyPnL, lossStreak, clock, faults, sinceGate>>

\* (mutant: the rung is not marked as done)
AfterTP1Unmarked(s) == [s EXCEPT !.trailStop = s.entryPrice]
AfterTP1(s) == [s EXCEPT !.tp1Done = TRUE, !.trailStop = s.entryPrice]

\* (mutant: the bars held are not counted)
NotHeld(s) == s
Held(s) == [s EXCEPT !.holdBars = @ + 1]

TakeProfit1(r) ==
  /\ pc[r] = "act" /\ st[r].hasPosition
  /\ LET s == Held(st[r])
         reached == ~s.tp1Done /\ bar[r].last >= TP1(s)
     IN  Rung(r, "tp2", reached, Part(s.qtyTotal, 4),
              IF reached THEN AfterTP1(s) ELSE s)

TakeProfit2(r) ==
  /\ pc[r] = "tp2"
  /\ LET s == st[r]
         reached == ~s.tp2Done /\ bar[r].last >= TP2(s)
     IN  Rung(r, "trail", reached, Part(s.qtyTotal, 3),
              IF reached THEN [s EXCEPT !.tp2Done = TRUE,
                                 !.trailStop = IF @ < TP1(s) THEN TP1(s) ELSE @]
              ELSE s)

\* (mutant: the ATR trail replaces the stop also when it is below it)
TrailLoose(s, b) ==
  LET t == IF s.tp1Done /\ b.atrTrail > 0 THEN b.atrTrail ELSE s.trailStop
  IN  IF t <= 0 THEN s.stopLoss ELSE t

\* The trailing stop this run applies.
Trail(s, b) ==
  LET t == IF s.tp1Done /\ b.atrTrail > s.trailStop THEN b.atrTrail ELSE s.trailStop
  IN  IF t <= 0 THEN s.stopLoss ELSE t

MustExit(s, b) == \/ b.last <= Trail(s, b)
                  \/ MaxHoldBars > 0 /\ s.holdBars >= MaxHoldBars

MoveStop(r) ==
  /\ pc[r] = "trail"
  /\ Continue(r, IF MustExit(st[r], bar[r]) THEN "close" ELSE "save",
              [st[r] EXCEPT !.trailStop = Trail(st[r], bar[r])])
  /\ UNCHANGED <<market, redis, dbVars, clock, faults, sinceGate>>

\* CloseOpenTradesByStrategy: every open row becomes closed.
CloseRows(r) ==
  /\ pc[r] = "close"
  /\ open' = <<>>
  /\ closedTrades' = closedTrades + Len(open)
  /\ Continue(r, "sell", st[r])
  /\ UNCHANGED <<market, redis, soldQty, exitRows, dailyPnL, weeklyPnL,
                 lossStreak, clock, faults, sinceGate>>

\* (mutant: the state is not reset)
AfterExitKept(s) == s
AfterExit(s) == [ZeroState EXCEPT !.pauseUntil = s.pauseUntil]

\* The exit sell row, which carries the PnL, and the zeroed state.
ExitPnL(r) == (bar[r].last - st[r].entryPrice) * st[r].qtyRemain

SellRow(r) ==
  /\ pc[r] = "sell"
  /\ exitRows' = exitRows + 1
  /\ dailyPnL' = dailyPnL + ExitPnL(r)
  /\ weeklyPnL' = weeklyPnL + ExitPnL(r)
  /\ lossStreak' = CASE ExitPnL(r) < 0 -> lossStreak + 1
                     [] ExitPnL(r) > 0 -> 0
                     [] OTHER -> lossStreak
  /\ Continue(r, "save", AfterExit(st[r]))
  /\ UNCHANGED <<market, redis, open, soldQty, closedTrades, clock, faults, sinceGate>>

\* StateStore.Save; with a cancelled context it fails and the run ends in error.
Save(r) ==
  /\ pc[r] = "save"
  /\ redis' = IF stopping[r] THEN redis ELSE st[r]
  /\ EndRun(r, ~stopping[r])
  /\ UNCHANGED <<market, dbVars, clock, faults, sinceGate>>

RunStep(r) ==
  \/ Load(r) \/ Recover(r) \/ RefreshRisk(r)
  \/ Paused(r) \/ NoEntry(r) \/ Open(r)
  \/ TakeProfit1(r) \/ TakeProfit2(r) \/ MoveStop(r) \/ CloseRows(r) \/ SellRow(r)
  \/ Save(r)

-----------------------------------------------------------------------------
(* Faults and the world outside. *)

\* A call of the run fails, or the process is killed: what the run did not
\* write yet is lost.
Fail(r) ==
  /\ pc[r] # "idle" /\ faults < MaxFaults
  /\ EndRun(r, FALSE)
  /\ faults' = faults + 1
  /\ UNCHANGED <<market, redis, dbVars, clock, sinceGate>>

Kill(r) ==
  /\ Running(r) /\ faults < MaxFaults
  /\ pc' = [pc EXCEPT ![r] = "idle"]
  /\ st' = [st EXCEPT ![r] = ZeroState]
  /\ bar' = [bar EXCEPT ![r] = NoBar]
  /\ proc' = [proc EXCEPT ![r] = "down"]
  /\ faults' = faults + 1
  /\ UNCHANGED <<market, redis, dbVars, clock, due, stopping, sinceGate>>

\* The key is evicted, flushed or outlives its 30 days.
LoseKey ==
  /\ redis # ZeroState /\ faults < MaxFaults
  /\ redis' = ZeroState
  /\ faults' = faults + 1
  /\ UNCHANGED <<market, dbVars, clock, procVars, runVars, sinceGate>>

NewBar ==
  /\ \E b \in Bars : market' = b
  /\ UNCHANGED <<redis, dbVars, clock, procVars, runVars, faults, sinceGate>>

\* The ticker fires.  Runs are short against the interval.
Tick ==
  /\ AllIdle
  /\ clock' = (clock + 1) % TicksPerWeek
  /\ dailyPnL' = IF clock' % TicksPerDay = 0 THEN 0 ELSE dailyPnL
  /\ weeklyPnL' = IF clock' = 0 THEN 0 ELSE weeklyPnL
  /\ redis' = [redis EXCEPT !.pauseUntil = IF @ > 0 THEN @ - 1 ELSE 0]
  /\ due' = [r \in Runners |-> due[r] \/ proc[r] = "loop"]
  /\ sinceGate' = IF sinceGate < PauseTicks THEN sinceGate + 1 ELSE PauseTicks
  /\ UNCHANGED <<market, open, soldQty, closedTrades, exitRows, lossStreak,
                 proc, stopping, runVars, faults>>

Next == \/ \E r \in Runners : \/ Start(r) \/ Sigterm(r) \/ Stop(r)
                              \/ RunStep(r) \/ Fail(r) \/ Kill(r)
        \/ LoseKey \/ NewBar \/ Tick

Spec == Init /\ [][Next]_vars

\* The ticker keeps firing, a started run goes on and the select of RunLoop sees
\* ctx.Done; nothing restarts a dead process, so Start has no fairness.
FairSpec == /\ Spec
            /\ WF_vars(Tick)
            /\ \A r \in Runners : WF_vars(RunStep(r)) /\ WF_vars(Stop(r))

-----------------------------------------------------------------------------
TypeOK ==
  /\ market \in Bars \cup {NoBar}
  /\ redis \in StrategyState
  /\ open \in Seq(TradeRecord)
  /\ soldQty \in Int /\ closedTrades \in Nat /\ exitRows \in Nat
  /\ dailyPnL \in Int /\ weeklyPnL \in Int /\ lossStreak \in Nat
  /\ clock \in 0..(TicksPerWeek - 1)
  /\ proc \in [Runners -> {"down", "first", "loop"}]
  /\ due \in [Runners -> BOOLEAN] /\ stopping \in [Runners -> BOOLEAN]
  /\ pc \in [Runners -> {"idle", "recover", "risk", "act", "tp2", "trail", "close", "sell", "save"}]
  /\ st \in [Runners -> StrategyState]
  /\ bar \in [Runners -> Bars \cup {NoBar}]
  /\ faults \in 0..MaxFaults /\ sinceGate \in 0..PauseTicks

-----------------------------------------------------------------------------
(* Safety, under every fault, for one runner. *)

\* The book never holds two positions: a run buys only when the table it read
\* had no open row (recoverPositionState, "skip new entry to avoid duplicate
\* position").
AtMostOneOpen == Len(open) <= 1

\* A closed trade books its exit once: whatever was lost between two runs, no
\* second exit row (with a second PnL for the risk gate) is written for it.
ExitBookedOnce == exitRows <= closedTrades

\* No run buys while the sums and the streak of the sell rows are beyond a
\* limit, however stale the pause in Redis is.
GatedEntry == [][Len(open') > Len(open) => ~RiskGate]_vars

\* One lost write or lost key never makes a run manage a position with the
\* entry, stop or size of an earlier one (two can: the exit is not saved, and
\* neither is the next entry).
ManagedByItsOwnState ==
  faults <= 1 =>
    \A r \in Runners : pc[r] = "trail" /\ open # <<>> =>
      /\ st[r].entryPrice = open[1].price
      /\ st[r].stopLoss = open[1].stop
      /\ st[r].qtyTotal = open[1].qty

-----------------------------------------------------------------------------
(* Safety as long as no call failed and no process was killed. *)

\* Between runs Redis and the trade table tell the same story: the position,
\* its entry, stop and size, the quantity left after the rungs sold, and one
\* exit row per closed trade.
Ladder(q, s) == (IF s.tp1Done THEN Part(q, 4) ELSE 0) + (IF s.tp2Done THEN Part(q, 3) ELSE 0)

Describes(s, t) ==
  /\ s.hasPosition
  /\ s.entryPrice = t.price /\ s.stopLoss = t.stop /\ s.riskPerUnit = t.price - t.stop
  /\ s.qtyTotal = t.qty /\ s.qtyRemain = t.qty - soldQty
  /\ soldQty = Ladder(t.qty, s)

StoresAgree ==
  faults = 0 /\ AllIdle =>
    /\ exitRows = closedTrades
    /\ IF open = <<>> THEN ~redis.hasPosition ELSE Describes(redis, open[1])

\* A run that saw the gate keeps the strategy out for the whole pause, also
\* when the day that triggered it has ended.
PauseLasts ==
  [][faults = 0 /\ Len(open') > Len(open) => sinceGate >= PauseTicks]_vars

\* From one saved state to the next of the same position the stop in force
\* never moves down, and the rungs are never forgotten.
StopInForce(s) == IF s.trailStop > 0 THEN s.trailStop ELSE s.stopLoss

StopNeverLoosens ==
  [][faults' = 0 /\ redis.hasPosition /\ redis'.hasPosition =>
       /\ StopInForce(redis') >= StopInForce(redis)
       /\ redis.tp1Done => redis'.tp1Done
       /\ redis.tp2Done => redis'.tp2Done]_vars

-----------------------------------------------------------------------------
(* Liveness. *)

\* While a daemon lives, an open position is closed in the end: the hold limit
\* counts saved runs and is reached whatever finitely many faults lose.
PositionCloses ==
  \A r \in Daemons : Len(open) > 0 ~> (open = <<>> \/ ~Running(r))

\* Up to the first fault the trade rows go through the ladder of PositionLadder,
\* and every position that is bought exits.
BookedQty == IF open = <<>> \/ faults > 0 THEN 0 ELSE open[1].qty

Position == INSTANCE PositionLadder WITH
              known <- faults = 0, qty <- BookedQty,
              left <- IF BookedQty = 0 THEN 0 ELSE BookedQty - soldQty

ImplementsLadder == Position!Spec

-----------------------------------------------------------------------------
(* What the code's documents and messages promise and the code does not do:  *)
(* each is the property of a run that TLC refutes.                           *)

\* README: 40% is sold at 1R and 30% at 2R, so the rows of one position never
\* sell more than 70% before its exit.
TakeProfitOnce ==
  Len(open) = 1 => soldQty <= Part(open[1].qty, 4) + Part(open[1].qty, 3)

\* "risk gate recovered: pause lifted": a pause ends some day.
PauseLifts == redis.pauseUntil > 0 ~> redis.pauseUntil = 0
=============================================================================
