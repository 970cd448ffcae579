------------------------ MODULE PaperStrategyProofs ------------------------
(***************************************************************************)
(* Theorems about PaperStrategy.  TypeOK holds for any set of runners; the *)
(* safety theorems are about one runner, which is what the pid file of     *)
(* lib/godaemon.go is there for, and hold under every fault, until the     *)
(* first one (Story) or, in the last section, until the second.            *)
(***************************************************************************)
EXTENDS PaperStrategy, SequenceTheorems, TLAPS

PCs == {"idle", "recover", "risk", "act", "tp2", "trail", "close", "sell", "save"}
Procs == {"down", "first", "loop"}

\* The variables that the steps of one run share.
RunTypes ==
  /\ pc \in [Runners -> PCs] /\ st \in [Runners -> StrategyState]
  /\ bar \in [Runners -> Bars \cup {NoBar}]
  /\ proc \in [Runners -> Procs]
  /\ due \in [Runners -> BOOLEAN] /\ stopping \in [Runners -> BOOLEAN]

LEMMA ZeroStateType == ZeroState \in StrategyState /\ NoBar \in Bars \cup {NoBar}
BY PaperAssumption DEF PaperAssumption, ParametersAssumption, ZeroState, StrategyState

\* StrategyState field by field: a state with all fields of their type is one.
LEMMA StateFields ==
  ASSUME NEW s \in StrategyState
  PROVE  /\ s.hasPosition \in BOOLEAN /\ s.tp1Done \in BOOLEAN /\ s.tp2Done \in BOOLEAN
         /\ s.entryPrice \in Nat /\ s.stopLoss \in Nat /\ s.qtyTotal \in Nat
         /\ s.qtyRemain \in Int /\ s.riskPerUnit \in Nat /\ s.trailStop \in Nat
         /\ s.holdBars \in Nat /\ s.pauseUntil \in 0..PauseTicks
BY DEF StrategyState

LEMMA PauseUpdate ==
  ASSUME NEW s \in StrategyState, NEW v \in 0..PauseTicks
  PROVE  [s EXCEPT !.pauseUntil = v] \in StrategyState
BY DEF StrategyState

LEMMA HoldUpdate ==
  ASSUME NEW s \in StrategyState, NEW v \in Nat
  PROVE  [s EXCEPT !.holdBars = v] \in StrategyState
BY DEF StrategyState

LEMMA QtyUpdate ==
  ASSUME NEW s \in StrategyState, NEW v \in Int
  PROVE  [s EXCEPT !.qtyRemain = v] \in StrategyState
BY DEF StrategyState

LEMMA TP1Update ==
  ASSUME NEW s \in StrategyState, NEW v \in Nat
  PROVE  [s EXCEPT !.tp1Done = TRUE, !.trailStop = v] \in StrategyState
BY DEF StrategyState

LEMMA TP2Update ==
  ASSUME NEW s \in StrategyState, NEW v \in Nat
  PROVE  [s EXCEPT !.tp2Done = TRUE, !.trailStop = v] \in StrategyState
BY DEF StrategyState

LEMMA PositionUpdate ==
  ASSUME NEW s \in StrategyState, NEW e \in Nat, NEW l \in Nat, NEW q \in Nat, NEW k \in Nat
  PROVE  [s EXCEPT !.hasPosition = TRUE, !.entryPrice = e, !.stopLoss = l,
                   !.qtyTotal = q, !.qtyRemain = q, !.riskPerUnit = k] \in StrategyState
<1>. DEFINE a == [s EXCEPT !.hasPosition = TRUE, !.entryPrice = e, !.stopLoss = l]
            b == [a EXCEPT !.qtyTotal = q, !.qtyRemain = q, !.riskPerUnit = k]
<1>1. a \in StrategyState
  BY DEF StrategyState
<1>2. ASSUME NEW t \in StrategyState
      PROVE  [t EXCEPT !.qtyTotal = q, !.qtyRemain = q, !.riskPerUnit = k] \in StrategyState
  <2>1. [t EXCEPT !.qtyTotal = q] \in StrategyState
    BY DEF StrategyState
  <2>2. ASSUME NEW u \in StrategyState
        PROVE  [u EXCEPT !.qtyRemain = q, !.riskPerUnit = k] \in StrategyState
    <3>1. [u EXCEPT !.qtyRemain = q] \in StrategyState
      BY QtyUpdate
    <3>2. ASSUME NEW v \in StrategyState PROVE [v EXCEPT !.riskPerUnit = k] \in StrategyState
      BY DEF StrategyState
    <3>. QED
      BY <3>1, <3>2
  <2>. QED
    BY <2>1, <2>2
<1>3. b \in StrategyState
  <2>. HIDE DEF a
  <2>. QED
    BY <1>1, <1>2
<1>. QED
  BY <1>3

LEMMA BarTypes ==
  ASSUME NEW b \in Bars \cup {NoBar}
  PROVE  /\ b.last \in Nat /\ b.stop \in Nat /\ b.atrTrail \in Nat
         /\ b.stop > 0 => b.stop < b.last
BY PaperAssumption DEF PaperAssumption, BarsAssumption, NoBar

LEMMA QuotientType ==
  ASSUME NEW a \in Int, NEW b \in Nat \ {0}
  PROVE  a \div b \in Int
OBVIOUS

\* What BuildPosition returns for an entry above its stop.
LEMMA BuildPositionType ==
  ASSUME NEW e \in Nat, NEW s \in Nat, s < e
  PROVE  BuildPosition(e, s) \in Int
<1>1. e - s \in Nat \ {0} /\ e \in Nat \ {0} /\ RiskAmount \in Int /\ RiskCapital \in Int
  BY PaperAssumption DEF PaperAssumption, ParametersAssumption
<1>2. RiskAmount \div (e - s) \in Int /\ RiskCapital \div e \in Int
  BY <1>1, QuotientType
<1>. QED
  BY <1>2 DEF BuildPosition

LEMMA PartType == ASSUME NEW q \in Nat, NEW t \in Nat PROVE Part(q, t) \in Int
<1>1. q * t \in Int /\ 10 \in Nat \ {0}
  OBVIOUS
<1>. QED
  BY <1>1, QuotientType DEF Part

LEMMA ContinueType ==
  ASSUME RunTypes, NEW r \in Runners, NEW next \in PCs, NEW s \in StrategyState,
         Continue(r, next, s)
  PROVE  RunTypes'
BY DEF RunTypes, Continue, procVars

LEMMA EndRunType ==
  ASSUME RunTypes, NEW r \in Runners, NEW ok \in BOOLEAN, EndRun(r, ok)
  PROVE  RunTypes'
BY ZeroStateType DEF RunTypes, EndRun, Procs, PCs

-----------------------------------------------------------------------------
(* What the steps of a run compute. *)

LEMMA RecoveredType ==
  ASSUME open \in Seq(TradeRecord), NEW s \in StrategyState
  PROVE  Recovered(s) \in StrategyState
<1>1. CASE open = <<>>
  BY <1>1 DEF Recovered, StrategyState
<1>2. CASE open # <<>>
  <2>1. open[1] \in TradeRecord
    BY <1>2
  <2>2. /\ open[1].price \in Nat /\ open[1].stop \in Nat /\ open[1].qty \in Nat
        /\ open[1].price - open[1].stop \in Nat
    BY <2>1 DEF TradeRecord
  <2>3. s.hasPosition \/ Recovered(s) =
          [s EXCEPT !.hasPosition = TRUE, !.entryPrice = open[1].price,
                    !.stopLoss = open[1].stop, !.qtyTotal = open[1].qty,
                    !.qtyRemain = open[1].qty, !.riskPerUnit = open[1].price - open[1].stop]
    BY <1>2 DEF Recovered
  <2>4. CASE s.hasPosition
    BY <1>2, <2>4 DEF Recovered
  <2>5. [s EXCEPT !.hasPosition = TRUE, !.entryPrice = open[1].price,
                  !.stopLoss = open[1].stop, !.qtyTotal = open[1].qty,
                  !.qtyRemain = open[1].qty, !.riskPerUnit = open[1].price - open[1].stop]
          \in StrategyState
    BY <2>2, PositionUpdate
  <2>. QED
    BY <2>3, <2>4, <2>5
<1>. QED
  BY <1>1, <1>2

LEMMA TrailType ==
  ASSUME NEW s \in StrategyState, NEW b \in Bars \cup {NoBar}
  PROVE  Trail(s, b) \in Nat
BY BarTypes DEF Trail, StrategyState

LEMMA EntryQtyType ==
  ASSUME NEW r \in Runners, bar[r] \in Bars \cup {NoBar}
  PROVE  EntryQty(r) \in Int
BY BarTypes, BuildPositionType DEF EntryQty

LEMMA ExitPnLType ==
  ASSUME NEW r \in Runners, bar[r] \in Bars \cup {NoBar}, st[r] \in StrategyState
  PROVE  ExitPnL(r) \in Int
BY BarTypes DEF ExitPnL, StrategyState

\* Type correctness, for any number of runners, daemons and faults.
THEOREM TypeCorrect == Spec => []TypeOK
<1>1. Init => TypeOK
  BY PaperAssumption, ZeroStateType DEF PaperAssumption, ParametersAssumption, Init, TypeOK
<1>2. TypeOK /\ [Next]_vars => TypeOK'
  <2>. SUFFICES ASSUME TypeOK, [Next]_vars PROVE TypeOK'
    OBVIOUS
  <2>. USE DEF dbVars, procVars, runVars
  <2>t. RunTypes
    BY DEF TypeOK, RunTypes, PCs, Procs
  <2>r. ASSUME RunTypes' PROVE /\ (pc \in [Runners -> PCs])'
                               /\ (st \in [Runners -> StrategyState])'
                               /\ (bar \in [Runners -> Bars \cup {NoBar}])'
                               /\ (proc \in [Runners -> Procs])'
                               /\ (due \in [Runners -> BOOLEAN])'
                               /\ (stopping \in [Runners -> BOOLEAN])'
    BY <2>r DEF RunTypes
  <2>1. ASSUME NEW r \in Runners, Start(r) PROVE TypeOK'
    BY <2>1 DEF Start, TypeOK
  <2>2. ASSUME NEW r \in Runners, Sigterm(r) PROVE TypeOK'
    BY <2>2, PaperAssumption DEF Sigterm, TypeOK, PaperAssumption, ParametersAssumption
  <2>3. ASSUME NEW r \in Runners, Stop(r) PROVE TypeOK'
    BY <2>3 DEF Stop, TypeOK
  <2>4. ASSUME NEW r \in Runners, Load(r) PROVE TypeOK'
    BY <2>4 DEF Load, TypeOK
  <2>5. ASSUME NEW r \in Runners, Recover(r) PROVE TypeOK'
    <3>1. Recovered(st[r]) \in StrategyState
      BY RecoveredType DEF TypeOK
    <3>2. RunTypes'
      BY <2>5, <2>t, <3>1, ContinueType DEF Recover, PCs
    <3>. QED
      BY <2>5, <3>2, <2>r DEF Recover, TypeOK, PCs, Procs
  <2>6. ASSUME NEW r \in Runners, RefreshRisk(r) PROVE TypeOK'
    <3>1. [st[r] EXCEPT !.pauseUntil = PauseAfter(st[r])] \in StrategyState
      <4>1. /\ st[r] \in StrategyState /\ st[r].pauseUntil \in 0..PauseTicks
            /\ PauseTicks \in 0..PauseTicks
        BY StateFields, PaperAssumption DEF TypeOK, PaperAssumption, ParametersAssumption
      <4>. QED
        BY <4>1, PauseUpdate DEF PauseAfter
    <3>2. RunTypes'
      BY <2>6, <2>t, <3>1, ContinueType DEF RefreshRisk, PCs
    <3>. QED
      <4>1. sinceGate' \in 0..PauseTicks
        BY <2>6, PaperAssumption DEF RefreshRisk, TypeOK, PaperAssumption, ParametersAssumption
      <4>. QED
        BY <2>6, <4>1, <3>2, <2>r DEF RefreshRisk, TypeOK, PCs, Procs
  <2>7. ASSUME NEW r \in Runners, Paused(r) PROVE TypeOK'
    <3>1. RunTypes'
      BY <2>7, <2>t, ContinueType DEF Paused, PCs, TypeOK
    <3>. QED
      BY <2>7, <3>1, <2>r DEF Paused, TypeOK, PCs, Procs
  <2>8. ASSUME NEW r \in Runners, NoEntry(r) PROVE TypeOK'
    <3>1. RunTypes'
      BY <2>8, <2>t, EndRunType DEF NoEntry
    <3>. QED
      BY <2>8, <3>1, <2>r DEF NoEntry, TypeOK, PCs, Procs
  <2>9. ASSUME NEW r \in Runners, Open(r) PROVE TypeOK'
    <3>1. /\ bar[r] \in Bars \cup {NoBar} /\ st[r] \in StrategyState
          /\ EntryQty(r) \in Nat /\ bar[r].stop > 0
      BY <2>9, EntryQtyType, BarTypes DEF TypeOK, Open, EntryQty
    <3>2. /\ bar[r].last \in Nat /\ bar[r].stop \in Nat /\ bar[r].stop < bar[r].last
          /\ bar[r].last - bar[r].stop \in Nat
      BY <3>1, BarTypes
    <3>3. [price |-> bar[r].last, stop |-> bar[r].stop, qty |-> EntryQty(r)] \in TradeRecord
      BY <3>1, <3>2 DEF TradeRecord
    <3>4. open' \in Seq(TradeRecord)
      BY <2>9, <3>3 DEF Open, TypeOK
    <3>5. AfterOpen(r) \in StrategyState
      <4>1. [ZeroState EXCEPT !.hasPosition = TRUE,
               !.entryPrice = bar[r].last, !.stopLoss = bar[r].stop,
               !.qtyTotal = EntryQty(r), !.qtyRemain = EntryQty(r),
               !.riskPerUnit = bar[r].last - bar[r].stop] \in StrategyState
        BY <3>1, <3>2, ZeroStateType, PositionUpdate
      <4>2. st[r].pauseUntil \in 0..PauseTicks
        BY <3>1, StateFields
      <4>. QED
        BY <4>1, <4>2, PauseUpdate DEF AfterOpen
    <3>6. RunTypes'
      BY <2>9, <2>t, <3>5, ContinueType DEF Open, PCs
    <3>. QED
      BY <2>9, <3>4, <3>6, <2>r DEF Open, TypeOK, PCs, Procs
  <2>10. ASSUME NEW r \in Runners, TakeProfit1(r) PROVE TypeOK'
    <3>. DEFINE s == [st[r] EXCEPT !.holdBars = @ + 1]
                reached == ~s.tp1Done /\ bar[r].last >= TP1(s)
                t == IF reached THEN AfterTP1(s) ELSE s
                qty == Part(s.qtyTotal, 4)
    <3>1. s \in StrategyState /\ bar[r] \in Bars \cup {NoBar}
      <4>1. st[r] \in StrategyState /\ st[r].holdBars + 1 \in Nat
        BY StateFields DEF TypeOK
      <4>. QED
        BY <4>1, HoldUpdate DEF TypeOK
    <3>2. qty \in Int /\ s.entryPrice \in Nat
      <4>. HIDE DEF s
      <4>1. s.qtyTotal \in Nat /\ s.entryPrice \in Nat
        BY <3>1, StateFields
      <4>. QED
        BY <4>1, PartType
    <3>3. (IF reached THEN [t EXCEPT !.qtyRemain = @ - qty] ELSE t) \in StrategyState
      <4>. HIDE DEF s, reached, qty
      <4>1. t \in StrategyState
        BY <3>1, <3>2, TP1Update DEF AfterTP1
      <4>. HIDE DEF t
      <4>2. t.qtyRemain - qty \in Int
        BY <4>1, <3>2, StateFields
      <4>. QED
        BY <4>1, <4>2, QtyUpdate
    <3>4. Rung(r, "tp2", reached, qty, t)
      BY <2>10 DEF TakeProfit1, Held
    <3>5. RunTypes'
      BY <3>3, <3>4, <2>t, ContinueType DEF Rung, PCs
    <3>6. soldQty' \in Int
      BY <3>2, <3>4 DEF Rung, TypeOK
    <3>. QED
      BY <3>4, <3>5, <3>6, <2>r DEF Rung, TypeOK, PCs, Procs
  <2>11. ASSUME NEW r \in Runners, TakeProfit2(r) PROVE TypeOK'
    <3>. DEFINE s == st[r]
                reached == ~s.tp2Done /\ bar[r].last >= TP2(s)
                t == IF reached THEN [s EXCEPT !.tp2Done = TRUE,
                                        !.trailStop = IF @ < TP1(s) THEN TP1(s) ELSE @]
                     ELSE s
                qty == Part(s.qtyTotal, 3)
    <3>1. s \in StrategyState /\ bar[r] \in Bars \cup {NoBar} /\ TP1(s) \in Nat
      BY StateFields DEF TypeOK, TP1
    <3>2. qty \in Int /\ s.entryPrice \in Nat
      <4>. HIDE DEF s
      <4>1. s.qtyTotal \in Nat /\ s.entryPrice \in Nat
        BY <3>1, StateFields
      <4>. QED
        BY <4>1, PartType
    <3>3. (IF reached THEN [t EXCEPT !.qtyRemain = @ - qty] ELSE t) \in StrategyState
      <4>. HIDE DEF s, reached, qty
      <4>1. s.trailStop \in Nat
        BY <3>1, StateFields
      <4>2. t \in StrategyState
        BY <3>1, <4>1, TP2Update
      <4>. HIDE DEF t
      <4>3. t.qtyRemain - qty \in Int
        BY <4>2, <3>2, StateFields
      <4>. QED
        BY <4>2, <4>3, QtyUpdate
    <3>4. Rung(r, "trail", reached, qty, t)
      BY <2>11 DEF TakeProfit2
    <3>5. RunTypes'
      BY <3>3, <3>4, <2>t, ContinueType DEF Rung, PCs
    <3>6. soldQty' \in Int
      BY <3>2, <3>4 DEF Rung, TypeOK
    <3>. QED
      BY <3>4, <3>5, <3>6, <2>r DEF Rung, TypeOK, PCs, Procs
  <2>12. ASSUME NEW r \in Runners, MoveStop(r) PROVE TypeOK'
    <3>1. [st[r] EXCEPT !.trailStop = Trail(st[r], bar[r])] \in StrategyState
      BY TrailType DEF TypeOK, StrategyState
    <3>2. RunTypes'
      BY <2>12, <2>t, <3>1, ContinueType DEF MoveStop, PCs
    <3>. QED
      BY <2>12, <3>2, <2>r DEF MoveStop, TypeOK, PCs, Procs
  <2>13. ASSUME NEW r \in Runners, CloseRows(r) PROVE TypeOK'
    <3>1. RunTypes'
      BY <2>13, <2>t, ContinueType DEF CloseRows, PCs, TypeOK
    <3>. QED
      BY <2>13, <3>1, <2>r DEF CloseRows, TypeOK, PCs, Procs
  <2>14. ASSUME NEW r \in Runners, SellRow(r) PROVE TypeOK'
    <3>1. AfterExit(st[r]) \in StrategyState
      BY ZeroStateType, StateFields, PauseUpdate DEF TypeOK, AfterExit
    <3>2. RunTypes'
      BY <2>14, <2>t, <3>1, ContinueType DEF SellRow, PCs
    <3>3. ExitPnL(r) \in Int
      BY ExitPnLType DEF TypeOK
    <3>. QED
      BY SMTT(40), <2>14, <3>2, <3>3, <2>r DEF SellRow, TypeOK, PCs, Procs
  <2>15. ASSUME NEW r \in Runners, Save(r) PROVE TypeOK'
    <3>1. RunTypes'
      BY <2>15, <2>t, EndRunType DEF Save, TypeOK
    <3>. QED
      BY <2>15, <3>1, <2>r DEF Save, TypeOK, PCs, Procs
  <2>16. ASSUME NEW r \in Runners, Fail(r) PROVE TypeOK'
    <3>1. RunTypes'
      BY <2>16, <2>t, EndRunType DEF Fail
    <3>. QED
      BY <2>16, <3>1, <2>r, PaperAssumption
      DEF Fail, TypeOK, PCs, Procs, PaperAssumption, ParametersAssumption
  <2>17. ASSUME NEW r \in Runners, Kill(r) PROVE TypeOK'
    BY <2>17, ZeroStateType, PaperAssumption
    DEF Kill, TypeOK, PaperAssumption, ParametersAssumption
  <2>18. CASE LoseKey
    BY <2>18, ZeroStateType, PaperAssumption
    DEF LoseKey, TypeOK, PaperAssumption, ParametersAssumption
  <2>19. CASE NewBar
    BY <2>19 DEF NewBar, TypeOK
  <2>20. CASE Tick
    <3>1. clock' \in 0..(TicksPerWeek - 1)
      <4>1. clock + 1 \in Int /\ TicksPerWeek \in Nat \ {0}
        BY PaperAssumption DEF TypeOK, PaperAssumption, ParametersAssumption
      <4>2. (clock + 1) % TicksPerWeek \in 0..(TicksPerWeek - 1)
        BY <4>1
      <4>. QED
        BY <2>20, <4>2 DEF Tick
    <3>2. redis' \in StrategyState
      <4>1. redis \in StrategyState /\ redis.pauseUntil \in 0..PauseTicks /\ PauseTicks \in Nat
        BY StateFields, PaperAssumption DEF TypeOK, PaperAssumption, ParametersAssumption
      <4>2. (IF redis.pauseUntil > 0 THEN redis.pauseUntil - 1 ELSE 0) \in 0..PauseTicks
        BY <4>1
      <4>. QED
        BY <2>20, <4>1, <4>2, PauseUpdate DEF Tick
    <3>3. due' \in [Runners -> BOOLEAN] /\ sinceGate' \in 0..PauseTicks
      <4>1. PauseTicks \in Nat /\ sinceGate \in 0..PauseTicks
        BY PaperAssumption DEF TypeOK, PaperAssumption, ParametersAssumption
      <4>2. sinceGate' \in 0..PauseTicks
        BY <2>20, <4>1 DEF Tick
      <4>3. \A r \in Runners : (due[r] \/ proc[r] = "loop") \in BOOLEAN
        OBVIOUS
      <4>. QED
        BY <2>20, <4>2, <4>3 DEF Tick, TypeOK
    <3>. QED
      BY SMTT(40), <2>20, <3>1, <3>2, <3>3 DEF Tick, TypeOK
  <2>21. CASE UNCHANGED vars
    BY <2>21 DEF vars, TypeOK
  <2>. QED
    BY <2>1, <2>2, <2>3, <2>4, <2>5, <2>6, <2>7, <2>8, <2>9, <2>10, <2>11, <2>12,
       <2>13, <2>14, <2>15, <2>16, <2>17, <2>18, <2>19, <2>20, <2>21 DEF Next, RunStep
<1>. QED
  BY <1>1, <1>2, PTL DEF Spec

-----------------------------------------------------------------------------
(* One runner.  BookInv adds to AtMostOneOpen and ExitBookedOnce what the    *)
(* run in progress knows: after Recover its state says whether the table     *)
(* holds a position, past RefreshRisk a state without a pause means the gate *)
(* was read open, and between CloseRows and SellRow one exit is owed.        *)

OneRunner == \A r, q \in Runners : r = q

RunKnows(r) ==
  /\ pc[r] \in {"risk", "act"} => (st[r].hasPosition <=> open # <<>>)
  /\ pc[r] \in {"tp2", "trail", "close"} => open # <<>>
  /\ pc[r] = "act" /\ st[r].pauseUntil = 0 => ~RiskGate
  /\ pc[r] = "sell" => exitRows < closedTrades

BookInv == /\ AtMostOneOpen /\ ExitBookedOnce
           /\ \A r \in Runners : RunKnows(r)

\* The only step that lengthens the list of open rows is Open, and it writes
\* one row: for the others this is what they do to the rows.
RowsKept == open' = open \/ open' = <<>>

LEMMA RiskGateKept ==
  ASSUME UNCHANGED <<dailyPnL, weeklyPnL, lossStreak>>
  PROVE  RiskGate' = RiskGate
BY DEF RiskGate

\* A step of the only runner r that leaves the rows alone keeps BookInv if it
\* keeps what r knows.
LEMMA RowsUntouched ==
  ASSUME OneRunner, BookInv, NEW r \in Runners,
         UNCHANGED <<open, exitRows, closedTrades>>, RunKnows(r)'
  PROVE  BookInv'
BY DEF OneRunner, BookInv, AtMostOneOpen, ExitBookedOnce

LEMMA BookInvInit == Init => BookInv
BY DEF Init, BookInv, AtMostOneOpen, ExitBookedOnce, RunKnows

LEMMA BookInvStep ==
  ASSUME OneRunner, TypeOK, BookInv, [Next]_vars
  PROVE  /\ BookInv'
         /\ RowsKept \/ ~RiskGate
<1>. USE DEF dbVars, procVars, runVars
<1>t. /\ open \in Seq(TradeRecord) /\ exitRows \in Nat /\ closedTrades \in Nat
      /\ pc \in [Runners -> PCs] /\ st \in [Runners -> StrategyState]
  BY DEF TypeOK, PCs
<1>i. ASSUME NEW r \in Runners, pc' = [pc EXCEPT ![r] = "idle"] PROVE RunKnows(r)'
  BY <1>i, <1>t DEF RunKnows
<1>1. ASSUME NEW r \in Runners, Start(r) \/ Sigterm(r) \/ Stop(r)
      PROVE  BookInv' /\ RowsKept
  <2>1. UNCHANGED <<open, exitRows, closedTrades, dailyPnL, weeklyPnL, lossStreak, pc, st>>
    BY <1>1 DEF Start, Sigterm, Stop
  <2>. QED
    BY <2>1 DEF BookInv, AtMostOneOpen, ExitBookedOnce, RunKnows, RiskGate, RowsKept
<1>2. ASSUME NEW r \in Runners, Load(r) PROVE BookInv' /\ RowsKept
  <2>1. RunKnows(r)'
    BY <1>2, <1>t DEF Load, RunKnows
  <2>. QED
    BY <1>2, <2>1, RowsUntouched DEF Load, RowsKept
<1>3. ASSUME NEW r \in Runners, Recover(r) PROVE BookInv' /\ RowsKept
  <2>1. /\ pc'[r] = "risk" /\ st'[r] = Recovered(st[r])
        /\ UNCHANGED <<open, exitRows, closedTrades>>
    BY <1>3, <1>t DEF Recover, Continue
  <2>2. Recovered(st[r]).hasPosition <=> open # <<>>
    <3>1. st[r] \in StrategyState
      BY <1>t
    <3>. QED
      BY <3>1 DEF Recovered, StrategyState
  <2>3. RunKnows(r)'
    BY <2>1, <2>2 DEF RunKnows
  <2>. QED
    BY <2>1, <2>3, RowsUntouched DEF RowsKept
<1>4. ASSUME NEW r \in Runners, RefreshRisk(r) PROVE BookInv' /\ RowsKept
  <2>1. /\ pc[r] = "risk" /\ pc'[r] = "act"
        /\ st'[r] = [st[r] EXCEPT !.pauseUntil = PauseAfter(st[r])]
        /\ UNCHANGED <<open, exitRows, closedTrades, dailyPnL, weeklyPnL, lossStreak>>
    BY <1>4, <1>t DEF RefreshRisk, Continue
  <2>2. /\ st'[r].hasPosition = st[r].hasPosition
        /\ RiskGate => st'[r].pauseUntil = PauseTicks
    BY <2>1, <1>t DEF StrategyState, PauseAfter
  <2>3. PauseTicks # 0
    BY PaperAssumption DEF PaperAssumption, ParametersAssumption
  <2>4. RunKnows(r)
    BY DEF BookInv
  <2>5. RunKnows(r)'
    BY <2>1, <2>2, <2>3, <2>4, RiskGateKept DEF RunKnows
  <2>. QED
    BY <2>1, <2>5, RowsUntouched DEF RowsKept
<1>5. ASSUME NEW r \in Runners, Paused(r) \/ NoEntry(r) \/ Save(r) \/ Fail(r) \/ Kill(r)
      PROVE  BookInv' /\ RowsKept
  <2>1. /\ pc'[r] \in {"save", "idle"}
        /\ UNCHANGED <<open, exitRows, closedTrades>>
    BY <1>5, <1>t DEF Paused, NoEntry, Save, Fail, Kill, Continue, EndRun
  <2>2. RunKnows(r)'
    BY <2>1 DEF RunKnows
  <2>. QED
    BY <2>1, <2>2, RowsUntouched DEF RowsKept
<1>6. ASSUME NEW r \in Runners, Open(r) PROVE BookInv' /\ ~RiskGate
  <2>1. RunKnows(r)
    BY DEF BookInv
  <2>2. ~RiskGate /\ open = <<>>
    BY <1>6, <2>1 DEF Open, RunKnows
  <2>3. pc'[r] = "save"
    BY <1>6, <1>t DEF Open, Continue
  <2>4. RunKnows(r)'
    BY <2>3 DEF RunKnows
  <2>5. Len(open') <= 1
    BY <1>6, <2>2 DEF Open
  <2>6. UNCHANGED <<exitRows, closedTrades>>
    BY <1>6 DEF Open
  <2>. QED
    BY <2>2, <2>4, <2>5, <2>6 DEF BookInv, AtMostOneOpen, ExitBookedOnce, OneRunner
<1>7. ASSUME NEW r \in Runners, TakeProfit1(r) \/ TakeProfit2(r) \/ MoveStop(r)
      PROVE  BookInv' /\ RowsKept
  <2>1. RunKnows(r)
    BY DEF BookInv
  <2>2. open # <<>>
    BY <1>7, <2>1 DEF TakeProfit1, Held, TakeProfit2, MoveStop, RunKnows
  <2>3. /\ pc'[r] \in {"tp2", "trail", "close", "save"}
        /\ UNCHANGED <<open, exitRows, closedTrades>>
    BY <1>7, <1>t DEF TakeProfit1, Held, TakeProfit2, MoveStop, Rung, Continue
  <2>4. RunKnows(r)'
    BY <2>2, <2>3 DEF RunKnows
  <2>. QED
    BY <2>3, <2>4, RowsUntouched DEF RowsKept
<1>8. ASSUME NEW r \in Runners, CloseRows(r) PROVE BookInv' /\ RowsKept
  <2>1. RunKnows(r)
    BY DEF BookInv
  <2>2. open # <<>> /\ Len(open) = 1
    <3>1. open # <<>>
      BY <1>8, <2>1 DEF CloseRows, RunKnows
    <3>2. Len(open) # 0
      BY <3>1, <1>t, EmptySeq
    <3>3. Len(open) \in Nat /\ Len(open) <= 1
      BY <1>t DEF BookInv, AtMostOneOpen
    <3>. QED
      BY <3>1, <3>2, <3>3
  <2>3. /\ open' = <<>> /\ closedTrades' = closedTrades + 1 /\ exitRows' = exitRows
        /\ pc'[r] = "sell"
    BY <1>8, <2>2, <1>t DEF CloseRows, Continue
  <2>4. exitRows' < closedTrades'
    BY <2>3, <1>t DEF BookInv, ExitBookedOnce
  <2>5. RunKnows(r)'
    BY <2>3, <2>4 DEF RunKnows
  <2>6. ExitBookedOnce'
    BY <2>3, <2>4, <1>t DEF ExitBookedOnce
  <2>. QED
    BY <2>3, <2>5, <2>6 DEF BookInv, AtMostOneOpen, OneRunner, RowsKept
<1>9. ASSUME NEW r \in Runners, SellRow(r) PROVE BookInv' /\ RowsKept
  <2>1. RunKnows(r)
    BY DEF BookInv
  <2>2. exitRows < closedTrades
    BY <1>9, <2>1 DEF SellRow, RunKnows
  <2>3. /\ open' = open /\ closedTrades' = closedTrades /\ exitRows' = exitRows + 1
        /\ pc'[r] = "save"
    BY <1>9, <1>t DEF SellRow, Continue
  <2>4. ExitBookedOnce'
    BY <2>2, <2>3, <1>t DEF ExitBookedOnce
  <2>5. RunKnows(r)'
    BY <2>3 DEF RunKnows
  <2>. QED
    BY <2>3, <2>4, <2>5 DEF BookInv, AtMostOneOpen, OneRunner, RowsKept
<1>10. CASE LoseKey \/ NewBar
  <2>1. UNCHANGED <<open, exitRows, closedTrades, dailyPnL, weeklyPnL, lossStreak, pc, st>>
    BY <1>10 DEF LoseKey, NewBar
  <2>. QED
    BY <2>1 DEF BookInv, AtMostOneOpen, ExitBookedOnce, RunKnows, RiskGate, RowsKept
<1>11. CASE Tick
  <2>1. /\ UNCHANGED <<open, exitRows, closedTrades, pc, st>>
        /\ \A r \in Runners : pc[r] = "idle"
    BY <1>11 DEF Tick, AllIdle
  <2>2. \A r \in Runners : RunKnows(r)'
    BY <2>1 DEF RunKnows
  <2>. QED
    BY <2>1, <2>2 DEF BookInv, AtMostOneOpen, ExitBookedOnce, RowsKept
<1>12. CASE UNCHANGED vars
  BY <1>12 DEF vars, BookInv, AtMostOneOpen, ExitBookedOnce, RunKnows, RiskGate, RowsKept
<1>. QED
  BY <1>1, <1>2, <1>3, <1>4, <1>5, <1>6, <1>7, <1>8, <1>9, <1>10, <1>11, <1>12
  DEF Next, RunStep

\* One runner never holds two positions, whatever fails: the open rows it reads
\* right before deciding are the guard, not the state in Redis.
THEOREM SinglePosition ==
  ASSUME OneRunner PROVE Spec => []AtMostOneOpen
<1>1. BookInv => AtMostOneOpen
  BY DEF BookInv
<1>2. TypeOK /\ BookInv /\ [Next]_vars => BookInv'
  BY BookInvStep
<1>. QED
  BY <1>1, <1>2, BookInvInit, TypeCorrect, PTL DEF Spec

\* One runner never writes two exit rows for a closed trade.
THEOREM SingleExit ==
  ASSUME OneRunner PROVE Spec => []ExitBookedOnce
<1>1. BookInv => ExitBookedOnce
  BY DEF BookInv
<1>2. TypeOK /\ BookInv /\ [Next]_vars => BookInv'
  BY BookInvStep
<1>. QED
  BY <1>1, <1>2, BookInvInit, TypeCorrect, PTL DEF Spec

\* One runner never buys beyond a loss limit, whatever Redis says about the
\* pause: the gate is recomputed from the rows in the run that buys.
THEOREM EntryIsGated ==
  ASSUME OneRunner PROVE Spec => GatedEntry
<1>1. ASSUME TypeOK, BookInv, [Next]_vars
      PROVE  [Len(open') > Len(open) => ~RiskGate]_vars
  <2>1. CASE RowsKept
    <3>1. Len(open') <= Len(open)
      BY <2>1 DEF RowsKept, TypeOK
    <3>2. Len(open) \in Nat /\ Len(open') \in Nat
      BY <2>1 DEF RowsKept, TypeOK
    <3>. QED
      BY <3>1, <3>2
  <2>. QED
    BY <1>1, <2>1, BookInvStep
<1>2. TypeOK /\ BookInv /\ [Next]_vars => BookInv'
  BY BookInvStep
<1>. QED
  BY <1>1, <1>2, BookInvInit, TypeCorrect, PTL DEF Spec, GatedEntry

-----------------------------------------------------------------------------
(* Up to the first fault.  Story says what the two stores tell at each step   *)
(* of the one run: Tells that a state describes the rows, Covers that its    *)
(* pause lasts as long as it must, Advances that it did not give up a stop.  *)

\* Without its first rung a position has the stop it was bought with, and from
\* then on it has a trail.
Rungs(s) == /\ s.tp2Done => s.tp1Done
            /\ s.tp1Done => s.trailStop > 0
            /\ ~s.tp1Done => s.trailStop \in {0, s.stopLoss}

Tells(s) == IF open = <<>> THEN ~s.hasPosition ELSE Describes(s, open[1]) /\ Rungs(s)

Covers(s) == PauseTicks - sinceGate <= s.pauseUntil

Advances(s, t) ==
  s.hasPosition /\ t.hasPosition =>
    /\ StopInForce(t) >= StopInForce(s)
    /\ (s.tp1Done => t.tp1Done) /\ (s.tp2Done => t.tp2Done)

RunStory(r) ==
  /\ ~stopping[r]
  /\ pc[r] \in {"recover", "risk", "act", "tp2", "trail", "save"} =>
       exitRows = closedTrades /\ Tells(st[r])
  /\ pc[r] \in {"recover", "risk"} => Covers(redis)
  /\ pc[r] = "tp2" => (bar[r].last >= TP1(st[r]) => st[r].tp1Done)
  /\ pc[r] = "close" => exitRows = closedTrades
  /\ pc[r] = "sell" => exitRows + 1 = closedTrades /\ open = <<>>
  /\ pc[r] # "idle" => Covers(st[r]) /\ Advances(redis, st[r])

Early == {"idle", "recover", "risk", "act"}

Story ==
  faults = 0 =>
    /\ open # <<>> => open[1].qty > 0 /\ open[1].stop > 0
    /\ (\A r \in Runners : pc[r] \in Early) => exitRows = closedTrades /\ Tells(redis)
    /\ AllIdle => Covers(redis)
    /\ \A r \in Runners : RunStory(r)

\* Two states that differ in the pause and in the bars held only.
SameStory(s, t) ==
  /\ t.hasPosition = s.hasPosition /\ t.entryPrice = s.entryPrice
  /\ t.stopLoss = s.stopLoss /\ t.qtyTotal = s.qtyTotal /\ t.qtyRemain = s.qtyRemain
  /\ t.riskPerUnit = s.riskPerUnit /\ t.trailStop = s.trailStop
  /\ t.tp1Done = s.tp1Done /\ t.tp2Done = s.tp2Done

LEMMA SameStoryTells ==
  ASSUME NEW s, NEW t, SameStory(s, t)
  PROVE  /\ Tells(s) => Tells(t)
         /\ \A q : Advances(q, s) => Advances(q, t)
         /\ \A q : Advances(s, q) => Advances(t, q)
         /\ Rungs(s) => Rungs(t)
BY DEF SameStory, Tells, Describes, Ladder, Rungs, Advances, StopInForce

LEMMA PauseSame ==
  ASSUME NEW s \in StrategyState, NEW v
  PROVE  /\ SameStory(s, [s EXCEPT !.pauseUntil = v])
         /\ [s EXCEPT !.pauseUntil = v].pauseUntil = v
BY DEF StrategyState, SameStory

LEMMA HeldSame ==
  ASSUME NEW s \in StrategyState
  PROVE  SameStory(s, Held(s)) /\ Held(s).pauseUntil = s.pauseUntil
BY DEF StrategyState, SameStory, Held

LEMMA AdvancesReflexive == ASSUME NEW s \in StrategyState PROVE Advances(s, s)
<1>1. StopInForce(s) \in Nat BY StateFields DEF StopInForce
<1>. QED BY <1>1 DEF Advances

\* What one step of the only run owes: the others are not there.
LEMMA OneRunStory ==
  ASSUME OneRunner, NEW r \in Runners, Story,
         UNCHANGED faults,
         faults = 0 =>
           /\ (open # <<>> => open[1].qty > 0 /\ open[1].stop > 0)'
           /\ (pc[r] \in Early => exitRows = closedTrades /\ Tells(redis))'
           /\ (pc[r] = "idle" => Covers(redis))'
           /\ RunStory(r)'
  PROVE  Story'
BY DEF OneRunner, Story, AllIdle

\* What the run r is entitled to before its step.
LEMMA StoryOf ==
  ASSUME OneRunner, TypeOK, BookInv, Story, faults = 0, NEW r \in Runners
  PROVE  /\ RunStory(r) /\ RunKnows(r) /\ ~stopping[r]
         /\ st[r] \in StrategyState /\ bar[r] \in Bars \cup {NoBar}
         /\ redis \in StrategyState
         /\ open # <<>> => /\ open[1].qty > 0 /\ open[1].stop > 0
                           /\ open[1] \in TradeRecord
         /\ pc[r] \in Early => exitRows = closedTrades /\ Tells(redis)
         /\ pc[r] = "idle" => Covers(redis)
<1>1. open # <<>> => open[1] \in TradeRecord BY DEF TypeOK
<1>. QED BY <1>1 DEF OneRunner, TypeOK, BookInv, Story, RunStory, AllIdle

LEMMA LoadStory ==
  ASSUME OneRunner, TypeOK, BookInv, Story, NEW r \in Runners,
         Load(r) \/ Recover(r) \/ RefreshRisk(r) \/ Paused(r) \/ NoEntry(r) \/ Save(r)
  PROVE  Story'
<1>. USE DEF dbVars, procVars, runVars
<1>t. /\ pc \in [Runners -> PCs] /\ st \in [Runners -> StrategyState]
      /\ stopping \in [Runners -> BOOLEAN] /\ sinceGate \in 0..PauseTicks
      /\ PauseTicks \in Nat /\ PauseTicks > 0
  BY PaperAssumption DEF TypeOK, PCs, PaperAssumption, ParametersAssumption
<1>1. UNCHANGED faults /\ UNCHANGED <<open, soldQty, closedTrades, exitRows, stopping>>
  BY DEF Load, Recover, RefreshRisk, Paused, NoEntry, Save, Continue, EndRun
<1>2. SUFFICES ASSUME faults = 0
      PROVE  /\ (pc[r] \in Early => exitRows = closedTrades /\ Tells(redis))'
             /\ (pc[r] = "idle" => Covers(redis))'
             /\ RunStory(r)'
  <2>1. faults = 0 => (open # <<>> => open[1].qty > 0 /\ open[1].stop > 0)'
    BY <1>1 DEF Story
  <2>. QED BY <1>1, <1>2, <2>1, OneRunStory
<1>3. /\ RunStory(r) /\ RunKnows(r) /\ ~stopping[r]
      /\ st[r] \in StrategyState /\ redis \in StrategyState
      /\ pc[r] \in Early => exitRows = closedTrades /\ Tells(redis)
      /\ pc[r] = "idle" => Covers(redis)
  BY <1>2, StoryOf
<1>4. \A s : Tells(s)' = Tells(s) BY <1>1 DEF Tells, Describes, Ladder, Rungs
<1>5. CASE Load(r)
  <2>1. /\ pc[r] = "idle" /\ pc'[r] = "recover" /\ st'[r] = redis
        /\ UNCHANGED <<redis, sinceGate>>
    BY <1>5, <1>t DEF Load
  <2>2. Advances(redis, redis) BY <1>3, AdvancesReflexive
  <2>3. Tells(redis) /\ Covers(redis) /\ exitRows = closedTrades
    BY <1>3, <2>1 DEF Early
  <2>. QED
    BY <1>1, <1>3, <1>4, <2>1, <2>2, <2>3
    DEF RunStory, Covers, Tells, Describes, Ladder, Rungs, Advances, StopInForce
<1>6. CASE Recover(r)
  <2>1. /\ pc[r] = "recover" /\ pc'[r] = "risk" /\ st'[r] = Recovered(st[r])
        /\ UNCHANGED <<redis, sinceGate>>
    BY <1>6, <1>t DEF Recover, Continue
  <2>2. /\ Tells(st[r]) /\ Tells(redis) /\ exitRows = closedTrades /\ Covers(redis)
        /\ Covers(st[r]) /\ Advances(redis, st[r])
    BY <1>3, <2>1 DEF RunStory, Early
  <2>3. /\ Tells(Recovered(st[r])) /\ Recovered(st[r]).pauseUntil = st[r].pauseUntil
        /\ Advances(redis, Recovered(st[r]))
    <3>1. CASE open = <<>>
      <4>1. Recovered(st[r]) = [st[r] EXCEPT !.hasPosition = FALSE]
        BY <3>1 DEF Recovered
      <4>2. /\ Recovered(st[r]).hasPosition = FALSE
            /\ Recovered(st[r]).pauseUntil = st[r].pauseUntil
        BY <1>3, <4>1 DEF StrategyState
      <4>. QED BY <3>1, <4>2 DEF Tells, Advances
    <3>2. CASE open # <<>>
      <4>1. st[r].hasPosition BY <2>2, <3>2 DEF Tells, Describes
      <4>2. Recovered(st[r]) = st[r] BY <3>2, <4>1 DEF Recovered
      <4>. QED BY <2>2, <4>2
    <3>. QED BY <3>1, <3>2
  <2>. HIDE DEF Recovered
  <2>. QED
    BY <1>1, <1>3, <1>4, <2>1, <2>2, <2>3
    DEF RunStory, Covers, Tells, Describes, Ladder, Rungs, Advances, StopInForce
<1>7. CASE RefreshRisk(r)
  <2>. DEFINE t == [st[r] EXCEPT !.pauseUntil = PauseAfter(st[r])]
  <2>1. /\ pc[r] = "risk" /\ pc'[r] = "act" /\ st'[r] = t
        /\ redis' = redis /\ sinceGate' = IF RiskGate THEN 0 ELSE sinceGate
    BY <1>7, <1>t DEF RefreshRisk, Continue
  <2>2. /\ Tells(st[r]) /\ Tells(redis) /\ exitRows = closedTrades
        /\ Covers(st[r]) /\ Advances(redis, st[r])
    BY <1>3, <2>1 DEF RunStory, Early
  <2>3. SameStory(st[r], t) /\ t.pauseUntil = PauseAfter(st[r]) BY <1>3, PauseSame
  <2>. HIDE DEF t
  <2>4. Tells(t) /\ Advances(redis, t) BY <2>2, <2>3, SameStoryTells
  <2>5. Covers(st[r])' BY <1>t, <2>1, <2>2, <2>3 DEF Covers, PauseAfter
  <2>. QED
    BY <1>1, <1>3, <1>4, <2>1, <2>2, <2>4, <2>5
    DEF RunStory, Covers, Tells, Describes, Ladder, Rungs, Advances, StopInForce, Early
<1>8. CASE Paused(r)
  <2>1. /\ pc[r] = "act" /\ pc'[r] = "save" /\ st'[r] = st[r]
        /\ UNCHANGED <<redis, sinceGate>>
    BY <1>8, <1>t DEF Paused, Continue
  <2>2. /\ Tells(st[r]) /\ exitRows = closedTrades
        /\ Covers(st[r]) /\ Advances(redis, st[r])
    BY <1>3, <2>1 DEF RunStory, Early
  <2>. QED
    BY <1>1, <1>3, <2>1, <2>2
    DEF RunStory, Covers, Tells, Describes, Ladder, Rungs, Advances, StopInForce, Early
<1>9. CASE NoEntry(r)
  <2>1. /\ pc[r] = "act" /\ pc'[r] = "idle" /\ st[r].pauseUntil = 0
        /\ UNCHANGED <<redis, sinceGate>>
    BY <1>9, <1>t DEF NoEntry, EndRun
  <2>2. /\ Tells(redis) /\ exitRows = closedTrades /\ Covers(st[r])
    BY <1>3, <2>1 DEF RunStory, Early
  <2>3. Covers(redis)
    <3>1. redis.pauseUntil \in 0..PauseTicks BY <1>3, StateFields
    <3>. QED BY <1>t, <2>1, <2>2, <3>1 DEF Covers
  <2>. QED
    BY <1>1, <1>3, <2>1, <2>2, <2>3
    DEF RunStory, Covers, Tells, Describes, Ladder, Rungs, Early
<1>10. CASE Save(r)
  <2>1. /\ pc[r] = "save" /\ pc'[r] = "idle" /\ redis' = st[r] /\ sinceGate' = sinceGate
    BY <1>3, <1>10, <1>t DEF Save, EndRun
  <2>2. Tells(st[r]) /\ exitRows = closedTrades /\ Covers(st[r])
    BY <1>3, <2>1 DEF RunStory
  <2>. QED
    BY <1>1, <1>3, <2>1, <2>2
    DEF RunStory, Covers, Tells, Describes, Ladder, Rungs, Early
<1>. QED BY <1>5, <1>6, <1>7, <1>8, <1>9, <1>10

LEMMA OpenStory ==
  ASSUME OneRunner, TypeOK, BookInv, Story, NEW r \in Runners, Open(r)
  PROVE  Story'
<1>. USE DEF dbVars, procVars, runVars
<1>t. /\ pc \in [Runners -> PCs] /\ st \in [Runners -> StrategyState]
  BY DEF TypeOK, PCs
<1>. DEFINE q == EntryQty(r)
            t == AfterOpen(r)
            row == [price |-> bar[r].last, stop |-> bar[r].stop, qty |-> q]
<1>1. /\ pc[r] = "act" /\ ~st[r].hasPosition /\ q > 0
      /\ open' = Append(open, row) /\ soldQty' = 0
      /\ pc'[r] = "save" /\ st'[r] = t
      /\ UNCHANGED <<redis, closedTrades, exitRows, faults, sinceGate, stopping>>
  BY <1>t DEF Open, Continue
<1>2. SUFFICES ASSUME faults = 0
      PROVE  /\ open'[1].qty > 0 /\ open'[1].stop > 0
             /\ RunStory(r)'
  BY <1>1, OneRunStory DEF Early
<1>3. /\ RunStory(r) /\ RunKnows(r) /\ ~stopping[r] /\ bar[r] \in Bars \cup {NoBar}
      /\ exitRows = closedTrades /\ Tells(redis)
  BY <1>1, <1>2, StoryOf DEF Early
<1>4. open = <<>> BY <1>1, <1>3 DEF RunKnows
<1>5. open' = <<row>> /\ open'[1] = row /\ open' # <<>> BY <1>1, <1>4
<1>6. /\ bar[r].stop # 0 /\ bar[r].stop \in Nat /\ bar[r].last \in Nat BY <1>1, <1>3, BarTypes DEF EntryQty
<1>7. q \in Int BY <1>3, EntryQtyType
<1>8. /\ t.hasPosition /\ t.entryPrice = bar[r].last /\ t.stopLoss = bar[r].stop
      /\ t.qtyTotal = q /\ t.qtyRemain = q /\ t.riskPerUnit = bar[r].last - bar[r].stop
      /\ ~t.tp1Done /\ ~t.tp2Done /\ t.trailStop = 0
      /\ t.pauseUntil = st[r].pauseUntil
  BY DEF AfterOpen, ZeroState
<1>. HIDE DEF q, t
<1>9. Tells(st[r])'
  BY <1>1, <1>5, <1>7, <1>8 DEF Tells, Describes, Ladder, Rungs
<1>10. Advances(redis, t) BY <1>3, <1>4 DEF Tells, Advances
<1>11. Covers(st[r])' BY <1>1, <1>3, <1>8 DEF RunStory, Covers
<1>12. RunStory(r)'
  BY <1>1, <1>3, <1>9, <1>10, <1>11
  DEF RunStory, Covers, Tells, Describes, Ladder, Rungs, Advances, StopInForce
<1>. QED BY <1>1, <1>5, <1>6, <1>12

LEMMA AdvancesOn ==
  ASSUME NEW a \in StrategyState, NEW b \in StrategyState, NEW c,
         Advances(a, b), b.hasPosition,
         StopInForce(c) \in Nat, StopInForce(c) >= StopInForce(b),
         b.tp1Done => c.tp1Done, b.tp2Done => c.tp2Done
  PROVE  Advances(a, c)
<1>1. StopInForce(a) \in Nat /\ StopInForce(b) \in Nat BY StateFields DEF StopInForce
<1>. QED BY <1>1 DEF Advances

\* The entry is above the stop in force as long as the first rung is not reached.
LEMMA BelowEntry ==
  ASSUME NEW s \in StrategyState, NEW t \in TradeRecord, Describes(s, t), Rungs(s),
         t.stop > 0
  PROVE  /\ s.entryPrice > 0 /\ s.stopLoss > 0 /\ s.riskPerUnit > 0
         /\ s.stopLoss < s.entryPrice
         /\ ~s.tp1Done => StopInForce(s) < s.entryPrice
         /\ ~s.tp1Done => StopInForce(s) = s.stopLoss
<1>1. /\ t.stop \in Nat /\ t.price \in Nat /\ t.stop < t.price BY DEF TradeRecord
<1>2. s.trailStop \in Nat BY StateFields
<1>. QED BY <1>1, <1>2 DEF Describes, Rungs, StopInForce

LEMMA RungStory ==
  ASSUME OneRunner, TypeOK, BookInv, Story, NEW r \in Runners,
         TakeProfit1(r) \/ TakeProfit2(r)
  PROVE  Story'
<1>. USE DEF dbVars, procVars, runVars
<1>t. /\ pc \in [Runners -> PCs] /\ st \in [Runners -> StrategyState] /\ soldQty \in Int
  BY DEF TypeOK, PCs
<1>. DEFINE row == open[1]
<1>1. UNCHANGED <<redis, open, closedTrades, exitRows, faults, sinceGate, stopping, bar>>
  BY DEF TakeProfit1, TakeProfit2, Rung, Continue
<1>2. pc'[r] \in {"tp2", "trail"}
  BY <1>t DEF TakeProfit1, TakeProfit2, Rung, Continue
<1>3. SUFFICES ASSUME faults = 0 PROVE RunStory(r)'
  <2>1. faults = 0 => (open # <<>> => open[1].qty > 0 /\ open[1].stop > 0)'
    BY <1>1 DEF Story
  <2>. QED BY <1>1, <1>2, <1>3, <2>1, OneRunStory DEF Early
<1>4. /\ RunStory(r) /\ RunKnows(r) /\ ~stopping[r] /\ bar[r] \in Bars \cup {NoBar}
      /\ st[r] \in StrategyState /\ redis \in StrategyState
      /\ open # <<>> => row.qty > 0 /\ row.stop > 0 /\ row \in TradeRecord
  BY <1>3, StoryOf
<1>5. open # <<>> /\ st[r].hasPosition
  <2>1. open # <<>> BY <1>4 DEF TakeProfit1, TakeProfit2, RunKnows
  <2>2. Tells(st[r]) BY <1>4 DEF TakeProfit1, TakeProfit2, RunStory
  <2>. QED BY <2>1, <2>2 DEF Tells, Describes
<1>6. row.stop > 0 /\ row \in TradeRecord /\ row.qty \in Nat BY <1>4, <1>5 DEF TradeRecord
<1>7. bar[r].last \in Nat BY <1>4, BarTypes
<1>. HIDE DEF row
<1>8. CASE TakeProfit1(r)
  <2>. DEFINE s == Held(st[r])
              reached == ~s.tp1Done /\ bar[r].last >= TP1(s)
              P == Part(s.qtyTotal, 4)
              u == [AfterTP1(s) EXCEPT !.qtyRemain = @ - P]
  <2>1. /\ exitRows = closedTrades /\ Tells(st[r]) /\ Covers(st[r])
        /\ Advances(redis, st[r])
    BY <1>4, <1>8 DEF TakeProfit1, RunStory
  <2>2. SameStory(st[r], s) /\ s.pauseUntil = st[r].pauseUntil BY <1>4, HeldSame
  <2>3. s \in StrategyState
    <3>1. st[r].holdBars + 1 \in Nat BY <1>4, StateFields
    <3>. QED BY <1>4, <3>1, HoldUpdate DEF Held
  <2>4. /\ pc'[r] = "tp2"
        /\ st'[r] = IF reached THEN u ELSE s
        /\ soldQty' = IF reached THEN soldQty + P ELSE soldQty
    BY <1>8, <1>t DEF TakeProfit1, Rung, Continue
  <2>. HIDE DEF s
  <2>5. Tells(s) /\ Advances(redis, s) /\ s.hasPosition
    BY <1>5, <2>1, <2>2, SameStoryTells DEF SameStory
  <2>6. Describes(s, row) /\ Rungs(s) BY <1>5, <2>5 DEF Tells, row
  <2>7. P \in Int /\ s.qtyRemain \in Int /\ s.entryPrice \in Nat
    BY <2>3, StateFields, PartType
  <2>8. P = Part(row.qty, 4) BY <2>6 DEF Describes
  <2>9. /\ u.hasPosition = s.hasPosition /\ u.entryPrice = s.entryPrice
        /\ u.stopLoss = s.stopLoss /\ u.qtyTotal = s.qtyTotal
        /\ u.qtyRemain = s.qtyRemain - P /\ u.riskPerUnit = s.riskPerUnit
        /\ u.tp1Done = TRUE /\ u.tp2Done = s.tp2Done /\ u.trailStop = s.entryPrice
        /\ u.pauseUntil = s.pauseUntil
    BY <2>3 DEF AfterTP1, StrategyState
  <2>. HIDE DEF u, P
  <2>10. CASE reached
    <3>1. st'[r] = u /\ soldQty' = soldQty + P BY <2>4, <2>10
    <3>2. Part(row.qty, 3) \in Int BY <1>6, PartType
    <3>3. /\ u.qtyRemain = row.qty - soldQty' /\ soldQty' = Ladder(row.qty, u)
      BY <1>t, <1>6, <2>6, <2>7, <2>8, <2>9, <2>10, <3>1, <3>2 DEF Describes, Ladder
    <3>4. Tells(st[r])'
      <4>1. u.trailStop > 0 BY <1>6, <2>3, <2>6, <2>9, BelowEntry
      <4>. QED
        BY <1>1, <1>5, <2>6, <2>9, <3>1, <3>3, <4>1 DEF Tells, Describes, Ladder, Rungs, row
    <3>5. StopInForce(u) = s.entryPrice /\ StopInForce(s) <= s.entryPrice
      <4>1. s.entryPrice > 0 /\ StopInForce(s) < s.entryPrice
        BY <1>6, <2>3, <2>6, <2>10, BelowEntry
      <4>2. StopInForce(s) \in Nat BY <2>3, StateFields DEF StopInForce
      <4>. QED BY <2>7, <2>9, <4>1, <4>2 DEF StopInForce
    <3>6. Advances(redis, u)
      BY <1>4, <2>3, <2>5, <2>7, <2>9, <3>5, AdvancesOn
    <3>7. Covers(st[r])' BY <1>1, <2>1, <2>2, <2>9, <3>1 DEF Covers
    <3>. QED
      BY <1>1, <1>4, <2>1, <2>4, <2>9, <3>1, <3>4, <3>6, <3>7
      DEF RunStory, Advances, StopInForce
  <2>11. CASE ~reached
    <3>1. st'[r] = s /\ soldQty' = soldQty BY <2>4, <2>11
    <3>2. Tells(st[r])'
      BY <1>1, <1>5, <2>6, <3>1 DEF Tells, Describes, Ladder, Rungs, row
    <3>3. Covers(st[r])' BY <1>1, <2>1, <2>2, <3>1 DEF Covers
    <3>4. bar[r].last >= TP1(s) => s.tp1Done BY <2>11
    <3>. QED
      BY <1>1, <1>4, <2>1, <2>4, <2>5, <3>1, <3>2, <3>3, <3>4
      DEF RunStory, Advances, StopInForce, TP1
  <2>. QED BY <2>10, <2>11
<1>9. CASE TakeProfit2(r)
  <2>. DEFINE s == st[r]
              reached == ~s.tp2Done /\ bar[r].last >= TP2(s)
              P == Part(s.qtyTotal, 3)
              e == IF s.trailStop < TP1(s) THEN TP1(s) ELSE s.trailStop
              u == [[s EXCEPT !.tp2Done = TRUE, !.trailStop = e]
                      EXCEPT !.qtyRemain = @ - P]
  <2>1. /\ exitRows = closedTrades /\ Tells(s) /\ Covers(s) /\ Advances(redis, s)
        /\ bar[r].last >= TP1(s) => s.tp1Done
        /\ s \in StrategyState /\ s.hasPosition
    BY <1>4, <1>5, <1>9 DEF TakeProfit2, RunStory
  <2>2. /\ pc'[r] = "trail"
        /\ st'[r] = IF reached THEN u ELSE s
        /\ soldQty' = IF reached THEN soldQty + P ELSE soldQty
    BY <1>9, <1>t DEF TakeProfit2, Rung, Continue
  <2>. HIDE DEF s
  <2>3. Describes(s, row) /\ Rungs(s) BY <1>5, <2>1 DEF Tells, row
  <2>4. /\ P \in Int /\ s.qtyRemain \in Int /\ s.entryPrice \in Nat /\ s.riskPerUnit \in Nat
        /\ s.trailStop \in Nat /\ s.stopLoss \in Nat
    BY <2>1, StateFields, PartType
  <2>5. P = Part(row.qty, 3) BY <2>3 DEF Describes
  <2>6. /\ u.hasPosition = s.hasPosition /\ u.entryPrice = s.entryPrice
        /\ u.stopLoss = s.stopLoss /\ u.qtyTotal = s.qtyTotal
        /\ u.qtyRemain = s.qtyRemain - P /\ u.riskPerUnit = s.riskPerUnit
        /\ u.tp1Done = s.tp1Done /\ u.tp2Done = TRUE /\ u.trailStop = e
        /\ u.pauseUntil = s.pauseUntil
    BY <2>1 DEF StrategyState
  <2>. HIDE DEF u, P
  <2>7. CASE reached
    <3>1. st'[r] = u /\ soldQty' = soldQty + P BY <2>2, <2>7
    <3>2. Part(row.qty, 4) \in Int BY <1>6, PartType
    <3>3. s.tp1Done BY <1>7, <2>1, <2>4, <2>7 DEF TP1, TP2
    <3>4. /\ u.qtyRemain = row.qty - soldQty' /\ soldQty' = Ladder(row.qty, u)
      BY <1>t, <1>6, <2>3, <2>4, <2>5, <2>6, <2>7, <3>1, <3>2 DEF Describes, Ladder
    <3>5. Tells(st[r])'
      <4>1. u.trailStop > 0 BY <2>3, <2>4, <2>6, <3>3 DEF Rungs, TP1
      <4>. QED
        BY <1>1, <1>5, <2>3, <2>6, <3>1, <3>3, <3>4, <4>1
        DEF Tells, Describes, Ladder, Rungs, row
    <3>6. StopInForce(u) \in Nat /\ StopInForce(s) <= StopInForce(u)
      <4>1. s.entryPrice > 0 /\ s.stopLoss < s.entryPrice
        BY <1>6, <2>1, <2>3, BelowEntry
      <4>. QED BY <2>4, <2>6, <4>1 DEF StopInForce, TP1
    <3>7. Advances(redis, u)
      <4>1. StopInForce(s) \in Nat BY <2>4 DEF StopInForce
      <4>2. StopInForce(u) >= StopInForce(s) BY <3>6, <4>1
      <4>. QED BY <1>4, <2>1, <2>6, <3>6, <4>2, AdvancesOn
    <3>8. Covers(st[r])' BY <1>1, <2>1, <2>6, <3>1 DEF Covers
    <3>. QED
      BY <1>1, <1>4, <2>1, <2>2, <3>1, <3>5, <3>7, <3>8
      DEF RunStory, Advances, StopInForce
  <2>8. CASE ~reached
    <3>1. st'[r] = s /\ soldQty' = soldQty BY <2>2, <2>8
    <3>2. Tells(st[r])'
      BY <1>1, <1>5, <2>3, <3>1 DEF Tells, Describes, Ladder, Rungs, row
    <3>3. Covers(st[r])' BY <1>1, <2>1, <3>1 DEF Covers
    <3>. QED
      BY <1>1, <1>4, <2>1, <2>2, <3>1, <3>2, <3>3
      DEF RunStory, Advances, StopInForce
  <2>. QED BY <2>7, <2>8
<1>. QED BY <1>8, <1>9

LEMMA TrailFacts ==
  ASSUME NEW s \in StrategyState, NEW b \in Bars \cup {NoBar}, s.stopLoss > 0, Rungs(s)
  PROVE  /\ Trail(s, b) > 0 /\ Trail(s, b) >= StopInForce(s)
         /\ ~s.tp1Done => Trail(s, b) = s.stopLoss
<1>1. /\ s.trailStop \in Nat /\ s.stopLoss \in Nat /\ b.atrTrail \in Nat
      /\ s.tp1Done \in BOOLEAN
  BY StateFields, BarTypes
<1>2. CASE s.tp1Done
  BY <1>1, <1>2 DEF Trail, StopInForce, Rungs
<1>3. CASE ~s.tp1Done
  <2>1. s.trailStop \in {0, s.stopLoss} BY <1>3 DEF Rungs
  <2>. QED BY <1>1, <1>3, <2>1 DEF Trail, StopInForce
<1>. QED BY <1>1, <1>2, <1>3

LEMMA MoveStopStory ==
  ASSUME OneRunner, TypeOK, BookInv, Story, NEW r \in Runners, MoveStop(r)
  PROVE  Story'
<1>. USE DEF dbVars, procVars, runVars
<1>. DEFINE s == st[r]
            e == Trail(s, bar[r])
            u == [s EXCEPT !.trailStop = e]
            row == open[1]
<1>1. /\ pc[r] = "trail" /\ pc'[r] \in {"close", "save"} /\ st'[r] = u
      /\ UNCHANGED <<redis, open, soldQty, closedTrades, exitRows, faults, sinceGate, stopping>>
  BY DEF MoveStop, Continue, TypeOK
<1>2. SUFFICES ASSUME faults = 0 PROVE RunStory(r)'
  <2>1. faults = 0 => (open # <<>> => open[1].qty > 0 /\ open[1].stop > 0)'
    BY <1>1 DEF Story
  <2>. QED BY <1>1, <1>2, <2>1, OneRunStory DEF Early
<1>3. /\ RunStory(r) /\ RunKnows(r) /\ ~stopping[r] /\ bar[r] \in Bars \cup {NoBar}
      /\ s \in StrategyState /\ redis \in StrategyState
      /\ open # <<>> => row.qty > 0 /\ row.stop > 0 /\ row \in TradeRecord
  BY <1>2, StoryOf
<1>4. /\ exitRows = closedTrades /\ Tells(s) /\ Covers(s) /\ Advances(redis, s)
      /\ open # <<>>
  BY <1>1, <1>3 DEF RunStory, RunKnows
<1>5. Describes(s, row) /\ Rungs(s) /\ s.hasPosition BY <1>4 DEF Tells, Describes
<1>6. s.stopLoss > 0 BY <1>3, <1>4, <1>5, BelowEntry
<1>7. /\ u.hasPosition = s.hasPosition /\ u.entryPrice = s.entryPrice
      /\ u.stopLoss = s.stopLoss /\ u.qtyTotal = s.qtyTotal
      /\ u.qtyRemain = s.qtyRemain /\ u.riskPerUnit = s.riskPerUnit
      /\ u.tp1Done = s.tp1Done /\ u.tp2Done = s.tp2Done /\ u.trailStop = e
      /\ u.pauseUntil = s.pauseUntil
  BY <1>3 DEF StrategyState
<1>8. e \in Nat BY <1>3, TrailType
<1>10. e > 0 /\ e >= StopInForce(s) /\ (~s.tp1Done => e = s.stopLoss)
  BY <1>3, <1>5, <1>6, TrailFacts
<1>. HIDE DEF s, e, u
<1>11. Rungs(u) BY <1>5, <1>7, <1>10 DEF Rungs
<1>12. Tells(st[r])'
  BY <1>1, <1>4, <1>5, <1>7, <1>11 DEF Tells, Describes, Ladder, Rungs
<1>13. StopInForce(u) = e BY <1>7, <1>10 DEF StopInForce
<1>14. Advances(redis, u)
  BY <1>3, <1>4, <1>5, <1>7, <1>8, <1>10, <1>13, AdvancesOn
<1>15. Covers(st[r])' BY <1>1, <1>4, <1>7 DEF Covers
<1>. QED
  BY <1>1, <1>3, <1>4, <1>12, <1>14, <1>15 DEF RunStory, Advances, StopInForce

LEMMA ExitStory ==
  ASSUME OneRunner, TypeOK, BookInv, Story, NEW r \in Runners,
         CloseRows(r) \/ SellRow(r)
  PROVE  Story'
<1>. USE DEF dbVars, procVars, runVars
<1>t. /\ pc \in [Runners -> PCs] /\ st \in [Runners -> StrategyState]
      /\ open \in Seq(TradeRecord) /\ closedTrades \in Nat /\ exitRows \in Nat
  BY DEF TypeOK, PCs
<1>1. /\ UNCHANGED <<redis, faults, sinceGate, stopping>>
      /\ open' = <<>> \/ open' = open
  BY DEF CloseRows, SellRow, Continue
<1>2. pc'[r] \in {"sell", "save"} BY <1>t DEF CloseRows, SellRow, Continue
<1>3. SUFFICES ASSUME faults = 0 PROVE RunStory(r)'
  <2>1. faults = 0 => (open # <<>> => open[1].qty > 0 /\ open[1].stop > 0)'
    BY <1>1 DEF Story
  <2>. QED BY <1>1, <1>2, <1>3, <2>1, OneRunStory DEF Early
<1>4. RunStory(r) /\ RunKnows(r) /\ ~stopping[r] BY <1>3, StoryOf
<1>5. CASE CloseRows(r)
  <2>1. /\ pc[r] = "close" /\ pc'[r] = "sell" /\ st'[r] = st[r]
        /\ open' = <<>> /\ closedTrades' = closedTrades + Len(open)
        /\ exitRows' = exitRows
    BY <1>5, <1>t DEF CloseRows, Continue
  <2>2. /\ open # <<>> /\ exitRows = closedTrades
        /\ Covers(st[r]) /\ Advances(redis, st[r])
    BY <1>4, <2>1 DEF RunStory, RunKnows
  <2>3. Len(open) = 1
    <3>1. Len(open) # 0 BY <1>t, <2>2, EmptySeq
    <3>2. Len(open) \in Nat /\ Len(open) <= 1 BY <1>t DEF BookInv, AtMostOneOpen
    <3>. QED BY <3>1, <3>2
  <2>4. exitRows' + 1 = closedTrades' BY <1>t, <2>1, <2>2, <2>3
  <2>. QED
    BY <1>1, <1>4, <2>1, <2>2, <2>4 DEF RunStory, Covers, Advances, StopInForce
<1>6. CASE SellRow(r)
  <2>. DEFINE u == AfterExit(st[r])
  <2>1. /\ pc[r] = "sell" /\ pc'[r] = "save" /\ st'[r] = u
        /\ open' = open /\ closedTrades' = closedTrades /\ exitRows' = exitRows + 1
    BY <1>6, <1>t DEF SellRow, Continue
  <2>2. open = <<>> /\ exitRows + 1 = closedTrades /\ Covers(st[r])
    BY <1>4, <2>1 DEF RunStory
  <2>3. ~u.hasPosition /\ u.pauseUntil = st[r].pauseUntil
    BY DEF AfterExit, ZeroState
  <2>. HIDE DEF u
  <2>4. Tells(st[r])' BY <2>1, <2>2, <2>3 DEF Tells
  <2>. QED
    BY <1>1, <1>4, <2>1, <2>2, <2>3, <2>4 DEF RunStory, Covers, Advances
<1>. QED BY <1>5, <1>6

LEMMA StoryInit == Init => Story
<1>. SUFFICES ASSUME Init PROVE Story OBVIOUS
<1>1. PauseTicks \in Nat BY PaperAssumption DEF PaperAssumption, ParametersAssumption
<1>. QED
  BY <1>1 DEF Init, Story, AllIdle, RunStory, Tells, Covers, ZeroState

LEMMA StoryStep ==
  ASSUME OneRunner, TypeOK, BookInv, Story, [Next]_vars
  PROVE  Story'
<1>. USE DEF dbVars, procVars, runVars
<1>1. ASSUME NEW r \in Runners, RunStep(r) PROVE Story'
  BY <1>1, LoadStory, OpenStory, RungStory, MoveStopStory, ExitStory DEF RunStep
<1>2. CASE \E r \in Runners : Sigterm(r) \/ Fail(r) \/ Kill(r)
  <2>1. faults' = faults + 1 BY <1>2 DEF Sigterm, Fail, Kill
  <2>2. faults \in 0..MaxFaults BY DEF TypeOK
  <2>3. faults' # 0 BY <2>1, <2>2
  <2>. QED BY <2>3 DEF Story
<1>3. CASE LoseKey
  <2>1. faults' = faults + 1 /\ faults \in 0..MaxFaults BY <1>3 DEF LoseKey, TypeOK
  <2>2. faults' # 0 BY <2>1
  <2>. QED BY <2>2 DEF Story
<1>4. CASE (\E r \in Runners : Start(r) \/ Stop(r)) \/ NewBar \/ UNCHANGED vars
  <2>1. /\ UNCHANGED <<redis, open, soldQty, closedTrades, exitRows, pc, st, bar, faults,
                       sinceGate>>
        /\ \A r \in Runners : stopping'[r] => stopping[r]
    BY <1>4 DEF Start, Stop, NewBar, vars, TypeOK
  <2>2. \A s : /\ Tells(s)' = Tells(s)
               /\ Covers(s)' = Covers(s)
    BY <2>1 DEF Tells, Describes, Ladder, Rungs, Covers
  <2>3. ASSUME faults = 0, NEW r \in Runners, RunStory(r) PROVE RunStory(r)'
    BY <2>1, <2>3
    DEF RunStory, Tells, Describes, Ladder, Rungs, Covers, Advances, StopInForce, TP1
  <2>. QED
    BY <2>1, <2>3 DEF Story, AllIdle, Tells, Describes, Ladder, Rungs, Covers
<1>5. CASE Tick
  <2>. DEFINE v == IF redis.pauseUntil > 0 THEN redis.pauseUntil - 1 ELSE 0
              t == [redis EXCEPT !.pauseUntil = v]
  <2>1. /\ AllIdle /\ redis' = t
        /\ sinceGate' = IF sinceGate < PauseTicks THEN sinceGate + 1 ELSE PauseTicks
        /\ UNCHANGED <<open, soldQty, closedTrades, exitRows, pc, faults, stopping>>
    BY <1>5 DEF Tick
  <2>2. SUFFICES ASSUME faults = 0 PROVE Story' BY <2>1 DEF Story
  <2>3. /\ Tells(redis) /\ Covers(redis) /\ exitRows = closedTrades
        /\ \A r \in Runners : ~stopping[r] /\ pc[r] = "idle"
    BY <2>1, <2>2 DEF Story, AllIdle, RunStory, Early
  <2>4. /\ redis \in StrategyState /\ redis.pauseUntil \in 0..PauseTicks
        /\ sinceGate \in 0..PauseTicks /\ PauseTicks \in Nat
    BY StateFields, PaperAssumption DEF TypeOK, PaperAssumption, ParametersAssumption
  <2>5. SameStory(redis, t) /\ t.pauseUntil = v BY <2>4, PauseSame
  <2>. HIDE DEF t
  <2>6. Tells(t) BY <2>3, <2>5, SameStoryTells
  <2>7. Tells(redis)' BY <2>1, <2>6 DEF Tells, Describes, Ladder, Rungs
  <2>8. Covers(redis)' BY <2>1, <2>3, <2>4, <2>5 DEF Covers
  <2>9. \A r \in Runners : RunStory(r)' BY <2>1, <2>3 DEF RunStory
  <2>. QED BY <2>1, <2>2, <2>3, <2>7, <2>8, <2>9 DEF Story
<1>. QED BY <1>1, <1>2, <1>3, <1>4, <1>5 DEF Next

LEMMA StoryAlways ==
  ASSUME OneRunner PROVE Spec => [](TypeOK /\ BookInv /\ Story)
<1>1. TypeOK /\ BookInv /\ [Next]_vars => BookInv' BY BookInvStep
<1>2. TypeOK /\ BookInv /\ Story /\ [Next]_vars => Story' BY StoryStep
<1>. QED BY <1>1, <1>2, BookInvInit, StoryInit, TypeCorrect, PTL DEF Spec

\* Until something fails, Redis and the trade table tell the same story between
\* the runs of one process, for any bars, risk figures and number of trades.
THEOREM StoresTellTheSame ==
  ASSUME OneRunner PROVE Spec => []StoresAgree
<1>1. Story => StoresAgree
  BY DEF Story, StoresAgree, AllIdle, Tells, Early
<1>. QED BY <1>1, StoryAlways, PTL

\* Until something fails, the stop saved for a position never moves down and its
\* rungs are never forgotten, whatever the bars show.
THEOREM StopsOnlyTighten ==
  ASSUME OneRunner PROVE Spec => StopNeverLoosens
<1>1. ASSUME TypeOK, BookInv, Story, [Next]_vars, faults' = 0,
             redis.hasPosition, redis'.hasPosition
      PROVE  /\ StopInForce(redis') >= StopInForce(redis)
             /\ redis.tp1Done => redis'.tp1Done
             /\ redis.tp2Done => redis'.tp2Done
  <2>. USE DEF dbVars, procVars, runVars
  <2>1. StopInForce(redis) \in Nat /\ redis \in StrategyState
    BY <1>1, StateFields DEF StopInForce, TypeOK
  <2>2. ASSUME NEW r \in Runners, Save(r) PROVE Advances(redis, redis')
    <3>1. faults = 0 /\ pc[r] = "save" BY <1>1, <2>2 DEF Save
    <3>2. RunStory(r) BY <1>1, <3>1 DEF Story
    <3>3. redis' = st[r] BY <2>2, <3>2 DEF Save, RunStory
    <3>. QED BY <3>1, <3>2, <3>3 DEF RunStory
  <2>3. ASSUME Tick PROVE Advances(redis, redis')
    <3>1. redis' = [redis EXCEPT !.pauseUntil = IF @ > 0 THEN @ - 1 ELSE 0]
      BY <2>3 DEF Tick
    <3>2. SameStory(redis, redis') BY <2>1, <3>1 DEF SameStory, StrategyState
    <3>3. Advances(redis, redis) BY <2>1, AdvancesReflexive
    <3>. QED BY <3>2, <3>3, SameStoryTells
  <2>4. CASE redis' = redis BY <2>1, <2>4
  <2>5. ~LoseKey
    <3>1. LoseKey => faults' = faults + 1 /\ faults \in 0..MaxFaults
      BY <1>1 DEF LoseKey, TypeOK
    <3>. QED BY <1>1, <3>1
  <2>6. redis' = redis \/ Tick \/ \E r \in Runners : Save(r)
    BY ZenonT(60), <1>1, <2>5
    DEF Next, RunStep, Start, Sigterm, Stop, Load, Recover, RefreshRisk, Paused, NoEntry,
        Open, TakeProfit1, TakeProfit2, Rung, MoveStop, CloseRows, SellRow, Fail, Kill,
        NewBar, vars
  <2>. QED BY <1>1, <2>2, <2>3, <2>4, <2>6 DEF Advances
<1>2. TypeOK /\ BookInv /\ Story /\ [Next]_vars =>
        [faults' = 0 /\ redis.hasPosition /\ redis'.hasPosition =>
           /\ StopInForce(redis') >= StopInForce(redis)
           /\ redis.tp1Done => redis'.tp1Done
           /\ redis.tp2Done => redis'.tp2Done]_vars
  BY <1>1
<1>. QED BY <1>2, StoryAlways, PTL DEF Spec, StopNeverLoosens

\* Until something fails, no run buys before a whole pause has passed since a run
\* last saw the gate closed, whatever the calendar resets meanwhile.
THEOREM PausesLast ==
  ASSUME OneRunner PROVE Spec => PauseLasts
<1>1. ASSUME TypeOK, BookInv, Story, [Next]_vars, faults = 0, Len(open') > Len(open)
      PROVE  sinceGate >= PauseTicks
  <2>1. open \in Seq(TradeRecord) /\ Len(open) \in Nat BY <1>1 DEF TypeOK
  <2>2. open' # open /\ open' # <<>> BY <1>1, <2>1
  <2>3. PICK r \in Runners : Open(r)
    BY ZenonT(60), <1>1, <2>2
    DEF Next, RunStep, Start, Sigterm, Stop, Load, Recover, RefreshRisk, Paused, NoEntry,
        TakeProfit1, TakeProfit2, Rung, MoveStop, CloseRows, SellRow, Fail, Kill, Save,
        NewBar, LoseKey, Tick, vars, dbVars
  <2>4. RunStory(r) /\ pc[r] = "act" /\ st[r].pauseUntil = 0
    BY <1>1, <2>3 DEF Story, Open
  <2>5. PauseTicks - sinceGate <= 0 BY <2>4 DEF RunStory, Covers
  <2>6. PauseTicks \in Nat /\ sinceGate \in 0..PauseTicks
    BY <1>1, PaperAssumption DEF TypeOK, PaperAssumption, ParametersAssumption
  <2>. QED BY <2>5, <2>6
<1>2. TypeOK /\ BookInv /\ Story /\ [Next]_vars =>
        [faults = 0 /\ Len(open') > Len(open) => sinceGate >= PauseTicks]_vars
  BY <1>1
<1>. QED BY <1>2, StoryAlways, PTL DEF Spec, PauseLasts

-----------------------------------------------------------------------------
(* The ladder. *)

Left == IF BookedQty = 0 THEN 0 ELSE BookedQty - soldQty

LEMMA LadderStep ==
  ASSUME OneRunner, TypeOK, BookInv, Story, [Next]_vars
  PROVE  [Position!Next]_(Position!vars)
<1>. USE DEF dbVars, procVars, runVars
<1>. SUFFICES ASSUME Next,
                     ~(UNCHANGED <<faults = 0, BookedQty, Left>>)
              PROVE  Position!Next
  BY DEF Position!vars, Left, vars, BookedQty
<1>t. /\ faults \in Nat /\ faults' \in {faults, faults + 1} /\ soldQty \in Int
      /\ open \in Seq(TradeRecord)
  <2>1. faults \in 0..MaxFaults /\ soldQty \in Int /\ open \in Seq(TradeRecord)
    BY DEF TypeOK
  <2>2. faults' \in {faults, faults + 1}
    BY ZenonT(60) DEF Next, RunStep, Start, Sigterm, Stop, Load, Recover, RefreshRisk, Paused,
       NoEntry, Open, TakeProfit1, TakeProfit2, Rung, MoveStop, CloseRows, SellRow, Save,
       Fail, Kill, LoseKey, NewBar, Tick
  <2>. QED BY <2>1, <2>2
<1>1. CASE faults' # 0
  <2>1. BookedQty' = 0 /\ Left' = 0 /\ (faults = 0)' = FALSE
    BY <1>t, <1>1 DEF BookedQty, Left
  <2>2. faults = 0
    <3>1. faults # 0 => BookedQty = 0 /\ Left = 0 BY <1>t DEF BookedQty, Left
    <3>. QED BY <1>1, <2>1, <3>1
  <2>. QED BY <2>1, <2>2 DEF Position!Next, Position!Lose, Left
<1>2. CASE faults' = 0
  <2>1. faults = 0 BY <1>t, <1>2
  <2>2. /\ BookedQty = IF open = <<>> THEN 0 ELSE open[1].qty
        /\ BookedQty' = IF open' = <<>> THEN 0 ELSE open'[1].qty
    BY <1>2, <2>1 DEF BookedQty
  <2>3. PICK r \in Runners : Open(r) \/ TakeProfit1(r) \/ TakeProfit2(r) \/ CloseRows(r)
    <3>1. ~UNCHANGED <<open, soldQty>>
      BY <1>2, <2>1 DEF BookedQty, Left
    <3>. QED
      BY ZenonT(60), <3>1
      DEF Next, RunStep, Start, Sigterm, Stop, Load, Recover, RefreshRisk, Paused,
          NoEntry, MoveStop, SellRow, Save, Fail, Kill, LoseKey, NewBar, Tick
  <2>4. /\ RunStory(r) /\ RunKnows(r) /\ st[r] \in StrategyState
        /\ bar[r] \in Bars \cup {NoBar}
        /\ open # <<>> => open[1].qty > 0 /\ open[1].stop > 0 /\ open[1] \in TradeRecord
    BY <2>1, StoryOf
  <2>5. CASE Open(r)
    <3>1. open = <<>> BY <2>4, <2>5 DEF Open, RunKnows
    <3>2. open'[1].qty = EntryQty(r) /\ open' # <<>> /\ soldQty' = 0
      BY <2>5, <3>1 DEF Open
    <3>3. EntryQty(r) \in Nat \ {0} BY <2>4, <2>5, EntryQtyType DEF Open
    <3>4. BookedQty = 0 /\ BookedQty' \in Nat \ {0} /\ Left' = BookedQty'
      BY <2>2, <3>1, <3>2, <3>3 DEF Left
    <3>. QED
      BY <1>2, <2>1, <3>4 DEF Position!Next, Position!Trade, Position!Buy, Left
  <2>6. CASE CloseRows(r)
    <3>1. open # <<>> /\ open' = <<>> BY <2>4, <2>6 DEF CloseRows, RunKnows
    <3>2. open[1].qty \in Nat BY <2>4, <3>1 DEF TradeRecord
    <3>3. BookedQty > 0 /\ BookedQty' = 0 /\ Left' = 0
      BY <2>2, <2>4, <3>1, <3>2 DEF Left
    <3>. QED BY <1>2, <2>1, <3>3 DEF Position!Next, Position!Exit, Left
  <2>7. CASE TakeProfit1(r) \/ TakeProfit2(r)
    <3>1. open # <<>> /\ open' = open
      BY <2>4, <2>7 DEF TakeProfit1, TakeProfit2, Rung, RunKnows
    <3>2. /\ open[1].qty \in Nat /\ open[1].qty > 0
      BY <2>4, <3>1 DEF TradeRecord
    <3>. DEFINE q == open[1].qty
    <3>3. /\ BookedQty = q /\ BookedQty' = q /\ q # 0
          /\ Left = q - soldQty /\ Left' = q - soldQty'
      BY <2>2, <3>1, <3>2 DEF Left
    <3>4. Tells(st[r]) BY <2>4, <2>7 DEF TakeProfit1, TakeProfit2, RunStory
    <3>5. /\ st[r].qtyTotal = q /\ soldQty = Ladder(q, st[r]) /\ Rungs(st[r])
      BY <3>1, <3>4 DEF Tells, Describes
    <3>6. Part(q, 4) \in Int /\ Part(q, 3) \in Int BY <3>2, PartType
    <3>7. soldQty' # soldQty
      BY <1>2, <2>1, <3>3
    <3>8. CASE TakeProfit1(r)
      <4>1. SameStory(st[r], Held(st[r])) BY <2>4, HeldSame
      <4>2. ~Held(st[r]).tp1Done /\ soldQty' = soldQty + Part(Held(st[r]).qtyTotal, 4)
        BY <3>7, <3>8 DEF TakeProfit1, Rung
      <4>3. ~st[r].tp1Done /\ soldQty' = soldQty + Part(q, 4)
        BY <3>5, <4>1, <4>2 DEF SameStory
      <4>4. soldQty = 0 BY <3>5, <4>3 DEF Ladder, Rungs
      <4>s. soldQty' = Part(q, 4) BY <3>6, <4>3, <4>4
      <4>b. q \in Nat /\ q > 0 BY <3>2
      <4>. HIDE DEF q
      <4>l. Left = q /\ Left' = q - Part(q, 4) BY <3>3, <4>b, <4>4, <4>s
      <4>5. Left = BookedQty /\ Left' = Left - Part(BookedQty, 4) /\ BookedQty > 0
        BY <3>3, <4>b, <4>l
      <4>. QED
        BY <1>2, <2>1, <3>3, <4>5 DEF Position!Next, Position!Trade, Position!Sell40, Left
    <3>9. CASE TakeProfit2(r)
      <4>1. /\ ~st[r].tp2Done /\ bar[r].last >= TP2(st[r])
            /\ soldQty' = soldQty + Part(q, 3)
        BY <3>5, <3>7, <3>9 DEF TakeProfit2, Rung
      <4>2. st[r].tp1Done
        <5>1. /\ bar[r].last \in Nat /\ st[r].entryPrice \in Nat
              /\ st[r].riskPerUnit \in Nat
          BY <2>4, BarTypes, StateFields
        <5>2. bar[r].last >= TP1(st[r]) BY <4>1, <5>1 DEF TP1, TP2
        <5>. QED BY <2>4, <3>9, <5>2 DEF RunStory, TakeProfit2
      <4>3. soldQty = Part(q, 4) BY <3>5, <3>6, <4>1, <4>2 DEF Ladder
      <4>s. soldQty' = Part(q, 4) + Part(q, 3) BY <4>1, <4>3
      <4>b. q \in Nat /\ q > 0 BY <3>2
      <4>. HIDE DEF q
      <4>l. Left = q - Part(q, 4) /\ Left' = q - (Part(q, 4) + Part(q, 3))
        BY <3>3, <4>3, <4>s
      <4>m. Left' = Left - Part(q, 3) BY <3>6, <4>b, <4>l
      <4>4. /\ Left = BookedQty - Part(BookedQty, 4) /\ Left' = Left - Part(BookedQty, 3)
            /\ BookedQty > 0
        BY <3>3, <4>b, <4>l, <4>m
      <4>. QED
        BY <1>2, <2>1, <3>3, <4>4 DEF Position!Next, Position!Trade, Position!Sell30, Left
    <3>. QED BY <2>7, <3>8, <3>9
  <2>. QED BY <2>3, <2>5, <2>6, <2>7
<1>. QED BY <1>1, <1>2

\* The rows of one process go through the ladder of PositionLadder up to the first
\* fault: 40% once, then 30% once, then everything that is left at once.  (That
\* the exit comes, the fairness of ImplementsLadder, is left to the run.)
THEOREM LadderFollowed ==
  ASSUME OneRunner PROVE Spec => Position!Init /\ [][Position!Next]_(Position!vars)
<1>1. Init => Position!Init BY DEF Init, Position!Init, BookedQty
<1>2. TypeOK /\ BookInv /\ Story /\ [Next]_vars => [Position!Next]_(Position!vars)
  BY LadderStep
<1>. QED BY <1>1, <1>2, StoryAlways, PTL DEF Spec
-----------------------------------------------------------------------------
(* Up to one fault.  One lost Save leaves either an open row that Redis does *)
(* not know or a position in Redis that the table has closed; Recover mends  *)
(* both.  OwnRun says that the next run never starts from a third thing.     *)

\* The state is about the open row.
Mine(s) == /\ s.entryPrice = open[1].price /\ s.stopLoss = open[1].stop
           /\ s.qtyTotal = open[1].qty

Own(s) == open # <<>> /\ s.hasPosition => Mine(s)

\* After Recover the state in hand holds a position exactly when the table does,
\* and it is that one.
InHand(s) == IF open = <<>> THEN ~s.hasPosition ELSE s.hasPosition /\ Mine(s)

\* A state that holds a position of the past can only be in Redis when no call
\* failed since: not before the first fault, and not under a run whose one fault
\* is the SIGTERM it received.
Fresh(r) == \/ pc[r] = "idle" /\ faults = 0
            \/ pc[r] \in {"recover", "risk", "act"} /\ (faults = 0 \/ stopping[r])

OwnRun(r) ==
  /\ stopping[r] => faults > 0
  /\ pc[r] = "recover" => Own(st[r])
  /\ pc[r] \in {"risk", "act", "tp2", "trail", "close", "save"} => InHand(st[r])
  /\ pc[r] = "sell" => open = <<>>
  /\ open = <<>> /\ Fresh(r) => ~redis.hasPosition
  /\ (faults = 0 \/ pc[r] # "save" \/ stopping[r]) => Own(redis)

OwnInv == faults <= 1 => \A r \in Runners : OwnRun(r)

LEMMA SameOwn ==
  ASSUME NEW s, NEW t, t.hasPosition = s.hasPosition, t.entryPrice = s.entryPrice,
         t.stopLoss = s.stopLoss, t.qtyTotal = s.qtyTotal
  PROVE  (Own(t) <=> Own(s)) /\ (InHand(t) <=> InHand(s))
BY DEF Own, InHand, Mine

LEMMA RecoveredInHand ==
  ASSUME open \in Seq(TradeRecord), NEW s \in StrategyState, Own(s)
  PROVE  InHand(Recovered(s))
<1>1. CASE open = <<>> BY <1>1 DEF InHand, Recovered, StrategyState
<1>2. CASE open # <<>> /\ s.hasPosition BY <1>2 DEF InHand, Own, Recovered
<1>3. CASE open # <<>> /\ ~s.hasPosition
  <2>. DEFINE t == Recovered(s)
  <2>1. t = [s EXCEPT !.hasPosition = TRUE, !.entryPrice = open[1].price,
                      !.stopLoss = open[1].stop, !.qtyTotal = open[1].qty,
                      !.qtyRemain = open[1].qty,
                      !.riskPerUnit = open[1].price - open[1].stop]
    BY <1>3 DEF Recovered
  <2>2. /\ t.hasPosition /\ t.entryPrice = open[1].price /\ t.stopLoss = open[1].stop
        /\ t.qtyTotal = open[1].qty
    BY <2>1 DEF StrategyState
  <2>. QED BY <1>3, <2>2 DEF InHand, Mine
<1>. QED BY <1>1, <1>2, <1>3

LEMMA OwnInit == Init => OwnInv
BY DEF Init, OwnInv, OwnRun, Own, Fresh, ZeroState

LEMMA OwnStep ==
  ASSUME OneRunner, TypeOK, BookInv, OwnInv, [Next]_vars
  PROVE  OwnInv'
<1>. USE DEF dbVars, procVars, runVars
<1>t. /\ pc \in [Runners -> PCs] /\ st \in [Runners -> StrategyState]
      /\ stopping \in [Runners -> BOOLEAN] /\ open \in Seq(TradeRecord)
      /\ redis \in StrategyState /\ faults \in Nat
  <2>1. faults \in 0..MaxFaults BY DEF TypeOK
  <2>. QED BY <2>1 DEF TypeOK, PCs
<1>f. faults' \in {faults, faults + 1}
  BY ZenonT(60) DEF Next, RunStep, Start, Sigterm, Stop, Load, Recover, RefreshRisk, Paused,
     NoEntry, Open, TakeProfit1, TakeProfit2, Rung, MoveStop, CloseRows, SellRow, Save,
     Fail, Kill, LoseKey, NewBar, Tick, vars
<1>s. SUFFICES ASSUME faults' <= 1, NEW r \in Runners PROVE OwnRun(r)'
  BY DEF OwnInv
<1>o. OwnRun(r) /\ RunKnows(r) /\ \A q \in Runners : q = r
  <2>1. faults <= 1 BY <1>t, <1>f, <1>s
  <2>. QED BY <2>1 DEF OwnInv, BookInv, OneRunner
<1>1. CASE Start(r) \/ Stop(r) \/ NewBar \/ UNCHANGED vars
  <2>1. /\ UNCHANGED <<redis, open, faults, pc, st>> /\ (stopping'[r] => stopping[r])
    BY <1>1, <1>t DEF Start, Stop, NewBar, vars
  <2>. QED BY <1>o, <2>1 DEF OwnRun, Own, InHand, Mine, Fresh
<1>2. CASE Sigterm(r)
  <2>1. /\ faults' = faults + 1 /\ UNCHANGED <<redis, open, pc, st>>
    BY <1>2 DEF Sigterm
  <2>2. faults = 0 /\ faults' > 0 BY <1>s, <1>t, <2>1
  <2>. QED BY <1>o, <2>1, <2>2 DEF OwnRun, Own, InHand, Mine, Fresh
<1>3. CASE Fail(r) \/ Kill(r)
  <2>1. /\ faults' = faults + 1 /\ pc'[r] = "idle" /\ UNCHANGED <<redis, open, stopping>>
    BY <1>3, <1>t DEF Fail, Kill, EndRun
  <2>2. faults = 0 /\ faults' > 0 BY <1>s, <1>t, <2>1
  <2>. QED BY <1>o, <2>1, <2>2 DEF OwnRun, Own, Mine, Fresh
<1>4. CASE LoseKey
  <2>1. /\ faults' = faults + 1 /\ redis' = ZeroState /\ UNCHANGED <<open, pc, st, stopping>>
    BY <1>4 DEF LoseKey
  <2>2. faults' > 0 /\ ~redis'.hasPosition BY <1>t, <2>1 DEF ZeroState
  <2>. QED BY <1>o, <2>1, <2>2 DEF OwnRun, Own, InHand, Mine, Fresh
<1>5. CASE Tick
  <2>1. /\ redis' = [redis EXCEPT !.pauseUntil = IF @ > 0 THEN @ - 1 ELSE 0]
        /\ UNCHANGED <<open, pc, st, stopping, faults>>
    BY <1>5 DEF Tick
  <2>2. SameStory(redis, redis') BY <1>t, <2>1 DEF SameStory, StrategyState
  <2>3. pc'[r] = "idle" BY <1>5 DEF Tick, AllIdle
  <2>. QED BY <1>o, <2>1, <2>2, <2>3 DEF OwnRun, Own, Mine, Fresh, SameStory
<1>6. CASE Load(r)
  <2>1. /\ pc[r] = "idle" /\ pc'[r] = "recover" /\ st'[r] = redis /\ ~stopping[r]
        /\ UNCHANGED <<redis, open, faults, stopping>>
    BY <1>6, <1>t DEF Load
  <2>. QED BY <1>o, <2>1 DEF OwnRun, Own, Mine, Fresh
<1>7. CASE Recover(r)
  <2>1. /\ pc[r] = "recover" /\ pc'[r] = "risk" /\ st'[r] = Recovered(st[r])
        /\ UNCHANGED <<redis, open, faults, stopping>>
    BY <1>7, <1>t DEF Recover, Continue
  <2>2. InHand(Recovered(st[r])) BY <1>o, <1>t, <2>1, RecoveredInHand DEF OwnRun
  <2>. HIDE DEF Recovered
  <2>. QED BY <1>o, <2>1, <2>2 DEF OwnRun, Own, InHand, Mine, Fresh
<1>8. CASE RefreshRisk(r)
  <2>. DEFINE t == [st[r] EXCEPT !.pauseUntil = PauseAfter(st[r])]
  <2>1. /\ pc[r] = "risk" /\ pc'[r] = "act" /\ st'[r] = t
        /\ UNCHANGED <<redis, open, faults, stopping>>
    BY <1>8, <1>t DEF RefreshRisk, Continue
  <2>2. SameStory(st[r], t) BY <1>t, PauseSame
  <2>. HIDE DEF t
  <2>3. InHand(t) BY <1>o, <2>1, <2>2, SameOwn DEF OwnRun, SameStory
  <2>. QED BY <1>o, <2>1, <2>3 DEF OwnRun, Own, InHand, Mine, Fresh
<1>9. CASE Paused(r)
  <2>1. /\ pc[r] = "act" /\ pc'[r] = "save" /\ st'[r] = st[r] /\ ~st[r].hasPosition
        /\ UNCHANGED <<redis, open, faults, stopping>>
    BY <1>9, <1>t DEF Paused, Continue
  <2>. QED BY <1>o, <2>1 DEF OwnRun, Own, InHand, Mine, Fresh
<1>10. CASE NoEntry(r)
  <2>1. /\ pc[r] = "act" /\ pc'[r] = "idle"
        /\ UNCHANGED <<redis, open, faults, stopping>>
    BY <1>10, <1>t DEF NoEntry, EndRun
  <2>. QED BY <1>o, <2>1 DEF OwnRun, Own, Mine, Fresh
<1>11. CASE Open(r)
  <2>. DEFINE t == AfterOpen(r)
              row == [price |-> bar[r].last, stop |-> bar[r].stop, qty |-> EntryQty(r)]
  <2>1. /\ pc[r] = "act" /\ pc'[r] = "save" /\ st'[r] = t /\ open' = Append(open, row)
        /\ ~st[r].hasPosition /\ UNCHANGED <<redis, faults, stopping>>
    BY <1>11, <1>t DEF Open, Continue
  <2>2. open = <<>> BY <1>o, <2>1 DEF RunKnows
  <2>3. open' = <<row>> /\ open'[1] = row /\ open' # <<>> BY <2>1, <2>2
  <2>4. /\ t.hasPosition /\ t.entryPrice = row.price /\ t.stopLoss = row.stop
        /\ t.qtyTotal = row.qty
    BY DEF AfterOpen, ZeroState
  <2>. HIDE DEF t, row
  <2>5. InHand(st[r])' BY <2>1, <2>3, <2>4 DEF InHand, Mine
  <2>6. faults = 0 \/ stopping[r] => ~redis.hasPosition
    BY <1>o, <2>1, <2>2 DEF OwnRun, Fresh
  <2>. QED BY <1>o, <2>1, <2>3, <2>5, <2>6 DEF OwnRun, Own, Fresh
<1>12. CASE TakeProfit1(r) \/ TakeProfit2(r) \/ MoveStop(r)
  <2>1. /\ pc[r] \in {"act", "tp2", "trail"} /\ pc'[r] \in {"tp2", "trail", "close", "save"}
        /\ UNCHANGED <<redis, open, faults, stopping>>
    BY <1>12, <1>t DEF TakeProfit1, TakeProfit2, MoveStop, Rung, Continue
  <2>2. open # <<>> BY <1>12, <1>o DEF TakeProfit1, TakeProfit2, MoveStop, RunKnows
  <2>3. InHand(st[r]) /\ Own(redis) BY <1>o, <2>1 DEF OwnRun
  <2>4. /\ st'[r].hasPosition = st[r].hasPosition
        /\ st'[r].entryPrice = st[r].entryPrice
        /\ st'[r].stopLoss = st[r].stopLoss
        /\ st'[r].qtyTotal = st[r].qtyTotal
    <3>1. CASE TakeProfit1(r)
      BY <1>t, <3>1 DEF TakeProfit1, Rung, Continue, Held, AfterTP1, StrategyState
    <3>2. CASE TakeProfit2(r)
      BY <1>t, <3>2 DEF TakeProfit2, Rung, Continue, StrategyState
    <3>3. CASE MoveStop(r)
      BY <1>t, <3>3 DEF MoveStop, Continue, StrategyState
    <3>. QED BY <1>12, <3>1, <3>2, <3>3
  <2>. QED BY <1>o, <2>1, <2>2, <2>3, <2>4 DEF OwnRun, Own, InHand, Mine, Fresh
<1>13. CASE CloseRows(r)
  <2>1. open' = <<>> /\ pc'[r] = "sell" /\ UNCHANGED <<redis, faults, stopping>>
    BY <1>13, <1>t DEF CloseRows, Continue
  <2>. QED BY <1>o, <2>1 DEF OwnRun, Own, Fresh
<1>14. CASE SellRow(r)
  <2>1. /\ pc[r] = "sell" /\ pc'[r] = "save" /\ st'[r] = AfterExit(st[r])
        /\ UNCHANGED <<redis, open, faults, stopping>>
    BY <1>14, <1>t DEF SellRow, Continue
  <2>2. ~AfterExit(st[r]).hasPosition BY DEF AfterExit, ZeroState
  <2>. QED BY <1>o, <2>1, <2>2 DEF OwnRun, Own, InHand, Fresh
<1>15. CASE Save(r)
  <2>1. /\ pc[r] = "save" /\ pc'[r] = "idle"
        /\ redis' = IF stopping[r] THEN redis ELSE st[r]
        /\ UNCHANGED <<open, faults, stopping>>
    BY <1>15, <1>t DEF Save, EndRun
  <2>2. InHand(st[r]) /\ (stopping[r] => faults # 0 /\ Own(redis))
    BY <1>o, <1>t, <2>1 DEF OwnRun
  <2>. QED BY <1>o, <2>1, <2>2 DEF OwnRun, Own, InHand, Mine, Fresh
<1>. QED
  BY <1>o, <1>1, <1>2, <1>3, <1>4, <1>5, <1>6, <1>7, <1>8, <1>9, <1>10, <1>11, <1>12,
     <1>13, <1>14, <1>15 DEF Next, RunStep

\* One lost write, lost key, kill or SIGTERM never makes a run manage a position
\* with the entry, stop or size of an earlier one.
THEOREM OneLossIsHarmless ==
  ASSUME OneRunner PROVE Spec => []ManagedByItsOwnState
<1>1. OwnInv => ManagedByItsOwnState
  BY DEF OwnInv, OwnRun, InHand, Mine, ManagedByItsOwnState
<1>2. TypeOK /\ BookInv /\ [Next]_vars => BookInv' BY BookInvStep
<1>3. TypeOK /\ BookInv /\ OwnInv /\ [Next]_vars => OwnInv' BY OwnStep
<1>. QED BY <1>1, <1>2, <1>3, BookInvInit, OwnInit, TypeCorrect, PTL DEF Spec
=============================================================================
