---------------------------- MODULE ReplayProofs ----------------------------
(***************************************************************************)
(* Proofs about ReplayRouter and Replay, for any bars, limits, calendar    *)
(* and profiles.  Every phase of a bar keeps the equity at the close of    *)
(* the bar, and every phase keeps the books: that carries the results on   *)
(* the routers.  Of the two legs the older loop adds: they add up, and a   *)
(* run of losses pauses.  Then the votes, which the regime follows, the    *)
(* trail of a position from bar to bar, and the sums that the gate reads.  *)
(***************************************************************************)
EXTENDS Replay, FiniteSetTheorems, TLAPS

-----------------------------------------------------------------------------
(* Numbers. *)

LEMMA PartInt == ASSUME NEW q \in Int, NEW n \in Nat PROVE Part(q, n) \in Int
  BY DEF Part

\* Two parts of 50% and 30% leave something of a positive rest.
LEMMA PartsLeave ==
  ASSUME NEW q \in Int, q > 0
  PROVE  /\ Part(q, 50) \in Nat /\ Part(q, 30) \in Nat
         /\ Part(q, 50) + Part(q, 30) < q
  BY DEF Part

LEMMA SignCases == \A s \in Sides : Sign(s) = 1 \/ Sign(s) = -1
  BY DEF Sign, Sides

LEMMA ConstantTypes ==
  /\ PauseBars \in Nat /\ CooldownBars \in Nat /\ MaxBars \in Nat
  /\ RiskAmount \in Nat /\ RiskCapital \in Nat /\ BearLeverage \in Nat
  /\ MinStay \in Nat /\ LossRun \in Nat
  BY RouterAssumption

LEMMA BarType ==
  ASSUME NEW b \in Bars
  PROVE  /\ b.close \in Nat /\ b.close > 0
         /\ \A s \in Sides : /\ b.trendStop[s] \in Nat /\ b.rangeStop[s] \in Nat
                             /\ b.atr[s] \in Nat /\ b.atr[s] > 0
                             /\ b.ema[s] \in Nat /\ b.ema[s] > 0
                             /\ b.farEdge[s] \in BOOLEAN
                             /\ b.trendStop[s] # 0 => Sign(s) * (b.close - b.trendStop[s]) > 0
                             /\ b.rangeStop[s] # 0 => Sign(s) * (b.close - b.rangeStop[s]) > 0
         /\ b.mid \in Nat
         /\ \A s \in Sides : ~Beyond(s, b.atr[s], b.close)
  <1>1. /\ b \in [close : Nat \ {0}, trendStop : [Sides -> Nat], rangeStop : [Sides -> Nat],
                  atr : [Sides -> Nat \ {0}], ema : [Sides -> Nat \ {0}],
                  mid : Nat, farEdge : [Sides -> BOOLEAN]]
        /\ b.atr["long"] < b.close /\ b.close < b.atr["short"]
        /\ \A s \in Sides : \A stop \in {b.trendStop[s], b.rangeStop[s]} :
             stop # 0 => Sign(s) * (b.close - stop) > 0
    BY RouterAssumption DEF BarsAssumption, BarReading
  <1>2. \A s \in Sides : ~Beyond(s, b.atr[s], b.close)
    BY <1>1 DEF Beyond, Sign, Sides
  <1>. QED BY <1>1, <1>2

-----------------------------------------------------------------------------
(* One position over one bar: its type and what it is worth. *)

\* What a phase may do to an open position.
Kept(s, p, q, at) ==
  /\ q \in Position /\ q.active
  /\ q.stop = p.stop
  /\ Worth(s, q, at) = Worth(s, p, at)

LEMMA GainInt ==
  ASSUME NEW s \in Sides, NEW p \in Position, NEW at \in Nat
  PROVE  /\ Gain(s, p, at) \in Int
         /\ ClosingPnL(s, p, at) \in Int
         /\ Worth(s, p, at) \in Int
  BY SignCases DEF Gain, ClosingPnL, Worth, Position

LEMMA SameWorth ==
  ASSUME NEW s, NEW p, NEW q, NEW at,
         q.active = p.active, q.entry = p.entry, q.remain = p.remain, q.realized = p.realized
  PROVE  Worth(s, q, at) = Worth(s, p, at)
  BY DEF Worth, ClosingPnL, Gain

\* The fields that a rung marks, the trail and the bars held are worth nothing.
LEMMA MarksKeep ==
  ASSUME NEW s, NEW p \in Position, p.active, NEW at, NEW v \in Nat
  PROVE  /\ Kept(s, p, [p EXCEPT !.tp1 = TRUE, !.trail = v], at)
         /\ Kept(s, p, [p EXCEPT !.tp2 = TRUE, !.trail = v], at)
         /\ Kept(s, p, [p EXCEPT !.tp1 = TRUE], at)
         /\ Kept(s, p, [p EXCEPT !.trail = v], at)
         /\ Kept(s, p, [p EXCEPT !.hold = v], at)
  <1>1. ASSUME NEW q \in Position, q.active = p.active, q.stop = p.stop,
               q.entry = p.entry, q.remain = p.remain, q.realized = p.realized
        PROVE  Kept(s, p, q, at)
    BY <1>1, SameWorth DEF Kept
  <1>2. Kept(s, p, [p EXCEPT !.tp1 = TRUE, !.trail = v], at)
    <2>. DEFINE q == [p EXCEPT !.tp1 = TRUE, !.trail = v]
    <2>1. /\ q \in Position /\ q.active = p.active /\ q.stop = p.stop
          /\ q.entry = p.entry /\ q.remain = p.remain /\ q.realized = p.realized
      BY DEF Position
    <2>. QED BY <1>1, <2>1
  <1>3. Kept(s, p, [p EXCEPT !.tp2 = TRUE, !.trail = v], at)
    <2>. DEFINE q == [p EXCEPT !.tp2 = TRUE, !.trail = v]
    <2>1. /\ q \in Position /\ q.active = p.active /\ q.stop = p.stop
          /\ q.entry = p.entry /\ q.remain = p.remain /\ q.realized = p.realized
      BY DEF Position
    <2>. QED BY <1>1, <2>1
  <1>4. Kept(s, p, [p EXCEPT !.tp1 = TRUE], at)
    <2>. DEFINE q == [p EXCEPT !.tp1 = TRUE]
    <2>1. /\ q \in Position /\ q.active = p.active /\ q.stop = p.stop
          /\ q.entry = p.entry /\ q.remain = p.remain /\ q.realized = p.realized
      BY DEF Position
    <2>. QED BY <1>1, <2>1
  <1>5. Kept(s, p, [p EXCEPT !.trail = v], at)
    <2>. DEFINE q == [p EXCEPT !.trail = v]
    <2>1. /\ q \in Position /\ q.active = p.active /\ q.stop = p.stop
          /\ q.entry = p.entry /\ q.remain = p.remain /\ q.realized = p.realized
      BY DEF Position
    <2>. QED BY <1>1, <2>1
  <1>6. Kept(s, p, [p EXCEPT !.hold = v], at)
    <2>. DEFINE q == [p EXCEPT !.hold = v]
    <2>1. /\ q \in Position /\ q.active = p.active /\ q.stop = p.stop
          /\ q.entry = p.entry /\ q.remain = p.remain /\ q.realized = p.realized
      BY DEF Position
    <2>. QED BY <1>1, <2>1
  <1>. QED BY <1>2, <1>3, <1>4, <1>5, <1>6

LEMMA KeptTrans ==
  ASSUME NEW s, NEW p, NEW q, NEW r, NEW at, Kept(s, p, q, at), Kept(s, q, r, at)
  PROVE  Kept(s, p, r, at)
  BY DEF Kept

\* A sale at the price of the bar only moves value from the rest to the realized part.
LEMMA SellKeeps ==
  ASSUME NEW s \in Sides, NEW p \in Position, p.active, NEW at \in Nat, NEW q \in Int
  PROVE  Kept(s, p, Sell(s, p, at, q), at)
  <1>. DEFINE g == Gain(s, p, at)
              v == p.remain - q
              w == p.realized + g * q
              r == [p EXCEPT !.remain = v, !.realized = w]
  <1>1. g \in Int BY GainInt
  <1>2. v \in Int /\ w \in Int BY <1>1 DEF Position
  <1>3. Sell(s, p, at, q) = r BY Zenon DEF Sell
  <1>4. w + g * v = p.realized + g * p.remain
    <2>1. p.remain \in Int /\ p.realized \in Int BY DEF Position
    <2>. HIDE DEF g
    <2>. QED BY <1>1, <2>1
  <1>. HIDE DEF g, v, w
  <1>5. /\ r \in Position /\ r.active /\ r.stop = p.stop /\ r.entry = p.entry
        /\ r.remain = v /\ r.realized = w
    BY <1>2 DEF Position
  <1>6. Gain(s, r, at) = g BY <1>5 DEF Gain, g
  <1>. HIDE DEF r
  <1>7. Worth(s, r, at) = w + g * v BY <1>5, <1>6 DEF Worth, ClosingPnL
  <1>8. Worth(s, p, at) = p.realized + g * p.remain BY DEF Worth, ClosingPnL, g
  <1>. QED BY <1>3, <1>4, <1>5, <1>7, <1>8 DEF Kept

LEMMA Rung1Keeps ==
  ASSUME NEW s \in Sides, NEW p \in Position, p.active, NEW at \in Nat, NEW n \in Nat
  PROVE  Kept(s, p, Rung1(s, p, at, n), at)
  <1>. DEFINE q == Part(p.qty, n)
              r == Sell(s, p, at, q)
  <1>1. q \in Int /\ p.entry \in Nat BY PartInt DEF Position
  <1>2. Kept(s, p, r, at) BY <1>1, SellKeeps
  <1>3. r \in Position /\ r.active BY <1>2 DEF Kept
  <1>4. Rung1(s, p, at, n) = p \/ Rung1(s, p, at, n) = [r EXCEPT !.tp1 = TRUE, !.trail = p.entry]
    BY Zenon DEF Rung1
  <1>. HIDE DEF q, r
  <1>5. Kept(s, r, [r EXCEPT !.tp1 = TRUE, !.trail = p.entry], at) BY <1>1, <1>3, MarksKeep
  <1>6. Kept(s, p, p, at) BY DEF Kept
  <1>. QED BY <1>2, <1>4, <1>5, <1>6, KeptTrans, Zenon

\* A short only reaches its second rung when the first lies above the price.
LEMMA Rung2Keeps ==
  ASSUME NEW s \in Sides, NEW p \in Position, p.active, NEW at \in Nat, NEW n \in Nat
  PROVE  Kept(s, p, Rung2(s, p, at, n), at)
  <1>. DEFINE q == Part(p.qty, n)
              r == Sell(s, p, at, q)
              level == p.entry + Sign(s) * p.risk
              trail == IF r.trail = 0 \/ Beyond(s, level, r.trail) THEN level ELSE r.trail
              end == [r EXCEPT !.tp2 = TRUE, !.trail = trail]
  <1>1. q \in Int /\ p.entry \in Nat /\ p.risk \in Nat BY PartInt DEF Position
  <1>2. Kept(s, p, r, at) BY <1>1, SellKeeps
  <1>3. r \in Position /\ r.active /\ r.trail \in Nat BY <1>2 DEF Kept, Position
  <1>4. \/ Rung2(s, p, at, n) = p
        \/ /\ Rung2(s, p, at, n) = end
           /\ Beyond(s, at, level + Sign(s) * p.risk)
    BY Zenon DEF Rung2
  <1>5. Kept(s, p, p, at) BY DEF Kept
  <1>6. ASSUME Beyond(s, at, level + Sign(s) * p.risk) PROVE level \in Nat
    BY <1>1, <1>6 DEF Beyond, Sign
  <1>7. ASSUME level \in Nat PROVE trail \in Nat BY <1>3, <1>7
  <1>. HIDE DEF q, r, level, trail
  <1>8. ASSUME trail \in Nat PROVE Kept(s, r, end, at) BY <1>3, <1>8, MarksKeep
  <1>. HIDE DEF end
  <1>. QED BY <1>2, <1>4, <1>5, <1>6, <1>7, <1>8, KeptTrans, Zenon

LEMMA AgedKeeps ==
  ASSUME NEW s, NEW p \in Position, p.active, NEW at
  PROVE  Kept(s, p, Aged(p), at)
  <1>1. p.hold + 1 \in Nat BY DEF Position
  <1>. QED BY <1>1, MarksKeep DEF Aged

\* Every step of the four routers keeps an open position and its worth.
LEMMA StepKeeps ==
  ASSUME NEW s \in Sides, NEW p \in Position, p.active, NEW b \in Bars
  PROVE  Kept(s, p, Step(s, p, b).pos, b.close)
  <1>. DEFINE a == Aged(p)
  <1>1. Kept(s, p, a, b.close) /\ a \in Position /\ a.active BY AgedKeeps DEF Kept
  <1>2. b.close \in Nat /\ b.ema[s] \in Nat BY BarType
  <1>. HIDE DEF a
  <1>3. Kept(s, p, StepLadder(s, p, b).pos, b.close)
    <2>. DEFINE x == Rung1(s, a, b.close, 40)
                y == Rung2(s, x, b.close, 30)
    <2>1. Kept(s, a, x, b.close) BY <1>1, <1>2, Rung1Keeps
    <2>2. x \in Position /\ x.active BY <2>1 DEF Kept
    <2>3. StepLadder(s, p, b).pos = y BY DEF StepLadder, Stepped, a
    <2>. HIDE DEF x
    <2>4. Kept(s, x, y, b.close) BY <1>2, <2>2, Rung2Keeps
    <2>. HIDE DEF y
    <2>. QED BY <1>1, <2>1, <2>3, <2>4, KeptTrans, Zenon
  <1>4. Kept(s, p, StepTrail(s, p, b).pos, b.close)
    <2>. DEFINE x == Rung1(s, a, b.close, 25)
                trail == InForce(x, Tighter(s, x.trail, b.ema[s]))
                y == [x EXCEPT !.trail = trail]
    <2>1. Kept(s, a, x, b.close) BY <1>1, <1>2, Rung1Keeps
    <2>2. x \in Position /\ x.active BY <2>1 DEF Kept
    <2>3. trail \in Nat
      <3>1. x.trail \in Nat /\ x.stop \in Nat BY <2>2 DEF Position
      <3>. HIDE DEF x
      <3>. QED BY <1>2, <3>1 DEF InForce, Tighter
    <2>4. StepTrail(s, p, b).pos = y BY DEF StepTrail, Stepped, a
    <2>. HIDE DEF x, trail
    <2>5. Kept(s, x, y, b.close) BY <2>2, <2>3, MarksKeep
    <2>. HIDE DEF y
    <2>. QED BY <1>1, <2>1, <2>4, <2>5, KeptTrans, Zenon
  <1>5. ASSUME NEW inRange PROVE Kept(s, p, StepRange(s, p, b, inRange).pos, b.close)
    <2>. DEFINE q == Part(a.qty, 60)
                x == Sell(s, a, b.close, q)
                y == [x EXCEPT !.tp1 = TRUE]
    <2>1. q \in Int BY <1>1, PartInt DEF Position
    <2>2. Kept(s, a, x, b.close) BY <1>1, <1>2, <2>1, SellKeeps
    <2>3. x \in Position /\ x.active BY <2>2 DEF Kept
    <2>4. StepRange(s, p, b, inRange).pos = a \/ StepRange(s, p, b, inRange).pos = y
      BY DEF StepRange, Stepped, a
    <2>. HIDE DEF q, x
    <2>5. Kept(s, x, y, b.close) BY <2>3, MarksKeep
    <2>. HIDE DEF y
    <2>. QED BY <1>1, <2>2, <2>4, <2>5, KeptTrans, Zenon
  <1>. QED BY <1>3, <1>4, <1>5 DEF Step

\* The switch take-profit of v6 never empties a position, since the close is
\* never beyond the ATR trail, and moves what it sold into the net figure.
LEMMA SwitchKeeps ==
  ASSUME NEW s \in Sides, NEW p \in Position, p.active, NEW b \in Bars
  PROVE  LET t == SwitchTakeProfit(s, p, b)
         IN  /\ t.pos \in Position /\ t.pos.active /\ t.pos.stop = p.stop
             /\ t.pnl \in Int
             /\ Worth(s, t.pos, b.close) + t.pnl = Worth(s, p, b.close)
  <1>. DEFINE t == SwitchTakeProfit(s, p, b)
              sold == Part(p.remain, 50) + Part(p.remain, 30)
              v == p.remain - sold
              r == [p EXCEPT !.remain = v]
              g == Gain(s, p, b.close)
  <1>1. /\ b.close \in Nat /\ b.atr[s] # 0 /\ ~Beyond(s, b.atr[s], b.close)
        /\ g \in Int /\ p.remain \in Int /\ p.realized \in Int
    BY BarType, GainInt DEF Position
  <1>2. CASE p.remain <= 0
    <2>1. t.pos = p /\ t.pnl = 0 BY <1>2 DEF SwitchTakeProfit
    <2>2. Worth(s, p, b.close) \in Int BY <1>1, GainInt
    <2>. QED BY <2>1, <2>2
  <1>3. CASE p.remain > 0
    <2>1. sold \in Nat /\ sold < p.remain BY <1>1, <1>3, PartsLeave
    <2>2. v \in Int BY <1>1, <2>1
    <2>3. t = [pos |-> IF sold + 0 = p.remain THEN NoPosition ELSE [p EXCEPT !.remain = p.remain - (sold + 0)],
               pnl |-> g * (sold + 0)]
      BY <1>1, <1>3 DEF SwitchTakeProfit
    <2>4. t.pos = r /\ t.pnl = g * sold
      <3>1. sold + 0 = sold BY <2>1
      <3>. HIDE DEF sold, t
      <3>. QED BY <2>1, <2>3, <3>1
    <2>. HIDE DEF sold, t, v, g
    <2>5. /\ r \in Position /\ r.active /\ r.stop = p.stop /\ r.entry = p.entry
          /\ r.remain = v /\ r.realized = p.realized
      BY <2>2 DEF Position
    <2>6. Gain(s, r, b.close) = g BY <2>5 DEF Gain, g
    <2>. HIDE DEF r
    <2>7. Worth(s, r, b.close) = p.realized + g * v BY <2>5, <2>6 DEF Worth, ClosingPnL
    <2>8. Worth(s, p, b.close) = p.realized + g * p.remain BY DEF Worth, ClosingPnL, g
    <2>9. (p.realized + g * v) + g * sold = p.realized + g * p.remain /\ g * sold \in Int
      BY <1>1, <2>1 DEF v
    <2>. QED BY <2>4, <2>5, <2>7, <2>8, <2>9 DEF t
  <1>. QED BY <1>1, <1>2, <1>3

-----------------------------------------------------------------------------
(* The books over the phases of one bar. *)

\* One position at most, and every opened one is open or counted.
Sound(k) ==
  /\ k \in Book
  /\ ~k.pos["long"].active \/ ~k.pos["short"].active
  /\ k.opened = k.trades + (IF Flat(k) THEN 0 ELSE 1)

\* What every phase but the entry does: no equity appears or is lost, and no
\* position is opened or changes its stop.
Through(k, r, at) ==
  /\ Sound(r)
  /\ Equity(r, at) = Equity(k, at)
  /\ \A s \in Sides : r.pos[s].active => k.pos[s].active /\ r.pos[s].stop = k.pos[s].stop

LEMMA BookFields ==
  ASSUME NEW k \in Book
  PROVE  /\ k.pos \in [Sides -> Position] /\ k.net \in Int
         /\ k.trades \in Nat /\ k.opened \in Nat
         /\ k.day \in [Days -> Int] /\ k.week \in [Weeks -> Int]
         /\ k.wins \in Nat /\ k.losses \in Nat
         /\ k.pause \in 0..PauseBars /\ k.cooldown \in 0..CooldownBars
         /\ k.entries \in [Weeks -> Nat]
  BY DEF Book

LEMMA NoPositionType == NoPosition \in Position /\ ~NoPosition.active
  BY DEF NoPosition, Position

\* A book whose positions, figure and counters do not move.
LEMMA SamePositions ==
  ASSUME NEW k, NEW r, NEW at, Sound(k), r \in Book,
         r.pos = k.pos, r.net = k.net, r.trades = k.trades, r.opened = k.opened
  PROVE  Through(k, r, at)
  BY DEF Sound, Through, Equity, Flat

\* Another position on one side, and its value in or out of the net figure.
LEMMA OneSideMoves ==
  ASSUME NEW k, NEW r, NEW at \in Nat, NEW s \in Sides, NEW p \in Position, Sound(k), r \in Book,
         k.pos[s].active, r.pos = [k.pos EXCEPT ![s] = p],
         r.net + Worth(s, p, at) = k.net + Worth(s, k.pos[s], at),
         r.opened = k.opened,
         p.active => r.trades = k.trades /\ p.stop = k.pos[s].stop,
         ~p.active => r.trades = k.trades + 1
  PROVE  Through(k, r, at)
  <1>. DEFINE o == IF s = "long" THEN "short" ELSE "long"
  <1>1. /\ o \in Sides /\ o # s /\ Sides = {s, o} /\ Sides = {"long", "short"}
        /\ (s = "long" /\ o = "short") \/ (s = "short" /\ o = "long")
    BY DEF Sides
  <1>2. k.pos \in [Sides -> Position] /\ k.net \in Int /\ r.net \in Int
        /\ k.trades \in Nat /\ k.opened \in Nat
    BY BookFields DEF Sound
  <1>. HIDE DEF o
  <1>3. r.pos[s] = p /\ r.pos[o] = k.pos[o] /\ k.pos[o] \in Position /\ k.pos[s] \in Position
    BY <1>1, <1>2
  <1>4. ~k.pos[o].active BY <1>1 DEF Sound
  <1>5. ~Flat(k) /\ (Flat(r) <=> ~p.active)
    BY <1>1, <1>3, <1>4 DEF Flat
  <1>6. Sound(r)
    <2>1. k.opened = k.trades + 1 BY <1>5 DEF Sound
    <2>2. CASE p.active
      <3>1. r.opened = r.trades + (IF Flat(r) THEN 0 ELSE 1) BY <1>5, <2>1, <2>2
      <3>. QED BY <1>1, <1>3, <1>4, <3>1 DEF Sound
    <2>3. CASE ~p.active
      <3>1. r.opened = r.trades + (IF Flat(r) THEN 0 ELSE 1) BY <1>2, <1>5, <2>1, <2>3
      <3>. QED BY <1>1, <1>3, <1>4, <2>3, <3>1 DEF Sound
    <2>. QED BY <2>2, <2>3
  <1>7. Equity(r, at) = Equity(k, at)
    <2>1. /\ Worth(s, p, at) \in Int /\ Worth(s, k.pos[s], at) \in Int
          /\ Worth(o, k.pos[o], at) \in Int
      BY <1>1, <1>3, GainInt
    <2>2. /\ Equity(r, at) = r.net + Worth(s, r.pos[s], at) + Worth(o, r.pos[o], at)
          /\ Equity(k, at) = k.net + Worth(s, k.pos[s], at) + Worth(o, k.pos[o], at)
      <3>1. \A q \in {k, r} : /\ q.pos[s] \in Position /\ q.pos[o] \in Position
                              /\ q.net \in Int
        BY <1>2, <1>3
      <3>2. \A q \in {k, r} : Worth(s, q.pos[s], at) \in Int /\ Worth(o, q.pos[o], at) \in Int
        BY <1>1, <3>1, GainInt
      <3>. QED BY <1>1, <3>1, <3>2 DEF Equity
    <2>. QED BY <1>2, <1>3, <2>1, <2>2
  <1>8. \A x \in Sides : r.pos[x].active => k.pos[x].active /\ r.pos[x].stop = k.pos[x].stop
    BY <1>1, <1>3
  <1>. QED BY <1>6, <1>7, <1>8 DEF Through

LEMMA ThroughTrans ==
  ASSUME NEW k, NEW q, NEW r, NEW at, Through(k, q, at), Through(q, r, at)
  PROVE  Through(k, r, at)
  BY DEF Through

\* A trade is closed at what it is worth.
LEMMA ClosedThrough ==
  ASSUME NEW k, NEW s \in Sides, NEW at \in Nat, NEW pnl \in Int, Sound(k),
         k.pos[s].active, pnl = Worth(s, k.pos[s], at)
  PROVE  Through(k, Closed(k, s, pnl), at)
  <1>. DEFINE pos == [k.pos EXCEPT ![s] = NoPosition]
              n == k.net + pnl
              t == k.trades + 1
              r == [k EXCEPT !.pos = pos, !.net = n, !.trades = t]
  <1>1. k \in Book BY DEF Sound
  <1>2. pos \in [Sides -> Position] /\ n \in Int /\ t \in Nat
    BY <1>1, BookFields, NoPositionType
  <1>3. Closed(k, s, pnl) = r BY Zenon DEF Closed
  <1>4. Worth(s, NoPosition, at) = 0 BY NoPositionType DEF Worth
  <1>. HIDE DEF pos, n, t
  <1>5. r \in Book /\ r.pos = pos /\ r.net = n /\ r.trades = t /\ r.opened = k.opened
    BY <1>1, <1>2 DEF Book
  <1>. HIDE DEF r
  <1>6. r.net + Worth(s, NoPosition, at) = k.net + Worth(s, k.pos[s], at)
    BY <1>1, <1>2, <1>4, <1>5, BookFields DEF n
  <1>7. r.pos = [k.pos EXCEPT ![s] = NoPosition] BY <1>5 DEF pos
  <1>8. r.trades = k.trades + 1 BY <1>5 DEF t
  <1>9. Through(k, r, at)
    BY <1>5, <1>6, <1>7, <1>8, NoPositionType, OneSideMoves
  <1>. QED BY <1>3, <1>9

LEMMA BookedThrough ==
  ASSUME NEW k, NEW pnl \in Int, NEW at, Sound(k), time \in 0..MaxBars
  PROVE  Through(k, Booked(k, pnl), at)
  <1>. DEFINE d == Added(k.day, DayOf[time], pnl)
              w == Added(k.week, WeekOf[time], pnl)
              r == [k EXCEPT !.day = d, !.week = w]
  <1>1. k \in Book BY DEF Sound
  <1>2. DayOf[time] \in Days /\ WeekOf[time] \in Weeks BY DEF Days, Weeks
  <1>3. d \in [Days -> Int] /\ w \in [Weeks -> Int] BY <1>1, <1>2, BookFields DEF Added
  <1>4. Booked(k, pnl) = r BY Zenon DEF Booked
  <1>. HIDE DEF d, w
  <1>5. r \in Book /\ r.pos = k.pos /\ r.net = k.net /\ r.trades = k.trades /\ r.opened = k.opened
    BY <1>1, <1>3 DEF Book
  <1>. HIDE DEF r
  <1>. QED BY <1>4, <1>5, SamePositions

LEMMA ScoredThrough ==
  ASSUME NEW k, NEW pnl \in Int, NEW mayPause \in BOOLEAN, NEW at, Sound(k)
  PROVE  Through(k, Scored(k, pnl, mayPause), at)
  <1>. DEFINE third == pnl < 0 /\ mayPause /\ k.losses + 1 >= LossRun
              a == IF pnl > 0 THEN k.wins + 1 ELSE k.wins
              l == IF pnl > 0 \/ third THEN 0 ELSE IF pnl < 0 THEN k.losses + 1 ELSE k.losses
              z == IF third THEN PauseBars ELSE k.pause
              r == [k EXCEPT !.wins = a, !.losses = l, !.pause = z]
  <1>1. k \in Book BY DEF Sound
  <1>2. a \in Nat /\ l \in Nat /\ z \in 0..PauseBars
    BY <1>1, BookFields, ConstantTypes
  <1>3. Scored(k, pnl, mayPause) = r BY Zenon DEF Scored
  <1>. HIDE DEF a, l, z
  <1>4. r \in Book /\ r.pos = k.pos /\ r.net = k.net /\ r.trades = k.trades /\ r.opened = k.opened
    BY <1>1, <1>2 DEF Book
  <1>. HIDE DEF r
  <1>. QED BY <1>3, <1>4, SamePositions

LEMMA WaitedThrough ==
  ASSUME NEW k, NEW at, Sound(k)
  PROVE  Through(k, Waited(k), at)
  <1>. DEFINE z == Less(k.pause)
              c == Less(k.cooldown)
              r == [k EXCEPT !.pause = z, !.cooldown = c]
  <1>1. k \in Book BY DEF Sound
  <1>2. z \in 0..PauseBars /\ c \in 0..CooldownBars
    BY <1>1, BookFields, ConstantTypes DEF Less
  <1>3. Waited(k) = r BY Zenon DEF Waited
  <1>. HIDE DEF z, c
  <1>4. r \in Book /\ r.pos = k.pos /\ r.net = k.net /\ r.trades = k.trades /\ r.opened = k.opened
    BY <1>1, <1>2 DEF Book
  <1>. HIDE DEF r
  <1>. QED BY <1>3, <1>4, SamePositions

\* A position that the regime lets stand.
Allowed(p) ==
  /\ profile \in {"v7", "v8"} => router.regime # "RANGE"
  /\ profile = "v9" /\ p.stop = 0 => router.regime = "RANGE"

LEMMA SwitchThrough ==
  ASSUME NEW k, NEW s \in Sides, NEW b \in Bars, Sound(k), k.pos[s].active
  PROVE  Through(k, SwitchExit(k, s, b), b.close)
  <1>. DEFINE p == k.pos[s]
              t == SwitchTakeProfit(s, p, b)
              q == t.pos
              pos == [k.pos EXCEPT ![s] = q]
              n == k.net + t.pnl
              r == [k EXCEPT !.net = n, !.pos = pos]
              pnl == ClosingPnL(s, p, b.close)
              c == Closed(k, s, pnl)
  <1>1. k \in Book /\ b.close \in Nat BY BarType DEF Sound
  <1>2. p \in Position /\ p.active /\ k.net \in Int /\ k.pos \in [Sides -> Position]
    BY <1>1, BookFields
  <1>3. /\ q \in Position /\ q.active /\ q.stop = p.stop /\ t.pnl \in Int
        /\ Worth(s, q, b.close) + t.pnl = Worth(s, p, b.close)
        /\ Worth(s, q, b.close) \in Int
    <2>. HIDE DEF p
    <2>1. /\ q \in Position /\ q.active /\ q.stop = p.stop /\ t.pnl \in Int
          /\ Worth(s, q, b.close) + t.pnl = Worth(s, p, b.close)
      BY <1>2, SwitchKeeps
    <2>. QED BY <1>1, <2>1, GainInt
  <1>4. pnl \in Int /\ pnl = Worth(s, p, b.close) BY <1>1, <1>2, GainInt DEF Worth
  <1>5. Through(k, r, b.close)
    <2>1. pos \in [Sides -> Position] /\ n \in Int BY <1>2, <1>3
    <2>2. n + Worth(s, q, b.close) = k.net + Worth(s, p, b.close)
      <3>. HIDE DEF t, p
      <3>. QED BY <1>2, <1>3
    <2>. HIDE DEF pos, n
    <2>3. /\ r \in Book /\ r.pos = pos /\ r.net = n /\ r.trades = k.trades
          /\ r.opened = k.opened
      BY <1>1, <2>1 DEF Book
    <2>. HIDE DEF r
    <2>4. r.pos = [k.pos EXCEPT ![s] = q] BY <2>3 DEF pos
    <2>. HIDE DEF q
    <2>. QED BY <1>1, <1>2, <1>3, <2>2, <2>3, <2>4, OneSideMoves
  <1>6. Through(k, Scored(c, pnl, FALSE), b.close)
    <2>1. Through(k, c, b.close) BY <1>1, <1>4, ClosedThrough
    <2>. HIDE DEF c, pnl
    <2>2. Sound(c) BY <2>1 DEF Through
    <2>3. Through(c, Scored(c, pnl, FALSE), b.close) BY <1>4, <2>2, ScoredThrough
    <2>. QED BY <2>1, <2>3, ThroughTrans
  <1>7. Through(k, k, b.close) BY <1>1, SamePositions
  <1>8. SwitchExit(k, s, b) \in {k, r, Scored(c, pnl, FALSE)}
    BY DEF SwitchExit
  <1>. HIDE DEF r, c, pnl
  <1>. QED BY <1>5, <1>6, <1>7, <1>8

\* What the regime exits leave open is allowed.
LEMMA RegimeExitThrough ==
  ASSUME NEW k, NEW s \in Sides, NEW b \in Bars, Sound(k),
         profile \in {"v6", "v7", "v8", "v9"}, time \in 0..MaxBars
  PROVE  LET r == RegimeExit(k, s, b)
         IN  /\ Through(k, r, b.close)
             /\ r.pos[s].active => Allowed(r.pos[s])
  <1>. DEFINE p == k.pos[s]
              pnl == ClosingPnL(s, p, b.close)
              c == Closed(k, s, pnl)
              r == RegimeExit(k, s, b)
  <1>1. k \in Book /\ b.close \in Nat BY BarType DEF Sound
  <1>2. p \in Position /\ k.pos \in [Sides -> Position] BY <1>1, BookFields
  <1>3. Through(k, k, b.close) BY <1>1, SamePositions
  <1>4. CASE ~p.active
    <2>1. r = k BY <1>4 DEF RegimeExit
    <2>. QED BY <1>3, <1>4, <2>1
  <1>5. CASE p.active /\ profile = "v6"
    <2>1. r = SwitchExit(k, s, b) BY <1>5 DEF RegimeExit
    <2>2. Through(k, r, b.close) BY <1>5, <2>1, SwitchThrough
    <2>. QED BY <1>5, <2>2 DEF Allowed
  <1>6. CASE p.active /\ profile # "v6" /\ ~MustLeave(p)
    <2>1. r = k BY <1>6 DEF RegimeExit
    <2>2. Allowed(p) BY <1>6 DEF MustLeave, Allowed
    <2>. QED BY <1>3, <2>1, <2>2
  <1>7. CASE p.active /\ profile # "v6" /\ MustLeave(p)
    <2>1. r \in {c, Booked(c, pnl)} BY <1>7 DEF RegimeExit
    <2>2. pnl \in Int /\ pnl = Worth(s, p, b.close) BY <1>1, <1>2, <1>7, GainInt DEF Worth
    <2>3. Through(k, c, b.close) BY <1>1, <1>7, <2>2, ClosedThrough
    <2>4. ~c.pos[s].active
      <3>1. c.pos = [k.pos EXCEPT ![s] = NoPosition] BY <1>1 DEF Closed, Book
      <3>. QED BY <1>2, <3>1, NoPositionType
    <2>. HIDE DEF c, pnl
    <2>5. Sound(c) BY <2>3 DEF Through
    <2>6. Through(c, Booked(c, pnl), b.close) BY <2>2, <2>5, BookedThrough
    <2>7. Through(c, c, b.close) BY <2>5, SamePositions DEF Sound
    <2>. HIDE DEF r
    <2>8. Through(c, r, b.close) BY <2>1, <2>6, <2>7
    <2>9. ~r.pos[s].active BY <2>4, <2>8 DEF Through
    <2>10. Through(k, r, b.close) BY <2>3, <2>8, ThroughTrans
    <2>. QED BY <2>9, <2>10 DEF r
  <1>. QED BY <1>4, <1>5, <1>6, <1>7

LEMMA QuotientType ==
  ASSUME NEW a \in Nat, NEW n \in Nat, n > 0
  PROVE  a \div n \in Int
  OBVIOUS

\* A new position is worth nothing at its entry.
LEMMA OpenedType ==
  ASSUME NEW s \in Sides, NEW entry \in Nat, NEW stop \in Nat, NEW inRange \in BOOLEAN,
         Sign(s) * (entry - stop) > 0, entry > 0, Opened(s, entry, stop, inRange).qty > 0
  PROVE  LET p == Opened(s, entry, stop, inRange)
         IN  /\ p \in Position /\ p.active
             /\ p.stop = (IF inRange THEN 0 ELSE stop)
             /\ Worth(s, p, entry) = 0
  <1>. DEFINE p == Opened(s, entry, stop, inRange)
              l == IF inRange THEN 0 ELSE stop
              v == IF inRange THEN stop ELSE 0
              risk == Sign(s) * (entry - stop)
              q == PlanQty(s, entry, stop)
  <1>1. l \in Nat /\ v \in Nat OBVIOUS
  <1>2. risk \in Nat /\ risk > 0 BY DEF Sign
  <1>3. q \in Int
    <2>. DEFINE lever == IF s = "long" THEN 1 ELSE BearLeverage
                n == RiskAmount \div risk
                cap == RiskCapital * lever
    <2>1. lever \in Nat /\ cap \in Nat BY ConstantTypes
    <2>2. n \in Int BY <1>2, ConstantTypes, QuotientType
    <2>3. cap \div entry \in Int BY <2>1, QuotientType
    <2>4. \/ q = 0 \/ q = cap \div entry \/ q = n * lever BY DEF PlanQty
    <2>. HIDE DEF lever, n, cap, q
    <2>. QED BY <2>1, <2>2, <2>3, <2>4
  <1>. HIDE DEF l, v, risk, q
  <1>4. p = [active |-> TRUE, entry |-> entry, stop |-> l, risk |-> risk, qty |-> q,
             remain |-> q, tp1 |-> FALSE, tp2 |-> FALSE, trail |-> v, realized |-> 0,
             hold |-> 0]
    BY DEF Opened, l, v, risk, q
  <1>5. q \in Nat BY <1>3, <1>4
  <1>6. /\ p \in Position /\ p.active /\ p.stop = l
        /\ p.entry = entry /\ p.realized = 0 /\ p.remain = q
    <2>. HIDE DEF p
    <2>. QED BY <1>1, <1>2, <1>4, <1>5 DEF Position
  <1>. HIDE DEF p
  <1>7. Gain(s, p, entry) = 0
    <2>1. entry - p.entry = 0 BY <1>6
    <2>. QED BY <2>1 DEF Gain, Sign
  <1>8. Worth(s, p, entry) = 0 BY <1>5, <1>6, <1>7 DEF Worth, ClosingPnL
  <1>. QED BY <1>6, <1>8 DEF p, l

\* The entry opens at most one position, and one the regime allows.
LEMMA EntryThrough ==
  ASSUME NEW k, NEW b \in Bars, NEW blocked, Sound(k),
         router.regime \in Regimes, time \in 0..MaxBars,
         profile \in {"v6", "v7", "v8", "v9"}
  PROVE  LET r == Entry(k, b, blocked)
         IN  /\ Sound(r)
             /\ Equity(r, b.close) = Equity(k, b.close)
             /\ \A s \in Sides : r.pos[s].active =>
                  \/ k.pos[s].active /\ r.pos[s].stop = k.pos[s].stop
                  \/ Allowed(r.pos[s])
  <1>. DEFINE o == Offer(b)
              s == o.side
              inRange == router.regime = "RANGE"
              p == Opened(s, b.close, o.stop, inRange)
              pos == [k.pos EXCEPT ![s] = p]
              n == k.opened + 1
              c == IF Quota THEN CooldownBars ELSE k.cooldown
              e == IF Quota THEN Added(k.entries, WeekOf[time], 1) ELSE k.entries
              r == [k EXCEPT !.pos = pos, !.opened = n, !.cooldown = c, !.entries = e]
  <1>1. k \in Book /\ b.close \in Nat /\ b.close > 0 BY BarType DEF Sound
  <1>2. CASE Flat(k) /\ o.stop # 0 /\ p.qty > 0 /\ Entry(k, b, blocked) = r
    <2>1. /\ s \in Sides /\ o.stop \in Nat /\ Sign(s) * (b.close - o.stop) > 0
          /\ inRange => profile = "v9"
          /\ inRange \in BOOLEAN
      BY <1>2, BarType DEF Offer, Sides, Regimes
    <2>2. /\ p \in Position /\ p.active /\ p.stop = (IF inRange THEN 0 ELSE o.stop)
          /\ Worth(s, p, b.close) = 0
      <3>1. s \in Sides /\ o.stop \in Nat /\ inRange \in BOOLEAN /\ b.close \in Nat
            /\ Sign(s) * (b.close - o.stop) > 0 /\ b.close > 0 /\ p.qty > 0
        BY <1>1, <1>2, <2>1
      <3>. HIDE DEF s, inRange
      <3>2. ASSUME NEW l, l = o.stop
            PROVE  LET q == Opened(s, b.close, l, inRange)
                   IN  /\ q \in Position /\ q.active /\ q.stop = (IF inRange THEN 0 ELSE l)
                       /\ Worth(s, q, b.close) = 0
        BY <3>1, <3>2, OpenedType
      <3>. QED BY <3>2
    <2>3. Allowed(p) BY <1>2, <2>1, <2>2 DEF Allowed
    <2>4. pos \in [Sides -> Position] /\ n \in Nat /\ c \in 0..CooldownBars /\ e \in [Weeks -> Nat]
      <3>1. WeekOf[time] \in Weeks BY DEF Weeks
      <3>. HIDE DEF p, s
      <3>. QED BY <1>1, <2>1, <2>2, <3>1, BookFields, ConstantTypes DEF Added
    <2>. HIDE DEF pos, n, c, e
    <2>5. /\ r \in Book /\ r.pos = pos /\ r.net = k.net /\ r.trades = k.trades /\ r.opened = n
      BY <1>1, <2>4 DEF Book
    <2>. HIDE DEF r
    <2>6. r.pos[s] = p /\ \A x \in Sides : x # s => r.pos[x] = k.pos[x] /\ ~k.pos[x].active
      <3>. HIDE DEF p, s
      <3>. QED BY <1>1, <1>2, <2>1, <2>5, BookFields DEF pos, Flat
    <2>. HIDE DEF p, s
    <2>7. Sound(r)
      <3>1. k.opened = k.trades /\ k.trades \in Nat BY <1>1, <1>2, BookFields DEF Sound
      <3>2. ~Flat(r) BY <2>1, <2>2, <2>6 DEF Flat
      <3>3. r.opened = r.trades + 1 BY <2>5, <3>1 DEF n
      <3>4. ~r.pos["long"].active \/ ~r.pos["short"].active BY <2>1, <2>6 DEF Sides
      <3>. QED BY <2>5, <3>2, <3>3, <3>4 DEF Sound
    <2>8. Equity(r, b.close) = Equity(k, b.close)
      <3>1. \A x \in Sides : Worth(x, k.pos[x], b.close) = 0 BY <1>2 DEF Flat, Worth
      <3>2. \A x \in Sides : Worth(x, r.pos[x], b.close) = 0
        BY <2>1, <2>2, <2>6 DEF Worth
      <3>. QED BY <2>5, <3>1, <3>2 DEF Equity, Sides
    <2>9. \A x \in Sides : r.pos[x].active => Allowed(r.pos[x])
      BY <2>3, <2>6
    <2>. QED BY <1>2, <2>7, <2>8, <2>9
  <1>3. CASE Entry(k, b, blocked) = k
    BY <1>3
  <1>4. \/ Entry(k, b, blocked) = k
        \/ Flat(k) /\ o.stop # 0 /\ p.qty > 0 /\ Entry(k, b, blocked) = r
    BY Zenon DEF Entry
  <1>. QED BY <1>2, <1>3, <1>4

LEMMA MoveThrough ==
  ASSUME NEW k, NEW s \in Sides, NEW b \in Bars, Sound(k), time \in 0..MaxBars
  PROVE  Through(k, Move(k, s, b), b.close)
  <1>. DEFINE t == Step(s, k.pos[s], b)
              q == t.pos
              pnl == ClosingPnL(s, q, b.close)
              pos == [k.pos EXCEPT ![s] = q]
              r == [k EXCEPT !.pos = pos]
              c == Closed(k, s, pnl)
              d == Booked(c, pnl)
              e == Scored(d, pnl, TRUE)
  <1>1. k \in Book /\ b.close \in Nat BY BarType DEF Sound
  <1>2. k.pos[s] \in Position /\ k.pos \in [Sides -> Position] /\ k.net \in Int
    BY <1>1, BookFields
  <1>3. CASE ~k.pos[s].active
    BY <1>1, <1>3, SamePositions DEF Move
  <1>4. CASE k.pos[s].active
    <2>1. /\ q \in Position /\ q.active /\ q.stop = k.pos[s].stop
          /\ Worth(s, q, b.close) = Worth(s, k.pos[s], b.close)
      <3>1. Kept(s, k.pos[s], t.pos, b.close) BY <1>2, <1>4, StepKeeps
      <3>. QED BY <3>1 DEF Kept
    <2>. HIDE DEF t
    <2>2. pnl \in Int /\ pnl = Worth(s, k.pos[s], b.close)
      <3>1. pnl = Worth(s, q, b.close) BY <2>1 DEF Worth
      <3>2. Worth(s, q, b.close) \in Int BY <1>1, <2>1, GainInt
      <3>. QED BY <2>1, <3>1, <3>2
    <2>3. Through(k, r, b.close)
      <3>. HIDE DEF q
      <3>1. pos \in [Sides -> Position] BY <1>2, <2>1
      <3>. HIDE DEF pos
      <3>2. /\ r \in Book /\ r.pos = pos /\ r.net = k.net /\ r.trades = k.trades
            /\ r.opened = k.opened
        BY <1>1, <3>1 DEF Book
      <3>. HIDE DEF r
      <3>3. r.pos = [k.pos EXCEPT ![s] = q] BY <3>2 DEF pos
      <3>4. r.net + Worth(s, q, b.close) = k.net + Worth(s, k.pos[s], b.close)
        BY <2>1, <3>2
      <3>. QED BY <1>1, <1>4, <2>1, <3>2, <3>3, <3>4, OneSideMoves
    <2>. HIDE DEF q, pnl
    <2>4. Through(k, c, b.close) BY <1>1, <1>4, <2>2, ClosedThrough
    <2>. HIDE DEF c
    <2>5. Through(c, d, b.close)
      <3>1. Sound(c) BY <2>4 DEF Through
      <3>. QED BY <2>2, <3>1, BookedThrough
    <2>. HIDE DEF d
    <2>6. Through(d, e, b.close)
      <3>1. Sound(d) BY <2>5 DEF Through
      <3>. QED BY <2>2, <3>1, ScoredThrough
    <2>. HIDE DEF e
    <2>7. Through(k, e, b.close) BY <2>4, <2>5, <2>6, ThroughTrans
    <2>8. Move(k, s, b) \in {r, e}
      BY <1>4 DEF Move, r, pos, q, t, e, d, c, pnl
    <2>. QED BY <2>3, <2>7, <2>8
  <1>. QED BY <1>3, <1>4

-----------------------------------------------------------------------------
(* The theorems. *)

\* A whole bar: nothing is made or lost at its close, and what is still open
\* afterwards is what the regime allows.
LEMMA BarKeeps ==
  ASSUME TypeOK, Sound(book), NEW b \in Bars
  PROVE  /\ Sound(BookAfter(b))
         /\ Equity(BookAfter(b), b.close) = Equity(book, b.close)
         /\ \A s \in Sides : BookAfter(b).pos[s].active => Allowed(BookAfter(b).pos[s])
  <1>. DEFINE at == b.close
              k == Waited(book)
              x == RegimeExit(k, "long", b)
              y == RegimeExit(x, "short", b)
              e == Entry(y, b, RiskBlocked(k))
              m == Move(e, "long", b)
              n == Move(m, "short", b)
  <1>1. /\ profile \in {"v6", "v7", "v8", "v9"} /\ time \in 0..MaxBars /\ router.regime \in Regimes
        /\ "long" \in Sides /\ "short" \in Sides /\ Sides = {"long", "short"}
    BY RouterAssumption DEF TypeOK, Sides
  <1>2. BookAfter(b) = n BY DEF BookAfter, BothSides
  <1>3. Through(book, k, at) BY WaitedThrough
  <1>. HIDE DEF k
  <1>4. Through(k, x, at) /\ (x.pos["long"].active => Allowed(x.pos["long"]))
    <2>1. Sound(k) BY <1>3 DEF Through
    <2>. QED BY <1>1, <2>1, RegimeExitThrough
  <1>. HIDE DEF x
  <1>5. Through(x, y, at) /\ (y.pos["short"].active => Allowed(y.pos["short"]))
    <2>1. Sound(x) BY <1>4 DEF Through
    <2>. QED BY <1>1, <2>1, RegimeExitThrough
  <1>. HIDE DEF y
  <1>6. \A s \in Sides : y.pos[s].active => Allowed(y.pos[s])
    BY <1>1, <1>4, <1>5 DEF Through, Allowed
  <1>7. /\ Sound(e) /\ Equity(e, at) = Equity(y, at)
        /\ \A s \in Sides : e.pos[s].active =>
             \/ y.pos[s].active /\ e.pos[s].stop = y.pos[s].stop
             \/ Allowed(e.pos[s])
    <2>1. Sound(y) BY <1>5 DEF Through
    <2>. QED BY <1>1, <2>1, EntryThrough
  <1>. HIDE DEF e
  <1>8. \A s \in Sides : e.pos[s].active => Allowed(e.pos[s])
    BY <1>6, <1>7 DEF Allowed
  <1>9. Through(e, m, at) BY <1>1, <1>7, MoveThrough
  <1>. HIDE DEF m
  <1>10. Through(m, n, at)
    <2>1. Sound(m) BY <1>9 DEF Through
    <2>. QED BY <1>1, <2>1, MoveThrough
  <1>. HIDE DEF n
  <1>11. Through(e, n, at) BY <1>9, <1>10, ThroughTrans
  <1>12. \A s \in Sides : n.pos[s].active => Allowed(n.pos[s])
    BY <1>8, <1>11 DEF Through, Allowed
  <1>13. Equity(n, at) = Equity(book, at)
    BY <1>3, <1>4, <1>5, <1>7, <1>11 DEF Through
  <1>. QED BY <1>2, <1>11, <1>12, <1>13 DEF Through

LEMMA EquityInt ==
  ASSUME NEW k \in Book, NEW at \in Nat
  PROVE  Equity(k, at) \in Int
  <1>1. /\ k.net \in Int /\ k.pos["long"] \in Position /\ k.pos["short"] \in Position
        /\ "long" \in Sides /\ "short" \in Sides
    BY BookFields DEF Sides
  <1>. QED BY <1>1, GainInt DEF Equity

LEMMA VoteType ==
  ASSUME TypeOK, NEW c \in Regimes, NEW decided \in BOOLEAN, Vote(c, decided)
  PROVE  TypeOK'
  <1>1. classed' \in [now : Regimes, pending : Regimes, count : Nat]
    BY DEF TypeOK, Vote, Classified
  <1>2. router' \in [regime : Regimes, pending : Regimes, count : Nat, since : 0..MinStay]
    <2>1. classed'.now \in Regimes BY <1>1
    <2>2. ASSUME NEW d \in Regimes
          PROVE  Counted(d) \in [regime : Regimes, pending : Regimes, count : Nat, since : 0..MinStay]
      <3>. DEFINE n == IF d = router.pending THEN router.count + 1 ELSE 1
      <3>1. n \in Nat BY DEF TypeOK
      <3>2. Counted(d) = (IF n >= MinConfirm
                          THEN [regime |-> d, pending |-> d, count |-> 0,
                                since |-> IF Quota THEN 0 ELSE router.since]
                          ELSE [router EXCEPT !.pending = d, !.count = n])
        BY DEF Counted
      <3>. HIDE DEF n
      <3>3. [router EXCEPT !.pending = d, !.count = n]
              \in [regime : Regimes, pending : Regimes, count : Nat, since : 0..MinStay]
        BY <3>1 DEF TypeOK
      <3>. QED BY <3>2, <3>3, ConstantTypes DEF TypeOK
    <2>3. router' \in {router, Counted(classed'.now), [router EXCEPT !.regime = classed'.now],
                       [router EXCEPT !.count = 0]}
      BY DEF Vote, Routed
    <2>. QED BY <2>1, <2>2, <2>3 DEF TypeOK
  <1>3. run' \in [class : Regimes, length : Nat] BY DEF TypeOK, Vote
  <1>. QED BY <1>1, <1>2, <1>3 DEF TypeOK, Vote

IInv == TypeOK /\ Sound(book) /\ RangeHeldByItsOwn

LEMMA InitHolds == Init => IInv
  <1>. SUFFICES ASSUME Init PROVE IInv OBVIOUS
  <1>1. TypeOK
    BY RouterAssumption, NoPositionType DEF Init, Start, TypeOK, Book, Regimes
  <1>2. Sound(book)
    BY <1>1, NoPositionType DEF Init, Start, Sound, Flat, Sides, TypeOK
  <1>3. RangeHeldByItsOwn BY NoPositionType DEF Init, Start, RangeHeldByItsOwn
  <1>. QED BY <1>1, <1>2, <1>3 DEF IInv

LEMMA BarHolds ==
  ASSUME IInv, NEW b \in Bars, Bar(b)
  PROVE  IInv'
  <1>1. TypeOK /\ Sound(book) BY DEF IInv
  <1>2. /\ Sound(BookAfter(b))
        /\ \A s \in Sides : BookAfter(b).pos[s].active => Allowed(BookAfter(b).pos[s])
    BY <1>1, BarKeeps
  <1>3. book' = BookAfter(b) /\ was' = router.regime /\ profile' = profile BY DEF Bar
  <1>4. Sound(book)' BY <1>2, <1>3 DEF Sound, Flat, Book, Days, Weeks
  <1>5. RangeHeldByItsOwn' BY <1>2, <1>3 DEF RangeHeldByItsOwn, Allowed
  <1>6. book' \in Book /\ b.close \in Nat BY <1>2, <1>3, BarType DEF Sound
  <1>7. TypeOK'
    <2>1. Equity(book', b.close) \in Int BY <1>6, EquityInt
    <2>2. peak' \in Nat /\ maxDD' \in Nat
      <3>. DEFINE equity == Equity(book', b.close)
      <3>1. /\ peak' = IF equity > peak THEN equity ELSE peak
            /\ maxDD' = IF peak' - equity > maxDD THEN peak' - equity ELSE maxDD
        BY DEF Bar
      <3>2. equity \in Int /\ peak \in Nat /\ maxDD \in Nat BY <1>1, <2>1 DEF TypeOK
      <3>. HIDE DEF equity
      <3>. QED BY <3>1, <3>2
    <2>3. router' \in [regime : Regimes, pending : Regimes, count : Nat, since : 0..MinStay]
      BY <1>1, ConstantTypes DEF Bar, TypeOK
    <2>4. time' \in 0..MaxBars BY <1>1, ConstantTypes DEF Bar, TypeOK
    <2>. QED BY <1>1, <1>6, <2>2, <2>3, <2>4 DEF Bar, TypeOK
  <1>. QED BY <1>4, <1>5, <1>7 DEF IInv

LEMMA NextHolds == IInv /\ [Next]_vars => IInv'
  <1>. SUFFICES ASSUME IInv, [Next]_vars PROVE IInv' OBVIOUS
  <1>1. ASSUME NEW c \in Regimes, NEW decided \in BOOLEAN, Vote(c, decided) PROVE IInv'
    <2>1. TypeOK' BY <1>1, VoteType DEF IInv
    <2>2. UNCHANGED <<profile, was, book>> BY <1>1 DEF Vote
    <2>3. Sound(book)' /\ RangeHeldByItsOwn'
      BY <2>2 DEF IInv, Sound, Flat, RangeHeldByItsOwn, Book, Days, Weeks
    <2>. QED BY <2>1, <2>3 DEF IInv
  <1>2. ASSUME NEW b \in Bars, Bar(b) PROVE IInv'
    BY <1>2, BarHolds
  <1>3. ASSUME UNCHANGED vars PROVE IInv'
    BY <1>3 DEF vars, IInv, TypeOK, Sound, Flat, RangeHeldByItsOwn
  <1>. QED BY <1>1, <1>2, <1>3 DEF Next

LEMMA Holds == Spec => []IInv
  BY InitHolds, NextHolds, PTL DEF Spec

\* Type correctness, for any bars, limits, calendar and routers.
THEOREM TypeCorrect == Spec => []TypeOK
  <1>1. IInv => TypeOK BY DEF IInv
  <1>. QED BY <1>1, Holds, PTL

\* replay.go counts every position it opened as one trade, or still holds it.
THEOREM TradesCounted == Spec => []EveryTradeCounted
  <1>1. IInv => EveryTradeCounted BY DEF IInv, Sound, EveryTradeCounted
  <1>. QED BY <1>1, Holds, PTL

\* After a bar in RANGE v7 and v8 hold nothing, and after a bar outside RANGE v9 holds
\* no position opened on the band, for any bars and votes; nothing is said of the
\* positions that the routers carry through a switch.
THEOREM RangeIsLeft == Spec => []RangeHeldByItsOwn
  <1>1. IInv => RangeHeldByItsOwn BY DEF IInv
  <1>. QED BY <1>1, Holds, PTL

\* The equity of a book is linear in the price, with what it holds as the slope.
LEMMA EquityMoves ==
  ASSUME NEW k \in Book, NEW c \in Nat, NEW d \in Nat
  PROVE  Equity(k, c) - Equity(k, d) = (c - d) * Exposure(k)
  <1>. DEFINE Held(s) == IF k.pos[s].active THEN Sign(s) * k.pos[s].remain ELSE 0
  <1>1. k.net \in Int /\ k.pos \in [Sides -> Position] BY BookFields
  <1>2. ASSUME NEW s \in Sides
        PROVE  /\ Worth(s, k.pos[s], c) - Worth(s, k.pos[s], d) = (c - d) * Held(s)
               /\ Worth(s, k.pos[s], c) \in Int /\ Worth(s, k.pos[s], d) \in Int
               /\ Held(s) \in Int
    <2>. DEFINE p == k.pos[s]
    <2>1. p \in Position BY <1>1
    <2>2. /\ p.entry \in Nat /\ p.remain \in Int /\ p.realized \in Int BY <2>1 DEF Position
    <2>3. Worth(s, p, c) \in Int /\ Worth(s, p, d) \in Int BY <2>1, GainInt
    <2>. HIDE DEF p
    <2>4. CASE ~p.active BY <2>3, <2>4 DEF Worth, p
    <2>5. CASE p.active
      <3>1. ASSUME NEW e \in Int, NEW q \in Int, NEW z \in Int
            PROVE  /\ (z + (1 * (c - e)) * q) - (z + (1 * (d - e)) * q) = (c - d) * (1 * q)
                   /\ (z + (-1 * (c - e)) * q) - (z + (-1 * (d - e)) * q) = (c - d) * (-1 * q)
        OBVIOUS
      <3>2. /\ Worth(s, p, c) = p.realized + (Sign(s) * (c - p.entry)) * p.remain
            /\ Worth(s, p, d) = p.realized + (Sign(s) * (d - p.entry)) * p.remain
            /\ Held(s) = Sign(s) * p.remain
        BY <2>5 DEF Worth, ClosingPnL, Gain, p
      <3>3. Sign(s) = 1 \/ Sign(s) = -1 BY SignCases
      <3>4. Worth(s, p, c) - Worth(s, p, d) = (c - d) * (Sign(s) * p.remain)
        BY <2>2, <3>1, <3>2, <3>3
      <3>5. Sign(s) * p.remain \in Int BY <2>2, <3>3
      <3>. QED BY <2>3, <3>2, <3>4, <3>5 DEF p
    <2>. QED BY <2>4, <2>5
  <1>3. "long" \in Sides /\ "short" \in Sides BY DEF Sides
  <1>4. Exposure(k) = Held("long") + Held("short") BY DEF Exposure
  <1>5. (c - d) * (Held("long") + Held("short")) = (c - d) * Held("long") + (c - d) * Held("short")
    <2>1. Held("long") \in Int /\ Held("short") \in Int BY <1>2, <1>3
    <2>. HIDE DEF Held
    <2>. QED BY <2>1
  <1>. HIDE DEF Held
  <1>. QED BY <1>1, <1>2, <1>3, <1>4, <1>5 DEF Equity

\* From bar to bar the equity moves by the price times what was held.
THEOREM MarkedToMarket == Spec => MarkToMarket
  <1>1. ASSUME IInv, [Next]_vars
        PROVE  time' # time =>
                 Equity(book', price') - Equity(book, price) = (price' - price) * Exposure(book)
    <2>1. TypeOK /\ Sound(book) /\ book \in Book /\ price \in Nat BY <1>1 DEF IInv, TypeOK
    <2>2. ASSUME NEW b \in Bars, Bar(b)
          PROVE  Equity(book', price') - Equity(book, price) = (price' - price) * Exposure(book)
      <3>1. book' = BookAfter(b) /\ price' = b.close BY <2>2 DEF Bar
      <3>2. Equity(book', price') = Equity(book, price')
        BY <2>1, <3>1, BarKeeps
      <3>3. price' \in Nat BY <3>1, BarType
      <3>. QED BY <2>1, <3>2, <3>3, EquityMoves
    <2>3. ASSUME NEW c \in Regimes, NEW decided \in BOOLEAN, Vote(c, decided)
          PROVE  time' = time
      BY <2>3 DEF Vote
    <2>4. ASSUME UNCHANGED vars PROVE time' = time BY <2>4 DEF vars
    <2>. QED BY <1>1, <2>2, <2>3, <2>4 DEF Next
  <1>. QED BY <1>1, Holds, PTL DEF Spec, MarkToMarket

-----------------------------------------------------------------------------
(* The core leg. *)

LEMMA CoreTypes ==
  /\ CoreNotional \in Nat /\ RiskCapital - CoreNotional \in Nat
  /\ Part(RiskAmount, 100 - CorePercent) \in Nat
  /\ NoCore \in Core
  <1>1. RiskCapital \in Nat /\ RiskAmount \in Nat /\ CorePercent \in 0..90
    BY RouterAssumption, ReplayAssumption
  <1>2. ASSUME NEW q \in Nat, NEW n \in 0..100 PROVE Part(q, n) \in Nat /\ Part(q, n) <= q
    <2>1. q * n \in Nat /\ q * n <= q * 100
      <3>1. ASSUME NEW d \in Nat PROVE q * d \in Nat BY <3>1
      <3>2. 100 - n \in Nat /\ n \in Nat BY <1>2
      <3>3. q * (100 - n) \in Nat /\ q * n \in Nat BY <3>1, <3>2
      <3>4. q * (100 - n) = q * 100 - q * n BY <3>2
      <3>. QED BY <3>3, <3>4
    <2>2. ASSUME NEW m \in Nat, m <= q * 100 PROVE m \div 100 \in 0..q BY <2>2
    <2>3. (q * n) \div 100 \in 0..q BY <2>1, <2>2
    <2>4. Part(q, n) = (q * n) \div 100 BY DEF Part
    <2>. QED BY <2>3, <2>4
  <1>3. CoreNotional \in Nat /\ CoreNotional <= RiskCapital
    <2>1. CorePercent \in 0..100 BY <1>1
    <2>. QED BY <1>1, <1>2, <2>1 DEF CoreNotional
  <1>4. Part(RiskAmount, 100 - CorePercent) \in Nat
    <2>1. ASSUME NEW n \in 0..100 PROVE Part(RiskAmount, n) \in Nat BY <1>1, <1>2, <2>1
    <2>2. 100 - CorePercent \in 0..100 BY <1>1
    <2>. QED BY <2>1, <2>2
  <1>. QED BY <1>1, <1>3, <1>4 DEF NoCore, Core

LEMMA CoreWorthMoves ==
  ASSUME NEW c \in Core, NEW x \in Nat, NEW y \in Nat
  PROVE  /\ CoreWorth(c, x) \in Int /\ CoreWorth(c, y) \in Int
         /\ CoreWorth(c, x) - CoreWorth(c, y) = (x - y) * c.qty
  <1>1. c.qty \in Nat /\ c.entry \in Nat BY DEF Core
  <1>2. ASSUME NEW q \in Nat, NEW e \in Nat
        PROVE  q * (x - e) - q * (y - e) = (x - y) * q
    OBVIOUS
  <1>. QED BY <1>1, <1>2 DEF CoreWorth

\* Buying and selling the leg at the close of a bar makes and loses nothing there.
LEMMA CoreKeeps ==
  ASSUME core \in Core, NEW b \in Bars
  PROVE  /\ CoreAfter(b) \in Core
         /\ CoreAfter(b).pnl + CoreWorth(CoreAfter(b), b.close)
              = core.pnl + CoreWorth(core, b.close)
  <1>. DEFINE n == CoreNotional \div b.close
              z == core.pnl + CoreWorth(core, b.close)
              bought == [core EXCEPT !.qty = n, !.entry = b.close]
              sold == [NoCore EXCEPT !.pnl = z]
  <1>1. b.close \in Nat /\ b.close > 0 BY BarType
  <1>2. n \in Nat BY <1>1, CoreTypes
  <1>3. CoreWorth(core, b.close) \in Int /\ core.pnl \in Int /\ core.qty \in Nat
    BY <1>1, CoreWorthMoves DEF Core
  <1>4. z \in Int BY <1>3
  <1>5. \/ CoreAfter(b) = core
        \/ core.qty = 0 /\ CoreAfter(b) = bought
        \/ CoreAfter(b) = sold
    BY <1>3 DEF CoreAfter
  <1>6. ASSUME core.qty = 0
        PROVE  bought \in Core /\ bought.pnl + CoreWorth(bought, b.close) = z
    <2>. HIDE DEF n
    <2>1. bought \in Core /\ bought.pnl = core.pnl /\ bought.qty = n /\ bought.entry = b.close
      BY <1>1, <1>2 DEF Core
    <2>2. CoreWorth(bought, b.close) = 0 BY <1>1, <1>2, <2>1 DEF CoreWorth
    <2>3. CoreWorth(core, b.close) = 0 BY <1>1, <1>6 DEF CoreWorth, Core
    <2>. QED BY <1>3, <2>1, <2>2, <2>3
  <1>7. sold \in Core /\ sold.pnl + CoreWorth(sold, b.close) = z
    <2>. HIDE DEF z
    <2>1. sold \in Core /\ sold.pnl = z /\ sold.qty = 0 /\ sold.entry = 0
      BY <1>4 DEF Core, NoCore
    <2>2. CoreWorth(sold, b.close) = 0 BY <1>1, <2>1 DEF CoreWorth
    <2>. QED BY <1>4, <2>1, <2>2
  <1>. HIDE DEF bought, sold
  <1>. QED BY <1>5, <1>6, <1>7

-----------------------------------------------------------------------------
(* The tactical leg: nothing is made or lost at the close of a bar. *)

LEMMA OlderKind ==
  ASSUME profile \in OlderProfiles
  PROVE  /\ profile \notin Profiles /\ ~Quota
         /\ profile \notin {"v6", "v7", "v8", "v9"}
  BY RouterAssumption, ReplayAssumption DEF Quota

\* OpenedType for the capital of the tactical leg.
LEMMA TacticalOpenedType ==
  ASSUME NEW entry \in Nat, NEW stop \in Nat, entry - stop > 0, entry > 0,
         Tactical!Opened("long", entry, stop, FALSE).qty # 0
  PROVE  LET p == Tactical!Opened("long", entry, stop, FALSE)
         IN  p \in Position /\ p.active /\ Worth("long", p, entry) = 0
  <1>. DEFINE p == Tactical!Opened("long", entry, stop, FALSE)
              risk == 1 * (entry - stop)
              q == Tactical!PlanQty("long", entry, stop)
  <1>1. risk \in Nat /\ risk > 0 OBVIOUS
  <1>2. q \in Nat
    <2>. DEFINE amount == Part(RiskAmount, 100 - CorePercent)
                capital == RiskCapital - CoreNotional
                n == (amount \div risk) * 1
                cap == capital * 1
    <2>1. amount \in Nat /\ cap \in Nat BY CoreTypes
    <2>. HIDE DEF amount, risk, cap
    <2>2. ASSUME NEW a \in Nat, NEW d \in Nat, d > 0 PROVE a \div d \in Nat BY <2>2
    <2>3. n \in Nat BY <1>1, <2>1, <2>2
    <2>4. cap \div entry \in Nat BY <2>1, <2>2
    <2>. HIDE DEF n
    <2>5. q = 0 \/ q = cap \div entry \/ q = n
      BY DEF Tactical!PlanQty, Tactical!Sign, n, cap, amount, risk
    <2>. QED BY <2>3, <2>4, <2>5
  <1>3. p = [active |-> TRUE, entry |-> entry, stop |-> stop, risk |-> risk, qty |-> q,
             remain |-> q, tp1 |-> FALSE, tp2 |-> FALSE, trail |-> 0, realized |-> 0,
             hold |-> 0]
    BY DEF Tactical!Opened, Tactical!Sign
  <1>. HIDE DEF risk, q
  <1>4. /\ p \in Position /\ p.active
        /\ p.entry = entry /\ p.realized = 0 /\ p.remain = q
    <2>. HIDE DEF p
    <2>. QED BY <1>1, <1>2, <1>3 DEF Position
  <1>. HIDE DEF p
  <1>5. Gain("long", p, entry) = 0
    <2>1. entry - p.entry = 0 BY <1>4
    <2>. QED BY <2>1 DEF Gain, Sign
  <1>6. Worth("long", p, entry) = 0
    <2>1. ClosingPnL("long", p, entry) = 0 + 0 * q BY <1>4, <1>5 DEF ClosingPnL
    <2>. QED BY <1>2, <2>1 DEF Worth
  <1>. QED BY <1>4, <1>6 DEF p

\* A book that goes through a bar of the older loop.
Carried(k, r, at) ==
  /\ Sound(r) /\ Equity(r, at) = Equity(k, at)
  /\ r.pos["short"].active => k.pos["short"].active

LEMMA TacticalEntryCarries ==
  ASSUME NEW k, NEW b \in Bars, Sound(k), Flat(k), profile \in OlderProfiles
  PROVE  Carried(k, TacticalEntry(k, b), b.close)
  <1>. DEFINE stop == SignalStop(b)
              p == IF profile = "v4" THEN Tactical!Opened("long", b.close, stop, FALSE)
                   ELSE Opened("long", b.close, stop, FALSE)
              pos == [k.pos EXCEPT !["long"] = p]
              n == k.opened + 1
              r == [k EXCEPT !.pos = pos, !.opened = n]
  <1>1. /\ k \in Book /\ b.close \in Nat /\ b.close > 0 /\ stop \in Nat
        /\ "long" \in Sides /\ "short" \in Sides /\ Sides = {"long", "short"}
        /\ stop # 0 => b.close - stop > 0
    BY BarType DEF Sound, Sides, SignalStop, Sign
  <1>2. \/ TacticalEntry(k, b) = k
        \/ stop # 0 /\ p.qty # 0 /\ TacticalEntry(k, b) = r
    BY Zenon DEF TacticalEntry
  <1>3. Carried(k, k, b.close) BY DEF Carried
  <1>4. ASSUME stop # 0, p.qty # 0 PROVE Carried(k, r, b.close)
    <2>1. p \in Position /\ p.active /\ Worth("long", p, b.close) = 0
      <3>1. CASE profile = "v4" BY <1>1, <1>4, <3>1, TacticalOpenedType
      <3>2. CASE profile # "v4"
        <4>. DEFINE o == Opened("long", b.close, stop, FALSE)
        <4>1. p = o BY <3>2
        <4>2. o.qty > 0
          <5>1. o.qty \in Nat
            <6>1. o.qty = PlanQty("long", b.close, stop) BY DEF Opened
            <6>. DEFINE risk == 1 * (b.close - stop)
                        m == (RiskAmount \div risk) * 1
                        cap == RiskCapital * 1
            <6>2. risk \in Nat /\ risk > 0 /\ cap \in Nat BY <1>1, <1>4, ConstantTypes
            <6>3. ASSUME NEW a \in Nat, NEW d \in Nat, d > 0 PROVE a \div d \in Nat BY <6>3
            <6>4. PlanQty("long", b.close, stop) \in {0, cap \div b.close, m}
              BY DEF PlanQty, Sign
            <6>. HIDE DEF o, stop, risk, cap
            <6>5. m \in Nat /\ cap \div b.close \in Nat BY <1>1, <6>2, <6>3, ConstantTypes
            <6>. QED BY <6>1, <6>4, <6>5
          <5>2. o.qty # 0 BY <1>4, <4>1
          <5>. HIDE DEF o
          <5>. QED BY <5>1, <5>2
        <4>3. Sign("long") * (b.close - stop) > 0 BY <1>1, <1>4 DEF Sign
        <4>4. o \in Position /\ o.active /\ Worth("long", o, b.close) = 0
          <5>. HIDE DEF stop
          <5>. QED BY <1>1, <4>2, <4>3, OpenedType
        <4>. HIDE DEF o
        <4>. QED BY <4>1, <4>4
      <3>. QED BY <3>1, <3>2
    <2>. HIDE DEF p
    <2>2. pos \in [Sides -> Position] /\ n \in Nat BY <1>1, <2>1, BookFields
    <2>. HIDE DEF pos, n
    <2>3. r \in Book /\ r.pos = pos /\ r.net = k.net /\ r.trades = k.trades /\ r.opened = n
      BY <1>1, <2>2 DEF Book
    <2>. HIDE DEF r
    <2>4. /\ r.pos["long"] = p /\ r.pos["short"] = k.pos["short"]
          /\ ~k.pos["long"].active /\ ~k.pos["short"].active
      BY <1>1, <2>3, BookFields DEF pos, Flat
    <2>5. r.opened = r.trades + 1 /\ ~Flat(r)
      <3>1. k.opened = k.trades BY <1>1, BookFields DEF Sound
      <3>. QED BY <1>1, <2>1, <2>3, <2>4, <3>1 DEF n, Flat
    <2>6. Sound(r) BY <2>3, <2>4, <2>5 DEF Sound
    <2>7. Equity(r, b.close) = Equity(k, b.close)
      <3>1. /\ Worth("long", r.pos["long"], b.close) = 0
            /\ Worth("short", r.pos["short"], b.close) = 0
            /\ Worth("long", k.pos["long"], b.close) = 0
            /\ Worth("short", k.pos["short"], b.close) = 0
        BY <2>1, <2>4 DEF Worth
      <3>. QED BY <2>3, <3>1 DEF Equity
    <2>. QED BY <2>4, <2>6, <2>7 DEF Carried
  <1>. QED BY <1>2, <1>3, <1>4

LEMMA TacticalMoveCarries ==
  ASSUME NEW k, NEW b \in Bars, Sound(k), ~Flat(k), ~k.pos["short"].active,
         profile \in OlderProfiles, time \in 0..MaxBars
  PROVE  Carried(k, TacticalMove(k, b), b.close)
  <1>. DEFINE s == "long"
              t == StepLadder(s, k.pos[s], b)
              q == t.pos
              pnl == ClosingPnL(s, q, b.close)
              pos == [k.pos EXCEPT ![s] = q]
              r == [k EXCEPT !.pos = pos]
              c == Closed(k, s, pnl)
              d == Booked(c, pnl)
              v == Scored(c, pnl, FALSE)
              e == Scored(d, pnl, TRUE)
  <1>1. k \in Book /\ b.close \in Nat /\ s \in Sides BY BarType DEF Sound, Sides
  <1>2. /\ k.pos[s] \in Position /\ k.pos \in [Sides -> Position] /\ k.net \in Int
        /\ k.pos[s].active
    BY <1>1, BookFields DEF Flat, Sides
  <1>3. /\ q \in Position /\ q.active /\ q.stop = k.pos[s].stop
        /\ Worth(s, q, b.close) = Worth(s, k.pos[s], b.close)
    <2>1. Step(s, k.pos[s], b) = t BY OlderKind DEF Step
    <2>2. Kept(s, k.pos[s], q, b.close)
      <3>. HIDE DEF t
      <3>. QED BY <1>1, <1>2, <2>1, StepKeeps
    <2>. QED BY <2>2 DEF Kept
  <1>4. TacticalMove(k, b) \in {r, v, e} BY DEF TacticalMove
  <1>. HIDE DEF t
  <1>5. pnl \in Int /\ pnl = Worth(s, k.pos[s], b.close)
    <2>1. pnl = Worth(s, q, b.close) BY <1>3 DEF Worth
    <2>2. Worth(s, q, b.close) \in Int BY <1>1, <1>3, GainInt
    <2>. QED BY <1>3, <2>1, <2>2
  <1>6. Through(k, r, b.close)
    <2>. HIDE DEF q
    <2>1. pos \in [Sides -> Position] BY <1>2, <1>3
    <2>. HIDE DEF pos
    <2>2. /\ r \in Book /\ r.pos = pos /\ r.net = k.net /\ r.trades = k.trades
          /\ r.opened = k.opened
      BY <1>1, <2>1 DEF Book
    <2>. HIDE DEF r
    <2>3. r.pos = [k.pos EXCEPT ![s] = q] BY <2>2 DEF pos
    <2>4. r.net + Worth(s, q, b.close) = k.net + Worth(s, k.pos[s], b.close)
      BY <1>3, <2>2
    <2>. QED BY <1>1, <1>2, <1>3, <2>2, <2>3, <2>4, OneSideMoves
  <1>. HIDE DEF q, pnl, r
  <1>7. Through(k, c, b.close) BY <1>1, <1>2, <1>5, ClosedThrough
  <1>. HIDE DEF c
  <1>8. Through(k, v, b.close)
    <2>1. Sound(c) BY <1>7 DEF Through
    <2>2. Through(c, v, b.close) BY <1>5, <2>1, ScoredThrough
    <2>. QED BY <1>7, <2>2, ThroughTrans
  <1>9. Through(k, e, b.close)
    <2>1. Sound(c) BY <1>7 DEF Through
    <2>2. Through(c, d, b.close) BY <1>5, <2>1, BookedThrough
    <2>. HIDE DEF d
    <2>3. Sound(d) BY <2>2 DEF Through
    <2>4. Through(d, e, b.close) BY <1>5, <2>3, ScoredThrough
    <2>. QED BY <1>7, <2>2, <2>4, ThroughTrans
  <1>. HIDE DEF v, e
  <1>. QED BY <1>4, <1>6, <1>8, <1>9 DEF Through, Carried, Sides

\* The older loop only ever holds the long side.
LEMMA TacticalCarries ==
  ASSUME Sound(book), ~book.pos["short"].active, NEW b \in Bars,
         profile \in OlderProfiles, time \in 0..MaxBars
  PROVE  Carried(book, TacticalAfter(b), b.close) /\ ~TacticalAfter(b).pos["short"].active
  <1>. DEFINE k == Waited(book)
              r == TacticalAfter(b)
  <1>1. /\ Sound(k) /\ Equity(k, b.close) = Equity(book, b.close)
        /\ ~k.pos["short"].active
    <2>1. Through(book, k, b.close) BY WaitedThrough
    <2>. HIDE DEF k
    <2>. QED BY <2>1 DEF Through, Sides
  <1>2. r = IF Flat(k) THEN TacticalEntry(k, b) ELSE TacticalMove(k, b)
    BY DEF TacticalAfter
  <1>. HIDE DEF k, r
  <1>3. Carried(k, r, b.close)
    BY <1>1, <1>2, TacticalEntryCarries, TacticalMoveCarries
  <1>. QED BY <1>1, <1>3 DEF Carried, k, r

-----------------------------------------------------------------------------
(* Losses and pauses. *)

\* What the phases after "Waited" may do to the counters: only a win or a pause
\* empties the loss counter.
Tally(k, r) ==
  /\ r.wins >= k.wins
  /\ r.pause \in {k.pause, PauseBars}
  /\ k.losses > 0 /\ r.losses = 0 /\ r.wins = k.wins => r.pause = PauseBars

Quiet(k, r) == r.opened = k.opened /\ Tally(k, r)

LEMMA TallyTrans ==
  ASSUME NEW k \in Book, NEW q \in Book, NEW r \in Book, Tally(k, q), Tally(q, r)
  PROVE  Tally(k, r)
  <1>1. /\ k.wins \in Nat /\ q.wins \in Nat /\ r.wins \in Nat
        /\ k.losses \in Nat /\ q.losses \in Nat /\ r.losses \in Nat
    BY BookFields
  <1>. QED BY <1>1 DEF Tally

LEMMA QuietTrans ==
  ASSUME NEW k \in Book, NEW q \in Book, NEW r \in Book, Quiet(k, q), Quiet(q, r)
  PROVE  Quiet(k, r)
  BY TallyTrans DEF Quiet

LEMMA SameQuiet ==
  ASSUME NEW k \in Book, NEW r, r.wins = k.wins, r.losses = k.losses, r.pause = k.pause
  PROVE  Tally(k, r) /\ (r.opened = k.opened => Quiet(k, r))
  <1>1. k.wins \in Nat /\ k.losses \in Nat BY BookFields
  <1>. QED BY <1>1 DEF Quiet, Tally

LEMMA ScoredQuiet ==
  ASSUME NEW k \in Book, NEW pnl \in Int, NEW mayPause \in BOOLEAN
  PROVE  /\ Quiet(k, Scored(k, pnl, mayPause))
         /\ ~mayPause => Scored(k, pnl, mayPause).pause = k.pause
  <1>. DEFINE third == pnl < 0 /\ mayPause /\ k.losses + 1 >= LossRun
              a == IF pnl > 0 THEN k.wins + 1 ELSE k.wins
              l == IF pnl > 0 \/ third THEN 0 ELSE IF pnl < 0 THEN k.losses + 1 ELSE k.losses
              z == IF third THEN PauseBars ELSE k.pause
              r == [k EXCEPT !.wins = a, !.losses = l, !.pause = z]
  <1>1. k.wins \in Nat /\ k.losses \in Nat /\ k.pause \in 0..PauseBars BY BookFields
  <1>2. Scored(k, pnl, mayPause) = r BY Zenon DEF Scored
  <1>3. /\ a >= k.wins /\ z \in {k.pause, PauseBars}
        /\ k.losses > 0 /\ l = 0 /\ a = k.wins => z = PauseBars
        /\ ~mayPause => z = k.pause
    BY <1>1
  <1>. HIDE DEF a, l, z
  <1>4. r.wins = a /\ r.losses = l /\ r.pause = z /\ r.opened = k.opened BY DEF Book
  <1>. HIDE DEF r
  <1>. QED BY <1>2, <1>3, <1>4 DEF Quiet, Tally

LEMMA ClosedQuiet ==
  ASSUME NEW k \in Book, NEW s, NEW pnl
  PROVE  Quiet(k, Closed(k, s, pnl))
  <1>. DEFINE r == Closed(k, s, pnl)
  <1>1. r.wins = k.wins /\ r.losses = k.losses /\ r.pause = k.pause /\ r.opened = k.opened
    BY DEF Closed, Book
  <1>. HIDE DEF r
  <1>. QED BY <1>1, SameQuiet DEF r

LEMMA BookedQuiet ==
  ASSUME NEW k \in Book, NEW pnl
  PROVE  Quiet(k, Booked(k, pnl))
  <1>. DEFINE r == Booked(k, pnl)
  <1>1. r.wins = k.wins /\ r.losses = k.losses /\ r.pause = k.pause /\ r.opened = k.opened
    BY DEF Booked, Book
  <1>. HIDE DEF r
  <1>. QED BY <1>1, SameQuiet DEF r

LEMMA MovedQuiet ==
  ASSUME NEW k \in Book, NEW pos, NEW net
  PROVE  /\ Quiet(k, [k EXCEPT !.pos = pos])
         /\ Quiet(k, [k EXCEPT !.net = net, !.pos = pos])
  <1>1. ASSUME NEW r \in {[k EXCEPT !.pos = pos], [k EXCEPT !.net = net, !.pos = pos]}
        PROVE  Quiet(k, r)
    <2>1. r.wins = k.wins /\ r.losses = k.losses /\ r.pause = k.pause /\ r.opened = k.opened
      BY <1>1 DEF Book
    <2>. QED BY <2>1, SameQuiet
  <1>. QED BY <1>1

\* Closing a trade at its worth, booking it and scoring it.
LEMMA ClosingQuiet ==
  ASSUME NEW k, NEW s \in Sides, NEW at \in Nat, NEW pnl \in Int, Sound(k),
         k.pos[s].active, pnl = Worth(s, k.pos[s], at), time \in 0..MaxBars
  PROVE  LET c == Closed(k, s, pnl)
         IN  /\ Quiet(k, c) /\ Quiet(k, Booked(c, pnl))
             /\ Quiet(k, Scored(c, pnl, FALSE)) /\ Scored(c, pnl, FALSE).pause = k.pause
             /\ Quiet(k, Scored(Booked(c, pnl), pnl, TRUE))
  <1>. DEFINE c == Closed(k, s, pnl)
              d == Booked(c, pnl)
              v == Scored(c, pnl, FALSE)
              e == Scored(d, pnl, TRUE)
  <1>1. k \in Book /\ c.pause = k.pause BY DEF Sound, Closed, Book
  <1>2. Quiet(k, c) BY <1>1, ClosedQuiet
  <1>3. Through(k, c, at) BY ClosedThrough
  <1>. HIDE DEF c
  <1>4. Sound(c) /\ c \in Book BY <1>3 DEF Through, Sound
  <1>5. Through(c, d, at) /\ Quiet(c, d) BY <1>4, BookedThrough, BookedQuiet
  <1>6. Through(c, v, at) /\ Quiet(c, v) /\ v.pause = c.pause BY <1>4, ScoredThrough, ScoredQuiet
  <1>. HIDE DEF d, v
  <1>7. Sound(d) /\ d \in Book /\ v \in Book BY <1>5, <1>6 DEF Through, Sound
  <1>8. Through(d, e, at) /\ Quiet(d, e) BY <1>7, ScoredThrough, ScoredQuiet
  <1>. HIDE DEF e
  <1>9. e \in Book BY <1>8 DEF Through, Sound
  <1>10. Quiet(k, d) BY <1>1, <1>2, <1>4, <1>5, <1>7, QuietTrans
  <1>11. Quiet(k, v) BY <1>1, <1>2, <1>4, <1>6, <1>7, QuietTrans
  <1>12. Quiet(k, e) BY <1>1, <1>7, <1>8, <1>9, <1>10, QuietTrans
  <1>. QED BY <1>1, <1>2, <1>6, <1>10, <1>11, <1>12 DEF e, v, d, c

LEMMA RegimeExitQuiet ==
  ASSUME NEW k, NEW s \in Sides, NEW b \in Bars, Sound(k), time \in 0..MaxBars
  PROVE  Quiet(k, RegimeExit(k, s, b))
  <1>. DEFINE p == k.pos[s]
              t == SwitchTakeProfit(s, p, b)
              pos == [k.pos EXCEPT ![s] = t.pos]
              n == k.net + t.pnl
              r == [k EXCEPT !.net = n, !.pos = pos]
              pnl == ClosingPnL(s, p, b.close)
              c == Closed(k, s, pnl)
  <1>1. k \in Book /\ b.close \in Nat BY BarType DEF Sound
  <1>2. p \in Position BY <1>1, BookFields
  <1>3. Quiet(k, k) BY <1>1, SameQuiet
  <1>4. CASE ~p.active
    <2>1. RegimeExit(k, s, b) = k BY <1>4 DEF RegimeExit
    <2>. QED BY <1>3, <2>1
  <1>5. CASE p.active
    <2>1. RegimeExit(k, s, b) \in {k, SwitchExit(k, s, b), c, Booked(c, pnl)}
      BY DEF RegimeExit
    <2>2. SwitchExit(k, s, b) \in {k, r, Scored(c, pnl, FALSE)} BY DEF SwitchExit
    <2>3. Quiet(k, r)
      <3>. HIDE DEF n, pos
      <3>. QED BY <1>1, MovedQuiet
    <2>4. pnl \in Int /\ pnl = Worth(s, p, b.close) BY <1>1, <1>2, <1>5, GainInt DEF Worth
    <2>. HIDE DEF pnl, r
    <2>5. Quiet(k, c) /\ Quiet(k, Booked(c, pnl)) /\ Quiet(k, Scored(c, pnl, FALSE))
      BY <1>1, <1>5, <2>4, ClosingQuiet
    <2>. HIDE DEF c
    <2>. QED BY <1>3, <2>1, <2>2, <2>3, <2>5
  <1>. QED BY <1>4, <1>5

LEMMA MoveQuiet ==
  ASSUME NEW k, NEW s \in Sides, NEW b \in Bars, Sound(k), time \in 0..MaxBars
  PROVE  Quiet(k, Move(k, s, b))
  <1>. DEFINE t == Step(s, k.pos[s], b)
              q == t.pos
              pnl == ClosingPnL(s, q, b.close)
              pos == [k.pos EXCEPT ![s] = q]
              r == [k EXCEPT !.pos = pos]
              e == Scored(Booked(Closed(k, s, pnl), pnl), pnl, TRUE)
  <1>1. k \in Book /\ b.close \in Nat BY BarType DEF Sound
  <1>2. k.pos[s] \in Position BY <1>1, BookFields
  <1>3. Quiet(k, k) BY <1>1, SameQuiet
  <1>4. Move(k, s, b) \in {k, r, e} BY DEF Move
  <1>5. Quiet(k, r)
    <2>. HIDE DEF pos
    <2>. QED BY <1>1, MovedQuiet
  <1>6. ASSUME k.pos[s].active PROVE Quiet(k, e)
    <2>1. Kept(s, k.pos[s], q, b.close) BY <1>2, <1>6, StepKeeps
    <2>. HIDE DEF t
    <2>2. q \in Position /\ q.active /\ Worth(s, q, b.close) = Worth(s, k.pos[s], b.close)
      BY <2>1 DEF Kept
    <2>3. pnl \in Int /\ pnl = Worth(s, k.pos[s], b.close)
      <3>. HIDE DEF q
      <3>1. pnl = Worth(s, q, b.close) BY <2>2 DEF Worth
      <3>. QED BY <1>1, <2>2, <3>1, GainInt
    <2>. HIDE DEF pnl
    <2>. QED BY <1>1, <1>6, <2>3, ClosingQuiet
  <1>7. ~k.pos[s].active => Move(k, s, b) = k BY DEF Move
  <1>. HIDE DEF r, e
  <1>. QED BY <1>3, <1>4, <1>5, <1>6, <1>7

LEMMA EntryTallies ==
  ASSUME NEW k \in Book, NEW b, NEW blocked \in BOOLEAN
  PROVE  LET r == Entry(k, b, blocked)
         IN  Tally(k, r) /\ (r.opened # k.opened => ~blocked)
  <1>. DEFINE o == Offer(b)
              p == Opened(o.side, b.close, o.stop, router.regime = "RANGE")
              pos == [k.pos EXCEPT ![o.side] = p]
              n == k.opened + 1
              c == IF Quota THEN CooldownBars ELSE k.cooldown
              e == IF Quota THEN Added(k.entries, WeekOf[time], 1) ELSE k.entries
              r == [k EXCEPT !.pos = pos, !.opened = n, !.cooldown = c, !.entries = e]
  <1>1. \/ Entry(k, b, blocked) = k
        \/ ~blocked /\ Entry(k, b, blocked) = r
    BY Zenon DEF Entry
  <1>. HIDE DEF pos, n, c, e
  <1>2. r.wins = k.wins /\ r.losses = k.losses /\ r.pause = k.pause BY DEF Book
  <1>. HIDE DEF r
  <1>. QED BY <1>1, <1>2, SameQuiet

LEMMA WaitedFields ==
  ASSUME NEW k \in Book
  PROVE  LET r == Waited(k)
         IN  /\ r.wins = k.wins /\ r.losses = k.losses /\ r.opened = k.opened
             /\ r.pause = Less(k.pause)
  BY DEF Waited, Book

\* What a bar may do to the counters.
Tallied(n) ==
  LET k == Waited(book)
  IN  /\ Tally(k, n)
      /\ n.opened # book.opened => k.pause = 0
      /\ profile \in OlderProfiles /\ profile # "v4" => n.pause = 0

LEMMA BarTallies ==
  ASSUME TypeOK, Sound(book), NEW b \in Bars
  PROVE  Tallied(BookAfter(b))
  <1>. DEFINE at == b.close
              k == Waited(book)
              blocked == RiskBlocked(k)
              x == RegimeExit(k, "long", b)
              y == RegimeExit(x, "short", b)
              e == Entry(y, b, blocked)
              m == Move(e, "long", b)
              n == Move(m, "short", b)
  <1>1. /\ profile \in {"v6", "v7", "v8", "v9"} /\ time \in 0..MaxBars /\ router.regime \in Regimes
        /\ "long" \in Sides /\ "short" \in Sides /\ profile \notin OlderProfiles
    BY RouterAssumption, ReplayAssumption DEF TypeOK, Sides
  <1>2. BookAfter(b) = n BY DEF BookAfter, BothSides
  <1>3. Through(book, k, at) BY WaitedThrough
  <1>4. k.opened = book.opened BY WaitedFields DEF Sound
  <1>5. blocked \in BOOLEAN /\ (~blocked => k.pause = 0 \/ ~(k.pause > 0))
    BY DEF RiskBlocked
  <1>. HIDE DEF k, blocked
  <1>6. Through(k, x, at) /\ Quiet(k, x)
    <2>1. Sound(k) BY <1>3 DEF Through
    <2>. QED BY <1>1, <2>1, RegimeExitThrough, RegimeExitQuiet
  <1>. HIDE DEF x
  <1>7. Through(x, y, at) /\ Quiet(x, y)
    <2>1. Sound(x) BY <1>6 DEF Through
    <2>. QED BY <1>1, <2>1, RegimeExitThrough, RegimeExitQuiet
  <1>. HIDE DEF y
  <1>8. Sound(e) /\ Tally(y, e) /\ (e.opened # y.opened => ~blocked)
    <2>1. Sound(y) /\ y \in Book BY <1>7 DEF Through, Sound
    <2>2. Sound(e) BY <1>1, <2>1, EntryThrough
    <2>. QED BY <1>5, <2>1, <2>2, EntryTallies
  <1>. HIDE DEF e
  <1>9. Through(e, m, at) /\ Quiet(e, m) BY <1>1, <1>8, MoveThrough, MoveQuiet
  <1>. HIDE DEF m
  <1>10. Through(m, n, at) /\ Quiet(m, n)
    <2>1. Sound(m) BY <1>9 DEF Through
    <2>. QED BY <1>1, <2>1, MoveThrough, MoveQuiet
  <1>. HIDE DEF n
  <1>11. k \in Book /\ x \in Book /\ y \in Book /\ e \in Book /\ m \in Book /\ n \in Book
    BY <1>3, <1>6, <1>7, <1>8, <1>9, <1>10 DEF Through, Sound
  <1>12. Tally(k, n)
    <2>1. Tally(k, y) BY <1>6, <1>7, <1>11, TallyTrans DEF Quiet
    <2>2. Tally(k, e) BY <1>8, <1>11, <2>1, TallyTrans
    <2>3. Tally(k, m) BY <1>9, <1>11, <2>2, TallyTrans DEF Quiet
    <2>. QED BY <1>10, <1>11, <2>3, TallyTrans DEF Quiet
  <1>13. n.opened # book.opened => k.pause = 0
    <2>1. n.opened # k.opened => ~blocked BY <1>6, <1>7, <1>8, <1>9, <1>10 DEF Quiet
    <2>2. k.pause \in 0..PauseBars BY <1>11, BookFields
    <2>3. ~blocked => k.pause = 0 BY <1>5, <2>2, ConstantTypes
    <2>. QED BY <1>4, <2>1, <2>3
  <1>. QED BY <1>1, <1>2, <1>12, <1>13 DEF Tallied, k

LEMMA TacticalTallies ==
  ASSUME Sound(book), ~book.pos["short"].active, NEW b \in Bars,
         profile \in OlderProfiles, time \in 0..MaxBars, profile # "v4" => book.pause = 0
  PROVE  Tallied(TacticalAfter(b))
  <1>. DEFINE k == Waited(book)
              n == TacticalAfter(b)
  <1>1. Sound(k) /\ k \in Book /\ ~k.pos["short"].active
    <2>1. Through(book, k, b.close) BY WaitedThrough
    <2>. HIDE DEF k
    <2>. QED BY <2>1 DEF Through, Sides, Sound
  <1>2. /\ k.opened = book.opened /\ k.pause \in 0..PauseBars
        /\ profile # "v4" => k.pause = 0
    <2>1. k.opened = book.opened /\ k.pause = Less(book.pause) BY WaitedFields DEF Sound
    <2>. HIDE DEF k
    <2>. QED BY <1>1, <2>1, BookFields DEF Less
  <1>3. n = IF Flat(k) THEN TacticalEntry(k, b) ELSE TacticalMove(k, b)
    BY DEF TacticalAfter
  <1>. HIDE DEF k, n
  <1>4. CASE Flat(k)
    <2>. DEFINE stop == SignalStop(b)
                p == IF profile = "v4" THEN Tactical!Opened("long", b.close, stop, FALSE)
                     ELSE Opened("long", b.close, stop, FALSE)
                pos == [k.pos EXCEPT !["long"] = p]
                c == k.opened + 1
                r == [k EXCEPT !.pos = pos, !.opened = c]
    <2>1. \/ n = k
          \/ n = r /\ ~(profile = "v4" /\ RiskBlocked(k))
      <3>1. n = TacticalEntry(k, b) BY <1>3, <1>4
      <3>. QED BY <3>1, Zenon DEF TacticalEntry
    <2>. HIDE DEF pos, c
    <2>2. r.wins = k.wins /\ r.losses = k.losses /\ r.pause = k.pause BY <1>1 DEF Book
    <2>. HIDE DEF r
    <2>3. Tally(k, n) /\ n.pause = k.pause BY <1>1, <2>1, <2>2, SameQuiet
    <2>4. n # k => k.pause = 0
      <3>1. ~RiskBlocked(k) => ~(k.pause > 0) BY DEF RiskBlocked
      <3>. QED BY <1>2, <2>1, <3>1, ConstantTypes
    <2>5. n.opened # book.opened => k.pause = 0 BY <1>2, <2>4
    <2>6. profile # "v4" => n.pause = 0 BY <1>2, <2>3
    <2>7. Tallied(n) BY <2>3, <2>5, <2>6 DEF Tallied, k
    <2>. QED BY <2>7 DEF n
  <1>5. CASE ~Flat(k)
    <2>. DEFINE s == "long"
                t == StepLadder(s, k.pos[s], b)
                q == t.pos
                pnl == ClosingPnL(s, q, b.close)
                pos == [k.pos EXCEPT ![s] = q]
                r == [k EXCEPT !.pos = pos]
                c == Closed(k, s, pnl)
                v == Scored(c, pnl, FALSE)
                e == Scored(Booked(c, pnl), pnl, TRUE)
    <2>1. n = r \/ (profile = "v4" /\ n = e) \/ (profile # "v4" /\ n = v)
      <3>1. n = TacticalMove(k, b) BY <1>3, <1>5
      <3>. QED BY <3>1, Zenon DEF TacticalMove
    <2>2. /\ k.pos[s] \in Position /\ k.pos[s].active /\ s \in Sides /\ b.close \in Nat
      BY <1>1, <1>5, BookFields, BarType DEF Flat, Sides
    <2>3. Quiet(k, r) /\ r.pause = k.pause
      <3>. HIDE DEF pos
      <3>. QED BY <1>1, MovedQuiet DEF Book
    <2>4. pnl \in Int /\ pnl = Worth(s, k.pos[s], b.close)
      <3>1. Step(s, k.pos[s], b) = t BY OlderKind DEF Step
      <3>2. Kept(s, k.pos[s], q, b.close)
        <4>. HIDE DEF t
        <4>. QED BY <2>2, <3>1, StepKeeps
      <3>. HIDE DEF q
      <3>3. q \in Position /\ q.active /\ Worth(s, q, b.close) = Worth(s, k.pos[s], b.close)
        BY <3>2 DEF Kept
      <3>4. pnl = Worth(s, q, b.close) BY <3>3 DEF Worth
      <3>. QED BY <2>2, <3>3, <3>4, GainInt
    <2>. HIDE DEF pnl, r
    <2>5. Quiet(k, v) /\ v.pause = k.pause /\ Quiet(k, e)
      BY <1>1, <2>2, <2>4, ClosingQuiet
    <2>. HIDE DEF v, e
    <2>6. Quiet(k, n) /\ (profile # "v4" => n.pause = k.pause) BY <2>1, <2>3, <2>5
    <2>7. n.opened = book.opened /\ Tally(k, n) BY <1>2, <2>6 DEF Quiet
    <2>8. profile # "v4" => n.pause = 0 BY <1>2, <2>6
    <2>9. Tallied(n) BY <2>7, <2>8 DEF Tallied, k
    <2>. QED BY <2>9 DEF n
  <1>. QED BY <1>4, <1>5

-----------------------------------------------------------------------------
(* The theorems. *)

\* The pause left is never less than what is missing to a whole pause since the
\* last run of losses.
PauseCovers == calm \in 0..PauseBars /\ book.pause >= PauseBars - calm

ReplayInv ==
  /\ profile \in Profiles => IInv
  /\ profile \in OlderProfiles =>
       /\ ~book.pos["short"].active
       /\ profile # "v4" => book.pause = 0
  /\ profile \in Profiles \cup OlderProfiles
  /\ Sound(book) /\ time \in 0..MaxBars /\ price \in Nat
  /\ core \in Core
  /\ PauseCovers

LEMMA ReplayInitHolds == ReplayInit => ReplayInv
  <1>. SUFFICES ASSUME ReplayInit PROVE ReplayInv OBVIOUS
  <1>1. /\ profile \in Profiles \cup OlderProfiles /\ Start
        /\ core \in Core /\ calm = PauseBars
    BY CoreTypes DEF ReplayInit
  <1>2. profile \in Profiles => IInv BY <1>1, InitHolds DEF Init
  <1>3. book \in Book /\ time \in 0..MaxBars /\ price \in Nat
    BY <1>1, ConstantTypes, NoPositionType DEF Start, Book
  <1>4. /\ \A s \in Sides : ~book.pos[s].active
        /\ book.pause = 0 /\ book.opened = 0 /\ book.trades = 0
    BY <1>1, NoPositionType DEF Start
  <1>5. Sound(book) /\ ~book.pos["short"].active
    BY <1>3, <1>4 DEF Sound, Flat, Sides
  <1>6. PauseCovers BY <1>1, <1>4, ConstantTypes DEF PauseCovers
  <1>. QED BY <1>1, <1>2, <1>3, <1>4, <1>5, <1>6 DEF ReplayInv

\* One bar, whatever the loop, as far as the pause goes.
LEMMA PauseStep ==
  ASSUME Sound(book), PauseCovers, NEW n \in Book, Tallied(n), book' = n, Counts
  PROVE  /\ PauseCovers'
         /\ book'.opened # book.opened => calm >= PauseBars - 1
  <1>. DEFINE k == Waited(book)
  <1>1. book \in Book BY DEF Sound
  <1>2. /\ k.wins = book.wins /\ k.losses = book.losses /\ k.pause = Less(book.pause)
    BY <1>1, WaitedFields
  <1>3. /\ book.pause \in Nat /\ PauseBars \in Nat /\ calm \in 0..PauseBars
        /\ book.pause >= PauseBars - calm /\ n.pause \in Nat
    BY <1>1, BookFields, ConstantTypes DEF PauseCovers
  <1>4. /\ Tally(k, n)
        /\ n.opened # book.opened => k.pause = 0
    BY DEF Tallied
  <1>. HIDE DEF k
  <1>5. /\ n.pause \in {k.pause, PauseBars}
        /\ Slump => n.pause = PauseBars
    BY <1>2, <1>4 DEF Tally, Slump
  <1>6. calm' = IF Slump THEN 0 ELSE IF calm < PauseBars THEN calm + 1 ELSE calm
    BY DEF Counts
  <1>. HIDE DEF Slump
  <1>7. calm' \in 0..PauseBars /\ n.pause >= PauseBars - calm'
    BY <1>2, <1>3, <1>5, <1>6 DEF Less
  <1>8. k.pause = 0 => calm >= PauseBars - 1 BY <1>2, <1>3 DEF Less
  <1>. QED BY <1>4, <1>7, <1>8 DEF PauseCovers

\* The part of the invariant that does not depend on the loop.
LEMMA RouterStepHolds ==
  ASSUME ReplayInv, RouterStep
  PROVE  /\ ReplayInv'
         /\ book'.opened # book.opened => calm >= PauseBars - 1
  <1>1. profile \in Profiles /\ IInv /\ Next BY DEF ReplayInv, RouterStep
  <1>2. IInv' BY <1>1, NextHolds
  <1>3. /\ Sound(book)' /\ (time \in 0..MaxBars)' /\ (price \in Nat)' /\ TypeOK'
        /\ TypeOK /\ Sound(book)
    BY <1>1, <1>2 DEF IInv, TypeOK
  <1>4. core' = core /\ core \in Core /\ profile' \in Profiles
    BY <1>3 DEF RouterStep, ReplayInv, TypeOK
  <1>5. PauseCovers' /\ (book'.opened # book.opened => calm >= PauseBars - 1)
    <2>1. ASSUME NEW c \in Regimes, NEW decided \in BOOLEAN, Vote(c, decided)
          PROVE  book' = book /\ calm' = calm
      BY <2>1 DEF Vote, RouterStep
    <2>2. ASSUME NEW b \in Bars, Bar(b)
          PROVE  PauseCovers' /\ (book'.opened # book.opened => calm >= PauseBars - 1)
      <3>1. book' = BookAfter(b) /\ time' = time + 1 BY <2>2 DEF Bar
      <3>2. Counts BY <1>3, <3>1 DEF RouterStep, TypeOK
      <3>3. Tallied(BookAfter(b)) BY <1>3, BarTallies
      <3>4. BookAfter(b) \in Book BY <1>3, BarKeeps DEF Sound
      <3>5. PauseCovers BY DEF ReplayInv
      <3>. QED BY <1>3, <3>1, <3>2, <3>3, <3>4, <3>5, PauseStep
    <2>3. ASSUME book' = book, calm' = calm
          PROVE  PauseCovers' /\ (book'.opened # book.opened => calm >= PauseBars - 1)
      BY <2>3 DEF ReplayInv, PauseCovers
    <2>. QED BY <1>1, <2>1, <2>2, <2>3 DEF Next
  <1>6. profile' \notin OlderProfiles BY <1>4, RouterAssumption, ReplayAssumption
  <1>. QED BY <1>2, <1>3, <1>4, <1>5, <1>6 DEF ReplayInv

LEMMA OlderBarHolds ==
  ASSUME ReplayInv, NEW b \in Bars, OlderBar(b)
  PROVE  /\ ReplayInv'
         /\ book'.opened # book.opened => calm >= PauseBars - 1
         /\ WithCore(book', core', price') = WithCore(book, core, price')
  <1>. DEFINE n == TacticalAfter(b)
  <1>1. /\ profile \in OlderProfiles /\ ~book.pos["short"].active
        /\ profile # "v4" => book.pause = 0
        /\ Sound(book) /\ time \in 0..MaxBars /\ core \in Core /\ PauseCovers
    BY DEF ReplayInv, OlderBar
  <1>2. /\ book' = n /\ core' = CoreAfter(b) /\ price' = b.close /\ profile' = profile
        /\ time' = time + 1 /\ time < MaxBars /\ Counts
    BY DEF OlderBar
  <1>3. Carried(book, n, b.close) /\ ~n.pos["short"].active
    BY <1>1, TacticalCarries
  <1>4. Tallied(n) BY <1>1, TacticalTallies
  <1>. HIDE DEF n
  <1>5. Sound(n) /\ n \in Book BY <1>3 DEF Carried, Sound
  <1>6. PauseCovers' /\ (book'.opened # book.opened => calm >= PauseBars - 1)
    BY <1>1, <1>2, <1>4, <1>5, PauseStep
  <1>7. core' \in Core /\ b.close \in Nat BY <1>1, <1>2, CoreKeeps, BarType
  <1>8. profile # "v4" => n.pause = 0 BY <1>1, <1>4 DEF Tallied
  <1>9. ReplayInv'
    <2>1. time' \in 0..MaxBars BY <1>1, <1>2, ConstantTypes
    <2>2. Sound(book)' BY <1>2, <1>5 DEF Sound, Flat, Book, Days, Weeks
    <2>3. profile' \in OlderProfiles /\ profile' \notin Profiles BY <1>1, <1>2, OlderKind
    <2>. QED BY <1>2, <1>3, <1>6, <1>7, <1>8, <2>1, <2>2, <2>3 DEF ReplayInv
  <1>10. WithCore(book', core', price') = WithCore(book, core, price')
    <2>1. Equity(n, b.close) = Equity(book, b.close) BY <1>3 DEF Carried
    <2>2. core'.pnl + CoreWorth(core', b.close) = core.pnl + CoreWorth(core, b.close)
      BY <1>1, <1>2, CoreKeeps
    <2>3. /\ Equity(book, b.close) \in Int /\ core'.pnl \in Int /\ core.pnl \in Int
          /\ CoreWorth(core', b.close) \in Int /\ CoreWorth(core, b.close) \in Int
      BY <1>1, <1>7, EquityInt, CoreWorthMoves DEF Sound, Core
    <2>. QED BY <1>2, <2>1, <2>2, <2>3 DEF WithCore
  <1>. QED BY <1>6, <1>9, <1>10

LEMMA FinishHolds ==
  ASSUME ReplayInv, NEW b \in Bars, Finish(b)
  PROVE  /\ ReplayInv' /\ book' = book
         /\ WithCore(book', core', price') = WithCore(book, core, price')
  <1>. DEFINE z == core.pnl + CoreWorth(core, b.close)
              c == [NoCore EXCEPT !.pnl = z]
  <1>1. /\ Sound(book) /\ core \in Core /\ b.close \in Nat BY BarType DEF ReplayInv
  <1>2. /\ book' = book /\ core' = c /\ price' = b.close
        /\ UNCHANGED <<profile, votes, classed, router, was, time, peak, maxDD, run, calm>>
        /\ profile \in OlderProfiles
    BY DEF Finish
  <1>3. CoreWorth(core, b.close) \in Int /\ core.pnl \in Int /\ z \in Int
    <2>1. CoreWorth(core, b.close) \in Int BY <1>1, CoreWorthMoves
    <2>2. core.pnl \in Int BY <1>1 DEF Core
    <2>. QED BY <2>1, <2>2
  <1>. HIDE DEF z
  <1>4. c \in Core /\ c.pnl = z /\ c.qty = 0 /\ c.entry = 0 BY <1>3 DEF Core, NoCore
  <1>5. CoreWorth(c, b.close) = 0 BY <1>1, <1>4 DEF CoreWorth
  <1>. HIDE DEF c
  <1>6. WithCore(book', core', price') = WithCore(book, core, price')
    <2>1. Equity(book, b.close) \in Int BY <1>1, EquityInt DEF Sound
    <2>. QED BY <1>2, <1>3, <1>4, <1>5, <2>1 DEF WithCore, z
  <1>7. ReplayInv'
    <2>1. profile \notin Profiles BY <1>2, OlderKind
    <2>2. Sound(book)' BY <1>1, <1>2 DEF Sound, Flat, Book, Days, Weeks
    <2>. QED BY <1>1, <1>2, <1>4, <2>1, <2>2 DEF ReplayInv, PauseCovers
  <1>. QED BY <1>2, <1>6, <1>7

LEMMA ReplayNextHolds == ReplayInv /\ [ReplayNext]_all => ReplayInv'
  <1>. SUFFICES ASSUME ReplayInv, [ReplayNext]_all PROVE ReplayInv' OBVIOUS
  <1>1. CASE RouterStep BY <1>1, RouterStepHolds
  <1>2. ASSUME NEW b \in Bars, OlderBar(b) PROVE ReplayInv' BY <1>2, OlderBarHolds
  <1>3. ASSUME NEW b \in Bars, Finish(b) PROVE ReplayInv' BY <1>3, FinishHolds
  <1>4. CASE UNCHANGED all
    <2>1. IInv => IInv'
      BY <1>4 DEF all, vars, IInv, TypeOK, Sound, Flat, RangeHeldByItsOwn
    <2>2. Sound(book)' BY <1>4 DEF all, vars, ReplayInv, Sound, Flat, Book, Days, Weeks
    <2>. QED BY <1>4, <2>1, <2>2 DEF all, vars, ReplayInv, PauseCovers
  <1>. QED BY <1>1, <1>2, <1>3, <1>4 DEF ReplayNext

LEMMA ReplayHolds == ReplaySpec => []ReplayInv
  BY ReplayInitHolds, ReplayNextHolds, PTL DEF ReplaySpec

\* Every position any of the replays opened is open or was counted as one trade.
THEOREM AllTradesCounted == ReplaySpec => []EveryTradeCounted
  <1>1. ReplayInv => EveryTradeCounted BY DEF ReplayInv, Sound, EveryTradeCounted
  <1>. QED BY <1>1, ReplayHolds, PTL

\* pauseBars keeps every profile that has it out of the market after its losses.
THEOREM LossesPaused == ReplaySpec => LossesPause
  <1>1. ASSUME ReplayInv, [ReplayNext]_all
        PROVE  book'.opened # book.opened => calm >= PauseBars - 1
    <2>1. CASE RouterStep BY <1>1, <2>1, RouterStepHolds
    <2>2. ASSUME NEW b \in Bars, OlderBar(b)
          PROVE  book'.opened # book.opened => calm >= PauseBars - 1
      BY <1>1, <2>2, OlderBarHolds
    <2>3. ASSUME NEW b \in Bars, Finish(b) PROVE book' = book BY <1>1, <2>3, FinishHolds
    <2>4. CASE UNCHANGED all BY <2>4 DEF all, vars
    <2>. QED BY <1>1, <2>1, <2>2, <2>3, <2>4 DEF ReplayNext
  <1>. QED BY <1>1, ReplayHolds, PTL DEF ReplaySpec, LossesPause

\* The equity of both legs is linear in the price, with what they hold as the slope.
LEMMA BothLegsMove ==
  ASSUME NEW k \in Book, NEW c \in Core, NEW x \in Nat, NEW y \in Nat
  PROVE  WithCore(k, c, x) - WithCore(k, c, y) = (x - y) * (c.qty + Exposure(k))
  <1>1. /\ Equity(k, x) \in Int /\ Equity(k, y) \in Int
        /\ Equity(k, x) - Equity(k, y) = (x - y) * Exposure(k)
    BY EquityInt, EquityMoves
  <1>2. /\ CoreWorth(c, x) \in Int /\ CoreWorth(c, y) \in Int
        /\ CoreWorth(c, x) - CoreWorth(c, y) = (x - y) * c.qty
    BY CoreWorthMoves
  <1>3. c.qty \in Nat /\ c.pnl \in Int BY DEF Core
  <1>4. Exposure(k) \in Int
    <2>1. \A s \in Sides : k.pos[s].remain \in Int BY BookFields DEF Position
    <2>2. "long" \in Sides /\ "short" \in Sides BY DEF Sides
    <2>. QED BY <2>1, <2>2, SignCases DEF Exposure
  <1>5. ASSUME NEW d \in Int, NEW a \in Int, NEW z \in Int PROVE d * (a + z) = d * z + d * a
    OBVIOUS
  <1>6. (x - y) * (c.qty + Exposure(k)) = (x - y) * Exposure(k) + (x - y) * c.qty
    BY <1>3, <1>4, <1>5
  <1>. QED BY <1>1, <1>2, <1>3, <1>6 DEF WithCore

\* Whatever opens, closes or is sold in part, the two legs of a replay together
\* make what the price made of what they held.
THEOREM LegsAdded == ReplaySpec => LegsAddUp
  <1>1. ASSUME ReplayInv, [ReplayNext]_all
        PROVE  time' # time \/ done' # done =>
                 WithCore(book', core', price') - WithCore(book, core, price)
                   = (price' - price) * (core.qty + Exposure(book))
    <2>. DEFINE moved == WithCore(book', core', price') - WithCore(book, core, price)
                           = (price' - price) * (core.qty + Exposure(book))
    <2>1. /\ book \in Book /\ core \in Core /\ price \in Nat BY <1>1 DEF ReplayInv, Sound
    <2>2. ASSUME WithCore(book', core', price') = WithCore(book, core, price'), price' \in Nat
          PROVE  moved
      BY <2>1, <2>2, BothLegsMove
    <2>3. ASSUME NEW b \in Bars, OlderBar(b) PROVE moved
      <3>1. price' \in Nat BY <2>3, BarType DEF OlderBar
      <3>. HIDE DEF moved
      <3>. QED BY <1>1, <2>2, <2>3, <3>1, OlderBarHolds
    <2>4. ASSUME NEW b \in Bars, Finish(b) PROVE moved
      <3>1. price' \in Nat BY <2>4, BarType DEF Finish
      <3>. HIDE DEF moved
      <3>. QED BY <1>1, <2>2, <2>4, <3>1, FinishHolds
    <2>5. ASSUME RouterStep, NEW b \in Bars, Bar(b) PROVE moved
      <3>1. /\ book' = BookAfter(b) /\ price' = b.close /\ core' = core
            /\ TypeOK /\ Sound(book)
        BY <1>1, <2>5 DEF Bar, RouterStep, ReplayInv, IInv
      <3>2. price' \in Nat /\ Equity(book', price') = Equity(book, price')
        BY <3>1, BarKeeps, BarType
      <3>3. WithCore(book', core', price') = WithCore(book, core, price')
        BY <3>1, <3>2 DEF WithCore
      <3>. HIDE DEF moved
      <3>. QED BY <2>2, <3>2, <3>3
    <2>6. ASSUME RouterStep, NEW c \in Regimes, NEW decided \in BOOLEAN, Vote(c, decided)
          PROVE  time' = time /\ done' = done
      BY <2>6 DEF Vote, RouterStep
    <2>7. ASSUME UNCHANGED all PROVE time' = time /\ done' = done
      BY <2>7 DEF all, vars
    <2>8. CASE RouterStep
      <3>1. Next BY <2>8 DEF RouterStep
      <3>. HIDE DEF moved
      <3>2. (time' # time \/ done' # done) => moved BY <2>5, <2>6, <2>8, <3>1 DEF Next
      <3>. QED BY <3>2 DEF moved
    <2>. HIDE DEF moved
    <2>9. (time' # time \/ done' # done) => moved
      BY <1>1, <2>3, <2>4, <2>7, <2>8 DEF ReplayNext, moved
    <2>. QED BY <2>9 DEF moved
  <1>. QED BY <1>1, ReplayHolds, PTL DEF ReplaySpec, LegsAddUp
-----------------------------------------------------------------------------
(* The regime follows the votes. *)

\* The last "n" votes were for "c": the class, or the regime, is "c" or has
\* counted that many votes for it.
ForClass(k, c, n)  == k.now = c \/ (k.pending = c /\ k.count >= n)
ForRegime(r, c, n) == r.regime = c \/ (r.pending = c /\ r.count >= n)

\* v8 and v9 count a vote for the regime once the class has followed.
Tracked ==
  /\ profile # "v6" => ForClass(classed, run.class, run.length)
  /\ profile = "v6" => ForRegime(router, run.class, run.length)
  /\ Quota /\ run.length >= CalibConfirm =>
       ForRegime(router, run.class, (run.length + 1) - CalibConfirm)

\* A run of votes has its first one in a week that began in the window ...
SinceVote == \E t \in 1..time : Begins(t) /\ (votes < VotesDue(time) => t < time)

\* ... and so has a switch, but for those of the first bar; until MinStay bars
\* have passed no vote is due.
Stays ==
  router.since < MinStay =>
    /\ router.since <= time
    /\ router.since < time => Begins(time - router.since)
    /\ router.since = 0 /\ time > 0 => votes >= VotesDue(time)

Voted ==
  /\ classed.count < CalibConfirm /\ router.count < MinConfirm
  /\ profile = "v7" => router.regime = classed.now
  /\ run.length > 0 => Tracked
  /\ time = 0 => run.length = 0
  /\ Quota /\ time > 0 => votes >= VotesDue(time - 1)
  /\ Quota => Stays
  /\ Quota /\ run.length > 0 => SinceVote

VoteInv ==
  /\ profile \in Profiles => Voted
  /\ profile \in OlderProfiles => run.length = 0

LEMMA VoteConstants ==
  /\ CalibConfirm \in Nat /\ CalibConfirm >= 2
  /\ MinConfirm \in Nat /\ MinConfirm >= 1
  /\ MinStay \in Nat /\ MinStay >= 1 /\ MaxBars \in Nat /\ WarmupPoints \in Nat
  /\ \A t \in 0..MaxBars : WeekOf[t] \in Nat
  /\ \A t \in 1..MaxBars : WeekOf[t] <= WeekOf[t - 1] + 1
  /\ \A t \in 1..MaxBars : \A u \in 1..(t - 1) : Begins(t) /\ Begins(u) => t - u >= MinStay
  <1>1. /\ {WarmupPoints, MaxBars} \subseteq Nat /\ WeekOf \in [0..MaxBars -> Nat]
        /\ {CalibConfirm, MinConfirm, MinStay} \subseteq Nat \ {0}
    BY RouterAssumption
  <1>2. CalibConfirm >= 2 /\ LongWeeks BY CalendarAssumption
  <1>3. /\ \A t \in 1..MaxBars : WeekOf[t] <= WeekOf[t - 1] + 1
        /\ \A t \in 1..MaxBars : \A u \in 1..(t - 1) : Begins(t) /\ Begins(u) => t - u >= MinStay
    BY <1>2, Zenon DEF LongWeeks
  <1>. QED BY <1>1, <1>2, <1>3

\* What classifySeries makes of one more vote.
LEMMA ClassFollows ==
  ASSUME classed \in [now : Regimes, pending : Regimes, count : Nat],
         classed.count < CalibConfirm, NEW c \in Regimes
  PROVE  /\ Classified(c).count < CalibConfirm
         /\ ForClass(Classified(c), c, 1)
         /\ \A n \in Nat : ForClass(classed, c, n) => ForClass(Classified(c), c, n + 1)
  BY VoteConstants, SMTT(30) DEF Classified, ForClass

\* What the router makes of one more vote for a switch.
LEMMA CountFollows ==
  ASSUME router \in [regime : Regimes, pending : Regimes, count : Nat, since : 0..MinStay],
         router.count < MinConfirm, NEW c \in Regimes
  PROVE  /\ Counted(c).count < MinConfirm
         /\ Counted(c).since \in {router.since, 0}
         /\ ~Quota => Counted(c).since = router.since
         /\ ForRegime(Counted(c), c, 1)
         /\ \A n \in Nat : ForRegime(router, c, n) => ForRegime(Counted(c), c, n + 1)
  BY VoteConstants, SMTT(30) DEF Counted, ForRegime

LEMMA DueType ==
  ASSUME Quota, NEW t \in 0..MaxBars
  PROVE  VotesDue(t) \in Nat /\ VotesDue(t) = WarmupPoints + 1 + WeekOf[t]
  BY VoteConstants DEF VotesDue, Quota

\* After the first bar a vote begins its week, and is the only one of it.
LEMMA DueBegins ==
  ASSUME TypeOK, Voted, Quota, time < MaxBars, votes < VotesDue(time), time # 0
  PROVE  Begins(time) /\ votes + 1 >= VotesDue(time)
  <1>1. time \in 1..MaxBars /\ time - 1 \in 0..MaxBars /\ time \in 0..MaxBars /\ votes \in Nat
    BY VoteConstants DEF TypeOK
  <1>2. /\ VotesDue(time) = WarmupPoints + 1 + WeekOf[time]
        /\ VotesDue(time - 1) = WarmupPoints + 1 + WeekOf[time - 1]
    BY <1>1, DueType
  <1>3. votes >= VotesDue(time - 1) BY <1>1 DEF Voted
  <1>4. WeekOf[time] \in Nat /\ WeekOf[time - 1] \in Nat /\ WeekOf[time] <= WeekOf[time - 1] + 1
    BY <1>1, VoteConstants
  <1>. QED BY <1>1, <1>2, <1>3, <1>4, VoteConstants DEF Begins

\* A vote of a run that has begun comes MinStay bars after the last switch.
LEMMA VoteIsLate ==
  ASSUME TypeOK, Voted, Quota, time < MaxBars, votes < VotesDue(time),
         run.length > 0
  PROVE  router.since >= MinStay
  <1>1. /\ time \in 0..MaxBars /\ votes \in Nat /\ router.since \in 0..MinStay
        /\ time # 0
    BY DEF TypeOK, Voted
  <1>2. time \in 1..MaxBars BY <1>1, VoteConstants
  <1>3. Begins(time) BY <1>1, DueBegins
  <1>3a. VotesDue(time) \in Nat BY <1>1, DueType
  <1>4. PICK f \in 1..time : Begins(f) /\ f < time BY DEF Voted, SinceVote
  <1>5. time - f >= MinStay
    <2>1. f \in 1..(time - 1) BY <1>2, <1>4
    <2>. QED BY <1>2, <1>3, <1>4, <2>1, VoteConstants
  <1>6. SUFFICES ASSUME router.since < MinStay PROVE FALSE
    BY <1>1, VoteConstants
  <1>. DEFINE s == router.since
  <1>7. s \in Nat /\ s <= time /\ s # 0 /\ (s < time => Begins(time - s))
    BY <1>1, <1>2, <1>3a, <1>6 DEF Voted, Stays
  <1>. HIDE DEF s
  <1>8. CASE s = time
    BY <1>2, <1>4, <1>5, <1>6, <1>8, VoteConstants DEF s
  <1>9. CASE s < time
    <2>1. time - s \in 1..(time - 1) BY <1>2, <1>7, <1>9
    <2>2. time - (time - s) >= MinStay BY <1>2, <1>3, <1>7, <1>9, <2>1, VoteConstants
    <2>. QED BY <1>2, <1>6, <1>7, <2>2, VoteConstants DEF s
  <1>. QED BY <1>2, <1>7, <1>8, <1>9
\* What a vote does to the class and to the router, profile by profile.
LEMMA VoteRoutes ==
  ASSUME TypeOK, NEW c \in Regimes, NEW decided \in BOOLEAN, Vote(c, decided)
  PROVE  /\ profile = "v6" =>
              /\ classed'.now = c /\ classed'.count = classed.count
              /\ router' = IF c = router.regime THEN router ELSE Counted(c)
         /\ profile # "v6" => classed' = Classified(c)
         /\ profile = "v7" => router' = [router EXCEPT !.regime = classed'.now]
         /\ Quota => router' = IF classed'.now = router.regime THEN [router EXCEPT !.count = 0]
                               ELSE IF decided /\ router.since >= MinStay THEN Counted(classed'.now)
                               ELSE router
  <1>1. classed \in [now : Regimes, pending : Regimes, count : Nat] BY DEF TypeOK
  <1>2. /\ classed' = IF profile = "v6" THEN [classed EXCEPT !.now = c] ELSE Classified(c)
        /\ router' = Routed(classed'.now, decided)
    BY DEF Vote
  <1>3. profile = "v6" => classed'.now = c /\ classed'.count = classed.count BY <1>1, <1>2
  <1>4. profile # "v6" => classed' = Classified(c) BY <1>2
  <1>. DEFINE d == classed'.now
  <1>5. router' = Routed(d, decided) BY <1>2
  <1>. HIDE DEF d
  <1>6. CASE profile = "v6"
    <2>1. router' = IF d = router.regime THEN router ELSE Counted(d) BY <1>5, <1>6 DEF Routed
    <2>. QED BY <1>3, <1>6, <2>1 DEF Quota, d
  <1>7. CASE profile = "v7"
    <2>1. router' = [router EXCEPT !.regime = d] BY <1>5, <1>7 DEF Routed
    <2>. QED BY <1>4, <1>7, <2>1 DEF Quota, d
  <1>8. CASE profile # "v6" /\ profile # "v7"
    <2>1. router' = IF d = router.regime THEN [router EXCEPT !.count = 0]
                    ELSE IF decided /\ router.since >= MinStay THEN Counted(d)
                    ELSE router
      BY <1>5, <1>8 DEF Routed
    <2>. QED BY <1>4, <1>8, <2>1 DEF d
  <1>. QED BY <1>6, <1>7, <1>8

\* The counters of a vote stay below their confirmations.
LEMMA VoteCounts ==
  ASSUME TypeOK, Voted, profile \in Profiles,
         NEW c \in Regimes, NEW decided \in BOOLEAN, Vote(c, decided)
  PROVE  /\ classed'.count < CalibConfirm /\ router'.count < MinConfirm
         /\ profile = "v7" => router'.regime = classed'.now
         /\ classed'.now \in Regimes
         /\ router'.since \in {router.since, 0}
  <1>1. /\ classed \in [now : Regimes, pending : Regimes, count : Nat]
        /\ router \in [regime : Regimes, pending : Regimes, count : Nat, since : 0..MinStay]
        /\ classed.count < CalibConfirm /\ router.count < MinConfirm
    BY DEF TypeOK, Voted
  <1>2. TypeOK' BY VoteType
  <1>3. classed'.now \in Regimes BY <1>2 DEF TypeOK
  <1>4. Classified(c).count < CalibConfirm BY <1>1, ClassFollows
  <1>5. /\ Counted(classed'.now).count < MinConfirm
        /\ Counted(classed'.now).since \in {router.since, 0}
    BY <1>1, <1>3, CountFollows
  <1>6. profile \in {"v6", "v7", "v8", "v9"} BY RouterAssumption
  <1>7. classed'.count < CalibConfirm BY <1>1, <1>4, VoteRoutes
  <1>8. /\ router'.count < MinConfirm /\ router'.since \in {router.since, 0}
        /\ profile = "v7" => router'.regime = classed'.now
    <2>1. CASE profile = "v6" BY <1>1, <1>5, <2>1, VoteRoutes
    <2>2. CASE profile = "v7" BY <1>1, <2>2, VoteRoutes
    <2>3. CASE Quota
      <3>1. profile # "v7" BY <2>3 DEF Quota
      <3>2. router' \in {[router EXCEPT !.count = 0], Counted(classed'.now), router}
        BY <2>3, VoteRoutes
      <3>3. [router EXCEPT !.count = 0].count = 0 /\ [router EXCEPT !.count = 0].since = router.since
        BY <1>1
      <3>. QED BY <1>1, <1>5, <3>1, <3>2, <3>3, VoteConstants
    <2>. QED BY <1>6, <2>1, <2>2, <2>3 DEF Quota
  <1>. QED BY <1>3, <1>7, <1>8

\* A vote after the first bar lengthens its run, and what has been counted.
LEMMA VoteTracks ==
  ASSUME TypeOK, Voted, profile \in Profiles,
         NEW c \in Regimes, NEW decided \in BOOLEAN, Vote(c, decided), run'.length > 0
  PROVE  Tracked'
  <1>1. /\ classed \in [now : Regimes, pending : Regimes, count : Nat]
        /\ router \in [regime : Regimes, pending : Regimes, count : Nat, since : 0..MinStay]
        /\ classed.count < CalibConfirm /\ router.count < MinConfirm
        /\ run \in [class : Regimes, length : Nat] /\ time \in Nat
        /\ time = 0 => run.length = 0
    BY DEF TypeOK, Voted
  <1>. DEFINE n == run.length
  <1>2. n \in Nat BY <1>1
  <1>3. /\ run' = [class |-> c, length |-> IF ~decided THEN 0
                                           ELSE IF c = run.class THEN run.length + 1 ELSE 1]
        /\ time # 0 /\ profile' = profile /\ time < MaxBars /\ votes < VotesDue(time)
    BY <1>1 DEF Vote
  <1>4. decided /\ run'.class = c BY <1>3
  <1>5. run'.length = IF c = run.class THEN n + 1 ELSE 1 BY <1>3, <1>4
  <1>6. n > 0 => Tracked BY DEF Voted
  <1>7. profile \in {"v6", "v7", "v8", "v9"} BY RouterAssumption
  <1>. HIDE DEF n
  <1>8. \/ c = run.class /\ n > 0 /\ run'.length = n + 1
        \/ run'.length = 1
    BY <1>2, <1>5
  <1>9. CASE profile = "v6"
    <2>1. router' = IF c = router.regime THEN router ELSE Counted(c) BY <1>9, VoteRoutes
    <2>2. ForRegime(router', c, 1)
      BY <1>1, <2>1, CountFollows DEF ForRegime
    <2>3. c = run.class /\ n > 0 => ForRegime(router', c, n + 1)
      <3>1. c = run.class /\ n > 0 => ForRegime(router, c, n) BY <1>6, <1>9 DEF Tracked, n
      <3>2. ForRegime(router, c, n) => ForRegime(Counted(c), c, n + 1) BY <1>1, <1>2, CountFollows
      <3>. QED BY <2>1, <3>1, <3>2 DEF ForRegime
    <2>4. ForRegime(router', c, run'.length) BY <1>8, <2>2, <2>3
    <2>. QED BY <1>3, <1>4, <1>9, <2>4 DEF Tracked, Quota
  <1>10. CASE profile # "v6"
    <2>1. classed' = Classified(c) BY <1>10, VoteRoutes
    <2>2. ForClass(classed', c, 1) BY <1>1, <2>1, ClassFollows
    <2>3. c = run.class /\ n > 0 => ForClass(classed', c, n + 1)
      <3>1. c = run.class /\ n > 0 => ForClass(classed, c, n) BY <1>6, <1>10 DEF Tracked, n
      <3>2. ForClass(classed, c, n) => ForClass(Classified(c), c, n + 1)
        BY <1>1, <1>2, ClassFollows
      <3>. QED BY <2>1, <3>1, <3>2
    <2>4. ForClass(classed', c, run'.length) BY <1>8, <2>2, <2>3
    <2>5. ASSUME Quota, run'.length >= CalibConfirm
          PROVE  ForRegime(router', c, (run'.length + 1) - CalibConfirm)
      <3>1. c = run.class /\ n > 0 /\ run'.length = n + 1 BY <1>8, <2>5, VoteConstants
      <3>2. router.since >= MinStay BY <1>3, <2>5, <3>1, VoteIsLate DEF n
      <3>3. classed'.now = c
        <4>1. TypeOK' BY VoteType
        <4>2. classed'.count < CalibConfirm /\ classed'.count \in Nat
          BY <4>1, VoteCounts DEF TypeOK
        <4>. QED BY <2>4, <2>5, <3>1, <1>2, <4>2, VoteConstants DEF ForClass
      <3>4. router' = IF c = router.regime THEN [router EXCEPT !.count = 0] ELSE Counted(c)
        BY <1>4, <2>5, <3>2, <3>3, VoteRoutes
      <3>5. CASE c = router.regime
        <4>1. router'.regime = c BY <1>1, <3>4, <3>5
        <4>. QED BY <4>1 DEF ForRegime
      <3>6. CASE c # router.regime /\ n < CalibConfirm
        <4>1. (run'.length + 1) - CalibConfirm = 1 BY <1>2, <2>5, <3>1, <3>6, VoteConstants
        <4>2. ForRegime(Counted(c), c, 1) BY <1>1, CountFollows
        <4>. QED BY <3>4, <3>6, <4>1, <4>2
      <3>7. CASE c # router.regime /\ n >= CalibConfirm
        <4>. DEFINE m == (n + 1) - CalibConfirm
        <4>1. m \in Nat /\ (run'.length + 1) - CalibConfirm = m + 1
          BY <1>2, <3>1, <3>7, VoteConstants
        <4>2. ForRegime(router, c, m)
          BY <1>6, <2>5, <3>1, <3>7 DEF Tracked, n
        <4>. HIDE DEF m
        <4>3. ForRegime(Counted(c), c, m + 1) BY <1>1, <4>1, <4>2, CountFollows
        <4>. QED BY <3>4, <3>7, <4>1, <4>3
      <3>. QED BY <1>2, <3>5, <3>6, <3>7, VoteConstants
    <2>6. Quota' => Quota BY <1>3 DEF Quota
    <2>. QED BY <1>3, <1>4, <1>10, <2>4, <2>5, <2>6 DEF Tracked
  <1>. QED BY <1>9, <1>10
LEMMA VoteKeeps ==
  ASSUME TypeOK, Voted, profile \in Profiles,
         NEW c \in Regimes, NEW decided \in BOOLEAN, Vote(c, decided)
  PROVE  Voted'
  <1>1. /\ time \in 0..MaxBars /\ votes \in Nat /\ router.since \in 0..MinStay
        /\ time = 0 => run.length = 0
    BY DEF TypeOK, Voted
  <1>2. /\ time < MaxBars /\ votes < VotesDue(time) /\ votes' = votes + 1
        /\ UNCHANGED <<profile, time>>
    BY DEF Vote
  <1>3. /\ classed'.count < CalibConfirm /\ router'.count < MinConfirm
        /\ profile' = "v7" => router'.regime = classed'.now
        /\ router'.since \in {router.since, 0}
    BY <1>2, VoteCounts
  <1>4. run'.length > 0 => Tracked' BY VoteTracks
  <1>5. time' = 0 => run'.length = 0 BY <1>1, <1>2 DEF Vote
  <1>6. ASSUME Quota', time' > 0
        PROVE  votes' >= VotesDue(time - 1)' /\ votes' >= VotesDue(time)' /\ Begins(time)
    <2>1. Quota /\ time # 0 BY <1>1, <1>2, <1>6 DEF Quota
    <2>2. Begins(time) /\ votes + 1 >= VotesDue(time) BY <1>2, <2>1, DueBegins
    <2>3. VotesDue(time)' = VotesDue(time) /\ VotesDue(time - 1)' = VotesDue(time - 1)
      BY <1>2 DEF VotesDue
    <2>4. votes >= VotesDue(time - 1) BY <1>1, <2>1 DEF Voted
    <2>5. VotesDue(time - 1) \in Nat /\ VotesDue(time) \in Nat
      <3>1. time - 1 \in 0..MaxBars BY <1>1, <2>1, VoteConstants
      <3>. QED BY <1>1, <2>1, <3>1, DueType
    <2>. QED BY <1>1, <1>2, <2>2, <2>3, <2>4, <2>5
  <1>7. Quota' => Stays'
    <2>. SUFFICES ASSUME Quota', router'.since < MinStay
                  PROVE  /\ router'.since <= time
                         /\ router'.since < time => Begins(time - router'.since)
                         /\ router'.since = 0 /\ time > 0 => votes' >= VotesDue(time)'
      BY <1>2 DEF Stays, Begins
    <2>1. router'.since = 0 /\ time > 0 => votes' >= VotesDue(time)' BY <1>2, <1>6
    <2>2. CASE router'.since = 0
      <3>1. time > 0 => Begins(time) BY <1>2, <1>6
      <3>2. time - 0 = time BY <1>1
      <3>. QED BY <1>1, <2>1, <2>2, <3>1, <3>2
    <2>3. CASE router'.since = router.since
      <3>1. Stays BY <1>2 DEF Voted, Quota
      <3>. QED BY <2>1, <2>3, <3>1 DEF Stays
    <2>. QED BY <1>3, <2>2, <2>3
  <1>8. ASSUME Quota', run'.length > 0 PROVE SinceVote'
    <2>1. time > 0 /\ time \in 1..time BY <1>1, <1>2, <1>5, <1>8
    <2>2. Begins(time) /\ votes' >= VotesDue(time)' BY <1>2, <1>6, <1>8, <2>1
    <2>3. VotesDue(time)' \in Nat
      <3>1. VotesDue(time)' = VotesDue(time) /\ Quota BY <1>2, <1>8 DEF VotesDue, Quota
      <3>. QED BY <1>1, <3>1, DueType
    <2>. QED BY <1>1, <1>2, <2>1, <2>2, <2>3 DEF SinceVote
  <1>. QED BY <1>3, <1>4, <1>5, <1>6, <1>7, <1>8 DEF Voted

LEMMA BarKeepsVotes ==
  ASSUME TypeOK, Voted, NEW b \in Bars, Bar(b)
  PROVE  Voted'
  <1>1. /\ time \in 0..MaxBars /\ votes \in Nat
        /\ router \in [regime : Regimes, pending : Regimes, count : Nat, since : 0..MinStay]
        /\ run \in [class : Regimes, length : Nat]
    BY DEF TypeOK
  <1>2. /\ time < MaxBars /\ votes = VotesDue(time) /\ time' = time + 1
        /\ UNCHANGED <<profile, votes, classed, run>>
        /\ router' = [router EXCEPT !.since = IF @ < MinStay THEN @ + 1 ELSE @]
    BY DEF Bar
  <1>. DEFINE s == router.since
              v == IF s < MinStay THEN s + 1 ELSE s
  <1>3. /\ router' = [router EXCEPT !.since = v] /\ s \in 0..MinStay
    BY <1>1, <1>2
  <1>. HIDE DEF v
  <1>4. /\ router'.regime = router.regime /\ router'.pending = router.pending
        /\ router'.count = router.count /\ router'.since = v
    BY <1>1, <1>3
  <1>5. Quota' = Quota /\ time' \in 1..MaxBars /\ time' - 1 = time
    BY <1>1, <1>2, VoteConstants DEF Quota
  <1>6. run'.length > 0 => Tracked'
    BY <1>2, <1>4, <1>5 DEF Voted, Tracked, ForClass, ForRegime
  <1>7. ASSUME Quota' PROVE VotesDue(time - 1)' = VotesDue(time) /\ VotesDue(time) \in Nat
    BY <1>1, <1>2, <1>5, <1>7, DueType DEF VotesDue, Quota
  <1>8. Quota' /\ time' > 0 => votes' >= VotesDue(time - 1)'
    BY <1>1, <1>2, <1>7
  <1>9. ASSUME Quota', run'.length > 0 PROVE SinceVote'
    <2>1. PICK t \in 1..time : Begins(t) BY <1>2, <1>5, <1>9 DEF Voted, SinceVote
    <2>2. t \in 1..time' /\ t < time' BY <1>1, <1>2, <2>1
    <2>. QED BY <2>1, <2>2 DEF SinceVote
  <1>10. ASSUME Quota' PROVE Stays'
    <2>. SUFFICES ASSUME v < MinStay
                  PROVE  /\ v <= time' /\ v # 0
                         /\ v < time' => Begins(time' - v)
      BY <1>4 DEF Stays, Begins
    <2>1. s < MinStay /\ v = s + 1 /\ s \in Nat
      BY <1>3, VoteConstants DEF v
    <2>2. Stays BY <1>5, <1>10 DEF Voted
    <2>3. time' - v = time - s BY <1>1, <1>2, <2>1
    <2>. QED BY <1>1, <1>2, <2>1, <2>2, <2>3 DEF Stays
  <1>11. time' # 0 BY <1>5
  <1>. QED BY <1>2, <1>4, <1>6, <1>8, <1>9, <1>10, <1>11 DEF Voted

LEMMA VoteInitHolds == ReplayInit => VoteInv
  <1>. SUFFICES ASSUME ReplayInit PROVE VoteInv OBVIOUS
  <1>1. Start BY DEF ReplayInit
  <1>2. /\ run.length = 0 /\ time = 0 /\ router.since = MinStay
        /\ classed.count = 0 /\ router.count = 0 /\ router.regime = classed.now
    BY <1>1 DEF Start
  <1>3. Stays BY <1>2, VoteConstants DEF Stays
  <1>. QED BY <1>2, <1>3, VoteConstants DEF VoteInv, Voted

LEMMA VoteNextHolds == ReplayInv /\ VoteInv /\ [ReplayNext]_all => VoteInv'
  <1>. SUFFICES ASSUME ReplayInv, VoteInv, [ReplayNext]_all PROVE VoteInv' OBVIOUS
  <1>1. CASE RouterStep
    <2>1. profile \in Profiles /\ TypeOK /\ Voted /\ Next
      BY <1>1 DEF RouterStep, ReplayInv, IInv, VoteInv
    <2>2. Voted' BY <2>1, VoteKeeps, BarKeepsVotes DEF Next
    <2>3. profile' = profile BY <2>1 DEF Next, Vote, Bar
    <2>4. profile' \notin OlderProfiles
      BY <2>1, <2>3, RouterAssumption, ReplayAssumption
    <2>. QED BY <2>2, <2>4 DEF VoteInv
  <1>2. ASSUME NEW b \in Bars, OlderBar(b) \/ Finish(b) PROVE VoteInv'
    <2>1. profile \in OlderProfiles /\ profile' = profile /\ run' = run
      BY <1>2 DEF OlderBar, Finish
    <2>. QED BY <2>1, OlderKind DEF VoteInv
  <1>3. CASE UNCHANGED all
    BY <1>3 DEF all, vars, VoteInv, Voted, Tracked, ForClass, ForRegime, Quota, Stays,
                SinceVote, VotesDue
  <1>. QED BY <1>1, <1>2, <1>3 DEF ReplayNext

\* Once the votes agree, the regime of every router is theirs within the two
\* confirmations of classifySeries and of the loop over the points; it rests on
\* weeks that outlive RegimeMinStayBars.
THEOREM VotesFollowed == ReplaySpec => []FollowsTheVotes
  <1>1. ASSUME ReplayInv, VoteInv PROVE FollowsTheVotes
    <2>. SUFFICES ASSUME run.length >= Lag PROVE router.regime = run.class
      BY DEF FollowsTheVotes
    <2>1. CASE profile \in OlderProfiles
      <3>1. profile # "v6" /\ profile # "v7" BY <2>1, ReplayAssumption
      <3>2. Lag = CalibConfirm + MinConfirm - 1 BY <3>1 DEF Lag
      <3>3. run.length = 0 BY <1>1, <2>1 DEF VoteInv
      <3>. QED BY <3>2, <3>3, VoteConstants
    <2>2. CASE profile \in Profiles
      <3>1. /\ classed.count \in Nat /\ router.count \in Nat /\ run.length \in Nat
            /\ Voted
        BY <1>1, <2>2 DEF ReplayInv, VoteInv, IInv, TypeOK
      <3>2. profile \in {"v6", "v7", "v8", "v9"} BY <2>2, RouterAssumption
      <3>3. CASE profile = "v6"
        <4>1. run.length >= MinConfirm BY <3>3 DEF Lag
        <4>. QED BY <3>1, <3>3, <4>1, VoteConstants DEF Voted, Tracked, ForRegime
      <3>4. CASE profile = "v7"
        <4>1. run.length >= CalibConfirm BY <3>4 DEF Lag
        <4>. QED BY <3>1, <3>4, <4>1, VoteConstants DEF Voted, Tracked, ForClass
      <3>5. CASE Quota
        <4>1. run.length >= CalibConfirm + MinConfirm - 1 BY <3>5 DEF Lag, Quota
        <4>. QED BY <3>1, <3>5, <4>1, VoteConstants DEF Voted, Tracked, ForRegime
      <3>. QED BY <3>2, <3>3, <3>4, <3>5 DEF Quota
    <2>. QED BY <1>1, <2>1, <2>2 DEF ReplayInv
  <1>2. ReplaySpec => []VoteInv
    BY ReplayHolds, VoteInitHolds, VoteNextHolds, PTL DEF ReplaySpec
  <1>. QED BY <1>1, <1>2, ReplayHolds, PTL
-----------------------------------------------------------------------------
(* The trail. *)

SameMarks(p, q) == q.entry = p.entry /\ q.trail = p.trail /\ q.tp1 = p.tp1

\* The trail after a bar: tighter, or that of a first rung.
Follows(s, p, q) ==
  /\ q.entry = p.entry
  /\ p.trail > 0 => \/ Beyond(s, q.trail, p.trail)
                    \/ q.tp1 /\ ~p.tp1 /\ Beyond(s, q.trail, q.entry)

LEMMA SellMarks ==
  ASSUME NEW s, NEW p \in Position, NEW at, NEW q
  PROVE  LET r == Sell(s, p, at, q)
         IN  SameMarks(p, r) /\ r.risk = p.risk /\ r.stop = p.stop
  BY DEF Sell, SameMarks, Position

LEMMA AgedMarks ==
  ASSUME NEW p \in Position
  PROVE  Aged(p) \in Position /\ SameMarks(p, Aged(p)) /\ Aged(p).risk = p.risk
  BY DEF Aged, SameMarks, Position

LEMMA MarkedFields ==
  ASSUME NEW r, NEW p \in Position, NEW s, NEW at, NEW q, r = Sell(s, p, at, q), NEW v
  PROVE  /\ LET e == [r EXCEPT !.tp1 = TRUE, !.trail = v]
            IN  e.entry = p.entry /\ e.risk = p.risk /\ e.tp1 /\ e.trail = v
         /\ LET e == [r EXCEPT !.tp2 = TRUE, !.trail = v]
            IN  e.entry = p.entry /\ e.risk = p.risk /\ e.tp1 = p.tp1 /\ e.trail = v
         /\ LET e == [r EXCEPT !.tp1 = TRUE]
            IN  e.entry = p.entry /\ e.tp1 /\ e.trail = p.trail
  BY DEF Sell, Position

\* A rung that has sold puts the trail to the entry ...
LEMMA Rung1Marks ==
  ASSUME NEW s, NEW p \in Position, NEW at, NEW n
  PROVE  LET q == Rung1(s, p, at, n)
         IN  /\ q.entry = p.entry /\ q.risk = p.risk
             /\ \/ q.trail = p.trail /\ q.tp1 = p.tp1
                \/ ~p.tp1 /\ q.tp1 /\ q.trail = p.entry
  <1>. DEFINE r == Sell(s, p, at, Part(p.qty, n))
              e == [r EXCEPT !.tp1 = TRUE, !.trail = p.entry]
  <1>1. Rung1(s, p, at, n) = p \/ (~p.tp1 /\ Rung1(s, p, at, n) = e)
    BY Zenon DEF Rung1
  <1>2. e.entry = p.entry /\ e.risk = p.risk /\ e.tp1 /\ e.trail = p.entry
    <2>. HIDE DEF r
    <2>1. r = Sell(s, p, at, Part(p.qty, n)) BY DEF r
    <2>. QED BY <2>1, MarkedFields
  <1>. HIDE DEF e
  <1>. QED BY <1>1, <1>2

\* ... and the second never loosens it.
LEMMA Rung2Marks ==
  ASSUME NEW s, NEW p \in Position, NEW at, NEW n
  PROVE  LET q == Rung2(s, p, at, n)
             level == p.entry + Sign(s) * p.risk
         IN  /\ q.entry = p.entry /\ q.tp1 = p.tp1
             /\ \/ q.trail = p.trail
                \/ q.trail = level /\ (p.trail = 0 \/ Beyond(s, level, p.trail))
  <1>. DEFINE r == Sell(s, p, at, Part(p.qty, n))
              level == p.entry + Sign(s) * p.risk
              trail == IF r.trail = 0 \/ Beyond(s, level, r.trail) THEN level ELSE r.trail
              e == [r EXCEPT !.tp2 = TRUE, !.trail = trail]
  <1>1. Rung2(s, p, at, n) = p \/ Rung2(s, p, at, n) = e BY Zenon DEF Rung2
  <1>2. r.trail = p.trail BY SellMarks DEF SameMarks
  <1>3. e.entry = p.entry /\ e.tp1 = p.tp1 /\ e.trail = trail
    <2>. HIDE DEF r, trail
    <2>1. r = Sell(s, p, at, Part(p.qty, n)) BY DEF r
    <2>. QED BY <2>1, MarkedFields
  <1>4. trail = p.trail \/ (trail = level /\ (p.trail = 0 \/ Beyond(s, level, p.trail)))
    <2>. HIDE DEF r, level
    <2>. QED BY <1>2
  <1>. HIDE DEF e, trail
  <1>. QED BY <1>1, <1>3, <1>4

\* No step of the replays loosens a trail, but for the bar of the first rung.
LEMMA LadderFollows ==
  ASSUME NEW s \in Sides, NEW p \in Position, p.active, NEW b \in Bars
  PROVE  Follows(s, p, StepLadder(s, p, b).pos)
  <1>. DEFINE a == Aged(p)
              x == Rung1(s, a, b.close, 40)
              y == Rung2(s, x, b.close, 30)
              level == x.entry + Sign(s) * x.risk
  <1>1. StepLadder(s, p, b).pos = y BY DEF StepLadder, Stepped
  <1>2. /\ a \in Position /\ a.active /\ SameMarks(p, a) /\ a.risk = p.risk
        /\ b.close \in Nat
    BY AgedMarks, AgedKeeps, BarType DEF Kept
  <1>. HIDE DEF a
  <1>3. /\ x \in Position
        /\ x.entry = p.entry /\ x.risk = p.risk
        /\ \/ x.trail = p.trail /\ x.tp1 = p.tp1
           \/ ~p.tp1 /\ x.tp1 /\ x.trail = p.entry
    <2>1. x \in Position
      <3>1. Kept(s, a, x, b.close) BY <1>2, Rung1Keeps
      <3>. QED BY <3>1 DEF Kept
    <2>2. /\ x.entry = a.entry /\ x.risk = a.risk
          /\ \/ x.trail = a.trail /\ x.tp1 = a.tp1
             \/ ~a.tp1 /\ x.tp1 /\ x.trail = a.entry
      BY <1>2, Rung1Marks
    <2>. HIDE DEF x
    <2>. QED BY <1>2, <2>1, <2>2 DEF SameMarks
  <1>. HIDE DEF x
  <1>4. /\ y.entry = x.entry /\ y.tp1 = x.tp1
        /\ \/ y.trail = x.trail
           \/ y.trail = level /\ (x.trail = 0 \/ Beyond(s, level, x.trail))
    BY <1>3, Rung2Marks
  <1>. HIDE DEF y
  <1>5. /\ p.entry \in Nat /\ p.risk \in Nat /\ p.trail \in Nat /\ x.trail \in Nat
    BY <1>3 DEF Position
  <1>6. Beyond(s, p.entry, p.entry) /\ Beyond(s, level, p.entry) /\ Beyond(s, p.trail, p.trail)
    BY <1>3, <1>5, SignCases DEF Beyond
  <1>. HIDE DEF level
  <1>. QED BY <1>1, <1>3, <1>4, <1>5, <1>6 DEF Follows

LEMMA TrailFollows ==
  ASSUME NEW s \in Sides, NEW p \in Position, p.active, p.entry > 0, NEW b \in Bars
  PROVE  Follows(s, p, StepTrail(s, p, b).pos)
  <1>. DEFINE a == Aged(p)
              x == Rung1(s, a, b.close, 25)
              t == Tighter(s, x.trail, b.ema[s])
              trail == InForce(x, t)
              y == [x EXCEPT !.trail = trail]
  <1>1. StepTrail(s, p, b).pos = y BY DEF StepTrail, Stepped
  <1>2. /\ a \in Position /\ a.active /\ SameMarks(p, a) /\ a.risk = p.risk
        /\ b.close \in Nat /\ b.ema[s] \in Nat /\ b.ema[s] > 0
    BY AgedMarks, AgedKeeps, BarType DEF Kept
  <1>. HIDE DEF a
  <1>3. /\ x \in Position
        /\ x.entry = p.entry
        /\ \/ x.trail = p.trail /\ x.tp1 = p.tp1
           \/ ~p.tp1 /\ x.tp1 /\ x.trail = p.entry
    <2>1. x \in Position
      <3>1. Kept(s, a, x, b.close) BY <1>2, Rung1Keeps
      <3>. QED BY <3>1 DEF Kept
    <2>2. /\ x.entry = a.entry /\ x.risk = a.risk
          /\ \/ x.trail = a.trail /\ x.tp1 = a.tp1
             \/ ~a.tp1 /\ x.tp1 /\ x.trail = a.entry
      BY <1>2, Rung1Marks
    <2>. HIDE DEF x
    <2>. QED BY <1>2, <2>1, <2>2 DEF SameMarks
  <1>. HIDE DEF x
  <1>4. y.entry = x.entry /\ y.tp1 = x.tp1 /\ y.trail = trail
    <2>. HIDE DEF trail
    <2>. QED BY <1>3 DEF Position
  <1>5. x.trail \in Nat /\ p.trail \in Nat /\ p.entry \in Nat BY <1>3 DEF Position
  <1>6. x.trail > 0 => trail > 0 /\ Beyond(s, trail, x.trail)
    <2>. SUFFICES ASSUME x.trail > 0 PROVE trail > 0 /\ Beyond(s, trail, x.trail) OBVIOUS
    <2>1. t \in {b.ema[s], x.trail} /\ Beyond(s, t, x.trail)
      BY <1>2, <1>5, SignCases DEF Tighter, Beyond
    <2>. HIDE DEF t
    <2>2. t > 0 /\ t # 0 BY <1>2, <1>5, <2>1
    <2>3. trail = t BY <2>2 DEF InForce
    <2>. QED BY <2>1, <2>2, <2>3
  <1>. HIDE DEF y, trail
  <1>. QED BY <1>1, <1>3, <1>4, <1>5, <1>6 DEF Follows

LEMMA RangeFollows ==
  ASSUME NEW s \in Sides, NEW p \in Position, NEW b \in Bars, NEW inRange
  PROVE  Follows(s, p, StepRange(s, p, b, inRange).pos)
  <1>. DEFINE a == Aged(p)
              q == Part(a.qty, 60)
              x == Sell(s, a, b.close, q)
              y == [x EXCEPT !.tp1 = TRUE]
  <1>1. StepRange(s, p, b, inRange).pos = a \/ StepRange(s, p, b, inRange).pos = y
    BY DEF StepRange, Stepped
  <1>2. a \in Position /\ SameMarks(p, a) BY AgedMarks
  <1>. HIDE DEF a
  <1>3. y.entry = a.entry /\ y.trail = a.trail
    <2>. HIDE DEF x
    <2>1. x = Sell(s, a, b.close, q) BY DEF x
    <2>. QED BY <1>2, <2>1, MarkedFields
  <1>. HIDE DEF y
  <1>4. Beyond(s, p.trail, p.trail)
    <2>1. p.trail \in Nat BY DEF Position
    <2>. QED BY <2>1, SignCases DEF Beyond
  <1>. QED BY <1>1, <1>2, <1>3, <1>4 DEF Follows, SameMarks

LEMMA StepFollows ==
  ASSUME NEW s \in Sides, NEW p \in Position, p.active, p.entry > 0, NEW b \in Bars
  PROVE  Follows(s, p, Step(s, p, b).pos)
  BY LadderFollows, TrailFollows, RangeFollows DEF Step

\* An open position has been entered at a price.
Entered(k) == \A s \in Sides : k.pos[s].active => k.pos[s].entry > 0

\* The books of a closed trade.
LEMMA ClosedSide ==
  ASSUME NEW k \in Book, NEW s \in Sides, NEW pnl
  PROVE  LET pos == [k.pos EXCEPT ![s] = NoPosition]
             c == Closed(k, s, pnl)
         IN  /\ c.pos = pos /\ Booked(c, pnl).pos = pos
             /\ Scored(c, pnl, FALSE).pos = pos
             /\ Scored(Booked(c, pnl), pnl, TRUE).pos = pos
  <1>. DEFINE c == Closed(k, s, pnl)
  <1>1. /\ \A mayPause : /\ Scored(c, pnl, mayPause).pos = c.pos
                         /\ Scored(Booked(c, pnl), pnl, mayPause).pos = c.pos
        /\ Booked(c, pnl).pos = c.pos
        /\ c.pos = [k.pos EXCEPT ![s] = NoPosition]
    BY DEF Scored, Booked, Closed, Book
  <1>. HIDE DEF c
  <1>. QED BY <1>1 DEF c

\* A side that a phase may close or change, and one it does not look at.
OneSide(k, r, s) ==
  /\ \A u \in Sides : u # s => r.pos[u] = k.pos[u]
  /\ r.pos[s].active => k.pos[s].active

LEMMA MoveFollows ==
  ASSUME NEW k, NEW s \in Sides, NEW b \in Bars, Sound(k), Entered(k)
  PROVE  LET r == Move(k, s, b)
         IN  OneSide(k, r, s) /\ (r.pos[s].active => Follows(s, k.pos[s], r.pos[s]))
  <1>. DEFINE p == k.pos[s]
              t == Step(s, p, b)
              q == t.pos
              pnl == ClosingPnL(s, q, b.close)
              x == [k EXCEPT !.pos = [@ EXCEPT ![s] = q]]
              e == Scored(Booked(Closed(k, s, pnl), pnl), pnl, TRUE)
              r == Move(k, s, b)
  <1>1. /\ k \in Book /\ p \in Position /\ k.pos \in [Sides -> Position]
        /\ p.active => p.entry > 0
    BY BookFields DEF Sound, Entered
  <1>2. CASE ~p.active
    <2>1. r = k BY <1>2 DEF Move
    <2>. QED BY <1>2, <2>1 DEF OneSide
  <1>3. CASE p.active
    <2>1. Follows(s, p, q) BY <1>1, <1>3, StepFollows
    <2>2. r \in {x, e} BY <1>3 DEF Move
    <2>. HIDE DEF t
    <2>3. e.pos = [k.pos EXCEPT ![s] = NoPosition] BY <1>1, ClosedSide
    <2>4. x.pos = [k.pos EXCEPT ![s] = q]
      <3>. HIDE DEF q
      <3>. QED BY <1>1 DEF Book
    <2>. HIDE DEF e, x, q, r
    <2>5. r.pos \in {[k.pos EXCEPT ![s] = NoPosition], [k.pos EXCEPT ![s] = q]}
      BY <2>2, <2>3, <2>4
    <2>. QED BY <1>1, <1>3, <2>1, <2>5, NoPositionType DEF OneSide, r
  <1>. QED BY <1>2, <1>3

\* The regime exits leave the marks of what they do not close.
LEMMA RegimeExitMarks ==
  ASSUME NEW k, NEW s \in Sides, NEW b \in Bars, Sound(k)
  PROVE  LET r == RegimeExit(k, s, b)
         IN  OneSide(k, r, s) /\ (r.pos[s].active => SameMarks(k.pos[s], r.pos[s]))
  <1>. DEFINE p == k.pos[s]
              t == SwitchTakeProfit(s, p, b)
              q == t.pos
              x == [k EXCEPT !.net = @ + t.pnl, !.pos = [@ EXCEPT ![s] = q]]
              pnl == ClosingPnL(s, p, b.close)
              c == Closed(k, s, pnl)
              r == RegimeExit(k, s, b)
  <1>1. k \in Book /\ p \in Position /\ k.pos \in [Sides -> Position]
    BY BookFields DEF Sound
  <1>2. CASE ~p.active
    <2>1. r = k BY <1>2 DEF RegimeExit
    <2>. QED BY <1>2, <2>1 DEF OneSide
  <1>3. CASE p.active
    <2>1. r \in {k, x, c, Booked(c, pnl), Scored(c, pnl, FALSE)} BY DEF RegimeExit, SwitchExit
    <2>2. q.active => SameMarks(p, q)
      <3>1. q = p \/ q = NoPosition \/ \E v : q = [p EXCEPT !.remain = v]
        BY DEF SwitchTakeProfit
      <3>2. ASSUME NEW v PROVE SameMarks(p, [p EXCEPT !.remain = v])
        BY <1>1 DEF Position, SameMarks
      <3>. HIDE DEF q
      <3>. QED BY <3>1, <3>2, NoPositionType DEF SameMarks
    <2>3. /\ c.pos = [k.pos EXCEPT ![s] = NoPosition]
          /\ Booked(c, pnl).pos = [k.pos EXCEPT ![s] = NoPosition]
          /\ Scored(c, pnl, FALSE).pos = [k.pos EXCEPT ![s] = NoPosition]
      BY <1>1, ClosedSide
    <2>4. x.pos = [k.pos EXCEPT ![s] = q]
      <3>. HIDE DEF q
      <3>. QED BY <1>1 DEF Book
    <2>. HIDE DEF c, x, q, r
    <2>5. r.pos \in {k.pos, [k.pos EXCEPT ![s] = NoPosition], [k.pos EXCEPT ![s] = q]}
      BY <2>1, <2>3, <2>4
    <2>. QED BY <1>1, <1>3, <2>2, <2>5, NoPositionType DEF OneSide, SameMarks, r
  <1>. QED BY <1>2, <1>3

\* An entry is at the close of the bar, and counted.
LEMMA EntryEnters ==
  ASSUME NEW k \in Book, NEW b \in Bars, NEW blocked, Entered(k)
  PROVE  LET r == Entry(k, b, blocked)
         IN  Entered(r) /\ (r.opened = k.opened => r.pos = k.pos)
  <1>. DEFINE o == Offer(b)
              p == Opened(o.side, b.close, o.stop, router.regime = "RANGE")
              pos == [k.pos EXCEPT ![o.side] = p]
              n == k.opened + 1
              c == IF Quota THEN CooldownBars ELSE k.cooldown
              e == IF Quota THEN Added(k.entries, WeekOf[time], 1) ELSE k.entries
              r == [k EXCEPT !.pos = pos, !.opened = n, !.cooldown = c, !.entries = e]
  <1>1. Entry(k, b, blocked) \in {k, r} BY Zenon DEF Entry
  <1>2. p.entry = b.close /\ b.close > 0 BY BarType DEF Opened
  <1>3. k.pos \in [Sides -> Position] /\ k.opened \in Nat BY BookFields
  <1>. HIDE DEF p, c, e
  <1>4. r.pos = pos /\ r.opened = n BY DEF Book
  <1>. HIDE DEF r
  <1>5. Entered(r) BY <1>2, <1>3, <1>4 DEF Entered
  <1>6. r.opened # k.opened BY <1>3, <1>4
  <1>. QED BY <1>1, <1>5, <1>6

\* A whole bar of the routers.
BarTrails(n) ==
  /\ Entered(n)
  /\ n.opened = book.opened =>
       \A s \in Sides : n.pos[s].active =>
         book.pos[s].active /\ Follows(s, book.pos[s], n.pos[s])

LEMMA BarFollows ==
  ASSUME TypeOK, Sound(book), Entered(book), NEW b \in Bars
  PROVE  BarTrails(BookAfter(b))
  <1>. DEFINE at == b.close
              k == Waited(book)
              blocked == RiskBlocked(k)
              x == RegimeExit(k, "long", b)
              y == RegimeExit(x, "short", b)
              e == Entry(y, b, blocked)
              m == Move(e, "long", b)
              n == Move(m, "short", b)
  <1>1. /\ profile \in {"v6", "v7", "v8", "v9"} /\ time \in 0..MaxBars /\ router.regime \in Regimes
        /\ "long" \in Sides /\ "short" \in Sides /\ Sides = {"long", "short"}
    BY RouterAssumption DEF TypeOK, Sides
  <1>2. BookAfter(b) = n BY DEF BookAfter, BothSides
  <1>3. Sound(k) /\ k.opened = book.opened /\ k.pos = book.pos
    <2>1. Through(book, k, at) BY WaitedThrough
    <2>2. k.pos = book.pos /\ k.opened = book.opened BY DEF Waited, Sound, Book
    <2>. QED BY <2>1, <2>2 DEF Through
  <1>. HIDE DEF k, blocked
  <1>4. /\ Sound(x) /\ x.opened = k.opened
        /\ OneSide(k, x, "long") /\ (x.pos["long"].active => SameMarks(k.pos["long"], x.pos["long"]))
    <2>1. Through(k, x, at) BY <1>1, <1>3, RegimeExitThrough
    <2>2. Quiet(k, x) BY <1>1, <1>3, RegimeExitQuiet
    <2>3. /\ OneSide(k, x, "long")
          /\ x.pos["long"].active => SameMarks(k.pos["long"], x.pos["long"])
      BY <1>1, <1>3, RegimeExitMarks
    <2>. HIDE DEF x
    <2>. QED BY <2>1, <2>2, <2>3 DEF Through, Quiet
  <1>. HIDE DEF x
  <1>5. /\ Sound(y) /\ y.opened = x.opened
        /\ OneSide(x, y, "short") /\ (y.pos["short"].active => SameMarks(x.pos["short"], y.pos["short"]))
    <2>1. Through(x, y, at) BY <1>1, <1>4, RegimeExitThrough
    <2>2. Quiet(x, y) BY <1>1, <1>4, RegimeExitQuiet
    <2>3. /\ OneSide(x, y, "short")
          /\ y.pos["short"].active => SameMarks(x.pos["short"], y.pos["short"])
      BY <1>1, <1>4, RegimeExitMarks
    <2>. HIDE DEF y
    <2>. QED BY <2>1, <2>2, <2>3 DEF Through, Quiet
  <1>. HIDE DEF y
  <1>6. \A s \in Sides : y.pos[s].active =>
          book.pos[s].active /\ SameMarks(book.pos[s], y.pos[s])
    BY <1>1, <1>3, <1>4, <1>5 DEF OneSide
  <1>7. Entered(y) BY <1>6 DEF Entered, SameMarks
  <1>8. Sound(e) /\ Entered(e) /\ (e.opened = y.opened => e.pos = y.pos)
    <2>1. Sound(e) BY <1>1, <1>5, EntryThrough
    <2>2. y \in Book BY <1>5 DEF Sound
    <2>3. Entered(e) /\ (e.opened = y.opened => e.pos = y.pos) BY <1>7, <2>2, EntryEnters
    <2>. QED BY <2>1, <2>3
  <1>. HIDE DEF e
  <1>9. /\ Sound(m) /\ m.opened = e.opened
        /\ OneSide(e, m, "long") /\ (m.pos["long"].active => Follows("long", e.pos["long"], m.pos["long"]))
    <2>1. Through(e, m, at) BY <1>1, <1>8, MoveThrough
    <2>2. Quiet(e, m) BY <1>1, <1>8, MoveQuiet
    <2>3. /\ OneSide(e, m, "long")
          /\ m.pos["long"].active => Follows("long", e.pos["long"], m.pos["long"])
      BY <1>1, <1>8, MoveFollows
    <2>. HIDE DEF m
    <2>. QED BY <2>1, <2>2, <2>3 DEF Through, Quiet
  <1>. HIDE DEF m
  <1>10. Entered(m) BY <1>1, <1>8, <1>9 DEF Entered, OneSide, Follows
  <1>11. /\ n.opened = m.opened
         /\ OneSide(m, n, "short") /\ (n.pos["short"].active => Follows("short", m.pos["short"], n.pos["short"]))
    <2>1. Quiet(m, n) BY <1>1, <1>9, MoveQuiet
    <2>2. /\ OneSide(m, n, "short")
          /\ n.pos["short"].active => Follows("short", m.pos["short"], n.pos["short"])
      BY <1>1, <1>9, <1>10, MoveFollows
    <2>. HIDE DEF n
    <2>. QED BY <2>1, <2>2 DEF Quiet
  <1>. HIDE DEF n
  <1>12. \A s \in Sides : n.pos[s].active =>
           e.pos[s].active /\ Follows(s, e.pos[s], n.pos[s])
    BY <1>1, <1>9, <1>11 DEF OneSide
  <1>13. Entered(n) BY <1>8, <1>12 DEF Entered, Follows
  <1>14. ASSUME n.opened = book.opened, NEW s \in Sides, n.pos[s].active
         PROVE  book.pos[s].active /\ Follows(s, book.pos[s], n.pos[s])
    <2>1. e.pos = y.pos BY <1>3, <1>4, <1>5, <1>8, <1>9, <1>11, <1>14
    <2>2. e.pos[s].active /\ Follows(s, e.pos[s], n.pos[s]) BY <1>12, <1>14
    <2>3. book.pos[s].active /\ SameMarks(book.pos[s], e.pos[s]) BY <1>6, <2>1, <2>2
    <2>. QED BY <2>2, <2>3 DEF Follows, SameMarks
  <1>. QED BY <1>2, <1>13, <1>14 DEF BarTrails
\* A bar of the older loop moves its position or enters one.
LEMMA TacticalFollows ==
  ASSUME Sound(book), Entered(book), ~book.pos["short"].active, NEW b \in Bars,
         profile \in OlderProfiles
  PROVE  BarTrails(TacticalAfter(b))
  <1>. DEFINE k == Waited(book)
              n == TacticalAfter(b)
  <1>1. /\ "long" \in Sides /\ "short" \in Sides /\ Sides = {"long", "short"} BY DEF Sides
  <1>2. k \in Book /\ k.pos = book.pos /\ k.opened = book.opened
    <2>1. Through(book, k, b.close) BY WaitedThrough
    <2>2. k.pos = book.pos /\ k.opened = book.opened BY DEF Waited, Sound, Book
    <2>. QED BY <2>1, <2>2 DEF Through, Sound
  <1>3. n = IF Flat(k) THEN TacticalEntry(k, b) ELSE TacticalMove(k, b) BY DEF TacticalAfter
  <1>. HIDE DEF k, n
  <1>4. k.pos \in [Sides -> Position] /\ k.opened \in Nat BY <1>2, BookFields
  <1>5. ASSUME Flat(k) PROVE BarTrails(n)
    <2>. DEFINE stop == SignalStop(b)
                p == IF profile = "v4" THEN Tactical!Opened("long", b.close, stop, FALSE)
                     ELSE Opened("long", b.close, stop, FALSE)
                pos == [k.pos EXCEPT !["long"] = p]
                o == k.opened + 1
                r == [k EXCEPT !.pos = pos, !.opened = o]
    <2>1. n \in {k, r} BY <1>3, <1>5, Zenon DEF TacticalEntry
    <2>2. p.entry = b.close /\ b.close > 0
      <3>1. Opened("long", b.close, stop, FALSE).entry = b.close BY DEF Opened
      <3>2. Tactical!Opened("long", b.close, stop, FALSE).entry = b.close BY DEF Tactical!Opened
      <3>. QED BY <3>1, <3>2, BarType
    <2>. HIDE DEF p
    <2>3. r.pos = pos /\ r.opened = o BY <1>2 DEF Book
    <2>. HIDE DEF r
    <2>4. Entered(r) BY <1>2, <1>4, <2>2, <2>3 DEF Entered
    <2>5. r.opened # k.opened BY <1>4, <2>3
    <2>6. Entered(k) /\ \A s \in Sides : ~k.pos[s].active BY <1>2, <1>5 DEF Entered, Flat
    <2>7. CASE n = r BY <1>2, <2>4, <2>5, <2>7 DEF BarTrails
    <2>8. CASE n = k BY <2>6, <2>8 DEF BarTrails
    <2>. QED BY <2>1, <2>7, <2>8
  <1>6. ASSUME ~Flat(k) PROVE BarTrails(n)
    <2>. DEFINE s == "long"
                p == k.pos[s]
                t == StepLadder(s, p, b)
                q == t.pos
                pnl == ClosingPnL(s, q, b.close)
                c == Closed(k, s, pnl)
                x == [k EXCEPT !.pos = [@ EXCEPT ![s] = q]]
    <2>1. p.active /\ p \in Position /\ ~k.pos["short"].active
      BY <1>1, <1>2, <1>4, <1>6 DEF Flat
    <2>2. Follows(s, p, q) BY <1>1, <2>1, LadderFollows
    <2>3. n \in {x, Scored(Booked(c, pnl), pnl, TRUE), Scored(c, pnl, FALSE)}
      BY <1>3, <1>6 DEF TacticalMove
    <2>. HIDE DEF t, q
    <2>4. /\ Scored(c, pnl, FALSE).pos = [k.pos EXCEPT ![s] = NoPosition]
          /\ Scored(Booked(c, pnl), pnl, TRUE).pos = [k.pos EXCEPT ![s] = NoPosition]
      BY <1>1, <1>2, ClosedSide
    <2>5. x.pos = [k.pos EXCEPT ![s] = q] BY <1>2 DEF Book
    <2>. HIDE DEF c, x
    <2>6. n.pos \in {[k.pos EXCEPT ![s] = NoPosition], [k.pos EXCEPT ![s] = q]}
      BY <2>3, <2>4, <2>5
    <2>7. \A u \in Sides : n.pos[u].active => u = s /\ n.pos[u] = q
      BY <1>1, <1>4, <2>1, <2>6, NoPositionType
    <2>8. p.entry > 0 BY <1>1, <1>2, <2>1 DEF Entered
    <2>9. q.entry = p.entry BY <2>2 DEF Follows
    <2>. HIDE DEF p, q
    <2>10. Entered(n) BY <2>7, <2>8, <2>9 DEF Entered
    <2>11. \A u \in Sides : n.pos[u].active =>
             book.pos[u].active /\ Follows(u, book.pos[u], n.pos[u])
      BY <1>2, <2>1, <2>2, <2>7 DEF p
    <2>. QED BY <2>10, <2>11 DEF BarTrails
  <1>. QED BY <1>5, <1>6 DEF n

LEMMA TrailStep ==
  ASSUME ReplayInv, Entered(book), [ReplayNext]_all
  PROVE  book' = book \/ (\E n \in Book : book' = n /\ BarTrails(n))
  <1>1. ASSUME RouterStep, NEW b \in Bars, Bar(b) PROVE \E n \in Book : book' = n /\ BarTrails(n)
    <2>1. TypeOK /\ Sound(book) BY <1>1 DEF RouterStep, ReplayInv, IInv
    <2>2. BookAfter(b) \in Book BY <2>1, BarKeeps DEF Sound
    <2>3. book' = BookAfter(b) BY <1>1 DEF Bar
    <2>. QED BY <2>1, <2>2, <2>3, BarFollows
  <1>2. ASSUME NEW c \in Regimes, NEW decided \in BOOLEAN, Vote(c, decided) PROVE book' = book
    BY <1>2 DEF Vote
  <1>3. ASSUME NEW b \in Bars, OlderBar(b) PROVE \E n \in Book : book' = n /\ BarTrails(n)
    <2>1. /\ Sound(book) /\ ~book.pos["short"].active /\ profile \in OlderProfiles
          /\ time \in 0..MaxBars
      BY <1>3 DEF OlderBar, ReplayInv
    <2>2. TacticalAfter(b) \in Book BY <2>1, TacticalCarries DEF Carried, Sound
    <2>3. book' = TacticalAfter(b) BY <1>3 DEF OlderBar
    <2>. QED BY <2>1, <2>2, <2>3, TacticalFollows
  <1>4. ASSUME NEW b \in Bars, Finish(b) PROVE book' = book BY <1>4 DEF Finish
  <1>5. CASE UNCHANGED all BY <1>5 DEF all, vars
  <1>6. CASE RouterStep
    <2>1. Next BY <1>6 DEF RouterStep
    <2>. QED BY <1>1, <1>2, <1>6, <2>1 DEF Next
  <1>. QED BY <1>3, <1>4, <1>5, <1>6 DEF ReplayNext

\* The steps of a position never loosen its trail, but for the first rung of v8
\* and v9, which may put it back to the entry.
THEOREM TrailKept == ReplaySpec => TrailNeverLoosens
  <1>1. ReplayInit => Entered(book)
    BY NoPositionType DEF ReplayInit, Start, Entered
  <1>2. ReplayInv /\ Entered(book) /\ [ReplayNext]_all => Entered(book)'
    <2>. SUFFICES ASSUME ReplayInv, Entered(book), [ReplayNext]_all PROVE Entered(book')
      BY DEF Entered
    <2>. QED BY TrailStep DEF BarTrails
  <1>3. ReplaySpec => []Entered(book)
    BY <1>1, <1>2, ReplayHolds, PTL DEF ReplaySpec
  <1>4. ASSUME ReplayInv, Entered(book), [ReplayNext]_all,
               NEW s \in Sides, book.pos[s].active, book'.pos[s].active,
               book'.opened = book.opened, book.pos[s].trail > 0
        PROVE  \/ Beyond(s, book'.pos[s].trail, book.pos[s].trail)
               \/ book'.pos[s].tp1 /\ ~book.pos[s].tp1 /\ Beyond(s, book'.pos[s].trail, book'.pos[s].entry)
    <2>1. CASE book' = book
      <3>1. book.pos[s].trail \in Nat BY <1>4, BookFields DEF ReplayInv, Sound, Position
      <3>2. Beyond(s, book.pos[s].trail, book.pos[s].trail) BY <3>1, SignCases DEF Beyond
      <3>. QED BY <2>1, <3>2
    <2>2. CASE \E n \in Book : book' = n /\ BarTrails(n)
      BY <1>4, <2>2 DEF BarTrails, Follows
    <2>. QED BY <1>4, <2>1, <2>2, TrailStep
  <1>5. ReplayInv /\ Entered(book) /\ [ReplayNext]_all =>
          [\A s \in Sides :
             LET p == book.pos[s]  q == book'.pos[s]
             IN  p.active /\ q.active /\ book'.opened = book.opened /\ p.trail > 0 =>
                   \/ Beyond(s, q.trail, p.trail)
                   \/ q.tp1 /\ ~p.tp1 /\ Beyond(s, q.trail, q.entry)]_vars
    BY <1>4
  <1>. QED BY <1>3, <1>5, ReplayHolds, PTL DEF ReplaySpec, TrailNeverLoosens
-----------------------------------------------------------------------------
(* Sums over a finite domain: FoldFunction is a loop that takes one element  *)
(* after the other; induction over the size of what is left is a least       *)
(* counterexample.                                                           *)

LEMMA LeastOf ==
  ASSUME NEW T \in SUBSET Nat, NEW z \in T
  PROVE  \E x \in T : x = 0 \/ x - 1 \in Nat \ T
  <1>1. PICK x \in T : \A y \in T : ~(<<y, x>> \in OpToRel(<, Nat))
    BY NatLessThanWellFounded, WFMin
  <1>2. \A y \in T : ~(y < x) BY <1>1 DEF OpToRel
  <1>. QED BY <1>2

\* The element that is taken from a set, and what it leaves.
Taken(s) == CHOOSE x \in s : TRUE
Rest(s)  == s \ {Taken(s)}

LEMMA RestIsSmaller ==
  ASSUME NEW D, IsFiniteSet(D), NEW s \in SUBSET D
  PROVE  /\ Cardinality(s) \in Nat /\ Cardinality(s) <= Cardinality(D)
         /\ Cardinality(s) = 0 <=> s = {}
         /\ s # {} => /\ Taken(s) \in s /\ Rest(s) \in SUBSET D
                      /\ Cardinality(Rest(s)) = Cardinality(s) - 1
  <1>1. IsFiniteSet(s) /\ Cardinality(s) <= Cardinality(D) BY FS_Subset
  <1>2. Cardinality(s) \in Nat /\ (Cardinality(s) = 0 <=> s = {})
    BY <1>1, FS_CardinalityType, FS_EmptySet
  <1>3. ASSUME s # {}
        PROVE  /\ Taken(s) \in s /\ Rest(s) \in SUBSET D
               /\ Cardinality(Rest(s)) = Cardinality(s) - 1
    <2>1. Taken(s) \in s BY <1>3 DEF Taken
    <2>. HIDE DEF Taken
    <2>2. Cardinality(s \ {Taken(s)}) = Cardinality(s) - 1 BY <1>1, <2>1, FS_RemoveElement
    <2>. QED BY <2>1, <2>2 DEF Rest
  <1>. QED BY <1>1, <1>2, <1>3

\* The loop over the sets of up to "m" elements.
SumUpTo(D, f, h, m) ==
  \A s \in SUBSET D : Cardinality(s) <= m =>
    h[s] = IF s = {} THEN 0 ELSE f[Taken(s)] + h[Rest(s)]

LEMMA SumUpToExists ==
  ASSUME NEW D, IsFiniteSet(D), NEW f, NEW m \in Nat
  PROVE  \E h : h = [s \in SUBSET D |-> h[s]] /\ SumUpTo(D, f, h, m)
  <1>. DEFINE Upto(h, i) == h = [s \in SUBSET D |-> h[s]] /\ SumUpTo(D, f, h, i)
              T == {i \in Nat : ~(\E h : Upto(h, i))}
  <1>1. ASSUME m \in T PROVE FALSE
    <2>1. PICK i \in T : i = 0 \/ i - 1 \in Nat \ T BY <1>1, LeastOf
    <2>2. CASE i = 0
      <3>. DEFINE h == [s \in SUBSET D |-> 0]
      <3>1. \A s \in SUBSET D : Cardinality(s) <= 0 => s = {} BY RestIsSmaller
      <3>2. Upto(h, 0) BY <3>1 DEF SumUpTo
      <3>. QED BY <2>1, <2>2, <3>2
    <2>3. CASE i - 1 \in Nat \ T
      <3>1. PICK h : Upto(h, i - 1) BY <2>3
      <3>. DEFINE g == [s \in SUBSET D |->
                          IF s = {} THEN 0
                          ELSE IF Cardinality(s) = i THEN f[Taken(s)] + h[Rest(s)] ELSE h[s]]
      <3>2. i \in Nat /\ i - 1 \in Nat BY <2>3
      <3>3. ASSUME NEW s \in SUBSET D, Cardinality(s) <= i, s # {}
            PROVE  g[s] = f[Taken(s)] + h[Rest(s)] /\ g[Rest(s)] = h[Rest(s)]
        <4>1. /\ Cardinality(s) \in Nat /\ Rest(s) \in SUBSET D
              /\ Cardinality(Rest(s)) = Cardinality(s) - 1
          BY <3>3, RestIsSmaller
        <4>2. Cardinality(s) # i => Cardinality(s) <= i - 1 BY <3>2, <3>3, <4>1
        <4>3. Cardinality(s) # i => h[s] = f[Taken(s)] + h[Rest(s)]
          BY <3>1, <3>3, <4>2 DEF SumUpTo
        <4>4. g[s] = f[Taken(s)] + h[Rest(s)] BY <3>3, <4>3
        <4>5. Cardinality(Rest(s)) # i BY <3>2, <3>3, <4>1
        <4>6. Cardinality({}) <= i - 1 /\ {} \in SUBSET D BY <3>2, FS_EmptySet
        <4>7. h[{}] = 0 BY <3>1, <4>6 DEF SumUpTo
        <4>8. g[Rest(s)] = IF Rest(s) = {} THEN 0 ELSE h[Rest(s)] BY <4>1, <4>5
        <4>. QED BY <4>4, <4>7, <4>8
      <3>4. g[{}] = 0 /\ g = [s \in SUBSET D |-> g[s]] BY {} \in SUBSET D
      <3>. HIDE DEF g
      <3>5. SumUpTo(D, f, g, i) BY <3>3, <3>4 DEF SumUpTo
      <3>. QED BY <2>1, <3>4, <3>5
    <2>. QED BY <2>1, <2>2, <2>3
  <1>. HIDE DEF Upto
  <1>2. \E h : Upto(h, m) BY <1>1
  <1>. QED BY <1>2 DEF Upto

LEMMA SumLoop ==
  ASSUME NEW D, IsFiniteSet(D), NEW f, DOMAIN f = D
  PROVE  \E h : Total(f) = h[D] /\ SumUpTo(D, f, h, Cardinality(D))
  <1>. DEFINE Loop(h) == h = [s \in SUBSET D |-> IF s = {} THEN 0 ELSE f[Taken(s)] + h[Rest(s)]]
              l == CHOOSE h : Loop(h)
  <1>1. \E h : Loop(h)
    <2>1. Cardinality(D) \in Nat BY FS_CardinalityType
    <2>2. PICK h : h = [s \in SUBSET D |-> h[s]] /\ SumUpTo(D, f, h, Cardinality(D))
      BY <2>1, SumUpToExists
    <2>3. \A s \in SUBSET D : h[s] = IF s = {} THEN 0 ELSE f[Taken(s)] + h[Rest(s)]
      BY <2>2, RestIsSmaller DEF SumUpTo
    <2>4. Loop(h) BY <2>2, <2>3
    <2>. QED BY <2>4
  <1>2. Loop(l) BY <1>1
  <1>3. Total(f) = l[D]
    BY DEF Total, FoldFunction, FoldFunctionOnSet, MapThenFoldSet, Taken, Rest
  <1>. HIDE DEF l
  <1>4. SumUpTo(D, f, l, Cardinality(D)) BY <1>2 DEF SumUpTo
  <1>. QED BY <1>3, <1>4

\* What holds of the empty sum and of every longer one holds of the whole; here
\* that two sums differ by what the functions differ by at one place.
LEMMA SumsDiffer ==
  ASSUME NEW D, IsFiniteSet(D), NEW f \in [D -> Int], NEW g \in [D -> Int],
         NEW x \in D, NEW n \in Int, g[x] = f[x] + n, \A y \in D : y # x => g[y] = f[y]
  PROVE  Total(g) = Total(f) + n /\ Total(f) \in Int
  <1>1. PICK h : Total(f) = h[D] /\ SumUpTo(D, f, h, Cardinality(D)) BY SumLoop
  <1>2. PICK k : Total(g) = k[D] /\ SumUpTo(D, g, k, Cardinality(D)) BY SumLoop
  <1>. DEFINE More(s) == h[s] \in Int /\ k[s] = h[s] + (IF x \in s THEN n ELSE 0)
              T == {m \in Nat : \E s \in SUBSET D : Cardinality(s) = m /\ ~More(s)}
  <1>3. ASSUME NEW z \in T PROVE FALSE
    <2>1. PICK m \in T : m = 0 \/ m - 1 \in Nat \ T BY <1>3, LeastOf
    <2>2. PICK s \in SUBSET D : Cardinality(s) = m /\ ~More(s) BY <2>1
    <2>3. /\ Cardinality(s) \in Nat /\ Cardinality(s) <= Cardinality(D)
          /\ Cardinality(s) = 0 <=> s = {}
          /\ s # {} => /\ Taken(s) \in s /\ Rest(s) \in SUBSET D
                       /\ Cardinality(Rest(s)) = Cardinality(s) - 1
      BY RestIsSmaller
    <2>4. CASE s = {}
      <3>1. h[s] = 0 /\ k[s] = 0 BY <1>1, <1>2, <2>3, <2>4 DEF SumUpTo
      <3>. QED BY <2>2, <2>4, <3>1
    <2>5. CASE s # {}
      <3>1. h[s] = f[Taken(s)] + h[Rest(s)] /\ k[s] = g[Taken(s)] + k[Rest(s)]
        BY <1>1, <1>2, <2>3, <2>5 DEF SumUpTo
      <3>2. m - 1 \in Nat \ T BY <2>1, <2>2, <2>3, <2>5
      <3>3. More(Rest(s)) BY <2>2, <2>3, <2>5, <3>2
      <3>4. /\ f[Taken(s)] \in Int
            /\ g[Taken(s)] = f[Taken(s)] + (IF Taken(s) = x THEN n ELSE 0)
        BY <2>3, <2>5
      <3>5. x \in s <=> (Taken(s) = x \/ x \in Rest(s)) BY <2>3, <2>5 DEF Rest
      <3>6. ~(Taken(s) = x /\ x \in Rest(s)) BY DEF Rest
      <3>7. More(s) BY <3>1, <3>3, <3>4, <3>5, <3>6
      <3>. QED BY <2>2, <3>7
    <2>. QED BY <2>4, <2>5
  <1>. HIDE DEF More
  <1>4. More(D)
    <2>1. Cardinality(D) \in Nat BY FS_CardinalityType
    <2>. QED BY <1>3, <2>1
  <1>. QED BY <1>1, <1>2, <1>4 DEF More

LEMMA SumOfZeros ==
  ASSUME NEW D, IsFiniteSet(D)
  PROVE  Total([x \in D |-> 0]) = 0
  <1>. DEFINE f == [x \in D |-> 0]
  <1>1. PICK h : Total(f) = h[D] /\ SumUpTo(D, f, h, Cardinality(D)) BY SumLoop
  <1>. DEFINE T == {m \in Nat : \E s \in SUBSET D : Cardinality(s) = m /\ h[s] # 0}
  <1>2. ASSUME NEW z \in T PROVE FALSE
    <2>1. PICK m \in T : m = 0 \/ m - 1 \in Nat \ T BY <1>2, LeastOf
    <2>2. PICK s \in SUBSET D : Cardinality(s) = m /\ h[s] # 0 BY <2>1
    <2>3. /\ Cardinality(s) \in Nat /\ Cardinality(s) <= Cardinality(D)
          /\ Cardinality(s) = 0 <=> s = {}
          /\ s # {} => /\ Taken(s) \in s /\ Rest(s) \in SUBSET D
                       /\ Cardinality(Rest(s)) = Cardinality(s) - 1
      BY RestIsSmaller
    <2>4. CASE s = {} BY <1>1, <2>2, <2>3, <2>4 DEF SumUpTo
    <2>5. CASE s # {}
      <3>1. h[s] = f[Taken(s)] + h[Rest(s)] BY <1>1, <2>3, <2>5 DEF SumUpTo
      <3>2. m - 1 \in Nat \ T BY <2>1, <2>2, <2>3, <2>5
      <3>3. h[Rest(s)] = 0 BY <2>2, <2>3, <2>5, <3>2
      <3>4. f[Taken(s)] = 0 BY <2>3, <2>5
      <3>. QED BY <2>2, <3>1, <3>3, <3>4
    <2>. QED BY <2>4, <2>5
  <1>3. h[D] = 0
    <2>1. Cardinality(D) \in Nat BY FS_CardinalityType
    <2>. QED BY <1>2, <2>1
  <1>. QED BY <1>1, <1>3
-----------------------------------------------------------------------------
(* The loss gate sees every figure of v9 and of the tactical leg of v4. *)

Shown(k) == k.net = Total(k.day) /\ k.net = Total(k.week)

LEMMA CalendarFinite == IsFiniteSet(Days) /\ IsFiniteSet(Weeks)
  <1>1. IsFiniteSet(0..MaxBars) BY ConstantTypes, FS_Interval
  <1>2. ASSUME NEW f PROVE IsFiniteSet({f[t] : t \in 0..MaxBars})
    <2>. DEFINE g == [t \in 0..MaxBars |-> f[t]]
    <2>1. g \in Surjection(0..MaxBars, {f[t] : t \in 0..MaxBars}) BY DEF Surjection
    <2>. QED BY <1>1, <2>1, FS_Surjection
  <1>. QED BY <1>2 DEF Days, Weeks

LEMMA AddedTotal ==
  ASSUME NEW D, IsFiniteSet(D), NEW f \in [D -> Int], NEW x \in D, NEW n \in Int
  PROVE  Total(Added(f, x, n)) = Total(f) + n
  <1>. DEFINE g == Added(f, x, n)
  <1>1. g \in [D -> Int] /\ g[x] = f[x] + n /\ \A y \in D : y # x => g[y] = f[y]
    BY DEF Added
  <1>. HIDE DEF g
  <1>2. Total(g) = Total(f) + n BY <1>1, SumsDiffer
  <1>. QED BY <1>2 DEF g

\* A trade that is closed, booked and scored is shown to the gate.
LEMMA ClosedShown ==
  ASSUME NEW k \in Book, NEW s \in Sides, NEW pnl \in Int, Shown(k), time \in 0..MaxBars
  PROVE  LET d == Booked(Closed(k, s, pnl), pnl)
         IN  Shown(d) /\ Shown(Scored(d, pnl, TRUE))
  <1>. DEFINE d == Booked(Closed(k, s, pnl), pnl)
  <1>1. /\ d.net = k.net + pnl
        /\ d.day = Added(k.day, DayOf[time], pnl)
        /\ d.week = Added(k.week, WeekOf[time], pnl)
    BY DEF Booked, Closed, Book
  <1>2. DayOf[time] \in Days /\ WeekOf[time] \in Weeks BY DEF Days, Weeks
  <1>3. k.day \in [Days -> Int] /\ k.week \in [Weeks -> Int] BY BookFields
  <1>4. Total(d.day) = Total(k.day) + pnl /\ Total(d.week) = Total(k.week) + pnl
    BY <1>1, <1>2, <1>3, CalendarFinite, AddedTotal
  <1>5. LET e == Scored(d, pnl, TRUE)
        IN  e.net = d.net /\ e.day = d.day /\ e.week = d.week
    BY DEF Scored, Booked, Closed, Book
  <1>. HIDE DEF d
  <1>6. Shown(d) BY <1>1, <1>4 DEF Shown
  <1>. QED BY <1>5, <1>6 DEF Shown, d

\* A book whose figures do not move.
LEMMA SameShown ==
  ASSUME NEW k, NEW r, Shown(k), r.net = k.net, r.day = k.day, r.week = k.week
  PROVE  Shown(r)
  BY DEF Shown

LEMMA RegimeExitShown ==
  ASSUME NEW k, NEW s \in Sides, NEW b \in Bars, Sound(k), Shown(k), profile = "v9",
         time \in 0..MaxBars
  PROVE  Shown(RegimeExit(k, s, b))
  <1>. DEFINE pnl == ClosingPnL(s, k.pos[s], b.close)
  <1>1. k \in Book /\ k.pos[s] \in Position /\ b.close \in Nat
    BY BookFields, BarType DEF Sound
  <1>2. pnl \in Int BY <1>1, GainInt
  <1>3. RegimeExit(k, s, b) \in {k, Booked(Closed(k, s, pnl), pnl)} BY DEF RegimeExit
  <1>. HIDE DEF pnl
  <1>4. Shown(Booked(Closed(k, s, pnl), pnl)) BY <1>1, <1>2, ClosedShown
  <1>. QED BY <1>3, <1>4

LEMMA EntryShown ==
  ASSUME NEW k \in Book, NEW b, NEW blocked, Shown(k)
  PROVE  Shown(Entry(k, b, blocked))
  <1>. DEFINE o == Offer(b)
              p == Opened(o.side, b.close, o.stop, router.regime = "RANGE")
              pos == [k.pos EXCEPT ![o.side] = p]
              n == k.opened + 1
              c == IF Quota THEN CooldownBars ELSE k.cooldown
              e == IF Quota THEN Added(k.entries, WeekOf[time], 1) ELSE k.entries
              r == [k EXCEPT !.pos = pos, !.opened = n, !.cooldown = c, !.entries = e]
  <1>1. Entry(k, b, blocked) \in {k, r} BY Zenon DEF Entry
  <1>. HIDE DEF pos, n, c, e
  <1>2. r.net = k.net /\ r.day = k.day /\ r.week = k.week BY DEF Book
  <1>. HIDE DEF r
  <1>3. Shown(r) BY <1>2, SameShown
  <1>. QED BY <1>1, <1>3

LEMMA MoveShown ==
  ASSUME NEW k, NEW s \in Sides, NEW b \in Bars, Sound(k), Shown(k), time \in 0..MaxBars
  PROVE  Shown(Move(k, s, b))
  <1>. DEFINE t == Step(s, k.pos[s], b)
              q == t.pos
              pnl == ClosingPnL(s, q, b.close)
              pos == [k.pos EXCEPT ![s] = q]
              x == [k EXCEPT !.pos = pos]
              e == Scored(Booked(Closed(k, s, pnl), pnl), pnl, TRUE)
  <1>1. k \in Book /\ k.pos[s] \in Position /\ b.close \in Nat
    BY BookFields, BarType DEF Sound
  <1>2. CASE ~k.pos[s].active
    <2>1. Move(k, s, b) = k BY <1>2 DEF Move
    <2>. QED BY <2>1
  <1>3. CASE k.pos[s].active
    <2>1. Move(k, s, b) \in {x, e} BY <1>3 DEF Move
    <2>2. Kept(s, k.pos[s], q, b.close) BY <1>1, <1>3, StepKeeps
    <2>. HIDE DEF t
    <2>3. q \in Position BY <2>2 DEF Kept
    <2>. HIDE DEF q
    <2>4. pnl \in Int BY <1>1, <2>3, GainInt
    <2>. HIDE DEF pnl, pos
    <2>5. Shown(e) BY <1>1, <2>4, ClosedShown
    <2>6. x.net = k.net /\ x.day = k.day /\ x.week = k.week BY <1>1 DEF Book
    <2>. HIDE DEF x, e
    <2>7. Shown(x) BY <2>6, SameShown
    <2>. QED BY <2>1, <2>5, <2>7
  <1>. QED BY <1>2, <1>3

LEMMA WaitedShown ==
  ASSUME Sound(book), Shown(book)
  PROVE  Sound(Waited(book)) /\ Shown(Waited(book))
  <1>. DEFINE k == Waited(book)
  <1>1. Through(book, k, 0) BY WaitedThrough
  <1>2. k.net = book.net /\ k.day = book.day /\ k.week = book.week BY DEF Waited, Sound, Book
  <1>. HIDE DEF k
  <1>3. Sound(k) /\ Shown(k) BY <1>1, <1>2, SameShown DEF Through
  <1>. QED BY <1>3 DEF k

LEMMA BarShown ==
  ASSUME TypeOK, Sound(book), Shown(book), profile = "v9", NEW b \in Bars
  PROVE  Shown(BookAfter(b))
  <1>. DEFINE k == Waited(book)
              blocked == RiskBlocked(k)
              x == RegimeExit(k, "long", b)
              y == RegimeExit(x, "short", b)
              e == Entry(y, b, blocked)
              m == Move(e, "long", b)
              n == Move(m, "short", b)
  <1>1. /\ profile \in {"v6", "v7", "v8", "v9"} /\ time \in 0..MaxBars /\ router.regime \in Regimes
        /\ "long" \in Sides /\ "short" \in Sides
    BY RouterAssumption DEF TypeOK, Sides
  <1>2. BookAfter(b) = n BY DEF BookAfter, BothSides
  <1>3. Sound(k) /\ Shown(k) BY WaitedShown
  <1>. HIDE DEF k, blocked
  <1>4. Sound(x) /\ Shown(x)
    BY <1>1, <1>3, RegimeExitThrough, RegimeExitShown DEF Through
  <1>. HIDE DEF x
  <1>5. Sound(y) /\ Shown(y)
    BY <1>1, <1>4, RegimeExitThrough, RegimeExitShown DEF Through
  <1>. HIDE DEF y
  <1>6. Sound(e) /\ Shown(e)
    <2>1. Sound(e) BY <1>1, <1>5, EntryThrough
    <2>2. Shown(e) BY <1>5, EntryShown DEF Sound
    <2>. QED BY <2>1, <2>2
  <1>. HIDE DEF e
  <1>7. Sound(m) /\ Shown(m) BY <1>1, <1>6, MoveThrough, MoveShown DEF Through
  <1>. HIDE DEF m
  <1>8. Shown(n) BY <1>1, <1>7, MoveShown
  <1>. QED BY <1>2, <1>8

LEMMA TacticalShown ==
  ASSUME Sound(book), Shown(book), ~book.pos["short"].active, NEW b \in Bars,
         profile = "v4", profile \in OlderProfiles, time \in 0..MaxBars
  PROVE  Shown(TacticalAfter(b))
  <1>. DEFINE k == Waited(book)
              n == TacticalAfter(b)
  <1>1. Sound(k) /\ Shown(k) BY WaitedShown
  <1>1a. k.pos = book.pos BY DEF Waited, Sound, Book
  <1>2. n = IF Flat(k) THEN TacticalEntry(k, b) ELSE TacticalMove(k, b) BY DEF TacticalAfter
  <1>3. k \in Book /\ "long" \in Sides /\ Sides = {"long", "short"} /\ b.close \in Nat
    BY <1>1, BarType DEF Sound, Sides
  <1>. HIDE DEF k, n
  <1>4. ASSUME Flat(k) PROVE Shown(n)
    <2>. DEFINE p == Tactical!Opened("long", b.close, SignalStop(b), FALSE)
                pos == [k.pos EXCEPT !["long"] = p]
                o == k.opened + 1
                r == [k EXCEPT !.pos = pos, !.opened = o]
    <2>1. TacticalEntry(k, b) \in {k, r} BY DEF TacticalEntry
    <2>. HIDE DEF pos, o
    <2>2. r.net = k.net /\ r.day = k.day /\ r.week = k.week BY <1>3 DEF Book
    <2>. HIDE DEF r
    <2>3. Shown(r) BY <1>1, <2>2, SameShown
    <2>. QED BY <1>1, <1>2, <1>4, <2>1, <2>3
  <1>5. ASSUME ~Flat(k) PROVE Shown(n)
    <2>. DEFINE s == "long"
                t == StepLadder(s, k.pos[s], b)
                q == t.pos
                pnl == ClosingPnL(s, q, b.close)
                pos == [k.pos EXCEPT ![s] = q]
                x == [k EXCEPT !.pos = pos]
                e == Scored(Booked(Closed(k, s, pnl), pnl), pnl, TRUE)
    <2>1. TacticalMove(k, b) \in {x, e} BY DEF TacticalMove
    <2>2. k.pos[s].active /\ k.pos[s] \in Position
      BY <1>1a, <1>3, <1>5, BookFields DEF Flat
    <2>3. Kept(s, k.pos[s], q, b.close)
      <3>1. Step(s, k.pos[s], b) = t BY OlderKind DEF Step
      <3>. HIDE DEF t
      <3>. QED BY <1>3, <2>2, <3>1, StepKeeps
    <2>. HIDE DEF t
    <2>4. q \in Position BY <2>3 DEF Kept
    <2>. HIDE DEF q
    <2>5. pnl \in Int BY <1>3, <2>4, GainInt
    <2>. HIDE DEF pnl, pos
    <2>6. Shown(e) BY <1>1, <1>3, <2>5, ClosedShown
    <2>7. x.net = k.net /\ x.day = k.day /\ x.week = k.week BY <1>3 DEF Book
    <2>. HIDE DEF x, e
    <2>8. Shown(x) BY <1>1, <2>7, SameShown
    <2>. QED BY <1>2, <1>5, <2>1, <2>6, <2>8
  <1>. QED BY <1>4, <1>5 DEF n

\* What the days and the weeks show the gate is all that was made.
THEOREM GateSees == ReplaySpec => []GateSeesEverything
  <1>1. ReplayInit => GateSeesEverything
    <2>. SUFFICES ASSUME ReplayInit PROVE Shown(book) BY DEF GateSeesEverything, Shown
    <2>1. book.net = 0 /\ book.day = [d \in Days |-> 0] /\ book.week = [w \in Weeks |-> 0]
      BY DEF ReplayInit, Start
    <2>. QED BY <2>1, CalendarFinite, SumOfZeros DEF Shown
  <1>2. ReplayInv /\ GateSeesEverything /\ [ReplayNext]_all => GateSeesEverything'
    <2>. SUFFICES ASSUME ReplayInv, GateSeesEverything, [ReplayNext]_all,
                         profile' \in {"v4", "v9"}
                  PROVE  Shown(book')
      BY DEF GateSeesEverything, Shown
    <2>1. ASSUME profile' = profile, book' = book PROVE Shown(book')
      BY <2>1 DEF GateSeesEverything, Shown
    <2>2. ASSUME RouterStep, NEW b \in Bars, Bar(b) PROVE Shown(book')
      <3>1. /\ TypeOK /\ Sound(book) /\ book' = BookAfter(b) /\ profile' = profile
            /\ profile \in Profiles
        BY <2>2 DEF RouterStep, ReplayInv, IInv, Bar
      <3>2. profile = "v9" BY <3>1, RouterAssumption
      <3>3. Shown(book) BY <3>2 DEF GateSeesEverything, Shown
      <3>. QED BY <3>1, <3>2, <3>3, BarShown
    <2>3. ASSUME NEW b \in Bars, OlderBar(b) PROVE Shown(book')
      <3>1. /\ Sound(book) /\ ~book.pos["short"].active /\ profile \in OlderProfiles
            /\ time \in 0..MaxBars /\ book' = TacticalAfter(b) /\ profile' = profile
        BY <2>3 DEF OlderBar, ReplayInv
      <3>2. profile = "v4" BY <3>1, ReplayAssumption
      <3>3. Shown(book) BY <3>2 DEF GateSeesEverything, Shown
      <3>. QED BY <3>1, <3>2, <3>3, TacticalShown
    <2>4. ASSUME NEW b \in Bars, Finish(b) PROVE profile' = profile /\ book' = book
      BY <2>4 DEF Finish
    <2>5. ASSUME NEW c \in Regimes, NEW decided \in BOOLEAN, Vote(c, decided)
          PROVE  profile' = profile /\ book' = book
      BY <2>5 DEF Vote
    <2>6. CASE RouterStep
      <3>1. Next BY <2>6 DEF RouterStep
      <3>. QED BY <2>1, <2>2, <2>5, <2>6, <3>1 DEF Next
    <2>7. CASE UNCHANGED all BY <2>1, <2>7 DEF all, vars
    <2>. QED BY <2>1, <2>3, <2>4, <2>6, <2>7 DEF ReplayNext
  <1>. QED BY <1>1, <1>2, ReplayHolds, PTL DEF ReplaySpec
=============================================================================
