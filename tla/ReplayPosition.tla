--------------------------- MODULE ReplayPosition ---------------------------
(***************************************************************************)
(* One position of a replay, long or short, and the four ways the replay   *)
(* engines move it over one bar.  The code has each of them twice, once    *)
(* per side with every comparison turned round; here the side is a sign.   *)
(***************************************************************************)
EXTENDS Integers

CONSTANTS
  RiskAmount,      \* RiskCapitalUSDT * RiskPerTrade
  RiskCapital,     \* RiskCapitalUSDT
  BearLeverage,    \* BearLeverage of the shorts
  MaxHoldBars,     \* cfg.MaxHoldBars (0: no timeout)
  RangeHoldBars    \* cfg.RangeMaxHoldBars, at least 1

Sides == {"long", "short"}
Sign(s) == IF s = "long" THEN 1 ELSE -1

\* Price at or beyond a level, in the direction that pays side s.
Beyond(s, price, level) == Sign(s) * price >= Sign(s) * level

Position ==
  [active : BOOLEAN, entry : Nat, stop : Nat, risk : Nat, qty : Nat, remain : Int,
   tp1 : BOOLEAN, tp2 : BOOLEAN, trail : Nat, realized : Int, hold : Nat]

NoPosition ==
  [active |-> FALSE, entry |-> 0, stop |-> 0, risk |-> 0, qty |-> 0, remain |-> 0,
   tp1 |-> FALSE, tp2 |-> FALSE, trail |-> 0, realized |-> 0, hold |-> 0]

Part(q, percent) == (q * percent) \div 100

\* BuildPosition and buildShortPosition: the risked quantity, capped.
PlanQty(s, entry, stop) ==
  LET lever == IF s = "long" THEN 1 ELSE BearLeverage
      risk  == Sign(s) * (entry - stop)
      qty   == (RiskAmount \div risk) * lever
  IN  IF risk <= 0 THEN 0
      ELSE IF qty * entry > RiskCapital * lever THEN (RiskCapital * lever) \div entry
      ELSE qty

\* A range position has no stopLoss; its stop is kept as the trail.
Opened(s, entry, stop, inRange) ==
  LET qty == PlanQty(s, entry, stop)
  IN  [active |-> TRUE, entry |-> entry, stop |-> IF inRange THEN 0 ELSE stop,
       risk |-> Sign(s) * (entry - stop), qty |-> qty, remain |-> qty,
       tp1 |-> FALSE, tp2 |-> FALSE, trail |-> IF inRange THEN stop ELSE 0,
       realized |-> 0, hold |-> 0]

Gain(s, p, price) == Sign(s) * (price - p.entry)

\* (mutant: what the rungs realized is forgotten)
ClosingRest(s, p, price) == Gain(s, p, price) * p.remain

\* What closing the position at "price" books.
ClosingPnL(s, p, price) == p.realized + Gain(s, p, price) * p.remain

\* The equity of a position at a price.
Worth(s, p, price) == IF p.active THEN ClosingPnL(s, p, price) ELSE 0

Sell(s, p, price, q) ==
  [p EXCEPT !.remain = @ - q, !.realized = @ + Gain(s, p, price) * q]

\* (mutant: the rung is not marked)
Rung1Again(s, p, price, percent) ==
  IF ~Beyond(s, price, p.entry + Sign(s) * p.risk) THEN p
  ELSE [Sell(s, p, price, Part(p.qty, percent)) EXCEPT !.tp1 = TRUE, !.trail = p.entry]

\* A rung sells a share of the whole quantity.
Rung1(s, p, price, percent) ==
  IF p.tp1 \/ ~Beyond(s, price, p.entry + Sign(s) * p.risk) THEN p
  ELSE [Sell(s, p, price, Part(p.qty, percent)) EXCEPT !.tp1 = TRUE, !.trail = p.entry]

Rung2(s, p, price, percent) ==
  LET tp1 == p.entry + Sign(s) * p.risk
  IN  IF p.tp2 \/ ~Beyond(s, price, tp1 + Sign(s) * p.risk) THEN p
      ELSE [Sell(s, p, price, Part(p.qty, percent)) EXCEPT !.tp2 = TRUE,
              !.trail = IF @ = 0 \/ Beyond(s, tp1, @) THEN tp1 ELSE @]

\* (mutant: the newest candidate wins)
Newest(s, trail, cand) == cand

\* The better of the trail and a candidate (0: there is none yet).
Tighter(s, trail, cand) == IF trail = 0 \/ Beyond(s, cand, trail) THEN cand ELSE trail

InForce(p, trail) == IF trail = 0 THEN p.stop ELSE trail

TimedOut(p, limit) == limit > 0 /\ p.hold >= limit

\* A step answers the position after the bar and whether it has to close.
Stepped(p, close) == [pos |-> p, close |-> close]

Aged(p) == [p EXCEPT !.hold = @ + 1]

\* stepLongPosition, stepShortPosition: rungs of 40% and 30%; the ATR trail is
\* only compared with this bar's close and never stored.
StepLadder(s, p, b) ==
  LET r == Rung2(s, Rung1(s, Aged(p), b.close, 40), b.close, 30)
      trail == IF r.tp1 THEN Tighter(s, r.trail, b.atr[s]) ELSE r.trail
  IN  Stepped(r, Beyond(s, InForce(r, trail), b.close) \/ TimedOut(r, MaxHoldBars))

\* stepLongPositionV8, stepShortPositionV8: one rung of 25%, and a trail that
\* follows the EMA from the first bar on.
StepTrail(s, p, b) ==
  LET r == Rung1(s, Aged(p), b.close, 25)
      trail == InForce(r, Tighter(s, r.trail, b.ema[s]))
  IN  Stepped([r EXCEPT !.trail = trail],
              Beyond(s, trail, b.close) \/ TimedOut(r, MaxHoldBars))

\* stepRangeLongPosition, stepRangeShortPosition.  Without a band the zero band
\* is compared: its middle is 0.
StepRange(s, p, b, inRange) ==
  LET a == Aged(p)
      r == IF a.tp1 \/ ~Beyond(s, b.close, b.mid) THEN a
           ELSE [Sell(s, a, b.close, Part(a.qty, 60)) EXCEPT !.tp1 = TRUE]
  IN  Stepped(r, \/ Beyond(s, r.trail, b.close)
                 \/ ~inRange
                 \/ b.farEdge[s]
                 \/ TimedOut(r, RangeHoldBars))

\* applyLongSwitchTakeProfit, applyShortSwitchTakeProfit: 50% and 30% of what is
\* left are sold, the last 20% only beyond the ATR trail.  An emptied position is
\* forgotten together with its realized part.
SwitchTakeProfit(s, p, b) ==
  LET trail == IF b.atr[s] = 0 THEN p.stop ELSE b.atr[s]
      last  == IF Beyond(s, trail, b.close) THEN Part(p.remain, 20) ELSE 0
      sold  == Part(p.remain, 50) + Part(p.remain, 30) + last
  IN  IF p.remain <= 0 THEN [pos |-> p, pnl |-> 0]
      ELSE [pos |-> IF sold = p.remain THEN NoPosition ELSE [p EXCEPT !.remain = @ - sold],
            pnl |-> Gain(s, p, b.close) * sold]
=============================================================================
