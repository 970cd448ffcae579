------------------------------- MODULE Signals -------------------------------
(***************************************************************************)
(* The signals of spot_btc_conservative_v1, as functions of the last 4h    *)
(* bars and of the indicators: the entries of EvaluateSignal and of        *)
(* evalTrendShort, those on the band of a range, and the filters and the   *)
(* strengths the replays ask beside them.  The other modules take the      *)
(* verdicts on a bar as inputs; ReplaySignals checks what they assume.     *)
(***************************************************************************)
EXTENDS Integers, SequencesExt

CONSTANTS
  h4,            \* the last 4h bars: records close, low, high, and the fast EMA there
  market,        \* the indicators of the 4h bars, see Market
  day,           \* the indicators of the day bars, see DayView
  LongBars, ShortBars,               \* 4h bars that evalTrend and evalTrendShort ask for
  EMA200MinSlope,                    \* in the unit of DayView.slope
  PullbackTol, BreakoutBuffer,       \* per mille
  BreakoutLookback, SwingBars,       \* bars; calcStop looks at 5
  ATRMin, ATRMax, VolConverge,       \* per mille of the price
  TrailATR,                          \* tenths of an ATR
  RangeEntryBuffer, RangeBreakout, RangeMinWidth,   \* hundredths of an ATR
  RangeFloor                         \* RangeMinSignalStrength, 0..100

\* slow: EMAFilterPeriod; busy: the volume is at its ratio; bounced: back above the
\* lower Bollinger band with RSI and the middle in place; factors: how many of the
\* three conditions of evalMomentumFactor on 4h bars hold.
Market == [slow : Nat, atr : Nat, busy : BOOLEAN, bounced : BOOLEAN, factors : 0..3]

\* spare: days beyond those evalTrend asks for; swing: ATR of the days; momentum: of
\* five days, in %; gains: conditions of evalMomentumFactor on the days; lower and upper: the band of the last RangeLookbackDays days.
DayView == [spare : Int, ema : Nat, slope : Int, close : Nat, swing : Nat,
            momentum : Int, gains : 0..2, lower : Nat, upper : Nat]

-----------------------------------------------------------------------------
last == Last(h4)
prev == h4[Len(h4) - 1]

\* The newest n bars, and the n bars before the newest one.
Newest(n) == {h4[i] : i \in {j \in 1..Len(h4) : j > Len(h4) - n}}
Before(n) == {h4[i] : i \in (Len(h4) - n)..(Len(h4) - 1)}

VolatilityOK == ATRMin * last.close <= 1000 * market.atr /\ 1000 * market.atr <= ATRMax * last.close

Ready(bars) == day.spare >= 0 /\ Len(h4) >= bars /\ market.atr > 0

Pullback == /\ prev.close <= prev.ema /\ 1000 * prev.low <= (1000 + PullbackTol) * prev.ema
            /\ last.close > last.ema

SecondaryBreakout ==
  /\ Len(h4) > BreakoutLookback /\ prev.close > prev.ema
  /\ 1000 * last.close >= (1000 + BreakoutBuffer) * Max({b.high : b \in Before(BreakoutLookback)})

\* calcStop: the lowest of the last lows, of the EMA less 2% and of the ATR's stop.
CalcStop == Min({b.low : b \in Newest(SwingBars)} \union
                {(98 * last.ema) \div 100, last.close - (TrailATR * market.atr) \div 10})

\* A stop that is not between 0 and the close refuses the entry; 0: none.
LongStop(entry, stop) == IF entry /\ 0 < stop /\ stop < last.close THEN stop ELSE 0

\* evalTrend.
TrendLong ==
  LongStop(/\ Ready(LongBars)
           /\ last.close > day.ema /\ last.close > market.slow
           /\ day.slope >= EMA200MinSlope
           /\ Pullback \/ SecondaryBreakout
           /\ VolatilityOK /\ market.busy,
           CalcStop)

\* evalMeanReversion, where it has the bars it asks for; so the next one.
MeanReversion ==
  LongStop(market.bounced /\ market.atr > 0 /\ VolatilityOK /\ market.busy,
           last.close - (12 * market.atr) \div 10)

\* evalMomentumFactor.
MomentumFactor ==
  LongStop(market.factors + day.gains >= 4 /\ VolatilityOK,
           last.close - (15 * market.atr) \div 10)

\* evalTrendShort, 0 without an entry.
TrendShort ==
  LET stop == last.close + (TrailATR * market.atr) \div 10
  IN  IF /\ Ready(ShortBars)
         /\ last.close < day.ema /\ last.close < market.slow
         /\ day.slope <= -EMA200MinSlope
         /\ prev.close >= prev.ema /\ 1000 * prev.high >= (1000 - PullbackTol) * prev.ema
         /\ last.close < last.ema
         /\ VolatilityOK /\ market.busy
         /\ stop > last.close
      THEN stop ELSE 0

\* evaluateTrendOnly.
TrendIsOn ==
  /\ day.spare >= 0 /\ Len(h4) >= LongBars
  /\ last.close > day.ema /\ last.close > market.slow /\ day.slope >= EMA200MinSlope

\* longSignalStrength, shortSignalStrength; both want a day more than the signals.
Strength(s) ==
  LET slope == IF s = "long" THEN day.slope ELSE -day.slope
  IN  IF day.spare < 1 THEN 0
      ELSE (IF slope >= EMA200MinSlope THEN 40 ELSE 0)
           + (IF market.busy THEN 30 ELSE 0) + (IF VolatilityOK THEN 30 ELSE 0)

BearQuality ==
  /\ day.spare >= 3
  /\ day.close < day.ema /\ 10 * day.slope <= -8 * EMA200MinSlope /\ day.momentum < -3

\* (mutant: the side of the EMA is enough)
RegimeBySide ==
  CASE day.swing = 0 \/ 1000 * day.swing <= VolConverge * day.close -> "RANGE"
    [] day.close > day.ema -> "BULL"
    [] day.close < day.ema -> "BEAR"
    [] OTHER -> "RANGE"

\* detectRegime.
Regime ==
  CASE day.swing = 0 \/ 1000 * day.swing <= VolConverge * day.close -> "RANGE"
    [] day.close > day.ema /\ day.slope >= EMA200MinSlope -> "BULL"
    [] day.close < day.ema /\ day.slope <= -EMA200MinSlope -> "BEAR"
    [] OTHER -> "RANGE"

-----------------------------------------------------------------------------
(* The band of a range. *)

Width == day.upper - day.lower

\* detectRangeBand.
BandOK == market.atr > 0 /\ Width > 0 /\ 100 * Width >= RangeMinWidth * market.atr

\* (mutant: the edges are swapped)
FromOther(s) == IF s = "long" THEN day.upper - last.close ELSE last.close - day.lower

\* How far the close is from the edge at which the side enters.
FromEdge(s) == IF s = "long" THEN last.close - day.lower ELSE day.upper - last.close

\* rangeLongSignalStrength, rangeShortSignalStrength.
EdgeStrength(s) ==
  LET reach == RangeEntryBuffer * market.atr
      near  == 100 - Min({100, (10000 * FromEdge(s)) \div reach})
      wide  == Min({100, (25 * Width) \div market.atr})
  IN  IF 100 * FromEdge(s) > reach THEN 0 ELSE (70 * near + 30 * wide) \div 100

BandTakes(s) == BandOK /\ EdgeStrength(s) >= RangeFloor

BandStop(s) == IF s = "long" THEN day.lower - (RangeBreakout * market.atr) \div 100
                             ELSE day.upper + (RangeBreakout * market.atr) \div 100

\* The band's entries of v9: the short only where the long is not strong enough.
BandEntry(s) == BandTakes(s) /\ (s = "short" => ~BandTakes("long"))

-----------------------------------------------------------------------------
(* What the verdicts on one bar have to do with each other. *)

\* Whatever enters is stopped at a price, and on the losing side of its entry.
LongStopsBehind ==
  \A stop \in {TrendLong, MeanReversion, MomentumFactor} : stop >= 0 /\ stop < last.close

ShortStopBehind == TrendShort # 0 => TrendShort > last.close

BandStopsBehind ==
  /\ BandEntry("long") => BandStop("long") > 0 /\ BandStop("long") < last.close
  /\ BandEntry("short") => BandStop("short") > last.close

\* The EMA trail of the bar that opens a position does not lie beyond its close.
TrailStands ==
  /\ TrendLong # 0 => 10 * last.close > 10 * last.ema - TrailATR * market.atr
  /\ TrendShort # 0 => 10 * last.close < 10 * last.ema + TrailATR * market.atr

\* An entry at one edge of the band is neither at its middle nor at the other edge.
EdgeStands ==
  /\ BandEntry("long") => /\ 2 * last.close < day.lower + day.upper
                          /\ 5 * (day.upper - last.close) > market.atr
  /\ BandEntry("short") => /\ 2 * last.close > day.lower + day.upper
                           /\ 5 * (last.close - day.lower) > market.atr

\* With a day more than the signal wants, the strength asked beside it is full.
OfferedIsFull ==
  day.spare >= 1 => (TrendLong # 0 => Strength("long") = 100)
                    /\ (TrendShort # 0 => Strength("short") = 100)

\* The trend is on wherever its signal enters.
EntryKeepsCore == TrendLong # 0 => TrendIsOn

\* The regime of the days refuses the other side's signal and its filter, though the
\* signals look at the 4h close and the regime at that of the day.
RegimeRefuses ==
  /\ Regime = "BULL" => TrendShort = 0 /\ ~BearQuality
  /\ Regime = "BEAR" => TrendLong = 0
=============================================================================
