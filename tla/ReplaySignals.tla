--------------------------- MODULE ReplaySignals ---------------------------
(***************************************************************************)
(* Replay, beside the signals its bars stand for.  Replay takes what the   *)
(* signals say of a bar as an input; here is what each profile relies on   *)
(* in that input, checked on windows of bars and readings of the days.     *)
(***************************************************************************)
EXTENDS Replay, Sequences

CONSTANTS
  Windows,       \* of 4h bars: sequences of records close, low, high, volume
  DayViews,      \* readings of the indicators of the days: see Signals
  EMAPullback, EMAFilterPeriod, ATRPeriod, RSIPeriod, BandPeriod, VolumeSMAPeriod,
  LongBars, ShortBars,
  EMA200MinSlope, PullbackTol, BreakoutBuffer, BreakoutLookback, SwingBars,
  VolumeMinRatio,    \* in percent
  ATRMin, ATRMax, VolConverge, TrailATR,
  RangeEntryBuffer, RangeBreakout, RangeMinWidth, RangeFloor

LOCAL I == INSTANCE Indicators

Is(p) == IF p THEN 1 ELSE 0

\* What the signals read of a window.
Seen(bars) ==
  LET n      == Len(bars)
      closes == [i \in 1..n |-> bars[i].close]
      last   == closes[n]
      fast   == I!EMA(closes, EMAPullback)
      slow   == I!LastEMA(closes, EMAFilterPeriod)
      volume == I!LastSMA([i \in 1..n |-> bars[i].volume], VolumeSMAPeriod)
      rsi    == I!LastRSI(closes, RSIPeriod)
      band   == I!LowerBand(closes, BandPeriod)
      busy   == volume > 0 /\ 100 * bars[n].volume >= VolumeMinRatio * volume
  IN  [h4 |-> [i \in 1..n |-> [close |-> bars[i].close, low |-> bars[i].low, high |-> bars[i].high,
                              ema |-> IF i < EMAPullback THEN 0 ELSE fast[i]]],
       market |->
         [slow |-> slow, atr |-> I!LastATR(bars, ATRPeriod), busy |-> busy,
          bounced |-> /\ 0 < band /\ closes[n - 1] < band /\ band < last
                      /\ 30 < rsi /\ rsi < 48 /\ last < I!LastSMA(closes, BandPeriod),
          factors |-> Is(last > fast[n] /\ fast[n] > slow) + Is(50 <= rsi /\ rsi <= 72) + Is(busy)]]

Readings == {Seen(bars) : bars \in Windows}

\* The newest bar lies in the band of the days, to which its own day belongs.
Inside(h, d) == d.lower <= h[Len(h)].low /\ h[Len(h)].high <= d.upper

On(w, d) == INSTANCE Signals WITH h4 <- w.h4, market <- w.market, day <- d

LongStops  == \A w \in Readings, d \in DayViews : On(w, d)!LongStopsBehind
ShortStops == \A w \in Readings, d \in DayViews : On(w, d)!ShortStopBehind
BandStops  == \A w \in Readings, d \in DayViews : Inside(w.h4, d) => On(w, d)!BandStopsBehind
Trails     == \A w \in Readings, d \in DayViews : On(w, d)!TrailStands
Edges      == \A w \in Readings, d \in DayViews : Inside(w.h4, d) => On(w, d)!EdgeStands
Refusals   == \A w \in Readings, d \in DayViews : On(w, d)!RegimeRefuses
Strengths  == \A w \in Readings, d \in DayViews : On(w, d)!OfferedIsFull
Filters    == \A w \in Readings, d \in DayViews : On(w, d)!EntryKeepsCore

\* Whatever a profile enters stands.  Its stop is between 0 and the close, or beyond it
\* for a short (evalTrend, evalMeanReversion, evalMomentumFactor, evalTrendShort, the
\* stops at the band): BuildPosition divides by the distance.  And v8 and v9, which move
\* a position on the bar that opens it, do not close it at once: its trail is not beyond
\* the close, and an entry at one edge of the band is not at the middle or the other edge.
EntryStands ==
  /\ LongStops
  /\ profile \in {"v6", "v7", "v8", "v9"} => ShortStops
  /\ profile = "v9" => BandStops
  /\ profile \in {"v8", "v9"} => Trails
  /\ profile = "v9" => Edges

\* What a profile asks of the same bars apart from each other agrees: v4 enters only
\* while its core leg is in the market, the regime v6 detects never waits for the
\* signal of the other side, and from a day after the first possible entry the
\* strength v8 and v9 ask for is there with the signal.
VerdictsAgree ==
  /\ profile = "v4" => Filters
  /\ profile = "v6" => Refusals
  /\ profile \in {"v8", "v9"} => Strengths
=============================================================================
