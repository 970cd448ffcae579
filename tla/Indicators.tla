----------------------------- MODULE Indicators -----------------------------
(***************************************************************************)
(* The series of src/indicator that the signals read: averages, true range *)
(* and RSI of one to many bars, in whole units rounded down.  Each series  *)
(* is a function on the bars that have a value; LastEMA and the like are 0 *)
(* where there are too few bars, as in the code.                           *)
(***************************************************************************)
EXTENDS Integers, SequencesExt

\* The sums of the last n entries: each takes one in and gives one up.
Rolled(s, n) ==
  LET sum[i \in n..Len(s)] ==
        IF i = n THEN FoldLeft(+, 0, SubSeq(s, 1, n)) ELSE sum[i - 1] + s[i] - s[i - n]
  IN  sum

LastSMA(s, n) == IF Len(s) < n THEN 0 ELSE Rolled(s, n)[Len(s)] \div n

\* The first value is a plain mean.
EMA(s, n) ==
  LET ema[i \in n..Len(s)] ==
        IF i = n THEN Rolled(s, n)[n] \div n
        ELSE (2 * s[i] + (n - 1) * ema[i - 1]) \div (n + 1)
  IN  ema

LastEMA(s, n) == IF Len(s) < n THEN 0 ELSE EMA(s, n)[Len(s)]

\* Wilder's smoothing, of ATR and RSI: 1/n of the newest.
Wilder(s, n) ==
  LET avg[i \in n..Len(s)] ==
        IF i = n THEN Rolled(s, n)[n] \div n
        ELSE ((n - 1) * avg[i - 1] + s[i]) \div n
  IN  avg[Len(s)]

Apart(a, b) == IF a > b THEN a - b ELSE b - a

\* How far the price has been from where it stood.
TrueRange(bars, i) ==
  IF i = 1 THEN bars[1].high - bars[1].low
  ELSE Max({bars[i].high - bars[i].low, Apart(bars[i].high, bars[i - 1].close),
            Apart(bars[i].low, bars[i - 1].close)})

LastATR(bars, n) ==
  IF Len(bars) < n + 1 THEN 0
  ELSE Wilder([i \in 1..Len(bars) |-> TrueRange(bars, i)], n)

\* In percent; the moves are taken in hundredths.
LastRSI(s, n) ==
  LET move(i) == 100 * (s[i + 1] - s[i])
      gain == Wilder([i \in 1..(Len(s) - 1) |-> Max({0, move(i)})], n)
      loss == Wilder([i \in 1..(Len(s) - 1) |-> Max({0, -move(i)})], n)
  IN  IF Len(s) < n + 1 THEN 0
      ELSE IF loss = 0 THEN 100 ELSE (100 * gain) \div (gain + loss)

\* Two standard deviations of the last n below their mean.
LowerBand(s, n) ==
  LET mean == LastSMA(s, n)
      variance == FoldLeft(LAMBDA sum, x : sum + (x - mean) * (x - mean), 0,
                           SubSeq(s, Len(s) - n + 1, Len(s))) \div n
  IN  IF Len(s) < n THEN 0 ELSE mean - 2 * Max({r \in 0..mean : r * r <= variance})
=============================================================================
