--------------------------- MODULE MCReplay ---------------------------------
(***************************************************************************)
(* Replay on five readings: an entry for each side at the edge of its      *)
(* band, a rise and a fall beyond the second rung of either, and a close   *)
(* without a band.  Beside them what the signals see.                      *)
(***************************************************************************)
EXTENDS ReplaySignals

Both(l, s) == [x \in Sides |-> IF x = "long" THEN l ELSE s]

Reading(c, trend, range, atr, ema, mid, far) ==
  [close |-> c, trendStop |-> trend, rangeStop |-> range, atr |-> atr, ema |-> ema,
   mid |-> mid, farEdge |-> far]

None == Both(0, 0)
No == Both(FALSE, FALSE)

FiveBars ==
  { Reading(6, Both(3, 0), Both(4, 0), Both(5, 7), Both(4, 7), 7, No),
    Reading(8, Both(0, 11), Both(0, 10), Both(7, 9), Both(7, 10), 6, No),
    Reading(13, None, None, Both(12, 14), Both(5, 15), 9, Both(TRUE, FALSE)),
    Reading(2, None, None, Both(1, 3), Both(1, 3), 6, Both(FALSE, TRUE)),
    Reading(5, None, None, Both(4, 6), Both(4, 9), 0, No) }

\* The trend is on where v4 may enter and on the rise after it.
TwoOn == {b \in FiveBars : b.close \in {6, 13}}

OneBarDays  == [t \in 0..7 |-> t]
TwoBarWeeks == [t \in 0..7 |-> t \div 2]

-----------------------------------------------------------------------------
(* Windows of three or four 4h bars, or six, and what the days around them show. *)

\* Prices around 1000, a bar that closes at its low among them, and one that never moved.
Shapes ==
  {[close |-> 940, low |-> 930, high |-> 960],
   [close |-> 988, low |-> 985, high |-> 990],
   [close |-> 1000, low |-> 1000, high |-> 1000],
   [close |-> 1010, low |-> 1010, high |-> 1020],
   [close |-> 1060, low |-> 1000, high |-> 1060]}

\* The volume of the newest bar is that of the others or half of it.
ShortWindows ==
  UNION {{[i \in 1..n |-> [close |-> bars[i].close, low |-> bars[i].low, high |-> bars[i].high,
                           volume |-> IF i = n THEN v ELSE 10]] :
            bars \in [1..n -> Shapes], v \in {5, 10}} : n \in 3..4}

\* Four quiet bars, one that falls out of its Bollinger band, and how the next one ends.
Falls ==
  {[i \in 1..6 |-> [close |-> c[i], low |-> c[i], high |-> c[i] + 2, volume |-> 10]] :
     c \in {<<1000, 1000, 1000, 1000, f, l>> : f \in {940, 950}, l \in {936, 960, 976, 990}}}

MCWindows == ShortWindows \union Falls

\* The least slope, one that only the filter of bears takes, and none; a narrow and a
\* wide band; a day too few for the signals, just enough, and enough for that filter.
MCDayViews ==
  {d \in {[spare |-> n, ema |-> e, slope |-> s, close |-> c, swing |-> 30,
           momentum |-> IF c < e THEN -4 ELSE 0, gains |-> IF c < e THEN 0 ELSE 2,
           lower |-> w[1], upper |-> w[2]] :
             n \in {-1, 0, 1, 3}, e \in {960, 1040}, s \in {-10, -8, 10}, c \in {950, 1055},
             w \in {<<925, 1065>>, <<985, 1035>>}} :
     d.spare = 3 \/ d.slope # -8}
=============================================================================
