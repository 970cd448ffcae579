--------------------------- MODULE MCDailyRouter ---------------------------
(***************************************************************************)
(* DailyRouter on five readings, one bar a day: a strong bull, a range     *)
(* with a support, a strong bear, a fall that the day sees before the      *)
(* week, and a recovery that the week does not follow yet.                 *)
(***************************************************************************)
EXTENDS DailyScores

OneDay(t, w, s) == [trend |-> t, week |-> w, strong |-> s]

Score(bull, range, bear) == [r \in Regimes |-> CASE r = "BULL" -> bull
                                                 [] r = "RANGE" -> range
                                                 [] OTHER -> bear]

Both(l, s) == [x \in Sides |-> IF x = "long" THEN l ELSE s]

Reading(c, day, score, bearOk, emaExit) ==
  [close |-> c, day |-> day, score |-> score, bearOk |-> bearOk,
   support |-> c > 6, edge |-> TRUE, emaExit |-> emaExit,
   stop |-> Both(c - 2, c + 2), trail |-> Both(c - 3, c + 3)]

\* The scores of longs and shorts share volume (30) and volatility (30); the slope
\* gives 40 to one of them.
FiveBars ==
  { Reading(10, OneDay("BULL", "BULL", TRUE), Score(100, 10, 60), FALSE, FALSE),
    Reading(8, OneDay("RANGE", "RANGE", FALSE), Score(60, 80, 60), FALSE, FALSE),
    Reading(5, OneDay("BEAR", "BEAR", TRUE), Score(60, 10, 100), TRUE, TRUE),
    Reading(6, OneDay("BEAR", "RANGE", TRUE), Score(30, 40, 70), TRUE, FALSE),
    Reading(9, OneDay("BULL", "BEAR", FALSE), Score(70, 50, 30), FALSE, FALSE) }
\* A range whose second week is a bull; a bull whose second week has just turned.
TwoPriors ==
  { [i \in 1..4 |-> IF i < 3 THEN OneDay("RANGE", "RANGE", FALSE) ELSE OneDay("BULL", "BULL", TRUE)],
    [i \in 1..4 |-> OneDay("BULL", IF i < 3 THEN "BULL" ELSE "BEAR", i < 3)] }
=============================================================================
