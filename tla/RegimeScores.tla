---------------------------- MODULE RegimeScores ----------------------------
(***************************************************************************)
(* The arithmetic behind the classes of RegimeStartpoints: the scores of a *)
(* day (classifyTrend1D) and of a week (classifyCP1W), and how fuseStates  *)
(* weighs the smoothed class of the day against that of the week.  Here    *)
(* are the numbers of the code; RegimeStartpoints has the rule they amount *)
(* to, which is what is checked.                                           *)
(*                                                                         *)
(* Scores are in hundredths, votes in ten thousandths, so that every       *)
(* product of the code is a whole number.                                  *)
(***************************************************************************)
EXTENDS RegimeStartpoints

\* above: the close is above the EMA; the others: where slope, return and drawdown
\* lie among the thresholds, from the highest stretch to the lowest.
DayBar == [above : BOOLEAN, slope : {"up", "rising", "level", "sinking", "down"},
           ret180 : {"up", "flat", "down"}, dd365 : {"deep", "some", "small"},
           ret90Holds : BOOLEAN]

WeekBar == [above : BOOLEAN, slope : {"up", "flat", "down"}, ret26 : {"up", "flat", "down"},
            dd52 : {"deep", "some", "small"}, calm : BOOLEAN]

Pts(p, n) == IF p THEN n ELSE 0
Abs(n) == IF n < 0 THEN -n ELSE n

\* The larger sum, BULL before BEAR before RANGE.
Class(bull, bear, rng) ==
  CASE bull >= bear /\ bull >= rng -> "BULL"
    [] bear > bull /\ bear >= rng -> "BEAR"
    [] OTHER -> "RANGE"

\* classifyTrend1D, one day.
DayScored(b) ==
  LET holds == b.dd365 = "small" /\ b.ret90Holds
      bull == Pts(b.above, 35) + Pts(b.slope = "up", 30) + Pts(b.ret180 = "up", 20)
              + Pts(holds, 10)
      bear == Pts(~b.above, 25) + Pts(b.slope = "down", 30) + Pts(b.ret180 = "down", 20)
              + Pts(b.dd365 = "deep", 15)
      rng  == Pts(b.slope \notin {"up", "down"}, 20) + Pts(b.ret180 = "flat", 10)
              + Pts(b.dd365 # "deep" /\ ~holds, 15) + Pts(b.slope = "level", 30)
      c    == Class(bull, bear, rng)
  IN  [class |-> c,
       score |-> CASE c = "BULL" -> bull [] c = "BEAR" -> -bear
                   [] OTHER -> IF bull > bear THEN 20 ELSE -20]

\* classifyCP1W, one week.  Two terms that tie in decimals need not tie in the code:
\* 0.35 + 0.10 comes out just below 0.25 + 0.20, and BULL, first among equals, loses.
\* (All other ties come out as in decimals.)
WeekScored(b) ==
  LET bull == Pts(b.above, 35) + Pts(b.slope = "up", 25) + Pts(b.ret26 = "up", 20)
              + Pts(b.dd52 = "small", 10)
      bear == Pts(~b.above, 30) + Pts(b.slope = "down", 25) + Pts(b.ret26 = "down", 20)
              + Pts(b.dd52 = "deep", 20)
      rng  == Pts(b.slope = "flat", 25) + Pts(b.ret26 = "flat", 10)
              + Pts(b.dd52 = "some", 15) + Pts(b.calm, 20)
      c    == Class(2 * bull - Pts(bull = 45, 1), 2 * bear, 2 * rng)
  IN  [class |-> c,
       score |-> CASE c = "BULL" -> bull [] c = "BEAR" -> -bear [] OTHER -> 0]

DayScores  == {DayScored(b) : b \in DayBar}
WeekScores == {WeekScored(b) : b \in WeekBar}

-----------------------------------------------------------------------------
(* fuseStates, one day with the smoothed classes trend and cp. *)

StateToNum(class) == CASE class = "BULL" -> 1 [] class = "BEAR" -> -1 [] OTHER -> 0

\* A vote: six tenths for the class, the rest by the score.
Vote(class, score) == StateToNum(class) * (6000 + 40 * Min({100, Abs(score)}))

\* The votes, weighed 55 to 45, in millionths.
Combined(trend, cp, d, w) == 55 * Vote(trend, d.score) + 45 * Vote(cp, w.score)

\* (mutant: both weigh the same)
EvenState(trend, cp, d, w) ==
  LET sum == 50 * Vote(trend, d.score) + 50 * Vote(cp, w.score)
  IN  CASE sum >= 220000 -> "BULL" [] sum <= -220000 -> "BEAR" [] OTHER -> "RANGE"

FusedState(trend, cp, d, w) ==
  LET sum == Combined(trend, cp, d, w)
  IN  CASE sum >= 220000 -> "BULL" [] sum <= -220000 -> "BEAR" [] OTHER -> "RANGE"

\* In millionths, no more than 0.99 (and never less than 0.05).
Confidence(trend, cp, d, w) ==
  Min({990000, 400000 + Pts(trend = cp, 300000) + Abs(Combined(trend, cp, d, w)) \div 5
               + 100000 - 5 * Abs(Vote(trend, d.score) - Vote(cp, w.score))})

\* The same state, and a confidence on the same side of the 0.62 of a turned day and
\* of the 0.75 of a weak segment.
SameVerdict(rule, trend, cp, d, w) ==
  /\ rule.state = FusedState(trend, cp, d, w)
  /\ rule.conf > 75 <=> Confidence(trend, cp, d, w) > 750000
  /\ rule.conf < 62 <=> Confidence(trend, cp, d, w) < 620000
=============================================================================
