----------------------------- MODULE DailyScores -----------------------------
(***************************************************************************)
(* DailyRouter, beside the scores its days stand for.  A day comes with    *)
(* two classes and with one bit of its score; here is what that bit has    *)
(* to say, whatever the indicators showed.                                 *)
(***************************************************************************)
EXTENDS DailyRouter, RegimeScores

\* What classifyTrend1D can have made of a day, and classifyCP1W of a week.
\* A day is strong beyond a score of 72.7.
DayScoresOf(r) == {d \in DayScores : d.class = r.trend /\ (Abs(d.score) >= 73) = r.strong}
WeekScoresOf(class) == {w \in WeekScores : w.class = class}

\* The smoothed classes, the day and the class its week has by itself, for which the
\* rule of FusedDays agrees with the scores.
Agreeing ==
  {x \in {[trend |-> t, cp |-> c, day |-> r, own |-> o] :
            t \in Regimes, c \in Regimes, r \in DayReading, o \in Regimes} :
     \A d \in DayScoresOf(x.day), w \in WeekScoresOf(x.own) :
       SameVerdict(Fused(x.trend, x.cp, x.day.strong /\ x.own = "RANGE"), x.trend, x.cp, d, w)}

\* Each day, smoothed as it is by the days around it, gets the state and the confidence
\* that the scores of the day and of its week give (fuseStates), though the router sees
\* of these only their classes and one bit.
RuleOfTheScores ==
  LET trend == Tupled(DaySmoothed(days))
      own   == Tupled(WeekClasses(days))
      week  == Tupled(WeekSmoothed(own))
  IN  \A i \in 1..Len(days) :
        [trend |-> trend[i], cp |-> week[WeekOf(i)], day |-> days[i], own |-> own[WeekOf(i)]]
          \in Agreeing
=============================================================================
