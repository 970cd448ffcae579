------------------------- MODULE RegimeStartpoints -------------------------
(***************************************************************************)
(* indicator.ComputeRegimeStartpoints: from the classes of the days and of *)
(* the weeks so far to segments of one regime each.  It has no state: the  *)
(* callers compute it again over all days whenever a day is added.         *)
(***************************************************************************)
EXTENDS Integers, SequencesExt

CONSTANTS
  DaysPerWeek,
  DayWindow, DayNeeded,    \* a day's class counts when seen 4 times in the last 5 days
  ShortRun,                \* a run below 14 days joins the segment before it ...
  WeakRun, WeakConfidence  \* ... and one below 21 days whose mean is below 75

ASSUME StartpointsAssumption == DaysPerWeek \in Nat \ {0} /\ DayWindow \in Nat \ {0, 1}

Regimes == {"BULL", "RANGE", "BEAR"}

\* trend: class of the trend method (1d); week: class of the change point method
\* for the week, as its closes stand on this day; strong: the score of the day is
\* beyond 0.727, see FusedDays.  The indicators behind the classes are inputs.
DayReading == [trend : Regimes, week : Regimes, strong : BOOLEAN]

WeekOf(d) == (d - 1) \div DaysPerWeek + 1

-----------------------------------------------------------------------------
\* The same sequence, as a tuple: TLC computes its members once.
Tupled(s) == SubSeq(s, 1, Len(s))

Votes(days, from, to, class) == Cardinality({j \in from..to : days[j].trend = class})

\* classifyTrend1D: a class has to fill most of its window, else the day keeps
\* the class of the day before.
DaySmoothed(days) ==
  LET sm[i \in 1..Len(days)] ==
        IF i < DayWindow \/ Votes(days, i - DayWindow + 1, i, days[i].trend) >= DayNeeded
        THEN days[i].trend ELSE sm[i - 1]
  IN  sm

\* The weekly bars of these days: each closes with its last day so far.
WeekClasses(days) ==
  [w \in 1..WeekOf(Len(days)) |->
     days[IF w * DaysPerWeek <= Len(days) THEN w * DaysPerWeek ELSE Len(days)].week]

\* (mutant: the newest week confirms, whichever week that is)
WeekSmoothedLate(raw) ==
  LET counts == {w \in 1..Len(raw) : w = 1 \/ (w < Len(raw) /\ raw[Len(raw)] = raw[w])}
  IN  [w \in 1..Len(raw) |-> raw[Max({v \in counts : v <= w})]]

\* classifyCP1W: the class of a week counts when the next week agrees, else the
\* class of the last week that counted stands.
WeekSmoothed(raw) ==
  LET counts == {w \in 1..Len(raw) : w = 1 \/ (w < Len(raw) /\ raw[w + 1] = raw[w])}
  IN  [w \in 1..Len(raw) |-> raw[Max({v \in counts : v <= w})]]

\* fuseStates, one day: 55% trend and 45% week beat the threshold on their own,
\* opposed the two make RANGE unless the day is the stronger.  The confidence (in %)
\* is above 75 exactly where both agree.
Fused(d, w, strong) ==
  LET state == IF d = w \/ w = "RANGE" THEN d
               ELSE IF d = "RANGE" THEN w
               ELSE IF strong THEN d ELSE "RANGE"
  IN  [state |-> state,
       conf |-> IF d # w THEN 55 ELSE IF d = "RANGE" THEN 80 ELSE 95]

\* A day alone between two equal ones.
Alone(f, before, after) == f.state # after.state /\ before.state = after.state

\* Such a day takes the state of its neighbours, except for the last two days; the
\* day before it counts as it was turned itself.
Turned(raw) ==
  LET fl[i \in 1..Len(raw)] ==
        IF i > 1 /\ i < Len(raw) - 1 /\ Alone(raw[i], fl[i - 1], raw[i + 1])
        THEN [state |-> raw[i + 1].state, conf |-> IF raw[i].conf < 62 THEN raw[i].conf ELSE 62]
        ELSE raw[i]
  IN  fl

\* fuseStates; expandWeeklyToDaily gives each day the class of its week.  Opposed to
\* its week a day wins with 0.06 + 0.22 day - 0.18 week >= 0.22: only a week that is
\* RANGE by itself scores low enough (0; any other scores 0.3 or more, a day at most
\* 0.95), and its class then is that of an earlier week.
FusedDays(days) ==
  LET trend == Tupled(DaySmoothed(days))
      own   == Tupled(WeekClasses(days))
      week  == Tupled(WeekSmoothed(own))
      raw   == [i \in 1..Len(days) |->
                  Fused(trend[i], week[WeekOf(i)], days[i].strong /\ own[WeekOf(i)] = "RANGE")]
  IN  Tupled(Turned(raw))

-----------------------------------------------------------------------------
(* buildSegments. *)

\* A day continues the last segment of its state.
Grown(segs, i, f) ==
  LET k == Len(segs)
  IN  IF k > 0 /\ segs[k].state = f.state
      THEN [segs EXCEPT ![k] = [segs[k] EXCEPT !.end = i, !.sum = @ + f.conf]]
      ELSE Append(segs, [state |-> f.state, start |-> i, end |-> i, sum |-> f.conf])

Runs(fused) ==
  LET runs[i \in 0..Len(fused)] ==
        IF i = 0 THEN <<>> ELSE Grown(runs[i - 1], i, fused[i])
  IN  runs[Len(fused)]

Length(r) == r.end - r.start + 1

\* Too short, or not long enough for its mean confidence.
Absorbed(r) == \/ Length(r) < ShortRun
               \/ Length(r) < WeakRun /\ r.sum < WeakConfidence * Length(r)

\* An absorbed run takes the state of the segment before it; then neighbours of
\* the same state are one segment.  (Both passes of the code in one.)
Joined(segs, r) ==
  LET k == Len(segs)
  IN  IF k = 0 THEN <<r>>
      ELSE IF Absorbed(r) \/ segs[k].state = r.state
           THEN [segs EXCEPT ![k] = [@ EXCEPT !.end = r.end]]
      ELSE Append(segs, r)

Segments(days) ==
  LET runs == Runs(FusedDays(days))
      segs[k \in 0..Len(runs)] == IF k = 0 THEN <<>> ELSE Joined(segs[k - 1], runs[k])
  IN  segs[Len(runs)]

\* detectV10RegimeFromStartpoints: the state of the last startpoint so far;
\* anything unknown is RANGE.
Detected(days) ==
  LET segs == Segments(days)
      state == IF segs = <<>> THEN "NONE" ELSE segs[Len(segs)].state
  IN  CASE state = "BULL" -> "BULL" [] state = "BEAR" -> "BEAR" [] OTHER -> "RANGE"

-----------------------------------------------------------------------------
(* What is promised of the segments. *)

\* The last day no later day can change: the next one, at which the turning round
\* looks, lies in a week that is followed by a closed week (the weekly smoothing
\* looks one week ahead).
Settled(days) == (WeekOf(Len(days)) - 2) * DaysPerWeek - 1

RegimeOn(segs, d) == segs[CHOOSE k \in 1..Len(segs) : segs[k].start <= d /\ d <= segs[k].end].state

\* Adding a day never changes the regime of a day whose run ended among the
\* settled days.
PastKept(before, after) ==
  LET fused == FusedDays(before)
      old == Segments(before)
      new == Segments(after)
  IN  \A d \in 1..(Settled(before) - 1) :
        (\E e \in d..(Settled(before) - 1) : fused[e].state # fused[e + 1].state) =>
          RegimeOn(old, d) = RegimeOn(new, d)
=============================================================================
