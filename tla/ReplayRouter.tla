---------------------------- MODULE ReplayRouter ----------------------------
(***************************************************************************)
(* The regime routers v6, v7, v8 and v9 of the replay: weekly (v6: per     *)
(* bar) votes move the regime, and each 4h bar closes what the regime no   *)
(* longer allows, opens at most one position and moves it.  One step is    *)
(* one iteration of the loop over the points or of the loop over the bars. *)
(***************************************************************************)
EXTENDS ReplayPosition, Functions

CONSTANTS
  Profiles,          \* the routers to replay, of {"v6", "v7", "v8", "v9"}
  Bars,              \* what a 4h bar shows: see BarsAssumption
  DailyLossLimit, WeeklyLossLimit,
  LossRun,           \* consecutive losses that pause (3)
  PauseBars,         \* pauseBars after them (6)
  CooldownBars, MaxEntriesPerWeek,
  CalibConfirm,      \* RegimeMinConfirmBar of classifySeries
  MinConfirm, MinStay,   \* RegimeMinConfirmBars, RegimeMinStayBars
  DayOf, WeekOf,     \* calendar: the day and the week of each bar
  V7Frame,           \* the timeframe calibrateRegime selects for v7, "1d" or "1w"
  WarmupPoints,      \* classified points (days or weeks) before the window
  MaxBars            \* bound: bars of the window

\* close: the close; trendStop: the stop of evalTrend and evalTrendShort, 0 when
\* a filter refuses; rangeStop: the same for the two edges of the band; atr, ema:
\* one ATR multiple behind the close and behind the EMA; mid: the middle of the
\* band, 0 without one; farEdge: the close is at the other edge of the band.
BarReading ==
  [close : Nat \ {0}, trendStop : [Sides -> Nat], rangeStop : [Sides -> Nat],
   atr : [Sides -> Nat \ {0}], ema : [Sides -> Nat \ {0}],
   mid : Nat, farEdge : [Sides -> BOOLEAN]]

\* A stop lies behind the close, or there is no entry.
BarsAssumption ==
  \A b \in Bars :
    /\ b \in BarReading
    /\ b.atr["long"] < b.close /\ b.close < b.atr["short"]
    /\ \A s \in Sides : \A stop \in {b.trendStop[s], b.rangeStop[s]} :
         stop # 0 => Sign(s) * (b.close - stop) > 0

ASSUME RouterAssumption ==
  /\ V7Frame \in {"1d", "1w"}
  /\ Profiles \subseteq {"v6", "v7", "v8", "v9"}
  /\ BarsAssumption
  /\ {RiskAmount, RiskCapital, BearLeverage, MaxHoldBars, DailyLossLimit,
      WeeklyLossLimit, PauseBars, CooldownBars, MaxEntriesPerWeek,
      WarmupPoints, MaxBars} \subseteq Nat
  /\ DayOf \in [0..MaxBars -> Nat] /\ WeekOf \in [0..MaxBars -> Nat]
  /\ {RangeHoldBars, LossRun, CalibConfirm, MinConfirm, MinStay} \subseteq Nat \ {0}

\* A week of 42 bars outlives the few bars of RegimeMinStayBars, none is skipped
\* (only the first may be short), and the calibration tries confirmations of 2 and 3.
Begins(t) == WeekOf[t] > WeekOf[t - 1]

LongWeeks ==
  \A t \in 1..MaxBars :
    /\ WeekOf[t] <= WeekOf[t - 1] + 1
    /\ Begins(t) => \A u \in 1..(t - 1) : Begins(u) => t - u >= MinStay

ASSUME CalendarAssumption == LongWeeks /\ CalibConfirm >= 2

VARIABLES
  profile,
  votes,     \* points consumed (idx)
  classed,   \* classifySeries: the weekly class with its confirmation
  router,    \* currentRegime, pendingRegime, pendingCnt, barsSinceSwitch
  was,       \* the regime when the last bar ended
  time,      \* bars done
  price,     \* close of the last bar
  book,      \* positions, sums and counters of the replay
  peak, maxDD,
  run        \* the last equal, decided votes since the first bar

vars == <<profile, votes, classed, router, was, time, price, book, peak, maxDD, run>>

Regimes == {"BULL", "RANGE", "BEAR"}
Home(s) == IF s = "long" THEN "BULL" ELSE "BEAR"
Quota == profile \in {"v8", "v9"}

Days  == {DayOf[t] : t \in 0..MaxBars}
Weeks == {WeekOf[t] : t \in 0..MaxBars}

\* long and short positions, the sums the gate reads, and the counters.
Book ==
  [pos : [Sides -> Position], net : Int, day : [Days -> Int],
   week : [Weeks -> Int], wins : Nat, trades : Nat, losses : Nat,
   pause : 0..PauseBars, cooldown : 0..CooldownBars,
   entries : [Weeks -> Nat], opened : Nat]

Start ==
  /\ votes = 0
  /\ classed = [now |-> "RANGE", pending |-> "RANGE", count |-> 0]
  /\ router = [regime |-> "RANGE", pending |-> "RANGE", count |-> 0, since |-> MinStay]
  /\ was = "RANGE"
  /\ time = 0 /\ price = 0
  /\ book = [pos |-> [s \in Sides |-> NoPosition], net |-> 0,
             day |-> [d \in Days |-> 0], week |-> [w \in Weeks |-> 0],
             wins |-> 0, trades |-> 0, losses |-> 0, pause |-> 0, cooldown |-> 0,
             entries |-> [w \in Weeks |-> 0], opened |-> 0]
  /\ peak = 0 /\ maxDD = 0
  /\ run = [class |-> "RANGE", length |-> 0]

Init == profile \in Profiles /\ Start

-----------------------------------------------------------------------------
(* The votes. *)

\* Votes to consume before the bar at "t", those of the points before the window
\* included: v6 detects on each bar, v7 has one point a day or a week, the others one
\* a week.
VotesDue(t) ==
  CASE profile = "v6" -> t + 1
    [] profile = "v7" /\ V7Frame = "1d" -> WarmupPoints + 1 + DayOf[t]
    [] OTHER -> WarmupPoints + 1 + WeekOf[t]

\* classifySeries: a new class has to be seen CalibConfirm times in a row.
Classified(c) ==
  LET n == IF c = classed.pending THEN classed.count + 1 ELSE 1
  IN  IF c = classed.now THEN [now |-> c, pending |-> c, count |-> 0]
      ELSE IF n >= CalibConfirm THEN [now |-> c, pending |-> c, count |-> 0]
      ELSE [now |-> classed.now, pending |-> c, count |-> n]

\* (mutant: the first vote for a regime does not count)
CountedLate(c) ==
  LET n == IF c = router.pending THEN router.count + 1 ELSE 0
  IN  IF n >= MinConfirm
      THEN [regime |-> c, pending |-> c, count |-> 0,
            since |-> IF Quota THEN 0 ELSE router.since]
      ELSE [router EXCEPT !.pending = c, !.count = n]

\* A vote for a switch.
Counted(c) ==
  LET n == IF c = router.pending THEN router.count + 1 ELSE 1
  IN  IF n >= MinConfirm
      THEN [regime |-> c, pending |-> c, count |-> 0,
            since |-> IF Quota THEN 0 ELSE router.since]
      ELSE [router EXCEPT !.pending = c, !.count = n]

\* v6 keeps the count when a vote agrees; v7 follows the class; v8 and v9 want a
\* score beyond the hysteresis and some bars since the last switch.
Routed(c, decided) ==
  CASE profile = "v6" -> IF c = router.regime THEN router ELSE Counted(c)
    [] profile = "v7" -> [router EXCEPT !.regime = c]
    [] OTHER -> IF c = router.regime THEN [router EXCEPT !.count = 0]
                ELSE IF decided /\ router.since >= MinStay THEN Counted(c)
                ELSE router

\* v6 reads day bars only: within a day the candidate is the same.
SameDay == profile = "v6" /\ time > 0 /\ DayOf[time] = DayOf[time - 1]

Vote(c, decided) ==
  /\ time < MaxBars /\ votes < VotesDue(time)
  /\ SameDay => c = classed.now
  /\ votes' = votes + 1
  /\ classed' = IF profile = "v6" THEN [classed EXCEPT !.now = c] ELSE Classified(c)
  /\ router' = Routed(classed'.now, decided)
  /\ run' = IF time = 0 THEN run
            ELSE [class |-> c,
                  length |-> IF ~decided THEN 0
                             ELSE IF c = run.class THEN run.length + 1 ELSE 1]
  /\ UNCHANGED <<profile, was, time, price, book, peak, maxDD>>

-----------------------------------------------------------------------------
(* One bar. *)

\* A closed trade reaches the net figure ...
Closed(k, s, pnl) ==
  [k EXCEPT !.pos = [@ EXCEPT ![s] = NoPosition], !.net = @ + pnl, !.trades = @ + 1]

Added(f, x, n) == [f EXCEPT ![x] = @ + n]

\* (mutant: the week is forgotten)
BookedDay(k, pnl) == [k EXCEPT !.day = Added(@, DayOf[time], pnl)]

\* ... the sums the gate reads ...
Booked(k, pnl) ==
  [k EXCEPT !.day = Added(@, DayOf[time], pnl), !.week = Added(@, WeekOf[time], pnl)]

\* ... and the counters; "mayPause" where the third loss is looked at.
Scored(k, pnl, mayPause) ==
  LET third == pnl < 0 /\ mayPause /\ k.losses + 1 >= LossRun
  IN  [k EXCEPT !.wins = IF pnl > 0 THEN @ + 1 ELSE @,
                !.losses = IF pnl > 0 \/ third THEN 0 ELSE IF pnl < 0 THEN @ + 1 ELSE @,
                !.pause = IF third THEN PauseBars ELSE @]

\* v6, on the bar of a switch.
SwitchExit(k, s, b) ==
  LET p == k.pos[s]
      t == SwitchTakeProfit(s, p, b)
      pnl == ClosingPnL(s, p, b.close)
  IN  IF was = Home(s) /\ router.regime = "RANGE"
      THEN [k EXCEPT !.net = @ + t.pnl, !.pos = [@ EXCEPT ![s] = t.pos]]
      ELSE IF s = "short" /\ was = "RANGE" /\ router.regime = "BULL"
      THEN Scored(Closed(k, s, pnl), pnl, FALSE)
      ELSE k

\* (mutant: only v9 looks at the regime)
MustLeaveRange(p) == profile = "v9" /\ router.regime # "RANGE" /\ p.stop = 0

\* v7 and v8 leave everything in RANGE; v9 leaves its range positions outside.
MustLeave(p) == IF profile = "v9" THEN router.regime # "RANGE" /\ p.stop = 0
                ELSE router.regime = "RANGE"

\* What the regime does to an open position before entries are looked at.
RegimeExit(k, s, b) ==
  LET p == k.pos[s]
      pnl == ClosingPnL(s, p, b.close)
  IN  IF ~p.active THEN k
      ELSE IF profile = "v6" THEN SwitchExit(k, s, b)
      ELSE IF ~MustLeave(p) THEN k
      ELSE IF profile = "v9" THEN Booked(Closed(k, s, pnl), pnl)
      ELSE Closed(k, s, pnl)

\* (mutant: a pause does not block)
LimitsBlock(k) == \/ -k.day[DayOf[time]] >= DailyLossLimit
                  \/ -k.week[WeekOf[time]] >= WeeklyLossLimit

\* riskBlocked, computed before the regime exits of the bar.
RiskBlocked(k) == \/ -k.day[DayOf[time]] >= DailyLossLimit
                  \/ -k.week[WeekOf[time]] >= WeeklyLossLimit
                  \/ k.pause > 0

\* The side and the stop of the entry the bar offers; stop 0: none.
Offer(b) ==
  CASE router.regime = "BULL" -> [side |-> "long", stop |-> b.trendStop["long"]]
    [] router.regime = "BEAR" -> [side |-> "short", stop |-> b.trendStop["short"]]
    [] OTHER ->
         IF profile # "v9" THEN [side |-> "long", stop |-> 0]
         ELSE IF b.rangeStop["long"] # 0 THEN [side |-> "long", stop |-> b.rangeStop["long"]]
         ELSE [side |-> "short", stop |-> b.rangeStop["short"]]

\* (mutant: only the long side is looked at)
FlatLong(k) == ~k.pos["long"].active

Flat(k) == \A s \in Sides : ~k.pos[s].active

QuotaLeft(k) == Quota => k.cooldown = 0 /\ k.entries[WeekOf[time]] < MaxEntriesPerWeek

Entry(k, b, blocked) ==
  LET o == Offer(b)
      p == Opened(o.side, b.close, o.stop, router.regime = "RANGE")
  IN  IF Flat(k) /\ ~blocked /\ QuotaLeft(k) /\ o.stop # 0 /\ p.qty > 0
      THEN [k EXCEPT !.pos = [@ EXCEPT ![o.side] = p], !.opened = @ + 1,
                     !.cooldown = IF Quota THEN CooldownBars ELSE @,
                     !.entries = IF Quota THEN Added(@, WeekOf[time], 1) ELSE @]
      ELSE k

Step(s, p, b) ==
  IF ~Quota THEN StepLadder(s, p, b)
  ELSE IF p.stop = 0 THEN StepRange(s, p, b, router.regime = "RANGE")
  ELSE StepTrail(s, p, b)

Move(k, s, b) ==
  LET t == Step(s, k.pos[s], b)
      pnl == ClosingPnL(s, t.pos, b.close)
  IN  IF ~k.pos[s].active THEN k
      ELSE IF t.close THEN Scored(Booked(Closed(k, s, pnl), pnl), pnl, TRUE)
      ELSE [k EXCEPT !.pos = [@ EXCEPT ![s] = t.pos]]

\* (mutant: no floor)
LessOne(n) == n - 1

Less(n) == IF n > 0 THEN n - 1 ELSE 0
Waited(k) == [k EXCEPT !.pause = Less(@), !.cooldown = Less(@)]

BothSides(Op(_, _, _), k, b) == Op(Op(k, "long", b), "short", b)

BookAfter(b) ==
  LET k == Waited(book)
  IN  BothSides(Move, Entry(BothSides(RegimeExit, k, b), b, RiskBlocked(k)), b)

\* The equity line: net and the positions at the last close.
Equity(k, at) == k.net + Worth("long", k.pos["long"], at) + Worth("short", k.pos["short"], at)

Bar(b) ==
  /\ time < MaxBars /\ votes = VotesDue(time)
  /\ book' = BookAfter(b)
  /\ price' = b.close
  /\ LET equity == Equity(book', b.close)
     IN  /\ peak' = IF equity > peak THEN equity ELSE peak
         /\ maxDD' = IF peak' - equity > maxDD THEN peak' - equity ELSE maxDD
  /\ time' = time + 1
  /\ was' = router.regime
  /\ router' = [router EXCEPT !.since = IF @ < MinStay THEN @ + 1 ELSE @]
  /\ UNCHANGED <<profile, votes, classed, run>>

Next == \/ \E c \in Regimes, decided \in BOOLEAN : Vote(c, decided)
        \/ \E b \in Bars : Bar(b)

Spec == Init /\ [][Next]_vars

-----------------------------------------------------------------------------
TypeOK ==
  /\ profile \in Profiles
  /\ votes \in Nat
  /\ classed \in [now : Regimes, pending : Regimes, count : Nat]
  /\ router \in [regime : Regimes, pending : Regimes, count : Nat, since : 0..MinStay]
  /\ was \in Regimes
  /\ time \in 0..MaxBars /\ price \in Nat
  /\ book \in Book
  /\ peak \in Nat /\ maxDD \in Nat
  /\ run \in [class : Regimes, length : Nat]

\* From one bar to the next the equity moves by the price times what was held,
\* whatever rungs, exits and entries the bar had: no profit is booked twice, lost
\* or invented (applySwitchTakeProfit, realizedPart, the exits by regime).
Exposure(k) == LET Held(s) == IF k.pos[s].active THEN Sign(s) * k.pos[s].remain ELSE 0
               IN  Held("long") + Held("short")

MarkToMarket ==
  [][time' # time =>
       Equity(book', price') - Equity(book, price) = (price' - price) * Exposure(book)]_vars

\* Every position that was opened is open or was counted as one trade.
EveryTradeCounted ==
  book.opened = book.trades + (IF Flat(book) THEN 0 ELSE 1)

\* No position is carried across the edge of RANGE where the router has another way
\* of trading, or none, on the other side: after a bar in RANGE v7 and v8 hold nothing,
\* and after a bar outside it v9 holds no position it opened on the band.  All others
\* are carried: those of v6, the trend positions of v9 into RANGE, and a long of v7 or
\* v8 through a switch from BULL to BEAR.
RangeHeldByItsOwn ==
  \A s \in Sides : book.pos[s].active =>
    /\ profile \in {"v7", "v8"} => was # "RANGE"
    /\ profile = "v9" /\ book.pos[s].stop = 0 => was = "RANGE"

\* v9 shows its loss gate every figure: the days and the weeks add up to the net
\* (v6, v7 and v8 book some exits past the gate), and so does the tactical leg of v4.
Total(f) == FoldFunction(LAMBDA x, y : x + y, 0, f)

GateSeesEverything ==
  profile \in {"v4", "v9"} => book.net = Total(book.day) /\ book.net = Total(book.week)

\* Once the votes agree, the regime follows within the two confirmations (the
\* votes of the first bar, which stand for all earlier weeks, do not count).
Lag == CASE profile = "v6" -> MinConfirm
         [] profile = "v7" -> CalibConfirm
         [] OTHER -> CalibConfirm + MinConfirm - 1

FollowsTheVotes == run.length >= Lag => router.regime = run.class

\* While a position stays open its trail only moves in its favour, but for the
\* bar of its first rung: v8 and v9 then put a trail that had passed the entry
\* back to the entry, and no further (stepLongPositionV8, stepShortPositionV8).
TrailNeverLoosens ==
  [][\A s \in Sides :
       LET p == book.pos[s]  q == book'.pos[s]
       IN  p.active /\ q.active /\ book'.opened = book.opened /\ p.trail > 0 =>
             \/ Beyond(s, q.trail, p.trail)
             \/ q.tp1 /\ ~p.tp1 /\ Beyond(s, q.trail, q.entry)]_vars
=============================================================================
