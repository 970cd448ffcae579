---------------------------- MODULE DailyRouter ----------------------------
(***************************************************************************)
(* The daily routers of the replay: v10, which is always in the market on  *)
(* the side of its regime, and v11 to v13, which want a signal, stop by    *)
(* price and pay costs.  The regime is that of the startpoints, computed   *)
(* again on the first bar of each day.  One step is one iteration of the   *)
(* loop over the 4h bars.                                                  *)
(***************************************************************************)
EXTENDS RegimeStartpoints

CONSTANTS
  Profiles,            \* of {"v10", "v11", "v13"}; v12 is v11 with other numbers
  Bars,                \* what a 4h bar shows: see BarsAssumption
  PriorDays, Priors,   \* days in the table before the window, and what they show
  WarmupDays,          \* days v11 to v13 want before they start
  BarsPerDay,
  Capital,             \* RiskCapitalUSDT
  BullAllocMin, BullAllocMax, RangeAlloc, RangeBoost,  \* in percent
  BearLeverage,        \* cut to BearLeverageCap
  BullFloor, AddOnFloor, CoreExitFloor, BearFloor, Hysteresis,    \* of a score, 0..100
  MinConfirm, MinStay, \* RegimeMinConfirmBars, RegimeMinStayBars: in days
  CooldownBars, MaxEntriesPerWeek,
  CostPct, FundingPct, \* CostPerSidePct; ShortFundingAPR per bar
  LastCloses,          \* closes of the last bar of the table
  MaxBars              \* bound: bars of the window

Sides == {"long", "short"}

\* score: strength of a signal for each regime; bearOk: quality filter and
\* momentum agree with a short; support: isRangeTrendSupport; edge: the ATR pays
\* the costs; emaExit: the close is below the EMA buffer; stop, trail: ATR
\* multiples behind the close.
BarReading ==
  [close : Nat \ {0}, day : DayReading, score : [Regimes -> 0..100],
   bearOk : BOOLEAN, support : BOOLEAN, edge : BOOLEAN, emaExit : BOOLEAN,
   stop : [Sides -> Nat], trail : [Sides -> Nat]]

BarsAssumption ==
  \A b \in Bars :
    /\ b \in BarReading
    /\ b.stop["long"] < b.close /\ b.close < b.stop["short"]
    /\ b.trail["long"] < b.close /\ b.close < b.trail["short"]

ASSUME DailyAssumption ==
  /\ Profiles \subseteq {"v10", "v11", "v13"}
  /\ BarsAssumption
  /\ Priors \subseteq [1..PriorDays -> DayReading]
  /\ {PriorDays, WarmupDays, Capital, BullAllocMin, BullAllocMax, RangeAlloc,
      RangeBoost, BearLeverage, CoreExitFloor, Hysteresis, CooldownBars,
      CostPct, FundingPct, MaxBars} \union LastCloses \subseteq Nat
  /\ BullAllocMin <= BullAllocMax
  /\ {BullFloor, AddOnFloor, BearFloor} \subseteq 0..99
  /\ {DaysPerWeek, BarsPerDay, MinConfirm, MinStay, MaxEntriesPerWeek} \subseteq Nat \ {0}

VARIABLES
  profile,
  days,      \* the day bars up to the current bar, as readings
  seen,      \* days when the regime was last looked at (lastRegimeDay)
  router,    \* currentRegime, pendingRegime, pendingRegimeDays, regimeDaysSinceSwitch
  time,      \* bars done
  price,     \* close of the last bar
  book,      \* position, sums and counters
  peak, maxDD,
  done       \* the last position was closed after the loop

vars == <<profile, days, seen, router, time, price, book, peak, maxDD, done>>

Weeks == 1..WeekOf(PriorDays + MaxBars + 1)

\* regime: what the position was opened for, "NONE" when flat (""); core: bullCoreQty;
\* since: the bar of its entry.
Position ==
  [regime : Regimes \cup {"NONE"}, entry : Nat, qty : Int, core : Int,
   stop : Nat, trail : Nat, since : Nat]

NoPosition == [regime |-> "NONE", entry |-> 0, qty |-> 0, core |-> 0,
               stop |-> 0, trail |-> 0, since |-> 0]

Router == [regime : Regimes, pending : Regimes, count : Nat, since : 0..MinStay]

Book == [pos : Position, net : Int, costs : Int, wins : Nat, trades : Nat,
         opened : Nat, cooldown : 0..CooldownBars, entries : [Weeks -> Nat]]

Init ==
  /\ profile \in Profiles
  /\ days \in Priors
  /\ seen = 0
  /\ router = [regime |-> "RANGE", pending |-> "RANGE", count |-> 0, since |-> MinStay]
  /\ time = 0 /\ price = 0
  /\ book = [pos |-> NoPosition, net |-> 0, costs |-> 0, wins |-> 0, trades |-> 0,
             opened |-> 0, cooldown |-> 0, entries |-> [w \in Weeks |-> 0]]
  /\ peak = 0 /\ maxDD = 0
  /\ done = FALSE

-----------------------------------------------------------------------------
(* The regime of a new day. *)

DayAt(t) == PriorDays + t \div BarsPerDay + 1

DaysWith(b) == IF Len(days) < DayAt(time) THEN Append(days, b.day) ELSE days

\* (mutant: the days need not be consecutive)
CountedOver(c) ==
  IF router.count + 1 >= MinConfirm
  THEN [regime |-> c, pending |-> c, count |-> 0, since |-> 0]
  ELSE [router EXCEPT !.pending = c, !.count = @ + 1]

\* One more day in a row for a switch.
Counted(c) ==
  LET n == IF c = router.pending THEN router.count + 1 ELSE 1
  IN  IF n >= MinConfirm
      THEN [regime |-> c, pending |-> c, count |-> 0, since |-> 0]
      ELSE [router EXCEPT !.pending = c, !.count = n]

Older(r) == [r EXCEPT !.since = IF @ < MinStay THEN @ + 1 ELSE @]

\* v10 takes the detected regime as it is; the others want some days since the
\* last switch, a strong signal for the new regime and MinConfirm days of it.
Routed(c, b) ==
  IF profile = "v10" THEN [router EXCEPT !.regime = c]
  ELSE IF c # router.regime /\ Older(router).since >= MinStay /\ b.score[c] >= Hysteresis
  THEN LET r == Counted(c)
       IN  IF r.regime = c THEN r ELSE Older(r)
  ELSE Older([router EXCEPT !.pending = c, !.count = 0])

-----------------------------------------------------------------------------
(* Positions. *)

Held(k) == k.pos.regime # "NONE"
Sign(r) == IF r = "BEAR" THEN -1 ELSE 1

\* What a position gained at a price, before costs.
Gain(p, at) == IF p.regime = "NONE" THEN 0 ELSE Sign(p.regime) * (at - p.entry) * p.qty

Percent(x, pct) == (x * pct) \div 100

\* Costs of both sides, and funding of a short for the bars it was held.
Cost(p, at) ==
  IF profile = "v10" THEN 0
  ELSE Percent((p.entry + at) * p.qty, CostPct)
       + (IF p.regime = "BEAR" THEN Percent(p.entry * p.qty, FundingPct * (time - p.since))
          ELSE 0)

\* (mutant: an exit that fires although another one has closed already)
ClosedTwice(k, at) ==
  LET pnl == Gain(k.pos, at) - Cost(k.pos, at)
  IN  [k EXCEPT !.pos = NoPosition, !.net = @ + pnl, !.costs = @ + Cost(k.pos, at),
                !.trades = @ + 1, !.wins = IF pnl > 0 THEN @ + 1 ELSE @]

\* closePos: nothing without a position.
Closed(k, at) ==
  LET pnl == Gain(k.pos, at) - Cost(k.pos, at)
  IN  IF ~Held(k) \/ k.pos.qty = 0 THEN k
      ELSE [k EXCEPT !.pos = NoPosition, !.net = @ + pnl, !.costs = @ + Cost(k.pos, at),
                     !.trades = @ + 1, !.wins = IF pnl > 0 THEN @ + 1 ELSE @]

Opened(k, r, b, notional, core, stop, trail) ==
  LET q == notional \div b.close
  IN  IF q = 0 THEN k
      ELSE [k EXCEPT !.pos = [regime |-> r, entry |-> b.close, qty |-> q,
                              core |-> IF core < q THEN core ELSE q,
                              stop |-> stop, trail |-> trail, since |-> time],
                     !.opened = @ + 1]

\* (mutant: a position of the other side is overwritten)
AlwaysOver(k, r, b) ==
  LET c == IF r = "RANGE" THEN Closed(k, b.close) ELSE k
      lever == IF r = "BEAR" THEN 2 ELSE 1
  IN  IF r = "RANGE" \/ c.pos.regime = r THEN c
      ELSE Opened(c, r, b, Percent(Capital, 70 * lever), 0, 0, 0)

\* v10: close what the regime does not want, open what it wants.
Always(k, r, b) ==
  LET c == IF k.pos.regime # "NONE" /\ k.pos.regime # r THEN Closed(k, b.close) ELSE k
      lever == IF r = "BEAR" THEN 2 ELSE 1
  IN  IF r = "RANGE" \/ Held(c) THEN c
      ELSE Opened(c, r, b, Percent(Capital, 70 * lever), 0, 0, 0)

\* The trail of a bull moves up with the close, that of a bear down; a range
\* position keeps its first one and nobody looks at it.
Trailed(p, b) ==
  CASE p.regime = "BULL" ->
         [p EXCEPT !.trail = IF b.trail["long"] > @ THEN b.trail["long"] ELSE @]
    [] p.regime = "BEAR" ->
         [p EXCEPT !.trail = IF @ = 0 \/ b.trail["short"] < @ THEN b.trail["short"] ELSE @]
    [] OTHER -> p

\* "p" with its trail moved.  v13 keeps a bull through a range with a fair score,
\* and drops an enlarged one as a whole when the score fails it.
MustExit(p, r, b) ==
  CASE p.regime = "BULL" ->
         \/ b.close <= p.trail \/ b.close <= p.stop
         \/ IF profile = "v11" THEN r # "BULL"
            ELSE \/ r = "BEAR"
                 \/ r = "RANGE" /\ b.score["BULL"] < CoreExitFloor
                 \/ p.qty > p.core /\ b.score["BULL"] < AddOnFloor - 6
                 \/ b.score["BULL"] < CoreExitFloor - 4
    [] p.regime = "BEAR" -> r # "BEAR" \/ b.close >= p.trail \/ b.close >= p.stop
    [] OTHER -> r # "RANGE" \/ b.emaExit

Exited(k, r, b) ==
  LET p == Trailed(k.pos, b)
      t == [k EXCEPT !.pos = p]
  IN  IF ~Held(k) THEN k
      ELSE IF MustExit(p, r, b) THEN Closed(t, b.close) ELSE t

\* The share of the capital a bull gets: it grows with the score above "floor".
Share(score, floor) ==
  BullAllocMin + ((BullAllocMax - BullAllocMin) * (score - floor)) \div (100 - floor)

BullAlloc(score) ==
  IF profile = "v11" THEN Share(score, BullFloor)
  ELSE IF score >= AddOnFloor THEN Share(score, AddOnFloor) ELSE BullAllocMin

\* That of a bear.
BearAlloc(score) ==
  LET share == 35 + ((score - BearFloor) * 14) \div 10 IN IF share < 75 THEN share ELSE 75

RangeShare(b) == RangeAlloc + (IF b.support THEN RangeBoost ELSE 0)

OneMore(entries, w) == [entries EXCEPT ![w] = @ + 1]

\* Cooldown and week are charged when something was opened.
Charged(k, was) ==
  IF k.opened = was THEN k
  ELSE [k EXCEPT !.cooldown = CooldownBars, !.entries = OneMore(k.entries, WeekOf(DayAt(time)))]

\* The entry the regime offers on this bar.
Offered(k, r, b) ==
  CASE r = "BULL" /\ b.score["BULL"] >= BullFloor ->
         Opened(k, r, b, Percent(Capital, BullAlloc(b.score["BULL"])),
                IF profile = "v13" THEN Percent(Capital, BullAllocMin) \div b.close ELSE 0,
                b.stop["long"], b.trail["long"])
    [] r = "RANGE" /\ b.edge /\ RangeShare(b) \in 1..45 ->
         Opened(k, r, b, Percent(Capital, RangeShare(b)), 0, b.stop["long"], b.stop["long"])
    [] r = "BEAR" /\ b.bearOk /\ b.score["BEAR"] >= BearFloor ->
         Opened(k, r, b, BearLeverage * Percent(Capital, BearAlloc(b.score["BEAR"])), 0,
                b.stop["short"], b.trail["short"])
    [] OTHER -> k

Entered(k, r, b) ==
  IF Held(k) \/ k.cooldown > 0 \/ k.entries[WeekOf(DayAt(time))] >= MaxEntriesPerWeek
  THEN k
  ELSE Charged(Offered(k, r, b), k.opened)

Waited(k) == [k EXCEPT !.cooldown = IF @ > 0 THEN @ - 1 ELSE @]

BookAfter(r, b) ==
  IF profile = "v10" THEN Always(book, r, b)
  ELSE Entered(Exited(Waited(book), r, b), r, b)

-----------------------------------------------------------------------------
(* Costs are paid when a position closes; the equity line does not see them *)
(* before.                                                                  *)
Equity(k, at) == k.net + Gain(k.pos, at)

Marked(b) ==
  LET equity == Equity(book', b.close)
  IN  /\ peak' = IF equity > peak THEN equity ELSE peak
      /\ maxDD' = IF peak' - equity > maxDD THEN peak' - equity ELSE maxDD

\* v11 to v13 skip bars until the table has days enough.
Warming == profile # "v10" /\ Len(days') < WarmupDays

Bar(b) ==
  /\ time < MaxBars /\ ~done
  /\ days' = DaysWith(b)
  /\ IF Warming THEN UNCHANGED <<seen, router, book, peak, maxDD>>
     ELSE /\ router' = IF Len(days') # seen THEN Routed(Detected(days'), b) ELSE router
          /\ seen' = Len(days')
          /\ book' = BookAfter(router'.regime, b)
          /\ Marked(b)
  /\ time' = time + 1
  /\ price' = b.close
  /\ UNCHANGED <<profile, done>>

\* After the loop: an open position is closed at the last bar of the table, here
\* the one that follows the window.
Finish(at) ==
  /\ time > 0 /\ ~done
  /\ done' = TRUE
  /\ book' = Closed(book, at)
  /\ price' = at
  /\ UNCHANGED <<profile, days, seen, router, time, peak, maxDD>>

Next == \/ \E b \in Bars : Bar(b)
        \/ \E at \in LastCloses : Finish(at)

Spec == Init /\ [][Next]_vars

-----------------------------------------------------------------------------
TypeOK ==
  /\ profile \in Profiles
  /\ days \in Seq(DayReading)
  /\ seen \in Nat
  /\ router \in Router
  /\ time \in 0..MaxBars /\ price \in Nat
  /\ book \in Book
  /\ peak \in Nat /\ maxDD \in Nat
  /\ done \in BOOLEAN

\* From one close to the next the equity moves by the price times what is held and
\* by the costs of what was closed: no exit books twice, none is forgotten, and
\* costs and funding are charged once (closePos and its callers).
CashConserved ==
  [][price' # price \/ book' # book =>
       Equity(book', price') - Equity(book, price')
         = -(book'.costs - book.costs)]_vars

\* Every position that was opened is open or was counted as one trade, and none
\* is left when the replay is over.
EveryTradeCounted ==
  /\ book.opened = book.trades + (IF Held(book) THEN 1 ELSE 0)
  /\ done => ~Held(book)

\* No position outlives its regime: v10 is always on the side of the regime, v11
\* and v12 leave on the bar of the switch, v13 keeps a bull through a range only.
RegimeOwnsPosition ==
  Held(book) =>
    \/ book.pos.regime = router.regime
    \/ profile = "v13" /\ book.pos.regime = "BULL" /\ router.regime = "RANGE"

\* v11 to v13 switch to a regime only after the startpoints have shown it on each
\* of the last MinConfirm days, whatever happened to the pending count before.
SwitchConfirmed ==
  [][router'.regime # router.regime =>
       \A n \in 0..(IF profile = "v10" THEN 0 ELSE MinConfirm - 1) :
         Detected(SubSeq(days', 1, Len(days') - n)) = router'.regime]_vars

\* The startpoints are computed again over all days each day; a day's regime is
\* not repainted once its run ended among the settled days.
PastIsKept == [][days' # days => PastKept(days, days')]_vars
=============================================================================
