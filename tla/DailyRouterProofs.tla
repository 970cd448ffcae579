------------------------- MODULE DailyRouterProofs -------------------------
(***************************************************************************)
(* Proofs about DailyRouter, for any bars, days, limits and profiles.      *)
(* Every phase of a bar keeps the books and the equity before costs; the   *)
(* pending count of the router knows the days it stands for; a new day     *)
(* changes no settled day, and with it no run that ended before.           *)
(***************************************************************************)
EXTENDS DailyRouter, SequenceTheorems, WellFoundedInduction, TLAPS

-----------------------------------------------------------------------------
(* Types. *)

LEMMA QuotientInt == ASSUME NEW a \in Int, NEW n \in Nat, n > 0 PROVE a \div n \in Int
  OBVIOUS

LEMMA PercentInt == ASSUME NEW x \in Int, NEW pct \in Int PROVE Percent(x, pct) \in Int
  BY DEF Percent

LEMMA ConstantTypes ==
  /\ PriorDays \in Nat /\ WarmupDays \in Nat /\ Capital \in Nat
  /\ BullAllocMin \in Nat /\ BullAllocMax \in Nat /\ RangeAlloc \in Nat /\ RangeBoost \in Nat
  /\ BearLeverage \in Nat /\ CooldownBars \in Nat
  /\ CostPct \in Nat /\ FundingPct \in Nat
  /\ MaxBars \in Nat /\ LastCloses \subseteq Nat
  /\ BullFloor \in 0..99 /\ AddOnFloor \in 0..99 /\ BearFloor \in 0..99 /\ CoreExitFloor \in Nat
  /\ MinConfirm \in Nat /\ MinConfirm > 0 /\ MinStay \in Nat /\ MinStay > 0
  BY DailyAssumption

LEMMA BarType ==
  ASSUME NEW b \in Bars
  PROVE  /\ b.close \in Nat /\ b.close > 0 /\ b.day \in DayReading
         /\ \A r \in Regimes : b.score[r] \in 0..100
         /\ \A s \in Sides : b.stop[s] \in Nat /\ b.trail[s] \in Nat
  <1>1. b \in [close : Nat \ {0}, day : DayReading, score : [Regimes -> 0..100],
               bearOk : BOOLEAN, support : BOOLEAN, edge : BOOLEAN, emaExit : BOOLEAN,
               stop : [Sides -> Nat], trail : [Sides -> Nat]]
    BY DailyAssumption DEF BarsAssumption, BarReading
  <1>. QED BY <1>1

LEMMA BookFields ==
  ASSUME NEW k \in Book
  PROVE  /\ k.pos \in Position /\ k.net \in Int /\ k.costs \in Int /\ k.wins \in Nat
         /\ k.trades \in Nat /\ k.opened \in Nat /\ k.cooldown \in 0..CooldownBars
         /\ k.entries \in [Weeks -> Nat]
         /\ k.pos.regime \in Regimes \cup {"NONE"} /\ k.pos.entry \in Nat /\ k.pos.qty \in Int
         /\ k.pos.core \in Int /\ k.pos.stop \in Nat /\ k.pos.trail \in Nat
         /\ k.pos.since \in Nat
  BY DEF Book, Position

LEMMA GainInt ==
  ASSUME NEW p \in Position, NEW at \in Nat PROVE Gain(p, at) \in Int
  <1>1. p.entry \in Nat /\ p.qty \in Int BY DEF Position
  <1>2. Sign(p.regime) \in Int BY DEF Sign
  <1>3. \A x, y \in Int : x * y \in Int OBVIOUS
  <1>4. Sign(p.regime) * (at - p.entry) \in Int BY <1>1, <1>2
  <1>5. Sign(p.regime) * (at - p.entry) * p.qty \in Int BY <1>1, <1>3, <1>4, Zenon
  <1>6. CASE p.regime = "NONE" BY <1>6 DEF Gain
  <1>7. CASE p.regime # "NONE"
    <2>1. Gain(p, at) = Sign(p.regime) * (at - p.entry) * p.qty BY <1>7, Zenon DEF Gain
    <2>. QED BY <1>5, <2>1, Zenon
  <1>. QED BY <1>6, <1>7

LEMMA CostInt ==
  ASSUME NEW p \in Position, NEW at \in Nat, time \in Nat PROVE Cost(p, at) \in Int
  <1>1. p.entry \in Nat /\ p.qty \in Int /\ p.since \in Nat BY DEF Position
  <1>2. (p.entry + at) * p.qty \in Int /\ p.entry * p.qty \in Int
        /\ FundingPct * (time - p.since) \in Int /\ CostPct \in Int
    BY <1>1, ConstantTypes
  <1>3. /\ Percent((p.entry + at) * p.qty, CostPct) \in Int
        /\ Percent(p.entry * p.qty, FundingPct * (time - p.since)) \in Int
    BY <1>2, PercentInt
  <1>. QED BY <1>3 DEF Cost

LEMMA EquityInt ==
  ASSUME NEW k \in Book, NEW at \in Nat PROVE Equity(k, at) \in Int
  <1>1. k.net \in Int /\ Gain(k.pos, at) \in Int BY BookFields, GainInt
  <1>. QED BY <1>1 DEF Equity

-----------------------------------------------------------------------------
(* What every phase of a bar keeps. *)

Sound(k) ==
  /\ k \in Book
  /\ Held(k) => k.pos.qty # 0
  /\ k.opened = k.trades + (IF Held(k) THEN 1 ELSE 0)

Through(k, r, at) ==
  /\ Sound(r)
  /\ Equity(r, at) + r.costs = Equity(k, at) + k.costs

LEMMA ThroughSelf == ASSUME NEW k, NEW at, Sound(k) PROVE Through(k, k, at)
  BY DEF Through

LEMMA ThroughTrans ==
  ASSUME NEW k, NEW q, NEW r, NEW at, Through(k, q, at), Through(q, r, at)
  PROVE  Through(k, r, at)
  BY DEF Through

\* A change that neither moves the worth of the position nor the figures.
LEMMA SameFigures ==
  ASSUME NEW k, NEW r, NEW at, Sound(k), r \in Book,
         r.net = k.net, r.costs = k.costs, r.trades = k.trades, r.opened = k.opened,
         r.pos.regime = k.pos.regime, r.pos.entry = k.pos.entry, r.pos.qty = k.pos.qty
  PROVE  Through(k, r, at)
  BY DEF Through, Sound, Held, Equity, Gain

\* closePos books the gain less the costs, once, and leaves nothing open.
LEMMA ClosedThrough ==
  ASSUME NEW k, NEW at \in Nat, Sound(k), time \in Nat
  PROVE  Through(k, Closed(k, at), at) /\ ~Held(Closed(k, at))
  <1>1. CASE ~Held(k)
    <2>1. Closed(k, at) = k BY <1>1 DEF Closed
    <2>. QED BY <1>1, <2>1, ThroughSelf
  <1>2. CASE Held(k)
    <2>. DEFINE g == Gain(k.pos, at)
                c == Cost(k.pos, at)
                n == k.net + (g - c)
                d == k.costs + c
                t == k.trades + 1
                w == IF g - c > 0 THEN k.wins + 1 ELSE k.wins
                r == [k EXCEPT !.pos = NoPosition, !.net = n, !.costs = d, !.trades = t, !.wins = w]
    <2>1. k \in Book /\ k.pos.qty # 0 /\ k.opened = k.trades + 1 BY <1>2 DEF Sound
    <2>2. g \in Int /\ c \in Int BY <2>1, BookFields, GainInt, CostInt
    <2>3. n \in Int /\ d \in Int /\ t \in Nat /\ w \in Nat
      <3>1. k.net \in Int /\ k.costs \in Int /\ k.trades \in Nat /\ k.wins \in Nat
        BY <2>1, BookFields
      <3>. HIDE DEF g, c
      <3>. QED BY <2>2, <3>1
    <2>4. NoPosition \in Position BY DEF NoPosition, Position
    <2>5. Closed(k, at) = r BY <1>2, <2>1, Zenon DEF Closed
    <2>6. n + d = (k.net + g) + k.costs
      <3>1. k.net \in Int /\ k.costs \in Int BY <2>1, BookFields
      <3>. HIDE DEF g, c
      <3>. QED BY <2>2, <3>1
    <2>7. Equity(k, at) = k.net + g BY DEF Equity
    <2>. HIDE DEF g, c, n, d, t, w
    <2>8. /\ r \in Book /\ r.pos = NoPosition /\ r.net = n /\ r.costs = d
          /\ r.trades = t /\ r.opened = k.opened
      BY <2>1, <2>3, <2>4 DEF Book
    <2>. HIDE DEF r
    <2>9. ~Held(r) /\ Gain(r.pos, at) = 0
      <3>1. r.pos.regime = "NONE" BY <2>8 DEF NoPosition
      <3>. QED BY <3>1 DEF Held, Gain
    <2>10. Sound(r)
      <3>1. r.opened = r.trades BY <2>1, <2>8 DEF t
      <3>2. r.trades \in Nat BY <2>8, BookFields
      <3>. QED BY <2>8, <2>9, <3>1, <3>2 DEF Sound
    <2>11. Equity(r, at) + r.costs = Equity(k, at) + k.costs
      <3>1. Equity(r, at) = n BY <2>3, <2>8, <2>9 DEF Equity
      <3>. QED BY <2>6, <2>7, <2>8, <3>1
    <2>. QED BY <2>5, <2>9, <2>10, <2>11 DEF Through
  <1>. QED BY <1>1, <1>2

\* An entry is worth nothing at its own price.
LEMMA OpenedThrough ==
  ASSUME NEW k, Sound(k), ~Held(k), NEW r \in Regimes, NEW b \in Bars, NEW notional \in Int,
         NEW core \in Int, NEW stop \in Nat, NEW trail \in Nat, time \in Nat
  PROVE  /\ Through(k, Opened(k, r, b, notional, core, stop, trail), b.close)
         /\ Held(Opened(k, r, b, notional, core, stop, trail)) =>
              Opened(k, r, b, notional, core, stop, trail).pos.regime = r
  <1>. DEFINE q == notional \div b.close
              o == Opened(k, r, b, notional, core, stop, trail)
  <1>1. b.close \in Nat /\ b.close > 0 BY BarType
  <1>2. q \in Int BY <1>1, QuotientInt
  <1>3. CASE q = 0
    <2>1. o = k BY <1>3 DEF Opened
    <2>. QED BY <2>1, ThroughSelf
  <1>4. CASE q # 0
    <2>. DEFINE m == IF core < q THEN core ELSE q
                p == [regime |-> r, entry |-> b.close, qty |-> q, core |-> m,
                      stop |-> stop, trail |-> trail, since |-> time]
                n == k.opened + 1
                s == [k EXCEPT !.pos = p, !.opened = n]
    <2>1. o = s BY <1>4, Zenon DEF Opened
    <2>2. m \in Int BY <1>2
    <2>. HIDE DEF q, m, o
    <2>3. p \in Position BY <1>1, <1>2, <2>2 DEF Position
    <2>4. k \in Book /\ k.opened = k.trades /\ n \in Nat
      <3>1. k \in Book /\ k.opened = k.trades + 0 BY DEF Sound
      <3>2. k.trades \in Nat /\ k.opened \in Nat BY <3>1, BookFields
      <3>. QED BY <3>1, <3>2
    <2>5. p.regime = r /\ p.entry = b.close /\ p.qty = q OBVIOUS
    <2>. HIDE DEF p
    <2>6. /\ s \in Book /\ s.pos = p /\ s.net = k.net /\ s.costs = k.costs
          /\ s.trades = k.trades /\ s.opened = n
      BY <2>3, <2>4 DEF Book
    <2>. HIDE DEF s
    <2>7. Held(s) BY <2>5, <2>6 DEF Held, Regimes
    <2>8. Gain(s.pos, b.close) = 0
      <3>1. Sign(p.regime) \in Int BY DEF Sign
      <3>2. Sign(p.regime) * (b.close - p.entry) = 0 BY <1>1, <2>5, <3>1
      <3>3. Sign(p.regime) * (b.close - p.entry) * p.qty = 0
        <4>1. \A x \in Int : 0 * x = 0 OBVIOUS
        <4>. QED BY <1>2, <2>5, <3>2, <4>1, Zenon
      <3>4. s.pos.regime # "NONE" BY <2>7 DEF Held
      <3>. QED BY <2>6, <3>3, <3>4, Zenon DEF Gain
    <2>9. Gain(k.pos, b.close) = 0 BY DEF Held, Gain
    <2>10. Through(k, s, b.close)
      BY <1>4, <2>4, <2>5, <2>6, <2>7, <2>8, <2>9 DEF Through, Sound, Equity
    <2>. QED BY <2>1, <2>5, <2>6, <2>10 DEF o
  <1>. QED BY <1>3, <1>4

-----------------------------------------------------------------------------
(* The phases of a bar. *)

\* A position that the regime lets stand.
Allowed(p, r) == \/ p.regime = r
                 \/ profile = "v13" /\ p.regime = "BULL" /\ r = "RANGE"

LEMMA WaitedThrough ==
  ASSUME NEW k, NEW at, Sound(k)
  PROVE  Through(k, Waited(k), at)
  <1>. DEFINE c == IF k.cooldown > 0 THEN k.cooldown - 1 ELSE k.cooldown
              r == [k EXCEPT !.cooldown = c]
  <1>1. k \in Book BY DEF Sound
  <1>2. c \in 0..CooldownBars BY <1>1, BookFields, ConstantTypes
  <1>3. Waited(k) = r BY Zenon DEF Waited
  <1>. HIDE DEF c
  <1>4. /\ r \in Book /\ r.pos = k.pos /\ r.net = k.net /\ r.costs = k.costs
        /\ r.trades = k.trades /\ r.opened = k.opened
    BY <1>1, <1>2 DEF Book
  <1>. HIDE DEF r
  <1>. QED BY <1>3, <1>4, SameFigures

LEMMA TrailedKeeps ==
  ASSUME NEW p \in Position, NEW b \in Bars
  PROVE  /\ Trailed(p, b) \in Position
         /\ Trailed(p, b).regime = p.regime /\ Trailed(p, b).entry = p.entry
         /\ Trailed(p, b).qty = p.qty
  <1>1. ASSUME NEW v \in Nat
        PROVE  LET q == [p EXCEPT !.trail = v]
               IN  q \in Position /\ q.regime = p.regime /\ q.entry = p.entry /\ q.qty = p.qty
    BY DEF Position
  <1>2. p.trail \in Nat /\ b.trail["long"] \in Nat /\ b.trail["short"] \in Nat
    BY BarType DEF Position, Sides
  <1>3. CASE p.regime = "BULL"
    <2>. DEFINE v == IF b.trail["long"] > p.trail THEN b.trail["long"] ELSE p.trail
    <2>1. v \in Nat BY <1>2
    <2>2. Trailed(p, b) = [p EXCEPT !.trail = v] BY <1>3 DEF Trailed
    <2>. HIDE DEF v
    <2>. QED BY <1>1, <2>1, <2>2
  <1>4. CASE p.regime = "BEAR"
    <2>. DEFINE v == IF p.trail = 0 \/ b.trail["short"] < p.trail THEN b.trail["short"] ELSE p.trail
    <2>1. v \in Nat BY <1>2
    <2>2. Trailed(p, b) = [p EXCEPT !.trail = v] BY <1>4 DEF Trailed
    <2>. HIDE DEF v
    <2>. QED BY <1>1, <2>1, <2>2
  <1>5. CASE p.regime # "BULL" /\ p.regime # "BEAR"
    <2>1. Trailed(p, b) = p BY <1>5, Zenon DEF Trailed
    <2>. QED BY <2>1
  <1>. QED BY <1>3, <1>4, <1>5

\* What is still held after the exits is allowed under the regime of the bar.
LEMMA ExitedThrough ==
  ASSUME NEW k, NEW r \in Regimes, NEW b \in Bars, Sound(k), time \in Nat,
         profile \in {"v11", "v13"}
  PROVE  /\ Through(k, Exited(k, r, b), b.close)
         /\ Held(Exited(k, r, b)) => Allowed(Exited(k, r, b).pos, r)
  <1>1. CASE ~Held(k)
    <2>1. Exited(k, r, b) = k BY <1>1 DEF Exited
    <2>. QED BY <1>1, <2>1, ThroughSelf
  <1>2. CASE Held(k)
    <2>. DEFINE p == Trailed(k.pos, b)
                t == [k EXCEPT !.pos = p]
    <2>1. k \in Book /\ k.pos \in Position BY BookFields DEF Sound
    <2>2. /\ p \in Position /\ p.regime = k.pos.regime /\ p.entry = k.pos.entry
          /\ p.qty = k.pos.qty
      BY <2>1, TrailedKeeps
    <2>3. Exited(k, r, b) = IF MustExit(p, r, b) THEN Closed(t, b.close) ELSE t
      BY <1>2, Zenon DEF Exited
    <2>. HIDE DEF p
    <2>4. /\ t \in Book /\ t.pos = p /\ t.net = k.net /\ t.costs = k.costs
          /\ t.trades = k.trades /\ t.opened = k.opened
      BY <2>1, <2>2 DEF Book
    <2>. HIDE DEF t
    <2>5. Through(k, t, b.close) BY <2>2, <2>4, SameFigures
    <2>6. CASE MustExit(p, r, b)
      <3>1. Through(t, Closed(t, b.close), b.close) /\ ~Held(Closed(t, b.close))
        BY <2>5, BarType, ClosedThrough DEF Through
      <3>. QED BY <2>3, <2>5, <2>6, <3>1, ThroughTrans
    <2>7. CASE ~MustExit(p, r, b)
      <3>1. p.regime \in Regimes BY <1>2, <2>1, <2>2, BookFields DEF Held
      <3>2. Allowed(p, r) BY <2>7, <3>1 DEF MustExit, Allowed, Regimes
      <3>. QED BY <2>3, <2>4, <2>5, <2>7, <3>2
    <2>. QED BY <2>6, <2>7
  <1>. QED BY <1>1, <1>2

LEMMA ShareInt ==
  ASSUME NEW score \in 0..100, NEW floor \in 0..99
  PROVE  Share(score, floor) \in Int
  <1>. DEFINE a == (BullAllocMax - BullAllocMin) * (score - floor)
  <1>1. a \in Int
    <2>1. \A x, y \in Int : x * y \in Int OBVIOUS
    <2>2. BullAllocMax - BullAllocMin \in Int /\ score - floor \in Int BY ConstantTypes
    <2>. QED BY <2>1, <2>2, Zenon
  <1>2. 100 - floor \in Nat /\ 100 - floor > 0 OBVIOUS
  <1>3. Share(score, floor) = BullAllocMin + a \div (100 - floor) BY DEF Share
  <1>. HIDE DEF a
  <1>4. a \div (100 - floor) \in Int BY <1>1, <1>2, QuotientInt
  <1>. QED BY <1>3, <1>4, ConstantTypes

LEMMA OfferedThrough ==
  ASSUME NEW k, Sound(k), ~Held(k), NEW r \in Regimes, NEW b \in Bars, time \in Nat
  PROVE  /\ Through(k, Offered(k, r, b), b.close)
         /\ Held(Offered(k, r, b)) => Offered(k, r, b).pos.regime = r
  <1>1. b.close \in Nat /\ b.close > 0 /\ b.score["BULL"] \in 0..100 BY BarType DEF Regimes
  <1>2. \A s \in Sides : b.stop[s] \in Nat /\ b.trail[s] \in Nat BY BarType
  <1>3. "long" \in Sides /\ "short" \in Sides BY DEF Sides
  <1>4. CASE r = "BULL" /\ b.score["BULL"] >= BullFloor
    <2>. DEFINE a == BullAlloc(b.score["BULL"])
                n == Percent(Capital, a)
                c == IF profile = "v13" THEN Percent(Capital, BullAllocMin) \div b.close ELSE 0
    <2>1. a \in Int
      <3>1. Share(b.score["BULL"], BullFloor) \in Int BY <1>1, ShareInt, ConstantTypes
      <3>2. Share(b.score["BULL"], AddOnFloor) \in Int BY <1>1, ShareInt, ConstantTypes
      <3>3. BullAllocMin \in Int BY ConstantTypes
      <3>. QED BY <3>1, <3>2, <3>3, Zenon DEF BullAlloc
    <2>2. n \in Int BY <2>1, PercentInt, ConstantTypes
    <2>3. c \in Int
      <3>1. Percent(Capital, BullAllocMin) \in Int BY PercentInt, ConstantTypes
      <3>. QED BY <1>1, <3>1, QuotientInt
    <2>4. Offered(k, r, b) = Opened(k, r, b, n, c, b.stop["long"], b.trail["long"])
      BY <1>4, Zenon DEF Offered
    <2>. HIDE DEF n, c
    <2>. QED BY <1>2, <1>3, <2>2, <2>3, <2>4, OpenedThrough
  <1>5. CASE r = "RANGE" /\ b.edge /\ RangeShare(b) \in 1..45
    <2>. DEFINE n == Percent(Capital, RangeShare(b))
    <2>1. n \in Int
      <3>1. RangeShare(b) \in Int /\ Capital \in Int BY <1>5, ConstantTypes
      <3>. QED BY <3>1, PercentInt
    <2>2. Offered(k, r, b) = Opened(k, r, b, n, 0, b.stop["long"], b.stop["long"])
      BY <1>5, Zenon DEF Offered
    <2>. HIDE DEF n
    <2>. QED BY <1>2, <1>3, <2>1, <2>2, OpenedThrough
  <1>6. CASE r = "BEAR" /\ b.bearOk /\ b.score["BEAR"] >= BearFloor
    <2>. DEFINE a == BearAlloc(b.score["BEAR"])
                n == BearLeverage * Percent(Capital, a)
    <2>1. n \in Int
      <3>1. b.score["BEAR"] \in Int BY BarType DEF Regimes
      <3>2. a \in Int BY <3>1, ConstantTypes DEF BearAlloc
      <3>. HIDE DEF a
      <3>3. Percent(Capital, a) \in Int BY <3>2, PercentInt, ConstantTypes
      <3>. QED BY <3>3, ConstantTypes
    <2>2. Offered(k, r, b) = Opened(k, r, b, n, 0, b.stop["short"], b.trail["short"])
      BY <1>6, Zenon DEF Offered
    <2>. HIDE DEF n
    <2>. QED BY <1>2, <1>3, <2>1, <2>2, OpenedThrough
  <1>7. CASE /\ ~(r = "BULL" /\ b.score["BULL"] >= BullFloor)
             /\ ~(r = "RANGE" /\ b.edge /\ RangeShare(b) \in 1..45)
             /\ ~(r = "BEAR" /\ b.bearOk /\ b.score["BEAR"] >= BearFloor)
    <2>1. Offered(k, r, b) = k BY <1>7, Zenon DEF Offered
    <2>. QED BY <2>1, ThroughSelf
  <1>. QED BY <1>4, <1>5, <1>6, <1>7

LEMMA ChargedThrough ==
  ASSUME NEW k, NEW was, NEW at, Sound(k)
  PROVE  Through(k, Charged(k, was), at) /\ Charged(k, was).pos = k.pos
  <1>1. CASE k.opened = was
    <2>1. Charged(k, was) = k BY <1>1 DEF Charged
    <2>. QED BY <2>1, ThroughSelf
  <1>2. CASE k.opened # was
    <2>. DEFINE e == OneMore(k.entries, WeekOf(DayAt(time)))
                r == [k EXCEPT !.cooldown = CooldownBars, !.entries = e]
    <2>1. k \in Book BY DEF Sound
    <2>2. e \in [Weeks -> Nat]
      <3>1. \A f \in [Weeks -> Nat] : \A w : [f EXCEPT ![w] = f[w] + 1] \in [Weeks -> Nat]
        <4>1. TAKE f \in [Weeks -> Nat]
        <4>2. TAKE w
        <4>3. CASE w \in Weeks
          <5>1. f[w] + 1 \in Nat BY <4>3
          <5>. QED BY <5>1
        <4>4. CASE w \notin Weeks BY <4>4
        <4>. QED BY <4>3, <4>4
      <3>2. k.entries \in [Weeks -> Nat] BY <2>1, BookFields
      <3>. QED BY <3>1, <3>2, Zenon DEF OneMore
    <2>3. Charged(k, was) = r BY <1>2, Zenon DEF Charged
    <2>. HIDE DEF e
    <2>4. CooldownBars \in 0..CooldownBars BY ConstantTypes
    <2>5. /\ r \in Book /\ r.pos = k.pos /\ r.net = k.net /\ r.costs = k.costs
          /\ r.trades = k.trades /\ r.opened = k.opened
      BY <2>1, <2>2, <2>4 DEF Book
    <2>. HIDE DEF r
    <2>. QED BY <2>3, <2>5, SameFigures
  <1>. QED BY <1>1, <1>2

LEMMA EnteredThrough ==
  ASSUME NEW k, NEW r \in Regimes, NEW b \in Bars, Sound(k), time \in Nat,
         Held(k) => Allowed(k.pos, r)
  PROVE  /\ Through(k, Entered(k, r, b), b.close)
         /\ Held(Entered(k, r, b)) => Allowed(Entered(k, r, b).pos, r)
  <1>1. CASE Entered(k, r, b) = k BY <1>1, ThroughSelf
  <1>2. CASE Entered(k, r, b) # k
    <2>. DEFINE o == Offered(k, r, b)
                c == Charged(o, k.opened)
    <2>1. ~Held(k) /\ Entered(k, r, b) = c BY <1>2 DEF Entered
    <2>2. Through(k, o, b.close) /\ (Held(o) => o.pos.regime = r) BY <2>1, OfferedThrough
    <2>. HIDE DEF o
    <2>3. Through(o, c, b.close) /\ c.pos = o.pos BY <2>2, ChargedThrough DEF Through
    <2>. HIDE DEF c
    <2>. QED BY <2>1, <2>2, <2>3, ThroughTrans DEF Held, Allowed
  <1>. QED BY <1>1, <1>2

LEMMA AlwaysThrough ==
  ASSUME NEW k, NEW r \in Regimes, NEW b \in Bars, Sound(k), time \in Nat
  PROVE  /\ Through(k, Always(k, r, b), b.close)
         /\ Held(Always(k, r, b)) => Allowed(Always(k, r, b).pos, r)
  <1>. DEFINE c == IF k.pos.regime # "NONE" /\ k.pos.regime # r THEN Closed(k, b.close) ELSE k
              lever == IF r = "BEAR" THEN 2 ELSE 1
              n == Percent(Capital, 70 * lever)
  <1>1. b.close \in Nat BY BarType
  <1>2. Through(k, c, b.close) /\ (Held(c) => c.pos.regime = r)
    BY <1>1, ClosedThrough, ThroughSelf DEF Held
  <1>3. n \in Int
    <2>1. 70 * lever \in Int OBVIOUS
    <2>. HIDE DEF lever
    <2>. QED BY <2>1, PercentInt, ConstantTypes
  <1>4. Always(k, r, b) = IF r = "RANGE" \/ Held(c) THEN c ELSE Opened(c, r, b, n, 0, 0, 0)
    BY Zenon DEF Always
  <1>. HIDE DEF c, n
  <1>5. CASE r = "RANGE" \/ Held(c) BY <1>2, <1>4, <1>5 DEF Allowed
  <1>6. CASE ~(r = "RANGE" \/ Held(c))
    <2>1. /\ Through(c, Opened(c, r, b, n, 0, 0, 0), b.close)
          /\ Held(Opened(c, r, b, n, 0, 0, 0)) => Opened(c, r, b, n, 0, 0, 0).pos.regime = r
      BY <1>2, <1>3, <1>6, OpenedThrough DEF Through
    <2>. QED BY <1>2, <1>4, <1>6, <2>1, ThroughTrans DEF Allowed
  <1>. QED BY <1>5, <1>6

LEMMA BookAfterThrough ==
  ASSUME NEW r \in Regimes, NEW b \in Bars, Sound(book), time \in Nat, profile \in Profiles
  PROVE  /\ Through(book, BookAfter(r, b), b.close)
         /\ Held(BookAfter(r, b)) => Allowed(BookAfter(r, b).pos, r)
  <1>1. CASE profile = "v10" BY <1>1, AlwaysThrough DEF BookAfter
  <1>2. CASE profile # "v10"
    <2>. DEFINE w == Waited(book)
                x == Exited(w, r, b)
                e == Entered(x, r, b)
    <2>1. profile \in {"v11", "v13"} BY <1>2, DailyAssumption
    <2>2. Through(book, w, b.close) BY WaitedThrough
    <2>. HIDE DEF w
    <2>3. Through(w, x, b.close) /\ (Held(x) => Allowed(x.pos, r))
      BY <2>1, <2>2, ExitedThrough DEF Through
    <2>. HIDE DEF x
    <2>4. Through(x, e, b.close) /\ (Held(e) => Allowed(e.pos, r))
      BY <2>3, EnteredThrough DEF Through
    <2>5. BookAfter(r, b) = e BY <1>2, Zenon DEF BookAfter, w, x
    <2>. HIDE DEF e
    <2>. QED BY <2>2, <2>3, <2>4, <2>5, ThroughTrans
  <1>. QED BY <1>1, <1>2

-----------------------------------------------------------------------------
(* The router. *)

\* The days up to n days ago.
Upto(d, n) == SubSeq(d, 1, Len(d) - n)

\* The pending count stands for the newest days, one each.
PendingShown ==
  profile # "v10" =>
    /\ router.count > 0 => seen = Len(days) /\ seen >= WarmupDays
    /\ \A n \in 0..(router.count - 1) : Detected(Upto(days, n)) = router.pending

LEMMA DetectedType == \A d : Detected(d) \in Regimes
  BY DEF Detected, Regimes

LEMMA OlderKeeps ==
  ASSUME NEW r \in Router
  PROVE  /\ Older(r) \in Router /\ Older(r).regime = r.regime
         /\ Older(r).pending = r.pending /\ Older(r).count = r.count
  <1>. DEFINE v == IF r.since < MinStay THEN r.since + 1 ELSE r.since
              q == [r EXCEPT !.since = v]
  <1>1. v \in 0..MinStay BY ConstantTypes DEF Router
  <1>2. Older(r) = q BY Zenon DEF Older
  <1>. HIDE DEF v
  <1>3. q \in Router /\ q.regime = r.regime /\ q.pending = r.pending /\ q.count = r.count
    BY <1>1 DEF Router
  <1>. QED BY <1>2, <1>3

\* What the pending count becomes.
Next1(c) == IF c = router.pending THEN router.count + 1 ELSE 1

LEMMA RoutedCases ==
  ASSUME NEW c \in Regimes, NEW b \in Bars, router \in Router
  PROVE  /\ Routed(c, b) \in Router
         /\ profile # "v10" =>
              \/ Routed(c, b).regime = router.regime /\ Routed(c, b).count = 0
              \/ /\ Routed(c, b).regime = router.regime
                 /\ Routed(c, b).pending = c /\ Routed(c, b).count = Next1(c)
              \/ /\ Routed(c, b).regime = c /\ Routed(c, b).count = 0
                 /\ Next1(c) >= MinConfirm
  <1>. DEFINE out == Routed(c, b)
              reset == [router EXCEPT !.pending = c, !.count = 0]
  <1>1. /\ router.regime \in Regimes /\ router.pending \in Regimes
        /\ router.count \in Nat /\ router.since \in 0..MinStay
    BY DEF Router
  <1>2. reset \in Router /\ reset.regime = router.regime /\ reset.count = 0 BY DEF Router
  <1>3. CASE profile = "v10"
    <2>1. out = [router EXCEPT !.regime = c] BY <1>3 DEF Routed
    <2>2. [router EXCEPT !.regime = c] \in Router BY DEF Router
    <2>. QED BY <1>3, <2>1, <2>2
  <1>. HIDE DEF reset
  <1>4. CASE profile # "v10" /\ out = Older(reset) BY <1>2, <1>4, OlderKeeps
  <1>5. CASE profile # "v10" /\ out # Older(reset)
    <2>. DEFINE n == Next1(c)
                q == Counted(c)
    <2>1. c # router.regime /\ out = IF q.regime = c THEN q ELSE Older(q)
      BY <1>5, Zenon DEF Routed, reset
    <2>2. n \in Nat BY <1>1 DEF Next1
    <2>3. CASE n >= MinConfirm
      <3>1. q = [regime |-> c, pending |-> c, count |-> 0, since |-> 0]
        BY <2>3 DEF Counted, Next1
      <3>2. q \in Router /\ q.regime = c /\ q.count = 0 BY <3>1, ConstantTypes DEF Router
      <3>. QED BY <1>5, <2>1, <2>3, <3>2
    <2>4. CASE ~(n >= MinConfirm)
      <3>1. q = [router EXCEPT !.pending = c, !.count = n]
        BY <2>4, Zenon DEF Counted, Next1
      <3>. HIDE DEF n
      <3>2. q \in Router /\ q.regime = router.regime /\ q.pending = c /\ q.count = n
        BY <2>2, <3>1 DEF Router
      <3>. HIDE DEF q
      <3>3. out = Older(q) BY <2>1, <3>2
      <3>. QED BY <1>5, <3>2, <3>3, OlderKeeps DEF n
    <2>. QED BY <2>3, <2>4
  <1>. QED BY <1>3, <1>4, <1>5

LEMMA UptoAppend ==
  ASSUME NEW d \in Seq(DayReading), NEW e \in DayReading, NEW n \in Nat
  PROVE  /\ Upto(Append(d, e), n + 1) = Upto(d, n)
         /\ Upto(d, 0) = d
  <1>1. Len(d) \in Nat /\ Len(Append(d, e)) = Len(d) + 1 /\ Append(d, e) = d \o <<e>>
        /\ Append(d, e) \in Seq(DayReading) /\ <<e>> \in Seq(DayReading)
    OBVIOUS
  <1>2. Upto(Append(d, e), n + 1) = SubSeq(Append(d, e), 1, Len(d) - n)
    <2>1. Len(Append(d, e)) - (n + 1) = Len(d) - n BY <1>1
    <2>. QED BY <2>1, Zenon DEF Upto
  <1>3. CASE Len(d) - n < 1
    <2>1. Len(d) - n \in Int BY <1>1
    <2>2. SubSeq(Append(d, e), 1, Len(d) - n) = <<>> BY <1>3, <2>1, SubSeqEmpty
    <2>3. SubSeq(d, 1, Len(d) - n) = <<>> BY <1>3, <2>1, SubSeqEmpty
    <2>4. Upto(d, n) = SubSeq(d, 1, Len(d) - n) BY Zenon DEF Upto
    <2>5. Upto(d, 0) = d
      <3>1. Len(d) - 0 = Len(d) BY <1>1
      <3>2. SubSeq(d, 1, Len(d)) = d BY SubSeqFull
      <3>. QED BY <3>1, <3>2, Zenon DEF Upto
    <2>. QED BY <1>2, <2>2, <2>3, <2>4, <2>5
  <1>4. CASE ~(Len(d) - n < 1)
    <2>1. 1 \in 1..Len(d) /\ Len(d) - n \in 1..Len(d) BY <1>1, <1>4
    <2>2. SubSeq(d \o <<e>>, 1, Len(d) - n) = SubSeq(d, 1, Len(d) - n)
      BY <1>1, <2>1, SubSeqOfConcat1
    <2>3. Upto(d, 0) = d
      <3>1. Len(d) - 0 = Len(d) BY <1>1
      <3>2. SubSeq(d, 1, Len(d)) = d BY SubSeqFull
      <3>. QED BY <3>1, <3>2, Zenon DEF Upto
    <2>4. Upto(d, n) = SubSeq(d, 1, Len(d) - n) BY Zenon DEF Upto
    <2>. QED BY <1>1, <1>2, <2>2, <2>3, <2>4
  <1>. QED BY <1>3, <1>4

-----------------------------------------------------------------------------
(* The invariant. *)

IInv ==
  /\ TypeOK
  /\ Sound(book)
  /\ RegimeOwnsPosition
  /\ done => ~Held(book)
  /\ PendingShown

LEMMA InitHolds == Init => IInv
  <1>. SUFFICES ASSUME Init PROVE IInv OBVIOUS
  <1>. USE DEF Init
  <1>1. days \in Seq(DayReading)
    <2>1. days \in [1..PriorDays -> DayReading] BY DailyAssumption
    <2>. QED BY <2>1, ConstantTypes
  <1>2. router \in Router BY ConstantTypes DEF Router, Regimes
  <1>3. NoPosition \in Position BY DEF NoPosition, Position
  <1>4. book \in Book BY <1>3, ConstantTypes DEF Book
  <1>5. ~Held(book) /\ book.opened = 0 /\ book.trades = 0 BY DEF Held, NoPosition
  <1>6. Sound(book) BY <1>4, <1>5 DEF Sound
  <1>7. TypeOK
    <2>1. profile \in Profiles /\ seen \in Nat /\ price \in Nat /\ peak \in Nat /\ maxDD \in Nat
          /\ done \in BOOLEAN
      OBVIOUS
    <2>2. time \in 0..MaxBars BY ConstantTypes
    <2>. QED BY <1>1, <1>2, <1>4, <2>1, <2>2, Zenon DEF TypeOK
  <1>8. PendingShown BY DEF PendingShown
  <1>. QED BY <1>5, <1>6, <1>7, <1>8 DEF IInv, RegimeOwnsPosition

LEMMA DaysOf ==
  ASSUME TypeOK, NEW b \in Bars, days' = DaysWith(b)
  PROVE  /\ days' \in Seq(DayReading)
         /\ days' = days \/ days' = Append(days, b.day)
  BY BarType DEF TypeOK, DaysWith

\* A day that is routed is the newest of those the count stands for.
LEMMA ShownStays ==
  ASSUME TypeOK, PendingShown, NEW b \in Bars, days' = DaysWith(b), profile' = profile,
         Len(days') # seen, ~Warming, router' = Routed(Detected(days'), b), seen' = Len(days')
  PROVE  /\ PendingShown'
         /\ profile # "v10" /\ router'.regime # router.regime =>
              \A n \in 0..(MinConfirm - 1) : Detected(Upto(days', n)) = router'.regime
  <1>. DEFINE c == Detected(days')
              n1 == Next1(c)
  <1>1. c \in Regimes BY DetectedType
  <1>2. router \in Router BY DEF TypeOK
  <1>3. router.count \in Nat BY <1>2 DEF Router
  <1>4. days' \in Seq(DayReading) /\ days \in Seq(DayReading) BY DaysOf DEF TypeOK
  <1>5. Upto(days', 0) = days'
    <2>1. b.day \in DayReading BY BarType
    <2>. QED BY <1>4, <2>1, UptoAppend
  <1>6. ASSUME profile # "v10"
        PROVE  \A n \in 0..(n1 - 1) : Detected(Upto(days', n)) = c
    <2>. TAKE n \in 0..(n1 - 1)
    <2>1. CASE n = 0 BY <1>5, <2>1
    <2>2. CASE n # 0
      <3>1. c = router.pending /\ n1 = router.count + 1 /\ n - 1 \in 0..(router.count - 1)
        BY <1>3, <2>2 DEF Next1
      <3>2. router.count > 0 BY <1>3, <3>1
      <3>3. seen = Len(days) BY <1>6, <3>2 DEF PendingShown
      <3>4. days' = Append(days, b.day)
        <4>1. days' # days BY <3>3
        <4>. QED BY <4>1, DaysOf
      <3>5. n - 1 \in Nat /\ (n - 1) + 1 = n BY <3>1
      <3>6. Upto(days', n) = Upto(days, n - 1)
        <4>1. b.day \in DayReading BY BarType
        <4>2. Upto(Append(days, b.day), (n - 1) + 1) = Upto(days, n - 1)
          BY <1>4, <3>5, <4>1, UptoAppend
        <4>. QED BY <3>4, <3>5, <4>2
      <3>. QED BY <1>6, <3>1, <3>6 DEF PendingShown
    <2>. QED BY <2>1, <2>2
  <1>7. n1 \in Nat BY <1>3 DEF Next1
  <1>. HIDE DEF c, n1
  <1>8. router' = Routed(c, b) BY DEF c
  <1>9. ASSUME profile # "v10"
        PROVE  \/ router'.regime = router.regime /\ router'.count = 0
               \/ /\ router'.regime = router.regime
                  /\ router'.pending = c /\ router'.count = n1
               \/ /\ router'.regime = c /\ router'.count = 0
                  /\ n1 >= MinConfirm
    BY <1>1, <1>2, <1>8, <1>9, RoutedCases DEF n1
  <1>10. PendingShown'
    <2>1. SUFFICES ASSUME profile # "v10"
                   PROVE  \A n \in 0..(router'.count - 1) : Detected(Upto(days', n)) = router'.pending
      <3>1. Len(days') \in Nat /\ WarmupDays \in Nat BY <1>4, ConstantTypes
      <3>2. profile # "v10" => Len(days') >= WarmupDays BY <3>1 DEF Warming
      <3>. QED BY <3>2 DEF PendingShown
    <2>2. CASE router'.count = 0 BY <2>2
    <2>3. CASE router'.pending = c /\ router'.count = n1 BY <1>6, <2>1, <2>3
    <2>. QED BY <1>9, <2>1, <2>2, <2>3
  <1>11. ASSUME profile # "v10", router'.regime # router.regime
         PROVE  \A n \in 0..(MinConfirm - 1) : Detected(Upto(days', n)) = router'.regime
    <2>1. router'.regime = c /\ n1 >= MinConfirm BY <1>9, <1>11
    <2>. TAKE n \in 0..(MinConfirm - 1)
    <2>2. n \in 0..(n1 - 1) BY <1>7, <2>1, ConstantTypes
    <2>. QED BY <1>6, <1>11, <2>1, <2>2
  <1>. QED BY <1>10, <1>11

LEMMA BarHolds ==
  ASSUME IInv, NEW b \in Bars, Bar(b)
  PROVE  /\ IInv'
         /\ Equity(book', b.close) + book'.costs = Equity(book, b.close) + book.costs
  <1>. USE DEF IInv
  <1>1. /\ time \in Nat /\ time + 1 \in 0..MaxBars /\ time' = time + 1 /\ price' = b.close
        /\ done = FALSE /\ done' = FALSE /\ profile' = profile
    BY ConstantTypes DEF Bar, TypeOK
  <1>2. b.close \in Nat BY BarType
  <1>3. days' \in Seq(DayReading) BY DaysOf DEF Bar
  <1>4. router \in Router BY DEF TypeOK
  <1>5. profile \in Profiles BY DEF TypeOK
  <1>6. CASE Warming
    <2>1. UNCHANGED <<seen, router, book, peak, maxDD>> BY <1>6 DEF Bar
    <2>2. TypeOK' BY <1>1, <1>2, <1>3, <2>1 DEF TypeOK
    <2>3. Sound(book)' BY <2>1
    <2>4. RegimeOwnsPosition' BY <1>1, <2>1 DEF RegimeOwnsPosition
    <2>5. PendingShown'
      <3>1. Len(days) \in Nat /\ Len(days') \in Nat /\ Len(days) <= Len(days')
        BY <1>3, DaysOf DEF Bar, TypeOK
      <3>2. profile # "v10" /\ Len(days') < WarmupDays BY <1>6 DEF Warming
      <3>3. ~(router.count > 0) BY <3>1, <3>2, ConstantTypes DEF PendingShown
      <3>4. router.count = 0 BY <1>4, <3>3 DEF Router
      <3>. QED BY <2>1, <3>4 DEF PendingShown
    <2>. QED BY <1>1, <2>1, <2>2, <2>3, <2>4, <2>5
  <1>7. CASE ~Warming
    <2>. DEFINE r == router'.regime
    <2>1. /\ router' = IF Len(days') # seen THEN Routed(Detected(days'), b) ELSE router
          /\ seen' = Len(days') /\ book' = BookAfter(r, b) /\ Marked(b)
      BY <1>7 DEF Bar
    <2>2. router' \in Router BY <1>4, <2>1, DetectedType, RoutedCases
    <2>3. r \in Regimes BY <2>2 DEF Router
    <2>4. Through(book, BookAfter(r, b), b.close) /\ (Held(BookAfter(r, b)) => Allowed(BookAfter(r, b).pos, r))
      BY <1>1, <1>5, <2>3, BookAfterThrough
    <2>5. /\ Sound(book)'
          /\ Equity(book', b.close) + book'.costs = Equity(book, b.close) + book.costs
      BY <2>1, <2>4, Zenon DEF Through
    <2>6. RegimeOwnsPosition' BY <1>1, <2>1, <2>4 DEF RegimeOwnsPosition, Allowed
    <2>7. peak' \in Nat /\ maxDD' \in Nat
      <3>. DEFINE e == Equity(book', b.close)
      <3>1. e \in Int BY <1>2, <2>5, EquityInt DEF Sound
      <3>2. /\ peak' = IF e > peak THEN e ELSE peak
            /\ maxDD' = IF peak' - e > maxDD THEN peak' - e ELSE maxDD
        BY <2>1, Zenon DEF Marked
      <3>3. peak \in Nat /\ maxDD \in Nat BY DEF TypeOK
      <3>. HIDE DEF e
      <3>. QED BY <3>1, <3>2, <3>3
    <2>8. PendingShown'
      <3>1. CASE Len(days') # seen BY <1>1, <1>7, <2>1, <3>1, ShownStays DEF Bar
      <3>2. CASE Len(days') = seen
        <4>1. router' = router /\ seen' = seen BY <2>1, <3>2
        <4>2. CASE days' = days BY <1>1, <4>1, <4>2 DEF PendingShown
        <4>3. CASE days' # days
          <5>1. Len(days') # Len(days)
            <6>1. days' = Append(days, b.day) BY <4>3, DaysOf DEF Bar
            <6>2. days \in Seq(DayReading) BY DEF TypeOK
            <6>. QED BY <6>1, <6>2
          <5>2. profile # "v10" => ~(router.count > 0) BY <3>2, <5>1 DEF PendingShown
          <5>3. profile # "v10" => router.count = 0 BY <1>4, <5>2 DEF Router
          <5>. QED BY <1>1, <4>1, <5>3 DEF PendingShown
        <4>. QED BY <4>2, <4>3
      <3>. QED BY <3>1, <3>2
    <2>9. TypeOK'
      <3>1. book' \in Book BY <2>5 DEF Sound
      <3>2. seen' \in Nat BY <1>3, <2>1
      <3>. QED BY <1>1, <1>2, <1>3, <1>5, <2>2, <2>7, <3>1, <3>2 DEF TypeOK
    <2>. QED BY <1>1, <2>5, <2>6, <2>8, <2>9
  <1>. QED BY <1>6, <1>7

LEMMA FinishHolds ==
  ASSUME IInv, NEW at \in LastCloses, Finish(at)
  PROVE  /\ IInv'
         /\ Equity(book', at) + book'.costs = Equity(book, at) + book.costs
  <1>. USE DEF IInv
  <1>1. at \in Nat /\ time \in Nat BY ConstantTypes DEF TypeOK
  <1>2. Through(book, Closed(book, at), at) /\ ~Held(Closed(book, at)) BY <1>1, ClosedThrough
  <1>3. /\ book' = Closed(book, at) /\ price' = at /\ done' = TRUE
        /\ UNCHANGED <<profile, days, seen, router, time, peak, maxDD>>
    BY DEF Finish
  <1>4. /\ Sound(book)' /\ ~Held(book)'
        /\ Equity(book', at) + book'.costs = Equity(book, at) + book.costs
    BY <1>2, <1>3, Zenon DEF Through
  <1>5. TypeOK'
    <2>1. book' \in Book BY <1>4 DEF Sound
    <2>. QED BY <1>1, <1>3, <2>1 DEF TypeOK
  <1>6. PendingShown' BY <1>3 DEF PendingShown
  <1>7. RegimeOwnsPosition' BY <1>4 DEF RegimeOwnsPosition
  <1>. QED BY <1>3, <1>4, <1>5, <1>6, <1>7

LEMMA NextHolds == IInv /\ [Next]_vars => IInv'
  <1>1. ASSUME IInv, NEW b \in Bars, Bar(b) PROVE IInv' BY <1>1, BarHolds
  <1>2. ASSUME IInv, NEW at \in LastCloses, Finish(at) PROVE IInv' BY <1>2, FinishHolds
  <1>3. ASSUME IInv, UNCHANGED vars PROVE IInv'
    BY <1>3 DEF vars, IInv, TypeOK, Sound, Held, RegimeOwnsPosition, PendingShown
  <1>. QED BY <1>1, <1>2, <1>3 DEF Next

LEMMA Holds == Spec => []IInv
  BY InitHolds, NextHolds, PTL DEF Spec

\* Type correctness, for any bars, days, limits and profiles.
THEOREM TypeCorrect == Spec => []TypeOK
  <1>1. IInv => TypeOK BY DEF IInv
  <1>. QED BY <1>1, Holds, PTL

\* closePos and its callers count every position that was opened exactly once.
THEOREM TradesCounted == Spec => []EveryTradeCounted
  <1>1. IInv => EveryTradeCounted BY DEF IInv, Sound, EveryTradeCounted
  <1>. QED BY <1>1, Holds, PTL

\* No position outlives the bar in which its regime ended, but for a bull of v13, which
\* may stand through a range.
THEOREM RegimeOwned == Spec => []RegimeOwnsPosition
  <1>1. IInv => RegimeOwnsPosition BY DEF IInv
  <1>. QED BY <1>1, Holds, PTL

\* Every bar and the final close move the equity by the price and the costs alone.
THEOREM CashKept == Spec => CashConserved
  <1>1. ASSUME IInv, [Next]_vars
        PROVE  price' # price \/ book' # book =>
                 Equity(book', price') - Equity(book, price') = -(book'.costs - book.costs)
    <2>1. SUFFICES ASSUME price' # price \/ book' # book
                   PROVE  Equity(book', price') - Equity(book, price')
                            = -(book'.costs - book.costs)
      OBVIOUS
    <2>2. /\ price' \in Nat /\ book \in Book /\ book' \in Book
      <3>1. IInv' BY <1>1, NextHolds
      <3>. QED BY <1>1, <3>1 DEF IInv, TypeOK
    <2>3. /\ Equity(book', price') \in Int /\ Equity(book, price') \in Int
          /\ book.costs \in Int /\ book'.costs \in Int
      BY <2>2, EquityInt, BookFields
    <2>4. Equity(book', price') + book'.costs = Equity(book, price') + book.costs
      <3>1. ASSUME NEW b \in Bars, Bar(b)
            PROVE  Equity(book', price') + book'.costs = Equity(book, price') + book.costs
        <4>1. price' = b.close BY <3>1 DEF Bar
        <4>. QED BY <1>1, <3>1, <4>1, BarHolds
      <3>2. ASSUME NEW at \in LastCloses, Finish(at)
            PROVE  Equity(book', price') + book'.costs = Equity(book, price') + book.costs
        <4>1. price' = at BY <3>2 DEF Finish
        <4>. QED BY <1>1, <3>2, <4>1, FinishHolds
      <3>. QED BY <1>1, <2>1, <3>1, <3>2 DEF Next, vars
    <2>. QED BY <2>3, <2>4
  <1>. QED BY <1>1, Holds, PTL DEF Spec, CashConserved

\* A switch of v11 to v13 stands on MinConfirm days in a row, whatever came before.
THEOREM SwitchIsConfirmed == Spec => SwitchConfirmed
  <1>1. ASSUME IInv, [Next]_vars
        PROVE  router'.regime # router.regime =>
                 \A n \in 0..(IF profile = "v10" THEN 0 ELSE MinConfirm - 1) :
                   Detected(SubSeq(days', 1, Len(days') - n)) = router'.regime
    <2>1. SUFFICES ASSUME router'.regime # router.regime
                   PROVE  \A n \in 0..(IF profile = "v10" THEN 0 ELSE MinConfirm - 1) :
                            Detected(Upto(days', n)) = router'.regime
      BY Zenon DEF Upto
    <2>2. PICK b \in Bars : Bar(b)
      BY <1>1, <2>1 DEF Next, vars, Finish
    <2>3. /\ ~Warming /\ Len(days') # seen /\ router' = Routed(Detected(days'), b)
          /\ seen' = Len(days') /\ days' = DaysWith(b) /\ profile' = profile
      BY <2>1, <2>2 DEF Bar
    <2>4. TypeOK /\ PendingShown BY <1>1 DEF IInv
    <2>5. CASE profile # "v10"
      <3>1. \A n \in 0..(MinConfirm - 1) : Detected(Upto(days', n)) = router'.regime
        BY <2>1, <2>3, <2>4, <2>5, ShownStays
      <3>. QED BY <2>5, <3>1
    <2>6. CASE profile = "v10"
      <3>1. router' = [router EXCEPT !.regime = Detected(days')] BY <2>3, <2>6 DEF Routed
      <3>2. router'.regime = Detected(days') BY <2>4, <3>1 DEF TypeOK, Router
      <3>3. Upto(days', 0) = days'
        <4>1. days' \in Seq(DayReading) BY <2>3, <2>4, DaysOf
        <4>2. b.day \in DayReading BY BarType
        <4>. QED BY <4>1, <4>2, UptoAppend
      <3>4. Detected(Upto(days', 0)) = router'.regime BY <3>2, <3>3
      <3>5. 0..0 = {0} OBVIOUS
      <3>. QED BY <2>6, <3>4, <3>5
    <2>. QED BY <2>5, <2>6
  <1>. QED BY <1>1, Holds, PTL DEF Spec, SwitchConfirmed
-----------------------------------------------------------------------------
(* Loops.  A statement about every turn of a loop is a set of numbers that    *)
(* contains the first and with each the next.                                *)

LEMMA LeastOf ==
  ASSUME NEW T \in SUBSET Nat, NEW z \in T
  PROVE  \E x \in T : x = 0 \/ x - 1 \in Nat \ T
  <1>1. PICK x \in T : \A y \in T : ~(<<y, x>> \in OpToRel(<, Nat))
    BY NatLessThanWellFounded, WFMin
  <1>2. \A y \in T : ~(y < x) BY <1>1 DEF OpToRel
  <1>3. x = 0 \/ x - 1 \in Nat \ T BY <1>2
  <1>. QED BY <1>3

LEMMA Climb ==
  ASSUME NEW a \in Nat, NEW m \in Nat, NEW T, a \in T,
         \A i \in (a + 1)..m : i - 1 \in T => i \in T
  PROVE  \A i \in a..m : i \in T
  <1>. DEFINE D == {i \in a..m : i \notin T}
  <1>1. ASSUME NEW z \in D PROVE FALSE
    <2>1. D \in SUBSET Nat OBVIOUS
    <2>2. PICK x \in D : x = 0 \/ x - 1 \in Nat \ D BY <1>1, <2>1, LeastOf
    <2>3. x \in a..m /\ x \notin T OBVIOUS
    <2>4. x # a BY <2>3
    <2>5. x \in (a + 1)..m /\ x - 1 \in a..m /\ x # 0 BY <2>3, <2>4
    <2>6. x - 1 \in T BY <2>2, <2>5
    <2>. QED BY <2>3, <2>5, <2>6
  <1>. QED BY <1>1

\* A loop over 1..n: turn i is a function on V, and a run of it.
Turning(n, V, G) == G \in [1..n -> [V -> V]]

RunOf(n, V, base, G, f) ==
  f \in [0..n -> V] /\ f[0] = base /\ \A i \in 1..n : f[i] = G[i][f[i - 1]]

LEMMA LoopExists ==
  ASSUME NEW n \in Nat, NEW V, NEW base \in V, NEW G, Turning(n, V, G)
  PROVE  \E f : RunOf(n, V, base, G, f)
  <1>. USE DEF Turning
  <1>. DEFINE Ran(k, f) == f \in [0..k -> V] /\ f[0] = base /\ \A i \in 1..k : f[i] = G[i][f[i - 1]]
              T == {k \in 0..n : \E f : Ran(k, f)}
  <1>1. 0 \in T
    <2>1. Ran(0, [i \in 0..0 |-> base]) OBVIOUS
    <2>2. 0 \in 0..n OBVIOUS
    <2>. HIDE DEF Ran
    <2>. QED BY <2>1, <2>2
  <1>2. ASSUME NEW k \in (0 + 1)..n, k - 1 \in T PROVE k \in T
    <2>1. PICK f : Ran(k - 1, f) BY <1>2
    <2>. DEFINE g == [i \in 0..k |-> IF i = k THEN G[k][f[k - 1]] ELSE f[i]]
    <2>2. k \in 1..n /\ k - 1 \in 0..(k - 1) OBVIOUS
    <2>3. f[k - 1] \in V /\ G[k] \in [V -> V] BY <2>1, <2>2
    <2>4. g \in [0..k -> V] BY <2>1, <2>2, <2>3
    <2>5. g[0] = base BY <2>1, <2>2
    <2>6. ASSUME NEW i \in 1..k PROVE g[i] = G[i][g[i - 1]]
      <3>1. g[i - 1] = f[i - 1] BY <2>2
      <3>2. CASE i = k BY <3>1, <3>2
      <3>3. CASE i # k
        <4>1. i \in 1..(k - 1) BY <3>3
        <4>2. f[i] = G[i][f[i - 1]] BY <2>1, <4>1
        <4>3. g[i] = f[i] BY <3>3
        <4>. QED BY <3>1, <4>2, <4>3
      <3>. QED BY <3>2, <3>3
    <2>. HIDE DEF g
    <2>7. Ran(k, g) BY <2>4, <2>5, <2>6
    <2>8. k \in 0..n OBVIOUS
    <2>. HIDE DEF Ran
    <2>. QED BY <2>7, <2>8
  <1>. HIDE DEF T
  <1>3. \A k \in 0..n : k \in T BY <1>1, <1>2, Climb
  <1>4. n \in T BY <1>3
  <1>. QED BY <1>4 DEF T, RunOf

\* Two loops that turn alike are alike.
SameTurns(m, f, g) == \A i \in 1..m : f[i - 1] = g[i - 1] => f[i] = g[i]

SameUpto(m, f, g) == \A i \in 0..m : f[i] = g[i]

LEMMA LoopsAgree ==
  ASSUME NEW m \in Nat, NEW f, NEW g, f[0] = g[0], SameTurns(m, f, g)
  PROVE  SameUpto(m, f, g)
  <1>. DEFINE T == {i \in 0..m : f[i] = g[i]}
  <1>1. 0 \in T OBVIOUS
  <1>2. \A i \in (0 + 1)..m : i - 1 \in T => i \in T BY DEF SameTurns
  <1>. HIDE DEF T
  <1>3. \A i \in 0..m : i \in T BY <1>1, <1>2, Climb
  <1>. QED BY <1>3 DEF T, SameUpto

LEMMA MaxIn ==
  ASSUME NEW n \in Nat, NEW S \in SUBSET (1..n), NEW z \in S
  PROVE  Max(S) \in S
  <1>. DEFINE D == {k \in Nat : \A y \in S : y <= k}
  <1>1. n \in D OBVIOUS
  <1>2. PICK x \in D : x = 0 \/ x - 1 \in Nat \ D BY <1>1, LeastOf
  <1>3. x # 0 BY <1>2
  <1>4. PICK y \in S : ~(y <= x - 1) BY <1>2, <1>3
  <1>5. y = x /\ \A v \in S : y >= v BY <1>2, <1>4
  <1>. QED BY <1>5 DEF Max
-----------------------------------------------------------------------------
(* The classes of the days and of the weeks, when a day is added.            *)

Fusing == [state : Regimes, conf : Nat]

\* "after" is "before" and one day more.
OneDayMore(before, after) ==
  /\ before \in Seq(DayReading) /\ after \in Seq(DayReading)
  /\ Len(after) = Len(before) + 1
  /\ \A i \in 1..Len(before) : after[i] = before[i]

LEMMA WindowType ==
  DaysPerWeek \in Nat /\ DaysPerWeek > 0 /\ DayWindow \in Nat /\ DayWindow > 1
  BY StartpointsAssumption

LEMMA DayType ==
  ASSUME NEW shown \in Seq(DayReading), NEW i \in 1..Len(shown)
  PROVE  shown[i].trend \in Regimes /\ shown[i].week \in Regimes /\ shown[i].strong \in BOOLEAN
  <1>1. shown[i] \in DayReading OBVIOUS
  <1>. QED BY <1>1 DEF DayReading

\* The condition of DaySmoothed.
DayCounts(shown, i) ==
  i < DayWindow \/ Votes(shown, i - DayWindow + 1, i, shown[i].trend) >= DayNeeded

LEMMA DayTurns ==
  ASSUME NEW shown \in Seq(DayReading)
  PROVE  /\ DaySmoothed(shown) \in [1..Len(shown) -> Regimes]
         /\ \A i \in 1..Len(shown) :
              DaySmoothed(shown)[i] = IF DayCounts(shown, i) THEN shown[i].trend
                                     ELSE DaySmoothed(shown)[i - 1]
  <1>. DEFINE n == Len(shown)
              Turns(sm) == sm = [i \in 1..n |-> IF DayCounts(shown, i) THEN shown[i].trend ELSE sm[i - 1]]
              G == [i \in 1..n |-> [v \in Regimes |-> IF DayCounts(shown, i) THEN shown[i].trend ELSE v]]
              smoothed == CHOOSE sm : Turns(sm)
  <1>1. n \in Nat /\ \A i \in 1..n : shown[i].trend \in Regimes BY DayType
  <1>2. G \in [1..n -> [Regimes -> Regimes]]
    <2>. HIDE DEF n
    <2>. QED BY <1>1
  <1>3. "BULL" \in Regimes BY DEF Regimes
  <1>4. PICK f : RunOf(n, Regimes, "BULL", G, f)
    <2>1. n \in Nat /\ Turning(n, Regimes, G) BY <1>1, <1>2 DEF Turning
    <2>. HIDE DEF G, n
    <2>. QED BY <2>1, <1>3, LoopExists
  <1>5. \A i \in 1..n : f[i - 1] \in Regimes
    <2>. HIDE DEF n
    <2>. QED BY <1>1, <1>4 DEF RunOf
  <1>6. \A i \in 1..n : f[i] = IF DayCounts(shown, i) THEN shown[i].trend ELSE f[i - 1]
    <2>. HIDE DEF n
    <2>. QED BY <1>4, <1>5 DEF RunOf
  <1>. DEFINE g == [i \in 1..n |-> f[i]]
  <1>7. Turns(g)
    <2>1. ASSUME NEW i \in 1..n
          PROVE  g[i] = IF DayCounts(shown, i) THEN shown[i].trend ELSE g[i - 1]
      <3>1. CASE i = 1
        <4>1. DayCounts(shown, i) BY <3>1, WindowType DEF DayCounts
        <4>. QED BY <1>6, <4>1
      <3>2. CASE i # 1
        <4>1. i - 1 \in 1..n BY <1>1, <3>2
        <4>. QED BY <1>6, <4>1
      <3>. QED BY <3>1, <3>2
    <2>2. g = [i \in 1..n |-> g[i]] OBVIOUS
    <2>. HIDE DEF g
    <2>. QED BY <2>1, <2>2
  <1>8. Turns(smoothed)
    <2>. HIDE DEF Turns, g
    <2>. QED BY <1>7
  <1>9. DaySmoothed(shown) = smoothed BY DEF DaySmoothed, DayCounts
  <1>. HIDE DEF smoothed
  <1>10. smoothed \in [1..n -> Regimes]
    <2>1. smoothed = [i \in 1..n |-> smoothed[i]] BY <1>8
    <2>. DEFINE T == {i \in 0..n : i = 0 \/ smoothed[i] \in Regimes}
    <2>2. 0 \in T BY <1>1
    <2>3. ASSUME NEW i \in (0 + 1)..n, i - 1 \in T PROVE i \in T
      <3>1. i \in 1..n /\ shown[i].trend \in Regimes BY <1>1
      <3>2. smoothed[i] = IF DayCounts(shown, i) THEN shown[i].trend ELSE smoothed[i - 1]
        BY <1>8, <3>1
      <3>3. i = 1 => DayCounts(shown, i) BY WindowType DEF DayCounts
      <3>4. i # 1 => smoothed[i - 1] \in Regimes BY <2>3, <3>1
      <3>. QED BY <3>1, <3>2, <3>3, <3>4
    <2>. HIDE DEF T
    <2>4. \A i \in 0..n : i \in T BY <1>1, <2>2, <2>3, Climb
    <2>5. \A i \in 1..n : smoothed[i] \in Regimes BY <2>4 DEF T
    <2>. QED BY <2>1, <2>5
  <1>11. \A i \in 1..n : smoothed[i] = IF DayCounts(shown, i) THEN shown[i].trend ELSE smoothed[i - 1]
    BY <1>8
  <1>. QED BY <1>9, <1>10, <1>11

LEMMA DaysAgree ==
  ASSUME NEW before, NEW after, OneDayMore(before, after)
  PROVE  \A i \in 1..Len(before) : DaySmoothed(after)[i] = DaySmoothed(before)[i]
  <1>. DEFINE n == Len(before)  s == DaySmoothed(before)  t == DaySmoothed(after)
              T == {i \in 0..n : i = 0 \/ t[i] = s[i]}
  <1>1. /\ n \in Nat /\ before \in Seq(DayReading) /\ after \in Seq(DayReading)
        /\ Len(after) = n + 1 /\ \A i \in 1..n : after[i] = before[i]
    BY DEF OneDayMore
  <1>2. 0 \in T BY <1>1
  <1>3. ASSUME NEW i \in (0 + 1)..n, i - 1 \in T PROVE i \in T
    <2>1. i \in 1..n /\ i \in 1..Len(after) BY <1>1
    <2>2. DayCounts(before, i) = DayCounts(after, i)
      <3>. DEFINE c == before[i].trend
      <3>1. after[i].trend = c BY <1>1, <2>1
      <3>2. CASE i < DayWindow BY <3>2 DEF DayCounts
      <3>3. CASE ~(i < DayWindow)
        <4>1. \A j \in (i - DayWindow + 1)..i : j \in 1..n BY <1>1, <2>1, <3>3, WindowType
        <4>2. {j \in (i - DayWindow + 1)..i : before[j].trend = c}
                = {j \in (i - DayWindow + 1)..i : after[j].trend = c}
          BY <1>1, <4>1
        <4>3. Votes(before, i - DayWindow + 1, i, c) = Votes(after, i - DayWindow + 1, i, c)
          BY <4>2 DEF Votes
        <4>. QED BY <3>1, <4>3 DEF DayCounts
      <3>. QED BY <3>2, <3>3
    <2>3. s[i] = IF DayCounts(before, i) THEN before[i].trend ELSE s[i - 1]
      BY <1>1, <2>1, DayTurns
    <2>4. t[i] = IF DayCounts(after, i) THEN after[i].trend ELSE t[i - 1]
      BY <1>1, <2>1, DayTurns
    <2>5. i = 1 => DayCounts(before, i) BY WindowType DEF DayCounts
    <2>6. i # 1 => t[i - 1] = s[i - 1] BY <1>3
    <2>7. t[i] = s[i] BY <1>1, <2>1, <2>2, <2>3, <2>4, <2>5, <2>6
    <2>. QED BY <2>1, <2>7
  <1>. HIDE DEF T
  <1>4. \A i \in 0..n : i \in T BY <1>1, <1>2, <1>3, Climb
  <1>. QED BY <1>1, <1>4 DEF T
\* A week holds DaysPerWeek days: the last of week w is day w * DaysPerWeek.
LEMMA WeekBounds ==
  ASSUME NEW d \in Nat
  PROVE  /\ WeekOf(d) \in Int
         /\ (WeekOf(d) - 1) * DaysPerWeek <= d - 1
         /\ d - 1 < WeekOf(d) * DaysPerWeek
  <1>. DEFINE a == d - 1  q == a \div DaysPerWeek
  <1>1. a \in Int /\ DaysPerWeek \in Int /\ DaysPerWeek > 0 BY WindowType
  <1>2. q \in Int /\ q * DaysPerWeek <= a /\ a < (q + 1) * DaysPerWeek
    <2>. HIDE DEF a
    <2>. QED BY <1>1, Z3
  <1>3. WeekOf(d) = q + 1 BY DEF WeekOf
  <1>. HIDE DEF q
  <1>4. WeekOf(d) - 1 = q BY <1>2, <1>3
  <1>. QED BY <1>2, <1>3, <1>4

\* Products with the length of a week keep the order.
LEMMA WeeksOrder ==
  ASSUME NEW v \in Int, NEW w \in Int, v <= w
  PROVE  v * DaysPerWeek \in Int /\ v * DaysPerWeek <= w * DaysPerWeek
  BY WindowType
LEMMA AsTuple ==
  ASSUME NEW X, NEW n \in Nat, NEW s \in [1..n -> X]
  PROVE  s \in Seq(X) /\ Len(s) = n /\ Tupled(s) = s
  <1>1. s \in Seq(X) BY SeqDef
  <1>2. Len(s) \in Nat /\ DOMAIN s = 1..Len(s) /\ DOMAIN s = 1..n BY <1>1, LenProperties
  <1>3. Len(s) = n BY <1>2
  <1>4. SubSeq(s, 1, Len(s)) = s BY <1>1, <1>3
  <1>. QED BY <1>1, <1>3, <1>4 DEF Tupled

LEMMA WeekNat ==
  ASSUME NEW d \in Nat
  PROVE  WeekOf(d) \in Nat /\ (d > 0 <=> WeekOf(d) > 0)
  <1>. DEFINE w == WeekOf(d)
  <1>1. w \in Int /\ (w - 1) * DaysPerWeek <= d - 1 /\ d - 1 < w * DaysPerWeek BY WeekBounds
  <1>2. DaysPerWeek \in Nat /\ DaysPerWeek > 0 BY WindowType
  <1>. HIDE DEF w
  <1>3. ASSUME w < 0 PROVE FALSE
    <2>1. w * DaysPerWeek <= (-1) * DaysPerWeek BY <1>1, <1>3, WeeksOrder
    <2>2. w * DaysPerWeek \in Int BY <1>1, <1>2
    <2>. QED BY <1>1, <1>2, <2>1, <2>2
  <1>4. ASSUME w > 0, d = 0 PROVE FALSE
    <2>1. 0 * DaysPerWeek <= (w - 1) * DaysPerWeek BY <1>1, <1>4, WeeksOrder
    <2>2. (w - 1) * DaysPerWeek \in Int BY <1>1, <1>2
    <2>. QED BY <1>1, <1>2, <1>4, <2>1, <2>2
  <1>5. ASSUME w = 0, d > 0 PROVE FALSE
    <2>1. w * DaysPerWeek = 0 BY <1>2, <1>5
    <2>. QED BY <1>1, <1>5, <2>1
  <1>. QED BY <1>1, <1>3, <1>4, <1>5 DEF w

LEMMA WeekMonotone ==
  ASSUME NEW d \in Nat, NEW e \in Nat, d <= e
  PROVE  WeekOf(d) <= WeekOf(e)
  <1>. DEFINE v == WeekOf(d)  w == WeekOf(e)
  <1>1. /\ v \in Nat /\ (v - 1) * DaysPerWeek <= d - 1 /\ (v - 1) * DaysPerWeek \in Int
        /\ w \in Nat /\ e - 1 < w * DaysPerWeek /\ w * DaysPerWeek \in Int
    BY WeekBounds, WeekNat, WindowType
  <1>. HIDE DEF v, w
  <1>2. ASSUME w < v PROVE FALSE
    <2>1. w * DaysPerWeek <= (v - 1) * DaysPerWeek BY <1>1, <1>2, WeeksOrder
    <2>. QED BY <1>1, <2>1
  <1>3. v <= w BY <1>1, <1>2
  <1>. QED BY <1>3 DEF v, w

\* The last day of a week before the current one is in the table.
LEMMA WeekClosed ==
  ASSUME NEW n \in Nat, NEW w \in Nat, w > 0, w < WeekOf(n)
  PROVE  w * DaysPerWeek \in 1..(n - 1)
  <1>1. WeekOf(n) \in Nat /\ (WeekOf(n) - 1) * DaysPerWeek <= n - 1 BY WeekBounds, WeekNat
  <1>2. (WeekOf(n) - 1) * DaysPerWeek \in Int BY <1>1, WindowType
  <1>3. w * DaysPerWeek \in Int /\ w * DaysPerWeek <= (WeekOf(n) - 1) * DaysPerWeek
    BY <1>1, WeeksOrder
  <1>4. 1 * DaysPerWeek <= w * DaysPerWeek BY WeeksOrder
  <1>. QED BY <1>1, <1>2, <1>3, <1>4, WindowType

LEMMA WeekClassType ==
  ASSUME NEW shown \in Seq(DayReading)
  PROVE  WeekClasses(shown) \in [1..WeekOf(Len(shown)) -> Regimes]
  <1>. DEFINE n == Len(shown)
              last(w) == IF w * DaysPerWeek <= n THEN w * DaysPerWeek ELSE n
  <1>1. n \in Nat /\ WeekOf(n) \in Nat /\ (n > 0 <=> WeekOf(n) > 0) BY WeekNat
  <1>2. ASSUME NEW w \in 1..WeekOf(n) PROVE shown[last(w)].week \in Regimes
    <2>1. w * DaysPerWeek \in Int /\ 1 * DaysPerWeek <= w * DaysPerWeek BY <1>1, WeeksOrder
    <2>2. n > 0 BY <1>1
    <2>3. last(w) \in 1..n BY <1>1, <2>1, <2>2, WindowType
    <2>. QED BY <2>3, DayType
  <1>. HIDE DEF n
  <1>3. [w \in 1..WeekOf(n) |-> shown[last(w)].week] \in [1..WeekOf(n) -> Regimes] BY <1>2
  <1>. QED BY <1>3 DEF WeekClasses, n

LEMMA WeeksAgree ==
  ASSUME NEW before, NEW after, OneDayMore(before, after)
  PROVE  /\ WeekOf(Len(before)) <= WeekOf(Len(after))
         /\ \A w \in 1..(WeekOf(Len(before)) - 1) :
              WeekClasses(after)[w] = WeekClasses(before)[w]
  <1>. DEFINE n == Len(before)
  <1>1. /\ n \in Nat /\ Len(after) = n + 1 /\ \A i \in 1..n : after[i] = before[i]
        /\ before \in Seq(DayReading) /\ after \in Seq(DayReading)
    BY DEF OneDayMore
  <1>2. WeekOf(n) \in Nat /\ WeekOf(n + 1) \in Nat /\ WeekOf(n) <= WeekOf(n + 1)
    BY <1>1, WeekNat, WeekMonotone
  <1>3. ASSUME NEW w \in 1..(WeekOf(n) - 1) PROVE WeekClasses(after)[w] = WeekClasses(before)[w]
    <2>1. w * DaysPerWeek \in 1..(n - 1) BY <1>1, <1>2, WeekClosed
    <2>2. w \in 1..WeekOf(n) /\ w \in 1..WeekOf(n + 1) BY <1>2
    <2>3. WeekClasses(before)[w] = before[w * DaysPerWeek].week BY <1>1, <2>1, <2>2 DEF WeekClasses
    <2>4. WeekClasses(after)[w] = after[w * DaysPerWeek].week BY <1>1, <2>1, <2>2 DEF WeekClasses
    <2>. QED BY <1>1, <2>1, <2>3, <2>4
  <1>. QED BY <1>1, <1>2, <1>3

\* The weeks whose class counts, up to one of them.
Counting(raw, w) ==
  {v \in {u \in 1..Len(raw) : u = 1 \/ (u < Len(raw) /\ raw[u + 1] = raw[u])} : v <= w}

LEMMA WeekSmoothedType ==
  ASSUME NEW n \in Nat, NEW raw \in [1..n -> Regimes]
  PROVE  /\ WeekSmoothed(raw) \in [1..n -> Regimes]
         /\ \A w \in 1..n : /\ Max(Counting(raw, w)) \in Counting(raw, w)
                            /\ WeekSmoothed(raw)[w] = raw[Max(Counting(raw, w))]
  <1>1. Len(raw) = n BY AsTuple
  <1>2. WeekSmoothed(raw) = [w \in 1..n |-> raw[Max(Counting(raw, w))]]
    BY <1>1 DEF WeekSmoothed, Counting
  <1>3. ASSUME NEW w \in 1..n
        PROVE  Max(Counting(raw, w)) \in Counting(raw, w) /\ raw[Max(Counting(raw, w))] \in Regimes
    <2>1. 1 \in Counting(raw, w) /\ Counting(raw, w) \in SUBSET (1..n) BY <1>1 DEF Counting
    <2>2. Max(Counting(raw, w)) \in Counting(raw, w) BY <2>1, MaxIn
    <2>3. Max(Counting(raw, w)) \in 1..n BY <2>1, <2>2
    <2>. QED BY <2>2, <2>3
  <1>. QED BY <1>2, <1>3

LEMMA SmoothedAgree ==
  ASSUME NEW n \in Nat, NEW m \in Nat, n <= m,
         NEW s \in [1..n -> Regimes], NEW t \in [1..m -> Regimes],
         \A w \in 1..(n - 1) : t[w] = s[w]
  PROVE  \A w \in 1..(n - 2) : WeekSmoothed(t)[w] = WeekSmoothed(s)[w]
  <1>. SUFFICES ASSUME NEW w \in 1..(n - 2) PROVE WeekSmoothed(t)[w] = WeekSmoothed(s)[w] OBVIOUS
  <1>1. Len(s) = n /\ Len(t) = m BY AsTuple
  <1>2. Counting(s, w) = Counting(t, w)
    <2>1. ASSUME NEW u \in 1..(n - 2)
          PROVE  u \in 1..n /\ u \in 1..m /\ u < n /\ u < m /\ t[u] = s[u] /\ t[u + 1] = s[u + 1]
      OBVIOUS
    <2>2. \A v : v \in Counting(s, w) => v \in 1..(n - 2) BY <1>1 DEF Counting
    <2>3. \A v : v \in Counting(t, w) => v \in 1..(n - 2) BY <1>1 DEF Counting
    <2>4. \A v \in 1..(n - 2) : v \in Counting(s, w) <=> v \in Counting(t, w)
      BY <1>1, <2>1 DEF Counting
    <2>. QED BY <2>2, <2>3, <2>4
  <1>. DEFINE x == Max(Counting(s, w))
  <1>3. w \in 1..n /\ w \in 1..m OBVIOUS
  <1>4. x \in Counting(s, w) /\ WeekSmoothed(s)[w] = s[x] BY <1>3, WeekSmoothedType
  <1>5. WeekSmoothed(t)[w] = t[x] BY <1>2, <1>3, WeekSmoothedType
  <1>6. x \in 1..(n - 1) BY <1>1, <1>4 DEF Counting
  <1>. QED BY <1>4, <1>5, <1>6
-----------------------------------------------------------------------------
(* The states of the days, when a day is added.                              *)

\* The days before fuseStates turns the single ones.
RawFused(shown) ==
  [i \in 1..Len(shown) |->
     Fused(DaySmoothed(shown)[i], WeekSmoothed(WeekClasses(shown))[WeekOf(i)],
           shown[i].strong /\ WeekClasses(shown)[WeekOf(i)] = "RANGE")]

LEMMA WeekOfDay ==
  ASSUME NEW n \in Nat, NEW i \in 1..n PROVE WeekOf(i) \in 1..WeekOf(n)
  BY WeekNat, WeekMonotone

LEMMA RawType ==
  ASSUME NEW shown \in Seq(DayReading)
  PROVE  RawFused(shown) \in [1..Len(shown) -> Fusing]
  <1>. DEFINE n == Len(shown)
  <1>1. n \in Nat /\ WeekOf(n) \in Nat BY WeekNat
  <1>2. DaySmoothed(shown) \in [1..n -> Regimes] BY DayTurns
  <1>3. WeekSmoothed(WeekClasses(shown)) \in [1..WeekOf(n) -> Regimes]
    BY <1>1, WeekClassType, WeekSmoothedType
  <1>4. ASSUME NEW d \in Regimes, NEW w \in Regimes, NEW strong PROVE Fused(d, w, strong) \in Fusing
    BY DEF Fused, Fusing, Regimes
  <1>5. ASSUME NEW i \in 1..n PROVE RawFused(shown)[i] \in Fusing
    <2>1. DaySmoothed(shown)[i] \in Regimes BY <1>2
    <2>2. WeekSmoothed(WeekClasses(shown))[WeekOf(i)] \in Regimes BY <1>1, <1>3, WeekOfDay
    <2>3. RawFused(shown)[i] = Fused(DaySmoothed(shown)[i],
                                    WeekSmoothed(WeekClasses(shown))[WeekOf(i)],
                                    shown[i].strong /\ WeekClasses(shown)[WeekOf(i)] = "RANGE")
      BY DEF RawFused
    <2>. QED BY <1>4, <2>1, <2>2, <2>3
  <1>6. RawFused(shown) = [i \in 1..n |-> RawFused(shown)[i]] BY DEF RawFused
  <1>. HIDE DEF n
  <1>7. [i \in 1..n |-> RawFused(shown)[i]] \in [1..n -> Fusing] BY <1>5
  <1>. QED BY <1>6, <1>7 DEF n

LEMMA RawAgree ==
  ASSUME NEW before, NEW after, OneDayMore(before, after), NEW i \in 1..Len(before),
         i <= (WeekOf(Len(before)) - 2) * DaysPerWeek
  PROVE  RawFused(after)[i] = RawFused(before)[i]
  <1>. DEFINE n == Len(before)  W == WeekOf(n)  V == WeekOf(n + 1)
              s == WeekClasses(before)  t == WeekClasses(after)
  <1>1. /\ n \in Nat /\ Len(after) = n + 1 /\ after[i] = before[i]
        /\ before \in Seq(DayReading) /\ after \in Seq(DayReading)
    BY DEF OneDayMore
  <1>2. W \in Nat /\ V \in Nat /\ W <= V BY <1>1, WeekNat, WeekMonotone
  <1>3. s \in [1..W -> Regimes] /\ t \in [1..V -> Regimes] BY <1>1, WeekClassType
  <1>4. \A w \in 1..(W - 1) : t[w] = s[w] BY WeeksAgree
  <1>5. WeekOf(i) \in 1..(W - 2)
    <2>. DEFINE w == WeekOf(i)
    <2>1. w \in Nat /\ w > 0 /\ (w - 1) * DaysPerWeek <= i - 1 BY <1>1, WeekNat, WeekBounds
    <2>. HIDE DEF w
    <2>2. ASSUME w > W - 2 PROVE FALSE
      <3>1. (W - 2) * DaysPerWeek <= (w - 1) * DaysPerWeek BY <1>2, <2>1, <2>2, WeeksOrder, SMTT(40)
      <3>2. (W - 2) * DaysPerWeek \in Int /\ (w - 1) * DaysPerWeek \in Int BY <1>2, <2>1, WindowType
      <3>. QED BY <1>1, <2>1, <3>1, <3>2
    <2>3. w \in 1..(W - 2) BY <1>2, <2>1, <2>2
    <2>. QED BY <2>3 DEF w
  <1>6. WeekSmoothed(t)[WeekOf(i)] = WeekSmoothed(s)[WeekOf(i)]
    <2>. HIDE DEF W, V, s, t
    <2>. QED BY <1>2, <1>3, <1>4, <1>5, SmoothedAgree
  <1>7. DaySmoothed(after)[i] = DaySmoothed(before)[i] BY DaysAgree
  <1>8. i \in 1..Len(after) BY <1>1
  <1>9. t[WeekOf(i)] = s[WeekOf(i)] BY <1>2, <1>4, <1>5
  <1>. QED BY <1>1, <1>6, <1>7, <1>8, <1>9 DEF RawFused

\* The condition of Turned: "f" is the day before as it was turned itself.
TurnsAt(raw, n, i, f) == i > 1 /\ i < n - 1 /\ Alone(raw[i], f, raw[i + 1])

TurnedDay(raw, i) ==
  [state |-> raw[i + 1].state, conf |-> IF raw[i].conf < 62 THEN raw[i].conf ELSE 62]

LEMMA Turns ==
  ASSUME NEW n \in Nat, NEW raw \in [1..n -> Fusing]
  PROVE  /\ Turned(raw) \in [1..n -> Fusing]
         /\ \A i \in 1..n :
              Turned(raw)[i] = IF TurnsAt(raw, n, i, Turned(raw)[i - 1]) THEN TurnedDay(raw, i) ELSE raw[i]
  <1>. DEFINE Fl(fl) == fl = [i \in 1..n |-> IF TurnsAt(raw, n, i, fl[i - 1]) THEN TurnedDay(raw, i) ELSE raw[i]]
              G == [i \in 1..n |-> [v \in Fusing |-> IF TurnsAt(raw, n, i, v) THEN TurnedDay(raw, i) ELSE raw[i]]]
              turned == CHOOSE fl : Fl(fl)
              none == [state |-> "BULL", conf |-> 0]
  <1>1. \A i \in 1..n : raw[i] \in Fusing OBVIOUS
  <1>2. \A i \in 1..n : i < n - 1 => TurnedDay(raw, i) \in Fusing
    BY <1>1 DEF TurnedDay, Fusing
  <1>3. \A i \in 1..n : \A v : (IF TurnsAt(raw, n, i, v) THEN TurnedDay(raw, i) ELSE raw[i]) \in Fusing
    BY <1>1, <1>2 DEF TurnsAt
  <1>4. Turning(n, Fusing, G) BY <1>3 DEF Turning
  <1>5. none \in Fusing BY DEF Fusing, Regimes
  <1>6. PICK f : RunOf(n, Fusing, none, G, f)
    <2>. HIDE DEF G, none
    <2>. QED BY <1>4, <1>5, LoopExists
  <1>7. \A i \in 1..n : f[i - 1] \in Fusing BY <1>6 DEF RunOf
  <1>8. \A i \in 1..n : f[i] = IF TurnsAt(raw, n, i, f[i - 1]) THEN TurnedDay(raw, i) ELSE raw[i]
    BY <1>6, <1>7 DEF RunOf
  <1>. DEFINE g == [i \in 1..n |-> f[i]]
  <1>9. Fl(g)
    <2>1. ASSUME NEW i \in 1..n
          PROVE  g[i] = IF TurnsAt(raw, n, i, g[i - 1]) THEN TurnedDay(raw, i) ELSE raw[i]
      <3>1. CASE i = 1
        <4>1. \A v : ~TurnsAt(raw, n, i, v) BY <3>1 DEF TurnsAt
        <4>. QED BY <1>8, <4>1
      <3>2. CASE i # 1
        <4>1. i - 1 \in 1..n BY <3>2
        <4>. QED BY <1>8, <4>1
      <3>. QED BY <3>1, <3>2
    <2>2. g = [i \in 1..n |-> g[i]] OBVIOUS
    <2>. HIDE DEF g
    <2>. QED BY <2>1, <2>2
  <1>10. Fl(turned)
    <2>. HIDE DEF Fl, g
    <2>. QED BY <1>9
  <1>11. Turned(raw) = turned
    <2>1. Len(raw) = n BY AsTuple
    <2>. QED BY <2>1 DEF Turned, TurnsAt, TurnedDay
  <1>. HIDE DEF turned
  <1>12. turned \in [1..n -> Fusing]
    <2>1. turned = [i \in 1..n |-> turned[i]] BY <1>10
    <2>2. \A i \in 1..n : turned[i] \in Fusing BY <1>3, <1>10
    <2>. QED BY <2>1, <2>2
  <1>13. \A i \in 1..n :
           turned[i] = IF TurnsAt(raw, n, i, turned[i - 1]) THEN TurnedDay(raw, i) ELSE raw[i]
    BY <1>10
  <1>. QED BY <1>11, <1>12, <1>13

LEMMA FusedType ==
  ASSUME NEW shown \in Seq(DayReading)
  PROVE  /\ FusedDays(shown) = Turned(RawFused(shown))
         /\ FusedDays(shown) \in [1..Len(shown) -> Fusing]
         /\ FusedDays(shown) \in Seq(Fusing) /\ Len(FusedDays(shown)) = Len(shown)
  <1>. DEFINE n == Len(shown)
  <1>1. n \in Nat /\ WeekOf(n) \in Nat BY WeekNat
  <1>2. DaySmoothed(shown) \in [1..n -> Regimes] BY DayTurns
  <1>3. WeekSmoothed(WeekClasses(shown)) \in [1..WeekOf(n) -> Regimes]
    BY <1>1, WeekClassType, WeekSmoothedType
  <1>4. /\ Tupled(DaySmoothed(shown)) = DaySmoothed(shown)
        /\ Tupled(WeekClasses(shown)) = WeekClasses(shown)
        /\ Tupled(WeekSmoothed(WeekClasses(shown))) = WeekSmoothed(WeekClasses(shown))
    BY <1>1, <1>2, <1>3, WeekClassType, AsTuple
  <1>5. Turned(RawFused(shown)) \in [1..n -> Fusing] BY <1>1, RawType, Turns
  <1>6. Tupled(Turned(RawFused(shown))) = Turned(RawFused(shown)) BY <1>1, <1>5, AsTuple
  <1>7. FusedDays(shown) = Tupled(Turned(RawFused(shown))) BY <1>4 DEF FusedDays, RawFused
  <1>. QED BY <1>1, <1>5, <1>6, <1>7, AsTuple

LEMMA SettledDays ==
  ASSUME NEW shown \in Seq(DayReading)
  PROVE  Settled(shown) \in Int /\ Settled(shown) <= Len(shown) - 3
  <1>. DEFINE n == Len(shown)  W == WeekOf(n)
  <1>1. n \in Nat /\ W \in Nat /\ (W - 1) * DaysPerWeek <= n - 1 BY WeekNat, WeekBounds
  <1>2. /\ (W - 1) * DaysPerWeek \in Int /\ (W - 2) * DaysPerWeek \in Int
        /\ (W - 1) * DaysPerWeek = (W - 2) * DaysPerWeek + DaysPerWeek
    <2>. HIDE DEF W
    <2>. QED BY <1>1, WindowType, Z3
  <1>. HIDE DEF W, n
  <1>3. (W - 2) * DaysPerWeek - 1 \in Int /\ (W - 2) * DaysPerWeek - 1 <= n - 3
    BY <1>1, <1>2, WindowType
  <1>. QED BY <1>3 DEF Settled, W, n

\* No settled day changes.
LEMMA FusedAgree ==
  ASSUME NEW before, NEW after, OneDayMore(before, after)
  PROVE  \A i \in 1..Settled(before) : FusedDays(after)[i] = FusedDays(before)[i]
  <1>. DEFINE n == Len(before)  m == Settled(before)  r == RawFused(before)  q == RawFused(after)
              s == FusedDays(before)  t == FusedDays(after)
              T == {i \in 0..m : i = 0 \/ t[i] = s[i]}
  <1>1. /\ n \in Nat /\ Len(after) = n + 1
        /\ before \in Seq(DayReading) /\ after \in Seq(DayReading)
    BY DEF OneDayMore
  <1>2. m \in Int /\ m <= n - 3 BY <1>1, SettledDays
  <1>3. CASE m < 0 BY <1>2, <1>3
  <1>4. CASE m >= 0
    <2>1. 0 \in T BY <1>2, <1>4
    <2>2. ASSUME NEW i \in (0 + 1)..m, i - 1 \in T PROVE i \in T
      <3>1. i \in 1..n /\ i + 1 \in 1..n /\ i \in 1..(n + 1) BY <1>1, <1>2
      <3>2. q[i] = r[i] /\ q[i + 1] = r[i + 1]
        <4>1. (WeekOf(n) - 2) * DaysPerWeek = m + 1
          <5>1. (WeekOf(n) - 2) * DaysPerWeek \in Int BY <1>1, WeekNat, WindowType
          <5>. QED BY <5>1 DEF Settled
        <4>2. i + 1 <= m + 1 /\ i <= m + 1 BY <1>2
        <4>. HIDE DEF m
        <4>. QED BY <1>1, <3>1, <4>1, <4>2, RawAgree
      <3>3. r \in [1..n -> Fusing] /\ q \in [1..(n + 1) -> Fusing] BY <1>1, RawType
      <3>4. s = Turned(r) /\ t = Turned(q) BY <1>1, FusedType
      <3>5. s[i] = IF TurnsAt(r, n, i, s[i - 1]) THEN TurnedDay(r, i) ELSE r[i]
        BY <1>1, <3>1, <3>3, <3>4, Turns, ZenonT(60)
      <3>6. t[i] = IF TurnsAt(q, n + 1, i, t[i - 1]) THEN TurnedDay(q, i) ELSE q[i]
        <4>1. n + 1 \in Nat BY <1>1
        <4>. HIDE DEF q, t, n
        <4>. QED BY <3>1, <3>3, <3>4, <4>1, Turns
      <3>7. TurnedDay(r, i) = TurnedDay(q, i) BY <3>2 DEF TurnedDay
      <3>8. i < n - 1 /\ i < (n + 1) - 1 BY <1>1, <1>2
      <3>9. i > 1 => t[i - 1] = s[i - 1] BY <2>2
      <3>10. TurnsAt(r, n, i, s[i - 1]) = TurnsAt(q, n + 1, i, t[i - 1])
        BY <3>2, <3>8, <3>9 DEF TurnsAt
      <3>11. t[i] = s[i]
        <4>. HIDE DEF r, q, s, t
        <4>. QED BY <3>2, <3>5, <3>6, <3>7, <3>10
      <3>. QED BY <3>11
    <2>3. m \in Nat BY <1>2, <1>4
    <2>. HIDE DEF T, m
    <2>4. \A i \in 0..m : i \in T BY <2>1, <2>2, <2>3, Climb
    <2>. QED BY <2>3, <2>4 DEF T, m
  <1>. QED BY <1>2, <1>3, <1>4
-----------------------------------------------------------------------------
(* Runs and segments follow each other without a gap.                        *)

Run == [state : Regimes, start : Nat, end : Nat, sum : Nat]

\* "segs" are segments of the days 1..m.
Chain(segs, m) ==
  /\ segs = <<>> <=> m = 0
  /\ segs # <<>> => segs[Len(segs)].end = m
  /\ \A k \in 1..Len(segs) : 1 <= segs[k].start /\ segs[k].start <= segs[k].end /\ segs[k].end <= m
  /\ \A j, k \in 1..Len(segs) : j < k => segs[j].end < segs[k].start
  /\ \A d \in 1..m : \E k \in 1..Len(segs) : segs[k].start <= d /\ d <= segs[k].end

LEMMA RunFields ==
  ASSUME NEW segs \in Seq(Run), NEW k \in 1..Len(segs)
  PROVE  segs[k] \in Run /\ segs[k].state \in Regimes /\ segs[k].start \in Nat
         /\ segs[k].end \in Nat /\ segs[k].sum \in Nat
  <1>1. segs[k] \in Run OBVIOUS
  <1>. QED BY <1>1 DEF Run

LEMMA NotEmpty ==
  ASSUME NEW X, NEW segs \in Seq(X)
  PROVE  Len(segs) \in Nat /\ (segs # <<>> <=> Len(segs) > 0)
  BY EmptySeq, LenProperties

LEMMA ChainAppend ==
  ASSUME NEW segs \in Seq(Run), NEW m \in Nat, Chain(segs, m),
         NEW r \in Run, r.start = m + 1, r.start <= r.end
  PROVE  Append(segs, r) \in Seq(Run) /\ Chain(Append(segs, r), r.end)
  <1>. DEFINE w == Append(segs, r)  n == Len(segs)
  <1>1. /\ w \in Seq(Run) /\ n \in Nat /\ Len(w) = n + 1 /\ w[n + 1] = r
        /\ \A k \in 1..n : w[k] = segs[k]
    OBVIOUS
  <1>2. r.start \in Nat /\ r.end \in Nat BY DEF Run
  <1>3. \A k \in 1..n : segs[k].start \in Nat /\ segs[k].end \in Nat BY RunFields
  <1>4. /\ \A k \in 1..n : 1 <= segs[k].start /\ segs[k].start <= segs[k].end /\ segs[k].end <= m
        /\ \A j, k \in 1..n : j < k => segs[j].end < segs[k].start
        /\ \A d \in 1..m : \E k \in 1..n : segs[k].start <= d /\ d <= segs[k].end
    BY DEF Chain
  <1>. HIDE DEF w, n
  <1>5. w # <<>> /\ r.end # 0 BY <1>1, <1>2, NotEmpty
  <1>6. w[Len(w)].end = r.end BY <1>1
  <1>7. ASSUME NEW k \in 1..(n + 1)
        PROVE  1 <= w[k].start /\ w[k].start <= w[k].end /\ w[k].end <= r.end
    <2>1. CASE k = n + 1 BY <1>1, <1>2, <2>1
    <2>2. CASE k # n + 1
      <3>1. k \in 1..n BY <1>1, <2>2
      <3>2. w[k] = segs[k] BY <1>1, <3>1
      <3>3. 1 <= segs[k].start /\ segs[k].start <= segs[k].end /\ segs[k].end <= m BY <1>4, <3>1
      <3>4. segs[k].end \in Nat /\ m <= r.end BY <1>2, <1>3, <3>1
      <3>. QED BY <1>2, <3>2, <3>3, <3>4
    <2>. QED BY <2>1, <2>2
  <1>8. ASSUME NEW j \in 1..(n + 1), NEW k \in 1..(n + 1), j < k
        PROVE  w[j].end < w[k].start
    <2>1. j \in 1..n BY <1>1, <1>8
    <2>2. CASE k = n + 1 BY <1>1, <1>2, <1>3, <1>4, <2>1, <2>2, SMTT(40)
    <2>3. CASE k # n + 1
      <3>1. k \in 1..n BY <1>1, <2>3
      <3>. QED BY <1>1, <1>4, <1>8, <2>1, <3>1
    <2>. QED BY <2>2, <2>3
  <1>9. ASSUME NEW d \in 1..r.end
        PROVE  \E k \in 1..(n + 1) : w[k].start <= d /\ d <= w[k].end
    <2>1. CASE d <= m
      <3>1. PICK k \in 1..n : segs[k].start <= d /\ d <= segs[k].end BY <1>4, <2>1
      <3>2. k \in 1..(n + 1) /\ w[k] = segs[k] BY <1>1
      <3>. QED BY <3>1, <3>2
    <2>2. CASE d > m
      <3>1. n + 1 \in 1..(n + 1) /\ r.start <= d /\ d <= r.end BY <1>1, <1>2, <2>2
      <3>. QED BY <1>1, <3>1
    <2>. QED BY <2>1, <2>2
  <1>10. Chain(w, r.end) BY <1>1, <1>5, <1>6, <1>7, <1>8, <1>9 DEF Chain
  <1>. QED BY <1>1, <1>10 DEF w

LEMMA ChainExtend ==
  ASSUME NEW segs \in Seq(Run), NEW m \in Nat, Chain(segs, m), NEW w \in Seq(Run),
         Len(segs) > 0, Len(w) = Len(segs),
         \A k \in 1..(Len(segs) - 1) : w[k] = segs[k],
         w[Len(segs)].start = segs[Len(segs)].start,
         m <= w[Len(segs)].end
  PROVE  Chain(w, w[Len(segs)].end)
  <1>. DEFINE n == Len(segs)  h == w[n].end
  <1>1. n \in Nat /\ n > 0 /\ Len(w) = n OBVIOUS
  <1>2. \A k \in 1..n : segs[k].start \in Nat /\ segs[k].end \in Nat BY RunFields
  <1>3. n \in 1..n /\ h \in Nat BY <1>1, RunFields
  <1>4. /\ \A k \in 1..n : 1 <= segs[k].start /\ segs[k].start <= segs[k].end /\ segs[k].end <= m
        /\ \A j, k \in 1..n : j < k => segs[j].end < segs[k].start
        /\ \A d \in 1..m : \E k \in 1..n : segs[k].start <= d /\ d <= segs[k].end
        /\ segs[n].end = m
    BY <1>1, NotEmpty DEF Chain
  <1>5. /\ \A k \in 1..n : k # n => w[k] = segs[k]
        /\ \A k \in 1..n : w[k].start = segs[k].start /\ segs[k].end <= w[k].end /\ w[k].end \in Nat
    <2>1. \A k \in 1..n : k # n => k \in 1..(n - 1) BY <1>1
    <2>2. \A k \in 1..n : k # n => w[k] = segs[k] BY <2>1
    <2>3. w[n].start = segs[n].start /\ segs[n].end <= w[n].end BY <1>4
    <2>4. \A k \in 1..n : w[k].end \in Nat BY <1>1, RunFields
    <2>. HIDE DEF n
    <2>5. ASSUME NEW k \in 1..n PROVE w[k].start = segs[k].start /\ segs[k].end <= w[k].end
      <3>1. segs[k].end \in Nat BY <1>2
      <3>2. CASE k = n BY <2>3, <3>2
      <3>3. CASE k # n BY <2>2, <3>1, <3>3
      <3>. QED BY <3>2, <3>3
    <2>. QED BY <2>2, <2>4, <2>5
  <1>6. m <= h OBVIOUS
  <1>7. w # <<>> BY <1>1, NotEmpty
  <1>. HIDE DEF n
  <1>8. h # 0 BY <1>1, <1>3, <1>4, <1>2, <1>6
  <1>9. ASSUME NEW k \in 1..n
        PROVE  1 <= w[k].start /\ w[k].start <= w[k].end /\ w[k].end <= h
    <2>1. CASE k = n BY <1>2, <1>3, <1>4, <1>5, <2>1
    <2>2. CASE k # n BY <1>2, <1>3, <1>4, <1>5, <1>6, <2>2, SMTT(40)
    <2>. QED BY <2>1, <2>2
  <1>10. ASSUME NEW j \in 1..n, NEW k \in 1..n, j < k PROVE w[j].end < w[k].start
    <2>1. j # n BY <1>1, <1>10
    <2>. QED BY <1>4, <1>5, <1>10, <2>1
  <1>11. ASSUME NEW d \in 1..h PROVE \E k \in 1..n : w[k].start <= d /\ d <= w[k].end
    <2>1. CASE d <= m
      <3>1. PICK k \in 1..n : segs[k].start <= d /\ d <= segs[k].end BY <1>4, <2>1
      <3>2. w[k].start <= d /\ d <= w[k].end BY <1>2, <1>5, <3>1
      <3>. QED BY <3>2
    <2>2. CASE d > m
      <3>1. segs[n].start <= m BY <1>3, <1>4
      <3>2. w[n].start <= d /\ d <= w[n].end BY <1>2, <1>3, <1>5, <2>2, <3>1
      <3>. QED BY <1>3, <3>2
    <2>. QED BY <2>1, <2>2
  <1>12. Chain(w, h) BY <1>1, <1>7, <1>8, <1>9, <1>10, <1>11 DEF Chain
  <1>. QED BY <1>12 DEF n

\* A segment starts the day after the one before it ended.
LEMMA ChainNext ==
  ASSUME NEW segs \in Seq(Run), NEW m \in Nat, Chain(segs, m), NEW k \in 1..Len(segs)
  PROVE  /\ k = 1 => segs[k].start = 1
         /\ k > 1 => segs[k].start = segs[k - 1].end + 1
         /\ segs[k].start <= segs[k].end
  <1>. DEFINE n == Len(segs)
  <1>1. n \in Nat /\ \A i \in 1..n : segs[i].start \in Nat /\ segs[i].end \in Nat BY RunFields
  <1>2. /\ \A i \in 1..n : 1 <= segs[i].start /\ segs[i].start <= segs[i].end /\ segs[i].end <= m
        /\ \A i, j \in 1..n : i < j => segs[i].end < segs[j].start
        /\ \A d \in 1..m : \E i \in 1..n : segs[i].start <= d /\ d <= segs[i].end
    BY DEF Chain
  <1>3. k \in 1..n OBVIOUS
  <1>. HIDE DEF n
  <1>4. ASSUME k = 1 PROVE segs[k].start = 1
    <2>1. 1 \in 1..m BY <1>1, <1>2, <1>3
    <2>2. PICK i \in 1..n : segs[i].start <= 1 /\ 1 <= segs[i].end BY <1>2, <2>1
    <2>3. CASE i = k BY <1>1, <1>2, <2>2, <2>3
    <2>4. CASE i # k
      <3>1. segs[k].end < segs[i].start BY <1>2, <1>3, <1>4, <2>4
      <3>. QED BY <1>1, <1>2, <1>3, <2>2, <3>1
    <2>. QED BY <2>3, <2>4
  <1>5. ASSUME k > 1 PROVE segs[k].start = segs[k - 1].end + 1
    <2>. DEFINE d == segs[k - 1].end + 1
    <2>1. k - 1 \in 1..n /\ k - 1 < k BY <1>1, <1>3, <1>5
    <2>2. segs[k - 1].end < segs[k].start BY <1>2, <1>3, <2>1
    <2>3. d \in 1..m BY <1>1, <1>2, <1>3, <2>1, <2>2, SMTT(40)
    <2>4. PICK i \in 1..n : segs[i].start <= d /\ d <= segs[i].end BY <1>2, <2>3
    <2>5. CASE i = k BY <1>1, <1>3, <2>1, <2>2, <2>4, <2>5
    <2>6. CASE i > k
      <3>1. segs[k].end < segs[i].start BY <1>2, <1>3, <2>6
      <3>. QED BY <1>1, <1>2, <1>3, <2>1, <2>2, <2>4, <3>1, SMTT(40)
    <2>7. CASE i < k
      <3>1. CASE i = k - 1 BY <1>1, <2>1, <2>4, <3>1
      <3>2. CASE i # k - 1
        <4>1. i < k - 1 BY <1>3, <2>7, <3>2
        <4>2. segs[i].end < segs[k - 1].start BY <1>2, <2>1, <4>1
        <4>. QED BY <1>1, <1>2, <2>1, <2>4, <4>2, SMTT(40)
      <3>. QED BY <3>1, <3>2
    <2>. QED BY <1>3, <2>5, <2>6, <2>7
  <1>. QED BY <1>2, <1>3, <1>4, <1>5
LEMMA GrownType ==
  ASSUME NEW segs \in Seq(Run), NEW i \in Nat, NEW x \in Fusing
  PROVE  /\ Grown(segs, i, x) \in Seq(Run)
         /\ Grown(segs, i, x) # <<>>
         /\ Grown(segs, i, x)[Len(Grown(segs, i, x))].state = x.state
         /\ Len(segs) = 0 \/ segs[Len(segs)].state # x.state =>
              Grown(segs, i, x) = Append(segs, [state |-> x.state, start |-> i, end |-> i, sum |-> x.conf])
         /\ Len(segs) > 0 /\ segs[Len(segs)].state = x.state =>
              /\ Len(Grown(segs, i, x)) = Len(segs)
              /\ Grown(segs, i, x)[Len(segs)].start = segs[Len(segs)].start
              /\ Grown(segs, i, x)[Len(segs)].end = i
              /\ \A k \in 1..(Len(segs) - 1) : Grown(segs, i, x)[k] = segs[k]
  <1>. DEFINE n == Len(segs)
              r == [state |-> x.state, start |-> i, end |-> i, sum |-> x.conf]
              y == [segs[n] EXCEPT !.end = i, !.sum = @ + x.conf]
  <1>1. n \in Nat /\ x.state \in Regimes /\ x.conf \in Nat BY DEF Fusing
  <1>2. CASE n > 0 /\ segs[n].state = x.state
    <2>1. n \in 1..n /\ segs[n] \in Run BY <1>1, <1>2
    <2>2. y \in Run /\ y.start = segs[n].start /\ y.end = i /\ y.state = x.state
      <3>. DEFINE q == segs[n]
      <3>1. q \in Run /\ q.state = x.state BY <1>2, <2>1
      <3>. HIDE DEF q
      <3>2. q.sum + x.conf \in Nat BY <1>1, <3>1 DEF Run
      <3>3. [q EXCEPT !.end = i, !.sum = @ + x.conf] = [q EXCEPT !.end = i, !.sum = q.sum + x.conf]
        BY <3>1 DEF Run
      <3>4. /\ [q EXCEPT !.end = i, !.sum = q.sum + x.conf] \in Run
            /\ [q EXCEPT !.end = i, !.sum = q.sum + x.conf].start = q.start
            /\ [q EXCEPT !.end = i, !.sum = q.sum + x.conf].end = i
            /\ [q EXCEPT !.end = i, !.sum = q.sum + x.conf].state = q.state
        BY <3>1, <3>2 DEF Run
      <3>. QED BY <3>1, <3>3, <3>4 DEF q
    <2>. DEFINE w == [segs EXCEPT ![n] = y]
    <2>3. Grown(segs, i, x) = w BY <1>2, Zenon DEF Grown
    <2>. HIDE DEF y
    <2>4. w \in Seq(Run) /\ Len(w) = n /\ w[n] = y /\ \A k \in 1..(n - 1) : w[k] = segs[k]
      BY <2>1, <2>2
    <2>. HIDE DEF w
    <2>5. w # <<>> BY <1>2, <2>4, NotEmpty
    <2>. QED BY <1>2, <2>2, <2>3, <2>4, <2>5
  <1>3. CASE ~(n > 0 /\ segs[n].state = x.state)
    <2>1. Grown(segs, i, x) = Append(segs, r) BY <1>3 DEF Grown
    <2>2. r \in Run /\ r.state = x.state BY <1>1 DEF Run
    <2>. HIDE DEF r
    <2>3. Append(segs, r) \in Seq(Run) /\ Len(Append(segs, r)) = n + 1 /\ Append(segs, r)[n + 1] = r
      BY <2>2
    <2>4. Append(segs, r) # <<>> BY <1>1, <2>3, NotEmpty
    <2>. QED BY <1>3, <2>1, <2>2, <2>3, <2>4 DEF r
  <1>. QED BY <1>2, <1>3

LEMMA GrownState ==
  ASSUME NEW segs \in Seq(Run), NEW i \in Nat, NEW x \in Fusing
  PROVE  Grown(segs, i, x) # <<>> /\ Grown(segs, i, x)[Len(Grown(segs, i, x))].state = x.state
  BY GrownType

LEMMA GrownAppend ==
  ASSUME NEW segs \in Seq(Run), NEW i \in Nat, NEW x \in Fusing, segs[Len(segs)].state # x.state
  PROVE  Grown(segs, i, x) = Append(segs, [state |-> x.state, start |-> i, end |-> i, sum |-> x.conf])
  BY GrownType

LEMMA GrownExtend ==
  ASSUME NEW segs \in Seq(Run), NEW i \in Nat, NEW x \in Fusing,
         Len(segs) > 0, segs[Len(segs)].state = x.state
  PROVE  /\ Len(Grown(segs, i, x)) = Len(segs)
         /\ \A k \in 1..(Len(segs) - 1) : Grown(segs, i, x)[k] = segs[k]
  BY GrownType

LEMMA GrownChain ==
  ASSUME NEW segs \in Seq(Run), NEW i \in Nat, i > 0, NEW x \in Fusing, Chain(segs, i - 1)
  PROVE  Chain(Grown(segs, i, x), i)
  <1>. DEFINE n == Len(segs)  w == Grown(segs, i, x)
              r == [state |-> x.state, start |-> i, end |-> i, sum |-> x.conf]
  <1>1. n \in Nat /\ i - 1 \in Nat OBVIOUS
  <1>2. w \in Seq(Run) BY GrownType
  <1>3. CASE n > 0 /\ segs[n].state = x.state
    <2>1. /\ Len(w) = n /\ w[n].start = segs[n].start /\ w[n].end = i
          /\ \A k \in 1..(n - 1) : w[k] = segs[k]
      BY <1>3, GrownType
    <2>. HIDE DEF w
    <2>2. i - 1 <= w[n].end BY <2>1
    <2>. DEFINE m == i - 1
    <2>3. m \in Nat /\ Chain(segs, m) /\ m <= w[n].end BY <1>1, <2>2
    <2>. HIDE DEF m, n
    <2>4. Chain(w, w[Len(segs)].end)
      BY <1>2, <1>3, <2>1, <2>3, ChainExtend DEF n
    <2>5. Chain(w, w[n].end) BY <2>4 DEF n
    <2>. QED BY <2>1, <2>5 DEF w
  <1>4. CASE ~(n > 0 /\ segs[n].state = x.state)
    <2>1. w = Append(segs, r) BY <1>1, <1>4, GrownType
    <2>2. r \in Run /\ r.start = (i - 1) + 1 /\ r.start <= r.end /\ r.end = i BY DEF Run, Fusing
    <2>. HIDE DEF r, w
    <2>3. Chain(Append(segs, r), r.end) BY <1>1, <2>2, ChainAppend
    <2>. QED BY <2>1, <2>2, <2>3 DEF w
  <1>. QED BY <1>3, <1>4
-----------------------------------------------------------------------------
(* The two loops of buildSegments.                                           *)

\* The runs of the days 1..i, for every i.
RunsLoop(fused) ==
  CHOOSE runs : runs = [i \in 0..Len(fused) |-> IF i = 0 THEN <<>> ELSE Grown(runs[i - 1], i, fused[i])]

LEMMA RunsTurn ==
  ASSUME NEW n \in Nat, NEW fused \in [1..n -> Fusing]
  PROVE  /\ Runs(fused) = RunsLoop(fused)[n]
         /\ RunsLoop(fused)[0] = <<>>
         /\ \A i \in 1..n : RunsLoop(fused)[i] = Grown(RunsLoop(fused)[i - 1], i, fused[i])
         /\ \A i \in 0..n : RunsLoop(fused)[i] \in Seq(Run) /\ Chain(RunsLoop(fused)[i], i)
  <1>. DEFINE Lo(f) == f = [i \in 0..n |-> IF i = 0 THEN <<>> ELSE Grown(f[i - 1], i, fused[i])]
              G == [i \in 1..n |-> [v \in Seq(Run) |-> Grown(v, i, fused[i])]]
              loop == CHOOSE f : Lo(f)
  <1>1. \A i \in 1..n : i \in Nat /\ i > 0 /\ fused[i] \in Fusing OBVIOUS
  <1>2. \A i \in 1..n : \A v \in Seq(Run) : Grown(v, i, fused[i]) \in Seq(Run) BY <1>1, GrownType
  <1>3. Turning(n, Seq(Run), G) BY <1>2 DEF Turning
  <1>4. <<>> \in Seq(Run) OBVIOUS
  <1>5. PICK f : RunOf(n, Seq(Run), <<>>, G, f)
    <2>. HIDE DEF G
    <2>. QED BY <1>3, <1>4, LoopExists
  <1>6. \A i \in 1..n : f[i - 1] \in Seq(Run) BY <1>5 DEF RunOf
  <1>7. \A i \in 1..n : f[i] = Grown(f[i - 1], i, fused[i]) BY <1>5, <1>6 DEF RunOf
  <1>8. f[0] = <<>> /\ f = [i \in 0..n |-> f[i]] BY <1>5 DEF RunOf
  <1>9. Lo(f)
    <2>1. \A i \in 0..n : f[i] = IF i = 0 THEN <<>> ELSE Grown(f[i - 1], i, fused[i])
      BY <1>7, <1>8
    <2>. QED BY <1>8, <2>1
  <1>10. Lo(loop)
    <2>. HIDE DEF Lo
    <2>. QED BY <1>9
  <1>11. Len(fused) = n BY AsTuple
  <1>12. RunsLoop(fused) = loop BY <1>11 DEF RunsLoop
  <1>13. Runs(fused) = loop[n] BY <1>11 DEF Runs
  <1>. HIDE DEF loop
  <1>14. loop[0] = <<>> /\ \A i \in 1..n : loop[i] = Grown(loop[i - 1], i, fused[i]) BY <1>10
  <1>. DEFINE T == {i \in 0..n : loop[i] \in Seq(Run) /\ Chain(loop[i], i)}
  <1>15. 0 \in T
    <2>1. Len(<<>>) = 0 /\ 1..0 = {} OBVIOUS
    <2>2. Chain(<<>>, 0) BY <2>1 DEF Chain
    <2>3. 0 \in 0..n /\ loop[0] = <<>> BY <1>14
    <2>4. loop[0] \in Seq(Run) /\ Chain(loop[0], 0) BY <1>4, <2>2, <2>3
    <2>. QED BY <2>3, <2>4
  <1>16. ASSUME NEW i \in (0 + 1)..n, i - 1 \in T PROVE i \in T
    <2>1. i \in 1..n /\ i \in 0..n OBVIOUS
    <2>2. loop[i - 1] \in Seq(Run) /\ Chain(loop[i - 1], i - 1) BY <1>16
    <2>3. loop[i] = Grown(loop[i - 1], i, fused[i]) BY <1>14, <2>1
    <2>4. i \in Nat /\ i > 0 /\ fused[i] \in Fusing BY <1>1, <2>1
    <2>5. Grown(loop[i - 1], i, fused[i]) \in Seq(Run) BY <2>2, <2>4, GrownType
    <2>6. Chain(Grown(loop[i - 1], i, fused[i]), i) BY <2>2, <2>4, GrownChain
    <2>. QED BY <2>1, <2>3, <2>5, <2>6
  <1>. HIDE DEF T
  <1>17. \A i \in 0..n : i \in T BY <1>15, <1>16, Climb
  <1>. QED BY <1>12, <1>13, <1>14, <1>17 DEF T
LEMMA RunsStay ==
  ASSUME NEW n \in Nat, NEW fused \in [1..n -> Fusing], NEW e \in 1..n, e + 1 \in 1..n,
         fused[e].state # fused[e + 1].state
  PROVE  \A i \in (e + 1)..n :
           /\ Len(RunsLoop(fused)[e]) < Len(RunsLoop(fused)[i])
           /\ \A k \in 1..Len(RunsLoop(fused)[e]) : RunsLoop(fused)[i][k] = RunsLoop(fused)[e][k]
  <1>. DEFINE f == RunsLoop(fused)  h == f[e]  K == Len(h)
              T == {i \in (e + 1)..n : K < Len(f[i]) /\ \A k \in 1..K : f[i][k] = h[k]}
  <1>1. /\ \A i \in 1..n : f[i] = Grown(f[i - 1], i, fused[i])
        /\ \A i \in 0..n : f[i] \in Seq(Run)
    BY RunsTurn
  <1>2. \A i \in 1..n : i \in Nat /\ i \in 0..n /\ i - 1 \in 0..n /\ fused[i] \in Fusing OBVIOUS
  <1>3. h \in Seq(Run) /\ K \in Nat /\ K > 0 /\ h[K].state = fused[e].state
    <2>1. h = Grown(f[e - 1], e, fused[e]) /\ h \in Seq(Run) /\ f[e - 1] \in Seq(Run) BY <1>1, <1>2
    <2>2. h # <<>> /\ h[Len(h)].state = fused[e].state
      <3>1. e \in Nat /\ fused[e] \in Fusing BY <1>2
      <3>. DEFINE v == f[e - 1]  x == fused[e]
      <3>2. h = Grown(v, e, x) /\ v \in Seq(Run) BY <2>1
      <3>. HIDE DEF h, v, x
      <3>. QED BY <3>1, <3>2, GrownState DEF x
    <2>. HIDE DEF h
    <2>. QED BY <2>1, <2>2, NotEmpty
  <1>4. e + 1 \in T
    <2>. DEFINE x == fused[e + 1]
                r == [state |-> x.state, start |-> e + 1, end |-> e + 1, sum |-> x.conf]
    <2>1. (e + 1) - 1 = e /\ e + 1 \in Nat /\ x \in Fusing BY <1>2
    <2>2. f[e + 1] = Grown(h, e + 1, x) BY <1>1, <2>1
    <2>3. h[Len(h)].state # x.state BY <1>3
    <2>4. f[e + 1] = Append(h, r)
      <3>. HIDE DEF f, h, x
      <3>. QED BY <1>3, <2>1, <2>2, <2>3, GrownType
    <2>. HIDE DEF f, h, r
    <2>5. Len(f[e + 1]) = K + 1 /\ \A k \in 1..K : f[e + 1][k] = h[k] BY <1>3, <2>4
    <2>6. K < K + 1 /\ e + 1 \in (e + 1)..n BY <1>3
    <2>. HIDE DEF K
    <2>. QED BY <2>5, <2>6
  <1>5. ASSUME NEW i \in ((e + 1) + 1)..n, i - 1 \in T PROVE i \in T
    <2>. DEFINE v == f[i - 1]  w == f[i]
    <2>1. i \in 1..n /\ i \in (e + 1)..n OBVIOUS
    <2>2. v \in Seq(Run) /\ w \in Seq(Run) /\ w = Grown(v, i, fused[i]) /\ i \in Nat /\ fused[i] \in Fusing
      BY <1>1, <1>2, <2>1
    <2>3. Len(v) \in Nat /\ K < Len(v) /\ \A k \in 1..K : v[k] = h[k] BY <1>5, <2>2
    <2>. HIDE DEF f, h, v, w, K
    <2>4. K < Len(w) /\ \A k \in 1..K : w[k] = v[k]
      <3>1. CASE v[Len(v)].state = fused[i].state
        <4>1. Len(w) = Len(v) /\ \A k \in 1..(Len(v) - 1) : w[k] = v[k]
          <5>1. Len(v) > 0 BY <1>3, <2>3
          <5>. QED BY <2>2, <3>1, <5>1, GrownExtend
        <4>. QED BY <1>3, <2>3, <4>1
      <3>2. CASE v[Len(v)].state # fused[i].state
        <4>. DEFINE r == [state |-> fused[i].state, start |-> i, end |-> i, sum |-> fused[i].conf]
        <4>1. w = Append(v, r) BY <2>2, <3>2, GrownAppend
        <4>. HIDE DEF r
        <4>2. Len(w) = Len(v) + 1 /\ \A k \in 1..Len(v) : w[k] = v[k] BY <2>2, <4>1
        <4>. QED BY <1>3, <2>3, <4>2
      <3>. QED BY <3>1, <3>2
    <2>5. K < Len(w) /\ \A k \in 1..K : w[k] = h[k] BY <2>3, <2>4
    <2>. QED BY <2>1, <2>5 DEF w
  <1>6. e + 1 \in Nat /\ n \in Nat OBVIOUS
  <1>. HIDE DEF T
  <1>7. \A i \in (e + 1)..n : i \in T BY <1>4, <1>5, <1>6, Climb
  <1>. QED BY <1>7 DEF T

\* "h" is how "segs" begins.
Begins(h, segs) == Len(h) <= Len(segs) /\ \A k \in 1..Len(h) : segs[k] = h[k]

\* A run that ended stays, and all before it.
LEMMA RunsFinal ==
  ASSUME NEW n \in Nat, NEW s \in [1..n -> Fusing], NEW m \in Nat, NEW t \in [1..m -> Fusing],
         n <= m, NEW e \in Nat, e > 0, e < n, \A i \in 1..(e + 1) : t[i] = s[i],
         s[e].state # s[e + 1].state
  PROVE  \E h \in Seq(Run) : Chain(h, e) /\ Begins(h, Runs(s)) /\ Begins(h, Runs(t))
  <1>. DEFINE f == RunsLoop(s)  g == RunsLoop(t)  h == f[e]
  <1>1. /\ \A i \in 1..n : f[i] = Grown(f[i - 1], i, s[i])
        /\ f[0] = <<>> /\ Runs(s) = f[n]
        /\ \A i \in 0..n : f[i] \in Seq(Run) /\ Chain(f[i], i)
    BY RunsTurn
  <1>2. /\ \A i \in 1..m : g[i] = Grown(g[i - 1], i, t[i])
        /\ g[0] = <<>> /\ Runs(t) = g[m]
        /\ \A i \in 0..m : g[i] \in Seq(Run) /\ Chain(g[i], i)
    BY RunsTurn
  <1>3. /\ e \in 1..n /\ e + 1 \in 1..n /\ e \in 1..m /\ e + 1 \in 1..m
        /\ n \in (e + 1)..n /\ m \in (e + 1)..m /\ e \in 0..n /\ e \in 0..e
    OBVIOUS
  <1>4. \A i \in 0..e : f[i] = g[i]
    <2>1. ASSUME NEW i \in 1..e, f[i - 1] = g[i - 1] PROVE f[i] = g[i]
      <3>1. i \in 1..n /\ i \in 1..m /\ i \in 1..(e + 1) BY <1>3
      <3>. QED BY <1>1, <1>2, <2>1, <3>1
    <2>2. f[0] = g[0] BY <1>1, <1>2
    <2>. HIDE DEF f, g
    <2>3. SameTurns(e, f, g) BY <2>1 DEF SameTurns
    <2>4. SameUpto(e, f, g) BY <2>2, <2>3, LoopsAgree
    <2>. QED BY <2>4 DEF SameUpto
  <1>5. t[e] = s[e] /\ t[e + 1] = s[e + 1] BY <1>3
  <1>. HIDE DEF h
  <1>6. h \in Seq(Run) /\ Chain(h, e) BY <1>1, <1>3 DEF h
  <1>7. Len(h) \in Nat /\ Len(f[n]) \in Nat /\ Len(g[m]) \in Nat
    <2>1. f[n] \in Seq(Run) /\ g[m] \in Seq(Run) BY <1>1, <1>2
    <2>. HIDE DEF f, g
    <2>. QED BY <1>6, <2>1
  <1>8. Begins(h, f[n])
    <2>1. Len(h) < Len(f[n]) /\ \A k \in 1..Len(h) : f[n][k] = h[k]
      BY <1>3, RunsStay DEF h
    <2>. QED BY <1>7, <2>1 DEF Begins
  <1>9. Begins(h, g[m])
    <2>1. g[e] = h BY <1>3, <1>4 DEF h
    <2>2. t[e].state # t[e + 1].state BY <1>5
    <2>3. Len(g[e]) < Len(g[m]) /\ \A k \in 1..Len(g[e]) : g[m][k] = g[e][k]
      BY <1>3, <2>2, RunsStay
    <2>. QED BY <1>7, <2>1, <2>3 DEF Begins
  <1>. QED BY <1>1, <1>2, <1>6, <1>8, <1>9
LEMMA JoinedAppend ==
  ASSUME NEW segs \in Seq(Run), NEW r \in Run,
         Len(segs) = 0 \/ ~(Absorbed(r) \/ segs[Len(segs)].state = r.state)
  PROVE  Joined(segs, r) = Append(segs, r)
  <1>1. CASE Len(segs) = 0
    <2>1. segs = <<>> BY <1>1, NotEmpty
    <2>2. Append(segs, r) = <<r>> BY <2>1
    <2>. QED BY <1>1, <2>2 DEF Joined
  <1>2. CASE Len(segs) # 0 BY <1>2 DEF Joined
  <1>. QED BY <1>1, <1>2

LEMMA JoinedExtend ==
  ASSUME NEW segs \in Seq(Run), NEW r \in Run,
         Len(segs) > 0, Absorbed(r) \/ segs[Len(segs)].state = r.state
  PROVE  /\ Joined(segs, r) \in Seq(Run)
         /\ Len(Joined(segs, r)) = Len(segs)
         /\ \A k \in 1..(Len(segs) - 1) : Joined(segs, r)[k] = segs[k]
         /\ Joined(segs, r)[Len(segs)].state = segs[Len(segs)].state
         /\ Joined(segs, r)[Len(segs)].start = segs[Len(segs)].start
         /\ Joined(segs, r)[Len(segs)].end = r.end
  <1>. DEFINE n == Len(segs)  q == segs[n]  y == [q EXCEPT !.end = r.end]  w == [segs EXCEPT ![n] = y]
  <1>1. n \in Nat /\ n \in 1..n /\ q \in Run /\ r.end \in Nat
    <2>1. n \in 1..n OBVIOUS
    <2>2. r.end \in Nat BY DEF Run
    <2>. QED BY <2>1, <2>2
  <1>2. Joined(segs, r) = w
    <2>1. ~(Len(segs) = 0) OBVIOUS
    <2>. QED BY <2>1, Zenon DEF Joined
  <1>3. y \in Run /\ y.state = q.state /\ y.start = q.start /\ y.end = r.end
    <2>. HIDE DEF q
    <2>. QED BY <1>1 DEF Run
  <1>. HIDE DEF y
  <1>4. w \in Seq(Run) /\ Len(w) = n /\ w[n] = y /\ \A k \in 1..(n - 1) : w[k] = segs[k]
    BY <1>1, <1>3
  <1>. HIDE DEF w
  <1>. QED BY <1>2, <1>3, <1>4

LEMMA JoinedType ==
  ASSUME NEW segs \in Seq(Run), NEW r \in Run
  PROVE  Joined(segs, r) \in Seq(Run)
  <1>1. CASE Len(segs) = 0 \/ ~(Absorbed(r) \/ segs[Len(segs)].state = r.state)
    <2>1. Append(segs, r) \in Seq(Run) OBVIOUS
    <2>. QED BY <1>1, <2>1, JoinedAppend
  <1>2. CASE ~(Len(segs) = 0 \/ ~(Absorbed(r) \/ segs[Len(segs)].state = r.state))
    BY <1>2, JoinedExtend, NotEmpty
  <1>. QED BY <1>1, <1>2

LEMMA JoinedChain ==
  ASSUME NEW segs \in Seq(Run), NEW m \in Nat, Chain(segs, m),
         NEW r \in Run, r.start = m + 1, r.start <= r.end
  PROVE  Chain(Joined(segs, r), r.end)
  <1>1. CASE Len(segs) = 0 \/ ~(Absorbed(r) \/ segs[Len(segs)].state = r.state)
    BY <1>1, JoinedAppend, ChainAppend
  <1>2. CASE ~(Len(segs) = 0 \/ ~(Absorbed(r) \/ segs[Len(segs)].state = r.state))
    <2>. DEFINE n == Len(segs)  w == Joined(segs, r)
    <2>1. n > 0 /\ (Absorbed(r) \/ segs[n].state = r.state) BY <1>2, NotEmpty
    <2>2. /\ w \in Seq(Run) /\ Len(w) = n /\ w[n].start = segs[n].start /\ w[n].end = r.end
          /\ \A k \in 1..(n - 1) : w[k] = segs[k]
      BY <2>1, JoinedExtend
    <2>3. m <= r.end BY DEF Run
    <2>. HIDE DEF w
    <2>4. Chain(w, w[Len(segs)].end) BY <2>1, <2>2, <2>3, ChainExtend
    <2>. QED BY <2>2, <2>4 DEF w
  <1>. QED BY <1>1, <1>2

\* From "old" to "new" every segment kept its state and its start.
Goes(old, new) ==
  /\ Len(old) <= Len(new)
  /\ \A k \in 1..Len(old) : /\ new[k].state = old[k].state /\ new[k].start = old[k].start
                            /\ old[k].end <= new[k].end

LEMMA JoinedGoes ==
  ASSUME NEW old \in Seq(Run), NEW segs \in Seq(Run), NEW m \in Nat, Chain(segs, m),
         NEW r \in Run, m <= r.end, Goes(old, segs)
  PROVE  Goes(old, Joined(segs, r))
  <1>. DEFINE n == Len(segs)  w == Joined(segs, r)  K == Len(old)
  <1>1. n \in Nat /\ K \in Nat /\ K <= n BY DEF Goes
  <1>2. \A k \in 1..K : /\ segs[k].state = old[k].state /\ segs[k].start = old[k].start
                        /\ old[k].end <= segs[k].end /\ old[k].end \in Nat
    BY RunFields DEF Goes
  <1>3. CASE n = 0 \/ ~(Absorbed(r) \/ segs[n].state = r.state)
    <2>1. w = Append(segs, r) BY <1>3, JoinedAppend
    <2>2. Len(w) = n + 1 /\ \A k \in 1..n : w[k] = segs[k] BY <2>1
    <2>. HIDE DEF w, n
    <2>3. \A k \in 1..K : w[k] = segs[k] BY <1>1, <2>2
    <2>4. K <= Len(w) BY <1>1, <2>2
    <2>. QED BY <1>2, <2>3, <2>4 DEF Goes, w
  <1>4. CASE ~(n = 0 \/ ~(Absorbed(r) \/ segs[n].state = r.state))
    <2>1. n > 0 /\ (Absorbed(r) \/ segs[n].state = r.state) BY <1>4, NotEmpty
    <2>2. /\ Len(w) = n /\ w[n].state = segs[n].state /\ w[n].start = segs[n].start
          /\ w[n].end = r.end /\ \A k \in 1..(n - 1) : w[k] = segs[k]
      BY <2>1, JoinedExtend
    <2>3. segs[n].end <= m /\ segs[n].end \in Nat /\ r.end \in Nat
      <3>1. n \in 1..n BY <2>1
      <3>2. r.end \in Nat BY DEF Run
      <3>. QED BY <3>1, <3>2, RunFields DEF Chain
    <2>. HIDE DEF w, n
    <2>4. ASSUME NEW k \in 1..K
          PROVE  /\ w[k].state = old[k].state /\ w[k].start = old[k].start
                 /\ old[k].end <= w[k].end
      <3>1. CASE k = n
        <4>1. old[k].end <= segs[n].end /\ old[k].end \in Nat BY <1>2, <3>1
        <4>2. old[k].end <= r.end BY <2>3, <4>1
        <4>. QED BY <1>2, <2>2, <3>1, <4>2
      <3>2. CASE k # n
        <4>1. k \in 1..(n - 1) BY <1>1, <3>2
        <4>. QED BY <1>2, <2>2, <4>1
      <3>. QED BY <3>1, <3>2
    <2>5. K <= Len(w) BY <1>1, <2>2
    <2>. QED BY <2>4, <2>5 DEF Goes, w
  <1>. QED BY <1>3, <1>4

\* A day is in one segment only.
LEMMA RegimeIs ==
  ASSUME NEW segs \in Seq(Run), NEW m \in Nat, Chain(segs, m), NEW k \in 1..Len(segs),
         NEW d \in Nat, segs[k].start <= d, d <= segs[k].end
  PROVE  RegimeOn(segs, d) = segs[k].state
  <1>. DEFINE n == Len(segs)  In(i) == segs[i].start <= d /\ d <= segs[i].end
              c == CHOOSE i \in 1..n : In(i)
  <1>1. n \in Nat /\ \A i \in 1..n : segs[i].start \in Nat /\ segs[i].end \in Nat BY RunFields
  <1>2. \A i, j \in 1..n : i < j => segs[i].end < segs[j].start BY DEF Chain
  <1>3. c \in 1..n /\ In(c)
    <2>1. \E i \in 1..n : In(i) OBVIOUS
    <2>. HIDE DEF n, In
    <2>. QED BY <2>1
  <1>4. RegimeOn(segs, d) = segs[c].state BY DEF RegimeOn
  <1>5. c = k
    <2>1. k \in 1..n OBVIOUS
    <2>. HIDE DEF c, n
    <2>2. ~(c < k) BY <1>1, <1>2, <1>3, <2>1
    <2>3. ~(k < c) BY <1>1, <1>2, <1>3, <2>1
    <2>. QED BY <1>1, <1>3, <2>1, <2>2, <2>3
  <1>. QED BY <1>4, <1>5
\* The segments of the first k runs, for every k.
JoinsLoop(runs) ==
  CHOOSE segs : segs = [k \in 0..Len(runs) |-> IF k = 0 THEN <<>> ELSE Joined(segs[k - 1], runs[k])]

EndOf(runs, k) == IF k = 0 THEN 0 ELSE runs[k].end

LEMMA JoinsTurn ==
  ASSUME NEW runs \in Seq(Run), NEW m \in Nat, Chain(runs, m)
  PROVE  /\ JoinsLoop(runs)[0] = <<>>
         /\ \A k \in 1..Len(runs) : JoinsLoop(runs)[k] = Joined(JoinsLoop(runs)[k - 1], runs[k])
         /\ \A k \in 0..Len(runs) : /\ JoinsLoop(runs)[k] \in Seq(Run)
                                    /\ EndOf(runs, k) \in Nat
                                    /\ Chain(JoinsLoop(runs)[k], EndOf(runs, k))
  <1>. DEFINE n == Len(runs)
              Lo(f) == f = [k \in 0..n |-> IF k = 0 THEN <<>> ELSE Joined(f[k - 1], runs[k])]
              G == [k \in 1..n |-> [v \in Seq(Run) |-> Joined(v, runs[k])]]
              loop == CHOOSE f : Lo(f)
  <1>1. n \in Nat /\ \A k \in 1..n : runs[k] \in Run /\ runs[k].end \in Nat BY RunFields
  <1>2. <<>> \in Seq(Run) OBVIOUS
  <1>3. JoinsLoop(runs) = loop BY DEF JoinsLoop
  <1>4. \A k \in 1..n : /\ k = 1 => runs[k].start = 1
                        /\ k > 1 => runs[k].start = runs[k - 1].end + 1
                        /\ runs[k].start <= runs[k].end
    BY ChainNext
  <1>. HIDE DEF n
  <1>5. \A k \in 1..n : \A v \in Seq(Run) : Joined(v, runs[k]) \in Seq(Run) BY <1>1, JoinedType
  <1>6. Turning(n, Seq(Run), G) BY <1>5 DEF Turning
  <1>7. PICK f : RunOf(n, Seq(Run), <<>>, G, f)
    <2>. HIDE DEF G
    <2>. QED BY <1>1, <1>2, <1>6, LoopExists
  <1>8. \A k \in 1..n : f[k - 1] \in Seq(Run) BY <1>1, <1>7 DEF RunOf
  <1>9. \A k \in 1..n : f[k] = Joined(f[k - 1], runs[k]) BY <1>7, <1>8 DEF RunOf
  <1>10. f[0] = <<>> /\ f = [k \in 0..n |-> f[k]] BY <1>7 DEF RunOf
  <1>11. Lo(f)
    <2>1. ASSUME NEW k \in 0..n PROVE f[k] = IF k = 0 THEN <<>> ELSE Joined(f[k - 1], runs[k])
      <3>1. k # 0 => k \in 1..n BY <1>1
      <3>. QED BY <1>9, <1>10, <3>1
    <2>. QED BY <1>10, <2>1
  <1>12. Lo(loop)
    <2>. HIDE DEF Lo
    <2>. QED BY <1>11
  <1>. HIDE DEF loop
  <1>13. loop[0] = <<>> /\ \A k \in 1..n : loop[k] = Joined(loop[k - 1], runs[k]) BY <1>1, <1>12
  <1>. DEFINE T == {k \in 0..n : /\ loop[k] \in Seq(Run) /\ EndOf(runs, k) \in Nat
                                 /\ Chain(loop[k], EndOf(runs, k))}
  <1>14. 0 \in T
    <2>1. Len(<<>>) = 0 /\ 1..0 = {} OBVIOUS
    <2>2. Chain(<<>>, 0) BY <2>1 DEF Chain
    <2>3. 0 \in 0..n /\ loop[0] = <<>> /\ EndOf(runs, 0) = 0 BY <1>1, <1>13 DEF EndOf
    <2>4. loop[0] \in Seq(Run) /\ EndOf(runs, 0) \in Nat /\ Chain(loop[0], EndOf(runs, 0))
      BY <1>2, <2>2, <2>3
    <2>. QED BY <2>3, <2>4
  <1>15. ASSUME NEW k \in (0 + 1)..n, k - 1 \in T PROVE k \in T
    <2>. DEFINE v == loop[k - 1]  r == runs[k]  h == EndOf(runs, k - 1)
    <2>1. k \in 1..n /\ k \in 0..n BY <1>1
    <2>2. v \in Seq(Run) /\ h \in Nat /\ Chain(v, h) BY <1>15
    <2>3. loop[k] = Joined(v, r) /\ r \in Run BY <1>1, <1>13, <2>1
    <2>4. r.start = h + 1 /\ r.start <= r.end
      <3>1. CASE k = 1 BY <1>4, <2>1, <3>1 DEF EndOf
      <3>2. CASE k # 1 BY <1>4, <2>1, <3>2 DEF EndOf
      <3>. QED BY <3>1, <3>2
    <2>5. EndOf(runs, k) = r.end /\ r.end \in Nat BY <1>1, <2>1 DEF EndOf
    <2>. HIDE DEF v, r, h
    <2>6. Joined(v, r) \in Seq(Run) /\ Chain(Joined(v, r), r.end)
      BY <2>2, <2>3, <2>4, JoinedType, JoinedChain
    <2>. QED BY <2>1, <2>3, <2>5, <2>6
  <1>. HIDE DEF T
  <1>16. \A k \in 0..n : k \in T BY <1>1, <1>14, <1>15, Climb
  <1>17. \A k \in 0..n : /\ loop[k] \in Seq(Run) /\ EndOf(runs, k) \in Nat
                         /\ Chain(loop[k], EndOf(runs, k))
    BY <1>16 DEF T
  <1>. QED BY <1>3, <1>13, <1>17 DEF n

LEMMA JoinsGo ==
  ASSUME NEW runs \in Seq(Run), NEW m \in Nat, Chain(runs, m), NEW e \in 0..Len(runs)
  PROVE  Goes(JoinsLoop(runs)[e], JoinsLoop(runs)[Len(runs)])
  <1>. DEFINE n == Len(runs)  f == JoinsLoop(runs)  T == {k \in e..n : Goes(f[e], f[k])}
  <1>1. /\ \A k \in 1..n : f[k] = Joined(f[k - 1], runs[k])
        /\ \A k \in 0..n : f[k] \in Seq(Run) /\ EndOf(runs, k) \in Nat /\ Chain(f[k], EndOf(runs, k))
    BY JoinsTurn
  <1>2. n \in Nat /\ e \in Nat /\ e \in e..n /\ e \in 0..n /\ n \in e..n OBVIOUS
  <1>3. \A k \in 1..n : /\ runs[k] \in Run /\ runs[k].end \in Nat
                        /\ k > 1 => runs[k].start = runs[k - 1].end + 1
                        /\ runs[k].start <= runs[k].end
    BY RunFields, ChainNext
  <1>4. e \in T
    <2>1. f[e] \in Seq(Run) BY <1>1, <1>2
    <2>2. \A k \in 1..Len(f[e]) : f[e][k].end \in Nat BY <2>1, RunFields
    <2>3. Goes(f[e], f[e]) BY <2>1, <2>2 DEF Goes
    <2>. QED BY <1>2, <2>3
  <1>5. ASSUME NEW k \in (e + 1)..n, k - 1 \in T PROVE k \in T
    <2>. DEFINE old == f[e]  v == f[k - 1]  r == runs[k]  h == EndOf(runs, k - 1)
    <2>1. k \in 1..n /\ k \in e..n /\ k - 1 \in 0..n BY <1>2
    <2>2. Goes(old, v) BY <1>5
    <2>3. f[k] = Joined(v, r) /\ r \in Run /\ old \in Seq(Run) /\ v \in Seq(Run)
      BY <1>1, <1>2, <1>3, <2>1
    <2>4. h \in Nat /\ Chain(v, h) BY <1>1, <2>1
    <2>5. h <= r.end
      <3>1. CASE k = 1 BY <1>3, <2>1, <3>1 DEF EndOf
      <3>2. CASE k # 1
        <4>1. k > 1 /\ k - 1 \in 1..n BY <1>2, <2>1, <3>2
        <4>2. h = runs[k - 1].end BY <2>1, <3>2 DEF EndOf
        <4>3. r.start = runs[k - 1].end + 1 /\ r.start <= r.end /\ r.end \in Nat BY <1>3, <2>1, <4>1
        <4>. HIDE DEF h, r
        <4>. QED BY <2>4, <4>2, <4>3
      <3>. QED BY <3>1, <3>2
    <2>. HIDE DEF f, old, v, r, h
    <2>6. Goes(old, Joined(v, r)) BY <2>2, <2>3, <2>4, <2>5, JoinedGoes
    <2>7. Goes(f[e], f[k]) BY <2>3, <2>6 DEF old
    <2>. QED BY <2>1, <2>7
  <1>. HIDE DEF T
  <1>6. \A k \in e..n : k \in T BY <1>2, <1>4, <1>5, Climb
  <1>. QED BY <1>2, <1>6 DEF T

\* The regimes of the days of the first runs do not depend on the runs after them.
LEMMA SegmentsKeep ==
  ASSUME NEW h \in Seq(Run), NEW e \in Nat, Chain(h, e),
         NEW runs \in Seq(Run), NEW m \in Nat, Chain(runs, m), Begins(h, runs), NEW d \in 1..e
  PROVE  RegimeOn(JoinsLoop(runs)[Len(runs)], d) = RegimeOn(JoinsLoop(h)[Len(h)], d)
  <1>. DEFINE K == Len(h)  n == Len(runs)  f == JoinsLoop(runs)  g == JoinsLoop(h)
  <1>1. K \in Nat /\ n \in Nat /\ K <= n /\ \A k \in 1..K : runs[k] = h[k] BY DEF Begins
  <1>2. /\ f[0] = <<>> /\ \A k \in 1..n : f[k] = Joined(f[k - 1], runs[k])
        /\ \A k \in 0..n : f[k] \in Seq(Run) /\ EndOf(runs, k) \in Nat /\ Chain(f[k], EndOf(runs, k))
    BY JoinsTurn
  <1>3. /\ g[0] = <<>> /\ \A k \in 1..K : g[k] = Joined(g[k - 1], h[k])
        /\ \A k \in 0..K : g[k] \in Seq(Run) /\ EndOf(h, k) \in Nat /\ Chain(g[k], EndOf(h, k))
    BY JoinsTurn
  <1>4. e > 0 /\ h # <<>> /\ EndOf(h, K) = e
    <2>1. e > 0 /\ h # <<>> /\ h[K].end = e BY DEF Chain
    <2>2. K # 0 BY <2>1, NotEmpty
    <2>. QED BY <2>1, <2>2 DEF EndOf
  <1>5. Goes(f[K], f[n])
    <2>1. K \in 0..Len(runs) BY <1>1
    <2>. QED BY <2>1, JoinsGo
  <1>. HIDE DEF K, n, f, g
  <1>6. f[K] = g[K]
    <2>1. ASSUME NEW k \in 1..K, f[k - 1] = g[k - 1] PROVE f[k] = g[k]
      <3>1. k \in 1..n /\ runs[k] = h[k] BY <1>1
      <3>. QED BY <1>2, <1>3, <2>1, <3>1
    <2>2. SameTurns(K, f, g) BY <2>1 DEF SameTurns
    <2>3. f[0] = g[0] BY <1>2, <1>3
    <2>4. SameUpto(K, f, g) BY <1>1, <2>2, <2>3, LoopsAgree
    <2>. QED BY <1>1, <2>4 DEF SameUpto
  <1>7. K \in 0..K /\ n \in 0..n BY <1>1
  <1>8. g[K] \in Seq(Run) /\ Chain(g[K], e) BY <1>3, <1>4, <1>7
  <1>9. f[n] \in Seq(Run) /\ EndOf(runs, n) \in Nat /\ Chain(f[n], EndOf(runs, n)) BY <1>2, <1>7
  <1>10. PICK k \in 1..Len(g[K]) : g[K][k].start <= d /\ d <= g[K][k].end BY <1>8 DEF Chain
  <1>11. RegimeOn(g[K], d) = g[K][k].state
    <2>1. d \in Nat OBVIOUS
    <2>. QED BY <1>8, <1>10, <2>1, RegimeIs
  <1>12. RegimeOn(f[n], d) = f[n][k].state
    <2>. DEFINE S == g[K]  w == f[n]
    <2>1. Goes(S, w) BY <1>5, <1>6
    <2>. HIDE DEF S, w
    <2>2. Len(S) \in Nat /\ Len(w) \in Nat BY <1>8, <1>9 DEF S, w
    <2>3. k \in 1..Len(S) /\ k \in 1..Len(w) BY <1>10, <2>1, <2>2 DEF Goes, S
    <2>4. S[k].start \in Nat /\ S[k].end \in Nat /\ w[k].end \in Nat
      BY <1>8, <1>9, <2>3, RunFields DEF S, w
    <2>5. S[k].start <= d /\ d <= S[k].end BY <1>10 DEF S
    <2>6. w[k].start <= d /\ d <= w[k].end BY <2>1, <2>3, <2>4, <2>5 DEF Goes
    <2>7. RegimeOn(w, d) = w[k].state
      <3>1. d \in Nat OBVIOUS
      <3>. QED BY <1>9, <2>3, <2>6, <3>1, RegimeIs DEF w
    <2>. QED BY <2>7 DEF w
  <1>13. f[n][k].state = g[K][k].state BY <1>5, <1>6, <1>10 DEF Goes
  <1>14. RegimeOn(f[n], d) = RegimeOn(g[K], d) BY <1>11, <1>12, <1>13
  <1>. QED BY <1>14 DEF f, g, K, n
-----------------------------------------------------------------------------
(* The past is kept. *)

LEMMA SegmentsAre ==
  ASSUME NEW shown \in Seq(DayReading)
  PROVE  /\ Segments(shown) = JoinsLoop(Runs(FusedDays(shown)))[Len(Runs(FusedDays(shown)))]
         /\ Runs(FusedDays(shown)) \in Seq(Run) /\ Chain(Runs(FusedDays(shown)), Len(shown))
  <1>. DEFINE n == Len(shown)  s == FusedDays(shown)
  <1>1. n \in Nat /\ s \in [1..n -> Fusing] BY FusedType
  <1>2. Segments(shown) = JoinsLoop(Runs(s))[Len(Runs(s))] BY DEF Segments, JoinsLoop
  <1>. HIDE DEF s, n
  <1>3. n \in 0..n BY <1>1
  <1>4. Runs(s) \in Seq(Run) /\ Chain(Runs(s), n) BY <1>1, <1>3, RunsTurn
  <1>. QED BY <1>2, <1>4 DEF s, n

LEMMA DayKeepsPast ==
  ASSUME NEW before, NEW after, OneDayMore(before, after)
  PROVE  PastKept(before, after)
  <1>. DEFINE n == Len(before)  m == Settled(before)  s == FusedDays(before)  t == FusedDays(after)
  <1>1. /\ n \in Nat /\ n + 1 \in Nat /\ Len(after) = n + 1
        /\ before \in Seq(DayReading) /\ after \in Seq(DayReading)
    BY DEF OneDayMore
  <1>2. m \in Int /\ m <= n - 3 BY <1>1, SettledDays
  <1>3. s \in [1..n -> Fusing] /\ t \in [1..(n + 1) -> Fusing] BY <1>1, FusedType
  <1>4. \A i \in 1..m : t[i] = s[i] BY FusedAgree
  <1>5. /\ Segments(before) = JoinsLoop(Runs(s))[Len(Runs(s))]
        /\ Runs(s) \in Seq(Run) /\ Chain(Runs(s), n)
        /\ Segments(after) = JoinsLoop(Runs(t))[Len(Runs(t))]
        /\ Runs(t) \in Seq(Run) /\ Chain(Runs(t), n + 1)
    BY <1>1, SegmentsAre
  <1>. HIDE DEF n, m, s, t
  <1>6. ASSUME NEW d \in 1..(m - 1), NEW e \in d..(m - 1), s[e].state # s[e + 1].state
        PROVE  RegimeOn(Segments(before), d) = RegimeOn(Segments(after), d)
    <2>1. e \in Nat /\ e > 0 /\ e < n /\ n <= n + 1 /\ d \in 1..e BY <1>1, <1>2
    <2>2. \A i \in 1..(e + 1) : t[i] = s[i]
      <3>1. \A i \in 1..(e + 1) : i \in 1..m BY <1>2
      <3>. QED BY <1>4, <3>1
    <2>3. PICK h \in Seq(Run) : Chain(h, e) /\ Begins(h, Runs(s)) /\ Begins(h, Runs(t))
      BY <1>1, <1>3, <1>6, <2>1, <2>2, RunsFinal
    <2>4. RegimeOn(Segments(before), d) = RegimeOn(JoinsLoop(h)[Len(h)], d)
      BY <1>1, <1>5, <2>1, <2>3, SegmentsKeep
    <2>5. RegimeOn(Segments(after), d) = RegimeOn(JoinsLoop(h)[Len(h)], d)
      BY <1>1, <1>5, <2>1, <2>3, SegmentsKeep
    <2>. QED BY <2>4, <2>5
  <1>. QED BY <1>6 DEF PastKept, m, s
\* Whatever a new day shows, no day whose run ended among the settled days gets
\* another regime.
THEOREM PastStays == Spec => PastIsKept
  <1>1. ASSUME IInv, [Next]_vars PROVE days' # days => PastKept(days, days')
    <2>1. SUFFICES ASSUME days' # days PROVE PastKept(days, days') OBVIOUS
    <2>2. PICK b \in Bars : Bar(b) BY <1>1, <2>1 DEF Next, vars, Finish
    <2>3. TypeOK /\ days' = DaysWith(b) BY <1>1, <2>2 DEF IInv, Bar
    <2>4. days' = Append(days, b.day) BY <2>1, <2>3, DaysOf
    <2>5. days \in Seq(DayReading) /\ b.day \in DayReading BY <2>3, BarType DEF TypeOK
    <2>6. OneDayMore(days, Append(days, b.day)) BY <2>5 DEF OneDayMore
    <2>7. PastKept(days, Append(days, b.day)) BY <2>6, DayKeepsPast
    <2>. QED BY <2>4, <2>7
  <1>. QED BY <1>1, Holds, PTL DEF Spec, PastIsKept
=============================================================================
