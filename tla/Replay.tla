------------------------------- MODULE Replay -------------------------------
(***************************************************************************)
(* The replay of one profile (runProfileReplayInRange): the profiles of    *)
(* ReplayRouter, or the older loop of baseline, v3, v4 and v5, which holds *)
(* at most one long "tactical" position and, in v4, beside it a "core" leg *)
(* that is bought while the trend is on.  "book" and its operators are     *)
(* shared; what one leg made is book.net, the other core.pnl, and the net  *)
(* figure of the code is their sum.                                        *)
(***************************************************************************)
EXTENDS ReplayRouter

CONSTANTS
  OlderProfiles,   \* of {"v3", "v4"}; "v3" stands for all without a core leg
  TrendOn,         \* the readings on which evaluateTrendOnly holds
  CorePercent      \* CoreAllocationPct, cut to 0..90

\* evaluateTrendOnly asks for less than the signal of v4 (evalTrend).
ReadingsAgree ==
  TrendOn \subseteq Bars /\ \A b \in Bars : b.trendStop["long"] # 0 => b \in TrendOn

ASSUME ReplayAssumption ==
  OlderProfiles \subseteq {"v3", "v4"} /\ ReadingsAgree /\ CorePercent \in 0..90

VARIABLES
  core,    \* qty (0: inactive), entry, and what the leg has booked
  done,    \* the loop over the bars is over
  calm     \* bars since a run of losses, up to PauseBars

all == <<vars, core, done, calm>>

Core == [qty : Nat, entry : Nat, pnl : Int]
NoCore == [qty |-> 0, entry |-> 0, pnl |-> 0]

ReplayInit ==
  /\ profile \in Profiles \cup OlderProfiles
  /\ Start
  /\ core = NoCore /\ done = FALSE /\ calm = PauseBars

-----------------------------------------------------------------------------
(* One bar of the older loop. *)

CoreNotional == Part(RiskCapital, CorePercent)

\* tacticalCapital: v4 plans its positions with the rest of the capital.
Tactical == INSTANCE ReplayPosition WITH
  RiskAmount <- Part(RiskAmount, 100 - CorePercent),
  RiskCapital <- RiskCapital - CoreNotional

CoreWorth(c, at) == c.qty * (at - c.entry)

\* (mutant: what the leg made before is forgotten)
CoreForgets(b) ==
  IF profile # "v4" \/ (b \in TrendOn <=> core.qty > 0) THEN core
  ELSE IF b \in TrendOn
  THEN [NoCore EXCEPT !.qty = CoreNotional \div b.close, !.entry = b.close]
  ELSE [NoCore EXCEPT !.pnl = core.pnl + CoreWorth(core, b.close)]

\* The core leg of v4 is in the market while the trend is on.
CoreAfter(b) ==
  IF profile # "v4" \/ (b \in TrendOn <=> core.qty > 0) THEN core
  ELSE IF b \in TrendOn
  THEN [core EXCEPT !.qty = CoreNotional \div b.close, !.entry = b.close]
  ELSE [NoCore EXCEPT !.pnl = core.pnl + CoreWorth(core, b.close)]

\* EvaluateSignal in the style of the profile: the stop of the entry, 0 without one.
SignalStop(b) == b.trendStop["long"]

\* Only v4 asks the gate, which is shown the tactical leg alone.
TacticalEntry(k, b) ==
  LET stop == SignalStop(b)
      p == IF profile = "v4" THEN Tactical!Opened("long", b.close, stop, FALSE)
           ELSE Opened("long", b.close, stop, FALSE)
  IN  IF (profile = "v4" /\ RiskBlocked(k)) \/ stop = 0 \/ p.qty = 0 THEN k
      ELSE [k EXCEPT !.pos = [@ EXCEPT !["long"] = p], !.opened = @ + 1]

TacticalMove(k, b) ==
  LET t == StepLadder("long", k.pos["long"], b)
      pnl == ClosingPnL("long", t.pos, b.close)
      c == Closed(k, "long", pnl)
  IN  IF ~t.close THEN [k EXCEPT !.pos = [@ EXCEPT !["long"] = t.pos]]
      ELSE IF profile = "v4" THEN Scored(Booked(c, pnl), pnl, TRUE)
      ELSE Scored(c, pnl, FALSE)

\* The bar of an entry moves nothing.
TacticalAfter(b) ==
  LET k == Waited(book)
  IN  IF Flat(k) THEN TacticalEntry(k, b) ELSE TacticalMove(k, b)

\* The loss counter was emptied by a loss.
Slump == book.losses > 0 /\ book'.losses = 0 /\ book'.wins = book.wins

Counts == calm' = IF Slump THEN 0 ELSE IF calm < PauseBars THEN calm + 1 ELSE calm

\* The drawdown is looked at when a tactical position closes, and only then.
OlderBar(b) ==
  /\ profile \in OlderProfiles
  /\ time < MaxBars
  /\ core' = CoreAfter(b)
  /\ book' = TacticalAfter(b)
  /\ price' = b.close
  /\ LET equity == book'.net + core'.pnl + CoreWorth(core', b.close)
     IN  IF book'.trades = book.trades THEN UNCHANGED <<peak, maxDD>>
         ELSE /\ peak' = IF equity > peak THEN equity ELSE peak
              /\ maxDD' = IF peak' - equity > maxDD THEN peak' - equity ELSE maxDD
  /\ time' = time + 1
  /\ Counts
  /\ UNCHANGED <<profile, votes, classed, router, was, run, done>>

\* The core leg is closed at the last bar of the data, which may lie behind the
\* window; a tactical position that is still open is left out of the figures.
Finish(b) ==
  /\ profile \in OlderProfiles
  /\ time = MaxBars /\ ~done
  /\ core' = [NoCore EXCEPT !.pnl = core.pnl + CoreWorth(core, b.close)]
  /\ price' = b.close
  /\ done' = TRUE
  /\ UNCHANGED <<profile, votes, classed, router, was, time, book, peak, maxDD, run, calm>>

\* One step of the routers.
RouterStep ==
  /\ profile \in Profiles
  /\ Next
  /\ IF time' = time THEN UNCHANGED calm ELSE Counts
  /\ UNCHANGED <<core, done>>

ReplayNext ==
  \/ RouterStep
  \/ \E b \in Bars : OlderBar(b) \/ Finish(b)

ReplaySpec == ReplayInit /\ [][ReplayNext]_all

-----------------------------------------------------------------------------
\* From one bar to the next, and when the replay ends, the two legs together move
\* by the price times what both held: opening, closing and reopening the core
\* beside a position books nothing twice (runProfileReplayInRange, net, corePnL
\* and tacticalPnL).
WithCore(k, c, at) == Equity(k, at) + c.pnl + CoreWorth(c, at)

LegsAddUp ==
  [][time' # time \/ done' # done =>
       WithCore(book', core', price') - WithCore(book, core, price)
         = (price' - price) * (core.qty + Exposure(book))]_all

\* After a run of losses no profile that pauses opens anything on the next bars:
\* pauseBars is counted down before it is looked at, so one bar less than its value.
LossesPause ==
  [][book'.opened # book.opened => calm >= PauseBars - 1]_all
=============================================================================
