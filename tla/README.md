# cryptotips: a verification project

TLA+ modules that model cryptotips (Go backend, small React frontend), TLC runs that check them
on small instances, and TLAPS proofs of what matters most for every value of the constants.
`PROJECT.json` maps each definition to the lines it stands for.

## 1. The system and its parts

| component | state | operations | what is hard | what makes it correct | module |
|---|---|---|---|---|---|
| live (paper) strategy: `Runner.RunLoop`, `Strategy.Run`, `PaperExecutor`, Redis state, `crypto_trades` | Redis key `runtime`, trade rows, sums over sell rows | start, tick, signal, one run with about ten store calls | two stores written without a transaction; runs that stop between calls; lost key; pause by losses | one position, one exit per trade, no entry beyond a limit, the stop never loosens, positions close | `PaperStrategy`, `PositionLadder` |
| kline fetcher | kline tables, meta row per interval, the `syncing` flag | start, cron, fetch a page, upsert, refresh meta | bars that are not closed yet, pages that fail half way, rounds that overlap, two processes | no hole below a stored bar, old bars final, meta never ahead of the table | `KlineFetcher` |
| memory queue | ring of slots, cursors, count, limits | Add, Get, Reset, SetSize, SetMaxCapacity | growth while the ring is wrapped, `int` overflow of the doubled size | FIFO, refuse only when full, nothing retained | `MemoryQueue`, `BoundedFifo` |
| replay engines (v3..v13) | position, regime, counters of days and weeks, PnL; in v4 a second, "core" leg | one point, one bar, the end | hysteresis, pending regime, cooldown, exits on a regime switch, rungs of a position that was already cut, two legs in one net figure | no profit lost, booked twice or invented; every trade counted; the border of RANGE is crossed only by positions that may; the gate sees every figure; losses pause | `ReplayPosition`, `ReplayRouter` (v6..v9), `Replay` (baseline, v3..v5 and the routers), `DailyRouter` (v10..v13) |
| regime calibration | sequence of classified weeks | classify, grid search over parameters | a class has to be confirmed | the regime follows the votes | `classifySeries` in `ReplayRouter`; the search is not modelled |
| regime startpoints | none: a function of the days and weeks so far | score, smooth, fuse, segment | two calendars, look-ahead of one week, merging of runs, all computed again every day; sums of decimals against thresholds | a settled day keeps its regime; two classes fuse as the scores say | `RegimeScores`, `RegimeStartpoints`, used by `DailyRouter` and `DailyScores` |
| signals: `EvaluateSignal`, filters, strengths, band and regime of the days | none: functions of the bars so far | the verdicts on one bar | several functions that read the same bars apart from each other, with other thresholds and other windows | verdicts on one bar do not contradict each other; an entry stands on its own bar | `Signals`, used by `ReplaySignals` |
| realtime regime cache | `map[symbol]entry` under an RWMutex | read the latest times, look up, read the rows, store | rows read after the key that names them, slow handlers that overwrite newer entries | no answer is older than the TTL or misses a bar | `KlineApi` |
| frontend (K-line page) | selection, bars held, bars drawn, flags | request, answer, error, page change | answers out of order, empty answers | the chart shows the selection | `MarketView`, on `KlineApi` |
| Telegram sync | offset file, records in memory, two rendered pages | sign in, page, save the offset, retry, render | stop at the limit, restart, pages of service messages | no message skipped, a page is the history it claims to be, a sync ends | `TgSync` |
| big file downloader | part files, final file | one piece or chunks, workers, merge, verify, retry | existence of a file stands for completeness; kills; workers | the final name holds nothing or the whole file; complete parts stay; calls return | `BigfileDownloader` |
| fear/greed collector | table with a unique index | check, insert | check-then-insert, which the index makes harmless | one row a day | not modelled (see 7) |
| Telegram notices | a slice shared by goroutines | append, send, reset | no lock: a data race | - | not modelled (see 7) |
| crawl progress file | one JSON file | read, modify, write | no caller in the repository | - | not modelled |
| indicators | none: series of floats | `EMA`, `ATR`, `RSI`, ... | - | - | `Indicators`, used by `ReplaySignals`; some are left out (see 7) |
| HTTP router, HTTP clients and captcha, database and Redis start-up, configuration, system helpers, scripts | none of their own, or floats | - | - | - | not modelled (see 7) |

How they interact: the fetcher, the collector and the strategies meet only in the database. The
strategy reads the kline tables with `GetKLines`; the regime cache and the handlers read them per
request; the frontend polls the handlers; the runner and the cron run in separate daemon
processes made by `lib/godaemon.go`, which share a pid file per command.

`PROJECT.json` "hazards" lists, line by line, what can go wrong, and the properties that cover it.

## 2. Plan

Order, the most important behaviour first: (1) `PaperStrategy`, (2) `KlineFetcher`, (3)
`MemoryQueue`, (4) the regime routers v6 to v9, (5) the big file downloader, (6) the daily routers
v10 to v13 on the startpoints that feed them, and the older loop of v3 to v5, (7) the Telegram sync
with pages, limits and restarts, (8) the handlers of `/api/klines` with their cache, composed with
the page that asks them, (9) the indicators and signals of a bar (`Indicators`, `Signals`) and the
scores behind the startpoints (`RegimeScores`), pure functions that check what (1), (4) and (6)
assume of their inputs. All of these are done.

What is left: the grid search of `regime_calibration.go` as a function over a set of parameters.

## 3. The modules

### PaperStrategy (live strategy)

State: `redis` is the stored `StrategyState`; `open`, `closedTrades`, `soldQty`, `exitRows` are
`crypto_trades` as the code queries it; `dailyPnL`, `weeklyPnL`, `lossStreak` are what
`models/trade_stats.go` computes. `pc`, `st`, `bar` are the run in progress: one action per call
of `Strategy.Run` to a store (`Load`, `Recover`, `RefreshRisk`, `Open`, `TakeProfit1`,
`TakeProfit2`, `MoveStop`, `CloseRows`, `SellRow`, `Save`), early returns as `Paused` and
`NoEntry`. `Start`, `Stop`, `Sigterm`, `Tick` are the runner and `godaemon`; `Fail` is any call
returning an error, `Kill` the death of the process, `LoseKey` an evicted or expired Redis key.

Abstractions: the reading of the last 4h bars is an input (`last`, `stop`, `atrTrail`); that a stop
lies between 0 and the close (`BarsAssumption`) is the last guard of the signals, see
`ReplaySignals`. The time unit is the ticker interval; `PauseUntil` is the number of ticks left; the
sums over `created_at` are running sums reset by the calendar; `LossStreak` and `UpdatedAt` of the
state are not used by the code and dropped; the log rows are left out; the 50-row limit of
`LatestLossStreak` is not reached. `MaxTrades` is folded into the guard of `NoEntry`: beyond it no
bar gives a signal.

`PositionLadder` is what the README of the repository promises of a position: bought, 40% sold,
30% sold, rest sold at once. `PaperStrategy!Position` is the refinement mapping over the rows. The
promise holds until the first failure: `Lose` is that failure, after which `known` is FALSE and
nothing is promised any more, because a run that stops between two stores can sell a rung twice
(finding `TakeProfitOnce`).

### KlineFetcher

State: `table` (interval to stored bars), `meta` (the meta row), `syncing` per process, and per
goroutine the program counter and the page in flight. `Start`, `Fire`, `Begin`, `Fetch`, `Upsert`,
`Aggregate`, `SaveMeta` are the calls of `fetchAll` and `Sync`; `Fail` and `SyncFails` are the two
ways an error is treated (the round returns, or it is only logged). External: `NextPeriod` (a
new bar begins and the last one closes), `Revise` (the exchange corrects a bar that has closed), `Kill`.
A bar is a pair of its period and the version stored. `GORM`'s `CreateInBatches` runs in one
transaction, hence a page is one step. `--once` calls `Run` without the flag, with one
goroutine, which is the same model with one job. `EarliestTime` of the meta row is left out.

### MemoryQueue and BoundedFifo

Each method holds the mutex from its first to its last line, hence is one action whoever calls
it; `int` arithmetic wraps at `MaxInt`. `BoundedFifo` is the abstract queue of `items` with
`room`; the mapping lists the slots from `head`. The queue has no caller in the repository.
`SetSize` refuses on a ring that was used and emptied, because `head` is then not 0: the model
shows why that guard is needed (mutant `FreshIfEmpty` leaves the cursors outside the ring).

### ReplayPosition, ReplayRouter and Replay

`ReplayPosition` has no state: it is what the replay does to one position. The code has each step
twice, for longs and for shorts with all comparisons turned; here a side is a sign, and a reader
compares each operator with both functions. `StepLadder` is `stepLongPosition` (v6, v7, and written
out once more in the loop of v3 to v5), `StepTrail` is `stepLongPositionV8` (v8, v9), `StepRange`
is `stepRangeLongPosition` (v9) and `SwitchTakeProfit` is `applyLongSwitchTakeProfit` (v6).

`ReplayRouter` is the loop of the routers: `Vote` is an iteration over the points, which are weeks,
for v7 weeks or days as the calibration selected (`V7Frame`), for v6 the candidate of each bar.
`Bar` is the rest of an iteration over the 4h bars, a composition of functions on the record `book`
in the order of the code: `Waited`, `RegimeExit`, `Entry`, `Move`, then the equity line. `book.day`
and `book.week` are `dailyPnL` and `weeklyPnL`, `book.net` is `net`, `router` is the regime with its
pending count. `classed` is `classifySeries`. The four profiles differ in `Routed`, `RegimeExit`,
`Offer`, `Quota` and `Step`.

`Replay` is `runProfileReplayInRange` as a whole: it dispatches to the routers (`RouterStep`) or
runs the older loop (`OlderBar`, `Finish`), in which "v3" stands for every profile without a core
leg. `core` is `coreActive`, `coreQty`, `coreEntry` and `corePnL` in one record. The code adds what
either leg books to one `net`; here `book.net` is the tactical part (`tacticalPnL`) and `core.pnl`
the other, and `LegsAddUp` is about their sum. v4 plans its positions with the rest of the
capital, hence the second instance `Tactical` of `ReplayPosition`. `calm` is history: the bars
since the loss counter was last emptied by a loss.

Abstractions: a bar is a record of what the indicators say of it (`BarReading`; by `BarsAssumption`
a stop lies on its side of the close, the ATR trail too; by `ReadingsAgree` `evaluateTrendOnly`
holds wherever the trend signal enters; `ReplaySignals` checks both); by `CalendarAssumption` a week
is longer than `MinStay` bars (42 against at most 5 in `config.go`), none but the first is short,
and none is skipped, and a class needs at least two votes (the calibration tries 2 and 3); a point
is a class with a flag for "its score beats the hysteresis"; money is integer and shares of a
quantity are rounded down; the calendar is two functions; monthly sums, win sums, Sharpe and Calmar
are left out. `opened`, `was` and `run` are history: positions opened so far, the regime at the end
of the last bar, and the last equal votes. The window starts with `WarmupPoints` points that the
first bar consumes at once.

### RegimeStartpoints and DailyRouter

`RegimeStartpoints` is `ComputeRegimeStartpoints` as a function of the days so far: `DaySmoothed`
(`classifyTrend1D`), `WeekSmoothed` (`classifyCP1W`), `Fused` and `Turned` (`fuseStates`, over the
weeks expanded to days), `Runs` and `Joined` (`buildSegments`). A day is what the scores say of it
(`DayReading`): two classes, and whether its score is beyond 0.727 (`strong`). Which state two classes
fuse to depends on both scores; `FusedDays` says what that amounts to: opposed to its week a day wins
when it is strong and its week is RANGE by itself, though smoothed to a class. A confidence is one of
three figures, on the same side of 0.62 and 0.75 as the true one, so the mean of a run is a mean of
those. The two merging passes of `buildSegments` are one loop, which the comment of
`Joined` explains. The loops are recursive functions over the days or the runs. By
`StartpointsAssumption` a week has a day and a window of days more than one (the code: 5).

`Settled` is the last day that no later day can change. The week before the current one may still be
smoothed otherwise when the current one closes, so only days two weeks back keep their raw state,
and the last of those is the neighbour at which the turning of single days looks ahead. The proof
of `PastIsKept` found an earlier reading, one day more generous, to be wrong: a day alone at
the end of that stretch is turned or not with the class of its week, and lengthens a run that
seemed to have ended.

`DailyRouter` is the loop of v10 (always in the market, `Always`) and of v11 to v13 (`Exited`, then
`Entered`), one step per 4h bar. On the first bar of a day it computes the startpoints over all
days again, as `detectV10RegimeFromStartpoints` does, and `Routed` lets the regime follow. v12 is
v11 with other numbers. `book.costs` are the costs and the funding that `closePos` charged so far.
Scores are percentages; quantities are rounded down. What a short commits grows with its score
(`BearAlloc`).

### RegimeScores and DailyScores

`RegimeScores` has no state: it is the numbers behind the classes. `DayScored` and `WeekScored` are the
sums of `classifyTrend1D` and `classifyCP1W` over where a bar's figures lie among the thresholds
(`DayBar`, `WeekBar`); `Vote`, `Combined`, `FusedState` and `Confidence` are `fuseStates`. Everything is
in whole hundredths and their products. That is exact but for one tie: 0.35 + 0.10 of a week is a
little less than 0.25 + 0.20 in `float64`, so BULL, which wins ties, loses this one. The module has
this tie as the code has it.

`DailyScores` puts it beside `DailyRouter`. `RuleOfTheScores` says that every day of a run, smoothed as
it is, gets the state and the confidence (up to the two thresholds it is compared with) that the
scores of any bars of its classes give: `Fused`, the rule the router model uses, is what the votes,
weights and thresholds of the code amount to.

### Indicators, Signals and ReplaySignals

`Indicators` are the series of `src/indicator` as functions on sequences of whole numbers, rounded
down. `Signals` are the verdicts, as operators over the last 4h bars (`h4`), the indicators there
(`market`) and those of the day bars (`day`): `TrendLong` (`evalTrend`), `MeanReversion`,
`MomentumFactor`, `TrendShort`, `TrendIsOn`, `Strength`, `BearQuality`, `Regime` (`detectRegime`) and the
band with its entries (`BandOK`, `EdgeStrength`, `BandEntry`). `ReplaySignals` reads windows of bars
(`Seen`), puts the verdicts beside `Replay`, and says what each profile relies on: `EntryStands` is
what `BarsAssumption` of `PaperStrategy` and `ReplayRouter` assume and more, `VerdictsAgree` contains
`ReadingsAgree` of `Replay`. These are facts about one bar, so that no proof uses them; what they earn
is that the assumptions of the other modules are checked against the arithmetic they stand for. The
EMA, ATR and slopes of the day bars are values of `DayViews`: a slope over a hundred days cannot be
had from three. Volumes and prices are whole numbers, tolerances per mille.

### TgSync

State: `channel` is the remote history (a message's ID is its index), `file` the offset file, `md`
and `html` the rendered pages, `run` what the process knows. `Start` is the command; `Auth`,
`Resolve`, `GetHistory`, `ReadPage`, `SaveState`, `RemoveState`, `RenderMarkdown`, `RenderHTML` are
the calls of `SyncChannel` in their order, each with its failure: `AuthFails` (only an expired code
is asked for again), `CallFails` (retried, or cut short by the 90-minute context), `RenderFails`.
`SaveState` and `RemoveState` only log a failure and go on. `Kill` is the death of the process and
`Publish` a new message. All three files are written by `os.WriteFile`, which empties a file before
it writes: a write that fails or is killed leaves the old page or any beginning of the new one
(`Broken`, told by `whole`), and the old offset or one that does not parse, which is as good as
none. `seen` and `newest` are history. Of a message only its kind is kept: with text, media without
text, filtered, outgoing, or a service message, which is no `tg.Message`.

### KlineApi and MarketView

`KlineApi` is the handler of `GET /api/klines` with `getRealtimeRegimeStartpoints` behind it: each
query of the database and each critical section of the RWMutex is a step, any number of handlers
run at once, `AddBar` is the fetcher writing the same tables. Of the rows of a symbol only the
newest daily and weekly bar is kept (`latest`), and start points are known by the rows they were
computed from and by the moment those were read (`asOf`).

`MarketView` puts the page on top: `Choose`, `Refresh`, `Leave`, `Return` are the user, each of them
ending in `loadKLines` (`Load`, `Ask`); `Arrive` and `Fail` are the `then` and the `catch`. `klines`
is the state of `App`, `drawn` what the chart holds: they differ, because `KLineChart` ignores an
empty array. `overtaken` is history: an answer was shown before the answer of an older request.

### BigfileDownloader

State: `final` and `part` are the disk, sequences of bytes `<<version of the resource, position>>`;
`kind`, `pc`, `attempt`, `body`, `size`, `queue`, `next` are the call, `work` its goroutines. `Call`
enters one of the three exported ways (smart, multithreaded, with retry); `Get` and `Copy` are
`downloadWithResume`, `HeadRequest` to `Cleanup` are `DownloadMultithread`: `Take`, `Once` (up to
the creation of the part), `Read` (one read and its check, the loop above it) are a worker, and
`Again` is `downloadChunkWithRetry`. A failed request, a broken body, a server that ignores the
range (status 200), a failed merge and a kill all cost one `trouble`; `Publish` is a new version on
the server. `DownloadMultithread` does not look at the status of the answer to its HEAD request, so an
error page of a length in `ErrorSizes` may give the size of the file (`HeadRequest`, `Plan`). Files
outlive a call, everything else is forgotten by `Return`.

`blame` is history: the five things that spoil a file and that the code does not notice (a copy cut
short, a merge cut short by a kill, an ignored range, a resource that changed, a size read off an
error page). The properties say that nothing else does, and that after a wrong size what stands on the
disk is a beginning of the resource in the right order. Abstractions: a request answers at once or
fails (the client has a timeout); to `getFileSize` and to the requests for bytes an answer of the wrong
status is a failed request, as their code checks it; so are sizes below the minimum. An error page
is at least as long as that minimum, since a shorter one ends the call like a failed request. One call
runs at a time; waiting times, headers, proxies and the progress display are left out.

## 4. The runs

| run | shows | bounds |
|---|---|---|
| `paper_faults` | what survives any two faults (failed call, kill, SIGTERM, lost key) | 1 daemon, 4 bar readings, 3 trades |
| `paper_ladder` | the rows implement `PositionLadder` until the first fault; an open position closes, fault or not, or the daemon is dead | 2 trades, 1 fault |
| `paper_takeprofit` | finding: a rung is sold twice when the state is not saved | 2 trades, 2 faults |
| `paper_pause` | finding: a streak of losses pauses forever | loss streak 3, 3 trades |
| `kline_one` | one process, two goroutines, two intervals, one of which never answers: no hole, refreshed bars, meta row, progress | 3 bars, pages of 2, 2 faults |
| `memory_queue` | the ring implements the FIFO, its cursors stay inside | 4-bit `int`, sizes 1..4, 2 items and "" |
| `replay` | two legs in one figure, counting, the border of RANGE, gate sums, pauses, trails in v3, v4 and v6..v9; entries stand, verdicts agree | 7 bars of five shapes, weeks of 2 bars, 2 points before; windows of 3, 4 and 6 bars around 1000, 72 readings of the days |
| `daily_replay` | equity and costs, counting, confirmed switches, settled days, the rule of the scores in v10, v11, v13 | 6 days of five shapes after 4 earlier ones of two tables, weeks of 2 days |
| `tg_sync` | offset file and pages; a sync ends | pages of 2, 3 messages growing to 4, limits 0 and 2, 2 troubles |
| `market_view` | what the cache answers, what the chart shows | 2 requests, 3 views of 2 symbols, TTL 1, clock to 3, 1 new bar, 1 trouble |
| `downloader` | what is on the disk under which name; every call returns | 2 workers, 3 chunks, 2 versions, error pages of 3 and 7 bytes, 3 troubles |
| `download_resume` | finding: a broken copy is reported as success | 1 attempt that breaks |

Why the bounds are enough. `Bars4` (last, stop, atrTrail) = (2,1,0), (3,1,2), (5,0,4), (1,0,0):
two entries at different prices, the second being also the first rung of the first; a bar beyond
the second rung with an ATR trail; a gap through every stop. Three trades let an old state meet a
later trade and a streak of two losses be followed by an entry. Two faults are needed for
`ManagedByItsOwnState` to be interesting (it holds for one). Two ticks make a day and four a week,
so both calendars end inside a pause of two ticks. For the klines, three bars and pages of two
give a full page, a short page, and a resume in the middle; a look-back of one bar is enough to
have an old bar out of its reach. The 4-bit ring overflows on growing beyond 4 slots.

The five replay bars offer an entry with a risk of 3 on each side and at each edge of the band,
cross the first and second rungs of both, close beyond every stop, and have one bar without a
band. The EMA trails are chosen so that a trail passes its entry before the first rung (bar 8
after an entry at 6); with a risk of 1 that could not happen, and the exception in
`TrailNeverLoosens` would have stayed unseen. Seven bars hold a switch with its confirmations,
a trade, the exit and a second trade; loss streaks (2) and pauses (2) are short for that reason. The
trend of v4 is on for two of the five bars, on the entry and on the rise after it, so the core leg
is opened, closed and opened again, alone and beside a position. The sum of 60% and 40% of the
capital of 100 buys at least two units at every price. v7 votes on day bars, the more frequent of
the two frames the calibration chooses from.

The windows of the signals are all sequences of three or four bars of five shapes (a bar that never
moves and two that close at an edge among them), the last one busy or not, and falls of six bars, for
a close below a Bollinger band of six takes that many. The periods are 2, 3 and 6, so each series takes
its first value and at least one step. Every entry, every regime and both edges of the band occur in
them; what a profile relies on is checked on each window with each of the 72 readings of the days.

Days of one bar and weeks of two days give `DailyRouter` five weeks, the last of which may be
incomplete; the windows and run lengths of the startpoints (3 days of which 2, runs of 2 and 3) are
the smallest for which a day can be outvoted, a run absorbed for its length, and another for its
confidence only. Six days hold a switch with its stay and confirmation, an exit and a second entry.
Of the two earlier tables one is a range whose second week is a bull, so that a run has ended among
the days that settle next; with it the more generous `Settled` is violated.

Four messages in pages of two are two pages and an empty one, and a page of service messages only; a
message that is published moves the top while the walk goes down. Two troubles exhaust the two tries
of a call, kill two processes of one walk, or cut a page short after another failure. In
`market_view` two requests are enough for an answer that overtakes, for a handler that stores an
entry while the other reads, and for an entry used by the other; three moments with a TTL of 1 let
an entry expire. The proofs cover any number of requests.

The resource has three chunks for two workers, so a worker takes a second chunk; its next version
ends inside the second chunk, so a chunk can come short or lie beyond the end (416). Three
troubles are two to exhaust the tries of a chunk and one more, such as the kill before. An error page
of 3 bytes is shorter than the first version, one of 7 longer than both.

Deadlock is checked in every run except `replay` and `daily_replay`, which end with their bars, and
`market_view`, whose behaviours end when the requests are used up.

## 5. Fairness

`PaperStrategy`: weak fairness of `Tick` (the `time.Ticker` keeps firing), of a run's steps (every
call returns) and of `Stop` (the `select` of `RunLoop` sees `ctx.Done`). Nothing restarts a dead
process, so `Start` has none and the liveness properties except a dead daemon. `KlineFetcher`: weak
fairness of the cron of each process and of each goroutine's steps; none of `Start`, `Kill` or the
faults. `MemoryQueue` has no liveness: callers decide. `BigfileDownloader`: weak fairness of the
call's own goroutine and of each worker, since each request ends by the timeout of the client; none
of `Call`, `Kill`, `Publish` (whoever waits for a call assumes only that the scheduler runs its
goroutines). `TgSync`: weak fairness of the process's own steps: every call returns, since the
context ends after 90 minutes and the waits between tries are bounded, and the user answers when
signing in asks for a code on the terminal (`sync.go:135-139`), which the context does not end; none
of `Start`, `Kill`, `Publish` or the failures, which may come or not. `Replay`, `DailyRouter` and
`MarketView` have none: the first two are loops over arrays, and an answer of the network may never
come.

## 6. What is proved

TLAPS proves, for every value of the constants that the named assumptions allow:

- `PaperStrategyProofs`: `TypeCorrect` for any runners; `SinglePosition`, `SingleExit` and
  `EntryIsGated` under `OneRunner` (exactly one process runs the strategy: what the pid file
  is for). The invariant joins `BookInv` (an open row exists only in the stretches of a run in
  which it may, and exit rows trail closed trades by at most the exit being booked) with
  `RunKnows` (what a run in progress has learnt of the table is still true, because nobody else
  writes it). Neither mentions Redis: that is why lost keys and lost saves do not matter to them.
  A third part, `Story`, speaks of the time up to the first fault and gives `StoresTellTheSame`,
  `StopsOnlyTighten`, `PausesLast` and `LadderFollowed` (the safety part of the refinement of
  `PositionLadder`). It follows the state of a run from Load to Save: at every step the state
  describes the rows (`Tells`), its pause is as long as the time since the gate demands (`Covers`)
  and it has given up no stop (`Advances`). For the stop one has to know that a position has a
  trail once its first rung is done (`Rungs`): otherwise the first ATR trail could lie below the
  stop it replaces.
  The last part, `OwnRun`, allows one fault and gives `OneLossIsHarmless`
  (`ManagedByItsOwnState`). One lost Save leaves an open row that Redis does not know, or a
  position in Redis that the table has closed; `Recover` mends both, so from there on the state in
  hand is about the open row (`InHand`). What has to be excluded is the third thing, the state of
  an old position under a new row: it takes a position of the past in Redis while a run that has
  not failed may still buy (`Fresh`).
- `KlineFetcherProofs`: `FetcherTypeCorrect`, `NoHoleEver`, `MetaBounded` for any processes,
  goroutines, intervals, look-backs and page sizes. `NoHole` alone is not inductive. The
  invariant says that each round in flight will write right above a stretch that is complete
  (`Sound`, `NextStretch`); it is stable because rows are never removed (`Kept`). So no mutual
  exclusion is needed for it, which is why the `syncing` flag being per process does no harm.
  `RoundsExclude` is what the flag does give: one round per process at a time (`Locked`). With
  one process (`OneProcess`) the rounds of an interval follow each other, and `LiveRowIsNewest`,
  `RoundsRefresh` and `MetaIsExact` hold: nobody else moves the table between the last read of a
  round and its meta row, and what a round has read can only be overtaken by the exchange.
- `MemoryQueueProofs`: `QueueTypeCorrect`, `NoItemRetained` and `RingIsFifo`, the refinement of
  `BoundedFifo`, for any sizes. The strengthening is `tail = At(count)`; the lemmas are about `%`
  (`ModSum`, `SlotsApart`: distinct queued items lie in distinct slots).
- `ReplayProofs`, about the routers: `TypeCorrect`, `TradesCounted`, `RangeIsLeft` (after a bar in
  RANGE v7 and v8 hold nothing, after one outside it v9 holds no position from the band; of positions
  carried through other switches it says nothing, and v6 and the trend positions of v9 are carried) and
  `MarkedToMarket`, for any bars, limits, calendar, number of bars and set of routers. The invariant
  adds `Sound(book)` to the first three: never both sides at once. The argument is one relation,
  `Through`: every phase of a bar keeps `Sound`, keeps the equity at the close of the bar, and opens
  nothing. Its lemmas are about one position (`SellKeeps`, `Rung1Keeps`, `SwitchKeeps`: what a sale
  takes from the rest it puts into the realized part). `Entry` is the one phase that opens, and a
  position is worth nothing at its entry. `MarkedToMarket` follows because equity is linear in the
  price. `SwitchKeeps` needs `BarsAssumption`: with an ATR of 0 or beyond the close v6 could empty
  a position and forget its realized part.
  The same module lifts these to `Replay`: `AllTradesCounted` and `LegsAdded` with the core leg
  beside the position, for any share of the capital, and `LossesPaused`. For the last, `TypeOK` and
  `Sound` do not suffice: the invariant needs `PauseCovers`, `pause >= PauseBars - calm`, that is,
  the counter that blocks entries never runs ahead of the bars that have passed since the losses.
  `VotesFollowed` says how far two confirmations in a row can lag behind the votes. Its invariant is
  `Tracked`: a run of `n` votes has either moved the class or counted `n` votes for it, and likewise
  the regime with the votes the class still needed. It would be false if a switch could fall
  into the `MinStay` bars of the one before, where votes are dropped and not counted; `SinceVote`
  and `Stays` tie both to the weeks that began, and `CalendarAssumption` says that those are far
  enough apart. `TrailKept` compares the marks of a position before and after each phase of a bar
  (`Follows`); the invariant it needs is that a position is entered at a price above 0
  (`Entered`), since a zero trail stands for none. `GateSees` is about two sums over finite
  domains: `AddedTotal` (adding to one day adds as much to the total) rests on what `FoldFunction`
  does with one element, in any order it may choose (`SumLoop`, `SumsDiffer`).
- `DailyRouterProofs`: `TypeCorrect`, `TradesCounted`, `RegimeOwned`, `CashKept`,
  `SwitchIsConfirmed`, whose invariant `PendingShown` says that the startpoints of each of the last
  `count` days showed the pending regime, and `PastStays` (`PastIsKept`), for any days, windows, week
  and run lengths. Its argument goes along `ComputeRegimeStartpoints`: a new day leaves every day
  smoothed as it was (`DaysAgree`), every week but the last two (`SmoothedAgree`), and so every
  fused day up to `Settled` (`FusedAgree`). The loop over the runs agrees up to there, and a run that
  has ended is never touched again (`RunsFinal`). The loop over the segments may lengthen
  a segment but keeps its state and start (`JoinsGo`), and segments follow each other
  without a gap (`Chain`), so a day of the runs that stay is in the same segment whatever comes
  after (`SegmentsKeep`). That a recursive function exists and turns as its text says is
  `LoopExists`.
- `MarketViewProofs`: `TypeCorrect`, `AnswersAreRecent`, `AnswersCoverBars`,
  `SelectionIsFollowed`, for any number of requests, views and writes. Each needs what a handler
  knows at every point of its walk: its key is no newer than the rows it has read, and its `now` no
  later than their reading; what the cache holds inherits both. The chart needs the order of
  requests: the newest sent one is for the selected view, and what is drawn is the newest shown.

- `BigfileDownloaderProofs`: `TypeCorrect`, `OneWriterHolds`, `PartsAreSlicesHolds`,
  `FinalIsWholeHolds` and `CompletePartsStayHolds`, for any sizes, workers, retries and troubles,
  and any lengths of error pages: with a size read off one, what stands under the final name is a
  beginning of the resource, and complete parts go only after their bytes stand there in order. The
  invariant has two halves. `Shared` holds whatever happened: the queue is the rest of the chunks in
  order, no worker has a chunk beyond those taken, and no two have the same. `Clean` holds while
  nothing is to blame: each part begins like its chunk, each answer being read is that chunk, every
  chunk that was taken is full or in somebody's hands unless the call has failed, and the merge has
  copied what lies before the next chunk. `ChunkFacts` is the arithmetic: chunks lie one behind the
  other and the last one ends with the file. Each step of a worker is one relation, `Moves`.

- `TgSyncProofs`: `TypeCorrect`, `NothingSkipped` (`OffsetSkipsNothing`) and `PagesAreTheHistory`
  (`PageIsTheHistory`), for any page size, limits, channel and troubles. A list of messages is told
  by its set: `NewestFirst(s, S)` says that `s` lists `S` from the newest down, and `OneListing`
  that a set has one such listing, so a loop, a join or a cut of lists becomes a fact about sets.
  The invariant says which set the records of a walk are, what the batch in hand is, and that all
  of the channel from the offset up to the newest message of the walk has been read by somebody.

Where a proof needs induction over data (the loop of `Kept`, the sums of `GateSees`, a maximum over
a set, the loops of the startpoints), it argues from the least counterexample: `<` on the naturals
is well-founded (`NatLessThanWellFounded`), so a set of numbers at which a statement fails has a
least member (`WFMin`), and a set named in a proof may be used where an induction theorem would need
an operator.

`TypeCorrect` of the routers, the daily routers, the downloader, the sync and the page,
`MetaBounded`, `RoundsExclude`, `MarkedToMarket`, `NoItemRetained`, `OneWriterHolds` and `RegimeOwned`
of the daily routers (a position stands only in the regime it was opened for, but for the bull position
of v13, which may stand through a range) are theorems about definitions that no run
lists by themselves.

Only model-checked: liveness (`PositionCloses`, `BarsArrive`, `SyncEnds`, `CallReturns`), the
fairness of `ImplementsLadder`, and what `ReplaySignals` and `DailyScores` say of the signals and
scores. That two processes fetch klines at once is covered by the theorems of `KlineFetcherProofs`
alone: no run has two.

## 7. Findings, gaps, and what is not modelled

Findings (see `PROJECT.json`): `TakeProfitOnce`, `PauseLifts` and `ResumeCompletes` are violated.

Seen while modelling, and not a finding of a run:
- A run that stops between `CloseOpenTradesByStrategy` and the insertion of the sell row loses
  the PnL of the exit for good; the risk gate never sees that loss.
- Two lost writes let the numbers of an old position manage a new one.
- Partial sells book PnL 0 and only the rest is booked at the exit.
- Two processes that both run the strategy both buy; the order lock of `lib/redis.go` is never
  taken.
- Two fetchers can leave an older meta row over a newer one until the next round.
- The fetcher stores 1h, 1d and 1w rows, the live strategy asks for 4h rows: on a database filled
  by the fetcher alone every run ends in "insufficient klines". The model covers a table with
  4h rows.
- v9 decides that an entry is allowed before it books the range exits of the same bar; v7 and v8
  never show their RANGE exits to the gate, to the win rate or to the loss streak.
- v8 and v9 put the trail back to the entry at the first rung although the EMA trail may already
  have passed it; the first EMA trail may also lie beyond the planned stop, which is then unused.
- A kill while the downloader copies or merges leaves a partial file under the final name, and
  every later call takes it for complete; a kill during the cleanup leaves parts nobody removes.
- `DownloadMultithread` takes the `Content-Length` of its HEAD answer whatever its status: an error page
  of 512 bytes or more gives a wrong size. If it is too small, a beginning of the resource passes
  `verifyDownload`, stands under the final name and counts as complete from then on, and the parts
  kept from an earlier call are removed.
- The size checks only reject files that are too short, and a 200 answer to a ranged request is
  accepted: such a part holds the whole file, and the merged file is longer than the resource.
- Parts kept from a killed call are merged with parts of a newer version of the resource.
- After a switch take-profit of v6 a rung still sells 40% or 30% of the whole quantity: the rest can
  turn negative, and the position then gains from a fall.
- The loop of v4 shows its gate only the tactical leg: losses of the core leg block nothing. It
  looks at the drawdown only when a tactical position closes, and a tactical position that is open
  at the end is left out of every figure.
- The core leg of v4 is closed at the last bar of the data even when the window ends earlier.
- `pauseBars` is counted down before it is looked at: a pause of 6 blocks 5 bars.
- `LatestLossStreak` reads 50 rows, partial sells included; the limit of 3 is far from it.
- The pages are written in place: a write that fails or is killed loses the old page and leaves a
  beginning of the new one.
- On the first day on which a signal of v8 or v9 may fire, its strength is still 0, since the strength
  wants one day more than the signal; the entry is refused.
- A sync that resumes renders only what it read itself: the messages read before the restart are
  missing from the pages. Stopping at the limit leaves the offset file, so the next sync begins in
  the middle; an offset file that could not be removed makes the next page empty. A page of service
  messages only ends the walk as if the history ended there. A message of media whose
  download failed is dropped.
- The page takes whatever answer arrives last, and any answer clears the loading flag of all. An
  empty answer leaves the old bars on the chart, under a note that there are no data.
- The collector of fear and greed announces stored rows as new ones ("新入库").
- The ATR trail of v6 and v7 is compared with the close it was computed from and never stored, so
  it never triggers.
- When v9 loses its band while it is in RANGE, the middle of the zero band is 0: a long range
  position sells its 60% at any price.
- The day bar and the week of a 4h bar are used with their final closes.
- v6, v7 join the calendar year with the ISO week: the days around New Year fall into two keys.

Not modelled, and why:
- MACD, the slope of the SMA and the volume signals, which no strategy reads; the EMA, slopes, returns
  and drawdowns of day and week bars, whose place among the thresholds is an input (`DayViews`,
  `DayBar`, `WeekBar`). Floating-point rounding is modelled only where it decides a tie;
- the grid search, labels and reports of `regime_calibration.go`, and the statistics, reports and
  hourly aggregation of the replay: arithmetic over finished results, no control;
- HTTP clients and captcha services: remote I/O behind one call, without a caller in the
  repository;
- the fear and greed collector: one check and one insert over a unique index, a loop with no other
  state, in which every order of two collectors ends with one row;
- the Telegram notices: append, join and reset of a slice without a lock. This is a data race, after
  which Go promises nothing, and no property of the messages would hold;
- the crawl progress file (no caller), start-up of database, Redis and configuration, wiring of the
  HTTP router, formatting and operating-system helpers, scripts;
- of the frontend, the fear and greed page, the drawing of indicators and panels, and layout.
