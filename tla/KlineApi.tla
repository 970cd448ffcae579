------------------------------ MODULE KlineApi ------------------------------
(***************************************************************************)
(* The handler of GET /api/klines and the cache of market regimes behind   *)
(* it.  Handlers run concurrently, each query of the database and each     *)
(* critical section of the cache is a step of its own, and the fetcher     *)
(* writes the same tables meanwhile.                                       *)
(*                                                                         *)
(* A view is a symbol and an interval.  Of the rows of a symbol only the   *)
(* newest daily and the newest weekly one are kept, and of the start       *)
(* points only which rows they were computed from, and when those were     *)
(* read: rows are revised in place, so the moment matters too.             *)
(***************************************************************************)
EXTENDS Integers

CONSTANTS
  Views,        \* pairs of a symbol and an interval
  Symbols,
  SymbolOf,     \* the symbol of a view
  WithRows,     \* the views that have rows
  Requests,     \* the requests of a behaviour, in the order they are sent
  TTL,          \* regimeCacheTTL
  MaxClock,     \* bound: last moment of a behaviour
  MaxWrites,    \* bound: bars added
  MaxTroubles   \* bound: failed queries, failed calls

ASSUME KlineApiAssumption ==
  /\ SymbolOf \in [Views -> Symbols]
  /\ WithRows \subseteq Views
  /\ Requests \subseteq Nat \ {0}
  /\ {TTL, MaxClock, MaxWrites, MaxTroubles} \subseteq Nat

VARIABLES
  clock,
  latest,    \* the newest daily and weekly bar of each symbol
  cache,     \* realtimeRegimeCache.entries
  req,       \* the requests
  writes,
  troubles

apiVars == <<clock, latest, cache, req, writes, troubles>>

NoBars == [day |-> 0, week |-> 0]

\* Start points and the rows they stand on; "stored" ones come from the table
\* crypto_regime_startpoints.
NoItems == [from |-> "none", bars |-> NoBars, asOf |-> 0]

NoEntry == [key |-> NoBars, at |-> 0, items |-> NoItems]

\* A request: where its handler is, what it asks for, when it was sent and which
\* bars were stored then, and what the handler holds.
Unsent == [pc |-> "unsent", view |-> CHOOSE v \in Views : TRUE, asked |-> 0,
           had |-> NoBars, key |-> NoBars, now |-> 0, items |-> NoItems]

ApiInit ==
  /\ clock = 0
  /\ latest \in [Symbols -> {NoBars, [day |-> 1, week |-> 1]}]
  /\ cache = [s \in Symbols |-> NoEntry]
  /\ req = [r \in Requests |-> Unsent]
  /\ writes = 0 /\ troubles = 0

SymbolOfReq(r) == SymbolOf[req[r].view]

-----------------------------------------------------------------------------
(* What happens beside the handlers. *)

Tick ==
  /\ clock < MaxClock
  /\ clock' = clock + 1
  /\ UNCHANGED <<latest, cache, req, writes, troubles>>

\* The fetcher stores the next daily or weekly bar of a symbol.
AddBar(s) ==
  /\ writes < MaxWrites
  /\ writes' = writes + 1
  /\ \E bars \in {[latest[s] EXCEPT !.day = @ + 1], [latest[s] EXCEPT !.week = @ + 1]} :
       latest' = [latest EXCEPT ![s] = bars]
  /\ UNCHANGED <<clock, cache, req, troubles>>

\* The request for a view leaves the browser.
Ask(r, v) ==
  /\ req[r].pc = "unsent"
  /\ \A q \in Requests : q < r => req[q].pc # "unsent"
  /\ req' = [req EXCEPT ![r] = [Unsent EXCEPT !.pc = "rows", !.view = v,
               !.asked = clock, !.had = latest[SymbolOf[v]]]]
  /\ UNCHANGED <<clock, latest, cache, writes, troubles>>

-----------------------------------------------------------------------------
(* getKLines. *)

\* The handler goes on with what it holds.
Goes(r, held) ==
  /\ req' = [req EXCEPT ![r] = held]
  /\ UNCHANGED <<clock, latest, cache, writes, troubles>>

\* The rows of the view; without rows there are no start points to look for.
ReadRows(r) ==
  /\ req[r].pc = "rows"
  /\ Goes(r, [req[r] EXCEPT !.pc = IF req[r].view \in WithRows
                                   THEN "day" ELSE "answered"])

\* getRealtimeRegimeStartpoints: the newest daily row,
ReadLatestDay(r) ==
  /\ req[r].pc = "day"
  /\ Goes(r, [req[r] EXCEPT !.pc = "week", !.key.day = latest[SymbolOfReq(r)].day])

\* the newest weekly row, and the time once both are known; a symbol without
\* either has no start points,
ReadLatestWeek(r) ==
  /\ req[r].pc = "week"
  /\ LET week == latest[SymbolOfReq(r)].week
         both == req[r].key.day # 0 /\ week # 0
     IN  Goes(r, [req[r] EXCEPT !.pc = IF both THEN "lookup" ELSE "answered",
                                !.key.week = week, !.now = clock])

\* (mutant: the daily row alone decides)
CurrentByDay(entry, held) ==
  /\ entry.key.day = held.key.day
  /\ held.now - entry.at <= TTL

\* whether an entry of the cache answers the request,
Current(entry, held) ==
  /\ entry.key = held.key
  /\ held.now - entry.at <= TTL

Lookup(r) ==
  /\ req[r].pc = "lookup"
  /\ LET entry == cache[SymbolOfReq(r)]
     IN  Goes(r, IF entry # NoEntry /\ Current(entry, req[r])
                 THEN [req[r] EXCEPT !.pc = "answered", !.items = entry.items]
                 ELSE [req[r] EXCEPT !.pc = "dailyRows"])

\* and else all the rows, daily and weekly ones, from which they are computed,
ReadDailyRows(r) ==
  /\ req[r].pc = "dailyRows"
  /\ Goes(r, [req[r] EXCEPT !.pc = "weeklyRows",
       !.items = [from |-> "rows", asOf |-> clock,
                  bars |-> [NoBars EXCEPT !.day = latest[SymbolOfReq(r)].day]]])

ReadWeeklyRows(r) ==
  /\ req[r].pc = "weeklyRows"
  /\ Goes(r, [req[r] EXCEPT !.pc = "store",
       !.items.bars.week = latest[SymbolOfReq(r)].week])

\* (mutants: the entry is as old as its store; its key is read after the rows)
EntryAtStore(held) == [key |-> held.key, at |-> clock, items |-> held.items]
EntryKeyedLate(held) ==
  [key |-> latest[SymbolOf[held.view]], at |-> held.now, items |-> held.items]

\* and an entry for the next ones.
Entry(held) == [key |-> held.key, at |-> held.now, items |-> held.items]

Store(r) ==
  /\ req[r].pc = "store"
  /\ cache' = [cache EXCEPT ![SymbolOfReq(r)] = Entry(req[r])]
  /\ req' = [req EXCEPT ![r].pc = "answered"]
  /\ UNCHANGED <<clock, latest, writes, troubles>>

\* A query fails: without the rows of the view the answer is an error, without
\* those of the start points the stored ones are read instead,
QueryFails(r) ==
  /\ troubles < MaxTroubles
  /\ troubles' = troubles + 1
  /\ \/ /\ req[r].pc = "rows"
        /\ req' = [req EXCEPT ![r].pc = "failed"]
     \/ /\ req[r].pc \in {"day", "week", "dailyRows", "weeklyRows"}
        /\ req' = [req EXCEPT ![r].pc = "stored"]
     \/ /\ req[r].pc = "stored"
        /\ req' = [req EXCEPT ![r].pc = "answered", ![r].items = NoItems]
  /\ UNCHANGED <<clock, latest, cache, writes>>

\* and if those cannot be read either, the answer has none.
ReadStored(r) ==
  /\ req[r].pc = "stored"
  /\ Goes(r, [req[r] EXCEPT !.pc = "answered",
                            !.items = [NoItems EXCEPT !.from = "table"]])

Handler(r) ==
  \/ ReadRows(r) \/ ReadLatestDay(r) \/ ReadLatestWeek(r) \/ Lookup(r)
  \/ ReadDailyRows(r) \/ ReadWeeklyRows(r) \/ Store(r)
  \/ QueryFails(r) \/ ReadStored(r)

ApiNext == Tick \/ (\E s \in Symbols : AddBar(s)) \/ (\E r \in Requests : Handler(r))

-----------------------------------------------------------------------------

\* The start points of an answer on its way were computed.
Computed(r) == req[r].pc = "answered" /\ req[r].items.from = "rows"

\* An answer is at most the life time of the cache behind the tables, counted
\* from the moment the request was sent: however long the handler that filled
\* the entry took, an entry is dated before the rows it stands on were read
\* (regime_runtime.go:52, :102).
AnswerIsRecent ==
  \A r \in Requests : Computed(r) => req[r].items.asOf + TTL >= req[r].asked

\* An answer stands on every daily and weekly bar that was stored when its
\* request was sent, even if another handler computed it, on rows it read while
\* a bar was added: the key of an entry is read before its rows
\* (regime_runtime.go:37-49, :98-104).
AnswerCoversBars ==
  \A r \in Requests : Computed(r) =>
    /\ req[r].items.bars.day >= req[r].had.day
    /\ req[r].items.bars.week >= req[r].had.week
=============================================================================
