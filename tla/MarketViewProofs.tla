-------------------------- MODULE MarketViewProofs --------------------------
(***************************************************************************)
(* The properties of MarketView for any number of symbols, views and       *)
(* requests, and however long the handlers take.  The server's part rests  *)
(* on what each handler holds at each of its steps (Fits) and on what an   *)
(* entry of the cache stands for (Sound); the page's on the newest request *)
(* being for the selected view (NewestIsSelected).                         *)
(***************************************************************************)
EXTENDS MarketView, TLAPS

BarPair == [day : Nat, week : Nat]
Items   == [from : {"none", "rows", "table"}, bars : BarPair, asOf : Nat]
Held    == [pc : {"unsent", "rows", "day", "week", "lookup", "dailyRows",
                  "weeklyRows", "store", "stored", "failed", "answered", "shown"},
            view : Views, asked : Nat, had : BarPair, key : BarPair,
            now : Nat, items : Items]
Entries == [key : BarPair, at : Nat, items : Items]

ApiTypeOK ==
  /\ clock \in Nat
  /\ latest \in [Symbols -> BarPair]
  /\ cache \in [Symbols -> Entries]
  /\ req \in [Requests -> Held]

TypeOK == ApiTypeOK /\ page \in {"klines", "feargreed"}

\* Pair a has no newer bar than pair b.
UpTo(a, b) == a.day <= b.day /\ a.week <= b.week

\* An entry is dated before the rows it stands on were read, and keyed with bars
\* that they hold.
Sound(entry) ==
  entry.items.from = "rows" =>
    entry.at <= entry.items.asOf /\ UpTo(entry.key, entry.items.bars)

\* What a handler holds, step by step.
Fits(h) ==
  LET stored == latest[SymbolOf[h.view]]
  IN  /\ h.asked <= clock /\ UpTo(h.had, stored)
      /\ h.pc \in {"rows", "day", "week"} => h.items.from = "none"
      /\ h.pc \in {"week", "lookup", "dailyRows", "weeklyRows", "store"} =>
           h.had.day <= h.key.day /\ h.key.day <= stored.day
      /\ h.pc \in {"lookup", "dailyRows", "weeklyRows", "store"} =>
           /\ h.had.week <= h.key.week /\ h.key.week <= stored.week
           /\ h.asked <= h.now /\ h.now <= clock
      /\ h.pc \in {"weeklyRows", "store"} =>
           h.items.from = "rows" /\ h.now <= h.items.asOf /\ h.key.day <= h.items.bars.day
      /\ h.pc = "store" => h.key.week <= h.items.bars.week
      /\ h.pc = "answered" /\ h.items.from = "rows" =>
           h.items.asOf + TTL >= h.asked /\ UpTo(h.had, h.items.bars)

ApiInv ==
  /\ \A s \in Symbols : Sound(cache[s])
  /\ \A r \in Requests : Fits(req[r])

Newest(r) == /\ req[r].pc # "unsent"
             /\ \A q \in Requests : q > r => req[q].pc = "unsent"

InOrder == \A q, r \in Requests : q < r /\ req[q].pc = "unsent" => req[r].pc = "unsent"

NewestIsSelected ==
  page = "klines" /\ sel # None /\ ~error /\ ~overtaken =>
    \/ \E r \in Requests : Newest(r) /\ Sent(r) /\ req[r].view = sel
    \/ Quiet /\ (sel \in WithRows => drawn = sel)

PageInv == InOrder /\ NewestIsSelected

IInv == TypeOK /\ ApiInv /\ PageInv

-----------------------------------------------------------------------------
(* The records. *)

LEMMA UnsentType == Unsent \in Held /\ Unsent.pc = "unsent" /\ Unsent.asked = 0
                    /\ Unsent.had = NoBars /\ Unsent.items = NoItems
<1>1. (CHOOSE v \in Views : TRUE) \in Views
  BY ViewAssumption
<1>2. NoBars \in BarPair BY DEF NoBars, BarPair
<1>3. NoItems \in Items BY <1>2 DEF NoItems, Items
<1> QED BY <1>1, <1>2, <1>3 DEF Unsent, Held

\* A step of one handler: what it holds afterwards has its type and fits, for the
\* same request, which is neither forgotten nor taken.
Step(r, h) ==
  /\ req' = [req EXCEPT ![r] = h]
  /\ h \in Held /\ Fits(h) /\ h.view = req[r].view
  /\ req[r].pc \notin {"unsent", "shown"} /\ h.pc \notin {"unsent", "shown"}

LEMMA ReadRowsSteps ==
  ASSUME ApiTypeOK, ApiInv, NEW r \in Requests, ReadRows(r)
  PROVE  \E h : Step(r, h)
<1> DEFINE p == IF req[r].view \in WithRows THEN "day" ELSE "answered"
           h == [req[r] EXCEPT !.pc = p]
<1>1. req[r] \in Held /\ Fits(req[r]) /\ req[r].pc = "rows"
  BY DEF ApiTypeOK, ApiInv, ReadRows
<1>2. req' = [req EXCEPT ![r] = h]
  BY DEF ReadRows, Goes
<1>3. p \in {"day", "answered"}
  OBVIOUS
<1> HIDE DEF p
<1>4. h \in Held /\ h.view = req[r].view /\ h.pc = p /\ h.asked = req[r].asked
      /\ h.had = req[r].had /\ h.key = req[r].key /\ h.now = req[r].now /\ h.items = req[r].items
  BY <1>1, <1>3 DEF Held
<1> HIDE DEF h
<1>5. Fits(h)
  BY <1>1, <1>3, <1>4 DEF Fits, UpTo
<1> QED BY <1>1, <1>2, <1>3, <1>4, <1>5 DEF Step

\* What the steps that set some fields of h leave alone.
LEMMA LatestDaySteps ==
  ASSUME ApiTypeOK, ApiInv, NEW r \in Requests, ReadLatestDay(r)
  PROVE  \E h : Step(r, h)
<1> DEFINE new == latest[SymbolOfReq(r)]
           h == [req[r] EXCEPT !.pc = "week", !.key.day = new.day]
<1>1. req[r] \in Held /\ Fits(req[r]) /\ req[r].pc = "day"
  BY DEF ApiTypeOK, ApiInv, ReadLatestDay
<1>2. req' = [req EXCEPT ![r] = h]
  BY DEF ReadLatestDay, Goes
<1>3. new \in BarPair /\ new = latest[SymbolOf[req[r].view]]
  BY <1>1, KlineApiAssumption DEF ApiTypeOK, SymbolOfReq, Held
<1> HIDE DEF new
<1>4. /\ h \in Held /\ h.view = req[r].view /\ h.pc = "week" /\ h.asked = req[r].asked
      /\ h.had = req[r].had /\ h.key.day = new.day
      /\ h.now = req[r].now /\ h.items = req[r].items
  BY <1>1, <1>3 DEF Held, BarPair
<1> HIDE DEF h
<1>5. Fits(h)
  BY <1>1, <1>3, <1>4 DEF Fits, UpTo, Held, BarPair
<1> QED BY <1>1, <1>2, <1>4, <1>5 DEF Step

LEMMA LatestWeekSteps ==
  ASSUME ApiTypeOK, ApiInv, NEW r \in Requests, ReadLatestWeek(r)
  PROVE  \E h : Step(r, h)
<1> DEFINE new == latest[SymbolOfReq(r)]
           p == IF req[r].key.day # 0 /\ new.week # 0 THEN "lookup" ELSE "answered"
           h == [req[r] EXCEPT !.pc = p, !.key.week = new.week, !.now = clock]
<1>1. req[r] \in Held /\ Fits(req[r]) /\ req[r].pc = "week"
  BY DEF ApiTypeOK, ApiInv, ReadLatestWeek
<1>2. req' = [req EXCEPT ![r] = h]
  BY DEF ReadLatestWeek, Goes
<1>3. new \in BarPair /\ new = latest[SymbolOf[req[r].view]]
  BY <1>1, KlineApiAssumption DEF ApiTypeOK, SymbolOfReq, Held
<1>4. p \in {"lookup", "answered"}
  OBVIOUS
<1> HIDE DEF new, p
<1>5. /\ h \in Held /\ h.view = req[r].view /\ h.pc = p /\ h.asked = req[r].asked
      /\ h.had = req[r].had /\ h.key.day = req[r].key.day /\ h.key.week = new.week
      /\ h.now = clock /\ h.items = req[r].items
  BY <1>1, <1>3, <1>4 DEF Held, BarPair, ApiTypeOK
<1> HIDE DEF h
<1>6. Fits(h)
  BY <1>1, <1>3, <1>4, <1>5 DEF Fits, UpTo, Held, BarPair, ApiTypeOK
<1> QED BY <1>1, <1>2, <1>4, <1>5, <1>6 DEF Step

\* An entry that answers holds every bar its key names, and is young enough.
LEMMA LookupSteps ==
  ASSUME ApiTypeOK, ApiInv, NEW r \in Requests, Lookup(r)
  PROVE  \E h : Step(r, h)
<1> DEFINE entry == cache[SymbolOfReq(r)]
           hit == [req[r] EXCEPT !.pc = "answered", !.items = entry.items]
           miss == [req[r] EXCEPT !.pc = "dailyRows"]
<1>1. req[r] \in Held /\ Fits(req[r]) /\ req[r].pc = "lookup"
  BY DEF ApiTypeOK, ApiInv, Lookup
<1>2. entry \in Entries /\ Sound(entry)
  BY <1>1, KlineApiAssumption DEF ApiTypeOK, ApiInv, SymbolOfReq, Held
<1>3. CASE Current(entry, req[r]) /\ entry # NoEntry
  <2>1. req' = [req EXCEPT ![r] = hit]
    BY <1>3 DEF Lookup, Goes
  <2>2. entry.key = req[r].key /\ req[r].now - entry.at <= TTL
    BY <1>3 DEF Current
  <2> HIDE DEF entry
  <2>3. /\ hit \in Held /\ hit.view = req[r].view /\ hit.pc = "answered"
        /\ hit.asked = req[r].asked /\ hit.had = req[r].had /\ hit.items = entry.items
    BY <1>1, <1>2 DEF Held, Entries
  <2> HIDE DEF hit
  <2>4. Fits(hit)
    BY <1>1, <1>2, <2>2, <2>3, KlineApiAssumption
       DEF Fits, UpTo, Sound, Held, Entries, Items, BarPair, ApiTypeOK
  <2> QED BY <1>1, <2>1, <2>3, <2>4 DEF Step
<1>4. CASE ~(Current(entry, req[r]) /\ entry # NoEntry)
  <2>1. req' = [req EXCEPT ![r] = miss]
    BY <1>4 DEF Lookup, Goes
  <2> HIDE DEF entry
  <2>2. /\ miss \in Held /\ miss.view = req[r].view /\ miss.pc = "dailyRows"
        /\ miss.asked = req[r].asked /\ miss.had = req[r].had /\ miss.key = req[r].key
        /\ miss.now = req[r].now /\ miss.items = req[r].items
    BY <1>1 DEF Held
  <2> HIDE DEF miss
  <2>3. Fits(miss)
    BY <1>1, <2>2 DEF Fits
  <2> QED BY <1>1, <2>1, <2>2, <2>3 DEF Step
<1> QED BY <1>3, <1>4

LEMMA DailyRowsSteps ==
  ASSUME ApiTypeOK, ApiInv, NEW r \in Requests, ReadDailyRows(r)
  PROVE  \E h : Step(r, h)
<1> DEFINE new == latest[SymbolOfReq(r)]
           bars == [NoBars EXCEPT !.day = new.day]
           items == [from |-> "rows", asOf |-> clock, bars |-> bars]
           h == [req[r] EXCEPT !.pc = "weeklyRows", !.items = items]
<1>1. req[r] \in Held /\ Fits(req[r]) /\ req[r].pc = "dailyRows"
  BY DEF ApiTypeOK, ApiInv, ReadDailyRows
<1>2. req' = [req EXCEPT ![r] = h]
  BY DEF ReadDailyRows, Goes
<1>3. new \in BarPair /\ new = latest[SymbolOf[req[r].view]]
  BY <1>1, KlineApiAssumption DEF ApiTypeOK, SymbolOfReq, Held
<1> HIDE DEF new
<1>4. bars \in BarPair /\ bars.day = new.day
  BY <1>3 DEF BarPair, NoBars
<1> HIDE DEF bars
<1>5. items \in Items /\ items.from = "rows" /\ items.asOf = clock /\ items.bars = bars
  BY <1>4 DEF Items, ApiTypeOK
<1> HIDE DEF items
<1>6. /\ h \in Held /\ h.view = req[r].view /\ h.pc = "weeklyRows" /\ h.asked = req[r].asked
      /\ h.had = req[r].had /\ h.key = req[r].key /\ h.now = req[r].now /\ h.items = items
  BY <1>1, <1>5 DEF Held
<1> HIDE DEF h
<1>7. Fits(h)
  BY <1>1, <1>3, <1>4, <1>5, <1>6 DEF Fits
<1> QED BY <1>1, <1>2, <1>6, <1>7 DEF Step

LEMMA WeeklyRowsSteps ==
  ASSUME ApiTypeOK, ApiInv, NEW r \in Requests, ReadWeeklyRows(r)
  PROVE  \E h : Step(r, h)
<1> DEFINE new == latest[SymbolOfReq(r)]
           h == [req[r] EXCEPT !.pc = "store", !.items.bars.week = new.week]
<1>1. req[r] \in Held /\ Fits(req[r]) /\ req[r].pc = "weeklyRows"
  BY DEF ApiTypeOK, ApiInv, ReadWeeklyRows
<1>2. req' = [req EXCEPT ![r] = h]
  BY DEF ReadWeeklyRows, Goes
<1>3. new \in BarPair /\ new = latest[SymbolOf[req[r].view]]
  BY <1>1, KlineApiAssumption DEF ApiTypeOK, SymbolOfReq, Held
<1> HIDE DEF new
<1>4. /\ h \in Held /\ h.view = req[r].view /\ h.pc = "store" /\ h.asked = req[r].asked
      /\ h.had = req[r].had /\ h.key = req[r].key /\ h.now = req[r].now
      /\ h.items.from = req[r].items.from /\ h.items.asOf = req[r].items.asOf
      /\ h.items.bars.day = req[r].items.bars.day /\ h.items.bars.week = new.week
  BY <1>1, <1>3 DEF Held, Items, BarPair
<1> HIDE DEF h
<1>5. Fits(h)
  BY <1>1, <1>3, <1>4 DEF Fits
<1> QED BY <1>1, <1>2, <1>4, <1>5 DEF Step

LEMMA ReadStoredSteps ==
  ASSUME ApiTypeOK, ApiInv, NEW r \in Requests, ReadStored(r)
  PROVE  \E h : Step(r, h)
<1> DEFINE items == [NoItems EXCEPT !.from = "table"]
           h == [req[r] EXCEPT !.pc = "answered", !.items = items]
<1>1. req[r] \in Held /\ Fits(req[r]) /\ req[r].pc = "stored"
  BY DEF ApiTypeOK, ApiInv, ReadStored
<1>2. req' = [req EXCEPT ![r] = h]
  BY DEF ReadStored, Goes
<1>3. items \in Items /\ items.from = "table"
  BY DEF NoItems, NoBars, Items, BarPair
<1> HIDE DEF items
<1>4. /\ h \in Held /\ h.view = req[r].view /\ h.pc = "answered" /\ h.asked = req[r].asked
      /\ h.had = req[r].had /\ h.key = req[r].key /\ h.now = req[r].now /\ h.items = items
  BY <1>1, <1>3 DEF Held
<1> HIDE DEF h
<1>5. Fits(h)
  BY <1>1, <1>3, <1>4 DEF Fits
<1> QED BY <1>1, <1>2, <1>4, <1>5 DEF Step

LEMMA QueryFailsSteps ==
  ASSUME ApiTypeOK, ApiInv, NEW r \in Requests, QueryFails(r)
  PROVE  \E h : Step(r, h)
<1>1. req[r] \in Held /\ Fits(req[r])
  BY DEF ApiTypeOK, ApiInv
<1>2. ASSUME NEW p \in {"failed", "stored"}, req' = [req EXCEPT ![r].pc = p],
             req[r].pc \notin {"unsent", "shown"}
      PROVE  \E h : Step(r, h)
  <2> DEFINE h == [req[r] EXCEPT !.pc = p]
  <2>1. req' = [req EXCEPT ![r] = h]
    BY <1>2
  <2>2. /\ h \in Held /\ h.view = req[r].view /\ h.pc = p /\ h.asked = req[r].asked
        /\ h.had = req[r].had
    BY <1>1, <1>2 DEF Held
  <2> HIDE DEF h
  <2>3. Fits(h)
    BY <1>1, <1>2, <2>2 DEF Fits
  <2> QED BY <1>2, <2>1, <2>2, <2>3 DEF Step
<1>3. CASE req[r].pc = "stored"
  <2> DEFINE h == [req[r] EXCEPT !.pc = "answered", !.items = NoItems]
  <2>1. req' = [req EXCEPT ![r] = h]
    BY <1>3 DEF QueryFails
  <2>2. NoItems \in Items /\ NoItems.from = "none"
    BY DEF NoItems, NoBars, Items, BarPair
  <2>3. /\ h \in Held /\ h.view = req[r].view /\ h.pc = "answered" /\ h.asked = req[r].asked
        /\ h.had = req[r].had /\ h.items = NoItems
    BY <1>1, <2>2 DEF Held
  <2> HIDE DEF h
  <2>4. Fits(h)
    BY <1>1, <2>2, <2>3 DEF Fits
  <2> QED BY <1>3, <2>1, <2>3, <2>4 DEF Step
<1>4. CASE req[r].pc # "stored"
  BY <1>2, <1>4 DEF QueryFails
<1> QED BY <1>3, <1>4

LEMMA StoreSteps ==
  ASSUME ApiTypeOK, ApiInv, NEW r \in Requests, Store(r)
  PROVE  /\ \E h : Step(r, h)
         /\ \E s \in Symbols, e \in Entries :
              cache' = [cache EXCEPT ![s] = e] /\ Sound(e)
<1> DEFINE h == [req[r] EXCEPT !.pc = "answered"]
           e == [key |-> req[r].key, at |-> req[r].now, items |-> req[r].items]
<1>1. req[r] \in Held /\ Fits(req[r]) /\ req[r].pc = "store" /\ SymbolOfReq(r) \in Symbols
  BY KlineApiAssumption DEF ApiTypeOK, ApiInv, Store, SymbolOfReq, Held
<1>2. req' = [req EXCEPT ![r] = h] /\ cache' = [cache EXCEPT ![SymbolOfReq(r)] = e]
  BY DEF Store, Entry
<1>3. /\ h \in Held /\ h.view = req[r].view /\ h.pc = "answered" /\ h.asked = req[r].asked
      /\ h.had = req[r].had /\ h.items = req[r].items
  BY <1>1 DEF Held
<1>4. /\ e \in Entries /\ e.key = req[r].key /\ e.at = req[r].now /\ e.items = req[r].items
  BY <1>1 DEF Held, Entries
<1> HIDE DEF h, e
<1>5. Sound(e)
  BY <1>1, <1>4 DEF Fits, Sound, UpTo
<1>6. Fits(h)
  BY <1>1, <1>3, KlineApiAssumption DEF Fits, UpTo, Held, Items, BarPair, ApiTypeOK
<1> QED BY <1>1, <1>2, <1>3, <1>4, <1>5, <1>6 DEF Step

-----------------------------------------------------------------------------
(* The steps of the server. *)

\* What fits goes on to fit when time passes or a bar is added.
LEMMA FitsLater ==
  ASSUME ApiTypeOK, NEW h \in Held, Fits(h), clock' \in Nat, clock <= clock',
         latest' \in [Symbols -> BarPair],
         \A s \in Symbols : UpTo(latest[s], latest'[s])
  PROVE  Fits(h)'
<1>1. SymbolOf[h.view] \in Symbols
  BY KlineApiAssumption DEF Held
<1> QED BY <1>1, KlineApiAssumption DEF ApiTypeOK, Fits, UpTo, Held, Items, BarPair

LEMMA BesideKeeps ==
  ASSUME ApiTypeOK, ApiInv, Tick \/ \E s \in Symbols : AddBar(s)
  PROVE  ApiTypeOK' /\ ApiInv' /\ UNCHANGED req
<1>1. /\ clock' \in Nat /\ clock <= clock' /\ UNCHANGED <<cache, req>>
      /\ latest' \in [Symbols -> BarPair]
      /\ \A s \in Symbols : UpTo(latest[s], latest'[s])
  <2>1. CASE Tick
    BY <2>1 DEF Tick, ApiTypeOK, UpTo, BarPair
  <2>2. ASSUME NEW s \in Symbols, AddBar(s) PROVE <1>1!:
    <3>1. PICK bars \in {[latest[s] EXCEPT !.day = @ + 1], [latest[s] EXCEPT !.week = @ + 1]} :
            latest' = [latest EXCEPT ![s] = bars]
      BY <2>2 DEF AddBar
    <3>2. bars \in BarPair /\ UpTo(latest[s], bars)
      BY DEF ApiTypeOK, UpTo, BarPair
    <3> QED BY <2>2, <3>1, <3>2 DEF AddBar, ApiTypeOK, UpTo, BarPair
  <2> QED BY <2>1, <2>2
<1>2. \A r \in Requests : Fits(req[r])'
  BY <1>1, FitsLater DEF ApiTypeOK, ApiInv
<1>3. \A s \in Symbols : Sound(cache[s])'
  BY <1>1 DEF ApiInv, Sound
<1> QED BY <1>1, <1>2, <1>3 DEF ApiTypeOK, ApiInv

\* One record of req replaced by another one that fits.
LEMMA ReplaceKeeps ==
  ASSUME ApiTypeOK, ApiInv, NEW r \in Requests, NEW h \in Held, Fits(h),
         req' = [req EXCEPT ![r] = h], UNCHANGED <<clock, latest>>,
         \/ UNCHANGED cache
         \/ \E s \in Symbols, e \in Entries : cache' = [cache EXCEPT ![s] = e] /\ Sound(e)
  PROVE  ApiTypeOK' /\ ApiInv' /\ req'[r] = h /\ \A q \in Requests : q # r => req'[q] = req[q]
<1>1. cache' \in [Symbols -> Entries] /\ \A s \in Symbols : Sound(cache[s])'
  BY DEF ApiTypeOK, ApiInv, Sound
<1>2. req' \in [Requests -> Held] /\ req'[r] = h /\ \A q \in Requests : q # r => req'[q] = req[q]
  BY DEF ApiTypeOK
<1>3. \A q \in Requests : Fits(req[q])'
  BY <1>2 DEF ApiInv, Fits
<1> QED BY <1>1, <1>2, <1>3 DEF ApiTypeOK, ApiInv

LEMMA HandlerKeeps ==
  ASSUME ApiTypeOK, ApiInv, NEW r \in Requests, Handler(r)
  PROVE  /\ ApiTypeOK' /\ ApiInv'
         /\ \A q \in Requests :
              /\ req'[q].view = req[q].view
              /\ req'[q].pc = "unsent" <=> req[q].pc = "unsent"
              /\ Sent(q)' <=> Sent(q)
<1>1. \E h : Step(r, h)
  BY ReadRowsSteps, LatestDaySteps, LatestWeekSteps, LookupSteps, DailyRowsSteps,
     WeeklyRowsSteps, StoreSteps, QueryFailsSteps, ReadStoredSteps DEF Handler
<1>2. PICK h : Step(r, h)
  BY <1>1
<1>3. UNCHANGED <<clock, latest>>
  BY DEF Handler, ReadRows, ReadLatestDay, ReadLatestWeek, Lookup, ReadDailyRows,
         ReadWeeklyRows, Store, QueryFails, ReadStored, Goes
<1>4. \/ UNCHANGED cache
      \/ \E s \in Symbols, e \in Entries : cache' = [cache EXCEPT ![s] = e] /\ Sound(e)
  <2>1. CASE Store(r)
    BY <2>1, StoreSteps
  <2>2. CASE ~Store(r)
    BY <2>2 DEF Handler, ReadRows, ReadLatestDay, ReadLatestWeek, Lookup, ReadDailyRows,
                ReadWeeklyRows, QueryFails, ReadStored, Goes
  <2> QED BY <2>1, <2>2
<1>5. /\ ApiTypeOK' /\ ApiInv' /\ req'[r] = h
      /\ \A q \in Requests : q # r => req'[q] = req[q]
  BY <1>2, <1>3, <1>4, ReplaceKeeps DEF Step
<1> QED BY <1>2, <1>5 DEF Step, Sent

\* A request that is sent is the newest one.
LEMMA AskKeeps ==
  ASSUME ApiTypeOK, ApiInv, InOrder, NEW r \in Requests, NEW v \in Views, Ask(r, v)
  PROVE  /\ ApiTypeOK' /\ ApiInv' /\ InOrder'
         /\ Newest(r)' /\ Sent(r)' /\ req'[r].view = v
<1> DEFINE had == latest[SymbolOf[v]]
           h == [Unsent EXCEPT !.pc = "rows", !.view = v, !.asked = clock, !.had = had]
<1>1. had \in BarPair
  BY KlineApiAssumption DEF ApiTypeOK
<1>2. req' = [req EXCEPT ![r] = h] /\ UNCHANGED <<clock, latest, cache>>
  BY DEF Ask
<1>3. had = latest[SymbolOf[v]]
  OBVIOUS
<1> HIDE DEF had
<1>4. /\ h \in Held /\ h.view = v /\ h.pc = "rows" /\ h.asked = clock /\ h.had = had
      /\ h.items.from = "none"
  <2>1. PICK u \in Held : u = Unsent /\ u.items = NoItems
    BY UnsentType
  <2>2. h = [u EXCEPT !.pc = "rows", !.view = v, !.asked = clock, !.had = had]
    BY <2>1
  <2>3. NoItems.from = "none"
    BY DEF NoItems
  <2> QED BY <1>1, <2>1, <2>2, <2>3 DEF Held, ApiTypeOK
<1> HIDE DEF h
<1>5. Fits(h)
  BY <1>1, <1>3, <1>4 DEF Fits, UpTo, BarPair, ApiTypeOK
<1>6. /\ ApiTypeOK' /\ ApiInv' /\ req'[r] = h
      /\ \A q \in Requests : q # r => req'[q] = req[q]
  BY <1>2, <1>4, <1>5, ReplaceKeeps
<1>7. /\ req[r].pc = "unsent" /\ \A q \in Requests : q < r => req[q].pc # "unsent"
      /\ \A q \in Requests : q > r => req[q].pc = "unsent"
  BY KlineApiAssumption DEF Ask, InOrder
<1>8. InOrder'
  BY <1>4, <1>6, <1>7, KlineApiAssumption DEF InOrder
<1>9. Newest(r)' /\ Sent(r)'
  BY <1>4, <1>6, <1>7, KlineApiAssumption DEF Newest, Sent
<1> QED BY <1>4, <1>6, <1>8, <1>9

\* A request whose answer is taken.
LEMMA TakeKeeps ==
  ASSUME ApiTypeOK, ApiInv, InOrder, NEW r \in Requests, Sent(r),
         req' = [req EXCEPT ![r] = Shown], UNCHANGED <<clock, latest, cache>>
  PROVE  /\ ApiTypeOK' /\ ApiInv' /\ InOrder' /\ ~Sent(r)'
         /\ \A q \in Requests : q # r => req'[q] = req[q]
<1>1. /\ Shown \in Held /\ Shown.pc = "shown" /\ Shown.asked = 0
      /\ Shown.had = NoBars /\ Shown.items = NoItems
  BY UnsentType DEF Shown, Held
<1>2. Fits(Shown)
  BY <1>1, KlineApiAssumption
     DEF Fits, UpTo, NoBars, NoItems, Held, BarPair, ApiTypeOK
<1>3. /\ ApiTypeOK' /\ ApiInv' /\ req'[r] = Shown
      /\ \A q \in Requests : q # r => req'[q] = req[q]
  BY <1>1, <1>2, ReplaceKeeps
<1>4. InOrder'
  BY <1>1, <1>3 DEF InOrder, Sent
<1> QED BY <1>1, <1>3, <1>4 DEF Sent

-----------------------------------------------------------------------------
(* The steps of the page. *)

LEMMA InitIsSound == Init => IInv
<1> SUFFICES ASSUME Init PROVE IInv
  OBVIOUS
<1> USE DEF Init, ApiInit
<1>1. NoBars \in BarPair /\ NoItems \in Items /\ NoEntry \in Entries /\ NoEntry.items.from = "none"
  BY DEF NoBars, NoItems, NoEntry, BarPair, Items, Entries
<1>2. ApiTypeOK
  BY <1>1, UnsentType DEF ApiTypeOK, BarPair
<1>3. \A s \in Symbols : Sound(cache[s])
  BY <1>1 DEF Sound
<1>4. Fits(Unsent)
  <2>1. Unsent \in Held /\ SymbolOf[Unsent.view] \in Symbols
    BY UnsentType, KlineApiAssumption DEF Held
  <2> QED BY <1>1, <1>2, <2>1, UnsentType, KlineApiAssumption
             DEF Fits, UpTo, NoBars, NoItems, ApiTypeOK, BarPair
<1>5. InOrder /\ NewestIsSelected
  BY UnsentType DEF InOrder, NewestIsSelected
<1> QED BY <1>2, <1>3, <1>4, <1>5 DEF IInv, TypeOK, ApiInv, PageInv

\* A step of the server leaves the newest request newest and on its way.
LEMMA ServerKeepsPage ==
  ASSUME PageInv, UNCHANGED pageVars,
         \A q \in Requests : /\ req'[q].view = req[q].view
                             /\ req'[q].pc = "unsent" <=> req[q].pc = "unsent"
                             /\ Sent(q)' <=> Sent(q)
  PROVE  PageInv'
<1>1. InOrder'
  BY DEF PageInv, InOrder
<1>2. Quiet' <=> Quiet
  BY DEF Quiet
<1>3. \A q \in Requests : Newest(q)' <=> Newest(q)
  BY DEF Newest
<1>4. NewestIsSelected'
  BY <1>2, <1>3 DEF PageInv, NewestIsSelected, pageVars
<1> QED BY <1>1, <1>4 DEF PageInv

\* A load asks for the selected view.
LEMMA LoadKeeps ==
  ASSUME ApiTypeOK, ApiInv, InOrder, NEW v \in Views, Load(v), sel' = v,
         page' \in {"klines", "feargreed"}
  PROVE  IInv'
<1>1. PICK r \in Requests : Ask(r, v)
  BY DEF Load
<1> QED BY <1>1, AskKeeps DEF IInv, TypeOK, PageInv, NewestIsSelected

\* Until the first answer is awaited, or while another page is shown, nothing is
\* promised.
LEMMA ElsewhereKeeps ==
  ASSUME IInv, UNCHANGED apiVars, page' \in {"klines", "feargreed"},
         sel' = None \/ page' # "klines" \/ error'
  PROVE  IInv'
<1>1. ApiTypeOK' /\ ApiInv' /\ InOrder'
  BY DEF IInv, TypeOK, PageInv, apiVars, ApiTypeOK, ApiInv, InOrder, Fits, Sound
<1>2. NewestIsSelected'
  BY DEF NewestIsSelected
<1> QED BY <1>1, <1>2 DEF IInv, TypeOK, PageInv

LEMMA ArriveKeeps ==
  ASSUME IInv, NEW r \in Requests, Arrive(r)
  PROVE  IInv'
<1>1. /\ ApiTypeOK' /\ ApiInv' /\ InOrder' /\ ~Sent(r)'
      /\ \A q \in Requests : q # r => req'[q] = req[q]
  BY TakeKeeps DEF IInv, TypeOK, PageInv, Arrive, Sent
<1>2. NewestIsSelected'
  <2> SUFFICES ASSUME page' = "klines", sel' # None, ~error', ~overtaken'
               PROVE  \/ \E q \in Requests : Newest(q)' /\ Sent(q)' /\ req'[q].view = sel'
                      \/ Quiet' /\ (sel' \in WithRows => drawn' = sel')
    BY DEF NewestIsSelected
  <2>1. page = "klines" /\ sel' = sel /\ ~error /\ ~overtaken /\ Sent(r)
    BY DEF Arrive, Sent
  <2>2. PICK n \in Requests : Newest(n) /\ Sent(n) /\ req[n].view = sel
    BY <2>1 DEF IInv, PageInv, NewestIsSelected, Quiet, Arrive
  <2>3. CASE n = r
    <3>1. \A q \in Requests : q # r => ~Sent(q)
      <4>1. ~\E q \in Requests : q < r /\ Sent(q)
        BY DEF Arrive
      <4>2. \A q \in Requests : q > r => ~Sent(q)
        BY <2>2, <2>3 DEF Newest, Sent
      <4> QED BY <4>1, <4>2, KlineApiAssumption
    <3>2. Quiet'
      BY <1>1, <3>1 DEF Quiet, Sent
    <3>3. sel' \in WithRows => drawn' = sel'
      BY <2>1, <2>2, <2>3 DEF Arrive, Drawn
    <3> QED BY <3>2, <3>3
  <2>4. CASE n # r
    <3>1. req'[n] = req[n] /\ req'[r].pc = "shown" /\ \A q \in Requests : q # r => req'[q] = req[q]
      <4>1. req'[r] = Shown /\ Shown.pc = "shown"
        BY UnsentType DEF Arrive, Shown, IInv, TypeOK, ApiTypeOK, Held
      <4> QED BY <1>1, <2>4, <4>1
    <3>2. Newest(n)' /\ Sent(n)'
      BY <2>1, <2>2, <2>4, <3>1, KlineApiAssumption DEF Newest, Sent
    <3> QED BY <2>1, <2>2, <3>1, <3>2
  <2> QED BY <2>3, <2>4
<1>3. page' \in {"klines", "feargreed"}
  BY DEF IInv, TypeOK, Arrive
<1> QED BY <1>1, <1>2, <1>3 DEF IInv, TypeOK, PageInv

LEMMA FailKeeps ==
  ASSUME IInv, NEW r \in Requests, Fail(r)
  PROVE  IInv'
<1>1. ApiTypeOK' /\ ApiInv' /\ InOrder'
  BY TakeKeeps DEF IInv, TypeOK, PageInv, Fail, Sent
<1>2. NewestIsSelected' /\ page' \in {"klines", "feargreed"}
  BY DEF NewestIsSelected, Fail, IInv, TypeOK
<1> QED BY <1>1, <1>2 DEF IInv, TypeOK, PageInv

\* sel is None or a view.
SelOK == sel \in Views \cup {None}

LEMMA NextKeeps == IInv /\ SelOK /\ [Next]_vars => IInv' /\ SelOK'
<1> SUFFICES ASSUME IInv, SelOK, [Next]_vars PROVE IInv' /\ SelOK'
  OBVIOUS
<1> USE DEF IInv, TypeOK, PageInv
<1>1. CASE ApiNext /\ UNCHANGED pageVars
  <2>1. ApiTypeOK' /\ ApiInv' /\ PageInv'
    <3>1. CASE Tick \/ \E s \in Symbols : AddBar(s)
      <4>1. ApiTypeOK' /\ ApiInv' /\ UNCHANGED req
        BY <3>1, BesideKeeps
      <4>2. PageInv'
        BY <1>1, <4>1, ServerKeepsPage DEF Sent
      <4> QED BY <4>1, <4>2
    <3>2. ASSUME NEW r \in Requests, Handler(r) PROVE <2>1!:
      BY <1>1, <3>2, HandlerKeeps, ServerKeepsPage
    <3> QED BY <1>1, <3>1, <3>2 DEF ApiNext
  <2> QED BY <1>1, <2>1 DEF pageVars, SelOK
<1>2. CASE OpenPage
  <2>1. CASE page = "klines"
    BY <1>2, <2>1, ViewAssumption, LoadKeeps DEF OpenPage, SelOK
  <2>2. CASE page # "klines"
    BY <1>2, <2>2, ViewAssumption, ElsewhereKeeps DEF OpenPage, SelOK
  <2> QED BY <2>1, <2>2
<1>3. CASE OpenFails
  <2>1. ApiTypeOK' /\ ApiInv' /\ InOrder'
    BY <1>3 DEF OpenFails, ApiTypeOK, ApiInv, InOrder, Fits, Sound
  <2>2. NewestIsSelected' /\ page' = page /\ sel' = sel
    BY <1>3 DEF OpenFails, NewestIsSelected
  <2> QED BY <2>1, <2>2 DEF SelOK
<1>4. CASE Refresh
  BY <1>4, LoadKeeps DEF Refresh, SelOK
<1>5. CASE Leave
  BY <1>5, ElsewhereKeeps DEF Leave, SelOK
<1>6. CASE Return
  <2>1. CASE sel # None
    BY <1>6, <2>1, LoadKeeps DEF Return, SelOK
  <2>2. CASE sel = None
    BY <1>6, <2>2, ElsewhereKeeps DEF Return, SelOK
  <2> QED BY <2>1, <2>2
<1>7. ASSUME NEW v \in Views, Choose(v) PROVE IInv' /\ SelOK'
  BY <1>7, LoadKeeps DEF Choose, SelOK
<1>8. ASSUME NEW r \in Requests, Arrive(r) PROVE IInv' /\ SelOK'
  BY <1>8, ArriveKeeps DEF Arrive, SelOK
<1>9. ASSUME NEW r \in Requests, Fail(r) PROVE IInv' /\ SelOK'
  BY <1>9, FailKeeps DEF Fail, SelOK
<1>10. CASE UNCHANGED vars
  BY <1>10 DEF vars, apiVars, pageVars, ApiTypeOK, ApiInv, InOrder, Fits, Sound, Newest, Sent,
               NewestIsSelected, Quiet, SelOK
<1> QED BY <1>1, <1>2, <1>3, <1>4, <1>5, <1>6, <1>7, <1>8, <1>9, <1>10 DEF Next

LEMMA Invariance == Spec => [](IInv /\ SelOK)
<1>1. Init => IInv /\ SelOK
  BY InitIsSound DEF Init, SelOK
<1> QED BY <1>1, NextKeeps, PTL DEF Spec

-----------------------------------------------------------------------------

\* Every variable of the page and of the server keeps its type.
THEOREM TypeCorrect == Spec => [](TypeOK /\ SelOK)
<1>1. IInv /\ SelOK => TypeOK /\ SelOK
  BY DEF IInv
<1> QED BY <1>1, Invariance, PTL

\* No answer stands on rows read longer before its request than the cache lives
\* (regime_runtime.go:56), however slow a handler and however many of them.
THEOREM AnswersAreRecent == Spec => []AnswerIsRecent
<1>1. IInv /\ SelOK => AnswerIsRecent
  BY DEF IInv, ApiInv, Fits, AnswerIsRecent, Computed
<1> QED BY <1>1, Invariance, PTL

\* No answer misses a bar stored before its request was sent
\* (regime_runtime.go:37-49, :98).
THEOREM AnswersCoverBars == Spec => []AnswerCoversBars
<1>1. IInv /\ SelOK => AnswerCoversBars
  BY DEF IInv, ApiInv, Fits, UpTo, AnswerCoversBars, Computed
<1> QED BY <1>1, Invariance, PTL

\* The chart follows the selection (App.tsx:54-73), for any number of selections
\* and answers, with the two exceptions of the code.
THEOREM SelectionIsFollowed == Spec => []ChartFollowsSelection
<1>1. IInv /\ SelOK => ChartFollowsSelection
  BY KlineApiAssumption, ViewAssumption DEF IInv, PageInv, NewestIsSelected, ChartFollowsSelection, Quiet
<1> QED BY <1>1, Invariance, PTL
=============================================================================
