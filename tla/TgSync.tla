------------------------------- MODULE TgSync -------------------------------
(***************************************************************************)
(* "tgsync": one process walks the history of a Telegram channel from the  *)
(* newest message down, page by page, keeps what it reads in memory and    *)
(* renders index.md and index.html at the end.  An offset file names the   *)
(* last page read; a process that finds one goes on from there.            *)
(***************************************************************************)
EXTENDS Integers, SequencesExt

CONSTANTS
  PageSize,
  Limits,        \* values of --limit; 0 is none
  AuthTries, ResolveTries, HistoryTries,
  FirstMessages, \* length of the channel when the first process starts
  MaxMessages,   \* bound: length of the channel
  LaterKinds,    \* bound: the kinds of messages that are published later
  MaxTroubles    \* bound: failed calls, failed writes, kills

\* What matters of a message: "media" has no text, "spam" is filtered, "out" is
\* outgoing, "service" (a pin, a new title) is no tg.Message at all.
Kinds == {"text", "media", "spam", "out", "service"}

ASSUME SyncAssumption ==
  /\ {PageSize, AuthTries, ResolveTries, HistoryTries} \subseteq Nat \ {0}
  /\ Limits \subseteq Nat /\ MaxTroubles \in Nat
  /\ FirstMessages \in 0..MaxMessages /\ MaxMessages \in Nat
  /\ LaterKinds \subseteq Kinds

VARIABLES
  channel,   \* the messages; a message's ID is its index
  file,      \* OffsetID of the state file, 0 without one
  md, html,  \* the two pages: see Page
  pc,
  run,       \* what the process knows
  seen,      \* history: messages read since a process last started from the top
  newest,    \* history: the newest message when that process read its first page
  troubles

vars == <<channel, file, md, html, pc, run, seen, newest, troubles>>

\* upper: the first message not to be read; cut: why the walk ended before the
\* oldest message; lost: messages whose media could not be loaded.
NoRun == [limit |-> 0, upper |-> 0, offset |-> 0, batch |-> <<>>, records |-> <<>>,
          tries |-> 0, cut |-> "none", lost |-> {}]

\* A page keeps, besides its messages, what the process knew when it wrote them, and
\* whether it wrote all of it.
NoPage == [ids |-> <<>>, upper |-> 1, to |-> 1, cut |-> "none", lost |-> {}, whole |-> TRUE]

Init ==
  /\ channel \in [1..FirstMessages -> Kinds]
  /\ file = 0
  /\ md = NoPage /\ html = NoPage
  /\ pc = "idle"
  /\ run = NoRun
  /\ seen = {} /\ newest = 0
  /\ troubles = 0

-----------------------------------------------------------------------------
(* Calls that fail. *)

Trouble == troubles < MaxTroubles /\ troubles' = troubles + 1

Exit == pc' = "idle" /\ run' = NoRun

Disk == <<file, md, html>>
History == <<seen, newest>>

\* One more try, or the error ends the process.
Retry(max) ==
  IF run.tries + 1 < max THEN pc' = pc /\ run' = [run EXCEPT !.tries = @ + 1] ELSE Exit

\* authWithRetry: only an expired code is tried again.
AuthFails(expired) ==
  /\ pc = "auth" /\ Trouble
  /\ IF expired THEN Retry(AuthTries) ELSE Exit
  /\ UNCHANGED <<channel, Disk, History>>

\* resolveChannelWithRetry, getHistoryWithRetry: any error, after a wait that the
\* 90 minutes of the context may cut short.
CallFails(timeout) ==
  /\ pc \in {"resolve", "history"} /\ Trouble
  /\ IF timeout THEN Exit ELSE Retry(IF pc = "resolve" THEN ResolveTries ELSE HistoryTries)
  /\ UNCHANGED <<channel, Disk, History>>

-----------------------------------------------------------------------------
(* SyncChannel. *)

Start(limit) ==
  /\ pc = "idle"
  /\ pc' = "auth"
  /\ run' = [NoRun EXCEPT !.limit = limit]
  /\ UNCHANGED <<channel, Disk, History, troubles>>

Auth ==
  /\ pc = "auth"
  /\ pc' = "resolve"
  /\ run' = [run EXCEPT !.tries = 0]
  /\ UNCHANGED <<channel, Disk, History, troubles>>

\* collectMessages begins: the offset file decides where.
Resolve ==
  /\ pc = "resolve"
  /\ pc' = "history"
  /\ run' = [run EXCEPT !.tries = 0, !.offset = file, !.upper = file]
  /\ UNCHANGED <<channel, Disk, History, troubles>>

\* The newest messages below an offset, newest first; 0 is the top.
Below(offset) ==
  LET top == IF offset = 0 THEN Len(channel) ELSE offset - 1
      n   == IF top < PageSize THEN top ELSE PageSize
  IN  [i \in 1..n |-> top + 1 - i]

\* getHistoryWithRetry succeeds.  The first page from the top fixes what is newest.
GetHistory ==
  /\ pc = "history"
  /\ LET batch == Below(run.offset)
     IN  /\ pc' = IF batch = <<>> THEN "remove" ELSE "page"
         /\ IF run.upper = 0
            THEN /\ run' = [run EXCEPT !.tries = 0, !.batch = batch, !.upper = Len(channel) + 1]
                 /\ seen' = {} /\ newest' = Len(channel)
            ELSE /\ run' = [run EXCEPT !.tries = 0, !.batch = batch]
                 /\ UNCHANGED History
  /\ UNCHANGED <<channel, Disk, troubles>>

\* What a loop over s leaves that appends the members of keep.
Kept(s, keep) ==
  LET kept[n \in 0..Len(s)] ==
        IF n = 0 THEN <<>>
        ELSE IF s[n] \in keep THEN Append(kept[n - 1], s[n]) ELSE kept[n - 1]
  IN  kept[Len(s)]

Messages(batch) == Kept(batch, {i \in DOMAIN channel : channel[i] # "service"})

\* What becomes a record: text, or media that was loaded.
Recorded(ids, lost) ==
  Kept(ids, {i \in DOMAIN channel : channel[i] \in {"text", "media"}} \ lost)

\* The limit is looked at before each message but the outgoing ones: the walk ends
\* at the first one after as many records as there is room for.
EndsAtLimit(ids, lost) ==
  /\ run.limit > 0
  /\ \E j \in 1..Len(ids) :
       channel[ids[j]] # "out" /\ Len(run.records \o Recorded(SubSeq(ids, 1, j - 1), lost)) >= run.limit

FirstOf(s, n) == SubSeq(s, 1, IF n < Len(s) THEN n ELSE Len(s))

\* (mutant: a page of service messages moves the offset to 0)
AfterPageBlind(ids) == "save"

\* minID is 0 when the page holds no tg.Message: the code takes that for the end
\* of the history, and for the end when the offset does not move.
AfterPage(ids) ==
  IF ids = <<>> \/ ids[Len(ids)] = run.offset THEN "remove" ELSE "save"

\* (mutant: one below, as if the offset belonged to the next page)
OneBelowLowest(ids) == IF ids = <<>> THEN 0 ELSE ids[Len(ids)] - 1

\* (mutant: the newest message of the page)
HighestOf(ids) == IF ids = <<>> THEN 0 ELSE ids[1]

LowestOf(ids) == IF ids = <<>> THEN 0 ELSE ids[Len(ids)]

\* One page.  Media that cannot be loaded are only logged.
ReadPage(lost) ==
  LET ids == Messages(run.batch)
      all == run.records \o Recorded(ids, lost)
  IN  /\ pc = "page"
      /\ lost \subseteq {i \in ToSet(ids) : channel[i] = "media"}
      /\ IF lost = {} THEN UNCHANGED troubles ELSE Trouble
      /\ seen' = seen \union ToSet(run.batch)
      /\ IF EndsAtLimit(ids, lost)
         THEN /\ run' = [run EXCEPT !.records = FirstOf(all, run.limit), !.cut = "limit",
                                    !.lost = @ \union lost]
              /\ pc' = "md"
         ELSE /\ run' = [run EXCEPT !.records = all, !.lost = @ \union lost,
                                    !.cut = IF ids = <<>> THEN "service" ELSE @,
                                    !.offset = IF ids = <<>> THEN @ ELSE LowestOf(ids)]
              /\ pc' = AfterPage(ids)
      /\ UNCHANGED <<channel, Disk, newest>>

\* saveSyncState; a failure is only logged.  os.WriteFile empties the file before it
\* writes, and what does not parse (0) is as good as no file to loadSyncState.
SaveState(fails) ==
  /\ pc = "save"
  /\ IF fails THEN Trouble /\ file' \in {file, 0}
     ELSE file' = run.offset /\ UNCHANGED troubles
  /\ pc' = "history"
  /\ UNCHANGED <<channel, md, html, run, History>>

\* os.Remove; a failure is only logged.
RemoveState(fails) ==
  /\ pc = "remove"
  /\ IF fails /\ file # 0 THEN Trouble /\ UNCHANGED file
     ELSE file' = 0 /\ UNCHANGED troubles
  /\ pc' = "md"
  /\ UNCHANGED <<channel, md, html, run, History>>

\* renderMarkdown and renderHTML overwrite the pages with the records of this
\* process.
Page == [ids |-> run.records, upper |-> run.upper,
         to |-> IF run.cut = "none" THEN 1
                ELSE IF run.cut = "limit" THEN Last(run.records)
                ELSE IF run.offset = 0 THEN run.upper ELSE run.offset,
         cut |-> run.cut, lost |-> run.lost, whole |-> TRUE]

RenderMarkdown ==
  /\ pc = "md"
  /\ md' = Page
  /\ pc' = "html"
  /\ UNCHANGED <<channel, file, html, run, History, troubles>>

RenderHTML ==
  /\ pc = "html"
  /\ html' = Page
  /\ Exit
  /\ UNCHANGED <<channel, file, md, History, troubles>>

-----------------------------------------------------------------------------
(* Writes cut short. *)

\* os.WriteFile empties the old page before it writes the new one: a write that
\* fails or is killed leaves the old page or any beginning of the new one.
Broken(old) ==
  {old} \union {[Page EXCEPT !.ids = FirstOf(run.records, n), !.whole = FALSE] :
                  n \in 0..Len(run.records)}

\* The file that is being written when the process ends.
CutShort ==
  /\ file' \in IF pc = "save" THEN {file, 0} ELSE {file}
  /\ md' \in IF pc = "md" THEN Broken(md) ELSE {md}
  /\ html' \in IF pc = "html" THEN Broken(html) ELSE {html}

RenderFails ==
  /\ pc \in {"md", "html"} /\ Trouble
  /\ CutShort /\ Exit
  /\ UNCHANGED <<channel, History>>

Kill ==
  /\ pc # "idle" /\ Trouble
  /\ CutShort /\ Exit
  /\ UNCHANGED <<channel, History>>

-----------------------------------------------------------------------------
Publish(kind) ==
  /\ Len(channel) < MaxMessages
  /\ channel' = Append(channel, kind)
  /\ UNCHANGED <<Disk, pc, run, History, troubles>>

Pages == SUBSET (1..MaxMessages)

Step ==
  \/ Auth \/ Resolve \/ GetHistory
  \/ \E lost \in Pages : ReadPage(lost)
  \/ \E fails \in BOOLEAN : SaveState(fails)
  \/ \E fails \in BOOLEAN : RemoveState(fails)
  \/ RenderMarkdown \/ RenderHTML

Next ==
  \/ \E limit \in Limits : Start(limit)
  \/ Step
  \/ \E b \in BOOLEAN : AuthFails(b)
  \/ \E b \in BOOLEAN : CallFails(b)
  \/ RenderFails \/ Kill
  \/ \E kind \in LaterKinds : Publish(kind)

\* A process that runs goes on: every call returns, the waits are bounded.
Spec == Init /\ [][Next]_vars /\ WF_vars(Step)

-----------------------------------------------------------------------------
\* The offset file never steps over a page: every message from it up was read by
\* one of the processes since the walk began at the top, whatever was killed.
OffsetSkipsNothing ==
  file # 0 => \A i \in file..newest : i \in seen

Between(lo, hi) == [i \in 1..(hi - lo + 1) |-> hi + 1 - i]

\* A page that was written to its end holds each message of the channel once, newest
\* first, from where its process began down to where it ended, less the media it
\* could not load; one whose write failed or was killed, which costs the old page, a
\* beginning of that.  It misses what a process read that was stopped before (upper),
\* what is beyond the limit, and what is below a page of service messages (to).
PageIsTheHistory ==
  \A p \in {md, html} :
    LET history == Recorded(Between(p.to, p.upper - 1), p.lost) IN
    /\ IsPrefix(p.ids, history)
    /\ p.whole => p.ids = history

\* A process that is not killed ends: the offset falls with every page, and a page
\* that does not move it is the last.
SyncEnds == (pc # "idle") ~> (pc = "idle")
=============================================================================
