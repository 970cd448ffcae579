----------------------------- MODULE MarketView -----------------------------
(***************************************************************************)
(* The page of the browser on the answers of KlineApi: the App component   *)
(* with its state, and the chart it draws.  A request is sent for every    *)
(* selection, answers arrive in any order or not at all, and nothing ties  *)
(* an answer to the selection it is shown under.                           *)
(***************************************************************************)
EXTENDS KlineApi

CONSTANTS
  FirstView   \* the view the page opens with

\* No view, no bars.
None == "NONE"

ASSUME ViewAssumption == FirstView \in Views /\ None \notin Views

VARIABLES
  page,       \* "klines" or "feargreed"
  sel,        \* the selected view, None until the lists of symbols arrive
  klines,     \* the view whose answer App holds, None at first
  drawn,      \* the view whose bars the chart shows, None for an empty chart
  loading,
  error,      \* TRUE: an error is shown
  overtaken   \* TRUE: an answer was shown before that of an older request

pageVars == <<page, sel, klines, drawn, loading, error, overtaken>>
vars == <<apiVars, pageVars>>

Init ==
  /\ ApiInit
  /\ page = "klines" /\ sel = None /\ klines = None /\ drawn = None
  /\ loading = FALSE /\ error = FALSE /\ overtaken = FALSE

-----------------------------------------------------------------------------
(* What the user does. *)

\* A request whose answer was taken, and that is of no more use.
Shown == [Unsent EXCEPT !.pc = "shown"]

Sent(r) == req[r].pc \notin {"unsent", "shown"}
Quiet   == \A r \in Requests : ~Sent(r)

\* loadKLines: the flags of an earlier request are overwritten.
Load(v) ==
  /\ \E r \in Requests : Ask(r, v)
  /\ loading' = TRUE /\ error' = FALSE

\* The lists of symbols and intervals arrive and the first ones are selected.
OpenPage ==
  /\ sel = None
  /\ sel' = FirstView
  /\ IF page = "klines"
     THEN Load(FirstView)
     ELSE UNCHANGED <<apiVars, loading, error>>
  /\ UNCHANGED <<page, klines, drawn, overtaken>>

OpenFails ==
  /\ sel = None /\ troubles < MaxTroubles
  /\ troubles' = troubles + 1
  /\ error' = TRUE
  /\ UNCHANGED <<clock, latest, cache, req, writes,
                 page, sel, klines, drawn, loading, overtaken>>

\* (mutant: the effect runs with the loadKLines of the selection before)
ChooseStale(v) ==
  /\ page = "klines" /\ sel \notin {None, v}
  /\ sel' = v
  /\ Load(sel)
  /\ UNCHANGED <<page, klines, drawn, overtaken>>

\* Another symbol or interval: loadKLines changes and the effect calls it.
Choose(v) ==
  /\ page = "klines" /\ sel \notin {None, v}
  /\ sel' = v
  /\ Load(v)
  /\ UNCHANGED <<page, klines, drawn, overtaken>>

\* The button of the toolbar, or of the error.
Refresh ==
  /\ page = "klines" /\ sel # None
  /\ Load(sel)
  /\ UNCHANGED <<page, sel, klines, drawn, overtaken>>

\* To the other page and back: the chart is built anew, from what App holds.
Leave ==
  /\ page = "klines"
  /\ page' = "feargreed" /\ drawn' = None
  /\ UNCHANGED <<apiVars, sel, klines, loading, error, overtaken>>

Return ==
  /\ page = "feargreed"
  /\ page' = "klines"
  /\ drawn' = IF klines \in WithRows THEN klines ELSE None
  /\ IF sel # None THEN Load(sel) ELSE UNCHANGED <<apiVars, loading, error>>
  /\ UNCHANGED <<sel, klines, overtaken>>

-----------------------------------------------------------------------------
(* What the server answers. *)

\* (mutant: the chart is cleared of the bars it shows only when it is built)
DrawnOnce(v) == IF drawn = None /\ page = "klines" /\ v \in WithRows
                THEN v ELSE drawn

\* The chart after App took an answer: without bars it keeps those it has.
Drawn(v) == IF page = "klines" /\ v \in WithRows THEN v ELSE drawn

\* An answer arrives and is taken, whatever is selected now.
Arrive(r) ==
  /\ req[r].pc = "answered"
  /\ req' = [req EXCEPT ![r] = Shown]
  /\ klines' = req[r].view
  /\ drawn' = Drawn(req[r].view)
  /\ loading' = FALSE
  /\ overtaken' = (overtaken \/ \E q \in Requests : q < r /\ Sent(q))
  /\ UNCHANGED <<clock, latest, cache, writes, troubles, page, sel, error>>

\* An error does, or the call is lost at any moment: the handler then goes on for
\* nobody, which the cache does not tell from an answer.
Fail(r) ==
  /\ \/ req[r].pc = "failed" /\ UNCHANGED troubles
     \/ /\ req[r].pc = "answered" /\ troubles < MaxTroubles
        /\ troubles' = troubles + 1
  /\ req' = [req EXCEPT ![r] = Shown]
  /\ error' = TRUE /\ loading' = FALSE
  /\ UNCHANGED <<clock, latest, cache, writes, page, sel, klines, drawn, overtaken>>

Next ==
  \/ ApiNext /\ UNCHANGED pageVars
  \/ OpenPage \/ OpenFails \/ Refresh \/ Leave \/ Return
  \/ \E v \in Views : Choose(v)
  \/ \E r \in Requests : Arrive(r) \/ Fail(r)

Spec == Init /\ [][Next]_vars

-----------------------------------------------------------------------------

\* Once every request is answered and no error is shown, the chart shows the
\* bars of the selected view, however selections, refreshes, page changes and
\* answers followed each other.  Two exceptions are the code's: an answer that
\* overtook an older one is replaced by it (App.tsx:58-65 compares nothing), and
\* a view without rows leaves the bars of the view before on the chart
\* (KLineChart.tsx:375).
ChartFollowsSelection ==
  (Quiet /\ page = "klines" /\ sel \in WithRows /\ ~error /\ ~overtaken)
    => drawn = sel
=============================================================================
