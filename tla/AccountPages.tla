---------------------------- MODULE AccountPages ----------------------------
(***************************************************************************)
(* The tabs about the account: Overview, Analytics and Settings.  They     *)
(* read the notary's key and fourteen days of figures.                     *)
(***************************************************************************)
EXTENDS Dashboard

CONSTANT Tallies  \* bound: the figures Analytics may be answered

UsesAccount == UNCHANGED <<authVars, server, scopeVars, list, listed>>

-----------------------------------------------------------------------------
(***************************************************************************)
(* Overview: figures and key, two effects that fail apart from each other. *)
(* Without figures it shows zeros.                                         *)
(***************************************************************************)
NewOverview == [figures |-> FALSE, key |-> FALSE, keyError |-> FALSE]
OverviewCalls(who) == <<AskAs(who, "figures", 0, 0), AskAs(who, "key", 0, 0)>>

OverviewShows ==
  [figures |-> IF page.figures THEN "ledger" ELSE "zeros",
   key |-> IF page.key THEN "key" ELSE IF page.keyError THEN "unavailable" ELSE "loading"]

OverviewFigures(i, how) ==
  /\ tab = "overview" /\ calls[i].op = "figures"
  /\ Comes(how)
  /\ page' = [page EXCEPT !.figures = @ \/ how = "ok"]
  /\ calls' = RemoveAt(calls, i)
  /\ UsesAccount

(***************************************************************************)
(* The notary's key, of Overview and of Settings: both catch everything.   *)
(***************************************************************************)
KeyAnswered(i, how) ==
  /\ tab \in {"overview", "settings"} /\ calls[i].op = "key"
  /\ Comes(how)
  /\ page' = IF how = "ok" THEN [page EXCEPT !.key = TRUE]
                           ELSE [page EXCEPT !.keyError = TRUE]
  /\ calls' = RemoveAt(calls, i)
  /\ UsesAccount

-----------------------------------------------------------------------------
(***************************************************************************)
(* Analytics: `loading` starts TRUE.  Of every figure it only matters here *)
(* whether it is zero and, of those by surface, whether one surface has    *)
(* most of the activity (2).                                               *)
(***************************************************************************)
NewAnalytics == [loading |-> TRUE, error |-> FALSE, figures |-> <<>>]
AnalyticsCalls(who) == <<AskAs(who, "figures", 0, 0)>>

Figures == {"events", "surfaces", "grants", "links"}
Counted == [events : {0, 1}, surfaces : {0, 1, 2}, grants : {0, 1}, links : {0, 1}]

ASSUME TalliesAssumption == Tallies \subseteq Counted

\* Wrong variant: a chart is drawn of figures that have not come.
ChartsDrawnAlways(figure) == ~page.error

(***************************************************************************)
(* A chart is drawn of figures that came and are not all zero; its empty   *)
(* version stands in until then.                                           *)
(***************************************************************************)
ChartsDrawn(figure) ==
  ~page.error /\ ~page.loading /\ page.figures # <<>> /\ page.figures[figure] > 0

\* "What the numbers say", a sentence for each of two figures.
Notes ==
  ~page.error /\ page.figures # <<>> /\ (page.figures.surfaces = 2 \/ page.figures.grants > 0)

AnalyticsShows ==
  [unavailable |-> page.error,
   counts |-> ~page.error /\ ~page.loading,
   charts |-> {f \in Figures : ChartsDrawn(f)},
   notes  |-> Notes]

FiguresAnswered(i, how) ==
  /\ tab = "analytics" /\ calls[i].op = "figures"
  /\ Comes(how)
  /\ \/ how = "ok" /\ \E f \in Tallies :
          page' = [page EXCEPT !.figures = f, !.loading = FALSE]
     \/ how = "error" /\ page' = [page EXCEPT !.error = TRUE, !.loading = FALSE]
     \/ how = "break" /\ UNCHANGED page
  /\ calls' = RemoveAt(calls, i)
  /\ UsesAccount

-----------------------------------------------------------------------------
(***************************************************************************)
(* Settings: three sections; the key is asked for when its section is      *)
(* opened without one, and that call is dropped when the section is left.  *)
(***************************************************************************)
NewSettings == [section |-> "general", key |-> FALSE, keyError |-> FALSE, saveFailed |-> FALSE]
Sections == {"general", "workspace", "notary"}

NotaryShows ==
  IF page.key THEN "key" ELSE IF page.keyError THEN "unavailable" ELSE "loading"

OffersSave == tab = "settings" /\ page.section = "general" /\ ~saving

OpenSection(to) ==
  /\ tab = "settings" /\ to # page.section
  /\ Use
  /\ page' = [page EXCEPT !.section = to]
  /\ calls' = Cancel({"key"}, calls) \o
                (IF to = "notary" /\ ~page.key THEN <<Ask("key", 0, 0)>> ELSE <<>>)
  /\ UsesAccount

AccountNext ==
  \/ \E to \in Sections : OpenSection(to)
  \/ \E i \in DOMAIN calls, how \in Hows :
       OverviewFigures(i, how) \/ KeyAnswered(i, how) \/ FiguresAnswered(i, how)
=============================================================================
