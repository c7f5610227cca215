------------------------------ MODULE Console ------------------------------
(***************************************************************************)
(* The console: the session (ConsoleAuth), the dashboard around the tabs   *)
(* (Dashboard, Shell) and the tabs.  Every step of the session renders the *)
(* route it ends on, which mounts and unmounts tabs and the dashboard.     *)
(***************************************************************************)
EXTENDS EvidencePages, DelegationsPage, ProjectsPage, AccountPages, Shell

vars == <<authVars, server, scopeVars, pageVars, shell, budget>>

NoPage == [empty |-> TRUE]

NewPage(where) ==
  CASE where = "sessions"    -> NewSessions
    [] where = "activity"    -> NewActivity
    [] where = "receipts"    -> NewReceipts
    [] where = "verify"      -> NewVerify
    [] where = "delegations" -> NewDelegations
    [] where = "projects"    -> NewProjects
    [] where = "overview"    -> NewOverview
    [] where = "analytics"   -> NewAnalytics
    [] where = "settings"    -> NewSettings
    [] OTHER                 -> NoPage

(***************************************************************************)
(* The calls of a tab's effects when it is mounted with project p.         *)
(***************************************************************************)
MountCalls(who, where, p) ==
  CASE where \in ListPages   -> <<AskAs(who, "list", ListScope(where, p), 0)>>
    [] where = "overview"    -> OverviewCalls(who)
    [] where = "analytics"   -> AnalyticsCalls(who)
    [] OTHER                 -> <<>>

Init ==
  /\ AuthInit
  /\ owner = [p \in Projects |-> IF \E a \in Accounts : p \in Owns[a]
                                 THEN CHOOSE a \in Accounts : p \in Owns[a] ELSE None]
  /\ rows = (UNION {RowsOf[p] : p \in Projects}) \ LateRows
  /\ revoked = {} /\ keys = Issued
  /\ scope = NoScope /\ stored \in {0} \cup Projects
  /\ page = NoPage /\ list = NewList /\ listed = Unlisted /\ calls = <<>>
  /\ palette = Closed /\ rail = FALSE /\ drawer = FALSE
  /\ theme = [stored |-> "light", applied |-> "light", shown |-> "light",
              os |-> "light", other |-> FALSE]
  /\ clicks = 0 /\ refused = 0 /\ broken = FALSE

(***************************************************************************)
(* What rendering another tab, or none, does to the dashboard.  Between    *)
(* tabs the provider, the palette and the drawer stay; they end with it.   *)
(***************************************************************************)
RemountWith(paletteNow, drawerNow, themeNow) ==
  LET new    == TabOf(path', isLoading')
      in     == new # "none"
      joins  == in /\ tab = "none"
      who    == IF token' # None THEN token' ELSE cookie'
      before == Abandon(calls)
                  \o (IF in THEN Only({"projects"}, calls) ELSE <<>>)
                  \o (IF joins THEN <<AskAs(who, "projects", 0, 0)>> ELSE <<>>)
      p      == IF joins THEN 0 ELSE scope.selected
  IN  /\ palette' = IF in THEN paletteNow ELSE Closed
      /\ drawer' = (in /\ drawerNow)
      /\ theme' = IF joins THEN [themeNow EXCEPT !.shown = themeNow.stored] ELSE themeNow
      /\ IF new = tab THEN UNCHANGED <<scope, pageVars>>
         ELSE /\ scope' = IF joins THEN NewScope ELSE IF in THEN scope ELSE NoScope
              /\ page' = NewPage(new)
              /\ list' = IF new \in ListPages THEN Refresh(NewList) ELSE NewList
              /\ listed' = [Unlisted EXCEPT !.of = ListScope(new, p)]
              /\ calls' = before \o MountCalls(who, new, p)
      /\ UNCHANGED <<server, stored, rail, budget>>

Remount == RemountWith(palette, drawer, theme)
Unmounted == UNCHANGED <<server, scopeVars, pageVars, shell, budget>>

SessionNext ==
  \/ \E s \in Slots :
       \/ Reload(s) /\ RemountWith(Closed, FALSE, [Apply(theme) EXCEPT !.other = FALSE])
       \/ SignOut(s) /\ ~palette.open /\ Remount
       \/ LoginAnswered(s) /\ Remount
       \/ SaveAnswered(s) /\ Remount
       \/ \E known \in BOOLEAN : MeAnswered(s, known) /\ Remount
       \/ LoginRefused(s) /\ Unmounted
       \/ LogoutAnswered(s) /\ Unmounted
       \/ LogoutLost(s) /\ Unmounted
       \/ \E who \in Accounts : SubmitLogin(s, who) /\ Unmounted
       \/ \E who \in Accounts : SubmitSignup(s, who) /\ Unmounted
  \/ SubmitShortPassword /\ Unmounted
  \/ SendReset /\ Unmounted
  \/ ResetTimer /\ Unmounted
  \/ \E who \in Persons : OtherTab(who) /\ Unmounted
  \/ \E to \in Public \cup Tabs, stays \in {FALSE, drawer} :
       Navigate(to) /\ RemountWith(palette, stays, theme)

\* Enter, or a click, in the palette: navigate() and onClose().
ChoosePlace ==
  \E to \in Chosen :
    \/ Navigate(to) /\ RemountWith(Closed, drawer, theme)
    \/ to = path /\ ClosePalette

(***************************************************************************)
(* Settings' save() as its tab sees it; the good answer unmounts the tab,  *)
(* by isLoading, before it could say so.                                   *)
(***************************************************************************)
SaveProfile(s) ==
  /\ OffersSave /\ ~palette.open
  /\ Save(s)
  /\ page' = [page EXCEPT !.saveFailed = FALSE]
  /\ UNCHANGED <<server, scopeVars, list, listed, calls, shell, budget>>

ProfileRefused(s) ==
  /\ SaveRefused(s)
  /\ page' = IF sent[s].here THEN [page EXCEPT !.saveFailed = TRUE] ELSE page
  /\ UNCHANGED <<server, scopeVars, list, listed, calls, shell, budget>>

-----------------------------------------------------------------------------
(***************************************************************************)
(* The provider and the lists.  A change of the selected project's id runs *)
(* the effect of the list pages, Projects excepted; a selected row stays.  *)
(***************************************************************************)
Rescope(p, before) ==
  /\ UNCHANGED page
  /\ IF p # scope.selected /\ tab \in ListPages \ {"projects"}
     THEN RefreshList(list, p, "none", before)
     ELSE calls' = before /\ UNCHANGED <<list, listed>>

ScopeAnswered(i, how) ==
  LET found == ProjectsOf(calls[i].as)
      first == SelectFirst(found)
      left  == RemoveAt(calls, i)
  IN  /\ calls[i].op = "projects"
      /\ Comes(how)
      /\ \/ /\ how = "ok"
            /\ scope' = [scope EXCEPT !.loading = FALSE, !.projects = found, !.selected = first]
            /\ Rescope(first, left)
         \/ /\ how # "ok"
            /\ scope' = [scope EXCEPT !.loading = @ /\ how = "break", !.error = (how = "error")]
            /\ Rescope(scope.selected, left)
      /\ UNCHANGED <<authVars, server, stored>>

\* The header's select, shown once there are projects.
SelectProject(p) ==
  /\ tab # "none" /\ p \in scope.projects /\ p # scope.selected
  /\ Use
  /\ scope' = [scope EXCEPT !.selected = p] /\ stored' = p
  /\ Rescope(p, calls)
  /\ UNCHANGED <<authVars, server>>

RowsOnScreen ==
  CASE tab = "sessions"    -> SessionsList = "rows"
    [] tab = "activity"    -> ActivityList = "rows"
    [] tab = "receipts"    -> ReceiptsList = "rows"
    [] tab = "delegations" -> GrantsList = "rows" /\ ~page.confirm
    [] tab = "projects"    -> ProjectRows(list) # {}
    [] OTHER               -> FALSE

LoadMoreRows ==
  /\ RowsOnScreen /\ OffersMore(list) /\ MayLoadMore(list)
  /\ Use
  /\ list' = LoadMore(list)
  /\ listed' = [listed EXCEPT !.clean = @ /\ ~Overlaps(calls)]
  /\ calls' = Append(calls, Ask("list", ListScope(tab, scope.selected), list.next))
  /\ UNCHANGED <<authVars, server, scopeVars, page>>

ListAnswered(i, how) ==
  LET c     == calls[i]
      from  == Listable(tab, c.as, c.arg)
      after == IF how = "ok" THEN PageArrived(list, c.tok, Listing(from, c.tok))
               ELSE PageFailed(list)
  IN  /\ tab \in ListPages /\ c.op = "list"
      /\ Comes(how)
      /\ list' = after
      /\ listed' = IF how = "ok" /\ c.tok = 0 THEN [listed EXCEPT !.base = from] ELSE listed
      /\ IF tab = "projects"
         THEN /\ page' = Mounted([page EXCEPT !.creating = @ /\ c.then # "created"], after)
              /\ calls' = Unrow(RemoveAt(calls, i), after)
         ELSE UNCHANGED page /\ calls' = RemoveAt(calls, i)
      /\ UNCHANGED <<authVars, server, scopeVars>>

ListNext ==
  \/ LoadMoreRows \/ Recorded
  \/ \E p \in Projects : SelectProject(p)
  \/ \E i \in DOMAIN calls, how \in Hows : ScopeAnswered(i, how) \/ ListAnswered(i, how)

PageNext ==
  \/ ListNext \/ ShellNext \/ AccountNext
  \/ EvidenceClicks \/ EvidenceAnswers
  \/ GrantClicks \/ GrantAnswers \/ ProjectClicks \/ ProjectAnswers

Next ==
  \/ SessionNext \/ ChoosePlace
  \/ \E s \in Slots : SaveProfile(s) \/ ProfileRefused(s)
  \/ PageNext

Spec == Init /\ [][Next]_vars
-----------------------------------------------------------------------------
(***************************************************************************)
(* Types: of the session, of what the tabs share, and of their calls.      *)
(***************************************************************************)
CallOps == Writes \cup VerifyOps \cup
  {"projects", "list", "anchor", "replay", "proof", "verifyGrant", "figures", "key", "keys"}

TypeOK ==
  /\ AuthTypeOK
  /\ owner \in [Projects -> Persons] /\ rows \subseteq Rows /\ revoked \subseteq Rows
  /\ \A k \in DOMAIN keys : keys[k] \in [project : Projects, revoked : BOOLEAN]
  /\ scope \in [loading : BOOLEAN, projects : SUBSET Projects,
                selected : {0} \cup Projects, error : BOOLEAN]
  /\ DOMAIN page = DOMAIN NewPage(tab)
  /\ ToSet(list.items) \subseteq IF tab = "projects" THEN Projects ELSE Rows
  /\ \A i \in DOMAIN calls :
       /\ calls[i].op \in CallOps /\ calls[i].as \in Persons
       /\ calls[i].live \in {"here", "page", "gone"}
       /\ calls[i].live = "gone" => calls[i].op \in Writes
  /\ palette.index \in 0 .. Len(Places) - 1 /\ {rail, drawer} \subseteq BOOLEAN
  /\ tab = "none" => ~palette.open /\ ~drawer

(***************************************************************************)
(* A list that was asked for page after page, with no two calls under way  *)
(* at a time, is at rest the scope's rows from the highest down to the     *)
(* next token: none twice, none of another project, and none missing that  *)
(* was there when the first page was read - whatever was recorded between  *)
(* the pages.  (Overlapping calls, which every load of the dashboard with  *)
(* a project makes, void this: the hook does not tell its answers apart.)  *)
(***************************************************************************)
ListIsTheScope ==
  /\ tab \in ListPages /\ listed.clean /\ ~Overlaps(calls) /\ list.loaded /\ ~list.error
  /\ ~mixed /\ faults = 0
  =>
    LET wanted == Listable(tab, user, ListScope(tab, scope.selected))
        read   == {r \in listed.base : list.next = 0 \/ r >= list.next}
    IN  /\ \A i, j \in DOMAIN list.items : i < j => list.items[i] > list.items[j]
        /\ read \subseteq ToSet(list.items)
        /\ ToSet(list.items) \subseteq wanted

(***************************************************************************)
(* Nothing of another account is on screen: the projects of the header,    *)
(* the selected one and the rows of the list are the user's, although the  *)
(* selection is remembered in localStorage across accounts and calls of    *)
(* the last user may still be answered.                                    *)
(***************************************************************************)
OwnedByUser ==
  tab # "none" /\ ~mixed /\ faults = 0 =>
    /\ scope.projects \cup ({scope.selected} \ {0}) \subseteq ProjectsOf(user)
    /\ tab \in ListPages => ToSet(list.items) \subseteq Listable(tab, user, 0)

(***************************************************************************)
(* A detail is of the row it is opened for: the anchor of the session, the *)
(* verdict of the grant, the proof of the event asked for last, whichever  *)
(* rows were opened while their calls were under way.                      *)
(***************************************************************************)
DetailIsOfSelected ==
  /\ tab = "sessions" /\ SessionDetail.open /\ SessionDetail.anchor = "anchored" =>
       page.anchor = page.selected
  /\ tab = "delegations" /\ GrantDetail.open /\ ChainPill \in {"VALID", "INVALID"} =>
       page.chain = page.selected
  /\ tab = "receipts" /\ ReceiptOpen => page.proof = page.selected

(***************************************************************************)
(* "Grant revoked." is shown of a grant that is revoked, unless another    *)
(* grant was opened while the revocation was under way.                    *)
(***************************************************************************)
RevokedBannerTrue ==
  tab = "delegations" /\ GrantDetail.open /\ GrantDetail.revoke = "banner" /\ ~page.strayed =>
    page.selected \in revoked

(***************************************************************************)
(* A row's keys, once read, stay the server's: whenever no call of the row *)
(* and no reading after a write of its project is under way, it lists what *)
(* the server has, unless a reading was refused or a connection broke.     *)
(* This is over writes answered when the row was unmounted, or mounted     *)
(* anew, since.  Only a write answered after its tab was left may leave    *)
(* the row of a later visit behind: nothing reads the keys again then.     *)
(***************************************************************************)
RowPending(p) ==
  \E i \in DOMAIN calls : /\ calls[i].op \in RowOps /\ calls[i].arg = p
                          /\ calls[i].live = "here" \/ calls[i].then = "changed"
RowSettled(p) ==
  /\ tab = "projects" /\ p \in DOMAIN page.row /\ ~RowPending(p)
  /\ page.row[p].open \/ page.row[p].keys # {}
  /\ ~page.row[p].error
RowCurrent(p) == RowSettled(p) => page.row[p].keys = KeysOf(p)

LateWrite(p) ==
  \E i \in DOMAIN calls : /\ calls[i].op \in RowOps /\ calls[i].arg = p
                          /\ calls[i].live = "gone" /\ calls' = RemoveAt(calls, i)
KeysStayCurrent ==
  [][\A p \in Projects : RowCurrent(p) => RowCurrent(p)' \/ LateWrite(p) \/ broken']_vars

(***************************************************************************)
(* Unless a connection broke (most awaits have no catch), everything that  *)
(* waits on screen, and every button it disables, waits for a call that is *)
(* outstanding: refused calls end the wait as good ones do.                *)
(***************************************************************************)
RowWaits(p) ==
  /\ page.row[p].loading => \E i \in Awaiting({"keys"}) : calls[i].arg = p
  /\ page.row[p].creating =>
       \E i \in Awaiting({"createKey", "keys"}) :
         calls[i].arg = p /\ (calls[i].op = "keys" => calls[i].then = "changed")

PageWaits ==
  /\ list.loading => Awaiting({"list"}) # {}
  /\ tab = "sessions" =>
       /\ page.selected # 0 /\ page.loading => Awaiting({"anchor"}) # {}
       /\ page.replay.loading => Awaiting({"replay"}) # {}
  /\ tab = "receipts" /\ page.fetching => Awaiting({"proof"}) # {}
  /\ tab = "delegations" =>
       /\ page.selected # 0 /\ page.loading => Awaiting({"verifyGrant"}) # {}
       /\ page.revoking => Awaiting({"revoke"}) # {}
  /\ tab = "projects" =>
       /\ page.creating =>
            \/ Awaiting({"createProject"}) # {}
            \/ \E i \in Awaiting({"list"}) : calls[i].then = "created"
       /\ \A p \in DOMAIN page.row : RowWaits(p)
  /\ tab = "analytics" /\ page.loading => Awaiting({"figures"}) # {}
  /\ tab = "verify" /\ page.loading => Awaiting({"verify"}) # {}
  /\ tab = "settings" /\ page.section = "notary" /\ NotaryShows = "loading" =>
       Awaiting({"key"}) # {}

WaitsForACall ==
  /\ ~broken => PageWaits /\ (scope.loading => Awaiting({"projects"}) # {})
  /\ form.busy /\ path # "forgot" =>
       \E s \in Slots : sent[s].op \in {"login", "loginMe"} /\ sent[s].here

(***************************************************************************)
(* A report that is not of the proof asked about last stands beside the    *)
(* error that refused that proof, or while that proof is being fetched     *)
(* (fetchAndVerify takes the old report away only after its await), or     *)
(* because the connection broke; and none is on screen while the server    *)
(* computes one.  Except when questions overlapped, which the Enter key    *)
(* and the drop zone allow.                                                *)
(***************************************************************************)
EarlierReportIsExplained ==
  tab = "verify" /\ ReportShown /\ ~page.mixed =>
    /\ ~page.loading
    /\ page.result # page.asked =>
         page.error \/ broken \/ Awaiting({"fetchProof"}) # {}

(***************************************************************************)
(* "babit never shows numbers it cannot derive from real data": charts and *)
(* figures of Analytics are shown only of figures that came.               *)
(***************************************************************************)
FiguresAreReal ==
  tab = "analytics" /\ (AnalyticsShows.counts \/ AnalyticsShows.charts # {}) =>
    page.figures # <<>>

(***************************************************************************)
(* Enter in the palette goes somewhere whenever it lists a place: the      *)
(* selected index stays inside whatever the query leaves.                  *)
(***************************************************************************)
PaletteSelects ==
  palette.open /\ Filtered(palette.query) # <<>> => Chosen # {}

(***************************************************************************)
(* The document wears the theme the toggle shows and the browser stores,   *)
(* over changes of the operating system's preference too, unless another   *)
(* tab stored one.                                                         *)
(***************************************************************************)
ThemeApplied ==
  ~theme.other =>
    /\ theme.applied = resolveTheme(theme.stored, theme.os)
    /\ tab # "none" => theme.shown = theme.stored

(***************************************************************************)
(* Projects.tsx on a new key: "This is the only time the full key is       *)
(* shown. [...] After you close this panel only the masked prefix remains."*)
(* So a secret on screen stays there until the user puts it away.          *)
(***************************************************************************)
SecretShownUntilClosed == tab = "projects" => page.unclosed \subseteq Revealed
=============================================================================
