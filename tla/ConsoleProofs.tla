--------------------------- MODULE ConsoleProofs ---------------------------
(***************************************************************************)
(* Proofs about the composed console: it implements ConsoleAuth, whose     *)
(* theorems therefore hold of it, and its palette and theme are right      *)
(* whatever the tabs do.  The second half prepares ConsoleTabsProofs: what *)
(* the operators on calls and lists do, the inductive invariant of the     *)
(* tabs (TabsInv), and that the steps of the evidence tabs, Delegations    *)
(* and the account tabs keep their part of it.                             *)
(***************************************************************************)
EXTENDS Console, ConsoleAuthProofs, FiniteSetTheorems, FunctionTheorems, SequenceTheorems

(***************************************************************************)
(* The tabs touch neither the session nor the shell.                       *)
(***************************************************************************)
LEMMA UseKeepsShell == Use => UNCHANGED shell
  BY DEF Use

LEMMA ComesKeepsShell == \A how : Comes(how) => UNCHANGED shell
  BY DEF Comes, shell

LEMMA ListsKeep == ListNext => UNCHANGED <<authVars, shell>>
  <1>1. LoadMoreRows => UNCHANGED <<authVars, shell>>
    BY UseKeepsShell DEF LoadMoreRows
  <1>2. Recorded => UNCHANGED <<authVars, shell>>
    BY DEF Recorded
  <1>3. \A p : SelectProject(p) => UNCHANGED <<authVars, shell>>
    BY UseKeepsShell DEF SelectProject
  <1>4. \A i, how : ScopeAnswered(i, how) => UNCHANGED <<authVars, shell>>
    BY ComesKeepsShell DEF ScopeAnswered
  <1>5. \A i, how : ListAnswered(i, how) => UNCHANGED <<authVars, shell>>
    BY ComesKeepsShell DEF ListAnswered
  <1>. QED
    BY <1>1, <1>2, <1>3, <1>4, <1>5 DEF ListNext

LEMMA EvidenceKeeps ==
  EvidenceClicks \/ EvidenceAnswers => UNCHANGED <<authVars, shell>>
  <1>1. EvidenceClicks => UNCHANGED <<authVars, shell>>
    <2>1. \A r : SelectSession(r) \/ ViewEvent(r) \/ FetchProof(r) \/ FetchAndVerify(r)
                   \/ VerifyPasted(r)
                 => UNCHANGED <<authVars, shell>>
      BY UseKeepsShell
      DEF SelectSession, ViewEvent, FetchProof, FetchAndVerify, VerifyPasted, UsesPage
    <2>2. SessionBack \/ OpenReplay \/ CloseReplay \/ EventBack \/ ReceiptBack
            => UNCHANGED <<authVars, shell>>
      BY UseKeepsShell
      DEF SessionBack, OpenReplay, CloseReplay, EventBack, ReceiptBack, UsesPage
    <2>. QED
      BY <2>1, <2>2 DEF EvidenceClicks
  <1>2. EvidenceAnswers => UNCHANGED <<authVars, shell>>
    <2>1. \A i : FrameArrived(i) => UNCHANGED <<authVars, shell>>
      BY DEF FrameArrived, UsesPage
    <2>2. \A i, how : AnchorAnswered(i, how) \/ ReplayEnded(i, how) \/ ProofAnswered(i, how)
                        \/ FetchedProof(i, how) \/ Verified(i, how)
                      => UNCHANGED <<authVars, shell>>
      BY ComesKeepsShell
      DEF AnchorAnswered, ReplayEnded, ProofAnswered, FetchedProof, Verified, UsesPage
    <2>. QED
      BY <2>1, <2>2 DEF EvidenceAnswers
  <1>. QED
    BY <1>1, <1>2

LEMMA GrantsKeep == GrantClicks \/ GrantAnswers => UNCHANGED <<authVars, shell>>
  <1>1. GrantClicks => UNCHANGED <<authVars, shell>>
    BY UseKeepsShell
    DEF GrantClicks, SelectGrant, GrantBack, AskToRevoke, ConfirmRevoke, CancelConfirm,
        UsesGrants
  <1>2. GrantAnswers => UNCHANGED <<authVars, shell>>
    BY ComesKeepsShell DEF GrantAnswers, ChainAnswered, RevokeAnswered, UsesGrants
  <1>. QED
    BY <1>1, <1>2

LEMMA ProjectsKeep == ProjectClicks \/ ProjectAnswers => UNCHANGED <<authVars, shell>>
  <1>1. ProjectClicks => UNCHANGED <<authVars, shell>>
    <2>1. ToggleForm \/ SubmitProject => UNCHANGED <<authVars, shell>>
      BY UseKeepsShell DEF ToggleForm, SubmitProject, UsesProjects
    <2>2. \A p : ToggleRow(p) \/ CreateKey(p) \/ ConfirmRevokeKey(p) \/ CancelRevokeKey(p)
                   \/ CloseReveal(p)
                 => UNCHANGED <<authVars, shell>>
      BY UseKeepsShell
      DEF ToggleRow, CreateKey, ConfirmRevokeKey, CancelRevokeKey, CloseReveal,
          UsesProjects
    <2>3. \A p, k : AskToRevokeKey(p, k) => UNCHANGED <<authVars, shell>>
      BY UseKeepsShell DEF AskToRevokeKey, UsesProjects
    <2>. QED
      BY <2>1, <2>2, <2>3 DEF ProjectClicks
  <1>2. \A i, how : ProjectCreated(i, how) \/ KeyCreated(i, how) \/ KeyRevoked(i, how)
                      \/ KeysAnswered(i, how)
                    => UNCHANGED <<authVars, shell>>
    BY ComesKeepsShell, ZenonT(40)
    DEF ProjectCreated, KeyCreated, KeyRevoked, KeysAnswered, UsesProjects
  <1>. QED
    BY <1>1, <1>2 DEF ProjectAnswers

LEMMA AccountKeeps == AccountNext => UNCHANGED <<authVars, shell>>
  BY UseKeepsShell, ComesKeepsShell
  DEF AccountNext, OpenSection, OverviewFigures, KeyAnswered, FiguresAnswered, UsesAccount

LEMMA ShellKeepsSession == ShellNext => UNCHANGED authVars
  BY DEF ShellNext, OpenPalette, ClosePalette, CollapseRail, ToggleDrawer, ToggleTheme,
         OsSwitches, Arrow, TypeQuery, Hover, OtherTabTheme

LEMMA ProfileKeepsShell ==
  \A s : SaveProfile(s) \/ ProfileRefused(s) => UNCHANGED <<shell, isLoading, path>>
  BY DEF SaveProfile, ProfileRefused, Save, SaveRefused, memory

-----------------------------------------------------------------------------
(***************************************************************************)
(* The palette: the selected index is inside the list or at its start.     *)
(***************************************************************************)
PaletteInv ==
  /\ palette \in [open : BOOLEAN, query : DOMAIN Queries \cup {""}, index : Nat]
  /\ palette.index = 0 \/ palette.index < Len(Filtered(palette.query))

LEMMA PlacesAreTabs == Places \in Seq(Tabs)
  <1>1. /\ "overview" \in Tabs /\ "activity" \in Tabs /\ "agents" \in Tabs
        /\ "delegations" \in Tabs /\ "sessions" \in Tabs /\ "receipts" \in Tabs
        /\ "verify" \in Tabs /\ "settings" \in Tabs
    BY DEF Tabs
  <1>. QED
    BY <1>1 DEF Places

LEMMA FilteredType ==
  ASSUME NEW query \in DOMAIN Queries \cup {""}
  PROVE  Filtered(query) \in Seq(Tabs)
  BY PlacesAreTabs, QueriesAssumption DEF Filtered

LEMMA Round ==
  ASSUME NEW n \in Nat \ {0}, NEW k \in Int
  PROVE  k % n \in Nat /\ k % n < n
  OBVIOUS

LEMMA ChosenIsATab == PaletteInv => Chosen \subseteq Tabs
  <1> SUFFICES ASSUME PaletteInv PROVE Chosen \subseteq Tabs
    OBVIOUS
  <1> DEFINE places == Filtered(palette.query)
  <1>1. places \in Seq(Tabs) /\ palette.index \in Nat
    BY FilteredType DEF PaletteInv
  <1>2. CASE palette.index < Len(places)
    <2>1. palette.index + 1 \in 1 .. Len(places)
      BY <1>1, <1>2
    <2>2. places[palette.index + 1] \in Tabs
      BY <1>1, <2>1
    <2>. QED
      BY <2>2 DEF Chosen
  <1>3. CASE ~(palette.index < Len(places))
    BY <1>3 DEF Chosen
  <1>. QED
    BY <1>2, <1>3

LEMMA ClosedType ==
  Closed \in [open : BOOLEAN, query : DOMAIN Queries \cup {""}, index : Nat]
    /\ Closed.index = 0
  BY DEF Closed

LEMMA ClosedPalette == palette' = Closed => PaletteInv'
  BY ClosedType DEF PaletteInv

LEMMA PaletteShell == PaletteInv /\ ShellNext => PaletteInv'
  <1> SUFFICES ASSUME PaletteInv, ShellNext PROVE PaletteInv'
    OBVIOUS
  <1>1. CASE OpenPalette
    BY <1>1 DEF OpenPalette, Closed, PaletteInv
  <1>2. CASE ClosePalette
    BY <1>2 DEF ClosePalette, PaletteInv
  <1>3. ASSUME NEW query \in DOMAIN Queries \cup {""}, TypeQuery(query) PROVE PaletteInv'
    BY <1>3 DEF TypeQuery, Typed, PaletteInv
  <1>4. ASSUME NEW down \in BOOLEAN, Arrow(down) PROVE PaletteInv'
    <2> DEFINE n == Len(Filtered(palette.query))
               some == IF n = 0 THEN 1 ELSE n
               next == IF down THEN (palette.index + 1) % some
                               ELSE ((palette.index - 1) + n) % some
    <2>1. n \in Nat /\ palette.index \in Nat
      <3>1. Filtered(palette.query) \in Seq(Tabs) /\ palette.index \in Nat
        BY FilteredType DEF PaletteInv
      <3>. QED
        BY <3>1
    <2>2. some \in Nat \ {0}
      BY <2>1
    <2>3. next \in Nat /\ next < some
      <3>1. palette.index + 1 \in Int /\ (palette.index - 1) + n \in Int
        BY <2>1
      <3>. HIDE DEF n, some
      <3>. QED
        BY <2>2, <3>1, Round
    <2>4. next = 0 \/ next < n
      BY <2>1, <2>3
    <2>5. palette' = [palette EXCEPT !.index = next]
      BY <1>4 DEF Arrow
    <2>. HIDE DEF next
    <2>. QED
      BY <2>3, <2>4, <2>5 DEF PaletteInv
  <1>5. ASSUME NEW at \in 0 .. Len(Places) - 1, Hover(at) PROVE PaletteInv'
    <2>1. at \in Nat
      BY DEF Places
    <2>. QED
      BY <1>5, <2>1 DEF Hover, PaletteInv
  <1>6. CASE CollapseRail \/ ToggleDrawer \/ ToggleTheme \/ OsSwitches
    BY <1>6 DEF CollapseRail, ToggleDrawer, ToggleTheme, OsSwitches, PaletteInv
  <1>7. ASSUME NEW to, OtherTabTheme(to) PROVE PaletteInv'
    BY <1>7 DEF OtherTabTheme, PaletteInv
  <1>. QED
    BY <1>1, <1>2, <1>3, <1>4, <1>5, <1>6, <1>7 DEF ShellNext

LEMMA PaletteNext == PaletteInv /\ [Next]_vars => PaletteInv'
  <1> SUFFICES ASSUME PaletteInv, [Next]_vars PROVE PaletteInv'
    OBVIOUS
  <1>1. CASE SessionNext
    <2>1. palette' \in {palette, Closed}
      BY <1>1 DEF SessionNext, Remount, RemountWith, Unmounted, shell
    <2>. QED
      BY <2>1, ClosedPalette DEF PaletteInv
  <1>2. CASE ChoosePlace
    <2>1. palette' = Closed \/ ClosePalette
      BY <1>2 DEF ChoosePlace, RemountWith
    <2>. QED
      BY <2>1, ClosedPalette, PaletteShell DEF ShellNext
  <1>3. CASE ShellNext
    BY <1>3, PaletteShell
  <1>4. CASE UNCHANGED shell
    BY <1>4 DEF shell, PaletteInv
  <1>. QED
    BY <1>1, <1>2, <1>3, <1>4, ListsKeep, EvidenceKeeps, GrantsKeep, ProjectsKeep,
       AccountKeeps, ProfileKeepsShell
    DEF Next, PageNext, vars

LEMMA PaletteAlways == Spec => []PaletteInv
  <1>1. Init => PaletteInv
    BY ClosedType DEF Init, PaletteInv
  <1>. QED
    BY <1>1, PaletteNext, PTL DEF Spec

(***************************************************************************)
(* Enter in the palette goes somewhere whenever it lists a place, for any  *)
(* queries and whatever else happens meanwhile.                            *)
(***************************************************************************)
THEOREM PaletteAlwaysSelects == Spec => []PaletteSelects
  <1>1. PaletteInv => PaletteSelects
    <2> SUFFICES ASSUME PaletteInv, palette.open, Filtered(palette.query) # <<>>
                 PROVE  Chosen # {}
      BY DEF PaletteSelects
    <2>1. Filtered(palette.query) \in Seq(Tabs)
      BY FilteredType DEF PaletteInv
    <2>2. palette.index < Len(Filtered(palette.query))
      <3>1. Len(Filtered(palette.query)) > 0
        BY <2>1
      <3>. QED
        BY <3>1 DEF PaletteInv
    <2>. QED
      BY <2>2 DEF Chosen
  <1>. QED
    BY <1>1, PaletteAlways, PTL

-----------------------------------------------------------------------------
(***************************************************************************)
(* Every step of the console is one of the session, or leaves it alone.    *)
(***************************************************************************)
LEMMA SessionSimulation == PaletteInv /\ [Next]_vars => [AuthNext]_authVars
  <1> SUFFICES ASSUME PaletteInv, [Next]_vars PROVE [AuthNext]_authVars
    OBVIOUS
  <1>1. CASE SessionNext
    BY <1>1 DEF SessionNext, AuthNext
  <1>2. CASE ChoosePlace
    <2>1. Chosen \subseteq Public \cup Tabs
      BY ChosenIsATab
    <2>. QED
      BY <1>2, <2>1 DEF ChoosePlace, ClosePalette, AuthNext
  <1>3. CASE \E s \in Slots : SaveProfile(s) \/ ProfileRefused(s)
    BY <1>3 DEF SaveProfile, ProfileRefused, AuthNext
  <1>4. CASE PageNext
    BY <1>4, ListsKeep, EvidenceKeeps, GrantsKeep, ProjectsKeep, AccountKeeps,
       ShellKeepsSession
    DEF PageNext
  <1>5. CASE UNCHANGED vars
    BY <1>5 DEF vars
  <1>. QED
    BY <1>1, <1>2, <1>3, <1>4, <1>5 DEF Next

(***************************************************************************)
(* The console with all of its tabs implements the session by itself.      *)
(***************************************************************************)
THEOREM ConsoleImplementsSession == Spec => AuthSpec
  <1>1. Init => AuthInit
    BY DEF Init
  <1>. QED
    BY <1>1, SessionSimulation, PaletteAlways, PTL DEF Spec, AuthSpec
(***************************************************************************)
(* Hence, in the console with all of its tabs: signing out is final, one   *)
(* account's identity is shown at rest, the splash screen is awaited, and  *)
(* the dashboard is shown to nobody unknown.                               *)
(***************************************************************************)
THEOREM ConsoleSessionSafe ==
  Spec => [](IdentityAtRest /\ SignedOutStaysOut /\ SplashHasCall /\ DashboardHasUser)
  BY ConsoleImplementsSession, OneIdentityAtRest, SignOutIsFinal, SplashIsAwaited,
     DashboardIsGuarded, PTL

-----------------------------------------------------------------------------
(***************************************************************************)
(* The theme.                                                              *)
(***************************************************************************)
ThemeNames == {"light", "dark", "system"}
ThemeType ==
  theme \in [stored : ThemeNames, applied : ThemeNames, shown : ThemeNames,
             os : ThemeNames, other : BOOLEAN]

ThemeInv == ThemeType /\ ThemeApplied

LEMMA NextThemeType ==
  ASSUME NEW some \in ThemeNames
  PROVE  NextTheme(some) \in ThemeNames
  <1>1. \E i \in 1 .. 3 : Themes[i] = some
    <2>1. Themes[1] = "light" /\ Themes[2] = "dark" /\ Themes[3] = "system"
      BY DEF Themes
    <2>2. 1 \in 1 .. 3 /\ 2 \in 1 .. 3 /\ 3 \in 1 .. 3
      OBVIOUS
    <2>. QED
      BY <2>1, <2>2 DEF ThemeNames
  <1>2. PICK i \in 1 .. 3 : NextTheme(some) = Themes[(i % 3) + 1]
    BY <1>1 DEF NextTheme
  <1>3. (i % 3) + 1 \in 1 .. 3
    OBVIOUS
  <1>. QED
    BY <1>2, <1>3 DEF Themes, ThemeNames

LEMMA ApplyType ==
  ASSUME NEW state \in [stored : ThemeNames, applied : ThemeNames, shown : ThemeNames,
                        os : ThemeNames, other : BOOLEAN]
  PROVE  Apply(state) = [state EXCEPT !.applied = resolveTheme(state.stored, state.os)]
         /\ resolveTheme(state.stored, state.os) \in ThemeNames
  BY DEF Apply, resolveTheme

\* Rendering a tab keeps the theme given to it, and the toggle reads it anew.
LEMMA RemountKeepsTheme ==
  ASSUME NEW paletteNow, NEW drawerNow,
         NEW now \in [stored : ThemeNames, applied : ThemeNames, shown : ThemeNames,
                      os : ThemeNames, other : BOOLEAN],
         ~now.other => /\ now.applied = resolveTheme(now.stored, now.os)
                       /\ tab # "none" /\ tab' # "none" => now.shown = now.stored,
         RemountWith(paletteNow, drawerNow, now)
  PROVE  ThemeInv'
  <1>1. tab' = TabOf(path', isLoading')
    BY DEF tab
  <1>2. theme' = IF tab' # "none" /\ tab = "none"
                 THEN [now EXCEPT !.shown = now.stored] ELSE now
    BY <1>1 DEF RemountWith
  <1>3. CASE tab' # "none" /\ tab = "none"
    BY <1>2, <1>3 DEF ThemeInv, ThemeType, ThemeApplied
  <1>4. CASE ~(tab' # "none" /\ tab = "none")
    BY <1>2, <1>4 DEF ThemeInv, ThemeType, ThemeApplied
  <1>. QED
    BY <1>3, <1>4

LEMMA ThemeShell == ThemeInv /\ ShellNext => ThemeInv'
  <1> SUFFICES ASSUME ThemeInv, ShellNext PROVE ThemeInv'
    OBVIOUS
  <1>1. tab' = tab
    BY ShellKeepsSession DEF authVars, memory, tab
  <1>2. CASE UNCHANGED theme
    BY <1>1, <1>2 DEF ThemeInv, ThemeType, ThemeApplied
  <1>3. CASE ToggleTheme
    <2> DEFINE to == NextTheme(theme.shown)
               now == [theme EXCEPT !.stored = to, !.shown = to]
    <2>1. to \in ThemeNames
      BY NextThemeType DEF ThemeInv, ThemeType
    <2>2. now \in [stored : ThemeNames, applied : ThemeNames, shown : ThemeNames,
                   os : ThemeNames, other : BOOLEAN]
          /\ now.stored = to /\ now.shown = to
      BY <2>1 DEF ThemeInv, ThemeType
    <2>3. theme' = Apply(now)
      BY <1>3 DEF ToggleTheme
    <2>. HIDE DEF now
    <2>. QED
      BY <1>1, <2>1, <2>2, <2>3, ApplyType DEF ThemeInv, ThemeType, ThemeApplied
  <1>4. CASE OsSwitches
    <2> DEFINE now == [theme EXCEPT !.os = IF @ = "dark" THEN "light" ELSE "dark"]
    <2>1. now \in [stored : ThemeNames, applied : ThemeNames, shown : ThemeNames,
                   os : ThemeNames, other : BOOLEAN]
          /\ now.stored = theme.stored /\ now.shown = theme.shown
          /\ now.other = theme.other /\ now.applied = theme.applied
      BY DEF ThemeInv, ThemeType, ThemeNames
    <2>2. theme' = IF now.stored = "system" THEN Apply(now) ELSE now
      BY <1>4 DEF OsSwitches
    <2>3. now.stored # "system" => resolveTheme(now.stored, now.os)
                                     = resolveTheme(theme.stored, theme.os)
      BY <2>1 DEF resolveTheme
    <2>. HIDE DEF now
    <2>4. CASE now.stored = "system"
      BY <1>1, <2>1, <2>2, <2>4, ApplyType DEF ThemeInv, ThemeType, ThemeApplied
    <2>5. CASE now.stored # "system"
      BY <1>1, <2>1, <2>2, <2>3, <2>5 DEF ThemeInv, ThemeType, ThemeApplied
    <2>. QED
      BY <2>4, <2>5
  <1>5. ASSUME NEW to \in ToSet(Themes), OtherTabTheme(to) PROVE ThemeInv'
    <2>1. to \in ThemeNames
      BY DEF ToSet, Themes, ThemeNames
    <2>2. theme' = [theme EXCEPT !.stored = to,
                                 !.shown = IF tab = "none" THEN @ ELSE to,
                                 !.other = TRUE]
      BY <1>5 DEF OtherTabTheme
    <2>. QED
      BY <2>1, <2>2 DEF ThemeInv, ThemeType, ThemeApplied
  <1>6. OpenPalette \/ ClosePalette \/ CollapseRail \/ ToggleDrawer => UNCHANGED theme
    BY DEF OpenPalette, ClosePalette, CollapseRail, ToggleDrawer
  <1>7. \A down, query, at : Arrow(down) \/ TypeQuery(query) \/ Hover(at) => UNCHANGED theme
    BY DEF Arrow, TypeQuery, Hover
  <1>. QED
    BY <1>2, <1>3, <1>4, <1>5, <1>6, <1>7 DEF ShellNext

LEMMA ThemeNext == ThemeInv /\ [Next]_vars => ThemeInv'
  <1> SUFFICES ASSUME ThemeInv, [Next]_vars PROVE ThemeInv'
    OBVIOUS
  <1>1. ASSUME NEW paletteNow, NEW drawerNow, RemountWith(paletteNow, drawerNow, theme)
        PROVE  ThemeInv'
    BY <1>1, RemountKeepsTheme DEF ThemeInv, ThemeType, ThemeApplied
  <1>2. ASSUME NEW s \in Slots, Reload(s),
               RemountWith(Closed, FALSE, [Apply(theme) EXCEPT !.other = FALSE])
        PROVE  ThemeInv'
    <2> DEFINE now == [Apply(theme) EXCEPT !.other = FALSE]
    <2>1. now \in [stored : ThemeNames, applied : ThemeNames, shown : ThemeNames,
                   os : ThemeNames, other : BOOLEAN]
          /\ now.applied = resolveTheme(now.stored, now.os)
      BY ApplyType DEF ThemeInv, ThemeType
    <2>2. tab' = "none"
      BY <1>2 DEF Reload, tab, TabOf
    <2>3. RemountWith(Closed, FALSE, now)
      BY <1>2
    <2>. HIDE DEF now
    <2>. QED
      BY <2>1, <2>2, <2>3, RemountKeepsTheme
  <1>3. CASE UNCHANGED <<isLoading, path, theme>>
    BY <1>3 DEF ThemeInv, ThemeType, ThemeApplied, tab
  <1>4. CASE SessionNext
    <2>1. ASSUME Unmounted, UNCHANGED <<isLoading, path>> PROVE ThemeInv'
      BY <1>3, <2>1 DEF Unmounted, shell
    <2>2. \A s \in Slots :
            LoginRefused(s) \/ LogoutAnswered(s) \/ LogoutLost(s)
              \/ (\E who \in Accounts : SubmitLogin(s, who) \/ SubmitSignup(s, who))
            => UNCHANGED <<isLoading, path>>
      BY DEF LoginRefused, LogoutAnswered, LogoutLost, SubmitLogin, SubmitSignup, Submit,
             memory
    <2>3. SubmitShortPassword \/ SendReset \/ ResetTimer
            \/ (\E who \in Persons : OtherTab(who))
          => UNCHANGED <<isLoading, path>>
      BY DEF SubmitShortPassword, SendReset, ResetTimer, OtherTab, memory
    <2>. QED
      BY <1>1, <1>2, <1>4, <2>1, <2>2, <2>3 DEF SessionNext, Remount
  <1>5. CASE ChoosePlace
    <2>1. ASSUME ClosePalette PROVE ThemeInv'
      BY <2>1, ThemeShell DEF ShellNext
    <2>. QED
      BY <1>1, <1>5, <2>1 DEF ChoosePlace
  <1>6. CASE ShellNext
    BY <1>6, ThemeShell
  <1>7. CASE UNCHANGED <<authVars, shell>>
    BY <1>3, <1>7 DEF authVars, memory, shell
  <1>8. ASSUME NEW s \in Slots, SaveProfile(s) \/ ProfileRefused(s) PROVE ThemeInv'
    BY <1>3, <1>8, ProfileKeepsShell DEF shell
  <1>. QED
    BY <1>4, <1>5, <1>6, <1>7, <1>8, ListsKeep, EvidenceKeeps, GrantsKeep, ProjectsKeep,
       AccountKeeps
    DEF Next, PageNext, vars

(***************************************************************************)
(* The document wears the theme the toggle shows and the browser stores,   *)
(* unless another tab stored one, whatever else happens meanwhile.         *)
(***************************************************************************)
THEOREM ThemeAlwaysApplied == Spec => []ThemeApplied
  <1>1. Init => ThemeInv
    <2> SUFFICES ASSUME Init PROVE ThemeInv
      OBVIOUS
    <2>1. theme = [stored |-> "light", applied |-> "light", shown |-> "light",
                   os |-> "light", other |-> FALSE]
      BY DEF Init
    <2>. QED
      BY <2>1 DEF ThemeInv, ThemeType, ThemeNames, ThemeApplied, resolveTheme
  <1>2. ThemeInv => ThemeApplied
    BY DEF ThemeInv
  <1>. QED
    BY <1>1, <1>2, ThemeNext, PTL DEF Spec

-----------------------------------------------------------------------------
(***************************************************************************)
(* The n-th highest of a finite set of numbers: counting the higher ones   *)
(* is one to one, so every count occurs.                                   *)
(***************************************************************************)
Numbers(S) == IsFiniteSet(S) /\ S \subseteq Int

Above(r, S) == {s \in S : s > r}

LEMMA PlaceOf ==
  ASSUME NEW S, Numbers(S)
  PROVE  /\ Cardinality(S) \in Nat
         /\ \A n \in 1 .. Cardinality(S) :
              Place(n, S) \in S /\ Cardinality(Above(Place(n, S), S)) = n - 1
         /\ \A r \in S : \E n \in 1 .. Cardinality(S) : Place(n, S) = r
         /\ \A n, m \in 1 .. Cardinality(S) : n < m <=> Place(n, S) > Place(m, S)
  <1>. DEFINE size == Cardinality(S)
              rank == [r \in S |-> Cardinality(Above(r, S)) + 1]
  <1>0. IsFiniteSet(S) /\ \A r \in S : r \in Int
    BY DEF Numbers
  <1>1. size \in Nat /\ IsFiniteSet(1 .. size) /\ Cardinality(1 .. size) = size
    <2>1. size \in Nat
      BY <1>0, FS_CardinalityType
    <2>. HIDE DEF size
    <2>. QED
      BY <2>1, FS_Interval
  <1>2. \A r \in S : /\ IsFiniteSet(Above(r, S)) /\ Cardinality(Above(r, S)) \in Nat
                     /\ Cardinality(Above(r, S)) < size
    <2>. TAKE r \in S
    <2>1. Above(r, S) \subseteq S /\ r \notin Above(r, S)
      <3>. HIDE DEF rank, size
      <3>. QED
        BY <1>0 DEF Above
    <2>2. /\ IsFiniteSet(Above(r, S)) /\ Cardinality(Above(r, S)) <= size
          /\ Cardinality(Above(r, S)) # size
      BY <1>0, <2>1, FS_Subset
    <2>. QED
      BY <1>1, <2>2, FS_CardinalityType
  <1>3. ASSUME NEW r \in S, NEW s \in S, r > s
        PROVE  Cardinality(Above(r, S)) < Cardinality(Above(s, S))
    <2>1. Above(r, S) \subseteq Above(s, S) /\ r \in Above(s, S) /\ r \notin Above(r, S)
      <3>. HIDE DEF rank, size
      <3>. QED
        BY <1>0, <1>3 DEF Above
    <2>2. /\ Cardinality(Above(r, S)) <= Cardinality(Above(s, S))
          /\ Cardinality(Above(r, S)) # Cardinality(Above(s, S))
      BY <1>2, <2>1, FS_Subset
    <2>. QED
      BY <1>2, <2>2
  <1>4. rank \in [S -> 1 .. size]
    <2>. HIDE DEF size
    <2>. QED
      BY <1>1, <1>2
  <1>5. \A r, s \in S : r > s => rank[r] < rank[s]
    BY <1>2, <1>3
  <1>6. \A r \in S : rank[r] = Cardinality(Above(r, S)) + 1
    OBVIOUS
  <1>. HIDE DEF rank
  <1>7. \A r, s \in S : rank[r] = rank[s] => r = s
    <2>. TAKE r \in S, s \in S
    <2>1. r \in Int /\ s \in Int /\ rank[r] \in Int /\ rank[s] \in Int
      BY <1>0, <1>4
    <2>. QED
      BY <1>5, <2>1
  <1>8. rank \in Surjection(S, 1 .. size)
    <2>1. rank \in Injection(S, 1 .. size)
      BY <1>4, <1>7 DEF Injection, IsInjective
    <2>. HIDE DEF size
    <2>. QED
      BY <1>0, <1>1, <2>1, FS_Injection DEF size
  <1>9. ASSUME NEW n \in 1 .. size
        PROVE  Place(n, S) \in S /\ Cardinality(Above(Place(n, S), S)) = n - 1
    <2>1. PICK r \in S : rank[r] = n
      BY <1>8 DEF Surjection
    <2>2. Cardinality(Above(r, S)) = n - 1
      BY <1>2, <1>6, <2>1
    <2>. QED
      BY <2>2 DEF Place, Above
  <1>10. \A n \in 1 .. size : rank[Place(n, S)] = n
    <2>. TAKE n \in 1 .. size
    <2>1. rank[Place(n, S)] = (n - 1) + 1 /\ n \in Int
      <3>. HIDE DEF size
      <3>. QED
        BY <1>1, <1>6, <1>9
    <2>. QED
      BY <2>1
  <1>11. ASSUME NEW r \in S PROVE \E n \in 1 .. size : Place(n, S) = r
    <2>1. rank[r] \in 1 .. size
      BY <1>4
    <2>. QED
      BY <1>7, <1>9, <1>10, <2>1
  <1>12. ASSUME NEW n \in 1 .. size, NEW m \in 1 .. size
         PROVE  n < m <=> Place(n, S) > Place(m, S)
    <2>1. /\ Place(n, S) \in S /\ Place(m, S) \in S
          /\ rank[Place(n, S)] = n /\ rank[Place(m, S)] = m
      BY <1>9, <1>10
    <2>2. Place(n, S) \in Int /\ Place(m, S) \in Int /\ n \in Int /\ m \in Int
      <3>. HIDE DEF size
      <3>. QED
        BY <1>0, <1>1, <2>1
    <2>. QED
      BY <1>5, <2>1, <2>2
  <1>. QED
    BY <1>1, <1>9, <1>11, <1>12

(***************************************************************************)
(* So a finite set of numbers has a highest, unless it is empty.           *)
(***************************************************************************)
LEMMA MaxOf ==
  ASSUME NEW S, Numbers(S), S # {}
  PROVE  Max(S) \in S
  <1>. DEFINE size == Cardinality(S)
  <1>0. \A r \in S : r \in Int
    BY DEF Numbers
  <1>1. size \in Nat /\ \A r \in S : \E n \in 1 .. size : Place(n, S) = r
    BY PlaceOf
  <1>2. \A n, m \in 1 .. size : n < m <=> Place(n, S) > Place(m, S)
    BY PlaceOf
  <1>3. \A n \in 1 .. size : Place(n, S) \in S
    BY PlaceOf
  <1>. HIDE DEF size
  <1>4. 1 \in 1 .. size
    BY <1>1
  <1>5. ASSUME NEW r \in S PROVE Place(1, S) >= r
    <2>1. PICK n \in 1 .. size : Place(n, S) = r
      BY <1>1
    <2>2. n \in Int /\ r \in Int /\ Place(1, S) \in Int
      BY <1>0, <1>1, <1>3, <1>4
    <2>3. n = 1 \/ 1 < n
      BY <1>1
    <2>. QED
      BY <1>2, <1>4, <2>1, <2>2, <2>3
  <1>. QED
    BY <1>3, <1>4, <1>5 DEF Max

-----------------------------------------------------------------------------
(***************************************************************************)
(* Sequences of calls.  `Picks`: t consists of s at the places K, each     *)
(* once, whatever their order.                                             *)
(***************************************************************************)
Picks(t, s, K) ==
  \E f \in [DOMAIN t -> K] :
    /\ \A j \in DOMAIN t : t[j] = s[f[j]]
    /\ \A j, k \in DOMAIN t : f[j] = f[k] => j = k
    /\ \A k \in K : \E j \in DOMAIN t : f[j] = k

AtMostOne(ops, some) ==
  \A i, j \in DOMAIN some : some[i].op \in ops /\ some[j].op \in ops => i = j

LEMMA Picked ==
  ASSUME NEW t, NEW s, NEW K, K \subseteq DOMAIN s, Picks(t, s, K)
  PROVE  /\ \A j \in DOMAIN t : \E k \in K : t[j] = s[k]
         /\ \A k \in K : \E j \in DOMAIN t : t[j] = s[k]
         /\ \A ops : AtMostOne(ops, s) => AtMostOne(ops, t)
  <1>1. PICK f \in [DOMAIN t -> K] :
               /\ \A j \in DOMAIN t : t[j] = s[f[j]]
               /\ \A j, k \in DOMAIN t : f[j] = f[k] => j = k
               /\ \A k \in K : \E j \in DOMAIN t : f[j] = k
    BY DEF Picks
  <1>2. \A j \in DOMAIN t : f[j] \in K /\ f[j] \in DOMAIN s
    BY <1>1
  <1>3. \A ops : AtMostOne(ops, s) => AtMostOne(ops, t)
    BY <1>1, <1>2 DEF AtMostOne
  <1>. QED
    BY <1>1, <1>2, <1>3

LEMMA RemoveAtPicks ==
  ASSUME NEW T, NEW s \in Seq(T), NEW i \in DOMAIN s
  PROVE  /\ RemoveAt(s, i) \in Seq(T)
         /\ Picks(RemoveAt(s, i), s, DOMAIN s \ {i})
  <1>. DEFINE t == RemoveAt(s, i)
              n == Len(s)
              f == [j \in DOMAIN t |-> IF j < i THEN j ELSE j + 1]
              left == SubSeq(s, 1, i - 1)
              right == SubSeq(s, i + 1, n)
  <1>1. n \in Nat /\ i \in 1 .. n /\ DOMAIN s = 1 .. n
    BY LenProperties
  <1>0. \A k \in 1 .. n : s[k] \in T
    BY ElementOfSeq
  <1>2. /\ left \in Seq(T) /\ Len(left) = i - 1
        /\ \A k \in 1 .. i - 1 : left[k] = s[k]
    <2>1. /\ 1 \in Int /\ i - 1 \in Int /\ \A k \in 1 .. i - 1 : s[k] \in T
      BY <1>0, <1>1
    <2>2. /\ left \in Seq(T) /\ Len(left) = IF 1 <= i - 1 THEN (i - 1) - 1 + 1 ELSE 0
          /\ \A k \in 1 .. (i - 1) - 1 + 1 : left[k] = s[1 + k - 1]
      BY <2>1, SubSeqProperties
    <2>. HIDE DEF left
    <2>. QED
      BY <1>1, <2>2
  <1>3. /\ right \in Seq(T) /\ Len(right) = n - i
        /\ \A k \in 1 .. n - i : right[k] = s[i + k]
    <2>1. /\ i + 1 \in Int /\ n \in Int /\ \A k \in i + 1 .. n : s[k] \in T
      BY <1>0, <1>1
    <2>2. /\ right \in Seq(T) /\ Len(right) = IF i + 1 <= n THEN n - (i + 1) + 1 ELSE 0
          /\ \A k \in 1 .. n - (i + 1) + 1 : right[k] = s[(i + 1) + k - 1]
      BY <2>1, SubSeqProperties
    <2>. HIDE DEF right, n
    <2>3. i + 1 <= n <=> n - i > 0
      BY <1>1
    <2>4. /\ n - (i + 1) + 1 = n - i /\ n - i >= 0
          /\ \A k \in 1 .. n - i : (i + 1) + k - 1 = i + k
      BY <1>1
    <2>. QED
      BY <1>1, <2>2, <2>3, <2>4
  <1>4. t = left \o right
    BY DEF RemoveAt
  <1>. HIDE DEF left, right, t, f
  <1>5. /\ t \in Seq(T) /\ Len(t) = Len(left) + Len(right)
        /\ \A j \in 1 .. Len(left) + Len(right) :
             t[j] = IF j <= Len(left) THEN left[j] ELSE right[j - Len(left)]
    BY <1>2, <1>3, <1>4, ConcatProperties
  <1>. HIDE DEF n
  <1>6. Len(t) = n - 1 /\ DOMAIN t = 1 .. n - 1
    BY <1>1, <1>2, <1>3, <1>5, LenProperties
  <1>7. \A j \in 1 .. n - 1 : t[j] = s[IF j < i THEN j ELSE j + 1]
    <2>. TAKE j \in 1 .. n - 1
    <2>1. t[j] = IF j <= i - 1 THEN left[j] ELSE right[j - (i - 1)]
      BY <1>1, <1>2, <1>3, <1>5
    <2>2. CASE j < i
      BY <1>1, <1>2, <2>1, <2>2
    <2>3. CASE ~(j < i)
      <3>1. j - (i - 1) \in 1 .. n - i /\ i + (j - (i - 1)) = j + 1
        BY <1>1, <2>3
      <3>. QED
        BY <1>1, <1>3, <2>1, <2>3, <3>1
    <2>. QED
      BY <2>2, <2>3
  <1>8. /\ f \in [DOMAIN t -> DOMAIN s \ {i}]
        /\ \A j \in DOMAIN t : t[j] = s[f[j]]
    BY <1>1, <1>6, <1>7 DEF f
  <1>9. \A j, k \in DOMAIN t : f[j] = f[k] => j = k
    BY <1>1, <1>6 DEF f
  <1>10. ASSUME NEW k \in DOMAIN s \ {i} PROVE \E j \in DOMAIN t : f[j] = k
    <2>1. CASE k < i
      <3>1. k \in DOMAIN t /\ f[k] = k
        BY <1>1, <1>6, <2>1 DEF f
      <3>. QED
        BY <3>1
    <2>2. CASE ~(k < i)
      <3>1. k - 1 \in DOMAIN t /\ ~(k - 1 < i) /\ (k - 1) + 1 = k
        BY <1>1, <1>6, <2>2
      <3>2. f[k - 1] = k
        BY <3>1 DEF f
      <3>. QED
        BY <3>1, <3>2
    <2>. QED
      BY <2>1, <2>2
  <1>11. Picks(t, s, DOMAIN s \ {i})
    BY <1>8, <1>9, <1>10 DEF Picks
  <1>. QED
    BY <1>5, <1>11 DEF t

LEMMA OnlyPicks ==
  ASSUME NEW T, NEW s \in Seq(T), NEW ops
  PROVE  /\ Only(ops, s) \in Seq(T)
         /\ Picks(Only(ops, s), s, {i \in DOMAIN s : s[i].op \in ops})
  <1>. DEFINE K == {i \in DOMAIN s : s[i].op \in ops}
              size == Cardinality(K)
              t == Only(ops, s)
              f == [j \in 1 .. size |-> Place(size + 1 - j, K)]
  <1>1. Len(s) \in Nat /\ DOMAIN s = 1 .. Len(s)
    BY LenProperties
  <1>2. K \subseteq DOMAIN s
    OBVIOUS
  <1>3. t = [j \in 1 .. size |-> s[Place(size + 1 - j, K)]]
    BY DEF Only
  <1>. HIDE DEF K, t
  <1>4. Numbers(K)
    <2>. HIDE DEF f, size
    <2>1. IsFiniteSet(1 .. Len(s)) /\ 1 .. Len(s) \subseteq Int
      BY <1>1, FS_Interval
    <2>2. IsFiniteSet(K)
      BY <1>1, <1>2, <2>1, FS_Subset
    <2>. QED
      BY <1>1, <1>2, <2>1, <2>2 DEF Numbers
  <1>5. /\ size \in Nat
        /\ \A n \in 1 .. size : Place(n, K) \in K
        /\ \A r \in K : \E n \in 1 .. size : Place(n, K) = r
        /\ \A n, m \in 1 .. size : n < m <=> Place(n, K) > Place(m, K)
    BY <1>4, PlaceOf
  <1>. HIDE DEF size
  <1>6. \A j \in 1 .. size : size + 1 - j \in 1 .. size
    BY <1>5
  <1>7. f \in [1 .. size -> K] /\ \A j \in 1 .. size : t[j] = s[f[j]]
    BY <1>3, <1>5, <1>6
  <1>8. t \in [1 .. size -> T]
    BY <1>1, <1>2, <1>3, <1>5, <1>6, ElementOfSeq
  <1>9. t \in Seq(T) /\ DOMAIN t = 1 .. size
    BY <1>5, <1>8, SeqDef
  <1>10. ASSUME NEW j \in 1 .. size, NEW k \in 1 .. size, f[j] = f[k] PROVE j = k
    <2>1. Place(size + 1 - j, K) = Place(size + 1 - k, K)
      BY <1>10
    <2>2. /\ Place(size + 1 - j, K) \in Int
          /\ size + 1 - j \in 1 .. size /\ size + 1 - k \in 1 .. size
      BY <1>1, <1>2, <1>5, <1>6
    <2>3. ~(size + 1 - j < size + 1 - k) /\ ~(size + 1 - k < size + 1 - j)
      BY <1>5, <2>1, <2>2
    <2>. QED
      BY <1>5, <2>3
  <1>11. ASSUME NEW k \in K PROVE \E j \in 1 .. size : f[j] = k
    <2>1. PICK n \in 1 .. size : Place(n, K) = k
      BY <1>5
    <2>2. size + 1 - n \in 1 .. size /\ size + 1 - (size + 1 - n) = n
      BY <1>5
    <2>. QED
      BY <2>1, <2>2
  <1>12. Picks(t, s, K)
    <2>. HIDE DEF f
    <2>1. /\ f \in [DOMAIN t -> K]
          /\ \A j \in DOMAIN t : t[j] = s[f[j]]
      BY <1>7, <1>9
    <2>2. \A j, k \in DOMAIN t : f[j] = f[k] => j = k
      BY <1>9, <1>10
    <2>3. \A k \in K : \E j \in DOMAIN t : f[j] = k
      BY <1>9, <1>11
    <2>. QED
      BY <2>1, <2>2, <2>3 DEF Picks
  <1>. QED
    BY <1>9, <1>12 DEF t, K

-----------------------------------------------------------------------------
(***************************************************************************)
(* What is known of the calls under way: whose they are and who awaits     *)
(* them.  A read is awaited by the tab that made it, or it is not under    *)
(* way any more; a write may outlive its tab.                              *)
(***************************************************************************)
CallRecord ==
  [op : CallOps, arg : Nat, tok : Nat, as : Persons,
   live : {"here", "page", "gone"}, then : {"none", "created", "changed"}]

OpsOf(where) ==
  CASE where = "sessions"    -> {"projects", "list", "anchor", "replay"}
    [] where = "activity"    -> {"projects", "list"}
    [] where = "receipts"    -> {"projects", "list", "proof"}
    [] where = "verify"      -> {"projects", "fetchProof", "verify"}
    [] where = "delegations" -> {"projects", "list", "verifyGrant", "revoke"}
    [] where = "projects"    -> {"projects", "list", "createProject"} \cup RowOps
    [] where = "overview"    -> {"projects", "figures", "key"}
    [] where = "analytics"   -> {"projects", "figures"}
    [] where = "settings"    -> {"projects", "key"}
    [] where = "none"        -> {}
    [] OTHER                 -> {"projects"}

CallFits(c, where) ==
  /\ c \in CallRecord
  /\ c.live # "gone" => c.op \in OpsOf(where)
  /\ c.live = "gone" => c.op \in Writes
  /\ c.live = "page" => c.op \in RowOps
  /\ c.op \in RowOps => c.arg \in Projects
  /\ c.op = "revoke" => c.arg \in Rows
  /\ c.then = "changed" => c.op = "keys"

Fit(some, where) ==
  some \in Seq(CallRecord) /\ \A i \in DOMAIN some : CallFits(some[i], where)

LEMMA FitRemove ==
  ASSUME NEW s, NEW where, NEW i, Fit(s, where), i \in DOMAIN s
  PROVE  Fit(RemoveAt(s, i), where)
  <1>1. s \in Seq(CallRecord) /\ \A j \in DOMAIN s : CallFits(s[j], where)
    BY DEF Fit
  <1>2. RemoveAt(s, i) \in Seq(CallRecord) /\ Picks(RemoveAt(s, i), s, DOMAIN s \ {i})
    BY <1>1, RemoveAtPicks
  <1>3. \A j \in DOMAIN RemoveAt(s, i) : \E k \in DOMAIN s \ {i} : RemoveAt(s, i)[j] = s[k]
    BY <1>2, Picked
  <1>. QED
    BY <1>1, <1>2, <1>3 DEF Fit

LEMMA FitOnly ==
  ASSUME NEW s, NEW where, NEW ops, Fit(s, where)
  PROVE  Fit(Only(ops, s), where)
  <1>1. s \in Seq(CallRecord) /\ \A j \in DOMAIN s : CallFits(s[j], where)
    BY DEF Fit
  <1>. DEFINE K == {i \in DOMAIN s : s[i].op \in ops}
  <1>2. Only(ops, s) \in Seq(CallRecord) /\ Picks(Only(ops, s), s, K) /\ K \subseteq DOMAIN s
    BY <1>1, OnlyPicks
  <1>. HIDE DEF K
  <1>3. \A j \in DOMAIN Only(ops, s) : \E k \in K : Only(ops, s)[j] = s[k]
    BY <1>2, Picked
  <1>. QED
    BY <1>1, <1>2, <1>3 DEF Fit

LEMMA FitCancel ==
  ASSUME NEW s, NEW where, NEW ops, Fit(s, where)
  PROVE  Fit(Cancel(ops, s), where)
  BY FitOnly DEF Cancel

LEMMA FitAppend ==
  ASSUME NEW s, NEW where, NEW c, Fit(s, where), CallFits(c, where)
  PROVE  Fit(Append(s, c), where)
  <1>1. s \in Seq(CallRecord) /\ \A j \in DOMAIN s : CallFits(s[j], where)
    BY DEF Fit
  <1>2. c \in CallRecord
    BY DEF CallFits
  <1>3. /\ Append(s, c) \in Seq(CallRecord) /\ Len(Append(s, c)) = Len(s) + 1
        /\ \A i \in 1.. Len(s) : Append(s, c)[i] = s[i]
        /\ Append(s, c)[Len(s) + 1] = c
    BY <1>1, <1>2, AppendProperties
  <1>4. /\ Len(s) \in Nat /\ DOMAIN s = 1 .. Len(s)
        /\ DOMAIN Append(s, c) = 1 .. Len(s) + 1
    BY <1>1, <1>3, LenProperties
  <1>5. \A i \in 1 .. Len(s) + 1 : i \in 1 .. Len(s) \/ i = Len(s) + 1
    BY <1>4
  <1>. QED
    BY <1>1, <1>3, <1>4, <1>5 DEF Fit

LEMMA FitConcat ==
  ASSUME NEW s, NEW t, NEW where, Fit(s, where), Fit(t, where)
  PROVE  Fit(s \o t, where)
  <1>1. /\ s \in Seq(CallRecord) /\ t \in Seq(CallRecord)
        /\ \A j \in DOMAIN s : CallFits(s[j], where)
        /\ \A j \in DOMAIN t : CallFits(t[j], where)
    BY DEF Fit
  <1>2. /\ s \o t \in Seq(CallRecord) /\ Len(s \o t) = Len(s) + Len(t)
        /\ \A i \in 1 .. Len(s) + Len(t) :
             (s \o t)[i] = IF i <= Len(s) THEN s[i] ELSE t[i - Len(s)]
    BY <1>1, ConcatProperties
  <1>3. /\ Len(s) \in Nat /\ DOMAIN s = 1 .. Len(s)
        /\ Len(t) \in Nat /\ DOMAIN t = 1 .. Len(t)
        /\ DOMAIN (s \o t) = 1 .. Len(s) + Len(t)
    BY <1>1, <1>2, LenProperties
  <1>4. ASSUME NEW i \in 1 .. Len(s) + Len(t) PROVE CallFits((s \o t)[i], where)
    <2>1. CASE i <= Len(s)
      <3>1. i \in 1 .. Len(s)
        BY <1>3, <2>1
      <3>. QED
        BY <1>1, <1>2, <1>3, <2>1, <3>1
    <2>2. CASE ~(i <= Len(s))
      <3>1. i - Len(s) \in 1 .. Len(t)
        BY <1>3, <2>2
      <3>. QED
        BY <1>1, <1>2, <1>3, <2>2, <3>1
    <2>. QED
      BY <2>1, <2>2
  <1>. QED
    BY <1>2, <1>3, <1>4 DEF Fit

LEMMA FitNone ==
  ASSUME NEW where
  PROVE  Fit(<<>>, where)
  BY EmptySeq DEF Fit

LEMMA FitOne ==
  ASSUME NEW c, NEW where, CallFits(c, where)
  PROVE  Fit(<<c>>, where)
  BY DEF Fit, CallFits

(***************************************************************************)
(* Calls of rows that leave the screen fit as before.                      *)
(***************************************************************************)
LEMMA UnrowSteps ==
  ASSUME NEW s \in Seq(CallRecord), NEW pages
  PROVE  /\ Unrow(s, pages) \in Seq(CallRecord) /\ DOMAIN Unrow(s, pages) = DOMAIN s
         /\ \A i \in DOMAIN s :
              \/ Unrow(s, pages)[i] = s[i]
              \/ /\ Unrow(s, pages)[i] = [s[i] EXCEPT !.live = "page"]
                 /\ s[i].op \in RowOps /\ s[i].live = "here"
                 /\ s[i].arg \notin ProjectRows(pages)
  <1>. DEFINE t == Unrow(s, pages)
              n == Len(s)
  <1>1. n \in Nat /\ DOMAIN s = 1 .. n /\ \A i \in 1 .. n : s[i] \in CallRecord
    BY LenProperties
  <1>2. \A i \in DOMAIN s :
              \/ t[i] = s[i]
              \/ /\ t[i] = [s[i] EXCEPT !.live = "page"]
                 /\ s[i].op \in RowOps /\ s[i].live = "here"
                 /\ s[i].arg \notin ProjectRows(pages)
    BY DEF Unrow
  <1>3. DOMAIN t = DOMAIN s /\ t = [i \in DOMAIN s |-> t[i]]
    BY DEF Unrow
  <1>. HIDE DEF n, t
  <1>4. \A i \in 1 .. n : t[i] \in CallRecord
    <2>1. \A c \in CallRecord : [c EXCEPT !.live = "page"] \in CallRecord
      BY DEF CallRecord
    <2>. QED
      BY <1>1, <1>2, <2>1
  <1>5. t \in [1 .. n -> CallRecord]
    BY <1>1, <1>3, <1>4
  <1>6. t \in Seq(CallRecord)
    BY <1>1, <1>5, SeqDef
  <1>. QED
    BY <1>2, <1>3, <1>6 DEF t

LEMMA FitUnrow ==
  ASSUME NEW s, NEW pages, Fit(s, "projects")
  PROVE  Fit(Unrow(s, pages), "projects")
  <1>1. s \in Seq(CallRecord) /\ \A j \in DOMAIN s : CallFits(s[j], "projects")
    BY DEF Fit
  <1>2. /\ Unrow(s, pages) \in Seq(CallRecord) /\ DOMAIN Unrow(s, pages) = DOMAIN s
        /\ \A i \in DOMAIN s :
              \/ Unrow(s, pages)[i] = s[i]
              \/ /\ Unrow(s, pages)[i] = [s[i] EXCEPT !.live = "page"]
                 /\ s[i].op \in RowOps /\ s[i].live = "here"
    BY <1>1, UnrowSteps
  <1>3. ASSUME NEW c, CallFits(c, "projects"), c.op \in RowOps, c.live = "here"
        PROVE  CallFits([c EXCEPT !.live = "page"], "projects")
    BY <1>3 DEF CallFits, CallRecord
  <1>. QED
    BY <1>1, <1>2, <1>3 DEF Fit

(***************************************************************************)
(* What is left of the calls of a tab that is gone: writes.                *)
(***************************************************************************)
LEMMA AbandonLeaves ==
  ASSUME NEW s, NEW where, NEW to, Fit(s, where)
  PROVE  /\ Fit(Abandon(s), to)
         /\ \A i \in DOMAIN Abandon(s) : Abandon(s)[i].live = "gone"
  <1>. DEFINE left == Only(Writes, s)
              K == {i \in DOMAIN s : s[i].op \in Writes}
              t == Abandon(s)
              n == Len(left)
  <1>1. Fit(left, where)
    BY FitOnly
  <1>2. left \in Seq(CallRecord) /\ \A i \in DOMAIN left : CallFits(left[i], where)
    BY <1>1 DEF Fit
  <1>3. s \in Seq(CallRecord) /\ Picks(left, s, K)
    BY OnlyPicks DEF Fit
  <1>4. \A i \in DOMAIN left : left[i].op \in Writes
    <2>1. \A i \in DOMAIN left : \E k \in K : left[i] = s[k]
      BY <1>3, Picked
    <2>. QED
      BY <2>1
  <1>5. t = [i \in DOMAIN left |-> [left[i] EXCEPT !.live = "gone"]]
    BY DEF Abandon
  <1>6. n \in Nat /\ DOMAIN left = 1 .. n
    BY <1>2, LenProperties
  <1>. HIDE DEF left, t, n
  <1>7. ASSUME NEW i \in DOMAIN left
        PROVE  CallFits(t[i], to) /\ t[i] \in CallRecord /\ t[i].live = "gone"
    <2>1. CallFits(left[i], where) /\ left[i].op \in Writes
      BY <1>2, <1>4
    <2>2. t[i] = [left[i] EXCEPT !.live = "gone"]
      BY <1>5
    <2>. QED
      BY <2>1, <2>2 DEF CallFits, CallRecord
  <1>8. t \in [1 .. n -> CallRecord] /\ DOMAIN t = DOMAIN left
    BY <1>5, <1>6, <1>7
  <1>9. t \in Seq(CallRecord)
    BY <1>6, <1>8, SeqDef
  <1>. QED
    BY <1>7, <1>8, <1>9 DEF t, Fit

-----------------------------------------------------------------------------
(***************************************************************************)
(* What each of these does to the set of the calls under way, and to       *)
(* there being at most one of some kind.                                   *)
(***************************************************************************)
LEMMA InSet ==
  ASSUME NEW s, NEW i, i \in DOMAIN s
  PROVE  s[i] \in ToSet(s)
  BY DEF ToSet

LEMMA SetOfFit ==
  ASSUME NEW s, NEW where, Fit(s, where)
  PROVE  \A c \in ToSet(s) : CallFits(c, where)
  BY DEF Fit, ToSet

LEMMA RemoveSet ==
  ASSUME NEW s, NEW i, NEW where, Fit(s, where), i \in DOMAIN s
  PROVE  /\ ToSet(RemoveAt(s, i)) \subseteq ToSet(s)
         /\ ToSet(s) \subseteq ToSet(RemoveAt(s, i)) \cup {s[i]}
         /\ \A ops : AtMostOne(ops, s) => AtMostOne(ops, RemoveAt(s, i))
         /\ \A ops : AtMostOne(ops, s) /\ s[i].op \in ops
                       => \A c \in ToSet(RemoveAt(s, i)) : c.op \notin ops
  <1>. DEFINE t == RemoveAt(s, i)
  <1>1. Picks(t, s, DOMAIN s \ {i})
    BY RemoveAtPicks DEF Fit
  <1>. HIDE DEF t
  <1>2. /\ \A j \in DOMAIN t : \E k \in DOMAIN s \ {i} : t[j] = s[k]
        /\ \A k \in DOMAIN s \ {i} : \E j \in DOMAIN t : t[j] = s[k]
        /\ \A ops : AtMostOne(ops, s) => AtMostOne(ops, t)
    BY <1>1, Picked
  <1>3. ToSet(t) \subseteq ToSet(s) /\ ToSet(s) \subseteq ToSet(t) \cup {s[i]}
    BY <1>2 DEF ToSet
  <1>4. \A ops : AtMostOne(ops, s) /\ s[i].op \in ops
                       => \A j \in DOMAIN t : t[j].op \notin ops
    BY <1>2 DEF AtMostOne
  <1>5. \A ops : AtMostOne(ops, s) /\ s[i].op \in ops
                       => \A c \in ToSet(t) : c.op \notin ops
    BY <1>4 DEF ToSet
  <1>. QED
    BY <1>2, <1>3, <1>5 DEF t

LEMMA OnlySet ==
  ASSUME NEW s, NEW ops, NEW where, Fit(s, where)
  PROVE  /\ ToSet(Only(ops, s)) = {c \in ToSet(s) : c.op \in ops}
         /\ \A some : AtMostOne(some, s) => AtMostOne(some, Only(ops, s))
  <1>. DEFINE t == Only(ops, s)
              K == {i \in DOMAIN s : s[i].op \in ops}
  <1>1. Picks(t, s, K)
    BY OnlyPicks DEF Fit
  <1>. HIDE DEF t
  <1>2. /\ \A j \in DOMAIN t : \E k \in K : t[j] = s[k]
        /\ \A k \in K : \E j \in DOMAIN t : t[j] = s[k]
        /\ \A some : AtMostOne(some, s) => AtMostOne(some, t)
    BY <1>1, Picked
  <1>3. ToSet(t) = {c \in ToSet(s) : c.op \in ops}
    BY <1>2 DEF ToSet
  <1>. QED
    BY <1>2, <1>3 DEF t

LEMMA CancelSet ==
  ASSUME NEW s, NEW ops, NEW where, Fit(s, where)
  PROVE  /\ ToSet(Cancel(ops, s)) = {c \in ToSet(s) : c.op \notin ops}
         /\ \A some : AtMostOne(some, s) => AtMostOne(some, Cancel(ops, s))
  <1>. DEFINE left == {s[i].op : i \in DOMAIN s} \ ops
  <1>1. Cancel(ops, s) = Only(left, s)
    BY DEF Cancel
  <1>2. \A c \in ToSet(s) : c.op \in left <=> c.op \notin ops
    BY DEF ToSet
  <1>. HIDE DEF left
  <1>. QED
    BY <1>1, <1>2, OnlySet

LEMMA AppendSet ==
  ASSUME NEW s, NEW c, NEW where, Fit(s, where), c \in CallRecord
  PROVE  /\ ToSet(Append(s, c)) = ToSet(s) \cup {c}
         /\ \A ops : AtMostOne(ops, s) /\ c.op \notin ops => AtMostOne(ops, Append(s, c))
         /\ \A ops : (\A d \in ToSet(s) : d.op \notin ops) => AtMostOne(ops, Append(s, c))
  <1>. DEFINE t == Append(s, c)
  <1>1. /\ t \in Seq(CallRecord) /\ Len(t) = Len(s) + 1
        /\ \A i \in 1.. Len(s) : t[i] = s[i]
        /\ t[Len(s) + 1] = c
        /\ s \in Seq(CallRecord)
    BY AppendProperties DEF Fit
  <1>. HIDE DEF t
  <1>2. Len(s) \in Nat /\ DOMAIN s = 1 .. Len(s) /\ DOMAIN t = 1 .. Len(s) + 1
    BY <1>1, LenProperties
  <1>. DEFINE n == Len(s)
  <1>3. /\ n \in Nat /\ DOMAIN s = 1 .. n /\ DOMAIN t = 1 .. n + 1
        /\ \A i \in 1 .. n : t[i] = s[i]
        /\ t[n + 1] = c
    BY <1>1, <1>2
  <1>. HIDE DEF n
  <1>4. \A i \in DOMAIN t : i \in DOMAIN s \/ i = n + 1
    BY <1>3
  <1>5. (n + 1) \in DOMAIN t /\ \A i \in DOMAIN s : i \in DOMAIN t /\ t[i] = s[i]
    BY <1>3
  <1>6. ToSet(t) = ToSet(s) \cup {c}
    BY <1>3, <1>4, <1>5 DEF ToSet
  <1>7. ASSUME NEW ops, AtMostOne(ops, s), c.op \notin ops PROVE AtMostOne(ops, t)
    BY <1>3, <1>4, <1>5, <1>7 DEF AtMostOne
  <1>8. ASSUME NEW ops, \A d \in ToSet(s) : d.op \notin ops PROVE AtMostOne(ops, t)
    <2>1. \A i \in DOMAIN s : s[i].op \notin ops
      BY <1>8, InSet
    <2>. QED
      BY <1>3, <1>4, <1>5, <2>1 DEF AtMostOne
  <1>. QED
    BY <1>6, <1>7, <1>8 DEF t

LEMMA ConcatSet ==
  ASSUME NEW s, NEW t, NEW where, Fit(s, where), Fit(t, where)
  PROVE  ToSet(s \o t) = ToSet(s) \cup ToSet(t)
  <1>1. s \in Seq(CallRecord) /\ t \in Seq(CallRecord)
    BY DEF Fit
  <1>2. /\ s \o t \in Seq(CallRecord) /\ Len(s \o t) = Len(s) + Len(t)
        /\ \A i \in 1 .. Len(s) + Len(t) :
             (s \o t)[i] = IF i <= Len(s) THEN s[i] ELSE t[i - Len(s)]
    BY <1>1, ConcatProperties
  <1>3. /\ Len(s) \in Nat /\ DOMAIN s = 1 .. Len(s)
        /\ Len(t) \in Nat /\ DOMAIN t = 1 .. Len(t)
        /\ DOMAIN (s \o t) = 1 .. Len(s) + Len(t)
    BY <1>1, <1>2, LenProperties
  <1>4. ASSUME NEW i \in DOMAIN (s \o t)
        PROVE  (s \o t)[i] \in ToSet(s) \cup ToSet(t)
    <2>1. CASE i <= Len(s)
      <3>1. i \in DOMAIN s
        BY <1>3, <2>1
      <3>. QED
        BY <1>2, <1>3, <2>1, <3>1, InSet
    <2>2. CASE ~(i <= Len(s))
      <3>1. i - Len(s) \in DOMAIN t
        BY <1>3, <2>2
      <3>. QED
        BY <1>2, <1>3, <2>2, <3>1, InSet
    <2>. QED
      BY <2>1, <2>2
  <1>5. ASSUME NEW i \in DOMAIN s PROVE s[i] \in ToSet(s \o t)
    <2>1. i \in DOMAIN (s \o t) /\ (s \o t)[i] = s[i]
      BY <1>2, <1>3
    <2>2. (s \o t)[i] \in ToSet(s \o t)
      BY <2>1, InSet
    <2>. QED
      BY <2>1, <2>2
  <1>6. ASSUME NEW i \in DOMAIN t PROVE t[i] \in ToSet(s \o t)
    <2>1. i + Len(s) \in DOMAIN (s \o t) /\ (s \o t)[i + Len(s)] = t[i]
      <3>1. i + Len(s) \in 1 .. Len(s) + Len(t) /\ ~(i + Len(s) <= Len(s))
            /\ (i + Len(s)) - Len(s) = i
        BY <1>3
      <3>. QED
        BY <1>2, <1>3, <3>1
    <2>2. (s \o t)[i + Len(s)] \in ToSet(s \o t)
      BY <2>1, InSet
    <2>. QED
      BY <2>1, <2>2
  <1>7. ToSet(s \o t) \subseteq ToSet(s) \cup ToSet(t)
    BY <1>4 DEF ToSet
  <1>8. ToSet(s) \subseteq ToSet(s \o t) /\ ToSet(t) \subseteq ToSet(s \o t)
    <2>. DEFINE all == ToSet(s \o t)
    <2>1. (\A i \in DOMAIN s : s[i] \in all) /\ (\A i \in DOMAIN t : t[i] \in all)
      BY <1>5, <1>6
    <2>. HIDE DEF all
    <2>. QED
      BY <2>1 DEF ToSet, all
  <1>. QED
    BY <1>7, <1>8

LEMMA UnrowSet ==
  ASSUME NEW s, NEW pages, NEW where, Fit(s, where)
  PROVE  /\ \A c \in ToSet(Unrow(s, pages)) :
              c \in ToSet(s) \/ (c.op \in RowOps /\ c.live = "page")
         /\ \A c \in ToSet(s) :
              \/ c \in ToSet(Unrow(s, pages))
              \/ c.op \in RowOps /\ c.live = "here" /\ c.arg \notin ProjectRows(pages)
         /\ \A ops : AtMostOne(ops, s) => AtMostOne(ops, Unrow(s, pages))
  <1>. DEFINE t == Unrow(s, pages)
              gone == ProjectRows(pages)
  <1>0. s \in Seq(CallRecord) /\ \A i \in DOMAIN s : s[i] \in CallRecord
    BY ElementOfSeq, LenProperties DEF Fit
  <1>1. /\ t \in Seq(CallRecord) /\ DOMAIN t = DOMAIN s
        /\ \A i \in DOMAIN s :
              \/ t[i] = s[i]
              \/ /\ t[i] = [s[i] EXCEPT !.live = "page"]
                 /\ s[i].op \in RowOps /\ s[i].live = "here"
                 /\ s[i].arg \notin gone
    BY <1>0, UnrowSteps
  <1>. HIDE DEF t, gone
  <1>2. \A c \in CallRecord : /\ [c EXCEPT !.live = "page"].op = c.op
                               /\ [c EXCEPT !.live = "page"].live = "page"
    BY DEF CallRecord
  <1>3. \A i \in DOMAIN s :
          /\ t[i].op = s[i].op
          /\ \/ t[i] = s[i]
             \/ t[i].op \in RowOps /\ t[i].live = "page" /\ s[i].op \in RowOps
                /\ s[i].live = "here" /\ s[i].arg \notin gone
    <2>. TAKE i \in DOMAIN s
    <2>1. CASE t[i] = s[i]
      BY <2>1
    <2>2. CASE t[i] # s[i]
      <3>1. /\ t[i] = [s[i] EXCEPT !.live = "page"]
            /\ s[i].op \in RowOps /\ s[i].live = "here" /\ s[i].arg \notin gone
        BY <1>1, <2>2
      <3>2. t[i].op = s[i].op /\ t[i].live = "page"
        BY <1>0, <1>2, <3>1
      <3>. QED
        BY <3>1, <3>2
    <2>. QED
      BY <2>1, <2>2
  <1>4. \A c \in ToSet(t) : c \in ToSet(s) \/ (c.op \in RowOps /\ c.live = "page")
    BY <1>1, <1>3 DEF ToSet
  <1>5. \A c \in ToSet(s) :
              \/ c \in ToSet(t)
              \/ c.op \in RowOps /\ c.live = "here" /\ c.arg \notin gone
    BY <1>1, <1>3 DEF ToSet
  <1>6. \A ops : AtMostOne(ops, s) => AtMostOne(ops, t)
    BY <1>1, <1>3 DEF AtMostOne
  <1>. QED
    BY <1>4, <1>5, <1>6 DEF t, gone

-----------------------------------------------------------------------------
(***************************************************************************)
(* The inductive invariant.  First what all tabs share.                    *)
(***************************************************************************)
Waits(some, ops) == {c \in ToSet(some) : c.op \in ops /\ c.live # "gone"}

CallsInv == Fit(calls, tab)

ServerInv ==
  /\ owner \in [Projects -> Persons]
  /\ rows \subseteq Rows /\ revoked \subseteq Rows
  /\ keys \in Seq([project : Projects, revoked : BOOLEAN])

ListRecord ==
  [items : Seq(Nat), next : Nat, loading : BOOLEAN, error : BOOLEAN,
   loaded : BOOLEAN, current : Nat]

RowsOfTab(where) == IF where = "projects" THEN Projects ELSE Rows

ListFits(pages, where) ==
  /\ pages \in ListRecord /\ ToSet(pages.items) \subseteq RowsOfTab(where)
  /\ pages.items # <<>> => pages.loaded

ListInv ==
  /\ ListFits(list, tab)
  /\ list.loading => Waits(calls, {"list"}) # {}

ScopeInv ==
  /\ scope \in [loading : BOOLEAN, projects : SUBSET Projects,
                selected : {0} \cup Projects, error : BOOLEAN]
  /\ stored \in {0} \cup Projects
  /\ broken \in BOOLEAN
  /\ ~broken /\ scope.loading => Waits(calls, {"projects"}) # {}

SharedInv == CallsInv /\ ServerInv /\ ListInv /\ ScopeInv

(***************************************************************************)
(* The tabs: the types of each one's state, of what its calls are, and     *)
(* that it waits for one of them.                                          *)
(***************************************************************************)
SessionsInv ==
  tab = "sessions" =>
    /\ page \in [selected : Nat, anchor : Nat, loading : BOOLEAN, failed : BOOLEAN,
                 replay : [of : Nat, frames : Nat, loading : BOOLEAN, failed : BOOLEAN,
                           done : BOOLEAN]]
    /\ page.selected # 0 => page.anchor \in {0, page.selected}
    /\ \A c \in Waits(calls, {"anchor"}) : page.selected # 0 /\ c.arg = page.selected
    /\ ~broken /\ page.selected # 0 /\ page.loading => Waits(calls, {"anchor"}) # {}
    /\ ~broken /\ page.replay.loading => Waits(calls, {"replay"}) # {}

ActivityInv == tab = "activity" => page \in [selected : Nat]

ReceiptsInv ==
  tab = "receipts" =>
    /\ page \in [selected : Nat, proof : Nat, fetching : BOOLEAN, failed : BOOLEAN]
    /\ page.proof \in {0, page.selected}
    /\ \A c \in Waits(calls, {"proof"}) : page.fetching /\ c.arg = page.selected
    /\ AtMostOne({"proof"}, calls)
    /\ ~broken /\ page.fetching => Waits(calls, {"proof"}) # {}

VerifyInv ==
  tab = "verify" =>
    /\ page \in [loading : BOOLEAN, error : BOOLEAN, result : Nat, asked : Nat,
                 mixed : BOOLEAN]
    /\ page.result # 0 => ~page.loading
    /\ ~page.mixed =>
         /\ AtMostOne(VerifyOps, calls)
         /\ \A c \in Waits(calls, VerifyOps) : c.arg = page.asked
         /\ Waits(calls, {"verify"}) # {} => page.result = 0
         /\ ~page.error /\ ~broken /\ page.result # 0 /\ Waits(calls, VerifyOps) = {}
            => page.result = page.asked
    /\ ~broken /\ page.loading => Waits(calls, {"verify"}) # {}

DelegationsInv ==
  tab = "delegations" =>
    /\ page \in [selected : {0} \cup Rows, chain : Nat, valid : BOOLEAN,
                 loading : BOOLEAN, failed : BOOLEAN, revoking : BOOLEAN,
                 revoked : BOOLEAN, revokeFailed : BOOLEAN, confirm : BOOLEAN,
                 strayed : BOOLEAN]
    /\ page.confirm => page.selected # 0
    /\ page.selected # 0 => page.chain \in {0, page.selected}
    /\ \A c \in Waits(calls, {"verifyGrant"}) :
         page.selected # 0 /\ c.arg = page.selected
    /\ page.revoked /\ page.selected # 0 /\ ~page.strayed => page.selected \in revoked
    /\ ~page.strayed =>
         \A c \in Waits(calls, {"revoke"}) : page.selected \in {0, c.arg}
    /\ ~broken /\ page.selected # 0 /\ page.loading => Waits(calls, {"verifyGrant"}) # {}
    /\ ~broken /\ page.revoking => Waits(calls, {"revoke"}) # {}

OverviewInv ==
  tab = "overview" => page \in [figures : BOOLEAN, key : BOOLEAN, keyError : BOOLEAN]

AnalyticsInv ==
  tab = "analytics" =>
    /\ page \in [loading : BOOLEAN, error : BOOLEAN, figures : Counted \cup {<<>>}]
    /\ page.loading \/ page.error \/ page.figures # <<>>
    /\ ~broken /\ page.loading => Waits(calls, {"figures"}) # {}

SettingsInv ==
  tab = "settings" =>
    /\ page \in [section : Sections, key : BOOLEAN, keyError : BOOLEAN,
                 saveFailed : BOOLEAN]
    /\ page.section = "notary" /\ ~page.key /\ ~page.keyError =>
         Waits(calls, {"key"}) # {}

RestInv == tab \in {"none", "agents", "apikeys"} => page = NoPage

EveryTabInv ==
  /\ SessionsInv /\ ActivityInv /\ ReceiptsInv /\ VerifyInv /\ DelegationsInv
  /\ OverviewInv /\ AnalyticsInv /\ SettingsInv /\ RestInv

RowRecord ==
  [open : BOOLEAN, keys : SUBSET [id : Nat, revoked : BOOLEAN], loading : BOOLEAN,
   error : BOOLEAN, creating : BOOLEAN, reveal : Nat, confirm : Nat]

RowFilled(p, row, table) ==
  /\ row \in RowRecord
  /\ \A k \in row.keys : /\ k.id \in DOMAIN table /\ table[k.id].project = p
                         /\ k.revoked => table[k.id].revoked

Here(op, p, some) ==
  {c \in ToSet(some) : c.op = op /\ c.live = "here" /\ c.arg = p}

RowAwaits(p, row, some) ==
  /\ row.loading => Here("keys", p, some) # {}
  /\ row.creating => \/ Here("createKey", p, some) # {}
                     \/ \E c \in Here("keys", p, some) : c.then = "changed"

Creates(some) ==
  \/ Waits(some, {"createProject"}) # {}
  \/ \E c \in Waits(some, {"list"}) : c.then = "created"

ProjectsInv ==
  tab = "projects" =>
    /\ page = [form |-> page.form, creating |-> page.creating, row |-> page.row,
               unclosed |-> page.unclosed]
    /\ page.form \in BOOLEAN /\ page.creating \in BOOLEAN
    /\ page.row = [p \in ProjectRows(list) |-> page.row[p]]
    /\ \A p \in ProjectRows(list) : RowFilled(p, page.row[p], keys)
    /\ \A c \in ToSet(calls) :
         c.op \in RowOps /\ c.live = "here" => c.arg \in ProjectRows(list)
    /\ ~broken => \A p \in ProjectRows(list) : RowAwaits(p, page.row[p], calls)
    /\ ~broken /\ page.creating => Creates(calls)

TabsInv == SharedInv /\ EveryTabInv /\ ProjectsInv

-----------------------------------------------------------------------------
(***************************************************************************)
(* What is waited for after each change of the calls.                      *)
(***************************************************************************)
LEMMA TakeOff ==
  ASSUME NEW s, NEW i, NEW where, Fit(s, where), i \in DOMAIN s
  PROVE  /\ Fit(RemoveAt(s, i), where) /\ CallFits(s[i], where)
         /\ \A ops : Waits(RemoveAt(s, i), ops) \subseteq Waits(s, ops)
         /\ \A ops : Waits(s, ops) \subseteq Waits(RemoveAt(s, i), ops) \cup {s[i]}
         /\ \A ops : s[i].op \notin ops \/ s[i].live = "gone"
                       => Waits(RemoveAt(s, i), ops) = Waits(s, ops)
         /\ \A ops : s[i].op \in ops /\ s[i].live # "gone" => s[i] \in Waits(s, ops)
  <1>1. /\ ToSet(RemoveAt(s, i)) \subseteq ToSet(s)
        /\ ToSet(s) \subseteq ToSet(RemoveAt(s, i)) \cup {s[i]}
    BY RemoveSet
  <1>2. Fit(RemoveAt(s, i), where) /\ CallFits(s[i], where) /\ s[i] \in ToSet(s)
    BY FitRemove, InSet DEF Fit
  <1>. DEFINE t == RemoveAt(s, i)
              c == s[i]
  <1>. HIDE DEF t, c
  <1>3. /\ ToSet(t) \subseteq ToSet(s)
        /\ ToSet(s) \subseteq ToSet(t) \cup {c} /\ c \in ToSet(s)
    BY <1>1, <1>2 DEF t, c
  <1>4. /\ \A ops : Waits(t, ops) \subseteq Waits(s, ops)
        /\ \A ops : Waits(s, ops) \subseteq Waits(t, ops) \cup {c}
        /\ \A ops : c.op \notin ops \/ c.live = "gone" => Waits(t, ops) = Waits(s, ops)
        /\ \A ops : c.op \in ops /\ c.live # "gone" => c \in Waits(s, ops)
    BY <1>3 DEF Waits
  <1>. QED
    BY <1>2, <1>4 DEF t, c

LEMMA PutOn ==
  ASSUME NEW s, NEW c, NEW where, Fit(s, where), CallFits(c, where), c.live # "gone"
  PROVE  /\ Fit(Append(s, c), where)
         /\ \A ops : c.op \in ops => Waits(Append(s, c), ops) = Waits(s, ops) \cup {c}
         /\ \A ops : c.op \notin ops => Waits(Append(s, c), ops) = Waits(s, ops)
  <1>1. ToSet(Append(s, c)) = ToSet(s) \cup {c} /\ Fit(Append(s, c), where)
    BY FitAppend, AppendSet DEF CallFits
  <1>. QED
    BY <1>1 DEF Waits

LEMMA CutOff ==
  ASSUME NEW s, NEW some, NEW where, Fit(s, where)
  PROVE  /\ Fit(Cancel(some, s), where)
         /\ \A ops : Waits(Cancel(some, s), ops) = {c \in Waits(s, ops) : c.op \notin some}
         /\ \A ops : ops \cap some = {} => Waits(Cancel(some, s), ops) = Waits(s, ops)
  <1>1. ToSet(Cancel(some, s)) = {c \in ToSet(s) : c.op \notin some} /\ Fit(Cancel(some, s), where)
    BY FitCancel, CancelSet
  <1>. QED
    BY <1>1 DEF Waits

LEMMA AskIs ==
  ASSUME AuthTypeOK, NEW op, NEW arg, NEW tok, op \in CallOps, arg \in Nat, tok \in Nat
  PROVE  /\ Ask(op, arg, tok) \in CallRecord
         /\ Ask(op, arg, tok).op = op /\ Ask(op, arg, tok).arg = arg
         /\ Ask(op, arg, tok).tok = tok
         /\ Ask(op, arg, tok).live = "here" /\ Ask(op, arg, tok).then = "none"
  <1>1. Acting \in Persons
    BY DEF AuthTypeOK, Acting
  <1>. QED
    BY <1>1 DEF Ask, AskAs, CallRecord

\* The operations of a tab that carry neither a row of Projects nor a grant.
LEMMA AskFits ==
  ASSUME AuthTypeOK, NEW op, NEW arg, NEW tok, NEW where,
         op \in CallOps, arg \in Nat, tok \in Nat,
         op \in OpsOf(where), op \notin RowOps, op # "revoke"
  PROVE  CallFits(Ask(op, arg, tok), where)
  BY AskIs DEF CallFits

(***************************************************************************)
(* Awaiting, of the model, and Waits say the same.                         *)
(***************************************************************************)
LEMMA AwaitingIsWaits ==
  ASSUME NEW ops
  PROVE  Awaiting(ops) # {} <=> Waits(calls, ops) # {}
  BY DEF Awaiting, Waits, ToSet

(***************************************************************************)
(* A step that keeps the tab, the tables, the list and the selection keeps *)
(* what the tabs share if it keeps the calls in order.                     *)
(***************************************************************************)
LEMMA OnTab == UNCHANGED authVars => tab' = tab
  BY DEF authVars, memory, tab, TabOf

LEMMA BrokenStays ==
  ASSUME NEW how, broken \in BOOLEAN, Comes(how)
  PROVE  /\ broken' \in BOOLEAN /\ (broken => broken') /\ (how = "break" => broken')
         /\ palette' = palette /\ drawer' = drawer
  BY DEF Comes, shell

LEMMA UseKeepsBroken == Use => broken' = broken
  BY DEF Use, Click

SharedStep ==
  /\ tab' = tab /\ UNCHANGED <<list, scope, stored>>
  /\ broken' \in BOOLEAN /\ (broken => broken')
  /\ Fit(calls', tab)
  /\ Waits(calls, {"list"}) \subseteq Waits(calls', {"list"})
  /\ Waits(calls, {"projects"}) \subseteq Waits(calls', {"projects"})

LEMMA SharedKept == SharedInv /\ SharedStep /\ ServerInv' => SharedInv'
  <1>. SUFFICES ASSUME SharedInv, SharedStep, ServerInv' PROVE SharedInv'
    OBVIOUS
  <1>1. CallsInv'
    BY DEF CallsInv, SharedStep
  <1>2. ListInv'
    BY DEF SharedInv, SharedStep, ListInv
  <1>3. ScopeInv'
    BY DEF SharedInv, SharedStep, ScopeInv
  <1>. QED
    BY <1>1, <1>2, <1>3 DEF SharedInv

LEMMA ServerKept == ServerInv /\ UNCHANGED server => ServerInv'
  BY DEF ServerInv, server

(***************************************************************************)
(* On one tab the invariants of the others say nothing.                    *)
(***************************************************************************)
LEMMA OnlyItsTab ==
  /\ tab' = "sessions" /\ SessionsInv' => EveryTabInv' /\ ProjectsInv'
  /\ tab' = "activity" /\ ActivityInv' => EveryTabInv' /\ ProjectsInv'
  /\ tab' = "receipts" /\ ReceiptsInv' => EveryTabInv' /\ ProjectsInv'
  /\ tab' = "verify" /\ VerifyInv' => EveryTabInv' /\ ProjectsInv'
  /\ tab' = "delegations" /\ DelegationsInv' => EveryTabInv' /\ ProjectsInv'
  /\ tab' = "overview" /\ OverviewInv' => EveryTabInv' /\ ProjectsInv'
  /\ tab' = "analytics" /\ AnalyticsInv' => EveryTabInv' /\ ProjectsInv'
  /\ tab' = "settings" /\ SettingsInv' => EveryTabInv' /\ ProjectsInv'
  /\ tab' \in {"none", "agents", "apikeys"} /\ RestInv' => EveryTabInv' /\ ProjectsInv'
  /\ tab' = "projects" /\ ProjectsInv' => EveryTabInv' /\ ProjectsInv'
  BY DEF EveryTabInv, SessionsInv, ActivityInv, ReceiptsInv, VerifyInv, DelegationsInv,
         OverviewInv, AnalyticsInv, SettingsInv, RestInv, ProjectsInv

-----------------------------------------------------------------------------
(***************************************************************************)
(* Sessions.                                                               *)
(***************************************************************************)
SessionSteps ==
  \/ \E r \in Rows : SelectSession(r)
  \/ SessionBack \/ OpenReplay \/ CloseReplay
  \/ \E i \in DOMAIN calls :
       FrameArrived(i) \/ \E how \in Hows : AnchorAnswered(i, how) \/ ReplayEnded(i, how)

LEMMA SessionOps ==
  /\ {"list", "projects", "anchor", "replay"} \subseteq CallOps
  /\ {"list", "projects", "anchor", "replay"} \subseteq OpsOf("sessions")
  /\ {"list", "projects", "anchor", "replay"} \cap (RowOps \cup {"revoke"}) = {}
  BY DEF CallOps, OpsOf, RowOps

PageOfSessions ==
  [selected : Nat, anchor : Nat, loading : BOOLEAN, failed : BOOLEAN,
   replay : [of : Nat, frames : Nat, loading : BOOLEAN, failed : BOOLEAN,
             done : BOOLEAN]]

LEMMA SessionsKept ==
  TabsInv /\ AuthTypeOK /\ SessionSteps => SharedInv' /\ SessionsInv'
  <1>. SUFFICES ASSUME TabsInv, AuthTypeOK, SessionSteps PROVE SharedInv' /\ SessionsInv'
    OBVIOUS
  <1>0. tab = "sessions" /\ UNCHANGED <<authVars, server, scope, stored, list>>
    BY DEF SessionSteps, SelectSession, SessionBack, OpenReplay, CloseReplay, FrameArrived,
           AnchorAnswered, ReplayEnded, UsesPage, SamePage, scopeVars
  <1>1. tab' = "sessions" /\ ServerInv'
    BY <1>0, OnTab, ServerKept DEF TabsInv, SharedInv
  <1>2. /\ Fit(calls, "sessions") /\ broken \in BOOLEAN
        /\ page \in PageOfSessions
        /\ page.selected # 0 => page.anchor \in {0, page.selected}
        /\ \A c \in Waits(calls, {"anchor"}) : page.selected # 0 /\ c.arg = page.selected
        /\ ~broken /\ page.selected # 0 /\ page.loading => Waits(calls, {"anchor"}) # {}
        /\ ~broken /\ page.replay.loading => Waits(calls, {"replay"}) # {}
    BY <1>0 DEF TabsInv, SharedInv, CallsInv, ScopeInv, EveryTabInv, SessionsInv, PageOfSessions
  <1>. DEFINE Goal == /\ page' \in PageOfSessions
                      /\ page'.selected # 0 => page'.anchor \in {0, page'.selected}
                      /\ \A c \in Waits(calls', {"anchor"}) :
                           page'.selected # 0 /\ c.arg = page'.selected
                      /\ ~broken' /\ page'.selected # 0 /\ page'.loading
                           => Waits(calls', {"anchor"}) # {}
                      /\ ~broken' /\ page'.replay.loading => Waits(calls', {"replay"}) # {}
              Common == /\ broken' \in BOOLEAN /\ (broken => broken')
                        /\ Fit(calls', "sessions")
                        /\ Waits(calls', {"list"}) = Waits(calls, {"list"})
                        /\ Waits(calls', {"projects"}) = Waits(calls, {"projects"})
  <1>3. Goal /\ Common => SharedInv' /\ SessionsInv'
    <2>. SUFFICES ASSUME Goal, Common PROVE SharedInv' /\ SessionsInv'
      OBVIOUS
    <2>1. SharedStep
      BY <1>0, <1>1 DEF SharedStep
    <2>2. SharedInv'
      BY <1>1, <2>1, SharedKept DEF TabsInv
    <2>3. SessionsInv'
      BY DEF SessionsInv, PageOfSessions
    <2>. QED
      BY <2>2, <2>3
  <1>4. ASSUME NEW r \in Rows, SelectSession(r) PROVE Goal /\ Common
    <2>. DEFINE c == Ask("anchor", r, 0)
                s == Cancel({"anchor"}, calls)
    <2>1. r \in Nat \ {0}
      BY DashboardAssumption
    <2>2. /\ CallFits(c, "sessions") /\ c.op = "anchor" /\ c.arg = r /\ c.live # "gone"
      BY <2>1, AskIs, AskFits, SessionOps
    <2>3. /\ Fit(s, "sessions")
          /\ Waits(s, {"anchor"}) = {}
          /\ Waits(s, {"replay"}) = Waits(calls, {"replay"})
          /\ Waits(s, {"list"}) = Waits(calls, {"list"})
          /\ Waits(s, {"projects"}) = Waits(calls, {"projects"})
      <3>1. /\ Fit(s, "sessions")
            /\ \A ops : Waits(s, ops) = {d \in Waits(calls, ops) : d.op \notin {"anchor"}}
            /\ \A ops : ops \cap {"anchor"} = {} => Waits(s, ops) = Waits(calls, ops)
        BY <1>2, CutOff
      <3>2. \A d \in Waits(calls, {"anchor"}) : d.op = "anchor"
        BY DEF Waits
      <3>. HIDE DEF s
      <3>. QED
        BY <3>1, <3>2
    <2>. HIDE DEF s, c
    <2>4. calls' = Append(s, c)
      BY <1>4 DEF SelectSession, s, c
    <2>5. /\ Fit(calls', "sessions") /\ Waits(calls', {"anchor"}) = {c}
          /\ Waits(calls', {"replay"}) = Waits(calls, {"replay"})
          /\ Waits(calls', {"list"}) = Waits(calls, {"list"})
          /\ Waits(calls', {"projects"}) = Waits(calls, {"projects"})
      <3>1. /\ Fit(Append(s, c), "sessions")
            /\ \A ops : c.op \in ops => Waits(Append(s, c), ops) = Waits(s, ops) \cup {c}
            /\ \A ops : c.op \notin ops => Waits(Append(s, c), ops) = Waits(s, ops)
        BY <2>2, <2>3, PutOn
      <3>. QED
        BY <2>2, <2>3, <2>4, <3>1
    <2>6. broken' = broken
      BY <1>4, UseKeepsBroken DEF SelectSession
    <2>7. page' = [page EXCEPT !.selected = r, !.anchor = 0, !.failed = FALSE,
                               !.loading = TRUE]
      BY <1>4 DEF SelectSession
    <2>8. /\ page' \in PageOfSessions /\ page'.selected = r /\ page'.anchor = 0
          /\ page'.replay = page.replay
      BY <1>2, <2>1, <2>7 DEF PageOfSessions
    <2>. QED
      BY <1>2, <2>1, <2>2, <2>5, <2>6, <2>8
  <1>5. ASSUME SessionBack PROVE Goal /\ Common
    <2>1. /\ Fit(calls', "sessions") /\ Waits(calls', {"anchor"}) = {}
          /\ Waits(calls', {"replay"}) = Waits(calls, {"replay"})
          /\ Waits(calls', {"list"}) = Waits(calls, {"list"})
          /\ Waits(calls', {"projects"}) = Waits(calls, {"projects"})
      <3>. DEFINE s == Cancel({"anchor"}, calls)
      <3>1. /\ Fit(s, "sessions")
            /\ \A ops : Waits(s, ops) = {d \in Waits(calls, ops) : d.op \notin {"anchor"}}
            /\ \A ops : ops \cap {"anchor"} = {} => Waits(s, ops) = Waits(calls, ops)
        BY <1>2, CutOff, ZenonT(40)
      <3>2. \A d \in Waits(calls, {"anchor"}) : d.op = "anchor"
        BY DEF Waits
      <3>3. calls' = s
        BY <1>5 DEF SessionBack
      <3>. HIDE DEF s
      <3>. QED
        BY <3>1, <3>2, <3>3
    <2>2. broken' = broken /\ page' = [page EXCEPT !.selected = 0]
      BY <1>5, UseKeepsBroken DEF SessionBack
    <2>3. page' \in PageOfSessions /\ page'.selected = 0 /\ page'.replay = page.replay
      BY <1>2, <2>2 DEF PageOfSessions
    <2>. QED
      BY <1>2, <2>1, <2>2, <2>3
  <1>6. ASSUME OpenReplay PROVE Goal /\ Common
    <2>. DEFINE c == Ask("replay", page.selected, 0)
    <2>1. /\ CallFits(c, "sessions") /\ c.op = "replay" /\ c.live # "gone"
      <3>1. page.selected \in Nat
        BY <1>2 DEF PageOfSessions
      <3>. QED
        BY <3>1, AskIs, AskFits, SessionOps
    <2>. HIDE DEF c
    <2>2. /\ Fit(calls', "sessions") /\ Waits(calls', {"anchor"}) = Waits(calls, {"anchor"})
          /\ Waits(calls', {"replay"}) # {}
          /\ Waits(calls', {"list"}) = Waits(calls, {"list"})
          /\ Waits(calls', {"projects"}) = Waits(calls, {"projects"})
      <3>1. /\ Fit(Append(calls, c), "sessions")
            /\ \A ops : c.op \in ops => Waits(Append(calls, c), ops) = Waits(calls, ops) \cup {c}
            /\ \A ops : c.op \notin ops => Waits(Append(calls, c), ops) = Waits(calls, ops)
        BY <1>2, <2>1, PutOn, SMTT(20)
      <3>2. calls' = Append(calls, c)
        BY <1>6 DEF OpenReplay, c
      <3>. QED
        BY <2>1, <3>1, <3>2
    <2>3. /\ broken' = broken
          /\ page' = [page EXCEPT !.replay = [NewReplay EXCEPT !.of = page.selected,
                                                               !.loading = TRUE]]
      BY <1>6, UseKeepsBroken DEF OpenReplay
    <2>4. /\ page' \in PageOfSessions /\ page'.selected = page.selected
          /\ page'.anchor = page.anchor /\ page'.loading = page.loading
      BY <1>2, <2>3 DEF PageOfSessions, NewReplay
    <2>. QED
      BY <1>2, <2>2, <2>3, <2>4
  <1>7. ASSUME CloseReplay PROVE Goal /\ Common
    <2>1. /\ Fit(calls', "sessions") /\ Waits(calls', {"anchor"}) = Waits(calls, {"anchor"})
          /\ Waits(calls', {"list"}) = Waits(calls, {"list"})
          /\ Waits(calls', {"projects"}) = Waits(calls, {"projects"})
      <3>1. /\ Fit(Cancel({"replay"}, calls), "sessions")
            /\ \A ops : ops \cap {"replay"} = {}
                          => Waits(Cancel({"replay"}, calls), ops) = Waits(calls, ops)
        BY <1>2, CutOff
      <3>2. calls' = Cancel({"replay"}, calls)
        BY <1>7 DEF CloseReplay
      <3>. QED
        BY <3>1, <3>2
    <2>2. broken' = broken /\ page' = [page EXCEPT !.replay = NewReplay]
      BY <1>7, UseKeepsBroken DEF CloseReplay
    <2>3. /\ page' \in PageOfSessions /\ page'.selected = page.selected
          /\ page'.anchor = page.anchor /\ page'.loading = page.loading
          /\ ~page'.replay.loading
      BY <1>2, <2>2 DEF PageOfSessions, NewReplay
    <2>. QED
      BY <1>2, <2>1, <2>2, <2>3
  <1>8. ASSUME NEW i \in DOMAIN calls, FrameArrived(i) PROVE Goal /\ Common
    <2>1. /\ calls' = calls /\ broken' = broken
          /\ page' = [page EXCEPT !.replay.frames = @ + 1]
      BY <1>8 DEF FrameArrived, budget
    <2>2. /\ page' \in PageOfSessions /\ page'.selected = page.selected
          /\ page'.anchor = page.anchor /\ page'.loading = page.loading
          /\ page'.replay.loading = page.replay.loading
      BY <1>2, <2>1 DEF PageOfSessions
    <2>. QED
      BY <1>2, <2>1, <2>2
  <1>9. ASSUME NEW i \in DOMAIN calls, NEW how \in Hows, AnchorAnswered(i, how)
        PROVE  Goal /\ Common
    <2>. DEFINE c == calls[i]
    <2>1. c.op = "anchor" /\ calls' = RemoveAt(calls, i) /\ Comes(how)
      BY <1>9 DEF AnchorAnswered
    <2>2. /\ Fit(calls', "sessions") /\ CallFits(c, "sessions")
          /\ Waits(calls', {"anchor"}) \subseteq Waits(calls, {"anchor"})
          /\ Waits(calls, {"anchor"}) \subseteq Waits(calls', {"anchor"}) \cup {c}
          /\ Waits(calls', {"replay"}) = Waits(calls, {"replay"})
          /\ Waits(calls', {"list"}) = Waits(calls, {"list"})
          /\ Waits(calls', {"projects"}) = Waits(calls, {"projects"})
          /\ c.live # "gone" => c \in Waits(calls, {"anchor"})
      <3>. HIDE DEF c
      <3>1. /\ Fit(calls', "sessions") /\ CallFits(c, "sessions")
            /\ \A ops : Waits(calls', ops) \subseteq Waits(calls, ops)
            /\ \A ops : Waits(calls, ops) \subseteq Waits(calls', ops) \cup {c}
            /\ \A ops : c.op \notin ops \/ c.live = "gone" => Waits(calls', ops) = Waits(calls, ops)
            /\ \A ops : c.op \in ops /\ c.live # "gone" => c \in Waits(calls, ops)
        BY <1>2, <2>1, TakeOff DEF c
      <3>. QED
        BY <2>1, <3>1
    <2>3. c.live # "gone" /\ c.arg \in Nat
      BY <2>1, <2>2 DEF CallFits, CallRecord, Writes
    <2>4. page.selected # 0 /\ c.arg = page.selected
      BY <1>2, <2>2, <2>3
    <2>5. broken' \in BOOLEAN /\ (broken => broken') /\ (how = "break" => broken')
      BY <1>2, <2>1, BrokenStays
    <2>6. /\ page' \in PageOfSessions /\ page'.selected = page.selected
          /\ page'.replay = page.replay
          /\ page'.anchor \in {0, page.selected}
          /\ page'.loading => how = "break"
      <3>1. CASE how = "ok"
        <4>1. PICK a \in {0, c.arg} : page' = [page EXCEPT !.anchor = a, !.loading = FALSE]
          BY <1>9, <3>1 DEF AnchorAnswered
        <4>2. a \in Nat /\ a \in {0, page.selected}
          BY <2>3, <2>4
        <4>. QED
          BY <1>2, <4>1, <4>2 DEF PageOfSessions
      <3>2. CASE how = "error"
        <4>1. page' = [page EXCEPT !.failed = TRUE, !.loading = FALSE]
          BY <1>9, <3>2 DEF AnchorAnswered
        <4>. QED
          BY <1>2, <2>3, <2>4, <4>1 DEF PageOfSessions
      <3>3. CASE how = "break"
        <4>1. page' = page
          BY <1>9, <3>3 DEF AnchorAnswered
        <4>. QED
          BY <1>2, <2>3, <2>4, <3>3, <4>1 DEF PageOfSessions
      <3>. QED
        BY <3>1, <3>2, <3>3 DEF Hows
    <2>. HIDE DEF c
    <2>. QED
      BY <1>2, <2>2, <2>4, <2>5, <2>6
  <1>10. ASSUME NEW i \in DOMAIN calls, NEW how \in Hows, ReplayEnded(i, how)
         PROVE  Goal /\ Common
    <2>. DEFINE c == calls[i]
    <2>1. c.op = "replay" /\ calls' = RemoveAt(calls, i) /\ Comes(how)
      BY <1>10 DEF ReplayEnded
    <2>2. /\ Fit(calls', "sessions")
          /\ Waits(calls', {"anchor"}) = Waits(calls, {"anchor"})
          /\ Waits(calls', {"list"}) = Waits(calls, {"list"})
          /\ Waits(calls', {"projects"}) = Waits(calls, {"projects"})
      <3>. HIDE DEF c
      <3>1. /\ Fit(calls', "sessions")
            /\ \A ops : c.op \notin ops \/ c.live = "gone" => Waits(calls', ops) = Waits(calls, ops)
        BY <1>2, <2>1, TakeOff DEF c
      <3>. QED
        BY <2>1, <3>1
    <2>3. broken' \in BOOLEAN /\ (broken => broken')
      BY <1>2, <2>1, BrokenStays
    <2>4. page' = [page EXCEPT !.replay.loading = FALSE, !.replay.done = (how = "ok"),
                          !.replay.failed = (how # "ok")]
      BY <1>10 DEF ReplayEnded
    <2>5. /\ page' \in PageOfSessions /\ page'.selected = page.selected
          /\ page'.anchor = page.anchor /\ page'.loading = page.loading
          /\ ~page'.replay.loading
      BY <1>2, <2>4 DEF PageOfSessions
    <2>. HIDE DEF c
    <2>. QED
      BY <1>2, <2>2, <2>3, <2>5
  <1>. HIDE DEF Goal, Common
  <1>. QED
    BY <1>3, <1>4, <1>5, <1>6, <1>7, <1>8, <1>9, <1>10 DEF SessionSteps

(***************************************************************************)
(* The audit log.                                                          *)
(***************************************************************************)
ActivitySteps == (\E r \in Rows : ViewEvent(r)) \/ EventBack

LEMMA ActivityKept ==
  TabsInv /\ ActivitySteps => SharedInv' /\ ActivityInv'
  <1>. SUFFICES ASSUME TabsInv, ActivitySteps PROVE SharedInv' /\ ActivityInv'
    OBVIOUS
  <1>0. /\ tab = "activity" /\ UNCHANGED <<authVars, server, scope, stored, list, calls>>
        /\ broken' = broken
    BY UseKeepsBroken DEF ActivitySteps, ViewEvent, EventBack, UsesPage, SamePage, scopeVars
  <1>1. tab' = "activity" /\ ServerInv'
    BY <1>0, OnTab, ServerKept DEF TabsInv, SharedInv
  <1>2. Fit(calls, "activity") /\ broken \in BOOLEAN /\ page \in [selected : Nat]
    BY <1>0 DEF TabsInv, SharedInv, CallsInv, ScopeInv, EveryTabInv, ActivityInv
  <1>3. SharedStep
    BY <1>0, <1>1, <1>2 DEF SharedStep
  <1>4. page' \in [selected : Nat]
    <2>1. \A r \in Rows : r \in Nat
      BY DashboardAssumption
    <2>. QED
      BY <1>2, <2>1 DEF ActivitySteps, ViewEvent, EventBack
  <1>. QED
    BY <1>1, <1>3, <1>4, SharedKept DEF TabsInv, ActivityInv

(***************************************************************************)
(* Receipts.                                                               *)
(***************************************************************************)
ReceiptSteps ==
  \/ \E r \in Rows : FetchProof(r)
  \/ ReceiptBack
  \/ \E i \in DOMAIN calls, how \in Hows : ProofAnswered(i, how)

LEMMA ReceiptOps ==
  /\ {"list", "projects", "proof"} \subseteq CallOps
  /\ {"list", "projects", "proof"} \subseteq OpsOf("receipts")
  /\ {"list", "projects", "proof"} \cap (RowOps \cup {"revoke"}) = {}
  BY DEF CallOps, OpsOf, RowOps

PageOfReceipts ==
  [selected : Nat, proof : Nat, fetching : BOOLEAN, failed : BOOLEAN]

LEMMA ReceiptsKept ==
  TabsInv /\ AuthTypeOK /\ ReceiptSteps => SharedInv' /\ ReceiptsInv'
  <1>. SUFFICES ASSUME TabsInv, AuthTypeOK, ReceiptSteps PROVE SharedInv' /\ ReceiptsInv'
    OBVIOUS
  <1>0. tab = "receipts" /\ UNCHANGED <<authVars, server, scope, stored, list>>
    BY DEF ReceiptSteps, FetchProof, ReceiptBack, ProofAnswered, UsesPage, SamePage, scopeVars
  <1>1. tab' = "receipts" /\ ServerInv'
    BY <1>0, OnTab, ServerKept DEF TabsInv, SharedInv
  <1>2. /\ Fit(calls, "receipts") /\ broken \in BOOLEAN
        /\ page \in PageOfReceipts
        /\ page.proof \in {0, page.selected}
        /\ \A c \in Waits(calls, {"proof"}) : page.fetching /\ c.arg = page.selected
        /\ AtMostOne({"proof"}, calls)
        /\ ~broken /\ page.fetching => Waits(calls, {"proof"}) # {}
    BY <1>0 DEF TabsInv, SharedInv, CallsInv, ScopeInv, EveryTabInv, ReceiptsInv, PageOfReceipts
  <1>fit. Fit(calls, "receipts")
    BY <1>2
  <1>. DEFINE Goal == /\ page' \in PageOfReceipts
                      /\ page'.proof \in {0, page'.selected}
                      /\ \A c \in Waits(calls', {"proof"}) :
                           page'.fetching /\ c.arg = page'.selected
                      /\ AtMostOne({"proof"}, calls')
                      /\ ~broken' /\ page'.fetching => Waits(calls', {"proof"}) # {}
              Common == /\ broken' \in BOOLEAN /\ (broken => broken')
                        /\ Fit(calls', "receipts")
                        /\ Waits(calls', {"list"}) = Waits(calls, {"list"})
                        /\ Waits(calls', {"projects"}) = Waits(calls, {"projects"})
  <1>3. Goal /\ Common => SharedInv' /\ ReceiptsInv'
    <2>. SUFFICES ASSUME Goal, Common PROVE SharedInv' /\ ReceiptsInv'
      OBVIOUS
    <2>1. SharedStep
      BY <1>0, <1>1 DEF SharedStep
    <2>2. SharedInv'
      BY <1>1, <2>1, SharedKept DEF TabsInv
    <2>3. ReceiptsInv'
      BY DEF ReceiptsInv, PageOfReceipts
    <2>. QED
      BY <2>2, <2>3
  <1>4. ASSUME NEW r \in Rows, FetchProof(r) PROVE Goal /\ Common
    <2>. DEFINE c == Ask("proof", r, 0)
    <2>1. r \in Nat
      BY DashboardAssumption
    <2>2. CallFits(c, "receipts") /\ c.op = "proof" /\ c.arg = r /\ c.live # "gone"
      BY <2>1, AskIs, AskFits, ReceiptOps
    <2>. HIDE DEF c
    <2>3. /\ calls' = Append(calls, c) /\ broken' = broken /\ ~page.fetching
          /\ page' = [page EXCEPT !.selected = r, !.fetching = TRUE, !.failed = FALSE,
                                  !.proof = 0]
      BY <1>4, UseKeepsBroken DEF FetchProof, OffersProof, c
    <2>4. Waits(calls, {"proof"}) = {}
      BY <1>2, <2>3
    <2>5. \A d \in ToSet(calls) : d.op \notin {"proof"}
      <3>1. \A d \in ToSet(calls) : d.op = "proof" => d.live # "gone"
        BY <1>2, SetOfFit DEF CallFits, Writes
      <3>. QED
        BY <2>4, <3>1 DEF Waits
    <2>6. AtMostOne({"proof"}, calls')
      <3>1. c \in CallRecord
        BY <2>2 DEF CallFits
      <3>. QED
        BY <1>2, <2>3, <2>5, <3>1, AppendSet
    <2>7. /\ Fit(calls', "receipts")
          /\ Waits(calls', {"proof"}) = {c}
          /\ Waits(calls', {"list"}) = Waits(calls, {"list"})
          /\ Waits(calls', {"projects"}) = Waits(calls, {"projects"})
      <3>1. /\ Fit(Append(calls, c), "receipts")
            /\ \A ops : c.op \in ops => Waits(Append(calls, c), ops) = Waits(calls, ops) \cup {c}
            /\ \A ops : c.op \notin ops => Waits(Append(calls, c), ops) = Waits(calls, ops)
        BY <1>fit, <2>2, PutOn
      <3>. QED
        BY <2>2, <2>3, <2>4, <3>1
    <2>8. page' \in PageOfReceipts /\ page'.selected = r /\ page'.fetching /\ page'.proof = 0
      BY <1>2, <2>1, <2>3 DEF PageOfReceipts
    <2>. QED
      BY <1>2, <2>2, <2>3, <2>6, <2>7, <2>8
  <1>5. ASSUME ReceiptBack PROVE Goal /\ Common
    <2>1. calls' = calls /\ broken' = broken /\ page' = [page EXCEPT !.proof = 0]
      BY <1>5, UseKeepsBroken DEF ReceiptBack
    <2>2. /\ page' \in PageOfReceipts /\ page'.selected = page.selected
          /\ page'.fetching = page.fetching /\ page'.proof = 0
      BY <1>2, <2>1 DEF PageOfReceipts
    <2>. QED
      BY <1>2, <2>1, <2>2
  <1>6. ASSUME NEW i \in DOMAIN calls, NEW how \in Hows, ProofAnswered(i, how)
        PROVE  Goal /\ Common
    <2>. DEFINE c == calls[i]
    <2>1. c.op = "proof" /\ calls' = RemoveAt(calls, i) /\ Comes(how)
      BY <1>6 DEF ProofAnswered
    <2>2. /\ Fit(calls', "receipts") /\ CallFits(c, "receipts")
          /\ c.live # "gone" => c \in Waits(calls, {"proof"})
          /\ Waits(calls', {"list"}) = Waits(calls, {"list"})
          /\ Waits(calls', {"projects"}) = Waits(calls, {"projects"})
      <3>. HIDE DEF c
      <3>1. /\ Fit(calls', "receipts") /\ CallFits(c, "receipts")
            /\ \A ops : c.op \notin ops \/ c.live = "gone" => Waits(calls', ops) = Waits(calls, ops)
            /\ \A ops : c.op \in ops /\ c.live # "gone" => c \in Waits(calls, ops)
        BY <1>2, <2>1, TakeOff DEF c
      <3>. QED
        BY <2>1, <3>1
    <2>3. AtMostOne({"proof"}, calls') /\ \A d \in ToSet(calls') : d.op \notin {"proof"}
      <3>1. /\ \A ops : AtMostOne(ops, calls) => AtMostOne(ops, calls')
            /\ \A ops : AtMostOne(ops, calls) /\ calls[i].op \in ops
                          => \A d \in ToSet(calls') : d.op \notin ops
        BY <1>2, <2>1, RemoveSet
      <3>. QED
        BY <1>2, <2>1, <3>1
    <2>4. Waits(calls', {"proof"}) = {}
      BY <2>3 DEF Waits
    <2>5. c.live # "gone" /\ c.arg \in Nat
      BY <2>1, <2>2 DEF CallFits, CallRecord, Writes
    <2>6. page.fetching /\ c.arg = page.selected
      BY <1>2, <2>2, <2>5
    <2>7. broken' \in BOOLEAN /\ (broken => broken') /\ (how = "break" => broken')
      BY <1>2, <2>1, BrokenStays
    <2>8. /\ page' \in PageOfReceipts /\ page'.proof \in {0, page'.selected}
          /\ page'.fetching => how = "break"
      <3>1. CASE how = "ok"
        <4>1. page' = [page EXCEPT !.proof = c.arg, !.fetching = FALSE]
          BY <1>6, <3>1 DEF ProofAnswered
        <4>. HIDE DEF c
        <4>. QED
          BY <1>2, <2>5, <2>6, <4>1 DEF PageOfReceipts
      <3>2. CASE how = "error"
        <4>1. page' = [page EXCEPT !.failed = TRUE, !.fetching = FALSE]
          BY <1>6, <3>2 DEF ProofAnswered
        <4>. QED
          BY <1>2, <4>1 DEF PageOfReceipts
      <3>3. CASE how = "break"
        <4>1. page' = page
          BY <1>6, <3>3 DEF ProofAnswered
        <4>. QED
          BY <1>2, <3>3, <4>1
      <3>. QED
        BY <3>1, <3>2, <3>3 DEF Hows
    <2>. HIDE DEF c
    <2>. QED
      BY <2>2, <2>3, <2>4, <2>7, <2>8
  <1>. HIDE DEF Goal, Common
  <1>. QED
    BY <1>3, <1>4, <1>5, <1>6 DEF ReceiptSteps

(***************************************************************************)
(* Verify.                                                                 *)
(***************************************************************************)
VerifySteps ==
  \/ \E r \in Proofs : FetchAndVerify(r)
  \/ \E r \in Proofs \cup {0} : VerifyPasted(r)
  \/ \E i \in DOMAIN calls, how \in Hows : FetchedProof(i, how) \/ Verified(i, how)

LEMMA VerifyTabOps ==
  /\ {"list", "projects", "fetchProof", "verify"} \subseteq CallOps
  /\ {"list", "projects", "fetchProof", "verify"} \cap (RowOps \cup {"revoke"}) = {}
  /\ {"projects", "fetchProof", "verify"} \subseteq OpsOf("verify")
  BY DEF CallOps, OpsOf, RowOps, VerifyOps

PageOfVerify ==
  [loading : BOOLEAN, error : BOOLEAN, result : Nat, asked : Nat, mixed : BOOLEAN]

LEMMA VerifyKept ==
  TabsInv /\ AuthTypeOK /\ VerifySteps => SharedInv' /\ VerifyInv'
  <1>. SUFFICES ASSUME TabsInv, AuthTypeOK, VerifySteps PROVE SharedInv' /\ VerifyInv'
    OBVIOUS
  <1>0. tab = "verify" /\ UNCHANGED <<authVars, server, scope, stored, list>>
    BY DEF VerifySteps, FetchAndVerify, VerifyPasted, FetchedProof, Verified,
           UsesPage, SamePage, scopeVars
  <1>1. tab' = "verify" /\ ServerInv'
    BY <1>0, OnTab, ServerKept DEF TabsInv, SharedInv
  <1>2. /\ Fit(calls, "verify") /\ broken \in BOOLEAN
        /\ page \in PageOfVerify
        /\ page.result # 0 => ~page.loading
        /\ ~page.mixed =>
             /\ AtMostOne(VerifyOps, calls)
             /\ \A c \in Waits(calls, VerifyOps) : c.arg = page.asked
             /\ Waits(calls, {"verify"}) # {} => page.result = 0
             /\ ~page.error /\ ~broken /\ page.result # 0 /\ Waits(calls, VerifyOps) = {}
                  => page.result = page.asked
        /\ ~broken /\ page.loading => Waits(calls, {"verify"}) # {}
    BY <1>0 DEF TabsInv, SharedInv, CallsInv, ScopeInv, EveryTabInv, VerifyInv, PageOfVerify
  <1>fit. Fit(calls, "verify")
    BY <1>2
  <1>. DEFINE Goal == /\ page' \in PageOfVerify
                      /\ page'.result # 0 => ~page'.loading
                      /\ ~page'.mixed =>
                           /\ AtMostOne(VerifyOps, calls')
                           /\ \A c \in Waits(calls', VerifyOps) : c.arg = page'.asked
                           /\ Waits(calls', {"verify"}) # {} => page'.result = 0
                           /\ ~page'.error /\ ~broken' /\ page'.result # 0
                              /\ Waits(calls', VerifyOps) = {}
                                => page'.result = page'.asked
                      /\ ~broken' /\ page'.loading => Waits(calls', {"verify"}) # {}
              Common == /\ broken' \in BOOLEAN /\ (broken => broken')
                        /\ Fit(calls', "verify")
                        /\ Waits(calls', {"list"}) = Waits(calls, {"list"})
                        /\ Waits(calls', {"projects"}) = Waits(calls, {"projects"})
  <1>3. Goal /\ Common => SharedInv' /\ VerifyInv'
    <2>. SUFFICES ASSUME Goal, Common PROVE SharedInv' /\ VerifyInv'
      OBVIOUS
    <2>1. SharedStep
      BY <1>0, <1>1 DEF SharedStep
    <2>2. SharedInv'
      BY <1>1, <2>1, SharedKept DEF TabsInv
    <2>3. VerifyInv'
      BY DEF VerifyInv, PageOfVerify
    <2>. QED
      BY <2>2, <2>3
  <1>4. "verify" \in VerifyOps /\ "fetchProof" \in VerifyOps
        /\ "list" \notin VerifyOps /\ "projects" \notin VerifyOps
    BY DEF VerifyOps
  <1>5. Waits(calls, VerifyOps) = {} => \A d \in ToSet(calls) : d.op \notin VerifyOps
    <2>1. \A d \in ToSet(calls) : d.op \in VerifyOps => d.live # "gone"
      BY <1>2, SetOfFit DEF CallFits, Writes, VerifyOps
    <2>. QED
      BY <2>1 DEF Waits
  <1>6. \A op \in VerifyOps, r \in Nat :
          /\ CallFits(Ask(op, r, 0), "verify")
          /\ Ask(op, r, 0).op = op /\ Ask(op, r, 0).arg = r /\ Ask(op, r, 0).live # "gone"
    BY AskIs, AskFits, VerifyTabOps DEF VerifyOps
  <1>7. ASSUME NEW s, NEW op \in VerifyOps, NEW r \in Nat, Fit(s, "verify")
        PROVE  /\ Fit(Append(s, Ask(op, r, 0)), "verify")
               /\ \A ops : op \in ops => Waits(Append(s, Ask(op, r, 0)), ops)
                                           = Waits(s, ops) \cup {Ask(op, r, 0)}
               /\ \A ops : op \notin ops => Waits(Append(s, Ask(op, r, 0)), ops) = Waits(s, ops)
               /\ (\A d \in ToSet(s) : d.op \notin VerifyOps)
                    => AtMostOne(VerifyOps, Append(s, Ask(op, r, 0)))
    <2>. DEFINE c == Ask(op, r, 0)
    <2>1. CallFits(c, "verify") /\ c.op = op /\ c.live # "gone" /\ c \in CallRecord
      BY <1>6 DEF CallFits
    <2>. HIDE DEF c
    <2>2. /\ Fit(Append(s, c), "verify")
          /\ \A ops : c.op \in ops => Waits(Append(s, c), ops) = Waits(s, ops) \cup {c}
          /\ \A ops : c.op \notin ops => Waits(Append(s, c), ops) = Waits(s, ops)
      BY <1>7, <2>1, PutOn
    <2>3. (\A d \in ToSet(s) : d.op \notin VerifyOps) => AtMostOne(VerifyOps, Append(s, c))
      BY <1>7, <2>1, AppendSet
    <2>. QED
      BY <2>1, <2>2, <2>3 DEF c
  <1>8. ASSUME NEW op \in VerifyOps, NEW r \in Nat \ {0}, NEW now,
               calls' = Append(calls, Ask(op, r, 0)), broken' = broken,
               page' = now, now \in PageOfVerify, now.asked = r,
               now.mixed = (Awaiting(VerifyOps) # {}),
               \/ op = "fetchProof" /\ now.result = page.result /\ now.loading = page.loading
               \/ op = "verify" /\ now.result = 0 /\ now.loading
        PROVE  Goal /\ Common
    <2>. DEFINE c == Ask(op, r, 0)
    <2>1. c.op = op /\ c.arg = r
      BY <1>6
    <2>2. /\ Fit(calls', "verify")
          /\ \A ops : op \in ops => Waits(calls', ops) = Waits(calls, ops) \cup {c}
          /\ \A ops : op \notin ops => Waits(calls', ops) = Waits(calls, ops)
          /\ (\A d \in ToSet(calls) : d.op \notin VerifyOps) => AtMostOne(VerifyOps, calls')
      <3>1. /\ Fit(Append(calls, c), "verify")
            /\ \A ops : op \in ops => Waits(Append(calls, c), ops) = Waits(calls, ops) \cup {c}
            /\ \A ops : op \notin ops => Waits(Append(calls, c), ops) = Waits(calls, ops)
            /\ (\A d \in ToSet(calls) : d.op \notin VerifyOps)
                 => AtMostOne(VerifyOps, Append(calls, c))
        BY <1>fit, <1>7
      <3>2. calls' = Append(calls, c)
        BY <1>8
      <3>. HIDE DEF c
      <3>. QED
        BY <3>1, <3>2
    <2>. HIDE DEF c
    <2>3. Common
      BY <1>2, <1>4, <1>8, <2>2
    <2>4. ~now.mixed => Waits(calls, VerifyOps) = {} /\ Waits(calls, {"verify"}) = {}
      <3>1. ~now.mixed => Waits(calls, VerifyOps) = {}
        BY <1>8, AwaitingIsWaits
      <3>. QED
        BY <1>4, <3>1 DEF Waits
    <2>5. ~now.mixed => /\ AtMostOne(VerifyOps, calls')
                        /\ Waits(calls', VerifyOps) = {c}
                        /\ op = "fetchProof" => Waits(calls', {"verify"}) = {}
      BY <1>4, <1>5, <2>2, <2>4
    <2>6. now.loading /\ ~broken => Waits(calls', {"verify"}) # {}
      BY <1>2, <1>8, <2>2
    <2>. QED
      BY <1>2, <1>8, <2>1, <2>3, <2>5, <2>6
  <1>9. ASSUME NEW r \in Proofs, FetchAndVerify(r) PROVE Goal /\ Common
    <2>1. r \in Nat \ {0}
      BY ProofsAssumption
    <2>2. /\ page' = Asking(page, r) /\ broken' = broken
          /\ calls' = Append(calls, Ask("fetchProof", r, 0))
      BY <1>9, UseKeepsBroken DEF FetchAndVerify
    <2>3. /\ Asking(page, r) \in PageOfVerify /\ Asking(page, r).asked = r
          /\ Asking(page, r).mixed = (Awaiting(VerifyOps) # {})
          /\ Asking(page, r).result = page.result /\ Asking(page, r).loading = page.loading
      BY <1>2, <2>1 DEF Asking, PageOfVerify
    <2>. QED
      BY <1>4, <1>8, <2>1, <2>2, <2>3
  <1>10. ASSUME NEW r \in Proofs \cup {0}, VerifyPasted(r) PROVE Goal /\ Common
    <2>1. CASE r = 0
      <3>1. page' = [page EXCEPT !.error = TRUE] /\ calls' = calls /\ broken' = broken
        BY <1>10, <2>1, UseKeepsBroken DEF VerifyPasted
      <3>2. /\ page' \in PageOfVerify /\ page'.result = page.result
            /\ page'.loading = page.loading /\ page'.asked = page.asked
            /\ page'.mixed = page.mixed /\ page'.error
        BY <1>2, <3>1 DEF PageOfVerify
      <3>. QED
        BY <1>2, <3>1, <3>2
    <2>2. CASE r # 0
      <3>1. r \in Nat \ {0}
        BY <2>2, ProofsAssumption
      <3>2. /\ page' = VerifyProof(Asking(page, r)) /\ broken' = broken
            /\ calls' = Append(calls, Ask("verify", r, 0))
        BY <1>10, <2>2, UseKeepsBroken DEF VerifyPasted
      <3>. DEFINE now == VerifyProof(Asking(page, r))
      <3>3. /\ now \in PageOfVerify /\ now.asked = r
            /\ now.mixed = (Awaiting(VerifyOps) # {})
            /\ now.result = 0 /\ now.loading
        BY <1>2, <3>1 DEF Asking, VerifyProof, PageOfVerify
      <3>. HIDE DEF now
      <3>4. page' = now
        BY <3>2 DEF now
      <3>. QED
        BY <1>4, <1>8, <3>1, <3>2, <3>3, <3>4
    <2>. QED
      BY <2>1, <2>2
  <1>11. ASSUME NEW i \in DOMAIN calls, calls[i].op \in VerifyOps
         PROVE  /\ Fit(RemoveAt(calls, i), "verify") /\ calls[i].arg \in Nat
                /\ Waits(RemoveAt(calls, i), {"list"}) = Waits(calls, {"list"})
                /\ Waits(RemoveAt(calls, i), {"projects"}) = Waits(calls, {"projects"})
                /\ calls[i].op # "verify" =>
                     Waits(RemoveAt(calls, i), {"verify"}) = Waits(calls, {"verify"})
                /\ ~page.mixed =>
                     /\ calls[i].arg = page.asked
                     /\ AtMostOne(VerifyOps, RemoveAt(calls, i))
                     /\ \A d \in ToSet(RemoveAt(calls, i)) : d.op \notin VerifyOps
                     /\ Waits(RemoveAt(calls, i), VerifyOps) = {}
                     /\ Waits(RemoveAt(calls, i), {"verify"}) = {}
    <2>. DEFINE c == calls[i]
                left == RemoveAt(calls, i)
    <2>0. c.op \in VerifyOps
      BY <1>11
    <2>1. /\ Fit(left, "verify") /\ CallFits(c, "verify")
          /\ \A ops : c.op \notin ops \/ c.live = "gone" => Waits(left, ops) = Waits(calls, ops)
          /\ \A ops : c.op \in ops /\ c.live # "gone" => c \in Waits(calls, ops)
      BY <1>2, TakeOff
    <2>2. /\ \A ops : AtMostOne(ops, calls) => AtMostOne(ops, left)
          /\ \A ops : AtMostOne(ops, calls) /\ c.op \in ops
                        => \A d \in ToSet(left) : d.op \notin ops
      BY <1>2, RemoveSet
    <2>. HIDE DEF c, left
    <2>3. c.live # "gone" /\ c.arg \in Nat
      BY <2>0, <2>1 DEF CallFits, CallRecord, Writes, VerifyOps
    <2>4. ~page.mixed =>
            /\ c.arg = page.asked
            /\ AtMostOne(VerifyOps, left)
            /\ \A d \in ToSet(left) : d.op \notin VerifyOps
      BY <1>2, <2>0, <2>1, <2>2, <2>3
    <2>5. ~page.mixed => Waits(left, VerifyOps) = {} /\ Waits(left, {"verify"}) = {}
      BY <1>4, <2>4 DEF Waits
    <2>6. /\ Waits(left, {"list"}) = Waits(calls, {"list"})
          /\ Waits(left, {"projects"}) = Waits(calls, {"projects"})
          /\ c.op # "verify" => Waits(left, {"verify"}) = Waits(calls, {"verify"})
      BY <1>4, <2>0, <2>1
    <2>. QED
      BY <2>1, <2>3, <2>4, <2>5, <2>6 DEF c, left
  <1>12. ASSUME NEW i \in DOMAIN calls, NEW how \in Hows, FetchedProof(i, how)
         PROVE  Goal /\ Common
    <2>. DEFINE c == calls[i]
                left == RemoveAt(calls, i)
    <2>1. c.op = "fetchProof" /\ Comes(how)
      BY <1>12 DEF FetchedProof
    <2>2. broken' \in BOOLEAN /\ (broken => broken') /\ (how = "break" => broken')
      BY <1>2, <2>1, BrokenStays
    <2>3. /\ Fit(left, "verify") /\ c.arg \in Nat
          /\ Waits(left, {"list"}) = Waits(calls, {"list"})
          /\ Waits(left, {"projects"}) = Waits(calls, {"projects"})
          /\ Waits(left, {"verify"}) = Waits(calls, {"verify"})
          /\ ~page.mixed =>
               /\ c.arg = page.asked
               /\ AtMostOne(VerifyOps, left)
               /\ \A d \in ToSet(left) : d.op \notin VerifyOps
               /\ Waits(left, VerifyOps) = {} /\ Waits(left, {"verify"}) = {}
      BY <1>4, <1>11, <2>1
    <2>4. CASE how = "ok"
      <3>. DEFINE d == Ask("verify", c.arg, 0)
      <3>1. page' = VerifyProof(page) /\ calls' = Append(left, d)
        BY <1>12, <2>4 DEF FetchedProof
      <3>. HIDE DEF left
      <3>2. d.op = "verify" /\ d.arg = c.arg
        BY <1>4, <1>6, <2>3
      <3>3. /\ Fit(Append(left, d), "verify")
            /\ \A ops : "verify" \in ops => Waits(Append(left, d), ops) = Waits(left, ops) \cup {d}
            /\ \A ops : "verify" \notin ops => Waits(Append(left, d), ops) = Waits(left, ops)
            /\ (\A e \in ToSet(left) : e.op \notin VerifyOps)
                 => AtMostOne(VerifyOps, Append(left, d))
        BY <1>4, <1>7, <2>3
      <3>. HIDE DEF d, c
      <3>4. /\ page' \in PageOfVerify /\ page'.result = 0 /\ page'.asked = page.asked
            /\ page'.mixed = page.mixed
        BY <1>2, <3>1 DEF VerifyProof, PageOfVerify
      <3>5. /\ Waits(calls', {"verify"}) # {}
            /\ ~page.mixed => Waits(calls', VerifyOps) = {d} /\ AtMostOne(VerifyOps, calls')
            /\ Waits(calls', {"list"}) = Waits(calls, {"list"})
            /\ Waits(calls', {"projects"}) = Waits(calls, {"projects"})
            /\ Fit(calls', "verify")
        BY <1>4, <2>3, <3>1, <3>3
      <3>. QED
        BY <2>2, <2>3, <3>2, <3>4, <3>5
    <2>5. CASE how = "error"
      <3>1. page' = [page EXCEPT !.error = TRUE] /\ calls' = left
        BY <1>12, <2>5 DEF FetchedProof
      <3>2. /\ page' \in PageOfVerify /\ page'.result = page.result /\ page'.error
            /\ page'.asked = page.asked /\ page'.mixed = page.mixed
            /\ page'.loading = page.loading
        BY <1>2, <3>1 DEF PageOfVerify
      <3>. HIDE DEF left, c
      <3>. QED
        BY <1>2, <2>2, <2>3, <3>1, <3>2
    <2>6. CASE how = "break"
      <3>1. page' = page /\ calls' = left
        BY <1>12, <2>6 DEF FetchedProof
      <3>. HIDE DEF left, c
      <3>. QED
        BY <1>2, <2>2, <2>3, <2>6, <3>1
    <2>. QED
      BY <2>4, <2>5, <2>6 DEF Hows
  <1>13. ASSUME NEW i \in DOMAIN calls, NEW how \in Hows, Verified(i, how)
         PROVE  Goal /\ Common
    <2>. DEFINE c == calls[i]
    <2>1. c.op = "verify" /\ Comes(how) /\ calls' = RemoveAt(calls, i)
      BY <1>13 DEF Verified
    <2>2. broken' \in BOOLEAN /\ (broken => broken')
      BY <1>2, <2>1, BrokenStays
    <2>3. /\ Fit(calls', "verify") /\ c.arg \in Nat
          /\ Waits(calls', {"list"}) = Waits(calls, {"list"})
          /\ Waits(calls', {"projects"}) = Waits(calls, {"projects"})
          /\ ~page.mixed =>
               /\ c.arg = page.asked
               /\ AtMostOne(VerifyOps, calls')
               /\ Waits(calls', VerifyOps) = {} /\ Waits(calls', {"verify"}) = {}
      BY <1>4, <1>11, <2>1
    <2>4. page' = IF how = "ok" THEN [page EXCEPT !.result = c.arg, !.loading = FALSE]
                                ELSE [page EXCEPT !.error = TRUE, !.loading = FALSE]
      BY <1>13 DEF Verified
    <2>. HIDE DEF c
    <2>5. /\ page' \in PageOfVerify /\ ~page'.loading
          /\ page'.asked = page.asked /\ page'.mixed = page.mixed
          /\ page'.result = c.arg \/ page'.error
      BY <1>2, <2>3, <2>4 DEF PageOfVerify
    <2>. QED
      BY <2>2, <2>3, <2>5
  <1>. HIDE DEF Goal, Common
  <1>. QED
    BY <1>3, <1>9, <1>10, <1>12, <1>13 DEF VerifySteps

-----------------------------------------------------------------------------
(***************************************************************************)
(* Delegations.                                                            *)
(***************************************************************************)
GrantSteps ==
  \/ GrantClicks
  \/ \E i \in DOMAIN calls, how \in Hows :
       \/ ChainAnswered(i, how)
       \/ tab = "delegations" /\ calls[i].live # "gone" /\ RevokeAnswered(i, how)

LEMMA GrantOps ==
  /\ {"list", "projects", "verifyGrant", "revoke"} \subseteq CallOps
  /\ {"list", "projects", "verifyGrant", "revoke"} \subseteq OpsOf("delegations")
  /\ {"list", "projects", "verifyGrant", "revoke"} \cap RowOps = {}
  BY DEF CallOps, OpsOf, RowOps, Writes

PageOfDelegations ==
  [selected : {0} \cup Rows, chain : Nat, valid : BOOLEAN,
   loading : BOOLEAN, failed : BOOLEAN, revoking : BOOLEAN,
   revoked : BOOLEAN, revokeFailed : BOOLEAN, confirm : BOOLEAN,
   strayed : BOOLEAN]

LEMMA GrantsKept ==
  TabsInv /\ AuthTypeOK /\ GrantSteps => SharedInv' /\ DelegationsInv'
  <1>. SUFFICES ASSUME TabsInv, AuthTypeOK, GrantSteps PROVE SharedInv' /\ DelegationsInv'
    OBVIOUS
  <1>0. /\ tab = "delegations" /\ UNCHANGED <<authVars, scope, stored, list>>
        /\ UNCHANGED <<owner, rows, keys>>
    BY DEF GrantSteps, GrantClicks, SelectGrant, GrantBack, AskToRevoke, ConfirmRevoke,
           CancelConfirm, ChainAnswered, RevokeAnswered, UsesGrants, scopeVars, server
  <1>1. tab' = "delegations" /\ ServerInv
    BY <1>0, OnTab DEF TabsInv, SharedInv
  <1>2. /\ Fit(calls, "delegations") /\ broken \in BOOLEAN
        /\ page \in PageOfDelegations
        /\ page.confirm => page.selected # 0
        /\ page.selected # 0 => page.chain \in {0, page.selected}
        /\ \A c \in Waits(calls, {"verifyGrant"}) :
             page.selected # 0 /\ c.arg = page.selected
        /\ page.revoked /\ page.selected # 0 /\ ~page.strayed => page.selected \in revoked
        /\ ~page.strayed =>
             \A c \in Waits(calls, {"revoke"}) : page.selected \in {0, c.arg}
        /\ ~broken /\ page.selected # 0 /\ page.loading => Waits(calls, {"verifyGrant"}) # {}
        /\ ~broken /\ page.revoking => Waits(calls, {"revoke"}) # {}
    BY <1>0 DEF TabsInv, SharedInv, CallsInv, ScopeInv, EveryTabInv, DelegationsInv,
                PageOfDelegations
  <1>fit. Fit(calls, "delegations")
    BY <1>2
  <1>row. \A r \in Rows : r \in Nat \ {0}
    BY DashboardAssumption
  <1>. DEFINE Goal == /\ page' \in PageOfDelegations
                      /\ page'.confirm => page'.selected # 0
                      /\ page'.selected # 0 => page'.chain \in {0, page'.selected}
                      /\ \A c \in Waits(calls', {"verifyGrant"}) :
                           page'.selected # 0 /\ c.arg = page'.selected
                      /\ page'.revoked /\ page'.selected # 0 /\ ~page'.strayed
                           => page'.selected \in revoked'
                      /\ ~page'.strayed =>
                           \A c \in Waits(calls', {"revoke"}) : page'.selected \in {0, c.arg}
                      /\ ~broken' /\ page'.selected # 0 /\ page'.loading
                           => Waits(calls', {"verifyGrant"}) # {}
                      /\ ~broken' /\ page'.revoking => Waits(calls', {"revoke"}) # {}
              Common == /\ broken' \in BOOLEAN /\ (broken => broken')
                        /\ revoked' \subseteq Rows
                        /\ Fit(calls', "delegations")
                        /\ Waits(calls', {"list"}) = Waits(calls, {"list"})
                        /\ Waits(calls', {"projects"}) = Waits(calls, {"projects"})
  <1>3. Goal /\ Common => SharedInv' /\ DelegationsInv'
    <2>. SUFFICES ASSUME Goal, Common PROVE SharedInv' /\ DelegationsInv'
      OBVIOUS
    <2>1. SharedStep
      BY <1>0, <1>1 DEF SharedStep
    <2>2. ServerInv'
      BY <1>0, <1>1 DEF ServerInv
    <2>3. SharedInv'
      BY <2>1, <2>2, SharedKept DEF TabsInv
    <2>4. DelegationsInv'
      BY DEF DelegationsInv, PageOfDelegations
    <2>. QED
      BY <2>3, <2>4
  <1>4. UNCHANGED server => revoked' = revoked /\ revoked' \subseteq Rows
    BY <1>1 DEF server, ServerInv
  <1>cut. /\ Fit(Cancel({"verifyGrant"}, calls), "delegations")
          /\ Waits(Cancel({"verifyGrant"}, calls), {"verifyGrant"}) = {}
          /\ \A op \in {"list", "projects", "revoke"} :
               Waits(Cancel({"verifyGrant"}, calls), {op}) = Waits(calls, {op})
    <2>. DEFINE s == Cancel({"verifyGrant"}, calls)
    <2>1. /\ Fit(s, "delegations")
          /\ \A ops : Waits(s, ops) = {d \in Waits(calls, ops) : d.op \notin {"verifyGrant"}}
          /\ \A ops : ops \cap {"verifyGrant"} = {} => Waits(s, ops) = Waits(calls, ops)
      BY <1>fit, CutOff
    <2>2. \A d \in Waits(calls, {"verifyGrant"}) : d.op = "verifyGrant"
      BY DEF Waits
    <2>. HIDE DEF s
    <2>. QED
      BY <2>1, <2>2 DEF s
  <1>5. ASSUME NEW r \in Rows, SelectGrant(r) PROVE Goal /\ Common
    <2>. DEFINE c == Ask("verifyGrant", r, 0)
                s == Cancel({"verifyGrant"}, calls)
    <2>1. CallFits(c, "delegations") /\ c.op = "verifyGrant" /\ c.arg = r /\ c.live # "gone"
      BY <1>row, AskIs, AskFits, GrantOps
    <2>. HIDE DEF s, c
    <2>2. /\ calls' = Append(s, c) /\ broken' = broken /\ UNCHANGED server
          /\ page' = [OpenGrant(r) EXCEPT
                !.strayed = @ \/ \E i \in Awaiting({"revoke"}) : calls[i].arg # r]
      BY <1>5, UseKeepsBroken DEF SelectGrant, s, c
    <2>3. /\ Fit(Append(s, c), "delegations")
          /\ \A ops : c.op \in ops => Waits(Append(s, c), ops) = Waits(s, ops) \cup {c}
          /\ \A ops : c.op \notin ops => Waits(Append(s, c), ops) = Waits(s, ops)
      BY <1>cut, <2>1, PutOn DEF s
    <2>4. /\ Fit(calls', "delegations")
          /\ Waits(calls', {"verifyGrant"}) = {c}
          /\ Waits(calls', {"list"}) = Waits(calls, {"list"})
          /\ Waits(calls', {"projects"}) = Waits(calls, {"projects"})
          /\ Waits(calls', {"revoke"}) = Waits(calls, {"revoke"})
      BY <1>cut, <2>1, <2>2, <2>3 DEF s
    <2>5. /\ page' \in PageOfDelegations /\ page'.selected = r /\ page'.chain = 0
          /\ ~page'.revoked /\ page'.revoking = page.revoking
          /\ page'.strayed = (page.strayed \/ \E i \in Awaiting({"revoke"}) : calls[i].arg # r)
      BY <1>2, <2>2 DEF OpenGrant, PageOfDelegations
    <2>6. ~page'.strayed => \A d \in Waits(calls, {"revoke"}) : d.arg = r
      BY <2>5 DEF Waits, Awaiting, ToSet
    <2>. QED
      BY <1>2, <1>4, <1>row, <2>1, <2>2, <2>4, <2>5, <2>6
  <1>6. ASSUME GrantBack PROVE Goal /\ Common
    <2>. DEFINE s == Cancel({"verifyGrant"}, calls)
    <2>1. /\ calls' = s /\ broken' = broken /\ UNCHANGED server /\ ~page.confirm
          /\ page' = [page EXCEPT !.selected = 0]
      BY <1>6, UseKeepsBroken DEF GrantBack, GrantDetail
    <2>. HIDE DEF s
    <2>2. /\ Fit(calls', "delegations")
          /\ Waits(calls', {"verifyGrant"}) = {}
          /\ Waits(calls', {"list"}) = Waits(calls, {"list"})
          /\ Waits(calls', {"projects"}) = Waits(calls, {"projects"})
          /\ Waits(calls', {"revoke"}) = Waits(calls, {"revoke"})
      BY <1>cut, <2>1 DEF s
    <2>3. /\ page' \in PageOfDelegations /\ page'.selected = 0 /\ ~page'.confirm
          /\ page'.revoking = page.revoking
      BY <1>2, <2>1 DEF PageOfDelegations
    <2>. QED
      BY <1>2, <1>4, <2>1, <2>2, <2>3
  <1>7. ASSUME AskToRevoke \/ CancelConfirm PROVE Goal /\ Common
    <2>1. /\ calls' = calls /\ broken' = broken /\ UNCHANGED server
          /\ \/ page.selected # 0 /\ page' = [page EXCEPT !.confirm = TRUE]
             \/ page' = [page EXCEPT !.confirm = FALSE]
      BY <1>7, UseKeepsBroken DEF AskToRevoke, CancelConfirm, GrantDetail
    <2>2. /\ page' \in PageOfDelegations /\ page'.selected = page.selected
          /\ page'.chain = page.chain /\ page'.revoked = page.revoked
          /\ page'.strayed = page.strayed /\ page'.loading = page.loading
          /\ page'.revoking = page.revoking
          /\ page'.confirm => page.selected # 0
      BY <1>2, <2>1 DEF PageOfDelegations
    <2>. QED
      BY <1>2, <1>4, <2>1, <2>2
  <1>8. ASSUME ConfirmRevoke PROVE Goal /\ Common
    <2>. DEFINE c == Ask("revoke", page.selected, 0)
    <2>1. page.selected \in Rows /\ page.selected \in Nat \ {0}
      BY <1>2, <1>8, <1>row DEF ConfirmRevoke, PageOfDelegations
    <2>2. CallFits(c, "delegations") /\ c.op = "revoke" /\ c.live # "gone"
          /\ c.arg = page.selected
      BY <2>1, AskIs, GrantOps DEF CallFits, RowOps
    <2>. HIDE DEF c
    <2>3. /\ calls' = Append(calls, c) /\ broken' = broken /\ UNCHANGED server
          /\ page' = [page EXCEPT !.confirm = FALSE, !.revoking = TRUE, !.revokeFailed = FALSE]
      BY <1>8, UseKeepsBroken DEF ConfirmRevoke, c
    <2>4. /\ Fit(Append(calls, c), "delegations")
          /\ \A ops : c.op \in ops => Waits(Append(calls, c), ops) = Waits(calls, ops) \cup {c}
          /\ \A ops : c.op \notin ops => Waits(Append(calls, c), ops) = Waits(calls, ops)
      BY <1>fit, <2>2, PutOn
    <2>5. /\ Fit(calls', "delegations")
          /\ Waits(calls', {"verifyGrant"}) = Waits(calls, {"verifyGrant"})
          /\ Waits(calls', {"list"}) = Waits(calls, {"list"})
          /\ Waits(calls', {"projects"}) = Waits(calls, {"projects"})
          /\ Waits(calls', {"revoke"}) = Waits(calls, {"revoke"}) \cup {c}
      BY <2>2, <2>3, <2>4
    <2>6. /\ page' \in PageOfDelegations /\ page'.selected = page.selected
          /\ page'.chain = page.chain /\ page'.revoked = page.revoked
          /\ page'.strayed = page.strayed /\ page'.loading = page.loading
          /\ ~page'.confirm
      BY <1>2, <2>3 DEF PageOfDelegations
    <2>. QED
      BY <1>2, <1>4, <2>2, <2>3, <2>5, <2>6
  <1>9. ASSUME NEW i \in DOMAIN calls, NEW how \in Hows, ChainAnswered(i, how)
        PROVE  Goal /\ Common
    <2>. DEFINE c == calls[i]
    <2>1. c.op = "verifyGrant" /\ calls' = RemoveAt(calls, i) /\ Comes(how) /\ UNCHANGED server
      BY <1>9 DEF ChainAnswered
    <2>. HIDE DEF c
    <2>2. /\ Fit(calls', "delegations") /\ CallFits(c, "delegations")
          /\ \A ops : Waits(calls', ops) \subseteq Waits(calls, ops)
          /\ \A ops : Waits(calls, ops) \subseteq Waits(calls', ops) \cup {c}
          /\ \A ops : c.op \notin ops \/ c.live = "gone" => Waits(calls', ops) = Waits(calls, ops)
          /\ \A ops : c.op \in ops /\ c.live # "gone" => c \in Waits(calls, ops)
      BY <1>fit, <2>1, TakeOff DEF c
    <2>3. /\ Waits(calls', {"verifyGrant"}) \subseteq Waits(calls, {"verifyGrant"})
          /\ Waits(calls', {"list"}) = Waits(calls, {"list"})
          /\ Waits(calls', {"projects"}) = Waits(calls, {"projects"})
          /\ Waits(calls', {"revoke"}) = Waits(calls, {"revoke"})
          /\ c.live # "gone" => c \in Waits(calls, {"verifyGrant"})
      BY <2>1, <2>2
    <2>4. c.live # "gone" /\ c.arg \in Nat
      BY <2>1, <2>2 DEF CallFits, CallRecord, Writes
    <2>5. page.selected # 0 /\ c.arg = page.selected
      BY <1>2, <2>3, <2>4
    <2>6. broken' \in BOOLEAN /\ (broken => broken') /\ (how = "break" => broken')
      BY <1>2, <2>1, BrokenStays
    <2>7. /\ page' \in PageOfDelegations /\ page'.selected = page.selected
          /\ page'.chain \in {0, page.selected} /\ page'.revoked = page.revoked
          /\ page'.strayed = page.strayed /\ page'.revoking = page.revoking
          /\ page'.confirm = page.confirm
          /\ page'.loading => how = "break"
      <3>1. CASE how = "ok"
        <4>1. PICK verdict \in BOOLEAN :
                page' = [page EXCEPT !.chain = c.arg, !.loading = FALSE, !.valid = verdict]
          BY <1>9, <3>1 DEF ChainAnswered, c
        <4>. QED
          BY <1>2, <2>4, <2>5, <4>1 DEF PageOfDelegations
      <3>2. CASE how = "error"
        <4>1. page' = [page EXCEPT !.failed = TRUE, !.loading = FALSE]
          BY <1>9, <3>2 DEF ChainAnswered
        <4>. QED
          BY <1>2, <2>5, <4>1 DEF PageOfDelegations
      <3>3. CASE how = "break"
        <4>1. page' = page
          BY <1>9, <3>3 DEF ChainAnswered
        <4>. QED
          BY <1>2, <2>5, <3>3, <4>1
      <3>. QED
        BY <3>1, <3>2, <3>3 DEF Hows
    <2>. QED
      BY <1>2, <1>4, <2>1, <2>2, <2>3, <2>5, <2>6, <2>7
  <1>10. ASSUME NEW i \in DOMAIN calls, NEW how \in Hows, calls[i].live # "gone",
                RevokeAnswered(i, how)
         PROVE  Goal /\ Common
    <2>. DEFINE c == calls[i]
    <2>1. c.op = "revoke" /\ c.live # "gone" /\ calls' = RemoveAt(calls, i) /\ Comes(how)
      BY <1>10 DEF RevokeAnswered
    <2>. HIDE DEF c
    <2>2. /\ Fit(calls', "delegations") /\ CallFits(c, "delegations")
          /\ \A ops : Waits(calls', ops) \subseteq Waits(calls, ops)
          /\ \A ops : c.op \notin ops \/ c.live = "gone" => Waits(calls', ops) = Waits(calls, ops)
          /\ \A ops : c.op \in ops /\ c.live # "gone" => c \in Waits(calls, ops)
      BY <1>fit, <2>1, TakeOff DEF c
    <2>3. /\ Waits(calls', {"verifyGrant"}) = Waits(calls, {"verifyGrant"})
          /\ Waits(calls', {"list"}) = Waits(calls, {"list"})
          /\ Waits(calls', {"projects"}) = Waits(calls, {"projects"})
          /\ Waits(calls', {"revoke"}) \subseteq Waits(calls, {"revoke"})
          /\ c \in Waits(calls, {"revoke"})
      BY <2>1, <2>2
    <2>4. c.live = "here" /\ c.arg \in Rows
      BY <2>1, <2>2 DEF CallFits, CallRecord, RowOps
    <2>5. broken' \in BOOLEAN /\ (broken => broken') /\ (how = "break" => broken')
      BY <1>2, <2>1, BrokenStays
    <2>6. /\ revoked \subseteq revoked' /\ revoked' \subseteq Rows
          /\ how = "ok" => c.arg \in revoked'
      <3>1. Effect(how, revoked' = revoked \cup {c.arg}, revoked)
        BY <1>10 DEF RevokeAnswered, c
      <3>2. \/ how # "error" /\ revoked' = revoked \cup {c.arg}
            \/ how # "ok" /\ revoked' = revoked
        BY <3>1 DEF Effect
      <3>. QED
        BY <1>1, <2>4, <3>2 DEF ServerInv
    <2>7. page' = RevokeSettled(page, how)
      BY <1>10, <2>4 DEF RevokeAnswered, c
    <2>8. /\ page' \in PageOfDelegations /\ page'.selected = page.selected
          /\ page'.chain = page.chain /\ page'.loading = page.loading
          /\ page'.strayed = page.strayed /\ page'.confirm = page.confirm
          /\ page'.revoked => page.revoked \/ how = "ok"
          /\ page'.revoking => how = "break"
      BY <1>2, <2>7 DEF RevokeSettled, PageOfDelegations
    <2>9. page'.revoked /\ page'.selected # 0 /\ ~page'.strayed => page'.selected \in revoked'
      BY <1>2, <2>3, <2>6, <2>8
    <2>. QED
      BY <1>2, <2>2, <2>3, <2>5, <2>6, <2>8, <2>9
  <1>. HIDE DEF Goal, Common
  <1>. QED
    BY <1>3, <1>5, <1>6, <1>7, <1>8, <1>9, <1>10 DEF GrantSteps, GrantClicks

-----------------------------------------------------------------------------
(***************************************************************************)
(* Overview, Analytics and Settings.                                       *)
(***************************************************************************)
LEMMA AccountOps ==
  /\ {"projects", "figures", "key"} \subseteq CallOps
  /\ {"projects", "figures", "key"} \cap (RowOps \cup {"revoke"}) = {}
  /\ {"projects", "figures", "key"} \subseteq OpsOf("overview")
  /\ {"projects", "figures"} \subseteq OpsOf("analytics")
  /\ {"projects", "key"} \subseteq OpsOf("settings")
  BY DEF CallOps, OpsOf, RowOps

\* A call of these tabs that is answered.
LEMMA AccountAnswered ==
  ASSUME TabsInv, NEW i \in DOMAIN calls, NEW how, Comes(how), UsesAccount,
         calls' = RemoveAt(calls, i), calls[i].op \in {"figures", "key"}
  PROVE  /\ SharedInv' /\ tab' = tab
         /\ broken' \in BOOLEAN /\ (broken => broken') /\ (how = "break" => broken')
         /\ \A ops : calls[i].op \notin ops => Waits(calls', ops) = Waits(calls, ops)
  <1>. DEFINE c == calls[i]
  <1>1. tab' = tab /\ UNCHANGED <<server, scope, stored, list>> /\ Fit(calls, tab) /\ broken \in BOOLEAN
    BY OnTab DEF UsesAccount, scopeVars, TabsInv, SharedInv, CallsInv, ScopeInv
  <1>. HIDE DEF c
  <1>2. /\ Fit(calls', tab)
        /\ \A ops : c.op \notin ops \/ c.live = "gone" => Waits(calls', ops) = Waits(calls, ops)
    BY <1>1, TakeOff DEF c
  <1>3. broken' \in BOOLEAN /\ (broken => broken') /\ (how = "break" => broken')
    BY <1>1, BrokenStays
  <1>4. /\ Waits(calls', {"list"}) = Waits(calls, {"list"})
        /\ Waits(calls', {"projects"}) = Waits(calls, {"projects"})
    BY <1>2 DEF c
  <1>5. SharedStep
    BY <1>1, <1>2, <1>3, <1>4 DEF SharedStep
  <1>6. ServerInv'
    BY <1>1, ServerKept DEF TabsInv, SharedInv
  <1>. QED
    BY <1>1, <1>2, <1>3, <1>5, <1>6, SharedKept DEF TabsInv, c

LEMMA OverviewKept ==
  ASSUME TabsInv, tab = "overview", NEW i \in DOMAIN calls, NEW how \in Hows,
         OverviewFigures(i, how) \/ KeyAnswered(i, how)
  PROVE  SharedInv' /\ OverviewInv'
  <1>1. page \in [figures : BOOLEAN, key : BOOLEAN, keyError : BOOLEAN]
    BY DEF TabsInv, EveryTabInv, OverviewInv
  <1>2. page' \in [figures : BOOLEAN, key : BOOLEAN, keyError : BOOLEAN]
    BY <1>1 DEF OverviewFigures, KeyAnswered
  <1>3. /\ Comes(how) /\ UsesAccount /\ calls' = RemoveAt(calls, i)
        /\ calls[i].op \in {"figures", "key"}
    BY DEF OverviewFigures, KeyAnswered
  <1>. QED
    BY <1>2, <1>3, AccountAnswered DEF OverviewInv

LEMMA CountedIsSome == <<>> \notin Counted
  <1>1. DOMAIN <<>> = {}
    OBVIOUS
  <1>2. \A f \in Counted : "events" \in DOMAIN f
    BY DEF Counted
  <1>. QED
    BY <1>1, <1>2

PageOfAnalytics == [loading : BOOLEAN, error : BOOLEAN, figures : Counted \cup {<<>>}]

LEMMA AnalyticsKept ==
  ASSUME TabsInv, NEW i \in DOMAIN calls, NEW how \in Hows, FiguresAnswered(i, how)
  PROVE  SharedInv' /\ AnalyticsInv'
  <1>0. tab = "analytics"
    BY DEF FiguresAnswered
  <1>1. /\ page \in PageOfAnalytics
        /\ page.loading \/ page.error \/ page.figures # <<>>
    BY <1>0 DEF TabsInv, EveryTabInv, AnalyticsInv, PageOfAnalytics
  <1>2. /\ Comes(how) /\ UsesAccount /\ calls' = RemoveAt(calls, i) /\ calls[i].op = "figures"
    BY DEF FiguresAnswered
  <1>3. SharedInv' /\ tab' = tab /\ (how = "break" => broken')
    BY <1>2, AccountAnswered
  <1>4. /\ page' \in PageOfAnalytics
        /\ page'.loading \/ page'.error \/ page'.figures # <<>>
        /\ page'.loading => how = "break"
    <2>1. CASE how = "ok"
      <3>1. PICK f \in Tallies : page' = [page EXCEPT !.figures = f, !.loading = FALSE]
        BY <2>1 DEF FiguresAnswered
      <3>2. f \in Counted /\ f # <<>>
        BY TalliesAssumption, CountedIsSome
      <3>. QED
        BY <1>1, <3>1, <3>2 DEF PageOfAnalytics
    <2>2. CASE how = "error"
      <3>1. page' = [page EXCEPT !.error = TRUE, !.loading = FALSE]
        BY <2>2 DEF FiguresAnswered
      <3>. QED
        BY <1>1, <3>1 DEF PageOfAnalytics
    <2>3. CASE how = "break"
      BY <1>1, <2>3 DEF FiguresAnswered
    <2>. QED
      BY <2>1, <2>2, <2>3 DEF Hows
  <1>. QED
    BY <1>3, <1>4 DEF AnalyticsInv, PageOfAnalytics

PageOfSettings ==
  [section : Sections, key : BOOLEAN, keyError : BOOLEAN, saveFailed : BOOLEAN]

LEMMA SettingsAnswered ==
  ASSUME TabsInv, tab = "settings", NEW i \in DOMAIN calls, NEW how \in Hows,
         KeyAnswered(i, how)
  PROVE  SharedInv' /\ SettingsInv'
  <1>1. page \in PageOfSettings
    BY DEF TabsInv, EveryTabInv, SettingsInv, PageOfSettings
  <1>2. page' \in PageOfSettings /\ (page'.key \/ page'.keyError)
    BY <1>1 DEF KeyAnswered, PageOfSettings
  <1>3. /\ Comes(how) /\ UsesAccount /\ calls' = RemoveAt(calls, i) /\ calls[i].op = "key"
    BY DEF KeyAnswered
  <1>. QED
    BY <1>2, <1>3, AccountAnswered DEF SettingsInv, PageOfSettings

LEMMA SectionOpened ==
  ASSUME TabsInv, AuthTypeOK, NEW to \in Sections, OpenSection(to)
  PROVE  SharedInv' /\ SettingsInv'
  <1>. DEFINE s == Cancel({"key"}, calls)
              c == Ask("key", 0, 0)
  <1>0. /\ tab = "settings" /\ UNCHANGED <<authVars, server, scope, stored, list>>
        /\ broken' = broken /\ page' = [page EXCEPT !.section = to]
        /\ calls' = s \o (IF to = "notary" /\ ~page.key THEN <<c>> ELSE <<>>)
    BY UseKeepsBroken DEF OpenSection, UsesAccount, scopeVars
  <1>1. tab' = "settings" /\ ServerInv'
    BY <1>0, OnTab, ServerKept DEF TabsInv, SharedInv
  <1>2. /\ Fit(calls, "settings") /\ broken \in BOOLEAN /\ page \in PageOfSettings
    BY <1>0 DEF TabsInv, SharedInv, CallsInv, ScopeInv, EveryTabInv, SettingsInv, PageOfSettings
  <1>3. page' \in PageOfSettings /\ page'.section = to /\ page'.key = page.key
    BY <1>0, <1>2 DEF PageOfSettings
  <1>4. CallFits(c, "settings") /\ c.op = "key" /\ c.live # "gone"
    BY AskIs, AskFits, AccountOps
  <1>5. /\ Fit(s, "settings")
        /\ Waits(s, {"list"}) = Waits(calls, {"list"})
        /\ Waits(s, {"projects"}) = Waits(calls, {"projects"})
    <2>1. /\ Fit(s, "settings")
          /\ \A ops : ops \cap {"key"} = {} => Waits(s, ops) = Waits(calls, ops)
      BY <1>2, CutOff
    <2>. HIDE DEF s
    <2>. QED
      BY <2>1
  <1>. HIDE DEF s, c
  <1>6. /\ Fit(calls', "settings")
        /\ Waits(calls', {"list"}) = Waits(calls, {"list"})
        /\ Waits(calls', {"projects"}) = Waits(calls, {"projects"})
        /\ to = "notary" /\ ~page.key => Waits(calls', {"key"}) # {}
    <2>1. s \in Seq(CallRecord) /\ c \in CallRecord
      BY <1>4, <1>5 DEF Fit, CallFits
    <2>2. CASE to = "notary" /\ ~page.key
      <3>1. calls' = Append(s, c)
        BY <1>0, <2>1, <2>2, AppendIsConcat
      <3>2. /\ Fit(Append(s, c), "settings")
            /\ \A ops : c.op \in ops => Waits(Append(s, c), ops) = Waits(s, ops) \cup {c}
            /\ \A ops : c.op \notin ops => Waits(Append(s, c), ops) = Waits(s, ops)
        BY <1>4, <1>5, PutOn
      <3>. QED
        BY <1>4, <1>5, <3>1, <3>2
    <2>3. CASE ~(to = "notary" /\ ~page.key)
      <3>1. calls' = s
        BY <1>0, <2>1, <2>3, ConcatEmptySeq
      <3>. QED
        BY <1>5, <2>3, <3>1
    <2>. QED
      BY <2>2, <2>3
  <1>7. SharedStep
    BY <1>0, <1>1, <1>2, <1>6 DEF SharedStep
  <1>8. SharedInv'
    BY <1>1, <1>7, SharedKept DEF TabsInv
  <1>9. SettingsInv'
    BY <1>1, <1>3, <1>6 DEF SettingsInv, PageOfSettings
  <1>. QED
    BY <1>8, <1>9
=============================================================================
