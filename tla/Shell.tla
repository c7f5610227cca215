------------------------------- MODULE Shell -------------------------------
(***************************************************************************)
(* What surrounds every tab: the sidebar and drawer of DashboardLayout,    *)
(* the command palette and the theme.                                      *)
(***************************************************************************)
EXTENDS Dashboard

CONSTANT Queries  \* what may be typed into the palette: query |-> its items

SameTabs == UNCHANGED <<server, scopeVars, pageVars>>

-----------------------------------------------------------------------------
(***************************************************************************)
(* CommandPalette: eight places to go, filtered by what is typed.          *)
(***************************************************************************)
Places == <<"overview", "activity", "agents", "delegations", "sessions",
            "receipts", "verify", "settings">>

ASSUME QueriesAssumption ==
  \A q \in DOMAIN Queries : Queries[q] \in Seq(Tabs) /\ Len(Queries[q]) <= Len(Places)

Closed == [open |-> FALSE, query |-> "", index |-> 0]

Filtered(query) == IF query = "" THEN Places ELSE Queries[query]

\* Opened by the search button or Cmd+K, with an empty query.
OpenPalette ==
  /\ tab # "none" /\ ~palette.open
  /\ Click
  /\ palette' = [Closed EXCEPT !.open = TRUE]
  /\ UNCHANGED <<authVars, rail, drawer, theme>> /\ SameTabs

\* Escape, Cmd+K or a click outside.
ClosePalette ==
  /\ palette.open
  /\ Click
  /\ palette' = [palette EXCEPT !.open = FALSE]
  /\ UNCHANGED <<authVars, rail, drawer, theme>> /\ SameTabs

\* Wrong variant: the selected index outlives the list it counts in.
TypedKeepsIndex(state, query) == [state EXCEPT !.query = query]

Typed(state, query) == [state EXCEPT !.query = query, !.index = 0]

TypeQuery(query) ==
  /\ palette.open /\ query # palette.query
  /\ Click
  /\ palette' = Typed(palette, query)
  /\ UNCHANGED <<authVars, rail, drawer, theme>> /\ SameTabs

\* The arrow keys go round the list.
Arrow(down) ==
  LET n == Len(Filtered(palette.query))
      some == IF n = 0 THEN 1 ELSE n
  IN  /\ palette.open
      /\ Click
      /\ palette' = [palette EXCEPT !.index = IF down THEN (@ + 1) % some ELSE ((@ - 1) + n) % some]
      /\ UNCHANGED <<authVars, rail, drawer, theme>> /\ SameTabs

Hover(at) ==
  /\ palette.open /\ at < Len(Filtered(palette.query)) /\ at # palette.index
  /\ Click
  /\ palette' = [palette EXCEPT !.index = at]
  /\ UNCHANGED <<authVars, rail, drawer, theme>> /\ SameTabs

\* Enter goes to the selected place, if there is one.
Chosen ==
  IF palette.open /\ palette.index < Len(Filtered(palette.query))
  THEN {Filtered(palette.query)[palette.index + 1]} ELSE {}

-----------------------------------------------------------------------------
(***************************************************************************)
(* The sidebar remembers whether it is collapsed; the drawer does not.     *)
(***************************************************************************)
CollapseRail ==
  /\ tab # "none" /\ ~palette.open
  /\ Click
  /\ rail' = ~rail
  /\ UNCHANGED <<authVars, palette, drawer, theme>> /\ SameTabs

ToggleDrawer ==
  /\ tab # "none" /\ ~palette.open
  /\ Click
  /\ drawer' = ~drawer
  /\ UNCHANGED <<authVars, palette, rail, theme>> /\ SameTabs

-----------------------------------------------------------------------------
(***************************************************************************)
(* lib/theme.ts.                                                           *)
(***************************************************************************)
Themes == <<"light", "dark", "system">>
resolveTheme(some, os) == IF some = "system" THEN os ELSE some

NextTheme(some) ==
  LET i == CHOOSE i \in 1 .. 3 : Themes[i] = some IN  Themes[(i % 3) + 1]

\* Wrong variant: the class is set to the theme's name, "system" included.
ApplyUnresolved(state) == [state EXCEPT !.applied = state.stored]

Apply(state) == [state EXCEPT !.applied = resolveTheme(state.stored, state.os)]

\* setTheme: stored, applied, and told to the toggle.
ToggleTheme ==
  /\ tab # "none" /\ ~palette.open
  /\ Click
  /\ LET to == NextTheme(theme.shown)
     IN  theme' = Apply([theme EXCEPT !.stored = to, !.shown = to])
  /\ UNCHANGED <<authVars, palette, rail, drawer>> /\ SameTabs

\* The listener initTheme binds to the OS's preference.
OsSwitches ==
  /\ Click
  /\ LET now == [theme EXCEPT !.os = IF @ = "dark" THEN "light" ELSE "dark"]
     IN  theme' = IF now.stored = "system" THEN Apply(now) ELSE now
  /\ UNCHANGED <<authVars, palette, rail, drawer>> /\ SameTabs

\* Another tab stores a theme: the storage event reaches the toggle only.
OtherTabTheme(to) ==
  /\ to # theme.stored
  /\ Click
  /\ theme' = [theme EXCEPT !.stored = to, !.shown = IF tab = "none" THEN @ ELSE to,
                            !.other = TRUE]
  /\ UNCHANGED <<authVars, palette, rail, drawer>> /\ SameTabs

ShellNext ==
  \/ OpenPalette \/ ClosePalette \/ CollapseRail \/ ToggleDrawer
  \/ ToggleTheme \/ OsSwitches
  \/ \E down \in BOOLEAN : Arrow(down)
  \/ \E query \in DOMAIN Queries \cup {""} : TypeQuery(query)
  \/ \E at \in 0 .. Len(Places) - 1 : Hover(at)
  \/ \E to \in ToSet(Themes) : OtherTabTheme(to)
=============================================================================
