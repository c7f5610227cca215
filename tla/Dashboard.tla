----------------------------- MODULE Dashboard -----------------------------
(***************************************************************************)
(* What the tabs of the dashboard share: the server they read and write,   *)
(* the outstanding calls of their components, the project selected in the  *)
(* header (lib/project.tsx), and the list most of them show (Paging).      *)
(* Reads take effect when they are answered and so do writes; a call that  *)
(* is refused has no effect, one whose connection breaks may have had one. *)
(***************************************************************************)
EXTENDS ConsoleAuth, Paging

CONSTANTS
  Projects,   \* project numbers; None owns the ones not made yet
  Rows,       \* row numbers, of sessions, events or grants alike
  Owns,       \* the projects of each account at the start
  RowsOf,     \* the rows of each project
  LateRows,   \* rows recorded while the console is open
  Issued,     \* the API keys at the start
  MaxKeys,    \* bound: API keys issued
  MaxClicks,  \* bound: uses of the tabs
  MaxRefused  \* bound: calls of the tabs that are refused or break

ASSUME DashboardAssumption ==
  /\ Projects \subseteq Nat \ {0} /\ IsFiniteSet(Projects)
  /\ Rows \subseteq Nat \ {0} /\ IsFiniteSet(Rows)
  /\ RowsOf \in [Projects -> SUBSET Rows] /\ LateRows \subseteq Rows
  /\ Issued \in Seq([project : Projects, revoked : BOOLEAN])
  /\ MaxKeys \in Nat

VARIABLES
  owner, rows, revoked, keys,  \* the server's tables
  scope,     \* ProjectProvider
  stored,    \* localStorage's selected project, 0 for none
  page,      \* the state of the tab on screen
  list,      \* its list
  listed,    \* ghost: what that list was asked for
  calls,     \* outstanding calls of the dashboard
  palette,   \* the command palette: open, query, selected index
  rail,      \* the sidebar is collapsed, on screen and in localStorage
  drawer,    \* the mobile menu is open
  theme,     \* stored, applied to the document, shown by the toggle, the OS's
  clicks, refused,
  broken     \* ghost: a connection broke under some call

server == <<owner, rows, revoked, keys>>
scopeVars == <<scope, stored>>
pageVars == <<page, list, listed, calls>>
shell == <<palette, rail, drawer, theme>>
budget == <<clicks, refused, broken>>

(***************************************************************************)
(* A call and how much of what awaits it is left: "here", all of it;       *)
(* "page", the tab but not the row of it that made the call; "gone".       *)
(***************************************************************************)
AskAs(who, op, arg, tok) ==
  [op |-> op, arg |-> arg, tok |-> tok, as |-> who, live |-> "here", then |-> "none"]
Ask(op, arg, tok) == AskAs(Acting, op, arg, tok)

Writes == {"revoke", "createProject", "createKey", "revokeKey"}

(***************************************************************************)
(* The calls whose operation is one of ops, in their order.                *)
(***************************************************************************)
Only(ops, some) ==
  LET at   == {i \in DOMAIN some : some[i].op \in ops}
      size == Cardinality(at)
  IN  [n \in 1 .. size |-> some[Place(size + 1 - n, at)]]

\* Wrong variant: an effect's clean-up does not clear its flag.
CancelNothing(ops, some) == some

(***************************************************************************)
(* An effect's clean-up, `active = false`: the answer finds nobody.        *)
(***************************************************************************)
Cancel(ops, some) == Only({some[i].op : i \in DOMAIN some} \ ops, some)

(***************************************************************************)
(* The tab is gone: its reads find nobody, its writes still take effect.   *)
(***************************************************************************)
Abandon(some) ==
  LET left == Only(Writes, some)
  IN  [i \in DOMAIN left |-> [left[i] EXCEPT !.live = "gone"]]

Awaiting(ops) == {i \in DOMAIN calls : calls[i].op \in ops /\ calls[i].live # "gone"}

(***************************************************************************)
(* A use of the console, and one of the tab: the palette covers the tab.   *)
(***************************************************************************)
Click == clicks < MaxClicks /\ clicks' = clicks + 1 /\ UNCHANGED <<refused, broken>>
Use == ~palette.open /\ Click /\ UNCHANGED shell

\* An answer comes in; "error" is one the server sends, "break" the network.
Hows == {"ok", "error", "break"}
Comes(how) ==
  /\ UNCHANGED <<clicks, shell>>
  /\ IF how = "ok" THEN UNCHANGED <<refused, broken>>
     ELSE /\ refused < MaxRefused /\ refused' = refused + 1
          /\ broken' = (broken \/ how = "break")

(***************************************************************************)
(* A write that is answered took effect; one whose connection broke may.   *)
(***************************************************************************)
Effect(how, Happened, table) ==
  \/ how # "error" /\ Happened
  \/ how # "ok" /\ UNCHANGED table

ProjectsOf(who) == {p \in Projects : owner[p] = who}
RowsIn(p) == rows \cap RowsOf[p]

(***************************************************************************)
(* What the server lists for an account: its projects, or the rows of one  *)
(* project, of all of its projects when none is named.                     *)
(***************************************************************************)
ListPages == {"activity", "delegations", "sessions", "receipts", "projects"}
Listable(where, who, p) ==
  IF where = "projects" THEN ProjectsOf(who)
  ELSE UNION {RowsIn(q) : q \in {q \in ProjectsOf(who) : p \in {0, q}}}

(***************************************************************************)
(* ProjectProvider: loading, the projects, the selected one, or an error.  *)
(***************************************************************************)
NoScope == [loading |-> FALSE, projects |-> {}, selected |-> 0, error |-> FALSE]
NewScope == [NoScope EXCEPT !.loading = TRUE]
Highest(some) == IF some = {} THEN 0 ELSE Max(some)

\* Wrong variant: the project stored last is selected without a look.
SelectStored(some) == stored

(***************************************************************************)
(* The stored project if the account still has it, its first otherwise.    *)
(***************************************************************************)
SelectFirst(some) == IF stored \in some THEN stored ELSE Highest(some)

(***************************************************************************)
(* The effect every list page but Projects has on [project?.id], and the   *)
(* one of Projects on mount: refresh, which asks for the first page.       *)
(***************************************************************************)
ListCall(p, tok, then) == [Ask("list", p, tok) EXCEPT !.then = then]
Overlaps(some) == \E i \in DOMAIN some : some[i].op = "list"
Unlisted == [clean |-> TRUE, base |-> {}, of |-> 0]

RefreshList(from, p, then, before) ==
  /\ list' = Refresh(from)
  /\ listed' = [clean |-> ~Overlaps(before), base |-> {}, of |-> p]
  /\ calls' = Append(before, ListCall(p, 0, then))

(***************************************************************************)
(* The fetcher of Projects names no project.                               *)
(***************************************************************************)
ListScope(where, p) == IF where = "projects" THEN 0 ELSE p

(***************************************************************************)
(* Somebody's agents record while the console is open.                     *)
(***************************************************************************)
Recorded ==
  /\ \E r \in LateRows \ rows : rows' = rows \cup {r}
  /\ UNCHANGED <<authVars, owner, revoked, keys, scopeVars, pageVars, shell, budget>>
=============================================================================
