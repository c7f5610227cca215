------------------------- MODULE ConsoleTabsProofs -------------------------
(***************************************************************************)
(* Proofs about the tabs of the console: what they show is of the row, the *)
(* project, the question and the account it is shown for, and what waits   *)
(* has a call.  The steps of the lists, of mounting and of Projects keep   *)
(* the invariant of ConsoleProofs; then all of them do; then, whose rows   *)
(* the lists show and that they are those of their scope; and last, that   *)
(* the keys of a row follow the server's.                                  *)
(***************************************************************************)
EXTENDS ConsoleProofs

-----------------------------------------------------------------------------
(***************************************************************************)
(* The list that tabs show.                                                *)
(***************************************************************************)
LEMMA SomeNumbers ==
  ASSUME NEW some, some \subseteq Projects \/ some \subseteq Rows
  PROVE  Numbers(some) /\ IsFiniteSet(some) /\ \A r \in some : r \in Nat /\ r # 0
  <1>1. /\ Projects \subseteq Nat \ {0} /\ IsFiniteSet(Projects)
        /\ Rows \subseteq Nat \ {0} /\ IsFiniteSet(Rows)
    BY DashboardAssumption
  <1>2. IsFiniteSet(some)
    BY <1>1, FS_Subset
  <1>3. ASSUME NEW r \in some PROVE r \in Nat /\ r # 0 /\ r \in Int
    <2>1. r \in Projects \/ r \in Rows
      OBVIOUS
    <2>2. r \in Nat \ {0}
      <3>1. \A S : S \subseteq Nat \ {0} /\ r \in S => r \in Nat \ {0}
        OBVIOUS
      <3>. QED
        BY <1>1, <2>1, <3>1, Zenon
    <2>. QED
      BY <2>2
  <1>4. some \subseteq Int
    BY <1>3
  <1>. QED
    BY <1>2, <1>3, <1>4 DEF Numbers

(***************************************************************************)
(* A page of a listing: rows of it, and a token that is one of them or 0.  *)
(***************************************************************************)
LEMMA ListingRows ==
  ASSUME NEW some, some \subseteq Projects \/ some \subseteq Rows, NEW tok
  PROVE  /\ Listing(some, tok).items \in Seq(some)
         /\ Listing(some, tok).next \in {0} \cup some
  <1>. DEFINE left == {r \in some : tok = 0 \/ r < tok}
              size == Cardinality(left)
              len == IF size < PageSize THEN size ELSE PageSize
              items == [n \in 1 .. len |-> Place(n, left)]
  <1>0. left \subseteq some
    OBVIOUS
  <1>1. /\ Listing(some, tok).items = items
        /\ Listing(some, tok).next = IF size > PageSize THEN Place(PageSize, left) ELSE 0
    BY DEF Listing
  <1>. HIDE DEF left
  <1>2. Numbers(left)
    BY <1>0, SomeNumbers
  <1>3. size \in Nat /\ \A n \in 1 .. size : Place(n, left) \in left
    BY <1>2, PlaceOf
  <1>. HIDE DEF size
  <1>4. PageSize \in Nat \ {0}
    BY PageSizeAssumption
  <1>5. len \in Nat /\ \A n \in 1 .. len : n \in 1 .. size
    BY <1>3, <1>4
  <1>6. items \in [1 .. len -> some]
    BY <1>0, <1>3, <1>5
  <1>7. items \in Seq(some)
    BY <1>5, <1>6, SeqDef
  <1>8. size > PageSize => Place(PageSize, left) \in some
    BY <1>0, <1>3, <1>4
  <1>. HIDE DEF items
  <1>. QED
    BY <1>1, <1>7, <1>8

LEMMA ListableFits ==
  ASSUME NEW where, NEW who, NEW p
  PROVE  Listable(where, who, p) \subseteq RowsOfTab(where)
  <1>1. RowsOf \in [Projects -> SUBSET Rows]
    BY DashboardAssumption
  <1>. QED
    BY <1>1 DEF Listable, RowsOfTab, ProjectsOf, RowsIn

LEMMA NewListFits ==
  ASSUME NEW where
  PROVE  /\ ListFits(NewList, where) /\ ListFits(Refresh(NewList), where)
         /\ ~NewList.loading
  <1>1. <<>> \in Seq(Nat) /\ ToSet(<<>>) = {}
    BY EmptySeq DEF ToSet
  <1>2. /\ NewList \in ListRecord /\ NewList.items = <<>> /\ ~NewList.loading
        /\ Refresh(NewList) \in ListRecord /\ Refresh(NewList).items = <<>>
    BY <1>1 DEF ListRecord, NewList, Refresh, FetchPage, Reset
  <1>. QED
    BY <1>1, <1>2 DEF ListFits

LEMMA RefreshFits ==
  ASSUME NEW pages, NEW where, ListFits(pages, where)
  PROVE  ListFits(Refresh(pages), where)
  <1>1. <<>> \in Seq(Nat) /\ ToSet(<<>>) = {}
    BY EmptySeq DEF ToSet
  <1>2. Refresh(pages) \in ListRecord /\ Refresh(pages).items = <<>>
    BY <1>1 DEF ListFits, ListRecord, Refresh, FetchPage, Reset
  <1>. QED
    BY <1>1, <1>2 DEF ListFits

LEMMA LoadMoreFits ==
  ASSUME NEW pages, NEW where, ListFits(pages, where)
  PROVE  ListFits(LoadMore(pages), where)
  BY DEF ListFits, ListRecord, LoadMore, FetchPage

LEMMA FailedFits ==
  ASSUME NEW pages, NEW where, ListFits(pages, where)
  PROVE  ListFits(PageFailed(pages), where) /\ ~PageFailed(pages).loading
  BY DEF ListFits, ListRecord, PageFailed

LEMMA ArrivedFits ==
  ASSUME NEW pages, NEW where, NEW some, NEW tok, ListFits(pages, where),
         some \subseteq RowsOfTab(where)
  PROVE  /\ ListFits(PageArrived(pages, tok, Listing(some, tok)), where)
         /\ ~PageArrived(pages, tok, Listing(some, tok)).loading
  <1>. DEFINE new == Listing(some, tok)
              S == RowsOfTab(where)
              after == PageArrived(pages, tok, new)
  <1>1. some \subseteq Projects \/ some \subseteq Rows
    BY DEF RowsOfTab
  <1>2. new.items \in Seq(some) /\ new.next \in {0} \cup some
    BY <1>1, ListingRows
  <1>3. \A r \in some : r \in Nat
    BY <1>1, SomeNumbers
  <1>4. pages \in ListRecord /\ pages.items \in Seq(Nat) /\ ToSet(pages.items) \subseteq S
    BY DEF ListFits, ListRecord
  <1>. HIDE DEF new
  <1>5. new.items \in Seq(Nat) /\ ToSet(new.items) \subseteq some
    <2>1. \A n \in DOMAIN new.items : new.items[n] \in some
      BY <1>2, LenProperties, ElementOfSeq
    <2>2. new.items \in Seq(Nat)
      BY <1>2, <1>3, SeqMonotonic
    <2>. QED
      BY <2>1, <2>2 DEF ToSet
  <1>. DEFINE all == IF tok = 0 THEN new.items ELSE pages.items \o new.items
  <1>6. all \in Seq(Nat) /\ ToSet(all) \subseteq S
    <2>1. CASE tok = 0
      BY <1>5, <2>1
    <2>2. CASE tok # 0
      <3>. DEFINE s == pages.items
                  t == new.items
      <3>. HIDE DEF s, t
      <3>0. s \in Seq(Nat) /\ t \in Seq(Nat) /\ ToSet(s) \subseteq S /\ ToSet(t) \subseteq S
        BY <1>4, <1>5 DEF s, t
      <3>1. /\ s \o t \in Seq(Nat) /\ Len(s \o t) = Len(s) + Len(t)
            /\ \A i \in 1 .. Len(s) + Len(t) :
                 (s \o t)[i] = IF i <= Len(s) THEN s[i] ELSE t[i - Len(s)]
        BY <3>0, ConcatProperties
      <3>2. /\ Len(s) \in Nat /\ DOMAIN s = 1 .. Len(s)
            /\ Len(t) \in Nat /\ DOMAIN t = 1 .. Len(t)
            /\ DOMAIN (s \o t) = 1 .. Len(s) + Len(t)
        BY <3>0, <3>1, LenProperties
      <3>3. \A i \in DOMAIN (s \o t) : (s \o t)[i] \in S
        <4>. TAKE i \in DOMAIN (s \o t)
        <4>1. CASE i <= Len(s)
          <5>1. i \in DOMAIN s
            BY <3>2, <4>1
          <5>. QED
            BY <3>0, <3>1, <3>2, <4>1, <5>1, InSet
        <4>2. CASE ~(i <= Len(s))
          <5>1. i - Len(s) \in DOMAIN t
            BY <3>2, <4>2
          <5>. QED
            BY <3>0, <3>1, <3>2, <4>2, <5>1, InSet
        <4>. QED
          BY <4>1, <4>2
      <3>4. ToSet(s \o t) \subseteq S
        BY <3>3 DEF ToSet
      <3>. QED
        BY <2>2, <3>1, <3>4 DEF s, t
    <2>. QED
      BY <2>1, <2>2
  <1>7. after = [pages EXCEPT !.items = all, !.next = new.next, !.loaded = TRUE,
                              !.loading = FALSE]
    BY DEF PageArrived
  <1>8. new.next \in Nat
    BY <1>2, <1>3
  <1>. HIDE DEF all, S
  <1>9. after \in ListRecord /\ after.items = all /\ after.loaded /\ ~after.loading
    BY <1>4, <1>6, <1>7, <1>8 DEF ListRecord
  <1>. HIDE DEF after
  <1>10. ListFits(after, where)
    BY <1>6, <1>9 DEF ListFits, S
  <1>. QED
    BY <1>9, <1>10 DEF after, new

(***************************************************************************)
(* The calls that lists make.                                              *)
(***************************************************************************)
LEMMA ListCallIs ==
  ASSUME AuthTypeOK, NEW p \in Nat, NEW tok \in Nat, NEW where \in ListPages,
         NEW then \in {"none", "created"}
  PROVE  /\ CallFits(ListCall(p, tok, then), where)
         /\ ListCall(p, tok, then).op = "list" /\ ListCall(p, tok, then).live = "here"
         /\ ListCall(p, tok, then).then = then
  <1>1. /\ Ask("list", p, tok) \in CallRecord
        /\ Ask("list", p, tok).op = "list" /\ Ask("list", p, tok).live = "here"
    BY AskIs DEF CallOps
  <1>2. /\ ListCall(p, tok, then) \in CallRecord
        /\ ListCall(p, tok, then).op = "list" /\ ListCall(p, tok, then).live = "here"
        /\ ListCall(p, tok, then).then = then
    BY <1>1 DEF ListCall, CallRecord
  <1>3. "list" \in OpsOf(where) /\ "list" \notin RowOps
    BY DEF OpsOf, ListPages, RowOps
  <1>. QED
    BY <1>2, <1>3 DEF CallFits

-----------------------------------------------------------------------------
(***************************************************************************)
(* Steps that are none of the tab's own: its invariant is kept if the      *)
(* calls it waits for are, and the tables only grow.                       *)
(***************************************************************************)
SameWaits(some, next) ==
  \A ops : "list" \notin ops /\ "projects" \notin ops =>
    /\ Waits(next, ops) = Waits(some, ops)
    /\ AtMostOne(ops, some) => AtMostOne(ops, next)

LEMMA PageKept ==
  ASSUME EveryTabInv, tab' = tab, page' = page, broken' \in BOOLEAN, broken => broken',
         revoked \subseteq revoked', SameWaits(calls, calls')
  PROVE  EveryTabInv'
  <1>1. /\ Waits(calls', {"anchor"}) = Waits(calls, {"anchor"})
        /\ Waits(calls', {"replay"}) = Waits(calls, {"replay"})
        /\ Waits(calls', {"proof"}) = Waits(calls, {"proof"})
        /\ Waits(calls', {"verify"}) = Waits(calls, {"verify"})
        /\ Waits(calls', VerifyOps) = Waits(calls, VerifyOps)
        /\ Waits(calls', {"verifyGrant"}) = Waits(calls, {"verifyGrant"})
        /\ Waits(calls', {"revoke"}) = Waits(calls, {"revoke"})
        /\ Waits(calls', {"figures"}) = Waits(calls, {"figures"})
        /\ Waits(calls', {"key"}) = Waits(calls, {"key"})
        /\ AtMostOne({"proof"}, calls) => AtMostOne({"proof"}, calls')
        /\ AtMostOne(VerifyOps, calls) => AtMostOne(VerifyOps, calls')
    BY DEF SameWaits, VerifyOps
  <1>2. SessionsInv'
    BY <1>1 DEF EveryTabInv, SessionsInv
  <1>3. ActivityInv' /\ RestInv'
    BY DEF EveryTabInv, ActivityInv, RestInv
  <1>4. ReceiptsInv'
    BY <1>1 DEF EveryTabInv, ReceiptsInv
  <1>5. VerifyInv'
    BY <1>1 DEF EveryTabInv, VerifyInv
  <1>6. DelegationsInv'
    BY <1>1 DEF EveryTabInv, DelegationsInv
  <1>7. OverviewInv' /\ AnalyticsInv' /\ SettingsInv'
    BY <1>1 DEF EveryTabInv, OverviewInv, AnalyticsInv, SettingsInv
  <1>. QED
    BY <1>2, <1>3, <1>4, <1>5, <1>6, <1>7 DEF EveryTabInv

(***************************************************************************)
(* The same of the tab Projects: its rows stay, and so do their calls.     *)
(***************************************************************************)
Grows(table, next) ==
  \A k \in DOMAIN table :
    /\ k \in DOMAIN next /\ next[k].project = table[k].project
    /\ table[k].revoked => next[k].revoked

SameRowCalls(some, next) ==
  \A c : c.op \in RowOps /\ c.live = "here" => (c \in ToSet(next) <=> c \in ToSet(some))

LEMMA FilledStays ==
  ASSUME NEW p, NEW row, NEW table, NEW next, RowFilled(p, row, table), Grows(table, next)
  PROVE  RowFilled(p, row, next)
  BY DEF RowFilled, Grows

LEMMA AwaitsStay ==
  ASSUME NEW p, NEW row, NEW some, NEW next, RowAwaits(p, row, some),
         SameRowCalls(some, next)
  PROVE  RowAwaits(p, row, next)
  <1>1. \A op \in RowOps : Here(op, p, next) = Here(op, p, some)
    BY DEF Here, SameRowCalls
  <1>2. Here("keys", p, next) = Here("keys", p, some)
        /\ Here("createKey", p, next) = Here("createKey", p, some)
    BY <1>1 DEF RowOps
  <1>. QED
    BY <1>2 DEF RowAwaits

LEMMA ProjectsKept ==
  ASSUME ProjectsInv, tab' = tab, page' = page, broken' \in BOOLEAN, broken => broken',
         ProjectRows(list') = ProjectRows(list), Grows(keys, keys'),
         SameRowCalls(calls, calls'), ~broken' /\ Creates(calls) => Creates(calls')
  PROVE  ProjectsInv'
  <1>. SUFFICES ASSUME tab = "projects" PROVE ProjectsInv'
    BY DEF ProjectsInv
  <1>1. \A p \in ProjectRows(list) : RowFilled(p, page.row[p], keys')
    BY FilledStays DEF ProjectsInv
  <1>2. ~broken' => \A p \in ProjectRows(list) : RowAwaits(p, page.row[p], calls')
    BY AwaitsStay DEF ProjectsInv
  <1>3. \A c \in ToSet(calls') :
          c.op \in RowOps /\ c.live = "here" => c.arg \in ProjectRows(list)
    BY DEF ProjectsInv, SameRowCalls
  <1>. QED
    BY <1>1, <1>2, <1>3 DEF ProjectsInv

(***************************************************************************)
(* Such are the calls after one was answered that no tab waits for, or     *)
(* after the list made another.                                            *)
(***************************************************************************)
LEMMA RemoveBeside ==
  ASSUME NEW s, NEW i, NEW where, Fit(s, where), i \in DOMAIN s,
         s[i].op \in {"list", "projects"} \/ s[i].live = "gone"
  PROVE  SameWaits(s, RemoveAt(s, i)) /\ SameRowCalls(s, RemoveAt(s, i))
  <1>1. \A ops : s[i].op \notin ops \/ s[i].live = "gone"
                   => Waits(RemoveAt(s, i), ops) = Waits(s, ops)
    BY TakeOff
  <1>2. /\ ToSet(RemoveAt(s, i)) \subseteq ToSet(s)
        /\ ToSet(s) \subseteq ToSet(RemoveAt(s, i)) \cup {s[i]}
        /\ \A ops : AtMostOne(ops, s) => AtMostOne(ops, RemoveAt(s, i))
    BY RemoveSet
  <1>. DEFINE t == RemoveAt(s, i)
              c == s[i]
  <1>3. c.op \in {"list", "projects"} \/ c.live = "gone"
    OBVIOUS
  <1>. HIDE DEF t, c
  <1>4. SameWaits(s, t)
    BY <1>1, <1>2, <1>3 DEF SameWaits, t, c
  <1>5. c.op \notin RowOps \/ c.live # "here"
    BY <1>3 DEF RowOps
  <1>6. SameRowCalls(s, t)
    BY <1>2, <1>5 DEF SameRowCalls, t, c
  <1>. QED
    BY <1>4, <1>6 DEF t

LEMMA AppendBeside ==
  ASSUME NEW s, NEW c, NEW where, Fit(s, where), CallFits(c, where), c.live # "gone",
         c.op = "list"
  PROVE  SameWaits(s, Append(s, c)) /\ SameRowCalls(s, Append(s, c))
  <1>1. \A ops : c.op \notin ops => Waits(Append(s, c), ops) = Waits(s, ops)
    BY PutOn
  <1>2. /\ ToSet(Append(s, c)) = ToSet(s) \cup {c}
        /\ \A ops : AtMostOne(ops, s) /\ c.op \notin ops => AtMostOne(ops, Append(s, c))
    BY AppendSet DEF CallFits
  <1>3. SameWaits(s, Append(s, c))
    BY <1>1, <1>2 DEF SameWaits
  <1>4. SameRowCalls(s, Append(s, c))
    BY <1>2 DEF SameRowCalls, RowOps
  <1>. QED
    BY <1>3, <1>4

LEMMA BesideTwice ==
  ASSUME NEW r, NEW s, NEW t, SameWaits(r, s), SameWaits(s, t),
         SameRowCalls(r, s), SameRowCalls(s, t)
  PROVE  SameWaits(r, t) /\ SameRowCalls(r, t)
  <1>1. SameWaits(r, t)
    BY DEF SameWaits
  <1>2. SameRowCalls(r, t)
    BY DEF SameRowCalls
  <1>. QED
    BY <1>1, <1>2

QuietStep ==
  tab' = tab /\ UNCHANGED <<server, scope, stored, page, list, calls, broken>>

LEMMA QuietKept == TabsInv /\ QuietStep => TabsInv'
  <1>. SUFFICES ASSUME TabsInv, QuietStep PROVE TabsInv'
    OBVIOUS
  <1>0. tab' = tab /\ UNCHANGED <<server, scope, stored, page, list, calls, broken>>
    BY DEF QuietStep
  <1>1. SharedInv'
    BY <1>0 DEF TabsInv, SharedInv, CallsInv, ServerInv, ListInv, ScopeInv, server
  <1>2. SameWaits(calls, calls') /\ SameRowCalls(calls, calls')
    BY <1>0 DEF SameWaits, SameRowCalls
  <1>3. broken \in BOOLEAN /\ broken' = broken
    BY <1>0 DEF TabsInv, SharedInv, ScopeInv
  <1>4. revoked' = revoked /\ keys' = keys /\ Grows(keys, keys')
    BY <1>0 DEF Grows, server
  <1>5. EveryTabInv'
    BY <1>0, <1>2, <1>3, <1>4, PageKept DEF TabsInv
  <1>6. ProjectsInv'
    BY <1>0, <1>2, <1>3, <1>4, ProjectsKept DEF TabsInv
  <1>. QED
    BY <1>1, <1>5, <1>6 DEF TabsInv

-----------------------------------------------------------------------------
(***************************************************************************)
(* The steps of the provider and of the list.                              *)
(***************************************************************************)
LEMMA SelectFirstFits ==
  ASSUME NEW some, some \subseteq Projects
  PROVE  SelectFirst(some) \in {0} \cup Projects
  <1>1. Numbers(some)
    BY SomeNumbers
  <1>2. some # {} => Max(some) \in some
    BY <1>1, MaxOf
  <1>. QED
    BY <1>2 DEF SelectFirst, Highest

LEMMA ScopeNumbers == \A p \in {0} \cup Projects : p \in Nat
  BY DashboardAssumption

LEMMA RescopeKeeps ==
  ASSUME SharedInv, AuthTypeOK, tab' = tab, NEW p \in {0} \cup Projects, NEW before,
         Fit(before, tab), Waits(before, {"list"}) = Waits(calls, {"list"}),
         Rescope(p, before)
  PROVE  /\ Fit(calls', tab) /\ ListInv' /\ page' = page
         /\ SameWaits(before, calls') /\ SameRowCalls(before, calls')
         /\ Waits(before, {"projects"}) = Waits(calls', {"projects"})
         /\ tab = "projects" => calls' = before /\ list' = list
  <1>1. CASE p # scope.selected /\ tab \in ListPages \ {"projects"}
    <2>. DEFINE c == ListCall(p, 0, "none")
    <2>1. list' = Refresh(list) /\ calls' = Append(before, c) /\ page' = page
      BY <1>1 DEF Rescope, RefreshList
    <2>2. CallFits(c, tab) /\ c.op = "list" /\ c.live = "here"
      BY <1>1, ListCallIs, ScopeNumbers
    <2>. HIDE DEF c
    <2>3. /\ Fit(Append(before, c), tab)
          /\ Waits(Append(before, c), {"list"}) = Waits(before, {"list"}) \cup {c}
          /\ Waits(Append(before, c), {"projects"}) = Waits(before, {"projects"})
      BY <2>2, PutOn
    <2>4. SameWaits(before, Append(before, c)) /\ SameRowCalls(before, Append(before, c))
      BY <2>2, AppendBeside
    <2>5. ListFits(Refresh(list), tab)
      BY RefreshFits DEF SharedInv, ListInv
    <2>6. ListInv'
      BY <2>1, <2>3, <2>5 DEF ListInv
    <2>. QED
      BY <1>1, <2>1, <2>3, <2>4, <2>6
  <1>2. CASE ~(p # scope.selected /\ tab \in ListPages \ {"projects"})
    <2>1. calls' = before /\ page' = page /\ list' = list
      BY <1>2 DEF Rescope
    <2>2. ListInv'
      BY <2>1 DEF SharedInv, ListInv
    <2>3. SameWaits(before, before) /\ SameRowCalls(before, before)
      BY DEF SameWaits, SameRowCalls
    <2>. QED
      BY <2>1, <2>2, <2>3
  <1>. QED
    BY <1>1, <1>2

LEMMA TabsOfShared ==
  ASSUME TabsInv, SharedInv', tab' = tab, page' = page, broken => broken',
         revoked \subseteq revoked', Grows(keys, keys'),
         SameWaits(calls, calls'), SameRowCalls(calls, calls'),
         tab = "projects" =>
           /\ ProjectRows(list') = ProjectRows(list)
           /\ ~broken' /\ Creates(calls) => Creates(calls')
  PROVE  TabsInv'
  <1>1. broken' \in BOOLEAN
    BY DEF SharedInv, ScopeInv
  <1>2. EveryTabInv'
    BY <1>1, PageKept DEF TabsInv
  <1>3. ProjectsInv'
    <2>1. CASE tab = "projects"
      BY <1>1, <2>1, ProjectsKept DEF TabsInv
    <2>2. CASE tab # "projects"
      BY <2>2 DEF ProjectsInv
    <2>. QED
      BY <2>1, <2>2
  <1>. QED
    BY <1>2, <1>3 DEF TabsInv

LEMMA ProjectSelected ==
  ASSUME TabsInv, AuthTypeOK, NEW p \in Projects, SelectProject(p)
  PROVE  TabsInv'
  <1>1. /\ scope' = [scope EXCEPT !.selected = p] /\ stored' = p
        /\ Rescope(p, calls) /\ UNCHANGED server /\ broken' = broken /\ tab' = tab
    BY UseKeepsBroken, OnTab DEF SelectProject
  <1>2. SharedInv /\ Fit(calls, tab)
    BY DEF TabsInv, SharedInv, CallsInv
  <1>3. /\ Fit(calls', tab) /\ ListInv' /\ page' = page
        /\ SameWaits(calls, calls') /\ SameRowCalls(calls, calls')
        /\ Waits(calls, {"projects"}) = Waits(calls', {"projects"})
        /\ tab = "projects" => calls' = calls /\ list' = list
    BY <1>1, <1>2, RescopeKeeps
  <1>4. ScopeInv'
    BY <1>1, <1>2, <1>3 DEF SharedInv, ScopeInv
  <1>5. ServerInv' /\ CallsInv'
    BY <1>1, <1>2, <1>3, ServerKept DEF SharedInv, CallsInv
  <1>6. SharedInv'
    BY <1>3, <1>4, <1>5 DEF SharedInv
  <1>7. revoked' = revoked /\ Grows(keys, keys')
    BY <1>1 DEF server, Grows
  <1>. QED
    BY <1>1, <1>3, <1>6, <1>7, TabsOfShared

LEMMA ScopeSettled ==
  ASSUME TabsInv, AuthTypeOK, NEW i \in DOMAIN calls, NEW how \in Hows,
         ScopeAnswered(i, how)
  PROVE  TabsInv'
  <1>. DEFINE c == calls[i]
              left == RemoveAt(calls, i)
              found == ProjectsOf(c.as)
              first == SelectFirst(found)
              scopeNow == [scope EXCEPT !.loading = FALSE, !.projects = found,
                                        !.selected = first]
              scopeFailed == [scope EXCEPT !.loading = @ /\ how = "break",
                                           !.error = (how = "error")]
  <1>1. /\ c.op = "projects" /\ Comes(how) /\ UNCHANGED <<server, stored>> /\ tab' = tab
        /\ \/ how = "ok" /\ scope' = scopeNow /\ Rescope(first, left)
           \/ how # "ok" /\ scope' = scopeFailed /\ Rescope(scope.selected, left)
    BY OnTab DEF ScopeAnswered
  <1>2. SharedInv /\ Fit(calls, tab) /\ broken \in BOOLEAN
        /\ scope \in [loading : BOOLEAN, projects : SUBSET Projects,
                      selected : {0} \cup Projects, error : BOOLEAN]
    BY DEF TabsInv, SharedInv, CallsInv, ScopeInv
  <1>3. broken' \in BOOLEAN /\ (broken => broken') /\ (how = "break" => broken')
    BY <1>1, <1>2, BrokenStays
  <1>4. found \subseteq Projects
    BY DEF ProjectsOf
  <1>5. first \in {0} \cup Projects
    <2>. HIDE DEF found
    <2>. QED
      BY <1>4, SelectFirstFits
  <1>6. /\ Fit(left, tab) /\ Waits(left, {"list"}) = Waits(calls, {"list"})
        /\ SameWaits(calls, left) /\ SameRowCalls(calls, left)
        /\ Waits(left, {"createProject"}) = Waits(calls, {"createProject"})
    <2>. HIDE DEF first, found
    <2>1. /\ Fit(left, tab)
          /\ \A ops : c.op \notin ops => Waits(left, ops) = Waits(calls, ops)
      BY <1>2, TakeOff
    <2>2. SameWaits(calls, left) /\ SameRowCalls(calls, left)
      BY <1>1, <1>2, RemoveBeside
    <2>. HIDE DEF left, c
    <2>. QED
      BY <1>1, <2>1, <2>2
  <1>. HIDE DEF left, first, found, c
  <1>7. PICK p \in {0} \cup Projects : Rescope(p, left)
    BY <1>1, <1>2, <1>5
  <1>8. /\ Fit(calls', tab) /\ ListInv' /\ page' = page
        /\ SameWaits(left, calls') /\ SameRowCalls(left, calls')
        /\ tab = "projects" => calls' = left /\ list' = list
    BY <1>1, <1>2, <1>6, <1>7, RescopeKeeps
  <1>9. /\ scope' \in [loading : BOOLEAN, projects : SUBSET Projects,
                       selected : {0} \cup Projects, error : BOOLEAN]
        /\ ~broken' => ~scope'.loading
    <2>1. CASE how = "ok"
      BY <1>1, <1>2, <1>4, <1>5, <2>1
    <2>2. CASE how # "ok"
      BY <1>1, <1>2, <1>3, <2>2
    <2>. QED
      BY <2>1, <2>2
  <1>10. ScopeInv'
    BY <1>1, <1>2, <1>3, <1>9 DEF SharedInv, ScopeInv
  <1>11. ServerInv' /\ CallsInv'
    BY <1>1, <1>2, <1>8, ServerKept DEF SharedInv, CallsInv
  <1>12. SharedInv'
    BY <1>8, <1>10, <1>11 DEF SharedInv
  <1>13. revoked' = revoked /\ Grows(keys, keys')
    BY <1>1 DEF server, Grows
  <1>14. SameWaits(calls, calls') /\ SameRowCalls(calls, calls')
    BY <1>6, <1>8, BesideTwice
  <1>15. tab = "projects" => (Creates(calls) => Creates(calls'))
    BY <1>6, <1>8 DEF Creates
  <1>. QED
    BY <1>1, <1>3, <1>8, <1>12, <1>13, <1>14, <1>15, TabsOfShared

LEMMA MoreAsked ==
  ASSUME TabsInv, AuthTypeOK, LoadMoreRows
  PROVE  TabsInv'
  <1>. DEFINE p == ListScope(tab, scope.selected)
              c == Ask("list", p, list.next)
  <1>1. /\ list' = LoadMore(list) /\ calls' = Append(calls, c)
        /\ UNCHANGED <<server, scope, stored, page>> /\ broken' = broken /\ tab' = tab
    BY UseKeepsBroken, OnTab DEF LoadMoreRows, scopeVars
  <1>2. SharedInv /\ Fit(calls, tab) /\ ListFits(list, tab) /\ broken \in BOOLEAN
    BY DEF TabsInv, SharedInv, CallsInv, ListInv, ScopeInv
  <1>3. tab \in ListPages
    BY DEF LoadMoreRows, RowsOnScreen, ListPages
  <1>4. p \in Nat /\ list.next \in Nat
    BY <1>2, ScopeNumbers DEF SharedInv, ScopeInv, ListScope, ListFits, ListRecord
  <1>5. CallFits(c, tab) /\ c.op = "list" /\ c.live = "here"
    <2>. HIDE DEF p
    <2>1. "list" \in OpsOf(tab) /\ "list" \in CallOps /\ "list" \notin RowOps
      BY <1>3 DEF ListPages, OpsOf, CallOps, RowOps
    <2>. QED
      BY <1>4, <2>1, AskIs, AskFits
  <1>. HIDE DEF c, p
  <1>6. /\ Fit(Append(calls, c), tab)
        /\ \A ops : c.op \in ops => Waits(Append(calls, c), ops) = Waits(calls, ops) \cup {c}
        /\ \A ops : c.op \notin ops => Waits(Append(calls, c), ops) = Waits(calls, ops)
    BY <1>2, <1>5, PutOn
  <1>7. SameWaits(calls, Append(calls, c)) /\ SameRowCalls(calls, Append(calls, c))
    BY <1>2, <1>5, AppendBeside
  <1>8. /\ Waits(calls', {"list"}) = Waits(calls, {"list"}) \cup {c}
        /\ Waits(calls', {"projects"}) = Waits(calls, {"projects"})
        /\ Waits(calls', {"createProject"}) = Waits(calls, {"createProject"})
    BY <1>1, <1>5, <1>6
  <1>9. ListInv'
    BY <1>1, <1>2, <1>8, LoadMoreFits DEF ListInv
  <1>10. ScopeInv'
    BY <1>1, <1>2, <1>8 DEF SharedInv, ScopeInv
  <1>11. ServerInv' /\ CallsInv'
    BY <1>1, <1>2, <1>6, ServerKept DEF SharedInv, CallsInv
  <1>12. SharedInv'
    BY <1>9, <1>10, <1>11 DEF SharedInv
  <1>13. Creates(calls) => Creates(calls')
    BY <1>8 DEF Creates
  <1>14. ProjectRows(list') = ProjectRows(list)
    <2>1. list \in ListRecord /\ (list.items # <<>> => list.loaded)
      BY <1>2 DEF ListFits
    <2>2. /\ LoadMore(list).items = list.items /\ LoadMore(list).loaded = list.loaded
          /\ LoadMore(list).loading
      BY <2>1 DEF LoadMore, FetchPage, ListRecord
    <2>3. ToSet(<<>>) = {}
      BY DEF ToSet
    <2>. QED
      BY <1>1, <2>1, <2>2, <2>3 DEF ProjectRows
  <1>15. revoked' = revoked /\ Grows(keys, keys')
    BY <1>1 DEF server, Grows
  <1>. QED
    BY <1>1, <1>7, <1>12, <1>13, <1>14, <1>15, TabsOfShared

LEMMA RowRecorded ==
  ASSUME TabsInv, Recorded
  PROVE  TabsInv'
  <1>1. /\ UNCHANGED <<owner, revoked, keys, scope, stored, page, list, calls, broken>>
        /\ rows' \subseteq rows \cup LateRows /\ tab' = tab
    BY OnTab DEF Recorded, scopeVars, pageVars, budget
  <1>2. LateRows \subseteq Rows
    BY DashboardAssumption
  <1>3. SharedInv'
    BY <1>1, <1>2 DEF TabsInv, SharedInv, CallsInv, ServerInv, ListInv, ScopeInv
  <1>4. /\ SameWaits(calls, calls') /\ SameRowCalls(calls, calls')
        /\ Grows(keys, keys')
    BY <1>1 DEF SameWaits, SameRowCalls, Grows
  <1>. QED
    BY <1>1, <1>3, <1>4, TabsOfShared

\* On every tab but Projects, whose rows change with its list.
LEMMA RowsArrived ==
  ASSUME TabsInv, NEW i \in DOMAIN calls, NEW how \in Hows, ListAnswered(i, how),
         tab # "projects"
  PROVE  TabsInv'
  <1>. DEFINE c == calls[i]
              left == RemoveAt(calls, i)
              from == Listable(tab, c.as, c.arg)
              after == IF how = "ok" THEN PageArrived(list, c.tok, Listing(from, c.tok))
                       ELSE PageFailed(list)
  <1>1. /\ c.op = "list" /\ Comes(how) /\ list' = after /\ page' = page /\ calls' = left
        /\ UNCHANGED <<server, scope, stored>> /\ tab' = tab
    BY OnTab DEF ListAnswered, scopeVars
  <1>2. SharedInv /\ Fit(calls, tab) /\ ListFits(list, tab) /\ broken \in BOOLEAN
    BY DEF TabsInv, SharedInv, CallsInv, ListInv, ScopeInv
  <1>3. broken' \in BOOLEAN /\ (broken => broken')
    BY <1>1, <1>2, BrokenStays
  <1>4. ListFits(after, tab) /\ ~after.loading
    <2>1. from \subseteq RowsOfTab(tab)
      BY ListableFits
    <2>. HIDE DEF from, c
    <2>. QED
      BY <1>2, <2>1, ArrivedFits, FailedFits
  <1>. HIDE DEF after, from
  <1>5. /\ Fit(left, tab)
        /\ \A ops : c.op \notin ops => Waits(left, ops) = Waits(calls, ops)
    BY <1>2, TakeOff
  <1>6. SameWaits(calls, left) /\ SameRowCalls(calls, left)
    BY <1>1, <1>2, RemoveBeside
  <1>. HIDE DEF left, c
  <1>7. Waits(calls', {"projects"}) = Waits(calls, {"projects"})
    BY <1>1, <1>5
  <1>8. ListInv'
    BY <1>1, <1>4 DEF ListInv
  <1>9. ScopeInv'
    BY <1>1, <1>2, <1>3, <1>7 DEF SharedInv, ScopeInv
  <1>10. ServerInv' /\ CallsInv'
    BY <1>1, <1>2, <1>5, ServerKept DEF SharedInv, CallsInv
  <1>11. SharedInv'
    BY <1>8, <1>9, <1>10 DEF SharedInv
  <1>12. revoked' = revoked /\ Grows(keys, keys')
    BY <1>1 DEF server, Grows
  <1>. QED
    BY <1>1, <1>3, <1>6, <1>11, <1>12, TabsOfShared

-----------------------------------------------------------------------------
(***************************************************************************)
(* The tables: what a write that took effect does to them.                 *)
(***************************************************************************)
LEMMA RevokeTakes ==
  ASSUME ServerInv, NEW how, NEW r \in Rows, UNCHANGED <<owner, rows, keys>>,
         Effect(how, revoked' = revoked \cup {r}, revoked)
  PROVE  ServerInv' /\ revoked \subseteq revoked' /\ Grows(keys, keys')
  BY DEF Effect, ServerInv, Grows

LEMMA ProjectTakes ==
  ASSUME ServerInv, NEW how, NEW who \in Persons, UNCHANGED <<rows, revoked, keys>>,
         Effect(how, \E p \in ProjectsOf(None) : owner' = [owner EXCEPT ![p] = who], owner)
  PROVE  ServerInv' /\ revoked \subseteq revoked' /\ Grows(keys, keys')
  BY DEF Effect, ServerInv, Grows, ProjectsOf

LEMMA KeyTakes ==
  ASSUME ServerInv, NEW how, NEW p \in Projects, UNCHANGED <<owner, rows, revoked>>,
         Effect(how, keys' = Append(keys, [project |-> p, revoked |-> FALSE]), keys)
  PROVE  ServerInv' /\ revoked \subseteq revoked' /\ Grows(keys, keys')
  <1>. DEFINE k == [project |-> p, revoked |-> FALSE]
              KeyRecord == [project : Projects, revoked : BOOLEAN]
  <1>1. k \in KeyRecord /\ keys \in Seq(KeyRecord)
    BY DEF ServerInv
  <1>2. keys' = Append(keys, k) \/ keys' = keys
    BY DEF Effect
  <1>. HIDE DEF k, KeyRecord
  <1>3. /\ Append(keys, k) \in Seq(KeyRecord)
        /\ DOMAIN keys = 1 .. Len(keys)
        /\ \A n \in DOMAIN keys : n \in DOMAIN Append(keys, k) /\ Append(keys, k)[n] = keys[n]
    BY <1>1, AppendProperties, LenProperties
  <1>4. keys' \in Seq(KeyRecord) /\ Grows(keys, keys')
    BY <1>1, <1>2, <1>3 DEF Grows
  <1>. QED
    BY <1>4 DEF ServerInv, KeyRecord

LEMMA KeyRevokeTakes ==
  ASSUME ServerInv, NEW how, NEW n, UNCHANGED <<owner, rows, revoked>>,
         Effect(how, keys' = [keys EXCEPT ![n].revoked = TRUE], keys)
  PROVE  ServerInv' /\ revoked \subseteq revoked' /\ Grows(keys, keys')
  <1>. DEFINE KeyRecord == [project : Projects, revoked : BOOLEAN]
              next == [keys EXCEPT ![n].revoked = TRUE]
  <1>1. keys \in Seq(KeyRecord)
    BY DEF ServerInv
  <1>2. keys' = next \/ keys' = keys
    BY DEF Effect
  <1>3. /\ Len(keys) \in Nat /\ DOMAIN keys = 1 .. Len(keys)
        /\ \A m \in DOMAIN keys : keys[m] \in KeyRecord
    BY <1>1, ElementOfSeq, LenProperties
  <1>4. \A k \in KeyRecord : /\ [k EXCEPT !.revoked = TRUE] \in KeyRecord
                             /\ [k EXCEPT !.revoked = TRUE].project = k.project
                             /\ [k EXCEPT !.revoked = TRUE].revoked
    OBVIOUS
  <1>5. /\ DOMAIN next = DOMAIN keys
        /\ \A m \in DOMAIN keys :
             next[m] = keys[m] \/ next[m] = [keys[m] EXCEPT !.revoked = TRUE]
    OBVIOUS
  <1>6. next = [m \in 1 .. Len(keys) |-> next[m]]
    BY <1>3
  <1>. HIDE DEF next, KeyRecord
  <1>7. /\ \A m \in DOMAIN keys : next[m] \in KeyRecord
        /\ Grows(keys, next)
    <2>1. ASSUME NEW m \in DOMAIN keys
          PROVE  /\ next[m] \in KeyRecord
                 /\ next[m].project = keys[m].project
                 /\ keys[m].revoked => next[m].revoked
      <3>1. /\ keys[m] \in KeyRecord
            /\ next[m] = keys[m] \/ next[m] = [keys[m] EXCEPT !.revoked = TRUE]
        BY <1>3, <1>5, <2>1
      <3>. QED
        BY <1>4, <3>1
    <2>. QED
      BY <1>5, <2>1 DEF Grows
  <1>8. next \in Seq(KeyRecord)
    BY <1>3, <1>6, <1>7, SeqDef
  <1>9. keys' \in Seq(KeyRecord) /\ Grows(keys, keys')
    BY <1>1, <1>2, <1>7, <1>8 DEF Grows
  <1>. QED
    BY <1>9 DEF ServerInv, KeyRecord

(***************************************************************************)
(* A write answered after its tab is gone changes the tables alone.        *)
(***************************************************************************)
LEMMA LateAnswered ==
  ASSUME TabsInv, NEW i \in DOMAIN calls, NEW how, Comes(how), calls[i].live = "gone",
         calls' = RemoveAt(calls, i), page' = page, list' = list, scope' = scope,
         stored' = stored, tab' = tab,
         ServerInv', revoked \subseteq revoked', Grows(keys, keys')
  PROVE  TabsInv'
  <1>1. SharedInv /\ Fit(calls, tab) /\ broken \in BOOLEAN
    BY DEF TabsInv, SharedInv, CallsInv, ScopeInv
  <1>2. broken' \in BOOLEAN /\ (broken => broken')
    BY <1>1, BrokenStays
  <1>3. /\ Fit(calls', tab)
        /\ \A ops : Waits(calls', ops) = Waits(calls, ops)
    BY <1>1, TakeOff
  <1>4. SameWaits(calls, calls') /\ SameRowCalls(calls, calls')
    BY <1>1, RemoveBeside
  <1>5. SharedInv'
    BY <1>1, <1>2, <1>3, SharedKept DEF SharedStep
  <1>6. Creates(calls) => Creates(calls')
    BY <1>3 DEF Creates
  <1>. QED
    BY <1>2, <1>4, <1>5, <1>6, TabsOfShared

LateWrites ==
  \E i \in DOMAIN calls, how \in Hows :
    /\ calls[i].live = "gone"
    /\ RevokeAnswered(i, how) \/ ProjectCreated(i, how) \/ KeyCreated(i, how)
         \/ KeyRevoked(i, how)

LEMMA LateWritesKept == TabsInv /\ LateWrites => TabsInv'
  <1>. SUFFICES ASSUME TabsInv, LateWrites PROVE TabsInv'
    OBVIOUS
  <1>1. PICK i \in DOMAIN calls, how \in Hows :
          /\ calls[i].live = "gone"
          /\ RevokeAnswered(i, how) \/ ProjectCreated(i, how) \/ KeyCreated(i, how)
               \/ KeyRevoked(i, how)
    BY DEF LateWrites
  <1>2. ServerInv /\ CallFits(calls[i], tab)
    BY DEF TabsInv, SharedInv, CallsInv, Fit
  <1>3. CASE RevokeAnswered(i, how)
    <2>1. /\ Comes(how) /\ calls' = RemoveAt(calls, i) /\ page' = page /\ list' = list
          /\ scope' = scope /\ stored' = stored /\ tab' = tab
      BY <1>1, <1>3, OnTab DEF RevokeAnswered, UsesGrants, scopeVars
    <2>2. /\ Effect(how, revoked' = revoked \cup {calls[i].arg}, revoked)
          /\ UNCHANGED <<owner, rows, keys>> /\ calls[i].arg \in Rows
      BY <1>2, <1>3 DEF RevokeAnswered, CallFits
    <2>3. ServerInv' /\ revoked \subseteq revoked' /\ Grows(keys, keys')
      BY <1>2, <2>2, RevokeTakes
    <2>. QED
      BY <1>1, <2>1, <2>3, LateAnswered
  <1>4. CASE ProjectCreated(i, how)
    <2>1. /\ Comes(how) /\ calls' = RemoveAt(calls, i) /\ page' = page /\ list' = list
          /\ scope' = scope /\ stored' = stored /\ tab' = tab
      BY <1>1, <1>4, OnTab DEF ProjectCreated, UsesProjects, scopeVars
    <2>2. /\ Effect(how, \E p \in ProjectsOf(None) : owner' = [owner EXCEPT ![p] = calls[i].as],
                    owner)
          /\ UNCHANGED <<rows, revoked, keys>> /\ calls[i].as \in Persons
      BY <1>2, <1>4 DEF ProjectCreated, UsesProjects, CallFits, CallRecord
    <2>3. ServerInv' /\ revoked \subseteq revoked' /\ Grows(keys, keys')
      BY <1>2, <2>2, ProjectTakes
    <2>. QED
      BY <1>1, <2>1, <2>3, LateAnswered
  <1>5. CASE KeyCreated(i, how)
    <2>1. /\ Comes(how) /\ calls' = RemoveAt(calls, i) /\ page' = page /\ list' = list
          /\ scope' = scope /\ stored' = stored /\ tab' = tab
      BY <1>1, <1>5, OnTab DEF KeyCreated, UsesProjects, scopeVars
    <2>2. /\ Effect(how, keys' = Append(keys, [project |-> calls[i].arg, revoked |-> FALSE]),
                    keys)
          /\ UNCHANGED <<owner, rows, revoked>> /\ calls[i].arg \in Projects
      BY <1>2, <1>5 DEF KeyCreated, UsesProjects, CallFits, RowOps
    <2>3. ServerInv' /\ revoked \subseteq revoked' /\ Grows(keys, keys')
      BY <1>2, <2>2, KeyTakes
    <2>. QED
      BY <1>1, <2>1, <2>3, LateAnswered
  <1>6. CASE KeyRevoked(i, how)
    <2>1. /\ Comes(how) /\ calls' = RemoveAt(calls, i) /\ page' = page /\ list' = list
          /\ scope' = scope /\ stored' = stored /\ tab' = tab
      BY <1>1, <1>6, OnTab DEF KeyRevoked, UsesProjects, scopeVars
    <2>2. /\ Effect(how, keys' = [keys EXCEPT ![calls[i].tok].revoked = TRUE], keys)
          /\ UNCHANGED <<owner, rows, revoked>>
      BY <1>6 DEF KeyRevoked, UsesProjects
    <2>3. ServerInv' /\ revoked \subseteq revoked' /\ Grows(keys, keys')
      BY <1>2, <2>2, KeyRevokeTakes
    <2>. QED
      BY <1>1, <2>1, <2>3, LateAnswered
  <1>. QED
    BY <1>1, <1>3, <1>4, <1>5, <1>6

-----------------------------------------------------------------------------
(***************************************************************************)
(* Another tab, or none.  Of the calls of the tab that was left only       *)
(* writes go on, and nobody awaits them; the new tab has those it makes.   *)
(***************************************************************************)
LEMMA TabTyped == AuthTypeOK => tab \in {"none"} \cup Tabs
  BY DEF AuthTypeOK, tab, TabOf

LEMMA MountAsks ==
  ASSUME NEW who \in Persons, NEW op \in {"projects", "list", "figures", "key"},
         NEW p \in Nat, NEW where, op \in OpsOf(where)
  PROVE  /\ CallFits(AskAs(who, op, p, 0), where) /\ AskAs(who, op, p, 0).op = op
         /\ AskAs(who, op, p, 0).live = "here"
  <1>1. op \in CallOps /\ op \notin RowOps /\ op # "revoke"
    BY DEF CallOps, RowOps
  <1>. QED
    BY <1>1 DEF AskAs, CallFits, CallRecord

LEMMA WaitsOne ==
  ASSUME NEW c, c.live # "gone", NEW ops
  PROVE  Waits(<<c>>, ops) = IF c.op \in ops THEN {c} ELSE {}
  <1>1. ToSet(<<c>>) = {c}
    BY DEF ToSet
  <1>. QED
    BY <1>1 DEF Waits

LEMMA WaitsNone == \A ops : Waits(<<>>, ops) = {}
  <1>1. ToSet(<<>>) = {}
    BY DEF ToSet
  <1>. QED
    BY <1>1 DEF Waits

LEMMA WaitsConcat ==
  ASSUME NEW s, NEW t, NEW where, Fit(s, where), Fit(t, where)
  PROVE  Fit(s \o t, where) /\ \A ops : Waits(s \o t, ops) = Waits(s, ops) \cup Waits(t, ops)
  BY FitConcat, ConcatSet DEF Waits

(***************************************************************************)
(* The calls a tab makes when it is mounted.                               *)
(***************************************************************************)
LEMMA MountFits ==
  ASSUME NEW who \in Persons, NEW where, NEW p \in Nat
  PROVE  LET some == MountCalls(who, where, p) IN
         /\ Fit(some, where)
         /\ where \in ListPages => Waits(some, {"list"}) # {}
         /\ where = "analytics" => Waits(some, {"figures"}) # {}
         /\ \A ops : "list" \notin ops /\ "figures" \notin ops /\ "key" \notin ops
                       => Waits(some, ops) = {}
         /\ \A ops : where = "projects" /\ "list" \notin ops => Waits(some, ops) = {}
         /\ where = "settings" => \A ops : Waits(some, ops) = {}
  <1>. DEFINE some == MountCalls(who, where, p)
              q == ListScope(where, p)
              asked == AskAs(who, "list", q, 0)
              figures == AskAs(who, "figures", 0, 0)
              key == AskAs(who, "key", 0, 0)
  <1>0. q \in Nat /\ 0 \in Nat
    BY DEF ListScope
  <1>1. CASE where \in ListPages
    <2>1. some = <<asked>>
      BY <1>1 DEF MountCalls, ListPages
    <2>2. "list" \in OpsOf(where)
      BY <1>1 DEF ListPages, OpsOf
    <2>. HIDE DEF q
    <2>3. CallFits(asked, where) /\ asked.op = "list" /\ asked.live = "here"
      BY <1>0, <2>2, MountAsks
    <2>. HIDE DEF asked
    <2>4. Fit(<<asked>>, where)
      BY <2>3, FitOne
    <2>5. \A ops : Waits(<<asked>>, ops) = IF "list" \in ops THEN {asked} ELSE {}
      BY <2>3, WaitsOne
    <2>6. where # "analytics" /\ where # "settings"
      BY <1>1 DEF ListPages
    <2>. HIDE DEF some
    <2>. QED
      BY <2>1, <2>4, <2>5, <2>6 DEF some
  <1>2. CASE where = "overview"
    <2>1. some = <<figures, key>>
      BY <1>2 DEF MountCalls, ListPages, OverviewCalls
    <2>2. "figures" \in OpsOf(where) /\ "key" \in OpsOf(where)
      BY <1>2 DEF OpsOf
    <2>3. /\ CallFits(figures, where) /\ figures.op = "figures" /\ figures.live = "here"
          /\ CallFits(key, where) /\ key.op = "key" /\ key.live = "here"
      BY <1>0, <2>2, MountAsks
    <2>. HIDE DEF figures, key
    <2>4. ToSet(<<figures, key>>) = {figures, key}
      BY DEF ToSet
    <2>5. figures \in CallRecord /\ key \in CallRecord
      BY <2>3 DEF CallFits
    <2>6. Fit(<<figures, key>>, where)
      BY <2>3, <2>5 DEF Fit
    <2>7. \A ops : "figures" \notin ops /\ "key" \notin ops => Waits(<<figures, key>>, ops) = {}
      BY <2>3, <2>4 DEF Waits
    <2>. HIDE DEF some
    <2>8. /\ Fit(some, where)
          /\ \A ops : "figures" \notin ops /\ "key" \notin ops => Waits(some, ops) = {}
      BY <2>1, <2>6, <2>7
    <2>. QED
      BY <1>2, <2>8 DEF some, ListPages
  <1>3. CASE where = "analytics"
    <2>1. some = <<figures>>
      BY <1>3 DEF MountCalls, ListPages, AnalyticsCalls
    <2>2. "figures" \in OpsOf(where)
      BY <1>3 DEF OpsOf
    <2>3. CallFits(figures, where) /\ figures.op = "figures" /\ figures.live = "here"
      BY <1>0, <2>2, MountAsks
    <2>. HIDE DEF figures
    <2>4. Fit(<<figures>>, where)
      BY <2>3, FitOne
    <2>5. \A ops : Waits(<<figures>>, ops) = IF "figures" \in ops THEN {figures} ELSE {}
      BY <2>3, WaitsOne
    <2>. HIDE DEF some
    <2>. QED
      BY <1>3, <2>1, <2>4, <2>5 DEF some, ListPages
  <1>4. CASE where \notin ListPages \cup {"overview", "analytics"}
    <2>1. some = <<>>
      BY <1>4 DEF MountCalls
    <2>. HIDE DEF some
    <2>. QED
      BY <1>4, <2>1, FitNone, WaitsNone DEF some
  <1>. QED
    BY <1>1, <1>2, <1>3, <1>4

(***************************************************************************)
(* All the calls under way then.                                           *)
(***************************************************************************)
LEMMA AbandonWaits ==
  ASSUME NEW s, NEW where, NEW to, Fit(s, where)
  PROVE  Fit(Abandon(s), to) /\ \A ops : Waits(Abandon(s), ops) = {}
  <1>1. Fit(Abandon(s), to) /\ \A i \in DOMAIN Abandon(s) : Abandon(s)[i].live = "gone"
    BY AbandonLeaves
  <1>2. \A c \in ToSet(Abandon(s)) : c.live = "gone"
    <2>. HIDE DEF Abandon
    <2>. QED
      BY <1>1 DEF ToSet
  <1>. QED
    BY <1>1, <1>2 DEF Waits

LEMMA OnlyProjectsWait ==
  ASSUME NEW s, NEW where, NEW to, Fit(s, where), "projects" \in OpsOf(to)
  PROVE  /\ Fit(Only({"projects"}, s), to)
         /\ Waits(Only({"projects"}, s), {"projects"}) = Waits(s, {"projects"})
         /\ \A ops : "projects" \notin ops => Waits(Only({"projects"}, s), ops) = {}
  <1>. DEFINE t == Only({"projects"}, s)
  <1>1. Fit(t, where) /\ ToSet(t) = {c \in ToSet(s) : c.op \in {"projects"}}
    BY FitOnly, OnlySet
  <1>. HIDE DEF t
  <1>2. \A i \in DOMAIN t : t[i].op = "projects"
    BY <1>1, InSet
  <1>3. Fit(t, to)
    BY <1>1, <1>2 DEF Fit, CallFits
  <1>4. /\ Waits(t, {"projects"}) = Waits(s, {"projects"})
        /\ \A ops : "projects" \notin ops => Waits(t, ops) = {}
    BY <1>1 DEF Waits
  <1>. QED
    BY <1>3, <1>4 DEF t

LEMMA Asked ==
  ASSUME NEW who \in Persons, NEW to, "projects" \in OpsOf(to)
  PROVE  LET one == <<AskAs(who, "projects", 0, 0)>> IN
         /\ Fit(one, to)
         /\ Waits(one, {"projects"}) # {}
         /\ \A ops : "projects" \notin ops => Waits(one, ops) = {}
  <1>. DEFINE c == AskAs(who, "projects", 0, 0)
  <1>1. CallFits(c, to) /\ c.op = "projects" /\ c.live = "here"
    BY MountAsks
  <1>. HIDE DEF c
  <1>2. Fit(<<c>>, to) /\ \A ops : Waits(<<c>>, ops) = IF "projects" \in ops THEN {c} ELSE {}
    BY <1>1, FitOne, WaitsOne
  <1>3. /\ Fit(<<c>>, to) /\ Waits(<<c>>, {"projects"}) # {}
        /\ \A ops : "projects" \notin ops => Waits(<<c>>, ops) = {}
    BY <1>2
  <1>. QED
    BY <1>3 DEF c

Joined(a, b, c, d) == ((a \o b) \o c) \o d

LEMMA WaitsJoined ==
  ASSUME NEW a, NEW b, NEW c, NEW d, NEW where,
         Fit(a, where), Fit(b, where), Fit(c, where), Fit(d, where)
  PROVE  /\ Fit(Joined(a, b, c, d), where)
         /\ \A ops : Waits(Joined(a, b, c, d), ops)
                       = Waits(a, ops) \cup Waits(b, ops) \cup Waits(c, ops) \cup Waits(d, ops)
  <1>1. /\ Fit(a \o b, where)
        /\ \A ops : Waits(a \o b, ops) = Waits(a, ops) \cup Waits(b, ops)
    BY WaitsConcat
  <1>2. /\ Fit((a \o b) \o c, where)
        /\ \A ops : Waits((a \o b) \o c, ops) = Waits(a \o b, ops) \cup Waits(c, ops)
    BY <1>1, WaitsConcat
  <1>3. /\ Fit(((a \o b) \o c) \o d, where)
        /\ \A ops : Waits(((a \o b) \o c) \o d, ops)
                      = Waits((a \o b) \o c, ops) \cup Waits(d, ops)
    BY <1>2, WaitsConcat
  <1>. QED
    BY <1>1, <1>2, <1>3 DEF Joined

CallsAfter(who, new, p) ==
  LET in    == new # "none"
      joins == in /\ tab = "none"
  IN  (Abandon(calls)
         \o (IF in THEN Only({"projects"}, calls) ELSE <<>>)
         \o (IF joins THEN <<AskAs(who, "projects", 0, 0)>> ELSE <<>>))
      \o MountCalls(who, new, p)

LEMMA CallsMoved ==
  ASSUME TabsInv, NEW who \in Persons, NEW new \in {"none"} \cup Tabs, NEW p \in Nat
  PROVE  LET next == CallsAfter(who, new, p) IN
         /\ Fit(next, new)
         /\ new \in ListPages => Waits(next, {"list"}) # {}
         /\ new = "analytics" => Waits(next, {"figures"}) # {}
         /\ \A ops : "projects" \notin ops /\ "list" \notin ops /\ "figures" \notin ops
                       /\ "key" \notin ops => Waits(next, ops) = {}
         /\ new # "none" /\ tab = "none" => Waits(next, {"projects"}) # {}
         /\ new # "none" /\ tab # "none"
              => Waits(calls, {"projects"}) \subseteq Waits(next, {"projects"})
  <1>. DEFINE next == CallsAfter(who, new, p)
              in == new # "none"
              joins == in /\ tab = "none"
              gone == Abandon(calls)
              old == IF in THEN Only({"projects"}, calls) ELSE <<>>
              asks == IF joins THEN <<AskAs(who, "projects", 0, 0)>> ELSE <<>>
              some == MountCalls(who, new, p)
  <1>1. next = Joined(gone, old, asks, some)
    BY DEF CallsAfter, Joined
  <1>2. Fit(calls, tab)
    BY DEF TabsInv, SharedInv, CallsInv
  <1>3. in => "projects" \in OpsOf(new)
    BY DEF OpsOf, Tabs
  <1>4. Fit(gone, new) /\ \A ops : Waits(gone, ops) = {}
    BY <1>2, AbandonWaits
  <1>5. /\ Fit(old, new) /\ (in => Waits(old, {"projects"}) = Waits(calls, {"projects"}))
        /\ \A ops : "projects" \notin ops => Waits(old, ops) = {}
    <2>1. CASE in
      <3>1. /\ Fit(Only({"projects"}, calls), new)
            /\ Waits(Only({"projects"}, calls), {"projects"}) = Waits(calls, {"projects"})
            /\ \A ops : "projects" \notin ops => Waits(Only({"projects"}, calls), ops) = {}
        BY <1>2, <1>3, <2>1, OnlyProjectsWait
      <3>. QED
        BY <2>1, <3>1
    <2>2. CASE ~in
      BY <2>2, FitNone, WaitsNone
    <2>. QED
      BY <2>1, <2>2
  <1>6. /\ Fit(asks, new) /\ (joins => Waits(asks, {"projects"}) # {})
        /\ \A ops : "projects" \notin ops => Waits(asks, ops) = {}
    <2>1. CASE joins
      BY <1>3, <2>1, Asked
    <2>2. CASE ~joins
      BY <2>2, FitNone, WaitsNone
    <2>. QED
      BY <2>1, <2>2
  <1>7. /\ Fit(some, new)
        /\ new \in ListPages => Waits(some, {"list"}) # {}
        /\ new = "analytics" => Waits(some, {"figures"}) # {}
        /\ \A ops : "list" \notin ops /\ "figures" \notin ops /\ "key" \notin ops
                      => Waits(some, ops) = {}
    BY MountFits
  <1>. HIDE DEF gone, old, asks, some, next
  <1>8. /\ Fit(next, new)
        /\ \A ops : Waits(next, ops)
                      = Waits(gone, ops) \cup Waits(old, ops) \cup Waits(asks, ops)
                          \cup Waits(some, ops)
    BY <1>1, <1>4, <1>5, <1>6, <1>7, WaitsJoined
  <1>9. \A ops : "projects" \notin ops /\ "list" \notin ops /\ "figures" \notin ops
                   /\ "key" \notin ops => Waits(next, ops) = {}
    BY <1>4, <1>5, <1>6, <1>7, <1>8
  <1>10. /\ new \in ListPages => Waits(next, {"list"}) # {}
         /\ new = "analytics" => Waits(next, {"figures"}) # {}
         /\ joins => Waits(next, {"projects"}) # {}
         /\ in => Waits(calls, {"projects"}) \subseteq Waits(next, {"projects"})
    BY <1>5, <1>6, <1>7, <1>8
  <1>. QED
    BY <1>8, <1>9, <1>10 DEF next

(***************************************************************************)
(* The state the new tab starts with.                                      *)
(***************************************************************************)
LEMMA NoneAtOnce ==
  ASSUME NEW some, NEW where, Fit(some, where), NEW ops, ops \cap Writes = {},
         Waits(some, ops) = {}
  PROVE  AtMostOne(ops, some)
  <1>1. \A i \in DOMAIN some : some[i].op \notin ops
    BY InSet DEF Waits, Fit, CallFits
  <1>. QED
    BY <1>1 DEF AtMostOne

LEMMA FirstRows == ProjectRows(Refresh(NewList)) = {}
  BY DEF ProjectRows, Refresh, FetchPage, Reset, NewList

LEMMA NewPageFits ==
  ASSUME page' = NewPage(tab'), list' = (IF tab' \in ListPages THEN Refresh(NewList) ELSE NewList),
         tab' \in {"none"} \cup Tabs, Fit(calls', tab'),
         \A ops : "projects" \notin ops /\ "list" \notin ops /\ "figures" \notin ops
                    /\ "key" \notin ops => Waits(calls', ops) = {},
         tab' = "analytics" => Waits(calls', {"figures"}) # {}
  PROVE  EveryTabInv' /\ ProjectsInv'
  <1>. DEFINE none(ops) == Waits(calls', ops) = {}
  <1>1. /\ none({"anchor"}) /\ none({"replay"}) /\ none({"proof"}) /\ none(VerifyOps)
        /\ none({"verify"}) /\ none({"verifyGrant"}) /\ none({"revoke"}) /\ none(RowOps)
        /\ none({"createProject"})
    BY DEF VerifyOps, RowOps
  <1>2. CASE tab' = "sessions"
    <2>1. page' = NewSessions
      BY <1>2 DEF NewPage
    <2>2. SessionsInv'
      BY <1>1, <2>1 DEF SessionsInv, NewSessions, NewReplay
    <2>. QED
      BY <1>2, <2>2, OnlyItsTab
  <1>3. CASE tab' = "activity"
    <2>1. page' = NewActivity
      BY <1>3 DEF NewPage
    <2>2. ActivityInv'
      BY <2>1 DEF ActivityInv, NewActivity
    <2>. QED
      BY <1>3, <2>2, OnlyItsTab
  <1>4. CASE tab' = "receipts"
    <2>1. page' = NewReceipts
      BY <1>4 DEF NewPage
    <2>2. AtMostOne({"proof"}, calls')
      BY <1>1, NoneAtOnce DEF Writes
    <2>3. ReceiptsInv'
      BY <1>1, <2>1, <2>2 DEF ReceiptsInv, NewReceipts
    <2>. QED
      BY <1>4, <2>3, OnlyItsTab
  <1>5. CASE tab' = "verify"
    <2>1. page' = NewVerify
      BY <1>5 DEF NewPage
    <2>2. AtMostOne(VerifyOps, calls')
      BY <1>1, NoneAtOnce DEF Writes, VerifyOps
    <2>3. VerifyInv'
      BY <1>1, <2>1, <2>2 DEF VerifyInv, NewVerify
    <2>. QED
      BY <1>5, <2>3, OnlyItsTab
  <1>6. CASE tab' = "delegations"
    <2>1. page' = NewDelegations
      BY <1>6 DEF NewPage
    <2>2. DelegationsInv'
      BY <1>1, <2>1 DEF DelegationsInv, NewDelegations
    <2>. QED
      BY <1>6, <2>2, OnlyItsTab
  <1>7. CASE tab' = "overview"
    <2>1. page' = NewOverview
      BY <1>7 DEF NewPage
    <2>2. OverviewInv'
      BY <2>1 DEF OverviewInv, NewOverview
    <2>. QED
      BY <1>7, <2>2, OnlyItsTab
  <1>8. CASE tab' = "analytics"
    <2>1. page' = NewAnalytics
      BY <1>8 DEF NewPage
    <2>2. \A void : /\ [loading |-> TRUE, error |-> FALSE, figures |-> void]
                        \in [loading : BOOLEAN, error : BOOLEAN, figures : Counted \cup {void}]
                   /\ [loading |-> TRUE, error |-> FALSE, figures |-> void].loading
      OBVIOUS
    <2>3. page' \in PageOfAnalytics /\ page'.loading
      BY <2>1, <2>2, Zenon DEF NewAnalytics, PageOfAnalytics
    <2>4. AnalyticsInv'
      BY <1>8, <2>3 DEF AnalyticsInv, PageOfAnalytics
    <2>. QED
      BY <1>8, <2>4, OnlyItsTab
  <1>9. CASE tab' = "settings"
    <2>1. page' = NewSettings
      BY <1>9 DEF NewPage
    <2>2. SettingsInv'
      BY <2>1 DEF SettingsInv, NewSettings, Sections
    <2>. QED
      BY <1>9, <2>2, OnlyItsTab
  <1>10. CASE tab' \in {"none", "agents", "apikeys"}
    <2>1. page' = NoPage
      BY <1>10 DEF NewPage
    <2>2. RestInv'
      BY <2>1 DEF RestInv
    <2>. QED
      BY <1>10, <2>2, OnlyItsTab
  <1>11. CASE tab' = "projects"
    <2>1. page' = NewProjects
      BY <1>11 DEF NewPage
    <2>2. ProjectRows(list') = {}
      BY <1>11, FirstRows DEF ListPages
    <2>3. \A c \in ToSet(calls') : c.op \in RowOps /\ c.live = "here" => FALSE
      BY <1>1 DEF Waits
    <2>4. page'.row = [p \in {} |-> page'.row[p]]
      BY <2>1 DEF NewProjects
    <2>5. page' = [form |-> page'.form, creating |-> page'.creating, row |-> page'.row,
                   unclosed |-> page'.unclosed] /\ ~page'.form /\ ~page'.creating
          /\ page'.form \in BOOLEAN /\ page'.creating \in BOOLEAN
      BY <2>1 DEF NewProjects
    <2>6. ProjectsInv'
      BY <2>2, <2>3, <2>4, <2>5 DEF ProjectsInv
    <2>. QED
      BY <1>11, <2>6, OnlyItsTab
  <1>. QED
    BY <1>2, <1>3, <1>4, <1>5, <1>6, <1>7, <1>8, <1>9, <1>10, <1>11 DEF Tabs

LEMMA RemountKept ==
  ASSUME TabsInv, AuthTypeOK, AuthTypeOK', NEW paletteNow, NEW drawerNow, NEW themeNow,
         RemountWith(paletteNow, drawerNow, themeNow)
  PROVE  TabsInv'
  <1>1. CASE tab' = tab
    <2>1. QuietStep
      BY <1>1 DEF RemountWith, QuietStep, pageVars, budget, tab
    <2>. QED
      BY <2>1, QuietKept
  <1>2. CASE tab' # tab
    <2>. DEFINE who == IF token' # None THEN token' ELSE cookie'
                joins == tab' # "none" /\ tab = "none"
                p == IF joins THEN 0 ELSE scope.selected
    <2>1. /\ calls' = CallsAfter(who, tab', p)
          /\ scope' = (IF joins THEN NewScope ELSE IF tab' # "none" THEN scope ELSE NoScope)
          /\ page' = NewPage(tab')
          /\ list' = (IF tab' \in ListPages THEN Refresh(NewList) ELSE NewList)
          /\ UNCHANGED <<server, stored>> /\ broken' = broken
      BY <1>2 DEF RemountWith, CallsAfter, budget, tab
    <2>2. who \in Persons
      BY DEF AuthTypeOK
    <2>3. tab' \in {"none"} \cup Tabs
      BY TabTyped DEF AuthTypeOK, tab, TabOf
    <2>4. p \in Nat
      BY ScopeNumbers DEF TabsInv, SharedInv, ScopeInv
    <2>. HIDE DEF who, p
    <2>5. /\ Fit(calls', tab')
          /\ tab' \in ListPages => Waits(calls', {"list"}) # {}
          /\ tab' = "analytics" => Waits(calls', {"figures"}) # {}
          /\ \A ops : "projects" \notin ops /\ "list" \notin ops /\ "figures" \notin ops
                        /\ "key" \notin ops => Waits(calls', ops) = {}
          /\ tab' # "none" /\ tab = "none" => Waits(calls', {"projects"}) # {}
          /\ tab' # "none" /\ tab # "none"
               => Waits(calls, {"projects"}) \subseteq Waits(calls', {"projects"})
      <3>. DEFINE next == CallsAfter(who, tab', p)
      <3>1. /\ Fit(next, tab')
            /\ tab' \in ListPages => Waits(next, {"list"}) # {}
            /\ tab' = "analytics" => Waits(next, {"figures"}) # {}
            /\ \A ops : "projects" \notin ops /\ "list" \notin ops /\ "figures" \notin ops
                          /\ "key" \notin ops => Waits(next, ops) = {}
            /\ tab' # "none" /\ tab = "none" => Waits(next, {"projects"}) # {}
            /\ tab' # "none" /\ tab # "none"
                 => Waits(calls, {"projects"}) \subseteq Waits(next, {"projects"})
        BY <2>2, <2>3, <2>4, CallsMoved
      <3>2. calls' = next
        BY <2>1
      <3>. HIDE DEF next
      <3>. QED
        BY <3>1, <3>2
    <2>6. EveryTabInv' /\ ProjectsInv'
      BY <2>1, <2>3, <2>5, NewPageFits
    <2>7. CallsInv'
      BY <2>5 DEF CallsInv
    <2>8. ServerInv'
      BY <2>1, ServerKept DEF TabsInv, SharedInv
    <2>9. ListInv'
      <3>1. ListFits(list', tab')
        BY <2>1, NewListFits
      <3>2. list'.loading => tab' \in ListPages
        BY <2>1, NewListFits
      <3>. QED
        BY <2>5, <3>1, <3>2 DEF ListInv
    <2>10. ScopeInv'
      <3>1. ScopeInv
        BY DEF TabsInv, SharedInv
      <3>2. scope' \in [loading : BOOLEAN, projects : SUBSET Projects,
                        selected : {0} \cup Projects, error : BOOLEAN]
        BY <2>1, <3>1 DEF ScopeInv, NewScope, NoScope
      <3>3. ~broken' /\ scope'.loading => Waits(calls', {"projects"}) # {}
        BY <2>1, <2>5, <3>1 DEF ScopeInv, NewScope, NoScope
      <3>. QED
        BY <2>1, <3>1, <3>2, <3>3 DEF ScopeInv
    <2>. QED
      BY <2>6, <2>7, <2>8, <2>9, <2>10 DEF TabsInv, SharedInv
  <1>. QED
    BY <1>1, <1>2

-----------------------------------------------------------------------------
(***************************************************************************)
(* The profile is saved from the tab Settings; on any other tab a refusal  *)
(* finds no field to set.                                                  *)
(***************************************************************************)
LEMMA OtherFieldsStay ==
  ASSUME NEW f, NEW D, f = [x \in D |-> f[x]], "saveFailed" \notin D
  PROVE  [f EXCEPT !.saveFailed = TRUE] = f
  OBVIOUS

LEMMA NoProfileHere ==
  ASSUME TabsInv, AuthTypeOK, tab # "settings"
  PROVE  [page EXCEPT !.saveFailed = TRUE] = page
  <1>0. tab \in {"none"} \cup Tabs
    BY TabTyped
  <1>1. CASE tab = "sessions"
    <2>. DEFINE D == {"selected", "anchor", "loading", "failed", "replay"}
    <2>1. page = [x \in D |-> page[x]]
      BY <1>1 DEF TabsInv, EveryTabInv, SessionsInv
    <2>. QED
      BY <2>1, OtherFieldsStay
  <1>2. CASE tab = "activity"
    <2>. DEFINE D == {"selected"}
    <2>1. page = [x \in D |-> page[x]]
      BY <1>2 DEF TabsInv, EveryTabInv, ActivityInv
    <2>. QED
      BY <2>1, OtherFieldsStay
  <1>3. CASE tab = "receipts"
    <2>. DEFINE D == {"selected", "proof", "fetching", "failed"}
    <2>1. page = [x \in D |-> page[x]]
      BY <1>3 DEF TabsInv, EveryTabInv, ReceiptsInv
    <2>. QED
      BY <2>1, OtherFieldsStay
  <1>4. CASE tab = "verify"
    <2>. DEFINE D == {"loading", "error", "result", "asked", "mixed"}
    <2>1. page = [x \in D |-> page[x]]
      BY <1>4 DEF TabsInv, EveryTabInv, VerifyInv
    <2>. QED
      BY <2>1, OtherFieldsStay
  <1>5. CASE tab = "delegations"
    <2>. DEFINE D == {"selected", "chain", "valid", "loading", "failed", "revoking",
                      "revoked", "revokeFailed", "confirm", "strayed"}
    <2>1. page = [x \in D |-> page[x]]
      BY <1>5 DEF TabsInv, EveryTabInv, DelegationsInv
    <2>. QED
      BY <2>1, OtherFieldsStay
  <1>6. CASE tab = "overview"
    <2>. DEFINE D == {"figures", "key", "keyError"}
    <2>1. page = [x \in D |-> page[x]]
      BY <1>6 DEF TabsInv, EveryTabInv, OverviewInv
    <2>. QED
      BY <2>1, OtherFieldsStay
  <1>7. CASE tab = "analytics"
    <2>. DEFINE D == {"loading", "error", "figures"}
    <2>1. page \in PageOfAnalytics
      BY <1>7 DEF TabsInv, EveryTabInv, AnalyticsInv, PageOfAnalytics
    <2>2. \A S : \A f \in [loading : BOOLEAN, error : BOOLEAN, figures : S] :
                   f = [x \in D |-> f[x]]
      OBVIOUS
    <2>. HIDE DEF D
    <2>3. page = [x \in D |-> page[x]]
      BY <2>1, <2>2 DEF PageOfAnalytics
    <2>. QED
      BY <2>3, OtherFieldsStay DEF D
  <1>8. CASE tab = "projects"
    <2>. DEFINE D == {"form", "creating", "row", "unclosed"}
    <2>1. page = [x \in D |-> page[x]]
      BY <1>8 DEF TabsInv, ProjectsInv
    <2>. QED
      BY <2>1, OtherFieldsStay
  <1>9. CASE tab \in {"none", "agents", "apikeys"}
    <2>. DEFINE D == {"empty"}
    <2>1. page = [x \in D |-> page[x]]
      BY <1>9 DEF TabsInv, EveryTabInv, RestInv, NoPage
    <2>. QED
      BY <2>1, OtherFieldsStay
  <1>. QED
    BY <1>0, <1>1, <1>2, <1>3, <1>4, <1>5, <1>6, <1>7, <1>8, <1>9 DEF Tabs

LEMMA SaveFieldSet ==
  ASSUME TabsInv, NEW failed \in BOOLEAN, tab = "settings", tab' = tab,
         page' = [page EXCEPT !.saveFailed = failed],
         UNCHANGED <<server, scope, stored, list, calls, broken>>
  PROVE  TabsInv'
  <1>1. SharedInv'
    BY DEF TabsInv, SharedInv, CallsInv, ServerInv, ListInv, ScopeInv, server
  <1>2. SettingsInv'
    BY DEF TabsInv, EveryTabInv, SettingsInv
  <1>. QED
    BY <1>1, <1>2, OnlyItsTab DEF TabsInv

LEMMA ProfileKept ==
  ASSUME TabsInv, AuthTypeOK, NEW s, SaveProfile(s) \/ ProfileRefused(s)
  PROVE  TabsInv'
  <1>1. /\ UNCHANGED <<server, scope, stored, list, calls, broken>> /\ tab' = tab
    BY DEF SaveProfile, ProfileRefused, Save, SaveRefused, scopeVars, budget, memory, tab,
           TabOf
  <1>2. CASE SaveProfile(s)
    <2>1. tab = "settings" /\ page' = [page EXCEPT !.saveFailed = FALSE]
      BY <1>2 DEF SaveProfile, OffersSave
    <2>. QED
      BY <1>1, <2>1, SaveFieldSet
  <1>3. CASE ProfileRefused(s)
    <2>1. page' = page \/ page' = [page EXCEPT !.saveFailed = TRUE]
      BY <1>3 DEF ProfileRefused
    <2>2. CASE page' = page
      <3>1. QuietStep
        BY <1>1, <2>2 DEF QuietStep
      <3>. QED
        BY <3>1, QuietKept
    <2>3. CASE page' = [page EXCEPT !.saveFailed = TRUE] /\ tab = "settings"
      BY <1>1, <2>3, SaveFieldSet
    <2>4. CASE page' = [page EXCEPT !.saveFailed = TRUE] /\ tab # "settings"
      <3>1. page' = page
        BY <2>4, NoProfileHere
      <3>2. QuietStep
        BY <1>1, <3>1 DEF QuietStep
      <3>. QED
        BY <3>2, QuietKept
    <2>. QED
      BY <2>1, <2>2, <2>3, <2>4
  <1>. QED
    BY <1>2, <1>3

(***************************************************************************)
(* The session's own steps: the route they end on is rendered, or nothing  *)
(* on screen changes.                                                      *)
(***************************************************************************)
LEMMA UnmountedKept ==
  ASSUME TabsInv, Unmounted, tab' = tab
  PROVE  TabsInv'
  <1>1. QuietStep
    BY DEF Unmounted, QuietStep, scopeVars, pageVars, budget
  <1>. QED
    BY <1>1, QuietKept

LEMMA SessionKept ==
  ASSUME TabsInv, AuthTypeOK, AuthTypeOK', SessionNext
  PROVE  TabsInv'
  <1>1. CASE \E a, b, c : RemountWith(a, b, c)
    BY <1>1, RemountKept
  <1>2. CASE Unmounted /\ tab' = tab
    BY <1>2, UnmountedKept
  <1>3. ASSUME NEW s \in Slots,
               \/ Reload(s) /\ RemountWith(Closed, FALSE, [Apply(theme) EXCEPT !.other = FALSE])
               \/ SignOut(s) /\ ~palette.open /\ Remount
               \/ LoginAnswered(s) /\ Remount
               \/ SaveAnswered(s) /\ Remount
               \/ \E known \in BOOLEAN : MeAnswered(s, known) /\ Remount
        PROVE  TabsInv'
    BY <1>1, <1>3 DEF Remount
  <1>4. ASSUME NEW s \in Slots,
               \/ LoginRefused(s) /\ Unmounted
               \/ LogoutAnswered(s) /\ Unmounted
               \/ LogoutLost(s) /\ Unmounted
               \/ \E who \in Accounts : SubmitLogin(s, who) /\ Unmounted
               \/ \E who \in Accounts : SubmitSignup(s, who) /\ Unmounted
        PROVE  TabsInv'
    <2>1. Unmounted /\ UNCHANGED <<memory, path>>
      BY <1>4 DEF LoginRefused, LogoutAnswered, LogoutLost, SubmitLogin, SubmitSignup, Submit
    <2>2. tab' = tab
      BY <2>1 DEF memory, tab, TabOf
    <2>. QED
      BY <1>2, <2>1, <2>2
  <1>5. ASSUME (SubmitShortPassword /\ Unmounted) \/ (SendReset /\ Unmounted)
                 \/ (ResetTimer /\ Unmounted)
                 \/ (\E who \in Persons : OtherTab(who) /\ Unmounted)
        PROVE  TabsInv'
    <2>1. Unmounted /\ UNCHANGED <<memory, path>>
      BY <1>5 DEF SubmitShortPassword, SendReset, ResetTimer, OtherTab
    <2>2. tab' = tab
      BY <2>1 DEF memory, tab, TabOf
    <2>. QED
      BY <1>2, <2>1, <2>2
  <1>6. ASSUME NEW to, NEW stays, Navigate(to), RemountWith(palette, stays, theme)
        PROVE  TabsInv'
    BY <1>1, <1>6
  <1>. QED
    BY <1>3, <1>4, <1>5, <1>6 DEF SessionNext

LEMMA PaletteKept ==
  ASSUME TabsInv, AuthTypeOK, AuthTypeOK', ChoosePlace
  PROVE  TabsInv'
  <1>1. PICK to : \/ Navigate(to) /\ RemountWith(Closed, drawer, theme)
                  \/ ClosePalette
    BY DEF ChoosePlace
  <1>2. CASE RemountWith(Closed, drawer, theme)
    BY <1>2, RemountKept
  <1>3. CASE ClosePalette
    <2>1. UNCHANGED <<authVars, server, scope, stored, page, list, calls, broken>>
      BY <1>3 DEF ClosePalette, Click, SameTabs, scopeVars, pageVars
    <2>2. QuietStep
      BY <2>1, OnTab DEF QuietStep
    <2>. QED
      BY <2>2, QuietKept
  <1>. QED
    BY <1>1, <1>2, <1>3

LEMMA ShellKept ==
  ASSUME TabsInv, ShellNext
  PROVE  TabsInv'
  <1>1. UNCHANGED <<authVars, server, scope, stored, page, list, calls, broken>>
    <2>1. UNCHANGED authVars
      BY ShellKeepsSession
    <2>2. Click /\ SameTabs
      BY DEF ShellNext, OpenPalette, ClosePalette, CollapseRail, ToggleDrawer, ToggleTheme,
             OsSwitches, Arrow, TypeQuery, Hover, OtherTabTheme
    <2>. QED
      BY <2>1, <2>2 DEF Click, SameTabs, scopeVars, pageVars
  <1>2. QuietStep
    BY <1>1, OnTab DEF QuietStep
  <1>. QED
    BY <1>2, QuietKept

-----------------------------------------------------------------------------
(***************************************************************************)
(* The tab Projects.  What its state is made of, and one row of it.        *)
(***************************************************************************)
PageShape(state) ==
  /\ state = [form |-> state.form, creating |-> state.creating, row |-> state.row,
              unclosed |-> state.unclosed]
  /\ state.form \in BOOLEAN /\ state.creating \in BOOLEAN

LEMMA ShapeSet ==
  ASSUME NEW state, PageShape(state)
  PROVE  /\ \A some \in BOOLEAN :
              /\ PageShape([state EXCEPT !.form = some])
              /\ PageShape([state EXCEPT !.creating = some])
              /\ [state EXCEPT !.form = some].creating = state.creating
              /\ [state EXCEPT !.form = some].row = state.row
              /\ [state EXCEPT !.creating = some].creating = some
              /\ [state EXCEPT !.creating = some].row = state.row
         /\ \A some : LET next == [state EXCEPT !.unclosed = some] IN
              /\ PageShape(next) /\ next.form = state.form
              /\ next.creating = state.creating /\ next.row = state.row
         /\ \A some : LET next == [state EXCEPT !.row = some] IN
              /\ PageShape(next) /\ next.form = state.form
              /\ next.creating = state.creating /\ next.row = some
         /\ \A p, some : LET next == [state EXCEPT !.row[p] = some] IN
              /\ PageShape(next) /\ next.form = state.form
              /\ next.creating = state.creating /\ next.row = [state.row EXCEPT ![p] = some]
  BY DEF PageShape

Rowed(p, row) ==
  /\ PageShape(page') /\ page'.creating = page.creating
  /\ page'.row = [page.row EXCEPT ![p] = row]

LEMMA RowedIs ==
  ASSUME PageShape(page), NEW p, NEW row, NEW some,
         page' = WithRow(p, row) \/ page' = [WithRow(p, row) EXCEPT !.unclosed = some]
  PROVE  Rowed(p, row)
  <1>. DEFINE one == WithRow(p, row)
  <1>1. PageShape(one) /\ one.creating = page.creating /\ one.row = [page.row EXCEPT ![p] = row]
    BY ShapeSet DEF WithRow
  <1>. HIDE DEF one
  <1>2. LET next == [one EXCEPT !.unclosed = some] IN
          PageShape(next) /\ next.creating = one.creating /\ next.row = one.row
    BY <1>1, ShapeSet
  <1>. QED
    BY <1>1, <1>2 DEF Rowed, one

(***************************************************************************)
(* A row changes, and with it calls of this row alone.                     *)
(***************************************************************************)
LEMMA AwaitsMore ==
  ASSUME NEW p, NEW row, NEW some, NEW next, RowAwaits(p, row, some),
         \A op \in RowOps : Here(op, p, some) \subseteq Here(op, p, next)
  PROVE  RowAwaits(p, row, next)
  <1>1. "keys" \in RowOps /\ "createKey" \in RowOps
    BY DEF RowOps
  <1>. QED
    BY <1>1 DEF RowAwaits

LEMMA RowKept ==
  ASSUME ProjectsInv, tab = "projects", tab' = tab, NEW p \in ProjectRows(list), NEW row,
         Rowed(p, row), ProjectRows(list') = ProjectRows(list),
         RowFilled(p, row, keys'), Grows(keys, keys'), broken' \in BOOLEAN, broken => broken',
         ~broken' => RowAwaits(p, row, calls'),
         \A q : q # p => \A op \in RowOps : Here(op, q, calls) \subseteq Here(op, q, calls'),
         \A c \in ToSet(calls') :
           c.op \in RowOps /\ c.live = "here" => c \in ToSet(calls) \/ c.arg = p,
         ~broken' /\ Creates(calls) => Creates(calls')
  PROVE  ProjectsInv'
  <1>. DEFINE R == ProjectRows(list)
              rows0 == page.row
              rows1 == [rows0 EXCEPT ![p] = row]
  <1>1. /\ rows0 = [q \in R |-> rows0[q]]
        /\ \A q \in R : RowFilled(q, rows0[q], keys)
        /\ \A c \in ToSet(calls) : c.op \in RowOps /\ c.live = "here" => c.arg \in R
        /\ ~broken => \A q \in R : RowAwaits(q, rows0[q], calls)
        /\ ~broken /\ page.creating => Creates(calls)
    BY DEF ProjectsInv
  <1>2. page'.row = rows1 /\ PageShape(page') /\ page'.creating = page.creating
    BY DEF Rowed
  <1>3. /\ rows1 = [q \in R |-> rows1[q]] /\ rows1[p] = row
        /\ \A q \in R \ {p} : rows1[q] = rows0[q]
    <2>. HIDE DEF R, rows0
    <2>. QED
      BY <1>1 DEF R
  <1>. HIDE DEF rows0, rows1
  <1>4. \A q \in R : RowFilled(q, rows1[q], keys')
    BY <1>1, <1>3, FilledStays
  <1>5. ~broken' => \A q \in R : RowAwaits(q, rows1[q], calls')
    BY <1>1, <1>3, AwaitsMore
  <1>6. \A c \in ToSet(calls') : c.op \in RowOps /\ c.live = "here" => c.arg \in R
    BY <1>1
  <1>. HIDE DEF R
  <1>7. ProjectRows(list') = R /\ rows1 = page'.row
    BY <1>2 DEF R
  <1>8. page'.row = [q \in R |-> page'.row[q]]
    BY <1>3, <1>7
  <1>. QED
    BY <1>1, <1>2, <1>4, <1>5, <1>6, <1>7, <1>8 DEF ProjectsInv, PageShape

(***************************************************************************)
(* Clicks: the tables, the list and the selection stay, and at most one    *)
(* call more is under way.                                                 *)
(***************************************************************************)
ClickStep(c) ==
  /\ tab = "projects" /\ Use /\ UNCHANGED <<authVars, server, scope, stored, list>>
  /\ \/ calls' = calls
     \/ calls' = Append(calls, c) /\ CallFits(c, "projects") /\ c.live = "here"

LEMMA ClickKept ==
  ASSUME TabsInv, NEW c, ClickStep(c)
  PROVE  /\ SharedInv' /\ tab' = tab /\ broken' = broken /\ broken \in BOOLEAN
         /\ Grows(keys, keys') /\ keys' = keys /\ list' = list
         /\ ToSet(calls) \subseteq ToSet(calls')
         /\ ToSet(calls') \subseteq ToSet(calls) \cup {c}
         /\ calls' # calls => c \in ToSet(calls')
         /\ \A q, op : Here(op, q, calls) \subseteq Here(op, q, calls')
         /\ Creates(calls) => Creates(calls')
  <1>1. /\ tab' = tab /\ broken' = broken /\ UNCHANGED <<server, scope, stored, list>>
        /\ tab = "projects"
    BY OnTab, UseKeepsBroken DEF ClickStep
  <1>2. SharedInv /\ Fit(calls, "projects") /\ broken \in BOOLEAN
    BY <1>1 DEF TabsInv, SharedInv, CallsInv, ScopeInv
  <1>3. /\ Fit(calls', "projects") /\ ToSet(calls) \subseteq ToSet(calls')
        /\ ToSet(calls') \subseteq ToSet(calls) \cup {c}
        /\ calls' # calls => c \in ToSet(calls')
    <2>1. CASE calls' = calls
      BY <1>2, <2>1
    <2>2. CASE calls' = Append(calls, c) /\ CallFits(c, "projects")
      <3>1. Fit(Append(calls, c), "projects") /\ ToSet(Append(calls, c)) = ToSet(calls) \cup {c}
        BY <1>2, <2>2, FitAppend, AppendSet DEF CallFits
      <3>. QED
        BY <2>2, <3>1
    <2>. QED
      BY <2>1, <2>2 DEF ClickStep
  <1>4. /\ \A ops : Waits(calls, ops) \subseteq Waits(calls', ops)
        /\ \A q, op : Here(op, q, calls) \subseteq Here(op, q, calls')
    BY <1>3 DEF Waits, Here
  <1>5. SharedInv'
    <2>1. ServerInv'
      BY <1>1, <1>2, ServerKept DEF SharedInv
    <2>. QED
      BY <1>1, <1>2, <1>3, <1>4, <2>1, SharedKept DEF SharedStep
  <1>6. Creates(calls) => Creates(calls')
    BY <1>4 DEF Creates
  <1>7. keys' = keys /\ Grows(keys, keys')
    BY <1>1 DEF server, Grows
  <1>. QED
    BY <1>1, <1>2, <1>3, <1>4, <1>5, <1>6, <1>7

LEMMA RowsStay ==
  ASSUME ProjectsInv, tab = "projects", tab' = tab, PageShape(page'), page'.row = page.row,
         ProjectRows(list') = ProjectRows(list),
         Grows(keys, keys'), broken' \in BOOLEAN, broken => broken',
         \A q : \A op \in RowOps : Here(op, q, calls) \subseteq Here(op, q, calls'),
         \A c \in ToSet(calls') : c.op \in RowOps /\ c.live = "here" => c \in ToSet(calls),
         ~broken' /\ page'.creating => Creates(calls')
  PROVE  ProjectsInv'
  <1>. DEFINE R == ProjectRows(list)
              rows0 == page.row
  <1>1. /\ rows0 = [q \in R |-> rows0[q]]
        /\ \A q \in R : RowFilled(q, rows0[q], keys)
        /\ \A c \in ToSet(calls) : c.op \in RowOps /\ c.live = "here" => c.arg \in R
        /\ ~broken => \A q \in R : RowAwaits(q, rows0[q], calls)
    BY DEF ProjectsInv
  <1>. HIDE DEF rows0
  <1>2. \A q \in R : RowFilled(q, rows0[q], keys')
    BY <1>1, FilledStays
  <1>3. ~broken' => \A q \in R : RowAwaits(q, rows0[q], calls')
    BY <1>1, AwaitsMore
  <1>4. \A c \in ToSet(calls') : c.op \in RowOps /\ c.live = "here" => c.arg \in R
    BY <1>1
  <1>. HIDE DEF R
  <1>5. ProjectRows(list') = R /\ rows0 = page'.row
    BY DEF R, rows0
  <1>6. page'.row = [q \in R |-> page'.row[q]]
    BY <1>1, <1>5
  <1>. QED
    BY <1>2, <1>3, <1>4, <1>5, <1>6 DEF ProjectsInv, PageShape

(***************************************************************************)
(* What is known of a row that is clicked.                                 *)
(***************************************************************************)
LEMMA RowKnown ==
  ASSUME TabsInv, tab = "projects", NEW p \in DOMAIN page.row
  PROVE  /\ p \in ProjectRows(list) /\ PageShape(page)
         /\ RowFilled(p, RowNow(p), keys) /\ RowNow(p) \in RowRecord
         /\ ~broken => RowAwaits(p, RowNow(p), calls)
         /\ p \in Projects /\ p \in Nat
  <1>1. page.row = [q \in ProjectRows(list) |-> page.row[q]] /\ PageShape(page)
    BY DEF TabsInv, ProjectsInv, PageShape
  <1>2. p \in ProjectRows(list)
    BY <1>1
  <1>3. ProjectRows(list) \subseteq Projects
    BY DEF ProjectRows, TabsInv, SharedInv, ListInv, ListFits, RowsOfTab
  <1>4. /\ RowFilled(p, RowNow(p), keys)
        /\ ~broken => RowAwaits(p, RowNow(p), calls)
    BY <1>2 DEF TabsInv, ProjectsInv, RowNow
  <1>. QED
    BY <1>1, <1>2, <1>3, <1>4, ScopeNumbers DEF RowFilled

LEMMA FilledAlike ==
  ASSUME NEW p, NEW row, NEW next, NEW table, RowFilled(p, row, table),
         next \in RowRecord, next.keys = row.keys
  PROVE  RowFilled(p, next, table)
  BY DEF RowFilled

LEMMA RowClicked ==
  ASSUME TabsInv, NEW c, ClickStep(c), NEW p \in DOMAIN page.row, NEW row \in RowRecord,
         row.keys = RowNow(p).keys, NEW some,
         page' = WithRow(p, row) \/ page' = [WithRow(p, row) EXCEPT !.unclosed = some],
         calls' # calls => c.arg = p,
         ~broken => RowAwaits(p, row, calls')
  PROVE  SharedInv' /\ ProjectsInv' /\ tab' = "projects"
  <1>0. tab = "projects"
    BY DEF ClickStep
  <1>1. /\ SharedInv' /\ tab' = tab /\ broken' = broken /\ broken \in BOOLEAN
        /\ Grows(keys, keys') /\ keys' = keys /\ list' = list
        /\ ToSet(calls') \subseteq ToSet(calls) \cup {c}
        /\ \A q, op : Here(op, q, calls) \subseteq Here(op, q, calls')
        /\ Creates(calls) => Creates(calls')
    BY ClickKept
  <1>2. /\ p \in ProjectRows(list) /\ PageShape(page) /\ RowFilled(p, RowNow(p), keys)
    BY <1>0, RowKnown
  <1>3. Rowed(p, row)
    BY <1>2, RowedIs
  <1>4. RowFilled(p, row, keys')
    BY <1>1, <1>2, FilledAlike
  <1>5. \A d \in ToSet(calls') : d \in ToSet(calls) \/ d.arg = p
    BY <1>1
  <1>6. ProjectRows(list') = ProjectRows(list)
    BY <1>1
  <1>7. ProjectsInv'
    BY <1>0, <1>1, <1>2, <1>3, <1>4, <1>5, <1>6, RowKept DEF TabsInv
  <1>. QED
    BY <1>0, <1>1, <1>7

LEMMA RowAskedFits ==
  ASSUME AuthTypeOK, NEW op \in RowOps, NEW p \in Projects, NEW tok \in Nat
  PROVE  /\ CallFits(Ask(op, p, tok), "projects") /\ Ask(op, p, tok).op = op
         /\ Ask(op, p, tok).arg = p /\ Ask(op, p, tok).live = "here"
  <1>1. op \in CallOps /\ op \in OpsOf("projects") /\ op # "revoke" /\ p \in Nat
    BY ScopeNumbers DEF RowOps, CallOps, Writes, OpsOf
  <1>2. /\ Ask(op, p, tok) \in CallRecord /\ Ask(op, p, tok).op = op
        /\ Ask(op, p, tok).arg = p /\ Ask(op, p, tok).live = "here"
        /\ Ask(op, p, tok).then = "none"
    BY <1>1, AskIs
  <1>. QED
    BY <1>1, <1>2 DEF CallFits

LEMMA KeysCallFits ==
  ASSUME AuthTypeOK, NEW p \in Projects, NEW then, then \in {"none", "changed"}
  PROVE  /\ CallFits(KeysCall(p, then), "projects") /\ KeysCall(p, then).op = "keys"
         /\ KeysCall(p, then).arg = p /\ KeysCall(p, then).live = "here"
         /\ KeysCall(p, then).then = then
  <1>1. "keys" \in CallOps /\ "keys" \in OpsOf("projects") /\ "keys" # "revoke" /\ p \in Nat
    BY ScopeNumbers DEF RowOps, CallOps, Writes, OpsOf
  <1>2. /\ Ask("keys", p, 0) \in CallRecord /\ Ask("keys", p, 0).op = "keys"
        /\ Ask("keys", p, 0).arg = p /\ Ask("keys", p, 0).live = "here"
    BY <1>1, AskIs
  <1>. DEFINE c == KeysCall(p, then)
  <1>3. c \in CallRecord /\ c.op = "keys" /\ c.arg = p /\ c.live = "here" /\ c.then = then
    BY <1>2 DEF KeysCall, CallRecord
  <1>. HIDE DEF c
  <1>4. CallFits(c, "projects")
    BY <1>1, <1>3 DEF CallFits, RowOps
  <1>. QED
    BY <1>3, <1>4 DEF c

\* The call that follows a change of a row's keys.
KeysAgain(p, live) == [KeysCall(p, "changed") EXCEPT !.live = live]

LEMMA KeysAskFits ==
  ASSUME AuthTypeOK, NEW p, p \in Projects, NEW live, live \in {"here", "page"}
  PROVE  /\ CallFits(KeysAgain(p, live), "projects") /\ KeysAgain(p, live).op = "keys"
         /\ KeysAgain(p, live).arg = p /\ KeysAgain(p, live).live = live
         /\ KeysAgain(p, live).then = "changed"
  <1>1. "keys" \in OpsOf("projects") /\ "keys" \in RowOps /\ "keys" # "revoke"
    BY DEF RowOps, OpsOf
  <1>. DEFINE c == KeysCall(p, "changed")
              d == KeysAgain(p, live)
  <1>2. c \in CallRecord /\ c.op = "keys" /\ c.arg = p /\ c.then = "changed"
    BY KeysCallFits DEF CallFits
  <1>3. d = [c EXCEPT !.live = live]
    BY DEF KeysAgain
  <1>. HIDE DEF c, d
  <1>4. d \in CallRecord /\ d.op = "keys" /\ d.arg = p /\ d.live = live /\ d.then = "changed"
    BY <1>2, <1>3 DEF CallRecord
  <1>5. CallFits(d, "projects")
    BY <1>1, <1>4 DEF CallFits
  <1>. QED
    BY <1>4, <1>5 DEF d

LEMMA FormSet ==
  ASSUME NEW state, PageShape(state)
  PROVE  /\ PageShape([state EXCEPT !.form = ~state.form])
         /\ [state EXCEPT !.form = ~state.form].row = state.row
         /\ [state EXCEPT !.form = ~state.form].creating = state.creating
  BY DEF PageShape

LEMMA FormToggled ==
  ASSUME TabsInv, ToggleForm
  PROVE  SharedInv' /\ ProjectsInv' /\ tab' = "projects"
  <1>. DEFINE c == CHOOSE c : TRUE
  <1>1. ClickStep(c) /\ tab = "projects" /\ calls' = calls
        /\ page' = [page EXCEPT !.form = ~page.form]
    BY DEF ToggleForm, ClickStep, UsesProjects, scopeVars, server
  <1>. HIDE DEF c
  <1>2. PageShape(page)
    BY <1>1 DEF TabsInv, ProjectsInv, PageShape
  <1>3. /\ PageShape(page') /\ page'.row = page.row /\ page'.creating = page.creating
    BY <1>1, <1>2, FormSet
  <1>4. /\ SharedInv' /\ tab' = tab /\ broken' = broken /\ broken \in BOOLEAN
        /\ Grows(keys, keys') /\ list' = list
        /\ \A q, op : Here(op, q, calls) \subseteq Here(op, q, calls')
        /\ Creates(calls) => Creates(calls')
    BY <1>1, ClickKept
  <1>5. ~broken' /\ page'.creating => Creates(calls')
    BY <1>1, <1>3, <1>4 DEF TabsInv, ProjectsInv
  <1>6. ProjectsInv'
    BY <1>1, <1>3, <1>4, <1>5, RowsStay DEF TabsInv
  <1>. QED
    BY <1>1, <1>4, <1>6

LEMMA ProjectSubmitted ==
  ASSUME TabsInv, AuthTypeOK, SubmitProject
  PROVE  SharedInv' /\ ProjectsInv' /\ tab' = "projects"
  <1>. DEFINE c == Ask("createProject", 0, 0)
  <1>1. "createProject" \in CallOps /\ "createProject" \in OpsOf("projects")
        /\ "createProject" \notin RowOps
    BY DEF CallOps, Writes, OpsOf, RowOps
  <1>2. CallFits(c, "projects") /\ c.op = "createProject" /\ c.live = "here"
    BY <1>1, AskIs, AskFits
  <1>3. ClickStep(c) /\ tab = "projects" /\ calls' = Append(calls, c)
        /\ page' = [page EXCEPT !.creating = TRUE]
    BY <1>2 DEF SubmitProject, ClickStep, UsesProjects, scopeVars, server
  <1>. HIDE DEF c
  <1>4. PageShape(page)
    BY <1>3 DEF TabsInv, ProjectsInv, PageShape
  <1>5. PageShape(page') /\ page'.row = page.row
    BY <1>3, <1>4, ShapeSet
  <1>6. /\ SharedInv' /\ tab' = tab /\ broken' = broken /\ broken \in BOOLEAN
        /\ Grows(keys, keys') /\ list' = list
        /\ ToSet(calls') \subseteq ToSet(calls) \cup {c}
        /\ \A q, op : Here(op, q, calls) \subseteq Here(op, q, calls')
    BY <1>3, ClickKept
  <1>7. c \in ToSet(calls')
    <2>1. Fit(calls, "projects")
      BY <1>3 DEF TabsInv, SharedInv, CallsInv
    <2>. QED
      BY <1>2, <1>3, <2>1, AppendSet DEF CallFits
  <1>8. Creates(calls')
    BY <1>2, <1>7 DEF Creates, Waits
  <1>9. \A d \in ToSet(calls') : d.op \in RowOps => d \in ToSet(calls)
    BY <1>1, <1>2, <1>6
  <1>10. ProjectsInv'
    BY <1>3, <1>5, <1>6, <1>8, <1>9, RowsStay DEF TabsInv
  <1>. QED
    BY <1>3, <1>6, <1>10

\* What stays of a row when something else of it is set.
RowSame(row, next) ==
  /\ next \in RowRecord /\ next.keys = row.keys
  /\ next.loading = row.loading /\ next.creating = row.creating

LEMMA OpenSet ==
  ASSUME NEW row, row \in RowRecord
  PROVE  RowSame(row, [row EXCEPT !.open = ~row.open])
  BY DEF RowSame, RowRecord

LEMMA ConfirmSet ==
  ASSUME NEW row, row \in RowRecord, NEW n, n \in Nat
  PROVE  RowSame(row, [row EXCEPT !.confirm = n])
  BY DEF RowSame, RowRecord

LEMMA RevealSet ==
  ASSUME NEW row, row \in RowRecord, NEW n, n \in Nat
  PROVE  RowSame(row, [row EXCEPT !.reveal = n])
  BY DEF RowSame, RowRecord

LEMMA ErrorCleared ==
  ASSUME NEW row, row \in RowRecord
  PROVE  RowSame(row, [row EXCEPT !.error = FALSE])
  BY DEF RowSame, RowRecord

LEMMA LoadingSet ==
  ASSUME NEW row, row \in RowRecord
  PROVE  /\ LoadKeys(row) \in RowRecord /\ LoadKeys(row).keys = row.keys
         /\ LoadKeys(row).creating = row.creating
  BY DEF LoadKeys, RowRecord

LEMMA CreatingSet ==
  ASSUME NEW row, row \in RowRecord, NEW next,
         next = [row EXCEPT !.creating = TRUE, !.error = FALSE]
  PROVE  next \in RowRecord /\ next.keys = row.keys /\ next.loading = row.loading
  BY DEF RowRecord

\* A row whose flags stay awaits what it awaited.
LEMMA AwaitsAlike ==
  ASSUME NEW p, NEW row, NEW next, NEW some, RowAwaits(p, row, some),
         next.loading => row.loading, next.creating => row.creating
  PROVE  RowAwaits(p, next, some)
  BY DEF RowAwaits

LEMMA RowToggled ==
  ASSUME TabsInv, AuthTypeOK, NEW p \in Projects, ToggleRow(p)
  PROVE  SharedInv' /\ ProjectsInv' /\ tab' = "projects"
  <1>. DEFINE c == KeysCall(p, "none")
              opens == ~RowNow(p).open
              loads == opens /\ RowNow(p).keys = {}
              one == [RowNow(p) EXCEPT !.open = opens]
              row == IF loads THEN LoadKeys(one) ELSE one
              some == WithRow(p, row).unclosed \ {RowNow(p).reveal}
  <1>1. /\ tab = "projects" /\ p \in DOMAIN page.row
        /\ page' = [WithRow(p, row) EXCEPT !.unclosed = some]
        /\ calls' = IF loads THEN Append(calls, c) ELSE calls
        /\ Use /\ UNCHANGED <<authVars, server, scope, stored, list>>
    BY DEF ToggleRow, UsesProjects, scopeVars, server
  <1>2. CallFits(c, "projects") /\ c.op = "keys" /\ c.arg = p /\ c.live = "here"
    BY KeysCallFits
  <1>3. /\ RowNow(p) \in RowRecord /\ (~broken => RowAwaits(p, RowNow(p), calls))
    BY <1>1, RowKnown
  <1>4. RowSame(RowNow(p), one)
    BY <1>3, OpenSet
  <1>. HIDE DEF one
  <1>5. /\ row \in RowRecord /\ row.keys = RowNow(p).keys
        /\ row.creating = RowNow(p).creating
        /\ ~loads => row.loading = RowNow(p).loading
    BY <1>4, LoadingSet DEF RowSame
  <1>. HIDE DEF row, c, some
  <1>6. ClickStep(c)
    BY <1>1, <1>2 DEF ClickStep
  <1>7. /\ \A q, op : Here(op, q, calls) \subseteq Here(op, q, calls')
        /\ calls' # calls => c \in ToSet(calls')
    BY <1>6, ClickKept
  <1>8. ~broken => RowAwaits(p, row, calls')
    <2>. SUFFICES ASSUME ~broken PROVE RowAwaits(p, row, calls')
      OBVIOUS
    <2>1. RowAwaits(p, RowNow(p), calls')
      BY <1>3, <1>7, AwaitsMore
    <2>2. CASE ~loads
      BY <1>5, <2>1, <2>2, AwaitsAlike
    <2>3. CASE loads
      <3>1. c \in ToSet(calls')
        <4>1. Fit(calls, "projects")
          BY <1>1 DEF TabsInv, SharedInv, CallsInv
        <4>. HIDE DEF loads
        <4>. QED
          BY <1>1, <1>2, <2>3, <4>1, AppendSet DEF CallFits
      <3>2. Here("keys", p, calls') # {}
        BY <1>2, <3>1 DEF Here
      <3>. QED
        BY <1>5, <2>1, <3>2 DEF RowAwaits
    <2>. QED
      BY <2>2, <2>3
  <1>. HIDE DEF loads
  <1>. QED
    BY <1>1, <1>2, <1>5, <1>6, <1>8, RowClicked

LEMMA KeyAsked ==
  ASSUME TabsInv, AuthTypeOK, NEW p \in Projects, CreateKey(p)
  PROVE  SharedInv' /\ ProjectsInv' /\ tab' = "projects"
  <1>. DEFINE c == Ask("createKey", p, 0)
              row == [RowNow(p) EXCEPT !.creating = TRUE, !.error = FALSE]
  <1>1. /\ tab = "projects" /\ p \in DOMAIN page.row /\ page' = WithRow(p, row)
        /\ calls' = Append(calls, c)
        /\ Use /\ UNCHANGED <<authVars, server, scope, stored, list>>
    BY DEF CreateKey, RowOffers, UsesProjects, scopeVars, server
  <1>2. CallFits(c, "projects") /\ c.op = "createKey" /\ c.arg = p /\ c.live = "here"
    BY RowAskedFits DEF RowOps
  <1>3. RowNow(p) \in RowRecord /\ (~broken => RowAwaits(p, RowNow(p), calls))
    BY <1>1, RowKnown
  <1>4. row \in RowRecord /\ row.keys = RowNow(p).keys /\ row.loading = RowNow(p).loading
    BY <1>3, CreatingSet
  <1>. HIDE DEF row, c
  <1>5. ClickStep(c)
    BY <1>1, <1>2 DEF ClickStep
  <1>6. \A q, op : Here(op, q, calls) \subseteq Here(op, q, calls')
    BY <1>5, ClickKept
  <1>7. c \in ToSet(calls')
    <2>1. Fit(calls, "projects")
      BY <1>1 DEF TabsInv, SharedInv, CallsInv
    <2>. QED
      BY <1>1, <1>2, <2>1, AppendSet DEF CallFits
  <1>8. Here("createKey", p, calls') # {}
    BY <1>2, <1>7 DEF Here
  <1>9. ~broken => RowAwaits(p, row, calls')
    BY <1>3, <1>4, <1>6, <1>8 DEF RowAwaits
  <1>. QED
    BY <1>1, <1>2, <1>4, <1>5, <1>9, RowClicked

LEMMA KeyRevokeConfirmed ==
  ASSUME TabsInv, AuthTypeOK, NEW p \in Projects, ConfirmRevokeKey(p)
  PROVE  SharedInv' /\ ProjectsInv' /\ tab' = "projects"
  <1>. DEFINE k == RowNow(p).confirm
              c == Ask("revokeKey", p, k)
              row == [RowNow(p) EXCEPT !.error = FALSE]
  <1>1. /\ tab = "projects" /\ p \in DOMAIN page.row /\ page' = WithRow(p, row)
        /\ calls' = Append(calls, c)
        /\ Use /\ UNCHANGED <<authVars, server, scope, stored, list>>
    BY DEF ConfirmRevokeKey, UsesProjects, scopeVars, server
  <1>2. RowNow(p) \in RowRecord /\ (~broken => RowAwaits(p, RowNow(p), calls))
    BY <1>1, RowKnown
  <1>3. k \in Nat
    BY <1>2 DEF RowRecord
  <1>. HIDE DEF k
  <1>4. CallFits(c, "projects") /\ c.op = "revokeKey" /\ c.arg = p /\ c.live = "here"
    BY <1>3, RowAskedFits DEF RowOps
  <1>5. /\ row \in RowRecord /\ row.keys = RowNow(p).keys
        /\ row.loading = RowNow(p).loading /\ row.creating = RowNow(p).creating
    BY <1>2, ErrorCleared DEF RowSame
  <1>. HIDE DEF row, c
  <1>6. ClickStep(c)
    BY <1>1, <1>4 DEF ClickStep
  <1>7. \A q, op : Here(op, q, calls) \subseteq Here(op, q, calls')
    BY <1>6, ClickKept
  <1>8. ~broken => RowAwaits(p, row, calls')
    BY <1>2, <1>5, <1>7, AwaitsMore, AwaitsAlike
  <1>. QED
    BY <1>1, <1>4, <1>5, <1>6, <1>8, RowClicked

LEMMA RowAside ==
  ASSUME TabsInv, AuthTypeOK, NEW p \in Projects,
         (\E k \in 1 .. MaxKeys : AskToRevokeKey(p, k)) \/ CancelRevokeKey(p) \/ CloseReveal(p)
  PROVE  SharedInv' /\ ProjectsInv' /\ tab' = "projects"
  <1>. DEFINE some == page.unclosed \ {RowNow(p).reveal}
  <1>1. /\ tab = "projects" /\ p \in DOMAIN page.row /\ calls' = calls
        /\ Use /\ UNCHANGED <<authVars, server, scope, stored, list>>
    BY DEF AskToRevokeKey, CancelRevokeKey, CloseReveal, RowOffers, UsesProjects, scopeVars,
           server
  <1>2. /\ RowNow(p) \in RowRecord /\ (~broken => RowAwaits(p, RowNow(p), calls))
        /\ PageShape(page)
    BY <1>1, RowKnown
  <1>3. PICK row, other :
          /\ RowSame(RowNow(p), row)
          /\ page' = WithRow(p, row) \/ page' = [WithRow(p, row) EXCEPT !.unclosed = other]
    <2>1. ASSUME NEW k \in 1 .. MaxKeys, AskToRevokeKey(p, k)
          PROVE  /\ RowSame(RowNow(p), [RowNow(p) EXCEPT !.confirm = k])
                 /\ page' = WithRow(p, [RowNow(p) EXCEPT !.confirm = k])
      <3>1. k \in Nat /\ page' = WithRow(p, [RowNow(p) EXCEPT !.confirm = k])
        BY <2>1, DashboardAssumption DEF AskToRevokeKey
      <3>. QED
        BY <1>2, <3>1, ConfirmSet
    <2>2. ASSUME CancelRevokeKey(p)
          PROVE  /\ RowSame(RowNow(p), [RowNow(p) EXCEPT !.confirm = 0])
                 /\ page' = WithRow(p, [RowNow(p) EXCEPT !.confirm = 0])
      <3>1. 0 \in Nat /\ page' = WithRow(p, [RowNow(p) EXCEPT !.confirm = 0])
        BY <2>2 DEF CancelRevokeKey
      <3>. QED
        BY <1>2, <3>1, ConfirmSet
    <2>3. ASSUME CloseReveal(p)
          PROVE  /\ RowSame(RowNow(p), [RowNow(p) EXCEPT !.reveal = 0])
                 /\ page' = [WithRow(p, [RowNow(p) EXCEPT !.reveal = 0]) EXCEPT
                               !.unclosed = WithRow(p, [RowNow(p) EXCEPT !.reveal = 0]).unclosed
                                              \ {RowNow(p).reveal}]
      <3>1. 0 \in Nat
        OBVIOUS
      <3>2. RowSame(RowNow(p), [RowNow(p) EXCEPT !.reveal = 0])
        BY <1>2, <3>1, RevealSet
      <3>. QED
        BY <2>3, <3>2 DEF CloseReveal
    <2>. QED
      BY <2>1, <2>2, <2>3
  <1>. DEFINE c == CHOOSE c : TRUE
  <1>4. ClickStep(c)
    BY <1>1 DEF ClickStep
  <1>. HIDE DEF c
  <1>5. ~broken => RowAwaits(p, row, calls')
    BY <1>1, <1>2, <1>3, AwaitsAlike DEF RowSame
  <1>. QED
    BY <1>1, <1>3, <1>4, <1>5, RowClicked DEF RowSame

LEMMA ProjectClicksKept ==
  ASSUME TabsInv, AuthTypeOK, ProjectClicks
  PROVE  SharedInv' /\ ProjectsInv' /\ tab' = "projects"
  BY FormToggled, ProjectSubmitted, RowToggled, KeyAsked, KeyRevokeConfirmed, RowAside
  DEF ProjectClicks

-----------------------------------------------------------------------------
(***************************************************************************)
(* The answers of the tab Projects.  First what the list's answer, or its  *)
(* refresh, does to the rows and to their calls.                           *)
(***************************************************************************)
LEMMA UnrowHere ==
  ASSUME NEW s, NEW pages, NEW where, Fit(s, where)
  PROVE  \A c \in ToSet(Unrow(s, pages)) :
           c.op \in RowOps /\ c.live = "here" => c.arg \in ProjectRows(pages)
  <1>. DEFINE gone == ProjectRows(pages)
  <1>1. DOMAIN Unrow(s, pages) = DOMAIN s
    BY DEF Unrow
  <1>2. \A i \in DOMAIN s :
          \/ /\ s[i].op \in RowOps /\ s[i].live = "here" /\ s[i].arg \notin gone
             /\ Unrow(s, pages)[i] = [s[i] EXCEPT !.live = "page"]
          \/ /\ ~(s[i].op \in RowOps /\ s[i].live = "here" /\ s[i].arg \notin gone)
             /\ Unrow(s, pages)[i] = s[i]
    BY DEF Unrow
  <1>. DEFINE t == Unrow(s, pages)
  <1>. HIDE DEF gone, t
  <1>3. \A c \in CallRecord : [c EXCEPT !.live = "page"].live # "here"
    BY DEF CallRecord
  <1>4. \A i \in DOMAIN s : s[i] \in CallRecord
    BY ElementOfSeq, LenProperties DEF Fit
  <1>5. \A i \in DOMAIN s : t[i].op \in RowOps /\ t[i].live = "here" => t[i].arg \in gone
    <2>. TAKE i \in DOMAIN s
    <2>1. t[i] = s[i] \/ t[i] = [s[i] EXCEPT !.live = "page"]
      BY <1>2 DEF t
    <2>2. t[i].live = "here" => t[i] = s[i]
      BY <1>3, <1>4, <2>1
    <2>3. CASE s[i].op \in RowOps /\ s[i].live = "here" /\ s[i].arg \notin gone
      <3>1. t[i] = [s[i] EXCEPT !.live = "page"]
        BY <1>2, <2>3 DEF t
      <3>. QED
        BY <1>3, <1>4, <3>1
    <2>. QED
      BY <2>2, <2>3
  <1>. QED
    BY <1>1, <1>5 DEF ToSet, t, gone

LEMMA MountedIs ==
  ASSUME NEW state, PageShape(state), NEW pages, NEW next, next = Mounted(state, pages)
  PROVE  /\ PageShape(next) /\ next.creating = state.creating
         /\ next.row = [p \in ProjectRows(pages) |->
                          IF p \in DOMAIN state.row THEN state.row[p] ELSE NewRow]
  <1>. DEFINE some == [p \in ProjectRows(pages) |->
                         IF p \in DOMAIN state.row THEN state.row[p] ELSE NewRow]
  <1>1. next = [state EXCEPT !.row = some]
    BY DEF Mounted
  <1>. HIDE DEF some
  <1>2. LET set == [state EXCEPT !.row = some] IN
          PageShape(set) /\ set.creating = state.creating /\ set.row = some
    BY ShapeSet
  <1>. QED
    BY <1>1, <1>2 DEF some

LEMMA NoRowsYet ==
  ASSUME NEW pages, pages \in ListRecord
  PROVE  /\ ProjectRows(Refresh(pages)) = {} /\ Refresh(pages).loading
  BY DEF ProjectRows, Refresh, FetchPage, Reset, ListRecord

LEMMA Refreshed ==
  ASSUME TabsInv, AuthTypeOK, tab = "projects", tab' = tab, NEW state, PageShape(state),
         NEW then \in {"none", "created"}, NEW before, Fit(before, "projects"),
         RefreshProjects(state, then, before), ServerInv', UNCHANGED <<scope, stored>>,
         broken' \in BOOLEAN, broken => broken',
         Waits(calls, {"projects"}) \subseteq Waits(before, {"projects"}),
         ~broken' /\ state.creating => then = "created" \/ Creates(before)
  PROVE  SharedInv' /\ ProjectsInv'
  <1>. DEFINE t == Unrow(before, Refresh(list))
              c == ListCall(0, 0, then)
  <1>1. list' = Refresh(list) /\ calls' = Append(t, c) /\ page' = Mounted(state, list')
    BY DEF RefreshProjects, RefreshList
  <1>2. CallFits(c, "projects") /\ c.op = "list" /\ c.live = "here" /\ c.then = then
    <2>1. "projects" \in ListPages /\ 0 \in Nat
      BY DEF ListPages
    <2>. QED
      BY <2>1, ListCallIs
  <1>3. Fit(t, "projects")
    BY FitUnrow
  <1>4. /\ \A d \in ToSet(t) : d.op \in RowOps => d.live # "here"
        /\ \A d \in ToSet(before) : d.op \notin RowOps => d \in ToSet(t)
        /\ list' \in ListRecord /\ ListFits(list', "projects") /\ ProjectRows(list') = {}
    <2>1. ListFits(list, "projects")
      BY DEF TabsInv, SharedInv, ListInv
    <2>2. ListFits(list', "projects") /\ ProjectRows(list') = {}
      BY <1>1, <2>1, RefreshFits, NoRowsYet DEF ListFits
    <2>3. \A d \in ToSet(t) : d.op \in RowOps /\ d.live = "here" => d.arg \in ProjectRows(list')
      BY <1>1, UnrowHere
    <2>4. \A d \in ToSet(before) : d.op \notin RowOps => d \in ToSet(t)
      BY UnrowSet
    <2>. QED
      BY <2>2, <2>3, <2>4 DEF ListFits
  <1>. HIDE DEF t, c
  <1>5. Fit(Append(t, c), "projects") /\ ToSet(Append(t, c)) = ToSet(t) \cup {c}
    BY <1>2, <1>3, FitAppend, AppendSet DEF CallFits
  <1>6. /\ \A d \in ToSet(before) : d.op \notin RowOps => d \in ToSet(calls')
        /\ c \in ToSet(calls')
        /\ \A d \in ToSet(calls') : d.op \in RowOps => d.live # "here"
    BY <1>1, <1>2, <1>4, <1>5 DEF RowOps
  <1>7. /\ Waits(calls', {"list"}) # {}
        /\ Waits(calls, {"projects"}) \subseteq Waits(calls', {"projects"})
        /\ Creates(before) \/ then = "created" => Creates(calls')
    <2>1. c \in Waits(calls', {"list"})
      BY <1>2, <1>6 DEF Waits
    <2>2. \A op \in {"projects", "list", "createProject"} :
            Waits(before, {op}) \subseteq Waits(calls', {op})
      BY <1>6 DEF Waits, RowOps
    <2>. QED
      BY <1>2, <2>1, <2>2 DEF Creates
  <1>8. SharedInv'
    <2>1. CallsInv' /\ ListInv'
      BY <1>1, <1>4, <1>5, <1>7 DEF CallsInv, ListInv
    <2>2. ScopeInv'
      BY <1>7 DEF TabsInv, SharedInv, ScopeInv
    <2>. QED
      BY <2>1, <2>2 DEF SharedInv
  <1>9. /\ PageShape(page') /\ page'.creating = state.creating
        /\ page'.row = [p \in {} |-> IF p \in DOMAIN state.row THEN state.row[p] ELSE NewRow]
    <2>. DEFINE pages == list'
    <2>. HIDE DEF pages
    <2>1. page' = Mounted(state, pages) /\ ProjectRows(pages) = {}
      BY <1>1, <1>4 DEF pages
    <2>2. /\ PageShape(page') /\ page'.creating = state.creating
          /\ page'.row = [p \in ProjectRows(pages) |->
                            IF p \in DOMAIN state.row THEN state.row[p] ELSE NewRow]
      BY <2>1, MountedIs
    <2>. QED
      BY <2>1, <2>2
  <1>10. page'.row = [p \in {} |-> page'.row[p]]
    BY <1>9
  <1>11. ProjectsInv'
    BY <1>4, <1>6, <1>7, <1>9, <1>10 DEF ProjectsInv, PageShape
  <1>. QED
    BY <1>8, <1>11

(***************************************************************************)
(* The answer to the list: rows that stay keep their state, the others are *)
(* new.                                                                    *)
(***************************************************************************)
LEMMA NewRowFits ==
  ASSUME NEW p, NEW table, NEW some
  PROVE  RowFilled(p, NewRow, table) /\ RowAwaits(p, NewRow, some)
  BY DEF RowFilled, RowAwaits, NewRow, RowRecord

LEMMA CreatingEnds ==
  ASSUME NEW state, PageShape(state), NEW ends \in BOOLEAN, NEW next,
         next = [state EXCEPT !.creating = @ /\ ends]
  PROVE  /\ PageShape(next) /\ next.row = state.row
         /\ next.creating => state.creating /\ ends
  BY DEF PageShape

LEMMA ProjectsArrived ==
  ASSUME TabsInv, tab = "projects", NEW i \in DOMAIN calls, NEW how \in Hows,
         ListAnswered(i, how)
  PROVE  SharedInv' /\ ProjectsInv' /\ tab' = "projects"
  <1>. DEFINE c == calls[i]
              left == RemoveAt(calls, i)
              from == Listable(tab, c.as, c.arg)
              after == IF how = "ok" THEN PageArrived(list, c.tok, Listing(from, c.tok))
                       ELSE PageFailed(list)
              ends == c.then # "created"
              state == [page EXCEPT !.creating = @ /\ ends]
              R == ProjectRows(list')
              old == page.row
  <1>1. /\ c.op = "list" /\ Comes(how) /\ list' = after /\ page' = Mounted(state, list')
        /\ calls' = Unrow(left, list') /\ UNCHANGED <<server, scope, stored>> /\ tab' = tab
    BY OnTab DEF ListAnswered, scopeVars
  <1>2. /\ SharedInv /\ Fit(calls, "projects") /\ ListFits(list, "projects")
        /\ broken \in BOOLEAN /\ ServerInv
    BY DEF TabsInv, SharedInv, CallsInv, ListInv, ScopeInv
  <1>3. broken' \in BOOLEAN /\ (broken => broken')
    BY <1>1, <1>2, BrokenStays
  <1>4. ListFits(list', "projects") /\ ~list'.loading
    <2>1. from \subseteq RowsOfTab("projects")
      BY ListableFits
    <2>. HIDE DEF from, c
    <2>. QED
      BY <1>1, <1>2, <2>1, ArrivedFits, FailedFits
  <1>. HIDE DEF after, from
  <1>5. /\ Fit(left, "projects") /\ c \in ToSet(calls)
        /\ ToSet(left) \subseteq ToSet(calls) /\ ToSet(calls) \subseteq ToSet(left) \cup {c}
    BY <1>2, TakeOff, RemoveSet, InSet
  <1>6. /\ PageShape(state) /\ state.row = old
        /\ state.creating => page.creating /\ ends
    <2>1. PageShape(page) /\ ends \in BOOLEAN
      BY DEF TabsInv, ProjectsInv, PageShape
    <2>. HIDE DEF ends
    <2>. QED
      BY <2>1, CreatingEnds
  <1>. HIDE DEF state, left
  <1>7. /\ \A d \in ToSet(calls') :
             d.op \in RowOps /\ d.live = "here" => d.arg \in R /\ d \in ToSet(calls)
        /\ \A d \in ToSet(calls) :
             \/ d \in ToSet(calls') \/ d = c
             \/ d.op \in RowOps /\ d.arg \notin R
        /\ Fit(calls', "projects")
    <2>1. /\ Fit(Unrow(left, list'), "projects")
          /\ \A d \in ToSet(Unrow(left, list')) :
               d.op \in RowOps /\ d.live = "here" => d.arg \in R
          /\ \A d \in ToSet(Unrow(left, list')) :
               d \in ToSet(left) \/ (d.op \in RowOps /\ d.live = "page")
          /\ \A d \in ToSet(left) :
               \/ d \in ToSet(Unrow(left, list'))
               \/ d.op \in RowOps /\ d.live = "here" /\ d.arg \notin R
      BY <1>5, FitUnrow, UnrowHere, UnrowSet
    <2>. HIDE DEF R, c
    <2>. QED
      BY <1>1, <1>5, <2>1
  <1>8. SharedInv'
    <2>1. Waits(calls, {"projects"}) \subseteq Waits(calls', {"projects"})
      BY <1>1, <1>7 DEF Waits, RowOps
    <2>2. ScopeInv'
      BY <1>1, <1>2, <1>3, <2>1 DEF SharedInv, ScopeInv
    <2>3. CallsInv' /\ ListInv'
      BY <1>1, <1>4, <1>7 DEF CallsInv, ListInv
    <2>4. ServerInv'
      BY <1>1, <1>2, ServerKept
    <2>. QED
      BY <2>2, <2>3, <2>4 DEF SharedInv
  <1>9. /\ PageShape(page') /\ page'.creating = state.creating
        /\ page'.row = [p \in R |-> IF p \in DOMAIN old THEN old[p] ELSE NewRow]
    <2>. DEFINE pages == list'
    <2>1. /\ PageShape(page') /\ page'.creating = state.creating
          /\ page'.row = [p \in ProjectRows(pages) |->
                            IF p \in DOMAIN state.row THEN state.row[p] ELSE NewRow]
      <3>. HIDE DEF pages
      <3>1. page' = Mounted(state, pages)
        BY <1>1 DEF pages
      <3>. QED
        BY <1>6, <3>1, MountedIs
    <2>. HIDE DEF old
    <2>. QED
      BY <1>6, <2>1
  <1>10. /\ \A p \in DOMAIN old : RowFilled(p, old[p], keys)
         /\ ~broken => \A p \in DOMAIN old : RowAwaits(p, old[p], calls)
         /\ ~broken /\ page.creating => Creates(calls)
    BY DEF TabsInv, ProjectsInv
  <1>. HIDE DEF old
  <1>11. \A p \in R : \A op \in RowOps : Here(op, p, calls) \subseteq Here(op, p, calls')
    <2>. HIDE DEF R, c
    <2>. SUFFICES ASSUME NEW p \in R, NEW op \in RowOps, NEW d \in Here(op, p, calls)
                  PROVE  d \in Here(op, p, calls')
      OBVIOUS
    <2>1. d \in ToSet(calls) /\ d.op = op /\ d.live = "here" /\ d.arg = p /\ d # c
      BY <1>1 DEF Here, RowOps
    <2>. QED
      BY <1>7, <2>1 DEF Here
  <1>12. ASSUME NEW p \in R
         PROVE  RowFilled(p, page'.row[p], keys) /\ (~broken' => RowAwaits(p, page'.row[p], calls'))
    <2>. HIDE DEF R
    <2>1. CASE p \in DOMAIN old
      <3>1. page'.row[p] = old[p]
        BY <1>9, <1>12, <2>1
      <3>. QED
        BY <1>3, <1>10, <1>11, <1>12, <2>1, <3>1, AwaitsMore
    <2>2. CASE p \notin DOMAIN old
      <3>1. page'.row[p] = NewRow
        BY <1>9, <1>12, <2>2
      <3>. QED
        BY <3>1, NewRowFits
    <2>. QED
      BY <2>1, <2>2
  <1>13. ~broken' /\ page'.creating => Creates(calls')
    <2>. SUFFICES ASSUME ~broken', page'.creating PROVE Creates(calls')
      OBVIOUS
    <2>. HIDE DEF R, c
    <2>1. Creates(calls) /\ ends
      BY <1>3, <1>6, <1>9, <1>10
    <2>2. CASE Waits(calls, {"createProject"}) # {}
      <3>1. PICK d \in ToSet(calls) : d.op = "createProject" /\ d.live # "gone"
        BY <2>2 DEF Waits
      <3>2. d \in ToSet(calls')
        BY <1>1, <1>7, <3>1 DEF RowOps
      <3>. QED
        BY <3>1, <3>2 DEF Creates, Waits
    <2>3. CASE \E d \in Waits(calls, {"list"}) : d.then = "created"
      <3>1. PICK d \in ToSet(calls) : d.op = "list" /\ d.live # "gone" /\ d.then = "created"
        BY <2>3 DEF Waits
      <3>2. d \in ToSet(calls')
        BY <1>7, <2>1, <3>1 DEF RowOps
      <3>. QED
        BY <3>1, <3>2 DEF Creates, Waits
    <2>. QED
      BY <2>1, <2>2, <2>3 DEF Creates
  <1>14. keys' = keys
    BY <1>1 DEF server
  <1>15. page'.row = [p \in R |-> page'.row[p]]
    <2>. HIDE DEF R
    <2>. QED
      BY <1>9
  <1>16. ProjectsInv'
    BY <1>7, <1>9, <1>12, <1>13, <1>14, <1>15 DEF ProjectsInv, PageShape
  <1>. QED
    BY <1>1, <1>8, <1>16

(***************************************************************************)
(* A call of the tab is answered: it goes, and perhaps another comes.      *)
(***************************************************************************)
AnswerStep(c, d, how) ==
  /\ tab = "projects" /\ tab' = tab /\ Comes(how) /\ c \in ToSet(calls)
  /\ c.op \notin {"list", "projects"} /\ UNCHANGED <<list, scope, stored>>
  /\ Fit(calls', "projects")
  /\ \A e \in ToSet(calls) : e = c \/ e \in ToSet(calls')
  /\ \A e \in ToSet(calls') : e \in ToSet(calls) \/ (e = d /\ d.op \in RowOps /\ d.arg = c.arg)

LEMMA AnswerIs ==
  ASSUME TabsInv, tab = "projects", NEW i \in DOMAIN calls, NEW how, Comes(how),
         tab' = tab, UNCHANGED <<list, scope, stored>>,
         calls[i].op \notin {"list", "projects"}, NEW d,
         \/ calls' = RemoveAt(calls, i)
         \/ /\ calls' = Append(RemoveAt(calls, i), d) /\ CallFits(d, "projects")
            /\ d.op \in RowOps /\ d.arg = calls[i].arg
  PROVE  /\ AnswerStep(calls[i], d, how)
         /\ calls' # RemoveAt(calls, i) => d \in ToSet(calls')
  <1>. DEFINE c == calls[i]
              left == RemoveAt(calls, i)
  <1>1. Fit(calls, "projects")
    BY DEF TabsInv, SharedInv, CallsInv
  <1>2. /\ Fit(left, "projects") /\ c \in ToSet(calls)
        /\ ToSet(left) \subseteq ToSet(calls) /\ ToSet(calls) \subseteq ToSet(left) \cup {c}
    BY <1>1, TakeOff, RemoveSet, InSet
  <1>. HIDE DEF left, c
  <1>3. CASE calls' = left
    BY <1>2, <1>3 DEF AnswerStep, c, left
  <1>4. CASE /\ calls' = Append(left, d) /\ CallFits(d, "projects")
             /\ d.op \in RowOps /\ d.arg = c.arg
    <2>1. Fit(Append(left, d), "projects") /\ ToSet(Append(left, d)) = ToSet(left) \cup {d}
      BY <1>2, <1>4, FitAppend, AppendSet DEF CallFits
    <2>2. /\ Fit(calls', "projects") /\ d \in ToSet(calls')
          /\ \A e \in ToSet(calls) : e = c \/ e \in ToSet(calls')
          /\ \A e \in ToSet(calls') :
               e \in ToSet(calls) \/ (e = d /\ d.op \in RowOps /\ d.arg = c.arg)
      BY <1>2, <1>4, <2>1
    <2>. QED
      BY <1>2, <2>2 DEF AnswerStep, c
  <1>. QED
    BY <1>3, <1>4 DEF c, left

LEMMA AnswerKept ==
  ASSUME TabsInv, NEW c, NEW d, NEW how, AnswerStep(c, d, how), ServerInv', Grows(keys, keys')
  PROVE  /\ SharedInv' /\ broken' \in BOOLEAN /\ (broken => broken')
         /\ how = "break" => broken'
         /\ CallFits(c, "projects") /\ Fit(calls, "projects")
         /\ ProjectRows(list') = ProjectRows(list)
         /\ \A op, q : c.op # op \/ c.live # "here" \/ c.arg # q
                         => Here(op, q, calls) \subseteq Here(op, q, calls')
         /\ c.op # "createProject" /\ Creates(calls) => Creates(calls')
  <1>1. SharedInv /\ Fit(calls, "projects") /\ broken \in BOOLEAN
    BY DEF TabsInv, SharedInv, CallsInv, ScopeInv, AnswerStep
  <1>2. broken' \in BOOLEAN /\ (broken => broken') /\ (how = "break" => broken')
    BY <1>1, BrokenStays DEF AnswerStep
  <1>3. \A ops : c.op \notin ops => Waits(calls, ops) \subseteq Waits(calls', ops)
    BY DEF AnswerStep, Waits
  <1>4. /\ Waits(calls, {"list"}) \subseteq Waits(calls', {"list"})
        /\ Waits(calls, {"projects"}) \subseteq Waits(calls', {"projects"})
        /\ c.op # "createProject" =>
             Waits(calls, {"createProject"}) \subseteq Waits(calls', {"createProject"})
    BY <1>3 DEF AnswerStep
  <1>5. SharedInv'
    BY <1>1, <1>2, <1>4, SharedKept DEF SharedStep, AnswerStep
  <1>6. c.op # "createProject" /\ Creates(calls) => Creates(calls')
    BY <1>4 DEF Creates
  <1>7. \A op, q : c.op # op \/ c.live # "here" \/ c.arg # q
                         => Here(op, q, calls) \subseteq Here(op, q, calls')
    BY DEF AnswerStep, Here
  <1>8. CallFits(c, "projects") /\ ProjectRows(list') = ProjectRows(list)
    BY <1>1, SetOfFit DEF AnswerStep
  <1>. QED
    BY <1>1, <1>2, <1>5, <1>6, <1>7, <1>8

LEMMA ListedHere ==
  ASSUME NEW c, NEW d, NEW how, AnswerStep(c, d, how)
  PROVE  \A e \in ToSet(calls') : e.op \in RowOps /\ e.live = "here" =>
           e \in ToSet(calls) \/ (e = d /\ d.arg = c.arg /\ d.live = "here")
  BY DEF AnswerStep

(***************************************************************************)
(* The connection broke: nothing is done with the answer.                  *)
(***************************************************************************)
LEMMA AnswerBroke ==
  ASSUME TabsInv, NEW c, NEW d, AnswerStep(c, d, "break"), d.live # "here", page' = page,
         ServerInv', Grows(keys, keys')
  PROVE  SharedInv' /\ ProjectsInv'
  <1>1. SharedInv' /\ broken' /\ ProjectRows(list') = ProjectRows(list)
        /\ tab = "projects" /\ tab' = tab
    BY AnswerKept DEF AnswerStep
  <1>2. \A e \in ToSet(calls') : e.op \in RowOps /\ e.live = "here" => e \in ToSet(calls)
    BY ListedHere
  <1>3. \A p \in ProjectRows(list) : RowFilled(p, page.row[p], keys')
    BY <1>1, FilledStays DEF TabsInv, ProjectsInv
  <1>4. ProjectsInv'
    BY <1>1, <1>2, <1>3 DEF TabsInv, ProjectsInv
  <1>. QED
    BY <1>1, <1>4

(***************************************************************************)
(* The row that called is gone: the answer finds the tab alone.            *)
(***************************************************************************)
LEMMA AnswerAside ==
  ASSUME TabsInv, NEW c, NEW d, NEW how, AnswerStep(c, d, how), c.live = "page",
         d.live # "here", page' = page, ServerInv', Grows(keys, keys')
  PROVE  SharedInv' /\ ProjectsInv'
  <1>1. /\ SharedInv' /\ broken' \in BOOLEAN /\ (broken => broken')
        /\ ProjectRows(list') = ProjectRows(list) /\ tab = "projects" /\ tab' = tab
        /\ CallFits(c, "projects")
        /\ \A op, q : Here(op, q, calls) \subseteq Here(op, q, calls')
        /\ c.op # "createProject" /\ Creates(calls) => Creates(calls')
    BY AnswerKept DEF AnswerStep
  <1>2. \A e \in ToSet(calls') : e.op \in RowOps /\ e.live = "here" => e \in ToSet(calls)
    BY ListedHere
  <1>3. c.op # "createProject"
    BY <1>1 DEF CallFits, RowOps
  <1>4. PageShape(page') /\ page'.row = page.row
        /\ (~broken' /\ page'.creating => Creates(calls'))
    BY <1>1, <1>3 DEF TabsInv, ProjectsInv, PageShape
  <1>5. ProjectsInv'
    BY <1>1, <1>2, <1>4, RowsStay DEF TabsInv
  <1>. QED
    BY <1>1, <1>5

(***************************************************************************)
(* The row is there: it changes, and awaits what it did, or what comes.    *)
(***************************************************************************)
LEMMA AnswerInRow ==
  ASSUME TabsInv, NEW c, NEW d, NEW how, AnswerStep(c, d, how), c.live = "here",
         c.op \in RowOps, NEW row,
         NEW some, page' = WithRow(c.arg, row) \/ page' = [WithRow(c.arg, row) EXCEPT !.unclosed = some],
         ServerInv', Grows(keys, keys'), RowFilled(c.arg, row, keys'),
         ~broken' => RowAwaits(c.arg, row, calls')
  PROVE  SharedInv' /\ ProjectsInv'
  <1>. DEFINE p == c.arg
  <1>1. /\ SharedInv' /\ broken' \in BOOLEAN /\ (broken => broken')
        /\ ProjectRows(list') = ProjectRows(list) /\ tab = "projects" /\ tab' = tab
        /\ \A op, q : c.op # op \/ c.live # "here" \/ c.arg # q
                        => Here(op, q, calls) \subseteq Here(op, q, calls')
        /\ c.op # "createProject" /\ Creates(calls) => Creates(calls')
    BY AnswerKept DEF AnswerStep
  <1>2. c \in ToSet(calls)
    BY DEF AnswerStep
  <1>3. p \in ProjectRows(list) /\ PageShape(page)
    BY <1>1, <1>2 DEF TabsInv, ProjectsInv, PageShape
  <1>4. Rowed(p, row)
    BY <1>3, RowedIs
  <1>5. \A q : q # p => \A op \in RowOps : Here(op, q, calls) \subseteq Here(op, q, calls')
    BY <1>1
  <1>6. \A e \in ToSet(calls') : e.op \in RowOps /\ e.live = "here" => e \in ToSet(calls) \/ e.arg = p
    BY ListedHere
  <1>7. c.op # "createProject"
    BY DEF RowOps
  <1>. HIDE DEF p
  <1>8. RowFilled(p, row, keys') /\ (~broken' => RowAwaits(p, row, calls'))
    BY DEF p
  <1>9. ~broken' /\ Creates(calls) => Creates(calls')
    BY <1>1, <1>7
  <1>10. ProjectsInv'
    BY <1>1, <1>3, <1>4, <1>5, <1>6, <1>8, <1>9, RowKept DEF TabsInv
  <1>. QED
    BY <1>1, <1>10

\* What is known of the row a call was made by.
LEMMA RowOfCall ==
  ASSUME TabsInv, tab = "projects", NEW c \in ToSet(calls), c.live = "here", c.op \in RowOps
  PROVE  /\ c.arg \in DOMAIN page.row /\ RowFilled(c.arg, RowNow(c.arg), keys)
         /\ RowNow(c.arg) \in RowRecord
         /\ ~broken => RowAwaits(c.arg, RowNow(c.arg), calls)
  <1>1. c.arg \in ProjectRows(list) /\ page.row = [p \in ProjectRows(list) |-> page.row[p]]
    BY DEF TabsInv, ProjectsInv
  <1>2. c.arg \in DOMAIN page.row
    BY <1>1
  <1>. QED
    BY <1>2, RowKnown

(***************************************************************************)
(* The four answers.  Off the tab they find nobody.                        *)
(***************************************************************************)
LEMMA FormClosed ==
  ASSUME NEW state, PageShape(state)
  PROVE  /\ PageShape([state EXCEPT !.form = FALSE])
         /\ PageShape([state EXCEPT !.creating = FALSE])
         /\ [state EXCEPT !.creating = FALSE].row = state.row
         /\ ~[state EXCEPT !.creating = FALSE].creating
  <1>1. \A no \in BOOLEAN : PageShape([state EXCEPT !.form = no])
    BY ShapeSet
  <1>2. \A no \in BOOLEAN : /\ PageShape([state EXCEPT !.creating = no])
                            /\ [state EXCEPT !.creating = no].row = state.row
                            /\ [state EXCEPT !.creating = no].creating = no
    BY ShapeSet, ZenonT(40)
  <1>3. FALSE \in BOOLEAN
    OBVIOUS
  <1>. QED
    BY <1>1, <1>2, <1>3, Zenon

LEMMA ProjectMade ==
  ASSUME TabsInv, AuthTypeOK, NEW i \in DOMAIN calls, NEW how \in Hows,
         ProjectCreated(i, how), calls[i].live # "gone"
  PROVE  SharedInv' /\ ProjectsInv' /\ tab' = "projects"
  <1>. DEFINE c == calls[i]
              left == RemoveAt(calls, i)
  <1>1. /\ c.op = "createProject" /\ Comes(how) /\ UNCHANGED <<scope, stored, rows, revoked, keys>>
        /\ Effect(how, \E p \in ProjectsOf(None) : owner' = [owner EXCEPT ![p] = c.as], owner)
        /\ tab' = tab
        /\ \/ how = "break" /\ calls' = left /\ page' = page /\ list' = list
           \/ /\ how = "error" /\ calls' = left /\ list' = list
              /\ page' = [page EXCEPT !.creating = FALSE]
           \/ how = "ok" /\ RefreshProjects([page EXCEPT !.form = FALSE], "created", left)
    BY OnTab DEF ProjectCreated, UsesProjects, scopeVars, Hows
  <1>2. SharedInv /\ Fit(calls, tab) /\ ServerInv /\ broken \in BOOLEAN
    BY DEF TabsInv, SharedInv, CallsInv, ScopeInv
  <1>3. CallFits(c, tab)
    BY <1>2 DEF Fit
  <1>4. tab = "projects" /\ c.live = "here" /\ c.as \in Persons
    BY <1>1, <1>3 DEF CallFits, CallRecord, OpsOf, RowOps
  <1>5. ServerInv' /\ Grows(keys, keys')
    BY <1>1, <1>2, <1>4, ProjectTakes
  <1>6. PageShape(page)
    BY <1>4 DEF TabsInv, ProjectsInv, PageShape
  <1>. DEFINE d == [live |-> "gone"]
  <1>7. d.live # "here"
    OBVIOUS
  <1>. HIDE DEF d
  <1>8. calls' = left /\ list' = list => AnswerStep(c, d, how)
    BY <1>1, <1>4, AnswerIs
  <1>. HIDE DEF c, left
  <1>9. CASE how = "break"
    BY <1>1, <1>4, <1>5, <1>7, <1>8, <1>9, AnswerBroke
  <1>10. CASE how = "error"
    <2>1. AnswerStep(c, d, how) /\ page' = [page EXCEPT !.creating = FALSE]
      BY <1>1, <1>8, <1>10
    <2>2. /\ SharedInv' /\ broken' \in BOOLEAN /\ (broken => broken')
          /\ ProjectRows(list') = ProjectRows(list)
          /\ \A op, q : c.op # op => Here(op, q, calls) \subseteq Here(op, q, calls')
      BY <1>5, <2>1, AnswerKept
    <2>3. \A q : \A op \in RowOps : Here(op, q, calls) \subseteq Here(op, q, calls')
      BY <1>1, <2>2 DEF RowOps
    <2>4. \A e \in ToSet(calls') : e.op \in RowOps /\ e.live = "here" => e \in ToSet(calls)
      BY <1>7, <2>1, ListedHere
    <2>5. PageShape(page') /\ page'.row = page.row /\ ~page'.creating
      BY <1>6, <2>1, FormClosed
    <2>6. ProjectsInv'
      BY <1>1, <1>4, <1>5, <2>2, <2>3, <2>4, <2>5, RowsStay DEF TabsInv
    <2>. QED
      BY <1>1, <1>4, <2>2, <2>6
  <1>11. CASE how = "ok"
    <2>1. RefreshProjects([page EXCEPT !.form = FALSE], "created", left)
      BY <1>1, <1>11
    <2>2. PageShape([page EXCEPT !.form = FALSE])
      BY <1>6, FormClosed
    <2>3. broken' \in BOOLEAN /\ (broken => broken')
      BY <1>1, <1>2, BrokenStays
    <2>4. /\ Fit(left, "projects")
          /\ Waits(calls, {"projects"}) \subseteq Waits(left, {"projects"})
      <3>1. /\ Fit(left, tab)
            /\ \A ops : c.op \notin ops \/ c.live = "gone" => Waits(left, ops) = Waits(calls, ops)
        BY <1>2, TakeOff DEF c, left
      <3>. QED
        BY <1>1, <1>4, <3>1
    <2>. DEFINE state == [page EXCEPT !.form = FALSE]
    <2>. HIDE DEF state
    <2>5. PageShape(state) /\ RefreshProjects(state, "created", left)
      BY <2>1, <2>2 DEF state
    <2>6. SharedInv' /\ ProjectsInv'
      BY <1>1, <1>4, <1>5, <2>3, <2>4, <2>5, Refreshed
    <2>. QED
      BY <1>1, <1>4, <2>6
  <1>. QED
    BY <1>1, <1>9, <1>10, <1>11

(***************************************************************************)
(* What the answers make of a row.                                         *)
(***************************************************************************)
LEMMA KeyShown ==
  ASSUME NEW row, row \in RowRecord, NEW k, k \in Nat, NEW next,
         next = LoadKeys([row EXCEPT !.reveal = k])
  PROVE  next \in RowRecord /\ next.keys = row.keys
  BY DEF RowRecord, LoadKeys

LEMMA KeyRefused ==
  ASSUME NEW row, row \in RowRecord
  PROVE  /\ [row EXCEPT !.error = TRUE, !.creating = FALSE] \in RowRecord
         /\ [row EXCEPT !.error = TRUE, !.creating = FALSE].keys = row.keys
         /\ [row EXCEPT !.error = TRUE, !.creating = FALSE].loading = row.loading
         /\ ~[row EXCEPT !.error = TRUE, !.creating = FALSE].creating
  BY DEF RowRecord

LEMMA RevokeRefused ==
  ASSUME NEW row, row \in RowRecord
  PROVE  RowSame(row, [row EXCEPT !.error = TRUE, !.confirm = 0])
  BY DEF RowSame, RowRecord

\* A row waits for the keys it asked for.
LEMMA AwaitsKeys ==
  ASSUME NEW p, NEW row, NEW some, NEW d, d \in ToSet(some), d.op = "keys",
         d.arg = p, d.live = "here", d.then = "changed"
  PROVE  RowAwaits(p, row, some)
  BY DEF RowAwaits, Here

LEMMA KeyMade ==
  ASSUME TabsInv, AuthTypeOK, NEW i \in DOMAIN calls, NEW how \in Hows,
         KeyCreated(i, how), calls[i].live # "gone"
  PROVE  SharedInv' /\ ProjectsInv' /\ tab' = "projects"
  <1>. DEFINE c == calls[i]
              p == c.arg
              left == RemoveAt(calls, i)
              k == Len(keys) + 1
              d == KeysAgain(p, c.live)
              refusal == [RowNow(p) EXCEPT !.error = TRUE, !.creating = FALSE]
              shown == LoadKeys([RowNow(p) EXCEPT !.reveal = k])
  <1>1. /\ c.op = "createKey" /\ Comes(how) /\ UNCHANGED <<list, scope, stored, owner, rows, revoked>>
        /\ Effect(how, keys' = Append(keys, [project |-> p, revoked |-> FALSE]), keys)
        /\ tab' = tab
        /\ calls' = IF how = "ok" THEN Append(left, d) ELSE left
        /\ c.live # "here" \/ how = "break" => page' = page
        /\ c.live = "here" /\ how = "error" => page' = WithRow(p, refusal)
        /\ c.live = "here" /\ how = "ok" =>
             \E some : page' = [WithRow(p, shown) EXCEPT !.unclosed = some]
    BY OnTab DEF KeyCreated, KeysAgain, UsesProjects, scopeVars, Hows
  <1>2. SharedInv /\ Fit(calls, tab) /\ ServerInv /\ broken \in BOOLEAN
    BY DEF TabsInv, SharedInv, CallsInv, ScopeInv
  <1>3. CallFits(c, tab) /\ c \in ToSet(calls)
    BY <1>2, InSet DEF Fit
  <1>4. tab = "projects" /\ c.live \in {"here", "page"} /\ p \in Projects
    BY <1>1, <1>3 DEF CallFits, CallRecord, OpsOf, RowOps
  <1>5. ServerInv' /\ Grows(keys, keys')
    BY <1>1, <1>2, <1>4, KeyTakes
  <1>. HIDE DEF c, left
  <1>6. /\ CallFits(d, "projects") /\ d.op = "keys" /\ d.arg = p /\ d.live = c.live
        /\ d.then = "changed"
    BY <1>4, KeysAskFits
  <1>. HIDE DEF d, p, refusal, shown
  <1>7. AnswerStep(c, d, how) /\ (how = "ok" => d \in ToSet(calls'))
    <2>1. d.op \in RowOps /\ d.arg = c.arg
      BY <1>6 DEF RowOps, p
    <2>2. AnswerStep(c, d, how) /\ (calls' # left => d \in ToSet(calls'))
      BY <1>1, <1>4, <1>6, <2>1, AnswerIs DEF c, left
    <2>3. how = "ok" => d \in ToSet(calls')
      <3>1. how = "ok" => calls' = Append(left, d)
        BY <1>1
      <3>2. Fit(left, "projects")
        BY <1>2, <1>4, FitRemove DEF left
      <3>3. ToSet(Append(left, d)) = ToSet(left) \cup {d}
        BY <1>6, <3>2, AppendSet DEF CallFits
      <3>. QED
        BY <3>1, <3>3
    <2>. QED
      BY <2>2, <2>3
  <1>8. CASE c.live = "page"
    BY <1>1, <1>4, <1>5, <1>6, <1>7, <1>8, AnswerAside
  <1>9. CASE c.live = "here" /\ how = "break"
    <2>. DEFINE e == [live |-> "gone"]
    <2>1. e.live # "here"
      OBVIOUS
    <2>. HIDE DEF e
    <2>2. AnswerStep(c, e, how)
      BY <1>1, <1>4, <1>9, AnswerIs DEF c, left
    <2>. QED
      BY <1>1, <1>4, <1>5, <1>9, <2>1, <2>2, AnswerBroke
  <1>10. CASE c.live = "here" /\ how # "break"
    <2>1. /\ RowFilled(p, RowNow(p), keys) /\ RowNow(p) \in RowRecord
          /\ ~broken => RowAwaits(p, RowNow(p), calls)
      BY <1>1, <1>3, <1>4, <1>10, RowOfCall DEF p, RowOps
    <2>2. RowFilled(p, RowNow(p), keys')
      BY <1>5, <2>1, FilledStays
    <2>3. PICK row, some :
            /\ page' = WithRow(p, row) \/ page' = [WithRow(p, row) EXCEPT !.unclosed = some]
            /\ row \in RowRecord /\ row.keys = RowNow(p).keys
            /\ ~broken' => RowAwaits(p, row, calls')
      <3>1. CASE how = "error"
        <4>1. /\ refusal \in RowRecord /\ refusal.keys = RowNow(p).keys
              /\ refusal.loading = RowNow(p).loading /\ ~refusal.creating
          BY <2>1, KeyRefused DEF refusal
        <4>2. /\ Here("keys", p, calls) \subseteq Here("keys", p, calls')
              /\ broken => broken'
          BY <1>1, <1>5, <1>7, AnswerKept
        <4>3. ~broken' => RowAwaits(p, refusal, calls')
          BY <1>2, <2>1, <4>1, <4>2 DEF RowAwaits
        <4>. QED
          BY <1>1, <1>10, <3>1, <4>1, <4>3
      <3>2. CASE how = "ok"
        <4>1. k \in Nat
          BY <1>2 DEF ServerInv
        <4>. HIDE DEF k
        <4>2. shown \in RowRecord /\ shown.keys = RowNow(p).keys
          BY <2>1, <4>1, KeyShown DEF shown
        <4>3. RowAwaits(p, shown, calls')
          BY <1>6, <1>7, <1>10, <3>2, AwaitsKeys
        <4>. QED
          BY <1>1, <1>10, <3>2, <4>2, <4>3
      <3>. QED
        BY <1>10, <3>1, <3>2 DEF Hows
    <2>4. RowFilled(p, row, keys')
      BY <2>2, <2>3, FilledAlike
    <2>5. c.op \in RowOps
      BY <1>1 DEF RowOps
    <2>6. SharedInv' /\ ProjectsInv'
      BY <1>5, <1>7, <1>10, <2>3, <2>4, <2>5, AnswerInRow DEF p
    <2>. QED
      BY <1>1, <1>4, <2>6
  <1>. QED
    BY <1>1, <1>4, <1>8, <1>9, <1>10

LEMMA KeyUnmade ==
  ASSUME TabsInv, AuthTypeOK, NEW i \in DOMAIN calls, NEW how \in Hows,
         KeyRevoked(i, how), calls[i].live # "gone"
  PROVE  SharedInv' /\ ProjectsInv' /\ tab' = "projects"
  <1>. DEFINE c == calls[i]
              p == c.arg
              left == RemoveAt(calls, i)
              d == KeysAgain(p, c.live)
              refusal == [RowNow(p) EXCEPT !.error = TRUE, !.confirm = 0]
              loads == LoadKeys(RowNow(p))
  <1>1. /\ c.op = "revokeKey" /\ Comes(how) /\ UNCHANGED <<list, scope, stored, owner, rows, revoked>>
        /\ Effect(how, keys' = [keys EXCEPT ![c.tok].revoked = TRUE], keys)
        /\ tab' = tab
        /\ calls' = IF how = "ok" THEN Append(left, d) ELSE left
        /\ c.live # "here" \/ how = "break" => page' = page
        /\ c.live = "here" /\ how = "error" => page' = WithRow(p, refusal)
        /\ c.live = "here" /\ how = "ok" => page' = WithRow(p, loads)
    BY OnTab DEF KeyRevoked, KeysAgain, UsesProjects, scopeVars, Hows
  <1>2. SharedInv /\ Fit(calls, tab) /\ ServerInv /\ broken \in BOOLEAN
    BY DEF TabsInv, SharedInv, CallsInv, ScopeInv
  <1>3. CallFits(c, tab) /\ c \in ToSet(calls)
    BY <1>2, InSet DEF Fit
  <1>4. tab = "projects" /\ c.live \in {"here", "page"} /\ p \in Projects
    BY <1>1, <1>3 DEF CallFits, CallRecord, OpsOf, RowOps
  <1>5. ServerInv' /\ Grows(keys, keys')
    BY <1>1, <1>2, KeyRevokeTakes
  <1>. HIDE DEF c, left
  <1>6. /\ CallFits(d, "projects") /\ d.op = "keys" /\ d.arg = p /\ d.live = c.live
        /\ d.then = "changed"
    BY <1>4, KeysAskFits
  <1>. HIDE DEF d, p, refusal, loads
  <1>7. AnswerStep(c, d, how) /\ (how = "ok" => d \in ToSet(calls'))
    <2>1. d.op \in RowOps /\ d.arg = c.arg
      BY <1>6 DEF RowOps, p
    <2>2. AnswerStep(c, d, how)
      BY <1>1, <1>4, <1>6, <2>1, AnswerIs DEF c, left
    <2>3. how = "ok" => d \in ToSet(calls')
      <3>1. how = "ok" => calls' = Append(left, d)
        BY <1>1
      <3>2. Fit(left, "projects")
        BY <1>2, <1>4, FitRemove DEF left
      <3>3. ToSet(Append(left, d)) = ToSet(left) \cup {d}
        BY <1>6, <3>2, AppendSet DEF CallFits
      <3>. QED
        BY <3>1, <3>3
    <2>. QED
      BY <2>2, <2>3
  <1>8. CASE c.live = "page"
    BY <1>1, <1>4, <1>5, <1>6, <1>7, <1>8, AnswerAside
  <1>9. CASE c.live = "here" /\ how = "break"
    <2>. DEFINE e == [live |-> "gone"]
    <2>1. e.live # "here"
      OBVIOUS
    <2>. HIDE DEF e
    <2>2. AnswerStep(c, e, how)
      BY <1>1, <1>4, <1>9, AnswerIs DEF c, left
    <2>. QED
      BY <1>1, <1>4, <1>5, <1>9, <2>1, <2>2, AnswerBroke
  <1>10. CASE c.live = "here" /\ how # "break"
    <2>1. /\ RowFilled(p, RowNow(p), keys) /\ RowNow(p) \in RowRecord
          /\ ~broken => RowAwaits(p, RowNow(p), calls)
      BY <1>1, <1>3, <1>4, <1>10, RowOfCall DEF p, RowOps
    <2>2. RowFilled(p, RowNow(p), keys')
      BY <1>5, <2>1, FilledStays
    <2>3. PICK row :
            /\ page' = WithRow(p, row)
            /\ row \in RowRecord /\ row.keys = RowNow(p).keys
            /\ ~broken' => RowAwaits(p, row, calls')
      <3>1. CASE how = "error"
        <4>1. RowSame(RowNow(p), refusal)
          BY <2>1, RevokeRefused DEF refusal
        <4>2. /\ \A op \in RowOps : op # c.op => Here(op, p, calls) \subseteq Here(op, p, calls')
              /\ broken => broken'
          BY <1>5, <1>7, AnswerKept
        <4>3. /\ Here("keys", p, calls) \subseteq Here("keys", p, calls')
              /\ Here("createKey", p, calls) \subseteq Here("createKey", p, calls')
          BY <1>1, <4>2 DEF RowOps
        <4>4. ~broken' => RowAwaits(p, refusal, calls')
          BY <1>2, <2>1, <4>1, <4>2, <4>3 DEF RowAwaits, RowSame
        <4>. QED
          BY <1>1, <1>10, <3>1, <4>1, <4>4 DEF RowSame
      <3>2. CASE how = "ok"
        <4>1. loads \in RowRecord /\ loads.keys = RowNow(p).keys
          BY <2>1, LoadingSet DEF loads
        <4>2. RowAwaits(p, loads, calls')
          BY <1>6, <1>7, <1>10, <3>2, AwaitsKeys
        <4>. QED
          BY <1>1, <1>10, <3>2, <4>1, <4>2
      <3>. QED
        BY <1>10, <3>1, <3>2 DEF Hows
    <2>4. RowFilled(p, row, keys')
      BY <2>2, <2>3, FilledAlike
    <2>5. c.op \in RowOps
      BY <1>1 DEF RowOps
    <2>6. SharedInv' /\ ProjectsInv'
      BY <1>5, <1>7, <1>10, <2>3, <2>4, <2>5, AnswerInRow DEF p
    <2>. QED
      BY <1>1, <1>4, <2>6
  <1>. QED
    BY <1>1, <1>4, <1>8, <1>9, <1>10

(***************************************************************************)
(* The keys that are read are the project's.                               *)
(***************************************************************************)
LEMMA KeysReadFit ==
  ASSUME ServerInv, NEW p, NEW row, row \in RowRecord, NEW next,
         next = [row EXCEPT !.loading = FALSE, !.keys = KeysOf(p)]
  PROVE  RowFilled(p, next, keys) /\ ~next.loading /\ next.creating = row.creating
  <1>1. /\ keys \in Seq([project : Projects, revoked : BOOLEAN])
        /\ Len(keys) \in Nat /\ DOMAIN keys = 1 .. Len(keys)
        /\ \A k \in DOMAIN keys : keys[k] \in [project : Projects, revoked : BOOLEAN]
    BY ElementOfSeq, LenProperties DEF ServerInv
  <1>2. \A k \in KeysOf(p) : /\ k \in [id : Nat, revoked : BOOLEAN]
                             /\ k.id \in DOMAIN keys /\ keys[k.id].project = p
                             /\ k.revoked => keys[k.id].revoked
    BY <1>1 DEF KeysOf
  <1>. DEFINE some == KeysOf(p)
  <1>3. some \in SUBSET [id : Nat, revoked : BOOLEAN]
    BY <1>2
  <1>. HIDE DEF some
  <1>4. next = [row EXCEPT !.loading = FALSE, !.keys = some]
    BY DEF some
  <1>5. next \in RowRecord /\ next.keys = some /\ ~next.loading /\ next.creating = row.creating
    BY <1>3, <1>4 DEF RowRecord
  <1>. QED
    BY <1>2, <1>5 DEF RowFilled, some

LEMMA KeysNotRead ==
  ASSUME NEW row, row \in RowRecord, NEW next,
         next = [row EXCEPT !.loading = FALSE, !.error = TRUE]
  PROVE  /\ next \in RowRecord /\ next.keys = row.keys /\ ~next.loading
         /\ next.creating = row.creating
  BY DEF RowRecord

LEMMA KeysCame ==
  ASSUME TabsInv, AuthTypeOK, NEW i \in DOMAIN calls, NEW how \in Hows,
         KeysAnswered(i, how)
  PROVE  SharedInv' /\ ProjectsInv' /\ tab' = "projects"
  <1>. DEFINE c == calls[i]
              p == c.arg
              left == RemoveAt(calls, i)
              again == c.then = "changed" /\ how # "break"
              done == [RowNow(p) EXCEPT !.loading = FALSE]
              row == IF how = "ok" THEN [done EXCEPT !.keys = KeysOf(p)]
                     ELSE [done EXCEPT !.error = TRUE]
              read == IF c.live # "here" \/ how = "break" THEN page ELSE WithRow(p, row)
  <1>1. /\ c.op = "keys" /\ Comes(how) /\ UNCHANGED <<scope, stored, owner, rows, revoked, keys>>
        /\ tab' = tab
        /\ again => RefreshProjects(read, "none", left)
        /\ ~again => page' = read /\ calls' = left /\ list' = list
    BY OnTab DEF KeysAnswered, UsesProjects, scopeVars, Hows
  <1>2. SharedInv /\ Fit(calls, tab) /\ ServerInv /\ broken \in BOOLEAN
    BY DEF TabsInv, SharedInv, CallsInv, ScopeInv
  <1>3. CallFits(c, tab) /\ c \in ToSet(calls)
    BY <1>2, InSet DEF Fit
  <1>4. tab = "projects" /\ c.live \in {"here", "page"} /\ p \in Projects /\ c.op \in RowOps
    BY <1>1, <1>3 DEF CallFits, CallRecord, OpsOf, RowOps, Writes
  <1>5. ServerInv' /\ Grows(keys, keys')
    <2>1. UNCHANGED server
      BY <1>1 DEF server
    <2>. QED
      BY <1>1, <1>2, <2>1, ServerKept DEF Grows
  <1>6. c.live = "here" /\ how # "break" =>
          /\ RowFilled(p, row, keys) /\ ~row.loading /\ row.creating = RowNow(p).creating
          /\ ~broken => RowAwaits(p, RowNow(p), calls)
    <2>. SUFFICES ASSUME c.live = "here", how # "break"
                  PROVE  /\ RowFilled(p, row, keys) /\ ~row.loading
                         /\ row.creating = RowNow(p).creating
                         /\ ~broken => RowAwaits(p, RowNow(p), calls)
      OBVIOUS
    <2>. DEFINE old == RowNow(p)
    <2>1. /\ RowFilled(p, old, keys) /\ old \in RowRecord
          /\ ~broken => RowAwaits(p, old, calls)
      BY <1>3, <1>4, RowOfCall
    <2>. HIDE DEF c, p, old
    <2>2. CASE how = "ok"
      <3>1. row = [old EXCEPT !.loading = FALSE, !.keys = KeysOf(p)]
        BY <2>1, <2>2 DEF old, RowRecord
      <3>. HIDE DEF row
      <3>. QED
        BY <1>2, <2>1, <3>1, KeysReadFit DEF old
    <2>3. CASE how # "ok"
      <3>1. row = [old EXCEPT !.loading = FALSE, !.error = TRUE]
        BY <2>1, <2>3 DEF old, RowRecord
      <3>. HIDE DEF row
      <3>2. /\ row \in RowRecord /\ row.keys = old.keys /\ ~row.loading
            /\ row.creating = old.creating
        BY <2>1, <3>1, KeysNotRead
      <3>. QED
        BY <2>1, <3>2, FilledAlike DEF old
    <2>. QED
      BY <2>2, <2>3
  <1>. HIDE DEF row
  <1>7. PageShape(page)
    BY <1>4 DEF TabsInv, ProjectsInv, PageShape
  <1>8. PageShape(read) /\ read.creating = page.creating
    <2>1. PageShape(WithRow(p, row)) /\ WithRow(p, row).creating = page.creating
      <3>. HIDE DEF p
      <3>. QED
        BY <1>7, ShapeSet DEF WithRow
    <2>. QED
      BY <1>7, <2>1
  <1>. DEFINE d == [live |-> "gone"]
  <1>9. d.live # "here"
    OBVIOUS
  <1>. HIDE DEF d
  <1>10. ~again => AnswerStep(c, d, how)
    BY <1>1, <1>4, AnswerIs DEF RowOps
  <1>11. broken' \in BOOLEAN /\ (broken => broken')
    BY <1>1, <1>2, BrokenStays
  <1>12. CASE again
    <2>. HIDE DEF read, again, c, p, left
    <2>1. RefreshProjects(read, "none", left)
      BY <1>1, <1>12
    <2>2. /\ Fit(left, "projects")
          /\ \A ops : c.op \notin ops => Waits(left, ops) = Waits(calls, ops)
      BY <1>2, <1>4, TakeOff DEF c, left
    <2>3. /\ Waits(left, {"projects"}) = Waits(calls, {"projects"})
          /\ Waits(left, {"list"}) = Waits(calls, {"list"})
          /\ Waits(left, {"createProject"}) = Waits(calls, {"createProject"})
      BY <1>1, <2>2
    <2>4. ~broken' /\ page.creating => Creates(left)
      BY <1>4, <1>11, <2>3 DEF TabsInv, ProjectsInv, Creates
    <2>5. "none" \in {"none", "created"}
      OBVIOUS
    <2>6. SharedInv' /\ ProjectsInv'
      BY <1>1, <1>4, <1>5, <1>8, <1>11, <2>1, <2>2, <2>3, <2>4, <2>5, Refreshed
    <2>. QED
      BY <1>1, <1>4, <2>6
  <1>13. CASE ~again /\ how = "break"
    <2>1. page' = page /\ AnswerStep(c, d, "break")
      BY <1>1, <1>10, <1>13
    <2>. HIDE DEF c
    <2>. QED
      BY <1>1, <1>4, <1>5, <1>9, <2>1, AnswerBroke
  <1>14. CASE ~again /\ how # "break" /\ c.live = "page"
    <2>1. page' = page /\ AnswerStep(c, d, how)
      BY <1>1, <1>10, <1>14
    <2>. HIDE DEF c
    <2>. QED
      BY <1>1, <1>4, <1>5, <1>9, <1>14, <2>1, AnswerAside
  <1>15. CASE ~again /\ how # "break" /\ c.live = "here"
    <2>1. page' = WithRow(p, row) /\ AnswerStep(c, d, how) /\ c.then # "changed"
      BY <1>1, <1>10, <1>15
    <2>2. /\ RowFilled(p, row, keys') /\ ~row.loading /\ row.creating = RowNow(p).creating
          /\ ~broken => RowAwaits(p, RowNow(p), calls)
      <3>1. keys' = keys
        BY <1>1
      <3>. HIDE DEF c, p
      <3>. QED
        BY <1>6, <1>15, <3>1
    <2>. HIDE DEF again
    <2>3. ~broken' => RowAwaits(p, row, calls')
      <3>. HIDE DEF c, p
      <3>. SUFFICES ASSUME ~broken' PROVE RowAwaits(p, row, calls')
        OBVIOUS
      <3>1. Here("createKey", p, calls) \subseteq Here("createKey", p, calls')
        <4>1. \A op, q : c.op # op => Here(op, q, calls) \subseteq Here(op, q, calls')
          BY <1>5, <2>1, AnswerKept
        <4>. QED
          BY <1>1, <4>1
      <3>2. \A e \in Here("keys", p, calls) : e.then = "changed" => e \in Here("keys", p, calls')
        BY <2>1 DEF AnswerStep, Here
      <3>. QED
        BY <1>11, <2>2, <3>1, <3>2 DEF RowAwaits
    <2>. HIDE DEF c
    <2>4. SharedInv' /\ ProjectsInv'
      BY <1>4, <1>5, <1>15, <2>1, <2>2, <2>3, AnswerInRow DEF p
    <2>. QED
      BY <1>1, <1>4, <2>4
  <1>. QED
    BY <1>4, <1>12, <1>13, <1>14, <1>15

-----------------------------------------------------------------------------
(***************************************************************************)
(* Every step keeps the invariant.                                         *)
(***************************************************************************)
LEMMA TabMoves == UNCHANGED <<authVars, shell>> => tab' = tab
  BY OnTab

LEMMA EvidenceStep == TabsInv /\ AuthTypeOK /\ (EvidenceClicks \/ EvidenceAnswers) => TabsInv'
  <1>. SUFFICES ASSUME TabsInv, AuthTypeOK, EvidenceClicks \/ EvidenceAnswers PROVE TabsInv'
    OBVIOUS
  <1>1. tab' = tab
    BY EvidenceKeeps, TabMoves
  <1>2. SessionSteps \/ ActivitySteps \/ ReceiptSteps \/ VerifySteps
    BY DEF EvidenceClicks, EvidenceAnswers, SessionSteps, ActivitySteps, ReceiptSteps, VerifySteps
  <1>3. CASE SessionSteps
    <2>1. tab = "sessions"
      BY <1>3 DEF SessionSteps, SelectSession, SessionBack, OpenReplay, CloseReplay, FrameArrived,
                  AnchorAnswered, ReplayEnded
    <2>. QED
      BY <1>1, <1>3, <2>1, SessionsKept, OnlyItsTab DEF TabsInv
  <1>4. CASE ActivitySteps
    <2>1. tab = "activity"
      BY <1>4 DEF ActivitySteps, ViewEvent, EventBack
    <2>. QED
      BY <1>1, <1>4, <2>1, ActivityKept, OnlyItsTab DEF TabsInv
  <1>5. CASE ReceiptSteps
    <2>1. tab = "receipts"
      BY <1>5 DEF ReceiptSteps, FetchProof, ReceiptBack, ProofAnswered
    <2>. QED
      BY <1>1, <1>5, <2>1, ReceiptsKept, OnlyItsTab DEF TabsInv
  <1>6. CASE VerifySteps
    <2>1. tab = "verify"
      BY <1>6 DEF VerifySteps, FetchAndVerify, VerifyPasted, FetchedProof, Verified
    <2>. QED
      BY <1>1, <1>6, <2>1, VerifyKept, OnlyItsTab DEF TabsInv
  <1>. QED
    BY <1>2, <1>3, <1>4, <1>5, <1>6

LEMMA GrantStep == TabsInv /\ AuthTypeOK /\ (GrantClicks \/ GrantAnswers) => TabsInv'
  <1>. SUFFICES ASSUME TabsInv, AuthTypeOK, GrantClicks \/ GrantAnswers PROVE TabsInv'
    OBVIOUS
  <1>1. tab' = tab
    BY GrantsKeep, TabMoves
  <1>2. \A i \in DOMAIN calls : CallFits(calls[i], tab)
    BY DEF TabsInv, SharedInv, CallsInv, Fit
  <1>3. ASSUME GrantSteps PROVE TabsInv'
    <2>1. tab = "delegations"
      BY <1>3 DEF GrantSteps, GrantClicks, SelectGrant, GrantBack, AskToRevoke, ConfirmRevoke,
                  CancelConfirm, ChainAnswered
    <2>. QED
      BY <1>1, <1>3, <2>1, GrantsKept, OnlyItsTab DEF TabsInv
  <1>4. ASSUME NEW i \in DOMAIN calls, NEW how \in Hows, RevokeAnswered(i, how)
        PROVE  TabsInv'
    <2>1. CASE calls[i].live = "gone"
      BY <1>4, <2>1, LateWritesKept DEF LateWrites
    <2>2. CASE calls[i].live # "gone"
      <3>1. calls[i].op = "revoke" /\ CallFits(calls[i], tab)
        BY <1>2, <1>4 DEF RevokeAnswered
      <3>2. tab = "delegations"
        BY <2>2, <3>1 DEF CallFits, OpsOf, RowOps
      <3>. QED
        BY <1>3, <1>4, <2>2, <3>2 DEF GrantSteps
    <2>. QED
      BY <2>1, <2>2
  <1>. QED
    BY <1>3, <1>4 DEF GrantAnswers, GrantSteps

LEMMA ProjectStep == TabsInv /\ AuthTypeOK /\ (ProjectClicks \/ ProjectAnswers) => TabsInv'
  <1>. SUFFICES ASSUME TabsInv, AuthTypeOK, ProjectClicks \/ ProjectAnswers PROVE TabsInv'
    OBVIOUS
  <1>1. CASE ProjectClicks
    BY <1>1, ProjectClicksKept, OnlyItsTab DEF TabsInv
  <1>2. ASSUME NEW i \in DOMAIN calls, NEW how \in Hows, calls[i].live # "gone",
               ProjectCreated(i, how) \/ KeyCreated(i, how) \/ KeyRevoked(i, how)
        PROVE  TabsInv'
    <2>1. SharedInv' /\ ProjectsInv' /\ tab' = "projects"
      BY <1>2, ProjectMade, KeyMade, KeyUnmade
    <2>. QED
      BY <2>1, OnlyItsTab DEF TabsInv
  <1>3. ASSUME NEW i \in DOMAIN calls, NEW how \in Hows, calls[i].live = "gone",
               ProjectCreated(i, how) \/ KeyCreated(i, how) \/ KeyRevoked(i, how)
        PROVE  TabsInv'
    BY <1>3, LateWritesKept DEF LateWrites
  <1>4. ASSUME NEW i \in DOMAIN calls, NEW how \in Hows, KeysAnswered(i, how)
        PROVE  TabsInv'
    <2>1. SharedInv' /\ ProjectsInv' /\ tab' = "projects"
      BY <1>4, KeysCame
    <2>. QED
      BY <2>1, OnlyItsTab DEF TabsInv
  <1>. QED
    BY <1>1, <1>2, <1>3, <1>4 DEF ProjectAnswers

LEMMA AccountStep == TabsInv /\ AuthTypeOK /\ AccountNext => TabsInv'
  <1>. SUFFICES ASSUME TabsInv, AuthTypeOK, AccountNext PROVE TabsInv'
    OBVIOUS
  <1>1. tab' = tab
    BY AccountKeeps, TabMoves
  <1>2. ASSUME NEW to \in Sections, OpenSection(to) PROVE TabsInv'
    <2>1. tab = "settings"
      BY <1>2 DEF OpenSection
    <2>. QED
      BY <1>1, <1>2, <2>1, SectionOpened, OnlyItsTab DEF TabsInv
  <1>3. ASSUME NEW i \in DOMAIN calls, NEW how \in Hows, FiguresAnswered(i, how)
        PROVE  TabsInv'
    <2>1. tab = "analytics"
      BY <1>3 DEF FiguresAnswered
    <2>. QED
      BY <1>1, <1>3, <2>1, AnalyticsKept, OnlyItsTab DEF TabsInv
  <1>4. ASSUME NEW i \in DOMAIN calls, NEW how \in Hows,
               OverviewFigures(i, how) \/ KeyAnswered(i, how)
        PROVE  TabsInv'
    <2>1. tab = "overview" \/ (tab = "settings" /\ KeyAnswered(i, how))
      BY <1>4 DEF OverviewFigures, KeyAnswered
    <2>2. CASE tab = "overview"
      BY <1>1, <1>4, <2>2, OverviewKept, OnlyItsTab DEF TabsInv
    <2>3. CASE tab = "settings" /\ KeyAnswered(i, how)
      BY <1>1, <2>3, SettingsAnswered, OnlyItsTab DEF TabsInv
    <2>. QED
      BY <2>1, <2>2, <2>3
  <1>. QED
    BY <1>2, <1>3, <1>4 DEF AccountNext

LEMMA ListStep == TabsInv /\ AuthTypeOK /\ ListNext => TabsInv'
  <1>. SUFFICES ASSUME TabsInv, AuthTypeOK, ListNext PROVE TabsInv'
    OBVIOUS
  <1>1. ASSUME NEW i \in DOMAIN calls, NEW how \in Hows, ListAnswered(i, how)
        PROVE  TabsInv'
    <2>1. CASE tab = "projects"
      BY <1>1, <2>1, ProjectsArrived, OnlyItsTab DEF TabsInv
    <2>2. CASE tab # "projects"
      BY <1>1, <2>2, RowsArrived
    <2>. QED
      BY <2>1, <2>2
  <1>. QED
    BY <1>1, MoreAsked, RowRecorded, ProjectSelected, ScopeSettled DEF ListNext

LEMMA TabsStart == Init => TabsInv
  <1>. SUFFICES ASSUME Init PROVE TabsInv
    OBVIOUS
  <1>1. tab = "none" /\ calls = <<>> /\ page = NoPage /\ list = NewList
    BY DEF Init, AuthInit, tab, TabOf
  <1>2. CallsInv
    BY <1>1, FitNone DEF CallsInv
  <1>3. ServerInv
    <2>1. \A p \in Projects : owner[p] \in Persons
      BY DEF Init, Persons
    <2>2. owner \in [Projects -> Persons]
      BY <2>1 DEF Init
    <2>3. rows \subseteq Rows /\ revoked \subseteq Rows
      BY DashboardAssumption DEF Init
    <2>. QED
      BY <2>2, <2>3, DashboardAssumption DEF Init, ServerInv
  <1>4. ListInv
    BY <1>1, NewListFits DEF ListInv
  <1>5. ScopeInv
    BY DEF Init, ScopeInv, NoScope
  <1>6. EveryTabInv /\ ProjectsInv
    BY <1>1 DEF EveryTabInv, SessionsInv, ActivityInv, ReceiptsInv, VerifyInv, DelegationsInv,
                OverviewInv, AnalyticsInv, SettingsInv, RestInv, ProjectsInv
  <1>. QED
    BY <1>2, <1>3, <1>4, <1>5, <1>6 DEF TabsInv, SharedInv

LEMMA StutterKept == TabsInv /\ UNCHANGED vars => TabsInv'
  <1>. SUFFICES ASSUME TabsInv, UNCHANGED vars PROVE TabsInv'
    OBVIOUS
  <1>1. QuietStep
    BY OnTab DEF QuietStep, vars, scopeVars, pageVars, budget
  <1>. QED
    BY <1>1, QuietKept

LEMMA TabsNext == TabsInv /\ AuthTypeOK /\ AuthTypeOK' /\ [Next]_vars => TabsInv'
  <1>. SUFFICES ASSUME TabsInv, AuthTypeOK, AuthTypeOK', [Next]_vars PROVE TabsInv'
    OBVIOUS
  <1>1. CASE UNCHANGED vars
    BY <1>1, StutterKept
  <1>2. CASE SessionNext \/ ChoosePlace
    BY <1>2, SessionKept, PaletteKept
  <1>3. CASE \E s \in Slots : SaveProfile(s) \/ ProfileRefused(s)
    BY <1>3, ProfileKept
  <1>4. CASE PageNext
    BY <1>4, ListStep, ShellKept, AccountStep, EvidenceStep, GrantStep, ProjectStep DEF PageNext
  <1>. QED
    BY <1>1, <1>2, <1>3, <1>4 DEF Next

(***************************************************************************)
(* The session's types hold in the console, whose steps are the session's. *)
(***************************************************************************)
LEMMA SessionTyped == Spec => []AuthTypeOK
  BY ConsoleImplementsSession, AuthTypeCorrect, PTL

LEMMA TabsAlways == Spec => []TabsInv
  BY TabsStart, TabsNext, SessionTyped, PTL DEF Spec

-----------------------------------------------------------------------------
(***************************************************************************)
(* A detail is of the row it is opened for, whichever rows were opened     *)
(* while their calls were under way: the answers of an earlier row are     *)
(* dropped by the effect's clean-up, or its button waits for them.         *)
(***************************************************************************)
THEOREM DetailsAreOfSelected == Spec => []DetailIsOfSelected
  <1>1. TabsInv => DetailIsOfSelected
    <2>. SUFFICES ASSUME TabsInv PROVE DetailIsOfSelected
      OBVIOUS
    <2>1. SessionsInv /\ ReceiptsInv /\ DelegationsInv
      BY DEF TabsInv, EveryTabInv
    <2>2. tab = "sessions" /\ SessionDetail.open /\ SessionDetail.anchor = "anchored" =>
            page.anchor = page.selected
      BY <2>1 DEF SessionsInv, SessionDetail
    <2>3. tab = "delegations" /\ GrantDetail.open /\ ChainPill \in {"VALID", "INVALID"} =>
            page.chain = page.selected
      BY <2>1 DEF DelegationsInv, GrantDetail, ChainPill
    <2>4. tab = "receipts" /\ ReceiptOpen => page.proof = page.selected
      BY <2>1 DEF ReceiptsInv, ReceiptOpen
    <2>. QED
      BY <2>2, <2>3, <2>4 DEF DetailIsOfSelected
  <1>. QED
    BY <1>1, TabsAlways, PTL

(***************************************************************************)
(* "Grant revoked." is shown of a grant that is revoked, unless another    *)
(* grant was opened while the revocation was under way.                    *)
(***************************************************************************)
THEOREM RevokedBannerIsTrue == Spec => []RevokedBannerTrue
  <1>1. TabsInv => RevokedBannerTrue
    <2>. SUFFICES ASSUME TabsInv, tab = "delegations", GrantDetail.open,
                         GrantDetail.revoke = "banner", ~page.strayed
                  PROVE  page.selected \in revoked
      BY DEF RevokedBannerTrue
    <2>1. page.selected # 0 /\ page.revoked
      BY DEF GrantDetail
    <2>. QED
      BY <2>1 DEF TabsInv, EveryTabInv, DelegationsInv
  <1>. QED
    BY <1>1, TabsAlways, PTL

(***************************************************************************)
(* A report that is not of the proof asked about last stands beside the    *)
(* error that refused that proof, or while it is being fetched, or because *)
(* the connection broke; and none is on screen while the server computes   *)
(* one.  Except when questions overlapped.                                 *)
(***************************************************************************)
THEOREM ReportsAreExplained == Spec => []EarlierReportIsExplained
  <1>1. TabsInv => EarlierReportIsExplained
    <2>. SUFFICES ASSUME TabsInv, tab = "verify", ReportShown, ~page.mixed
                  PROVE  /\ ~page.loading
                         /\ page.result # page.asked /\ ~page.error /\ ~broken =>
                              Awaiting({"fetchProof"}) # {}
      BY DEF EarlierReportIsExplained
    <2>1. VerifyInv /\ page.result # 0
      BY DEF TabsInv, EveryTabInv, ReportShown
    <2>2. Waits(calls, VerifyOps) = Waits(calls, {"fetchProof"}) \cup Waits(calls, {"verify"})
      BY DEF Waits, VerifyOps
    <2>3. Awaiting({"fetchProof"}) # {} <=> Waits(calls, {"fetchProof"}) # {}
      BY AwaitingIsWaits
    <2>. QED
      BY <2>1, <2>2, <2>3 DEF VerifyInv
  <1>. QED
    BY <1>1, TabsAlways, PTL

(***************************************************************************)
(* "babit never shows numbers it cannot derive from real data": charts and *)
(* figures of Analytics are shown only of figures that came.               *)
(***************************************************************************)
THEOREM FiguresAreAlwaysReal == Spec => []FiguresAreReal
  <1>1. TabsInv => FiguresAreReal
    <2>. SUFFICES ASSUME TabsInv, tab = "analytics",
                         AnalyticsShows.counts \/ AnalyticsShows.charts # {}
                  PROVE  page.figures # <<>>
      BY DEF FiguresAreReal
    <2>1. page.loading \/ page.error \/ page.figures # <<>>
      BY DEF TabsInv, EveryTabInv, AnalyticsInv
    <2>2. AnalyticsShows.charts # {} => page.figures # <<>>
      BY DEF AnalyticsShows, ChartsDrawn
    <2>. QED
      BY <2>1, <2>2 DEF AnalyticsShows
  <1>. QED
    BY <1>1, TabsAlways, PTL

-----------------------------------------------------------------------------
(***************************************************************************)
(* The shell: the palette and the drawer are of a tab on screen.           *)
(***************************************************************************)
ShellInv ==
  /\ rail \in BOOLEAN /\ drawer \in BOOLEAN /\ palette.open \in BOOLEAN
  /\ tab = "none" => ~palette.open /\ ~drawer

LEMMA ShellRemounted ==
  ASSUME NEW paletteNow, NEW drawerNow, NEW themeNow, ShellInv,
         paletteNow.open \in BOOLEAN, drawerNow \in BOOLEAN,
         RemountWith(paletteNow, drawerNow, themeNow)
  PROVE  ShellInv'
  <1>1. tab' = TabOf(path', isLoading')
    BY DEF tab
  <1>2. /\ palette' = IF tab' # "none" THEN paletteNow ELSE Closed
        /\ drawer' = (tab' # "none" /\ drawerNow)
        /\ rail' = rail
    BY <1>1 DEF RemountWith
  <1>3. CASE tab' = "none"
    BY <1>2, <1>3 DEF ShellInv, Closed
  <1>4. CASE tab' # "none"
    BY <1>2, <1>4 DEF ShellInv
  <1>. QED
    BY <1>3, <1>4

LEMMA ShellStays == ShellInv /\ UNCHANGED <<isLoading, path, shell>> => ShellInv'
  BY DEF ShellInv, shell, tab

LEMMA ShellMoves == ShellInv /\ PaletteInv /\ ShellNext => ShellInv'
  <1>. SUFFICES ASSUME ShellInv, PaletteInv, ShellNext PROVE ShellInv'
    OBVIOUS
  <1>1. tab' = tab
    BY ShellKeepsSession, OnTab
  <1>2. palette \in [open : BOOLEAN, query : DOMAIN Queries \cup {""}, index : Nat]
    BY DEF PaletteInv
  <1>3. CASE OpenPalette
    BY <1>1, <1>3 DEF OpenPalette, Closed, ShellInv
  <1>4. CASE ClosePalette
    BY <1>1, <1>2, <1>4 DEF ClosePalette, ShellInv
  <1>5. ASSUME NEW query, TypeQuery(query) PROVE ShellInv'
    BY <1>1, <1>2, <1>5 DEF TypeQuery, Typed, ShellInv
  <1>6. ASSUME NEW down, Arrow(down) PROVE ShellInv'
    <2>1. palette'.open = palette.open /\ UNCHANGED <<rail, drawer>>
      BY <1>2, <1>6 DEF Arrow
    <2>. QED
      BY <1>1, <2>1 DEF ShellInv
  <1>7. ASSUME NEW at, Hover(at) PROVE ShellInv'
    BY <1>1, <1>2, <1>7 DEF Hover, ShellInv
  <1>8. CASE CollapseRail \/ ToggleDrawer
    BY <1>1, <1>8 DEF CollapseRail, ToggleDrawer, ShellInv
  <1>9. CASE ToggleTheme \/ OsSwitches
    BY <1>1, <1>9 DEF ToggleTheme, OsSwitches, ShellInv
  <1>10. ASSUME NEW to, OtherTabTheme(to) PROVE ShellInv'
    BY <1>1, <1>10 DEF OtherTabTheme, ShellInv
  <1>. QED
    BY <1>3, <1>4, <1>5, <1>6, <1>7, <1>8, <1>9, <1>10 DEF ShellNext

LEMMA ShellNextKept == ShellInv /\ PaletteInv /\ [Next]_vars => ShellInv'
  <1>. SUFFICES ASSUME ShellInv, PaletteInv, [Next]_vars PROVE ShellInv'
    OBVIOUS
  <1>1. palette.open \in BOOLEAN /\ drawer \in BOOLEAN /\ Closed.open \in BOOLEAN
    BY DEF ShellInv, Closed
  <1>2. ASSUME NEW drawerNow \in BOOLEAN, NEW themeNow,
               \/ RemountWith(palette, drawerNow, themeNow)
               \/ RemountWith(Closed, drawerNow, themeNow)
        PROVE  ShellInv'
    BY <1>1, <1>2, ShellRemounted
  <1>3. CASE SessionNext
    <2>1. ASSUME Unmounted, UNCHANGED <<isLoading, path>> PROVE ShellInv'
      BY <2>1, ShellStays DEF Unmounted
    <2>2. \A s \in Slots :
            LoginRefused(s) \/ LogoutAnswered(s) \/ LogoutLost(s)
              \/ (\E who \in Accounts : SubmitLogin(s, who) \/ SubmitSignup(s, who))
            => UNCHANGED <<isLoading, path>>
      BY DEF LoginRefused, LogoutAnswered, LogoutLost, SubmitLogin, SubmitSignup, Submit,
             memory
    <2>3. SubmitShortPassword \/ SendReset \/ ResetTimer
            \/ (\E who \in Persons : OtherTab(who))
          => UNCHANGED <<isLoading, path>>
      BY DEF SubmitShortPassword, SendReset, ResetTimer, OtherTab, memory
    <2>. QED
      BY <1>1, <1>2, <1>3, <2>1, <2>2, <2>3 DEF SessionNext, Remount
  <1>4. CASE ChoosePlace
    <2>1. ClosePalette => ShellInv'
      BY ShellMoves DEF ShellNext
    <2>. QED
      BY <1>1, <1>2, <1>4, <2>1 DEF ChoosePlace
  <1>5. CASE ShellNext
    BY <1>5, ShellMoves
  <1>6. CASE UNCHANGED <<authVars, shell>>
    BY <1>6, ShellStays DEF authVars, memory
  <1>7. ASSUME NEW s \in Slots, SaveProfile(s) \/ ProfileRefused(s) PROVE ShellInv'
    BY <1>7, ProfileKeepsShell, ShellStays
  <1>. QED
    BY <1>3, <1>4, <1>5, <1>6, <1>7, ListsKeep, EvidenceKeeps, GrantsKeep, ProjectsKeep,
       AccountKeeps
    DEF Next, PageNext, vars

LEMMA ShellAlways == Spec => []ShellInv
  <1>1. Init => ShellInv
    <2>. SUFFICES ASSUME Init PROVE ShellInv
      OBVIOUS
    <2>1. ~palette.open /\ palette.open \in BOOLEAN /\ rail = FALSE /\ drawer = FALSE
      BY DEF Init, Closed
    <2>. QED
      BY <2>1 DEF ShellInv
  <1>. QED
    BY <1>1, ShellNextKept, PaletteAlways, PTL DEF Spec

LEMMA OfSeq ==
  ASSUME NEW S, NEW s, s \in Seq(S)
  PROVE  Len(s) \in Nat /\ \A k \in DOMAIN s : s[k] \in S
  OBVIOUS

LEMMA NotMore == \A n \in Nat : n <= n
  OBVIOUS

LEMMA FilteredLen ==
  ASSUME NEW query, query \in DOMAIN Queries \cup {""}
  PROVE  Len(Filtered(query)) \in Nat /\ Len(Filtered(query)) <= Len(Places)
  <1>1. Filtered(query) \in Seq(Tabs) /\ Places \in Seq(Tabs)
    BY FilteredType, PlacesAreTabs
  <1>2. Len(Filtered(query)) \in Nat /\ Len(Places) \in Nat
    BY <1>1, OfSeq
  <1>3. CASE query = ""
    <2>1. Filtered(query) = Places
      BY <1>3 DEF Filtered
    <2>2. Len(Places) \in Nat /\ Len(Places) <= Len(Places)
      BY <1>2, NotMore, Zenon
    <2>. QED
      BY <2>1, <2>2, Zenon
  <1>4. CASE query # ""
    <2>1. Filtered(query) = Queries[query] /\ query \in DOMAIN Queries
      BY <1>4 DEF Filtered
    <2>. QED
      BY <1>2, <2>1, QueriesAssumption
  <1>. QED
    BY <1>3, <1>4

LEMMA PaletteInRange == PaletteInv => palette.index \in 0 .. Len(Places) - 1
  <1>. SUFFICES ASSUME PaletteInv PROVE palette.index \in 0 .. Len(Places) - 1
    OBVIOUS
  <1>. DEFINE n == Len(Filtered(palette.query))
              m == Len(Places)
  <1>1. palette.query \in DOMAIN Queries \cup {""}
    BY DEF PaletteInv
  <1>2. palette.index \in Nat /\ (palette.index = 0 \/ palette.index < n)
    BY DEF PaletteInv
  <1>3. n \in Nat /\ n <= m
    BY <1>1, FilteredLen
  <1>4. m = 8
    BY DEF Places
  <1>. HIDE DEF n, m
  <1>5. palette.index \in 0 .. m - 1
    BY <1>2, <1>3, <1>4
  <1>. QED
    BY <1>5 DEF m

LEMMA PageFields == TabsInv /\ AuthTypeOK => DOMAIN page = DOMAIN NewPage(tab)
  <1>. SUFFICES ASSUME TabsInv, AuthTypeOK PROVE DOMAIN page = DOMAIN NewPage(tab)
    OBVIOUS
  <1>1. tab \in {"none"} \cup Tabs
    BY DEF AuthTypeOK, tab, TabOf
  <1>2. CASE tab = "sessions"
    BY <1>2 DEF TabsInv, EveryTabInv, SessionsInv, NewPage, NewSessions
  <1>3. CASE tab = "activity"
    BY <1>3 DEF TabsInv, EveryTabInv, ActivityInv, NewPage, NewActivity
  <1>4. CASE tab = "receipts"
    BY <1>4 DEF TabsInv, EveryTabInv, ReceiptsInv, NewPage, NewReceipts
  <1>5. CASE tab = "verify"
    BY <1>5 DEF TabsInv, EveryTabInv, VerifyInv, NewPage, NewVerify
  <1>6. CASE tab = "delegations"
    BY <1>6 DEF TabsInv, EveryTabInv, DelegationsInv, NewPage, NewDelegations
  <1>7. CASE tab = "overview"
    BY <1>7 DEF TabsInv, EveryTabInv, OverviewInv, NewPage, NewOverview
  <1>8. CASE tab = "analytics"
    BY <1>8 DEF TabsInv, EveryTabInv, AnalyticsInv, NewPage, NewAnalytics
  <1>9. CASE tab = "settings"
    BY <1>9 DEF TabsInv, EveryTabInv, SettingsInv, NewPage, NewSettings
  <1>10. CASE tab \in {"none", "agents", "apikeys"}
    BY <1>10 DEF TabsInv, EveryTabInv, RestInv, NewPage, NoPage
  <1>11. CASE tab = "projects"
    <2>1. DOMAIN page = {"form", "creating", "row", "unclosed"}
      <3>1. page = [form |-> page.form, creating |-> page.creating, row |-> page.row,
                    unclosed |-> page.unclosed]
        BY <1>11 DEF TabsInv, ProjectsInv
      <3>. QED
        BY <3>1
    <2>. QED
      BY <1>11, <2>1 DEF NewPage, NewProjects
  <1>. QED
    BY <1>1, <1>2, <1>3, <1>4, <1>5, <1>6, <1>7, <1>8, <1>9, <1>10, <1>11 DEF Tabs

(***************************************************************************)
(* Type correctness of the console, for any accounts, projects, rows and   *)
(* queries: every tab keeps its own state in `page`, every call is one its *)
(* tab makes or a write that outlived it, and nothing of the shell outlives*)
(* the dashboard.                                                          *)
(***************************************************************************)
THEOREM ConsoleTypeCorrect == Spec => []TypeOK
  <1>1. TabsInv /\ AuthTypeOK /\ ShellInv /\ PaletteInv => TypeOK
    <2>. SUFFICES ASSUME TabsInv, AuthTypeOK, ShellInv, PaletteInv PROVE TypeOK
      OBVIOUS
    <2>1. /\ owner \in [Projects -> Persons] /\ rows \subseteq Rows /\ revoked \subseteq Rows
          /\ \A k \in DOMAIN keys : keys[k] \in [project : Projects, revoked : BOOLEAN]
      <3>1. ServerInv
        BY DEF TabsInv, SharedInv
      <3>2. \A k \in DOMAIN keys : keys[k] \in [project : Projects, revoked : BOOLEAN]
        BY <3>1, OfSeq, Zenon DEF ServerInv
      <3>. QED
        BY <3>1, <3>2 DEF ServerInv
    <2>2. /\ scope \in [loading : BOOLEAN, projects : SUBSET Projects,
                        selected : {0} \cup Projects, error : BOOLEAN]
          /\ ToSet(list.items) \subseteq IF tab = "projects" THEN Projects ELSE Rows
      BY DEF TabsInv, SharedInv, ScopeInv, ListInv, ListFits, RowsOfTab
    <2>3. \A i \in DOMAIN calls :
            /\ calls[i].op \in CallOps /\ calls[i].as \in Persons
            /\ calls[i].live \in {"here", "page", "gone"}
            /\ calls[i].live = "gone" => calls[i].op \in Writes
      BY DEF TabsInv, SharedInv, CallsInv, Fit, CallFits, CallRecord
    <2>4. {rail, drawer} \subseteq BOOLEAN /\ (tab = "none" => ~palette.open /\ ~drawer)
      BY DEF ShellInv
    <2>. QED
      BY <2>1, <2>2, <2>3, <2>4, PageFields, PaletteInRange DEF TypeOK
  <1>. QED
    BY <1>1, TabsAlways, SessionTyped, ShellAlways, PaletteAlways, PTL

-----------------------------------------------------------------------------
(***************************************************************************)
(* A row of Projects awaits a call that is among those of the tab.         *)
(***************************************************************************)
LEMMA RowWaiting ==
  ASSUME NEW p, RowAwaits(p, page.row[p], calls)
  PROVE  RowWaits(p)
  <1>1. ASSUME NEW op, NEW c \in Here(op, p, calls)
        PROVE  \E i \in DOMAIN calls : calls[i] = c /\ c.op = op /\ c.live # "gone" /\ c.arg = p
    BY DEF Here, ToSet
  <1>2. page.row[p].loading => \E i \in Awaiting({"keys"}) : calls[i].arg = p
    <2>. SUFFICES ASSUME page.row[p].loading
                  PROVE  \E i \in Awaiting({"keys"}) : calls[i].arg = p
      OBVIOUS
    <2>1. PICK c \in Here("keys", p, calls) : TRUE
      BY DEF RowAwaits
    <2>. QED
      BY <1>1, <2>1 DEF Awaiting
  <1>3. page.row[p].creating =>
          \E i \in Awaiting({"createKey", "keys"}) :
            calls[i].arg = p /\ (calls[i].op = "keys" => calls[i].then = "changed")
    <2>. SUFFICES ASSUME page.row[p].creating
                  PROVE  \E i \in Awaiting({"createKey", "keys"}) :
                           calls[i].arg = p /\ (calls[i].op = "keys" => calls[i].then = "changed")
      OBVIOUS
    <2>1. CASE Here("createKey", p, calls) # {}
      <3>1. PICK c \in Here("createKey", p, calls) : TRUE
        BY <2>1
      <3>. QED
        BY <1>1, <3>1 DEF Awaiting
    <2>2. CASE \E c \in Here("keys", p, calls) : c.then = "changed"
      <3>1. PICK c \in Here("keys", p, calls) : c.then = "changed"
        BY <2>2
      <3>. QED
        BY <1>1, <3>1 DEF Awaiting
    <2>. QED
      BY <2>1, <2>2 DEF RowAwaits
  <1>. QED
    BY <1>2, <1>3 DEF RowWaits

LEMMA TabWaiting == TabsInv /\ ~broken => PageWaits
  <1>. SUFFICES ASSUME TabsInv, ~broken PROVE PageWaits
    OBVIOUS
  <1>1. list.loading => Awaiting({"list"}) # {}
    BY AwaitingIsWaits DEF TabsInv, SharedInv, ListInv
  <1>2. tab = "sessions" =>
          /\ page.selected # 0 /\ page.loading => Awaiting({"anchor"}) # {}
          /\ page.replay.loading => Awaiting({"replay"}) # {}
    BY AwaitingIsWaits DEF TabsInv, EveryTabInv, SessionsInv
  <1>3. tab = "receipts" /\ page.fetching => Awaiting({"proof"}) # {}
    BY AwaitingIsWaits DEF TabsInv, EveryTabInv, ReceiptsInv
  <1>4. tab = "delegations" =>
          /\ page.selected # 0 /\ page.loading => Awaiting({"verifyGrant"}) # {}
          /\ page.revoking => Awaiting({"revoke"}) # {}
    BY AwaitingIsWaits DEF TabsInv, EveryTabInv, DelegationsInv
  <1>5. tab = "projects" =>
          /\ page.creating =>
               \/ Awaiting({"createProject"}) # {}
               \/ \E i \in Awaiting({"list"}) : calls[i].then = "created"
          /\ \A p \in DOMAIN page.row : RowWaits(p)
    <2>. SUFFICES ASSUME tab = "projects"
                  PROVE  /\ page.creating =>
                              \/ Awaiting({"createProject"}) # {}
                              \/ \E i \in Awaiting({"list"}) : calls[i].then = "created"
                         /\ \A p \in DOMAIN page.row : RowWaits(p)
      OBVIOUS
    <2>1. /\ DOMAIN page.row = ProjectRows(list)
          /\ \A p \in ProjectRows(list) : RowAwaits(p, page.row[p], calls)
          /\ page.creating => Creates(calls)
      <3>1. ProjectsInv
        BY DEF TabsInv
      <3>. QED
        BY <3>1 DEF ProjectsInv
    <2>2. \A p \in DOMAIN page.row : RowWaits(p)
      BY <2>1, RowWaiting
    <2>3. (\E c \in Waits(calls, {"list"}) : c.then = "created")
            => \E i \in Awaiting({"list"}) : calls[i].then = "created"
      BY DEF Waits, Awaiting, ToSet
    <2>. QED
      BY <2>1, <2>2, <2>3, AwaitingIsWaits DEF Creates
  <1>6. tab = "analytics" /\ page.loading => Awaiting({"figures"}) # {}
    BY AwaitingIsWaits DEF TabsInv, EveryTabInv, AnalyticsInv
  <1>7. tab = "verify" /\ page.loading => Awaiting({"verify"}) # {}
    BY AwaitingIsWaits DEF TabsInv, EveryTabInv, VerifyInv
  <1>8. tab = "settings" /\ page.section = "notary" /\ NotaryShows = "loading" =>
          Awaiting({"key"}) # {}
    BY AwaitingIsWaits DEF TabsInv, EveryTabInv, SettingsInv, NotaryShows
  <1>. QED
    BY <1>1, <1>2, <1>3, <1>4, <1>5, <1>6, <1>7, <1>8 DEF PageWaits

(***************************************************************************)
(* Unless a connection broke, everything that waits on screen, and every   *)
(* button it disables, waits for a call that is outstanding; the form of a *)
(* sign-in does even then, because its calls are caught.                   *)
(***************************************************************************)
THEOREM EveryWaitHasACall == Spec => []WaitsForACall
  <1>1. TabsInv /\ FormInv => WaitsForACall
    <2>. SUFFICES ASSUME TabsInv, FormInv PROVE WaitsForACall
      OBVIOUS
    <2>1. ~broken => PageWaits
      BY TabWaiting
    <2>2. ~broken /\ scope.loading => Awaiting({"projects"}) # {}
      BY AwaitingIsWaits DEF TabsInv, SharedInv, ScopeInv
    <2>3. form.busy /\ path # "forgot" =>
            \E s \in Slots : sent[s].op \in {"login", "loginMe"} /\ sent[s].here
      BY DEF FormInv, SignsIn
    <2>. QED
      BY <2>1, <2>2, <2>3 DEF WaitsForACall
  <1>. QED
    BY <1>1, TabsAlways, FormAlways, ConsoleImplementsSession, PTL

-----------------------------------------------------------------------------
(***************************************************************************)
(* Whose rows the lists show.  Every call for rows or projects is made for *)
(* the user, so what it brings is his; and as long as the calls of a list  *)
(* have not overlapped, its rows and the next token are those of its scope *)
(* down to where it was read.                                              *)
(***************************************************************************)
ReadOps == {"list", "projects"}

CallsOfUser ==
  tab # "none" /\ ~mixed /\ faults = 0 =>
    \A c \in ToSet(calls) : c.op \in ReadOps => c.as = user

Descending(items) == \A i, j \in DOMAIN items : i < j => items[i] > items[j]

ListedType == listed \in [clean : BOOLEAN, base : SUBSET Nat, of : Nat]

Wanted == Listable(tab, user, ListScope(tab, scope.selected))

\* The call for a page: the first, with nothing read, or the next.
PageCall(c, p, pages, base) ==
  /\ c.arg = p
  /\ IF c.tok = 0 THEN pages.items = <<>> /\ pages.next = 0 /\ base = {}
     ELSE c.tok = pages.next

ReadTo(base, next) == {r \in base : next = 0 \/ r >= next}

PagesRead(pages, base, wanted) ==
  /\ Descending(pages.items)
  /\ pages.next # 0 => \A k \in DOMAIN pages.items : pages.items[k] >= pages.next
  /\ ReadTo(base, pages.next) \subseteq ToSet(pages.items)
  /\ ToSet(pages.items) \subseteq wanted /\ base \subseteq wanted

PagesInv ==
  tab \in ListPages /\ listed.clean /\ ~mixed /\ faults = 0 =>
    /\ AtMostOne({"list"}, calls)
    /\ \A c \in ToSet(calls) :
         c.op = "list" => PageCall(c, ListScope(tab, scope.selected), list, listed.base)
    /\ PagesRead(list, listed.base, Wanted)

ScreenInv == OwnedByUser /\ CallsOfUser /\ ListedType /\ PagesInv

\* What is known of the session and the tabs when a step is taken.
Known == TabsInv /\ IInv /\ VisitorInv

LEMMA KnownIs ==
  Known => /\ TabsInv /\ SharedInv /\ AuthTypeOK /\ Fit(calls, tab) /\ ListFits(list, tab)
           /\ scope \in [loading : BOOLEAN, projects : SUBSET Projects,
                         selected : {0} \cup Projects, error : BOOLEAN]
           /\ tab # "none" => user # None
           /\ tab # "none" /\ ~mixed /\ faults = 0 => Acting = user
  <1>. SUFFICES ASSUME Known PROVE KnownIs!2
    OBVIOUS
  <1>1. TabsInv /\ IInv /\ VisitorInv
    BY DEF Known
  <1>2. tab # "none" => user # None
    BY <1>1 DEF IInv, DashboardHasUser
  <1>3. tab # "none" /\ ~mixed /\ faults = 0 => Acting = user
    BY <1>1, <1>2, UserActs
  <1>. QED
    BY <1>1, <1>2, <1>3 DEF IInv, TabsInv, SharedInv, CallsInv, ListInv, ScopeInv

-----------------------------------------------------------------------------
(***************************************************************************)
(* The tables only give: what an account is listed stays its.              *)
(***************************************************************************)
TablesGrow ==
  rows \subseteq rows' /\ \A p \in Projects : owner[p] # None => owner'[p] = owner[p]

LEMMA ListableGrows ==
  ASSUME TablesGrow, user # None, user' = user, NEW where, NEW p
  PROVE  /\ ProjectsOf(user) \subseteq ProjectsOf(user)'
         /\ Listable(where, user, p) \subseteq Listable(where, user, p)'
  <1>1. ProjectsOf(user) \subseteq ProjectsOf(user)'
    BY DEF TablesGrow, ProjectsOf
  <1>2. \A q : RowsIn(q) \subseteq RowsIn(q)'
    BY DEF TablesGrow, RowsIn
  <1>3. CASE where = "projects"
    BY <1>1, <1>3 DEF Listable
  <1>4. CASE where # "projects"
    <2>1. ASSUME NEW r \in Listable(where, user, p) PROVE r \in Listable(where, user, p)'
      <3>1. PICK q \in ProjectsOf(user) : p \in {0, q} /\ r \in RowsIn(q)
        BY <1>4, <2>1 DEF Listable
      <3>. QED
        BY <1>1, <1>2, <1>4, <3>1 DEF Listable
    <2>. QED
      BY <1>1, <2>1
  <1>. QED
    BY <1>1, <1>3, <1>4

LEMMA TablesSame == UNCHANGED <<owner, rows>> => TablesGrow
  BY DEF TablesGrow

\* What one project lists is part of what all of them do.
LEMMA ScopeIsPart ==
  ASSUME NEW where, NEW who, NEW p
  PROVE  Listable(where, who, p) \subseteq Listable(where, who, 0)
  BY DEF Listable

-----------------------------------------------------------------------------
(***************************************************************************)
(* Steps beside the list: they make no call for rows or projects, and      *)
(* leave none to go on by itself.                                          *)
(***************************************************************************)
FewerReads(some, next) ==
  /\ \A c \in ToSet(next) : c.op \in ReadOps \/ c.live = "gone" => c \in ToSet(some)
  /\ AtMostOne({"list"}, some) => AtMostOne({"list"}, next)

LEMMA Beside ==
  ASSUME ScreenInv, Known, tab' = tab, UNCHANGED <<user, mixed, faults, scope, list, listed>>,
         TablesGrow, FewerReads(calls, calls')
  PROVE  ScreenInv'
  <1>1. tab # "none" => user # None
    BY KnownIs
  <1>2. OwnedByUser'
    <2>. SUFFICES ASSUME tab # "none", ~mixed, faults = 0
                  PROVE  /\ scope.projects \cup ({scope.selected} \ {0}) \subseteq ProjectsOf(user)'
                         /\ tab \in ListPages
                              => ToSet(list.items) \subseteq Listable(tab, user, 0)'
      BY DEF OwnedByUser
    <2>1. ProjectsOf(user) \subseteq ProjectsOf(user)'
      BY <1>1, ListableGrows
    <2>2. \A where : Listable(where, user, 0) \subseteq Listable(where, user, 0)'
      BY <1>1, ListableGrows
    <2>3. Listable(tab, user, 0) \subseteq Listable(tab, user, 0)'
      BY <2>2
    <2>. QED
      BY <2>1, <2>3 DEF ScreenInv, OwnedByUser
  <1>3. CallsOfUser'
    BY DEF ScreenInv, CallsOfUser, FewerReads
  <1>4. ListedType'
    BY DEF ScreenInv, ListedType
  <1>5. PagesInv'
    <2>. SUFFICES ASSUME tab \in ListPages, listed.clean, ~mixed, faults = 0
                  PROVE  PagesInv'
      BY DEF PagesInv
    <2>1. Wanted \subseteq Wanted'
      <3>1. \A where, p : Listable(where, user, p) \subseteq Listable(where, user, p)'
        BY <1>1, ListableGrows DEF ListPages
      <3>. QED
        BY <3>1 DEF Wanted
    <2>2. /\ AtMostOne({"list"}, calls')
          /\ \A c \in ToSet(calls') :
               c.op = "list" => PageCall(c, ListScope(tab, scope.selected), list, listed.base)
      BY DEF ScreenInv, PagesInv, FewerReads, ReadOps
    <2>3. PagesRead(list, listed.base, Wanted')
      BY <2>1 DEF ScreenInv, PagesInv, PagesRead
    <2>. QED
      BY <2>2, <2>3 DEF PagesInv
  <1>. QED
    BY <1>2, <1>3, <1>4, <1>5 DEF ScreenInv

LEMMA FewerSame == \A s : FewerReads(s, s)
  BY DEF FewerReads

LEMMA FewerRemove ==
  ASSUME NEW s, NEW i, NEW where, Fit(s, where), i \in DOMAIN s
  PROVE  FewerReads(s, RemoveAt(s, i))
  BY RemoveSet DEF FewerReads

LEMMA FewerCancel ==
  ASSUME NEW s, NEW ops, NEW where, Fit(s, where)
  PROVE  FewerReads(s, Cancel(ops, s))
  BY CancelSet DEF FewerReads

LEMMA FewerUnrow ==
  ASSUME NEW s, NEW pages, NEW where, Fit(s, where)
  PROVE  FewerReads(s, Unrow(s, pages))
  BY UnrowSet DEF FewerReads, RowOps, ReadOps

LEMMA AppendIs ==
  ASSUME NEW s, NEW c, NEW where, Fit(s, where)
  PROVE  /\ Len(s) \in Nat /\ DOMAIN s = 1 .. Len(s)
         /\ DOMAIN Append(s, c) = 1 .. Len(s) + 1
         /\ \A j \in 1 .. Len(s) : Append(s, c)[j] = s[j]
         /\ Append(s, c)[Len(s) + 1] = c
  <1>1. s \in Seq(CallRecord \cup {c})
    BY LenProperties DEF Fit
  <1>. QED
    BY <1>1, LenProperties, AppendProperties

LEMMA FewerAppend ==
  ASSUME NEW s, NEW c, NEW where, Fit(s, where), c.op \notin ReadOps, c.live # "gone"
  PROVE  FewerReads(s, Append(s, c))
  <1>. DEFINE n == Len(s)
              t == Append(s, c)
  <1>1. /\ n \in Nat /\ DOMAIN s = 1 .. n /\ DOMAIN t = 1 .. n + 1
        /\ \A j \in 1 .. n : t[j] = s[j]
        /\ t[n + 1] = c
    BY AppendIs
  <1>. HIDE DEF n, t
  <1>2. \A j \in DOMAIN t : j \in 1 .. n \/ j = n + 1
    BY <1>1
  <1>3. \A j \in DOMAIN t : t[j].op \in ReadOps \/ t[j].live = "gone" => j \in DOMAIN s /\ t[j] = s[j]
    BY <1>1, <1>2
  <1>4. \A d \in ToSet(t) : d.op \in ReadOps \/ d.live = "gone" => d \in ToSet(s)
    BY <1>3 DEF ToSet
  <1>5. AtMostOne({"list"}, s) => AtMostOne({"list"}, t)
    BY <1>3 DEF AtMostOne, ReadOps
  <1>. QED
    BY <1>4, <1>5 DEF FewerReads, t

LEMMA FewerTwice ==
  ASSUME NEW r, NEW s, NEW t, FewerReads(r, s), FewerReads(s, t)
  PROVE  FewerReads(r, t)
  BY DEF FewerReads

(***************************************************************************)
(* What the tabs do to their calls: one is answered, one is made, or the   *)
(* effect of the one before is cleaned up.                                 *)
(***************************************************************************)
LEMMA CallsBeside ==
  ASSUME Fit(calls, tab), NEW some,
         \/ some = calls
         \/ \E ops : some = Cancel(ops, calls)
         \/ \E i \in DOMAIN calls : some = RemoveAt(calls, i),
         \/ calls' = some
         \/ \E d : d.op \notin ReadOps /\ d.live # "gone" /\ calls' = Append(some, d)
  PROVE  FewerReads(calls, calls')
  <1>1. Fit(some, tab) /\ FewerReads(calls, some)
    BY FitCancel, FitRemove, FewerSame, FewerCancel, FewerRemove
  <1>2. FewerReads(some, calls')
    BY <1>1, FewerSame, FewerAppend
  <1>. QED
    BY <1>1, <1>2, FewerTwice

LEMMA AskedOp ==
  \A op, arg, tok : Ask(op, arg, tok).op = op /\ Ask(op, arg, tok).live = "here"
  BY DEF Ask, AskAs

\* A step of a tab that leaves list and provider alone.
TabStep ==
  /\ FewerReads(calls, calls')
  /\ UNCHANGED <<user, mixed, faults, scope, list, listed, owner, rows>>

LEMMA TabStepKept ==
  ASSUME ScreenInv, Known, tab' = tab, TabStep
  PROVE  ScreenInv'
  BY Beside, TablesSame DEF TabStep

LEMMA SessionStays == UNCHANGED authVars => UNCHANGED <<user, mixed, faults>> /\ tab' = tab
  BY OnTab DEF authVars, memory

LEMMA EvidenceTabStep ==
  ASSUME Known, EvidenceClicks \/ EvidenceAnswers
  PROVE  TabStep /\ tab' = tab
  <1>0. Fit(calls, tab)
    BY KnownIs
  <1>. DEFINE rest == UNCHANGED <<authVars, server, scopeVars, list, listed>>
  <1>1. ASSUME NEW r, SelectSession(r) PROVE FewerReads(calls, calls') /\ rest
    BY <1>0, <1>1, CallsBeside, AskedOp DEF SelectSession, ReadOps, UsesPage, SamePage
  <1>2. ASSUME SessionBack \/ CloseReplay PROVE FewerReads(calls, calls') /\ rest
    BY <1>0, <1>2, CallsBeside DEF SessionBack, CloseReplay, UsesPage, SamePage
  <1>3. ASSUME OpenReplay PROVE FewerReads(calls, calls') /\ rest
    BY <1>0, <1>3, CallsBeside, AskedOp DEF OpenReplay, ReadOps, UsesPage, SamePage
  <1>4. ASSUME NEW i \in DOMAIN calls, NEW how,
               \/ AnchorAnswered(i, how) \/ ReplayEnded(i, how) \/ ProofAnswered(i, how)
               \/ Verified(i, how)
        PROVE  FewerReads(calls, calls') /\ rest
    BY <1>0, <1>4, CallsBeside
    DEF AnchorAnswered, ReplayEnded, ProofAnswered, Verified, UsesPage, SamePage
  <1>5. ASSUME NEW i \in DOMAIN calls, FrameArrived(i) PROVE FewerReads(calls, calls') /\ rest
    BY <1>5, FewerSame DEF FrameArrived, UsesPage, SamePage
  <1>6. ASSUME NEW r, ViewEvent(r) PROVE FewerReads(calls, calls') /\ rest
    BY <1>6, FewerSame DEF ViewEvent, UsesPage, SamePage
  <1>7. ASSUME EventBack \/ ReceiptBack PROVE FewerReads(calls, calls') /\ rest
    BY <1>7, FewerSame DEF EventBack, ReceiptBack, UsesPage, SamePage
  <1>8. ASSUME NEW r, FetchProof(r) PROVE FewerReads(calls, calls') /\ rest
    BY <1>0, <1>8, CallsBeside, AskedOp DEF FetchProof, ReadOps, UsesPage, SamePage
  <1>9. ASSUME NEW r, FetchAndVerify(r) PROVE FewerReads(calls, calls') /\ rest
    BY <1>0, <1>9, CallsBeside, AskedOp DEF FetchAndVerify, ReadOps, UsesPage, SamePage
  <1>10. ASSUME NEW r, VerifyPasted(r) PROVE FewerReads(calls, calls') /\ rest
    BY <1>0, <1>10, CallsBeside, FewerSame, AskedOp DEF VerifyPasted, ReadOps, UsesPage, SamePage
  <1>11. ASSUME NEW i \in DOMAIN calls, NEW how, FetchedProof(i, how)
         PROVE  FewerReads(calls, calls') /\ rest
    BY <1>0, <1>11, CallsBeside, AskedOp DEF FetchedProof, ReadOps, UsesPage, SamePage
  <1>12. FewerReads(calls, calls') /\ rest
    BY <1>1, <1>2, <1>3, <1>4, <1>5, <1>6, <1>7, <1>8, <1>9, <1>10, <1>11
    DEF EvidenceClicks, EvidenceAnswers
  <1>. QED
    BY <1>12, SessionStays DEF TabStep, server, scopeVars

LEMMA GrantTabStep ==
  ASSUME Known, GrantClicks \/ GrantAnswers
  PROVE  TabStep /\ tab' = tab
  <1>0. Fit(calls, tab)
    BY KnownIs
  <1>. DEFINE rest == UNCHANGED <<authVars, owner, rows, scopeVars, list, listed>>
  <1>1. ASSUME NEW r, SelectGrant(r) PROVE FewerReads(calls, calls') /\ rest
    BY <1>0, <1>1, CallsBeside, AskedOp DEF SelectGrant, ReadOps, UsesGrants, server
  <1>2. ASSUME GrantBack PROVE FewerReads(calls, calls') /\ rest
    BY <1>0, <1>2, CallsBeside DEF GrantBack, UsesGrants, server
  <1>3. ASSUME AskToRevoke \/ CancelConfirm PROVE FewerReads(calls, calls') /\ rest
    BY <1>3, FewerSame DEF AskToRevoke, CancelConfirm, UsesGrants, server
  <1>4. ASSUME ConfirmRevoke PROVE FewerReads(calls, calls') /\ rest
    BY <1>0, <1>4, CallsBeside, AskedOp DEF ConfirmRevoke, ReadOps, UsesGrants, server
  <1>5. ASSUME NEW i \in DOMAIN calls, NEW how, ChainAnswered(i, how) \/ RevokeAnswered(i, how)
        PROVE  FewerReads(calls, calls') /\ rest
    BY <1>0, <1>5, CallsBeside DEF ChainAnswered, RevokeAnswered, UsesGrants, server
  <1>6. FewerReads(calls, calls') /\ rest
    BY <1>1, <1>2, <1>3, <1>4, <1>5 DEF GrantClicks, GrantAnswers
  <1>. QED
    BY <1>6, SessionStays DEF TabStep, scopeVars

LEMMA AccountTabStep ==
  ASSUME Known, AccountNext
  PROVE  TabStep /\ tab' = tab
  <1>0. Fit(calls, tab)
    BY KnownIs
  <1>. DEFINE rest == UNCHANGED <<authVars, server, scopeVars, list, listed>>
  <1>1. ASSUME NEW to, OpenSection(to) PROVE FewerReads(calls, calls') /\ rest
    <2>. DEFINE cut == Cancel({"key"}, calls)
                c == Ask("key", 0, 0)
    <2>1. Fit(cut, tab) /\ cut \in Seq(CallRecord)
      BY <1>0, FitCancel DEF Fit
    <2>2. calls' = cut \o <<>> \/ calls' = cut \o <<c>>
      BY <1>1 DEF OpenSection
    <2>. HIDE DEF cut, c
    <2>3. cut \o <<>> = cut /\ cut \o <<c>> = Append(cut, c)
      <3>1. cut \in Seq(CallRecord \cup {c}) /\ c \in CallRecord \cup {c}
        BY <2>1, LenProperties
      <3>. QED
        BY <2>1, <3>1, ConcatEmptySeq, AppendIsConcat
    <2>4. FewerReads(calls, calls')
      BY <1>0, <2>2, <2>3, CallsBeside, AskedOp DEF cut, c, ReadOps
    <2>. QED
      BY <1>1, <2>4 DEF OpenSection, UsesAccount
  <1>2. ASSUME NEW i \in DOMAIN calls, NEW how,
               OverviewFigures(i, how) \/ KeyAnswered(i, how) \/ FiguresAnswered(i, how)
        PROVE  FewerReads(calls, calls') /\ rest
    BY <1>0, <1>2, CallsBeside DEF OverviewFigures, KeyAnswered, FiguresAnswered, UsesAccount
  <1>3. FewerReads(calls, calls') /\ rest
    BY <1>1, <1>2 DEF AccountNext
  <1>. QED
    BY <1>3, SessionStays DEF TabStep, server, scopeVars

LEMMA ShellTabStep ==
  ASSUME ShellNext
  PROVE  TabStep /\ tab' = tab
  <1>1. UNCHANGED <<authVars, server, scopeVars, pageVars>>
    BY DEF ShellNext, OpenPalette, ClosePalette, CollapseRail, ToggleDrawer, ToggleTheme,
           OsSwitches, Arrow, TypeQuery, Hover, OtherTabTheme, SameTabs
  <1>. QED
    BY <1>1, SessionStays, FewerSame DEF TabStep, server, scopeVars, pageVars

LEMMA ProjectClickTabStep ==
  ASSUME Known, ProjectClicks
  PROVE  TabStep /\ tab' = tab
  <1>0. Fit(calls, tab)
    BY KnownIs
  <1>. DEFINE rest == UNCHANGED <<authVars, owner, rows, scopeVars, list, listed>>
  <1>1. ASSUME ToggleForm PROVE FewerReads(calls, calls') /\ rest
    BY <1>1, FewerSame DEF ToggleForm, UsesProjects
  <1>2. ASSUME SubmitProject PROVE FewerReads(calls, calls') /\ rest
    BY <1>0, <1>2, CallsBeside, AskedOp DEF SubmitProject, ReadOps, UsesProjects
  <1>3. ASSUME NEW p, ToggleRow(p) PROVE FewerReads(calls, calls') /\ rest
    <2>1. KeysCall(p, "none").op = "keys" /\ KeysCall(p, "none").live # "gone"
      BY DEF KeysCall, Ask, AskAs
    <2>2. calls' = calls \/ calls' = Append(calls, KeysCall(p, "none"))
      BY <1>3 DEF ToggleRow
    <2>3. FewerReads(calls, calls')
      BY <1>0, <2>1, <2>2, CallsBeside DEF ReadOps
    <2>. QED
      BY <1>3, <2>3 DEF ToggleRow, UsesProjects
  <1>4. ASSUME NEW p, CreateKey(p) \/ ConfirmRevokeKey(p)
        PROVE  FewerReads(calls, calls') /\ rest
    BY <1>0, <1>4, CallsBeside, AskedOp DEF CreateKey, ConfirmRevokeKey, ReadOps, UsesProjects
  <1>5. ASSUME NEW p, NEW k, AskToRevokeKey(p, k) \/ CancelRevokeKey(p) \/ CloseReveal(p)
        PROVE  FewerReads(calls, calls') /\ rest
    BY <1>5, FewerSame DEF AskToRevokeKey, CancelRevokeKey, CloseReveal, UsesProjects
  <1>6. FewerReads(calls, calls') /\ rest
    BY <1>1, <1>2, <1>3, <1>4, <1>5 DEF ProjectClicks
  <1>. QED
    BY <1>6, SessionStays DEF TabStep, scopeVars

-----------------------------------------------------------------------------
(***************************************************************************)
(* A page of the listing: the highest of the rows left, in their order,    *)
(* and the last of them as the token when more are left.                   *)
(***************************************************************************)
Left(some, tok) == {r \in some : tok = 0 \/ r < tok}

LEMMA ListingIs ==
  ASSUME NEW some, some \subseteq Projects \/ some \subseteq Rows, NEW tok, tok \in Nat
  PROVE  LET got == Listing(some, tok) IN
         /\ got.items \in Seq(some) /\ Descending(got.items)
         /\ got.next \in {0} \cup Left(some, tok)
         /\ ToSet(got.items) \subseteq Left(some, tok)
         /\ got.next # 0 => \A k \in DOMAIN got.items : got.items[k] >= got.next
         /\ ReadTo(Left(some, tok), got.next) \subseteq ToSet(got.items)
  <1>. DEFINE left == Left(some, tok)
              size == Cardinality(left)
              many == IF size < PageSize THEN size ELSE PageSize
              items == [n \in 1 .. many |-> Place(n, left)]
              next == IF size > PageSize THEN Place(PageSize, left) ELSE 0
              got == Listing(some, tok)
  <1>0. left \subseteq some /\ got.items \in Seq(some) /\ got.next \in {0} \cup some
    BY ListingRows DEF Left
  <1>1. Numbers(left) /\ \A r \in left : r \in Nat /\ r # 0
    BY <1>0, SomeNumbers
  <1>2. /\ size \in Nat
        /\ \A n \in 1 .. size : Place(n, left) \in left
        /\ \A r \in left : \E n \in 1 .. size : Place(n, left) = r
        /\ \A n, m \in 1 .. size : n < m <=> Place(n, left) > Place(m, left)
    BY <1>1, PlaceOf
  <1>3. got.items = items /\ got.next = next
    BY DEF Listing, Left
  <1>4. PageSize \in Nat \ {0}
    BY PageSizeAssumption
  <1>. HIDE DEF left, size, got
  <1>5. /\ many \in Nat /\ many =< size /\ (size > PageSize => many = PageSize)
        /\ (~(size > PageSize) => many = size)
    BY <1>2, <1>4
  <1>6. DOMAIN items = 1 .. many /\ \A n \in 1 .. many : items[n] = Place(n, left)
    OBVIOUS
  <1>. HIDE DEF many, items
  <1>7. \A n \in 1 .. many : n \in 1 .. size
    BY <1>2, <1>5
  <1>8. Descending(items)
    BY <1>2, <1>6, <1>7 DEF Descending
  <1>9. ToSet(items) \subseteq left
    BY <1>2, <1>6, <1>7 DEF ToSet
  <1>10. ASSUME next # 0, NEW k \in 1 .. many PROVE items[k] >= next
    <2>1. size > PageSize /\ next = Place(PageSize, left) /\ PageSize \in 1 .. size
          /\ k =< PageSize /\ k \in 1 .. size
      BY <1>2, <1>4, <1>5, <1>7, <1>10
    <2>2. Place(k, left) \in Nat /\ Place(PageSize, left) \in Nat
      BY <1>1, <1>2, <2>1
    <2>3. CASE k = PageSize
      BY <1>6, <2>1, <2>2, <2>3
    <2>4. CASE k < PageSize
      <3>1. Place(k, left) > Place(PageSize, left)
        BY <1>2, <2>1, <2>4
      <3>. QED
        BY <1>6, <2>1, <2>2, <3>1
    <2>. QED
      BY <1>4, <2>1, <2>3, <2>4
  <1>11. ASSUME NEW r \in ReadTo(left, next) PROVE r \in ToSet(items)
    <2>1. r \in left /\ r \in Nat /\ (next = 0 \/ r >= next)
      BY <1>1, <1>11 DEF ReadTo
    <2>2. PICK n \in 1 .. size : Place(n, left) = r
      BY <1>2, <2>1
    <2>3. n \in 1 .. many
      <3>1. CASE size > PageSize
        <4>1. PageSize \in 1 .. size /\ Place(PageSize, left) \in left
              /\ next = Place(PageSize, left) /\ many = PageSize
          BY <1>2, <1>4, <1>5, <3>1
        <4>2. next \in Nat /\ next # 0
          BY <1>1, <4>1
        <4>3. ~(PageSize < n)
          <5>1. ~(Place(PageSize, left) > Place(n, left))
            BY <2>1, <2>2, <4>1, <4>2
          <5>. QED
            BY <1>2, <4>1, <5>1
        <4>. QED
          BY <1>2, <1>4, <4>1, <4>3
      <3>2. CASE ~(size > PageSize)
        BY <1>5, <3>2
      <3>. QED
        BY <3>1, <3>2
    <2>. QED
      BY <1>6, <2>2, <2>3 DEF ToSet
  <1>12. DOMAIN items = 1 .. many
    BY <1>6
  <1>13. next \in {0} \cup left
    <2>1. size > PageSize => PageSize \in 1 .. size
      BY <1>2, <1>4
    <2>. QED
      BY <1>2, <2>1
  <1>. HIDE DEF next
  <1>. QED
    BY <1>0, <1>3, <1>8, <1>9, <1>10, <1>11, <1>12, <1>13 DEF left, got

(***************************************************************************)
(* The answer to the first page, and to the page after the ones read.      *)
(***************************************************************************)
LEMMA FirstPage ==
  ASSUME NEW pages, pages \in ListRecord, NEW from, from \subseteq Projects \/ from \subseteq Rows
  PROVE  PagesRead(PageArrived(pages, 0, Listing(from, 0)), from, from)
  <1>. DEFINE got == Listing(from, 0)
              after == PageArrived(pages, 0, got)
  <1>1. /\ got.items \in Seq(from) /\ Descending(got.items) 
        /\ ToSet(got.items) \subseteq Left(from, 0)
        /\ got.next # 0 => \A k \in DOMAIN got.items : got.items[k] >= got.next
        /\ ReadTo(Left(from, 0), got.next) \subseteq ToSet(got.items)
    BY ListingIs
  <1>2. Left(from, 0) = from
    BY DEF Left
  <1>. HIDE DEF got
  <1>3. after.items = got.items /\ after.next = got.next
    BY DEF PageArrived, ListRecord
  <1>. HIDE DEF after
  <1>4. PagesRead(after, from, from)
    BY <1>1, <1>2, <1>3 DEF PagesRead
  <1>. QED
    BY <1>4 DEF after, got

LEMMA NextPage ==
  ASSUME NEW pages, pages \in ListRecord, NEW from, from \subseteq Projects \/ from \subseteq Rows,
         NEW base, NEW tok, tok # 0, tok = pages.next, PagesRead(pages, base, from)
  PROVE  PagesRead(PageArrived(pages, tok, Listing(from, tok)), base, from)
  <1>. DEFINE got == Listing(from, tok)
              after == PageArrived(pages, tok, got)
              old == pages.items
              new == got.items
              both == old \o new
  <1>0. /\ old \in Seq(Nat) /\ tok \in Nat
        /\ \A r \in from : r \in Nat
    BY SomeNumbers DEF ListRecord
  <1>1. /\ new \in Seq(from) /\ Descending(new) /\ got.next \in {0} \cup Left(from, tok)
        /\ ToSet(new) \subseteq Left(from, tok)
        /\ got.next # 0 => \A k \in DOMAIN new : new[k] >= got.next
        /\ ReadTo(Left(from, tok), got.next) \subseteq ToSet(new)
    BY <1>0, ListingIs
  <1>2. /\ Descending(old) /\ \A k \in DOMAIN old : old[k] >= tok
        /\ ReadTo(base, tok) \subseteq ToSet(old)
        /\ ToSet(old) \subseteq from /\ base \subseteq from
    BY DEF PagesRead
  <1>. HIDE DEF got
  <1>3. after.items = both /\ after.next = got.next
    BY DEF PageArrived, ListRecord
  <1>4. new \in Seq(Nat)
    BY <1>0, <1>1
  <1>. HIDE DEF old, new
  <1>5. /\ Len(old) \in Nat /\ Len(new) \in Nat
        /\ DOMAIN old = 1 .. Len(old) /\ DOMAIN new = 1 .. Len(new)
        /\ DOMAIN both = 1 .. Len(old) + Len(new)
        /\ \A k \in DOMAIN both : both[k] = IF k =< Len(old) THEN old[k] ELSE new[k - Len(old)]
    BY <1>0, <1>4, LenProperties, ConcatProperties
  <1>. HIDE DEF both
  <1>6. \A k \in DOMAIN both :
          \/ k \in DOMAIN old /\ both[k] = old[k]
          \/ k > Len(old) /\ k - Len(old) \in DOMAIN new /\ both[k] = new[k - Len(old)]
    BY <1>5
  <1>7. /\ \A k \in DOMAIN old : k \in DOMAIN both /\ both[k] = old[k]
        /\ \A k \in DOMAIN new : k + Len(old) \in DOMAIN both /\ both[k + Len(old)] = new[k]
    BY <1>5
  <1>8. /\ ToSet(both) = ToSet(old) \cup ToSet(new)
        /\ \A k \in DOMAIN new : new[k] \in Left(from, tok)
        /\ \A k \in DOMAIN old : old[k] \in from
    BY <1>1, <1>2, <1>6, <1>7 DEF ToSet
  <1>9. \A k \in DOMAIN new : new[k] \in Nat /\ new[k] < tok
    BY <1>0, <1>8 DEF Left
  <1>10. \A k \in DOMAIN old : old[k] \in Nat /\ old[k] >= tok
    BY <1>0, <1>2, <1>8
  <1>11. Descending(both)
    <2>. SUFFICES ASSUME NEW i \in DOMAIN both, NEW j \in DOMAIN both, i < j
                  PROVE  both[i] > both[j]
      BY DEF Descending
    <2>1. CASE j \in DOMAIN old /\ both[j] = old[j]
      <3>1. i \in DOMAIN old /\ both[i] = old[i]
        BY <1>5, <1>7, <2>1
      <3>. QED
        BY <1>2, <2>1, <3>1 DEF Descending
    <2>2. CASE j > Len(old) /\ j - Len(old) \in DOMAIN new /\ both[j] = new[j - Len(old)]
      <3>1. CASE i \in DOMAIN old /\ both[i] = old[i]
        BY <1>0, <1>9, <1>10, <2>2, <3>1
      <3>2. CASE i > Len(old) /\ i - Len(old) \in DOMAIN new /\ both[i] = new[i - Len(old)]
        <4>1. i - Len(old) < j - Len(old)
          BY <1>5
        <4>. QED
          BY <1>1, <2>2, <3>2, <4>1 DEF Descending
      <3>. QED
        BY <1>6, <3>1, <3>2
    <2>. QED
      BY <1>6, <2>1, <2>2
  <1>12. ASSUME got.next # 0, NEW k \in DOMAIN both PROVE both[k] >= got.next
    <2>1. got.next \in Nat /\ got.next < tok
      <3>1. got.next \in from /\ got.next < tok
        BY <1>0, <1>1, <1>12 DEF Left
      <3>. QED
        BY <1>0, <3>1
    <2>2. CASE k \in DOMAIN old /\ both[k] = old[k]
      BY <1>0, <1>10, <2>1, <2>2
    <2>3. CASE k - Len(old) \in DOMAIN new /\ both[k] = new[k - Len(old)]
      BY <1>1, <1>12, <2>3
    <2>. QED
      BY <1>6, <2>2, <2>3
  <1>13. ASSUME NEW r \in ReadTo(base, got.next) PROVE r \in ToSet(both)
    <2>1. r \in base /\ r \in from /\ r \in Nat /\ (got.next = 0 \/ r >= got.next)
      BY <1>0, <1>2, <1>13 DEF ReadTo
    <2>2. CASE r >= tok
      BY <1>2, <1>8, <2>1, <2>2 DEF ReadTo
    <2>3. CASE r < tok
      BY <1>1, <1>8, <2>1, <2>3 DEF ReadTo, Left
    <2>. QED
      BY <1>0, <2>1, <2>2, <2>3
  <1>14. ToSet(both) \subseteq from
    BY <1>1, <1>2, <1>8 DEF Left
  <1>. HIDE DEF after
  <1>15. PagesRead(after, base, from)
    BY <1>2, <1>3, <1>11, <1>12, <1>13, <1>14 DEF PagesRead
  <1>. QED
    BY <1>15 DEF after, got

-----------------------------------------------------------------------------
(***************************************************************************)
(* What a step on a tab must show for each part of the invariant.          *)
(***************************************************************************)
OnScreen == tab' = tab /\ UNCHANGED <<user, mixed, faults>> /\ TablesGrow

LEMMA OwnedKept ==
  ASSUME OwnedByUser, Known, OnScreen,
         tab # "none" /\ ~mixed /\ faults = 0 =>
           /\ scope'.projects \cup ({scope'.selected} \ {0})
                \subseteq scope.projects \cup ({scope.selected} \ {0}) \cup ProjectsOf(user)
           /\ tab \in ListPages => ToSet(list'.items)
                                     \subseteq ToSet(list.items) \cup Listable(tab, user, 0)
  PROVE  OwnedByUser'
  <1>. SUFFICES ASSUME tab # "none", ~mixed, faults = 0
                PROVE  /\ scope'.projects \cup ({scope'.selected} \ {0}) \subseteq ProjectsOf(user)'
                       /\ tab \in ListPages
                            => ToSet(list'.items) \subseteq Listable(tab, user, 0)'
    BY DEF OwnedByUser, OnScreen
  <1>1. user # None /\ user' = user /\ TablesGrow
    BY KnownIs DEF OnScreen
  <1>2. ProjectsOf(user) \subseteq ProjectsOf(user)'
    BY <1>1, ListableGrows
  <1>3. \A where : Listable(where, user, 0) \subseteq Listable(where, user, 0)'
    BY <1>1, ListableGrows
  <1>4. Listable(tab, user, 0) \subseteq Listable(tab, user, 0)'
    BY <1>3 DEF OnScreen
  <1>5. /\ scope.projects \cup ({scope.selected} \ {0}) \subseteq ProjectsOf(user)
        /\ tab \in ListPages => ToSet(list.items) \subseteq Listable(tab, user, 0)
    BY DEF OwnedByUser
  <1>. QED
    BY <1>2, <1>4, <1>5

LEMMA CallsKept ==
  ASSUME CallsOfUser, Known, OnScreen,
         \A d \in ToSet(calls') : d.op \in ReadOps => d \in ToSet(calls) \/ d.as = Acting
  PROVE  CallsOfUser'
  <1>1. tab # "none" /\ ~mixed /\ faults = 0 => Acting = user
    BY KnownIs
  <1>. QED
    BY <1>1 DEF CallsOfUser, OnScreen

\* The list is asked for again, with the selected project.
Afresh ==
  /\ list'.items = <<>> /\ list'.next = 0 /\ listed'.base = {}
  /\ listed'.clean =>
       /\ AtMostOne({"list"}, calls')
       /\ \A d \in ToSet(calls') :
            d.op = "list" => d.tok = 0 /\ d.arg = ListScope(tab, scope.selected)'

LEMMA PagesAfresh == Afresh => PagesInv'
  <1>. SUFFICES ASSUME Afresh, (tab \in ListPages)', listed'.clean PROVE PagesInv'
    BY DEF PagesInv
  <1>1. PagesRead(list', {}, Wanted')
    <2>1. DOMAIN <<>> = {} /\ ToSet(<<>>) = {}
      BY DEF ToSet
    <2>. QED
      BY <2>1 DEF Afresh, PagesRead, Descending, ReadTo
  <1>2. \A d \in ToSet(calls') : d.op = "list" =>
          PageCall(d, ListScope(tab, scope.selected)', list', {})
    BY DEF Afresh, PageCall
  <1>. QED
    BY <1>1, <1>2 DEF Afresh, PagesInv

-----------------------------------------------------------------------------
(***************************************************************************)
(* A page of the list is answered.                                         *)
(***************************************************************************)
LEMMA ArrivedItems ==
  ASSUME NEW pages, pages \in ListRecord, NEW from, from \subseteq Projects \/ from \subseteq Rows,
         NEW tok
  PROVE  ToSet(PageArrived(pages, tok, Listing(from, tok)).items)
           \subseteq ToSet(pages.items) \cup from
  <1>. DEFINE old == pages.items
              new == Listing(from, tok).items
  <1>1. old \in Seq(Nat) /\ new \in Seq(from) /\ \A r \in from : r \in Nat
    BY SomeNumbers, ListingRows DEF ListRecord
  <1>2. PageArrived(pages, tok, Listing(from, tok)).items = (IF tok = 0 THEN new ELSE old \o new)
    BY DEF PageArrived, ListRecord
  <1>. HIDE DEF old, new
  <1>3. old \in Seq(Nat \cup from) /\ new \in Seq(Nat \cup from)
    BY <1>1
  <1>4. /\ Len(old) \in Nat /\ Len(new) \in Nat
        /\ DOMAIN old = 1 .. Len(old) /\ DOMAIN new = 1 .. Len(new)
        /\ DOMAIN (old \o new) = 1 .. Len(old) + Len(new)
        /\ \A k \in DOMAIN (old \o new) :
             (old \o new)[k] = IF k =< Len(old) THEN old[k] ELSE new[k - Len(old)]
    BY <1>3, LenProperties, ConcatProperties
  <1>5. \A k \in DOMAIN (old \o new) :
          \/ k \in DOMAIN old /\ (old \o new)[k] = old[k]
          \/ k - Len(old) \in DOMAIN new /\ (old \o new)[k] = new[k - Len(old)]
    BY <1>4
  <1>6. ToSet(old \o new) \subseteq ToSet(old) \cup ToSet(new)
    BY <1>5 DEF ToSet
  <1>7. ToSet(new) \subseteq from
    BY <1>1, ElementOfSeq, LenProperties DEF ToSet
  <1>. QED
    BY <1>2, <1>6, <1>7 DEF old

LEMMA FailedItems ==
  ASSUME NEW pages, pages \in ListRecord
  PROVE  PageFailed(pages).items = pages.items /\ PageFailed(pages).next = pages.next
  BY DEF PageFailed, ListRecord

LEMMA ListableIsRows ==
  ASSUME NEW where, NEW who, NEW p
  PROVE  Listable(where, who, p) \subseteq Projects \/ Listable(where, who, p) \subseteq Rows
  BY ListableFits DEF RowsOfTab

\* How the calls change: the answered one goes, and no read comes.
LEMMA ListCallGone ==
  ASSUME Known, NEW i \in DOMAIN calls, NEW how, ListAnswered(i, how)
  PROVE  /\ FewerReads(calls, calls') /\ calls[i] \in ToSet(calls) /\ calls[i].op = "list"
         /\ AtMostOne({"list"}, calls) => \A d \in ToSet(calls') : d.op # "list"
  <1>. DEFINE left == RemoveAt(calls, i)
  <1>1. Fit(calls, tab) /\ Fit(left, tab) /\ calls[i] \in ToSet(calls) /\ calls[i].op = "list"
    BY KnownIs, FitRemove, InSet DEF ListAnswered
  <1>2. FewerReads(calls, left)
    BY <1>1, FewerRemove
  <1>3. AtMostOne({"list"}, calls) => \A d \in ToSet(left) : d.op # "list"
    BY <1>1, RemoveSet
  <1>4. calls' = left \/ \E pages : calls' = Unrow(left, pages)
    BY DEF ListAnswered
  <1>5. FewerReads(left, calls')
    BY <1>1, <1>4, FewerSame, FewerUnrow
  <1>. HIDE DEF left
  <1>6. FewerReads(calls, calls')
    BY <1>2, <1>5, FewerTwice
  <1>7. AtMostOne({"list"}, calls) => \A d \in ToSet(calls') : d.op # "list"
    BY <1>3, <1>5 DEF FewerReads, ReadOps
  <1>. QED
    BY <1>1, <1>6, <1>7

LEMMA PageKeptScreen ==
  ASSUME ScreenInv, Known, NEW i \in DOMAIN calls, NEW how, ListAnswered(i, how)
  PROVE  ScreenInv'
  <1>. DEFINE c == calls[i]
              from == Listable(tab, c.as, c.arg)
              after == PageArrived(list, c.tok, Listing(from, c.tok))
  <1>1. /\ Fit(calls, tab) /\ list \in ListRecord /\ user' = user
        /\ tab \in ListPages /\ c \in ToSet(calls) /\ c.op = "list"
        /\ FewerReads(calls, calls')
        /\ AtMostOne({"list"}, calls) => \A d \in ToSet(calls') : d.op # "list"
    BY KnownIs, ListCallGone, SessionStays DEF ListAnswered, ListFits
  <1>2. /\ OnScreen /\ UNCHANGED <<scope, owner, rows>>
        /\ \/ list' = after /\ listed' = IF c.tok = 0 THEN [listed EXCEPT !.base = from] ELSE listed
           \/ list' = PageFailed(list) /\ listed' = listed
    BY SessionStays, TablesSame DEF ListAnswered, OnScreen, server, scopeVars
  <1>3. from \subseteq Projects \/ from \subseteq Rows
    BY ListableIsRows
  <1>4. c.tok \in Nat
    BY <1>1, SetOfFit DEF CallFits, CallRecord
  <1>5. ~mixed /\ faults = 0 => c.as = user
    BY <1>1 DEF ScreenInv, CallsOfUser, ReadOps, ListPages
  <1>6. OwnedByUser'
    <2>1. ~mixed /\ faults = 0 => from \subseteq Listable(tab, user, 0)
      BY <1>5, ScopeIsPart
    <2>2. ToSet(list'.items) \subseteq ToSet(list.items) \cup from
      <3>. HIDE DEF from
      <3>. QED
        BY <1>1, <1>2, <1>3, ArrivedItems, FailedItems
    <2>. HIDE DEF from
    <2>. QED
      BY <1>2, <2>1, <2>2, OwnedKept DEF ScreenInv
  <1>7. CallsOfUser'
    BY <1>1, <1>2, CallsKept DEF ScreenInv, FewerReads
  <1>8. ListedType' /\ (listed'.clean <=> listed.clean)
        /\ listed'.base = IF list' = after /\ c.tok = 0 /\ listed' # listed THEN from ELSE listed.base
    <2>1. \A r \in from : r \in Nat
      BY <1>3, SomeNumbers
    <2>. HIDE DEF from, after
    <2>. QED
      BY <1>2, <2>1 DEF ScreenInv, ListedType
  <1>9. PagesInv'
    <2>. SUFFICES ASSUME listed.clean, ~mixed, faults = 0 PROVE PagesInv'
      BY <1>2, <1>8 DEF PagesInv, OnScreen
    <2>1. /\ AtMostOne({"list"}, calls)
          /\ PageCall(c, ListScope(tab, scope.selected), list, listed.base)
          /\ PagesRead(list, listed.base, Wanted)
      BY <1>1 DEF ScreenInv, PagesInv
    <2>2. from = Wanted /\ Wanted' = Wanted
      BY <1>2, <1>5, <2>1 DEF PageCall, Wanted, OnScreen, Listable, ProjectsOf, RowsIn
    <2>3. (\A d \in ToSet(calls') : d.op # "list") /\ AtMostOne({"list"}, calls')
      BY <1>1, <2>1 DEF FewerReads
    <2>4. PagesRead(list', listed'.base, from)
      <3>. HIDE DEF from
      <3>1. CASE list' = PageFailed(list) /\ listed' = listed
        BY <1>1, <2>1, <2>2, <3>1, FailedItems DEF PagesRead
      <3>2. CASE list' = after /\ c.tok = 0 /\ listed' = [listed EXCEPT !.base = from]
        <4>1. listed'.base = from
          BY <3>2 DEF ScreenInv, ListedType
        <4>. QED
          BY <1>1, <1>3, <3>2, <4>1, FirstPage
      <3>3. CASE list' = after /\ c.tok # 0 /\ listed' = listed
        <4>1. c.tok = list.next
          BY <2>1, <3>3 DEF PageCall
        <4>. QED
          BY <1>1, <1>3, <2>1, <2>2, <3>3, <4>1, NextPage
      <3>. QED
        BY <1>2, <3>1, <3>2, <3>3
    <2>. QED
      BY <2>2, <2>3, <2>4 DEF PagesInv
  <1>. QED
    BY <1>6, <1>7, <1>8, <1>9 DEF ScreenInv

-----------------------------------------------------------------------------
(***************************************************************************)
(* The list is asked for again: what was read is forgotten, and the call   *)
(* is the only one unless another was under way.                           *)
(***************************************************************************)
LEMMA ListCallFor ==
  ASSUME NEW p, NEW tok, NEW then
  PROVE  LET c == ListCall(p, tok, then) IN
         c.op = "list" /\ c.arg = p /\ c.tok = tok /\ c.as = Acting
  BY DEF ListCall, Ask, AskAs

LEMMA RefreshEmpties ==
  ASSUME NEW pages, pages \in ListRecord
  PROVE  Refresh(pages).items = <<>> /\ Refresh(pages).next = 0
  BY DEF Refresh, FetchPage, Reset, ListRecord

LEMMA RefreshScreen ==
  ASSUME ScreenInv, Known, OnScreen, tab \in ListPages, NEW p, NEW then, NEW before,
         p \in Nat, then \in {"none", "created"}, Fit(before, tab), FewerReads(calls, before),
         RefreshList(list, p, then, before), p = ListScope(tab, scope.selected)'
  PROVE  CallsOfUser' /\ ListedType' /\ PagesInv' /\ list'.items = <<>>
  <1>. DEFINE c == ListCall(p, 0, then)
  <1>1. c.op = "list" /\ c.arg = p /\ c.tok = 0 /\ c.as = Acting
    BY ListCallFor
  <1>2. c \in CallRecord /\ list \in ListRecord
    BY KnownIs, ListCallIs DEF CallFits, ListFits
  <1>3. /\ list' = Refresh(list) /\ calls' = Append(before, c)
        /\ listed' = [clean |-> ~Overlaps(before), base |-> {}, of |-> p]
    BY DEF RefreshList
  <1>. HIDE DEF c
  <1>4. /\ ToSet(calls') = ToSet(before) \cup {c}
        /\ (\A d \in ToSet(before) : d.op # "list") => AtMostOne({"list"}, calls')
    BY <1>2, <1>3, AppendSet
  <1>5. ~Overlaps(before) => \A d \in ToSet(before) : d.op # "list"
    BY DEF Overlaps, ToSet
  <1>6. CallsOfUser'
    BY <1>1, <1>4, CallsKept DEF ScreenInv, FewerReads
  <1>7. list'.items = <<>> /\ list'.next = 0
    BY <1>2, <1>3, RefreshEmpties
  <1>8. ListedType' /\ listed'.base = {} /\ listed'.clean = ~Overlaps(before)
    BY <1>3 DEF ListedType, Overlaps
  <1>9. Afresh
    BY <1>1, <1>4, <1>5, <1>7, <1>8 DEF Afresh
  <1>. QED
    BY <1>6, <1>7, <1>8, <1>9, PagesAfresh

LEMMA RescopeScreen ==
  ASSUME ScreenInv, Known, OnScreen, UNCHANGED <<owner, rows>>, NEW p, NEW before,
         p \in {0} \cup Projects, Fit(before, tab), FewerReads(calls, before),
         Rescope(p, before), scope'.selected = p,
         tab # "none" /\ ~mixed /\ faults = 0 =>
           scope'.projects \cup ({p} \ {0})
             \subseteq scope.projects \cup ({scope.selected} \ {0}) \cup ProjectsOf(user)
  PROVE  ScreenInv'
  <1>1. p \in Nat
    BY ScopeNumbers
  <1>2. CASE p # scope.selected /\ tab \in ListPages \ {"projects"}
    <2>1. RefreshList(list, p, "none", before) /\ p = ListScope(tab, scope.selected)'
      BY <1>2 DEF Rescope, ListScope, OnScreen
    <2>2. CallsOfUser' /\ ListedType' /\ PagesInv' /\ list'.items = <<>>
      BY <1>1, <1>2, <2>1, RefreshScreen
    <2>3. ToSet(list'.items) = {}
      BY <2>2 DEF ToSet
    <2>4. OwnedByUser'
      BY <2>3, OwnedKept DEF ScreenInv
    <2>. QED
      BY <2>2, <2>4 DEF ScreenInv
  <1>3. CASE ~(p # scope.selected /\ tab \in ListPages \ {"projects"})
    <2>1. calls' = before /\ UNCHANGED <<list, listed>>
      BY <1>3 DEF Rescope
    <2>2. OwnedByUser'
      BY <2>1, OwnedKept DEF ScreenInv
    <2>3. CallsOfUser' /\ ListedType'
      BY <2>1, CallsKept DEF ScreenInv, FewerReads, ListedType
    <2>4. PagesInv'
      <3>. SUFFICES ASSUME tab \in ListPages, listed.clean, ~mixed, faults = 0
                    PROVE  PagesInv'
        BY <2>1 DEF PagesInv, OnScreen
      <3>1. ListScope(tab, scope.selected)' = ListScope(tab, scope.selected)
        BY <1>3 DEF ListScope, OnScreen
      <3>2. Wanted' = Wanted
        BY <3>1 DEF Wanted, Listable, ProjectsOf, RowsIn, OnScreen
      <3>3. /\ AtMostOne({"list"}, calls')
            /\ \A d \in ToSet(calls') :
                 d.op = "list" => PageCall(d, ListScope(tab, scope.selected)', list', listed'.base)
        BY <2>1, <3>1 DEF ScreenInv, PagesInv, FewerReads, ReadOps
      <3>4. PagesRead(list', listed'.base, Wanted')
        BY <2>1, <3>2 DEF ScreenInv, PagesInv
      <3>. QED
        BY <3>3, <3>4 DEF PagesInv
    <2>. QED
      BY <2>2, <2>3, <2>4 DEF ScreenInv
  <1>. QED
    BY <1>2, <1>3

-----------------------------------------------------------------------------
(***************************************************************************)
(* The projects come in, and one is selected.                              *)
(***************************************************************************)
LEMMA SelectFirstOf ==
  ASSUME NEW some, some \subseteq Projects
  PROVE  SelectFirst(some) \in {0} \cup some
  <1>1. Numbers(some)
    BY SomeNumbers
  <1>. QED
    BY <1>1, MaxOf DEF SelectFirst, Highest

LEMMA ScopeScreen ==
  ASSUME ScreenInv, Known, NEW i \in DOMAIN calls, NEW how \in Hows, ScopeAnswered(i, how)
  PROVE  ScreenInv'
  <1>. DEFINE found == ProjectsOf(calls[i].as)
              first == SelectFirst(found)
              left == RemoveAt(calls, i)
  <1>1. /\ Fit(calls, tab) /\ Fit(left, tab) /\ FewerReads(calls, left)
        /\ calls[i] \in ToSet(calls) /\ calls[i].op = "projects"
        /\ scope \in [loading : BOOLEAN, projects : SUBSET Projects,
                      selected : {0} \cup Projects, error : BOOLEAN]
    BY KnownIs, FitRemove, FewerRemove, InSet DEF ScopeAnswered
  <1>2. OnScreen /\ UNCHANGED <<owner, rows>>
    BY SessionStays, TablesSame DEF ScopeAnswered, OnScreen, server
  <1>3. tab # "none" /\ ~mixed /\ faults = 0 => found = ProjectsOf(user)
    BY <1>1 DEF ScreenInv, CallsOfUser, ReadOps
  <1>4. found \subseteq Projects /\ first \in {0} \cup found
    BY SelectFirstOf DEF ProjectsOf
  <1>. HIDE DEF found, first, left
  <1>5. CASE /\ scope' = [scope EXCEPT !.loading = FALSE, !.projects = found, !.selected = first]
             /\ Rescope(first, left)
    <2>1. scope'.projects = found /\ scope'.selected = first
      BY <1>1, <1>5
    <2>2. tab # "none" /\ ~mixed /\ faults = 0 =>
            scope'.projects \cup ({first} \ {0}) \subseteq ProjectsOf(user)
      BY <1>3, <1>4, <2>1
    <2>3. first \in {0} \cup Projects /\ Rescope(first, left)
      BY <1>4, <1>5
    <2>. QED
      BY <1>1, <1>2, <2>1, <2>2, <2>3, RescopeScreen
  <1>6. CASE /\ scope' = [scope EXCEPT !.loading = @ /\ how = "break", !.error = (how = "error")]
             /\ Rescope(scope.selected, left)
    <2>1. scope'.projects = scope.projects /\ scope'.selected = scope.selected
      BY <1>1, <1>6
    <2>2. scope.selected \in {0} \cup Projects /\ Rescope(scope.selected, left)
      BY <1>1, <1>6
    <2>. QED
      BY <1>1, <1>2, <2>1, <2>2, RescopeScreen
  <1>. QED
    BY <1>5, <1>6 DEF ScopeAnswered, found, first, left

LEMMA SelectScreen ==
  ASSUME ScreenInv, Known, NEW p \in Projects, SelectProject(p)
  PROVE  ScreenInv'
  <1>1. /\ Fit(calls, tab) /\ FewerReads(calls, calls)
        /\ scope \in [loading : BOOLEAN, projects : SUBSET Projects,
                      selected : {0} \cup Projects, error : BOOLEAN]
    BY KnownIs, FewerSame
  <1>2. OnScreen /\ UNCHANGED <<owner, rows>>
    BY SessionStays, TablesSame DEF SelectProject, OnScreen, server
  <1>3. scope'.projects = scope.projects /\ scope'.selected = p /\ p \in scope.projects
    BY <1>1 DEF SelectProject
  <1>4. Rescope(p, calls)
    BY DEF SelectProject
  <1>. QED
    BY <1>1, <1>2, <1>3, <1>4, RescopeScreen

-----------------------------------------------------------------------------
(***************************************************************************)
(* The next page is asked for, and rows are recorded.                      *)
(***************************************************************************)
LEMMA MoreScreen ==
  ASSUME ScreenInv, Known, LoadMoreRows
  PROVE  ScreenInv'
  <1>. DEFINE c == Ask("list", ListScope(tab, scope.selected), list.next)
  <1>1. /\ Fit(calls, tab) /\ list \in ListRecord /\ AuthTypeOK
        /\ scope.selected \in {0} \cup Projects
    BY KnownIs DEF ListFits
  <1>2. /\ c.op = "list" /\ c.arg = ListScope(tab, scope.selected) /\ c.tok = list.next
        /\ c.as = Acting
    BY DEF Ask, AskAs
  <1>3. c \in CallRecord
    <2>1. ListScope(tab, scope.selected) \in Nat /\ list.next \in Nat /\ "list" \in CallOps
      BY <1>1, ScopeNumbers DEF ListScope, ListRecord, CallOps
    <2>. QED
      BY <1>1, <2>1, AskIs
  <1>4. /\ list' = LoadMore(list) /\ list.next # 0
        /\ listed' = [listed EXCEPT !.clean = @ /\ ~Overlaps(calls)]
        /\ calls' = Append(calls, c)
        /\ UNCHANGED <<scope, owner, rows>>
    BY DEF LoadMoreRows, OffersMore, server, scopeVars
  <1>5. OnScreen
    BY SessionStays, TablesSame DEF LoadMoreRows, OnScreen, server
  <1>. HIDE DEF c
  <1>6. /\ ToSet(calls') = ToSet(calls) \cup {c}
        /\ (\A d \in ToSet(calls) : d.op # "list") => AtMostOne({"list"}, calls')
    BY <1>1, <1>3, <1>4, AppendSet
  <1>7. ~Overlaps(calls) => \A d \in ToSet(calls) : d.op # "list"
    BY DEF Overlaps, ToSet
  <1>8. list'.items = list.items /\ list'.next = list.next
    BY <1>1, <1>4 DEF LoadMore, FetchPage, ListRecord
  <1>9. /\ ListedType' /\ listed'.base = listed.base
        /\ listed'.clean = (listed.clean /\ ~Overlaps(calls))
    BY <1>4 DEF ScreenInv, ListedType, Overlaps
  <1>10. OwnedByUser'
    BY <1>4, <1>5, <1>8, OwnedKept DEF ScreenInv
  <1>11. CallsOfUser'
    BY <1>2, <1>5, <1>6, CallsKept DEF ScreenInv
  <1>12. PagesInv'
    <2>. SUFFICES ASSUME tab \in ListPages, listed.clean, ~Overlaps(calls), ~mixed, faults = 0
                  PROVE  PagesInv'
      BY <1>5, <1>9 DEF PagesInv, OnScreen
    <2>1. Wanted' = Wanted /\ ListScope(tab, scope.selected)' = ListScope(tab, scope.selected)
      BY <1>4, <1>5 DEF Wanted, Listable, ProjectsOf, RowsIn, OnScreen, ListScope
    <2>2. PagesRead(list', listed'.base, Wanted')
      BY <1>8, <1>9, <2>1 DEF ScreenInv, PagesInv, PagesRead
    <2>3. \A d \in ToSet(calls') :
            d.op = "list" => PageCall(d, ListScope(tab, scope.selected), list', listed'.base)
      BY <1>2, <1>4, <1>6, <1>7, <1>8 DEF PageCall
    <2>. QED
      BY <1>6, <1>7, <2>1, <2>2, <2>3 DEF PagesInv
  <1>. QED
    BY <1>9, <1>10, <1>11, <1>12 DEF ScreenInv

LEMMA RecordedScreen ==
  ASSUME ScreenInv, Known, Recorded
  PROVE  ScreenInv'
  <1>1. UNCHANGED <<authVars, owner, scopeVars, pageVars>> /\ rows \subseteq rows'
    BY DEF Recorded
  <1>2. TablesGrow
    BY <1>1 DEF TablesGrow
  <1>3. tab' = tab /\ UNCHANGED <<user, mixed, faults, scope, list, listed>>
    BY <1>1, SessionStays DEF scopeVars, pageVars
  <1>4. FewerReads(calls, calls')
    BY <1>1, FewerSame DEF pageVars
  <1>. QED
    BY <1>2, <1>3, <1>4, Beside

LEMMA ListScreen == ScreenInv /\ Known /\ ListNext => ScreenInv'
  BY MoreScreen, RecordedScreen, SelectScreen, ScopeScreen, PageKeptScreen DEF ListNext

-----------------------------------------------------------------------------
(***************************************************************************)
(* The writes of the tab Projects are answered; some refresh its list.     *)
(***************************************************************************)
LEMMA ProjectsRefreshed ==
  ASSUME ScreenInv, Known, OnScreen, tab = "projects", scope' = scope, NEW state, NEW then,
         NEW before, then \in {"none", "created"}, Fit(before, tab), FewerReads(calls, before),
         RefreshProjects(state, then, before)
  PROVE  ScreenInv'
  <1>. DEFINE some == Unrow(before, Refresh(list))
  <1>1. Fit(some, tab) /\ FewerReads(before, some)
    BY FitUnrow, FewerUnrow
  <1>2. FewerReads(calls, some)
    BY <1>1, FewerTwice
  <1>3. RefreshList(list, 0, then, some)
    BY DEF RefreshProjects
  <1>. HIDE DEF some
  <1>4. tab \in ListPages /\ 0 = ListScope(tab, scope.selected)' /\ 0 \in Nat
    BY DEF ListPages, ListScope, OnScreen
  <1>5. CallsOfUser' /\ ListedType' /\ PagesInv' /\ list'.items = <<>>
    BY <1>1, <1>2, <1>3, <1>4, RefreshScreen
  <1>6. ToSet(list'.items) = {}
    BY <1>5 DEF ToSet
  <1>7. OwnedByUser'
    BY <1>6, OwnedKept DEF ScreenInv
  <1>. QED
    BY <1>5, <1>7 DEF ScreenInv

LEMMA CreatedScreen ==
  ASSUME ScreenInv, Known, AuthTypeOK, NEW i \in DOMAIN calls, NEW how \in Hows,
         ProjectCreated(i, how)
  PROVE  ScreenInv'
  <1>. DEFINE left == RemoveAt(calls, i)
  <1>1. Fit(calls, tab) /\ Fit(left, tab) /\ FewerReads(calls, left) /\ TabsInv
    BY KnownIs, FitRemove, FewerRemove
  <1>2. UNCHANGED <<authVars, scope, rows>>
    BY DEF ProjectCreated, UsesProjects, scopeVars
  <1>3. TablesGrow
    <2>1. owner \in [Projects -> Persons]
      BY <1>1 DEF TabsInv, SharedInv, ServerInv
    <2>2. owner' = owner \/ \E p \in ProjectsOf(None) : owner' = [owner EXCEPT ![p] = calls[i].as]
      BY DEF ProjectCreated, Effect
    <2>3. CASE owner' = owner
      BY <1>2, <2>3 DEF TablesGrow
    <2>4. CASE \E p \in ProjectsOf(None) : owner' = [owner EXCEPT ![p] = calls[i].as]
      <3>1. PICK p \in ProjectsOf(None) : owner' = [owner EXCEPT ![p] = calls[i].as]
        BY <2>4
      <3>2. owner[p] = None
        BY DEF ProjectsOf
      <3>3. \A q \in Projects : owner[q] # None => owner'[q] = owner[q]
        BY <2>1, <3>1, <3>2
      <3>. QED
        BY <1>2, <3>3 DEF TablesGrow
    <2>. QED
      BY <2>2, <2>3, <2>4
  <1>4. OnScreen
    BY <1>2, <1>3, SessionStays DEF OnScreen
  <1>5. CASE calls' = left /\ UNCHANGED <<list, listed>>
    BY <1>1, <1>2, <1>3, <1>4, <1>5, Beside DEF OnScreen
  <1>6. CASE RefreshProjects([page EXCEPT !.form = FALSE], "created", left)
             /\ calls[i].live # "gone"
    <2>1. tab = "projects"
      BY <1>1, <1>4, <1>6, ProjectMade DEF OnScreen
    <2>. HIDE DEF left
    <2>. QED
      BY <1>1, <1>2, <1>4, <1>6, <2>1, ProjectsRefreshed
  <1>. QED
    BY <1>5, <1>6 DEF ProjectCreated

LEMMA KeysScreen ==
  ASSUME ScreenInv, Known, AuthTypeOK, NEW i \in DOMAIN calls, NEW how \in Hows,
         KeysAnswered(i, how)
  PROVE  ScreenInv'
  <1>. DEFINE left == RemoveAt(calls, i)
  <1>1. Fit(calls, tab) /\ Fit(left, tab) /\ FewerReads(calls, left) /\ TabsInv
    BY KnownIs, FitRemove, FewerRemove
  <1>2. UNCHANGED <<authVars, scope, rows, owner>>
    BY DEF KeysAnswered, UsesProjects, scopeVars
  <1>3. OnScreen
    BY <1>2, SessionStays, TablesSame DEF OnScreen
  <1>4. tab = "projects"
    BY <1>1, <1>3, KeysCame DEF OnScreen
  <1>5. CASE calls' = left /\ UNCHANGED <<list, listed>>
    BY <1>1, <1>2, <1>3, <1>5, Beside DEF OnScreen
  <1>6. CASE \E state : RefreshProjects(state, "none", left)
    <2>. HIDE DEF left
    <2>. QED
      BY <1>1, <1>2, <1>3, <1>4, <1>6, ProjectsRefreshed
  <1>. QED
    BY <1>5, <1>6 DEF KeysAnswered

LEMMA KeyWriteScreen ==
  ASSUME ScreenInv, Known, NEW i \in DOMAIN calls, NEW how \in Hows,
         KeyCreated(i, how) \/ KeyRevoked(i, how)
  PROVE  ScreenInv'
  <1>1. Fit(calls, tab)
    BY KnownIs
  <1>2. UNCHANGED <<authVars, scope, rows, owner, list, listed>>
    BY DEF KeyCreated, KeyRevoked, UsesProjects, scopeVars
  <1>3. \A p, live : KeysAgain(p, live).op = "keys" /\ KeysAgain(p, live).live = live
    BY DEF KeysAgain, KeysCall, Ask, AskAs
  <1>4. \/ calls' = RemoveAt(calls, i)
        \/ \E d : /\ d.op \notin ReadOps /\ d.live # "gone"
                  /\ calls' = Append(RemoveAt(calls, i), d)
    <2>1. "keys" \notin ReadOps
      BY DEF ReadOps
    <2>2. \/ calls' = RemoveAt(calls, i)
          \/ /\ calls[i].live # "gone"
             /\ calls' = Append(RemoveAt(calls, i), KeysAgain(calls[i].arg, calls[i].live))
      BY DEF KeyCreated, KeyRevoked, KeysAgain
    <2>. QED
      BY <1>3, <2>1, <2>2
  <1>5. FewerReads(calls, calls')
    BY <1>1, <1>4, CallsBeside
  <1>. QED
    BY <1>2, <1>5, SessionStays, TabStepKept DEF TabStep

LEMMA ProjectScreen ==
  ASSUME ScreenInv, Known, AuthTypeOK, ProjectClicks \/ ProjectAnswers
  PROVE  ScreenInv'
  <1>1. CASE ProjectClicks
    BY <1>1, ProjectClickTabStep, TabStepKept
  <1>2. CASE ProjectAnswers
    BY <1>2, CreatedScreen, KeysScreen, KeyWriteScreen DEF ProjectAnswers
  <1>. QED
    BY <1>1, <1>2

LEMMA PageScreen == ScreenInv /\ Known /\ PageNext => ScreenInv'
  <1>. SUFFICES ASSUME ScreenInv, Known, PageNext PROVE ScreenInv'
    OBVIOUS
  <1>1. AuthTypeOK
    BY KnownIs
  <1>2. CASE ListNext
    BY <1>2, ListScreen
  <1>3. CASE ProjectClicks \/ ProjectAnswers
    BY <1>1, <1>3, ProjectScreen
  <1>4. CASE ShellNext \/ AccountNext \/ EvidenceClicks \/ EvidenceAnswers
             \/ GrantClicks \/ GrantAnswers
    BY <1>4, ShellTabStep, AccountTabStep, EvidenceTabStep, GrantTabStep, TabStepKept
  <1>. QED
    BY <1>2, <1>3, <1>4 DEF PageNext

-----------------------------------------------------------------------------
(***************************************************************************)
(* The session moves.  While the dashboard stays on screen it is the same  *)
(* visitor's; the calls of a new tab are made for the visitor there is     *)
(* then, and its list is the only one asked for.                           *)
(***************************************************************************)
LEMMA QuietScreen ==
  ASSUME ScreenInv, Known, [AuthNext]_authVars, tab' = tab,
         UNCHANGED <<owner, rows, scope, list, listed, calls>>
  PROVE  ScreenInv'
  <1>1. tab # "none" /\ ~mixed' /\ faults' = 0 => user' = user /\ ~mixed /\ faults = 0
    BY SameVisitor DEF Known
  <1>2. CASE ~mixed' /\ faults' = 0 /\ tab # "none"
    <2>1. UNCHANGED <<user, mixed, faults>> \/ mixed' # mixed
      BY <1>1, <1>2
    <2>2. /\ Wanted' = Wanted /\ ListScope(tab, scope.selected)' = ListScope(tab, scope.selected)
          /\ ProjectsOf(user)' = ProjectsOf(user)
          /\ Listable(tab, user, 0)' = Listable(tab, user, 0)
      BY <1>1, <1>2 DEF Wanted, Listable, ProjectsOf, RowsIn, ListScope
    <2>3. OwnedByUser' /\ CallsOfUser' /\ ListedType'
      BY <1>1, <1>2, <2>2 DEF ScreenInv, OwnedByUser, CallsOfUser, ListedType
    <2>4. PagesInv'
      BY <1>1, <1>2, <2>2 DEF ScreenInv, PagesInv
    <2>. QED
      BY <2>3, <2>4 DEF ScreenInv
  <1>3. CASE ~(~mixed' /\ faults' = 0 /\ tab # "none")
    <2>1. tab \in ListPages => tab # "none"
      BY DEF ListPages
    <2>. QED
      BY <1>3, <2>1 DEF ScreenInv, OwnedByUser, CallsOfUser, PagesInv, ListedType
  <1>. QED
    BY <1>2, <1>3

(***************************************************************************)
(* What a tab asks when it is mounted.                                     *)
(***************************************************************************)
LEMMA AskedFor ==
  ASSUME NEW who, NEW op, NEW arg, NEW tok
  PROVE  LET c == AskAs(who, op, arg, tok) IN
         c.op = op /\ c.arg = arg /\ c.tok = tok /\ c.as = who
  BY DEF AskAs

LEMMA SetOfOne == \A c : ToSet(<<c>>) = {c} /\ AtMostOne({"list"}, <<c>>)
  BY DEF ToSet, AtMostOne

LEMMA MountReads ==
  ASSUME NEW who, NEW where, NEW p
  PROVE  LET some == MountCalls(who, where, p) IN
         /\ \A c \in ToSet(some) : c.as = who
         /\ where \in ListPages =>
              /\ AtMostOne({"list"}, some)
              /\ \A c \in ToSet(some) : c.tok = 0 /\ c.arg = ListScope(where, p)
  <1>. DEFINE some == MountCalls(who, where, p)
              asked == AskAs(who, "list", ListScope(where, p), 0)
              figures == AskAs(who, "figures", 0, 0)
              key == AskAs(who, "key", 0, 0)
  <1>1. CASE where \in ListPages
    <2>1. some = <<asked>>
      BY <1>1 DEF MountCalls, ListPages
    <2>2. asked.tok = 0 /\ asked.arg = ListScope(where, p) /\ asked.as = who
      BY AskedFor
    <2>. HIDE DEF some, asked
    <2>3. ToSet(some) = {asked} /\ AtMostOne({"list"}, some)
      BY <2>1, SetOfOne
    <2>. QED
      BY <2>2, <2>3 DEF some
  <1>2. CASE where = "overview"
    <2>1. some = <<figures, key>>
      BY <1>2 DEF MountCalls, ListPages, OverviewCalls
    <2>2. figures.as = who /\ key.as = who
      BY AskedFor
    <2>. HIDE DEF some, figures, key
    <2>3. ToSet(some) = {figures, key}
      BY <2>1 DEF ToSet
    <2>. QED
      BY <1>2, <2>2, <2>3 DEF some, ListPages
  <1>3. CASE where = "analytics"
    <2>1. some = <<figures>>
      BY <1>3 DEF MountCalls, ListPages, AnalyticsCalls
    <2>2. figures.as = who
      BY AskedFor
    <2>. HIDE DEF some, figures
    <2>3. ToSet(some) = {figures}
      BY <2>1, SetOfOne
    <2>. QED
      BY <1>3, <2>2, <2>3 DEF some, ListPages
  <1>4. CASE where \notin ListPages \cup {"overview", "analytics"}
    <2>1. some = <<>>
      BY <1>4 DEF MountCalls
    <2>. HIDE DEF some
    <2>2. ToSet(some) = {}
      BY <2>1 DEF ToSet
    <2>. QED
      BY <1>4, <2>2 DEF some
  <1>. QED
    BY <1>1, <1>2, <1>3, <1>4

LEMMA OnlyListThere ==
  ASSUME NEW s, NEW t, NEW where, Fit(s, where), Fit(t, where),
         \A c \in ToSet(s) : c.op # "list", AtMostOne({"list"}, t)
  PROVE  AtMostOne({"list"}, s \o t)
  <1>. DEFINE n == Len(s)
              both == s \o t
  <1>1. s \in Seq(CallRecord) /\ t \in Seq(CallRecord)
    BY DEF Fit
  <1>2. /\ n \in Nat /\ Len(t) \in Nat /\ DOMAIN s = 1 .. n /\ DOMAIN t = 1 .. Len(t)
        /\ DOMAIN both = 1 .. n + Len(t)
        /\ \A k \in DOMAIN both : both[k] = IF k =< n THEN s[k] ELSE t[k - n]
    BY <1>1, LenProperties, ConcatProperties
  <1>3. \A k \in DOMAIN s : s[k].op # "list"
    BY DEF ToSet
  <1>. HIDE DEF both, n
  <1>4. \A k \in DOMAIN both :
          \/ k \in DOMAIN s /\ both[k] = s[k]
          \/ k \in Nat /\ k - n \in DOMAIN t /\ both[k] = t[k - n]
    BY <1>2
  <1>5. \A k \in DOMAIN both : both[k].op \in {"list"} =>
          k \in Nat /\ k - n \in DOMAIN t /\ t[k - n].op \in {"list"}
    BY <1>3, <1>4
  <1>6. \A j, k \in DOMAIN both : both[j].op \in {"list"} /\ both[k].op \in {"list"} =>
          j - n = k - n /\ j \in Nat /\ k \in Nat
    BY <1>5 DEF AtMostOne
  <1>7. \A j, k \in DOMAIN both : both[j].op \in {"list"} /\ both[k].op \in {"list"} => j = k
    BY <1>2, <1>6
  <1>. QED
    BY <1>7 DEF AtMostOne, both

\* The calls before those of the tab: whose they are, and no list among them.
LEMMA MovedReads ==
  ASSUME Fit(calls, tab), NEW who, who \in Persons, NEW new, new \in Tabs, NEW p, p \in Nat,
         NEW some, some = CallsAfter(who, new, p)
  PROVE  /\ \A c \in ToSet(some) : c.op \in ReadOps =>
              c.as = who \/ (tab # "none" /\ c \in ToSet(calls))
         /\ new \in ListPages =>
              /\ AtMostOne({"list"}, some)
              /\ \A c \in ToSet(some) : c.op = "list" => c.tok = 0 /\ c.arg = ListScope(new, p)
  <1>. DEFINE joins == tab = "none"
              gone == Abandon(calls)
              old == Only({"projects"}, calls)
              asks == IF joins THEN <<AskAs(who, "projects", 0, 0)>> ELSE <<>>
              mount == MountCalls(who, new, p)
              first == (gone \o old) \o asks
  <1>1. some = first \o mount
    BY DEF CallsAfter, Tabs
  <1>2. "projects" \in OpsOf(new)
    BY DEF OpsOf, Tabs
  <1>3. /\ Fit(gone, new)
        /\ \A c \in ToSet(gone) : c.op \notin ReadOps
    <2>1. Fit(gone, new) /\ \A i \in DOMAIN gone : gone[i].live = "gone" /\ CallFits(gone[i], new)
      BY AbandonLeaves DEF Fit
    <2>2. Writes \cap ReadOps = {}
      BY DEF Writes, ReadOps
    <2>. QED
      BY <2>1, <2>2 DEF ToSet, CallFits
  <1>4. /\ Fit(old, new)
        /\ \A c \in ToSet(old) : c \in ToSet(calls) /\ c.op = "projects" /\ tab # "none"
    <2>1. Fit(old, new) /\ ToSet(old) = {c \in ToSet(calls) : c.op \in {"projects"}}
      BY <1>2, OnlyProjectsWait, OnlySet
    <2>2. \A c \in ToSet(calls) : c.op = "projects" => tab # "none"
      BY SetOfFit DEF CallFits, Writes, OpsOf
    <2>. QED
      BY <2>1, <2>2
  <1>5. /\ Fit(asks, new)
        /\ \A c \in ToSet(asks) : c.as = who /\ c.op = "projects"
    <2>1. CASE joins
      <3>1. Fit(asks, new)
        BY <1>2, <2>1, Asked
      <3>2. ToSet(asks) = {AskAs(who, "projects", 0, 0)}
        BY <2>1, SetOfOne
      <3>. QED
        BY <3>1, <3>2, AskedFor
    <2>2. CASE ~joins
      <3>1. asks = <<>> /\ ToSet(<<>>) = {}
        BY <2>2 DEF ToSet
      <3>. QED
        BY <3>1, FitNone
    <2>. QED
      BY <2>1, <2>2
  <1>6. /\ Fit(mount, new) /\ \A c \in ToSet(mount) : c.as = who
        /\ new \in ListPages =>
             /\ AtMostOne({"list"}, mount)
             /\ \A c \in ToSet(mount) : c.tok = 0 /\ c.arg = ListScope(new, p)
    BY MountFits, MountReads
  <1>. HIDE DEF gone, old, asks, mount
  <1>7. /\ Fit(first, new)
        /\ ToSet(first) = ToSet(gone) \cup ToSet(old) \cup ToSet(asks)
    <2>1. Fit(gone \o old, new) /\ ToSet(gone \o old) = ToSet(gone) \cup ToSet(old)
      BY <1>3, <1>4, FitConcat, ConcatSet
    <2>. QED
      BY <1>5, <2>1, FitConcat, ConcatSet
  <1>. HIDE DEF first
  <1>8. ToSet(some) = ToSet(first) \cup ToSet(mount)
    BY <1>1, <1>6, <1>7, ConcatSet
  <1>9. \A c \in ToSet(first) : c.op # "list"
    BY <1>3, <1>4, <1>5, <1>7 DEF ReadOps
  <1>10. new \in ListPages => AtMostOne({"list"}, some)
    BY <1>1, <1>6, <1>7, <1>9, OnlyListThere
  <1>11. \A c \in ToSet(some) : c.op \in ReadOps =>
           c.as = who \/ (tab # "none" /\ c \in ToSet(calls))
    BY <1>3, <1>4, <1>5, <1>6, <1>7, <1>8
  <1>. QED
    BY <1>6, <1>8, <1>9, <1>10, <1>11

LEMMA NewListEmpty == NewList \in ListRecord /\ NewList.items = <<>> /\ NewList.next = 0
  <1>1. <<>> \in Seq(Nat)
    OBVIOUS
  <1>. QED
    BY <1>1 DEF NewList, ListRecord

LEMMA RemountScreen ==
  ASSUME ScreenInv, Known, Known', [AuthNext]_authVars,
         NEW paletteNow, NEW drawerNow, NEW themeNow,
         RemountWith(paletteNow, drawerNow, themeNow)
  PROVE  ScreenInv'
  <1>0. UNCHANGED <<owner, rows>>
    BY DEF RemountWith, server
  <1>1. CASE tab' = tab
    <2>1. UNCHANGED <<scope, list, listed, calls>>
      BY <1>1 DEF RemountWith, pageVars, tab
    <2>. QED
      BY <1>0, <1>1, <2>1, QuietScreen
  <1>2. CASE tab' # tab
    <2>. DEFINE who == IF token' # None THEN token' ELSE cookie'
                joins == tab' # "none" /\ tab = "none"
                p == IF joins THEN 0 ELSE scope.selected
    <2>1. /\ calls' = CallsAfter(who, tab', p)
          /\ scope' = (IF joins THEN NewScope ELSE IF tab' # "none" THEN scope ELSE NoScope)
          /\ list' = (IF tab' \in ListPages THEN Refresh(NewList) ELSE NewList)
          /\ listed' = [Unlisted EXCEPT !.of = ListScope(tab', p)]
      BY <1>2 DEF RemountWith, CallsAfter, tab
    <2>2. /\ Fit(calls, tab) /\ scope.selected \in {0} \cup Projects /\ p \in Nat
          /\ (joins => p = 0) /\ (~joins => p = scope.selected)
      BY KnownIs, ScopeNumbers
    <2>3. tab' \in {"none"} \cup Tabs /\ who \in Persons
      BY TabTyped DEF Known, IInv, AuthTypeOK, tab, TabOf
    <2>4. tab' # "none" /\ ~mixed' /\ faults' = 0 => who = user'
      BY DEF Known, IInv, DashboardHasUser, TokenHasUser, VisitorInv, CookieOfUser
    <2>5. tab # "none" /\ tab' # "none" /\ ~mixed' /\ faults' = 0
            => user' = user /\ ~mixed /\ faults = 0
      BY SameVisitor DEF Known
    <2>6. list'.items = <<>> /\ list'.next = 0 /\ ToSet(list'.items) = {}
      <3>1. ToSet(<<>>) = {}
        BY DEF ToSet
      <3>. QED
        BY <2>1, <3>1, NewListEmpty, RefreshEmpties
    <2>7. ListedType' /\ listed'.base = {}
      <3>1. ListScope(tab', p) \in Nat
        BY <2>2 DEF ListScope
      <3>. QED
        BY <2>1, <3>1 DEF ListedType, Unlisted
    <2>8. tab' # "none" => scope'.selected = p
      BY <2>1, <2>2 DEF NewScope, NoScope
    <2>9. OwnedByUser'
      <3>. SUFFICES ASSUME tab' # "none", ~mixed', faults' = 0
                    PROVE  scope'.projects \cup ({scope'.selected} \ {0}) \subseteq ProjectsOf(user)'
        BY <2>6 DEF OwnedByUser
      <3>1. CASE joins
        BY <2>1, <3>1 DEF NewScope, NoScope
      <3>2. CASE ~joins
        <4>1. /\ scope' = scope /\ user' = user
              /\ scope.projects \cup ({scope.selected} \ {0}) \subseteq ProjectsOf(user)
          BY <2>1, <2>5, <3>2 DEF ScreenInv, OwnedByUser
        <4>. QED
          BY <1>0, <4>1 DEF ProjectsOf
      <3>. QED
        BY <3>1, <3>2
    <2>. HIDE DEF who, p
    <2>10. tab' # "none" =>
             /\ \A c \in ToSet(calls') : c.op \in ReadOps =>
                  c.as = who \/ (tab # "none" /\ c \in ToSet(calls))
             /\ tab' \in ListPages =>
                  /\ AtMostOne({"list"}, calls')
                  /\ \A c \in ToSet(calls') :
                       c.op = "list" => c.tok = 0 /\ c.arg = ListScope(tab', p)
      BY <2>1, <2>2, <2>3, MovedReads
    <2>11. CallsOfUser'
      BY <2>4, <2>5, <2>10 DEF ScreenInv, CallsOfUser
    <2>12. PagesInv'
      <3>1. CASE tab' \in ListPages
        <4>1. tab' # "none"
          BY <3>1 DEF ListPages
        <4>2. ListScope(tab, scope.selected)' = ListScope(tab', p)
          BY <2>8, <4>1 DEF ListScope
        <4>3. Afresh
          BY <2>6, <2>7, <2>10, <3>1, <4>1, <4>2 DEF Afresh
        <4>. QED
          BY <4>3, PagesAfresh
      <3>2. CASE tab' \notin ListPages
        BY <3>2 DEF PagesInv
      <3>. QED
        BY <3>1, <3>2
    <2>. QED
      BY <2>7, <2>9, <2>11, <2>12 DEF ScreenInv
  <1>. QED
    BY <1>1, <1>2

LEMMA SessionScreen ==
  ASSUME ScreenInv, Known, Known', [AuthNext]_authVars, SessionNext
  PROVE  ScreenInv'
  <1>1. CASE \E a, b, c : RemountWith(a, b, c)
    BY <1>1, RemountScreen
  <1>2. CASE Unmounted /\ UNCHANGED <<memory, path>>
    <2>1. tab' = tab
      BY <1>2 DEF memory, tab, TabOf
    <2>2. UNCHANGED <<owner, rows, scope, list, listed, calls>>
      BY <1>2 DEF Unmounted, server, scopeVars, pageVars
    <2>. QED
      BY <2>1, <2>2, QuietScreen
  <1>3. ASSUME NEW s \in Slots,
               \/ Reload(s) /\ RemountWith(Closed, FALSE, [Apply(theme) EXCEPT !.other = FALSE])
               \/ SignOut(s) /\ ~palette.open /\ Remount
               \/ LoginAnswered(s) /\ Remount
               \/ SaveAnswered(s) /\ Remount
               \/ \E known \in BOOLEAN : MeAnswered(s, known) /\ Remount
        PROVE  ScreenInv'
    BY <1>1, <1>3 DEF Remount
  <1>4. ASSUME NEW s \in Slots,
               \/ LoginRefused(s) /\ Unmounted
               \/ LogoutAnswered(s) /\ Unmounted
               \/ LogoutLost(s) /\ Unmounted
               \/ \E who \in Accounts : SubmitLogin(s, who) /\ Unmounted
               \/ \E who \in Accounts : SubmitSignup(s, who) /\ Unmounted
        PROVE  ScreenInv'
    <2>1. Unmounted /\ UNCHANGED <<memory, path>>
      BY <1>4 DEF LoginRefused, LogoutAnswered, LogoutLost, SubmitLogin, SubmitSignup, Submit
    <2>. QED
      BY <1>2, <2>1
  <1>5. ASSUME (SubmitShortPassword /\ Unmounted) \/ (SendReset /\ Unmounted)
                 \/ (ResetTimer /\ Unmounted)
                 \/ (\E who \in Persons : OtherTab(who) /\ Unmounted)
        PROVE  ScreenInv'
    <2>1. Unmounted /\ UNCHANGED <<memory, path>>
      BY <1>5 DEF SubmitShortPassword, SendReset, ResetTimer, OtherTab
    <2>. QED
      BY <1>2, <2>1
  <1>6. ASSUME NEW to, NEW stays, Navigate(to), RemountWith(palette, stays, theme)
        PROVE  ScreenInv'
    BY <1>1, <1>6
  <1>. QED
    BY <1>3, <1>4, <1>5, <1>6 DEF SessionNext

LEMMA OtherScreen ==
  ASSUME ScreenInv, Known, Known', [AuthNext]_authVars,
         \/ ChoosePlace
         \/ \E s \in Slots : SaveProfile(s) \/ ProfileRefused(s)
         \/ UNCHANGED vars
  PROVE  ScreenInv'
  <1>1. CASE \E a, b, c : RemountWith(a, b, c)
    BY <1>1, RemountScreen
  <1>2. CASE UNCHANGED <<owner, rows, scope, list, listed, calls, isLoading, path>>
    <2>1. tab' = tab
      BY <1>2 DEF tab, TabOf
    <2>. QED
      BY <1>2, <2>1, QuietScreen
  <1>3. CASE ChoosePlace
    <2>1. PICK to : \/ Navigate(to) /\ RemountWith(Closed, drawer, theme)
                    \/ ClosePalette
      BY <1>3 DEF ChoosePlace
    <2>2. ClosePalette => UNCHANGED <<owner, rows, scope, list, listed, calls, isLoading, path>>
      BY DEF ClosePalette, Click, SameTabs, server, scopeVars, pageVars, authVars, memory
    <2>. QED
      BY <1>1, <1>2, <2>1, <2>2
  <1>4. CASE \E s \in Slots : SaveProfile(s) \/ ProfileRefused(s)
    <2>1. UNCHANGED <<isLoading, path>>
      BY <1>4, ProfileKeepsShell
    <2>2. UNCHANGED <<owner, rows, scope, list, listed, calls>>
      BY <1>4 DEF SaveProfile, ProfileRefused, server, scopeVars
    <2>. QED
      BY <1>2, <2>1, <2>2
  <1>5. CASE UNCHANGED vars
    BY <1>2, <1>5 DEF vars, server, scopeVars, pageVars, authVars, memory
  <1>. QED
    BY <1>3, <1>4, <1>5

-----------------------------------------------------------------------------
LEMMA ScreenStart == Init => ScreenInv
  <1>. SUFFICES ASSUME Init PROVE ScreenInv
    OBVIOUS
  <1>1. tab = "none" /\ listed = Unlisted
    BY DEF Init, AuthInit, tab, TabOf
  <1>. QED
    BY <1>1 DEF ScreenInv, OwnedByUser, CallsOfUser, ListedType, PagesInv, Unlisted, ListPages

LEMMA ScreenNext ==
  ScreenInv /\ Known /\ Known' /\ PaletteInv /\ [Next]_vars => ScreenInv'
  <1>. SUFFICES ASSUME ScreenInv, Known, Known', PaletteInv, [Next]_vars PROVE ScreenInv'
    OBVIOUS
  <1>1. [AuthNext]_authVars
    BY SessionSimulation
  <1>. QED
    BY <1>1, SessionScreen, OtherScreen, PageScreen DEF Next

LEMMA KnownAlways == Spec => []Known
  <1>1. TabsInv /\ IInv /\ VisitorInv => Known
    BY DEF Known
  <1>. QED
    BY <1>1, TabsAlways, ConsoleImplementsSession, VisitorAlways, PTL

LEMMA ScreenAlways == Spec => []ScreenInv
  BY ScreenStart, ScreenNext, KnownAlways, PaletteAlways, PTL DEF Spec

(***************************************************************************)
(* Nothing of another account is on screen, although the selection is      *)
(* remembered across accounts and calls of the last user may still be      *)
(* answered: in a session without overlapping identity calls and without   *)
(* failures every read is made for the user shown (lib/project.tsx,        *)
(* lib/usePagination.ts).                                                  *)
(***************************************************************************)
THEOREM NothingOfOthers == Spec => []OwnedByUser
  <1>1. ScreenInv => OwnedByUser
    BY DEF ScreenInv
  <1>. QED
    BY <1>1, ScreenAlways, PTL

(***************************************************************************)
(* A list read page after page, with no two calls under way at a time, is  *)
(* the scope's rows in order down to the next token, whatever is recorded  *)
(* between the pages (lib/usePagination.ts).                               *)
(***************************************************************************)
THEOREM ListsAreTheScope == Spec => []ListIsTheScope
  <1>1. ScreenInv => ListIsTheScope
    <2>. SUFFICES ASSUME ScreenInv, tab \in ListPages, listed.clean, ~mixed, faults = 0
                  PROVE  LET wanted == Listable(tab, user, ListScope(tab, scope.selected))
                             read == {r \in listed.base : list.next = 0 \/ r >= list.next}
                         IN  /\ \A i, j \in DOMAIN list.items :
                                  i < j => list.items[i] > list.items[j]
                             /\ read \subseteq ToSet(list.items)
                             /\ ToSet(list.items) \subseteq wanted
      BY DEF ListIsTheScope
    <2>1. PagesRead(list, listed.base, Wanted)
      BY DEF ScreenInv, PagesInv
    <2>. QED
      BY <2>1 DEF PagesRead, Descending, ReadTo, Wanted
  <1>. QED
    BY <1>1, ScreenAlways, PTL

-----------------------------------------------------------------------------
(***************************************************************************)
(* The keys under a row.  A row lists what the server has until a write of *)
(* its project is answered, and such a write leaves a call under way that  *)
(* reads the keys again.  Revocations under way are of a key of the        *)
(* project they name.                                                      *)
(***************************************************************************)
KeysIn(p, table) ==
  {[id |-> k, revoked |-> table[k].revoked] : k \in {k \in DOMAIN table : table[k].project = p}}

Settles(row) == (row.open \/ row.keys # {}) /\ ~row.error

Pends(c, p) == c.op \in RowOps /\ c.arg = p /\ (c.live = "here" \/ c.then = "changed")

IsOf(k, p, table) == k \in DOMAIN table /\ table[k].project = p

AimInv ==
  /\ \A c \in ToSet(calls) : c.op = "revokeKey" => IsOf(c.tok, c.arg, keys)
  /\ tab = "projects" =>
       \A p \in DOMAIN page.row : page.row[p].confirm # 0 => IsOf(page.row[p].confirm, p, keys)

\* What the step means for the row of p, and what every step does.
Follows(p) == RowCurrent(p) => RowCurrent(p)' \/ LateWrite(p) \/ broken'

KeyStep == AimInv' /\ \A p \in Projects : Follows(p)

LEMMA PendingIs ==
  ASSUME NEW p
  PROVE  /\ RowPending(p) <=> \E c \in ToSet(calls) : Pends(c, p)
         /\ RowPending(p)' <=> \E c \in ToSet(calls') : Pends(c, p)
  BY DEF RowPending, Pends, ToSet

LEMMA IsOfStays ==
  ASSUME NEW k, NEW p, NEW table, NEW next, IsOf(k, p, table), Grows(table, next)
  PROVE  IsOf(k, p, next)
  BY DEF IsOf, Grows

(***************************************************************************)
(* When a row is current after a step: it was, and nothing of it changed;  *)
(* or it is not settled, or lists the keys.                                *)
(***************************************************************************)
LEMMA RowUnchanged ==
  ASSUME NEW p, tab = "projects",
         \A c \in ToSet(calls) : Pends(c, p) => c \in ToSet(calls'),
         KeysIn(p, keys') = KeysIn(p, keys),
         p \in DOMAIN page'.row /\ Settles(page'.row[p]) =>
           /\ p \in DOMAIN page.row /\ Settles(page.row[p])
           /\ page'.row[p].keys = page.row[p].keys
  PROVE  Follows(p)
  <1>1. RowPending(p) => RowPending(p)'
    BY PendingIs
  <1>. QED
    BY <1>1 DEF Follows, RowCurrent, RowSettled, Settles, KeysOf, KeysIn

LEMMA RowNotSettled ==
  ASSUME NEW p,
         \/ tab' # "projects"
         \/ \E c \in ToSet(calls') : Pends(c, p)
         \/ p \notin DOMAIN page'.row
         \/ ~Settles(page'.row[p])
         \/ page'.row[p].keys = KeysIn(p, keys')
  PROVE  Follows(p)
  <1>1. RowPending(p)' <=> \E c \in ToSet(calls') : Pends(c, p)
    BY PendingIs
  <1>. QED
    BY <1>1 DEF Follows, RowCurrent, RowSettled, Settles, KeysOf, KeysIn

(***************************************************************************)
(* Steps that leave the keys alone.                                        *)
(***************************************************************************)
LEMMA KeysBeside ==
  ASSUME AimInv, tab' = tab, keys' = keys,
         \A c \in ToSet(calls') : c.op = "revokeKey" => c \in ToSet(calls),
         tab = "projects" =>
           /\ page'.row = page.row
           /\ \A c \in ToSet(calls) : c.op \in RowOps => c \in ToSet(calls')
  PROVE  KeyStep
  <1>1. AimInv'
    BY DEF AimInv
  <1>2. ASSUME NEW p PROVE Follows(p)
    <2>1. CASE tab = "projects"
      BY <2>1, RowUnchanged DEF Pends
    <2>2. CASE tab # "projects"
      BY <2>2, RowNotSettled
    <2>. QED
      BY <2>1, <2>2
  <1>. QED
    BY <1>1, <1>2 DEF KeyStep

\* On another tab only calls that go on by themselves revoke keys.
LEMMA OtherTabs ==
  ASSUME AimInv, tab' = tab, tab # "projects", keys' = keys, Fit(calls', tab'),
         FewerReads(calls, calls')
  PROVE  KeyStep
  <1>1. \A c \in ToSet(calls') : c.op = "revokeKey" => c.live = "gone"
    <2>1. "revokeKey" \notin OpsOf(tab)
      BY DEF OpsOf, RowOps
    <2>. QED
      BY <2>1, SetOfFit DEF CallFits
  <1>2. \A c \in ToSet(calls') : c.op = "revokeKey" => c \in ToSet(calls)
    BY <1>1 DEF FewerReads
  <1>. QED
    BY <1>2, KeysBeside

LEMMA QuietKeys ==
  ASSUME AimInv, QuietStep
  PROVE  KeyStep
  <1>1. tab' = tab /\ keys' = keys /\ calls' = calls /\ page' = page
    BY DEF QuietStep, server
  <1>. QED
    BY <1>1, KeysBeside

(***************************************************************************)
(* The tab Projects is left, entered, or its list is asked for again: no   *)
(* row is on screen then.                                                  *)
(***************************************************************************)
LEMMA RowsGone ==
  ASSUME AimInv, Grows(keys, keys'), tab' = "projects" => DOMAIN page'.row = {},
         \A c \in ToSet(calls') : c.op = "revokeKey" =>
           \E d \in ToSet(calls) : d.op = "revokeKey" /\ d.arg = c.arg /\ d.tok = c.tok
  PROVE  KeyStep
  <1>1. \A c \in ToSet(calls') : c.op = "revokeKey" => IsOf(c.tok, c.arg, keys')
    BY IsOfStays DEF AimInv
  <1>2. AimInv'
    BY <1>1 DEF AimInv
  <1>3. ASSUME NEW p PROVE Follows(p)
    BY RowNotSettled
  <1>. QED
    BY <1>2, <1>3 DEF KeyStep

LEMMA UnrowTraced ==
  ASSUME NEW s, NEW pages, NEW where, Fit(s, where)
  PROVE  \A c \in ToSet(Unrow(s, pages)) :
           \E d \in ToSet(s) : d.op = c.op /\ d.arg = c.arg /\ d.tok = c.tok
  <1>. DEFINE t == Unrow(s, pages)
  <1>0. s \in Seq(CallRecord) /\ \A i \in DOMAIN s : s[i] \in CallRecord
    BY ElementOfSeq, LenProperties DEF Fit
  <1>1. /\ DOMAIN t = DOMAIN s
        /\ \A i \in DOMAIN s : t[i] = s[i] \/ t[i] = [s[i] EXCEPT !.live = "page"]
    BY <1>0, UnrowSteps
  <1>. HIDE DEF t
  <1>2. \A c \in CallRecord : LET u == [c EXCEPT !.live = "page"] IN
          u.op = c.op /\ u.arg = c.arg /\ u.tok = c.tok
    BY DEF CallRecord
  <1>3. \A i \in DOMAIN s : t[i].op = s[i].op /\ t[i].arg = s[i].arg /\ t[i].tok = s[i].tok
    BY <1>0, <1>1, <1>2
  <1>4. \A c \in ToSet(t) : \E d \in ToSet(s) : d.op = c.op /\ d.arg = c.arg /\ d.tok = c.tok
    BY <1>1, <1>3 DEF ToSet
  <1>. QED
    BY <1>4 DEF t

LEMMA RefreshedKeys ==
  ASSUME AimInv, Grows(keys, keys'), list \in ListRecord, NEW state, PageShape(state), NEW then,
         then \in {"none", "created"}, NEW before, Fit(before, "projects"),
         ToSet(before) \subseteq ToSet(calls), AuthTypeOK, RefreshProjects(state, then, before)
  PROVE  KeyStep
  <1>. DEFINE left == Unrow(before, Refresh(list))
              c == ListCall(0, 0, then)
  <1>1. page' = Mounted(state, Refresh(list)) /\ calls' = Append(left, c)
    BY DEF RefreshProjects, RefreshList
  <1>2. ProjectRows(Refresh(list)) = {}
    BY NoRowsYet
  <1>3. DOMAIN page'.row = {}
    <2>1. page'.row = [p \in ProjectRows(Refresh(list)) |->
                         IF p \in DOMAIN state.row THEN state.row[p] ELSE NewRow]
      BY <1>1, MountedIs
    <2>. QED
      BY <1>2, <2>1
  <1>4. /\ Fit(left, "projects")
        /\ \A d \in ToSet(left) :
             \E e \in ToSet(before) : e.op = d.op /\ e.arg = d.arg /\ e.tok = d.tok
    BY FitUnrow, UnrowTraced
  <1>5. CallFits(c, "projects") /\ c.op = "list"
    <2>1. "projects" \in ListPages /\ 0 \in Nat
      BY DEF ListPages
    <2>. QED
      BY <2>1, ListCallIs
  <1>. HIDE DEF left, c
  <1>6. ToSet(calls') = ToSet(left) \cup {c}
    BY <1>1, <1>4, <1>5, AppendSet DEF CallFits
  <1>. QED
    BY <1>3, <1>4, <1>5, <1>6, RowsGone

(***************************************************************************)
(* A row of the tab changes, by a click or an answer of its own.           *)
(***************************************************************************)
LEMMA RowTouched ==
  ASSUME TabsInv, AimInv, tab = "projects", tab' = tab, NEW p \in DOMAIN page.row, NEW row,
         NEW some, page' = WithRow(p, row) \/ page' = [WithRow(p, row) EXCEPT !.unclosed = some],
         Grows(keys, keys'), \A q : q # p => KeysIn(q, keys') = KeysIn(q, keys),
         row.confirm # 0 => IsOf(row.confirm, p, keys'),
         \A c \in ToSet(calls') : c.op = "revokeKey" => c \in ToSet(calls) \/ IsOf(c.tok, c.arg, keys'),
         \A c \in ToSet(calls) : c.op \in RowOps /\ c.arg # p => c \in ToSet(calls'),
         page'.row[p] = row => Follows(p)
  PROVE  KeyStep
  <1>1. page'.row = [page.row EXCEPT ![p] = row] /\ PageShape(page)
    <2>1. PageShape(page)
      BY RowKnown
    <2>2. Rowed(p, row)
      BY <2>1, RowedIs
    <2>. QED
      BY <2>1, <2>2 DEF Rowed
  <1>2. /\ DOMAIN page'.row = DOMAIN page.row /\ page'.row[p] = row
        /\ \A q \in DOMAIN page.row \ {p} : page'.row[q] = page.row[q]
    BY <1>1
  <1>3. \A c \in ToSet(calls') : c.op = "revokeKey" => IsOf(c.tok, c.arg, keys')
    BY IsOfStays DEF AimInv
  <1>4. \A q \in DOMAIN page'.row : page'.row[q].confirm # 0 => IsOf(page'.row[q].confirm, q, keys')
    BY <1>2, IsOfStays DEF AimInv
  <1>5. AimInv'
    BY <1>3, <1>4 DEF AimInv
  <1>6. ASSUME NEW q, q # p PROVE Follows(q)
    <2>1. \A c \in ToSet(calls) : Pends(c, q) => c \in ToSet(calls')
      BY <1>6 DEF Pends
    <2>. QED
      BY <1>2, <1>6, <2>1, RowUnchanged
  <1>7. Follows(p)
    BY <1>2
  <1>. QED
    BY <1>5, <1>6, <1>7 DEF KeyStep

(***************************************************************************)
(* What writes do to the keys of the projects.                             *)
(***************************************************************************)
LEMMA KeyAdded ==
  ASSUME ServerInv, NEW how, NEW p \in Projects, UNCHANGED <<owner, rows, revoked>>,
         Effect(how, keys' = Append(keys, [project |-> p, revoked |-> FALSE]), keys)
  PROVE  /\ Grows(keys, keys') /\ \A q : q # p => KeysIn(q, keys') = KeysIn(q, keys)
         /\ how = "error" => keys' = keys
  <1>1. Grows(keys, keys')
    BY KeyTakes
  <1>2. keys' = keys \/ keys' = Append(keys, [project |-> p, revoked |-> FALSE])
    BY DEF Effect
  <1>3. CASE keys' = keys
    BY <1>1, <1>3
  <1>4. CASE keys' = Append(keys, [project |-> p, revoked |-> FALSE])
    <2>. DEFINE n == Len(keys)
                new == [project |-> p, revoked |-> FALSE]
    <2>1. /\ n \in Nat /\ DOMAIN keys = 1 .. n /\ DOMAIN keys' = 1 .. n + 1
          /\ \A k \in 1 .. n : keys'[k] = keys[k]
          /\ keys'[n + 1] = new
      BY <1>4, LenProperties, AppendProperties DEF ServerInv
    <2>2. keys'[n + 1].project = p
      BY <2>1
    <2>. HIDE DEF n, new
    <2>3. ASSUME NEW q, q # p
          PROVE  KeysIn(q, keys') = KeysIn(q, keys)
      <3>1. \A k : k \in DOMAIN keys' /\ keys'[k].project = q
                     <=> k \in DOMAIN keys /\ keys[k].project = q
        BY <2>1, <2>2, <2>3
      <3>2. \A k \in DOMAIN keys : keys'[k] = keys[k]
        BY <2>1
      <3>. QED
        BY <3>1, <3>2 DEF KeysIn
    <2>. QED
      BY <1>1, <2>3 DEF Effect
  <1>. QED
    BY <1>2, <1>3, <1>4 DEF Effect

LEMMA KeyMarked ==
  ASSUME ServerInv, NEW how, NEW p, NEW n, UNCHANGED <<owner, rows, revoked>>,
         IsOf(n, p, keys), Effect(how, keys' = [keys EXCEPT ![n].revoked = TRUE], keys)
  PROVE  /\ Grows(keys, keys') /\ \A q : q # p => KeysIn(q, keys') = KeysIn(q, keys)
         /\ how = "error" => keys' = keys
  <1>1. Grows(keys, keys')
    BY KeyRevokeTakes
  <1>2. keys' = keys \/ keys' = [keys EXCEPT ![n].revoked = TRUE]
    BY DEF Effect
  <1>3. DOMAIN keys' = DOMAIN keys /\ \A k \in DOMAIN keys \ {n} : keys'[k] = keys[k]
    BY <1>2 DEF ServerInv
  <1>4. ASSUME NEW q, q # p
        PROVE  KeysIn(q, keys') = KeysIn(q, keys)
    <2>1. n \in DOMAIN keys /\ keys[n].project = p /\ keys'[n].project = p
      BY <1>1 DEF Grows, IsOf
    <2>2. \A k \in DOMAIN keys : keys[k].project = q \/ keys'[k].project = q => keys'[k] = keys[k]
      BY <1>3, <1>4, <2>1
    <2>. QED
      BY <1>3, <2>2 DEF KeysIn
  <1>. QED
    BY <1>1, <1>4 DEF Effect

LEMMA Longer ==
  ASSUME NEW s, NEW c, NEW where, Fit(s, where)
  PROVE  ToSet(Append(s, c)) = ToSet(s) \cup {c}
  <1>. DEFINE n == Len(s)
              t == Append(s, c)
  <1>1. /\ n \in Nat /\ DOMAIN s = 1 .. n /\ DOMAIN t = 1 .. n + 1
        /\ \A j \in 1 .. n : t[j] = s[j]
        /\ t[n + 1] = c
    BY AppendIs
  <1>. HIDE DEF n, t
  <1>2. \A j : j \in DOMAIN t <=> j \in DOMAIN s \/ j = n + 1
    BY <1>1
  <1>3. ToSet(t) = ToSet(s) \cup {c}
    BY <1>1, <1>2 DEF ToSet
  <1>. QED
    BY <1>3 DEF t

(***************************************************************************)
(* Clicks of the tab Projects.                                             *)
(***************************************************************************)
LEMMA ToggledKeys ==
  ASSUME TabsInv, AuthTypeOK, AimInv, NEW p \in Projects, ToggleRow(p)
  PROVE  KeyStep
  <1>. DEFINE opens == ~RowNow(p).open
              loads == opens /\ RowNow(p).keys = {}
              open == [RowNow(p) EXCEPT !.open = opens]
              row == IF loads THEN LoadKeys(open) ELSE open
              c == KeysCall(p, "none")
  <1>1. /\ tab = "projects" /\ tab' = tab /\ p \in DOMAIN page.row /\ keys' = keys
        /\ \E some : page' = [WithRow(p, row) EXCEPT !.unclosed = some]
        /\ calls' = IF loads THEN Append(calls, c) ELSE calls
    BY OnTab DEF ToggleRow, UsesProjects
  <1>2. Grows(keys, keys') /\ Fit(calls, tab)
    BY <1>1 DEF Grows, TabsInv, SharedInv, CallsInv
  <1>3. /\ RowNow(p) \in RowRecord
        /\ \A d : Pends(d, p) <=> d.op \in RowOps /\ d.arg = p /\ (d.live = "here" \/ d.then = "changed")
    BY <1>1, RowKnown DEF Pends
  <1>4. /\ row.confirm = RowNow(p).confirm
        /\ ~loads /\ Settles(row) => Settles(RowNow(p))
        /\ ~loads => row.keys = RowNow(p).keys
    BY <1>3 DEF RowRecord, LoadKeys, Settles
  <1>5. c.op = "keys" /\ c.arg = p /\ c.live = "here"
    BY KeysCallFits
  <1>. HIDE DEF c, row
  <1>6. /\ ToSet(calls) \subseteq ToSet(calls') /\ ToSet(calls') \subseteq ToSet(calls) \cup {c}
        /\ loads => c \in ToSet(calls')
    BY <1>1, <1>2, Longer
  <1>7. ASSUME page'.row[p] = row PROVE Follows(p)
    <2>1. CASE loads
      BY <1>5, <1>6, <2>1, RowNotSettled DEF Pends, RowOps
    <2>2. CASE ~loads
      <3>1. Settles(page'.row[p]) => Settles(page.row[p]) /\ page'.row[p].keys = page.row[p].keys
        BY <1>4, <1>7, <2>2 DEF RowNow
      <3>. QED
        BY <1>1, <1>6, <3>1, RowUnchanged
    <2>. QED
      BY <2>1, <2>2
  <1>8. row.confirm # 0 => IsOf(row.confirm, p, keys')
    BY <1>1, <1>4 DEF AimInv, RowNow
  <1>9. \A d \in ToSet(calls') : d.op = "revokeKey" => d \in ToSet(calls)
    BY <1>5, <1>6
  <1>10. PICK some : page' = [WithRow(p, row) EXCEPT !.unclosed = some]
    BY <1>1
  <1>. QED
    BY <1>1, <1>2, <1>6, <1>7, <1>8, <1>9, <1>10, RowTouched

LEMMA WrittenKeys ==
  ASSUME TabsInv, AuthTypeOK, AimInv, NEW p \in Projects, CreateKey(p) \/ ConfirmRevokeKey(p)
  PROVE  KeyStep
  <1>1. /\ tab = "projects" /\ tab' = tab /\ p \in DOMAIN page.row /\ keys' = keys
        /\ Grows(keys, keys') /\ Fit(calls, tab) /\ RowNow(p) \in RowRecord
    BY OnTab, RowKnown
    DEF CreateKey, ConfirmRevokeKey, RowOffers, UsesProjects, Grows, TabsInv, SharedInv, CallsInv
  <1>2. PICK row, c :
          /\ page' = WithRow(p, row) /\ calls' = Append(calls, c) /\ row.confirm = RowNow(p).confirm
          /\ c.op \in {"createKey", "revokeKey"} /\ c.arg = p /\ c.live = "here"
          /\ c.op = "revokeKey" => c.tok = RowNow(p).confirm /\ c.tok # 0
    <2>1. CASE CreateKey(p)
      <3>. DEFINE row == [RowNow(p) EXCEPT !.creating = TRUE, !.error = FALSE]
                  c == Ask("createKey", p, 0)
      <3>1. page' = WithRow(p, row) /\ calls' = Append(calls, c)
        BY <2>1 DEF CreateKey
      <3>2. row.confirm = RowNow(p).confirm
        BY <1>1 DEF RowRecord
      <3>3. c.op = "createKey" /\ c.arg = p /\ c.live = "here"
        BY DEF Ask, AskAs
      <3>. HIDE DEF row, c
      <3>. QED
        BY <3>1, <3>2, <3>3
    <2>2. CASE ConfirmRevokeKey(p)
      <3>. DEFINE row == [RowNow(p) EXCEPT !.error = FALSE]
                  c == Ask("revokeKey", p, RowNow(p).confirm)
      <3>1. page' = WithRow(p, row) /\ calls' = Append(calls, c) /\ RowNow(p).confirm # 0
        BY <2>2 DEF ConfirmRevokeKey
      <3>2. row.confirm = RowNow(p).confirm
        BY <1>1 DEF RowRecord
      <3>3. c.op = "revokeKey" /\ c.arg = p /\ c.live = "here" /\ c.tok = RowNow(p).confirm
        BY DEF Ask, AskAs
      <3>. HIDE DEF row, c
      <3>. QED
        BY <3>1, <3>2, <3>3
    <2>. QED
      BY <2>1, <2>2
  <1>3. ToSet(calls') = ToSet(calls) \cup {c}
    BY <1>1, <1>2, Longer
  <1>4. Follows(p)
    BY <1>2, <1>3, RowNotSettled DEF Pends, RowOps
  <1>5. RowNow(p).confirm # 0 => IsOf(RowNow(p).confirm, p, keys')
    BY <1>1 DEF AimInv, RowNow
  <1>6. \A d \in ToSet(calls') : d.op = "revokeKey" => d \in ToSet(calls) \/ IsOf(d.tok, d.arg, keys')
    BY <1>2, <1>3, <1>5
  <1>. QED
    BY <1>1, <1>2, <1>3, <1>4, <1>5, <1>6, RowTouched

LEMMA AsideKeys ==
  ASSUME TabsInv, AimInv, NEW p \in Projects,
         (\E k \in 1 .. MaxKeys : AskToRevokeKey(p, k)) \/ CancelRevokeKey(p) \/ CloseReveal(p)
  PROVE  KeyStep
  <1>1. /\ tab = "projects" /\ tab' = tab /\ p \in DOMAIN page.row /\ keys' = keys /\ calls' = calls
        /\ Grows(keys, keys') /\ RowNow(p) \in RowRecord /\ RowFilled(p, RowNow(p), keys)
    BY OnTab, RowKnown
    DEF AskToRevokeKey, CancelRevokeKey, CloseReveal, RowOffers, UsesProjects, Grows
  <1>2. RowNow(p).confirm # 0 => IsOf(RowNow(p).confirm, p, keys')
    BY <1>1 DEF AimInv, RowNow
  <1>. DEFINE Fits(row) ==
                /\ row.open = RowNow(p).open /\ row.keys = RowNow(p).keys
                /\ row.error = RowNow(p).error
                /\ row.confirm # 0 => IsOf(row.confirm, p, keys')
              RowTurns(row) ==
                page' = WithRow(p, row) \/ \E some : page' = [WithRow(p, row) EXCEPT !.unclosed = some]
  <1>3. ASSUME NEW k \in 1 .. MaxKeys, AskToRevokeKey(p, k)
        PROVE  \E row : Fits(row) /\ RowTurns(row)
    <2>. DEFINE row == [RowNow(p) EXCEPT !.confirm = k]
    <2>1. page' = WithRow(p, row) /\ [id |-> k, revoked |-> FALSE] \in RowNow(p).keys
      BY <1>3 DEF AskToRevokeKey, KeysShown
    <2>2. IsOf(k, p, keys)
      BY <1>1, <2>1 DEF RowFilled, IsOf
    <2>3. /\ row.open = RowNow(p).open /\ row.keys = RowNow(p).keys
          /\ row.error = RowNow(p).error /\ row.confirm = k
      BY <1>1 DEF RowRecord
    <2>. HIDE DEF row
    <2>. QED
      BY <1>1, <2>1, <2>2, <2>3
  <1>4. ASSUME CancelRevokeKey(p)
        PROVE  \E row : Fits(row) /\ RowTurns(row)
    <2>. DEFINE row == [RowNow(p) EXCEPT !.confirm = 0]
    <2>1. page' = WithRow(p, row)
      BY <1>4 DEF CancelRevokeKey
    <2>2. /\ row.open = RowNow(p).open /\ row.keys = RowNow(p).keys
          /\ row.error = RowNow(p).error /\ row.confirm = 0
      BY <1>1 DEF RowRecord
    <2>. HIDE DEF row
    <2>. QED
      BY <2>1, <2>2
  <1>5. ASSUME CloseReveal(p)
        PROVE  \E row : Fits(row) /\ RowTurns(row)
    <2>. DEFINE row == [RowNow(p) EXCEPT !.reveal = 0]
    <2>1. \E some : page' = [WithRow(p, row) EXCEPT !.unclosed = some]
      BY <1>5 DEF CloseReveal
    <2>2. /\ row.open = RowNow(p).open /\ row.keys = RowNow(p).keys
          /\ row.error = RowNow(p).error /\ row.confirm = RowNow(p).confirm
      BY <1>1 DEF RowRecord
    <2>. HIDE DEF row
    <2>. QED
      BY <1>2, <2>1, <2>2
  <1>6. PICK row : Fits(row) /\ RowTurns(row)
    BY <1>3, <1>4, <1>5
  <1>7. ASSUME page'.row[p] = row PROVE Follows(p)
    <2>1. Settles(page'.row[p]) => Settles(page.row[p]) /\ page'.row[p].keys = page.row[p].keys
      BY <1>6, <1>7 DEF Settles, RowNow
    <2>. QED
      BY <1>1, <2>1, RowUnchanged
  <1>. QED
    BY <1>1, <1>6, <1>7, RowTouched

LEMMA FormKeys ==
  ASSUME TabsInv, AuthTypeOK, AimInv, ToggleForm \/ SubmitProject
  PROVE  KeyStep
  <1>1. /\ tab = "projects" /\ tab' = tab /\ keys' = keys /\ Fit(calls, tab) /\ PageShape(page)
        /\ page' = [page EXCEPT !.form = ~@] \/ page' = [page EXCEPT !.creating = TRUE]
        /\ calls' = calls \/ calls' = Append(calls, Ask("createProject", 0, 0))
    BY OnTab
    DEF ToggleForm, SubmitProject, UsesProjects, TabsInv, SharedInv, CallsInv, ProjectsInv, PageShape
  <1>2. page'.row = page.row
    <2>1. CASE page' = [page EXCEPT !.form = ~@]
      BY <1>1, <2>1, FormSet
    <2>2. CASE page' = [page EXCEPT !.creating = TRUE]
      <3>1. \A some \in BOOLEAN : [page EXCEPT !.creating = some].row = page.row
        BY <1>1, ShapeSet
      <3>. QED
        BY <2>2, <3>1
    <2>. QED
      BY <1>1, <2>1, <2>2
  <1>3. /\ ToSet(calls) \subseteq ToSet(calls')
        /\ \A c \in ToSet(calls') : c \in ToSet(calls) \/ c.op = "createProject"
    <2>. DEFINE d == Ask("createProject", 0, 0)
    <2>1. d.op = "createProject"
      BY AskedOp
    <2>. HIDE DEF d
    <2>2. ToSet(calls') = ToSet(calls) \/ ToSet(calls') = ToSet(calls) \cup {d}
      BY <1>1, Longer DEF d
    <2>. QED
      BY <2>1, <2>2
  <1>. QED
    BY <1>1, <1>2, <1>3, KeysBeside

LEMMA ClickedKeys ==
  ASSUME TabsInv, AuthTypeOK, AimInv, ProjectClicks
  PROVE  KeyStep
  BY FormKeys, ToggledKeys, WrittenKeys, AsideKeys DEF ProjectClicks

(***************************************************************************)
(* Answers of the tab Projects.                                            *)
(***************************************************************************)
LEMMA MadeKeys ==
  ASSUME TabsInv, AuthTypeOK, AimInv, NEW i \in DOMAIN calls, NEW how \in Hows,
         ProjectCreated(i, how)
  PROVE  KeyStep
  <1>. DEFINE c == calls[i]
              left == RemoveAt(calls, i)
              state == [page EXCEPT !.form = FALSE]
  <1>1. /\ c.op = "createProject" /\ keys' = keys /\ tab' = tab
        /\ \/ calls' = left /\ page' = page
           \/ c.live # "gone" /\ calls' = left /\ page' = [page EXCEPT !.creating = FALSE]
           \/ c.live # "gone" /\ RefreshProjects(state, "created", left)
    BY OnTab DEF ProjectCreated, UsesProjects
  <1>2. Fit(calls, tab) /\ Grows(keys, keys') /\ list \in ListRecord
    BY <1>1 DEF TabsInv, SharedInv, CallsInv, ListInv, ListFits, Grows
  <1>3. /\ ToSet(left) \subseteq ToSet(calls) /\ ToSet(calls) \subseteq ToSet(left) \cup {c}
        /\ Fit(left, tab) /\ CallFits(c, tab)
    BY <1>2, RemoveSet, TakeOff
  <1>4. c.live # "gone" => tab = "projects" /\ PageShape(page)
    <2>1. c.live # "gone" => tab = "projects"
      BY <1>1, <1>3 DEF CallFits, OpsOf, RowOps
    <2>. QED
      BY <2>1 DEF TabsInv, ProjectsInv, PageShape
  <1>. HIDE DEF c, left, state
  <1>5. CASE calls' = left /\ page' = page
    BY <1>1, <1>3, <1>5, KeysBeside DEF RowOps
  <1>6. CASE c.live # "gone" /\ calls' = left /\ page' = [page EXCEPT !.creating = FALSE]
    <2>1. page'.row = page.row
      BY <1>4, <1>6, FormClosed
    <2>. QED
      BY <1>1, <1>3, <1>6, <2>1, KeysBeside DEF RowOps
  <1>7. CASE c.live # "gone" /\ RefreshProjects(state, "created", left)
    <2>1. PageShape(state)
      BY <1>4, <1>7, FormClosed DEF state
    <2>. QED
      BY <1>2, <1>3, <1>4, <1>7, <2>1, RefreshedKeys
  <1>. QED
    BY <1>1, <1>5, <1>6, <1>7

\* An answer to a write of the project's keys: not in the row, or in it.
LEMMA WriteAnswered ==
  ASSUME TabsInv, AuthTypeOK, AimInv, NEW i \in DOMAIN calls, NEW how \in Hows, NEW p,
         calls[i].op \in {"createKey", "revokeKey"}, calls[i].arg = p, p \in Projects,
         Comes(how), tab' = tab, Grows(keys, keys'),
         \A q : q # p => KeysIn(q, keys') = KeysIn(q, keys), how = "error" => keys' = keys,
         calls' = IF how = "ok" /\ calls[i].live # "gone"
                  THEN Append(RemoveAt(calls, i), KeysAgain(p, calls[i].live))
                  ELSE RemoveAt(calls, i),
         NEW row, NEW some,
         calls[i].live # "here" \/ how = "break" => page' = page,
         calls[i].live = "here" /\ how # "break" =>
           /\ page' = WithRow(p, row) \/ page' = [WithRow(p, row) EXCEPT !.unclosed = some]
           /\ row.confirm \in {0, RowNow(p).confirm}
           /\ how = "error" => row.error
  PROVE  KeyStep
  <1>. DEFINE c == calls[i]
              left == RemoveAt(calls, i)
              d == KeysAgain(p, c.live)
  <1>0. SharedInv /\ Fit(calls, tab) /\ broken \in BOOLEAN
    BY DEF TabsInv, SharedInv, CallsInv, ScopeInv
  <1>1. /\ ToSet(left) \subseteq ToSet(calls) /\ ToSet(calls) \subseteq ToSet(left) \cup {c}
        /\ Fit(left, tab) /\ CallFits(c, tab) /\ c \in ToSet(calls)
    BY <1>0, RemoveSet, TakeOff, InSet DEF Fit
  <1>2. /\ c.live # "gone" => tab = "projects" /\ c.live \in {"here", "page"}
        /\ c.then # "changed" /\ c.op \in RowOps
    BY <1>1 DEF CallFits, CallRecord, OpsOf, RowOps
  <1>3. d.op = "keys" /\ d.arg = p /\ d.then = "changed" /\ d.live = c.live
    BY DEF KeysAgain, KeysCall, Ask, AskAs
  <1>4. how = "break" => broken'
    BY <1>0, BrokenStays
  <1>. HIDE DEF c, left, d
  <1>5. ToSet(calls') = IF how = "ok" /\ c.live # "gone" THEN ToSet(left) \cup {d} ELSE ToSet(left)
    BY <1>1, Longer DEF c, left, d
  <1>6. /\ \A e \in ToSet(calls') : e.op = "revokeKey" => e \in ToSet(calls)
        /\ \A e \in ToSet(calls) : e.arg # p => e \in ToSet(calls')
        /\ \A e \in ToSet(calls) : e = c \/ e \in ToSet(calls')
    BY <1>1, <1>3, <1>5 DEF c
  <1>7. ASSUME c.live # "gone", how = "ok" PROVE \A q : q = p => Follows(q)
    <2>1. d \in ToSet(calls') /\ Pends(d, p)
      BY <1>3, <1>5, <1>7 DEF Pends, RowOps
    <2>. QED
      BY <2>1, RowNotSettled
  <1>8. CASE c.live = "here" /\ how # "break"
    <2>1. /\ tab = "projects" /\ p \in DOMAIN page.row
          /\ page' = WithRow(p, row) \/ page' = [WithRow(p, row) EXCEPT !.unclosed = some]
          /\ row.confirm \in {0, RowNow(p).confirm} /\ (how = "error" => row.error)
      BY <1>1, <1>2, <1>8, RowOfCall DEF c
    <2>2. row.confirm # 0 => IsOf(row.confirm, p, keys')
      BY <2>1, IsOfStays DEF AimInv, RowNow
    <2>3. ASSUME page'.row[p] = row PROVE Follows(p)
      <3>1. CASE how = "ok"
        BY <1>7, <1>8, <3>1
      <3>2. CASE how = "error"
        BY <2>1, <2>3, <3>2, RowNotSettled DEF Settles
      <3>. QED
        BY <1>8, <3>1, <3>2 DEF Hows
    <2>. QED
      BY <1>6, <2>1, <2>2, <2>3, RowTouched
  <1>9. CASE c.live # "here" \/ how = "break"
    <2>1. page' = page
      BY <1>9 DEF c
    <2>2. AimInv'
      BY <1>6, <2>1, IsOfStays DEF AimInv
    <2>3. ASSUME NEW q \in Projects PROVE Follows(q)
      <3>1. CASE tab # "projects"
        BY <3>1, RowNotSettled
      <3>2. CASE how = "break"
        BY <1>4, <3>2 DEF Follows
      <3>3. CASE q # p /\ tab = "projects"
        <4>1. \A e \in ToSet(calls) : Pends(e, q) => e \in ToSet(calls')
          BY <1>6, <3>3 DEF Pends
        <4>. QED
          BY <2>1, <3>3, <4>1, RowUnchanged
      <3>4. CASE q = p /\ c.live = "gone"
        <4>1. LateWrite(p)
          <5>1. calls' = RemoveAt(calls, i) /\ calls[i].live = "gone" /\ calls[i].op \in RowOps
            BY <1>2, <3>4 DEF c
          <5>. QED
            BY <5>1 DEF LateWrite
        <4>. QED
          BY <3>4, <4>1 DEF Follows
      <3>5. CASE q = p /\ c.live = "page" /\ how = "ok"
        BY <1>7, <3>5
      <3>6. CASE q = p /\ c.live = "page" /\ how = "error"
        <4>1. ~Pends(c, p) /\ tab = "projects"
          BY <1>2, <3>6 DEF Pends
        <4>2. \A e \in ToSet(calls) : Pends(e, p) => e \in ToSet(calls')
          BY <1>6, <4>1
        <4>. QED
          BY <2>1, <3>6, <4>1, <4>2, RowUnchanged
      <3>. QED
        BY <1>2, <1>9, <3>1, <3>2, <3>3, <3>4, <3>5, <3>6 DEF Hows
    <2>. QED
      BY <2>2, <2>3 DEF KeyStep
  <1>. QED
    BY <1>8, <1>9

LEMMA IssuedKeys ==
  ASSUME TabsInv, AuthTypeOK, AimInv, NEW i \in DOMAIN calls, NEW how \in Hows,
         KeyCreated(i, how)
  PROVE  KeyStep
  <1>. DEFINE c == calls[i]
              p == c.arg
              left == RemoveAt(calls, i)
              k == Len(keys) + 1
              refusal == [RowNow(p) EXCEPT !.error = TRUE, !.creating = FALSE]
              shown == LoadKeys([RowNow(p) EXCEPT !.reveal = k])
              row == IF how = "error" THEN refusal ELSE shown
  <1>1. /\ c.op = "createKey" /\ Comes(how) /\ UNCHANGED <<owner, rows, revoked>>
        /\ Effect(how, keys' = Append(keys, [project |-> p, revoked |-> FALSE]), keys)
        /\ tab' = tab
        /\ calls' = IF how = "ok" /\ c.live # "gone" THEN Append(left, KeysAgain(p, c.live)) ELSE left
        /\ c.live # "here" \/ how = "break" => page' = page
        /\ c.live = "here" /\ how # "break" =>
             page' = WithRow(p, row) \/ \E some : page' = [WithRow(p, row) EXCEPT !.unclosed = some]
    BY OnTab DEF KeyCreated, KeysAgain, UsesProjects, scopeVars
  <1>2. Fit(calls, tab) /\ ServerInv
    BY DEF TabsInv, SharedInv, CallsInv
  <1>3. CallFits(c, tab) /\ c \in ToSet(calls)
    BY <1>2, InSet DEF Fit
  <1>4. p \in Projects /\ c.op \in RowOps /\ (c.live = "here" => tab = "projects")
    BY <1>1, <1>3 DEF CallFits, OpsOf, RowOps
  <1>5. /\ Grows(keys, keys') /\ \A q : q # p => KeysIn(q, keys') = KeysIn(q, keys)
        /\ how = "error" => keys' = keys
    BY <1>1, <1>2, <1>4, KeyAdded
  <1>6. c.live = "here" /\ how # "break" => row.confirm = RowNow(p).confirm /\ (how = "error" => row.error)
    <2>. SUFFICES ASSUME c.live = "here"
                  PROVE  row.confirm = RowNow(p).confirm /\ (how = "error" => row.error)
      OBVIOUS
    <2>1. RowNow(p) \in RowRecord
      BY <1>3, <1>4, RowOfCall
    <2>. DEFINE old == RowNow(p)
    <2>. HIDE DEF p, k, old
    <2>2. \A r \in RowRecord : /\ [r EXCEPT !.error = TRUE, !.creating = FALSE].confirm = r.confirm
                               /\ [r EXCEPT !.error = TRUE, !.creating = FALSE].error
                               /\ LoadKeys([r EXCEPT !.reveal = k]).confirm = r.confirm
      BY DEF RowRecord, LoadKeys
    <2>. QED
      BY <2>1, <2>2 DEF old
  <1>. HIDE DEF row, left
  <1>7. PICK next, some :
          calls[i].live = "here" /\ how # "break" =>
            /\ page' = WithRow(p, next) \/ page' = [WithRow(p, next) EXCEPT !.unclosed = some]
            /\ next.confirm \in {0, RowNow(p).confirm}
            /\ how = "error" => next.error
    BY <1>1, <1>6
  <1>8. /\ calls[i].op \in {"createKey", "revokeKey"} /\ calls[i].arg = p /\ p \in Projects
        /\ Comes(how) /\ tab' = tab
        /\ calls' = IF how = "ok" /\ calls[i].live # "gone"
                    THEN Append(RemoveAt(calls, i), KeysAgain(p, calls[i].live))
                    ELSE RemoveAt(calls, i)
        /\ calls[i].live # "here" \/ how = "break" => page' = page
    BY <1>1, <1>4 DEF left
  <1>. HIDE DEF c, p, k, refusal, shown
  <1>. QED
    BY <1>5, <1>7, <1>8, WriteAnswered

LEMMA RevokedKeys ==
  ASSUME TabsInv, AuthTypeOK, AimInv, NEW i \in DOMAIN calls, NEW how \in Hows,
         KeyRevoked(i, how)
  PROVE  KeyStep
  <1>. DEFINE c == calls[i]
              p == c.arg
              left == RemoveAt(calls, i)
              refusal == [RowNow(p) EXCEPT !.error = TRUE, !.confirm = 0]
              loads == LoadKeys(RowNow(p))
              row == IF how = "error" THEN refusal ELSE loads
  <1>1. /\ c.op = "revokeKey" /\ Comes(how) /\ UNCHANGED <<owner, rows, revoked>>
        /\ Effect(how, keys' = [keys EXCEPT ![c.tok].revoked = TRUE], keys)
        /\ tab' = tab
        /\ calls' = IF how = "ok" /\ c.live # "gone" THEN Append(left, KeysAgain(p, c.live)) ELSE left
        /\ c.live # "here" \/ how = "break" => page' = page
        /\ c.live = "here" /\ how # "break" => page' = WithRow(p, row)
    BY OnTab DEF KeyRevoked, KeysAgain, UsesProjects, scopeVars
  <1>2. Fit(calls, tab) /\ ServerInv
    BY DEF TabsInv, SharedInv, CallsInv
  <1>3. CallFits(c, tab) /\ c \in ToSet(calls)
    BY <1>2, InSet DEF Fit
  <1>4. p \in Projects /\ c.op \in RowOps /\ (c.live = "here" => tab = "projects")
    BY <1>1, <1>3 DEF CallFits, OpsOf, RowOps
  <1>5. IsOf(c.tok, p, keys)
    BY <1>1, <1>3 DEF AimInv
  <1>6. /\ Grows(keys, keys') /\ \A q : q # p => KeysIn(q, keys') = KeysIn(q, keys)
        /\ how = "error" => keys' = keys
    BY <1>1, <1>2, <1>5, KeyMarked
  <1>7. c.live = "here" =>
          row.confirm \in {0, RowNow(p).confirm} /\ (how = "error" => row.error)
    <2>. SUFFICES ASSUME c.live = "here"
                  PROVE  row.confirm \in {0, RowNow(p).confirm} /\ (how = "error" => row.error)
      OBVIOUS
    <2>1. RowNow(p) \in RowRecord
      BY <1>3, <1>4, RowOfCall
    <2>. DEFINE old == RowNow(p)
    <2>. HIDE DEF p, old
    <2>2. \A r \in RowRecord : /\ [r EXCEPT !.error = TRUE, !.confirm = 0].confirm = 0
                               /\ [r EXCEPT !.error = TRUE, !.confirm = 0].error
                               /\ LoadKeys(r).confirm = r.confirm
      BY DEF RowRecord, LoadKeys
    <2>. QED
      BY <2>1, <2>2 DEF old
  <1>. HIDE DEF row, left
  <1>. QED
    BY <1>1, <1>4, <1>6, <1>7, WriteAnswered DEF left

\* A listing that comes fills its row with the keys, or is refused there.
LEMMA ReadKeys ==
  ASSUME TabsInv, AuthTypeOK, AimInv, NEW i \in DOMAIN calls, NEW how \in Hows,
         KeysAnswered(i, how)
  PROVE  KeyStep
  <1>. DEFINE c == calls[i]
              p == c.arg
              left == RemoveAt(calls, i)
              again == c.then = "changed" /\ how # "break"
              done == [RowNow(p) EXCEPT !.loading = FALSE]
              row == IF how = "ok" THEN [done EXCEPT !.keys = KeysOf(p)]
                     ELSE [done EXCEPT !.error = TRUE]
              read == IF c.live # "here" \/ how = "break" THEN page ELSE WithRow(p, row)
  <1>1. /\ c.op = "keys" /\ Comes(how) /\ keys' = keys /\ tab' = tab
        /\ again => RefreshProjects(read, "none", left)
        /\ ~again => page' = read /\ calls' = left
    BY OnTab DEF KeysAnswered, UsesProjects
  <1>2. Fit(calls, tab) /\ broken \in BOOLEAN /\ list \in ListRecord /\ Grows(keys, keys')
    BY <1>1 DEF TabsInv, SharedInv, CallsInv, ScopeInv, ListInv, ListFits, Grows
  <1>3. /\ ToSet(left) \subseteq ToSet(calls) /\ ToSet(calls) \subseteq ToSet(left) \cup {c}
        /\ Fit(left, tab) /\ CallFits(c, tab) /\ c \in ToSet(calls)
    BY <1>2, RemoveSet, TakeOff, InSet
  <1>4. tab = "projects" /\ c.live \in {"here", "page"} /\ p \in Projects /\ c.op \in RowOps
    BY <1>1, <1>3 DEF CallFits, CallRecord, OpsOf, RowOps, Writes
  <1>5. PageShape(page) /\ (how = "break" => broken')
    BY <1>1, <1>2, <1>4, BrokenStays DEF TabsInv, ProjectsInv, PageShape
  <1>6. c.live = "here" /\ how # "break" =>
          /\ p \in DOMAIN page.row /\ row.confirm = RowNow(p).confirm
          /\ how = "ok" => row.keys = KeysOf(p)
          /\ how = "error" => row.error
    <2>. SUFFICES ASSUME c.live = "here"
                  PROVE  /\ p \in DOMAIN page.row /\ row.confirm = RowNow(p).confirm
                         /\ how = "ok" => row.keys = KeysOf(p)
                         /\ how = "error" => row.error
      OBVIOUS
    <2>1. RowNow(p) \in RowRecord /\ p \in DOMAIN page.row
      BY <1>3, <1>4, RowOfCall
    <2>. DEFINE old == RowNow(p)
                some == KeysOf(p)
    <2>. HIDE DEF p, old, some
    <2>2. \A r \in RowRecord : LET set == [r EXCEPT !.loading = FALSE] IN
             /\ [set EXCEPT !.keys = some].confirm = r.confirm
             /\ [set EXCEPT !.keys = some].keys = some
             /\ [set EXCEPT !.error = TRUE].confirm = r.confirm
             /\ [set EXCEPT !.error = TRUE].error
      BY DEF RowRecord
    <2>. QED
      BY <2>1, <2>2 DEF old, some
  <1>. HIDE DEF row
  <1>7. PageShape(read)
    <2>1. PageShape(WithRow(p, row))
      <3>. HIDE DEF p
      <3>. QED
        BY <1>5, ShapeSet DEF WithRow
    <2>. QED
      BY <1>5, <2>1
  <1>8. CASE again
    <2>. HIDE DEF left, read, c
    <2>. QED
      BY <1>1, <1>2, <1>3, <1>4, <1>7, <1>8, RefreshedKeys
  <1>9. CASE how = "break"
    <2>1. page' = page /\ calls' = left
      BY <1>1, <1>9
    <2>. HIDE DEF c, left
    <2>2. AimInv'
      BY <1>1, <1>3, <2>1 DEF AimInv
    <2>. QED
      BY <1>5, <1>9, <2>2 DEF KeyStep, Follows
  <1>10. CASE ~again /\ how # "break" /\ c.live = "page"
    <2>1. page' = page /\ calls' = left /\ c.then # "changed"
      BY <1>1, <1>10
    <2>. HIDE DEF c, left
    <2>2. AimInv'
      BY <1>1, <1>3, <2>1 DEF AimInv
    <2>3. \A q, d : d \in ToSet(calls) /\ Pends(d, q) => d \in ToSet(calls')
      BY <1>3, <1>10, <2>1 DEF Pends
    <2>4. ASSUME NEW q PROVE Follows(q)
      BY <1>1, <1>4, <2>1, <2>3, RowUnchanged
    <2>. QED
      BY <2>2, <2>4 DEF KeyStep
  <1>11. CASE ~again /\ how # "break" /\ c.live = "here"
    <2>1. page' = WithRow(p, row) /\ calls' = left
      BY <1>1, <1>11
    <2>2. KeysIn(p, keys') = KeysOf(p)
      BY <1>1 DEF KeysIn, KeysOf
    <2>. HIDE DEF left
    <2>3. ASSUME page'.row[p] = row PROVE Follows(p)
      BY <1>6, <1>11, <2>2, <2>3, RowNotSettled DEF Settles, Hows
    <2>4. row.confirm # 0 => IsOf(row.confirm, p, keys')
      BY <1>1, <1>4, <1>6, <1>11 DEF AimInv, RowNow
    <2>5. /\ \A d \in ToSet(calls') : d.op = "revokeKey" => d \in ToSet(calls)
          /\ \A d \in ToSet(calls) : d.op \in RowOps /\ d.arg # p => d \in ToSet(calls')
      BY <1>3, <2>1
    <2>6. p \in DOMAIN page.row
      BY <1>6, <1>11
    <2>7. \A q : q # p => KeysIn(q, keys') = KeysIn(q, keys)
      BY <1>1
    <2>. HIDE DEF p
    <2>. QED
      BY <1>1, <1>2, <1>4, <2>1, <2>3, <2>4, <2>5, <2>6, <2>7, RowTouched
  <1>. QED
    BY <1>4, <1>8, <1>9, <1>10, <1>11

(***************************************************************************)
(* Lists and the provider.                                                 *)
(***************************************************************************)
LEMMA ListedKeys ==
  ASSUME TabsInv, AuthTypeOK, AimInv, NEW i \in DOMAIN calls, NEW how \in Hows,
         ListAnswered(i, how)
  PROVE  KeyStep
  <1>. DEFINE c == calls[i]
              left == RemoveAt(calls, i)
              ends == c.then # "created"
              state == [page EXCEPT !.creating = @ /\ ends]
              R == ProjectRows(list')
  <1>1. /\ c.op = "list" /\ tab' = tab /\ keys' = keys
        /\ tab = "projects" => page' = Mounted(state, list') /\ calls' = Unrow(left, list')
        /\ tab # "projects" => page' = page /\ calls' = left
    BY OnTab DEF ListAnswered, server
  <1>2. Fit(calls, tab)
    BY DEF TabsInv, SharedInv, CallsInv
  <1>3. /\ ToSet(left) \subseteq ToSet(calls) /\ ToSet(calls) \subseteq ToSet(left) \cup {c}
        /\ Fit(left, tab)
    BY <1>2, RemoveSet, TakeOff
  <1>4. CASE tab # "projects"
    <2>. HIDE DEF left, c
    <2>. QED
      BY <1>1, <1>3, <1>4, KeysBeside
  <1>5. CASE tab = "projects"
    <2>1. PageShape(page) /\ ends \in BOOLEAN
      BY <1>5 DEF TabsInv, ProjectsInv, PageShape
    <2>. HIDE DEF ends
    <2>2. PageShape(state) /\ state.row = page.row
      BY <2>1, CreatingEnds
    <2>. HIDE DEF state, left, c
    <2>3. page'.row = [p \in R |-> IF p \in DOMAIN page.row THEN page.row[p] ELSE NewRow]
      <3>. DEFINE pages == list'
      <3>. HIDE DEF pages
      <3>1. page' = Mounted(state, pages)
        BY <1>1, <1>5 DEF pages
      <3>2. page'.row = [p \in ProjectRows(pages) |->
                           IF p \in DOMAIN state.row THEN state.row[p] ELSE NewRow]
        BY <2>2, <3>1, MountedIs
      <3>. QED
        BY <2>2, <3>2 DEF pages
    <2>4. /\ \A d \in ToSet(calls') :
               \E e \in ToSet(left) : e.op = d.op /\ e.arg = d.arg /\ e.tok = d.tok
          /\ \A d \in ToSet(left) :
               \/ d \in ToSet(calls')
               \/ d.op \in RowOps /\ d.live = "here" /\ d.arg \notin R
      BY <1>1, <1>3, <1>5, UnrowTraced, UnrowSet
    <2>. HIDE DEF R
    <2>5. NewRow.confirm = 0 /\ ~Settles(NewRow)
      BY DEF NewRow, Settles
    <2>6. \A p \in DOMAIN page'.row :
            /\ p \in R
            /\ p \in DOMAIN page.row => page'.row[p] = page.row[p]
            /\ p \notin DOMAIN page.row => page'.row[p] = NewRow
      BY <2>3
    <2>7. \A d \in ToSet(calls') : d.op = "revokeKey" => IsOf(d.tok, d.arg, keys)
      BY <1>3, <2>4 DEF AimInv
    <2>8. \A p \in DOMAIN page'.row : page'.row[p].confirm # 0 => IsOf(page'.row[p].confirm, p, keys)
      BY <1>5, <2>5, <2>6 DEF AimInv
    <2>9. AimInv'
      BY <1>1, <2>7, <2>8 DEF AimInv
    <2>10. ASSUME NEW p \in Projects PROVE Follows(p)
      <3>1. CASE p \notin DOMAIN page'.row
        BY <3>1, RowNotSettled
      <3>2. CASE p \in DOMAIN page'.row /\ p \notin DOMAIN page.row
        BY <2>5, <2>6, <3>2, RowNotSettled
      <3>3. CASE p \in DOMAIN page'.row /\ p \in DOMAIN page.row
        <4>1. p \in R /\ page'.row[p] = page.row[p]
          BY <2>6, <3>3
        <4>2. \A d \in ToSet(calls) : Pends(d, p) => d \in ToSet(calls')
          <5>1. c.op \notin RowOps
            BY <1>1 DEF RowOps
          <5>. QED
            BY <1>3, <2>4, <4>1, <5>1 DEF Pends
        <4>. QED
          BY <1>1, <1>5, <3>3, <4>1, <4>2, RowUnchanged
      <3>. QED
        BY <3>1, <3>2, <3>3
    <2>. QED
      BY <2>9, <2>10 DEF KeyStep
  <1>. QED
    BY <1>4, <1>5

LEMMA MoreKeys ==
  ASSUME TabsInv, AimInv, LoadMoreRows
  PROVE  KeyStep
  <1>. DEFINE c == Ask("list", ListScope(tab, scope.selected), list.next)
  <1>1. calls' = Append(calls, c) /\ page' = page /\ tab' = tab /\ keys' = keys /\ Fit(calls, tab)
    BY OnTab DEF LoadMoreRows, server, TabsInv, SharedInv, CallsInv
  <1>2. c.op = "list"
    BY AskedOp
  <1>. HIDE DEF c
  <1>3. ToSet(calls') = ToSet(calls) \cup {c}
    BY <1>1, Longer
  <1>. QED
    BY <1>1, <1>2, <1>3, KeysBeside

LEMMA RescopedKeys ==
  ASSUME AimInv, tab' = tab, keys' = keys, NEW p, NEW before, Fit(before, tab),
         ToSet(before) \subseteq ToSet(calls),
         \A c \in ToSet(calls) : c.op \in RowOps => c \in ToSet(before),
         Rescope(p, before)
  PROVE  KeyStep
  <1>. DEFINE c == ListCall(p, 0, "none")
  <1>1. page' = page /\ (calls' = before \/ calls' = Append(before, c))
    BY DEF Rescope, RefreshList
  <1>2. c.op = "list"
    BY DEF ListCall, Ask, AskAs
  <1>. HIDE DEF c
  <1>3. /\ ToSet(before) \subseteq ToSet(calls')
        /\ \A d \in ToSet(calls') : d \in ToSet(before) \/ d.op = "list"
    <2>1. ToSet(Append(before, c)) = ToSet(before) \cup {c}
      BY Longer
    <2>. QED
      BY <1>1, <1>2, <2>1
  <1>. QED
    BY <1>1, <1>3, KeysBeside

LEMMA ScopedKeys ==
  ASSUME TabsInv, AimInv,
         \/ \E p \in Projects : SelectProject(p)
         \/ \E i \in DOMAIN calls, how \in Hows : ScopeAnswered(i, how)
  PROVE  KeyStep
  <1>0. Fit(calls, tab)
    BY DEF TabsInv, SharedInv, CallsInv
  <1>1. ASSUME NEW p, SelectProject(p) PROVE KeyStep
    <2>1. Rescope(p, calls) /\ tab' = tab /\ keys' = keys
      BY <1>1, OnTab DEF SelectProject, server
    <2>. QED
      BY <1>0, <2>1, RescopedKeys
  <1>2. ASSUME NEW i \in DOMAIN calls, NEW how, ScopeAnswered(i, how) PROVE KeyStep
    <2>. DEFINE c == calls[i]
                left == RemoveAt(calls, i)
    <2>1. c.op = "projects" /\ tab' = tab /\ keys' = keys /\ \E p : Rescope(p, left)
      BY <1>2, OnTab DEF ScopeAnswered, server
    <2>2. /\ ToSet(left) \subseteq ToSet(calls) /\ ToSet(calls) \subseteq ToSet(left) \cup {c}
          /\ Fit(left, tab)
      BY <1>0, RemoveSet, TakeOff
    <2>3. c.op \notin RowOps
      BY <2>1 DEF RowOps
    <2>. HIDE DEF c, left
    <2>. QED
      BY <2>1, <2>2, <2>3, RescopedKeys
  <1>. QED
    BY <1>1, <1>2

LEMMA ListsKeys ==
  ASSUME TabsInv, AuthTypeOK, AimInv, ListNext
  PROVE  KeyStep
  <1>1. Recorded => KeyStep
    <2>. SUFFICES ASSUME Recorded PROVE KeyStep
      OBVIOUS
    <2>1. tab' = tab /\ UNCHANGED <<keys, calls, page>>
      BY OnTab DEF Recorded, pageVars
    <2>. QED
      BY <2>1, KeysBeside
  <1>. QED
    BY <1>1, ListedKeys, MoreKeys, ScopedKeys DEF ListNext

(***************************************************************************)
(* Another route is rendered.  What goes on of a tab that is left revokes  *)
(* the keys it was about to.                                               *)
(***************************************************************************)
LEMMA AbandonTraced ==
  ASSUME NEW s, NEW where, Fit(s, where)
  PROVE  \A c \in ToSet(Abandon(s)) :
           \E d \in ToSet(s) : d.op = c.op /\ d.arg = c.arg /\ d.tok = c.tok
  <1>. DEFINE left == Only(Writes, s)
              t == Abandon(s)
  <1>1. t = [i \in DOMAIN left |-> [left[i] EXCEPT !.live = "gone"]]
    BY DEF Abandon
  <1>2. /\ Fit(left, where)
        /\ ToSet(left) = {c \in ToSet(s) : c.op \in Writes}
    BY FitOnly, OnlySet
  <1>. HIDE DEF left, t
  <1>3. \A c \in CallRecord : LET u == [c EXCEPT !.live = "gone"] IN
          u.op = c.op /\ u.arg = c.arg /\ u.tok = c.tok
    BY DEF CallRecord
  <1>4. \A i \in DOMAIN left : left[i] \in ToSet(s) /\ left[i] \in CallRecord
    BY <1>2, InSet DEF Fit, CallFits
  <1>5. \A i \in DOMAIN left :
          t[i].op = left[i].op /\ t[i].arg = left[i].arg /\ t[i].tok = left[i].tok
    BY <1>1, <1>3, <1>4
  <1>6. DOMAIN t = DOMAIN left
    BY <1>1
  <1>7. \A c \in ToSet(t) : \E d \in ToSet(s) : d.op = c.op /\ d.arg = c.arg /\ d.tok = c.tok
    BY <1>4, <1>5, <1>6 DEF ToSet
  <1>. QED
    BY <1>7 DEF t

LEMMA MountRevokes ==
  ASSUME NEW who, NEW where, NEW p
  PROVE  \A c \in ToSet(MountCalls(who, where, p)) : c.op # "revokeKey"
  <1>. DEFINE some == MountCalls(who, where, p)
              asked == AskAs(who, "list", ListScope(where, p), 0)
              figures == AskAs(who, "figures", 0, 0)
              key == AskAs(who, "key", 0, 0)
  <1>1. some \in {<<asked>>, <<figures, key>>, <<figures>>, <<>>}
    BY DEF MountCalls, OverviewCalls, AnalyticsCalls
  <1>2. asked.op # "revokeKey" /\ figures.op # "revokeKey" /\ key.op # "revokeKey"
    BY AskedFor
  <1>. HIDE DEF some, asked, figures, key
  <1>3. ToSet(some) \subseteq {asked, figures, key}
    BY <1>1 DEF ToSet
  <1>. QED
    BY <1>2, <1>3 DEF some

LEMMA MovedRevokes ==
  ASSUME Fit(calls, tab), NEW who, who \in Persons, NEW new, new \in {"none"} \cup Tabs,
         NEW p, p \in Nat, NEW some, some = CallsAfter(who, new, p)
  PROVE  \A c \in ToSet(some) : c.op = "revokeKey" =>
           \E d \in ToSet(calls) : d.op = "revokeKey" /\ d.arg = c.arg /\ d.tok = c.tok
  <1>. DEFINE in == new # "none"
              joins == in /\ tab = "none"
              gone == Abandon(calls)
              old == IF in THEN Only({"projects"}, calls) ELSE <<>>
              asks == IF joins THEN <<AskAs(who, "projects", 0, 0)>> ELSE <<>>
              mount == MountCalls(who, new, p)
              first == (gone \o old) \o asks
  <1>0. some = first \o mount /\ (in => "projects" \in OpsOf(new)) /\ ToSet(<<>>) = {}
    BY DEF CallsAfter, OpsOf, Tabs, ToSet
  <1>1. /\ Fit(gone, new)
        /\ \A c \in ToSet(gone) :
             \E d \in ToSet(calls) : d.op = c.op /\ d.arg = c.arg /\ d.tok = c.tok
    BY AbandonLeaves, AbandonTraced
  <1>2. Fit(old, new) /\ \A c \in ToSet(old) : c.op # "revokeKey"
    <2>1. CASE in
      <3>1. Fit(old, new) /\ ToSet(old) = {c \in ToSet(calls) : c.op \in {"projects"}}
        BY <1>0, <2>1, OnlyProjectsWait, OnlySet
      <3>. QED
        BY <3>1
    <2>2. CASE ~in
      BY <1>0, <2>2, FitNone
    <2>. QED
      BY <2>1, <2>2
  <1>3. Fit(asks, new) /\ \A c \in ToSet(asks) : c.op # "revokeKey"
    <2>1. CASE joins
      <3>1. Fit(asks, new)
        BY <1>0, <2>1, Asked
      <3>2. ToSet(asks) = {AskAs(who, "projects", 0, 0)}
        BY <2>1, SetOfOne
      <3>. QED
        BY <3>1, <3>2, AskedFor
    <2>2. CASE ~joins
      BY <1>0, <2>2, FitNone
    <2>. QED
      BY <2>1, <2>2
  <1>4. Fit(mount, new) /\ \A c \in ToSet(mount) : c.op # "revokeKey"
    BY MountFits, MountRevokes
  <1>. HIDE DEF gone, old, asks, mount
  <1>5. /\ Fit(first, new)
        /\ ToSet(first) = ToSet(gone) \cup ToSet(old) \cup ToSet(asks)
    <2>1. Fit(gone \o old, new) /\ ToSet(gone \o old) = ToSet(gone) \cup ToSet(old)
      BY <1>1, <1>2, FitConcat, ConcatSet
    <2>. QED
      BY <1>3, <2>1, FitConcat, ConcatSet
  <1>. HIDE DEF first
  <1>6. ToSet(some) = ToSet(first) \cup ToSet(mount)
    BY <1>0, <1>4, <1>5, ConcatSet
  <1>. QED
    BY <1>1, <1>2, <1>3, <1>4, <1>5, <1>6

LEMMA RemountKeys ==
  ASSUME TabsInv, AuthTypeOK, AuthTypeOK', AimInv,
         NEW paletteNow, NEW drawerNow, NEW themeNow,
         RemountWith(paletteNow, drawerNow, themeNow)
  PROVE  KeyStep
  <1>1. CASE tab' = tab
    <2>1. QuietStep
      BY <1>1 DEF RemountWith, QuietStep, pageVars, budget, tab
    <2>. QED
      BY <2>1, QuietKeys
  <1>2. CASE tab' # tab
    <2>. DEFINE who == IF token' # None THEN token' ELSE cookie'
                joins == tab' # "none" /\ tab = "none"
                p == IF joins THEN 0 ELSE scope.selected
    <2>1. calls' = CallsAfter(who, tab', p) /\ page' = NewPage(tab') /\ keys' = keys
      BY <1>2 DEF RemountWith, CallsAfter, server, tab
    <2>2. who \in Persons /\ tab' \in {"none"} \cup Tabs /\ p \in Nat /\ Fit(calls, tab)
      BY TabTyped, ScopeNumbers
      DEF AuthTypeOK, tab, TabOf, TabsInv, SharedInv, ScopeInv, CallsInv
    <2>. HIDE DEF who, p
    <2>3. tab' = "projects" => DOMAIN page'.row = {}
      BY <2>1 DEF NewPage, NewProjects
    <2>4. Grows(keys, keys')
      BY <2>1 DEF Grows
    <2>5. \A c \in ToSet(calls') : c.op = "revokeKey" =>
            \E d \in ToSet(calls) : d.op = "revokeKey" /\ d.arg = c.arg /\ d.tok = c.tok
      BY <2>1, <2>2, MovedRevokes
    <2>. QED
      BY <2>3, <2>4, <2>5, RowsGone
  <1>. QED
    BY <1>1, <1>2

LEMMA SessionKeys ==
  ASSUME TabsInv, AuthTypeOK, AuthTypeOK', AimInv, SessionNext
  PROVE  KeyStep
  <1>1. CASE \E a, b, c : RemountWith(a, b, c)
    BY <1>1, RemountKeys
  <1>2. CASE Unmounted /\ UNCHANGED <<memory, path>>
    <2>1. tab' = tab
      BY <1>2 DEF memory, tab, TabOf
    <2>2. QuietStep
      BY <1>2, <2>1 DEF Unmounted, QuietStep, scopeVars, pageVars, budget
    <2>. QED
      BY <2>2, QuietKeys
  <1>3. ASSUME NEW s \in Slots,
               \/ Reload(s) /\ RemountWith(Closed, FALSE, [Apply(theme) EXCEPT !.other = FALSE])
               \/ SignOut(s) /\ ~palette.open /\ Remount
               \/ LoginAnswered(s) /\ Remount
               \/ SaveAnswered(s) /\ Remount
               \/ \E known \in BOOLEAN : MeAnswered(s, known) /\ Remount
        PROVE  KeyStep
    BY <1>1, <1>3 DEF Remount
  <1>4. ASSUME NEW s \in Slots,
               \/ LoginRefused(s) /\ Unmounted
               \/ LogoutAnswered(s) /\ Unmounted
               \/ LogoutLost(s) /\ Unmounted
               \/ \E who \in Accounts : SubmitLogin(s, who) /\ Unmounted
               \/ \E who \in Accounts : SubmitSignup(s, who) /\ Unmounted
        PROVE  KeyStep
    <2>1. Unmounted /\ UNCHANGED <<memory, path>>
      BY <1>4 DEF LoginRefused, LogoutAnswered, LogoutLost, SubmitLogin, SubmitSignup, Submit
    <2>. QED
      BY <1>2, <2>1
  <1>5. ASSUME (SubmitShortPassword /\ Unmounted) \/ (SendReset /\ Unmounted)
                 \/ (ResetTimer /\ Unmounted)
                 \/ (\E who \in Persons : OtherTab(who) /\ Unmounted)
        PROVE  KeyStep
    <2>1. Unmounted /\ UNCHANGED <<memory, path>>
      BY <1>5 DEF SubmitShortPassword, SendReset, ResetTimer, OtherTab
    <2>. QED
      BY <1>2, <2>1
  <1>6. ASSUME NEW to, NEW stays, Navigate(to), RemountWith(palette, stays, theme)
        PROVE  KeyStep
    BY <1>1, <1>6
  <1>. QED
    BY <1>3, <1>4, <1>5, <1>6 DEF SessionNext

\* The palette, the shell, the profile, and steps that change nothing.
LEMMA AroundKeys ==
  ASSUME TabsInv, AuthTypeOK, AuthTypeOK', AimInv,
         \/ ChoosePlace
         \/ \E s \in Slots : SaveProfile(s) \/ ProfileRefused(s)
         \/ ShellNext
         \/ UNCHANGED vars
  PROVE  KeyStep
  <1>1. CASE \E a, b, c : RemountWith(a, b, c)
    BY <1>1, RemountKeys
  <1>2. CASE tab' = tab /\ UNCHANGED <<keys, calls, page>>
    BY <1>2, KeysBeside
  <1>3. CASE ChoosePlace
    <2>1. PICK to : \/ Navigate(to) /\ RemountWith(Closed, drawer, theme)
                    \/ ClosePalette
      BY <1>3 DEF ChoosePlace
    <2>2. ClosePalette => tab' = tab /\ UNCHANGED <<keys, calls, page>>
      BY OnTab DEF ClosePalette, Click, SameTabs, server, pageVars
    <2>. QED
      BY <1>1, <1>2, <2>1, <2>2
  <1>4. ASSUME NEW s \in Slots, SaveProfile(s) \/ ProfileRefused(s) PROVE KeyStep
    <2>1. tab' = tab /\ UNCHANGED <<keys, calls>>
      BY <1>4 DEF SaveProfile, ProfileRefused, Save, SaveRefused, server, memory, tab, TabOf
    <2>2. tab = "projects" => page' = page
      <3>1. SaveProfile(s) => tab = "settings"
        BY DEF SaveProfile, OffersSave
      <3>2. ProfileRefused(s) => page' = page \/ page' = [page EXCEPT !.saveFailed = TRUE]
        BY DEF ProfileRefused
      <3>. QED
        BY <1>4, <3>1, <3>2, NoProfileHere
    <2>. QED
      BY <2>1, <2>2, KeysBeside
  <1>5. CASE ShellNext
    <2>1. Click /\ SameTabs
      BY <1>5 DEF ShellNext, OpenPalette, ClosePalette, CollapseRail, ToggleDrawer, ToggleTheme,
             OsSwitches, Arrow, TypeQuery, Hover, OtherTabTheme
    <2>2. tab' = tab /\ UNCHANGED <<keys, calls, page>>
      BY <1>5, <2>1, ShellKeepsSession, OnTab DEF SameTabs, server, pageVars
    <2>. QED
      BY <1>2, <2>2
  <1>6. CASE UNCHANGED vars
    <2>1. tab' = tab /\ UNCHANGED <<keys, calls, page>>
      BY <1>6, OnTab DEF vars, server, pageVars
    <2>. QED
      BY <1>2, <2>1
  <1>. QED
    BY <1>3, <1>4, <1>5, <1>6

\* The other tabs; a revocation of a grant may be answered on any of them.
LEMMA ElsewhereKeys ==
  ASSUME Known, TabsInv', AimInv,
         \/ EvidenceClicks \/ EvidenceAnswers
         \/ AccountNext \/ GrantClicks \/ GrantAnswers
  PROVE  KeyStep
  <1>0. Fit(calls, tab)
    BY KnownIs
  <1>1. /\ tab' = tab /\ FewerReads(calls, calls')
        /\ Fit(calls', tab')
    BY EvidenceTabStep, AccountTabStep, GrantTabStep DEF TabStep, TabsInv, SharedInv, CallsInv
  <1>2. keys' = keys
    BY DEF EvidenceClicks, SelectSession, SessionBack, OpenReplay, CloseReplay, ViewEvent,
           EventBack, FetchProof, ReceiptBack, FetchAndVerify, VerifyPasted,
           EvidenceAnswers, AnchorAnswered, FrameArrived, ReplayEnded, ProofAnswered,
           FetchedProof, Verified, UsesPage, AccountNext, OpenSection, OverviewFigures,
           KeyAnswered, FiguresAnswered, UsesAccount, GrantClicks, SelectGrant, GrantBack,
           AskToRevoke, CancelConfirm, ConfirmRevoke, GrantAnswers, ChainAnswered,
           RevokeAnswered, UsesGrants, server
  <1>3. CASE tab # "projects"
    BY <1>1, <1>2, <1>3, OtherTabs
  <1>4. CASE tab = "projects"
    <2>1. PICK i \in DOMAIN calls, how \in Hows : RevokeAnswered(i, how)
      BY <1>4
      DEF EvidenceClicks, SelectSession, SessionBack, OpenReplay, CloseReplay, ViewEvent,
          EventBack, FetchProof, ReceiptBack, FetchAndVerify, VerifyPasted,
          EvidenceAnswers, AnchorAnswered, FrameArrived, ReplayEnded, ProofAnswered,
          FetchedProof, Verified, AccountNext, OpenSection, OverviewFigures,
          KeyAnswered, FiguresAnswered, GrantClicks, SelectGrant, GrantBack,
          AskToRevoke, CancelConfirm, ConfirmRevoke, GrantAnswers, ChainAnswered
    <2>. DEFINE c == calls[i]
                left == RemoveAt(calls, i)
    <2>2. ToSet(left) \subseteq ToSet(calls) /\ ToSet(calls) \subseteq ToSet(left) \cup {c}
      BY <1>0, RemoveSet
    <2>3. c.op = "revoke" /\ calls' = left /\ (c.live # "here" => page' = page) /\ CallFits(c, tab)
      BY <1>0, <2>1 DEF RevokeAnswered, Fit
    <2>4. c.live = "gone" /\ c.op \notin RowOps
      BY <1>4, <2>3 DEF CallFits, OpsOf, RowOps
    <2>. HIDE DEF c, left
    <2>. QED
      BY <1>1, <1>2, <2>2, <2>3, <2>4, KeysBeside
  <1>. QED
    BY <1>3, <1>4

-----------------------------------------------------------------------------
LEMMA AimStart == Init => AimInv
  <1>. SUFFICES ASSUME Init PROVE AimInv
    OBVIOUS
  <1>1. tab = "none" /\ ToSet(calls) = {}
    BY DEF Init, AuthInit, tab, TabOf, ToSet
  <1>. QED
    BY <1>1 DEF AimInv

LEMMA AimNext == Known /\ Known' /\ AimInv /\ [Next]_vars => KeyStep
  <1>. SUFFICES ASSUME Known, Known', AimInv, [Next]_vars PROVE KeyStep
    OBVIOUS
  <1>1. TabsInv /\ TabsInv' /\ AuthTypeOK /\ AuthTypeOK'
    BY DEF Known, IInv
  <1>2. ASSUME NEW i \in DOMAIN calls, NEW how \in Hows,
               \/ ProjectCreated(i, how) \/ KeyCreated(i, how) \/ KeyRevoked(i, how)
               \/ KeysAnswered(i, how)
        PROVE  KeyStep
    BY <1>1, <1>2, MadeKeys, IssuedKeys, RevokedKeys, ReadKeys
  <1>3. CASE PageNext
    BY <1>1, <1>2, <1>3, ListsKeys, AroundKeys, ElsewhereKeys, ClickedKeys
    DEF PageNext, ProjectAnswers
  <1>. QED
    BY <1>1, <1>3, SessionKeys, AroundKeys DEF Next

(***************************************************************************)
(* A row's keys, once read, stay the server's over clicks, answers in any  *)
(* order, refreshes that unmount the row and writes answered after it is   *)
(* gone: every write that ends asks for the keys again, but one answered   *)
(* after its tab was left (Projects.tsx, lib/usePagination.ts).            *)
(***************************************************************************)
THEOREM KeysFollowTheServer == Spec => KeysStayCurrent
  <1>1. Known /\ Known' /\ AimInv /\ [Next]_vars =>
          AimInv' /\ \A p \in Projects : RowCurrent(p) => RowCurrent(p)' \/ LateWrite(p) \/ broken'
    BY AimNext DEF KeyStep, Follows
  <1>. QED
    BY <1>1, AimStart, KnownAlways, PTL DEF Spec, KeysStayCurrent
=============================================================================
