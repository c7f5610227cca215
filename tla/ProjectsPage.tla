---------------------------- MODULE ProjectsPage ----------------------------
(***************************************************************************)
(* The tab Projects: the list of projects, the form that makes one, and    *)
(* the API keys under each row.  A row's state lives as long as its row is *)
(* on screen.                                                              *)
(***************************************************************************)
EXTENDS Dashboard

(***************************************************************************)
(* `unclosed` (ghost): keys whose secret was shown in an open row and that *)
(* the user has not put away since.                                        *)
(***************************************************************************)
NewProjects == [form |-> FALSE, creating |-> FALSE, row |-> <<>>, unclosed |-> {}]

NewRow ==
  [open |-> FALSE, keys |-> {}, loading |-> FALSE, error |-> FALSE,
   creating |-> FALSE, reveal |-> 0, confirm |-> 0]

UsesProjects == UNCHANGED <<authVars, scopeVars, rows, revoked>>

(***************************************************************************)
(* The rows on screen: none while a first page is awaited.                 *)
(***************************************************************************)
ProjectRows(pages) ==
  IF pages.loading /\ ~pages.loaded THEN {} ELSE ToSet(pages.items)

(***************************************************************************)
(* React keeps the rows that stay and mounts the new ones.                 *)
(***************************************************************************)
Mounted(state, pages) ==
  [state EXCEPT !.row = [p \in ProjectRows(pages) |->
                           IF p \in DOMAIN @ THEN @[p] ELSE NewRow]]

RowOps == {"keys", "createKey", "revokeKey"}

\* Calls of a row that is gone go on for the tab alone.
Unrow(some, pages) ==
  [i \in DOMAIN some |->
     IF some[i].op \in RowOps /\ some[i].live = "here" /\ some[i].arg \notin ProjectRows(pages)
     THEN [some[i] EXCEPT !.live = "page"] ELSE some[i]]

(***************************************************************************)
(* The list is asked for again: its rows leave the screen at once.         *)
(***************************************************************************)
RefreshProjects(state, then, before) ==
  /\ RefreshList(list, 0, then, Unrow(before, Refresh(list)))
  /\ page' = Mounted(state, Refresh(list))

-----------------------------------------------------------------------------
ToggleForm ==
  /\ tab = "projects"
  /\ Use
  /\ page' = [page EXCEPT !.form = ~@]
  /\ UNCHANGED <<calls, list, listed, owner, keys>> /\ UsesProjects

SubmitProject ==
  /\ tab = "projects" /\ page.form /\ ~page.creating
  /\ Use
  /\ page' = [page EXCEPT !.creating = TRUE]
  /\ calls' = Append(calls, Ask("createProject", 0, 0))
  /\ UNCHANGED <<list, listed, owner, keys>> /\ UsesProjects

(***************************************************************************)
(* createProject's answer; a refusal is not shown.  `creating` ends with   *)
(* the refresh it makes.                                                   *)
(***************************************************************************)
ProjectCreated(i, how) ==
  /\ calls[i].op = "createProject"
  /\ Comes(how)
  /\ Effect(how, \E p \in ProjectsOf(None) : owner' = [owner EXCEPT ![p] = calls[i].as], owner)
  /\ LET left == RemoveAt(calls, i)
     IN  IF calls[i].live = "gone" \/ how = "break"
         THEN calls' = left /\ UNCHANGED <<page, list, listed>>
         ELSE IF how = "error"
         THEN calls' = left /\ page' = [page EXCEPT !.creating = FALSE]
              /\ UNCHANGED <<list, listed>>
         ELSE RefreshProjects([page EXCEPT !.form = FALSE], "created", left)
  /\ UNCHANGED keys /\ UsesProjects

-----------------------------------------------------------------------------
(***************************************************************************)
(* A row of the list, by its project.                                      *)
(***************************************************************************)
RowNow(p) == page.row[p]
RowOffers(p) == tab = "projects" /\ p \in DOMAIN page.row /\ RowNow(p).open /\ RowNow(p).confirm = 0

WithRow(p, row) == [page EXCEPT !.row[p] = row]
KeysOf(p) == {[id |-> k, revoked |-> keys[k].revoked] : k \in {k \in DOMAIN keys : keys[k].project = p}}
KeysShown(p) == IF RowNow(p).loading THEN {} ELSE RowNow(p).keys

(***************************************************************************)
(* RevealPanel: the secret of a key just issued, under its open row.       *)
(***************************************************************************)
Revealed == {page.row[p].reveal : p \in {p \in DOMAIN page.row : page.row[p].open}}

LoadKeys(row) == [row EXCEPT !.loading = TRUE, !.error = FALSE]
KeysCall(p, then) == [Ask("keys", p, 0) EXCEPT !.then = then]

\* Opening a row without keys asks for them; closing it hides its secret.
ToggleRow(p) ==
  /\ tab = "projects" /\ p \in DOMAIN page.row /\ RowNow(p).confirm = 0
  /\ Use
  /\ LET opens == ~RowNow(p).open
         loads == opens /\ RowNow(p).keys = {}
         row   == [RowNow(p) EXCEPT !.open = opens]
     IN  /\ page' = [WithRow(p, IF loads THEN LoadKeys(row) ELSE row) EXCEPT
                       !.unclosed = @ \ {RowNow(p).reveal}]
         /\ calls' = IF loads THEN Append(calls, KeysCall(p, "none")) ELSE calls
  /\ UNCHANGED <<list, listed, owner, keys>> /\ UsesProjects

CreateKey(p) ==
  /\ RowOffers(p) /\ ~RowNow(p).creating
  /\ Len(keys) + Cardinality({i \in DOMAIN calls : calls[i].op = "createKey"}) < MaxKeys
  /\ Use
  /\ page' = WithRow(p, [RowNow(p) EXCEPT !.creating = TRUE, !.error = FALSE])
  /\ calls' = Append(calls, Ask("createKey", p, 0))
  /\ UNCHANGED <<list, listed, owner, keys>> /\ UsesProjects

AskToRevokeKey(p, k) ==
  /\ RowOffers(p) /\ [id |-> k, revoked |-> FALSE] \in KeysShown(p)
  /\ Use
  /\ page' = WithRow(p, [RowNow(p) EXCEPT !.confirm = k])
  /\ UNCHANGED <<calls, list, listed, owner, keys>> /\ UsesProjects

\* The confirmation stays open, and can be given again, until it is answered.
ConfirmRevokeKey(p) ==
  /\ tab = "projects" /\ p \in DOMAIN page.row /\ RowNow(p).open /\ RowNow(p).confirm # 0
  /\ Use
  /\ page' = WithRow(p, [RowNow(p) EXCEPT !.error = FALSE])
  /\ calls' = Append(calls, Ask("revokeKey", p, RowNow(p).confirm))
  /\ UNCHANGED <<list, listed, owner, keys>> /\ UsesProjects

CancelRevokeKey(p) ==
  /\ tab = "projects" /\ p \in DOMAIN page.row /\ RowNow(p).open /\ RowNow(p).confirm # 0
  /\ Use
  /\ page' = WithRow(p, [RowNow(p) EXCEPT !.confirm = 0])
  /\ UNCHANGED <<calls, list, listed, owner, keys>> /\ UsesProjects

CloseReveal(p) ==
  /\ RowOffers(p) /\ RowNow(p).reveal # 0
  /\ Use
  /\ page' = [WithRow(p, [RowNow(p) EXCEPT !.reveal = 0]) EXCEPT
                !.unclosed = @ \ {RowNow(p).reveal}]
  /\ UNCHANGED <<calls, list, listed, owner, keys>> /\ UsesProjects

(***************************************************************************)
(* Wrong variant: a new key is shown and the keys are not read again.      *)
(***************************************************************************)
KeyCreatedUnread(i, how) ==
  LET p == calls[i].arg
  IN  /\ calls[i].op = "createKey"
      /\ Comes(how)
      /\ Effect(how, keys' = Append(keys, [project |-> p, revoked |-> FALSE]), keys)
      /\ page' = IF calls[i].live # "here" \/ how # "ok" THEN page
                 ELSE WithRow(p, [RowNow(p) EXCEPT !.reveal = Len(keys) + 1,
                                                   !.creating = FALSE])
      /\ calls' = RemoveAt(calls, i)
      /\ UNCHANGED <<list, listed, owner>> /\ UsesProjects

(***************************************************************************)
(* The good answer of createKey shows the secret and asks for the keys,    *)
(* whose answer refreshes the list (onChanged).                            *)
(***************************************************************************)
KeyCreated(i, how) ==
  LET p == calls[i].arg
      here == calls[i].live = "here"
      k == Len(keys) + 1
      left == RemoveAt(calls, i)
  IN  /\ calls[i].op = "createKey"
      /\ Comes(how)
      /\ Effect(how, keys' = Append(keys, [project |-> p, revoked |-> FALSE]), keys)
      /\ page' =
           IF ~here \/ how = "break" THEN page
           ELSE IF how = "error"
           THEN WithRow(p, [RowNow(p) EXCEPT !.error = TRUE, !.creating = FALSE])
           ELSE [WithRow(p, LoadKeys([RowNow(p) EXCEPT !.reveal = k])) EXCEPT
                   !.unclosed = IF RowNow(p).open THEN @ \cup {k} ELSE @]
      /\ calls' = IF how = "ok" /\ calls[i].live # "gone"
                  THEN Append(left, [KeysCall(p, "changed") EXCEPT !.live = calls[i].live])
                  ELSE left
      /\ UNCHANGED <<list, listed, owner>> /\ UsesProjects

KeyRevoked(i, how) ==
  LET p == calls[i].arg
      here == calls[i].live = "here"
      left == RemoveAt(calls, i)
  IN  /\ calls[i].op = "revokeKey"
      /\ Comes(how)
      /\ Effect(how, keys' = [keys EXCEPT ![calls[i].tok].revoked = TRUE], keys)
      /\ page' =
           IF ~here \/ how = "break" THEN page
           ELSE IF how = "error"
           THEN WithRow(p, [RowNow(p) EXCEPT !.error = TRUE, !.confirm = 0])
           ELSE WithRow(p, LoadKeys(RowNow(p)))
      /\ calls' = IF how = "ok" /\ calls[i].live # "gone"
                  THEN Append(left, [KeysCall(p, "changed") EXCEPT !.live = calls[i].live])
                  ELSE left
      /\ UNCHANGED <<list, listed, owner>> /\ UsesProjects

(***************************************************************************)
(* loadKeys' answer, and what awaited it: a refused listing does not stop  *)
(* the refresh, a broken connection does.                                  *)
(***************************************************************************)
KeysAnswered(i, how) ==
  LET p == calls[i].arg
      here == calls[i].live = "here"
      done == [RowNow(p) EXCEPT !.loading = FALSE]
      read == IF ~here \/ how = "break" THEN page
              ELSE IF how = "ok" THEN WithRow(p, [done EXCEPT !.keys = KeysOf(p)])
              ELSE WithRow(p, [done EXCEPT !.error = TRUE])
  IN  /\ calls[i].op = "keys"
      /\ Comes(how)
      /\ IF calls[i].then = "changed" /\ how # "break"
         THEN RefreshProjects(read, "none", RemoveAt(calls, i))
         ELSE page' = read /\ calls' = RemoveAt(calls, i) /\ UNCHANGED <<list, listed>>
      /\ UNCHANGED <<owner, keys>> /\ UsesProjects

ProjectClicks ==
  \/ ToggleForm \/ SubmitProject
  \/ \E p \in Projects :
       \/ ToggleRow(p) \/ CreateKey(p) \/ ConfirmRevokeKey(p) \/ CancelRevokeKey(p)
       \/ CloseReveal(p)
       \/ \E k \in 1 .. MaxKeys : AskToRevokeKey(p, k)

ProjectAnswers ==
  \E i \in DOMAIN calls, how \in Hows :
    \/ ProjectCreated(i, how) \/ KeyCreated(i, how) \/ KeyRevoked(i, how)
    \/ KeysAnswered(i, how)
=============================================================================
