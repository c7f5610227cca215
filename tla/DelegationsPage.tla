-------------------------- MODULE DelegationsPage --------------------------
(***************************************************************************)
(* The tab Delegations: a grant, the server's verdict on its chain, and    *)
(* its revocation behind a confirmation.                                   *)
(***************************************************************************)
EXTENDS Dashboard

(***************************************************************************)
(* `chain` is the grant a verdict is shown for.  `strayed` (ghost): another*)
(* grant was opened while a revocation was under way.                      *)
(***************************************************************************)
NewDelegations ==
  [selected |-> 0, chain |-> 0, valid |-> FALSE, loading |-> FALSE, failed |-> FALSE,
   revoking |-> FALSE, revoked |-> FALSE, revokeFailed |-> FALSE,
   confirm |-> FALSE, strayed |-> FALSE]

UsesGrants == UNCHANGED <<authVars, scopeVars, list, listed>>

GrantsList == IF page.selected = 0 THEN Shows(list) ELSE "none"
GrantTreeShown == page.selected = 0 /\ list.items # <<>>
ChainPill ==
  IF page.loading THEN "verifying"
  ELSE IF page.chain # 0 THEN (IF page.valid THEN "VALID" ELSE "INVALID")
  ELSE IF page.failed THEN "ERROR" ELSE "none"
GrantDetail ==
  [open |-> page.selected # 0 /\ ~page.confirm,
   pill |-> ChainPill,
   revoke |-> IF page.revoked THEN "banner" ELSE "button"]

(***************************************************************************)
(* The effect of selecting a grant, up to its await.                       *)
(***************************************************************************)
OpenGrant(r) ==
  [page EXCEPT !.selected = r, !.chain = 0, !.failed = FALSE, !.loading = TRUE,
               !.revoked = FALSE, !.revokeFailed = FALSE]

\* From the table, or from the tree, which shows the first root on errors too.
SelectGrant(r) ==
  /\ tab = "delegations"
  /\ \/ GrantsList = "rows" /\ r \in ShownRows(list)
     \/ GrantTreeShown /\ r = Head(list.items)
  /\ Use
  /\ page' = [OpenGrant(r) EXCEPT
                !.strayed = @ \/ \E i \in Awaiting({"revoke"}) : calls[i].arg # r]
  /\ calls' = Append(Cancel({"verifyGrant"}, calls), Ask("verifyGrant", r, 0))
  /\ UNCHANGED server /\ UsesGrants

GrantBack ==
  /\ tab = "delegations" /\ GrantDetail.open
  /\ Use
  /\ page' = [page EXCEPT !.selected = 0]
  /\ calls' = Cancel({"verifyGrant"}, calls)
  /\ UNCHANGED server /\ UsesGrants

(***************************************************************************)
(* The server's verdict, whichever it is: VerifyChain looks at links,      *)
(* capabilities and signatures, never at revocations (see Delegation), so  *)
(* a revoked grant may be shown VALID.                                     *)
(***************************************************************************)
ChainAnswered(i, how) ==
  /\ tab = "delegations" /\ calls[i].op = "verifyGrant"
  /\ Comes(how)
  /\ \/ how = "ok" /\ \E verdict \in BOOLEAN :
          page' = [page EXCEPT !.chain = calls[i].arg, !.loading = FALSE, !.valid = verdict]
     \/ how = "error" /\ page' = [page EXCEPT !.failed = TRUE, !.loading = FALSE]
     \/ how = "break" /\ UNCHANGED page
  /\ calls' = RemoveAt(calls, i)
  /\ UNCHANGED server /\ UsesGrants

AskToRevoke ==
  /\ tab = "delegations" /\ GrantDetail.open /\ GrantDetail.revoke = "button"
  /\ Use
  /\ page' = [page EXCEPT !.confirm = TRUE]
  /\ UNCHANGED calls
  /\ UNCHANGED server /\ UsesGrants

\* The confirmation's buttons are disabled while a revocation is under way.
ConfirmRevoke ==
  /\ tab = "delegations" /\ page.confirm /\ ~page.revoking
  /\ Use
  /\ page' = [page EXCEPT !.confirm = FALSE, !.revoking = TRUE, !.revokeFailed = FALSE]
  /\ calls' = Append(calls, Ask("revoke", page.selected, 0))
  /\ UNCHANGED server /\ UsesGrants

CancelConfirm ==
  /\ tab = "delegations" /\ page.confirm
  /\ Use
  /\ page' = [page EXCEPT !.confirm = FALSE]
  /\ UNCHANGED calls
  /\ UNCHANGED server /\ UsesGrants

\* Wrong variant: a refusal is taken for a revocation.
RevokeSettledAlways(state, how) ==
  IF how = "break" THEN state
  ELSE [state EXCEPT !.revoking = FALSE, !.revoked = TRUE]

(***************************************************************************)
(* The answer goes to whatever grant is on screen by then.                 *)
(***************************************************************************)
RevokeSettled(state, how) ==
  IF how = "break" THEN state
  ELSE [state EXCEPT !.revoking = FALSE, !.revoked = @ \/ how = "ok",
                     !.revokeFailed = (how = "error")]

RevokeAnswered(i, how) ==
  /\ calls[i].op = "revoke"
  /\ Comes(how)
  /\ Effect(how, revoked' = revoked \cup {calls[i].arg}, revoked)
  /\ page' = IF calls[i].live = "here" THEN RevokeSettled(page, how) ELSE page
  /\ calls' = RemoveAt(calls, i)
  /\ UNCHANGED <<owner, rows, keys>> /\ UsesGrants

GrantClicks ==
  \/ \E r \in Rows : SelectGrant(r)
  \/ GrantBack \/ AskToRevoke \/ ConfirmRevoke \/ CancelConfirm

GrantAnswers ==
  \E i \in DOMAIN calls, how \in Hows :
    ChainAnswered(i, how) \/ RevokeAnswered(i, how)
=============================================================================
