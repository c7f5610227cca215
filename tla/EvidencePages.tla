--------------------------- MODULE EvidencePages ---------------------------
(***************************************************************************)
(* The tabs that show what was recorded: Sessions with its replay, the     *)
(* audit log (Activity), Receipts, and the check of a proof (Verify).      *)
(***************************************************************************)
EXTENDS Dashboard

CONSTANTS
  Proofs,    \* bound: the events the tab Verify is asked about
  MaxFrames  \* bound: frames of a replay

ASSUME ProofsAssumption == Proofs \subseteq Nat \ {0}

UsesPage == UNCHANGED <<authVars, server, scopeVars>>
SamePage == UNCHANGED <<list, listed>>

-----------------------------------------------------------------------------
(***************************************************************************)
(* Sessions: the selected session, its anchor with the flags of its call,  *)
(* and the replay on top.                                                  *)
(***************************************************************************)
NewReplay == [of |-> 0, frames |-> 0, loading |-> FALSE, failed |-> FALSE, done |-> FALSE]
NewSessions ==
  [selected |-> 0, anchor |-> 0, loading |-> FALSE, failed |-> FALSE,
   replay |-> NewReplay]

(***************************************************************************)
(* What the tab shows: the list, or one session and the pill of its        *)
(* anchor; a replay covers both.                                           *)
(***************************************************************************)
SessionsList == IF page.selected = 0 /\ page.replay.of = 0 THEN Shows(list) ELSE "none"
SessionDetail ==
  [open   |-> page.selected # 0 /\ page.replay.of = 0,
   anchor |-> IF page.loading THEN "loading"
              ELSE IF page.anchor # 0 THEN "anchored" ELSE "no anchor"]

SelectSession(r) ==
  /\ tab = "sessions" /\ SessionsList = "rows" /\ r \in ShownRows(list)
  /\ Use
  /\ page' = [page EXCEPT !.selected = r, !.anchor = 0, !.failed = FALSE,
                          !.loading = TRUE]
  /\ calls' = Append(Cancel({"anchor"}, calls), Ask("anchor", r, 0))
  /\ UsesPage /\ SamePage

SessionBack ==
  /\ tab = "sessions" /\ SessionDetail.open
  /\ Use
  /\ page' = [page EXCEPT !.selected = 0]
  /\ calls' = Cancel({"anchor"}, calls)
  /\ UsesPage /\ SamePage

\* A session without a checkpointed event has no anchor: a good answer may
\* hold none.
AnchorAnswered(i, how) ==
  /\ tab = "sessions" /\ calls[i].op = "anchor"
  /\ Comes(how)
  /\ \/ how = "ok" /\ \E a \in {0, calls[i].arg} :
          page' = [page EXCEPT !.anchor = a, !.loading = FALSE]
     \/ how = "error" /\ page' = [page EXCEPT !.failed = TRUE, !.loading = FALSE]
     \/ how = "break" /\ UNCHANGED page
  /\ calls' = RemoveAt(calls, i)
  /\ UsesPage /\ SamePage

OpenReplay ==
  /\ tab = "sessions" /\ SessionDetail.open
  /\ Use
  /\ page' = [page EXCEPT !.replay = [NewReplay EXCEPT !.of = page.selected,
                                                       !.loading = TRUE]]
  /\ calls' = Append(calls, Ask("replay", page.selected, 0))
  /\ UsesPage /\ SamePage

(***************************************************************************)
(* ReplayModal: closing it aborts the stream.                              *)
(***************************************************************************)
ReplayShows ==
  [nothing   |-> page.replay.frames = 0 /\ ~page.replay.loading /\ ~page.replay.failed,
   streaming |-> page.replay.loading,
   end       |-> page.replay.done /\ page.replay.frames > 0]

CloseReplay ==
  /\ tab = "sessions" /\ page.replay.of # 0
  /\ Use
  /\ page' = [page EXCEPT !.replay = NewReplay]
  /\ calls' = Cancel({"replay"}, calls)
  /\ UsesPage /\ SamePage

\* One line of the stream; a line that does not parse is passed over.
FrameArrived(i) ==
  /\ tab = "sessions" /\ calls[i].op = "replay" /\ ReplayShows.streaming
  /\ page.replay.frames < MaxFrames
  /\ page' = [page EXCEPT !.replay.frames = @ + 1]
  /\ UNCHANGED calls
  /\ UNCHANGED <<budget, shell>> /\ UsesPage /\ SamePage

\* The stream ends, is refused at its start, or breaks; all three are caught.
ReplayEnded(i, how) ==
  /\ tab = "sessions" /\ calls[i].op = "replay"
  /\ how = "error" => page.replay.frames = 0
  /\ Comes(how)
  /\ page' = [page EXCEPT !.replay.loading = FALSE, !.replay.done = (how = "ok"),
                          !.replay.failed = (how # "ok")]
  /\ calls' = RemoveAt(calls, i)
  /\ UsesPage /\ SamePage

-----------------------------------------------------------------------------
(***************************************************************************)
(* Activity: one event of the list, from what the list brought.            *)
(***************************************************************************)
NewActivity == [selected |-> 0]

ActivityList == IF page.selected = 0 THEN Shows(list) ELSE "none"
EventDetail == page.selected # 0

ViewEvent(r) ==
  /\ tab = "activity" /\ ActivityList = "rows" /\ r \in ShownRows(list)
  /\ Use
  /\ page' = [page EXCEPT !.selected = r]
  /\ UNCHANGED calls /\ UsesPage /\ SamePage

EventBack ==
  /\ tab = "activity" /\ EventDetail
  /\ Use
  /\ page' = [page EXCEPT !.selected = 0]
  /\ UNCHANGED calls /\ UsesPage /\ SamePage

-----------------------------------------------------------------------------
(***************************************************************************)
(* Receipts: the proof of one event at a time.                             *)
(***************************************************************************)
NewReceipts ==
  [selected |-> 0, proof |-> 0, fetching |-> FALSE, failed |-> FALSE]

ReceiptsList == IF page.proof = 0 THEN Shows(list) ELSE "none"
ReceiptOpen == page.proof # 0

(***************************************************************************)
(* Every row's Proof button is disabled while a proof is fetched.          *)
(***************************************************************************)
OffersProof(r) ==
  ReceiptsList = "rows" /\ r \in ShownRows(list) /\ ~page.fetching

FetchProof(r) ==
  /\ tab = "receipts" /\ OffersProof(r)
  /\ Use
  /\ page' = [page EXCEPT !.selected = r, !.fetching = TRUE, !.failed = FALSE,
                          !.proof = 0]
  /\ calls' = Append(calls, Ask("proof", r, 0))
  /\ UsesPage /\ SamePage

ProofAnswered(i, how) ==
  /\ tab = "receipts" /\ calls[i].op = "proof"
  /\ Comes(how)
  /\ \/ how = "ok" /\ page' = [page EXCEPT !.proof = calls[i].arg, !.fetching = FALSE]
     \/ how = "error" /\ page' = [page EXCEPT !.failed = TRUE, !.fetching = FALSE]
     \/ how = "break" /\ UNCHANGED page
  /\ calls' = RemoveAt(calls, i)
  /\ UsesPage /\ SamePage

ReceiptBack ==
  /\ tab = "receipts" /\ ReceiptOpen
  /\ Use
  /\ page' = [page EXCEPT !.proof = 0]
  /\ UNCHANGED calls /\ UsesPage /\ SamePage

-----------------------------------------------------------------------------
(***************************************************************************)
(* Verify: a proof, fetched by event or pasted, and the server's report.   *)
(* `asked` (ghost) is the last proof asked about and `mixed` (ghost) that  *)
(* it was asked while an earlier one was under way.                        *)
(***************************************************************************)
VerifyOps == {"fetchProof", "verify"}
NewVerify ==
  [loading |-> FALSE, error |-> FALSE, result |-> 0, asked |-> 0, mixed |-> FALSE]

Asking(state, r) ==
  [state EXCEPT !.error = FALSE, !.asked = r, !.mixed = Awaiting(VerifyOps) # {}]

\* Wrong variant: the report of the last proof stays.
VerifyProofOver(state) == [state EXCEPT !.loading = TRUE, !.error = FALSE]

(***************************************************************************)
(* verifyProof up to its await.                                            *)
(***************************************************************************)
VerifyProof(state) ==
  [state EXCEPT !.loading = TRUE, !.error = FALSE, !.result = 0]

\* The button is disabled while a report is awaited, the Enter key is not.
FetchAndVerify(r) ==
  /\ tab = "verify"
  /\ Use
  /\ page' = Asking(page, r)
  /\ calls' = Append(calls, Ask("fetchProof", r, 0))
  /\ UsesPage /\ SamePage

FetchedProof(i, how) ==
  /\ tab = "verify" /\ calls[i].op = "fetchProof"
  /\ Comes(how)
  /\ \/ /\ how = "ok"
        /\ page' = VerifyProof(page)
        /\ calls' = Append(RemoveAt(calls, i), Ask("verify", calls[i].arg, 0))
     \/ /\ how = "error" /\ page' = [page EXCEPT !.error = TRUE]
        /\ calls' = RemoveAt(calls, i)
     \/ /\ how = "break" /\ UNCHANGED page
        /\ calls' = RemoveAt(calls, i)
  /\ UsesPage /\ SamePage

\* A pasted or dropped receipt, of a row or not JSON at all (0).
VerifyPasted(r) ==
  /\ tab = "verify"
  /\ Use
  /\ IF r = 0 THEN /\ page' = [page EXCEPT !.error = TRUE]
                   /\ UNCHANGED calls
     ELSE /\ page' = VerifyProof(Asking(page, r))
          /\ calls' = Append(calls, Ask("verify", r, 0))
  /\ UsesPage /\ SamePage

Verified(i, how) ==
  /\ tab = "verify" /\ calls[i].op = "verify"
  /\ Comes(how)
  /\ page' = IF how = "ok"
             THEN [page EXCEPT !.result = calls[i].arg, !.loading = FALSE]
             ELSE [page EXCEPT !.error = TRUE, !.loading = FALSE]
  /\ calls' = RemoveAt(calls, i)
  /\ UsesPage /\ SamePage

ReportShown == page.result # 0

EvidenceClicks ==
  \/ \E r \in Rows : SelectSession(r) \/ ViewEvent(r) \/ FetchProof(r)
  \/ \E r \in Proofs : FetchAndVerify(r)
  \/ \E r \in Proofs \cup {0} : VerifyPasted(r)
  \/ SessionBack \/ OpenReplay \/ CloseReplay \/ EventBack \/ ReceiptBack

EvidenceAnswers ==
  \E i \in DOMAIN calls :
    \/ FrameArrived(i)
    \/ \E how \in Hows :
         \/ AnchorAnswered(i, how) \/ ReplayEnded(i, how) \/ ProofAnswered(i, how)
         \/ FetchedProof(i, how) \/ Verified(i, how)
=============================================================================
