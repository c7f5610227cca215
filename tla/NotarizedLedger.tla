--------------------------- MODULE NotarizedLedger ---------------------------
(***************************************************************************)
(* What the notarized ledger promises an auditor, with no word about how   *)
(* the server produces it.  The ledger is one log of sealed events, in the *)
(* order in which they were committed, and one anchor per session.  A      *)
(* sealed event is never changed or taken away, its identifier and its     *)
(* place in its session are its own, and its prev_hash commits to an event *)
(* of the same session that was already on record.  An anchor always       *)
(* commits to a state the log has really been in.                          *)
(*                                                                         *)
(* NotaryCore implements this specification.                               *)
(***************************************************************************)
EXTENDS Integers, Sequences

CONSTANT Sessions

VARIABLES
  log,     \* the sealed events, in commit order
  anchors  \* per session, how much of the log its anchored root commits to

vars == <<log, anchors>>

(***************************************************************************)
(* A session without an anchor row.                                        *)
(***************************************************************************)
NoAnchor == -1

(***************************************************************************)
(* prev is the position in the log of the event that prev_hash commits to, *)
(* or 0 for the all-zero hash of an event without a predecessor.           *)
(***************************************************************************)
LinksBack(e) ==
  \/ e.prev = 0
  \/ e.prev \in DOMAIN log /\ log[e.prev].sessionId = e.sessionId

Fresh(e) ==
  \A i \in DOMAIN log :
    /\ log[i].eventId # e.eventId
    /\ ~ /\ log[i].sessionId = e.sessionId
         /\ log[i].sequence = e.sequence

Init ==
  /\ log = <<>>
  /\ anchors = [s \in Sessions |-> NoAnchor]

Record ==
  /\ Len(log') = Len(log) + 1
  /\ LET e == log'[Len(log) + 1]
     IN  /\ Fresh(e)
         /\ LinksBack(e)
         /\ log' = Append(log, e)
  /\ UNCHANGED anchors

Anchor(s) ==
  /\ \E n \in 0 .. Len(log) : anchors' = [anchors EXCEPT ![s] = n]
  /\ UNCHANGED log

Next == Record \/ \E s \in Sessions : Anchor(s)

Spec == Init /\ [][Next]_vars
=============================================================================
