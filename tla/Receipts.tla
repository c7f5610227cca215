------------------------------ MODULE Receipts ------------------------------
(***************************************************************************)
(* Receipts over the notarized log: GetInclusionProof of                   *)
(* internal/service/ledger.go, which reads the event, the session's events *)
(* and the anchor in three statements while writers go on, and the checks  *)
(* of internal/receipt/receipt.go and internal/service/verify.go on what   *)
(* it returned.  The writers are NotaryCore's; the tree is Merkle's.       *)
(*                                                                         *)
(* The content hash of the event at position i of the log is represented   *)
(* by i.                                                                   *)
(***************************************************************************)
EXTENDS NotaryCore, Merkle

CONSTANT AnchorMayFail  \* whether the anchor read may fail; the error is ignored

VARIABLES
  reader,  \* the statement GetInclusionProof runs next, or its outcome
  proof    \* the proof it builds: the event's position in the log, the prefix
           \* BySession read, the prefix under the anchored root that was read

allVars == <<vars, reader, proof>>

(***************************************************************************)
(* The leaves of session s among the first n events, ORDER BY sequence.    *)
(***************************************************************************)
RowsBelow(s, n) == {i \in SessionRows(s) : i <= n}

Leaves(s, n) ==
  LET rows == RowsBelow(s, n)
  IN  CHOOSE list \in [1 .. Cardinality(rows) -> rows] :
        \A a, b \in DOMAIN list :
          a < b => log[list[a]].sequence < log[list[b]].sequence

\* Wrong variant: the sequence number itself.
SequenceIndex(i) == log[i].sequence

Index(i) == log[i].sequence - 1

RInit ==
  /\ Init
  /\ reader = "idle"
  /\ proof = [event |-> 0, leaves |-> 0, anchor |-> NoAnchor]

GetEvent(i) ==
  /\ reader \in {"idle", "done", "error"}
  /\ proof' = [event |-> i, leaves |-> 0, anchor |-> NoAnchor]
  /\ reader' = "BySession"
  /\ UNCHANGED vars

(***************************************************************************)
(* The leaf's index is taken from the event's sequence number; an index    *)
(* outside the leaves is an Internal error.                                *)
(***************************************************************************)
GetLeaves ==
  /\ reader = "BySession"
  /\ proof' = [proof EXCEPT !.leaves = Len(log)]
  /\ LET leaves == Leaves(log[proof.event].sessionId, Len(log))
     IN  reader' = IF HasPath(leaves, Index(proof.event))
                     THEN "Anchor" ELSE "error"
  /\ UNCHANGED vars

GetAnchor ==
  /\ reader = "Anchor"
  /\ \/ proof' = [proof EXCEPT !.anchor = anchors[log[proof.event].sessionId]]
     \/ AnchorMayFail /\ proof' = proof
  /\ reader' = "done"
  /\ UNCHANGED vars

GetInclusionProof ==
  (\E i \in DOMAIN log : GetEvent(i)) \/ GetLeaves \/ GetAnchor

RNext == (Next /\ UNCHANGED <<reader, proof>>) \/ GetInclusionProof

RSpec == RInit /\ [][RNext]_allVars

(***************************************************************************)
(* The checks of a receipt.  The content hash and the signature are those  *)
(* of the sealed event, which the log never changes.                       *)
(***************************************************************************)
MerkleRoot(p) == Root(Leaves(log[p.event].sessionId, p.leaves))

Included(p) ==
  LET leaves == Leaves(log[p.event].sessionId, p.leaves)
      index == Index(p.event)
  IN  /\ HasPath(leaves, index)
      /\ Verify(p.event, Path(leaves, index), MerkleRoot(p), index)

(***************************************************************************)
(* Wrong variant: any anchor will do.                                      *)
(***************************************************************************)
AnyAnchor(p) == p.anchor # NoAnchor

Anchored(p) ==
  /\ p.anchor # NoAnchor
  /\ Root(Leaves(log[p.event].sessionId, p.anchor)) = MerkleRoot(p)

Verdict(p) == Included(p) /\ Anchored(p)
-----------------------------------------------------------------------------
(***************************************************************************)
(* The proof a client gets verifies inclusion exactly when every smaller   *)
(* sequence number was on record when the leaves were read: a number that  *)
(* is missing, for good or because its RPC is still in flight, makes the   *)
(* index point at another event's leaf or past the last one.               *)
(***************************************************************************)
InclusionIffNoGapBelow ==
  reader \in {"Anchor", "done", "error"} =>
    LET e == log[proof.event]
        onRecord == {log[i].sequence : i \in RowsBelow(e.sessionId, proof.leaves)}
    IN  Included(proof) <=> 1 .. e.sequence \subseteq onRecord

(***************************************************************************)
(* A receipt with a good verdict shows an anchor that covers its event: a  *)
(* checkpoint read the event and committed to it, and to nothing that is   *)
(* not on record.  No interleaving of the three reads with writers, and no *)
(* stale anchor, produces a good verdict for an event no anchor covers.    *)
(***************************************************************************)
VerdictMeansAnchored ==
  reader = "done" /\ Verdict(proof) => proof.event <= proof.anchor

(***************************************************************************)
(* Receipts of a session at rest verify: when its RPCs never overlapped    *)
(* and none failed, a proof fetched for any of its events while no writer  *)
(* runs has the event included and its root anchored.                      *)
(***************************************************************************)
ReceiptsVerifyAtRest ==
  faults = 0 =>
    \A s \in Sessions :
      InFlight(s) = {} =>
        \A i \in SessionRows(s) :
          Verdict([event |-> i, leaves |-> Len(log), anchor |-> anchors[s]])

(***************************************************************************)
(* ledger.proto calls GetInclusionProof "Build an offline-verifiable       *)
(* inclusion proof": with no writer in flight, an event on record has one. *)
(***************************************************************************)
EveryEventHasProof ==
  reader = "error" => InFlight(log[proof.event].sessionId) # {}
=============================================================================
