----------------------------- MODULE NotaryCore -----------------------------
(***************************************************************************)
(* The notary pipeline of internal/service/notary.go and the two Capture   *)
(* handlers that drive it.  Every RPC is a goroutine of its own and every  *)
(* store call is one SQL statement in its own transaction, so the handlers *)
(* interleave between statements.  pc[r] names the statement request r     *)
(* runs next:                                                              *)
(*                                                                         *)
(*   RecordAction  NextSequence -> Last -> Append -> BySession -> Anchor   *)
(*   Notarize RPC                  Last -> Append -> BySession -> Anchor   *)
(*   EndSession    End -> BySession -> Anchor                              *)
(*                                                                         *)
(* The log is the events table in commit order.  What one statement reads  *)
(* is a prefix of it, so a result kept in a local variable is the length   *)
(* of the prefix (snapshot) or a position in it (prev).  SHA-256 is taken  *)
(* as injective: a hash is represented by what it is the hash of.          *)
(***************************************************************************)
EXTENDS Integers, Sequences, FiniteSets

CONSTANTS
  Sessions,         \* sessions that BeginSession created
  Requests,         \* RPCs; each also stands for the random event id it draws
  ClientSequences,  \* sequence numbers callers of the Notarize RPC put in events
  MaxInFlight,      \* bound: RPCs on one session that may overlap
  MaxFaults,        \* bound: failed statements, cancelled RPCs, server crashes
  LastMayFail       \* whether a failing Last statement is among the faults

ASSUME NotaryAssumption ==
  /\ Sessions # {}
  /\ ClientSequences \subseteq Int
  /\ MaxInFlight \in Nat
  /\ MaxFaults \in Nat
  /\ LastMayFail \in BOOLEAN

VARIABLES
  eventCount,  \* sessions.event_count
  ended,       \* sessions whose ended_at is set
  log,         \* the events table, in commit order
  anchors,     \* the anchors table: the log prefix whose root is stored
  pc,          \* the statement each request runs next
  kind,        \* the RPC each request is
  draft,       \* the ActionEvent each request holds
  snapshot,    \* the prefix each request's BySession returned
  faults       \* faults so far

store == <<eventCount, ended, log, anchors>>
vars == <<store, pc, kind, draft, snapshot, faults>>

Kinds == {"none", "record", "notarize", "end"}
Statements == {"NextSequence", "Last", "Append", "End", "BySession", "Anchor"}
Outcomes == {"ok", "failed"}

NoAnchor == -1

(***************************************************************************)
(* An ActionEvent; project, surface, payload, hashes and grant play no     *)
(* part here and are fixed by the event's id.                              *)
(***************************************************************************)
Event == [eventId : Requests, sessionId : Sessions, sequence : Int, prev : Nat]

Active == {r \in Requests : pc[r] \in Statements}
InFlight(s) == {r \in Active : draft[r].sessionId = s}

(***************************************************************************)
(* The rows of a session, and whether i is the position of the one that    *)
(* ORDER BY sequence DESC LIMIT 1 gives: 0 when there is none.             *)
(***************************************************************************)
SessionRows(s) == {i \in DOMAIN log : log[i].sessionId = s}
(***************************************************************************)
(* Wrong variant: ORDER BY sequence without DESC.                          *)
(***************************************************************************)
FirstIsLast(i, s) ==
  LET rows == {j \in DOMAIN log : log[j].sessionId = s}
  IN  IF rows = {} THEN i = 0
      ELSE i \in rows /\ \A j \in rows : log[i].sequence <= log[j].sequence

IsLast(i, s) ==
  IF SessionRows(s) = {}
    THEN i = 0
    ELSE /\ i \in SessionRows(s)
         /\ \A j \in SessionRows(s) : log[j].sequence <= log[i].sequence

(***************************************************************************)
(* PRIMARY KEY (event_id) and UNIQUE (session_id, sequence).               *)
(***************************************************************************)
Conflicts(e) ==
  \E i \in DOMAIN log :
    \/ log[i].eventId = e.eventId
    \/ log[i].sessionId = e.sessionId /\ log[i].sequence = e.sequence

Init ==
  /\ eventCount = [s \in Sessions |-> 0]
  /\ ended = {}
  /\ log = <<>>
  /\ anchors = [s \in Sessions |-> NoAnchor]
  /\ pc = [r \in Requests |-> "idle"]
  /\ kind = [r \in Requests |-> "none"]
  /\ draft = [r \in Requests |->
                [eventId |-> r, sessionId |-> CHOOSE s \in Sessions : TRUE,
                 sequence |-> 0, prev |-> 0]]
  /\ snapshot = [r \in Requests |-> 0]
  /\ faults = 0

(***************************************************************************)
(* A new RPC of kind k on session s arrives and makes st its first         *)
(* statement.                                                              *)
(***************************************************************************)
Arrive(r, k, s, st) ==
  /\ pc[r] = "idle"
  /\ Cardinality(InFlight(s)) < MaxInFlight
  /\ pc' = [pc EXCEPT ![r] = st]
  /\ kind' = [kind EXCEPT ![r] = k]
  /\ UNCHANGED <<store, snapshot, faults>>

(***************************************************************************)
(* A RecordAction that passed the authority checks (module Capture has     *)
(* them).  Nothing in it looks at the session's ended_at.                  *)
(***************************************************************************)
RecordAction(r, s) ==
  /\ Arrive(r, "record", s, "NextSequence")
  /\ draft' = [draft EXCEPT ![r].sessionId = s]

(***************************************************************************)
(* The Notarize RPC takes the whole event from its caller: its sequence,   *)
(* and an event id that is new or, on a retry, the one of an earlier call. *)
(***************************************************************************)
Notarize(r, s, n) ==
  /\ Arrive(r, "notarize", s, "Last")
  /\ \E q \in Requests :
       /\ \/ q = r
          \/ /\ kind[q] = "notarize"
             /\ draft[q].sessionId = s
             /\ draft[q].sequence = n
       /\ draft' = [draft EXCEPT ![r] = [eventId |-> draft[q].eventId,
                                         sessionId |-> s, sequence |-> n,
                                         prev |-> 0]]

EndSession(r, s) ==
  /\ Arrive(r, "end", s, "End")
  /\ draft' = [draft EXCEPT ![r].sessionId = s]

(***************************************************************************)
(* Wrong variant: the next number is read off the events on record.        *)
(***************************************************************************)
SequenceFromLog(r) ==
  LET s == draft[r].sessionId
  IN  /\ pc[r] = "NextSequence"
      /\ eventCount' = [eventCount EXCEPT ![s] = @ + 1]
      /\ draft' = [draft EXCEPT ![r].sequence = Cardinality(SessionRows(s)) + 1]
      /\ pc' = [pc EXCEPT ![r] = "Last"]
      /\ UNCHANGED <<ended, log, anchors, kind, snapshot, faults>>

(***************************************************************************)
(* Wrong variant: the count before the update is returned.                 *)
(***************************************************************************)
SequenceFromZero(r) ==
  LET s == draft[r].sessionId
  IN  /\ pc[r] = "NextSequence"
      /\ eventCount' = [eventCount EXCEPT ![s] = @ + 1]
      /\ draft' = [draft EXCEPT ![r].sequence = eventCount[s]]
      /\ pc' = [pc EXCEPT ![r] = "Last"]
      /\ UNCHANGED <<ended, log, anchors, kind, snapshot, faults>>

(***************************************************************************)
(* UPDATE sessions SET event_count = event_count + 1 ... RETURNING.        *)
(***************************************************************************)
NextSequence(r) ==
  LET s == draft[r].sessionId
  IN  /\ pc[r] = "NextSequence"
      /\ eventCount' = [eventCount EXCEPT ![s] = @ + 1]
      /\ draft' = [draft EXCEPT ![r].sequence = eventCount[s] + 1]
      /\ pc' = [pc EXCEPT ![r] = "Last"]
      /\ UNCHANGED <<ended, log, anchors, kind, snapshot, faults>>

(***************************************************************************)
(* Read the session's last event and seal the draft over it.  Append is a  *)
(* later statement: the event read may no longer be the last one by then.  *)
(***************************************************************************)
Last(r) ==
  /\ pc[r] = "Last"
  /\ \E i \in 0 .. Len(log) :
       /\ IsLast(i, draft[r].sessionId)
       /\ draft' = [draft EXCEPT ![r].prev = i]
  /\ pc' = [pc EXCEPT ![r] = "Append"]
  /\ UNCHANGED <<store, kind, snapshot, faults>>

(***************************************************************************)
(* Any error of Last, not only "not found", is taken for an empty session. *)
(***************************************************************************)
LastFails(r) ==
  /\ LastMayFail
  /\ pc[r] = "Last"
  /\ faults < MaxFaults
  /\ faults' = faults + 1
  /\ draft' = [draft EXCEPT ![r].prev = 0]
  /\ pc' = [pc EXCEPT ![r] = "Append"]
  /\ UNCHANGED <<store, kind, snapshot>>

(***************************************************************************)
(* Wrong variant: success is answered without a checkpoint.                *)
(***************************************************************************)
AppendWithoutCheckpoint(r) ==
  /\ pc[r] = "Append"
  /\ ~ Conflicts(draft[r])
  /\ log' = Append(log, draft[r])
  /\ pc' = [pc EXCEPT ![r] = "ok"]
  /\ UNCHANGED <<eventCount, ended, anchors, kind, draft, snapshot, faults>>

(***************************************************************************)
(* Wrong variant: the events table without its keys.                       *)
(***************************************************************************)
AppendUnkeyed(r) ==
  /\ pc[r] = "Append"
  /\ log' = Append(log, draft[r])
  /\ pc' = [pc EXCEPT ![r] = "BySession"]
  /\ UNCHANGED <<eventCount, ended, anchors, kind, draft, snapshot, faults>>

AppendEvent(r) ==
  /\ pc[r] = "Append"
  /\ ~ Conflicts(draft[r])
  /\ log' = Append(log, draft[r])
  /\ pc' = [pc EXCEPT ![r] = "BySession"]
  /\ UNCHANGED <<eventCount, ended, anchors, kind, draft, snapshot, faults>>

(***************************************************************************)
(* Wrong variant: a conflict is taken for an earlier success.              *)
(***************************************************************************)
ConflictIsSuccess(r) ==
  /\ pc[r] = "Append"
  /\ Conflicts(draft[r])
  /\ pc' = [pc EXCEPT ![r] = "BySession"]
  /\ UNCHANGED <<store, kind, draft, snapshot, faults>>

(***************************************************************************)
(* Wrong variant: a conflict is retried with the same number.              *)
(***************************************************************************)
ConflictIsRetried(r) ==
  /\ pc[r] = "Append"
  /\ Conflicts(draft[r])
  /\ pc' = [pc EXCEPT ![r] = "Last"]
  /\ UNCHANGED <<store, kind, draft, snapshot, faults>>

AppendConflict(r) ==
  /\ pc[r] = "Append"
  /\ Conflicts(draft[r])
  /\ pc' = [pc EXCEPT ![r] = "failed"]
  /\ UNCHANGED <<store, kind, draft, snapshot, faults>>

(***************************************************************************)
(* sessions.End is unconditional: ending an ended session sets a new time. *)
(***************************************************************************)
End(r) ==
  /\ pc[r] = "End"
  /\ ended' = ended \union {draft[r].sessionId}
  /\ pc' = [pc EXCEPT ![r] = "BySession"]
  /\ UNCHANGED <<eventCount, log, anchors, kind, draft, snapshot, faults>>

(***************************************************************************)
(* Wrong variant: the leaves end where Last had read.                      *)
(***************************************************************************)
BySessionUpToLast(r) ==
  /\ pc[r] = "BySession"
  /\ snapshot' = [snapshot EXCEPT ![r] = draft[r].prev]
  /\ pc' = [pc EXCEPT ![r] = "Anchor"]
  /\ UNCHANGED <<store, kind, draft, faults>>

(***************************************************************************)
(* Checkpoint reads the session's events, computes their Merkle root, and  *)
(* upserts it: two statements, so another checkpoint can come between.     *)
(***************************************************************************)
BySession(r) ==
  /\ pc[r] = "BySession"
  /\ snapshot' = [snapshot EXCEPT ![r] = Len(log)]
  /\ pc' = [pc EXCEPT ![r] = "Anchor"]
  /\ UNCHANGED <<store, kind, draft, faults>>

(***************************************************************************)
(* Wrong variant: the root of one leaf too many.                           *)
(***************************************************************************)
AnchorOffByOne(r) ==
  /\ pc[r] = "Anchor"
  /\ anchors' = [anchors EXCEPT ![draft[r].sessionId] = snapshot[r] + 1]
  /\ pc' = [pc EXCEPT ![r] = "ok"]
  /\ UNCHANGED <<eventCount, ended, log, kind, draft, snapshot, faults>>

(***************************************************************************)
(* Wrong variant: ON CONFLICT DO NOTHING.                                  *)
(***************************************************************************)
AnchorOnce(r) ==
  /\ pc[r] = "Anchor"
  /\ anchors' = [anchors EXCEPT ![draft[r].sessionId] =
                   IF @ = NoAnchor THEN snapshot[r] ELSE @]
  /\ pc' = [pc EXCEPT ![r] = "ok"]
  /\ UNCHANGED <<eventCount, ended, log, kind, draft, snapshot, faults>>

UpsertAnchor(r) ==
  /\ pc[r] = "Anchor"
  /\ anchors' = [anchors EXCEPT ![draft[r].sessionId] = snapshot[r]]
  /\ pc' = [pc EXCEPT ![r] = "ok"]
  /\ UNCHANGED <<eventCount, ended, log, kind, draft, snapshot, faults>>

(***************************************************************************)
(* The statement returns an error or the RPC's context is cancelled: the   *)
(* handler returns the error and undoes nothing.                           *)
(***************************************************************************)
RequestFails(r) ==
  /\ pc[r] \in Statements
  /\ faults < MaxFaults
  /\ faults' = faults + 1
  /\ pc' = [pc EXCEPT ![r] = "failed"]
  /\ UNCHANGED <<store, kind, draft, snapshot>>

(***************************************************************************)
(* The server stops: the database keeps its rows, every RPC is lost.       *)
(***************************************************************************)
Crash ==
  /\ Active # {}
  /\ faults < MaxFaults
  /\ faults' = faults + 1
  /\ pc' = [r \in Requests |-> IF r \in Active THEN "failed" ELSE pc[r]]
  /\ UNCHANGED <<store, kind, draft, snapshot>>

Arrival(r) ==
  \E s \in Sessions :
    \/ RecordAction(r, s)
    \/ \E n \in ClientSequences : Notarize(r, s, n)
    \/ EndSession(r, s)

Step(r) ==
  \/ NextSequence(r)
  \/ Last(r)
  \/ AppendEvent(r)
  \/ AppendConflict(r)
  \/ End(r)
  \/ BySession(r)
  \/ UpsertAnchor(r)

Fault(r) == LastFails(r) \/ RequestFails(r)

Next ==
  \/ \E r \in Requests : Arrival(r) \/ Step(r) \/ Fault(r)
  \/ Crash

Spec == Init /\ [][Next]_vars

(***************************************************************************)
(* A handler that is running runs its next statement: goroutines are       *)
(* scheduled and Postgres answers.  No RPC has to arrive, no fault has to  *)
(* happen.                                                                 *)
(***************************************************************************)
Fairness == \A r \in Requests : WF_vars(Step(r))
FairSpec == Spec /\ Fairness
-----------------------------------------------------------------------------

(***************************************************************************)
(* Every variable keeps to its type; no local variable of a handler and no *)
(* anchor is ahead of the log.                                             *)
(***************************************************************************)
TypeOK ==
  /\ eventCount \in [Sessions -> Nat]
  /\ ended \subseteq Sessions
  /\ log \in Seq(Event)
  /\ anchors \in [Sessions -> NoAnchor .. Len(log)]
  /\ pc \in [Requests -> Statements \union Outcomes \union {"idle"}]
  /\ kind \in [Requests -> Kinds]
  /\ draft \in [Requests -> Event]
  /\ snapshot \in [Requests -> 0 .. Len(log)]
  /\ faults \in 0 .. MaxFaults

(***************************************************************************)
(* A client that was told its action is sealed (RecordAction and Notarize  *)
(* return the event only when the checkpoint went through) got the very    *)
(* event that is on the log, and the root its RPC anchored covers it.      *)
(***************************************************************************)
AckedOnRecord ==
  \A r \in Requests :
    pc[r] = "ok" /\ kind[r] # "end" =>
      \E i \in 1 .. snapshot[r] : log[i] = draft[r]

(***************************************************************************)
(* NextSequence hands every RecordAction a number of its own, even between *)
(* concurrent RPCs and after failures, so that as long as callers bring no *)
(* numbers through the Notarize RPC no RecordAction runs into the UNIQUE   *)
(* constraint of the events table.                                         *)
(***************************************************************************)
RecordNeverConflicts ==
  ClientSequences = {} =>
    \A r \in Requests : pc[r] = "Append" => ~ Conflicts(draft[r])

(***************************************************************************)
(* A session with no RPC in flight and no failure so far has the sequence  *)
(* numbers 1 .. event_count on record, each once: what GetInclusionProof   *)
(* relies on when it takes sequence - 1 as the position among the leaves.  *)
(***************************************************************************)
GapFreeAtRest ==
  ClientSequences = {} /\ faults = 0 =>
    \A s \in Sessions :
      InFlight(s) = {} =>
        {log[i].sequence : i \in SessionRows(s)} = 1 .. eventCount[s]

(***************************************************************************)
(* The events of a session form one chain in commit order: each links to   *)
(* the one recorded just before it and has a greater sequence number.      *)
(* Seal makes it so when a session's RPCs do not overlap and Last does not *)
(* fail, whatever else fails.                                              *)
(***************************************************************************)
ChainLinked ==
  \A s \in Sessions : \A i \in SessionRows(s) :
    LET before == {j \in SessionRows(s) : j < i}
    IN  /\ log[i].prev = 0 <=> before = {}
        /\ \A j \in before : /\ j <= log[i].prev
                             /\ log[j].sequence < log[i].sequence

(***************************************************************************)
(* A session with no RPC in flight and no failure so far has its last      *)
(* event under its anchored root: no checkpoint is missing or out of date. *)
(***************************************************************************)
AnchorCurrentAtRest ==
  faults = 0 =>
    \A s \in Sessions :
      InFlight(s) = {} => \A i \in SessionRows(s) : i <= anchors[s]

(***************************************************************************)
(* The inductive invariant behind AckedOnRecord, RecordNeverConflicts,     *)
(* GapFreeAtRest and the refinement.  A RecordAction holds its number from *)
(* NextSequence on and has it on record once Append is done.               *)
(***************************************************************************)
Numbered == {"Last", "Append"}
Unrecorded == {"idle", "NextSequence"} \union Numbered

LinkInv ==
  \A r \in Requests :
    pc[r] = "Append" /\ draft[r].prev # 0 =>
      draft[r].prev \in SessionRows(draft[r].sessionId)

PersistInv ==
  \A r \in Requests :
    /\ pc[r] = "End" => kind[r] = "end"
    /\ pc[r] = "BySession" /\ kind[r] # "end" =>
         \E i \in DOMAIN log : log[i] = draft[r]
    /\ pc[r] \in {"Anchor", "ok"} /\ kind[r] # "end" =>
         \E i \in 1 .. snapshot[r] : log[i] = draft[r]

IdInv ==
  \A r \in Requests :
    /\ draft[r].eventId = r
    /\ pc[r] \in Unrecorded => \A i \in DOMAIN log : log[i].eventId # r

Held(s) == {r \in Requests : pc[r] \in Numbered /\ draft[r].sessionId = s}

OwnNumber(r) ==
  LET s == draft[r].sessionId
  IN  /\ draft[r].sequence \in 1 .. eventCount[s]
      /\ \A i \in SessionRows(s) : log[i].sequence # draft[r].sequence
      /\ \A q \in Held(s) \ {r} : draft[q].sequence # draft[r].sequence

SequenceInv ==
  /\ \A i \in DOMAIN log : log[i].sequence \in 1 .. eventCount[log[i].sessionId]
  /\ \A r \in Requests : pc[r] \in Numbered => OwnNumber(r)

GapInv ==
  faults = 0 =>
    \A s \in Sessions : \A n \in 1 .. eventCount[s] :
      \/ \E i \in SessionRows(s) : log[i].sequence = n
      \/ \E r \in Held(s) : draft[r].sequence = n

Inv ==
  /\ LinkInv
  /\ PersistInv
  /\ ClientSequences = {} => IdInv /\ SequenceInv /\ GapInv

(***************************************************************************)
(* NotaryCore implements NotarizedLedger: interleaved, failing and crashed *)
(* RPCs never produce a log or an anchor that the ledger does not promise. *)
(***************************************************************************)
Ledger == INSTANCE NotarizedLedger
LedgerSpec == Ledger!Spec

(***************************************************************************)
(* Every RPC ends, in success or in an error; a conflicting Append and a   *)
(* crash included.                                                         *)
(***************************************************************************)
RequestsEnd ==
  \A r \in Requests : pc[r] \in Statements ~> pc[r] \in Outcomes

(***************************************************************************)
(* Without failures, whatever is on record when an RPC starts a checkpoint *)
(* is covered by an anchored root at some later time, however the          *)
(* checkpoints of other RPCs overlap with it.                              *)
(***************************************************************************)
CheckpointCoversRecord ==
  \A r \in Requests : \A i \in 1 .. Cardinality(Requests) :
    pc[r] = "BySession" /\ i \in SessionRows(draft[r].sessionId)
      ~> faults > 0 \/ anchors[draft[r].sessionId] >= i

(***************************************************************************)
(* What the documentation says of the log and NotaryCore does not keep.    *)
(***************************************************************************)

(***************************************************************************)
(* docs/architecture.md: "prev_hash links unbroken".  With no RPC in       *)
(* flight, every event but the first links to the one before it.           *)
(***************************************************************************)
PrevHashLinksUnbroken ==
  \A s \in Sessions :
    InFlight(s) = {} =>
      \A i, j \in SessionRows(s) :
        log[i].sequence = log[j].sequence + 1 => log[i].prev = j
=============================================================================
