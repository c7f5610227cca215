-------------------------- MODULE NotaryCoreProofs --------------------------
(***************************************************************************)
(* Theorems about NotaryCore for any sessions, any number of overlapping   *)
(* requests and any number of faults.                                      *)
(***************************************************************************)
EXTENDS NotaryCore, SequenceTheorems, FiniteSetTheorems, TLAPS

(***************************************************************************)
(* What appending does to a log.                                           *)
(***************************************************************************)
LEMMA AppendLemma ==
  ASSUME NEW S, NEW q \in Seq(S), NEW e \in S
  PROVE  /\ Append(q, e) \in Seq(S)
         /\ Len(Append(q, e)) = Len(q) + 1
         /\ DOMAIN Append(q, e) = 1 .. Len(q) + 1
         /\ \A i \in 1 .. Len(q) : Append(q, e)[i] = q[i]
         /\ Append(q, e)[Len(q) + 1] = e
  OBVIOUS

(***************************************************************************)
(* Filling in one field of the draft a request holds.                      *)
(***************************************************************************)
LEMMA DraftLemma ==
  ASSUME NEW d \in [Requests -> Event], NEW r \in Requests, NEW s \in Sessions,
         NEW n \in Int, NEW p \in Nat
  PROVE  /\ [d EXCEPT ![r].sessionId = s] \in [Requests -> Event]
         /\ [d EXCEPT ![r].sequence = n] \in [Requests -> Event]
         /\ [d EXCEPT ![r].prev = p] \in [Requests -> Event]
  BY DEF Event

-----------------------------------------------------------------------------
(***************************************************************************)
(* Type correctness.                                                       *)
(***************************************************************************)
LEMMA TypeInit == Init => TypeOK
  <1> SUFFICES ASSUME Init PROVE TypeOK
    OBVIOUS
  <1> USE NotaryAssumption DEF Init, Event, NoAnchor, Kinds, Statements, Outcomes
  <1>1. (CHOOSE s \in Sessions : TRUE) \in Sessions
    OBVIOUS
  <1>2. log \in Seq(Event) /\ Len(log) = 0
    OBVIOUS
  <1>3. draft \in [Requests -> Event]
    BY <1>1
  <1>. QED
    BY <1>2, <1>3 DEF TypeOK

LEMMA TypeNext == TypeOK /\ [Next]_vars => TypeOK'
  <1> SUFFICES ASSUME TypeOK, [Next]_vars PROVE TypeOK'
    OBVIOUS
  <1> USE NotaryAssumption DEF TypeOK, Event, Statements, Outcomes, Kinds, NoAnchor,
                               store
  <1>0. ASSUME NEW r \in Requests, NEW k \in Kinds, NEW s \in Sessions,
               NEW st \in Statements, Arrive(r, k, s, st),
               draft' \in [Requests -> Event]
        PROVE  TypeOK'
    BY <1>0 DEF Arrive
  <1>1. ASSUME NEW r \in Requests, NEW s \in Sessions, RecordAction(r, s)
        PROVE  TypeOK'
    <2>1. draft' \in [Requests -> Event]
      BY <1>1 DEF RecordAction
    <2>. QED
      BY <1>0, <1>1, <2>1 DEF RecordAction
  <1>2. ASSUME NEW r \in Requests, NEW s \in Sessions, NEW n \in ClientSequences,
               Notarize(r, s, n)
        PROVE  TypeOK'
    <2>1. PICK q \in Requests :
            draft' = [draft EXCEPT ![r] = [eventId |-> draft[q].eventId,
                                           sessionId |-> s, sequence |-> n,
                                           prev |-> 0]]
      BY <1>2 DEF Notarize
    <2>2. n \in Int /\ draft[q].eventId \in Requests
      OBVIOUS
    <2>3. draft' \in [Requests -> Event]
      BY <2>1, <2>2
    <2>. QED
      BY <1>0, <1>2, <2>3 DEF Notarize
  <1>3. ASSUME NEW r \in Requests, NEW s \in Sessions, EndSession(r, s)
        PROVE  TypeOK'
    <2>1. draft' \in [Requests -> Event]
      BY <1>3 DEF EndSession
    <2>. QED
      BY <1>0, <1>3, <2>1 DEF EndSession
  <1>4. ASSUME NEW r \in Requests, NextSequence(r) PROVE TypeOK'
    <2>1. eventCount[draft[r].sessionId] + 1 \in Int
      OBVIOUS
    <2>2. draft' \in [Requests -> Event]
      BY <1>4, <2>1, DraftLemma DEF NextSequence
    <2>3. /\ eventCount' \in [Sessions -> Nat]
          /\ pc' \in [Requests -> Statements \union Outcomes \union {"idle"}]
          /\ UNCHANGED <<ended, log, anchors, kind, snapshot, faults>>
      BY <1>4 DEF NextSequence
    <2>. QED
      BY <2>2, <2>3
  <1>5. ASSUME NEW r \in Requests, Last(r) PROVE TypeOK'
    <2>1. PICK i \in 0 .. Len(log) : draft' = [draft EXCEPT ![r].prev = i]
      BY <1>5 DEF Last
    <2>. i \in Nat
      OBVIOUS
    <2>2. draft' \in [Requests -> Event]
      BY <2>1, DraftLemma
    <2>3. /\ pc' \in [Requests -> Statements \union Outcomes \union {"idle"}]
          /\ UNCHANGED <<store, kind, snapshot, faults>>
      BY <1>5 DEF Last
    <2>. QED
      BY <2>2, <2>3
  <1>6. ASSUME NEW r \in Requests, AppendEvent(r) PROVE TypeOK'
    <2>1. log' \in Seq(Event) /\ Len(log') = Len(log) + 1
      BY <1>6, AppendLemma DEF AppendEvent
    <2>. QED
      BY <1>6, <2>1 DEF AppendEvent
  <1>7. ASSUME NEW r \in Requests, AppendConflict(r) PROVE TypeOK'
    BY <1>7 DEF AppendConflict
  <1>8. ASSUME NEW r \in Requests, End(r) PROVE TypeOK'
    BY <1>8 DEF End
  <1>9. ASSUME NEW r \in Requests, BySession(r) PROVE TypeOK'
    BY <1>9 DEF BySession
  <1>10. ASSUME NEW r \in Requests, UpsertAnchor(r) PROVE TypeOK'
    BY <1>10 DEF UpsertAnchor
  <1>11. ASSUME NEW r \in Requests, LastFails(r) PROVE TypeOK'
    <2>1. draft' \in [Requests -> Event]
      BY <1>11, DraftLemma DEF LastFails
    <2>2. /\ pc' \in [Requests -> Statements \union Outcomes \union {"idle"}]
          /\ faults' \in 0 .. MaxFaults
          /\ UNCHANGED <<store, kind, snapshot>>
      BY <1>11 DEF LastFails
    <2>. QED
      BY <2>1, <2>2
  <1>12. ASSUME NEW r \in Requests, RequestFails(r) PROVE TypeOK'
    BY <1>12 DEF RequestFails
  <1>13. CASE Crash
    BY <1>13 DEF Crash
  <1>14. CASE UNCHANGED vars
    BY <1>14 DEF vars
  <1>. QED
    BY <1>1, <1>2, <1>3, <1>4, <1>5, <1>6, <1>7, <1>8, <1>9, <1>10, <1>11, <1>12,
       <1>13, <1>14 DEF Next, Arrival, Step, Fault

(***************************************************************************)
(* Spec keeps every variable in its type: in particular no prefix a        *)
(* handler read and no prefix an anchor commits to is ahead of the log.    *)
(***************************************************************************)
THEOREM TypeCorrect == Spec => []TypeOK
  BY TypeInit, TypeNext, PTL DEF Spec

-----------------------------------------------------------------------------
(***************************************************************************)
(* A step appends at most one event and leaves the rest of the log alone.  *)
(***************************************************************************)
LEMMA LogGrows ==
  ASSUME TypeOK, [Next]_vars
  PROVE  /\ Len(log) <= Len(log')
         /\ \A i \in DOMAIN log : i \in DOMAIN log' /\ log'[i] = log[i]
  <1>1. CASE UNCHANGED log
    BY <1>1 DEF TypeOK
  <1>2. ASSUME NEW r \in Requests, AppendEvent(r)
        PROVE  /\ Len(log) <= Len(log')
               /\ \A i \in DOMAIN log : i \in DOMAIN log' /\ log'[i] = log[i]
    <2>1. log \in Seq(Event) /\ draft[r] \in Event /\ log' = Append(log, draft[r])
      BY <1>2 DEF AppendEvent, TypeOK
    <2>. QED
      BY <2>1, AppendLemma
  <1>. QED
    BY <1>1, <1>2 DEF Next, Arrival, Step, Fault, Crash, RecordAction, Notarize,
       EndSession, Arrive, NextSequence, Last, LastFails, AppendConflict, End,
       BySession, UpsertAnchor, RequestFails, store, vars

(***************************************************************************)
(* A step of one request leaves what the others hold alone.                *)
(***************************************************************************)
LEMMA OthersKeep ==
  ASSUME TypeOK, NEW r \in Requests, NEW p \in Requests, p # r,
         Arrival(r) \/ Step(r) \/ Fault(r)
  PROVE  /\ pc'[p] = pc[p]
         /\ kind'[p] = kind[p]
         /\ draft'[p] = draft[p]
         /\ snapshot'[p] = snapshot[p]
  <1> USE DEF TypeOK
  <1>1. ASSUME NEW s \in Sessions, RecordAction(r, s)
        PROVE  /\ pc'[p] = pc[p] /\ kind'[p] = kind[p]
               /\ draft'[p] = draft[p] /\ snapshot'[p] = snapshot[p]
    BY <1>1 DEF RecordAction, Arrive
  <1>2. ASSUME NEW s \in Sessions, NEW n \in ClientSequences, Notarize(r, s, n)
        PROVE  /\ pc'[p] = pc[p] /\ kind'[p] = kind[p]
               /\ draft'[p] = draft[p] /\ snapshot'[p] = snapshot[p]
    BY <1>2 DEF Notarize, Arrive
  <1>3. ASSUME NEW s \in Sessions, EndSession(r, s)
        PROVE  /\ pc'[p] = pc[p] /\ kind'[p] = kind[p]
               /\ draft'[p] = draft[p] /\ snapshot'[p] = snapshot[p]
    BY <1>3 DEF EndSession, Arrive
  <1>4. CASE Step(r)
    BY <1>4 DEF Step, NextSequence, Last, AppendEvent, AppendConflict, End,
                BySession, UpsertAnchor
  <1>5. CASE Fault(r)
    BY <1>5 DEF Fault, LastFails, RequestFails
  <1>. QED
    BY <1>1, <1>2, <1>3, <1>4, <1>5 DEF Arrival

-----------------------------------------------------------------------------
LEMMA InvInit == Init => Inv
  BY DEF Init, Inv, LinkInv, PersistInv, IdInv, SequenceInv, GapInv, Held,
         Numbered, Unrecorded, SessionRows

(***************************************************************************)
(* A draft about to be appended links into its own session: Last wrote the *)
(* link, and nothing on the log moves.                                     *)
(***************************************************************************)
LEMMA LinkNext == TypeOK /\ LinkInv /\ [Next]_vars => LinkInv'
  <1> SUFFICES ASSUME TypeOK, LinkInv, [Next]_vars,
                      NEW p \in Requests, pc'[p] = "Append", draft'[p].prev # 0
               PROVE  (draft[p].prev \in SessionRows(draft[p].sessionId))'
    BY DEF LinkInv
  <1>1. \A i, s : i \in SessionRows(s) => i \in SessionRows(s)'
    BY LogGrows DEF SessionRows
  <1>2. CASE pc[p] = "Append" /\ draft'[p] = draft[p]
    BY <1>1, <1>2 DEF LinkInv
  <1>3. ASSUME NEW r \in Requests, r # p, Arrival(r) \/ Step(r) \/ Fault(r)
        PROVE  pc[p] = "Append" /\ draft'[p] = draft[p]
    BY <1>3, OthersKeep
  <1>4. CASE Last(p)
    <2>1. PICK i \in 0 .. Len(log) :
            /\ IsLast(i, draft[p].sessionId)
            /\ draft' = [draft EXCEPT ![p].prev = i]
      BY <1>4 DEF Last
    <2>2. draft'[p].prev = i /\ draft'[p].sessionId = draft[p].sessionId
      BY <2>1 DEF TypeOK, Event
    <2>3. i \in SessionRows(draft[p].sessionId)
      BY <2>1, <2>2 DEF IsLast
    <2>. QED
      BY <2>2, <2>3, <1>1
  <1>5. CASE LastFails(p)
    BY <1>5 DEF LastFails, TypeOK, Event
  <1>6. CASE Arrival(p) \/ Step(p) \/ Fault(p)
    <2>1. ASSUME ~ Last(p), ~ LastFails(p) PROVE FALSE
      BY <1>6, <2>1 DEF TypeOK, Arrival, Step, Fault, RecordAction, Notarize,
         EndSession, Arrive, NextSequence, AppendEvent, AppendConflict, End,
         BySession, UpsertAnchor, RequestFails
    <2>. QED
      BY <2>1, <1>4, <1>5
  <1>7. CASE Crash
    BY <1>7 DEF Crash, Active, Statements, TypeOK
  <1>8. CASE UNCHANGED vars
    BY <1>2, <1>8 DEF vars
  <1>. QED
    BY <1>2, <1>3, <1>6, <1>7, <1>8 DEF Next

(***************************************************************************)
(* From Append on, the event a RecordAction or Notarize holds is the row   *)
(* on the log, and from BySession on it is within the prefix it read.      *)
(***************************************************************************)
LEMMA PersistNext == TypeOK /\ PersistInv /\ [Next]_vars => PersistInv'
  <1> DEFINE P(p) == /\ pc[p] = "End" => kind[p] = "end"
                     /\ pc[p] = "BySession" /\ kind[p] # "end" =>
                          \E i \in DOMAIN log : log[i] = draft[p]
                     /\ pc[p] \in {"Anchor", "ok"} /\ kind[p] # "end" =>
                          \E i \in 1 .. snapshot[p] : log[i] = draft[p]
  <1> SUFFICES ASSUME TypeOK, PersistInv, [Next]_vars, NEW p \in Requests
               PROVE  P(p)'
    BY DEF PersistInv
  <1>0. P(p) /\ snapshot[p] \in 0 .. Len(log) /\ log \in Seq(Event)
    BY DEF PersistInv, TypeOK
  <1>1. ASSUME pc'[p] = pc[p] \/ pc'[p] = "failed", kind'[p] = kind[p],
               draft'[p] = draft[p], snapshot'[p] = snapshot[p]
        PROVE  P(p)'
    <2>1. \A i \in DOMAIN log : i \in DOMAIN log' /\ log'[i] = log[i]
      BY LogGrows
    <2>2. \A i \in 1 .. snapshot[p] : i \in DOMAIN log
      BY <1>0
    <2>. QED
      BY <1>0, <1>1, <2>1, <2>2
  <1>2. ASSUME NEW r \in Requests, r # p, Arrival(r) \/ Step(r) \/ Fault(r)
        PROVE  P(p)'
    BY <1>1, <1>2, OthersKeep
  <1>3. CASE Arrival(p) \/ NextSequence(p) \/ Last(p) \/ LastFails(p)
    <2>1. \/ pc'[p] \in {"NextSequence", "Last", "Append"}
          \/ pc'[p] = "End" /\ kind'[p] = "end"
      BY <1>3 DEF TypeOK, Arrival, RecordAction, Notarize, EndSession, Arrive,
                  NextSequence, Last, LastFails
    <2>. QED
      BY <2>1
  <1>4. CASE AppendEvent(p)
    <2>1. log \in Seq(Event) /\ draft[p] \in Event
      BY DEF TypeOK
    <2>2. /\ pc'[p] = "BySession" /\ draft'[p] = draft[p]
          /\ log' = Append(log, draft[p])
      BY <1>4 DEF AppendEvent, TypeOK
    <2>3. Len(log) + 1 \in DOMAIN log' /\ log'[Len(log) + 1] = draft[p]
      BY <2>1, <2>2, AppendLemma
    <2>. QED
      BY <2>2, <2>3
  <1>5. CASE End(p)
    BY <1>0, <1>5 DEF End, TypeOK
  <1>6. CASE BySession(p)
    <2>1. /\ pc[p] = "BySession" /\ pc'[p] = "Anchor" /\ snapshot'[p] = Len(log)
          /\ log' = log /\ kind' = kind /\ draft' = draft
      BY <1>6 DEF BySession, TypeOK, store
    <2>2. DOMAIN log = 1 .. Len(log)
      BY <1>0
    <2>. QED
      BY <1>0, <2>1, <2>2
  <1>7. CASE UpsertAnchor(p)
    BY <1>0, <1>7 DEF UpsertAnchor, TypeOK
  <1>8. CASE AppendConflict(p) \/ RequestFails(p)
    BY <1>1, <1>8 DEF AppendConflict, RequestFails, TypeOK
  <1>9. CASE Crash
    BY <1>1, <1>9 DEF Crash, Active, TypeOK
  <1>10. CASE UNCHANGED vars
    BY <1>1, <1>10 DEF vars
  <1>. QED
    BY <1>2, <1>3, <1>4, <1>5, <1>6, <1>7, <1>8, <1>9, <1>10 DEF Next, Step, Fault

-----------------------------------------------------------------------------
(***************************************************************************)
(* With callers bringing no sequence numbers of their own there is no      *)
(* Notarize step, and Append never finds its row taken.                    *)
(***************************************************************************)
LEMMA NoConflict ==
  ASSUME TypeOK, IdInv, SequenceInv, NEW r \in Requests, pc[r] = "Append"
  PROVE  ~ Conflicts(draft[r])
  BY DEF TypeOK, IdInv, SequenceInv, OwnNumber, Conflicts, Unrecorded, Numbered, SessionRows

(***************************************************************************)
(* Event ids are the requests' own, and on the log only after Append.      *)
(***************************************************************************)
LEMMA IdNext ==
  ASSUME ClientSequences = {}, TypeOK, IdInv, [Next]_vars
  PROVE  IdInv'
  <1> DEFINE P(p) == /\ draft[p].eventId = p
                     /\ pc[p] \in Unrecorded =>
                          \A i \in DOMAIN log : log[i].eventId # p
  <1> SUFFICES ASSUME NEW p \in Requests PROVE P(p)'
    BY DEF IdInv
  <1>0. P(p)
    BY DEF IdInv
  <1>1. ASSUME UNCHANGED log, draft'[p].eventId = draft[p].eventId,
               pc'[p] \in Unrecorded => pc[p] \in Unrecorded
        PROVE  P(p)'
    BY <1>0, <1>1
  <1>2. ASSUME NEW r \in Requests, AppendEvent(r) PROVE P(p)'
    <2>1. /\ log \in Seq(Event) /\ draft[r] \in Event /\ draft[r].eventId = r
          /\ log' = Append(log, draft[r]) /\ draft' = draft
          /\ pc[r] = "Append" /\ pc'[r] = "BySession"
          /\ p # r => pc'[p] = pc[p]
      BY <1>2 DEF AppendEvent, TypeOK, IdInv
    <2>2. /\ DOMAIN log' = 1 .. Len(log) + 1
          /\ \A i \in 1 .. Len(log) : log'[i] = log[i]
          /\ log'[Len(log) + 1] = draft[r]
      BY <2>1, AppendLemma
    <2>3. CASE p = r
      BY <1>0, <2>1, <2>3 DEF Unrecorded, Numbered
    <2>4. CASE p # r
      <3>1. ASSUME NEW i \in DOMAIN log', pc'[p] \in Unrecorded
            PROVE  log'[i].eventId # p
        <4>1. CASE i = Len(log) + 1
          BY <2>1, <2>2, <2>4, <4>1
        <4>2. CASE i \in 1 .. Len(log)
          BY <1>0, <2>1, <2>2, <2>4, <3>1, <4>2
        <4>. QED
          BY <2>1, <2>2, <4>1, <4>2
      <3>. QED
        BY <1>0, <2>1, <3>1
    <2>. QED
      BY <2>3, <2>4
  <1>3. ASSUME NEW r \in Requests, r # p, ~ AppendEvent(r),
               Arrival(r) \/ Step(r) \/ Fault(r)
        PROVE  P(p)'
    <2>1. UNCHANGED log
      BY <1>3 DEF Arrival, Step, Fault, RecordAction, Notarize, EndSession, Arrive,
         NextSequence, Last, LastFails, AppendConflict, End, BySession,
         UpsertAnchor, RequestFails, store
    <2>. QED
      BY <1>1, <1>3, <2>1, OthersKeep
  <1>4. CASE ~ AppendEvent(p) /\ (Arrival(p) \/ Step(p) \/ Fault(p))
    <2>1. /\ UNCHANGED log /\ draft'[p].eventId = draft[p].eventId
          /\ pc'[p] \in Unrecorded => pc[p] \in Unrecorded
      <3>1. ASSUME NEW s \in Sessions, RecordAction(p, s) \/ EndSession(p, s)
            PROVE  /\ UNCHANGED log /\ draft'[p].eventId = draft[p].eventId
                   /\ pc[p] \in Unrecorded
        BY <3>1 DEF RecordAction, EndSession, Arrive, store, TypeOK, Event, Unrecorded
      <3>2. CASE Step(p)
        BY <1>4, <3>2 DEF Step, NextSequence, Last, AppendConflict, End, BySession,
           UpsertAnchor, store, TypeOK, Event, Unrecorded, Numbered
      <3>3. CASE Fault(p)
        BY <3>3 DEF Fault, LastFails, RequestFails, store, TypeOK, Event, Unrecorded,
           Numbered
      <3>. QED
        BY <1>4, <3>1, <3>2, <3>3 DEF Arrival
    <2>. QED
      BY <1>1, <2>1
  <1>5. CASE Crash
    BY <1>1, <1>5 DEF Crash, TypeOK, store, Active, Unrecorded, Numbered
  <1>6. CASE UNCHANGED vars
    BY <1>1, <1>6 DEF vars, store
  <1>. QED
    BY <1>2, <1>3, <1>4, <1>5, <1>6 DEF Next

(***************************************************************************)
(* Steps other than NextSequence and Append hand out no number, record     *)
(* none, and lose one only with a fault.                                   *)
(***************************************************************************)
LEMMA NumbersKept ==
  ASSUME ClientSequences = {}, TypeOK, IdInv, SequenceInv, [Next]_vars,
         \A r \in Requests : ~ NextSequence(r) /\ ~ AppendEvent(r)
  PROVE  /\ UNCHANGED <<log, eventCount>>
         /\ \A p \in Requests :
              /\ pc'[p] \in Numbered =>
                   /\ pc[p] \in Numbered
                   /\ draft'[p].sessionId = draft[p].sessionId
                   /\ draft'[p].sequence = draft[p].sequence
              /\ pc[p] \in Numbered =>
                   \/ pc'[p] \in Numbered
                   \/ faults' # 0
  <1> DEFINE K(p) == /\ pc'[p] \in Numbered =>
                          /\ pc[p] \in Numbered
                          /\ draft'[p].sessionId = draft[p].sessionId
                          /\ draft'[p].sequence = draft[p].sequence
                     /\ pc[p] \in Numbered => pc'[p] \in Numbered \/ faults' # 0
  <1>1. UNCHANGED <<log, eventCount>>
    BY DEF Next, Arrival, Step, Fault, RecordAction, Notarize, EndSession, Arrive,
       Last, LastFails, AppendConflict, End, BySession, UpsertAnchor, RequestFails,
       Crash, store, vars
  <1>2. ASSUME NEW p \in Requests PROVE K(p)
    <2>1. ASSUME NEW r \in Requests, r # p, Arrival(r) \/ Step(r) \/ Fault(r)
          PROVE  K(p)
      BY <2>1, OthersKeep
    <2>2. ASSUME NEW s \in Sessions, RecordAction(p, s) \/ EndSession(p, s)
          PROVE  K(p)
      BY <2>2 DEF RecordAction, EndSession, Arrive, TypeOK, Numbered
    <2>3. CASE Last(p)
      BY <2>3 DEF Last, TypeOK, Event, Numbered
    <2>4. CASE LastFails(p)
      BY <2>4 DEF LastFails, TypeOK, Event, Numbered
    <2>5. CASE AppendConflict(p)
      BY <2>5, NoConflict DEF AppendConflict
    <2>6. CASE End(p) \/ BySession(p) \/ UpsertAnchor(p)
      BY <2>6 DEF End, BySession, UpsertAnchor, TypeOK, Numbered
    <2>7. CASE RequestFails(p)
      BY <2>7, NotaryAssumption DEF RequestFails, TypeOK, Numbered
    <2>8. CASE Crash
      BY <2>8, NotaryAssumption DEF Crash, Active, Statements, TypeOK, Numbered
    <2>9. CASE UNCHANGED vars
      BY <2>9 DEF vars
    <2>. QED
      BY <2>1, <2>2, <2>3, <2>4, <2>5, <2>6, <2>7, <2>8, <2>9
         DEF Next, Arrival, Step, Fault
  <1>. QED
    BY <1>1, <1>2

(***************************************************************************)
(* NextSequence gives r, and no other request, the number after the count. *)
(***************************************************************************)
LEMMA NextSequenceEffect ==
  ASSUME TypeOK, NEW r \in Requests, NextSequence(r)
  PROVE  /\ draft[r].sessionId \in Sessions
         /\ eventCount[draft[r].sessionId] \in Nat
         /\ pc[r] \notin Numbered /\ pc'[r] \in Numbered
         /\ draft'[r].sessionId = draft[r].sessionId
         /\ draft'[r].sequence = eventCount[draft[r].sessionId] + 1
         /\ eventCount'[draft[r].sessionId] = eventCount[draft[r].sessionId] + 1
         /\ \A s \in Sessions \ {draft[r].sessionId} :
              eventCount'[s] = eventCount[s]
         /\ \A p \in Requests \ {r} : draft'[p] = draft[p] /\ pc'[p] = pc[p]
         /\ UNCHANGED log
  BY DEF NextSequence, TypeOK, Event, Numbered

(***************************************************************************)
(* Append puts what r holds at the end of the log.                         *)
(***************************************************************************)
LEMMA AppendEventEffect ==
  ASSUME TypeOK, NEW r \in Requests, AppendEvent(r)
  PROVE  /\ Len(log) \in Nat /\ DOMAIN log = 1 .. Len(log)
         /\ draft[r] \in Event
         /\ DOMAIN log' = 1 .. Len(log) + 1
         /\ \A i \in 1 .. Len(log) : log'[i] = log[i]
         /\ log'[Len(log) + 1] = draft[r]
         /\ pc[r] \in Numbered /\ pc'[r] \notin Numbered
         /\ \A p \in Requests \ {r} : pc'[p] = pc[p]
         /\ UNCHANGED <<draft, eventCount>>
  <1>1. log \in Seq(Event) /\ draft[r] \in Event /\ log' = Append(log, draft[r])
    BY DEF AppendEvent, TypeOK
  <1>2. /\ Len(log) \in Nat /\ DOMAIN log = 1 .. Len(log)
        /\ DOMAIN log' = 1 .. Len(log) + 1
        /\ \A i \in 1 .. Len(log) : log'[i] = log[i]
        /\ log'[Len(log) + 1] = draft[r]
    BY <1>1, AppendLemma
  <1>. QED
    BY <1>1, <1>2 DEF AppendEvent, TypeOK, Numbered

(***************************************************************************)
(* Numbers on record and numbers held are distinct and within the count.   *)
(***************************************************************************)
LEMMA SequenceNext ==
  ASSUME ClientSequences = {}, TypeOK, IdInv, SequenceInv, [Next]_vars
  PROVE  SequenceInv'
  <1>0. /\ \A s \in Sessions : eventCount[s] \in Nat
        /\ \A p \in Requests : draft[p].sessionId \in Sessions
        /\ \A i \in DOMAIN log : log[i].sessionId \in Sessions
    <2>1. log \in Seq(Event) /\ draft \in [Requests -> Event]
      BY DEF TypeOK
    <2>2. \A i \in DOMAIN log : log[i] \in Event
      BY <2>1
    <2>. QED
      BY <2>1, <2>2 DEF TypeOK, Event
  <1>1. CASE \A r \in Requests : ~ NextSequence(r) /\ ~ AppendEvent(r)
    <2>1. ASSUME NEW p \in Requests, pc'[p] \in Numbered PROVE OwnNumber(p)'
      <3>1. /\ pc[p] \in Numbered /\ OwnNumber(p)
            /\ draft'[p].sessionId = draft[p].sessionId
            /\ draft'[p].sequence = draft[p].sequence
        BY <1>1, <2>1, NumbersKept DEF SequenceInv
      <3>2. \A q \in Held(draft[p].sessionId)' :
              /\ q \in Held(draft[p].sessionId)
              /\ draft'[q].sequence = draft[q].sequence
        BY <1>1, <3>1, NumbersKept DEF Held
      <3>. QED
        BY <1>1, <3>1, <3>2, NumbersKept DEF OwnNumber, SessionRows
    <2>. QED
      BY <1>1, <2>1, NumbersKept DEF SequenceInv
  <1>2. ASSUME NEW r \in Requests, NextSequence(r) PROVE SequenceInv'
    <2>1. ASSUME NEW i \in DOMAIN log'
          PROVE  log'[i].sequence \in 1 .. eventCount'[log'[i].sessionId]
      <3>1. log[i].sessionId \in Sessions /\ log' = log
        BY <1>0, <1>2, <2>1, NextSequenceEffect
      <3>. QED
        BY <1>0, <1>2, <2>1, <3>1, NextSequenceEffect DEF SequenceInv
    <2>2. OwnNumber(r)'
      <3>1. \A i \in SessionRows(draft[r].sessionId) :
              log[i].sequence \in 1 .. eventCount[draft[r].sessionId]
        BY DEF SequenceInv, SessionRows
      <3>2. \A q \in Held(draft[r].sessionId) :
              draft[q].sequence \in 1 .. eventCount[draft[r].sessionId]
        BY DEF SequenceInv, OwnNumber, Held
      <3>. QED
        BY <1>0, <1>2, <3>1, <3>2, NextSequenceEffect DEF OwnNumber, Held, SessionRows
    <2>3. ASSUME NEW p \in Requests \ {r}, pc'[p] \in Numbered PROVE OwnNumber(p)'
      <3>1. /\ draft'[p] = draft[p] /\ pc[p] \in Numbered /\ OwnNumber(p)
            /\ draft[p].sessionId \in Sessions
        BY <1>0, <1>2, <2>3, NextSequenceEffect DEF SequenceInv
      <3>2. draft[p].sequence \in 1 .. eventCount'[draft[p].sessionId]
        BY <1>0, <1>2, <3>1, NextSequenceEffect DEF OwnNumber
      <3>3. r \in Held(draft[p].sessionId)' => draft'[r].sequence # draft[p].sequence
        BY <1>0, <1>2, <3>1, NextSequenceEffect DEF OwnNumber, Held
      <3>4. \A q \in Held(draft[p].sessionId)' \ {r} :
              q \in Held(draft[p].sessionId) /\ draft'[q] = draft[q]
        BY <1>2, NextSequenceEffect DEF Held
      <3>. QED
        BY <1>2, <3>1, <3>2, <3>3, <3>4, NextSequenceEffect
           DEF OwnNumber, Held, SessionRows
    <2>. QED
      BY <2>1, <2>2, <2>3 DEF SequenceInv
  <1>3. ASSUME NEW r \in Requests, AppendEvent(r) PROVE SequenceInv'
    <2>1. ASSUME NEW i \in DOMAIN log'
          PROVE  log'[i].sequence \in 1 .. eventCount'[log'[i].sessionId]
      <3>1. CASE i \in 1 .. Len(log)
        BY <1>3, <3>1, AppendEventEffect DEF SequenceInv
      <3>2. CASE i = Len(log) + 1
        BY <1>3, <3>2, AppendEventEffect DEF SequenceInv, OwnNumber
      <3>. QED
        BY <1>3, <2>1, <3>1, <3>2, AppendEventEffect
    <2>2. ASSUME NEW p \in Requests, pc'[p] \in Numbered PROVE OwnNumber(p)'
      <3> DEFINE s == draft[p].sessionId
      <3>1. p # r /\ pc[p] \in Numbered /\ OwnNumber(p)
        BY <1>3, <2>2, AppendEventEffect DEF SequenceInv
      <3>2. ASSUME NEW i \in SessionRows(s)'
            PROVE  log'[i].sequence # draft[p].sequence
        <4>1. CASE i \in 1 .. Len(log)
          BY <1>3, <3>1, <3>2, <4>1, AppendEventEffect DEF OwnNumber, SessionRows
        <4>2. CASE i = Len(log) + 1
          <5>1. r \in Held(s) \ {p}
            BY <1>3, <3>1, <3>2, <4>2, AppendEventEffect DEF Held, SessionRows
          <5>. QED
            BY <1>3, <3>1, <4>2, <5>1, AppendEventEffect DEF OwnNumber
        <4>. QED
          BY <1>3, <3>2, <4>1, <4>2, AppendEventEffect DEF SessionRows
      <3>3. Held(s)' \subseteq Held(s)
        BY <1>3, AppendEventEffect DEF Held
      <3>. QED
        BY <1>3, <3>1, <3>2, <3>3, AppendEventEffect DEF OwnNumber, SessionRows, Held
    <2>. QED
      BY <2>1, <2>2 DEF SequenceInv
  <1>. QED
    BY <1>1, <1>2, <1>3

(***************************************************************************)
(* As long as nothing failed, each number given out is on record or held.  *)
(***************************************************************************)
LEMMA GapNext ==
  ASSUME ClientSequences = {}, TypeOK, IdInv, SequenceInv, GapInv, [Next]_vars
  PROVE  GapInv'
  <1> DEFINE G(s, n) == \/ \E i \in SessionRows(s) : log[i].sequence = n
                        \/ \E q \in Held(s) : draft[q].sequence = n
  <1> SUFFICES ASSUME faults' = 0, NEW s \in Sessions, NEW n \in 1 .. eventCount'[s]
               PROVE  G(s, n)'
    BY DEF GapInv
  <1>0. faults = 0
    BY NotaryAssumption DEF TypeOK, Next, Arrival, Step, Fault, RecordAction,
       Notarize, EndSession, Arrive, NextSequence, Last, LastFails, AppendEvent,
       AppendConflict, End, BySession, UpsertAnchor, RequestFails, Crash, vars
  <1>1. ASSUME n \in 1 .. eventCount[s] PROVE G(s, n)
    BY <1>0, <1>1 DEF GapInv
  <1>2. CASE \A r \in Requests : ~ NextSequence(r) /\ ~ AppendEvent(r)
    <2>1. /\ UNCHANGED <<log, eventCount>>
          /\ \A p \in Requests :
               /\ pc'[p] \in Numbered =>
                    /\ pc[p] \in Numbered
                    /\ draft'[p].sessionId = draft[p].sessionId
                    /\ draft'[p].sequence = draft[p].sequence
               /\ pc[p] \in Numbered => pc'[p] \in Numbered
      BY <1>2, NumbersKept
    <2>2. Held(s) \subseteq Held(s)'
          /\ \A q \in Held(s) : draft'[q].sequence = draft[q].sequence
      BY <2>1 DEF Held
    <2>. QED
      BY <1>1, <2>1, <2>2 DEF SessionRows
  <1>3. ASSUME NEW r \in Requests, NextSequence(r) PROVE G(s, n)'
    <2>1. \A p \in Held(s) : p \in Held(s)' /\ draft'[p] = draft[p]
      BY <1>3, NextSequenceEffect DEF Held
    <2>2. CASE n \in 1 .. eventCount[s]
      BY <1>1, <1>3, <2>1, <2>2, NextSequenceEffect DEF SessionRows
    <2>3. CASE n \notin 1 .. eventCount[s]
      <3>1. s = draft[r].sessionId /\ n = eventCount[s] + 1
        BY <1>3, <2>3, NextSequenceEffect
      <3>. QED
        BY <1>3, <3>1, NextSequenceEffect DEF Held
    <2>. QED
      BY <2>2, <2>3
  <1>4. ASSUME NEW r \in Requests, AppendEvent(r) PROVE G(s, n)'
    <2>1. \A i \in SessionRows(s) : i \in SessionRows(s)' /\ log'[i] = log[i]
      BY <1>4, AppendEventEffect DEF SessionRows
    <2>2. \A p \in Held(s) \ {r} : p \in Held(s)' /\ draft'[p] = draft[p]
      BY <1>4, AppendEventEffect DEF Held
    <2>3. r \in Held(s) =>
            Len(log) + 1 \in SessionRows(s)' /\ log'[Len(log) + 1] = draft[r]
      BY <1>4, AppendEventEffect DEF SessionRows, Held
    <2>4. n \in 1 .. eventCount[s]
      BY <1>4, AppendEventEffect
    <2>. QED
      BY <1>1, <2>1, <2>2, <2>3, <2>4
  <1>. QED
    BY <1>2, <1>3, <1>4

-----------------------------------------------------------------------------
LEMMA InvNext == TypeOK /\ Inv /\ [Next]_vars => Inv'
  <1> SUFFICES ASSUME TypeOK, Inv, [Next]_vars PROVE Inv'
    OBVIOUS
  <1>1. LinkInv' /\ PersistInv'
    BY LinkNext, PersistNext DEF Inv
  <1>2. ASSUME ClientSequences = {} PROVE IdInv' /\ SequenceInv' /\ GapInv'
    BY <1>2, IdNext, SequenceNext, GapNext DEF Inv
  <1>. QED
    BY <1>1, <1>2 DEF Inv

(***************************************************************************)
(* The inductive invariant holds throughout.                               *)
(***************************************************************************)
THEOREM Invariance == Spec => [](TypeOK /\ Inv)
  BY TypeInit, TypeNext, InvInit, InvNext, PTL DEF Spec

(***************************************************************************)
(* However many RPCs overlap and fail, a RecordAction or Notarize that     *)
(* returned its event left exactly that event on the log and anchored a    *)
(* root over it.                                                           *)
(***************************************************************************)
THEOREM AckedIsOnRecord == Spec => []AckedOnRecord
  <1>1. Inv => AckedOnRecord
    BY DEF Inv, PersistInv, AckedOnRecord
  <1>. QED
    BY Invariance, <1>1, PTL

(***************************************************************************)
(* However many RecordActions overlap and fail, none is refused by the     *)
(* UNIQUE constraint, as long as no caller brings a sequence number.       *)
(***************************************************************************)
THEOREM RecordAlwaysFits == Spec => []RecordNeverConflicts
  <1>1. TypeOK /\ Inv => RecordNeverConflicts
    BY NoConflict DEF Inv, RecordNeverConflicts
  <1>. QED
    BY Invariance, <1>1, PTL

(***************************************************************************)
(* Overlapping RecordActions that do not fail leave no gap behind: a       *)
(* session at rest has the numbers 1 .. event_count on record.             *)
(***************************************************************************)
THEOREM NoGapsAtRest == Spec => []GapFreeAtRest
  <1>1. ASSUME TypeOK, Inv, ClientSequences = {}, faults = 0,
               NEW s \in Sessions, InFlight(s) = {}
        PROVE  {log[i].sequence : i \in SessionRows(s)} = 1 .. eventCount[s]
    <2>1. SequenceInv /\ GapInv
      BY <1>1 DEF Inv
    <2>2. Held(s) = {}
      BY <1>1 DEF Held, InFlight, Active, Statements, Numbered
    <2>3. \A i \in SessionRows(s) : log[i].sequence \in 1 .. eventCount[s]
      BY <2>1 DEF SequenceInv, SessionRows
    <2>4. \A n \in 1 .. eventCount[s] : \E i \in SessionRows(s) : log[i].sequence = n
      BY <1>1, <2>1, <2>2 DEF GapInv
    <2>. QED
      BY <2>3, <2>4
  <1>2. TypeOK /\ Inv => GapFreeAtRest
    BY <1>1 DEF GapFreeAtRest
  <1>. QED
    BY Invariance, <1>2, PTL

-----------------------------------------------------------------------------
(***************************************************************************)
(* Every step of the pipeline is a step of the ledger or leaves it alone.  *)
(***************************************************************************)
LEMMA LedgerStep == TypeOK /\ LinkInv /\ [Next]_vars => [Ledger!Next]_(Ledger!vars)
  <1> SUFFICES ASSUME TypeOK, LinkInv, [Next]_vars
               PROVE  [Ledger!Next]_(Ledger!vars)
    OBVIOUS
  <1>1. ASSUME NEW r \in Requests, AppendEvent(r) PROVE Ledger!Record
    <2>1. /\ log' = Append(log, draft[r]) /\ anchors' = anchors
          /\ ~ Conflicts(draft[r]) /\ pc[r] = "Append"
      BY <1>1 DEF AppendEvent
    <2>2. log \in Seq(Event) /\ draft[r] \in Event
      BY DEF TypeOK
    <2>3. Len(log') = Len(log) + 1 /\ log'[Len(log) + 1] = draft[r]
      BY <2>1, <2>2, AppendLemma
    <2>4. Ledger!Fresh(draft[r])
      BY <2>1 DEF Ledger!Fresh, Conflicts
    <2>5. Ledger!LinksBack(draft[r])
      BY <2>1 DEF Ledger!LinksBack, LinkInv, SessionRows
    <2>. QED
      BY <2>1, <2>3, <2>4, <2>5 DEF Ledger!Record
  <1>2. ASSUME NEW r \in Requests, UpsertAnchor(r)
        PROVE  \E s \in Sessions : Ledger!Anchor(s)
    <2>1. draft[r].sessionId \in Sessions /\ snapshot[r] \in 0 .. Len(log)
      BY DEF TypeOK, Event
    <2>2. /\ anchors' = [anchors EXCEPT ![draft[r].sessionId] = snapshot[r]]
          /\ log' = log
      BY <1>2 DEF UpsertAnchor
    <2>. QED
      BY <2>1, <2>2 DEF Ledger!Anchor
  <1>3. ASSUME \A r \in Requests : ~ AppendEvent(r) /\ ~ UpsertAnchor(r)
        PROVE  UNCHANGED <<log, anchors>>
    BY <1>3 DEF Next, Arrival, Step, Fault, Crash, RecordAction, Notarize,
       EndSession, Arrive, NextSequence, Last, LastFails, AppendConflict, End,
       BySession, RequestFails, store, vars
  <1>. QED
    BY <1>1, <1>2, <1>3 DEF Ledger!Next, Ledger!vars

(***************************************************************************)
(* The notary pipeline implements the ledger it promises: committed events *)
(* stay, ids and places in a session are unique, prev_hash commits to an   *)
(* event of the session already on record, and an anchored root commits to *)
(* a state the log has been in.                                            *)
(***************************************************************************)
THEOREM ImplementsLedger == Spec => LedgerSpec
  <1>1. Init => Ledger!Init
    BY DEF Init, Ledger!Init, NoAnchor, Ledger!NoAnchor
  <1>2. TypeOK /\ Inv /\ [Next]_vars => [Ledger!Next]_(Ledger!vars)
    BY LedgerStep DEF Inv
  <1>. QED
    BY Invariance, <1>1, <1>2, PTL DEF Spec, LedgerSpec, Ledger!Spec

-----------------------------------------------------------------------------
(***************************************************************************)
(* Sessions whose RPCs do not overlap (MaxInFlight = 1): what Seal, Last   *)
(* and Checkpoint need, and do not get, from concurrent callers. Sessions  *)
(* still run beside each other and any statement may fail.                 *)
(***************************************************************************)

(***************************************************************************)
(* At most one RPC of each session is in flight.                           *)
(***************************************************************************)
Alone ==
  /\ IsFiniteSet(Active)
  /\ \A r, q \in Active : draft[r].sessionId = draft[q].sessionId => r = q

(***************************************************************************)
(* An RPC arrives at a session only when none of that session is running.  *)
(***************************************************************************)
LEMMA ArrivalIsAlone ==
  ASSUME MaxInFlight = 1, Alone, NEW r, NEW k, NEW s, NEW st, Arrive(r, k, s, st)
  PROVE  \A q \in Active : draft[q].sessionId # s
  <1>1. IsFiniteSet(InFlight(s))
    BY FS_Subset DEF Alone, InFlight
  <1>2. Cardinality(InFlight(s)) \in Nat /\ Cardinality(InFlight(s)) < 1
    BY <1>1, FS_CardinalityType DEF Arrive
  <1>3. InFlight(s) = {}
    BY <1>1, <1>2, FS_EmptySet
  <1>. QED
    BY <1>3 DEF InFlight

(***************************************************************************)
(* What every arriving RPC has in common, whichever of the three it is.    *)
(***************************************************************************)
LEMMA ArrivalShape ==
  ASSUME TypeOK, NEW r \in Requests, Arrival(r)
  PROVE  /\ pc[r] = "idle" /\ pc'[r] \in {"NextSequence", "Last", "End"}
         /\ ClientSequences = {} => pc'[r] # "Last"
         /\ MaxInFlight = 1 /\ Alone =>
              \A q \in Active : draft[q].sessionId # draft'[r].sessionId
         /\ draft'[r].sessionId \in Sessions
         /\ UNCHANGED <<eventCount, ended, log, anchors, faults>>
  <1>1. ASSUME NEW s \in Sessions, RecordAction(r, s)
        PROVE  /\ Arrive(r, "record", s, "NextSequence") /\ draft'[r].sessionId = s
               /\ pc[r] = "idle" /\ pc'[r] = "NextSequence"
               /\ UNCHANGED <<eventCount, ended, log, anchors, faults>>
    BY <1>1 DEF RecordAction, TypeOK, Event, Arrive, store
  <1>2. ASSUME NEW s \in Sessions, NEW n \in ClientSequences, Notarize(r, s, n)
        PROVE  /\ Arrive(r, "notarize", s, "Last") /\ draft'[r].sessionId = s
               /\ pc[r] = "idle" /\ pc'[r] = "Last"
               /\ UNCHANGED <<eventCount, ended, log, anchors, faults>>
    BY <1>2 DEF Notarize, TypeOK, Event, Arrive, store
  <1>3. ASSUME NEW s \in Sessions, EndSession(r, s)
        PROVE  /\ Arrive(r, "end", s, "End") /\ draft'[r].sessionId = s
               /\ pc[r] = "idle" /\ pc'[r] = "End"
               /\ UNCHANGED <<eventCount, ended, log, anchors, faults>>
    BY <1>3 DEF EndSession, TypeOK, Event, Arrive, store
  <1>4. PICK s \in Sessions :
          RecordAction(r, s) \/ EndSession(r, s)
            \/ \E n \in ClientSequences : Notarize(r, s, n)
    BY DEF Arrival
  <1>5. ASSUME MaxInFlight = 1, Alone
        PROVE  \A q \in Active : draft[q].sessionId # s
    <2>1. \/ Arrive(r, "record", s, "NextSequence")
          \/ Arrive(r, "notarize", s, "Last")
          \/ Arrive(r, "end", s, "End")
      BY <1>1, <1>2, <1>3, <1>4
    <2>. QED
      BY <1>5, <2>1, ArrivalIsAlone
  <1>6. draft'[r].sessionId = s
    BY <1>1, <1>2, <1>3, <1>4
  <1>7. /\ pc[r] = "idle" /\ pc'[r] \in {"NextSequence", "Last", "End"}
        /\ ClientSequences = {} => pc'[r] # "Last"
    BY <1>1, <1>2, <1>3, <1>4
  <1>8. UNCHANGED <<eventCount, ended, log, anchors, faults>>
    BY <1>1, <1>2, <1>3, <1>4
  <1>. QED
    BY <1>5, <1>6, <1>7, <1>8

(***************************************************************************)
(* A statement is run by an active request and leaves it in its session.   *)
(***************************************************************************)
LEMMA StepShape ==
  ASSUME TypeOK, NEW r \in Requests, Step(r) \/ Fault(r)
  PROVE  /\ r \in Active /\ draft'[r].sessionId = draft[r].sessionId
         /\ draft[r].sessionId \in Sessions
  <1>. USE DEF Active, Statements
  <1>1. draft \in [Requests -> Event] /\ draft[r].sessionId \in Sessions
    BY DEF TypeOK, Event
  <1>2. CASE NextSequence(r) \/ Last(r)
    BY <1>1, <1>2 DEF NextSequence, Last, Event
  <1>3. CASE AppendEvent(r) \/ AppendConflict(r) \/ End(r) \/ BySession(r)
               \/ UpsertAnchor(r)
    BY <1>1, <1>3 DEF AppendEvent, AppendConflict, End, BySession, UpsertAnchor
  <1>4. CASE Fault(r)
    BY <1>1, <1>4 DEF Fault, LastFails, RequestFails, Event
  <1>. QED
    BY <1>2, <1>3, <1>4 DEF Step

(***************************************************************************)
(* With MaxInFlight = 1 no step brings a second RPC into a session.        *)
(***************************************************************************)
LEMMA AloneNext ==
  ASSUME MaxInFlight = 1, TypeOK, Alone, [Next]_vars
  PROVE  Alone'
  <1>1. ASSUME NEW r \in Requests, Arrival(r)
        PROVE  Alone'
    <2>. DEFINE s == draft'[r].sessionId
    <2>1. /\ pc[r] = "idle" /\ pc'[r] \in {"NextSequence", "Last", "End"}
      BY <1>1, ArrivalShape
    <2>2. \A q \in Active : draft[q].sessionId # s
      BY <1>1, ArrivalShape
    <2>3. \A q \in Requests : q # r => pc'[q] = pc[q] /\ draft'[q] = draft[q]
      BY <1>1, OthersKeep
    <2>4. Active' = Active \union {r} /\ r \notin Active
      BY <2>1, <2>3 DEF Active, Statements
    <2>5. IsFiniteSet(Active')
      BY <2>4, FS_AddElement DEF Alone
    <2>6. ASSUME NEW p \in Active', NEW q \in Active',
                 draft'[p].sessionId = draft'[q].sessionId
          PROVE  p = q
      BY <2>1, <2>2, <2>3, <2>4, <2>6 DEF Alone, Active
    <2>. QED
      BY <2>5, <2>6 DEF Alone
  <1>2. ASSUME NEW r \in Requests, Step(r) \/ Fault(r)
        PROVE  Alone'
    <2>1. \A q \in Requests : q # r => pc'[q] = pc[q] /\ draft'[q] = draft[q]
      BY <1>2, OthersKeep
    <2>2. r \in Active /\ draft'[r].sessionId = draft[r].sessionId
      BY <1>2, StepShape
    <2>3. Active' \subseteq Active
      BY <2>1, <2>2 DEF Active
    <2>4. \A q \in Active' : draft'[q].sessionId = draft[q].sessionId
      BY <2>1, <2>2 DEF Active
    <2>. QED
      BY <2>3, <2>4, FS_Subset DEF Alone
  <1>3. CASE Crash
    <2>1. Active' = {}
      BY <1>3 DEF Crash, Active, Statements
    <2>. QED
      BY <2>1, FS_EmptySet DEF Alone
  <1>4. CASE UNCHANGED vars
    BY <1>4 DEF vars, Alone, Active
  <1>. QED
    BY <1>1, <1>2, <1>3, <1>4 DEF Next

-----------------------------------------------------------------------------
(***************************************************************************)
(* Between a checkpoint's two statements its session's log does not move:  *)
(* the rows it read are all there are.                                     *)
(***************************************************************************)
SnapshotsCurrent ==
  \A r \in Requests :
    pc[r] = "Anchor" => \A i \in SessionRows(draft[r].sessionId) : i <= snapshot[r]

(***************************************************************************)
(* Some RPC of session s is between its append (or its end) and its        *)
(* anchor.                                                                 *)
(***************************************************************************)
Checkpointing(s) ==
  \E r \in Requests : draft[r].sessionId = s /\ pc[r] \in {"BySession", "Anchor"}

(***************************************************************************)
(* As long as nothing failed, a session's rows are all under its anchor,   *)
(* or a checkpoint that will see to it is on its way.                      *)
(***************************************************************************)
Covered ==
  faults = 0 =>
    \A s \in Sessions :
      (\A i \in SessionRows(s) : i <= anchors[s]) \/ Checkpointing(s)

(***************************************************************************)
(* The inductive invariant behind AnchorCurrentAtRest.                     *)
(***************************************************************************)
AnchorInv == TypeOK /\ Alone /\ SnapshotsCurrent /\ Covered

(***************************************************************************)
(* SnapshotsCurrent is kept: an append of the same session would be a      *)
(* second RPC in flight there.                                             *)
(***************************************************************************)
LEMMA SnapshotsNext ==
  ASSUME TypeOK, Alone, SnapshotsCurrent, [Next]_vars
  PROVE  SnapshotsCurrent'
  <1>. SUFFICES ASSUME NEW p \in Requests, pc'[p] = "Anchor",
                       NEW i \in SessionRows(draft[p].sessionId)'
                PROVE  i <= snapshot'[p]
    BY DEF SnapshotsCurrent
  <1>1. ASSUME pc[p] = "Anchor", UNCHANGED <<log, draft>>, snapshot'[p] = snapshot[p]
        PROVE  i <= snapshot'[p]
    BY <1>1 DEF SnapshotsCurrent, SessionRows
  <1>2. ASSUME NEW r \in Requests, Arrival(r)
        PROVE  i <= snapshot'[p]
    <2>1. p # r
      BY <1>2, ArrivalShape
    <2>2. pc[p] = "Anchor" /\ draft'[p] = draft[p] /\ snapshot'[p] = snapshot[p]
      BY <1>2, <2>1, OthersKeep
    <2>3. UNCHANGED log
      BY <1>2, ArrivalShape
    <2>. QED
      BY <2>2, <2>3 DEF SnapshotsCurrent, SessionRows
  <1>3. ASSUME NEW r \in Requests, Step(r) \/ Fault(r), r # p
        PROVE  i <= snapshot'[p]
    <2>1. pc[p] = "Anchor" /\ draft'[p] = draft[p] /\ snapshot'[p] = snapshot[p]
      BY <1>3, OthersKeep
    <2>2. CASE UNCHANGED log
      BY <2>1, <2>2 DEF SnapshotsCurrent, SessionRows
    <2>3. CASE AppendEvent(r)
      <3>1. draft[r].sessionId # draft[p].sessionId
        BY <1>3, <2>1, StepShape DEF Alone, Active, Statements
      <3>2. i \in SessionRows(draft[p].sessionId)
        BY <2>1, <2>3, <3>1, AppendEventEffect DEF SessionRows
      <3>. QED
        BY <2>1, <3>2 DEF SnapshotsCurrent
    <2>. QED
      BY <1>3, <2>2, <2>3
      DEF Step, NextSequence, Last, AppendConflict, End, BySession, UpsertAnchor, Fault,
          LastFails, RequestFails, store
  <1>4. ASSUME Step(p) \/ Fault(p)
        PROVE  i <= snapshot'[p]
    <2>1. BySession(p)
      BY <1>4 DEF TypeOK, Step, NextSequence, Last, AppendEvent, AppendConflict, End,
                  BySession, UpsertAnchor, Fault, LastFails, RequestFails
    <2>2. snapshot'[p] = Len(log) /\ UNCHANGED log
      BY <2>1 DEF BySession, TypeOK, store
    <2>3. i \in 1 .. Len(log)
      BY <2>2 DEF SessionRows, TypeOK
    <2>. QED
      BY <2>2, <2>3
  <1>5. CASE Crash
    BY <1>1, <1>5 DEF Crash, store, Active, TypeOK
  <1>6. CASE UNCHANGED vars
    BY <1>1, <1>6 DEF vars, store
  <1>. QED
    BY <1>2, <1>3, <1>4, <1>5, <1>6 DEF Next

(***************************************************************************)
(* Covered is kept: UpsertAnchor anchors a snapshot that is current, and   *)
(* AppendEvent goes on to a checkpoint.                                    *)
(***************************************************************************)
LEMMA CoveredNext ==
  ASSUME TypeOK, Alone, SnapshotsCurrent, Covered, [Next]_vars
  PROVE  Covered'
  <1>. SUFFICES ASSUME faults' = 0, NEW s \in Sessions,
                       ~ Checkpointing(s)'
                PROVE  \A i \in SessionRows(s)' : i <= anchors'[s]
    BY DEF Covered
  <1>0. \A p \in Requests :
          draft'[p].sessionId = s => pc'[p] \notin {"BySession", "Anchor"}
    BY DEF Checkpointing
  <1>1. ASSUME faults = 0, ~ Checkpointing(s), UNCHANGED <<log, anchors>>
        PROVE  \A i \in SessionRows(s)' : i <= anchors'[s]
    BY <1>1 DEF Covered, SessionRows
  <1>2. ASSUME NEW r \in Requests, Arrival(r)
        PROVE  \A i \in SessionRows(s)' : i <= anchors'[s]
    <2>1. UNCHANGED <<log, anchors, faults>> /\ pc[r] = "idle"
      BY <1>2, ArrivalShape
    <2>2. \A q \in Requests : q # r => pc'[q] = pc[q] /\ draft'[q] = draft[q]
      BY <1>2, OthersKeep
    <2>3. ~ Checkpointing(s)
      BY <1>0, <2>1, <2>2 DEF Checkpointing
    <2>. QED
      BY <1>1, <2>1, <2>3
  <1>3. ASSUME NEW r \in Requests, Step(r)
        PROVE  \A i \in SessionRows(s)' : i <= anchors'[s]
    <2>1. \A q \in Requests : q # r => pc'[q] = pc[q] /\ draft'[q] = draft[q]
      BY <1>3, OthersKeep
    <2>2. r \in Active /\ draft'[r].sessionId = draft[r].sessionId
      BY <1>3, StepShape
    <2>3. faults = 0
      BY <1>3 DEF Step, NextSequence, Last, AppendEvent, AppendConflict, End, BySession,
                  UpsertAnchor, store
    <2>4. CASE UpsertAnchor(r) /\ draft[r].sessionId = s
      BY <2>4 DEF UpsertAnchor, SnapshotsCurrent, SessionRows, TypeOK
    <2>5. CASE UpsertAnchor(r) /\ draft[r].sessionId # s
      <3>1. ~ Checkpointing(s)
        BY <1>0, <2>1, <2>5 DEF Checkpointing
      <3>2. UNCHANGED log /\ anchors'[s] = anchors[s]
        BY <2>5 DEF UpsertAnchor, TypeOK
      <3>. QED
        BY <2>3, <3>1, <3>2 DEF Covered, SessionRows
    <2>6. CASE AppendEvent(r)
      <3>1. pc[r] = "Append" /\ pc'[r] = "BySession" /\ UNCHANGED anchors
        BY <2>6 DEF AppendEvent, TypeOK
      <3>2. draft[r].sessionId # s
        BY <1>0, <2>2, <3>1
      <3>3. ~ Checkpointing(s)
        BY <1>0, <2>1, <2>2, <3>2 DEF Checkpointing
      <3>4. SessionRows(s)' = SessionRows(s)
        BY <2>6, <3>2, AppendEventEffect DEF SessionRows
      <3>. QED
        BY <2>3, <3>1, <3>3, <3>4 DEF Covered
    <2>7. CASE NextSequence(r) \/ Last(r) \/ AppendConflict(r) \/ End(r) \/ BySession(r)
      <3>1. UNCHANGED <<log, anchors>>
        BY <2>7 DEF NextSequence, Last, AppendConflict, End, BySession, store
      <3>2. draft[r].sessionId = s => pc[r] \notin {"BySession", "Anchor"}
        BY <1>0, <2>2, <2>7
        DEF NextSequence, Last, AppendConflict, End, BySession, TypeOK
      <3>3. ~ Checkpointing(s)
        BY <1>0, <2>1, <3>2 DEF Checkpointing
      <3>. QED
        BY <1>1, <2>3, <3>1, <3>3
    <2>. QED
      BY <1>3, <2>4, <2>5, <2>6, <2>7 DEF Step
  <1>4. ~ Crash /\ \A r \in Requests : ~ Fault(r)
    BY DEF TypeOK, Crash, Fault, LastFails, RequestFails
  <1>5. CASE UNCHANGED vars
    <2>1. ~ Checkpointing(s) /\ UNCHANGED <<log, anchors>> /\ faults = 0
      BY <1>0, <1>5 DEF vars, store, Checkpointing
    <2>. QED
      BY <1>1, <2>1
  <1>. QED
    BY <1>2, <1>3, <1>4, <1>5 DEF Next

(***************************************************************************)
(* When the RPCs of a session do not overlap and none has failed, a        *)
(* session at rest has its last event under its anchored root: the         *)
(* checkpoint of RecordAction, Notarize and EndSession is neither missing  *)
(* nor out of date.                                                        *)
(***************************************************************************)
THEOREM AnchorsAreCurrent ==
  ASSUME MaxInFlight = 1
  PROVE  Spec => []AnchorCurrentAtRest
  <1>1. Init => AnchorInv
    <2>. SUFFICES ASSUME Init PROVE AnchorInv
      OBVIOUS
    <2>1. Active = {} /\ log = <<>>
      BY DEF Init, Active, Statements
    <2>2. Alone
      BY <2>1, FS_EmptySet DEF Alone
    <2>3. SnapshotsCurrent /\ Covered
      BY <2>1 DEF Init, SnapshotsCurrent, Covered, SessionRows
    <2>. QED
      BY <2>2, <2>3, TypeInit DEF AnchorInv
  <1>2. AnchorInv /\ [Next]_vars => AnchorInv'
    BY TypeNext, AloneNext, SnapshotsNext, CoveredNext DEF AnchorInv
  <1>3. AnchorInv => AnchorCurrentAtRest
    BY DEF AnchorInv, Covered, Checkpointing, AnchorCurrentAtRest, InFlight, Active,
           Statements
  <1>. QED
    BY <1>1, <1>2, <1>3, PTL DEF Spec

-----------------------------------------------------------------------------
(***************************************************************************)
(* A request that holds a number holds the last one its session gave out.  *)
(***************************************************************************)
NumbersNewest ==
  \A r \in Requests :
    pc[r] \in Numbered => draft[r].sequence = eventCount[draft[r].sessionId]

(***************************************************************************)
(* A request about to append links to its session's last event.            *)
(***************************************************************************)
LinksNewest ==
  \A r \in Requests :
    pc[r] = "Append" => IsLast(draft[r].prev, draft[r].sessionId)

(***************************************************************************)
(* The inductive invariant behind ChainLinked. Inv's SequenceInv keeps the *)
(* recorded numbers below the one that is held.                            *)
(***************************************************************************)
ChainInv ==
  TypeOK /\ Inv /\ Alone /\ NumbersNewest /\ LinksNewest /\ ChainLinked

(***************************************************************************)
(* NumbersNewest is kept: another NextSequence in the session would be a   *)
(* second RPC in flight there.                                             *)
(***************************************************************************)
LEMMA NumbersNewestNext ==
  ASSUME ClientSequences = {}, TypeOK, Alone, NumbersNewest, [Next]_vars
  PROVE  NumbersNewest'
  <1>. SUFFICES ASSUME NEW p \in Requests, pc'[p] \in Numbered
                PROVE  draft'[p].sequence = eventCount'[draft'[p].sessionId]
    BY DEF NumbersNewest
  <1>1. ASSUME pc[p] \in Numbered, draft'[p].sequence = draft[p].sequence,
               draft'[p].sessionId = draft[p].sessionId, UNCHANGED eventCount
        PROVE  draft'[p].sequence = eventCount'[draft'[p].sessionId]
    BY <1>1 DEF NumbersNewest
  <1>2. ASSUME NEW r \in Requests, Arrival(r)
        PROVE  draft'[p].sequence = eventCount'[draft'[p].sessionId]
    <2>1. p # r
      BY <1>2, ArrivalShape DEF Numbered
    <2>2. pc'[p] = pc[p] /\ draft'[p] = draft[p] /\ UNCHANGED eventCount
      BY <1>2, <2>1, OthersKeep, ArrivalShape
    <2>. QED
      BY <1>1, <2>2
  <1>3. ASSUME NEW r \in Requests, Step(r) \/ Fault(r), r # p
        PROVE  draft'[p].sequence = eventCount'[draft'[p].sessionId]
    <2>1. pc'[p] = pc[p] /\ draft'[p] = draft[p]
      BY <1>3, OthersKeep
    <2>2. CASE NextSequence(r)
      <3>1. draft[r].sessionId # draft[p].sessionId
        BY <1>3, <2>1, StepShape DEF Alone, Active, Statements, Numbered
      <3>2. draft[p].sessionId \in Sessions
        BY DEF TypeOK, Event
      <3>3. eventCount'[draft[p].sessionId] = eventCount[draft[p].sessionId]
        BY <2>2, <3>1, <3>2, NextSequenceEffect
      <3>. QED
        BY <2>1, <3>3 DEF NumbersNewest
    <2>3. CASE UNCHANGED eventCount
      BY <1>1, <2>1, <2>3
    <2>. QED
      BY <1>3, <2>2, <2>3
      DEF Step, Last, AppendEvent, AppendConflict, End, BySession, UpsertAnchor, Fault,
          LastFails, RequestFails, store
  <1>4. ASSUME Step(p) \/ Fault(p)
        PROVE  draft'[p].sequence = eventCount'[draft'[p].sessionId]
    <2>1. CASE NextSequence(p)
      BY <2>1, NextSequenceEffect
    <2>2. CASE Last(p) \/ LastFails(p)
      <3>1. PICK i : draft' = [draft EXCEPT ![p].prev = i]
        BY <2>2 DEF Last, LastFails
      <3>2. draft \in [Requests -> Event]
        BY DEF TypeOK
      <3>3. /\ draft'[p].sequence = draft[p].sequence
            /\ draft'[p].sessionId = draft[p].sessionId
        BY <3>1, <3>2 DEF Event
      <3>4. pc[p] \in Numbered /\ UNCHANGED eventCount
        BY <2>2 DEF Last, LastFails, store, Numbered
      <3>. QED
        BY <1>1, <3>3, <3>4
    <2>3. ~ (AppendEvent(p) \/ AppendConflict(p) \/ End(p) \/ BySession(p)
               \/ UpsertAnchor(p) \/ RequestFails(p))
      BY DEF AppendEvent, AppendConflict, End, BySession, UpsertAnchor, RequestFails,
             Numbered, TypeOK
    <2>. QED
      BY <1>4, <2>1, <2>2, <2>3 DEF Step, Fault
  <1>5. CASE Crash
    BY <1>1, <1>5 DEF Crash, store, TypeOK, Numbered, Active
  <1>6. CASE UNCHANGED vars
    BY <1>1, <1>6 DEF vars, store
  <1>. QED
    BY <1>2, <1>3, <1>4, <1>5, <1>6 DEF Next

(***************************************************************************)
(* LinksNewest is kept: what Last read stays the session's last event      *)
(* until the request appends.                                              *)
(***************************************************************************)
LEMMA LinksNewestNext ==
  ASSUME ~ LastMayFail, TypeOK, Alone, LinksNewest, [Next]_vars
  PROVE  LinksNewest'
  <1>. SUFFICES ASSUME NEW p \in Requests, pc'[p] = "Append"
                PROVE  IsLast(draft[p].prev, draft[p].sessionId)'
    BY DEF LinksNewest
  <1>1. ASSUME pc[p] = "Append", UNCHANGED log, draft'[p] = draft[p]
        PROVE  IsLast(draft[p].prev, draft[p].sessionId)'
    BY <1>1 DEF LinksNewest, IsLast, SessionRows
  <1>2. ASSUME NEW r \in Requests, Arrival(r)
        PROVE  IsLast(draft[p].prev, draft[p].sessionId)'
    <2>1. p # r
      BY <1>2, ArrivalShape
    <2>. QED
      BY <1>1, <1>2, <2>1, OthersKeep, ArrivalShape
  <1>3. ASSUME NEW r \in Requests, Step(r) \/ Fault(r), r # p
        PROVE  IsLast(draft[p].prev, draft[p].sessionId)'
    <2>1. pc[p] = "Append" /\ draft'[p] = draft[p]
      BY <1>3, OthersKeep
    <2>2. CASE AppendEvent(r)
      <3>1. draft[r].sessionId # draft[p].sessionId
        BY <1>3, <2>1, StepShape DEF Alone, Active, Statements
      <3>2. SessionRows(draft[p].sessionId)' = SessionRows(draft[p].sessionId)
        BY <2>1, <2>2, <3>1, AppendEventEffect DEF SessionRows
      <3>3. \A j \in SessionRows(draft[p].sessionId) : log'[j] = log[j]
        BY <2>2, AppendEventEffect DEF SessionRows
      <3>. QED
        BY <2>1, <3>2, <3>3 DEF LinksNewest, IsLast
    <2>3. CASE UNCHANGED log
      BY <1>1, <2>1, <2>3
    <2>. QED
      BY <1>3, <2>2, <2>3
      DEF Step, NextSequence, Last, AppendConflict, End, BySession, UpsertAnchor, Fault,
          LastFails, RequestFails, store
  <1>4. ASSUME Step(p) \/ Fault(p)
        PROVE  IsLast(draft[p].prev, draft[p].sessionId)'
    <2>1. Last(p)
      BY <1>4 DEF TypeOK, Step, NextSequence, Last, AppendEvent, AppendConflict, End,
                  BySession, UpsertAnchor, Fault, LastFails, RequestFails
    <2>2. PICK i \in 0 .. Len(log) :
            /\ IsLast(i, draft[p].sessionId)
            /\ draft' = [draft EXCEPT ![p].prev = i]
      BY <2>1 DEF Last
    <2>3. draft'[p].prev = i /\ draft'[p].sessionId = draft[p].sessionId
      BY <2>2 DEF TypeOK, Event
    <2>4. UNCHANGED log
      BY <2>1 DEF Last, store
    <2>. QED
      BY <2>2, <2>3, <2>4 DEF IsLast, SessionRows
  <1>5. CASE Crash
    BY <1>1, <1>5 DEF Crash, store, Active, TypeOK
  <1>6. CASE UNCHANGED vars
    BY <1>1, <1>6 DEF vars, store
  <1>. QED
    BY <1>2, <1>3, <1>4, <1>5, <1>6 DEF Next

(***************************************************************************)
(* An append extends the session's chain by one link: greater number, and  *)
(* linked to the last of the events before it.                             *)
(***************************************************************************)
LEMMA ChainLinkedNext ==
  ASSUME ClientSequences = {}, ChainInv, [Next]_vars
  PROVE  ChainLinked'
  <1>1. CASE UNCHANGED log
    BY <1>1 DEF ChainInv, ChainLinked, SessionRows
  <1>2. ASSUME NEW r \in Requests, AppendEvent(r)
        PROVE  ChainLinked'
    <2>. DEFINE n == Len(log) + 1
                t == draft[r].sessionId
    <2>0. TypeOK /\ ChainLinked /\ SequenceInv
      BY <1>2 DEF ChainInv, Inv
    <2>1. /\ Len(log) \in Nat /\ DOMAIN log = 1 .. Len(log)
          /\ DOMAIN log' = 1 .. n
          /\ \A i \in 1 .. Len(log) : log'[i] = log[i]
          /\ log'[n] = draft[r]
      BY <1>2, <2>0, AppendEventEffect
    <2>2. /\ pc[r] = "Append" /\ IsLast(draft[r].prev, t)
          /\ draft[r].sequence = eventCount[t] /\ t \in Sessions
          /\ OwnNumber(r)
      BY <1>2, <2>0 DEF AppendEvent, ChainInv, LinksNewest, NumbersNewest, Numbered,
                        SequenceInv, TypeOK, Event
    <2>3. \A j \in SessionRows(t) : log[j].sequence < draft[r].sequence
      <3>. SUFFICES ASSUME NEW j \in SessionRows(t)
                    PROVE  log[j].sequence < draft[r].sequence
        OBVIOUS
      <3>1. log[j].sequence \in 1 .. eventCount[t] /\ log[j].sequence # draft[r].sequence
        BY <2>0, <2>2 DEF SequenceInv, OwnNumber, SessionRows
      <3>2. eventCount[t] \in Nat
        BY <2>0, <2>2 DEF TypeOK
      <3>. QED
        BY <2>2, <3>1, <3>2
    <2>4. \A j \in SessionRows(t) : j <= draft[r].prev
      <3>. SUFFICES ASSUME NEW j \in SessionRows(t), ~ (j <= draft[r].prev) PROVE FALSE
        OBVIOUS
      <3>1. /\ draft[r].prev \in SessionRows(t) /\ draft[r].prev < j
            /\ log[j].sequence <= log[draft[r].prev].sequence
        BY <2>1, <2>2 DEF IsLast, SessionRows
      <3>2. log[draft[r].prev].sequence < log[j].sequence
        BY <2>0, <2>2, <3>1 DEF ChainLinked
      <3>3. log[draft[r].prev].sequence \in Int /\ log[j].sequence \in Int
        BY <2>0, <3>1 DEF SequenceInv, SessionRows
      <3>. QED
        BY <3>1, <3>2, <3>3
    <2>5. draft[r].prev = 0 <=> SessionRows(t) = {}
      BY <2>1, <2>2 DEF IsLast, SessionRows
    <2>. SUFFICES ASSUME NEW s \in Sessions, NEW i \in SessionRows(s)'
                  PROVE  LET before == {j \in SessionRows(s)' : j < i}
                         IN  /\ log'[i].prev = 0 <=> before = {}
                             /\ \A j \in before : /\ j <= log'[i].prev
                                                  /\ log'[j].sequence < log'[i].sequence
      BY DEF ChainLinked
    <2>. DEFINE before == {j \in SessionRows(s)' : j < i}
    <2>6. CASE i \in 1 .. Len(log)
      <3>1. i \in SessionRows(s) /\ log'[i] = log[i]
        BY <2>1, <2>6 DEF SessionRows
      <3>2. before = {j \in SessionRows(s) : j < i}
        BY <2>1, <2>6 DEF SessionRows
      <3>3. \A j \in before : log'[j] = log[j]
        BY <2>1, <3>2 DEF SessionRows
      <3>. QED
        BY <2>0, <3>1, <3>2, <3>3 DEF ChainLinked
    <2>7. CASE i = n
      <3>1. s = t /\ log'[i] = draft[r]
        BY <2>1, <2>7 DEF SessionRows
      <3>2. before = SessionRows(t)
        BY <2>1, <2>7, <3>1 DEF SessionRows
      <3>3. \A j \in before : log'[j] = log[j]
        BY <2>1, <3>2 DEF SessionRows
      <3>. QED
        BY <2>3, <2>4, <2>5, <3>1, <3>2, <3>3
    <2>. QED
      BY <2>1, <2>6, <2>7 DEF SessionRows
  <1>. QED
    BY <1>1, <1>2
    DEF Next, vars, store, Arrival, RecordAction, Notarize, EndSession, Arrive, Step,
        NextSequence, Last, AppendConflict, End, BySession, UpsertAnchor, Fault,
        LastFails, RequestFails, Crash

(***************************************************************************)
(* When the RPCs of a session do not overlap, callers bring no numbers of  *)
(* their own and Last does not fail, the events of every session form one  *)
(* chain in commit order, whatever other statement fails.                  *)
(***************************************************************************)
THEOREM ChainStaysLinked ==
  ASSUME MaxInFlight = 1, ClientSequences = {}, ~ LastMayFail
  PROVE  Spec => []ChainLinked
  <1>1. Init => ChainInv
    <2>. SUFFICES ASSUME Init PROVE ChainInv
      OBVIOUS
    <2>1. Active = {} /\ log = <<>> /\ \A r \in Requests : pc[r] = "idle"
      BY DEF Init, Active, Statements
    <2>2. Alone
      BY <2>1, FS_EmptySet DEF Alone
    <2>3. NumbersNewest /\ LinksNewest /\ ChainLinked
      BY <2>1 DEF NumbersNewest, LinksNewest, ChainLinked, Numbered, SessionRows
    <2>. QED
      BY <2>2, <2>3, TypeInit, InvInit DEF ChainInv
  <1>2. ChainInv /\ [Next]_vars => ChainInv'
    BY TypeNext, InvNext, AloneNext, NumbersNewestNext, LinksNewestNext, ChainLinkedNext
    DEF ChainInv
  <1>3. ChainInv => ChainLinked
    BY DEF ChainInv
  <1>. QED
    BY <1>1, <1>2, <1>3, PTL DEF Spec
=============================================================================
