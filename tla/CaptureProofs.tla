---------------------------- MODULE CaptureProofs ----------------------------
(***************************************************************************)
(* Proofs about the capture service over the delegations and the notary    *)
(* pipeline, all interleaved: what is on the log was recorded under a live *)
(* chain, within its authority and in its project, for every set of        *)
(* sessions, requests, grants, callers and actions.                        *)
(***************************************************************************)
EXTENDS Capture, NotaryCoreProofs

(***************************************************************************)
(* The delegations and what is proved of them. Capture's own instance of   *)
(* the module has the same definitions under other names; the lemmas below *)
(* say so.                                                                 *)
(***************************************************************************)
Proved == INSTANCE DelegationProofs WITH MaxKeys <- MaxFaults

(***************************************************************************)
(* The two instances agree: table, chains and steps.                       *)
(***************************************************************************)
LEMMA SameStored ==
  /\ Authority!Stored = Proved!Stored
  /\ Authority!Stored' = Proved!Stored'
  BY DEF Authority!Stored, Proved!Stored

LEMMA SameChain ==
  \A g : /\ Authority!Chain(g) = Proved!Chain(g)
         /\ Authority!Chain(g)' = Proved!Chain(g)'
  BY DEF Authority!Chain, Proved!Chain, Authority!Stored, Proved!Stored,
         Authority!NoParent, Proved!NoParent

LEMMA SameInit == Authority!Init => Proved!Init
  BY DEF Authority!Init, Proved!Init

LEMMA SameHandler == \A g : Authority!Handler(g) => Proved!Handler(g)
  BY DEF Authority!Handler, Proved!Handler,
         Authority!IssueRootGrant, Proved!IssueRootGrant,
         Authority!Delegate, Proved!Delegate, Authority!PutGrant, Proved!PutGrant,
         Authority!Revoke, Proved!Revoke, Authority!With, Proved!With,
         Authority!Without, Proved!Without, Authority!NewGrant, Proved!NewGrant,
         Authority!Grant, Proved!Grant, Authority!Unused, Proved!Unused,
         Authority!NoParent, Proved!NoParent, Authority!NoExpiry, Proved!NoExpiry,
         Authority!Stored, Proved!Stored

LEMMA SameRestart == Authority!Restart => Proved!Restart
  BY DEF Authority!Restart, Proved!Restart

(***************************************************************************)
(* A chain that verifies narrows from each grant to the next.              *)
(***************************************************************************)
LEMMA ValidNarrows ==
  \A g : Authority!Valid(g) =>
           \A i \in 2 .. Len(Proved!Chain(g)) :
             Proved!checkNonWidening(Proved!Chain(g)[i - 1], Proved!Chain(g)[i])
  BY SameChain DEF Authority!Valid, Authority!VerifyChain,
                   Authority!checkNonWidening, Proved!checkNonWidening

-----------------------------------------------------------------------------
(***************************************************************************)
(* The types of the sessions and of the requests' checks.                  *)
(***************************************************************************)
Stages == {"IsRevoked", "denied", "granted"}
AskedRows ==
  [stage : Stages, checked : Nat, sessionId : Sessions, grantId : Grants,
   action : Actions, caller : Callers, before : SUBSET Grants]
SessionRow == [projectId : Projects, rootGrantId : Grants]

CTypeOK ==
  /\ TypeOK
  /\ session \in [Sessions -> SessionRow \union {NoRow}]
  /\ asked \in [Requests -> AskedRows \union {NotAsked}]

(***************************************************************************)
(* A session's root grant is stored and of the session's project.          *)
(***************************************************************************)
SessionsInProject ==
  \A s \in Sessions :
    session[s] # NoRow =>
      /\ session[s].rootGrantId \in Proved!Stored
      /\ grants[session[s].rootGrantId].projectId = session[s].projectId

(***************************************************************************)
(* What a request that passed its first checks relies on, while the        *)
(* delegations go on: the session and the grant are of one project of the  *)
(* caller; the chain narrows; the grants checked so far were live when the *)
(* request arrived; and a granted request has checked its whole chain and  *)
(* is authorized by the leaf.                                              *)
(***************************************************************************)
InProject(a) ==
  /\ a.grantId \in Proved!Stored
  /\ session[a.sessionId] # NoRow
  /\ session[a.sessionId].projectId = grants[a.grantId].projectId
  /\ session[a.sessionId].projectId \in Access[a.caller]

CheckedLive(a) ==
  LET chain == Proved!Chain(a.grantId)
  IN  /\ \A i \in 2 .. Len(chain) : Proved!checkNonWidening(chain[i - 1], chain[i])
      /\ a.before \subseteq revoked
      /\ a.stage = "IsRevoked" => a.checked < Len(chain)
      /\ a.stage # "denied" =>
           \A i \in 1 .. a.checked : chain[i].grantId \notin a.before
      /\ a.stage = "granted" =>
           /\ a.checked = Len(chain)
           /\ Authority!Authorizes(chain[Len(chain)], a.action)

AskedOK(r) == asked[r].stage # "none" => InProject(asked[r]) /\ CheckedLive(asked[r])

(***************************************************************************)
(* A request that is on its way to the log is a granted one, for the       *)
(* session it asked for; so is everything on the log.                      *)
(***************************************************************************)
RecordsGranted(r) ==
  /\ draft[r].eventId = r
  /\ pc[r] \in {"NextSequence", "Last", "Append"} =>
       asked[r].stage = "granted" /\ asked[r].sessionId = draft[r].sessionId

LogIsGranted ==
  \A i \in DOMAIN log :
    By(i).stage = "granted" /\ By(i).sessionId = log[i].sessionId

(***************************************************************************)
(* The inductive invariant.                                                *)
(***************************************************************************)
CInv ==
  /\ CTypeOK
  /\ Proved!IInv
  /\ SessionsInProject
  /\ \A r \in Requests : AskedOK(r)
  /\ \A r \in Requests : RecordsGranted(r)
  /\ LogIsGranted

LEMMA AskedFields ==
  ASSUME CTypeOK, NEW r \in Requests, asked[r].stage # "none"
  PROVE  asked[r] \in AskedRows
  BY DEF CTypeOK, NotAsked

-----------------------------------------------------------------------------
(***************************************************************************)
(* Every step of the service is one of the pipeline and one of the         *)
(* delegations, or leaves them alone.                                      *)
(***************************************************************************)
LEMMA PipelineStep == CTypeOK /\ [CNext]_allVars => [Next]_vars
  <1>. SUFFICES ASSUME CTypeOK, [CNext]_allVars PROVE [Next]_vars
    OBVIOUS
  <1>1. ASSUME NEW s \in Sessions, NEW c \in Callers, NEW g \in Grants,
               BeginSession(s, c, g)
        PROVE  [Next]_vars
    BY <1>1 DEF BeginSession
  <1>2. ASSUME NEW r \in Requests, NEW s \in Sessions, NEW c \in Callers,
               NEW g \in Grants, NEW action \in Actions, Ask(r, s, c, g, action)
        PROVE  [Next]_vars
    BY <1>2 DEF Ask
  <1>3. ASSUME NEW r \in Requests, NEW s \in Sessions, CloseSession(r, s)
        PROVE  [Next]_vars
    BY <1>3 DEF CloseSession, Arrival, Next
  <1>4. ASSUME NEW r \in Requests, IsRevoked(r)
        PROVE  [Next]_vars
    <2>1. asked[r].sessionId \in Sessions
      BY <1>4, AskedFields DEF IsRevoked, AskedRows
    <2>2. RecordAction(r, asked[r].sessionId) \/ UNCHANGED vars
      BY <1>4 DEF IsRevoked
    <2>. QED
      BY <2>1, <2>2 DEF Arrival, Next
  <1>5. ASSUME NEW r \in Requests, Pipeline(r)
        PROVE  [Next]_vars
    BY <1>5 DEF Pipeline, Next
  <1>6. ASSUME Delegate
        PROVE  [Next]_vars
    BY <1>6 DEF Delegate
  <1>7. ASSUME ServerRestarts
        PROVE  [Next]_vars
    BY <1>7 DEF ServerRestarts, Next
  <1>8. CASE UNCHANGED allVars
    BY <1>8 DEF allVars
  <1>. QED
    BY <1>1, <1>2, <1>3, <1>4, <1>5, <1>6, <1>7, <1>8 DEF CNext

LEMMA DelegationStep == [CNext]_allVars => [Proved!Next]_(Proved!vars)
  <1>. SUFFICES ASSUME [CNext]_allVars PROVE [Proved!Next]_(Proved!vars)
    OBVIOUS
  <1>1. CASE UNCHANGED delegations
    BY <1>1 DEF delegations, Proved!vars
  <1>2. CASE Delegate
    BY <1>2, SameHandler DEF Delegate, Proved!Next
  <1>3. CASE ServerRestarts
    BY <1>3, SameRestart DEF ServerRestarts, Proved!Next
  <1>. QED
    BY <1>1, <1>2, <1>3
    DEF CNext, BeginSession, Ask, CloseSession, IsRevoked, Pipeline, allVars

(***************************************************************************)
(* So the delegations' invariant holds throughout, no stored grant and no  *)
(* chain ever changes, and revocations are never undone.                   *)
(***************************************************************************)
LEMMA DelegationsExtend ==
  ASSUME CInv, [CNext]_allVars
  PROVE  /\ Proved!IInv'
         /\ revoked \subseteq revoked'
         /\ \A h \in Proved!Stored : /\ h \in Proved!Stored'
                                     /\ Proved!Chain(h)' = Proved!Chain(h)
                                     /\ grants'[h] = grants[h]
  BY DelegationStep, Proved!StepExtends, CaptureAssumption, NotaryAssumption
  DEF CInv, Authority!NoParent, Proved!NoParent, Authority!Form, Proved!Form

-----------------------------------------------------------------------------
(***************************************************************************)
(* A session's row, once there, stays; and what a step does to a request's *)
(* checks.                                                                 *)
(***************************************************************************)
LEMMA SessionsStay ==
  ASSUME CTypeOK, [CNext]_allVars, NEW s \in Sessions, session[s] # NoRow
  PROVE  session'[s] = session[s]
  <1>1. ASSUME NEW t \in Sessions, NEW c \in Callers, NEW g \in Grants,
               BeginSession(t, c, g)
        PROVE  session'[s] = session[s]
    BY <1>1 DEF BeginSession, CTypeOK
  <1>. QED
    BY <1>1
    DEF CNext, Ask, CloseSession, IsRevoked, Pipeline, Delegate, ServerRestarts, allVars

LEMMA AskedStep ==
  ASSUME CTypeOK, [CNext]_allVars, NEW p \in Requests
  PROVE  \/ asked'[p] = asked[p]
         \/ \E s \in Sessions, c \in Callers, g \in Grants, action \in Actions :
              Ask(p, s, c, g, action)
         \/ IsRevoked(p)
         \/ /\ asked[p].stage = "IsRevoked"
            /\ asked'[p] = [asked[p] EXCEPT !.stage = "denied"]
  <1>1. ASSUME NEW r \in Requests, NEW s \in Sessions, NEW c \in Callers,
               NEW g \in Grants, NEW action \in Actions, Ask(r, s, c, g, action), r # p
        PROVE  asked'[p] = asked[p]
    BY <1>1 DEF Ask, CTypeOK
  <1>2. ASSUME NEW r \in Requests, IsRevoked(r), r # p
        PROVE  asked'[p] = asked[p]
    BY <1>2 DEF IsRevoked, CTypeOK
  <1>3. ASSUME ServerRestarts
        PROVE  \/ asked'[p] = asked[p]
               \/ /\ asked[p].stage = "IsRevoked"
                  /\ asked'[p] = [asked[p] EXCEPT !.stage = "denied"]
    BY <1>3 DEF ServerRestarts
  <1>4. CASE UNCHANGED asked
    BY <1>4
  <1>. QED
    BY <1>1, <1>2, <1>3, <1>4
    DEF CNext, BeginSession, CloseSession, Pipeline, Delegate, allVars

LEMMA GrantedStays ==
  ASSUME CTypeOK, [CNext]_allVars, NEW p \in Requests, asked[p].stage = "granted"
  PROVE  asked'[p] = asked[p]
  BY AskedStep DEF Ask, IsRevoked

(***************************************************************************)
(* The first checks establish AskedOK, each look-up of a revocation keeps  *)
(* it, and nothing anybody else does breaks it.                            *)
(***************************************************************************)
LEMMA AskEffect ==
  ASSUME CInv, [CNext]_allVars, NEW r \in Requests, NEW s \in Sessions,
         NEW c \in Callers, NEW g \in Grants, NEW action \in Actions,
         Ask(r, s, c, g, action)
  PROVE  asked'[r] \in AskedRows /\ AskedOK(r)'
  <1>. DEFINE a == [stage |-> "IsRevoked", checked |-> 0, sessionId |-> s,
                    grantId |-> g, action |-> action, caller |-> c, before |-> revoked]
              chain == Proved!Chain(g)
  <1>1. /\ asked'[r] = a /\ UNCHANGED <<session, grants, revoked>>
        /\ session[s] # NoRow /\ session[s].projectId \in Access[c]
        /\ session[s].projectId = grants[g].projectId
        /\ g \in Proved!Stored /\ Authority!Valid(g)
    BY SameStored DEF Ask, CInv, CTypeOK, delegations, SameProject
  <1>2. /\ g \in Proved!Stored' /\ Proved!Chain(g)' = chain
    BY <1>1, DelegationsExtend
  <1>3. /\ Len(chain) \in Nat \ {0}
        /\ \A i \in 2 .. Len(chain) : Proved!checkNonWidening(chain[i - 1], chain[i])
    BY <1>1, ValidNarrows DEF CInv, Proved!IInv, Proved!GoodChain
  <1>4. revoked \subseteq Grants
    BY DEF CInv, Proved!IInv, Proved!TypeOK
  <1>5. a \in AskedRows
    BY <1>4 DEF AskedRows, Stages
  <1>6. InProject(a)'
    BY <1>1, <1>2 DEF InProject
  <1>7. CheckedLive(a)'
    BY <1>1, <1>2, <1>3 DEF CheckedLive
  <1>. QED
    BY <1>1, <1>5, <1>6, <1>7 DEF AskedOK

LEMMA IsRevokedEffect ==
  ASSUME CInv, [CNext]_allVars, NEW r \in Requests, IsRevoked(r)
  PROVE  /\ asked'[r] \in AskedRows
         /\ AskedOK(r)'
         /\ asked'[r].sessionId = asked[r].sessionId
         /\ \/ UNCHANGED vars
            \/ /\ RecordAction(r, asked[r].sessionId)
               /\ asked'[r].stage = "granted"
  <1>1. PICK a, chain, live, granted, stage :
          /\ a = asked[r] /\ chain = Proved!Chain(a.grantId)
          /\ live = (chain[a.checked + 1].grantId \notin revoked)
          /\ granted = (/\ live
                        /\ a.checked + 1 = Len(chain)
                        /\ Authority!Authorizes(chain[a.checked + 1], a.action))
          /\ stage = IF granted THEN "granted"
                     ELSE IF live /\ a.checked + 1 < Len(chain) THEN "IsRevoked"
                     ELSE "denied"
    OBVIOUS
  <1>2. PICK b : b = [a EXCEPT !.checked = a.checked + 1, !.stage = stage]
    OBVIOUS
  <1>. DEFINE n == a.checked + 1
  <1>3. /\ a.stage = "IsRevoked" /\ asked'[r] = b
        /\ UNCHANGED <<session, grants, revoked>>
        /\ IF granted THEN RecordAction(r, a.sessionId) ELSE UNCHANGED vars
    BY <1>1, <1>2, SameChain DEF IsRevoked, NextUnchecked, CInv, CTypeOK, delegations
  <1>4. a \in AskedRows /\ InProject(a) /\ CheckedLive(a)
    BY <1>1, <1>3, AskedFields DEF CInv, AskedOK
  <1>5. stage \in Stages /\ a.checked \in Nat /\ n \in Nat
    BY <1>1, <1>4 DEF Stages, AskedRows
  <1>6. /\ b \in AskedRows /\ b.checked = n /\ b.stage = stage
        /\ b.sessionId = a.sessionId /\ b.grantId = a.grantId /\ b.action = a.action
        /\ b.caller = a.caller /\ b.before = a.before
    BY <1>2, <1>4, <1>5 DEF AskedRows
  <1>7. /\ a.grantId \in Proved!Stored' /\ Proved!Chain(a.grantId)' = chain
        /\ Len(chain) \in Nat \ {0}
    BY <1>1, <1>4, DelegationsExtend
    DEF InProject, CInv, Proved!IInv, Proved!GoodChain
  <1>8. InProject(b)'
    BY <1>3, <1>4, <1>6, <1>7 DEF InProject
  <1>9. CheckedLive(b)'
    <2>1. /\ \A i \in 2 .. Len(chain) : Proved!checkNonWidening(chain[i - 1], chain[i])
          /\ b.before \subseteq revoked
      BY <1>1, <1>4, <1>6 DEF CheckedLive
    <2>2. b.stage = "IsRevoked" => b.checked < Len(chain)
      BY <1>1, <1>6
    <2>3. ASSUME b.stage # "denied", NEW i \in 1 .. n
          PROVE  chain[i].grantId \notin b.before
      <3>1. CASE i = n
        BY <1>1, <1>6, <2>1, <2>3, <3>1
      <3>2. CASE i \in 1 .. a.checked
        BY <1>1, <1>3, <1>4, <1>6, <3>2 DEF CheckedLive
      <3>. QED
        BY <1>5, <3>1, <3>2
    <2>4. b.stage = "granted" =>
            n = Len(chain) /\ Authority!Authorizes(chain[Len(chain)], b.action)
      BY <1>1, <1>6
    <2>. QED
      BY <1>3, <1>6, <1>7, <2>1, <2>2, <2>3, <2>4 DEF CheckedLive
  <1>. QED
    BY <1>1, <1>3, <1>6, <1>8, <1>9 DEF AskedOK

LEMMA AskStays ==
  ASSUME CInv, [CNext]_allVars, NEW r \in Requests, NEW a,
         a \in AskedRows, InProject(a), CheckedLive(a)
  PROVE  /\ InProject(a)' /\ CheckedLive(a)'
         /\ LET b == [a EXCEPT !.stage = "denied"]
            IN  b \in AskedRows /\ InProject(b)' /\ CheckedLive(b)'
  <1>. DEFINE b == [a EXCEPT !.stage = "denied"]
  <1>1. /\ a.grantId \in Proved!Stored' /\ revoked \subseteq revoked'
        /\ Proved!Chain(a.grantId)' = Proved!Chain(a.grantId)
        /\ grants'[a.grantId] = grants[a.grantId]
    BY DelegationsExtend DEF InProject
  <1>2. session'[a.sessionId] = session[a.sessionId]
    BY SessionsStay DEF InProject, CInv, AskedRows
  <1>3. /\ b \in AskedRows /\ b.stage = "denied" /\ b.checked = a.checked
        /\ b.sessionId = a.sessionId /\ b.grantId = a.grantId /\ b.action = a.action
        /\ b.caller = a.caller /\ b.before = a.before
    BY DEF AskedRows, Stages
  <1>. HIDE DEF b
  <1>4. InProject(a)' /\ InProject(b)'
    BY <1>1, <1>2, <1>3 DEF InProject
  <1>5. CheckedLive(a)' /\ CheckedLive(b)'
    BY <1>1, <1>3 DEF CheckedLive
  <1>. QED
    BY <1>3, <1>4, <1>5 DEF b

LEMMA AskedNext ==
  ASSUME CInv, [CNext]_allVars, NEW p \in Requests
  PROVE  asked'[p] \in AskedRows \union {NotAsked} /\ AskedOK(p)'
  <1>1. CASE asked'[p] = asked[p]
    <2>1. asked[p] \in AskedRows \union {NotAsked}
      BY DEF CInv, CTypeOK
    <2>2. CASE asked[p].stage = "none"
      BY <1>1, <2>1, <2>2 DEF AskedOK
    <2>3. CASE asked[p].stage # "none"
      BY <1>1, <2>1, <2>3, AskedFields, AskStays DEF AskedOK, CInv
    <2>. QED
      BY <2>2, <2>3
  <1>2. CASE /\ asked[p].stage = "IsRevoked"
             /\ asked'[p] = [asked[p] EXCEPT !.stage = "denied"]
    BY <1>2, AskedFields, AskStays DEF AskedOK, CInv
  <1>. QED
    BY <1>1, <1>2, AskedStep, AskEffect, IsRevokedEffect DEF CInv

LEMMA SessionsNext ==
  ASSUME CInv, [CNext]_allVars
  PROVE  /\ session' \in [Sessions -> SessionRow \union {NoRow}]
         /\ SessionsInProject'
  <1>1. CASE UNCHANGED session
    BY <1>1, DelegationsExtend DEF CInv, CTypeOK, SessionsInProject
  <1>2. ASSUME NEW s \in Sessions, NEW c \in Callers, NEW g \in Grants,
               BeginSession(s, c, g)
        PROVE  /\ session' \in [Sessions -> SessionRow \union {NoRow}]
               /\ SessionsInProject'
    <2>. DEFINE row == [projectId |-> grants[g].projectId, rootGrantId |-> g]
    <2>1. /\ g \in Proved!Stored /\ session' = [session EXCEPT ![s] = row]
          /\ UNCHANGED <<grants, revoked, pending, key>>
      BY <1>2, SameStored DEF BeginSession, delegations
    <2>2. grants[g].projectId \in Projects
      BY <2>1, Proved!ParentsStored, CaptureAssumption, NotaryAssumption
      DEF CInv, Proved!IInv, Authority!NoParent, Proved!NoParent, Authority!Form,
          Proved!Form
    <2>3. row \in SessionRow
      BY <2>2 DEF SessionRow
    <2>4. \A h \in Proved!Stored : h \in Proved!Stored' /\ grants'[h] = grants[h]
      BY DelegationsExtend
    <2>5. \A t \in Sessions : session'[t] = IF t = s THEN row ELSE session[t]
      BY <2>1 DEF CInv, CTypeOK
    <2>6. session' \in [Sessions -> SessionRow \union {NoRow}]
      BY <2>1, <2>3 DEF CInv, CTypeOK
    <2>. QED
      BY <2>1, <2>4, <2>5, <2>6 DEF CInv, SessionsInProject
  <1>. QED
    BY <1>1, <1>2
    DEF CNext, Ask, CloseSession, IsRevoked, Pipeline, Delegate, ServerRestarts, allVars

(***************************************************************************)
(* What a step does to a draft that has not reached the log.               *)
(***************************************************************************)
Drafting == {"NextSequence", "Last", "Append"}

LEMMA PipelineEffect ==
  ASSUME CInv, [CNext]_allVars, NEW p \in Requests
  PROVE  /\ draft'[p].eventId = draft[p].eventId
         /\ pc'[p] \in Drafting =>
              \/ pc[p] \in Drafting /\ draft'[p].sessionId = draft[p].sessionId
              \/ /\ asked'[p].stage = "granted"
                 /\ draft'[p].sessionId = asked'[p].sessionId
  <1>. DEFINE E == draft'[p].eventId = draft[p].eventId
              K == pc[p] \in Drafting /\ draft'[p].sessionId = draft[p].sessionId
              G == /\ asked'[p].stage = "granted"
                   /\ draft'[p].sessionId = asked'[p].sessionId
  <1>. USE DEF CInv, CTypeOK, TypeOK, Event, Drafting
  <1>1. CASE UNCHANGED vars
    BY <1>1 DEF vars
  <1>2. ASSUME NEW r \in Requests, NEW s \in Sessions, CloseSession(r, s)
        PROVE  E /\ (pc'[p] \in Drafting => K)
    BY <1>2 DEF CloseSession, EndSession, Arrive
  <1>3. ASSUME NEW r \in Requests, IsRevoked(r)
        PROVE  E /\ (pc'[p] \in Drafting => K \/ G)
    <2>1. CASE UNCHANGED vars
      BY <2>1 DEF vars
    <2>2. CASE /\ RecordAction(r, asked[r].sessionId)
               /\ asked'[r].stage = "granted"
      <3>1. asked'[r].sessionId = asked[r].sessionId
        BY <1>3, IsRevokedEffect
      <3>. QED
        BY <2>2, <3>1 DEF RecordAction, Arrive
    <2>. QED
      BY <1>3, <2>1, <2>2, IsRevokedEffect
  <1>4. ASSUME NEW r \in Requests, Step(r)
        PROVE  E /\ (pc'[p] \in Drafting => K)
    BY <1>4, SMTT(20) DEF Step, NextSequence, Last, AppendEvent, AppendConflict, End, BySession,
                UpsertAnchor
  <1>5. ASSUME NEW r \in Requests, Fault(r)
        PROVE  E /\ (pc'[p] \in Drafting => K)
    <2>1. CASE LastFails(r)
      BY <2>1 DEF LastFails
    <2>2. CASE RequestFails(r)
      BY <2>2 DEF RequestFails, store
    <2>. QED
      BY <1>5, <2>1, <2>2 DEF Fault
  <1>6. CASE Crash
    BY <1>6 DEF Crash
  <1>. QED
    BY <1>1, <1>2, <1>3, <1>4, <1>5, <1>6
    DEF CNext, BeginSession, Ask, Pipeline, Delegate, ServerRestarts, allVars

LEMMA RecordsNext ==
  ASSUME CInv, [CNext]_allVars, NEW p \in Requests
  PROVE  RecordsGranted(p)'
  <1>1. RecordsGranted(p)
    BY DEF CInv
  <1>2. CASE pc[p] \in Drafting /\ draft'[p].sessionId = draft[p].sessionId
    BY <1>1, <1>2, PipelineEffect, GrantedStays DEF CInv, RecordsGranted, Drafting
  <1>. QED
    BY <1>1, <1>2, PipelineEffect DEF RecordsGranted, Drafting

LEMMA RowsAreEvents ==
  ASSUME TypeOK, NEW i \in DOMAIN log
  PROVE  log[i].eventId \in Requests /\ log[i].sessionId \in Sessions
  <1>1. log \in Seq(Event)
    BY DEF TypeOK
  <1>2. log[i] \in Event
    BY <1>1
  <1>. QED
    BY <1>2 DEF Event

LEMMA LogNext ==
  ASSUME CInv, [CNext]_allVars
  PROVE  LogIsGranted'
  <1>1. TypeOK /\ [Next]_vars /\ TypeOK'
    BY PipelineStep, TypeNext DEF CInv, CTypeOK
  <1>2. ASSUME NEW i \in DOMAIN log
        PROVE  /\ asked'[log[i].eventId].stage = "granted"
               /\ asked'[log[i].eventId].sessionId = log[i].sessionId
    <2>1. log[i].eventId \in Requests
      BY <1>1, <1>2, RowsAreEvents
    <2>. QED
      BY <2>1, GrantedStays DEF CInv, LogIsGranted, By
  <1>3. CASE UNCHANGED log
    BY <1>2, <1>3 DEF LogIsGranted, By
  <1>4. ASSUME NEW r \in Requests, AppendEvent(r)
        PROVE  LogIsGranted'
    <2>1. /\ draft[r] \in Event /\ log' = Append(log, draft[r]) /\ log \in Seq(Event)
          /\ pc[r] = "Append"
      BY <1>1, <1>4 DEF AppendEvent, TypeOK
    <2>2. /\ DOMAIN log' = 1 .. Len(log) + 1
          /\ log'[Len(log) + 1] = draft[r]
          /\ \A i \in DOMAIN log : log'[i] = log[i]
          /\ DOMAIN log = 1 .. Len(log) /\ Len(log) \in Nat
      BY <2>1, AppendLemma
    <2>3. /\ draft[r].eventId = r /\ asked[r].stage = "granted"
          /\ asked[r].sessionId = draft[r].sessionId
      BY <2>1 DEF CInv, RecordsGranted
    <2>4. asked'[r] = asked[r]
      BY <2>3, GrantedStays DEF CInv
    <2>5. ASSUME NEW i \in DOMAIN log'
          PROVE  /\ asked'[log'[i].eventId].stage = "granted"
                 /\ asked'[log'[i].eventId].sessionId = log'[i].sessionId
      <3>1. CASE i \in DOMAIN log
        BY <1>2, <2>2, <3>1
      <3>2. CASE i = Len(log) + 1
        BY <2>2, <2>3, <2>4, <3>2
      <3>. QED
        BY <2>2, <3>1, <3>2
    <2>. QED
      BY <2>5 DEF LogIsGranted, By
  <1>5. UNCHANGED log \/ \E r \in Requests : AppendEvent(r)
    BY <1>1 DEF Next, Arrival, RecordAction, Notarize, EndSession, Arrive, Step,
                NextSequence, Last, AppendConflict, End, BySession, UpsertAnchor,
                Fault, LastFails, RequestFails, Crash, vars, store
  <1>. QED
    BY <1>3, <1>4, <1>5

(***************************************************************************)
(* The invariant holds at the start and every step keeps it.               *)
(***************************************************************************)
LEMMA CInvInit == CInit => CInv
  <1>. SUFFICES ASSUME CInit PROVE CInv
    OBVIOUS
  <1>1. TypeOK
    BY TypeInit DEF CInit
  <1>2. Proved!IInv
    BY SameInit, Proved!InitIInv, CaptureAssumption, NotaryAssumption
    DEF CInit, Authority!NoParent, Proved!NoParent, Authority!Form, Proved!Form
  <1>3. CTypeOK /\ SessionsInProject /\ \A r \in Requests : AskedOK(r)
    BY <1>1 DEF CInit, CTypeOK, SessionsInProject, AskedOK, NotAsked
  <1>4. (\A r \in Requests : RecordsGranted(r)) /\ LogIsGranted
    BY DEF CInit, Init, RecordsGranted, LogIsGranted
  <1>. QED
    BY <1>2, <1>3, <1>4 DEF CInv

LEMMA CInvNext == CInv /\ [CNext]_allVars => CInv'
  <1>. SUFFICES ASSUME CInv, [CNext]_allVars PROVE CInv'
    OBVIOUS
  <1>1. TypeOK'
    BY PipelineStep, TypeNext DEF CInv, CTypeOK
  <1>2. asked' \in [Requests -> AskedRows \union {NotAsked}]
    <2>1. \E f : asked' = [p \in Requests |-> f[p]]
      BY ZenonT(40) DEF CInv, CTypeOK, CNext, BeginSession, Ask, CloseSession, IsRevoked, Pipeline,
             Delegate, ServerRestarts, allVars
    <2>. QED
      BY <2>1, AskedNext
  <1>3. CTypeOK'
    BY <1>1, <1>2, SessionsNext DEF CTypeOK, AskedRows, NotAsked, SessionRow, NoRow
  <1>. QED
    BY <1>3, DelegationsExtend, SessionsNext, AskedNext, RecordsNext, LogNext DEF CInv

(***************************************************************************)
(* The inductive invariant of the capture service.                         *)
(***************************************************************************)
THEOREM CaptureInvariant == CSpec => []CInv
  BY CInvInit, CInvNext, PTL DEF CSpec

(***************************************************************************)
(* The capture service runs the notary pipeline as NotaryCore has it, so   *)
(* that all that is proved of NotaryCore holds beside delegations and      *)
(* revocations.                                                            *)
(***************************************************************************)
THEOREM CaptureRunsThePipeline == CSpec => Spec
  <1>1. CInit => Init
    BY DEF CInit
  <1>2. CInv /\ [CNext]_allVars => [Next]_vars
    BY PipelineStep DEF CInv
  <1>. QED
    BY <1>1, <1>2, CaptureInvariant, PTL DEF CSpec, Spec

(***************************************************************************)
(* It runs the delegations as module Delegation has them.                  *)
(***************************************************************************)
THEOREM CaptureRunsTheDelegations == CSpec => Proved!Spec
  <1>1. CInit => Proved!Init
    BY SameInit DEF CInit
  <1>. QED
    BY <1>1, DelegationStep, PTL DEF CSpec, Proved!Spec

(***************************************************************************)
(* The request and the chain behind an event on the log.                   *)
(***************************************************************************)
LEMMA ChainBehindEvent ==
  ASSUME CInv, NEW i \in DOMAIN log
  PROVE  /\ By(i) \in AskedRows /\ By(i).stage = "granted"
         /\ By(i).sessionId = log[i].sessionId
         /\ InProject(By(i)) /\ CheckedLive(By(i))
         /\ ChainOf(i) = Proved!Chain(By(i).grantId)
         /\ Proved!GoodChain(ChainOf(i), Proved!Rows, grants[By(i).grantId])
         /\ Len(ChainOf(i)) \in Nat \ {0} /\ DOMAIN ChainOf(i) = 1 .. Len(ChainOf(i))
  <1>1. log[i].eventId \in Requests
    BY RowsAreEvents DEF CInv, CTypeOK
  <1>2. By(i).stage = "granted" /\ By(i).sessionId = log[i].sessionId
    BY DEF CInv, LogIsGranted
  <1>3. By(i) \in AskedRows /\ InProject(By(i)) /\ CheckedLive(By(i))
    BY <1>1, <1>2, AskedFields DEF CInv, AskedOK, By
  <1>4. ChainOf(i) = Proved!Chain(By(i).grantId)
    BY SameChain DEF ChainOf
  <1>5. Proved!GoodChain(ChainOf(i), Proved!Rows, grants[By(i).grantId])
    BY <1>3, <1>4 DEF CInv, Proved!IInv, InProject
  <1>. QED
    BY <1>2, <1>3, <1>4, <1>5 DEF Proved!GoodChain

(***************************************************************************)
(* ensureNotRevoked reads grant by grant while Revoke goes on: still no    *)
(* event is recorded under a chain a grant of which was revoked when the   *)
(* request arrived.                                                        *)
(***************************************************************************)
THEOREM NothingUnderRevoked == CSpec => []RecordedUnderLiveGrants
  <1>1. ASSUME CInv, NEW i \in DOMAIN log
        PROVE  Authority!Ids(ChainOf(i)) \intersect By(i).before = {}
    <2>1. \A j \in DOMAIN ChainOf(i) : ChainOf(i)[j].grantId \notin By(i).before
      BY <1>1, ChainBehindEvent DEF CheckedLive
    <2>. QED
      BY <2>1 DEF Authority!Ids
  <1>2. CInv => RecordedUnderLiveGrants
    BY <1>1 DEF RecordedUnderLiveGrants
  <1>. QED
    BY <1>2, CaptureInvariant, PTL

(***************************************************************************)
(* Every event is authorized by the leaf of its chain, and where the       *)
(* delegated grants name their capabilities its action is among those of   *)
(* each.                                                                   *)
(***************************************************************************)
THEOREM NothingBeyondAuthority == CSpec => []RecordedWithinAuthority
  <1>1. ASSUME CInv, NEW i \in DOMAIN log
        PROVE  LET chain == ChainOf(i)
                   action == By(i).action
               IN  /\ Authority!Authorizes(chain[Len(chain)], action)
                   /\ (\A j \in 2 .. Len(chain) : chain[j].capabilities # {}) =>
                        \A j \in 2 .. Len(chain) :
                          action.actionType \in chain[j].capabilities
    <2>. DEFINE chain == ChainOf(i)
                action == By(i).action
                n == Len(chain)
    <2>1. /\ Authority!Authorizes(chain[n], action)
          /\ \A j \in 2 .. n : Proved!checkNonWidening(chain[j - 1], chain[j])
          /\ Proved!Narrows(chain) /\ n \in Nat \ {0}
      BY <1>1, ChainBehindEvent DEF CheckedLive, Proved!GoodChain
    <2>2. ASSUME \A j \in 2 .. n : chain[j].capabilities # {}, NEW j \in 2 .. n
          PROVE  action.actionType \in chain[j].capabilities
      <3>1. n \in 2 .. n /\ j <= n
        BY <2>1
      <3>2. chain[n].capabilities \subseteq chain[j].capabilities
        BY <2>1, <2>2, <3>1 DEF Proved!Narrows
      <3>3. action.actionType \in chain[n].capabilities
        BY <2>1, <2>2, <3>1 DEF Authority!Authorizes
      <3>. QED
        BY <3>2, <3>3
    <2>. QED
      BY <2>1, <2>2
  <1>2. CInv => RecordedWithinAuthority
    BY <1>1 DEF RecordedWithinAuthority
  <1>. QED
    BY <1>2, CaptureInvariant, PTL

(***************************************************************************)
(* Session, root grant, chain and caller of every event are of one         *)
(* project.                                                                *)
(***************************************************************************)
THEOREM SessionsKeepProject == CSpec => []OneProject
  <1>1. ASSUME CInv, NEW i \in DOMAIN log
        PROVE  LET s == session[log[i].sessionId]
               IN  /\ s.projectId \in Access[By(i).caller]
                   /\ grants[s.rootGrantId].projectId = s.projectId
                   /\ \A j \in DOMAIN ChainOf(i) :
                        ChainOf(i)[j].projectId = s.projectId
    <2>1. /\ InProject(By(i)) /\ By(i).sessionId = log[i].sessionId
          /\ log[i].sessionId \in Sessions
      BY <1>1, ChainBehindEvent DEF AskedRows
    <2>2. \A j \in DOMAIN ChainOf(i) :
            ChainOf(i)[j].projectId = grants[By(i).grantId].projectId
      BY <1>1, ChainBehindEvent DEF Proved!GoodChain
    <2>. QED
      BY <1>1, <2>1, <2>2 DEF InProject, CInv, SessionsInProject
  <1>2. CInv => OneProject
    BY <1>1 DEF OneProject
  <1>. QED
    BY <1>2, CaptureInvariant, PTL
==============================================================================
