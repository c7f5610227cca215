------------------------------- MODULE Capture -------------------------------
(***************************************************************************)
(* CaptureService (internal/service/capture.go) between the delegations    *)
(* and the notary: BeginSession, and the checks RecordAction makes before  *)
(* it takes a sequence number.  Grants come from module Delegation, the    *)
(* rest of the pipeline from NotaryCore, and all of them interleave.       *)
(*                                                                         *)
(* Rows that never change once they are there (a session's project and     *)
(* root, a chain of grants) are read when the request arrives: a later     *)
(* read returns the same.  Whether a grant is revoked does change: it is   *)
(* read grant by grant, the root first.                                    *)
(***************************************************************************)
EXTENDS NotaryCore

CONSTANTS
  Grants, Projects, Callers, Users, Access, Requested, SeedConfigured,
  Actions  \* [actionType, resource, valueCents] of RecordAction requests

VARIABLES
  grants, revoked, pending, key,
  session,  \* the sessions table: the project and root grant of each
  asked     \* what each RecordAction asks, and how far its checks are

Authority == INSTANCE Delegation WITH MaxKeys <- MaxFaults

ASSUME CaptureAssumption ==
  /\ Authority!NoParent \notin Grants
  /\ Requested \subseteq Authority!Form
  /\ \A form \in Requested : form.maxDepth \in Int
  /\ Users \subseteq Callers
  /\ Access \in [Callers -> SUBSET Projects]
  /\ SeedConfigured \in BOOLEAN

delegations == <<grants, revoked, pending, key>>
allVars == <<vars, delegations, session, asked>>

NoRow == [projectId |-> "none", rootGrantId |-> "none"]

(***************************************************************************)
(* checked counts the grants of the chain found not to be revoked.  caller *)
(* and before, the revocations at the time of the request, are history.    *)
(***************************************************************************)
NotAsked == [stage |-> "none", checked |-> 0]

CInit ==
  /\ Init
  /\ Authority!Init
  /\ session = [s \in Sessions |-> NoRow]
  /\ asked = [r \in Requests |-> NotAsked]

(***************************************************************************)
(* BeginSession looks at the grant's project, not at its revocation.       *)
(***************************************************************************)
BeginSession(s, c, g) ==
  /\ session[s] = NoRow
  /\ g \in Authority!Stored
  /\ grants[g].projectId \in Access[c]
  /\ session' = [session EXCEPT ![s] =
                   [projectId |-> grants[g].projectId, rootGrantId |-> g]]
  /\ UNCHANGED <<vars, delegations, asked>>

\* Wrong variant: the projects are not compared.
AnyProject(s, g) == TRUE

SameProject(s, g) == session[s].projectId = grants[g].projectId

(***************************************************************************)
(* Everything up to the first IsRevoked.  A request that fails one of      *)
(* these checks changes nothing.                                           *)
(***************************************************************************)
Ask(r, s, c, g, action) ==
  /\ pc[r] = "idle"
  /\ asked[r].stage = "none"
  /\ session[s] # NoRow
  /\ g \in Authority!Stored
  /\ session[s].projectId \in Access[c]
  /\ SameProject(s, g)
  /\ Authority!Valid(g)
  /\ asked' = [asked EXCEPT ![r] =
                 [stage |-> "IsRevoked", checked |-> 0, sessionId |-> s,
                  grantId |-> g, action |-> action, caller |-> c,
                  before |-> revoked]]
  /\ UNCHANGED <<vars, delegations, session>>

\* Wrong variant: only the leaf is looked up.
LeafOnly(r) == Len(Authority!Chain(asked[r].grantId))

\* The loop of ensureNotRevoked over the chain, the root first.
NextUnchecked(r) == asked[r].checked + 1

(***************************************************************************)
(* ensureNotRevoked for one more grant of the chain.  After the last one   *)
(* Authorizes decides, and NotaryCore's RecordAction takes over.           *)
(***************************************************************************)
IsRevoked(r) ==
  LET chain == Authority!Chain(asked[r].grantId)
      n == NextUnchecked(r)
      live == chain[n].grantId \notin revoked
      granted == /\ live
                 /\ n = Len(chain)
                 /\ Authority!Authorizes(chain[n], asked[r].action)
      stage == IF granted THEN "granted"
               ELSE IF live /\ n < Len(chain) THEN "IsRevoked" ELSE "denied"
  IN  /\ asked[r].stage = "IsRevoked"
      /\ asked' = [asked EXCEPT ![r].checked = n, ![r].stage = stage]
      /\ IF granted THEN RecordAction(r, asked[r].sessionId) ELSE UNCHANGED vars
      /\ UNCHANGED <<delegations, session>>

(***************************************************************************)
(* EndSession checks access to the session's project and nothing else.     *)
(***************************************************************************)
CloseSession(r, s) ==
  /\ asked[r].stage = "none"
  /\ session[s] # NoRow
  /\ EndSession(r, s)
  /\ UNCHANGED <<delegations, session, asked>>

Pipeline(r) ==
  /\ Step(r) \/ Fault(r)
  /\ UNCHANGED <<delegations, session, asked>>

Delegate ==
  /\ \E g \in Grants : Authority!Handler(g)
  /\ UNCHANGED <<vars, session, asked>>

(***************************************************************************)
(* The server stops and starts: checks under way are lost as well.         *)
(***************************************************************************)
ServerRestarts ==
  /\ Crash
  /\ Authority!Restart
  /\ asked' = [r \in Requests |->
                 IF asked[r].stage = "IsRevoked"
                   THEN [asked[r] EXCEPT !.stage = "denied"] ELSE asked[r]]
  /\ UNCHANGED session

CNext ==
  \/ \E s \in Sessions, c \in Callers, g \in Grants : BeginSession(s, c, g)
  \/ \E r \in Requests, s \in Sessions :
       \/ \E c \in Callers, g \in Grants, action \in Actions : Ask(r, s, c, g, action)
       \/ CloseSession(r, s)
  \/ \E r \in Requests : IsRevoked(r) \/ Pipeline(r)
  \/ Delegate
  \/ ServerRestarts

CSpec == CInit /\ [][CNext]_allVars
-----------------------------------------------------------------------------
(***************************************************************************)
(* The request behind the event at position i of the log, and the chain it *)
(* was recorded under.                                                     *)
(***************************************************************************)
By(i) == asked[log[i].eventId]
ChainOf(i) == Authority!Chain(By(i).grantId)

(***************************************************************************)
(* Revoke one grant and the branch records nothing more: no event on the   *)
(* log was asked for at a time when a grant of its chain was revoked.      *)
(***************************************************************************)
RecordedUnderLiveGrants ==
  \A i \in DOMAIN log : Authority!Ids(ChainOf(i)) \intersect By(i).before = {}

(***************************************************************************)
(* What an event records is within what every delegated grant of its chain *)
(* names: where each names its capabilities, the action is among those of  *)
(* each, and its own grant's scope holds the resource and the value.       *)
(***************************************************************************)
RecordedWithinAuthority ==
  \A i \in DOMAIN log :
    LET chain == ChainOf(i)
        action == By(i).action
    IN  /\ Authority!Authorizes(chain[Len(chain)], action)
        /\ (\A j \in 2 .. Len(chain) : chain[j].capabilities # {}) =>
             \A j \in 2 .. Len(chain) : action.actionType \in chain[j].capabilities

(***************************************************************************)
(* A session stays in one project: that of its root grant, of every grant  *)
(* its events were recorded under, and one each of their callers may use.  *)
(***************************************************************************)
OneProject ==
  \A i \in DOMAIN log :
    LET s == session[log[i].sessionId]
    IN  /\ s.projectId \in Access[By(i).caller]
        /\ grants[s.rootGrantId].projectId = s.projectId
        /\ \A j \in DOMAIN ChainOf(i) : ChainOf(i)[j].projectId = s.projectId
=============================================================================
