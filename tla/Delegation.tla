----------------------------- MODULE Delegation -----------------------------
(***************************************************************************)
(* DelegationService (internal/service/delegation.go) over the grants and  *)
(* revocations tables (internal/adapters/store/grants.go).  Handlers run   *)
(* concurrently and each store call is one statement.  Grants are never    *)
(* updated: their ids are random and PutGrant's ON CONFLICT never applies. *)
(***************************************************************************)
EXTENDS Graph, FiniteSets

CONSTANTS
  Grants,          \* grant ids that IssueRootGrant and Delegate draw
  Projects,
  Callers,         \* authenticated callers: users and API keys
  Users,           \* the callers that are users
  Access,          \* the projects each caller has access to
  Requested,       \* the capabilities and scopes that requests carry
  SeedConfigured,  \* whether NAL_NOTARY_SEED is set
  MaxKeys          \* bound: notary keys generated by restarts without a seed

(***************************************************************************)
(* What a request fills in of a grant; the capabilities may be left out.   *)
(***************************************************************************)
Form ==
  [capabilities : SUBSET UNION {f.capabilities : f \in Requested},
   resourceGlobs : {f.resourceGlobs : f \in Requested},
   maxValueCents : {f.maxValueCents : f \in Requested},
   maxDepth : {f.maxDepth : f \in Requested}]

ASSUME DelegationAssumption ==
  /\ NoParent \notin Grants
  /\ Requested \subseteq Form
  /\ \A form \in Requested : form.maxDepth \in Int
  /\ Users \subseteq Callers
  /\ Access \in [Callers -> SUBSET Projects]
  /\ SeedConfigured \in BOOLEAN
  /\ MaxKeys \in Nat

VARIABLES
  grants,   \* the grants table
  revoked,  \* the revocations table
  pending,  \* grants that a Delegate has signed and not yet put
  key       \* the notary's signing key

vars == <<grants, revoked, pending, key>>

Stored == DOMAIN grants

(***************************************************************************)
(* GrantChain: one recursive query from the leaf up, ordered root first.   *)
(***************************************************************************)
Chain(g) ==
  LET up[h \in Stored] ==
        IF grants[h].parentGrantId = NoParent
          THEN <<grants[h]>>
          ELSE Append(up[grants[h].parentGrantId], grants[h])
  IN  up[g]

Ids(chain) == {chain[i].grantId : i \in DOMAIN chain}

(***************************************************************************)
(* Of a grant the service stores: IssueRootGrant and Delegate set no       *)
(* expires_at, and nothing else stores grants.  form is what the request   *)
(* carries.                                                                *)
(***************************************************************************)
Grant(g, parent, project, form, k) ==
  [grantId |-> g, parentGrantId |-> parent, projectId |-> project,
   capabilities |-> form.capabilities, resourceGlobs |-> form.resourceGlobs,
   maxValueCents |-> form.maxValueCents, maxDepth |-> form.maxDepth,
   expiresAt |-> NoExpiry, signedBy |-> k]

NewGrant(g, parent, project, form) == Grant(g, parent, project, form, key)

(***************************************************************************)
(* The VerifyChain RPC, and what RecordAction asks of the same verifier.   *)
(* With no expires_at the time plays no part.                              *)
(***************************************************************************)
Valid(g) == VerifyChain(Chain(g), 0, key)

Unused(g) == g \notin Stored /\ g \notin DOMAIN pending

Init ==
  /\ grants = <<>>
  /\ revoked = {}
  /\ pending = <<>>
  /\ key = 0

With(f, g, x) == [h \in DOMAIN f \union {g} |-> IF h = g THEN x ELSE f[h]]
Without(f, g) == [h \in DOMAIN f \ {g} |-> f[h]]

(***************************************************************************)
(* Only users issue root grants, and the request has no capabilities.      *)
(***************************************************************************)
IssueRootGrant(g, c, project, form) ==
  /\ Unused(g)
  /\ c \in Users
  /\ project \in Access[c]
  /\ grants' = With(grants, g, NewGrant(g, NoParent, project,
                                        [form EXCEPT !.capabilities = {}]))
  /\ UNCHANGED <<revoked, pending, key>>

(***************************************************************************)
(* Wrong variant: the child's project is one of the caller's.              *)
(***************************************************************************)
DelegateAnywhere(g, c, parent, form) ==
  /\ Unused(g)
  /\ parent \in Stored
  /\ parent \notin revoked
  /\ \E project \in Access[c] :
       pending' = With(pending, g, NewGrant(g, parent, project, form))
  /\ UNCHANGED <<grants, revoked, key>>

(***************************************************************************)
(* Delegate reads the parent and asks whether the parent, and no ancestor  *)
(* of it, is revoked; the child is put by a later statement.  What the     *)
(* child asks for is not compared with the parent.                         *)
(***************************************************************************)
Delegate(g, c, parent, form) ==
  /\ Unused(g)
  /\ parent \in Stored
  /\ grants[parent].projectId \in Access[c]
  /\ parent \notin revoked
  /\ pending' = With(pending, g,
                     NewGrant(g, parent, grants[parent].projectId, form))
  /\ UNCHANGED <<grants, revoked, key>>

PutGrant(g) ==
  /\ g \in DOMAIN pending
  /\ grants' = With(grants, g, pending[g])
  /\ pending' = Without(pending, g)
  /\ UNCHANGED <<revoked, key>>

(***************************************************************************)
(* Wrong variant: the grant is not looked up first.                        *)
(***************************************************************************)
RevokeUnread(g, c) ==
  /\ revoked' = revoked \union {g}
  /\ UNCHANGED <<grants, pending, key>>

Revoke(g, c) ==
  /\ g \in Stored
  /\ grants[g].projectId \in Access[c]
  /\ revoked' = revoked \union {g}
  /\ UNCHANGED <<grants, pending, key>>

(***************************************************************************)
(* The server starts again: calls under way are lost, and without a seed   *)
(* the notary key is a new one.                                            *)
(***************************************************************************)
Restart ==
  /\ SeedConfigured \/ key < MaxKeys
  /\ key' = IF SeedConfigured THEN key ELSE key + 1
  /\ pending' = <<>>
  /\ UNCHANGED <<grants, revoked>>

Handler(g) ==
  \/ \E c \in Callers, project \in Projects, form \in Requested :
       IssueRootGrant(g, c, project, form)
  \/ \E c \in Callers, parent \in Stored, form \in Requested :
       Delegate(g, c, parent, form)
  \/ PutGrant(g)
  \/ \E c \in Callers : Revoke(g, c)

Next == (\E g \in Grants : Handler(g)) \/ Restart

Spec == Init /\ [][Next]_vars

Fairness == \A g \in Grants : WF_vars(PutGrant(g))
FairSpec == Spec /\ Fairness
-----------------------------------------------------------------------------
IsGrant(g, x, parents, keys) ==
  \E parent \in parents, p \in Projects, f \in Form, k \in keys :
    x = Grant(g, parent, p, f, k)

(***************************************************************************)
(* Every stored or signed grant is one; the parent it names is stored, so  *)
(* the recursive query always ends at a root.                              *)
(***************************************************************************)
TypeOK ==
  /\ Stored \subseteq Grants /\ DOMAIN pending \subseteq Grants \ Stored
  /\ \A g \in Stored : IsGrant(g, grants[g], Stored \union {NoParent}, 0 .. key)
  /\ \A g \in DOMAIN pending : IsGrant(g, pending[g], Stored, 0 .. key)
  /\ revoked \subseteq Stored
  /\ key \in 0 .. MaxKeys

(***************************************************************************)
(* The chain of a stored grant leads, each link one delegation, to a root, *)
(* and stays in one project: access to a grant's project is access to the  *)
(* project of everything it was derived from.                              *)
(***************************************************************************)
ChainsKeepProject ==
  \A g \in Stored :
    LET chain == Chain(g)
    IN  /\ chain[1].parentGrantId = NoParent
        /\ chain[Len(chain)].grantId = g
        /\ Cardinality(Ids(chain)) = Len(chain)
        /\ \A i \in DOMAIN chain : chain[i].projectId = grants[g].projectId

(***************************************************************************)
(* Along a chain that verifies and whose delegated grants all name their   *)
(* capabilities, no capability appears that an ancestor did not have: the  *)
(* pairwise check of VerifyChain adds up.                                  *)
(***************************************************************************)
CapabilitiesAttenuate ==
  \A g \in Stored :
    LET chain == Chain(g)
    IN  Valid(g) /\ (\A i \in 2 .. Len(chain) : chain[i].capabilities # {}) =>
          \A i, j \in 2 .. Len(chain) :
            i <= j => chain[j].capabilities \subseteq chain[i].capabilities

(***************************************************************************)
(* What becomes of verdicts.  A chain that was refused stays refused, and  *)
(* so does everything delegated under it: no later grant, revocation or    *)
(* notary key makes it verify.  A chain that verifies and has no revoked   *)
(* grant goes on verifying until a restart without a seed changes the key. *)
(* (Of chains with a revoked grant this says only that they do not come    *)
(* back: VerifyChain does not refuse them.)                                *)
(***************************************************************************)
VerdictKept(g) ==
  /\ Valid(g)' => Valid(g)
  /\ Valid(g) /\ grants[g].parentGrantId # NoParent => Valid(grants[g].parentGrantId)
  /\ Ids(Chain(g)) \intersect revoked' = {} /\ Valid(g) /\ ~Valid(g)' =>
       ~SeedConfigured /\ key' # key
VerdictsKept == [][\A g \in Stored : VerdictKept(g)]_vars

(***************************************************************************)
(* delegation.proto: "Revoke a grant and its descendants".  No Delegate is *)
(* accepted under a grant one of whose ancestors was revoked before.       *)
(***************************************************************************)
RevokedBranchEnds ==
  [][\A g \in DOMAIN pending' \ DOMAIN pending :
       Ids(Chain(pending'[g].parentGrantId)) \intersect revoked = {}]_vars

(***************************************************************************)
(* Delegations.tsx: "Authority attenuates monotonically from a root        *)
(* principal down each signed delegation."  Whatever the leaf of a chain   *)
(* that verifies authorizes, every ancestor authorizes.                    *)
(***************************************************************************)
AuthorityAttenuates(actions) ==
  \A g \in Stored : Valid(g) =>
    \A action \in actions :
      Authorizes(grants[g], action) =>
        \A i \in DOMAIN Chain(g) : Authorizes(Chain(g)[i], action)
=============================================================================
