-------------------------------- MODULE Graph --------------------------------
(***************************************************************************)
(* internal/core/graph/graph.go: whether a chain of grants verifies, and   *)
(* whether a grant authorizes an action.                                   *)
(*                                                                         *)
(* A grant is a record with the fields grantId, parentGrantId,             *)
(* capabilities (a set), resourceGlobs (a set), maxValueCents, maxDepth,   *)
(* expiresAt, and signedBy: the notary key that signed its canonical form. *)
(* A chain is a sequence of grants, the root first.  An action has an      *)
(* actionType, a resource and a valueCents.                                *)
(***************************************************************************)
EXTENDS Integers, Sequences

NoParent == ""
NoExpiry == 0

(***************************************************************************)
(* A glob is the text before its trailing star and whether it has one;     *)
(* text is a sequence of path elements.  "*" is the empty open glob.       *)
(***************************************************************************)
matchGlob(glob, resource) ==
  IF glob.open
    THEN /\ Len(glob.text) <= Len(resource)
         /\ SubSeq(resource, 1, Len(glob.text)) = glob.text
    ELSE resource = glob.text

matchesResource(globs, resource) == \E glob \in globs : matchGlob(glob, resource)

(***************************************************************************)
(* Wrong variant: the action type is not looked at.                        *)
(***************************************************************************)
AuthorizesAnyType(grant, action) ==
  /\ grant.resourceGlobs # {} /\ action.resource # <<>> =>
       matchesResource(grant.resourceGlobs, action.resource)
  /\ grant.maxValueCents > 0 => action.valueCents <= grant.maxValueCents

(***************************************************************************)
(* No capabilities, no globs, no resource and a bound of 0 or less each    *)
(* leave their check out.                                                  *)
(***************************************************************************)
Authorizes(grant, action) ==
  /\ grant.capabilities # {} => action.actionType \in grant.capabilities
  /\ grant.resourceGlobs # {} /\ action.resource # <<>> =>
       matchesResource(grant.resourceGlobs, action.resource)
  /\ grant.maxValueCents > 0 => action.valueCents <= grant.maxValueCents

checkExpiry(grant, now) ==
  grant.expiresAt = NoExpiry \/ grant.expiresAt >= now

(***************************************************************************)
(* Wrong variant: one capability in common is enough.                      *)
(***************************************************************************)
checkOverlap(parent, child) ==
  parent.capabilities # {} => child.capabilities \intersect parent.capabilities # {}

checkNonWidening(parent, child) ==
  parent.capabilities # {} => child.capabilities \subseteq parent.capabilities

(***************************************************************************)
(* Wrong variant: only the last signature is looked at.                    *)
(***************************************************************************)
VerifyLastSigned(chain, now, key) ==
  /\ chain # <<>>
  /\ chain[1].parentGrantId = NoParent
  /\ chain[1].maxDepth > 0 => Len(chain) - 1 <= chain[1].maxDepth
  /\ \A i \in DOMAIN chain : checkExpiry(chain[i], now)
  /\ \A i \in 2 .. Len(chain) :
       /\ chain[i].parentGrantId = chain[i - 1].grantId
       /\ checkNonWidening(chain[i - 1], chain[i])
       /\ i = Len(chain) => chain[i].signedBy = key

(***************************************************************************)
(* Whether a grant of the chain is revoked is not asked.                   *)
(***************************************************************************)
VerifyChain(chain, now, key) ==
  /\ chain # <<>>
  /\ chain[1].parentGrantId = NoParent
  /\ chain[1].maxDepth > 0 => Len(chain) - 1 <= chain[1].maxDepth
  /\ \A i \in DOMAIN chain : checkExpiry(chain[i], now)
  /\ \A i \in 2 .. Len(chain) :
       /\ chain[i].parentGrantId = chain[i - 1].grantId
       /\ checkNonWidening(chain[i - 1], chain[i])
       /\ chain[i].signedBy = key
=============================================================================
