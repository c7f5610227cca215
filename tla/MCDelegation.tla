---------------------------- MODULE MCDelegation ----------------------------
(***************************************************************************)
(* Small instances of Delegation for TLC.                                  *)
(***************************************************************************)
EXTENDS Delegation, TLC

CONSTANTS alice, agent, p1, p2

OneProject == [c \in Callers |-> {p1}]
AgentInOne == [c \in Callers |-> IF c = alice THEN {p1, p2} ELSE {p1}]

Form1(capabilities, value, depth) ==
  [capabilities |-> capabilities, resourceGlobs |-> {},
   maxValueCents |-> value, maxDepth |-> depth]

(***************************************************************************)
(* No capabilities, one, two; a bound on depth.                            *)
(***************************************************************************)
Forms == {Form1({}, 0, 2), Form1({"read"}, 0, 0), Form1({"read", "pay"}, 0, 0)}

GrantSymmetry == Permutations(Grants)

(***************************************************************************)
(* A bound on the value, and a form that leaves it out.                    *)
(***************************************************************************)
ValueForms == {Form1({}, 1, 0), Form1({"pay"}, 0, 0), Form1({"pay"}, 1, 0)}
Actions == [actionType : {"pay"}, resource : {<<>>}, valueCents : {1, 2}]
LeafWithinAncestors == AuthorityAttenuates(Actions)
=============================================================================
