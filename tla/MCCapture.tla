------------------------------ MODULE MCCapture ------------------------------
(***************************************************************************)
(* Small instances of Capture for TLC.                                     *)
(***************************************************************************)
EXTENDS Capture, TLC

CONSTANTS alice, agent, p1, p2

AgentInOne == [c \in Callers |-> IF c = alice THEN {p1, p2} ELSE {p1}]

Form(capabilities, globs, value, depth) ==
  [capabilities |-> capabilities, resourceGlobs |-> globs,
   maxValueCents |-> value, maxDepth |-> depth]

Shop == [text |-> <<"shop">>, open |-> TRUE]

(***************************************************************************)
(* An open form with a bound on depth, one capability, and two of them     *)
(* with a bound on where.                                                  *)
(***************************************************************************)
Forms == {Form({}, {}, 0, 2), Form({"read"}, {}, 0, 0),
          Form({"read", "pay"}, {Shop}, 0, 0)}
Pay == {[actionType |-> "pay", resource |-> <<"shop", "cart">>, valueCents |-> 1],
        [actionType |-> "pay", resource |-> <<"bank">>, valueCents |-> 1]}

Symmetric == Permutations(Grants) \union Permutations(Requests)
=============================================================================
