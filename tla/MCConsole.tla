----------------------------- MODULE MCConsole -----------------------------
(***************************************************************************)
(* A small instance of Console for TLC: Ann has projects 1 and 2, Bob 3;   *)
(* project 4 is not made yet.  Pages have two rows, so project 1 has two   *)
(* of them; row 4 is recorded while the console is open.                   *)
(***************************************************************************)
EXTENDS Console

CONSTANTS ann, bob, MaxEvents

MCOwns == (ann :> {1, 2}) @@ (bob :> {3})
MCRowsOf == <<{2, 3, 4, 6}, {5}, {1}, {}>>
MCIssued == <<[project |-> 1, revoked |-> FALSE]>>
MCQueries == ("re" :> <<"receipts", "verify">>) @@ ("x" :> <<>>)

\* Nothing recorded yet; a grant without events; events on two surfaces; all.
MCTallies ==
  {[events |-> 0, surfaces |-> 0, grants |-> 0, links |-> 0],
   [events |-> 0, surfaces |-> 0, grants |-> 1, links |-> 0],
   [events |-> 1, surfaces |-> 1, grants |-> 1, links |-> 0],
   [events |-> 1, surfaces |-> 2, grants |-> 1, links |-> 1]}

(***************************************************************************)
(* The browser starts without a cookie or with Ann's, and remembers no     *)
(* project or one of Bob's.                                                *)
(***************************************************************************)
MCInit == Init /\ cookie \in {None, ann} /\ stored \in {0, 3}
MCSpec == MCInit /\ [][Next]_vars

(***************************************************************************)
(* Bound: what users, other tabs and the network do in all, one less once  *)
(* the shell was touched.  Answers that come as they should and rows that  *)
(* are recorded are not counted.                                           *)
(***************************************************************************)
ShellTouched == palette # Closed \/ rail \/ drawer \/ theme.stored # "light"
                  \/ theme.os # "light" \/ theme.other
Events == moves + faults + clicks + refused
FewEvents == Events < IF ShellTouched THEN MaxEvents - 1 ELSE MaxEvents

SlotSymmetry == Permutations(Slots)
=============================================================================
