---------------------------- MODULE MerkleLists ----------------------------
(***************************************************************************)
(* What the tree of Merkle is for, stated over every list of leaves: the   *)
(* list of ListSpec starts empty and grows one leaf at a time.             *)
(***************************************************************************)
EXTENDS Merkle

CONSTANTS
  Data,      \* what leaves are made of
  MaxLeaves  \* bound: the length of the list

VARIABLE leaves

ListInit == leaves = <<>>

GrowList ==
  /\ Len(leaves) < MaxLeaves
  /\ \E d \in Data : leaves' = Append(leaves, d)

ListSpec == ListInit /\ [][GrowList]_leaves

Indexes == 0 .. Len(leaves) - 1
Distinct(list) == \A i, j \in DOMAIN list : i # j => list[i] # list[j]
DistinctLists ==
  UNION {{list \in [1 .. n -> Data] : Distinct(list)} : n \in 0 .. MaxLeaves}
RootOf == [list \in DistinctLists |-> Root(list)]

(***************************************************************************)
(* Completeness: the path Path builds for an index passes Verify with that *)
(* leaf, index and root, at every length, odd levels included.             *)
(***************************************************************************)
PathVerifies ==
  LET root == Root(leaves)
  IN  \A i \in Indexes : Verify(leaves[i + 1], Path(leaves, i), root, i)

(***************************************************************************)
(* Soundness: a path of the list verifies, at an index of the list, only   *)
(* the leaf that stands at that index; a proof built for the wrong index   *)
(* is a proof of another event.                                            *)
(***************************************************************************)
OnlyItsLeafVerifies ==
  LET root == Root(leaves)
  IN  \A i \in Indexes :
        LET path == Path(leaves, i)
        IN  \A j \in Indexes, d \in Data :
              Verify(d, path, root, j) => d = leaves[i + 1] /\ d = leaves[j + 1]

(***************************************************************************)
(* Lists of distinct leaves have distinct roots, so the root of a session  *)
(* stands for its list of events.  (Doubling the last leaf of an odd level *)
(* does not change the root; content hashes of distinct events never do    *)
(* that.)                                                                  *)
(***************************************************************************)
RootBindsList ==
  leaves # <<>> /\ Distinct(leaves) =>
    LET root == Root(leaves)
    IN  \A other \in DistinctLists : RootOf[other] = root => other = leaves
=============================================================================
