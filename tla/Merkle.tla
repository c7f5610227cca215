------------------------------- MODULE Merkle -------------------------------
(***************************************************************************)
(* internal/core/merkle/merkle.go: the root of a list of leaves, the path  *)
(* of one of them, and the check of a path.  SHA-256 with its 0x00 / 0x01  *)
(* prefix is a free constructor: equal hashes have equal preimages, and a  *)
(* leaf's hash is never a node's.                                          *)
(***************************************************************************)
EXTENDS Integers, Sequences

leafHash(data) == <<"leaf", data>>
\* Wrong variant: the two children are hashed in sorted order.
sortedHash(left, right) == <<"node", {left, right}>>

nodeHash(left, right) == <<"node", left, right>>

(***************************************************************************)
(* The 32 zero bytes: the root of no leaves.                               *)
(***************************************************************************)
Zero32 == <<"zero">>

(***************************************************************************)
(* Wrong variant: an odd last node is dropped.                             *)
(***************************************************************************)
reduceEven(level) ==
  [i \in 1 .. Len(level) \div 2 |-> nodeHash(level[2 * i - 1], level[2 * i])]

(***************************************************************************)
(* The next level up; an odd last node is paired with itself.              *)
(***************************************************************************)
reduce(level) ==
  [i \in 1 .. (Len(level) + 1) \div 2 |->
     nodeHash(level[2 * i - 1],
              IF 2 * i <= Len(level) THEN level[2 * i] ELSE level[2 * i - 1])]

(***************************************************************************)
(* Levels(leaves)[k] is the k-th level above the hashed leaves; the root   *)
(* is the first level of one node, Height(leaves) levels up.  There are    *)
(* never more levels than leaves.                                          *)
(***************************************************************************)
Levels(leaves) ==
  LET level[k \in 0 .. Len(leaves)] ==
        IF k = 0 THEN [i \in 1 .. Len(leaves) |-> leafHash(leaves[i])]
                 ELSE reduce(level[k - 1])
  IN  level

Height(leaves) ==
  LET level == Levels(leaves)
  IN  CHOOSE k \in 0 .. Len(leaves) :
        Len(level[k]) = 1 /\ \A j \in 0 .. k - 1 : Len(level[j]) > 1

Root(leaves) ==
  IF leaves = <<>> THEN Zero32 ELSE Levels(leaves)[Height(leaves)][1]

(***************************************************************************)
(* Indexes count from 0.  Path returns an error outside the leaves.        *)
(***************************************************************************)
HasPath(leaves, index) == index \in 0 .. Len(leaves) - 1

(***************************************************************************)
(* The index in each of the n levels above the leaves: idx /= 2.           *)
(***************************************************************************)
Halved(index, n) ==
  LET idx[k \in 0 .. n] == IF k = 0 THEN index ELSE idx[k - 1] \div 2
  IN  idx

Path(leaves, index) ==
  LET level == Levels(leaves)
      height == Height(leaves)
      idx == Halved(index, height)
      sibling(k) == IF idx[k] % 2 = 1 THEN idx[k] - 1
                    ELSE IF idx[k] + 1 < Len(level[k]) THEN idx[k] + 1 ELSE idx[k]
  IN  [k \in 1 .. height |-> level[k - 1][sibling(k - 1) + 1]]

(***************************************************************************)
(* Wrong variant: the index is not halved from level to level.             *)
(***************************************************************************)
VerifyOneParity(leaf, path, root, index) ==
  LET cur[k \in 0 .. Len(path)] ==
        IF k = 0 THEN leafHash(leaf)
        ELSE IF index % 2 = 0 THEN nodeHash(cur[k - 1], path[k])
                              ELSE nodeHash(path[k], cur[k - 1])
  IN  cur[Len(path)] = root

(***************************************************************************)
(* The hash Verify holds after k siblings.                                 *)
(***************************************************************************)
Climb(leaf, path, index) ==
  LET cur[k \in 0 .. Len(path)] ==
        IF k = 0 THEN leafHash(leaf)
        ELSE IF Halved(index, Len(path))[k - 1] % 2 = 0
          THEN nodeHash(cur[k - 1], path[k])
          ELSE nodeHash(path[k], cur[k - 1])
  IN  cur

Verify(leaf, path, root, index) == Climb(leaf, path, index)[Len(path)] = root
=============================================================================
