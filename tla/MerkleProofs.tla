---------------------------- MODULE MerkleProofs ----------------------------
(***************************************************************************)
(* The Merkle tree of internal/core/merkle/merkle.go, for every list of    *)
(* leaves.  The levels, the halved index and the climbing hash are         *)
(* recursive functions; an induction over them is made on the set of the   *)
(* numbers that have the property at hand, so that Induction below can be  *)
(* cited for it.                                                           *)
(***************************************************************************)
EXTENDS MerkleLists, WellFoundedInduction, SequenceTheorems, TLAPS

(***************************************************************************)
(* A non-empty set of natural numbers has a least element.                 *)
(***************************************************************************)
LEMMA Least ==
  ASSUME NEW T, T \subseteq Nat, T # {}
  PROVE  \E n \in T : \A m \in T : n <= m
  <1>. DEFINE R == OpToRel(<, Nat)
  <1>1. PICK x \in T : \A y \in T : <<y, x>> \notin R
    <2>1. IsWellFoundedOn(R, Nat)
      BY NatLessThanWellFounded
    <2>. HIDE DEF R
    <2>. QED
      BY <2>1, WFMin
  <1>2. \A m \in T : ~ (m < x)
    BY <1>1 DEF OpToRel
  <1>. QED
    BY <1>2

(***************************************************************************)
(* Induction, on the set S of the numbers up to n with a property.         *)
(***************************************************************************)
LEMMA Induction ==
  ASSUME NEW n \in Nat, NEW S, 0 \in S,
         \A k \in 0 .. n - 1 : k \in S => k + 1 \in S
  PROVE  \A k \in 0 .. n : k \in S
  <1>. DEFINE T == {k \in 0 .. n : k \notin S}
  <1>. SUFFICES ASSUME T # {} PROVE FALSE
    OBVIOUS
  <1>1. PICK k \in T : \A m \in T : k <= m
    <2>1. T \subseteq Nat
      OBVIOUS
    <2>. HIDE DEF T
    <2>. QED
      BY <2>1, Least
  <1>2. k # 0 /\ k - 1 \in 0 .. n - 1 /\ k - 1 \in S
    BY <1>1
  <1>3. k - 1 + 1 \in S
    BY <1>2
  <1>. QED
    BY <1>3

(***************************************************************************)
(* The same from n down.                                                   *)
(***************************************************************************)
LEMMA DownwardInduction ==
  ASSUME NEW n \in Nat, NEW S, n \in S,
         \A k \in 0 .. n - 1 : k + 1 \in S => k \in S
  PROVE  \A k \in 0 .. n : k \in S
  <1>. DEFINE T == {k \in 0 .. n : n - k \in S}
  <1>1. \A k \in 0 .. n : k \in T
    <2>1. 0 \in T
      OBVIOUS
    <2>2. ASSUME NEW k \in 0 .. n - 1, k \in T
          PROVE  k + 1 \in T
      <3>1. n - k - 1 \in 0 .. n - 1 /\ (n - k - 1) + 1 = n - k
        OBVIOUS
      <3>2. n - k - 1 \in S
        BY <2>2, <3>1
      <3>. QED
        BY <3>2
    <2>. HIDE DEF T
    <2>. QED
      BY <2>1, <2>2, Induction
  <1>. SUFFICES ASSUME NEW k \in 0 .. n PROVE k \in S
    OBVIOUS
  <1>2. n - k \in 0 .. n /\ n - (n - k) = k
    OBVIOUS
  <1>. QED
    BY <1>1, <1>2

-----------------------------------------------------------------------------
(***************************************************************************)
(* The recursive functions exist, and are given by their equations.        *)
(***************************************************************************)
LEMMA LevelsEquations ==
  ASSUME NEW list, Len(list) \in Nat
  PROVE  /\ Levels(list)[0] = [i \in 1 .. Len(list) |-> leafHash(list[i])]
         /\ \A k \in 1 .. Len(list) : Levels(list)[k] = reduce(Levels(list)[k - 1])
  <1>. DEFINE base == [i \in 1 .. Len(list) |-> leafHash(list[i])]
              step(k, x) == reduce(x)
              Sol(m, f) == f = [k \in 0 .. m |-> IF k = 0 THEN base ELSE step(k, f[k - 1])]
              S == {m \in Nat : \E f : Sol(m, f)}
  <1>1. \E f : Sol(Len(list), f)
    <2>1. 0 \in S
      <3>1. Sol(0, [k \in 0 .. 0 |-> base])
        OBVIOUS
      <3>. QED
        BY <3>1
    <2>2. ASSUME NEW m \in Nat, m \in S
          PROVE  m + 1 \in S
      <3>1. PICK f : Sol(m, f)
        BY <2>2
      <3>. DEFINE g == [k \in 0 .. m + 1 |-> IF k = 0 THEN base ELSE step(k, f[k - 1])]
      <3>2. \A k \in 0 .. m : g[k] = f[k]
        <4>. HIDE DEF step, base
        <4>. QED
          BY <3>1
      <3>3. ASSUME NEW k \in 0 .. m + 1, k # 0
            PROVE  step(k, f[k - 1]) = step(k, g[k - 1])
        <4>1. k - 1 \in 0 .. m
          BY <3>3
        <4>. HIDE DEF g
        <4>. QED
          BY <4>1, <3>2
      <3>4. Sol(m + 1, g)
        <4>1. g = [k \in 0 .. m + 1 |-> g[k]]
          OBVIOUS
        <4>2. \A k \in 0 .. m + 1 :
                g[k] = IF k = 0 THEN base ELSE step(k, g[k - 1])
          <5>. HIDE DEF step, base
          <5>. QED
            BY <3>3
        <4>. HIDE DEF g
        <4>. QED
          BY <4>1, <4>2
      <3>. HIDE DEF g
      <3>. QED
        BY <3>4
    <2>. HIDE DEF S
    <2>3. Len(list) \in S
      BY <2>1, <2>2, Induction, SMTT(20)
    <2>. QED
      BY <2>3 DEF S
  <1>2. Levels(list) = CHOOSE f : Sol(Len(list), f)
    BY DEF Levels
  <1>3. Sol(Len(list), Levels(list))
    BY <1>1, <1>2
  <1>. HIDE DEF base, step
  <1>4. Levels(list)[0] = base
    <2>1. 0 \in 0 .. Len(list)
      OBVIOUS
    <2>. QED
      BY <1>3, <2>1
  <1>5. \A k \in 1 .. Len(list) : Levels(list)[k] = step(k, Levels(list)[k - 1])
    BY <1>3
  <1>. QED
    BY <1>4, <1>5 DEF base, step

LEMMA HalvedEquations ==
  ASSUME NEW index, NEW n \in Nat
  PROVE  /\ Halved(index, n)[0] = index
         /\ \A k \in 1 .. n : Halved(index, n)[k] = Halved(index, n)[k - 1] \div 2
  <1>. DEFINE base == index
              step(k, x) == x \div 2
              Sol(m, f) == f = [k \in 0 .. m |-> IF k = 0 THEN base ELSE step(k, f[k - 1])]
              S == {m \in Nat : \E f : Sol(m, f)}
  <1>1. \E f : Sol(n, f)
    <2>1. 0 \in S
      <3>1. Sol(0, [k \in 0 .. 0 |-> base])
        OBVIOUS
      <3>. QED
        BY <3>1
    <2>2. ASSUME NEW m \in Nat, m \in S
          PROVE  m + 1 \in S
      <3>1. PICK f : Sol(m, f)
        BY <2>2
      <3>. DEFINE g == [k \in 0 .. m + 1 |-> IF k = 0 THEN base ELSE step(k, f[k - 1])]
      <3>2. \A k \in 0 .. m : g[k] = f[k]
        <4>. HIDE DEF step, base
        <4>. QED
          BY <3>1
      <3>3. ASSUME NEW k \in 0 .. m + 1, k # 0
            PROVE  step(k, f[k - 1]) = step(k, g[k - 1])
        <4>1. k - 1 \in 0 .. m
          BY <3>3
        <4>. HIDE DEF g
        <4>. QED
          BY <4>1, <3>2
      <3>4. Sol(m + 1, g)
        <4>1. g = [k \in 0 .. m + 1 |-> g[k]]
          OBVIOUS
        <4>2. \A k \in 0 .. m + 1 :
                g[k] = IF k = 0 THEN base ELSE step(k, g[k - 1])
          <5>. HIDE DEF step, base
          <5>. QED
            BY <3>3
        <4>. HIDE DEF g
        <4>. QED
          BY <4>1, <4>2
      <3>. HIDE DEF g
      <3>. QED
        BY <3>4
    <2>. HIDE DEF S
    <2>3. n \in S
      BY <2>1, <2>2, Induction
    <2>. QED
      BY <2>3 DEF S
  <1>2. Halved(index, n) = CHOOSE f : Sol(n, f)
    BY DEF Halved
  <1>3. Sol(n, Halved(index, n))
    BY <1>1, <1>2
  <1>. HIDE DEF base, step
  <1>4. Halved(index, n)[0] = base
    <2>1. 0 \in 0 .. n
      OBVIOUS
    <2>. QED
      BY <1>3, <2>1
  <1>5. \A k \in 1 .. n : Halved(index, n)[k] = step(k, Halved(index, n)[k - 1])
    BY <1>3
  <1>. QED
    BY <1>4, <1>5 DEF base, step

LEMMA ClimbEquations ==
  ASSUME NEW leaf, NEW path, NEW index, Len(path) \in Nat
  PROVE  /\ Climb(leaf, path, index)[0] = leafHash(leaf)
         /\ \A k \in 1 .. Len(path) :
              Climb(leaf, path, index)[k] =
                IF Halved(index, Len(path))[k - 1] % 2 = 0
                  THEN nodeHash(Climb(leaf, path, index)[k - 1], path[k])
                  ELSE nodeHash(path[k], Climb(leaf, path, index)[k - 1])
  <1>. DEFINE base == leafHash(leaf)
              step(k, x) == IF Halved(index, Len(path))[k - 1] % 2 = 0
                              THEN nodeHash(x, path[k]) ELSE nodeHash(path[k], x)
              Sol(m, f) == f = [k \in 0 .. m |-> IF k = 0 THEN base ELSE step(k, f[k - 1])]
              S == {m \in Nat : \E f : Sol(m, f)}
  <1>1. \E f : Sol(Len(path), f)
    <2>1. 0 \in S
      <3>1. Sol(0, [k \in 0 .. 0 |-> base])
        OBVIOUS
      <3>. QED
        BY <3>1
    <2>2. ASSUME NEW m \in Nat, m \in S
          PROVE  m + 1 \in S
      <3>1. PICK f : Sol(m, f)
        BY <2>2
      <3>. DEFINE g == [k \in 0 .. m + 1 |-> IF k = 0 THEN base ELSE step(k, f[k - 1])]
      <3>2. \A k \in 0 .. m : g[k] = f[k]
        <4>. HIDE DEF step, base
        <4>. QED
          BY <3>1
      <3>3. ASSUME NEW k \in 0 .. m + 1, k # 0
            PROVE  step(k, f[k - 1]) = step(k, g[k - 1])
        <4>1. k - 1 \in 0 .. m
          BY <3>3
        <4>. HIDE DEF g
        <4>. QED
          BY <4>1, <3>2
      <3>4. Sol(m + 1, g)
        <4>1. g = [k \in 0 .. m + 1 |-> g[k]]
          OBVIOUS
        <4>2. \A k \in 0 .. m + 1 :
                g[k] = IF k = 0 THEN base ELSE step(k, g[k - 1])
          <5>. HIDE DEF step, base
          <5>. QED
            BY <3>3
        <4>. HIDE DEF g
        <4>. QED
          BY <4>1, <4>2
      <3>. HIDE DEF g
      <3>. QED
        BY <3>4
    <2>. HIDE DEF S
    <2>3. Len(path) \in S
      BY <2>1, <2>2, Induction, SMTT(20)
    <2>. QED
      BY <2>3 DEF S
  <1>2. Climb(leaf, path, index) = CHOOSE f : Sol(Len(path), f)
    BY DEF Climb
  <1>3. Sol(Len(path), Climb(leaf, path, index))
    BY <1>1, <1>2
  <1>. HIDE DEF base, step
  <1>4. Climb(leaf, path, index)[0] = base
    <2>1. 0 \in 0 .. Len(path)
      OBVIOUS
    <2>. QED
      BY <1>3, <2>1
  <1>5. \A k \in 1 .. Len(path) : Climb(leaf, path, index)[k] = step(k, Climb(leaf, path, index)[k - 1])
    BY <1>3
  <1>. QED
    BY <1>4, <1>5 DEF base, step

-----------------------------------------------------------------------------
(***************************************************************************)
(* The shape of the levels.                                                *)
(***************************************************************************)
LEMMA FunctionLen ==
  ASSUME NEW n \in Nat, NEW f, f = [i \in 1 .. n |-> f[i]]
  PROVE  Len(f) = n
  <1>. DEFINE S == {f[i] : i \in 1 .. n}
  <1>1. f \in [1 .. n -> S]
    OBVIOUS
  <1>2. f \in Seq(S) /\ DOMAIN f = 1 .. n
    BY <1>1, SeqDef
  <1>. HIDE DEF S
  <1>. QED
    BY <1>2, LenProperties

(***************************************************************************)
(* reduce halves a level, rounding up, and pairs its nodes.                *)
(***************************************************************************)
LEMMA ReduceShape ==
  ASSUME NEW level, Len(level) \in Nat
  PROVE  /\ Len(reduce(level)) = (Len(level) + 1) \div 2
         /\ reduce(level) =
              [i \in 1 .. (Len(level) + 1) \div 2 |-> reduce(level)[i]]
         /\ \A i \in 1 .. (Len(level) + 1) \div 2 :
              reduce(level)[i] =
                nodeHash(level[2 * i - 1],
                         IF 2 * i <= Len(level) THEN level[2 * i] ELSE level[2 * i - 1])
  <1>. DEFINE n == (Len(level) + 1) \div 2
              node(i) == nodeHash(level[2 * i - 1],
                                  IF 2 * i <= Len(level) THEN level[2 * i]
                                                         ELSE level[2 * i - 1])
  <1>1. n \in Nat
    OBVIOUS
  <1>2. reduce(level) = [i \in 1 .. n |-> node(i)]
    BY DEF reduce
  <1>. HIDE DEF n, node
  <1>3. Len(reduce(level)) = n
    BY <1>1, <1>2, FunctionLen
  <1>. QED
    BY <1>2, <1>3 DEF n, node

LEMMA LevelShape ==
  ASSUME NEW list, Len(list) \in Nat \ {0}
  PROVE  \A k \in 0 .. Len(list) :
           LET level == Levels(list)
           IN  /\ Len(level[k]) \in Nat \ {0}
               /\ level[k] = [i \in 1 .. Len(level[k]) |-> level[k][i]]
               /\ k > 0 => Len(level[k]) = (Len(level[k - 1]) + 1) \div 2
               /\ Len(level[k]) = 1 \/ Len(level[k]) + k <= Len(list)
  <1>. DEFINE level == Levels(list)
              N == Len(list)
              Shape(k) == /\ Len(level[k]) \in Nat \ {0}
                          /\ level[k] = [i \in 1 .. Len(level[k]) |-> level[k][i]]
                          /\ k > 0 => Len(level[k]) = (Len(level[k - 1]) + 1) \div 2
                          /\ Len(level[k]) = 1 \/ Len(level[k]) + k <= N
              S == {k \in 0 .. N : Shape(k)}
  <1>1. Shape(0)
    <2>. DEFINE base == [i \in 1 .. N |-> leafHash(list[i])]
    <2>1. level[0] = base
      BY LevelsEquations
    <2>2. base = [i \in 1 .. N |-> base[i]]
      OBVIOUS
    <2>. HIDE DEF base, level
    <2>3. Len(base) = N
      BY <2>2, FunctionLen
    <2>. QED
      BY <2>1, <2>2, <2>3
  <1>2. ASSUME NEW k \in 0 .. N - 1, Shape(k)
        PROVE  Shape(k + 1)
    <2>1. level[k + 1] = reduce(level[k])
      <3>1. k + 1 \in 1 .. N /\ (k + 1) - 1 = k
        OBVIOUS
      <3>2. level[k + 1] = reduce(level[(k + 1) - 1])
        BY <3>1, LevelsEquations
      <3>. QED
        BY <3>1, <3>2
    <2>. DEFINE n == Len(level[k])
                m == (n + 1) \div 2
    <2>2. n \in Nat \ {0} /\ (n = 1 \/ n + k <= N)
      BY <1>2
    <2>3. m \in Nat \ {0} /\ (m = 1 \/ m + (k + 1) <= N)
      <3>1. N \in Nat \ {0}
        OBVIOUS
      <3>. HIDE DEF n, N
      <3>. QED
        BY <2>2, <3>1
    <2>4. Len(level[k + 1]) = m /\ level[k + 1] = [i \in 1 .. m |-> level[k + 1][i]]
      BY <2>1, <2>2, ReduceShape
    <2>5. (k + 1) - 1 = k
      OBVIOUS
    <2>. HIDE DEF level, n
    <2>. QED
      BY <2>3, <2>4, <2>5 DEF n
  <1>3. \A k \in 0 .. N : k \in S
    <2>1. 0 \in S
      BY <1>1
    <2>2. \A k \in 0 .. N - 1 : k \in S => k + 1 \in S
      <3>. HIDE DEF Shape
      <3>. QED
        BY <1>2
    <2>. HIDE DEF S
    <2>. QED
      BY <2>1, <2>2, Induction
  <1>. QED
    BY <1>3

(***************************************************************************)
(* There is a level of one node, and Height is the first.                  *)
(***************************************************************************)
LEMMA HeightShape ==
  ASSUME NEW list, Len(list) \in Nat \ {0}
  PROVE  /\ Height(list) \in 0 .. Len(list)
         /\ Len(Levels(list)[Height(list)]) = 1
  <1>. DEFINE level == Levels(list)
              N == Len(list)
              T == {k \in 0 .. N : Len(level[k]) = 1}
  <1>1. PICK h \in T : \A j \in T : h <= j
    <2>1. N \in T
      <3>1. N \in 0 .. N
        OBVIOUS
      <3>2. \A k \in 0 .. N : /\ Len(level[k]) \in Nat \ {0}
                              /\ Len(level[k]) = 1 \/ Len(level[k]) + k <= N
        BY LevelShape
      <3>. DEFINE n == Len(level[N])
      <3>. HIDE DEF level, N
      <3>3. n \in Nat \ {0} /\ (n = 1 \/ n + N <= N)
        BY <3>1, <3>2
      <3>. HIDE DEF n
      <3>4. N \in 0 .. N /\ n = 1
        BY <3>1, <3>3
      <3>. QED
        BY <3>4 DEF n
    <2>2. T \subseteq Nat
      OBVIOUS
    <2>. HIDE DEF T
    <2>. QED
      BY <2>1, <2>2, Least
  <1>2. \A j \in 0 .. h - 1 : Len(level[j]) > 1
    <2>. SUFFICES ASSUME NEW j \in 0 .. h - 1 PROVE Len(level[j]) > 1
      OBVIOUS
    <2>1. j \in 0 .. N /\ j \notin T
      BY <1>1
    <2>. DEFINE n == Len(level[j])
    <2>2. n \in Nat \ {0} /\ n # 1
      BY <2>1, LevelShape
    <2>. HIDE DEF n
    <2>3. n > 1
      BY <2>2
    <2>. QED
      BY <2>3 DEF n
  <1>3. h \in 0 .. N /\ Len(level[h]) = 1
    OBVIOUS
  <1>. HIDE DEF level, N
  <1>. QED
    BY <1>2, <1>3 DEF Height, level, N

-----------------------------------------------------------------------------
(***************************************************************************)
(* The node above position p of level k, and the position p is paired with *)
(* (positions count from 0).                                               *)
(***************************************************************************)
Sibling(list, k, p) ==
  IF p % 2 = 1 THEN p - 1
  ELSE IF p + 1 < Len(Levels(list)[k]) THEN p + 1 ELSE p

Parent(list, k, p) ==
  LET level == Levels(list)[k]
  IN  IF p % 2 = 0 THEN nodeHash(level[p + 1], level[Sibling(list, k, p) + 1])
                   ELSE nodeHash(level[Sibling(list, k, p) + 1], level[p + 1])

LEMMA ParentOfPair ==
  ASSUME NEW list, Len(list) \in Nat \ {0}, NEW k \in 0 .. Len(list) - 1,
         NEW p \in 0 .. Len(Levels(list)[k]) - 1
  PROVE  /\ p \div 2 \in 0 .. Len(Levels(list)[k + 1]) - 1
         /\ Levels(list)[k + 1][p \div 2 + 1] = Parent(list, k, p)
  <1>. DEFINE below == Levels(list)[k]
              above == Levels(list)[k + 1]
              n == Len(below)
              m == (n + 1) \div 2
              q == p \div 2 + 1
  <1>1. k \in 0 .. Len(list) /\ k + 1 \in 1 .. Len(list) /\ (k + 1) - 1 = k
    OBVIOUS
  <1>2. above = reduce(below)
    <2>1. above = reduce(Levels(list)[(k + 1) - 1])
      BY <1>1, LevelsEquations
    <2>. QED
      BY <1>1, <2>1
  <1>3. n \in Nat
    BY <1>1, LevelShape
  <1>4. Len(above) = m
    BY <1>2, <1>3, ReduceShape
  <1>. HIDE DEF n
  <1>5. q \in 1 .. m /\ p \div 2 \in 0 .. m - 1
    <2>1. p \in 0 .. n - 1
      BY DEF n
    <2>. QED
      BY <2>1, <1>3
  <1>6. above[q] = nodeHash(below[2 * q - 1],
                            IF 2 * q <= n THEN below[2 * q] ELSE below[2 * q - 1])
    <2>. HIDE DEF q, below, above
    <2>. QED
      BY <1>2, <1>3, <1>5, ReduceShape DEF n
  <1>7. above[q] = Parent(list, k, p)
    <2>1. p \in 0 .. n - 1
      BY DEF n
    <2>2. CASE p % 2 = 0
      <3>1. 2 * q - 1 = p + 1 /\ 2 * q = p + 2
        BY <2>1, <2>2, <1>3
      <3>2. Sibling(list, k, p) = IF p + 1 < n THEN p + 1 ELSE p
        BY <2>1, <2>2, <1>3 DEF Sibling, n
      <3>3. below[Sibling(list, k, p) + 1]
              = IF 2 * q <= n THEN below[2 * q] ELSE below[2 * q - 1]
        <4>. HIDE DEF below, q
        <4>. QED
          BY <3>1, <3>2, <2>1, <1>3
      <3>. HIDE DEF q, above
      <3>. QED
        BY <3>1, <3>3, <1>6, <2>2 DEF Parent
    <2>3. CASE p % 2 = 1
      <3>1. 2 * q - 1 = p /\ 2 * q = p + 1 /\ p + 1 <= n
        BY <2>1, <2>3, <1>3
      <3>2. Sibling(list, k, p) + 1 = p
        BY <2>1, <2>3, <1>3 DEF Sibling
      <3>. HIDE DEF q, above
      <3>. QED
        BY <3>1, <3>2, <1>6, <2>3 DEF Parent
    <2>. QED
      BY <2>1, <2>2, <2>3, <1>3
  <1>. QED
    BY <1>4, <1>5, <1>7

(***************************************************************************)
(* Halving an index of the list gives an index of every level.             *)
(***************************************************************************)
LEMMA HalvedInLevel ==
  ASSUME NEW list, Len(list) \in Nat \ {0}, NEW h \in 0 .. Len(list),
         NEW i \in 0 .. Len(list) - 1
  PROVE  \A k \in 0 .. h :
           Halved(i, h)[k] \in 0 .. Len(Levels(list)[k]) - 1
  <1>. DEFINE S == {k \in 0 .. h : Halved(i, h)[k] \in 0 .. Len(Levels(list)[k]) - 1}
  <1>1. 0 \in S
    <2>. DEFINE base == [j \in 1 .. Len(list) |-> leafHash(list[j])]
    <2>1. Levels(list)[0] = base
      BY LevelsEquations
    <2>2. base = [j \in 1 .. Len(list) |-> base[j]]
      OBVIOUS
    <2>. HIDE DEF base
    <2>3. Len(Levels(list)[0]) = Len(list)
      BY <2>1, <2>2, FunctionLen
    <2>4. Halved(i, h)[0] = i
      BY HalvedEquations
    <2>. QED
      BY <2>3, <2>4
  <1>2. ASSUME NEW k \in 0 .. h - 1, k \in S
        PROVE  k + 1 \in S
    <2>1. k + 1 \in 1 .. h /\ (k + 1) - 1 = k /\ k \in 0 .. Len(list) - 1
      OBVIOUS
    <2>2. Halved(i, h)[k + 1] = Halved(i, h)[k] \div 2
      <3>1. Halved(i, h)[k + 1] = Halved(i, h)[(k + 1) - 1] \div 2
        BY <2>1, HalvedEquations
      <3>. QED
        BY <2>1, <3>1
    <2>. DEFINE p == Halved(i, h)[k]
    <2>3. p \in 0 .. Len(Levels(list)[k]) - 1
      BY <1>2
    <2>. HIDE DEF p
    <2>4. p \div 2 \in 0 .. Len(Levels(list)[k + 1]) - 1
      BY <2>1, <2>3, ParentOfPair
    <2>. QED
      BY <2>1, <2>2, <2>4 DEF p
  <1>. HIDE DEF S
  <1>3. \A k \in 0 .. h : k \in S
    BY <1>1, <1>2, Induction
  <1>. QED
    BY <1>3 DEF S

(***************************************************************************)
(* Path lists the siblings on the way up.                                  *)
(***************************************************************************)
LEMMA PathShape ==
  ASSUME NEW list, Len(list) \in Nat \ {0}, NEW i \in 0 .. Len(list) - 1
  PROVE  /\ Len(Path(list, i)) = Height(list)
         /\ \A k \in 0 .. Height(list) - 1 :
              Path(list, i)[k + 1] =
                Levels(list)[k][Sibling(list, k, Halved(i, Height(list))[k]) + 1]
  <1>. DEFINE h == Height(list)
              idx == Halved(i, h)
              node(k) == Levels(list)[k - 1][Sibling(list, k - 1, idx[k - 1]) + 1]
  <1>1. h \in Nat
    BY HeightShape
  <1>2. Path(list, i) = [k \in 1 .. h |-> node(k)]
    BY DEF Path, Sibling
  <1>. HIDE DEF h
  <1>3. Len(Path(list, i)) = h
    <2>. HIDE DEF node
    <2>. QED
      BY <1>1, <1>2, FunctionLen
  <1>4. \A k \in 0 .. h - 1 : Path(list, i)[k + 1] = node(k + 1)
    <2>. HIDE DEF node
    <2>. QED
      BY <1>1, <1>2
  <1>5. \A k \in 0 .. h - 1 : (k + 1) - 1 = k
    BY <1>1
  <1>. QED
    BY <1>3, <1>4, <1>5 DEF h

(***************************************************************************)
(* One step up: the hash Verify holds is combined with the sibling that    *)
(* the path of i has for the level, on the side that the index j says.     *)
(***************************************************************************)
LEMMA ClimbStep ==
  ASSUME NEW list, Len(list) \in Nat \ {0}, NEW leaf,
         NEW i \in 0 .. Len(list) - 1, NEW j \in 0 .. Len(list) - 1,
         NEW k \in 0 .. Height(list) - 1
  PROVE  LET h == Height(list)
             cur == Climb(leaf, Path(list, i), j)
             sibling == Levels(list)[k][Sibling(list, k, Halved(i, h)[k]) + 1]
         IN  cur[k + 1] = IF Halved(j, h)[k] % 2 = 0
                            THEN nodeHash(cur[k], sibling)
                            ELSE nodeHash(sibling, cur[k])
  <1>. DEFINE h == Height(list)
              path == Path(list, i)
  <1>1. h \in Nat /\ Len(path) = h
    BY HeightShape, PathShape
  <1>2. k + 1 \in 1 .. h /\ (k + 1) - 1 = k
    BY <1>1
  <1>3. path[k + 1] = Levels(list)[k][Sibling(list, k, Halved(i, h)[k]) + 1]
    BY PathShape
  <1>. HIDE DEF h, path
  <1>4. Climb(leaf, path, j)[k + 1] =
          IF Halved(j, h)[(k + 1) - 1] % 2 = 0
            THEN nodeHash(Climb(leaf, path, j)[(k + 1) - 1], path[k + 1])
            ELSE nodeHash(path[k + 1], Climb(leaf, path, j)[(k + 1) - 1])
    BY <1>1, <1>2, ClimbEquations, SMTT(20)
  <1>. QED
    BY <1>2, <1>3, <1>4 DEF h, path

(***************************************************************************)
(* Completeness: the hash Verify holds is the node above the leaf, level   *)
(* by level, up to the root.                                               *)
(***************************************************************************)
LEMMA PathOfLeafVerifies ==
  ASSUME NEW list, Len(list) \in Nat \ {0}, NEW i \in 0 .. Len(list) - 1
  PROVE  Verify(list[i + 1], Path(list, i), Root(list), i)
  <1>. DEFINE h == Height(list)
              N == Len(list)
              path == Path(list, i)
              idx == Halved(i, h)
              cur == Climb(list[i + 1], path, i)
              S == {k \in 0 .. h : cur[k] = Levels(list)[k][idx[k] + 1]}
  <1>1. h \in 0 .. N /\ N \in Nat /\ Len(path) = h /\ Len(Levels(list)[h]) = 1
    BY HeightShape, PathShape
  <1>2. \A k \in 0 .. h : idx[k] \in 0 .. Len(Levels(list)[k]) - 1
    BY <1>1, HalvedInLevel
  <1>3. 0 \in S
    <2>1. cur[0] = leafHash(list[i + 1])
      BY <1>1, ClimbEquations
    <2>2. idx[0] = i
      BY <1>1, HalvedEquations
    <2>3. i + 1 \in 1 .. Len(list)
      OBVIOUS
    <2>4. Levels(list)[0][i + 1] = leafHash(list[i + 1])
      BY <2>3, LevelsEquations, ZenonT(40)
    <2>. HIDE DEF h, cur, idx
    <2>. QED
      BY <1>1, <2>1, <2>2, <2>4
  <1>4. ASSUME NEW k \in 0 .. h - 1, k \in S
        PROVE  k + 1 \in S
    <2>1. k \in 0 .. N - 1 /\ k \in 0 .. h /\ k + 1 \in 1 .. h /\ (k + 1) - 1 = k
      BY <1>1
    <2>2. cur[k] = Levels(list)[k][idx[k] + 1]
      BY <1>4
    <2>3. cur[k + 1] = Parent(list, k, idx[k])
      BY <2>2, ClimbStep DEF Parent
    <2>4. idx[k] \in 0 .. Len(Levels(list)[k]) - 1
      BY <1>2, <2>1
    <2>5. Parent(list, k, idx[k]) = Levels(list)[k + 1][idx[k] \div 2 + 1]
      <3>. DEFINE p == idx[k]
      <3>. HIDE DEF p
      <3>1. p \in 0 .. Len(Levels(list)[k]) - 1
        BY <2>4 DEF p
      <3>2. Parent(list, k, p) = Levels(list)[k + 1][p \div 2 + 1]
        BY <2>1, <3>1, ParentOfPair
      <3>. QED
        BY <3>2 DEF p
    <2>6. idx[k + 1] = idx[k] \div 2
      <3>1. idx[k + 1] = idx[(k + 1) - 1] \div 2
        BY <1>1, <2>1, HalvedEquations
      <3>. QED
        BY <2>1, <3>1
    <2>. HIDE DEF h, cur, idx
    <2>. QED
      BY <2>1, <2>3, <2>5, <2>6
  <1>5. h \in S
    <2>. HIDE DEF S, h
    <2>. QED
      BY <1>1, <1>3, <1>4, Induction
  <1>6. idx[h] = 0
    <2>. HIDE DEF idx, h
    <2>1. h \in 0 .. h
      BY <1>1
    <2>2. idx[h] \in 0 .. Len(Levels(list)[h]) - 1
      BY <2>1, <1>2
    <2>. QED
      BY <1>1, <2>2
  <1>7. list # <<>>
    OBVIOUS
  <1>. HIDE DEF h, cur, idx, path
  <1>8. cur[h] = Levels(list)[h][1]
    BY <1>5, <1>6
  <1>. QED
    BY <1>1, <1>7, <1>8 DEF Verify, Root, cur, path, h

(***************************************************************************)
(* Halving, level by level.                                                *)
(***************************************************************************)
LEMMA HalvedStep ==
  ASSUME NEW index, NEW n \in Nat, NEW k \in 0 .. n - 1
  PROVE  Halved(index, n)[k + 1] = Halved(index, n)[k] \div 2
  <1>1. k + 1 \in 1 .. n /\ (k + 1) - 1 = k
    OBVIOUS
  <1>2. Halved(index, n)[k + 1] = Halved(index, n)[(k + 1) - 1] \div 2
    BY <1>1, HalvedEquations
  <1>. QED
    BY <1>1, <1>2

(***************************************************************************)
(* The hashes are free: distinct preimages, distinct hashes.               *)
(***************************************************************************)
LEMMA NodeInjective ==
  \A a, b, c, d : nodeHash(a, b) = nodeHash(c, d) => a = c /\ b = d
  BY DEF nodeHash

LEMMA HashesApart ==
  \A x, a, b : /\ leafHash(x) # nodeHash(a, b)
               /\ Zero32 # leafHash(x) /\ Zero32 # nodeHash(a, b)
  BY DEF leafHash, nodeHash, Zero32

(***************************************************************************)
(* Soundness: when Verify accepts leaf with the path of i at an index j,   *)
(* the hash it holds is, level by level from the root down, the node above *)
(* leaf i, and the node above leaf j is the same.  The parities of the two *)
(* indexes may differ in a level only where the two children are equal.    *)
(***************************************************************************)
LEMMA PathVerifiesItsLeaf ==
  ASSUME NEW list, Len(list) \in Nat \ {0}, NEW leaf,
         NEW i \in 0 .. Len(list) - 1, NEW j \in 0 .. Len(list) - 1,
         Verify(leaf, Path(list, i), Root(list), j)
  PROVE  leaf = list[i + 1] /\ leaf = list[j + 1]
  <1>. DEFINE h == Height(list)
              N == Len(list)
              path == Path(list, i)
              level == Levels(list)
              p == Halved(i, h)
              q == Halved(j, h)
              cur == Climb(leaf, path, j)
              Same(k) == cur[k] = level[k][p[k] + 1] /\ cur[k] = level[k][q[k] + 1]
              S == {k \in 0 .. h : Same(k)}
  <1>1. h \in 0 .. N /\ N \in Nat /\ Len(path) = h /\ Len(level[h]) = 1
    BY HeightShape, PathShape
  <1>2. \A k \in 0 .. h : /\ p[k] \in 0 .. Len(level[k]) - 1
                          /\ q[k] \in 0 .. Len(level[k]) - 1
    BY <1>1, HalvedInLevel
  <1>3. h \in S
    <2>1. list # <<>>
      OBVIOUS
    <2>2. cur[Len(path)] = level[h][1]
      BY <2>1 DEF Verify, Root
    <2>. HIDE DEF h, p, q, cur, path, level
    <2>3. h \in 0 .. h
      BY <1>1
    <2>4. p[h] \in 0 .. Len(level[h]) - 1 /\ q[h] \in 0 .. Len(level[h]) - 1
      BY <1>2, <2>3
    <2>5. p[h] = 0 /\ q[h] = 0
      BY <1>1, <2>4
    <2>. QED
      BY <1>1, <2>2, <2>3, <2>5
  <1>4. ASSUME NEW k \in 0 .. h - 1, k + 1 \in S
        PROVE  k \in S
    <2>1. k \in 0 .. N - 1 /\ k \in 0 .. h
      BY <1>1
    <2>2. /\ p[k] \in 0 .. Len(level[k]) - 1
          /\ q[k] \in 0 .. Len(level[k]) - 1
      BY <1>2, <2>1
    <2>3. p[k + 1] = p[k] \div 2 /\ q[k + 1] = q[k] \div 2
      BY <1>1, HalvedStep
    <2>4. cur[k + 1] = Parent(list, k, p[k])
      <3>1. level[k + 1][p[k] \div 2 + 1] = Parent(list, k, p[k])
        <4>. DEFINE x == p[k]
        <4>. HIDE DEF x
        <4>1. x \in 0 .. Len(level[k]) - 1
          BY <2>2 DEF x
        <4>2. level[k + 1][x \div 2 + 1] = Parent(list, k, x)
          BY <2>1, <4>1, ParentOfPair
        <4>. QED
          BY <4>2 DEF x
      <3>. HIDE DEF p, q, cur, level
      <3>. QED
        BY <1>4, <2>3, <3>1
    <2>5. cur[k + 1] = Parent(list, k, q[k])
      <3>1. level[k + 1][q[k] \div 2 + 1] = Parent(list, k, q[k])
        <4>. DEFINE x == q[k]
        <4>. HIDE DEF x
        <4>1. x \in 0 .. Len(level[k]) - 1
          BY <2>2 DEF x
        <4>2. level[k + 1][x \div 2 + 1] = Parent(list, k, x)
          BY <2>1, <4>1, ParentOfPair
        <4>. QED
          BY <4>2 DEF x
      <3>. HIDE DEF p, q, cur, level
      <3>. QED
        BY <1>4, <2>3, <3>1
    <2>. DEFINE sibling(x) == level[k][Sibling(list, k, x) + 1]
                node(x) == level[k][x + 1]
    <2>6. cur[k + 1] = IF q[k] % 2 = 0 THEN nodeHash(cur[k], sibling(p[k]))
                                       ELSE nodeHash(sibling(p[k]), cur[k])
      BY ClimbStep
    <2>7. \A x : Parent(list, k, x) = IF x % 2 = 0 THEN nodeHash(node(x), sibling(x))
                                                   ELSE nodeHash(sibling(x), node(x))
      BY DEF Parent
    <2>. HIDE DEF p, q, cur, level, sibling, node
    <2>8. cur[k] = node(p[k]) /\ cur[k] = node(q[k])
      <3>. DEFINE x == p[k]
                  y == q[k]
                  c == cur[k]
      <3>. HIDE DEF x, y, c
      <3>1. /\ cur[k + 1] = IF x % 2 = 0 THEN nodeHash(node(x), sibling(x))
                                          ELSE nodeHash(sibling(x), node(x))
            /\ cur[k + 1] = IF y % 2 = 0 THEN nodeHash(node(y), sibling(y))
                                          ELSE nodeHash(sibling(y), node(y))
            /\ cur[k + 1] = IF y % 2 = 0 THEN nodeHash(c, sibling(x))
                                          ELSE nodeHash(sibling(x), c)
        BY <2>4, <2>5, <2>6, <2>7 DEF x, y, c
      <3>2. CASE y % 2 = 0
        <4>1. nodeHash(node(y), sibling(y)) = nodeHash(c, sibling(x))
          BY <3>1, <3>2
        <4>2. c = node(y) /\ sibling(x) = sibling(y)
          BY <4>1, NodeInjective
        <4>3. CASE x % 2 = 0
          <5>1. nodeHash(node(x), sibling(x)) = nodeHash(c, sibling(x))
            BY <3>1, <3>2, <4>3
          <5>. QED
            BY <4>2, <5>1, NodeInjective DEF x, y, c
        <4>4. CASE x % 2 # 0
          <5>1. nodeHash(sibling(x), node(x)) = nodeHash(c, sibling(x))
            BY <3>1, <3>2, <4>4
          <5>. QED
            BY <4>2, <5>1, NodeInjective DEF x, y, c
        <4>. QED
          BY <4>3, <4>4
      <3>3. CASE y % 2 # 0
        <4>1. nodeHash(sibling(y), node(y)) = nodeHash(sibling(x), c)
          BY <3>1, <3>3
        <4>2. c = node(y) /\ sibling(x) = sibling(y)
          BY <4>1, NodeInjective
        <4>3. CASE x % 2 = 0
          <5>1. nodeHash(node(x), sibling(x)) = nodeHash(sibling(x), c)
            BY <3>1, <3>3, <4>3
          <5>. QED
            BY <4>2, <5>1, NodeInjective DEF x, y, c
        <4>4. CASE x % 2 # 0
          <5>1. nodeHash(sibling(x), node(x)) = nodeHash(sibling(x), c)
            BY <3>1, <3>3, <4>4
          <5>. QED
            BY <4>2, <5>1, NodeInjective DEF x, y, c
        <4>. QED
          BY <4>3, <4>4
      <3>. QED
        BY <3>2, <3>3
    <2>. QED
      BY <2>1, <2>8 DEF node
  <1>5. 0 \in S
    <2>. HIDE DEF S, h
    <2>1. 0 \in 0 .. h
      BY <1>1
    <2>. QED
      BY <1>1, <1>3, <1>4, <2>1, DownwardInduction
  <1>6. cur[0] = leafHash(leaf) /\ p[0] = i /\ q[0] = j
    BY <1>1, ClimbEquations, HalvedEquations
  <1>7. i + 1 \in 1 .. Len(list) /\ j + 1 \in 1 .. Len(list)
    OBVIOUS
  <1>8. level[0][i + 1] = leafHash(list[i + 1]) /\ level[0][j + 1] = leafHash(list[j + 1])
    BY <1>7, LevelsEquations, ZenonT(40)
  <1>. HIDE DEF cur, p, q, level, h
  <1>9. leafHash(leaf) = leafHash(list[i + 1]) /\ leafHash(leaf) = leafHash(list[j + 1])
    BY <1>5, <1>6, <1>8
  <1>. QED
    BY <1>9 DEF leafHash

-----------------------------------------------------------------------------
(***************************************************************************)
(* Two levels that reduce to the same nodes and are not equally long: the  *)
(* shorter has its odd last node twice where the other has its last two.   *)
(***************************************************************************)
LEMMA OddLast ==
  ASSUME NEW m \in Nat \ {0}, NEW n \in Nat \ {0}, (m + 1) \div 2 = (n + 1) \div 2,
         NEW u, NEW v, \A i, j \in 1 .. n : i # j => v[i] # v[j],
         \A i \in 1 .. (m + 1) \div 2 :
           /\ u[2 * i - 1] = v[2 * i - 1]
           /\ (IF 2 * i <= m THEN u[2 * i] ELSE u[2 * i - 1])
                = (IF 2 * i <= n THEN v[2 * i] ELSE v[2 * i - 1])
  PROVE  ~ (m < n)
  <1>. SUFFICES ASSUME m < n PROVE FALSE
    OBVIOUS
  <1>. DEFINE i == (m + 1) \div 2
  <1>1. i \in 1 .. (m + 1) \div 2 /\ 2 * i - 1 = m /\ 2 * i = n
    OBVIOUS
  <1>. HIDE DEF i
  <1>2. u[m] = v[m] /\ u[m] = v[n]
    BY <1>1
  <1>. QED
    BY <1>2

(***************************************************************************)
(* A list of distinct nodes is determined by its reduction.                *)
(***************************************************************************)
LEMMA ReduceInjective ==
  ASSUME NEW u, Len(u) \in Nat \ {0}, u = [i \in 1 .. Len(u) |-> u[i]], Distinct(u),
         NEW v, Len(v) \in Nat \ {0}, v = [i \in 1 .. Len(v) |-> v[i]], Distinct(v),
         reduce(u) = reduce(v)
  PROVE  u = v
  <1>. DEFINE m == Len(u)
              n == Len(v)
  <1>1. m \in Nat \ {0} /\ n \in Nat \ {0}
    OBVIOUS
  <1>2. (m + 1) \div 2 = (n + 1) \div 2
    BY <1>1, ReduceShape
  <1>3. \A i \in 1 .. (m + 1) \div 2 :
          /\ u[2 * i - 1] = v[2 * i - 1]
          /\ (IF 2 * i <= m THEN u[2 * i] ELSE u[2 * i - 1])
               = (IF 2 * i <= n THEN v[2 * i] ELSE v[2 * i - 1])
    <2>. TAKE i \in 1 .. (m + 1) \div 2
    <2>1. nodeHash(u[2 * i - 1], IF 2 * i <= m THEN u[2 * i] ELSE u[2 * i - 1])
            = reduce(u)[i]
      BY <1>1, ReduceShape
    <2>2. nodeHash(v[2 * i - 1], IF 2 * i <= n THEN v[2 * i] ELSE v[2 * i - 1])
            = reduce(v)[i]
      BY <1>1, <1>2, ReduceShape
    <2>3. reduce(u)[i] = reduce(v)[i]
      OBVIOUS
    <2>. HIDE DEF m, n
    <2>. QED
      BY <2>1, <2>2, <2>3, NodeInjective
  <1>4. /\ \A i, j \in 1 .. m : i # j => u[i] # u[j]
        /\ \A i, j \in 1 .. n : i # j => v[i] # v[j]
    BY DEF Distinct
  <1>. HIDE DEF m, n
  <1>5. m = n
    <2>1. ~ (m < n)
      BY <1>1, <1>2, <1>3, <1>4, OddLast
    <2>2. ~ (n < m)
      <3>1. \A i \in 1 .. (n + 1) \div 2 :
              /\ v[2 * i - 1] = u[2 * i - 1]
              /\ (IF 2 * i <= n THEN v[2 * i] ELSE v[2 * i - 1])
                   = (IF 2 * i <= m THEN u[2 * i] ELSE u[2 * i - 1])
        BY <1>2, <1>3
      <3>. QED
        BY <1>1, <1>2, <1>4, <3>1, OddLast, ZenonT(40)
    <2>. QED
      BY <1>1, <2>1, <2>2
  <1>6. \A x \in 1 .. m : u[x] = v[x]
    <2>. TAKE x \in 1 .. m
    <2>1. CASE x % 2 = 1
      <3>. DEFINE i == (x + 1) \div 2
      <3>1. i \in 1 .. (m + 1) \div 2 /\ 2 * i - 1 = x
        BY <1>1, <2>1, SMTT(20)
      <3>. HIDE DEF i
      <3>. QED
        BY <1>3, <3>1
    <2>2. CASE x % 2 = 0
      <3>. DEFINE i == x \div 2
      <3>1. i \in 1 .. (m + 1) \div 2 /\ 2 * i = x
        BY <1>1, <2>2
      <3>. HIDE DEF i
      <3>. QED
        BY <1>1, <1>3, <1>5, <3>1
    <2>. QED
      BY <1>1, <2>1, <2>2
  <1>. QED
    BY <1>5, <1>6 DEF m, n

(***************************************************************************)
(* The levels of distinct leaves are lists of distinct nodes.              *)
(***************************************************************************)
LEMMA LevelsDistinct ==
  ASSUME NEW list, Len(list) \in Nat \ {0}, DOMAIN list = 1 .. Len(list),
         Distinct(list)
  PROVE  \A k \in 0 .. Len(list) : Distinct(Levels(list)[k])
  <1>. DEFINE level == Levels(list)
              N == Len(list)
              S == {k \in 0 .. N : Distinct(level[k])}
  <1>1. 0 \in S
    <2>1. level[0] = [i \in 1 .. N |-> leafHash(list[i])]
      BY LevelsEquations
    <2>. HIDE DEF level
    <2>2. Distinct(level[0])
      BY <2>1 DEF Distinct, leafHash
    <2>. QED
      BY <2>2
  <1>2. ASSUME NEW k \in 0 .. N - 1, k \in S
        PROVE  k + 1 \in S
    <2>. DEFINE below == level[k]
                n == Len(below)
                m == (n + 1) \div 2
    <2>1. k \in 0 .. N /\ k + 1 \in 1 .. N /\ (k + 1) - 1 = k
      OBVIOUS
    <2>2. level[k + 1] = reduce(below)
      <3>1. level[k + 1] = reduce(level[(k + 1) - 1])
        BY <2>1, LevelsEquations
      <3>. QED
        BY <2>1, <3>1
    <2>3. n \in Nat \ {0} /\ below = [i \in 1 .. n |-> below[i]]
      BY <2>1, LevelShape
    <2>4. \A i, j \in 1 .. n : i # j => below[i] # below[j]
      BY <1>2, <2>3 DEF Distinct
    <2>5. DOMAIN reduce(below) = 1 .. m
      BY <2>3, ReduceShape
    <2>6. \A i \in 1 .. m : \E right : reduce(below)[i] = nodeHash(below[2 * i - 1], right)
      BY <2>3, ReduceShape, ZenonT(40)
    <2>. HIDE DEF n, below
    <2>7. ASSUME NEW i \in 1 .. m, NEW j \in 1 .. m, i # j
          PROVE  reduce(below)[i] # reduce(below)[j]
      <3>1. 2 * i - 1 \in 1 .. n /\ 2 * j - 1 \in 1 .. n /\ 2 * i - 1 # 2 * j - 1
        BY <2>3, <2>7
      <3>2. below[2 * i - 1] # below[2 * j - 1]
        BY <2>4, <3>1
      <3>. QED
        BY <2>6, <3>2, NodeInjective
    <2>8. Distinct(level[k + 1])
      BY <2>2, <2>5, <2>7 DEF Distinct
    <2>. QED
      BY <2>1, <2>8
  <1>. HIDE DEF S
  <1>3. \A k \in 0 .. N : k \in S
    BY <1>1, <1>2, Induction
  <1>. QED
    BY <1>3 DEF S

(***************************************************************************)
(* The first node of a level is a leaf's hash at the bottom and a node's   *)
(* above it.                                                               *)
(***************************************************************************)
LEMMA FirstOfLevel ==
  ASSUME NEW list, Len(list) \in Nat \ {0}
  PROVE  /\ \E x : Levels(list)[0][1] = leafHash(x)
         /\ \A k \in 1 .. Len(list) : \E a, b : Levels(list)[k][1] = nodeHash(a, b)
  <1>1. Levels(list)[0][1] = leafHash(list[1])
    <2>1. 1 \in 1 .. Len(list)
      OBVIOUS
    <2>2. Levels(list)[0] = [i \in 1 .. Len(list) |-> leafHash(list[i])]
      BY LevelsEquations
    <2>. QED
      BY <2>1, <2>2
  <1>2. ASSUME NEW k \in 1 .. Len(list)
        PROVE  \E a, b : Levels(list)[k][1] = nodeHash(a, b)
    <2>. DEFINE below == Levels(list)[k - 1]
                n == Len(below)
    <2>1. Levels(list)[k] = reduce(below)
      BY LevelsEquations
    <2>2. k - 1 \in 0 .. Len(list)
      OBVIOUS
    <2>3. n \in Nat \ {0}
      BY <2>2, LevelShape
    <2>4. \A i \in 1 .. (n + 1) \div 2 : \E b : reduce(below)[i] = nodeHash(below[2 * i - 1], b)
      BY <2>3, ReduceShape
    <2>. HIDE DEF n, below
    <2>5. 1 \in 1 .. (n + 1) \div 2
      BY <2>3
    <2>. QED
      BY <2>1, <2>4, <2>5
  <1>. QED
    BY <1>1, <1>2

(***************************************************************************)
(* Distinct leaves cannot be told from their levels, at any two heights.   *)
(***************************************************************************)
LEMMA LevelsBindList ==
  ASSUME NEW u, Len(u) \in Nat \ {0}, DOMAIN u = 1 .. Len(u), u = [i \in 1 .. Len(u) |-> u[i]],
         Distinct(u),
         NEW v, Len(v) \in Nat \ {0}, DOMAIN v = 1 .. Len(v), v = [i \in 1 .. Len(v) |-> v[i]],
         Distinct(v)
  PROVE  \A a \in 0 .. Len(u), b \in 0 .. Len(v) :
           Levels(u)[a] = Levels(v)[b] => u = v
  <1>. DEFINE lu == Levels(u)
              lv == Levels(v)
              M == Len(u)
              N == Len(v)
              S == {a \in 0 .. M : \A b \in 0 .. N : lu[a] = lv[b] => u = v}
  <1>1. 0 \in S
    <2>. SUFFICES ASSUME NEW b \in 0 .. N, lu[0] = lv[b]
                  PROVE  u = v
      OBVIOUS
    <2>1. b = 0
      <3>1. \E x : lu[0][1] = leafHash(x)
        BY FirstOfLevel
      <3>2. b # 0 => \E x, y : lv[b][1] = nodeHash(x, y)
        BY FirstOfLevel
      <3>. HIDE DEF lu, lv
      <3>. QED
        BY <3>1, <3>2, HashesApart
    <2>. DEFINE bu == [i \in 1 .. M |-> leafHash(u[i])]
                bv == [i \in 1 .. N |-> leafHash(v[i])]
    <2>2. bu = bv
      BY <2>1, LevelsEquations, ZenonT(40)
    <2>3. bu = [i \in 1 .. M |-> bu[i]] /\ bv = [i \in 1 .. N |-> bv[i]]
      OBVIOUS
    <2>4. Len(bu) = M /\ Len(bv) = N
      <3>. HIDE DEF bu, bv
      <3>. QED
        BY <2>3, FunctionLen
    <2>5. M = N
      BY <2>2, <2>4
    <2>6. \A i \in 1 .. M : u[i] = v[i]
      <3>. TAKE i \in 1 .. M
      <3>1. bu[i] = leafHash(u[i]) /\ bv[i] = leafHash(v[i])
        BY <2>5
      <3>. HIDE DEF bu, bv
      <3>. QED
        BY <2>2, <3>1 DEF leafHash
    <2>. QED
      BY <2>5, <2>6
  <1>2. ASSUME NEW a \in 0 .. M - 1, a \in S
        PROVE  a + 1 \in S
    <2>1. a \in 0 .. M /\ a + 1 \in 1 .. M /\ (a + 1) - 1 = a
      OBVIOUS
    <2>. SUFFICES ASSUME NEW b \in 0 .. N, lu[a + 1] = lv[b]
                  PROVE  u = v
      BY <2>1
    <2>2. b # 0
      <3>1. \E x, y : lu[a + 1][1] = nodeHash(x, y)
        BY <2>1, FirstOfLevel
      <3>2. \E x : lv[0][1] = leafHash(x)
        BY FirstOfLevel
      <3>. HIDE DEF lu, lv
      <3>. QED
        BY <3>1, <3>2, HashesApart
    <2>3. b - 1 \in 0 .. N /\ b \in 1 .. N
      BY <2>2
    <2>4. lu[a + 1] = reduce(lu[a]) /\ lv[b] = reduce(lv[b - 1])
      <3>1. lu[a + 1] = reduce(lu[(a + 1) - 1])
        BY <2>1, LevelsEquations
      <3>2. lv[b] = reduce(lv[b - 1])
        BY <2>3, LevelsEquations
      <3>. QED
        BY <2>1, <3>1, <3>2
    <2>. DEFINE x == lu[a]
                y == lv[b - 1]
    <2>5. /\ Len(x) \in Nat \ {0} /\ x = [i \in 1 .. Len(x) |-> x[i]]
          /\ Len(y) \in Nat \ {0} /\ y = [i \in 1 .. Len(y) |-> y[i]]
      BY <2>1, <2>3, LevelShape
    <2>6. Distinct(x) /\ Distinct(y)
      BY <2>1, <2>3, LevelsDistinct
    <2>7. reduce(x) = reduce(y)
      BY <2>4
    <2>. HIDE DEF x, y
    <2>8. x = y
      BY <2>5, <2>6, <2>7, ReduceInjective
    <2>. QED
      BY <1>2, <2>3, <2>8 DEF x, y
  <1>. HIDE DEF S
  <1>3. \A a \in 0 .. M : a \in S
    BY <1>1, <1>2, Induction
  <1>. QED
    BY <1>3 DEF S

(***************************************************************************)
(* Lists of distinct leaves with the same root are the same list.          *)
(***************************************************************************)
LEMMA RootDeterminesList ==
  ASSUME NEW m \in Nat, NEW n \in Nat, NEW X,
         NEW u \in [1 .. m -> X], NEW v \in [1 .. n -> X],
         Distinct(u), Distinct(v), Root(u) = Root(v)
  PROVE  u = v
  <1>. DEFINE top(w) == Levels(w)[Height(w)]
  <1>1. ASSUME NEW k \in Nat, NEW w \in [1 .. k -> X]
        PROVE  /\ Len(w) = k
               /\ w = [i \in 1 .. k |-> w[i]]
               /\ k = 0 => w = <<>>
               /\ k # 0 => /\ Height(w) \in 0 .. k
                           /\ Root(w) = top(w)[1] /\ top(w) = <<top(w)[1]>>
                           /\ Root(w) # Zero32
    <2>1. w = [i \in 1 .. k |-> w[i]]
      OBVIOUS
    <2>2. Len(w) = k
      BY <2>1, FunctionLen
    <2>3. k = 0 => w = <<>>
      OBVIOUS
    <2>4. ASSUME k # 0
          PROVE  /\ Height(w) \in 0 .. k
                 /\ Root(w) = top(w)[1] /\ top(w) = <<top(w)[1]>>
                 /\ Root(w) # Zero32
      <3>1. Len(w) \in Nat \ {0} /\ w # <<>>
        BY <2>2, <2>4
      <3>2. Height(w) \in 0 .. Len(w) /\ Len(top(w)) = 1
        BY <3>1, HeightShape
      <3>3. top(w) = [i \in 1 .. Len(top(w)) |-> top(w)[i]]
        BY <3>1, <3>2, LevelShape
      <3>4. Root(w) = top(w)[1]
        BY <3>1 DEF Root
      <3>5. (\E x : top(w)[1] = leafHash(x)) \/ (\E a, b : top(w)[1] = nodeHash(a, b))
        <4>1. CASE Height(w) = 0
          BY <3>1, <4>1, FirstOfLevel
        <4>2. CASE Height(w) # 0
          <5>1. Height(w) \in 1 .. Len(w)
            BY <3>1, <3>2, <4>2
          <5>. QED
            BY <3>1, <5>1, FirstOfLevel
        <4>. QED
          BY <4>1, <4>2
      <3>. HIDE DEF top
      <3>6. top(w) = <<top(w)[1]>>
        BY <3>2, <3>3
      <3>. QED
        BY <2>2, <3>2, <3>4, <3>5, <3>6, HashesApart
    <2>. QED
      BY <2>1, <2>2, <2>3, <2>4
  <1>2. CASE m = 0 \/ n = 0
    <2>1. m = 0 /\ n = 0
      <3>1. Root(<<>>) = Zero32
        BY DEF Root
      <3>. QED
        BY <1>1, <1>2, <3>1
    <2>. QED
      BY <1>1, <2>1
  <1>3. CASE m # 0 /\ n # 0
    <2>1. /\ Len(u) = m /\ Height(u) \in 0 .. m /\ top(u) = <<Root(u)>>
          /\ u = [i \in 1 .. m |-> u[i]]
      <3>. HIDE DEF top
      <3>. QED
        BY <1>1, <1>3
    <2>2. /\ Len(v) = n /\ Height(v) \in 0 .. n /\ top(v) = <<Root(v)>>
          /\ v = [i \in 1 .. n |-> v[i]]
      <3>. HIDE DEF top
      <3>. QED
        BY <1>1, <1>3
    <2>3. top(u) = top(v)
      BY <2>1, <2>2
    <2>4. \A a \in 0 .. Len(u), b \in 0 .. Len(v) : Levels(u)[a] = Levels(v)[b] => u = v
      BY <1>3, <2>1, <2>2, LevelsBindList
    <2>. QED
      BY <2>1, <2>2, <2>3, <2>4
  <1>. QED
    BY <1>2, <1>3

-----------------------------------------------------------------------------
(***************************************************************************)
(* The list of ListSpec is a list of leaves.                               *)
(***************************************************************************)
LEMMA LeavesAreData == ListSpec => [](leaves \in Seq(Data))
  <1>. DEFINE IsList == leaves \in Seq(Data)
  <1>1. ListInit => IsList
    BY DEF ListInit
  <1>2. IsList /\ [GrowList]_leaves => IsList'
    BY DEF GrowList
  <1>. QED
    BY <1>1, <1>2, PTL DEF ListSpec

(***************************************************************************)
(* Whatever the leaves and however many, the path Path builds for an index *)
(* passes Verify with its leaf.                                            *)
(***************************************************************************)
THEOREM EveryPathVerifies == ListSpec => []PathVerifies
  <1>1. leaves \in Seq(Data) => PathVerifies
    <2>. SUFFICES ASSUME leaves \in Seq(Data), NEW i \in Indexes
                  PROVE  Verify(leaves[i + 1], Path(leaves, i), Root(leaves), i)
      BY DEF PathVerifies
    <2>1. Len(leaves) \in Nat \ {0} /\ i \in 0 .. Len(leaves) - 1
      BY DEF Indexes
    <2>. QED
      BY <2>1, PathOfLeafVerifies
  <1>. QED
    BY <1>1, LeavesAreData, PTL

(***************************************************************************)
(* Whatever the leaves and however many, a path of the list verifies only  *)
(* the leaf that stands at the index given to Verify.                      *)
(***************************************************************************)
THEOREM PathsBindTheirLeaf == ListSpec => []OnlyItsLeafVerifies
  <1>1. leaves \in Seq(Data) => OnlyItsLeafVerifies
    <2>. SUFFICES ASSUME leaves \in Seq(Data), NEW i \in Indexes, NEW j \in Indexes,
                         NEW d \in Data, Verify(d, Path(leaves, i), Root(leaves), j)
                  PROVE  d = leaves[i + 1] /\ d = leaves[j + 1]
      BY DEF OnlyItsLeafVerifies
    <2>1. Len(leaves) \in Nat \ {0} /\ i \in 0 .. Len(leaves) - 1 /\ j \in 0 .. Len(leaves) - 1
      BY DEF Indexes
    <2>. QED
      BY <2>1, PathVerifiesItsLeaf
  <1>. QED
    BY <1>1, LeavesAreData, PTL

(***************************************************************************)
(* A root stands for one list of distinct leaves, of whatever length.      *)
(***************************************************************************)
THEOREM RootsBindLists == ListSpec => []RootBindsList
  <1>1. leaves \in Seq(Data) => RootBindsList
    <2>. SUFFICES ASSUME leaves \in Seq(Data), Distinct(leaves),
                         NEW other \in DistinctLists, Root(other) = Root(leaves)
                  PROVE  other = leaves
      BY DEF RootBindsList, RootOf
    <2>1. PICK n \in 0 .. MaxLeaves : other \in [1 .. n -> Data] /\ Distinct(other)
      BY DEF DistinctLists
    <2>2. PICK m \in Nat : leaves \in [1 .. m -> Data]
      BY SeqDef
    <2>3. n \in Nat
      BY <2>1
    <2>. QED
      BY <2>1, <2>2, <2>3, RootDeterminesList
  <1>. QED
    BY <1>1, LeavesAreData, PTL
=============================================================================
