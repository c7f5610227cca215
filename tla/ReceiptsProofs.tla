--------------------------- MODULE ReceiptsProofs ---------------------------
(***************************************************************************)
(* Proofs about receipts: what a proof built by GetInclusionProof shows,   *)
(* from the sorted leaves of a session, the tree's properties              *)
(* (MerkleProofs; its list of leaves plays no part here) and the writers'  *)
(* invariants (NotaryCoreProofs).                                          *)
(***************************************************************************)
EXTENDS Receipts, NotaryCoreProofs, MerkleProofs

-----------------------------------------------------------------------------
(***************************************************************************)
(* A list of all elements of R in which key increases.                     *)
(***************************************************************************)
Increasing(list, key) ==
  \A a, b \in DOMAIN list : a < b => key[list[a]] < key[list[b]]

(***************************************************************************)
(* A finite set with distinct keys has one: the rank of an element is one  *)
(* more than the number of the elements with smaller keys.                 *)
(***************************************************************************)
LEMMA SortedListExists ==
  ASSUME NEW R, IsFiniteSet(R), NEW key \in [R -> Int],
         \A x, y \in R : key[x] = key[y] => x = y
  PROVE  \E list \in [1 .. Cardinality(R) -> R] : Increasing(list, key)
  <1>. DEFINE n == Cardinality(R)
              below(x) == {y \in R : key[y] < key[x]}
              rank == [x \in R |-> Cardinality(below(x)) + 1]
  <1>1. n \in Nat /\ IsFiniteSet(1 .. n) /\ Cardinality(1 .. n) = n
    <2>1. n \in Nat
      BY FS_CardinalityType
    <2>. HIDE DEF n
    <2>. QED
      BY <2>1, FS_Interval
  <1>2. \A x \in R : /\ IsFiniteSet(below(x)) /\ Cardinality(below(x)) \in Nat
                     /\ Cardinality(below(x)) < n
    <2>. TAKE x \in R
    <2>1. below(x) \subseteq R /\ x \notin below(x)
      OBVIOUS
    <2>. HIDE DEF below
    <2>2. IsFiniteSet(below(x)) /\ Cardinality(below(x)) <= n /\ Cardinality(below(x)) # n
      BY <2>1, FS_Subset
    <2>. QED
      BY <1>1, <2>2, FS_CardinalityType
  <1>3. \A x, y \in R : key[x] < key[y] => rank[x] < rank[y]
    <2>1. ASSUME NEW x \in R, NEW y \in R, key[x] < key[y]
          PROVE  Cardinality(below(x)) < Cardinality(below(y))
      <3>1. below(x) \subseteq below(y) /\ x \in below(y) /\ x \notin below(x)
        BY <2>1
      <3>. HIDE DEF below, n
      <3>2. Cardinality(below(x)) <= Cardinality(below(y))
            /\ Cardinality(below(x)) # Cardinality(below(y))
        BY <1>2, <3>1, FS_Subset
      <3>. QED
        BY <1>2, <3>2
    <2>. HIDE DEF below, n
    <2>. QED
      BY <1>2, <2>1
  <1>4. rank \in [R -> 1 .. n]
    <2>. HIDE DEF n, below
    <2>. QED
      BY <1>1, <1>2
  <1>. HIDE DEF n, below, rank
  <1>5. \A x, y \in R : rank[x] = rank[y] => x = y
    <2>. TAKE x \in R, y \in R
    <2>1. key[x] \in Int /\ key[y] \in Int /\ rank[x] \in Int /\ rank[y] \in Int
      BY <1>4
    <2>. QED
      BY <1>3, <2>1
  <1>6. rank \in Surjection(R, 1 .. n)
    <2>1. rank \in Injection(R, 1 .. n)
      BY <1>4, <1>5 DEF Injection, IsInjective
    <2>. QED
      BY <1>1, <2>1, FS_Injection DEF n
  <1>. DEFINE list == [a \in 1 .. n |-> CHOOSE x \in R : rank[x] = a]
  <1>7. \A a \in 1 .. n : list[a] \in R /\ rank[list[a]] = a
    BY <1>6 DEF Surjection
  <1>8. list \in [1 .. n -> R]
    BY <1>7
  <1>9. Increasing(list, key)
    <2>. SUFFICES ASSUME NEW a \in 1 .. n, NEW b \in 1 .. n, a < b
                  PROVE  key[list[a]] < key[list[b]]
      BY DEF Increasing
    <2>. DEFINE x == list[a]
                y == list[b]
    <2>1. x \in R /\ y \in R /\ rank[x] = a /\ rank[y] = b
      BY <1>7
    <2>. HIDE DEF x, y
    <2>2. key[x] \in Int /\ key[y] \in Int /\ key[x] # key[y] /\ ~ (key[y] < key[x])
      BY <1>1, <1>3, <2>1
    <2>. QED
      BY <2>2 DEF x, y
  <1>. QED
    BY <1>8, <1>9 DEF n

(***************************************************************************)
(* Such a list has every element once.                                     *)
(***************************************************************************)
Enumerates(list, R) ==
  /\ \A a, b \in 1 .. Cardinality(R) : list[a] = list[b] => a = b
  /\ \A x \in R : \E a \in 1 .. Cardinality(R) : list[a] = x

LEMMA SortedListEnumerates ==
  ASSUME NEW R, NEW key, NEW list, IsFiniteSet(R), key \in [R -> Int],
         list \in [1 .. Cardinality(R) -> R], Increasing(list, key)
  PROVE  Enumerates(list, R)
  <1>. DEFINE n == Cardinality(R)
  <1>1. n \in Nat /\ IsFiniteSet(1 .. n) /\ Cardinality(1 .. n) = n
    <2>1. n \in Nat
      BY FS_CardinalityType
    <2>. HIDE DEF n
    <2>. QED
      BY <2>1, FS_Interval
  <1>. HIDE DEF n
  <1>2. \A a, b \in 1 .. n : list[a] = list[b] => a = b
    <2>. TAKE a \in 1 .. n, b \in 1 .. n
    <2>1. list[a] \in R /\ list[b] \in R
      BY DEF n
    <2>2. /\ a < b => key[list[a]] < key[list[b]]
          /\ b < a => key[list[b]] < key[list[a]]
      BY DEF Increasing, n
    <2>3. key[list[a]] \in Int /\ key[list[b]] \in Int
      BY <2>1
    <2>. QED
      BY <1>1, <2>2, <2>3
  <1>3. list \in Injection(1 .. n, R)
    BY <1>2 DEF Injection, IsInjective, n
  <1>4. list \in Surjection(1 .. n, R)
    BY <1>1, <1>3, FS_Injection DEF n
  <1>. QED
    BY <1>2, <1>4 DEF Surjection, n, Enumerates

(***************************************************************************)
(* An element stands at the position its key says exactly when every       *)
(* smaller key is taken.                                                   *)
(***************************************************************************)
AtItsKey(list, R, key, x) ==
  (key[x] \in 1 .. Cardinality(R) /\ list[key[x]] = x)
    <=> 1 .. key[x] \subseteq {key[y] : y \in R}

LEMMA PositionIsKey ==
  ASSUME NEW R, NEW key, NEW list, NEW x \in R,
         Cardinality(R) \in Nat, key \in [R -> Nat \ {0}],
         list \in [1 .. Cardinality(R) -> R], Increasing(list, key), Enumerates(list, R)
  PROVE  AtItsKey(list, R, key, x)
  <1>. DEFINE n == Cardinality(R)
              at == [a \in 1 .. n |-> key[list[a]]]
              q == key[x]
  <1>1. /\ n \in Nat
        /\ \A a \in 1 .. n : at[a] \in Nat \ {0}
        /\ \A a, b \in 1 .. n : a < b => at[a] < at[b]
        /\ \A y \in R : \E a \in 1 .. n : list[a] = y /\ at[a] = key[y]
        /\ q \in Nat \ {0}
        /\ \A a \in 1 .. n : list[a] \in R /\ at[a] = key[list[a]]
    BY DEF Increasing, Enumerates
  <1>. HIDE DEF at, q, n
  <1>2. \A a \in 1 .. n : a <= at[a]
    <2>. DEFINE S == {a \in Nat : a \in 1 .. n => a <= at[a]}
    <2>1. 0 \in S
      OBVIOUS
    <2>2. ASSUME NEW a \in 0 .. n - 1, a \in S
          PROVE  a + 1 \in S
      <3>1. CASE a = 0
        BY <1>1, <3>1
      <3>2. CASE a # 0
        <4>1. a \in 1 .. n /\ a + 1 \in 1 .. n /\ a < a + 1
          BY <1>1, <3>2
        <4>2. a <= at[a] /\ at[a] < at[a + 1]
          BY <1>1, <2>2, <4>1
        <4>. QED
          BY <1>1, <4>1, <4>2
      <3>. QED
        BY <3>1, <3>2
    <2>3. \A a \in 0 .. n : a \in S
      <3>. HIDE DEF S
      <3>. QED
        BY <1>1, <2>1, <2>2, Induction
    <2>. QED
      BY <2>3
  <1>3. ASSUME q \in 1 .. n, list[q] = x
        PROVE  1 .. q \subseteq {key[y] : y \in R}
    <2>. DEFINE S == {a \in Nat : a # 0 => at[a] <= a}
    <2>1. q \in S
      BY <1>1, <1>3 DEF q
    <2>2. ASSUME NEW a \in 0 .. q - 1, a + 1 \in S
          PROVE  a \in S
      <3>1. CASE a = 0
        BY <3>1
      <3>2. CASE a # 0
        <4>1. a \in 1 .. n /\ a + 1 \in 1 .. n /\ a < a + 1
          BY <1>1, <1>3, <3>2
        <4>2. at[a + 1] <= a + 1 /\ at[a] < at[a + 1]
          BY <1>1, <2>2, <4>1
        <4>. QED
          BY <1>1, <4>1, <4>2
      <3>. QED
        BY <3>1, <3>2
    <2>3. \A a \in 0 .. q : a \in S
      <3>. HIDE DEF S
      <3>. QED
        BY <1>1, <2>1, <2>2, DownwardInduction
    <2>4. ASSUME NEW a \in 1 .. q
          PROVE  \E y \in R : key[y] = a
      <3>1. a \in 1 .. n /\ a \in 0 .. q
        BY <1>1, <1>3
      <3>2. at[a] = a
        BY <1>1, <1>2, <2>3, <3>1
      <3>. QED
        BY <1>1, <3>1, <3>2
    <2>. QED
      BY <2>4
  <1>4. ASSUME 1 .. q \subseteq {key[y] : y \in R}
        PROVE  q \in 1 .. n /\ list[q] = x
    <2>. DEFINE S == {a \in Nat : a # 0 => a \in 1 .. n /\ at[a] = a}
    <2>1. 0 \in S
      OBVIOUS
    <2>2. ASSUME NEW a \in 0 .. q - 1, a \in S
          PROVE  a + 1 \in S
      <3>1. a + 1 \in 1 .. q
        BY <1>1
      <3>2. PICK b \in 1 .. n : at[b] = a + 1
        BY <1>1, <1>4, <3>1
      <3>3. b <= a + 1
        BY <1>2, <3>2
      <3>4. a < b
        <4>1. CASE a = 0
          BY <4>1
        <4>2. CASE a # 0
          <5>1. a \in 1 .. n /\ at[a] = a
            BY <2>2, <4>2
          <5>2. a # b
            BY <3>2, <5>1
          <5>3. ~ (b < a)
            <6>1. b < a => at[b] < at[a]
              BY <1>1, <5>1
            <6>. QED
              BY <3>2, <5>1, <6>1
          <5>. QED
            BY <5>2, <5>3
        <4>. QED
          BY <4>1, <4>2
      <3>5. b = a + 1
        BY <3>3, <3>4
      <3>. QED
        BY <3>2, <3>5
    <2>3. \A a \in 0 .. q : a \in S
      <3>. HIDE DEF S
      <3>. QED
        BY <1>1, <2>1, <2>2, Induction
    <2>4. q \in 1 .. n /\ at[q] = q
      BY <1>1, <2>3
    <2>5. PICK c \in 1 .. n : list[c] = x /\ at[c] = q
      BY <1>1 DEF q
    <2>6. c = q
      BY <1>1, <2>4, <2>5
    <2>. QED
      BY <2>4, <2>5, <2>6
  <1>. QED
    BY <1>3, <1>4 DEF q, n, AtItsKey

-----------------------------------------------------------------------------
(***************************************************************************)
(* The keys of the events table: the rows of a session have numbers of     *)
(* their own, whoever chose them.                                          *)
(***************************************************************************)
UniqueRows ==
  \A i, j \in DOMAIN log :
    log[i].sessionId = log[j].sessionId /\ log[i].sequence = log[j].sequence => i = j

LEMMA UniqueRowsNext == TypeOK /\ UniqueRows /\ [Next]_vars => UniqueRows'
  <1>. SUFFICES ASSUME TypeOK, UniqueRows, [Next]_vars PROVE UniqueRows'
    OBVIOUS
  <1>1. CASE UNCHANGED log
    BY <1>1 DEF UniqueRows
  <1>2. ASSUME NEW r \in Requests, AppendEvent(r)
        PROVE  UniqueRows'
    BY <1>2, AppendEventEffect DEF AppendEvent, Conflicts, UniqueRows
  <1>. QED
    BY <1>1, <1>2 DEF Next, Arrival, Step, Fault, Crash, RecordAction, Notarize,
       EndSession, Arrive, NextSequence, Last, LastFails, AppendConflict, End,
       BySession, UpsertAnchor, RequestFails, store, vars

(***************************************************************************)
(* The leaves of a session under a prefix of the log: all its rows there,  *)
(* each once, in the order of their numbers.                               *)
(***************************************************************************)
LEMMA LeavesShape ==
  ASSUME TypeOK, UniqueRows, NEW s, NEW n
  PROVE  LET rows == RowsBelow(s, n)
             list == Leaves(s, n)
             key == [i \in rows |-> log[i].sequence]
             m == Cardinality(rows)
         IN  /\ m \in Nat
             /\ rows \subseteq Nat
             /\ key \in [rows -> Int]
             /\ list \in [1 .. m -> rows]
             /\ Increasing(list, key)
             /\ Distinct(list)
             /\ Enumerates(list, rows)
             /\ Len(list) = m
  <1>. DEFINE rows == RowsBelow(s, n)
              list == Leaves(s, n)
              key == [i \in rows |-> log[i].sequence]
              m == Cardinality(rows)
              P(f) == \A a, b \in DOMAIN f :
                        a < b => log[f[a]].sequence < log[f[b]].sequence
  <1>1. DOMAIN log = 1 .. Len(log) /\ Len(log) \in Nat /\ log \in [DOMAIN log -> Event]
    BY DEF TypeOK
  <1>2. rows \subseteq 1 .. Len(log)
    BY <1>1 DEF RowsBelow, SessionRows
  <1>3. IsFiniteSet(rows)
    <2>. DEFINE L == Len(log)
    <2>1. L \in Nat /\ rows \subseteq 1 .. L
      BY <1>1, <1>2
    <2>. HIDE DEF rows, L
    <2>2. IsFiniteSet(1 .. L)
      BY <2>1, FS_Interval
    <2>. QED
      BY <2>1, <2>2, FS_Subset
  <1>4. m \in Nat
    BY <1>3, FS_CardinalityType
  <1>5. key \in [rows -> Int]
    BY <1>1, <1>2 DEF Event
  <1>6. \A x, y \in rows : key[x] = key[y] => x = y
    BY DEF UniqueRows, RowsBelow, SessionRows
  <1>7. \A f \in [1 .. m -> rows] : Increasing(f, key) <=> P(f)
    <2>. HIDE DEF m, rows
    <2>. QED
      BY DEF Increasing
  <1>8. \E f \in [1 .. m -> rows] : P(f)
    <2>1. \E f \in [1 .. m -> rows] : Increasing(f, key)
      <3>. HIDE DEF rows, key
      <3>. QED
        BY <1>3, <1>5, <1>6, SortedListExists
    <2>. HIDE DEF P, rows, key, m
    <2>. QED
      BY <1>7, <2>1
  <1>9. list \in [1 .. m -> rows] /\ P(list)
    <2>1. list = CHOOSE f \in [1 .. m -> rows] : P(f)
      BY DEF Leaves
    <2>. HIDE DEF list, P, rows, m
    <2>. QED
      BY <1>8, <2>1
  <1>10. Increasing(list, key)
    <2>. HIDE DEF list, P, rows, key, m
    <2>. QED
      BY <1>7, <1>9
  <1>11. Enumerates(list, rows)
    <2>. DEFINE R == rows
                k == key
                f == list
    <2>1. f \in [1 .. Cardinality(R) -> R] /\ IsFiniteSet(R) /\ k \in [R -> Int]
      BY <1>3, <1>5, <1>9
    <2>2. Increasing(f, k)
      BY <1>10
    <2>. HIDE DEF R, k, f
    <2>3. Enumerates(f, R)
      BY <2>1, <2>2, SortedListEnumerates
    <2>. QED
      BY <2>3 DEF R, k, f
  <1>12. Len(list) = m /\ Distinct(list)
    <2>. HIDE DEF list, rows, P
    <2>1. list = [a \in 1 .. m |-> list[a]] /\ DOMAIN list = 1 .. m
      BY <1>9
    <2>2. Len(list) = m
      BY <1>4, <2>1, FunctionLen
    <2>. QED
      BY <2>1, <2>2, <1>11 DEF Distinct, Enumerates, m
  <1>13. rows \subseteq Nat
    BY <1>1, <1>2
  <1>. HIDE DEF list, rows, key, m, P
  <1>. QED
    BY <1>4, <1>5, <1>9, <1>10, <1>11, <1>12, <1>13 DEF list, rows, key, m

-----------------------------------------------------------------------------
(***************************************************************************)
(* What the reader holds: a position on the log, and from GetLeaves on a   *)
(* prefix of the log that contains it.                                     *)
(***************************************************************************)
ReaderInv ==
  /\ proof \in [event : Nat, leaves : Nat, anchor : Int]
  /\ reader \in {"idle", "BySession", "Anchor", "done", "error"}
  /\ reader # "idle" => proof.event \in DOMAIN log
  /\ reader \in {"Anchor", "done", "error"} =>
       proof.event <= proof.leaves /\ proof.leaves <= Len(log)

(***************************************************************************)
(* The reader changes nothing that the writers use, so the writers'        *)
(* theorems hold beside it.                                                *)
(***************************************************************************)
LEMMA WritersStep == [RNext]_allVars => [Next]_vars
  BY DEF RNext, GetInclusionProof, GetEvent, GetLeaves, GetAnchor, allVars

LEMMA WritersRun == RSpec => Spec
  <1>1. RInit => Init
    BY DEF RInit
  <1>. QED
    BY <1>1, WritersStep, PTL DEF RSpec, Spec

LEMMA ReaderInvInit == RInit => ReaderInv
  BY DEF RInit, ReaderInv, NoAnchor

LEMMA ReaderInvNext == TypeOK /\ ReaderInv /\ [RNext]_allVars => ReaderInv'
  <1>. SUFFICES ASSUME TypeOK, ReaderInv, [RNext]_allVars
                PROVE  ReaderInv'
    OBVIOUS
  <1>0. Len(log) \in Nat /\ DOMAIN log = 1 .. Len(log)
    BY DEF TypeOK
  <1>1. CASE [Next]_vars /\ UNCHANGED <<reader, proof>>
    <2>1. /\ Len(log) <= Len(log') /\ Len(log') \in Nat
          /\ \A i \in DOMAIN log : i \in DOMAIN log'
      <3>1. TypeOK'
        BY <1>1, TypeNext
      <3>. QED
        BY <1>1, <3>1, LogGrows DEF TypeOK
    <2>. QED
      BY <1>0, <1>1, <2>1 DEF ReaderInv
  <1>2. ASSUME NEW i \in DOMAIN log, GetEvent(i)
        PROVE  ReaderInv'
    BY <1>0, <1>2 DEF GetEvent, ReaderInv, NoAnchor, vars, store
  <1>3. CASE GetLeaves
    <2>1. /\ proof' = [proof EXCEPT !.leaves = Len(log)]
          /\ reader = "BySession" /\ reader' \in {"Anchor", "error"} /\ log' = log
      BY <1>3 DEF GetLeaves, vars, store
    <2>2. /\ proof'.event = proof.event /\ proof'.leaves = Len(log)
          /\ proof' \in [event : Nat, leaves : Nat, anchor : Int]
      BY <1>0, <2>1 DEF ReaderInv
    <2>3. proof.event \in 1 .. Len(log)
      BY <1>0, <2>1 DEF ReaderInv
    <2>. QED
      BY <1>0, <2>1, <2>2, <2>3 DEF ReaderInv
  <1>4. CASE GetAnchor
    <2>1. log[proof.event].sessionId \in Sessions
      <3>1. proof.event \in DOMAIN log
        BY <1>4 DEF GetAnchor, ReaderInv
      <3>2. \A i \in DOMAIN log : log[i] \in Event
        BY <1>0 DEF TypeOK
      <3>. QED
        BY <3>1, <3>2 DEF Event
    <2>2. \A s \in Sessions : anchors[s] \in Int
      BY <1>0 DEF TypeOK, NoAnchor
    <2>3. /\ proof'.event = proof.event /\ proof'.leaves = proof.leaves
          /\ proof' \in [event : Nat, leaves : Nat, anchor : Int]
      BY <1>4, <2>1, <2>2 DEF GetAnchor, ReaderInv
    <2>. QED
      BY <1>4, <2>3 DEF GetAnchor, ReaderInv, vars, store
  <1>5. CASE UNCHANGED allVars
    BY <1>1, <1>5 DEF allVars
  <1>. QED
    BY <1>1, <1>2, <1>3, <1>4, <1>5 DEF RNext, GetInclusionProof

(***************************************************************************)
(* The inductive invariant of the log and its reader.                      *)
(***************************************************************************)
ReceiptsInv == TypeOK /\ UniqueRows /\ ReaderInv

LEMMA ReceiptsInvariance == RSpec => []ReceiptsInv
  <1>1. RInit => ReceiptsInv
    <2>1. RInit => UniqueRows
      BY DEF RInit, Init, UniqueRows
    <2>. QED
      BY <2>1, TypeInit, ReaderInvInit DEF RInit, ReceiptsInv
  <1>2. ReceiptsInv /\ [RNext]_allVars => ReceiptsInv'
    BY WritersStep, TypeNext, UniqueRowsNext, ReaderInvNext DEF ReceiptsInv
  <1>. QED
    BY <1>1, <1>2, PTL DEF RSpec

-----------------------------------------------------------------------------
(***************************************************************************)
(* A receipt with a good verdict shows an anchor that covers its event,    *)
(* whatever the writers do between the three reads, whatever numbers the   *)
(* callers of the Notarize RPC chose, whatever fails: equal roots mean     *)
(* equal lists of leaves (RootDeterminesList), and the event is in the one *)
(* its proof was built from.                                               *)
(***************************************************************************)
THEOREM GoodVerdictsAreAnchored == RSpec => []VerdictMeansAnchored
  <1>1. ReceiptsInv => VerdictMeansAnchored
    <2>. SUFFICES ASSUME ReceiptsInv, reader = "done", Anchored(proof)
                  PROVE  proof.event <= proof.anchor
      BY DEF VerdictMeansAnchored, Verdict
    <2>. DEFINE s == log[proof.event].sessionId
                read == RowsBelow(s, proof.leaves)
                anchored == RowsBelow(s, proof.anchor)
                u == Leaves(s, proof.leaves)
                v == Leaves(s, proof.anchor)
                m == Cardinality(read)
                n == Cardinality(anchored)
    <2>1. proof.event \in read
      BY DEF ReceiptsInv, ReaderInv, RowsBelow, SessionRows
    <2>2. /\ m \in Nat /\ u \in [1 .. m -> read] /\ read \subseteq Nat
          /\ Distinct(u) /\ Enumerates(u, read)
      BY LeavesShape DEF ReceiptsInv
    <2>3. n \in Nat /\ v \in [1 .. n -> anchored] /\ anchored \subseteq Nat /\ Distinct(v)
      BY LeavesShape DEF ReceiptsInv
    <2>4. Root(u) = Root(v)
      BY DEF Anchored, MerkleRoot
    <2>. HIDE DEF u, v, m, n, read, anchored
    <2>5. u \in [1 .. m -> Nat] /\ v \in [1 .. n -> Nat]
      BY <2>2, <2>3
    <2>6. u = v
      BY <2>2, <2>3, <2>4, <2>5, RootDeterminesList
    <2>7. proof.event \in anchored
      BY <2>1, <2>2, <2>3, <2>6 DEF Enumerates, m
    <2>. QED
      BY <2>7 DEF anchored, RowsBelow
  <1>. QED
    BY <1>1, ReceiptsInvariance, PTL

-----------------------------------------------------------------------------
(***************************************************************************)
(* Every number, held or on record, counts from 1.                         *)
(***************************************************************************)
CountFromOne ==
  /\ \A i \in DOMAIN log : log[i].sequence >= 1
  /\ \A r \in Requests : pc[r] \in Numbered => draft[r].sequence >= 1

LEMMA CountFromOneNext ==
  ASSUME \A n \in ClientSequences : n >= 1,
         TypeOK, CountFromOne, [Next]_vars
  PROVE  CountFromOne'
  <1>1. ASSUME NEW i \in (DOMAIN log)'
        PROVE  log'[i].sequence >= 1
    <2>1. CASE UNCHANGED log
      BY <2>1 DEF CountFromOne
    <2>2. ASSUME NEW r \in Requests, AppendEvent(r)
          PROVE  log'[i].sequence >= 1
      BY <2>2, AppendEventEffect DEF CountFromOne
    <2>. QED
      BY <2>1, <2>2 DEF Next, Arrival, Step, Fault, Crash, RecordAction, Notarize,
         EndSession, Arrive, NextSequence, Last, LastFails, AppendConflict, End,
         BySession, UpsertAnchor, RequestFails, store, vars
  <1>2. ASSUME NEW p \in Requests, pc'[p] \in Numbered
        PROVE  draft'[p].sequence >= 1
    <2>1. CASE pc'[p] = pc[p] /\ draft'[p].sequence = draft[p].sequence
      BY <1>2, <2>1 DEF CountFromOne
    <2>2. ASSUME NEW r \in Requests, Arrival(r) \/ Step(r) \/ Fault(r)
          PROVE  draft'[p].sequence >= 1
      <3>1. CASE p # r
        BY <2>1, <2>2, <3>1, OthersKeep
      <3>2. ASSUME p = r, NEW s \in Sessions, NEW n \in ClientSequences, Notarize(r, s, n)
            PROVE  draft'[p].sequence >= 1
        BY <3>2 DEF Notarize, TypeOK
      <3>3. CASE p = r /\ NextSequence(r)
        BY <3>3, NextSequenceEffect
      <3>4. CASE p = r /\ (Last(r) \/ LastFails(r))
        <4>1. pc[p] \in Numbered /\ draft'[p].sequence = draft[p].sequence
          BY <3>4 DEF Last, LastFails, TypeOK, Event, Numbered
        <4>. QED
          BY <4>1 DEF CountFromOne
      <3>5. CASE /\ p = r
                 /\ \/ \E s \in Sessions : RecordAction(r, s) \/ EndSession(r, s)
                    \/ AppendEvent(r) \/ AppendConflict(r) \/ End(r) \/ BySession(r)
                    \/ UpsertAnchor(r) \/ RequestFails(r)
        BY <1>2, <3>5 DEF RecordAction, EndSession, Arrive, AppendEvent, AppendConflict,
           End, BySession, UpsertAnchor, RequestFails, TypeOK, Numbered
      <3>. QED
        BY <2>2, <3>1, <3>2, <3>3, <3>4, <3>5 DEF Arrival, Step, Fault
    <2>3. CASE Crash
      BY <1>2, <2>3 DEF Crash, CountFromOne, Numbered, TypeOK
    <2>4. CASE UNCHANGED vars
      BY <2>1, <2>4 DEF vars
    <2>. QED
      BY <2>2, <2>3, <2>4 DEF Next
  <1>. QED
    BY <1>1, <1>2 DEF CountFromOne

(***************************************************************************)
(* A proof includes its event exactly when every smaller number of the     *)
(* session is among the leaves: only then is the event the leaf at its     *)
(* index, and a path verifies no other leaf.                               *)
(***************************************************************************)
LEMMA IncludedIffNoGap ==
  ASSUME TypeOK, UniqueRows, CountFromOne, NEW p,
         p.event \in RowsBelow(log[p.event].sessionId, p.leaves)
  PROVE  Included(p) <=>
           1 .. log[p.event].sequence
             \subseteq {log[i].sequence : i \in RowsBelow(log[p.event].sessionId, p.leaves)}
  <1>. DEFINE e == p.event
              s == log[e].sessionId
              rows == RowsBelow(s, p.leaves)
              list == Leaves(s, p.leaves)
              key == [i \in rows |-> log[i].sequence]
              m == Cardinality(rows)
              q == log[e].sequence
  <1>1. /\ m \in Nat /\ key \in [rows -> Int] /\ list \in [1 .. m -> rows]
        /\ Increasing(list, key) /\ Enumerates(list, rows) /\ Len(list) = m
    BY LeavesShape
  <1>2. key \in [rows -> Nat \ {0}]
    <2>1. \A i \in rows : log[i].sequence >= 1
      BY DEF CountFromOne, RowsBelow, SessionRows
    <2>2. \A i \in rows : key[i] \in Int
      <3>. HIDE DEF key, rows
      <3>. QED
        BY <1>1
    <2>. HIDE DEF rows
    <2>. QED
      BY <2>1, <2>2
  <1>3. /\ e \in rows /\ key[e] = q
        /\ {log[i].sequence : i \in rows} = {key[i] : i \in rows}
    OBVIOUS
  <1>4. Included(p) <=> /\ q - 1 \in 0 .. Len(list) - 1
                        /\ Verify(e, Path(list, q - 1), Root(list), q - 1)
    BY DEF Included, HasPath, Index, MerkleRoot
  <1>. HIDE DEF e, s, rows, list, key, m, q
  <1>5. (q \in 1 .. m /\ list[q] = e) <=> 1 .. q \subseteq {key[i] : i \in rows}
    <2>1. AtItsKey(list, rows, key, e)
      BY <1>1, <1>2, <1>3, PositionIsKey DEF m
    <2>. QED
      BY <1>3, <2>1 DEF AtItsKey, m
  <1>6. q \in Nat \ {0}
    BY <1>2, <1>3
  <1>7. ASSUME q - 1 \in 0 .. Len(list) - 1
        PROVE  Verify(e, Path(list, q - 1), Root(list), q - 1) <=> list[q] = e
    <2>1. Len(list) \in Nat \ {0} /\ (q - 1) + 1 = q
      BY <1>1, <1>6, <1>7
    <2>2. list[q] = e => Verify(e, Path(list, q - 1), Root(list), q - 1)
      <3>1. Verify(list[(q - 1) + 1], Path(list, q - 1), Root(list), q - 1)
        BY <1>7, <2>1, PathOfLeafVerifies
      <3>. QED
        BY <2>1, <3>1
    <2>3. Verify(e, Path(list, q - 1), Root(list), q - 1) => list[q] = e
      <3>. SUFFICES ASSUME Verify(e, Path(list, q - 1), Root(list), q - 1)
                    PROVE  list[q] = e
        OBVIOUS
      <3>1. e = list[(q - 1) + 1]
        BY <1>7, <2>1, PathVerifiesItsLeaf
      <3>. QED
        BY <2>1, <3>1
    <2>. QED
      BY <2>2, <2>3
  <1>8. Included(p) <=> q \in 1 .. m /\ list[q] = e
    BY <1>1, <1>4, <1>6, <1>7
  <1>. QED
    BY <1>3, <1>5, <1>8 DEF e, s, rows, q

LEMMA CountFromOneAlways ==
  ASSUME \A n \in ClientSequences : n >= 1
  PROVE  RSpec => []CountFromOne
  <1>1. Init => CountFromOne
    BY DEF Init, CountFromOne, Numbered
  <1>2. TypeOK /\ CountFromOne /\ [Next]_vars => CountFromOne'
    BY CountFromOneNext
  <1>3. Spec => []TypeOK
    BY TypeCorrect
  <1>. QED
    BY <1>1, <1>2, <1>3, WritersRun, PTL DEF Spec

(***************************************************************************)
(* The proof a client gets verifies inclusion exactly when every smaller   *)
(* number of the session was on record as the leaves were read, however    *)
(* writers and reader interleave and whatever fails.  Callers of the       *)
(* Notarize RPC may choose any numbers that count from 1; the handler does *)
(* not refuse the others.                                                  *)
(***************************************************************************)
THEOREM InclusionMeansNoGapBelow ==
  ASSUME \A n \in ClientSequences : n >= 1
  PROVE  RSpec => []InclusionIffNoGapBelow
  <1>1. ReceiptsInv /\ CountFromOne => InclusionIffNoGapBelow
    <2>. SUFFICES ASSUME ReceiptsInv, CountFromOne, reader \in {"Anchor", "done", "error"}
                  PROVE  Included(proof) <=>
                           1 .. log[proof.event].sequence \subseteq
                             {log[i].sequence : i \in
                                RowsBelow(log[proof.event].sessionId, proof.leaves)}
      BY DEF InclusionIffNoGapBelow
    <2>1. proof.event \in RowsBelow(log[proof.event].sessionId, proof.leaves)
      BY DEF ReceiptsInv, ReaderInv, RowsBelow, SessionRows
    <2>. QED
      BY <2>1, IncludedIffNoGap DEF ReceiptsInv
  <1>. QED
    BY <1>1, ReceiptsInvariance, CountFromOneAlways, PTL

(***************************************************************************)
(* Once the RPCs of a session, one at a time, came through without a       *)
(* failure, a receipt for any of its events verifies: its numbers have no  *)
(* gap (NoGapsAtRest), so each event is the leaf at its index, and its     *)
(* anchor covers them all (AnchorsAreCurrent).                             *)
(***************************************************************************)
THEOREM ReceiptsAtRestVerify ==
  ASSUME MaxInFlight = 1, ClientSequences = {}
  PROVE  RSpec => []ReceiptsVerifyAtRest
  <1>1. ReceiptsInv /\ CountFromOne /\ GapFreeAtRest /\ AnchorCurrentAtRest
          => ReceiptsVerifyAtRest
    <2>. SUFFICES ASSUME ReceiptsInv, CountFromOne, GapFreeAtRest, AnchorCurrentAtRest,
                         faults = 0, NEW s \in Sessions, InFlight(s) = {},
                         NEW i \in SessionRows(s)
                  PROVE  Verdict([event |-> i, leaves |-> Len(log), anchor |-> anchors[s]])
      BY DEF ReceiptsVerifyAtRest
    <2>. DEFINE p == [event |-> i, leaves |-> Len(log), anchor |-> anchors[s]]
    <2>1. DOMAIN log = 1 .. Len(log) /\ Len(log) \in Nat
      BY DEF ReceiptsInv, TypeOK
    <2>2. i \in DOMAIN log /\ log[i].sessionId = s
      BY DEF SessionRows
    <2>3. RowsBelow(s, Len(log)) = SessionRows(s)
      BY <2>1 DEF RowsBelow, SessionRows
    <2>4. RowsBelow(s, anchors[s]) = SessionRows(s)
      BY DEF AnchorCurrentAtRest, RowsBelow
    <2>5. anchors[s] # NoAnchor
      <3>1. i <= anchors[s]
        BY DEF AnchorCurrentAtRest
      <3>. QED
        BY <2>1, <2>2, <3>1 DEF NoAnchor
    <2>6. Leaves(s, Len(log)) = Leaves(s, anchors[s])
      BY <2>3, <2>4 DEF Leaves
    <2>7. p.event = i /\ p.leaves = Len(log) /\ p.anchor = anchors[s]
      OBVIOUS
    <2>. HIDE DEF p
    <2>8. Anchored(p)
      BY <2>2, <2>5, <2>6, <2>7 DEF Anchored, MerkleRoot
    <2>9. Included(p)
      <3>1. p.event \in RowsBelow(log[p.event].sessionId, p.leaves)
        BY <2>2, <2>3, <2>7
      <3>2. Included(p) <=>
              1 .. log[p.event].sequence \subseteq
                {log[j].sequence : j \in RowsBelow(log[p.event].sessionId, p.leaves)}
        BY <3>1, IncludedIffNoGap DEF ReceiptsInv
      <3>3. {log[j].sequence : j \in SessionRows(s)} = 1 .. eventCount[s]
        BY DEF GapFreeAtRest
      <3>4. eventCount[s] \in Nat /\ log[i].sequence \in 1 .. eventCount[s]
        BY <3>3 DEF ReceiptsInv, TypeOK
      <3>5. 1 .. log[i].sequence \subseteq 1 .. eventCount[s]
        BY <3>4
      <3>. QED
        BY <2>2, <2>3, <2>7, <3>2, <3>3, <3>5
    <2>. QED
      BY <2>8, <2>9 DEF Verdict, p
  <1>2. RSpec => []GapFreeAtRest
    BY WritersRun, NoGapsAtRest, PTL
  <1>3. RSpec => []AnchorCurrentAtRest
    BY WritersRun, AnchorsAreCurrent, PTL
  <1>4. RSpec => []CountFromOne
    BY CountFromOneAlways
  <1>. QED
    BY <1>1, <1>2, <1>3, <1>4, ReceiptsInvariance, PTL
=============================================================================
