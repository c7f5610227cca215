-------------------------- MODULE DelegationProofs --------------------------
(***************************************************************************)
(* Proofs about the delegations, for every set of grants, callers and      *)
(* forms. Chain is a recursive function: that its equation has one         *)
(* solution is not proved by induction over the table but kept, step by    *)
(* step, as part of the invariant, and so is everything known of the       *)
(* chains.                                                                 *)
(***************************************************************************)
EXTENDS Delegation, FiniteSetTheorems, TLAPS

(***************************************************************************)
(* f maps each grant of D to its chain, by the equation of Chain;          *)
(* OnlyChain says that it alone does.                                      *)
(***************************************************************************)
Unfolds(D, table, f) ==
  f = [h \in D |-> IF table[h].parentGrantId = NoParent
                     THEN <<table[h]>>
                     ELSE Append(f[table[h].parentGrantId], table[h])]

OnlyChain(D, table, f) ==
  /\ Unfolds(D, table, f)
  /\ \A e : Unfolds(D, table, e) => e = f

(***************************************************************************)
(* The chains after grant g is added to the table.                         *)
(***************************************************************************)
Extended(D, new, g, f) ==
  [h \in D \union {g} |->
     IF h # g THEN f[h]
     ELSE IF new[g].parentGrantId = NoParent THEN <<new[g]>>
     ELSE Append(f[new[g].parentGrantId], new[g])]

(***************************************************************************)
(* The recursive query has one answer for every stored grant.              *)
(***************************************************************************)
Grounded == \E f : OnlyChain(Stored, grants, f)

ParentsIn(D, table, g) == table[g].parentGrantId \in D \union {NoParent}

(***************************************************************************)
(* A table whose chains are determined still has that property with one    *)
(* more grant, whose parent is in it or which is a root: old chains stay,  *)
(* the new one is one longer than its parent's.                            *)
(***************************************************************************)
LEMMA Extends ==
  ASSUME NEW D, NEW table, NEW new, NEW g, g \notin D,
         \A h \in D : new[h] = table[h] /\ ParentsIn(D, table, h),
         ParentsIn(D, new, g),
         NEW f, OnlyChain(D, table, f)
  PROVE  OnlyChain(D \union {g}, new, Extended(D, new, g, f))
  <1>. DEFINE E == D \union {g}
              f2 == [h \in E |-> IF h # g THEN f[h]
                      ELSE IF new[g].parentGrantId = NoParent THEN <<new[g]>>
                      ELSE Append(f[new[g].parentGrantId], new[g])]
              body(e, h) == IF new[h].parentGrantId = NoParent
                              THEN <<new[h]>>
                              ELSE Append(e[new[h].parentGrantId], new[h])
  <1>1. Unfolds(E, new, f2)
    <2>1. \A h \in D : f[h] = IF table[h].parentGrantId = NoParent
                               THEN <<table[h]>>
                               ELSE Append(f[table[h].parentGrantId], table[h])
      BY DEF OnlyChain, Unfolds
    <2>2. ASSUME NEW h \in E PROVE f2[h] = body(f2, h)
      <3>1. CASE h = g
        BY <3>1 DEF ParentsIn
      <3>2. CASE h \in D
        BY <3>2, <2>1 DEF ParentsIn
      <3>. QED
        BY <3>1, <3>2
    <2>3. f2 = [h \in E |-> body(f2, h)]
      BY <2>2
    <2>. QED
      BY <2>3 DEF Unfolds
  <1>2. ASSUME NEW e, Unfolds(E, new, e) PROVE e = f2
    <2>. DEFINE r == [h \in D |-> e[h]]
    <2>1. e = [h \in E |-> body(e, h)]
      BY <1>2 DEF Unfolds
    <2>2. \A h \in E : e[h] = body(e, h)
      BY <2>1
    <2>3. \A h \in D : r[h] = IF table[h].parentGrantId = NoParent
                               THEN <<table[h]>>
                               ELSE Append(r[table[h].parentGrantId], table[h])
      BY <2>2 DEF ParentsIn
    <2>4. Unfolds(D, table, r)
      BY <2>3 DEF Unfolds
    <2>5. r = f
      BY <2>4 DEF OnlyChain
    <2>6. \A h \in D : e[h] = f[h]
      BY <2>5
    <2>7. e[g] = f2[g]
      BY <2>2, <2>6 DEF ParentsIn
    <2>8. \A h \in E : e[h] = f2[h]
      BY <2>6, <2>7
    <2>9. e = [h \in E |-> e[h]]
      BY <2>1
    <2>10. f2 = [h \in E |-> f2[h]]
      OBVIOUS
    <2>. HIDE DEF f2, r
    <2>. QED
      BY <2>8, <2>9, <2>10
  <1>. QED
    BY <1>1, <1>2 DEF OnlyChain, Extended

(***************************************************************************)
(* Chain is the one solution, hence it satisfies its own equation.         *)
(***************************************************************************)
LEMMA ChainIs ==
  ASSUME NEW f, OnlyChain(Stored, grants, f)
  PROVE  \A h \in Stored : Chain(h) = f[h]
  <1>. DEFINE up == CHOOSE e : Unfolds(Stored, grants, e)
  <1>1. up = f
    BY DEF OnlyChain
  <1>2. \A h : Chain(h) = up[h]
    BY DEF Chain, Unfolds
  <1>. QED
    BY <1>1, <1>2

LEMMA ChainUnfolds ==
  ASSUME Grounded, \A h \in Stored : ParentsIn(Stored, grants, h)
  PROVE  \A h \in Stored :
           Chain(h) = IF grants[h].parentGrantId = NoParent
                        THEN <<grants[h]>>
                        ELSE Append(Chain(grants[h].parentGrantId), grants[h])
  <1>1. PICK f : OnlyChain(Stored, grants, f)
    BY DEF Grounded
  <1>2. \A h \in Stored : f[h] = IF grants[h].parentGrantId = NoParent
                                   THEN <<grants[h]>>
                                   ELSE Append(f[grants[h].parentGrantId], grants[h])
    BY <1>1 DEF OnlyChain, Unfolds
  <1>3. \A h \in Stored : Chain(h) = f[h]
    BY <1>1, ChainIs
  <1>. QED
    BY <1>2, <1>3 DEF ParentsIn

(***************************************************************************)
(* What is known of the chain of a stored grant: it is made of stored      *)
(* grants, from a root to the grant itself, no grant comes twice, all are  *)
(* of one project; and where each delegated grant names its capabilities   *)
(* and each pair narrows, the whole chain does.                            *)
(***************************************************************************)
Rows == {grants[h] : h \in Stored}

Narrows(chain) ==
  (\A i \in 2 .. Len(chain) : /\ checkNonWidening(chain[i - 1], chain[i])
                              /\ chain[i].capabilities # {})
    => \A i, j \in 2 .. Len(chain) :
         i <= j => chain[j].capabilities \subseteq chain[i].capabilities

GoodChain(chain, rows, row) ==
  /\ chain \in Seq(rows) /\ chain # <<>>
  /\ chain[1].parentGrantId = NoParent
  /\ chain[Len(chain)] = row
  /\ \A i, j \in DOMAIN chain : chain[i].grantId = chain[j].grantId => i = j
  /\ \A i \in DOMAIN chain : chain[i].projectId = row.projectId
  /\ Narrows(chain)

(***************************************************************************)
(* A signed grant waits under a stored parent of its own project.          *)
(***************************************************************************)
PendingInProject ==
  \A g \in DOMAIN pending :
    grants[pending[g].parentGrantId].projectId = pending[g].projectId

(***************************************************************************)
(* The inductive invariant.                                                *)
(***************************************************************************)
IInv ==
  /\ TypeOK
  /\ Grounded
  /\ PendingInProject
  /\ \A h \in Stored : GoodChain(Chain(h), Rows, grants[h])

(***************************************************************************)
(* The fields of a grant, signed or stored.                                *)
(***************************************************************************)
LEMMA GrantFields ==
  ASSUME NEW g, NEW x, NEW parents, NEW keys, IsGrant(g, x, parents, keys)
  PROVE  /\ x.grantId = g /\ x.parentGrantId \in parents
         /\ x.projectId \in Projects
         /\ \E f \in Form : x.maxDepth = f.maxDepth
  BY DEF IsGrant, Grant

LEMMA ParentsStored ==
  ASSUME TypeOK
  PROVE  /\ \A h \in Stored : /\ grants[h].grantId = h
                              /\ ParentsIn(Stored, grants, h)
                              /\ grants[h].projectId \in Projects
         /\ \A h \in DOMAIN pending : /\ pending[h].grantId = h
                                      /\ pending[h].parentGrantId \in Stored
  BY GrantFields DEF TypeOK, ParentsIn

(***************************************************************************)
(* A root alone is a good chain; a good chain stays good with one more     *)
(* grant of its project that is not on it, and among more rows.            *)
(***************************************************************************)
LEMMA RootChainIsGood ==
  ASSUME NEW rows, NEW row \in rows, row.parentGrantId = NoParent
  PROVE  GoodChain(<<row>>, rows, row)
  BY DEF GoodChain, Narrows

LEMMA LongerChainNarrows ==
  ASSUME NEW chain, NEW n \in Nat \ {0}, Len(chain) = n, Narrows(chain),
         NEW long, Len(long) = n + 1, \A i \in 1 .. n : long[i] = chain[i]
  PROVE  Narrows(long)
  <1>1. SUFFICES ASSUME \A i \in 2 .. n + 1 : /\ checkNonWidening(long[i - 1], long[i])
                                              /\ long[i].capabilities # {},
                        NEW i \in 2 .. n + 1, NEW j \in 2 .. n + 1, i <= j
                 PROVE  long[j].capabilities \subseteq long[i].capabilities
    BY DEF Narrows
  <1>2. \A k \in 2 .. n : /\ k \in 2 .. n + 1 /\ k \in 1 .. n /\ k - 1 \in 1 .. n
    OBVIOUS
  <1>3. \A k \in 2 .. n : /\ checkNonWidening(chain[k - 1], chain[k])
                          /\ chain[k].capabilities # {}
    BY <1>1, <1>2
  <1>4. \A k, l \in 2 .. n :
          k <= l => chain[l].capabilities \subseteq chain[k].capabilities
    BY <1>3 DEF Narrows
  <1>5. CASE j <= n
    <2>1. i \in 2 .. n /\ j \in 2 .. n
      BY <1>1, <1>5
    <2>. QED
      BY <1>2, <1>4, <2>1, <1>1
  <1>6. CASE j = n + 1 /\ i <= n
    <2>1. i \in 2 .. n /\ n \in 2 .. n /\ n + 1 \in 2 .. n + 1 /\ (n + 1) - 1 = n
      BY <1>6
    <2>2. chain[n].capabilities # {} /\ checkNonWidening(chain[n], long[j])
      BY <1>1, <1>2, <1>3, <1>6, <2>1
    <2>3. long[j].capabilities \subseteq chain[n].capabilities
      BY <2>2 DEF checkNonWidening
    <2>4. chain[n].capabilities \subseteq chain[i].capabilities
      BY <1>4, <2>1
    <2>. QED
      BY <2>1, <2>3, <2>4, <1>2
  <1>7. CASE j = n + 1 /\ i = n + 1
    BY <1>7
  <1>. QED
    BY <1>5, <1>6, <1>7

LEMMA LongerChainIsGood ==
  ASSUME NEW rows, NEW more, rows \subseteq more, NEW parent,
         NEW chain, GoodChain(chain, rows, parent),
         NEW row \in more, row.projectId = parent.projectId,
         \A old \in rows : old.grantId # row.grantId
  PROVE  GoodChain(Append(chain, row), more, row)
  <1>. DEFINE long == Append(chain, row)
              n == Len(chain)
  <1>1. /\ chain \in Seq(rows) /\ n \in Nat \ {0} /\ Len(long) = n + 1
        /\ long[n + 1] = row
        /\ \A i \in 1 .. n : long[i] = chain[i] /\ chain[i] \in rows
        /\ DOMAIN long = 1 .. n + 1 /\ long # <<>> /\ long \in Seq(more)
    BY DEF GoodChain
  <1>2. Narrows(long)
    <2>1. Narrows(chain)
      BY DEF GoodChain
    <2>. HIDE DEF long
    <2>. QED
      BY <1>1, <2>1, LongerChainNarrows
  <1>. HIDE DEF long
  <1>3. long[1].parentGrantId = NoParent
    BY <1>1 DEF GoodChain
  <1>4. \A i, j \in DOMAIN long : long[i].grantId = long[j].grantId => i = j
    <2>1. \A i, j \in 1 .. n : chain[i].grantId = chain[j].grantId => i = j
      BY <1>1 DEF GoodChain
    <2>2. \A i \in 1 .. n : long[i].grantId # row.grantId
      BY <1>1
    <2>3. \A i \in DOMAIN long : i \in 1 .. n \/ i = n + 1
      BY <1>1
    <2>. QED
      BY <1>1, <2>1, <2>2, <2>3
  <1>5. \A i \in DOMAIN long : long[i].projectId = row.projectId
    <2>1. \A i \in 1 .. n : chain[i].projectId = row.projectId
      BY <1>1 DEF GoodChain
    <2>2. \A i \in DOMAIN long : i \in 1 .. n \/ i = n + 1
      BY <1>1
    <2>. QED
      BY <1>1, <2>1, <2>2
  <1>. QED
    BY <1>1, <1>2, <1>3, <1>4, <1>5 DEF GoodChain, long

LEMMA MoreRows ==
  ASSUME NEW rows, NEW more, rows \subseteq more, NEW row, NEW chain,
         GoodChain(chain, rows, row)
  PROVE  GoodChain(chain, more, row)
  BY DEF GoodChain

(***************************************************************************)
(* What a step that stores a grant does to the chains.                     *)
(***************************************************************************)
LEMMA GrantAdded ==
  ASSUME IInv, NEW g, g \notin Stored, NEW x,
         grants' = With(grants, g, x), x.grantId = g,
         \/ x.parentGrantId = NoParent
         \/ /\ x.parentGrantId \in Stored
            /\ grants[x.parentGrantId].projectId = x.projectId
  PROVE  /\ Stored' = Stored \union {g}
         /\ grants'[g] = x /\ \A h \in Stored : grants'[h] = grants[h]
         /\ Grounded'
         /\ \A h \in Stored : Chain(h)' = Chain(h)
         /\ \A h \in Stored' : GoodChain(Chain(h), Rows, grants[h])'
  <1>1. /\ Stored' = Stored \union {g}
        /\ grants'[g] = x /\ \A h \in Stored : grants'[h] = grants[h]
    BY DEF With, Stored
  <1>2. \A h \in Stored : ParentsIn(Stored, grants, h) /\ grants[h].grantId = h
    BY ParentsStored DEF IInv
  <1>3. PICK f : OnlyChain(Stored, grants, f)
    BY DEF IInv, Grounded
  <1>. DEFINE f2 == Extended(Stored, grants', g, f)
  <1>. HIDE DEF f2
  <1>4. OnlyChain(Stored \union {g}, grants', f2)
    <2>1. \A h \in Stored : grants'[h] = grants[h] /\ ParentsIn(Stored, grants, h)
      BY <1>1, <1>2
    <2>2. ParentsIn(Stored, grants', g)
      BY <1>1 DEF ParentsIn
    <2>. QED
      BY <1>3, <2>1, <2>2, Extends DEF f2
  <1>5. OnlyChain(Stored', grants', f2)
    BY <1>1, <1>4
  <1>6. Grounded'
    BY <1>5 DEF Grounded
  <1>7. \A h \in Stored : Chain(h) = f[h]
    BY <1>3, ChainIs
  <1>8. \A h \in Stored' : Chain(h)' = f2[h]
    <2>. DEFINE up == CHOOSE e : Unfolds(Stored', grants', e)
    <2>1. up = f2
      BY <1>5 DEF OnlyChain
    <2>2. \A h : Chain(h)' = up[h]
      BY DEF Chain, Unfolds
    <2>. QED
      BY <2>1, <2>2
  <1>9. \A h \in Stored : Chain(h)' = Chain(h)
    BY <1>1, <1>7, <1>8 DEF f2, Extended
  <1>10. GoodChain(Chain(g)', Rows', x)
    <2>1. Chain(g)' = IF x.parentGrantId = NoParent THEN <<x>>
                      ELSE Append(f[x.parentGrantId], x)
      BY <1>1, <1>8 DEF f2, Extended
    <2>2. x \in Rows' /\ Rows \subseteq Rows' /\ \A old \in Rows : old.grantId # x.grantId
      BY <1>1, <1>2 DEF Rows
    <2>3. CASE x.parentGrantId = NoParent
      BY <2>1, <2>2, <2>3, RootChainIsGood
    <2>4. CASE x.parentGrantId # NoParent
      <3>. DEFINE parent == x.parentGrantId
      <3>1. parent \in Stored /\ grants[parent].projectId = x.projectId
        BY <2>4
      <3>2. GoodChain(Chain(parent), Rows, grants[parent])
        BY <3>1 DEF IInv
      <3>3. Chain(g)' = Append(Chain(parent), x)
        BY <1>7, <2>1, <2>4, <3>1
      <3>4. GoodChain(Append(Chain(parent), x), Rows', x)
        BY <2>2, <3>1, <3>2, LongerChainIsGood
      <3>. QED
        BY <3>3, <3>4
    <2>. QED
      BY <2>3, <2>4
  <1>11. \A h \in Stored : GoodChain(Chain(h)', Rows', grants'[h])
    <2>1. \A h \in Stored : GoodChain(Chain(h), Rows, grants[h])
      BY DEF IInv
    <2>2. Rows \subseteq Rows'
      BY <1>1 DEF Rows
    <2>. QED
      BY <1>1, <1>9, <2>1, <2>2, MoreRows
  <1>. QED
    BY <1>1, <1>6, <1>9, <1>10, <1>11

(***************************************************************************)
(* A grant remains one while the table and the keys grow; a new one is     *)
(* one.                                                                    *)
(***************************************************************************)
LEMMA GrantIsKept ==
  ASSUME NEW g, NEW x, NEW parents, NEW more, parents \subseteq more,
         NEW k \in Nat, NEW l \in Nat, k <= l, IsGrant(g, x, parents, 0 .. k)
  PROVE  IsGrant(g, x, more, 0 .. l)
  <1>1. 0 .. k \subseteq 0 .. l
    OBVIOUS
  <1>. QED
    BY <1>1 DEF IsGrant

LEMMA NewGrantIsGrant ==
  ASSUME NEW g, NEW parents, NEW parent \in parents, NEW p \in Projects,
         NEW f \in Form, key \in Nat
  PROVE  IsGrant(g, NewGrant(g, parent, p, f), parents, 0 .. key)
  <1>1. key \in 0 .. key
    OBVIOUS
  <1>. QED
    BY <1>1 DEF IsGrant, NewGrant

(***************************************************************************)
(* A step that leaves the table alone leaves every chain alone.            *)
(***************************************************************************)
LEMMA GrantsKept ==
  ASSUME IInv, UNCHANGED grants
  PROVE  /\ Stored' = Stored /\ Rows' = Rows
         /\ Grounded'
         /\ \A h \in Stored : Chain(h)' = Chain(h)
         /\ \A h \in Stored' : GoodChain(Chain(h), Rows, grants[h])'
  <1>1. Stored' = Stored /\ Rows' = Rows
    BY DEF Stored, Rows
  <1>2. Grounded'
    BY <1>1 DEF IInv, Grounded
  <1>3. \A h : Chain(h)' = Chain(h)
    BY <1>1 DEF Chain
  <1>. QED
    BY <1>1, <1>2, <1>3 DEF IInv

(***************************************************************************)
(* The invariant holds at the start, and one lemma per handler keeps it.   *)
(* No handler changes the chain of a stored grant.                         *)
(***************************************************************************)
LEMMA InitIInv == Init => IInv
  <1>. SUFFICES ASSUME Init PROVE IInv
    OBVIOUS
  <1>. USE DelegationAssumption DEF Init
  <1>1. Stored = {} /\ DOMAIN pending = {}
    BY DEF Stored
  <1>2. TypeOK
    BY <1>1 DEF TypeOK
  <1>3. OnlyChain(Stored, grants, [h \in {} |-> h])
    BY <1>1 DEF OnlyChain, Unfolds
  <1>. QED
    BY <1>1, <1>2, <1>3 DEF IInv, Grounded, PendingInProject

LEMMA KeyIsNat == TypeOK => key \in Nat /\ key <= MaxKeys
  BY DelegationAssumption DEF TypeOK

(***************************************************************************)
(* The handlers, one by one, keep the invariant and every stored grant's   *)
(* chain.                                                                  *)
(***************************************************************************)
LEMMA IssueKeeps ==
  ASSUME IInv, NEW g \in Grants, NEW c \in Callers, NEW project \in Projects,
         NEW form \in Requested, IssueRootGrant(g, c, project, form)
  PROVE  IInv' /\ \A h \in Stored : h \in Stored' /\ Chain(h)' = Chain(h)
  <1>. DEFINE bare == [form EXCEPT !.capabilities = {}]
              x == NewGrant(g, NoParent, project, bare)
  <1>1. /\ UNCHANGED <<revoked, pending, key>>
        /\ grants' = With(grants, g, x) /\ g \notin Stored /\ g \notin DOMAIN pending
    BY DEF IssueRootGrant, Unused
  <1>2. x.grantId = g /\ x.parentGrantId = NoParent
    BY DEF NewGrant, Grant
  <1>. HIDE DEF x
  <1>3. /\ Stored' = Stored \union {g}
        /\ grants'[g] = x /\ \A h \in Stored : grants'[h] = grants[h]
        /\ Grounded'
        /\ \A h \in Stored : Chain(h)' = Chain(h)
        /\ \A h \in Stored' : GoodChain(Chain(h), Rows, grants[h])'
    BY <1>1, <1>2, GrantAdded
  <1>4. bare \in Form
    <2>1. form \in Form
      BY DelegationAssumption
    <2>. QED
      BY <2>1 DEF Form
  <1>5. TypeOK'
    <2>1. key' = key /\ key \in Nat
      BY <1>1, KeyIsNat DEF IInv
    <2>2. IsGrant(g, x, Stored' \union {NoParent}, 0 .. key)
      BY <1>4, <2>1, NewGrantIsGrant DEF x
    <2>3. \A h \in Stored :
            IsGrant(h, grants[h], Stored' \union {NoParent}, 0 .. key)
      BY <1>3, <2>1, GrantIsKept DEF IInv, TypeOK
    <2>4. \A h \in DOMAIN pending : IsGrant(h, pending[h], Stored', 0 .. key)
      BY <1>3, <2>1, GrantIsKept DEF IInv, TypeOK
    <2>. QED
      BY <1>1, <1>3, <2>1, <2>2, <2>3, <2>4 DEF IInv, TypeOK
  <1>6. PendingInProject'
    BY <1>1, <1>3, ParentsStored DEF IInv, PendingInProject
  <1>. QED
    BY <1>3, <1>5, <1>6 DEF IInv

LEMMA DelegateKeeps ==
  ASSUME IInv, NEW g \in Grants, NEW c \in Callers, NEW parent \in Stored,
         NEW form \in Requested, Delegate(g, c, parent, form)
  PROVE  IInv' /\ \A h \in Stored : h \in Stored' /\ Chain(h)' = Chain(h)
  <1>. DEFINE project == grants[parent].projectId
              x == NewGrant(g, parent, project, form)
  <1>1. UNCHANGED <<grants, revoked, key>> /\ pending' = With(pending, g, x) /\ Unused(g)
    BY DEF Delegate
  <1>2. /\ Stored' = Stored /\ Grounded'
        /\ \A h \in Stored : Chain(h)' = Chain(h)
        /\ \A h \in Stored' : GoodChain(Chain(h), Rows, grants[h])'
    BY <1>1, GrantsKept
  <1>3. x.parentGrantId = parent /\ x.projectId = project
    BY DEF NewGrant, Grant
  <1>4. key \in Nat /\ IsGrant(g, x, Stored, 0 .. key)
    BY ParentsStored, KeyIsNat, NewGrantIsGrant, DelegationAssumption DEF IInv
  <1>. HIDE DEF x
  <1>5. /\ DOMAIN pending' = DOMAIN pending \union {g} /\ pending'[g] = x
        /\ \A h \in DOMAIN pending : h # g /\ pending'[h] = pending[h]
    BY <1>1 DEF With, Unused
  <1>6. TypeOK'
    BY <1>1, <1>2, <1>4, <1>5 DEF IInv, TypeOK, Unused
  <1>7. PendingInProject'
    BY <1>1, <1>3, <1>5 DEF IInv, PendingInProject
  <1>. QED
    BY <1>2, <1>6, <1>7 DEF IInv

LEMMA PutKeeps ==
  ASSUME IInv, NEW g \in Grants, PutGrant(g)
  PROVE  IInv' /\ \A h \in Stored : h \in Stored' /\ Chain(h)' = Chain(h)
  <1>. DEFINE x == pending[g]
  <1>1. /\ UNCHANGED <<revoked, key>> /\ g \in DOMAIN pending /\ g \notin Stored
        /\ grants' = With(grants, g, x)
        /\ DOMAIN pending' = DOMAIN pending \ {g}
        /\ \A h \in DOMAIN pending' : pending'[h] = pending[h]
    BY DEF PutGrant, Without, IInv, TypeOK
  <1>2. /\ x.grantId = g /\ x.parentGrantId \in Stored
        /\ grants[x.parentGrantId].projectId = x.projectId
    BY <1>1, ParentsStored DEF IInv, PendingInProject
  <1>. HIDE DEF x
  <1>3. /\ Stored' = Stored \union {g}
        /\ grants'[g] = x /\ \A h \in Stored : grants'[h] = grants[h]
        /\ Grounded'
        /\ \A h \in Stored : Chain(h)' = Chain(h)
        /\ \A h \in Stored' : GoodChain(Chain(h), Rows, grants[h])'
    BY <1>1, <1>2, GrantAdded
  <1>4. TypeOK'
    <2>1. key' = key /\ key \in Nat
      BY <1>1, KeyIsNat DEF IInv
    <2>2. IsGrant(g, x, Stored' \union {NoParent}, 0 .. key)
      <3>1. IsGrant(g, x, Stored, 0 .. key)
        BY <1>1 DEF IInv, TypeOK, x
      <3>. QED
        BY <1>3, <2>1, <3>1, GrantIsKept
    <2>3. \A h \in Stored :
            IsGrant(h, grants[h], Stored' \union {NoParent}, 0 .. key)
      BY <1>3, <2>1, GrantIsKept DEF IInv, TypeOK
    <2>4. \A h \in DOMAIN pending : IsGrant(h, pending[h], Stored', 0 .. key)
      BY <1>3, <2>1, GrantIsKept DEF IInv, TypeOK
    <2>. QED
      BY <1>1, <1>3, <2>1, <2>2, <2>3, <2>4 DEF IInv, TypeOK
  <1>5. PendingInProject'
    BY <1>1, <1>3, ParentsStored DEF IInv, PendingInProject
  <1>. QED
    BY <1>3, <1>4, <1>5 DEF IInv

LEMMA RevokeKeeps ==
  ASSUME IInv, NEW g \in Grants, NEW c \in Callers, Revoke(g, c)
  PROVE  IInv' /\ \A h \in Stored : h \in Stored' /\ Chain(h)' = Chain(h)
  <1>1. /\ UNCHANGED <<grants, pending, key>> /\ g \in Stored
        /\ revoked' = revoked \union {g}
    BY DEF Revoke
  <1>2. /\ Stored' = Stored /\ Grounded'
        /\ \A h \in Stored : Chain(h)' = Chain(h)
        /\ \A h \in Stored' : GoodChain(Chain(h), Rows, grants[h])'
    BY <1>1, GrantsKept
  <1>3. TypeOK' /\ PendingInProject'
    BY <1>1, <1>2 DEF IInv, TypeOK, PendingInProject
  <1>. QED
    BY <1>2, <1>3 DEF IInv

LEMMA RestartKeeps ==
  ASSUME IInv, Restart
  PROVE  IInv' /\ \A h \in Stored : h \in Stored' /\ Chain(h)' = Chain(h)
  <1>1. /\ UNCHANGED <<grants, revoked>> /\ pending' = <<>>
        /\ key \in Nat /\ key' \in 0 .. MaxKeys /\ key <= key'
    BY KeyIsNat, DelegationAssumption DEF Restart, IInv, TypeOK
  <1>2. /\ Stored' = Stored /\ Grounded'
        /\ \A h \in Stored : Chain(h)' = Chain(h)
        /\ \A h \in Stored' : GoodChain(Chain(h), Rows, grants[h])'
    BY <1>1, GrantsKept
  <1>3. DOMAIN pending' = {}
    BY <1>1
  <1>4. \A h \in Stored : IsGrant(h, grants[h], Stored \union {NoParent}, 0 .. key')
    BY <1>1, GrantIsKept DEF IInv, TypeOK
  <1>5. TypeOK' /\ PendingInProject'
    BY <1>1, <1>2, <1>3, <1>4 DEF IInv, TypeOK, PendingInProject
  <1>. QED
    BY <1>2, <1>5 DEF IInv

LEMMA StepKeeps ==
  ASSUME IInv, [Next]_vars
  PROVE  IInv' /\ \A h \in Stored : h \in Stored' /\ Chain(h)' = Chain(h)
  <1>1. ASSUME NEW g \in Grants, Handler(g)
        PROVE  IInv' /\ \A h \in Stored : h \in Stored' /\ Chain(h)' = Chain(h)
    BY <1>1, IssueKeeps, DelegateKeeps, PutKeeps, RevokeKeeps DEF Handler
  <1>2. CASE UNCHANGED vars
    <2>1. UNCHANGED <<grants, revoked, pending, key>>
      BY <1>2 DEF vars
    <2>2. /\ Stored' = Stored /\ Grounded'
          /\ \A h \in Stored : Chain(h)' = Chain(h)
          /\ \A h \in Stored' : GoodChain(Chain(h), Rows, grants[h])'
      BY <2>1, GrantsKept
    <2>. QED
      BY <2>1, <2>2 DEF IInv, TypeOK, PendingInProject
  <1>. QED
    BY <1>1, <1>2, RestartKeeps DEF Next

(***************************************************************************)
(* What every step keeps: the invariant, the revocations, the stored       *)
(* grants and their chains.                                                *)
(***************************************************************************)
LEMMA StepExtends ==
  ASSUME IInv, [Next]_vars
  PROVE  /\ IInv'
         /\ revoked \subseteq revoked'
         /\ \A h \in Stored : /\ h \in Stored' /\ Chain(h)' = Chain(h)
                              /\ grants'[h] = grants[h]
  <1>1. IInv' /\ \A h \in Stored : h \in Stored' /\ Chain(h)' = Chain(h)
    BY StepKeeps
  <1>2. revoked \subseteq revoked'
    BY DEF Next, Handler, IssueRootGrant, Delegate, PutGrant, Revoke, Restart, vars
  <1>3. \A h \in Stored : Chain(h)[Len(Chain(h))] = grants[h]
    BY DEF IInv, GoodChain
  <1>4. \A h \in Stored' : Chain(h)'[Len(Chain(h)')] = grants'[h]
    BY <1>1 DEF IInv, GoodChain
  <1>. QED
    BY <1>1, <1>2, <1>3, <1>4

-----------------------------------------------------------------------------
(***************************************************************************)
(* The inductive invariant of the delegations: every chain is determined,  *)
(* and good.                                                               *)
(***************************************************************************)
THEOREM DelegationInvariant == Spec => []IInv
  <1>1. IInv /\ [Next]_vars => IInv'
    BY StepKeeps
  <1>. QED
    BY InitIInv, <1>1, PTL DEF Spec

(***************************************************************************)
(* Every stored or signed grant is one, under a stored parent.             *)
(***************************************************************************)
THEOREM DelegationTypeCorrect == Spec => []TypeOK
  <1>1. IInv => TypeOK
    BY DEF IInv
  <1>. QED
    BY DelegationInvariant, <1>1, PTL

(***************************************************************************)
(* A chain without repetition has as many ids as links.                    *)
(***************************************************************************)
LEMMA GoodChainIds ==
  ASSUME NEW chain, NEW rows, NEW row, GoodChain(chain, rows, row)
  PROVE  Cardinality(Ids(chain)) = Len(chain)
  <1>. DEFINE n == Len(chain)
              id == [i \in 1 .. n |-> chain[i].grantId]
  <1>1. n \in Nat /\ DOMAIN chain = 1 .. n
    BY DEF GoodChain
  <1>2. IsFiniteSet(1 .. n) /\ Cardinality(1 .. n) = n
    <2>1. ASSUME NEW m \in Nat PROVE IsFiniteSet(1 .. m) /\ Cardinality(1 .. m) = m
      <3>1. Cardinality(1 .. m) = IF 1 > m THEN 0 ELSE m - 1 + 1
        BY FS_Interval
      <3>. QED
        BY <3>1, FS_Interval
    <2>. QED
      BY <1>1, <2>1
  <1>3. id \in Bijection(1 .. n, Ids(chain))
    BY <1>1 DEF Bijection, Injection, Surjection, IsInjective, Ids, GoodChain
  <1>. QED
    BY <1>2, <1>3, FS_Bijection DEF ExistsBijection

(***************************************************************************)
(* Whatever is issued, delegated and revoked, the chain of every stored    *)
(* grant leads through distinct grants of its own project to a root:       *)
(* access to a grant's project (delegation.go) is access to all it was     *)
(* derived from.                                                           *)
(***************************************************************************)
THEOREM ProjectsAreKept == Spec => []ChainsKeepProject
  <1>1. ASSUME IInv PROVE ChainsKeepProject
    <2>1. ASSUME NEW g \in Stored
          PROVE  /\ Chain(g)[1].parentGrantId = NoParent
                 /\ Chain(g)[Len(Chain(g))].grantId = g
                 /\ Cardinality(Ids(Chain(g))) = Len(Chain(g))
                 /\ \A i \in DOMAIN Chain(g) :
                      Chain(g)[i].projectId = grants[g].projectId
      <3>1. GoodChain(Chain(g), Rows, grants[g]) /\ grants[g].grantId = g
        BY <1>1, ParentsStored DEF IInv
      <3>. QED
        BY <3>1, GoodChainIds DEF GoodChain
    <2>. QED
      BY <2>1 DEF ChainsKeepProject
  <1>. QED
    BY <1>1, DelegationInvariant, PTL

(***************************************************************************)
(* VerifyChain compares neighbours only; on a chain that verifies and      *)
(* whose delegated grants name their capabilities this adds up to the      *)
(* whole chain.                                                            *)
(***************************************************************************)
THEOREM VerifiedAttenuates == Spec => []CapabilitiesAttenuate
  <1>1. ASSUME IInv PROVE CapabilitiesAttenuate
    <2>1. ASSUME NEW g \in Stored, Valid(g),
                 \A i \in 2 .. Len(Chain(g)) : Chain(g)[i].capabilities # {}
          PROVE  \A i, j \in 2 .. Len(Chain(g)) :
                   i <= j => Chain(g)[j].capabilities \subseteq Chain(g)[i].capabilities
      <3>1. Narrows(Chain(g))
        BY <1>1 DEF IInv, GoodChain
      <3>. QED
        BY <2>1, <3>1 DEF Narrows, Valid, VerifyChain
    <2>. QED
      BY <2>1 DEF CapabilitiesAttenuate
  <1>. QED
    BY <1>1, DelegationInvariant, PTL

(***************************************************************************)
(* VerifyChain of a chain is VerifyChain of each of its beginnings.        *)
(***************************************************************************)
LEMMA AncestorsVerify ==
  ASSUME NEW chain, NEW rows, NEW parent, GoodChain(chain, rows, parent), NEW row,
         \A r \in rows : r.maxDepth \in Int,
         NEW now, NEW k, VerifyChain(Append(chain, row), now, k)
  PROVE  VerifyChain(chain, now, k)
  <1>. DEFINE long == Append(chain, row)
              n == Len(chain)
  <1>1. /\ n \in Nat \ {0} /\ Len(long) = n + 1 /\ DOMAIN chain = 1 .. n
        /\ DOMAIN long = 1 .. n + 1
        /\ \A i \in 1 .. n : long[i] = chain[i] /\ chain[i] \in rows
    BY DEF GoodChain
  <1>. HIDE DEF long
  <1>2. /\ chain[1].parentGrantId = NoParent /\ chain # <<>>
        /\ chain[1].maxDepth \in Int /\ long[1] = chain[1]
    BY <1>1 DEF GoodChain
  <1>3. chain[1].maxDepth > 0 => n - 1 <= chain[1].maxDepth
    BY <1>1, <1>2 DEF VerifyChain, long
  <1>4. \A i \in 1 .. n : checkExpiry(chain[i], now)
    <2>1. \A i \in 1 .. n + 1 : checkExpiry(long[i], now)
      BY <1>1 DEF VerifyChain, long
    <2>. QED
      BY <1>1, <2>1
  <1>5. \A i \in 2 .. n : /\ chain[i].parentGrantId = chain[i - 1].grantId
                          /\ checkNonWidening(chain[i - 1], chain[i])
                          /\ chain[i].signedBy = k
    <2>1. \A i \in 2 .. n + 1 : /\ long[i].parentGrantId = long[i - 1].grantId
                                /\ checkNonWidening(long[i - 1], long[i])
                                /\ long[i].signedBy = k
      BY <1>1 DEF VerifyChain, long
    <2>2. \A i \in 2 .. n : i \in 2 .. n + 1 /\ i \in 1 .. n /\ i - 1 \in 1 .. n
      BY <1>1
    <2>. QED
      BY <1>1, <2>1, <2>2
  <1>. QED
    BY <1>1, <1>2, <1>3, <1>4, <1>5 DEF VerifyChain

(***************************************************************************)
(* A signature of a stored chain is of a key the notary had by then, so a  *)
(* chain that verifies under the key after a step verified before it.      *)
(***************************************************************************)
LEMMA SignedByNow ==
  ASSUME IInv, NEW g \in Stored
  PROVE  /\ Len(Chain(g)) \in Nat \ {0} /\ DOMAIN Chain(g) = 1 .. Len(Chain(g))
         /\ \A i \in DOMAIN Chain(g) : Chain(g)[i].signedBy \in 0 .. key
  <1>1. GoodChain(Chain(g), Rows, grants[g])
    BY DEF IInv
  <1>2. \A h \in Stored : grants[h].signedBy \in 0 .. key
    <2>1. ASSUME NEW h \in Stored PROVE grants[h].signedBy \in 0 .. key
      <3>1. PICK parent \in Stored \union {NoParent}, p \in Projects, f \in Form, k \in 0 .. key :
              grants[h] = Grant(h, parent, p, f, k)
        BY DEF IInv, TypeOK, IsGrant
      <3>2. grants[h].signedBy = k
        BY <3>1 DEF Grant
      <3>. QED
        BY <3>2
    <2>. QED
      BY <2>1
  <1>. QED
    BY <1>1, <1>2 DEF GoodChain, Rows

(***************************************************************************)
(* No step makes a refused chain verify, under a refused grant nothing     *)
(* verifies, and a chain without a revoked grant stops verifying only at   *)
(* a restart that has no seed (app/grpc.go: a new notary key).             *)
(***************************************************************************)
THEOREM VerdictsLast == Spec => VerdictsKept
  <1>1. ASSUME IInv, [Next]_vars PROVE [\A g \in Stored : VerdictKept(g)]_vars
    <2>1. SUFFICES ASSUME Next, NEW g \in Stored PROVE VerdictKept(g)
      BY <1>1
    <2>2. Chain(g)' = Chain(g)
      BY <1>1, StepKeeps
    <2>3. \/ key' = key
          \/ ~SeedConfigured /\ key' = key + 1
      BY <2>1 DEF Next, Handler, IssueRootGrant, Delegate, PutGrant, Revoke, Restart
    <2>4. Valid(g)' => Valid(g)
      <3>1. CASE key' = key
        BY <2>2, <3>1 DEF Valid
      <3>2. CASE key' = key + 1
        <4>1. SUFFICES ASSUME Valid(g)' PROVE Valid(g)
          OBVIOUS
        <4>2. /\ Len(Chain(g)) \in Nat \ {0} /\ DOMAIN Chain(g) = 1 .. Len(Chain(g))
              /\ \A i \in DOMAIN Chain(g) : Chain(g)[i].signedBy \in 0 .. key
          BY <1>1, SignedByNow
        <4>3. VerifyChain(Chain(g), 0, key + 1)
          BY <2>2, <3>2, <4>1 DEF Valid
        <4>4. key \in Nat
          BY <1>1, DelegationAssumption DEF IInv, TypeOK
        <4>5. ASSUME NEW i \in 2 .. Len(Chain(g)) PROVE FALSE
          <5>1. i \in DOMAIN Chain(g)
            BY <4>2
          <5>. QED
            BY <4>2, <4>3, <4>4, <4>5, <5>1 DEF VerifyChain
        <4>. QED
          BY <4>3, <4>5 DEF VerifyChain, Valid
      <3>. QED
        BY <2>3, <3>1, <3>2
    <2>5. ASSUME Valid(g), grants[g].parentGrantId # NoParent
          PROVE  Valid(grants[g].parentGrantId)
      <3>. DEFINE parent == grants[g].parentGrantId
      <3>1. parent \in Stored /\ \A h \in Stored : ParentsIn(Stored, grants, h)
        BY <1>1, <2>5, ParentsStored DEF IInv, ParentsIn
      <3>2. Chain(g) = Append(Chain(parent), grants[g])
        BY <1>1, <2>5, <3>1, ChainUnfolds DEF IInv
      <3>3. \A row \in Rows : row.maxDepth \in Int
        <4>1. \A h \in Stored : \E f \in Form : grants[h].maxDepth = f.maxDepth
          BY <1>1, GrantFields DEF IInv, TypeOK
        <4>2. \A f \in Form : f.maxDepth \in Int
          BY DelegationAssumption DEF Form
        <4>. QED
          BY <4>1, <4>2 DEF Rows
      <3>4. GoodChain(Chain(parent), Rows, grants[parent])
        BY <1>1, <3>1 DEF IInv
      <3>5. VerifyChain(Append(Chain(parent), grants[g]), 0, key)
        BY <2>5, <3>2 DEF Valid
      <3>6. VerifyChain(Chain(parent), 0, key)
        BY <3>3, <3>4, <3>5, AncestorsVerify
      <3>. QED
        BY <3>6 DEF Valid
    <2>6. ASSUME Valid(g), ~Valid(g)' PROVE ~SeedConfigured /\ key' # key
      <3>1. key' # key
        BY <2>2, <2>6 DEF Valid
      <3>. QED
        BY <2>3, <3>1
    <2>. QED
      BY <2>4, <2>5, <2>6 DEF VerdictKept
  <1>. QED
    BY <1>1, DelegationInvariant, PTL DEF Spec, VerdictsKept
=============================================================================
