--------------------------- MODULE OrderedSets_proofs ---------------------------
(***************************************************************************)
(* Theorems about OrderedSets, for any superset graph.  When only sets at  *)
(* its ends get data (NoMiddleData) and the client is Exclusive: lists     *)
(* hold the members once and in one order (OrderedInv), every loop visits  *)
(* them, clear() empties the set, and the refinement of MemberSets carries *)
(* over from SubsetSets.  For any client: lists miss no member (CoverInv), *)
(* the marks lead down only (MarkInv), every round of clear() takes        *)
(* something away, and only a head of a list that nothing below holds      *)
(* makes it throw.                                                         *)
(***************************************************************************)
EXTENDS OrderedSets, SubsetSets_proofs, SequenceTheorems, WellFoundedInduction

Places(q, x) == {i \in DOMAIN q : q[i] = x}

LEMMA Least ==
    ASSUME NEW T \in SUBSET Nat, T # {}
    PROVE  \E n \in T : \A m \in T : n <= m
<1>. DEFINE R == {p \in Nat \X Nat : p[1] < p[2]}
<1>2. IsWellFoundedOn(R, Nat)
  BY NatLessThanWellFounded DEF OpToRel
<1>3. \E n \in T : \A m \in T : <<m, n>> \notin R
  <2>. HIDE DEF R
  <2>. QED BY <1>2, WFMin
<1>4. ASSUME NEW n \in T, NEW m \in T, <<m, n>> \notin R PROVE n <= m
  BY <1>4
<1>. QED
  <2>. HIDE DEF R
  <2>. QED BY <1>3, <1>4

\* RemoveFirst closes the gap at the first place of x.
LEMMA RemovedFirst ==
    ASSUME NEW S, NEW q \in Seq(S), NEW x
    PROVE  LET r == Seqs!RemoveFirst(q, x)
           IN  /\ r \in Seq(S)
               /\ Places(q, x) = {} => r = q
               /\ Places(q, x) # {} =>
                    \E p \in Places(q, x) :
                       /\ \A i \in Places(q, x) : p <= i
                       /\ Len(r) = Len(q) - 1
                       /\ \A i \in 1..Len(r) : r[i] = IF i < p THEN q[i] ELSE q[i + 1]
<1>. DEFINE r == Seqs!RemoveFirst(q, x)
            I == {i \in 1..Len(q) : q[i] = x}
<1>1. I = Places(q, x) /\ I \subseteq Nat
  BY DEF Places
<1>2. CASE I = {}
  BY <1>1, <1>2 DEF Seqs!RemoveFirst
<1>3. CASE I # {}
  <2>. DEFINE p == CHOOSE i \in I : \A j \in I : i <= j
              before == SubSeq(q, 1, p - 1)
              after == SubSeq(q, p + 1, Len(q))
  <2>1. p \in I /\ \A i \in I : p <= i
    BY <1>1, <1>3, Least
  <2>2. r = Seqs!RemoveAt(q, p)
    BY <1>3 DEF Seqs!RemoveFirst, Seqs!SelectInSeq, Seqs!Min
  <2>. HIDE DEF p
  <2>3. r = before \o after
    BY <2>2 DEF Seqs!RemoveAt
  <2>4. p \in 1..Len(q)
    BY <2>1
  <2>5. /\ before \in Seq(S) /\ Len(before) = p - 1
        /\ \A i \in 1..(p - 1) : before[i] = q[i]
    BY <2>4
  <2>6. /\ after \in Seq(S) /\ Len(after) = Len(q) - p
        /\ \A i \in 1..(Len(q) - p) : after[i] = q[p + i]
    BY <2>4
  <2>. HIDE DEF r, before, after
  <2>7. r \in Seq(S) /\ Len(r) = Len(q) - 1
    <3>1. r \in Seq(S) /\ Len(r) = Len(before) + Len(after)
      BY <2>3, <2>5, <2>6, ConcatProperties
    <3> QED
      BY <2>4, <2>5, <2>6, <3>1
  <2>8. \A i \in 1..Len(r) : r[i] = IF i < p THEN q[i] ELSE q[i + 1]
    <3> SUFFICES ASSUME NEW i \in 1..Len(r) PROVE r[i] = IF i < p THEN q[i] ELSE q[i + 1]
      OBVIOUS
    <3>1. r[i] = IF i <= Len(before) THEN before[i] ELSE after[i - Len(before)]
      BY <2>3, <2>4, <2>5, <2>6, <2>7, ConcatProperties
    <3>2. i \in Int /\ i <= Len(q) - 1 /\ 1 <= i
      BY <2>7
    <3>3. CASE i < p
      BY <2>4, <2>5, <3>1, <3>2, <3>3
    <3>4. CASE i >= p
      <4>1. r[i] = after[i - (p - 1)] /\ i - (p - 1) \in 1..(Len(q) - p)
        BY <2>4, <2>5, <3>1, <3>2, <3>4
      <4>2. after[i - (p - 1)] = q[p + (i - (p - 1))] /\ p + (i - (p - 1)) = i + 1
        BY <2>4, <2>6, <3>2, <4>1
      <4> QED
        BY <2>4, <3>2, <3>4, <4>1, <4>2
    <3> QED
      BY <2>4, <3>2, <3>3, <3>4
  <2> QED
    BY <1>1, <1>3, <2>1, <2>7, <2>8 DEF r
<1> QED
  BY <1>2, <1>3

\* y comes before z.
Before(q, y, z) == \E i, j \in DOMAIN q : i < j /\ q[i] = y /\ q[j] = z

LEMMA PlacesFinite ==
    ASSUME NEW S, NEW q \in Seq(S), NEW x
    PROVE  /\ Occurrences(q, x) = Cardinality(Places(q, x)) /\ Occurrences(q, x) \in Nat
           /\ IsFiniteSet(Places(q, x)) /\ Places(q, x) \subseteq 1..Len(q)
           /\ Occurrences(q, x) = 0 <=> Places(q, x) = {}
<1>1. Places(q, x) \in SUBSET (1..Len(q)) /\ Occurrences(q, x) = Cardinality(Places(q, x))
  BY DEF Places, Occurrences
<1>2. IsFiniteSet(1..Len(q))
  BY FS_Interval
<1>3. IsFiniteSet(Places(q, x))
  BY <1>1, <1>2, FS_Subset
<1>. QED
  BY <1>1, <1>3, FS_CardinalityType, FS_EmptySet

\* RemoveFirst takes one occurrence of x, if there is one, and keeps the order.
LEMMA RemovedCounts ==
    ASSUME NEW S, NEW q \in Seq(S), NEW x
    PROVE  LET r == Seqs!RemoveFirst(q, x)
           IN  /\ r \in Seq(S)
               /\ \A y : Occurrences(r, y) =
                     Occurrences(q, y) - IF y = x /\ Occurrences(q, x) # 0 THEN 1 ELSE 0
               /\ \A y, z : Before(r, y, z) => Before(q, y, z)
<1>. DEFINE r == Seqs!RemoveFirst(q, x)
<1>1. CASE Places(q, x) = {}
  <2>1. r = q
    BY <1>1, RemovedFirst
  <2>2. \A y : Occurrences(q, y) \in Nat
    BY PlacesFinite
  <2>3. Occurrences(q, x) = 0
    BY <1>1, PlacesFinite
  <2>4. \A y : Occurrences(q, y) = Occurrences(q, y) - IF y = x /\ Occurrences(q, x) # 0 THEN 1 ELSE 0
    BY <2>2, <2>3
  <2>. QED
    BY <2>1, <2>4
<1>2. CASE Places(q, x) # {}
  <2>1. PICK p \in Places(q, x) :
          /\ Len(r) = Len(q) - 1
          /\ \A i \in 1..Len(r) : r[i] = IF i < p THEN q[i] ELSE q[i + 1]
    BY <1>2, RemovedFirst
  <2>2. r \in Seq(S)
    BY RemovedFirst
  <2>. HIDE DEF r
  <2>3. p \in 1..Len(q) /\ q[p] = x
    BY <2>1 DEF Places
  <2>. DEFINE f(i) == IF i < p THEN i ELSE i + 1
  <2>4. \A i \in 1..Len(r) : f(i) \in 1..Len(q) /\ f(i) # p /\ r[i] = q[f(i)]
    BY <2>1, <2>2, <2>3
  <2>5. \A i, j \in 1..Len(r) : i < j <=> f(i) < f(j)
    BY <2>3
  <2>6. ASSUME NEW k \in 1..Len(q), k # p PROVE \E i \in 1..Len(r) : f(i) = k
    <3>1. CASE k < p
      <4>1. k \in 1..Len(r) /\ f(k) = k
        BY <2>1, <2>3, <3>1
      <4> QED
        BY <4>1
    <3>2. CASE k > p
      <4>1. k - 1 \in 1..Len(r) /\ f(k - 1) = k
        BY <2>1, <2>3, <3>2
      <4> QED
        BY <4>1
    <3> QED
      BY <2>3, <2>6, <3>1, <3>2
  <2>. HIDE DEF f
  <2>7. ASSUME NEW y
        PROVE  Occurrences(r, y) =
                 Occurrences(q, y) - IF y = x /\ Occurrences(q, x) # 0 THEN 1 ELSE 0
    <3>. DEFINE A == Places(r, y)
                B == Places(q, y) \ {p}
                g == [i \in A |-> f(i)]
    <3>1. A \subseteq 1..Len(r) /\ DOMAIN q = 1..Len(q) /\ DOMAIN r = 1..Len(r)
      BY <2>2 DEF Places
    <3>2. g \in [A -> B]
      BY <2>4, <3>1 DEF Places
    <3>3. \A i, j \in A : g[i] = g[j] => i = j
      <4>1. \A i, j \in 1..Len(r) : f(i) = f(j) => ~(i < j) /\ ~(j < i)
        BY <2>4, <2>5
      <4> QED
        BY <3>1, <4>1
    <3>4. \A k \in B : \E i \in A : g[i] = k
      BY <2>4, <2>6, <3>1 DEF Places
    <3>. HIDE DEF g
    <3>5. g \in Injection(A, B) /\ g \in Surjection(A, B)
      BY <3>2, <3>3, <3>4 DEF Injection, IsInjective, Surjection
    <3>6. ExistsBijection(A, B)
      BY <3>5 DEF Bijection, ExistsBijection
    <3>7. Cardinality(B) = Cardinality(A)
      BY <2>2, <3>6, PlacesFinite, FS_Bijection
    <3>8. p \in Places(q, y) <=> y = x
      BY <2>3 DEF Places
    <3>9. /\ Occurrences(r, y) = Cardinality(A) /\ IsFiniteSet(Places(q, y))
          /\ Occurrences(q, y) = Cardinality(Places(q, y)) /\ Occurrences(q, y) \in Nat
          /\ Occurrences(q, x) # 0
      BY <1>2, <2>2, PlacesFinite
    <3>10. CASE y = x
      BY <3>7, <3>8, <3>9, <3>10, FS_RemoveElement
    <3>11. CASE y # x
      <4>1. B = Places(q, y)
        BY <3>8, <3>11
      <4> HIDE DEF A, B
      <4> QED
        BY <3>7, <3>9, <3>11, <4>1
    <3> QED
      BY <3>10, <3>11
  <2>8. ASSUME NEW y, NEW z, Before(r, y, z) PROVE Before(q, y, z)
    <3>1. PICK i \in 1..Len(r), j \in 1..Len(r) : i < j /\ r[i] = y /\ r[j] = z
      BY <2>2, <2>8 DEF Before
    <3>2. f(i) \in DOMAIN q /\ f(j) \in DOMAIN q /\ f(i) < f(j) /\ q[f(i)] = y /\ q[f(j)] = z
      BY <2>4, <2>5, <3>1
    <3> QED
      BY <3>2 DEF Before
  <2>. QED
    BY <2>2, <2>7, <2>8 DEF r
<1>. QED
  BY <1>1, <1>2

\* An element appended comes last.
LEMMA AppendedCounts ==
    ASSUME NEW S, NEW q \in Seq(S), NEW x \in S
    PROVE  LET r == q \o <<x>>
           IN  /\ r \in Seq(S)
               /\ \A y : Occurrences(r, y) = Occurrences(q, y) + IF y = x THEN 1 ELSE 0
               /\ \A y, z : Before(r, y, z) => Before(q, y, z) \/ (z = x /\ Places(q, y) # {})
<1>. DEFINE r == q \o <<x>>
<1>1. /\ r \in Seq(S) /\ Len(r) = Len(q) + 1 /\ r[Len(q) + 1] = x
      /\ \A i \in 1..Len(q) : r[i] = q[i]
  OBVIOUS
<1>. HIDE DEF r
<1>2. ASSUME NEW y PROVE Occurrences(r, y) = Occurrences(q, y) + IF y = x THEN 1 ELSE 0
  <2>1. /\ IsFiniteSet(Places(q, y)) /\ Len(q) + 1 \notin Places(q, y)
        /\ Occurrences(q, y) = Cardinality(Places(q, y)) /\ Occurrences(q, y) \in Nat
        /\ Occurrences(r, y) = Cardinality(Places(r, y))
    BY <1>1, PlacesFinite
  <2>2. CASE y = x
    <3>1. Places(r, y) = Places(q, y) \cup {Len(q) + 1}
      BY <1>1, <2>2 DEF Places
    <3> QED
      BY <2>1, <2>2, <3>1, FS_AddElement
  <2>3. CASE y # x
    <3>1. Places(r, y) = Places(q, y)
      BY <1>1, <2>3 DEF Places
    <3> QED
      BY <2>1, <2>3, <3>1
  <2> QED
    BY <2>2, <2>3
<1>3. ASSUME NEW y, NEW z, Before(r, y, z)
      PROVE  Before(q, y, z) \/ (z = x /\ Places(q, y) # {})
  <2>1. PICK i \in 1..Len(r), j \in 1..Len(r) : i < j /\ r[i] = y /\ r[j] = z
    BY <1>1, <1>3 DEF Before
  <2>2. i \in DOMAIN q /\ q[i] = y
    BY <1>1, <2>1
  <2>3. CASE j = Len(q) + 1
    BY <1>1, <2>1, <2>2, <2>3 DEF Places
  <2>4. CASE j # Len(q) + 1
    <3>1. j \in DOMAIN q /\ q[j] = z
      BY <1>1, <2>1, <2>4
    <3> QED
      BY <2>1, <2>2, <3>1 DEF Before
  <2> QED
    BY <2>3, <2>4
<1>. QED
  BY <1>1, <1>2, <1>3 DEF r

-----------------------------------------------------------------------------
(* The lists *)

\* Of the sets that give x up, at most one lies below u, so the list of u is unlinked
\* at most once.
LEMMA UnlinkedOnce ==
    ASSUME IntTypeOK, OneHolder, NEW s \in Sets, NEW x \in Elems, NEW u \in Ordered
    PROVE  Unlinked(u, s, x) =
             IF \E t \in Movers(s, x) : u \in Closure[t]
             THEN Seqs!RemoveFirst(order[u], x) ELSE order[u]
<1>. DEFINE B == {t \in Movers(s, x) : u \in Closure[t]}
            b == Cardinality(B)
            L == [n \in 0..b |-> IF n = 0 THEN order[u] ELSE Seqs!RemoveFirst(order[u], x)]
            Left(f) == f = [n \in 0..b |-> IF n = 0 THEN order[u] ELSE Seqs!RemoveFirst(f[n - 1], x)]
            left == CHOOSE f : Left(f)
<1>1. \A t, w \in B : t = w
  <2>1. Movers(s, x) \subseteq Sets /\ \A t \in Movers(s, x) : x \in data[t]
    BY HoldersTyped
  <2> QED
    BY <2>1 DEF OneHolder
<1>2. b = IF B = {} THEN 0 ELSE 1
  <2>1. CASE B = {}
    BY <2>1, FS_EmptySet
  <2>2. CASE B # {}
    <3>1. PICK t : B = {t}
      BY <1>1, <2>2
    <3> QED
      BY <2>2, <3>1, FS_Singleton
  <2> QED
    BY <2>1, <2>2
<1>3. Unlinked(u, s, x) = left[b]
  BY DEF Unlinked
<1>. HIDE DEF B, b
<1>4. Left(L)
  BY <1>2
<1>5. Left(left)
  <2>. HIDE DEF L, Left
  <2>. QED
    BY <1>4
<1>. HIDE DEF left
<1>6. left[b] = IF B = {} THEN order[u] ELSE Seqs!RemoveFirst(order[u], x)
  BY <1>2, <1>5
<1>. QED
  BY <1>3, <1>6 DEF B

\* An element that no add was refused of is listed once if it is a member, and not at all
\* otherwise; a member is always listed.
ListInv ==
    \A u \in Ordered, x \in Elems :
        /\ x \in Members(u) => Occurrences(order[u], x) >= 1
        /\ x \notin refused => Occurrences(order[u], x) = IF x \in Members(u) THEN 1 ELSE 0

\* No two such elements are listed one way above and the other way below.
OrderInv ==
    \A u \in Ordered, t \in Ordered : u \in Closure[t] =>
        \A y, z \in Elems \ refused :
            y # z => ~(Before(order[u], y, z) /\ Before(order[t], z, y))

ListsTyped == order \in [Ordered -> Seq(Elems)] /\ refused \subseteq Elems

\* The inductive invariant.
OrderedInv == PromiseInv /\ ListsTyped /\ ListInv /\ OrderInv

\* At most one set at or below u holds x.
LEMMA HoldersCount ==
    ASSUME OneHolder, NEW u \in Sets, NEW x \in Elems
    PROVE  Cardinality({t \in Sets : u \in Closure[t] /\ x \in data[t]})
             = IF x \in Members(u) THEN 1 ELSE 0
<1>. DEFINE T == {t \in Sets : u \in Closure[t] /\ x \in data[t]}
<1>1. x \in Members(u) <=> T # {}
  BY DEF Members
<1>2. \A t, w \in T : t = w
  BY DEF OneHolder
<1>3. CASE T = {}
  BY <1>1, <1>3, FS_EmptySet
<1>4. CASE T # {}
  <2>1. PICK t : T = {t}
    BY <1>2, <1>4
  <2>2. Cardinality(T) = 1
    <3>. HIDE DEF T
    <3>. QED  BY <2>1, FS_Singleton
  <2>. QED  BY <1>1, <1>4, <2>2
<1>. QED  BY <1>3, <1>4

LEMMA InvListExact == OrderedInv => ListExact
<1>. SUFFICES ASSUME OrderedInv, NEW u \in Ordered, NEW x \in Elems
              PROVE  /\ Occurrences(order[u], x) >=
                          Cardinality({t \in Sets : u \in Closure[t] /\ x \in data[t]})
                     /\ x \notin refused =>
                          Occurrences(order[u], x) = IF x \in Members(u) THEN 1 ELSE 0
  BY DEF ListExact, ListsCover
<1>1. Cardinality({t \in Sets : u \in Closure[t] /\ x \in data[t]})
        = IF x \in Members(u) THEN 1 ELSE 0
  BY HoldersCount, OrderedAssumption DEF OrderedInv, PromiseInv
<1>2. Occurrences(order[u], x) \in Nat
  BY PlacesFinite DEF OrderedInv, ListsTyped
<1>. QED  BY <1>1, <1>2 DEF OrderedInv, ListInv

LEMMA InvOrdersAgree == OrderedInv => OrdersAgree
<1>. SUFFICES ASSUME OrderedInv, NEW u \in Ordered, NEW t \in Ordered, u \in Closure[t],
                     NEW i \in DOMAIN order[u], NEW j \in DOMAIN order[u],
                     NEW k \in DOMAIN order[t], NEW l \in DOMAIN order[t],
                     {order[u][i], order[u][j]} \cap refused = {},
                     order[u][i] = order[t][k], order[u][j] = order[t][l], i < j
              PROVE  k < l
  BY DEF OrdersAgree
<1>. DEFINE y == order[u][i]
            z == order[u][j]
<1>1. order[u] \in Seq(Elems) /\ order[t] \in Seq(Elems)
  BY DEF OrderedInv, ListsTyped
<1>2. y \in Elems \ refused /\ z \in Elems \ refused /\ k \in Int /\ l \in Int
  BY <1>1
<1>3. y # z
  <2>. SUFFICES ASSUME y = z PROVE FALSE
    OBVIOUS
  <2>1. {i, j} \subseteq Places(order[u], y)
    BY DEF Places
  <2>2. Cardinality({i, j}) = 2
    <3>0. i # j
      BY <1>1
    <3>1. IsFiniteSet({i}) /\ Cardinality({i}) = 1 /\ j \notin {i}
      BY <3>0, FS_Singleton
    <3>2. Cardinality({i} \cup {j}) = 1 + 1
      BY <3>1, FS_AddElement
    <3>3. {i} \cup {j} = {i, j}
      OBVIOUS
    <3>. QED  BY <3>2, <3>3
  <2>3. /\ IsFiniteSet(Places(order[u], y)) /\ Occurrences(order[u], y) \in Nat
        /\ Occurrences(order[u], y) = Cardinality(Places(order[u], y))
    BY <1>1, PlacesFinite
  <2>4. Cardinality({i, j}) <= Cardinality(Places(order[u], y))
    BY <2>1, <2>3, FS_Subset
  <2>5. Occurrences(order[u], y) = IF y \in Members(u) THEN 1 ELSE 0
    BY <1>2 DEF OrderedInv, ListInv
  <2>. HIDE DEF y
  <2>. QED  BY <2>2, <2>3, <2>4, <2>5
<1>4. Before(order[u], y, z)
  BY DEF Before
<1>5. ~Before(order[t], z, y)
  BY <1>2, <1>3, <1>4 DEF OrderedInv, OrderInv
<1>6. ~(l < k)
  BY <1>5 DEF Before
<1>7. l # k
  BY <1>3
<1>. QED  BY <1>2, <1>6, <1>7

-----------------------------------------------------------------------------
(* The steps *)

\* What an add does to the list of u.
LEMMA AddLists ==
    ASSUME Exclusive, NoMiddleData, OrderedInv,
           NEW s \in AddSets, NEW x \in Elems, Add(s, x), order' = Allocated(s, x),
           NEW u \in Ordered
    PROVE  /\ u \notin Closure[s] => order'[u] = order[u]
           /\ u \in Closure[s] =>
                \E q \in Seq(Elems) :
                    /\ order'[u] = q \o <<x>>
                    /\ \A y \in Elems \ {x} : Occurrences(q, y) = Occurrences(order[u], y)
                    /\ x \notin refused => Occurrences(q, x) = 0
                    /\ \A y, z : Before(q, y, z) => Before(order[u], y, z)
<1>0. /\ s \in Sets /\ u \in Sets /\ IntTypeOK /\ EndsInv /\ OneHolder /\ order[u] \in Seq(Elems)
      /\ ClientAdds(s, x)
  BY ClientAssumption, OrderedAssumption DEF OrderedInv, PromiseInv, EndsInv, ListsTyped, Add
<1>. DEFINE q == Unlinked(u, s, x)
            below == \E t \in Movers(s, x) : u \in Closure[t]
<1>1. q = IF below THEN Seqs!RemoveFirst(order[u], x) ELSE order[u]
  BY <1>0, UnlinkedOnce
<1>2. order'[u] = q \o IF u \in Closure[s] THEN <<x>> ELSE << >>
  BY DEF Allocated
<1>3. \A y : Occurrences(order[u], y) \in Nat
  BY <1>0, PlacesFinite
<1>4. /\ q \in Seq(Elems)
      /\ \A y \in Elems \ {x} : Occurrences(q, y) = Occurrences(order[u], y)
      /\ \A y, z : Before(q, y, z) => Before(order[u], y, z)
      /\ Occurrences(q, x) =
           IF below /\ Occurrences(order[u], x) # 0 THEN Occurrences(order[u], x) - 1
           ELSE Occurrences(order[u], x)
  <2>1. CASE below
    <3>1. /\ q \in Seq(Elems)
          /\ \A y : Occurrences(q, y) = Occurrences(order[u], y)
                      - IF y = x /\ Occurrences(order[u], x) # 0 THEN 1 ELSE 0
          /\ \A y, z : Before(q, y, z) => Before(order[u], y, z)
      BY <1>0, <1>1, <2>1, RemovedCounts
    <3>. HIDE DEF q, below
    <3>. QED  BY <1>3, <2>1, <3>1
  <2>2. CASE ~below
    <3>1. q = order[u]
      BY <1>1, <2>2
    <3>. HIDE DEF q, below
    <3>. QED  BY <1>0, <2>2, <3>1
  <2>. QED  BY <2>1, <2>2
<1>5. ASSUME u \in Closure[s] PROVE below <=> x \in Members(u)
  <2>1. below => x \in Members(u)
    BY <1>0, HoldersTyped DEF Members
  <2>2. ASSUME x \in Members(u) PROVE below
    <3>1. PICK t \in Sets : u \in Closure[t] /\ x \in data[t]
      BY <2>2 DEF Members
    <3>2. s \notin Closure[t]
      BY <1>0, <3>1, AddMembers
    <3>3. t \in Closure[s]
      BY <1>0, <1>5, <3>1, <3>2 DEF ClientAdds
    <3>4. t # s
      BY <1>0, <3>2, ClosureFacts
    <3>. QED  BY <3>1, <3>3, <3>4 DEF Movers
  <2>. QED  BY <2>1, <2>2
<1>6. ASSUME u \in Closure[s], x \notin refused PROVE Occurrences(q, x) = 0
  <2>1. Occurrences(order[u], x) = IF x \in Members(u) THEN 1 ELSE 0
    BY <1>6 DEF OrderedInv, ListInv
  <2>. HIDE DEF q, below
  <2>. QED  BY <1>3, <1>4, <1>5, <1>6, <2>1
<1>7. ASSUME u \notin Closure[s] PROVE order'[u] = order[u]
  <2>1. ~below
    BY <1>0, <1>7, HoldersTyped, ClosureFacts
  <2>2. order'[u] = order[u] \o << >>
    BY <1>1, <1>2, <1>7, <2>1
  <2>. QED  BY <1>0, <2>2, ConcatEmptySeq
<1>8. ASSUME u \in Closure[s] PROVE order'[u] = q \o <<x>>
  BY <1>2, <1>8
<1>. HIDE DEF q
<1>. QED  BY <1>4, <1>6, <1>7, <1>8

LEMMA AddKeepsLists ==
    ASSUME Exclusive, NoMiddleData, OrderedInv, PromiseInv',
           NEW s \in AddSets, NEW x \in Elems, OrderedAdd(s, x)
    PROVE  OrderedInv'
<1>0. /\ s \in Sets /\ Ordered \subseteq Sets /\ EndsInv /\ OneHolder /\ OneHolder'
      /\ Add(s, x) /\ order' = Allocated(s, x) /\ refused' = refused
      /\ order \in [Ordered -> Seq(Elems)] /\ refused \subseteq Elems
  BY ClientAssumption, OrderedAssumption DEF OrderedInv, PromiseInv, ListsTyped, OrderedAdd
<1>. DEFINE Appends(u, q) ==
                /\ order'[u] = q \o <<x>>
                /\ \A y \in Elems \ {x} : Occurrences(q, y) = Occurrences(order[u], y)
                /\ x \notin refused => Occurrences(q, x) = 0
                /\ \A y, z : Before(q, y, z) => Before(order[u], y, z)
<1>1. \A u \in Ordered :
        /\ u \notin Closure[s] => order'[u] = order[u]
        /\ u \in Closure[s] => \E q \in Seq(Elems) : Appends(u, q)
  BY <1>0, AddLists
<1>2. \A u \in Sets :
        Members(u)' = IF u \in Closure[s] THEN Members(u) \cup {x} ELSE Members(u)
  BY <1>0, AddMembers
<1>3. ListsTyped'
  <2>1. \A u \in Ordered : order'[u] \in Seq(Elems)
    <3>. SUFFICES ASSUME NEW u \in Ordered, u \in Closure[s] PROVE order'[u] \in Seq(Elems)
      BY <1>0, <1>1
    <3>1. PICK q \in Seq(Elems) : Appends(u, q)
      BY <1>1
    <3>. QED  BY <3>1, AppendedCounts
  <2>2. order' = [u \in Ordered |-> order'[u]]
    BY <1>0 DEF Allocated
  <2>. QED  BY <1>0, <2>1, <2>2 DEF ListsTyped
<1>4. ListInv'
  <2>. SUFFICES ASSUME NEW u \in Ordered, NEW y \in Elems
                PROVE  /\ y \in Members(u)' => Occurrences(order'[u], y) >= 1
                       /\ y \notin refused =>
                            Occurrences(order'[u], y) = IF y \in Members(u)' THEN 1 ELSE 0
    BY <1>0 DEF ListInv
  <2>1. /\ y \in Members(u) => Occurrences(order[u], y) >= 1
        /\ y \notin refused => Occurrences(order[u], y) = IF y \in Members(u) THEN 1 ELSE 0
    BY DEF OrderedInv, ListInv
  <2>2. CASE u \notin Closure[s]
    BY <1>0, <1>1, <1>2, <2>1, <2>2
  <2>3. CASE u \in Closure[s]
    <3>1. PICK q \in Seq(Elems) : Appends(u, q)
      BY <1>1, <2>3
    <3>2. /\ Occurrences(order'[u], y) = Occurrences(q, y) + IF y = x THEN 1 ELSE 0
          /\ Occurrences(q, y) \in Nat
      BY <3>1, AppendedCounts, PlacesFinite
    <3>3. y \in Members(u)' <=> y \in Members(u) \/ y = x
      BY <1>0, <1>2, <2>3
    <3>4. CASE y = x
      BY <3>1, <3>2, <3>3, <3>4
    <3>5. CASE y # x
      BY <2>1, <3>1, <3>2, <3>3, <3>5
    <3>. QED  BY <3>4, <3>5
  <2>. QED  BY <2>2, <2>3
<1>5. OrderInv'
  <2>. SUFFICES ASSUME NEW u \in Ordered, NEW t \in Ordered, u \in Closure[t],
                       NEW y \in Elems \ refused, NEW z \in Elems \ refused, y # z,
                       Before(order'[u], y, z), Before(order'[t], z, y)
                PROVE  FALSE
    BY <1>0 DEF OrderInv
  <2>1. ASSUME NEW v \in Ordered, NEW e \in Elems, NEW f \in Elems, Before(order'[v], e, f)
        PROVE  /\ e # x \/ v \notin Closure[s] \/ x \in refused
               /\ Before(order[v], e, f) \/ (f = x /\ v \in Closure[s])
    <3>1. CASE v \notin Closure[s]
      BY <1>1, <2>1, <3>1
    <3>2. CASE v \in Closure[s]
      <4>1. PICK q \in Seq(Elems) : Appends(v, q)
        BY <1>1, <3>2
      <4>2. Before(q, e, f) \/ (f = x /\ Places(q, e) # {})
        BY <2>1, <4>1, AppendedCounts
      <4>3. Before(q, e, f) => Places(q, e) # {}
        BY DEF Before, Places
      <4>4. x \notin refused => Places(q, x) = {}
        BY <4>1, PlacesFinite
      <4>. QED  BY <3>2, <4>1, <4>2, <4>3, <4>4
    <3>. QED  BY <3>1, <3>2
  <2>2. Before(order[u], y, z) /\ Before(order[t], z, y) => FALSE
    BY DEF OrderedInv, OrderInv
  <2>3. CASE z = x /\ u \in Closure[s]
    <3>1. t \notin Closure[s]
      BY <2>1, <2>3
    <3>2. Places(order[t], x) # {} /\ order[t] \in Seq(Elems)
      BY <1>0, <1>1, <2>3, <3>1 DEF Before, Places
    <3>3. x \in Members(t)
      BY <2>3, <3>2, PlacesFinite DEF OrderedInv, ListInv
    <3>4. x \in Members(t)'
      BY <1>0, <1>2, <3>1, <3>3
    <3>5. PICK w \in Sets : t \in Closure[w] /\ x \in data'[w]
      BY <3>4 DEF Members
    <3>6. u \in Closure[w]
      BY <1>0, <3>5, ClosureFacts
    <3>7. x \in data'[s]
      <4>1. DataWithout(Movers(s, x), x) \in [Sets -> SUBSET Elems]
        BY <1>0, WithoutTyped, HoldersTyped DEF EndsInv
      <4>. QED  BY <1>0, <4>1 DEF Add
    <3>8. w = s
      BY <1>0, <2>3, <3>5, <3>6, <3>7 DEF OneHolder
    <3>. QED  BY <3>1, <3>5, <3>8
  <2>4. CASE y = x /\ t \in Closure[s]
    <3>1. u \in Closure[s]
      BY <1>0, <2>4, ClosureFacts
    <3>. QED  BY <2>1, <2>4, <3>1
  <2>. QED  BY <2>1, <2>2, <2>3, <2>4
<1>. QED  BY <1>3, <1>4, <1>5 DEF OrderedInv

\* An add that addData refuses appends, and changes nothing else.
LEMMA AddThrowsKeepsLists ==
    ASSUME NoMiddleData, OrderedInv, PromiseInv',
           NEW s \in AddSets, NEW x \in Elems, OrderedAddThrows(s, x)
    PROVE  OrderedInv'
<1>0. /\ s \in Sets /\ Ordered \subseteq Sets /\ IntTypeOK /\ EndsInv /\ OneHolder
      /\ AddThrows(s, x) /\ order' = Allocated(s, x) /\ refused' = refused \cup {x}
      /\ order \in [Ordered -> Seq(Elems)] /\ refused \subseteq Elems
  BY ClientAssumption, OrderedAssumption
     DEF OrderedInv, PromiseInv, EndsInv, ListsTyped, OrderedAddThrows
<1>1. UNCHANGED vars
  BY <1>0, AddThrowsChangesNothing
<1>2. ASSUME NEW u \in Ordered
      PROVE  LET r == order'[u]
             IN  /\ r \in Seq(Elems)
                 /\ \A y \in Elems : Occurrences(r, y) >= Occurrences(order[u], y)
                 /\ \A y \in Elems \ {x} : Occurrences(r, y) = Occurrences(order[u], y)
                 /\ \A y, z : z # x /\ Before(r, y, z) => Before(order[u], y, z)
  <2>1. Unlinked(u, s, x) = order[u]
    <3>1. Movers(s, x) = {}
      <4>. SUFFICES ASSUME NEW t \in Movers(s, x) PROVE FALSE
        OBVIOUS
      <4>1. t \in Sets /\ x \in data[t]
        BY <1>0, HoldersTyped
      <4>2. data' = DataWithout(Movers(s, x), x)
        BY <1>0 DEF AddThrows
      <4>. QED  BY <1>1, <4>1, <4>2 DEF vars, DataWithout
    <3>. QED  BY <1>0, <3>1, UnlinkedOnce
  <2>2. order'[u] = order[u] \o IF u \in Closure[s] THEN <<x>> ELSE << >>
    BY <1>0, <2>1 DEF Allocated
  <2>3. order[u] \in Seq(Elems) /\ \A y : Occurrences(order[u], y) \in Nat
    BY <1>0, PlacesFinite
  <2>4. CASE u \in Closure[s]
    <3>1. order'[u] = order[u] \o <<x>>
      BY <2>2, <2>4
    <3>. QED  BY <2>3, <3>1, AppendedCounts
  <2>5. CASE u \notin Closure[s]
    <3>1. order'[u] = order[u]
      BY <2>2, <2>3, <2>5, ConcatEmptySeq
    <3>. QED  BY <2>3, <3>1
  <2>. QED  BY <2>4, <2>5
<1>3. \A u \in Sets : Members(u)' = Members(u)
  BY <1>1 DEF vars, Members
<1>4. ListsTyped'
  <2>1. order' = [u \in Ordered |-> order'[u]]
    BY <1>0 DEF Allocated
  <2>. QED  BY <1>0, <1>2, <2>1 DEF ListsTyped
<1>5. ListInv'
  <2>. SUFFICES ASSUME NEW u \in Ordered, NEW y \in Elems
                PROVE  /\ y \in Members(u) => Occurrences(order'[u], y) >= 1
                       /\ y \notin refused' =>
                            Occurrences(order'[u], y) = IF y \in Members(u) THEN 1 ELSE 0
    BY <1>0, <1>3 DEF ListInv
  <2>1. /\ y \in Members(u) => Occurrences(order[u], y) >= 1
        /\ y \notin refused => Occurrences(order[u], y) = IF y \in Members(u) THEN 1 ELSE 0
    BY DEF OrderedInv, ListInv
  <2>2. Occurrences(order[u], y) \in Nat /\ Occurrences(order'[u], y) \in Nat
    BY <1>0, <1>2, PlacesFinite
  <2>. QED  BY <1>0, <1>2, <2>1, <2>2
<1>6. OrderInv'
  BY <1>0, <1>2 DEF OrderedInv, OrderInv
<1>. QED  BY <1>4, <1>5, <1>6 DEF OrderedInv

LEMMA RemoveKeepsLists ==
    ASSUME OrderedInv, PromiseInv', NEW s \in Sets, NEW x \in Elems,
           InnerRemove(s, x), order' = DeAllocated(s, x), refused' = refused
    PROVE  OrderedInv'
<1>0. /\ Ordered \subseteq Sets /\ IntTypeOK /\ EndsInv /\ OneHolder
      /\ order \in [Ordered -> Seq(Elems)] /\ refused \subseteq Elems
  BY OrderedAssumption DEF OrderedInv, PromiseInv, EndsInv, ListsTyped
<1>1. PICK w \in Sets :
        /\ size' = [u \in Sets |-> size[u] - IF u \in Closure[w] THEN 1 ELSE 0]
        /\ x \in data[w]
        /\ \A u \in Sets :
             Members(u)' = IF u \in Closure[w] THEN Members(u) \ {x} ELSE Members(u)
  BY <1>0, RemoveMembers
<1>2. \A u \in Ordered :
        order'[u] = IF u \in Closure[w] THEN Seqs!RemoveFirst(order[u], x) ELSE order[u]
  <2>. SUFFICES ASSUME NEW u \in Ordered PROVE size'[u] < size[u] <=> u \in Closure[w]
    BY DEF DeAllocated
  <2>1. size[u] \in Int /\ size'[u] = size[u] - IF u \in Closure[w] THEN 1 ELSE 0
    BY <1>0, <1>1 DEF IntTypeOK
  <2>. QED  BY <2>1
<1>3. ASSUME NEW u \in Ordered
      PROVE  /\ order'[u] \in Seq(Elems)
             /\ \A y : Occurrences(order'[u], y) = Occurrences(order[u], y) -
                  IF u \in Closure[w] /\ y = x /\ Occurrences(order[u], x) # 0 THEN 1 ELSE 0
             /\ \A y, z : Before(order'[u], y, z) => Before(order[u], y, z)
  <2>1. order[u] \in Seq(Elems) /\ \A y : Occurrences(order[u], y) \in Nat
    BY <1>0, PlacesFinite
  <2>2. CASE u \in Closure[w]
    <3>1. order'[u] = Seqs!RemoveFirst(order[u], x)
      BY <1>2, <2>2
    <3>. QED  BY <2>1, <2>2, <3>1, RemovedCounts
  <2>3. CASE u \notin Closure[w]
    <3>1. order'[u] = order[u]
      BY <1>2, <2>3
    <3>. QED  BY <2>1, <2>3, <3>1
  <2>. QED  BY <2>2, <2>3
<1>4. ListsTyped'
  <2>1. order' = [u \in Ordered |-> order'[u]]
    BY DEF DeAllocated
  <2>. QED  BY <1>0, <1>3, <2>1 DEF ListsTyped
<1>5. ListInv'
  <2>. SUFFICES ASSUME NEW u \in Ordered, NEW y \in Elems
                PROVE  /\ y \in Members(u)' => Occurrences(order'[u], y) >= 1
                       /\ y \notin refused =>
                            Occurrences(order'[u], y) = IF y \in Members(u)' THEN 1 ELSE 0
    BY DEF ListInv
  <2>1. /\ y \in Members(u) => Occurrences(order[u], y) >= 1
        /\ y \notin refused => Occurrences(order[u], y) = IF y \in Members(u) THEN 1 ELSE 0
    BY DEF OrderedInv, ListInv
  <2>2. Occurrences(order[u], y) \in Nat
    BY <1>0, PlacesFinite
  <2>3. Members(u)' = IF u \in Closure[w] THEN Members(u) \ {x} ELSE Members(u)
    BY <1>0, <1>1
  <2>4. CASE u \in Closure[w] /\ y = x
    <3>1. y \notin Members(u)' /\ y \in Members(u)
      BY <1>1, <2>3, <2>4 DEF Members
    <3>2. Occurrences(order[u], y) # 0
      BY <2>1, <2>2, <3>1
    <3>3. Occurrences(order'[u], y) = Occurrences(order[u], y) - 1
      <4>1. Occurrences(order'[u], y) = Occurrences(order[u], y) -
              IF u \in Closure[w] /\ y = x /\ Occurrences(order[u], x) # 0 THEN 1 ELSE 0
        BY <1>3
      <4>. QED  BY <2>4, <3>2, <4>1
    <3>. QED  BY <2>1, <3>1, <3>3
  <2>5. CASE ~(u \in Closure[w] /\ y = x)
    <3>1. Occurrences(order'[u], y) = Occurrences(order[u], y) - 0
      BY <1>3, <2>5
    <3>2. y \in Members(u)' <=> y \in Members(u)
      BY <2>3, <2>5
    <3>. QED  BY <2>1, <2>2, <3>1, <3>2
  <2>. QED  BY <2>4, <2>5
<1>6. OrderInv'
  BY <1>3 DEF OrderedInv, OrderInv
<1>. QED  BY <1>4, <1>5, <1>6 DEF OrderedInv

\* What the loop of clear() removes is an element.
LEMMA FrontsTyped ==
    ASSUME IntTypeOK, ListsTyped, clearing # NoSet
    PROVE  clearing \in Sets /\ Fronts(clearing) \ {NullElem} \subseteq Elems
<1>1. ASSUME NEW t \in Sets PROVE Answers(t) \ {NullElem} \subseteq Elems
  <2>1. CASE t \in Ordered
    <3>1. order[t] \in Seq(Elems)
      BY <2>1 DEF ListsTyped
    <3>. QED  BY <2>1, <3>1 DEF Answers
  <2>2. CASE t \notin Ordered
    BY <2>2 DEF Answers, IntTypeOK
  <2>. QED  BY <2>1, <2>2
<1>2. ListFrontSets(clearing) \subseteq Sets
  BY DEF ListFrontSets, Reach
<1>. QED  BY <1>1, <1>2 DEF Fronts, IntTypeOK

\* The sets that front() answers from lie at or below the set.
LEMMA FrontsBelow ==
    ASSUME NEW s \in Sets, \A u \in Sets : marks[u] \subseteq {t \in Sets : u \in Closure[t]}
    PROVE  ListFrontSets(s) \subseteq {t \in Sets : s \in Closure[t]}
<1>. DEFINE next == [u \in Sets |-> IF u \notin Ordered /\ data[u] = {} THEN marks[u] ELSE {}]
            C == {t \in Sets : s \in Closure[t]}
<1>1. {s} \subseteq C /\ C \in SUBSET Sets
  BY ClosureFacts
<1>2. \A u \in C : next[u] \subseteq C
  BY ClosureFacts
<1>3. Reach({s}, next) \subseteq C
  <2>. HIDE DEF C, next
  <2>. QED  BY <1>1, <1>2, ReachLeast
<1>. QED  BY <1>3 DEF ListFrontSets

\* An OrderedSet answers for itself.
LEMMA OrderedFronts ==
    ASSUME NEW s \in Ordered
    PROVE  ListFrontSets(s) \subseteq {s}
<1>. DEFINE next == [u \in Sets |-> IF u \notin Ordered /\ data[u] = {} THEN marks[u] ELSE {}]
<1>1. {s} \in SUBSET Sets /\ next[s] = {}
  BY OrderedAssumption
<1>2. Reach({s}, next) \subseteq {s}
  <2>. HIDE DEF next
  <2>. QED  BY <1>1, ReachLeast
<1>. QED  BY <1>2 DEF ListFrontSets

LEMMA InnerRemoveKeeps ==
    ASSUME NoMiddleData, PromiseInv, NEW s \in Sets, NEW x \in Elems,
           InnerRemove(s, x), UNCHANGED clearing
    PROVE  PromiseInv'
<1>1. SizeInv'
  BY RemoveKeepsSizeInv DEF PromiseInv
<1>2. EndsInv'
  BY <1>1, RemoveKeepsEnds DEF PromiseInv, SizeInv
<1>. QED  BY <1>1, <1>2, RemoveKeepsPromise DEF PromiseInv

LEMMA EndKeepsPromise ==
    ASSUME PromiseInv, UNCHANGED <<data, marks, size, refs>>, clearing' \in {clearing, NoSet}
    PROVE  PromiseInv'
BY DEF PromiseInv, SizeInv, IntTypeOK, SizeCoversHoldings, Holdings, EndsInv, MarksExact,
       StoredOncePerLine, OneHolder, SizeHolds

LEMMA SameLists ==
    ASSUME OrderedInv, PromiseInv', UNCHANGED <<data, order, refused>>
    PROVE  OrderedInv'
BY DEF OrderedInv, ListsTyped, ListInv, OrderInv, Members

LEMMA InitOrdered == OrderedInit => OrderedInv
<1>. SUFFICES ASSUME OrderedInit PROVE OrderedInv
  OBVIOUS
<1>1. PromiseInv
  BY InitPromise DEF OrderedInit
<1>2. ListsTyped /\ \A u \in Ordered : order[u] = << >>
  BY DEF OrderedInit, ListsTyped
<1>3. \A u \in Ordered, x \in Elems : Occurrences(order[u], x) = 0
  <2>1. \A x : {i \in DOMAIN << >> : << >>[i] = x} = {}
    OBVIOUS
  <2>. QED  BY <1>2, <2>1, FS_EmptySet DEF Occurrences
<1>4. \A u \in Sets : Members(u) = {}
  BY DEF OrderedInit, Init, Members
<1>5. ListInv
  BY <1>3, <1>4, OrderedAssumption DEF ListInv
<1>6. OrderInv
  BY <1>2 DEF OrderInv, Before
<1>. QED  BY <1>1, <1>2, <1>5, <1>6 DEF OrderedInv

LEMMA NextOrdered ==
    ASSUME NoMiddleData, Exclusive
    PROVE  OrderedInv /\ [OrderedNext]_orderedVars => OrderedInv'
<1>. SUFFICES ASSUME OrderedInv, [OrderedNext]_orderedVars PROVE OrderedInv'
  OBVIOUS
<1>0. PromiseInv /\ IntTypeOK /\ ListsTyped
  BY DEF OrderedInv, PromiseInv, EndsInv
<1>1. ASSUME NEW s \in AddSets, NEW x \in Elems, OrderedAdd(s, x) PROVE OrderedInv'
  <2>1. PromiseInv'
    BY <1>0, <1>1, NextPromise DEF OrderedAdd, Next
  <2>. QED  BY <1>1, <2>1, AddKeepsLists
<1>2. ASSUME NEW s \in AddSets, NEW x \in Elems, OrderedAddThrows(s, x) PROVE OrderedInv'
  <2>1. PromiseInv'
    BY <1>0, <1>2, NextPromise DEF OrderedAddThrows, Next
  <2>. QED  BY <1>2, <2>1, AddThrowsKeepsLists
<1>3. ASSUME NEW s \in Sets, NEW x \in Elems, OrderedRemove(s, x) PROVE OrderedInv'
  <2>1. PromiseInv'
    BY <1>0, <1>3, InnerRemoveKeeps DEF OrderedRemove, Remove
  <2>. QED  BY <1>3, <2>1, RemoveKeepsLists DEF OrderedRemove, Remove
<1>4. ASSUME NEW s \in Sets, OrderedClearBegin(s) PROVE OrderedInv'
  <2>1. PromiseInv'
    BY <1>0, <1>4, NextPromise DEF OrderedClearBegin, Next
  <2>. QED  BY <1>4, <2>1, SameLists DEF OrderedClearBegin, ClearBegin
<1>5. CASE OrderedClearStep
  <2>1. PICK x \in Fronts(clearing) \ {NullElem} :
          InnerRemove(clearing, x) /\ order' = DeAllocated(clearing, x)
    BY <1>5 DEF OrderedClearStep
  <2>2. clearing \in Sets /\ x \in Elems /\ UNCHANGED <<clearing, refused>>
    BY <1>0, <1>5, FrontsTyped DEF OrderedClearStep
  <2>3. PromiseInv'
    BY <1>0, <2>1, <2>2, InnerRemoveKeeps
  <2>. QED  BY <2>1, <2>2, <2>3, RemoveKeepsLists
<1>6. CASE UNCHANGED <<data, marks, size, refs, order, refused>> /\ clearing' \in {clearing, NoSet}
  <2>1. PromiseInv'
    BY <1>0, <1>6, EndKeepsPromise
  <2>. QED  BY <1>6, <2>1, SameLists
<1>. QED
  BY <1>1, <1>2, <1>3, <1>4, <1>5, <1>6
     DEF OrderedNext, OrderedClearEnd, OrderedClearThrows, orderedVars

LEMMA OrderedInvariant ==
    ASSUME NoMiddleData, Exclusive
    PROVE  OrderedFairSpec => []OrderedInv
<1>1. OrderedInv /\ [OrderedNext]_orderedVars => OrderedInv'
  BY NextOrdered
<1>. QED  BY InitOrdered, <1>1, PTL DEF OrderedFairSpec

-----------------------------------------------------------------------------
(* The theorems *)

\* The list of an OrderedSet has every member, and as long as no add of it was refused
\* every member once and nothing else.
THEOREM ListsExact ==
    ASSUME NoMiddleData, Exclusive
    PROVE  OrderedFairSpec => []ListExact
BY OrderedInvariant, InvListExact, PTL

\* OrderedSets above each other list their common members in one order.
THEOREM ListsAgree ==
    ASSUME NoMiddleData, Exclusive
    PROVE  OrderedFairSpec => []OrdersAgree
BY OrderedInvariant, InvOrdersAgree, PTL

\* The lists and the other way to clear() change nothing of what SubsetSets promises:
\* marks, contains() and size() are exact and nothing is stored twice in a line.
THEOREM OrderedPromise ==
    ASSUME NoMiddleData, Exclusive
    PROVE  OrderedFairSpec => [](MarksExact /\ ContainsExact /\ StoredOncePerLine /\ SizeExact)
<1>1. OrderedInv => MarksExact /\ ContainsExact /\ StoredOncePerLine /\ SizeExact
  BY PromiseExact, EndsContains DEF OrderedInv, PromiseInv, EndsInv
<1>. QED  BY OrderedInvariant, <1>1, PTL

\* Seen through contains() and size(), OrderedSets and Sets together do what MemberSets says.
THEOREM OrderedImplements ==
    ASSUME NoMiddleData, Exclusive
    PROVE  OrderedFairSpec => ImplementsMemberSets
<1>1. ASSUME OrderedInv, OrderedInv', [OrderedNext]_orderedVars
      PROVE  [Promise!Next]_(Promise!mvars)
  <2>0. /\ PromiseInv /\ PromiseInv' /\ IntTypeOK /\ ListsTyped
    BY <1>1 DEF OrderedInv, PromiseInv, EndsInv
  <2>1. CASE [Next]_vars
    BY <2>0, <2>1, NextImplements
  <2>2. CASE OrderedClearStep
    <3>1. PICK x \in Fronts(clearing) \ {NullElem} : InnerRemove(clearing, x)
      BY <2>2 DEF OrderedClearStep
    <3>2. clearing \in Sets /\ x \in Elems
      BY <2>0, <2>2, FrontsTyped DEF OrderedClearStep
    <3>. QED  BY <2>0, <3>1, <3>2, RemoveImplements DEF Promise!Next
  <2>3. CASE UNCHANGED <<data, marks, size>>
    BY <2>3 DEF Promise!mvars, Contains, Visible
  <2>. QED
    BY <1>1, <2>1, <2>2, <2>3
       DEF OrderedNext, OrderedAdd, OrderedAddThrows, OrderedRemove, OrderedClearBegin,
           OrderedClearEnd, OrderedClearThrows, Next, vars, orderedVars
<1>2. OrderedInit => Promise!Init
  BY InitImplements DEF OrderedInit
<1>. QED
  BY OrderedInvariant, <1>1, <1>2, PTL DEF OrderedFairSpec, ImplementsMemberSets, Promise!Spec

\* A removal finds every member.
LEMMA FoundIfMember ==
    ASSUME EndsInv, NEW s \in Sets, NEW x \in Members(s)
    PROVE  Found(s, x) # {}
<1>1. PICK t \in Sets : s \in Closure[t] /\ x \in data[t]
  BY DEF Members
<1>. DEFINE next == Descent(x)
            R == Reach({s}, next)
<1>2. s \in R
  BY ReachStart
<1>3. CASE x \in data[s]
  BY <1>2, <1>3 DEF Found
<1>4. CASE x \notin data[s]
  <2>1. t \in marks[s]
    BY <1>1, <1>4 DEF EndsInv, MarksExact
  <2>2. t \in next[s]
    BY <1>4, <2>1 DEF Descent
  <2>. HIDE DEF next
  <2>3. t \in R
    BY <1>2, <2>2, ReachStep
  <2>. QED  BY <1>1, <2>3 DEF Found, next
<1>. QED  BY <1>3, <1>4

\* clear() throws, out of a Set or an OrderedSet, only at an element of which an add was
\* refused: at the head of a list that names it although no set below has it.
THEOREM ThrowsAfterRefusal ==
    ASSUME NoMiddleData, Exclusive
    PROVE  OrderedFairSpec => ClearThrowsOnlyAfterRefusal
<1>1. ASSUME OrderedInv, OrderedClearThrows PROVE refused # {}
  <2>0. EndsInv /\ MarksExact /\ IntTypeOK /\ ListsTyped /\ clearing \in Sets
    BY <1>1 DEF OrderedInv, PromiseInv, EndsInv, IntTypeOK, OrderedClearThrows
  <2>1. PICK x \in Fronts(clearing) \ {NullElem} : Found(clearing, x) = {}
    BY <1>1 DEF OrderedClearThrows
  <2>2. PICK t \in ListFrontSets(clearing) : x \in Answers(t)
    BY <2>1 DEF Fronts
  <2>3. t \in Sets /\ clearing \in Closure[t]
    BY <2>0, <2>2, FrontsBelow DEF MarksExact
  <2>4. Members(t) \subseteq Members(clearing)
    BY <2>0, <2>3, ClosureFacts DEF Members
  <2>5. x \notin Members(t)
    BY <2>0, <2>1, <2>4, FoundIfMember
  <2>6. data[t] \subseteq Members(t)
    BY <2>0, <2>3, ClosureFacts DEF Members, IntTypeOK
  <2>7. t \in Ordered /\ order[t] # << >> /\ x = order[t][1]
    BY <2>1, <2>2, <2>5, <2>6 DEF Answers
  <2>8. order[t] \in Seq(Elems)
    BY <2>0, <2>7 DEF ListsTyped
  <2>9. Places(order[t], x) # {} /\ x \in Elems
    BY <2>7, <2>8 DEF Places
  <2>. QED  BY <1>1, <2>5, <2>7, <2>8, <2>9, PlacesFinite DEF OrderedInv, ListInv
<1>2. OrderedInv /\ [OrderedNext]_orderedVars
        => [OrderedClearThrows => refused # {}]_orderedVars
  BY <1>1
<1>. QED
  BY OrderedInvariant, <1>2, PTL DEF OrderedFairSpec, ClearThrowsOnlyAfterRefusal

\* When front() answers null nothing is stored at or below the set: below it, only sets
\* with data are marked, and a list misses none of it.
LEMMA NullFrontEmpty ==
    ASSUME OrderedInv, NEW s \in Sets, NullElem \in Fronts(s)
    PROVE  Members(s) = {}
<1>. DEFINE next == [u \in Sets |-> IF u \notin Ordered /\ data[u] = {} THEN marks[u] ELSE {}]
            C == {u \in Sets : u = s \/ data[u] # {}}
<1>0. MarksExact /\ IntTypeOK /\ ListsTyped
  BY DEF OrderedInv, PromiseInv, EndsInv
<1>1. PICK t \in ListFrontSets(s) : NullElem \in Answers(t)
  BY DEF Fronts
<1>2. Reach({s}, next) \subseteq C
  <2>1. {s} \subseteq C /\ C \in SUBSET Sets
    OBVIOUS
  <2>2. \A u \in C : next[u] \subseteq C
    BY <1>0 DEF MarksExact
  <2>. HIDE DEF C, next
  <2>. QED  BY <2>1, <2>2, ReachLeast
<1>3. t \in Sets /\ (t = s \/ data[t] # {})
  BY <1>1, <1>2 DEF ListFrontSets
<1>4. data[t] \subseteq Members(t)
  BY <1>0, <1>3, ClosureFacts DEF Members, IntTypeOK
<1>5. Members(t) = {}
  <2>1. CASE t \in Ordered
    <3>1. order[t] \in Seq(Elems)
      BY <1>0, <2>1 DEF ListsTyped
    <3>2. order[t] = << >>
      BY <1>1, <2>1, <3>1, OrderedAssumption DEF Answers
    <3>3. \A x \in Elems : Occurrences(order[t], x) = 0
      <4>1. \A x : Places(<< >>, x) = {} /\ << >> \in Seq(Elems)
        BY DEF Places
      <4>. QED  BY <3>2, <4>1, PlacesFinite
    <3>. QED  BY <2>1, <3>3 DEF OrderedInv, ListInv, Members
  <2>2. CASE t \notin Ordered
    <3>1. data[t] = {}
      BY <1>0, <1>1, <1>3, <2>2, OrderedAssumption DEF Answers, IntTypeOK
    <3>2. marks[t] = {}
      BY <1>1, <2>2, <3>1 DEF ListFrontSets
    <3>. QED  BY <1>0, <1>3, <3>1, <3>2 DEF Members, MarksExact
  <2>. QED  BY <2>1, <2>2
<1>. QED  BY <1>3, <1>4, <1>5

\* clear() that ends has emptied the set and those below it, whether it reads the list
\* or the data.
THEOREM OrderedClearEmpties ==
    ASSUME NoMiddleData, Exclusive
    PROVE  OrderedFairSpec => OrderedClearLeavesEmpty
<1>1. ASSUME OrderedInv, OrderedClearEnd PROVE Members(clearing) = {} /\ size[clearing] = 0
  <2>1. clearing \in Sets /\ NullElem \in Fronts(clearing)
    BY <1>1 DEF OrderedClearEnd, OrderedInv, PromiseInv, EndsInv, IntTypeOK
  <2>2. Members(clearing) = {}
    BY <1>1, <2>1, NullFrontEmpty
  <2>. QED  BY <1>1, <2>1, <2>2, PromiseExact, FS_EmptySet DEF OrderedInv, SizeExact
<1>2. OrderedInv /\ [OrderedNext]_orderedVars
        => [OrderedClearEnd => Members(clearing) = {} /\ size[clearing] = 0]_orderedVars
  BY <1>1
<1>. QED
  BY OrderedInvariant, <1>2, PTL DEF OrderedFairSpec, OrderedClearLeavesEmpty

\* Every round of the loop of clear() takes one off the size of the set: it ends after
\* as many rounds as the set has members.
THEOREM ClearShrinks ==
    ASSUME NoMiddleData, Exclusive
    PROVE  OrderedFairSpec =>
             [][OrderedClearStep => size[clearing] > 0 /\ size'[clearing] = size[clearing] - 1]_orderedVars
<1>1. ASSUME OrderedInv, OrderedClearStep
      PROVE  size[clearing] > 0 /\ size'[clearing] = size[clearing] - 1
  <2>1. PICK x \in Fronts(clearing) \ {NullElem} : InnerRemove(clearing, x)
    BY <1>1 DEF OrderedClearStep
  <2>2. clearing \in Sets /\ x \in Elems /\ EndsInv /\ OneHolder /\ IntTypeOK
    BY <1>1, FrontsTyped DEF OrderedClearStep, OrderedInv, PromiseInv, EndsInv
  <2>3. PICK w \in Sets :
          /\ clearing \in Closure[w] /\ x \in data[w]
          /\ size' = [u \in Sets |-> size[u] - IF u \in Closure[w] THEN 1 ELSE 0]
    BY <2>1, <2>2, RemoveMembers
  <2>4. x \in Members(clearing)
    BY <2>2, <2>3 DEF Members
  <2>5. size[clearing] = Cardinality(Holdings(clearing)) /\ Holdings(clearing) # {}
    <3>1. <<w, x>> \in Holdings(clearing)
      BY <2>2, <2>3 DEF Holdings
    <3>. QED  BY <1>1, <2>2, <3>1 DEF OrderedInv, PromiseInv, SizeHolds
  <2>6. size[clearing] \in Nat /\ size[clearing] # 0
    BY <2>2, <2>5, HoldingsFinite, FS_EmptySet
  <2>7. size'[clearing] = size[clearing] - 1
    BY <2>2, <2>3
  <2>. QED  BY <2>6, <2>7
<1>2. OrderedInv /\ [OrderedNext]_orderedVars
        => [OrderedClearStep => size[clearing] > 0 /\ size'[clearing] = size[clearing] - 1]_orderedVars
  BY <1>1
<1>. QED
  BY OrderedInvariant, <1>2, PTL DEF OrderedFairSpec

-----------------------------------------------------------------------------
(* Iteration *)

Entries(w) == {w[i] : i \in DOMAIN w}

\* w has the elements of S, each once.
Lists(w, S) == w \in Seq(S) /\ Entries(w) = S /\ Len(w) = Cardinality(S)

LEMMA UpToCount ==
    ASSUME NEW n \in Nat
    PROVE  IsFiniteSet(1..n) /\ Cardinality(1..n) = n
<1>1. IsFiniteSet(1..n) /\ Cardinality(1..n) = IF 1 > n THEN 0 ELSE n - 1 + 1
  BY FS_Interval
<1>. QED  BY <1>1

\* As many entries as there are different ones.
LEMMA DistinctLists ==
    ASSUME NEW S, NEW w \in Seq(S), Entries(w) = S,
           \A i, j \in DOMAIN w : w[i] = w[j] => i = j
    PROVE  Lists(w, S) /\ IsFiniteSet(S)
<1>1. DOMAIN w = 1..Len(w) /\ w \in [1..Len(w) -> S] /\ Len(w) \in Nat
  OBVIOUS
<1>2. IsFiniteSet(1..Len(w)) /\ Cardinality(1..Len(w)) = Len(w)
  BY <1>1, UpToCount
<1>3. w \in Bijection(1..Len(w), S)
  BY <1>1 DEF Bijection, Injection, IsInjective, Surjection, Entries
<1>4. IsFiniteSet(S) /\ Cardinality(S) = Cardinality(1..Len(w))
  BY <1>2, <1>3, FS_Bijection DEF ExistsBijection
<1>. QED  BY <1>2, <1>4 DEF Lists

\* The n-th visit exists, and it is the first of its element.
LEMMA FirstVisitsList ==
    ASSUME NEW S, NEW w \in Seq(S)
    PROVE  Lists(FirstVisits(w), Entries(w))
<1>. DEFINE fresh == {i \in DOMAIN w : \A j \in 1..(i - 1) : w[j] # w[i]}
            F == Cardinality(fresh)
            upTo(i) == {j \in fresh : j <= i}
            rank == [i \in fresh |-> Cardinality(upTo(i))]
            nth(n) == CHOOSE i \in fresh : Cardinality(upTo(i)) = n
            v == FirstVisits(w)
<1>1. DOMAIN w = 1..Len(w) /\ Len(w) \in Nat /\ fresh \in SUBSET (1..Len(w))
  OBVIOUS
<1>2. IsFiniteSet(fresh) /\ F \in Nat
  <2>1. IsFiniteSet(1..Len(w))
    BY <1>1, UpToCount
  <2>. HIDE DEF fresh
  <2>2. IsFiniteSet(fresh)
    BY <1>1, <2>1, FS_Subset
  <2>. QED  BY <2>2, FS_CardinalityType
<1>3. \A i, j \in fresh : w[i] = w[j] => i = j
  <2>. SUFFICES ASSUME NEW i \in fresh, NEW j \in fresh, i < j, w[i] = w[j] PROVE FALSE
    BY <1>1
  <2>. QED  BY <1>1
<1>4. \A y \in Entries(w) : \E i \in fresh : w[i] = y
  <2>. SUFFICES ASSUME NEW y \in Entries(w) PROVE \E i \in fresh : w[i] = y
    OBVIOUS
  <2>1. PICK i \in Places(w, y) : \A j \in Places(w, y) : i <= j
    <3>1. Places(w, y) \in SUBSET Nat /\ Places(w, y) # {}
      BY <1>1 DEF Places, Entries
    <3>. QED  BY <3>1, Least
  <2>. QED  BY <1>1, <2>1 DEF Places
<1>5. v = [n \in 1..F |-> w[nth(n)]]
  BY DEF FirstVisits
<1>. HIDE DEF fresh, v
<1>6. \A i \in fresh : IsFiniteSet(upTo(i)) /\ Cardinality(upTo(i)) \in 1..F
  <2>. SUFFICES ASSUME NEW i \in fresh
                PROVE  IsFiniteSet(upTo(i)) /\ Cardinality(upTo(i)) \in 1..F
    OBVIOUS
  <2>1. upTo(i) \in SUBSET fresh /\ i \in upTo(i)
    BY <1>1
  <2>. HIDE DEF upTo
  <2>2. IsFiniteSet(upTo(i)) /\ Cardinality(upTo(i)) <= F /\ Cardinality(upTo(i)) \in Nat
    BY <1>2, <2>1, FS_Subset, FS_CardinalityType
  <2>3. Cardinality(upTo(i)) # 0
    BY <2>1, <2>2, FS_EmptySet
  <2>. QED  BY <1>2, <2>2, <2>3
<1>7. ASSUME NEW i \in fresh, NEW j \in fresh, i < j
      PROVE  Cardinality(upTo(i)) # Cardinality(upTo(j))
  <2>0. i \in Int /\ j \in Int /\ \A k \in fresh : k \in Int
    BY <1>1
  <2>1. upTo(i) \in SUBSET upTo(j) /\ j \in upTo(j) /\ j \notin upTo(i)
    <3>1. \A k \in fresh : k <= i => k <= j
      BY <1>7, <2>0
    <3>2. j <= j /\ ~(j <= i)
      BY <1>7, <2>0
    <3>. QED  BY <3>1, <3>2
  <2>. HIDE DEF upTo
  <2>. QED  BY <1>6, <2>1, FS_Subset
<1>8. \A n \in 1..F : \E i \in fresh : Cardinality(upTo(i)) = n
  <2>1. rank \in [fresh -> 1..F]
    BY <1>6
  <2>2. \A i, j \in fresh : rank[i] = rank[j] => i = j
    <3>. SUFFICES ASSUME NEW i \in fresh, NEW j \in fresh, i < j PROVE rank[i] # rank[j]
      BY <1>1
    <3>. QED  BY <1>7
  <2>3. Cardinality(1..F) = F /\ IsFiniteSet(1..F)
    BY <1>2, FS_Interval
  <2>. HIDE DEF rank
  <2>4. rank \in Injection(fresh, 1..F)
    BY <2>1, <2>2 DEF Injection, IsInjective
  <2>5. rank \in Surjection(fresh, 1..F)
    BY <2>3, <2>4, FS_Injection
  <2>6. \A n \in 1..F : \E i \in fresh : rank[i] = n
    BY <2>5 DEF Surjection
  <2>. QED  BY <2>6 DEF rank
<1>9. \A n \in 1..F : nth(n) \in fresh /\ Cardinality(upTo(nth(n))) = n
  BY <1>8
<1>10. \A i \in fresh : \E n \in 1..F : nth(n) = i
  <2>. SUFFICES ASSUME NEW i \in fresh PROVE nth(Cardinality(upTo(i))) = i
    BY <1>6
  <2>. DEFINE n == Cardinality(upTo(i))
              k == nth(n)
  <2>1. k \in fresh /\ Cardinality(upTo(k)) = n
    BY <1>6, <1>9
  <2>. HIDE DEF k, upTo
  <2>2. k \in Int /\ i \in Int /\ ~(k < i) /\ ~(i < k)
    BY <1>1, <1>7, <2>1
  <2>3. k = i
    BY <2>2
  <2>. QED  BY <2>3 DEF k, upTo
<1>. HIDE DEF nth, upTo
<1>11. \A n \in 1..F : w[nth(n)] \in Entries(w)
  BY <1>1, <1>9 DEF Entries
<1>12. v \in Seq(Entries(w)) /\ DOMAIN v = 1..F
  BY <1>2, <1>5, <1>11
<1>13. Entries(v) = Entries(w)
  <2>1. \A n \in 1..F : v[n] = w[nth(n)]
    BY <1>5
  <2>2. \A y \in Entries(w) : \E n \in 1..F : v[n] = y
    BY <1>4, <1>10, <2>1
  <2>3. \A n \in 1..F : v[n] \in Entries(w)
    BY <1>11, <2>1
  <2>4. Entries(v) = {v[n] : n \in 1..F}
    BY <1>12 DEF Entries
  <2>. QED  BY <2>2, <2>3, <2>4
<1>14. \A m, n \in DOMAIN v : v[m] = v[n] => m = n
  BY <1>3, <1>5, <1>9, <1>12
<1>15. Lists(v, Entries(w))
  BY <1>12, <1>13, <1>14, DistinctLists
<1>. QED  BY <1>15 DEF v

\* SetToSeqs lists the set.
LEMMA SetToSeqsList ==
    ASSUME NEW S, IsFiniteSet(S), NEW w \in Seqs!SetToSeqs(S)
    PROVE  Lists(w, S)
<1>. DEFINE n == Cardinality(S)
<1>1. \A T : Seqs!Cardinality(T) = Cardinality(T)
  BY ZenonT(20) DEF Seqs!Cardinality, Cardinality
<1>2. w \in [1..n -> S] /\ \A i, j \in 1..n : i # j => w[i] # w[j]
  BY <1>1 DEF Seqs!SetToSeqs
<1>3. n \in Nat /\ IsFiniteSet(1..n) /\ Cardinality(1..n) = n
  BY FS_CardinalityType, UpToCount
<1>. HIDE DEF n
<1>4. w \in Injection(1..n, S)
  BY <1>2 DEF Injection, IsInjective
<1>5. w \in Surjection(1..n, S)
  BY <1>3, <1>4, FS_Injection DEF n
<1>6. w \in Seq(S) /\ Len(w) = n /\ DOMAIN w = 1..n
  BY <1>2, <1>3
<1>. QED  BY <1>2, <1>5, <1>6 DEF Lists, Entries, Surjection, n

LEMMA EntriesConcat ==
    ASSUME NEW S, NEW v \in Seq(S), NEW w \in Seq(S)
    PROVE  v \o w \in Seq(S) /\ Entries(v \o w) = Entries(v) \cup Entries(w)
<1>1. /\ v \o w \in Seq(S) /\ Len(v \o w) = Len(v) + Len(w)
      /\ \A i \in 1..(Len(v) + Len(w)) : (v \o w)[i] = IF i <= Len(v) THEN v[i] ELSE w[i - Len(v)]
  BY ConcatProperties
<1>2. Len(v) \in Nat /\ Len(w) \in Nat /\ DOMAIN v = 1..Len(v) /\ DOMAIN w = 1..Len(w)
      /\ DOMAIN (v \o w) = 1..(Len(v) + Len(w))
  BY <1>1
<1>. DEFINE z == v \o w
<1>. HIDE DEF z
<1>3. \A i \in DOMAIN v : i \in DOMAIN z /\ z[i] = v[i]
  BY <1>1, <1>2 DEF z
<1>4. \A i \in DOMAIN w : i + Len(v) \in DOMAIN z /\ z[i + Len(v)] = w[i]
  BY <1>1, <1>2 DEF z
<1>5. ASSUME NEW i \in DOMAIN z
      PROVE  \/ i \in DOMAIN v /\ z[i] = v[i]
             \/ i - Len(v) \in DOMAIN w /\ z[i] = w[i - Len(v)]
  <2>1. i \in 1..(Len(v) + Len(w)) /\ z[i] = IF i <= Len(v) THEN v[i] ELSE w[i - Len(v)]
    BY <1>1, <1>2 DEF z
  <2>2. CASE i <= Len(v)
    BY <1>2, <2>1, <2>2
  <2>3. CASE ~(i <= Len(v))
    BY <1>2, <2>1, <2>3
  <2>. QED  BY <2>2, <2>3
<1>6. Entries(z) = Entries(v) \cup Entries(w)
  BY <1>3, <1>4, <1>5 DEF Entries
<1>. QED  BY <1>1, <1>6 DEF z

\* The runs of the loop of Walks over the marked subsets p: one step of it,
Onward(s, p, ws, n, V) ==
    UNION {Visits(Met(p[n], w), n = 1 /\ data[s] = {}, V) : w \in ws[p[n]]}

\* its definition by the runs from the next subset on, and the runs from the first.
RunsFrom(s, p, ws, f) ==
    [n \in 1..(Len(p) + 1) |-> IF n > Len(p) THEN {<< >>} ELSE Onward(s, p, ws, n, f[n + 1])]

Runs(s, p, ws) == (CHOOSE f : f = RunsFrom(s, p, ws, f))[1]

\* The loops over s, from those over the sets that it marks.
LoopOver(s, ws) ==
    IF s \in Ordered THEN {ListWalk(s)}
    ELSE UNION {{FirstVisits(own \o w) : own \in Seqs!SetToSeqs(data[s]), w \in Runs(s, p, ws)}
                : p \in Seqs!SetToSeqs(marks[s])}

LEMMA WalksChosen == Walks = CHOOSE f : f = [s \in Sets |-> LoopOver(s, f)]
  BY DEF Walks, LoopOver, Runs, RunsFrom, Onward

LEMMA RunsExist ==
    ASSUME NEW S, NEW s, NEW p \in Seq(S), NEW ws
    PROVE  \E f : f = RunsFrom(s, p, ws, f)
<1>. DEFINE N == Len(p)
            Body(n, V) == Onward(s, p, ws, n, V)
            RunsUp(k, g) == [n \in (N + 1 - k)..(N + 1) |->
                                IF n > N THEN {<< >>} ELSE Body(n, g[n + 1])]
            bad == {k \in 0..N : ~ \E g : g = RunsUp(k, g)}
<1>1. N \in Nat
  OBVIOUS
<1>. HIDE DEF N, Body
<1>2. 0 \notin bad
  <2>. DEFINE g == [n \in (N + 1)..(N + 1) |-> {<< >>}]
  <2>1. (N + 1 - 0)..(N + 1) = (N + 1)..(N + 1)
    BY <1>1
  <2>2. \A n \in (N + 1)..(N + 1) : n > N
    BY <1>1
  <2>3. RunsUp(0, g) = [n \in (N + 1)..(N + 1) |-> IF n > N THEN {<< >>} ELSE Body(n, g[n + 1])]
    BY <2>1
  <2>. HIDE DEF g
  <2>4. RunsUp(0, g) = [n \in (N + 1)..(N + 1) |-> {<< >>}]
    BY <2>2, <2>3
  <2>5. g = RunsUp(0, g)
    BY <2>4 DEF g
  <2>. QED  BY <2>5
<1>3. ASSUME NEW k \in bad PROVE k - 1 \in bad
  <2>0. k \in 0..N /\ k # 0 /\ k - 1 \in 0..N /\ k \in Int
    <3>1. k \in 0..N /\ k # 0
      BY <1>2
    <3>. HIDE DEF bad
    <3>. QED  BY <1>1, <3>1
  <2>. SUFFICES ASSUME NEW g, g = RunsUp(k - 1, g) PROVE FALSE
    BY <2>0
  <2>. DEFINE m == N + 1 - k
              h == [n \in m..(N + 1) |-> IF n = m THEN Body(m, g[m + 1]) ELSE g[n]]
  <2>1. m \in Int /\ m <= N /\ N + 1 - (k - 1) = m + 1
    BY <1>1, <2>0
  <2>2. g = [n \in (m + 1)..(N + 1) |-> IF n > N THEN {<< >>} ELSE Body(n, g[n + 1])]
    BY <2>1
  <2>3. RunsUp(k, h) = [n \in m..(N + 1) |-> IF n > N THEN {<< >>} ELSE Body(n, h[n + 1])]
    OBVIOUS
  <2>. HIDE DEF m, RunsUp, bad
  <2>4. ASSUME NEW n \in m..(N + 1)
        PROVE  h[n] = IF n > N THEN {<< >>} ELSE Body(n, h[n + 1])
    <3>1. CASE n = m
      <4>1. ~(n > N) /\ h[n + 1] = g[m + 1] /\ h[n] = Body(m, g[m + 1])
        BY <1>1, <2>1, <3>1
      <4>. HIDE DEF h
      <4>. QED  BY <3>1, <4>1
    <3>2. CASE n # m
      <4>1. n \in (m + 1)..(N + 1) /\ h[n] = g[n]
        BY <1>1, <2>1, <3>2
      <4>2. ~(n > N) => h[n + 1] = g[n + 1]
        BY <1>1, <2>1, <4>1
      <4>3. g[n] = IF n > N THEN {<< >>} ELSE Body(n, g[n + 1])
        BY <2>2, <4>1
      <4>. HIDE DEF h
      <4>. QED  BY <4>1, <4>2, <4>3
    <3>. QED  BY <3>1, <3>2
  <2>5. h = [n \in m..(N + 1) |-> h[n]]
    OBVIOUS
  <2>. HIDE DEF h
  <2>6. h = RunsUp(k, h)
    BY <2>3, <2>4, <2>5
  <2>. QED  BY <2>6 DEF bad
<1>4. bad = {}
  <2>. SUFFICES ASSUME bad # {} PROVE FALSE
    OBVIOUS
  <2>1. bad \in SUBSET Nat
    BY <1>1
  <2>. HIDE DEF bad
  <2>2. PICK k \in bad : \A j \in bad : k <= j
    BY <2>1, Least
  <2>. QED  BY <1>3, <2>1, <2>2
<1>5. N \in 0..N
  BY <1>1
<1>6. PICK f : f = RunsUp(N, f)
  BY <1>4, <1>5
<1>7. N + 1 - N = 1
  BY <1>1
<1>8. f = [n \in 1..(N + 1) |-> IF n > N THEN {<< >>} ELSE Body(n, f[n + 1])]
  BY <1>6, <1>7
<1>. QED  BY <1>8 DEF RunsFrom, N, Body

\* A subset over which a loop visits elements is passed.
LEMMA ElementsPassed ==
    ASSUME NEW w \in Seq(Elems), w # << >>, NEW t, NEW begins, NEW V
    PROVE  Visits(Met(t, w), begins, V) = {w \o v : v \in V}
<1>1. w[1] \in Elems /\ w[Len(w)] \in Elems
  OBVIOUS
<1>. QED  BY <1>1, OrderedAssumption DEF Visits, Met

\* If the loops over the subsets in p have the members of the subset, a run has the
\* members of all of them.
LEMMA RunsMembers ==
    ASSUME NEW s \in Sets, NEW p \in Seq(Sets), NEW ws,
           \A n \in DOMAIN p : \A w \in ws[p[n]] :
               w \in Seq(Elems) /\ w # << >> /\ Entries(w) = Members(p[n]),
           NEW v \in Runs(s, p, ws)
    PROVE  v \in Seq(Elems) /\ Entries(v) = UNION {Members(p[n]) : n \in DOMAIN p}
<1>. DEFINE N == Len(p)
            f == CHOOSE g : g = RunsFrom(s, p, ws, g)
            From(m) == UNION {Members(p[n]) : n \in m..N}
            Good(m) == \A r \in f[m] : r \in Seq(Elems) /\ Entries(r) = From(m)
            bad == {k \in 0..N : ~Good(N + 1 - k)}
<1>1. N \in Nat /\ DOMAIN p = 1..N
  OBVIOUS
<1>2. f = RunsFrom(s, p, ws, f)
  BY RunsExist
<1>3. v \in f[1]
  BY DEF Runs
<1>. HIDE DEF f
<1>4. \A m \in 1..(N + 1) : f[m] = IF m > N THEN {<< >>} ELSE Onward(s, p, ws, m, f[m + 1])
  BY <1>2 DEF RunsFrom
<1>. HIDE DEF N
<1>5. Good(N + 1)
  <2>1. f[N + 1] = {<< >>}
    BY <1>1, <1>4
  <2>2. From(N + 1) = {}
    BY <1>1
  <2>3. << >> \in Seq(Elems) /\ Entries(<< >>) = {}
    BY DEF Entries
  <2>. HIDE DEF From
  <2>. QED  BY <2>1, <2>2, <2>3
<1>6. ASSUME NEW m \in 1..N, Good(m + 1) PROVE Good(m)
  <2>. SUFFICES ASSUME NEW r \in f[m] PROVE r \in Seq(Elems) /\ Entries(r) = From(m)
    OBVIOUS
  <2>1. f[m] = Onward(s, p, ws, m, f[m + 1])
    BY <1>1, <1>4
  <2>2. PICK w \in ws[p[m]], t \in f[m + 1] : r = w \o t
    <3>1. PICK w \in ws[p[m]] : r \in Visits(Met(p[m], w), m = 1 /\ data[s] = {}, f[m + 1])
      BY <2>1 DEF Onward
    <3>2. w \in Seq(Elems) /\ w # << >>
      BY <1>1
    <3>3. r \in {w \o t : t \in f[m + 1]}
      BY <3>1, <3>2, ElementsPassed
    <3>. QED  BY <3>3
  <2>3. w \in Seq(Elems) /\ Entries(w) = Members(p[m])
    BY <1>1
  <2>4. t \in Seq(Elems) /\ Entries(t) = From(m + 1)
    BY <1>6
  <2>5. m..N = {m} \cup ((m + 1)..N)
    BY <1>1
  <2>6. From(m) = Members(p[m]) \cup From(m + 1)
    BY <2>5
  <2>. HIDE DEF From
  <2>7. w \o t \in Seq(Elems) /\ Entries(w \o t) = Entries(w) \cup Entries(t)
    BY <2>3, <2>4, EntriesConcat
  <2>. QED  BY <2>2, <2>3, <2>4, <2>6, <2>7
<1>. HIDE DEF Good
<1>7. bad = {}
  <2>. SUFFICES ASSUME bad # {} PROVE FALSE
    OBVIOUS
  <2>1. bad \in SUBSET Nat
    BY <1>1
  <2>. HIDE DEF bad
  <2>2. PICK k \in bad : \A j \in bad : k <= j
    BY <2>1, Least
  <2>. USE DEF bad
  <2>3. k \in 0..N /\ ~Good(N + 1 - k)
    BY <2>2
  <2>4. k # 0
    BY <1>1, <1>5, <2>3
  <2>5. k - 1 \in 0..N /\ ~(k <= k - 1) /\ N + 1 - k \in 1..N /\ (N + 1 - k) + 1 = N + 1 - (k - 1)
    BY <1>1, <2>3, <2>4
  <2>6. Good(N + 1 - (k - 1))
    BY <2>2, <2>5
  <2>. QED  BY <1>6, <2>3, <2>5, <2>6
<1>8. N \in 0..N /\ N + 1 - N = 1
  BY <1>1
<1>9. Good(1)
  BY <1>7, <1>8
<1>. QED  BY <1>1, <1>3, <1>9 DEF Good

\* The loop over s depends on the loops over the sets that it marks.
LEMMA LoopLocal ==
    ASSUME NEW s \in Sets, IsFiniteSet(marks[s]), NEW W, NEW V, \A t \in marks[s] : W[t] = V[t]
    PROVE  LoopOver(s, W) = LoopOver(s, V)
<1>1. ASSUME NEW p \in Seqs!SetToSeqs(marks[s])
      PROVE  Runs(s, p, W) = Runs(s, p, V)
  <2>1. p \in Seq(marks[s])
    BY SetToSeqsList DEF Lists
  <2>2. ASSUME NEW n \in 1..(Len(p) + 1), NEW T, ~(n > Len(p))
        PROVE  Onward(s, p, W, n, T) = Onward(s, p, V, n, T)
    <3>1. p[n] \in marks[s]
      BY <2>1, <2>2
    <3>2. W[p[n]] = V[p[n]]
      BY <3>1
    <3>. QED  BY <3>2 DEF Onward
  <2>3. \A f : RunsFrom(s, p, W, f) = RunsFrom(s, p, V, f)
    BY <2>2 DEF RunsFrom
  <2>. QED  BY <2>3 DEF Runs
<1>. DEFINE each(p, U) ==
                {FirstVisits(own \o w) : own \in Seqs!SetToSeqs(data[s]), w \in Runs(s, p, U)}
            P == Seqs!SetToSeqs(marks[s])
<1>2. \A U : LoopOver(s, U) = IF s \in Ordered THEN {ListWalk(s)} ELSE UNION {each(p, U) : p \in P}
  BY DEF LoopOver
<1>3. \A p \in P : each(p, W) = each(p, V)
  BY <1>1
<1>. HIDE DEF each, P
<1>. QED  BY <1>2, <1>3

\* Loops over distinct members.
LEMMA LoopLists ==
    ASSUME NEW s \in Sets \ Ordered, NEW ws,
           IsFiniteSet(marks[s]), IsFiniteSet(data[s]), marks[s] \subseteq Sets,
           data[s] \subseteq Elems, Members(s) = data[s] \cup UNION {Members(t) : t \in marks[s]},
           \A t \in marks[s] : \A w \in ws[t] :
               w \in Seq(Elems) /\ w # << >> /\ Entries(w) = Members(t),
           NEW w \in LoopOver(s, ws)
    PROVE  Lists(w, Members(s))
<1>0. PICK p \in Seqs!SetToSeqs(marks[s]) :
        w \in {FirstVisits(own \o v) : own \in Seqs!SetToSeqs(data[s]), v \in Runs(s, p, ws)}
  BY DEF LoopOver
<1>1. PICK own \in Seqs!SetToSeqs(data[s]), v \in Runs(s, p, ws) : w = FirstVisits(own \o v)
  BY <1>0
<1>2. Lists(p, marks[s]) /\ Lists(own, data[s])
  BY SetToSeqsList
<1>3. p \in Seq(Sets) /\ own \in Seq(Elems) /\ \A n \in DOMAIN p : p[n] \in marks[s]
  BY <1>2 DEF Lists
<1>4. v \in Seq(Elems) /\ Entries(v) = UNION {Members(p[n]) : n \in DOMAIN p}
  BY <1>3, RunsMembers
<1>5. UNION {Members(p[n]) : n \in DOMAIN p} = UNION {Members(t) : t \in marks[s]}
  BY <1>2 DEF Lists, Entries
<1>6. own \o v \in Seq(Elems) /\ Entries(own \o v) = Members(s)
  BY <1>2, <1>3, <1>4, <1>5, EntriesConcat DEF Lists
<1>. QED  BY <1>1, <1>6, FirstVisitsList

\* As long as no add was refused an OrderedSet is iterated over to the end of its list.
LEMMA ListWalkLists ==
    ASSUME OrderedInv, refused = {}, NEW u \in Ordered
    PROVE  Lists(ListWalk(u), Members(u))
<1>. DEFINE q == order[u]
            M == Members(u)
<1>1. q \in Seq(Elems) /\ M \subseteq Elems
  BY DEF OrderedInv, ListsTyped, Members
<1>2. \A x \in Elems : Occurrences(q, x) = IF x \in M THEN 1 ELSE 0
  BY DEF OrderedInv, ListInv
<1>. HIDE DEF q, M
<1>3. ASSUME NEW i \in DOMAIN q, NEW j \in DOMAIN q, q[i] = q[j] PROVE i = j
  <2>1. q[i] \in Elems /\ {i, j} \subseteq Places(q, q[i])
    BY <1>1, <1>3 DEF Places
  <2>2. /\ IsFiniteSet(Places(q, q[i])) /\ Occurrences(q, q[i]) = Cardinality(Places(q, q[i]))
    BY <1>1, PlacesFinite
  <2>. DEFINE P == Places(q, q[i])
  <2>. HIDE DEF P
  <2>3. Cardinality(P) = 1 \/ Cardinality(P) = 0
    BY <1>2, <2>1, <2>2 DEF P
  <2>4. \E x : P = {x}
    BY <2>1, <2>2, <2>3, FS_Singleton, FS_EmptySet DEF P
  <2>. QED  BY <2>1, <2>4 DEF P
<1>4. Entries(q) = M
  <2>1. \A x \in Elems : x \in Entries(q) <=> Places(q, x) # {}
    BY DEF Entries, Places
  <2>2. \A x \in Elems : x \in Entries(q) <=> x \in M
    <3>. SUFFICES ASSUME NEW x \in Elems PROVE x \in Entries(q) <=> x \in M
      OBVIOUS
    <3>1. Occurrences(q, x) = 0 <=> Places(q, x) = {}
      BY <1>1, PlacesFinite
    <3>. QED  BY <1>2, <2>1, <3>1
  <2>3. Entries(q) \subseteq Elems
    BY <1>1 DEF Entries
  <2>. QED  BY <1>1, <2>2, <2>3
<1>5. ListWalk(u) = q
  <2>. DEFINE last == {i \in DOMAIN q : q[i] = q[Len(q)]}
              end == IF q = << >> THEN 0 ELSE CHOOSE i \in last : \A j \in last : i <= j
  <2>0. ListWalk(u) = SubSeq(q, 1, end)
    BY DEF ListWalk, q
  <2>1. end = Len(q)
    <3>1. CASE q = << >>
      BY <3>1
    <3>2. CASE q # << >>
      <4>1. Len(q) \in DOMAIN q
        BY <1>1, <3>2
      <4>2. last = {Len(q)}
        BY <1>3, <4>1
      <4>. HIDE DEF last
      <4>3. \A i \in last : \A j \in last : i <= j
        BY <1>1, <4>2
      <4>. QED  BY <3>2, <4>2, <4>3
    <3>. QED  BY <3>1, <3>2
  <2>. HIDE DEF end
  <2>. QED  BY <1>1, <2>0, <2>1
<1>6. q \in Seq(M)
  BY <1>1, <1>4 DEF Entries
<1>7. Lists(q, M)
  BY <1>3, <1>4, <1>6, DistinctLists
<1>. QED  BY <1>5, <1>7 DEF M

\* The sets that a set marks mark none, and have the members that it does not store.
LEMMA MarksFlat ==
    ASSUME NoMiddleData, EndsInv, NEW s \in Sets
    PROVE  /\ marks[s] \subseteq Sets
           /\ \A t \in marks[s] : marks[t] = {} /\ Members(t) # {}
           /\ Members(s) = data[s] \cup UNION {Members(t) : t \in marks[s]}
<1>0. MarksExact /\ AtEnds(data) /\ data \in [Sets -> SUBSET Elems]
  BY EndsInvAtEnds DEF EndsInv, IntTypeOK
<1>1. \A t \in marks[s] : t \in Sets /\ data[t] # {} /\ s \in Closure[t] /\ s # t /\ t \in Closure[t]
  BY <1>0, ClosureFacts DEF MarksExact
<1>2. ASSUME NEW t \in marks[s], NEW v \in Sets, t \in Closure[v] PROVE v = t
  BY <1>0, <1>1, <1>2, TopClosure, BottomClosure DEF AtEnds
<1>3. \A t \in marks[s] : marks[t] = {}
  BY <1>0, <1>1, <1>2 DEF MarksExact
<1>4. \A t \in marks[s] : Members(t) = data[t]
  BY <1>0, <1>1, <1>2 DEF Members
<1>5. \A t \in Sets : data[t] # {} /\ s \in Closure[t] => t = s \/ t \in marks[s]
  BY <1>0 DEF MarksExact
<1>6. Members(s) = data[s] \cup UNION {data[t] : t \in marks[s]}
  BY <1>0, <1>1, <1>5, ClosureFacts DEF Members
<1>7. UNION {data[t] : t \in marks[s]} = UNION {Members(t) : t \in marks[s]}
  BY <1>4
<1>. QED  BY <1>1, <1>3, <1>4, <1>6, <1>7

\* Walks has the loops that its definition says.
LEMMA WalksDefined ==
    ASSUME NoMiddleData, EndsInv
    PROVE  Walks = [s \in Sets |-> LoopOver(s, Walks)]
<1>. DEFINE none == [s \in Sets |-> {}]
            W == [s \in Sets |-> LoopOver(s, none)]
            V == [s \in Sets |-> LoopOver(s, W)]
<1>1. \A s \in Sets : IsFiniteSet(marks[s]) /\ marks[s] \subseteq Sets
  <2>. SUFFICES ASSUME NEW s \in Sets PROVE IsFiniteSet(marks[s]) /\ marks[s] \subseteq Sets
    OBVIOUS
  <2>1. marks[s] \in SUBSET Sets
    BY MarksFlat
  <2>. QED  BY <2>1, SetsAssumption, FS_Subset
<1>2. ASSUME NEW s \in Sets, NEW t \in marks[s] PROVE W[t] = V[t]
  <2>1. t \in Sets /\ marks[t] = {}
    BY MarksFlat
  <2>2. \A u \in marks[t] : none[u] = W[u]
    BY <2>1
  <2>. HIDE DEF none
  <2>3. LoopOver(t, none) = LoopOver(t, W)
    <3>. HIDE DEF W
    <3>. QED  BY <1>1, <2>1, <2>2, LoopLocal
  <2>. QED  BY <2>1, <2>3
<1>3. ASSUME NEW s \in Sets PROVE LoopOver(s, W) = LoopOver(s, V)
  <2>. HIDE DEF W, V
  <2>. QED  BY <1>1, <1>2, LoopLocal
<1>4. V = [s \in Sets |-> LoopOver(s, V)]
  <2>. HIDE DEF W
  <2>. QED  BY <1>3
<1>5. \E f : f = [s \in Sets |-> LoopOver(s, f)]
  <2>. HIDE DEF V
  <2>. QED  BY <1>4
<1>. QED  BY <1>5, WalksChosen

LEMMA InvIterationExact ==
    ASSUME NoMiddleData, OrderedInv
    PROVE  IterationExact
<1>. SUFFICES ASSUME refused = {}, NEW s \in Sets, NEW w \in Walks[s]
              PROVE  Entries(w) = Members(s) /\ Len(w) = Cardinality(Members(s))
  BY DEF IterationExact, Entries
<1>0. EndsInv /\ data \in [Sets -> SUBSET Elems]
  BY DEF OrderedInv, PromiseInv, EndsInv, IntTypeOK
<1>1. \A t \in Sets : Walks[t] = LoopOver(t, Walks)
  BY <1>0, WalksDefined
<1>2. ASSUME NEW t \in Ordered, NEW v \in Walks[t] PROVE Lists(v, Members(t))
  <2>1. Walks[t] = {ListWalk(t)}
    <3>1. t \in Sets /\ Walks[t] = LoopOver(t, Walks)
      BY <1>1, OrderedAssumption
    <3>2. LoopOver(t, Walks) = {ListWalk(t)}
      BY DEF LoopOver
    <3>. QED  BY <3>1, <3>2
  <2>. QED  BY <1>2, <2>1, ListWalkLists
<1>3. \A t \in Sets : /\ marks[t] \subseteq Sets /\ data[t] \subseteq Elems
                      /\ IsFiniteSet(marks[t]) /\ IsFiniteSet(data[t])
                      /\ Members(t) = data[t] \cup UNION {Members(u) : u \in marks[t]}
  <2>. SUFFICES ASSUME NEW t \in Sets
                PROVE  /\ marks[t] \subseteq Sets /\ data[t] \subseteq Elems
                       /\ IsFiniteSet(marks[t]) /\ IsFiniteSet(data[t])
                       /\ Members(t) = data[t] \cup UNION {Members(u) : u \in marks[t]}
    OBVIOUS
  <2>1. marks[t] \in SUBSET Sets /\ data[t] \in SUBSET Elems
    BY <1>0, MarksFlat
  <2>2. IsFiniteSet(marks[t]) /\ IsFiniteSet(data[t])
    BY <2>1, SetsAssumption, FS_Subset
  <2>. QED  BY <1>0, <2>1, <2>2, MarksFlat
<1>4. ASSUME NEW t \in Sets \ Ordered, NEW v \in Walks[t],
             \A u \in marks[t] : \A r \in Walks[u] :
                r \in Seq(Elems) /\ r # << >> /\ Entries(r) = Members(u)
      PROVE  Lists(v, Members(t))
  <2>1. v \in LoopOver(t, Walks)
    BY <1>1, <1>4
  <2>. QED  BY <1>3, <1>4, <2>1, LoopLists
<1>5. ASSUME NEW t \in Sets, NEW u \in marks[t], NEW r \in Walks[u]
      PROVE  r \in Seq(Elems) /\ r # << >> /\ Entries(r) = Members(u)
  <2>1. u \in Sets /\ marks[u] = {} /\ Members(u) # {}
    BY <1>0, MarksFlat
  <2>2. Lists(r, Members(u))
    BY <1>2, <1>4, <1>5, <2>1
  <2>3. r \in Seq(Elems) /\ Entries(r) = Members(u)
    BY <2>2 DEF Lists, Members
  <2>. QED  BY <2>1, <2>3 DEF Entries
<1>6. Lists(w, Members(s))
  BY <1>2, <1>4, <1>5
<1>. QED  BY <1>6 DEF Lists

\* As long as no add was refused, a loop over a set visits every member once and
\* nothing else, whatever the order of data and marks in the hash tables (set.h:34-94)
\* and the moves and removals that edited the lists (orderedSet.h:45-81).
THEOREM Iterates ==
    ASSUME NoMiddleData, Exclusive
    PROVE  OrderedFairSpec => []IterationExact
<1>1. OrderedInv => IterationExact
  BY InvIterationExact
<1>. QED  BY OrderedInvariant, <1>1, PTL

-----------------------------------------------------------------------------
(***************************************************************************)
(* Any client: data in the middle of the graph, elements in several sets   *)
(* that share a superset.  Then a list may name an element more often than *)
(* it is stored, but never less often: CoverInv.                           *)
(***************************************************************************)

CoverInv == SizeInv /\ ListsTyped /\ ListsCover

\* The sets at or below u that hold x, when the data is d.
HoldersBelow(u, x, d) == {t \in Sets : u \in Closure[t] /\ x \in d[t]}

\* The list of u once x has been unlinked as often as sets below u gave it up.
LEMMA UnlinkedCounts ==
    ASSUME ListsTyped, NEW s \in Sets, NEW x \in Elems, NEW u \in Ordered,
           NEW b \in Nat, b = Cardinality({t \in Movers(s, x) : u \in Closure[t]})
    PROVE  LET q == Unlinked(u, s, x)
           IN  /\ q \in Seq(Elems)
               /\ Occurrences(q, x) >= Occurrences(order[u], x) - b
               /\ \A y \in Elems \ {x} : Occurrences(q, y) = Occurrences(order[u], y)
<1>. DEFINE q == order[u]
            LeftUpTo(k, f) ==
                f = [n \in 0..k |-> IF n = 0 THEN q ELSE Seqs!RemoveFirst(f[n - 1], x)]
            left == CHOOSE f : LeftUpTo(b, f)
            none == {k \in 0..b : ~ \E f : LeftUpTo(k, f)}
            Good(n) == /\ left[n] \in Seq(Elems)
                       /\ Occurrences(left[n], x) >= Occurrences(q, x) - n
                       /\ \A y \in Elems \ {x} : Occurrences(left[n], y) = Occurrences(q, y)
            bad == {n \in 0..b : ~Good(n)}
<1>1. Unlinked(u, s, x) = left[b]
  BY DEF Unlinked
<1>2. q \in Seq(Elems)
  BY DEF ListsTyped
<1>. HIDE DEF q
<1>3. 0 \notin none
  <2>1. LeftUpTo(0, [n \in 0..0 |-> q])
    OBVIOUS
  <2>. HIDE DEF LeftUpTo
  <2>. QED  BY <2>1
<1>4. ASSUME NEW k \in none PROVE k - 1 \in none
  <2>0. k \in 0..b /\ k # 0
    BY <1>3
  <2>1. k \in Nat /\ k - 1 \in 0..b
    <3>. HIDE DEF none
    <3>. QED  BY <2>0
  <2>. SUFFICES ASSUME NEW f, LeftUpTo(k - 1, f) PROVE FALSE
    BY <2>1
  <2>. DEFINE g == [n \in 0..k |-> IF n = k THEN Seqs!RemoveFirst(f[k - 1], x) ELSE f[n]]
  <2>2. ASSUME NEW n \in 0..k PROVE g[n] = IF n = 0 THEN q ELSE Seqs!RemoveFirst(g[n - 1], x)
    <3>1. CASE n = k
      <4>1. g[n] = Seqs!RemoveFirst(f[k - 1], x) /\ g[n - 1] = f[k - 1] /\ n # 0
        BY <2>0, <2>1, <3>1
      <4>. HIDE DEF g
      <4>. QED  BY <4>1
    <3>2. CASE n # k
      <4>1. n \in 0..(k - 1) /\ g[n] = f[n] /\ (n # 0 => g[n - 1] = f[n - 1])
        BY <2>0, <2>1, <3>2
      <4>2. f[n] = IF n = 0 THEN q ELSE Seqs!RemoveFirst(f[n - 1], x)
        BY <4>1
      <4>. HIDE DEF g
      <4>. QED  BY <4>1, <4>2
    <3>. QED  BY <3>1, <3>2
  <2>3. g = [n \in 0..k |-> g[n]]
    OBVIOUS
  <2>. HIDE DEF g
  <2>4. LeftUpTo(k, g)
    BY <2>2, <2>3
  <2>. HIDE DEF LeftUpTo
  <2>. QED  BY <2>4
<1>5. none = {}
  <2>. SUFFICES ASSUME none # {} PROVE FALSE
    OBVIOUS
  <2>1. none \in SUBSET Nat
    OBVIOUS
  <2>. HIDE DEF none
  <2>2. PICK k \in none : \A j \in none : k <= j
    BY <2>1, Least
  <2>. QED  BY <1>4, <2>1, <2>2
<1>6. LeftUpTo(b, left)
  <2>. HIDE DEF LeftUpTo
  <2>1. b \in 0..b
    OBVIOUS
  <2>. QED  BY <1>5, <2>1
<1>. HIDE DEF left
<1>7. \A n \in 0..b : left[n] = IF n = 0 THEN q ELSE Seqs!RemoveFirst(left[n - 1], x)
  BY <1>6
<1>8. Good(0)
  <2>1. left[0] = q /\ \A y : Occurrences(q, y) \in Nat
    BY <1>2, <1>7, PlacesFinite
  <2>. QED  BY <1>2, <2>1
<1>9. ASSUME NEW n \in 0..b, n # 0, Good(n - 1) PROVE Good(n)
  <2>1. left[n] = Seqs!RemoveFirst(left[n - 1], x)
    BY <1>7, <1>9
  <2>2. /\ left[n] \in Seq(Elems)
        /\ \A y : Occurrences(left[n], y) =
              Occurrences(left[n - 1], y) - IF y = x /\ Occurrences(left[n - 1], x) # 0 THEN 1 ELSE 0
    BY <1>9, <2>1, RemovedCounts
  <2>3. /\ \A y : Occurrences(left[n - 1], y) \in Nat
        /\ \A y : Occurrences(q, y) \in Nat
    BY <1>2, <1>9, PlacesFinite
  <2>4. Occurrences(left[n], x) >= Occurrences(left[n - 1], x) - 1
    BY <2>2, <2>3
  <2>5. Occurrences(left[n], x) >= Occurrences(q, x) - n
    <3>1. Occurrences(left[n], x) \in Nat
      BY <2>2, PlacesFinite
    <3>. QED  BY <1>9, <2>3, <2>4, <3>1
  <2>6. \A y \in Elems \ {x} : Occurrences(left[n], y) = Occurrences(left[n - 1], y)
    BY <2>2, <2>3
  <2>. QED  BY <1>9, <2>2, <2>5, <2>6
<1>. HIDE DEF Good
<1>10. bad = {}
  <2>. SUFFICES ASSUME bad # {} PROVE FALSE
    OBVIOUS
  <2>1. bad \in SUBSET Nat
    OBVIOUS
  <2>. HIDE DEF bad
  <2>2. PICK n \in bad : \A j \in bad : n <= j
    BY <2>1, Least
  <2>. USE DEF bad
  <2>3. n \in 0..b /\ n # 0 /\ ~Good(n)
    BY <1>8, <2>2
  <2>4. n - 1 \in 0..b /\ ~(n <= n - 1)
    BY <2>3
  <2>. QED  BY <1>9, <2>2, <2>3, <2>4
<1>11. Good(b)
  BY <1>10
<1>. QED  BY <1>1, <1>11 DEF Good, q

\* Sets that gave x up hold it no more.
LEMMA HoldersDropped ==
    ASSUME IntTypeOK, NEW H \in SUBSET Sets, NEW x \in Elems, NEW u \in Sets,
           \A t \in H : x \in data[t], NEW b, b = Cardinality({t \in H : u \in Closure[t]})
    PROVE  /\ b \in Nat
           /\ IsFiniteSet(HoldersBelow(u, x, DataWithout(H, x)))
           /\ Cardinality(HoldersBelow(u, x, DataWithout(H, x)))
                = Cardinality(HoldersBelow(u, x, data)) - b
           /\ Cardinality(HoldersBelow(u, x, data)) \in Nat
<1>. DEFINE T == HoldersBelow(u, x, data)
            B == {t \in H : u \in Closure[t]}
<1>1. T \in SUBSET Sets /\ B \in SUBSET T /\ HoldersBelow(u, x, DataWithout(H, x)) = T \ B
  BY DEF HoldersBelow, DataWithout
<1>. HIDE DEF T, B
<1>2. IsFiniteSet(T) /\ IsFiniteSet(B)
  BY <1>1, SetsAssumption, FS_Subset
<1>3. T \cap B = B
  BY <1>1
<1>4. IsFiniteSet(T \ B) /\ Cardinality(T \ B) = Cardinality(T) - Cardinality(B)
  BY <1>2, <1>3, FS_Difference
<1>5. Cardinality(T) \in Nat /\ Cardinality(B) \in Nat
  BY <1>2, FS_CardinalityType
<1>. QED  BY <1>1, <1>4, <1>5 DEF T, B

\* The holders of the other elements do not change.
LEMMA HoldersOfOthers ==
    ASSUME IntTypeOK, NEW H \in SUBSET Sets, NEW x \in Elems, NEW y \in Elems \ {x}, NEW u \in Sets
    PROVE  HoldersBelow(u, y, DataWithout(H, x)) = HoldersBelow(u, y, data)
BY DEF HoldersBelow, DataWithout, IntTypeOK

LEMMA CoverByHolders ==
    ListsCover <=> \A u \in Ordered, x \in Elems :
                       Occurrences(order[u], x) >= Cardinality(HoldersBelow(u, x, data))
BY DEF ListsCover, HoldersBelow

\* An add, complete or refused.
LEMMA AddCovers ==
    ASSUME CoverInv, NEW s \in Sets, NEW x \in Elems, x \notin data[s],
           order' = Allocated(s, x), refused' \subseteq Elems,
           \/ data' = [DataWithout(Movers(s, x), x) EXCEPT ![s] = @ \cup {x}]
           \/ data' = DataWithout(Movers(s, x), x)
    PROVE  ListsTyped' /\ ListsCover'
<1>. DEFINE H == Movers(s, x)
            d == DataWithout(H, x)
<1>0. /\ IntTypeOK /\ ListsTyped /\ H \in SUBSET Sets /\ Ordered \subseteq Sets
      /\ \A t \in H : x \in data[t]
  BY HoldersTyped, OrderedAssumption DEF CoverInv, SizeInv
<1>. HIDE DEF H
<1>1. ASSUME NEW u \in Ordered
      PROVE  /\ order'[u] \in Seq(Elems)
             /\ \A y \in Elems : Occurrences(order'[u], y) >= Cardinality(HoldersBelow(u, y, data'))
  <2>. DEFINE b == Cardinality({t \in H : u \in Closure[t]})
              q == Unlinked(u, s, x)
              add == IF u \in Closure[s] THEN 1 ELSE 0
  <2>1. /\ b \in Nat /\ IsFiniteSet(HoldersBelow(u, x, d))
        /\ Cardinality(HoldersBelow(u, x, d)) = Cardinality(HoldersBelow(u, x, data)) - b
        /\ Cardinality(HoldersBelow(u, x, data)) \in Nat
    BY <1>0, HoldersDropped
  <2>2. /\ q \in Seq(Elems)
        /\ Occurrences(q, x) >= Occurrences(order[u], x) - b
        /\ \A y \in Elems \ {x} : Occurrences(q, y) = Occurrences(order[u], y)
    BY <1>0, <2>1, UnlinkedCounts DEF H
  <2>3. order'[u] = q \o IF u \in Closure[s] THEN <<x>> ELSE << >>
    BY DEF Allocated
  <2>. HIDE DEF q, b
  <2>4. /\ order'[u] \in Seq(Elems)
        /\ Occurrences(order'[u], x) = Occurrences(q, x) + add
        /\ \A y \in Elems \ {x} : Occurrences(order'[u], y) = Occurrences(q, y)
    <3>1. CASE u \in Closure[s]
      <4>1. order'[u] = q \o <<x>>
        BY <2>3, <3>1
      <4>2. /\ order'[u] \in Seq(Elems)
            /\ \A y : Occurrences(order'[u], y) = Occurrences(q, y) + IF y = x THEN 1 ELSE 0
        BY <2>2, <4>1, AppendedCounts
      <4>3. \A y : Occurrences(q, y) \in Nat
        BY <2>2, PlacesFinite
      <4>. QED  BY <3>1, <4>2, <4>3
    <3>2. CASE u \notin Closure[s]
      <4>1. order'[u] = q
        BY <2>2, <2>3, <3>2
      <4>2. \A y : Occurrences(q, y) \in Nat
        BY <2>2, PlacesFinite
      <4>. QED  BY <2>2, <3>2, <4>1, <4>2
    <3>. QED  BY <3>1, <3>2
  <2>5. Cardinality(HoldersBelow(u, x, data')) <= Cardinality(HoldersBelow(u, x, d)) + add
        /\ Cardinality(HoldersBelow(u, x, data')) \in Int
    <3>1. CASE data' = d
      BY <2>1, <3>1
    <3>2. CASE data' = [d EXCEPT ![s] = @ \cup {x}]
      <4>1. HoldersBelow(u, x, data') = HoldersBelow(u, x, d) \cup IF u \in Closure[s] THEN {s} ELSE {}
        BY <1>0, <3>2 DEF HoldersBelow, DataWithout
      <4>2. CASE u \in Closure[s]
        <5>1. HoldersBelow(u, x, data') = HoldersBelow(u, x, d) \cup {s}
          BY <4>1, <4>2
        <5>2. Cardinality(HoldersBelow(u, x, d)) \in Nat
          BY <2>1, FS_CardinalityType
        <5>. DEFINE S == HoldersBelow(u, x, d)
        <5>3. IsFiniteSet(S) /\ Cardinality(S) \in Nat
          BY <2>1, <5>2
        <5>. HIDE DEF S
        <5>4. Cardinality(S \cup {s}) = IF s \in S THEN Cardinality(S) ELSE Cardinality(S) + 1
          BY <5>3, FS_AddElement
        <5>5. Cardinality(S \cup {s}) <= Cardinality(S) + 1 /\ Cardinality(S \cup {s}) \in Int
          BY <5>3, <5>4
        <5>. QED  BY <4>2, <5>1, <5>5 DEF S
      <4>3. CASE u \notin Closure[s]
        <5>1. HoldersBelow(u, x, data') = HoldersBelow(u, x, d)
          BY <4>1, <4>3
        <5>. QED  BY <2>1, <4>3, <5>1
      <4>. QED  BY <4>2, <4>3
    <3>. QED  BY <3>1, <3>2 DEF H
  <2>6. Occurrences(order'[u], x) >= Cardinality(HoldersBelow(u, x, data'))
    <3>1. Occurrences(order[u], x) >= Cardinality(HoldersBelow(u, x, data))
      BY CoverByHolders DEF CoverInv
    <3>2. Occurrences(order[u], x) \in Nat /\ Occurrences(q, x) \in Nat /\ Occurrences(order'[u], x) \in Nat
      BY <1>0, <2>2, <2>4, PlacesFinite DEF ListsTyped
    <3>. QED  BY <2>1, <2>2, <2>4, <2>5, <3>1, <3>2
  <2>7. ASSUME NEW y \in Elems \ {x}
        PROVE  Occurrences(order'[u], y) >= Cardinality(HoldersBelow(u, y, data'))
    <3>1. Occurrences(order[u], y) >= Cardinality(HoldersBelow(u, y, data))
      BY CoverByHolders DEF CoverInv
    <3>2. HoldersBelow(u, y, d) = HoldersBelow(u, y, data)
      BY <1>0, HoldersOfOthers
    <3>3. HoldersBelow(u, y, data') = HoldersBelow(u, y, d)
      BY <1>0 DEF HoldersBelow, DataWithout, H
    <3>. QED  BY <2>2, <2>4, <3>1, <3>2, <3>3
  <2>. QED  BY <2>4, <2>6, <2>7
<1>2. ListsTyped'
  <2>1. order' = [u \in Ordered |-> order'[u]]
    BY DEF Allocated
  <2>2. order' \in [Ordered -> Seq(Elems)]
    BY <1>1, <2>1
  <2>. QED  BY <2>2 DEF ListsTyped
<1>3. ListsCover'
  BY <1>1 DEF ListsCover, HoldersBelow
<1>. QED  BY <1>2, <1>3

\* A removal: a size goes down where the last set found gave the element up.
LEMMA RemoveCovers ==
    ASSUME CoverInv, NEW s \in Sets, NEW x \in Elems, InnerRemove(s, x),
           order' = DeAllocated(s, x), UNCHANGED refused
    PROVE  ListsTyped' /\ ListsCover'
<1>. DEFINE H == Found(s, x)
<1>0. /\ IntTypeOK /\ ListsTyped /\ H \in SUBSET Sets /\ Ordered \subseteq Sets
      /\ \A t \in H : x \in data[t]
  BY HoldersTyped, OrderedAssumption DEF CoverInv, SizeInv
<1>1. PICK w \in H : size' = [u \in Sets |-> size[u] - IF u \in Closure[w] THEN 1 ELSE 0]
  BY DEF InnerRemove
<1>2. data' = DataWithout(H, x)
  BY DEF InnerRemove
<1>. HIDE DEF H
<1>3. ASSUME NEW u \in Ordered
      PROVE  /\ order'[u] \in Seq(Elems)
             /\ \A y \in Elems : Occurrences(order'[u], y) >= Cardinality(HoldersBelow(u, y, data'))
  <2>. DEFINE b == Cardinality({t \in H : u \in Closure[t]})
              q == order[u]
  <2>0. u \in Sets /\ size[u] \in Int /\ q \in Seq(Elems)
    BY <1>0 DEF IntTypeOK, ListsTyped
  <2>1. order'[u] = IF u \in Closure[w] THEN Seqs!RemoveFirst(q, x) ELSE q
    BY <1>1, <2>0 DEF DeAllocated
  <2>2. /\ b \in Nat
        /\ Cardinality(HoldersBelow(u, x, data')) = Cardinality(HoldersBelow(u, x, data)) - b
        /\ Cardinality(HoldersBelow(u, x, data)) \in Nat
    BY <1>0, <1>2, <2>0, HoldersDropped
  <2>3. u \in Closure[w] => b # 0
    <3>1. {t \in H : u \in Closure[t]} \in SUBSET Sets
      BY <1>0
    <3>2. IsFiniteSet({t \in H : u \in Closure[t]})
      BY <3>1, SetsAssumption, FS_Subset
    <3>. QED  BY <1>1, <3>2, FS_EmptySet
  <2>4. \A y \in Elems : /\ Occurrences(q, y) >= Cardinality(HoldersBelow(u, y, data))
                         /\ Occurrences(q, y) \in Nat
    BY <2>0, CoverByHolders, PlacesFinite DEF CoverInv
  <2>5. \A y \in Elems \ {x} : HoldersBelow(u, y, data') = HoldersBelow(u, y, data)
    BY <1>0, <1>2, <2>0, HoldersOfOthers
  <2>. HIDE DEF q, b
  <2>6. CASE u \in Closure[w]
    <3>1. order'[u] = Seqs!RemoveFirst(q, x)
      BY <2>1, <2>6
    <3>2. /\ order'[u] \in Seq(Elems)
          /\ \A y : Occurrences(order'[u], y) =
                Occurrences(q, y) - IF y = x /\ Occurrences(q, x) # 0 THEN 1 ELSE 0
      BY <2>0, <3>1, RemovedCounts
    <3>3. Occurrences(order'[u], x) >= Cardinality(HoldersBelow(u, x, data'))
      <4>1. Occurrences(order'[u], x) = Occurrences(q, x) - IF Occurrences(q, x) # 0 THEN 1 ELSE 0
        BY <3>2
      <4>2. Occurrences(q, x) >= Cardinality(HoldersBelow(u, x, data)) /\ Occurrences(q, x) \in Nat
        BY <2>4
      <4>3. CASE Occurrences(q, x) = 0
        BY <2>2, <4>1, <4>2, <4>3
      <4>4. CASE Occurrences(q, x) # 0
        BY <2>2, <2>3, <2>6, <4>1, <4>2, <4>4
      <4>. QED  BY <4>3, <4>4
    <3>4. \A y \in Elems \ {x} : Occurrences(order'[u], y) = Occurrences(q, y)
      BY <2>4, <3>2
    <3>. QED  BY <2>4, <2>5, <3>2, <3>3, <3>4
  <2>7. CASE u \notin Closure[w]
    <3>1. order'[u] = q
      BY <2>1, <2>7
    <3>2. Occurrences(q, x) >= Cardinality(HoldersBelow(u, x, data'))
      BY <2>2, <2>4
    <3>. QED  BY <2>0, <2>4, <2>5, <3>1, <3>2
  <2>. QED  BY <2>6, <2>7
<1>4. ListsTyped'
  <2>1. order' = [u \in Ordered |-> order'[u]]
    BY DEF DeAllocated
  <2>2. order' \in [Ordered -> Seq(Elems)]
    BY <1>3, <2>1
  <2>. QED  BY <1>0, <2>2 DEF ListsTyped
<1>5. ListsCover'
  BY <1>3 DEF ListsCover, HoldersBelow
<1>. QED  BY <1>4, <1>5

LEMMA InitCover == OrderedInit => CoverInv
<1>. SUFFICES ASSUME OrderedInit PROVE CoverInv
  OBVIOUS
<1>1. SizeInv
  BY InitSizeInv DEF OrderedInit
<1>2. ListsTyped
  BY DEF OrderedInit, ListsTyped
<1>3. ASSUME NEW u \in Ordered, NEW x \in Elems
      PROVE  Occurrences(order[u], x) >= Cardinality(HoldersBelow(u, x, data))
  <2>1. HoldersBelow(u, x, data) = {}
    BY DEF HoldersBelow, OrderedInit, Init
  <2>2. Occurrences(order[u], x) \in Nat
    BY <1>2, PlacesFinite DEF ListsTyped
  <2>. QED  BY <2>1, <2>2, FS_EmptySet
<1>. QED  BY <1>1, <1>2, <1>3, CoverByHolders DEF CoverInv

LEMMA SameCover ==
    ASSUME CoverInv, UNCHANGED <<data, marks, size, refs, order, refused>>,
           clearing' \in Sets \cup {NoSet}
    PROVE  CoverInv'
BY DEF CoverInv, SizeInv, IntTypeOK, SizeCoversHoldings, Holdings, ListsTyped, ListsCover

LEMMA NextCover == CoverInv /\ [OrderedNext]_orderedVars => CoverInv'
<1>. SUFFICES ASSUME CoverInv, [OrderedNext]_orderedVars PROVE CoverInv'
  OBVIOUS
<1>0. SizeInv /\ IntTypeOK /\ ListsTyped
  BY DEF CoverInv, SizeInv
<1>1. ASSUME NEW s \in AddSets, NEW x \in Elems, OrderedAdd(s, x) PROVE CoverInv'
  <2>1. SizeInv'
    BY <1>0, <1>1, AddKeepsSizeInv DEF OrderedAdd
  <2>2. /\ s \in Sets /\ x \notin data[s] /\ order' = Allocated(s, x) /\ refused' \subseteq Elems
        /\ data' = [DataWithout(Movers(s, x), x) EXCEPT ![s] = @ \cup {x}]
    BY <1>0, <1>1, ClientAssumption DEF OrderedAdd, Add, ListsTyped
  <2>. QED  BY <2>1, <2>2, AddCovers DEF CoverInv
<1>2. ASSUME NEW s \in AddSets, NEW x \in Elems, OrderedAddThrows(s, x) PROVE CoverInv'
  <2>1. SizeInv'
    BY <1>0, <1>2, AddThrowsKeepsSizeInv DEF OrderedAddThrows
  <2>2. /\ s \in Sets /\ x \notin data[s] /\ order' = Allocated(s, x) /\ refused' \subseteq Elems
        /\ data' = DataWithout(Movers(s, x), x)
    BY <1>0, <1>2, ClientAssumption DEF OrderedAddThrows, AddThrows, ListsTyped
  <2>. QED  BY <2>1, <2>2, AddCovers DEF CoverInv
<1>3. ASSUME NEW s \in Sets, NEW x \in Elems, InnerRemove(s, x), order' = DeAllocated(s, x),
             UNCHANGED <<clearing, refused>>
      PROVE  CoverInv'
  <2>1. SizeInv'
    BY <1>0, <1>3, RemoveKeepsSizeInv
  <2>. QED  BY <1>3, <2>1, RemoveCovers DEF CoverInv
<1>4. ASSUME NEW s \in Sets, NEW x \in Elems, OrderedRemove(s, x) PROVE CoverInv'
  BY <1>3, <1>4 DEF OrderedRemove, Remove
<1>5. CASE OrderedClearStep
  <2>1. clearing \in Sets /\ Fronts(clearing) \ {NullElem} \subseteq Elems
    BY <1>0, <1>5, FrontsTyped DEF OrderedClearStep
  <2>. QED  BY <1>3, <1>5, <2>1 DEF OrderedClearStep
<1>6. CASE UNCHANGED <<data, marks, size, refs, order, refused>> /\ clearing' \in Sets \cup {NoSet}
  BY <1>6, SameCover
<1>7. CASE UNCHANGED orderedVars
  BY <1>0, <1>6, <1>7 DEF orderedVars, IntTypeOK
<1>. QED
  BY <1>1, <1>2, <1>4, <1>5, <1>6, <1>7
     DEF OrderedNext, OrderedClearBegin, ClearBegin, OrderedClearEnd, OrderedClearThrows

LEMMA CoverInvariant == OrderedFairSpec => []CoverInv
BY InitCover, NextCover, PTL DEF OrderedFairSpec

\* An OrderedSet lists an element at least as often as it is stored at or below it,
\* whatever the client does (orderedSet.h:45-81 against set.h:122-152).
THEOREM AlwaysListed == OrderedFairSpec => []ListsCover
BY CoverInvariant, PTL DEF CoverInv

\* The types and the bound of m_size carry over from SubsetSets, although clear() of an
\* OrderedSet removes what its list names and not what front() of a Set finds.
THEOREM OrderedSizes == OrderedFairSpec => [](TypeOK /\ SizeCoversHoldings)
<1>1. CoverInv => TypeOK /\ SizeCoversHoldings
  BY SizeInvTyped DEF CoverInv, SizeInv
<1>. QED  BY <1>1, CoverInvariant, PTL

\* So do the references of what is stored (managerNode.h:102-114).
THEOREM OrderedReferences == OrderedFairSpec => []StoredIsReferenced
<1>1. OrderedInit => StoredIsReferenced
  BY InitReferences DEF OrderedInit
<1>2. CoverInv /\ StoredIsReferenced /\ [OrderedNext]_orderedVars => StoredIsReferenced'
  <2>. SUFFICES ASSUME CoverInv, StoredIsReferenced, [OrderedNext]_orderedVars PROVE StoredIsReferenced'
    OBVIOUS
  <2>0. SizeInv /\ IntTypeOK /\ ListsTyped
    BY DEF CoverInv, SizeInv
  <2>1. ASSUME NEW s \in AddSets, NEW x \in Elems, Add(s, x) \/ AddThrows(s, x)
        PROVE  StoredIsReferenced'
    BY <2>0, <2>1, NextReferences DEF Next
  <2>2. ASSUME NEW s \in Sets, NEW x \in Elems, InnerRemove(s, x) PROVE StoredIsReferenced'
    BY <2>0, <2>2, RemoveKeepsReferences
  <2>3. CASE OrderedClearStep
    <3>1. clearing \in Sets /\ Fronts(clearing) \ {NullElem} \subseteq Elems
      BY <2>0, <2>3, FrontsTyped DEF OrderedClearStep
    <3>. QED  BY <2>2, <2>3, <3>1 DEF OrderedClearStep
  <2>4. CASE UNCHANGED <<data, refs>>
    BY <2>4 DEF StoredIsReferenced
  <2>. QED
    BY <2>1, <2>2, <2>3, <2>4
       DEF OrderedNext, OrderedAdd, OrderedAddThrows, OrderedRemove, Remove, OrderedClearBegin,
           ClearBegin, OrderedClearEnd, OrderedClearThrows, orderedVars
<1>. QED  BY <1>1, <1>2, CoverInvariant, PTL DEF OrderedFairSpec

\* clear() of an OrderedSet that comes to its end leaves nothing at or below it
\* (orderedSet.h:225-229), for any client: it follows its list, which misses no member,
\* where Set::clear follows marks that may be stale.
THEOREM ListClearEmpties ==
    OrderedFairSpec =>
        [][OrderedClearEnd /\ clearing \in Ordered => Members(clearing) = {}]_orderedVars
<1>1. ASSUME CoverInv, OrderedClearEnd, clearing \in Ordered PROVE Members(clearing) = {}
  <2>0. order[clearing] \in Seq(Elems)
    BY <1>1 DEF CoverInv, ListsTyped
  <2>1. order[clearing] = << >>
    <3>1. NullElem \in Answers(clearing)
      BY <1>1, OrderedFronts DEF OrderedClearEnd, Fronts
    <3>. QED  BY <1>1, <2>0, <3>1, OrderedAssumption DEF Answers
  <2>2. ASSUME NEW x \in Members(clearing) PROVE FALSE
    <3>1. x \in Elems /\ HoldersBelow(clearing, x, data) # {}
      BY DEF Members, HoldersBelow
    <3>2. HoldersBelow(clearing, x, data) \in SUBSET Sets
      BY DEF HoldersBelow
    <3>3. IsFiniteSet(HoldersBelow(clearing, x, data))
      BY <3>2, SetsAssumption, FS_Subset
    <3>4. /\ Cardinality(HoldersBelow(clearing, x, data)) \in Nat
          /\ Cardinality(HoldersBelow(clearing, x, data)) # 0
      BY <3>1, <3>3, FS_CardinalityType, FS_EmptySet
    <3>5. Occurrences(order[clearing], x) >= Cardinality(HoldersBelow(clearing, x, data))
      BY <1>1, <3>1, CoverByHolders DEF CoverInv
    <3>6. Places(order[clearing], x) = {} /\ order[clearing] \in Seq(Elems)
      BY <1>1, <2>1 DEF Places, CoverInv, ListsTyped
    <3>7. Occurrences(order[clearing], x) = 0
      BY <3>6, PlacesFinite
    <3>. QED  BY <3>4, <3>5, <3>7
  <2>. QED  BY <2>2
<1>2. CoverInv /\ [OrderedNext]_orderedVars
        => [OrderedClearEnd /\ clearing \in Ordered => Members(clearing) = {}]_orderedVars
  BY <1>1
<1>. QED  BY <1>2, CoverInvariant, PTL DEF OrderedFairSpec

-----------------------------------------------------------------------------
(* clear(), for any client *)

\* The marks keep what they are good for when clear() removes what a list names.
LEMMA MarkInvariant == OrderedFairSpec => []MarkInv
<1>1. OrderedInit => MarkInv
  BY InitMarks DEF OrderedInit
<1>2. CoverInv /\ MarkInv /\ [OrderedNext]_orderedVars => MarkInv'
  <2>. SUFFICES ASSUME CoverInv, MarkInv, [OrderedNext]_orderedVars PROVE MarkInv'
    OBVIOUS
  <2>0. SizeInv /\ IntTypeOK /\ ListsTyped
    BY DEF CoverInv, SizeInv
  <2>1. ASSUME NEW s \in AddSets, NEW x \in Elems, Add(s, x) \/ AddThrows(s, x)
        PROVE  MarkInv'
    BY <2>0, <2>1, NextMarks DEF Next
  <2>2. ASSUME NEW s \in Sets, NEW x \in Elems, InnerRemove(s, x) PROVE MarkInv'
    BY <2>0, <2>2, RemoveKeepsMarks
  <2>3. CASE OrderedClearStep
    <3>1. clearing \in Sets /\ Fronts(clearing) \ {NullElem} \subseteq Elems
      BY <2>0, <2>3, FrontsTyped DEF OrderedClearStep
    <3>. QED  BY <2>2, <2>3, <3>1 DEF OrderedClearStep
  <2>4. CASE UNCHANGED <<data, marks>>
    BY <2>4 DEF MarkInv
  <2>. QED
    BY <2>1, <2>2, <2>3, <2>4
       DEF OrderedNext, OrderedAdd, OrderedAddThrows, OrderedRemove, Remove, OrderedClearBegin,
           ClearBegin, OrderedClearEnd, OrderedClearThrows, orderedVars
<1>. QED  BY <1>1, <1>2, CoverInvariant, PTL DEF OrderedFairSpec

\* Every round of clear() takes what is stored at or below the set away from it and adds
\* nothing: the loop ends because what it works on is finite (privateSet.h:298-330 for
\* the removal, set.h:263-267 and orderedSet.h:225-229 for the loops).
THEOREM ClearTakes ==
    OrderedFairSpec =>
        [][OrderedClearStep => /\ IsFiniteSet(Holdings(clearing))
                               /\ Holdings(clearing)' \subseteq Holdings(clearing)
                               /\ Holdings(clearing)' # Holdings(clearing)]_orderedVars
<1>1. ASSUME CoverInv, MarkInv, OrderedClearStep
      PROVE  /\ IsFiniteSet(Holdings(clearing))
             /\ Holdings(clearing)' \subseteq Holdings(clearing)
             /\ Holdings(clearing)' # Holdings(clearing)
  <2>0. IntTypeOK /\ ListsTyped
    BY <1>1 DEF CoverInv, SizeInv
  <2>1. PICK x \in Fronts(clearing) \ {NullElem} : InnerRemove(clearing, x)
    BY <1>1 DEF OrderedClearStep
  <2>2. clearing \in Sets /\ x \in Elems
    BY <1>1, <2>0, FrontsTyped DEF OrderedClearStep
  <2>3. /\ data' = DataWithout(Found(clearing, x), x) /\ clearing' = clearing
        /\ Found(clearing, x) # {}
    BY <1>1, <2>1 DEF InnerRemove, OrderedClearStep
  <2>4. Found(clearing, x) \subseteq {t \in Sets : clearing \in Closure[t]}
    <3>. DEFINE C == {t \in Sets : clearing \in Closure[t]}
                next == Descent(x)
    <3>1. {clearing} \subseteq C /\ C \in SUBSET Sets
      BY <2>2, ClosureFacts
    <3>2. \A u \in C : next[u] \subseteq C
      <4>. SUFFICES ASSUME NEW u \in C, NEW t \in marks[u] PROVE t \in C
        BY DEF Descent
      <4>1. t \in Sets /\ u \in Closure[t]
        BY <1>1 DEF MarkInv
      <4>. QED  BY <4>1, ClosureFacts
    <3>3. Reach({clearing}, next) \subseteq C
      <4>. HIDE DEF C, next
      <4>. QED  BY <3>1, <3>2, ReachLeast
    <3>. QED  BY <3>3 DEF Found
  <2>5. PICK t \in Found(clearing, x) : TRUE
    BY <2>3
  <2>6. t \in Sets /\ clearing \in Closure[t] /\ x \in data[t] /\ x \notin data'[t]
    BY <2>3, <2>4, <2>5 DEF Found, DataWithout
  <2>7. \A u \in Sets : data'[u] \subseteq data[u]
    BY <2>3 DEF DataWithout
  <2>8. <<t, x>> \in Holdings(clearing) /\ <<t, x>> \notin Holdings(clearing)'
    BY <2>2, <2>6 DEF Holdings
  <2>9. Holdings(clearing)' \subseteq Holdings(clearing)
    BY <2>3, <2>7 DEF Holdings
  <2>. QED  BY <2>2, <2>8, <2>9, HoldingsFinite
<1>2. CoverInv /\ MarkInv /\ [OrderedNext]_orderedVars
        => [OrderedClearStep => /\ IsFiniteSet(Holdings(clearing))
                                /\ Holdings(clearing)' \subseteq Holdings(clearing)
                                /\ Holdings(clearing)' # Holdings(clearing)]_orderedVars
  BY <1>1
<1>. QED
  BY <1>2, CoverInvariant, MarkInvariant, PTL DEF OrderedFairSpec

\* front() always has a set to answer from: going down the marks it comes to an end.
LEMMA FrontExists ==
    ASSUME MarkInv, NEW s \in Sets
    PROVE  ListFrontSets(s) # {}
<1>. DEFINE next == [u \in Sets |-> IF u \notin Ordered /\ data[u] = {} THEN marks[u] ELSE {}]
            R == Reach({s}, next)
            T == {Cardinality(Sets) - Cardinality(Closure[u]) : u \in R}
<1>. SUFFICES ASSUME \A u \in R : u \notin Ordered /\ data[u] = {} /\ marks[u] # {} PROVE FALSE
  BY DEF ListFrontSets
<1>1. s \in R /\ R \subseteq Sets
  BY ReachStart DEF Reach
<1>2. \A u \in Sets : /\ IsFiniteSet(Closure[u]) /\ Cardinality(Closure[u]) \in Nat
                       /\ Cardinality(Closure[u]) <= Cardinality(Sets)
  BY ClosureFacts, SetsAssumption, FS_Subset, FS_CardinalityType
<1>3. T \in SUBSET Nat /\ T # {}
  <2>1. \A u \in R : Cardinality(Sets) - Cardinality(Closure[u]) \in Nat
    BY <1>1, <1>2, SetsAssumption, FS_CardinalityType
  <2>. HIDE DEF R
  <2>. QED  BY <1>1, <2>1
<1>4. PICK n \in T : \A m \in T : n <= m
  <2>. HIDE DEF T
  <2>. QED  BY <1>3, Least
<1>5. PICK u \in R : n = Cardinality(Sets) - Cardinality(Closure[u])
  BY <1>4
<1>6. PICK v : v \in marks[u]
  BY <1>5
<1>7. u \in Sets /\ v \in Sets /\ u \in Closure[v] /\ u # v
  BY <1>1, <1>5, <1>6 DEF MarkInv
<1>8. v \in R
  <2>1. v \in next[u] \cap Sets
    BY <1>5, <1>6, <1>7
  <2>. HIDE DEF next
  <2>. QED  BY <1>5, <2>1, ReachStep
<1>9. Closure[u] \in SUBSET Closure[v] /\ v \in Closure[v] /\ v \notin Closure[u]
  BY <1>7, ClosureFacts, ClosureAntisym
<1>10. /\ Cardinality(Closure[u]) <= Cardinality(Closure[v])
       /\ Cardinality(Closure[u]) # Cardinality(Closure[v])
  BY <1>2, <1>7, <1>9, FS_Subset
<1>11. n <= Cardinality(Sets) - Cardinality(Closure[v])
  <2>1. Cardinality(Sets) - Cardinality(Closure[v]) \in T
    BY <1>8
  <2>. HIDE DEF T
  <2>. QED  BY <1>4, <2>1
<1>. QED  BY <1>2, <1>5, <1>7, <1>10, <1>11, SetsAssumption, FS_CardinalityType

\* The search of a removal goes down at least as far as front(): if it does not find what
\* front() answered, that is the head of a list, and no removal below finds it either.
LEMMA FrontFound ==
    ASSUME MarkInv, NEW s \in Sets, NEW t \in ListFrontSets(s), NEW x \in Answers(t),
           x # NullElem, Found(s, x) = {}
    PROVE  t \in Ordered /\ order[t] # << >> /\ x = order[t][1] /\ Found(t, x) = {}
<1>. DEFINE next == [u \in Sets |-> IF u \notin Ordered /\ data[u] = {} THEN marks[u] ELSE {}]
            down == Descent(x)
            R == Reach({s}, down)
<1>0. \A u \in R : x \notin data[u]
  BY DEF Found
<1>1. s \in R /\ R \in SUBSET Sets
  BY ReachStart DEF Reach
<1>2. \A u \in R : down[u] \subseteq R
  <2>. SUFFICES ASSUME NEW u \in R, NEW v \in down[u] PROVE v \in R
    OBVIOUS
  <2>1. v \in down[u] \cap Sets
    BY <1>1 DEF Descent, MarkInv
  <2>. HIDE DEF down
  <2>. QED  BY <2>1, ReachStep
<1>3. \A u \in R : next[u] \subseteq down[u]
  BY <1>0, <1>1 DEF Descent
<1>4. Reach({s}, next) \subseteq R
  <2>. HIDE DEF next, down, R
  <2>. QED  BY <1>1, <1>2, <1>3, ReachLeast
<1>5. t \in R
  BY <1>4 DEF ListFrontSets
<1>6. t \in Ordered /\ order[t] # << >> /\ x = order[t][1]
  BY <1>0, <1>5 DEF Answers
<1>7. Reach({t}, down) \subseteq R
  <2>. HIDE DEF down, R
  <2>. QED  BY <1>1, <1>2, <1>5, ReachLeast
<1>. QED  BY <1>0, <1>6, <1>7 DEF Found

\* As long as clear() runs front() has an answer, and the removal finds it or the answer
\* is null, with one exception: the head of the list of an OrderedSet, the set itself or
\* one below it, from which not even a removal from that OrderedSet would find it.
FrontsFound ==
    clearing # NoSet =>
        /\ Fronts(clearing) # {}
        /\ \A x \in Fronts(clearing) \ {NullElem} :
              \/ Found(clearing, x) # {}
              \/ \E t \in Ordered :
                    /\ clearing \in Closure[t]
                    /\ order[t] # << >> /\ x = order[t][1] /\ Found(t, x) = {}

\* Whatever the client does, an exception out of clear() (set.h:263-267,
\* privateSet.h:335-337) has its cause in a list, at or below the set, that names at its
\* head what nothing below holds; clear() of a Set without an OrderedSet below never throws.
THEOREM ClearFindsFronts == OrderedFairSpec => []FrontsFound
<1>1. ASSUME CoverInv, MarkInv, clearing # NoSet PROVE FrontsFound
  <2>1. clearing \in Sets
    BY <1>1 DEF CoverInv, SizeInv, IntTypeOK
  <2>2. Fronts(clearing) # {}
    <3>1. PICK t : t \in ListFrontSets(clearing)
      BY <1>1, <2>1, FrontExists
    <3>2. Answers(t) # {}
      BY DEF Answers
    <3>. QED  BY <3>1, <3>2 DEF Fronts
  <2>3. ASSUME NEW x \in Fronts(clearing), x # NullElem, Found(clearing, x) = {}
        PROVE  \E t \in Ordered :
                  /\ clearing \in Closure[t]
                  /\ order[t] # << >> /\ x = order[t][1] /\ Found(t, x) = {}
    <3>1. PICK t \in ListFrontSets(clearing) : x \in Answers(t)
      BY DEF Fronts
    <3>2. clearing \in Closure[t]
      BY <1>1, <2>1, <3>1, FrontsBelow DEF MarkInv
    <3>3. t \in Ordered /\ order[t] # << >> /\ x = order[t][1] /\ Found(t, x) = {}
      BY <1>1, <2>1, <2>3, <3>1, FrontFound
    <3>. QED  BY <3>2, <3>3
  <2>. QED  BY <2>2, <2>3 DEF FrontsFound
<1>2. CoverInv /\ MarkInv => FrontsFound
  BY <1>1 DEF FrontsFound
<1>. QED  BY CoverInvariant, MarkInvariant, <1>2, PTL

-----------------------------------------------------------------------------
(* Iteration, for any client *)

NoElems == {NullElem, Broken}

\* What a loop over s may visit at most: what is stored at or below s, what the list of
\* an OrderedSet there names, and a null element.
MayVisit(s) ==
    Members(s) \cup NoElems \cup UNION {Entries(order[u]) : u \in {v \in Ordered : s \in Closure[v]}}

\* A null element comes first or not at all, and what is undefined comes after it alone.
NullFirst(w) ==
    /\ NoElems \cap Entries(w) # {} => w[1] = NullElem
    /\ Broken \in Entries(w) => w = <<NullElem, Broken>>

\* A loop never leaves the set and those below it, and a loop over a Set visits all data of
\* its own and nothing twice (m_visited).  Only a loop over a Set without data of its own
\* meets a null element, at begin().
LoopsBounded ==
    \A s \in Sets : \A w \in Walks[s] :
        /\ Entries(w) \subseteq MayVisit(s)
        /\ s \notin Ordered => data[s] \subseteq Entries(w) /\ Len(w) = Cardinality(Entries(w))
        /\ NoElems \cap Entries(w) # {} => s \notin Ordered /\ data[s] = {}
        /\ NullFirst(w)

\* The number of sets below s: the marks lead to sets with fewer.
Height(s) == Cardinality({t \in Sets : s \in Closure[t]})

LEMMA MarksDescend ==
    ASSUME MarkInv, NEW s \in Sets, NEW t \in marks[s]
    PROVE  t \in Sets /\ s \in Closure[t] /\ Height(s) \in Nat /\ Height(t) \in Nat /\ Height(t) < Height(s)
<1>. DEFINE Below(u) == {v \in Sets : u \in Closure[v]}
<1>1. t \in Sets /\ s \in Closure[t] /\ t # s
  BY DEF MarkInv
<1>2. Below(t) \in SUBSET Below(s)
  BY <1>1, ClosureFacts
<1>3. s \in Below(s) /\ s \notin Below(t)
  BY <1>1, ClosureFacts, ClosureAntisym
<1>4. IsFiniteSet(Below(s))
  <2>1. Below(s) \in SUBSET Sets
    OBVIOUS
  <2>. HIDE DEF Below
  <2>. QED  BY <2>1, SetsAssumption, FS_Subset
<1>5. Height(s) = Cardinality(Below(s)) /\ Height(t) = Cardinality(Below(t))
  BY DEF Height
<1>. HIDE DEF Below
<1>6. IsFiniteSet(Below(t)) /\ Cardinality(Below(t)) <= Cardinality(Below(s))
      /\ Cardinality(Below(s)) # Cardinality(Below(t))
  BY <1>2, <1>3, <1>4, FS_Subset
<1>7. Cardinality(Below(s)) \in Nat /\ Cardinality(Below(t)) \in Nat
  BY <1>4, <1>6, FS_CardinalityType
<1>. QED  BY <1>1, <1>5, <1>6, <1>7

LEMMA HeightType == ASSUME NEW s \in Sets PROVE Height(s) \in Nat
<1>. DEFINE B == {t \in Sets : s \in Closure[t]}
<1>1. B \in SUBSET Sets
  OBVIOUS
<1>2. Height(s) = Cardinality(B)
  BY DEF Height
<1>. HIDE DEF B
<1>3. IsFiniteSet(B)
  BY <1>1, SetsAssumption, FS_Subset
<1>. QED  BY <1>2, <1>3, FS_CardinalityType

\* Walks has the loops that its definition says, however deep the marks lead.
LEMMA WalksExist ==
    ASSUME MarkInv
    PROVE  Walks = [s \in Sets |-> LoopOver(s, Walks)]
<1>. DEFINE Upto(n) == \E W : \A s \in Sets : Height(s) < n => W[s] = LoopOver(s, W)
            bad == {n \in Nat : ~Upto(n)}
<1>1. Upto(0)
  BY HeightType
<1>2. ASSUME NEW n \in Nat, Upto(n) PROVE Upto(n + 1)
  <2>1. PICK W : \A s \in Sets : Height(s) < n => W[s] = LoopOver(s, W)
    BY <1>2
  <2>. DEFINE V == [s \in Sets |-> LoopOver(s, W)]
  <2>2. ASSUME NEW s \in Sets, Height(s) < n + 1 PROVE V[s] = LoopOver(s, V)
    <3>1. \A t \in marks[s] : V[t] = W[t]
      <4>. SUFFICES ASSUME NEW t \in marks[s] PROVE V[t] = W[t]
        OBVIOUS
      <4>1. t \in Sets /\ Height(t) < n
        BY <2>2, MarksDescend
      <4>. QED  BY <2>1, <4>1
    <3>2. IsFiniteSet(marks[s])
      <4>1. marks[s] \in SUBSET Sets
        BY DEF MarkInv
      <4>. QED  BY <4>1, SetsAssumption, FS_Subset
    <3>3. V[s] = LoopOver(s, W)
      OBVIOUS
    <3>. HIDE DEF V
    <3>. QED  BY <3>1, <3>2, <3>3, LoopLocal
  <2>. HIDE DEF V
  <2>. QED  BY <2>2
<1>. HIDE DEF Upto
<1>3. bad = {}
  <2>. SUFFICES ASSUME bad # {} PROVE FALSE
    OBVIOUS
  <2>1. bad \in SUBSET Nat
    OBVIOUS
  <2>. HIDE DEF bad
  <2>2. PICK n \in bad : \A m \in bad : n <= m
    BY <2>1, Least
  <2>. USE DEF bad
  <2>3. n \in Nat /\ n # 0
    BY <1>1, <2>2
  <2>4. n - 1 \in Nat /\ ~(n <= n - 1) /\ (n - 1) + 1 = n
    BY <2>3
  <2>5. Upto(n - 1)
    BY <2>2, <2>4
  <2>. QED  BY <1>2, <2>2, <2>4, <2>5
<1>4. Cardinality(Sets) + 1 \in Nat /\ \A s \in Sets : Height(s) < Cardinality(Sets) + 1
  <2>1. Cardinality(Sets) \in Nat
    BY SetsAssumption, FS_CardinalityType
  <2>2. ASSUME NEW s \in Sets PROVE Height(s) <= Cardinality(Sets)
    <3>. DEFINE B == {t \in Sets : s \in Closure[t]}
    <3>1. B \in SUBSET Sets
      OBVIOUS
    <3>2. Height(s) = Cardinality(B)
      BY DEF Height
    <3>. HIDE DEF B
    <3>. QED  BY <3>1, <3>2, SetsAssumption, FS_Subset
  <2>. QED  BY <2>1, <2>2, HeightType
<1>5. Upto(Cardinality(Sets) + 1)
  BY <1>3, <1>4
<1>6. PICK W : \A s \in Sets : W[s] = LoopOver(s, W)
  BY <1>4, <1>5 DEF Upto
<1>. DEFINE V == [s \in Sets |-> LoopOver(s, W)]
<1>7. \A s \in Sets : V[s] = W[s]
  BY <1>6
<1>8. V = [s \in Sets |-> LoopOver(s, V)]
  <2>1. ASSUME NEW s \in Sets PROVE LoopOver(s, W) = LoopOver(s, V)
    <3>1. marks[s] \in SUBSET Sets
      BY DEF MarkInv
    <3>2. \A t \in marks[s] : W[t] = V[t]
      BY <1>7, <3>1
    <3>3. IsFiniteSet(marks[s])
      BY <3>1, SetsAssumption, FS_Subset
    <3>. HIDE DEF V
    <3>. QED  BY <3>2, <3>3, LoopLocal
  <2>. QED  BY <2>1
<1>9. \E f : f = [s \in Sets |-> LoopOver(s, f)]
  <2>. HIDE DEF V
  <2>. QED  BY <1>8
<1>. QED  BY <1>9, WalksChosen

\* What is visited from a subset on, and from the next subset on nothing but elements.
LEMMA VisitsWithin ==
    ASSUME NEW S, NoElems \subseteq S, NEW w \in Seq(S), NullFirst(w), NEW t, NEW begins \in BOOLEAN,
           NEW V \in SUBSET Seq(S \ NoElems), NEW r \in Visits(Met(t, w), begins, V)
    PROVE  r \in Seq(S) /\ NullFirst(r) /\ (~begins => r \in Seq(S \ NoElems))
<1>. DEFINE met == Met(t, w)
            S0 == S \ NoElems
<1>1. met \in Seq(S) /\ met # << >> /\ NullFirst(met)
  <2>1. CASE w # << >>
    BY <2>1 DEF Met
  <2>2. CASE w = << >>
    <3>1. met \in {<<NullElem>>, <<NullElem, Broken>>}
      BY <2>2 DEF Met
    <3>2. ~(Broken \in Entries(<<NullElem>>)) /\ <<NullElem>> # << >>
      BY OrderedAssumption DEF Entries
    <3>3. NullFirst(<<NullElem>>) /\ NullFirst(<<NullElem, Broken>>)
      BY <3>2 DEF NullFirst
    <3>4. NullElem \in S /\ Broken \in S
      BY DEF NoElems
    <3>5. <<NullElem>> \in Seq(S) /\ <<NullElem, Broken>> \in Seq(S)
      BY <3>4
    <3>6. <<NullElem>> # << >> /\ <<NullElem, Broken>> # << >>
      OBVIOUS
    <3>. QED  BY <3>1, <3>3, <3>5, <3>6
  <2>. QED  BY <2>1, <2>2
<1>2. r \in Visits(met, begins, V)
  OBVIOUS
<1>. HIDE DEF met
<1>3. CASE met[1] = NullElem /\ ~begins
  <2>1. r = << >>
    BY <1>2, <1>3 DEF Visits
  <2>2. Entries(<< >>) = {}
    BY DEF Entries
  <2>. QED  BY <2>1, <2>2 DEF NullFirst
<1>4. CASE ~(met[1] = NullElem /\ ~begins) /\ met[Len(met)] = Broken
  <2>1. r = met
    BY <1>2, <1>4 DEF Visits
  <2>2. Broken \in Entries(met)
    BY <1>1, <1>4 DEF Entries
  <2>. QED  BY <1>1, <1>4, <2>1, <2>2 DEF NullFirst, NoElems
<1>5. CASE ~(met[1] = NullElem /\ ~begins) /\ met[Len(met)] # Broken
  <2>1. PICK v \in V : r = met \o v
    BY <1>2, <1>5 DEF Visits
  <2>2. v \in Seq(S0) /\ v \in Seq(S) /\ NoElems \cap Entries(v) = {}
    BY DEF Entries
  <2>3. r \in Seq(S) /\ Entries(r) = Entries(met) \cup Entries(v)
    BY <1>1, <2>1, <2>2, EntriesConcat
  <2>4. Broken \notin Entries(met)
    <3>1. <<NullElem, Broken>>[Len(<<NullElem, Broken>>)] = Broken
      OBVIOUS
    <3>. QED  BY <1>1, <1>5, <3>1 DEF NullFirst
  <2>5. r[1] = met[1]
    <3>1. Len(met) \in Nat /\ Len(met) # 0
      BY <1>1
    <3>. QED  BY <1>1, <2>1, <2>2, <3>1, ConcatProperties
  <2>6. NullFirst(r)
    BY <1>1, <2>2, <2>3, <2>4, <2>5 DEF NullFirst, NoElems
  <2>7. ~begins => r \in Seq(S0)
    <3>. SUFFICES ASSUME ~begins PROVE r \in Seq(S0)
      OBVIOUS
    <3>1. NoElems \cap Entries(r) = {}
      BY <1>1, <1>5, <2>2, <2>3 DEF NullFirst
    <3>. QED  BY <2>3, <3>1 DEF Entries
  <2>. QED  BY <2>3, <2>6, <2>7
<1>. QED  BY <1>3, <1>4, <1>5

\* If the loops over the subsets in p visit elements of S, so does a run.
LEMMA RunsWithin ==
    ASSUME NEW S, NoElems \subseteq S, NEW s, NEW p \in Seq(Sets), NEW ws,
           \A n \in DOMAIN p : \A w \in ws[p[n]] : w \in Seq(S) /\ NullFirst(w),
           NEW v \in Runs(s, p, ws)
    PROVE  v \in Seq(S) /\ NullFirst(v) /\ (data[s] # {} => v \in Seq(S \ NoElems))
<1>. DEFINE N == Len(p)
            f == CHOOSE g : g = RunsFrom(s, p, ws, g)
            S0 == S \ NoElems
            begins(m) == m = 1 /\ data[s] = {}
            bad == {k \in 0..(N - 1) : ~(f[N + 1 - k] \subseteq Seq(S0))}
<1>1. N \in Nat /\ DOMAIN p = 1..N
  OBVIOUS
<1>2. f = RunsFrom(s, p, ws, f)
  BY RunsExist
<1>3. v \in f[1]
  BY DEF Runs
<1>. HIDE DEF f
<1>4. \A m \in 1..(N + 1) : f[m] = IF m > N THEN {<< >>} ELSE Onward(s, p, ws, m, f[m + 1])
  BY <1>2 DEF RunsFrom
<1>. HIDE DEF N
<1>5. f[N + 1] = {<< >>} /\ << >> \in Seq(S0) /\ << >> \in Seq(S) /\ NullFirst(<< >>)
  BY <1>1, <1>4 DEF NullFirst, Entries
<1>6. ASSUME NEW m \in 1..N, f[m + 1] \subseteq Seq(S0), NEW r \in f[m]
      PROVE  r \in Seq(S) /\ NullFirst(r) /\ (~begins(m) => r \in Seq(S0))
  <2>1. f[m] = Onward(s, p, ws, m, f[m + 1])
    BY <1>1, <1>4
  <2>2. PICK w \in ws[p[m]] : r \in Visits(Met(p[m], w), begins(m), f[m + 1])
    BY <1>6, <2>1 DEF Onward
  <2>3. w \in Seq(S) /\ NullFirst(w)
    BY <1>1
  <2>4. begins(m) \in BOOLEAN
    OBVIOUS
  <2>. HIDE DEF begins
  <2>. QED  BY <1>6, <2>2, <2>3, <2>4, VisitsWithin
<1>7. bad = {}
  <2>. SUFFICES ASSUME bad # {} PROVE FALSE
    OBVIOUS
  <2>1. bad \in SUBSET Nat
    BY <1>1
  <2>. HIDE DEF bad
  <2>2. PICK k \in bad : \A j \in bad : k <= j
    BY <2>1, Least
  <2>. USE DEF bad
  <2>3. k \in 0..(N - 1) /\ ~(f[N + 1 - k] \subseteq Seq(S0))
    BY <2>2
  <2>4. k # 0
    <3>1. N + 1 - 0 = N + 1
      BY <1>1
    <3>. QED  BY <1>5, <2>3, <3>1
  <2>5. /\ k - 1 \in 0..(N - 1) /\ ~(k <= k - 1) /\ (N + 1 - k) + 1 = N + 1 - (k - 1)
        /\ N + 1 - k \in 1..N /\ N + 1 - k # 1
    BY <1>1, <2>3, <2>4
  <2>6. f[N + 1 - (k - 1)] \subseteq Seq(S0)
    BY <2>2, <2>5
  <2>7. ~begins(N + 1 - k)
    BY <2>5
  <2>. HIDE DEF begins
  <2>. QED  BY <1>6, <2>3, <2>5, <2>6, <2>7
<1>8. CASE N = 0
  <2>1. N + 1 = 1
    BY <1>8
  <2>2. v = << >>
    BY <1>3, <1>5, <2>1
  <2>. QED  BY <1>5, <2>2
<1>9. CASE N # 0
  <2>1. N - 1 \in 0..(N - 1) /\ N + 1 - (N - 1) = 1 + 1 /\ 1 \in 1..N
    BY <1>1, <1>9
  <2>2. f[1 + 1] \subseteq Seq(S0)
    BY <1>7, <2>1
  <2>3. v \in Seq(S) /\ NullFirst(v) /\ (~begins(1) => v \in Seq(S0))
    <3>. HIDE DEF begins
    <3>. QED  BY <1>3, <1>6, <2>1, <2>2
  <2>. QED  BY <2>3
<1>. QED  BY <1>8, <1>9

\* The first visit is not skipped.
LEMMA FirstVisitFirst ==
    ASSUME NEW S, NEW w \in Seq(S), w # << >>
    PROVE  FirstVisits(w)[1] = w[1]
<1>. DEFINE fresh == {i \in DOMAIN w : \A j \in 1..(i - 1) : w[j] # w[i]}
            upTo(i) == {j \in fresh : j <= i}
            first == CHOOSE i \in fresh : Cardinality(upTo(i)) = 1
<1>1. DOMAIN w = 1..Len(w) /\ Len(w) \in Nat /\ fresh \in SUBSET (1..Len(w)) /\ 1 \in fresh
  OBVIOUS
<1>. HIDE DEF fresh
<1>2. IsFiniteSet(fresh)
  <2>1. IsFiniteSet(1..Len(w))
    BY <1>1, UpToCount
  <2>. QED  BY <1>1, <2>1, FS_Subset
<1>3. 1 \in 1..Cardinality(fresh)
  <2>1. Cardinality(fresh) \in Nat /\ Cardinality(fresh) # 0
    BY <1>1, <1>2, FS_CardinalityType, FS_EmptySet
  <2>. QED  BY <2>1
<1>4. upTo(1) = {1}
  <2>1. \A j \in fresh : j <= 1 <=> j = 1
    BY <1>1
  <2>. QED  BY <1>1, <2>1
<1>5. first \in fresh /\ Cardinality(upTo(first)) = 1
  <2>1. Cardinality({1}) = 1
    BY FS_Singleton
  <2>2. 1 \in fresh /\ Cardinality(upTo(1)) = 1
    BY <1>1, <1>4, <2>1
  <2>. HIDE DEF upTo
  <2>. QED  BY <2>2
<1>6. FirstVisits(w)[1] = w[first]
  BY <1>3 DEF FirstVisits, fresh
<1>. HIDE DEF first
<1>7. upTo(first) \in SUBSET fresh /\ 1 \in upTo(first) /\ first \in upTo(first)
  BY <1>1, <1>5
<1>8. \E i : upTo(first) = {i}
  <2>. HIDE DEF upTo
  <2>1. IsFiniteSet(upTo(first))
    BY <1>2, <1>7, FS_Subset
  <2>. QED  BY <1>5, <2>1, FS_Singleton
<1>9. first = 1
  <2>. HIDE DEF upTo
  <2>. QED  BY <1>7, <1>8
<1>. QED  BY <1>6, <1>9

\* A loop over an OrderedSet stays in its list.
LEMMA ListWalkWithin ==
    ASSUME NEW u \in Ordered, order[u] \in Seq(Elems)
    PROVE  ListWalk(u) \in Seq(Entries(order[u]))
<1>. DEFINE q == order[u]
            last == {i \in DOMAIN q : q[i] = q[Len(q)]}
            end == IF q = << >> THEN 0 ELSE CHOOSE i \in last : \A j \in last : i <= j
<1>1. ListWalk(u) = SubSeq(q, 1, end) /\ q \in Seq(Elems)
  BY DEF ListWalk
<1>. HIDE DEF q
<1>2. end \in 0..Len(q)
  <2>1. CASE q = << >>
    BY <1>1, <2>1
  <2>2. CASE q # << >>
    <3>1. last \in SUBSET Nat /\ Len(q) \in last /\ \A i \in last : i \in 1..Len(q)
      BY <1>1, <2>2
    <3>. HIDE DEF last
    <3>2. \E i \in last : \A j \in last : i <= j
      BY <3>1, Least
    <3>3. (CHOOSE i \in last : \A j \in last : i <= j) \in last
      BY <3>2
    <3>4. end \in last
      BY <2>2, <3>3
    <3>. HIDE DEF end
    <3>5. end \in 1..Len(q)
      BY <3>1, <3>4
    <3>6. Len(q) \in Nat
      BY <1>1
    <3>. QED  BY <3>5, <3>6
  <2>. QED  BY <2>1, <2>2
<1>. HIDE DEF end
<1>3. DOMAIN q = 1..Len(q) /\ Len(q) \in Nat
  BY <1>1
<1>4. \A i \in 1..end : q[i] \in Entries(q)
  BY <1>2, <1>3 DEF Entries
<1>5. SubSeq(q, 1, end) \in Seq(Entries(q))
  <2>1. 1 \in Int /\ end \in Int
    BY <1>2, <1>3
  <2>. QED  BY <1>4, <2>1, SubSeqProperties
<1>. QED  BY <1>1, <1>5 DEF q

\* What a loop over a subset may visit, one over the set may.
LEMMA MayVisitBelow ==
    ASSUME NEW s \in Sets, NEW t \in Sets, s \in Closure[t]
    PROVE  MayVisit(t) \subseteq MayVisit(s)
<1>1. \A u \in Sets : t \in Closure[u] => s \in Closure[u]
  BY ClosureFacts
<1>2. Members(t) \subseteq Members(s)
  BY <1>1 DEF Members
<1>3. \A u \in Ordered : t \in Closure[u] => s \in Closure[u]
  BY <1>1, OrderedAssumption
<1>. QED  BY <1>2, <1>3 DEF MayVisit

\* One loop, from those over the sets that are marked.
LEMMA LoopWithin ==
    ASSUME CoverInv, MarkInv, NEW s \in Sets, NEW ws,
           \A t \in marks[s] : \A r \in ws[t] : r \in Seq(MayVisit(t)) /\ NullFirst(r),
           NEW w \in LoopOver(s, ws)
    PROVE  /\ w \in Seq(MayVisit(s))
           /\ s \notin Ordered => data[s] \subseteq Entries(w) /\ Len(w) = Cardinality(Entries(w))
           /\ NoElems \cap Entries(w) # {} => s \notin Ordered /\ data[s] = {}
           /\ NullFirst(w)
<1>. DEFINE S == MayVisit(s)
<1>1. /\ marks[s] \in SUBSET Sets /\ data[s] \in SUBSET Elems
      /\ \A t \in marks[s] : s \in Closure[t]
  BY DEF CoverInv, SizeInv, IntTypeOK, MarkInv
<1>2. CASE s \in Ordered
  <2>1. w = ListWalk(s) /\ order[s] \in Seq(Elems)
    BY <1>2 DEF LoopOver, CoverInv, ListsTyped
  <2>2. Entries(order[s]) \subseteq S /\ Entries(order[s]) \subseteq Elems
    BY <1>2, <2>1, ClosureFacts DEF MayVisit, Entries
  <2>3. ListWalk(s) \in Seq(Entries(order[s]))
    BY <1>2, <2>1, ListWalkWithin
  <2>. HIDE DEF S
  <2>4. ListWalk(s) \in Seq(S) /\ ListWalk(s) \in Seq(Elems)
    BY <2>2, <2>3
  <2>5. NoElems \cap Entries(w) = {}
    BY <2>1, <2>4, OrderedAssumption DEF Entries, NoElems
  <2>. QED  BY <1>2, <2>1, <2>4, <2>5 DEF S, NullFirst, NoElems
<1>3. CASE s \notin Ordered
  <2>0. PICK p \in Seqs!SetToSeqs(marks[s]) :
          w \in {FirstVisits(own \o v) : own \in Seqs!SetToSeqs(data[s]), v \in Runs(s, p, ws)}
    BY <1>3 DEF LoopOver
  <2>1. PICK own \in Seqs!SetToSeqs(data[s]), v \in Runs(s, p, ws) : w = FirstVisits(own \o v)
    BY <2>0
  <2>2. IsFiniteSet(marks[s]) /\ IsFiniteSet(data[s])
    BY <1>1, SetsAssumption, FS_Subset
  <2>3. Lists(p, marks[s]) /\ Lists(own, data[s])
    BY <2>2, SetToSeqsList
  <2>4. p \in Seq(Sets) /\ \A n \in DOMAIN p : p[n] \in marks[s]
    BY <1>1, <2>3 DEF Lists
  <2>5. data[s] \subseteq S /\ NoElems \subseteq S
    <3>1. data[s] \subseteq Members(s)
      BY <1>1, ClosureFacts DEF Members
    <3>. QED  BY <3>1 DEF MayVisit
  <2>6. \A n \in DOMAIN p : \A r \in ws[p[n]] : r \in Seq(S) /\ NullFirst(r)
    <3>. SUFFICES ASSUME NEW n \in DOMAIN p, NEW r \in ws[p[n]] PROVE r \in Seq(S) /\ NullFirst(r)
      OBVIOUS
    <3>. DEFINE T == MayVisit(p[n])
    <3>1. p[n] \in marks[s] /\ r \in Seq(T) /\ NullFirst(r)
      BY <2>4
    <3>2. T \subseteq S
      BY <1>1, <3>1, MayVisitBelow
    <3>. HIDE DEF S, T
    <3>. QED  BY <3>1, <3>2
  <2>. HIDE DEF S
  <2>7. v \in Seq(S) /\ NullFirst(v) /\ (data[s] # {} => v \in Seq(S \ NoElems))
    BY <2>4, <2>5, <2>6, RunsWithin
  <2>8. own \in Seq(S) /\ Entries(own) = data[s]
    BY <2>3, <2>5 DEF Lists
  <2>9. own \o v \in Seq(S) /\ Entries(own \o v) = data[s] \cup Entries(v)
    BY <2>7, <2>8, EntriesConcat
  <2>10. Lists(w, Entries(own \o v))
    BY <2>1, <2>9, FirstVisitsList
  <2>11. Entries(own \o v) \subseteq S
    BY <2>9 DEF Entries
  <2>12. w \in Seq(S)
    BY <2>10, <2>11 DEF Lists
  <2>13. ASSUME NoElems \cap Entries(w) # {}
         PROVE  data[s] = {} /\ w = FirstVisits(v) /\ v # << >> /\ w[1] = NullElem
    <3>1. NoElems \cap Entries(v) # {}
      BY <1>1, <2>9, <2>10, <2>13, OrderedAssumption DEF Lists, NoElems
    <3>2. data[s] = {}
      BY <2>7, <3>1 DEF Entries
    <3>3. own = << >>
      BY <2>3, <3>2, FS_EmptySet DEF Lists
    <3>4. w = FirstVisits(v)
      <4>1. own \o v = v
        BY <2>7, <3>3, ConcatEmptySeq
      <4>. QED  BY <2>1, <4>1
    <3>5. v # << >>
      BY <3>1 DEF Entries
    <3>6. w[1] = v[1] /\ v[1] = NullElem
      BY <2>7, <3>1, <3>4, <3>5, FirstVisitFirst DEF NullFirst
    <3>. QED  BY <3>2, <3>4, <3>5, <3>6
  <2>14. ASSUME Broken \in Entries(w) PROVE w = <<NullElem, Broken>>
    <3>1. w = FirstVisits(v) /\ w[1] = NullElem
      BY <2>13, <2>14 DEF NoElems
    <3>2. Lists(w, Entries(v))
      BY <2>7, <3>1, FirstVisitsList
    <3>3. v = <<NullElem, Broken>>
      BY <2>7, <2>14, <3>2 DEF Lists, NullFirst
    <3>4. Entries(v) = {NullElem, Broken}
      BY <3>3 DEF Entries
    <3>5. Cardinality({NullElem, Broken}) = 2
      <4>1. IsFiniteSet({NullElem}) /\ Cardinality({NullElem}) = 1 /\ Broken \notin {NullElem}
        BY OrderedAssumption, FS_Singleton
      <4>2. Cardinality({NullElem} \cup {Broken}) = 1 + 1
        BY <4>1, FS_AddElement
      <4>3. {NullElem} \cup {Broken} = {NullElem, Broken}
        OBVIOUS
      <4>4. Cardinality({NullElem, Broken}) = 1 + 1
        BY ONLY <4>2, <4>3, Zenon
      <4>. QED  BY ONLY <4>4, SMT
    <3>6. w \in Seq({NullElem, Broken}) /\ Len(w) = 2
      BY <3>2, <3>4, <3>5 DEF Lists
    <3>7. w[2] = Broken
      BY <2>14, <3>1, <3>6, OrderedAssumption DEF Entries
    <3>. QED  BY <3>1, <3>6, <3>7
  <2>. QED  BY <1>3, <2>9, <2>10, <2>12, <2>13, <2>14 DEF S, Lists, NullFirst
<1>. QED  BY <1>2, <1>3

LEMMA WalksWithin ==
    ASSUME CoverInv, MarkInv, NEW s \in Sets
    PROVE  \A w \in Walks[s] : w \in Seq(MayVisit(s)) /\ NullFirst(w)
<1>. DEFINE Within(t) == \A w \in Walks[t] : w \in Seq(MayVisit(t)) /\ NullFirst(w)
            bad == {n \in Nat : \E t \in Sets : ~Within(t) /\ Height(t) = n}
<1>1. \A t \in Sets : Walks[t] = LoopOver(t, Walks)
  BY WalksExist
<1>2. bad = {}
  <2>. SUFFICES ASSUME bad # {} PROVE FALSE
    OBVIOUS
  <2>1. bad \in SUBSET Nat
    OBVIOUS
  <2>. HIDE DEF bad
  <2>2. PICK n \in bad : \A m \in bad : n <= m
    BY <2>1, Least
  <2>. USE DEF bad
  <2>3. PICK t \in Sets : ~Within(t) /\ Height(t) = n
    BY <2>2
  <2>4. ASSUME NEW u \in marks[t] PROVE Within(u)
    <3>1. u \in Sets /\ Height(u) \in Nat /\ Height(u) < n /\ n \in Nat
      BY <2>1, <2>2, <2>3, MarksDescend
    <3>2. Height(u) \notin bad
      BY <2>2, <3>1
    <3>. QED  BY <3>1, <3>2
  <2>5. \A w \in Walks[t] : w \in Seq(MayVisit(t)) /\ NullFirst(w)
    BY <1>1, <2>4, LoopWithin
  <2>. QED  BY <2>3, <2>5
<1>3. Height(s) \in Nat
  BY HeightType
<1>. QED  BY <1>2, <1>3

\* Whatever the client adds, moves, has refused and removes, the iterators of set.h:34-94
\* and orderedSet.h:82-129 stay in the set and below it.  An entry that should have gone
\* makes a loop meet an element that its set has lost.  A mark that should have gone makes
\* a loop over a Set without data begin with a null element, which is followed by an
\* increment past the end or by the other marked sets; met later it ends the loop.
THEOREM LoopsStay == OrderedFairSpec => []LoopsBounded
<1>1. ASSUME CoverInv, MarkInv PROVE LoopsBounded
  <2>. SUFFICES ASSUME NEW s \in Sets, NEW w \in Walks[s]
                PROVE  /\ Entries(w) \subseteq MayVisit(s)
                       /\ s \notin Ordered =>
                            data[s] \subseteq Entries(w) /\ Len(w) = Cardinality(Entries(w))
                       /\ NoElems \cap Entries(w) # {} => s \notin Ordered /\ data[s] = {}
                       /\ NullFirst(w)
    BY DEF LoopsBounded
  <2>1. w \in LoopOver(s, Walks)
    BY <1>1, WalksExist
  <2>2. \A t \in marks[s] : \A r \in Walks[t] : r \in Seq(MayVisit(t)) /\ NullFirst(r)
    <3>1. marks[s] \subseteq Sets
      BY <1>1 DEF MarkInv
    <3>. QED  BY <1>1, <3>1, WalksWithin
  <2>3. /\ w \in Seq(MayVisit(s))
        /\ s \notin Ordered => data[s] \subseteq Entries(w) /\ Len(w) = Cardinality(Entries(w))
        /\ NoElems \cap Entries(w) # {} => s \notin Ordered /\ data[s] = {}
        /\ NullFirst(w)
    BY <1>1, <2>1, <2>2, LoopWithin
  <2>4. Entries(w) \subseteq MayVisit(s)
    BY <2>3 DEF Entries
  <2>. QED  BY <2>3, <2>4
<1>2. CoverInv /\ MarkInv => LoopsBounded
  BY <1>1
<1>. QED  BY CoverInvariant, MarkInvariant, <1>2, PTL

=============================================================================
