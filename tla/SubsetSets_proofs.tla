--------------------------- MODULE SubsetSets_proofs ---------------------------
(***************************************************************************)
(* Theorems about SubsetSets, for every superset graph and every finite    *)
(* set of elements: first for every client, then for one that adds where   *)
(* the marks stay exact.                                                   *)
(***************************************************************************)
EXTENDS SubsetSets, FiniteSetTheorems, TLAPS

-----------------------------------------------------------------------------
(* Searches *)

\* A search visits the sets it starts from.
LEMMA ReachStart ==
    ASSUME NEW S, NEW next, NEW t \in S \cap Sets
    PROVE  t \in Reach(S, next)
BY DEF Reach

\* A search that visits t visits the sets next to t.
LEMMA ReachStep ==
    ASSUME NEW S, NEW next, NEW t \in Reach(S, next), NEW u \in next[t] \cap Sets
    PROVE  u \in Reach(S, next)
BY DEF Reach

\* A search stays in every closed set that it starts in.
LEMMA ReachLeast ==
    ASSUME NEW S, NEW next, NEW C \in SUBSET Sets,
           S \subseteq C, \A u \in C : next[u] \subseteq C
    PROVE  Reach(S, next) \subseteq C
BY DEF Reach

\* The closure of a set is a set of sets, holds the set and is transitive.
LEMMA ClosureFacts ==
    /\ \A s \in Sets : Closure[s] \subseteq Sets /\ s \in Closure[s]
    /\ \A s \in Sets : \A t \in Closure[s] : Closure[t] \subseteq Closure[s]
<1>1. \A s \in Sets : Closure[s] = Reach({s}, Supers)
  BY DEF Closure
<1>2. \A s \in Sets : Closure[s] \subseteq Sets /\ s \in Closure[s]
  <2>. TAKE s \in Sets
  <2>1. Closure[s] \subseteq Sets
    BY <1>1 DEF Reach
  <2>2. s \in {s} \cap Sets
    OBVIOUS
  <2>3. s \in Reach({s}, Supers)
    BY <2>2, ReachStart
  <2>4. s \in Closure[s]
    BY <1>1, <2>3
  <2>. QED  BY <2>1, <2>4
<1>3. ASSUME NEW s \in Sets, NEW t \in Closure[s]
      PROVE  Closure[t] \subseteq Closure[s]
  <2>1. \A u \in Closure[s] : Supers[u] \subseteq Closure[s]
    <3>. SUFFICES ASSUME NEW u \in Closure[s], NEW v \in Supers[u]
                  PROVE  v \in Closure[s]
      OBVIOUS
    <3>1. u \in Reach({s}, Supers) /\ v \in Supers[u] \cap Sets
      BY <1>1, <1>2, SupersAssumption
    <3>2. v \in Reach({s}, Supers)
      BY <3>1, ReachStep
    <3>. QED  BY <3>2, <1>1
  <2>2. t \in Sets /\ {t} \subseteq Closure[s] /\ Closure[s] \in SUBSET Sets
    BY <1>2
  <2>3. Reach({t}, Supers) \subseteq Closure[s]
    BY <2>1, <2>2, ReachLeast
  <2>. QED  BY <1>1, <2>2, <2>3
<1>. QED  BY <1>2, <1>3

\* The proper supersets of s are what a search from its direct supersets visits.
LEMMA ProperClosure ==
    ASSUME NEW s \in Sets
    PROVE  Closure[s] \ {s} = Reach(Supers[s], Supers)
<1>. DEFINE R == Reach(Supers[s], Supers)
<1>1. Closure[s] = Reach({s}, Supers) /\ s \in Closure[s] /\ Closure[s] \subseteq Sets
  BY ClosureFacts DEF Closure
<1>2. R \subseteq Sets /\ s \notin R /\ Supers[s] \subseteq Sets
  BY AcyclicAssumption, SupersAssumption DEF Reach
<1>3. Supers[s] \subseteq R
  BY <1>2, ReachStart
<1>4. \A u \in R : Supers[u] \subseteq R
  <2>. SUFFICES ASSUME NEW u \in R, NEW v \in Supers[u] PROVE v \in R
    OBVIOUS
  <2>1. v \in Supers[u] \cap Sets
    BY <1>2, SupersAssumption
  <2>. QED  BY <2>1, ReachStep
<1>5. Closure[s] \subseteq R \cup {s}
  <2>. DEFINE C == R \cup {s}
  <2>1. C \in SUBSET Sets /\ {s} \subseteq C
    BY <1>2
  <2>2. \A u \in C : Supers[u] \subseteq C
    BY <1>3, <1>4
  <2>3. Reach({s}, Supers) \subseteq C
    <3>. HIDE DEF C
    <3>. QED  BY <2>1, <2>2, ReachLeast
  <2>. QED  BY <1>1, <2>3
<1>6. R \subseteq Closure[s]
  <2>1. \A u \in Closure[s] : Supers[u] \subseteq Closure[s]
    <3>. SUFFICES ASSUME NEW u \in Closure[s], NEW v \in Supers[u] PROVE v \in Closure[s]
      OBVIOUS
    <3>1. u \in Reach({s}, Supers) /\ v \in Supers[u] \cap Sets
      BY <1>1, SupersAssumption
    <3>2. v \in Reach({s}, Supers)
      BY <3>1, ReachStep
    <3>. QED  BY <1>1, <3>2
  <2>2. Supers[s] \subseteq Closure[s] /\ Closure[s] \in SUBSET Sets
    BY <1>1, <2>1
  <2>. QED  BY <2>1, <2>2, ReachLeast
<1>. QED  BY <1>1, <1>2, <1>5, <1>6

-----------------------------------------------------------------------------
(* Counting *)

LEMMA HoldingsFinite ==
    ASSUME NEW s \in Sets
    PROVE  /\ IsFiniteSet(Holdings(s))
           /\ Cardinality(Holdings(s)) \in Nat
<1>1. IsFiniteSet(Sets \X Elems)
  BY SetsAssumption, FS_Product
<1>2. Holdings(s) \in SUBSET (Sets \X Elems)
  BY DEF Holdings
<1>. QED  BY <1>1, <1>2, FS_Subset, FS_CardinalityType

\* Pairing the sets of K with x loses none of them.
LEMMA PairsCount ==
    ASSUME NEW K \in SUBSET Sets, NEW x
    PROVE  /\ IsFiniteSet({<<t, x>> : t \in K})
           /\ Cardinality({<<t, x>> : t \in K}) = Cardinality(K)
           /\ Cardinality(K) \in Nat
<1>. DEFINE f == [t \in K |-> <<t, x>>]
            T == {<<t, x>> : t \in K}
<1>1. IsFiniteSet(K)
  BY SetsAssumption, FS_Subset
<1>2. f \in Bijection(K, T)
  BY DEF Bijection, Injection, Surjection, IsInjective
<1>3. ExistsBijection(K, T)
  BY <1>2 DEF ExistsBijection
<1>. QED  BY <1>1, <1>3, FS_Bijection, FS_CardinalityType

-----------------------------------------------------------------------------
(* Types, and the counting invariant behind m_size *)

\* TypeOK with integer sizes: what an inductive step can show without counting.
IntTypeOK ==
    /\ data \in [Sets -> SUBSET Elems]
    /\ marks \in [Sets -> SUBSET Sets]
    /\ size \in [Sets -> Int]
    /\ refs \in [Elems -> SUBSET Sets]
    /\ clearing \in Sets \cup {NoSet}

\* Movers are sets that hold the element; found sets too.
LEMMA HoldersTyped ==
    ASSUME NEW s \in Sets, NEW x \in Elems
    PROVE  /\ Movers(s, x) \in SUBSET Sets
           /\ \A t \in Movers(s, x) : t \in Closure[s] /\ t # s /\ x \in data[t]
           /\ Found(s, x) \in SUBSET Sets
           /\ \A t \in Found(s, x) : x \in data[t]
<1>1. Closure[s] \subseteq Sets
  BY ClosureFacts
<1>2. Reach({s}, Descent(x)) \subseteq Sets
  BY DEF Reach
<1>. QED  BY <1>1, <1>2 DEF Movers, Found

\* The occurrences of x in the sets of H that u counts.
CountedIn(H, x, u) == {<<t, x>> : t \in {v \in H : u \in Closure[v]}}

\* Taking x out of the sets of H takes one holding away for each of them.
LEMMA HoldingsWithout ==
    ASSUME IntTypeOK, NEW s \in Sets, NEW x \in Elems, NEW H \in SUBSET Sets,
           \A t \in H : x \in data[t]
    PROVE  LET K == {t \in H : s \in Closure[t]}
               P == CountedIn(H, x, s)
           IN  /\ IsFiniteSet(Holdings(s) \ P)
               /\ Cardinality(Holdings(s) \ P) = Cardinality(Holdings(s)) - Cardinality(K)
               /\ Cardinality(K) \in Nat
<1>. DEFINE K == {t \in H : s \in Closure[t]}
            P == CountedIn(H, x, s)
<1>1. K \in SUBSET Sets
  OBVIOUS
<1>2. Cardinality(P) = Cardinality(K) /\ Cardinality(K) \in Nat
  BY <1>1, PairsCount DEF CountedIn
<1>3. P \subseteq Holdings(s)
  BY DEF Holdings, CountedIn
<1>4. Holdings(s) \cap P = P
  BY <1>3
<1>5. IsFiniteSet(Holdings(s))
  BY HoldingsFinite
<1>6. /\ IsFiniteSet(Holdings(s) \ P)
      /\ Cardinality(Holdings(s) \ P) = Cardinality(Holdings(s)) - Cardinality(Holdings(s) \cap P)
  BY <1>5, FS_Difference
<1>. QED  BY <1>2, <1>4, <1>6

\* Moving x out of the supersets of s takes as much from a size as from what the set
\* and its subsets hold.
LEMMA MoveCounts ==
    ASSUME IntTypeOK, NEW s \in Sets, NEW x \in Elems, NEW u \in Sets
    PROVE  LET H == Movers(s, x)
               R == Holdings(u) \ CountedIn(H, x, u)
           IN  /\ IsFiniteSet(R)
               /\ Cardinality(R) \in Nat
               /\ SizeMoved(H)[u] \in Int
               /\ SizeMoved(H)[u] - Cardinality(R) = size[u] - Cardinality(Holdings(u))
<1>. DEFINE H == Movers(s, x)
            K == {v \in H : u \in Closure[v]}
            P == CountedIn(H, x, u)
<1>1. H \in SUBSET Sets /\ \A t \in H : x \in data[t]
  BY HoldersTyped
<1>2. /\ IsFiniteSet(Holdings(u) \ P)
      /\ Cardinality(Holdings(u) \ P) = Cardinality(Holdings(u)) - Cardinality(K)
      /\ Cardinality(K) \in Nat
  BY <1>1, HoldingsWithout
<1>3. SizeMoved(H)[u] = size[u] - Cardinality(K)
  BY DEF SizeMoved
<1>4. size[u] \in Int /\ Cardinality(Holdings(u)) \in Nat
  BY HoldingsFinite DEF IntTypeOK
<1>5. Cardinality(Holdings(u) \ P) \in Nat
  BY <1>2, FS_CardinalityType
<1>. QED  BY <1>2, <1>3, <1>4, <1>5

\* The types after taking x out of the sets of H.
LEMMA WithoutTyped ==
    ASSUME IntTypeOK, NEW H \in SUBSET Sets, NEW x \in Elems, NEW o
    PROVE  /\ DataWithout(H, x) \in [Sets -> SUBSET Elems]
           /\ MarksWithout(H, o, x) \in [Sets -> SUBSET Sets]
BY DEF IntTypeOK, DataWithout, MarksWithout

\* Holdings once x has left the sets of H.
LEMMA HoldingsAfterDrop ==
    ASSUME IntTypeOK, NEW H \in SUBSET Sets, NEW x \in Elems, NEW u \in Sets,
           data' = DataWithout(H, x)
    PROVE  Holdings(u)' = Holdings(u) \ CountedIn(H, x, u)
<1>1. ASSUME NEW h \in Sets \X Elems
      PROVE  h[2] \in data'[h[1]] <=> h[2] \in data[h[1]] /\ ~(h[1] \in H /\ h[2] = x)
  BY <1>1 DEF DataWithout, IntTypeOK
<1>2. ASSUME NEW h \in Sets \X Elems, u \in Closure[h[1]]
      PROVE  h \in CountedIn(H, x, u) <=> h[1] \in H /\ h[2] = x
  BY <1>2 DEF CountedIn
<1>. QED  BY <1>1, <1>2 DEF Holdings

\* Holdings once x has left the sets of H and joined s.
LEMMA HoldingsAfterAdd ==
    ASSUME IntTypeOK, NEW H \in SUBSET Sets, NEW x \in Elems, NEW u \in Sets,
           NEW s \in Sets, s \notin H,
           data' = [DataWithout(H, x) EXCEPT ![s] = @ \cup {x}]
    PROVE  Holdings(u)' = (Holdings(u) \ CountedIn(H, x, u))
                            \cup (IF u \in Closure[s] THEN {<<s, x>>} ELSE {})
<1>1. ASSUME NEW h \in Sets \X Elems
      PROVE  h[2] \in data'[h[1]] <=> \/ h[2] \in data[h[1]] /\ ~(h[1] \in H /\ h[2] = x)
                                      \/ h = <<s, x>>
  BY <1>1 DEF DataWithout, IntTypeOK
<1>2. ASSUME NEW h \in Sets \X Elems, u \in Closure[h[1]]
      PROVE  h \in CountedIn(H, x, u) <=> h[1] \in H /\ h[2] = x
  BY <1>2 DEF CountedIn
<1>3. <<s, x>> \in Sets \X Elems /\ <<s, x>>[1] = s
  OBVIOUS
<1>. QED  BY <1>1, <1>2, <1>3 DEF Holdings

-----------------------------------------------------------------------------
(* One step lemma for each way the sets change *)

SizeInv == IntTypeOK /\ SizeCoversHoldings

LEMMA AddKeepsSizeInv ==
    ASSUME SizeInv, NEW s \in AddSets, NEW x \in Elems, Add(s, x)
    PROVE  SizeInv'
<1>. DEFINE H == Movers(s, x)
<1>0. s \in Sets /\ H \in SUBSET Sets /\ s \notin H
  BY ClientAssumption, HoldersTyped
<1>. USE DEF SizeInv
<1>1. PICK o \in FindOrders(H, {s}, Supers) :
        /\ data' = [DataWithout(H, x) EXCEPT ![s] = @ \cup {x}]
        /\ marks' = [u \in Sets |-> IF u \in MarkedAbove(s, DataWithout(H, x))
                                      THEN MarksWithout(H, o, x)[u] \cup {s}
                                      ELSE MarksWithout(H, o, x)[u]]
        /\ size' = [u \in Sets |-> SizeMoved(H)[u] + IF u \in Closure[s] THEN 1 ELSE 0]
  BY DEF Add
<1>2. /\ DataWithout(H, x) \in [Sets -> SUBSET Elems]
      /\ MarksWithout(H, o, x) \in [Sets -> SUBSET Sets]
  BY <1>0, WithoutTyped
<1>3. ASSUME NEW u \in Sets
      PROVE  size'[u] \in Int /\ size'[u] >= Cardinality(Holdings(u)')
  <2>. DEFINE R == Holdings(u) \ CountedIn(H, x, u)
  <2>1. /\ IsFiniteSet(R)
        /\ Cardinality(R) \in Nat
        /\ SizeMoved(H)[u] \in Int
        /\ SizeMoved(H)[u] - Cardinality(R) = size[u] - Cardinality(Holdings(u))
    BY <1>0, MoveCounts
  <2>2. Holdings(u)' = R \cup (IF u \in Closure[s] THEN {<<s, x>>} ELSE {})
    BY <1>0, <1>1, HoldingsAfterAdd
  <2>3. size'[u] = SizeMoved(H)[u] + IF u \in Closure[s] THEN 1 ELSE 0
    BY <1>1
  <2>4. SizeMoved(H)[u] >= Cardinality(R)
    BY <2>1, HoldingsFinite DEF IntTypeOK, SizeCoversHoldings
  <2>5. CASE u \in Closure[s]
    <3>1. Holdings(u)' = R \cup {<<s, x>>}
      BY <2>2, <2>5
    <3>2. Cardinality(R \cup {<<s, x>>}) = IF <<s, x>> \in R THEN Cardinality(R) ELSE Cardinality(R) + 1
      BY <2>1, FS_AddElement
    <3>. QED  BY <2>1, <2>3, <2>4, <2>5, <3>1, <3>2
  <2>6. CASE u \notin Closure[s]
    <3>1. Holdings(u)' = R
      BY <2>2, <2>6
    <3>. QED  BY <2>1, <2>3, <2>4, <2>6, <3>1
  <2>. QED  BY <2>5, <2>6
<1>4. size' \in [Sets -> Int]
  <2>1. \A u \in Sets : SizeMoved(H)[u] + (IF u \in Closure[s] THEN 1 ELSE 0) \in Int
    BY <1>1, <1>3
  <2>. QED  BY <1>1, <2>1
<1>5. data' \in [Sets -> SUBSET Elems] /\ marks' \in [Sets -> SUBSET Sets]
  BY <1>0, <1>1, <1>2
<1>6. refs' \in [Elems -> SUBSET Sets] /\ clearing' \in Sets \cup {NoSet}
  BY <1>0 DEF Add, IntTypeOK
<1>. QED  BY <1>3, <1>4, <1>5, <1>6 DEF IntTypeOK, SizeCoversHoldings

LEMMA AddThrowsKeepsSizeInv ==
    ASSUME SizeInv, NEW s \in AddSets, NEW x \in Elems, AddThrows(s, x)
    PROVE  SizeInv'
<1>. DEFINE H == Movers(s, x)
<1>0. s \in Sets /\ H \in SUBSET Sets
  BY ClientAssumption, HoldersTyped
<1>. USE DEF SizeInv
<1>1. PICK o \in FindOrders(H, {s}, Supers) :
        /\ data' = DataWithout(H, x)
        /\ marks' = MarksWithout(H, o, x)
        /\ size' = SizeMoved(H)
  BY DEF AddThrows
<1>2. data' \in [Sets -> SUBSET Elems] /\ marks' \in [Sets -> SUBSET Sets]
  BY <1>0, <1>1, WithoutTyped
<1>3. ASSUME NEW u \in Sets
      PROVE  size'[u] \in Int /\ size'[u] >= Cardinality(Holdings(u)')
  <2>1. Holdings(u)' = Holdings(u) \ CountedIn(H, x, u)
    BY <1>0, <1>1, HoldingsAfterDrop
  <2>2. /\ SizeMoved(H)[u] \in Int
        /\ Cardinality(Holdings(u)') \in Nat
        /\ SizeMoved(H)[u] - Cardinality(Holdings(u)') = size[u] - Cardinality(Holdings(u))
    BY <1>0, <2>1, MoveCounts
  <2>. QED  BY <1>1, <2>2, HoldingsFinite DEF IntTypeOK, SizeCoversHoldings
<1>4. size' \in [Sets -> Int]
  <2>1. \A u \in Sets : SizeMoved(H)[u] \in Int
    BY <1>1, <1>3
  <2>. QED  BY <1>1, <2>1 DEF SizeMoved
<1>5. refs' \in [Elems -> SUBSET Sets] /\ clearing' \in Sets \cup {NoSet}
  BY DEF AddThrows, IntTypeOK
<1>. QED  BY <1>2, <1>3, <1>4, <1>5 DEF IntTypeOK, SizeCoversHoldings

LEMMA RemoveKeepsSizeInv ==
    ASSUME SizeInv, NEW s \in Sets, NEW x \in Elems, InnerRemove(s, x), UNCHANGED clearing
    PROVE  SizeInv'
<1>. DEFINE H == Found(s, x)
<1>0. H \in SUBSET Sets /\ \A t \in H : x \in data[t]
  BY HoldersTyped
<1>. USE DEF SizeInv
<1>1. PICK o \in FindOrders(H, {s}, Descent(x)), setwithEl \in H :
        /\ marks' = MarksWithout(H, o, x)
        /\ size' = [u \in Sets |-> size[u] - IF u \in Closure[setwithEl] THEN 1 ELSE 0]
  BY DEF InnerRemove
<1>2. data' = DataWithout(H, x)
  BY DEF InnerRemove
<1>3. data' \in [Sets -> SUBSET Elems] /\ marks' \in [Sets -> SUBSET Sets]
  BY <1>0, <1>1, <1>2, WithoutTyped
<1>4. size' \in [Sets -> Int]
  BY <1>1 DEF IntTypeOK
<1>5. ASSUME NEW u \in Sets
      PROVE  size'[u] >= Cardinality(Holdings(u)')
  <2>. DEFINE R == Holdings(u) \ CountedIn(H, x, u)
              K == {t \in H : u \in Closure[t]}
  <2>1. Holdings(u)' = R
    BY <1>0, <1>2, HoldingsAfterDrop
  <2>2. Cardinality(R) = Cardinality(Holdings(u)) - Cardinality(K) /\ Cardinality(K) \in Nat
    BY <1>0, HoldingsWithout
  <2>3. size[u] \in Int /\ size[u] >= Cardinality(Holdings(u)) /\ Cardinality(Holdings(u)) \in Nat
    BY HoldingsFinite DEF IntTypeOK, SizeCoversHoldings
  <2>4. CASE u \in Closure[setwithEl]
    <3>1. K # {} /\ IsFiniteSet(K)
      BY <1>0, <2>4, SetsAssumption, FS_Subset
    <3>2. Cardinality(K) # 0
      BY <3>1, FS_EmptySet
    <3>3. size'[u] = size[u] - 1
      BY <1>1, <2>4
    <3>. QED  BY <2>1, <2>2, <2>3, <3>2, <3>3
  <2>5. CASE u \notin Closure[setwithEl]
    <3>1. size'[u] = size[u]
      BY <1>1, <2>3, <2>5
    <3>. QED  BY <2>1, <2>2, <2>3, <3>1
  <2>. QED  BY <2>4, <2>5
<1>6. refs' \in [Elems -> SUBSET Sets] /\ clearing' \in Sets \cup {NoSet}
  BY DEF InnerRemove, ReferenceWithout, IntTypeOK
<1>. QED  BY <1>3, <1>4, <1>5, <1>6 DEF IntTypeOK, SizeCoversHoldings

LEMMA InitSizeInv == Init => SizeInv
<1>. SUFFICES ASSUME Init PROVE SizeInv
  OBVIOUS
<1>1. IntTypeOK
  BY DEF Init, IntTypeOK
<1>2. ASSUME NEW s \in Sets PROVE size[s] >= Cardinality(Holdings(s))
  <2>1. Holdings(s) = {}
    BY DEF Init, Holdings
  <2>. QED  BY <2>1, FS_EmptySet DEF Init
<1>. QED  BY <1>1, <1>2 DEF SizeInv, SizeCoversHoldings

LEMMA NextSizeInv == SizeInv /\ [Next]_vars => SizeInv'
<1>. SUFFICES ASSUME SizeInv, [Next]_vars PROVE SizeInv'
  OBVIOUS
<1>1. ASSUME NEW s \in AddSets, NEW x \in Elems, Add(s, x) PROVE SizeInv'
  BY <1>1, AddKeepsSizeInv
<1>2. ASSUME NEW s \in AddSets, NEW x \in Elems, AddThrows(s, x) PROVE SizeInv'
  BY <1>2, AddThrowsKeepsSizeInv
<1>3. ASSUME NEW s \in Sets, NEW x \in Elems, Remove(s, x) PROVE SizeInv'
  BY <1>3, RemoveKeepsSizeInv DEF Remove
<1>4. ASSUME NEW s \in Sets, ClearBegin(s) PROVE SizeInv'
  BY <1>4 DEF ClearBegin, SizeInv, IntTypeOK, SizeCoversHoldings, Holdings
<1>5. CASE ClearStep
  <2>1. PICK t \in FrontSets(clearing) : \E x \in data[t] : InnerRemove(clearing, x)
    BY <1>5 DEF ClearStep
  <2>2. t \in Sets /\ clearing \in Sets /\ data[t] \subseteq Elems
    BY <1>5 DEF ClearStep, SizeInv, IntTypeOK, FrontSets, Reach
  <2>. QED  BY <1>5, <2>1, <2>2, RemoveKeepsSizeInv DEF ClearStep
<1>6. CASE ClearEnd
  BY <1>6 DEF ClearEnd, SizeInv, IntTypeOK, SizeCoversHoldings, Holdings
<1>7. CASE UNCHANGED vars
  BY <1>7 DEF vars, SizeInv, IntTypeOK, SizeCoversHoldings, Holdings
<1>. QED  BY <1>1, <1>2, <1>3, <1>4, <1>5, <1>6, <1>7 DEF Next

\* m_size of every set counts at least what is stored in it and below it.
THEOREM SizeCovers == Spec => []SizeCoversHoldings
<1>1. SizeInv => SizeCoversHoldings
  BY DEF SizeInv
<1>. QED  BY InitSizeInv, NextSizeInv, <1>1, PTL DEF Spec

\* A size that counts what is stored is not negative.
LEMMA SizeInvTyped == SizeInv => TypeOK
<1>. SUFFICES ASSUME SizeInv PROVE TypeOK
  OBVIOUS
<1>1. \A s \in Sets : size[s] \in Nat
  BY HoldingsFinite DEF SizeInv, IntTypeOK, SizeCoversHoldings
<1>2. size \in [Sets -> Nat]
  BY <1>1 DEF SizeInv, IntTypeOK
<1>. QED  BY <1>2 DEF SizeInv, IntTypeOK, TypeOK

\* Every variable keeps its type; the unsigned m_size never wraps.
THEOREM TypeCorrect == Spec => []TypeOK
BY InitSizeInv, NextSizeInv, SizeInvTyped, PTL DEF Spec

-----------------------------------------------------------------------------
(* References *)

LEMMA InitReferences == Init => StoredIsReferenced
BY DEF Init, StoredIsReferenced

LEMMA RemoveKeepsReferences ==
    ASSUME IntTypeOK, StoredIsReferenced, NEW s \in Sets, NEW x \in Elems, InnerRemove(s, x)
    PROVE  StoredIsReferenced'
<1>. SUFFICES ASSUME NEW t \in Sets, NEW y \in Elems, y \in data'[t]
              PROVE  t \in refs'[y]
  <2>1. data' \in [Sets -> SUBSET Elems]
    BY HoldersTyped, WithoutTyped DEF InnerRemove
  <2>. QED  BY <2>1 DEF StoredIsReferenced
<1>1. data' = DataWithout(Found(s, x), x) /\ refs' = [refs EXCEPT ![x] = refs[x] \ {s}]
  BY DEF InnerRemove, ReferenceWithout
<1>2. y \in data[t] /\ t \in refs[y] /\ ~(y = x /\ t \in Found(s, x))
  BY <1>1 DEF DataWithout, StoredIsReferenced
<1>3. CASE y = x /\ t = s
  <2>1. s \in {s} \cap Sets
    OBVIOUS
  <2>2. s \in Found(s, x)
    BY <1>2, <1>3, <2>1, ReachStart DEF Found
  <2>. QED  BY <1>2, <1>3, <2>2
<1>4. CASE ~(y = x /\ t = s)
  BY <1>1, <1>2, <1>4 DEF IntTypeOK
<1>. QED  BY <1>3, <1>4

LEMMA NextReferences ==
    SizeInv /\ StoredIsReferenced /\ [Next]_vars => StoredIsReferenced'
<1>. SUFFICES ASSUME SizeInv, StoredIsReferenced, [Next]_vars PROVE StoredIsReferenced'
  OBVIOUS
<1>0. IntTypeOK
  BY DEF SizeInv
<1>1. ASSUME NEW s \in AddSets, NEW x \in Elems, Add(s, x) PROVE StoredIsReferenced'
  <2>1. s \in Sets /\ Movers(s, x) \in SUBSET Sets
    BY ClientAssumption, HoldersTyped
  <2>2. /\ data' = [DataWithout(Movers(s, x), x) EXCEPT ![s] = @ \cup {x}]
        /\ refs' = [refs EXCEPT ![x] = @ \cup {s}]
    BY <1>1 DEF Add
  <2>. QED  BY <1>0, <2>1, <2>2 DEF IntTypeOK, DataWithout, StoredIsReferenced
<1>2. ASSUME NEW s \in AddSets, NEW x \in Elems, AddThrows(s, x) PROVE StoredIsReferenced'
  <2>1. data' = DataWithout(Movers(s, x), x) /\ refs' = refs
    BY <1>2 DEF AddThrows
  <2>. QED  BY <1>0, <2>1 DEF IntTypeOK, DataWithout, StoredIsReferenced
<1>3. ASSUME NEW s \in Sets, NEW x \in Elems, Remove(s, x) PROVE StoredIsReferenced'
  BY <1>0, <1>3, RemoveKeepsReferences DEF Remove
<1>4. ASSUME NEW s \in Sets, ClearBegin(s) PROVE StoredIsReferenced'
  BY <1>4 DEF ClearBegin, StoredIsReferenced
<1>5. CASE ClearStep
  <2>1. PICK t \in FrontSets(clearing) : \E x \in data[t] : InnerRemove(clearing, x)
    BY <1>5 DEF ClearStep
  <2>2. t \in Sets /\ clearing \in Sets /\ data[t] \subseteq Elems
    BY <1>0, <1>5 DEF ClearStep, IntTypeOK, FrontSets, Reach
  <2>. QED  BY <1>0, <2>1, <2>2, RemoveKeepsReferences
<1>6. CASE ClearEnd
  BY <1>6 DEF ClearEnd, StoredIsReferenced
<1>7. CASE UNCHANGED vars
  BY <1>7 DEF vars, StoredIsReferenced
<1>. QED  BY <1>1, <1>2, <1>3, <1>4, <1>5, <1>6, <1>7 DEF Next

\* Whatever a set stores, the owner's node has a reference for that set, so that
\* removeReference always finds the entry that it dereferences.
THEOREM References == Spec => []StoredIsReferenced
BY InitSizeInv, NextSizeInv, InitReferences, NextReferences, PTL DEF Spec

-----------------------------------------------------------------------------
(* What the marks are good for, whatever the client does *)

\* A mark names a set that lies below, and the direct supersets of a set are marked
\* exactly while it has data: nonPolicyAdd (privateSet.h:198-219) and
\* nonOppositeRemoveHelper (lines 310-326) start their searches there.
MarkInv ==
    /\ \A u \in Sets : marks[u] \subseteq {t \in Sets : u \in Closure[t] \ {t}}
    /\ \A t \in Sets : \A u \in Supers[t] : t \in marks[u] <=> data[t] # {}

\* A mark is set or erased in proper supersets only, and in all the direct ones.
LEMMA MarkedAboveFacts ==
    ASSUME NEW s \in Sets, NEW d
    PROVE  /\ Supers[s] \subseteq MarkedAbove(s, d)
           /\ MarkedAbove(s, d) \subseteq Closure[s] \ {s}
<1>. DEFINE next == [u \in Sets |-> IF d[u] = {} THEN Supers[u] ELSE {}]
            R == Reach(Supers[s], Supers)
<1>1. Supers[s] \subseteq Sets /\ R \in SUBSET Sets
  BY SupersAssumption DEF Reach
<1>2. Supers[s] \subseteq Reach(Supers[s], next)
  <2>. HIDE DEF next
  <2>. QED  BY <1>1, ReachStart
<1>3. Supers[s] \subseteq R
  BY <1>1, ReachStart
<1>4. \A u \in R : next[u] \subseteq R
  <2>. SUFFICES ASSUME NEW u \in R, NEW v \in next[u] PROVE v \in R
    OBVIOUS
  <2>1. v \in Supers[u] \cap Sets
    BY <1>1, SupersAssumption
  <2>. QED  BY <2>1, ReachStep
<1>5. Reach(Supers[s], next) \subseteq R
  <2>. HIDE DEF next, R
  <2>. QED  BY <1>1, <1>3, <1>4, ReachLeast
<1>. QED  BY <1>2, <1>5, ProperClosure DEF MarkedAbove

\* Taking x out of sets that hold it keeps the marks right.
LEMMA DropKeepsMarks ==
    ASSUME IntTypeOK, MarkInv, NEW H \in SUBSET Sets, NEW x \in Elems, NEW o,
           \A t \in H : x \in data[t],
           data' = DataWithout(H, x), marks' = MarksWithout(H, o, x)
    PROVE  MarkInv'
<1>1. \A u \in Sets : marks'[u] \subseteq marks[u]
  BY DEF MarksWithout
<1>2. ASSUME NEW t \in Sets, NEW u \in Supers[t]
      PROVE  t \in marks'[u] <=> data'[t] # {}
  <2>1. u \in Sets /\ u \in MarkedAbove(t, DataUpTo(t, H, o, x))
    BY MarkedAboveFacts, SupersAssumption
  <2>2. t \in marks'[u] <=> t \in marks[u] /\ ~(t \in H /\ data[t] = {x})
    BY <2>1 DEF MarksWithout
  <2>3. data'[t] # {} <=> data[t] # {} /\ ~(t \in H /\ data[t] = {x})
    BY DEF DataWithout, IntTypeOK
  <2>. QED  BY <2>2, <2>3 DEF MarkInv
<1>. QED  BY <1>1, <1>2 DEF MarkInv

\* Storing x in a set and marking its supersets does.
LEMMA AddKeepsMarks ==
    ASSUME IntTypeOK, MarkInv, NEW s \in Sets, NEW x \in Elems, Add(s, x)
    PROVE  MarkInv'
<1>. DEFINE H == Movers(s, x)
            d == DataWithout(H, x)
<1>1. H \in SUBSET Sets /\ s \notin H /\ \A t \in H : x \in data[t]
  BY HoldersTyped DEF Movers
<1>2. PICK o \in FindOrders(H, {s}, Supers) :
        /\ data' = [d EXCEPT ![s] = @ \cup {x}]
        /\ marks' = [u \in Sets |-> IF u \in MarkedAbove(s, d)
                                      THEN MarksWithout(H, o, x)[u] \cup {s}
                                      ELSE MarksWithout(H, o, x)[u]]
  BY DEF Add
<1>3. \A u \in Sets : MarksWithout(H, o, x)[u] \subseteq marks[u]
  BY DEF MarksWithout
<1>4. d \in [Sets -> SUBSET Elems]
  BY <1>1, WithoutTyped
<1>5. ASSUME NEW u \in Sets, NEW t \in marks'[u]
      PROVE  t \in Sets /\ u \in Closure[t] \ {t}
  <2>1. t \in marks[u] \/ (t = s /\ u \in MarkedAbove(s, d))
    BY <1>2, <1>3
  <2>. QED  BY <2>1, MarkedAboveFacts DEF MarkInv
<1>6. ASSUME NEW t \in Sets, NEW u \in Supers[t]
      PROVE  t \in marks'[u] <=> data'[t] # {}
  <2>1. /\ u \in Sets /\ u \in MarkedAbove(t, DataUpTo(t, H, o, x))
        /\ t = s => u \in MarkedAbove(s, d)
    BY MarkedAboveFacts, SupersAssumption
  <2>2. t \in MarksWithout(H, o, x)[u] <=> t \in marks[u] /\ ~(t \in H /\ data[t] = {x})
    BY <2>1 DEF MarksWithout
  <2>3. d[t] # {} <=> data[t] # {} /\ ~(t \in H /\ data[t] = {x})
    BY <1>1 DEF DataWithout, IntTypeOK
  <2>. HIDE DEF d, H
  <2>4. CASE t = s
    BY <1>2, <1>4, <2>1, <2>4
  <2>5. CASE t # s
    BY <1>2, <1>4, <2>1, <2>2, <2>3, <2>5 DEF MarkInv
  <2>. QED  BY <2>4, <2>5
<1>. QED  BY <1>5, <1>6 DEF MarkInv

LEMMA RemoveKeepsMarks ==
    ASSUME IntTypeOK, MarkInv, NEW s \in Sets, NEW x \in Elems, InnerRemove(s, x)
    PROVE  MarkInv'
<1>1. Found(s, x) \in SUBSET Sets /\ \A t \in Found(s, x) : x \in data[t]
  BY HoldersTyped
<1>2. PICK o : data' = DataWithout(Found(s, x), x) /\ marks' = MarksWithout(Found(s, x), o, x)
  BY DEF InnerRemove
<1>. QED  BY <1>1, <1>2, DropKeepsMarks

LEMMA InitMarks == Init => MarkInv
<1>. SUFFICES ASSUME Init PROVE MarkInv
  OBVIOUS
<1>. QED  BY SupersAssumption DEF Init, MarkInv

LEMMA NextMarks == SizeInv /\ MarkInv /\ [Next]_vars => MarkInv'
<1>. SUFFICES ASSUME SizeInv, MarkInv, [Next]_vars PROVE MarkInv'
  OBVIOUS
<1>0. IntTypeOK
  BY DEF SizeInv
<1>1. ASSUME NEW s \in AddSets, NEW x \in Elems, Add(s, x) PROVE MarkInv'
  BY <1>0, <1>1, AddKeepsMarks, ClientAssumption
<1>2. ASSUME NEW s \in AddSets, NEW x \in Elems, AddThrows(s, x) PROVE MarkInv'
  <2>1. s \in Sets
    BY ClientAssumption
  <2>2. Movers(s, x) \in SUBSET Sets /\ \A t \in Movers(s, x) : x \in data[t]
    BY <2>1, HoldersTyped
  <2>3. PICK o : data' = DataWithout(Movers(s, x), x) /\ marks' = MarksWithout(Movers(s, x), o, x)
    BY <1>2 DEF AddThrows
  <2>. QED  BY <1>0, <2>2, <2>3, DropKeepsMarks
<1>3. ASSUME NEW s \in Sets, NEW x \in Elems, Remove(s, x) PROVE MarkInv'
  BY <1>0, <1>3, RemoveKeepsMarks DEF Remove
<1>4. ASSUME NEW s \in Sets, ClearBegin(s) PROVE MarkInv'
  BY <1>4 DEF ClearBegin, MarkInv
<1>5. CASE ClearStep
  <2>1. PICK t \in FrontSets(clearing) : \E x \in data[t] : InnerRemove(clearing, x)
    BY <1>5 DEF ClearStep
  <2>2. t \in Sets /\ clearing \in Sets /\ data[t] \subseteq Elems
    BY <1>0, <1>5 DEF ClearStep, IntTypeOK, FrontSets, Reach
  <2>. QED  BY <1>0, <2>1, <2>2, RemoveKeepsMarks
<1>6. CASE ClearEnd
  BY <1>6 DEF ClearEnd, MarkInv
<1>7. CASE UNCHANGED vars
  BY <1>7 DEF vars, MarkInv
<1>. QED  BY <1>1, <1>2, <1>3, <1>4, <1>5, <1>6, <1>7 DEF Next

\* A set sees nothing but what lies at or below it.
LEMMA SeesBelow ==
    ASSUME MarkInv, NEW s \in Sets
    PROVE  \A t \in Visible(s, marks) : t \in Sets /\ s \in Closure[t]
<1>. DEFINE C == {t \in Sets : s \in Closure[t]}
<1>1. {s} \subseteq C /\ C \in SUBSET Sets
  BY ClosureFacts
<1>2. \A u \in C : marks[u] \subseteq C
  <2>. SUFFICES ASSUME NEW u \in C, NEW t \in marks[u] PROVE t \in C
    OBVIOUS
  <2>1. t \in Sets /\ u \in Closure[t]
    BY DEF MarkInv
  <2>. QED  BY <2>1, ClosureFacts
<1>3. Reach({s}, marks) \subseteq C
  <2>. HIDE DEF C
  <2>. QED  BY <1>1, <1>2, ReachLeast
<1>. QED  BY <1>3 DEF Visible

\* Whatever the client adds, moves and removes, contains() (privateSet.h:407-420) never
\* answers for an element that is stored neither in the set nor below it, and never
\* misses one that is stored in the set or in a set that subsets it directly.  What the
\* client can make it miss lies further down.
ContainsBounded ==
    \A s \in Sets, x \in Elems :
        /\ Contains(s, x, data, marks) => x \in Members(s)
        /\ \A t \in Sets : x \in data[t] /\ s \in Supers[t] \cup {t} => Contains(s, x, data, marks)

THEOREM AlwaysBounded == Spec => []ContainsBounded
<1>1. ASSUME IntTypeOK, MarkInv PROVE ContainsBounded
  <2>. SUFFICES ASSUME NEW s \in Sets, NEW x \in Elems
                PROVE  /\ Contains(s, x, data, marks) => x \in Members(s)
                       /\ \A t \in Sets : x \in data[t] /\ s \in Supers[t] \cup {t}
                            => Contains(s, x, data, marks)
    BY DEF ContainsBounded
  <2>1. Contains(s, x, data, marks) => x \in Members(s)
    BY <1>1, SeesBelow DEF Contains, Members
  <2>2. s \in Visible(s, marks)
    <3>1. s \in {s} \cap Sets
      OBVIOUS
    <3>. QED  BY <3>1, ReachStart DEF Visible
  <2>3. ASSUME NEW t \in Sets, x \in data[t], s \in Supers[t]
        PROVE  t \in Visible(s, marks)
    <3>1. t \in marks[s] \cap Sets
      BY <1>1, <2>3 DEF MarkInv
    <3>. QED  BY <2>2, <3>1, ReachStep DEF Visible
  <2>. QED  BY <2>1, <2>2, <2>3 DEF Contains
<1>2. SizeInv /\ MarkInv => ContainsBounded
  BY <1>1 DEF SizeInv
<1>. QED  BY InitSizeInv, NextSizeInv, InitMarks, NextMarks, <1>2, PTL DEF Spec

-----------------------------------------------------------------------------
(***************************************************************************)
(* When only sets at the ends of the superset graph get data of their own  *)
(* (NoMiddleData), the marks, and with them contains(), are exact.  When   *)
(* the client is Exclusive as well, SubsetSets implements MemberSets.      *)
(***************************************************************************)

Top(s) == Supers[s] = {}
Bottom(s) == \A t \in Sets : s \notin Supers[t]

\* d stores data at the ends of the graph only.
AtEnds(d) == \A s \in Sets : d[s] # {} => Top(s) \/ Bottom(s)

-----------------------------------------------------------------------------
(* The closure at the ends of the graph *)

\* Nothing lies above a top set.
LEMMA TopClosure ==
    ASSUME NEW s \in Sets, Top(s)
    PROVE  Closure[s] = {s}
<1>1. Reach(Supers[s], Supers) \subseteq {}
  BY ReachLeast DEF Top
<1>. QED  BY <1>1, ProperClosure, ClosureFacts

\* Nothing lies below a bottom set.
LEMMA BottomClosure ==
    ASSUME NEW s \in Sets, Bottom(s), NEW t \in Sets, s \in Closure[t]
    PROVE  s = t
<1>. SUFFICES ASSUME s # t PROVE FALSE
  OBVIOUS
<1>1. Reach(Supers[t], Supers) \subseteq Sets \ {s}
  <2>1. \A u \in Sets : Supers[u] \subseteq Sets \ {s}
    BY SupersAssumption DEF Bottom
  <2>2. Sets \ {s} \in SUBSET Sets
    OBVIOUS
  <2>. QED  BY <2>1, <2>2, ReachLeast
<1>. QED  BY <1>1, ProperClosure

\* When data lies at the ends only, marking reaches every proper superset.
LEMMA MarkedAboveEnds ==
    ASSUME NEW s \in Sets, NEW d, AtEnds(d)
    PROVE  MarkedAbove(s, d) = Closure[s] \ {s}
<1>. DEFINE next == [u \in Sets |-> IF d[u] = {} THEN Supers[u] ELSE {}]
            M == Reach(Supers[s], next)
            Inner == {u \in Sets : ~Bottom(u)}
<1>1. M \subseteq Sets /\ Supers[s] \subseteq Sets
  BY SupersAssumption DEF Reach
<1>2. \A u \in Sets : next[u] \subseteq Supers[u] /\ Supers[u] \subseteq Inner
  BY SupersAssumption DEF Bottom
<1>3. M \subseteq Inner
  <2>1. Supers[s] \subseteq Inner /\ \A u \in Inner : next[u] \subseteq Inner
    BY <1>2
  <2>2. Inner \in SUBSET Sets
    OBVIOUS
  <2>. HIDE DEF next, Inner
  <2>. QED  BY <2>1, <2>2, ReachLeast
<1>4. Supers[s] \subseteq M
  BY <1>1, ReachStart
<1>5. \A u \in M : Supers[u] \subseteq M
  <2>. SUFFICES ASSUME NEW u \in M, NEW v \in Supers[u] PROVE v \in M
    OBVIOUS
  <2>1. u \in Sets /\ ~Bottom(u) /\ v \in Sets
    BY <1>1, <1>3, SupersAssumption
  <2>2. d[u] = {}
    BY <2>1 DEF AtEnds, Top
  <2>3. v \in next[u] \cap Sets
    BY <2>1, <2>2
  <2>. HIDE DEF next
  <2>. QED  BY <2>3, ReachStep
<1>6. Reach(Supers[s], Supers) \subseteq M
  BY <1>1, <1>4, <1>5, ReachLeast
<1>7. M \subseteq Reach(Supers[s], Supers)
  <2>. DEFINE R == Reach(Supers[s], Supers)
  <2>1. R \subseteq Sets /\ Supers[s] \subseteq R
    BY <1>1, ReachStart DEF Reach
  <2>2. \A u \in R : next[u] \subseteq R
    <3>. SUFFICES ASSUME NEW u \in R, NEW v \in next[u] PROVE v \in R
      OBVIOUS
    <3>1. v \in Supers[u] \cap Sets
      BY <1>2, <2>1, SupersAssumption
    <3>. HIDE DEF next
    <3>. QED  BY <3>1, ReachStep
  <2>3. M \subseteq R
    <3>. HIDE DEF next, R
    <3>. QED  BY <2>1, <2>2, ReachLeast
  <2>. QED  BY <2>3
<1>. QED  BY <1>6, <1>7, ProperClosure DEF MarkedAbove

-----------------------------------------------------------------------------
(* Exact marks *)

\* marks m are exact for data d.
Exact(m, d) ==
    \A u \in Sets : m[u] = {t \in Sets : d[t] # {} /\ u \in Closure[t] \ {t}}

\* The inductive invariant: exactness is kept because data stays where the client
\* adds it, and at most one set of a line has an element.
EndsInv ==
    /\ IntTypeOK
    /\ \A s \in Sets : data[s] # {} => s \in AddSets
    /\ MarksExact
    /\ StoredOncePerLine

LEMMA EndsInvAtEnds ==
    ASSUME NoMiddleData, EndsInv
    PROVE  AtEnds(data)
BY ClientAssumption DEF NoMiddleData, EndsInv, AtEnds, Top, Bottom

\* With exact marks a set sees every set at or below it that has data, and no
\* set that is not at or below it.
LEMMA ExactSees ==
    ASSUME NEW m, NEW d \in [Sets -> SUBSET Elems], Exact(m, d),
           NEW s \in Sets, NEW x
    PROVE  Contains(s, x, d, m) <=> \E t \in Sets : s \in Closure[t] /\ x \in d[t]
<1>1. ASSUME NEW t \in Sets, s \in Closure[t], x \in d[t]
      PROVE  t \in Visible(s, m)
  <2>1. s \in Visible(s, m)
    <3>1. s \in {s} \cap Sets
      OBVIOUS
    <3>. QED  BY <3>1, ReachStart DEF Visible
  <2>2. CASE t # s
    <3>1. t \in m[s] \cap Sets
      BY <1>1, <2>2 DEF Exact
    <3>. QED  BY <2>1, <3>1, ReachStep DEF Visible
  <2>. QED  BY <2>1, <2>2
<1>2. Visible(s, m) \subseteq {t \in Sets : s \in Closure[t]}
  <2>. DEFINE C == {t \in Sets : s \in Closure[t]}
  <2>1. {s} \subseteq C /\ C \in SUBSET Sets
    BY ClosureFacts
  <2>2. \A u \in C : m[u] \subseteq C
    BY ClosureFacts DEF Exact
  <2>3. Reach({s}, m) \subseteq C
    <3>. HIDE DEF C
    <3>. QED  BY <2>1, <2>2, ReachLeast
  <2>. QED  BY <2>3 DEF Visible
<1>. QED  BY <1>1, <1>2 DEF Contains

\* Unmarking what x leaves empty keeps exact marks exact.
LEMMA WithoutExact ==
    ASSUME IntTypeOK, AtEnds(data), MarksExact,
           NEW H \in SUBSET Sets, NEW x \in Elems, NEW o,
           \A t \in H : x \in data[t]
    PROVE  /\ Exact(MarksWithout(H, o, x), DataWithout(H, x))
           /\ AtEnds(DataWithout(H, x))
<1>1. ASSUME NEW t \in H
      PROVE  MarkedAbove(t, DataUpTo(t, H, o, x)) = Closure[t] \ {t}
  <2>1. \A u \in Sets : DataUpTo(t, H, o, x)[u] \subseteq data[u]
    BY DEF DataUpTo, DataWithout
  <2>2. AtEnds(DataUpTo(t, H, o, x))
    BY <2>1 DEF AtEnds
  <2>. QED  BY <2>2, MarkedAboveEnds
<1>2. ASSUME NEW u \in Sets
      PROVE  MarksWithout(H, o, x)[u] = marks[u] \ {t \in H : data[t] = {x} /\ u \in Closure[t] \ {t}}
  BY <1>1 DEF MarksWithout
<1>3. ASSUME NEW t \in Sets
      PROVE  DataWithout(H, x)[t] # {} <=> data[t] # {} /\ ~(t \in H /\ data[t] = {x})
  BY DEF DataWithout, IntTypeOK
<1>4. Exact(MarksWithout(H, o, x), DataWithout(H, x))
  BY <1>2, <1>3 DEF MarksExact, Exact
<1>5. AtEnds(DataWithout(H, x))
  BY <1>3 DEF AtEnds
<1>. QED  BY <1>4, <1>5

\* Nothing new is stored by taking x out of the sets of H.
LEMMA WithoutOncePerLine ==
    ASSUME IntTypeOK, StoredOncePerLine, NEW H \in SUBSET Sets, NEW x \in Elems,
           NEW s \in Sets, NEW t \in Sets, s \in Closure[t] \ {t}
    PROVE  DataWithout(H, x)[s] \cap DataWithout(H, x)[t] = {}
BY DEF DataWithout, IntTypeOK, StoredOncePerLine

\* Once x has left the supersets of s, an add that succeeds finds x nowhere below s.
LEMMA AddNoneBelow ==
    ASSUME NoMiddleData, EndsInv, NEW s \in AddSets, NEW x \in Elems, Add(s, x)
    PROVE  \A t \in Sets : s \in Closure[t] => x \notin DataWithout(Movers(s, x), x)[t]
<1>. DEFINE H == Movers(s, x)
            d == DataWithout(H, x)
<1>0. /\ s \in Sets /\ H \in SUBSET Sets /\ \A t \in H : x \in data[t]
      /\ IntTypeOK /\ AtEnds(data) /\ MarksExact
  BY ClientAssumption, HoldersTyped, EndsInvAtEnds DEF EndsInv
<1>1. PICK o \in FindOrders(H, {s}, Supers) : ~Contains(s, x, d, MarksWithout(H, o, x))
  BY DEF Add
<1>2. Exact(MarksWithout(H, o, x), d)
  BY <1>0, WithoutExact
<1>3. d \in [Sets -> SUBSET Elems]
  BY <1>0, WithoutTyped
<1>. HIDE DEF d
<1>4. \A t \in Sets : s \in Closure[t] => x \notin d[t]
  BY <1>0, <1>1, <1>2, <1>3, ExactSees
<1>. QED  BY <1>4 DEF d

\* An add keeps the invariant.
LEMMA AddKeepsEnds ==
    ASSUME NoMiddleData, EndsInv, IntTypeOK', NEW s \in AddSets, NEW x \in Elems, Add(s, x)
    PROVE  EndsInv'
<1>. DEFINE H == Movers(s, x)
            d == DataWithout(H, x)
<1>0. /\ s \in Sets /\ H \in SUBSET Sets /\ \A t \in H : x \in data[t]
      /\ IntTypeOK /\ AtEnds(data) /\ MarksExact /\ StoredOncePerLine
  BY ClientAssumption, HoldersTyped, EndsInvAtEnds DEF EndsInv
<1>1. PICK o \in FindOrders(H, {s}, Supers) :
        /\ ~Contains(s, x, d, MarksWithout(H, o, x))
        /\ data' = [d EXCEPT ![s] = @ \cup {x}]
        /\ marks' = [u \in Sets |-> IF u \in MarkedAbove(s, d)
                                      THEN MarksWithout(H, o, x)[u] \cup {s}
                                      ELSE MarksWithout(H, o, x)[u]]
  BY DEF Add
<1>. DEFINE m == MarksWithout(H, o, x)
<1>2. Exact(m, d) /\ AtEnds(d)
  BY <1>0, WithoutExact
<1>3. d \in [Sets -> SUBSET Elems]
  BY <1>0, WithoutTyped
<1>4. MarkedAbove(s, d) = Closure[s] \ {s}
  BY <1>0, <1>2, MarkedAboveEnds
<1>5. \A u \in Sets : d[u] \subseteq data[u]
  BY DEF DataWithout
<1>. HIDE DEF d, m
<1>6. \A t \in Sets : data'[t] = IF t = s THEN d[s] \cup {x} ELSE d[t]
  BY <1>0, <1>1, <1>3
<1>7. \A t \in Sets : data'[t] # {} => t \in AddSets
  BY <1>5, <1>6 DEF EndsInv
<1>8. MarksExact'
  <2>1. ASSUME NEW u \in Sets
        PROVE  marks'[u] = IF u \in Closure[s] \ {s} THEN m[u] \cup {s} ELSE m[u]
    BY <1>1, <1>4 DEF m
  <2>2. ASSUME NEW u \in Sets
        PROVE  marks'[u] = {t \in Sets : data'[t] # {} /\ u \in Closure[t] \ {t}}
    <3>. DEFINE new == {t \in Sets : data'[t] # {} /\ u \in Closure[t] \ {t}}
    <3>1. m[u] = {t \in Sets : d[t] # {} /\ u \in Closure[t] \ {t}}
      BY <1>2 DEF Exact
    <3>2. \A t \in Sets : t # s => (data'[t] # {} <=> d[t] # {})
      BY <1>6
    <3>3. data'[s] # {}
      BY <1>0, <1>6
    <3>4. CASE u \in Closure[s] \ {s}
      <4>1. m[u] \cup {s} = new
        BY <1>0, <3>1, <3>2, <3>3, <3>4
      <4>. QED  BY <2>1, <3>4, <4>1
    <3>5. CASE u \notin Closure[s] \ {s}
      <4>1. m[u] = new
        BY <1>0, <3>1, <3>2, <3>3, <3>5
      <4>. QED  BY <2>1, <3>5, <4>1
    <3>. QED  BY <3>4, <3>5
  <2>. QED  BY <2>2 DEF MarksExact
<1>9. \A t \in Sets : s \in Closure[t] => x \notin d[t]
  BY AddNoneBelow DEF d
<1>10. \A t \in Closure[s] \ {s} : x \notin d[t]
  BY <1>0, ClosureFacts DEF d, DataWithout, Movers
<1>11. StoredOncePerLine'
  <2>. SUFFICES ASSUME NEW u \in Sets, NEW t \in Sets, u \in Closure[t] \ {t}
                PROVE  data'[u] \cap data'[t] = {}
    BY DEF StoredOncePerLine
  <2>1. d[u] \cap d[t] = {}
    BY <1>0, WithoutOncePerLine DEF d
  <2>2. CASE u = s
    BY <1>6, <1>9, <2>1, <2>2
  <2>3. CASE t = s
    BY <1>6, <1>10, <2>1, <2>3
  <2>4. CASE u # s /\ t # s
    BY <1>6, <2>1, <2>4
  <2>. QED  BY <2>2, <2>3, <2>4
<1>. QED  BY <1>7, <1>8, <1>11 DEF EndsInv

\* Both ways to take x out of sets keep the invariant.
LEMMA DropKeepsEnds ==
    ASSUME NoMiddleData, EndsInv, IntTypeOK', NEW H \in SUBSET Sets, NEW x \in Elems, NEW o,
           \A t \in H : x \in data[t],
           data' = DataWithout(H, x), marks' = MarksWithout(H, o, x)
    PROVE  EndsInv'
<1>0. IntTypeOK /\ AtEnds(data) /\ MarksExact /\ StoredOncePerLine
  BY EndsInvAtEnds DEF EndsInv
<1>1. MarksExact'
  <2>1. Exact(MarksWithout(H, o, x), DataWithout(H, x))
    BY <1>0, WithoutExact
  <2>2. Exact(marks', data')
    BY <2>1
  <2>. QED  BY <2>2 DEF Exact, MarksExact
<1>2. StoredOncePerLine'
  BY <1>0, WithoutOncePerLine DEF StoredOncePerLine
<1>3. \A t \in Sets : data'[t] # {} => t \in AddSets
  BY DEF EndsInv, DataWithout
<1>. QED  BY <1>1, <1>2, <1>3 DEF EndsInv

LEMMA RemoveKeepsEnds ==
    ASSUME NoMiddleData, EndsInv, IntTypeOK', NEW s \in Sets, NEW x \in Elems, InnerRemove(s, x)
    PROVE  EndsInv'
<1>1. Found(s, x) \in SUBSET Sets /\ \A t \in Found(s, x) : x \in data[t]
  BY HoldersTyped
<1>2. PICK o : data' = DataWithout(Found(s, x), x) /\ marks' = MarksWithout(Found(s, x), o, x)
  BY DEF InnerRemove
<1>. QED  BY <1>1, <1>2, DropKeepsEnds

LEMMA InitEnds == Init => EndsInv
<1>. SUFFICES ASSUME Init PROVE EndsInv
  OBVIOUS
<1>1. IntTypeOK
  BY InitSizeInv DEF SizeInv
<1>. QED  BY <1>1 DEF Init, EndsInv, MarksExact, StoredOncePerLine

LEMMA NextEnds ==
    ASSUME NoMiddleData
    PROVE  SizeInv /\ EndsInv /\ [Next]_vars => EndsInv'
<1>. SUFFICES ASSUME SizeInv, EndsInv, [Next]_vars PROVE EndsInv'
  OBVIOUS
<1>0. IntTypeOK /\ IntTypeOK'
  BY NextSizeInv DEF SizeInv
<1>1. ASSUME NEW s \in AddSets, NEW x \in Elems, Add(s, x) PROVE EndsInv'
  BY <1>0, <1>1, AddKeepsEnds
<1>2. ASSUME NEW s \in AddSets, NEW x \in Elems, AddThrows(s, x) PROVE EndsInv'
  <2>1. s \in Sets
    BY ClientAssumption
  <2>2. Movers(s, x) \in SUBSET Sets /\ \A t \in Movers(s, x) : x \in data[t]
    BY <2>1, HoldersTyped
  <2>3. PICK o : data' = DataWithout(Movers(s, x), x) /\ marks' = MarksWithout(Movers(s, x), o, x)
    BY <1>2 DEF AddThrows
  <2>. QED  BY <1>0, <2>2, <2>3, DropKeepsEnds
<1>3. ASSUME NEW s \in Sets, NEW x \in Elems, Remove(s, x) PROVE EndsInv'
  BY <1>0, <1>3, RemoveKeepsEnds DEF Remove
<1>4. ASSUME NEW s \in Sets, ClearBegin(s) PROVE EndsInv'
  BY <1>0, <1>4 DEF ClearBegin, EndsInv, MarksExact, StoredOncePerLine
<1>5. CASE ClearStep
  <2>1. PICK t \in FrontSets(clearing) : \E x \in data[t] : InnerRemove(clearing, x)
    BY <1>5 DEF ClearStep
  <2>2. t \in Sets /\ clearing \in Sets /\ data[t] \subseteq Elems
    BY <1>0, <1>5 DEF ClearStep, IntTypeOK, FrontSets, Reach
  <2>. QED  BY <1>0, <2>1, <2>2, RemoveKeepsEnds
<1>6. CASE ClearEnd
  BY <1>0, <1>6 DEF ClearEnd, EndsInv, MarksExact, StoredOncePerLine
<1>7. CASE UNCHANGED vars
  BY <1>0, <1>7 DEF vars, EndsInv, MarksExact, StoredOncePerLine
<1>. QED  BY <1>1, <1>2, <1>3, <1>4, <1>5, <1>6, <1>7 DEF Next

\* When data lies at the ends only, a set is marked in exactly the proper supersets
\* of a set with data.
THEOREM ExactMarks ==
    ASSUME NoMiddleData
    PROVE  Spec => []MarksExact
<1>1. SizeInv /\ EndsInv /\ [Next]_vars => EndsInv'
  BY NextEnds
<1>2. EndsInv => MarksExact
  BY DEF EndsInv
<1>. QED  BY InitSizeInv, NextSizeInv, InitEnds, <1>1, <1>2, PTL DEF Spec

\* With exact marks, contains() sees what is stored at or below the set.
LEMMA EndsContains == EndsInv => ContainsExact
<1>. SUFFICES ASSUME EndsInv, NEW s \in Sets, NEW x \in Elems
              PROVE  Contains(s, x, data, marks) <=> x \in Members(s)
  BY DEF ContainsExact
<1>1. Exact(marks, data) /\ data \in [Sets -> SUBSET Elems]
  BY DEF EndsInv, MarksExact, Exact, IntTypeOK
<1>. QED  BY <1>1, ExactSees DEF Members

\* contains() answers for all that is stored at or below the set and nothing else.
THEOREM ExactContains ==
    ASSUME NoMiddleData
    PROVE  Spec => []ContainsExact
<1>1. SizeInv /\ EndsInv /\ [Next]_vars => EndsInv'
  BY NextEnds
<1>2. EndsInv => ContainsExact
  BY EndsContains
<1>. QED  BY InitSizeInv, NextSizeInv, InitEnds, <1>1, <1>2, PTL DEF Spec

\* A removal takes away the removed element only (nonOppositeRemoveHelper,
\* privateSet.h:292-386, and the marks it erases): where no set
\* in the middle has data, every set goes on containing every other element.
THEOREM OthersKept ==
    ASSUME NoMiddleData
    PROVE  Spec => RemoveKeepsOthers
<1>1. ASSUME EndsInv, ContainsExact', NEW r \in Sets, NEW x \in Elems, Remove(r, x),
             NEW s \in Sets, NEW y \in Elems \ {x}
      PROVE  Contains(s, y, data, marks) <=> Contains(s, y, data, marks)'
  <2>1. Contains(s, y, data, marks) <=> y \in Members(s)
    BY <1>1, EndsContains DEF ContainsExact
  <2>2. Contains(s, y, data, marks)' <=> y \in Members(s)'
    BY <1>1 DEF ContainsExact
  <2>3. \A t \in Sets : y \in data[t] <=> y \in data'[t]
    BY <1>1 DEF Remove, InnerRemove, DataWithout
  <2>. QED  BY <2>1, <2>2, <2>3 DEF Members
<1>2. EndsInv /\ ContainsExact' /\ [Next]_vars
        => [\A r \in Sets, x \in Elems : Remove(r, x) =>
              \A s \in Sets, y \in Elems \ {x} :
                 Contains(s, y, data, marks) <=> Contains(s, y, data, marks)']_vars
  BY <1>1
<1>3. SizeInv /\ EndsInv /\ [Next]_vars => EndsInv'
  BY NextEnds DEF SizeInv
<1>. QED
  BY <1>2, <1>3, InitSizeInv, NextSizeInv, InitEnds, EndsContains, PTL DEF Spec, RemoveKeepsOthers

\* No element is stored both in a set and in a superset of it.
THEOREM OncePerLine ==
    ASSUME NoMiddleData
    PROVE  Spec => []StoredOncePerLine
<1>1. SizeInv /\ EndsInv /\ [Next]_vars => EndsInv'
  BY NextEnds
<1>2. EndsInv => StoredOncePerLine
  BY DEF EndsInv
<1>. QED  BY InitSizeInv, NextSizeInv, InitEnds, <1>1, <1>2, PTL DEF Spec

-----------------------------------------------------------------------------
(* The promise: for an Exclusive client, MemberSets *)


\* Two sets that share a superset do not hold the same element.
OneHolder ==
    \A x \in Elems : \A s, t \in Sets :
        x \in data[s] /\ x \in data[t] /\ Closure[s] \cap Closure[t] # {} => s = t

\* m_size is the number of occurrences stored at or below the set.
SizeHolds == \A s \in Sets : size[s] = Cardinality(Holdings(s))

\* The inductive invariant.
PromiseInv == SizeInv /\ EndsInv /\ OneHolder /\ SizeHolds

-----------------------------------------------------------------------------
(* The closure *)

\* Two sets that lie above each other are the same.
LEMMA ClosureAntisym ==
    ASSUME NEW s \in Sets, NEW t \in Sets, t \in Closure[s], s \in Closure[t]
    PROVE  s = t
<1>. SUFFICES ASSUME s # t PROVE FALSE
  OBVIOUS
<1>. DEFINE R == Reach(Supers[s], Supers)
<1>1. R \subseteq Sets /\ t \in R /\ s \notin R
  BY ProperClosure, AcyclicAssumption DEF Reach
<1>2. \A u \in R : Supers[u] \subseteq R
  <2>. SUFFICES ASSUME NEW u \in R, NEW v \in Supers[u] PROVE v \in R
    OBVIOUS
  <2>1. v \in Supers[u] \cap Sets
    BY <1>1, SupersAssumption
  <2>. QED  BY <2>1, ReachStep
<1>3. Reach({t}, Supers) \subseteq R
  <2>. HIDE DEF R
  <2>. QED  BY <1>1, <1>2, ReachLeast
<1>. QED  BY <1>1, <1>3 DEF Closure

-----------------------------------------------------------------------------
(* One holder *)

\* What a removal finds is one set at or below the set it starts from.
LEMMA FoundOne ==
    ASSUME EndsInv, OneHolder, NEW s \in Sets, NEW x \in Elems, NEW t \in Found(s, x)
    PROVE  Found(s, x) = {t} /\ s \in Closure[t]
<1>. DEFINE C == {u \in Sets : s \in Closure[u]}
            next == Descent(x)
<1>1. {s} \subseteq C /\ C \in SUBSET Sets
  BY ClosureFacts
<1>2. \A u \in C : next[u] \subseteq C
  BY ClosureFacts DEF Descent, EndsInv, MarksExact
<1>3. Reach({s}, next) \subseteq C
  <2>. HIDE DEF C, next
  <2>. QED  BY <1>1, <1>2, ReachLeast
<1>4. \A u \in Found(s, x) : u \in Sets /\ s \in Closure[u] /\ x \in data[u]
  BY <1>3 DEF Found
<1>. QED  BY <1>4 DEF OneHolder

\* An add of an Exclusive client makes the set the only holder of what it shares.
LEMMA AddKeepsOneHolder ==
    ASSUME Exclusive, NoMiddleData, EndsInv, OneHolder,
           NEW s \in AddSets, NEW x \in Elems, Add(s, x)
    PROVE  OneHolder'
<1>. DEFINE H == Movers(s, x)
            d == DataWithout(H, x)
<1>0. s \in Sets /\ H \in SUBSET Sets /\ d \in [Sets -> SUBSET Elems]
  BY ClientAssumption, HoldersTyped, WithoutTyped DEF EndsInv
<1>1. data' = [d EXCEPT ![s] = @ \cup {x}]
  BY DEF Add
<1>2. \A t \in Sets : s \in Closure[t] => x \notin d[t]
  BY AddNoneBelow
<1>3. \A t \in Sets, y \in Elems : y \in d[t] <=> y \in data[t] /\ ~(t \in H /\ y = x)
  BY DEF DataWithout, EndsInv, IntTypeOK
<1>. HIDE DEF d
<1>4. ASSUME NEW t \in Sets, x \in d[t]
      PROVE  Closure[s] \cap Closure[t] = {}
  <2>1. x \in data[t] /\ t \notin H /\ s \notin Closure[t]
    BY <1>2, <1>3, <1>4
  <2>2. \/ t \in Closure[s]
        \/ s \in Closure[t]
        \/ Closure[s] \cap Closure[t] = {}
    BY <2>1 DEF Add, ClientAdds
  <2>3. t # s
    BY <1>0, <2>1, ClosureFacts
  <2>. QED  BY <2>1, <2>2, <2>3 DEF Movers
<1>5. \A t \in Sets, y \in Elems : y \in data'[t] <=> y \in d[t] \/ (t = s /\ y = x)
  BY <1>0, <1>1
<1>. SUFFICES ASSUME NEW y \in Elems, NEW t \in Sets, NEW u \in Sets,
                     y \in data'[t], y \in data'[u], Closure[t] \cap Closure[u] # {}
              PROVE  t = u
  BY DEF OneHolder
<1>6. CASE y \in d[t] /\ y \in d[u]
  BY <1>3, <1>6 DEF OneHolder
<1>7. CASE y = x /\ t = s /\ u # s
  BY <1>4, <1>5, <1>7
<1>8. CASE y = x /\ u = s /\ t # s
  BY <1>4, <1>5, <1>8
<1>. QED  BY <1>5, <1>6, <1>7, <1>8

\* Taking x out of sets keeps it.
LEMMA DropKeepsOneHolder ==
    ASSUME IntTypeOK, OneHolder, NEW H \in SUBSET Sets, NEW x \in Elems,
           data' = DataWithout(H, x)
    PROVE  OneHolder'
<1>1. \A t \in Sets : data'[t] \subseteq data[t]
  BY DEF DataWithout
<1>. QED  BY <1>1 DEF OneHolder

\* An Exclusive client's add fails only on an element that the set has already, and
\* then nothing has moved.
LEMMA AddThrowsChangesNothing ==
    ASSUME NoMiddleData, EndsInv, OneHolder,
           NEW s \in AddSets, NEW x \in Elems, AddThrows(s, x)
    PROVE  UNCHANGED vars
<1>. DEFINE H == Movers(s, x)
            d == DataWithout(H, x)
<1>0. /\ s \in Sets /\ H \in SUBSET Sets /\ \A t \in H : x \in data[t]
      /\ IntTypeOK /\ AtEnds(data) /\ MarksExact
  BY ClientAssumption, HoldersTyped, EndsInvAtEnds DEF EndsInv
<1>1. PICK o \in FindOrders(H, {s}, Supers) :
        /\ Contains(s, x, d, MarksWithout(H, o, x))
        /\ data' = d
        /\ marks' = MarksWithout(H, o, x)
        /\ size' = SizeMoved(H)
  BY DEF AddThrows
<1>2. Exact(MarksWithout(H, o, x), d)
  BY <1>0, WithoutExact
<1>3. d \in [Sets -> SUBSET Elems]
  BY <1>0, WithoutTyped
<1>. HIDE DEF d
<1>4. PICK t \in Sets : s \in Closure[t] /\ x \in d[t]
  BY <1>0, <1>1, <1>2, <1>3, ExactSees
<1>5. H = {}
  <2>. SUFFICES ASSUME NEW h \in H PROVE FALSE
    OBVIOUS
  <2>1. h \in Sets /\ h \in Closure[s] /\ x \in data[h]
    BY <1>0, HoldersTyped
  <2>2. x \in data[t] /\ t \notin H
    BY <1>4 DEF d, DataWithout
  <2>3. h \in Closure[h] /\ h \in Closure[t]
    BY <1>0, <1>4, <2>1, ClosureFacts
  <2>4. h = t
    BY <2>1, <2>2, <2>3 DEF OneHolder
  <2>. QED  BY <2>2, <2>4
<1>6. data' = data
  BY <1>0, <1>1, <1>5 DEF d, DataWithout, IntTypeOK
<1>7. marks' = marks
  BY <1>0, <1>1, <1>5 DEF MarksWithout, IntTypeOK
<1>8. size' = size
  <2>1. \A u \in Sets : SizeMoved(H)[u] = size[u]
    <3>. SUFFICES ASSUME NEW u \in Sets PROVE SizeMoved(H)[u] = size[u]
      OBVIOUS
    <3>. DEFINE K == {v \in H : u \in Closure[v]}
    <3>1. K = {}
      BY <1>5
    <3>2. SizeMoved(H)[u] = size[u] - Cardinality(K)
      BY DEF SizeMoved
    <3>3. size[u] \in Int /\ Cardinality(K) = 0
      BY <1>0, <3>1, FS_EmptySet DEF IntTypeOK
    <3>. HIDE DEF K
    <3>. QED  BY <3>2, <3>3
  <2>2. SizeMoved(H) = [u \in Sets |-> SizeMoved(H)[u]]
    BY DEF SizeMoved
  <2>. QED  BY <1>0, <1>1, <2>1, <2>2 DEF IntTypeOK
<1>. QED  BY <1>6, <1>7, <1>8 DEF AddThrows, vars

-----------------------------------------------------------------------------
(* Exact sizes *)

LEMMA AddKeepsSize ==
    ASSUME IntTypeOK, SizeHolds, NEW s \in AddSets, NEW x \in Elems, Add(s, x)
    PROVE  SizeHolds'
<1>. DEFINE H == Movers(s, x)
<1>0. s \in Sets /\ H \in SUBSET Sets /\ s \notin H
  BY ClientAssumption, HoldersTyped
<1>1. /\ data' = [DataWithout(H, x) EXCEPT ![s] = @ \cup {x}]
      /\ size' = [u \in Sets |-> SizeMoved(H)[u] + IF u \in Closure[s] THEN 1 ELSE 0]
      /\ x \notin data[s]
  BY DEF Add
<1>. SUFFICES ASSUME NEW u \in Sets PROVE size'[u] = Cardinality(Holdings(u)')
  BY DEF SizeHolds
<1>. DEFINE R == Holdings(u) \ CountedIn(H, x, u)
<1>2. /\ IsFiniteSet(R)
      /\ Cardinality(R) \in Nat
      /\ SizeMoved(H)[u] \in Int
      /\ SizeMoved(H)[u] - Cardinality(R) = size[u] - Cardinality(Holdings(u))
  BY <1>0, MoveCounts
<1>3. SizeMoved(H)[u] = Cardinality(R)
  BY <1>2, HoldingsFinite DEF IntTypeOK, SizeHolds
<1>4. Holdings(u)' = R \cup (IF u \in Closure[s] THEN {<<s, x>>} ELSE {})
  BY <1>0, <1>1, HoldingsAfterAdd
<1>5. <<s, x>> \notin R
  BY <1>1 DEF Holdings
<1>6. CASE u \in Closure[s]
  <2>1. Cardinality(R \cup {<<s, x>>}) = Cardinality(R) + 1
    BY <1>2, <1>5, FS_AddElement
  <2>2. Holdings(u)' = R \cup {<<s, x>>} /\ size'[u] = SizeMoved(H)[u] + 1
    BY <1>1, <1>4, <1>6
  <2>. QED  BY <1>3, <2>1, <2>2
<1>7. CASE u \notin Closure[s]
  <2>1. Holdings(u)' = R /\ size'[u] = SizeMoved(H)[u] + 0
    BY <1>1, <1>4, <1>7
  <2>. QED  BY <1>2, <1>3, <2>1
<1>. QED  BY <1>6, <1>7

LEMMA RemoveKeepsSize ==
    ASSUME EndsInv, OneHolder, SizeHolds, NEW s \in Sets, NEW x \in Elems, InnerRemove(s, x)
    PROVE  SizeHolds'
<1>0. IntTypeOK
  BY DEF EndsInv
<1>1. PICK w \in Found(s, x) :
        size' = [u \in Sets |-> size[u] - IF u \in Closure[w] THEN 1 ELSE 0]
  BY DEF InnerRemove
<1>2. Found(s, x) = {w} /\ w \in Sets /\ x \in data[w] /\ data' = DataWithout({w}, x)
  BY FoundOne, HoldersTyped DEF InnerRemove
<1>. SUFFICES ASSUME NEW u \in Sets PROVE size'[u] = Cardinality(Holdings(u)')
  BY DEF SizeHolds
<1>. DEFINE H == {w}
            K == {t \in H : u \in Closure[t]}
<1>3. Holdings(u)' = Holdings(u) \ CountedIn(H, x, u)
  BY <1>0, <1>2, HoldingsAfterDrop
<1>4. Cardinality(Holdings(u)') = Cardinality(Holdings(u)) - Cardinality(K)
  <2>1. H \in SUBSET Sets /\ \A t \in H : x \in data[t]
    BY <1>2
  <2>. HIDE DEF H
  <2>2. Cardinality(Holdings(u) \ CountedIn(H, x, u)) = Cardinality(Holdings(u)) - Cardinality(K)
    BY <1>0, <2>1, HoldingsWithout
  <2>. QED  BY <1>3, <2>2
<1>5. size[u] = Cardinality(Holdings(u)) /\ size[u] \in Int
  BY <1>0 DEF SizeHolds, IntTypeOK
<1>6. CASE u \in Closure[w]
  <2>1. K = {w}
    BY <1>6
  <2>2. Cardinality({w}) = 1
    BY FS_Singleton
  <2>. QED  BY <1>1, <1>4, <1>5, <1>6, <2>1, <2>2
<1>7. CASE u \notin Closure[w]
  <2>1. K = {}
    BY <1>7
  <2>2. Cardinality(K) = 0
    BY <2>1, FS_EmptySet
  <2>3. size'[u] = size[u] - 0
    BY <1>1, <1>7
  <2>. QED  BY <1>4, <1>5, <2>2, <2>3
<1>. QED  BY <1>6, <1>7

\* With one holder for each element, the occurrences are the members.
LEMMA HoldingsAreMembers ==
    ASSUME OneHolder, NEW s \in Sets
    PROVE  Cardinality(Holdings(s)) = Cardinality(Members(s))
<1>. DEFINE f == [h \in Holdings(s) |-> h[2]]
<1>1. f \in [Holdings(s) -> Members(s)]
  BY DEF Holdings, Members
<1>2. ASSUME NEW g \in Holdings(s), NEW h \in Holdings(s), f[g] = f[h]
      PROVE  g = h
  <2>1. /\ g \in Sets \X Elems /\ h \in Sets \X Elems /\ g[2] = h[2]
        /\ s \in Closure[g[1]] \cap Closure[h[1]]
        /\ g[2] \in data[g[1]] /\ g[2] \in data[h[1]]
    BY <1>2 DEF Holdings
  <2>2. g[1] = h[1]
    BY <2>1 DEF OneHolder
  <2>. QED  BY <2>1, <2>2
<1>3. ASSUME NEW y \in Members(s)
      PROVE  \E h \in Holdings(s) : f[h] = y
  <2>1. PICK t \in Sets : s \in Closure[t] /\ y \in data[t]
    BY DEF Members
  <2>2. <<t, y>> \in Holdings(s) /\ <<t, y>>[2] = y
    BY <2>1 DEF Holdings, Members
  <2>. QED  BY <2>2
<1>4. f \in Bijection(Holdings(s), Members(s))
  <2>1. f \in Injection(Holdings(s), Members(s))
    BY <1>1, <1>2 DEF Injection, IsInjective
  <2>2. f \in Surjection(Holdings(s), Members(s))
    BY <1>1, <1>3 DEF Surjection
  <2>. QED  BY <2>1, <2>2 DEF Bijection
<1>5. ExistsBijection(Holdings(s), Members(s))
  BY <1>4 DEF ExistsBijection
<1>. QED  BY <1>5, HoldingsFinite, FS_Bijection

\* What a set answers for is what is stored at or below it.
SeenIsMembers ==
    \A s \in Sets : {x \in Elems : Contains(s, x, data, marks)} = Members(s)

\* The invariant makes sizes and contains() exact.
LEMMA PromiseExact == PromiseInv => SizeExact /\ SeenIsMembers
<1>. SUFFICES ASSUME PromiseInv PROVE SizeExact /\ SeenIsMembers
  OBVIOUS
<1>1. SizeExact
  BY HoldingsAreMembers DEF PromiseInv, SizeHolds, SizeExact
<1>2. Exact(marks, data) /\ data \in [Sets -> SUBSET Elems]
  BY DEF PromiseInv, EndsInv, MarksExact, Exact, IntTypeOK
<1>3. \A s \in Sets, x \in Elems : Contains(s, x, data, marks) <=> x \in Members(s)
  BY <1>2, ExactSees DEF Members
<1>. QED  BY <1>1, <1>3 DEF Members, SeenIsMembers

LEMMA InitPromise == Init => PromiseInv
<1>. SUFFICES ASSUME Init PROVE PromiseInv
  OBVIOUS
<1>1. SizeInv /\ EndsInv
  BY InitSizeInv, InitEnds
<1>2. OneHolder
  BY DEF Init, OneHolder
<1>3. ASSUME NEW s \in Sets PROVE size[s] = Cardinality(Holdings(s))
  <2>1. Holdings(s) = {}
    BY DEF Init, Holdings
  <2>. QED  BY <2>1, FS_EmptySet DEF Init
<1>. QED  BY <1>1, <1>2, <1>3 DEF PromiseInv, SizeHolds

LEMMA RemoveKeepsPromise ==
    ASSUME PromiseInv, NEW s \in Sets, NEW x \in Elems, InnerRemove(s, x)
    PROVE  OneHolder' /\ SizeHolds'
<1>1. Found(s, x) \in SUBSET Sets /\ data' = DataWithout(Found(s, x), x)
  BY HoldersTyped DEF InnerRemove
<1>2. OneHolder'
  BY <1>1, DropKeepsOneHolder DEF PromiseInv, EndsInv
<1>. QED  BY <1>2, RemoveKeepsSize DEF PromiseInv

LEMMA NextPromise ==
    ASSUME NoMiddleData, Exclusive
    PROVE  PromiseInv /\ [Next]_vars => PromiseInv'
<1>. SUFFICES ASSUME PromiseInv, [Next]_vars PROVE OneHolder' /\ SizeHolds'
  BY NextSizeInv, NextEnds DEF PromiseInv
<1>0. IntTypeOK /\ EndsInv /\ OneHolder /\ SizeHolds
  BY DEF PromiseInv, EndsInv
<1>1. ASSUME NEW s \in AddSets, NEW x \in Elems, Add(s, x) PROVE OneHolder' /\ SizeHolds'
  BY <1>0, <1>1, AddKeepsOneHolder, AddKeepsSize
<1>2. CASE UNCHANGED <<data, size>>
  BY <1>0, <1>2 DEF OneHolder, SizeHolds, Holdings
<1>3. ASSUME NEW s \in AddSets, NEW x \in Elems, AddThrows(s, x) PROVE OneHolder' /\ SizeHolds'
  BY <1>0, <1>2, <1>3, AddThrowsChangesNothing DEF vars
<1>4. ASSUME NEW s \in Sets, NEW x \in Elems, Remove(s, x) PROVE OneHolder' /\ SizeHolds'
  BY <1>4, RemoveKeepsPromise DEF Remove
<1>5. CASE ClearStep
  <2>1. PICK t \in FrontSets(clearing) : \E x \in data[t] : InnerRemove(clearing, x)
    BY <1>5 DEF ClearStep
  <2>2. t \in Sets /\ clearing \in Sets /\ data[t] \subseteq Elems
    BY <1>0, <1>5 DEF ClearStep, IntTypeOK, FrontSets, Reach
  <2>. QED  BY <2>1, <2>2, RemoveKeepsPromise
<1>. QED  BY <1>1, <1>2, <1>3, <1>4, <1>5 DEF Next, ClearBegin, ClearEnd, vars

\* size() is the number of members.
THEOREM ExactSize ==
    ASSUME NoMiddleData, Exclusive
    PROVE  Spec => []SizeExact
<1>1. PromiseInv /\ [Next]_vars => PromiseInv'
  BY NextPromise
<1>2. PromiseInv => SizeExact
  BY PromiseExact
<1>. QED  BY InitPromise, <1>1, <1>2, PTL DEF Spec

-----------------------------------------------------------------------------
(* The end of clear() *)

\* With exact marks clear() finds nothing at the front only when nothing is left.
LEMMA ClearEndEmpty ==
    ASSUME PromiseInv, ClearEnd
    PROVE  Members(clearing) = {} /\ size[clearing] = 0
<1>. DEFINE s == clearing
            next == [u \in Sets |-> IF data[u] = {} THEN marks[u] ELSE {}]
            C == {u \in Sets : u = s \/ data[u] # {}}
<1>1. s \in Sets /\ MarksExact /\ marks \in [Sets -> SUBSET Sets]
  BY DEF ClearEnd, PromiseInv, EndsInv, IntTypeOK
<1>2. PICK t \in Sets : t \in Reach({s}, next) /\ data[t] = {} /\ marks[t] = {}
  BY DEF ClearEnd, FrontSets, Reach
<1>3. Reach({s}, next) \subseteq C
  <2>1. {s} \subseteq C /\ C \in SUBSET Sets
    BY <1>1
  <2>2. \A u \in C : next[u] \subseteq C
    BY <1>1 DEF MarksExact
  <2>. HIDE DEF C, next
  <2>. QED  BY <2>1, <2>2, ReachLeast
<1>4. data[s] = {} /\ marks[s] = {}
  BY <1>2, <1>3
<1>5. Members(s) = {}
  BY <1>1, <1>4 DEF Members, MarksExact
<1>6. size[s] = Cardinality(Members(s))
  BY <1>1, PromiseExact DEF SizeExact
<1>. QED  BY <1>5, <1>6, FS_EmptySet

\* clear() ends with nothing stored at or below the set, and size() zero.
THEOREM ClearEmpties ==
    ASSUME NoMiddleData, Exclusive
    PROVE  Spec => ClearLeavesEmpty
<1>1. PromiseInv /\ [Next]_vars => PromiseInv'
  BY NextPromise
<1>2. PromiseInv /\ [Next]_vars =>
        [ClearEnd => Members(clearing) = {} /\ size[clearing] = 0]_vars
  BY ClearEndEmpty
<1>. QED  BY InitPromise, <1>1, <1>2, PTL DEF Spec, ClearLeavesEmpty

-----------------------------------------------------------------------------
(* Refinement *)

\* The two copies of FiniteSets have the same Cardinality.
LEMMA SameCardinality == \A S : Promise!Cardinality(S) = Cardinality(S)
BY ZenonT(20) DEF Promise!Cardinality, Cardinality

\* The invariant after a step says what every set contains then, and its size.
LEMMA PromiseExactAfter == PromiseInv' => SizeExact' /\ SeenIsMembers'
BY PromiseExact, PTL

LEMMA MappedAfter ==
    ASSUME PromiseInv'
    PROVE  /\ [u \in Sets |-> {y \in Elems : Contains(u, y, data, marks)}]'
                = [u \in Sets |-> Members(u)']
           /\ Promise!Counted
<1>1. SizeExact' /\ SeenIsMembers'
  BY PromiseExactAfter
<1>2. size' \in [Sets -> Int]
  BY DEF PromiseInv, SizeInv, IntTypeOK
<1>3. [u \in Sets |-> {y \in Elems : Contains(u, y, data, marks)}]' = [u \in Sets |-> Members(u)']
  BY <1>1 DEF SeenIsMembers
<1>4. size' = [u \in Sets |-> Cardinality(Members(u)')]
  BY <1>1, <1>2 DEF SizeExact
<1>5. Promise!Counted
  BY <1>3, <1>4, SameCardinality DEF Promise!Counted
<1>. QED  BY <1>3, <1>5

\* An add by an Exclusive client finds no holder at or below the set, and makes the
\* element a member of the set and of what is above it.
LEMMA AddMembers ==
    ASSUME NoMiddleData, EndsInv, OneHolder,
           NEW s \in AddSets, NEW x \in Elems, Add(s, x)
    PROVE  /\ \A t \in Sets : s \in Closure[t] => x \notin data[t]
           /\ \A u \in Sets :
                Members(u)' = IF u \in Closure[s] THEN Members(u) \cup {x} ELSE Members(u)
<1>. DEFINE H == Movers(s, x)
            d == DataWithout(H, x)
<1>0. s \in Sets /\ H \in SUBSET Sets /\ IntTypeOK /\ d \in [Sets -> SUBSET Elems]
  BY ClientAssumption, HoldersTyped, WithoutTyped DEF EndsInv
<1>1. data' = [d EXCEPT ![s] = @ \cup {x}]
  BY DEF Add
<1>2. \A t \in Sets : s \in Closure[t] => x \notin d[t]
  BY AddNoneBelow
<1>3. \A t \in Sets, y \in Elems : y \in d[t] <=> y \in data[t] /\ ~(t \in H /\ y = x)
  BY <1>0 DEF DataWithout, IntTypeOK
<1>. HIDE DEF d
<1>4. ASSUME NEW t \in Sets, s \in Closure[t] PROVE x \notin data[t]
  <2>1. CASE t \in H
    <3>1. t \in Closure[s] /\ t # s
      BY <1>0, <2>1, HoldersTyped
    <3>. QED  BY <1>0, <1>4, <3>1, ClosureAntisym
  <2>2. CASE t \notin H
    BY <1>2, <1>3, <1>4, <2>2
  <2>. QED  BY <2>1, <2>2
<1>5. \A t \in Sets, y \in Elems : y \in data'[t] <=> y \in d[t] \/ (t = s /\ y = x)
  BY <1>0, <1>1
<1>6. ASSUME NEW u \in Sets, NEW y \in Elems
      PROVE  y \in Members(u)' <=> y \in Members(u) \/ (u \in Closure[s] /\ y = x)
  <2>1. CASE y # x
    BY <1>3, <1>5, <2>1 DEF Members
  <2>2. CASE y = x /\ u \in Closure[s]
    BY <1>0, <1>5, <2>2 DEF Members
  <2>3. CASE y = x /\ u \notin Closure[s]
    <3>1. \A t \in Sets : u \in Closure[t] => t \notin H /\ t # s
      BY <1>0, <2>3, HoldersTyped, ClosureFacts
    <3>. QED  BY <1>3, <1>5, <2>3, <3>1 DEF Members
  <2>. QED  BY <2>1, <2>2, <2>3
<1>7. ASSUME NEW u \in Sets
      PROVE  Members(u)' = IF u \in Closure[s] THEN Members(u) \cup {x} ELSE Members(u)
  <2>1. Members(u) \subseteq Elems /\ Members(u)' \subseteq Elems
    BY DEF Members
  <2>. QED  BY <1>6, <2>1
<1>. QED  BY <1>4, <1>7

\* A removal takes the element out of its one holder and of what is above that.
LEMMA RemoveMembers ==
    ASSUME EndsInv, OneHolder, NEW s \in Sets, NEW x \in Elems, InnerRemove(s, x)
    PROVE  \E w \in Sets :
             /\ s \in Closure[w] /\ x \in data[w]
             /\ size' = [u \in Sets |-> size[u] - IF u \in Closure[w] THEN 1 ELSE 0]
             /\ \A u \in Sets :
                  Members(u)' = IF u \in Closure[w] THEN Members(u) \ {x} ELSE Members(u)
<1>0. IntTypeOK
  BY DEF EndsInv
<1>1. PICK w \in Found(s, x) :
        size' = [u \in Sets |-> size[u] - IF u \in Closure[w] THEN 1 ELSE 0]
  BY DEF InnerRemove
<1>2. /\ Found(s, x) = {w} /\ w \in Sets /\ s \in Closure[w] /\ x \in data[w]
      /\ data' = DataWithout({w}, x)
  BY <1>1, FoundOne, HoldersTyped DEF InnerRemove
<1>3. \A t \in Sets, y \in Elems : y \in data'[t] <=> y \in data[t] /\ ~(t = w /\ y = x)
  BY <1>0, <1>2 DEF DataWithout, IntTypeOK
<1>4. ASSUME NEW u \in Sets, NEW y \in Elems
      PROVE  y \in Members(u)' <=> y \in Members(u) /\ ~(u \in Closure[w] /\ y = x)
  <2>1. CASE y # x
    BY <1>3, <2>1 DEF Members
  <2>2. CASE y = x /\ u \in Closure[w]
    <3>1. ASSUME NEW t \in Sets, u \in Closure[t], x \in data[t] PROVE t = w
      <4>1. u \in Closure[t] \cap Closure[w]
        BY <2>2, <3>1
      <4>. QED  BY <1>2, <3>1, <4>1 DEF OneHolder
    <3>. QED  BY <1>3, <2>2, <3>1 DEF Members
  <2>3. CASE y = x /\ u \notin Closure[w]
    BY <1>3, <2>3 DEF Members
  <2>. QED  BY <2>1, <2>2, <2>3
<1>5. ASSUME NEW u \in Sets
      PROVE  Members(u)' = IF u \in Closure[w] THEN Members(u) \ {x} ELSE Members(u)
  <2>1. Members(u) \subseteq Elems /\ Members(u)' \subseteq Elems
    BY DEF Members
  <2>. QED  BY <1>4, <2>1
<1>. QED  BY <1>1, <1>2, <1>5

LEMMA AddImplements ==
    ASSUME NoMiddleData, Exclusive, PromiseInv, PromiseInv',
           NEW s \in AddSets, NEW x \in Elems, Add(s, x)
    PROVE  Promise!Add(s, x)
<1>0. s \in Sets /\ EndsInv /\ OneHolder /\ ClientAdds(s, x)
  BY ClientAssumption DEF PromiseInv, Add
<1>1. /\ \A t \in Sets : s \in Closure[t] => x \notin data[t]
      /\ \A u \in Sets :
           Members(u)' = IF u \in Closure[s] THEN Members(u) \cup {x} ELSE Members(u)
  BY <1>0, AddMembers
<1>2. x \notin Members(s)
  BY <1>1 DEF Members
<1>3. ASSUME NEW u \in Sets, x \in Members(u), Closure[u] \cap Closure[s] # {}
      PROVE  u \in Closure[s]
  <2>1. PICK t \in Sets : u \in Closure[t] /\ x \in data[t]
    BY <1>3 DEF Members
  <2>2. Closure[u] \subseteq Closure[t]
    BY <2>1, ClosureFacts
  <2>3. t \in Closure[s]
    BY <1>0, <1>1, <1>3, <2>1, <2>2 DEF ClientAdds
  <2>. QED  BY <1>0, <2>1, <2>3, ClosureFacts
<1>4. SeenIsMembers
  BY PromiseExact
<1>5. /\ [u \in Sets |-> {y \in Elems : Contains(u, y, data, marks)}]'
            = [u \in Sets |-> Members(u)']
       /\ Promise!Counted
  BY MappedAfter
<1>. QED  BY <1>0, <1>1, <1>2, <1>3, <1>4, <1>5 DEF Promise!Add, SeenIsMembers

LEMMA RemoveImplements ==
    ASSUME PromiseInv, PromiseInv', NEW s \in Sets, NEW x \in Elems, InnerRemove(s, x)
    PROVE  Promise!Remove(s, x)
<1>0. EndsInv /\ OneHolder
  BY DEF PromiseInv, EndsInv
<1>1. PICK w \in Sets :
        /\ s \in Closure[w] /\ x \in data[w]
        /\ \A u \in Sets :
             Members(u)' = IF u \in Closure[w] THEN Members(u) \ {x} ELSE Members(u)
  BY <1>0, RemoveMembers
<1>2. x \in Members(w)
  BY <1>1, ClosureFacts DEF Members
<1>3. ASSUME NEW u \in Sets \ {w}, w \in Closure[u]
      PROVE  x \notin Members(u)
  <2>1. SUFFICES ASSUME NEW t \in Sets, u \in Closure[t], x \in data[t] PROVE FALSE
    BY DEF Members
  <2>2. w \in Closure[t] /\ w \in Closure[w]
    BY <1>3, <2>1, ClosureFacts
  <2>3. t = w
    BY <1>0, <1>1, <2>1, <2>2 DEF OneHolder
  <2>. QED  BY <1>3, <2>1, <2>3, ClosureAntisym
<1>4. SeenIsMembers
  BY PromiseExact
<1>5. /\ [u \in Sets |-> {y \in Elems : Contains(u, y, data, marks)}]'
            = [u \in Sets |-> Members(u)']
       /\ Promise!Counted
  BY MappedAfter
<1>6. [u \in Sets |-> Members(u)'] =
        [u \in Sets |-> IF u \in Closure[w] THEN Members(u) \ {x} ELSE Members(u)]
  BY <1>1
<1>7. [u \in Sets |-> {y \in Elems : Contains(u, y, data, marks)}] = [u \in Sets |-> Members(u)]
  BY <1>4 DEF SeenIsMembers
<1>8. /\ x \in [u \in Sets |-> Members(u)][w]
      /\ \A u \in Sets \ {w} : w \in Closure[u] => x \notin [v \in Sets |-> Members(v)][u]
      /\ [u \in Sets |-> Members(u)'] =
           [u \in Sets |-> IF u \in Closure[w] THEN [v \in Sets |-> Members(v)][u] \ {x}
                           ELSE [v \in Sets |-> Members(v)][u]]
  BY <1>2, <1>3, <1>6
<1>. QED  BY <1>1, <1>5, <1>7, <1>8 DEF Promise!Remove

LEMMA InitImplements == Init => Promise!Init
<1>. SUFFICES ASSUME Init PROVE Promise!Init
  OBVIOUS
<1>1. SeenIsMembers
  BY InitPromise, PromiseExact
<1>2. \A u \in Sets : Members(u) = {}
  BY DEF Init, Members
<1>. QED  BY <1>1, <1>2 DEF Init, Promise!Init, SeenIsMembers

LEMMA NextImplements ==
    ASSUME NoMiddleData, Exclusive
    PROVE  PromiseInv /\ PromiseInv' /\ [Next]_vars => [Promise!Next]_(Promise!mvars)
<1>. SUFFICES ASSUME PromiseInv, PromiseInv', [Next]_vars
              PROVE  Promise!Next \/ UNCHANGED Promise!mvars
  OBVIOUS
<1>0. IntTypeOK /\ EndsInv /\ OneHolder
  BY DEF PromiseInv, EndsInv
<1>1. CASE UNCHANGED <<data, marks, size>>
  BY <1>1 DEF Promise!mvars, Contains, Visible
<1>2. ASSUME NEW s \in AddSets, NEW x \in Elems, Add(s, x) PROVE Promise!Next
  BY <1>2, AddImplements, ClientAssumption DEF Promise!Next
<1>3. ASSUME NEW s \in AddSets, NEW x \in Elems, AddThrows(s, x)
      PROVE  Promise!Next \/ UNCHANGED Promise!mvars
  <2>1. UNCHANGED vars
    BY <1>0, <1>3, AddThrowsChangesNothing
  <2>2. UNCHANGED <<data, marks, size>>
    BY <2>1 DEF vars
  <2>. QED  BY <1>1, <2>2
<1>4. ASSUME NEW s \in Sets, NEW x \in Elems, Remove(s, x) PROVE Promise!Next
  BY <1>4, RemoveImplements DEF Remove, Promise!Next
<1>5. CASE ClearStep
  <2>1. PICK t \in FrontSets(clearing) : \E x \in data[t] : InnerRemove(clearing, x)
    BY <1>5 DEF ClearStep
  <2>2. t \in Sets /\ clearing \in Sets /\ data[t] \subseteq Elems
    BY <1>0, <1>5 DEF ClearStep, IntTypeOK, FrontSets, Reach
  <2>. QED  BY <2>1, <2>2, RemoveImplements DEF Promise!Next
<1>. QED  BY <1>1, <1>2, <1>3, <1>4, <1>5 DEF Next, ClearBegin, ClearEnd, vars

\* Seen through contains() and size(), the sets do what MemberSets says: an add
\* shows in every superset, a removal everywhere above the set that had the element.
THEOREM Implements ==
    ASSUME NoMiddleData, Exclusive
    PROVE  Spec => ImplementsMemberSets
<1>1. PromiseInv /\ [Next]_vars => PromiseInv'
  BY NextPromise
<1>2. PromiseInv /\ PromiseInv' /\ [Next]_vars => [Promise!Next]_(Promise!mvars)
  BY NextImplements
<1>. QED
  BY InitPromise, InitImplements, <1>1, <1>2, PTL DEF Spec, ImplementsMemberSets, Promise!Spec

=============================================================================
