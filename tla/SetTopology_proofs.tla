-------------------------- MODULE SetTopology_proofs --------------------------
(***************************************************************************)
(* Theorems about SetTopology, for any declarations: while the sets of an  *)
(* element are declared, in any order, sets related by redefinition have   *)
(* one root and keep a composition, and if no set subsets one it is        *)
(* related to by redefinition, the edges are the declared ones.            *)
(***************************************************************************)
EXTENDS ElementSets, SubsetSets_proofs

\* Roots, the groups they know, and the compositions at them.
RootInv ==
    /\ \A x \in AllSets : root[x] \in AllSets /\ root[root[x]] = root[x]
    /\ \A x, y \in AllSets : root[x] = x => (y \in redefined[x] <=> root[y] = x /\ y # x)
    /\ \A x, y \in AllSets : <<"redefines", x, y>> \in made => root[x] = root[y]
    /\ \A x \in AllSets : comp[x] # "NONE" => comp[root[x]] # "NONE"

Declared(p, u) ==
    \E x, y \in AllSets : <<"subsets", x, y>> \in made /\ root[x] = p /\ root[y] = u

EdgeInv ==
    \A p, u \in AllSets : (u \in supers[p] <=> Declared(p, u)) /\ (p \in subs[u] <=> Declared(p, u))

DeclaredInv == TopologyTypeOK /\ (alive = AllSets => RootInv)

\* The groups of redefinition have names g, and no set subsets one of its own group.
Grouped(g) ==
    /\ \A p \in RedefinesCalls : g[p[1]] = g[p[2]]
    /\ \A p \in SubsetsCalls : g[p[1]] # g[p[2]]

GraphInv(g) == alive = AllSets => EdgeInv /\ \A x \in AllSets : g[root[x]] = g[x]

-----------------------------------------------------------------------------

LEMMA InitDeclared == TopologyInit => DeclaredInv
BY CallsAssumption DEF TopologyInit, DeclaredInv, TopologyTypeOK, RootInv, Compositions

\* The calls and their arguments.
LEMMA CallFacts ==
    /\ \A x, y : <<"subsets", x, y>> \in Calls => <<x, y>> \in SubsetsCalls
    /\ \A x, y : <<"redefines", x, y>> \in Calls => <<x, y>> \in RedefinesCalls
    /\ \A x, c : <<"composition", x, c>> \in Calls => c # "NONE" /\ c \in Compositions
<1>1. \A p \in SubsetsCalls \cup RedefinesCalls : p = <<p[1], p[2]>>
  BY CallsAssumption
<1>2. \A p \in CompositionCalls : p[2] \in Compositions /\ p[2] # "NONE"
  BY CallsAssumption
<1> QED
  BY <1>1, <1>2 DEF Calls

LEMMA MovedTyped ==
    ASSUME NEW over \in [AllSets -> SUBSET AllSets], NEW back \in [AllSets -> SUBSET AllSets],
           NEW s \in AllSets, NEW r \in AllSets
    PROVE  Moved(over, back, s, r) \in [AllSets -> SUBSET AllSets]
<1>1. Repointed(over, back, s, r) \in [AllSets -> SUBSET AllSets]
  BY DEF Repointed
<1> QED
  BY <1>1 DEF Moved

\* Who has which root after s has redefined a set with root r.
LEMMA RedefinesRoots ==
    ASSUME TopologyTypeOK, RootInv, NEW s \in AllSets, NEW t \in AllSets, Redefines(s, t)
    PROVE  /\ root[t] \in AllSets /\ root[t] # s /\ root[s] = s /\ root[root[t]] = root[t] /\ s # t
           /\ \A x \in AllSets : root'[x] = IF root[x] = root[t] THEN s ELSE root[x]
<1> DEFINE r == root[t]
<1>1. root[s] = s /\ r # s /\ r \in AllSets /\ root[r] = r
  BY DEF Redefines, ClientRedefines, RootInv
<1>2. root' = [x \in AllSets |-> IF x \in Group(s, r) THEN s ELSE root[x]]
  BY DEF Redefines
<1>3. \A x \in AllSets : x \in Group(s, r) <=> root[x] = r \/ x = s
  BY <1>1 DEF Group, RootInv
<1>4. \A x \in AllSets : root'[x] = IF root[x] = r THEN s ELSE root[x]
  BY <1>1, <1>2, <1>3
<1> QED
  BY <1>1, <1>4

LEMMA TypeStep == ASSUME DeclaredInv, TopologyNext PROVE TopologyTypeOK'
<1> USE DEF TopologyTypeOK, DeclaredInv
<1>1. ASSUME NEW s \in AllSets, NEW t \in AllSets, Subsets(s, t)
      PROVE  TopologyTypeOK'
  <2>1. root[s] \in AllSets /\ root[t] \in AllSets
    BY <1>1 DEF Subsets, RootInv
  <2>2. /\ supers' \in [AllSets -> SUBSET AllSets] /\ subs' \in [AllSets -> SUBSET AllSets]
        /\ comp' \in [AllSets -> Compositions]
    BY <1>1, <2>1 DEF Subsets
  <2> QED
    BY <1>1, <2>2 DEF Subsets
<1>2. ASSUME NEW s \in AllSets, NEW t \in AllSets, Redefines(s, t)
      PROVE  TopologyTypeOK'
  <2>1. RootInv /\ root[t] \in AllSets
    BY <1>2, RedefinesRoots DEF Redefines
  <2>2. supers' \in [AllSets -> SUBSET AllSets] /\ subs' \in [AllSets -> SUBSET AllSets]
    BY <1>2, <2>1, MovedTyped DEF Redefines
  <2>3. redefined' \in [AllSets -> SUBSET AllSets]
    BY <1>2, <2>1 DEF Redefines
  <2>4. root' \in [AllSets -> AllSets \cup {NullSet}]
    BY <1>2 DEF Redefines
  <2>5. comp' \in [AllSets -> Compositions]
    BY <1>2, <2>1 DEF Redefines, CompositionRedefined
  <2> QED
    BY <1>2, <2>2, <2>3, <2>4, <2>5 DEF Redefines
<1>3. ASSUME NEW s \in AllSets, NEW c \in Compositions, SetComposition(s, c)
      PROVE  TopologyTypeOK'
  BY <1>3 DEF SetComposition
<1>4. ASSUME NEW s \in AllSets, Destroy(s)
      PROVE  TopologyTypeOK'
  <2>1. supers' \in [AllSets -> SUBSET AllSets] /\ subs' \in [AllSets -> SUBSET AllSets]
    BY <1>4 DEF Destroy, Dropped
  <2> QED
    BY <1>4, <2>1 DEF Destroy
<1> QED
  BY <1>1, <1>2, <1>3, <1>4 DEF TopologyNext, Declare

\* A destroyed set never comes back.
LEMMA AliveStep ==
    ASSUME TopologyTypeOK, TopologyNext, alive' = AllSets
    PROVE  /\ alive = AllSets
           /\ \E s \in AllSets :
                \/ \E t \in AllSets : Subsets(s, t) \/ Redefines(s, t)
                \/ \E c \in Compositions : SetComposition(s, c)
BY DEF TopologyTypeOK, TopologyNext, Declare, Subsets, Redefines, SetComposition, Destroy

LEMMA RootStep == ASSUME DeclaredInv, TopologyNext, alive' = AllSets PROVE RootInv'
<1>0. TopologyTypeOK /\ RootInv
  BY AliveStep DEF DeclaredInv
<1>1. ASSUME NEW s \in AllSets, NEW t \in AllSets, Subsets(s, t)
      PROVE  RootInv'
  <2>1. UNCHANGED <<redefined, root>> /\ made' = made \cup {<<"subsets", s, t>>}
    BY <1>1 DEF Subsets
  <2>2. /\ root[s] \in AllSets /\ root[t] \in AllSets
        /\ comp' = IF comp[root[t]] = "NONE" THEN comp ELSE [comp EXCEPT ![root[s]] = comp[root[t]]]
    BY <1>0, <1>1 DEF Subsets, RootInv
  <2>3. \A x \in AllSets : comp[x] # "NONE" => comp'[x] # "NONE"
    BY <1>0, <2>2 DEF TopologyTypeOK
  <2>4. \A x \in AllSets : comp'[x] # comp[x] => x = root[s]
    BY <1>0, <2>2 DEF TopologyTypeOK
  <2>5. \A x \in AllSets : comp'[x] # "NONE" => comp'[root[x]] # "NONE"
    BY <1>0, <2>3, <2>4 DEF RootInv
  <2> QED
    BY <1>0, <2>1, <2>5 DEF RootInv
<1>2. ASSUME NEW s \in AllSets, NEW t \in AllSets, Redefines(s, t)
      PROVE  RootInv'
  <2> DEFINE r == root[t]
  <2>1. /\ r \in AllSets /\ r # s /\ root[s] = s /\ root[r] = r /\ s # t
        /\ \A x \in AllSets : root'[x] = IF root[x] = r THEN s ELSE root[x]
    BY <1>0, <1>2, RedefinesRoots
  <2>2. \A x \in AllSets : root'[x] \in AllSets /\ root'[root'[x]] = root'[x]
    BY <1>0, <2>1 DEF RootInv
  <2>3. redefined' = [x \in AllSets |->
               IF x = r THEN {}
               ELSE IF x = s THEN redefined[s] \cup redefined[r] \cup {r}
               ELSE IF x \in redefined[r] THEN (redefined[x] \ {r}) \cup {s}
               ELSE redefined[x]]
    BY <1>2 DEF Redefines
  <2>4. ASSUME NEW x \in AllSets, NEW y \in AllSets, root'[x] = x
        PROVE  y \in redefined'[x] <=> root'[y] = x /\ y # x
    <3>1. x # r /\ root[x] = x /\ x \notin redefined[r]
      BY <1>0, <2>1, <2>4 DEF RootInv
    <3>2. CASE x = s
      BY <1>0, <2>1, <2>3, <3>1, <3>2 DEF RootInv
    <3>3. CASE x # s
      BY <1>0, <2>1, <2>3, <3>1, <3>3 DEF RootInv
    <3> QED
      BY <3>2, <3>3
  <2>5. ASSUME NEW x \in AllSets, NEW y \in AllSets, <<"redefines", x, y>> \in made'
        PROVE  root'[x] = root'[y]
    <3>1. <<"redefines", x, y>> \in made \/ (x = s /\ y = t)
      BY <1>2, <2>5 DEF Redefines
    <3> QED
      BY <1>0, <2>1, <3>1 DEF RootInv
  <2>6. comp' = IF comp[s] # "NONE" THEN [comp EXCEPT ![t] = comp[s]]
                ELSE [comp EXCEPT ![s] = comp[r]]
    BY <1>2 DEF Redefines, CompositionRedefined
  <2>7. ASSUME NEW x \in AllSets, comp'[x] # "NONE"
        PROVE  comp'[root'[x]] # "NONE"
    <3>1. CASE comp[s] # "NONE"
      <4>1. comp' = [comp EXCEPT ![t] = comp[s]]
        BY <2>6, <3>1
      <4>2. comp'[s] = comp[s] /\ \A y \in AllSets : comp[y] # "NONE" => comp'[y] # "NONE"
        BY <1>0, <2>1, <3>1, <4>1 DEF TopologyTypeOK
      <4>3. root[x] = r \/ comp[x] # "NONE"
        BY <1>0, <2>7, <4>1 DEF TopologyTypeOK
      <4> QED
        BY <1>0, <2>1, <3>1, <4>2, <4>3 DEF RootInv
    <3>2. CASE comp[s] = "NONE"
      <4>1. comp' = [comp EXCEPT ![s] = comp[r]]
        BY <2>6, <3>2
      <4>2. comp'[s] = comp[r] /\ \A y \in AllSets : y # s => comp'[y] = comp[y]
        BY <1>0, <4>1 DEF TopologyTypeOK
      <4>3. CASE x = s
        BY <2>1, <2>7, <4>3
      <4>4. CASE x # s
        <5>1. comp[root[x]] # "NONE" /\ root[x] # s
          BY <1>0, <2>7, <3>2, <4>2, <4>4 DEF RootInv
        <5> QED
          BY <1>0, <2>1, <4>2, <5>1 DEF RootInv
      <4> QED
        BY <4>3, <4>4
    <3> QED
      BY <3>1, <3>2
  <2> QED
    BY <2>2, <2>4, <2>5, <2>7 DEF RootInv
<1>3. ASSUME NEW s \in AllSets, NEW c \in Compositions, SetComposition(s, c)
      PROVE  RootInv'
  <2>1. UNCHANGED <<redefined, root>> /\ made' = made \cup {<<"composition", s, c>>}
    BY <1>3 DEF SetComposition
  <2>2. c # "NONE" /\ root[s] = s /\ comp' = [comp EXCEPT ![s] = c]
    BY <1>3, CallFacts DEF SetComposition
  <2>3. \A x \in AllSets : comp'[x] = IF x = s THEN c ELSE comp[x]
    BY <1>0, <2>2 DEF TopologyTypeOK
  <2>4. \A x \in AllSets : comp'[x] # "NONE" => comp'[root[x]] # "NONE"
    BY <1>0, <2>2, <2>3 DEF RootInv
  <2> QED
    BY <1>0, <2>1, <2>4 DEF RootInv
<1> QED
  BY <1>0, <1>1, <1>2, <1>3, AliveStep

LEMMA NextDeclared == DeclaredInv /\ [TopologyNext]_topologyVars => DeclaredInv'
<1>1. ASSUME DeclaredInv, UNCHANGED topologyVars PROVE DeclaredInv'
  BY <1>1 DEF topologyVars, DeclaredInv, TopologyTypeOK, RootInv
<1>2. ASSUME DeclaredInv, TopologyNext PROVE DeclaredInv'
  BY <1>2, TypeStep, RootStep DEF DeclaredInv
<1> QED
  BY <1>1, <1>2

\* Every variable keeps its type.
THEOREM TopologyTypeCorrect == TopologySpec => []TopologyTypeOK
BY InitDeclared, NextDeclared, PTL DEF TopologySpec, DeclaredInv

\* Sets related by redefinition have one root, which knows them (abstractSet.h:183-212).
THEOREM OneRoot == TopologySpec => []OneRootPerGroup
<1>1. DeclaredInv => OneRootPerGroup
  <2> SUFFICES ASSUME RootInv
               PROVE  /\ \A s, t \in AllSets : <<"redefines", s, t>> \in made => root[s] = root[t]
                      /\ \A s \in AllSets :
                            /\ root[root[s]] = root[s]
                            /\ redefined[root[s]] \cap AllSets
                                 = {t \in AllSets : root[t] = root[s]} \ {root[s]}
    BY DEF DeclaredInv, TopologyTypeOK, OneRootPerGroup, RootInv
  <2> QED
    BY DEF RootInv
<1> QED
  BY <1>1, InitDeclared, NextDeclared, PTL DEF TopologySpec

\* A group given a composition has one at its root (abstractSet.h:207-211).
THEOREM Composed == TopologySpec => []CompositionKept
<1>1. DeclaredInv => CompositionKept
  BY DEF DeclaredInv, RootInv, CompositionKept
<1> QED
  BY <1>1, InitDeclared, NextDeclared, PTL DEF TopologySpec

-----------------------------------------------------------------------------
(* The edges *)

\* The edges of r become edges of s, at both ends.
LEMMA MovedEdges ==
    ASSUME NEW over \in [AllSets -> SUBSET AllSets], NEW back \in [AllSets -> SUBSET AllSets],
           NEW s \in AllSets, NEW r \in AllSets, r # s,
           \A p, u \in AllSets : u \in over[p] <=> p \in back[u],
           \A p, u \in {r, s} : u \notin over[p],
           NEW p \in AllSets, NEW u \in AllSets
    PROVE  u \in Moved(over, back, s, r)[p] <=>
             \E q, v \in AllSets :
                /\ v \in over[q]
                /\ p = (IF q = r THEN s ELSE q) /\ u = (IF v = r THEN s ELSE v)
<1>1. \A x \in AllSets : u \in Repointed(over, back, s, r)[x] <=>
        IF r \in over[x] THEN u = s \/ (u \in over[x] /\ u # r) ELSE u \in over[x]
  BY DEF Repointed
<1>2. u \in Moved(over, back, s, r)[p] <=>
        p # r /\ (u \in Repointed(over, back, s, r)[p] \/ (p = s /\ u \in over[r]))
  BY DEF Moved
<1>3. CASE p = r
  BY <1>2, <1>3
<1>4. CASE p = s
  <2>1. u \in Moved(over, back, s, r)[p] <=> u \in over[s] \/ u \in over[r]
    BY <1>1, <1>2, <1>4
  <2> QED
    BY <1>4, <2>1
<1>5. CASE p # r /\ p # s
  <2>1. u \in Moved(over, back, s, r)[p] <=>
          IF r \in over[p] THEN u = s \/ (u \in over[p] /\ u # r) ELSE u \in over[p]
    BY <1>1, <1>2, <1>5
  <2> QED
    BY <1>5, <2>1
<1> QED
  BY <1>3, <1>4, <1>5

\* No edge within a group.
LEMMA NoInnerEdge ==
    ASSUME NEW g, Grouped(g), TopologyTypeOK, alive = AllSets, GraphInv(g),
           NEW p \in AllSets, NEW u \in AllSets, u \in supers[p] \/ p \in subs[u]
    PROVE  g[p] # g[u]
<1>1. PICK x \in AllSets, y \in AllSets :
         <<"subsets", x, y>> \in made /\ root[x] = p /\ root[y] = u
  <2>1. EdgeInv
    BY DEF GraphInv
  <2>2. Declared(p, u)
    BY <2>1 DEF EdgeInv
  <2> QED
    BY <2>2 DEF Declared
<1>2. <<x, y>> \in SubsetsCalls
  BY <1>1, CallFacts DEF TopologyTypeOK
<1>3. g[x] # g[y]
  BY <1>2 DEF Grouped
<1> QED
  BY <1>1, <1>3 DEF GraphInv

LEMMA GraphStep ==
    ASSUME NEW g, Grouped(g), DeclaredInv, GraphInv(g), TopologyNext
    PROVE  GraphInv(g)'
<1> SUFFICES ASSUME alive' = AllSets
             PROVE  EdgeInv' /\ \A x \in AllSets : g[root'[x]] = g[x]
  BY DEF GraphInv
<1>0. alive = AllSets /\ TopologyTypeOK /\ RootInv /\ EdgeInv /\ \A x \in AllSets : g[root[x]] = g[x]
  BY AliveStep DEF DeclaredInv, GraphInv
<1>1. ASSUME NEW s \in AllSets, NEW t \in AllSets, Subsets(s, t)
      PROVE  EdgeInv' /\ \A x \in AllSets : g[root'[x]] = g[x]
  <2>1. /\ root' = root /\ made' = made \cup {<<"subsets", s, t>>}
        /\ supers' = [supers EXCEPT ![root[s]] = @ \cup {root[t]}]
        /\ subs' = [subs EXCEPT ![root[t]] = @ \cup {root[s]}]
        /\ root[s] \in AllSets /\ root[t] \in AllSets
    BY <1>0, <1>1 DEF Subsets, RootInv
  <2>2. \A p, u \in AllSets : /\ u \in supers'[p] <=> u \in supers[p] \/ (p = root[s] /\ u = root[t])
                              /\ p \in subs'[u] <=> p \in subs[u] \/ (p = root[s] /\ u = root[t])
    BY <1>0, <2>1 DEF TopologyTypeOK
  <2>3. \A p, u \in AllSets : Declared(p, u)' <=> Declared(p, u) \/ (p = root[s] /\ u = root[t])
    BY <2>1 DEF Declared
  <2> QED
    BY <1>0, <2>1, <2>2, <2>3 DEF EdgeInv
<1>2. ASSUME NEW s \in AllSets, NEW t \in AllSets, Redefines(s, t)
      PROVE  EdgeInv' /\ \A x \in AllSets : g[root'[x]] = g[x]
  <2> DEFINE r == root[t]
             f(x) == IF x = r THEN s ELSE x
  <2>1. /\ r \in AllSets /\ r # s /\ root[s] = s /\ root[r] = r
        /\ \A x \in AllSets : root'[x] = f(root[x])
    BY <1>0, <1>2, RedefinesRoots
  <2>2. g[s] = g[t] /\ g[r] = g[t]
    <3>1. <<s, t>> \in RedefinesCalls
      BY <1>2, CallFacts DEF Redefines
    <3> QED
      BY <1>0, <3>1 DEF Grouped
  <2>3. \A x \in AllSets : g[root'[x]] = g[x]
    BY <1>0, <2>1, <2>2
  <2>4. \A p, u \in {r, s} : u \notin supers[p] /\ u \notin subs[p]
    BY <1>0, <2>1, <2>2, NoInnerEdge
  <2>5. \A p, u \in AllSets : u \in supers[p] <=> p \in subs[u]
    BY <1>0 DEF EdgeInv
  <2>6. supers \in [AllSets -> SUBSET AllSets] /\ subs \in [AllSets -> SUBSET AllSets]
    BY <1>0 DEF TopologyTypeOK
  <2>7. supers' = Moved(supers, subs, s, r) /\ subs' = Moved(subs, supers, s, r)
    BY <1>2 DEF Redefines
  <2>8. \A p, u \in AllSets : u \in supers'[p] <=>
          \E q, v \in AllSets : v \in supers[q] /\ p = f(q) /\ u = f(v)
    BY <2>1, <2>4, <2>5, <2>6, <2>7, MovedEdges
  <2>9. \A p, u \in AllSets : p \in subs'[u] <=>
          \E q, v \in AllSets : q \in subs[v] /\ p = f(q) /\ u = f(v)
    <3>1. \A p, u \in AllSets : u \in subs[p] <=> p \in supers[u]
      BY <2>5
    <3>2. \A p, u \in AllSets : u \in subs'[p] <=>
            \E q, v \in AllSets : v \in subs[q] /\ p = f(q) /\ u = f(v)
      <4>1. \A p, u \in {r, s} : u \notin subs[p]
        BY <2>4
      <4>2. r \in AllSets /\ r # s /\ subs' = Moved(subs, supers, s, r)
        BY <2>1, <2>7
      <4> HIDE DEF r, f
      <4>3. ASSUME NEW p \in AllSets, NEW u \in AllSets
            PROVE  u \in Moved(subs, supers, s, r)[p] <=>
                     \E q, v \in AllSets :
                        /\ v \in subs[q]
                        /\ p = (IF q = r THEN s ELSE q) /\ u = (IF v = r THEN s ELSE v)
        BY <2>6, <3>1, <4>1, <4>2, MovedEdges
      <4> QED
        BY <4>2, <4>3 DEF f
    <3> HIDE DEF f
    <3>3. ASSUME NEW p \in AllSets, NEW u \in AllSets
          PROVE  p \in subs'[u] <=> \E q, v \in AllSets : v \in subs[q] /\ u = f(q) /\ p = f(v)
      BY <3>2
    <3> QED
      BY <3>3
  <2>10. \A p, u \in AllSets : Declared(p, u)' <=>
          \E q, v \in AllSets : Declared(q, v) /\ p = f(q) /\ u = f(v)
    <3>1. \A x, y : <<"subsets", x, y>> \in made' <=> <<"subsets", x, y>> \in made
      BY <1>2 DEF Redefines
    <3>2. \A x \in AllSets : root[x] \in AllSets
      BY <1>0 DEF RootInv
    <3> HIDE DEF f
    <3>3. ASSUME NEW p \in AllSets, NEW u \in AllSets, Declared(p, u)'
          PROVE  \E q, v \in AllSets : Declared(q, v) /\ p = f(q) /\ u = f(v)
      <4>1. PICK x \in AllSets, y \in AllSets :
              <<"subsets", x, y>> \in made /\ root'[x] = p /\ root'[y] = u
        BY <3>1, <3>3 DEF Declared
      <4>2. Declared(root[x], root[y])
        BY <4>1 DEF Declared
      <4> QED
        BY <2>1, <3>2, <4>1, <4>2
    <3>4. ASSUME NEW p \in AllSets, NEW u \in AllSets, NEW q \in AllSets, NEW v \in AllSets,
                 Declared(q, v), p = f(q), u = f(v)
          PROVE  Declared(p, u)'
      <4>1. PICK x \in AllSets, y \in AllSets :
              <<"subsets", x, y>> \in made /\ root[x] = q /\ root[y] = v
        BY <3>4 DEF Declared
      <4>2. root'[x] = p /\ root'[y] = u
        BY <2>1, <3>4, <4>1
      <4> QED
        BY <3>1, <4>1, <4>2 DEF Declared
    <3> QED
      BY <3>3, <3>4
  <2> HIDE DEF f
  <2>11. \A q, v \in AllSets : (v \in supers[q] <=> Declared(q, v)) /\ (q \in subs[v] <=> Declared(q, v))
    BY <1>0 DEF EdgeInv
  <2>12. \A p, u \in AllSets :
           (u \in supers'[p] <=> Declared(p, u)') /\ (p \in subs'[u] <=> Declared(p, u)')
    BY <2>8, <2>9, <2>10, <2>11
  <2> QED
    BY <2>3, <2>12 DEF EdgeInv
<1>3. ASSUME NEW s \in AllSets, NEW c \in Compositions, SetComposition(s, c)
      PROVE  EdgeInv' /\ \A x \in AllSets : g[root'[x]] = g[x]
  <2>1. UNCHANGED <<supers, subs, root>> /\ made' = made \cup {<<"composition", s, c>>}
    BY <1>3 DEF SetComposition
  <2>2. \A p, u \in AllSets : Declared(p, u)' <=> Declared(p, u)
    BY <2>1 DEF Declared
  <2> QED
    BY <1>0, <2>1, <2>2 DEF EdgeInv
<1> QED
  BY <1>1, <1>2, <1>3, AliveStep DEF DeclaredInv

LEMMA NextGraph ==
    ASSUME NEW g, Grouped(g), DeclaredInv, GraphInv(g), [TopologyNext]_topologyVars
    PROVE  GraphInv(g)'
<1>1. CASE UNCHANGED topologyVars
  <2>1. UNCHANGED <<supers, subs, root, made, alive>>
    BY <1>1 DEF topologyVars
  <2>2. \A p, u \in AllSets : Declared(p, u)' <=> Declared(p, u)
    BY <2>1 DEF Declared
  <2> QED
    BY <2>1, <2>2 DEF GraphInv, EdgeInv
<1> QED
  BY <1>1, GraphStep

\* If no set subsets one it is related to by redefinition, the edges are the declared
\* ones, between the roots of the moment (abstractSet.h:174-212).
THEOREM Graph == ASSUME NEW CONSTANT g, Grouped(g) PROVE TopologySpec => []GraphAsDeclared
<1>1. TopologyInit => GraphInv(g)
  BY DEF TopologyInit, GraphInv, EdgeInv, Declared
<1>2. DeclaredInv /\ GraphInv(g) /\ [TopologyNext]_topologyVars => GraphInv(g)'
  BY NextGraph
<1>3. GraphInv(g) => GraphAsDeclared
  <2> SUFFICES ASSUME GraphInv(g), alive = AllSets, NEW r \in AllSets, NEW u \in AllSets
               PROVE  /\ u \in supers[r] <=> \E s \in AllSets, t \in AllSets :
                            /\ <<"subsets", s, t>> \in made
                            /\ root[s] = r /\ root[t] = u
                      /\ r \in subs[u] <=> \E s \in AllSets, t \in AllSets :
                            /\ <<"subsets", s, t>> \in made
                            /\ root[s] = r /\ root[t] = u
    BY Zenon DEF GraphAsDeclared
  <2>1. (u \in supers[r] <=> Declared(r, u)) /\ (r \in subs[u] <=> Declared(r, u))
    BY DEF GraphInv, EdgeInv
  <2> QED
    BY <2>1 DEF Declared
<1> QED
  BY <1>1, <1>2, <1>3, InitDeclared, NextDeclared, PTL DEF TopologySpec

-----------------------------------------------------------------------------
(* Destruction *)

\* The group of x has the name g[x], a set that redefines all others of the group, itself
\* or through others.
MostDerived(g) ==
    /\ g \in [AllSets -> AllSets]
    /\ \A x \in AllSets : \A C \in SUBSET AllSets :
          x \in C /\ (\A p \in RedefinesCalls : p[2] \in C => p[1] \in C) => g[x] \in C

\* A set that was redefined is no root and knows none but its root.
RedefinedInv ==
    /\ \A x, y \in AllSets : <<"redefines", x, y>> \in made => root[y] # y
    /\ \A x \in AllSets : root[x] # x => redefined[x] \subseteq {root[x]}

\* The calls are made before the first set goes, and the sets go in the reverse order.
OrderInv ==
    /\ alive # AllSets => made = Calls
    /\ \A p \in SubsetsCalls \cup RedefinesCalls : p[1] \in alive => p[2] \in alive

\* What stands once all calls are made: the edges of the sets that are alive, both ends
\* of each, and the roots of the groups whose root is alive.
Standing(g) ==
    /\ \A p, u \in AllSets : u \in supers[p] <=> p \in subs[u]
    /\ \A p, u \in AllSets :
          u \in supers[p] => p \in alive /\ u \in alive /\ g[p] = p /\ g[u] = u
    /\ \A x \in AllSets : g[g[x]] = g[x]
    /\ \A x \in alive : root[x] = IF g[x] \in alive THEN g[x] ELSE NullSet
    /\ \A x \in alive :
          redefined[x] \subseteq AllSets
          /\ IF g[x] = x THEN redefined[x] = {y \in AllSets : g[y] = x} \ {x}
             ELSE redefined[x] \subseteq {g[x]}

DestroyInv(g) ==
    /\ OrderInv
    /\ alive = AllSets => RedefinedInv
    /\ alive # AllSets => Standing(g)

LEMMA RedefinedStep ==
    ASSUME DeclaredInv, RedefinedInv, TopologyNext, alive' = AllSets
    PROVE  RedefinedInv'
<1>0. TopologyTypeOK /\ RootInv
  BY AliveStep DEF DeclaredInv
<1>1. ASSUME NEW s \in AllSets, NEW t \in AllSets, Subsets(s, t) PROVE RedefinedInv'
  <2>1. UNCHANGED <<redefined, root>> /\ made' = made \cup {<<"subsets", s, t>>}
    BY <1>1 DEF Subsets
  <2> QED
    BY <2>1 DEF RedefinedInv
<1>2. ASSUME NEW s \in AllSets, NEW t \in AllSets, Redefines(s, t) PROVE RedefinedInv'
  <2> DEFINE r == root[t]
  <2>1. /\ r \in AllSets /\ r # s /\ root[s] = s /\ root[r] = r /\ s # t
        /\ \A x \in AllSets : root'[x] = IF root[x] = r THEN s ELSE root[x]
    BY <1>0, <1>2, RedefinesRoots
  <2>2. /\ redefined' = [x \in AllSets |->
               IF x = r THEN {}
               ELSE IF x = s THEN redefined[s] \cup redefined[r] \cup {r}
               ELSE IF x \in redefined[r] THEN (redefined[x] \ {r}) \cup {s}
               ELSE redefined[x]]
        /\ made' = made \cup {<<"redefines", s, t>>}
    BY <1>2 DEF Redefines
  <2>3. ASSUME NEW x \in AllSets, NEW y \in AllSets, <<"redefines", x, y>> \in made'
        PROVE  root'[y] # y
    <3>1. <<"redefines", x, y>> \in made \/ y = t
      BY <2>2, <2>3
    <3>2. root[y] # y \/ y = t
      BY <3>1 DEF RedefinedInv
    <3> QED
      BY <2>1, <3>2
  <2>4. ASSUME NEW x \in AllSets, root'[x] # x PROVE redefined'[x] \subseteq {root'[x]}
    <3>1. x # s
      BY <2>1, <2>4
    <3>2. CASE x = r
      BY <2>2, <3>2
    <3>3. CASE x # r /\ root[x] = r
      <4>1. x \in redefined[r] /\ redefined[x] \subseteq {r}
        BY <1>0, <2>1, <3>3 DEF RootInv, RedefinedInv
      <4>2. redefined'[x] = (redefined[x] \ {r}) \cup {s} /\ root'[x] = s
        BY <2>1, <2>2, <3>1, <3>3, <4>1
      <4> QED
        BY <4>1, <4>2
    <3>4. CASE x # r /\ root[x] # r
      <4>1. x \notin redefined[r] /\ root'[x] = root[x]
        BY <1>0, <2>1, <3>4 DEF RootInv
      <4>2. redefined'[x] = redefined[x]
        BY <2>2, <3>1, <3>4, <4>1
      <4> QED
        BY <2>4, <4>1, <4>2 DEF RedefinedInv
    <3> QED
      BY <3>2, <3>3, <3>4
  <2> QED
    BY <2>3, <2>4 DEF RedefinedInv
<1>3. ASSUME NEW s \in AllSets, NEW c \in Compositions, SetComposition(s, c) PROVE RedefinedInv'
  <2>1. UNCHANGED <<redefined, root>> /\ made' = made \cup {<<"composition", s, c>>}
    BY <1>3 DEF SetComposition
  <2> QED
    BY <2>1 DEF RedefinedInv
<1> QED
  BY <1>0, <1>1, <1>2, <1>3, AliveStep

\* When all calls are made every group has the root that it is named for.
LEMMA BuiltStanding ==
    ASSUME NEW g, Grouped(g), MostDerived(g), DeclaredInv, GraphInv(g), RedefinedInv,
           alive = AllSets, made = Calls
    PROVE  /\ \A x \in AllSets : root[x] = g[x]
           /\ Standing(g)
<1>0. /\ TopologyTypeOK /\ RootInv /\ EdgeInv
      /\ \A x \in AllSets : g[root[x]] = g[x]
  BY DEF DeclaredInv, GraphInv
<1>1. ASSUME NEW x \in AllSets PROVE root[x] = g[x]
  <2>1. root[x] \in AllSets /\ root[root[x]] = root[x]
    BY <1>0 DEF RootInv
  <2>2. \A p \in RedefinesCalls : p[2] # root[x]
    <3> SUFFICES ASSUME NEW p \in RedefinesCalls, p[2] = root[x] PROVE FALSE
      OBVIOUS
    <3>1. <<"redefines", p[1], p[2]>> \in made /\ p[1] \in AllSets /\ p[2] \in AllSets
      BY CallsAssumption DEF Calls
    <3> QED
      BY <2>1, <3>1 DEF RedefinedInv
  <2>3. g[root[x]] \in {root[x]}
    <3>1. {root[x]} \in SUBSET AllSets /\ root[x] \in {root[x]}
      BY <2>1
    <3>2. \A p \in RedefinesCalls : p[2] \in {root[x]} => p[1] \in {root[x]}
      BY <2>2
    <3> QED
      BY <2>1, <3>1, <3>2 DEF MostDerived
  <2> QED
    BY <1>0, <2>3
<1>2. \A p, u \in AllSets : u \in supers[p] <=> p \in subs[u]
  BY <1>0 DEF EdgeInv
<1>3. ASSUME NEW p \in AllSets, NEW u \in AllSets, u \in supers[p] PROVE g[p] = p /\ g[u] = u
  <2>1. Declared(p, u)
    BY <1>0, <1>3 DEF EdgeInv
  <2>2. PICK x \in AllSets, y \in AllSets : root[x] = p /\ root[y] = u
    BY <2>1 DEF Declared
  <2> QED
    BY <1>0, <1>1, <2>2 DEF RootInv
<1>4. ASSUME NEW x \in AllSets
      PROVE  /\ redefined[x] \subseteq AllSets
             /\ IF g[x] = x THEN redefined[x] = {y \in AllSets : g[y] = x} \ {x}
                ELSE redefined[x] \subseteq {g[x]}
  <2>1. redefined[x] \subseteq AllSets
    BY <1>0 DEF TopologyTypeOK
  <2>2. CASE g[x] = x
    BY <1>0, <1>1, <2>1, <2>2 DEF RootInv
  <2>3. CASE g[x] # x
    BY <1>1, <2>1, <2>3 DEF RedefinedInv
  <2> QED
    BY <2>1, <2>2, <2>3
<1>5. \A x \in AllSets : g[x] \in AllSets /\ g[g[x]] = g[x]
  BY <1>0, <1>1 DEF RootInv, MostDerived
<1>6. Standing(g)
  BY <1>1, <1>2, <1>3, <1>4, <1>5 DEF Standing
<1> QED
  BY <1>1, <1>6

\* The name of a group goes before the others.
LEMMA NameFirst ==
    ASSUME NEW g, MostDerived(g), OrderInv, NEW s \in AllSets, Destroy(s), g[s] # s
    PROVE  g[s] \notin alive
<1> DEFINE C == (AllSets \ alive) \cup {s}
<1>1. \A p \in RedefinesCalls : p[2] \in C => p[1] \in C
  <2> SUFFICES ASSUME NEW p \in RedefinesCalls, p[2] \in C, p[1] \in alive \ {s} PROVE FALSE
    BY CallsAssumption
  <2>1. p[2] \in alive /\ p = <<p[1], p[2]>>
    BY CallsAssumption DEF OrderInv
  <2> QED
    BY <2>1 DEF Destroy
<1>2. C \in SUBSET AllSets /\ s \in C
  OBVIOUS
<1>3. g[s] \in C
  <2> HIDE DEF C
  <2> QED
    BY <1>1, <1>2 DEF MostDerived
<1> QED
  BY <1>3

LEMMA DestroyStanding ==
    ASSUME NEW g, MostDerived(g), TopologyTypeOK, OrderInv, Standing(g),
           NEW s \in AllSets, Destroy(s)
    PROVE  Standing(g)'
<1>0. /\ s \in alive /\ alive' = alive \ {s} /\ alive \subseteq AllSets
      /\ supers' = Dropped(supers, subs, s) /\ subs' = Dropped(subs, supers, s)
      /\ redefined' = [redefined EXCEPT ![s] = {}]
      /\ root' = [x \in AllSets |-> IF x \in redefined[s] \cup {s} THEN NullSet ELSE root[x]]
      /\ g \in [AllSets -> AllSets]
  BY DEF Destroy, TopologyTypeOK, MostDerived
<1>1. /\ supers \in [AllSets -> SUBSET AllSets] /\ subs \in [AllSets -> SUBSET AllSets]
      /\ redefined \in [AllSets -> SUBSET AllSets]
  BY DEF TopologyTypeOK
<1>2. g[s] # s => g[s] \notin alive
  BY NameFirst
\* s is its own root if it has an edge.
<1>3. \A x \in AllSets : x \in subs[s] \/ x \in supers[s] => root[s] = s
  BY <1>0 DEF Standing
<1>4. \A p, u \in AllSets : u \in supers'[p] <=> u \in supers[p] /\ p # s /\ u # s
  <2> SUFFICES ASSUME NEW p \in AllSets, NEW u \in AllSets
               PROVE  u \in supers'[p] <=> u \in supers[p] /\ p # s /\ u # s
    OBVIOUS
  <2>1. supers'[p] = IF p = s THEN {} ELSE IF p \in subs[s] THEN supers[p] \ {root[s]} ELSE supers[p]
    BY <1>0 DEF Dropped
  <2>2. s \in supers[p] <=> p \in subs[s]
    BY DEF Standing
  <2> QED
    BY <1>3, <2>1, <2>2
<1>5. \A p, u \in AllSets : p \in subs'[u] <=> p \in subs[u] /\ p # s /\ u # s
  <2> SUFFICES ASSUME NEW p \in AllSets, NEW u \in AllSets
               PROVE  p \in subs'[u] <=> p \in subs[u] /\ p # s /\ u # s
    OBVIOUS
  <2>1. subs'[u] = IF u = s THEN {} ELSE IF u \in supers[s] THEN subs[u] \ {root[s]} ELSE subs[u]
    BY <1>0 DEF Dropped
  <2>2. u \in supers[s] <=> s \in subs[u]
    BY DEF Standing
  <2> QED
    BY <1>3, <2>1, <2>2
<1>6. ASSUME NEW x \in alive'
      PROVE  root'[x] = IF g[x] \in alive' THEN g[x] ELSE NullSet
  <2>1. /\ x \in alive /\ x # s /\ x \in AllSets /\ g[x] \in AllSets
        /\ root[x] = IF g[x] \in alive THEN g[x] ELSE NullSet
        /\ root'[x] = IF x \in redefined[s] THEN NullSet ELSE root[x]
    BY <1>0, <1>6 DEF Standing
  <2>2. CASE g[s] = s
    <3>1. x \in redefined[s] <=> g[x] = s
      BY <1>0, <2>1, <2>2 DEF Standing
    <3> QED
      BY <1>0, <2>1, <3>1
  <2>3. CASE g[s] # s
    <3>1. x \notin redefined[s]
      BY <1>0, <1>2, <2>1, <2>3 DEF Standing
    <3>2. g[x] # s
      BY <2>1, <2>3 DEF Standing
    <3> QED
      BY <1>0, <2>1, <3>1, <3>2
  <2> QED
    BY <2>2, <2>3
<1>7. ASSUME NEW x \in alive' PROVE redefined'[x] = redefined[x] /\ x \in alive
  BY <1>0, <1>1, <1>7
<1> QED
  BY <1>0, <1>4, <1>5, <1>6, <1>7 DEF Standing

LEMMA OrderStep ==
    ASSUME TopologyTypeOK, OrderInv, TopologyNext
    PROVE  OrderInv'
<1>1. ASSUME alive = AllSets, alive' = alive PROVE OrderInv'
  BY <1>1, CallsAssumption DEF OrderInv
<1>2. ASSUME NEW s \in AllSets, Destroy(s) PROVE OrderInv'
  <2>1. /\ alive' = alive \ {s} /\ made' = made /\ made = Calls
        /\ \A x \in alive \ {s} : <<x, s>> \notin SubsetsCalls \cup RedefinesCalls
    BY <1>2 DEF Destroy
  <2>2. \A p \in SubsetsCalls \cup RedefinesCalls : p = <<p[1], p[2]>>
    BY CallsAssumption
  <2>3. \A p \in SubsetsCalls \cup RedefinesCalls : p[1] \in alive' => p[2] \in alive'
    BY <2>1, <2>2 DEF OrderInv
  <2> QED
    BY <2>1, <2>3 DEF OrderInv
<1> QED
  BY <1>1, <1>2 DEF TopologyNext, Declare, Subsets, Redefines, SetComposition

LEMMA InitDestroy == ASSUME NEW g, TopologyInit PROVE GraphInv(g) /\ DestroyInv(g)
<1>1. GraphInv(g)
  BY DEF TopologyInit, GraphInv, EdgeInv, Declared
<1>2. RedefinedInv
  BY DEF TopologyInit, RedefinedInv
<1>3. OrderInv
  BY CallsAssumption DEF TopologyInit, OrderInv
<1> QED
  BY <1>1, <1>2, <1>3 DEF TopologyInit, DestroyInv

LEMMA DestroyStep ==
    ASSUME NEW g, Grouped(g), MostDerived(g), DeclaredInv, GraphInv(g), DestroyInv(g), TopologyNext
    PROVE  DestroyInv(g)'
<1>0. TopologyTypeOK /\ OrderInv
  BY DEF DeclaredInv, DestroyInv
<1>1. OrderInv'
  BY <1>0, OrderStep
<1>2. ASSUME alive' = AllSets PROVE RedefinedInv'
  BY <1>0, <1>2, AliveStep, RedefinedStep DEF DestroyInv
<1>3. ASSUME alive' # AllSets PROVE Standing(g)'
  <2>1. PICK s \in AllSets : Destroy(s)
    BY <1>3 DEF TopologyNext, Declare, Subsets, Redefines, SetComposition
  <2>2. Standing(g)
    <3>1. CASE alive = AllSets
      <4>1. made = Calls
        BY <2>1 DEF Destroy
      <4> QED
        BY <3>1, <4>1, BuiltStanding DEF DestroyInv
    <3>2. CASE alive # AllSets
      BY <3>2 DEF DestroyInv
    <3> QED
      BY <3>1, <3>2
  <2> QED
    BY <1>0, <2>1, <2>2, DestroyStanding
<1> QED
  BY <1>1, <1>2, <1>3 DEF DestroyInv

\* All that is known of the edges, in one invariant.
TopologyInv(g) == DeclaredInv /\ GraphInv(g) /\ DestroyInv(g)

LEMMA InitTopology == ASSUME NEW g, TopologyInit PROVE TopologyInv(g)
BY InitDeclared, InitDestroy DEF TopologyInv

LEMMA NextTopology ==
    ASSUME NEW g, Grouped(g), MostDerived(g), TopologyInv(g), [TopologyNext]_topologyVars
    PROVE  TopologyInv(g)'
<1>1. CASE TopologyNext
  BY <1>1, NextDeclared, GraphStep, DestroyStep DEF TopologyInv
<1>2. CASE UNCHANGED topologyVars
  <2>1. UNCHANGED <<supers, subs, redefined, root, comp, made, alive>>
    BY <1>2 DEF topologyVars
  <2>2. DeclaredInv'
    BY <1>2, NextDeclared DEF TopologyInv
  <2>3. GraphInv(g)'
    BY NextGraph DEF TopologyInv
  <2>4. DestroyInv(g)'
    BY <2>1 DEF TopologyInv, DestroyInv, OrderInv, RedefinedInv, Standing
  <2> QED
    BY <2>2, <2>3, <2>4 DEF TopologyInv
<1> QED
  BY <1>1, <1>2

\* If every group has a most derived set, the one that redefines all others, then no set is
\* ever left with an edge or a root that is gone (abstractSet.h:127-173).
THEOREM NoneDangling ==
    ASSUME NEW CONSTANT g, Grouped(g), MostDerived(g)
    PROVE  TopologySpec => []NoDanglingEdges
<1>1. TopologyInv(g) => NoDanglingEdges
  <2> SUFFICES ASSUME TopologyInv(g), NEW s \in alive
               PROVE  supers[s] \cup subs[s] \cup ({root[s]} \ {NullSet}) \subseteq alive
    BY DEF NoDanglingEdges
  <2>1. TopologyTypeOK /\ s \in AllSets /\ supers[s] \subseteq AllSets /\ subs[s] \subseteq AllSets
    BY DEF TopologyInv, DeclaredInv, TopologyTypeOK
  <2>2. CASE alive = AllSets
    BY <2>1, <2>2 DEF TopologyInv, DeclaredInv, RootInv
  <2>3. CASE alive # AllSets
    BY <2>1, <2>3 DEF TopologyInv, DestroyInv, Standing
  <2> QED
    BY <2>2, <2>3
<1>2. TopologyInit => TopologyInv(g)
  BY InitTopology
<1>3. TopologyInv(g) /\ [TopologyNext]_topologyVars => TopologyInv(g)'
  BY NextTopology
<1> QED
  BY <1>1, <1>2, <1>3, PTL DEF TopologySpec

-----------------------------------------------------------------------------
(* Destruction in the exact reverse order of construction *)

\* The sets come into being one after the other, and a set redefines only what is older,
\* with all that redefined it before: born says when.  They go the youngest first.
BornInOrder(born) ==
    /\ \A s, t \in AllSets : Redefines(s, t) =>
          \A x \in AllSets : root[x] = root[t] => born[x] < born[s]
    /\ \A s \in AllSets : Destroy(s) => \A x \in alive \ {s} : born[x] < born[s]

\* A root is the youngest of its group, and the others know none that is older.
YoungRoots(born) ==
    \A x \in AllSets : root[x] # x =>
        born[x] < born[root[x]] /\ redefined[x] \subseteq {root[x]}

\* What stands while the youngest go: the edges of roots that are alive, both ends of each,
\* and the groups whose root is alive.
StandingYoung(born) ==
    /\ \A p, u \in AllSets : u \in supers[p] <=> p \in subs[u]
    /\ \A p, u \in AllSets :
          u \in supers[p] => p \in alive /\ u \in alive /\ root[p] = p /\ root[u] = u
    /\ \A x \in alive : root[x] # NullSet => root[x] \in alive /\ root[root[x]] = root[x]
    /\ \A x, y \in alive : root[x] = x => (y \in redefined[x] <=> root[y] = x /\ y # x)
    /\ \A x \in alive : root[x] # x => \A y \in redefined[x] \cap alive : born[x] < born[y]

YoungInv(born) ==
    /\ alive # AllSets => made = Calls
    /\ alive = AllSets => YoungRoots(born)
    /\ alive # AllSets => StandingYoung(born)

LEMMA YoungStep ==
    ASSUME NEW born, BornInOrder(born), DeclaredInv, YoungRoots(born), TopologyNext, alive' = AllSets
    PROVE  YoungRoots(born)'
<1>0. TopologyTypeOK /\ RootInv
  BY AliveStep DEF DeclaredInv
<1>1. ASSUME UNCHANGED <<redefined, root>> PROVE YoungRoots(born)'
  BY <1>1 DEF YoungRoots
<1>2. ASSUME NEW s \in AllSets, NEW t \in AllSets, Redefines(s, t) PROVE YoungRoots(born)'
  <2> DEFINE r == root[t]
  <2>1. /\ r \in AllSets /\ r # s /\ root[s] = s /\ root[r] = r /\ s # t
        /\ \A x \in AllSets : root'[x] = IF root[x] = r THEN s ELSE root[x]
    BY <1>0, <1>2, RedefinesRoots
  <2>2. redefined' = [x \in AllSets |->
               IF x = r THEN {}
               ELSE IF x = s THEN redefined[s] \cup redefined[r] \cup {r}
               ELSE IF x \in redefined[r] THEN (redefined[x] \ {r}) \cup {s}
               ELSE redefined[x]]
    BY <1>2 DEF Redefines
  <2>3. \A x \in AllSets : root[x] = r => born[x] < born[s]
    BY <1>2 DEF BornInOrder
  <2> HIDE DEF r
  <2> SUFFICES ASSUME NEW x \in AllSets, root'[x] # x
               PROVE  born[x] < born[root'[x]] /\ redefined'[x] \subseteq {root'[x]}
    BY DEF YoungRoots
  <2>4. x # s
    BY <2>1
  <2>5. CASE x = r
    BY <2>1, <2>2, <2>3, <2>5
  <2>6. CASE x # r /\ root[x] = r
    <3>1. x \in redefined[r] /\ redefined[x] \subseteq {r}
      BY <1>0, <2>1, <2>6 DEF RootInv, YoungRoots
    <3>2. redefined'[x] = (redefined[x] \ {r}) \cup {s} /\ root'[x] = s
      BY <2>1, <2>2, <2>4, <2>6, <3>1
    <3> QED
      BY <2>3, <2>6, <3>1, <3>2
  <2>7. CASE x # r /\ root[x] # r
    <3>1. x \notin redefined[r] /\ root'[x] = root[x]
      BY <1>0, <2>1, <2>7 DEF RootInv
    <3>2. redefined'[x] = redefined[x]
      BY <2>2, <2>4, <2>7, <3>1
    <3> QED
      BY <3>1, <3>2 DEF YoungRoots
  <2> QED
    BY <2>5, <2>6, <2>7
<1> QED
  BY <1>0, <1>1, <1>2, AliveStep DEF Subsets, SetComposition

\* What stands when the first set goes.
LEMMA YoungBuilt ==
    ASSUME NEW born, NEW g, DeclaredInv, GraphInv(g), YoungRoots(born), alive = AllSets
    PROVE  StandingYoung(born)
<1>0. TopologyTypeOK /\ RootInv /\ EdgeInv
  BY DEF DeclaredInv, GraphInv
<1>1. \A p, u \in AllSets : u \in supers[p] <=> p \in subs[u]
  BY <1>0 DEF EdgeInv
<1>2. ASSUME NEW p \in AllSets, NEW u \in AllSets, u \in supers[p]
      PROVE  root[p] = p /\ root[u] = u
  <2>1. Declared(p, u)
    BY <1>0, <1>2 DEF EdgeInv
  <2>2. PICK x \in AllSets, y \in AllSets : root[x] = p /\ root[y] = u
    BY <2>1 DEF Declared
  <2> QED
    BY <1>0, <2>2 DEF RootInv
<1>3. \A x \in AllSets : root[x] # x => \A y \in redefined[x] : born[x] < born[y]
  BY DEF YoungRoots
<1> QED
  BY <1>0, <1>1, <1>2, <1>3 DEF StandingYoung, RootInv

\* The youngest set takes its own edges along, and leaves alone the roots of the others
\* unless it is that root.
LEMMA YoungestGoes ==
    ASSUME NEW born \in [AllSets -> Nat], TopologyTypeOK, StandingYoung(born),
           NEW s \in AllSets, Destroy(s), \A x \in alive \ {s} : born[x] < born[s]
    PROVE  StandingYoung(born)'
<1>0. /\ s \in alive /\ alive' = alive \ {s} /\ alive \subseteq AllSets
      /\ supers' = Dropped(supers, subs, s) /\ subs' = Dropped(subs, supers, s)
      /\ redefined' = [redefined EXCEPT ![s] = {}]
      /\ root' = [x \in AllSets |-> IF x \in redefined[s] \cup {s} THEN NullSet ELSE root[x]]
  BY DEF Destroy, TopologyTypeOK
<1>1. /\ supers \in [AllSets -> SUBSET AllSets] /\ subs \in [AllSets -> SUBSET AllSets]
      /\ redefined \in [AllSets -> SUBSET AllSets] /\ NullSet \notin AllSets
  BY CallsAssumption DEF TopologyTypeOK
<1>2. /\ \A p, u \in AllSets : u \in supers[p] <=> p \in subs[u]
      /\ \A p, u \in AllSets :
            u \in supers[p] => p \in alive /\ u \in alive /\ root[p] = p /\ root[u] = u
  BY DEF StandingYoung
<1>3. \A x \in AllSets : x \in subs[s] \/ x \in supers[s] => root[s] = s
  BY <1>2
<1>4. \A p, u \in AllSets : u \in supers'[p] <=> u \in supers[p] /\ p # s /\ u # s
  <2> SUFFICES ASSUME NEW p \in AllSets, NEW u \in AllSets
               PROVE  u \in supers'[p] <=> u \in supers[p] /\ p # s /\ u # s
    OBVIOUS
  <2>1. supers'[p] = IF p = s THEN {} ELSE IF p \in subs[s] THEN supers[p] \ {root[s]} ELSE supers[p]
    BY <1>0 DEF Dropped
  <2>2. s \in supers[p] <=> p \in subs[s]
    BY <1>2
  <2> QED
    BY <1>3, <2>1, <2>2
<1>5. \A p, u \in AllSets : p \in subs'[u] <=> p \in subs[u] /\ p # s /\ u # s
  <2> SUFFICES ASSUME NEW p \in AllSets, NEW u \in AllSets
               PROVE  p \in subs'[u] <=> p \in subs[u] /\ p # s /\ u # s
    OBVIOUS
  <2>1. subs'[u] = IF u = s THEN {} ELSE IF u \in supers[s] THEN subs[u] \ {root[s]} ELSE subs[u]
    BY <1>0 DEF Dropped
  <2>2. u \in supers[s] <=> s \in subs[u]
    BY <1>2
  <2> QED
    BY <1>3, <2>1, <2>2
<1>6. ASSUME NEW x \in alive'
      PROVE  /\ x \in alive /\ x # s /\ redefined'[x] = redefined[x]
             /\ root'[x] = IF root[x] = s THEN NullSet ELSE root[x]
  <2>1. x \in alive /\ x # s /\ x \in AllSets /\ redefined'[x] = redefined[x]
    BY <1>0, <1>1, <1>6
  <2>2. root'[x] = IF x \in redefined[s] THEN NullSet ELSE root[x]
    BY <1>0, <2>1
  <2>3. CASE root[s] = s
    <3>1. x \in redefined[s] <=> root[x] = s
      BY <1>0, <2>1, <2>3 DEF StandingYoung
    <3> QED
      BY <2>1, <2>2, <3>1
  <2>4. CASE root[s] # s
    <3>1. root[x] # s
      BY <1>0, <1>1, <2>1, <2>4 DEF StandingYoung
    <3>2. x \in redefined[s] => born[s] < born[x]
      BY <1>0, <2>1, <2>4 DEF StandingYoung
    <3>3. born[x] < born[s] /\ born[x] \in Nat /\ born[s] \in Nat
      BY <2>1
    <3>4. x \notin redefined[s]
      BY <3>2, <3>3
    <3> QED
      BY <2>1, <2>2, <3>1, <3>4
  <2> QED
    BY <2>3, <2>4
<1>7. \A p, u \in AllSets : u \in supers'[p] =>
          p \in alive' /\ u \in alive' /\ root'[p] = p /\ root'[u] = u
  BY <1>0, <1>2, <1>4, <1>6
<1>8. \A x \in alive' : root'[x] # NullSet => root'[x] \in alive' /\ root'[root'[x]] = root'[x]
  <2> SUFFICES ASSUME NEW x \in alive', root'[x] # NullSet
               PROVE  root'[x] \in alive' /\ root'[root'[x]] = root'[x]
    OBVIOUS
  <2>1. root'[x] = root[x] /\ root[x] # s /\ root[x] \in alive /\ root[root[x]] = root[x]
    BY <1>6 DEF StandingYoung
  <2>2. root[x] \in alive'
    BY <1>0, <2>1
  <2> QED
    BY <1>6, <2>1, <2>2
<1>9. \A x, y \in alive' : root'[x] = x => (y \in redefined'[x] <=> root'[y] = x /\ y # x)
  <2> SUFFICES ASSUME NEW x \in alive', NEW y \in alive', root'[x] = x
               PROVE  y \in redefined'[x] <=> root'[y] = x /\ y # x
    OBVIOUS
  <2>1. x \in alive /\ y \in alive /\ x # s /\ x # NullSet
    BY <1>0, <1>1, <1>6
  <2>2. root[x] = x /\ (root'[y] = x <=> root[y] = x) /\ redefined'[x] = redefined[x]
    BY <1>6, <2>1
  <2> QED
    BY <2>1, <2>2 DEF StandingYoung
<1>10. \A x \in alive' : root'[x] # x => \A y \in redefined'[x] \cap alive' : born[x] < born[y]
  <2> SUFFICES ASSUME NEW x \in alive', root'[x] # x, NEW y \in redefined'[x] \cap alive'
               PROVE  born[x] < born[y]
    OBVIOUS
  <2>1. x \in alive /\ y \in alive /\ y \in redefined[x]
    BY <1>6
  <2>2. root[x] # x
    BY <1>6
  <2> QED
    BY <2>1, <2>2 DEF StandingYoung
<1> QED
  BY <1>4, <1>5, <1>2, <1>7, <1>8, <1>9, <1>10 DEF StandingYoung

LEMMA YoungNext ==
    ASSUME NEW g, Grouped(g), NEW born \in [AllSets -> Nat],
           DeclaredInv, GraphInv(g), YoungInv(born), [TopologyNext]_topologyVars,
           [BornInOrder(born)]_topologyVars
    PROVE  DeclaredInv' /\ GraphInv(g)' /\ YoungInv(born)'
<1>0. DeclaredInv' /\ GraphInv(g)'
  BY NextDeclared, NextGraph
<1>1. CASE UNCHANGED topologyVars
  <2>1. UNCHANGED <<supers, subs, redefined, root, comp, made, alive>>
    BY <1>1 DEF topologyVars
  <2> QED
    BY <1>0, <2>1 DEF YoungInv, YoungRoots, StandingYoung
<1>2. CASE TopologyNext /\ BornInOrder(born)
  <2>0. TopologyTypeOK
    BY DEF DeclaredInv
  <2>1. ASSUME alive' = AllSets PROVE YoungRoots(born)'
    <3>1. alive = AllSets
      BY <1>2, <2>0, <2>1, AliveStep
    <3> QED
      BY <1>2, <2>1, <3>1, YoungStep DEF YoungInv
  <2>2. ASSUME alive' # AllSets PROVE StandingYoung(born)' /\ made' = Calls
    <3>1. PICK s \in AllSets : Destroy(s)
      BY <1>2, <2>2 DEF TopologyNext, Declare, Subsets, Redefines, SetComposition
    <3>2. StandingYoung(born)
      BY YoungBuilt DEF YoungInv
    <3>3. \A x \in alive \ {s} : born[x] < born[s]
      BY <1>2, <3>1 DEF BornInOrder
    <3>4. StandingYoung(born)'
      BY <2>0, <3>1, <3>2, <3>3, YoungestGoes
    <3> QED
      BY <3>1, <3>4 DEF Destroy
  <2> QED
    BY <1>0, <2>1, <2>2 DEF YoungInv
<1> QED
  BY <1>1, <1>2

\* Sets that go the youngest first leave no edge and no root that is gone
\* (abstractSet.h:127-173), also where several sets redefine one and none of them
\* redefines the others, as in two base classes of one element.
THEOREM NoneDanglingInOrder ==
    ASSUME NEW CONSTANT g, Grouped(g), NEW CONSTANT born \in [AllSets -> Nat]
    PROVE  TopologySpec /\ [][BornInOrder(born)]_topologyVars => []NoDanglingEdges
<1>1. TopologyInit => DeclaredInv /\ GraphInv(g) /\ YoungInv(born)
  <2>1. TopologyInit => YoungInv(born)
    BY DEF TopologyInit, YoungInv, YoungRoots
  <2> QED
    BY <2>1, InitDeclared, InitDestroy
<1>2. DeclaredInv /\ GraphInv(g) /\ YoungInv(born)
        /\ [TopologyNext]_topologyVars /\ [BornInOrder(born)]_topologyVars
      => DeclaredInv' /\ GraphInv(g)' /\ YoungInv(born)'
  BY YoungNext
<1>3. DeclaredInv /\ GraphInv(g) /\ YoungInv(born) => NoDanglingEdges
  <2> SUFFICES ASSUME DeclaredInv, GraphInv(g), YoungInv(born), NEW s \in alive
               PROVE  supers[s] \cup subs[s] \cup ({root[s]} \ {NullSet}) \subseteq alive
    BY DEF NoDanglingEdges
  <2>1. s \in AllSets /\ supers[s] \subseteq AllSets /\ subs[s] \subseteq AllSets
    BY DEF DeclaredInv, TopologyTypeOK
  <2>2. StandingYoung(born)
    BY YoungBuilt DEF YoungInv
  <2> QED
    BY <2>1, <2>2 DEF StandingYoung
<1> QED
  BY <1>1, <1>2, <1>3, PTL DEF TopologySpec

-----------------------------------------------------------------------------
(* The sets of an element, from its construction to its destruction *)

\* The sets of an element are declared and destroyed as in SetTopology, whatever is done
\* with them between.
THEOREM OfElement == ElementSpec => TopologySpec
<1>1. ElementInit => TopologyInit
  BY DEF ElementInit
<1>2. [ElementNext]_<<vars, topologyVars>> => [TopologyNext]_topologyVars
  BY DEF ElementNext, Construct, Use, DestroySet, TopologyNext
<1> QED
  BY <1>1, <1>2, PTL DEF ElementSpec, TopologySpec

\* Supers is what the declarations make of the sets with the names g.
Declares(g) ==
    /\ Sets = {g[x] : x \in AllSets}
    /\ \A s \in Sets : Supers[s] = {g[p[2]] : p \in {q \in SubsetsCalls : g[q[1]] = s}}

LEMMA BuiltExactly ==
    ASSUME NEW g, Grouped(g), MostDerived(g), Declares(g), TopologyInv(g)
    PROVE  BuiltIsSupers
<1> SUFFICES ASSUME made = Calls, alive = AllSets
             PROVE  /\ {root[s] : s \in AllSets} = Sets
                    /\ \A s \in Sets : supers[s] = Supers[s] /\ subs[s] = {t \in Sets : s \in Supers[t]}
  BY Zenon DEF BuiltIsSupers, Built
<1>1. \A x \in AllSets : root[x] = g[x] /\ g[x] \in AllSets
  BY BuiltStanding DEF TopologyInv, DestroyInv, MostDerived
<1>2. /\ \A p, u \in AllSets : (u \in supers[p] <=> Declared(p, u)) /\ (p \in subs[u] <=> Declared(p, u))
      /\ supers \in [AllSets -> SUBSET AllSets] /\ subs \in [AllSets -> SUBSET AllSets]
  BY DEF TopologyInv, GraphInv, EdgeInv, DeclaredInv, TopologyTypeOK
<1>3. ASSUME NEW p, NEW u PROVE Declared(p, u) <=> \E q \in SubsetsCalls : g[q[1]] = p /\ g[q[2]] = u
  <2>1. \A x, y \in AllSets : <<"subsets", x, y>> \in made <=> <<x, y>> \in SubsetsCalls
    <3>1. \A q \in SubsetsCalls : q = <<q[1], q[2]>>
      BY CallsAssumption
    <3> QED
      BY <3>1, CallFacts DEF Calls
  <2>2. \A q \in SubsetsCalls : q = <<q[1], q[2]>> /\ q[1] \in AllSets /\ q[2] \in AllSets
    BY CallsAssumption
  <2>3. ASSUME Declared(p, u) PROVE \E q \in SubsetsCalls : g[q[1]] = p /\ g[q[2]] = u
    <3>1. PICK x \in AllSets, y \in AllSets : <<"subsets", x, y>> \in made /\ root[x] = p /\ root[y] = u
      BY <2>3 DEF Declared
    <3>2. <<x, y>> \in SubsetsCalls /\ g[x] = p /\ g[y] = u
      BY <1>1, <2>1, <3>1
    <3> DEFINE q == <<x, y>>
    <3>3. q \in SubsetsCalls /\ g[q[1]] = p /\ g[q[2]] = u
      BY <3>2
    <3> QED
      BY <3>3
  <2>4. ASSUME NEW q \in SubsetsCalls, g[q[1]] = p, g[q[2]] = u PROVE Declared(p, u)
    <3>1. <<"subsets", q[1], q[2]>> \in made /\ root[q[1]] = p /\ root[q[2]] = u
      BY <1>1, <2>1, <2>2, <2>4
    <3> QED
      BY <2>2, <3>1 DEF Declared
  <2> QED
    BY <2>3, <2>4
<1>4. Sets \subseteq AllSets /\ \A x \in AllSets : g[x] \in Sets
  BY <1>1 DEF Declares
<1>5. \A p \in Sets : \A u : u \in Supers[p] <=> Declared(p, u)
  BY <1>3 DEF Declares
<1>6. {root[s] : s \in AllSets} = Sets
  BY <1>1 DEF Declares
<1>7. ASSUME NEW s \in Sets
      PROVE  supers[s] = Supers[s] /\ subs[s] = {t \in Sets : s \in Supers[t]}
  <2>1. s \in AllSets /\ supers[s] \subseteq AllSets /\ subs[s] \subseteq AllSets
    BY <1>2, <1>4
  <2>2. \A u : Declared(s, u) => u \in AllSets
    BY DEF Declared, TopologyInv, DeclaredInv, RootInv
  <2>3. \A u : Declared(u, s) => u \in Sets
    BY <1>1, <1>4 DEF Declared
  <2>4. supers[s] = Supers[s]
    BY <1>2, <1>5, <2>1, <2>2
  <2>5. subs[s] = {t \in Sets : s \in Supers[t]}
    BY <1>2, <1>4, <1>5, <2>1, <2>3
  <2> QED
    BY <2>4, <2>5
<1> QED
  BY <1>6, <1>7

\* What SubsetSets takes for granted is what the constructors make: the sets that hold
\* data are the most derived ones, and Supers the edges between them.
THEOREM BuiltAsAssumed ==
    ASSUME NEW CONSTANT g, Grouped(g), MostDerived(g), Declares(g)
    PROVE  ElementSpec => []BuiltIsSupers
<1>1. TopologyInit => TopologyInv(g)
  BY InitTopology
<1>2. TopologyInv(g) /\ [TopologyNext]_topologyVars => TopologyInv(g)'
  BY NextTopology
<1>3. TopologyInv(g) => BuiltIsSupers
  BY BuiltExactly
<1> QED
  BY <1>1, <1>2, <1>3, OfElement, PTL DEF TopologySpec

\* Destroying a set takes away data, and marks of the sets above.
LEMMA DestroySetKeeps ==
    ASSUME SizeInv, NEW s \in AllSets, DestroySet(s)
    PROVE  SizeInv' /\ (StoredIsReferenced => StoredIsReferenced')
<1>1. /\ UNCHANGED <<size, refs, clearing>>
      /\ data' = [u \in Sets |-> IF u = s THEN {} ELSE data[u]]
      /\ marks' = [u \in Sets |->
           IF u = s THEN {} ELSE IF u \in supers[s] THEN marks[u] \ {s} ELSE marks[u]]
  BY DEF DestroySet
<1>2. IntTypeOK'
  BY <1>1 DEF SizeInv, IntTypeOK
<1>3. ASSUME NEW u \in Sets PROVE size'[u] >= Cardinality(Holdings(u)')
  <2>1. Holdings(u)' \subseteq Holdings(u)
    BY <1>1 DEF Holdings
  <2>2. IsFiniteSet(Holdings(u)) /\ Cardinality(Holdings(u)) \in Nat
    BY HoldingsFinite
  <2>3. Cardinality(Holdings(u)') <= Cardinality(Holdings(u)) /\ Cardinality(Holdings(u)') \in Nat
    BY <2>1, <2>2, FS_Subset, FS_CardinalityType
  <2>4. size[u] >= Cardinality(Holdings(u)) /\ size[u] \in Int /\ size'[u] = size[u]
    BY <1>1 DEF SizeInv, SizeCoversHoldings, IntTypeOK
  <2> QED
    BY <2>2, <2>3, <2>4
<1>4. StoredIsReferenced => StoredIsReferenced'
  BY <1>1 DEF StoredIsReferenced
<1> QED
  BY <1>2, <1>3, <1>4 DEF SizeInv, SizeCoversHoldings

LEMMA NextElement ==
    SizeInv /\ StoredIsReferenced /\ [ElementNext]_<<vars, topologyVars>>
        => SizeInv' /\ StoredIsReferenced'
<1>1. ASSUME SizeInv, StoredIsReferenced, [Next]_vars PROVE SizeInv' /\ StoredIsReferenced'
  BY <1>1, NextSizeInv, NextReferences
<1>2. [ElementNext]_<<vars, topologyVars>> => [Next]_vars \/ \E s \in AllSets : DestroySet(s)
  BY DEF ElementNext, Construct, Use
<1> QED
  BY <1>1, <1>2, DestroySetKeeps

LEMMA ElementInvariant == ElementSpec => [](SizeInv /\ StoredIsReferenced)
<1>1. ElementInit => SizeInv /\ StoredIsReferenced
  BY InitSizeInv, InitReferences DEF ElementInit
<1> QED
  BY <1>1, NextElement, PTL DEF ElementSpec

\* In the life of an element no size wraps, whatever the client does (privateSet.h:374),
THEOREM ElementTypeCorrect == ElementSpec => []TypeOK
<1>1. SizeInv => TypeOK
  BY SizeInvTyped
<1> QED
  BY <1>1, ElementInvariant, PTL

\* each size counts at least what is stored,
THEOREM ElementSizeCovers == ElementSpec => []SizeCoversHoldings
<1>1. SizeInv => SizeCoversHoldings
  BY DEF SizeInv
<1> QED
  BY <1>1, ElementInvariant, PTL

\* and what is stored has a reference (managerNode.h:103).
THEOREM ElementReferences == ElementSpec => []StoredIsReferenced
BY ElementInvariant, PTL

\* An element under construction has no members, and between construction and destruction
\* its sets keep the promise of SubsetSets.
THEOREM ElementPromise ==
    ASSUME NoMiddleData, Exclusive
    PROVE  ElementSpec => [](alive = AllSets => MarksExact /\ ContainsExact /\ SizeExact)
<1> DEFINE P == alive = AllSets => PromiseInv
<1>1. ElementInit => P
  BY InitPromise DEF ElementInit
<1>2. P /\ TopologyTypeOK /\ [ElementNext]_<<vars, topologyVars>> => P'
  <2> SUFFICES ASSUME P, TopologyTypeOK, [ElementNext]_<<vars, topologyVars>>, alive' = AllSets
               PROVE  PromiseInv'
    OBVIOUS
  <2>1. \A s \in AllSets : ~DestroySet(s)
    BY DEF DestroySet, Destroy
  <2>2. [Next]_vars /\ alive = AllSets
    BY <2>1 DEF ElementNext, Construct, Use, Declare, Subsets, Redefines, SetComposition, topologyVars
  <2> QED
    BY <2>2, NextPromise
<1>3. P => (alive = AllSets => MarksExact /\ ContainsExact /\ SizeExact)
  BY PromiseExact, EndsContains DEF PromiseInv, EndsInv
<1>4. ElementSpec => []TopologyTypeOK
  BY OfElement, TopologyTypeCorrect, PTL
<1> QED
  BY <1>1, <1>2, <1>3, <1>4, PTL DEF ElementSpec

=============================================================================
