--------------------------- MODULE Opposites_proofs ---------------------------
(***************************************************************************)
(* Theorems about Opposites, for any number of elements and any pairs of   *)
(* opposites.  What holds for every client comes first: a reference is     *)
(* there for every link.  For a client that is Careful, links are mutual   *)
(* and the operations are those of Associations.                           *)
(***************************************************************************)
EXTENDS Opposites, TLAPS

\* A link has a link at the other end, whose other end it is.
LEMMA RevFacts ==
    ASSUME NEW t \in Links
    PROVE  /\ Rev(t) \in Links
           /\ Rev(t)[1] = t[3] /\ Rev(t)[2] = Opp[t[2]] /\ Rev(t)[3] = t[1]
           /\ Rev(Rev(t)) = t
BY OppAssumption DEF Links, Rev

\* An element of Links is determined by its parts.
LEMMA LinkParts ==
    ASSUME NEW t \in Links
    PROVE  t[1] \in Elems /\ t[2] \in Features /\ t[3] \in Elems
BY DEF Links

\* Membership in the sets of pairs and of both ends.
LEMMA PairsElement ==
    ASSUME NEW T, NEW p
    PROVE  p \in Pairs(T) <=> \E t \in T : p = <<t[1], t[3]>> \/ p = <<t[3], t[1]>>
BY DEF Pairs

LEMMA PairsMonotone ==
    ASSUME NEW S, NEW T, S \subseteq T
    PROVE  Pairs(S) \subseteq Pairs(T)
BY DEF Pairs

LEMMA PairsTyped ==
    ASSUME NEW T, T \subseteq Links
    PROVE  Pairs(T) \subseteq Elems \X Elems
BY LinkParts DEF Pairs

-----------------------------------------------------------------------------
(* What is true for every client *)

\* A reference is there for every set that names one, in memory or released.
RefsCover ==
    /\ data \subseteq held
    /\ \A t \in file : <<t[1], t[3]>> \in stale
    /\ Pairs(held) \subseteq refs
    /\ \A p \in stale : p \in refs /\ <<p[2], p[1]>> \in refs

LinkInv == TypeOK /\ RefsCover

\* References that are taken away leave what h and the stale sets need.
LEMMA UnreferencedCovers ==
    ASSUME NEW r, NEW T, NEW h,
           Pairs(h) \subseteq r,
           \A p \in stale : p \in r /\ <<p[2], p[1]>> \in r,
           stale \subseteq Elems \X Elems
    PROVE  /\ Unreferenced(r, T, h) \subseteq r
           /\ Pairs(h) \subseteq Unreferenced(r, T, h)
           /\ \A p \in stale :
                 p \in Unreferenced(r, T, h) /\ <<p[2], p[1]>> \in Unreferenced(r, T, h)
<1>1. \A p \in stale : p = <<p[1], p[2]>>
  OBVIOUS
<1>2. ASSUME NEW p \in stale
      PROVE  p \in Unreferenced(r, T, h) /\ <<p[2], p[1]>> \in Unreferenced(r, T, h)
  <2>1. <<<<p[2], p[1]>>[2], <<p[2], p[1]>>[1]>> = p
    BY <1>1
  <2> QED
    BY <2>1 DEF Unreferenced
<1> QED
  BY <1>2 DEF Unreferenced

\* Loading moves links of elements that were not in memory.
LEMMA ReadFacts ==
    ASSUME NEW L, TypeOK
    PROVE  /\ Read(L) \subseteq file /\ Read(L) \subseteq Links
           /\ \A u \in Read(L) : u[1] \in L /\ u[1] \notin loaded
           /\ \A u \in file \ Read(L) : u[1] \notin L /\ u[1] \notin loaded
BY DEF Read, TypeOK

\* What an add has done on its own side.
LEMMA BegunFacts ==
    ASSUME LinkInv, NEW t \in Links, ClientAdds(t)
    PROVE  /\ Begun(t) \subseteq Links
           /\ \A u \in Begun(t) : u[1] \in loaded \cup {t[3]}
           /\ \A u, v \in Begun(t) \cup (file \ Read({t[3]})) :
                 u[2] \in Singletons /\ v[1] = u[1] /\ v[2] = u[2] => v = u
           /\ t \in Begun(t)
           /\ BegunHeld(t) \subseteq Links
           /\ Begun(t) \subseteq BegunHeld(t)
           /\ BegunRefs(t) \subseteq Elems \X Elems
           /\ Pairs(BegunHeld(t)) \subseteq BegunRefs(t)
           /\ \A p \in stale : p \in BegunRefs(t) /\ <<p[2], p[1]>> \in BegunRefs(t)
<1> DEFINE R == Rivals(t, data)
           N == Read({t[3]} \ loaded)
<1>1. TypeOK /\ RefsCover
  BY DEF LinkInv
<1>2. N \subseteq Links /\ N \subseteq file /\ (\A u \in N : u[1] = t[3] /\ u[1] \notin loaded)
  BY <1>1, ReadFacts
<1>3. t[1] \in loaded /\ t[1] # t[3] /\ t[1] \in Elems /\ t[3] \in Elems
  BY LinkParts DEF ClientAdds
<1>4. Begun(t) \subseteq Links /\ t \in Begun(t) /\ BegunHeld(t) \subseteq Links
  BY <1>1, <1>2 DEF Begun, BegunHeld, TypeOK
<1>5. \A u \in Begun(t) : u[1] \in loaded \cup {t[3]}
  BY <1>1, <1>2, <1>3 DEF Begun, TypeOK
<1>6. Begun(t) \subseteq BegunHeld(t)
  BY <1>1 DEF Begun, BegunHeld, RefsCover, BothEnds
<1>7. ASSUME NEW u \in Begun(t) \cup (file \ Read({t[3]})),
             NEW v \in Begun(t) \cup (file \ Read({t[3]})),
             u[2] \in Singletons, v[1] = u[1], v[2] = u[2]
      PROVE  v = u
  <2>1. \A x \in Begun(t) \cup (file \ Read({t[3]})) :
            \/ x = t
            \/ x \in data /\ x \notin R
            \/ x \in file /\ x[1] \notin loaded
    BY <1>1, <1>2, ReadFacts DEF Begun, BothEnds, TypeOK
  <2>2. \A x \in (data \ R) \cup file : ~(x[1] = t[1] /\ x[2] = t[2] /\ t[2] \in Singletons)
    BY <1>1, <1>3 DEF Rivals, TypeOK
  <2>3. CASE u = t /\ v = t
    BY <2>3
  <2>4. CASE u = t /\ v # t
    BY <2>1, <2>2, <2>4, <1>7
  <2>5. CASE u # t /\ v = t
    BY <2>1, <2>2, <2>5, <1>7
  <2>6. CASE u # t /\ v # t
    BY <2>1, <2>6, <1>7, <1>1 DEF TypeOK
  <2> QED
    BY <2>3, <2>4, <2>5, <2>6
<1> DEFINE r == Unreferenced(refs, R, held \ R)
<1>8. /\ r \subseteq refs /\ Pairs(held \ R) \subseteq r
      /\ \A p \in stale : p \in r /\ <<p[2], p[1]>> \in r
  <2>1. Pairs(held \ R) \subseteq refs
    BY <1>1, PairsMonotone DEF RefsCover
  <2>2. stale \subseteq Elems \X Elems /\ (\A p \in stale : p \in refs /\ <<p[2], p[1]>> \in refs)
    BY <1>1 DEF RefsCover, TypeOK
  <2> HIDE DEF R
  <2> QED
    BY <2>1, <2>2, UnreferencedCovers
<1>9. BegunRefs(t) = r \cup Pairs(N \cup {t})
  BY DEF BegunRefs
<1>10. BegunHeld(t) = (held \ R) \cup (N \cup {t})
  BY DEF BegunHeld
<1>11. Pairs((held \ R) \cup (N \cup {t})) = Pairs(held \ R) \cup Pairs(N \cup {t})
  BY DEF Pairs
<1>12. Pairs(N \cup {t}) \subseteq Elems \X Elems
  BY <1>2, PairsTyped
<1>13. r \subseteq Elems \X Elems
  BY <1>1, <1>8 DEF TypeOK
<1> HIDE DEF R, N, r
<1> QED
  BY <1>4, <1>5, <1>6, <1>7, <1>8, <1>9, <1>10, <1>11, <1>12, <1>13

\* What loading L leaves in the other files, and what stays of the references.
LEMMA LoadingFacts ==
    ASSUME LinkInv, NEW L, L \subseteq Elems, Loading(L)
    PROVE  /\ loaded' \subseteq Elems
           /\ file' \subseteq file /\ file' \subseteq Links
           /\ \A u \in file' : u[1] \notin loaded'
           /\ \A u \in file' : <<u[1], u[3]>> \in stale'
           /\ stale' \subseteq Elems \X Elems
BY DEF LinkInv, TypeOK, RefsCover, Loading, Read

LEMMA AddKeeps ==
    ASSUME LinkInv, NEW t \in Links, Add(t)
    PROVE  LinkInv'
<1> DEFINE E == Evicted(t)
           B == Begun(t)
           d == B \ BothEnds(E)
           H == BegunHeld(t) \ E
<1>0. ClientAdds(t) /\ Loading({t[3]}) /\ t[1] # t[3]
  BY DEF Add, ClientAdds
<1>1. /\ B \subseteq Links
      /\ \A u \in B : u[1] \in loaded \cup {t[3]}
      /\ \A u, v \in B \cup file' :
            u[2] \in Singletons /\ v[1] = u[1] /\ v[2] = u[2] => v = u
      /\ BegunHeld(t) \subseteq Links
      /\ B \subseteq BegunHeld(t)
      /\ BegunRefs(t) \subseteq Elems \X Elems
      /\ Pairs(BegunHeld(t)) \subseteq BegunRefs(t)
      /\ \A p \in stale : p \in BegunRefs(t) /\ <<p[2], p[1]>> \in BegunRefs(t)
      /\ t \in BegunHeld(t)
  BY <1>0, BegunFacts DEF Loading
<1>2. t[1] \in Elems /\ t[3] \in Elems /\ Rev(t) \in Links /\ Rev(t)[1] = t[3]
      /\ Rev(t)[2] = Opp[t[2]] /\ Rev(t)[3] = t[1]
  BY LinkParts, RevFacts
<1>3. /\ loaded' = loaded \cup {t[3]} /\ stale' = stale
      /\ loaded' \subseteq Elems
      /\ file' \subseteq file /\ file' \subseteq Links
      /\ \A u \in file' : u[1] \notin loaded'
      /\ \A u \in file' : <<u[1], u[3]>> \in stale'
      /\ stale' \subseteq Elems \X Elems
  BY <1>0, <1>2, LoadingFacts DEF Loading
<1>4. /\ data' = d \cup {Rev(t)} /\ held' = H \cup {Rev(t)}
      /\ refs' = Unreferenced(BegunRefs(t), E, H)
  BY DEF Add
<1>5. d \subseteq B /\ d \subseteq H
  BY <1>1 DEF BothEnds
<1>6. \A u, v \in data' \cup file' : u[2] \in Singletons /\ v[1] = u[1] /\ v[2] = u[2] => v = u
  <2>1. \A u \in d \cup file' :
            ~(Opp[t[2]] \in Singletons /\ u[1] = t[3] /\ u[2] = Opp[t[2]] /\ u # Rev(t))
    <3>1. \A u \in file' : u[1] # t[3]
      BY <1>3
    <3>2. \A u \in d : u \in B /\ u \notin E
      BY DEF BothEnds
    <3>3. E = {u \in B : Opp[t[2]] \in Singletons /\ u[1] = t[3] /\ u[2] = Opp[t[2]]} \ {Rev(t)}
      BY <1>2 DEF Evicted, Rivals
    <3> QED
      BY <3>1, <3>2, <3>3
  <2>2. \A u, v \in d \cup file' :
            u[2] \in Singletons /\ v[1] = u[1] /\ v[2] = u[2] => v = u
    BY <1>1, <1>5
  <2> HIDE DEF d
  <2> QED
    BY <2>1, <2>2, <1>2, <1>4
<1>7. TypeOK'
  <2>1. data' \subseteq Links /\ \A u \in data' : u[1] \in loaded'
    BY <1>1, <1>2, <1>3, <1>4, <1>5
  <2>2. held' \subseteq Links
    BY <1>1, <1>2, <1>4
  <2>3. refs' \subseteq Elems \X Elems
    BY <1>1, <1>4 DEF Unreferenced
  <2> QED
    BY <1>3, <1>6, <2>1, <2>2, <2>3 DEF TypeOK
<1>8. RefsCover'
  <2>1. stale \subseteq Elems \X Elems
    BY DEF LinkInv, TypeOK
  <2>2. Pairs(H) \subseteq BegunRefs(t)
    <3>1. Pairs(H) \subseteq Pairs(BegunHeld(t))
      BY PairsMonotone
    <3> QED
      BY <1>1, <3>1
  <2>3. /\ Pairs(H) \subseteq refs'
        /\ \A p \in stale : p \in refs' /\ <<p[2], p[1]>> \in refs'
    <3> HIDE DEF H, E
    <3> QED
      BY <2>1, <2>2, <1>1, <1>4, UnreferencedCovers
  <2>4. Rev(t) \in H \/ t \in H
    <3>1. t \notin E
      BY <1>0, <1>2 DEF Evicted, Rivals
    <3> QED
      BY <1>1, <3>1
  <2>5. \A p \in Pairs({Rev(t)}) : p \in Pairs({t})
    BY <1>2 DEF Pairs
  <2>6. Pairs(held') \subseteq refs'
    <3>1. Pairs(held') = Pairs(H) \cup Pairs({Rev(t)})
      BY <1>4 DEF Pairs
    <3>2. Pairs({Rev(t)}) \subseteq Pairs(H)
      BY <2>4, <2>5 DEF Pairs
    <3> QED
      BY <3>1, <3>2, <2>3
  <2>7. data' \subseteq held'
    BY <1>4, <1>5
  <2> QED
    BY <1>3, <2>3, <2>6, <2>7 DEF RefsCover
<1> QED
  BY <1>7, <1>8 DEF LinkInv

LEMMA AddThrowsKeeps ==
    ASSUME LinkInv, NEW t \in Links, AddThrows(t)
    PROVE  LinkInv'
<1>0. ClientAdds(t) /\ Loading({t[3]})
  BY DEF AddThrows
<1>1. /\ Begun(t) \subseteq Links
      /\ \A u \in Begun(t) : u[1] \in loaded \cup {t[3]}
      /\ \A u, v \in Begun(t) \cup file' :
            u[2] \in Singletons /\ v[1] = u[1] /\ v[2] = u[2] => v = u
      /\ BegunHeld(t) \subseteq Links
      /\ Begun(t) \subseteq BegunHeld(t)
      /\ BegunRefs(t) \subseteq Elems \X Elems
      /\ Pairs(BegunHeld(t)) \subseteq BegunRefs(t)
      /\ \A p \in stale : p \in BegunRefs(t) /\ <<p[2], p[1]>> \in BegunRefs(t)
  BY <1>0, BegunFacts DEF Loading
<1>2. t[3] \in Elems
  BY LinkParts
<1>3. /\ loaded' = loaded \cup {t[3]} /\ stale' = stale
      /\ loaded' \subseteq Elems
      /\ file' \subseteq Links
      /\ \A u \in file' : u[1] \notin loaded'
      /\ \A u \in file' : <<u[1], u[3]>> \in stale'
      /\ stale' \subseteq Elems \X Elems
  BY <1>0, <1>2, LoadingFacts DEF Loading
<1>4. data' \subseteq Begun(t) /\ held' = BegunHeld(t) /\ refs' = BegunRefs(t)
  BY DEF AddThrows
<1>5. TypeOK'
  <2>1. \A u, v \in data' \cup file' :
            u[2] \in Singletons /\ v[1] = u[1] /\ v[2] = u[2] => v = u
    BY <1>1, <1>4
  <2> QED
    BY <2>1, <1>1, <1>3, <1>4 DEF TypeOK
<1>6. RefsCover'
  BY <1>1, <1>3, <1>4 DEF RefsCover
<1> QED
  BY <1>5, <1>6 DEF LinkInv

LEMMA RemoveKeeps ==
    ASSUME LinkInv, NEW t \in Links, Remove(t)
    PROVE  LinkInv'
<1>1. /\ data' \subseteq data /\ t \notin data' /\ held' = held \ {t}
      /\ refs' = Unreferenced(refs, {t}, held \ {t})
      /\ loaded' = loaded /\ file' = file /\ stale' = stale
  BY DEF Remove, Removed, BothEnds
<1>2. Pairs(held \ {t}) \subseteq refs
  <2>1. Pairs(held \ {t}) \subseteq Pairs(held)
    BY PairsMonotone
  <2> QED
    BY <2>1 DEF LinkInv, RefsCover
<1>3. /\ refs' \subseteq refs /\ Pairs(held') \subseteq refs'
      /\ \A p \in stale : p \in refs' /\ <<p[2], p[1]>> \in refs'
  <2>1. stale \subseteq Elems \X Elems /\ (\A p \in stale : p \in refs /\ <<p[2], p[1]>> \in refs)
    BY DEF LinkInv, TypeOK, RefsCover
  <2> QED
    BY <1>1, <1>2, <2>1, UnreferencedCovers
<1>4. TypeOK'
  BY <1>1, <1>3 DEF LinkInv, TypeOK
<1>5. RefsCover'
  BY <1>1, <1>3 DEF LinkInv, RefsCover
<1> QED
  BY <1>4, <1>5 DEF LinkInv

LEMMA RemoveThrowsKeeps ==
    ASSUME LinkInv, NEW t \in Links, RemoveThrows(t)
    PROVE  LinkInv'
<1>1. /\ data' \subseteq data
      /\ UNCHANGED <<loaded, file, held, stale, refs>>
  BY DEF RemoveThrows
<1>2. TypeOK'
  BY <1>1 DEF LinkInv, TypeOK
<1>3. Pairs(held') = Pairs(held)
  BY <1>1
<1>4. RefsCover'
  BY <1>1, <1>3 DEF LinkInv, RefsCover
<1> QED
  BY <1>2, <1>4 DEF LinkInv

LEMMA ReleaseKeeps ==
    ASSUME LinkInv, NEW a \in Elems, Release(a)
    PROVE  LinkInv'
<1>1. /\ loaded' = loaded \ {a}
      /\ file' = file \cup {t \in data : t[1] = a}
      /\ data' = {t \in data : t[1] # a}
      /\ held' = {t \in held : t[1] # a}
      /\ stale' = stale \cup {<<t[1], t[3]>> : t \in {u \in held : u[1] = a}}
      /\ refs' = refs
  BY DEF Release
<1>2. stale' \subseteq Elems \X Elems
  BY <1>1, LinkParts DEF LinkInv, TypeOK
<1>3. TypeOK'
  BY <1>1, <1>2 DEF LinkInv, TypeOK
<1>4. Pairs(held') \subseteq refs'
  <2>1. held' \subseteq held
    BY <1>1
  <2>2. Pairs(held') \subseteq Pairs(held)
    BY <2>1, PairsMonotone
  <2> QED
    BY <1>1, <2>2 DEF LinkInv, RefsCover
<1>5. \A p \in stale' : p \in refs' /\ <<p[2], p[1]>> \in refs'
  <2>1. ASSUME NEW t \in held
        PROVE  <<t[1], t[3]>> \in refs /\ <<t[3], t[1]>> \in refs
    BY PairsElement DEF LinkInv, RefsCover
  <2>2. ASSUME NEW p \in stale', p \notin stale
        PROVE  p \in refs /\ <<p[2], p[1]>> \in refs
    <3>1. PICK t \in held : p = <<t[1], t[3]>>
      BY <1>1, <2>2
    <3>2. p[1] = t[1] /\ p[2] = t[3]
      BY <3>1
    <3> QED
      BY <2>1, <3>1, <3>2
  <2> QED
    BY <1>1, <2>2 DEF LinkInv, RefsCover
<1>6. \A t \in file' : <<t[1], t[3]>> \in stale'
  BY <1>1 DEF LinkInv, RefsCover
<1>7. data' \subseteq held'
  BY <1>1 DEF LinkInv, RefsCover
<1> QED
  BY <1>3, <1>4, <1>5, <1>6, <1>7 DEF LinkInv, RefsCover

LEMMA LoadKeeps ==
    ASSUME LinkInv, NEW a \in Elems, Load(a)
    PROVE  LinkInv'
<1>1. /\ Loading({a}) /\ a \notin loaded
      /\ data' = data \cup Read({a})
      /\ held' = held \cup Read({a})
      /\ refs' = refs \cup Pairs(Read({a}))
  BY DEF Load
<1>2. /\ loaded' = loaded \cup {a} /\ file' = file \ Read({a}) /\ stale' = stale
      /\ loaded' \subseteq Elems
      /\ \A u \in file' : u[1] \notin loaded'
      /\ \A u \in file' : <<u[1], u[3]>> \in stale'
  BY <1>1, LoadingFacts DEF Loading
<1>3. Read({a}) \subseteq file /\ (\A u \in Read({a}) : u[1] = a) /\ file \subseteq Links
  BY DEF Read, LinkInv, TypeOK
<1>4. Pairs(Read({a})) \subseteq Elems \X Elems
  BY <1>3, PairsTyped
<1>5. TypeOK'
  BY <1>1, <1>2, <1>3, <1>4 DEF LinkInv, TypeOK
<1>6. Pairs(held') = Pairs(held) \cup Pairs(Read({a}))
  BY <1>1 DEF Pairs
<1>7. RefsCover'
  BY <1>1, <1>2, <1>6 DEF LinkInv, RefsCover
<1> QED
  BY <1>5, <1>7 DEF LinkInv

LEMMA LinkInit == Init => LinkInv
BY DEF Init, LinkInv, TypeOK, RefsCover, Pairs

LEMMA LinkNext == LinkInv /\ [Next]_vars => LinkInv'
<1> SUFFICES ASSUME LinkInv, [Next]_vars
             PROVE  LinkInv'
  OBVIOUS
<1>1. ASSUME NEW t \in Links, Add(t) PROVE LinkInv'
  BY <1>1, AddKeeps
<1>2. ASSUME NEW t \in Links, AddThrows(t) PROVE LinkInv'
  BY <1>2, AddThrowsKeeps
<1>3. ASSUME NEW t \in Links, Remove(t) PROVE LinkInv'
  BY <1>3, RemoveKeeps
<1>4. ASSUME NEW t \in Links, RemoveThrows(t) PROVE LinkInv'
  BY <1>4, RemoveThrowsKeeps
<1>5. ASSUME NEW a \in Elems, Release(a) PROVE LinkInv'
  BY <1>5, ReleaseKeeps
<1>6. ASSUME NEW a \in Elems, Load(a) PROVE LinkInv'
  BY <1>6, LoadKeeps
<1>7. CASE UNCHANGED vars
  <2>1. UNCHANGED <<loaded, data, file, held, stale, refs>>
    BY <1>7 DEF vars
  <2> QED
    BY <2>1 DEF LinkInv, TypeOK, RefsCover, Pairs
<1> QED
  BY <1>1, <1>2, <1>3, <1>4, <1>5, <1>6, <1>7 DEF Next

LEMMA LinkInvariant == Spec => []LinkInv
BY LinkInit, LinkNext, PTL DEF Spec

\* Every variable of Opposites keeps its type, and a Singleton (singleton.h) never holds
\* two elements, in memory or in a file.
THEOREM TypeCorrect == Spec => []TypeOK
<1>1. LinkInv => TypeOK
  BY DEF LinkInv
<1> QED
  BY <1>1, LinkInvariant, PTL

\* removeReference (managerNode.h:102-114) finds the reference it dereferences: it is
\* there, on both sides, for every element in a set.
THEOREM References == Spec => []StoredIsReferenced
<1>1. LinkInv => StoredIsReferenced
  <2> SUFFICES ASSUME LinkInv
               PROVE  StoredIsReferenced
    OBVIOUS
  <2>1. Pairs(data) \subseteq Pairs(held)
    BY PairsMonotone DEF LinkInv, RefsCover
  <2>2. Pairs(file) \subseteq refs
    <3>1. \A t \in file : <<t[1], t[3]>> \in refs /\ <<t[3], t[1]>> \in refs
      BY DEF LinkInv, RefsCover
    <3> QED
      BY <3>1 DEF Pairs
  <2>3. Pairs(data \cup file) = Pairs(data) \cup Pairs(file)
    BY DEF Pairs
  <2> QED
    BY <2>1, <2>2, <2>3 DEF LinkInv, RefsCover, StoredIsReferenced
<1> QED
  BY <1>1, LinkInvariant, PTL

-----------------------------------------------------------------------------
(* What is true for a Careful client *)

AllLinks == data \cup file

\* Links are mutual, and between different elements.
MutualInv ==
    /\ \A t \in AllLinks : Rev(t) \in AllLinks
    /\ \A t \in AllLinks : t[1] # t[3]

CarefulInv == LinkInv /\ MutualInv

\* BothEnds is closed under Rev.
LEMMA BothEndsClosed ==
    ASSUME NEW T, T \subseteq Links, NEW u \in Links, u \notin BothEnds(T)
    PROVE  Rev(u) \notin BothEnds(T)
<1>1. \A v \in T : Rev(Rev(v)) = v /\ Rev(v) \in Links
  BY RevFacts
<1>2. Rev(Rev(u)) = u
  BY RevFacts
<1> QED
  BY <1>1, <1>2 DEF BothEnds, Revs

\* The sets an add changes, in terms of all links: its rivals at both ends go.
LEMMA AddAtBothEnds ==
    ASSUME CarefulInv, NEW t \in Links, ClientAdds(t), t \notin data
    PROVE  /\ t \notin AllLinks /\ Rev(t) \notin AllLinks /\ Rev(t) # t
           /\ Rivals(t, data) \subseteq data /\ Rivals(t, data) = Rivals(t, AllLinks)
           /\ BothEnds(Rivals(t, data)) \subseteq data
           /\ Evicted(t) \subseteq AllLinks
           /\ Evicted(t) = Rivals(Rev(t), AllLinks) \ BothEnds(Rivals(t, data))
           /\ \A u \in Evicted(t) : u \in Begun(t) /\ Rev(u) \in Begun(t)
           /\ Begun(t) = ((AllLinks \ BothEnds(Rivals(t, data))) \ (file \ Read({t[3]}))) \cup {t}
<1> DEFINE R == Rivals(t, data)
           N == Read({t[3]} \ loaded)
<1>1. /\ t[1] \in loaded /\ t[1] # t[3]
      /\ \A u \in R : u[3] \in loaded /\ Rev(u) \in data
      /\ \A u \in Evicted(t) : u[3] \in loaded
  BY DEF ClientAdds
<1>2. /\ AllLinks \subseteq Links /\ data \subseteq Links /\ file \subseteq Links
      /\ \A u \in data : u[1] \in loaded
      /\ \A u \in file : u[1] \notin loaded
  BY DEF CarefulInv, LinkInv, TypeOK, AllLinks
<1>3. Rev(t) \in Links /\ Rev(t)[1] = t[3] /\ Rev(t)[2] = Opp[t[2]] /\ Rev(t)[3] = t[1]
      /\ Rev(Rev(t)) = t
  BY RevFacts
<1>4. t \notin AllLinks /\ Rev(t) \notin AllLinks /\ Rev(t) # t
  BY <1>1, <1>2, <1>3 DEF CarefulInv, MutualInv, AllLinks
<1>5. R \subseteq data /\ R = Rivals(t, AllLinks)
  BY <1>1, <1>2 DEF Rivals, AllLinks
<1>6. BothEnds(R) \subseteq data
  BY <1>1, <1>5 DEF BothEnds, Revs
<1>7. N = Read({t[3]})
  BY <1>2 DEF Read
<1>8. Begun(t) = (data \ BothEnds(R)) \cup N \cup {t}
  BY DEF Begun
<1>9. Begun(t) = ((AllLinks \ BothEnds(R)) \ (file \ N)) \cup {t}
  BY <1>2, <1>6, <1>8 DEF AllLinks, Read
<1>10. Evicted(t) = Rivals(Rev(t), AllLinks) \ BothEnds(R)
  <2>1. \A u \in Rivals(Rev(t), AllLinks) : u[1] = t[3]
    BY <1>3 DEF Rivals
  <2>2. \A u \in AllLinks : u[1] = t[3] => u \notin file \ N
    BY <1>7 DEF Read
  <2>3. t[1] # Rev(t)[1]
    BY <1>1, <1>3
  <2> HIDE DEF N, R
  <2> QED
    BY <1>4, <1>9, <2>1, <2>2, <2>3 DEF Evicted, Rivals
<1>11. Evicted(t) \subseteq AllLinks
  BY <1>10 DEF Rivals
<1>12. ASSUME NEW u \in Evicted(t)
       PROVE  u \in Begun(t) /\ Rev(u) \in Begun(t)
  <2>1. u \in AllLinks /\ u \notin BothEnds(R) /\ u \in Links
    BY <1>2, <1>10, <1>11
  <2>2. u \in Begun(t)
    BY <1>12 DEF Evicted, Rivals
  <2>3. Rev(u) \in AllLinks
    BY <2>1 DEF CarefulInv, MutualInv
  <2>4. Rev(u) \notin BothEnds(R)
    <3>1. R \subseteq Links
      BY <1>2, <1>5
    <3> HIDE DEF R
    <3> QED
      BY <2>1, <3>1, BothEndsClosed
  <2>5. Rev(u)[1] = u[3]
    BY <2>1, RevFacts
  <2>6. Rev(u) \notin file
    BY <1>1, <1>2, <2>5
  <2> QED
    BY <1>9, <2>2, <2>3, <2>4, <2>6
<1> QED
  BY <1>4, <1>5, <1>6, <1>7, <1>9, <1>10, <1>11, <1>12

\* With mutual links the opposite always finds what it looks for.
LEMMA NothingThrows ==
    ASSUME CarefulInv, Careful, NEW t \in Links
    PROVE  ~AddThrows(t) /\ ~RemoveThrows(t)
<1>1. ASSUME AddThrows(t)
      PROVE  FALSE
  <2>1. ClientAdds(t) /\ t \notin data /\ OppositeFails(t)
    BY <1>1 DEF AddThrows
  <2>2. Rev(t) \notin AllLinks /\ Rev(t) # t
    BY <2>1, AddAtBothEnds
  <2>3. \A u \in Evicted(t) : Rev(u) \in Begun(t)
    BY <2>1, AddAtBothEnds
  <2>4. Begun(t) \subseteq AllLinks \cup {t}
    BY DEF Begun, Read, AllLinks
  <2> QED
    BY <2>1, <2>2, <2>3, <2>4 DEF OppositeFails
<1>2. ASSUME RemoveThrows(t)
      PROVE  FALSE
  <2>1. t \in data /\ ~(Removed(t) \subseteq data)
    BY <1>2 DEF RemoveThrows
  <2>2. t[3] \in loaded /\ Rev(t) \notin data
    BY <2>1 DEF Removed, BothEnds, Revs
  <2>3. Rev(t) \in file /\ Rev(t)[1] = t[3]
    BY <2>1, <2>2, RevFacts DEF CarefulInv, MutualInv, AllLinks
  <2> QED
    BY <2>2, <2>3 DEF CarefulInv, LinkInv, TypeOK
<1> QED
  BY <1>1, <1>2

\* An add changes the links of both ends, wherever they are kept.
LEMMA AddLinks ==
    ASSUME CarefulInv, NEW t \in Links, Add(t)
    PROVE  LET gone == Rivals(t, AllLinks) \cup Rivals(Rev(t), AllLinks)
           IN  AllLinks' = (AllLinks \ BothEnds(gone)) \cup {t, Rev(t)}
<1> DEFINE R == Rivals(t, data)
           E == Evicted(t)
           V == Rivals(Rev(t), AllLinks)
           gone == Rivals(t, AllLinks) \cup V
<1>1. ClientAdds(t) /\ t \notin data /\ Loading({t[3]}) /\ t[1] # t[3]
  BY DEF Add, ClientAdds
<1>2. /\ t \notin AllLinks /\ Rev(t) \notin AllLinks /\ Rev(t) # t
      /\ R = Rivals(t, AllLinks) /\ BothEnds(R) \subseteq data
      /\ E \subseteq AllLinks /\ E = V \ BothEnds(R)
      /\ \A u \in E : u \in Begun(t) /\ Rev(u) \in Begun(t)
      /\ Begun(t) = ((AllLinks \ BothEnds(R)) \ (file \ Read({t[3]}))) \cup {t}
  BY <1>1, AddAtBothEnds
<1>3. data' = (Begun(t) \ BothEnds(E)) \cup {Rev(t)} /\ file' = file \ Read({t[3]})
  BY <1>1 DEF Add, Loading
<1>4. AllLinks \subseteq Links /\ R \subseteq Links /\ E \subseteq Links
  BY <1>2 DEF CarefulInv, LinkInv, TypeOK, AllLinks, Rivals
<1>5. BothEnds(gone) \cap AllLinks = (BothEnds(R) \cup BothEnds(E)) \cap AllLinks
  <2>1. BothEnds(gone) = BothEnds(R) \cup BothEnds(V)
    BY <1>2 DEF BothEnds, Revs
  <2>2. BothEnds(E) \subseteq BothEnds(V)
    BY <1>2 DEF BothEnds, Revs
  <2>3. BothEnds(V) \subseteq BothEnds(R) \cup BothEnds(E)
    <3>1. ASSUME NEW u \in V, u \notin E
          PROVE  u \in BothEnds(R) /\ Rev(u) \in BothEnds(R)
      <4>1. u \in BothEnds(R) /\ u \in Links
        BY <1>2, <1>4, <3>1 DEF Rivals
      <4>2. \A v \in R : Rev(Rev(v)) = v
        BY <1>4, RevFacts
      <4>3. Rev(u) \in BothEnds(R)
        BY <4>1, <4>2 DEF BothEnds, Revs
      <4> QED
        BY <4>1, <4>3
    <3> HIDE DEF V, E, R
    <3> QED
      BY <3>1 DEF BothEnds, Revs
  <2> HIDE DEF V, E, R, gone
  <2> QED
    BY <2>1, <2>2, <2>3
<1>6. ASSUME NEW u \in file \ Read({t[3]})
      PROVE  u \notin BothEnds(R) \cup BothEnds(E)
  <2>1. u \notin BothEnds(R)
    BY <1>2 DEF CarefulInv, LinkInv, TypeOK
  <2>2. u \notin Begun(t)
    BY <1>2, <1>6 DEF AllLinks
  <2> QED
    BY <1>2, <2>1, <2>2 DEF BothEnds, Revs
<1>7. t \notin BothEnds(E)
  BY <1>2, <1>4, RevFacts DEF BothEnds, Revs
<1> HIDE DEF R, E, gone, V
<1>8. AllLinks' = data' \cup file'
  BY DEF AllLinks
<1>9. file \subseteq AllLinks
  BY DEF AllLinks
<1>10. AllLinks' = (AllLinks \ BothEnds(gone)) \cup {t, Rev(t)}
  BY <1>2, <1>3, <1>5, <1>6, <1>7, <1>8, <1>9
<1> QED
  BY <1>10 DEF gone, V

\* A remove takes the link away at both ends.
LEMMA RemoveLinks ==
    ASSUME CarefulInv, Careful, NEW t \in Links, Remove(t)
    PROVE  t \in AllLinks /\ AllLinks' = AllLinks \ {t, Rev(t)}
<1>1. t \in data /\ t[3] \in loaded /\ Rev(t) \in data
  BY DEF Remove, ClientRemoves, Removed, BothEnds, Revs
<1>2. data' = data \ {t, Rev(t)} /\ file' = file
  BY <1>1 DEF Remove, Removed, BothEnds, Revs
<1>3. t \notin file /\ Rev(t) \notin file
  BY <1>1 DEF CarefulInv, LinkInv, TypeOK
<1> QED
  BY <1>1, <1>2, <1>3 DEF AllLinks

\* Releasing and loading move links and change none.
LEMMA StorageLinks ==
    ASSUME NEW a \in Elems, Release(a) \/ Load(a)
    PROVE  AllLinks' = AllLinks
BY DEF Release, Load, Loading, Read, AllLinks

\* A link keeps its other end when both ends of other links go.
LEMMA MutualWithout ==
    ASSUME NEW T, NEW W, T \subseteq Links, W \subseteq Links,
           \A u \in W : Rev(u) \in W
    PROVE  \A u \in W \ BothEnds(T) : Rev(u) \in W \ BothEnds(T)
BY BothEndsClosed

LEMMA CarefulNext == Careful /\ CarefulInv /\ [Next]_vars => CarefulInv'
<1> SUFFICES ASSUME Careful, CarefulInv, [Next]_vars
             PROVE  CarefulInv'
  OBVIOUS
<1>1. LinkInv'
  BY LinkNext DEF CarefulInv
<1>2. AllLinks \subseteq Links
  BY DEF CarefulInv, LinkInv, TypeOK, AllLinks
<1>3. ASSUME NEW t \in Links, Add(t)
      PROVE  MutualInv'
  <2> DEFINE gone == Rivals(t, AllLinks) \cup Rivals(Rev(t), AllLinks)
  <2>1. AllLinks' = (AllLinks \ BothEnds(gone)) \cup {t, Rev(t)}
    BY <1>3, AddLinks
  <2>2. Rev(Rev(t)) = t /\ Rev(t)[1] = t[3] /\ Rev(t)[3] = t[1] /\ t[1] # t[3]
    BY <1>3, RevFacts DEF Add, ClientAdds
  <2>3. gone \subseteq Links
    BY <1>2 DEF Rivals
  <2> HIDE DEF gone
  <2>4. \A u \in AllLinks \ BothEnds(gone) : Rev(u) \in AllLinks \ BothEnds(gone)
    BY <1>2, <2>3, MutualWithout DEF CarefulInv, MutualInv
  <2>5. \A u \in AllLinks' : Rev(u) \in AllLinks'
    BY <2>1, <2>2, <2>4
  <2>6. \A u \in AllLinks' : u[1] # u[3]
    BY <2>1, <2>2 DEF CarefulInv, MutualInv
  <2> QED
    BY <2>5, <2>6 DEF MutualInv
<1>4. ASSUME NEW t \in Links, Remove(t)
      PROVE  MutualInv'
  <2>1. AllLinks' = AllLinks \ BothEnds({t})
    BY <1>4, RemoveLinks DEF BothEnds, Revs
  <2>2. \A u \in AllLinks \ BothEnds({t}) : Rev(u) \in AllLinks \ BothEnds({t})
    BY <1>2, MutualWithout DEF CarefulInv, MutualInv
  <2> QED
    BY <2>1, <2>2 DEF CarefulInv, MutualInv
<1>5. ASSUME AllLinks' = AllLinks
      PROVE  MutualInv'
  BY <1>5 DEF CarefulInv, MutualInv
<1>6. UNCHANGED vars => AllLinks' = AllLinks
  BY DEF vars, AllLinks
<1>7. MutualInv'
  BY <1>3, <1>4, <1>5, <1>6, NothingThrows, StorageLinks DEF Next
<1> QED
  BY <1>1, <1>7 DEF CarefulInv

LEMMA CarefulInit == Init => CarefulInv
BY LinkInit DEF Init, CarefulInv, MutualInv, AllLinks

LEMMA CarefulInvariant == Spec /\ []Careful => []CarefulInv
BY CarefulInit, CarefulNext, PTL DEF Spec

\* "This one will just make sure that the instance it is referencing also has a
\* reference to it" (README.md:24-25): with a client that removes only what is in memory
\* the opposites of privateSet.h agree, in memory and in files.
THEOREM Mutual == ASSUME Careful PROVE Spec => []OppositesMutual
<1>1. CarefulInv => OppositesMutual
  BY DEF CarefulInv, MutualInv, AllLinks, OppositesMutual
<1> QED
  BY <1>1, CarefulInvariant, PTL

\* With that client no element is in two sets whose opposite is one Singleton: adding
\* it to the second takes it out of the first (singleton.h:63-71).
THEOREM Owned == ASSUME Careful PROVE Spec => []OneOwner
<1>1. CarefulInv => OneOwner
  <2> SUFFICES ASSUME CarefulInv, NEW t \in AllLinks, NEW u \in AllLinks,
                      t[2] = u[2], t[3] = u[3], Opp[t[2]] \in Singletons
               PROVE  t[1] = u[1]
    BY DEF OneOwner, AllLinks
  <2>1. t \in Links /\ u \in Links
    BY DEF CarefulInv, LinkInv, TypeOK, AllLinks
  <2>2. /\ Rev(t)[1] = t[3] /\ Rev(t)[2] = Opp[t[2]] /\ Rev(t)[3] = t[1]
        /\ Rev(u)[1] = u[3] /\ Rev(u)[2] = Opp[u[2]] /\ Rev(u)[3] = u[1]
    BY <2>1, RevFacts
  <2>3. Rev(t) \in AllLinks /\ Rev(u) \in AllLinks
    BY DEF CarefulInv, MutualInv
  <2>4. Rev(u) = Rev(t)
    BY <2>2, <2>3 DEF CarefulInv, LinkInv, TypeOK, AllLinks
  <2> QED
    BY <2>2, <2>4
<1> QED
  BY <1>1, CarefulInvariant, PTL

\* With that client adds and removes, at either end, in memory or not, are those of an
\* association: Opposites refines Associations.
THEOREM Implements == ASSUME Careful PROVE Spec => ImplementsAssociations
<1>1. Init => Promise!Init
  BY DEF Init, Promise!Init
<1>2. ASSUME CarefulInv, [Next]_vars
      PROVE  [Promise!Next]_AllLinks
  <2>1. ASSUME NEW t \in Links, Add(t)
        PROVE  Promise!Next
    <3> DEFINE gone == Rivals(t, AllLinks) \cup Rivals(Rev(t), AllLinks)
    <3>1. AllLinks' = (AllLinks \ BothEnds(gone)) \cup {t, Rev(t)}
      BY <1>2, <2>1, AddLinks
    <3>2. Promise!Rev(t) = Rev(t) /\ \A u : Promise!Rev(u) = Rev(u)
      BY DEF Promise!Rev, Rev
    <3>3. \A u : Promise!Rivals(u) = Rivals(u, AllLinks)
      BY DEF Promise!Rivals, Rivals, AllLinks
    <3>4. t[1] # t[3]
      BY <2>1 DEF Add, ClientAdds
    <3>5. Promise!Link(t)
      BY <3>1, <3>2, <3>3, <3>4 DEF Promise!Link, BothEnds, Revs, AllLinks
    <3> QED
      BY <3>5 DEF Promise!Next, Promise!Links, Links
  <2>2. ASSUME NEW t \in Links, Remove(t)
        PROVE  Promise!Next
    <3>1. t \in AllLinks /\ AllLinks' = AllLinks \ {t, Rev(t)}
      BY <1>2, <2>2, RemoveLinks
    <3>2. Promise!Rev(t) = Rev(t)
      BY DEF Promise!Rev, Rev
    <3>3. Promise!Unlink(t)
      BY <3>1, <3>2 DEF Promise!Unlink, AllLinks
    <3> QED
      BY <3>3 DEF Promise!Next, Promise!Links, Links
  <2>3. UNCHANGED vars => AllLinks' = AllLinks
    BY DEF vars, AllLinks
  <2> QED
    BY <1>2, <2>1, <2>2, <2>3, NothingThrows, StorageLinks DEF Next
<1>3. CarefulInv /\ [Next]_vars => [Promise!Next]_(data \cup file)
  BY <1>2 DEF AllLinks
<1> QED
  BY <1>1, <1>3, CarefulInvariant, PTL DEF Spec, ImplementsAssociations, Promise!Spec

\* What the association promises is worth implementing: in every behaviour it allows, the
\* ends agree, an element is never in a set of its own, and a Singleton holds one element,
\* so that no element has two owners.
THEOREM AssociationsAgree ==
    Promise!Spec =>
        [](/\ OppositesMutual /\ OneOwner
           /\ \A t \in AllLinks : t[1] # t[3]
           /\ \A t, u \in AllLinks :
                 t[2] \in Singletons /\ u[1] = t[1] /\ u[2] = t[2] => u = t)
<1> DEFINE Ends == /\ AllLinks \subseteq Links
                   /\ \A t \in AllLinks : Rev(t) \in AllLinks /\ t[1] # t[3]
                   /\ \A t, u \in AllLinks :
                         t[2] \in Singletons /\ u[1] = t[1] /\ u[2] = t[2] => u = t
<1>1. Promise!Init => Ends
  BY DEF Promise!Init, AllLinks
<1>2. ASSUME Ends, NEW t \in Links, Promise!Link(t)
      PROVE  Ends'
  <2> DEFINE gone == Rivals(t, AllLinks) \cup Rivals(Rev(t), AllLinks)
  <2>1. t[1] # t[3] /\ AllLinks' = (AllLinks \ BothEnds(gone)) \cup {t, Rev(t)}
    <3>1. Promise!Rev(t) = Rev(t) /\ \A u : Promise!Rev(u) = Rev(u)
      BY DEF Promise!Rev, Rev
    <3>2. \A u : Promise!Rivals(u) = Rivals(u, AllLinks)
      BY DEF Promise!Rivals, Rivals, AllLinks
    <3> QED
      BY <1>2, <3>1, <3>2 DEF Promise!Link, BothEnds, Revs, AllLinks
  <2>2. gone \subseteq AllLinks /\ gone \subseteq Links
    BY <1>2 DEF Rivals
  <2>3. /\ Rev(t) \in Links /\ Rev(Rev(t)) = t
        /\ Rev(t)[1] = t[3] /\ Rev(t)[2] = Opp[t[2]] /\ Rev(t)[3] = t[1]
    BY RevFacts
  <2>4. \A u \in AllLinks \ BothEnds(gone) :
          /\ ~(t[2] \in Singletons /\ u[1] = t[1] /\ u[2] = t[2])
          /\ ~(Rev(t)[2] \in Singletons /\ u[1] = Rev(t)[1] /\ u[2] = Rev(t)[2])
    BY DEF BothEnds, Rivals
  <2> HIDE DEF gone
  <2>5. \A u \in AllLinks \ BothEnds(gone) : Rev(u) \in AllLinks \ BothEnds(gone)
    BY <1>2, <2>2, MutualWithout
  <2>6. AllLinks' \subseteq Links
    BY <1>2, <2>1, <2>3
  <2>7. \A u \in AllLinks' : Rev(u) \in AllLinks' /\ u[1] # u[3]
    BY <1>2, <2>1, <2>3, <2>5
  <2>8. ASSUME NEW v \in AllLinks', NEW u \in AllLinks',
               v[2] \in Singletons, u[1] = v[1], u[2] = v[2]
        PROVE  u = v
    BY <1>2, <2>1, <2>3, <2>4, <2>8
  <2> QED
    BY <2>6, <2>7, <2>8
<1>3. ASSUME Ends, NEW t \in Links, Promise!Unlink(t)
      PROVE  Ends'
  <2>1. AllLinks' = AllLinks \ BothEnds({t})
    <3>1. Promise!Rev(t) = Rev(t)
      BY DEF Promise!Rev, Rev
    <3> QED
      BY <1>3, <3>1 DEF Promise!Unlink, BothEnds, Revs, AllLinks
  <2>2. \A u \in AllLinks \ BothEnds({t}) : Rev(u) \in AllLinks \ BothEnds({t})
    BY <1>3, MutualWithout
  <2> QED
    BY <1>3, <2>1, <2>2
<1>4. ASSUME Ends, AllLinks' = AllLinks
      PROVE  Ends'
  BY <1>4
<1>5. Ends /\ [Promise!Next]_(data \cup file) => Ends'
  <2> HIDE DEF Ends
  <2> QED
    BY <1>2, <1>3, <1>4 DEF Promise!Next, Promise!Links, Links, AllLinks
<1>6. Ends => OneOwner
  <2> SUFFICES ASSUME Ends, NEW t \in AllLinks, NEW u \in AllLinks,
                      t[2] = u[2], t[3] = u[3], Opp[t[2]] \in Singletons
               PROVE  t[1] = u[1]
    BY DEF OneOwner, AllLinks
  <2>1. t \in Links /\ u \in Links /\ Rev(t) \in AllLinks /\ Rev(u) \in AllLinks
    OBVIOUS
  <2>2. /\ Rev(t)[1] = t[3] /\ Rev(t)[2] = Opp[t[2]] /\ Rev(t)[3] = t[1]
        /\ Rev(u)[1] = u[3] /\ Rev(u)[2] = Opp[u[2]] /\ Rev(u)[3] = u[1]
    BY <2>1, RevFacts
  <2>3. Rev(u) = Rev(t)
    BY <2>1, <2>2
  <2> QED
    BY <2>2, <2>3
<1>7. Ends => OppositesMutual
  BY DEF OppositesMutual, AllLinks
<1>8. Ends => /\ OppositesMutual /\ OneOwner
              /\ \A t \in AllLinks : t[1] # t[3]
              /\ \A t, u \in AllLinks :
                    t[2] \in Singletons /\ u[1] = t[1] /\ u[2] = t[2] => u = t
  BY <1>6, <1>7
<1> HIDE DEF Ends
<1>9. Promise!Spec => []Ends
  BY <1>1, <1>5, PTL DEF Promise!Spec
<1> QED
  BY <1>8, <1>9, PTL

=============================================================================
