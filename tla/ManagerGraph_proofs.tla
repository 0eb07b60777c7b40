-------------------------- MODULE ManagerGraph_proofs --------------------------
(***************************************************************************)
(* Theorems about ManagerGraph, for every set of ids and handles.  The     *)
(* first part holds for every client; the second for a client that keeps a *)
(* pointer to every released element.                                      *)
(***************************************************************************)
EXTENDS ManagerGraph, TLAPS

-----------------------------------------------------------------------------
(* The inductive invariant, for every client *)

\* Only elements in memory have a set.
OnlyLoadedHold == \A a \in Ids \ loaded : content[a] = {}

\* The sets of released elements are listed in references only.
StaleIsReferenced == \A a \in Ids : stale[a] \subseteq refs[a]

\* No element is in its own set, in memory or in its file.
NoSelfReference == \A a \in Ids : a \notin refs[a] \cup file[a]

GraphInv ==
    /\ TypeOK
    /\ ReferencesMutual
    /\ PointersExact
    /\ HeldIsReferenced
    /\ ReferenceHasSet
    /\ OnlyLoadedHold
    /\ StaleIsReferenced
    /\ NoSelfReference

\* Slots between nodes of the graph, owned by elements in memory.
LEMMA SlotsOfPairs ==
    ASSUME TypeOK, NEW L \in SUBSET Ids
    PROVE  SlotsOf(L) \in SUBSET (L \X Ids)
BY DEF SlotsOf

\* Bringing elements into memory and slots into sets keeps the invariant, as long as
\* the handles follow their targets.
LEMMA AttachKeeps ==
    ASSUME GraphInv, NEW L \in SUBSET Ids, L \cap loaded = {},
           NEW N \in SUBSET ((loaded \cup L) \X Ids),
           Attach(L, N), stale' = stale,
           handles' \in [Ids -> SUBSET Handles], target' \in [Handles -> Ids \cup {NoId}],
           \A x \in Ids : handles'[x] = {h \in Handles : target'[h] = x},
           \A x \in Ids : handles'[x] # {} => x \in graph',
           saved' \subseteq Ids, live' \subseteq Ids, erased' \subseteq Ids,
           file' \in [Ids -> SUBSET Ids],
           \A x \in Ids : <<x, x>> \notin N /\ x \notin file'[x]
    PROVE  GraphInv'
<1>. USE DEF GraphInv
<1>1. TypeOK'
  BY DEF TypeOK, Attach, Referenced
<1>2. \A x, y \in Ids : y \in refs'[x] <=> y \in refs[x] \/ <<x, y>> \in N \/ <<y, x>> \in N
  BY DEF TypeOK, Attach, Referenced
<1>3. \A x, y \in Ids : y \in content'[x] <=> y \in content[x] \/ <<x, y>> \in N
  BY DEF TypeOK, Attach
<1>4. \A x, y \in Ids : y \in slots'[x] <=> y \in slots[x] \/ <<y, x>> \in N
  BY DEF TypeOK, Attach
<1>5. \A x, y \in Ids : <<x, y>> \in N => {x, y} \subseteq graph' /\ x \in loaded'
  <2>. SUFFICES ASSUME NEW x \in Ids, NEW y \in Ids, <<x, y>> \in N
                PROVE  {x, y} \subseteq graph' /\ x \in loaded'
    OBVIOUS
  <2>1. x \in loaded \cup L
    OBVIOUS
  <2>2. y \in {n[2] : n \in N}
    <3>1. <<x, y>>[2] = y
      OBVIOUS
    <3>. QED  BY <3>1
  <2>. QED  BY <2>1, <2>2 DEF Attach, TypeOK
<1>6. ReferencesMutual'
  <2>. SUFFICES ASSUME NEW x \in Ids, NEW y \in Ids, y \in refs'[x]
                PROVE  x \in refs'[y] /\ x \in graph' /\ y \in graph'
    BY DEF ReferencesMutual
  <2>1. CASE y \in refs[x]
    BY <2>1, <1>2 DEF ReferencesMutual, Attach
  <2>2. CASE <<x, y>> \in N \/ <<y, x>> \in N
    BY <2>2, <1>2, <1>5
  <2>. QED  BY <2>1, <2>2, <1>2
<1>7. PointersExact'
  <2>. SUFFICES ASSUME NEW x \in Ids
                PROVE  /\ slots'[x] = {a \in loaded' : x \in content'[a]}
                       /\ slots'[x] # {} => x \in graph'
    BY DEF PointersExact
  <2>1. \A y \in Ids : y \in slots'[x] <=> y \in loaded' /\ x \in content'[y]
    BY <1>3, <1>4, <1>5 DEF PointersExact, OnlyLoadedHold, Attach, TypeOK
  <2>2. slots'[x] \subseteq Ids /\ loaded' \subseteq Ids
    BY <1>1 DEF TypeOK
  <2>3. slots'[x] # {} => x \in graph'
    BY <1>4, <1>5, <2>2 DEF PointersExact, Attach
  <2>. QED  BY <2>1, <2>2, <2>3
<1>8. HeldIsReferenced'
  BY <1>1, <1>2, <1>3 DEF HeldIsReferenced, TypeOK
<1>9. ReferenceHasSet'
  BY <1>2, <1>3 DEF ReferenceHasSet
<1>10. OnlyLoadedHold'
  <2>. SUFFICES ASSUME NEW a \in Ids, a \notin loaded'
                PROVE  content'[a] = {}
    BY DEF OnlyLoadedHold
  <2>1. \A y \in Ids : y \notin content'[a]
    BY <1>3, <1>5 DEF OnlyLoadedHold, Attach
  <2>. QED  BY <2>1, <1>1 DEF TypeOK
<1>11. StaleIsReferenced'
  BY <1>2 DEF StaleIsReferenced, TypeOK
<1>12. NoSelfReference'
  BY <1>2 DEF NoSelfReference
<1>. QED  BY <1>1, <1>6, <1>7, <1>8, <1>9, <1>10, <1>11, <1>12

\* What is left of references when the nodes of D go.
LEMMA WithoutNodes ==
    ASSUME NEW r \in [Ids -> SUBSET Ids], NEW D \in SUBSET Ids
    PROVE  /\ Without(r, D) \in [Ids -> SUBSET Ids]
           /\ \A x, y \in Ids : y \in Without(r, D)[x] <=> y \in r[x] /\ x \notin D /\ y \notin D
BY DEF Without

\* Dropping a handle, and with it the node it was the last pointer on.
LEMMA DropKeeps ==
    ASSUME GraphInv, NEW h \in Handles, Drop(h)
    PROVE  GraphInv'
<1>. USE DEF GraphInv
<1>. DEFINE a == target[h]
            p == [handles EXCEPT ![a] = @ \ {h}]
            D == Deserted({a}, slots, p)
<1>1. /\ a \in Ids /\ handles' = p /\ target' = [target EXCEPT ![h] = NoId]
      /\ graph' = graph \ D /\ refs' = Without(refs, D) /\ stale' = Without(stale, D)
      /\ loaded' = loaded /\ content' = content /\ slots' = slots
      /\ saved' = saved /\ file' = file /\ live' = live /\ erased' = erased
  BY DEF Drop, TypeOK
<1>2. D \in SUBSET Ids /\ \A x \in D : x \notin loaded /\ slots[x] = {} /\ p[x] = {}
  BY <1>1 DEF Deserted
<1>3. p \in [Ids -> SUBSET Handles] /\ \A x \in Ids : p[x] = {g \in Handles : target'[g] = x}
  <2>1. \A x \in Ids : p[x] = IF x = a THEN handles[x] \ {h} ELSE handles[x]
    BY <1>1 DEF TypeOK
  <2>2. \A g \in Handles : target'[g] = IF g = h THEN NoId ELSE target[g]
    BY <1>1 DEF TypeOK
  <2>. QED  BY <1>1, <2>1, <2>2, IdsAssumption DEF TypeOK, PointersExact
<1>. HIDE DEF p, D
<1>4. /\ refs' \in [Ids -> SUBSET Ids] /\ stale' \in [Ids -> SUBSET Ids]
      /\ \A x, y \in Ids : y \in refs'[x] <=> y \in refs[x] /\ x \notin D /\ y \notin D
      /\ \A x, y \in Ids : y \in stale'[x] <=> y \in stale[x] /\ x \notin D /\ y \notin D
  BY <1>1, <1>2, WithoutNodes DEF TypeOK
<1>5. TypeOK'
  BY <1>1, <1>2, <1>3, <1>4 DEF TypeOK
<1>6. ReferencesMutual'
  BY <1>1, <1>4 DEF ReferencesMutual
<1>7. \A x \in Ids : content[x] # {} => x \notin D
  BY <1>2 DEF OnlyLoadedHold
<1>8. \A x, y \in Ids : y \in content[x] => y \notin D
  BY <1>2 DEF PointersExact, OnlyLoadedHold
<1>9. PointersExact'
  <2>1. \A x \in Ids : p[x] # {} => handles[x] # {}
    BY <1>1 DEF p, TypeOK
  <2>. QED  BY <1>1, <1>2, <1>3, <2>1 DEF PointersExact
<1>10. HeldIsReferenced'
  BY <1>1, <1>4, <1>7, <1>8, <1>5 DEF HeldIsReferenced, TypeOK
<1>11. ReferenceHasSet'
  BY <1>1, <1>4 DEF ReferenceHasSet
<1>12. OnlyLoadedHold' /\ StaleIsReferenced' /\ NoSelfReference'
  BY <1>1, <1>4, <1>5 DEF OnlyLoadedHold, StaleIsReferenced, NoSelfReference, TypeOK
<1>. QED  BY <1>5, <1>6, <1>9, <1>10, <1>11, <1>12

\* Removing an element from a set, and with it a node nothing points to any more.
LEMMA RemoveKeeps ==
    ASSUME GraphInv, NEW a \in Ids, NEW b \in Ids, Remove(a, b)
    PROVE  GraphInv'
<1>. USE DEF GraphInv
<1>. DEFINE s == [slots EXCEPT ![b] = @ \ {a}]
            D == Deserted({b}, s, handles)
            r == Unreferenced(a, b)
<1>1. /\ a \in loaded /\ b \in content[a] /\ a # b
      /\ content' = [content EXCEPT ![a] = @ \ {b}] /\ slots' = s
      /\ graph' = graph \ D /\ refs' = Without(r, D) /\ stale' = Without(stale, D)
      /\ loaded' = loaded /\ handles' = handles /\ target' = target
      /\ saved' = saved /\ file' = file /\ live' = live /\ erased' = erased
  BY DEF Remove, HeldIsReferenced, NoSelfReference
<1>2. D \in SUBSET Ids /\ \A x \in D : x \notin loaded /\ s[x] = {} /\ handles[x] = {}
  BY DEF Deserted
<1>3. /\ s \in [Ids -> SUBSET Ids]
      /\ \A x, y \in Ids : y \in s[x] <=> y \in slots[x] /\ <<y, x>> # <<a, b>>
  BY DEF TypeOK
<1>4. /\ content' \in [Ids -> SUBSET Ids]
      /\ \A x, y \in Ids : y \in content'[x] <=> y \in content[x] /\ <<x, y>> # <<a, b>>
  BY <1>1 DEF TypeOK
<1>5. /\ r \in [Ids -> SUBSET Ids]
      /\ \A x, y \in Ids : y \in r[x] <=>
            /\ y \in refs[x]
            /\ (x = a /\ y = b) \/ (x = b /\ y = a) =>
                  b \in stale[a] \/ a \in content[b] \cup stale[b]
  <2>1. CASE b \in stale[a] \/ a \in content[b] \cup stale[b]
    BY <2>1 DEF Unreferenced, TypeOK
  <2>2. CASE ~(b \in stale[a] \/ a \in content[b] \cup stale[b])
    <3>1. r = [refs EXCEPT ![a] = @ \ {b}, ![b] = @ \ {a}]
      BY <2>2 DEF Unreferenced
    <3>2. \A x \in Ids : r[x] = IF x = a THEN refs[x] \ {b}
                               ELSE IF x = b THEN refs[x] \ {a} ELSE refs[x]
      BY <3>1, <1>1 DEF TypeOK
    <3>3. r \in [Ids -> SUBSET Ids]
      BY <3>1 DEF TypeOK
    <3>. QED  BY <2>2, <3>2, <3>3, <1>1
  <2>. QED  BY <2>1, <2>2
<1>. HIDE DEF s, D, r
<1>6. /\ refs' \in [Ids -> SUBSET Ids] /\ stale' \in [Ids -> SUBSET Ids]
      /\ \A x, y \in Ids : y \in refs'[x] <=> y \in r[x] /\ x \notin D /\ y \notin D
      /\ \A x, y \in Ids : y \in stale'[x] <=> y \in stale[x] /\ x \notin D /\ y \notin D
  <2>1. stale \in [Ids -> SUBSET Ids]
    BY DEF TypeOK
  <2>. QED  BY <1>1, <1>2, <1>5, <2>1, WithoutNodes
<1>7. TypeOK'
  BY <1>1, <1>2, <1>3, <1>4, <1>6 DEF TypeOK
<1>8. \A x, y \in Ids : y \in r[x] => x \in r[y]
  BY <1>5 DEF ReferencesMutual
<1>9. ReferencesMutual'
  <2>. SUFFICES ASSUME NEW x \in Ids, NEW y \in Ids, y \in refs'[x]
                PROVE  x \in refs'[y] /\ x \in graph' /\ y \in graph'
    BY DEF ReferencesMutual
  <2>1. y \in refs[x]
    BY <1>5, <1>6
  <2>2. x \in graph /\ y \in graph
    BY <2>1 DEF ReferencesMutual
  <2>. QED  BY <1>1, <1>6, <1>8, <2>2
<1>10. \A x, y \in Ids : y \in slots'[x] <=> y \in loaded' /\ x \in content'[y]
  BY <1>1, <1>3, <1>4 DEF PointersExact
<1>11. PointersExact'
  <2>. SUFFICES ASSUME NEW x \in Ids
                PROVE  /\ slots'[x] = {y \in loaded' : x \in content'[y]}
                       /\ slots'[x] \cup handles'[x] # {} => x \in graph'
    BY <1>1 DEF PointersExact
  <2>1. slots'[x] = {y \in loaded' : x \in content'[y]}
    BY <1>7, <1>10 DEF TypeOK
  <2>2. x \in D => slots'[x] \cup handles'[x] = {}
    BY <1>1, <1>2
  <2>3. slots'[x] \subseteq slots[x]
    BY <1>1, <1>3
  <2>. QED  BY <1>1, <2>1, <2>2, <2>3 DEF PointersExact
<1>12. \A x, y \in Ids : y \in content'[x] => y \notin D /\ x \notin D /\ y \in r[x]
  <2>. SUFFICES ASSUME NEW x \in Ids, NEW y \in Ids, y \in content'[x]
                PROVE  y \notin D /\ x \notin D /\ y \in r[x]
    OBVIOUS
  <2>1. y \in content[x] /\ <<x, y>> # <<a, b>> /\ x \in loaded
    BY <1>4 DEF OnlyLoadedHold
  <2>2. x \notin D
    BY <1>2, <2>1
  <2>3. y \notin D
    BY <1>1, <1>2, <1>10, <2>1
  <2>4. x = b /\ y = a => a \in content[b]
    BY <2>1
  <2>5. y \in refs[x]
    BY <2>1 DEF HeldIsReferenced
  <2>. QED  BY <1>5, <2>1, <2>2, <2>3, <2>4, <2>5
<1>13. HeldIsReferenced'
  BY <1>6, <1>7, <1>12 DEF HeldIsReferenced, TypeOK
<1>14. ReferenceHasSet'
  <2>. SUFFICES ASSUME NEW x \in Ids, NEW y \in Ids, y \in refs'[x]
                PROVE  \/ y \in content'[x] \cup stale'[x]
                       \/ x \in content'[y] \cup stale'[y]
    BY DEF ReferenceHasSet
  <2>1. y \in refs[x] /\ x \notin D /\ y \notin D /\ y \in r[x]
    BY <1>5, <1>6
  <2>2. y \in content[x] \cup stale[x] \/ x \in content[y] \cup stale[y]
    BY <2>1 DEF ReferenceHasSet
  <2>3. CASE (x = a /\ y = b) \/ (x = b /\ y = a)
    <3>1. b \in stale[a] \/ a \in content[b] \/ a \in stale[b]
      BY <1>5, <2>1, <2>3
    <3>. QED  BY <1>1, <1>4, <1>6, <2>1, <2>3, <3>1
  <2>4. CASE ~((x = a /\ y = b) \/ (x = b /\ y = a))
    BY <1>4, <1>6, <2>1, <2>2, <2>4
  <2>. QED  BY <2>3, <2>4
<1>15. OnlyLoadedHold'
  <2>. SUFFICES ASSUME NEW x \in Ids, x \notin loaded
                PROVE  content'[x] = {}
    BY <1>1 DEF OnlyLoadedHold
  <2>. QED  BY <1>4, <1>7 DEF OnlyLoadedHold, TypeOK
<1>16. StaleIsReferenced'
  <2>. SUFFICES ASSUME NEW x \in Ids, NEW y \in Ids, y \in stale'[x]
                PROVE  y \in refs'[x]
    BY <1>7 DEF StaleIsReferenced, TypeOK
  <2>1. y \in refs[x] /\ y \in stale[x] /\ x \notin D /\ y \notin D
    BY <1>6 DEF StaleIsReferenced
  <2>2. y \in r[x]
    <3>1. CASE x = a /\ y = b
      BY <1>5, <2>1, <3>1
    <3>2. CASE x = b /\ y = a
      BY <1>5, <2>1, <3>2
    <3>3. CASE ~(x = a /\ y = b) /\ ~(x = b /\ y = a)
      BY <1>5, <2>1, <3>3
    <3>. QED  BY <3>1, <3>2, <3>3
  <2>. QED  BY <1>6, <2>1, <2>2
<1>17. NoSelfReference'
  BY <1>1, <1>5, <1>6 DEF NoSelfReference
<1>. QED  BY <1>7, <1>9, <1>11, <1>13, <1>14, <1>15, <1>16, <1>17

\* Releasing an element, and with it nodes nothing points to any more.
LEMMA UnloadKeeps ==
    ASSUME GraphInv, NEW a \in loaded, NEW D \in SUBSET Ids, Unload(a, D),
           \A x \in D : x \notin loaded \ {a} /\ slots[x] \subseteq {a} /\ handles[x] = {}
    PROVE  GraphInv'
<1>. USE DEF GraphInv
<1>. DEFINE st == [stale EXCEPT ![a] = @ \cup content[a]]
<1>1. /\ a \in Ids
      /\ saved' = saved \cup {a} /\ file' = [file EXCEPT ![a] = content[a]]
      /\ loaded' = loaded \ {a} /\ content' = [content EXCEPT ![a] = {}]
      /\ slots' = [x \in Ids |-> slots[x] \ {a}]
      /\ graph' = graph \ D /\ refs' = Without(refs, D) /\ stale' = Without(st, D)
      /\ handles' = handles /\ target' = target /\ live' = live /\ erased' = erased
  BY DEF Unload, TypeOK
<1>2. \A x, y \in Ids : y \in content'[x] <=> y \in content[x] /\ x # a
  BY <1>1 DEF TypeOK
<1>3. \A x, y \in Ids : y \in slots'[x] <=> y \in slots[x] /\ y # a
  BY <1>1
<1>4. /\ st \in [Ids -> SUBSET Ids]
      /\ \A x, y \in Ids : y \in st[x] <=> y \in stale[x] \/ (x = a /\ y \in content[a])
  BY <1>1 DEF TypeOK
<1>. HIDE DEF st
<1>5. /\ refs' \in [Ids -> SUBSET Ids]
      /\ \A x, y \in Ids : y \in refs'[x] <=> y \in refs[x] /\ x \notin D /\ y \notin D
  BY <1>1, WithoutNodes DEF TypeOK
<1>6. /\ stale' \in [Ids -> SUBSET Ids]
      /\ \A x, y \in Ids : y \in stale'[x] <=> y \in st[x] /\ x \notin D /\ y \notin D
  BY <1>1, <1>4, WithoutNodes
<1>7. /\ content' \in [Ids -> SUBSET Ids] /\ slots' \in [Ids -> SUBSET Ids]
      /\ file' \in [Ids -> SUBSET Ids]
  BY <1>1 DEF TypeOK
<1>8. TypeOK'
  BY <1>1, <1>5, <1>6, <1>7 DEF TypeOK
<1>9. ReferencesMutual'
  BY <1>1, <1>5 DEF ReferencesMutual
<1>10. \A x, y \in Ids : y \in slots'[x] <=> y \in loaded' /\ x \in content'[y]
  BY <1>1, <1>2, <1>3 DEF PointersExact
<1>11. PointersExact'
  <2>. SUFFICES ASSUME NEW x \in Ids
                PROVE  /\ slots'[x] = {y \in loaded' : x \in content'[y]}
                       /\ slots'[x] \cup handles'[x] # {} => x \in graph'
    BY <1>1 DEF PointersExact
  <2>1. slots'[x] = {y \in loaded' : x \in content'[y]}
    BY <1>8, <1>10 DEF TypeOK
  <2>2. x \in D => slots'[x] \cup handles'[x] = {}
    BY <1>1
  <2>3. slots'[x] \subseteq slots[x]
    BY <1>1
  <2>. QED  BY <1>1, <2>1, <2>2, <2>3 DEF PointersExact
<1>12. \A x, y \in Ids : y \in content'[x] => y \notin D /\ x \notin D /\ y \in refs[x]
  <2>. SUFFICES ASSUME NEW x \in Ids, NEW y \in Ids, y \in content'[x]
                PROVE  y \notin D /\ x \notin D /\ y \in refs[x]
    OBVIOUS
  <2>1. y \in content[x] /\ x # a /\ x \in loaded
    BY <1>2 DEF OnlyLoadedHold
  <2>2. x \in slots[y]
    BY <2>1 DEF PointersExact
  <2>. QED  BY <2>1, <2>2 DEF HeldIsReferenced
<1>13. HeldIsReferenced'
  BY <1>5, <1>8, <1>12 DEF HeldIsReferenced, TypeOK
<1>14. ReferenceHasSet'
  <2>. SUFFICES ASSUME NEW x \in Ids, NEW y \in Ids, y \in refs'[x]
                PROVE  \/ y \in content'[x] \cup stale'[x]
                       \/ x \in content'[y] \cup stale'[y]
    BY DEF ReferenceHasSet
  <2>1. y \in refs[x] /\ x \notin D /\ y \notin D
    BY <1>5
  <2>2. y \in content[x] \cup stale[x] \/ x \in content[y] \cup stale[y]
    BY <2>1 DEF ReferenceHasSet
  <2>. QED  BY <1>2, <1>4, <1>6, <2>1, <2>2
<1>15. OnlyLoadedHold'
  <2>. SUFFICES ASSUME NEW x \in Ids, x \notin loaded'
                PROVE  content'[x] = {}
    BY <1>1 DEF OnlyLoadedHold
  <2>. QED  BY <1>1 DEF OnlyLoadedHold, TypeOK
<1>16. StaleIsReferenced'
  BY <1>4, <1>5, <1>6, <1>8 DEF StaleIsReferenced, HeldIsReferenced, TypeOK
<1>17. NoSelfReference'
  <2>1. \A x \in Ids : file'[x] = IF x = a THEN content[a] ELSE file[x]
    BY <1>1 DEF TypeOK
  <2>. QED  BY <1>5, <2>1 DEF NoSelfReference, HeldIsReferenced
<1>. QED  BY <1>8, <1>9, <1>11, <1>13, <1>14, <1>15, <1>16, <1>17

\* Both releases.
LEMMA ReleaseKeeps ==
    ASSUME GraphInv
    PROVE  /\ \A a \in Ids : ReleaseElement(a) => GraphInv'
           /\ \A h \in Handles : ReleaseHandle(h) => GraphInv'
<1>. USE DEF GraphInv
<1>1. ASSUME NEW a \in Ids, ReleaseElement(a)
      PROVE  GraphInv'
  <2>. DEFINE D == {x \in {a} : slots[x] = {} /\ handles[x] = {}}
  <2>1. a \in loaded /\ D \in SUBSET Ids /\ Unload(a, D)
    BY <1>1 DEF ReleaseElement
  <2>2. \A x \in D : x \notin loaded \ {a} /\ slots[x] \subseteq {a} /\ handles[x] = {}
    OBVIOUS
  <2>. HIDE DEF D
  <2>. QED  BY <2>1, <2>2, UnloadKeeps
<1>2. ASSUME NEW h \in Handles, ReleaseHandle(h)
      PROVE  GraphInv'
  <2>. DEFINE a == target[h]
              s == [x \in Ids |-> slots[x] \ {a}]
              D == Deserted(content[a], s, handles)
  <2>1. a \in loaded /\ Unload(a, D)
    BY <1>2 DEF ReleaseHandle
  <2>2. content[a] \subseteq Ids
    BY <2>1 DEF TypeOK
  <2>3. D \in SUBSET Ids /\ \A x \in D : x \notin loaded /\ s[x] = {} /\ handles[x] = {}
    BY <2>2 DEF Deserted
  <2>4. \A x \in D : x \notin loaded \ {a} /\ slots[x] \subseteq {a} /\ handles[x] = {}
    BY <2>3
  <2>. HIDE DEF D, s, a
  <2>. QED  BY <2>1, <2>3, <2>4, UnloadKeeps
<1>. QED  BY <1>1, <1>2

\* Erasing an element.
LEMMA EraseKeeps ==
    ASSUME GraphInv, NEW b \in Ids, Erase(b)
    PROVE  GraphInv'
<1>. USE DEF GraphInv
<1>. DEFINE L == refs[b] \ loaded
            N == SlotsOf(L)
<1>1. /\ b \in loaded /\ saved' = saved \ {b} /\ file' = [file EXCEPT ![b] = {}]
      /\ graph' = (graph \cup {n[2] : n \in N}) \ {b}
      /\ loaded' = (loaded \cup L) \ {b}
      /\ content' = [a \in Ids |->
             IF a = b THEN {}
             ELSE IF a \in refs[b] THEN (content[a] \cup {x \in Ids : <<a, x>> \in N}) \ {b}
             ELSE content[a]]
      /\ slots' = [x \in Ids |->
             IF x = b THEN {} ELSE (slots[x] \cup {a \in Ids : <<a, x>> \in N}) \ {b}]
      /\ refs' = Without(Referenced(N), {b})
      /\ stale' = Without(stale, {b})
      /\ handles' = [handles EXCEPT ![b] = {}]
      /\ target' = [h \in Handles |-> IF target[h] = b THEN NoId ELSE target[h]]
      /\ live' = live \ {b} /\ erased' = erased \cup {b}
  BY DEF Erase
<1>2. L \in SUBSET Ids /\ b \notin L /\ L \subseteq graph
  BY <1>1 DEF TypeOK, ReferencesMutual
<1>3. /\ N \in SUBSET (L \X Ids)
      /\ \A x, y \in Ids : <<x, y>> \in N => x \in L /\ y \in file[x] /\ x # y
  <2>1. \A x, y \in Ids : <<x, y>> \in N => y \in file[x]
    BY DEF SlotsOf
  <2>2. N \in SUBSET (L \X Ids)
    BY <1>2, SlotsOfPairs
  <2>. QED  BY <2>1, <2>2 DEF NoSelfReference
<1>. HIDE DEF N
<1>4. /\ Referenced(N) \in [Ids -> SUBSET Ids]
      /\ \A x, y \in Ids : y \in Referenced(N)[x] <=>
            y \in refs[x] \/ <<x, y>> \in N \/ <<y, x>> \in N
  BY DEF Referenced, TypeOK
<1>5. /\ refs' \in [Ids -> SUBSET Ids]
      /\ \A x, y \in Ids : y \in refs'[x] <=>
            /\ y \in refs[x] \/ <<x, y>> \in N \/ <<y, x>> \in N
            /\ x # b /\ y # b
  <2>1. {b} \in SUBSET Ids
    OBVIOUS
  <2>. QED  BY <1>1, <1>4, <2>1, WithoutNodes
<1>6. /\ stale' \in [Ids -> SUBSET Ids]
      /\ \A x, y \in Ids : y \in stale'[x] <=> y \in stale[x] /\ x # b /\ y # b
  <2>1. {b} \in SUBSET Ids /\ stale \in [Ids -> SUBSET Ids]
    BY DEF TypeOK
  <2>. QED  BY <1>1, <2>1, WithoutNodes
<1>7. \A x, y \in Ids : y \in content'[x] <=>
          /\ y \in content[x] \/ <<x, y>> \in N
          /\ x # b /\ y # b
  <2>. SUFFICES ASSUME NEW x \in Ids, NEW y \in Ids
                PROVE  y \in content'[x] <=> /\ y \in content[x] \/ <<x, y>> \in N
                                             /\ x # b /\ y # b
    OBVIOUS
  <2>1. b \in content[x] => x \in refs[b]
    BY <1>2 DEF HeldIsReferenced, ReferencesMutual
  <2>2. <<x, y>> \in N => x \in refs[b]
    BY <1>3
  <2>3. CASE x = b
    BY <1>1, <2>3
  <2>4. CASE x # b /\ x \in refs[b]
    BY <1>1, <2>4
  <2>5. CASE x # b /\ x \notin refs[b]
    BY <1>1, <2>1, <2>2, <2>5
  <2>. QED  BY <2>3, <2>4, <2>5
<1>8. \A x, y \in Ids : y \in slots'[x] <=>
          /\ y \in slots[x] \/ <<y, x>> \in N
          /\ x # b /\ y # b
  BY <1>1
<1>9. content' \in [Ids -> SUBSET Ids] /\ slots' \in [Ids -> SUBSET Ids]
  <2>1. \A x \in Ids : content[x] \subseteq Ids /\ slots[x] \subseteq Ids
    BY DEF TypeOK
  <2>. QED  BY <1>1, <2>1
<1>10. \A x, y \in Ids : <<x, y>> \in N => x \in graph /\ (y # b => y \in graph')
  <2>. SUFFICES ASSUME NEW x \in Ids, NEW y \in Ids, <<x, y>> \in N
                PROVE  x \in graph /\ (y # b => y \in graph')
    OBVIOUS
  <2>1. <<x, y>>[2] = y
    OBVIOUS
  <2>2. y \in {n[2] : n \in N}
    BY <2>1
  <2>. QED  BY <1>1, <1>2, <1>3, <2>2
<1>11. TypeOK'
  <2>1. {n[2] : n \in N} \subseteq Ids
    BY <1>3
  <2>2. graph' \subseteq Ids /\ loaded' \subseteq graph'
    BY <1>1, <1>2, <2>1 DEF TypeOK
  <2>3. /\ handles' \in [Ids -> SUBSET Handles] /\ target' \in [Handles -> Ids \cup {NoId}]
        /\ file' \in [Ids -> SUBSET Ids]
        /\ saved' \subseteq Ids /\ live' \subseteq Ids /\ erased' \subseteq Ids
    BY <1>1 DEF TypeOK
  <2>. QED  BY <1>5, <1>6, <1>9, <2>2, <2>3 DEF TypeOK
<1>12. ReferencesMutual'
  <2>. SUFFICES ASSUME NEW x \in Ids, NEW y \in Ids, y \in refs'[x]
                PROVE  x \in refs'[y] /\ x \in graph' /\ y \in graph'
    BY DEF ReferencesMutual
  <2>1. x # b /\ y # b
    BY <1>5
  <2>2. CASE y \in refs[x]
    BY <1>1, <1>5, <2>1, <2>2 DEF ReferencesMutual
  <2>3. CASE <<x, y>> \in N \/ <<y, x>> \in N
    BY <1>1, <1>5, <1>10, <2>1, <2>3
  <2>. QED  BY <1>5, <2>2, <2>3
<1>13. \A x, y \in Ids : y \in slots'[x] <=> y \in loaded' /\ x \in content'[y]
  <2>1. \A x, y \in Ids : y \in slots[x] <=> x \in content[y]
    BY DEF PointersExact, OnlyLoadedHold
  <2>2. \A x, y \in Ids : x \in content[y] => y \in loaded
    BY DEF OnlyLoadedHold
  <2>3. \A y \in Ids : y \in loaded' <=> (y \in loaded \/ y \in L) /\ y # b
    BY <1>1
  <2>. QED  BY <1>3, <1>7, <1>8, <2>1, <2>2, <2>3
<1>14. PointersExact'
  <2>. SUFFICES ASSUME NEW x \in Ids
                PROVE  /\ handles'[x] = {h \in Handles : target'[h] = x}
                       /\ slots'[x] = {y \in loaded' : x \in content'[y]}
                       /\ slots'[x] \cup handles'[x] # {} => x \in graph'
    BY DEF PointersExact
  <2>1. slots'[x] = {y \in loaded' : x \in content'[y]}
    BY <1>11, <1>13 DEF TypeOK
  <2>2. handles'[x] = IF x = b THEN {} ELSE handles[x]
    BY <1>1 DEF TypeOK
  <2>3. handles'[x] = {h \in Handles : target'[h] = x}
    BY <1>1, <2>2, IdsAssumption DEF PointersExact
  <2>4. slots'[x] # {} => x \in graph'
    <3>1. \A y \in slots'[x] : y \in Ids
      BY <1>9
    <3>. QED  BY <1>1, <1>8, <1>10, <3>1 DEF PointersExact
  <2>. QED  BY <1>1, <2>1, <2>2, <2>3, <2>4 DEF PointersExact
<1>15. HeldIsReferenced'
  BY <1>5, <1>7, <1>9 DEF HeldIsReferenced
<1>16. ReferenceHasSet'
  BY <1>5, <1>6, <1>7 DEF ReferenceHasSet
<1>17. OnlyLoadedHold'
  <2>. SUFFICES ASSUME NEW x \in Ids, x \notin loaded'
                PROVE  content'[x] = {}
    BY DEF OnlyLoadedHold
  <2>1. \A y \in Ids : y \notin content'[x]
    BY <1>1, <1>3, <1>7 DEF OnlyLoadedHold
  <2>. QED  BY <2>1, <1>9
<1>18. StaleIsReferenced'
  BY <1>5, <1>6 DEF StaleIsReferenced
<1>19. NoSelfReference'
  BY <1>1, <1>3, <1>5 DEF NoSelfReference, TypeOK
<1>. QED  BY <1>11, <1>12, <1>14, <1>15, <1>16, <1>17, <1>18, <1>19

\* The operations that attach.
LEMMA AttachingKeep ==
    ASSUME GraphInv
    PROVE  /\ \A h \in Handles, a \in Ids : Get(h, a) => GraphInv'
           /\ \A h \in Handles : Aquire(h) => GraphInv'
           /\ \A a, b \in Ids : Add(a, b) => GraphInv'
           /\ \A a, b \in Ids : AddId(a, b) => GraphInv'
           /\ \A b \in Ids : EraseThrows(b) => GraphInv'
<1>. USE DEF GraphInv
<1>1. \A L \in SUBSET Ids : /\ SlotsOf(L) \in SUBSET (L \X Ids)
                            /\ \A x \in Ids : <<x, x>> \notin SlotsOf(L)
  BY DEF SlotsOf, NoSelfReference
<1>2. /\ saved \subseteq Ids /\ live \subseteq Ids /\ erased \subseteq Ids
      /\ file \in [Ids -> SUBSET Ids] /\ \A x \in Ids : x \notin file[x]
  BY DEF TypeOK, NoSelfReference
<1>3. handles' = handles /\ target' = target =>
      \A L, N : Attach(L, N) =>
        /\ handles' \in [Ids -> SUBSET Handles] /\ target' \in [Handles -> Ids \cup {NoId}]
        /\ \A x \in Ids : handles'[x] = {h \in Handles : target'[h] = x}
        /\ \A x \in Ids : handles'[x] # {} => x \in graph'
  BY DEF TypeOK, PointersExact, Attach
<1>4. ASSUME NEW h \in Handles, NEW a \in Ids, Get(h, a)
      PROVE  GraphInv'
  <2>. DEFINE L == {a} \ loaded
  <2>1. /\ Attach(L, SlotsOf(L)) /\ stale' = stale /\ target[h] = NoId
        /\ handles' = [handles EXCEPT ![a] = @ \cup {h}]
        /\ target' = [target EXCEPT ![h] = a]
        /\ saved' = saved /\ file' = file /\ live' = live /\ erased' = erased
    BY <1>4 DEF Get
  <2>2. /\ handles' \in [Ids -> SUBSET Handles] /\ target' \in [Handles -> Ids \cup {NoId}]
        /\ \A x \in Ids : handles'[x] = IF x = a THEN handles[x] \cup {h} ELSE handles[x]
        /\ \A g \in Handles : target'[g] = IF g = h THEN a ELSE target[g]
    BY <2>1 DEF TypeOK
  <2>3. \A x \in Ids : handles'[x] = {g \in Handles : target'[g] = x}
    BY <2>1, <2>2, IdsAssumption DEF PointersExact
  <2>4. a \in graph' /\ graph \subseteq graph'
    BY <2>1 DEF Attach, TypeOK
  <2>5. \A x \in Ids : handles'[x] # {} => x \in graph'
    BY <2>2, <2>4 DEF PointersExact
  <2>6. L \in SUBSET Ids /\ L \cap loaded = {}
    OBVIOUS
  <2>. HIDE DEF L
  <2>7. SlotsOf(L) \in SUBSET ((loaded \cup L) \X Ids)
    BY <1>1, <2>6
  <2>. QED  BY <1>1, <1>2, <2>1, <2>2, <2>3, <2>5, <2>6, <2>7, AttachKeeps
<1>5. ASSUME NEW h \in Handles, Aquire(h)
      PROVE  GraphInv'
  <2>. DEFINE L == {target[h]}
  <2>1. /\ Attach(L, SlotsOf(L)) /\ stale' = stale
        /\ handles' = handles /\ target' = target
        /\ saved' = saved /\ file' = file /\ live' = live /\ erased' = erased
    BY <1>5 DEF Aquire
  <2>2. L \in SUBSET Ids /\ L \cap loaded = {}
    BY <1>2, <1>5 DEF Aquire
  <2>. HIDE DEF L
  <2>3. SlotsOf(L) \in SUBSET ((loaded \cup L) \X Ids)
    BY <1>1, <2>2
  <2>. QED  BY <1>1, <1>2, <1>3, <2>1, <2>2, <2>3, AttachKeeps
<1>6. ASSUME NEW a \in Ids, NEW b \in Ids, Add(a, b)
      PROVE  GraphInv'
  <2>. DEFINE L == ({b} \ loaded) \cap saved
              N == {<<a, b>>} \cup SlotsOf(L)
  <2>1. /\ Attach(L, N) /\ stale' = stale /\ a \in loaded /\ a # b
        /\ handles' = handles /\ target' = target
        /\ saved' = saved /\ file' = file /\ live' = live /\ erased' = erased
    BY <1>6 DEF Add
  <2>2. L \in SUBSET Ids /\ L \cap loaded = {}
    OBVIOUS
  <2>. HIDE DEF L
  <2>3. N \in SUBSET ((loaded \cup L) \X Ids) /\ \A x \in Ids : <<x, x>> \notin N
    BY <1>1, <2>1, <2>2
  <2>. HIDE DEF N
  <2>. QED  BY <1>2, <1>3, <2>1, <2>2, <2>3, AttachKeeps
<1>7. ASSUME NEW a \in Ids, NEW b \in Ids, AddId(a, b)
      PROVE  GraphInv'
  <2>. DEFINE L == {}
              N == {<<a, b>>}
  <2>1. /\ Attach(L, N) /\ stale' = stale /\ a \in loaded /\ a # b
        /\ handles' = handles /\ target' = target
        /\ saved' = saved /\ file' = file /\ live' = live /\ erased' = erased
    BY <1>7 DEF AddId
  <2>2. L \in SUBSET Ids /\ L \cap loaded = {}
    OBVIOUS
  <2>3. N \in SUBSET ((loaded \cup L) \X Ids) /\ \A x \in Ids : <<x, x>> \notin N
    BY <2>1
  <2>. HIDE DEF L, N
  <2>. QED  BY <1>2, <1>3, <2>1, <2>2, <2>3, AttachKeeps
<1>8. ASSUME NEW b \in Ids, EraseThrows(b)
      PROVE  GraphInv'
  <2>1. PICK L \in SUBSET ((refs[b] \ loaded) \cap saved) : Attach(L, SlotsOf(L))
    BY <1>8 DEF EraseThrows
  <2>2. /\ stale' = stale /\ handles' = handles /\ target' = target
        /\ saved' \subseteq Ids /\ live' \subseteq Ids /\ erased' \subseteq Ids
        /\ file' = [file EXCEPT ![b] = {}]
    BY <1>2, <1>8 DEF EraseThrows
  <2>3. file' \in [Ids -> SUBSET Ids] /\ \A x \in Ids : x \notin file'[x]
    BY <1>2, <2>2
  <2>4. L \in SUBSET Ids /\ L \cap loaded = {}
    BY <1>2
  <2>5. SlotsOf(L) \in SUBSET ((loaded \cup L) \X Ids)
    BY <1>1, <2>4
  <2>. QED  BY <1>1, <1>3, <2>1, <2>2, <2>3, <2>4, <2>5, AttachKeeps
<1>. QED  BY <1>4, <1>5, <1>6, <1>7, <1>8

\* Creating an element and assigning to a handle.
LEMMA HandlingKeeps ==
    ASSUME GraphInv
    PROVE  /\ \A h \in Handles, a \in Ids : Create(h, a) => GraphInv'
           /\ \A h \in Handles, a \in Ids \cup {NoId} : Assign(h, a) => GraphInv'
<1>. USE DEF GraphInv
<1>1. ASSUME NEW h \in Handles, NEW a \in Ids, Create(h, a)
      PROVE  GraphInv'
  <2>1. /\ graph' = graph \cup {a} /\ loaded' = loaded \cup {a} /\ live' = live \cup {a}
        /\ handles' = [handles EXCEPT ![a] = @ \cup {h}]
        /\ target' = [target EXCEPT ![h] = a]
        /\ content' = content /\ refs' = refs /\ stale' = stale /\ slots' = slots
        /\ saved' = saved /\ file' = file /\ erased' = erased /\ target[h] = NoId
    BY <1>1 DEF Create
  <2>2. /\ handles' \in [Ids -> SUBSET Handles] /\ target' \in [Handles -> Ids \cup {NoId}]
        /\ \A x \in Ids : handles'[x] = IF x = a THEN handles[x] \cup {h} ELSE handles[x]
        /\ \A g \in Handles : target'[g] = IF g = h THEN a ELSE target[g]
    BY <2>1 DEF TypeOK
  <2>3. TypeOK'
    BY <2>1, <2>2 DEF TypeOK
  <2>4. \A x \in Ids : handles'[x] = {g \in Handles : target'[g] = x}
    BY <2>1, <2>2, IdsAssumption DEF PointersExact
  <2>5. \A x, y \in Ids : x \in content[y] => y \in loaded
    BY DEF OnlyLoadedHold
  <2>6. \A x \in Ids : {y \in loaded' : x \in content[y]} = {y \in loaded : x \in content[y]}
    BY <2>1, <2>5
  <2>7. PointersExact'
    BY <2>1, <2>2, <2>4, <2>6 DEF PointersExact
  <2>8. /\ ReferencesMutual' /\ HeldIsReferenced' /\ ReferenceHasSet'
        /\ OnlyLoadedHold' /\ StaleIsReferenced' /\ NoSelfReference'
    BY <2>1 DEF ReferencesMutual, HeldIsReferenced, ReferenceHasSet, OnlyLoadedHold,
                StaleIsReferenced, NoSelfReference
  <2>. QED  BY <2>3, <2>7, <2>8
<1>2. ASSUME NEW h \in Handles, NEW a \in Ids \cup {NoId}, Assign(h, a)
      PROVE  GraphInv'
  <2>1. /\ target[h] \in loaded \cup {NoId}
        /\ \A x \in Ids : handles'[x] =
             (IF x = target[h] /\ x \in loaded THEN handles[x] \ {h} ELSE handles[x])
               \cup (IF x = a THEN {h} ELSE {})
        /\ handles' \in [Ids -> SUBSET Handles]
        /\ target' = [target EXCEPT ![h] = a]
        /\ graph' = graph /\ loaded' = loaded /\ live' = live /\ content' = content
        /\ refs' = refs /\ stale' = stale /\ slots' = slots
        /\ saved' = saved /\ file' = file /\ erased' = erased
    BY <1>2 DEF Assign, ClientAssigns, TypeOK
  <2>2. /\ target' \in [Handles -> Ids \cup {NoId}]
        /\ \A g \in Handles : target'[g] = IF g = h THEN a ELSE target[g]
    BY <2>1 DEF TypeOK
  <2>3. TypeOK'
    BY <2>1, <2>2 DEF TypeOK
  <2>4. \A x \in Ids : handles'[x] = {g \in Handles : target'[g] = x}
    BY <2>1, <2>2, IdsAssumption DEF PointersExact
  <2>5. a \in Ids => a \in graph
    <3>1. CASE \E g \in Handles : target[g] = a
      BY <3>1 DEF PointersExact
    <3>2. CASE \E b \in Ids : a \in content[b]
      BY <3>2 DEF HeldIsReferenced, ReferencesMutual
    <3>. QED  BY <1>2, <3>1, <3>2, IdsAssumption DEF Assign
  <2>6. PointersExact'
    BY <2>1, <2>4, <2>5 DEF PointersExact
  <2>7. /\ ReferencesMutual' /\ HeldIsReferenced' /\ ReferenceHasSet'
        /\ OnlyLoadedHold' /\ StaleIsReferenced' /\ NoSelfReference'
    BY <2>1 DEF ReferencesMutual, HeldIsReferenced, ReferenceHasSet, OnlyLoadedHold,
                StaleIsReferenced, NoSelfReference
  <2>. QED  BY <2>3, <2>6, <2>7
<1>. QED  BY <1>1, <1>2

LEMMA GraphInit == Init => GraphInv
<1>. SUFFICES ASSUME Init PROVE GraphInv
  OBVIOUS
<1>1. TypeOK
  BY DEF Init, TypeOK
<1>2. PointersExact
  BY IdsAssumption DEF Init, PointersExact
<1>. QED
  BY <1>1, <1>2 DEF Init, GraphInv, ReferencesMutual, HeldIsReferenced, ReferenceHasSet,
                    OnlyLoadedHold, StaleIsReferenced, NoSelfReference

LEMMA GraphNext == GraphInv /\ [Next]_vars => GraphInv'
<1>. SUFFICES ASSUME GraphInv, [Next]_vars PROVE GraphInv'
  OBVIOUS
<1>1. CASE UNCHANGED vars
  BY <1>1 DEF vars, GraphInv, TypeOK, ReferencesMutual, PointersExact, HeldIsReferenced,
              ReferenceHasSet, OnlyLoadedHold, StaleIsReferenced, NoSelfReference
<1>2. CASE \E h \in Handles : Drop(h) \/ Aquire(h) \/ ReleaseHandle(h)
  BY <1>2, DropKeeps, AttachingKeep, ReleaseKeeps
<1>3. CASE \E h \in Handles : Assign(h, NoId)
  BY <1>3, HandlingKeeps
<1>4. CASE \E h \in Handles, a \in Ids : Create(h, a) \/ Get(h, a) \/ Assign(h, a)
  BY <1>4, HandlingKeeps, AttachingKeep
<1>5. CASE \E a \in Ids : ReleaseElement(a) \/ Erase(a) \/ EraseThrows(a)
  BY <1>5, ReleaseKeeps, EraseKeeps, AttachingKeep
<1>6. CASE \E a \in Ids, b \in Ids : Add(a, b) \/ AddId(a, b) \/ Remove(a, b)
  BY <1>6, AttachingKeep, RemoveKeeps
<1>. QED  BY <1>1, <1>2, <1>3, <1>4, <1>5, <1>6 DEF Next

LEMMA GraphInvariant == Spec => []GraphInv
BY GraphInit, GraphNext, PTL DEF Spec

\* Every variable keeps its type, whatever the client does.
THEOREM TypeCorrect == Spec => []TypeOK
<1>1. GraphInv => TypeOK
  BY DEF GraphInv
<1>. QED  BY <1>1, GraphInvariant, PTL

\* References are mutual and between nodes of the graph, so the lock() of a referenced
\* node that ~ManagerNode, release() and erase() dereference is never empty.
THEOREM Mutual == Spec => []ReferencesMutual
<1>1. GraphInv => ReferencesMutual
  BY DEF GraphInv
<1>. QED  BY <1>1, GraphInvariant, PTL

\* A node's m_ptrs are exactly the pointers on it.
THEOREM Pointers == Spec => []PointersExact
<1>1. GraphInv => PointersExact
  BY DEF GraphInv
<1>. QED  BY <1>1, GraphInvariant, PTL

\* An element in a set has a reference from its owner (managerNode.h:84).
THEOREM References == Spec => []HeldIsReferenced
<1>1. GraphInv => HeldIsReferenced
  BY DEF GraphInv
<1>. QED  BY <1>1, GraphInvariant, PTL

\* A reference has a set behind it, in memory or in a file (managerNode.h:102).
THEOREM ReferencesJustified == Spec => []ReferenceHasSet
<1>1. GraphInv => ReferenceHasSet
  BY DEF GraphInv
<1>. QED  BY <1>1, GraphInvariant, PTL

-----------------------------------------------------------------------------
(* What a release or a failed erasure cannot lose, for every client *)

\* Every element that was created and not erased is in memory or has a file, and no other
\* is or has: what release() takes out of memory it has saved (manager.h:245-273), and an
\* erase() that throws has taken the file of an element that is in memory (lines 281-297).
NoneLost == live = loaded \cup saved /\ live \cap erased = {}

LiveInv == NoneLost /\ \A a \in Ids \ saved : file[a] = {}

\* What every element of L reads from its file, and the slots of P, are what sets gain
\* when the elements of L come into memory.
LEMMA AttachShows ==
    ASSUME GraphInv, NEW L \in SUBSET Ids, L \cap loaded = {},
           NEW P \in SUBSET (loaded \X Ids), Attach(L, P \cup SlotsOf(L)),
           \A x \in Ids \ (loaded \cup L) : file'[x] = file[x]
    PROVE  \A x \in Ids : Held(x)' = Held(x) \cup {y \in Ids : <<x, y>> \in P}
<1>. SUFFICES ASSUME NEW x \in Ids
              PROVE  Held(x)' = Held(x) \cup {y \in Ids : <<x, y>> \in P}
  OBVIOUS
<1>1. \A y \in Ids : <<x, y>> \in SlotsOf(L) <=> x \in L /\ y \in file[x]
  BY DEF SlotsOf
<1>2. content'[x] = content[x] \cup {y \in Ids : <<x, y>> \in P \/ <<x, y>> \in SlotsOf(L)}
  BY DEF Attach
<1>3. \A y \in Ids : <<x, y>> \in P => x \in loaded
  OBVIOUS
<1>4. file[x] \subseteq Ids /\ loaded' = loaded \cup L
  BY DEF GraphInv, TypeOK, Attach
<1>5. CASE x \in loaded
  BY <1>1, <1>2, <1>4, <1>5 DEF Held
<1>6. CASE x \in L
  <2>1. content[x] = {} /\ x \notin loaded
    BY <1>6 DEF GraphInv, OnlyLoadedHold
  <2>. QED  BY <1>1, <1>2, <1>3, <1>4, <1>6, <2>1 DEF Held
<1>7. CASE x \notin loaded \cup L
  BY <1>3, <1>4, <1>7 DEF Held
<1>. QED  BY <1>5, <1>6, <1>7

\* Loading shows nothing.
LEMMA LoadShows ==
    ASSUME GraphInv, NEW L \in SUBSET Ids, L \cap loaded = {}, Attach(L, SlotsOf(L)),
           \A x \in Ids \ (loaded \cup L) : file'[x] = file[x]
    PROVE  \A x \in Ids : Held(x)' = Held(x)
<1>. DEFINE P == {}
<1>1. P \in SUBSET (loaded \X Ids) /\ P \cup SlotsOf(L) = SlotsOf(L)
  OBVIOUS
<1>2. \A x \in Ids : {y \in Ids : <<x, y>> \in P} = {}
  OBVIOUS
<1>. HIDE DEF P
<1>3. Attach(L, P \cup SlotsOf(L))
  <2>1. Attach(L, SlotsOf(L))
    OBVIOUS
  <2>. QED  BY <1>1, <2>1
<1>4. \A x \in Ids : Held(x)' = Held(x) \cup {y \in Ids : <<x, y>> \in P}
  BY <1>1, <1>3, AttachShows
<1>. QED  BY <1>2, <1>4

\* A release shows nothing, whoever holds the element.
LEMMA ReleaseShows ==
    ASSUME GraphInv, NEW a \in loaded, NEW D, Unload(a, D)
    PROVE  \A x \in Ids : Held(x)' = Held(x)
<1>1. /\ a \in Ids /\ loaded' = loaded \ {a}
      /\ \A x \in Ids : content'[x] = IF x = a THEN {} ELSE content[x]
      /\ \A x \in Ids : file'[x] = IF x = a THEN content[a] ELSE file[x]
  BY DEF Unload, GraphInv, TypeOK
<1>. QED  BY <1>1 DEF Held

\* An erasure empties the set of the element and takes at most the element out of any
\* other set, those that are loaded on the way included.
LEMMA ErasureShows ==
    ASSUME GraphInv, NEW b \in Ids, Erase(b)
    PROVE  \A x \in Ids : \/ Held(x)' = Held(x)
                          \/ Held(x)' = IF x = b THEN {} ELSE Held(x) \ {b}
<1>. DEFINE L == refs[b] \ loaded
            N == SlotsOf(L)
<1>. SUFFICES ASSUME NEW x \in Ids, x # b
              PROVE  Held(x)' = Held(x) \/ Held(x)' = Held(x) \ {b}
  <2>1. Held(b)' = {}
    BY DEF Erase, Held, GraphInv, TypeOK
  <2>. QED  BY <2>1
<1>1. /\ loaded' = (loaded \cup L) \ {b} /\ file'[x] = file[x]
      /\ content'[x] = IF x \in refs[b] THEN (content[x] \cup {y \in Ids : <<x, y>> \in N}) \ {b}
                       ELSE content[x]
  BY DEF Erase, GraphInv, TypeOK
<1>2. \A y \in Ids : <<x, y>> \in N <=> x \in L /\ y \in file[x]
  BY DEF SlotsOf, GraphInv, TypeOK
<1>3. file[x] \subseteq Ids
  BY DEF GraphInv, TypeOK
<1>. HIDE DEF N
<1>4. CASE x \in loaded /\ x \in refs[b]
  <2>1. {y \in Ids : <<x, y>> \in N} = {}
    BY <1>2, <1>4
  <2>. QED  BY <1>1, <1>4, <2>1 DEF Held
<1>5. CASE x \in L
  <2>1. {y \in Ids : <<x, y>> \in N} = file[x] /\ content[x] = {}
    BY <1>2, <1>3, <1>5 DEF GraphInv, OnlyLoadedHold
  <2>. QED  BY <1>1, <1>5, <2>1 DEF Held
<1>6. CASE x \notin refs[b]
  BY <1>1, <1>6 DEF Held
<1>. QED  BY <1>4, <1>5, <1>6

LEMMA LiveInit == Init => LiveInv
<1>. SUFFICES ASSUME Init PROVE LiveInv
  OBVIOUS
<1>. QED  BY DEF Init, LiveInv, NoneLost

\* No step loses an element.
LEMMA LiveNext == GraphInv /\ LiveInv /\ [Next]_vars => LiveInv'
<1>. SUFFICES ASSUME GraphInv, LiveInv, [Next]_vars PROVE LiveInv'
  OBVIOUS
<1>. USE DEF GraphInv, LiveInv, NoneLost
<1>1. ASSUME NEW L \in SUBSET (saved \ loaded), loaded' = loaded \cup L,
             UNCHANGED <<saved, file, live, erased>>
      PROVE  LiveInv'
  BY <1>1
<1>2. ASSUME UNCHANGED <<loaded, saved, file, live, erased>> PROVE LiveInv'
  BY <1>2
<1>3. ASSUME NEW h \in Handles, NEW a \in Ids, Create(h, a) PROVE LiveInv'
  BY <1>3 DEF Create
<1>4. ASSUME NEW h \in Handles, NEW a \in Ids, Get(h, a) PROVE LiveInv'
  <2>1. {a} \ loaded \in SUBSET (saved \ loaded) /\ loaded' = loaded \cup ({a} \ loaded)
    BY <1>4 DEF Get, Attach
  <2>. QED  BY <1>1, <1>4, <2>1 DEF Get
<1>5. ASSUME NEW h \in Handles, Aquire(h) PROVE LiveInv'
  <2>1. {target[h]} \in SUBSET (saved \ loaded) /\ loaded' = loaded \cup {target[h]}
    BY <1>5 DEF Aquire, Attach
  <2>. QED  BY <1>1, <1>5, <2>1 DEF Aquire
<1>6. ASSUME NEW a \in Ids, NEW b \in Ids, Add(a, b) PROVE LiveInv'
  <2>1. /\ ({b} \ loaded) \cap saved \in SUBSET (saved \ loaded)
        /\ loaded' = loaded \cup (({b} \ loaded) \cap saved)
    BY <1>6 DEF Add, Attach
  <2>. QED  BY <1>1, <1>6, <2>1 DEF Add
<1>7. ASSUME NEW a \in Ids, NEW b \in Ids, AddId(a, b) \/ Remove(a, b) PROVE LiveInv'
  <2>1. loaded' = loaded
    BY <1>7 DEF AddId, Remove, Attach
  <2>. QED  BY <1>2, <1>7, <2>1 DEF AddId, Remove
<1>8. ASSUME NEW a \in loaded, NEW D, Unload(a, D) PROVE LiveInv'
  <2>1. /\ loaded' = loaded \ {a} /\ saved' = saved \cup {a} /\ live' = live /\ erased' = erased
        /\ \A x \in Ids \ {a} : file'[x] = file[x]
    BY <1>8 DEF Unload, TypeOK
  <2>. QED  BY <2>1
<1>9. ASSUME NEW b \in Ids, Erase(b) PROVE LiveInv'
  <2>1. /\ refs[b] \ loaded \subseteq saved /\ saved' = saved \ {b}
        /\ loaded' = (loaded \cup (refs[b] \ loaded)) \ {b}
        /\ live' = live \ {b} /\ erased' = erased \cup {b}
        /\ \A x \in Ids : file'[x] = IF x = b THEN {} ELSE file[x]
    BY <1>9 DEF Erase, TypeOK
  <2>. QED  BY <2>1
<1>10. ASSUME NEW b \in Ids, EraseThrows(b) PROVE LiveInv'
  <2>1. PICK L \in SUBSET ((refs[b] \ loaded) \cap saved) : Attach(L, SlotsOf(L))
    BY <1>10 DEF EraseThrows
  <2>2. /\ b \in loaded /\ loaded' = loaded \cup L /\ saved' = saved \ {b}
        /\ live' = live /\ erased' = erased
        /\ \A x \in Ids : file'[x] = IF x = b THEN {} ELSE file[x]
    BY <1>10, <2>1 DEF EraseThrows, Attach, TypeOK
  <2>. QED  BY <2>2
<1>11. CASE UNCHANGED vars
  BY <1>2, <1>11 DEF vars
<1>12. ASSUME NEW h \in Handles, Drop(h) PROVE LiveInv'
  BY <1>2, <1>12 DEF Drop
<1>13. ASSUME NEW h \in Handles, NEW a, Assign(h, a) PROVE LiveInv'
  BY <1>2, <1>13 DEF Assign
<1>14. ASSUME NEW h \in Handles, ReleaseHandle(h) PROVE LiveInv'
  BY <1>8, <1>14 DEF ReleaseHandle
<1>15. ASSUME NEW a \in Ids, ReleaseElement(a) PROVE LiveInv'
  BY <1>8, <1>15 DEF ReleaseElement
<1>. QED
  BY <1>3, <1>4, <1>5, <1>6, <1>7, <1>9, <1>10, <1>11, <1>12, <1>13, <1>14, <1>15 DEF Next

\* Whatever the client does, no element is lost and no erased one comes back.
THEOREM Durable == Spec => []NoneLost
<1>1. LiveInv => NoneLost
  BY DEF LiveInv
<1>2. GraphInv /\ LiveInv /\ [Next]_vars => LiveInv'
  BY LiveNext
<1>. QED  BY LiveInit, GraphInvariant, <1>1, <1>2, PTL DEF Spec

\* What a set holds, in memory or in a file, changes by the calls that change it alone:
\* dropping, assigning, releasing and loading in any order (manager.h:210-229, 245-273),
\* and an erasure that throws half way, leave every set as it was.
EditsOnly ==
    [][\A x \in Ids :
          \/ Held(x)' = Held(x)
          \/ \E b \in Ids : (Add(x, b) \/ AddId(x, b)) /\ Held(x)' = Held(x) \cup {b}
          \/ \E b \in Ids : Remove(x, b) /\ Held(x)' = Held(x) \ {b}
          \/ \E b \in Ids : Erase(b) /\ Held(x)' = IF x = b THEN {} ELSE Held(x) \ {b}]_vars

THEOREM OnlyEdited == Spec => EditsOnly
<1>. DEFINE Edited(x) ==
              \/ Held(x)' = Held(x)
              \/ \E b \in Ids : (Add(x, b) \/ AddId(x, b)) /\ Held(x)' = Held(x) \cup {b}
              \/ \E b \in Ids : Remove(x, b) /\ Held(x)' = Held(x) \ {b}
              \/ \E b \in Ids : Erase(b) /\ Held(x)' = IF x = b THEN {} ELSE Held(x) \ {b}
<1>1. ASSUME GraphInv, LiveInv, Next PROVE \A x \in Ids : Edited(x)
  <2>. USE DEF GraphInv
  <2>1. ASSUME UNCHANGED <<loaded, content, file>> PROVE \A x \in Ids : Edited(x)
    BY <2>1 DEF Held
  <2>2. ASSUME NEW L \in SUBSET Ids, L \cap loaded = {}, Attach(L, SlotsOf(L)), file' = file
        PROVE  \A x \in Ids : Edited(x)
    BY <1>1, <2>2, LoadShows
  <2>3. ASSUME NEW h \in Handles, NEW a \in Ids, Create(h, a) PROVE \A x \in Ids : Edited(x)
    <3>1. /\ loaded' = loaded \cup {a} /\ content' = content /\ file' = file
          /\ a \notin loaded \cup saved
      BY <1>1, <2>3 DEF Create, LiveInv, NoneLost
    <3>2. file[a] = {} /\ content[a] = {}
      BY <1>1, <3>1 DEF LiveInv, OnlyLoadedHold
    <3>. QED  BY <3>1, <3>2 DEF Held
  <2>4. ASSUME NEW h \in Handles, NEW a \in Ids, Get(h, a) PROVE \A x \in Ids : Edited(x)
    <3>1. {a} \ loaded \in SUBSET Ids /\ ({a} \ loaded) \cap loaded = {}
      OBVIOUS
    <3>. QED  BY <2>2, <2>4, <3>1 DEF Get
  <2>5. ASSUME NEW h \in Handles, Aquire(h) PROVE \A x \in Ids : Edited(x)
    <3>1. {target[h]} \in SUBSET Ids /\ {target[h]} \cap loaded = {}
      BY <1>1, <2>5 DEF Aquire, TypeOK
    <3>. QED  BY <2>2, <2>5, <3>1 DEF Aquire
  <2>6. ASSUME NEW a \in Ids, NEW b \in Ids, Add(a, b) \/ AddId(a, b)
        PROVE  \A x \in Ids : Edited(x)
    <3>1. PICK L \in SUBSET ({b} \ loaded) : Attach(L, {<<a, b>>} \cup SlotsOf(L))
      <4>1. CASE Add(a, b)
        BY <4>1 DEF Add
      <4>2. CASE AddId(a, b)
        <5>1. SlotsOf({}) = {}
          BY DEF SlotsOf
        <5>2. Attach({}, {<<a, b>>} \cup SlotsOf({}))
          BY <4>2, <5>1 DEF AddId
        <5>. QED  BY <5>2
      <4>. QED  BY <2>6, <4>1, <4>2
    <3>2. {<<a, b>>} \in SUBSET (loaded \X Ids) /\ L \in SUBSET Ids /\ L \cap loaded = {}
      BY <2>6 DEF Add, AddId
    <3>3. file' = file
      BY <2>6 DEF Add, AddId
    <3>4. \A x \in Ids : Held(x)' = Held(x) \cup {y \in Ids : <<x, y>> \in {<<a, b>>}}
      BY <1>1, <3>1, <3>2, <3>3, AttachShows
    <3>5. ASSUME NEW x \in Ids PROVE Held(x)' = IF x = a THEN Held(x) \cup {b} ELSE Held(x)
      <4>1. {y \in Ids : <<x, y>> \in {<<a, b>>}} = IF x = a THEN {b} ELSE {}
        OBVIOUS
      <4>. QED  BY <3>4, <4>1
    <3>. QED  BY <2>6, <3>5
  <2>7. ASSUME NEW a \in Ids, NEW b \in Ids, Remove(a, b) PROVE \A x \in Ids : Edited(x)
    <3>1. /\ loaded' = loaded /\ file' = file /\ a \in loaded
          /\ \A x \in Ids : content'[x] = IF x = a THEN content[a] \ {b} ELSE content[x]
      BY <1>1, <2>7 DEF Remove, TypeOK
    <3>2. \A x \in Ids : Held(x)' = IF x = a THEN Held(x) \ {b} ELSE Held(x)
      BY <3>1 DEF Held
    <3>. QED  BY <2>7, <3>2
  <2>8. ASSUME NEW h \in Handles, ReleaseHandle(h) PROVE \A x \in Ids : Edited(x)
    BY <1>1, <2>8, ReleaseShows DEF ReleaseHandle
  <2>9. ASSUME NEW a \in Ids, ReleaseElement(a) PROVE \A x \in Ids : Edited(x)
    BY <1>1, <2>9, ReleaseShows DEF ReleaseElement
  <2>10. ASSUME NEW b \in Ids, Erase(b) PROVE \A x \in Ids : Edited(x)
    BY <1>1, <2>10, ErasureShows
  <2>11. ASSUME NEW b \in Ids, EraseThrows(b) PROVE \A x \in Ids : Edited(x)
    <3>1. PICK L \in SUBSET ((refs[b] \ loaded) \cap saved) : Attach(L, SlotsOf(L))
      BY <2>11 DEF EraseThrows
    <3>2. /\ b \in loaded /\ \A x \in Ids \ {b} : file'[x] = file[x]
          /\ L \in SUBSET Ids /\ L \cap loaded = {}
      BY <1>1, <2>11 DEF EraseThrows, TypeOK
    <3>. QED  BY <1>1, <3>1, <3>2, LoadShows
  <2>12. ASSUME NEW h \in Handles, Drop(h) PROVE \A x \in Ids : Edited(x)
    BY <2>1, <2>12 DEF Drop
  <2>13. ASSUME NEW h \in Handles, NEW a, Assign(h, a) PROVE \A x \in Ids : Edited(x)
    BY <2>1, <2>13 DEF Assign
  <2>. HIDE DEF Edited, GraphInv
  <2>. QED
    BY <1>1, <2>3, <2>4, <2>5, <2>6, <2>7, <2>8, <2>9, <2>10, <2>11, <2>12, <2>13 DEF Next
<1>2. GraphInv /\ LiveInv /\ [Next]_vars => [\A x \in Ids : Edited(x)]_vars
  BY <1>1
<1>3. GraphInv /\ LiveInv /\ [Next]_vars => LiveInv'
  BY LiveNext
<1>. QED  BY LiveInit, GraphInvariant, <1>2, <1>3, PTL DEF Spec, EditsOnly

-----------------------------------------------------------------------------
(* A client that keeps a pointer to every released element *)

\* The elements are the nodes, every one that is not in memory has a file, and the
\* references list what the file of an unloaded element holds.
KeptInv ==
    /\ live = graph
    /\ live \cap erased = {}
    /\ graph \ loaded \subseteq saved
    /\ \A a \in Ids \ loaded : file[a] \subseteq stale[a]
    /\ \A a \in Ids \ graph : file[a] = {} /\ a \notin saved

\* What a file brings in is referenced already, so loading makes no node and no
\* reference, and the element has the set it had.
LEMMA LoadedAsSaved ==
    ASSUME GraphInv, KeptInv, NEW L \in SUBSET (graph \ loaded), Attach(L, SlotsOf(L))
    PROVE  /\ graph' = graph /\ loaded' = loaded \cup L
           /\ \A a \in Ids : content'[a] = IF a \in L THEN file[a] ELSE content[a]
<1>. USE DEF GraphInv
<1>1. \A x, y \in Ids : <<x, y>> \in SlotsOf(L) <=> x \in L /\ y \in file[x]
  BY DEF SlotsOf, TypeOK
<1>2. \A x, y \in Ids : <<x, y>> \in SlotsOf(L) => y \in graph
  BY <1>1 DEF KeptInv, StaleIsReferenced, ReferencesMutual, TypeOK
<1>3. {n[2] : n \in SlotsOf(L)} \subseteq graph
  <2>. SUFFICES ASSUME NEW n \in SlotsOf(L) PROVE n[2] \in graph
    OBVIOUS
  <2>1. n \in Ids \X Ids
    BY DEF SlotsOf, TypeOK
  <2>2. n = <<n[1], n[2]>> /\ n[1] \in Ids /\ n[2] \in Ids
    BY <2>1
  <2>. QED  BY <1>2, <2>2
<1>4. graph' = graph /\ loaded' = loaded \cup L
  BY <1>3 DEF Attach
<1>5. ASSUME NEW a \in Ids
      PROVE  content'[a] = IF a \in L THEN file[a] ELSE content[a]
  <2>1. content'[a] = content[a] \cup {x \in Ids : <<a, x>> \in SlotsOf(L)}
    BY DEF Attach
  <2>2. file[a] \subseteq Ids
    BY DEF TypeOK
  <2>3. a \in L => content[a] = {}
    BY DEF OnlyLoadedHold
  <2>4. {x \in Ids : <<a, x>> \in SlotsOf(L)} = IF a \in L THEN file[a] ELSE {}
    BY <1>1, <2>2
  <2>. QED  BY <2>1, <2>3, <2>4
<1>. QED  BY <1>4, <1>5

\* When no node goes, no reference goes.
LEMMA NothingGoes ==
    ASSUME GraphInv, NEW D \in SUBSET Ids, graph \subseteq graph \ D,
           NEW r \in [Ids -> SUBSET Ids], \A x \in Ids : r[x] \subseteq refs[x]
    PROVE  \A x, y \in Ids : y \in Without(r, D)[x] <=> y \in r[x]
<1>1. \A x, y \in Ids : y \in r[x] => x \notin D /\ y \notin D
  BY DEF GraphInv, ReferencesMutual
<1>. QED  BY <1>1, WithoutNodes

\* The operations that load without changing files keep the invariant and show at
\* most the addition of one element.
LEMMA LoadingShows ==
    ASSUME GraphInv, GraphInv', KeptInv, NEW L \in SUBSET (graph \ loaded),
           Attach(L, SlotsOf(L)), stale' = stale, live' = live, erased' = erased,
           saved' \subseteq saved, graph \ loaded \subseteq saved',
           \A x \in Ids : file'[x] = file[x] \/ (x \in loaded /\ file'[x] = {})
    PROVE  KeptInv' /\ \A x \in Ids : Held(x)' = Held(x)
<1>1. /\ graph' = graph /\ loaded' = loaded \cup L
      /\ \A a \in Ids : content'[a] = IF a \in L THEN file[a] ELSE content[a]
  BY LoadedAsSaved
<1>2. KeptInv'
  BY <1>1 DEF KeptInv, GraphInv, TypeOK
<1>3. \A x \in Ids : Held(x)' = Held(x)
  BY <1>1 DEF Held
<1>. QED  BY <1>2, <1>3

\* A release shows nothing.
LEMMA UnloadShows ==
    ASSUME GraphInv, KeptInv, NEW a \in loaded, NEW D \in SUBSET Ids, Unload(a, D),
           graph \subseteq graph'
    PROVE  /\ KeptInv' /\ live' = live /\ erased' = erased
           /\ \A x \in Ids : Held(x)' = Held(x)
<1>. USE DEF GraphInv
<1>. DEFINE st == [stale EXCEPT ![a] = @ \cup content[a]]
<1>1. /\ a \in Ids /\ a \in graph /\ loaded' = loaded \ {a} /\ saved' = saved \cup {a}
      /\ \A x \in Ids : content'[x] = IF x = a THEN {} ELSE content[x]
      /\ \A x \in Ids : file'[x] = IF x = a THEN content[a] ELSE file[x]
      /\ graph' = graph \ D /\ stale' = Without(st, D)
      /\ live' = live /\ erased' = erased
  BY DEF Unload, TypeOK
<1>2. st \in [Ids -> SUBSET Ids] /\ \A x \in Ids : st[x] \subseteq refs[x]
  BY <1>1 DEF TypeOK, StaleIsReferenced, HeldIsReferenced
<1>3. \A x \in Ids : st[x] = IF x = a THEN stale[a] \cup content[a] ELSE stale[x]
  BY <1>1 DEF TypeOK
<1>. HIDE DEF st
<1>4. \A x, y \in Ids : y \in stale'[x] <=> y \in st[x]
  BY <1>1, <1>2, NothingGoes
<1>5. \A x \in Ids : file'[x] \subseteq Ids
  BY <1>1 DEF TypeOK
<1>6. \A x \in Ids \ loaded' : file'[x] \subseteq stale'[x]
  <2>. SUFFICES ASSUME NEW x \in Ids, x \notin loaded', NEW y \in file'[x]
                PROVE  y \in stale'[x]
    OBVIOUS
  <2>1. y \in st[x]
    BY <1>1, <1>3 DEF KeptInv
  <2>. QED  BY <1>4, <1>5, <2>1
<1>7. graph' = graph
  BY <1>1
<1>8. KeptInv'
  BY <1>1, <1>6, <1>7 DEF KeptInv, TypeOK
<1>9. \A x \in Ids : Held(x)' = Held(x)
  BY <1>1 DEF Held, OnlyLoadedHold
<1>. QED  BY <1>1, <1>8, <1>9

\* A removal shows as one.
LEMMA RemoveShows ==
    ASSUME GraphInv, KeptInv, NEW a \in Ids, NEW b \in Ids, Remove(a, b),
           graph \subseteq graph'
    PROVE  /\ KeptInv' /\ live' = live /\ erased' = erased /\ b \in Held(a)
           /\ \A x \in Ids : Held(x)' = IF x = a THEN Held(a) \ {b} ELSE Held(x)
<1>. USE DEF GraphInv
<1>. DEFINE D == Deserted({b}, [slots EXCEPT ![b] = @ \ {a}], handles)
<1>1. /\ a \in loaded /\ b \in content[a] /\ loaded' = loaded
      /\ \A x \in Ids : content'[x] = IF x = a THEN content[a] \ {b} ELSE content[x]
      /\ saved' = saved /\ file' = file /\ live' = live /\ erased' = erased
      /\ graph' = graph \ D /\ stale' = Without(stale, D)
  BY DEF Remove, TypeOK
<1>2. D \in SUBSET Ids
  BY DEF Deserted
<1>. HIDE DEF D
<1>3. stale \in [Ids -> SUBSET Ids] /\ \A x \in Ids : stale[x] \subseteq refs[x]
  BY DEF TypeOK, StaleIsReferenced
<1>4. \A x, y \in Ids : y \in stale'[x] <=> y \in stale[x]
  BY <1>1, <1>2, <1>3, NothingGoes
<1>5. \A x \in Ids \ loaded : file[x] \subseteq stale'[x]
  <2>. SUFFICES ASSUME NEW x \in Ids, x \notin loaded, NEW y \in file[x]
                PROVE  y \in stale'[x]
    OBVIOUS
  <2>1. y \in Ids /\ y \in stale[x]
    BY DEF KeptInv, TypeOK
  <2>. QED  BY <1>4, <2>1
<1>6. KeptInv'
  <2>1. graph' = graph
    BY <1>1
  <2>. QED  BY <1>1, <1>5, <2>1 DEF KeptInv
<1>7. \A x \in Ids : Held(x)' = IF x = a THEN Held(a) \ {b} ELSE Held(x)
  BY <1>1 DEF Held
<1>. QED  BY <1>1, <1>6, <1>7 DEF Held

\* Dropping a handle shows nothing.
LEMMA DropShows ==
    ASSUME GraphInv, KeptInv, NEW h \in Handles, Drop(h), graph \subseteq graph'
    PROVE  /\ KeptInv' /\ live' = live /\ erased' = erased
           /\ \A x \in Ids : Held(x)' = Held(x)
<1>. USE DEF GraphInv
<1>. DEFINE D == Deserted({target[h]}, slots,
                          [handles EXCEPT ![target[h]] = @ \ {h}])
<1>1. /\ target[h] \in Ids /\ loaded' = loaded /\ content' = content
      /\ saved' = saved /\ file' = file /\ live' = live /\ erased' = erased
      /\ graph' = graph \ D /\ stale' = Without(stale, D)
  BY DEF Drop, TypeOK
<1>2. D \in SUBSET Ids
  BY <1>1 DEF Deserted
<1>. HIDE DEF D
<1>3. stale \in [Ids -> SUBSET Ids] /\ \A x \in Ids : stale[x] \subseteq refs[x]
  BY DEF TypeOK, StaleIsReferenced
<1>4. \A x, y \in Ids : y \in stale'[x] <=> y \in stale[x]
  BY <1>1, <1>2, <1>3, NothingGoes
<1>5. \A x \in Ids \ loaded : file[x] \subseteq stale'[x]
  <2>. SUFFICES ASSUME NEW x \in Ids, x \notin loaded, NEW y \in file[x]
                PROVE  y \in stale'[x]
    OBVIOUS
  <2>1. y \in Ids /\ y \in stale[x]
    BY DEF KeptInv, TypeOK
  <2>. QED  BY <1>4, <2>1
<1>6. KeptInv'
  <2>1. graph' = graph
    BY <1>1
  <2>. QED  BY <1>1, <1>5, <2>1 DEF KeptInv
<1>. QED  BY <1>1, <1>6 DEF Held

\* An erasure takes the element out of every set, in memory and in files.
LEMMA EraseShows ==
    ASSUME GraphInv, KeptInv, NEW b \in Ids, Erase(b)
    PROVE  /\ KeptInv'
           /\ b \in live /\ live' = live \ {b} /\ erased' = erased \cup {b}
           /\ \A x \in Ids : Held(x)' = IF x = b THEN {} ELSE Held(x) \ {b}
<1>. USE DEF GraphInv
<1>. DEFINE L == refs[b] \ loaded
            N == SlotsOf(L)
<1>1. /\ b \in loaded /\ b \in graph /\ saved' = saved \ {b}
      /\ \A x \in Ids : file'[x] = IF x = b THEN {} ELSE file[x]
      /\ graph' = (graph \cup {n[2] : n \in N}) \ {b}
      /\ loaded' = (loaded \cup L) \ {b}
      /\ content' = [a \in Ids |->
             IF a = b THEN {}
             ELSE IF a \in refs[b] THEN (content[a] \cup {x \in Ids : <<a, x>> \in N}) \ {b}
             ELSE content[a]]
      /\ stale' = Without(stale, {b})
      /\ live' = live \ {b} /\ erased' = erased \cup {b}
  BY DEF Erase, TypeOK
<1>2. L \in SUBSET Ids /\ L \subseteq graph
  BY DEF TypeOK, ReferencesMutual
<1>3. \A x, y \in Ids : <<x, y>> \in N <=> x \in L /\ y \in file[x]
  BY DEF SlotsOf, TypeOK
<1>4. {n[2] : n \in N} \subseteq graph
  <2>. SUFFICES ASSUME NEW n \in N PROVE n[2] \in graph
    OBVIOUS
  <2>1. n \in Ids \X Ids
    BY <1>2, SlotsOfPairs
  <2>2. n = <<n[1], n[2]>> /\ n[1] \in Ids /\ n[2] \in Ids
    BY <2>1
  <2>3. n[1] \in L /\ n[2] \in file[n[1]]
    BY <1>3, <2>2
  <2>. QED  BY <2>2, <2>3 DEF KeptInv, StaleIsReferenced, ReferencesMutual
<1>. HIDE DEF N
<1>5. graph' = graph \ {b}
  BY <1>1, <1>4
<1>7. \A x, y \in Ids : y \in stale'[x] <=> y \in stale[x] /\ x # b /\ y # b
  <2>1. {b} \in SUBSET Ids /\ stale \in [Ids -> SUBSET Ids]
    BY DEF TypeOK
  <2>. QED  BY <1>1, <2>1, WithoutNodes
<1>8. \A x \in Ids : x \notin refs[b] => b \notin refs[x]
  BY DEF ReferencesMutual
<1>9. \A x \in Ids : x \notin refs[b] => b \notin content[x] /\ b \notin stale[x]
  BY <1>8 DEF HeldIsReferenced, StaleIsReferenced
<1>10. \A x \in Ids : x \notin refs[b] => b \notin Held(x)
  BY <1>9 DEF Held, KeptInv
<1>11. ASSUME NEW x \in Ids
       PROVE  Held(x)' = IF x = b THEN {} ELSE Held(x) \ {b}
  <2>1. CASE x = b
    BY <1>1, <2>1 DEF Held
  <2>2. CASE x # b /\ x \notin refs[b]
    <3>1. x \in loaded' <=> x \in loaded
      BY <1>1, <2>2
    <3>2. content'[x] = content[x] /\ file'[x] = file[x]
      BY <1>1, <2>2
    <3>. QED  BY <1>10, <2>2, <3>1, <3>2 DEF Held
  <2>3. CASE x # b /\ x \in refs[b]
    <3>1. x \in loaded'
      BY <1>1, <2>3
    <3>2. content'[x] = (content[x] \cup {y \in Ids : <<x, y>> \in N}) \ {b}
      BY <1>1, <2>3
    <3>3. CASE x \in loaded
      <4>1. {y \in Ids : <<x, y>> \in N} = {}
        BY <1>3, <3>3
      <4>. QED  BY <2>3, <3>1, <3>2, <3>3, <4>1 DEF Held
    <3>4. CASE x \notin loaded
      <4>1. {y \in Ids : <<x, y>> \in N} = file[x]
        BY <1>3, <2>3, <3>4 DEF TypeOK
      <4>2. content[x] = {}
        BY <3>4 DEF OnlyLoadedHold
      <4>. QED  BY <2>3, <3>1, <3>2, <3>4, <4>1, <4>2 DEF Held
    <3>. QED  BY <3>3, <3>4
  <2>. QED  BY <2>1, <2>2, <2>3
<1>12. \A x \in Ids \ loaded' : file'[x] \subseteq stale'[x]
  <2>. SUFFICES ASSUME NEW x \in Ids, x \notin loaded', NEW y \in file'[x]
                PROVE  y \in stale'[x]
    OBVIOUS
  <2>1. x # b /\ y \in file[x] /\ x \notin loaded /\ x \notin refs[b]
    BY <1>1
  <2>2. y \in Ids /\ y \in stale[x]
    BY <2>1 DEF KeptInv, TypeOK
  <2>. QED  BY <1>7, <1>9, <2>1, <2>2
<1>13. KeptInv'
  <2>1. graph' \ loaded' \subseteq saved'
    BY <1>1, <1>5 DEF KeptInv
  <2>2. \A x \in Ids \ graph' : file'[x] = {} /\ x \notin saved'
    BY <1>1, <1>5 DEF KeptInv
  <2>. QED  BY <1>1, <1>5, <1>12, <2>1, <2>2 DEF KeptInv
<1>. QED  BY <1>1, <1>11, <1>13 DEF KeptInv

\* What shows nothing is a stutter of the pool.
LEMMA ShowsNothing ==
    ASSUME live' = live, erased' = erased, \A x \in Ids : Held(x)' = Held(x)
    PROVE  UNCHANGED Promise!vars
BY DEF Promise!vars

LEMMA KeptInit == Init => KeptInv /\ Promise!Init
<1>. SUFFICES ASSUME Init PROVE KeptInv /\ Promise!Init
  OBVIOUS
<1>1. [a \in Ids |-> Held(a)] = [a \in Ids |-> {}]
  BY DEF Init, Held
<1>. QED  BY <1>1 DEF Init, KeptInv, Promise!Init

\* An addition shows as one, whether the added element is loaded on the way or not.
LEMMA AdditionShows ==
    ASSUME GraphInv, KeptInv, NEW a \in loaded, NEW b \in graph, b \notin content[a],
           NEW L \in SUBSET ({b} \ loaded), Attach(L, {<<a, b>>} \cup SlotsOf(L)),
           stale' = stale, saved' = saved, file' = file, live' = live, erased' = erased
    PROVE  /\ KeptInv' /\ b \notin Held(a)
           /\ \A x \in Ids : Held(x)' = IF x = a THEN Held(a) \cup {b} ELSE Held(x)
<1>. USE DEF GraphInv
<1>. DEFINE N == {<<a, b>>} \cup SlotsOf(L)
<1>1. /\ a \in Ids /\ b \in Ids /\ L \in SUBSET Ids /\ L \subseteq graph /\ a \notin L
      /\ L \cap loaded = {}
  BY DEF TypeOK
<1>2. \A x, y \in Ids : <<x, y>> \in N <=> (x = a /\ y = b) \/ (x \in L /\ y \in file[x])
  BY <1>1 DEF SlotsOf, TypeOK
<1>3. N \in SUBSET (Ids \X Ids)
  BY <1>1 DEF SlotsOf
<1>. HIDE DEF N
<1>4. {n[2] : n \in N} \subseteq graph
  <2>. SUFFICES ASSUME NEW n \in N PROVE n[2] \in graph
    OBVIOUS
  <2>1. n = <<n[1], n[2]>> /\ n[1] \in Ids /\ n[2] \in Ids
    BY <1>3
  <2>2. CASE n[1] = a /\ n[2] = b
    BY <2>2
  <2>3. CASE n[1] \in L /\ n[2] \in file[n[1]]
    BY <1>1, <2>1, <2>3 DEF KeptInv, StaleIsReferenced, ReferencesMutual
  <2>. QED  BY <1>2, <2>1, <2>2, <2>3
<1>5. graph' = graph /\ loaded' = loaded \cup L
  BY <1>1, <1>4 DEF Attach, N
<1>6. ASSUME NEW x \in Ids
      PROVE  content'[x] = IF x = a THEN content[a] \cup {b}
                           ELSE IF x \in L THEN file[x] ELSE content[x]
  <2>1. content'[x] = content[x] \cup {y \in Ids : <<x, y>> \in N}
    BY DEF Attach, N
  <2>2. file[x] \subseteq Ids
    BY DEF TypeOK
  <2>3. x \in L => content[x] = {}
    BY <1>1 DEF OnlyLoadedHold
  <2>4. {y \in Ids : <<x, y>> \in N} = IF x = a THEN {b} ELSE IF x \in L THEN file[x] ELSE {}
    BY <1>1, <1>2, <2>2
  <2>. QED  BY <2>1, <2>3, <2>4
<1>7. KeptInv'
  BY <1>5 DEF KeptInv
<1>8. \A x \in Ids : Held(x)' = IF x = a THEN Held(a) \cup {b} ELSE Held(x)
  BY <1>1, <1>5, <1>6 DEF Held
<1>. QED  BY <1>7, <1>8 DEF Held

\* Every step of a client that keeps is a step of the pool, or a stutter.
LEMMA KeptNext ==
    ASSUME Keeps, GraphInv, GraphInv', KeptInv, [Next]_vars
    PROVE  KeptInv' /\ [Promise!Next]_(Promise!vars)
<1>. DEFINE Goal == KeptInv' /\ [Promise!Next]_(Promise!vars)
            Quiet == live' = live /\ erased' = erased /\ \A x \in Ids : Held(x)' = Held(x)
<1>1. KeptInv' /\ Quiet => Goal
  BY ShowsNothing
<1>2. CASE UNCHANGED vars
  <2>1. KeptInv'
    BY <1>2 DEF vars, KeptInv
  <2>2. Quiet
    BY <1>2 DEF vars, Held
  <2>. QED  BY <1>1, <2>1, <2>2
<1>3. ASSUME NEW h \in Handles, NEW a \in Ids, Create(h, a)
      PROVE  Goal
  <2>1. /\ a \notin graph /\ a \notin live /\ a \notin erased
        /\ graph' = graph \cup {a} /\ loaded' = loaded \cup {a} /\ live' = live \cup {a}
        /\ content' = content /\ stale' = stale /\ saved' = saved /\ file' = file
        /\ erased' = erased
    BY <1>3 DEF Create, KeptInv
  <2>2. KeptInv'
    BY <2>1 DEF KeptInv
  <2>3. content[a] = {} /\ file[a] = {} /\ a \notin loaded
    BY <2>1 DEF GraphInv, TypeOK, OnlyLoadedHold, KeptInv
  <2>4. \A x \in Ids : Held(x)' = Held(x)
    BY <2>1, <2>3 DEF Held
  <2>5. Promise!Create(a)
    BY <2>1, <2>4 DEF Promise!Create
  <2>. QED  BY <2>2, <2>5 DEF Promise!Next
<1>4. ASSUME NEW h \in Handles, NEW a \in Ids, Get(h, a)
      PROVE  Goal
  <2>. DEFINE L == {a} \ loaded
  <2>1. /\ Attach(L, SlotsOf(L)) /\ stale' = stale /\ live' = live /\ erased' = erased
        /\ saved' = saved /\ file' = file /\ a \in loaded \cup saved
    BY <1>4 DEF Get
  <2>2. L \in SUBSET (graph \ loaded)
    BY <2>1 DEF KeptInv, GraphInv, TypeOK
  <2>3. graph \ loaded \subseteq saved
    BY DEF KeptInv
  <2>. HIDE DEF L
  <2>. QED  BY <1>1, <2>1, <2>2, <2>3, LoadingShows
<1>5. ASSUME NEW h \in Handles, Aquire(h)
      PROVE  Goal
  <2>. DEFINE L == {target[h]}
  <2>1. /\ Attach(L, SlotsOf(L)) /\ stale' = stale /\ live' = live /\ erased' = erased
        /\ saved' = saved /\ file' = file
    BY <1>5 DEF Aquire
  <2>2. target[h] \in saved \ loaded /\ saved \subseteq Ids
    BY <1>5 DEF Aquire, GraphInv, TypeOK
  <2>3. L \in SUBSET (graph \ loaded)
    BY <2>2 DEF KeptInv
  <2>4. graph \ loaded \subseteq saved
    BY DEF KeptInv
  <2>. HIDE DEF L
  <2>. QED  BY <1>1, <2>1, <2>3, <2>4, LoadingShows
<1>6. ASSUME NEW h \in Handles, NEW a \in Ids \cup {NoId}, Assign(h, a)
      PROVE  Goal
  <2>1. /\ graph' = graph /\ loaded' = loaded /\ live' = live /\ content' = content
        /\ stale' = stale /\ saved' = saved /\ file' = file /\ erased' = erased
    BY <1>6 DEF Assign
  <2>2. KeptInv' /\ Quiet
    BY <2>1 DEF KeptInv, Held
  <2>. QED  BY <1>1, <2>2
<1>7. ASSUME NEW h \in Handles, Drop(h)
      PROVE  Goal
  <2>1. graph \subseteq graph'
    BY <1>7 DEF Drop, ClientKeeps
  <2>. QED  BY <1>1, <1>7, <2>1, DropShows
<1>8. ASSUME NEW a \in Ids, ReleaseElement(a)
      PROVE  Goal
  <2>. DEFINE D == {x \in {a} : slots[x] = {} /\ handles[x] = {}}
  <2>1. a \in loaded /\ D \in SUBSET Ids /\ Unload(a, D) /\ graph \subseteq graph'
    BY <1>8 DEF ReleaseElement, ClientKeeps
  <2>. HIDE DEF D
  <2>. QED  BY <1>1, <2>1, UnloadShows
<1>9. ASSUME NEW h \in Handles, ReleaseHandle(h)
      PROVE  Goal
  <2>. DEFINE a == target[h]
              D == Deserted(content[a], [x \in Ids |-> slots[x] \ {a}], handles)
  <2>1. a \in loaded /\ Unload(a, D) /\ graph \subseteq graph'
    BY <1>9 DEF ReleaseHandle, ClientKeeps
  <2>2. D \in SUBSET Ids
    BY <2>1 DEF Deserted, GraphInv, TypeOK
  <2>. HIDE DEF D, a
  <2>. QED  BY <1>1, <2>1, <2>2, UnloadShows
<1>10. ASSUME NEW b \in Ids, Erase(b)
       PROVE  Goal
  <2>1. Promise!Erase(b)
    BY <1>10, EraseShows DEF Promise!Erase
  <2>. QED  BY <1>10, <2>1, EraseShows DEF Promise!Next
<1>11. ASSUME NEW b \in Ids, EraseThrows(b)
       PROVE  Goal
  <2>1. PICK L \in SUBSET ((refs[b] \ loaded) \cap saved) : Attach(L, SlotsOf(L))
    BY <1>11 DEF EraseThrows
  <2>2. /\ stale' = stale /\ live' = live /\ erased' = erased
        /\ saved' = saved \ {b} /\ file' = [file EXCEPT ![b] = {}] /\ b \in loaded
    BY <1>11 DEF EraseThrows
  <2>3. L \in SUBSET (graph \ loaded)
    BY DEF KeptInv, GraphInv, TypeOK
  <2>4. \A x \in Ids : file'[x] = file[x] \/ (x \in loaded /\ file'[x] = {})
    BY <2>2 DEF GraphInv, TypeOK
  <2>5. saved' \subseteq saved /\ graph \ loaded \subseteq saved'
    BY <2>2 DEF KeptInv
  <2>. QED  BY <1>1, <2>1, <2>2, <2>3, <2>4, <2>5, LoadingShows
<1>12. ASSUME NEW a \in Ids, NEW b \in Ids, Add(a, b) \/ AddId(a, b)
       PROVE  Goal
  <2>1. PICK L \in SUBSET ({b} \ loaded) : Attach(L, {<<a, b>>} \cup SlotsOf(L))
    <3>1. CASE Add(a, b)
      BY <3>1 DEF Add
    <3>2. CASE AddId(a, b)
      <4>1. SlotsOf({}) = {}
        BY DEF SlotsOf
      <4>2. Attach({}, {<<a, b>>} \cup SlotsOf({}))
        BY <3>2, <4>1 DEF AddId
      <4>. QED  BY <4>2
    <3>. QED  BY <1>12, <3>1, <3>2
  <2>2. /\ a \in loaded /\ a # b /\ b \notin content[a] /\ stale' = stale
        /\ saved' = saved /\ file' = file /\ live' = live /\ erased' = erased
    BY <1>12 DEF Add, AddId
  <2>3. b \in graph
    BY <1>12 DEF Add, AddId, KeptInv, GraphInv, PointersExact
  <2>4. /\ KeptInv' /\ b \notin Held(a)
        /\ \A x \in Ids : Held(x)' = IF x = a THEN Held(a) \cup {b} ELSE Held(x)
    BY <2>1, <2>2, <2>3, AdditionShows
  <2>5. {a, b} \subseteq live
    BY <2>2, <2>3 DEF KeptInv, GraphInv, TypeOK
  <2>6. Promise!Add(a, b)
    BY <2>2, <2>4, <2>5 DEF Promise!Add
  <2>. QED  BY <2>4, <2>6 DEF Promise!Next
<1>13. ASSUME NEW a \in Ids, NEW b \in Ids, Remove(a, b)
       PROVE  Goal
  <2>1. graph \subseteq graph'
    BY <1>13 DEF Remove, ClientKeeps
  <2>2. Promise!Remove(a, b)
    BY <1>13, <2>1, RemoveShows DEF Promise!Remove
  <2>. QED  BY <1>13, <2>1, <2>2, RemoveShows DEF Promise!Next
<1>. HIDE DEF Goal
<1>14. Next => Goal
  BY <1>3, <1>4, <1>5, <1>6, <1>7, <1>8, <1>9, <1>10, <1>11, <1>12, <1>13 DEF Next
<1>. QED  BY <1>2, <1>14 DEF Goal

LEMMA KeptInvariant == Spec /\ []Keeps => [](GraphInv /\ KeptInv)
<1>1. Init => GraphInv /\ KeptInv
  BY GraphInit, KeptInit
<1>2. Keeps /\ (GraphInv /\ KeptInv) /\ [Next]_vars => (GraphInv /\ KeptInv)'
  BY GraphNext, KeptNext
<1>. QED  BY <1>1, <1>2, PTL DEF Spec

\* For a client that keeps a pointer to every released element, erase() finds the
\* file of every element it has to load.
THEOREM EraseSucceeds == ASSUME Keeps PROVE Spec => []EraseNeverThrows
<1>1. GraphInv /\ KeptInv => EraseNeverThrows
  BY DEF GraphInv, KeptInv, TypeOK, ReferencesMutual, EraseNeverThrows
<1>. QED  BY <1>1, KeptInvariant, PTL

\* For such a client no set keeps an erased element, in memory or in a file.
THEOREM Forgotten == ASSUME Keeps PROVE Spec => []ErasedIsForgotten
<1>1. GraphInv /\ KeptInv => ErasedIsForgotten
  <2>. SUFFICES ASSUME GraphInv, KeptInv, NEW x \in erased, NEW a \in Ids, x \in Held(a)
                PROVE  FALSE
    BY DEF ErasedIsForgotten
  <2>. USE DEF GraphInv
  <2>1. x \in Ids /\ x \in refs[a]
    BY DEF Held, TypeOK, HeldIsReferenced, StaleIsReferenced, KeptInv
  <2>. QED  BY <2>1 DEF ReferencesMutual, KeptInv
<1>. QED  BY <1>1, KeptInvariant, PTL

\* For such a client the graph implements the pool: releasing, loading and pointing do
\* not show, and an erased element leaves every set.
THEOREM Implements == ASSUME Keeps PROVE Spec => ImplementsElementPool
<1>1. Keeps /\ (GraphInv /\ KeptInv) /\ (GraphInv /\ KeptInv)' /\ [Next]_vars
        => [Promise!Next]_(Promise!vars)
  BY KeptNext
<1>. QED  BY <1>1, KeptInit, KeptInvariant, PTL DEF Spec, ImplementsElementPool, Promise!Spec

\* What the pool promises is worth implementing: in every behaviour it allows, an erased
\* element stays erased and is in no set, and only an element that exists has a set.
THEOREM PoolForgets ==
    Promise!Spec =>
        [](/\ live \cap erased = {}
           /\ \A a \in Ids : [x \in Ids |-> Held(x)][a] \subseteq live
           /\ \A a \in Ids \ live : [x \in Ids |-> Held(x)][a] = {})
<1>. DEFINE pool == [x \in Ids |-> Held(x)]
            Kept == /\ live \cap erased = {}
                    /\ \A a \in Ids : pool[a] \subseteq live
                    /\ \A a \in Ids \ live : pool[a] = {}
<1>1. Promise!Init => Kept
  <2>. HIDE DEF pool
  <2>. QED  BY DEF Promise!Init, pool
<1>2. Kept /\ [Promise!Next]_(Promise!vars) => Kept'
  <2>. SUFFICES ASSUME Kept, [Promise!Next]_(Promise!vars) PROVE Kept'
    OBVIOUS
  <2>0. pool = [x \in Ids |-> pool[x]]
    OBVIOUS
  <2>1. CASE UNCHANGED <<live, erased, pool>>
    <3>. HIDE DEF pool
    <3>. QED  BY <2>1
  <2>2. ASSUME NEW a \in Ids, Promise!Create(a) PROVE Kept'
    <3>1. a \notin live \cup erased /\ live' = live \cup {a} /\ erased' = erased /\ pool' = pool
      BY <2>2 DEF Promise!Create
    <3>. HIDE DEF pool
    <3>. QED  BY <3>1
  <2>3. ASSUME NEW a \in Ids, NEW b \in Ids, Promise!Add(a, b) PROVE Kept'
    <3>1. {a, b} \subseteq live /\ live' = live /\ erased' = erased /\ pool' = [pool EXCEPT ![a] = @ \cup {b}]
      BY <2>3 DEF Promise!Add
    <3>. HIDE DEF pool
    <3>. QED  BY <2>0, <3>1
  <2>4. ASSUME NEW a \in Ids, NEW b \in Ids, Promise!Remove(a, b) PROVE Kept'
    <3>1. b \in pool[a] /\ live' = live /\ erased' = erased /\ pool' = [pool EXCEPT ![a] = @ \ {b}]
      BY <2>4 DEF Promise!Remove
    <3>. HIDE DEF pool
    <3>. QED  BY <2>0, <3>1
  <2>5. ASSUME NEW b \in Ids, Promise!Erase(b) PROVE Kept'
    <3>1. /\ live' = live \ {b} /\ erased' = erased \cup {b}
          /\ pool' = [a \in Ids |-> IF a = b THEN {} ELSE pool[a] \ {b}]
      BY <2>5 DEF Promise!Erase
    <3>. HIDE DEF pool
    <3>. QED  BY <3>1
  <2>. HIDE DEF Kept, pool
  <2>6. Promise!Next \/ UNCHANGED Promise!vars
    OBVIOUS
  <2>. QED
    BY <2>1, <2>2, <2>3, <2>4, <2>5, <2>6 DEF Promise!Next, Promise!vars, pool
<1>. HIDE DEF Kept
<1>3. Promise!Spec => []Kept
  BY <1>1, <1>2, PTL DEF Promise!Spec
<1>. QED  BY <1>3 DEF Kept

=============================================================================
