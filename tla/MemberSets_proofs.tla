--------------------------- MODULE MemberSets_proofs ---------------------------
(***************************************************************************)
(* What the promise of MemberSets amounts to: subsetting is inclusion.     *)
(***************************************************************************)
EXTENDS MemberSets, TLAPS

\* Closure is the reflexive and transitive closure of some relation on Sets.
ClosureIsPreorder ==
    /\ \A s \in Sets : Closure[s] \subseteq Sets /\ s \in Closure[s]
    /\ \A s \in Sets : \A t \in Closure[s] : Closure[t] \subseteq Closure[s]

\* Two sets that share a superset and a member have that member from one set below
\* both: an element joins at one place only.
OneSource ==
    \A s, t \in Sets : \A x \in members[s] \cap members[t] :
        Closure[s] \cap Closure[t] # {} =>
            \E low \in Sets : x \in members[low] /\ s \in Closure[low] /\ t \in Closure[low]

MembersTyped == members \in [Sets -> SUBSET Elems]

InclusionInv == MembersTyped /\ SubsetIsInclusion /\ OneSource

LEMMA AddKeepsInclusion ==
    ASSUME ClosureIsPreorder, InclusionInv, NEW s \in Sets, NEW x \in Elems, Add(s, x)
    PROVE  InclusionInv'
<1>. USE DEF ClosureIsPreorder
<1>1. MembersTyped'
  BY DEF Add, InclusionInv, MembersTyped
<1>2. ASSUME NEW u \in Sets, NEW y
      PROVE  y \in members'[u] <=> y \in members[u] \/ (u \in Closure[s] /\ y = x)
  <2>1. members'[u] = IF u \in Closure[s] THEN members[u] \cup {x} ELSE members[u]
    BY DEF Add
  <2>. QED  BY <2>1
<1>3. SubsetIsInclusion'
  BY <1>2 DEF InclusionInv, SubsetIsInclusion
<1>4. ASSUME NEW u \in Sets, NEW t \in Sets, NEW y \in members'[u] \cap members'[t],
             Closure[u] \cap Closure[t] # {}
      PROVE  \E low \in Sets : y \in members'[low] /\ u \in Closure[low] /\ t \in Closure[low]
  <2>1. CASE y \in members[u] \cap members[t]
    BY <1>2, <1>4, <2>1 DEF InclusionInv, OneSource
  <2>2. CASE y = x /\ u \in Closure[s] /\ t \in Closure[s]
    BY <1>2, <2>2
  <2>3. ASSUME NEW v \in Sets, x \in members[v], NEW w \in Closure[s],
               Closure[v] \cap Closure[w] # {}
        PROVE  v \in Closure[s]
    BY <2>3 DEF Add
  <2>. QED  BY <1>2, <1>4, <2>1, <2>2, <2>3
<1>. QED  BY <1>1, <1>3, <1>4 DEF InclusionInv, OneSource

LEMMA RemoveKeepsInclusion ==
    ASSUME ClosureIsPreorder, InclusionInv, NEW s \in Sets, NEW x \in Elems, Remove(s, x)
    PROVE  InclusionInv'
<1>. USE DEF ClosureIsPreorder
<1>1. PICK low \in Sets :
        /\ x \in members[low]
        /\ \A u \in Sets \ {low} : low \in Closure[u] => x \notin members[u]
        /\ members' = [u \in Sets |-> IF u \in Closure[low] THEN members[u] \ {x} ELSE members[u]]
  BY DEF Remove
<1>2. MembersTyped'
  BY <1>1 DEF InclusionInv, MembersTyped
<1>3. ASSUME NEW u \in Sets, NEW y
      PROVE  y \in members'[u] <=> y \in members[u] /\ ~(u \in Closure[low] /\ y = x)
  <2>1. members'[u] = IF u \in Closure[low] THEN members[u] \ {x} ELSE members[u]
    BY <1>1
  <2>. QED  BY <2>1
\* A set that shares a superset with low and has x lies above low.
<1>4. ASSUME NEW u \in Sets, x \in members[u], Closure[u] \cap Closure[low] # {}
      PROVE  u \in Closure[low]
  <2>1. PICK v \in Sets : x \in members[v] /\ u \in Closure[v] /\ low \in Closure[v]
    BY <1>1, <1>4 DEF InclusionInv, OneSource
  <2>. QED  BY <1>1, <2>1
<1>5. ASSUME NEW u \in Sets, NEW v \in Closure[u], NEW y \in members'[u]
      PROVE  y \in members'[v]
  <2>1. y \in members[u] /\ y \in members[v] /\ v \in Sets
    BY <1>3, <1>5 DEF InclusionInv, SubsetIsInclusion
  <2>2. CASE y = x /\ v \in Closure[low]
    <3>1. v \in Closure[u] \cap Closure[low]
      BY <2>2
    <3>2. u \in Closure[low]
      BY <1>4, <2>1, <2>2, <3>1
    <3>. QED  BY <1>3, <2>2, <3>2
  <2>3. CASE ~(y = x /\ v \in Closure[low])
    BY <1>3, <2>1, <2>3
  <2>. QED  BY <2>2, <2>3
<1>6. SubsetIsInclusion'
  BY <1>5 DEF SubsetIsInclusion
<1>7. ASSUME NEW u \in Sets, NEW t \in Sets, NEW y \in members'[u] \cap members'[t],
             Closure[u] \cap Closure[t] # {}
      PROVE  \E v \in Sets : y \in members'[v] /\ u \in Closure[v] /\ t \in Closure[v]
  <2>1. PICK v \in Sets : y \in members[v] /\ u \in Closure[v] /\ t \in Closure[v]
    BY <1>3, <1>7 DEF InclusionInv, OneSource
  <2>2. y \in members'[v]
    BY <1>3, <1>7, <2>1
  <2>. QED  BY <2>1, <2>2
<1>. QED  BY <1>2, <1>6, <1>7 DEF InclusionInv, OneSource

\* A set that subsets another has all its members in it, whatever is added and
\* removed: the meaning that the sets of an element give to subsets().
THEOREM Inclusion ==
    ASSUME ClosureIsPreorder
    PROVE  Spec => []SubsetIsInclusion
<1>1. Init => InclusionInv
  BY DEF Init, InclusionInv, MembersTyped, SubsetIsInclusion, OneSource, ClosureIsPreorder
<1>2. InclusionInv /\ [Next]_mvars => InclusionInv'
  <2>. SUFFICES ASSUME InclusionInv, [Next]_mvars PROVE InclusionInv'
    OBVIOUS
  <2>1. CASE UNCHANGED mvars
    BY <2>1 DEF mvars, InclusionInv, MembersTyped, SubsetIsInclusion, OneSource
  <2>. QED  BY <2>1, AddKeepsInclusion, RemoveKeepsInclusion DEF Next
<1>3. InclusionInv => SubsetIsInclusion
  BY DEF InclusionInv
<1>. QED  BY <1>1, <1>2, <1>3, PTL DEF Spec
=============================================================================
