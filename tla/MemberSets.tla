------------------------------ MODULE MemberSets ------------------------------
(***************************************************************************)
(* What the Sets of an element promise to a client: each set has members,  *)
(* a set that subsets another keeps all its members in it, size() is the   *)
(* number of members, and an add or a remove shows in every superset.      *)
(* Nothing is said of where the elements are stored.                       *)
(***************************************************************************)
EXTENDS Integers, FiniteSets

CONSTANTS
    Sets,       \* the sets of an element
    Elems,      \* the elements that are added and removed
    Closure     \* Closure[s]: s and the sets above it

VARIABLES
    members,    \* members[s]: what s contains
    size        \* size[s]: what s reports as its size

mvars == <<members, size>>

Init ==
    /\ members = [s \in Sets |-> {}]
    /\ size = [s \in Sets |-> 0]

Counted == size' = [s \in Sets |-> Cardinality(members'[s])]

\* x joins s and every set above it.  Where it was a member before, among the sets
\* that share a superset with s, is above s.
Add(s, x) ==
    /\ x \notin members[s]
    /\ \A u \in Sets : x \in members[u] /\ Closure[u] \cap Closure[s] # {} => u \in Closure[s]
    /\ members' = [u \in Sets |-> IF u \in Closure[s] THEN members[u] \cup {x} ELSE members[u]]
    /\ Counted

\* x leaves the lowest set that has it, at or below s, and every set above that one.
Remove(s, x) ==
    /\ \E low \in Sets :
        /\ s \in Closure[low]
        /\ x \in members[low]
        /\ \A u \in Sets \ {low} : low \in Closure[u] => x \notin members[u]
        /\ members' = [u \in Sets |-> IF u \in Closure[low] THEN members[u] \ {x} ELSE members[u]]
    /\ Counted

Next == \E s \in Sets, x \in Elems : Add(s, x) \/ Remove(s, x)

Spec == Init /\ [][Next]_mvars

\* Subsetting is inclusion: what a set contains, every set above it contains.
SubsetIsInclusion == \A s \in Sets : \A u \in Closure[s] : members[s] \subseteq members[u]
=============================================================================
