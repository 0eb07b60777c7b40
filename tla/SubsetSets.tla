------------------------------ MODULE SubsetSets ------------------------------
(***************************************************************************)
(* The Sets of one element and the subset relation between them, as        *)
(* PrivateSet and SetDataPolicy keep them (set/privateSet.h, set/set.h).   *)
(*                                                                         *)
(* An element stores what is added to a set in the m_data of that set      *)
(* alone.  A superset sees it through m_subSetsWithData, the marks that    *)
(* name the subsets below it that hold data, and through m_size, which     *)
(* every add and remove maintains over the whole superset closure.  The    *)
(* marks are not kept for every superset: marking and unmarking both stop  *)
(* below a superset that holds data of its own.                            *)
(*                                                                         *)
(* A set of this module is the root of its redefinition group, its data    *)
(* policy is the one of Set, its opposite is NoOpposite and every element  *)
(* in it is loaded.  The breadth first searches of the source become       *)
(* reachability (Reach); where the order in which they find sets matters   *)
(* the model takes every order consistent with the search (FindOrders),    *)
(* because the source iterates over unordered sets of pointers.            *)
(***************************************************************************)
EXTENDS Integers, FiniteSets

CONSTANTS
    Sets,       \* the sets of the element
    Elems,      \* the elements that are added and removed
    Supers,     \* m_superSets: Supers[s] are the sets that s subsets
    AddSets,    \* the sets the client adds to
    Exclusive,  \* TRUE: the client keeps an element out of two sets that only
                \* share a superset
    NoSet,      \* no clear() is running
    MaxSize     \* bound on m_size, for model checking

ASSUME SetsAssumption == IsFiniteSet(Sets) /\ IsFiniteSet(Elems) /\ NoSet \notin Sets
ASSUME SupersAssumption == Supers \in [Sets -> SUBSET Sets]
ASSUME ClientAssumption == AddSets \subseteq Sets /\ Exclusive \in BOOLEAN /\ MaxSize \in Nat

VARIABLES
    data,       \* data[s]: the elements in the m_data of s
    marks,      \* marks[s]: the m_subSetsWithData of s
    size,       \* size[s]: the m_size of s
    refs,       \* refs[x]: the m_sets of the owner node's reference to x
    clearing    \* the set whose clear() is running, or NoSet

vars == <<data, marks, size, refs, clearing>>

-----------------------------------------------------------------------------
(* Searches over the sets *)

\* What a search that starts from S and goes from a set u to next[u] visits.
Reach(S, next) ==
    {t \in Sets : \A C \in SUBSET (Sets \ {t}) :
        S \subseteq C => \E u \in C : ~(next[u] \subseteq C)}

\* The supersets of s, s included.
Closure == [s \in Sets |-> Reach({s}, Supers)]

ASSUME AcyclicAssumption == \A s \in Sets : s \notin Reach(Supers[s], Supers)

\* The round in which that search visits t.
Round(S, next, t) ==
    LET queued[n \in Nat] == IF n = 0 THEN S ELSE UNION {next[u] : u \in queued[n - 1]}
    IN  CHOOSE n \in 0..Cardinality(Sets) :
            t \in queued[n] /\ \A m \in 0..(n - 1) : t \notin queued[m]

\* The orders in which that search may meet the sets of H, counted from 1.
FindOrders(H, S, next) ==
    {o \in [H -> 1..Cardinality(H)] : \A t, u \in H :
        /\ o[t] = o[u] => t = u
        /\ Round(S, next, t) < Round(S, next, u) => o[t] < o[u]}

\* Fault: only the direct supersets are marked.
DirectSupersMarked(s, d) == Supers[s]

\* The supersets where a mark for s is set or erased, given the data d: up from
\* s, past a superset only when that superset holds no data.
MarkedAbove(s, d) ==
    Reach(Supers[s], [u \in Sets |-> IF d[u] = {} THEN Supers[u] ELSE {}])

\* The sets below s that s can see, s included.
Visible(s, m) == Reach({s}, m)

Contains(s, x, d, m) == \E t \in Visible(s, m) : x \in d[t]

\* The search of a removal does not go below a set that has the element.
Descent(x) == [u \in Sets |-> IF x \in data[u] THEN {} ELSE marks[u]]

Found(s, x) == {t \in Reach({s}, Descent(x)) : x \in data[t]}

\* Fault: an element that a superset holds stays there as well.
NothingMoves(s, x) == {}

\* The proper supersets of s that hold x, from which adding x to s takes it.
Movers(s, x) == {t \in Closure[s] \ {s} : x \in data[t]}

-----------------------------------------------------------------------------
(* Removing x from the data of every set of H, one after the other in order o *)

DataWithout(H, x) == [u \in Sets |-> IF u \in H THEN data[u] \ {x} ELSE data[u]]

\* The data just after x has left t.
DataUpTo(t, H, o, x) == DataWithout({u \in H : o[u] <= o[t]}, x)

\* Fault: marks are never erased.
MarksKept(H, o, x) == marks

\* A set left empty loses its marks, as far up as MarkedAbove goes at that time.
MarksWithout(H, o, x) ==
    [u \in Sets |-> marks[u] \
        {t \in H : /\ data[t] = {x}
                   /\ u \in MarkedAbove(t, DataUpTo(t, H, o, x))}]

\* Fault: a move down is not deducted.
SizeKept(H) == size

\* Fault: a move down is deducted from every set.
SizeMovedEverywhere(H) == [u \in Sets |-> size[u] - Cardinality(H)]

\* The sizes once the move has run nonOppositeRemove on every set of H.
SizeMoved(H) == [u \in Sets |-> size[u] - Cardinality({t \in H : u \in Closure[t]})]

\* Fault: the whole reference goes with the first set removed from.
ReferenceDropped(s, x) == {}

\* removeReference takes the set that innerRemove was called on.
ReferenceWithout(s, x) == refs[x] \ {s}

-----------------------------------------------------------------------------

Init ==
    /\ data = [s \in Sets |-> {}]
    /\ marks = [s \in Sets |-> {}]
    /\ size = [s \in Sets |-> 0]
    /\ refs = [x \in Elems |-> {}]
    /\ clearing = NoSet

\* A client that is Exclusive adds x only where every set with x that shares a
\* superset with s lies above or below s.
ClientAdds(s, x) ==
    /\ clearing = NoSet
    /\ \A u \in Closure[s] : size[u] < MaxSize
    /\ Exclusive => \A t \in Sets :
           x \in data[t] => \/ t \in Closure[s]
                            \/ s \in Closure[t]
                            \/ Closure[s] \cap Closure[t] = {}

\* add(x) on s: x first leaves the supersets that hold it, then addData stores it
\* unless a marked subset contains it, then marks, sizes and the reference follow.
Add(s, x) ==
    /\ ClientAdds(s, x)
    /\ x \notin data[s]
    /\ \E o \in FindOrders(Movers(s, x), {s}, Supers) :
        LET H == Movers(s, x)
            d == DataWithout(H, x)
            m == MarksWithout(H, o, x)
        IN  /\ ~Contains(s, x, d, m)
            /\ data' = [d EXCEPT ![s] = @ \cup {x}]
            /\ marks' = [u \in Sets |-> IF u \in MarkedAbove(s, d)
                                          THEN m[u] \cup {s} ELSE m[u]]
            /\ size' = [u \in Sets |-> SizeMoved(H)[u] + IF u \in Closure[s] THEN 1 ELSE 0]
    /\ refs' = [refs EXCEPT ![x] = @ \cup {s}]
    /\ UNCHANGED clearing

\* add(x) when addData finds a duplicate below s: it throws after x has left the
\* supersets.  (When s itself holds x the first allocatePtr throws: no change.)
AddThrows(s, x) ==
    /\ ClientAdds(s, x)
    /\ x \notin data[s]
    /\ \E o \in FindOrders(Movers(s, x), {s}, Supers) :
        LET H == Movers(s, x)
            d == DataWithout(H, x)
            m == MarksWithout(H, o, x)
        IN  /\ Contains(s, x, d, m)
            /\ data' = d
            /\ marks' = m
            /\ size' = SizeMoved(H)
    /\ UNCHANGED <<refs, clearing>>

\* innerRemove(x) on s.  Every set the search finds loses x, but sizes are adjusted
\* above the last one only, and the reference of s itself is dropped.  When the
\* search finds nothing it throws: no change.
InnerRemove(s, x) ==
    LET H == Found(s, x) IN
    /\ H # {}
    /\ \E o \in FindOrders(H, {s}, Descent(x)), setwithEl \in H :
        /\ \A t \in H : o[t] <= o[setwithEl]
        /\ marks' = MarksWithout(H, o, x)
        /\ size' = [u \in Sets |-> size[u] - IF u \in Closure[setwithEl] THEN 1 ELSE 0]
    /\ data' = DataWithout(H, x)
    /\ refs' = [refs EXCEPT ![x] = ReferenceWithout(s, x)]

Remove(s, x) ==
    /\ clearing = NoSet
    /\ InnerRemove(s, x)
    /\ UNCHANGED clearing

\* The sets whose data front() of s may answer from: down the marks from s, past a
\* set only when it has no data.
FrontSets(s) ==
    LET reached == Reach({s}, [u \in Sets |-> IF data[u] = {} THEN marks[u] ELSE {}])
    IN  {t \in reached : data[t] # {} \/ marks[t] = {}}

\* clear() on s: while (front()) remove(front()).
ClearBegin(s) ==
    /\ clearing = NoSet
    /\ clearing' = s
    /\ UNCHANGED <<data, marks, size, refs>>

ClearStep ==
    /\ clearing # NoSet
    /\ \E t \in FrontSets(clearing) : \E x \in data[t] : InnerRemove(clearing, x)
    /\ UNCHANGED clearing

ClearEnd ==
    /\ clearing # NoSet
    /\ \E t \in FrontSets(clearing) : data[t] = {}
    /\ clearing' = NoSet
    /\ UNCHANGED <<data, marks, size, refs>>

Next ==
    \/ \E s \in AddSets, x \in Elems : Add(s, x) \/ AddThrows(s, x)
    \/ \E s \in Sets, x \in Elems : Remove(s, x)
    \/ \E s \in Sets : ClearBegin(s)
    \/ ClearStep
    \/ ClearEnd

Spec == Init /\ [][Next]_vars

-----------------------------------------------------------------------------
(* What is true of every use of the sets *)

\* The elements stored in s or in a subset of s, at any depth.
Members(s) == {x \in Elems : \E t \in Sets : s \in Closure[t] /\ x \in data[t]}

\* The same, once for each set that stores one.
Holdings(s) == {h \in Sets \X Elems : s \in Closure[h[1]] /\ h[2] \in data[h[1]]}

\* Every variable keeps its type; in particular the unsigned m_size never goes
\* below zero (privateSet.h:374, 379), whatever is moved and removed.
TypeOK ==
    /\ data \in [Sets -> SUBSET Elems]
    /\ marks \in [Sets -> SUBSET Sets]
    /\ size \in [Sets -> Nat]
    /\ refs \in [Elems -> SUBSET Sets]
    /\ clearing \in Sets \cup {NoSet}

\* m_size counts every stored occurrence in the set and below it, so a decrement
\* always has an increment to take back.
SizeCoversHoldings == \A s \in Sets : size[s] >= Cardinality(Holdings(s))

\* The owner's node keeps a reference for every set that stores the element:
\* removeReference dereferences what find() returns without a check
\* (managerNode.h:103-104), and erase() finds the sets to clean through it.
StoredIsReferenced == \A s \in Sets : \A x \in data[s] : s \in refs[x]

-----------------------------------------------------------------------------
(* What is true when no set with both supersets and subsets has data of its own *)

NoMiddleData == \A s \in AddSets : Supers[s] = {} \/ \A t \in Sets : s \notin Supers[t]

\* A set is marked in exactly the proper supersets of a set with data.
MarksExact ==
    \A u \in Sets : marks[u] = {t \in Sets : data[t] # {} /\ u \in Closure[t] \ {t}}

\* contains() answers for every element stored at or below the set, at any depth,
\* and for no other.
ContainsExact ==
    \A s \in Sets, x \in Elems : Contains(s, x, data, marks) <=> x \in Members(s)

\* No element is stored both in a set and in a superset of that set.
StoredOncePerLine ==
    \A s \in Sets, t \in Sets : s \in Closure[t] \ {t} => data[s] \cap data[t] = {}

\* size() is the number of members (needs an Exclusive client).
SizeExact == \A s \in Sets : size[s] = Cardinality(Members(s))

\* clear() ends with no member left at or below the set and size() zero.
ClearLeavesEmpty ==
    [][ClearEnd => Members(clearing) = {} /\ size[clearing] = 0]_vars

\* clear() ends.
ClearTerminates == (clearing # NoSet) ~> (clearing = NoSet)

\* The sets as a client sees them through contains() and size(): the refinement
\* mapping to the abstract specification.
Promise == INSTANCE MemberSets WITH
    members <- [s \in Sets |-> {x \in Elems : Contains(s, x, data, marks)}]

\* What contains() and size() answer changes only as MemberSets allows.
ImplementsMemberSets == Promise!Spec

\* A removal takes away the removed element only: every set goes on containing the
\* other elements it contained (setTest.cpp:1780-1794).
RemoveKeepsOthers ==
    [][\A r \in Sets, x \in Elems : Remove(r, x) =>
          \A s \in Sets, y \in Elems \ {x} :
             Contains(s, y, data, marks) <=> Contains(s, y, data, marks)']_vars

=============================================================================
