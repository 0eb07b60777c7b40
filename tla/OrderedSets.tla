------------------------------ MODULE OrderedSets ------------------------------
(***************************************************************************)
(* Ordered sets and iteration beside SubsetSets (set/orderedSet.h,         *)
(* set/set.h).                                                             *)
(*                                                                         *)
(* An OrderedSet keeps a linked list of its members, those of its subsets  *)
(* included, beside the data.  The list lives on two hooks that the add    *)
(* and remove of any set below it call: allocatePtr, which appends, and    *)
(* deAllocatePtr, which unlinks the first node with the id.  Its front(),  *)
(* clear() and iterator read the list only.  A Set has no list: its        *)
(* iterator goes through its data, then through the sets that it marks,    *)
(* and its front() answers with the first that such an iterator is at.     *)
(***************************************************************************)
EXTENDS SubsetSets, Sequences

Seqs == INSTANCE SequencesExt

CONSTANTS
    Ordered,    \* the sets that are OrderedSets
    NullElem,   \* a null pointer, met by an iterator or answered by front()
    Broken,     \* an iterator is incremented at its end: undefined behaviour
    MaxOrder,   \* bounds for model checking: on the length of a list
    MaxRefused  \* and on the number of elements that are refused

ASSUME OrderedAssumption ==
    /\ Ordered \subseteq Sets
    /\ NullElem \notin Elems /\ Broken \notin Elems /\ NullElem # Broken
ASSUME BoundsAssumption == MaxOrder \in Nat /\ MaxRefused \in Nat

VARIABLES
    order,      \* order[u]: the ids in the list of u, m_first to m_last
    refused     \* history: the elements that addData refused

orderedVars == <<data, marks, size, refs, clearing, order, refused>>

Occurrences(q, x) == Cardinality({i \in DOMAIN q : q[i] = x})

-----------------------------------------------------------------------------
(* The hooks *)

\* Fault: a move down does not unlink.
NotUnlinked(u, s, x) == order[u]

\* Every set above s that holds x gives it up on the way, and unlinks x from its own
\* list and from those above it.
Unlinked(u, s, x) ==
    LET movesBelow == Cardinality({t \in Movers(s, x) : u \in Closure[t]})
        left[n \in 0..movesBelow] ==
            IF n = 0 THEN order[u] ELSE Seqs!RemoveFirst(left[n - 1], x)
    IN  left[movesBelow]

\* Fault: a list that has x already is left alone.
AllocatedIfAbsent(s, x) ==
    [u \in Ordered |->
        IF u \in Closure[s] /\ Occurrences(order[u], x) = 0 THEN Append(order[u], x) ELSE order[u]]

\* allocatePtr has run for s and all its supersets.
Allocated(s, x) ==
    [u \in Ordered |-> Unlinked(u, s, x) \o IF u \in Closure[s] THEN <<x>> ELSE << >>]

\* Fault: only the set that had the element unlinks it.
DeAllocatedHere(s, x) ==
    [u \in Ordered |-> IF data'[u] # data[u] THEN Seqs!RemoveFirst(order[u], x) ELSE order[u]]

\* deAllocatePtr runs for the sets whose size goes down, and before it does.
DeAllocated(s, x) ==
    [u \in Ordered |-> IF size'[u] < size[u] THEN Seqs!RemoveFirst(order[u], x) ELSE order[u]]

-----------------------------------------------------------------------------

OrderedInit ==
    /\ Init
    /\ order = [u \in Ordered |-> << >>]
    /\ refused = {}

\* A bound for model checking: lists do not grow past MaxOrder.
Room(s) == \A u \in Ordered \cap Closure[s] : Len(order[u]) < MaxOrder

OrderedAdd(s, x) ==
    /\ Room(s)
    /\ Add(s, x)
    /\ order' = Allocated(s, x)
    /\ UNCHANGED refused

\* The hooks have all run when addData refuses x.
OrderedAddThrows(s, x) ==
    /\ Room(s) /\ Cardinality(refused \cup {x}) <= MaxRefused
    /\ AddThrows(s, x)
    /\ order' = Allocated(s, x)
    /\ refused' = refused \cup {x}

OrderedRemove(s, x) ==
    /\ Remove(s, x)
    /\ order' = DeAllocated(s, x)
    /\ UNCHANGED refused

OrderedClearBegin(s) == ClearBegin(s) /\ UNCHANGED <<order, refused>>

\* The sets that front() of s may answer from: down the marks, past a Set only when it
\* has no data, and never past an OrderedSet.
ListFrontSets(s) ==
    LET reached == Reach({s}, [u \in Sets |->
                        IF u \notin Ordered /\ data[u] = {} THEN marks[u] ELSE {}])
    IN  {t \in reached : t \in Ordered \/ data[t] # {} \/ marks[t] = {}}

\* Fault: a Set without members has no answer.
AnswersNeverNull(t) ==
    IF t \in Ordered THEN (IF order[t] = << >> THEN {NullElem} ELSE {order[t][1]})
    ELSE data[t]

\* The head of the list, or any of the data.
Answers(t) ==
    IF t \in Ordered THEN (IF order[t] = << >> THEN {NullElem} ELSE {order[t][1]})
    ELSE IF data[t] = {} THEN {NullElem} ELSE data[t]

\* What front() of s may answer.
Fronts(s) == UNION {Answers(t) : t \in ListFrontSets(s)}

OrderedClearStep ==
    /\ clearing # NoSet
    /\ \E x \in Fronts(clearing) \ {NullElem} :
        /\ InnerRemove(clearing, x)
        /\ order' = DeAllocated(clearing, x)
    /\ UNCHANGED <<clearing, refused>>

OrderedClearEnd ==
    /\ clearing # NoSet
    /\ NullElem \in Fronts(clearing)
    /\ clearing' = NoSet
    /\ UNCHANGED <<data, marks, size, refs, order, refused>>

\* The head of a list, its own or that of a set below, names an element that remove()
\* does not find: remove() throws out of clear().
OrderedClearThrows ==
    /\ clearing # NoSet
    /\ \E x \in Fronts(clearing) \ {NullElem} : Found(clearing, x) = {}
    /\ clearing' = NoSet
    /\ UNCHANGED <<data, marks, size, refs, order, refused>>

OrderedNext ==
    \/ \E s \in AddSets, x \in Elems : OrderedAdd(s, x) \/ OrderedAddThrows(s, x)
    \/ \E s \in Sets, x \in Elems : OrderedRemove(s, x)
    \/ \E s \in Sets : OrderedClearBegin(s)
    \/ OrderedClearStep
    \/ OrderedClearEnd
    \/ OrderedClearThrows

\* The loop of clear() is not abandoned half way.
OrderedFairSpec ==
    /\ OrderedInit /\ [][OrderedNext]_orderedVars
    /\ WF_orderedVars(OrderedClearStep \/ OrderedClearEnd \/ OrderedClearThrows)

-----------------------------------------------------------------------------
(* Iteration *)

\* m_visited: a later occurrence is skipped.
FirstVisits(w) ==
    LET fresh == {i \in DOMAIN w : \A j \in 1..(i - 1) : w[j] # w[i]}
    IN  [n \in 1..Cardinality(fresh) |->
            w[CHOOSE i \in fresh : Cardinality({j \in fresh : j <= i}) = n]]

\* The iterator of an OrderedSet ends after the first node with the id of m_last.
ListWalk(u) ==
    LET q == order[u]
        last == {i \in DOMAIN q : q[i] = q[Len(q)]}
    IN  SubSeq(q, 1, IF q = << >> THEN 0 ELSE CHOOSE i \in last : \A j \in last : i <= j)

\* What a loop over a Set meets at a marked subset t, over which a loop visits w: a
\* null element if that is nothing.  The iterator of an empty OrderedSet can be
\* incremented after that, the iterator of a Set without data and marks cannot.
Met(t, w) ==
    IF w # << >> THEN w ELSE IF t \in Ordered THEN <<NullElem>> ELSE <<NullElem, Broken>>

\* What the loop visits from t on, with later what it may visit after t.  To next() a
\* null element is the end; begin() does not look, and is followed by an increment.
Visits(met, begins, later) ==
    IF met[1] = NullElem /\ ~begins THEN {<< >>}
    ELSE IF met[Len(met)] = Broken THEN {met}
    ELSE {met \o v : v \in later}

\* What a loop from begin() to end() of s may visit.  A Set iterates over its data in
\* any order, then over the marked subsets in any order.
Walks ==
    LET walks[s \in Sets] ==
            IF s \in Ordered THEN {ListWalk(s)}
            ELSE UNION {
                LET below[n \in 1..(Len(p) + 1)] ==
                        IF n > Len(p) THEN {<< >>}
                        ELSE UNION {Visits(Met(p[n], w), n = 1 /\ data[s] = {}, below[n + 1])
                                    : w \in walks[p[n]]}
                IN  {FirstVisits(own \o w) : own \in Seqs!SetToSeqs(data[s]), w \in below[1]}
                : p \in Seqs!SetToSeqs(marks[s])}
    IN  walks

-----------------------------------------------------------------------------

\* An element is in the list of an OrderedSet at least as often as it is stored in the
\* set and below it, whatever any client adds, moves, has refused and removes: front()
\* and clear() of an OrderedSet miss no member.
ListsCover ==
    \A u \in Ordered, x \in Elems :
        Occurrences(order[u], x) >= Cardinality({t \in Sets : u \in Closure[t] /\ x \in data[t]})

\* Of an element whose adds were never refused the list has no more than that: one entry
\* for a member, and none for what is no member.
ListExact ==
    /\ ListsCover
    /\ \A u \in Ordered, x \in Elems :
        x \notin refused => Occurrences(order[u], x) = IF x \in Members(u) THEN 1 ELSE 0

\* An OrderedSet and an OrderedSet below it list their common members in the same
\* order, the order of addition, although moves and removals edit the two lists
\* separately.
OrdersAgree ==
    \A u \in Ordered, t \in Ordered : u \in Closure[t] =>
        \A i, j \in DOMAIN order[u], k, l \in DOMAIN order[t] :
            /\ {order[u][i], order[u][j]} \cap refused = {}
            /\ order[u][i] = order[t][k] /\ order[u][j] = order[t][l] /\ i < j
            => k < l

\* As long as no add was refused, a loop over a set visits every member once and
\* nothing else, in whatever order data and marks lie in the hash tables.
IterationExact ==
    refused = {} =>
        \A s \in Sets : \A w \in Walks[s] :
            /\ {w[i] : i \in DOMAIN w} = Members(s)
            /\ Len(w) = Cardinality(Members(s))

\* clear() ends with no member left at or below the set and size() zero, whether
\* front() ended it at an empty list or at a set without data and marks.
OrderedClearLeavesEmpty ==
    [][OrderedClearEnd => Members(clearing) = {} /\ size[clearing] = 0]_orderedVars

\* clear() of a Set or an OrderedSet is cut short only after an add was refused.
ClearThrowsOnlyAfterRefusal == [][OrderedClearThrows => refused # {}]_orderedVars

=============================================================================
