------------------------------ MODULE SetTopology ------------------------------
(***************************************************************************)
(* How the relations between the sets of an element come about and go      *)
(* (set/abstractSet.h).  While an element is constructed each class of its *)
(* hierarchy says in init() which sets subset and redefine which others    *)
(* and which own what they hold.  Sets that redefine each other form a     *)
(* group with one root, m_rootRedefinedSet.  The edges between sets are    *)
(* kept at the roots: subsets() looks up the roots on both sides, and      *)
(* redefines() moves the edges of the old root to the new one.  When the   *)
(* element dies every set takes itself out of the others.                  *)
(*                                                                         *)
(* The calls come in any order in which a set redefines others before it   *)
(* is itself redefined, as a class hierarchy does that is constructed base *)
(* classes first.                                                          *)
(***************************************************************************)
EXTENDS FiniteSets

CONSTANTS
    AllSets,            \* the sets of the element, redefined ones included
    SubsetsCalls,       \* the pairs <<s, t>> with s.subsets(t) in some init()
    RedefinesCalls,     \* the pairs <<s, t>> with s.redefines(t)
    CompositionCalls,   \* the pairs <<s, c>> with s.setComposition(c)
    NullSet             \* a null m_rootRedefinedSet

Compositions == {"COMPOSITE", "ANTI_COMPOSITE", "NONE"}

ASSUME CallsAssumption ==
    /\ IsFiniteSet(AllSets) /\ NullSet \notin AllSets
    /\ SubsetsCalls \subseteq AllSets \X AllSets
    /\ RedefinesCalls \subseteq AllSets \X AllSets
    /\ CompositionCalls \subseteq AllSets \X (Compositions \ {"NONE"})

VARIABLES
    supers,         \* supers[s]: m_superSets
    subs,           \* subs[s]: m_subSets
    redefined,      \* redefined[s]: m_redefinedSets
    root,           \* root[s]: m_rootRedefinedSet
    comp,           \* comp[s]: m_composition
    made,           \* the calls made so far: <<"subsets", s, t>> and so on
    alive           \* the sets not yet destroyed

topologyVars == <<supers, subs, redefined, root, comp, made, alive>>

Calls ==
    {<<"subsets", p[1], p[2]>> : p \in SubsetsCalls}
        \cup {<<"redefines", p[1], p[2]>> : p \in RedefinesCalls}
        \cup {<<"composition", p[1], p[2]>> : p \in CompositionCalls}

-----------------------------------------------------------------------------
(* Moving and dropping edges; over is supers or subs, back the other one *)

\* Fault: the sets at the other end of the moved edges still name the old root.
RepointedNot(over, back, s, r) == over

\* Every set at the other end of an edge of r now has the edge to s.
Repointed(over, back, s, r) ==
    [x \in AllSets |-> IF x \in back[r] THEN (over[x] \ {r}) \cup {s} ELSE over[x]]

\* The edges of r become edges of s.
Moved(over, back, s, r) ==
    [x \in AllSets |->
        IF x = r THEN {}
        ELSE Repointed(over, back, s, r)[x] \cup IF x = s THEN over[r] ELSE {}]

\* Fault: only the destroyed set forgets its edges.
DroppedHere(over, back, s) == [over EXCEPT ![s] = {}]

\* The destroyed s is looked for at the other end under the name of its root.
Dropped(over, back, s) ==
    [x \in AllSets |->
        IF x = s THEN {} ELSE IF x \in back[s] THEN over[x] \ {root[s]} ELSE over[x]]

\* Fault: the sets that r had redefined keep r as their root.
GroupOnlyRoot(s, r) == {r, s}

\* The sets that have root s once s has redefined a set with root r.
Group(s, r) == redefined[r] \cup {r, s}

\* Fault: a redefining set does not take over the composition.
CompositionNotInherited(s, t) ==
    IF comp[s] # "NONE" THEN [comp EXCEPT ![t] = comp[s]] ELSE comp

\* The composition of s goes to t, or that of the root of t to s.
CompositionRedefined(s, t) ==
    IF comp[s] # "NONE" THEN [comp EXCEPT ![t] = comp[s]]
    ELSE [comp EXCEPT ![s] = comp[root[t]]]

-----------------------------------------------------------------------------

TopologyInit ==
    /\ supers = [s \in AllSets |-> {}]
    /\ subs = [s \in AllSets |-> {}]
    /\ redefined = [s \in AllSets |-> {}]
    /\ root = [s \in AllSets |-> s]
    /\ comp = [s \in AllSets |-> "NONE"]
    /\ made = {}
    /\ alive = AllSets

Subsets(s, t) ==
    /\ alive = AllSets
    /\ <<"subsets", s, t>> \in Calls \ made
    /\ supers' = [supers EXCEPT ![root[s]] = @ \cup {root[t]}]
    /\ subs' = [subs EXCEPT ![root[t]] = @ \cup {root[s]}]
    /\ comp' = IF comp[root[t]] = "NONE" THEN comp
               ELSE [comp EXCEPT ![root[s]] = comp[root[t]]]
    /\ made' = made \cup {<<"subsets", s, t>>}
    /\ UNCHANGED <<redefined, root, alive>>

\* What the order of construction and a sensible init() guarantee: s has not been
\* redefined yet, and t is not in its group already.
ClientRedefines(s, t) == root[s] = s /\ root[t] # s

Redefines(s, t) ==
    /\ alive = AllSets
    /\ <<"redefines", s, t>> \in Calls \ made
    /\ ClientRedefines(s, t)
    /\ LET r == root[t] IN
        /\ supers' = Moved(supers, subs, s, r)
        /\ subs' = Moved(subs, supers, s, r)
        /\ redefined' = [x \in AllSets |->
               IF x = r THEN {}
               ELSE IF x = s THEN redefined[s] \cup redefined[r] \cup {r}
               ELSE IF x \in redefined[r] THEN (redefined[x] \ {r}) \cup {s}
               ELSE redefined[x]]
        /\ root' = [x \in AllSets |-> IF x \in Group(s, r) THEN s ELSE root[x]]
    /\ comp' = CompositionRedefined(s, t)
    /\ made' = made \cup {<<"redefines", s, t>>}
    /\ UNCHANGED alive

\* Before another set redefines s: afterwards the call would not reach the root.
SetComposition(s, c) ==
    /\ alive = AllSets
    /\ <<"composition", s, c>> \in Calls \ made
    /\ root[s] = s
    /\ comp' = [comp EXCEPT ![s] = c]
    /\ made' = made \cup {<<"composition", s, c>>}
    /\ UNCHANGED <<supers, subs, redefined, root, alive>>

\* ~AbstractSet, in the reverse order of construction: the sets that subset or
\* redefine s are gone.
Destroy(s) ==
    /\ made = Calls
    /\ s \in alive
    /\ \A x \in alive \ {s} : <<x, s>> \notin SubsetsCalls \cup RedefinesCalls
    /\ supers' = Dropped(supers, subs, s)
    /\ subs' = Dropped(subs, supers, s)
    /\ redefined' = [redefined EXCEPT ![s] = {}]
    /\ root' = [x \in AllSets |-> IF x \in redefined[s] \cup {s} THEN NullSet ELSE root[x]]
    /\ alive' = alive \ {s}
    /\ UNCHANGED <<comp, made>>

Declare ==
    \E s \in AllSets :
        \/ \E t \in AllSets : Subsets(s, t) \/ Redefines(s, t)
        \/ \E c \in Compositions : SetComposition(s, c)

TopologyNext == Declare \/ \E s \in AllSets : Destroy(s)

TopologySpec == TopologyInit /\ [][TopologyNext]_topologyVars

-----------------------------------------------------------------------------

TopologyTypeOK ==
    /\ supers \in [AllSets -> SUBSET AllSets]
    /\ subs \in [AllSets -> SUBSET AllSets]
    /\ redefined \in [AllSets -> SUBSET AllSets]
    /\ root \in [AllSets -> AllSets \cup {NullSet}]
    /\ comp \in [AllSets -> Compositions]
    /\ made \subseteq Calls
    /\ alive \subseteq AllSets

\* Whatever the order of the calls, the edges are those declared so far, taken
\* between the roots of their ends: no edge is lost in a move, none stays at a set
\* that is no longer a root, and both ends know it.
GraphAsDeclared ==
    alive = AllSets =>
        \A r \in AllSets, u \in AllSets :
            LET declared == \E s \in AllSets, t \in AllSets :
                    /\ <<"subsets", s, t>> \in made
                    /\ root[s] = r /\ root[t] = u
            IN  (u \in supers[r] <=> declared) /\ (r \in subs[u] <=> declared)

\* Sets related by redefinition have one root, that root is its own, and it knows
\* all the sets it stands for: add, remove and contains on any of them are
\* forwarded to the same data.
OneRootPerGroup ==
    alive = AllSets =>
        /\ \A s \in AllSets, t \in AllSets :
               <<"redefines", s, t>> \in made => root[s] = root[t]
        /\ \A s \in AllSets :
               /\ root[root[s]] = root[s]
               /\ redefined[root[s]] = {t \in AllSets : root[t] = root[s]} \ {root[s]}

\* A group that was given a composition has one at its root, where serialization
\* looks (getComposition): redefinition does not turn owned elements into references.
CompositionKept ==
    alive = AllSets => \A s \in AllSets : comp[s] # "NONE" => comp[root[s]] # "NONE"

\* While the sets of an element are destroyed one after the other, those that are
\* left do not refer to one that is gone as superset, subset or root.
NoDanglingEdges ==
    \A s \in alive : supers[s] \cup subs[s] \cup ({root[s]} \ {NullSet}) \subseteq alive

=============================================================================
