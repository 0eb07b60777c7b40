------------------------------- MODULE Opposites -------------------------------
(***************************************************************************)
(* Sets and Singletons with opposites (PrivateSet::opposite): an add to a  *)
(* set of one element adds that element to the opposite set of the other,  *)
(* and a remove removes it there (set/privateSet.h, set/singleton.h),      *)
(* while elements are released to files and loaded again                   *)
(* (manager/manager.h, policies/yamlSerializationPolicy.h).                *)
(*                                                                         *)
(* A link <<a, f, b>> is an element b in the set f of a.  The operation on *)
(* the side of a is innerAdd or innerRemove, which keep the reference of   *)
(* a's node to b; what runs on the side of b is nonOppositeAdd or          *)
(* nonOppositeRemove, and the last leaves the reference of b's node.       *)
(*                                                                         *)
(* The sets have no supersets (SubsetSets) and every element has a pointer *)
(* on it, so no node goes (ManagerGraph).  No element is added to a set of *)
(* its own, and no Singleton is set or reset while the element it points   *)
(* to is released: reassignPtr would leave it registered (managedPtr.h:84).*)
(***************************************************************************)
EXTENDS Integers

CONSTANTS
    Elems,      \* the elements
    Features,   \* the sets an element has
    Singletons, \* those that are Singletons
    Opp,        \* Opp[f]: the opposite of f
    Careful     \* TRUE: the client removes from a Set only what is in memory

ASSUME FeaturesAssumption == Singletons \subseteq Features
ASSUME OppAssumption == Opp \in [Features -> Features] /\ \A f \in Features : Opp[Opp[f]] = f
ASSUME CarefulAssumption == Careful \in BOOLEAN

VARIABLES
    loaded,     \* the elements in memory
    data,       \* the links in the m_data of their sets
    file,       \* the links in the files of the others
    held,       \* <<a, f, b>>: f of a is in the m_sets of a's reference to b
    stale,      \* <<a, b>>: the set of an a since released is there
    refs        \* <<a, b>>: b is in the m_references of a's node

vars == <<loaded, data, file, held, stale, refs>>

-----------------------------------------------------------------------------

Links == Elems \X Features \X Elems

\* The same link seen from the opposite.
Rev(t) == <<t[3], Opp[t[2]], t[1]>>

Revs(T) == {Rev(t) : t \in T}

\* The elements linked by T, in both orders.
Pairs(T) == {<<t[1], t[3]>> : t \in T} \cup {<<t[3], t[1]>> : t \in T}

\* The links that loading the elements of L reads.
Read(L) == {t \in file : t[1] \in L}

\* Fault: a Singleton that has a value takes another one.
RivalsIgnored(t, d) == {}

\* The links of d in the Singleton that t is added to.
Rivals(t, d) == {u \in d : t[2] \in Singletons /\ u[1] = t[1] /\ u[2] = t[2]}

\* Fault: the sets of released elements do not count.
StaleIgnored(r, T, h) == {p \in r : p \in Pairs(T) => p \in Pairs(h)}

\* Fault: the reference goes with the set removed from.
OneSetDecides(r, T, h) == r \ Pairs(T)

\* removeReference for the links of T: of the references r those go, on both sides,
\* that have no set left, neither in h nor a stale one.
Unreferenced(r, T, h) ==
    {p \in r : p \in Pairs(T) => p \in Pairs(h) \/ p \in stale \/ <<p[2], p[1]>> \in stale}

\* Fault: the opposite of a removed link stays.
OppositeStays(T) == T

\* The links of T and their opposites.
BothEnds(T) == T \cup Revs(T)

\* The client has the element of a link it takes away in memory.
ClientRemoves(t) == Careful \/ t[2] \in Singletons => t[3] \in loaded

-----------------------------------------------------------------------------

Init ==
    /\ loaded = Elems
    /\ data = {} /\ file = {} /\ held = {} /\ stale = {} /\ refs = {}

\* The elements of L come into memory, by their ids: without opposites.
Loading(L) ==
    /\ loaded' = loaded \cup L
    /\ file' = file \ Read(L)
    /\ UNCHANGED stale

\* What an add of t has done before it runs the opposite: a Singleton has removed the
\* value it had, the link is made, and the add policies have loaded t[3].
Begun(t) == (data \ BothEnds(Rivals(t, data))) \cup Read({t[3]} \ loaded) \cup {t}

BegunHeld(t) == (held \ Rivals(t, data)) \cup Read({t[3]} \ loaded) \cup {t}

BegunRefs(t) ==
    Unreferenced(refs, Rivals(t, data), held \ Rivals(t, data))
        \cup Pairs(Read({t[3]} \ loaded) \cup {t})

\* The value that the opposite of t gives up for it, if it is a Singleton.
Evicted(t) == Rivals(Rev(t), Begun(t)) \ {Rev(t)}

ClientAdds(t) ==
    /\ t[1] \in loaded
    /\ t[1] # t[3]
    /\ \A u \in Rivals(t, data) : u[3] \in loaded /\ Rev(u) \in data
    /\ \A u \in Evicted(t) : u[3] \in loaded

\* The opposite finds t in its set already, or does not find its value's own opposite.
OppositeFails(t) ==
    \/ Opp[t[2]] \notin Singletons /\ Rev(t) \in Begun(t)
    \/ \E u \in Evicted(t) : Rev(u) \notin Begun(t)

\* Set::add or Singleton::set for the link t.  The value that the opposite gives up
\* is removed with its opposite, by innerRemove.  (A Set that has the element throws
\* at once; a Singleton set to its value takes it away and takes it back.)
Add(t) ==
    /\ ClientAdds(t)
    /\ t \notin data
    /\ ~OppositeFails(t)
    /\ Loading({t[3]})
    /\ data' = (Begun(t) \ BothEnds(Evicted(t))) \cup {Rev(t)}
    /\ held' = (BegunHeld(t) \ Evicted(t)) \cup {Rev(t)}
    /\ refs' = Unreferenced(BegunRefs(t), Evicted(t), BegunHeld(t) \ Evicted(t))

\* An add that throws in the opposite has made the link on its own side.
AddThrows(t) ==
    /\ ClientAdds(t)
    /\ t \notin data
    /\ OppositeFails(t)
    /\ Loading({t[3]})
    /\ data' = Begun(t) \ Evicted(t)
    /\ held' = BegunHeld(t)
    /\ refs' = BegunRefs(t)

\* The opposite of a remove runs when the element is in memory.
Removed(t) == IF t[3] \in loaded THEN BothEnds({t}) ELSE {t}

\* Set::remove, or Singleton::set(0).
Remove(t) ==
    /\ t \in data
    /\ ClientRemoves(t)
    /\ Removed(t) \subseteq data
    /\ data' = data \ Removed(t)
    /\ held' = held \ {t}
    /\ refs' = Unreferenced(refs, {t}, held \ {t})
    /\ UNCHANGED <<loaded, file, stale>>

\* A remove, or a Singleton::set, that throws because the opposite does not find the
\* link has taken it away on its own side; the reference stays.
RemoveThrows(t) ==
    /\ t \in data
    /\ ~(Removed(t) \subseteq data)
    /\ data' = data \ {t}
    /\ UNCHANGED <<loaded, file, held, stale, refs>>

\* release(): the sets of a go to its file; references keep naming them.
Release(a) ==
    /\ a \in loaded
    /\ loaded' = loaded \ {a}
    /\ file' = file \cup {t \in data : t[1] = a}
    /\ data' = {t \in data : t[1] # a}
    /\ held' = {t \in held : t[1] # a}
    /\ stale' = stale \cup {<<t[1], t[3]>> : t \in {u \in held : u[1] = a}}
    /\ UNCHANGED refs

\* get(), aquire() or the first use of a.
Load(a) ==
    /\ a \notin loaded
    /\ Loading({a})
    /\ data' = data \cup Read({a})
    /\ held' = held \cup Read({a})
    /\ refs' = refs \cup Pairs(Read({a}))

Next ==
    \/ \E t \in Links : Add(t) \/ AddThrows(t) \/ Remove(t) \/ RemoveThrows(t)
    \/ \E a \in Elems : Release(a) \/ Load(a)

Spec == Init /\ [][Next]_vars

-----------------------------------------------------------------------------
(* What is true for every client *)

\* Every variable keeps its type, and a Singleton holds one element at most.
TypeOK ==
    /\ loaded \subseteq Elems
    /\ data \subseteq Links /\ \A t \in data : t[1] \in loaded
    /\ file \subseteq Links /\ \A t \in file : t[1] \notin loaded
    /\ held \subseteq Links
    /\ stale \subseteq Elems \X Elems /\ refs \subseteq Elems \X Elems
    /\ \A t, u \in data \cup file :
           t[2] \in Singletons /\ u[1] = t[1] /\ u[2] = t[2] => u = t

\* The reference of a node to an element in one of its sets is there, with that set,
\* although nonOppositeRemove leaves references: removeReference dereferences what it
\* finds unchecked (managerNode.h:103), on the next remove.
StoredIsReferenced == data \subseteq held /\ Pairs(data \cup file) \subseteq refs

-----------------------------------------------------------------------------
(* What is true for a client that removes only what is in memory *)

\* "This one will just make sure that the instance it is referencing also has a
\* reference to it" (README.md:24-25), in memory or in a file.
OppositesMutual == \A t \in data \cup file : Rev(t) \in data \cup file

\* No element is in two sets whose opposite is one Singleton: it has one owner.
OneOwner ==
    \A t, u \in data \cup file :
        t[2] = u[2] /\ t[3] = u[3] /\ Opp[t[2]] \in Singletons => t[1] = u[1]

\* The links as the client sees them, in memory or not: the refinement mapping.
Promise == INSTANCE Associations WITH links <- data \cup file

\* Adds and removes at either end change the association and nothing else does.
ImplementsAssociations == Promise!Spec

=============================================================================
