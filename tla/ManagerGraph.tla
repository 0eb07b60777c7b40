---------------------------- MODULE ManagerGraph ----------------------------
(***************************************************************************)
(* The graph of a Manager (manager/manager.h): the nodes of its elements   *)
(* (manager/managerNode.h), the ManagedPtrs registered in them             *)
(* (managedPtr.h), and the file of each element that has been released     *)
(* (policies/filePersistencePolicy.h, parse and emit of one element in     *)
(* policies/yamlSerializationPolicy.h).                                    *)
(*                                                                         *)
(* Every element has one Set, without opposite, of other elements.  A      *)
(* ManagedPtr is a handle of the client or a slot, the m_data entry of     *)
(* such a set; a slot is named by its owner and the element it points to.  *)
(* Pointers that live only inside one call are left out: a call ends with  *)
(* none of them registered.                                                *)
(*                                                                         *)
(* The client does not add an element to its own set, and does not assign  *)
(* to a handle whose element has been released (ClientAssigns).            *)
(***************************************************************************)
EXTENDS Integers, FiniteSets

CONSTANTS
    Ids,        \* the ids that create() may draw
    Handles,    \* the ManagedPtr variables of the client
    NoId,       \* ID::nullID(), or an id whose node is gone
    Keeps       \* TRUE: the client keeps a pointer to every released element

ASSUME IdsAssumption == NoId \notin Ids
ASSUME KeepsAssumption == Keeps \in BOOLEAN

VARIABLES
    graph,      \* m_graph: the ids that have a node
    loaded,     \* the nodes with an m_ptr, an element in memory
    content,    \* content[a]: the ids in the set of element a, {} if not loaded
    refs,       \* refs[a]: the ids in the m_references of node a
    stale,      \* stale[a]: those whose m_sets has a set of an a since released
    slots,      \* slots[a]: the owners of the slots in the m_ptrs of node a
    handles,    \* handles[a]: the handles in the m_ptrs of node a
    target,     \* target[h]: the m_id of handle h
    saved,      \* the ids that have a file
    file,       \* file[a]: the ids in the file of a, {} if it has none
    live,       \* the elements created and not erased
    erased      \* the elements erased

vars == <<graph, loaded, content, refs, stale, slots, handles, target,
          saved, file, live, erased>>

-----------------------------------------------------------------------------
(* Effects shared by the operations *)

\* The slots that loading the elements of L makes, as pairs of owner and element.
SlotsOf(L) == {n \in L \X Ids : n[2] \in file[n[1]]}

\* Fault: only the owner's node gets a reference.
OneSided(N) == [x \in Ids |-> refs[x] \cup {y \in Ids : <<x, y>> \in N}]

\* setReference: both nodes get a reference to the other.
Referenced(N) ==
    [x \in Ids |-> refs[x] \cup {y \in Ids : <<x, y>> \in N \/ <<y, x>> \in N}]

\* The elements of L come into memory and the slots of N into their owners' sets.
Attach(L, N) ==
    /\ graph' = graph \cup L \cup {n[2] : n \in N}
    /\ loaded' = loaded \cup L
    /\ content' = [a \in Ids |-> content[a] \cup {x \in Ids : <<a, x>> \in N}]
    /\ slots' = [x \in Ids |-> slots[x] \cup {a \in Ids : <<a, x>> \in N}]
    /\ refs' = Referenced(N)

\* Fault: a node that goes is not taken out of the references of the others.
RefsKept(r, D) == [x \in Ids |-> IF x \in D THEN {} ELSE r[x]]

\* The references r without the nodes of D, which take themselves out of the
\* references of the nodes they reference (~ManagerNode).
Without(r, D) == [x \in Ids |-> IF x \in D THEN {} ELSE r[x] \ D]

\* Fault: a node in use by its element goes with its last pointer.
DesertedLoaded(X, s, p) == {x \in X : s[x] = {} /\ p[x] = {}}

\* Fault: the handles on a node do not count.
DesertedBySlots(X, s, p) == {x \in X : x \notin loaded /\ s[x] = {}}

\* removePtr: of the nodes of X, those left by their last pointer, if their element
\* is not in memory, leave the graph.
Deserted(X, s, p) == {x \in X : x \notin loaded /\ s[x] = {} /\ p[x] = {}}

\* A client that Keeps leaves a pointer to every element that is not in memory.
ClientKeeps ==
    Keeps => /\ graph \subseteq graph'
             /\ \A x \in graph' \ loaded' : slots'[x] \cup handles'[x] # {}

-----------------------------------------------------------------------------

Init ==
    /\ graph = {} /\ loaded = {} /\ saved = {} /\ live = {} /\ erased = {}
    /\ content = [a \in Ids |-> {}]
    /\ refs = [a \in Ids |-> {}]
    /\ stale = [a \in Ids |-> {}]
    /\ slots = [a \in Ids |-> {}]
    /\ handles = [a \in Ids |-> {}]
    /\ target = [h \in Handles |-> NoId]
    /\ file = [a \in Ids |-> {}]

\* create(): a new element with a fresh random id, and a handle on it.
Create(h, a) ==
    /\ target[h] = NoId
    /\ a \notin live \cup erased
    /\ graph' = graph \cup {a}
    /\ loaded' = loaded \cup {a}
    /\ live' = live \cup {a}
    /\ handles' = [handles EXCEPT ![a] = @ \cup {h}]
    /\ target' = [target EXCEPT ![h] = a]
    /\ UNCHANGED <<content, refs, stale, slots, saved, file, erased>>

\* get(a) into h; a is read from its file if it is not in memory.
Get(h, a) ==
    LET L == {a} \ loaded IN
    /\ target[h] = NoId
    /\ L \subseteq saved
    /\ a \in loaded \cup saved
    /\ Attach(L, SlotsOf(L))
    /\ handles' = [handles EXCEPT ![a] = @ \cup {h}]
    /\ target' = [target EXCEPT ![h] = a]
    /\ UNCHANGED <<stale, saved, file, live, erased>>

\* aquire(), or the first use of a handle whose element has been released.
Aquire(h) ==
    /\ target[h] \in saved \ loaded
    /\ Attach({target[h]}, SlotsOf({target[h]}))
    /\ UNCHANGED <<stale, handles, target, saved, file, live, erased>>

\* reassignPtr leaves the old node only if its element is in memory.
ClientAssigns(h) == target[h] \in loaded \cup {NoId}

\* h = g, for a handle or slot g on a, or a null one.
Assign(h, a) ==
    /\ ClientAssigns(h)
    /\ a = NoId \/ a \in {target[g] : g \in Handles} \cup UNION {content[b] : b \in Ids}
    /\ handles' = [x \in Ids |->
           (IF x = target[h] /\ x \in loaded THEN handles[x] \ {h} ELSE handles[x])
               \cup (IF x = a THEN {h} ELSE {})]
    /\ target' = [target EXCEPT ![h] = a]
    /\ UNCHANGED <<graph, loaded, content, refs, stale, slots, saved, file, live, erased>>

\* The destructor of h.
Drop(h) ==
    LET a == target[h]
        p == [handles EXCEPT ![a] = @ \ {h}]
        D == Deserted({a}, slots, p)
    IN  /\ a # NoId
        /\ handles' = p
        /\ target' = [target EXCEPT ![h] = NoId]
        /\ graph' = graph \ D
        /\ refs' = Without(refs, D)
        /\ stale' = Without(stale, D)
        /\ UNCHANGED <<loaded, content, slots, saved, file, live, erased>>
        /\ ClientKeeps

\* a.add(b): the slot and the references, then the use of b by the add policies
\* loads it.  (When no file is found for b this throws, the slot stays.  When b is
\* in the set already the first allocatePtr throws: no change.)
Add(a, b) ==
    LET L == ({b} \ loaded) \cap saved IN
    /\ a \in loaded /\ a # b
    /\ \E h \in Handles : target[h] = b
    /\ b \notin content[a]
    /\ Attach(L, {<<a, b>>} \cup SlotsOf(L))
    /\ UNCHANGED <<stale, handles, target, saved, file, live, erased>>

\* add(ID): without policies, so b stays as it is; createPtr makes it a node.
AddId(a, b) ==
    /\ a \in loaded /\ a # b
    /\ b \in live
    /\ b \notin content[a]
    /\ Attach({}, {<<a, b>>})
    /\ UNCHANGED <<stale, handles, target, saved, file, live, erased>>

\* Fault: references are never given up.
ReferencesStay(a, b) == refs

\* Fault: the other side is not asked.
OneSideDecides(a, b) ==
    IF b \in stale[a] THEN refs ELSE [refs EXCEPT ![a] = @ \ {b}, ![b] = @ \ {a}]

\* Fault: the sets of released elements do not count.
StaleIgnored(a, b) ==
    IF a \in content[b] THEN refs ELSE [refs EXCEPT ![a] = @ \ {b}, ![b] = @ \ {a}]

\* removeReference: both references go once no set is left in either.
Unreferenced(a, b) ==
    IF b \in stale[a] \/ a \in content[b] \cup stale[b]
    THEN refs
    ELSE [refs EXCEPT ![a] = @ \ {b}, ![b] = @ \ {a}]

\* a.remove(b), which does not bring b into memory.
Remove(a, b) ==
    LET s == [slots EXCEPT ![b] = @ \ {a}]
        D == Deserted({b}, s, handles)
    IN  /\ a \in loaded
        /\ b \in content[a]
        /\ content' = [content EXCEPT ![a] = @ \ {b}]
        /\ slots' = s
        /\ graph' = graph \ D
        /\ refs' = Without(Unreferenced(a, b), D)
        /\ stale' = Without(stale, D)
        /\ UNCHANGED <<loaded, handles, target, saved, file, live, erased>>
        /\ ClientKeeps

\* The element of node a is saved and destroyed with its slots; the nodes of D leave
\* the graph.
Unload(a, D) ==
    /\ saved' = saved \cup {a}
    /\ file' = [file EXCEPT ![a] = content[a]]
    /\ loaded' = loaded \ {a}
    /\ content' = [content EXCEPT ![a] = {}]
    /\ slots' = [x \in Ids |-> slots[x] \ {a}]
    /\ graph' = graph \ D
    /\ refs' = Without(refs, D)
    /\ stale' = Without([stale EXCEPT ![a] = @ \cup content[a]], D)
    /\ UNCHANGED <<handles, target, live, erased>>

\* Manager::release: the slots of a die under m_destructionFlag, which keeps the
\* nodes they leave; then node a goes if no pointer is left on it.
ReleaseElement(a) ==
    /\ a \in loaded
    /\ Unload(a, {x \in {a} : slots[x] = {} /\ handles[x] = {}})
    /\ ClientKeeps

\* ManagedPtr::release on h holds the element until Manager::release has returned:
\* h keeps the node, and the slots die when the flag is down again.
ReleaseHandle(h) ==
    LET a == target[h] IN
    /\ a \in loaded
    /\ Unload(a, Deserted(content[a], [x \in Ids |-> slots[x] \ {a}], handles))
    /\ ClientKeeps

\* erase(b): its file goes, the elements it has references to are loaded and lose b,
\* and its node and element go.  Handles on b have no node any more.
Erase(b) ==
    LET L == refs[b] \ loaded
        N == SlotsOf(L)
    IN  /\ b \in loaded
        /\ L \subseteq saved
        /\ saved' = saved \ {b}
        /\ file' = [file EXCEPT ![b] = {}]
        /\ graph' = (graph \cup {n[2] : n \in N}) \ {b}
        /\ loaded' = (loaded \cup L) \ {b}
        /\ content' = [a \in Ids |->
               IF a = b THEN {}
               ELSE IF a \in refs[b] THEN (content[a] \cup {x \in Ids : <<a, x>> \in N}) \ {b}
               ELSE content[a]]
        /\ slots' = [x \in Ids |->
               IF x = b THEN {} ELSE (slots[x] \cup {a \in Ids : <<a, x>> \in N}) \ {b}]
        /\ refs' = Without(Referenced(N), {b})
        /\ stale' = Without(stale, {b})
        /\ handles' = [handles EXCEPT ![b] = {}]
        /\ target' = [h \in Handles |-> IF target[h] = b THEN NoId ELSE target[h]]
        /\ live' = live \ {b}
        /\ erased' = erased \cup {b}

\* erase(b) when an element it has a reference to has no file: it throws after the
\* file of b is gone and some of the others, L, have been loaded.
EraseThrows(b) ==
    /\ b \in loaded
    /\ ~(refs[b] \ loaded \subseteq saved)
    /\ \E L \in SUBSET ((refs[b] \ loaded) \cap saved) : Attach(L, SlotsOf(L))
    /\ saved' = saved \ {b}
    /\ file' = [file EXCEPT ![b] = {}]
    /\ UNCHANGED <<stale, handles, target, live, erased>>

Next ==
    \/ \E h \in Handles : \/ Drop(h)
                          \/ Aquire(h)
                          \/ ReleaseHandle(h)
                          \/ Assign(h, NoId)
                          \/ \E a \in Ids : Create(h, a) \/ Get(h, a) \/ Assign(h, a)
    \/ \E a \in Ids : \/ ReleaseElement(a)
                      \/ Erase(a)
                      \/ EraseThrows(a)
                      \/ \E b \in Ids : Add(a, b) \/ AddId(a, b) \/ Remove(a, b)

Spec == Init /\ [][Next]_vars

-----------------------------------------------------------------------------
(* What is true for every client *)

\* Every variable keeps its type.
TypeOK ==
    /\ graph \subseteq Ids /\ loaded \subseteq graph
    /\ saved \subseteq Ids /\ live \subseteq Ids /\ erased \subseteq Ids
    /\ content \in [Ids -> SUBSET Ids]
    /\ refs \in [Ids -> SUBSET Ids]
    /\ stale \in [Ids -> SUBSET Ids]
    /\ slots \in [Ids -> SUBSET Ids]
    /\ handles \in [Ids -> SUBSET Handles]
    /\ target \in [Handles -> Ids \cup {NoId}]
    /\ file \in [Ids -> SUBSET Ids]

\* References are mutual and between nodes of the graph, so the lock() that
\* ~ManagerNode, release() and erase() dereference unchecked is never empty
\* (managerNode.h:67, manager.h:258, 287).
ReferencesMutual ==
    \A x, y \in Ids : y \in refs[x] => x \in refs[y] /\ {x, y} \subseteq graph

\* A node's m_ptrs are exactly the pointers on it: loading it reaches all of them and
\* writes to no other (manager.h:129-134), and it stays while there is one.
PointersExact ==
    \A x \in Ids : /\ handles[x] = {h \in Handles : target[h] = x}
                   /\ slots[x] = {a \in loaded : x \in content[a]}
                   /\ slots[x] \cup handles[x] # {} => x \in graph

\* An element in a set has a reference from its owner: remove finds the reference it
\* dereferences and erase finds the sets to clean.
HeldIsReferenced == \A a \in Ids : content[a] \subseteq refs[a]

\* A reference has a set behind it, on one side or the other.
ReferenceHasSet ==
    \A x, y \in Ids : y \in refs[x] =>
        y \in content[x] \cup stale[x] \/ x \in content[y] \cup stale[y]

\* The set of a, in memory or in the file of a.
Held(a) == IF a \in loaded THEN content[a] ELSE file[a]

\* An erased element leaves every set: erase() goes through the references and loads
\* those whose "element has been released" (manager.h:287-291).
ErasedIsForgotten == \A x \in erased : \A a \in Ids : x \notin Held(a)

-----------------------------------------------------------------------------
(* What is true for a client that keeps a pointer to every released element *)

\* erase() can load every element it has to: it does not stop half way, with the file
\* gone and the element still there.
EraseNeverThrows == \A b \in loaded : refs[b] \ loaded \subseteq saved

\* The elements and their sets, wherever they are: the refinement mapping.
Promise == INSTANCE ElementPool WITH pool <- [a \in Ids |-> Held(a)]

\* Releasing, loading and pointing do not show, and an erased element leaves every
\* set, those of released elements included.
ImplementsElementPool == Promise!Spec

=============================================================================
