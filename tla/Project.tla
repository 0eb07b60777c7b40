-------------------------------- MODULE Project --------------------------------
(***************************************************************************)
(* A whole project: saved to one file, lost with the process, opened again *)
(* (Manager::save and open, manager/manager.h; SerializedStoragePolicy),   *)
(* with the document that emitWhole writes and parseWhole reads            *)
(* (policies/yamlSerializationPolicy.h), and the flag that keeps the add   *)
(* policies of the sets from running before all of the document is in      *)
(* memory (manager/abstractManager.h).                                     *)
(*                                                                         *)
(* An element has a composite Set "owned", its opposite, the Singleton     *)
(* "owner", and a Set "uses" without opposite; the Sets have add policies. *)
(* A link <<a, f, b>> is an element b in the set f of a.                   *)
(*                                                                         *)
(* Elements are not released (ManagerGraph, Opposites).  The file may be   *)
(* torn by a crash, or edited from outside: what is wrong with it stops    *)
(* parseWhole above parse_composite_node (OpenRefused), or in the node of  *)
(* an element, the damage.                                                 *)
(***************************************************************************)
EXTENDS Integers, FiniteSets

CONSTANTS
    Ids,        \* the ids of elements
    NoElem,     \* a null pointer
    MaxUses     \* bound: links in "uses", in memory and in the file

ASSUME NoElemAssumption == NoElem \notin Ids

VARIABLES
    loaded,     \* the elements in memory
    data,       \* the links in memory
    policies,   \* m_runPolicies
    file,       \* the project file: the document saved last
    damage,     \* what is wrong with it as it is opened
    phase,      \* "idle", or where open() is
    entered,    \* parsing: the elements created for nodes of the document,
    left,       \* those of them that are complete,
    read,       \* and those whose "uses" are read
    ran,        \* history: the links whose add policy has run,
    twice,      \* and run again
    refused,    \* history: the last open() was refused above parse_composite_node
    failed,     \* history: an open() of this process has failed
    replaced    \* history: elements in memory that open() has replaced

memory == <<loaded, data>>
parsing == <<phase, damage, entered, left, read>>
history == <<refused, failed, replaced>>
vars == <<memory, policies, file, parsing, ran, twice, history>>

-----------------------------------------------------------------------------

Features == {"owned", "owner", "uses"}

Links == Ids \X Features \X Ids

Documents == [root : Ids \cup {NoElem}, links : SUBSET Links]

NoDocument == [root |-> NoElem, links |-> {}]

\* The elements with a node in the document d.
Nodes(d) == {d.root} \cup {l[3] : l \in {k \in d.links : k[2] = "owned"}}

\* The links of the elements of S.
Of(L, S) == {l \in L : l[1] \in S}

\* The elements below r in its composite sets, with r.
Below(r, L) ==
    {n \in Ids : \A C \in SUBSET Ids :
        r \in C /\ (\A l \in L : l[2] = "owned" /\ l[1] \in C => l[3] \in C) => n \in C}

\* Fault: the opposite is left out.
OneEnd(T) == T

\* The links T and what their opposites add.
BothEnds(T) == T \cup {<<l[3], "owner", l[1]>> : l \in {k \in T : k[2] = "owned"}}

\* Fault: the composition of a set is not looked at.
EmittedAll(r) == [root |-> r, links |-> Of(data, Below(r, data))]

\* emitWhole: the sets of the elements below r, without "owner" (ANTI_COMPOSITE).
Emitted(r) == [root |-> r, links |-> {l \in Of(data, Below(r, data)) : l[2] # "owner"}]

\* What a crash may leave of a document.
Parts(d) ==
    {p \in [root : {d.root}, links : SUBSET d.links] : \A l \in p.links : l[1] \in Below(p.root, p.links)}

\* Fault: the flag stays as it is.
StillEnabled(p) == p

\* disablePolicies.
Disabled(p) == FALSE

\* Fault: an exception leaves the flag off.
NotReenabled(p) == p

\* enablePolicies, on the exceptions that parse_composite_node sees.
Reenabled(p) == TRUE

\* Fault: what the element that is replaced had stays.
SetsMerged(L, n) == L

\* Fault: the sets that name the element that is replaced give it up.
NamesCleared(L, n) == {l \in L : l[1] # n /\ l[3] # n}

\* reindex to the id of an element in memory: its sets go with it, pointers to it stay.
Replace(L, n) == {l \in L : l[1] # n}

\* Fault: the root is not restored.
ChildrenOnly(r) == left

\* parsed_elements: the root r from the start, the others when they are complete.
ParsedElements(r) == left \cup ({r} \cap entered)

\* runAddPolicy for the links T just made.
RunsAdd(T) ==
    /\ ran' = IF policies THEN ran \cup T ELSE ran
    /\ twice' = IF policies THEN twice \cup (T \cap ran) ELSE twice

\* restore_el of the elements of S: the policies of its links to what is in memory.
Restored(S) == {l \in Of(data, S) : l[2] # "owner" /\ l[3] \in loaded}

ToRestore == Restored(ParsedElements(file.root))

-----------------------------------------------------------------------------
(* The client, between two calls of open().                                *)

Init ==
    /\ loaded = {} /\ data = {} /\ policies = TRUE
    /\ file = NoDocument
    /\ phase = "idle" /\ damage = "none" /\ entered = {} /\ left = {} /\ read = {}
    /\ ran = {} /\ twice = {}
    /\ refused = FALSE /\ failed = FALSE /\ replaced = {}

\* A new element, with a random id.
Create(n) ==
    /\ phase = "idle"
    /\ n \notin loaded \cup Nodes(file)
    /\ \A l \in data \cup file.links : l[3] # n
    /\ loaded' = loaded \cup {n}
    /\ UNCHANGED <<data, policies, file, parsing, ran, twice, history>>

\* Both ends of b's ownership agree: the other cases are in Opposites.
Agrees(b) == \A a \in Ids : <<a, "owned", b>> \in data <=> <<b, "owner", a>> \in data

\* The client adds a link of elements in memory that is not there, and no ownership cycle.
ClientAdds(l) ==
    /\ l[1] \in loaded /\ l[3] \in loaded /\ l \notin data
    /\ l[2] = "owned" => Agrees(l[3]) /\ l[1] \notin Below(l[3], data)
    /\ l[2] = "uses" => l[1] # l[3] /\ Cardinality({k \in data \cup file.links : k[2] = "uses"} \ {l}) < MaxUses

\* The ownership that b's Singleton gives up for a new owner, both ends.
GivenUp(l) ==
    {k \in data : l[2] = "owned" /\ ((k[2] = "owned" /\ k[3] = l[3]) \/ (k[2] = "owner" /\ k[1] = l[3]))}

\* Set::add.
Add(l) ==
    /\ phase = "idle" /\ l[2] # "owner"
    /\ ClientAdds(l)
    /\ data' = (data \ GivenUp(l)) \cup BothEnds({l})
    /\ ran' = (ran \ GivenUp(l)) \cup (IF policies THEN {l} ELSE {})
    /\ twice' = twice \ GivenUp(l)
    /\ UNCHANGED <<loaded, policies, file, parsing, history>>

\* Set::remove.
Remove(l) ==
    /\ phase = "idle" /\ l[2] # "owner"
    /\ l \in data /\ l[3] \in loaded /\ (l[2] = "owned" => Agrees(l[3]))
    /\ data' = data \ BothEnds({l})
    /\ ran' = ran \ {l}
    /\ twice' = twice \ {l}
    /\ UNCHANGED <<loaded, policies, file, parsing, history>>

-----------------------------------------------------------------------------
(* The project file.                                                       *)

\* The client saves a tree: emitWhole recurses through the composite sets.
ClientSaves(r) ==
    /\ r \in loaded
    /\ \A k, l \in Of(data, Below(r, data)) :
        k[2] = "owned" /\ l[2] = "owned" /\ k[3] = l[3] => k = l
    /\ \A l \in data : ~(l[2] = "owned" /\ l[3] = r /\ l[1] \in Below(r, data))

\* setRoot and save().
Save(r) ==
    /\ phase = "idle" /\ ClientSaves(r)
    /\ file' = Emitted(r)
    /\ UNCHANGED <<memory, policies, parsing, ran, twice, history>>

\* The process is gone, with all it had in memory.
Lost ==
    /\ loaded' = {} /\ data' = {} /\ policies' = TRUE
    /\ phase' = "idle" /\ damage' = "none" /\ entered' = {} /\ left' = {} /\ read' = {}
    /\ ran' = {} /\ twice' = {}
    /\ refused' = FALSE /\ failed' = FALSE /\ replaced' = {}

\* A process ends, or crashes, and another one starts.
Restart == Lost /\ UNCHANGED file

\* A crash in the middle of saveProjectData: the file is truncated, and holds a part of
\* the document (or what is no document, as OpenRefused may find it).
CrashInSave(r) ==
    /\ phase = "idle" /\ ClientSaves(r)
    /\ file' \in Parts(Emitted(r))
    /\ Lost

-----------------------------------------------------------------------------
(* open(): loadAll, parseWhole, setRoot.  The file may be torn, or edited  *)
(* from outside, at any time before.                                       *)

\* LoadAll throws, or finds no document: the flag is off.
OpenRefused ==
    /\ phase = "idle" /\ file # NoDocument
    /\ policies' = Disabled(policies)
    /\ refused' = TRUE /\ failed' = TRUE
    /\ UNCHANGED <<memory, file, parsing, ran, twice, replaced>>

\* The root is no map, as in a file cut after its name: open() returns a null pointer.
OpenFindsNothing ==
    /\ phase = "idle" /\ file # NoDocument
    /\ policies' = Reenabled(Disabled(policies))
    /\ refused' = FALSE
    /\ UNCHANGED <<memory, file, parsing, ran, twice, failed, replaced>>

OpenBegins ==
    /\ phase = "idle" /\ file # NoDocument
    /\ policies' = Disabled(policies)
    /\ phase' = "parsing" /\ damage' \in Nodes(file) \cup {"none"}
    /\ UNCHANGED <<memory, file, entered, left, read, ran, twice, history>>

\* open() returns or throws: parsed_elements is of no more use.
Ends ==
    /\ phase' = "idle" /\ damage' = "none" /\ entered' = {} /\ left' = {} /\ read' = {}
    /\ refused' = FALSE

\* n is the innermost node being parsed.
Parsing(n) ==
    /\ phase = "parsing" /\ n \in entered \ left
    /\ \A l \in file.links : l[1] = n /\ l[2] = "owned" => l[3] \notin entered \ left

\* The parser comes to the node of n next: the root, or one in the set "owned" of the
\* innermost node.  (The order in a set is that of an unordered_set.)
ComesTo(n) ==
    /\ phase = "parsing" /\ n \notin entered
    /\ \/ n = file.root
       \/ \E a \in entered : Parsing(a) /\ <<a, "owned", n>> \in file.links

\* create and setID: a new element, that takes the place of one in memory.
Enter(n) ==
    /\ ComesTo(n)
    /\ entered' = entered \cup {n}
    /\ loaded' = loaded \cup {n}
    /\ data' = Replace(data, n)
    /\ ran' = Replace(ran, n) /\ twice' = Replace(twice, n)
    /\ replaced' = IF n \in loaded THEN replaced \cup {n} ELSE replaced
    /\ UNCHANGED <<policies, file, damage, phase, left, read, refused, failed>>

\* addToSet by id: a pointer to what need not be in memory, without policy and opposite.
ReadUses(n) ==
    /\ Parsing(n) /\ n \notin read
    /\ read' = read \cup {n}
    /\ data' = data \cup {l \in Of(file.links, {n}) : l[2] = "uses"}
    /\ UNCHANGED <<loaded, policies, file, damage, phase, entered, left, ran, twice, history>>

\* Every set of n is read.
Complete(n) ==
    /\ Parsing(n) /\ n \in read /\ damage # n
    /\ \A l \in file.links : l[1] = n /\ l[2] = "owned" => l[3] \in left

\* The element of a node of a set is complete: its owner adds it.
Leave(n) ==
    /\ Complete(n) /\ n # file.root
    /\ left' = left \cup {n}
    /\ LET T == {l \in file.links : l[2] = "owned" /\ l[3] = n}
       IN data' = data \cup BothEnds(T) /\ RunsAdd(T)
    /\ UNCHANGED <<loaded, policies, file, damage, phase, entered, read, history>>

\* parseComposite throws in the node of an element: what was parsed stays in memory.
NodeThrows ==
    /\ phase = "parsing" /\ damage \in Ids
    /\ Parsing(damage) \/ ComesTo(damage)
    /\ policies' = Reenabled(policies)
    /\ Ends /\ failed' = TRUE
    /\ UNCHANGED <<memory, file, ran, twice, replaced>>

\* The root is complete: policies are enabled before they are run.
DocumentParsed ==
    /\ Complete(file.root)
    /\ policies' = Reenabled(policies)
    /\ phase' = "restoring"
    /\ UNCHANGED <<memory, file, damage, entered, left, read, ran, twice, history>>

\* Every parsed element is restored; open() sets the root.
Opened ==
    /\ phase = "restoring"
    /\ RunsAdd(ToRestore)
    /\ Ends
    /\ UNCHANGED <<memory, policies, file, failed, replaced>>

\* A policy of the client throws, after those of the elements of S.
PolicyThrows(S) ==
    /\ phase = "restoring" /\ S # ParsedElements(file.root)
    /\ RunsAdd(Restored(S))
    /\ Ends /\ failed' = TRUE
    /\ UNCHANGED <<memory, policies, file, replaced>>

-----------------------------------------------------------------------------

Parse ==
    \/ \E n \in Ids : Enter(n) \/ ReadUses(n) \/ Leave(n)
    \/ NodeThrows
    \/ DocumentParsed
    \/ Opened
    \/ \E S \in SUBSET ParsedElements(file.root) : PolicyThrows(S)

Next ==
    \/ \E n \in Ids : Create(n) \/ Save(n) \/ CrashInSave(n)
    \/ \E l \in Links : Add(l) \/ Remove(l)
    \/ Restart
    \/ OpenRefused \/ OpenFindsNothing \/ OpenBegins
    \/ Parse

Spec == Init /\ [][Next]_vars

-----------------------------------------------------------------------------

TypeOK ==
    /\ loaded \subseteq Ids /\ data \subseteq Links /\ policies \in BOOLEAN
    /\ file \in Documents /\ \A l \in file.links : l[2] # "owner"
    /\ damage \in Ids \cup {"none"}
    /\ phase \in {"idle", "parsing", "restoring"}
    /\ left \subseteq entered /\ read \subseteq entered /\ entered \subseteq loaded
    /\ twice \subseteq ran /\ ran \subseteq data
    /\ refused \in BOOLEAN /\ failed \in BOOLEAN /\ replaced \subseteq loaded

\* When a document is parsed, its elements have in their sets what the file says and
\* nothing else, whatever was in memory before or was left by an open() that failed, and
\* saving them again would write the same document: parseWhole
\* (yamlSerializationPolicy.h:508-525) over reindex (manager.h:89-138), against emitWhole.
ParsedIsSaved ==
    phase = "restoring" =>
        /\ Nodes(file) \subseteq loaded
        /\ Of(data, Nodes(file)) = BothEnds(file.links)
        /\ ClientSaves(file.root) /\ Emitted(file.root) = file

\* An element is in "owned" of what its "owner" names, and the other way round, but for
\* what was in memory when open() replaced one of the two.
OwnersAgree ==
    \A a, b \in Ids :
        (<<a, "owned", b>> \in data <=> <<b, "owner", a>> \in data) \/ a \in replaced \/ b \in replaced

\* Between calls the add policies are on, unless the last open() was refused above
\* parse_composite_node (yamlSerializationPolicy.h:513-517).
PoliciesOnUnlessRefused == phase = "idle" => (policies <=> ~refused)

\* As long as no open() fails, every link between elements in memory has had its add
\* policy run, once: by the add itself or by restore_el after parsing.
PoliciesRanOnce ==
    ~failed => twice = {} /\ (phase = "idle" => \A l \in data : l[2] # "owner" /\ l[3] \in loaded => l \in ran)

\* While a document is opened, no add policy runs before all of it is in memory: "policies
\* are supposed to be run once all elements are available" (yamlSerializationPolicy.h:511).
PoliciesSeeWhole ==
    [][phase # "idle" /\ ~(ran' \subseteq ran)
        => Nodes(file) \subseteq loaded /\ BothEnds(file.links) \subseteq data]_vars

\* What an open() leaves alone: elements in memory that are not in the document stay, with
\* all their links, those to an element that it replaces included, and the history of
\* their policies, whether it returns or throws (reindex, manager.h:89-138, and the
\* parser's adds, yamlSerializationPolicy.h:247-290, 487-534).
OpenKeepsOthers ==
    [][Parse =>
        /\ loaded \subseteq loaded' /\ loaded' \subseteq loaded \cup Nodes(file)
        /\ \A l \in Links : l[1] \notin Nodes(file) =>
              (l \in data' <=> l \in data) /\ (l \in ran' <=> l \in ran)]_vars

================================================================================
