# A verification project for EGM

EGM is a C++ header-only object pool: data types written by a user keep their relations
in sets, a manager creates, loads, releases and erases elements, and policies serialize
and persist them. This directory models that behaviour in TLA+, checks the models with
TLC, and proves theorems about them with TLAPS. Source paths are relative to
`include/egm/` unless another one is given.

    tlc -config MCOrderedSets_leaves.cfg MCOrderedSets   # a run: see the table of runs
    tlapm SubsetSets_proofs.tla                          # a proof module

Contents: [inventory](#inventory), [what is hard](#what-is-hard),
[modules and code](#modules-and-code), [runs](#runs), [fairness](#fairness),
[proofs](#proofs), [disagreements found](#disagreements-found),
[observations](#observations),
[what is not modelled](#what-is-not-modelled), [plan](#plan).

## Inventory

| component | state | operations | interacts with | correct when |
|---|---|---|---|---|
| set engine (`set/privateSet.h`, `set/set.h`) | `m_data` per set; `m_subSetsWithData` (*marks*) and `m_size` per `SetStructure` | add, remove, contains, get, front, clear | supersets and subsets of the same element; the opposite set of another element; the owner's node | a superset contains exactly what is stored below it, `size()` counts it, `clear()` ends and empties |
| opposites (`privateSet.h` addToOpposite, `OppositeInterfaceAdapter`) | none of its own | runs add or remove at the other end | nested calls between two or three elements | both ends of an association agree, also in files |
| singleton (`set/singleton.h`) | one pointer | set, get | evicts its old value, with that value's opposite | at most one value; an element has one owner |
| ordered set (`set/orderedSet.h`) | a linked list beside `m_data` | add, iterate, get(index), front, back | hooks `allocatePtr`, `deAllocatePtr` | the list holds the members, each once |
| set topology (`set/abstractSet.h`) | `m_superSets`, `m_subSets`, `m_redefinedSets`, `m_rootRedefinedSet`, `m_composition` | subsets, redefines, setComposition, destructor | read by every search of the set engine | edges as declared, between the roots of redefinition groups; no edge to a set that is gone |
| iteration (`set/set.h`, `set/orderedSet.h`, `set/wrapperSet.h`) | position, `m_visited` | begin, next, get | follows the marks, or the list | a loop visits every member once |
| manager (`manager/manager.h`, `manager/managerNode.h`) | `m_graph` of nodes with `m_ptr`, `m_ptrs`, `m_references`; `m_root` | create, createPtr, get, release, erase, reindex, destroy, open, save | pointers register with nodes, nodes refer to each other, storage policy | references are mutual, `m_ptrs` exact, an erased element leaves every set |
| `ManagedPtr` (`managedPtr.h`) | `m_id`, `m_node`, `m_ptr` | copy, assign, dereference (loads), release, aquire, destruction | registers with its node; loads, or takes a node out of the graph | no pointer to a node or element that is gone |
| persistence (`policies/filePersistencePolicy.h`) | the files under the mount, the project file | load, save, erase | called by the manager | a file per released element |
| serialization (`policies/yamlSerializationPolicy.h`) | `parsed_elements`; the policies flag of the manager | emit, parse, emitWhole, parseWhole | creates, reindexes and adds to sets while parsing; runs the add policies afterwards | what is emitted is what is parsed; every add policy runs once, when all is there; the flag is back on afterwards |
| ids (`id.h`) | the bytes of an id | string, fromString, randomID | file names and references in files | ids and well-formed texts correspond one to one |
| type lists, type info, visitors (`util/`, `manager/typeInfo.h`, `manager/managerTypes.h`) | none that changes | compile-time lists, `restore_el` copies an element | used everywhere | |
| wrappers, do-nothing policy, dummy manager, indexable set | none | forwarding | | |

The library has no threads of its own. `m_graphMtx` and `m_pathMtx` say that several
threads of a client may call a manager, but they guard a look-up and an insertion only;
all modules are about one thread (see [what is not modelled](#what-is-not-modelled)).

## What is hard

* **Cached knowledge.** What a superset knows about its subsets is a cache, the marks
  and the size. Each operation updates it by a search of its own with its own stopping
  rule: `nonPolicyAdd` stops marking above a superset with data, removal stops unmarking
  at the same place *at that time*, and the size loop runs over the whole closure.
* **Undetermined order.** The searches run over unordered sets of pointers, and an add
  may move an element out of several supersets in turn.
* **Partial failure.** An add that meets a duplicate below the set has already moved the
  element out of supersets. An opposite that throws leaves one end changed. `erase()`
  removes the file and then loads every element it has to clean.
* **Unchecked lookups.** `removeReference` dereferences the result of `find()`, and
  `~ManagerNode`, `release()` and `erase()` the `lock()` of a weak pointer.
* **Stale state.** A reference outlives the release of its element and lists sets that
  are no longer there; `removeReference` decides by that list. Handles stay registered in
  nodes whose element comes and goes.
* **Nested calls.** Adding to an owning set makes a Singleton give up its old owner,
  whose set gives up the element: three elements change in one call.
* **Order of declaration.** Each class of a hierarchy declares in its constructor how its
  sets relate to those of its bases; `redefines()` moves what was declared before.
* **Two records of one thing.** An OrderedSet keeps a list beside data that its subsets
  hold; hooks in the middle of adds, moves and removals have to keep them together.
* **Half a document.** `parseWhole` creates the elements of a document one by one, over
  what is in memory, and may throw at every node; a crash may have cut the file.
* **Termination.** `clear()` loops on `front()`; the parser descends through a document.

`PROJECT.json` lists each of these at its line, with the properties that cover it.

## Modules and code

### SubsetSets: the sets of one element

| model | code |
|---|---|
| `data[s]`, `marks[s]`, `size[s]` | `m_data`, `m_subSetsWithData`, `m_size` |
| `refs[x]` | the `m_sets` of the owner node's reference to `x` |
| `clearing` | the set whose `clear()` runs |
| `Add` | `innerAdd` to `setReference`: allocatePtr over the supersets, addData, marks, sizes, reference |
| `AddThrows` | the same, when `addData` finds a duplicate below the set |
| `Remove` | `innerRemove`: search by marks, unmark, sizes above the last set found, `removeReference` |
| `ClearBegin`, `ClearStep`, `ClearEnd` | `Set::clear`, one step per round of its loop |

The superset graph `Supers` is a constant, any acyclic one. The breadth first searches
become reachability (`Reach`, the least closed set); where the order of visits shows, in
which marks a sequence of removals erases and in which set is found last, the model takes
every order the search allows (`FindOrders`). A run may restrict the *client*, never the
code: `AddSets` are the sets it adds to, `Exclusive` says that it does not put one
element into two sets that only share a superset.

`MemberSets` is what the sets promise: a set has members, an add or remove shows in every
superset, `size()` is the number of members. Nothing is said of where elements are
stored. The refinement maps members to what `contains()` answers.

### OrderedSets: lists and loops, beside SubsetSets

| model | code |
|---|---|
| `order[u]` | the list of an OrderedSet, `m_first` to `m_last` |
| `refused` | history: the elements that `addData` refused |
| `OrderedAdd`, `OrderedAddThrows` | `Add` with `allocatePtr` at every set above; a refused add has run these hooks, so it appends and moves all the same, and again if the element is refused again |
| `OrderedRemove` | `Remove` with `deAllocatePtr` for every set whose size goes down: the first node with the id |
| `OrderedClearBegin`, `..Step`, `..End`, `..Throws` | `OrderedSet::clear`, `Set::clear`: remove what `front()` answers until it answers null; the removal throws when it finds the answer nowhere |
| `Fronts(s)`, from `ListFrontSets`, `Answers` | what `front()` may answer: the head of a list, or any of the data; a Set without data goes down its marks, to a Set with data or to the list of an OrderedSet |
| `Walks[s]`, from `Met`, `Visits` | what a loop from `begin()` to `end()` may visit: a list in order, or data and marked subsets in any order with `m_visited` |

A mark that should have gone leads a loop to a set with nothing to visit, that is to a null
element. `next()` takes it for the end. `begin()` does not look: the loop visits it, then
goes on with the other marks, or, where the marked set is a Set without data and marks,
increments an iterator at its end, which is undefined (`Broken`).

The actions extend those of SubsetSets, so the properties of that module, its refinement
to `MemberSets` among them, are checked on the composition.

### SetTopology and ElementSets: how the relations come about

| model | code |
|---|---|
| `supers`, `subs`, `redefined`, `root`, `comp` | `m_superSets`, `m_subSets`, `m_redefinedSets`, `m_rootRedefinedSet`, `m_composition` |
| `made`, `alive` | the calls made so far; the sets not yet destroyed |
| `Subsets`, `Redefines`, `SetComposition` | the calls in `init()` of the classes, each once, in any order |
| `Destroy` | `~AbstractSet`, those that subset or redefine a set before the set itself |

The calls are constants. `ClientRedefines` is what the order of construction guarantees:
who redefines has not been redefined, and is not in the group yet. `ElementSets` is
the life of the sets of one element: declared, then used as in SubsetSets (whose `Sets` and
`Supers` are the roots and the edges that result: `BuiltIsSupers`, which `BuiltAsAssumed`
proves), then destroyed with the data in them. SetTopology was compared with the code
itself, by random orders of calls run through the library and through the definitions.

### Project: save, crash, open

| model | code |
|---|---|
| `loaded`, `data` | elements in memory; links in their sets "owned" (composite), "owner" (its opposite) and "uses" (a Set without opposite) |
| `policies` | `m_runPolicies` |
| `file` | the project file: the root and the links in the document |
| `phase`, `entered`, `left`, `read` | where `open()` is; the elements whose node has been begun, completed, had its "uses" read |
| `damage` | the node in which `parseComposite` will throw |
| `ran`, `twice`, `refused`, `failed`, `replaced` | history |
| `Create`, `Add`, `Remove`, `Save` | the client between two calls of `open()` |
| `Restart`, `CrashInSave` | the process is gone; the file is as saved last, or a part of what was being saved |
| `OpenRefused`, `OpenFindsNothing` | `LoadAll` throws or finds nothing; the root is no map |
| `OpenBegins`, `Enter`, `ReadUses`, `Leave`, `DocumentParsed`, `Opened` | the steps of `parseWhole`: create and `reindex` at a node, references by id, the owner adds a complete element, flag on, `restore_el` |
| `NodeThrows`, `PolicyThrows` | an exception in a node; one in a user's policy after parsing |

Sets in a document are read in any order. An element whose id is in memory takes the
place of the old one (`reindex` to a node that exists): the pointers to it move, what was in
its own sets goes. Elements are not released here; that is ManagerGraph and Opposites.

### ManagerGraph: nodes, pointers, references, files

| model | code |
|---|---|
| `graph`, `loaded` | keys of `m_graph`; nodes with an `m_ptr` |
| `content[a]` | the set of element `a` |
| `refs[a]`, `stale[a]` | `m_references` of node `a`; those whose `m_sets` lists a set of an `a` since released |
| `slots[a]`, `handles[a]` | `m_ptrs` of node `a`: pointers stored in sets, and those of the client |
| `target[h]` | the `m_id` of a handle |
| `saved`, `file[a]` | the mount file of `a` and the ids in it |
| `Create`, `Get`, `Aquire`, `Assign`, `Drop` | create; get; aquire or first dereference; reassignPtr; destructor |
| `Add`, `AddId`, `Remove` | `Set::add` of an element and of an id; `Set::remove` |
| `ReleaseElement`, `ReleaseHandle` | `Manager::release`; `ManagedPtr::release`, which holds the element until the manager is done, so that its slots die later |
| `Erase`, `EraseThrows` | `Manager::erase`, complete and interrupted by a missing file |

`create` draws an id that is not in use: 168 random bits. A handle whose node is gone
is null (`NoId`). The client does not add an element to its own set and does not assign
to a handle while its element is released (`ClientAssigns`); without the second
restriction `PointersExact` fails, because `reassignPtr` (`managedPtr.h:84`) leaves the
handle in the old node. `Keeps` restricts the client further: it keeps some pointer to
every released element.

`live` and `erased` are the history of the client's calls. `ElementPool` is the promise:
an element exists from create to erase, its set changes by add and remove alone, an
erased element leaves every set. Memory and files do not show. The refinement maps the
set of an element to `content` if it is in memory, else to `file`.

### Opposites: Sets and Singletons of several elements

A link `<<a, f, b>>` is an element `b` in the set `f` of `a`.

| model | code |
|---|---|
| `loaded`, `data`, `file` | elements in memory; links in their `m_data`; links in files |
| `held` | `f` of `a` is in the `m_sets` of `a`'s reference to `b` |
| `stale`, `refs` | as in ManagerGraph |
| `Add` | `Set::add` or `Singleton::set` with all that is nested in it: eviction of the old value at either end, loading of `b`, the opposite |
| `AddThrows` | the opposite throws; the own end is done |
| `Remove`, `RemoveThrows` | `innerRemove`, `Singleton::set(0)`; the same when the opposite does not find the link |
| `Release`, `Load` | `Manager::release`; aquire or first use, which parses by id and so without opposites |

Every element has a pointer on it, so nodes do not go (that is ManagerGraph's subject).
The end that an operation starts from keeps or drops the reference; what runs at the other
end is `nonOppositeAdd` and `nonOppositeRemove`, and the second leaves the reference of
its set behind. So references can outlive links here, `ReferenceHasSet` of ManagerGraph
does not carry over, and `StoredIsReferenced` states the direction that matters.
`Careful` restricts the client: it removes from a Set only an element in memory.

`Associations` is the promise: opposite sets are two ends of one relation, and a new link
takes the place of those in singletons at its ends.

This module was compared with the code itself: random sequences of its operations were
run through the library and through the definitions, and data, reference lists and
exceptions agreed after every step.

### IdCodec: ids and their text

`ToString` regroups the bits of an id, low bit of each byte first, six at a time;
`base64` is the decision tree of `id.h:22-470` as a rank and four ranges; `FromString` is
the inverse table and the regrouping into bytes. A character is a class and a place in
it. Actions: `RandomID`, `Written` (string), `Receive` (a text from a file or a client),
`Parsed` (fromString, when it does not throw).

### MC modules

`MCSubsetSets`, `MCOrderedSets`, `MCElementSets`, `MCManagerGraph`, `MCOpposites`,
`MCProject`, `MCIdCodec` define the instances; every constant that varies between runs is
given in the cfg.

## Runs

| run (cfg) | question | instance | result |
|---|---|---|---|
| `leaves` (`MCOrderedSets_leaves`) | Are marks, contains, size, clear exact when data lies at the ends of the graph? Do the sets implement `MemberSets`? Do lists hold the members once and in one order, does every loop visit them, does `clear()` of either kind of set leave nothing, is it cut short only after a refused add? | diamond of `setTest.cpp:1521` with one more leaf, OrderedSets at the top and at the bottom; 2 elements; sizes and lists to 3, one refused element | holds |
| `any_client` (`MCElementSets_any`) | Are the edges as declared, is there one root to a group, does composition stay, is no edge left to a dead set? And for any client of these sets: types, size never below what is stored (so no wrap), references for all that is stored? | diamond of which one set is redefined by two others in turn, with composition; every order of declaration and destruction; adds everywhere; 2 elements; sizes to 3 | holds |
| `lost_mark` | Does a removal leave the other elements contained? | diamond, 3 elements | violated, see below |
| `siblings` | Is `size()` the number of members without `Exclusive`? | diamond, adds to left and right | violated, see below |
| `graph_any` (`MCManagerGraph_any`) | Are references mutual and justified, and `m_ptrs` exact, for any client? | 3 elements, 2 handles | holds |
| `graph_kept` (`MCManagerGraph_kept`) | With `Keeps`: does erase never stop half way, is an erased element forgotten, is `ElementPool` implemented? | the same | holds |
| `erased_in_file` | The same without `Keeps`: is an erased element forgotten? | the same | violated, see below |
| `opposites_any` (`MCOpposites_any`) | For any client: does a Singleton have one value, are the references there that removal dereferences? | 3 elements, `ownedElements` / `owner` of `managerTest.cpp:207` | holds |
| `opposites` (`MCOpposites_careful`) | With `Careful`: do ends agree, is there one owner, is `Associations` implemented? | the same | holds |
| `remove_released` | The same for a Set that is its own opposite, without `Careful` | 3 elements, `references` of the repository's README | violated, see below |
| `project` (`MCProject`) | Is what is parsed what was saved, and would it be saved again as the same document? Do owner and owned agree, does every add policy run once and after the whole document, is the flag on again, does `open()` leave alone what is not in the document, through crashes, damaged files, failed opens and opens over what is in memory? | 3 elements, one link in "uses" | holds |
| `id_codec` (`MCIdCodec`) | Do ids and texts survive the round trip? | 3 bytes, 4 characters; a byte of all 256 values at each place, a character of all 64 kinds at each place, wrong lengths, unknown characters | holds |

**Bounds.** `MaxSize` (in the guard of adds) bounds `m_size`, which can exceed the number of
elements when the client is not `Exclusive`; 3 is more than 2 elements need, so the surplus
that sibling additions leave behind is reached, and so is an element that moves down past
another one. `MaxOrder` and `MaxRefused` bound what refused adds leave in the lists. `MaxRefused`
counts elements, and the add of one may be refused again and again: 3 nodes for 2 elements, one of
them refused, give a duplicate beside the other element, or one element three times. `MaxUses` = 1: a link in "uses" is
read, restored and lost by itself, so one, pointing anywhere, meets every order in which its
two ends come and go. Three elements give a tree of two levels, and siblings. The diamond is
the smallest graph with two paths to a superset; its fifth set gives one of the middle sets
a second subset, which unmarking can confuse with the first. Two elements are enough for an
element that moves beside one that stays; `lost_mark` needs three. In the graph, three
elements give an erased one, one that holds it and one that holds neither or both, and
chains of holding; two handles give one that keeps a node and one that comes and goes.
Opposites involve at most three elements in a call (new owner, element, old owner). Three
bytes and four characters are one whole period in which bytes and characters come into step
again. No bound other than `MaxSize`, `MaxOrder`, `MaxRefused` and `MaxUses` cuts off a
behaviour: all runs exhaust their state space. Ids, handles and elements are
interchangeable, so the runs of the graph, of opposites and of projects use symmetry; the
runs with a PROPERTY among them check a safety property only.

In `leaves` data lies at the ends of the graph, where no element is met on two ways, so
`m_visited` decides nothing in that run: `IterationExact` is about marks that lead
nowhere. Data in the middle makes loops go wrong (see [observations](#observations)).

Deadlock is checked except in the runs of ManagerGraph, where all elements may have been
erased and no fresh id of the three is left to create, and in `any_client`, which ends
when the last set is destroyed.

## Fairness

One property is about progress, `ClearTerminates`, under weak fairness of the steps of
the loop (`OrderedFairSpec`): the loop of `clear()` runs in the calling thread, which
does not leave it. No other operation starts meanwhile (`clearing = NoSet` is a guard of
each). No fairness is assumed for clients, and nothing else needs any.

`open()` needs no fairness because it needs no property of progress: it is recursion over the
nodes of a finite document and waits for nothing. `OpenGetsOn` bounds its steps.

## Proofs

All theorems hold for every value of the constants that satisfies the ASSUMEs of the
component's module: finite sets, an acyclic superset graph; ids apart from `NoId`; an
involution `Opp` on features; as many bits in the bytes as in the characters.

**SubsetSets_proofs** (any client): `SizeCovers`, `TypeCorrect`, `References`. That
`size` stays in `Nat` is not inductive: a decrement says nothing about what was added.
`SizeInv` adds that the size of a set is at least the number of occurrences stored at or
below it (`SizeCoversHoldings`); each decrement goes with an occurrence that leaves
(`MoveCounts`, `HoldingsAfterDrop`), so the invariant pays for it. `AlwaysBounded` says
what is left of `ContainsExact` for any client: `contains()` answers for nothing that is not
stored at or below the set, because a mark always leads downwards (`MarkInv`), and it sees
the set itself and its direct subsets with data.

The second part of that module (under `NoMiddleData`: adds go to sets without superset or
without subset): `ExactMarks`, `ExactContains`, `OncePerLine`. When no set in the middle has
data, the search for supersets to mark is never cut short (`MarkedAboveEnds`), so marks are
what the data says. `OthersKept` is `RemoveKeepsOthers` under that condition: what
`lost_mark` violates needs data in the middle. `EndsInv` joins the type invariant, data at
the ends, exact marks and storage once per line; each needs the others in a move.

Its third part (the same, and `Exclusive`): `ExactSize`, `ClearEmpties`,
`Implements`. `PromiseInv` = `SizeInv`, `EndsInv`, `OneHolder` (no two sets under a
common superset hold an element) and `SizeHolds` (size equals occurrences). Then a removal
finds one set (`FoundOne`), an add never throws half way (`AddThrowsChangesNothing`), and
each step is a step of `MemberSets` or none.

**OrderedSets_proofs**, for the client of that third part. `OrderedInv` adds to
`PromiseInv` that a list has an element that was never refused once if it is a member and
not otherwise (`ListInv`), and that no two such elements stand one way in a list and the
other way in one below (`OrderInv`). It is inductive because only one set below a list
holds an element: a move unlinks it once (`UnlinkedOnce`) before it is appended to every
list above the new place, so it is last in all of them. From it: `ListsExact`,
`ListsAgree`, `OrderedPromise`, `OrderedImplements`, `OrderedClearEmpties`,
`ThrowsAfterRefusal` (out of `clear()` of a Set as of an OrderedSet). `Iterates` needs more: that `Walks`, a recursive function on sets,
is defined (a set that is marked marks none itself: `MarksFlat`, `WalksDefined`), what the
inner function over the marked sets yields (`RunsExist`, `RunsMembers`), and that
`m_visited` leaves each element once (`FirstVisitsList`).

Its last parts are about any client. Lists may then name an element too often, never too
seldom: `CoverInv` with `AlwaysListed`, where a move of an element out of n sets below a
list unlinks it up to n times (`UnlinkedCounts`) and takes exactly those n holders away
(`HoldersDropped`). So `ListClearEmpties`: an OrderedSet that `clear()` found empty is
empty, where a Set that `front()` answers null for may not be. `OrderedSizes` and
`OrderedReferences` carry the theorems for any client over to a `clear()` that removes
what a list names. For the loop of `clear()`, `ClearTakes` (each round takes some of the
finite `Holdings` of the set and adds none) and `ClearFindsFronts`: `front()` always has an
answer, because marks lead to sets with fewer sets below them, and the removal finds what it
answers, unless that is the head of the list of an OrderedSet, at or below the set, that
nothing below that OrderedSet holds. So `clear()` of a Set without OrderedSets below it never
throws. For the loops over sets, `LoopsStay`: an entry that should have gone brings an element
that its set has lost into a loop; a mark that should have gone brings a null element, first or
not at all, and only into a loop over a Set without data of its own; nothing else that is not
stored there comes in, and `m_visited` leaves a loop over a Set nothing twice. There `Walks` is defined (`WalksExist`) because marks lead to sets
with fewer sets below them (`Height`, `MarksDescend`), whatever they should say.

**MemberSets_proofs**: `Inclusion`, which says of the abstract specification itself that
subsetting is inclusion: the promise is not vacuous.

**SetTopology_proofs** (any declarations, any order): `OneRoot` and `Composed`, by
`RootInv`: a root is its own root and knows exactly the sets that have it, so `redefines()`
moves a whole group (`RedefinesRoots`). `Graph` has a condition, that no set subsets one
it is related to by redefinition (`Grouped`): then no edge joins two sets of a group
(`NoInnerEdge`), and moving the edges of one root to another renames one end of each
(`MovedEdges`). `NoneDangling` has two: `Grouped`, and that every redefinition group has a
set that redefines all the others (`MostDerived`), as the sets of the most derived class
do. `redefines()` leaves the redefined set in `m_redefinedSets` of members that are not the
root, so what a destructor takes out of its neighbours' sets depends on who goes first;
with a most derived set that is the root, which goes first, no edge is left.
`NoneDanglingInOrder` needs no such set, but the order of construction itself
(`BornInOrder`): a set redefines what is older, with all that redefined it before, and the
youngest goes first. Then a root is the youngest of its group and the others name no set in
`m_redefinedSets` that goes after them (`YoungRoots`), so the edges move to the sets that
stay. Without either condition it is false (see [observations](#observations)).
`OfElement` carries the theorems to ElementSets, and `BuiltAsAssumed` shows that what is
built is the constant graph of SubsetSets. `ElementTypeCorrect`, `ElementSizeCovers`,
`ElementReferences` and `ElementPromise` are the theorems of SubsetSets through the life
of an element, in which a set that dies takes its data along.

**Project_proofs** (any number of elements, no bound used): `TypeCorrect`, `Parsed`,
`Ownership`, `PoliciesOn`, `PoliciesOnce`, `PoliciesLast`. None is inductive alone. `IInv`
says that the file is a tree (`Tree`; `EmittedTree` and `PartsTree` show it of what is saved
and of what a crash leaves), that the parsed elements are a part of it with the owner of
each and all of a complete one (`NodesInv`), and that each has in its sets what the file
says of that part (`Sets`). When the root is complete everything below it is, so memory has
the document (`ParsedWhole`). `RanInv` follows the policies: none of an element being parsed
has run, and all of the others whose ends are in memory have. A document cannot bring an
element that an old reference waits for, or its policy would be missed: the third part of
`RanOnce`. `Parsed` also says that the document would be saved again as it was
(`SavedAgain`: what `emitWhole` reaches from the root is what `parseWhole` brought), and
`OthersStay` that an `open()` that reaches a document changes no element outside of it, nor its
links or the history of its policies, whether it returns or throws (`OpenKeepsOthers`).
`OpenGetsOn` counts the steps of the parser: each adds to `entered`, `read` or `left`, which stay
within the nodes of the document, or is its last.

**ManagerGraph_proofs**: for any client `TypeCorrect`, `Mutual`, `Pointers`, `References`,
`ReferencesJustified`. `GraphInv` joins the four with three facts they need: only loaded
elements have a set, stale entries are references, nobody refers to itself. `Durable` and
`OnlyEdited` follow with `LiveInv`: an element in memory or in a file is a live one and the
reverse, and releasing, loading, pointing and an `erase()` that stops half way change no set
(`AttachShows`). References are mutual only if a node that goes takes itself out of exactly
those that name it, and that a node may go at all follows from `PointersExact`. For a client
that `Keeps`: `EraseSucceeds`, `Forgotten`, `Implements`, by `KeptInv`: the nodes are the
live elements, one not in memory has a file, and what is in that file is still in its stale
references. So loading brings nothing new (`LoadedAsSaved`), and `erase` reaches through its
references all that name the element. `PoolForgets` says of `ElementPool` itself that an
erased element stays erased and in no set.

**Opposites_proofs**: for any client `TypeCorrect`, `References`, by `LinkInv`, whose
part `RefsCover` says what the reference list must cover: links in memory, links in
files as stale entries, in both directions. For a `Careful` client `Mutual`, `Owned`,
`Implements`: `MutualInv` makes the links closed under `Rev`, after which nothing throws
(`NothingThrows`) and `Add` changes both ends together (`AddAtBothEnds`).
`AssociationsAgree` says of `Associations` itself that the ends agree and that none has two
owners.

**IdCodec_proofs**: `IdRoundTrip`, `TextRoundTrip` for any size, from the table
(`RankBits`, `BitsRank`, `CodeRank`, `RankCode`) and the arithmetic of positions
(`BitsOfId`, `TextOfId`, `IdOfText`); `IdCorrect` (by `IdSources`: an ID is drawn, blank
or read from a well-formed text) and `TextCorrect` carry them to the
specification, 21 bytes and 28 characters being one instance.

**Lists and recursion.** What a recursive function yields is proved here with the least
counterexample (`Least`) in the place of an induction theorem, which the provers
cannot instantiate: that the function exists (`RunsExist`, `WalksExist`, `UnlinkedCounts`),
and what its value is at each argument.

**Only model-checked:** `ClearTerminates`: liveness under fairness is out of the prover's
reach. What it rests on is proved for any client: every round of `clear()` takes something from
a finite set (`ClearTakes`), and `front()` has an answer that is removed, ends the loop or is a
stale head that ends it with an exception (`ClearFindsFronts`). For the client of `leaves`,
`ClearShrinks` says that a round takes exactly one from the size. Everything else a passing
run checks is proved.

## Disagreements found

Each was reproduced with a small program against the library.

1. `lost_mark`. In the diamond, with `left` and `right` holding data, an add to `bottom`
   marks it in these two only. Emptying both erases their marks in `root` but puts none
   for `bottom` there: `root.contains` is false for the element in `bottom`, and
   `front()` and iteration miss it. `setTest.cpp:1788` expects such an element to stay.
2. `siblings`. One element in `left` and in `right` counts twice in `root.size()` and is
   visited once; `setTest.cpp:1889-1895` expects size and visits to agree.
3. `erased_in_file`. `erase()` finds the sets to clean through references. Releasing an
   element without a pointer on it drops its node with its references, and its file
   keeps the erased id, against the intent of `manager.h:289`.
4. `remove_released`. `innerRemove` runs the opposite only when the removed element is in
   memory (`privateSet.h:268`). The other end, in its file, keeps the link, against the
   repository's `README.md:24-25`.

## Observations

What the code does beside the properties, met while modelling; each is a guard or a
history variable of a model, not a claim of the repository.

* A refused add (a duplicate below the set) has run `allocatePtr` already: an OrderedSet
  above lists the element twice. Its `clear()` throws when only the second entry is left, and so
does `clear()` of a Set above whose `front()` leads there. `refused` marks these elements.
* A loop over an OrderedSet ends after the first node with the id of the last one
  (`orderedSet.h:95`). When a refused add, or adds of one element to two sibling sets, left
  the list `a, b, a`, the loop visits `a` only. `ListsCover` says that the list has `b`,
  and `IterationExact` holds where lists have no duplicates.
* Adding one element to two sibling sets and removing it makes the lists of two
  OrderedSets disagree on the order. `Exclusive` excludes it.
* With data in middle sets a mark can stay for a subset that is empty again: `front()` answers
  null with members left. A loop that begins at that mark visits a null pointer and goes on, or
  increments an iterator at its end; one that comes to it later ends there (`set.h:34-94`).
* A set that redefines one of its own group a second time loses all its edges and its root
  (`abstractSet.h:203`). `ClientRedefines` excludes it.
* Several sets that redefine one, called from the youngest of them to the oldest (`c`, `b`,
  `a` redefine `t` in turn, which subsets `p`), leave a destroyed set among the subsets of
  `p`, though the sets go in the reverse order of their construction: `c` takes its root from
  `a`, which it knows in `m_redefinedSets`, and by that root `a` looks for itself in `p`
  (`abstractSet.h:127-173`). `BornInOrder` excludes it.
* `Set::add(ID)` on a redefined set stores in that set and not at the root (`set.h:244`),
  where no search looks.
* Composition is copied when `subsets()` is called: a superset that gets its composition
  later does not pass it on.
* The destructor takes a mark of the dead set out of its direct supersets only.
* Opening a document over elements in memory replaces them one by one: an element that is
  not in the document may go on naming as owner one that no longer owns it, or own one
  that names another owner. `OwnersAgree` exempts what was `replaced`.
* A document refused by `LoadAll`, or empty, leaves the policies off until another
  `open()` gets as far as a node of a document (`yamlSerializationPolicy.h:513`).
* After an `open()` that failed, the elements parsed so far stay in memory, and none of
  their add policies has run.
* `throw e` in `parse_composite_node` throws a copy of the base class: what the client
  catches is a `std::exception` without the message.

## What is not modelled

* Opposites of sets with supersets or redefinitions, a Singleton that subsets, an
  iterator over a set that changes meanwhile, policies written by users beyond the fact
  that they run or throw.
* Adds to redefined sets by id (see observations); other operations on a redefined set
  are forwarded to the root, and modelled as those of the root.
* An element added to its own set: `removeReference` erases one entry twice, through an
  iterator that the first erase has made invalid.
* Documents with several roots, the emission of a cycle of ownership (it does not end),
  `setID` by a client, the destructor of the manager.
* Assigning a handle, or setting a Singleton, while its element is released (see
  `ClientAssigns`): code after that writes through dead pointers.
* Threads. `m_graphMtx` is held for the look-up in `abstractGet` and for insertions; the
  other reads of `m_graph`, `m_ptrs`, the sets and the policies flag are not guarded, so
  almost any two concurrent calls are a data race, for which no model of their steps
  would be faithful.
* `set/indexableSet.h` includes headers that are not in the repository. Type lists, type
  info and visitors are compile-time. The dummy manager throws on every call.
* External: the YAML library, the file system (a file holds what was last written),
  `rand()` (a fresh id). Layout of files and wording of messages.

## Plan

1. `SubsettingSingleton`: `Singleton::allocatePtr` and `m_size` when a value moves
   down or a superset evicts; SubsetSets with a second kind of set.
2. Opposites with SubsetSets under each end: the search of `addToOpposite`.
3. ElementSets with adds by id on redefined sets.
4. Project with release of opened elements, so that files of elements and the project file
   meet.

Proofs to add: a lower bound of what a loop visits when data lies in the middle of the graph
(`LoopsStay` gives the upper one, and the set's own data); with each module of the list
above, its inductive invariant.
