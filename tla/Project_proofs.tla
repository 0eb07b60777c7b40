---------------------------- MODULE Project_proofs ----------------------------
(***************************************************************************)
(* Theorems about Project, for any number of elements: what is parsed is   *)
(* what was saved, both ends of an ownership agree, the policies flag comes *)
(* back on, add policies run once and see the whole document.              *)
(*                                                                         *)
(* All of them come from one invariant, IInv: the file is a tree, and the  *)
(* elements parsed so far are a part of that tree which has a root, is     *)
(* closed under ownership where it is complete, and has in its sets what   *)
(* the file says of the part.                                              *)
(***************************************************************************)
EXTENDS Project, TLAPS

\* A document as emitWhole writes it: a tree below its root.
Tree(d) ==
    /\ d.root \in Ids
    /\ \A l \in d.links : l[1] \in Below(d.root, d.links)
    /\ \A l \in d.links : l[2] = "owned" => l[3] # d.root
    /\ \A k, l \in d.links : k[2] = "owned" /\ l[2] = "owned" /\ k[3] = l[3] => k = l

DocInv == file = NoDocument \/ Tree(file)

\* Links are in the sets of elements in memory, and so is what is owned.
MemoryInv ==
    /\ \A l \in data : l[1] \in loaded
    /\ \A l \in data : l[2] = "owned" => l[3] \in loaded

\* The elements that are parsed, as a part of the tree: the owner of each is parsed too,
\* and a complete one has complete elements only.
NodesInv ==
    /\ phase # "idle" => file # NoDocument
    /\ phase = "idle" => entered = {}
    /\ file.root \notin left /\ left \subseteq read
    /\ \A n \in entered \ {file.root} : \E a \in entered : <<a, "owned", n>> \in file.links
    /\ \A l \in file.links : l[1] \in left /\ l[2] = "owned" => l[3] \in left

\* What a parsed element has so far.
Sets(n) ==
    /\ \A b \in Ids : <<n, "uses", b>> \in data <=> n \in read /\ <<n, "uses", b>> \in file.links
    /\ \A b \in Ids : <<n, "owned", b>> \in data <=> b \in left /\ <<n, "owned", b>> \in file.links
    /\ \A a \in Ids : <<n, "owner", a>> \in data <=> n \in left /\ <<a, "owned", n>> \in file.links

ParsedInv ==
    /\ \A n \in entered : Sets(n)
    /\ phase = "restoring" =>
        file.root \in entered \cap read /\ Nodes(file) \subseteq left \cup {file.root}

FlagInv ==
    /\ phase = "idle" => (policies <=> ~refused)
    /\ phase = "parsing" => ~policies
    /\ phase = "restoring" => policies
    /\ refused => failed

\* The policies that have run: none of an element being parsed;
Ran == \A l \in ran : l[1] \notin entered /\ l[2] # "owner"

\* none twice and, of the other elements, all whose ends are in memory.  A document
\* brings none of the elements that are missing.
RanOnce ==
    /\ twice = {}
    /\ \A l \in data : l[2] # "owner" /\ l[1] \notin entered /\ l[3] \in loaded => l \in ran
    /\ \A l \in data : l[1] \notin entered => l[3] \in loaded \/ l[3] \notin Nodes(file)

RanInv == Ran /\ (~failed => RanOnce)

IInv ==
    /\ TypeOK /\ DocInv /\ MemoryInv /\ NodesInv /\ ParsedInv
    /\ OwnersAgree /\ FlagInv /\ RanInv

-----------------------------------------------------------------------------
(* Links, trees and documents *)

\* A link and its parts.
LEMMA LinkParts ==
    ASSUME NEW l \in Links
    PROVE  l[1] \in Ids /\ l[2] \in Features /\ l[3] \in Ids /\ l = <<l[1], l[2], l[3]>>
BY DEF Links

LEMMA LinkOf ==
    ASSUME NEW a \in Ids, NEW b \in Ids, NEW f \in Features
    PROVE  <<a, f, b>> \in Links
BY DEF Links

\* Below is closed under ownership, and the least such set.
LEMMA BelowClosed ==
    ASSUME NEW r \in Ids, NEW L, NEW l \in L, l[2] = "owned", l[3] \in Ids, l[1] \in Below(r, L)
    PROVE  l[3] \in Below(r, L)
BY DEF Below

LEMMA BelowRoot ==
    ASSUME NEW r \in Ids, NEW L
    PROVE  r \in Below(r, L) /\ Below(r, L) \subseteq Ids
BY DEF Below

LEMMA BelowLeast ==
    ASSUME NEW r \in Ids, NEW L, NEW C, C \subseteq Ids, r \in C,
           \A l \in L : l[2] = "owned" /\ l[1] \in C => l[3] \in C
    PROVE  Below(r, L) \subseteq C
BY DEF Below

\* The nodes of a document.
LEMMA NodesElement ==
    ASSUME NEW d, NEW n
    PROVE  n \in Nodes(d) <=> n = d.root \/ \E l \in d.links : l[2] = "owned" /\ l[3] = n
BY DEF Nodes

\* Every link of a tree is a link of one of its nodes.
LEMMA TreeNodes ==
    ASSUME NEW d \in Documents, Tree(d)
    PROVE  /\ Nodes(d) \subseteq Ids
           /\ \A l \in d.links : l[1] \in Nodes(d)
<1>1. d.links \subseteq Links /\ d.root \in Ids
  BY DEF Documents, Tree
<1>2. Nodes(d) \subseteq Ids
  BY <1>1, LinkParts, NodesElement
<1>3. Below(d.root, d.links) \subseteq Nodes(d)
  <2>1. \A l \in d.links : l[2] = "owned" /\ l[1] \in Nodes(d) => l[3] \in Nodes(d)
    BY NodesElement
  <2>2. d.root \in Nodes(d)
    BY NodesElement
  <2> QED
    BY <1>1, <1>2, <2>1, <2>2, BelowLeast
<1> QED
  BY <1>2, <1>3 DEF Tree

\* What emitWhole writes is a tree.
LEMMA EmittedTree ==
    ASSUME TypeOK, NEW r \in Ids, ClientSaves(r)
    PROVE  /\ Emitted(r) \in Documents /\ Emitted(r).root = r
           /\ Emitted(r).links \subseteq data
           /\ \A l \in Emitted(r).links : l[2] # "owner"
           /\ Tree(Emitted(r))
<1> DEFINE E == {l \in Of(data, Below(r, data)) : l[2] # "owner"}
<1>1. Emitted(r).root = r /\ Emitted(r).links = E
  BY DEF Emitted
<1>2. E \subseteq data /\ data \subseteq Links
  BY DEF Of, TypeOK
<1>3. \A l \in data : l \in E <=> l[1] \in Below(r, data) /\ l[2] # "owner"
  BY DEF Of
<1>4. Emitted(r) \in Documents
  BY <1>2 DEF Emitted, Documents
<1>5. Below(r, data) \subseteq Below(r, E)
  <2> SUFFICES ASSUME NEW n \in Below(r, data), NEW C \in SUBSET Ids, r \in C,
                      \A l \in E : l[2] = "owned" /\ l[1] \in C => l[3] \in C
               PROVE  n \in C
    BY BelowRoot DEF Below
  <2> DEFINE D == C \cap Below(r, data)
  <2>1. r \in D /\ D \subseteq Ids
    BY BelowRoot
  <2>2. ASSUME NEW l \in data, l[2] = "owned", l[1] \in D
        PROVE  l[3] \in D
    <3>1. l \in E /\ l[3] \in Ids
      BY <1>2, <1>3, <2>2, LinkParts
    <3>2. l[3] \in Below(r, data)
      BY <2>2, <3>1, BelowClosed
    <3> QED
      BY <2>2, <3>1, <3>2
  <2>3. Below(r, data) \subseteq D
    BY <2>1, <2>2, BelowLeast
  <2> QED
    BY <2>3
<1>6. \A l \in E : l[2] = "owned" => l[3] # r
  BY <1>2, <1>3 DEF ClientSaves
<1>7. \A k, l \in E : k[2] = "owned" /\ l[2] = "owned" /\ k[3] = l[3] => k = l
  BY DEF ClientSaves
<1> HIDE DEF E
<1>8. \A l \in E : l[1] \in Below(r, E) /\ l[2] # "owner"
  BY <1>2, <1>3, <1>5
<1> QED
  BY <1>1, <1>2, <1>4, <1>6, <1>7, <1>8 DEF Tree

\* So is what a crash leaves of it.
LEMMA PartsTree ==
    ASSUME NEW d \in Documents, Tree(d), \A l \in d.links : l[2] # "owner", NEW p \in Parts(d)
    PROVE  p \in Documents /\ Tree(p) /\ \A l \in p.links : l[2] # "owner"
<1>1. p \in [root : {d.root}, links : SUBSET d.links]
  BY DEF Parts
<1>2. p.root = d.root /\ p.links \subseteq d.links
  BY <1>1
<1>3. p \in Documents
  BY <1>1 DEF Documents
<1>4. \A l \in p.links : l[1] \in Below(p.root, p.links)
  BY DEF Parts
<1> QED
  BY <1>2, <1>3, <1>4 DEF Tree

\* The two ends of the links T.
LEMMA BothEndsElement ==
    ASSUME NEW T, NEW x
    PROVE  x \in BothEnds(T) <=>
               x \in T \/ \E l \in T : l[2] = "owned" /\ x = <<l[3], "owner", l[1]>>
BY DEF BothEnds

-----------------------------------------------------------------------------
(* What the steps do to memory *)

\* Nothing is in memory after a crash or a restart.
LEMMA LostFacts ==
    ASSUME Lost
    PROVE  /\ loaded' = {} /\ data' = {} /\ ran' = {} /\ twice' = {} /\ replaced' = {}
           /\ entered' = {} /\ left' = {} /\ read' = {}
           /\ phase' = "idle" /\ damage' = "none" /\ policies' = TRUE
           /\ refused' = FALSE /\ failed' = FALSE
BY DEF Lost

\* The history of the policies: it grows by T, and only with the policies on.
LEMMA RunsFacts ==
    ASSUME NEW T, RunsAdd(T)
    PROVE  /\ ran \subseteq ran' /\ ran' \subseteq ran \cup T
           /\ policies = TRUE => ran' = ran \cup T
           /\ policies = FALSE => ran' = ran /\ twice' = twice
           /\ twice' \subseteq twice \cup (T \cap ran)
BY DEF RunsAdd

\* The file is one that was saved, all of it or a part.
LEMMA FileStep ==
    ASSUME TypeOK, DocInv, Next
    PROVE  /\ file' \in Documents /\ \A l \in file'.links : l[2] # "owner"
           /\ DocInv'
<1>1. CASE UNCHANGED file
  BY <1>1 DEF TypeOK, DocInv, Tree, NoDocument
<1>2. ASSUME NEW r \in Ids, Save(r)
      PROVE  /\ file' \in Documents /\ \A l \in file'.links : l[2] # "owner"
             /\ Tree(file')
  BY <1>2, EmittedTree DEF Save
<1>3. ASSUME NEW r \in Ids, CrashInSave(r)
      PROVE  /\ file' \in Documents /\ \A l \in file'.links : l[2] # "owner"
             /\ Tree(file')
  BY <1>3, EmittedTree, PartsTree DEF CrashInSave
<1> QED
  BY <1>1, <1>2, <1>3
     DEF Next, Parse, Create, Add, Remove, Restart, OpenRefused, OpenFindsNothing, OpenBegins,
         Enter, ReadUses, Leave, NodeThrows, DocumentParsed, Opened, PolicyThrows, DocInv

\* A node of a document that is opened is an element, the parser comes to nodes only.
LEMMA OpenedTree ==
    ASSUME TypeOK, DocInv, file # NoDocument
    PROVE  /\ Tree(file) /\ file.root \in Ids /\ Nodes(file) \subseteq Ids
           /\ file.links \subseteq Links /\ \A l \in file.links : l[1] \in Nodes(file)
<1>1. Tree(file)
  BY DEF DocInv
<1> QED
  BY <1>1, TreeNodes DEF TypeOK, Documents, Tree

LEMMA ComesToNode ==
    ASSUME NEW n \in Ids, ComesTo(n)
    PROVE  n \in Nodes(file) /\ n \notin entered /\ phase = "parsing"
BY NodesElement DEF ComesTo

\* The links that Leave(n) makes: both ends of the ownership of n.
LEMMA LeaveFacts ==
    ASSUME TypeOK, NEW n \in Ids, Leave(n)
    PROVE  /\ data \subseteq data' /\ data' \subseteq Links
           /\ \A x \in data' : x \in data \/
                \E a \in Ids : /\ <<a, "owned", n>> \in file.links
                               /\ x = <<a, "owned", n>> \/ x = <<n, "owner", a>>
           /\ \A a \in Ids : <<a, "owned", n>> \in file.links =>
                <<a, "owned", n>> \in data' /\ <<n, "owner", a>> \in data'
<1> DEFINE T == {l \in file.links : l[2] = "owned" /\ l[3] = n}
<1>1. data' = data \cup BothEnds(T) /\ RunsAdd(T)
  BY DEF Leave
<1>2. file.links \subseteq Links
  BY DEF TypeOK, Documents
<1>3. ASSUME NEW l \in T
      PROVE  l[1] \in Ids /\ l = <<l[1], "owned", n>> /\ <<l[1], "owned", n>> \in file.links
  BY <1>2, LinkParts
<1>4. ASSUME NEW a \in Ids, <<a, "owned", n>> \in file.links
      PROVE  <<a, "owned", n>> \in T
  BY <1>4
<1>5. ASSUME NEW x \in BothEnds(T)
      PROVE  \E a \in Ids : /\ <<a, "owned", n>> \in file.links
                            /\ x = <<a, "owned", n>> \/ x = <<n, "owner", a>>
  <2>1. CASE x \in T
    BY <1>3, <2>1
  <2>2. CASE \E l \in T : x = <<l[3], "owner", l[1]>>
    BY <1>3, <2>2
  <2>3. x \in T \/ \E l \in T : l[2] = "owned" /\ x = <<l[3], "owner", l[1]>>
    <3> HIDE DEF T
    <3> QED
      BY BothEndsElement
  <2> QED
    BY <2>1, <2>2, <2>3
<1>6. ASSUME NEW a \in Ids, <<a, "owned", n>> \in file.links
      PROVE  <<a, "owned", n>> \in BothEnds(T) /\ <<n, "owner", a>> \in BothEnds(T)
  BY <1>4, <1>6, BothEndsElement
<1>7. BothEnds(T) \subseteq Links
  <2>1. "owned" \in Features /\ "owner" \in Features
    BY DEF Features
  <2> QED
    BY <1>5, <2>1, LinkOf
<1> QED
  BY <1>1, <1>5, <1>6, <1>7 DEF TypeOK

\* The links that an add makes and gives up.
LEMMA AddFacts ==
    ASSUME TypeOK, NEW l \in Links, Add(l)
    PROVE  /\ data' \subseteq Links
           /\ l[2] = "uses" => data' = data \cup {l} /\ GivenUp(l) = {}
           /\ l[2] = "owned" =>
                /\ <<l[1], "owned", l[3]>> \in data' /\ <<l[3], "owner", l[1]>> \in data'
                /\ \A x \in data' :
                     \/ x = <<l[1], "owned", l[3]>> \/ x = <<l[3], "owner", l[1]>>
                     \/ x \in data /\ ~(x[2] = "owned" /\ x[3] = l[3]) /\ ~(x[2] = "owner" /\ x[1] = l[3])
                /\ \A x \in data :
                     \/ x \in data'
                     \/ x[2] = "owned" /\ x[3] = l[3]
                     \/ x[2] = "owner" /\ x[1] = l[3]
           /\ \A x \in data' : x \in (data \ GivenUp(l)) \/ x = l \/ x = <<l[3], "owner", l[1]>>
           /\ l \in data'
           /\ l[1] \in loaded /\ l[3] \in loaded
           /\ l[2] \in {"owned", "uses"}
<1>1. l[2] # "owner" /\ ClientAdds(l) /\ data' = (data \ GivenUp(l)) \cup BothEnds({l})
  BY DEF Add
<1>2. l[1] \in Ids /\ l[3] \in Ids /\ l = <<l[1], l[2], l[3]>> /\ l[2] \in {"owned", "uses"}
  BY <1>1, LinkParts DEF Features
<1>3. l[1] \in loaded /\ l[3] \in loaded
  BY <1>1 DEF ClientAdds
<1>4. \A x : x \in BothEnds({l}) <=> x = l \/ (l[2] = "owned" /\ x = <<l[3], "owner", l[1]>>)
  BY BothEndsElement
<1>5. <<l[3], "owner", l[1]>> \in Links
  BY <1>2, LinkOf DEF Features
<1>6. BothEnds({l}) \subseteq Links
  BY <1>4, <1>5
<1>7. l[2] = "uses" => GivenUp(l) = {}
  BY DEF GivenUp
<1>8. l[2] = "owned" => \A x \in data :
        x \in GivenUp(l) <=> (x[2] = "owned" /\ x[3] = l[3]) \/ (x[2] = "owner" /\ x[1] = l[3])
  BY DEF GivenUp
<1>9. l[2] = "uses" => data' = data \cup {l} /\ GivenUp(l) = {}
  <2> SUFFICES ASSUME l[2] = "uses" PROVE data' = data \cup {l}
    BY <1>7
  <2>1. BothEnds({l}) = {l}
    BY <1>4
  <2> QED
    BY <1>1, <1>7, <2>1
<1>10. data' \subseteq Links
  BY <1>1, <1>6 DEF TypeOK
<1>11. \A x \in data' : x \in (data \ GivenUp(l)) \/ x = l \/ x = <<l[3], "owner", l[1]>>
  BY <1>1, <1>4
<1>12. l \in data'
  BY <1>1, <1>4
<1>13. ASSUME l[2] = "owned"
       PROVE  /\ <<l[1], "owned", l[3]>> \in data' /\ <<l[3], "owner", l[1]>> \in data'
              /\ \A x \in data' :
                   \/ x = <<l[1], "owned", l[3]>> \/ x = <<l[3], "owner", l[1]>>
                   \/ x \in data /\ ~(x[2] = "owned" /\ x[3] = l[3]) /\ ~(x[2] = "owner" /\ x[1] = l[3])
              /\ \A x \in data :
                   \/ x \in data'
                   \/ x[2] = "owned" /\ x[3] = l[3]
                   \/ x[2] = "owner" /\ x[1] = l[3]
  <2>1. l = <<l[1], "owned", l[3]>>
    BY <1>2, <1>13
  <2>2. <<l[3], "owner", l[1]>> \in data'
    BY <1>1, <1>4, <1>13
  <2> QED
    BY <1>1, <1>8, <1>11, <1>12, <1>13, <2>1, <2>2
<1> QED
  BY <1>2, <1>3, <1>9, <1>10, <1>11, <1>12, <1>13

-----------------------------------------------------------------------------
(* The invariant *)

LEMMA InitInv == Init => IInv
<1> SUFFICES ASSUME Init PROVE IInv
  OBVIOUS
<1>1. NoDocument \in Documents /\ NoDocument.links = {} /\ NoDocument.root = NoElem
  BY DEF NoDocument, Documents
<1>2. TypeOK
  BY <1>1 DEF Init, TypeOK
<1> QED
  BY <1>1, <1>2 DEF Init, IInv, DocInv, MemoryInv, NodesInv, ParsedInv, OwnersAgree, FlagInv, RanInv, Ran, RanOnce

LEMMA StutterInv == IInv /\ UNCHANGED vars => IInv'
<1> SUFFICES ASSUME IInv, UNCHANGED vars PROVE IInv'
  OBVIOUS
<1>1. /\ loaded' = loaded /\ data' = data /\ policies' = policies /\ file' = file /\ damage' = damage
      /\ phase' = phase /\ entered' = entered /\ left' = left /\ read' = read /\ ran' = ran
      /\ twice' = twice /\ refused' = refused /\ failed' = failed /\ replaced' = replaced
  BY DEF vars, memory, parsing, history
<1> QED
  BY <1>1 DEF IInv, TypeOK, DocInv, MemoryInv, NodesInv, ParsedInv, Sets, OwnersAgree, FlagInv, RanInv, Ran, RanOnce,
     Nodes, Tree

\* Types.
LEMMA TypeStep == ASSUME IInv, Next PROVE TypeOK'
<1> USE DEF IInv
<1>1. file' \in Documents /\ \A l \in file'.links : l[2] # "owner"
  BY FileStep
<1>2. ASSUME NEW n \in Ids, Create(n) PROVE TypeOK'
  BY <1>1, <1>2 DEF Create, TypeOK, parsing, history
<1>3. ASSUME NEW n \in Ids, Save(n) PROVE TypeOK'
  BY <1>1, <1>3 DEF Save, TypeOK, memory, parsing, history
<1>4. CASE Lost
  BY <1>1, <1>4, LostFacts DEF TypeOK
<1>5. ASSUME NEW l \in Links, Add(l) PROVE TypeOK'
  <2>1. data' \subseteq Links /\ l \in data' /\ data \ GivenUp(l) \subseteq data'
    BY <1>5, AddFacts DEF Add
  <2>2. ran' \subseteq (ran \ GivenUp(l)) \cup {l} /\ ran \ GivenUp(l) \subseteq ran'
    BY <1>5 DEF Add
  <2>3. twice' = twice \ GivenUp(l)
    BY <1>5 DEF Add
  <2>4. ran' \subseteq data' /\ twice' \subseteq ran'
    BY <2>1, <2>2, <2>3 DEF TypeOK
  <2> QED
    BY <1>1, <1>5, <2>1, <2>4 DEF Add, TypeOK, parsing, history
<1>6. ASSUME NEW l \in Links, Remove(l) PROVE TypeOK'
  <2>1. \A x \in data : x \in BothEnds({l}) => x = l \/ x[2] = "owner"
    BY BothEndsElement
  <2>2. data' = data \ BothEnds({l}) /\ ran' = ran \ {l} /\ twice' = twice \ {l}
    BY <1>6 DEF Remove
  <2>3. \A x \in ran : x[2] # "owner"
    BY DEF RanInv, Ran
  <2> QED
    BY <1>1, <1>6, <2>1, <2>2, <2>3 DEF Remove, TypeOK, parsing, history
<1>7. CASE OpenRefused
  BY <1>1, <1>7 DEF OpenRefused, TypeOK, memory, parsing, Disabled
<1>8. CASE OpenFindsNothing
  BY <1>1, <1>8 DEF OpenFindsNothing, TypeOK, memory, parsing, Disabled, Reenabled
<1>9. CASE OpenBegins
  <2>1. Nodes(file) \subseteq Ids
    BY <1>9, OpenedTree DEF OpenBegins
  <2> QED
    BY <1>1, <1>9, <2>1 DEF OpenBegins, TypeOK, memory, history, Disabled
<1>10. ASSUME NEW n \in Ids, Enter(n) PROVE TypeOK'
  <2>1. /\ data' \subseteq data /\ ran' \subseteq data' /\ twice' \subseteq ran'
    BY <1>10 DEF Enter, Replace, TypeOK
  <2>2. replaced' \subseteq loaded' /\ entered' \subseteq loaded' /\ loaded' \subseteq Ids
    BY <1>10 DEF Enter, TypeOK
  <2> QED
    BY <1>1, <1>10, <2>1, <2>2 DEF Enter, TypeOK
<1>11. ASSUME NEW n \in Ids, ReadUses(n) PROVE TypeOK'
  <2>1. data \subseteq data' /\ data' \subseteq Links
    BY <1>11 DEF ReadUses, TypeOK, Documents, Of
  <2>2. n \in entered
    BY <1>11 DEF ReadUses, Parsing
  <2> QED
    BY <1>1, <1>11, <2>1, <2>2 DEF ReadUses, TypeOK, history
<1>12. ASSUME NEW n \in Ids, Leave(n) PROVE TypeOK'
  <2>1. data \subseteq data' /\ data' \subseteq Links
    BY <1>12, LeaveFacts
  <2>2. n \in entered /\ phase = "parsing"
    BY <1>12 DEF Leave, Complete, Parsing
  <2>3. ran' = ran /\ twice' = twice
    BY <1>12, <2>2 DEF Leave, RunsAdd, FlagInv
  <2> QED
    BY <1>1, <1>12, <2>1, <2>2, <2>3 DEF Leave, TypeOK, history
<1>13. CASE NodeThrows
  BY <1>1, <1>13 DEF NodeThrows, Ends, TypeOK, memory, Reenabled
<1>14. CASE DocumentParsed
  BY <1>1, <1>14 DEF DocumentParsed, TypeOK, memory, history, Reenabled
<1>15. ASSUME NEW S, RunsAdd(Restored(S)), Ends, UNCHANGED <<memory, policies, file, replaced>>,
              failed' \in BOOLEAN
       PROVE  TypeOK'
  <2>1. Restored(S) \subseteq data
    BY DEF Restored, Of
  <2>2. ran' \subseteq data' /\ twice' \subseteq ran'
    BY <1>15, <2>1, RunsFacts DEF TypeOK, memory
  <2> QED
    BY <1>1, <1>15, <2>2 DEF Ends, TypeOK, memory
<1>16. CASE Opened
  BY <1>15, <1>16 DEF Opened, ToRestore, TypeOK
<1>17. ASSUME NEW S, PolicyThrows(S) PROVE TypeOK'
  BY <1>15, <1>17 DEF PolicyThrows
<1> QED
  BY <1>2, <1>3, <1>4, <1>5, <1>6, <1>7, <1>8, <1>9, <1>10, <1>11, <1>12, <1>13, <1>14, <1>16, <1>17
     DEF Next, Parse, Restart, CrashInSave

\* A step ends in "idle" with nothing being parsed, or is one of the parser.
LEMMA PhaseCases ==
    ASSUME IInv, Next
    PROVE  \/ phase' = "idle" /\ entered' = {} /\ left' = {} /\ read' = {}
           \/ OpenBegins
           \/ \E n \in Ids : Enter(n) \/ ReadUses(n) \/ Leave(n)
           \/ DocumentParsed
<1>1. phase = "idle" => entered = {} /\ left = {} /\ read = {}
  BY DEF IInv, NodesInv, TypeOK
<1> QED
  BY <1>1 DEF Next, Parse, Create, Save, CrashInSave, Add, Remove, Restart, Lost, OpenRefused,
     OpenFindsNothing, NodeThrows, Opened, PolicyThrows, Ends, parsing

\* While a document is parsed it is a tree.
LEMMA ParsingTree ==
    ASSUME IInv, phase # "idle"
    PROVE  /\ Tree(file) /\ file.root \in Ids /\ Nodes(file) \subseteq Ids
           /\ file.links \subseteq Links /\ \A l \in file.links : l[1] \in Nodes(file)
           /\ \A a, b, n \in Ids : <<a, "owned", n>> \in file.links /\ <<b, "owned", n>> \in file.links => a = b
           /\ \A n \in Ids : <<n, "owned", file.root>> \notin file.links
<1>1. file # NoDocument
  BY DEF IInv, NodesInv
<1>2. /\ Tree(file) /\ file.root \in Ids /\ Nodes(file) \subseteq Ids
      /\ file.links \subseteq Links /\ \A l \in file.links : l[1] \in Nodes(file)
  BY <1>1, OpenedTree DEF IInv
<1>3. ASSUME NEW a \in Ids, NEW b \in Ids, NEW n \in Ids,
             <<a, "owned", n>> \in file.links, <<b, "owned", n>> \in file.links
      PROVE  a = b
  <2>1. <<a, "owned", n>> = <<b, "owned", n>>
    BY <1>2, <1>3 DEF Tree
  <2> QED
    BY <2>1
<1>4. \A n \in Ids : <<n, "owned", file.root>> \notin file.links
  BY <1>2 DEF Tree
<1> QED
  BY <1>2, <1>3, <1>4

\* The owner of a parsed element is parsed.
LEMMA OwnerEntered ==
    ASSUME IInv, phase # "idle", NEW n \in entered, n # file.root,
           NEW a \in Ids, <<a, "owned", n>> \in file.links
    PROVE  a \in entered
<1>1. PICK b \in entered : <<b, "owned", n>> \in file.links
  BY DEF IInv, NodesInv
<1>2. b \in Ids /\ n \in Ids
  BY DEF IInv, TypeOK
<1>3. a = b
  BY <1>1, <1>2, ParsingTree
<1> QED
  BY <1>3

\* What is in memory.
LEMMA MemoryStep == ASSUME IInv, Next PROVE MemoryInv'
<1>1. data \subseteq Links /\ MemoryInv
  BY DEF IInv, TypeOK
<1>2. ASSUME loaded \subseteq loaded', data' \subseteq data PROVE MemoryInv'
  BY <1>1, <1>2 DEF MemoryInv
<1>3. CASE Lost
  BY <1>3 DEF Lost, MemoryInv
<1>4. ASSUME NEW l \in Links, Add(l) PROVE MemoryInv'
  <2>1. loaded' = loaded /\ l[1] \in loaded /\ l[3] \in loaded
    BY <1>4 DEF Add, ClientAdds
  <2>2. \A x \in data' : x \in data \/ x = l \/ x = <<l[3], "owner", l[1]>>
    BY <1>4, AddFacts DEF IInv
  <2> QED
    BY <1>1, <2>1, <2>2 DEF MemoryInv
<1>5. ASSUME NEW n \in Ids, Enter(n) PROVE MemoryInv'
  BY <1>2, <1>5 DEF Enter, Replace
<1>6. ASSUME NEW n \in Ids, ReadUses(n) PROVE MemoryInv'
  <2>1. n \in loaded /\ loaded' = loaded
    BY <1>6 DEF ReadUses, Parsing, IInv, TypeOK
  <2>2. \A x \in data' : x \in data \/ (x[1] = n /\ x[2] = "uses")
    BY <1>6 DEF ReadUses, Of
  <2> QED
    BY <1>1, <2>1, <2>2 DEF MemoryInv
<1>7. ASSUME NEW n \in Ids, Leave(n) PROVE MemoryInv'
  <2>1. n \in entered /\ n # file.root /\ phase # "idle" /\ loaded' = loaded
    BY <1>7 DEF Leave, Complete, Parsing
  <2>2. \A x \in data' : x \in data \/
          \E a \in Ids : /\ <<a, "owned", n>> \in file.links
                         /\ x = <<a, "owned", n>> \/ x = <<n, "owner", a>>
    BY <1>7, LeaveFacts DEF IInv
  <2>3. \A a \in Ids : <<a, "owned", n>> \in file.links => a \in loaded
    BY <2>1, OwnerEntered DEF IInv, TypeOK
  <2>4. n \in loaded
    BY <2>1 DEF IInv, TypeOK
  <2>5. ASSUME NEW x \in data'
        PROVE  x[1] \in loaded /\ (x[2] = "owned" => x[3] \in loaded)
    <3>1. CASE x \in data
      BY <1>1, <3>1 DEF MemoryInv
    <3>2. ASSUME NEW a \in Ids, <<a, "owned", n>> \in file.links, x = <<a, "owned", n>>
          PROVE  x[1] \in loaded /\ (x[2] = "owned" => x[3] \in loaded)
      BY <2>3, <2>4, <3>2
    <3>3. ASSUME NEW a \in Ids, x = <<n, "owner", a>>
          PROVE  x[1] \in loaded /\ (x[2] = "owned" => x[3] \in loaded)
      BY <2>4, <3>3
    <3> QED
      BY <2>2, <3>1, <3>2, <3>3
  <2> QED
    BY <2>1, <2>5 DEF MemoryInv
<1> QED
  BY <1>2, <1>3, <1>4, <1>5, <1>6, <1>7
     DEF Next, Parse, Create, Save, CrashInSave, Remove, Restart, OpenRefused,
         OpenFindsNothing, OpenBegins, NodeThrows, DocumentParsed, Opened, PolicyThrows, memory

\* The parsed part of the tree.
LEMMA NodesStep == ASSUME IInv, Next PROVE NodesInv'
<1> USE DEF IInv
<1>1. CASE phase' = "idle" /\ entered' = {} /\ left' = {} /\ read' = {}
  BY <1>1 DEF NodesInv
<1>2. CASE OpenBegins
  BY <1>2 DEF OpenBegins, NodesInv, TypeOK
<1>3. ASSUME NEW n \in Ids, Enter(n) PROVE NodesInv'
  <2>1. /\ entered' = entered \cup {n} /\ phase' = phase /\ phase = "parsing"
        /\ file' = file /\ left' = left /\ read' = read
    BY <1>3 DEF Enter, ComesTo
  <2>2. n = file.root \/ \E a \in entered : <<a, "owned", n>> \in file.links
    BY <1>3 DEF Enter, ComesTo
  <2> QED
    BY <2>1, <2>2 DEF NodesInv
<1>4. ASSUME NEW n \in Ids, ReadUses(n) PROVE NodesInv'
  <2>1. /\ entered' = entered /\ phase' = phase /\ phase = "parsing"
        /\ file' = file /\ left' = left /\ read \subseteq read'
    BY <1>4 DEF ReadUses, Parsing
  <2> QED
    BY <2>1 DEF NodesInv
<1>5. ASSUME NEW n \in Ids, Leave(n) PROVE NodesInv'
  <2>1. /\ entered' = entered /\ phase' = phase /\ phase = "parsing"
        /\ file' = file /\ left' = left \cup {n} /\ read' = read
        /\ n # file.root /\ n \in read
        /\ \A l \in file.links : l[1] = n /\ l[2] = "owned" => l[3] \in left
    BY <1>5 DEF Leave, Complete, Parsing
  <2> QED
    BY <2>1 DEF NodesInv
<1>6. CASE DocumentParsed
  BY <1>6 DEF DocumentParsed, Complete, Parsing, NodesInv
<1> QED
  BY <1>1, <1>2, <1>3, <1>4, <1>5, <1>6, PhaseCases

\* A set of a parsed element changes only as its links in memory do, and as what is
\* complete or read does.
LEMMA SetsKept ==
    ASSUME NEW m \in Ids, Sets(m), file' = file,
           \A b \in Ids, f \in Features : <<m, f, b>> \in data' <=> <<m, f, b>> \in data,
           m \in left' <=> m \in left, m \in read' <=> m \in read,
           \A b \in Ids : <<m, "owned", b>> \in file.links => (b \in left' <=> b \in left)
    PROVE  Sets(m)'
<1>1. \A b \in Ids : <<m, "uses", b>> \in data' <=> m \in read' /\ <<m, "uses", b>> \in file.links
  BY DEF Sets, Features
<1>2. \A b \in Ids : <<m, "owned", b>> \in data' <=> b \in left' /\ <<m, "owned", b>> \in file.links
  BY DEF Sets, Features
<1>3. \A a \in Ids : <<m, "owner", a>> \in data' <=> m \in left' /\ <<a, "owned", m>> \in file.links
  BY DEF Sets, Features
<1> QED
  BY <1>1, <1>2, <1>3 DEF Sets

\* What parsed elements have, as the parser goes on.
LEMMA EnterSets ==
    ASSUME IInv, NEW n \in Ids, Enter(n)
    PROVE  \A m \in entered' : Sets(m)'
<1>1. /\ entered' = entered \cup {n} /\ n \notin entered /\ phase # "idle"
      /\ file' = file /\ left' = left /\ read' = read
  BY DEF Enter, ComesTo
<1>2. \A x : x \in data' <=> x \in data /\ x[1] # n
  BY DEF Enter, Replace
<1>3. n \notin left /\ n \notin read
  BY <1>1 DEF IInv, TypeOK
<1>4. ASSUME NEW m \in entered PROVE Sets(m)'
  <2>1. m \in Ids /\ m # n /\ Sets(m)
    BY <1>1 DEF IInv, TypeOK, ParsedInv
  <2> QED
    BY <1>1, <1>2, <2>1, SetsKept
<1>5. Sets(n)'
  <2>1. \A b \in Ids, f \in Features : <<n, f, b>> \notin data'
    BY <1>2
  <2>2. ASSUME NEW b \in Ids, b \in left, <<n, "owned", b>> \in file.links
        PROVE  FALSE
    <3>1. b \in entered /\ b # file.root
      BY <2>2 DEF IInv, TypeOK, NodesInv
    <3>2. n \in entered
      BY <1>1, <2>2, <3>1, OwnerEntered
    <3> QED
      BY <1>1, <3>2
  <2> QED
    BY <1>1, <1>3, <2>1, <2>2 DEF Sets, Features
<1> QED
  BY <1>1, <1>4, <1>5

LEMMA ReadSets ==
    ASSUME IInv, NEW n \in Ids, ReadUses(n)
    PROVE  \A m \in entered' : Sets(m)'
<1>1. /\ entered' = entered /\ n \in entered /\ n \notin read /\ phase # "idle"
      /\ file' = file /\ left' = left /\ read' = read \cup {n}
  BY DEF ReadUses, Parsing
<1>2. \A x : x \in data' <=> x \in data \/ (x \in file.links /\ x[1] = n /\ x[2] = "uses")
  BY DEF ReadUses, Of
<1>3. ASSUME NEW m \in entered PROVE Sets(m)'
  <2>1. m \in Ids /\ Sets(m)
    BY DEF IInv, TypeOK, ParsedInv
  <2>2. CASE m # n
    BY <1>1, <1>2, <2>1, <2>2, SetsKept
  <2>3. CASE m = n
    <3>1. \A b \in Ids : <<m, "uses", b>> \in data' <=> <<m, "uses", b>> \in file.links
      BY <1>1, <1>2, <2>1, <2>3 DEF Sets
    <3>2. \A b \in Ids, f \in {"owned", "owner"} : <<m, f, b>> \in data' <=> <<m, f, b>> \in data
      BY <1>2
    <3> QED
      BY <1>1, <2>1, <2>3, <3>1, <3>2 DEF Sets
  <2> QED
    BY <2>2, <2>3
<1> QED
  BY <1>1, <1>3

LEMMA LeaveSets ==
    ASSUME IInv, NEW n \in Ids, Leave(n)
    PROVE  \A m \in entered' : Sets(m)'
<1>1. /\ entered' = entered /\ n \in entered /\ phase # "idle"
      /\ file' = file /\ left' = left \cup {n} /\ read' = read
  BY DEF Leave, Complete, Parsing
<1>2. \A x \in data' : x \in data \/
        \E a \in Ids : /\ <<a, "owned", n>> \in file.links
                       /\ x = <<a, "owned", n>> \/ x = <<n, "owner", a>>
  BY LeaveFacts DEF IInv
<1>3. /\ data \subseteq data'
      /\ \A a \in Ids : <<a, "owned", n>> \in file.links =>
           <<a, "owned", n>> \in data' /\ <<n, "owner", a>> \in data'
  BY LeaveFacts DEF IInv
<1>4. ASSUME NEW m \in entered PROVE Sets(m)'
  <2>1. m \in Ids /\ Sets(m)
    BY DEF IInv, TypeOK, ParsedInv
  <2>2. \A b \in Ids : <<m, "uses", b>> \in data' <=> m \in read' /\ <<m, "uses", b>> \in file'.links
    <3>1. \A b \in Ids : <<m, "uses", b>> \in data' <=> <<m, "uses", b>> \in data
      BY <1>2, <1>3
    <3> QED
      BY <1>1, <2>1, <3>1 DEF Sets
  <2>3. ASSUME NEW b \in Ids
        PROVE  <<m, "owned", b>> \in data' <=> b \in left' /\ <<m, "owned", b>> \in file'.links
    <3>1. CASE b = n
      BY <1>1, <1>2, <1>3, <2>1, <3>1 DEF Sets
    <3>2. CASE b # n
      <4>1. <<m, "owned", b>> \in data' <=> <<m, "owned", b>> \in data
        BY <1>2, <1>3, <3>2
      <4> QED
        BY <1>1, <2>1, <3>2, <4>1 DEF Sets
    <3> QED
      BY <3>1, <3>2
  <2>4. ASSUME NEW a \in Ids
        PROVE  <<m, "owner", a>> \in data' <=> m \in left' /\ <<a, "owned", m>> \in file'.links
    <3>1. CASE m = n
      BY <1>1, <1>2, <1>3, <2>1, <3>1 DEF Sets
    <3>2. CASE m # n
      <4>1. <<m, "owner", a>> \in data' <=> <<m, "owner", a>> \in data
        BY <1>2, <1>3, <3>2
      <4> QED
        BY <1>1, <2>1, <3>2, <4>1 DEF Sets
    <3> QED
      BY <3>1, <3>2
  <2> QED
    BY <2>2, <2>3, <2>4 DEF Sets
<1> QED
  BY <1>1, <1>4

LEMMA ParsedStep == ASSUME IInv, Next PROVE ParsedInv'
<1>1. CASE phase' = "idle" /\ entered' = {} /\ left' = {} /\ read' = {}
  BY <1>1 DEF ParsedInv
<1>2. CASE OpenBegins
  <2>1. entered' = {} /\ phase' = "parsing"
    BY <1>2 DEF OpenBegins, IInv, NodesInv
  <2> QED
    BY <2>1 DEF ParsedInv
<1>3. ASSUME NEW n \in Ids, Enter(n) \/ ReadUses(n) \/ Leave(n) PROVE ParsedInv'
  <2>1. \A m \in entered' : Sets(m)'
    BY <1>3, EnterSets, ReadSets, LeaveSets
  <2>2. phase' = "parsing"
    BY <1>3 DEF Enter, ComesTo, ReadUses, Leave, Complete, Parsing
  <2> QED
    BY <2>1, <2>2 DEF ParsedInv
<1>4. CASE DocumentParsed
  <2>1. /\ UNCHANGED <<data, file, entered, left, read>> /\ phase = "parsing"
        /\ file.root \in entered /\ file.root \in read
        /\ \A l \in file.links : l[1] = file.root /\ l[2] = "owned" => l[3] \in left
    BY <1>4 DEF DocumentParsed, Complete, Parsing, memory
  <2>2. Nodes(file) \subseteq left \cup {file.root}
    <3> DEFINE C == left \cup {file.root}
    <3>1. C \subseteq Ids
      BY <2>1 DEF IInv, TypeOK
    <3>2. \A l \in file.links : l[2] = "owned" /\ l[1] \in C => l[3] \in C
      BY <2>1 DEF IInv, NodesInv
    <3>3. Tree(file) /\ file.root \in Ids
      BY <2>1, ParsingTree
    <3>4. Below(file.root, file.links) \subseteq C
      <4>1. file.root \in C
        OBVIOUS
      <4> HIDE DEF C
      <4> QED
        BY <3>1, <3>2, <3>3, <4>1, BelowLeast
    <3>5. \A l \in file.links : l[2] = "owned" => l[3] \in C
      BY <3>2, <3>3, <3>4 DEF Tree
    <3> QED
      BY <3>5, NodesElement
  <2>3. \A m \in entered : Sets(m)'
    BY <2>1 DEF IInv, ParsedInv, Sets
  <2>4. Nodes(file)' = Nodes(file)
    BY <2>1 DEF Nodes
  <2> QED
    BY <2>1, <2>2, <2>3, <2>4 DEF ParsedInv
<1> QED
  BY <1>1, <1>2, <1>3, <1>4, PhaseCases

\* Both ends of an ownership.
LEMMA OwnersStep == ASSUME IInv, Next PROVE OwnersAgree'
<1>1. data \subseteq Links /\ MemoryInv /\ OwnersAgree /\ replaced \subseteq loaded
  BY DEF IInv, TypeOK
<1>2. CASE UNCHANGED <<data, replaced>>
  BY <1>1, <1>2 DEF OwnersAgree
<1>3. CASE Lost
  BY <1>3 DEF Lost, OwnersAgree
<1>4. ASSUME NEW l \in Links, Add(l) PROVE OwnersAgree'
  <2> SUFFICES ASSUME NEW a \in Ids, NEW b \in Ids, a \notin replaced, b \notin replaced
               PROVE  <<a, "owned", b>> \in data' <=> <<b, "owner", a>> \in data'
    BY <1>4 DEF Add, history, OwnersAgree
  <2>1. <<a, "owned", b>> \in data <=> <<b, "owner", a>> \in data
    BY <1>1 DEF OwnersAgree
  <2>2. CASE l[2] = "uses"
    <3>1. \A x : x \in data' <=> x \in data \/ x = l
      BY <1>4, <2>2, AddFacts DEF IInv
    <3>2. l # <<a, "owned", b>> /\ l # <<b, "owner", a>>
      BY <2>2
    <3> QED
      BY <2>1, <3>1, <3>2
  <2>3. CASE l[2] = "owned"
    <3>1. /\ <<l[1], "owned", l[3]>> \in data' /\ <<l[3], "owner", l[1]>> \in data'
          /\ \A x \in data' :
               \/ x = <<l[1], "owned", l[3]>> \/ x = <<l[3], "owner", l[1]>>
               \/ x \in data /\ ~(x[2] = "owned" /\ x[3] = l[3]) /\ ~(x[2] = "owner" /\ x[1] = l[3])
          /\ \A x \in data :
               \/ x \in data'
               \/ x[2] = "owned" /\ x[3] = l[3]
               \/ x[2] = "owner" /\ x[1] = l[3]
      BY <1>4, <2>3, AddFacts DEF IInv
    <3>2. CASE b = l[3]
      <4>1. <<a, "owned", b>> \in data' <=> a = l[1]
        BY <3>1, <3>2
      <4>2. <<b, "owner", a>> \in data' <=> a = l[1]
        BY <3>1, <3>2
      <4> QED
        BY <4>1, <4>2
    <3>3. CASE b # l[3]
      <4>1. <<a, "owned", b>> \in data' <=> <<a, "owned", b>> \in data
        BY <3>1, <3>3
      <4>2. <<b, "owner", a>> \in data' <=> <<b, "owner", a>> \in data
        BY <3>1, <3>3
      <4> QED
        BY <2>1, <4>1, <4>2
    <3> QED
      BY <3>2, <3>3
  <2> QED
    BY <1>4, <2>2, <2>3, AddFacts DEF IInv
<1>5. ASSUME NEW l \in Links, Remove(l) PROVE OwnersAgree'
  <2> SUFFICES ASSUME NEW a \in Ids, NEW b \in Ids, a \notin replaced, b \notin replaced
               PROVE  <<a, "owned", b>> \in data' <=> <<b, "owner", a>> \in data'
    BY <1>5 DEF Remove, history, OwnersAgree
  <2>1. <<a, "owned", b>> \in data <=> <<b, "owner", a>> \in data
    BY <1>1 DEF OwnersAgree
  <2>2. l[2] # "owner" /\ \A x : x \in data' <=> x \in data /\ x \notin BothEnds({l})
    BY <1>5 DEF Remove
  <2>3. l = <<l[1], l[2], l[3]>>
    BY LinkParts
  <2>4. <<a, "owned", b>> \in BothEnds({l}) <=> l = <<a, "owned", b>>
    BY BothEndsElement
  <2>5. <<b, "owner", a>> \in BothEnds({l}) <=> l = <<a, "owned", b>>
    BY <2>2, <2>3, BothEndsElement
  <2> QED
    BY <2>1, <2>2, <2>4, <2>5
<1>6. ASSUME NEW n \in Ids, Enter(n) PROVE OwnersAgree'
  <2>1. \A x : x \in data' <=> x \in data /\ x[1] # n
    BY <1>6 DEF Enter, Replace
  <2>2. replaced' = IF n \in loaded THEN replaced \cup {n} ELSE replaced
    BY <1>6 DEF Enter
  <2>3. CASE n \in loaded
    BY <1>1, <2>1, <2>2, <2>3 DEF OwnersAgree
  <2>4. CASE n \notin loaded
    <3>1. \A x : x \in data' <=> x \in data
      BY <1>1, <2>1, <2>4 DEF MemoryInv
    <3> QED
      BY <1>1, <2>2, <2>4, <3>1 DEF OwnersAgree
  <2> QED
    BY <2>3, <2>4
<1>7. ASSUME NEW n \in Ids, ReadUses(n) PROVE OwnersAgree'
  <2>1. \A a, b \in Ids, f \in {"owned", "owner"} : <<a, f, b>> \in data' <=> <<a, f, b>> \in data
    BY <1>7 DEF ReadUses, Of
  <2> QED
    BY <1>1, <1>7, <2>1 DEF ReadUses, history, OwnersAgree
<1>8. ASSUME NEW n \in Ids, Leave(n) PROVE OwnersAgree'
  <2> SUFFICES ASSUME NEW a \in Ids, NEW b \in Ids, a \notin replaced, b \notin replaced
               PROVE  <<a, "owned", b>> \in data' <=> <<b, "owner", a>> \in data'
    BY <1>8 DEF Leave, history, OwnersAgree
  <2>1. <<a, "owned", b>> \in data <=> <<b, "owner", a>> \in data
    BY <1>1 DEF OwnersAgree
  <2>2. /\ data \subseteq data'
        /\ \A x \in data' : x \in data \/
             \E c \in Ids : /\ <<c, "owned", n>> \in file.links
                            /\ x = <<c, "owned", n>> \/ x = <<n, "owner", c>>
        /\ \A c \in Ids : <<c, "owned", n>> \in file.links =>
             <<c, "owned", n>> \in data' /\ <<n, "owner", c>> \in data'
    BY <1>8, LeaveFacts DEF IInv
  <2>3. <<a, "owned", b>> \in data' <=> <<a, "owned", b>> \in data \/ (b = n /\ <<a, "owned", b>> \in file.links)
    BY <2>2
  <2>4. <<b, "owner", a>> \in data' <=> <<b, "owner", a>> \in data \/ (b = n /\ <<a, "owned", b>> \in file.links)
    BY <2>2
  <2> QED
    BY <2>1, <2>3, <2>4
<1> QED
  BY <1>2, <1>3, <1>4, <1>5, <1>6, <1>7, <1>8
     DEF Next, Parse, Create, Save, CrashInSave, Restart, OpenRefused, OpenFindsNothing,
         OpenBegins, NodeThrows, DocumentParsed, Opened, PolicyThrows, memory, history

\* The flag.
LEMMA FlagStep == ASSUME IInv, Next PROVE FlagInv'
<1>1. FlagInv /\ phase \in {"idle", "parsing", "restoring"}
  BY DEF IInv, TypeOK
<1>2. CASE UNCHANGED <<policies, phase, refused, failed>>
  BY <1>1, <1>2 DEF FlagInv
<1>3. CASE Lost
  BY <1>3 DEF Lost, FlagInv
<1>4. CASE OpenRefused \/ OpenFindsNothing \/ OpenBegins
  BY <1>1, <1>4 DEF OpenRefused, OpenFindsNothing, OpenBegins, Disabled, Reenabled, parsing, history, FlagInv
<1>5. CASE NodeThrows \/ DocumentParsed
  BY <1>1, <1>5 DEF NodeThrows, DocumentParsed, Ends, Reenabled, history, FlagInv
<1>6. CASE Opened \/ \E S \in SUBSET ParsedElements(file.root) : PolicyThrows(S)
  BY <1>1, <1>6 DEF Opened, PolicyThrows, Ends, FlagInv
<1> QED
  BY <1>2, <1>3, <1>4, <1>5, <1>6
     DEF Next, Parse, Create, Add, Remove, Save, CrashInSave, Restart,
         Enter, ReadUses, Leave, memory, parsing, history

\* When the root is complete, memory has the document and nothing else of its elements.
LEMMA ParsedWhole ==
    ASSUME IInv, phase = "restoring"
    PROVE  /\ Nodes(file) \subseteq loaded
           /\ Of(data, Nodes(file)) = BothEnds(file.links)
           /\ entered \subseteq left \cup {file.root}
<1>1. /\ file.root \in entered \cap read /\ Nodes(file) \subseteq left \cup {file.root}
      /\ \A n \in entered : Sets(n)
  BY DEF IInv, ParsedInv
<1>2. /\ left \subseteq read /\ left \subseteq entered /\ entered \subseteq loaded /\ loaded \subseteq Ids
      /\ data \subseteq Links /\ \A l \in file.links : l[2] # "owner"
      /\ file.root \notin left
      /\ \A n \in entered \ {file.root} : \E a \in entered : <<a, "owned", n>> \in file.links
  BY DEF IInv, TypeOK, NodesInv
<1>3. /\ file.links \subseteq Links /\ \A l \in file.links : l[1] \in Nodes(file)
      /\ \A n \in Ids : <<n, "owned", file.root>> \notin file.links
  BY ParsingTree
<1>4. Nodes(file) \subseteq entered /\ Nodes(file) \subseteq read
  BY <1>1, <1>2
<1>5. ASSUME NEW n \in entered PROVE n \in Nodes(file)
  <2>1. CASE n = file.root
    BY <2>1, NodesElement
  <2>2. CASE n # file.root
    <3>1. PICK a \in entered : <<a, "owned", n>> \in file.links
      BY <1>2, <2>2
    <3> QED
      BY <3>1, NodesElement
  <2> QED
    BY <2>1, <2>2
<1>6. ASSUME NEW l \in data, l[1] \in Nodes(file) PROVE l \in BothEnds(file.links)
  <2>1. Sets(l[1]) /\ l[3] \in Ids /\ l[2] \in Features /\ l = <<l[1], l[2], l[3]>>
    BY <1>1, <1>2, <1>4, <1>6, LinkParts
  <2>2. CASE l[2] = "uses" \/ l[2] = "owned"
    <3>1. l \in file.links
      BY <2>1, <2>2 DEF Sets
    <3> QED
      BY <3>1, BothEndsElement
  <2>3. CASE l[2] = "owner"
    <3>1. <<l[3], "owned", l[1]>> \in file.links /\ l = <<l[1], "owner", l[3]>>
      BY <2>1, <2>3 DEF Sets
    <3> QED
      BY <3>1, BothEndsElement
  <2> QED
    BY <2>1, <2>2, <2>3 DEF Features
<1>7. ASSUME NEW a \in Ids, NEW b \in Ids, <<a, "owned", b>> \in file.links
      PROVE  /\ <<a, "owned", b>> \in data /\ <<b, "owner", a>> \in data
             /\ a \in Nodes(file) /\ b \in Nodes(file)
  <2>1. a \in Nodes(file) /\ b \in Nodes(file)
    BY <1>3, <1>7, NodesElement
  <2>2. b \in left /\ a \in entered /\ b \in entered
    BY <1>1, <1>3, <1>4, <1>7, <2>1
  <2> QED
    BY <1>1, <1>7, <2>1, <2>2 DEF Sets
<1>8. ASSUME NEW l \in file.links PROVE l \in data /\ l[1] \in Nodes(file)
  <2>1. l[1] \in Ids /\ l[3] \in Ids /\ l[2] \in {"uses", "owned"} /\ l = <<l[1], l[2], l[3]>>
    BY <1>2, <1>3, LinkParts DEF Features
  <2>2. l[1] \in Nodes(file) /\ l[1] \in read /\ Sets(l[1])
    BY <1>1, <1>3, <1>4
  <2>3. CASE l[2] = "uses"
    BY <2>1, <2>2, <2>3 DEF Sets
  <2>4. CASE l[2] = "owned"
    BY <1>7, <2>1, <2>4
  <2> QED
    BY <2>1, <2>2, <2>3, <2>4
<1>9. ASSUME NEW x \in BothEnds(file.links) PROVE x \in Of(data, Nodes(file))
  <2>1. CASE x \in file.links
    BY <1>8, <2>1 DEF Of
  <2>2. ASSUME NEW l \in file.links, l[2] = "owned", x = <<l[3], "owner", l[1]>>
        PROVE  x \in Of(data, Nodes(file))
    <3>1. l[1] \in Ids /\ l[3] \in Ids /\ l = <<l[1], "owned", l[3]>>
      BY <1>3, <2>2, LinkParts
    <3>2. <<l[3], "owner", l[1]>> \in data /\ l[3] \in Nodes(file)
      BY <1>7, <3>1
    <3> QED
      BY <2>2, <3>2 DEF Of
  <2> QED
    BY <2>1, <2>2, BothEndsElement
<1>10. Of(data, Nodes(file)) = BothEnds(file.links)
  BY <1>6, <1>9 DEF Of
<1> QED
  BY <1>1, <1>2, <1>4, <1>5, <1>10

\* The nodes of what is saved are in memory.
LEMMA SavedNodes ==
    ASSUME IInv, NEW r \in Ids, ClientSaves(r)
    PROVE  Nodes(Emitted(r)) \subseteq loaded
<1>1. Emitted(r).root = r /\ Emitted(r).links \subseteq data
  BY EmittedTree DEF IInv
<1>2. r \in loaded
  BY DEF ClientSaves
<1> QED
  BY <1>1, <1>2, NodesElement DEF IInv, MemoryInv

\* A link that is parsed is one of a parsed element.
LEMMA LeaveEntered ==
    ASSUME IInv, NEW n \in Ids, Leave(n), NEW x \in data', x \notin data
    PROVE  x[1] \in entered
<1>1. n \in entered /\ n # file.root /\ phase # "idle"
  BY DEF Leave, Complete, Parsing
<1>2. PICK a \in Ids : /\ <<a, "owned", n>> \in file.links
                       /\ x = <<a, "owned", n>> \/ x = <<n, "owner", a>>
  BY LeaveFacts DEF IInv
<1>3. a \in entered
  BY <1>1, <1>2, OwnerEntered
<1> QED
  BY <1>1, <1>2, <1>3

\* The policies that have run.
LEMMA RanKept == ASSUME IInv, Next PROVE Ran'
<1>1. Ran /\ FlagInv /\ ran \subseteq data /\ (phase = "idle" => entered = {})
  BY DEF IInv, RanInv, TypeOK, NodesInv
<1>2. ASSUME ran' \subseteq ran, entered' \subseteq entered PROVE Ran'
  BY <1>1, <1>2 DEF Ran
<1>3. CASE Lost
  BY <1>3 DEF Lost, Ran
<1>4. ASSUME NEW l \in Links, Add(l) PROVE Ran'
  BY <1>1, <1>4 DEF Add, parsing, Ran
<1>5. ASSUME NEW n \in Ids, Enter(n) PROVE Ran'
  BY <1>1, <1>5 DEF Enter, Replace, Ran
<1>6. ASSUME NEW n \in Ids, Leave(n) PROVE Ran'
  <2>1. ran' = ran /\ entered' = entered
    BY <1>1, <1>6 DEF Leave, Complete, Parsing, RunsAdd, FlagInv
  <2> QED
    BY <1>2, <2>1
<1>7. ASSUME NEW S, RunsAdd(Restored(S)), Ends PROVE Ran'
  <2>1. ran' \subseteq ran \cup Restored(S) /\ entered' = {}
    BY <1>7, RunsFacts DEF Ends
  <2>2. \A l \in Restored(S) : l[2] # "owner"
    BY DEF Restored
  <2> QED
    BY <1>1, <2>1, <2>2 DEF Ran
<1>8. CASE NodeThrows
  BY <1>2, <1>8 DEF NodeThrows, Ends
<1> QED
  BY <1>2, <1>3, <1>4, <1>5, <1>6, <1>7, <1>8
     DEF Next, Parse, Create, Save, CrashInSave, Remove, Restart, OpenRefused, OpenFindsNothing,
         OpenBegins, ReadUses, DocumentParsed, Opened, PolicyThrows, ToRestore, parsing

LEMMA RanOnceStep == ASSUME IInv, Next, ~failed' PROVE RanOnce'
<1>1. ASSUME ~failed PROVE RanOnce
  BY <1>1 DEF IInv, RanInv
<1>2. /\ data \subseteq Links /\ FlagInv /\ Ran /\ twice \subseteq ran
      /\ phase = "idle" => entered = {}
      /\ phase \in {"idle", "parsing", "restoring"}
  BY DEF IInv, RanInv, TypeOK, NodesInv
<1>3. CASE Lost
  BY <1>3 DEF Lost, RanOnce
<1>4. CASE UNCHANGED <<data, loaded, entered, file, ran, twice, failed>>
  <2>1. Nodes(file)' = Nodes(file) /\ RanOnce
    BY <1>1, <1>4 DEF Nodes
  <2> QED
    BY <1>4, <2>1 DEF RanOnce
<1>5. ASSUME NEW n \in Ids, Create(n) PROVE RanOnce'
  <2>1. /\ RanOnce /\ UNCHANGED <<data, entered, file, ran, twice>> /\ loaded' = loaded \cup {n}
        /\ \A l \in data : l[3] # n
    BY <1>1, <1>5 DEF Create, history, parsing
  <2>2. Nodes(file)' = Nodes(file)
    BY <2>1 DEF Nodes
  <2> QED
    BY <2>1, <2>2 DEF RanOnce
<1>6. ASSUME NEW r \in Ids, Save(r) PROVE RanOnce'
  <2>1. RanOnce /\ UNCHANGED <<data, loaded, entered, ran, twice>> /\ file' = Emitted(r) /\ ClientSaves(r)
    BY <1>1, <1>6 DEF Save, history, parsing, memory
  <2>2. Nodes(file)' \subseteq loaded
    BY <2>1, SavedNodes DEF Nodes
  <2> QED
    BY <2>1, <2>2 DEF RanOnce
<1>7. ASSUME NEW l \in Links, Add(l) PROVE RanOnce'
  <2>1. /\ RanOnce /\ UNCHANGED <<loaded, policies, file, entered>> /\ entered = {}
        /\ ran' = (ran \ GivenUp(l)) \cup (IF policies THEN {l} ELSE {})
        /\ twice' = twice \ GivenUp(l)
        /\ phase = "idle" /\ ~failed
    BY <1>1, <1>2, <1>7 DEF Add, history, parsing
  <2>2. policies
    BY <1>2, <2>1 DEF FlagInv
  <2>3. /\ \A x \in data' : x \in (data \ GivenUp(l)) \/ x = l \/ x = <<l[3], "owner", l[1]>>
        /\ l[1] \in loaded /\ l[3] \in loaded
    BY <1>7, AddFacts DEF IInv
  <2>4. Nodes(file)' = Nodes(file)
    BY <2>1 DEF Nodes
  <2>5. ran' = (ran \ GivenUp(l)) \cup {l} /\ twice' = {}
    BY <2>1, <2>2 DEF RanOnce
  <2>6. ASSUME NEW x \in data'
        PROVE  /\ x[2] # "owner" /\ x[1] \notin entered' /\ x[3] \in loaded' => x \in ran'
               /\ x[3] \in loaded' \/ x[3] \notin Nodes(file)'
    <3>1. CASE x \in data \ GivenUp(l)
      BY <2>1, <2>4, <2>5, <3>1 DEF RanOnce
    <3>2. CASE x = l
      BY <2>1, <2>3, <2>5, <3>2
    <3>3. CASE x = <<l[3], "owner", l[1]>>
      BY <2>1, <2>3, <3>3
    <3> QED
      BY <2>3, <3>1, <3>2, <3>3
  <2> QED
    BY <2>5, <2>6 DEF RanOnce
<1>8. ASSUME NEW l \in Links, Remove(l) PROVE RanOnce'
  <2>1. /\ RanOnce /\ UNCHANGED <<loaded, file, entered>>
        /\ data' = data \ BothEnds({l}) /\ ran' = ran \ {l} /\ twice' = twice \ {l}
    BY <1>1, <1>8 DEF Remove, history, parsing
  <2>2. l \in BothEnds({l})
    BY BothEndsElement
  <2>3. Nodes(file)' = Nodes(file)
    BY <2>1 DEF Nodes
  <2> QED
    BY <2>1, <2>2, <2>3 DEF RanOnce
<1>9. ASSUME NEW n \in Ids, Enter(n) PROVE RanOnce'
  <2>1. /\ RanOnce /\ UNCHANGED <<file>> /\ loaded' = loaded \cup {n} /\ entered' = entered \cup {n}
        /\ data' = Replace(data, n) /\ ran' = Replace(ran, n) /\ twice' = Replace(twice, n)
    BY <1>1, <1>9 DEF Enter
  <2>2. n \in Nodes(file)
    BY <1>9, ComesToNode DEF Enter
  <2>3. Nodes(file)' = Nodes(file)
    BY <2>1 DEF Nodes
  <2>4. twice' = {}
    BY <2>1 DEF RanOnce, Replace
  <2>5. ASSUME NEW x \in data', x[1] \notin entered'
        PROVE  /\ x[2] # "owner" /\ x[3] \in loaded' => x \in ran'
               /\ x[3] \in loaded' \/ x[3] \notin Nodes(file)'
    <3>1. x \in data /\ x[1] # n /\ x[1] \notin entered
      BY <2>1, <2>5 DEF Replace
    <3>2. x[3] \in loaded \/ x[3] \notin Nodes(file)
      BY <2>1, <3>1 DEF RanOnce
    <3>3. x[2] # "owner" /\ x[3] \in loaded => x \in ran'
      BY <2>1, <3>1 DEF RanOnce, Replace
    <3> QED
      BY <2>1, <2>2, <2>3, <3>2, <3>3
  <2> QED
    BY <2>4, <2>5 DEF RanOnce
<1>10. ASSUME NEW n \in Ids, ReadUses(n) \/ Leave(n) PROVE RanOnce'
  <2>1. phase = "parsing" /\ n \in entered
    BY <1>10 DEF ReadUses, Leave, Complete, Parsing
  <2>2. /\ RanOnce /\ UNCHANGED <<loaded, file, entered, ran, twice>>
    BY <1>1, <1>2, <1>10, <2>1 DEF ReadUses, Leave, RunsAdd, FlagInv, history
  <2>3. Nodes(file)' = Nodes(file)
    BY <2>2 DEF Nodes
  <2>4. ASSUME NEW x \in data', x \notin data PROVE x[1] \in entered
    <3>1. CASE ReadUses(n)
      BY <2>1, <2>4, <3>1 DEF ReadUses, Of
    <3>2. CASE Leave(n)
      BY <2>4, <3>2, LeaveEntered
    <3> QED
      BY <1>10, <3>1, <3>2
  <2> QED
    BY <2>2, <2>3, <2>4 DEF RanOnce
<1>11. CASE Opened
  <2>1. /\ RanOnce /\ UNCHANGED <<data, loaded, file>> /\ entered' = {}
        /\ RunsAdd(ToRestore) /\ phase = "restoring" /\ policies = TRUE
    BY <1>1, <1>2, <1>11 DEF Opened, Ends, FlagInv, memory, IInv, TypeOK
  <2>2. Nodes(file) \subseteq loaded /\ entered \subseteq left \cup {file.root}
    BY <2>1, ParsedWhole
  <2>3. Nodes(file)' = Nodes(file)
    BY <2>1 DEF Nodes
  <2>4. file.root \in entered /\ left \subseteq entered
    BY <2>1 DEF IInv, ParsedInv, TypeOK
  <2>5. \A l : l \in ToRestore <=>
          l \in data /\ l[1] \in left \cup {file.root} /\ l[2] # "owner" /\ l[3] \in loaded
    BY <2>4 DEF ToRestore, Restored, ParsedElements, Of
  <2>6. ran' = ran \cup ToRestore /\ twice' \subseteq twice \cup (ToRestore \cap ran)
    BY <2>1, RunsFacts
  <2>7. ToRestore \cap ran = {}
    BY <1>2, <2>4, <2>5 DEF Ran
  <2>8. twice' = {}
    BY <2>1, <2>6, <2>7 DEF RanOnce
  <2>9. \A l \in data' : l[2] # "owner" /\ l[3] \in loaded' => l \in ran'
    BY <2>1, <2>2, <2>5, <2>6 DEF RanOnce
  <2>10. \A l \in data' : l[3] \in loaded' \/ l[3] \notin Nodes(file)'
    BY <2>1, <2>2, <2>3
  <2> QED
    BY <2>1, <2>8, <2>9, <2>10 DEF RanOnce
<1> QED
  BY <1>3, <1>4, <1>5, <1>6, <1>7, <1>8, <1>9, <1>10, <1>11
     DEF Next, Parse, CrashInSave, Restart, OpenRefused, OpenFindsNothing, OpenBegins,
         NodeThrows, DocumentParsed, PolicyThrows, memory, parsing, history

LEMMA NextInv == IInv /\ [Next]_vars => IInv'
<1>1. ASSUME IInv, Next PROVE IInv'
  <2>1. DocInv'
    BY <1>1, FileStep DEF IInv
  <2>2. RanInv'
    BY <1>1, RanKept, RanOnceStep DEF RanInv
  <2> QED
    BY <1>1, <2>1, <2>2, TypeStep, MemoryStep, NodesStep, ParsedStep, OwnersStep, FlagStep DEF IInv
<1> QED
  BY <1>1, StutterInv

\* The invariant, in every state of the program.
THEOREM Invariant == Spec => []IInv
BY InitInv, NextInv, PTL DEF Spec

-----------------------------------------------------------------------------
(* What it gives *)

\* Types, and that the history is of links in memory.
THEOREM TypeCorrect == Spec => []TypeOK
BY Invariant, PTL DEF IInv

\* Both ends of an ownership name each other, but for what open() replaced (manager.h:89).
THEOREM Ownership == Spec => []OwnersAgree
BY Invariant, PTL DEF IInv

\* The elements of a parsed document are a tree in memory, and its nodes are what emitWhole
\* comes to again.
LEMMA SavedAgain ==
    ASSUME IInv, phase = "restoring"
    PROVE  ClientSaves(file.root) /\ Emitted(file.root) = file
<1> DEFINE r == file.root
           B == Below(r, data)
           F == file.links
<1>1. /\ r \in loaded /\ Nodes(file) \subseteq Ids
      /\ \A l \in data : l[1] \in Nodes(file) => l \in BothEnds(F)
      /\ F \subseteq data
  <2>1. r \in Nodes(file)
    BY NodesElement
  <2> QED
    BY <2>1, ParsedWhole, ParsingTree, BothEndsElement DEF Of
<1>2. /\ file \in Documents /\ data \subseteq Links /\ r \in Ids
      /\ \A l \in F : l[1] \in Below(r, F) /\ l[2] # "owner"
      /\ \A l \in F : l[2] = "owned" => l[3] # r
      /\ \A k, l \in F : k[2] = "owned" /\ l[2] = "owned" /\ k[3] = l[3] => k = l
  BY ParsingTree DEF IInv, TypeOK, Tree
<1>3. ASSUME NEW l \in data, l[1] \in Nodes(file), l[2] # "owner" PROVE l \in F
  <2>1. ASSUME NEW k \in F, l = <<k[3], "owner", k[1]>> PROVE FALSE
    BY <1>3, <2>1
  <2> QED
    BY <1>1, <1>3, <2>1, BothEndsElement
<1>4. B \subseteq Nodes(file)
  <2>1. \A l \in data : l[2] = "owned" /\ l[1] \in Nodes(file) => l[3] \in Nodes(file)
    BY <1>3, NodesElement
  <2>2. r \in Nodes(file)
    BY NodesElement
  <2> QED
    BY <1>1, <1>2, <2>1, <2>2, BelowLeast
<1>5. Below(r, F) \subseteq B
  <2>1. \A l \in F : l[2] = "owned" /\ l[1] \in B => l[3] \in B
    BY <1>1, <1>2, BelowClosed, LinkParts
  <2> QED
    BY <1>2, <2>1, BelowRoot, BelowLeast
<1>6. \A l \in data : l \in F <=> l[1] \in B /\ l[2] # "owner"
  BY <1>2, <1>3, <1>4, <1>5
<1>7. ClientSaves(r)
  <2>1. \A l \in Of(data, B) : l[2] = "owned" => l \in F
    BY <1>6 DEF Of
  <2>2. \A l \in data : l[1] \in B /\ l[2] = "owned" => l[3] # r
    BY <1>2, <1>6
  <2> QED
    BY <1>1, <1>2, <2>1, <2>2 DEF ClientSaves
<1>8. Emitted(r) = file
  <2>1. {l \in Of(data, B) : l[2] # "owner"} = F
    BY <1>1, <1>6 DEF Of
  <2>2. file = [root |-> r, links |-> F]
    BY <1>2 DEF Documents
  <2> QED
    BY <2>1, <2>2 DEF Emitted
<1> QED
  BY <1>7, <1>8

\* A parsed document is in memory as it was saved (yamlSerializationPolicy.h:508), and would
\* be saved again as it was: what emitWhole writes and parseWhole reads are one thing.
THEOREM Parsed == Spec => []ParsedIsSaved
<1>1. IInv => ParsedIsSaved
  BY ParsedWhole, SavedAgain DEF ParsedIsSaved
<1> QED
  BY <1>1, Invariant, PTL

\* What an open() that reaches a document leaves alone: elements that are not in it stay,
\* with their links and the history of their policies (yamlSerializationPolicy.h:247-290,
\* 487-534), whether it returns or throws.
THEOREM OthersStay == Spec => OpenKeepsOthers
<1>0. ASSUME IInv, phase # "idle"
      PROVE  /\ entered \subseteq Nodes(file) /\ ParsedElements(file.root) \subseteq Nodes(file)
             /\ \A l \in BothEnds(file.links) : l[1] \in Nodes(file)
  <2>1. ASSUME NEW n \in entered PROVE n \in Nodes(file)
    <3>1. n # file.root => \E a \in entered : <<a, "owned", n>> \in file.links
      BY <1>0 DEF IInv, NodesInv
    <3>2. \A a : <<a, "owned", n>>[2] = "owned" /\ <<a, "owned", n>>[3] = n
      OBVIOUS
    <3> QED
      BY <3>1, <3>2, NodesElement
  <2>2. left \subseteq entered
    BY <1>0 DEF IInv, TypeOK
  <2>3. ASSUME NEW l \in BothEnds(file.links) PROVE l[1] \in Nodes(file)
    BY <1>0, ParsingTree, BothEndsElement, NodesElement
  <2> QED
    BY <2>1, <2>2, <2>3 DEF ParsedElements
<1>1. ASSUME IInv, Parse
      PROVE  /\ loaded \subseteq loaded' /\ loaded' \subseteq loaded \cup Nodes(file)
             /\ \A l \in Links : l[1] \notin Nodes(file) =>
                  (l \in data' <=> l \in data) /\ (l \in ran' <=> l \in ran)
  <2>1. ASSUME NEW n \in Ids, Enter(n)
        PROVE  /\ loaded' = loaded \cup {n} /\ n \in Nodes(file)
               /\ data' = {l \in data : l[1] # n} /\ ran' = {l \in ran : l[1] # n}
    <3>1. n = file.root \/ \E a : <<a, "owned", n>> \in file.links
      BY <2>1 DEF Enter, ComesTo
    <3>2. \A a : <<a, "owned", n>>[2] = "owned" /\ <<a, "owned", n>>[3] = n
      OBVIOUS
    <3>3. n \in Nodes(file)
      BY <3>1, <3>2, NodesElement
    <3> QED
      BY <2>1, <3>3 DEF Enter, Replace
  <2>2. ASSUME NEW n \in Ids, ReadUses(n)
        PROVE  /\ loaded' = loaded /\ ran' = ran /\ data \subseteq data'
               /\ \A l \in data' : l \in data \/ l \in file.links
    BY <2>2 DEF ReadUses, Of
  <2>3. ASSUME NEW n \in Ids, Leave(n)
        PROVE  /\ loaded' = loaded /\ data \subseteq data' /\ ran \subseteq ran'
               /\ \A l \in data' : l \in data \/ l \in BothEnds(file.links)
               /\ \A l \in ran' : l \in ran \/ l \in file.links
    <3> DEFINE T == {l \in file.links : l[2] = "owned" /\ l[3] = n}
    <3>1. loaded' = loaded /\ data' = data \cup BothEnds(T) /\ RunsAdd(T)
      BY <2>3 DEF Leave
    <3>2. BothEnds(T) \subseteq BothEnds(file.links)
      BY BothEndsElement
    <3> QED
      BY <3>1, <3>2, RunsFacts
  <2>4. ASSUME NEW S, S \subseteq ParsedElements(file.root), RunsAdd(Restored(S)), phase = "restoring"
        PROVE  ran \subseteq ran' /\ \A l \in ran' : l \in ran \/ l[1] \in Nodes(file)
    <3>1. ParsedElements(file.root) \subseteq Nodes(file)
      BY <1>0, <1>1, <2>4
    <3>2. \A l \in Restored(S) : l[1] \in S
      BY DEF Restored, Of
    <3>3. ran \subseteq ran' /\ ran' \subseteq ran \cup Restored(S)
      BY <2>4, RunsFacts
    <3> QED
      BY <2>4, <3>1, <3>2, <3>3
  <2>5. phase # "idle"
    BY <1>1 DEF Parse, Enter, ComesTo, ReadUses, Leave, Complete, Parsing, NodeThrows, DocumentParsed,
                Opened, PolicyThrows
  <2>6. \A l \in file.links : l \in BothEnds(file.links)
    BY BothEndsElement
  <2>7. CASE UNCHANGED <<memory, ran>>
    BY <2>7 DEF memory
  <2>8. CASE Opened
    BY <2>4, <2>8 DEF Opened, memory, ToRestore
  <2>9. ASSUME NEW S \in SUBSET ParsedElements(file.root), PolicyThrows(S)
        PROVE  /\ UNCHANGED memory
               /\ ran \subseteq ran' /\ \A l \in ran' : l \in ran \/ l[1] \in Nodes(file)
    BY <2>4, <2>9 DEF PolicyThrows
  <2> QED
    BY <1>0, <1>1, <2>1, <2>2, <2>3, <2>5, <2>6, <2>7, <2>8, <2>9
       DEF Parse, NodeThrows, DocumentParsed, memory
<1>2. IInv /\ [Next]_vars
        => [Parse =>
              /\ loaded \subseteq loaded' /\ loaded' \subseteq loaded \cup Nodes(file)
              /\ \A l \in Links : l[1] \notin Nodes(file) =>
                   (l \in data' <=> l \in data) /\ (l \in ran' <=> l \in ran)]_vars
  BY <1>1
<1> QED
  BY <1>2, Invariant, PTL DEF Spec, OpenKeepsOthers

\* Add policies are on again after open(), but for a refusal (yamlSerializationPolicy.h:513).
THEOREM PoliciesOn == Spec => []PoliciesOnUnlessRefused
<1>1. IInv => PoliciesOnUnlessRefused
  BY DEF IInv, FlagInv, PoliciesOnUnlessRefused
<1> QED
  BY <1>1, Invariant, PTL

\* Without a failure every add policy has run once (yamlSerializationPolicy.h:527).
THEOREM PoliciesOnce == Spec => []PoliciesRanOnce
<1>1. IInv => PoliciesRanOnce
  BY DEF IInv, NodesInv, RanInv, RanOnce, PoliciesRanOnce
<1> QED
  BY <1>1, Invariant, PTL

\* Add policies run in an open() when the document is in memory (yamlSerializationPolicy.h:511).
THEOREM PoliciesLast == Spec => PoliciesSeeWhole
<1>1. ASSUME IInv, Next, phase # "idle", ~(ran' \subseteq ran)
      PROVE  Nodes(file) \subseteq loaded /\ BothEnds(file.links) \subseteq data
  <2>1. phase = "restoring"
    <3>1. FlagInv /\ phase \in {"idle", "parsing", "restoring"}
      BY <1>1 DEF IInv, TypeOK
    <3>2. ASSUME NEW n \in Ids, Enter(n) PROVE ran' \subseteq ran
      BY <3>2 DEF Enter, Replace
    <3>3. ASSUME NEW n \in Ids, ReadUses(n) \/ Leave(n) PROVE phase = "restoring" \/ ran' = ran
      BY <3>1, <3>3 DEF ReadUses, Leave, Complete, Parsing, RunsAdd, FlagInv
    <3>4. Lost => ran' \subseteq ran
      BY DEF Lost
    <3> QED
      BY <1>1, <3>1, <3>2, <3>3, <3>4
         DEF Next, Parse, Create, Add, Remove, Save, CrashInSave, Restart, OpenRefused, OpenFindsNothing,
             OpenBegins, NodeThrows, DocumentParsed, Opened, PolicyThrows
  <2> QED
    BY <1>1, <2>1, ParsedWhole DEF Of
<1>2. IInv /\ [Next]_vars
        => [phase # "idle" /\ ~(ran' \subseteq ran)
              => Nodes(file) \subseteq loaded /\ BothEnds(file.links) \subseteq data]_vars
  BY <1>1
<1> QED
  BY <1>2, Invariant, PTL DEF Spec, PoliciesSeeWhole

\* The parser creates the element of every node of the document at most once, reads its
\* "uses" once and completes it once, and takes nothing else for a node, whatever is in
\* memory: open() makes at most 3 * Cardinality(Nodes(file)) + 1 steps.
THEOREM OpenGetsOn ==
    Spec => [][phase # "idle" /\ phase' # "idle" =>
                 /\ file' = file /\ entered \subseteq entered' /\ read \subseteq read' /\ left \subseteq left'
                 /\ entered' \cup read' \cup left' \subseteq Nodes(file)
                 /\ \/ <<entered, read, left>>' # <<entered, read, left>>
                    \/ phase = "parsing" /\ phase' = "restoring"]_vars
<1>0. ASSUME IInv PROVE phase # "idle" => entered \cup read \cup left \subseteq Nodes(file)
  <2>1. ASSUME NEW n \in entered PROVE n \in Nodes(file)
    <3>1. n # file.root => \E a \in entered : <<a, "owned", n>> \in file.links
      BY <1>0 DEF IInv, NodesInv
    <3>2. \A a : <<a, "owned", n>>[2] = "owned" /\ <<a, "owned", n>>[3] = n
      OBVIOUS
    <3>. QED  BY <3>1, <3>2, NodesElement
  <2>. QED  BY <1>0, <2>1 DEF IInv, TypeOK
<1>1. ASSUME IInv, Next, phase # "idle", phase' # "idle"
      PROVE  /\ file' = file /\ entered \subseteq entered' /\ read \subseteq read' /\ left \subseteq left'
             /\ entered' \cup read' \cup left' \subseteq Nodes(file)
             /\ \/ <<entered, read, left>>' # <<entered, read, left>>
                \/ phase = "parsing" /\ phase' = "restoring"
  <2>1. CASE \E n \in Ids : Enter(n)
    BY <1>0, <1>1, <2>1, ComesToNode DEF Enter, ComesTo
  <2>2. CASE \E n \in Ids : ReadUses(n)
    BY <1>0, <1>1, <2>2 DEF ReadUses, Parsing
  <2>3. CASE \E n \in Ids : Leave(n)
    BY <1>0, <1>1, <2>3 DEF Leave, Complete, Parsing
  <2>4. CASE DocumentParsed
    BY <1>0, <1>1, <2>4 DEF DocumentParsed, Complete, Parsing
  <2>5. ~OpenBegins
    BY <1>1 DEF OpenBegins
  <2>. QED  BY <1>1, <2>1, <2>2, <2>3, <2>4, <2>5, PhaseCases
<1>. QED  BY <1>1, Invariant, PTL DEF Spec

=============================================================================
