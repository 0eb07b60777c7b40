------------------------------ MODULE ElementSets ------------------------------
(***************************************************************************)
(* The sets of one element from its construction to its destruction:       *)
(* SetTopology builds the relations, then the client uses the sets         *)
(* (SubsetSets), then the sets are destroyed with what they hold.          *)
(* The sets of SubsetSets are the roots of the redefinition groups.        *)
(***************************************************************************)
EXTENDS SubsetSets, SetTopology

Built == made = Calls /\ alive = AllSets

ElementInit == Init /\ TopologyInit

Construct == Declare /\ UNCHANGED vars

Use == Built /\ Next /\ UNCHANGED topologyVars

\* A destroyed set takes its mark out of its direct supersets only.
DestroySet(s) ==
    /\ clearing = NoSet
    /\ Destroy(s)
    /\ data' = [u \in Sets |-> IF u = s THEN {} ELSE data[u]]
    /\ marks' = [u \in Sets |->
           IF u = s THEN {} ELSE IF u \in supers[s] THEN marks[u] \ {s} ELSE marks[u]]
    /\ UNCHANGED <<size, refs, clearing>>

ElementNext == Construct \/ Use \/ \E s \in AllSets : DestroySet(s)

ElementSpec == ElementInit /\ [][ElementNext]_<<vars, topologyVars>>

-----------------------------------------------------------------------------

\* What SubsetSets takes for granted is what the constructors build: the sets that
\* hold data are the roots, and the searches follow exactly the edges of Supers.
BuiltIsSupers ==
    Built => /\ {root[s] : s \in AllSets} = Sets
             /\ \A s \in Sets : supers[s] = Supers[s] /\ subs[s] = {t \in Sets : s \in Supers[t]}

=============================================================================
