------------------------------ MODULE MCOpposites ------------------------------
(* Instances of Opposites for TLC: three elements of the tests' classes. *)
EXTENDS Opposites, TLC

CONSTANTS e1, e2, e3

ThreeElems == {e1, e2, e3}

\* TestElement (managerTest.cpp:207-232): a Set and a Singleton.
OwnerFeatures == {"ownedElements", "owner"}
OwnerOpp == [f \in OwnerFeatures |-> IF f = "owner" THEN "ownedElements" ELSE "owner"]

\* TestElement2 (setTest.cpp:573-584) and README.md: a Set that is its own opposite.
PeerFeatures == {"references"}
PeerOpp == [f \in PeerFeatures |-> f]

Symmetric == Permutations(ThreeElems)

=============================================================================
