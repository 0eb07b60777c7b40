----------------------------- MODULE MCSubsetSets -----------------------------
(* Instances of SubsetSets for TLC: superset graphs of the test classes. *)
EXTENDS SubsetSets, TLC

CONSTANTS a, b, c

\* TestDiamondSuperSetElement (setTest.cpp:1521-1539).
DiamondSets == {"root", "left", "right", "bottom"}
DiamondSupers ==
    [s \in DiamondSets |->
        CASE s = "root"   -> {}
          [] s = "bottom" -> {"left", "right"}
          [] OTHER        -> {"root"}]

=============================================================================
