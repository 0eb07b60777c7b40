----------------------------- MODULE MCOrderedSets -----------------------------
(* TestDiamondSuperSetElement (setTest.cpp:1521-1539) with one more set below left. *)
EXTENDS OrderedSets, TLC

CONSTANTS a, b

DiamondLeafSets == {"root", "left", "right", "bottom", "leaf"}
DiamondLeafSupers ==
    [s \in DiamondLeafSets |->
        CASE s = "root"   -> {}
          [] s = "bottom" -> {"left", "right"}
          [] s = "leaf"   -> {"left"}
          [] OTHER        -> {"root"}]

=============================================================================
