---------------------------- MODULE MCElementSets ----------------------------
(* TestDiamondSuperSetElement (setTest.cpp:1521-1539), its left set at the end of a *)
(* chain of two redefinitions, for TLC.                                             *)
EXTENDS ElementSets, TLC

CONSTANTS a, b

DiamondSets == {"root", "left", "right", "bottom"}
DiamondSupers ==
    [s \in DiamondSets |->
        CASE s = "root"   -> {}
          [] s = "bottom" -> {"left", "right"}
          [] OTHER        -> {"root"}]

DeclaredSets == DiamondSets \cup {"oldLeft", "oldestLeft"}
DeclaredSubsets ==
    {<<"oldestLeft", "root">>, <<"right", "root">>, <<"bottom", "oldLeft">>, <<"bottom", "right">>}
DeclaredRedefines == {<<"oldLeft", "oldestLeft">>, <<"left", "oldLeft">>}
DeclaredCompositions == {<<"oldestLeft", "COMPOSITE">>}

=============================================================================
