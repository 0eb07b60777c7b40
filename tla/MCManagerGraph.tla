---------------------------- MODULE MCManagerGraph ----------------------------
(***************************************************************************)
(* Instances of ManagerGraph for TLC: three elements and two handles.      *)
(***************************************************************************)
EXTENDS ManagerGraph, TLC

CONSTANTS i1, i2, i3, h1, h2

ThreeIds == {i1, i2, i3}
TwoHandles == {h1, h2}

\* The ids are drawn at random and the handles are alike.
Symmetric == Permutations(ThreeIds) \cup Permutations(TwoHandles)

=============================================================================
