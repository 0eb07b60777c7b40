------------------------------- MODULE MCProject -------------------------------
(* An instance of Project for TLC: three elements. *)
EXTENDS Project, TLC

CONSTANTS e1, e2, e3, none

ThreeIds == {e1, e2, e3}

Symmetric == Permutations(ThreeIds)

=============================================================================
