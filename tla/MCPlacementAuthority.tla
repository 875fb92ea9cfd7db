------------------------- MODULE MCPlacementAuthority -------------------------
(* A small instance of PlacementAuthority for TLC. *)
EXTENDS PlacementAuthority, TLC

CONSTANTS o1, o2, c1, c2

MCOwners == {o1, o2}
MCCallers == {c1, c2}
MCSymmetry == Permutations(MCOwners) \cup Permutations(MCCallers)
================================================================================
