--------------------------- MODULE MCTenantMovement ---------------------------
(* A small instance of TenantMovement for TLC. *)
EXTENDS TenantMovement, TLC

CONSTANTS s1, s2

MCShards == {s1, s2}
===============================================================================
