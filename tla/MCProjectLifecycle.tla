-------------------------- MODULE MCProjectLifecycle --------------------------
(* A small instance of ProjectLifecycle for TLC. *)
EXTENDS ProjectLifecycle, TLC

CONSTANTS c1

MCOperators == {c1}
================================================================================
