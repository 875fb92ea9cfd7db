-------------------------- MODULE MCOperationJournal --------------------------
(* A small instance of OperationJournal for TLC. *)
EXTENDS OperationJournal, TLC

CONSTANTS m1, m2, k1, k2

MCManagers == {m1, m2}
MCSlots == {k1, k2}
===============================================================================
