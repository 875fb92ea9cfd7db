--------------------------- MODULE MCAgentPlacement ---------------------------
(* Small instances of AgentPlacement for TLC. *)
EXTENDS AgentPlacement, TLC

CONSTANTS o1, o2, c1, p1, p2

MCOwners == {o1, o2}
MCCallers == {c1}
MCProcs == {p1, p2}
MCOneProc == {p1}
MCSymmetry == Permutations(MCOwners) \cup Permutations(MCProcs)
================================================================================
