--------------------------- MODULE MCRuntimeHandover ---------------------------
(* Small instances of RuntimeHandover for TLC. *)
EXTENDS RuntimeHandover, TLC

CONSTANTS r1, r2, q1, q2

MCRelease == {r1, r2}
MCReq == {q1, q2}
MCOneReq == {q1}
MCReleaseSymmetry == Permutations(MCRelease)
================================================================================
