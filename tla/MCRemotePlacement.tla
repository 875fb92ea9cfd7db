--------------------------- MODULE MCRemotePlacement ---------------------------
(* A small instance of RemotePlacement for TLC. *)
EXTENDS RemotePlacement, TLC

CONSTANTS h1, h2, p1, p2

MCHandlers == {h1, h2}
MCProcs == {p1, p2}
MCOneProc == {p1}
MCRemoteSymmetry == Permutations(MCHandlers)
================================================================================
