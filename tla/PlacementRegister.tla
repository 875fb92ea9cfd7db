--------------------------- MODULE PlacementRegister ---------------------------
(***************************************************************************)
(* What the placement authority promises about one Project, whatever reads, *)
(* policy checks and compare-and-set attempts its implementation makes: a   *)
(* register with at most one holder, granted in one step.                   *)
(*                                                                         *)
(* A holder is superseded only when its lease is over and it has been       *)
(* proved stopped; otherwise it must give the Project up itself (Release)   *)
(* or the Project must be deleted (Forget).                                 *)
(***************************************************************************)
EXTENDS Integers

CONSTANTS
  Owners,   \* (node, Platform session) pairs that may own the Project
  Nobody,   \* the owner of a free register
  LeaseMs   \* the longest lease one grant or extension may promise

VARIABLES
  clock,         \* the authority's wall clock
  reg,           \* [owner, epoch, until]: who may act, in which epoch, how long
  provedStopped  \* the holders the fencing step has proved stopped

vars == <<clock, reg, provedStopped>>

Holder == [owner |-> reg.owner, epoch |-> reg.epoch]
Free == reg.owner = Nobody

Init ==
  /\ clock = 0
  /\ reg = [owner |-> Nobody, epoch |-> 0, until |-> 0]
  /\ provedStopped = {}

Grant(o) ==
  /\ Free \/ (reg.until <= clock /\ Holder \in provedStopped)
  /\ \E until \in 0 .. clock + LeaseMs :
       reg' = [owner |-> o, epoch |-> reg.epoch + 1, until |-> until]
  /\ UNCHANGED <<clock, provedStopped>>

(* An extension never shortens the lease and never promises more than       *)
(* LeaseMs from the moment it is made.                                      *)
Extend ==
  /\ ~Free
  /\ \E until \in reg.until .. clock + LeaseMs : reg' = [reg EXCEPT !.until = until]
  /\ UNCHANGED <<clock, provedStopped>>

Release ==
  /\ reg' = [owner |-> Nobody, epoch |-> reg.epoch, until |-> 0]
  /\ UNCHANGED <<clock, provedStopped>>

Forget ==
  /\ reg' = [owner |-> Nobody, epoch |-> 0, until |-> 0]
  /\ UNCHANGED <<clock, provedStopped>>

ProveStopped ==
  /\ provedStopped \subseteq provedStopped'
  /\ UNCHANGED <<clock, reg>>

Tick ==
  /\ clock' = clock + 1
  /\ UNCHANGED <<reg, provedStopped>>

Next ==
  \/ \E o \in Owners : Grant(o)
  \/ Extend
  \/ Release
  \/ Forget
  \/ ProveStopped
  \/ Tick

Spec == Init /\ [][Next]_vars
================================================================================
