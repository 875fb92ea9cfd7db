---------------------------- MODULE HighWaterRecord ----------------------------
(***************************************************************************)
(* What an Agent promises of the placement it holds for one Project         *)
(* (core/agent/remote-placement.ts:124, "never takes a newer owner over an   *)
(* old process"), whatever reads, fencing and compare-and-set attempts its   *)
(* handlers make: a record that changes in one step, and only upwards.       *)
(*                                                                         *)
(* A newer placement takes the place of an active one only when the lease   *)
(* of that one is over; a renewal never shortens it; what was given up is    *)
(* never extended again.                                                     *)
(***************************************************************************)
EXTENDS Integers

CONSTANT Unplaced  \* the record of an Agent that was told of no placement

VARIABLES
  clock,  \* the wall clock of the Agent
  high    \* the record: [epoch, revision, until, state]

vars == <<clock, high>>

Active == high.state = "active"

Init == clock = 0 /\ high = Unplaced

(* A placement of a higher epoch is told. *)
Supersede ==
  /\ Active => high.until <= clock
  /\ high'.epoch > high.epoch
  /\ high'.state = "active"
  /\ UNCHANGED clock

(* A later write of the same placement is told: a renewal. *)
Extend ==
  /\ Active
  /\ high'.epoch = high.epoch
  /\ high'.revision > high.revision
  /\ high'.until >= high.until
  /\ high'.state = "active"
  /\ UNCHANGED clock

(* The placement was stopped here. *)
GiveUp ==
  /\ Active
  /\ high' = [high EXCEPT !.state = "released"]
  /\ UNCHANGED clock

Tick ==
  /\ clock' = clock + 1
  /\ UNCHANGED high

Next == Supersede \/ Extend \/ GiveUp \/ Tick

Spec == Init /\ [][Next]_vars
================================================================================
