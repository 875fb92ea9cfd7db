----------------------------- MODULE HostOperation -----------------------------
(***************************************************************************)
(* What the Agent's journal promises about one host operation, whatever     *)
(* managers crash, overlap, retry and read late: an operation that is       *)
(* claimed, started and decided, each in one step.                          *)
(*                                                                         *)
(* A claim outlives the deadline, nothing is started at the deadline or     *)
(* later, and what is decided stays decided: so an operation is started at  *)
(* most once.                                                               *)
(***************************************************************************)
EXTENDS Integers, Sequences

CONSTANTS
  Managers,  \* who may claim the operation
  Nobody,    \* the owner of an operation without a claim
  Deadline   \* the end of the time it may be started in

VARIABLES
  clock,
  op,        \* [status, owner, until]: the claim, and what was decided
  process,   \* the processes that were started, "none" while one runs
  disturbed  \* something failed, crashed or lapsed

vars == <<clock, op, process, disturbed>>

Init ==
  /\ clock = 0
  /\ op = [status |-> "none", owner |-> Nobody, until |-> 0]
  /\ process = <<>>
  /\ disturbed = FALSE

Submit ==
  /\ op.status = "none" /\ clock < Deadline
  /\ op' = [status |-> "queued", owner |-> Nobody, until |-> 0]
  /\ UNCHANGED <<clock, process, disturbed>>

Lapsed == op.status = "running" /\ op.until <= clock

Claim(m) ==
  /\ op.status = "queued" \/ Lapsed
  /\ op' = [status |-> "running", owner |-> m, until |-> op'.until]
  /\ op'.until > Deadline
  /\ disturbed' = (disturbed \/ Lapsed)
  /\ UNCHANGED <<clock, process>>

Start ==
  /\ op.status = "running" /\ clock < Deadline
  /\ process = <<>> /\ process' = <<"none">>
  /\ UNCHANGED <<clock, op, disturbed>>

End(outcome) ==
  /\ process = <<"none">> /\ process' = <<outcome>>
  /\ UNCHANGED <<clock, op, disturbed>>

(* It is decided by what its process did; a disturbance may make it failed. *)
Decide(outcome) ==
  /\ op.status = "running"
  /\ \/ process = <<outcome>>
     \/ outcome = "failed" /\ (process = <<>> \/ disturbed)
  /\ op' = [status |-> outcome, owner |-> Nobody, until |-> 0]
  /\ disturbed' \in {disturbed, TRUE}
  /\ UNCHANGED <<clock, process>>

Disturb ==
  /\ disturbed' = TRUE
  /\ UNCHANGED <<clock, op, process>>

Tick ==
  /\ clock' = clock + 1
  /\ UNCHANGED <<op, process, disturbed>>

Next ==
  \/ Submit \/ Start \/ Disturb \/ Tick
  \/ \E m \in Managers : Claim(m)
  \/ \E outcome \in {"succeeded", "failed"} : End(outcome) \/ Decide(outcome)

Spec == Init /\ [][Next]_vars
================================================================================
