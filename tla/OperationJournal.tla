--------------------------- MODULE OperationJournal ---------------------------
(***************************************************************************)
(* agent/operation-journal.ts: one host operation in the journal of an      *)
(* Agent, and the managers that claim, execute and finish it. A manager is  *)
(* one instance (one ownerId); instances follow each other over crashes and *)
(* may overlap over one store. Every `await` of the store and of the        *)
(* executor is a point where the others move.                               *)
(*                                                                         *)
(* From adapters/_node-host-operation-executor.ts: an execution past the    *)
(* deadline or without authority is refused, and the process it starts is   *)
(* in a group of its own, which outlives a crash of the Agent.              *)
(***************************************************************************)
EXTENDS Integers, Sequences

CONSTANTS
  Managers,    \* instances of the manager, in the order nobody fixes
  Nobody,      \* the owner of a record without a lease
  Slots,       \* executions a manager runs at once (`concurrency`)
  Deadline,    \* request.deadline
  Settle,      \* the second that a lease counts from at least
  Grace,       \* the minute a lease outlives its deadline by
  MaxClock,    \* bound: the clock stops here
  MaxCalls,    \* bound: calls of submit, reconcile and close
  MaxFaults    \* bound: store calls that fail and crashes

ASSUME JournalAssumption ==
  /\ Nobody \notin Managers
  /\ Deadline \in Nat /\ Settle \in Nat /\ MaxClock \in Nat
  /\ MaxCalls \in Nat /\ MaxFaults \in Nat
  /\ Grace \in Nat \ {0}

VARIABLES
  clock,     \* Date.now()
  record,    \* the journal record of the operation
  manager,   \* manager[m]: whether it lives, is closed, has the id pending
  slot,      \* slot[m][k]: one execute() of a manager
  process,   \* the child processes of the operation, in the order of their start
  used,      \* what has been used of the bounds
  waiting    \* waiting[m]: a caller of reconcile or close awaits idleness

journalVars == <<clock, record, manager, slot, process, used, waiting>>

-----------------------------------------------------------------------------
(* The data. *)

Record == [status : {"none", "queued", "running", "succeeded", "failed"},
           owner : Managers \cup {Nobody},
           expiresAt : Nat,
           attempts : Nat,
           stamp : Nat]         \* updatedAt, which every write moves on

NoRecord == [status |-> "none", owner |-> Nobody, expiresAt |-> 0,
             attempts |-> 0, stamp |-> 0]

Final(r) == r.status \in {"succeeded", "failed"}
Expired(r) == r.status = "running" /\ r.expiresAt <= clock

Outcome == {"none", "succeeded", "failed"}

(* An execute(): where it is, the record it has read, the outcome it will   *)
(* record (none: it has no result) and whether a finish has failed before.  *)
Slot == [phase : {"idle", "claim", "claiming", "execute", "running", "finish",
                  "finishing"},
         seen : Record,
         outcome : Outcome,
         again : BOOLEAN]

IdleSlot == [phase |-> "idle", seen |-> NoRecord, outcome |-> "none", again |-> FALSE]

Up(m) == manager[m].life = "up"
Active(m) == {k \in Slots : slot[m][k].phase # "idle"}

Step(m, k, s) == slot' = [slot EXCEPT ![m][k] = s]

-----------------------------------------------------------------------------
(* drain and notifyIdle, after what their caller did to the manager, its    *)
(* executions and its waiter: an idle slot takes the pending id, and who    *)
(* waits is told when nothing is active or pending.                         *)
Drain(m, g, slots, waits) ==
  LET free == {k \in Slots : slots[k].phase = "idle"}
      taken == g.pending /\ ~g.closed /\ free # {} IN
  /\ \E k \in IF taken THEN free ELSE Slots :
       slot' = [slot EXCEPT ![m] =
         IF taken THEN [slots EXCEPT ![k] = [IdleSlot EXCEPT !.phase = "claim"]]
                  ELSE slots]
  /\ manager' = [manager EXCEPT ![m] = [g EXCEPT !.pending = @ /\ ~taken]]
  /\ waiting' = [waiting EXCEPT ![m] = waits /\ (g.pending \/ free # Slots)]

Schedule(m, g, waits) == Drain(m, [g EXCEPT !.pending = TRUE], slot[m], waits)

Open(m) == Up(m) /\ ~manager[m].closed

Called(m) ==
  /\ Open(m)
  /\ used.calls < MaxCalls
  /\ used' = [used EXCEPT !.calls = @ + 1]

(* submit: the first request of the id is stored; a queued one is scheduled.*)
Submit(m) ==
  /\ Called(m)
  /\ clock < Deadline
  /\ record.status \in {"none", "queued"}
  /\ record' = IF record.status = "none"
                 THEN [NoRecord EXCEPT !.status = "queued", !.stamp = 1]
                 ELSE record
  /\ Schedule(m, manager[m], waiting[m])
  /\ UNCHANGED <<clock, process>>

Discovered == record.status = "queued" \/ Expired(record)

(* reconcile: what is queued or has lapsed is scheduled, and the caller     *)
(* waits until the manager is idle.                                        *)
Reconcile(m) ==
  /\ Called(m)
  /\ Discovered
  /\ Schedule(m, manager[m], TRUE)
  /\ UNCHANGED <<clock, record, process>>

(* `found` is a history field: the operation was queued at the start. *)
Started(m) ==
  [manager[m] EXCEPT !.life = "up", !.found = record.status = "queued"]

(* Mutated form: a new instance that does not look at what is queued. *)
StartUnreconciled(m) ==
  /\ manager[m].life = "new"
  /\ Drain(m, Started(m), slot[m], FALSE)
  /\ UNCHANGED <<clock, record, process, used>>

(* A new instance, whose host reconciles at once and only then. *)
Start(m) ==
  /\ manager[m].life = "new"
  /\ IF Discovered THEN Schedule(m, Started(m), TRUE)
                   ELSE Drain(m, Started(m), slot[m], FALSE)
  /\ UNCHANGED <<clock, record, process, used>>

(* close: nothing more is taken, and the caller waits for what runs. *)
Close(m) ==
  /\ Called(m)
  /\ Drain(m, [manager[m] EXCEPT !.closed = TRUE, !.pending = FALSE], slot[m], TRUE)
  /\ UNCHANGED <<clock, record, process>>

(* Mutated form: an execution that ends without drain and notifyIdle. *)
EndsUnheard(m, k) ==
  slot' = [slot EXCEPT ![m][k] = IdleSlot] /\ UNCHANGED <<manager, waiting>>

Ends(m, k) == Drain(m, manager[m], [slot[m] EXCEPT ![k] = IdleSlot], waiting[m])

(* claim, up to its read: neither queued nor lapsed is not claimed. *)
ReadForClaim(m, k) ==
  /\ slot[m][k].phase = "claim"
  /\ IF Discovered
       THEN /\ Step(m, k, [slot[m][k] EXCEPT !.phase = "claiming", !.seen = record])
            /\ UNCHANGED <<manager, waiting>>
       ELSE Ends(m, k)
  /\ UNCHANGED <<clock, record, process, used>>

Expiry == (IF Deadline > clock + Settle THEN Deadline ELSE clock + Settle) + Grace

(* Mutated form: a claim that does not compare what it replaces. *)
WriteClaimBlindly(m, k) ==
  LET s == slot[m][k] IN
  /\ s.phase = "claiming"
  /\ record' = [status |-> "running", owner |-> m, expiresAt |-> Expiry,
                attempts |-> s.seen.attempts + 1, stamp |-> s.seen.stamp + 1]
  /\ Step(m, k, [IdleSlot EXCEPT !.phase = "execute"])
  /\ UNCHANGED <<clock, manager, process, used, waiting>>

(* claim, its compare-and-set: on the stamp it has read, or again. *)
WriteClaim(m, k) ==
  LET s == slot[m][k] IN
  /\ s.phase = "claiming"
  /\ IF record.stamp = s.seen.stamp
       THEN /\ record' = [status |-> "running", owner |-> m, expiresAt |-> Expiry,
                          attempts |-> s.seen.attempts + 1, stamp |-> s.seen.stamp + 1]
            /\ Step(m, k, [IdleSlot EXCEPT !.phase = "execute"])
       ELSE /\ Step(m, k, [IdleSlot EXCEPT !.phase = "claim"])
            /\ UNCHANGED record
  /\ UNCHANGED <<clock, manager, process, used, waiting>>

Finishing(outcome) == [IdleSlot EXCEPT !.phase = "finish", !.outcome = outcome]

(* executor.execute, up to the spawn: refused for want of authority, or     *)
(* because the deadline is over. What it throws is a finish without result. *)
Refuse(m, k) ==
  /\ slot[m][k].phase = "execute"
  /\ Step(m, k, Finishing("none"))
  /\ UNCHANGED <<clock, record, manager, process, used, waiting>>

Spawn(m, k) ==
  /\ slot[m][k].phase = "execute"
  /\ clock < Deadline
  /\ Step(m, k, [IdleSlot EXCEPT !.phase = "running"])
  /\ process' = Append(process, "none")
  /\ UNCHANGED <<clock, record, manager, used, waiting>>

(* executor.execute, its result: the process ended, or was killed at the    *)
(* deadline, which counts as failed.                                       *)
Return(m, k, outcome) ==
  /\ slot[m][k].phase = "running"
  /\ Step(m, k, Finishing(outcome))
  /\ process' = [process EXCEPT ![Len(process)] = outcome]
  /\ UNCHANGED <<clock, record, manager, used, waiting>>

(* Mutated form: whoever finishes overwrites what stands. *)
FinishesAny(m) == record.status # "none"

(* finish applies to the running record this manager holds. *)
Finishes(m) == record.status = "running" /\ record.owner = m

ReadForFinish(m, k) ==
  /\ slot[m][k].phase = "finish"
  /\ IF Finishes(m)
       THEN /\ Step(m, k, [slot[m][k] EXCEPT !.phase = "finishing", !.seen = record])
            /\ UNCHANGED <<manager, waiting>>
       ELSE Ends(m, k)
  /\ UNCHANGED <<clock, record, process, used>>

(* Mutated form: no result is no failure. *)
RecordedUnlessFailed(outcome) == IF outcome = "failed" THEN "failed" ELSE "succeeded"

Recorded(outcome) == IF outcome = "succeeded" THEN "succeeded" ELSE "failed"

(* Mutated form: the lease is left on the final record. *)
FinishedWithLease(s) ==
  [s.seen EXCEPT !.status = Recorded(s.outcome), !.stamp = @ + 1]

Finished(s) == [s.seen EXCEPT !.status = Recorded(s.outcome), !.owner = Nobody,
                              !.expiresAt = 0, !.stamp = @ + 1]

WriteFinish(m, k) ==
  LET s == slot[m][k] IN
  /\ s.phase = "finishing"
  /\ IF record.stamp = s.seen.stamp
       THEN record' = Finished(s) /\ Ends(m, k)
       ELSE /\ Step(m, k, [s EXCEPT !.phase = "finish", !.seen = NoRecord])
            /\ UNCHANGED <<record, manager, waiting>>
  /\ UNCHANGED <<clock, process, used>>

Die(m) ==
  /\ manager' = [manager EXCEPT ![m] = [life |-> "dead", closed |-> TRUE,
                                          pending |-> FALSE, found |-> FALSE]]
  /\ slot' = [slot EXCEPT ![m] = [k \in Slots |-> IdleSlot]]
  /\ waiting' = [waiting EXCEPT ![m] = FALSE]

(* A store call of an execution fails, after its write or before it. The    *)
(* first failure of a finish is caught and finishes without result; any     *)
(* other is a rejection nobody handles, which ends the process.             *)
StoreFails(m, k) ==
  LET s == slot[m][k] IN
  /\ s.phase \in {"claim", "claiming", "finish", "finishing"}
  /\ used.faults < MaxFaults
  /\ used' = [used EXCEPT !.faults = @ + 1]
  /\ \/ UNCHANGED record
     \/ /\ s.phase = "finishing"
        /\ record.stamp = s.seen.stamp
        /\ record' = Finished(s)
  /\ IF s.phase \in {"finish", "finishing"} /\ ~s.again
       THEN /\ Step(m, k, [Finishing("none") EXCEPT !.again = TRUE])
            /\ UNCHANGED <<manager, waiting>>
       ELSE Die(m)
  /\ UNCHANGED <<clock, process>>

(* The Agent dies; the process of the operation does not. *)
Crash(m) ==
  /\ Up(m)
  /\ used.faults < MaxFaults
  /\ used' = [used EXCEPT !.faults = @ + 1]
  /\ Die(m)
  /\ UNCHANGED <<clock, record, process>>

Tick ==
  /\ clock < MaxClock
  /\ clock' = clock + 1
  /\ UNCHANGED <<record, manager, slot, process, used, waiting>>

-----------------------------------------------------------------------------
JournalInit ==
  /\ clock = 0
  /\ record = NoRecord
  /\ manager = [m \in Managers |-> [life |-> "new", closed |-> FALSE,
                                pending |-> FALSE, found |-> FALSE]]
  /\ slot = [m \in Managers |-> [k \in Slots |-> IdleSlot]]
  /\ process = <<>>
  /\ used = [calls |-> 0, faults |-> 0]
  /\ waiting = [m \in Managers |-> FALSE]

Execution(m, k) ==
  \/ ReadForClaim(m, k) \/ WriteClaim(m, k)
  \/ Refuse(m, k) \/ Spawn(m, k)
  \/ \E outcome \in {"succeeded", "failed"} : Return(m, k, outcome)
  \/ ReadForFinish(m, k) \/ WriteFinish(m, k)

JournalNext ==
  \/ \E m \in Managers :
       \/ Start(m) \/ Submit(m) \/ Reconcile(m) \/ Close(m) \/ Crash(m)
       \/ \E k \in Slots : Execution(m, k) \/ StoreFails(m, k)
  \/ Tick

JournalSpec == JournalInit /\ [][JournalNext]_journalVars

(* The steps of an execution follow each other; its process ends, at its    *)
(* deadline at the latest. A supervisor starts the next instance.           *)
FairJournalSpec ==
  /\ JournalSpec
  /\ WF_journalVars(\E m \in Managers : Start(m))
  /\ WF_journalVars(\E m \in Managers, k \in Slots : Execution(m, k))

-----------------------------------------------------------------------------
(* The properties. *)

(* Type correctness; a record has an owner and a lease while it runs, and   *)
(* then only.                                                              *)
JournalTypeOK ==
  /\ clock \in 0 .. MaxClock
  /\ record \in Record
  /\ record.status = "running" <=> record.owner # Nobody
  /\ manager \in [Managers -> [life : {"new", "up", "dead"}, closed : BOOLEAN,
                               pending : BOOLEAN, found : BOOLEAN]]
  /\ slot \in [Managers -> [Slots -> Slot]]
  /\ process \in Seq(Outcome)
  /\ used \in [calls : 0 .. MaxCalls, faults : 0 .. MaxFaults]
  /\ waiting \in [Managers -> BOOLEAN]

(* An operation is started at most once, whatever crashes, lapses and is    *)
(* recovered by another instance: a lease outlives the deadline, so what    *)
(* recovers it is refused by the executor.                                  *)
StartedAtMostOnce == Len(process) <= 1

(* The journal says succeeded only of a process that did. It says failed of *)
(* one that succeeded, or that still runs, only after a failed store call,  *)
(* a crash or a lapsed lease.                                               *)
ResultIsHonest ==
  /\ record.status = "succeeded" => \E i \in 1 .. Len(process) : process[i] = "succeeded"
  /\ record.status = "failed" /\ used.faults = 0 /\ record.attempts <= 1
       => \A i \in 1 .. Len(process) : process[i] = "failed"

(* A final record is never written again: not by the late finish of an      *)
(* execution whose lease lapsed, nor by a resubmission.                     *)
FinalStands == [][Final(record) => UNCHANGED record]_journalVars

(* Taken over by nobody: the lease of an instance that died. Only the start *)
(* of another instance after its expiry recovers it.                        *)
Orphaned == record.status = "running" /\ ~Up(record.owner)

(* An instance ended, none is left to start, and none that is open has found *)
(* the operation queued: it waits for a reconcile nobody owes.              *)
NoSuccessor ==
  /\ \A m \in Managers : manager[m].life # "new" /\ ~(Open(m) /\ manager[m].found)
  /\ \E m \in Managers : ~Open(m)

(* A queued operation gets a final record, across crashes and restarts,     *)
(* unless its holder dies with the lease or no instance is left to start.   *)
QueuedIsDecided == record.status = "queued" ~> (Final(record) \/ Orphaned \/ NoSuccessor)

(* Who waits for idleness, in reconcile or close, is told. *)
WaiterIsTold == \A m \in Managers : waiting[m] ~> ~waiting[m]
(* The journal implements an operation that is claimed, started and decided *)
(* in one step each: what managers read, compare and retry, and what they   *)
(* have pending, is hidden (operation-journal.ts:170-262).                  *)
Operation == INSTANCE HostOperation WITH
  op <- [status |-> record.status, owner |-> record.owner, until |-> record.expiresAt],
  disturbed <- used.faults > 0 \/ record.attempts > 1

ImplementsOperation == Operation!Spec
===============================================================================
