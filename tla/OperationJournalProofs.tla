------------------------- MODULE OperationJournalProofs -------------------------
(***************************************************************************)
(* Proofs about OperationJournal, for every number of managers and slots    *)
(* and every deadline, grace and bound.                                     *)
(*                                                                         *)
(* The argument: every write moves the stamp on, so a compare-and-set that  *)
(* succeeds finds the very record it has read; and a lease outlives the     *)
(* deadline, so before the deadline only a queued record is claimed, and    *)
(* that once.                                                               *)
(***************************************************************************)
EXTENDS OperationJournal, SequenceTheorems, TLAPS

-----------------------------------------------------------------------------
(* Types. *)

Manager == [life : {"new", "up", "dead"}, closed : BOOLEAN, pending : BOOLEAN,
            found : BOOLEAN]

(* The empty record and the idle execution. *)
LEMMA SlotConstants ==
  /\ NoRecord \in Record /\ IdleSlot \in Slot
  /\ IdleSlot.phase = "idle"
  BY DEF NoRecord, Record, IdleSlot, Slot, Outcome

(* A slot with a new phase, and nothing else, is a slot. *)
LEMMA SlotPhases ==
  ASSUME NEW phase \in {"claim", "claiming", "execute", "running", "finish", "finishing"}
  PROVE  [IdleSlot EXCEPT !.phase = phase] \in Slot
  BY SlotConstants DEF IdleSlot, Slot

(* Changing one slot. *)
LEMMA StepTypes ==
  ASSUME JournalTypeOK, NEW m \in Managers, NEW k \in Slots, NEW s \in Slot, Step(m, k, s)
  PROVE  /\ slot' \in [Managers -> [Slots -> Slot]]
         /\ slot'[m][k] = s
         /\ \A n \in Managers, l \in Slots :
              n # m \/ l # k => slot'[n][l] = slot[n][l]
  BY DEF JournalTypeOK, Step

(* drain and notifyIdle. *)
LEMMA DrainTypes ==
  ASSUME JournalTypeOK, NEW m \in Managers, NEW g \in Manager,
         NEW slots \in [Slots -> Slot], NEW waits \in BOOLEAN, Drain(m, g, slots, waits)
  PROVE  /\ slot' \in [Managers -> [Slots -> Slot]]
         /\ manager' \in [Managers -> Manager]
         /\ waiting' \in [Managers -> BOOLEAN]
         /\ \A n \in Managers \ {m} : slot'[n] = slot[n]
         /\ \A k \in Slots : slot'[m][k] = slots[k] \/ slot'[m][k].phase = "claim"
  <1>. DEFINE free == {k \in Slots : slots[k].phase = "idle"}
              taken == g.pending /\ ~g.closed /\ free # {}
              claim == [IdleSlot EXCEPT !.phase = "claim"]
  <1>1. claim \in Slot /\ claim.phase = "claim"
    BY SlotPhases DEF IdleSlot
  <1>2. PICK k \in Slots :
          slot' = [slot EXCEPT ![m] = IF taken THEN [slots EXCEPT ![k] = claim] ELSE slots]
    BY DEF Drain
  <1>3. manager' = [manager EXCEPT ![m] = [g EXCEPT !.pending = @ /\ ~taken]]
    BY DEF Drain
  <1>4. waiting' = [waiting EXCEPT ![m] = waits /\ (g.pending \/ free # Slots)]
    BY DEF Drain
  <1>5. (waits /\ (g.pending \/ free # Slots)) \in BOOLEAN /\ (g.pending /\ ~taken) \in BOOLEAN
    OBVIOUS
  <1>. HIDE DEF claim, taken, free
  <1>6. [g EXCEPT !.pending = @ /\ ~taken] \in Manager
    BY <1>5 DEF Manager
  <1>7. manager' \in [Managers -> Manager] /\ waiting' \in [Managers -> BOOLEAN]
    BY <1>3, <1>4, <1>5, <1>6 DEF JournalTypeOK, Manager
  <1>8. CASE taken
    <2>1. slot' = [slot EXCEPT ![m] = [slots EXCEPT ![k] = claim]]
      BY <1>2, <1>8
    <2>. QED
      BY <1>1, <1>7, <2>1 DEF JournalTypeOK
  <1>9. CASE ~taken
    <2>1. slot' = [slot EXCEPT ![m] = slots]
      BY <1>2, <1>9
    <2>. QED
      BY <1>7, <2>1 DEF JournalTypeOK
  <1>. QED
    BY <1>8, <1>9

(* An execution that ends, and a manager that dies. *)
LEMMA EndsTypes ==
  ASSUME JournalTypeOK, NEW m \in Managers, NEW k \in Slots, Ends(m, k)
  PROVE  /\ slot' \in [Managers -> [Slots -> Slot]]
         /\ manager' \in [Managers -> Manager]
         /\ waiting' \in [Managers -> BOOLEAN]
         /\ slot'[m][k].phase \in {"idle", "claim"}
         /\ \A n \in Managers, l \in Slots :
              n # m \/ l # k => slot'[n][l] = slot[n][l] \/ slot'[n][l].phase = "claim"
  <1>. DEFINE slots == [slot[m] EXCEPT ![k] = IdleSlot]
  <1>1. slots \in [Slots -> Slot]
    BY SlotConstants DEF JournalTypeOK
  <1>2. manager[m] \in Manager /\ waiting[m] \in BOOLEAN
    BY DEF JournalTypeOK, Manager
  <1>3. Drain(m, manager[m], slots, waiting[m])
    BY DEF Ends
  <1>4. slots[k] = IdleSlot /\ \A l \in Slots \ {k} : slots[l] = slot[m][l]
    BY DEF JournalTypeOK
  <1>. HIDE DEF slots
  <1>5. /\ slot' \in [Managers -> [Slots -> Slot]]
        /\ manager' \in [Managers -> Manager]
        /\ waiting' \in [Managers -> BOOLEAN]
        /\ \A n \in Managers \ {m} : slot'[n] = slot[n]
        /\ \A l \in Slots : slot'[m][l] = slots[l] \/ slot'[m][l].phase = "claim"
    BY <1>1, <1>2, <1>3, DrainTypes
  <1>. QED
    BY <1>4, <1>5, SlotConstants

(* The end of a manager: all its executions are gone. *)
LEMMA DieTypes ==
  ASSUME JournalTypeOK, NEW m \in Managers, Die(m)
  PROVE  /\ slot' \in [Managers -> [Slots -> Slot]]
         /\ manager' \in [Managers -> Manager]
         /\ waiting' \in [Managers -> BOOLEAN]
         /\ \A k \in Slots : slot'[m][k] = IdleSlot
         /\ \A n \in Managers \ {m} : slot'[n] = slot[n]
  <1>1. [life |-> "dead", closed |-> TRUE, pending |-> FALSE, found |-> FALSE] \in Manager
    BY DEF Manager
  <1>2. [k \in Slots |-> IdleSlot] \in [Slots -> Slot]
    BY SlotConstants
  <1>. QED
    BY <1>1, <1>2 DEF Die, JournalTypeOK, Manager

(* A call, or the start of an instance: only idle slots change. *)
Quiet ==
  \A m \in Managers, k \in Slots :
    slot'[m][k] = slot[m][k] \/ slot'[m][k].phase \in {"idle", "claim"}

(* What a call does to the manager and its executions. *)
LEMMA CallTypes ==
  ASSUME JournalTypeOK, NEW m \in Managers, NEW g \in Manager, NEW waits \in BOOLEAN,
         Drain(m, g, slot[m], waits) \/ Schedule(m, g, waits)
  PROVE  /\ slot' \in [Managers -> [Slots -> Slot]]
         /\ manager' \in [Managers -> Manager]
         /\ waiting' \in [Managers -> BOOLEAN]
         /\ Quiet
  <1>1. slot[m] \in [Slots -> Slot] /\ [g EXCEPT !.pending = TRUE] \in Manager
    BY DEF JournalTypeOK, Manager
  <1>2. PICK h \in Manager : Drain(m, h, slot[m], waits)
    BY <1>1 DEF Schedule
  <1>3. /\ slot' \in [Managers -> [Slots -> Slot]]
        /\ manager' \in [Managers -> Manager]
        /\ waiting' \in [Managers -> BOOLEAN]
        /\ \A n \in Managers \ {m} : slot'[n] = slot[n]
        /\ \A k \in Slots : slot'[m][k] = slot[m][k] \/ slot'[m][k].phase = "claim"
    BY <1>1, <1>2, DrainTypes
  <1>. QED
    BY <1>3 DEF Quiet

(* The calls of a manager, its start and its crash leave types, and the     *)
(* executions, in order.                                                    *)
LEMMA ManagerTypes ==
  ASSUME JournalTypeOK, NEW m \in Managers,
         Start(m) \/ Submit(m) \/ Reconcile(m) \/ Close(m) \/ Crash(m)
  PROVE  JournalTypeOK' /\ Quiet
  <1>. USE JournalAssumption
  <1>0. /\ manager[m] \in Manager /\ waiting[m] \in BOOLEAN
        /\ Started(m) \in Manager
        /\ [manager[m] EXCEPT !.closed = TRUE, !.pending = FALSE] \in Manager
    BY DEF JournalTypeOK, Manager, Started
  <1>. DEFINE Control == /\ slot' \in [Managers -> [Slots -> Slot]]
                         /\ manager' \in [Managers -> Manager]
                         /\ waiting' \in [Managers -> BOOLEAN]
                         /\ Quiet
  <1>1. ASSUME Called(m) PROVE used' \in [calls : 0 .. MaxCalls, faults : 0 .. MaxFaults]
    BY <1>1 DEF Called, JournalTypeOK
  <1>2. CASE Start(m)
    <2>1. Control
      BY <1>0, <1>2, CallTypes DEF Start
    <2>. QED
      BY <1>2, <2>1 DEF Start, JournalTypeOK, Manager
  <1>3. CASE Submit(m)
    <2>1. Control
      BY <1>0, <1>3, CallTypes DEF Submit
    <2>2. /\ [NoRecord EXCEPT !.status = "queued", !.stamp = 1] \in Record
          /\ [NoRecord EXCEPT !.status = "queued", !.stamp = 1].owner = Nobody
          /\ [NoRecord EXCEPT !.status = "queued", !.stamp = 1].status = "queued"
      BY DEF NoRecord, Record
    <2>3. record' \in Record /\ (record'.status = "running" <=> record'.owner # Nobody)
      BY <1>3, <2>2 DEF Submit, JournalTypeOK
    <2>. QED
      BY <1>1, <1>3, <2>1, <2>3 DEF Submit, JournalTypeOK, Manager
  <1>4. CASE Reconcile(m)
    <2>1. Control
      BY <1>0, <1>4, CallTypes DEF Reconcile
    <2>. QED
      BY <1>1, <1>4, <2>1 DEF Reconcile, JournalTypeOK, Manager
  <1>5. CASE Close(m)
    <2>1. Control
      BY <1>0, <1>5, CallTypes DEF Close
    <2>. QED
      BY <1>1, <1>5, <2>1 DEF Close, JournalTypeOK, Manager
  <1>6. CASE Crash(m)
    <2>1. Control
      BY <1>6, DieTypes, SlotConstants DEF Crash, Quiet
    <2>2. used' \in [calls : 0 .. MaxCalls, faults : 0 .. MaxFaults]
      BY <1>6 DEF Crash, JournalTypeOK
    <2>. QED
      BY <1>6, <2>1, <2>2 DEF Crash, JournalTypeOK, Manager
  <1>. QED
    BY <1>2, <1>3, <1>4, <1>5, <1>6

OthersQuiet(m, k) ==
  \A n \in Managers, l \in Slots : n # m \/ l # k =>
    slot'[n][l] = slot[n][l] \/ slot'[n][l].phase \in {"idle", "claim"}

(* The records a claim and a finish write. *)
LEMMA RecordTypes ==
  ASSUME JournalTypeOK, NEW m \in Managers, NEW s \in Slot
  PROVE  /\ [status |-> "running", owner |-> m, expiresAt |-> Expiry,
             attempts |-> s.seen.attempts + 1, stamp |-> s.seen.stamp + 1] \in Record
         /\ Finished(s) \in Record
         /\ Finished(s).status = Recorded(s.outcome)
         /\ Finished(s).status \in {"succeeded", "failed"}
         /\ Finished(s).owner = Nobody
         /\ Finished(s).attempts = s.seen.attempts
         /\ Finished(s).stamp = s.seen.stamp + 1
         /\ s.seen.stamp \in Nat /\ s.seen.attempts \in Nat
  <1>. USE JournalAssumption
  <1>1. s.seen \in Record /\ s.seen.attempts \in Nat /\ s.seen.stamp \in Nat
    BY DEF Slot, Record
  <1>2. Expiry \in Nat
    BY DEF JournalTypeOK, Expiry
  <1>3. Recorded(s.outcome) \in {"succeeded", "failed"}
    BY DEF Recorded
  <1>4. /\ Finished(s) \in Record /\ Finished(s).status = Recorded(s.outcome)
        /\ Finished(s).owner = Nobody /\ Finished(s).attempts = s.seen.attempts
        /\ Finished(s).stamp = s.seen.stamp + 1
    <2>. DEFINE stamp == s.seen.stamp + 1
    <2>1. stamp \in Nat
      BY <1>1
    <2>2. Finished(s) = [s.seen EXCEPT !.status = Recorded(s.outcome), !.owner = Nobody,
                                       !.expiresAt = 0, !.stamp = stamp]
      BY DEF Finished
    <2>. HIDE DEF stamp
    <2>3. Recorded(s.outcome) \in {"none", "queued", "running", "succeeded", "failed"}
      BY <1>3
    <2>4. /\ Finished(s) \in Record /\ Finished(s).status = Recorded(s.outcome)
          /\ Finished(s).owner = Nobody /\ Finished(s).attempts = s.seen.attempts
          /\ Finished(s).stamp = stamp
      <3>. DEFINE r == s.seen
                  status == Recorded(s.outcome)
                  e == Finished(s)
      <3>1. /\ r \in Record /\ e = [r EXCEPT !.status = status, !.owner = Nobody,
                                          !.expiresAt = 0, !.stamp = stamp]
            /\ status \in {"none", "queued", "running", "succeeded", "failed"}
        BY <1>1, <2>2, <2>3
      <3>. HIDE DEF r, status, e
      <3>2. e \in Record
        BY <2>1, <3>1 DEF Record
      <3>3. e.status = status /\ e.owner = Nobody /\ e.attempts = r.attempts /\ e.stamp = stamp
        BY <3>1 DEF Record
      <3>. QED
        BY <3>2, <3>3 DEF r, status, e
    <2>. QED
      BY <2>4 DEF stamp
  <1>5. [status |-> "running", owner |-> m, expiresAt |-> Expiry,
         attempts |-> s.seen.attempts + 1, stamp |-> s.seen.stamp + 1] \in Record
    BY <1>1, <1>2 DEF Record
  <1>. QED
    BY <1>1, <1>3, <1>4, <1>5

(* The steps of an execution. *)
LEMMA ExecutionTypes ==
  ASSUME JournalTypeOK, NEW m \in Managers, NEW k \in Slots,
         Execution(m, k) \/ StoreFails(m, k)
  PROVE  JournalTypeOK' /\ OthersQuiet(m, k)
  <1>. USE JournalAssumption DEF OthersQuiet
  <1>0. /\ slot[m][k] \in Slot /\ slot[m][k].seen \in Record /\ record \in Record
        /\ Nobody # m /\ manager \in [Managers -> Manager]
    BY DEF JournalTypeOK, Slot, Manager
  <1>1. CASE ReadForClaim(m, k)
    <2>1. [slot[m][k] EXCEPT !.phase = "claiming", !.seen = record] \in Slot
      BY <1>0 DEF Slot
    <2>2. slot' \in [Managers -> [Slots -> Slot]] /\ OthersQuiet(m, k)
          /\ manager' \in [Managers -> Manager] /\ waiting' \in [Managers -> BOOLEAN]
      <3>1. CASE Ends(m, k)
        BY <3>1, EndsTypes
      <3>2. CASE ~Ends(m, k)
        BY <1>0, <1>1, <2>1, <3>2, StepTypes DEF ReadForClaim, JournalTypeOK
      <3>. QED
        BY <3>1, <3>2
    <2>. QED
      BY <1>1, <2>2 DEF ReadForClaim, JournalTypeOK, Manager
  <1>2. CASE WriteClaim(m, k)
    <2>1. slot' \in [Managers -> [Slots -> Slot]] /\ OthersQuiet(m, k)
      BY <1>2, SlotPhases, StepTypes DEF WriteClaim
    <2>2. record' \in Record /\ (record'.status = "running" <=> record'.owner # Nobody)
      <3>. DEFINE claimed == [status |-> "running", owner |-> m, expiresAt |-> Expiry,
                              attempts |-> slot[m][k].seen.attempts + 1,
                              stamp |-> slot[m][k].seen.stamp + 1]
      <3>1. claimed \in Record /\ claimed.status = "running" /\ claimed.owner = m
        BY <1>0, RecordTypes
      <3>2. record' = claimed \/ record' = record
        BY <1>2 DEF WriteClaim
      <3>. HIDE DEF claimed
      <3>. QED
        BY <1>0, <3>1, <3>2 DEF JournalTypeOK
    <2>. QED
      BY <1>2, <2>1, <2>2 DEF WriteClaim, JournalTypeOK
  <1>3. ASSUME NEW outcome \in Outcome
        PROVE  Finishing(outcome) \in Slot
    BY <1>3, SlotConstants DEF Finishing, IdleSlot, Slot
  <1>4. CASE Refuse(m, k)
    <2>1. slot' \in [Managers -> [Slots -> Slot]] /\ OthersQuiet(m, k)
      BY <1>3, <1>4, StepTypes DEF Refuse, Outcome
    <2>. QED
      BY <1>4, <2>1 DEF Refuse, JournalTypeOK
  <1>5. CASE Spawn(m, k)
    <2>1. slot' \in [Managers -> [Slots -> Slot]] /\ OthersQuiet(m, k)
      BY <1>5, SlotPhases, StepTypes DEF Spawn
    <2>2. process' \in Seq(Outcome)
      BY <1>5 DEF Spawn, JournalTypeOK, Outcome
    <2>. QED
      BY <1>5, <2>1, <2>2 DEF Spawn, JournalTypeOK
  <1>6. ASSUME NEW outcome \in {"succeeded", "failed"}, Return(m, k, outcome)
        PROVE  JournalTypeOK' /\ OthersQuiet(m, k)
    <2>1. slot' \in [Managers -> [Slots -> Slot]] /\ OthersQuiet(m, k)
      BY <1>3, <1>6, StepTypes DEF Return, Outcome
    <2>2. process' \in Seq(Outcome)
      <3>1. process \in Seq(Outcome) /\ outcome \in Outcome
        BY DEF JournalTypeOK, Outcome
      <3>2. process' = [process EXCEPT ![Len(process)] = outcome]
        BY <1>6 DEF Return
      <3>. QED
        <4>1. CASE process = <<>>
          <5>1. Len(process) = 0 /\ DOMAIN process = {}
            BY <4>1
          <5>2. process' = [i \in {} |-> process[i]] /\ process = [i \in {} |-> process[i]]
            BY <3>1, <3>2, <5>1
          <5>. QED
            BY <3>1, <5>2
        <4>2. CASE process # <<>>
          BY <3>1, <3>2, <4>2, ExceptSeq
        <4>. QED
          BY <4>1, <4>2
    <2>. QED
      BY <1>6, <2>1, <2>2 DEF Return, JournalTypeOK
  <1>7. CASE ReadForFinish(m, k)
    <2>1. [slot[m][k] EXCEPT !.phase = "finishing", !.seen = record] \in Slot
      BY <1>0 DEF Slot
    <2>2. slot' \in [Managers -> [Slots -> Slot]] /\ OthersQuiet(m, k)
          /\ manager' \in [Managers -> Manager] /\ waiting' \in [Managers -> BOOLEAN]
      <3>1. CASE Ends(m, k)
        BY <3>1, EndsTypes
      <3>2. CASE ~Ends(m, k)
        BY <1>0, <1>7, <2>1, <3>2, StepTypes DEF ReadForFinish, JournalTypeOK
      <3>. QED
        BY <3>1, <3>2
    <2>. QED
      BY <1>7, <2>2 DEF ReadForFinish, JournalTypeOK, Manager
  <1>8. CASE WriteFinish(m, k)
    <2>1. [slot[m][k] EXCEPT !.phase = "finish", !.seen = NoRecord] \in Slot
      BY <1>0, SlotConstants DEF Slot
    <2>2. slot' \in [Managers -> [Slots -> Slot]] /\ OthersQuiet(m, k)
          /\ manager' \in [Managers -> Manager] /\ waiting' \in [Managers -> BOOLEAN]
      <3>1. CASE Ends(m, k)
        BY <3>1, EndsTypes
      <3>2. CASE ~Ends(m, k)
        BY <1>0, <1>8, <2>1, <3>2, StepTypes DEF WriteFinish, JournalTypeOK
      <3>. QED
        BY <3>1, <3>2
    <2>3. record' \in Record /\ (record'.status = "running" <=> record'.owner # Nobody)
      BY <1>0, <1>8, RecordTypes DEF WriteFinish, JournalTypeOK
    <2>. QED
      BY <1>8, <2>2, <2>3 DEF WriteFinish, JournalTypeOK, Manager
  <1>9. CASE StoreFails(m, k)
    <2>1. [Finishing("none") EXCEPT !.again = TRUE] \in Slot
      BY <1>3 DEF Slot, Outcome
    <2>2. slot' \in [Managers -> [Slots -> Slot]] /\ OthersQuiet(m, k)
          /\ manager' \in [Managers -> Manager] /\ waiting' \in [Managers -> BOOLEAN]
      <3>1. CASE Die(m)
        BY <3>1, DieTypes, SlotConstants
      <3>2. CASE ~Die(m)
        BY <1>0, <1>9, <2>1, <3>2, StepTypes DEF StoreFails, JournalTypeOK
      <3>. QED
        BY <3>1, <3>2
    <2>3. record' \in Record /\ (record'.status = "running" <=> record'.owner # Nobody)
      <3>1. record' = record \/ record' = Finished(slot[m][k])
        BY <1>9 DEF StoreFails
      <3>. QED
        BY <1>0, <3>1, RecordTypes DEF JournalTypeOK
    <2>4. used' \in [calls : 0 .. MaxCalls, faults : 0 .. MaxFaults]
      <3>1. used.faults < MaxFaults /\ used' = [used EXCEPT !.faults = @ + 1]
        BY <1>9 DEF StoreFails
      <3>2. used \in [calls : 0 .. MaxCalls, faults : 0 .. MaxFaults] /\ MaxFaults \in Nat
        BY JournalAssumption DEF JournalTypeOK
      <3>. QED
        BY <3>1, <3>2
    <2>. QED
      BY <1>9, <2>2, <2>3, <2>4 DEF StoreFails, JournalTypeOK, Manager
  <1>. QED
    BY <1>1, <1>2, <1>4, <1>5, <1>6, <1>7, <1>8, <1>9 DEF Execution

(* Type correctness is inductive. *)
LEMMA JournalTypesKept == JournalTypeOK /\ [JournalNext]_journalVars => JournalTypeOK'
  <1>. SUFFICES ASSUME JournalTypeOK, [JournalNext]_journalVars PROVE JournalTypeOK'
    OBVIOUS
  <1>1. ASSUME NEW m \in Managers,
               Start(m) \/ Submit(m) \/ Reconcile(m) \/ Close(m) \/ Crash(m)
        PROVE  JournalTypeOK'
    BY <1>1, ManagerTypes
  <1>2. ASSUME NEW m \in Managers, NEW k \in Slots, Execution(m, k) \/ StoreFails(m, k)
        PROVE  JournalTypeOK'
    BY <1>2, ExecutionTypes
  <1>3. CASE Tick
    BY <1>3, JournalAssumption DEF Tick, JournalTypeOK
  <1>4. CASE UNCHANGED journalVars
    BY <1>4 DEF journalVars, JournalTypeOK
  <1>. QED
    BY <1>1, <1>2, <1>3, <1>4 DEF JournalNext

(* The initial state is well typed. *)
LEMMA JournalInitTypes == JournalInit => JournalTypeOK
  <1>. SUFFICES ASSUME JournalInit PROVE JournalTypeOK
    OBVIOUS
  <1>1. NoRecord.owner = Nobody /\ NoRecord.status = "none"
    BY DEF NoRecord
  <1>. QED
    BY <1>1, SlotConstants, JournalAssumption DEF JournalInit, JournalTypeOK

-----------------------------------------------------------------------------
(* The inductive invariant. *)

Busy(s) == s.phase \in {"execute", "running", "finish", "finishing"}
Reporting(s) == s.phase \in {"finish", "finishing"}

(* No fault so far, and one claim at most. *)
Smooth == used.faults = 0 /\ record.attempts <= 1

(* What an execution relies on: its compare-and-set succeeds only on the    *)
(* very record it read; the process is as far as its own progress says.     *)
SlotOK(s) ==
  /\ s.phase \in {"claiming", "finishing"} =>
       /\ s.seen.stamp <= record.stamp
       /\ s.seen.stamp = record.stamp => s.seen = record
  /\ s.phase = "claiming" => s.seen.status = "queued" \/ Expired(s.seen)
  /\ s.phase = "finishing" => s.seen.status = "running"
  /\ Busy(s) => record.attempts >= 1
  /\ s.phase = "execute" /\ clock < Deadline => process = <<>>
  /\ s.phase = "running" => process = <<"none">>
  /\ Reporting(s) /\ s.outcome # "none" => process = <<s.outcome>>
  /\ Smooth /\ (s.phase = "execute" \/ (Reporting(s) /\ s.outcome = "none")) => process = <<>>

(* What two executions never do at once. *)
PairOK(s, t) ==
  /\ ~(s.phase = "running" /\ t.phase = "running")
  /\ clock < Deadline => ~(s.phase = "execute" /\ t.phase = "execute")
  /\ record.attempts <= 1 => ~(Busy(s) /\ Busy(t))

SlotsOK == \A m \in Managers, k \in Slots : SlotOK(slot[m][k])

PairsOK ==
  \A m, n \in Managers, k, l \in Slots : n # m \/ l # k =>
    PairOK(slot[m][k], slot[n][l])

RecordOK ==
  /\ record.status = "none" => record.stamp = 0
  /\ record.status \in {"none", "queued"} <=> record.attempts = 0
  /\ record.attempts = 0 => process = <<>>
  /\ record.status = "running" => record.expiresAt > Deadline
  /\ process = <<>> \/ \E o \in Outcome : process = <<o>>
  /\ record.status = "succeeded" => process = <<"succeeded">>
  /\ Smooth /\ record.status = "failed" =>
       /\ process = <<>> \/ process = <<"failed">>
       /\ \A m \in Managers, k \in Slots : ~Busy(slot[m][k])

Core == SlotsOK /\ PairsOK /\ RecordOK
JournalInv == JournalTypeOK /\ Core

USE DEF Busy, Reporting, Smooth

(* The initial state satisfies it. *)
LEMMA JournalInitInv == JournalInit => JournalInv
  <1>. SUFFICES ASSUME JournalInit PROVE JournalInv
    OBVIOUS
  <1>1. \A m \in Managers, k \in Slots : slot[m][k].phase = "idle"
    BY SlotConstants DEF JournalInit
  <1>2. SlotsOK /\ PairsOK
    BY <1>1 DEF SlotsOK, SlotOK, PairsOK, PairOK
  <1>3. RecordOK
    BY DEF JournalInit, RecordOK, NoRecord
  <1>. QED
    BY <1>2, <1>3, JournalInitTypes DEF JournalInv, Core

(* The numbers the invariant compares. *)
LEMMA Numbers ==
  ASSUME JournalTypeOK
  PROVE  /\ clock \in Nat /\ record.stamp \in Nat /\ record.attempts \in Nat
         /\ record.expiresAt \in Nat /\ used.faults \in Nat /\ Deadline \in Nat
         /\ \A m \in Managers, k \in Slots :
              /\ slot[m][k] \in Slot /\ slot[m][k].seen \in Record
              /\ slot[m][k].seen.stamp \in Nat /\ slot[m][k].seen.expiresAt \in Nat
  BY JournalAssumption DEF JournalTypeOK, Record, Slot

(* A step that touches neither the record nor the process, and leaves every *)
(* execution as it is, ends it or claims anew.                              *)
LEMMA QuietKept ==
  ASSUME JournalInv, JournalTypeOK', Quiet, UNCHANGED <<record, process>>,
         clock' >= clock, used'.faults >= used.faults
  PROVE  Core'
  <1>1. /\ clock \in Nat /\ clock' \in Nat /\ Deadline \in Nat
        /\ used.faults \in Nat /\ used'.faults \in Nat
    BY Numbers DEF JournalInv, JournalTypeOK
  <1>2. ASSUME NEW m \in Managers, NEW k \in Slots PROVE SlotOK(slot[m][k])'
    <2>1. SlotOK(slot[m][k]) /\ slot[m][k].seen.expiresAt \in Nat
      BY Numbers DEF JournalInv, Core, SlotsOK
    <2>2. CASE slot'[m][k] = slot[m][k]
      BY <1>1, <2>1, <2>2 DEF SlotOK, Expired
    <2>3. CASE slot'[m][k].phase \in {"idle", "claim"}
      BY <2>3 DEF SlotOK
    <2>. QED
      BY <2>2, <2>3 DEF Quiet
  <1>3. ASSUME NEW m \in Managers, NEW n \in Managers, NEW k \in Slots, NEW l \in Slots,
               n # m \/ l # k
        PROVE  PairOK(slot[m][k], slot[n][l])'
    <2>1. PairOK(slot[m][k], slot[n][l])
      BY <1>3 DEF JournalInv, Core, PairsOK
    <2>. QED
      BY <1>1, <2>1 DEF PairOK, Quiet
  <1>4. RecordOK'
    BY <1>1 DEF JournalInv, Core, RecordOK, Quiet
  <1>. QED
    BY <1>2, <1>3, <1>4 DEF Core, SlotsOK, PairsOK

(* A step of one execution that touches neither, and does not make it begin.*)
LEMMA LocalKept ==
  ASSUME JournalInv, JournalTypeOK', NEW m \in Managers, NEW k \in Slots,
         OthersQuiet(m, k), UNCHANGED <<record, process, clock>>,
         used'.faults >= used.faults,
         SlotOK(slot[m][k])',
         slot'[m][k].phase \notin {"execute", "running"},
         Busy(slot'[m][k]) => Busy(slot[m][k])
  PROVE  Core'
  <1>1. /\ clock \in Nat /\ Deadline \in Nat /\ used.faults \in Nat /\ used'.faults \in Nat
    BY Numbers DEF JournalInv, JournalTypeOK
  <1>2. ASSUME NEW n \in Managers, NEW l \in Slots PROVE SlotOK(slot[n][l])'
    <2>1. SlotOK(slot[n][l]) /\ slot[n][l].seen.expiresAt \in Nat
      BY Numbers DEF JournalInv, Core, SlotsOK
    <2>2. CASE slot'[n][l] = slot[n][l]
      BY <1>1, <2>1, <2>2 DEF SlotOK, Expired
    <2>3. CASE slot'[n][l].phase \in {"idle", "claim"}
      BY <2>3 DEF SlotOK
    <2>. QED
      BY <2>2, <2>3 DEF OthersQuiet
  <1>3. ASSUME NEW i \in Managers, NEW n \in Managers, NEW j \in Slots, NEW l \in Slots,
               n # i \/ l # j
        PROVE  PairOK(slot[i][j], slot[n][l])'
    <2>1. PairOK(slot[i][j], slot[n][l])
      BY <1>3 DEF JournalInv, Core, PairsOK
    <2>2. /\ Busy(slot'[i][j]) => Busy(slot[i][j])
          /\ Busy(slot'[n][l]) => Busy(slot[n][l])
      BY DEF OthersQuiet
    <2>3. \A p \in {"execute", "running"} :
            /\ slot'[i][j].phase = p => slot[i][j].phase = p
            /\ slot'[n][l].phase = p => slot[n][l].phase = p
      BY DEF OthersQuiet
    <2>. QED
      BY <2>1, <2>2, <2>3 DEF PairOK
  <1>4. RecordOK'
    BY <1>1 DEF JournalInv, Core, RecordOK, OthersQuiet
  <1>. QED
    BY <1>2, <1>3, <1>4 DEF Core, SlotsOK, PairsOK

(* The invariant, seen from one execution. *)
LEMMA OwnSlot ==
  ASSUME JournalInv, NEW m \in Managers, NEW k \in Slots
  PROVE  /\ slot[m][k] \in Slot /\ SlotOK(slot[m][k]) /\ RecordOK
         /\ slot[m][k].seen.attempts \in Nat
         /\ \A n \in Managers, l \in Slots : n # m \/ l # k =>
              SlotOK(slot[n][l]) /\ PairOK(slot[m][k], slot[n][l])
  BY Numbers DEF JournalInv, Core, SlotsOK, PairsOK, Record

(* An execution claims the record. *)
LEMMA ClaimKept ==
  ASSUME JournalInv, JournalTypeOK', NEW m \in Managers, NEW k \in Slots,
         WriteClaim(m, k), OthersQuiet(m, k),
         record.stamp = slot[m][k].seen.stamp
  PROVE  Core'
  <1>. DEFINE s == slot[m][k]
  <1>0. /\ clock \in Nat /\ Deadline \in Nat /\ Expiry \in Nat /\ Expiry > Deadline
        /\ record.stamp \in Nat /\ record.attempts \in Nat /\ record.expiresAt \in Nat
    BY Numbers, JournalAssumption DEF JournalInv, Expiry
  <1>1. s.phase = "claiming" /\ s.seen = record
    BY OwnSlot DEF WriteClaim, SlotOK
  <1>2. /\ record'.status = "running" /\ record'.expiresAt > Deadline
        /\ record'.attempts = record.attempts + 1 /\ record'.stamp = record.stamp + 1
        /\ slot'[m][k].phase = "execute"
        /\ UNCHANGED <<clock, process, used>>
    <2>1. Step(m, k, [IdleSlot EXCEPT !.phase = "execute"])
      BY DEF WriteClaim
    <2>2. slot'[m][k] = [IdleSlot EXCEPT !.phase = "execute"]
      BY <2>1, SlotPhases, StepTypes DEF JournalInv
    <2>3. slot'[m][k].phase = "execute"
      BY <2>2 DEF IdleSlot
    <2>4. record' = [status |-> "running", owner |-> m, expiresAt |-> Expiry,
                     attempts |-> s.seen.attempts + 1, stamp |-> s.seen.stamp + 1]
      BY DEF WriteClaim
    <2>. QED
      BY <1>0, <1>1, <2>3, <2>4 DEF WriteClaim
  <1>3. clock < Deadline \/ record.attempts = 0 => record.attempts = 0 /\ process = <<>>
    <2>1. record.status = "queued" \/ Expired(record)
      BY <1>1, OwnSlot DEF SlotOK
    <2>. QED
      BY <1>0, <2>1, OwnSlot DEF Expired, RecordOK
  <1>4. record.attempts = 0 => \A n \in Managers, l \in Slots : ~Busy(slot[n][l])
    BY <1>0 DEF JournalInv, Core, SlotsOK, SlotOK
  <1>5. ASSUME NEW n \in Managers, NEW l \in Slots PROVE SlotOK(slot[n][l])'
    <2>0. used'.faults = used.faults
      BY <1>2
    <2>1. CASE n = m /\ l = k
      BY <1>0, <1>2, <1>3, <2>1 DEF SlotOK
    <2>2. CASE n # m \/ l # k
      <3>1. SlotOK(slot[n][l]) /\ slot[n][l].seen.stamp \in Nat
        BY Numbers DEF JournalInv, Core, SlotsOK
      <3>2. CASE slot'[n][l] = slot[n][l]
        BY <1>0, <1>2, <1>4, <2>0, <3>1, <3>2 DEF SlotOK, Expired
      <3>3. CASE slot'[n][l].phase \in {"idle", "claim"}
        BY <3>3 DEF SlotOK
      <3>. QED
        BY <2>2, <3>2, <3>3 DEF OthersQuiet
    <2>. QED
      BY <2>1, <2>2
  <1>6. ASSUME NEW i \in Managers, NEW n \in Managers, NEW j \in Slots, NEW l \in Slots,
               n # i \/ l # j
        PROVE  PairOK(slot[i][j], slot[n][l])'
    <2>1. PairOK(slot[i][j], slot[n][l])
      BY <1>6 DEF JournalInv, Core, PairsOK
    <2>2. \A a \in Managers, b \in Slots : a # m \/ b # k =>
            /\ Busy(slot'[a][b]) => Busy(slot[a][b])
            /\ slot'[a][b].phase = "running" => slot[a][b].phase = "running"
            /\ slot'[a][b].phase = "execute" => slot[a][b].phase = "execute"
      BY DEF OthersQuiet
    <2>3. CASE (i = m /\ j = k) \/ (n = m /\ l = k)
      BY <1>0, <1>2, <1>3, <1>4, <1>6, <2>2, <2>3 DEF PairOK
    <2>4. CASE (i # m \/ j # k) /\ (n # m \/ l # k)
      BY <1>0, <1>2, <2>1, <2>2, <2>4 DEF PairOK
    <2>. QED
      BY <2>3, <2>4
  <1>7. RecordOK'
    BY <1>0, <1>2, OwnSlot DEF RecordOK
  <1>. QED
    BY <1>5, <1>6, <1>7 DEF Core, SlotsOK, PairsOK

(* An execution starts its process. *)
LEMMA SpawnKept ==
  ASSUME JournalInv, JournalTypeOK', NEW m \in Managers, NEW k \in Slots,
         Spawn(m, k), OthersQuiet(m, k)
  PROVE  Core'
  <1>. DEFINE s == slot[m][k]
  <1>0. clock \in Nat /\ Deadline \in Nat /\ record.attempts \in Nat
    BY Numbers DEF JournalInv
  <1>1. s.phase = "execute" /\ clock < Deadline /\ process = <<>> /\ record.attempts >= 1
    BY OwnSlot DEF Spawn, SlotOK
  <1>2. /\ process' = <<"none">> /\ slot'[m][k].phase = "running"
        /\ UNCHANGED <<clock, record, used>>
    <2>1. Step(m, k, [IdleSlot EXCEPT !.phase = "running"])
      BY DEF Spawn
    <2>2. slot'[m][k] = [IdleSlot EXCEPT !.phase = "running"]
      BY <2>1, SlotPhases, StepTypes DEF JournalInv
    <2>3. slot'[m][k].phase = "running"
      BY <2>2 DEF IdleSlot
    <2>. QED
      BY <1>1, <2>3 DEF Spawn
  <1>3. ASSUME NEW n \in Managers, NEW l \in Slots, n # m \/ l # k
        PROVE  /\ slot[n][l].phase \notin {"execute", "running"}
               /\ ~(Reporting(slot[n][l]) /\ slot[n][l].outcome # "none")
               /\ record.attempts <= 1 => ~Busy(slot[n][l])
    <2>1. SlotOK(slot[n][l]) /\ PairOK(s, slot[n][l])
      BY <1>3, OwnSlot
    <2>. QED
      BY <1>0, <1>1, <2>1 DEF SlotOK, PairOK
  <1>4. ASSUME NEW n \in Managers, NEW l \in Slots PROVE SlotOK(slot[n][l])'
    <2>1. CASE n = m /\ l = k
      BY <1>0, <1>1, <1>2, <2>1 DEF SlotOK
    <2>2. CASE n # m \/ l # k
      <3>1. SlotOK(slot[n][l]) /\ slot[n][l].seen.stamp \in Nat
        BY Numbers DEF JournalInv, Core, SlotsOK
      <3>2. CASE slot'[n][l] = slot[n][l]
        BY <1>0, <1>1, <1>2, <1>3, <2>2, <3>1, <3>2 DEF SlotOK, Expired
      <3>3. CASE slot'[n][l].phase \in {"idle", "claim"}
        BY <3>3 DEF SlotOK
      <3>. QED
        BY <2>2, <3>2, <3>3 DEF OthersQuiet
    <2>. QED
      BY <2>1, <2>2
  <1>5. ASSUME NEW i \in Managers, NEW n \in Managers, NEW j \in Slots, NEW l \in Slots,
               n # i \/ l # j
        PROVE  PairOK(slot[i][j], slot[n][l])'
    <2>1. PairOK(slot[i][j], slot[n][l])
      BY <1>5 DEF JournalInv, Core, PairsOK
    <2>2. \A a \in Managers, b \in Slots : a # m \/ b # k =>
            /\ Busy(slot'[a][b]) => Busy(slot[a][b])
            /\ slot'[a][b].phase \notin {"execute", "running"}
      BY <1>3 DEF OthersQuiet
    <2>3. CASE (i = m /\ j = k) \/ (n = m /\ l = k)
      BY <1>0, <1>2, <1>3, <1>5, <2>2, <2>3 DEF PairOK
    <2>4. CASE (i # m \/ j # k) /\ (n # m \/ l # k)
      BY <1>0, <1>2, <2>1, <2>2, <2>4 DEF PairOK
    <2>. QED
      BY <2>3, <2>4
  <1>6. RecordOK'
    <2>1. RecordOK /\ Busy(s)
      BY <1>1, OwnSlot
    <2>. QED
      BY <1>0, <1>1, <1>2, <2>1 DEF RecordOK, Outcome
  <1>. QED
    BY <1>4, <1>5, <1>6 DEF Core, SlotsOK, PairsOK

(* The process of an execution ends, with its outcome. *)
LEMMA ReturnKept ==
  ASSUME JournalInv, JournalTypeOK', NEW m \in Managers, NEW k \in Slots,
         NEW outcome \in {"succeeded", "failed"}, Return(m, k, outcome), OthersQuiet(m, k)
  PROVE  Core'
  <1>. DEFINE s == slot[m][k]
  <1>0. clock \in Nat /\ Deadline \in Nat /\ record.attempts \in Nat
    BY Numbers DEF JournalInv
  <1>1. s.phase = "running" /\ process = <<"none">> /\ record.attempts >= 1
    BY OwnSlot DEF Return, SlotOK
  <1>2. /\ process' = <<outcome>>
        /\ slot'[m][k].phase = "finish" /\ slot'[m][k].outcome = outcome
        /\ UNCHANGED <<clock, record, used>>
    <2>1. Step(m, k, Finishing(outcome))
      BY DEF Return
    <2>2. Finishing(outcome) \in Slot
      BY SlotConstants DEF Finishing, IdleSlot, Slot, Outcome
    <2>3. slot'[m][k] = Finishing(outcome)
      BY <2>1, <2>2, StepTypes DEF JournalInv
    <2>4. slot'[m][k].phase = "finish" /\ slot'[m][k].outcome = outcome
      BY <2>3 DEF Finishing, IdleSlot
    <2>5. process' = [process EXCEPT ![Len(process)] = outcome] /\ Len(process) = 1
      BY <1>1 DEF Return
    <2>. QED
      BY <1>1, <2>4, <2>5 DEF Return
  <1>3. ASSUME NEW n \in Managers, NEW l \in Slots, n # m \/ l # k
        PROVE  /\ slot[n][l].phase # "running"
               /\ slot[n][l].phase = "execute" => ~(clock < Deadline)
               /\ ~(Reporting(slot[n][l]) /\ slot[n][l].outcome # "none")
               /\ record.attempts <= 1 => ~Busy(slot[n][l])
    <2>1. SlotOK(slot[n][l]) /\ PairOK(s, slot[n][l])
      BY <1>3, OwnSlot
    <2>. QED
      BY <1>0, <1>1, <2>1 DEF SlotOK, PairOK
  <1>4. ASSUME NEW n \in Managers, NEW l \in Slots PROVE SlotOK(slot[n][l])'
    <2>1. CASE n = m /\ l = k
      BY <1>0, <1>1, <1>2, <2>1 DEF SlotOK
    <2>2. CASE n # m \/ l # k
      <3>1. SlotOK(slot[n][l]) /\ slot[n][l].seen.stamp \in Nat
        BY Numbers DEF JournalInv, Core, SlotsOK
      <3>2. CASE slot'[n][l] = slot[n][l]
        BY <1>0, <1>1, <1>2, <1>3, <2>2, <3>1, <3>2 DEF SlotOK, Expired
      <3>3. CASE slot'[n][l].phase \in {"idle", "claim"}
        BY <3>3 DEF SlotOK
      <3>. QED
        BY <2>2, <3>2, <3>3 DEF OthersQuiet
    <2>. QED
      BY <2>1, <2>2
  <1>5. ASSUME NEW i \in Managers, NEW n \in Managers, NEW j \in Slots, NEW l \in Slots,
               n # i \/ l # j
        PROVE  PairOK(slot[i][j], slot[n][l])'
    <2>1. PairOK(slot[i][j], slot[n][l])
      BY <1>5 DEF JournalInv, Core, PairsOK
    <2>2. \A a \in Managers, b \in Slots :
            /\ Busy(slot'[a][b]) => Busy(slot[a][b])
            /\ slot'[a][b].phase # "running"
            /\ slot'[a][b].phase = "execute" => slot[a][b].phase = "execute"
      BY <1>1, <1>2, <1>3 DEF OthersQuiet
    <2>. QED
      BY <1>0, <1>2, <2>1, <2>2 DEF PairOK
  <1>6. RecordOK'
    <2>1. RecordOK /\ Busy(s)
      BY <1>1, OwnSlot
    <2>. QED
      BY <1>0, <1>1, <1>2, <2>1 DEF RecordOK, Outcome
  <1>. QED
    BY <1>4, <1>5, <1>6 DEF Core, SlotsOK, PairsOK

(* An execution writes the final record; if it does not know, a fault has   *)
(* happened, and it will finish again without result.                       *)
LEMMA FinishKept ==
  ASSUME JournalInv, JournalTypeOK', NEW m \in Managers, NEW k \in Slots,
         OthersQuiet(m, k), UNCHANGED <<clock, process>>,
         slot[m][k].phase = "finishing",
         record.stamp = slot[m][k].seen.stamp,
         record' = Finished(slot[m][k]),
         used'.faults >= used.faults,
         \/ slot'[m][k].phase \in {"idle", "claim"}
         \/ /\ slot'[m][k].phase = "finish" /\ slot'[m][k].outcome = "none"
            /\ used'.faults > 0
  PROVE  Core'
  <1>. DEFINE s == slot[m][k]
  <1>0. /\ clock \in Nat /\ Deadline \in Nat /\ record.attempts \in Nat
        /\ record.stamp \in Nat /\ used.faults \in Nat /\ used'.faults \in Nat
    BY Numbers DEF JournalInv, JournalTypeOK
  <1>1. /\ s.seen = record /\ record.status = "running" /\ record.attempts >= 1
        /\ s \in Slot /\ RecordOK /\ SlotOK(s)
    BY OwnSlot DEF SlotOK
  <1>2. /\ record'.status = Recorded(s.outcome) /\ record'.status \in {"succeeded", "failed"}
        /\ record'.attempts = record.attempts /\ record'.stamp = record.stamp + 1
    BY <1>1, RecordTypes DEF JournalInv
  <1>3. ASSUME NEW n \in Managers, NEW l \in Slots PROVE SlotOK(slot[n][l])'
    <2>1. CASE n = m /\ l = k
      BY <1>0, <1>1, <1>2, <2>1 DEF SlotOK
    <2>2. CASE n # m \/ l # k
      <3>1. SlotOK(slot[n][l]) /\ slot[n][l].seen.stamp \in Nat
        BY Numbers DEF JournalInv, Core, SlotsOK
      <3>2. CASE slot'[n][l] = slot[n][l]
        BY <1>0, <1>2, <3>1, <3>2 DEF SlotOK, Expired
      <3>3. CASE slot'[n][l].phase \in {"idle", "claim"}
        BY <3>3 DEF SlotOK
      <3>. QED
        BY <2>2, <3>2, <3>3 DEF OthersQuiet
    <2>. QED
      BY <2>1, <2>2
  <1>4. ASSUME NEW i \in Managers, NEW n \in Managers, NEW j \in Slots, NEW l \in Slots,
               n # i \/ l # j
        PROVE  PairOK(slot[i][j], slot[n][l])'
    <2>1. PairOK(slot[i][j], slot[n][l])
      BY <1>4 DEF JournalInv, Core, PairsOK
    <2>2. \A a \in Managers, b \in Slots :
            /\ Busy(slot'[a][b]) => Busy(slot[a][b])
            /\ \A p \in {"execute", "running"} :
                 slot'[a][b].phase = p => slot[a][b].phase = p
      BY DEF OthersQuiet
    <2>. QED
      BY <1>0, <1>2, <2>1, <2>2 DEF PairOK
  <1>5. record'.status = "succeeded" => process' = <<"succeeded">>
    <2>1. s.outcome \in Outcome
      BY <1>1 DEF Slot
    <2>. QED
      BY <1>1, <1>2, <2>1 DEF Recorded, SlotOK
  <1>6. ASSUME Smooth', record'.status = "failed"
        PROVE  /\ process' = <<>> \/ process' = <<"failed">>
               /\ \A n \in Managers, l \in Slots : ~Busy(slot'[n][l])
    <2>1. Smooth
      BY <1>0, <1>2, <1>6
    <2>2. s.outcome \in {"none", "failed"}
      BY <1>1, <1>2, <1>6 DEF Recorded, Slot, Outcome
    <2>3. process' = <<>> \/ process' = <<"failed">>
      BY <1>1, <2>1, <2>2 DEF SlotOK
    <2>4. ASSUME NEW n \in Managers, NEW l \in Slots PROVE ~Busy(slot'[n][l])
      <3>1. CASE n = m /\ l = k
        BY <1>6, <3>1
      <3>2. CASE n # m \/ l # k
        BY <2>1, <3>2, OwnSlot DEF PairOK, OthersQuiet
      <3>. QED
        BY <3>1, <3>2
    <2>. QED
      BY <2>3, <2>4
  <1>7. RecordOK'
    BY <1>0, <1>1, <1>2, <1>5, <1>6 DEF RecordOK
  <1>. QED
    BY <1>3, <1>4, <1>7 DEF Core, SlotsOK, PairsOK

(* The calls of a manager, and its crash. *)
LEMMA ManagerKept ==
  ASSUME JournalInv, NEW m \in Managers,
         Start(m) \/ Submit(m) \/ Reconcile(m) \/ Close(m) \/ Crash(m)
  PROVE  Core'
  <1>1. JournalTypeOK' /\ Quiet
    BY ManagerTypes DEF JournalInv
  <1>2. clock' = clock /\ process' = process /\ used'.faults >= used.faults
    <2>1. used \in [calls : Nat, faults : Nat]
      BY JournalAssumption DEF JournalInv, JournalTypeOK
    <2>2. \/ used' = used
          \/ used' = [used EXCEPT !.calls = @ + 1]
          \/ used' = [used EXCEPT !.faults = @ + 1]
      BY DEF Start, Submit, Reconcile, Close, Crash, Called
    <2>3. used'.faults >= used.faults
      BY <2>1, <2>2
    <2>. QED
      BY <2>3 DEF Start, Submit, Reconcile, Close, Crash
  <1>3. CASE record' = record
    BY <1>1, <1>2, <1>3, QuietKept, Numbers DEF JournalInv
  <1>4. CASE record' # record
    <2>1. /\ record.status = "none"
          /\ record' = [NoRecord EXCEPT !.status = "queued", !.stamp = 1]
      BY <1>4 DEF Start, Submit, Reconcile, Close, Crash
    <2>2. record'.status = "queued" /\ record'.stamp = 1 /\ record'.attempts = 0
      BY <2>1 DEF NoRecord
    <2>3. record.stamp = 0 /\ record.attempts = 0 /\ process = <<>>
      BY <2>1 DEF JournalInv, Core, RecordOK
    <2>4. ASSUME NEW n \in Managers, NEW l \in Slots
          PROVE  SlotOK(slot[n][l])' /\ ~Busy(slot'[n][l])
      <3>1. SlotOK(slot[n][l]) /\ slot[n][l].seen.stamp \in Nat
        BY Numbers DEF JournalInv, Core, SlotsOK
      <3>2. ~Busy(slot[n][l])
        BY <2>3, <3>1 DEF SlotOK
      <3>3. CASE slot'[n][l] = slot[n][l]
        BY <1>2, <2>2, <2>3, <3>1, <3>2, <3>3 DEF SlotOK, Expired
      <3>4. CASE slot'[n][l].phase \in {"idle", "claim"}
        BY <3>4 DEF SlotOK
      <3>. QED
        BY <1>1, <3>3, <3>4 DEF Quiet
    <2>5. SlotsOK' /\ PairsOK'
      BY <2>4 DEF SlotsOK, PairsOK, PairOK
    <2>6. RecordOK'
      BY <1>2, <2>2, <2>3 DEF RecordOK
    <2>. QED
      BY <2>5, <2>6 DEF Core
  <1>. QED
    BY <1>3, <1>4

(* The steps of an execution that write nothing. *)
LEMMA ReadsKept ==
  ASSUME JournalInv, JournalTypeOK', NEW m \in Managers, NEW k \in Slots,
         OthersQuiet(m, k),
         \/ ReadForClaim(m, k) \/ Refuse(m, k) \/ ReadForFinish(m, k)
         \/ WriteClaim(m, k) /\ record.stamp # slot[m][k].seen.stamp
         \/ WriteFinish(m, k) /\ record.stamp # slot[m][k].seen.stamp
  PROVE  Core'
  <1>. DEFINE s == slot[m][k]
              t == slot'[m][k]
  <1>0. /\ UNCHANGED <<record, process, clock, used>>
        /\ s \in Slot /\ SlotOK(s) /\ record \in Record
        /\ record.stamp \in Nat /\ used.faults \in Nat
    BY Numbers, OwnSlot
    DEF ReadForClaim, Refuse, ReadForFinish, WriteClaim, WriteFinish, JournalInv,
        JournalTypeOK
  <1>1. CASE t.phase \in {"idle", "claim"}
    <2>1. SlotOK(slot[m][k])'
      BY <1>1 DEF SlotOK
    <2>. QED
      BY <1>0, <1>1, <2>1, LocalKept
  <1>2. CASE ReadForClaim(m, k) /\ ~Ends(m, k)
    <2>1. Discovered /\ Step(m, k, [s EXCEPT !.phase = "claiming", !.seen = record])
      BY <1>2 DEF ReadForClaim
    <2>2. [s EXCEPT !.phase = "claiming", !.seen = record] \in Slot
      BY <1>0 DEF Slot
    <2>3. t = [s EXCEPT !.phase = "claiming", !.seen = record]
      BY <2>1, <2>2, StepTypes DEF JournalInv
    <2>4. t.phase = "claiming" /\ t.seen = record
      BY <1>0, <2>3 DEF Slot
    <2>5. SlotOK(slot[m][k])'
      BY <1>0, <2>1, <2>4 DEF SlotOK, Discovered, Expired
    <2>. QED
      BY <1>0, <2>4, <2>5, LocalKept
  <1>3. CASE Refuse(m, k)
    <2>1. s.phase = "execute" /\ Step(m, k, Finishing("none"))
      BY <1>3 DEF Refuse
    <2>2. Finishing("none") \in Slot
      BY SlotConstants DEF Finishing, IdleSlot, Slot, Outcome
    <2>3. t = Finishing("none")
      BY <2>1, <2>2, StepTypes DEF JournalInv
    <2>4. t.phase = "finish" /\ t.outcome = "none"
      BY <2>3 DEF Finishing, IdleSlot
    <2>5. SlotOK(slot[m][k])'
      BY <1>0, <2>1, <2>4 DEF SlotOK
    <2>. QED
      BY <1>0, <2>1, <2>4, <2>5, LocalKept
  <1>4. CASE ReadForFinish(m, k) /\ ~Ends(m, k)
    <2>1. /\ Finishes(m) /\ s.phase = "finish"
          /\ Step(m, k, [s EXCEPT !.phase = "finishing", !.seen = record])
      BY <1>4 DEF ReadForFinish
    <2>2. [s EXCEPT !.phase = "finishing", !.seen = record] \in Slot
      BY <1>0 DEF Slot
    <2>3. t = [s EXCEPT !.phase = "finishing", !.seen = record]
      BY <2>1, <2>2, StepTypes DEF JournalInv
    <2>4. t.phase = "finishing" /\ t.seen = record /\ t.outcome = s.outcome
      BY <1>0, <2>3 DEF Slot
    <2>5. SlotOK(slot[m][k])'
      BY <1>0, <2>1, <2>4 DEF SlotOK, Finishes
    <2>. QED
      BY <1>0, <2>1, <2>4, <2>5, LocalKept
  <1>5. CASE WriteClaim(m, k) /\ record.stamp # s.seen.stamp
    <2>1. Step(m, k, [IdleSlot EXCEPT !.phase = "claim"])
      BY <1>5 DEF WriteClaim
    <2>2. t.phase = "claim"
      BY <2>1, SlotPhases, StepTypes DEF JournalInv, IdleSlot
    <2>. QED
      BY <1>1, <2>2
  <1>6. CASE WriteFinish(m, k) /\ record.stamp # s.seen.stamp
    <2>1. s.phase = "finishing" /\ Step(m, k, [s EXCEPT !.phase = "finish", !.seen = NoRecord])
      BY <1>6 DEF WriteFinish
    <2>2. [s EXCEPT !.phase = "finish", !.seen = NoRecord] \in Slot
      BY <1>0, SlotConstants DEF Slot
    <2>3. t = [s EXCEPT !.phase = "finish", !.seen = NoRecord]
      BY <2>1, <2>2, StepTypes DEF JournalInv
    <2>4. t.phase = "finish" /\ t.outcome = s.outcome
      BY <1>0, <2>3 DEF Slot
    <2>5. SlotOK(slot[m][k])'
      BY <1>0, <2>1, <2>4 DEF SlotOK
    <2>. QED
      BY <1>0, <2>1, <2>4, <2>5, LocalKept
  <1>7. CASE Ends(m, k)
    BY <1>1, <1>7, EndsTypes DEF JournalInv
  <1>. QED
    BY <1>2, <1>3, <1>4, <1>5, <1>6, <1>7

(* A store call that fails, with its write or without. *)
LEMMA FailureKept ==
  ASSUME JournalInv, JournalTypeOK', NEW m \in Managers, NEW k \in Slots,
         OthersQuiet(m, k), StoreFails(m, k)
  PROVE  Core'
  <1>. DEFINE s == slot[m][k]
              t == slot'[m][k]
  <1>0. /\ UNCHANGED <<process, clock>> /\ s.phase \notin {"execute", "running"}
        /\ used'.faults >= used.faults /\ used'.faults > 0
        /\ SlotOK(s)
    <2>1. used \in [calls : Nat, faults : Nat]
      BY JournalAssumption DEF JournalInv, JournalTypeOK
    <2>2. used' = [used EXCEPT !.faults = @ + 1]
      BY DEF StoreFails
    <2>. QED
      BY <2>1, <2>2, OwnSlot DEF StoreFails
  <1>1. \/ t.phase = "idle"
        \/ Reporting(s) /\ t.phase = "finish" /\ t.outcome = "none"
    <2>1. CASE Die(m)
      BY <2>1, DieTypes, SlotConstants DEF JournalInv
    <2>2. CASE ~Die(m)
      <3>1. Reporting(s) /\ Step(m, k, [Finishing("none") EXCEPT !.again = TRUE])
        BY <2>2 DEF StoreFails
      <3>2. Finishing("none") \in Slot
        BY SlotConstants DEF Finishing, IdleSlot, Slot, Outcome
      <3>3. [Finishing("none") EXCEPT !.again = TRUE] \in Slot
        BY <3>2 DEF Slot
      <3>4. t = [Finishing("none") EXCEPT !.again = TRUE]
        BY <3>1, <3>3, StepTypes DEF JournalInv
      <3>5. t.phase = "finish" /\ t.outcome = "none"
        BY <3>4 DEF Finishing, IdleSlot
      <3>. QED
        BY <3>1, <3>5
    <2>. QED
      BY <2>1, <2>2
  <1>2. CASE UNCHANGED record
    <2>1. SlotOK(slot[m][k])'
      BY <1>0, <1>1, <1>2 DEF SlotOK
    <2>. QED
      BY <1>0, <1>1, <1>2, <2>1, LocalKept
  <1>3. CASE ~UNCHANGED record
    <2>1. s.phase = "finishing" /\ record.stamp = s.seen.stamp /\ record' = Finished(s)
      BY <1>3 DEF StoreFails
    <2>. QED
      BY <1>0, <1>1, <2>1, FinishKept
  <1>. QED
    BY <1>2, <1>3

(* Every step of an execution. *)
LEMMA ExecutionKept ==
  ASSUME JournalInv, NEW m \in Managers, NEW k \in Slots,
         Execution(m, k) \/ StoreFails(m, k)
  PROVE  Core'
  <1>0. JournalTypeOK' /\ OthersQuiet(m, k)
    BY ExecutionTypes DEF JournalInv
  <1>1. CASE \/ ReadForClaim(m, k) \/ Refuse(m, k) \/ ReadForFinish(m, k)
             \/ WriteClaim(m, k) /\ record.stamp # slot[m][k].seen.stamp
             \/ WriteFinish(m, k) /\ record.stamp # slot[m][k].seen.stamp
    BY <1>0, <1>1, ReadsKept
  <1>2. CASE WriteClaim(m, k) /\ record.stamp = slot[m][k].seen.stamp
    BY <1>0, <1>2, ClaimKept
  <1>3. CASE Spawn(m, k)
    BY <1>0, <1>3, SpawnKept
  <1>4. ASSUME NEW outcome \in {"succeeded", "failed"}, Return(m, k, outcome)
        PROVE  Core'
    BY <1>0, <1>4, ReturnKept
  <1>5. CASE WriteFinish(m, k) /\ record.stamp = slot[m][k].seen.stamp
    <2>1. Ends(m, k) /\ record' = Finished(slot[m][k]) /\ slot[m][k].phase = "finishing"
          /\ UNCHANGED <<clock, process, used>>
      BY <1>5 DEF WriteFinish
    <2>2. used'.faults >= used.faults
      BY <2>1, Numbers DEF JournalInv
    <2>. QED
      BY <1>0, <1>5, <2>1, <2>2, EndsTypes, FinishKept DEF JournalInv
  <1>6. CASE StoreFails(m, k)
    BY <1>0, <1>6, FailureKept
  <1>. QED
    BY <1>1, <1>2, <1>3, <1>4, <1>5, <1>6 DEF Execution

(* The invariant is inductive. *)
LEMMA JournalInvKept == JournalInv /\ [JournalNext]_journalVars => JournalInv'
  <1>. SUFFICES ASSUME JournalInv, [JournalNext]_journalVars PROVE JournalInv'
    OBVIOUS
  <1>0. JournalTypeOK'
    BY JournalTypesKept DEF JournalInv
  <1>1. ASSUME NEW m \in Managers,
               Start(m) \/ Submit(m) \/ Reconcile(m) \/ Close(m) \/ Crash(m)
        PROVE  JournalInv'
    BY <1>0, <1>1, ManagerKept DEF JournalInv
  <1>2. ASSUME NEW m \in Managers, NEW k \in Slots, Execution(m, k) \/ StoreFails(m, k)
        PROVE  JournalInv'
    BY <1>0, <1>2, ExecutionKept DEF JournalInv
  <1>3. CASE Tick
    <2>1. Quiet /\ UNCHANGED <<record, process>>
      BY <1>3 DEF Tick, Quiet
    <2>2. clock' >= clock /\ used'.faults >= used.faults
      BY <1>3, Numbers DEF Tick, JournalInv
    <2>. QED
      BY <1>0, <2>1, <2>2, QuietKept DEF JournalInv
  <1>4. CASE UNCHANGED journalVars
    <2>1. Quiet /\ UNCHANGED <<record, process>>
      BY <1>4 DEF journalVars, Quiet
    <2>2. clock' >= clock /\ used'.faults >= used.faults
      BY <1>4, Numbers DEF journalVars, JournalInv
    <2>. QED
      BY <1>0, <2>1, <2>2, QuietKept DEF JournalInv
  <1>. QED
    BY <1>1, <1>2, <1>3, <1>4 DEF JournalNext

(* No write replaces a final record: a claim has read a queued or a lapsed  *)
(* one, a finish a running one, and both write over the record they read.   *)
LEMMA FinalKept ==
  ASSUME JournalInv, [JournalNext]_journalVars, Final(record)
  PROVE  UNCHANGED record
  <1>1. ASSUME NEW m \in Managers,
               Start(m) \/ Submit(m) \/ Reconcile(m) \/ Close(m) \/ Crash(m)
        PROVE  UNCHANGED record
    BY <1>1 DEF Start, Submit, Reconcile, Close, Crash, Final
  <1>2. ASSUME NEW m \in Managers, NEW k \in Slots, Execution(m, k) \/ StoreFails(m, k)
        PROVE  UNCHANGED record
    <2>1. SlotOK(slot[m][k])
      BY OwnSlot
    <2>2. ~(slot[m][k].phase \in {"claiming", "finishing"} /\ record.stamp = slot[m][k].seen.stamp)
      BY <2>1 DEF SlotOK, Expired, Final
    <2>. QED
      BY <1>2, <2>2
      DEF Execution, ReadForClaim, WriteClaim, Refuse, Spawn, Return, ReadForFinish,
          WriteFinish, StoreFails
  <1>3. CASE Tick \/ UNCHANGED journalVars
    BY <1>3 DEF Tick, journalVars
  <1>. QED
    BY <1>1, <1>2, <1>3 DEF JournalNext

-----------------------------------------------------------------------------
(* The theorems. *)

(* The inductive invariant holds in every reachable state. *)
LEMMA JournalInvariant == JournalSpec => []JournalInv
  BY JournalInitInv, JournalInvKept, PTL DEF JournalSpec

(* agent/operation-journal.ts: the record is well formed, with an owner and *)
(* a lease exactly while it runs, over every claim, finish and failure.     *)
THEOREM JournalTypeCorrect == JournalSpec => []JournalTypeOK
  BY JournalInvariant, PTL DEF JournalInv

(* claim and execute: an operation is started at most once, whatever        *)
(* crashes, lapses and is recovered, for every number of managers and slots.*)
THEOREM OperationStartsOnce == JournalSpec => []StartedAtMostOnce
  <1>1. ASSUME JournalInv PROVE StartedAtMostOnce
    <2>1. process = <<>> \/ \E o \in Outcome : process = <<o>>
      BY <1>1 DEF JournalInv, Core, RecordOK
    <2>2. ASSUME NEW o \in Outcome PROVE Len(<<o>>) = 1
      OBVIOUS
    <2>3. CASE process = <<>>
      BY <2>3 DEF StartedAtMostOnce
    <2>4. ASSUME NEW o \in Outcome, process = <<o>> PROVE StartedAtMostOnce
      BY <2>2, <2>4 DEF StartedAtMostOnce
    <2>. QED
      BY <2>1, <2>3, <2>4
  <1>. QED
    BY <1>1, JournalInvariant, PTL

(* finish: the journal says succeeded only of a process that did, and       *)
(* failed of any other only after a failed call, a crash or a lapse.        *)
THEOREM JournalIsHonest == JournalSpec => []ResultIsHonest
  <1>1. JournalInv => ResultIsHonest
    BY DEF JournalInv, Core, RecordOK, ResultIsHonest
  <1>. QED
    BY <1>1, JournalInvariant, PTL

(* claim and finish: what the journal has decided stands. *)
THEOREM FinalRecordsStand == JournalSpec => FinalStands
  <1>1. JournalInv /\ [JournalNext]_journalVars => [Final(record) => UNCHANGED record]_journalVars
    BY FinalKept
  <1>. QED
    BY <1>1, JournalInvariant, PTL DEF JournalSpec, FinalStands

-----------------------------------------------------------------------------
(* The operation behind the journal. *)

(* Until its deadline an operation has been claimed once at most, and what  *)
(* is about to start it still holds the claim.                              *)
EarlyOK ==
  clock < Deadline =>
    /\ record.attempts <= 1
    /\ \A m \in Managers, k \in Slots :
         slot[m][k].phase = "execute" => record.status = "running"

(* The write of a claim, on the record it has read. *)
LEMMA ClaimWrites ==
  ASSUME JournalInv, NEW m \in Managers, NEW k \in Slots,
         WriteClaim(m, k), record.stamp = slot[m][k].seen.stamp
  PROVE  /\ \/ record.status = "queued" /\ record.attempts = 0
            \/ Expired(record) /\ record.attempts >= 1
         /\ record.expiresAt \in Nat /\ clock \in Nat
         /\ clock < Deadline => record.status = "queued"
         /\ record' = [status |-> "running", owner |-> m, expiresAt |-> Expiry,
                       attempts |-> record.attempts + 1, stamp |-> record.stamp + 1]
         /\ Expiry > Deadline
         /\ UNCHANGED <<clock, process, used>>
  <1>1. /\ clock \in Nat /\ Deadline \in Nat /\ Expiry > Deadline
        /\ record.attempts \in Nat /\ record.expiresAt \in Nat
    BY Numbers, JournalAssumption DEF JournalInv, Expiry
  <1>2. /\ slot[m][k].seen = record /\ RecordOK
        /\ record.status = "queued" \/ Expired(record)
    BY OwnSlot DEF WriteClaim, SlotOK
  <1>3. record' = [status |-> "running", owner |-> m, expiresAt |-> Expiry,
                   attempts |-> record.attempts + 1, stamp |-> record.stamp + 1]
    BY <1>2 DEF WriteClaim
  <1>4. RecordOK => (record.status \in {"none", "queued"} <=> record.attempts = 0)
    BY DEF RecordOK
  <1>5. Expired(record) => record.expiresAt > Deadline /\ ~(clock < Deadline)
    BY <1>1, <1>2 DEF RecordOK, Expired
  <1>6. \/ record.status = "queued" /\ record.attempts = 0
        \/ Expired(record) /\ record.attempts >= 1
    BY <1>1, <1>2, <1>4 DEF Expired
  <1>. QED
    BY <1>1, <1>2, <1>3, <1>5, <1>6 DEF WriteClaim

(* The write of a finish, on the record it has read. *)
Finalises(m, k) ==
  /\ slot[m][k].phase = "finishing"
  /\ record.stamp = slot[m][k].seen.stamp
  /\ record' = Finished(slot[m][k])
  /\ UNCHANGED <<clock, process>>
  /\ used' = used \/ used'.faults > 0

(* No step but these writes the record; and nothing but a claim is about to *)
(* start the operation that was not before.                                 *)
NothingBegins ==
  \A m \in Managers, k \in Slots :
    slot'[m][k].phase = "execute" => slot[m][k].phase = "execute"

LEMMA StepCases ==
  ASSUME JournalInv, [JournalNext]_journalVars
  PROVE  \/ \E m \in Managers, k \in Slots :
              WriteClaim(m, k) /\ record.stamp = slot[m][k].seen.stamp
         \/ \E m \in Managers, k \in Slots :
              Finalises(m, k) /\ NothingBegins /\ clock' = clock
         \/ \E m \in Managers : Submit(m) /\ record.status = "none" /\ NothingBegins
         \/ \E m \in Managers, k \in Slots :
              /\ Spawn(m, k) \/ \E o \in {"succeeded", "failed"} : Return(m, k, o)
              /\ NothingBegins
         \/ Tick /\ NothingBegins
         \/ /\ UNCHANGED <<clock, record, process>> /\ NothingBegins
            /\ used'.faults = used.faults \/ used'.faults > 0
  <1>0. used \in [calls : Nat, faults : Nat]
    BY JournalAssumption DEF JournalInv, JournalTypeOK
  <1>1. ASSUME NEW m \in Managers, Start(m) \/ Submit(m) \/ Reconcile(m) \/ Close(m) \/ Crash(m)
        PROVE  \/ Submit(m) /\ record.status = "none" /\ NothingBegins
               \/ /\ UNCHANGED <<clock, record, process>> /\ NothingBegins
                  /\ used'.faults = used.faults \/ used'.faults > 0
    <2>1. NothingBegins
      BY <1>1, ManagerTypes DEF JournalInv, Quiet, NothingBegins
    <2>2. \/ used' = used
          \/ used' = [used EXCEPT !.calls = @ + 1]
          \/ used' = [used EXCEPT !.faults = @ + 1]
      BY <1>1 DEF Start, Submit, Reconcile, Close, Crash, Called
    <2>3. used'.faults = used.faults \/ used'.faults > 0
      BY <1>0, <2>2
    <2>. QED
      BY <1>1, <2>1, <2>3 DEF Start, Submit, Reconcile, Close, Crash
  <1>2. ASSUME NEW m \in Managers, NEW k \in Slots, Execution(m, k) \/ StoreFails(m, k),
               ~(WriteClaim(m, k) /\ record.stamp = slot[m][k].seen.stamp)
        PROVE  \/ Finalises(m, k) /\ NothingBegins /\ clock' = clock
               \/ /\ Spawn(m, k) \/ \E o \in {"succeeded", "failed"} : Return(m, k, o)
                  /\ NothingBegins
               \/ /\ UNCHANGED <<clock, record, process>> /\ NothingBegins
                  /\ used'.faults = used.faults \/ used'.faults > 0
    <2>0. OthersQuiet(m, k) /\ slot[m][k] \in Slot
      BY <1>2, ExecutionTypes, OwnSlot DEF JournalInv
    <2>1. slot'[m][k].phase # "execute"
      <3>. USE DEF JournalInv
      <3>1. CASE Ends(m, k)
        BY <3>1, EndsTypes
      <3>2. CASE Die(m)
        BY <3>2, DieTypes, SlotConstants
      <3>3. CASE ReadForClaim(m, k) /\ ~Ends(m, k)
        <4>1. Step(m, k, [slot[m][k] EXCEPT !.phase = "claiming", !.seen = record])
          BY <3>3 DEF ReadForClaim
        <4>2. [slot[m][k] EXCEPT !.phase = "claiming", !.seen = record] \in Slot
          BY <2>0 DEF Slot, JournalTypeOK
        <4>3. slot'[m][k] = [slot[m][k] EXCEPT !.phase = "claiming", !.seen = record]
          BY <4>1, <4>2, StepTypes
        <4>. QED
          BY <2>0, <4>3 DEF Slot
      <3>4. CASE WriteClaim(m, k)
        <4>1. Step(m, k, [IdleSlot EXCEPT !.phase = "claim"])
          BY <1>2, <3>4 DEF WriteClaim
        <4>2. slot'[m][k] = [IdleSlot EXCEPT !.phase = "claim"]
          BY <4>1, SlotPhases, StepTypes
        <4>. QED
          BY <4>2 DEF IdleSlot
      <3>5. ASSUME NEW o \in Outcome, Step(m, k, Finishing(o)) PROVE slot'[m][k].phase # "execute"
        <4>1. Finishing(o) \in Slot /\ Finishing(o).phase = "finish"
          BY SlotConstants DEF Finishing, IdleSlot, Slot
        <4>. QED
          BY <3>5, <4>1, StepTypes
      <3>6. CASE Refuse(m, k) \/ \E o \in {"succeeded", "failed"} : Return(m, k, o)
        BY <3>5, <3>6 DEF Refuse, Return, Outcome
      <3>7. CASE Spawn(m, k)
        <4>1. slot'[m][k] = [IdleSlot EXCEPT !.phase = "running"]
          BY <3>7, SlotPhases, StepTypes DEF Spawn
        <4>. QED
          BY <4>1 DEF IdleSlot
      <3>8. CASE ReadForFinish(m, k) /\ ~Ends(m, k)
        <4>1. Step(m, k, [slot[m][k] EXCEPT !.phase = "finishing", !.seen = record])
          BY <3>8 DEF ReadForFinish
        <4>2. [slot[m][k] EXCEPT !.phase = "finishing", !.seen = record] \in Slot
          BY <2>0 DEF Slot, JournalTypeOK
        <4>3. slot'[m][k] = [slot[m][k] EXCEPT !.phase = "finishing", !.seen = record]
          BY <4>1, <4>2, StepTypes
        <4>. QED
          BY <2>0, <4>3 DEF Slot
      <3>9. CASE WriteFinish(m, k) /\ ~Ends(m, k)
        <4>1. Step(m, k, [slot[m][k] EXCEPT !.phase = "finish", !.seen = NoRecord])
          BY <3>9 DEF WriteFinish
        <4>2. [slot[m][k] EXCEPT !.phase = "finish", !.seen = NoRecord] \in Slot
          BY <2>0, SlotConstants DEF Slot
        <4>3. slot'[m][k] = [slot[m][k] EXCEPT !.phase = "finish", !.seen = NoRecord]
          BY <4>1, <4>2, StepTypes
        <4>. QED
          BY <2>0, <4>3 DEF Slot
      <3>10. CASE StoreFails(m, k) /\ ~Die(m)
        <4>1. Step(m, k, [Finishing("none") EXCEPT !.again = TRUE])
          BY <3>10 DEF StoreFails
        <4>2. /\ [Finishing("none") EXCEPT !.again = TRUE] \in Slot
              /\ [Finishing("none") EXCEPT !.again = TRUE].phase = "finish"
          BY SlotConstants DEF Finishing, IdleSlot, Slot, Outcome
        <4>3. slot'[m][k] = [Finishing("none") EXCEPT !.again = TRUE]
          BY <4>1, <4>2, StepTypes
        <4>. QED
          BY <4>2, <4>3
      <3>. QED
        BY <1>2, <3>1, <3>2, <3>3, <3>4, <3>6, <3>7, <3>8, <3>9, <3>10 DEF Execution
    <2>2. NothingBegins
      <3>1. ASSUME NEW n \in Managers, NEW l \in Slots, slot'[n][l].phase = "execute"
            PROVE  slot[n][l].phase = "execute"
        <4>1. n # m \/ l # k
          BY <2>1, <3>1
        <4>. QED
          BY <2>0, <3>1, <4>1 DEF OthersQuiet
      <3>. QED
        BY <3>1 DEF NothingBegins
    <2>3. StoreFails(m, k) => used'.faults > 0
      <3>. SUFFICES ASSUME StoreFails(m, k) PROVE used'.faults > 0
        OBVIOUS
      <3>1. used' = [used EXCEPT !.faults = @ + 1]
        BY DEF StoreFails
      <3>. QED
        BY <1>0, <3>1
    <2>4. CASE Spawn(m, k) \/ \E o \in {"succeeded", "failed"} : Return(m, k, o)
      BY <2>2, <2>4
    <2>5. CASE WriteFinish(m, k) /\ record' # record
      BY <2>2, <2>5 DEF WriteFinish, Finalises
    <2>6. CASE StoreFails(m, k) /\ record' # record
      BY <2>2, <2>3, <2>6 DEF StoreFails, Finalises
    <2>7. CASE record' = record /\ ~(Spawn(m, k) \/ \E o \in {"succeeded", "failed"} : Return(m, k, o))
      <3>1. UNCHANGED <<clock, process>> /\ (used' = used \/ StoreFails(m, k))
        BY <1>2, <2>7 DEF Execution, ReadForClaim, WriteClaim, Refuse, ReadForFinish,
             WriteFinish, StoreFails
      <3>. QED
        BY <2>2, <2>3, <2>7, <3>1
    <2>8. \/ record' = record \/ WriteFinish(m, k) \/ StoreFails(m, k)
          \/ Spawn(m, k) \/ \E o \in {"succeeded", "failed"} : Return(m, k, o)
      BY <1>2 DEF Execution, ReadForClaim, WriteClaim, Refuse, ReadForFinish
    <2>9. \A o : Return(m, k, o) => record' = record
      BY DEF Return
    <2>. QED
      BY <2>4, <2>5, <2>6, <2>7, <2>8, <2>9 DEF Finalises
  <1>3. CASE Tick \/ UNCHANGED journalVars
    <2>1. NothingBegins
      BY <1>3 DEF Tick, journalVars, NothingBegins
    <2>. QED
      BY <1>3, <2>1 DEF Tick, journalVars
  <1>. QED
    BY <1>1, <1>2, <1>3 DEF JournalNext

(* Nothing has been claimed in the initial state. *)
LEMMA EarlyInit == JournalInit => EarlyOK
  BY SlotConstants DEF JournalInit, EarlyOK, NoRecord

(* A claim before the deadline is the first; a final record that is written *)
(* before it is written by what was claimed, and nothing else is busy then. *)
LEMMA EarlyKept ==
  ASSUME JournalInv, EarlyOK, [JournalNext]_journalVars
  PROVE  EarlyOK'
  <1>0. clock \in Nat /\ Deadline \in Nat /\ record.attempts \in Nat /\ clock' \in Nat
    BY Numbers, JournalTypesKept DEF JournalInv, JournalTypeOK
  <1>1. ASSUME NEW m \in Managers, NEW k \in Slots,
               WriteClaim(m, k), record.stamp = slot[m][k].seen.stamp
        PROVE  EarlyOK'
    <2>1. /\ clock' = clock
          /\ clock < Deadline => record.attempts = 0
          /\ record'.status = "running" /\ record'.attempts = record.attempts + 1
      BY <1>0, <1>1, ClaimWrites DEF Expired
    <2>. QED
      BY <1>0, <2>1 DEF EarlyOK
  <1>2. ASSUME NEW m \in Managers, NEW k \in Slots, Finalises(m, k), NothingBegins
        PROVE  EarlyOK'
    <2>. SUFFICES ASSUME clock' < Deadline PROVE EarlyOK'
      BY DEF EarlyOK
    <2>1. /\ slot[m][k].phase = "finishing" /\ slot[m][k].seen = record
          /\ record' = Finished(slot[m][k]) /\ clock' = clock
      BY <1>2, OwnSlot DEF Finalises, SlotOK
    <2>2. record'.attempts = record.attempts
      BY <2>1, OwnSlot, RecordTypes DEF JournalInv
    <2>3. record.attempts <= 1
      BY <2>1 DEF EarlyOK
    <2>4. ASSUME NEW n \in Managers, NEW l \in Slots PROVE slot'[n][l].phase # "execute"
      <3>1. CASE n = m /\ l = k
        BY <1>2, <2>1, <3>1 DEF NothingBegins
      <3>2. CASE n # m \/ l # k
        BY <1>2, <2>1, <2>3, <3>2, OwnSlot DEF NothingBegins, PairOK
      <3>. QED
        BY <3>1, <3>2
    <2>. QED
      BY <2>2, <2>3, <2>4 DEF EarlyOK
  <1>3. ASSUME NEW m \in Managers, Submit(m), record.status = "none", NothingBegins
        PROVE  EarlyOK'
    <2>1. record.attempts = 0 /\ record'.attempts = 0
      BY <1>3 DEF Submit, JournalInv, Core, RecordOK, NoRecord
    <2>2. ASSUME NEW n \in Managers, NEW l \in Slots PROVE slot'[n][l].phase # "execute"
      BY <1>3, <2>1, OwnSlot DEF NothingBegins, SlotOK
    <2>. QED
      BY <2>1, <2>2 DEF EarlyOK
  <1>4. CASE NothingBegins /\ clock' >= clock /\ record' = record
    BY <1>0, <1>4 DEF EarlyOK, NothingBegins
  <1>5. ASSUME NEW m \in Managers, NEW k \in Slots, NothingBegins,
               Spawn(m, k) \/ \E o \in {"succeeded", "failed"} : Return(m, k, o)
        PROVE  EarlyOK'
    BY <1>0, <1>4, <1>5 DEF Spawn, Return
  <1>6. CASE Tick /\ NothingBegins
    BY <1>0, <1>4, <1>6 DEF Tick
  <1>7. CASE UNCHANGED <<clock, record, process>> /\ NothingBegins
    BY <1>0, <1>4, <1>7
  <1>. QED
    BY <1>1, <1>2, <1>3, <1>5, <1>6, <1>7, StepCases

(* Both invariants, in every reachable state. *)
LEMMA EarlyInvariant == JournalSpec => [](JournalInv /\ EarlyOK)
  <1>1. JournalInit => JournalInv /\ EarlyOK
    BY JournalInitInv, EarlyInit
  <1>2. JournalInv /\ EarlyOK /\ [JournalNext]_journalVars => (JournalInv /\ EarlyOK)'
    BY JournalInvKept, EarlyKept
  <1>. QED
    BY <1>1, <1>2, PTL DEF JournalSpec

(* What a final record says is what the process did, or a disturbed one is  *)
(* failed.                                                                  *)
LEMMA DecidesOnce ==
  ASSUME JournalInv, NEW m \in Managers, NEW k \in Slots, Finalises(m, k)
  PROVE  \E outcome \in {"succeeded", "failed"} : Operation!Decide(outcome)
  <1>. DEFINE s == slot[m][k]
  <1>0. /\ record.attempts \in Nat /\ used.faults \in Nat /\ record \in Record
    BY Numbers DEF JournalInv, JournalTypeOK
  <1>1. /\ s.seen = record /\ record.status = "running" /\ s \in Slot /\ SlotOK(s)
        /\ s.phase = "finishing"
    BY OwnSlot DEF Finalises, SlotOK
  <1>2. /\ record'.status = Recorded(s.outcome) /\ record'.owner = Nobody
        /\ record'.expiresAt = 0 /\ record'.attempts = record.attempts
    <2>1. /\ record' = Finished(s)
          /\ record'.status = Recorded(s.outcome) /\ record'.owner = Nobody
          /\ record'.attempts = record.attempts
      BY <1>1, RecordTypes DEF JournalInv, Finalises
    <2>2. record'.expiresAt = 0
      BY <1>0, <1>1, <2>1 DEF Finished, Record
    <2>. QED
      BY <2>1, <2>2
  <1>3. /\ Recorded(s.outcome) \in {"succeeded", "failed"}
        /\ \/ process = <<Recorded(s.outcome)>>
           \/ /\ Recorded(s.outcome) = "failed"
              /\ process = <<>> \/ used.faults > 0 \/ record.attempts > 1
    <2>1. s.outcome \in {"none", "succeeded", "failed"}
      BY <1>1 DEF Slot, Outcome
    <2>2. s.outcome # "none" => process = <<s.outcome>>
      BY <1>1 DEF SlotOK
    <2>3. s.outcome = "none" => process = <<>> \/ used.faults > 0 \/ record.attempts > 1
      BY <1>0, <1>1 DEF SlotOK
    <2>. QED
      BY <2>1, <2>2, <2>3 DEF Recorded
  <1>4. (used'.faults > 0 \/ record'.attempts > 1) \in {used.faults > 0 \/ record.attempts > 1, TRUE}
    BY <1>2 DEF Finalises
  <1>5. UNCHANGED <<clock, process>>
    BY DEF Finalises
  <1>. QED
    BY <1>1, <1>2, <1>3, <1>4, <1>5 DEF Operation!Decide

(* Every step of the journal is a step of the operation, or none.           *)
LEMMA OperationStep ==
  ASSUME JournalInv, EarlyOK, [JournalNext]_journalVars
  PROVE  [Operation!Next]_Operation!vars
  <1>0. /\ record.attempts \in Nat /\ used.faults \in Nat /\ clock \in Nat
    BY Numbers DEF JournalInv
  <1>1. ASSUME NEW m \in Managers, NEW k \in Slots,
               WriteClaim(m, k), record.stamp = slot[m][k].seen.stamp
        PROVE  Operation!Claim(m)
    <2>1. /\ record' = [status |-> "running", owner |-> m, expiresAt |-> Expiry,
                        attempts |-> record.attempts + 1, stamp |-> record.stamp + 1]
          /\ Expiry > Deadline /\ UNCHANGED <<clock, process, used>>
          /\ \/ record.status = "queued" /\ record.attempts = 0
             \/ Expired(record) /\ record.attempts >= 1
      BY <1>1, ClaimWrites
    <2>2. (used'.faults > 0 \/ record'.attempts > 1)
            = ((used.faults > 0 \/ record.attempts > 1)
                 \/ (record.status = "running" /\ record.expiresAt <= clock))
      BY <1>0, <2>1 DEF Expired
    <2>. QED
      BY <2>1, <2>2 DEF Operation!Claim, Operation!Lapsed, Expired
  <1>2. ASSUME NEW m \in Managers, Submit(m), record.status = "none"
        PROVE  Operation!Submit
    <2>1. record.attempts = 0 /\ record' = [NoRecord EXCEPT !.status = "queued", !.stamp = 1]
      BY <1>2 DEF Submit, JournalInv, Core, RecordOK
    <2>2. /\ record'.status = "queued" /\ record'.owner = Nobody /\ record'.expiresAt = 0
          /\ record'.attempts = 0
      BY <2>1 DEF NoRecord
    <2>3. used'.faults = used.faults
      BY <1>2 DEF Submit, Called, JournalInv, JournalTypeOK
    <2>. QED
      BY <1>2, <2>1, <2>2, <2>3 DEF Submit, Operation!Submit
  <1>3. ASSUME NEW m \in Managers, NEW k \in Slots, Spawn(m, k)
        PROVE  Operation!Start
    <2>1. process = <<>> /\ clock < Deadline /\ record.status = "running"
      BY <1>3, OwnSlot DEF Spawn, SlotOK, EarlyOK
    <2>2. process' = <<"none">> /\ UNCHANGED <<clock, record, used>>
      BY <1>3, <2>1 DEF Spawn
    <2>. QED
      BY <2>1, <2>2 DEF Operation!Start
  <1>4. ASSUME NEW m \in Managers, NEW k \in Slots, NEW o \in {"succeeded", "failed"},
               Return(m, k, o)
        PROVE  Operation!End(o)
    <2>1. process = <<"none">> /\ Len(process) = 1
      BY <1>4, OwnSlot DEF Return, SlotOK
    <2>2. process' = <<o>> /\ UNCHANGED <<clock, record, used>>
      BY <1>4, <2>1 DEF Return
    <2>. QED
      BY <2>1, <2>2 DEF Operation!End
  <1>5. CASE Tick
    BY <1>5 DEF Tick, Operation!Next, Operation!Tick
  <1>6. CASE UNCHANGED <<clock, record, process>> /\ used'.faults = used.faults
    BY <1>6 DEF Operation!vars
  <1>7. CASE UNCHANGED <<clock, record, process>> /\ used'.faults > 0
    BY <1>7 DEF Operation!Next, Operation!Disturb
  <1>. QED
    BY <1>1, <1>2, <1>3, <1>4, <1>5, <1>6, <1>7, StepCases, DecidesOnce DEF Operation!Next

(* claim, execute and finish, however managers crash and overlap, are those *)
(* of one operation: claimed, started before its deadline once, decided by  *)
(* what its process did, and that for good.                                 *)
THEOREM JournalImplementsOperation == JournalSpec => ImplementsOperation
  <1>1. JournalInit => Operation!Init
    BY DEF JournalInit, Operation!Init, NoRecord
  <1>2. JournalInv /\ EarlyOK /\ [JournalNext]_journalVars => [Operation!Next]_Operation!vars
    BY OperationStep
  <1>. QED
    BY <1>1, <1>2, EarlyInvariant, PTL
    DEF JournalSpec, ImplementsOperation, Operation!Spec
===============================================================================
