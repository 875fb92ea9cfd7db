------------------------ MODULE ProjectLifecycleProofs ------------------------
(***************************************************************************)
(* Proofs about ProjectLifecycle, for any number of operators, cleanup      *)
(* participants, crashes and faults: its types, that a runtime on this host *)
(* is accounted for, and that no write under the permit undoes a newer one. *)
(*                                                                         *)
(* The argument: whoever has the permit holds a copy of the record that is  *)
(* at least as far in its deletion as the record itself, and only the       *)
(* holder can start a process; a pass without the permit can only write a   *)
(* copy without a tombstone.                                                *)
(***************************************************************************)
EXTENDS ProjectLifecycle, TLAPS

-----------------------------------------------------------------------------
(* The inductive invariant. *)

OpKinds == Kinds \cup {"none", "pass", "resume"}
Records == Stored \cup {Absent}
OpRecord == [kind : OpKinds, at : Points, rec : Records]

(* A call of this kind and at this point has the permit. *)
In(k, p) == k # "pass" /\ p \notin {"idle", "waiting"}

StartPoints == {"preparing", "placing", "dispatching", "sending", "sent",
                "notSent", "unsent", "evicting", "local", "token", "prepare",
                "launched", "failing", "undoing", "halted"}

(* Where a pass can be without the permit. *)
PassPoints == {"listed", "placing", "sending", "sent", "notSent", "unsent", "evicting"}

(* What a call of kind k at point p knows about its copy r. *)
Fits(k, p, r) ==
  /\ p = "idle" <=> k = "none"
  /\ k = "pass" => p \in PassPoints
  /\ p = "listed" => k = "pass" /\ Present(r)
  /\ p \in StartPoints => Present(r) /\ r.deletion = -1
  /\ p = "halted" => k = "restart"
  /\ p \in {"stopping", "releasing", "ended"} =>
       /\ Present(r) /\ k \in {"stop", "restart", "remove"}
       /\ IF k = "remove" THEN r.deletion >= 0 ELSE r.deletion = -1
  /\ p \in {"cleaning", "cleanup", "cleaned"} =>
       Present(r) /\ r.deletion >= 0 /\ r.deletion < Cleanups
  /\ p \in {"erasing", "deletionFailed"} => Present(r) /\ r.deletion >= 0

(* The copy r of whoever has the permit is as far as the record s. *)
Covers(r, s) == s.deletion <= r.deletion /\ (Present(r) => Present(s))

(* Points at which nothing of the Project runs here any more. *)
Halted(p, r, n) ==
  \/ p = "stopping" /\ n = "there"
  \/ p \in {"releasing", "ended", "cleaning", "cleanup", "cleaned", "erasing"}
  \/ r.deletion >= 1

CallsOK ==
  \A a \in Actors :
    /\ Fits(op[a].kind, op[a].at, op[a].rec)
    /\ op[a].kind = "pass" \/ op[a].at = "waiting" => a = Fleet
    /\ permit = a <=> In(op[a].kind, op[a].at)

HolderOK ==
  \A a \in Actors : permit = a =>
    /\ Covers(op[a].rec, record)
    /\ Halted(op[a].at, op[a].rec, held.node) => ~running

ClaimOK == token # "none" => lease.node \in {token, "none"}

LifecycleInv ==
  ProjectTypeOK /\ CallsOK /\ HolderOK /\ ClaimOK /\ LocalRuntimeAccounted

-----------------------------------------------------------------------------
(* Copies of the record. *)

Statuses == {"provisioning", "stopped", "starting", "running", "stopping", "failed"}

(* The record that was never written carries no tombstone. *)
LEMMA AbsentType ==
  /\ Absent \in Records /\ ~Present(Absent) /\ Absent.deletion = -1
  /\ \A r \in Records : /\ r.deletion \in -1..Cleanups
                        /\ Present(r) <=> r \in Stored
                        /\ ~Present(r) => r = Absent
  <1>1. Absent.status = "absent" /\ Absent.deletion = -1
    BY DEF Absent
  <1>2. Cleanups \in Nat
    BY LifecycleAssumption
  <1>3. \A r \in Stored : r.status \in Statuses /\ r.deletion \in -1..Cleanups
    BY DEF Stored, Statuses
  <1>. QED
    BY <1>1, <1>2, <1>3 DEF Records, Present, Statuses

(* What a write changes in a copy, and what it keeps. *)
LEMMA Copies ==
  ASSUME NEW r \in Records, Present(r)
  PROVE  /\ \A s \in Statuses :
              /\ [r EXCEPT !.status = s] \in Stored
              /\ [r EXCEPT !.status = s].deletion = r.deletion
         /\ \A d \in {"running", "stopped"} :
              /\ [r EXCEPT !.desired = d] \in Stored
              /\ [r EXCEPT !.desired = d].deletion = r.deletion
         /\ \A d \in {"running", "stopped"}, s \in Statuses :
              /\ [r EXCEPT !.desired = d, !.status = s] \in Stored
              /\ [r EXCEPT !.desired = d, !.status = s].deletion = r.deletion
         /\ \A d \in {"running", "stopped"}, s \in Statuses, n \in -1..Cleanups :
              /\ [r EXCEPT !.desired = d, !.status = s, !.deletion = n] \in Stored
              /\ [r EXCEPT !.desired = d, !.status = s, !.deletion = n].deletion = n
         /\ \A n \in -1..Cleanups :
              /\ [r EXCEPT !.deletion = n] \in Stored
              /\ [r EXCEPT !.deletion = n].deletion = n
  <1>1. r \in Stored
    BY AbsentType
  <1>. QED
    BY <1>1 DEF Stored, Statuses

-----------------------------------------------------------------------------
(* A step of one actor, whatever else it changes. *)

Moves(a, x) ==
  /\ op' = [op EXCEPT ![a] = x]
  /\ permit' = IF In(x.kind, x.at) THEN a ELSE IF permit = a THEN Nobody ELSE permit
  /\ In(x.kind, x.at) => permit \in {a, Nobody}

(* The rest of the state keeps its types and the invariant. *)
RestOK ==
  /\ running' \in BOOLEAN /\ lease' \in Lease
  /\ token' \in Claims /\ refused' \in Claims /\ held' \in Held
  /\ used' \in [crashes : 0..MaxCrashes, faults : 0..MaxFaults]
  /\ ClaimOK'

(* What it changes under somebody else's permit. *)
Spares ==
  /\ record' = record \/ (Present(record') /\ record'.deletion = -1)
  /\ held'.node = held.node
  /\ running' => running

LEMMA MoveKeeps ==
  ASSUME LifecycleInv, NEW a \in Actors, NEW x \in OpRecord, Moves(a, x),
         Fits(x.kind, x.at, x.rec), x.kind = "pass" \/ x.at = "waiting" => a = Fleet,
         RestOK, record' \in Records, LocalRuntimeAccounted',
         In(x.kind, x.at) => /\ Covers(x.rec, record')
                             /\ Halted(x.at, x.rec, held'.node) => ~running',
         permit \notin {a, Nobody} => Spares
  PROVE  LifecycleInv'
  <1>1. /\ op \in [Actors -> OpRecord] /\ permit \in Actors \cup {Nobody}
        /\ Nobody \notin Actors
    BY LifecycleAssumption DEF LifecycleInv, ProjectTypeOK, OpRecord, OpKinds, Records, Actors
  <1>2. /\ op' \in [Actors -> OpRecord] /\ op'[a] = x
        /\ \A b \in Actors : b # a => op'[b] = op[b]
    BY <1>1 DEF Moves
  <1>3. permit' \in Actors \cup {Nobody}
    BY <1>1 DEF Moves
  <1>4. ProjectTypeOK'
    BY <1>2, <1>3 DEF RestOK, ProjectTypeOK, OpRecord, OpKinds, Records
  <1>5. CallsOK'
    <2>. SUFFICES ASSUME NEW b \in Actors
                  PROVE  /\ Fits(op'[b].kind, op'[b].at, op'[b].rec)
                         /\ op'[b].kind = "pass" \/ op'[b].at = "waiting" => b = Fleet
                         /\ permit' = b <=> In(op'[b].kind, op'[b].at)
      BY DEF CallsOK, Fits, In, Present
    <2>1. CASE b = a
      BY <1>1, <1>2, <2>1 DEF Moves
    <2>2. CASE b # a
      <3>1. op'[b] = op[b]
        BY <1>2, <2>2
      <3>2. permit' = b <=> permit = b
        BY <1>1, <2>2 DEF Moves
      <3>. QED
        BY <3>1, <3>2 DEF LifecycleInv, CallsOK
    <2>. QED
      BY <2>1, <2>2
  <1>6. HolderOK'
    <2>. SUFFICES ASSUME NEW b \in Actors, permit' = b
                  PROVE  /\ Covers(op'[b].rec, record')
                         /\ Halted(op'[b].at, op'[b].rec, held'.node) => ~running'
      BY DEF HolderOK, Covers, Halted, Present
    <2>1. CASE b = a
      BY <1>1, <1>2, <2>1 DEF Moves
    <2>2. CASE b # a
      <3>1. op'[b] = op[b] /\ permit = b /\ permit \notin {a, Nobody}
        BY <1>1, <1>2, <2>2 DEF Moves
      <3>2. Covers(op[b].rec, record) /\ (Halted(op[b].at, op[b].rec, held.node) => ~running)
        BY <3>1 DEF LifecycleInv, HolderOK
      <3>3. Spares /\ op[b].rec \in Records /\ record \in Records
        BY <1>1, <3>1 DEF OpRecord, LifecycleInv, ProjectTypeOK, Records
      <3>4. Covers(op[b].rec, record')
        <4>1. op[b].rec.deletion \in -1..Cleanups
          BY <3>3, AbsentType
        <4>. QED
          BY <3>2, <3>3, <4>1, LifecycleAssumption DEF Covers, Spares
      <3>. QED
        BY <3>1, <3>2, <3>3, <3>4 DEF Halted, Spares
    <2>. QED
      BY <2>1, <2>2
  <1>. QED
    BY <1>4, <1>5, <1>6 DEF LifecycleInv, RestOK

(* Who has the permit, and what a copy is. *)
LEMMA Callers ==
  ASSUME LifecycleInv, NEW a \in Actors
  PROVE  /\ op[a] \in OpRecord /\ op[a].kind \in OpKinds /\ op[a].at \in Points
         /\ op[a].rec \in Records /\ record \in Records
         /\ Fits(op[a].kind, op[a].at, op[a].rec)
         /\ op[a].kind = "pass" \/ op[a].at = "waiting" => a = Fleet
         /\ permit = a <=> In(op[a].kind, op[a].at)
         /\ permit = a => /\ Covers(op[a].rec, record)
                          /\ Halted(op[a].at, op[a].rec, held.node) => ~running
         /\ permit \in Actors \cup {Nobody} /\ Nobody \notin Actors
  BY LifecycleAssumption
     DEF LifecycleInv, ProjectTypeOK, CallsOK, HolderOK, OpRecord, OpKinds, Records, Actors

(* A call that has the permit goes on with it. *)
LEMMA HolderGoes ==
  ASSUME LifecycleInv, NEW a \in Actors, permit = a, NEW p \in Points, NEW r \in Records,
         Go(a, p, r), permit' = permit, p \notin {"idle", "waiting"},
         Fits(op[a].kind, p, r), RestOK, record' \in Records, LocalRuntimeAccounted',
         Covers(r, record'), Halted(p, r, held'.node) => ~running'
  PROVE  LifecycleInv'
  <1>. DEFINE x == [op[a] EXCEPT !.at = p, !.rec = r]
  <1>1. /\ x \in OpRecord /\ x.kind = op[a].kind /\ x.at = p /\ x.rec = r
        /\ In(x.kind, x.at)
    BY Callers DEF OpRecord, In
  <1>2. op' = [op EXCEPT ![a] = x]
    BY DEF Go
  <1>3. Moves(a, x)
    BY <1>1, <1>2 DEF Moves
  <1>4. op[a].kind # "pass"
    BY Callers DEF In
  <1>. HIDE DEF x
  <1>. QED
    BY <1>1, <1>3, <1>4, MoveKeeps

(* A pass without the permit goes on. *)
LEMMA PassGoes ==
  ASSUME LifecycleInv, op[Fleet].kind = "pass", NEW p \in Points, NEW r \in Records,
         Go(Fleet, p, r), permit' = permit,
         Fits("pass", p, r), RestOK, record' \in Records, LocalRuntimeAccounted', Spares
  PROVE  LifecycleInv'
  <1>. DEFINE x == [op[Fleet] EXCEPT !.at = p, !.rec = r]
  <1>0. Fleet \in Actors
    BY DEF Actors
  <1>1. /\ x \in OpRecord /\ x.kind = "pass" /\ x.at = p /\ x.rec = r
        /\ ~In(x.kind, x.at) /\ permit # Fleet
    BY <1>0, Callers DEF OpRecord, OpKinds, In
  <1>2. op' = [op EXCEPT ![Fleet] = x]
    BY DEF Go
  <1>3. Moves(Fleet, x)
    BY <1>1, <1>2 DEF Moves
  <1>. HIDE DEF x
  <1>. QED
    BY <1>0, <1>1, <1>3, MoveKeeps

(* A call or a pass ends. *)
LEMMA FinishKeeps ==
  ASSUME LifecycleInv, NEW a \in Actors, Finish(a), RestOK, record' \in Records,
         LocalRuntimeAccounted', permit = a \/ Spares
  PROVE  LifecycleInv'
  <1>1. /\ Idle \in OpRecord /\ Idle.kind = "none" /\ Idle.at = "idle" /\ Idle.rec = Absent
        /\ ~In(Idle.kind, Idle.at) /\ Fits(Idle.kind, Idle.at, Idle.rec)
    BY AbsentType DEF Idle, OpRecord, OpKinds, Points, In, Fits, StartPoints
  <1>2. Moves(a, Idle)
    BY <1>1 DEF Moves, Finish
  <1>. QED
    BY <1>1, <1>2, MoveKeeps

(* A write of the holder of the permit: a copy of what it has, in which a   *)
(* deletion has not gone back.                                              *)
LEMMA HolderWrites ==
  ASSUME LifecycleInv, NEW a \in Actors, permit = a, Present(op[a].rec),
         NEW w \in Stored, w.deletion >= op[a].rec.deletion
  PROVE  /\ w \in Records /\ Present(w) /\ w.deletion \in -1..Cleanups
         /\ Covers(w, w) /\ Covers(w, record)
         /\ record' = w => Stands
         /\ record' = w /\ w.deletion < 1 /\ UNCHANGED <<running, lease>>
              => LocalRuntimeAccounted'
         /\ record' = w /\ ~running' => LocalRuntimeAccounted'
  <1>1. Covers(op[a].rec, record) /\ op[a].rec \in Records /\ record \in Records
    BY Callers
  <1>2. Present(record) /\ w \in Records /\ Present(w)
    BY <1>1, AbsentType DEF Covers, Records
  <1>3. /\ w.deletion \in Int /\ record.deletion \in Int /\ op[a].rec.deletion \in Int
        /\ w.deletion \in -1..Cleanups
    BY <1>1, <1>2, AbsentType, LifecycleAssumption
  <1>4. w.deletion >= record.deletion
    BY <1>1, <1>3 DEF Covers
  <1>5. record' = w => Stands
    BY <1>2, <1>4 DEF Stands, Present
  <1>6. record' = w /\ w.deletion < 1 /\ UNCHANGED <<running, lease>> => LocalRuntimeAccounted'
    BY <1>2 DEF LifecycleInv, LocalRuntimeAccounted, Present
  <1>7. record' = w /\ ~running' => LocalRuntimeAccounted'
    BY DEF LocalRuntimeAccounted
  <1>. QED
    BY <1>2, <1>3, <1>4, <1>5, <1>6, <1>7 DEF Covers

(* What a step that leaves the rest alone keeps. *)
LEMMA RestKept ==
  ASSUME LifecycleInv, UNCHANGED <<running, lease, token, refused>>, held' \in Held,
         used' \in [crashes : 0..MaxCrashes, faults : 0..MaxFaults]
  PROVE  RestOK
  BY DEF LifecycleInv, ProjectTypeOK, RestOK, ClaimOK

LEMMA FaultType ==
  ASSUME LifecycleInv
  PROVE  /\ used' = used => used' \in [crashes : 0..MaxCrashes, faults : 0..MaxFaults]
         /\ Fault => used' \in [crashes : 0..MaxCrashes, faults : 0..MaxFaults]
         /\ NoClaim \in Held /\ NoClaim.node = "none"
         /\ held \in Held /\ token \in Claims
         /\ \A n \in Claims : Hold(n) \in Held /\ Hold(n).node = n
  <1>1. used \in [crashes : 0..MaxCrashes, faults : 0..MaxFaults]
    BY DEF LifecycleInv, ProjectTypeOK
  <1>2. Fault => used' \in [crashes : 0..MaxCrashes, faults : 0..MaxFaults]
    BY <1>1, LifecycleAssumption DEF Fault
  <1>. QED
    BY <1>1, <1>2 DEF Held, NoClaim, Hold, Claims, LifecycleInv, ProjectTypeOK

-----------------------------------------------------------------------------
(* Entering and leaving a call. *)

LEMMA AdmitKeeps ==
  ASSUME LifecycleInv, NEW a \in Actors, NEW k \in OpKinds \ {"none", "pass"}, Admit(a, k)
  PROVE  LifecycleInv' /\ Stands
  <1>. DEFINE x == [kind |-> k, at |-> "ready", rec |-> record]
  <1>1. /\ x \in OpRecord /\ x.kind = k /\ x.at = "ready" /\ x.rec = record
        /\ In(x.kind, x.at) /\ Fits(x.kind, x.at, x.rec)
    BY Callers DEF OpRecord, Points, In, Fits, StartPoints
  <1>2. permit = Nobody /\ permit' = a /\ op' = [op EXCEPT ![a] = x]
    BY DEF Admit, PermitFor
  <1>3. UNCHANGED <<record, running, lease, token, held, refused, used>>
    BY DEF Admit
  <1>4. Moves(a, x)
    BY <1>1, <1>2 DEF Moves
  <1>5. RestOK /\ LocalRuntimeAccounted' /\ record' \in Records
    BY <1>3, FaultType, RestKept, Callers DEF LifecycleInv, LocalRuntimeAccounted, Present
  <1>6. record.deletion \in Int /\ (record.deletion >= 1 => ~running)
    BY Callers, AbsentType, LifecycleAssumption DEF LifecycleInv, LocalRuntimeAccounted
  <1>7. Covers(x.rec, record') /\ (Halted(x.at, x.rec, held'.node) => ~running')
    BY <1>1, <1>3, <1>6 DEF Covers, Halted
  <1>8. Stands
    BY <1>3, <1>6 DEF Stands, Present
  <1>. HIDE DEF x
  <1>. QED
    BY <1>1, <1>2, <1>4, <1>5, <1>7, <1>8, MoveKeeps

(* A step that leaves the record alone stands. *)
LEMMA SameRecord ==
  ASSUME LifecycleInv, record' = record
  PROVE  Stands /\ record' \in Records
  <1>1. record \in Records
    BY DEF LifecycleInv, ProjectTypeOK, Records
  <1>2. record.deletion \in Int
    BY <1>1, AbsentType, LifecycleAssumption
  <1>. QED
    BY <1>1, <1>2 DEF Stands, Present

LEMMA RefuseKeeps ==
  ASSUME LifecycleInv, NEW a \in Actors, Refuse(a)
  PROVE  LifecycleInv' /\ Stands
  <1>1. /\ Finish(a) /\ permit = a
        /\ UNCHANGED <<record, running, lease, token, held, refused, used>>
    BY Callers DEF Refuse, In, Fits, StartPoints, PassPoints
  <1>2. RestOK /\ LocalRuntimeAccounted'
    BY <1>1, FaultType, RestKept DEF LifecycleInv, LocalRuntimeAccounted, Present
  <1>. QED
    BY <1>1, <1>2, SameRecord, FinishKeeps

(* What a call that was not refused has found. *)
LEMMA Admitted ==
  ASSUME LifecycleInv, NEW a \in Actors, NEW ks, Ready(a, ks)
  PROVE  /\ op[a].kind \in ks /\ op[a].at = "ready" /\ permit = a
         /\ op[a].kind = "create" => ~Present(record)
         /\ op[a].kind # "create" => Present(op[a].rec)
         /\ op[a].kind \notin {"create", "remove"} => op[a].rec.deletion = -1
  <1>1. op[a].kind \in ks /\ op[a].at = "ready" /\ ~Refuses(a, op[a].rec)
    BY DEF Ready, At
  <1>2. permit = a
    BY <1>1, Callers DEF In, Fits, StartPoints, PassPoints
  <1>3. op[a].kind \in OpKinds \ {"none", "pass"} /\ op[a].rec.deletion \in -1..Cleanups
    BY <1>1, Callers, AbsentType DEF Fits, StartPoints, PassPoints
  <1>. QED
    BY <1>1, <1>2, <1>3, LifecycleAssumption
       DEF Refuses, RefusesResuming, Doomed, OpKinds, Kinds

(* A call that writes a copy and returns. *)
LEMMA WriteAndFinish ==
  ASSUME LifecycleInv, NEW a \in Actors, permit = a, Present(op[a].rec), Finish(a),
         NEW w \in Stored, w.deletion >= op[a].rec.deletion,
         w.deletion < 1 \/ ~running, record' = w,
         UNCHANGED <<running, lease, token, refused>>, held' = held,
         used' = used
  PROVE  LifecycleInv' /\ Stands
  <1>1. record' \in Records /\ Stands /\ LocalRuntimeAccounted'
    BY HolderWrites
  <1>2. RestOK
    BY FaultType, RestKept
  <1>. QED
    BY <1>1, <1>2, FinishKeeps

(* A call that writes a copy and goes on with it. *)
LEMMA WriteAndGo ==
  ASSUME LifecycleInv, NEW a \in Actors, permit = a, Present(op[a].rec),
         NEW w \in Stored, w.deletion >= op[a].rec.deletion,
         w.deletion < 1 \/ ~running, record' = w,
         NEW p \in Points, p \notin {"idle", "waiting"}, Go(a, p, w), Fits(op[a].kind, p, w),
         UNCHANGED <<running, lease, token, permit, refused, used>>, held' \in Held,
         Halted(p, w, held'.node) => ~running
  PROVE  LifecycleInv' /\ Stands
  <1>1. record' \in Records /\ w \in Records /\ Covers(w, record') /\ Stands
        /\ LocalRuntimeAccounted'
    BY HolderWrites
  <1>2. RestOK
    BY FaultType, RestKept
  <1>. QED
    BY <1>1, <1>2, HolderGoes

(* A call that goes on and leaves the record alone. *)
LEMMA GoOn ==
  ASSUME LifecycleInv, NEW a \in Actors, permit = a,
         NEW p \in Points, p \notin {"idle", "waiting"}, Go(a, p, op[a].rec),
         Fits(op[a].kind, p, op[a].rec),
         UNCHANGED <<record, running, lease, token, permit, refused>>, held' \in Held,
         used' = used \/ Fault, Halted(p, op[a].rec, held'.node) => ~running
  PROVE  LifecycleInv' /\ Stands
  <1>1. Covers(op[a].rec, record') /\ op[a].rec \in Records
    BY Callers DEF Covers, Present
  <1>2. RestOK /\ LocalRuntimeAccounted'
    BY FaultType, RestKept DEF LifecycleInv, LocalRuntimeAccounted, Present
  <1>. QED
    BY <1>1, <1>2, SameRecord, HolderGoes

(* A call that returns and leaves the record alone. *)
LEMMA JustFinish ==
  ASSUME LifecycleInv, NEW a \in Actors, permit = a \/ held'.node = held.node, Finish(a),
         UNCHANGED <<record, running, lease, token, refused>>, held' \in Held,
         used' = used \/ Fault
  PROVE  LifecycleInv' /\ Stands
  <1>2. RestOK /\ LocalRuntimeAccounted'
    BY FaultType, RestKept DEF LifecycleInv, LocalRuntimeAccounted, Present
  <1>3. permit = a \/ Spares
    BY DEF Spares
  <1>. QED
    BY <1>2, <1>3, SameRecord, FinishKeeps

-----------------------------------------------------------------------------
(* The calls that neither start nor stop the runtime. *)

(* A call at one of the points of a start, other than a pass. *)
LEMMA Starting ==
  ASSUME LifecycleInv, NEW a \in Actors, op[a].at \in StartPoints
  PROVE  /\ Present(op[a].rec) /\ op[a].rec.deletion = -1 /\ op[a].rec \in Records
         /\ op[a].kind # "pass" => permit = a
         /\ op[a].kind = "pass" => a = Fleet /\ permit # a /\ op[a].at \in PassPoints
         /\ op[a].kind # "none" /\ op[a].at \in Points
         /\ op[a].at = "halted" => op[a].kind = "restart"
  BY Callers DEF In, Fits, StartPoints

(* The copy of a start goes on fitting it. *)
LEMMA StartFits ==
  ASSUME NEW k, NEW p \in StartPoints, NEW r, Present(r), r.deletion = -1,
         k # "none", k = "pass" => p \in PassPoints, p = "halted" => k = "restart"
  PROVE  /\ Fits(k, p, r) /\ p \in Points /\ p \notin {"idle", "waiting"}
         /\ \A n : ~Halted(p, r, n)
  BY DEF Fits, Halted, StartPoints, Points

LEMMA RefreshKeeps ==
  ASSUME LifecycleInv, NEW o \in Actors, Refresh(o)
  PROVE  LifecycleInv' /\ Stands
  <1>1. /\ permit = o /\ Present(op[o].rec) /\ op[o].rec.deletion = -1
        /\ op[o].rec \in Records
    BY Admitted, Callers DEF Refresh
  <1>2. Finish(o) /\ UNCHANGED <<running, lease, token, held, refused, used>>
    BY DEF Refresh
  <1>. DEFINE seen == IF running THEN "running" ELSE "stopped"
              w == [op[o].rec EXCEPT !.status = seen]
  <1>3. record' = record \/ record' = w
    BY DEF Refresh
  <1>4. seen \in Statuses
    BY DEF Statuses
  <1>. HIDE DEF seen
  <1>5. w \in Stored /\ w.deletion = -1
    BY <1>1, <1>4, Copies
  <1>. HIDE DEF w
  <1>. QED
    BY <1>1, <1>2, <1>3, <1>5, FaultType, JustFinish, WriteAndFinish

LEMMA RenameKeeps ==
  ASSUME LifecycleInv, NEW o \in Actors, Rename(o)
  PROVE  LifecycleInv' /\ Stands
  <1>1. /\ permit = o /\ Present(op[o].rec) /\ op[o].rec.deletion = -1
        /\ op[o].rec \in Stored
    BY Admitted, Callers, AbsentType DEF Rename
  <1>2. /\ Finish(o) /\ UNCHANGED <<running, lease, token, held, refused, used>>
        /\ record' = op[o].rec
    BY DEF Rename
  <1>. QED
    BY <1>1, <1>2, WriteAndFinish

LEMMA UpgradeKeeps ==
  ASSUME LifecycleInv, NEW o \in Actors, Upgrade(o)
  PROVE  LifecycleInv' /\ Stands
  <1>1. /\ permit = o /\ Present(op[o].rec) /\ op[o].rec.deletion = -1
        /\ op[o].rec \in Records
    BY Admitted, Callers DEF Upgrade
  <1>2. Finish(o) /\ UNCHANGED <<running, lease, token, held, refused>>
    BY DEF Upgrade
  <1>. DEFINE w == [op[o].rec EXCEPT !.status = "stopped"]
  <1>3. (record' = w /\ used' = used) \/ (record' = record /\ Fault)
    BY DEF Upgrade
  <1>4. w \in Stored /\ w.deletion = -1
    BY <1>1, Copies DEF Statuses
  <1>. HIDE DEF w
  <1>. QED
    BY <1>1, <1>2, <1>3, <1>4, FaultType, JustFinish, WriteAndFinish

LEMMA ClaimKeeps ==
  ASSUME LifecycleInv, NEW o \in Actors, Claim(o)
  PROVE  LifecycleInv' /\ Stands
  <1>1. permit = o /\ op[o].kind = "create" /\ ~Present(record) /\ ~running
    BY Admitted DEF Claim, LifecycleInv, LocalRuntimeAccounted
  <1>2. PICK d \in {"running", "stopped"} :
          /\ record' = [desired |-> d, status |-> "provisioning", deletion |-> -1]
          /\ Go(o, "preparing", record')
    BY DEF Claim
  <1>3. UNCHANGED <<running, lease, token, permit, held, refused, used>>
    BY DEF Claim
  <1>4. /\ record' \in Stored /\ record'.deletion = -1 /\ record'.status = "provisioning"
    BY <1>2, LifecycleAssumption DEF Stored
  <1>5. record' \in Records /\ Present(record') /\ Covers(record', record')
    BY <1>4, AbsentType DEF Covers, Records
  <1>6. record.deletion = -1
    BY <1>1, Callers, AbsentType
  <1>7. Stands
    BY <1>4, <1>6 DEF Stands, Doomed
  <1>8. RestOK /\ LocalRuntimeAccounted'
    BY <1>1, <1>3, FaultType, RestKept DEF LocalRuntimeAccounted
  <1>9. "preparing" \in StartPoints /\ op[o].kind # "none"
    BY <1>1 DEF StartPoints
  <1>10. /\ Fits(op[o].kind, "preparing", record') /\ "preparing" \in Points
         /\ ~Halted("preparing", record', held'.node)
    BY <1>1, <1>4, <1>5, <1>9, StartFits
  <1>. QED
    BY <1>1, <1>2, <1>3, <1>5, <1>7, <1>8, <1>10, HolderGoes

LEMMA ProvisionKeeps ==
  ASSUME LifecycleInv, NEW o \in Actors,
         Provisioned(o) \/ PrepareFails(o) \/ UndoCreate(o)
  PROVE  LifecycleInv' /\ Stands
  <1>1. op[o].kind = "create" /\ op[o].at \in StartPoints
    BY DEF Provisioned, PrepareFails, UndoCreate, At, StartPoints
  <1>2. /\ permit = o /\ Present(op[o].rec) /\ op[o].rec.deletion = -1
        /\ op[o].rec \in Records
    BY <1>1, Starting
  <1>3. CASE Provisioned(o)
    <2>. DEFINE w == [op[o].rec EXCEPT !.status = "stopped"]
    <2>1. w \in Stored /\ w.deletion = -1 /\ Present(w)
      BY <1>2, Copies, AbsentType DEF Statuses, Records
    <2>2. /\ record' = w /\ UNCHANGED <<running, lease, token, held, refused, used>>
          /\ (Go(o, "placing", w) /\ permit' = permit) \/ Finish(o)
      BY <1>3 DEF Provisioned
    <2>. HIDE DEF w
    <2>3. "placing" \in StartPoints
      BY DEF StartPoints
    <2>4. /\ Fits(op[o].kind, "placing", w) /\ "placing" \in Points
          /\ ~Halted("placing", w, held'.node)
      BY <1>1, <2>1, <2>3, StartFits
    <2>. QED
      BY <1>2, <2>1, <2>2, <2>4, FaultType, WriteAndFinish, WriteAndGo
  <1>4. CASE PrepareFails(o)
    <2>1. "undoing" \in StartPoints
      BY DEF StartPoints
    <2>2. /\ Fits(op[o].kind, "undoing", op[o].rec) /\ "undoing" \in Points
          /\ ~Halted("undoing", op[o].rec, held'.node)
      BY <1>1, <1>2, <2>1, StartFits
    <2>3. /\ Go(o, "undoing", op[o].rec) /\ Fault
          /\ UNCHANGED <<record, running, lease, token, permit, held, refused>>
      BY <1>4 DEF PrepareFails
    <2>. QED
      BY <1>2, <2>2, <2>3, FaultType, GoOn
  <1>5. CASE UndoCreate(o)
    <2>. DEFINE w == [op[o].rec EXCEPT !.desired = "stopped", !.status = "failed"]
    <2>1. w \in Stored /\ w.deletion = -1
      BY <1>2, Copies DEF Statuses
    <2>2. /\ record' = w /\ Finish(o)
          /\ UNCHANGED <<running, lease, token, held, refused, used>>
      BY <1>5 DEF UndoCreate
    <2>. HIDE DEF w
    <2>. QED
      BY <1>2, <2>1, <2>2, WriteAndFinish
  <1>. QED
    BY <1>3, <1>4, <1>5

-----------------------------------------------------------------------------
(* Placement. *)

LEMMA CommitKeeps ==
  ASSUME LifecycleInv, NEW node, Commit(node), UNCHANGED <<record, refused, used>>
  PROVE  /\ RestOK /\ LocalRuntimeAccounted' /\ Spares
  <1>1. node \in {"here", "there"} /\ node # "none" /\ node \in Claims
    BY DEF Commit, Claims
  <1>2. ProjectTypeOK /\ LocalRuntimeAccounted
    BY DEF LifecycleInv
  <1>3. Granted(node) \in Lease /\ Granted(node).node = node
    BY <1>1 DEF Granted, Lease
  <1>4. CASE /\ lease = Granted(node) /\ token' = node
             /\ UNCHANGED <<lease, running, held>>
    BY <1>1, <1>2, <1>3, <1>4
       DEF ProjectTypeOK, RestOK, ClaimOK, LocalRuntimeAccounted, Spares, Present
  <1>5. CASE /\ lease' = Granted(node) /\ token' = node
             /\ running' = (running /\ lease.node # "here")
             /\ held' = [held EXCEPT !.current = (held.node = "none")]
    <2>1. ~running'
      BY <1>2, <1>5 DEF LocalRuntimeAccounted
    <2>2. held' \in Held /\ held'.node = held.node
      BY <1>2, <1>5 DEF ProjectTypeOK, Held
    <2>3. running' \in BOOLEAN
      BY <1>5
    <2>. QED
      BY <1>1, <1>2, <1>3, <1>5, <2>1, <2>2, <2>3
         DEF ProjectTypeOK, RestOK, ClaimOK, LocalRuntimeAccounted, Spares
  <1>. QED
    BY <1>4, <1>5 DEF Commit

LEMMA BlockedKeeps ==
  ASSUME LifecycleInv, Blocked \/ Unplaced,
         UNCHANGED <<record, lease, token, held, refused>>
  PROVE  /\ RestOK /\ LocalRuntimeAccounted' /\ Spares
  <1>1. ProjectTypeOK /\ LocalRuntimeAccounted /\ ClaimOK /\ running \in BOOLEAN
    BY DEF LifecycleInv, ProjectTypeOK
  <1>2. \/ running' = running
        \/ running' = (running /\ (lease.live \/ lease.node # "here"))
    BY DEF Blocked, Unplaced
  <1>3. used' = used \/ Fault
    BY DEF Blocked, Unplaced
  <1>4. running' \in BOOLEAN /\ (running' => running)
    <2>1. CASE running' = running
      BY <1>1, <2>1
    <2>2. CASE running' = (running /\ (lease.live \/ lease.node # "here"))
      BY <2>2
    <2>. QED
      BY <1>2, <2>1, <2>2
  <1>. QED
    BY <1>1, <1>3, <1>4, FaultType
       DEF ProjectTypeOK, RestOK, ClaimOK, LocalRuntimeAccounted, Spares, Present

(* The record is still there, and not doomed, when the holder's copy is so. *)
LEMMA StillOperable ==
  ASSUME LifecycleInv, NEW a \in Actors, permit = a,
         Present(op[a].rec), op[a].rec.deletion = -1
  PROVE  Present(record) /\ record.deletion = -1
  <1>1. Covers(op[a].rec, record) /\ record \in Records
    BY Callers
  <1>2. record.deletion \in -1..Cleanups
    BY <1>1, AbsentType
  <1>. QED
    BY <1>1, <1>2, LifecycleAssumption DEF Covers

LEMMA PlacingHolds ==
  ASSUME LifecycleInv, NEW a \in Actors, Placing(a)
  PROVE  /\ permit = a /\ Present(op[a].rec) /\ op[a].rec.deletion = -1
         /\ op[a].rec \in Records /\ op[a].kind \in {"start", "restart", "create"}
         /\ Present(record) /\ record.deletion = -1 /\ record \in Records
  <1>1. CASE Ready(a, {"start", "restart"})
    BY <1>1, Admitted, Callers, StillOperable
  <1>2. CASE At(a, {"create"}, "placing")
    <2>1. op[a].at \in StartPoints /\ op[a].kind = "create"
      BY <1>2 DEF At, StartPoints
    <2>. QED
      BY <2>1, Starting, Callers, StillOperable
  <1>. QED
    BY <1>1, <1>2 DEF Placing

(* The holder goes on with a start, whatever the placement has changed. *)
LEMMA StartGoes ==
  ASSUME LifecycleInv, NEW a \in Actors, permit = a, op[a].kind # "none",
         NEW p \in StartPoints, p = "halted" => op[a].kind = "restart",
         NEW r \in Records, Present(r), r.deletion = -1, Go(a, p, r), permit' = permit,
         record' = record, Covers(r, record), RestOK, LocalRuntimeAccounted'
  PROVE  LifecycleInv' /\ Stands
  <1>0. op[a].kind # "pass"
    BY Callers DEF In
  <1>1. Fits(op[a].kind, p, r) /\ p \in Points /\ p \notin {"idle", "waiting"}
        /\ ~Halted(p, r, held'.node)
    BY <1>0, StartFits
  <1>2. Covers(r, record')
    BY DEF Covers, Present
  <1>. QED
    BY <1>1, <1>2, SameRecord, HolderGoes

LEMMA PlaceKeeps ==
  ASSUME LifecycleInv, NEW a \in Actors, Place(a)
  PROVE  LifecycleInv' /\ Stands
  <1>1. /\ permit = a /\ Present(op[a].rec) /\ op[a].rec.deletion = -1
        /\ op[a].rec \in Records /\ op[a].kind \in {"start", "restart", "create"}
        /\ Present(record) /\ record.deletion = -1 /\ record \in Records
    BY PlacingHolds DEF Place
  <1>2. RestOK /\ LocalRuntimeAccounted' /\ record' = record
    BY CommitKeeps DEF Place
  <1>3. \/ Go(a, "halted", op[a].rec) /\ permit' = permit /\ op[a].kind = "restart"
        \/ Go(a, "local", record) /\ permit' = permit
        \/ Go(a, "dispatching", PlacedCopy(a)) /\ permit' = permit
        \/ Finish(a)
    BY DEF Place
  <1>4. {"halted", "local", "dispatching"} \subseteq StartPoints
    BY DEF StartPoints
  <1>5. Covers(op[a].rec, record) /\ Covers(record, record)
    BY <1>1, Callers DEF Covers
  <1>6. PlacedCopy(a) \in {op[a].rec, record}
    BY DEF PlacedCopy
  <1>. QED
    BY <1>1, <1>2, <1>3, <1>4, <1>5, <1>6, StartGoes, SameRecord, FinishKeeps

LEMMA PlaceFailsKeeps ==
  ASSUME LifecycleInv, NEW a \in Actors, PlaceFails(a)
  PROVE  LifecycleInv' /\ Stands
  <1>1. /\ permit = a /\ Present(op[a].rec) /\ op[a].rec.deletion = -1
        /\ op[a].rec \in Records /\ op[a].kind \in {"start", "restart", "create"}
    BY PlacingHolds DEF PlaceFails
  <1>2. RestOK /\ LocalRuntimeAccounted' /\ record' = record
    BY BlockedKeeps DEF PlaceFails
  <1>3. (Go(a, "undoing", op[a].rec) /\ permit' = permit) \/ Finish(a)
    BY DEF PlaceFails
  <1>4. "undoing" \in StartPoints /\ Covers(op[a].rec, record)
    BY <1>1, Callers DEF StartPoints
  <1>. QED
    BY <1>1, <1>2, <1>3, <1>4, StartGoes, SameRecord, FinishKeeps

(* A start that ends without success, of a call or of a pass. *)
LEMMA GiveUpKeeps ==
  ASSUME LifecycleInv, NEW a \in Actors, op[a].at \in StartPoints, GiveUp(a),
         RestOK, LocalRuntimeAccounted', record' = record, Spares
  PROVE  LifecycleInv' /\ Stands
  <1>1. /\ Present(op[a].rec) /\ op[a].rec.deletion = -1 /\ op[a].rec \in Records
        /\ op[a].kind # "none" /\ (op[a].kind # "pass" => permit = a)
    BY Starting
  <1>2. \/ Go(a, "undoing", op[a].rec) /\ permit' = permit /\ op[a].kind = "create"
        \/ Finish(a)
    BY DEF GiveUp
  <1>3. "undoing" \in StartPoints /\ (permit = a => Covers(op[a].rec, record))
    BY Callers DEF StartPoints
  <1>. QED
    BY <1>1, <1>2, <1>3, StartGoes, SameRecord, FinishKeeps

-----------------------------------------------------------------------------
(* A start goes on, of a call or of a pass that dispatches. *)

LEMMA StartContinues ==
  ASSUME LifecycleInv, NEW a \in Actors, op[a].at \in StartPoints,
         NEW p \in StartPoints, op[a].kind = "pass" => p \in PassPoints, p # "halted",
         NEW r \in Records, Present(r), r.deletion = -1, Go(a, p, r), permit' = permit,
         record' \in Records, Covers(r, record'), RestOK, LocalRuntimeAccounted',
         op[a].kind = "pass" => Spares
  PROVE  LifecycleInv'
  <1>1. /\ op[a].kind # "pass" => permit = a
        /\ op[a].kind = "pass" => a = Fleet
        /\ op[a].kind # "none"
    BY Starting
  <1>2. Fits(op[a].kind, p, r) /\ p \in Points /\ p \notin {"idle", "waiting"}
        /\ ~Halted(p, r, held'.node)
    BY <1>1, StartFits
  <1>. QED
    BY <1>1, <1>2, HolderGoes, PassGoes

LEMMA WriteStartingKeeps ==
  ASSUME LifecycleInv, NEW a \in Actors, WriteStarting(a)
  PROVE  LifecycleInv' /\ Stands
  <1>1. op[a].at \in StartPoints /\ op[a].at \notin PassPoints /\ "token" \in StartPoints
    BY DEF WriteStarting, StartPoints, PassPoints
  <1>2. /\ Present(op[a].rec) /\ op[a].rec.deletion = -1 /\ op[a].rec \in Records
        /\ op[a].kind # "pass" /\ permit = a /\ op[a].kind # "none"
    BY <1>1, Starting
  <1>. DEFINE w == [op[a].rec EXCEPT !.desired = "running", !.status = "starting"]
  <1>3. w \in Stored /\ w.deletion = -1 /\ Present(w)
    BY <1>2, Copies, AbsentType DEF Statuses, Records
  <1>4. /\ record' = w /\ Go(a, "token", w)
        /\ UNCHANGED <<running, lease, token, permit, held, refused, used>>
    BY DEF WriteStarting
  <1>. HIDE DEF w
  <1>5. Fits(op[a].kind, "token", w) /\ "token" \in Points /\ ~Halted("token", w, held'.node)
    BY <1>1, <1>2, <1>3, StartFits
  <1>. QED
    BY <1>2, <1>3, <1>4, <1>5, FaultType, WriteAndGo

LEMMA ValidateKeeps ==
  ASSUME LifecycleInv, NEW a \in Actors, Validate(a)
  PROVE  LifecycleInv' /\ Stands
  <1>1. op[a].at \in StartPoints /\ op[a].at \notin PassPoints
        /\ {"prepare", "failing"} \subseteq StartPoints
    BY DEF Validate, StartPoints, PassPoints
  <1>2. /\ Present(op[a].rec) /\ op[a].rec.deletion = -1 /\ op[a].rec \in Records
        /\ op[a].kind # "pass" /\ permit = a /\ op[a].kind # "none"
    BY <1>1, Starting
  <1>3. /\ \/ Go(a, "prepare", op[a].rec) /\ held' = Hold(token)
           \/ Go(a, "failing", op[a].rec) /\ held' = held
        /\ UNCHANGED <<record, running, lease, token, permit, refused, used>>
    BY DEF Validate
  <1>4. \A p \in {"prepare", "failing"} :
          /\ Fits(op[a].kind, p, op[a].rec) /\ p \in Points /\ p \notin {"idle", "waiting"}
          /\ ~Halted(p, op[a].rec, held'.node)
    BY <1>1, <1>2, StartFits
  <1>. QED
    BY <1>2, <1>3, <1>4, FaultType, GoOn

(* A process is started only for a Project that is placed here and stands. *)
LEMMA LaunchKeeps ==
  ASSUME LifecycleInv, NEW a \in Actors, Launch(a)
  PROVE  LifecycleInv' /\ Stands
  <1>1. op[a].at \in StartPoints /\ op[a].at \notin PassPoints
        /\ {"launched", "failing"} \subseteq StartPoints
    BY DEF Launch, StartPoints, PassPoints
  <1>2. /\ Present(op[a].rec) /\ op[a].rec.deletion = -1 /\ op[a].rec \in Records
        /\ op[a].kind # "pass" /\ permit = a /\ op[a].kind # "none"
    BY <1>1, Starting
  <1>3. /\ UNCHANGED <<record, lease, token, permit, refused>> /\ held' = NoClaim
        /\ used' = used \/ Fault
        /\ \/ running' = TRUE /\ Launchable /\ Go(a, "launched", op[a].rec)
           \/ running' = running /\ Go(a, "failing", op[a].rec)
    BY DEF Launch
  <1>4. Present(record) /\ record.deletion = -1 /\ Covers(op[a].rec, record)
    BY <1>2, StillOperable, Callers
  <1>5. Launchable => lease.node = "here"
    BY DEF Launchable, Valid, Granted
  <1>6. running' \in BOOLEAN /\ LocalRuntimeAccounted'
    <2>1. CASE running' = TRUE /\ Launchable
      BY <1>3, <1>4, <1>5, <2>1 DEF LocalRuntimeAccounted, Present
    <2>2. CASE running' = running
      BY <1>3, <2>2 DEF LifecycleInv, ProjectTypeOK, LocalRuntimeAccounted, Present
    <2>. QED
      BY <1>3, <2>1, <2>2
  <1>7. RestOK
    BY <1>3, <1>6, FaultType DEF LifecycleInv, ProjectTypeOK, RestOK, ClaimOK
  <1>. QED
    BY <1>1, <1>2, <1>3, <1>4, <1>6, <1>7, StartGoes

LEMMA RecordStartKeeps ==
  ASSUME LifecycleInv, NEW a \in Actors, RecordStart(a)
  PROVE  LifecycleInv' /\ Stands
  <1>1. op[a].at \in StartPoints /\ op[a].at \notin PassPoints
    BY DEF RecordStart, StartPoints, PassPoints
  <1>2. /\ Present(op[a].rec) /\ op[a].rec.deletion = -1 /\ op[a].rec \in Records
        /\ permit = a
    BY <1>1, Starting
  <1>. DEFINE w == [op[a].rec EXCEPT !.status = "running"]
  <1>3. w \in Stored /\ w.deletion = -1
    BY <1>2, Copies DEF Statuses
  <1>4. /\ record' = w /\ Finish(a)
        /\ UNCHANGED <<running, lease, token, held, refused, used>>
    BY DEF RecordStart
  <1>. HIDE DEF w
  <1>. QED
    BY <1>2, <1>3, <1>4, WriteAndFinish

LEMMA RecordFailureKeeps ==
  ASSUME LifecycleInv, NEW a \in Actors, RecordFailure(a)
  PROVE  LifecycleInv' /\ Stands
  <1>1. op[a].at \in StartPoints /\ op[a].at \notin PassPoints /\ "undoing" \in StartPoints
    BY DEF RecordFailure, StartPoints, PassPoints
  <1>2. /\ Present(op[a].rec) /\ op[a].rec.deletion = -1 /\ op[a].rec \in Records
        /\ op[a].kind # "pass" /\ permit = a
    BY <1>1, Starting
  <1>. DEFINE w == [op[a].rec EXCEPT !.status = "failed"]
  <1>3. w \in Stored /\ w.deletion = -1
    BY <1>2, Copies DEF Statuses
  <1>4. /\ record' = w /\ (Finish(a) \/ (Go(a, "undoing", op[a].rec) /\ permit' = permit))
        /\ UNCHANGED <<running, lease, token, held, refused, used>>
    BY DEF RecordFailure, GiveUp
  <1>. HIDE DEF w
  <1>5. record' \in Records /\ Covers(op[a].rec, record') /\ Stands /\ LocalRuntimeAccounted'
    BY <1>2, <1>3, <1>4, HolderWrites DEF Covers
  <1>6. RestOK
    BY <1>4, FaultType, RestKept
  <1>. QED
    BY <1>1, <1>2, <1>3, <1>4, <1>5, <1>6, FinishKeeps, StartContinues

LEMMA DispatchIntentKeeps ==
  ASSUME LifecycleInv, NEW a \in Actors, DispatchIntent(a)
  PROVE  LifecycleInv' /\ Stands
  <1>1. op[a].at \in StartPoints /\ op[a].at \notin PassPoints /\ "sending" \in StartPoints
    BY DEF DispatchIntent, StartPoints, PassPoints
  <1>2. /\ Present(op[a].rec) /\ op[a].rec.deletion = -1 /\ op[a].rec \in Records
        /\ op[a].kind # "pass" /\ permit = a
    BY <1>1, Starting
  <1>. DEFINE w == [op[a].rec EXCEPT !.desired = "running"]
  <1>3. w \in Stored /\ w.deletion = -1
    BY <1>2, Copies
  <1>4. /\ record' = record \/ record' = w
        /\ Go(a, "sending", w)
        /\ UNCHANGED <<running, lease, token, permit, held, refused, used>>
    BY DEF DispatchIntent
  <1>. HIDE DEF w
  <1>5. w \in Records /\ Present(w) /\ Covers(w, w) /\ Covers(w, record)
    BY <1>2, <1>3, HolderWrites
  <1>6. /\ record' \in Records /\ Covers(w, record') /\ Stands /\ LocalRuntimeAccounted'
    <2>1. CASE record' = record
      BY <1>4, <1>5, <2>1, SameRecord
         DEF LifecycleInv, LocalRuntimeAccounted, Present, Covers
    <2>2. CASE record' = w
      BY <1>2, <1>3, <1>4, <1>5, <2>2, HolderWrites
    <2>. QED
      BY <1>4, <2>1, <2>2
  <1>7. RestOK
    BY <1>4, FaultType, RestKept
  <1>. QED
    BY <1>1, <1>2, <1>3, <1>4, <1>5, <1>6, <1>7, StartContinues

LEMMA SendKeeps ==
  ASSUME LifecycleInv, NEW a \in Actors, Send(a)
  PROVE  LifecycleInv' /\ Stands
  <1>1. /\ op[a].at \in StartPoints
        /\ {"sent", "notSent", "unsent"} \subseteq StartPoints \cap PassPoints
    BY DEF Send, StartPoints, PassPoints
  <1>2. /\ Present(op[a].rec) /\ op[a].rec.deletion = -1 /\ op[a].rec \in Records
        /\ op[a].kind # "pass" => permit = a
        /\ op[a].kind = "pass" => a = Fleet
    BY <1>1, Starting
  <1>3. /\ UNCHANGED <<record, running, lease, token, permit, held, refused>>
        /\ used' = used \/ Fault
        /\ \E p \in {"sent", "notSent", "unsent"} : Go(a, p, op[a].rec)
    BY DEF Send
  <1>4. RestOK /\ LocalRuntimeAccounted' /\ Spares
    BY <1>3, FaultType, RestKept
       DEF LifecycleInv, LocalRuntimeAccounted, Present, Spares
  <1>5. op[a].kind = "pass" => LifecycleInv'
    <2>. SUFFICES ASSUME op[a].kind = "pass" PROVE LifecycleInv'
      OBVIOUS
    <2>1. PICK p \in {"sent", "notSent", "unsent"} : Go(a, p, op[a].rec)
      BY <1>3
    <2>2. p \in StartPoints /\ p \in PassPoints /\ p # "halted"
      BY <1>1
    <2>3. Fits("pass", p, op[a].rec) /\ p \in Points
      BY <1>2, <2>2, StartFits
    <2>. QED
      BY <1>2, <1>3, <1>4, <2>1, <2>3, SameRecord, PassGoes
  <1>6. op[a].kind # "pass" => LifecycleInv'
    <2>. SUFFICES ASSUME op[a].kind # "pass" PROVE LifecycleInv'
      OBVIOUS
    <2>1. Covers(op[a].rec, record')
      BY <1>2, <1>3, Callers DEF Covers, Present
    <2>. QED
      BY <1>1, <1>2, <1>3, <1>4, <2>1, SameRecord, StartContinues
  <1>. QED
    BY <1>3, <1>5, <1>6, SameRecord

(* The note of a dispatch. A pass writes it without the permit, over a copy *)
(* that has no tombstone.                                                   *)
LEMMA NoteKeeps ==
  ASSUME LifecycleInv, NEW a \in Actors, Note(a)
  PROVE  LifecycleInv' /\ (a = Fleet \/ Stands)
  <1>1. /\ op[a].at \in StartPoints /\ op[a].at \in PassPoints
        /\ {"undoing", "evicting"} \subseteq StartPoints /\ "evicting" \in PassPoints
    BY DEF Note, StartPoints, PassPoints
  <1>2. /\ Present(op[a].rec) /\ op[a].rec.deletion = -1 /\ op[a].rec \in Records
        /\ op[a].kind # "pass" => permit = a
        /\ op[a].kind = "pass" => a = Fleet
    BY <1>1, Starting
  <1>3. /\ record' = op[a].rec
        /\ UNCHANGED <<running, lease, token, held, refused, used>>
        /\ \/ Finish(a)
           \/ Go(a, "undoing", op[a].rec) /\ permit' = permit /\ op[a].kind = "create"
           \/ Go(a, "evicting", op[a].rec) /\ permit' = permit
    BY DEF Note, GiveUp
  <1>4. op[a].rec \in Stored /\ op[a].rec.deletion >= op[a].rec.deletion
    BY <1>2, AbsentType
  <1>5. record' \in Records /\ Spares /\ LocalRuntimeAccounted'
    BY <1>2, <1>3 DEF Spares, LifecycleInv, LocalRuntimeAccounted
  <1>6. RestOK
    BY <1>3, FaultType, RestKept
  <1>7. Covers(op[a].rec, record')
    BY <1>2, <1>3 DEF Covers
  <1>8. a = Fleet \/ Stands
    BY <1>2, <1>3, <1>4, HolderWrites
  <1>. QED
    BY <1>1, <1>2, <1>3, <1>5, <1>6, <1>7, <1>8, FinishKeeps, StartContinues

LEMMA EvictKeeps ==
  ASSUME LifecycleInv, NEW a \in Actors, Evict(a)
  PROVE  LifecycleInv' /\ Stands
  <1>1. op[a].at \in StartPoints
    BY DEF Evict, StartPoints
  <1>2. /\ running' = FALSE \/ running' = running
        /\ used' = used \/ Fault
        /\ GiveUp(a) /\ UNCHANGED <<record, lease, token, held, refused>>
    BY DEF Evict
  <1>3. running' \in BOOLEAN /\ (running' => running)
    <2>0. running \in BOOLEAN
      BY DEF LifecycleInv, ProjectTypeOK
    <2>1. CASE running' = FALSE
      BY <2>1
    <2>2. CASE running' = running
      BY <2>0, <2>2
    <2>. QED
      BY <1>2, <2>1, <2>2
  <1>4. RestOK /\ LocalRuntimeAccounted' /\ Spares
    BY <1>2, <1>3, FaultType
       DEF LifecycleInv, ProjectTypeOK, RestOK, ClaimOK, LocalRuntimeAccounted,
           Present, Spares
  <1>. QED
    BY <1>1, <1>2, <1>4, GiveUpKeeps

-----------------------------------------------------------------------------
(* stop, restart and remove. *)

(* What a call is that has begun to stop the runtime. *)
LEMMA StopHolds ==
  ASSUME LifecycleInv, NEW a \in Actors, op[a].at \in {"stopping", "releasing", "ended"}
  PROVE  /\ permit = a /\ Present(op[a].rec) /\ op[a].rec \in Records
         /\ op[a].kind \in {"stop", "restart", "remove"} /\ op[a].at \in Points
         /\ IF op[a].kind = "remove" THEN op[a].rec.deletion >= 0
                                     ELSE op[a].rec.deletion = -1
         /\ Covers(op[a].rec, record)
         /\ Halted(op[a].at, op[a].rec, held.node) => ~running
  BY Callers DEF In, Fits, PassPoints

LEMMA WriteStoppingKeeps ==
  ASSUME LifecycleInv, NEW a \in Actors, WriteStopping(a)
  PROVE  LifecycleInv' /\ Stands
  <1>1. /\ permit = a /\ Present(op[a].rec) /\ op[a].rec \in Records
        /\ op[a].kind \in {"stop", "restart", "remove"}
        /\ op[a].kind # "remove" => op[a].rec.deletion = -1
    <2>1. CASE Ready(a, {"stop", "remove"})
      BY <2>1, Admitted, Callers
    <2>2. CASE op[a].at = "halted"
      <3>1. op[a].at \in StartPoints /\ op[a].at \notin PassPoints
        BY <2>2 DEF StartPoints, PassPoints
      <3>. QED
        BY <2>2, <3>1, Starting
    <2>. QED
      BY <2>1, <2>2 DEF WriteStopping
  <1>. DEFINE w == Stopping(a)
  <1>2. op[a].rec.deletion \in -1..Cleanups /\ Cleanups \in Nat
    BY <1>1, AbsentType, LifecycleAssumption
  <1>3. /\ w \in Stored /\ w.deletion >= op[a].rec.deletion /\ w.deletion \in Int
        /\ IF op[a].kind = "remove" THEN w.deletion = Max0(op[a].rec.deletion)
                                    ELSE w.deletion = -1
    <2>. DEFINE r == op[a].rec
                n == Max0(r.deletion)
    <2>0. n \in -1..Cleanups /\ n >= r.deletion /\ n \in Int
      BY <1>2 DEF Max0
    <2>1. CASE op[a].kind = "remove"
      <3>1. w = [r EXCEPT !.desired = "stopped", !.status = "stopping", !.deletion = n]
        BY <2>1 DEF Stopping
      <3>. HIDE DEF w, n
      <3>2. \A d \in {"running", "stopped"}, s \in Statuses, i \in -1..Cleanups :
              /\ [r EXCEPT !.desired = d, !.status = s, !.deletion = i] \in Stored
              /\ [r EXCEPT !.desired = d, !.status = s, !.deletion = i].deletion = i
        BY <1>1, Copies
      <3>3. w \in Stored /\ w.deletion = n
        BY <2>0, <3>1, <3>2 DEF Statuses
      <3>. QED
        BY <2>0, <2>1, <3>3 DEF n
    <2>2. CASE op[a].kind \in {"stop", "restart"}
      <3>1. \E d \in {"running", "stopped"} :
              w = [r EXCEPT !.desired = d, !.status = "stopping"]
        BY <2>2 DEF Stopping
      <3>. HIDE DEF w, n
      <3>2. \A d \in {"running", "stopped"}, s \in Statuses :
              /\ [r EXCEPT !.desired = d, !.status = s] \in Stored
              /\ [r EXCEPT !.desired = d, !.status = s].deletion = r.deletion
        BY <1>1, Copies
      <3>3. w \in Stored /\ w.deletion = r.deletion
        BY <3>1, <3>2 DEF Statuses
      <3>. QED
        BY <1>1, <1>2, <2>2, <3>3
    <2>. QED
      BY <1>1, <2>1, <2>2
  <1>4. /\ record' = w /\ Go(a, "stopping", w) /\ held' = Hold(token)
        /\ UNCHANGED <<running, lease, token, permit, refused, used>>
    BY DEF WriteStopping
  <1>. HIDE DEF w
  <1>5. op[a].rec.deletion >= 1 => ~running
    BY <1>1, Callers DEF Halted
  <1>6. w.deletion >= 1 => ~running
    BY <1>2, <1>3, <1>5 DEF Max0
  <1>7. token = "there" => ~running
    BY DEF LifecycleInv, ClaimOK, LocalRuntimeAccounted
  <1>8. held' \in Held /\ held'.node = token
    BY <1>4, FaultType
  <1>9. Halted("stopping", w, held'.node) => ~running
    BY <1>6, <1>7, <1>8 DEF Halted
  <1>10. Present(w)
    BY <1>1, <1>3, HolderWrites
  <1>11. Fits(op[a].kind, "stopping", w) /\ "stopping" \in Points
    BY <1>1, <1>2, <1>3, <1>10 DEF Fits, StartPoints, PassPoints, Points, Max0
  <1>. QED
    BY <1>1, <1>3, <1>4, <1>6, <1>8, <1>9, <1>11, WriteAndGo

(* A stop that fails returns, or records that the deletion failed. *)
LEMMA StopFailedKeeps ==
  ASSUME LifecycleInv, NEW a \in Actors, op[a].at \in {"stopping", "releasing"},
         StopFailed(a), UNCHANGED <<record, running, lease, token, refused>>,
         used' = used \/ Fault
  PROVE  LifecycleInv' /\ Stands
  <1>1. /\ permit = a /\ Present(op[a].rec) /\ op[a].rec \in Records
        /\ op[a].kind = "remove" => op[a].rec.deletion >= 0
        /\ op[a].rec.deletion >= 1 => ~running
    BY StopHolds DEF Halted
  <1>2. /\ held' = NoClaim /\ held' \in Held
        /\ \/ /\ Go(a, "deletionFailed", op[a].rec) /\ permit' = permit
              /\ op[a].kind = "remove"
           \/ Finish(a)
    BY FaultType DEF StopFailed
  <1>3. /\ op[a].kind = "remove" => Fits(op[a].kind, "deletionFailed", op[a].rec)
        /\ "deletionFailed" \in Points
        /\ Halted("deletionFailed", op[a].rec, held'.node) => ~running
    BY <1>1 DEF Fits, StartPoints, Points, Halted
  <1>. QED
    BY <1>1, <1>2, <1>3, GoOn, JustFinish

LEMMA StopRuntimeKeeps ==
  ASSUME LifecycleInv, NEW a \in Actors, StopRuntime(a)
  PROVE  LifecycleInv' /\ Stands
  <1>1. op[a].at = "stopping" /\ op[a].at \in {"stopping", "releasing", "ended"}
    BY DEF StopRuntime
  <1>2. /\ permit = a /\ Present(op[a].rec) /\ op[a].rec \in Records
        /\ op[a].kind \in {"stop", "restart", "remove"}
        /\ IF op[a].kind = "remove" THEN op[a].rec.deletion >= 0
                                    ELSE op[a].rec.deletion = -1
        /\ Covers(op[a].rec, record)
        /\ held.node = "there" => ~running
    BY <1>1, StopHolds DEF Halted
  <1>3. /\ running' = (running /\ held.node = "there")
        /\ Go(a, "releasing", op[a].rec)
        /\ UNCHANGED <<record, lease, token, permit, held, refused, used>>
    BY DEF StopRuntime
  <1>4. running' = FALSE
    BY <1>2, <1>3
  <1>5. RestOK /\ LocalRuntimeAccounted'
    BY <1>3, <1>4, FaultType
       DEF LifecycleInv, ProjectTypeOK, RestOK, ClaimOK, LocalRuntimeAccounted
  <1>6. Fits(op[a].kind, "releasing", op[a].rec) /\ "releasing" \in Points
    BY <1>2 DEF Fits, StartPoints, PassPoints, Points
  <1>7. Covers(op[a].rec, record') /\ record' = record
    BY <1>2, <1>3
  <1>. QED
    BY <1>2, <1>3, <1>4, <1>5, <1>6, <1>7, SameRecord, HolderGoes

LEMMA StopRuntimeFailsKeeps ==
  ASSUME LifecycleInv, NEW a \in Actors, StopRuntimeFails(a)
  PROVE  LifecycleInv' /\ Stands
  BY StopFailedKeeps DEF StopRuntimeFails

LEMMA ReleaseFailsKeeps ==
  ASSUME LifecycleInv, NEW a \in Actors, ReleaseFails(a)
  PROVE  LifecycleInv' /\ Stands
  BY StopFailedKeeps DEF ReleaseFails

LEMMA ReleaseKeeps ==
  ASSUME LifecycleInv, NEW a \in Actors, Release(a)
  PROVE  LifecycleInv' /\ Stands
  <1>1. op[a].at = "releasing" /\ op[a].at \in {"stopping", "releasing", "ended"}
    BY DEF Release
  <1>2. /\ permit = a /\ Present(op[a].rec) /\ op[a].rec \in Records
        /\ op[a].kind \in {"stop", "restart", "remove"}
        /\ IF op[a].kind = "remove" THEN op[a].rec.deletion >= 0
                                    ELSE op[a].rec.deletion = -1
        /\ Covers(op[a].rec, record)
        /\ ~running
    BY <1>1, StopHolds DEF Halted
  <1>3. /\ \/ UNCHANGED <<lease, token>>
           \/ lease' = NoLease /\ token' = "none"
        /\ held' = NoClaim /\ Go(a, "ended", op[a].rec)
        /\ UNCHANGED <<record, running, permit, refused, used>>
    BY DEF Release
  <1>4. NoLease \in Lease /\ "none" \in Claims
    BY DEF NoLease, Lease, Claims
  <1>5. RestOK /\ LocalRuntimeAccounted'
    BY <1>2, <1>3, <1>4, FaultType
       DEF LifecycleInv, ProjectTypeOK, RestOK, ClaimOK, LocalRuntimeAccounted
  <1>6. Fits(op[a].kind, "ended", op[a].rec) /\ "ended" \in Points
    BY <1>2 DEF Fits, StartPoints, PassPoints, Points
  <1>7. Covers(op[a].rec, record') /\ record' = record /\ ~running'
    BY <1>2, <1>3
  <1>. QED
    BY <1>2, <1>3, <1>5, <1>6, <1>7, SameRecord, HolderGoes

LEMMA RecordStopKeeps ==
  ASSUME LifecycleInv, NEW a \in Actors, RecordStop(a)
  PROVE  LifecycleInv' /\ Stands
  <1>1. op[a].kind = "stop" /\ op[a].at \in {"stopping", "releasing", "ended"}
    BY DEF RecordStop, At
  <1>2. /\ permit = a /\ Present(op[a].rec) /\ op[a].rec \in Records
        /\ op[a].rec.deletion = -1
    BY <1>1, StopHolds
  <1>. DEFINE w == [op[a].rec EXCEPT !.status = "stopped"]
  <1>3. w \in Stored /\ w.deletion = -1
    BY <1>2, Copies DEF Statuses
  <1>4. /\ record' = w /\ Finish(a)
        /\ UNCHANGED <<running, lease, token, held, refused, used>>
    BY DEF RecordStop
  <1>. HIDE DEF w
  <1>. QED
    BY <1>2, <1>3, <1>4, WriteAndFinish

(* A restart that has stopped its runtime claims the placement again. *)
LEMMA ReacquireKeeps ==
  ASSUME LifecycleInv, NEW a \in Actors, Reacquire(a) \/ ReacquireFails(a)
  PROVE  LifecycleInv' /\ Stands
  <1>1. op[a].kind = "restart" /\ op[a].at \in {"stopping", "releasing", "ended"}
    BY DEF Reacquire, ReacquireFails, At
  <1>2. /\ permit = a /\ Present(op[a].rec) /\ op[a].rec \in Records
        /\ op[a].rec.deletion = -1 /\ Covers(op[a].rec, record)
    BY <1>1, StopHolds
  <1>3. CASE ReacquireFails(a)
    <2>1. Finish(a) /\ UNCHANGED <<record, lease, token, held, refused>> /\ Unplaced
      BY <1>3 DEF ReacquireFails
    <2>2. RestOK /\ LocalRuntimeAccounted'
      BY <2>1, BlockedKeeps
    <2>. QED
      BY <1>2, <2>1, <2>2, SameRecord, FinishKeeps
  <1>4. CASE Reacquire(a)
    <2>1. /\ Go(a, "local", op[a].rec) /\ UNCHANGED <<record, permit, refused, used>>
          /\ \/ Commit("here")
             \/ /\ lease = Granted("there") /\ token' = "there"
                /\ UNCHANGED <<lease, running, held>>
      BY <1>4 DEF Reacquire
    <2>2. RestOK /\ LocalRuntimeAccounted'
      <3>1. CASE Commit("here")
        BY <2>1, <3>1, CommitKeeps
      <3>2. CASE lease = Granted("there") /\ token' = "there"
                 /\ UNCHANGED <<lease, running, held>>
        <4>1. Commit("there")
          BY <3>2 DEF Commit
        <4>. QED
          BY <2>1, <4>1, CommitKeeps
      <3>. QED
        BY <2>1, <3>1, <3>2
    <2>3. "local" \in StartPoints
      BY DEF StartPoints
    <2>. QED
      BY <1>1, <1>2, <2>1, <2>2, <2>3, StartGoes
  <1>. QED
    BY <1>3, <1>4

-----------------------------------------------------------------------------
(* The rest of deleteProject. *)

DeletePoints == {"cleaning", "cleanup", "cleaned", "erasing", "deletionFailed"}

(* What a call is that deletes. *)
LEMMA DeleteHolds ==
  ASSUME LifecycleInv, NEW a \in Actors, op[a].at \in DeletePoints
  PROVE  /\ permit = a /\ Present(op[a].rec) /\ op[a].rec \in Records
         /\ op[a].rec.deletion \in 0..Cleanups /\ op[a].kind \notin {"none", "pass"}
         /\ op[a].at \in {"cleaning", "cleanup", "cleaned"} => op[a].rec.deletion < Cleanups
         /\ Covers(op[a].rec, record)
         /\ op[a].at # "deletionFailed" => ~running
         /\ op[a].rec.deletion >= 1 => ~running
  <1>1. /\ permit = a /\ Present(op[a].rec) /\ op[a].rec.deletion >= 0
        /\ op[a].kind \notin {"none", "pass"} /\ op[a].rec \in Records
        /\ op[a].at \in {"cleaning", "cleanup", "cleaned"} => op[a].rec.deletion < Cleanups
    BY Callers DEF In, Fits, PassPoints, DeletePoints
  <1>2. op[a].rec.deletion \in 0..Cleanups
    BY <1>1, AbsentType, LifecycleAssumption
  <1>. QED
    BY <1>1, <1>2, Callers DEF Halted, DeletePoints

(* The copy of a deletion goes on fitting it. *)
LEMMA DeleteFits ==
  ASSUME NEW k, k \notin {"none", "pass"}, NEW p \in DeletePoints, NEW r, Present(r),
         r.deletion \in 0..Cleanups,
         p \in {"cleaning", "cleanup", "cleaned"} => r.deletion < Cleanups
  PROVE  Fits(k, p, r) /\ p \in Points /\ p \notin {"idle", "waiting"}
  BY LifecycleAssumption DEF Fits, DeletePoints, StartPoints, Points

(* A deletion that has stopped the runtime goes on. *)
LEMMA DeleteGoes ==
  ASSUME LifecycleInv, NEW a \in Actors, permit = a, Present(op[a].rec), ~running,
         op[a].kind \notin {"none", "pass"},
         NEW w \in Stored, w.deletion \in 0..Cleanups, w.deletion >= op[a].rec.deletion,
         record' = w, NEW p \in DeletePoints, Go(a, p, w),
         p \in {"cleaning", "cleanup", "cleaned"} => w.deletion < Cleanups,
         UNCHANGED <<running, lease, token, permit, held, refused, used>>
  PROVE  LifecycleInv' /\ Stands
  <1>1. Present(w)
    BY HolderWrites
  <1>2. Fits(op[a].kind, p, w) /\ p \in Points /\ p \notin {"idle", "waiting"}
    BY <1>1, DeleteFits
  <1>. QED
    BY <1>2, FaultType, WriteAndGo

LEMMA AfterCleanupFits ==
  ASSUME NEW r, r.deletion \in 0..Cleanups
  PROVE  /\ AfterCleanup(r) \in DeletePoints
         /\ AfterCleanup(r) \in {"cleaning", "cleanup", "cleaned"} => r.deletion < Cleanups
  BY LifecycleAssumption DEF AfterCleanup, DeletePoints

LEMMA RecordRemoteStopKeeps ==
  ASSUME LifecycleInv, NEW a \in Actors, RecordRemoteStop(a)
  PROVE  LifecycleInv' /\ Stands
  <1>1. op[a].kind = "remove" /\ op[a].at = "ended"
    BY DEF RecordRemoteStop, At
  <1>2. /\ permit = a /\ Present(op[a].rec) /\ op[a].rec \in Records
        /\ op[a].rec.deletion \in 0..Cleanups /\ ~running
    BY <1>1, StopHolds, AbsentType, LifecycleAssumption DEF Halted
  <1>. DEFINE w == [op[a].rec EXCEPT !.status = "stopped"]
  <1>3. w \in Stored /\ w.deletion = op[a].rec.deletion
    BY <1>2, Copies DEF Statuses
  <1>4. /\ record' = w /\ Go(a, AfterCleanup(w), w)
        /\ UNCHANGED <<running, lease, token, permit, held, refused, used>>
    BY DEF RecordRemoteStop
  <1>. HIDE DEF w
  <1>5. /\ AfterCleanup(w) \in DeletePoints
        /\ AfterCleanup(w) \in {"cleaning", "cleanup", "cleaned"} => w.deletion < Cleanups
    BY <1>2, <1>3, AfterCleanupFits
  <1>6. w.deletion >= op[a].rec.deletion
    BY <1>2, <1>3
  <1>. QED
    BY <1>1, <1>2, <1>3, <1>4, <1>5, <1>6, DeleteGoes

LEMMA NoteCleanupKeeps ==
  ASSUME LifecycleInv, NEW a \in Actors, NoteCleanup(a)
  PROVE  LifecycleInv' /\ Stands
  <1>1. op[a].at = "cleaning" /\ op[a].at \in DeletePoints /\ "cleanup" \in DeletePoints
    BY DEF NoteCleanup, DeletePoints
  <1>2. /\ permit = a /\ Present(op[a].rec) /\ op[a].rec \in Stored
        /\ op[a].rec.deletion \in 0..Cleanups /\ op[a].rec.deletion < Cleanups
        /\ op[a].kind \notin {"none", "pass"} /\ ~running
    BY <1>1, DeleteHolds, AbsentType
  <1>3. /\ record' = op[a].rec /\ Go(a, "cleanup", op[a].rec)
        /\ UNCHANGED <<running, lease, token, permit, held, refused, used>>
    BY DEF NoteCleanup
  <1>4. op[a].rec.deletion >= op[a].rec.deletion
    BY <1>2
  <1>. QED
    BY <1>1, <1>2, <1>3, <1>4, DeleteGoes

(* The first participant deletes the placement, when nothing runs here. *)
LEMMA CleanupKeeps ==
  ASSUME LifecycleInv, NEW a \in Actors, Cleanup(a)
  PROVE  LifecycleInv' /\ Stands
  <1>1. op[a].at = "cleanup" /\ op[a].at \in DeletePoints /\ "cleaned" \in DeletePoints
    BY DEF Cleanup, DeletePoints
  <1>2. /\ permit = a /\ Present(op[a].rec) /\ op[a].rec \in Records
        /\ op[a].rec.deletion \in 0..Cleanups /\ op[a].rec.deletion < Cleanups
        /\ op[a].kind \notin {"none", "pass"} /\ ~running /\ Covers(op[a].rec, record)
    BY <1>1, DeleteHolds
  <1>3. /\ lease' = NoLease \/ lease' = lease
        /\ Go(a, "cleaned", op[a].rec)
        /\ UNCHANGED <<record, running, token, permit, held, refused, used>>
    BY DEF Cleanup
  <1>4. /\ NoLease \in Lease /\ NoLease.node = "none"
        /\ ProjectTypeOK /\ ClaimOK
    BY DEF NoLease, Lease, LifecycleInv
  <1>5. RestOK /\ LocalRuntimeAccounted'
    BY <1>2, <1>3, <1>4 DEF ProjectTypeOK, RestOK, ClaimOK, LocalRuntimeAccounted
  <1>6. Fits(op[a].kind, "cleaned", op[a].rec) /\ "cleaned" \in Points
    BY <1>1, <1>2, DeleteFits
  <1>7. record' = record /\ Covers(op[a].rec, record') /\ ~running'
    BY <1>2, <1>3
  <1>. QED
    BY <1>2, <1>3, <1>5, <1>6, <1>7, SameRecord, HolderGoes

LEMMA CleanupFailsKeeps ==
  ASSUME LifecycleInv, NEW a \in Actors, CleanupFails(a)
  PROVE  LifecycleInv' /\ Stands
  <1>1. op[a].at = "cleanup" /\ op[a].at \in DeletePoints /\ "deletionFailed" \in DeletePoints
    BY DEF CleanupFails, DeletePoints
  <1>2. /\ permit = a /\ Present(op[a].rec) /\ op[a].rec \in Records
        /\ op[a].rec.deletion \in 0..Cleanups
        /\ op[a].kind \notin {"none", "pass"} /\ ~running
    BY <1>1, DeleteHolds
  <1>3. /\ Fault /\ Go(a, "deletionFailed", op[a].rec)
        /\ UNCHANGED <<record, running, lease, token, permit, held, refused>>
    BY DEF CleanupFails
  <1>4. Fits(op[a].kind, "deletionFailed", op[a].rec) /\ "deletionFailed" \in Points
    BY <1>1, <1>2, DeleteFits
  <1>. QED
    BY <1>2, <1>3, <1>4, FaultType, GoOn

(* Only the holder of the permit advances the tombstone. *)
LEMMA CleanupDoneKeeps ==
  ASSUME LifecycleInv, NEW a \in Actors, CleanupDone(a)
  PROVE  LifecycleInv' /\ Stands
  <1>1. op[a].at = "cleaned" /\ op[a].at \in DeletePoints
    BY DEF CleanupDone, DeletePoints
  <1>2. /\ permit = a /\ Present(op[a].rec) /\ op[a].rec \in Records
        /\ op[a].rec.deletion \in 0..Cleanups /\ op[a].rec.deletion < Cleanups
        /\ op[a].kind \notin {"none", "pass"} /\ ~running
    BY <1>1, DeleteHolds
  <1>. DEFINE n == op[a].rec.deletion + 1
              w == [op[a].rec EXCEPT !.deletion = n]
  <1>3. n \in 0..Cleanups /\ n \in -1..Cleanups /\ n >= op[a].rec.deletion
    BY <1>2, LifecycleAssumption
  <1>4. /\ record' = w /\ Go(a, AfterCleanup(w), w)
        /\ UNCHANGED <<running, lease, token, permit, held, refused, used>>
    BY DEF CleanupDone
  <1>. HIDE DEF n
  <1>5. w \in Stored /\ w.deletion = n
    BY <1>2, <1>3, Copies
  <1>. HIDE DEF w
  <1>6. /\ AfterCleanup(w) \in DeletePoints
        /\ AfterCleanup(w) \in {"cleaning", "cleanup", "cleaned"} => w.deletion < Cleanups
    BY <1>3, <1>5, AfterCleanupFits
  <1>. QED
    BY <1>2, <1>3, <1>4, <1>5, <1>6, DeleteGoes

LEMMA EraseKeeps ==
  ASSUME LifecycleInv, NEW a \in Actors, Erase(a)
  PROVE  LifecycleInv' /\ Stands
  <1>1. op[a].at = "erasing" /\ op[a].at \in DeletePoints
    BY DEF Erase, DeletePoints
  <1>2. permit = a /\ ~running
    BY <1>1, DeleteHolds
  <1>3. /\ record' = Absent /\ Finish(a)
        /\ UNCHANGED <<running, lease, token, held, refused, used>>
    BY DEF Erase
  <1>4. record' \in Records /\ ~Present(record')
    BY <1>3, AbsentType
  <1>5. RestOK /\ LocalRuntimeAccounted' /\ Stands
    BY <1>2, <1>3, <1>4, FaultType, RestKept DEF LocalRuntimeAccounted, Stands
  <1>. QED
    BY <1>2, <1>3, <1>4, <1>5, FinishKeeps

LEMMA DeletionFailedKeeps ==
  ASSUME LifecycleInv, NEW a \in Actors, DeletionFailed(a)
  PROVE  LifecycleInv' /\ Stands
  <1>1. op[a].at = "deletionFailed" /\ op[a].at \in DeletePoints
    BY DEF DeletionFailed, DeletePoints
  <1>2. /\ permit = a /\ Present(op[a].rec) /\ op[a].rec \in Records
        /\ op[a].rec.deletion \in 0..Cleanups /\ (op[a].rec.deletion >= 1 => ~running)
    BY <1>1, DeleteHolds
  <1>. DEFINE seen == IF running THEN "running" ELSE "stopped"
              w == [op[a].rec EXCEPT !.status = seen]
  <1>3. /\ record' = w /\ Finish(a)
        /\ UNCHANGED <<running, lease, token, held, refused, used>>
    BY DEF DeletionFailed
  <1>4. seen \in Statuses
    BY DEF Statuses
  <1>. HIDE DEF seen
  <1>5. w \in Stored /\ w.deletion = op[a].rec.deletion
    BY <1>2, <1>4, Copies
  <1>. HIDE DEF w
  <1>6. w.deletion >= op[a].rec.deletion /\ (w.deletion < 1 \/ ~running)
    BY <1>2, <1>5, LifecycleAssumption
  <1>. QED
    BY <1>2, <1>3, <1>5, <1>6, WriteAndFinish

-----------------------------------------------------------------------------
(* reconcileFleet. *)

(* The pass goes on as a call of the manager, which waits for the permit. *)
LEMMA BecomeKeeps ==
  ASSUME LifecycleInv, op[Fleet].kind = "pass", NEW k \in {"resume", "remove", "stop"},
         Become(k), UNCHANGED <<record, running, lease, token, permit, held, refused, used>>
  PROVE  LifecycleInv' /\ Stands
  <1>. DEFINE x == [op[Fleet] EXCEPT !.kind = k, !.at = "waiting"]
  <1>1. Fleet \in Actors
    BY DEF Actors
  <1>2. op[Fleet] \in OpRecord /\ permit # Fleet
    BY <1>1, Callers DEF In
  <1>3. /\ x \in OpRecord /\ x.kind = k /\ x.at = "waiting" /\ ~In(x.kind, x.at)
        /\ Fits(x.kind, x.at, x.rec)
    BY <1>2 DEF OpRecord, OpKinds, Kinds, Points, In, Fits, StartPoints
  <1>4. op' = [op EXCEPT ![Fleet] = x]
    BY <1>2 DEF Become, OpRecord
  <1>5. Moves(Fleet, x)
    BY <1>2, <1>3, <1>4 DEF Moves
  <1>6. RestOK /\ LocalRuntimeAccounted' /\ Spares
    BY FaultType, RestKept DEF LifecycleInv, LocalRuntimeAccounted, Present, Spares
  <1>. HIDE DEF x
  <1>. QED
    BY <1>1, <1>3, <1>5, <1>6, SameRecord, MoveKeeps

LEMMA PassListKeeps ==
  ASSUME LifecycleInv, PassList
  PROVE  LifecycleInv' /\ Stands
  <1>. DEFINE x == [kind |-> "pass", at |-> "listed", rec |-> record]
  <1>1. Fleet \in Actors
    BY DEF Actors
  <1>2. permit # Fleet /\ record \in Records /\ Present(record)
    BY <1>1, Callers DEF PassList, Idle, In
  <1>3. /\ x \in OpRecord /\ x.kind = "pass" /\ x.at = "listed" /\ ~In(x.kind, x.at)
        /\ Fits(x.kind, x.at, x.rec)
    BY <1>2 DEF OpRecord, OpKinds, Points, In, Fits, StartPoints, PassPoints
  <1>4. /\ op' = [op EXCEPT ![Fleet] = x]
        /\ UNCHANGED <<record, running, lease, token, permit, held, refused, used>>
    BY DEF PassList
  <1>5. Moves(Fleet, x)
    BY <1>2, <1>3, <1>4 DEF Moves
  <1>6. RestOK /\ LocalRuntimeAccounted' /\ Spares
    BY <1>4, FaultType, RestKept DEF LifecycleInv, LocalRuntimeAccounted, Present, Spares
  <1>. HIDE DEF x
  <1>. QED
    BY <1>1, <1>3, <1>4, <1>5, <1>6, SameRecord, MoveKeeps

(* A pass places and dispatches only what it has found without a tombstone. *)
LEMMA PassPlacesKeeps ==
  ASSUME LifecycleInv, PassPlaces
  PROVE  LifecycleInv' /\ Stands
  <1>1. Fleet \in Actors /\ op[Fleet].kind = "pass" /\ op[Fleet].at = "listed"
    BY DEF Actors, PassPlaces, Listed, At
  <1>2. op[Fleet].rec \in Records /\ Present(op[Fleet].rec) /\ ~Doomed(op[Fleet].rec)
    BY <1>1, Callers DEF Fits, PassPlaces, WantsPlacement
  <1>3. op[Fleet].rec.deletion = -1
    BY <1>2, AbsentType, LifecycleAssumption DEF Doomed
  <1>4. /\ UNCHANGED <<record, permit, refused, used>>
        /\ \E p \in {"placing", "sending"} : Go(Fleet, p, op[Fleet].rec)
        /\ Commit("here") \/ Commit("there")
    BY DEF PassPlaces
  <1>5. RestOK /\ LocalRuntimeAccounted' /\ Spares
    BY <1>4, CommitKeeps
  <1>6. PICK p \in {"placing", "sending"} : Go(Fleet, p, op[Fleet].rec)
    BY <1>4
  <1>7. Fits("pass", p, op[Fleet].rec) /\ p \in Points
    BY <1>2, <1>3, <1>6 DEF Fits, StartPoints, PassPoints, Points
  <1>. QED
    BY <1>1, <1>2, <1>4, <1>5, <1>6, <1>7, SameRecord, PassGoes

(* What the resumed start reads under the permit is what it goes on with. *)
LEMMA ResumeKeeps ==
  ASSUME LifecycleInv, Resume
  PROVE  LifecycleInv' /\ Stands
  <1>1. Fleet \in Actors
    BY DEF Actors
  <1>2. /\ op[Fleet].kind = "resume" /\ permit = Fleet
        /\ Present(op[Fleet].rec) /\ op[Fleet].rec.deletion = -1
    BY <1>1, Admitted DEF Resume
  <1>3. Present(record) /\ record.deletion = -1 /\ record \in Records
    BY <1>1, <1>2, StillOperable, Callers
  <1>4. Covers(record, record) /\ "local" \in StartPoints
    BY <1>3 DEF Covers, StartPoints
  <1>5. /\ Go(Fleet, "local", record)
        /\ UNCHANGED <<record, running, lease, token, permit, held, refused, used>>
    BY DEF Resume
  <1>6. RestOK /\ LocalRuntimeAccounted'
    BY <1>5, FaultType, RestKept DEF LifecycleInv, LocalRuntimeAccounted, Present
  <1>. QED
    BY <1>1, <1>2, <1>3, <1>4, <1>5, <1>6, StartGoes

LEMMA PassStepKeeps ==
  ASSUME LifecycleInv, PassStep
  PROVE  LifecycleInv' /\ Stands
  <1>1. Fleet \in Actors
    BY DEF Actors
  <1>2. CASE PassBlocked
    <2>1. Finish(Fleet) /\ Blocked /\ UNCHANGED <<record, lease, token, held, refused>>
      BY <1>2 DEF PassBlocked
    <2>2. RestOK /\ LocalRuntimeAccounted' /\ Spares
      BY <2>1, BlockedKeeps
    <2>. QED
      BY <1>1, <2>1, <2>2, SameRecord, FinishKeeps
  <1>3. CASE PassStarts \/ PassDeletes \/ PassStops
    <2>1. /\ op[Fleet].kind = "pass"
          /\ UNCHANGED <<record, running, lease, token, held, refused, used>>
          /\ \/ Finish(Fleet)
             \/ \E k \in {"resume", "remove", "stop"} : Become(k) /\ permit' = permit
      BY <1>3 DEF PassStarts, PassDeletes, PassStops, Listed, At
    <2>2. held' \in Held
      BY <2>1, FaultType
    <2>. QED
      BY <1>1, <2>1, <2>2, BecomeKeeps, JustFinish
  <1>. QED
    BY <1>2, <1>3, PassListKeeps, PassPlacesKeeps, ResumeKeeps DEF PassStep

-----------------------------------------------------------------------------
(* The renewal timer, and the world around. *)

LEMMA WorldKeeps ==
  ASSUME LifecycleInv, World
  PROVE  LifecycleInv' /\ Stands
  <1>0. ProjectTypeOK /\ CallsOK /\ HolderOK /\ ClaimOK /\ LocalRuntimeAccounted
        /\ running \in BOOLEAN
    BY DEF LifecycleInv, ProjectTypeOK
  <1>1. CASE RenewalRefused \/ ActOnRefusal \/ Expire \/ RuntimeExits
    <2>1. UNCHANGED <<record, permit, op, held>>
      BY <1>1 DEF RenewalRefused, ActOnRefusal, Expire, RuntimeExits
    <2>2. \/ running' = running \/ running' = FALSE
          \/ running' = (running /\ refused # "here")
      BY <1>1 DEF RenewalRefused, ActOnRefusal, Expire, RuntimeExits
    <2>3. running' \in BOOLEAN /\ (running' => running)
      <3>1. CASE running' = running
        BY <1>0, <3>1
      <3>2. CASE running' = FALSE
        BY <3>2
      <3>3. CASE running' = (running /\ refused # "here")
        BY <3>3
      <3>. QED
        BY <2>2, <3>1, <3>2, <3>3
    <2>4. /\ lease' \in Lease /\ lease'.node = lease.node
          /\ token' \in Claims /\ refused' \in Claims /\ token' \in {token, "none"}
          /\ used' = used \/ Fault
      BY <1>0, <1>1
         DEF ProjectTypeOK, Lease, Claims, RenewalRefused, ActOnRefusal, Expire, RuntimeExits
    <2>5. used' \in [crashes : 0..MaxCrashes, faults : 0..MaxFaults]
      BY <2>4, FaultType
    <2>6. ProjectTypeOK'
      BY <1>0, <2>1, <2>3, <2>4, <2>5 DEF ProjectTypeOK
    <2>7. CallsOK'
      BY <1>0, <2>1 DEF CallsOK
    <2>8. HolderOK'
      BY <1>0, <2>1, <2>3 DEF HolderOK
    <2>9. ClaimOK' /\ LocalRuntimeAccounted'
      BY <1>0, <2>1, <2>3, <2>4 DEF ClaimOK, LocalRuntimeAccounted, Present
    <2>. QED
      BY <2>1, <2>6, <2>7, <2>8, <2>9, SameRecord DEF LifecycleInv
  <1>2. CASE Crash
    <2>1. /\ record' = record /\ op' = [a \in Actors |-> Idle] /\ permit' = Nobody
          /\ token' = "none" /\ held' = NoClaim /\ refused' = "none"
          /\ lease' = [lease EXCEPT !.mine = FALSE]
          /\ running' = running \/ running' = FALSE
      BY <1>2 DEF Crash
    <2>2. running' \in BOOLEAN /\ (running' => running)
      <3>1. CASE running' = running
        BY <1>0, <3>1
      <3>2. CASE running' = FALSE
        BY <3>2
      <3>. QED
        BY <2>1, <3>1, <3>2
    <2>3. lease' \in Lease /\ lease'.node = lease.node
      BY <1>0, <2>1 DEF ProjectTypeOK, Lease
    <2>4. used' \in [crashes : 0..MaxCrashes, faults : 0..MaxFaults]
      BY <1>0, <1>2, LifecycleAssumption DEF Crash, ProjectTypeOK
    <2>5. /\ Idle \in OpRecord /\ Idle.kind = "none" /\ Idle.at = "idle"
          /\ ~In(Idle.kind, Idle.at) /\ Fits(Idle.kind, Idle.at, Idle.rec)
      BY AbsentType DEF Idle, OpRecord, OpKinds, Points, In, Fits, StartPoints
    <2>6. \A a \in Actors : op'[a] = Idle
      BY <2>1
    <2>7. ProjectTypeOK'
      BY <1>0, <2>1, <2>2, <2>3, <2>4, <2>5, FaultType
         DEF ProjectTypeOK, OpRecord, OpKinds, Records, Claims
    <2>8. Nobody \notin Actors
      BY LifecycleAssumption DEF Actors
    <2>9. CallsOK'
      BY <2>1, <2>5, <2>6, <2>8 DEF CallsOK, Fits, In, Present
    <2>10. HolderOK'
      BY <2>1, <2>8 DEF HolderOK
    <2>11. ClaimOK' /\ LocalRuntimeAccounted'
      BY <1>0, <2>1, <2>2, <2>3 DEF ClaimOK, LocalRuntimeAccounted, Present
    <2>. QED
      BY <2>1, <2>7, <2>9, <2>10, <2>11, SameRecord DEF LifecycleInv
  <1>. QED
    BY <1>1, <1>2 DEF World

-----------------------------------------------------------------------------
(* Every step. *)

LEMMA StepKeeps ==
  ASSUME LifecycleInv, NEW a \in Actors, Step(a)
  PROVE  LifecycleInv' /\ (Note(Fleet) \/ Stands)
  <1>1. CASE Refuse(a)
    BY <1>1, RefuseKeeps
  <1>2. CASE StartStep(a)
    <2>1. CASE Note(a)
      BY <2>1, NoteKeeps
    <2>. QED
      BY <1>2, <2>1, PlaceKeeps, PlaceFailsKeeps, WriteStartingKeeps, ValidateKeeps,
         LaunchKeeps, RecordStartKeeps, RecordFailureKeeps, DispatchIntentKeeps,
         SendKeeps, EvictKeeps DEF StartStep
  <1>3. CASE StopStep(a)
    BY <1>3, WriteStoppingKeeps, StopRuntimeKeeps, StopRuntimeFailsKeeps, ReleaseKeeps,
       ReleaseFailsKeeps, RecordStopKeeps, ReacquireKeeps DEF StopStep
  <1>4. CASE DeleteStep(a)
    BY <1>4, RecordRemoteStopKeeps, NoteCleanupKeeps, CleanupKeeps, CleanupFailsKeeps,
       CleanupDoneKeeps, EraseKeeps, DeletionFailedKeeps DEF DeleteStep
  <1>. QED
    BY <1>1, <1>2, <1>3, <1>4 DEF Step

LEMMA CallStepKeeps ==
  ASSUME LifecycleInv, NEW o \in Operators, CallStep(o)
  PROVE  LifecycleInv' /\ Stands
  <1>1. o \in Actors
    BY DEF Actors
  <1>. QED
    BY <1>1, RefreshKeeps, RenameKeeps, UpgradeKeeps, ClaimKeeps, ProvisionKeeps DEF CallStep

(* A call is admitted: an operator's, or the one the pass has become. *)
LEMMA EnterKeeps ==
  ASSUME LifecycleInv, Enter \/ \E o \in Operators, k \in Kinds : Call(o, k)
  PROVE  LifecycleInv' /\ Stands
  <1>1. CASE Enter
    <2>1. Fleet \in Actors /\ op[Fleet].at = "waiting" /\ Admit(Fleet, op[Fleet].kind)
      BY <1>1 DEF Enter, Actors
    <2>2. op[Fleet].kind \in OpKinds \ {"none", "pass"}
      BY <2>1, Callers DEF Fits, PassPoints
    <2>. QED
      BY <2>1, <2>2, AdmitKeeps
  <1>2. CASE \E o \in Operators, k \in Kinds : Call(o, k)
    <2>1. PICK o \in Operators, k \in Kinds : Admit(o, k)
      BY <1>2 DEF Call
    <2>2. o \in Actors /\ k \in OpKinds \ {"none", "pass"}
      BY <2>1 DEF Actors, OpKinds, Kinds
    <2>. QED
      BY <2>1, <2>2, AdmitKeeps
  <1>. QED
    BY <1>1, <1>2

LEMMA NextKeeps ==
  ASSUME LifecycleInv, [Next]_vars
  PROVE  LifecycleInv' /\ (Note(Fleet) \/ Stands)
  <1>1. CASE UNCHANGED vars
    BY <1>1, SameRecord
       DEF vars, LifecycleInv, ProjectTypeOK, CallsOK, HolderOK, ClaimOK,
           LocalRuntimeAccounted, Present, Fits, Covers, In, Halted
  <1>2. CASE Next
    BY <1>2, CallStepKeeps, StepKeeps, PassStepKeeps, EnterKeeps, WorldKeeps DEF Next
  <1>. QED
    BY <1>1, <1>2

LEMMA InitHolds ==
  ASSUME Init
  PROVE  LifecycleInv
  <1>1. /\ Idle \in OpRecord /\ Idle.kind = "none" /\ Idle.at = "idle"
        /\ ~In(Idle.kind, Idle.at) /\ Fits(Idle.kind, Idle.at, Idle.rec)
        /\ Nobody \notin Actors
    BY AbsentType, LifecycleAssumption
       DEF Idle, OpRecord, OpKinds, Points, In, Fits, StartPoints, Actors
  <1>2. \A a \in Actors : op[a] = Idle
    BY DEF Init
  <1>3. /\ NoLease \in Lease /\ NoClaim \in Held
        /\ [crashes |-> 0, faults |-> 0] \in [crashes : 0..MaxCrashes, faults : 0..MaxFaults]
    BY LifecycleAssumption DEF NoLease, Lease, NoClaim, Held, Claims
  <1>4. ProjectTypeOK
    BY <1>1, <1>3 DEF Init, ProjectTypeOK, OpRecord, OpKinds, Records, Claims
  <1>5. CallsOK
    BY <1>1, <1>2 DEF Init, CallsOK
  <1>6. HolderOK /\ ClaimOK /\ LocalRuntimeAccounted
    BY <1>1 DEF Init, HolderOK, ClaimOK, LocalRuntimeAccounted
  <1>. QED
    BY <1>4, <1>5, <1>6 DEF LifecycleInv

-----------------------------------------------------------------------------
(* The theorems. *)

(* The inductive invariant: whoever has the Project's permit                *)
(* (withProjectLifecycle) holds a copy at least as far in its deletion as   *)
(* the record in the System Store.                                          *)
THEOREM LifecycleInvariant == LifecycleSpec => []LifecycleInv
  <1>1. Init => LifecycleInv
    BY InitHolds
  <1>2. LifecycleInv /\ [Next]_vars => LifecycleInv'
    BY NextKeeps
  <1>. QED
    BY <1>1, <1>2, PTL DEF LifecycleSpec

(* Every variable keeps its type under every interleaving of the manager's  *)
(* calls, passes, renewals and crashes.                                     *)
THEOREM ProjectTypeCorrect == LifecycleSpec => []ProjectTypeOK
  <1>1. LifecycleInv => ProjectTypeOK
    BY DEF LifecycleInv
  <1>. QED
    BY <1>1, LifecycleInvariant, PTL

(* The driver never runs a Project on this host that has no record, whose   *)
(* data a deletion has begun to clean up, or that is placed elsewhere.      *)
THEOREM LocalRuntimesAccounted == LifecycleSpec => []LocalRuntimeAccounted
  <1>1. LifecycleInv => LocalRuntimeAccounted
    BY DEF LifecycleInv
  <1>. QED
    BY <1>1, LifecycleInvariant, PTL

(* No write of a call that has the permit takes back deletion progress or   *)
(* brings a deleted Project back; only the placement note of a pass can.    *)
THEOREM PermittedStand == LifecycleSpec => PermittedWritesStand
  <1>1. LifecycleInv /\ [Next]_vars => [Note(Fleet) \/ Stands]_vars
    BY NextKeeps
  <1>. QED
    BY <1>1, LifecycleInvariant, PTL DEF LifecycleSpec, PermittedWritesStand

================================================================================
