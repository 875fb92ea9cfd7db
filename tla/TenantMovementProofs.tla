-------------------------- MODULE TenantMovementProofs --------------------------
(***************************************************************************)
(* Proofs about TenantMovement, for any shards, any number of moves, writes *)
(* and faults, and any caps of the mover's loops.                           *)
(*                                                                         *)
(* The argument: the log of the source is a chain, each event one version   *)
(* after the event of the same record before it, and the last as the source *)
(* is now. The copy of a record is somewhere on that chain, ahead of the    *)
(* mover's cursor or at it, unless a retraction missed it or it was written *)
(* behind the fence. At the end of the log a record so linked is the        *)
(* source's, and the fence keeps it so until the map names the target.      *)
(***************************************************************************)
EXTENDS TenantMovement, TLAPS

-----------------------------------------------------------------------------
(* Types. *)

Move == [phase : {"none", "copying", "copied", "routed"},
         from : Shards, to : Shards, version : Nat]
Map == [version : Nat, home : Shards]
MoverState == [pc : Pcs, resumed : BOOLEAN, applied : BOOLEAN,
               round : 0 .. CatchUpRounds - 1, pass : 0 .. SettlePasses - 1]
Admin == [op : {"none", "alter", "create"}, shard : Shards]
Used == [writes : 0 .. MaxWrites, moves : 0 .. MaxMoves,
         maps : 0 .. MaxMapUpdates, faults : 0 .. MaxFaults]

(* Versions are bounded by the writes so far; a retraction follows a record *)
(* and leaves no value.                                                     *)
VersionsOK ==
  /\ \A s \in Shards, id \in Ids : rec[s][id].ver <= used.writes
  /\ \A i \in 1 .. Len(backlog) :
       /\ backlog[i].ver <= used.writes
       /\ backlog[i].kind = "retract" => backlog[i].ver >= 2 /\ backlog[i].val = 0

Types == MovementTypeOK /\ VersionsOK

(* The constant records and the numbers. *)
LEMMA Constants ==
  /\ NoMove \in Move /\ NoChange \in Admin /\ AtRest \in MoverState
  /\ NoMove.phase = "none" /\ AtRest.pc = "idle" /\ AtRest.resumed = FALSE
  /\ 0 \in 0 .. MaxWrites /\ 1 \in 0 .. MaxWrites /\ 2 \in 0 .. MaxWrites
  /\ NoRec \in Rec /\ NoRec.ver = 0 /\ NoRec.val = 0
  <1>. USE MovementAssumption
  <1>1. 0 \in 0 .. MaxWrites /\ 1 \in 0 .. MaxWrites /\ 2 \in 0 .. MaxWrites
    OBVIOUS
  <1>2. 0 \in 0 .. CatchUpRounds - 1 /\ 0 \in 0 .. SettlePasses - 1
    OBVIOUS
  <1>3. AtRest \in MoverState /\ AtRest.pc = "idle" /\ AtRest.resumed = FALSE
    BY <1>2 DEF AtRest, MoverState, Pcs
  <1>. QED
    BY <1>1, <1>3 DEF NoMove, Move, NoChange, Admin, NoRec, Rec

(* What the types say of the parts. *)
LEMMA TypesHere ==
  ASSUME MovementTypeOK
  PROVE  /\ move \in Move /\ map \in Map /\ mover \in MoverState /\ admin \in Admin
         /\ used \in Used /\ used.writes \in 0 .. MaxWrites
         /\ used.writes \in Nat /\ MaxWrites \in Nat
         /\ \A s \in Shards, id \in Ids :
              /\ rec[s][id] \in Rec /\ rec[s][id].ver \in Nat /\ rec[s][id].val \in Nat
              /\ Has(s, id) \/ rec[s][id].ver = 0
         /\ \A i \in 1 .. Len(backlog) :
              backlog[i] \in Event /\ backlog[i].ver \in Nat /\ backlog[i].id \in Ids
  <1>1. /\ move \in Move /\ map \in Map /\ mover \in MoverState /\ admin \in Admin
        /\ used \in Used
    BY DEF MovementTypeOK, Move, Map, MoverState, Admin, Used
  <1>2. used.writes \in 0 .. MaxWrites /\ used.writes \in Nat /\ MaxWrites \in Nat
    BY <1>1, MovementAssumption DEF Used
  <1>3. ASSUME NEW s \in Shards, NEW id \in Ids
        PROVE  /\ rec[s][id] \in Rec /\ rec[s][id].ver \in Nat /\ rec[s][id].val \in Nat
               /\ Has(s, id) \/ rec[s][id].ver = 0
    <2>1. rec[s][id] \in Rec
      BY DEF MovementTypeOK
    <2>2. rec[s][id].ver \in Nat /\ rec[s][id].val \in Nat
      BY <2>1, MovementAssumption DEF Rec
    <2>. QED
      BY <2>1, <2>2 DEF Has
  <1>4. ASSUME NEW i \in 1 .. Len(backlog)
        PROVE  backlog[i] \in Event /\ backlog[i].ver \in Nat /\ backlog[i].id \in Ids
    <2>1. backlog[i] \in Event
      BY DEF MovementTypeOK
    <2>. QED
      BY <2>1, MovementAssumption DEF Event
  <1>. QED
    BY <1>1, <1>2, <1>3, <1>4

(* A record moves on by one version, or begins at one. *)
LEMMA PutTypes ==
  ASSUME Types, NEW s \in Shards, NEW id \in Ids, used.writes < MaxWrites
  PROVE  /\ Put(s, id) \in Rec
         /\ Put(s, id).ver = rec[s][id].ver + 1
         /\ Put(s, id).ver <= used.writes + 1 /\ Put(s, id).val = Write
         /\ Write \in 0 .. MaxWrites
         /\ Put(s, id) # NoRec
  <1>1. Write \in 0 .. MaxWrites
    BY TypesHere, MovementAssumption DEF Types, Write
  <1>2. rec[s][id].ver + 1 \in 0 .. MaxWrites /\ rec[s][id].ver + 1 <= used.writes + 1
    BY TypesHere, MovementAssumption DEF Types, VersionsOK
  <1>3. CASE Has(s, id)
    <2>. DEFINE ver == rec[s][id].ver + 1
    <2>1. Put(s, id) = [rec[s][id] EXCEPT !.ver = ver, !.val = Write]
      BY <1>3 DEF Put
    <2>2. rec[s][id] \in Rec /\ ver \in 0 .. MaxWrites /\ ver # 0
      BY <1>2, TypesHere DEF Types
    <2>. HIDE DEF ver
    <2>3. Put(s, id) \in Rec /\ Put(s, id).ver = ver /\ Put(s, id).val = Write
      BY <1>1, <2>1, <2>2 DEF Rec
    <2>4. Put(s, id) # NoRec
      BY <2>2, <2>3 DEF NoRec
    <2>. QED
      BY <1>1, <1>2, <2>3, <2>4 DEF ver
  <1>4. CASE ~Has(s, id)
    <2>1. Put(s, id) = [seq |-> Write, ver |-> 1, val |-> Write] /\ rec[s][id].ver = 0
      BY <1>4, TypesHere DEF Put, Types
    <2>2. Put(s, id) \in Rec /\ Put(s, id).ver = 1 /\ Put(s, id).val = Write
      BY <1>1, <2>1, Constants DEF Rec
    <2>. QED
      BY <1>1, <1>2, <2>1, <2>2 DEF NoRec
  <1>. QED
    BY <1>3, <1>4

(* What a commit replaces and what it logs. *)
Written(s, id, record) ==
  /\ Commit(s, id, record)
  /\ \/ record = Put(s, id)
     \/ record = NoRec /\ Has(s, id) /\ id # "c"
  /\ id = "c" => Has(s, "c")

After(event) == IF event.kind = "put" THEN event.ver ELSE 0

Logs(s, id, record, event) ==
  /\ event \in Event /\ event.id = id
  /\ event.ver = rec[s][id].ver + 1 /\ event.ver <= used.writes + 1
  /\ event.kind = "retract" => event.ver >= 2 /\ event.val = 0
  /\ After(event) = record.ver /\ event.val = record.val
  /\ Logged(s, event)

(* A commit logs one event, of the version that follows. *)
LEMMA CommitLogs ==
  ASSUME Types, NEW s \in Shards, NEW id \in Ids, NEW record, Written(s, id, record)
  PROVE  /\ record \in Rec /\ record.ver <= used.writes + 1 /\ record.val \in 0 .. MaxWrites
         /\ record.ver \in Nat
         /\ \E event \in Event : Logs(s, id, record, event)
  <1>. DEFINE old == rec[s][id]
              event == IF record = NoRec
                         THEN [kind |-> "retract", id |-> id, seq |-> old.seq,
                               ver |-> old.ver + 1, val |-> 0]
                         ELSE [kind |-> "put", id |-> id, seq |-> record.seq,
                               ver |-> record.ver, val |-> record.val]
  <1>0. /\ used.writes < MaxWrites /\ Logged(s, event)
        /\ used.writes \in Nat /\ MaxWrites \in Nat
        /\ old \in Rec /\ old.ver \in Nat /\ old.ver <= used.writes
    BY TypesHere DEF Written, Commit, Types, VersionsOK
  <1>1. CASE record = Put(s, id)
    <2>1. record \in Rec /\ record # NoRec /\ record.ver = old.ver + 1
          /\ record.ver <= used.writes + 1
      BY <1>0, <1>1, PutTypes
    <2>2. event = [kind |-> "put", id |-> id, seq |-> record.seq,
                   ver |-> record.ver, val |-> record.val]
      BY <2>1
    <2>3. record.seq \in 0 .. MaxWrites /\ record.val \in 0 .. MaxWrites
          /\ record.ver \in 0 .. MaxWrites + 1 /\ record.ver \in Nat
      BY <1>0, <2>1 DEF Rec
    <2>. HIDE DEF event
    <2>4. event \in Event
      BY <2>2, <2>3 DEF Event
    <2>5. Logs(s, id, record, event)
      BY <1>0, <2>1, <2>2, <2>4 DEF Logs, After
    <2>. QED
      BY <2>1, <2>3, <2>4, <2>5
  <1>2. CASE record = NoRec /\ Has(s, id)
    <2>1. event = [kind |-> "retract", id |-> id, seq |-> old.seq,
                   ver |-> old.ver + 1, val |-> 0]
      BY <1>2
    <2>2. old.seq \in 0 .. MaxWrites /\ old.ver + 1 \in 0 .. MaxWrites + 1
          /\ old.ver + 1 <= used.writes + 1 /\ old.ver + 1 >= 2
      BY <1>0, <1>2 DEF Rec, Has
    <2>. HIDE DEF event
    <2>3. event \in Event
      BY <2>1, <2>2, Constants DEF Event
    <2>4. Logs(s, id, record, event)
      BY <1>0, <1>2, <2>1, <2>2, <2>3, Constants DEF Logs, After
    <2>. QED
      BY <1>0, <1>2, <2>3, <2>4, Constants
  <1>. QED
    BY <1>1, <1>2 DEF Written

(* The writers and what they leave alone: a commit, or the look before it. *)
LEMMA Writers ==
  ASSUME Types,
         \/ \E s \in Shards : InsertDocument(s) \/ UpdateDocument(s) \/ DeleteDocument(s)
         \/ \E s \in Shards, op \in {"alter", "create"} : CheckSchemaChange(s, op)
         \/ CommitSchemaChange
  PROVE  /\ admin' \in Admin
         /\ UNCHANGED <<fence, move, map, mover, owners, opened, missed>>
         /\ \/ \E s \in Shards, id \in Ids, record \in Rec : Written(s, id, record)
            \/ UNCHANGED <<rec, backlog, used, acked, late, lost>>
  <1>0. "c" \in Ids /\ "d" \in Ids /\ "x" \in Ids /\ admin \in Admin
    BY TypesHere DEF Ids, Types
  <1>1. CASE \E s \in Shards : InsertDocument(s) \/ UpdateDocument(s) \/ DeleteDocument(s)
    <2>1. PICK s \in Shards : InsertDocument(s) \/ UpdateDocument(s) \/ DeleteDocument(s)
      BY <1>1
    <2>2. Written(s, "d", Put(s, "d")) \/ Written(s, "d", NoRec)
      BY <2>1 DEF InsertDocument, UpdateDocument, DeleteDocument, Written
    <2>3. admin' = admin
      BY <2>1 DEF InsertDocument, UpdateDocument, DeleteDocument
    <2>4. \E record \in Rec : Written(s, "d", record)
      BY <1>0, <2>2, CommitLogs
    <2>. QED
      BY <1>0, <2>2, <2>3, <2>4 DEF Written, Commit
  <1>2. ASSUME NEW s \in Shards, NEW op \in {"alter", "create"}, CheckSchemaChange(s, op)
        PROVE  admin' \in Admin /\ UNCHANGED <<fence, move, map, mover, owners, opened, missed,
                                               rec, backlog, used, acked, late, lost>>
    BY <1>2 DEF CheckSchemaChange, Admin, history
  <1>3. CASE CommitSchemaChange
    <2>1. admin' \in Admin
      BY <1>3, Constants DEF CommitSchemaChange
    <2>2. CASE admin.op = "alter" /\ ~Has(admin.shard, "c")
      BY <1>3, <2>1, <2>2 DEF CommitSchemaChange, history
    <2>3. CASE admin.op = "alter" /\ Has(admin.shard, "c")
      <3>1. Written(admin.shard, "c", Put(admin.shard, "c"))
        BY <1>3, <2>3 DEF CommitSchemaChange, Written
      <3>2. admin.shard \in Shards /\ Put(admin.shard, "c") \in Rec
        BY <1>0, <3>1, CommitLogs DEF Admin
      <3>. QED
        BY <1>0, <2>1, <3>1, <3>2 DEF Written, Commit
    <2>4. CASE admin.op # "alter"
      <3>1. Written(admin.shard, "x", Put(admin.shard, "x"))
        BY <1>3, <2>4 DEF CommitSchemaChange, Written
      <3>2. admin.shard \in Shards /\ Put(admin.shard, "x") \in Rec
        BY <1>0, <3>1, CommitLogs DEF Admin
      <3>. QED
        BY <1>0, <2>1, <3>1, <3>2 DEF Written, Commit
    <2>. QED
      BY <2>2, <2>3, <2>4
  <1>. QED
    BY <1>1, <1>2, <1>3

(* A commit keeps the types. *)
LEMMA CommitTypes ==
  ASSUME Types, NEW s \in Shards, NEW id \in Ids, NEW record, Written(s, id, record),
         admin' \in Admin
  PROVE  Types'
  <1>0. /\ used \in Used /\ used.writes < MaxWrites /\ used.writes \in Nat
        /\ MaxWrites \in Nat /\ used' = [used EXCEPT !.writes = @ + 1]
        /\ rec' = [rec EXCEPT ![s][id] = record]
    BY TypesHere DEF Types, Written, Commit
  <1>1. used' \in Used /\ used'.writes = used.writes + 1
    BY <1>0 DEF Used
  <1>2. /\ record \in Rec /\ record.ver <= used.writes + 1 /\ record.val \in 0 .. MaxWrites
        /\ record.ver \in Nat
    BY CommitLogs
  <1>3. PICK event \in Event : Logs(s, id, record, event)
    BY CommitLogs
  <1>4. backlog \in Seq(Event)
    BY DEF Types, MovementTypeOK
  <1>5. backlog' = backlog \/ backlog' = Append(backlog, event)
    BY <1>3 DEF Logs, Logged
  <1>6. backlog' \in Seq(Event)
    BY <1>4, <1>5
  <1>7. rec' \in [Shards -> [Ids -> Rec]]
    BY <1>0, <1>2 DEF Types, MovementTypeOK
  <1>8. ASSUME NEW t \in Shards, NEW j \in Ids PROVE rec'[t][j].ver <= used'.writes
    <2>1. rec[t][j].ver <= used.writes /\ rec[t][j].ver \in Nat
      BY TypesHere DEF Types, VersionsOK
    <2>2. rec'[t][j] = record \/ rec'[t][j] = rec[t][j]
      BY <1>0 DEF Types, MovementTypeOK
    <2>. QED
      BY <1>0, <1>1, <1>2, <2>1, <2>2
  <1>9. ASSUME NEW i \in 1 .. Len(backlog')
        PROVE  /\ backlog'[i].ver <= used'.writes
               /\ backlog'[i].kind = "retract" => backlog'[i].ver >= 2 /\ backlog'[i].val = 0
    <2>1. CASE i \in 1 .. Len(backlog)
      <3>1. backlog'[i] = backlog[i]
        BY <1>4, <1>5, <2>1
      <3>2. backlog[i].ver <= used.writes /\ backlog[i].ver \in Nat
            /\ (backlog[i].kind = "retract" => backlog[i].ver >= 2 /\ backlog[i].val = 0)
        BY <2>1, TypesHere DEF Types, VersionsOK
      <3>. QED
        BY <1>0, <1>1, <3>1, <3>2
    <2>2. CASE i \notin 1 .. Len(backlog)
      <3>1. backlog'[i] = event
        BY <1>4, <1>5, <2>2
      <3>. QED
        BY <1>1, <1>3, <3>1 DEF Logs
    <2>. QED
      BY <2>1, <2>2
  <1>10. /\ UNCHANGED <<fence, move, map, mover, owners, opened, missed>>
         /\ acked' = [acked EXCEPT ![id] = record.val]
         /\ late' \subseteq late \cup {id} /\ lost' \subseteq lost \cup {id}
    BY DEF Written, Commit
  <1>11. MovementTypeOK'
    BY <1>1, <1>2, <1>6, <1>7, <1>10 DEF Types, MovementTypeOK, Used, Admin
  <1>. QED
    BY <1>8, <1>9, <1>11 DEF Types, VersionsOK

(* The log is left, dropped, or consumed from its head. *)
LogShrinks == \/ backlog' = backlog \/ backlog' = <<>>
              \/ backlog # <<>> /\ backlog' = Tail(backlog)

(* A shorter log, and records of known versions, keep the bounds. *)
LEMMA VersionsKept ==
  ASSUME Types, used'.writes = used.writes, LogShrinks,
         \A s \in Shards, id \in Ids : rec'[s][id].ver <= used.writes
  PROVE  VersionsOK' /\ backlog' \in Seq(Event)
  <1>1. backlog \in Seq(Event)
    BY DEF Types, MovementTypeOK
  <1>2. backlog' \in Seq(Event)
    <2>1. CASE backlog # <<>> /\ backlog' = Tail(backlog)
      BY <1>1, <2>1
    <2>2. CASE backlog' = <<>>
      BY <2>2
    <2>. QED
      BY <1>1, <2>1, <2>2 DEF LogShrinks
  <1>3. ASSUME NEW i \in 1 .. Len(backlog')
        PROVE  \E j \in 1 .. Len(backlog) : backlog'[i] = backlog[j]
    <2>1. CASE backlog' = backlog
      BY <1>3, <2>1
    <2>2. CASE backlog' = <<>>
      BY <1>3, <2>2
    <2>3. CASE backlog # <<>> /\ backlog' = Tail(backlog)
      <3>1. i + 1 \in 1 .. Len(backlog) /\ backlog'[i] = backlog[i + 1]
        BY <1>1, <1>3, <2>3
      <3>. QED
        BY <3>1
    <2>. QED
      BY <2>1, <2>2, <2>3 DEF LogShrinks
  <1>. QED
    BY <1>2, <1>3 DEF Types, VersionsOK

(* Setting the place of the mover. *)
LEMMA GoTypes ==
  ASSUME Types, NEW pc \in Pcs, Go(pc)
  PROVE  /\ mover' \in MoverState /\ mover'.pc = pc /\ mover'.resumed = mover.resumed
         /\ mover'.pass = mover.pass
  BY TypesHere DEF Types, Go, MoverState

(* The steps that touch neither the records nor the counter of writes. *)
LEMMA StillTypes ==
  ASSUME Types, rec' = rec, used'.writes = used.writes, LogShrinks,
         fence' \subseteq Shards, move' \in Move, map' \in Map, mover' \in MoverState,
         owners' \subseteq 0 .. MaxWrites, opened' \subseteq Shards, admin' \in Admin,
         used' \in Used, acked' = acked,
         missed' \subseteq Ids, late' \subseteq Ids, lost' \subseteq Ids
  PROVE  Types'
  <1>1. VersionsOK' /\ backlog' \in Seq(Event)
    <2>1. \A s \in Shards, id \in Ids : rec'[s][id].ver <= used.writes
      BY DEF Types, VersionsOK
    <2>. QED
      BY <2>1, VersionsKept
  <1>. QED
    BY <1>1 DEF Types, MovementTypeOK, Move, Map, MoverState, Admin, Used

(* What the event at the head of the log does to the target. *)
LEMMA AppliedTypes ==
  ASSUME Types, backlog # <<>>, Newer(Head(backlog))
  PROVE  /\ Head(backlog) \in Event
         /\ Applied(Head(backlog)) \in Rec
         /\ Applied(Head(backlog)).ver = After(Head(backlog))
         /\ Applied(Head(backlog)).ver <= used.writes
         /\ Head(backlog).kind = "put" => Applied(Head(backlog)).val = Head(backlog).val
         /\ Head(backlog).kind = "retract" => Applied(Head(backlog)).val = 0
  <1>. DEFINE event == Head(backlog)
  <1>0. event \in Event /\ event = backlog[1] /\ 1 \in 1 .. Len(backlog)
    BY DEF Types, MovementTypeOK
  <1>1. /\ event.ver <= used.writes /\ event.ver \in Nat
        /\ used.writes \in 0 .. MaxWrites /\ MaxWrites \in Nat
    BY <1>0, TypesHere DEF Types, VersionsOK
  <1>2. event.seq \in 0 .. MaxWrites /\ event.val \in 0 .. MaxWrites /\ event.id \in Ids
        /\ event.ver \in 0 .. MaxWrites /\ event.kind \in {"put", "retract"}
    BY <1>0, <1>1 DEF Event
  <1>. HIDE DEF event
  <1>3. rec[move.to][event.id].seq \in 0 .. MaxWrites
    BY <1>2, TypesHere DEF Types, Move, Rec
  <1>4. CASE event.kind = "retract"
    <2>1. Applied(event) = NoRec /\ After(event) = 0
      BY <1>4 DEF Applied, After
    <2>. QED
      BY <1>0, <1>1, <1>4, <2>1, Constants DEF event
  <1>5. CASE event.kind = "put"
    <2>1. PICK seq \in 0 .. MaxWrites :
            Applied(event) = [seq |-> seq, ver |-> event.ver, val |-> event.val]
      BY <1>2, <1>3, <1>5 DEF Applied
    <2>2. After(event) = event.ver
      BY <1>5 DEF After
    <2>3. Applied(event) \in Rec
      BY <1>2, <2>1 DEF Rec
    <2>. QED
      BY <1>0, <1>1, <1>5, <2>1, <2>2, <2>3 DEF event
  <1>. QED
    BY <1>2, <1>4, <1>5

(* The steps of the mover that touch no records. *)
LEMMA MoverStillTypes ==
  ASSUME Types,
         \/ FenceForResume \/ TakeCursor \/ ReadOwners \/ EndRound \/ FenceForSettling
         \/ EndSettlingRound \/ CompareAfterSettling \/ AssertSameSize \/ RecordCopied
         \/ ApplyRoute \/ RecordRouted \/ LiftFence \/ DropMove
  PROVE  Types'
  <1>0. /\ move \in Move /\ move.from \in Shards /\ move.to \in Shards /\ map \in Map
        /\ mover \in MoverState /\ admin \in Admin /\ used \in Used
        /\ owners \subseteq 0 .. MaxWrites /\ opened \subseteq Shards /\ fence \subseteq Shards
        /\ missed \subseteq Ids /\ late \subseteq Ids /\ lost \subseteq Ids
    BY TypesHere DEF Types, MovementTypeOK, Move
  <1>1. \A pc \in Pcs : Go(pc) => mover' \in MoverState
    BY GoTypes
  <1>2. Stop => mover' \in MoverState
    BY Constants DEF Stop
  <1>3. CASE FenceForResume \/ FenceForSettling \/ TakeCursor \/ LiftFence
    BY <1>0, <1>1, <1>3, StillTypes
    DEF FenceForResume, FenceForSettling, Fence, TakeCursor, LiftFence, Pcs, LogShrinks, history
  <1>4. CASE ReadOwners
    <2>1. owners' \subseteq 0 .. MaxWrites
      <3>1. \A id \in Ids : rec[move.from][id].seq \in 0 .. MaxWrites
        BY <1>0 DEF Types, MovementTypeOK, Rec
      <3>. QED
        BY <1>4, <3>1 DEF ReadOwners
    <2>. QED
      BY <1>0, <1>1, <1>4, <2>1, StillTypes DEF ReadOwners, Pcs, LogShrinks, history
  <1>5. CASE EndRound
    <2>1. mover' \in MoverState
      <3>1. CASE mover.applied /\ mover.round + 1 < CatchUpRounds
        <4>. DEFINE round == mover.round + 1
        <4>1. round \in 0 .. CatchUpRounds - 1
          BY <1>0, <3>1, MovementAssumption DEF MoverState
        <4>2. mover' = [mover EXCEPT !.applied = FALSE, !.round = round]
          BY <1>5, <3>1 DEF EndRound
        <4>. HIDE DEF round
        <4>. QED
          BY <1>0, <4>1, <4>2 DEF MoverState
      <3>2. CASE ~(mover.applied /\ mover.round + 1 < CatchUpRounds)
        <4>1. mover' = [mover EXCEPT !.applied = FALSE, !.pc = "fence"]
          BY <1>5, <3>2 DEF EndRound
        <4>. QED
          BY <1>0, <4>1 DEF MoverState, Pcs
      <3>. QED
        BY <3>1, <3>2
    <2>. QED
      BY <1>0, <1>5, <2>1, StillTypes DEF EndRound, LogShrinks, history
  <1>6. CASE EndSettlingRound
    <2>1. PICK pc \in Pcs : mover' = [mover EXCEPT !.applied = FALSE, !.pc = pc]
      BY <1>6 DEF EndSettlingRound, Pcs
    <2>2. mover' \in MoverState
      BY <1>0, <2>1 DEF MoverState
    <2>. QED
      BY <1>0, <1>6, <2>2, StillTypes DEF EndSettlingRound, LogShrinks, history
  <1>7. CASE Abandon /\ used' = used
    BY <1>0, <1>2, <1>7, StillTypes DEF Abandon, LogShrinks, history
  <1>8. CASE CompareAfterSettling /\ ~Abandon
    <2>1. mover' \in MoverState
      <3>1. CASE Agree
        <4>1. mover' = [mover EXCEPT !.pc = "compare"]
          BY <1>8, <3>1 DEF CompareAfterSettling
        <4>. QED
          BY <1>0, <4>1 DEF MoverState, Pcs
      <3>2. CASE ~Agree
        <4>. DEFINE pass == mover.pass + 1
        <4>1. pass < SettlePasses /\ mover' = [mover EXCEPT !.pc = "settle", !.pass = pass]
          BY <1>8, <3>2 DEF CompareAfterSettling
        <4>2. pass \in 0 .. SettlePasses - 1
          BY <1>0, <4>1, MovementAssumption DEF MoverState
        <4>. HIDE DEF pass
        <4>. QED
          BY <1>0, <4>1, <4>2 DEF MoverState, Pcs
      <3>. QED
        BY <3>1, <3>2
    <2>. QED
      BY <1>0, <1>8, <2>1, StillTypes DEF CompareAfterSettling, LogShrinks, history
  <1>9. CASE AssertSameSize /\ ~Abandon
    <2>1. Go("compare") \/ Go("copied")
      BY <1>9 DEF AssertSameSize
    <2>. QED
      BY <1>0, <1>1, <1>9, <2>1, StillTypes DEF AssertSameSize, LogShrinks, history, Pcs
  <1>10. CASE RecordCopied \/ RecordRouted
    <2>1. move' \in Move
      BY <1>0, <1>10 DEF RecordCopied, RecordRouted, RecordPhase, Move
    <2>. QED
      BY <1>0, <1>1, <1>10, <2>1, StillTypes
      DEF RecordCopied, RecordRouted, RecordPhase, Pcs, LogShrinks, history
  <1>11. CASE ApplyRoute /\ ~Abandon
    <2>1. map' \in Map /\ opened' \subseteq Shards /\ lost' \subseteq Ids
      BY <1>0, <1>11 DEF ApplyRoute, Map, Move, history
    <2>. QED
      BY <1>0, <1>1, <1>11, <2>1, StillTypes DEF ApplyRoute, Pcs, LogShrinks, history
  <1>12. CASE DropMove
    BY <1>0, <1>2, <1>12, StillTypes, Constants DEF DropMove, LogShrinks, history
  <1>. QED
    BY <1>3, <1>4, <1>5, <1>6, <1>7, <1>8, <1>9, <1>10, <1>11, <1>12
    DEF CompareAfterSettling, AssertSameSize, ApplyRoute

(* The steps of the mover that rewrite records. *)
LEMMA MoverWriteTypes ==
  ASSUME Types, Export \/ CatchUpEvent \/ ClearSource
  PROVE  Types'
  <1>0. /\ move \in Move /\ move.from \in Shards /\ move.to \in Shards
        /\ mover \in MoverState
        /\ owners \subseteq 0 .. MaxWrites /\ used.writes \in Nat
        /\ missed \subseteq Ids /\ late \subseteq Ids /\ lost \subseteq Ids
    BY TypesHere DEF Types, MovementTypeOK, Move
  <1>1. SUFFICES /\ rec' \in [Shards -> [Ids -> Rec]]
                 /\ \A s \in Shards, id \in Ids : rec'[s][id].ver <= used.writes
                 /\ mover' \in MoverState /\ owners' \subseteq 0 .. MaxWrites
                 /\ fence' \subseteq fence /\ missed' \subseteq Ids /\ late' \subseteq Ids
                 /\ LogShrinks
                 /\ UNCHANGED <<move, map, opened, admin, used, acked, lost>>
    <2>1. VersionsOK' /\ backlog' \in Seq(Event)
      BY <1>1, VersionsKept
    <2>. QED
      BY <1>0, <1>1, <2>1 DEF Types, MovementTypeOK, MoverState
  <1>2. \A pc \in Pcs : Go(pc) => mover' \in MoverState
    BY GoTypes
  <1>3. CASE Export
    <2>1. rec' = [rec EXCEPT ![move.to] = rec[move.from]]
      BY <1>3 DEF Export
    <2>2. mover' \in MoverState
      <3>1. Go("verify") \/ Go("owners")
        BY <1>3 DEF Export
      <3>. QED
        BY <1>2, <3>1 DEF Pcs
    <2>. QED
      BY <1>0, <1>3, <2>1, <2>2 DEF Export, LogShrinks, Types, MovementTypeOK, VersionsOK
  <1>4. CASE ClearSource
    <2>1. rec' = [rec EXCEPT ![move.from] = [id \in Ids |-> NoRec]]
      BY <1>4 DEF ClearSource
    <2>2. mover' \in MoverState
      BY <1>2, <1>4 DEF ClearSource, Pcs
    <2>3. rec' \in [Shards -> [Ids -> Rec]]
      BY <1>0, <2>1, Constants DEF Types, MovementTypeOK
    <2>4. \A s \in Shards, id \in Ids : rec'[s][id] = rec[s][id] \/ rec'[s][id] = NoRec
      BY <1>0, <2>1 DEF Types, MovementTypeOK
    <2>5. \A s \in Shards, id \in Ids : rec'[s][id].ver <= used.writes
      BY <1>0, <2>4, Constants DEF Types, VersionsOK
    <2>. QED
      BY <1>0, <1>4, <2>2, <2>3, <2>5 DEF ClearSource, LogShrinks, history
  <1>5. CASE CatchUpEvent
    <2>. DEFINE event == Head(backlog)
                lands == Counted(event) /\ Newer(event)
    <2>1. event \in Event /\ event.id \in Ids /\ event.seq \in 0 .. MaxWrites
      <3>1. event \in Event
        BY <1>5 DEF CatchUpEvent, Types, MovementTypeOK
      <3>. QED
        BY <3>1 DEF Event
    <2>2. mover' \in MoverState
      <3>1. mover' = [mover EXCEPT !.applied = @ \/ Counted(event)]
        BY <1>5 DEF CatchUpEvent
      <3>2. (mover.applied \/ Counted(event)) \in BOOLEAN
        BY DEF Counted
      <3>. QED
        BY <1>0, <3>1, <3>2 DEF MoverState
    <2>3. /\ owners' \subseteq 0 .. MaxWrites /\ missed' \subseteq Ids /\ late' \subseteq Ids
          /\ LogShrinks /\ fence' \subseteq fence
          /\ UNCHANGED <<move, map, opened, admin, used, acked, lost>>
      BY <1>0, <1>5, <2>1 DEF CatchUpEvent, LogShrinks
    <2>4. /\ rec' \in [Shards -> [Ids -> Rec]]
          /\ \A s \in Shards, id \in Ids : rec'[s][id].ver <= used.writes
      <3>1. CASE lands
        <4>1. rec' = [rec EXCEPT ![move.to][event.id] = Applied(event)]
          BY <1>5, <3>1 DEF CatchUpEvent
        <4>2. Applied(event) \in Rec /\ Applied(event).ver <= used.writes
          BY <1>5, <3>1, AppliedTypes DEF CatchUpEvent
        <4>. HIDE DEF event, lands
        <4>3. rec' \in [Shards -> [Ids -> Rec]]
          BY <4>1, <4>2 DEF Types, MovementTypeOK
        <4>4. \A s \in Shards, id \in Ids :
                rec'[s][id] = rec[s][id] \/ rec'[s][id] = Applied(event)
          BY <1>0, <2>1, <4>1 DEF Types, MovementTypeOK
        <4>. QED
          BY <4>2, <4>3, <4>4 DEF Types, VersionsOK
      <3>2. CASE ~lands
        BY <1>5, <3>2 DEF CatchUpEvent, Types, MovementTypeOK, VersionsOK
      <3>. QED
        BY <3>1, <3>2
    <2>. QED
      BY <2>2, <2>3, <2>4
  <1>. QED
    BY <1>3, <1>4, <1>5

(* The beginning and the resumption of a move, faults, and other map changes.*)
LEMMA ControlTypes ==
  ASSUME Types,
         \/ \E s \in Shards : Begin(s)
         \/ Resume \/ FailStep \/ Crash \/ UpdateOtherRanges
  PROVE  Types'
  <1>0. /\ move \in Move /\ move.from \in Shards /\ move.to \in Shards /\ map \in Map
        /\ map.home \in Shards /\ map.version \in Nat
        /\ mover \in MoverState /\ admin \in Admin /\ used \in Used
        /\ owners \subseteq 0 .. MaxWrites /\ opened \subseteq Shards /\ fence \subseteq Shards
        /\ missed \subseteq Ids /\ late \subseteq Ids /\ lost \subseteq Ids
        /\ MaxMoves \in Nat /\ MaxMapUpdates \in Nat /\ MaxFaults \in Nat
    BY TypesHere, MovementAssumption DEF Types, MovementTypeOK, Move, Map
  <1>1. ASSUME NEW s \in Shards, Begin(s) PROVE Types'
    <2>1. used' \in Used /\ used'.writes = used.writes
      BY <1>0, <1>1 DEF Begin, Used
    <2>2. move' \in Move
      BY <1>0, <1>1 DEF Begin, Move
    <2>3. mover' \in MoverState
      BY <1>1, GoTypes DEF Begin, Pcs
    <2>. QED
      BY <1>0, <1>1, <2>1, <2>2, <2>3, StillTypes DEF Begin, LogShrinks, history
  <1>2. CASE Resume
    <2>1. PICK pc \in Pcs : mover' = [AtRest EXCEPT !.resumed = TRUE, !.pc = pc]
      BY <1>2 DEF Resume, Pcs
    <2>2. mover' \in MoverState
      BY <2>1, Constants DEF MoverState
    <2>. QED
      BY <1>0, <1>2, <2>2, StillTypes DEF Resume, LogShrinks, history
  <1>3. CASE FailStep
    <2>1. used' \in Used /\ used'.writes = used.writes
      BY <1>0, <1>3 DEF FailStep, Used
    <2>. QED
      BY <1>0, <1>3, <2>1, StillTypes, Constants DEF FailStep, Abandon, Stop, LogShrinks, history
  <1>4. CASE Crash
    <2>1. used' \in Used /\ used'.writes = used.writes
      BY <1>0, <1>4 DEF Crash, Used
    <2>. QED
      BY <1>0, <1>4, <2>1, StillTypes, Constants DEF Crash, Stop, LogShrinks, history
  <1>5. CASE UpdateOtherRanges
    <2>1. used' \in Used /\ used'.writes = used.writes
      BY <1>0, <1>5 DEF UpdateOtherRanges, Used
    <2>2. map' \in Map
      BY <1>0, <1>5 DEF UpdateOtherRanges, Map
    <2>. QED
      BY <1>0, <1>5, <2>1, <2>2, StillTypes DEF UpdateOtherRanges, LogShrinks, history
  <1>. QED
    BY <1>1, <1>2, <1>3, <1>4, <1>5

(* Type correctness is inductive, with the bounds on versions. *)
LEMMA TypesKept ==
  ASSUME Types, [MovementNext]_movementVars
  PROVE  Types'
  <1>1. CASE \/ \E s \in Shards : InsertDocument(s) \/ UpdateDocument(s) \/ DeleteDocument(s)
             \/ \E s \in Shards, op \in {"alter", "create"} : CheckSchemaChange(s, op)
             \/ CommitSchemaChange
    <2>1. CASE \E s \in Shards, id \in Ids, record \in Rec : Written(s, id, record)
      BY <1>1, <2>1, Writers, CommitTypes
    <2>2. CASE UNCHANGED <<rec, backlog, used, acked, late, lost>>
      <3>1. admin' \in Admin /\ UNCHANGED <<fence, move, map, mover, owners, opened, missed>>
        BY <1>1, Writers
      <3>. QED
        BY <2>2, <3>1, TypesHere, StillTypes DEF Types, MovementTypeOK, LogShrinks
    <2>. QED
      BY <1>1, <2>1, <2>2, Writers
  <1>2. CASE Mover
    BY <1>2, MoverStillTypes, MoverWriteTypes DEF Mover
  <1>3. CASE \/ \E s \in Shards : Begin(s)
             \/ Resume \/ FailStep \/ Crash \/ UpdateOtherRanges
    BY <1>3, ControlTypes
  <1>4. CASE UNCHANGED movementVars
    BY <1>4 DEF movementVars, Types, MovementTypeOK, VersionsOK
  <1>. QED
    BY <1>1, <1>2, <1>3, <1>4 DEF MovementNext

(* The initial state is well typed. *)
LEMMA InitTypes == MovementInit => Types
  <1>. SUFFICES ASSUME MovementInit PROVE Types
    OBVIOUS
  <1>1. InitialRec \in [Ids -> Rec] /\ \A id \in Ids : InitialRec[id].ver <= 1
    <2>1. ASSUME NEW id \in Ids PROVE InitialRec[id] \in Rec /\ InitialRec[id].ver <= 1
      BY Constants DEF InitialRec, Rec, NoRec, Ids
    <2>. QED
      BY <2>1 DEF InitialRec
  <1>2. [id \in Ids |-> NoRec] \in [Ids -> Rec]
    BY Constants
  <1>3. rec \in [Shards -> [Ids -> Rec]]
    BY <1>1, <1>2 DEF MovementInit
  <1>4. used \in Used /\ used.writes = 2
    BY MovementAssumption DEF MovementInit, Used
  <1>5. VersionsOK
    <2>1. ASSUME NEW s \in Shards, NEW id \in Ids PROVE rec[s][id].ver <= used.writes
      <3>1. rec[s][id] = InitialRec[id] \/ rec[s][id] = NoRec
        BY DEF MovementInit
      <3>2. InitialRec[id].ver \in Nat /\ InitialRec[id].ver <= 1
        BY <1>1, MovementAssumption DEF Rec
      <3>. QED
        BY <1>4, <3>1, <3>2, Constants
    <2>. QED
      BY <2>1 DEF VersionsOK, MovementInit
  <1>6. acked \in [Ids -> 0 .. MaxWrites]
    <2>1. \A id \in Ids : InitialRec[id].val \in 0 .. MaxWrites
      BY <1>1 DEF Rec
    <2>. QED
      BY <2>1 DEF MovementInit
  <1>7. /\ move \in Move /\ mover \in MoverState /\ admin \in Admin /\ map \in Map
    BY Constants, MovementAssumption DEF MovementInit, Map
  <1>8. backlog \in Seq(Event) /\ fence = {} /\ owners = {} /\ opened = {First}
        /\ missed = {} /\ late = {} /\ lost = {}
    BY DEF MovementInit
  <1>. QED
    BY <1>3, <1>4, <1>5, <1>6, <1>7, <1>8, MovementAssumption
    DEF Types, MovementTypeOK, Move, Map, MoverState, Admin, Used

-----------------------------------------------------------------------------
(* Where the mover is, what is recorded and what is fenced.                 *)

CopySteps == {"refence", "cursor", "export", "verify", "owners", "chase", "fence",
              "settle", "agree", "compare", "copied"}
FencedSteps == {"verify", "settle", "agree", "compare", "copied"}

ModeOK ==
  /\ mover.pc # "idle" => Pending
  /\ mover.pc = "idle" => backlog = <<>> /\ ~mover.resumed
  /\ Pending => move.from # move.to
  /\ ~Pending => fence = {}
  /\ fence \subseteq {move.from}
  /\ move.phase = "copying" => map.home = move.from
  /\ move.phase = "copied" => map.home \in {move.from, move.to} /\ move.from \in fence
  /\ move.phase = "routed" => map.home = move.to
  /\ mover.pc \in CopySteps => move.phase = "copying"
  /\ mover.pc \in {"route", "routed"} => move.phase = "copied"
  /\ mover.pc = "routed" => map.home = move.to
  /\ mover.pc \in {"clear", "lift", "finish"} => move.phase = "routed"
  /\ mover.pc \in FencedSteps => move.from \in fence
  /\ mover.resumed /\ mover.pc \in {"cursor", "export"} => move.from \in fence
  /\ mover.pc = "finish" => fence = {}

(* A shard without the home keeps the collection behind the fence, or as    *)
(* the target of the copy; a cleared source has none.                       *)
HomeOK ==
  /\ LeftShardRefuses
  /\ mover.pc \in {"lift", "finish"} => ~Has(move.from, "c")

Placed == Types /\ ModeOK /\ HomeOK

(* The mover stops, wherever it was. *)
LEMMA StopKeepsMode ==
  ASSUME Types, ModeOK, HomeOK, Stop, backlog' = <<>>,
         UNCHANGED <<rec, fence, move, map>>
  PROVE  ModeOK' /\ HomeOK'
  <1>1. mover'.pc = "idle" /\ mover'.resumed = FALSE
    BY Constants DEF Stop
  <1>2. HomeOK'
    BY <1>1 DEF HomeOK, LeftShardRefuses, Has, Pending
  <1>3. ModeOK'
    BY <1>1 DEF ModeOK, Pending, CopySteps, FencedSteps
  <1>. QED
    BY <1>2, <1>3

(* Writers touch neither; whether a shard has the collection stays. *)
LEMMA WritersKeepMode ==
  ASSUME Types, ModeOK, HomeOK,
         UNCHANGED <<fence, move, map, mover>>,
         \/ \E s \in Shards, id \in Ids, record \in Rec : Written(s, id, record)
         \/ UNCHANGED <<rec, backlog>>
  PROVE  ModeOK' /\ HomeOK'
  <1>1. CASE UNCHANGED <<rec, backlog>>
    BY <1>1 DEF ModeOK, HomeOK, LeftShardRefuses, Has, Pending
  <1>2. ASSUME NEW s \in Shards, NEW id \in Ids, NEW record, Written(s, id, record)
        PROVE  ModeOK' /\ HomeOK'
    <2>1. mover.pc = "idle" => backlog' = backlog
      BY <1>2 DEF Written, Commit, Logged
    <2>2. ModeOK'
      BY <2>1 DEF ModeOK, Pending
    <2>3. ASSUME NEW t \in Shards PROVE Has(t, "c") <=> Has(t, "c")'
      <3>1. rec' = [rec EXCEPT ![s][id] = record] /\ "c" \in Ids
            /\ used.writes < MaxWrites
        BY <1>2 DEF Written, Commit, Ids
      <3>2. CASE t = s /\ id = "c"
        <4>1. Has(s, "c") /\ record = Put(s, "c")
          BY <1>2, <3>2 DEF Written
        <4>2. record.ver = rec[s]["c"].ver + 1 /\ rec[s]["c"].ver \in Nat
          BY <3>1, <4>1, PutTypes, TypesHere DEF Types
        <4>3. rec'[t]["c"] = record
          BY <3>1, <3>2 DEF Types, MovementTypeOK
        <4>. QED
          BY <3>2, <4>1, <4>2, <4>3 DEF Has
      <3>3. CASE ~(t = s /\ id = "c")
        <4>1. rec'[t]["c"] = rec[t]["c"]
          BY <3>1, <3>3 DEF Types, MovementTypeOK
        <4>. QED
          BY <4>1 DEF Has
      <3>. QED
        BY <3>2, <3>3
    <2>4. move.from \in Shards
      BY TypesHere DEF Types, Move
    <2>. HIDE DEF Has
    <2>5. HomeOK'
      BY <2>3, <2>4 DEF HomeOK, LeftShardRefuses, Pending
    <2>. QED
      BY <2>2, <2>5
  <1>. QED
    BY <1>1, <1>2

(* The mover keeps them. *)
LEMMA MoverKeepsMode ==
  ASSUME Types, ModeOK, HomeOK, Mover
  PROVE  ModeOK' /\ HomeOK'
  <1>0. /\ move \in Move /\ move.from \in Shards /\ move.to \in Shards
        /\ fence \subseteq Shards /\ mover \in MoverState /\ "c" \in Ids
        /\ map \in Map /\ map.home \in Shards
    BY TypesHere DEF Types, MovementTypeOK, Move, Map, Ids
  <1>1. ASSUME NEW pc \in Pcs, Go(pc) PROVE mover'.pc = pc /\ mover'.resumed = mover.resumed
    BY <1>1, GoTypes
  <1>2. CASE FenceForResume \/ FenceForSettling
    <2>1. /\ fence' = fence \cup {move.from} /\ mover'.resumed = mover.resumed
          /\ \/ mover.pc = "refence" /\ mover'.pc = "cursor"
             \/ mover.pc = "fence" /\ mover'.pc = "settle"
          /\ UNCHANGED <<rec, move, map, backlog>>
      BY <1>1, <1>2 DEF FenceForResume, FenceForSettling, Fence, Pcs
    <2>2. ModeOK'
      BY <1>0, <2>1 DEF ModeOK, Pending, CopySteps, FencedSteps
    <2>3. HomeOK'
      BY <2>1 DEF HomeOK, LeftShardRefuses, Has, Pending
    <2>. QED
      BY <2>2, <2>3
  <1>3. CASE TakeCursor \/ ReadOwners
    <2>1. /\ mover'.resumed = mover.resumed
          /\ \/ mover.pc = "cursor" /\ mover'.pc = "export"
             \/ mover.pc = "owners" /\ mover'.pc = "chase"
          /\ UNCHANGED <<rec, move, map, fence>>
      BY <1>1, <1>3 DEF TakeCursor, ReadOwners, Pcs
    <2>2. ModeOK'
      BY <1>0, <2>1 DEF ModeOK, Pending, CopySteps, FencedSteps
    <2>3. HomeOK'
      BY <2>1 DEF HomeOK, LeftShardRefuses, Has, Pending
    <2>. QED
      BY <2>2, <2>3
  <1>4. CASE Export
    <2>1. /\ rec' = [rec EXCEPT ![move.to] = rec[move.from]] /\ fence' = fence \ {move.to}
          /\ mover.pc = "export" /\ mover'.resumed = mover.resumed
          /\ mover'.pc = IF mover.resumed THEN "verify" ELSE "owners"
          /\ UNCHANGED <<move, map, backlog>>
      BY <1>1, <1>4 DEF Export, Pcs
    <2>2. move.from # move.to /\ Pending /\ map.home = move.from
      BY <2>1 DEF ModeOK, CopySteps
    <2>3. ModeOK'
      BY <1>0, <2>1, <2>2 DEF ModeOK, Pending, CopySteps, FencedSteps
    <2>4. ASSUME NEW t \in Shards \ {map.home}, t # move.to
          PROVE  Has(t, "c")' => t \in fence'
      <3>1. rec'[t] = rec[t]
        BY <1>0, <2>1, <2>4 DEF Types, MovementTypeOK
      <3>. QED
        BY <2>1, <2>4, <3>1 DEF HomeOK, LeftShardRefuses, Has
    <2>5. HomeOK'
      BY <2>1, <2>2, <2>4 DEF HomeOK, LeftShardRefuses, Pending
    <2>. QED
      BY <2>3, <2>5
  <1>5. CASE CatchUpEvent
    <2>1. /\ mover.pc \in {"chase", "settle"}
          /\ mover' = [mover EXCEPT !.applied = @ \/ Counted(Head(backlog))]
          /\ UNCHANGED <<move, map, fence>>
      BY <1>5 DEF CatchUpEvent
    <2>2. mover'.pc = mover.pc /\ mover'.resumed = mover.resumed
      BY <1>0, <2>1 DEF MoverState
    <2>3. Pending /\ map.home = move.from
      BY <2>1 DEF ModeOK, CopySteps
    <2>4. ModeOK'
      BY <2>1, <2>2 DEF ModeOK, Pending, CopySteps, FencedSteps
    <2>5. ASSUME NEW t \in Shards \ {map.home}, t # move.to
          PROVE  Has(t, "c")' => t \in fence'
      <3>1. rec'[t] = rec[t]
        <4>. DEFINE e == Head(backlog)
        <4>1. rec' = rec \/ rec' = [rec EXCEPT ![move.to][e.id] = Applied(e)]
          BY <1>5 DEF CatchUpEvent
        <4>. HIDE DEF e
        <4>. QED
          BY <2>5, <4>1 DEF Types, MovementTypeOK
      <3>. QED
        BY <2>1, <2>5, <3>1 DEF HomeOK, LeftShardRefuses, Has
    <2>6. HomeOK'
      BY <2>1, <2>2, <2>3, <2>5 DEF HomeOK, LeftShardRefuses, Pending
    <2>. QED
      BY <2>4, <2>6
  <1>6. CASE EndRound \/ EndSettlingRound
    <2>1. /\ \/ mover.pc = "chase" /\ mover'.pc \in {"chase", "fence"}
             \/ mover.pc = "settle" /\ mover'.pc \in {"settle", "agree"}
          /\ mover'.resumed = mover.resumed
          /\ UNCHANGED <<rec, move, map, fence, backlog>>
      BY <1>0, <1>6 DEF EndRound, EndSettlingRound, MoverState
    <2>2. ModeOK'
      BY <2>1 DEF ModeOK, Pending, CopySteps, FencedSteps
    <2>3. HomeOK'
      BY <2>1 DEF HomeOK, LeftShardRefuses, Has, Pending
    <2>. QED
      BY <2>2, <2>3
  <1>7. CASE Abandon
    BY <1>7, StopKeepsMode DEF Abandon
  <1>8. CASE (CompareAfterSettling \/ AssertSameSize) /\ ~Abandon
    <2>1. /\ \/ mover.pc = "agree" /\ mover'.pc \in {"settle", "compare"}
             \/ mover.pc = "verify" /\ mover'.pc = "compare"
             \/ mover.pc = "compare" /\ mover'.pc = "copied"
          /\ mover'.resumed = mover.resumed
          /\ UNCHANGED <<rec, move, map, fence, backlog>>
      BY <1>0, <1>1, <1>8 DEF CompareAfterSettling, AssertSameSize, MoverState, Pcs
    <2>2. ModeOK'
      BY <2>1 DEF ModeOK, Pending, CopySteps, FencedSteps
    <2>3. HomeOK'
      BY <2>1 DEF HomeOK, LeftShardRefuses, Has, Pending
    <2>. QED
      BY <2>2, <2>3
  <1>9. CASE RecordCopied \/ RecordRouted
    <2>1. /\ \/ mover.pc = "copied" /\ mover'.pc = "route" /\ move'.phase = "copied"
             \/ mover.pc = "routed" /\ mover'.pc = "clear" /\ move'.phase = "routed"
          /\ move'.from = move.from /\ move'.to = move.to
          /\ mover'.resumed = mover.resumed
          /\ UNCHANGED <<rec, map, fence, backlog>>
      BY <1>0, <1>1, <1>9 DEF RecordCopied, RecordRouted, RecordPhase, Move, Pcs
    <2>2. ModeOK'
      BY <2>1 DEF ModeOK, Pending, CopySteps, FencedSteps
    <2>3. Pending
      BY <2>1 DEF ModeOK
    <2>4. HomeOK'
      BY <2>1, <2>3 DEF HomeOK, LeftShardRefuses, Has, Pending
    <2>. QED
      BY <2>2, <2>4
  <1>10. CASE ApplyRoute /\ ~Abandon
    <2>1. /\ mover.pc = "route" /\ mover'.pc = "routed" /\ mover'.resumed = mover.resumed
          /\ map'.home = move.to
          /\ UNCHANGED <<rec, move, fence, backlog>>
      BY <1>0, <1>1, <1>10 DEF ApplyRoute, Pcs, Map
    <2>2. ModeOK'
      BY <2>1 DEF ModeOK, Pending, CopySteps, FencedSteps
    <2>3. move.phase = "copied" /\ move.from \in fence /\ map.home \in {move.from, move.to}
      BY <2>1 DEF ModeOK
    <2>4. HomeOK'
      BY <2>1, <2>3 DEF HomeOK, LeftShardRefuses, Has, Pending
    <2>. QED
      BY <2>2, <2>4
  <1>11. CASE ClearSource
    <2>1. /\ rec' = [rec EXCEPT ![move.from] = [id \in Ids |-> NoRec]]
          /\ mover.pc = "clear" /\ mover'.pc = "lift" /\ mover'.resumed = mover.resumed
          /\ UNCHANGED <<move, map, fence, backlog>>
      BY <1>1, <1>11 DEF ClearSource, Pcs
    <2>2. ModeOK'
      BY <2>1 DEF ModeOK, Pending, CopySteps, FencedSteps
    <2>3. rec'[move.from]["c"] = NoRec
      BY <1>0, <2>1 DEF Types, MovementTypeOK
    <2>4. ASSUME NEW t \in Shards PROVE Has(t, "c")' => Has(t, "c") /\ t # move.from
      <3>1. CASE t = move.from
        BY <2>3, <3>1, Constants DEF Has
      <3>2. CASE t # move.from
        <4>1. rec'[t] = rec[t]
          BY <2>1, <3>2 DEF Types, MovementTypeOK
        <4>. QED
          BY <3>2, <4>1 DEF Has
      <3>. QED
        BY <3>1, <3>2
    <2>5. HomeOK'
      BY <1>0, <2>1, <2>4 DEF HomeOK, LeftShardRefuses, Pending
    <2>. QED
      BY <2>2, <2>5
  <1>12. CASE LiftFence
    <2>1. /\ fence' = fence \ {move.from}
          /\ mover.pc = "lift" /\ mover'.pc = "finish" /\ mover'.resumed = mover.resumed
          /\ UNCHANGED <<rec, move, map, backlog>>
      BY <1>1, <1>12 DEF LiftFence, Pcs
    <2>2. ModeOK'
      BY <2>1 DEF ModeOK, Pending, CopySteps, FencedSteps
    <2>3. HomeOK'
      BY <2>1 DEF HomeOK, LeftShardRefuses, Has, Pending
    <2>. QED
      BY <2>2, <2>3
  <1>13. CASE DropMove
    <2>1. /\ mover.pc = "finish" /\ mover'.pc = "idle" /\ move' = NoMove /\ backlog' = <<>>
          /\ mover'.resumed = FALSE
          /\ UNCHANGED <<rec, map, fence>>
      BY <1>13, Constants DEF DropMove, Stop
    <2>2. fence = {} /\ map.home = move.to /\ ~Has(move.from, "c") /\ Pending
      BY <2>1 DEF ModeOK, HomeOK
    <2>3. ModeOK'
      BY <2>1, <2>2, Constants DEF ModeOK, Pending, CopySteps, FencedSteps
    <2>4. HomeOK'
      BY <2>1, <2>2, Constants DEF HomeOK, LeftShardRefuses, Has, Pending
    <2>. QED
      BY <2>3, <2>4
  <1>. QED
    BY <1>2, <1>3, <1>4, <1>5, <1>6, <1>7, <1>8, <1>9, <1>10, <1>11, <1>12, <1>13 DEF Mover

(* Beginning, resumption, faults and other map changes keep them. *)
LEMMA ControlKeepsMode ==
  ASSUME Types, ModeOK, HomeOK,
         \/ \E s \in Shards : Begin(s)
         \/ Resume \/ FailStep \/ Crash \/ UpdateOtherRanges
  PROVE  ModeOK' /\ HomeOK'
  <1>1. ASSUME NEW s \in Shards, Begin(s) PROVE ModeOK' /\ HomeOK'
    <2>1. /\ ~Pending /\ mover.pc = "idle" /\ s # map.home
          /\ move'.phase = "copying" /\ move'.from = map.home /\ move'.to = s
          /\ mover'.pc = "cursor" /\ mover'.resumed = mover.resumed
          /\ UNCHANGED <<rec, map, fence, backlog>>
      BY <1>1, GoTypes DEF Begin, Pcs
    <2>2. fence = {} /\ ~mover.resumed
      BY <2>1 DEF ModeOK
    <2>3. ModeOK'
      BY <2>1, <2>2 DEF ModeOK, Pending, CopySteps, FencedSteps
    <2>4. HomeOK'
      BY <2>1, <2>2 DEF HomeOK, LeftShardRefuses, Has, Pending
    <2>. QED
      BY <2>3, <2>4
  <1>2. CASE Resume
    <2>1. /\ Pending /\ mover.pc = "idle"
          /\ mover'.pc = CASE move.phase = "copying" -> "refence"
                           [] move.phase = "copied"  -> "route"
                           [] OTHER                  -> "clear"
          /\ UNCHANGED <<rec, move, map, fence, backlog>>
      BY <1>2 DEF Resume, AtRest
    <2>2. move.phase \in {"copying", "copied", "routed"}
      BY <2>1, TypesHere DEF Types, Move, Pending
    <2>3. \/ move.phase = "copying" /\ mover'.pc = "refence"
          \/ move.phase = "copied" /\ mover'.pc = "route"
          \/ move.phase = "routed" /\ mover'.pc = "clear"
      BY <2>1, <2>2
    <2>4. ModeOK'
      BY <2>1, <2>3 DEF ModeOK, Pending, CopySteps, FencedSteps
    <2>5. HomeOK'
      BY <2>1, <2>3 DEF HomeOK, LeftShardRefuses, Has, Pending
    <2>. QED
      BY <2>4, <2>5
  <1>3. CASE FailStep \/ Crash
    BY <1>3, StopKeepsMode DEF FailStep, Abandon, Crash
  <1>4. CASE UpdateOtherRanges
    <2>1. map'.home = map.home /\ UNCHANGED <<rec, fence, move, mover, backlog>>
      BY <1>4, TypesHere DEF UpdateOtherRanges, Types, Map
    <2>. QED
      BY <2>1 DEF ModeOK, HomeOK, LeftShardRefuses, Has, Pending
  <1>. QED
    BY <1>1, <1>2, <1>3, <1>4

-----------------------------------------------------------------------------
(* The log as a chain.                                                      *)

(* The events of id after position k of the log go on from version ver, and *)
(* the last of them, or what they go on from, is the source's record.       *)
Continues(log, k, id, ver, val, source) ==
  /\ \A j \in k + 1 .. Len(log) :
       log[j].id = id /\ (\A l \in k + 1 .. j - 1 : log[l].id # id) => log[j].ver = ver + 1
  /\ (\A j \in k + 1 .. Len(log) : log[j].id # id) => ver = source.ver /\ val = source.val

(* At the end of the log, only the source goes on from itself. *)
LEMMA ContinuesAtEnd ==
  ASSUME NEW log \in Seq(Event), NEW id, NEW source
  PROVE  Continues(log, Len(log), id, source.ver, source.val, source)
  BY DEF Continues

(* Another event of the record follows the source's version. *)
LEMMA ContinuesAppend ==
  ASSUME NEW log \in Seq(Event), NEW event \in Event, NEW k \in 0 .. Len(log), NEW ver \in Nat,
         NEW val, NEW source, NEW next,
         Continues(log, k, event.id, ver, val, source), event.ver = source.ver + 1
  PROVE  Continues(Append(log, event), k, event.id, ver, val, next)
  <1>. DEFINE longer == Append(log, event)
              id == event.id
  <1>1. /\ Len(longer) = Len(log) + 1 /\ longer[Len(longer)] = event
        /\ \A j \in 1 .. Len(log) : longer[j] = log[j]
    OBVIOUS
  <1>2. ASSUME NEW j \in k + 1 .. Len(longer), longer[j].id = id,
               \A l \in k + 1 .. j - 1 : longer[l].id # id
        PROVE  longer[j].ver = ver + 1
    <2>1. CASE j = Len(longer)
      <3>1. \A l \in k + 1 .. Len(log) : log[l].id # id
        <4>1. ASSUME NEW l \in k + 1 .. Len(log) PROVE log[l].id # id
          <5>1. l \in 1 .. Len(log) /\ l \in k + 1 .. j - 1
            BY <1>1, <2>1
          <5>. QED
            BY <1>1, <1>2, <5>1
        <4>. QED
          BY <4>1
      <3>2. ver = source.ver
        BY <3>1 DEF Continues
      <3>. QED
        BY <1>1, <2>1, <3>2
    <2>2. CASE j # Len(longer)
      <3>1. j \in k + 1 .. Len(log) /\ j \in 1 .. Len(log)
        BY <1>1, <2>2
      <3>2. \A l \in k + 1 .. j - 1 : log[l].id # id
        <4>1. ASSUME NEW l \in k + 1 .. j - 1 PROVE log[l].id # id
          <5>1. l \in 1 .. Len(log)
            BY <3>1
          <5>. QED
            BY <1>1, <1>2, <5>1
        <4>. QED
          BY <4>1
      <3>3. log[j].id = id
        BY <1>1, <1>2, <3>1
      <3>. QED
        BY <1>1, <3>1, <3>2, <3>3 DEF Continues
    <2>. QED
      BY <2>1, <2>2
  <1>3. ~(\A j \in k + 1 .. Len(longer) : longer[j].id # id)
    BY <1>1
  <1>. QED
    BY <1>2, <1>3 DEF Continues

(* An event of another record changes nothing. *)
LEMMA ContinuesAppendOther ==
  ASSUME NEW log \in Seq(Event), NEW event \in Event, NEW k \in 0 .. Len(log), NEW id,
         NEW ver, NEW val, NEW source,
         Continues(log, k, id, ver, val, source), event.id # id
  PROVE  Continues(Append(log, event), k, id, ver, val, source)
  <1>. DEFINE longer == Append(log, event)
  <1>1. /\ Len(longer) = Len(log) + 1 /\ longer[Len(longer)] = event
        /\ \A j \in 1 .. Len(log) : longer[j] = log[j]
    OBVIOUS
  <1>2. \A j \in k + 1 .. Len(log) : j \in 1 .. Len(log) /\ j \in k + 1 .. Len(longer)
                                   /\ longer[j] = log[j]
    BY <1>1
  <1>3. ASSUME NEW j \in k + 1 .. Len(longer), longer[j].id = id,
               \A l \in k + 1 .. j - 1 : longer[l].id # id
        PROVE  longer[j].ver = ver + 1
    <2>1. j \in k + 1 .. Len(log)
      BY <1>1, <1>3
    <2>2. \A l \in k + 1 .. j - 1 : log[l].id # id
      <3>1. ASSUME NEW l \in k + 1 .. j - 1 PROVE log[l].id # id
        <4>1. l \in k + 1 .. Len(log)
          BY <2>1
        <4>. QED
          BY <1>2, <1>3, <4>1
      <3>. QED
        BY <3>1
    <2>. QED
      BY <1>2, <1>3, <2>1, <2>2 DEF Continues
  <1>4. ASSUME \A j \in k + 1 .. Len(longer) : longer[j].id # id
        PROVE  ver = source.ver /\ val = source.val
    <2>1. \A j \in k + 1 .. Len(log) : log[j].id # id
      BY <1>2, <1>4
    <2>. QED
      BY <2>1 DEF Continues
  <1>. QED
    BY <1>3, <1>4 DEF Continues

(* Consuming the head of the log. *)
LEMMA ContinuesTail ==
  ASSUME NEW log \in Seq(Event), log # <<>>, NEW k \in 1 .. Len(log), NEW id,
         NEW ver, NEW val, NEW source, Continues(log, k, id, ver, val, source)
  PROVE  Continues(Tail(log), k - 1, id, ver, val, source)
  <1>. DEFINE rest == Tail(log)
  <1>1. /\ Len(rest) = Len(log) - 1 /\ rest \in Seq(Event)
        /\ \A j \in 1 .. Len(rest) : rest[j] = log[j + 1]
    OBVIOUS
  <1>. HIDE DEF rest
  <1>2. ASSUME NEW j \in k .. Len(rest), rest[j].id = id,
               \A l \in k .. j - 1 : rest[l].id # id
        PROVE  rest[j].ver = ver + 1
    <2>1. j + 1 \in k + 1 .. Len(log) /\ rest[j] = log[j + 1]
      BY <1>1
    <2>2. ASSUME NEW l \in k + 1 .. j PROVE log[l].id # id
      <3>1. l - 1 \in 1 .. Len(rest) /\ l - 1 \in k .. j - 1 /\ l - 1 + 1 = l
        BY <1>1
      <3>. QED
        BY <1>1, <1>2, <3>1
    <2>3. \A l \in k + 1 .. (j + 1) - 1 : log[l].id # id
      BY <2>2
    <2>. QED
      BY <1>2, <2>1, <2>3 DEF Continues
  <1>3. ASSUME \A j \in k .. Len(rest) : rest[j].id # id
        PROVE  ver = source.ver /\ val = source.val
    <2>1. ASSUME NEW j \in k + 1 .. Len(log) PROVE log[j].id # id
      <3>1. j - 1 \in 1 .. Len(rest) /\ j - 1 \in k .. Len(rest) /\ j - 1 + 1 = j
        BY <1>1
      <3>. QED
        BY <1>1, <1>3, <3>1
    <2>. QED
      BY <2>1 DEF Continues
  <1>4. (k - 1) + 1 = k
    OBVIOUS
  <1>. QED
    BY <1>2, <1>3, <1>4 DEF Continues, rest

(* The head of the log, at position 0: it goes on, or is another record's. *)
LEMMA ContinuesHead ==
  ASSUME NEW log \in Seq(Event), log # <<>>, NEW id,
         NEW ver, NEW val, NEW source, Continues(log, 0, id, ver, val, source)
  PROVE  /\ Head(log).id = id => Head(log).ver = ver + 1
         /\ Head(log).id # id => Continues(log, 1, id, ver, val, source)
  <1>1. 1 \in 0 + 1 .. Len(log) /\ Head(log) = log[1]
    OBVIOUS
  <1>2. ASSUME Head(log).id = id PROVE Head(log).ver = ver + 1
    <2>1. \A l \in 0 + 1 .. 1 - 1 : log[l].id # id
      OBVIOUS
    <2>. QED
      BY <1>1, <1>2, <2>1 DEF Continues
  <1>3. ASSUME Head(log).id # id PROVE Continues(log, 1, id, ver, val, source)
    <2>1. ASSUME NEW j \in 2 .. Len(log), log[j].id = id, \A l \in 2 .. j - 1 : log[l].id # id
          PROVE  log[j].ver = ver + 1
      <3>1. \A l \in 0 + 1 .. j - 1 : log[l].id # id
        BY <1>1, <1>3, <2>1
      <3>2. j \in 0 + 1 .. Len(log)
        OBVIOUS
      <3>. QED
        BY <2>1, <3>1, <3>2 DEF Continues
    <2>2. ASSUME \A j \in 2 .. Len(log) : log[j].id # id
          PROVE  ver = source.ver /\ val = source.val
      <3>1. \A j \in 0 + 1 .. Len(log) : log[j].id # id
        BY <1>1, <1>3, <2>2
      <3>. QED
        BY <3>1 DEF Continues
    <2>3. 1 + 1 = 2
      OBVIOUS
    <2>. QED
      BY <2>1, <2>2, <2>3 DEF Continues
  <1>. QED
    BY <1>2, <1>3

-----------------------------------------------------------------------------
(* The invariant of the copy.                                               *)

(* The log, while the tenant is copied: from each event on, the events of   *)
(* its record go on from what it says, to the record as the source has it.  *)
Chained ==
  move.phase = "copying" =>
    \A i \in 1 .. Len(backlog) :
      Continues(backlog, i, backlog[i].id, After(backlog[i]), backlog[i].val,
                rec[move.from][backlog[i].id])

(* The copy of a record is on that chain: at the cursor, or ahead of it by  *)
(* the events between the cursor and the export.                            *)
Follows(id) ==
  \E k \in 0 .. Len(backlog) :
    Continues(backlog, k, id, rec[move.to][id].ver, rec[move.to][id].val, rec[move.from][id])

LinkedSteps == {"owners", "chase", "fence", "settle", "agree"}

Linked == mover.pc \in LinkedSteps => \A id \in Ids \ (missed \cup late) : Follows(id)

(* The copy is the source's, from the end of the last catch-up to the route.*)
SyncedSteps == {"verify", "agree", "compare", "copied"}

Settled ==
  /\ Pending /\ map.home = move.from
  /\ move.phase = "copied" \/ mover.pc \in SyncedSteps

Synced ==
  Settled => \A id \in Ids \ (missed \cup late) :
               rec[move.to][id].val = rec[move.from][id].val

CopyOK == Chained /\ Linked /\ Synced /\ AcknowledgedReadable

MovementInv == Types /\ ModeOK /\ HomeOK /\ CopyOK

(* What a commit does to the records. *)
LEMMA CommitRecords ==
  ASSUME Types, NEW s \in Shards, NEW id \in Ids, NEW record, Written(s, id, record)
  PROVE  /\ rec'[s][id] = record
         /\ \A t \in Shards, j \in Ids : t # s \/ j # id => rec'[t][j] = rec[t][j]
         /\ acked'[id] = record.val
         /\ \A j \in Ids \ {id} : acked'[j] = acked[j]
         /\ UNCHANGED <<fence, move, map, mover, owners, opened, missed>>
         /\ late \subseteq late' /\ late' \subseteq late \cup {id}
         /\ s \in fence \/ (Pending /\ s = move.to /\ s # map.home) => id \in late'
         /\ s = map.home => lost' = lost \ {id}
         /\ s # map.home => lost' = lost \cup {id}
  BY DEF Written, Commit, Types, MovementTypeOK

(* A commit keeps the chain and the links: the log is longer by its event.  *)
LEMMA CommitKeepsCopy ==
  ASSUME MovementInv, NEW s \in Shards, NEW id \in Ids, NEW record, Written(s, id, record)
  PROVE  CopyOK'
  <1>0. /\ Types /\ ModeOK /\ CopyOK
        /\ move.from \in Shards /\ move.to \in Shards /\ map.home \in Shards
        /\ backlog \in Seq(Event) /\ record.ver \in Nat
        /\ rec[move.from][id].ver \in Nat
    BY CommitLogs, TypesHere DEF MovementInv, Types, MovementTypeOK, Move, Map
  <1>1. /\ rec'[s][id] = record
        /\ \A t \in Shards, j \in Ids : t # s \/ j # id => rec'[t][j] = rec[t][j]
        /\ UNCHANGED <<fence, move, map, mover, missed>>
        /\ late \subseteq late'
        /\ s \in fence \/ (Pending /\ s = move.to /\ s # map.home) => id \in late'
    BY <1>0, CommitRecords
  <1>2. PICK event \in Event : Logs(s, id, record, event)
    BY <1>0, CommitLogs
  <1>3. s # move.from \/ mover.pc = "idle" => backlog' = backlog
    BY <1>2 DEF Logs, Logged
  <1>4. s = move.from /\ mover.pc # "idle" => backlog' = Append(backlog, event)
    BY <1>0, <1>2 DEF Logs, Logged, ModeOK
  <1>5. Chained'
    <2>1. SUFFICES ASSUME move.phase = "copying", NEW i \in 1 .. Len(backlog')
          PROVE  Continues(backlog', i, backlog'[i].id, After(backlog'[i]), backlog'[i].val,
                           rec'[move.from][backlog'[i].id])
      BY <1>1 DEF Chained, After
    <2>2. CASE s # move.from
      <3>1. backlog' = backlog /\ backlog[i].id \in Ids
        BY <1>0, <1>3, <2>2, TypesHere DEF Types
      <3>2. rec'[move.from][backlog[i].id] = rec[move.from][backlog[i].id]
        BY <1>0, <1>1, <2>2, <3>1
      <3>. QED
        BY <1>0, <2>1, <3>1, <3>2 DEF CopyOK, Chained
    <2>3. CASE mover.pc = "idle"
      <3>1. backlog' = <<>>
        BY <1>0, <1>3, <2>3 DEF ModeOK
      <3>. QED
        BY <3>1
    <2>4. CASE s = move.from /\ mover.pc # "idle"
      <3>0. backlog' = Append(backlog, event)
        BY <1>4, <2>4
      <3>1. CASE i \in 1 .. Len(backlog)
        <4>0. /\ backlog'[i] = backlog[i] /\ backlog[i].id \in Ids /\ i \in 0 .. Len(backlog)
              /\ After(backlog[i]) \in Nat
          BY <1>0, <3>0, <3>1, TypesHere DEF Types, After
        <4>1. Continues(backlog, i, backlog[i].id, After(backlog[i]), backlog[i].val,
                        rec[move.from][backlog[i].id])
          BY <1>0, <2>1, <3>1 DEF CopyOK, Chained
        <4>2. CASE backlog[i].id = id
          <5>1. event.id = id /\ event.ver = rec[move.from][id].ver + 1
            BY <1>2, <2>4 DEF Logs
          <5>. QED
            BY <1>0, <3>0, <4>0, <4>1, <4>2, <5>1, ContinuesAppend
        <4>3. CASE backlog[i].id # id
          <5>1. event.id # backlog[i].id
            BY <1>2, <4>3 DEF Logs
          <5>2. rec'[move.from][backlog[i].id] = rec[move.from][backlog[i].id]
            BY <1>0, <1>1, <4>0, <4>3
          <5>. QED
            BY <1>0, <3>0, <4>0, <4>1, <5>1, <5>2, ContinuesAppendOther
        <4>. QED
          BY <4>2, <4>3
      <3>2. CASE i \notin 1 .. Len(backlog)
        <4>1. i = Len(backlog') /\ backlog'[i] = event /\ backlog' \in Seq(Event)
          BY <1>0, <3>0, <3>2
        <4>2. event.id = id /\ After(event) = record.ver /\ event.val = record.val
          BY <1>2 DEF Logs
        <4>3. rec'[move.from][id] = record
          BY <1>1, <2>4
        <4>. QED
          BY <4>1, <4>2, <4>3, ContinuesAtEnd
      <3>. QED
        BY <3>1, <3>2
    <2>. QED
      BY <2>2, <2>3, <2>4
  <1>6. Linked'
    <2>1. SUFFICES ASSUME mover.pc \in LinkedSteps, NEW j \in Ids \ (missed \cup late')
          PROVE  \E k \in 0 .. Len(backlog') :
                   Continues(backlog', k, j, rec'[move.to][j].ver, rec'[move.to][j].val,
                             rec'[move.from][j])
      BY <1>1 DEF Linked, Follows, LinkedSteps
    <2>2. /\ mover.pc # "idle" /\ Pending /\ move.from # move.to /\ map.home = move.from
      BY <1>0, <2>1 DEF ModeOK, LinkedSteps, CopySteps
    <2>3. PICK k \in 0 .. Len(backlog) :
            Continues(backlog, k, j, rec[move.to][j].ver, rec[move.to][j].val, rec[move.from][j])
      BY <1>0, <1>1, <2>1 DEF CopyOK, Linked, Follows
    <2>4. rec'[move.to][j] = rec[move.to][j]
      <3>1. s # move.to \/ j # id
        BY <1>1, <2>1, <2>2
      <3>. QED
        BY <1>0, <1>1, <3>1
    <2>5. CASE s # move.from
      <3>1. backlog' = backlog /\ rec'[move.from][j] = rec[move.from][j]
        BY <1>0, <1>1, <1>3, <2>5
      <3>. QED
        BY <2>3, <2>4, <3>1
    <2>6. CASE s = move.from
      <3>0. backlog' = Append(backlog, event) /\ k \in 0 .. Len(backlog')
        BY <1>0, <1>4, <2>2, <2>6
      <3>1. CASE j = id
        <4>1. event.id = id /\ event.ver = rec[move.from][id].ver + 1
              /\ rec[move.to][j].ver \in Nat
          BY <1>0, <1>2, <2>6, TypesHere DEF Logs, Types
        <4>2. Continues(backlog', k, j, rec[move.to][j].ver, rec[move.to][j].val,
                        rec'[move.from][j])
          BY <1>0, <2>3, <3>0, <3>1, <4>1, ContinuesAppend
        <4>. QED
          BY <2>4, <3>0, <4>2
      <3>2. CASE j # id
        <4>1. event.id # j /\ rec'[move.from][j] = rec[move.from][j]
          BY <1>0, <1>1, <1>2, <3>2 DEF Logs
        <4>2. Continues(backlog', k, j, rec[move.to][j].ver, rec[move.to][j].val,
                        rec[move.from][j])
          BY <1>0, <2>3, <3>0, <4>1, ContinuesAppendOther
        <4>. QED
          BY <2>4, <3>0, <4>1, <4>2
      <3>. QED
        BY <3>1, <3>2
    <2>. QED
      BY <2>5, <2>6
  <1>7. Synced'
    <2>1. SUFFICES ASSUME Settled, NEW j \in Ids \ (missed \cup late')
          PROVE  rec'[move.to][j].val = rec'[move.from][j].val
      BY <1>1 DEF Synced, Settled, Pending, SyncedSteps
    <2>2. move.from \in fence /\ move.from # move.to /\ map.home = move.from
      BY <1>0, <2>1 DEF ModeOK, Settled, SyncedSteps, FencedSteps
    <2>3. s \in {move.from, move.to} => j # id
      BY <1>1, <2>1, <2>2 DEF Settled
    <2>4. rec'[move.to][j] = rec[move.to][j] /\ rec'[move.from][j] = rec[move.from][j]
      BY <1>0, <1>1, <2>3
    <2>. QED
      BY <1>0, <1>1, <2>1, <2>4 DEF CopyOK, Synced
  <1>8. AcknowledgedReadable'
    <2>1. SUFFICES ASSUME NEW j \in Ids \ lost' PROVE rec'[map.home][j].val = acked'[j]
      BY <1>1 DEF AcknowledgedReadable
    <2>2. CASE j = id
      <3>1. s = map.home
        BY <1>0, <2>1, <2>2, CommitRecords
      <3>. QED
        BY <1>0, <1>1, <2>2, <3>1, CommitRecords
    <2>3. CASE j # id
      <3>1. j \in Ids \ lost /\ acked'[j] = acked[j] /\ rec'[map.home][j] = rec[map.home][j]
        BY <1>0, <1>1, <2>1, <2>3, CommitRecords
      <3>. QED
        BY <1>0, <3>1 DEF CopyOK, AcknowledgedReadable
    <2>. QED
      BY <2>2, <2>3
  <1>. QED
    BY <1>5, <1>6, <1>7, <1>8 DEF CopyOK

(* A step that leaves the records, what was acknowledged and the home alone *)
(* keeps what it does not newly owe.                                        *)
LEMMA StillKeepsCopy ==
  ASSUME MovementInv,
         UNCHANGED <<rec, acked, missed, late, lost>>,
         map'.home = map.home, move'.from = move.from, move'.to = move.to,
         backlog' = backlog \/ backlog' = <<>>,
         move'.phase = "copying" => move.phase = "copying" \/ backlog' = <<>>,
         mover'.pc \in LinkedSteps => mover.pc \in LinkedSteps /\ backlog' = backlog,
         Settled' => Settled
  PROVE  CopyOK'
  <1>1. Chained'
    <2>1. CASE backlog' = <<>>
      BY <2>1 DEF Chained
    <2>2. CASE backlog' = backlog
      BY <2>2 DEF MovementInv, CopyOK, Chained, After
    <2>. QED
      BY <2>1, <2>2
  <1>2. Linked'
    BY DEF MovementInv, CopyOK, Linked, Follows
  <1>3. Synced'
    BY DEF MovementInv, CopyOK, Synced
  <1>4. AcknowledgedReadable'
    BY DEF MovementInv, CopyOK, AcknowledgedReadable
  <1>. QED
    BY <1>1, <1>2, <1>3, <1>4 DEF CopyOK

(* The event at the head of the log, if it does not land, leaves the copy   *)
(* where it is: ahead of the event, or of another record.                   *)
LEMMA HeadPasses ==
  ASSUME MovementInv, backlog # <<>>, NEW id \in Ids, Follows(id),
         \/ Head(backlog).id # id
         \/ /\ ~(Counted(Head(backlog)) /\ Newer(Head(backlog)))
            /\ Known(Head(backlog)) \/ ~Has(move.to, id)
  PROVE  \E k \in 0 .. Len(Tail(backlog)) :
           Continues(Tail(backlog), k, id, rec[move.to][id].ver, rec[move.to][id].val,
                     rec[move.from][id])
  <1>0. /\ backlog \in Seq(Event) /\ Head(backlog) = backlog[1] /\ 1 \in 1 .. Len(backlog)
        /\ Len(Tail(backlog)) = Len(backlog) - 1 /\ Len(backlog) \in Nat
        /\ move.to \in Shards
    BY TypesHere DEF MovementInv, Types, MovementTypeOK, Move
  <1>1. PICK k \in 0 .. Len(backlog) :
          Continues(backlog, k, id, rec[move.to][id].ver, rec[move.to][id].val, rec[move.from][id])
    BY DEF Follows
  <1>2. CASE k \in 1 .. Len(backlog)
    <2>1. k - 1 \in 0 .. Len(Tail(backlog))
      BY <1>0, <1>2
    <2>. QED
      BY <1>0, <1>1, <1>2, <2>1, ContinuesTail
  <1>3. CASE k = 0
    <2>1. CASE Head(backlog).id # id
      <3>1. Continues(backlog, 1, id, rec[move.to][id].ver, rec[move.to][id].val,
                      rec[move.from][id])
        BY <1>0, <1>1, <1>3, <2>1, ContinuesHead
      <3>2. Continues(Tail(backlog), 1 - 1, id, rec[move.to][id].ver, rec[move.to][id].val,
                      rec[move.from][id])
        BY <1>0, <3>1, ContinuesTail
      <3>3. 1 - 1 \in 0 .. Len(Tail(backlog))
        BY <1>0
      <3>. QED
        BY <3>2, <3>3
    <2>2. CASE Head(backlog).id = id
      <3>1. Head(backlog).ver = rec[move.to][id].ver + 1 /\ rec[move.to][id].ver \in Nat
        BY <1>0, <1>1, <1>3, <2>2, ContinuesHead, TypesHere DEF MovementInv, Types
      <3>2. Newer(Head(backlog))
        BY <2>2, <3>1 DEF Newer
      <3>3. Head(backlog).kind = "retract" => Has(move.to, id)
        BY <1>0, <3>1 DEF MovementInv, Types, VersionsOK, Has
      <3>4. Head(backlog).kind \in {"put", "retract"}
        BY <1>0, TypesHere DEF MovementInv, Types, Event
      <3>. QED
        BY <2>2, <3>2, <3>3, <3>4 DEF Counted, Known
    <2>. QED
      BY <2>1, <2>2
  <1>. QED
    BY <1>0, <1>1, <1>2, <1>3

(* One event of the log is caught up with. *)
LEMMA CatchUpKeepsCopy ==
  ASSUME MovementInv, CatchUpEvent
  PROVE  CopyOK'
  <1>. DEFINE event == Head(backlog)
              lands == Counted(event) /\ Newer(event)
  <1>0. /\ backlog # <<>> /\ backlog \in Seq(Event) /\ backlog' = Tail(backlog)
        /\ event = backlog[1] /\ 1 \in 1 .. Len(backlog) /\ event \in Event /\ event.id \in Ids
        /\ Len(Tail(backlog)) = Len(backlog) - 1 /\ Tail(backlog) \in Seq(Event)
        /\ \A j \in 1 .. Len(Tail(backlog)) : Tail(backlog)[j] = backlog[j + 1]
        /\ move.from \in Shards /\ move.to \in Shards
        /\ UNCHANGED <<move, map, acked, lost>>
    BY TypesHere DEF MovementInv, Types, MovementTypeOK, Move, CatchUpEvent
  <1>1. /\ mover.pc \in {"chase", "settle"} /\ mover'.pc = mover.pc
        /\ move.phase = "copying" /\ map.home = move.from /\ move.from # move.to /\ Pending
    <2>1. mover.pc \in {"chase", "settle"}
          /\ mover' = [mover EXCEPT !.applied = @ \/ Counted(event)]
      BY DEF CatchUpEvent
    <2>2. mover'.pc = mover.pc
      BY <2>1, TypesHere DEF MovementInv, Types, MoverState
    <2>. QED
      BY <2>1, <2>2 DEF MovementInv, ModeOK, CopySteps
  <1>2. /\ rec' = IF lands THEN [rec EXCEPT ![move.to][event.id] = Applied(event)] ELSE rec
        /\ missed' = IF lands THEN missed \ {event.id}
                     ELSE IF ~Known(event) /\ Has(move.to, event.id)
                     THEN missed \cup {event.id} ELSE missed
        /\ late' = IF lands THEN late \ {event.id} ELSE late
    BY DEF CatchUpEvent
  <1>3. \A id \in Ids : rec'[move.from][id] = rec[move.from][id]
    <2>. HIDE DEF event, lands
    <2>. QED
      BY <1>0, <1>1, <1>2 DEF MovementInv, Types, MovementTypeOK
  <1>4. ASSUME NEW id \in Ids, ~(lands /\ id = event.id)
        PROVE  rec'[move.to][id] = rec[move.to][id]
    <2>. HIDE DEF event, lands
    <2>. QED
      BY <1>0, <1>2, <1>4 DEF MovementInv, Types, MovementTypeOK
  <1>5. ASSUME NEW i \in 1 .. Len(backlog)
        PROVE  Continues(backlog, i, backlog[i].id, After(backlog[i]), backlog[i].val,
                         rec[move.from][backlog[i].id])
    BY <1>1, <1>5 DEF MovementInv, CopyOK, Chained
  <1>6. Chained'
    <2>1. ASSUME NEW i \in 1 .. Len(Tail(backlog))
          PROVE  Continues(Tail(backlog), i, Tail(backlog)[i].id, After(Tail(backlog)[i]),
                           Tail(backlog)[i].val, rec[move.from][Tail(backlog)[i].id])
                 /\ Tail(backlog)[i].id \in Ids
      <3>1. i + 1 \in 1 .. Len(backlog) /\ Tail(backlog)[i] = backlog[i + 1] /\ (i + 1) - 1 = i
        BY <1>0
      <3>2. Continues(Tail(backlog), (i + 1) - 1, backlog[i + 1].id, After(backlog[i + 1]),
                      backlog[i + 1].val, rec[move.from][backlog[i + 1].id])
        BY <1>0, <1>5, <3>1, ContinuesTail
      <3>3. backlog[i + 1].id \in Ids
        BY <3>1, TypesHere DEF MovementInv, Types
      <3>. QED
        BY <3>1, <3>2, <3>3
    <2>. QED
      BY <1>0, <1>3, <2>1 DEF Chained, After
  <1>7. Linked'
    <2>1. SUFFICES ASSUME NEW id \in Ids \ (missed' \cup late')
          PROVE  \E k \in 0 .. Len(Tail(backlog)) :
                   Continues(Tail(backlog), k, id, rec'[move.to][id].ver, rec'[move.to][id].val,
                             rec[move.from][id])
      BY <1>0, <1>3 DEF Linked, Follows
    <2>2. CASE lands /\ id = event.id
      <3>1. /\ rec'[move.to][id] = Applied(event)
            /\ Applied(event).ver = After(event)
        <4>1. Applied(event).ver = After(event)
          BY <1>0, <2>2, AppliedTypes DEF MovementInv
        <4>2. rec' = [rec EXCEPT ![move.to][event.id] = Applied(event)]
          BY <1>2, <2>2
        <4>. HIDE DEF event, lands
        <4>. QED
          BY <1>0, <2>2, <4>1, <4>2 DEF MovementInv, Types, MovementTypeOK
      <3>2. Continues(Tail(backlog), 1 - 1, id, After(event), event.val, rec[move.from][id])
        BY <1>0, <1>5, <2>2, ContinuesTail
      <3>3. Applied(event).val = event.val
        <4>1. event.kind = "put" => Applied(event).val = event.val
          BY <1>0, <2>2, AppliedTypes DEF MovementInv
        <4>2. event.kind = "retract" => Applied(event).val = 0
          BY <1>0, <2>2, AppliedTypes DEF MovementInv
        <4>3. event.kind = "retract" => event.val = 0
          BY <1>0 DEF MovementInv, Types, VersionsOK
        <4>4. event.kind \in {"put", "retract"}
          BY <1>0 DEF Event
        <4>. QED
          BY <4>1, <4>2, <4>3, <4>4
      <3>4. 0 \in 0 .. Len(Tail(backlog)) /\ 1 - 1 = 0
        BY <1>0
      <3>. QED
        BY <3>1, <3>2, <3>3, <3>4
    <2>3. CASE ~(lands /\ id = event.id)
      <3>1. rec'[move.to][id] = rec[move.to][id]
        BY <1>4, <2>3
      <3>2. id \notin missed \cup late
        BY <1>2, <2>1, <2>3
      <3>3. Follows(id)
        BY <1>1, <3>2 DEF MovementInv, CopyOK, Linked, LinkedSteps
      <3>4. event.id # id \/ (~lands /\ (Known(event) \/ ~Has(move.to, id)))
        BY <1>2, <2>1, <2>3
      <3>. QED
        BY <1>0, <3>1, <3>3, <3>4, HeadPasses
    <2>. QED
      BY <2>2, <2>3
  <1>8. Synced'
    BY <1>0, <1>1 DEF Synced, Settled, SyncedSteps
  <1>9. AcknowledgedReadable'
    BY <1>0, <1>1, <1>3 DEF MovementInv, CopyOK, AcknowledgedReadable
  <1>. QED
    BY <1>6, <1>7, <1>8, <1>9 DEF CopyOK

(* The copy from the source as it is. *)
LEMMA ExportKeepsCopy ==
  ASSUME MovementInv, Export
  PROVE  CopyOK'
  <1>0. /\ move.from \in Shards /\ move.to \in Shards /\ backlog \in Seq(Event)
        /\ mover.pc = "export" /\ move.phase = "copying" /\ map.home = move.from
        /\ move.from # move.to
    BY TypesHere DEF MovementInv, Types, MovementTypeOK, Move, Export, ModeOK, CopySteps
  <1>1. /\ rec' = [rec EXCEPT ![move.to] = rec[move.from]]
        /\ missed' = {} /\ late' = {}
        /\ UNCHANGED <<move, map, backlog, acked, lost>>
    BY DEF Export
  <1>2. rec'[move.to] = rec[move.from] /\ rec'[move.from] = rec[move.from]
    BY <1>0, <1>1 DEF MovementInv, Types, MovementTypeOK
  <1>3. Chained'
    BY <1>1, <1>2 DEF MovementInv, CopyOK, Chained, After
  <1>4. Linked'
    <2>1. ASSUME NEW id \in Ids
          PROVE  Continues(backlog, Len(backlog), id, rec[move.from][id].ver,
                           rec[move.from][id].val, rec[move.from][id])
      BY <1>0, ContinuesAtEnd
    <2>2. Len(backlog) \in 0 .. Len(backlog)
      BY <1>0
    <2>. QED
      BY <1>1, <1>2, <2>1, <2>2 DEF Linked, Follows
  <1>5. Synced'
    BY <1>1, <1>2 DEF Synced
  <1>6. AcknowledgedReadable'
    BY <1>0, <1>1, <1>2 DEF MovementInv, CopyOK, AcknowledgedReadable
  <1>. QED
    BY <1>3, <1>4, <1>5, <1>6 DEF CopyOK

(* The end of a settling round: at the end of the log the copy is the source's. *)
LEMMA SettlingKeepsCopy ==
  ASSUME MovementInv, EndSettlingRound
  PROVE  CopyOK'
  <1>0. /\ mover.pc = "settle" /\ backlog = <<>> /\ mover'.pc \in {"settle", "agree"}
        /\ UNCHANGED <<rec, fence, move, map, backlog, acked, missed, late, lost>>
    BY TypesHere DEF MovementInv, Types, MoverState, EndSettlingRound, history
  <1>1. ASSUME NEW id \in Ids, Follows(id)
        PROVE  rec[move.to][id].val = rec[move.from][id].val
    BY <1>0, <1>1 DEF Follows, Continues
  <1>2. Synced'
    BY <1>0, <1>1 DEF MovementInv, CopyOK, Linked, LinkedSteps, Synced
  <1>3. Chained' /\ Linked'
    BY <1>0 DEF MovementInv, CopyOK, Chained, Linked, LinkedSteps, Follows, After
  <1>4. AcknowledgedReadable'
    BY <1>0 DEF MovementInv, CopyOK, AcknowledgedReadable
  <1>. QED
    BY <1>2, <1>3, <1>4 DEF CopyOK

(* The map names the target: what it may not hold is lost. *)
LEMMA RouteKeepsCopy ==
  ASSUME MovementInv, ApplyRoute, ~Abandon
  PROVE  CopyOK'
  <1>0. /\ mover.pc = "route" /\ move.phase = "copied" /\ Pending
        /\ map.home \in {move.from, move.to} /\ move.from # move.to
        /\ mover'.pc = "routed" /\ map'.home = move.to
        /\ UNCHANGED <<rec, move, acked>>
    BY TypesHere, GoTypes
    DEF MovementInv, Types, Map, ApplyRoute, ModeOK, Pcs, history
  <1>1. Chained' /\ Linked' /\ Synced'
    BY <1>0 DEF Chained, Linked, LinkedSteps, Synced, Settled
  <1>2. CASE map.home = move.to /\ lost' = lost
    BY <1>0, <1>1, <1>2 DEF MovementInv, CopyOK, AcknowledgedReadable
  <1>3. CASE lost' = lost \cup missed \cup late
    <2>1. CASE map.home = move.to
      BY <1>0, <1>1, <1>3, <2>1 DEF MovementInv, CopyOK, AcknowledgedReadable
    <2>2. CASE map.home = move.from
      <3>1. Settled
        BY <1>0, <2>2 DEF Settled
      <3>2. ASSUME NEW id \in Ids \ lost' PROVE rec'[map'.home][id].val = acked'[id]
        <4>1. id \in Ids \ lost /\ id \in Ids \ (missed \cup late)
          BY <1>3, <3>2
        <4>2. rec[move.from][id].val = acked[id]
          BY <2>2, <4>1 DEF MovementInv, CopyOK, AcknowledgedReadable
        <4>3. rec[move.to][id].val = rec[move.from][id].val
          BY <3>1, <4>1 DEF MovementInv, CopyOK, Synced
        <4>. QED
          BY <1>0, <4>2, <4>3
      <3>3. AcknowledgedReadable'
        BY <3>2 DEF AcknowledgedReadable
      <3>. QED
        BY <1>1, <3>3 DEF CopyOK
    <2>. QED
      BY <1>0, <2>1, <2>2
  <1>4. (map.home = move.to /\ lost' = lost) \/ lost' = lost \cup missed \cup late
    BY DEF ApplyRoute, history
  <1>. QED
    BY <1>2, <1>3, <1>4

(* The source is cleared when the map names the target. *)
LEMMA ClearKeepsCopy ==
  ASSUME MovementInv, ClearSource
  PROVE  CopyOK'
  <1>0. /\ move.from \in Shards /\ mover.pc = "clear" /\ move.phase = "routed" /\ Pending
        /\ map.home = move.to /\ move.from # move.to
        /\ mover'.pc = "lift"
        /\ rec' = [rec EXCEPT ![move.from] = [id \in Ids |-> NoRec]]
        /\ UNCHANGED <<move, map, acked, lost>>
    BY TypesHere, GoTypes
    DEF MovementInv, Types, Move, ClearSource, ModeOK, Pcs, history
  <1>1. rec'[map.home] = rec[map.home]
    BY <1>0 DEF MovementInv, Types, MovementTypeOK
  <1>2. Chained' /\ Linked' /\ Synced'
    BY <1>0 DEF Chained, Linked, LinkedSteps, Synced, Settled, SyncedSteps
  <1>3. AcknowledgedReadable'
    BY <1>0, <1>1 DEF MovementInv, CopyOK, AcknowledgedReadable
  <1>. QED
    BY <1>2, <1>3 DEF CopyOK

(* The mover stops. *)
LEMMA StopKeepsCopy ==
  ASSUME MovementInv, Stop, backlog' = <<>>,
         UNCHANGED <<rec, move, map, acked, missed, late, lost>>
  PROVE  CopyOK'
  <1>1. mover'.pc = "idle"
    BY Constants DEF Stop
  <1>2. Settled' => Settled
    BY <1>1 DEF Settled, Pending, SyncedSteps
  <1>. QED
    BY <1>1, <1>2, StillKeepsCopy DEF LinkedSteps

(* Every step of the mover. *)
LEMMA MoverKeepsCopy ==
  ASSUME MovementInv, Mover
  PROVE  CopyOK'
  <1>0. ModeOK /\ Types /\ move \in Move /\ mover \in MoverState
    BY TypesHere DEF MovementInv, Types
  <1>1. ASSUME NEW pc \in Pcs, Go(pc) PROVE mover'.pc = pc
    BY <1>0, <1>1, GoTypes
  <1>2. CASE FenceForResume \/ FenceForSettling
    <2>1. /\ \/ mover.pc = "refence" /\ mover'.pc = "cursor"
             \/ mover.pc = "fence" /\ mover'.pc = "settle"
          /\ UNCHANGED <<rec, move, map, backlog, acked, missed, late, lost>>
      BY <1>1, <1>2 DEF FenceForResume, FenceForSettling, Fence, Pcs, history
    <2>2. Settled' => Settled
      BY <2>1 DEF Settled, Pending, SyncedSteps
    <2>. QED
      BY <2>1, <2>2, StillKeepsCopy DEF LinkedSteps
  <1>3. CASE TakeCursor \/ ReadOwners \/ EndRound
    <2>1. /\ \/ mover.pc = "cursor" /\ mover'.pc = "export" /\ backlog' = <<>>
             \/ mover.pc = "owners" /\ mover'.pc = "chase" /\ backlog' = backlog
             \/ mover.pc = "chase" /\ mover'.pc \in {"chase", "fence"} /\ backlog' = backlog
          /\ UNCHANGED <<rec, move, map, acked, missed, late, lost>>
      BY <1>0, <1>1, <1>3 DEF TakeCursor, ReadOwners, EndRound, MoverState, Pcs, history
    <2>2. Settled' => Settled
      BY <2>1 DEF Settled, Pending, SyncedSteps
    <2>. QED
      BY <2>1, <2>2, StillKeepsCopy DEF LinkedSteps
  <1>4. CASE Abandon
    BY <1>4, StopKeepsCopy DEF Abandon, history
  <1>5. CASE (CompareAfterSettling \/ AssertSameSize) /\ ~Abandon
    <2>1. /\ \/ mover.pc = "agree" /\ mover'.pc \in {"settle", "compare"}
             \/ mover.pc = "verify" /\ mover'.pc = "compare"
             \/ mover.pc = "compare" /\ mover'.pc = "copied"
          /\ UNCHANGED <<rec, move, map, backlog, acked, missed, late, lost>>
      BY <1>0, <1>1, <1>5 DEF CompareAfterSettling, AssertSameSize, MoverState, Pcs, history
    <2>2. Settled' => Settled
      BY <2>1 DEF Settled, Pending, SyncedSteps
    <2>. QED
      BY <2>1, <2>2, StillKeepsCopy DEF LinkedSteps
  <1>6. CASE RecordCopied \/ RecordRouted
    <2>1. /\ \/ mover.pc = "copied" /\ mover'.pc = "route" /\ move'.phase = "copied"
             \/ mover.pc = "routed" /\ mover'.pc = "clear" /\ move'.phase = "routed"
          /\ move'.from = move.from /\ move'.to = move.to
          /\ UNCHANGED <<rec, map, backlog, acked, missed, late, lost>>
      BY <1>0, <1>1, <1>6 DEF RecordCopied, RecordRouted, RecordPhase, Move, Pcs, history
    <2>2. Settled' => Settled
      BY <1>0, <2>1 DEF Settled, Pending, SyncedSteps, ModeOK
    <2>. QED
      BY <2>1, <2>2, StillKeepsCopy DEF LinkedSteps
  <1>7. CASE LiftFence
    <2>1. /\ mover.pc = "lift" /\ mover'.pc = "finish"
          /\ UNCHANGED <<rec, move, map, backlog, acked, missed, late, lost>>
      BY <1>1, <1>7 DEF LiftFence, Pcs, history
    <2>2. Settled' => Settled
      BY <2>1 DEF Settled, Pending, SyncedSteps
    <2>. QED
      BY <2>1, <2>2, StillKeepsCopy DEF LinkedSteps
  <1>8. CASE DropMove
    <2>1. /\ mover'.pc = "idle" /\ move'.phase = "none"
          /\ UNCHANGED <<rec, map, acked, lost>>
      BY <1>8, Constants DEF DropMove, Stop, history
    <2>2. Chained' /\ Linked' /\ Synced'
      BY <2>1 DEF Chained, Linked, LinkedSteps, Synced, Settled, Pending
    <2>3. AcknowledgedReadable'
      BY <2>1 DEF MovementInv, CopyOK, AcknowledgedReadable
    <2>. QED
      BY <2>2, <2>3 DEF CopyOK
  <1>. QED
    BY <1>2, <1>3, <1>4, <1>5, <1>6, <1>7, <1>8, ExportKeepsCopy, CatchUpKeepsCopy,
       SettlingKeepsCopy, RouteKeepsCopy, ClearKeepsCopy
    DEF Mover

(* Beginning, resumption, faults and other map changes. *)
LEMMA ControlKeepsCopy ==
  ASSUME MovementInv,
         \/ \E s \in Shards : Begin(s)
         \/ Resume \/ FailStep \/ Crash \/ UpdateOtherRanges
  PROVE  CopyOK'
  <1>0. ModeOK /\ Types /\ move \in Move /\ map \in Map
    BY TypesHere DEF MovementInv, Types
  <1>1. ASSUME NEW s \in Shards, Begin(s) PROVE CopyOK'
    <2>1. /\ mover.pc = "idle" /\ mover'.pc = "cursor" /\ move'.phase = "copying"
          /\ UNCHANGED <<rec, map, backlog, acked, lost>>
      BY <1>0, <1>1, GoTypes DEF Begin, Pcs, history
    <2>2. backlog' = <<>>
      BY <1>0, <2>1 DEF ModeOK
    <2>3. Chained' /\ Linked' /\ Synced'
      BY <2>1, <2>2 DEF Chained, Linked, LinkedSteps, Synced, Settled, SyncedSteps
    <2>4. AcknowledgedReadable'
      BY <2>1 DEF MovementInv, CopyOK, AcknowledgedReadable
    <2>. QED
      BY <2>3, <2>4 DEF CopyOK
  <1>2. CASE Resume
    <2>1. /\ mover'.pc \in {"refence", "route", "clear"}
          /\ UNCHANGED <<rec, move, map, backlog, acked, missed, late, lost>>
      BY <1>2 DEF Resume, AtRest, history
    <2>2. Settled' => Settled
      BY <2>1 DEF Settled, Pending, SyncedSteps
    <2>. QED
      BY <2>1, <2>2, StillKeepsCopy DEF LinkedSteps
  <1>3. CASE FailStep \/ Crash
    BY <1>3, StopKeepsCopy DEF FailStep, Abandon, Crash, history
  <1>4. CASE UpdateOtherRanges
    <2>1. /\ map'.home = map.home
          /\ UNCHANGED <<rec, move, mover, backlog, acked, missed, late, lost>>
      BY <1>0, <1>4 DEF UpdateOtherRanges, Map, history
    <2>2. Settled' => Settled
      BY <2>1 DEF Settled, Pending
    <2>. QED
      BY <2>1, <2>2, StillKeepsCopy
  <1>. QED
    BY <1>1, <1>2, <1>3, <1>4

-----------------------------------------------------------------------------
(* The invariant is inductive. *)
LEMMA MovementInvKept ==
  ASSUME MovementInv, [MovementNext]_movementVars
  PROVE  MovementInv'
  <1>0. Types' /\ Types /\ ModeOK /\ HomeOK
    BY TypesKept DEF MovementInv
  <1>1. CASE \/ \E s \in Shards : InsertDocument(s) \/ UpdateDocument(s) \/ DeleteDocument(s)
             \/ \E s \in Shards, op \in {"alter", "create"} : CheckSchemaChange(s, op)
             \/ CommitSchemaChange
    <2>0. UNCHANGED <<fence, move, map, mover, owners, opened, missed>>
      BY <1>0, <1>1, Writers
    <2>1. ASSUME NEW s \in Shards, NEW id \in Ids, NEW record \in Rec, Written(s, id, record)
          PROVE  MovementInv'
      <3>1. ModeOK' /\ HomeOK'
        BY <1>0, <2>0, <2>1, WritersKeepMode
      <3>2. CopyOK'
        BY <2>1, CommitKeepsCopy
      <3>. QED
        BY <1>0, <3>1, <3>2 DEF MovementInv
    <2>2. CASE UNCHANGED <<rec, backlog, used, acked, late, lost>>
      <3>1. ModeOK' /\ HomeOK'
        BY <1>0, <2>0, <2>2, WritersKeepMode
      <3>2. CopyOK'
        <4>1. Settled' => Settled
          BY <2>0 DEF Settled, Pending
        <4>. QED
          BY <2>0, <2>2, <4>1, StillKeepsCopy
      <3>. QED
        BY <1>0, <3>1, <3>2 DEF MovementInv
    <2>. QED
      BY <1>0, <1>1, <2>1, <2>2, Writers
  <1>2. CASE Mover
    BY <1>0, <1>2, MoverKeepsMode, MoverKeepsCopy DEF MovementInv
  <1>3. CASE \/ \E s \in Shards : Begin(s)
             \/ Resume \/ FailStep \/ Crash \/ UpdateOtherRanges
    BY <1>0, <1>3, ControlKeepsMode, ControlKeepsCopy DEF MovementInv
  <1>4. CASE UNCHANGED movementVars
    <2>1. /\ ModeOK' /\ HomeOK'
      BY <1>0, <1>4 DEF movementVars, ModeOK, HomeOK, LeftShardRefuses, Has, Pending
    <2>2. CopyOK'
      <3>1. Settled' => Settled
        BY <1>4 DEF movementVars, Settled, Pending
      <3>. QED
        BY <1>4, <3>1, StillKeepsCopy DEF movementVars
    <2>. QED
      BY <1>0, <2>1, <2>2 DEF MovementInv
  <1>. QED
    BY <1>1, <1>2, <1>3, <1>4 DEF MovementNext

(* The initial state satisfies it. *)
LEMMA MovementInitInv == MovementInit => MovementInv
  <1>. SUFFICES ASSUME MovementInit PROVE MovementInv
    OBVIOUS
  <1>1. Types /\ mover.pc = "idle" /\ ~mover.resumed /\ ~Pending /\ move.phase = "none"
        /\ backlog = <<>> /\ fence = {} /\ map.home = First
    BY InitTypes, Constants DEF MovementInit, Pending
  <1>2. ModeOK
    BY <1>1 DEF ModeOK, CopySteps, FencedSteps
  <1>3. HomeOK
    <2>1. \A s \in Shards \ {First} : rec[s]["c"] = NoRec
      BY DEF MovementInit, Ids
    <2>. QED
      BY <1>1, <2>1, Constants DEF HomeOK, LeftShardRefuses, Has
  <1>4. AcknowledgedReadable
    <2>1. \A id \in Ids : rec[First][id] = InitialRec[id] /\ acked[id] = InitialRec[id].val
      BY MovementAssumption DEF MovementInit
    <2>. QED
      BY <1>1, <2>1 DEF AcknowledgedReadable
  <1>5. Chained /\ Linked /\ Synced
    BY <1>1 DEF Chained, Linked, LinkedSteps, Synced, Settled
  <1>. QED
    BY <1>1, <1>2, <1>3, <1>4, <1>5 DEF MovementInv, CopyOK

(* The invariant holds in every reachable state. *)
LEMMA MovementInvariant == MovementSpec => []MovementInv
  <1>1. MovementInv /\ [MovementNext]_movementVars => MovementInv'
    BY MovementInvKept
  <1>. QED
    BY <1>1, MovementInitInv, PTL DEF MovementSpec

-----------------------------------------------------------------------------
(* The theorems. *)

(* db/movement.ts: records, map, move record and the loops of the mover     *)
(* keep their types and caps.                                               *)
THEOREM MovementTypeCorrect == MovementSpec => []MovementTypeOK
  <1>1. MovementInv => MovementTypeOK
    BY DEF MovementInv, Types
  <1>. QED
    BY <1>1, MovementInvariant, PTL

(* runMoves and resume: the shard the map names holds what was last         *)
(* acknowledged, but for the three ways the code loses a write, for any     *)
(* number of writes, moves, rounds and faults.                              *)
THEOREM AcknowledgedWritesStay == MovementSpec => []AcknowledgedReadable
  <1>1. MovementInv => AcknowledgedReadable
    BY DEF MovementInv, CopyOK
  <1>. QED
    BY <1>1, MovementInvariant, PTL

(* The fence of a tenant always has the move record that resume finishes.   *)
THEOREM FencesHaveMoves == MovementSpec => []FenceHasMove
  <1>1. MovementInv => FenceHasMove
    BY DEF MovementInv, ModeOK, FenceHasMove
  <1>. QED
    BY <1>1, MovementInvariant, PTL

(* clear, of the source: the fence goes after the records, so a handle that *)
(* was opened before the route never writes a document on the old shard.    *)
THEOREM OldShardsRefuse == MovementSpec => []LeftShardRefuses
  <1>1. MovementInv => LeftShardRefuses
    BY DEF MovementInv, HomeOK
  <1>. QED
    BY <1>1, MovementInvariant, PTL
===============================================================================
