---------------------------- MODULE TenantMovement ----------------------------
(***************************************************************************)
(* db/movement.ts: one tenant relocated between shards while it is written  *)
(* to, and the writers that race it: document writes and changes of the     *)
(* schema (db/documents.ts) over the store of a shard (db/kv-store.ts), and *)
(* map changes for other ranges (db/topology-store.ts).                     *)
(*                                                                         *)
(* The tenant has a collection c, a document d of it, and may get a second  *)
(* collection x. A handle (`forTenant`) keeps the shard it was opened on.   *)
(* A batch of the log is one event (TAIL_BATCH = 1). Records of other       *)
(* tenants, bodies and indexes are left out; so is the occupancy marker.    *)
(***************************************************************************)
EXTENDS Integers, Sequences, FiniteSets

CONSTANTS
  Shards,         \* the shards the database has open
  First,          \* the shard the tenant starts on
  CatchUpRounds,  \* CATCH_UP_ROUNDS
  SettlePasses,   \* SETTLE_PASSES
  MaxMoves,       \* bound: rebalances that begin
  MaxWrites,      \* bound: writes to the tenant, the two initial ones included
  MaxMapUpdates,  \* bound: map changes for other ranges
  MaxFaults       \* bound: crashes and failed steps of the mover

ASSUME MovementAssumption ==
  /\ First \in Shards
  /\ CatchUpRounds \in Nat \ {0}
  /\ SettlePasses \in Nat \ {0}
  /\ MaxMoves \in Nat
  /\ MaxWrites \in Nat \ {0, 1}
  /\ MaxMapUpdates \in Nat
  /\ MaxFaults \in Nat

VARIABLES
  rec,      \* rec[s][id]: the tenant's record id on shard s
  fence,    \* the shards that hold the tenant's move fence
  move,     \* the move record of the topology store
  map,      \* the partition map in force: its version and the tenant's shard
  mover,    \* where runMoves is, and the counters of its loops
  backlog,  \* what the source has logged since the mover's cursor
  owners,   \* the identifiers the mover knows the identity of
  opened,   \* the shards live handles were opened on
  admin,    \* the schema change between its fence check and its commit
  used,     \* what has been used of each bound
  \* History variables: they record what was acknowledged and guard nothing.
  acked,    \* acked[id]: the last acknowledged value, 0 for a deletion
  missed,   \* ids whose retraction the copy under way could not place
  late,     \* ids written behind the fence or on the target, not caught up yet
  lost      \* ids whose last acknowledged write the home shard does not hold

history == <<acked, missed, late, lost>>

movementVars == <<rec, fence, move, map, mover, backlog, owners, opened, admin,
                  used, acked, missed, late, lost>>

-----------------------------------------------------------------------------
(* The data. *)

Ids == {"c", "d", "x"}

(* A record: its identifier in the source's numbering, its version and the  *)
(* number of the write that produced its value. Version 0 is no record.     *)
Rec == [seq : 0 .. MaxWrites, ver : 0 .. MaxWrites, val : 0 .. MaxWrites]
NoRec == [seq |-> 0, ver |-> 0, val |-> 0]
Has(s, id) == rec[s][id].ver > 0
Count(s) == Cardinality({id \in Ids : Has(s, id)})

NoMove == [phase |-> "none", from |-> First, to |-> First, version |-> 0]
Pending == move.phase # "none"

AtRest == [pc |-> "idle", resumed |-> FALSE, applied |-> FALSE, round |-> 0, pass |-> 0]

Pcs == {"idle", "refence", "cursor", "export", "verify", "owners", "chase",
        "fence", "settle", "agree", "compare", "copied", "route", "routed",
        "clear", "lift", "finish"}

NoChange == [op |-> "none", shard |-> First]

Event == [kind : {"put", "retract"}, id : Ids, seq : 0 .. MaxWrites,
          ver : 0 .. MaxWrites + 1, val : 0 .. MaxWrites]

Go(pc) == mover' = [mover EXCEPT !.pc = pc]
Stop == mover' = AtRest

-----------------------------------------------------------------------------
(* The writers. A transaction appends its event and replaces the record;    *)
(* the fence is read inside it by document writes (Unfenced at the commit)   *)
(* and before it by schema changes.                                        *)

Write == used.writes + 1

Put(s, id) ==
  IF Has(s, id)
    THEN [rec[s][id] EXCEPT !.ver = @ + 1, !.val = Write]
    ELSE [seq |-> Write, ver |-> 1, val |-> Write]

Logged(s, event) ==
  backlog' = IF Pending /\ s = move.from /\ mover.pc # "idle"
               THEN Append(backlog, event) ELSE backlog

Commit(s, id, record) ==
  LET old == rec[s][id] IN
  /\ used.writes < MaxWrites
  /\ used' = [used EXCEPT !.writes = @ + 1]
  /\ rec' = [rec EXCEPT ![s][id] = record]
  /\ Logged(s, IF record = NoRec
                 THEN [kind |-> "retract", id |-> id, seq |-> old.seq,
                       ver |-> old.ver + 1, val |-> 0]
                 ELSE [kind |-> "put", id |-> id, seq |-> record.seq,
                       ver |-> record.ver, val |-> record.val])
  /\ acked' = [acked EXCEPT ![id] = record.val]
  /\ late' = IF s \in fence \/ (Pending /\ s = move.to /\ s # map.home)
               THEN late \cup {id} ELSE late
  /\ lost' = IF s = map.home THEN lost \ {id} ELSE lost \cup {id}
  /\ UNCHANGED <<fence, move, map, mover, owners, opened, missed>>

Unfenced(s) == s \in opened /\ s \notin fence

(* insert, update and delete, whose fence check is part of their commit. A  *)
(* handle whose shard no longer holds the collection gets CollectionNotFound.*)
InsertDocument(s) ==
  /\ Unfenced(s) /\ Has(s, "c") /\ ~Has(s, "d")
  /\ Commit(s, "d", Put(s, "d"))
  /\ UNCHANGED admin

UpdateDocument(s) ==
  /\ Unfenced(s) /\ Has(s, "c") /\ Has(s, "d")
  /\ Commit(s, "d", Put(s, "d"))
  /\ UNCHANGED admin

DeleteDocument(s) ==
  /\ Unfenced(s) /\ Has(s, "c") /\ Has(s, "d")
  /\ Commit(s, "d", NoRec)
  /\ UNCHANGED admin

(* createIndex and its like on c, createCollection of x: the fence and the  *)
(* collection are looked up first.                                          *)
CheckSchemaChange(s, op) ==
  /\ admin.op = "none"
  /\ used.writes < MaxWrites
  /\ Unfenced(s)
  /\ IF op = "alter" THEN Has(s, "c") ELSE ~Has(s, "x")
  /\ admin' = [op |-> op, shard |-> s]
  /\ UNCHANGED <<rec, fence, move, map, mover, backlog, owners, opened, used,
                 history>>

(* ... and the commit comes later. A change reads its collection again in   *)
(* its transaction, a creation does not.                                    *)
CommitSchemaChange ==
  LET id == IF admin.op = "alter" THEN "c" ELSE "x" IN
  /\ admin.op # "none"
  /\ admin' = NoChange
  /\ IF admin.op = "alter" /\ ~Has(admin.shard, "c")
       THEN UNCHANGED <<rec, fence, move, map, mover, backlog, owners, opened,
                        used, history>>
       ELSE Commit(admin.shard, id, Put(admin.shard, id))

(* topology.update for a range this tenant does not stand on: it asks for   *)
(* no pending move.                                                        *)
UpdateOtherRanges ==
  /\ used.maps < MaxMapUpdates
  /\ used' = [used EXCEPT !.maps = @ + 1]
  /\ map' = [map EXCEPT !.version = @ + 1]
  /\ UNCHANGED <<rec, fence, move, mover, backlog, owners, opened, admin,
                 history>>

-----------------------------------------------------------------------------
(* The mover. *)

(* rebalance: refused over an unfinished move; recorded before anything else.*)
Begin(s) ==
  /\ ~Pending
  /\ mover.pc = "idle"
  /\ used.moves < MaxMoves
  /\ s # map.home
  /\ used' = [used EXCEPT !.moves = @ + 1]
  /\ move' = [phase |-> "copying", from |-> map.home, to |-> s,
              version |-> map.version + 1]
  /\ Go("cursor")
  /\ UNCHANGED <<rec, fence, map, backlog, owners, opened, admin, history>>

(* resume: a copy under way is fenced and made again from the start. *)
Resume ==
  /\ Pending
  /\ mover.pc = "idle"
  /\ mover' = [AtRest EXCEPT
       !.resumed = TRUE,
       !.pc = CASE move.phase = "copying" -> "refence"
                [] move.phase = "copied"  -> "route"
                [] OTHER                  -> "clear"]
  /\ UNCHANGED <<rec, fence, move, map, backlog, owners, opened, admin, used,
                 history>>

Fence(next) ==
  /\ fence' = fence \cup {move.from}
  /\ Go(next)
  /\ UNCHANGED <<rec, move, map, backlog, owners, opened, admin, used, history>>

FenceForResume == mover.pc = "refence" /\ Fence("cursor")
FenceForSettling == mover.pc = "fence" /\ Fence("settle")

(* copy, up to its cursor. *)
TakeCursor ==
  /\ mover.pc = "cursor"
  /\ backlog' = <<>>
  /\ Go("export")
  /\ UNCHANGED <<rec, fence, move, map, owners, opened, admin, used, history>>

(* copy: the target is cleared, the source exported as it is now and        *)
(* restored with its versions. Nobody reads the target, so the restore may  *)
(* appear at the instant of the export.                                     *)
Export ==
  /\ mover.pc = "export"
  /\ rec' = [rec EXCEPT ![move.to] = rec[move.from]]
  /\ fence' = fence \ {move.to}
  /\ missed' = {}
  /\ late' = {}
  /\ Go(IF mover.resumed THEN "verify" ELSE "owners")
  /\ UNCHANGED <<move, map, backlog, owners, opened, admin, used, acked, lost>>

(* Mutated form: the head of the log is read after the restore. *)
ReadOwnersAndCursor ==
  /\ mover.pc = "owners"
  /\ owners' = {rec[move.from][id].seq : id \in {i \in Ids : Has(move.from, i)}}
  /\ backlog' = <<>>
  /\ Go("chase")
  /\ UNCHANGED <<rec, fence, move, map, opened, admin, used, history>>

(* copy: the identities come from a second look at the source, after the    *)
(* restore.                                                                *)
ReadOwners ==
  /\ mover.pc = "owners"
  /\ owners' = {rec[move.from][id].seq : id \in {i \in Ids : Has(move.from, i)}}
  /\ Go("chase")
  /\ UNCHANGED <<rec, fence, move, map, backlog, opened, admin, used, history>>

(* catchUp, one event. A put goes to the record of that name, wherever it   *)
(* is; a retraction only to an identifier the mover knows; neither to a     *)
(* record whose version is as new.                                         *)
Known(event) == event.kind = "put" \/ event.seq \in owners
Counted(event) == event.kind = "put" \/ (event.seq \in owners /\ Has(move.to, event.id))
Newer(event) == rec[move.to][event.id].ver < event.ver

Applied(event) ==
  IF event.kind = "retract" THEN NoRec
  ELSE [seq |-> IF Has(move.to, event.id) THEN rec[move.to][event.id].seq ELSE event.seq,
        ver |-> event.ver, val |-> event.val]

CatchUpEvent ==
  LET event == Head(backlog)
      lands == Counted(event) /\ Newer(event) IN
  /\ mover.pc \in {"chase", "settle"}
  /\ backlog # <<>>
  /\ backlog' = Tail(backlog)
  /\ owners' = IF event.kind = "put" THEN owners \cup {event.seq} ELSE owners
  /\ rec' = IF lands THEN [rec EXCEPT ![move.to][event.id] = Applied(event)] ELSE rec
  /\ missed' = IF lands THEN missed \ {event.id}
               ELSE IF ~Known(event) /\ Has(move.to, event.id)
               THEN missed \cup {event.id} ELSE missed
  /\ late' = IF lands THEN late \ {event.id} ELSE late
  /\ mover' = [mover EXCEPT !.applied = @ \/ Counted(event)]
  /\ UNCHANGED <<fence, move, map, opened, admin, used, acked, lost>>

(* runMoves: unfenced rounds, until one applies nothing or they run out. *)
EndRound ==
  /\ mover.pc = "chase"
  /\ backlog = <<>>
  /\ mover' = IF mover.applied /\ mover.round + 1 < CatchUpRounds
                THEN [mover EXCEPT !.applied = FALSE, !.round = @ + 1]
                ELSE [mover EXCEPT !.applied = FALSE, !.pc = "fence"]
  /\ UNCHANGED <<rec, fence, move, map, backlog, owners, opened, admin, used,
                 history>>

(* settle: rounds until one applies nothing, then the counts. *)
EndSettlingRound ==
  /\ mover.pc = "settle"
  /\ backlog = <<>>
  /\ mover' = [mover EXCEPT !.applied = FALSE,
                            !.pc = IF mover.applied THEN "settle" ELSE "agree"]
  /\ UNCHANGED <<rec, fence, move, map, backlog, owners, opened, admin, used,
                 history>>

Agree == Count(move.from) = Count(move.to)

(* What a throw of runMoves, or of a store below it, leaves. *)
Abandon ==
  /\ Stop
  /\ backlog' = <<>>
  /\ owners' = {}
  /\ UNCHANGED <<rec, fence, move, map, opened, admin, history>>

(* Mutated form: one pass more than SETTLE_PASSES. *)
CompareOncePastTheLastPass ==
  /\ mover.pc = "agree"
  /\ IF Agree \/ mover.pass < SettlePasses
       THEN /\ mover' = IF Agree THEN [mover EXCEPT !.pc = "compare"]
                        ELSE [mover EXCEPT !.pc = "settle", !.pass = @ + 1]
            /\ UNCHANGED <<rec, fence, move, map, backlog, owners, opened,
                           admin, history>>
       ELSE Abandon
  /\ UNCHANGED used

CompareAfterSettling ==
  /\ mover.pc = "agree"
  /\ IF Agree \/ mover.pass + 1 < SettlePasses
       THEN /\ mover' = IF Agree THEN [mover EXCEPT !.pc = "compare"]
                        ELSE [mover EXCEPT !.pc = "settle", !.pass = @ + 1]
            /\ UNCHANGED <<rec, fence, move, map, backlog, owners, opened,
                           admin, history>>
       ELSE Abandon
  /\ UNCHANGED used

(* assertSameSize, at the end of a resumed copy and before `copied`. *)
AssertSameSize ==
  /\ mover.pc \in {"verify", "compare"}
  /\ IF Agree
       THEN /\ Go(IF mover.pc = "verify" THEN "compare" ELSE "copied")
            /\ UNCHANGED <<rec, fence, move, map, backlog, owners, opened,
                           admin, history>>
       ELSE Abandon
  /\ UNCHANGED used

RecordPhase(phase, next) ==
  /\ move' = [move EXCEPT !.phase = phase]
  /\ Go(next)
  /\ UNCHANGED <<rec, fence, map, backlog, owners, opened, admin, used,
                 history>>

RecordCopied == mover.pc = "copied" /\ RecordPhase("copied", "route")
RecordRouted == mover.pc = "routed" /\ RecordPhase("routed", "clear")

(* Mutated form: a route that was applied before is refused. *)
ApplyRouteOnlyOnce ==
  /\ mover.pc = "route"
  /\ IF map.version < move.version
       THEN /\ map' = [version |-> move.version, home |-> move.to]
            /\ opened' = opened \cup {move.to}
            /\ lost' = lost \cup missed \cup late
            /\ Go("routed")
            /\ UNCHANGED <<rec, fence, move, backlog, owners, admin, acked,
                           missed, late>>
       ELSE Abandon
  /\ UNCHANGED used

(* applyRoute: the map of the move, once; refused for good when another map *)
(* change has used its version.                                            *)
ApplyRoute ==
  /\ mover.pc = "route"
  /\ IF map.version < move.version
       THEN /\ map' = [version |-> move.version, home |-> move.to]
            /\ opened' = opened \cup {move.to}
            /\ lost' = lost \cup missed \cup late
            /\ Go("routed")
            /\ UNCHANGED <<rec, fence, move, backlog, owners, admin, acked,
                           missed, late>>
       ELSE IF map.home = move.to
       THEN /\ Go("routed")
            /\ UNCHANGED <<rec, fence, move, map, backlog, owners, opened,
                           admin, history>>
       ELSE Abandon
  /\ UNCHANGED used

(* Mutated forms: a clean-up that leaves the records, or the fence. *)
ClearNothing ==
  /\ mover.pc = "clear"
  /\ Go("lift")
  /\ UNCHANGED <<rec, fence, move, map, backlog, owners, opened, admin, used,
                 history>>

LiftNothing ==
  /\ mover.pc = "lift"
  /\ Go("finish")
  /\ UNCHANGED <<rec, fence, move, map, backlog, owners, opened, admin, used,
                 history>>

(* clear, of the source: its records, and last of all its fence. *)
ClearSource ==
  /\ mover.pc = "clear"
  /\ rec' = [rec EXCEPT ![move.from] = [id \in Ids |-> NoRec]]
  /\ Go("lift")
  /\ UNCHANGED <<fence, move, map, backlog, owners, opened, admin, used,
                 history>>

LiftFence ==
  /\ mover.pc = "lift"
  /\ fence' = fence \ {move.from}
  /\ Go("finish")
  /\ UNCHANGED <<rec, move, map, backlog, owners, opened, admin, used, history>>

DropMove ==
  /\ mover.pc = "finish"
  /\ move' = NoMove
  /\ backlog' = <<>>
  /\ owners' = {}
  /\ Stop
  /\ UNCHANGED <<rec, fence, map, opened, admin, used, history>>

(* A step of the mover fails; the writers live on. *)
FailStep ==
  /\ used.faults < MaxFaults
  /\ mover.pc # "idle"
  /\ used' = [used EXCEPT !.faults = @ + 1]
  /\ Abandon

(* The process dies, with the mover, the handles and what was in flight.    *)
Crash ==
  /\ used.faults < MaxFaults
  /\ used' = [used EXCEPT !.faults = @ + 1]
  /\ Stop
  /\ backlog' = <<>>
  /\ owners' = {}
  /\ opened' = {map.home}
  /\ admin' = NoChange
  /\ UNCHANGED <<rec, fence, move, map, history>>

-----------------------------------------------------------------------------
InitialRec == [id \in Ids |->
  CASE id = "c" -> [seq |-> 1, ver |-> 1, val |-> 1]
    [] id = "d" -> [seq |-> 2, ver |-> 1, val |-> 2]
    [] OTHER    -> NoRec]

MovementInit ==
  /\ rec = [s \in Shards |-> IF s = First THEN InitialRec ELSE [id \in Ids |-> NoRec]]
  /\ fence = {}
  /\ move = NoMove
  /\ map = [version |-> 1, home |-> First]
  /\ mover = AtRest
  /\ backlog = <<>>
  /\ owners = {}
  /\ opened = {First}
  /\ admin = NoChange
  /\ used = [writes |-> 2, moves |-> 0, maps |-> 0, faults |-> 0]
  /\ acked = [id \in Ids |-> InitialRec[id].val]
  /\ missed = {}
  /\ late = {}
  /\ lost = {}

Mover ==
  \/ FenceForResume \/ TakeCursor \/ Export \/ ReadOwners
  \/ CatchUpEvent \/ EndRound \/ FenceForSettling \/ EndSettlingRound
  \/ CompareAfterSettling \/ AssertSameSize \/ RecordCopied
  \/ ApplyRoute \/ RecordRouted \/ ClearSource \/ LiftFence \/ DropMove

MovementNext ==
  \/ \E s \in Shards : InsertDocument(s) \/ UpdateDocument(s) \/ DeleteDocument(s)
  \/ \E s \in Shards, op \in {"alter", "create"} : CheckSchemaChange(s, op)
  \/ CommitSchemaChange
  \/ UpdateOtherRanges
  \/ \E s \in Shards : Begin(s)
  \/ Resume
  \/ Mover
  \/ FailStep
  \/ Crash

MovementSpec == MovementInit /\ [][MovementNext]_movementVars

(* The steps of the mover follow each other, a schema change that has begun *)
(* commits, and an interrupted move is resumed (the operator's part:        *)
(* nothing in the code calls resume).                                      *)
FairMovementSpec ==
  /\ MovementSpec
  /\ WF_movementVars(Mover)
  /\ WF_movementVars(CommitSchemaChange)
  /\ WF_movementVars(Resume)

-----------------------------------------------------------------------------
(* The properties. *)

(* Type correctness; the loops of the mover stay within their caps. *)
MovementTypeOK ==
  /\ rec \in [Shards -> [Ids -> Rec]]
  /\ fence \subseteq Shards
  /\ move \in [phase : {"none", "copying", "copied", "routed"},
               from : Shards, to : Shards, version : Nat]
  /\ map \in [version : Nat, home : Shards]
  /\ mover \in [pc : Pcs, resumed : BOOLEAN, applied : BOOLEAN,
                round : 0 .. CatchUpRounds - 1, pass : 0 .. SettlePasses - 1]
  /\ backlog \in Seq(Event)
  /\ owners \subseteq 0 .. MaxWrites
  /\ opened \subseteq Shards
  /\ admin \in [op : {"none", "alter", "create"}, shard : Shards]
  /\ used \in [writes : 0 .. MaxWrites, moves : 0 .. MaxMoves,
               maps : 0 .. MaxMapUpdates, faults : 0 .. MaxFaults]
  /\ acked \in [Ids -> 0 .. MaxWrites]
  /\ missed \subseteq Ids /\ late \subseteq Ids /\ lost \subseteq Ids

(* The shard the map names holds the last acknowledged write of every       *)
(* record, through copies, catch-ups, routing, clean-up, faults and resumes. *)
(* The exceptions are the ways this code loses one: a retraction the copy   *)
(* could not place; a schema change that checked the fence before it was    *)
(* set and committed after the last catch-up; a write through a handle      *)
(* opened before the tenant moved, on a shard that is not the home, which   *)
(* is out of reach or keeps a later event of the home from landing.         *)
AcknowledgedReadable ==
  \A id \in Ids \ lost : rec[map.home][id].val = acked[id]

(* No fence without the record of the move that will lift it: a tenant is   *)
(* never refused writes with nothing pending that resume could finish.      *)
FenceHasMove ==
  \A s \in fence : Pending /\ move.from = s

(* A shard the tenant has left keeps its fence as long as it keeps the      *)
(* collection: a handle opened before the route can never write a document  *)
(* where nobody reads it again.                                            *)
LeftShardRefuses ==
  \A s \in Shards \ {map.home} :
    Has(s, "c") => s \in fence \/ (Pending /\ move.to = s)

(* Superseded: another map change has used the version of the move. *)
Superseded == map.version >= move.version /\ map.home # move.to

(* A move that began ends, also when it is interrupted anywhere and resumed, *)
(* unless another map change has used its version.                          *)
MoveFinishes == Pending ~> (~Pending \/ Superseded)
===============================================================================
