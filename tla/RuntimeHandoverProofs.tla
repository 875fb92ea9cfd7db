------------------------- MODULE RuntimeHandoverProofs -------------------------
(***************************************************************************)
(* Proofs about RuntimeHandover, for every set of releases and requests and *)
(* every bound on queue, engines and recoveries.                            *)
(*                                                                         *)
(* The argument: one lifecycle permit serialises the controller, so `step`  *)
(* says what the journal holds (JournalOK), which engine may own or be told *)
(* to open the stores (HoldersOK), which generation is granted next         *)
(* (GrantsOK) and whether traffic can reach the gate's target (GateOK).     *)
(***************************************************************************)
EXTENDS RuntimeHandover, TLAPS

-----------------------------------------------------------------------------
(* The inductive invariant. *)

(* Steps with a job, and its steps up to the commit of the candidate. *)
Replacing == Updating \ {"confirming"}
Promoting == {"preparing", "draining", "qualifying", "deactivating", "activating",
              "committing", "finishing"}
Restoring == {"stoppingPrevious", "restoring", "restoreActivating", "restoreFinishing"}
Resting == {"idle", "confirming", "retiring", "cleaning"} \cup Closing

Used(e) == engine[e].state # "unused"
Last(e) == \A d \in Engine : d > e => engine[d] = Unused

(* Engines: what a command answered tells of the state; no gap; no future.  *)
EngineOK(e) ==
  /\ engine[e].command = "released" => engine[e].state = "prepared"
  /\ engine[e].command = "activated" => engine[e].state = "active"
  /\ engine[e].state = "unused" => engine[e] = Unused
  /\ engine[e].boot <= boot
  /\ \A d \in Engine : (d < e /\ Used(e)) => Used(d)

(* The controller's owner is an engine of this host and runs its release.   *)
OwnerOK ==
  step # "down" =>
    /\ current.release \in Release /\ current.owner \in Engine
    /\ Used(current.owner) /\ engine[current.owner].release = current.release
    /\ engine[current.owner].boot = boot
    /\ current.generation <= counter

(* So are the candidate of a handover and the engine a rollback restores.   *)
JobOK ==
  /\ step \in Replacing =>
       /\ job.target \in Release /\ job.target # current.release
       /\ job.candidate \in Engine /\ job.candidate # current.owner
       /\ Used(job.candidate) /\ engine[job.candidate].release = job.target
       /\ engine[job.candidate].boot = boot
  /\ step \in Promoting => ~engine[job.candidate].expected
  /\ step \in Promoting \cup {"fencing"} => job.generation = counter
  /\ step \in {"preparing", "draining", "qualifying"} => ~job.released
  /\ step \in {"deactivating", "activating", "committing", "finishing"} => job.released
  /\ (step = "fencing" /\ ~job.released) => poisoned
  /\ step \in Restoring => job.released /\ counter = job.generation + 1
  /\ step \in {"restoring", "restoreActivating", "restoreFinishing"} =>
       /\ job.restored \in Engine /\ job.restored # job.candidate
       /\ Used(job.restored) /\ engine[job.restored].release = current.release
       /\ engine[job.restored].boot = boot /\ ~engine[job.restored].expected
  /\ step \in Booting => ~engine[current.owner].expected
  /\ step = "restoreFinishing" => current.owner = job.restored

(* The journal in memory is where the handover is. *)
Moving(phases) ==
  /\ memory.transition.phase \in phases
  /\ memory.transition.previous = current.release
  /\ memory.transition.target = job.target
  /\ memory.transition.generation = job.generation

JournalAt(phase) == Moving({phase}) /\ memory.generation = job.generation

JournalOK ==
  /\ ((step \in Resting /\ ~poisoned) \/ step = "preparing" \/ step \in Booting) =>
       /\ memory.transition.phase \in {"none", "prepared", "ready", "failed"}
       /\ memory.selected = current.release
       /\ memory.generation <= counter
       /\ step = "preparing" => memory.generation < counter
  /\ step \in {"draining", "qualifying"} =>
       JournalAt("prepared") /\ memory.selected = current.release
  /\ step = "deactivating" => JournalAt("releasing")
  /\ step = "activating" => JournalAt("activating")
  /\ step = "committing" => JournalAt("committing")
  /\ step = "finishing" => JournalAt("committing") /\ memory.selected = job.target
  /\ (step = "fencing" /\ job.released)
     \/ step \in {"stoppingPrevious", "restoring", "restoreActivating"} =>
       /\ Moving({"releasing", "activating", "committing", "ready"})
       /\ memory.generation = job.generation
  /\ step = "restoreFinishing" =>
       /\ Moving({"releasing", "activating", "committing", "ready"})
       /\ memory.generation = job.generation + 1
       /\ memory.selected = current.release

(* The file never holds a generation the controller has not counted. *)
DiskOK == step # "down" => disk.generation <= counter

(* Only these engines of the host own the stores, or are told to open them. *)
Quiet(e) == ~OwnsStores(e) /\ engine[e].command # "activate"
OnlyHolds(es) == \A e \in Engine : Known(e) /\ e \notin es => Quiet(e)

HoldersOK ==
  /\ (step \in Resting /\ ~poisoned) => OnlyHolds({current.owner})
  /\ step \in {"preparing", "draining", "qualifying", "deactivating",
               "stoppingPrevious", "bootActivating", "restoreFinishing"} =>
       OnlyHolds({current.owner})
  /\ step \in {"activating", "committing", "finishing"} => OnlyHolds({job.candidate})
  /\ step = "fencing" => OnlyHolds({current.owner, job.candidate})
  /\ step = "restoreActivating" => OnlyHolds({job.restored})
  /\ step \in {"restoring", "bootPreparing"} => OnlyHolds({})

(* Of two engines of the host, one told to open the stores is alone. *)
AloneOK ==
  \A d, e \in Engine :
    (Known(d) /\ Known(e) /\ d # e /\ engine[e].command = "activate") => Quiet(d)

(* The generation granted next is newer than every one granted so far. *)
Newer(g) == \A e \in Engine : engine[e].boot = boot => engine[e].generation < g

GrantsOK ==
  /\ step # "down" => Newer(counter + 1)
  /\ step \in {"preparing", "draining", "qualifying", "deactivating"} =>
       Newer(job.generation) /\ Last(job.candidate)
  /\ step \in {"stoppingPrevious", "restoring"} => Newer(job.generation + 1)
  /\ step = "restoring" => Last(job.restored)
  /\ step = "bootPreparing" => Newer(current.generation) /\ Last(current.owner)

(* An engine that serves, or that died by itself. *)
Serves(e) ==
  /\ e # 0 /\ ~engine[e].expected
  /\ \/ engine[e].state = "active" /\ engine[e].command # "deactivate"
     \/ engine[e].state = "exited"

Shut == {"draining", "fencing"} \cup (Promoting \ {"preparing"}) \cup Restoring

(* What is admitted, or may be when the gate opens, reaches its owner. *)
AdmittedOK ==
  (admission = "open" \/ Active # {} \/ step \in {"preparing", "draining", "qualifying"}
   \/ (step \in Resting /\ ~poisoned /\ ~closing)
   \/ (step = "fencing" /\ ~job.released)) =>
    /\ selected = current.owner /\ Serves(selected)
    /\ disk.selected = current.release /\ disk.generation >= current.generation

(* The gate is shut during a transfer, and whom it would open to. *)
GateOK ==
  /\ step \in Shut => admission # "open" /\ (step = "draining" \/ Active = {})
  /\ (closing \/ step \in Booting \cup {"down"}) => admission = "closed" /\ Active = {}
  /\ step \in Booting \cup {"down"} => ~closing
  /\ step \in Closing => closing
  /\ step \in {"committing", "finishing"} => Serves(job.candidate)
  /\ step = "finishing" => selected = job.candidate
  /\ step = "restoreFinishing" => selected = current.owner /\ Serves(selected)
  /\ step \in Booting =>
       disk.selected = current.release /\ disk.generation = current.generation
  /\ \A r \in Req : req[r].stage = "served" => req[r].at = selected

HandoverInv ==
  /\ HandoverTypeOK /\ HandlersFinishFirst /\ GenerationsIncrease
  /\ \A e \in Engine : EngineOK(e)
  /\ OwnerOK /\ JobOK /\ JournalOK /\ DiskOK /\ HoldersOK /\ AloneOK /\ GrantsOK
  /\ AdmittedOK /\ GateOK

-----------------------------------------------------------------------------
(* Types of what the actions write. *)

Commands == {"none", "activate", "deactivate", "activated", "released", "refused"}

(* Engines are numbered from 1. *)
LEMMA EngineNumbers ==
  /\ Engine \subseteq Nat /\ 0 \notin Engine
  /\ \A n \in 0..MaxEngines : n # 0 => n \in Engine
  /\ \A e \in Engine : e \in 0..MaxEngines
  BY HandoverAssumption DEF Engine

(* A record that was never used. *)
LEMMA UnusedType ==
  /\ Unused \in EngineRecord
  /\ Unused.state = "unused" /\ Unused.release = NoRelease /\ Unused.generation = 0
  /\ Unused.boot = 0 /\ Unused.command = "none" /\ ~Unused.expected
  BY DEF Unused, EngineRecord

(* A command, alone or with the generation it grants. *)
LEMMA CommandTypes ==
  ASSUME HandoverTypeOK, NEW e \in Engine, NEW c \in Commands, NEW g \in Nat,
         \/ engine' = [engine EXCEPT ![e].command = c] /\ g = engine[e].generation
         \/ engine' = [engine EXCEPT ![e].command = c, ![e].generation = g]
  PROVE  /\ engine' \in [Engine -> EngineRecord]
         /\ \A d \in Engine : d # e => engine'[d] = engine[d]
         /\ engine'[e].state = engine[e].state
         /\ engine'[e].release = engine[e].release
         /\ engine'[e].generation = g
         /\ engine'[e].boot = engine[e].boot
         /\ engine'[e].command = c
         /\ engine'[e].expected = engine[e].expected
  <1>. DEFINE r1 == [engine[e] EXCEPT !.command = c]
              r2 == [engine[e] EXCEPT !.command = c, !.generation = g]
  <1>0. engine \in [Engine -> EngineRecord] /\ engine[e] \in EngineRecord
    BY DEF HandoverTypeOK
  <1>1. /\ r1 \in EngineRecord /\ r1.state = engine[e].state
        /\ r1.release = engine[e].release /\ r1.generation = engine[e].generation
        /\ r1.boot = engine[e].boot /\ r1.command = c /\ r1.expected = engine[e].expected
    BY <1>0 DEF EngineRecord, Commands
  <1>2. /\ r2 \in EngineRecord /\ r2.state = engine[e].state
        /\ r2.release = engine[e].release /\ r2.generation = g
        /\ r2.boot = engine[e].boot /\ r2.command = c /\ r2.expected = engine[e].expected
    BY <1>0 DEF EngineRecord, Commands
  <1>3. \/ engine' = [engine EXCEPT ![e] = r1] /\ g = engine[e].generation
        \/ engine' = [engine EXCEPT ![e] = r2]
    OBVIOUS
  <1>. HIDE DEF r1, r2
  <1>. QED
    BY <1>0, <1>1, <1>2, <1>3

(* A worker's state and its answer. *)
Answers(e, s, c) ==
  \/ engine' = [engine EXCEPT ![e].state = s] /\ c = engine[e].command
  \/ engine' = [engine EXCEPT ![e].state = s, ![e].command = c]

(* What is left of its record, and that the others keep theirs. *)
LEMMA StateTypes ==
  ASSUME HandoverTypeOK, NEW e \in Engine, NEW c \in Commands,
         NEW s \in {"starting", "prepared", "active", "partial", "closing", "exited"},
         Answers(e, s, c)
  PROVE  /\ engine' \in [Engine -> EngineRecord]
         /\ \A d \in Engine : d # e => engine'[d] = engine[d]
         /\ engine'[e].state = s
         /\ engine'[e].release = engine[e].release
         /\ engine'[e].generation = engine[e].generation
         /\ engine'[e].boot = engine[e].boot
         /\ engine'[e].command = c
         /\ engine'[e].expected = engine[e].expected
  <1>. DEFINE r1 == [engine[e] EXCEPT !.state = s]
              r2 == [engine[e] EXCEPT !.state = s, !.command = c]
              Post(r) == /\ r \in EngineRecord /\ r.state = s
                         /\ r.release = engine[e].release
                         /\ r.generation = engine[e].generation
                         /\ r.boot = engine[e].boot /\ r.command = c
                         /\ r.expected = engine[e].expected
  <1>0. engine \in [Engine -> EngineRecord] /\ engine[e] \in EngineRecord
    BY DEF HandoverTypeOK
  <1>1. c = engine[e].command => Post(r1)
    BY <1>0 DEF EngineRecord, Commands
  <1>2. Post(r2)
    BY <1>0 DEF EngineRecord, Commands
  <1>3. \/ engine' = [engine EXCEPT ![e] = r1] /\ c = engine[e].command
        \/ engine' = [engine EXCEPT ![e] = r2]
    BY DEF Answers
  <1>. HIDE DEF r1, r2
  <1>. QED
    BY <1>0, <1>1, <1>2, <1>3

(* Discarding changes what is expected, and nothing else. *)
Keeps(es) ==
  /\ engine' \in [Engine -> EngineRecord] /\ boot' = boot
  /\ \A e \in Engine :
       /\ engine'[e].state = engine[e].state /\ engine'[e].release = engine[e].release
       /\ engine'[e].generation = engine[e].generation
       /\ engine'[e].boot = engine[e].boot /\ engine'[e].command = engine[e].command
       /\ e \notin es => engine'[e] = engine[e]

(* discard() marks the engines, which run on until they exit. *)
LEMMA DiscardKeeps ==
  ASSUME HandoverTypeOK, NEW es, engine' = Discarded(es), boot' = boot
  PROVE  Keeps(es)
  <1>. DEFINE r(e) == [engine[e] EXCEPT !.expected = TRUE]
  <1>0. engine \in [Engine -> EngineRecord]
    BY DEF HandoverTypeOK
  <1>1. ASSUME NEW e \in Engine
        PROVE  /\ r(e) \in EngineRecord
               /\ r(e).state = engine[e].state /\ r(e).release = engine[e].release
               /\ r(e).generation = engine[e].generation /\ r(e).boot = engine[e].boot
               /\ r(e).command = engine[e].command
    BY <1>0 DEF EngineRecord
  <1>2. engine' = [e \in Engine |-> IF e \in es THEN r(e) ELSE engine[e]]
    BY DEF Discarded
  <1>. HIDE DEF r
  <1>. QED
    BY <1>0, <1>1, <1>2 DEF Keeps

(* Nothing happens to the engines. *)
LEMMA SameKeeps ==
  ASSUME HandoverTypeOK, engine' = engine, boot' = boot
  PROVE  Keeps({})
  BY DEF HandoverTypeOK, Keeps

(* Starting an engine process. *)
LEMMA SpawnTypes ==
  ASSUME HandoverTypeOK, NEW e \in Engine, NEW release \in Release,
         NEW b \in 0..MaxBoots, engine' = Spawned(e, release, b)
  PROVE  /\ engine' \in [Engine -> EngineRecord]
         /\ \A d \in Engine : d # e => engine'[d] = engine[d]
         /\ engine'[e].state = "starting" /\ engine'[e].release = release
         /\ engine'[e].generation = 0 /\ engine'[e].boot = b
         /\ engine'[e].command = "none" /\ ~engine'[e].expected
  <1>. DEFINE r == [Unused EXCEPT !.state = "starting", !.release = release, !.boot = b]
  <1>0. engine \in [Engine -> EngineRecord]
    BY DEF HandoverTypeOK
  <1>1. b \in Nat /\ Unused \in EngineRecord
    BY UnusedType, HandoverAssumption
  <1>3. r \in EngineRecord /\ r.state = "starting" /\ r.release = release /\ r.boot = b
    BY <1>1 DEF EngineRecord
  <1>4. r.generation = 0 /\ r.command = "none" /\ ~r.expected
    BY <1>1, UnusedType DEF EngineRecord
  <1>2. engine' = [engine EXCEPT ![e] = r]
    BY DEF Spawned
  <1>. HIDE DEF r
  <1>. QED
    BY <1>0, <1>2, <1>3, <1>4

(* What a checkpoint and a commit make of the journal. *)
LEMMA CheckpointTypes ==
  ASSUME memory \in Journal, NEW t \in Transition
  PROVE  /\ Checkpointed(t) \in Journal
         /\ Checkpointed(t).generation = t.generation
         /\ Checkpointed(t).selected = memory.selected
         /\ Checkpointed(t).transition = t
  BY DEF Checkpointed, Journal, Transition

(* What a commit writes: the journal with a release and its generation. *)
LEMMA CommitTypes ==
  ASSUME memory \in Journal, NEW release \in Release, NEW g \in Nat
  PROVE  /\ Committed(release, g) \in Journal
         /\ Committed(release, g).generation = g
         /\ Committed(release, g).selected = release
         /\ Committed(release, g).transition = memory.transition
  BY DEF Committed, Journal

(* What recovery writes: a newer generation without a transition. *)
LEMMA RecoveredTypes ==
  ASSUME disk \in Journal, NEW release \in Release
  PROVE  /\ Recovered(release) \in Journal
         /\ Recovered(release).generation = disk.generation + 1
         /\ Recovered(release).selected = release
         /\ Recovered(release).transition = NoTransition
  BY DEF Recovered, Journal

(* A journal that was never written holds no transition. *)
LEMMA EmptyTypes ==
  /\ Empty \in Journal
  /\ NoTransition \notin Transition /\ NoTransition.phase = "none"
  BY JournalAssumption DEF Empty, Journal, NoTransition, Transition, Phase

(* A write that reports failure: each copy is the old one or the new one. *)
LEMMA FailedCheckpoint ==
  ASSUME NEW t, CheckpointFails(t)
  PROVE  disk' \in {disk, Checkpointed(t)} /\ memory' \in {memory, Checkpointed(t)}
  BY DEF CheckpointFails, WriteFails, journalVars

(* The same for a commit that reports failure. *)
LEMMA FailedCommit ==
  ASSUME NEW release, NEW g, CommitFails(release, g)
  PROVE  /\ disk' \in {disk, Committed(release, g)}
         /\ memory' \in {memory, Committed(release, g)}
  BY DEF CommitFails, WriteFails, journalVars

(* The transition the controller writes. *)
LEMMA RecordTypes ==
  ASSUME current.release \in Release, job.target \in Release,
         NEW phase \in Phase, NEW g \in Nat
  PROVE  /\ Record(phase, g) \in Transition /\ Record(phase, g) # NoTransition
         /\ Record(phase, g).phase = phase /\ Record(phase, g).generation = g
         /\ Record(phase, g).previous = current.release
         /\ Record(phase, g).target = job.target
  BY EmptyTypes DEF Record, Transition

(* The controller without a job, and without an owner. *)
LEMMA NoJobTypes ==
  /\ NoJob \in [target : Release \cup {NoRelease}, candidate : 0..MaxEngines,
                generation : Nat, released : BOOLEAN, restored : 0..MaxEngines]
  /\ ~NoJob.released
  /\ NoOwner \in [release : Release \cup {NoRelease}, owner : 0..MaxEngines,
                  generation : Nat]
  /\ NoRequest \in RequestRecord /\ NoRequest.stage = "idle" /\ NoRequest.at = 0
  BY HandoverAssumption DEF NoJob, NoOwner, NoRequest, RequestRecord

(* When the sockets are gone no request is admitted. *)
LEMMA DisconnectedTypes ==
  ASSUME HandoverTypeOK, req' = Disconnected
  PROVE  /\ req' \in [Req -> RequestRecord] /\ Active' = {}
         /\ \A r \in Req : /\ req'[r].at \in {0, req[r].at}
                           /\ req'[r].at # 0 <=> req'[r].stage \in {"served", "orphaned"}
                           /\ req'[r].stage # "served"
  <1>. DEFINE o(r) == [req[r] EXCEPT !.stage = "orphaned"]
  <1>1. \A r \in Req : o(r) \in RequestRecord /\ o(r).at = req[r].at /\ o(r).stage = "orphaned"
    BY DEF HandoverTypeOK, RequestRecord
  <1>2. req' = [r \in Req |-> IF req[r].at = 0 THEN NoRequest ELSE o(r)]
    BY DEF Disconnected
  <1>. HIDE DEF o
  <1>3. \A r \in Req : req'[r] = IF req[r].at = 0 THEN NoRequest ELSE o(r)
    BY <1>2
  <1>4. \A r \in Req : req'[r].stage \in {"idle", "orphaned"}
    BY <1>1, <1>3, NoJobTypes
  <1>5. Active' = {}
    BY <1>4 DEF Active
  <1>. QED
    BY <1>1, <1>2, <1>3, <1>4, <1>5, NoJobTypes

-----------------------------------------------------------------------------
(* Frames: what a change of the engines leaves standing. *)

(* Discarding used engines, or nothing. *)
LEMMA KeepsFrame ==
  ASSUME HandoverInv, NEW es, Keeps(es), \A e \in Engine : e \in es => Used(e)
  PROVE  /\ \A e \in Engine : EngineOK(e)'
         /\ AloneOK' /\ GenerationsIncrease'
         /\ \A e \in Engine : /\ Used(e)' <=> Used(e)
                              /\ Alive(e)' <=> Alive(e)
                              /\ Known(e)' <=> Known(e)
                              /\ Quiet(e)' <=> Quiet(e)
                              /\ OwnsStores(e)' <=> OwnsStores(e)
                              /\ Last(e) => Last(e)'
  <1>1. \A e \in Engine : /\ Used(e)' <=> Used(e)
                          /\ Alive(e)' <=> Alive(e)
                          /\ Known(e)' <=> Known(e)
                          /\ Quiet(e)' <=> Quiet(e)
                          /\ OwnsStores(e)' <=> OwnsStores(e)
    BY DEF Keeps, Used, Alive, Known, Quiet, OwnsStores
  <1>2. \A e \in Engine : engine[e] = Unused => engine'[e] = Unused
    BY UnusedType DEF Keeps, Used
  <1>3. \A e \in Engine : Last(e) => Last(e)'
    BY <1>2 DEF Last
  <1>4. ASSUME NEW e \in Engine PROVE EngineOK(e)'
    <2>1. EngineOK(e)
      BY DEF HandoverInv
    <2>2. /\ engine'[e].command = "released" => engine'[e].state = "prepared"
          /\ engine'[e].command = "activated" => engine'[e].state = "active"
          /\ engine'[e].boot <= boot'
      BY <2>1 DEF EngineOK, Keeps
    <2>3. engine'[e].state = "unused" => engine'[e] = Unused
      BY <2>1, <1>2 DEF EngineOK, Keeps
    <2>4. \A d \in Engine : (d < e /\ Used(e)') => Used(d)'
      BY <2>1, <1>1 DEF EngineOK
    <2>. QED
      BY <2>2, <2>3, <2>4 DEF EngineOK
  <1>5. AloneOK'
    BY <1>1 DEF HandoverInv, AloneOK, Keeps
  <1>6. GenerationsIncrease'
    BY DEF HandoverInv, GenerationsIncrease, Keeps
  <1>. QED
    BY <1>1, <1>3, <1>4, <1>5, <1>6

(* No handler appears, and no engine gives up its stores. *)
LEMMA HandlersFrame ==
  ASSUME HandoverInv, NEW es, Keeps(es),
         \A r \in Req : req'[r].at = req[r].at \/ req'[r].at = 0
  PROVE  HandlersFinishFirst'
  <1>1. \A e \in Engine : Handlers(e)' # {} => Handlers(e) # {}
    BY EngineNumbers DEF Handlers
  <1>2. \A e \in Engine : OwnsStores(e)' <=> OwnsStores(e)
    BY DEF Keeps, OwnsStores
  <1>. QED
    BY <1>1, <1>2 DEF HandoverInv, HandlersFinishFirst

(* Every generation granted is older than the next one, and stays so. *)
LEMMA GenerationsBelow ==
  ASSUME HandoverInv, step # "down", NEW e \in Engine, engine[e].boot = boot
  PROVE  /\ engine[e].generation \in Nat /\ counter \in Nat
         /\ engine[e].generation < counter + 1 /\ engine[e].generation < counter + 2
  <1>1. engine[e].generation \in Nat /\ counter \in Nat
    BY DEF HandoverInv, HandoverTypeOK, EngineRecord
  <1>2. engine[e].generation < counter + 1
    BY DEF HandoverInv, GrantsOK, Newer
  <1>. QED
    BY <1>1, <1>2

(* Handlers end before their engine gives up the stores. *)
LEMMA HandlersStay ==
  ASSUME HandoverInv,
         \A r \in Req : req'[r].at = req[r].at \/ req'[r].at = 0,
         \A e \in Engine : OwnsStores(e) => OwnsStores(e)' \/ Handlers(e)' = {}
  PROVE  HandlersFinishFirst'
  <1>1. \A e \in Engine : Handlers(e)' # {} => Handlers(e) # {}
    BY EngineNumbers DEF Handlers
  <1>. QED
    BY <1>1 DEF HandoverInv, HandlersFinishFirst

(* One engine changes. *)
Changes(e) ==
  /\ engine' \in [Engine -> EngineRecord] /\ boot' = boot
  /\ \A d \in Engine : d # e => engine'[d] = engine[d]
  /\ engine'[e].release = engine[e].release /\ engine'[e].boot = engine[e].boot
  /\ engine'[e].expected = engine[e].expected

(* An engine is asked to release. *)
LEMMA AskFrame ==
  ASSUME HandoverInv, NEW e \in Engine, Used(e), boot' = boot,
         engine' = [engine EXCEPT ![e].command = "deactivate"],
         \A r \in Req : req'[r].at = req[r].at \/ req'[r].at = 0
  PROVE  /\ Changes(e) /\ engine'[e].state = engine[e].state
         /\ engine'[e].generation = engine[e].generation
         /\ engine'[e].command = "deactivate"
         /\ (\A d \in Engine : EngineOK(d)') /\ AloneOK' /\ GenerationsIncrease'
         /\ HandlersFinishFirst'
  <1>1. /\ Changes(e) /\ engine'[e].state = engine[e].state
        /\ engine'[e].generation = engine[e].generation /\ engine'[e].command = "deactivate"
    <2>1. "deactivate" \in Commands /\ engine[e].generation \in Nat
      BY DEF HandoverInv, HandoverTypeOK, EngineRecord, Commands
    <2>2. HandoverTypeOK
      BY DEF HandoverInv
    <2>3. /\ engine' \in [Engine -> EngineRecord]
          /\ \A d \in Engine : d # e => engine'[d] = engine[d]
          /\ engine'[e].state = engine[e].state
          /\ engine'[e].release = engine[e].release
          /\ engine'[e].generation = engine[e].generation
          /\ engine'[e].boot = engine[e].boot
          /\ engine'[e].command = "deactivate"
          /\ engine'[e].expected = engine[e].expected
      BY <2>1, <2>2, CommandTypes
    <2>. QED
      BY <2>3 DEF Changes
  <1>2. \A d \in Engine : EngineOK(d)'
    BY <1>1 DEF HandoverInv, EngineOK, Changes, Used
  <1>3. AloneOK'
    BY <1>1 DEF HandoverInv, AloneOK, Changes, Known, Alive, Quiet, OwnsStores
  <1>4. GenerationsIncrease'
    BY <1>1 DEF HandoverInv, GenerationsIncrease, Changes
  <1>5. \A d \in Engine : OwnsStores(d) => OwnsStores(d)'
    BY <1>1 DEF OwnsStores, Changes
  <1>. QED
    BY <1>1, <1>2, <1>3, <1>4, <1>5, HandlersStay

(* The last engine is told to open the stores, at a new generation, when no *)
(* other engine of the host owns them or will.                              *)
LEMMA GrantFrame ==
  ASSUME HandoverInv, NEW e \in Engine, Used(e), engine[e].boot = boot,
         NEW g \in Nat, Newer(g), Last(e), OnlyHolds({e}), boot' = boot, req' = req,
         engine' = [engine EXCEPT ![e].command = "activate", ![e].generation = g]
  PROVE  /\ Changes(e) /\ engine'[e].state = engine[e].state
         /\ engine'[e].generation = g /\ engine'[e].command = "activate"
         /\ (\A d \in Engine : EngineOK(d)') /\ AloneOK' /\ GenerationsIncrease'
         /\ HandlersFinishFirst'
  <1>1. /\ Changes(e) /\ engine'[e].state = engine[e].state
        /\ engine'[e].generation = g /\ engine'[e].command = "activate"
    <2>1. "activate" \in Commands
      BY DEF Commands
    <2>2. HandoverTypeOK
      BY DEF HandoverInv
    <2>3. /\ engine' \in [Engine -> EngineRecord]
          /\ \A d \in Engine : d # e => engine'[d] = engine[d]
          /\ engine'[e].state = engine[e].state
          /\ engine'[e].release = engine[e].release
          /\ engine'[e].generation = g
          /\ engine'[e].boot = engine[e].boot
          /\ engine'[e].command = "activate"
          /\ engine'[e].expected = engine[e].expected
      BY <2>1, <2>2, CommandTypes
    <2>. QED
      BY <2>3 DEF Changes
  <1>2. \A d \in Engine : EngineOK(d)'
    BY <1>1 DEF HandoverInv, EngineOK, Changes, Used
  <1>3. AloneOK'
    BY <1>1 DEF HandoverInv, AloneOK, Changes, OnlyHolds, Known, Alive, Quiet, OwnsStores
  <1>4. GenerationsIncrease'
    <2>1. \A d \in Engine : d > e => engine'[d].generation = 0
      BY <1>1, UnusedType, EngineNumbers DEF Last, Changes
    <2>2. \A d \in Engine : (d # e /\ engine'[d].boot = boot) => engine'[d].generation < g
      BY <1>1 DEF Newer, Changes
    <2>. QED
      BY <1>1, <2>1, <2>2, EngineNumbers
         DEF HandoverInv, GenerationsIncrease, Changes
  <1>5. \A d \in Engine : OwnsStores(d) => OwnsStores(d)'
    BY <1>1 DEF OwnsStores, Changes
  <1>. QED
    BY <1>1, <1>2, <1>3, <1>4, <1>5, HandlersStay

-----------------------------------------------------------------------------
(* The steps that leave engines and journal alone. *)

(* The requests of the paused gate are gone. *)
LEMMA DrainedKeeps ==
  ASSUME HandoverInv, Drained
  PROVE  HandoverInv'
  <1>. USE DEF Drained, hostVars, journalVars
  <1>1. Keeps({})
    BY SameKeeps DEF HandoverInv
  <1>2. HandlersFinishFirst'
    BY <1>1, HandlersFrame
  <1>3. (\A e \in Engine : EngineOK(e)') /\ AloneOK' /\ GenerationsIncrease'
    BY <1>1, KeepsFrame
  <1>4. HandoverTypeOK'
    BY DEF HandoverInv, HandoverTypeOK, Step, Updating, Booting, Closing
  <1>5. OwnerOK' /\ JobOK' /\ JournalOK' /\ DiskOK'
    BY DEF HandoverInv, OwnerOK, Used, JobOK, Replacing, Updating, Promoting,
           Restoring, Booting, JournalOK, JournalAt, Moving, Resting, Closing, DiskOK
  <1>6. HoldersOK' /\ GrantsOK'
    <2>1. HoldersOK'
      BY DEF HandoverInv, HoldersOK, OnlyHolds, Known, Alive, Quiet, OwnsStores, Resting,
         Closing
    <2>2. GrantsOK'
      BY DEF HandoverInv, GrantsOK, Newer, Last
    <2>. QED
      BY <2>1, <2>2
  <1>7. AdmittedOK' /\ GateOK'
    BY DEF HandoverInv, AdmittedOK, GateOK, Active, Serves, Resting, Closing, Shut,
           Promoting, Restoring, Booting
  <1>. QED
    BY <1>2, <1>3, <1>4, <1>5, <1>6, <1>7 DEF HandoverInv

(* Replacing by the running release. *)
LEMMA ReplaceSameKeeps ==
  ASSUME HandoverInv, ReplaceSame
  PROVE  HandoverInv'
  <1>. USE DEF ReplaceSame, hostVars, journalVars
  <1>1. Keeps({})
    BY SameKeeps DEF HandoverInv
  <1>2. HandlersFinishFirst'
    BY <1>1, HandlersFrame
  <1>3. (\A e \in Engine : EngineOK(e)') /\ AloneOK' /\ GenerationsIncrease'
    BY <1>1, KeepsFrame
  <1>4. HandoverTypeOK'
    BY DEF HandoverInv, HandoverTypeOK, Step, Updating, Booting, Closing
  <1>5. OwnerOK' /\ JobOK' /\ JournalOK' /\ DiskOK'
    BY DEF HandoverInv, OwnerOK, Used, JobOK, Replacing, Updating, Promoting,
           Restoring, Booting, JournalOK, JournalAt, Moving, Resting, Closing, DiskOK
  <1>6. HoldersOK' /\ GrantsOK'
    <2>1. HoldersOK'
      BY DEF HandoverInv, HoldersOK, OnlyHolds, Known, Alive, Quiet, OwnsStores, Resting,
         Closing
    <2>2. GrantsOK'
      BY DEF HandoverInv, GrantsOK, Newer, Last
    <2>. QED
      BY <2>1, <2>2
  <1>7. AdmittedOK' /\ GateOK'
    BY DEF HandoverInv, AdmittedOK, GateOK, Active, Serves, Resting, Closing, Shut,
           Promoting, Restoring, Booting
  <1>. QED
    BY <1>2, <1>3, <1>4, <1>5, <1>6, <1>7 DEF HandoverInv

(* The candidate could not be prepared. *)
LEMMA PrepareFailsKeeps ==
  ASSUME HandoverInv, PrepareFails
  PROVE  HandoverInv'
  <1>. USE DEF PrepareFails, hostVars, journalVars
  <1>1. Keeps({})
    BY SameKeeps DEF HandoverInv
  <1>2. HandlersFinishFirst'
    BY <1>1, HandlersFrame
  <1>3. (\A e \in Engine : EngineOK(e)') /\ AloneOK' /\ GenerationsIncrease'
    BY <1>1, KeepsFrame
  <1>4. HandoverTypeOK'
    BY NoJobTypes DEF HandoverInv, HandoverTypeOK, Step, Updating, Booting, Closing
  <1>5. OwnerOK' /\ JobOK' /\ JournalOK' /\ DiskOK'
    BY DEF HandoverInv, OwnerOK, Used, JobOK, Replacing, Updating, Promoting,
           Restoring, Booting, JournalOK, JournalAt, Moving, Resting, Closing, DiskOK
  <1>6. HoldersOK' /\ GrantsOK'
    <2>1. HoldersOK'
      BY DEF HandoverInv, HoldersOK, OnlyHolds, Known, Alive, Quiet, OwnsStores, Resting,
         Closing
    <2>2. GrantsOK'
      BY DEF HandoverInv, GrantsOK, Newer, Last
    <2>. QED
      BY <2>1, <2>2
  <1>7. AdmittedOK' /\ GateOK'
    BY DEF HandoverInv, AdmittedOK, GateOK, Active, Serves, Resting, Closing, Shut,
           Promoting, Restoring, Booting
  <1>. QED
    BY <1>2, <1>3, <1>4, <1>5, <1>6, <1>7 DEF HandoverInv

(* The candidate may run on: recovery is due. *)
LEMMA FenceFailsKeeps ==
  ASSUME HandoverInv, FenceFails
  PROVE  HandoverInv'
  <1>. USE DEF FenceFails, Resume, hostVars, journalVars
  <1>1. Keeps({})
    BY SameKeeps DEF HandoverInv
  <1>2. HandlersFinishFirst'
    BY <1>1, HandlersFrame
  <1>3. (\A e \in Engine : EngineOK(e)') /\ AloneOK' /\ GenerationsIncrease'
    BY <1>1, KeepsFrame
  <1>4. HandoverTypeOK'
    BY DEF HandoverInv, HandoverTypeOK, Step, Updating, Booting, Closing
  <1>5. OwnerOK' /\ JobOK' /\ JournalOK' /\ DiskOK'
    BY DEF HandoverInv, OwnerOK, Used, JobOK, Replacing, Updating, Promoting,
           Restoring, Booting, JournalOK, JournalAt, Moving, Resting, Closing, DiskOK
  <1>6. HoldersOK' /\ GrantsOK'
    <2>1. HoldersOK'
      BY DEF HandoverInv, HoldersOK, OnlyHolds, Known, Alive, Quiet, OwnsStores, Resting,
         Closing
    <2>2. GrantsOK'
      BY DEF HandoverInv, GrantsOK, Newer, Last
    <2>. QED
      BY <2>1, <2>2
  <1>7. AdmittedOK' /\ GateOK'
    BY DEF HandoverInv, AdmittedOK, GateOK, Active, Serves, Resting, Closing, Shut,
           Promoting, Restoring, Booting
  <1>. QED
    BY <1>2, <1>3, <1>4, <1>5, <1>6, <1>7 DEF HandoverInv

(* The end of an aborted attempt. *)
LEMMA CleanedKeeps ==
  ASSUME HandoverInv, Cleaned
  PROVE  HandoverInv'
  <1>. USE DEF Cleaned, Pause, hostVars, journalVars
  <1>1. Keeps({})
    BY SameKeeps DEF HandoverInv
  <1>2. HandlersFinishFirst'
    BY <1>1, HandlersFrame
  <1>3. (\A e \in Engine : EngineOK(e)') /\ AloneOK' /\ GenerationsIncrease'
    BY <1>1, KeepsFrame
  <1>4. HandoverTypeOK'
    BY NoJobTypes DEF HandoverInv, HandoverTypeOK, Step, Updating, Booting, Closing
  <1>5. OwnerOK' /\ JobOK' /\ JournalOK' /\ DiskOK'
    BY DEF HandoverInv, OwnerOK, Used, JobOK, Replacing, Updating, Promoting,
           Restoring, Booting, JournalOK, JournalAt, Moving, Resting, Closing, DiskOK
  <1>6. HoldersOK' /\ GrantsOK'
    <2>1. HoldersOK'
      BY DEF HandoverInv, HoldersOK, OnlyHolds, Known, Alive, Quiet, OwnsStores, Resting,
         Closing
    <2>2. GrantsOK'
      BY DEF HandoverInv, GrantsOK, Newer, Last
    <2>. QED
      BY <2>1, <2>2
  <1>7. AdmittedOK' /\ GateOK'
    BY DEF HandoverInv, AdmittedOK, GateOK, Active, Serves, Resting, Closing, Shut,
           Promoting, Restoring, Booting
  <1>. QED
    BY <1>2, <1>3, <1>4, <1>5, <1>6, <1>7 DEF HandoverInv

(* The retirement of the rest is over. *)
LEMMA RetiredKeeps ==
  ASSUME HandoverInv, Retired
  PROVE  HandoverInv'
  <1>. USE DEF Retired, hostVars, journalVars
  <1>1. Keeps({})
    BY SameKeeps DEF HandoverInv
  <1>2. HandlersFinishFirst'
    BY <1>1, HandlersFrame
  <1>3. (\A e \in Engine : EngineOK(e)') /\ AloneOK' /\ GenerationsIncrease'
    BY <1>1, KeepsFrame
  <1>4. HandoverTypeOK'
    BY DEF HandoverInv, HandoverTypeOK, Step, Updating, Booting, Closing
  <1>5. OwnerOK' /\ JobOK' /\ JournalOK' /\ DiskOK'
    BY DEF HandoverInv, OwnerOK, Used, JobOK, Replacing, Updating, Promoting,
           Restoring, Booting, JournalOK, JournalAt, Moving, Resting, Closing, DiskOK
  <1>6. HoldersOK' /\ GrantsOK'
    <2>1. HoldersOK'
      BY DEF HandoverInv, HoldersOK, OnlyHolds, Known, Alive, Quiet, OwnsStores, Resting,
         Closing
    <2>2. GrantsOK'
      BY DEF HandoverInv, GrantsOK, Newer, Last
    <2>. QED
      BY <2>1, <2>2
  <1>7. AdmittedOK' /\ GateOK'
    BY DEF HandoverInv, AdmittedOK, GateOK, Active, Serves, Resting, Closing, Shut,
           Promoting, Restoring, Booting
  <1>. QED
    BY <1>2, <1>3, <1>4, <1>5, <1>6, <1>7 DEF HandoverInv

(* A shutdown that can be retried. *)
LEMMA CloseFailsKeeps ==
  ASSUME HandoverInv, CloseFails
  PROVE  HandoverInv'
  <1>. USE DEF CloseFails, Closing, hostVars, journalVars
  <1>1. Keeps({})
    BY SameKeeps DEF HandoverInv
  <1>2. HandlersFinishFirst'
    BY <1>1, HandlersFrame
  <1>3. (\A e \in Engine : EngineOK(e)') /\ AloneOK' /\ GenerationsIncrease'
    BY <1>1, KeepsFrame
  <1>4. HandoverTypeOK'
    BY DEF HandoverInv, HandoverTypeOK, Step, Updating, Booting, Closing
  <1>5. OwnerOK' /\ JobOK' /\ JournalOK' /\ DiskOK'
    BY DEF HandoverInv, OwnerOK, Used, JobOK, Replacing, Updating, Promoting,
           Restoring, Booting, JournalOK, JournalAt, Moving, Resting, Closing, DiskOK
  <1>6. HoldersOK' /\ GrantsOK'
    <2>1. HoldersOK'
      BY DEF HandoverInv, HoldersOK, OnlyHolds, Known, Alive, Quiet, OwnsStores, Resting,
         Closing
    <2>2. GrantsOK'
      BY DEF HandoverInv, GrantsOK, Newer, Last
    <2>. QED
      BY <2>1, <2>2
  <1>7. AdmittedOK' /\ GateOK'
    BY DEF HandoverInv, AdmittedOK, GateOK, Active, Serves, Resting, Closing, Shut,
           Promoting, Restoring, Booting
  <1>. QED
    BY <1>2, <1>3, <1>4, <1>5, <1>6, <1>7 DEF HandoverInv

(* The recovered engine serves. *)
LEMMA BootActiveKeeps ==
  ASSUME HandoverInv, BootActive
  PROVE  HandoverInv'
  <1>. USE DEF BootActive, hostVars, journalVars
  <1>1. /\ disk.selected = current.release /\ disk.generation = current.generation
        /\ current.generation \in Nat /\ Active = {}
    BY DEF HandoverInv, HandoverTypeOK, GateOK, Booting
  <1>2. Serves(current.owner)
    BY EngineNumbers DEF HandoverInv, OwnerOK, JobOK, EngineOK, Serves, Booting
  <1>3. Keeps({})
    BY SameKeeps DEF HandoverInv
  <1>4. HandlersFinishFirst'
    BY <1>3, HandlersFrame
  <1>5. (\A e \in Engine : EngineOK(e)') /\ AloneOK' /\ GenerationsIncrease'
    BY <1>3, KeepsFrame
  <1>6. HandoverTypeOK'
    BY DEF HandoverInv, HandoverTypeOK, Step, Updating, Booting, Closing
  <1>7. OwnerOK' /\ JobOK' /\ JournalOK' /\ DiskOK'
    BY DEF HandoverInv, OwnerOK, Used, JobOK, Replacing, Updating, Promoting,
           Restoring, Booting, JournalOK, JournalAt, Moving, Resting, Closing, DiskOK
  <1>8. HoldersOK' /\ GrantsOK'
    <2>1. HoldersOK'
      BY DEF HandoverInv, HoldersOK, OnlyHolds, Known, Alive, Quiet, OwnsStores, Resting,
         Closing
    <2>2. GrantsOK'
      BY DEF HandoverInv, GrantsOK, Newer, Last
    <2>. QED
      BY <2>1, <2>2
  <1>9. AdmittedOK'
    BY <1>2, <1>1
       DEF HandoverInv, AdmittedOK, GateOK, Active, Serves, Resting, Closing, Shut,
           Promoting, Restoring, Booting, OwnerOK
  <1>10. GateOK'
    BY <1>2
       DEF HandoverInv, GateOK, Active, Serves, Shut, Closing, Promoting, Restoring,
           Booting
  <1>. QED
    BY <1>4, <1>5, <1>6, <1>7, <1>8, <1>9, <1>10 DEF HandoverInv

(* A request arrives. *)
LEMMA ArriveKeeps ==
  ASSUME HandoverInv, NEW r \in Req, Arrive(r)
  PROVE  HandoverInv'
  <1>. USE DEF Arrive, hostVars, journalVars
  <1>1. req' \in [Req -> RequestRecord]
    BY NoJobTypes DEF HandoverInv, HandoverTypeOK, RequestRecord
  <1>2. \A q \in Req : /\ req'[q].at = req[q].at \/ req'[q].at = 0
                       /\ req'[q].stage = "served" =>
                            req[q].stage = "served" /\ req'[q].at = req[q].at
                       /\ req'[q].stage \in {"served", "orphaned"} <=> req'[q].at # 0
    BY NoJobTypes DEF HandoverInv, HandoverTypeOK, RequestRecord
  <1>3. admission = "open" \/ Active' \subseteq Active
    BY NoJobTypes DEF HandoverInv, HandoverTypeOK, RequestRecord, Active
  <1>4. Keeps({})
    BY SameKeeps DEF HandoverInv
  <1>5. HandlersFinishFirst'
    BY <1>4, <1>2, HandlersFrame
  <1>6. (\A e \in Engine : EngineOK(e)') /\ AloneOK' /\ GenerationsIncrease'
    BY <1>4, KeepsFrame
  <1>7. HandoverTypeOK'
    BY <1>1, <1>2 DEF HandoverInv, HandoverTypeOK, Step, Updating, Booting, Closing
  <1>8. OwnerOK' /\ JobOK' /\ JournalOK' /\ DiskOK'
    BY DEF HandoverInv, OwnerOK, Used, JobOK, Replacing, Updating, Promoting,
           Restoring, Booting, JournalOK, JournalAt, Moving, Resting, Closing, DiskOK
  <1>9. HoldersOK' /\ GrantsOK'
    <2>1. HoldersOK'
      BY DEF HandoverInv, HoldersOK, OnlyHolds, Known, Alive, Quiet, OwnsStores, Resting,
         Closing
    <2>2. GrantsOK'
      BY DEF HandoverInv, GrantsOK, Newer, Last
    <2>. QED
      BY <2>1, <2>2
  <1>10. AdmittedOK'
    BY <1>3
       DEF HandoverInv, AdmittedOK, GateOK, Active, Serves, Resting, Closing, Shut,
           Promoting, Restoring, Booting
  <1>11. GateOK'
    BY <1>2, <1>3
       DEF HandoverInv, GateOK, Active, Serves, Shut, Closing, Promoting, Restoring,
           Booting
  <1>. QED
    BY <1>5, <1>6, <1>7, <1>8, <1>9, <1>10, <1>11 DEF HandoverInv

(* A queued request is admitted. *)
LEMMA ReenterKeeps ==
  ASSUME HandoverInv, NEW r \in Req, Reenter(r)
  PROVE  HandoverInv'
  <1>. USE DEF Reenter, hostVars, journalVars
  <1>1. req' \in [Req -> RequestRecord]
    BY NoJobTypes DEF HandoverInv, HandoverTypeOK, RequestRecord
  <1>2. \A q \in Req : /\ req'[q].at = req[q].at \/ req'[q].at = 0
                       /\ req'[q].stage = "served" =>
                            req[q].stage = "served" /\ req'[q].at = req[q].at
                       /\ req'[q].stage \in {"served", "orphaned"} <=> req'[q].at # 0
    BY NoJobTypes DEF HandoverInv, HandoverTypeOK, RequestRecord
  <1>3. admission = "open" \/ Active' \subseteq Active
    BY NoJobTypes DEF HandoverInv, HandoverTypeOK, RequestRecord, Active
  <1>4. Keeps({})
    BY SameKeeps DEF HandoverInv
  <1>5. HandlersFinishFirst'
    BY <1>4, <1>2, HandlersFrame
  <1>6. (\A e \in Engine : EngineOK(e)') /\ AloneOK' /\ GenerationsIncrease'
    BY <1>4, KeepsFrame
  <1>7. HandoverTypeOK'
    BY <1>1, <1>2 DEF HandoverInv, HandoverTypeOK, Step, Updating, Booting, Closing
  <1>8. OwnerOK' /\ JobOK' /\ JournalOK' /\ DiskOK'
    BY DEF HandoverInv, OwnerOK, Used, JobOK, Replacing, Updating, Promoting,
           Restoring, Booting, JournalOK, JournalAt, Moving, Resting, Closing, DiskOK
  <1>9. HoldersOK' /\ GrantsOK'
    <2>1. HoldersOK'
      BY DEF HandoverInv, HoldersOK, OnlyHolds, Known, Alive, Quiet, OwnsStores, Resting,
         Closing
    <2>2. GrantsOK'
      BY DEF HandoverInv, GrantsOK, Newer, Last
    <2>. QED
      BY <2>1, <2>2
  <1>10. AdmittedOK'
    BY <1>3
       DEF HandoverInv, AdmittedOK, GateOK, Active, Serves, Resting, Closing, Shut,
           Promoting, Restoring, Booting
  <1>11. GateOK'
    BY <1>2, <1>3
       DEF HandoverInv, GateOK, Active, Serves, Shut, Closing, Promoting, Restoring,
           Booting
  <1>. QED
    BY <1>5, <1>6, <1>7, <1>8, <1>9, <1>10, <1>11 DEF HandoverInv

(* A client leaves. *)
LEMMA ClientLeavesKeeps ==
  ASSUME HandoverInv, NEW r \in Req, ClientLeaves(r)
  PROVE  HandoverInv'
  <1>. USE DEF ClientLeaves, hostVars, journalVars
  <1>1. req' \in [Req -> RequestRecord]
    BY NoJobTypes DEF HandoverInv, HandoverTypeOK, RequestRecord
  <1>2. \A q \in Req : /\ req'[q].at = req[q].at \/ req'[q].at = 0
                       /\ req'[q].stage = "served" =>
                            req[q].stage = "served" /\ req'[q].at = req[q].at
                       /\ req'[q].stage \in {"served", "orphaned"} <=> req'[q].at # 0
    BY NoJobTypes DEF HandoverInv, HandoverTypeOK, RequestRecord
  <1>3. admission = "open" \/ Active' \subseteq Active
    BY NoJobTypes DEF HandoverInv, HandoverTypeOK, RequestRecord, Active
  <1>4. Keeps({})
    BY SameKeeps DEF HandoverInv
  <1>5. HandlersFinishFirst'
    BY <1>4, <1>2, HandlersFrame
  <1>6. (\A e \in Engine : EngineOK(e)') /\ AloneOK' /\ GenerationsIncrease'
    BY <1>4, KeepsFrame
  <1>7. HandoverTypeOK'
    BY <1>1, <1>2 DEF HandoverInv, HandoverTypeOK, Step, Updating, Booting, Closing
  <1>8. OwnerOK' /\ JobOK' /\ JournalOK' /\ DiskOK'
    BY DEF HandoverInv, OwnerOK, Used, JobOK, Replacing, Updating, Promoting,
           Restoring, Booting, JournalOK, JournalAt, Moving, Resting, Closing, DiskOK
  <1>9. HoldersOK' /\ GrantsOK'
    <2>1. HoldersOK'
      BY DEF HandoverInv, HoldersOK, OnlyHolds, Known, Alive, Quiet, OwnsStores, Resting,
         Closing
    <2>2. GrantsOK'
      BY DEF HandoverInv, GrantsOK, Newer, Last
    <2>. QED
      BY <2>1, <2>2
  <1>10. AdmittedOK'
    BY <1>3
       DEF HandoverInv, AdmittedOK, GateOK, Active, Serves, Resting, Closing, Shut,
           Promoting, Restoring, Booting
  <1>11. GateOK'
    BY <1>2, <1>3
       DEF HandoverInv, GateOK, Active, Serves, Shut, Closing, Promoting, Restoring,
           Booting
  <1>. QED
    BY <1>5, <1>6, <1>7, <1>8, <1>9, <1>10, <1>11 DEF HandoverInv

(* A handler ends. *)
LEMMA HandlerEndsKeeps ==
  ASSUME HandoverInv, NEW r \in Req, HandlerEnds(r)
  PROVE  HandoverInv'
  <1>. USE DEF HandlerEnds, hostVars, journalVars
  <1>1. req' \in [Req -> RequestRecord]
    BY NoJobTypes DEF HandoverInv, HandoverTypeOK, RequestRecord
  <1>2. \A q \in Req : /\ req'[q].at = req[q].at \/ req'[q].at = 0
                       /\ req'[q].stage = "served" =>
                            req[q].stage = "served" /\ req'[q].at = req[q].at
                       /\ req'[q].stage \in {"served", "orphaned"} <=> req'[q].at # 0
    BY NoJobTypes DEF HandoverInv, HandoverTypeOK, RequestRecord
  <1>3. admission = "open" \/ Active' \subseteq Active
    BY NoJobTypes DEF HandoverInv, HandoverTypeOK, RequestRecord, Active
  <1>4. Keeps({})
    BY SameKeeps DEF HandoverInv
  <1>5. HandlersFinishFirst'
    BY <1>4, <1>2, HandlersFrame
  <1>6. (\A e \in Engine : EngineOK(e)') /\ AloneOK' /\ GenerationsIncrease'
    BY <1>4, KeepsFrame
  <1>7. HandoverTypeOK'
    BY <1>1, <1>2 DEF HandoverInv, HandoverTypeOK, Step, Updating, Booting, Closing
  <1>8. OwnerOK' /\ JobOK' /\ JournalOK' /\ DiskOK'
    BY DEF HandoverInv, OwnerOK, Used, JobOK, Replacing, Updating, Promoting,
           Restoring, Booting, JournalOK, JournalAt, Moving, Resting, Closing, DiskOK
  <1>9. HoldersOK' /\ GrantsOK'
    <2>1. HoldersOK'
      BY DEF HandoverInv, HoldersOK, OnlyHolds, Known, Alive, Quiet, OwnsStores, Resting,
         Closing
    <2>2. GrantsOK'
      BY DEF HandoverInv, GrantsOK, Newer, Last
    <2>. QED
      BY <2>1, <2>2
  <1>10. AdmittedOK'
    BY <1>3
       DEF HandoverInv, AdmittedOK, GateOK, Active, Serves, Resting, Closing, Shut,
           Promoting, Restoring, Booting
  <1>11. GateOK'
    BY <1>2, <1>3
       DEF HandoverInv, GateOK, Active, Serves, Shut, Closing, Promoting, Restoring,
           Booting
  <1>. QED
    BY <1>5, <1>6, <1>7, <1>8, <1>9, <1>10, <1>11 DEF HandoverInv

-----------------------------------------------------------------------------
(* The steps that write the journal and leave the engines alone. *)

(* The candidate owns the stores. *)
LEMMA CandidateActiveKeeps ==
  ASSUME HandoverInv, CandidateActive
  PROVE  HandoverInv'
  <1>. USE DEF CandidateActive, hostVars, journalVars
  <1>1. job.generation = counter /\ counter \in Nat
    BY DEF HandoverInv, HandoverTypeOK, JobOK, Promoting
  <1>2. /\ Record("committing", job.generation) \in Transition
        /\ Record("committing", job.generation).phase = "committing"
        /\ Record("committing", job.generation).generation = job.generation
        /\ Record("committing", job.generation).previous = current.release
        /\ Record("committing", job.generation).target = job.target
    BY RecordTypes
       DEF HandoverInv, HandoverTypeOK, OwnerOK, JobOK, Phase, Replacing, Updating
  <1>3. /\ disk' = memory' /\ memory' \in Journal /\ memory'.transition = Record("committing", job.generation)
        /\ memory'.generation = job.generation /\ memory'.selected = memory.selected
    BY <1>2, CheckpointTypes DEF HandoverInv, HandoverTypeOK, CheckpointOk, Write
  <1>4. Serves(job.candidate)
    BY EngineNumbers
       DEF HandoverInv, OwnerOK, JobOK, EngineOK, Serves, Replacing, Updating,
           Promoting, Restoring
  <1>5. Keeps({})
    BY SameKeeps DEF HandoverInv
  <1>6. HandlersFinishFirst'
    BY <1>5, HandlersFrame
  <1>7. (\A e \in Engine : EngineOK(e)') /\ AloneOK' /\ GenerationsIncrease'
    BY <1>5, KeepsFrame
  <1>8. HandoverTypeOK'
    BY <1>3, NoJobTypes
       DEF HandoverInv, HandoverTypeOK, Step, Updating, Booting, Closing
  <1>9. OwnerOK' /\ JobOK'
    BY DEF HandoverInv, OwnerOK, Used, JobOK, Replacing, Updating, Promoting,
           Restoring, Booting
  <1>10. JournalOK'
    BY <1>2, <1>3
       DEF HandoverInv, JournalOK, JournalAt, Moving, Resting, Closing, Booting
  <1>11. DiskOK'
    BY <1>3, <1>1 DEF HandoverInv, DiskOK
  <1>12. HoldersOK' /\ GrantsOK'
    <2>1. HoldersOK'
      BY DEF HandoverInv, HoldersOK, OnlyHolds, Known, Alive, Quiet, OwnsStores, Resting,
         Closing
    <2>2. GrantsOK'
      BY DEF HandoverInv, GrantsOK, Newer, Last
    <2>. QED
      BY <2>1, <2>2
  <1>13. AdmittedOK'
    BY <1>3
       DEF HandoverInv, AdmittedOK, GateOK, Active, Serves, Resting, Closing, Shut,
           Promoting, Restoring, Booting, JournalOK, OwnerOK, JobOK, JournalAt, Moving
  <1>14. GateOK'
    BY <1>4
       DEF HandoverInv, GateOK, Active, Serves, Shut, Closing, Promoting, Restoring,
           Booting
  <1>. QED
    BY <1>6, <1>7, <1>8, <1>9, <1>10, <1>11, <1>12, <1>13, <1>14 DEF HandoverInv

(* The candidate is committed. *)
LEMMA CommitTargetKeeps ==
  ASSUME HandoverInv, CommitTarget
  PROVE  HandoverInv'
  <1>. USE DEF CommitTarget, hostVars, journalVars
  <1>1. job.generation = counter /\ counter \in Nat
    BY DEF HandoverInv, HandoverTypeOK, JobOK, Promoting
  <1>2. /\ disk' = memory' /\ memory' \in Journal /\ memory'.transition = memory.transition
        /\ memory'.generation = job.generation /\ memory'.selected = job.target
    BY CommitTypes
       DEF HandoverInv, HandoverTypeOK, OwnerOK, JobOK, Replacing, Updating, CommitOk,
           Write
  <1>3. Keeps({})
    BY SameKeeps DEF HandoverInv
  <1>4. HandlersFinishFirst'
    BY <1>3, HandlersFrame
  <1>5. (\A e \in Engine : EngineOK(e)') /\ AloneOK' /\ GenerationsIncrease'
    BY <1>3, KeepsFrame
  <1>6. HandoverTypeOK'
    BY <1>2, NoJobTypes
       DEF HandoverInv, HandoverTypeOK, Step, Updating, Booting, Closing
  <1>7. OwnerOK' /\ JobOK'
    BY DEF HandoverInv, OwnerOK, Used, JobOK, Replacing, Updating, Promoting,
           Restoring, Booting
  <1>8. JournalOK'
    BY <1>2 DEF HandoverInv, JournalOK, JournalAt, Moving, Resting, Closing, Booting
  <1>9. DiskOK'
    BY <1>2, <1>1 DEF HandoverInv, DiskOK
  <1>10. HoldersOK' /\ GrantsOK'
    <2>1. HoldersOK'
      BY DEF HandoverInv, HoldersOK, OnlyHolds, Known, Alive, Quiet, OwnsStores, Resting,
         Closing
    <2>2. GrantsOK'
      BY DEF HandoverInv, GrantsOK, Newer, Last
    <2>. QED
      BY <2>1, <2>2
  <1>11. AdmittedOK' /\ GateOK'
    BY <1>2
       DEF HandoverInv, AdmittedOK, GateOK, Active, Serves, Resting, Closing, Shut,
           Promoting, Restoring, Booting, JournalOK, OwnerOK, JobOK, JournalAt, Moving
  <1>. QED
    BY <1>4, <1>5, <1>6, <1>7, <1>8, <1>9, <1>10, <1>11 DEF HandoverInv

(* The handover is complete. *)
LEMMA FinishKeeps ==
  ASSUME HandoverInv, Finish
  PROVE  HandoverInv'
  <1>. USE DEF Finish, Resume, hostVars, journalVars
  <1>1. job.generation = counter /\ counter \in Nat
    BY DEF HandoverInv, HandoverTypeOK, JobOK, Promoting
  <1>2. /\ Record("ready", job.generation) \in Transition
        /\ Record("ready", job.generation).phase = "ready"
        /\ Record("ready", job.generation).generation = job.generation
        /\ Record("ready", job.generation).previous = current.release
        /\ Record("ready", job.generation).target = job.target
    BY RecordTypes
       DEF HandoverInv, HandoverTypeOK, OwnerOK, JobOK, Phase, Replacing, Updating
  <1>3. /\ disk' = memory' /\ memory' \in Journal /\ memory'.transition = Record("ready", job.generation)
        /\ memory'.generation = job.generation /\ memory'.selected = memory.selected
    BY <1>2, CheckpointTypes DEF HandoverInv, HandoverTypeOK, CheckpointOk, Write
  <1>4. /\ Serves(job.candidate) /\ selected = job.candidate /\ Active = {}
        /\ memory.selected = job.target
    BY DEF HandoverInv, GateOK, JournalOK, Shut, Promoting
  <1>5. /\ job.target \in Release /\ current.release \in Release
        /\ job.candidate \in Engine /\ Used(job.candidate) /\ engine[job.candidate].boot = boot
        /\ job.generation \in Nat /\ counter \in Nat /\ current.generation \in Nat
    BY DEF HandoverInv, HandoverTypeOK, JobOK, OwnerOK, Replacing, Updating
  <1>6. engine[job.candidate].release = job.target /\ job.generation = counter
    BY DEF HandoverInv, JobOK, Replacing, Updating, Promoting
  <1>7. Keeps({})
    BY SameKeeps DEF HandoverInv
  <1>8. HandlersFinishFirst'
    BY <1>7, HandlersFrame
  <1>9. (\A e \in Engine : EngineOK(e)') /\ AloneOK' /\ GenerationsIncrease'
    BY <1>7, KeepsFrame
  <1>10. HandoverTypeOK'
    BY <1>3, NoJobTypes
       DEF HandoverInv, HandoverTypeOK, Step, Updating, Booting, Closing
  <1>11. OwnerOK'
    BY <1>5, <1>6 DEF HandoverInv, OwnerOK, Used
  <1>12. JobOK'
    BY NoJobTypes
       DEF HandoverInv, JobOK, Used, Replacing, Updating, Promoting, Restoring,
           Booting
  <1>13. JournalOK'
    BY <1>2, <1>3, <1>5, <1>6
       DEF HandoverInv, JournalOK, JournalAt, Moving, Resting, Closing, Booting
  <1>14. DiskOK'
    BY <1>3, <1>1 DEF HandoverInv, DiskOK
  <1>15. HoldersOK' /\ GrantsOK'
    <2>1. HoldersOK'
      BY DEF HandoverInv, HoldersOK, OnlyHolds, Known, Alive, Quiet, OwnsStores, Resting,
         Closing
    <2>2. GrantsOK'
      BY DEF HandoverInv, GrantsOK, Newer, Last
    <2>. QED
      BY <2>1, <2>2
  <1>16. AdmittedOK'
    BY <1>4, <1>5, <1>6, <1>3
       DEF HandoverInv, AdmittedOK, GateOK, Active, Serves, Resting, Closing, Shut,
           Promoting, Restoring, Booting
  <1>17. GateOK'
    BY <1>3
       DEF HandoverInv, GateOK, Active, Serves, Shut, Closing, Promoting, Restoring,
           Booting
  <1>. QED
    BY <1>8, <1>9, <1>10, <1>11, <1>12, <1>13, <1>14, <1>15, <1>16, <1>17
       DEF HandoverInv

(* The restored engine is committed. *)
LEMMA RestoredKeeps ==
  ASSUME HandoverInv, Restored
  PROVE  HandoverInv'
  <1>. USE DEF Restored, hostVars, journalVars
  <1>1. counter = job.generation + 1 /\ counter \in Nat
    BY DEF HandoverInv, HandoverTypeOK, JobOK, Restoring
  <1>2. /\ disk' = memory' /\ memory' \in Journal /\ memory'.transition = memory.transition
        /\ memory'.generation = job.generation + 1 /\ memory'.selected = current.release
    BY CommitTypes
       DEF HandoverInv, HandoverTypeOK, OwnerOK, JobOK, Replacing, Updating, CommitOk,
           Write
  <1>3. /\ job.target \in Release /\ current.release \in Release
        /\ job.restored \in Engine /\ Used(job.restored) /\ engine[job.restored].boot = boot
        /\ job.generation \in Nat /\ counter \in Nat /\ current.generation \in Nat
    BY DEF HandoverInv, HandoverTypeOK, JobOK, OwnerOK, Replacing, Updating
  <1>4. engine[job.restored].release = current.release /\ counter = job.generation + 1
    BY DEF HandoverInv, JobOK, Restoring
  <1>5. job.restored \in 0..MaxEngines /\ job.generation + 1 \in Nat
    BY <1>3, EngineNumbers
  <1>6. current' \in [release : Release \cup {NoRelease}, owner : 0..MaxEngines,
                     generation : Nat]
    BY <1>5 DEF HandoverInv, HandoverTypeOK
  <1>7. Serves(job.restored)
    BY EngineNumbers
       DEF HandoverInv, OwnerOK, JobOK, EngineOK, Serves, Replacing, Updating,
           Promoting, Restoring
  <1>8. Keeps({})
    BY SameKeeps DEF HandoverInv
  <1>9. HandlersFinishFirst'
    BY <1>8, HandlersFrame
  <1>10. (\A e \in Engine : EngineOK(e)') /\ AloneOK' /\ GenerationsIncrease'
    BY <1>8, KeepsFrame
  <1>11. HandoverTypeOK'
    BY <1>6, <1>2 DEF HandoverInv, HandoverTypeOK, Step, Updating, Booting, Closing
  <1>12. OwnerOK'
    BY <1>3, <1>4 DEF HandoverInv, OwnerOK, Used
  <1>13. JobOK'
    BY DEF HandoverInv, JobOK, Used, Replacing, Updating, Promoting, Restoring,
           Booting
  <1>14. JournalOK'
    BY <1>2 DEF HandoverInv, JournalOK, JournalAt, Moving, Resting, Closing, Booting
  <1>15. DiskOK'
    BY <1>2, <1>1 DEF HandoverInv, DiskOK
  <1>16. HoldersOK' /\ GrantsOK'
    <2>1. HoldersOK'
      BY DEF HandoverInv, HoldersOK, OnlyHolds, Known, Alive, Quiet, OwnsStores, Resting,
         Closing
    <2>2. GrantsOK'
      BY DEF HandoverInv, GrantsOK, Newer, Last
    <2>. QED
      BY <2>1, <2>2
  <1>17. AdmittedOK'
    BY <1>2
       DEF HandoverInv, AdmittedOK, GateOK, Active, Serves, Resting, Closing, Shut,
           Promoting, Restoring, Booting, JournalOK, OwnerOK, JobOK, JournalAt, Moving
  <1>18. GateOK'
    BY <1>7
       DEF HandoverInv, GateOK, Active, Serves, Shut, Closing, Promoting, Restoring,
           Booting
  <1>. QED
    BY <1>9, <1>10, <1>11, <1>12, <1>13, <1>14, <1>15, <1>16, <1>17, <1>18
       DEF HandoverInv

(* The rollback is complete. *)
LEMMA RestoreRecordedKeeps ==
  ASSUME HandoverInv, RestoreRecorded
  PROVE  HandoverInv'
  <1>. USE DEF RestoreRecorded, Resume, hostVars, journalVars
  <1>1. counter = job.generation + 1 /\ counter \in Nat
    BY DEF HandoverInv, HandoverTypeOK, JobOK, Restoring
  <1>2. /\ Record("failed", job.generation + 1) \in Transition
        /\ Record("failed", job.generation + 1).phase = "failed"
        /\ Record("failed", job.generation + 1).generation = job.generation + 1
        /\ Record("failed", job.generation + 1).previous = current.release
        /\ Record("failed", job.generation + 1).target = job.target
    BY RecordTypes
       DEF HandoverInv, HandoverTypeOK, OwnerOK, JobOK, Phase, Replacing, Updating
  <1>3. /\ disk' = memory' /\ memory' \in Journal /\ memory'.transition = Record("failed", job.generation + 1)
        /\ memory'.generation = job.generation + 1 /\ memory'.selected = memory.selected
    BY <1>2, CheckpointTypes DEF HandoverInv, HandoverTypeOK, CheckpointOk, Write
  <1>4. /\ job.target \in Release /\ current.release \in Release
        /\ job.restored \in Engine /\ Used(job.restored) /\ engine[job.restored].boot = boot
        /\ job.generation \in Nat /\ counter \in Nat /\ current.generation \in Nat
    BY DEF HandoverInv, HandoverTypeOK, JobOK, OwnerOK, Replacing, Updating
  <1>5. counter = job.generation + 1
    BY DEF HandoverInv, JobOK, Restoring
  <1>6. Keeps({})
    BY SameKeeps DEF HandoverInv
  <1>7. HandlersFinishFirst'
    BY <1>6, HandlersFrame
  <1>8. (\A e \in Engine : EngineOK(e)') /\ AloneOK' /\ GenerationsIncrease'
    BY <1>6, KeepsFrame
  <1>9. HandoverTypeOK'
    BY <1>3, NoJobTypes
       DEF HandoverInv, HandoverTypeOK, Step, Updating, Booting, Closing
  <1>10. OwnerOK' /\ JobOK'
    BY DEF HandoverInv, OwnerOK, Used, JobOK, Replacing, Updating, Promoting,
           Restoring, Booting
  <1>11. JournalOK'
    BY <1>2, <1>3, <1>4, <1>5
       DEF HandoverInv, JournalOK, JournalAt, Moving, Resting, Closing, Booting
  <1>12. DiskOK'
    BY <1>3, <1>1 DEF HandoverInv, DiskOK
  <1>13. HoldersOK' /\ GrantsOK'
    <2>1. HoldersOK'
      BY DEF HandoverInv, HoldersOK, OnlyHolds, Known, Alive, Quiet, OwnsStores, Resting,
         Closing
    <2>2. GrantsOK'
      BY DEF HandoverInv, GrantsOK, Newer, Last
    <2>. QED
      BY <2>1, <2>2
  <1>14. AdmittedOK' /\ GateOK'
    BY <1>3
       DEF HandoverInv, AdmittedOK, GateOK, Active, Serves, Resting, Closing, Shut,
           Promoting, Restoring, Booting, JournalOK, OwnerOK, JobOK, JournalAt, Moving
  <1>. QED
    BY <1>7, <1>8, <1>9, <1>10, <1>11, <1>12, <1>13, <1>14 DEF HandoverInv

(* A rollback that is not proven. *)
LEMMA RestoreFailsKeeps ==
  ASSUME HandoverInv, RestoreFails
  PROVE  HandoverInv'
  <1>. USE DEF RestoreFails, hostVars, journalVars
  <1>1. counter = job.generation + 1 /\ counter \in Nat
    BY DEF HandoverInv, HandoverTypeOK, JobOK, Restoring
  <1>2. job.generation + 1 \in Nat
    BY DEF HandoverInv, HandoverTypeOK
  <1>3. /\ Checkpointed(Record("failed", job.generation + 1)) \in Journal
        /\ Checkpointed(Record("failed", job.generation + 1)).generation = job.generation + 1
        /\ Committed(current.release, job.generation + 1) \in Journal
        /\ Committed(current.release, job.generation + 1).generation = job.generation + 1
    BY <1>2, RecordTypes, CheckpointTypes, CommitTypes
       DEF HandoverInv, HandoverTypeOK, OwnerOK, JobOK, Phase, Replacing, Updating
  <1>4. /\ disk' \in Journal /\ memory' \in Journal
        /\ disk'.generation \in {disk.generation, job.generation + 1}
    BY <1>3, FailedCheckpoint, FailedCommit DEF HandoverInv, HandoverTypeOK
  <1>5. Keeps({})
    BY SameKeeps DEF HandoverInv
  <1>6. HandlersFinishFirst'
    BY <1>5, HandlersFrame
  <1>7. (\A e \in Engine : EngineOK(e)') /\ AloneOK' /\ GenerationsIncrease'
    BY <1>5, KeepsFrame
  <1>8. HandoverTypeOK'
    BY <1>4, NoJobTypes
       DEF HandoverInv, HandoverTypeOK, Step, Updating, Booting, Closing
  <1>9. OwnerOK' /\ JobOK' /\ JournalOK'
    BY DEF HandoverInv, OwnerOK, Used, JobOK, Replacing, Updating, Promoting,
           Restoring, Booting, JournalOK, JournalAt, Moving, Resting, Closing
  <1>10. DiskOK'
    BY <1>4, <1>1 DEF HandoverInv, DiskOK
  <1>11. HoldersOK' /\ GrantsOK'
    <2>1. HoldersOK'
      BY DEF HandoverInv, HoldersOK, OnlyHolds, Known, Alive, Quiet, OwnsStores, Resting,
         Closing
    <2>2. GrantsOK'
      BY DEF HandoverInv, GrantsOK, Newer, Last
    <2>. QED
      BY <2>1, <2>2
  <1>12. AdmittedOK' /\ GateOK'
    BY DEF HandoverInv, AdmittedOK, GateOK, Active, Serves, Resting, Closing, Shut,
           Promoting, Restoring, Booting
  <1>. QED
    BY <1>6, <1>7, <1>8, <1>9, <1>10, <1>11, <1>12 DEF HandoverInv

-----------------------------------------------------------------------------
(* The steps that discard engines. *)

(* The attempt ends before ownership moves. *)
LEMMA AbortBeforeTransferKeeps ==
  ASSUME HandoverInv, AbortBeforeTransfer
  PROVE  HandoverInv'
  <1>. USE DEF AbortBeforeTransfer, Resume, hostVars, journalVars
  <1>1. job.candidate \in Engine /\ Used(job.candidate) /\ job.candidate # current.owner
    BY DEF HandoverInv, JobOK, Replacing, Updating
  <1>2. step \in Promoting => job.generation = counter /\ counter \in Nat
    BY DEF HandoverInv, HandoverTypeOK, JobOK
  <1>3. /\ Keeps({job.candidate})
        /\ \A d \in Engine : d \in {job.candidate} => Used(d)
    BY DiscardKeeps, <1>1 DEF HandoverInv
  <1>4. HandlersFinishFirst'
    BY <1>3, HandlersFrame
  <1>5. (\A e \in Engine : EngineOK(e)') /\ AloneOK' /\ GenerationsIncrease'
    BY <1>3, KeepsFrame
  <1>6. HandoverTypeOK'
    BY <1>3 DEF HandoverInv, HandoverTypeOK, Step, Updating, Booting, Closing, Keeps
  <1>7. OwnerOK' /\ JobOK'
    BY <1>3
       DEF HandoverInv, OwnerOK, Used, Keeps, JobOK, Replacing, Updating, Promoting,
           Restoring, Booting
  <1>8. JournalOK'
    BY <1>3, <1>2
       DEF HandoverInv, JournalOK, JournalAt, Moving, Resting, Closing, Booting,
           Promoting, Keeps
  <1>9. DiskOK'
    BY <1>3 DEF HandoverInv, DiskOK, Keeps
  <1>10. HoldersOK' /\ GrantsOK'
    <2>1. HoldersOK'
      BY <1>3 DEF HandoverInv, HoldersOK, OnlyHolds, Known, Alive, Quiet, OwnsStores,
         Resting, Closing, Keeps
    <2>2. GrantsOK'
      BY <1>3 DEF HandoverInv, GrantsOK, Newer, Last, Keeps
    <2>. QED
      BY <2>1, <2>2
  <1>11. AdmittedOK'
    BY <1>3, <1>1, EngineNumbers
       DEF HandoverInv, AdmittedOK, GateOK, Active, Serves, Resting, Closing, Shut,
           Promoting, Restoring, Booting, OwnerOK, Keeps
  <1>12. GateOK'
    BY <1>3
       DEF HandoverInv, GateOK, Active, Serves, Shut, Closing, Promoting, Restoring,
           Booting, Keeps
  <1>. QED
    BY <1>4, <1>5, <1>6, <1>7, <1>8, <1>9, <1>10, <1>11, <1>12 DEF HandoverInv

(* The candidate is ready; the gate pauses. *)
LEMMA CandidatePausedKeeps ==
  ASSUME HandoverInv, step = "preparing", CheckpointOk(Record("prepared", job.generation)),
         Pause, step' = "draining", UNCHANGED <<poisoned, engine>>,
         UNCHANGED <<job, current, counter, selected, failed, closing, boot, req>>
  PROVE  HandoverInv'
  <1>. USE DEF Pause
  <1>1. job.generation = counter /\ counter \in Nat
    BY DEF HandoverInv, HandoverTypeOK, JobOK, Promoting
  <1>2. /\ Record("prepared", job.generation) \in Transition
        /\ Record("prepared", job.generation).phase = "prepared"
        /\ Record("prepared", job.generation).generation = job.generation
        /\ Record("prepared", job.generation).previous = current.release
        /\ Record("prepared", job.generation).target = job.target
    BY RecordTypes
       DEF HandoverInv, HandoverTypeOK, OwnerOK, JobOK, Phase, Replacing, Updating
  <1>3. /\ disk' = memory' /\ memory' \in Journal /\ memory'.transition = Record("prepared", job.generation)
        /\ memory'.generation = job.generation /\ memory'.selected = memory.selected
    BY <1>2, CheckpointTypes DEF HandoverInv, HandoverTypeOK, CheckpointOk, Write
  <1>4. Keeps({})
    BY SameKeeps DEF HandoverInv
  <1>5. HandlersFinishFirst'
    BY <1>4, HandlersFrame
  <1>6. (\A e \in Engine : EngineOK(e)') /\ AloneOK' /\ GenerationsIncrease'
    BY <1>4, KeepsFrame
  <1>7. HandoverTypeOK'
    BY <1>3, NoJobTypes
       DEF HandoverInv, HandoverTypeOK, Step, Updating, Booting, Closing
  <1>8. OwnerOK' /\ JobOK'
    BY DEF HandoverInv, OwnerOK, Used, JobOK, Replacing, Updating, Promoting,
           Restoring, Booting
  <1>9. JournalOK'
    BY <1>2, <1>3
       DEF HandoverInv, JournalOK, JournalAt, Moving, Resting, Closing, Booting
  <1>10. DiskOK'
    BY <1>3, <1>1 DEF HandoverInv, DiskOK
  <1>11. HoldersOK' /\ GrantsOK'
    <2>1. HoldersOK'
      BY DEF HandoverInv, HoldersOK, OnlyHolds, Known, Alive, Quiet, OwnsStores, Resting,
         Closing
    <2>2. GrantsOK'
      BY DEF HandoverInv, GrantsOK, Newer, Last
    <2>. QED
      BY <2>1, <2>2
  <1>12. AdmittedOK' /\ GateOK'
    BY <1>3
       DEF HandoverInv, AdmittedOK, GateOK, Active, Serves, Resting, Closing, Shut,
           Promoting, Restoring, Booting, JournalOK, OwnerOK, JobOK, JournalAt, Moving
  <1>. QED
    BY <1>5, <1>6, <1>7, <1>8, <1>9, <1>10, <1>11, <1>12 DEF HandoverInv

(* The candidate is ready and the journal is not. *)
LEMMA CandidateUnrecordedKeeps ==
  ASSUME HandoverInv, step = "preparing",
         CheckpointFails(Record("prepared", job.generation)),
         poisoned' = TRUE, step' = "cleaning", engine' = Discarded({job.candidate}),
         UNCHANGED <<admission, job, current, counter, selected, failed, closing, boot, req>>
  PROVE  HandoverInv'
  <1>. USE DEF hostVars
  <1>1. job.candidate \in Engine /\ Used(job.candidate) /\ job.candidate # current.owner
    BY DEF HandoverInv, JobOK, Replacing, Updating
  <1>2. step \in Promoting => job.generation = counter /\ counter \in Nat
    BY DEF HandoverInv, HandoverTypeOK, JobOK
  <1>3. job.generation = counter /\ counter \in Nat
    BY DEF HandoverInv, HandoverTypeOK, JobOK, Promoting
  <1>4. /\ Record("prepared", job.generation) \in Transition
        /\ Record("prepared", job.generation).phase = "prepared"
        /\ Record("prepared", job.generation).generation = job.generation
        /\ Record("prepared", job.generation).previous = current.release
        /\ Record("prepared", job.generation).target = job.target
    BY RecordTypes
       DEF HandoverInv, HandoverTypeOK, OwnerOK, JobOK, Phase, Replacing, Updating
  <1>5. /\ disk' \in Journal /\ memory' \in Journal
        /\ disk'.selected \in {disk.selected, memory.selected}
        /\ disk'.generation \in {disk.generation, job.generation}
    BY <1>4, CheckpointTypes, FailedCheckpoint DEF HandoverInv, HandoverTypeOK
  <1>6. /\ memory.selected = current.release /\ job.generation = counter
        /\ current.generation <= counter /\ counter \in Nat /\ current.generation \in Nat
    BY DEF HandoverInv, HandoverTypeOK, JournalOK, JobOK, OwnerOK, Promoting
  <1>7. /\ Keeps({job.candidate})
        /\ \A d \in Engine : d \in {job.candidate} => Used(d)
    BY DiscardKeeps, <1>1 DEF HandoverInv
  <1>8. HandlersFinishFirst'
    BY <1>7, HandlersFrame
  <1>9. (\A e \in Engine : EngineOK(e)') /\ AloneOK' /\ GenerationsIncrease'
    BY <1>7, KeepsFrame
  <1>10. HandoverTypeOK'
    BY <1>7, <1>5
       DEF HandoverInv, HandoverTypeOK, Step, Updating, Booting, Closing, Keeps
  <1>11. OwnerOK' /\ JobOK' /\ JournalOK'
    BY <1>7
       DEF HandoverInv, OwnerOK, Used, Keeps, JobOK, Replacing, Updating, Promoting,
           Restoring, Booting, JournalOK, JournalAt, Moving, Resting, Closing
  <1>12. DiskOK'
    BY <1>7, <1>5, <1>3 DEF HandoverInv, DiskOK, Keeps
  <1>13. HoldersOK' /\ GrantsOK'
    <2>1. HoldersOK'
      BY <1>7 DEF HandoverInv, HoldersOK, OnlyHolds, Known, Alive, Quiet, OwnsStores,
         Resting, Closing, Keeps
    <2>2. GrantsOK'
      BY <1>7 DEF HandoverInv, GrantsOK, Newer, Last, Keeps
    <2>. QED
      BY <2>1, <2>2
  <1>14. AdmittedOK'
    <2>1. /\ selected = current.owner /\ Serves(selected) /\ disk.selected = current.release
          /\ disk.generation >= current.generation /\ current.owner \in Engine
      BY DEF HandoverInv, AdmittedOK, OwnerOK
    <2>2. Serves(selected)'
      BY <1>7, <1>1, <2>1 DEF Serves, Keeps
    <2>3. disk'.selected = current.release /\ disk'.generation >= current.generation
      BY <1>5, <1>6, <2>1
    <2>. QED
      BY <2>1, <2>2, <2>3 DEF AdmittedOK
  <1>15. GateOK'
    BY <1>7
       DEF HandoverInv, GateOK, Active, Serves, Shut, Closing, Promoting, Restoring,
           Booting, OwnerOK, Keeps
  <1>. QED
    BY <1>8, <1>9, <1>10, <1>11, <1>12, <1>13, <1>14, <1>15 DEF HandoverInv

(* Ownership does not move: the journal is not written. *)
LEMMA ReleaseUnrecordedKeeps ==
  ASSUME HandoverInv, step = "qualifying",
         CheckpointFails(Record("releasing", job.generation)), poisoned' = TRUE, Fence,
         UNCHANGED <<job, current, counter, selected, failed, closing, admission, boot, req>>
  PROVE  HandoverInv'
  <1>. USE DEF Fence, hostVars
  <1>1. job.candidate \in Engine /\ Used(job.candidate) /\ job.candidate # current.owner
    BY DEF HandoverInv, JobOK, Replacing, Updating
  <1>2. step \in Promoting => job.generation = counter /\ counter \in Nat
    BY DEF HandoverInv, HandoverTypeOK, JobOK
  <1>3. job.generation = counter /\ counter \in Nat
    BY DEF HandoverInv, HandoverTypeOK, JobOK, Promoting
  <1>4. /\ Record("releasing", job.generation) \in Transition
        /\ Record("releasing", job.generation).phase = "releasing"
        /\ Record("releasing", job.generation).generation = job.generation
        /\ Record("releasing", job.generation).previous = current.release
        /\ Record("releasing", job.generation).target = job.target
    BY RecordTypes
       DEF HandoverInv, HandoverTypeOK, OwnerOK, JobOK, Phase, Replacing, Updating
  <1>5. /\ disk' \in Journal /\ memory' \in Journal
        /\ disk'.selected \in {disk.selected, memory.selected}
        /\ disk'.generation \in {disk.generation, job.generation}
    BY <1>4, CheckpointTypes, FailedCheckpoint DEF HandoverInv, HandoverTypeOK
  <1>6. ~job.released
    BY DEF HandoverInv, JobOK
  <1>7. /\ memory.selected = current.release /\ job.generation = counter
        /\ current.generation <= counter /\ counter \in Nat /\ current.generation \in Nat
    BY DEF HandoverInv, HandoverTypeOK, JournalOK, JobOK, OwnerOK, Promoting
  <1>8. /\ Keeps({job.candidate})
        /\ \A d \in Engine : d \in {job.candidate} => Used(d)
    BY DiscardKeeps, <1>1 DEF HandoverInv
  <1>9. HandlersFinishFirst'
    BY <1>8, HandlersFrame
  <1>10. (\A e \in Engine : EngineOK(e)') /\ AloneOK' /\ GenerationsIncrease'
    BY <1>8, KeepsFrame
  <1>11. HandoverTypeOK'
    BY <1>8, <1>5
       DEF HandoverInv, HandoverTypeOK, Step, Updating, Booting, Closing, Keeps
  <1>12. OwnerOK' /\ JobOK'
    BY <1>8
       DEF HandoverInv, OwnerOK, Used, Keeps, JobOK, Replacing, Updating, Promoting,
           Restoring, Booting
  <1>13. JournalOK'
    BY <1>8, <1>6
       DEF HandoverInv, JournalOK, JournalAt, Moving, Resting, Closing, Booting, Keeps
  <1>14. DiskOK'
    BY <1>8, <1>5, <1>3 DEF HandoverInv, DiskOK, Keeps
  <1>15. HoldersOK' /\ GrantsOK'
    <2>1. HoldersOK'
      <3>1. OnlyHolds({current.owner})
        BY DEF HandoverInv, HoldersOK
      <3>2. OnlyHolds({current.owner, job.candidate})'
        BY <1>8, <3>1 DEF OnlyHolds, Known, Alive, Quiet, OwnsStores, Keeps
      <3>. QED
        BY <3>2 DEF HoldersOK, Resting, Closing
    <2>2. GrantsOK'
      BY <1>8 DEF HandoverInv, GrantsOK, Newer, Last, Keeps
    <2>. QED
      BY <2>1, <2>2
  <1>16. AdmittedOK'
    <2>1. /\ selected = current.owner /\ Serves(selected) /\ disk.selected = current.release
          /\ disk.generation >= current.generation /\ current.owner \in Engine
      BY DEF HandoverInv, AdmittedOK, OwnerOK
    <2>2. Serves(selected)'
      BY <1>8, <1>1, <2>1 DEF Serves, Keeps
    <2>3. disk'.selected = current.release /\ disk'.generation >= current.generation
      BY <1>5, <1>7, <2>1
    <2>. QED
      BY <2>1, <2>2, <2>3 DEF AdmittedOK
  <1>17. GateOK'
    BY <1>8
       DEF HandoverInv, GateOK, Active, Serves, Shut, Closing, Promoting, Restoring,
           Booting, OwnerOK, Keeps
  <1>. QED
    BY <1>9, <1>10, <1>11, <1>12, <1>13, <1>14, <1>15, <1>16, <1>17 DEF HandoverInv

(* A transfer that fails is fenced. *)
LEMMA TransferFailsKeeps ==
  ASSUME HandoverInv, TransferFails
  PROVE  HandoverInv'
  <1>. USE DEF TransferFails, Fence, hostVars, journalVars
  <1>1. job.candidate \in Engine /\ Used(job.candidate) /\ job.candidate # current.owner
    BY DEF HandoverInv, JobOK, Replacing, Updating
  <1>2. step \in Promoting => job.generation = counter /\ counter \in Nat
    BY DEF HandoverInv, HandoverTypeOK, JobOK
  <1>3. job.generation = counter /\ counter \in Nat
    BY DEF HandoverInv, HandoverTypeOK, JobOK, Promoting
  <1>4. /\ job.generation \in Nat /\ current.release \in Release /\ job.target \in Release
        /\ memory \in Journal /\ disk \in Journal
        /\ job.released
    BY DEF HandoverInv, HandoverTypeOK, OwnerOK, JobOK, Replacing, Updating
  <1>5. \A phase \in Phase : Record(phase, job.generation) \in Transition
    BY <1>4, RecordTypes
  <1>6. \A phase \in Phase :
          LET t == Record(phase, job.generation) IN
          /\ Checkpointed(t) \in Journal /\ Checkpointed(t).transition = t
          /\ Checkpointed(t).generation = job.generation
          /\ t.phase = phase /\ t.generation = job.generation
          /\ t.previous = current.release /\ t.target = job.target
    BY <1>4, <1>5, CheckpointTypes, RecordTypes
  <1>7. /\ Committed(job.target, job.generation) \in Journal
        /\ Committed(job.target, job.generation).generation = job.generation
        /\ Committed(job.target, job.generation).transition = memory.transition
    BY <1>4, CommitTypes
  <1>8. /\ Moving({"releasing", "activating", "committing"})
        /\ memory.generation = job.generation
    BY DEF HandoverInv, JournalOK, JournalAt, Moving
  <1>9. \/ UNCHANGED journalVars
        \/ \E phase \in {"activating", "committing", "ready"} :
             LET t == Checkpointed(Record(phase, job.generation)) IN
             disk' \in {disk, t} /\ memory' \in {memory, t}
        \/ LET t == Committed(job.target, job.generation) IN
           disk' \in {disk, t} /\ memory' \in {memory, t}
    BY FailedCheckpoint, FailedCommit
  <1>10. /\ disk' \in Journal /\ memory' \in Journal
        /\ disk'.generation \in {disk.generation, job.generation}
    BY <1>4, <1>6, <1>7, <1>9 DEF Phase
  <1>11. /\ memory'.transition.phase \in {"releasing", "activating", "committing", "ready"}
        /\ memory'.transition.previous = current.release
        /\ memory'.transition.target = job.target
        /\ memory'.transition.generation = job.generation
        /\ memory'.generation = job.generation
    BY <1>6, <1>7, <1>8, <1>9 DEF Moving, Phase
  <1>12. /\ Keeps({job.candidate})
        /\ \A d \in Engine : d \in {job.candidate} => Used(d)
    BY DiscardKeeps, <1>1 DEF HandoverInv
  <1>13. HandlersFinishFirst'
    BY <1>12, HandlersFrame
  <1>14. (\A e \in Engine : EngineOK(e)') /\ AloneOK' /\ GenerationsIncrease'
    BY <1>12, KeepsFrame
  <1>15. HandoverTypeOK'
    BY <1>12, <1>10
       DEF HandoverInv, HandoverTypeOK, Step, Updating, Booting, Closing, Keeps
  <1>16. OwnerOK' /\ JobOK'
    BY <1>12
       DEF HandoverInv, OwnerOK, Used, Keeps, JobOK, Replacing, Updating, Promoting,
           Restoring, Booting
  <1>17. JournalOK'
    BY <1>12, <1>11
       DEF HandoverInv, JournalOK, JournalAt, Moving, Resting, Closing, Booting, Keeps
  <1>18. DiskOK'
    BY <1>12, <1>10, <1>3 DEF HandoverInv, DiskOK, Keeps
  <1>19. HoldersOK' /\ GrantsOK'
    <2>1. HoldersOK'
      BY <1>12 DEF HandoverInv, HoldersOK, OnlyHolds, Known, Alive, Quiet, OwnsStores,
         Resting, Closing, Keeps
    <2>2. GrantsOK'
      BY <1>12 DEF HandoverInv, GrantsOK, Newer, Last, Keeps
    <2>. QED
      BY <2>1, <2>2
  <1>20. AdmittedOK'
    BY <1>12, <1>4
       DEF HandoverInv, AdmittedOK, GateOK, Active, Serves, Resting, Closing, Shut,
           Promoting, Restoring, Booting, Keeps
  <1>21. GateOK'
    BY <1>12
       DEF HandoverInv, GateOK, Active, Serves, Shut, Closing, Promoting, Restoring,
           Booting, Keeps
  <1>. QED
    BY <1>13, <1>14, <1>15, <1>16, <1>17, <1>18, <1>19, <1>20, <1>21 DEF HandoverInv

(* The candidate is gone, and the previous owners are told to stop. *)
LEMMA OwnersFencedKeeps ==
  ASSUME HandoverInv, step = "fencing", Gone({job.candidate}), job.released,
         counter' = job.generation + 1, engine' = Discarded(PreviousOwners),
         step' = "stoppingPrevious", UNCHANGED <<job, admission>>,
         UNCHANGED <<journalVars, current, poisoned, selected, failed, closing, boot, req>>
  PROVE  HandoverInv'
  <1>. USE DEF hostVars, journalVars
  <1>1. \A e \in Engine : e \in PreviousOwners => Used(e)
    BY DEF PreviousOwners, Known, Alive, Used
  <1>2. job.generation = counter /\ counter \in Nat
    BY DEF HandoverInv, HandoverTypeOK, EngineRecord, JobOK
  <1>3. \A e \in Engine : engine[e].boot = boot =>
          engine[e].generation < job.generation + 1 /\ engine[e].generation < counter' + 1
    BY <1>2, GenerationsBelow
  <1>4. disk.generation \in Nat /\ disk.generation <= counter
    BY DEF HandoverInv, HandoverTypeOK, Journal, DiskOK
  <1>5. /\ Keeps(PreviousOwners)
        /\ \A d \in Engine : d \in PreviousOwners => Used(d)
    BY DiscardKeeps, <1>1 DEF HandoverInv
  <1>6. HandlersFinishFirst'
    BY <1>5, HandlersFrame
  <1>7. (\A e \in Engine : EngineOK(e)') /\ AloneOK' /\ GenerationsIncrease'
    BY <1>5, KeepsFrame
  <1>8. HandoverTypeOK'
    BY <1>5, <1>2
       DEF HandoverInv, HandoverTypeOK, Step, Updating, Booting, Closing, Keeps
  <1>9. OwnerOK' /\ JobOK'
    BY <1>5, <1>2
       DEF HandoverInv, OwnerOK, Used, HandoverTypeOK, Keeps, JobOK, Replacing,
           Updating, Promoting, Restoring, Booting
  <1>10. JournalOK'
    BY <1>5
       DEF HandoverInv, JournalOK, JournalAt, Moving, Resting, Closing, Booting, Keeps
  <1>11. DiskOK'
    BY <1>5, <1>2, <1>4 DEF HandoverInv, DiskOK, Keeps
  <1>12. HoldersOK'
    BY <1>5
       DEF HandoverInv, HoldersOK, OnlyHolds, Known, Alive, Quiet, OwnsStores,
           Resting, Closing, Gone, Keeps
  <1>13. GrantsOK'
    BY <1>5, <1>3 DEF HandoverInv, GrantsOK, Newer, Last, Keeps
  <1>14. AdmittedOK' /\ GateOK'
    BY <1>5
       DEF HandoverInv, AdmittedOK, GateOK, Active, Serves, Resting, Closing, Shut,
           Promoting, Restoring, Booting, Keeps
  <1>. QED
    BY <1>6, <1>7, <1>8, <1>9, <1>10, <1>11, <1>12, <1>13, <1>14 DEF HandoverInv

(* The candidate is gone, and the owner never released. *)
LEMMA AttemptFencedKeeps ==
  ASSUME HandoverInv, step = "fencing", ~job.released, Resume, step' = "idle", job' = NoJob,
         UNCHANGED <<counter, engine>>,
         UNCHANGED <<journalVars, current, poisoned, selected, failed, closing, boot, req>>
  PROVE  HandoverInv'
  <1>. USE DEF Resume, hostVars, journalVars
  <1>1. Keeps({})
    BY SameKeeps DEF HandoverInv
  <1>2. HandlersFinishFirst'
    BY <1>1, HandlersFrame
  <1>3. (\A e \in Engine : EngineOK(e)') /\ AloneOK' /\ GenerationsIncrease'
    BY <1>1, KeepsFrame
  <1>4. HandoverTypeOK'
    BY NoJobTypes DEF HandoverInv, HandoverTypeOK, Step, Updating, Booting, Closing
  <1>5. OwnerOK' /\ JobOK' /\ JournalOK' /\ DiskOK'
    BY DEF HandoverInv, OwnerOK, Used, JobOK, Replacing, Updating, Promoting,
           Restoring, Booting, JournalOK, JournalAt, Moving, Resting, Closing, DiskOK
  <1>6. HoldersOK' /\ GrantsOK'
    <2>1. HoldersOK'
      BY DEF HandoverInv, HoldersOK, OnlyHolds, Known, Alive, Quiet, OwnsStores, Resting,
         Closing, JobOK
    <2>2. GrantsOK'
      BY DEF HandoverInv, GrantsOK, Newer, Last, JobOK
    <2>. QED
      BY <2>1, <2>2
  <1>7. AdmittedOK' /\ GateOK'
    BY DEF HandoverInv, AdmittedOK, GateOK, Active, Serves, Resting, Closing, Shut,
           Promoting, Restoring, Booting
  <1>. QED
    BY <1>2, <1>3, <1>4, <1>5, <1>6, <1>7 DEF HandoverInv

(* After a success the other engines are discarded. *)
LEMMA OthersRetiredKeeps ==
  ASSUME HandoverInv, step = "confirming",
         engine' = Discarded({e \in Engine : Known(e) /\ e # current.owner}),
         step' = "retiring", UNCHANGED <<admission, failed>>,
         UNCHANGED <<journalVars, job, current, counter, poisoned, selected, closing,
                     boot, req>>
  PROVE  HandoverInv'
  <1>. USE DEF hostVars, journalVars
  <1>1. /\ Keeps({e \in Engine : Known(e) /\ e # current.owner})
        /\ \A d \in Engine : d \in {e \in Engine : Known(e) /\ e # current.owner} => Used(d)
    BY DiscardKeeps DEF HandoverInv, Known, Alive, Used
  <1>2. HandlersFinishFirst'
    BY <1>1, HandlersFrame
  <1>3. (\A e \in Engine : EngineOK(e)') /\ AloneOK' /\ GenerationsIncrease'
    BY <1>1, KeepsFrame
  <1>4. HandoverTypeOK'
    BY <1>1 DEF HandoverInv, HandoverTypeOK, Step, Updating, Booting, Closing, Keeps
  <1>5. OwnerOK' /\ JobOK' /\ JournalOK' /\ DiskOK'
    BY <1>1
       DEF HandoverInv, OwnerOK, Used, Keeps, JobOK, Replacing, Updating, Promoting,
           Restoring, Booting, JournalOK, JournalAt, Moving, Resting, Closing, DiskOK
  <1>6. HoldersOK' /\ GrantsOK'
    <2>1. HoldersOK'
      BY <1>1 DEF HandoverInv, HoldersOK, OnlyHolds, Known, Alive, Quiet, OwnsStores,
         Resting, Closing, Keeps
    <2>2. GrantsOK'
      BY <1>1 DEF HandoverInv, GrantsOK, Newer, Last, Keeps
    <2>. QED
      BY <2>1, <2>2
  <1>7. AdmittedOK'
    BY <1>1, EngineNumbers
       DEF HandoverInv, AdmittedOK, GateOK, Active, Serves, Resting, Closing, Shut,
           Promoting, Restoring, Booting, OwnerOK, Keeps
  <1>8. GateOK'
    BY <1>1
       DEF HandoverInv, GateOK, Active, Serves, Shut, Closing, Promoting, Restoring,
           Booting, OwnerOK, Keeps
  <1>. QED
    BY <1>2, <1>3, <1>4, <1>5, <1>6, <1>7, <1>8 DEF HandoverInv

(* After a success the owner is found gone. *)
LEMMA OwnerGoneKeeps ==
  ASSUME HandoverInv, step = "confirming", Pause, failed' = TRUE, step' = "idle", UNCHANGED engine,
         UNCHANGED <<journalVars, job, current, counter, poisoned, selected, closing,
                     boot, req>>
  PROVE  HandoverInv'
  <1>. USE DEF Pause, hostVars, journalVars
  <1>1. Keeps({})
    BY SameKeeps DEF HandoverInv
  <1>2. HandlersFinishFirst'
    BY <1>1, HandlersFrame
  <1>3. (\A e \in Engine : EngineOK(e)') /\ AloneOK' /\ GenerationsIncrease'
    BY <1>1, KeepsFrame
  <1>4. HandoverTypeOK'
    BY DEF HandoverInv, HandoverTypeOK, Step, Updating, Booting, Closing
  <1>5. OwnerOK' /\ JobOK' /\ JournalOK' /\ DiskOK'
    BY DEF HandoverInv, OwnerOK, Used, JobOK, Replacing, Updating, Promoting,
           Restoring, Booting, JournalOK, JournalAt, Moving, Resting, Closing, DiskOK
  <1>6. HoldersOK' /\ GrantsOK'
    <2>1. HoldersOK'
      BY DEF HandoverInv, HoldersOK, OnlyHolds, Known, Alive, Quiet, OwnsStores, Resting,
         Closing
    <2>2. GrantsOK'
      BY DEF HandoverInv, GrantsOK, Newer, Last
    <2>. QED
      BY <2>1, <2>2
  <1>7. AdmittedOK' /\ GateOK'
    BY DEF HandoverInv, AdmittedOK, GateOK, Active, Serves, Resting, Closing, Shut,
           Promoting, Restoring, Booting
  <1>. QED
    BY <1>2, <1>3, <1>4, <1>5, <1>6, <1>7 DEF HandoverInv

(* The owner has released; the host stops its engines. *)
LEMMA CloseReleasedKeeps ==
  ASSUME HandoverInv, CloseReleased
  PROVE  HandoverInv'
  <1>. USE DEF CloseReleased, hostVars, journalVars
  <1>1. /\ Keeps({e \in Engine : Known(e)})
        /\ \A d \in Engine : d \in {e \in Engine : Known(e)} => Used(d)
    BY DiscardKeeps DEF HandoverInv, Known, Alive, Used
  <1>2. HandlersFinishFirst'
    BY <1>1, HandlersFrame
  <1>3. (\A e \in Engine : EngineOK(e)') /\ AloneOK' /\ GenerationsIncrease'
    BY <1>1, KeepsFrame
  <1>4. HandoverTypeOK'
    BY <1>1 DEF HandoverInv, HandoverTypeOK, Step, Updating, Booting, Closing, Keeps
  <1>5. OwnerOK' /\ JobOK' /\ JournalOK' /\ DiskOK'
    BY <1>1
       DEF HandoverInv, OwnerOK, Used, Keeps, JobOK, Replacing, Updating, Promoting,
           Restoring, Booting, JournalOK, JournalAt, Moving, Resting, Closing, DiskOK
  <1>6. HoldersOK' /\ GrantsOK'
    <2>1. HoldersOK'
      BY <1>1 DEF HandoverInv, HoldersOK, OnlyHolds, Known, Alive, Quiet, OwnsStores,
         Resting, Closing, Keeps
    <2>2. GrantsOK'
      BY <1>1 DEF HandoverInv, GrantsOK, Newer, Last, Keeps
    <2>. QED
      BY <2>1, <2>2
  <1>7. AdmittedOK' /\ GateOK'
    BY <1>1
       DEF HandoverInv, AdmittedOK, GateOK, Active, Serves, Resting, Closing, Shut,
           Promoting, Restoring, Booting, Keeps
  <1>. QED
    BY <1>2, <1>3, <1>4, <1>5, <1>6, <1>7 DEF HandoverInv

(* Shutdown without an owner to ask. *)
LEMMA CloseDiscardsKeeps ==
  ASSUME HandoverInv, step = "idle", closing' = TRUE, admission' = "closed", req' = Disconnected,
         engine' = Discarded({e \in Engine : Known(e)}), step' = "closeDiscarding",
         UNCHANGED <<journalVars, job, current, counter, poisoned, selected, failed, boot>>
  PROVE  HandoverInv'
  <1>. USE DEF hostVars, journalVars
  <1>1. /\ req' \in [Req -> RequestRecord] /\ Active' = {}
        /\ \A r \in Req : /\ req'[r].at \in {0, req[r].at}
                          /\ req'[r].at # 0 <=> req'[r].stage \in {"served", "orphaned"}
                          /\ req'[r].stage # "served"
    BY DisconnectedTypes DEF HandoverInv
  <1>2. /\ Keeps({e \in Engine : Known(e)})
        /\ \A d \in Engine : d \in {e \in Engine : Known(e)} => Used(d)
    BY DiscardKeeps DEF HandoverInv, Known, Alive, Used
  <1>3. HandlersFinishFirst'
    BY <1>2, <1>1, HandlersFrame
  <1>4. (\A e \in Engine : EngineOK(e)') /\ AloneOK' /\ GenerationsIncrease'
    BY <1>2, KeepsFrame
  <1>5. HandoverTypeOK'
    BY <1>2, <1>1
       DEF HandoverInv, HandoverTypeOK, Step, Updating, Booting, Closing, Keeps
  <1>6. OwnerOK' /\ JobOK' /\ JournalOK' /\ DiskOK'
    BY <1>2
       DEF HandoverInv, OwnerOK, Used, Keeps, JobOK, Replacing, Updating, Promoting,
           Restoring, Booting, JournalOK, JournalAt, Moving, Resting, Closing, DiskOK
  <1>7. HoldersOK' /\ GrantsOK'
    <2>1. HoldersOK'
      BY <1>2 DEF HandoverInv, HoldersOK, OnlyHolds, Known, Alive, Quiet, OwnsStores,
         Resting, Closing, Keeps
    <2>2. GrantsOK'
      BY <1>2 DEF HandoverInv, GrantsOK, Newer, Last, Keeps
    <2>. QED
      BY <2>1, <2>2
  <1>8. AdmittedOK' /\ GateOK'
    BY <1>2, <1>1
       DEF HandoverInv, AdmittedOK, GateOK, Active, Serves, Resting, Closing, Shut,
           Promoting, Restoring, Booting, Keeps
  <1>. QED
    BY <1>3, <1>4, <1>5, <1>6, <1>7, <1>8 DEF HandoverInv

-----------------------------------------------------------------------------
(* The steps that ask an engine to release, or tell one to open. *)

(* The transfer begins: the owner is asked to release. *)
LEMMA OwnerAskedKeeps ==
  ASSUME HandoverInv, step = "qualifying", engine[current.owner].state = "active",
         CheckpointOk(Record("releasing", job.generation)),
         job' = [job EXCEPT !.released = TRUE],
         engine' = [engine EXCEPT ![current.owner].command = "deactivate"],
         step' = "deactivating", UNCHANGED poisoned,
         UNCHANGED <<current, counter, selected, failed, closing, admission, boot, req>>
  PROVE  HandoverInv'
  <1>1. job.generation = counter /\ counter \in Nat
    BY DEF HandoverInv, HandoverTypeOK, JobOK, Promoting
  <1>2. /\ Record("releasing", job.generation) \in Transition
        /\ Record("releasing", job.generation).phase = "releasing"
        /\ Record("releasing", job.generation).generation = job.generation
        /\ Record("releasing", job.generation).previous = current.release
        /\ Record("releasing", job.generation).target = job.target
    BY RecordTypes
       DEF HandoverInv, HandoverTypeOK, OwnerOK, JobOK, Phase, Replacing, Updating
  <1>3. /\ disk' = memory' /\ memory' \in Journal /\ memory'.transition = Record("releasing", job.generation)
        /\ memory'.generation = job.generation /\ memory'.selected = memory.selected
    BY <1>2, CheckpointTypes DEF HandoverInv, HandoverTypeOK, CheckpointOk, Write
  <1>4. /\ job' \in [target : Release \cup {NoRelease}, candidate : 0..MaxEngines,
                   generation : Nat, released : BOOLEAN, restored : 0..MaxEngines]
        /\ job'.target = job.target /\ job'.candidate = job.candidate
        /\ job'.generation = job.generation /\ job'.released
        /\ job'.restored = job.restored
    BY DEF HandoverInv, HandoverTypeOK
  <1>5. job.candidate \in Engine /\ job.candidate # current.owner
    BY DEF HandoverInv, JobOK, Replacing, Updating
  <1>6. /\ current.owner \in Engine /\ Used(current.owner)
        /\ engine' = [engine EXCEPT ![current.owner].command = "deactivate"]
        /\ boot' = boot /\ \A r \in Req : req'[r].at = req[r].at \/ req'[r].at = 0
    BY DEF HandoverInv, OwnerOK
  <1>7. /\ Changes(current.owner) /\ engine'[current.owner].state = engine[current.owner].state
        /\ engine'[current.owner].generation = engine[current.owner].generation
        /\ engine'[current.owner].command = "deactivate"
    BY <1>6, AskFrame
  <1>8. /\ \A d \in Engine : EngineOK(d)'
        /\ AloneOK' /\ GenerationsIncrease' /\ HandlersFinishFirst'
    BY <1>6, AskFrame
  <1>9. HandoverTypeOK'
    BY <1>7, <1>4, <1>3
       DEF HandoverInv, HandoverTypeOK, Step, Updating, Booting, Closing, Changes
  <1>10. OwnerOK'
    BY <1>7 DEF HandoverInv, OwnerOK, Used, Changes
  <1>11. JobOK'
    BY <1>7, <1>4, <1>5
       DEF HandoverInv, JobOK, Used, Replacing, Updating, Promoting, Restoring,
           Booting, Changes
  <1>12. JournalOK'
    BY <1>7, <1>4, <1>2, <1>3
       DEF HandoverInv, JournalOK, JournalAt, Moving, Resting, Closing, Booting,
           Changes
  <1>13. DiskOK'
    BY <1>7, <1>3, <1>1 DEF HandoverInv, DiskOK, Changes
  <1>14. HoldersOK'
    BY <1>7
       DEF HandoverInv, HoldersOK, OnlyHolds, Known, Alive, Quiet, OwnsStores,
           Resting, Closing, Changes
  <1>15. GrantsOK'
    BY <1>7, <1>4, <1>5, UnusedType DEF HandoverInv, GrantsOK, Newer, Last, Changes
  <1>16. AdmittedOK' /\ GateOK'
    BY <1>7, <1>4
       DEF HandoverInv, AdmittedOK, GateOK, Active, Serves, Resting, Closing, Shut,
           Promoting, Restoring, Booting, Changes
  <1>. QED
    BY <1>7, <1>8, <1>9, <1>10, <1>11, <1>12, <1>13, <1>14, <1>15, <1>16 DEF HandoverInv

(* Shutdown begins with the owner. *)
LEMMA OwnerAskedToCloseKeeps ==
  ASSUME HandoverInv, step = "idle", closing' = TRUE, admission' = "closed", req' = Disconnected,
         engine' = [engine EXCEPT ![current.owner].command = "deactivate"],
         step' = "closeDeactivating",
         UNCHANGED <<journalVars, job, current, counter, poisoned, selected, failed, boot>>
  PROVE  HandoverInv'
  <1>. USE DEF journalVars
  <1>1. /\ req' \in [Req -> RequestRecord] /\ Active' = {}
        /\ \A r \in Req : /\ req'[r].at \in {0, req[r].at}
                          /\ req'[r].at # 0 <=> req'[r].stage \in {"served", "orphaned"}
                          /\ req'[r].stage # "served"
    BY DisconnectedTypes DEF HandoverInv
  <1>2. /\ current.owner \in Engine /\ Used(current.owner)
        /\ engine' = [engine EXCEPT ![current.owner].command = "deactivate"]
        /\ boot' = boot /\ \A r \in Req : req'[r].at = req[r].at \/ req'[r].at = 0
    BY <1>1 DEF HandoverInv, OwnerOK
  <1>3. /\ Changes(current.owner) /\ engine'[current.owner].state = engine[current.owner].state
        /\ engine'[current.owner].generation = engine[current.owner].generation
        /\ engine'[current.owner].command = "deactivate"
    BY <1>2, AskFrame
  <1>4. /\ \A d \in Engine : EngineOK(d)'
        /\ AloneOK' /\ GenerationsIncrease' /\ HandlersFinishFirst'
    BY <1>2, AskFrame
  <1>5. HandoverTypeOK'
    BY <1>3, <1>1
       DEF HandoverInv, HandoverTypeOK, Step, Updating, Booting, Closing, Changes
  <1>6. OwnerOK' /\ JobOK' /\ JournalOK' /\ DiskOK'
    BY <1>3
       DEF HandoverInv, OwnerOK, Used, Changes, JobOK, Replacing, Updating, Promoting,
           Restoring, Booting, JournalOK, JournalAt, Moving, Resting, Closing, DiskOK
  <1>7. HoldersOK' /\ GrantsOK'
    <2>1. HoldersOK'
      BY <1>3 DEF HandoverInv, HoldersOK, OnlyHolds, Known, Alive, Quiet, OwnsStores,
         Resting, Closing, Changes
    <2>2. GrantsOK'
      BY <1>3 DEF HandoverInv, GrantsOK, Newer, Last, Changes
    <2>. QED
      BY <2>1, <2>2
  <1>8. AdmittedOK' /\ GateOK'
    BY <1>3, <1>1
       DEF HandoverInv, AdmittedOK, GateOK, Active, Serves, Resting, Closing, Shut,
           Promoting, Restoring, Booting, Changes
  <1>. QED
    BY <1>3, <1>4, <1>5, <1>6, <1>7, <1>8 DEF HandoverInv

(* The candidate is told to open the stores. *)
LEMMA PreviousReleasedKeeps ==
  ASSUME HandoverInv, PreviousReleased
  PROVE  HandoverInv'
  <1>. USE DEF PreviousReleased, hostVars
  <1>1. job.generation = counter /\ counter \in Nat
    BY DEF HandoverInv, HandoverTypeOK, JobOK, Promoting
  <1>2. /\ Record("activating", job.generation) \in Transition
        /\ Record("activating", job.generation).phase = "activating"
        /\ Record("activating", job.generation).generation = job.generation
        /\ Record("activating", job.generation).previous = current.release
        /\ Record("activating", job.generation).target = job.target
    BY RecordTypes
       DEF HandoverInv, HandoverTypeOK, OwnerOK, JobOK, Phase, Replacing, Updating
  <1>3. /\ disk' = memory' /\ memory' \in Journal /\ memory'.transition = Record("activating", job.generation)
        /\ memory'.generation = job.generation /\ memory'.selected = memory.selected
    BY <1>2, CheckpointTypes DEF HandoverInv, HandoverTypeOK, CheckpointOk, Write
  <1>4. \A d \in Engine : engine[d].boot = boot => engine[d].generation < counter + 1
    BY GenerationsBelow
  <1>5. counter \in Nat /\ job.generation = counter
    BY DEF HandoverInv, HandoverTypeOK, JobOK, OwnerOK, Promoting, Restoring
  <1>6. /\ job.candidate \in Engine /\ Used(job.candidate) /\ engine[job.candidate].boot = boot
        /\ job.generation \in Nat /\ Newer(job.generation) /\ Last(job.candidate) /\ OnlyHolds({job.candidate})
        /\ boot' = boot /\ req' = req
        /\ engine' = [engine EXCEPT ![job.candidate].command = "activate", ![job.candidate].generation = job.generation]
    BY DEF HandoverInv, HandoverTypeOK, OwnerOK, JobOK, GrantsOK, Replacing, Updating,
           Restoring,
           HoldersOK, OnlyHolds, Quiet, OwnsStores, EngineOK
  <1>7. /\ Changes(job.candidate) /\ engine'[job.candidate].state = engine[job.candidate].state
        /\ engine'[job.candidate].generation = job.generation
        /\ engine'[job.candidate].command = "activate"
    BY <1>6, GrantFrame
  <1>8. /\ \A d \in Engine : EngineOK(d)'
        /\ AloneOK' /\ GenerationsIncrease' /\ HandlersFinishFirst'
    BY <1>6, GrantFrame
  <1>9. HandoverTypeOK'
    BY <1>7, <1>3
       DEF HandoverInv, HandoverTypeOK, Step, Updating, Booting, Closing, Changes
  <1>10. OwnerOK' /\ JobOK'
    BY <1>7
       DEF HandoverInv, OwnerOK, Used, Changes, JobOK, Replacing, Updating, Promoting,
           Restoring, Booting
  <1>11. JournalOK'
    BY <1>7, <1>2, <1>3
       DEF HandoverInv, JournalOK, JournalAt, Moving, Resting, Closing, Booting,
           Changes
  <1>12. DiskOK'
    BY <1>7, <1>3, <1>1 DEF HandoverInv, DiskOK, Changes
  <1>13. HoldersOK'
    BY <1>7, <1>6
       DEF HandoverInv, HoldersOK, OnlyHolds, Known, Alive, Quiet, OwnsStores,
           Resting, Closing, Changes
  <1>14. GrantsOK'
    BY <1>7, <1>6, <1>4, <1>5 DEF HandoverInv, GrantsOK, Newer, Last, Changes
  <1>15. AdmittedOK' /\ GateOK'
    BY <1>7, <1>3
       DEF HandoverInv, AdmittedOK, GateOK, Active, Serves, Resting, Closing, Shut,
           Promoting, Restoring, Booting, Changes
  <1>. QED
    BY <1>7, <1>8, <1>9, <1>10, <1>11, <1>12, <1>13, <1>14, <1>15 DEF HandoverInv

(* The restored engine is told to open the stores. *)
LEMMA RestorePreparedKeeps ==
  ASSUME HandoverInv, RestorePrepared
  PROVE  HandoverInv'
  <1>. USE DEF RestorePrepared, journalVars
  <1>1. \A d \in Engine : engine[d].boot = boot => engine[d].generation < counter + 1
    BY GenerationsBelow
  <1>2. counter \in Nat /\ counter = job.generation + 1
    BY DEF HandoverInv, HandoverTypeOK, JobOK, OwnerOK, Promoting, Restoring
  <1>3. /\ job.restored \in Engine /\ Used(job.restored) /\ engine[job.restored].boot = boot
        /\ job.generation + 1 \in Nat /\ Newer(job.generation + 1) /\ Last(job.restored) /\ OnlyHolds({job.restored})
        /\ boot' = boot /\ req' = req
        /\ engine' = [engine EXCEPT ![job.restored].command = "activate", ![job.restored].generation = job.generation + 1]
    BY DEF HandoverInv, HandoverTypeOK, OwnerOK, JobOK, GrantsOK, Replacing, Updating,
           Restoring,
           HoldersOK, OnlyHolds, Quiet, OwnsStores, EngineOK
  <1>4. /\ Changes(job.restored) /\ engine'[job.restored].state = engine[job.restored].state
        /\ engine'[job.restored].generation = job.generation + 1
        /\ engine'[job.restored].command = "activate"
    BY <1>3, GrantFrame
  <1>5. /\ \A d \in Engine : EngineOK(d)'
        /\ AloneOK' /\ GenerationsIncrease' /\ HandlersFinishFirst'
    BY <1>3, GrantFrame
  <1>6. HandoverTypeOK'
    BY <1>4 DEF HandoverInv, HandoverTypeOK, Step, Updating, Booting, Closing, Changes
  <1>7. OwnerOK' /\ JobOK' /\ JournalOK' /\ DiskOK'
    BY <1>4
       DEF HandoverInv, OwnerOK, Used, Changes, JobOK, Replacing, Updating, Promoting,
           Restoring, Booting, JournalOK, JournalAt, Moving, Resting, Closing, DiskOK
  <1>8. HoldersOK'
    BY <1>4, <1>3
       DEF HandoverInv, HoldersOK, OnlyHolds, Known, Alive, Quiet, OwnsStores,
           Resting, Closing, Changes
  <1>9. GrantsOK'
    BY <1>4, <1>3, <1>1, <1>2 DEF HandoverInv, GrantsOK, Newer, Last, Changes
  <1>10. AdmittedOK' /\ GateOK'
    BY <1>4
       DEF HandoverInv, AdmittedOK, GateOK, Active, Serves, Resting, Closing, Shut,
           Promoting, Restoring, Booting, Changes
  <1>. QED
    BY <1>4, <1>5, <1>6, <1>7, <1>8, <1>9, <1>10 DEF HandoverInv

(* The recovered engine is told to open the stores. *)
LEMMA BootPreparedKeeps ==
  ASSUME HandoverInv, BootPrepared
  PROVE  HandoverInv'
  <1>. USE DEF BootPrepared, journalVars
  <1>1. \A d \in Engine : engine[d].boot = boot => engine[d].generation < counter + 1
    BY GenerationsBelow
  <1>2. counter \in Nat /\ current.generation <= counter /\ current.generation \in Nat
    BY DEF HandoverInv, HandoverTypeOK, JobOK, OwnerOK, Promoting, Restoring
  <1>3. /\ current.owner \in Engine /\ Used(current.owner) /\ engine[current.owner].boot = boot
        /\ current.generation \in Nat /\ Newer(current.generation) /\ Last(current.owner) /\ OnlyHolds({current.owner})
        /\ boot' = boot /\ req' = req
        /\ engine' = [engine EXCEPT ![current.owner].command = "activate", ![current.owner].generation = current.generation]
    BY DEF HandoverInv, HandoverTypeOK, OwnerOK, JobOK, GrantsOK, Replacing, Updating,
           Restoring,
           HoldersOK, OnlyHolds, Quiet, OwnsStores, EngineOK
  <1>4. /\ Changes(current.owner) /\ engine'[current.owner].state = engine[current.owner].state
        /\ engine'[current.owner].generation = current.generation
        /\ engine'[current.owner].command = "activate"
    BY <1>3, GrantFrame
  <1>5. /\ \A d \in Engine : EngineOK(d)'
        /\ AloneOK' /\ GenerationsIncrease' /\ HandlersFinishFirst'
    BY <1>3, GrantFrame
  <1>6. HandoverTypeOK'
    BY <1>4 DEF HandoverInv, HandoverTypeOK, Step, Updating, Booting, Closing, Changes
  <1>7. OwnerOK' /\ JobOK' /\ JournalOK' /\ DiskOK'
    BY <1>4
       DEF HandoverInv, OwnerOK, Used, Booting, Changes, JobOK, Replacing, Updating,
           Promoting, Restoring, JournalOK, JournalAt, Moving, Resting, Closing,
           DiskOK
  <1>8. HoldersOK'
    BY <1>4, <1>3
       DEF HandoverInv, HoldersOK, OnlyHolds, Known, Alive, Quiet, OwnsStores,
           Resting, Closing, Booting, Changes
  <1>9. GrantsOK'
    BY <1>4, <1>3, <1>1, <1>2 DEF HandoverInv, GrantsOK, Newer, Last, Changes
  <1>10. AdmittedOK' /\ GateOK'
    BY <1>4
       DEF HandoverInv, AdmittedOK, GateOK, Active, Serves, Resting, Closing, Shut,
           Promoting, Restoring, Booting, Changes
  <1>. QED
    BY <1>4, <1>5, <1>6, <1>7, <1>8, <1>9, <1>10 DEF HandoverInv

-----------------------------------------------------------------------------
(* The workers, and the requests they handle. *)

(* What a worker may do to its own record, and to the gate, without         *)
(* disturbing what the controller relies on.                                *)
LEMMA WorkerFrame ==
  ASSUME HandoverInv, NEW e \in Engine, Changes(e),
         engine'[e].generation = engine[e].generation, Used(e), Used(e)',
         engine'[e].command = "activate" => engine[e].command = "activate",
         Known(e)' => Known(e), Known(e)' /\ Quiet(e) => Quiet(e)',
         engine'[e].command = "released" => engine'[e].state = "prepared",
         engine'[e].command = "activated" => engine'[e].state = "active",
         Serves(e) => Serves(e)',
         admission' = admission \/ (admission = "open" /\ admission' = "paused"),
         \A r \in Req : req'[r] = req[r] \/ req'[r] = NoRequest,
         UNCHANGED <<journalVars, step, job, current, counter, poisoned, selected, closing>>
  PROVE  /\ \A d \in Engine : EngineOK(d)'
         /\ GenerationsIncrease' /\ OwnerOK' /\ JobOK' /\ JournalOK' /\ DiskOK'
         /\ HoldersOK' /\ AloneOK' /\ GrantsOK' /\ AdmittedOK' /\ GateOK'
  <1>. USE DEF journalVars
  <1>1. \A d \in Engine : /\ Used(d)' <=> Used(d)
                          /\ Known(d)' => Known(d)
                          /\ Known(d)' /\ Quiet(d) => Quiet(d)'
                          /\ engine'[d].generation = engine[d].generation
                          /\ engine'[d].boot = engine[d].boot
                          /\ engine'[d].release = engine[d].release
                          /\ engine'[d].expected = engine[d].expected
                          /\ engine'[d].command = "activate" => engine[d].command = "activate"
    BY DEF Changes, Used, Known, Alive, Quiet, OwnsStores
  <1>2. \A d \in Engine : engine[d] = Unused => engine'[d] = Unused
    BY UnusedType DEF Changes, Used
  <1>3. \A n \in 0..MaxEngines : Serves(n) => Serves(n)'
    BY EngineNumbers DEF Changes, Serves
  <1>4. /\ Active' \subseteq Active
        /\ \A r \in Req : req'[r].stage = "served" => req[r].stage = "served" /\ req'[r] = req[r]
    BY NoJobTypes DEF Active
  <1>5. /\ selected \in 0..MaxEngines /\ current.owner \in 0..MaxEngines
        /\ job.candidate \in 0..MaxEngines
    BY DEF HandoverInv, HandoverTypeOK
  <1>6. \A d \in Engine : EngineOK(d)'
    <2>1. \A d \in Engine : EngineOK(d)
      BY DEF HandoverInv
    <2>2. \A d \in Engine : engine'[d].state = "unused" => engine'[d] = Unused
      BY <2>1, <1>1, <1>2 DEF EngineOK, Used
    <2>. QED
      BY <2>1, <2>2, <1>1 DEF EngineOK, Changes
  <1>7. GenerationsIncrease'
    BY <1>1 DEF HandoverInv, GenerationsIncrease
  <1>8. OwnerOK'
    BY <1>1 DEF HandoverInv, OwnerOK, Changes
  <1>9. JobOK'
    BY <1>1
       DEF HandoverInv, JobOK, OwnerOK, Changes, Replacing, Updating, Promoting,
           Booting, Restoring
  <1>10. JournalOK' /\ DiskOK'
    BY DEF HandoverInv, JournalOK, JournalAt, Moving, DiskOK
  <1>11. HoldersOK'
    BY <1>1 DEF HandoverInv, HoldersOK, OnlyHolds
  <1>12. AloneOK'
    BY <1>1 DEF HandoverInv, AloneOK
  <1>13. GrantsOK'
    BY <1>1, <1>2 DEF HandoverInv, GrantsOK, Newer, Last, Changes
  <1>14. AdmittedOK'
    BY <1>3, <1>4, <1>5 DEF HandoverInv, AdmittedOK
  <1>15. GateOK'
    BY <1>3, <1>4, <1>5 DEF HandoverInv, GateOK
  <1>. QED
    BY <1>6, <1>7, <1>8, <1>9, <1>10, <1>11, <1>12, <1>13, <1>14, <1>15

(* A worker that changes its state and answers. *)
LEMMA WorkerKeeps ==
  ASSUME HandoverInv, NEW e \in Engine, NEW c \in Commands,
         NEW s \in {"starting", "prepared", "active", "partial", "closing"},
         Answers(e, s, c),
         UNCHANGED <<journalVars, hostVars, admission, boot, req>>,
         Alive(e), c = "activate" => engine[e].command = "activate",
         Quiet(e) => s \in {"starting", "prepared"},
         c = "released" => s = "prepared", c = "activated" => s = "active", ~Serves(e),
         OwnsStores(e) => s \in {"active", "partial", "closing"} \/ Handlers(e) = {}
  PROVE  HandoverInv'
  <1>. USE DEF hostVars, journalVars
  <1>1. HandoverTypeOK /\ s \in {"starting", "prepared", "active", "partial", "closing", "exited"}
    BY DEF HandoverInv
  <1>2. /\ engine' \in [Engine -> EngineRecord]
        /\ \A d \in Engine : d # e => engine'[d] = engine[d]
        /\ engine'[e].state = s /\ engine'[e].release = engine[e].release
        /\ engine'[e].generation = engine[e].generation
        /\ engine'[e].boot = engine[e].boot /\ engine'[e].command = c
        /\ engine'[e].expected = engine[e].expected
    BY <1>1, StateTypes
  <1>3. Changes(e) /\ Used(e) /\ Used(e)' /\ (Known(e)' => Known(e))
    BY <1>2 DEF Changes, Used, Known, Alive
  <1>4. Known(e)' /\ Quiet(e) => Quiet(e)'
    BY <1>2 DEF Quiet, OwnsStores
  <1>5. /\ \A d \in Engine : EngineOK(d)'
        /\ GenerationsIncrease' /\ OwnerOK' /\ JobOK' /\ JournalOK' /\ DiskOK'
        /\ HoldersOK' /\ AloneOK' /\ GrantsOK' /\ AdmittedOK' /\ GateOK'
    BY <1>2, <1>3, <1>4, WorkerFrame
  <1>6. HandoverTypeOK'
    BY <1>1, <1>2 DEF HandoverTypeOK
  <1>7. \A d \in Engine : OwnsStores(d) => OwnsStores(d)' \/ Handlers(d)' = {}
    BY <1>2 DEF OwnsStores, Handlers
  <1>8. HandlersFinishFirst'
    BY <1>7, HandlersStay
  <1>. QED
    BY <1>5, <1>6, <1>8 DEF HandoverInv

(* A process reports that it is prepared. *)
LEMMA EngineReadyKeeps ==
  ASSUME HandoverInv, NEW e \in Engine, EngineReady(e)
  PROVE  HandoverInv'
  <1>1. engine[e].command \in Commands
    BY DEF HandoverInv, HandoverTypeOK, EngineRecord, Commands
  <1>2. /\ engine[e].command # "activated" /\ engine[e].command # "released"
        /\ Alive(e) /\ ~OwnsStores(e) /\ ~Serves(e)
    BY DEF HandoverInv, EngineOK, EngineReady, Alive, OwnsStores, Serves
  <1>3. /\ Answers(e, "prepared", engine[e].command)
        /\ UNCHANGED <<journalVars, hostVars, admission, boot, req>>
    BY DEF Answers, EngineReady
  <1>. QED
    BY <1>1, <1>2, <1>3, WorkerKeeps

(* A worker opens the stores, fails to, or is refused the lock. *)
LEMMA WorkerActivatesKeeps ==
  ASSUME HandoverInv, NEW e \in Engine, WorkerActivates(e)
  PROVE  HandoverInv'
  <1>1. /\ engine[e].state = "prepared"
        /\ {"activated", "refused"} \subseteq Commands
        /\ Alive(e) /\ ~OwnsStores(e) /\ ~Quiet(e) /\ ~Serves(e)
        /\ UNCHANGED <<journalVars, hostVars, admission, boot, req>>
    BY DEF HandoverInv, HandoverTypeOK, EngineRecord, Commands, WorkerActivates, Alive,
           OwnsStores, Quiet, Serves
  <1>2. CASE engine' = [engine EXCEPT ![e].state = "active", ![e].command = "activated"]
    <2>1. Answers(e, "active", "activated")
      BY <1>2 DEF Answers
    <2>. QED
      BY <1>1, <2>1, WorkerKeeps
  <1>3. CASE engine' = [engine EXCEPT ![e].state = "partial", ![e].command = "refused"]
    <2>1. Answers(e, "partial", "refused")
      BY <1>3 DEF Answers
    <2>. QED
      BY <1>1, <2>1, WorkerKeeps
  <1>4. CASE engine' = [engine EXCEPT ![e].command = "refused"]
    <2>0. engine' = [engine EXCEPT ![e].state = "prepared", ![e].command = "refused"]
      BY <1>1, <1>4 DEF HandoverInv, HandoverTypeOK, EngineRecord
    <2>1. Answers(e, "prepared", "refused")
      BY <2>0 DEF Answers
    <2>. QED
      BY <1>1, <2>1, WorkerKeeps
  <1>. QED
    BY <1>2, <1>3, <1>4 DEF WorkerActivates

(* A worker releases the stores, or does not manage to. *)
LEMMA WorkerDeactivatesKeeps ==
  ASSUME HandoverInv, NEW e \in Engine, WorkerDeactivates(e)
  PROVE  HandoverInv'
  <1>1. /\ engine[e].state \in {"prepared", "active", "closing", "partial"}
        /\ {"released", "refused"} \subseteq Commands
        /\ Alive(e) /\ ~Serves(e)
        /\ UNCHANGED <<journalVars, hostVars, admission, boot, req>>
    BY DEF HandoverInv, HandoverTypeOK, EngineRecord, Commands, WorkerDeactivates,
           Alive, Serves
  <1>2. CASE /\ Handlers(e) = {}
             /\ engine' = [engine EXCEPT ![e].state = "prepared", ![e].command = "released"]
    <2>1. Answers(e, "prepared", "released")
      BY <1>2 DEF Answers
    <2>. QED
      BY <1>1, <1>2, <2>1, WorkerKeeps
  <1>3. CASE /\ engine[e].state \in {"active", "closing"}
             /\ engine' = [engine EXCEPT ![e].state = "closing", ![e].command = "refused"]
    <2>1. OwnsStores(e) /\ ~Quiet(e)
      BY <1>3 DEF OwnsStores, Quiet
    <2>2. Answers(e, "closing", "refused")
      BY <1>3 DEF Answers
    <2>. QED
      BY <1>1, <2>1, <2>2, WorkerKeeps
  <1>4. CASE engine[e].state = "partial" /\ engine' = [engine EXCEPT ![e].command = "refused"]
    <2>1. engine' = [engine EXCEPT ![e].state = "partial", ![e].command = "refused"]
      BY <1>1, <1>4 DEF HandoverInv, HandoverTypeOK, EngineRecord
    <2>2. OwnsStores(e) /\ ~Quiet(e)
      BY <1>4 DEF OwnsStores, Quiet
    <2>3. Answers(e, "partial", "refused")
      BY <2>1 DEF Answers
    <2>. QED
      BY <1>1, <2>2, <2>3, WorkerKeeps
  <1>. QED
    BY <1>2, <1>3, <1>4 DEF WorkerDeactivates

(* A process ends. *)
LEMMA EngineExitsKeeps ==
  ASSUME HandoverInv, NEW e \in Engine, EngineExits(e)
  PROVE  HandoverInv'
  <1>1. HandoverTypeOK /\ "none" \in Commands
    BY DEF HandoverInv, HandoverTypeOK, EngineRecord, Commands
  <1>2. /\ engine' \in [Engine -> EngineRecord]
        /\ \A d \in Engine : d # e => engine'[d] = engine[d]
        /\ engine'[e].state = "exited" /\ engine'[e].release = engine[e].release
        /\ engine'[e].generation = engine[e].generation
        /\ engine'[e].boot = engine[e].boot /\ engine'[e].command = "none"
        /\ engine'[e].expected = engine[e].expected
    <2>1. Answers(e, "exited", "none")
      BY DEF Answers, EngineExits
    <2>. QED
      BY <1>1, <2>1, StateTypes
  <1>. USE DEF EngineExits, Pause, journalVars
  <1>3. Changes(e) /\ Used(e) /\ Used(e)' /\ ~Known(e)'
    BY <1>2 DEF Changes, Used, Known, Alive
  <1>4. Serves(e) => Serves(e)'
    BY <1>2 DEF Serves
  <1>5. \A r \in Req : req'[r] = IF req[r].at = e THEN NoRequest ELSE req[r]
    BY <1>1 DEF HandoverTypeOK
  <1>6. admission' = admission \/ (admission = "open" /\ admission' = "paused")
    BY <1>1 DEF HandoverTypeOK
  <1>7. /\ \A d \in Engine : EngineOK(d)'
        /\ GenerationsIncrease' /\ OwnerOK' /\ JobOK' /\ JournalOK' /\ DiskOK'
        /\ HoldersOK' /\ AloneOK' /\ GrantsOK' /\ AdmittedOK' /\ GateOK'
    BY <1>2, <1>3, <1>4, <1>5, <1>6, WorkerFrame
  <1>8. HandoverTypeOK'
    <2>1. req' \in [Req -> RequestRecord]
      BY <1>1, NoJobTypes DEF HandoverTypeOK
    <2>2. \A r \in Req : req'[r].at # 0 <=> req'[r].stage \in {"served", "orphaned"}
      BY <1>1, <1>5, NoJobTypes DEF HandoverTypeOK
    <2>. QED
      BY <1>1, <1>2, <1>6, <2>1, <2>2 DEF HandoverTypeOK
  <1>9. HandlersFinishFirst'
    <2>1. \A r \in Req : req'[r].at = req[r].at \/ req'[r].at = 0
      BY <1>5, NoJobTypes
    <2>2. Handlers(e)' = {}
      BY <1>5, NoJobTypes, EngineNumbers DEF Handlers
    <2>3. \A d \in Engine : OwnsStores(d) => OwnsStores(d)' \/ Handlers(d)' = {}
      BY <1>2, <2>2 DEF OwnsStores
    <2>. QED
      BY <2>1, <2>3, HandlersStay
  <1>. QED
    BY <1>7, <1>8, <1>9 DEF HandoverInv

(* A request is forwarded to the engine selected now. *)
LEMMA ForwardKeeps ==
  ASSUME HandoverInv, NEW r \in Req, Forward(r)
  PROVE  HandoverInv'
  <1>. USE DEF Forward, hostVars, journalVars
  <1>1. req' \in [Req -> RequestRecord] /\ Active' \subseteq Active
    BY NoJobTypes DEF HandoverInv, HandoverTypeOK, RequestRecord, Active
  <1>2. \A q \in Req : req'[q] = req[q] \/ req'[q] = NoRequest
          \/ /\ req'[q] = [stage |-> "served", at |-> selected]
             /\ selected # 0 /\ engine[selected].state = "active"
    BY DEF HandoverInv, HandoverTypeOK
  <1>3. \A q \in Req : req'[q].at # 0 <=> req'[q].stage \in {"served", "orphaned"}
    BY <1>2, NoJobTypes DEF HandoverInv, HandoverTypeOK
  <1>4. \A q \in Req : req'[q].stage = "served" => req'[q].at = selected
    BY <1>2, NoJobTypes DEF HandoverInv, GateOK
  <1>5. ASSUME NEW e \in Engine, NEW q \in Req, req'[q].at = e
        PROVE  OwnsStores(e)
    <2>1. CASE req'[q] = req[q]
      BY <1>5, <2>1 DEF HandoverInv, HandlersFinishFirst, Handlers
    <2>2. CASE req'[q] = NoRequest
      BY <1>5, <2>2, NoJobTypes, EngineNumbers
    <2>3. CASE req'[q].at = selected /\ engine[selected].state = "active"
      BY <1>5, <2>3 DEF OwnsStores
    <2>. QED
      BY <1>2, <2>1, <2>2, <2>3
  <1>6. Keeps({})
    BY SameKeeps DEF HandoverInv
  <1>7. HandlersFinishFirst'
    BY <1>5 DEF HandlersFinishFirst, Handlers, OwnsStores
  <1>8. (\A e \in Engine : EngineOK(e)') /\ AloneOK' /\ GenerationsIncrease'
    BY <1>6, KeepsFrame
  <1>9. HandoverTypeOK'
    BY <1>1, <1>3 DEF HandoverInv, HandoverTypeOK, Step, Updating, Booting, Closing
  <1>10. OwnerOK' /\ JobOK' /\ JournalOK' /\ DiskOK'
    BY DEF HandoverInv, OwnerOK, Used, JobOK, Replacing, Updating, Promoting,
           Restoring, Booting, JournalOK, JournalAt, Moving, Resting, Closing, DiskOK
  <1>11. HoldersOK' /\ GrantsOK'
    <2>1. HoldersOK'
      BY DEF HandoverInv, HoldersOK, OnlyHolds, Known, Alive, Quiet, OwnsStores, Resting,
         Closing
    <2>2. GrantsOK'
      BY DEF HandoverInv, GrantsOK, Newer, Last
    <2>. QED
      BY <2>1, <2>2
  <1>12. AdmittedOK'
    BY <1>1
       DEF HandoverInv, AdmittedOK, GateOK, Active, Serves, Resting, Closing, Shut,
           Promoting, Restoring, Booting
  <1>13. GateOK'
    BY <1>1, <1>4
       DEF HandoverInv, GateOK, Active, Serves, Shut, Closing, Promoting, Restoring,
           Booting
  <1>. QED
    BY <1>7, <1>8, <1>9, <1>10, <1>11, <1>12, <1>13 DEF HandoverInv

-----------------------------------------------------------------------------
(* The steps that start an engine. *)

(* An engine is started: the next unused one, of the release. *)
LEMMA SpawnFrame ==
  ASSUME HandoverInv, NEW e \in Engine, IsNext(e), NEW release \in Release,
         NEW b \in 0..MaxBoots, b = boot \/ b = boot + 1, boot' = b, req' = req,
         engine' = Spawned(e, release, b)
  PROVE  /\ engine' \in [Engine -> EngineRecord]
         /\ \A d \in Engine : d # e => engine'[d] = engine[d]
         /\ \A d \in Engine : Used(d) => d # e /\ Used(d)'
         /\ engine'[e].state = "starting" /\ engine'[e].release = release
         /\ engine'[e].generation = 0 /\ engine'[e].boot = b
         /\ engine'[e].command = "none" /\ ~engine'[e].expected
         /\ Used(e)' /\ Quiet(e)' /\ Last(e)'
         /\ \A d \in Engine : d # e /\ Known(d)' => b = boot /\ Known(d)
         /\ (\A d \in Engine : EngineOK(d)') /\ AloneOK' /\ GenerationsIncrease'
         /\ HandlersFinishFirst'
  <1>1. HandoverTypeOK /\ (\A d \in Engine : EngineOK(d)) /\ engine[e] = Unused
    BY DEF HandoverInv, EngineOK, IsNext
  <1>2. /\ engine' \in [Engine -> EngineRecord]
        /\ \A d \in Engine : d # e => engine'[d] = engine[d]
        /\ engine'[e].state = "starting" /\ engine'[e].release = release
        /\ engine'[e].generation = 0 /\ engine'[e].boot = b
        /\ engine'[e].command = "none" /\ ~engine'[e].expected
    BY <1>1, SpawnTypes
  <1>3. /\ \A d \in Engine : Used(d) => d # e /\ Used(d)'
        /\ Used(e)' /\ Quiet(e)'
    BY <1>1, <1>2, UnusedType DEF Used, Quiet, OwnsStores
  <1>4. \A d \in Engine : d > e => engine[d] = Unused
    BY <1>1, UnusedType DEF EngineOK, Used
  <1>5. Last(e)'
    BY <1>2, <1>4, EngineNumbers DEF Last
  <1>6. boot \in Nat /\ \A d \in Engine : engine[d].boot \in Nat /\ engine[d].boot <= boot
    BY <1>1, HandoverAssumption DEF HandoverTypeOK, EngineRecord, EngineOK
  <1>7. \A d \in Engine : d # e /\ Known(d)' => b = boot /\ Known(d)
    BY <1>2, <1>6 DEF Known, Alive
  <1>8. \A d \in Engine : EngineOK(d)'
    <2>1. ASSUME NEW d \in Engine, NEW c \in Engine, c < d, Used(d)'
          PROVE  Used(c)'
      BY <2>1, <1>1, <1>2, <1>3 DEF EngineOK, IsNext, Used
    <2>2. \A d \in Engine : engine'[d].boot <= boot'
      BY <1>2, <1>6
    <2>. QED
      BY <2>1, <2>2, <1>1, <1>2 DEF EngineOK
  <1>9. AloneOK'
    BY <1>2, <1>3, <1>7 DEF HandoverInv, AloneOK, Quiet, OwnsStores
  <1>10. GenerationsIncrease'
    BY <1>2 DEF HandoverInv, GenerationsIncrease
  <1>11. \A d \in Engine : OwnsStores(d) => OwnsStores(d)'
    BY <1>1, <1>2, UnusedType DEF OwnsStores
  <1>12. HandlersFinishFirst'
    BY <1>11, HandlersStay
  <1>. QED
    BY <1>2, <1>3, <1>5, <1>7, <1>8, <1>9, <1>10, <1>12

(* A candidate is started. *)
LEMMA ReplaceKeeps ==
  ASSUME HandoverInv, NEW release \in Release, Replace(release)
  PROVE  HandoverInv'
  <1>. USE DEF Replace, NextGeneration, journalVars
  <1>1. PICK e \in Engine :
          /\ IsNext(e)
          /\ engine' = Spawned(e, release, boot)
          /\ job' = [NoJob EXCEPT !.target = release, !.candidate = e,
                                  !.generation = NextGeneration]
    OBVIOUS
  <1>2. /\ IsNext(e) /\ engine' = Spawned(e, release, boot) /\ boot \in 0..MaxBoots
        /\ boot' = boot /\ req' = req
    BY <1>1 DEF HandoverInv, HandoverTypeOK
  <1>3. \A d \in Engine : engine[d].boot = boot =>
          engine[d].generation < counter + 1 /\ engine[d].generation < counter + 2
    BY GenerationsBelow
  <1>4. counter \in Nat /\ counter' = counter + 1 /\ current.generation \in Nat
        /\ (memory.generation <= counter => memory.generation < counter')
        /\ (current.generation <= counter => current.generation <= counter')
    BY DEF HandoverInv, HandoverTypeOK, Journal
  <1>5. /\ job' \in [target : Release \cup {NoRelease}, candidate : 0..MaxEngines,
                   generation : Nat, released : BOOLEAN, restored : 0..MaxEngines]
        /\ job'.target = release /\ job'.candidate = e /\ job'.generation = counter'
        /\ ~job'.released
    <2>1. e \in 0..MaxEngines /\ NextGeneration = counter' /\ counter' \in Nat
      BY <1>4, EngineNumbers
    <2>2. job' = [NoJob EXCEPT !.target = release, !.candidate = e, !.generation = counter']
      BY <1>1, <2>1
    <2>. QED
      BY <2>1, <2>2, NoJobTypes
  <1>6. /\ memory.transition.phase \in {"none", "prepared", "ready", "failed"}
        /\ memory.selected = current.release /\ memory.generation \in Nat
        /\ memory.generation <= counter
        /\ disk.generation \in Nat /\ disk.generation <= counter
    BY DEF HandoverInv, HandoverTypeOK, Journal, JournalOK, DiskOK, Resting
  <1>7. memory.generation < counter' /\ memory.generation <= counter'
    BY <1>4, <1>6
  <1>8. /\ engine' \in [Engine -> EngineRecord]
        /\ \A d \in Engine : d # e => engine'[d] = engine[d]
        /\ \A d \in Engine : Used(d) => d # e /\ Used(d)'
        /\ engine'[e].state = "starting" /\ engine'[e].release = release
        /\ engine'[e].generation = 0 /\ engine'[e].boot = boot
        /\ engine'[e].command = "none" /\ ~engine'[e].expected
        /\ Used(e)' /\ Quiet(e)' /\ Last(e)'
        /\ \A d \in Engine : d # e /\ Known(d)' => boot = boot /\ Known(d)
    BY <1>2, SpawnFrame
  <1>9. /\ \A d \in Engine : EngineOK(d)'
        /\ AloneOK' /\ GenerationsIncrease' /\ HandlersFinishFirst'
    BY <1>2, SpawnFrame
  <1>10. HandoverTypeOK'
    BY <1>8, <1>5, <1>4
       DEF HandoverInv, HandoverTypeOK, Step, Updating, Booting, Closing
  <1>11. OwnerOK'
    BY <1>8, <1>4 DEF HandoverInv, OwnerOK, Used
  <1>12. JobOK'
    BY <1>8, <1>5, <1>1
       DEF HandoverInv, JobOK, Used, Replacing, Updating, Promoting, Restoring,
           Booting, OwnerOK
  <1>13. JournalOK'
    BY <1>8, <1>6, <1>7
       DEF HandoverInv, JournalOK, JournalAt, Moving, Resting, Closing, Booting
  <1>14. DiskOK'
    BY <1>8, <1>6, <1>4 DEF HandoverInv, DiskOK
  <1>15. HoldersOK'
    BY <1>8
       DEF HandoverInv, HoldersOK, OnlyHolds, Known, Alive, Quiet, OwnsStores,
           Resting, Closing
  <1>16. GrantsOK'
    BY <1>8, <1>3, <1>4, <1>5 DEF HandoverInv, GrantsOK, Newer, Last
  <1>17. AdmittedOK'
    BY <1>8, EngineNumbers
       DEF HandoverInv, AdmittedOK, GateOK, Active, Serves, Resting, Closing, Shut,
           Promoting, Restoring, Booting, OwnerOK
  <1>18. GateOK'
    BY <1>8
       DEF HandoverInv, GateOK, Active, Serves, Shut, Closing, Promoting, Restoring,
           Booting
  <1>. QED
    BY <1>8, <1>9, <1>10, <1>11, <1>12, <1>13, <1>14, <1>15, <1>16, <1>17, <1>18
       DEF HandoverInv

(* The previous owners are gone; their release is started again. *)
LEMMA PreviousStoppedKeeps ==
  ASSUME HandoverInv, PreviousStopped
  PROVE  HandoverInv'
  <1>. USE DEF PreviousStopped, journalVars
  <1>1. PICK e \in Engine :
          /\ IsNext(e)
          /\ engine' = Spawned(e, current.release, boot)
          /\ job' = [job EXCEPT !.restored = e]
    OBVIOUS
  <1>2. /\ IsNext(e) /\ engine' = Spawned(e, current.release, boot)
        /\ boot \in 0..MaxBoots /\ current.release \in Release
        /\ boot' = boot /\ req' = req
    BY <1>1 DEF HandoverInv, HandoverTypeOK, OwnerOK
  <1>3. /\ counter \in Nat /\ job.generation \in Nat /\ counter = job.generation + 1
        /\ Used(job.candidate) /\ job.candidate \in Engine
    BY DEF HandoverInv, HandoverTypeOK, JobOK, Restoring, Replacing, Updating
  <1>4. /\ job' \in [target : Release \cup {NoRelease}, candidate : 0..MaxEngines,
                   generation : Nat, released : BOOLEAN, restored : 0..MaxEngines]
        /\ job'.target = job.target /\ job'.candidate = job.candidate
        /\ job'.generation = job.generation /\ job'.released = job.released
        /\ job'.restored = e
    BY <1>1, EngineNumbers DEF HandoverInv, HandoverTypeOK
  <1>5. ~Known(current.owner)
    BY DEF HandoverInv, OwnerOK, Gone, PreviousOwners, Known
  <1>6. /\ engine' \in [Engine -> EngineRecord]
        /\ \A d \in Engine : d # e => engine'[d] = engine[d]
        /\ \A d \in Engine : Used(d) => d # e /\ Used(d)'
        /\ engine'[e].state = "starting" /\ engine'[e].release = current.release
        /\ engine'[e].generation = 0 /\ engine'[e].boot = boot
        /\ engine'[e].command = "none" /\ ~engine'[e].expected
        /\ Used(e)' /\ Quiet(e)' /\ Last(e)'
        /\ \A d \in Engine : d # e /\ Known(d)' => boot = boot /\ Known(d)
    BY <1>2, SpawnFrame
  <1>7. /\ \A d \in Engine : EngineOK(d)'
        /\ AloneOK' /\ GenerationsIncrease' /\ HandlersFinishFirst'
    BY <1>2, SpawnFrame
  <1>8. HandoverTypeOK'
    BY <1>6, <1>4 DEF HandoverInv, HandoverTypeOK, Step, Updating, Booting, Closing
  <1>9. OwnerOK'
    BY <1>6 DEF HandoverInv, OwnerOK, Used
  <1>10. JobOK'
    BY <1>6, <1>4, <1>3, <1>2
       DEF HandoverInv, JobOK, Used, Replacing, Updating, Promoting, Restoring,
           Booting
  <1>11. JournalOK'
    BY <1>6, <1>4
       DEF HandoverInv, JournalOK, JournalAt, Moving, Resting, Closing, Booting
  <1>12. DiskOK'
    BY <1>6 DEF HandoverInv, DiskOK
  <1>13. HoldersOK'
    BY <1>6, <1>5
       DEF HandoverInv, HoldersOK, OnlyHolds, Known, Alive, Quiet, OwnsStores,
           Resting, Closing
  <1>14. GrantsOK'
    BY <1>6, <1>3, <1>4 DEF HandoverInv, GrantsOK, Newer, Last
  <1>15. AdmittedOK' /\ GateOK'
    BY <1>6
       DEF HandoverInv, AdmittedOK, GateOK, Active, Serves, Resting, Closing, Shut,
           Promoting, Restoring, Booting
  <1>. QED
    BY <1>6, <1>7, <1>8, <1>9, <1>10, <1>11, <1>12, <1>13, <1>14, <1>15 DEF HandoverInv

(* The host recovers. *)
LEMMA RecoverKeeps ==
  ASSUME HandoverInv, NEW release \in Release, Recover(release)
  PROVE  HandoverInv'
  <1>. USE DEF Recover, Write
  <1>1. PICK e \in Engine :
          /\ IsNext(e)
          /\ engine' = Spawned(e, release, boot + 1)
          /\ current' = [release |-> release, owner |-> e,
                         generation |-> disk.generation + 1]
    OBVIOUS
  <1>2. /\ IsNext(e) /\ engine' = Spawned(e, release, boot + 1)
        /\ boot + 1 \in 0..MaxBoots /\ boot' = boot + 1 /\ req' = req
    BY <1>1, HandoverAssumption DEF HandoverInv, HandoverTypeOK
  <1>3. /\ disk' = memory' /\ memory' \in Journal /\ memory'.selected = release
        /\ memory'.generation = counter' /\ memory'.transition.phase = "none"
        /\ counter' = disk.generation + 1 /\ counter' \in Nat /\ counter' > 0
    BY RecoveredTypes, EmptyTypes DEF HandoverInv, HandoverTypeOK, Journal
  <1>4. /\ current' \in [release : Release \cup {NoRelease}, owner : 0..MaxEngines,
                       generation : Nat]
        /\ current'.release = release /\ current'.owner = e
        /\ current'.generation = counter'
    BY <1>1, <1>3, EngineNumbers
  <1>5. \A d \in Engine : d # e => engine'[d].boot # boot'
    <2>1. \A d \in Engine : engine[d].boot \in Nat /\ engine[d].boot <= boot
      BY DEF HandoverInv, HandoverTypeOK, EngineRecord, EngineOK
    <2>2. boot \in Nat /\ \A d \in Engine : d # e => engine'[d] = engine[d]
      BY <1>2, SpawnFrame, HandoverAssumption DEF HandoverInv, HandoverTypeOK
    <2>. QED
      BY <1>2, <2>1, <2>2
  <1>6. ~(boot + 1 = boot)
    BY HandoverAssumption DEF HandoverInv, HandoverTypeOK
  <1>7. /\ engine' \in [Engine -> EngineRecord]
        /\ \A d \in Engine : d # e => engine'[d] = engine[d]
        /\ \A d \in Engine : Used(d) => d # e /\ Used(d)'
        /\ engine'[e].state = "starting" /\ engine'[e].release = release
        /\ engine'[e].generation = 0 /\ engine'[e].boot = boot + 1
        /\ engine'[e].command = "none" /\ ~engine'[e].expected
        /\ Used(e)' /\ Quiet(e)' /\ Last(e)'
        /\ \A d \in Engine : d # e /\ Known(d)' => boot + 1 = boot /\ Known(d)
    BY <1>2, SpawnFrame
  <1>8. /\ \A d \in Engine : EngineOK(d)'
        /\ AloneOK' /\ GenerationsIncrease' /\ HandlersFinishFirst'
    BY <1>2, SpawnFrame
  <1>9. HandoverTypeOK'
    BY <1>7, <1>3, <1>4, <1>2
       DEF HandoverInv, HandoverTypeOK, Step, Updating, Booting, Closing
  <1>10. OwnerOK'
    BY <1>7, <1>4, <1>3, <1>2 DEF HandoverInv, OwnerOK, Used
  <1>11. JobOK'
    BY <1>7, <1>4
       DEF HandoverInv, JobOK, Used, Replacing, Updating, Promoting, Restoring,
           Booting
  <1>12. JournalOK'
    BY <1>7, <1>4, <1>3
       DEF HandoverInv, JournalOK, JournalAt, Moving, Resting, Closing, Booting
  <1>13. DiskOK'
    BY <1>7, <1>3 DEF HandoverInv, DiskOK
  <1>14. HoldersOK'
    BY <1>7, <1>5, <1>6, <1>4
       DEF HandoverInv, HoldersOK, OnlyHolds, Known, Alive, Quiet, OwnsStores,
           Resting, Closing
  <1>15. GrantsOK'
    BY <1>7, <1>5, <1>4, <1>3, <1>2 DEF HandoverInv, GrantsOK, Newer, Last
  <1>16. AdmittedOK' /\ GateOK'
    BY <1>7, <1>3, <1>4
       DEF HandoverInv, AdmittedOK, GateOK, Active, Serves, Resting, Closing, Shut,
           Promoting, Restoring, Booting
  <1>. QED
    BY <1>7, <1>8, <1>9, <1>10, <1>11, <1>12, <1>13, <1>14, <1>15, <1>16 DEF HandoverInv

(* A recovery that fails: a generation is used up. *)
LEMMA RecoverFailsKeeps ==
  ASSUME HandoverInv, NEW release \in Release, RecoverFails(release)
  PROVE  HandoverInv'
  <1>. USE DEF RecoverFails, hostVars
  <1>1. disk' \in Journal /\ boot \in Nat /\ boot' = boot + 1 /\ boot' \in 0..MaxBoots
    BY RecoveredTypes, HandoverAssumption DEF HandoverInv, HandoverTypeOK
  <1>2. \A e \in Engine : engine[e].boot \in Nat /\ engine[e].boot <= boot
    BY DEF HandoverInv, HandoverTypeOK, EngineRecord, EngineOK
  <1>3. \A e \in Engine : ~Known(e)' /\ engine'[e].boot <= boot'
    BY <1>1, <1>2 DEF Known
  <1>4. HandoverTypeOK'
    BY <1>1 DEF HandoverInv, HandoverTypeOK
  <1>5. HandlersFinishFirst' /\ GenerationsIncrease'
    BY DEF HandoverInv, HandlersFinishFirst, Handlers, OwnsStores, GenerationsIncrease
  <1>6. \A e \in Engine : EngineOK(e)'
    BY <1>3 DEF HandoverInv, EngineOK, Used
  <1>7. OwnerOK' /\ JobOK' /\ JournalOK' /\ DiskOK'
    BY DEF HandoverInv, OwnerOK, JobOK, JournalOK, DiskOK, Replacing, Updating,
           Promoting, Restoring,
           Booting, Resting, Closing
  <1>8. HoldersOK' /\ AloneOK' /\ GrantsOK'
    BY <1>3 DEF HandoverInv, HoldersOK, AloneOK, GrantsOK, Resting, Closing
  <1>9. AdmittedOK' /\ GateOK'
    BY DEF HandoverInv, AdmittedOK, GateOK, Active, Serves, Resting, Closing, Shut,
           Promoting,
           Restoring, Booting
  <1>. QED
    BY <1>4, <1>5, <1>6, <1>7, <1>8, <1>9 DEF HandoverInv

(* The host process ends; its engines run on. *)
LEMMA HostDownKeeps ==
  ASSUME HandoverInv, HostDown
  PROVE  HandoverInv'
  <1>. USE DEF HostDown, hostVars, journalVars
  <1>1. /\ req' \in [Req -> RequestRecord] /\ Active' = {}
        /\ \A r \in Req : /\ req'[r].at \in {0, req[r].at}
                          /\ req'[r].at # 0 <=> req'[r].stage \in {"served", "orphaned"}
                          /\ req'[r].stage # "served"
    BY DisconnectedTypes DEF HandoverInv
  <1>2. /\ memory' \in Journal /\ counter' \in Nat /\ selected' \in 0..MaxEngines
        /\ job' \in [target : Release \cup {NoRelease}, candidate : 0..MaxEngines,
                   generation : Nat, released : BOOLEAN, restored : 0..MaxEngines]
        /\ current' \in [release : Release \cup {NoRelease}, owner : 0..MaxEngines,
                       generation : Nat]
    BY NoJobTypes, EmptyTypes, HandoverAssumption
  <1>3. Keeps({})
    BY SameKeeps DEF HandoverInv
  <1>4. HandlersFinishFirst'
    BY <1>3, <1>1, HandlersFrame
  <1>5. (\A e \in Engine : EngineOK(e)') /\ AloneOK' /\ GenerationsIncrease'
    BY <1>3, KeepsFrame
  <1>6. HandoverTypeOK'
    BY <1>1, <1>2 DEF HandoverInv, HandoverTypeOK, Step, Updating, Booting, Closing
  <1>7. OwnerOK' /\ JobOK' /\ JournalOK' /\ DiskOK'
    BY DEF HandoverInv, OwnerOK, Used, JobOK, Replacing, Updating, Promoting,
           Restoring, Booting, JournalOK, JournalAt, Moving, Resting, Closing, DiskOK
  <1>8. HoldersOK' /\ GrantsOK'
    <2>1. HoldersOK'
      BY DEF HandoverInv, HoldersOK, OnlyHolds, Known, Alive, Quiet, OwnsStores, Resting,
         Closing
    <2>2. GrantsOK'
      BY DEF HandoverInv, GrantsOK, Newer, Last
    <2>. QED
      BY <2>1, <2>2
  <1>9. AdmittedOK' /\ GateOK'
    BY <1>1
       DEF HandoverInv, AdmittedOK, GateOK, Active, Serves, Resting, Closing, Shut,
           Promoting, Restoring, Booting
  <1>. QED
    BY <1>4, <1>5, <1>6, <1>7, <1>8, <1>9 DEF HandoverInv

-----------------------------------------------------------------------------
(* The invariant, and what follows from it. *)

(* A host that never started has no job, no owner and an empty journal. *)
LEMMA InvariantInit == Init => HandoverInv
  <1>. SUFFICES ASSUME Init PROVE HandoverInv
    OBVIOUS
  <1>. USE DEF Init
  <1>1. HandoverTypeOK
    <2>1. engine \in [Engine -> EngineRecord] /\ req \in [Req -> RequestRecord]
      BY UnusedType, NoJobTypes
    <2>2. \A r \in Req : req[r].at = 0 /\ req[r].stage = "idle"
      BY NoJobTypes
    <2>3. disk \in Journal /\ memory \in Journal
      BY EmptyTypes
    <2>4. selected \in 0..MaxEngines /\ boot \in 0..MaxBoots /\ counter \in Nat /\ step \in Step
      BY HandoverAssumption DEF Step
    <2>. QED
      BY <2>1, <2>2, <2>3, <2>4, NoJobTypes DEF HandoverTypeOK
  <1>2. \A e \in Engine : engine[e] = Unused
    OBVIOUS
  <1>3. Active = {} /\ \A e \in Engine : Handlers(e) = {}
    BY NoJobTypes, EngineNumbers DEF Active, Handlers
  <1>4. HandlersFinishFirst /\ GenerationsIncrease
    BY <1>2, <1>3, UnusedType DEF HandlersFinishFirst, GenerationsIncrease
  <1>5. \A e \in Engine : EngineOK(e)
    BY <1>2, UnusedType DEF EngineOK, Used
  <1>6. OwnerOK /\ JobOK /\ JournalOK /\ DiskOK
    BY DEF DiskOK, OwnerOK, JobOK, JournalOK, Replacing, Updating, Promoting, Restoring, Booting,
           Resting, Closing
  <1>7. HoldersOK /\ AloneOK /\ GrantsOK
    BY <1>2, UnusedType DEF HoldersOK, AloneOK, GrantsOK, Known, Alive, Resting, Closing
  <1>8. AdmittedOK /\ GateOK
    BY <1>3, NoJobTypes DEF AdmittedOK, GateOK, Shut, Promoting, Restoring, Booting, Resting,
       Closing
  <1>. QED
    BY <1>1, <1>4, <1>5, <1>6, <1>7, <1>8 DEF HandoverInv

(* A step of a handover. *)
LEMMA HandoverStepKeeps ==
  ASSUME HandoverInv, HandoverStep
  PROVE  HandoverInv'
  <1>1. CASE CandidatePrepared
    BY <1>1, CandidatePausedKeeps, CandidateUnrecordedKeeps DEF CandidatePrepared
  <1>2. CASE Qualified
    BY <1>2, OwnerAskedKeeps, ReleaseUnrecordedKeeps DEF Qualified
  <1>3. CASE Fenced
    BY <1>3, OwnersFencedKeeps, AttemptFencedKeeps DEF Fenced
  <1>4. CASE Confirm
    BY <1>4, OthersRetiredKeeps, OwnerGoneKeeps DEF Confirm
  <1>5. CASE PrepareFails \/ Drained \/ AbortBeforeTransfer \/ PreviousReleased
             \/ CandidateActive \/ CommitTarget \/ Finish \/ TransferFails \/ FenceFails
    BY <1>5, PrepareFailsKeeps, DrainedKeeps, AbortBeforeTransferKeeps,
       PreviousReleasedKeeps, CandidateActiveKeeps, CommitTargetKeeps, FinishKeeps,
       TransferFailsKeeps, FenceFailsKeeps
  <1>6. CASE PreviousStopped \/ RestorePrepared \/ Restored \/ RestoreRecorded
             \/ RestoreFails \/ Cleaned \/ Retired
    BY <1>6, PreviousStoppedKeeps, RestorePreparedKeeps, RestoredKeeps,
       RestoreRecordedKeeps, RestoreFailsKeeps, CleanedKeeps, RetiredKeeps
  <1>. QED
    BY <1>1, <1>2, <1>3, <1>4, <1>5, <1>6 DEF HandoverStep

(* A step of the host. *)
LEMMA HostStepKeeps ==
  ASSUME HandoverInv, HostStep
  PROVE  HandoverInv'
  <1>1. CASE \E release \in Release : Replace(release) \/ Recover(release) \/ RecoverFails(release)
    BY <1>1, ReplaceKeeps, RecoverKeeps, RecoverFailsKeeps
  <1>2. CASE CloseAsks
    BY <1>2, OwnerAskedToCloseKeeps, CloseDiscardsKeeps DEF CloseAsks
  <1>3. CASE Closed \/ HostCrashes
    BY <1>3, HostDownKeeps DEF Closed, HostCrashes
  <1>4. CASE ReplaceSame \/ CloseReleased \/ CloseFails \/ BootPrepared \/ BootActive
    BY <1>4, ReplaceSameKeeps, CloseReleasedKeeps, CloseFailsKeeps, BootPreparedKeeps,
       BootActiveKeeps
  <1>. QED
    BY <1>1, <1>2, <1>3, <1>4 DEF HostStep

(* A step that changes nothing. *)
LEMMA StutterKeeps ==
  ASSUME HandoverInv, UNCHANGED vars
  PROVE  HandoverInv'
  <1>. USE DEF vars, hostVars, journalVars
  <1>1. Keeps({})
    BY SameKeeps DEF HandoverInv
  <1>2. HandlersFinishFirst'
    BY <1>1, HandlersFrame
  <1>3. (\A e \in Engine : EngineOK(e)') /\ AloneOK' /\ GenerationsIncrease'
    BY <1>1, KeepsFrame
  <1>4. HandoverTypeOK' /\ OwnerOK' /\ JobOK' /\ JournalOK' /\ DiskOK'
    BY DEF HandoverInv, HandoverTypeOK, OwnerOK, JobOK, JournalOK, DiskOK, JournalAt, Moving, Used
  <1>5. HoldersOK' /\ GrantsOK'
    <2>1. HoldersOK'
      BY DEF HandoverInv, HoldersOK, OnlyHolds, Known, Alive, Quiet, OwnsStores
    <2>2. GrantsOK'
      BY DEF HandoverInv, GrantsOK, Newer, Last
    <2>. QED
      BY <2>1, <2>2
  <1>6. AdmittedOK' /\ GateOK'
    BY DEF HandoverInv, AdmittedOK, GateOK, Active, Serves
  <1>. QED
    BY <1>2, <1>3, <1>4, <1>5, <1>6 DEF HandoverInv

(* Every step keeps the invariant. *)
LEMMA InvariantNext == HandoverInv /\ [Next]_vars => HandoverInv'
  <1>. SUFFICES ASSUME HandoverInv, [Next]_vars PROVE HandoverInv'
    OBVIOUS
  <1>1. CASE WorkerStep
    BY <1>1, EngineReadyKeeps, WorkerActivatesKeeps, WorkerDeactivatesKeeps DEF WorkerStep
  <1>2. CASE \E e \in Engine : EngineExits(e)
    BY <1>2, EngineExitsKeeps
  <1>3. CASE RequestStep
    BY <1>3, ArriveKeeps, ReenterKeeps, ForwardKeeps, ClientLeavesKeeps, HandlerEndsKeeps
       DEF RequestStep
  <1>4. CASE HandoverStep
    BY <1>4, HandoverStepKeeps
  <1>5. CASE HostStep
    BY <1>5, HostStepKeeps
  <1>6. CASE UNCHANGED vars
    BY <1>6, StutterKeeps
  <1>. QED
    BY <1>1, <1>2, <1>3, <1>4, <1>5, <1>6 DEF Next

(* The invariant holds in every reachable state. *)
THEOREM HandoverInvariant == Spec => []HandoverInv
  <1>. QED
    BY InvariantInit, InvariantNext, PTL DEF Spec

(* Types: every value the controller writes to the journal, the gate and   *)
(* the engine records is one of theirs.                                    *)
THEOREM HandoverTypeCorrect == Spec => []HandoverTypeOK
  <1>1. HandoverInv => HandoverTypeOK
    BY DEF HandoverInv
  <1>. QED
    BY <1>1, HandoverInvariant, PTL

(* RuntimeWorker.deactivate: an engine gives up its stores only when no     *)
(* handler runs in it, also not one whose client has gone.                  *)
THEOREM HandlersFinish == Spec => []HandlersFinishFirst
  <1>1. HandoverInv => HandlersFinishFirst
    BY DEF HandoverInv
  <1>. QED
    BY <1>1, HandoverInvariant, PTL

(* generationCounter: within one life of the host a later engine is granted *)
(* a newer generation, after any aborted attempts and rollbacks.            *)
THEOREM GenerationsOnlyGrow == Spec => []GenerationsIncrease
  <1>1. HandoverInv => GenerationsIncrease
    BY DEF HandoverInv
  <1>. QED
    BY <1>1, HandoverInvariant, PTL

(* The activate command is sent only when no other engine of the host owns  *)
(* the stores, or can still come to own them.                               *)
THEOREM ActivatedAlone == Spec => []ActivationUncontended
  <1>1. HandoverInv => ActivationUncontended
    BY DEF HandoverInv, AloneOK, Quiet, ActivationUncontended
  <1>. QED
    BY <1>1, HandoverInvariant, PTL

(* While the gate is open, the controller, the target of the ingress and    *)
(* the file agree on the release: a crash recovers the one that serves.     *)
THEOREM ServedIsRecorded == Spec => []ServingIsRecorded
  <1>1. HandoverInv => ServingIsRecorded
    <2>. SUFFICES ASSUME HandoverInv, admission = "open" PROVE
           /\ selected = current.owner /\ engine[selected].release = current.release
           /\ disk.selected = current.release /\ disk.generation >= current.generation
      BY DEF ServingIsRecorded
    <2>1. step # "down"
      BY DEF HandoverInv, GateOK
    <2>. QED
      BY <2>1 DEF HandoverInv, AdmittedOK, OwnerOK
  <1>. QED
    BY <1>1, HandoverInvariant, PTL

(* A request behind the gate is aimed at an engine that serves, or that     *)
(* died by itself: never at one asked to release, fenced or discarded.      *)
THEOREM AdmittedReach == Spec => []AdmittedReachOwner
  <1>1. HandoverInv => AdmittedReachOwner
    <2>. SUFFICES ASSUME HandoverInv, NEW r \in Active
                  PROVE  LET e == IF req[r].stage = "served" THEN req[r].at ELSE selected IN
                         /\ e # 0
                         /\ \/ engine[e].state = "active" /\ engine[e].command # "deactivate"
                            \/ engine[e].state = "exited" /\ ~engine[e].expected
      BY DEF AdmittedReachOwner
    <2>1. Serves(selected)
      BY DEF HandoverInv, AdmittedOK
    <2>2. req[r].stage = "served" => req[r].at = selected
      BY DEF HandoverInv, GateOK, Active
    <2>. QED
      BY <2>1, <2>2 DEF Serves
  <1>. QED
    BY <1>1, HandoverInvariant, PTL

(* The journal refuses stale and disordered writes; the controller's own    *)
(* are never among them, after any mixture of failures and retries.         *)
THEOREM JournalAccepts == Spec => []JournalNeverRefuses
  <1>1. HandoverInv => JournalNeverRefuses
    <2>. SUFFICES ASSUME HandoverInv PROVE JournalNeverRefuses
      OBVIOUS
    <2>0. /\ memory \in Journal /\ memory.generation \in Nat /\ counter \in Nat
          /\ job.generation \in Nat
      BY DEF HandoverInv, HandoverTypeOK, Journal
    <2>. DEFINE Fits(phase, g) == /\ Record(phase, g).phase = phase
                                  /\ Record(phase, g).generation = g
                                  /\ Record(phase, g).previous = current.release
                                  /\ Record(phase, g).target = job.target
    <2>1. \A phase \in Phase, g \in Nat : Fits(phase, g)
      BY DEF Record
    <2>2. NoTransition.phase = "none"
      BY EmptyTypes
    <2>3. step = "preparing" => CheckpointAllowed(Record("prepared", job.generation))
      BY <2>0, <2>1 DEF HandoverInv, JournalOK, JobOK, Promoting, CheckpointAllowed, Begins, Phase
    <2>4. step = "qualifying" => CheckpointAllowed(Record("releasing", job.generation))
      BY <2>0, <2>1, <2>2 DEF HandoverInv, JournalOK, JournalAt, Moving, CheckpointAllowed,
         Advances, SameTransition, Follows, Phase
    <2>5. step = "deactivating" => CheckpointAllowed(Record("activating", job.generation))
      BY <2>0, <2>1, <2>2 DEF HandoverInv, JournalOK, JournalAt, Moving, CheckpointAllowed,
         Advances, SameTransition, Follows, Phase
    <2>6. step = "activating" => CheckpointAllowed(Record("committing", job.generation))
      BY <2>0, <2>1, <2>2 DEF HandoverInv, JournalOK, JournalAt, Moving, CheckpointAllowed,
         Advances, SameTransition, Follows, Phase
    <2>7. step = "committing" => CommitAllowed(job.target, job.generation)
      BY <2>0, <2>2 DEF HandoverInv, JournalOK, JournalAt, Moving, CommitAllowed
    <2>8. step = "finishing" => CheckpointAllowed(Record("ready", job.generation))
      BY <2>0, <2>1, <2>2 DEF HandoverInv, JournalOK, JournalAt, Moving, CheckpointAllowed,
         Advances, SameTransition, Follows, Phase
    <2>9. step = "restoreActivating" => CommitAllowed(current.release, job.generation + 1)
      BY <2>0, <2>2 DEF HandoverInv, JournalOK, JobOK, Moving, CommitAllowed, Replacing, Updating
    <2>10. step = "restoreFinishing" => CheckpointAllowed(Record("failed", job.generation + 1))
      BY <2>0, <2>1, <2>2 DEF HandoverInv, JournalOK, Moving, CheckpointAllowed, Fails,
         SameTransition, Phase
    <2>. QED
      BY <2>3, <2>4, <2>5, <2>6, <2>7, <2>8, <2>9, <2>10 DEF JournalNeverRefuses
  <1>. QED
    BY <1>1, HandoverInvariant, PTL

-----------------------------------------------------------------------------
(* The file. *)

(* A write of the controller, also one that reports failure.                *)
LEMMA WriteRises ==
  ASSUME HandoverInv, step \in Replacing, NEW phase \in Phase, NEW g \in Nat, g = counter,
         NEW release \in Release,
         \/ CheckpointOk(Record(phase, g)) \/ CheckpointFails(Record(phase, g))
         \/ CommitOk(release, g) \/ CommitFails(release, g)
  PROVE  disk'.generation >= disk.generation
  <1>1. /\ memory \in Journal /\ disk.generation \in Nat /\ counter \in Nat
        /\ disk.generation <= counter
    BY DEF HandoverInv, HandoverTypeOK, Journal, DiskOK, Replacing, Updating
  <1>2. current.release \in Release /\ job.target \in Release
    BY DEF HandoverInv, OwnerOK, JobOK, Replacing, Updating
  <1>3. Record(phase, g) \in Transition /\ Record(phase, g).generation = g
    BY <1>2, RecordTypes
  <1>4. /\ Checkpointed(Record(phase, g)).generation = g
        /\ Committed(release, g).generation = g
    BY <1>1, <1>3, CheckpointTypes, CommitTypes
  <1>5. disk' \in {disk, Checkpointed(Record(phase, g)), Committed(release, g)}
    BY FailedCheckpoint, FailedCommit DEF CheckpointOk, CommitOk, Write
  <1>. QED
    BY <1>1, <1>4, <1>5

(* A step of the handover writes at the generation the controller counts.   *)
LEMMA HandoverRises ==
  ASSUME HandoverInv, HandoverStep
  PROVE  disk'.generation >= disk.generation
  <1>0. /\ counter \in Nat /\ disk.generation \in Nat /\ job.generation \in Nat
        /\ step # "down" => current.release \in Release
        /\ step \in Replacing => job.target \in Release
        /\ step \in Promoting => job.generation = counter
        /\ step \in Restoring => job.generation + 1 = counter
    BY DEF HandoverInv, HandoverTypeOK, Journal, OwnerOK, JobOK
  <1>1. disk' = disk => disk'.generation >= disk.generation
    BY <1>0
  <1>2. ASSUME step \in Promoting,
               \/ \E phase \in {"prepared", "releasing", "activating", "committing", "ready"} :
                    \/ CheckpointOk(Record(phase, job.generation))
                    \/ CheckpointFails(Record(phase, job.generation))
               \/ CommitOk(job.target, job.generation)
               \/ CommitFails(job.target, job.generation)
        PROVE  disk'.generation >= disk.generation
    <2>1. step \in Replacing /\ job.generation = counter /\ job.target \in Release
      BY <1>0, <1>2 DEF Promoting, Replacing, Updating
    <2>2. PICK phase \in Phase : \/ CheckpointOk(Record(phase, job.generation))
                                 \/ CheckpointFails(Record(phase, job.generation))
                                 \/ CommitOk(job.target, job.generation)
                                 \/ CommitFails(job.target, job.generation)
      BY <1>2 DEF Phase
    <2>. QED
      BY <1>0, <2>1, <2>2, WriteRises
  <1>3. ASSUME step \in Restoring,
               \/ CheckpointOk(Record("failed", job.generation + 1))
               \/ CheckpointFails(Record("failed", job.generation + 1))
               \/ CommitOk(current.release, job.generation + 1)
               \/ CommitFails(current.release, job.generation + 1)
        PROVE  disk'.generation >= disk.generation
    <2>1. /\ step \in Replacing /\ job.generation + 1 = counter /\ current.release \in Release
          /\ "failed" \in Phase /\ job.generation + 1 \in Nat
      BY <1>0, <1>3 DEF Restoring, Replacing, Updating, Phase
    <2>. QED
      BY <1>3, <2>1, WriteRises
  <1>4. CASE CandidatePrepared
    BY <1>4, <1>2 DEF CandidatePrepared, Promoting
  <1>5. CASE Qualified
    BY <1>5, <1>2 DEF Qualified, Promoting
  <1>6. CASE PreviousReleased \/ CandidateActive \/ CommitTarget \/ Finish
    BY <1>6, <1>2 DEF PreviousReleased, CandidateActive, CommitTarget, Finish, Promoting
  <1>7. CASE TransferFails
    BY <1>7, <1>1, <1>2 DEF TransferFails, Promoting, journalVars
  <1>8. CASE Restored \/ RestoreRecorded
    BY <1>8, <1>3 DEF Restored, RestoreRecorded, Restoring
  <1>9. CASE RestoreFails
    BY <1>9, <1>1, <1>3 DEF RestoreFails, Restoring, journalVars
  <1>10. CASE PrepareFails \/ Drained \/ AbortBeforeTransfer \/ Fenced \/ FenceFails
              \/ PreviousStopped \/ RestorePrepared \/ Cleaned \/ Confirm \/ Retired
    BY <1>10, <1>1 DEF PrepareFails, Drained, AbortBeforeTransfer, Fenced, FenceFails,
       PreviousStopped, RestorePrepared, Cleaned, Confirm, Retired, journalVars
  <1>. QED
    BY <1>4, <1>5, <1>6, <1>7, <1>8, <1>9, <1>10 DEF HandoverStep

(* So does every other step that touches the file.                          *)
LEMMA StepRises ==
  HandoverInv /\ [Next]_vars => disk'.generation >= disk.generation
  <1>. SUFFICES ASSUME HandoverInv, [Next]_vars PROVE disk'.generation >= disk.generation
    OBVIOUS
  <1>0. disk \in Journal /\ disk.generation \in Nat
    BY DEF HandoverInv, HandoverTypeOK, Journal
  <1>1. disk' = disk => disk'.generation >= disk.generation
    BY <1>0
  <1>2. CASE HandoverStep
    BY <1>2, HandoverRises
  <1>3. CASE \E release \in Release : Recover(release) \/ RecoverFails(release)
    <2>1. PICK release \in Release : disk' = Recovered(release)
      BY <1>3 DEF Recover, RecoverFails, Write
    <2>2. disk'.generation = disk.generation + 1
      BY <1>0, <2>1, RecoveredTypes
    <2>. QED
      BY <1>0, <2>2
  <1>4. CASE WorkerStep \/ (\E e \in Engine : EngineExits(e)) \/ RequestStep
    BY <1>4, <1>1 DEF WorkerStep, EngineReady, WorkerActivates, WorkerDeactivates, EngineExits,
       RequestStep, Arrive, Reenter, Forward, ClientLeaves, HandlerEnds, journalVars
  <1>5. CASE \/ \E release \in Release : Replace(release)
             \/ ReplaceSame \/ CloseAsks \/ CloseReleased \/ CloseFails \/ Closed
             \/ HostCrashes \/ BootPrepared \/ BootActive
    BY <1>5, <1>1 DEF Replace, ReplaceSame, CloseAsks, CloseReleased, CloseFails, Closed,
       HostCrashes, HostDown, BootPrepared, BootActive, journalVars
  <1>6. CASE UNCHANGED vars
    BY <1>6, <1>1 DEF vars, journalVars
  <1>. QED
    BY <1>2, <1>3, <1>4, <1>5, <1>6 DEF Next, HostStep

(* The generation in the file never goes back, over failed writes,          *)
(* rollbacks, crashes and recoveries: a later host grants newer ones.       *)
THEOREM RecordedGenerationOnlyRises == Spec => RecordedGenerationRises
  <1>1. HandoverInv /\ [Next]_vars => [disk'.generation >= disk.generation]_disk
    BY StepRises
  <1>. QED
    BY <1>1, HandoverInvariant, PTL DEF Spec, RecordedGenerationRises

-----------------------------------------------------------------------------
(* The ownership of the stores, behind the handover. *)

(* Which generation the engines of the job and the owner were granted, at   *)
(* a step, with a job and a current owner.                                  *)
TermsAt(s, j, c) ==
  /\ s # "down" => engine[c.owner].generation \in {0, c.generation}
  /\ s = "bootPreparing" => engine[c.owner].generation = 0
  /\ s \in {"preparing", "draining", "qualifying", "deactivating"} =>
       engine[j.candidate].generation = 0
  /\ s \in {"activating", "committing", "finishing"} =>
       engine[j.candidate].generation = j.generation
  /\ s \in {"restoring", "restoreActivating"} => j.restored # c.owner
  /\ s = "restoring" => engine[j.restored].generation = 0
  /\ s = "restoreActivating" => engine[j.restored].generation = j.generation + 1

(* Nothing owns the stores, or is told to, that no generation was granted;  *)
(* and only engines of this life of the host handle requests.               *)
GrantedOK == \A e \in Engine : engine[e].generation = 0 => Quiet(e)
HandledOK == \A r \in Req : req[r].at # 0 => engine[req[r].at].boot = boot

TermInv == HandoverInv /\ TermsAt(step, job, current) /\ GrantedOK /\ HandledOK

(* What the abstract specification sees does not change. *)
SameEngines ==
  \A e \in Engine :
    /\ engine'[e].state = engine[e].state /\ engine'[e].command = engine[e].command
    /\ engine'[e].generation = engine[e].generation /\ engine'[e].boot = engine[e].boot

SameHandlers == \A r \in Req : req'[r].at = req[r].at

SameGenerations ==
  \A e \in Engine : engine'[e].generation = engine[e].generation /\ engine'[e].boot = engine[e].boot

(* The initial state satisfies the invariant. *)
LEMMA TermInit == Init => TermInv
  BY InvariantInit, UnusedType, NoJobTypes
  DEF Init, TermInv, TermsAt, GrantedOK, HandledOK, Quiet, OwnsStores

(* Where the engines of the controller are numbers of engines. *)
LEMMA TermsFrame ==
  ASSUME HandoverInv', SameGenerations, TermsAt(step', job', current')
  PROVE  TermsAt(step, job, current)'
  <1>1. step' # "down" => current'.owner \in Engine
    BY DEF HandoverInv, OwnerOK
  <1>2. step' \in {"preparing", "draining", "qualifying", "deactivating",
                   "activating", "committing", "finishing"} => job'.candidate \in Engine
    BY DEF HandoverInv, JobOK, Replacing, Updating
  <1>3. step' \in {"restoring", "restoreActivating"} => job'.restored \in Engine
    BY DEF HandoverInv, JobOK
  <1>. QED
    BY <1>1, <1>2, <1>3 DEF TermsAt, SameGenerations

(* Steps of the controller and of the gate that leave engines and handlers  *)
(* as they are.                                                             *)
StillHandover ==
  \/ PrepareFails \/ CandidatePrepared \/ Drained \/ AbortBeforeTransfer
  \/ CandidateActive \/ CommitTarget \/ Finish \/ TransferFails \/ Fenced \/ FenceFails
  \/ Restored \/ RestoreRecorded \/ RestoreFails \/ Cleaned \/ Confirm \/ Retired
  \/ Qualified /\ step' = "fencing"

StillHost ==
  \/ ReplaceSame \/ CloseReleased \/ CloseFails \/ Closed \/ HostCrashes \/ BootActive
  \/ CloseAsks /\ step' = "closeDiscarding"

StillRequest == \E r \in Req : Arrive(r) \/ Reenter(r) \/ ClientLeaves(r)

(* A handover that leaves the engines leaves the generations in order. *)
LEMMA StillHandoverTerms ==
  ASSUME TermInv, HandoverInv', StillHandover
  PROVE  /\ SameEngines /\ SameHandlers /\ boot' = boot
         /\ TermsAt(step', job', current')
  <1>0. HandoverTypeOK /\ TermsAt(step, job, current)
    BY DEF TermInv, HandoverInv
  <1>1. boot' = boot /\ req' = req /\ (engine' = engine \/ \E es : engine' = Discarded(es))
    BY DEF StillHandover, PrepareFails, CandidatePrepared, Drained, AbortBeforeTransfer,
       CandidateActive, CommitTarget, Finish, TransferFails, Fenced, FenceFails, Restored,
       RestoreRecorded, RestoreFails, Cleaned, Confirm, Retired, Qualified, Fence
  <1>2. SameEngines /\ SameHandlers
    BY <1>0, <1>1, DiscardKeeps DEF Keeps, SameEngines, SameHandlers
  <1>3. ASSUME Finish
        PROVE  TermsAt(step', job', current')
    BY <1>0, <1>3 DEF Finish, TermsAt
  <1>4. ASSUME Restored
        PROVE  TermsAt(step', job', current')
    BY <1>0, <1>4 DEF Restored, TermsAt, HandoverTypeOK
  <1>5. ASSUME CandidatePrepared \/ Drained \/ CandidateActive \/ CommitTarget
        PROVE  TermsAt(step', job', current')
    BY <1>0, <1>5 DEF CandidatePrepared, Drained, CandidateActive, CommitTarget, TermsAt
  <1>6. ASSUME \/ PrepareFails \/ AbortBeforeTransfer \/ TransferFails \/ Fenced \/ FenceFails
               \/ RestoreRecorded \/ RestoreFails \/ Cleaned \/ Confirm \/ Retired
               \/ Qualified /\ step' = "fencing"
        PROVE  TermsAt(step', job', current')
    <2>1. /\ current' = current /\ step # "down"
          /\ step' \in {"idle", "cleaning", "fencing", "stoppingPrevious", "retiring"}
      BY <1>6 DEF PrepareFails, AbortBeforeTransfer, TransferFails, Fenced, FenceFails,
         RestoreRecorded, RestoreFails, Cleaned, Confirm, Retired, Qualified, Fence
    <2>. QED
      BY <1>0, <2>1 DEF TermsAt
  <1>. QED
    BY <1>1, <1>2, <1>3, <1>4, <1>5, <1>6 DEF StillHandover

(* The same for the host, *)
LEMMA StillHostTerms ==
  ASSUME TermInv, HandoverInv', StillHost
  PROVE  /\ SameEngines /\ SameHandlers /\ boot' = boot
         /\ TermsAt(step', job', current')
  <1>0. HandoverTypeOK /\ TermsAt(step, job, current)
    BY DEF TermInv, HandoverInv
  <1>1. boot' = boot /\ (engine' = engine \/ \E es : engine' = Discarded(es))
    BY DEF StillHost, ReplaceSame, CloseReleased, CloseFails, Closed, HostCrashes, HostDown,
       BootActive, CloseAsks
  <1>2. req' = req \/ req' = Disconnected
    BY DEF StillHost, ReplaceSame, CloseReleased, CloseFails, Closed, HostCrashes, HostDown,
       BootActive, CloseAsks
  <1>3. SameHandlers
    <2>1. CASE req' = Disconnected
      <3>1. ASSUME NEW r \in Req PROVE req'[r].at = req[r].at
        BY <1>0, <2>1, NoJobTypes DEF Disconnected, HandoverTypeOK, RequestRecord
      <3>. QED
        BY <3>1 DEF SameHandlers
    <2>. QED
      BY <1>2, <2>1 DEF SameHandlers
  <1>4. SameEngines
    BY <1>0, <1>1, DiscardKeeps DEF Keeps, SameEngines
  <1>5. \/ step' = "down"
        \/ /\ current' = current /\ step # "down"
           /\ step' \in {"idle", "confirming", "closeDiscarding"}
    BY DEF StillHost, ReplaceSame, CloseReleased, CloseFails, Closed, HostCrashes, HostDown,
       BootActive, CloseAsks, Closing
  <1>6. TermsAt(step', job', current')
    BY <1>0, <1>5 DEF TermsAt
  <1>. QED
    BY <1>1, <1>3, <1>4, <1>6

(* and for a request that is not handled, or whose client leaves. *)
LEMMA StillRequestTerms ==
  ASSUME TermInv, StillRequest
  PROVE  /\ SameEngines /\ SameHandlers /\ boot' = boot
         /\ TermsAt(step', job', current')
  <1>0. HandoverTypeOK /\ TermsAt(step, job, current)
    BY DEF TermInv, HandoverInv
  <1>1. UNCHANGED <<boot, engine, step, job, current>>
    BY DEF StillRequest, Arrive, Reenter, ClientLeaves, hostVars
  <1>2. SameHandlers
    <2>1. PICK r \in Req : Arrive(r) \/ Reenter(r) \/ ClientLeaves(r)
      BY DEF StillRequest
    <2>2. req[r].at # 0 <=> req[r].stage \in {"served", "orphaned"}
      BY <1>0 DEF HandoverTypeOK
    <2>3. req \in [Req -> RequestRecord] /\ (req[r] = NoRequest => req[r].stage = "idle")
      BY <1>0, NoJobTypes DEF HandoverTypeOK
    <2>. QED
      BY <2>1, <2>2, <2>3, NoJobTypes
      DEF Arrive, Reenter, ClientLeaves, SameHandlers, RequestRecord
  <1>. QED
    BY <1>0, <1>1, <1>2 DEF SameEngines

(* What the abstract specification sees. *)
Places == [e \in Engine |-> Place(e)]
Generations == [e \in Engine |-> engine[e].generation]
Lives == [e \in Engine |-> engine[e].boot]
Handling == [r \in Req |-> req[r].at]

SameOwnership == UNCHANGED <<Places, Generations, Lives, Handling>>

OwnershipStep ==
  \/ \E e \in Engine : \/ Ownership!Start(e) \/ Ownership!Grant(e) \/ Ownership!Take(e)
                       \/ Ownership!GiveUp(e) \/ Ownership!End(e)
  \/ \E r \in Req : Ownership!Leave(r) \/ \E e \in Engine : Ownership!Enter(r, e)
  \/ SameOwnership

(* The places there are, and what they say of an engine. *)
LEMMA PlaceMeans ==
  ASSUME NEW e \in Engine
  PROVE  /\ Place(e) = "owner" <=> OwnsStores(e)
         /\ Place(e) = "granted" => engine[e].command = "activate" /\ engine[e].state # "exited"
         /\ Place(e) = "unused" => engine[e].state = "unused"
         /\ Place(e) \in {"unused", "started", "granted", "owner", "over"}
  BY DEF Place, OwnsStores

(* An engine that keeps its record keeps its place. *)
LEMMA PlaceStays ==
  ASSUME NEW e \in Engine,
         engine'[e].state = engine[e].state, engine'[e].command = engine[e].command,
         engine'[e].generation = engine[e].generation
  PROVE  Place(e)' = Place(e)
  BY DEF Place, OwnsStores

(* One engine changes its place. *)
LEMMA OnePlace ==
  ASSUME NEW e \in Engine, NEW p, Place(e)' = p,
         \A d \in Engine : d # e => Place(d)' = Place(d)
  PROVE  Places' = [Places EXCEPT ![e] = p]
  BY DEF Places

(* Steps that only the controller sees. *)
LEMMA StillOwnership ==
  ASSUME SameEngines, SameHandlers
  PROVE  SameOwnership
  BY PlaceStays DEF SameOwnership, SameEngines, SameHandlers, Places, Generations, Lives, Handling

LEMMA StillTerms ==
  ASSUME TermInv, HandoverInv', SameEngines, SameHandlers, boot' = boot,
         TermsAt(step', job', current')
  PROVE  TermInv' /\ OwnershipStep
  <1>1. TermsAt(step, job, current)'
    BY TermsFrame DEF SameEngines, SameGenerations
  <1>2. GrantedOK'
    BY DEF TermInv, GrantedOK, Quiet, OwnsStores, SameEngines
  <1>3. \A r \in Req : req[r].at # 0 => req[r].at \in Engine
    BY EngineNumbers DEF TermInv, HandoverInv, HandoverTypeOK, RequestRecord
  <1>4. HandledOK'
    BY <1>3 DEF TermInv, HandledOK, SameHandlers, SameEngines
  <1>. QED
    BY <1>1, <1>2, <1>4, StillOwnership DEF TermInv, OwnershipStep

(* The owner is asked to release. *)
LEMMA AskedOwnership ==
  ASSUME TermInv, HandoverInv', Qualified \/ CloseAsks,
         step' \in {"deactivating", "closeDeactivating"},
         NEW e \in Engine, e = current.owner
  PROVE  TermInv' /\ OwnershipStep
  <1>0. /\ HandoverTypeOK /\ TermsAt(step, job, current)
        /\ EngineOK(e) /\ HandlersFinishFirst
    BY DEF TermInv, HandoverInv
  <1>1. /\ engine' = [engine EXCEPT ![e].command = "deactivate"] /\ boot' = boot
        /\ current' = current /\ job'.candidate = job.candidate
    BY <1>0 DEF Qualified, CloseAsks, Fence, HandoverTypeOK
  <1>2. /\ engine' \in [Engine -> EngineRecord]
        /\ \A d \in Engine : d # e => engine'[d] = engine[d]
        /\ engine'[e].state = engine[e].state /\ engine'[e].generation = engine[e].generation
        /\ engine'[e].boot = engine[e].boot /\ engine'[e].command = "deactivate"
    <2>1. "deactivate" \in Commands /\ engine[e].generation \in Nat
      BY <1>0 DEF HandoverTypeOK, EngineRecord, Commands
    <2>2. HandoverTypeOK /\ engine' = [engine EXCEPT ![e].command = "deactivate"]
      BY <1>0, <1>1
    <2>3. /\ engine' \in [Engine -> EngineRecord]
          /\ \A d \in Engine : d # e => engine'[d] = engine[d]
          /\ engine'[e].state = engine[e].state
          /\ engine'[e].release = engine[e].release
          /\ engine'[e].generation = engine[e].generation
          /\ engine'[e].boot = engine[e].boot
          /\ engine'[e].command = "deactivate"
          /\ engine'[e].expected = engine[e].expected
      BY <2>1, <2>2, CommandTypes
    <2>. QED
      BY <2>3
  <1>3. SameGenerations
    BY <1>2 DEF SameGenerations
  <1>4. SameHandlers
    <2>1. CASE req' = Disconnected
      <3>1. ASSUME NEW r \in Req PROVE req'[r].at = req[r].at
        BY <1>0, <2>1, NoJobTypes DEF Disconnected, HandoverTypeOK, RequestRecord
      <3>. QED
        BY <3>1 DEF SameHandlers
    <2>2. req' = req \/ req' = Disconnected
      BY DEF Qualified, CloseAsks
    <2>. QED
      BY <2>1, <2>2 DEF SameHandlers
  <1>5. TermsAt(step', job', current')
    <2>1. /\ step' \in {"deactivating", "closeDeactivating"} /\ step # "down"
          /\ step' = "deactivating" => step = "qualifying"
      BY DEF Qualified, CloseAsks
    <2>. QED
      BY <1>0, <1>1, <2>1 DEF TermsAt
  <1>6. TermsAt(step, job, current)'
    BY <1>3, <1>5, TermsFrame
  <1>7. GrantedOK'
    BY <1>2 DEF TermInv, GrantedOK, Quiet, OwnsStores
  <1>8. HandledOK'
    <2>1. \A r \in Req : req[r].at # 0 => req[r].at \in Engine
      BY <1>0, EngineNumbers DEF HandoverTypeOK, RequestRecord
    <2>. QED
      BY <1>1, <1>3, <1>4, <2>1 DEF TermInv, HandledOK, SameHandlers, SameGenerations
  <1>9. OwnershipStep
    <2>0. /\ Generations' = Generations /\ Lives' = Lives /\ Handling' = Handling
          /\ \A d \in Engine : d # e => Place(d)' = Place(d)
      BY <1>2, <1>3, <1>4, PlaceStays
      DEF SameGenerations, SameHandlers, Generations, Lives, Handling
    <2>1. CASE Place(e) = "granted"
      <3>1. /\ ~OwnsStores(e) /\ engine[e].command = "activate" /\ engine[e].state # "exited"
            /\ engine[e].generation > 0
        <4>1. ~OwnsStores(e) /\ engine[e].command = "activate" /\ engine[e].state # "exited"
          BY <1>0, <2>1 DEF Place
        <4>2. engine[e].generation \in Nat /\ engine[e].generation # 0
          BY <1>0, <4>1 DEF TermInv, GrantedOK, Quiet, HandoverTypeOK, EngineRecord
        <4>. QED
          BY <4>1, <4>2
      <3>2. Place(e)' = "over"
        BY <1>2, <3>1 DEF Place, OwnsStores
      <3>3. Places' = [Places EXCEPT ![e] = "over"]
        BY <1>0, <2>0, <3>2, OnePlace
      <3>4. \A r \in Req : req[r].at # e
        BY <1>0, <3>1 DEF HandlersFinishFirst, Handlers
      <3>5. Handling' = [r \in Req |-> IF Handling[r] = e THEN 0 ELSE Handling[r]]
        BY <2>0, <3>4 DEF Handling
      <3>6. Ownership!End(e)
        BY <1>0, <2>0, <2>1, <3>3, <3>5
        DEF Ownership!End, Places, Generations, Lives, Handling
      <3>. QED
        BY <1>0, <3>6 DEF OwnershipStep
    <2>2. CASE Place(e) # "granted"
      <3>1. Place(e)' = Place(e)
        BY <1>2, <2>2 DEF Place, OwnsStores
      <3>2. Places' = Places
        BY <2>0, <3>1 DEF Places
      <3>. QED
        BY <2>0, <3>2 DEF OwnershipStep, SameOwnership
    <2>. QED
      BY <2>1, <2>2
  <1>. QED
    BY <1>6, <1>7, <1>8, <1>9 DEF TermInv

(* An engine is told to open the stores. *)
LEMMA GrantedOwnership ==
  ASSUME TermInv, HandoverInv', NEW e \in Engine, NEW g \in Nat,
         \/ PreviousReleased /\ e = job.candidate /\ g = job.generation
         \/ RestorePrepared /\ e = job.restored /\ g = job.generation + 1
         \/ BootPrepared /\ e = current.owner /\ g = current.generation
  PROVE  TermInv' /\ OwnershipStep
  <1>0. /\ HandoverTypeOK /\ TermsAt(step, job, current) /\ GrantedOK /\ HandledOK
        /\ (\A d \in Engine : EngineOK(d)) /\ HandlersFinishFirst
        /\ engine[e].generation = 0
    BY DEF TermInv, HandoverInv, PreviousReleased, RestorePrepared, BootPrepared, TermsAt
  <1>1. /\ engine[e].boot = boot /\ Alive(e) /\ Newer(g)
        /\ boot' = boot /\ req' = req /\ current' = current /\ job' = job
        /\ engine' = [engine EXCEPT ![e].command = "activate", ![e].generation = g]
    <2>1. CASE PreviousReleased /\ e = job.candidate /\ g = job.generation
      BY <2>1 DEF PreviousReleased, TermInv, HandoverInv, JobOK, GrantsOK, Replacing, Updating
    <2>2. CASE RestorePrepared /\ e = job.restored /\ g = job.generation + 1
      BY <2>2 DEF RestorePrepared, TermInv, HandoverInv, JobOK, GrantsOK, Alive
    <2>3. CASE BootPrepared /\ e = current.owner /\ g = current.generation
      BY <2>3 DEF BootPrepared, TermInv, HandoverInv, OwnerOK, GrantsOK, Alive
    <2>. QED
      BY <2>1, <2>2, <2>3
  <1>2. \A d \in Engine : Known(d) => Quiet(d)
    <2>1. CASE PreviousReleased
      <3>1. OnlyHolds({current.owner}) /\ engine[current.owner].command = "released"
        BY <2>1 DEF PreviousReleased, TermInv, HandoverInv, HoldersOK
      <3>. QED
        BY <1>0, <3>1 DEF OnlyHolds, EngineOK, Quiet, OwnsStores
    <2>2. CASE RestorePrepared \/ BootPrepared
      BY <2>2 DEF RestorePrepared, BootPrepared, TermInv, HandoverInv, HoldersOK, OnlyHolds
    <2>. QED
      BY <2>1, <2>2
  <1>3. \A r \in Req : req[r].at = 0
    <2>. SUFFICES ASSUME NEW r \in Req, req[r].at # 0 PROVE FALSE
      OBVIOUS
    <2>1. PICK d \in Engine : d = req[r].at
      BY <1>0, EngineNumbers DEF HandoverTypeOK, RequestRecord
    <2>2. OwnsStores(d)
      BY <1>0, <2>1 DEF HandlersFinishFirst, Handlers
    <2>3. Known(d)
      BY <1>0, <2>1, <2>2 DEF HandledOK, Known, Alive, OwnsStores
    <2>. QED
      BY <1>2, <2>2, <2>3 DEF Quiet
  <1>4. /\ engine' \in [Engine -> EngineRecord]
        /\ \A d \in Engine : d # e => engine'[d] = engine[d]
        /\ engine'[e].state = engine[e].state
        /\ engine'[e].release = engine[e].release
        /\ engine'[e].generation = g
        /\ engine'[e].boot = engine[e].boot
        /\ engine'[e].command = "activate"
        /\ engine'[e].expected = engine[e].expected
    <2>1. "activate" \in Commands
      BY DEF Commands
    <2>2. HandoverTypeOK /\ engine' = [engine EXCEPT ![e].command = "activate", ![e].generation = g]
      BY <1>0, <1>1
    <2>. QED
      BY <2>1, <2>2, CommandTypes
  <1>5. g > 0 /\ disk'.generation \in Nat /\ g >= disk'.generation
    <2>0. g > 0 /\ disk'.generation \in Nat /\ disk.generation \in Nat /\ counter \in Nat
      BY <1>0, <1>1 DEF Newer, HandoverInv, HandoverTypeOK, Journal
    <2>1. CASE PreviousReleased /\ e = job.candidate /\ g = job.generation
      <3>1. /\ current.release \in Release /\ job.target \in Release /\ memory \in Journal
            /\ "activating" \in Phase /\ disk' = Checkpointed(Record("activating", g))
        BY <2>1 DEF PreviousReleased, CheckpointOk, Write, TermInv, HandoverInv, HandoverTypeOK,
           OwnerOK, JobOK, Replacing, Updating, Phase
      <3>2. /\ Record("activating", g) \in Transition
            /\ Record("activating", g).generation = g
        BY <3>1, RecordTypes
      <3>3. Checkpointed(Record("activating", g)).generation = g
        BY <3>1, <3>2, CheckpointTypes
      <3>. QED
        BY <2>0, <3>1, <3>3
    <2>2. CASE RestorePrepared /\ e = job.restored /\ g = job.generation + 1
      <3>1. disk' = disk /\ disk.generation <= counter /\ counter = g
        BY <2>2 DEF RestorePrepared, journalVars, TermInv, HandoverInv, DiskOK, JobOK, Restoring
      <3>. QED
        BY <2>0, <3>1
    <2>3. CASE BootPrepared /\ e = current.owner /\ g = current.generation
      <3>1. disk' = disk /\ disk.generation = g
        BY <2>3 DEF BootPrepared, journalVars, TermInv, HandoverInv, GateOK, Booting
      <3>. QED
        BY <2>0, <3>1
    <2>. QED
      BY <2>1, <2>2, <2>3
  <1>6. TermsAt(step, job, current)'
    <2>0. step # "down" /\ current.owner \in Engine
      BY DEF PreviousReleased, RestorePrepared, BootPrepared, TermInv, HandoverInv, OwnerOK
    <2>1. CASE PreviousReleased /\ e = job.candidate /\ g = job.generation
      <3>1. step' = "activating" /\ e # current.owner
        BY <2>1 DEF PreviousReleased, TermInv, HandoverInv, JobOK, Replacing, Updating
      <3>. QED
        BY <1>0, <1>1, <1>4, <2>0, <2>1, <3>1 DEF TermsAt
    <2>2. CASE RestorePrepared /\ e = job.restored /\ g = job.generation + 1
      <3>1. step' = "restoreActivating" /\ e # current.owner
        BY <1>0, <2>2 DEF RestorePrepared, TermsAt
      <3>. QED
        BY <1>0, <1>1, <1>4, <2>0, <2>2, <3>1 DEF TermsAt
    <2>3. CASE BootPrepared /\ e = current.owner /\ g = current.generation
      <3>1. step' = "bootActivating"
        BY <2>3 DEF BootPrepared
      <3>. QED
        BY <1>0, <1>1, <1>4, <2>0, <2>3, <3>1 DEF TermsAt
    <2>. QED
      BY <2>1, <2>2, <2>3
  <1>7. GrantedOK' /\ HandledOK'
    <2>1. GrantedOK'
      BY <1>0, <1>4, <1>5 DEF GrantedOK, Quiet, OwnsStores
    <2>2. HandledOK'
      BY <1>1, <1>3 DEF HandledOK
    <2>. QED
      BY <2>1, <2>2
  <1>8. Ownership!Grant(e)
    <2>1. Place(e) = "started" /\ Place(e)' = "granted"
      <3>1. Quiet(e)
        BY <1>0 DEF GrantedOK
      <3>. QED
        BY <1>0, <1>1, <1>4, <3>1 DEF Place, Quiet, OwnsStores, Alive
    <2>2. \A d \in Engine : d # e => Place(d)' = Place(d)
      BY <1>4, PlaceStays
    <2>3. Places' = [Places EXCEPT ![e] = "granted"]
      BY <2>1, <2>2, OnePlace
    <2>4. /\ Generations' = [Generations EXCEPT ![e] = g] /\ Lives' = Lives
          /\ Generations'[e] = g
      BY <1>4 DEF Generations, Lives
    <2>5. Handling' = Handling /\ \A r \in Req : Handling[r] = 0
      BY <1>1, <1>3 DEF Handling
    <2>6. ASSUME NEW d \in Engine
          PROVE  /\ engine[d].boot <= engine[e].boot
                 /\ engine[d].boot = engine[e].boot =>
                      Place(d) \notin {"granted", "owner"} /\ engine[d].generation < g
      <3>1. engine[d].boot <= engine[e].boot
        BY <1>0, <1>1 DEF EngineOK
      <3>2. ASSUME engine[d].boot = engine[e].boot, Place(d) \in {"granted", "owner"}
            PROVE  FALSE
        <4>1. Alive(d)
          BY <1>0, <3>2, PlaceMeans, UnusedType DEF EngineOK, Alive, OwnsStores
        <4>. QED
          BY <1>1, <1>2, <3>2, <4>1, PlaceMeans DEF Known, Quiet
      <3>. QED
        BY <1>1, <3>1, <3>2 DEF Newer
    <2>7. Generations' = [Generations EXCEPT ![e] = Generations'[e]]
      BY <2>4
    <2>. QED
      BY <1>5, <2>1, <2>3, <2>4, <2>5, <2>6, <2>7
      DEF Ownership!Grant, Ownership!InNewestLife, Places, Generations, Lives, Handling
  <1>. QED
    BY <1>6, <1>7, <1>8 DEF TermInv, OwnershipStep

(* An engine is started. *)
LEMMA StartedOwnership ==
  ASSUME TermInv, HandoverInv', NEW e \in Engine, NEW release \in Release,
         NEW b \in 0..MaxBoots, IsNext(e), engine' = Spawned(e, release, b), boot' = b,
         \/ Replace(release) /\ b = boot /\ job'.candidate = e
         \/ PreviousStopped /\ b = boot /\ job'.restored = e
         \/ Recover(release) /\ b = boot + 1 /\ current'.owner = e
  PROVE  TermInv' /\ OwnershipStep
  <1>0. /\ HandoverTypeOK /\ TermsAt(step, job, current) /\ GrantedOK /\ HandledOK
        /\ (\A d \in Engine : EngineOK(d)) /\ HandlersFinishFirst
        /\ boot \in Nat /\ \A d \in Engine : engine[d].boot \in Nat
    BY HandoverAssumption DEF TermInv, HandoverInv, HandoverTypeOK, EngineRecord
  <1>1. /\ engine' \in [Engine -> EngineRecord]
        /\ \A d \in Engine : d # e => engine'[d] = engine[d]
        /\ engine'[e].state = "starting" /\ engine'[e].release = release
        /\ engine'[e].generation = 0 /\ engine'[e].boot = b
        /\ engine'[e].command = "none" /\ ~engine'[e].expected
    BY <1>0, SpawnTypes
  <1>2. /\ engine[e].state = "unused" /\ engine[e] = Unused
        /\ req' = req /\ engine[e].generation = 0
    BY <1>0, UnusedType DEF IsNext, EngineOK, Replace, PreviousStopped, Recover
  <1>3. \A r \in Req : req[r].at # 0 =>
          req[r].at \in Engine /\ req[r].at # e /\ engine[req[r].at].boot = boot /\ b = boot
    <2>1. ASSUME NEW r \in Req, req[r].at # 0
          PROVE  /\ req[r].at \in Engine /\ req[r].at # e
                 /\ engine[req[r].at].boot = boot /\ b = boot
      <3>1. PICK d \in Engine : d = req[r].at
        BY <1>0, <2>1, EngineNumbers DEF HandoverTypeOK, RequestRecord
      <3>2. OwnsStores(d)
        BY <1>0, <3>1 DEF HandlersFinishFirst, Handlers
      <3>. QED
        BY <1>0, <1>2, <2>1, <3>1, <3>2 DEF HandledOK, OwnsStores, Recover, Unowned
    <2>. QED
      BY <2>1
  <1>4. TermsAt(step, job, current)'
    <2>1. CASE Replace(release) /\ b = boot /\ job'.candidate = e
      <3>1. /\ step' = "preparing" /\ current' = current /\ step # "down"
            /\ current.owner \in Engine /\ current.owner # e
        BY <1>2, <2>1 DEF Replace, TermInv, HandoverInv, OwnerOK, Used
      <3>. QED
        BY <1>0, <1>1, <2>1, <3>1 DEF TermsAt
    <2>2. CASE PreviousStopped /\ b = boot /\ job'.restored = e
      <3>1. /\ step' = "restoring" /\ current' = current /\ step # "down"
            /\ current.owner \in Engine /\ current.owner # e
        BY <1>2, <2>2 DEF PreviousStopped, TermInv, HandoverInv, OwnerOK, Used
      <3>. QED
        BY <1>0, <1>1, <2>2, <3>1 DEF TermsAt
    <2>3. CASE Recover(release) /\ b = boot + 1 /\ current'.owner = e
      <3>1. step' = "bootPreparing"
        BY <2>3 DEF Recover
      <3>. QED
        BY <1>1, <2>3, <3>1 DEF TermsAt
    <2>. QED
      BY <2>1, <2>2, <2>3
  <1>5. GrantedOK' /\ HandledOK'
    <2>1. GrantedOK'
      BY <1>0, <1>1 DEF GrantedOK, Quiet, OwnsStores
    <2>2. HandledOK'
      BY <1>1, <1>2, <1>3 DEF HandledOK
    <2>. QED
      BY <2>1, <2>2
  <1>6. Ownership!Start(e)
    <2>1. Place(e) = "unused"
      BY <1>2, UnusedType DEF Place, OwnsStores
    <2>2. Place(e)' = "started"
      BY <1>1 DEF Place, OwnsStores
    <2>3. Places' = [Places EXCEPT ![e] = "started"]
      BY <1>1, <2>2, OnePlace, PlaceStays
    <2>4. /\ Generations' = Generations /\ Lives' = [Lives EXCEPT ![e] = b]
          /\ Lives'[e] = b /\ Lives' = [Lives EXCEPT ![e] = Lives'[e]]
      BY <1>1, <1>2 DEF Generations, Lives
    <2>5. Handling' = Handling
      BY <1>2 DEF Handling
    <2>6. \A d \in Engine : engine[d].boot <= b
      BY <1>0 DEF EngineOK
    <2>7. (\A d \in Engine : engine[d].boot < b) => disk'.generation > disk.generation
      <3>1. CASE (Replace(release) \/ PreviousStopped) /\ b = boot
        <4>1. current.owner \in Engine /\ engine[current.owner].boot = boot
          BY <3>1 DEF Replace, PreviousStopped, TermInv, HandoverInv, OwnerOK
        <4>. QED
          BY <1>0, <3>1, <4>1
      <3>2. CASE Recover(release)
        <4>1. disk \in Journal /\ disk' = Recovered(release) /\ disk.generation \in Nat
          BY <1>0, <3>2 DEF Recover, Write, HandoverTypeOK, Journal
        <4>. QED
          BY <4>1, RecoveredTypes
      <3>. QED
        BY <3>1, <3>2
    <2>. QED
      BY <2>1, <2>3, <2>4, <2>5, <2>6, <2>7
      DEF Ownership!Start, Places, Generations, Lives, Handling
  <1>. QED
    BY <1>4, <1>5, <1>6 DEF TermInv, OwnershipStep

(* A recovery that fails has written the journal, and nothing owns stores.  *)
LEMMA RecoverFailsOwnership ==
  ASSUME TermInv, HandoverInv', NEW release \in Release, RecoverFails(release)
  PROVE  TermInv' /\ OwnershipStep
  <1>1. UNCHANGED <<engine, req, step, job, current>> /\ step = "down" /\ Unowned
    BY DEF RecoverFails, hostVars
  <1>2. \A r \in Req : req[r].at = 0
    <2>. SUFFICES ASSUME NEW r \in Req, req[r].at # 0 PROVE FALSE
      OBVIOUS
    <2>1. PICK d \in Engine : d = req[r].at
      BY EngineNumbers DEF TermInv, HandoverInv, HandoverTypeOK, RequestRecord
    <2>. QED
      BY <1>1, <2>1 DEF TermInv, HandoverInv, HandlersFinishFirst, Handlers, Unowned
  <1>3. TermsAt(step, job, current)' /\ GrantedOK' /\ HandledOK'
    BY <1>1, <1>2 DEF TermsAt, TermInv, GrantedOK, HandledOK, Quiet, OwnsStores
  <1>4. SameOwnership
    BY <1>1, StillOwnership DEF SameEngines, SameHandlers
  <1>. QED
    BY <1>3, <1>4 DEF TermInv, OwnershipStep

(* A request reaches a handler. *)
LEMMA ForwardOwnership ==
  ASSUME TermInv, HandoverInv', NEW r \in Req, Forward(r)
  PROVE  TermInv' /\ OwnershipStep
  <1>0. /\ HandoverTypeOK /\ TermsAt(step, job, current) /\ GrantedOK /\ HandledOK
        /\ (\A d \in Engine : EngineOK(d))
    BY DEF TermInv, HandoverInv
  <1>1. /\ UNCHANGED <<engine, boot, step, job, current, disk>>
        /\ req[r].stage = "entered" /\ req[r].at = 0 /\ r \in Active
    BY <1>0 DEF Forward, journalVars, hostVars, HandoverTypeOK, Active
  <1>2. SameEngines /\ TermsAt(step', job', current')
    BY <1>0, <1>1 DEF SameEngines
  <1>3. CASE selected # 0 /\ engine[selected].state = "active"
    <2>1. step # "down" /\ selected = current.owner /\ disk.generation >= current.generation
      BY <1>1 DEF TermInv, HandoverInv, GateOK, AdmittedOK
    <2>2. PICK e \in Engine : e = selected /\ engine[e].boot = boot
      BY <2>1 DEF TermInv, HandoverInv, OwnerOK
    <2>3. /\ req \in [Req -> RequestRecord]
          /\ req' = [req EXCEPT ![r] = [stage |-> "served", at |-> e]]
      BY <1>0, <1>1, <1>3, <2>2 DEF Forward, HandoverTypeOK
    <2>4. req'[r].at = e /\ \A q \in Req : q # r => req'[q].at = req[q].at
      BY <2>3
    <2>5. /\ engine[e].generation <= disk.generation
          /\ \A d \in Engine : engine[d].boot <= engine[e].boot
      <3>1. engine[e].generation \in {0, current.generation}
        BY <1>0, <2>1, <2>2 DEF TermsAt
      <3>2. disk.generation \in Nat /\ current.generation \in Nat
        BY <1>0 DEF HandoverTypeOK, Journal
      <3>. QED
        BY <1>0, <2>1, <2>2, <3>1, <3>2 DEF EngineOK
    <2>6. Place(e) = "owner"
      BY <1>3, <2>2 DEF Place, OwnsStores
    <2>7. /\ Places' = Places /\ Generations' = Generations /\ Lives' = Lives
      BY <1>1 DEF Places, Place, OwnsStores, Generations, Lives
    <2>8. Handling' = [Handling EXCEPT ![r] = e] /\ Handling[r] = 0
      BY <1>1, <2>4 DEF Handling
    <2>9. Ownership!Enter(r, e)
      BY <2>5, <2>6, <2>7, <2>8
      DEF Ownership!Enter, Ownership!InNewestLife, Places, Generations, Lives, Handling
    <2>10. HandledOK'
      BY <1>0, <1>1, <2>2, <2>4 DEF HandledOK
    <2>11. GrantedOK' /\ TermsAt(step, job, current)'
      BY <1>0, <1>1 DEF GrantedOK, Quiet, OwnsStores, TermsAt
    <2>. QED
      BY <2>9, <2>10, <2>11 DEF TermInv, OwnershipStep
  <1>4. CASE ~(selected # 0 /\ engine[selected].state = "active")
    <2>1. req \in [Req -> RequestRecord] /\ req' = [req EXCEPT ![r] = NoRequest]
      BY <1>0, <1>1, <1>4 DEF Forward, HandoverTypeOK
    <2>2. SameHandlers
      BY <1>1, <2>1, NoJobTypes DEF SameHandlers
    <2>. QED
      BY <1>1, <1>2, <2>2, StillTerms
  <1>. QED
    BY <1>3, <1>4

(* A handler ends. *)
LEMMA HandlerEndsOwnership ==
  ASSUME TermInv, HandoverInv', NEW r \in Req, HandlerEnds(r)
  PROVE  TermInv' /\ OwnershipStep
  <1>0. HandoverTypeOK /\ TermsAt(step, job, current) /\ GrantedOK /\ HandledOK
    BY DEF TermInv, HandoverInv
  <1>1. /\ UNCHANGED <<engine, boot, step, job, current>>
        /\ req'[r].at = 0 /\ \A q \in Req : q # r => req'[q].at = req[q].at
    BY <1>0, NoJobTypes DEF HandlerEnds, hostVars, HandoverTypeOK
  <1>2. TermsAt(step, job, current)' /\ GrantedOK' /\ HandledOK'
    BY <1>0, <1>1 DEF TermsAt, GrantedOK, HandledOK, Quiet, OwnsStores
  <1>3. /\ Places' = Places /\ Generations' = Generations /\ Lives' = Lives
        /\ Handling' = [Handling EXCEPT ![r] = 0]
    BY <1>1 DEF Places, Place, OwnsStores, Generations, Lives, Handling
  <1>4. Ownership!Leave(r)
    BY <1>3 DEF Ownership!Leave, Places, Generations, Lives, Handling
  <1>. QED
    BY <1>2, <1>4 DEF TermInv, OwnershipStep

(* A worker keeps the generations; what it gives up it does not take back,  *)
(* and it forgets requests but takes none.                                  *)
LEMMA WorkerTerms ==
  ASSUME TermInv, HandoverInv', NEW e \in Engine, SameGenerations,
         \A d \in Engine : d # e => engine'[d] = engine[d],
         Quiet(e) => Quiet(e)',
         \A r \in Req : req'[r].at = req[r].at \/ req'[r].at = 0,
         UNCHANGED <<boot, step, job, current>>
  PROVE  TermInv'
  <1>1. \A r \in Req : req[r].at # 0 => req[r].at \in Engine
    BY EngineNumbers DEF TermInv, HandoverInv, HandoverTypeOK, RequestRecord
  <1>2. TermsAt(step, job, current)'
    BY TermsFrame DEF TermInv
  <1>3. GrantedOK'
    BY DEF TermInv, GrantedOK, SameGenerations, Quiet, OwnsStores
  <1>4. HandledOK'
    BY <1>1 DEF TermInv, HandledOK, SameGenerations
  <1>. QED
    BY <1>2, <1>3, <1>4 DEF TermInv

(* A worker changes its state and answers: what its place becomes.          *)
LEMMA WorkerOwnership ==
  ASSUME TermInv, HandoverInv', NEW e \in Engine, NEW c \in Commands,
         NEW s \in {"starting", "prepared", "active", "partial", "closing"},
         Answers(e, s, c), Alive(e), UNCHANGED <<hostVars, boot, req>>,
         \/ ~OwnsStores(e) /\ s = "prepared" /\ c = engine[e].command
         \/ /\ ~OwnsStores(e) /\ engine[e].command = "activate"
            /\ s \in {"active", "partial"} /\ c # "activate"
            /\ \A d \in Engine : ~OwnsStores(d)
         \/ /\ ~OwnsStores(e) /\ engine[e].command = "activate"
            /\ s = "prepared" /\ c = "refused"
         \/ /\ engine[e].command = "deactivate" /\ s = "prepared" /\ c = "released"
            /\ Handlers(e) = {}
         \/ OwnsStores(e) /\ s \in {"closing", "partial"} /\ c = "refused"
  PROVE  TermInv' /\ OwnershipStep
  <1>. USE DEF hostVars
  <1>0. /\ HandoverTypeOK /\ GrantedOK /\ HandlersFinishFirst
        /\ s \in {"starting", "prepared", "active", "partial", "closing", "exited"}
    BY DEF TermInv, HandoverInv
  <1>1. /\ engine' \in [Engine -> EngineRecord]
        /\ \A d \in Engine : d # e => engine'[d] = engine[d]
        /\ engine'[e].state = s
        /\ engine'[e].release = engine[e].release
        /\ engine'[e].generation = engine[e].generation
        /\ engine'[e].boot = engine[e].boot
        /\ engine'[e].command = c
        /\ engine'[e].expected = engine[e].expected
    BY <1>0, StateTypes
  <1>2. /\ SameGenerations
        /\ Generations' = Generations /\ Lives' = Lives /\ Handling' = Handling
    BY <1>1 DEF SameGenerations, Generations, Lives, Handling
  <1>3. Quiet(e) => Quiet(e)'
    BY <1>1 DEF Quiet, OwnsStores
  <1>4. TermInv'
    BY <1>1, <1>2, <1>3, WorkerTerms
  <1>5. engine[e].generation \in Nat /\ (~Quiet(e) => engine[e].generation > 0)
    BY <1>0 DEF GrantedOK, HandoverTypeOK, EngineRecord
  <1>6. \A d \in Engine : d # e => Place(d)' = Place(d)
    BY <1>1, PlaceStays
  <1>7. Alive(e)' /\ engine[e].state # "unused" /\ engine[e].state # "exited"
    BY <1>1 DEF Alive
  <1>8. ~OwnsStores(e) => \A r \in Req : req[r].at # e
    BY <1>0 DEF HandlersFinishFirst, Handlers
  <1>9. CASE Place(e)' = Place(e)
    <2>1. Places' = Places
      BY <1>6, <1>9 DEF Places
    <2>. QED
      BY <1>2, <1>4, <2>1 DEF OwnershipStep, SameOwnership
  <1>10. CASE /\ ~OwnsStores(e) /\ engine[e].command = "activate"
              /\ s \in {"active", "partial"} /\ \A d \in Engine : ~OwnsStores(d)
    <2>1. Place(e) = "granted" /\ Place(e)' = "owner"
      BY <1>1, <1>7, <1>10 DEF Place, OwnsStores
    <2>2. Places' = [Places EXCEPT ![e] = "owner"]
      BY <1>6, <2>1, OnePlace
    <2>3. \A d \in Engine : Place(d) # "owner"
      BY <1>10, PlaceMeans
    <2>4. Ownership!Take(e)
      BY <1>2, <2>1, <2>2, <2>3 DEF Ownership!Take, Places, Generations, Lives, Handling
    <2>. QED
      BY <1>4, <2>4 DEF OwnershipStep
  <1>11. CASE /\ ~OwnsStores(e) /\ engine[e].command = "activate"
              /\ s = "prepared" /\ c = "refused"
    <2>1. Place(e) = "granted" /\ Place(e)' = "over"
      BY <1>1, <1>5, <1>7, <1>11 DEF Place, OwnsStores, Quiet
    <2>2. Places' = [Places EXCEPT ![e] = "over"]
      BY <1>6, <2>1, OnePlace
    <2>3. Handling' = [r \in Req |-> IF Handling[r] = e THEN 0 ELSE Handling[r]]
      BY <1>2, <1>8, <1>11 DEF Handling
    <2>4. Ownership!End(e)
      BY <1>2, <2>1, <2>2, <2>3 DEF Ownership!End, Places, Generations, Lives, Handling
    <2>. QED
      BY <1>4, <2>4 DEF OwnershipStep
  <1>12. CASE OwnsStores(e) /\ s = "prepared" /\ c = "released" /\ Handlers(e) = {}
    <2>1. Place(e) = "owner" /\ Place(e)' = "over"
      BY <1>1, <1>5, <1>7, <1>12 DEF Place, OwnsStores, Quiet
    <2>2. Places' = [Places EXCEPT ![e] = "over"]
      BY <1>6, <2>1, OnePlace
    <2>3. \A r \in Req : Handling[r] # e
      BY <1>12 DEF Handling, Handlers
    <2>4. Ownership!GiveUp(e)
      BY <1>2, <2>1, <2>2, <2>3 DEF Ownership!GiveUp, Places, Generations, Lives, Handling
    <2>. QED
      BY <1>4, <2>4 DEF OwnershipStep
  <1>13. ASSUME ~OwnsStores(e) /\ s = "prepared"
                /\ (c = engine[e].command
                    \/ (engine[e].command = "deactivate" /\ c = "released"))
         PROVE  Place(e)' = Place(e)
    BY <1>1, <1>7, <1>13 DEF Place, OwnsStores
  <1>14. ASSUME OwnsStores(e) /\ s \in {"closing", "partial"}
         PROVE  Place(e)' = Place(e)
    BY <1>1, <1>14 DEF Place, OwnsStores
  <1>. QED
    BY <1>9, <1>10, <1>11, <1>12, <1>13, <1>14

(* The steps of the workers, *)
LEMMA WorkerStepOwnership ==
  ASSUME TermInv, HandoverInv', WorkerStep
  PROVE  TermInv' /\ OwnershipStep
  <1>0. HandoverTypeOK /\ {"activated", "released", "refused"} \subseteq Commands
    BY DEF TermInv, HandoverInv, Commands
  <1>1. ASSUME NEW e \in Engine, EngineReady(e)
        PROVE  TermInv' /\ OwnershipStep
    <2>1. /\ Answers(e, "prepared", engine[e].command) /\ Alive(e) /\ ~OwnsStores(e)
          /\ UNCHANGED <<hostVars, boot, req>>
      BY <1>1 DEF EngineReady, Answers, Alive, OwnsStores
    <2>2. engine[e].command \in Commands
      BY <1>0 DEF HandoverTypeOK, EngineRecord, Commands
    <2>. QED
      BY <2>1, <2>2, WorkerOwnership
  <1>2. ASSUME NEW e \in Engine, WorkerActivates(e)
        PROVE  TermInv' /\ OwnershipStep
    <2>1. /\ Alive(e) /\ ~OwnsStores(e) /\ engine[e].command = "activate"
          /\ UNCHANGED <<hostVars, boot, req>>
      BY <1>2 DEF WorkerActivates, Alive, OwnsStores
    <2>2. \/ (\A d \in Engine : ~OwnsStores(d)) /\ Answers(e, "active", "activated")
          \/ (\A d \in Engine : ~OwnsStores(d)) /\ Answers(e, "partial", "refused")
          \/ engine' = [engine EXCEPT ![e].command = "refused"]
      BY <1>2 DEF WorkerActivates, Answers
    <2>3. ASSUME engine' = [engine EXCEPT ![e].command = "refused"]
          PROVE  Answers(e, "prepared", "refused")
      <3>1. engine' = [engine EXCEPT ![e].state = "prepared", ![e].command = "refused"]
        BY <1>0, <1>2, <2>3 DEF WorkerActivates, HandoverTypeOK, EngineRecord
      <3>. QED
        BY <3>1 DEF Answers
    <2>. QED
      BY <1>0, <2>1, <2>2, <2>3, WorkerOwnership
  <1>3. ASSUME NEW e \in Engine, WorkerDeactivates(e)
        PROVE  TermInv' /\ OwnershipStep
    <2>1. /\ Alive(e) /\ engine[e].command = "deactivate"
          /\ UNCHANGED <<hostVars, boot, req>>
      BY <1>3 DEF WorkerDeactivates, Alive
    <2>2. \/ Handlers(e) = {} /\ Answers(e, "prepared", "released")
          \/ OwnsStores(e) /\ Answers(e, "closing", "refused")
          \/ /\ engine[e].state = "partial" /\ OwnsStores(e)
             /\ engine' = [engine EXCEPT ![e].command = "refused"]
      BY <1>3 DEF WorkerDeactivates, Answers, OwnsStores
    <2>3. ASSUME engine[e].state = "partial", engine' = [engine EXCEPT ![e].command = "refused"]
          PROVE  Answers(e, "partial", "refused")
      <3>1. engine' = [engine EXCEPT ![e].state = "partial", ![e].command = "refused"]
        BY <1>0, <2>3 DEF HandoverTypeOK, EngineRecord
      <3>. QED
        BY <3>1 DEF Answers
    <2>. QED
      BY <1>0, <2>1, <2>2, <2>3, WorkerOwnership
  <1>. QED
    BY <1>1, <1>2, <1>3 DEF WorkerStep

(* and the end of a process. *)
LEMMA EngineExitsOwnership ==
  ASSUME TermInv, HandoverInv', NEW e \in Engine, EngineExits(e)
  PROVE  TermInv' /\ OwnershipStep
  <1>0. HandoverTypeOK /\ "none" \in Commands
    BY DEF TermInv, HandoverInv, Commands
  <1>1. /\ engine' \in [Engine -> EngineRecord]
        /\ \A d \in Engine : d # e => engine'[d] = engine[d]
        /\ engine'[e].state = "exited"
        /\ engine'[e].release = engine[e].release
        /\ engine'[e].generation = engine[e].generation
        /\ engine'[e].boot = engine[e].boot
        /\ engine'[e].command = "none"
        /\ engine'[e].expected = engine[e].expected
    <2>1. Answers(e, "exited", "none")
      BY DEF Answers, EngineExits
    <2>. QED
      BY <1>0, <2>1, StateTypes
  <1>2. UNCHANGED <<boot, step, job, current>> /\ engine[e].state \notin {"unused", "exited"}
    BY DEF EngineExits, Alive
  <1>3. \A r \in Req : req'[r].at = IF req[r].at = e THEN 0 ELSE req[r].at
    BY <1>0, NoJobTypes DEF EngineExits, HandoverTypeOK
  <1>4. /\ SameGenerations /\ Quiet(e)'
        /\ Generations' = Generations /\ Lives' = Lives
        /\ Handling' = [r \in Req |-> IF Handling[r] = e THEN 0 ELSE Handling[r]]
    BY <1>1, <1>3 DEF SameGenerations, Quiet, OwnsStores, Generations, Lives, Handling
  <1>5. TermInv'
    BY <1>1, <1>2, <1>3, <1>4, WorkerTerms
  <1>6. Place(e)' = "over" /\ \A d \in Engine : d # e => Place(d)' = Place(d)
    BY <1>1, PlaceStays DEF Place, OwnsStores
  <1>7. Places' = [Places EXCEPT ![e] = "over"]
    BY <1>6, OnePlace
  <1>8. CASE Place(e) \in {"started", "granted", "owner"}
    <2>1. Ownership!End(e)
      BY <1>4, <1>7, <1>8 DEF Ownership!End, Places, Generations, Lives, Handling
    <2>. QED
      BY <1>5, <2>1 DEF OwnershipStep
  <1>9. CASE Place(e) = "over"
    <2>1. Places' = Places
      BY <1>6, <1>9 DEF Places
    <2>2. \A r \in Req : req[r].at # e
      BY <1>9, PlaceMeans DEF TermInv, HandoverInv, HandlersFinishFirst, Handlers
    <2>3. Handling' = Handling
      BY <1>4, <2>2 DEF Handling
    <2>. QED
      BY <1>4, <1>5, <2>1, <2>3 DEF OwnershipStep, SameOwnership
  <1>. QED
    BY <1>2, <1>8, <1>9, PlaceMeans

(* A step of a handover is a step of the ownership, or hidden. *)
LEMMA HandoverOwnership ==
  ASSUME TermInv, HandoverInv', HandoverStep
  PROVE  TermInv' /\ OwnershipStep
  <1>1. CASE StillHandover
    BY <1>1, StillHandoverTerms, StillTerms
  <1>2. CASE Qualified /\ step' = "deactivating"
    <2>1. current.owner \in Engine
      BY <1>2 DEF Qualified, TermInv, HandoverInv, OwnerOK
    <2>2. PICK e \in Engine : e = current.owner
      BY <2>1
    <2>. QED
      BY <1>2, <2>2, AskedOwnership
  <1>3. CASE PreviousReleased
    <2>1. PICK e \in Engine : e = job.candidate
      BY <1>3 DEF PreviousReleased, TermInv, HandoverInv, JobOK, Replacing, Updating
    <2>2. job.generation \in Nat
      BY DEF TermInv, HandoverInv, HandoverTypeOK
    <2>. QED
      BY <1>3, <2>1, <2>2, GrantedOwnership
  <1>4. CASE RestorePrepared
    <2>1. PICK e \in Engine : e = job.restored
      BY <1>4 DEF RestorePrepared, TermInv, HandoverInv, JobOK
    <2>2. job.generation + 1 \in Nat
      BY DEF TermInv, HandoverInv, HandoverTypeOK
    <2>. QED
      BY <1>4, <2>1, <2>2, GrantedOwnership
  <1>5. CASE PreviousStopped
    <2>1. /\ HandoverTypeOK /\ boot \in 0..MaxBoots /\ current.release \in Release
          /\ boot' = boot
      BY <1>5 DEF PreviousStopped, TermInv, HandoverInv, HandoverTypeOK, OwnerOK
    <2>2. PICK e \in Engine :
            IsNext(e) /\ engine' = Spawned(e, current.release, boot)
            /\ job' = [job EXCEPT !.restored = e]
      BY <1>5 DEF PreviousStopped
    <2>3. job'.restored = e
      BY <2>1, <2>2 DEF HandoverTypeOK
    <2>. QED
      BY <1>5, <2>1, <2>2, <2>3, StartedOwnership
  <1>6. Qualified => step' \in {"deactivating", "fencing"}
    BY DEF Qualified, Fence
  <1>. QED
    BY <1>1, <1>2, <1>3, <1>4, <1>5, <1>6 DEF HandoverStep, StillHandover

(* So is one of the host, *)
LEMMA HostOwnership ==
  ASSUME TermInv, HandoverInv', HostStep
  PROVE  TermInv' /\ OwnershipStep
  <1>1. CASE StillHost
    BY <1>1, StillHostTerms, StillTerms
  <1>2. CASE CloseAsks /\ step' = "closeDeactivating"
    <2>1. PICK e \in Engine : e = current.owner
      BY <1>2 DEF CloseAsks, TermInv, HandoverInv, OwnerOK
    <2>. QED
      BY <1>2, <2>1, AskedOwnership
  <1>3. CASE BootPrepared
    <2>1. PICK e \in Engine : e = current.owner
      BY <1>3 DEF BootPrepared, TermInv, HandoverInv, OwnerOK
    <2>2. current.generation \in Nat
      BY DEF TermInv, HandoverInv, HandoverTypeOK
    <2>. QED
      BY <1>3, <2>1, <2>2, GrantedOwnership
  <1>4. ASSUME NEW release \in Release, Replace(release)
        PROVE  TermInv' /\ OwnershipStep
    <2>1. HandoverTypeOK /\ boot \in 0..MaxBoots /\ boot' = boot
      BY <1>4 DEF Replace, TermInv, HandoverInv, HandoverTypeOK
    <2>2. PICK e \in Engine :
            IsNext(e) /\ engine' = Spawned(e, release, boot) /\ job'.candidate = e
      BY <1>4 DEF Replace
    <2>. QED
      BY <1>4, <2>1, <2>2, StartedOwnership
  <1>5. ASSUME NEW release \in Release, Recover(release)
        PROVE  TermInv' /\ OwnershipStep
    <2>1. boot + 1 \in 0..MaxBoots /\ boot' = boot + 1
      BY <1>5, HandoverAssumption DEF Recover, TermInv, HandoverInv, HandoverTypeOK
    <2>2. PICK e \in Engine :
            IsNext(e) /\ engine' = Spawned(e, release, boot + 1) /\ current'.owner = e
      BY <1>5 DEF Recover
    <2>. QED
      BY <1>5, <2>1, <2>2, StartedOwnership
  <1>6. ASSUME NEW release \in Release, RecoverFails(release)
        PROVE  TermInv' /\ OwnershipStep
    BY <1>6, RecoverFailsOwnership
  <1>7. CloseAsks => step' \in {"closeDeactivating", "closeDiscarding"}
    BY DEF CloseAsks
  <1>. QED
    BY <1>1, <1>2, <1>3, <1>4, <1>5, <1>6, <1>7 DEF HostStep, StillHost

(* and every step: it keeps the invariant, and the ownership sees it.       *)
LEMMA OwnershipNext ==
  TermInv /\ [Next]_vars => TermInv' /\ OwnershipStep /\ disk'.generation >= disk.generation
  <1>. SUFFICES ASSUME TermInv, [Next]_vars
                PROVE  TermInv' /\ OwnershipStep /\ disk'.generation >= disk.generation
    OBVIOUS
  <1>1. HandoverInv' /\ disk'.generation >= disk.generation
    BY InvariantNext, StepRises DEF TermInv
  <1>2. CASE WorkerStep
    BY <1>1, <1>2, WorkerStepOwnership
  <1>3. CASE \E e \in Engine : EngineExits(e)
    BY <1>1, <1>3, EngineExitsOwnership
  <1>4. CASE RequestStep
    <2>1. CASE StillRequest
      BY <1>1, <2>1, StillRequestTerms, StillTerms
    <2>2. CASE \E r \in Req : Forward(r) \/ HandlerEnds(r)
      BY <1>1, <2>2, ForwardOwnership, HandlerEndsOwnership
    <2>. QED
      BY <1>4, <2>1, <2>2 DEF RequestStep, StillRequest
  <1>5. CASE HandoverStep
    BY <1>1, <1>5, HandoverOwnership
  <1>6. CASE HostStep
    BY <1>1, <1>6, HostOwnership
  <1>7. CASE UNCHANGED vars
    <2>1. SameEngines /\ SameHandlers /\ boot' = boot /\ TermsAt(step', job', current')
      BY <1>7 DEF vars, hostVars, SameEngines, SameHandlers, TermInv, TermsAt
    <2>. QED
      BY <1>1, <2>1, StillTerms
  <1>. QED
    BY <1>1, <1>2, <1>3, <1>4, <1>5, <1>6, <1>7 DEF Next

(* The handover implements the ownership of the stores: over failed writes, *)
(* rollbacks, exits, crashes and recoveries, who is granted them is alone   *)
(* in its life, no request runs then, and no two engines ever handle        *)
(* requests under the same generation.                                      *)
THEOREM HandoverImplementsOwnership == Spec => ImplementsOwnership
  <1>1. Init => Ownership!Init
    <2>. SUFFICES ASSUME Init PROVE Ownership!Init
      OBVIOUS
    <2>1. ASSUME NEW e \in Engine
          PROVE  Place(e) = "unused" /\ engine[e].generation = 0 /\ engine[e].boot = 0
      BY UnusedType DEF Init, Place, OwnsStores
    <2>2. (\A r \in Req : req[r].at = 0) /\ disk.generation = 0
      BY NoJobTypes DEF Init, Empty
    <2>. QED
      BY <2>1, <2>2 DEF Ownership!Init
  <1>2. TermInv /\ [Next]_vars => TermInv' /\ [Ownership!Next]_Ownership!vars
    <2>1. OwnershipStep /\ disk'.generation >= disk.generation => Ownership!Next
      BY DEF OwnershipStep, Ownership!Next, SameOwnership, Places, Generations, Lives, Handling
    <2>. QED
      BY <2>1, OwnershipNext
  <1>. QED
    BY <1>1, <1>2, TermInit, PTL DEF Spec, ImplementsOwnership, Ownership!Spec

-----------------------------------------------------------------------------
(* No generation serves twice: an argument over the abstract steps.         *)

(* Who handles requests was recorded. *)
ServedOK ==
  \A r \in Req : req[r].at # 0 => engine[req[r].at].generation <= disk.generation

(* What is left of an engine that has handled requests: in its own life no  *)
(* other has its generation; a newer life found it below the record, and    *)
(* grants only what is not.                                                 *)
Past(d) ==
  /\ engine[d].generation > 0 /\ engine[d].generation <= disk.generation
  /\ \A e \in Engine \ {d} :
       /\ engine[e].boot = engine[d].boot => engine[e].generation # engine[d].generation
       /\ engine[e].boot > engine[d].boot =>
            /\ engine[d].generation < disk.generation
            /\ engine[e].generation = 0 \/ engine[e].generation > engine[d].generation

(* What both are about: numbers; and places that tell of them. *)
LEMMA OwnershipTypes ==
  ASSUME TermInv
  PROVE  /\ disk.generation \in Nat
         /\ \A e \in Engine : engine[e].generation \in Nat /\ engine[e].boot \in Nat
         /\ \A r \in Req : req[r].at # 0 => req[r].at \in Engine
         /\ \A e \in Engine : Place(e) \in {"unused", "started"} => engine[e].generation = 0
  <1>1. disk.generation \in Nat
    BY DEF TermInv, HandoverInv, HandoverTypeOK, Journal
  <1>2. \A e \in Engine : engine[e].generation \in Nat /\ engine[e].boot \in Nat
    BY HandoverAssumption DEF TermInv, HandoverInv, HandoverTypeOK, EngineRecord
  <1>3. \A r \in Req : req[r].at # 0 => req[r].at \in Engine
    BY EngineNumbers DEF TermInv, HandoverInv, HandoverTypeOK, RequestRecord
  <1>4. \A e \in Engine : Place(e) \in {"unused", "started"} => engine[e].generation = 0
    BY <1>2 DEF Place
  <1>. QED
    BY <1>1, <1>2, <1>3, <1>4

(* What a step of the ownership does to generations, lives and handlers. *)
LEMMA OwnershipEffects ==
  ASSUME TermInv, TermInv', OwnershipStep, disk'.generation >= disk.generation
  PROVE  /\ \A r \in Req : req'[r].at # 0 =>
              \/ req'[r].at = req[r].at
              \/ engine[req'[r].at].generation <= disk.generation
         /\ \/ SameGenerations
            \/ \E x \in Engine :
                 /\ engine[x].generation = 0 /\ engine'[x].generation = 0
                 /\ \A e \in Engine : engine[e].boot <= engine'[x].boot
                 /\ (\A e \in Engine : engine[e].boot < engine'[x].boot) =>
                      disk'.generation > disk.generation
                 /\ \A e \in Engine \ {x} :
                      /\ engine'[e].generation = engine[e].generation
                      /\ engine'[e].boot = engine[e].boot
                 /\ \A r \in Req : req'[r].at = req[r].at
            \/ \E x \in Engine :
                 /\ engine[x].generation = 0
                 /\ engine'[x].generation >= disk'.generation
                 /\ \A e \in Engine : engine[e].boot = engine[x].boot =>
                      engine[e].generation < engine'[x].generation
                 /\ \A e \in Engine \ {x} : engine'[e].generation = engine[e].generation
                 /\ \A e \in Engine : engine'[e].boot = engine[e].boot
                 /\ \A r \in Req : req'[r].at = 0
  <1>0. \A e \in Engine : Place(e) \in {"unused", "started"} => engine[e].generation = 0
    BY OwnershipTypes
  <1>1. /\ \A e \in Engine : Places[e] = Place(e)
        /\ \A e \in Engine : Generations[e] = engine[e].generation /\ Lives[e] = engine[e].boot
        /\ \A e \in Engine : Generations'[e] = engine'[e].generation
                             /\ Lives'[e] = engine'[e].boot
        /\ \A r \in Req : Handling[r] = req[r].at /\ Handling'[r] = req'[r].at
        /\ DOMAIN Generations = Engine /\ DOMAIN Lives = Engine /\ DOMAIN Handling = Req
    BY DEF Places, Generations, Lives, Handling
  <1>2. ASSUME NEW x \in Engine, Ownership!Start(x)
        PROVE  /\ Place(x) = "unused" /\ Generations' = Generations /\ Handling' = Handling
               /\ Lives' = [Lives EXCEPT ![x] = Lives'[x]]
               /\ \A e \in Engine : Lives[e] <= Lives'[x]
               /\ (\A e \in Engine : Lives[e] < Lives'[x]) => disk'.generation > disk.generation
    BY <1>2 DEF Ownership!Start, Places, Generations, Lives, Handling
  <1>3. ASSUME NEW x \in Engine, Ownership!Grant(x)
        PROVE  /\ Place(x) = "started" /\ Lives' = Lives /\ Handling' = Handling
               /\ Generations' = [Generations EXCEPT ![x] = Generations'[x]]
               /\ Generations'[x] >= disk'.generation
               /\ \A e \in Engine : Lives[e] = Lives[x] => Generations[e] < Generations'[x]
               /\ \A r \in Req : Handling[r] = 0
    BY <1>3 DEF Ownership!Grant, Places, Generations, Lives, Handling
  <1>4. ASSUME NEW r \in Req, NEW x \in Engine, Ownership!Enter(r, x)
        PROVE  /\ Generations' = Generations /\ Lives' = Lives
               /\ Handling' = [Handling EXCEPT ![r] = x]
               /\ Generations[x] <= disk.generation
    BY <1>4 DEF Ownership!Enter, Generations, Lives, Handling
  <1>5. ASSUME NEW r \in Req, Ownership!Leave(r)
        PROVE  Generations' = Generations /\ Lives' = Lives /\ Handling' = [Handling EXCEPT ![r] = 0]
    BY <1>5 DEF Ownership!Leave, Generations, Lives, Handling
  <1>6. ASSUME NEW x \in Engine, Ownership!End(x)
        PROVE  /\ Generations' = Generations /\ Lives' = Lives
               /\ Handling' = [r \in Req |-> IF Handling[r] = x THEN 0 ELSE Handling[r]]
    BY <1>6 DEF Ownership!End, Generations, Lives, Handling
  <1>7. ASSUME NEW x \in Engine, Ownership!Take(x) \/ Ownership!GiveUp(x)
        PROVE  Generations' = Generations /\ Lives' = Lives /\ Handling' = Handling
    BY <1>7 DEF Ownership!Take, Ownership!GiveUp, Generations, Lives, Handling
  <1>8. Generations' = Generations /\ Lives' = Lives => SameGenerations
    BY <1>1 DEF SameGenerations
  <1>9. Handling' = Handling => \A r \in Req : req'[r].at = req[r].at
    BY <1>1
  <1>10. CASE \E x \in Engine : Ownership!Start(x)
    <2>1. PICK x \in Engine : Ownership!Start(x)
      BY <1>10
    <2>. QED
      BY <1>0, <1>1, <1>2, <1>9, <2>1
  <1>11. CASE \E x \in Engine : Ownership!Grant(x)
    <2>1. PICK x \in Engine : Ownership!Grant(x)
      BY <1>11
    <2>. QED
      BY <1>0, <1>1, <1>3, <1>9, <2>1
  <1>12. CASE \E r \in Req, x \in Engine : Ownership!Enter(r, x)
    BY <1>1, <1>4, <1>8, <1>12
  <1>13. CASE \E r \in Req : Ownership!Leave(r)
    BY <1>1, <1>5, <1>8, <1>13
  <1>14. CASE \E x \in Engine : Ownership!End(x)
    BY <1>1, <1>6, <1>8, <1>14
  <1>15. CASE \/ \E x \in Engine : Ownership!Take(x) \/ Ownership!GiveUp(x)
              \/ SameOwnership
    BY <1>7, <1>8, <1>9, <1>15 DEF SameOwnership
  <1>. QED
    BY <1>10, <1>11, <1>12, <1>13, <1>14, <1>15 DEF OwnershipStep

(* The numbers of the next state. *)
LEMMA OwnershipTypesNext ==
  ASSUME TermInv'
  PROVE  /\ disk'.generation \in Nat
         /\ \A e \in Engine : engine'[e].generation \in Nat /\ engine'[e].boot \in Nat
         /\ \A r \in Req : req'[r].at # 0 => req'[r].at \in Engine
  BY EngineNumbers, HandoverAssumption
  DEF TermInv, HandoverInv, HandoverTypeOK, Journal, EngineRecord, RequestRecord

(* A step keeps what is recorded recorded, *)
LEMMA ServedStays ==
  ASSUME TermInv, TermInv', ServedOK, OwnershipStep, disk'.generation >= disk.generation
  PROVE  ServedOK'
  <1>1. /\ disk.generation \in Nat /\ disk'.generation \in Nat
        /\ \A e \in Engine : engine[e].generation \in Nat /\ engine'[e].generation \in Nat
        /\ \A r \in Req : req'[r].at # 0 => req'[r].at \in Engine
    BY OwnershipTypes, OwnershipTypesNext
  <1>2. ASSUME NEW r \in Req, req'[r].at # 0
        PROVE  engine[req'[r].at].generation <= disk.generation
    BY <1>2, OwnershipEffects DEF ServedOK
  <1>3. ASSUME NEW r \in Req, req'[r].at # 0
        PROVE  engine'[req'[r].at].generation <= disk'.generation
    <2>1. PICK e \in Engine : e = req'[r].at
      BY <1>1, <1>3
    <2>2. engine[e].generation <= disk.generation
      BY <1>2, <1>3, <2>1
    <2>3. engine'[e].generation = engine[e].generation \/ engine'[e].generation = 0
      BY <1>3, <2>1, OwnershipEffects DEF SameGenerations
    <2>. QED
      BY <1>1, <2>1, <2>2, <2>3
  <1>. QED
    BY <1>3 DEF ServedOK

(* who handles requests is alone with its generation, *)
LEMMA HandlingIsPast ==
  ASSUME TermInv, ServedOK, NEW d \in Engine, Handlers(d) # {}
  PROVE  Past(d)
  <1>1. PICK r \in Req : req[r].at = d
    BY DEF Handlers
  <1>2. d # 0 /\ OwnsStores(d) /\ engine[d].boot = boot /\ engine[d].generation <= disk.generation
    BY <1>1, EngineNumbers DEF TermInv, HandoverInv, HandlersFinishFirst, HandledOK, ServedOK
  <1>3. /\ disk.generation \in Nat /\ boot \in Nat
        /\ \A e \in Engine : engine[e].generation \in Nat /\ engine[e].boot \in Nat
    BY OwnershipTypes, HandoverAssumption DEF TermInv, HandoverInv, HandoverTypeOK
  <1>4. engine[d].generation > 0
    BY <1>2, <1>3 DEF TermInv, GrantedOK, Quiet
  <1>5. \A e \in Engine : engine[e].boot <= boot
    BY DEF TermInv, HandoverInv, EngineOK
  <1>6. ASSUME NEW e \in Engine \ {d}, engine[e].boot = engine[d].boot
        PROVE  engine[e].generation # engine[d].generation
    <2>1. e < d \/ d < e
      BY EngineNumbers
    <2>. QED
      BY <1>3, <1>4, <1>6, <2>1 DEF TermInv, HandoverInv, GenerationsIncrease
  <1>. QED
    BY <1>2, <1>3, <1>4, <1>5, <1>6 DEF Past

(* and stays so. *)
LEMMA PastStays ==
  ASSUME TermInv, TermInv', OwnershipStep, disk'.generation >= disk.generation,
         NEW d \in Engine, Past(d)
  PROVE  Past(d)'
  <1>1. /\ disk.generation \in Nat /\ disk'.generation \in Nat
        /\ \A e \in Engine : /\ engine[e].generation \in Nat /\ engine[e].boot \in Nat
                             /\ engine'[e].generation \in Nat /\ engine'[e].boot \in Nat
    BY OwnershipTypes, OwnershipTypesNext
  <1>2. CASE SameGenerations
    BY <1>1, <1>2 DEF SameGenerations, Past
  <1>3. CASE \E x \in Engine :
               /\ engine[x].generation = 0 /\ engine'[x].generation = 0
               /\ \A e \in Engine : engine[e].boot <= engine'[x].boot
               /\ (\A e \in Engine : engine[e].boot < engine'[x].boot) =>
                    disk'.generation > disk.generation
               /\ \A e \in Engine \ {x} :
                    /\ engine'[e].generation = engine[e].generation
                    /\ engine'[e].boot = engine[e].boot
               /\ \A r \in Req : req'[r].at = req[r].at
    <2>1. PICK x \in Engine :
               /\ engine[x].generation = 0 /\ engine'[x].generation = 0
               /\ \A e \in Engine : engine[e].boot <= engine'[x].boot
               /\ (\A e \in Engine : engine[e].boot < engine'[x].boot) =>
                    disk'.generation > disk.generation
               /\ \A e \in Engine \ {x} :
                    /\ engine'[e].generation = engine[e].generation
                    /\ engine'[e].boot = engine[e].boot
      BY <1>3
    <2>2. x # d /\ engine'[d].generation = engine[d].generation /\ engine'[d].boot = engine[d].boot
      BY <2>1 DEF Past
    <2>3. engine'[x].boot > engine[d].boot => engine[d].generation < disk'.generation
      <3>1. CASE \E y \in Engine : engine[y].boot = engine'[x].boot
        BY <1>1, <3>1 DEF Past
      <3>2. CASE \A y \in Engine : engine[y].boot # engine'[x].boot
        <4>1. \A e \in Engine : engine[e].boot < engine'[x].boot
          BY <1>1, <2>1, <3>2
        <4>. QED
          BY <1>1, <2>1, <4>1 DEF Past
      <3>. QED
        BY <3>1, <3>2
    <2>4. ASSUME NEW e \in Engine \ {d}, e # x
          PROVE  /\ engine'[e].boot = engine'[d].boot =>
                      engine'[e].generation # engine'[d].generation
                 /\ engine'[e].boot > engine'[d].boot =>
                      /\ engine'[d].generation < disk'.generation
                      /\ engine'[e].generation = 0
                         \/ engine'[e].generation > engine'[d].generation
      BY <1>1, <2>1, <2>2, <2>4 DEF Past
    <2>. QED
      BY <1>1, <2>1, <2>2, <2>3, <2>4 DEF Past
  <1>4. CASE \E x \in Engine :
               /\ engine[x].generation = 0
               /\ engine'[x].generation >= disk'.generation
               /\ \A e \in Engine : engine[e].boot = engine[x].boot =>
                    engine[e].generation < engine'[x].generation
               /\ \A e \in Engine \ {x} : engine'[e].generation = engine[e].generation
               /\ \A e \in Engine : engine'[e].boot = engine[e].boot
               /\ \A r \in Req : req'[r].at = 0
    <2>1. PICK x \in Engine :
               /\ engine[x].generation = 0
               /\ engine'[x].generation >= disk'.generation
               /\ \A e \in Engine : engine[e].boot = engine[x].boot =>
                    engine[e].generation < engine'[x].generation
               /\ \A e \in Engine \ {x} : engine'[e].generation = engine[e].generation
               /\ \A e \in Engine : engine'[e].boot = engine[e].boot
      BY <1>4
    <2>2. x # d /\ engine'[d].generation = engine[d].generation /\ engine'[d].boot = engine[d].boot
      BY <2>1 DEF Past
    <2>. QED
      BY <1>1, <2>1, <2>2 DEF Past
  <1>. QED
    BY <1>2, <1>3, <1>4, OwnershipEffects

(* Once an engine has handled a request, no other ever handles one under    *)
(* the same generation, in this life of the host or in a later one: what an *)
(* owner does under its generation cannot be taken for another's, whatever  *)
(* failed writes, rollbacks, crashes and recoveries lie between.            *)
THEOREM OneOwnerPerGeneration ==
  ASSUME NEW d \in Engine, NEW e \in Engine, d # e
  PROVE  Spec => NeverUnderItsGeneration(d, e)
  <1>. DEFINE Inv == TermInv /\ ServedOK
  <1>1. Init => Inv
    BY TermInit, NoJobTypes DEF Init, ServedOK
  <1>2. Inv /\ [Next]_vars => Inv'
    BY OwnershipNext, ServedStays
  <1>3. Inv /\ Handlers(d) # {} => Past(d)
    BY HandlingIsPast
  <1>4. Inv /\ Past(d) /\ [Next]_vars => Past(d)'
    BY OwnershipNext, PastStays
  <1>5. Inv /\ Past(d) => (Handlers(e) # {} => engine[e].generation # engine[d].generation)
    <2>. SUFFICES ASSUME Inv, Past(d), Handlers(e) # {},
                         engine[e].generation = engine[d].generation
                  PROVE  FALSE
      OBVIOUS
    <2>1. Past(e)
      BY HandlingIsPast
    <2>2. \A x \in Engine : engine[x].generation \in Nat /\ engine[x].boot \in Nat
      BY OwnershipTypes
    <2>3. engine[e].boot = boot /\ boot \in Nat /\ engine[d].boot <= boot
      <3>1. PICK r \in Req : req[r].at = e
        BY DEF Handlers
      <3>2. boot \in 0..MaxBoots
        BY DEF TermInv, HandoverInv, HandoverTypeOK
      <3>. QED
        BY <3>1, <3>2, EngineNumbers, HandoverAssumption
        DEF TermInv, HandledOK, HandoverInv, EngineOK
    <2>. QED
      BY <2>1, <2>2, <2>3 DEF Past
  <1>. HIDE DEF Inv
  <1>. QED
    BY <1>1, <1>2, <1>3, <1>4, <1>5, PTL DEF Spec, NeverUnderItsGeneration

-----------------------------------------------------------------------------
(* A replacement cannot go round in circles: every step of a handover, its  *)
(* failures included, is a step towards its end, of which there are at most *)
(* thirteen; this is the safety half of ReplacementSettles.                 *)
THEOREM HandoverOnlyAdvances == Spec => HandoverAdvances
  <1>1. ASSUME HandoverStep
        PROVE  Ahead(step') < Ahead(step)
    <2>1. CASE PrepareFails \/ CandidatePrepared \/ Drained \/ AbortBeforeTransfer \/ Qualified
      BY <2>1 DEF PrepareFails, CandidatePrepared, Drained, AbortBeforeTransfer, Qualified,
         Fence, Ahead
    <2>2. CASE PreviousReleased \/ CandidateActive \/ CommitTarget \/ Finish \/ TransferFails
      BY <2>2 DEF PreviousReleased, CandidateActive, CommitTarget, Finish, TransferFails,
         Fence, Ahead
    <2>3. CASE Fenced \/ FenceFails \/ PreviousStopped \/ RestorePrepared \/ Restored
      BY <2>3 DEF Fenced, FenceFails, PreviousStopped, RestorePrepared, Restored, Ahead
    <2>4. CASE RestoreRecorded \/ RestoreFails \/ Cleaned \/ Confirm \/ Retired
      BY <2>4 DEF RestoreRecorded, RestoreFails, Cleaned, Confirm, Retired, Ahead
    <2>. QED
      BY <1>1, <2>1, <2>2, <2>3, <2>4 DEF HandoverStep
  <1>2. ASSUME step \in Updating, Next, ~HandoverStep
        PROVE  step' \in {step, "down"}
    <2>0. step \notin {"idle", "down"} \cup Booting \cup Closing
      BY <1>2 DEF Updating, Booting, Closing
    <2>1. CASE WorkerStep \/ RequestStep \/ \E e \in Engine : EngineExits(e)
      BY <2>1 DEF WorkerStep, RequestStep, EngineReady, WorkerActivates, WorkerDeactivates,
         EngineExits, Arrive, Reenter, Forward, ClientLeaves, HandlerEnds, hostVars
    <2>2. CASE HostStep
      BY <2>0, <2>2 DEF HostStep, Replace, Recover, RecoverFails, ReplaceSame, CloseAsks,
         CloseReleased, CloseFails, Closed, HostCrashes, HostDown, BootPrepared, BootActive,
         hostVars, Booting, Closing
    <2>. QED
      BY <1>2, <2>1, <2>2 DEF Next
  <1>3. [Next]_vars =>
          [/\ HandoverStep => Ahead(step') < Ahead(step)
           /\ step \in Updating => HandoverStep \/ step' \in {step, "down"}]_vars
    BY <1>1, <1>2
  <1>. QED
    BY <1>3, PTL DEF Spec, HandoverAdvances
=============================================================================
