---------------------------- MODULE RuntimeHandover ----------------------------
(***************************************************************************)
(* One runtime host that replaces the engine behind its listener without    *)
(* downtime: the handover controller (core/runtime/handover.ts), the gate   *)
(* of its ingress (core/runtime/admission.ts, adapters/_node-runtime-       *)
(* ingress.ts), the supervisor (adapters/_node-runtime-supervisor.ts), the  *)
(* engine workers (adapters/_node-runtime-worker.ts) and the journal.       *)
(*                                                                         *)
(* `step` is where the one lifecycle permit is: what the handover awaits.   *)
(* Each wait has a timeout, so each waiting step may also fail. Engines are *)
(* process incarnations, numbered in the order they are started.            *)
(***************************************************************************)
EXTENDS RuntimeJournal, FiniteSets

CONSTANTS
  Req,          \* slots for requests at the ingress
  QueueLimit,   \* requests the paused gate keeps waiting
  MaxEngines,   \* bound: engine processes ever started
  MaxBoots      \* bound: recoveries of the host

ASSUME HandoverAssumption ==
  /\ QueueLimit \in Nat \ {0}
  /\ MaxEngines \in Nat \ {0}
  /\ MaxBoots \in Nat

VARIABLES
  step,       \* what the holder of the lifecycle permit awaits
  job,        \* the local variables of the handover in progress
  current,    \* the controller's current release, owner and generation
  counter,    \* its generationCounter
  poisoned,   \* a rollback or a checkpoint left recovery to do
  selected,   \* the engine the ingress forwards to, 0 before the first
  failed,     \* the supervisor's `failure` was raised
  closing,    \* close() was called
  admission,  \* the gate: open, paused or closed
  boot,       \* how often the host was started
  engine,     \* engine[e]: an engine process
  req         \* req[r]: a request and the engine that handles it

hostVars == <<step, job, current, counter, poisoned, selected, failed, closing>>
vars == <<journalVars, hostVars, admission, boot, engine, req>>

Engine == 1..MaxEngines

-----------------------------------------------------------------------------
(* Engine processes. An engine takes the kernel ownership lock before it    *)
(* opens the live stores: "partial" is an activation that failed after      *)
(* that, "closing" a release that failed. `generation` comes with the       *)
(* activate command.                                                        *)
EngineRecord == [state : {"unused", "starting", "prepared", "active", "partial",
                          "closing", "exited"},
                 release : Release \cup {NoRelease},
                 generation : Nat,
                 boot : Nat,
                 command : {"none", "activate", "deactivate",
                            "activated", "released", "refused"},
                 expected : BOOLEAN]

Unused == [state |-> "unused", release |-> NoRelease, generation |-> 0,
           boot |-> 0, command |-> "none", expected |-> FALSE]

Alive(e) == engine[e].state \notin {"unused", "exited"}
OwnsStores(e) == engine[e].state \in {"active", "partial", "closing"}

(* The supervisor's `engines`: what this host started and has not seen exit. *)
Known(e) == Alive(e) /\ engine[e].boot = boot

IsNext(e) == /\ engine[e].state = "unused"
             /\ \A d \in Engine : d < e => engine[d].state # "unused"

Spawned(e, release, incarnation) ==
  [engine EXCEPT ![e] = [Unused EXCEPT !.state = "starting", !.release = release,
                                       !.boot = incarnation]]

(* discard(): the exit is expected from now on; stop() awaits it. *)
Discarded(es) ==
  [e \in Engine |-> IF e \in es THEN [engine[e] EXCEPT !.expected = TRUE] ELSE engine[e]]

Gone(es) == \A e \in es : ~Alive(e)

-----------------------------------------------------------------------------
(* Requests. waiting: queued at the paused gate; entered: admitted, not yet *)
(* forwarded; served: forwarded, holding its permit; orphaned: its client   *)
(* left and gave the permit back, its handler is still running.             *)
RequestRecord == [stage : {"idle", "waiting", "entered", "served", "orphaned"},
                  at : 0..MaxEngines]
NoRequest == [stage |-> "idle", at |-> 0]

Waiting == {r \in Req : req[r].stage = "waiting"}
Active == {r \in Req : req[r].stage \in {"entered", "served"}}
Handlers(e) == {r \in Req : req[r].at = e}

(* Mutated form: what only waited is kept as if a handler had it. *)
DisconnectedKept == [r \in Req |-> [req[r] EXCEPT !.stage = "orphaned"]]

(* The sockets of the ingress are gone; handlers in the engines run on. *)
Disconnected ==
  [r \in Req |-> IF req[r].at = 0 THEN NoRequest ELSE [req[r] EXCEPT !.stage = "orphaned"]]

-----------------------------------------------------------------------------
NoJob == [target |-> NoRelease, candidate |-> 0, generation |-> 0,
          released |-> FALSE, restored |-> 0]
NoOwner == [release |-> NoRelease, owner |-> 0, generation |-> 0]

(* Steps that run with `updating` set. *)
Updating == {"preparing", "draining", "qualifying", "deactivating", "activating",
             "committing", "finishing", "fencing", "stoppingPrevious", "restoring",
             "restoreActivating", "restoreFinishing", "cleaning", "confirming"}
Booting == {"bootPreparing", "bootActivating"}
Closing == {"closeDeactivating", "closeDiscarding"}
Step == {"down", "idle", "retiring"} \cup Updating \cup Booting \cup Closing

(* Types; and a request names an engine exactly while a handler has it.     *)
HandoverTypeOK ==
  /\ disk \in Journal /\ memory \in Journal
  /\ step \in Step
  /\ job \in [target : Release \cup {NoRelease}, candidate : 0..MaxEngines,
              generation : Nat, released : BOOLEAN, restored : 0..MaxEngines]
  /\ current \in [release : Release \cup {NoRelease}, owner : 0..MaxEngines,
                  generation : Nat]
  /\ counter \in Nat /\ selected \in 0..MaxEngines
  /\ poisoned \in BOOLEAN /\ failed \in BOOLEAN /\ closing \in BOOLEAN
  /\ admission \in {"open", "paused", "closed"}
  /\ boot \in 0..MaxBoots
  /\ engine \in [Engine -> EngineRecord]
  /\ req \in [Req -> RequestRecord]
  /\ \A r \in Req : req[r].at # 0 <=> req[r].stage \in {"served", "orphaned"}

Init ==
  /\ disk = Empty /\ memory = Empty
  /\ step = "down" /\ job = NoJob /\ current = NoOwner /\ counter = 0
  /\ poisoned = FALSE /\ selected = 0 /\ failed = FALSE /\ closing = FALSE
  /\ admission = "closed" /\ boot = 0
  /\ engine = [e \in Engine |-> Unused]
  /\ req = [r \in Req |-> NoRequest]

Record(phase, generation) ==
  [phase |-> phase, generation |-> generation,
   previous |-> current.release, target |-> job.target]

Pause == admission' = IF admission = "closed" THEN "closed" ELSE "paused"
Resume == admission' = IF admission = "closed" THEN "closed" ELSE "open"

-----------------------------------------------------------------------------
(* The worker of engine e. *)

EngineReady(e) ==
  /\ engine[e].state = "starting"
  /\ engine' = [engine EXCEPT ![e].state = "prepared"]
  /\ UNCHANGED <<journalVars, hostVars, admission, boot, req>>

(* The lock refuses a second owner; opening can fail once it is held. *)
WorkerActivates(e) ==
  /\ engine[e].command = "activate" /\ engine[e].state = "prepared"
  /\ \/ /\ \A d \in Engine : ~OwnsStores(d)
        /\ \/ engine' = [engine EXCEPT ![e].state = "active", ![e].command = "activated"]
           \/ engine' = [engine EXCEPT ![e].state = "partial", ![e].command = "refused"]
     \/ engine' = [engine EXCEPT ![e].command = "refused"]
  /\ UNCHANGED <<journalVars, hostVars, admission, boot, req>>

(* Mutated form: the stores are closed under handlers that still run. *)
WorkerDeactivatesAtOnce(e) ==
  /\ engine[e].command = "deactivate"
  /\ \/ /\ engine[e].state \in {"prepared", "active", "closing"}
        /\ engine' = [engine EXCEPT ![e].state = "prepared", ![e].command = "released"]
     \/ /\ engine[e].state \in {"active", "closing"}
        /\ engine' = [engine EXCEPT ![e].state = "closing", ![e].command = "refused"]
     \/ /\ engine[e].state = "partial"
        /\ engine' = [engine EXCEPT ![e].command = "refused"]
  /\ UNCHANGED <<journalVars, hostVars, admission, boot, req>>

(* Release waits for every handler, times out, or fails to close a store. *)
WorkerDeactivates(e) ==
  /\ engine[e].command = "deactivate"
  /\ \/ /\ engine[e].state \in {"prepared", "active", "closing"}
        /\ Handlers(e) = {}
        /\ engine' = [engine EXCEPT ![e].state = "prepared", ![e].command = "released"]
     \/ /\ engine[e].state \in {"active", "closing"}
        /\ engine' = [engine EXCEPT ![e].state = "closing", ![e].command = "refused"]
     \/ /\ engine[e].state = "partial"
        /\ engine' = [engine EXCEPT ![e].command = "refused"]
  /\ UNCHANGED <<journalVars, hostVars, admission, boot, req>>

(* The process ends, on its own or stopped, and the kernel frees its lock.  *)
(* Only an exit of the selected engine outside an update is reported.       *)
EngineExits(e) ==
  /\ Alive(e)
  /\ engine' = [engine EXCEPT ![e].state = "exited", ![e].command = "none"]
  /\ req' = [r \in Req |-> IF req[r].at = e THEN NoRequest ELSE req[r]]
  /\ IF /\ step # "down" /\ engine[e].boot = boot /\ selected = e
        /\ ~closing /\ step \notin Updating /\ ~engine[e].expected
     THEN Pause /\ failed' = TRUE
     ELSE UNCHANGED <<admission, failed>>
  /\ UNCHANGED <<journalVars, step, job, current, counter, poisoned, selected,
                 closing, boot>>

-----------------------------------------------------------------------------
(* Requests at the ingress. *)

Arrive(r) ==
  /\ req[r] = NoRequest
  /\ \/ admission = "open" /\ req' = [req EXCEPT ![r].stage = "entered"]
     \/ /\ admission = "paused" /\ Cardinality(Waiting) < QueueLimit
        /\ req' = [req EXCEPT ![r].stage = "waiting"]
  /\ UNCHANGED <<journalVars, hostVars, admission, boot, engine>>

(* `reopened` settled; the gate is checked again. *)
Reenter(r) ==
  /\ req[r].stage = "waiting" /\ admission = "open"
  /\ req' = [req EXCEPT ![r].stage = "entered"]
  /\ UNCHANGED <<journalVars, hostVars, admission, boot, engine>>

(* Forwarded to the engine selected now; 502 when nothing answers there. *)
Forward(r) ==
  /\ req[r].stage = "entered"
  /\ req' = [req EXCEPT ![r] = IF selected # 0 /\ engine[selected].state = "active"
                               THEN [stage |-> "served", at |-> selected]
                               ELSE NoRequest]
  /\ UNCHANGED <<journalVars, hostVars, admission, boot, engine>>

(* The client leaves: its permit is free, its handler is not interrupted. *)
ClientLeaves(r) ==
  /\ req[r].stage \in {"waiting", "entered", "served"}
  /\ req' = [req EXCEPT ![r] = IF @.stage = "served"
                               THEN [@ EXCEPT !.stage = "orphaned"] ELSE NoRequest]
  /\ UNCHANGED <<journalVars, hostVars, admission, boot, engine>>

HandlerEnds(r) ==
  /\ req[r].stage \in {"served", "orphaned"}
  /\ req' = [req EXCEPT ![r] = NoRequest]
  /\ UNCHANGED <<journalVars, hostVars, admission, boot, engine>>

-----------------------------------------------------------------------------
(* replace(): up to the moment ownership starts to move, failures and       *)
(* interruption are reversible.                                             *)

(* Mutated form: an aborted attempt gives its generation back. *)
NextGenerationReused == current.generation + 1

NextGeneration == counter + 1

Replace(release) ==
  /\ step = "idle" /\ ~closing /\ ~poisoned /\ release # current.release
  /\ \E e \in Engine :
       /\ IsNext(e)
       /\ engine' = Spawned(e, release, boot)
       /\ job' = [NoJob EXCEPT !.target = release, !.candidate = e,
                               !.generation = NextGeneration]
  /\ counter' = NextGeneration
  /\ step' = "preparing"
  /\ UNCHANGED <<journalVars, current, poisoned, selected, failed, closing,
                 admission, boot, req>>

(* Replacing by the running release changes nothing but retires debt. *)
ReplaceSame ==
  /\ step = "idle" /\ ~closing /\ ~poisoned
  /\ step' = "confirming"
  /\ UNCHANGED <<journalVars, job, current, counter, poisoned, selected, failed,
                 closing, admission, boot, engine, req>>

(* The candidate is told to stop; what it does later is its own exit. *)
PrepareFails ==
  /\ step = "preparing"
  /\ step' = "idle" /\ job' = NoJob
  /\ UNCHANGED <<journalVars, current, counter, poisoned, selected, failed,
                 closing, admission, boot, engine, req>>

CandidatePrepared ==
  /\ step = "preparing" /\ engine[job.candidate].state = "prepared"
  /\ \/ /\ CheckpointOk(Record("prepared", job.generation))
        /\ Pause /\ step' = "draining"
        /\ UNCHANGED <<poisoned, engine>>
     \/ /\ CheckpointFails(Record("prepared", job.generation))
        /\ poisoned' = TRUE /\ step' = "cleaning"
        /\ engine' = Discarded({job.candidate})
        /\ UNCHANGED admission
  /\ UNCHANGED <<job, current, counter, selected, failed, closing, boot, req>>

(* Mutated form: the previous engine is asked before its requests finished. *)
DrainedAtOnce ==
  /\ step = "draining"
  /\ step' = "qualifying"
  /\ UNCHANGED <<journalVars, job, current, counter, poisoned, selected, failed,
                 closing, admission, boot, engine, req>>

Drained ==
  /\ step = "draining" /\ Active = {}
  /\ step' = "qualifying"
  /\ UNCHANGED <<journalVars, job, current, counter, poisoned, selected, failed,
                 closing, admission, boot, engine, req>>

(* Mutated form: a drain that never times out. *)
AbortOnlyQualifying ==
  /\ step = "qualifying"
  /\ Resume /\ step' = "cleaning"
  /\ engine' = Discarded({job.candidate})
  /\ UNCHANGED <<journalVars, job, current, counter, poisoned, selected, failed,
                 closing, boot, req>>

(* Mutated form: an aborted attempt leaves the gate as it found it. *)
AbortLeavesPaused ==
  /\ step \in {"draining", "qualifying"}
  /\ step' = "cleaning"
  /\ engine' = Discarded({job.candidate})
  /\ UNCHANGED <<journalVars, job, current, counter, poisoned, selected, failed,
                 closing, admission, boot, req>>

(* Drain timeout, refused qualification, or the caller left. *)
AbortBeforeTransfer ==
  /\ step \in {"draining", "qualifying"}
  /\ Resume /\ step' = "cleaning"
  /\ engine' = Discarded({job.candidate})
  /\ UNCHANGED <<journalVars, job, current, counter, poisoned, selected, failed,
                 closing, boot, req>>

-----------------------------------------------------------------------------
(* The transfer, which completes or is rolled back. *)

Fence == step' = "fencing" /\ engine' = Discarded({job.candidate})

Qualified ==
  /\ step = "qualifying" /\ engine[current.owner].state = "active"
  /\ \/ /\ CheckpointOk(Record("releasing", job.generation))
        /\ job' = [job EXCEPT !.released = TRUE]
        /\ engine' = [engine EXCEPT ![current.owner].command = "deactivate"]
        /\ step' = "deactivating"
        /\ UNCHANGED poisoned
     \/ /\ CheckpointFails(Record("releasing", job.generation))
        /\ poisoned' = TRUE /\ Fence
        /\ UNCHANGED job
  /\ UNCHANGED <<current, counter, selected, failed, closing, admission, boot, req>>

PreviousReleased ==
  /\ step = "deactivating"
  /\ engine[current.owner].command = "released" /\ Alive(job.candidate)
  /\ CheckpointOk(Record("activating", job.generation))
  /\ engine' = [engine EXCEPT ![job.candidate].command = "activate",
                              ![job.candidate].generation = job.generation]
  /\ step' = "activating"
  /\ UNCHANGED <<job, current, counter, poisoned, selected, failed, closing,
                 admission, boot, req>>

CandidateActive ==
  /\ step = "activating" /\ engine[job.candidate].command = "activated"
  /\ CheckpointOk(Record("committing", job.generation))
  /\ step' = "committing"
  /\ UNCHANGED <<job, current, counter, poisoned, selected, failed, closing,
                 admission, boot, engine, req>>

CommitTarget ==
  /\ step = "committing"
  /\ CommitOk(job.target, job.generation)
  /\ selected' = job.candidate /\ step' = "finishing"
  /\ UNCHANGED <<job, current, counter, poisoned, failed, closing, admission, boot,
                 engine, req>>

Finish ==
  /\ step = "finishing"
  /\ CheckpointOk(Record("ready", job.generation))
  /\ current' = [release |-> job.target, owner |-> job.candidate,
                 generation |-> job.generation]
  /\ Resume /\ step' = "confirming" /\ job' = NoJob
  /\ UNCHANGED <<counter, poisoned, selected, failed, closing, boot, engine, req>>

(* A refusal, a timeout, an exit or a failed write, at any of its steps. *)
TransferFails ==
  /\ \/ step \in {"deactivating", "activating"} /\ UNCHANGED journalVars
     \/ /\ step = "deactivating" /\ engine[current.owner].command = "released"
        /\ CheckpointFails(Record("activating", job.generation))
     \/ /\ step = "activating" /\ engine[job.candidate].command = "activated"
        /\ CheckpointFails(Record("committing", job.generation))
     \/ step = "committing" /\ CommitFails(job.target, job.generation)
     \/ step = "finishing" /\ CheckpointFails(Record("ready", job.generation))
  /\ Fence
  /\ UNCHANGED <<job, current, counter, poisoned, selected, failed, closing,
                 admission, boot, req>>

-----------------------------------------------------------------------------
(* Rollback: fence the candidate, stop the previous owners, restore. *)

(* Mutated form: only what the handover started is stopped. *)
PreviousOwnersIgnored == {}

(* A failed release proves nothing: every engine of the release is stopped. *)
PreviousOwners == {e \in Engine : Known(e) /\ engine[e].release = current.release}

Fenced ==
  /\ step = "fencing" /\ Gone({job.candidate})
  /\ \/ /\ job.released
        /\ counter' = job.generation + 1
        /\ engine' = Discarded(PreviousOwners)
        /\ step' = "stoppingPrevious"
        /\ UNCHANGED <<job, admission>>
     \/ /\ ~job.released
        /\ Resume /\ step' = "idle" /\ job' = NoJob
        /\ UNCHANGED <<counter, engine>>
  /\ UNCHANGED <<journalVars, current, poisoned, selected, failed, closing, boot, req>>

(* Mutated form: traffic resumes whatever the rollback could prove. *)
FenceFailsResuming ==
  /\ step = "fencing"
  /\ poisoned' = TRUE /\ step' = "cleaning"
  /\ Resume
  /\ UNCHANGED <<journalVars, job, current, counter, selected, failed, closing,
                 boot, engine, req>>

(* The candidate may still own the data: the gate stays paused, unless the  *)
(* previous owner never released anything.                                  *)
FenceFails ==
  /\ step = "fencing"
  /\ poisoned' = TRUE /\ step' = "cleaning"
  /\ IF job.released THEN UNCHANGED admission ELSE Resume
  /\ UNCHANGED <<journalVars, job, current, counter, selected, failed, closing,
                 boot, engine, req>>

PreviousStopped ==
  /\ step = "stoppingPrevious" /\ Gone(PreviousOwners)
  /\ \E e \in Engine :
       /\ IsNext(e)
       /\ engine' = Spawned(e, current.release, boot)
       /\ job' = [job EXCEPT !.restored = e]
  /\ step' = "restoring"
  /\ UNCHANGED <<journalVars, current, counter, poisoned, selected, failed,
                 closing, admission, boot, req>>

RestorePrepared ==
  /\ step = "restoring" /\ engine[job.restored].state = "prepared"
  /\ engine' = [engine EXCEPT ![job.restored].command = "activate",
                              ![job.restored].generation = job.generation + 1]
  /\ step' = "restoreActivating"
  /\ UNCHANGED <<journalVars, job, current, counter, poisoned, selected, failed,
                 closing, admission, boot, req>>

Restored ==
  /\ step = "restoreActivating" /\ engine[job.restored].command = "activated"
  /\ CommitOk(current.release, job.generation + 1)
  /\ current' = [current EXCEPT !.owner = job.restored,
                                !.generation = job.generation + 1]
  /\ selected' = job.restored
  /\ step' = "restoreFinishing"
  /\ UNCHANGED <<job, counter, poisoned, failed, closing, admission, boot, engine, req>>

RestoreRecorded ==
  /\ step = "restoreFinishing"
  /\ CheckpointOk(Record("failed", job.generation + 1))
  /\ Resume /\ step' = "idle" /\ job' = NoJob
  /\ UNCHANGED <<current, counter, poisoned, selected, failed, closing, boot,
                 engine, req>>

(* An unproven rollback: no further update, and the gate stays paused. *)
RestoreFails ==
  /\ \/ /\ step \in {"stoppingPrevious", "restoring", "restoreActivating"}
        /\ UNCHANGED journalVars
     \/ /\ step = "restoreActivating" /\ engine[job.restored].command = "activated"
        /\ CommitFails(current.release, job.generation + 1)
     \/ /\ step = "restoreFinishing"
        /\ CheckpointFails(Record("failed", job.generation + 1))
  /\ poisoned' = TRUE /\ step' = "idle" /\ job' = NoJob
  /\ UNCHANGED <<current, counter, selected, failed, closing, admission, boot,
                 engine, req>>

-----------------------------------------------------------------------------
(* The end of a replacement. *)

(* The finalizer discards a candidate that is not the owner. *)
Cleaned ==
  /\ step = "cleaning"
  /\ \/ Gone({job.candidate}) /\ UNCHANGED <<poisoned, admission>>
     \/ /\ poisoned' = TRUE
        /\ IF job.released THEN Pause ELSE UNCHANGED admission
  /\ step' = "idle" /\ job' = NoJob
  /\ UNCHANGED <<journalVars, current, counter, selected, failed, closing, boot,
                 engine, req>>

(* After success, `updating` is reset, the owner checked, the rest retired. *)
Confirm ==
  /\ step = "confirming"
  /\ IF Alive(current.owner)
     THEN /\ engine' = Discarded({e \in Engine : Known(e) /\ e # current.owner})
          /\ step' = "retiring"
          /\ UNCHANGED <<admission, failed>>
     ELSE /\ Pause /\ failed' = TRUE /\ step' = "idle"
          /\ UNCHANGED engine
  /\ UNCHANGED <<journalVars, job, current, counter, poisoned, selected, closing,
                 boot, req>>

(* Each retirement succeeds or becomes cleanup debt. *)
Retired ==
  /\ step = "retiring"
  /\ step' = "idle"
  /\ UNCHANGED <<journalVars, job, current, counter, poisoned, selected, failed,
                 closing, admission, boot, engine, req>>

-----------------------------------------------------------------------------
(* Shutdown, death and recovery of the host. *)

CloseAsks ==
  /\ step = "idle"
  /\ closing' = TRUE /\ admission' = "closed"
  /\ req' = Disconnected
  /\ IF Alive(current.owner)
     THEN /\ engine' = [engine EXCEPT ![current.owner].command = "deactivate"]
          /\ step' = "closeDeactivating"
     ELSE /\ engine' = Discarded({e \in Engine : Known(e)})
          /\ step' = "closeDiscarding"
  /\ UNCHANGED <<journalVars, job, current, counter, poisoned, selected, failed, boot>>

CloseReleased ==
  /\ step = "closeDeactivating" /\ engine[current.owner].command = "released"
  /\ engine' = Discarded({e \in Engine : Known(e)})
  /\ step' = "closeDiscarding"
  /\ UNCHANGED <<journalVars, job, current, counter, poisoned, selected, failed,
                 closing, admission, boot, req>>

(* A failed shutdown can be retried; replacements stay refused. *)
CloseFails ==
  /\ step \in Closing
  /\ step' = "idle"
  /\ UNCHANGED <<journalVars, job, current, counter, poisoned, selected, failed,
                 closing, admission, boot, engine, req>>

HostDown ==
  /\ step' = "down" /\ job' = NoJob /\ current' = NoOwner /\ counter' = 0
  /\ poisoned' = FALSE /\ selected' = 0 /\ failed' = FALSE /\ closing' = FALSE
  /\ admission' = "closed" /\ memory' = Empty /\ req' = Disconnected
  /\ UNCHANGED <<disk, boot, engine>>

Closed ==
  /\ step = "closeDiscarding" /\ Gone({e \in Engine : Known(e)})
  /\ HostDown

(* The host process dies, or gives up a start that failed. *)
HostCrashes == step # "down" /\ HostDown

(* The kernel lock, taken and given back, proves that nothing owns them. *)
Unowned == \A e \in Engine : ~OwnsStores(e)

(* The release is the persisted one or an authorised initial one. *)
Recover(release) ==
  /\ step = "down" /\ boot < MaxBoots /\ Unowned
  /\ \E e \in Engine :
       /\ IsNext(e)
       /\ engine' = Spawned(e, release, boot + 1)
       /\ current' = [release |-> release, owner |-> e,
                      generation |-> disk.generation + 1]
  /\ Write(Recovered(release))
  /\ counter' = disk.generation + 1
  /\ boot' = boot + 1 /\ step' = "bootPreparing"
  /\ UNCHANGED <<job, poisoned, selected, failed, closing, admission, req>>

RecoverFails(release) ==
  /\ step = "down" /\ boot < MaxBoots /\ Unowned
  /\ disk' = Recovered(release)
  /\ boot' = boot + 1
  /\ UNCHANGED <<memory, hostVars, admission, engine, req>>

BootPrepared ==
  /\ step = "bootPreparing" /\ engine[current.owner].state = "prepared"
  /\ engine' = [engine EXCEPT ![current.owner].command = "activate",
                              ![current.owner].generation = current.generation]
  /\ step' = "bootActivating"
  /\ UNCHANGED <<journalVars, job, current, counter, poisoned, selected, failed,
                 closing, admission, boot, req>>

BootActive ==
  /\ step = "bootActivating" /\ engine[current.owner].command = "activated"
  /\ selected' = current.owner
  /\ admission' = "open" /\ step' = "idle"
  /\ UNCHANGED <<journalVars, job, current, counter, poisoned, failed, closing,
                 boot, engine, req>>

-----------------------------------------------------------------------------
WorkerStep ==
  \E e \in Engine : EngineReady(e) \/ WorkerActivates(e) \/ WorkerDeactivates(e)

RequestStep ==
  \E r \in Req : \/ Arrive(r) \/ Reenter(r) \/ Forward(r)
                 \/ ClientLeaves(r) \/ HandlerEnds(r)

HandoverStep ==
  \/ PrepareFails \/ CandidatePrepared \/ Drained \/ AbortBeforeTransfer
  \/ Qualified \/ PreviousReleased \/ CandidateActive \/ CommitTarget \/ Finish
  \/ TransferFails \/ Fenced \/ FenceFails
  \/ PreviousStopped \/ RestorePrepared \/ Restored \/ RestoreRecorded \/ RestoreFails
  \/ Cleaned \/ Confirm \/ Retired

HostStep ==
  \/ \E release \in Release : Replace(release) \/ Recover(release) \/ RecoverFails(release)
  \/ ReplaceSame
  \/ CloseAsks \/ CloseReleased \/ CloseFails \/ Closed \/ HostCrashes
  \/ BootPrepared \/ BootActive

Next ==
  \/ WorkerStep
  \/ \E e \in Engine : EngineExits(e)
  \/ RequestStep
  \/ HandoverStep
  \/ HostStep

Spec == Init /\ [][Next]_vars

(* Every wait of a handover has a timeout; what is told to stop exits, by   *)
(* SIGKILL in the end; the fibers that `reopened` wakes run.                *)
Fairness ==
  /\ WF_vars(HandoverStep)
  /\ \A e \in Engine : WF_vars(engine[e].expected /\ EngineExits(e))
  /\ \A r \in Req : SF_vars(Reenter(r))

FairSpec == Spec /\ Fairness

-----------------------------------------------------------------------------
(* Properties. *)

(* Traffic reaches an engine that owns the stores: a request that passed    *)
(* the gate is aimed at one that is serving, or that died by itself; never  *)
(* at one that was asked to release, was fenced or was discarded.           *)
AdmittedReachOwner ==
  \A r \in Active :
    LET e == IF req[r].stage = "served" THEN req[r].at ELSE selected IN
    /\ e # 0
    /\ \/ engine[e].state = "active" /\ engine[e].command # "deactivate"
       \/ engine[e].state = "exited" /\ ~engine[e].expected

(* An engine gives up its stores only when no handler runs in it, also not  *)
(* one whose client has gone (RuntimeWorker.deactivate).                    *)
HandlersFinishFirst ==
  \A e \in Engine : Handlers(e) # {} => OwnsStores(e)

(* The handover never sends an engine to open stores that another engine of *)
(* this host still owns: the kernel lock is a second line, not the first.   *)
ActivationUncontended ==
  \A d, e \in Engine :
    (Known(d) /\ Known(e) /\ d # e /\ engine[e].command = "activate")
      => ~OwnsStores(d)

(* While traffic is admitted, the controller, the ingress target and the    *)
(* file agree on the release, so that a crash recovers the serving one.     *)
ServingIsRecorded ==
  admission = "open" =>
    /\ selected = current.owner
    /\ engine[selected].release = current.release
    /\ disk.selected = current.release
    /\ disk.generation >= current.generation

(* The journal refuses stale and disordered writes; the controller's own    *)
(* are never among them, after any mixture of failures and retries.         *)
JournalNeverRefuses ==
  /\ step = "preparing" => CheckpointAllowed(Record("prepared", job.generation))
  /\ step = "qualifying" => CheckpointAllowed(Record("releasing", job.generation))
  /\ step = "deactivating" => CheckpointAllowed(Record("activating", job.generation))
  /\ step = "activating" => CheckpointAllowed(Record("committing", job.generation))
  /\ step = "committing" => CommitAllowed(job.target, job.generation)
  /\ step = "finishing" => CheckpointAllowed(Record("ready", job.generation))
  /\ step = "restoreActivating" => CommitAllowed(current.release, job.generation + 1)
  /\ step = "restoreFinishing" => CheckpointAllowed(Record("failed", job.generation + 1))

(* Within one life of the host every engine that is granted the stores gets *)
(* a newer generation than all before it.                                   *)
GenerationsIncrease ==
  \A d, e \in Engine :
    (/\ d < e /\ engine[d].boot = engine[e].boot
     /\ engine[d].generation > 0 /\ engine[e].generation > 0)
      => engine[d].generation < engine[e].generation

(* The recorded generation never goes back, although a failed write leaves  *)
(* memory behind the file: neither a later write of the same host nor the   *)
(* recovery of the next one undoes what the file already holds.             *)
RecordedGenerationRises == [][disk'.generation >= disk.generation]_disk

(* A replacement ends: with the new owner, the old one, or recovery due.    *)
ReplacementSettles == step \in Updating ~> step \notin Updating

(* How many steps of the controller a lifecycle operation can still take.   *)
Ahead(s) ==
  CASE s = "preparing" -> 13 [] s = "draining" -> 12 [] s = "qualifying" -> 11
    [] s = "deactivating" -> 10 [] s = "activating" -> 9 [] s = "committing" -> 8
    [] s = "finishing" -> 7 [] s = "fencing" -> 6 [] s = "stoppingPrevious" -> 5
    [] s = "restoring" -> 4 [] s = "restoreActivating" -> 3
    [] s \in {"restoreFinishing", "confirming"} -> 2
    [] s \in {"cleaning", "retiring"} -> 1
    [] OTHER -> 0

(* No failure sends a replacement back: whatever fails, it is nearer to its *)
(* end after each of its steps, and only the host's death interrupts it.    *)
HandoverAdvances ==
  [][/\ HandoverStep => Ahead(step') < Ahead(step)
     /\ step \in Updating => HandoverStep \/ step' \in {step, "down"}]_vars

(* A request queued by a handover is admitted or refused in the end, unless *)
(* the host asks for recovery or for its own restart.                       *)
QueuedLeaves ==
  \A r \in Req :
    req[r].stage = "waiting" ~> (req[r].stage # "waiting" \/ poisoned \/ failed)

(* updates.md: "An unexpected selected-engine exit pauses admission and     *)
(* wakes its supervising host for restart."                                 *)
SelectedExitIsReported ==
  (/\ step = "idle" /\ ~closing /\ ~poisoned
   /\ engine[selected].state = "exited" /\ ~engine[selected].expected)
    => failed /\ admission = "paused"

(* Once an engine has handled a request, no other ever handles one under    *)
(* the same generation, in this life of the host or in a later one.         *)
NeverUnderItsGeneration(d, e) ==
  [](Handlers(d) # {} =>
       [](Handlers(e) # {} => engine[e].generation # engine[d].generation))

(* What the abstract specification sees of an engine: once its generation   *)
(* is granted, an answer other than `activated` is the end of it.           *)
Place(e) ==
  IF OwnsStores(e) THEN "owner"
  ELSE IF engine[e].state = "exited" THEN "over"
  ELSE IF engine[e].command = "activate" THEN "granted"
  ELSE IF engine[e].generation > 0 THEN "over"
  ELSE IF engine[e].state = "unused" THEN "unused" ELSE "started"

(* The handover implements the ownership of the stores: what it awaits, the *)
(* rollback and the gate are hidden (core/runtime/handover.ts,              *)
(* adapters/_node-runtime-worker.ts).                                       *)
Ownership == INSTANCE StoreOwnership WITH
  Engines <- Engine, Requests <- Req,
  place <- [e \in Engine |-> Place(e)],
  generation <- [e \in Engine |-> engine[e].generation],
  life <- [e \in Engine |-> engine[e].boot],
  at <- [r \in Req |-> req[r].at],
  recorded <- disk.generation

ImplementsOwnership == Ownership!Spec

================================================================================
