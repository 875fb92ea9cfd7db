---------------------------- MODULE RemotePlacement ----------------------------
(***************************************************************************)
(* A Project on a remote Node: the grants and commands the Platform signs    *)
(* (project.ts, adapters/_project-dispatch-https.ts) and the Agent that      *)
(* keeps the highest placement it has been told of                           *)
(* (core/agent/remote-placement.ts), admits each command once                *)
(* (core/agent/project-dispatch.ts) and runs the Project's processes         *)
(* (adapters/_remote-project-agent.ts).                                      *)
(*                                                                         *)
(* The placement authority is taken in the one-step form PlacementAuthority  *)
(* is shown to implement. A message may arrive late, out of order, again or  *)
(* never. An epoch stands for its owner session: it is granted to one. The   *)
(* supervisor of a process is reduced to one step per check; AgentPlacement  *)
(* has its reads in flight, and the children a crash leaves without record.  *)
(* The preparation of the Project's files is not modelled. Every await of a  *)
(* handler ends a step.                                                      *)
(***************************************************************************)
EXTENDS Integers

CONSTANTS
  Handlers,     \* requests the Agent can be serving at once
  Procs,        \* slots for the Project's processes on the Node
  LeaseMs,      \* the lease of a grant or renewal
  TtlMs,        \* how long a signed grant or command is good for
  Skew,         \* how far the Agent's wall clock is behind the Platform's
  MaxClock,     \* bound on the Agent's clock
  MaxEpoch,     \* bound on placements
  MaxRevision,  \* bound on writes of the authority
  MaxCommands   \* bound on commands, each with a nonce of its own

ASSUME RemoteAssumption ==
  /\ LeaseMs \in Nat \ {0} /\ TtlMs \in Nat \ {0} /\ Skew \in Nat
  /\ MaxClock \in Nat /\ MaxEpoch \in Nat /\ MaxRevision \in Nat
  /\ MaxCommands \in Nat

VARIABLES
  now,        \* Date.now() of the Agent
  placement,  \* the authority's committed record
  sent,       \* the signed grants and commands that can still be good
  issued,     \* how many commands have been signed
  replies,    \* the Agent's answers 200 for this placement the Platform heard
  held,       \* the Agent's durable high-water record
  consumed,   \* the nonces in the Agent's store
  handler,    \* handler[h]: a request being served
  proc,       \* proc[p]: a process and its supervisor
  driver,     \* the process the runtime's entry of the Project names
  up,         \* the Agent answers
  \* History variables: nothing reads them but the properties.
  executed,   \* executed[n]: how often the command with nonce n was carried out
  surrendered \* epochs the Agent has recorded as released

platformVars == <<placement, sent, issued>>
historyVars == <<executed, surrendered>>
vars == <<now, platformVars, replies, held, consumed, handler, proc, driver,
          up, historyVars>>

-----------------------------------------------------------------------------
(* The data. *)

Nonces == 1 .. MaxCommands
NoSlot == "none"

Record == [epoch : 0 .. MaxEpoch, revision : 0 .. MaxRevision, until : Nat,
           state : {"absent", "active", "released"}]
Absent == [epoch |-> 0, revision |-> 0, until |-> 0, state |-> "absent"]

Grants == [kind : {"grant"}, record : Record, expiresAt : Nat]
Commands == [kind : {"start", "stop"}, epoch : 1 .. MaxEpoch, nonce : Nonces,
             expiresAt : Nat]

(* observed    accept has the entry its compare-and-set will name           *)
(* fencing     accept asks for the fencing of the placement it read next    *)
(* writing     accept writes once the processes it fenced have exited       *)
(* received    a command agrees with the placement read for it              *)
(* authorized  its nonce has been consumed                                  *)
(* starting    agent.start: the child in `waits` is being spawned           *)
(* stopping    runtime.stop waits for the exits in `waits`                  *)
(* releasing   release has the entry it will replace                        *)
Phases == {"idle", "observed", "fencing", "writing", "received",
           "authorized", "starting", "stopping", "releasing"}

NoMessage == [kind |-> "none"]
Idle == [phase |-> "idle", message |-> NoMessage, observed |-> Absent,
         previous |-> 0, waits |-> {}]

NoProc == [phase |-> "none", epoch |-> 0, deadline |-> 0, fenced |-> FALSE]

(* What fencePlacement finds: a handle or a durable record. *)
Visible == {p \in Procs : proc[p].phase \in {"running", "stopping", "orphan"}}

Ended(r, phase) == [NoProc EXCEPT !.phase = phase, !.epoch = r.epoch]
Stopped(r) == IF r.phase = "running" THEN Ended(r, "stopping") ELSE r

Done(h) == [handler EXCEPT ![h] = Idle]

(* The Agent answers 200. A Platform that did not wait for it does nothing  *)
(* with it, which is always open to it.                                     *)
Answer(kind, epoch) ==
  replies' = IF epoch = placement.epoch THEN replies \cup {kind} ELSE replies

-----------------------------------------------------------------------------
(* The Platform. *)

PlatformNow == now + Skew

(* Mutated form: a placement is taken over while its lease runs. *)
AcquireAtOnce ==
  /\ placement.epoch < MaxEpoch /\ placement.revision < MaxRevision
  /\ placement' = [epoch |-> placement.epoch + 1, revision |-> placement.revision + 1,
                   until |-> PlatformNow + LeaseMs, state |-> "active"]
  /\ replies' = {}
  /\ UNCHANGED <<now, sent, issued, held, consumed, handler, proc, driver, up,
                 historyVars>>

(* acquire: over a released record, or over one whose lease is over; the    *)
(* Platform's own Agent, which runs nothing of the Project, proves it fenced.*)
Acquire ==
  /\ placement.state = "active" => placement.until <= PlatformNow
  /\ placement.epoch < MaxEpoch /\ placement.revision < MaxRevision
  /\ placement' = [epoch |-> placement.epoch + 1, revision |-> placement.revision + 1,
                   until |-> PlatformNow + LeaseMs, state |-> "active"]
  /\ replies' = {}
  /\ UNCHANGED <<now, sent, issued, held, consumed, handler, proc, driver, up,
                 historyVars>>

Owned == placement.state = "active" /\ placement.until > PlatformNow

Renew ==
  /\ Owned /\ placement.revision < MaxRevision
  /\ placement' = [placement EXCEPT !.revision = @ + 1,
       !.until = IF @ >= PlatformNow + LeaseMs THEN @ ELSE PlatformNow + LeaseMs]
  /\ UNCHANGED <<now, sent, issued, replies, held, consumed, handler, proc,
                 driver, up, historyVars>>

(* dispatchLeaseFenced: after the placement is validated, and after each    *)
(* renewal; bound: a record is granted again only when its grant has expired.*)
SendGrant ==
  /\ Owned
  /\ \A m \in sent : m.kind = "grant" => m.record # placement
  /\ sent' = sent \cup {[kind |-> "grant", record |-> placement,
                         expiresAt |-> PlatformNow + TtlMs]}
  /\ UNCHANGED <<now, placement, issued, replies, held, consumed, handler, proc,
                 driver, up, historyVars>>

(* dispatchStartFenced once the grant was answered; dispatchStopFenced.     *)
SendCommand(kind) ==
  /\ placement.state = "active"
  /\ kind = "start" => Owned /\ "grant" \in replies
  /\ issued < MaxCommands
  /\ issued' = issued + 1
  /\ sent' = sent \cup {[kind |-> kind, epoch |-> placement.epoch,
                         nonce |-> issued + 1,
                         expiresAt |-> PlatformNow + TtlMs]}
  /\ UNCHANGED <<now, placement, replies, held, consumed, handler, proc, driver,
                 up, historyVars>>

(* stopPlacedRuntime: the remote stop was answered, the authority releases. *)
Release ==
  /\ placement.state = "active"
  /\ "stop" \in replies
  /\ placement.revision < MaxRevision
  /\ placement' = [placement EXCEPT !.state = "released", !.revision = @ + 1]
  /\ UNCHANGED <<now, sent, issued, replies, held, consumed, handler, proc,
                 driver, up, historyVars>>

-----------------------------------------------------------------------------
(* A grant arrives: accept. *)

(* A grant whose signature and times are good; accept takes the entry.      *)
Observe(h, m) ==
  /\ up /\ handler[h] = Idle /\ m.kind = "grant"
  /\ m.expiresAt > now /\ m.record.until > now
  /\ handler' = [handler EXCEPT ![h] =
       [Idle EXCEPT !.phase = "observed", !.message = m.record, !.observed = held]]
  /\ UNCHANGED <<now, platformVars, replies, held, consumed, proc, driver, up,
                 historyVars>>

Stale(previous, next) ==
  \/ next.epoch < previous.epoch
  \/ next.epoch = previous.epoch /\ next.revision < previous.revision

(* Mutated form: a released placement may be granted again. *)
ConflictsUnlessActive(previous, next) ==
  /\ next.epoch = previous.epoch
  /\ \/ next.until < previous.until
     \/ next.revision = previous.revision /\ next.until # previous.until

Conflicts(previous, next) ==
  /\ next.epoch = previous.epoch
  /\ \/ next.until < previous.until
     \/ previous.state # "active"
     \/ next.revision = previous.revision /\ next.until # previous.until

Repeats(previous, next) ==
  next.epoch = previous.epoch /\ next.revision = previous.revision

(* The second read, and what accept decides on it. *)
Reread(h) ==
  LET next == handler[h].message
  IN /\ handler[h].phase = "observed"
     /\ \/ /\ Stale(held, next) \/ Conflicts(held, next)
           /\ handler' = Done(h) /\ UNCHANGED replies
        \/ /\ ~Stale(held, next) /\ ~Conflicts(held, next) /\ Repeats(held, next)
           /\ handler' = Done(h) /\ Answer("grant", next.epoch)
        \/ /\ ~Stale(held, next) /\ ~Conflicts(held, next) /\ ~Repeats(held, next)
           /\ handler' = [handler EXCEPT
                ![h].phase = IF next.epoch > held.epoch /\ held.state = "active"
                               THEN "fencing" ELSE "writing",
                ![h].previous = IF next.epoch > held.epoch /\ held.state = "active"
                                  THEN held.epoch ELSE 0]
           /\ UNCHANGED replies
     /\ UNCHANGED <<now, platformVars, held, consumed, proc, driver, up,
                    historyVars>>

(* Mutated form: the handler does not look whether the lease is over. *)
MayFenceAtOnce(h) ==
  /\ held.state = "active" /\ held.epoch = handler[h].previous
  /\ \A p \in Visible : proc[p].epoch = held.epoch

(* fence.placement: the record must be the one to fence, active and over by *)
(* the Agent's clock; whatever is visible must belong to it.                *)
MayFence(h) ==
  /\ held.state = "active" /\ held.epoch = handler[h].previous
  /\ held.until <= now
  /\ \A p \in Visible : proc[p].epoch = held.epoch

Fence(h) ==
  /\ handler[h].phase = "fencing" /\ MayFence(h)
  /\ proc' = [p \in Procs |-> Stopped(proc[p])]
  /\ handler' = [handler EXCEPT ![h].phase = "writing", ![h].previous = 0,
                              ![h].waits = Visible]
  /\ UNCHANGED <<now, platformVars, replies, held, consumed, driver, up,
                 historyVars>>

(* Mutated form: the record is written whatever it was compared with. *)
WriteGrantBlindly(h) ==
  /\ handler[h].phase = "writing" /\ handler[h].waits = {}
  /\ held' = handler[h].message /\ handler' = Done(h)
  /\ Answer("grant", held'.epoch)
  /\ UNCHANGED <<now, platformVars, consumed, proc, driver, up, historyVars>>

(* Compare-and-set on the entry observed first; accept retries (up to 8     *)
(* times, more often than these bounds let it lose).                        *)
WriteGrant(h) ==
  /\ handler[h].phase = "writing" /\ handler[h].waits = {}
  /\ \/ /\ held = handler[h].observed
        /\ held' = handler[h].message /\ handler' = Done(h)
        /\ Answer("grant", held'.epoch)
     \/ /\ held # handler[h].observed
        /\ handler' = [handler EXCEPT ![h].phase = "observed", ![h].observed = held]
        /\ UNCHANGED <<held, replies>>
  /\ UNCHANGED <<now, platformVars, consumed, proc, driver, up, historyVars>>

-----------------------------------------------------------------------------
(* A command arrives: receiveProjectDispatch. *)

Receive(h, m) ==
  /\ up /\ handler[h] = Idle /\ m.kind # "grant"
  /\ held.state = "active" /\ held.epoch = m.epoch
  /\ held.until > now /\ m.expiresAt > now
  /\ handler' = [handler EXCEPT ![h] = [Idle EXCEPT !.phase = "received", !.message = m]]
  /\ UNCHANGED <<now, platformVars, replies, held, consumed, proc, driver, up,
                 historyVars>>

(* Mutated form: an expired or used nonce is consumed again. *)
FreshWhileUnexpired(m) == m.expiresAt > now

Fresh(m) == m.expiresAt > now /\ m.nonce \notin consumed

(* The nonce is spent last, once everything else agrees. *)
Consume(h) ==
  LET m == handler[h].message
  IN /\ handler[h].phase = "received"
     /\ \/ /\ Fresh(m)
           /\ consumed' = consumed \cup {m.nonce}
           /\ executed' = [executed EXCEPT ![m.nonce] = @ + 1]
           /\ handler' = [handler EXCEPT ![h].phase = "authorized",
                ![h].message = [kind |-> m.kind, epoch |-> m.epoch]]
        \/ /\ ~Fresh(m)
           /\ handler' = Done(h) /\ UNCHANGED <<consumed, executed>>
     /\ UNCHANGED <<now, platformVars, replies, held, proc, driver, up,
                    surrendered>>

DriverRuns == driver # NoSlot /\ proc[driver].phase = "running"

(* runtime.start answers for a process that already runs, whatever its      *)
(* placement.                                                               *)
StartFindsOne(h) ==
  /\ handler[h].phase = "authorized" /\ handler[h].message.kind = "start"
  /\ DriverRuns
  /\ handler' = Done(h)
  /\ UNCHANGED <<now, platformVars, replies, held, consumed, proc, driver, up,
                 historyVars>>

LeaseOf(epoch) == held.state = "active" /\ held.epoch = epoch /\ held.until > now

(* The runtime enters the new start, and lease.start() reads the record.    *)
Start(h) ==
  LET epoch == handler[h].message.epoch
  IN /\ handler[h].phase = "authorized" /\ handler[h].message.kind = "start"
     /\ ~DriverRuns
     /\ \/ /\ LeaseOf(epoch)
           /\ \E p \in Procs :
                /\ proc[p] = NoProc
                /\ proc' = [proc EXCEPT ![p] = [NoProc EXCEPT
                     !.phase = "spawning", !.epoch = epoch, !.deadline = held.until]]
                /\ driver' = p
                /\ handler' = [handler EXCEPT ![h].phase = "starting", ![h].waits = {p}]
        \/ /\ ~LeaseOf(epoch)
           /\ driver' = NoSlot /\ handler' = Done(h) /\ UNCHANGED proc
     /\ UNCHANGED <<now, platformVars, replies, held, consumed, up,
                    historyVars>>

(* runner.start returned: a supervisor fenced meanwhile stops the child.    *)
Registered(h) ==
  /\ handler[h].phase = "starting"
  /\ \E p \in handler[h].waits :
       proc' = [proc EXCEPT ![p] =
         IF @.fenced THEN Ended(@, "stopping") ELSE [@ EXCEPT !.phase = "running"]]
  /\ handler' = Done(h)
  /\ UNCHANGED <<now, platformVars, replies, held, consumed, driver, up,
                 historyVars>>

(* runtime.stop(projectId): the process the runtime's entry names, if it    *)
(* has been registered, and whatever its epoch.                             *)
Stop(h) ==
  /\ handler[h].phase = "authorized" /\ handler[h].message.kind = "stop"
  /\ LET target == {p \in {driver} \cap Procs : proc[p].phase \in {"running", "stopping"}}
     IN /\ proc' = [p \in Procs |-> IF p \in target THEN Stopped(proc[p]) ELSE proc[p]]
        /\ handler' = [handler EXCEPT ![h].phase = "stopping", ![h].waits = target]
  /\ UNCHANGED <<now, platformVars, replies, held, consumed, driver, up,
                 historyVars>>

(* release: its two reads are one here; a write between them only makes the *)
(* compare-and-set fail.                                                    *)
ReleaseRead(h) ==
  LET epoch == handler[h].message.epoch
  IN /\ handler[h].phase = "stopping" /\ handler[h].waits = {}
     /\ \/ /\ held.epoch # epoch
           /\ handler' = Done(h) /\ UNCHANGED replies
        \/ /\ held.epoch = epoch /\ held.state = "released"
           /\ handler' = Done(h) /\ Answer("stop", epoch)
        \/ /\ held.epoch = epoch /\ held.state = "active"
           /\ handler' = [handler EXCEPT ![h].phase = "releasing", ![h].observed = held]
           /\ UNCHANGED replies
     /\ UNCHANGED <<now, platformVars, held, consumed, proc, driver, up,
                    historyVars>>

ReleaseWrite(h) ==
  /\ handler[h].phase = "releasing"
  /\ \/ /\ held = handler[h].observed
        /\ held' = [held EXCEPT !.state = "released"]
        /\ surrendered' = surrendered \cup {held.epoch}
        /\ Answer("stop", held.epoch)
     \/ /\ held # handler[h].observed
        /\ UNCHANGED <<held, surrendered, replies>>
  /\ handler' = Done(h)
  /\ UNCHANGED <<now, platformVars, consumed, proc, driver, up, executed>>

(* Any await may throw: the request is answered 403. *)
HandlerFails(h) ==
  /\ handler[h].phase # "idle"
  /\ handler[h].phase = "starting" => handler[h].waits = {}
  /\ handler' = Done(h)
  /\ UNCHANGED <<now, platformVars, replies, held, consumed, proc, driver, up,
                 historyVars>>

-----------------------------------------------------------------------------
(* Processes, their supervisors, and crashes of the Agent. *)

Fenced(r) ==
  IF r.phase = "running" THEN Stopped(r) ELSE [r EXCEPT !.fenced = TRUE, !.deadline = 0]

(* The supervisor's check, and its expiry timer. *)
Check(p) ==
  /\ proc[p].phase \in {"spawning", "running"} /\ ~proc[p].fenced
  /\ proc' = [proc EXCEPT ![p] =
       IF LeaseOf(proc[p].epoch) /\ now < proc[p].deadline
         THEN [@ EXCEPT !.deadline = held.until] ELSE Fenced(@)]
  /\ UNCHANGED <<now, platformVars, replies, held, consumed, handler, driver,
                 up, historyVars>>

(* Mutated form: an exit nobody who holds the process hears of. *)
ExitUnheard(p) ==
  /\ proc[p].phase # "none"
  /\ proc' = [proc EXCEPT ![p] = NoProc]
  /\ UNCHANGED <<now, platformVars, replies, held, consumed, handler, driver, up,
                 historyVars>>

(* A child ends, by itself or because it was signalled. *)
Exit(p) ==
  /\ proc[p].phase # "none"
  /\ proc' = [proc EXCEPT ![p] = NoProc]
  /\ driver' = IF driver = p THEN NoSlot ELSE driver
  /\ handler' = [h \in Handlers |-> [handler[h] EXCEPT !.waits = @ \ {p}]]
  /\ UNCHANGED <<now, platformVars, replies, held, consumed, up, historyVars>>

Crash ==
  /\ up /\ up' = FALSE
  /\ handler' = [h \in Handlers |-> Idle] /\ driver' = NoSlot
  /\ proc' = [p \in Procs |->
       IF proc[p].phase = "none" THEN NoProc
       ELSE Ended(proc[p], "orphan")]
  /\ UNCHANGED <<now, platformVars, replies, held, consumed, historyVars>>

(* runner.reclaim() comes before ready: what an earlier Agent left is gone. *)
Boot ==
  /\ ~up /\ \A p \in Procs : proc[p].phase = "none"
  /\ up' = TRUE
  /\ UNCHANGED <<now, platformVars, replies, held, consumed, handler, proc,
                 driver, historyVars>>

(* A message nobody can accept any more is forgotten. *)
Tick ==
  /\ now < MaxClock
  /\ now' = now + 1
  /\ sent' = {m \in sent : m.expiresAt > now'
                               /\ (m.kind = "grant" => m.record.until > now')}
  /\ UNCHANGED <<placement, issued, replies, held, consumed, handler, proc,
                 driver, up, historyVars>>

-----------------------------------------------------------------------------
RemoteInit ==
  /\ now = 0 /\ placement = Absent /\ sent = {} /\ issued = 0 /\ replies = {}
  /\ held = Absent /\ consumed = {}
  /\ handler = [h \in Handlers |-> Idle]
  /\ proc = [p \in Procs |-> NoProc] /\ driver = NoSlot
  /\ up = TRUE
  /\ executed = [n \in Nonces |-> 0] /\ surrendered = {}

PlatformStep ==
  \/ Acquire \/ Renew \/ SendGrant \/ Release
  \/ \E kind \in {"start", "stop"} : SendCommand(kind)

HandlerStep(h) ==
  \/ \E m \in sent : Observe(h, m) \/ Receive(h, m)
  \/ Reread(h) \/ Fence(h) \/ WriteGrant(h)
  \/ Consume(h) \/ StartFindsOne(h) \/ Start(h) \/ Registered(h)
  \/ Stop(h) \/ ReleaseRead(h) \/ ReleaseWrite(h) \/ HandlerFails(h)

RemoteNext ==
  \/ PlatformStep
  \/ \E h \in Handlers : HandlerStep(h)
  \/ \E p \in Procs : Check(p) \/ Exit(p)
  \/ Crash \/ Boot \/ Tick

RemoteSpec == RemoteInit /\ [][RemoteNext]_vars

-----------------------------------------------------------------------------
(* Types, and what the Agent's parts say of one another: a handler waits    *)
(* for processes that exist, the runtime's entry names one, only spent      *)
(* nonces were executed, and the Agent never holds what was not granted.    *)
RemoteTypeOK ==
  /\ now \in 0 .. MaxClock /\ placement \in Record /\ held \in Record
  /\ sent \subseteq Grants \cup Commands
  /\ replies \subseteq {"grant", "stop"}
  /\ consumed = {n \in Nonces : executed[n] > 0}
  /\ \A h \in Handlers :
       /\ handler[h].phase \in Phases
       /\ \A p \in handler[h].waits : proc[p].phase # "none"
       /\ (handler[h].phase = "idle") <=> (handler[h] = Idle)
  /\ driver = NoSlot \/ proc[driver].phase # "none"
  /\ \A p \in Procs : proc[p].phase = "none" => proc[p] = NoProc
  /\ held.epoch <= placement.epoch /\ held.revision <= placement.revision

(* Once the Platform has released a placement, the Agent holds it released  *)
(* too, whatever grants of it are still on their way: a late renewal does   *)
(* not bring it back (remote-placement.ts:164-168).                         *)
ReleasedThereToo ==
  placement.state = "released" =>
    held.epoch = placement.epoch /\ held.state = "released"

(* A signed command is carried out once, whoever delivers it again and      *)
(* however often the Agent restarts (project-dispatch.ts:35, "Persist       *)
(* replay decisions across Agent restarts").                                *)
CommandRunsOnce == \A n \in Nonces : executed[n] <= 1

InService(p) ==
  proc[p].phase = "running" /\ now < proc[p].deadline

(* A process of a placement the Agent has seen superseded is in service     *)
(* only if that placement was surrendered by a stop that did not see its    *)
(* start in flight; a takeover never leaves the old process in service.     *)
OnlySurrenderedOutlive ==
  \A p \in Procs :
    InService(p) /\ proc[p].epoch < held.epoch => proc[p].epoch \in surrendered

(* remote-placement.ts:124, "Local durable high-water state": epoch and     *)
(* revision never fall, a lease of one epoch is never cut, and a released   *)
(* epoch is never active again, whichever two handlers race.                *)
HighWaterRises ==
  [][\/ held.epoch < held'.epoch
     \/ /\ held.epoch = held'.epoch /\ held.state = "active"
        /\ held.revision <= held'.revision /\ held.until <= held'.until]_held

(* A placement that is active gives way to a newer one only after its lease *)
(* is over by the Agent's own clock, also when a renewal of it is accepted  *)
(* while the fencing is under way (remote-placement.ts:173-176).            *)
LiveLeaseStays ==
  [][held.state = "active" /\ held'.epoch > held.epoch => held.until <= now]_held

(* Across Nodes: a process of a placement the authority has superseded is   *)
(* in service only for as long as the clock of its Node is behind, for its  *)
(* deadline is over by the Platform's; or its placement was surrendered, as *)
(* above. The successor may run elsewhere from then on                      *)
(* (project-placement-authority.ts:116-127).                                *)
OverlapWithinSkew ==
  \A p \in Procs :
    InService(p) /\ proc[p].epoch < placement.epoch =>
      proc[p].epoch \in surrendered \/ proc[p].deadline <= PlatformNow

(* The record behind the handlers of accept and release: they implement a   *)
(* record that changes in one step. The first read, the second read that    *)
(* decides, the fencing and the retries are hidden                          *)
(* (remote-placement.ts:159-199).                                           *)
HighWater == INSTANCE HighWaterRecord WITH
  Unplaced <- Absent, clock <- now, high <- held

ImplementsHighWater == HighWater!Spec

================================================================================
