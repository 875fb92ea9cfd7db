---------------------------- MODULE AgentPlacement ----------------------------
(***************************************************************************)
(* The placement authority together with the Agent of the host: the start,  *)
(* stop and fence.placement handlers of adapters/_agent-ipc.ts, the local   *)
(* process runner (adapters/_agent-process-runner.ts) and one lease         *)
(* supervisor per process (core/agent/placement-lease.ts).                  *)
(*                                                                         *)
(* Authority and Agent share the host clock, so the constant offset between *)
(* the Agent's monotonic time and `clock` is left out: it cancels in        *)
(* requestedAt + (leaseExpiresAt - authorityNow). Timers may fire late.     *)
(* The life of one Project is modelled, up to its deletion.                 *)
(***************************************************************************)
EXTENDS PlacementAuthority

CONSTANTS
  Procs,        \* slots for the Project's processes on this host
  MaxCrashes    \* bound: how often the Agent itself may crash

ASSUME AgentAssumption == MaxCrashes \in Nat

VARIABLES
  proc,     \* proc[p]: a process, its start in flight, and its supervisor
  conn,     \* conn[o]: owner o's Platform: not booted, connected, cut off, dead
  fencing,  \* the calls whose fence.placement the Agent is executing
  killing,  \* killing[c]: the processes whose exit it still waits for
  crashes   \* how often the Agent has crashed

agentVars == <<proc, conn, fencing, killing, crashes>>
vars == <<placementVars, agentVars>>

-----------------------------------------------------------------------------
(* checking   lease.start() has asked the authority; nothing is spawned     *)
(* spawning   runner.start is sweeping what earlier Agents left behind      *)
(* recording  the child is alive; its durable record is being written       *)
(* running    the handle and the record exist                               *)
(* stopping   SIGTERM was sent through the handle; SIGKILL follows          *)
(* dying      SIGKILL was sent; nothing waits for the exit                  *)
(* unheard    the child exited before anything listened for its exit        *)
(* orphan     its Agent crashed; the durable record remains                 *)
(* stray      its Agent crashed before the record was written               *)
Phases == {"none", "checking", "spawning", "recording", "running",
           "stopping", "dying", "unheard", "orphan", "stray"}

(* A `deadline` of -1 is Number.NEGATIVE_INFINITY. *)
Proc == [phase : Phases,
         token : [owner : Owners \cup {Nobody}, epoch : Nat],
         deadline : Int,
         published : Int,
         fenced : BOOLEAN,
         closed : BOOLEAN,
         check : {"no", "asked", "answered"},
         requestedAt : Nat,
         answer : Record,
         authorityNow : Nat,
         driver : Owners \cup {Nobody}]

NoProc == [phase |-> "none", token |-> TokenOf(Absent), deadline |-> -1,
           published |-> -1, fenced |-> FALSE, closed |-> FALSE, check |-> "no",
           requestedAt |-> 0, answer |-> Absent, authorityNow |-> 0,
           driver |-> Nobody]

(* Nothing but its exit is left of the process. *)
Ending == {"stopping", "dying", "unheard"}

(* Processes the operating system runs. *)
Alive(p) == proc[p].phase \notin {"none", "checking", "spawning", "unheard"}

(* Under a supervisor that is neither fenced nor closed. *)
Open(p) == proc[p].phase # "none" /\ ~proc[p].fenced /\ ~proc[p].closed

NotAsking(r) == [r EXCEPT !.check = "no", !.requestedAt = 0,
                          !.answer = Absent, !.authorityNow = 0]

(* Mutated form: the supervisor is marked and its process left alone. *)
FenceOnlyMarks(r) ==
  IF r.phase = "checking" THEN NoProc
  ELSE [NotAsking(r) EXCEPT !.fenced = TRUE]

(* fence(): a start that has not been admitted is refused, a registered     *)
(* child is stopped; a child still being started is stopped when it         *)
(* registers.                                                               *)
Fence(r) ==
  IF r.phase = "checking" THEN NoProc
  ELSE [NotAsking(r) EXCEPT !.fenced = TRUE,
                            !.phase = IF @ = "running" THEN "stopping" ELSE @]

-----------------------------------------------------------------------------
(* Starting a process. *)

(* The manager validates its token, then the Agent builds a supervisor and  *)
(* asks the authority. A session drives one process of the Project, and the *)
(* Project's lifecycle lock keeps a start out of a stop and its release.    *)
StartRequest(p, token) ==
  /\ proc[p] = NoProc
  /\ conn[token.owner] = "up"
  /\ \A q \in Procs : proc[q].driver # token.owner
  /\ \A c \in Callers : call[c].op = "release" => call[c].claim # token
  /\ Holds(stored, token) /\ stored.value.leaseExpiresAt > clock
  /\ proc' = [proc EXCEPT ![p] = [NoProc EXCEPT
       !.phase = "checking", !.token = token, !.driver = token.owner,
       !.check = "asked", !.requestedAt = clock]]
  /\ UNCHANGED <<conn, fencing, killing, crashes>>

(* The timer's check(); once the deadline is reached it fences instead. *)
CheckAsk(p) ==
  /\ Open(p) /\ proc[p].check = "no" /\ clock < proc[p].deadline
  /\ proc' = [proc EXCEPT ![p].check = "asked", ![p].requestedAt = clock]
  /\ UNCHANGED <<conn, fencing, killing, crashes>>

(* readLocalProjectPlacementLease: the record, and the authority's clock. *)
CheckRead(p) ==
  /\ proc[p].check = "asked"
  /\ proc' = [proc EXCEPT ![p].check = "answered", ![p].answer = stored.value,
                          ![p].authorityNow = clock]
  /\ UNCHANGED <<conn, fencing, killing, crashes>>

ReadFails(p) ==
  /\ proc[p].check = "asked"
  /\ proc' = [proc EXCEPT ![p] = Fence(@)]
  /\ UNCHANGED <<conn, fencing, killing, crashes>>

(* Mutated form: the deadline counted from the arrival of the reply. *)
ProposedDeadlineFromReply(r) == clock + (r.answer.leaseExpiresAt - r.authorityNow)

(* Counted from before the request left: network time shortens the lease. *)
ProposedDeadline(r) == r.requestedAt + (r.answer.leaseExpiresAt - r.authorityNow)

(* Mutated form: a reply that is believed whatever epoch it names. *)
AcceptableAnyEpoch(r) ==
  /\ IsActive(r.answer) /\ r.answer.leaseExpiresAt > r.authorityNow
  /\ clock < ProposedDeadline(r)

Acceptable(r) ==
  /\ IsActive(r.answer) /\ TokenOf(r.answer) = r.token
  /\ r.answer.leaseExpiresAt > r.authorityNow
  /\ clock < ProposedDeadline(r)

(* A newer expiry sets the deadline; the same one can only shorten it.      *)
Extended(r) ==
  [NotAsking(r) EXCEPT
     !.deadline = IF r.answer.leaseExpiresAt > r.published \/ ProposedDeadline(r) < @
                    THEN ProposedDeadline(r) ELSE @,
     !.published = Later(@, r.answer.leaseExpiresAt),
     !.phase = IF @ = "checking" THEN "spawning" ELSE @]

CheckReply(p) ==
  /\ proc[p].check = "answered"
  /\ proc' = [proc EXCEPT ![p] = IF Acceptable(@) THEN Extended(@) ELSE Fence(@)]
  /\ UNCHANGED <<conn, fencing, killing, crashes>>

ExpiryFires(p) ==
  /\ Open(p) /\ proc[p].phase # "checking" /\ clock >= proc[p].deadline
  /\ proc' = [proc EXCEPT ![p] = Fence(@)]
  /\ UNCHANGED <<conn, fencing, killing, crashes>>

(* The sweep at the Agent's boot and before every spawn: SIGTERM, and after *)
(* the grace SIGKILL, for what an earlier Agent recorded.                   *)
ReclaimOrphan(o) ==
  /\ proc[o].phase = "orphan"
  /\ proc' = [proc EXCEPT ![o].phase = "dying"]
  /\ UNCHANGED <<conn, fencing, killing, crashes>>

Spawn(p) ==
  /\ proc[p].phase = "spawning"
  /\ \A o \in Procs : proc[o].phase # "orphan"
  /\ proc' = [proc EXCEPT ![p].phase = "recording"]
  /\ UNCHANGED <<conn, fencing, killing, crashes>>

(* No durable record, no process: SIGKILL, and the supervisor is closed. *)
RecordFails(p) ==
  /\ proc[p].phase = "recording"
  /\ proc' = [proc EXCEPT ![p] =
       [NotAsking(@) EXCEPT !.phase = "dying", !.closed = TRUE]]
  /\ UNCHANGED <<conn, fencing, killing, crashes>>

(* Mutated form: the handler registers the child without looking at fenced. *)
RecordedBlindly(p) ==
  /\ proc[p].phase = "recording"
  /\ proc' = [proc EXCEPT ![p].phase = "running"]
  /\ UNCHANGED <<conn, fencing, killing, crashes>>

(* runner.start returns: a supervisor fenced meanwhile stops the child. *)
Recorded(p) ==
  /\ proc[p].phase = "recording"
  /\ proc' = [proc EXCEPT ![p].phase = IF proc[p].fenced THEN "stopping" ELSE "running"]
  /\ UNCHANGED <<conn, fencing, killing, crashes>>

(* The child ends while its record is being written: the runner only        *)
(* listens once it has, and stop waits for an exit that has already been.   *)
ExitBeforeListening(p) ==
  /\ proc[p].phase = "recording"
  /\ proc' = [proc EXCEPT ![p].phase = "unheard"]
  /\ UNCHANGED <<conn, fencing, killing, crashes>>

-----------------------------------------------------------------------------
(* Ending a process. *)

(* The stop handler closes the supervisor first, then signals the child.    *)
StopRequest(p) ==
  /\ proc[p].phase \in {"running", "stopping", "unheard"} /\ ~proc[p].closed
  /\ conn[proc[p].driver] = "up"
  /\ proc' = [proc EXCEPT ![p] =
       [NotAsking(@) EXCEPT
          !.phase = IF proc[p].phase = "unheard" THEN "unheard" ELSE "stopping",
          !.closed = TRUE]]
  /\ UNCHANGED <<conn, fencing, killing, crashes>>

(* Mutated form: an exit nobody who waits for it hears of. *)
ExitUnheard(p) ==
  /\ Alive(p) /\ proc[p].phase # "recording"
  /\ proc' = [proc EXCEPT ![p] = NoProc]
  /\ UNCHANGED <<conn, fencing, killing, crashes>>

(* The child is gone: onExit closes the supervisor and forgets the process. *)
Exit(p) ==
  /\ Alive(p) /\ proc[p].phase # "recording"
  /\ proc' = [proc EXCEPT ![p] = NoProc]
  /\ killing' = [c \in Callers |-> killing[c] \ {p}]
  /\ UNCHANGED <<conn, fencing, crashes>>

(* fence.placement: the handler re-reads the record, which must be active,  *)
(* expired and the placement to fence. The runner then stops the handles it *)
(* holds and the records it finds, and refuses when one carries another     *)
(* placement. A start still in flight is neither a handle nor a record.     *)
Visible ==
  {p \in Procs : proc[p].phase \in {"running", "stopping", "unheard", "orphan"}}

AgentFenceKill(c) ==
  LET token == TokenOf(call[c].observed.value)
  IN /\ call[c].phase = "fencing" /\ c \notin fencing
     /\ conn[call[c].claim.owner] = "up"
     /\ Holds(stored, token) /\ stored.value.leaseExpiresAt <= clock
     /\ \A p \in Visible : proc[p].token = token
     /\ fencing' = fencing \cup {c}
     /\ killing' = [killing EXCEPT ![c] = Visible]
     /\ proc' = [p \in Procs |->
          CASE proc[p].phase = "running" -> [proc[p] EXCEPT !.phase = "stopping"]
            [] proc[p].phase = "orphan"  -> [proc[p] EXCEPT !.phase = "dying"]
            [] OTHER -> proc[p]]
     /\ UNCHANGED <<conn, crashes>>

(* Everything it signalled has exited: the answer is true. *)
AgentFenceReturn(c) ==
  /\ c \in fencing /\ killing[c] = {}
  /\ FencePrevious(c, TRUE)
  /\ fencing' = fencing \ {c}
  /\ UNCHANGED <<proc, conn, killing, crashes>>

(* The Agent refuses, or cannot be reached, or does not answer in time. *)
AgentFenceRefused(c) ==
  /\ FencePrevious(c, FALSE)
  /\ fencing' = fencing \ {c}
  /\ killing' = [killing EXCEPT ![c] = {}]
  /\ UNCHANGED <<proc, conn, crashes>>

-----------------------------------------------------------------------------
(* Connections and crashes. *)

Connect(o) ==
  /\ conn[o] = "new"
  /\ conn' = [conn EXCEPT ![o] = "up"]
  /\ UNCHANGED <<proc, fencing, killing, crashes>>

(* The Platform process ends; its children belong to the Agent and go on.   *)
PlatformDies(o) ==
  /\ conn[o] \in {"up", "down"}
  /\ conn' = [conn EXCEPT ![o] = "dead"]
  /\ UNCHANGED <<proc, fencing, killing, crashes>>

Abandoned(p) ==
  proc[p].phase \in {"running", "unheard"} /\ conn[proc[p].driver] = "dead"

(* A booting Platform attaches to the registered processes nobody drives... *)
Attach(o, p) ==
  /\ conn[o] = "up" /\ Abandoned(p)
  /\ \A q \in Procs : proc[q].driver # o
  /\ proc' = [proc EXCEPT ![p].driver = o]
  /\ UNCHANGED <<conn, fencing, killing, crashes>>

(* ... and has the rest stopped.                                            *)
ReclaimAbandoned(p) ==
  /\ Abandoned(p) /\ proc[p].phase = "running" /\ \E o \in Owners : conn[o] = "up"
  /\ proc' = [proc EXCEPT ![p].phase = "stopping"]
  /\ UNCHANGED <<conn, fencing, killing, crashes>>

(* The Agent dies with its supervisors and pipes; spawned children survive. *)
AgentCrash ==
  /\ crashes < MaxCrashes
  /\ crashes' = crashes + 1
  /\ proc' = [p \in Procs |->
       LET r == proc[p]
           left(phase) == [NoProc EXCEPT !.phase = phase, !.token = r.token]
       IN CASE r.phase \in {"running", "stopping"} -> left("orphan")
            [] r.phase = "recording" -> left("stray")
            [] r.phase \in {"dying", "orphan", "stray"} -> left(r.phase)
            [] OTHER -> NoProc]
  /\ conn' = [o \in Owners |-> IF conn[o] = "up" THEN "down" ELSE conn[o]]
  /\ fencing' = {}
  /\ killing' = [c \in Callers |-> {}]

-----------------------------------------------------------------------------
(* The authority's steps. A Platform releases once its runtime reports the  *)
(* process stopped; a client cut off from the Agent settles every handle.   *)
RenewRequest(c, token) ==
  conn[token.owner] # "dead" /\ ReadForClaim(c, "renew", token)

ReleaseRequest(c, token) ==
  /\ conn[token.owner] # "dead"
  /\ conn[token.owner] = "down" \/ \A p \in Procs : proc[p].token # token
  /\ ReadForClaim(c, "release", token)

AcquireRequest(c, o) == conn[o] # "dead" /\ ReadForAcquire(c, o)

AuthorityStep ==
  /\ \/ \E c \in Callers, o \in Owners : AcquireRequest(c, o)
     \/ \E c \in Callers, t \in Token : RenewRequest(c, t) \/ ReleaseRequest(c, t)
     \/ \E c \in Callers : Decide(c) \/ Write(c)
     \/ Tick
  /\ UNCHANGED agentVars

ProcessStep ==
  /\ \/ \E p \in Procs, t \in Token : StartRequest(p, t)
     \/ \E p \in Procs :
          \/ CheckAsk(p) \/ CheckRead(p) \/ ReadFails(p) \/ CheckReply(p)
          \/ ExpiryFires(p) \/ ReclaimOrphan(p) \/ Spawn(p) \/ RecordFails(p)
          \/ Recorded(p) \/ ExitBeforeListening(p) \/ StopRequest(p) \/ Exit(p)
          \/ ReclaimAbandoned(p)
     \/ \E c \in Callers : AgentFenceKill(c)
     \/ \E o \in Owners : Connect(o) \/ PlatformDies(o) \/ \E p \in Procs : Attach(o, p)
     \/ AgentCrash
  /\ UNCHANGED placementVars

FenceAnswer == \E c \in Callers : AgentFenceReturn(c) \/ AgentFenceRefused(c)

AgentInit ==
  /\ Init
  /\ proc = [p \in Procs |-> NoProc]
  /\ conn = [o \in Owners |-> "new"]
  /\ fencing = {}
  /\ killing = [c \in Callers |-> {}]
  /\ crashes = 0

AgentNext == AuthorityStep \/ ProcessStep \/ FenceAnswer

AgentSpec == AgentInit /\ [][AgentNext]_vars
-----------------------------------------------------------------------------
(* Fairness: timers fire, reads settle, replies are handled, a signalled    *)
(* process exits (SIGKILL follows SIGTERM), the runner finishes its sweep   *)
(* and its record. Nothing forces renewals, stops, fences or the clock.     *)
Fairness ==
  \A p \in Procs :
    /\ WF_vars(CheckAsk(p) /\ UNCHANGED placementVars)
    /\ WF_vars((CheckRead(p) \/ ReadFails(p)) /\ UNCHANGED placementVars)
    /\ WF_vars(CheckReply(p) /\ UNCHANGED placementVars)
    /\ WF_vars(ExpiryFires(p) /\ UNCHANGED placementVars)
    /\ WF_vars(ReclaimOrphan(p) /\ UNCHANGED placementVars)
    /\ WF_vars(Spawn(p) /\ UNCHANGED placementVars)
    /\ WF_vars((Recorded(p) \/ RecordFails(p)) /\ UNCHANGED placementVars)
    /\ WF_vars(/\ proc[p].phase \in {"stopping", "dying"}
               /\ Exit(p) /\ UNCHANGED placementVars)

FairAgentSpec == AgentSpec /\ Fairness

-----------------------------------------------------------------------------
(* Types, and what the slots may hold: an idle slot is blank, a slot in use *)
(* has a token, a question that is out is the only one with a reply, and a  *)
(* fence only waits for processes that have been signalled.                 *)
AgentTypeOK ==
  /\ proc \in [Procs -> Proc]
  /\ conn \in [Owners -> {"new", "up", "down", "dead"}]
  /\ fencing \subseteq Callers
  /\ killing \in [Callers -> SUBSET Procs]
  /\ crashes \in 0 .. MaxCrashes
  /\ \A p \in Procs :
       /\ proc[p].phase = "none" => proc[p] = NoProc
       /\ proc[p].phase # "none" => proc[p].token \in Token
       /\ proc[p].check # "no" => Open(p)
  /\ \A c \in Callers :
       /\ c \notin fencing => killing[c] = {}
       /\ \A p \in killing[c] : proc[p].phase \in Ending

(* A process may act for the Project while it is registered under an open   *)
(* supervisor whose deadline has not passed.                                *)
InService(p) == proc[p].phase = "running" /\ Open(p) /\ clock < proc[p].deadline

(* The deadline a supervisor counts down never outlives the lease on        *)
(* record: core/agent/placement-lease.ts:29-33, "Network time therefore     *)
(* shortens the usable lease; it cannot extend it." Only the owner's own    *)
(* release may end the record earlier.                                      *)
LeaseWithinAuthority ==
  \A p \in Procs :
    Open(p) /\ clock < proc[p].deadline =>
      LET t == proc[p].token
      IN \/ promised[t] = 0
         \/ Holds(stored, t) /\ stored.value.leaseExpiresAt >= proc[p].deadline

(* Two processes of different placements are never in service together: not *)
(* across a takeover, a release, a dead Platform or an Agent crash.          *)
OnePlacementInService ==
  \A p, q \in Procs : InService(p) /\ InService(q) => proc[p].token = proc[q].token

(* A start that was fenced while it was in flight never becomes a running   *)
(* process: "Project placement expired during start."                       *)
FencedNeverRuns == \A p \in Procs : proc[p].fenced => proc[p].phase # "running"

(* While its Agent lives, a process whose placement is over ends, whoever   *)
(* ended it and whether or not anyone asks for the stop.                    *)
StaleProcessStops ==
  \A p \in Procs, t \in Token :
    Alive(p) /\ proc[p].token = t /\ ~Holds(stored, t)
      ~> ~Alive(p) \/ proc[p].token # t \/ proc[p].phase \in {"orphan", "stray"}

(* core/agent/process-command.ts:118, of stop: "Resolves once it has        *)
(* actually exited": a supervisor closed by a stop is gone when the process *)
(* is, or when the Agent itself ends.                                       *)
StopResolves == \A p \in Procs : proc[p].closed ~> ~proc[p].closed

(* project-placement-authority.ts:83, "Must prove the prior owner is        *)
(* stopped before an expired lease is taken over."; agent-ipc-placement-    *)
(* fence.test.mjs:57, "Agent proves an expired placement stopped before     *)
(* takeover": once fencing has answered true, no process of that placement  *)
(* is alive.                                                                *)
FencedAwayIsStopped ==
  \A p \in Procs : Alive(p) => proc[p].token \notin provedStopped

================================================================================
