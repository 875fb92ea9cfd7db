--------------------------- MODULE ProjectLifecycle ---------------------------
(***************************************************************************)
(* One Project under the Project manager of project.ts: the lifecycle calls *)
(* of operators, the reconciliation of the fleet, the renewal of placement  *)
(* leases, and a Platform that crashes and boots again. Fabric is on, so    *)
(* placements are authoritative, and a dispatcher is configured.            *)
(*                                                                         *)
(* A call is a sequence of steps cut where the code awaits the System       *)
(* Store, the authority or the driver. The authority itself is the subject  *)
(* of PlacementAuthority: here each of its calls is one step. What a lock,  *)
(* a preview, a note or a name holds does not steer the lifecycle and is    *)
(* left out, as are live updates (runtimeUpdate), owned Projects and close. *)
(***************************************************************************)
EXTENDS Integers

CONSTANTS
  Operators,   \* callers of the manager's operations
  Fleet,       \* the reconciliation pass (reconcileFleet; one at a time)
  Nobody,      \* holds the permit when no transition runs
  Cleanups,    \* cleanup participants; the first deletes the placement record
  MaxCrashes,  \* bound: crashes of the Platform
  MaxFaults    \* bound: driver, authority, dispatch and cleanup calls that fail

ASSUME LifecycleAssumption ==
  /\ Fleet \notin Operators /\ Nobody \notin Operators /\ Nobody # Fleet
  /\ Cleanups \in Nat \ {0}
  /\ MaxCrashes \in Nat /\ MaxFaults \in Nat

Actors == Operators \cup {Fleet}

VARIABLES
  record,   \* the Project record in the System Store
  running,  \* the driver runs the Project on this host
  lease,    \* the Project's record at the placement authority
  token,    \* ownedPlacements: the node of the claim this Platform holds
  permit,   \* withProjectLifecycle: who holds the Project's permit
  op,       \* op[a]: the call a executes and its copy of the record
  held,     \* the claim read by the start or stop that holds the permit
  refused,  \* the claim whose renewal was refused, until that is acted on
  used      \* what has been used of each bound

vars == <<record, running, lease, token, permit, op, held, refused, used>>

-----------------------------------------------------------------------------
(* The data. *)

(* deletion: -1 without a tombstone, else how many participants are done. *)
Stored == [desired : {"running", "stopped"},
           status : {"provisioning", "stopped", "starting", "running",
                     "stopping", "failed"},
           deletion : -1..Cleanups]

Absent == [desired |-> "stopped", status |-> "absent", deletion |-> -1]

Present(r) == r.status # "absent"
Doomed(r) == r.deletion >= 0

(* "none" covers a record that was never written, released or deleted.    *)
(* `mine` tells this Platform session from the ones before it.             *)
Lease == [node : {"none", "here", "there"}, live : BOOLEAN, mine : BOOLEAN]
NoLease == [node |-> "none", live |-> FALSE, mine |-> FALSE]
Granted(n) == [node |-> n, live |-> TRUE, mine |-> TRUE]

(* authority.validate of a claim for node n. *)
Valid(n) == n # "none" /\ lease = Granted(n)

Claims == {"none", "here", "there"}

(* The claim a start or a stop in progress has read. It is current until    *)
(* the authority grants the Project a newer epoch.                          *)
Held == [node : Claims, current : BOOLEAN]
NoClaim == [node |-> "none", current |-> TRUE]
Hold(n) == [node |-> n, current |-> TRUE]

Kinds == {"create", "start", "stop", "restart", "remove", "get", "upgrade",
          "update"}

Points == {"idle", "waiting", "ready", "listed", "preparing", "placing",
           "dispatching", "sending", "sent", "notSent", "unsent", "evicting",
           "local", "token", "prepare", "launched", "failing", "undoing",
           "halted", "stopping", "releasing", "ended",
           "cleaning", "cleanup", "cleaned", "erasing", "deletionFailed"}

Idle == [kind |-> "none", at |-> "idle", rec |-> Absent]

At(a, kinds, point) == op[a].kind \in kinds /\ op[a].at = point

Go(a, point, r) == op' = [op EXCEPT ![a].at = point, ![a].rec = r]

(* The call returns or fails, and gives back the permit if it has it. *)
Finish(a) ==
  /\ op' = [op EXCEPT ![a] = Idle]
  /\ permit' = IF permit = a THEN Nobody ELSE permit

Fault ==
  /\ used.faults < MaxFaults
  /\ used' = [used EXCEPT !.faults = @ + 1]

ProjectTypeOK ==
  /\ record \in Stored \cup {Absent}
  /\ running \in BOOLEAN
  /\ lease \in Lease
  /\ token \in Claims /\ refused \in Claims
  /\ held \in Held
  /\ permit \in Actors \cup {Nobody}
  /\ op \in [Actors -> [kind : Kinds \cup {"none", "pass", "resume"},
                        at : Points, rec : Stored \cup {Absent}]]
  /\ used \in [crashes : 0..MaxCrashes, faults : 0..MaxFaults]

Init ==
  /\ record = Absent
  /\ running = FALSE
  /\ lease = NoLease
  /\ token = "none" /\ held = NoClaim /\ refused = "none"
  /\ permit = Nobody
  /\ op = [a \in Actors |-> Idle]
  /\ used = [crashes |-> 0, faults |-> 0]

-----------------------------------------------------------------------------
(* Entering a call. *)

(* Mutated form: a status refresh that does not take the permit. *)
PermitOrRead(k) == permit = Nobody \/ k = "get"

PermitFor(k) == permit = Nobody

Admit(a, k) ==
  /\ PermitFor(k)
  /\ permit' = a
  /\ op' = [op EXCEPT ![a] = [kind |-> k, at |-> "ready", rec |-> record]]
  /\ UNCHANGED <<record, running, lease, token, held, refused, used>>

(* An operator's call is admitted and reads the record. Until then it waits *)
(* for the permit and has done nothing. remove is single-flight: a caller   *)
(* that finds the pass about to remove the Project joins it.                *)
Call(o, k) ==
  /\ op[o] = Idle
  /\ k = "remove" => op[Fleet].kind # "remove"
  /\ Admit(o, k)

(* A call of the pass, admitted. *)
Enter == op[Fleet].at = "waiting" /\ Admit(Fleet, op[Fleet].kind)

(* Mutated form: a resumed start relies on what the pass saw. *)
RefusesResumingUnread(r) == ~Present(r) \/ running

RefusesResuming(r) ==
  ~Present(r) \/ Doomed(r) \/ r.desired # "running" \/ running

(* requireProject, assertProjectIsOperable and each call's own checks. *)
Refuses(a, r) ==
  CASE op[a].kind = "create" -> Present(record)
    [] op[a].kind = "resume" -> RefusesResuming(r)
    [] op[a].kind = "remove" -> ~Present(r)
    [] op[a].kind = "get" -> ~Present(r) \/ Doomed(r) \/ r.status = "provisioning"
    [] op[a].kind = "upgrade" ->
         ~Present(r) \/ Doomed(r) \/ r.status \notin {"stopped", "failed"}
    [] OTHER -> ~Present(r) \/ Doomed(r)

Refuse(a) ==
  /\ op[a].at = "ready" /\ Refuses(a, op[a].rec)
  /\ Finish(a)
  /\ UNCHANGED <<record, running, lease, token, held, refused, used>>

Ready(a, kinds) == At(a, kinds, "ready") /\ ~Refuses(a, op[a].rec)

(* refresh(id, persist): what the driver reports replaces the status,       *)
(* except for a failure that nothing running contradicts.                   *)
Refresh(o) ==
  /\ Ready(o, {"get"})
  /\ LET r == op[o].rec
         seen == IF running THEN "running" ELSE "stopped"
     IN IF seen = r.status \/ (r.status = "failed" /\ ~running)
        THEN UNCHANGED record
        ELSE record' = [r EXCEPT !.status = seen]
  /\ Finish(o)
  /\ UNCHANGED <<running, lease, token, held, refused, used>>

(* update: the name, over whatever else the copy holds. *)
Rename(o) ==
  /\ Ready(o, {"update"})
  /\ record' = op[o].rec
  /\ Finish(o)
  /\ UNCHANGED <<running, lease, token, held, refused, used>>

(* upgrade of a stopped Project: prepare the artifact, then write the lock. *)
Upgrade(o) ==
  /\ Ready(o, {"upgrade"})
  /\ \/ /\ record' = [op[o].rec EXCEPT !.status = "stopped"]
        /\ UNCHANGED used
     \/ Fault /\ UNCHANGED record
  /\ Finish(o)
  /\ UNCHANGED <<running, lease, token, held, refused>>

-----------------------------------------------------------------------------
(* Placement. *)

(* commitPlacement: the claim that is live is renewed; one that has expired *)
(* is superseded once its process is proved stopped. mayPlace wants the     *)
(* record to exist. A new epoch is not the one a call in progress read.     *)
Commit(node) ==
  /\ node \in {"here", "there"}
  /\ \/ /\ lease = Granted(node)
        /\ token' = node
        /\ UNCHANGED <<lease, running, held>>
     \/ /\ ~lease.live /\ Present(record)
        /\ lease' = Granted(node) /\ token' = node
        /\ running' = (running /\ lease.node # "here")
        /\ held' = [held EXCEPT !.current = (held.node = "none")]

(* A planner or an authority that fails, or has no node for the Project. An *)
(* expired process may have been stopped before the authority refused.      *)
Unplaced ==
  /\ Fault
  /\ running' \in {running, running /\ (lease.live \/ lease.node # "here")}

(* An older session's lease is waited for. *)
Blocked ==
  \/ /\ IF lease.live THEN ~lease.mine ELSE ~Present(record)
     /\ UNCHANGED <<running, used>>
  \/ Unplaced

(* startPlaced and restart plan the fleet as though the Project ran. create *)
(* reads its record again.                                                  *)
PlacedCopy(a) == IF op[a].kind = "create" THEN record ELSE op[a].rec

Placing(a) == Ready(a, {"start", "restart"}) \/ At(a, {"create"}, "placing")

Place(a) ==
  /\ Placing(a)
  /\ \/ /\ Commit("here")
        /\ IF op[a].kind = "restart"
           THEN Go(a, "halted", op[a].rec) ELSE Go(a, "local", record)
        /\ UNCHANGED permit
     \/ /\ op[a].kind # "restart" /\ Commit("there")
        /\ Go(a, "dispatching", PlacedCopy(a))
        /\ UNCHANGED permit
     \/ /\ op[a].kind = "restart" /\ Commit("there")
        /\ Finish(a)
  /\ UNCHANGED <<record, refused, used>>

PlaceFails(a) ==
  /\ Placing(a) /\ Blocked
  /\ IF op[a].kind = "create" THEN Go(a, "undoing", op[a].rec) /\ UNCHANGED permit
                              ELSE Finish(a)
  /\ UNCHANGED <<record, lease, token, held, refused>>

-----------------------------------------------------------------------------
(* create. *)

(* setIfAbsent claims the identifier; input.start decides what is desired. *)
Claim(o) ==
  /\ Ready(o, {"create"})
  /\ \E desired \in {"running", "stopped"} :
       LET r == [desired |-> desired, status |-> "provisioning", deletion |-> -1]
       IN record' = r /\ Go(o, "preparing", r)
  /\ UNCHANGED <<running, lease, token, permit, held, refused, used>>

Provisioned(o) ==
  /\ At(o, {"create"}, "preparing")
  /\ record' = [op[o].rec EXCEPT !.status = "stopped"]
  /\ IF op[o].rec.desired = "running"
     THEN Go(o, "placing", record') /\ UNCHANGED permit
     ELSE Finish(o)
  /\ UNCHANGED <<running, lease, token, held, refused, used>>

PrepareFails(o) ==
  /\ At(o, {"create"}, "preparing") /\ Fault
  /\ Go(o, "undoing", op[o].rec)
  /\ UNCHANGED <<record, running, lease, token, permit, held, refused>>

(* A create that failed anywhere records the failure over its own copy. *)
UndoCreate(o) ==
  /\ At(o, {"create"}, "undoing")
  /\ record' = [op[o].rec EXCEPT !.desired = "stopped", !.status = "failed"]
  /\ Finish(o)
  /\ UNCHANGED <<running, lease, token, held, refused, used>>

(* The start ended without success. *)
GiveUp(a) ==
  IF op[a].kind = "create" THEN Go(a, "undoing", op[a].rec) /\ UNCHANGED permit
                           ELSE Finish(a)

-----------------------------------------------------------------------------
(* startLocally, and the second half of restart. *)

WriteStarting(a) ==
  /\ op[a].at = "local"
  /\ record' = [op[a].rec EXCEPT !.desired = "running", !.status = "starting"]
  /\ Go(a, "token", record')
  /\ UNCHANGED <<running, lease, token, permit, held, refused, used>>

(* localPlacementToken. *)
Validate(a) ==
  /\ op[a].at = "token"
  /\ IF token = "here" /\ Valid(token)
     THEN Go(a, "prepare", op[a].rec) /\ held' = Hold(token)
     ELSE Go(a, "failing", op[a].rec) /\ UNCHANGED held
  /\ UNCHANGED <<record, running, lease, token, permit, refused, used>>

(* The host starts a process only under the claim and while its lease lives. *)
Launchable == held.current /\ Valid("here")

(* runtime.prepare, then runtime.start under the claim. *)
Launch(a) ==
  /\ op[a].at = "prepare"
  /\ \/ /\ Launchable
        /\ running' = TRUE
        /\ Go(a, "launched", op[a].rec) /\ UNCHANGED used
     \/ /\ ~Launchable
        /\ Go(a, "failing", op[a].rec) /\ UNCHANGED <<running, used>>
     \/ /\ Fault
        /\ Go(a, "failing", op[a].rec) /\ UNCHANGED running
  /\ held' = NoClaim
  /\ UNCHANGED <<record, lease, token, permit, refused>>

RecordStart(a) ==
  /\ op[a].at = "launched"
  /\ record' = [op[a].rec EXCEPT !.status = "running"]
  /\ Finish(a)
  /\ UNCHANGED <<running, lease, token, held, refused, used>>

RecordFailure(a) ==
  /\ op[a].at = "failing"
  /\ record' = [op[a].rec EXCEPT !.status = "failed"]
  /\ GiveUp(a)
  /\ UNCHANGED <<running, lease, token, held, refused, used>>

-----------------------------------------------------------------------------
(* dispatchElsewhere: for a start under the permit, for a pass without it. *)

DispatchIntent(a) ==
  /\ op[a].at = "dispatching"
  /\ LET r == [op[a].rec EXCEPT !.desired = "running"]
     IN /\ record' = IF r = op[a].rec THEN record ELSE r
        /\ Go(a, "sending", r)
  /\ UNCHANGED <<running, lease, token, permit, held, refused, used>>

(* Without a claim there is no fenced path to the node. *)
Send(a) ==
  /\ op[a].at = "sending"
  /\ \/ /\ token = "none"
        /\ Go(a, "unsent", op[a].rec) /\ UNCHANGED used
     \/ /\ token = "there" /\ Valid(token)
        /\ Go(a, "sent", op[a].rec) /\ UNCHANGED used
     \/ /\ token # "none" /\ ~(token = "there" /\ Valid(token))
        /\ Go(a, "notSent", op[a].rec) /\ UNCHANGED used
     \/ /\ token # "none" /\ Fault
        /\ Go(a, "notSent", op[a].rec)
  /\ UNCHANGED <<record, running, lease, token, permit, held, refused>>

(* The placement note, written over the copy the dispatch was given. *)
Note(a) ==
  /\ op[a].at \in {"sent", "notSent", "unsent"}
  /\ record' = op[a].rec
  /\ CASE op[a].at = "sent" -> Finish(a)
       [] op[a].at = "notSent" -> GiveUp(a)
       [] OTHER -> Go(a, "evicting", op[a].rec) /\ UNCHANGED permit
  /\ UNCHANGED <<running, lease, token, held, refused, used>>

(* The driver is asked to stop what runs here and belongs elsewhere. *)
Evict(a) ==
  /\ op[a].at = "evicting"
  /\ \/ running' = FALSE /\ UNCHANGED used
     \/ Fault /\ UNCHANGED running
  /\ GiveUp(a)
  /\ UNCHANGED <<record, lease, token, held, refused>>

-----------------------------------------------------------------------------
(* stop, restart and remove. *)

Max0(n) == IF n < 0 THEN 0 ELSE n

(* What each of them writes before it stops the runtime. *)
Stopping(a) ==
  CASE op[a].kind = "restart" ->
         [op[a].rec EXCEPT !.desired = "running", !.status = "stopping"]
    [] op[a].kind = "stop" ->
         [op[a].rec EXCEPT !.desired = "stopped", !.status = "stopping"]
    [] OTHER ->
         [op[a].rec EXCEPT !.desired = "stopped", !.status = "stopping",
                           !.deletion = Max0(@)]

(* stopPlacedRuntime reads ownedPlacements when it begins. *)
WriteStopping(a) ==
  /\ Ready(a, {"stop", "remove"}) \/ op[a].at = "halted"
  /\ record' = Stopping(a)
  /\ Go(a, "stopping", record')
  /\ held' = Hold(token)
  /\ UNCHANGED <<running, lease, token, permit, refused, used>>

StopFailed(a) ==
  /\ held' = NoClaim
  /\ IF op[a].kind = "remove"
     THEN Go(a, "deletionFailed", op[a].rec) /\ UNCHANGED permit
     ELSE Finish(a)

(* Without a claim, this host cannot confirm the stop of a remote owner. *)
OwnedRemotely == held.node = "none" /\ lease.live /\ lease.node = "there"

(* The driver's stop here, or a fenced stop sent to the node of the claim. *)
StopRuntime(a) ==
  /\ op[a].at = "stopping" /\ ~OwnedRemotely
  /\ running' = (running /\ held.node = "there")
  /\ Go(a, "releasing", op[a].rec)
  /\ UNCHANGED <<record, lease, token, permit, held, refused, used>>

StopRuntimeFails(a) ==
  /\ op[a].at = "stopping"
  /\ \/ OwnedRemotely /\ UNCHANGED used
     \/ ~OwnedRemotely /\ Fault
  /\ StopFailed(a)
  /\ UNCHANGED <<record, running, lease, token, refused>>

(* authority.release: of a lease that lives or has expired, under its epoch. *)
Release(a) ==
  /\ op[a].at = "releasing"
  /\ IF held.node = "none"
     THEN UNCHANGED <<lease, token>>
     ELSE /\ held.current /\ lease.mine
          /\ lease' = NoLease /\ token' = "none"
  /\ held' = NoClaim
  /\ Go(a, "ended", op[a].rec)
  /\ UNCHANGED <<record, running, permit, refused, used>>

ReleaseFails(a) ==
  /\ op[a].at = "releasing" /\ held.node # "none"
  /\ \/ ~(held.current /\ lease.mine) /\ UNCHANGED used
     \/ Fault
  /\ StopFailed(a)
  /\ UNCHANGED <<record, running, lease, token, refused>>

RecordStop(a) ==
  /\ At(a, {"stop"}, "ended")
  /\ record' = [op[a].rec EXCEPT !.status = "stopped"]
  /\ Finish(a)
  /\ UNCHANGED <<running, lease, token, held, refused, used>>

(* restart claims its placement again, for this host, before it starts. *)
Reacquire(a) ==
  /\ At(a, {"restart"}, "ended")
  /\ \/ Commit("here")
     \/ /\ lease = Granted("there") /\ token' = "there"
        /\ UNCHANGED <<lease, running, held>>
  /\ Go(a, "local", op[a].rec)
  /\ UNCHANGED <<record, permit, refused, used>>

ReacquireFails(a) ==
  /\ At(a, {"restart"}, "ended") /\ Unplaced
  /\ Finish(a)
  /\ UNCHANGED <<record, lease, token, held, refused>>

-----------------------------------------------------------------------------
(* The rest of deleteProject. *)

(* Mutated form: the next participant whose turn it is, whatever is done. *)
AfterCleanupFirst(r) == IF r.deletion < 0 THEN "erasing" ELSE "cleaning"

AfterCleanup(r) == IF r.deletion = Cleanups THEN "erasing" ELSE "cleaning"

RecordRemoteStop(a) ==
  /\ At(a, {"remove"}, "ended")
  /\ record' = [op[a].rec EXCEPT !.status = "stopped"]
  /\ Go(a, AfterCleanup(record'), record')
  /\ UNCHANGED <<running, lease, token, permit, held, refused, used>>

NoteCleanup(a) ==
  /\ op[a].at = "cleaning"
  /\ record' = op[a].rec
  /\ Go(a, "cleanup", record')
  /\ UNCHANGED <<running, lease, token, permit, held, refused, used>>

(* The placement record goes first, the runtime's data last. *)
Cleanup(a) ==
  /\ op[a].at = "cleanup"
  /\ lease' = IF op[a].rec.deletion = 0 THEN NoLease ELSE lease
  /\ Go(a, "cleaned", op[a].rec)
  /\ UNCHANGED <<record, running, token, permit, held, refused, used>>

CleanupFails(a) ==
  /\ op[a].at = "cleanup" /\ Fault
  /\ Go(a, "deletionFailed", op[a].rec)
  /\ UNCHANGED <<record, running, lease, token, permit, held, refused>>

CleanupDone(a) ==
  /\ op[a].at = "cleaned"
  /\ record' = [op[a].rec EXCEPT !.deletion = @ + 1]
  /\ Go(a, AfterCleanup(record'), record')
  /\ UNCHANGED <<running, lease, token, permit, held, refused, used>>

Erase(a) ==
  /\ op[a].at = "erasing"
  /\ record' = Absent
  /\ Finish(a)
  /\ UNCHANGED <<running, lease, token, held, refused, used>>

(* The tombstone stays, with the status the driver reports. *)
DeletionFailed(a) ==
  /\ op[a].at = "deletionFailed"
  /\ record' = [op[a].rec EXCEPT !.status = IF running THEN "running" ELSE "stopped"]
  /\ Finish(a)
  /\ UNCHANGED <<running, lease, token, held, refused, used>>

-----------------------------------------------------------------------------
(* reconcileFleet, for this Project. *)

PassList ==
  /\ op[Fleet] = Idle /\ Present(record)
  /\ op' = [op EXCEPT ![Fleet] = [kind |-> "pass", at |-> "listed", rec |-> record]]
  /\ UNCHANGED <<record, running, lease, token, permit, held, refused, used>>

Listed == At(Fleet, {"pass"}, "listed")

WantsPlacement(r) == ~Doomed(r) /\ r.desired = "running"

(* The pass goes on as a call of the manager, which waits for the permit. *)
Become(k) == op' = [op EXCEPT ![Fleet].kind = k, ![Fleet].at = "waiting"]

(* resolvePlacementDecisions. *)
PassPlaces ==
  /\ Listed /\ WantsPlacement(op[Fleet].rec)
  /\ \/ Commit("here") /\ Go(Fleet, "placing", op[Fleet].rec)
     \/ Commit("there") /\ Go(Fleet, "sending", op[Fleet].rec)
  /\ UNCHANGED <<record, permit, refused, used>>

PassBlocked ==
  /\ Listed /\ WantsPlacement(op[Fleet].rec) /\ Blocked
  /\ Finish(Fleet)
  /\ UNCHANGED <<record, lease, token, held, refused>>

PassStarts ==
  /\ At(Fleet, {"pass"}, "placing")
  /\ IF running THEN Finish(Fleet) ELSE Become("resume") /\ UNCHANGED permit
  /\ UNCHANGED <<record, running, lease, token, held, refused, used>>

(* Mutated form: a tombstone is taken for a Project that was stopped. *)
DeletesNothing(r) == FALSE

Deletes(r) == Doomed(r)

PassDeletes ==
  /\ Listed /\ Deletes(op[Fleet].rec)
  /\ IF \E o \in Operators : op[o].kind = "remove"
     THEN Finish(Fleet) ELSE Become("remove") /\ UNCHANGED permit
  /\ UNCHANGED <<record, running, lease, token, held, refused, used>>

PassStops ==
  /\ Listed /\ ~Deletes(op[Fleet].rec) /\ ~WantsPlacement(op[Fleet].rec)
  /\ IF running THEN Become("stop") /\ UNCHANGED permit ELSE Finish(Fleet)
  /\ UNCHANGED <<record, running, lease, token, held, refused, used>>

(* startLocally, if nobody has changed what the pass was told. *)
Resume ==
  /\ Ready(Fleet, {"resume"})
  /\ Go(Fleet, "local", record)
  /\ UNCHANGED <<record, running, lease, token, permit, held, refused, used>>

-----------------------------------------------------------------------------
(* The renewal timer, and the world around. *)

(* A renewal that is granted changes nothing that is kept here. *)
RenewalRefused ==
  /\ token # "none" /\ refused = "none"
  /\ \/ ~Valid(token) /\ UNCHANGED used
     \/ Fault
  /\ refused' = token
  /\ UNCHANGED <<record, running, lease, token, permit, op, held>>

(* The claim is dropped, whichever it is by now, and its runtime stopped. *)
ActOnRefusal ==
  /\ refused # "none"
  /\ token' = "none" /\ refused' = "none"
  /\ \/ running' = (running /\ refused # "here") /\ UNCHANGED used
     \/ Fault /\ UNCHANGED running
  /\ UNCHANGED <<record, lease, permit, op, held>>

Expire ==
  /\ lease.live
  /\ lease' = [lease EXCEPT !.live = FALSE]
  /\ UNCHANGED <<record, running, token, permit, op, held, refused, used>>

RuntimeExits ==
  /\ running /\ running' = FALSE
  /\ UNCHANGED <<record, lease, token, permit, op, held, refused, used>>

(* The Platform dies and boots: its calls, permits and claims are gone, the *)
(* runtime may go on, and the leases are those of an older session.         *)
Crash ==
  /\ used.crashes < MaxCrashes
  /\ used' = [used EXCEPT !.crashes = @ + 1]
  /\ op' = [a \in Actors |-> Idle]
  /\ permit' = Nobody /\ token' = "none" /\ held' = NoClaim /\ refused' = "none"
  /\ lease' = [lease EXCEPT !.mine = FALSE]
  /\ running' \in {running, FALSE}
  /\ UNCHANGED record

-----------------------------------------------------------------------------

StartStep(a) ==
  \/ Place(a) \/ PlaceFails(a) \/ WriteStarting(a) \/ Validate(a) \/ Launch(a)
  \/ RecordStart(a) \/ RecordFailure(a)
  \/ DispatchIntent(a) \/ Send(a) \/ Note(a) \/ Evict(a)

StopStep(a) ==
  \/ WriteStopping(a) \/ StopRuntime(a) \/ StopRuntimeFails(a)
  \/ Release(a) \/ ReleaseFails(a) \/ RecordStop(a)
  \/ Reacquire(a) \/ ReacquireFails(a)

DeleteStep(a) ==
  \/ RecordRemoteStop(a) \/ NoteCleanup(a) \/ Cleanup(a) \/ CleanupFails(a)
  \/ CleanupDone(a) \/ Erase(a) \/ DeletionFailed(a)

CallStep(o) ==
  \/ Refresh(o) \/ Rename(o) \/ Upgrade(o)
  \/ Claim(o) \/ Provisioned(o) \/ PrepareFails(o) \/ UndoCreate(o)

PassStep ==
  \/ PassList \/ PassPlaces \/ PassBlocked \/ PassStarts \/ PassDeletes
  \/ PassStops \/ Resume

Step(a) == Refuse(a) \/ StartStep(a) \/ StopStep(a) \/ DeleteStep(a)

World == RenewalRefused \/ ActOnRefusal \/ Expire \/ RuntimeExits \/ Crash

Next ==
  \/ \E o \in Operators : CallStep(o) \/ \E k \in Kinds : Call(o, k)
  \/ \E a \in Actors : Step(a)
  \/ PassStep \/ Enter
  \/ World

LifecycleSpec == Init /\ [][Next]_vars

(* The permit is a semaphore that wakes its waiters in turn, a call in      *)
(* progress goes on, a timer starts a pass after each, another renews what  *)
(* is claimed, and a lease that nobody renews expires.                      *)
Fairness ==
  /\ \A o \in Operators : WF_vars(CallStep(o))
  /\ \A a \in Actors : WF_vars(Step(a))
  /\ WF_vars(PassStep) /\ SF_vars(Enter)
  /\ WF_vars(~Valid(token) /\ RenewalRefused) /\ WF_vars(ActOnRefusal)
  /\ WF_vars(token = "none" /\ Expire)

FairLifecycleSpec == LifecycleSpec /\ Fairness

-----------------------------------------------------------------------------
(* Properties. *)

(* A process the driver runs has a record, no cleanup participant of its    *)
(* deletion is done, and the authority has it placed on this host: whatever *)
(* the interleaving of calls, passes, renewals, expiries and crashes.       *)
LocalRuntimeAccounted ==
  running => Present(record) /\ record.deletion < 1 /\ lease.node = "here"

(* A step takes nothing back that was decided about the Project since: no   *)
(* deletion progress, and no deletion.                                      *)
Stands ==
  /\ Doomed(record) => record'.deletion >= record.deletion \/ ~Present(record')
  /\ ~Present(record) /\ Present(record') => record'.status = "provisioning"

(* Under the permit no write undoes a newer one (the comment on             *)
(* withProjectLifecycle): only the note of a fleet dispatch can.            *)
PermittedWritesStand == [][Note(Fleet) \/ Stands]_vars

(* CHANGELOG.md: "so a stale write can no longer land after a newer one".   *)
StaleWriteNeverLands == [][Stands]_vars

(* A deletion that was begun does not stay half done, through failures of   *)
(* its participants and crashes: a later pass finishes it.                  *)
TombstoneFinishes == Doomed(record) ~> ~Doomed(record)
================================================================================
