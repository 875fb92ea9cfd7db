--------------------------- MODULE PlacementAuthority ---------------------------
(***************************************************************************)
(* platform/project-placement-authority.ts over system-store.ts: who may    *)
(* run one Project, decided by compare-and-set on one System Store record.  *)
(*                                                                         *)
(* Every operation is asynchronous: it reads the record, decides on what it *)
(* read, may wait for a fencing proof, and only then tries to write. The    *)
(* calls in flight are the steps that interleave. A call that is refused    *)
(* before it has read anything changes no state and is not modelled.        *)
(***************************************************************************)
EXTENDS Integers

CONSTANTS
  Owners,       \* (nodeId, ownerSession) pairs that may ask for the Project
  Callers,      \* the operations that can be in flight at once
  Nobody,       \* the owner field of the absent record
  LeaseMs,      \* the lease a caller asks for
  MaxClock,     \* bound: the clock stops here
  MaxEpoch,     \* the largest epoch (Number.MAX_SAFE_INTEGER in the code)
  MaxRevision   \* bound: no write is decided on past this revision

ASSUME PlacementAssumption ==
  /\ Nobody \notin Owners
  /\ LeaseMs \in Nat \ {0}
  /\ MaxClock \in Nat
  /\ MaxEpoch \in Nat
  /\ MaxRevision \in Nat

VARIABLES
  clock,          \* Date.now() of the authority, in lease units
  stored,         \* the System Store entry of the Project
  call,           \* call[c]: the operation in flight
  \* History variables: they record what was answered and guard nothing.
  promised,       \* promised[t]: the expiry t was last granted; 0 once t is surrendered
  provedStopped   \* tokens for which fencePrevious has answered true

placementVars == <<clock, stored, call, promised, provedStopped>>

-----------------------------------------------------------------------------
(* The data. *)

Token == [owner : Owners, epoch : 1 .. MaxEpoch]

Record == [state : {"absent", "active", "released"},
           owner : Owners \cup {Nobody},
           epoch : Nat,
           revision : Nat,
           leaseExpiresAt : Nat]

Entry == [value : Record, updatedAt : Nat]

(* `undefined` in the code: epoch and revision read as 0 (`?? 0`). *)
Absent == [state |-> "absent", owner |-> Nobody, epoch |-> 0,
           revision |-> 0, leaseExpiresAt |-> 0]

NoEntry == [value |-> Absent, updatedAt |-> 0]

TokenOf(record) == [owner |-> record.owner, epoch |-> record.epoch]
IsActive(record) == record.state = "active"
Matches(record, token) == record.state # "absent" /\ TokenOf(record) = token

Holds(entry, token) == IsActive(entry.value) /\ TokenOf(entry.value) = token

Later(a, b) == IF a >= b THEN a ELSE b

(* An operation in flight: who it is for, the entry it has read and the    *)
(* record it proposes to write.                                            *)
Call == [op : {"none", "acquire", "renew", "release"},
         phase : {"idle", "read", "fencing", "writing"},
         claim : [owner : Owners \cup {Nobody}, epoch : Nat],
         observed : Entry,
         next : Record]

Idle == [op |-> "none", phase |-> "idle", claim |-> TokenOf(Absent),
         observed |-> NoEntry, next |-> Absent]

-----------------------------------------------------------------------------
(* The System Store. *)

TimestampAfter(previous) == Later(clock, previous + 1)

(* Mutated forms: a compare-and-set on the stamp alone, and a write that    *)
(* only requires the record to exist.                                       *)
StoreAcceptsSameStamp(observed) ==
  IF observed.value.state = "absent" THEN stored.value.state = "absent"
  ELSE stored.value.state # "absent" /\ stored.updatedAt = observed.updatedAt

StoreAcceptsAnyEntry(observed) ==
  (observed.value.state = "absent") = (stored.value.state = "absent")

(* setIfAbsent when nothing was observed, else compareAndSet on both the    *)
(* stamp and the value: a record deleted and created again within one tick  *)
(* carries the old stamp.                                                   *)
StoreAccepts(observed) ==
  IF observed.value.state = "absent" THEN stored.value.state = "absent"
  ELSE /\ stored.value.state # "absent"
       /\ stored.updatedAt = observed.updatedAt
       /\ stored.value = observed.value

Written(observed, value) ==
  [value |-> value,
   updatedAt |-> IF observed.value.state = "absent"
                   THEN clock
                   ELSE TimestampAfter(stored.updatedAt)]

-----------------------------------------------------------------------------
Init ==
  /\ clock = 0
  /\ stored = NoEntry
  /\ call = [c \in Callers |-> Idle]
  /\ promised = [t \in Token |-> 0]
  /\ provedStopped = {}

(* acquire, up to its read of the record. The caller expects the epoch it  *)
(* has seen last; any other is refused as stale and changes nothing.       *)
ReadForAcquire(c, o) ==
  /\ call[c] = Idle
  /\ stored.value.revision < MaxRevision
  /\ call' = [call EXCEPT ![c] =
       [op |-> "acquire", phase |-> "read",
        claim |-> [owner |-> o, epoch |-> stored.value.epoch],
        observed |-> stored, next |-> Absent]]
  /\ UNCHANGED <<clock, stored, promised, provedStopped>>

(* renew and release, up to their read. A claim that does not match the    *)
(* record is refused and changes nothing.                                  *)
ReadForClaim(c, op, token) ==
  /\ call[c] = Idle
  /\ Matches(stored.value, token)
  /\ stored.value.revision < MaxRevision
  /\ call' = [call EXCEPT ![c] =
       [op |-> op, phase |-> "read", claim |-> token,
        observed |-> stored, next |-> Absent]]
  /\ UNCHANGED <<clock, stored, promised, provedStopped>>

(* What each operation decides on the record it has read, at the moment it *)
(* looks at the clock.                                                     *)
Owned(previous) == IsActive(previous) /\ previous.leaseExpiresAt > clock

(* Mutated form: an acquire that does not look at the lease. *)
AdmitsUnexpired(op, previous) ==
  \/ op = "acquire" /\ (IsActive(previous) \/ previous.epoch < MaxEpoch)
  \/ op = "renew" /\ Owned(previous)
  \/ op = "release" /\ previous.state # "released"

Admits(op, previous) ==
  \/ /\ op = "acquire"
     /\ ~Owned(previous)
     /\ IsActive(previous) \/ previous.epoch < MaxEpoch
  \/ op = "renew" /\ Owned(previous)
  \/ op = "release" /\ previous.state # "released"

Proposal(op, claim, previous) ==
  CASE op = "acquire" ->
         [state |-> "active", owner |-> claim.owner,
          epoch |-> previous.epoch + 1, revision |-> previous.revision + 1,
          leaseExpiresAt |-> clock + LeaseMs]
    [] op = "renew" ->
         [previous EXCEPT !.revision = @ + 1,
                          !.leaseExpiresAt = Later(@, clock + LeaseMs)]
    [] op = "release" ->
         [previous EXCEPT !.state = "released", !.revision = @ + 1]

(* acquire of a record that is still active waits for fencePrevious; every *)
(* other admitted operation goes straight to its write.                    *)
Decide(c) ==
  LET r == call[c]
      previous == r.observed.value
  IN /\ r.phase = "read"
     /\ call' = [call EXCEPT ![c] =
          IF ~Admits(r.op, previous) THEN Idle
          ELSE [r EXCEPT !.phase = IF r.op = "acquire" /\ IsActive(previous)
                                     THEN "fencing" ELSE "writing",
                         !.next = Proposal(r.op, r.claim, previous)]]
     /\ UNCHANGED <<clock, stored, promised, provedStopped>>

(* Mutated forms: an acquire that goes on past the last epoch, and one that *)
(* goes on when fencing is unavailable.                                     *)
FencePreviousPastLastEpoch(c, proved) ==
  /\ call[c].phase = "fencing"
  /\ call' = [call EXCEPT ![c] =
       IF proved THEN [@ EXCEPT !.phase = "writing"] ELSE Idle]
  /\ provedStopped' = IF proved
       THEN provedStopped \cup {TokenOf(call[c].observed.value)}
       ELSE provedStopped
  /\ UNCHANGED <<clock, stored, promised>>

FencePreviousIgnored(c, proved) ==
  /\ call[c].phase = "fencing"
  /\ call' = [call EXCEPT ![c] =
       IF @.observed.value.epoch < MaxEpoch
         THEN [@ EXCEPT !.phase = "writing"] ELSE Idle]
  /\ provedStopped' = IF proved
       THEN provedStopped \cup {TokenOf(call[c].observed.value)}
       ELSE provedStopped
  /\ UNCHANGED <<clock, stored, promised>>

(* fencePrevious answers: TRUE proves the observed owner stopped. The epoch *)
(* cap is checked only after it.                                            *)
FencePrevious(c, proved) ==
  /\ call[c].phase = "fencing"
  /\ call' = [call EXCEPT ![c] =
       IF proved /\ @.observed.value.epoch < MaxEpoch
         THEN [@ EXCEPT !.phase = "writing"] ELSE Idle]
  /\ provedStopped' = IF proved
       THEN provedStopped \cup {TokenOf(call[c].observed.value)}
       ELSE provedStopped
  /\ UNCHANGED <<clock, stored, promised>>

(* The compare-and-set commits the proposal, or the call is contended. *)
Write(c) ==
  LET w == call[c]
  IN /\ w.phase = "writing"
     /\ call' = [call EXCEPT ![c] = Idle]
     /\ IF StoreAccepts(w.observed)
          THEN /\ stored' = Written(w.observed, w.next)
               /\ promised' = [promised EXCEPT ![TokenOf(w.next)] =
                    IF IsActive(w.next) THEN w.next.leaseExpiresAt ELSE 0]
          ELSE UNCHANGED <<stored, promised>>
     /\ UNCHANGED <<clock, provedStopped>>

(* deleteProjectPlacementAuthority: an unconditional delete. *)
Delete ==
  /\ stored.value.state # "absent"
  /\ stored' = NoEntry
  /\ promised' = [promised EXCEPT ![TokenOf(stored.value)] = 0]
  /\ UNCHANGED <<clock, call, provedStopped>>

Tick ==
  /\ clock < MaxClock
  /\ clock' = clock + 1
  /\ UNCHANGED <<stored, call, promised, provedStopped>>

Next ==
  \/ \E c \in Callers, o \in Owners : ReadForAcquire(c, o)
  \/ \E c \in Callers, op \in {"renew", "release"}, t \in Token :
       ReadForClaim(c, op, t)
  \/ \E c \in Callers : Decide(c)
  \/ \E c \in Callers, proved \in BOOLEAN : FencePrevious(c, proved)
  \/ \E c \in Callers : Write(c)
  \/ Delete
  \/ Tick

Spec == Init /\ [][Next]_placementVars
-----------------------------------------------------------------------------
(* The types of every variable; `call` holds no half-made request. *)
TypeOK ==
  /\ clock \in 0 .. MaxClock
  /\ stored \in Entry
  /\ stored.value.state # "absent" => TokenOf(stored.value) \in Token
  /\ call \in [Callers -> Call]
  /\ promised \in [Token -> Nat]
  /\ provedStopped \subseteq Token

(* What a call in flight proposes is justified for the entry it has read,   *)
(* however long ago: an acquire only follows a lease that is over and a     *)
(* token proved stopped, a renewal keeps its token and shortens nothing, a  *)
(* release keeps its token. The compare-and-set extends this to the record. *)
Continues(next, previous) ==
  IsActive(previous) /\ TokenOf(next) = TokenOf(previous)

JustifiedProposal(r) ==
  LET previous == r.observed.value
  IN /\ r.next.revision = previous.revision + 1
     /\ \/ /\ r.op = "acquire" /\ IsActive(r.next)
           /\ r.next.owner \in Owners
           /\ r.next.epoch = previous.epoch + 1
           /\ IsActive(previous) =>
                /\ previous.leaseExpiresAt <= clock
                /\ r.phase = "writing" => TokenOf(previous) \in provedStopped
           /\ r.phase = "writing" => r.next.epoch <= MaxEpoch
        \/ /\ r.op = "renew" /\ IsActive(r.next)
           /\ Continues(r.next, previous)
           /\ r.next.leaseExpiresAt >= previous.leaseExpiresAt
        \/ /\ r.op = "release" /\ r.next.state = "released"
           /\ Continues(r.next, previous)
           /\ r.next.leaseExpiresAt = previous.leaseExpiresAt

InFlightJustified ==
  \A c \in Callers : call[c].phase \in {"fencing", "writing"} => JustifiedProposal(call[c])

(* A lease that was granted is worth what it said: until its promised       *)
(* expiry its token is the one on record, with at least that expiry, unless *)
(* its owner released it or the Project was deleted. acquire and renew read *)
(* the clock and the record long before they write.                         *)
GrantHonoured ==
  \A t \in Token :
    promised[t] > clock =>
      Holds(stored, t) /\ stored.value.leaseExpiresAt >= promised[t]

(* A token leaves the record only by its owner's surrender, or after its    *)
(* lease is over and fencePrevious has answered true for this very token:   *)
(* project-placement-authority.ts:83, "Must prove the prior owner is        *)
(* stopped before an expired lease is taken over."                          *)
TakeoverProved ==
  \A t \in Token :
    Holds(stored, t) /\ ~Holds(stored', t) =>
      \/ promised'[t] = 0
      \/ t \in provedStopped /\ stored.value.leaseExpiresAt <= clock

SupersededOnlyWhenProvedStopped == [][TakeoverProved]_placementVars

(* While the record exists its revision counts every write, its epoch never *)
(* goes back, and an epoch that was released or superseded never becomes    *)
(* active again: a renewal in flight cannot revive it.                      *)
EpochIsHighWater ==
  [][stored.value.state # "absent" /\ stored'.value.state # "absent"
       /\ stored' # stored =>
       /\ stored'.value.revision = stored.value.revision + 1
       /\ \/ stored'.value.epoch = stored.value.epoch /\ IsActive(stored.value)
             /\ stored'.value.owner = stored.value.owner
             /\ stored'.value.leaseExpiresAt >= stored.value.leaseExpiresAt
          \/ stored'.value.epoch = stored.value.epoch + 1
    ]_placementVars

(* Every interleaving of reads, fencing waits and writes implements the     *)
(* one-step register.                                                       *)
Register == INSTANCE PlacementRegister WITH
  reg <- IF IsActive(stored.value)
           THEN [owner |-> stored.value.owner, epoch |-> stored.value.epoch,
                 until |-> stored.value.leaseExpiresAt]
           ELSE [owner |-> Nobody, epoch |-> stored.value.epoch, until |-> 0]

ImplementsRegister == Register!Spec

================================================================================
