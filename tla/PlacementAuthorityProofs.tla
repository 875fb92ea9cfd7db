----------------------- MODULE PlacementAuthorityProofs -----------------------
(***************************************************************************)
(* Proofs about PlacementAuthority, for every set of owners and callers and *)
(* every value of the bounds.                                               *)
(*                                                                         *)
(* The argument: a proposal in flight is justified for the entry its call   *)
(* has read (InFlightJustified), and the compare-and-set only replaces that *)
(* very entry; hence whatever was true of the observed entry is true of the *)
(* record at the moment it is replaced.                                     *)
(***************************************************************************)
EXTENDS PlacementAuthority, TLAPS

(* What is true of every entry, on record or observed by a call in flight. *)
EntryOK(entry) ==
  /\ entry.value.state = "absent" => entry.value = Absent
  /\ entry.value.state # "absent" => TokenOf(entry.value) \in Token
  /\ entry.value.leaseExpiresAt <= clock + LeaseMs

(* A call that has read is for an owner, or for the token it has matched. *)
ReadJustified(r) ==
  r.phase = "read" =>
    \/ r.op = "acquire" /\ r.claim.owner \in Owners
    \/ r.op \in {"renew", "release"} /\ Matches(r.observed.value, r.claim)

FencingIsAcquire(r) ==
  r.phase = "fencing" => r.op = "acquire" /\ IsActive(r.observed.value)

CallOK(r) ==
  /\ EntryOK(r.observed)
  /\ ReadJustified(r)
  /\ FencingIsAcquire(r)
  /\ r.next.leaseExpiresAt <= clock + LeaseMs
  /\ r.phase \in {"fencing", "writing"} => JustifiedProposal(r)

(* The inductive invariant. *)
IInv ==
  /\ TypeOK
  /\ EntryOK(stored)
  /\ \A c \in Callers : CallOK(call[c])
  /\ GrantHonoured

(* What is in flight is justified whenever the inductive invariant holds.  *)
LEMMA InFlightFromIInv == IInv => InFlightJustified
  BY DEF IInv, CallOK, InFlightJustified

-----------------------------------------------------------------------------
(* The initial state satisfies the inductive invariant. *)
LEMMA IdleOK == Idle \in Call /\ (clock \in Nat => CallOK(Idle))
  BY PlacementAssumption
  DEF Idle, NoEntry, Absent, Entry, Call, Record, TokenOf, CallOK, EntryOK,
      ReadJustified, FencingIsAcquire

(* The empty store satisfies the inductive invariant.                      *)
LEMMA InitInv == Init => IInv
  <1>. SUFFICES ASSUME Init PROVE IInv
    OBVIOUS
  <1>. USE PlacementAssumption DEF Init
  <1>1. NoEntry \in Entry
    BY DEF NoEntry, Entry, Record, Absent
  <1>2. EntryOK(stored)
    BY DEF EntryOK, NoEntry, Absent
  <1>3. TypeOK
    BY <1>1, IdleOK DEF TypeOK, NoEntry, Absent
  <1>4. GrantHonoured
    BY DEF GrantHonoured
  <1>. QED
    BY <1>2, <1>3, <1>4, IdleOK DEF IInv

-----------------------------------------------------------------------------
(* A call's record stays good while the clock runs and proofs accumulate.  *)
LEMMA CallStaysOK ==
  ASSUME NEW r \in Call, CallOK(r), clock \in Nat, clock' \in Nat, clock <= clock',
         provedStopped \subseteq provedStopped'
  PROVE  CallOK(r)'
  <1>. USE PlacementAssumption
  <1>1. r.observed.value.leaseExpiresAt \in Nat /\ r.next.leaseExpiresAt \in Nat
    BY DEF Call, Entry, Record
  <1>2. EntryOK(r.observed)' /\ r.next.leaseExpiresAt <= clock' + LeaseMs
    BY <1>1 DEF CallOK, EntryOK
  <1>3. (r.phase \in {"fencing", "writing"} => JustifiedProposal(r))'
    BY <1>1 DEF CallOK, JustifiedProposal, Continues, IsActive
  <1>. QED
    BY <1>2, <1>3 DEF CallOK, ReadJustified, FencingIsAcquire

(* A step that only moves one call forward. *)
LEMMA CallStep ==
  ASSUME IInv, NEW c \in Callers, NEW r \in Call, CallOK(r)',
         call' = [call EXCEPT ![c] = r],
         UNCHANGED <<clock, stored, promised>>,
         provedStopped \subseteq provedStopped', provedStopped' \subseteq Token
  PROVE  IInv'
  <1>. USE DEF IInv
  <1>1. TypeOK'
    BY DEF TypeOK
  <1>2. EntryOK(stored)' /\ GrantHonoured'
    BY DEF EntryOK, GrantHonoured, Holds
  <1>3. ASSUME NEW d \in Callers PROVE CallOK(call[d])'
    <2>1. CASE d = c
      BY <2>1 DEF TypeOK
    <2>2. CASE d # c
      <3>1. call'[d] = call[d] /\ call[d] \in Call
        BY <2>2 DEF TypeOK
      <3>2. CallOK(call[d]) /\ clock \in Nat /\ clock' = clock
        BY PlacementAssumption DEF TypeOK
      <3>. QED
        BY <3>1, <3>2, CallStaysOK
    <2>. QED
      BY <2>1, <2>2
  <1>. QED
    BY <1>1, <1>2, <1>3
-----------------------------------------------------------------------------
(* One lemma per action: the inductive invariant is preserved. *)

LEMMA ReadForAcquireInv ==
  ASSUME IInv, NEW c \in Callers, NEW o \in Owners, ReadForAcquire(c, o)
  PROVE  IInv'
  <1>. DEFINE r == [op |-> "acquire", phase |-> "read",
                    claim |-> [owner |-> o, epoch |-> stored.value.epoch],
                    observed |-> stored, next |-> Absent]
  <1>. USE PlacementAssumption DEF IInv, TypeOK, ReadForAcquire
  <1>1. r \in Call
    BY DEF Call, Absent, Record, Entry
  <1>2. CallOK(r)'
    BY DEF CallOK, EntryOK, ReadJustified, FencingIsAcquire, Absent
  <1>. QED
    BY <1>1, <1>2, CallStep

(* renew and release read the record and decide nothing yet.               *)
LEMMA ReadForClaimInv ==
  ASSUME IInv, NEW c \in Callers, NEW op \in {"renew", "release"}, NEW t \in Token,
         ReadForClaim(c, op, t)
  PROVE  IInv'
  <1>. DEFINE r == [op |-> op, phase |-> "read", claim |-> t,
                    observed |-> stored, next |-> Absent]
  <1>. USE PlacementAssumption DEF IInv, TypeOK, ReadForClaim
  <1>1. r \in Call
    BY DEF Call, Absent, Record, Entry, Token
  <1>2. CallOK(r)'
    BY DEF CallOK, EntryOK, ReadJustified, FencingIsAcquire, Absent, Matches
  <1>. QED
    BY <1>1, <1>2, CallStep

(* What the three operations propose, and when they are admitted. *)
LEMMA ProposalTyped ==
  ASSUME NEW op \in {"acquire", "renew", "release"}, NEW claim, claim.owner \in Owners,
         NEW previous \in Record, clock \in Nat, previous.leaseExpiresAt <= clock + LeaseMs
  PROVE  /\ Proposal(op, claim, previous) \in Record
         /\ Proposal(op, claim, previous).revision = previous.revision + 1
         /\ Proposal(op, claim, previous).leaseExpiresAt <= clock + LeaseMs
         /\ op = "renew" =>
              Proposal(op, claim, previous).leaseExpiresAt >= previous.leaseExpiresAt
  <1>. USE PlacementAssumption
  <1>1. CASE op = "acquire"
    BY <1>1 DEF Proposal, Record
  <1>2. CASE op = "renew"
    <2>1. PICK e \in Nat : e = Later(previous.leaseExpiresAt, clock + LeaseMs)
      BY DEF Later, Record
    <2>2. e <= clock + LeaseMs /\ e >= previous.leaseExpiresAt
      BY <2>1 DEF Later, Record
    <2>3. Proposal(op, claim, previous)
            = [previous EXCEPT !.revision = previous.revision + 1, !.leaseExpiresAt = e]
      BY <1>2, <2>1 DEF Proposal
    <2>4. previous.revision + 1 \in Nat
      BY DEF Record
    <2>. QED
      BY <1>2, <2>2, <2>3, <2>4 DEF Record
  <1>3. CASE op = "release"
    <2>1. Proposal(op, claim, previous)
            = [previous EXCEPT !.state = "released", !.revision = previous.revision + 1]
      BY <1>3 DEF Proposal
    <2>2. previous.revision + 1 \in Nat
      BY DEF Record
    <2>. QED
      BY <1>3, <2>1, <2>2 DEF Record
  <1>. QED
    BY <1>1, <1>2, <1>3

(* The decision on the record read proposes only justified writes.         *)
LEMMA DecideInv ==
  ASSUME IInv, NEW c \in Callers, Decide(c)
  PROVE  IInv'
  <1>. USE PlacementAssumption DEF IInv
  <1>1. call[c] \in Call /\ CallOK(call[c]) /\ clock \in Nat /\ call[c].phase = "read"
    BY DEF Decide, TypeOK
  <1>2. PICK r \in Call : r = call[c]
    BY <1>1
  <1>. DEFINE previous == r.observed.value
  <1>3. CallOK(r) /\ r.phase = "read" /\ previous \in Record /\ EntryOK(r.observed)
    BY <1>1, <1>2 DEF CallOK, Call, Entry
  <1>4. r.op \in {"acquire", "renew", "release"} /\ r.claim.owner \in Owners
    BY <1>3 DEF CallOK, ReadJustified, Matches, TokenOf, EntryOK, Token
  <1>5. UNCHANGED <<clock, stored, promised, provedStopped>> /\ provedStopped \subseteq Token
    BY DEF Decide, TypeOK
  <1>6. CASE ~Admits(r.op, previous)
    <2>1. call' = [call EXCEPT ![c] = Idle]
      BY <1>2, <1>6 DEF Decide
    <2>2. CallOK(Idle)'
      BY <1>1, <1>5, IdleOK, CallStaysOK
    <2>. QED
      BY <1>5, <2>1, <2>2, IdleOK, CallStep
  <1>7. CASE Admits(r.op, previous)
    <2>1. PICK p \in Record : p = Proposal(r.op, r.claim, previous)
      BY <1>1, <1>3, <1>4, ProposalTyped DEF EntryOK
    <2>2. p.revision = previous.revision + 1 /\ p.leaseExpiresAt <= clock + LeaseMs
      BY <1>1, <1>3, <1>4, <2>1, ProposalTyped DEF EntryOK
    <2>3. PICK d \in Call :
            d = [r EXCEPT !.phase = IF r.op = "acquire" /\ IsActive(previous)
                                      THEN "fencing" ELSE "writing",
                          !.next = p]
      BY DEF Call
    <2>4. call' = [call EXCEPT ![c] = d]
      BY <1>2, <1>7, <2>1, <2>3 DEF Decide
    <2>5. /\ d.op = r.op /\ d.observed = r.observed /\ d.next = p
          /\ d.phase = IF r.op = "acquire" /\ IsActive(previous) THEN "fencing" ELSE "writing"
      BY <2>3 DEF Call
    <2>6. JustifiedProposal(d)
      <3>1. CASE r.op = "acquire"
        <4>1. IsActive(p) /\ p.owner = r.claim.owner /\ p.epoch = previous.epoch + 1
          BY <2>1, <3>1 DEF Proposal, IsActive
        <4>2. IsActive(previous) => previous.leaseExpiresAt <= clock /\ d.phase = "fencing"
          BY <1>1, <1>3, <1>7, <2>5, <3>1 DEF Admits, Owned, Record
        <4>3. d.phase = "writing" => p.epoch <= MaxEpoch
          BY <1>3, <1>7, <2>5, <3>1, <4>1 DEF Admits, Record
        <4>. QED
          BY <1>4, <2>2, <2>5, <3>1, <4>1, <4>2, <4>3 DEF JustifiedProposal
      <3>2. CASE r.op = "renew"
        <4>1. IsActive(previous) /\ IsActive(p) /\ TokenOf(p) = TokenOf(previous)
          BY <1>7, <2>1, <3>2 DEF Admits, Owned, Proposal, IsActive, TokenOf, Record
        <4>2. p.leaseExpiresAt >= previous.leaseExpiresAt
          BY <1>1, <1>3, <1>4, <2>1, <3>2, ProposalTyped DEF EntryOK
        <4>. QED
          BY <2>2, <2>5, <3>2, <4>1, <4>2 DEF JustifiedProposal, Continues
      <3>3. CASE r.op = "release"
        <4>1. p = [previous EXCEPT !.state = "released", !.revision = @ + 1]
          BY <2>1, <3>3 DEF Proposal
        <4>2. previous.state # "released" /\ previous.state # "absent"
          BY <1>3, <1>7, <3>3 DEF Admits, CallOK, ReadJustified, Matches
        <4>3. IsActive(previous)
          BY <1>3, <4>2 DEF IsActive, Record
        <4>. QED
          BY <1>3, <2>2, <2>5, <3>3, <4>1, <4>3
          DEF JustifiedProposal, Continues, TokenOf, Record
      <3>. QED
        BY <1>4, <3>1, <3>2, <3>3
    <2>7. ReadJustified(d) /\ FencingIsAcquire(d)
      BY <2>5 DEF ReadJustified, FencingIsAcquire
    <2>8. CallOK(d)'
      BY <1>1, <1>3, <1>5, <2>2, <2>5, <2>6, <2>7, CallStaysOK DEF CallOK
    <2>. QED
      BY <1>5, <2>4, <2>8, CallStep
  <1>. QED
    BY <1>6, <1>7

(* An answered fencing proof lets the call write, or ends it.              *)
LEMMA FencePreviousInv ==
  ASSUME IInv, NEW c \in Callers, NEW proved \in BOOLEAN, FencePrevious(c, proved)
  PROVE  IInv'
  <1>. USE PlacementAssumption DEF IInv
  <1>1. PICK r \in Call : r = call[c]
    BY DEF TypeOK
  <1>2. /\ CallOK(r) /\ r.phase = "fencing" /\ r.observed.value \in Record
        /\ clock \in Nat /\ EntryOK(r.observed)
    BY <1>1 DEF FencePrevious, TypeOK, CallOK, Call, Entry
  <1>3. TokenOf(r.observed.value) \in Token /\ r.op = "acquire"
    BY <1>2 DEF CallOK, FencingIsAcquire, EntryOK, IsActive
  <1>4. /\ UNCHANGED <<clock, stored, promised>>
        /\ provedStopped \subseteq provedStopped' /\ provedStopped' \subseteq Token
    BY <1>1, <1>3 DEF FencePrevious, TypeOK
  <1>5. CASE proved /\ r.observed.value.epoch < MaxEpoch
    <2>1. PICK d \in Call : d = [r EXCEPT !.phase = "writing"]
      BY DEF Call
    <2>2. call' = [call EXCEPT ![c] = d]
      BY <1>1, <1>5, <2>1 DEF FencePrevious
    <2>3. /\ d.op = "acquire" /\ d.observed = r.observed /\ d.next = r.next
          /\ d.phase = "writing"
      BY <1>3, <2>1 DEF Call
    <2>4. CallOK(r)'
      BY <1>2, <1>4, CallStaysOK
    <2>5. TokenOf(r.observed.value) \in provedStopped'
      BY <1>1, <1>5 DEF FencePrevious
    <2>6. JustifiedProposal(d)'
      <3>1. JustifiedProposal(r)'
        BY <1>2, <2>4 DEF CallOK
      <3>2. r.next.epoch = r.observed.value.epoch + 1 /\ r.next.epoch <= MaxEpoch
        BY <1>2, <1>3, <1>5, <3>1 DEF JustifiedProposal, Record
      <3>. QED
        BY <1>3, <2>3, <2>5, <3>1, <3>2 DEF JustifiedProposal
    <2>7. CallOK(d)'
      BY <2>3, <2>4, <2>6 DEF CallOK, ReadJustified, FencingIsAcquire
    <2>. QED
      BY <1>4, <2>2, <2>7, CallStep
  <1>6. CASE ~(proved /\ r.observed.value.epoch < MaxEpoch)
    <2>1. call' = [call EXCEPT ![c] = Idle]
      BY <1>1, <1>6 DEF FencePrevious
    <2>2. CallOK(Idle)'
      BY <1>2, <1>4, IdleOK, CallStaysOK
    <2>. QED
      BY <1>4, <2>1, <2>2, IdleOK, CallStep
  <1>. QED
    BY <1>5, <1>6
(* The commit: what was true of the observed entry is true of the record.  *)
(* The compare-and-set writes what was justified, or nothing.              *)
LEMMA WriteInv ==
  ASSUME IInv, NEW c \in Callers, Write(c)
  PROVE  IInv'
  <1>. USE PlacementAssumption DEF IInv
  <1>1. PICK w \in Call : w = call[c]
    BY DEF TypeOK
  <1>2. /\ CallOK(w) /\ JustifiedProposal(w) /\ w.phase = "writing" /\ EntryOK(w.observed)
        /\ w.observed \in Entry /\ w.observed.value \in Record /\ w.next \in Record
        /\ clock \in Nat /\ clock' = clock /\ provedStopped' = provedStopped
    BY <1>1 DEF Write, TypeOK, CallOK, Call, Entry
  <1>3. call' = [call EXCEPT ![c] = Idle]
    BY DEF Write
  <1>4. CallOK(Idle)'
    BY <1>2, IdleOK, CallStaysOK
  <1>5. CASE ~StoreAccepts(w.observed)
    <2>1. UNCHANGED <<clock, stored, promised>>
      BY <1>1, <1>5 DEF Write
    <2>. QED
      BY <1>2, <1>3, <1>4, <2>1, IdleOK, CallStep DEF TypeOK
  <1>6. CASE StoreAccepts(w.observed)
    <2>. DEFINE tok == TokenOf(w.next)
               until == IF IsActive(w.next) THEN w.next.leaseExpiresAt ELSE 0
    <2>1. stored' = Written(w.observed, w.next) /\ promised' = [promised EXCEPT ![tok] = until]
      BY <1>1, <1>6 DEF Write
    <2>2. tok \in Token /\ w.next.state # "absent"
      <3>1. CASE w.op = "acquire"
        BY <1>2, <3>1 DEF JustifiedProposal, Token, TokenOf, IsActive, Record
      <3>2. CASE w.op \in {"renew", "release"}
        BY <1>2, <3>2 DEF JustifiedProposal, Continues, EntryOK, IsActive
      <3>. QED
        BY <1>2, <3>1, <3>2 DEF JustifiedProposal
    <2>3. stored' \in Entry /\ stored'.value = w.next
      BY <1>2, <2>1 DEF Written, TimestampAfter, Later, Entry, TypeOK
    <2>4. until \in Nat /\ w.next.leaseExpiresAt <= clock + LeaseMs
      BY <1>2 DEF CallOK, Record
    <2>5. EntryOK(stored)'
      BY <1>2, <2>2, <2>3, <2>4 DEF EntryOK
    <2>6. TypeOK'
      BY <1>2, <1>3, <2>1, <2>2, <2>3, <2>4, IdleOK DEF TypeOK
    <2>7. ASSUME NEW d \in Callers PROVE CallOK(call[d])'
      <3>1. CASE d = c
        BY <1>3, <1>4, <3>1 DEF TypeOK
      <3>2. CASE d # c
        BY <1>2, <1>3, <3>2, CallStaysOK DEF TypeOK
      <3>. QED
        BY <3>1, <3>2
    <2>8. GrantHonoured'
      <3>1. ASSUME NEW t \in Token, promised'[t] > clock
            PROVE  Holds(stored', t) /\ stored'.value.leaseExpiresAt >= promised'[t]
        <4>1. CASE t = tok
          BY <1>2, <2>1, <2>2, <2>3, <3>1, <4>1 DEF TypeOK, Holds, Record
        <4>2. CASE t # tok
          <5>1. Holds(stored, t) /\ stored.value.leaseExpiresAt > clock
            BY <1>2, <2>1, <2>2, <3>1, <4>2 DEF GrantHonoured, TypeOK, Entry, Record
          <5>2. stored.value = w.observed.value
            BY <1>6, <5>1 DEF StoreAccepts, Holds, IsActive
          <5>3. FALSE
            BY <1>2, <4>2, <5>1, <5>2 DEF JustifiedProposal, Continues, Holds, Record
          <5>. QED
            BY <5>3
        <4>. QED
          BY <4>1, <4>2
      <3>. QED
        BY <1>2, <3>1 DEF GrantHonoured
    <2>. QED
      BY <2>5, <2>6, <2>7, <2>8
  <1>. QED
    BY <1>5, <1>6

(* Deleting the authority withdraws the promise with the record.           *)
LEMMA DeleteInv ==
  ASSUME IInv, Delete
  PROVE  IInv'
  <1>. USE PlacementAssumption DEF IInv, Delete
  <1>1. TokenOf(stored.value) \in Token /\ clock \in Nat
    BY DEF EntryOK, TypeOK
  <1>2. TypeOK' /\ EntryOK(stored)'
    BY <1>1 DEF TypeOK, EntryOK, NoEntry, Entry, Record, Absent
  <1>3. \A d \in Callers : CallOK(call[d])'
    BY <1>1, CallStaysOK DEF TypeOK
  <1>4. GrantHonoured'
    BY <1>1 DEF GrantHonoured, Holds, TypeOK
  <1>. QED
    BY <1>2, <1>3, <1>4

(* Time passes: no lease becomes longer. *)
LEMMA TickInv ==
  ASSUME IInv, Tick
  PROVE  IInv'
  <1>. USE PlacementAssumption DEF IInv, Tick
  <1>1. clock \in Nat /\ clock' \in Nat /\ clock <= clock' /\ clock' \in 0 .. MaxClock
    BY DEF TypeOK
  <1>2. TypeOK' /\ EntryOK(stored)'
    BY <1>1 DEF TypeOK, EntryOK, Entry, Record
  <1>3. \A d \in Callers : CallOK(call[d])'
    BY <1>1, CallStaysOK DEF TypeOK
  <1>4. GrantHonoured'
    BY <1>1 DEF GrantHonoured, Holds, TypeOK
  <1>. QED
    BY <1>2, <1>3, <1>4

(* Every step of the authority keeps the inductive invariant.              *)
LEMMA NextInv == IInv /\ [Next]_placementVars => IInv'
  <1>1. ASSUME IInv, Next PROVE IInv'
    BY <1>1, ReadForAcquireInv, ReadForClaimInv, DecideInv, FencePreviousInv, WriteInv,
       DeleteInv, TickInv DEF Next
  <1>2. ASSUME IInv, UNCHANGED placementVars PROVE IInv'
    <2>1. TypeOK' /\ EntryOK(stored)' /\ GrantHonoured'
      BY <1>2 DEF IInv, placementVars, TypeOK, EntryOK, GrantHonoured, Holds
    <2>2. \A d \in Callers : CallOK(call[d])'
      BY <1>2, CallStaysOK, PlacementAssumption DEF IInv, placementVars, TypeOK
    <2>. QED
      BY <2>1, <2>2 DEF IInv
  <1>. QED
    BY <1>1, <1>2

(* Every variable keeps its type, and a record that exists names an owner  *)
(* and an epoch within the cap.                                            *)
THEOREM TypeCorrect == Spec => []TypeOK
  <1>1. IInv => TypeOK
    BY DEF IInv
  <1>. QED
    BY <1>1, InitInv, NextInv, PTL DEF Spec

(* What a call in flight proposes stays justified until it is written. *)
THEOREM ProposalsJustified == Spec => []InFlightJustified
  BY InitInv, NextInv, InFlightFromIInv, PTL DEF Spec

(* No granted lease is ever cut short by another caller, however its reads *)
(* and writes interleave with theirs.                                      *)
THEOREM GrantsHonoured == Spec => []GrantHonoured
  <1>1. IInv => GrantHonoured
    BY DEF IInv
  <1>. QED
    BY <1>1, InitInv, NextInv, PTL DEF Spec
-----------------------------------------------------------------------------
(* What a commit may do to the record, read off the justified proposal. *)
LEMMA CommitStep ==
  ASSUME IInv, NEW c \in Callers, Write(c), stored' # stored
  PROVE  /\ stored'.value \in Record /\ stored'.value.leaseExpiresAt <= clock + LeaseMs
         /\ stored'.value.revision = stored.value.revision + 1
         /\ \/ /\ IsActive(stored'.value) /\ stored'.value.owner \in Owners
               /\ stored'.value.epoch = stored.value.epoch + 1
               /\ IsActive(stored.value) =>
                    /\ stored.value.leaseExpiresAt <= clock
                    /\ TokenOf(stored.value) \in provedStopped
            \/ /\ IsActive(stored.value) /\ IsActive(stored'.value)
               /\ TokenOf(stored'.value) = TokenOf(stored.value)
               /\ stored'.value.leaseExpiresAt >= stored.value.leaseExpiresAt
            \/ /\ IsActive(stored.value) /\ stored'.value.state = "released"
               /\ TokenOf(stored'.value) = TokenOf(stored.value)
               /\ stored'.value.leaseExpiresAt = stored.value.leaseExpiresAt
               /\ promised'[TokenOf(stored.value)] = 0
  <1>. USE PlacementAssumption DEF IInv
  <1>1. PICK w \in Call : w = call[c]
    BY DEF TypeOK
  <1>2. /\ CallOK(w) /\ JustifiedProposal(w) /\ w.phase = "writing" /\ EntryOK(w.observed)
        /\ w.observed \in Entry /\ w.observed.value \in Record /\ w.next \in Record
    BY <1>1 DEF Write, TypeOK, CallOK, Call, Entry
  <1>3. StoreAccepts(w.observed) /\ stored' = Written(w.observed, w.next)
    BY <1>1 DEF Write
  <1>4. stored.value = w.observed.value
    BY <1>2, <1>3 DEF StoreAccepts, EntryOK
  <1>5. stored'.value = w.next /\ w.next.leaseExpiresAt <= clock + LeaseMs
    BY <1>2, <1>3 DEF Written, CallOK
  <1>6. w.op = "release" => promised'[TokenOf(stored.value)] = 0
    <2>1. CASE w.op = "release"
      <3>1. TokenOf(w.next) = TokenOf(stored.value) /\ ~IsActive(w.next)
        BY <1>2, <1>4, <2>1 DEF JustifiedProposal, Continues, IsActive
      <3>2. TokenOf(stored.value) \in Token
        BY <1>2, <1>4, <2>1 DEF JustifiedProposal, Continues, IsActive, EntryOK
      <3>. QED
        BY <1>1, <1>3, <3>1, <3>2 DEF Write, TypeOK
    <2>. QED
      BY <2>1
  <1>. QED
    BY <1>2, <1>4, <1>5, <1>6 DEF JustifiedProposal, Continues

(* Every other action leaves the record alone, or deletes it. *)
LEMMA RecordStep ==
  ASSUME IInv, [Next]_placementVars, stored' # stored
  PROVE  Delete \/ \E c \in Callers : Write(c)
  BY DEF Next, placementVars, ReadForAcquire, ReadForClaim, Decide, FencePrevious, Tick

(* A takeover is always preceded by the end of the lease and the proof that *)
(* the owner being superseded has stopped.                                  *)
THEOREM TakeoverIsProved == Spec => SupersededOnlyWhenProvedStopped
  <1>1. ASSUME IInv, [Next]_placementVars PROVE TakeoverProved
    <2>. SUFFICES ASSUME NEW t \in Token, Holds(stored, t), ~Holds(stored', t)
                  PROVE  \/ promised'[t] = 0
                         \/ t \in provedStopped /\ stored.value.leaseExpiresAt <= clock
      BY DEF TakeoverProved
    <2>1. CASE Delete
      BY <1>1, <2>1 DEF Delete, Holds, IInv, TypeOK
    <2>2. CASE \E c \in Callers : Write(c)
      BY <1>1, <2>2, CommitStep DEF Holds
    <2>. QED
      BY <1>1, <2>1, <2>2, RecordStep
  <1>. QED
    BY <1>1, InitInv, NextInv, PTL DEF Spec, SupersededOnlyWhenProvedStopped

(* Epochs and revisions never go back while the record exists, and an epoch *)
(* that is over stays over.                                                 *)
THEOREM EpochsAreHighWater == Spec => EpochIsHighWater
  <1>1. ASSUME IInv, [Next]_placementVars, stored' # stored,
               stored.value.state # "absent", stored'.value.state # "absent"
        PROVE  /\ stored'.value.revision = stored.value.revision + 1
               /\ \/ /\ stored'.value.epoch = stored.value.epoch /\ IsActive(stored.value)
                     /\ stored'.value.owner = stored.value.owner
                     /\ stored'.value.leaseExpiresAt >= stored.value.leaseExpiresAt
                  \/ stored'.value.epoch = stored.value.epoch + 1
    <2>1. PICK c \in Callers : Write(c)
      BY <1>1, RecordStep DEF Delete, NoEntry, Absent
    <2>2. stored.value.leaseExpiresAt \in Nat
      BY <1>1 DEF IInv, TypeOK, Entry, Record
    <2>. QED
      BY <1>1, <2>1, <2>2, CommitStep DEF TokenOf
  <1>. QED
    BY <1>1, InitInv, NextInv, PTL DEF Spec, EpochIsHighWater

(* The interleaved operations implement the one-step register. *)
THEOREM AuthorityImplementsRegister == Spec => ImplementsRegister
  <1>. DEFINE Reg == IF IsActive(stored.value)
           THEN [owner |-> stored.value.owner, epoch |-> stored.value.epoch,
                 until |-> stored.value.leaseExpiresAt]
           ELSE [owner |-> Nobody, epoch |-> stored.value.epoch, until |-> 0]
  <1>1. Init => Register!Init
    BY DEF Init, Register!Init, NoEntry, Absent, IsActive
  <1>2. ASSUME IInv, [Next]_placementVars PROVE [Register!Next]_(Register!vars)
    <2>. USE PlacementAssumption
    <2>1. CASE stored' = stored /\ clock' = clock
      <3>1. provedStopped \subseteq provedStopped'
        BY <1>2 DEF Next, placementVars, ReadForAcquire, ReadForClaim, Decide,
           FencePrevious, Write, Delete, Tick
      <3>. QED
        BY <2>1, <3>1 DEF Register!Next, Register!ProveStopped
    <2>2. CASE Tick
      BY <2>2 DEF Tick, Register!Next, Register!Tick
    <2>3. CASE Delete
      BY <2>3 DEF Delete, NoEntry, Absent, IsActive, Register!Next, Register!Forget
    <2>4. ASSUME NEW c \in Callers, Write(c), stored' # stored PROVE Register!Next
      <3>1. UNCHANGED <<clock, provedStopped>> /\ clock \in Nat /\ stored.value \in Record
        BY <1>2, <2>4 DEF Write, IInv, TypeOK, Entry
      <3>2. stored'.value \in Record /\ stored'.value.leaseExpiresAt <= clock + LeaseMs
        BY <1>2, <2>4, CommitStep
      <3>3. CASE /\ IsActive(stored'.value) /\ stored'.value.owner \in Owners
                 /\ stored'.value.epoch = stored.value.epoch + 1
                 /\ IsActive(stored.value) =>
                      /\ stored.value.leaseExpiresAt <= clock
                      /\ TokenOf(stored.value) \in provedStopped
        <4>1. stored'.value.leaseExpiresAt \in 0 .. clock + LeaseMs
          BY <3>1, <3>2 DEF Record
        <4>2. Reg' = [owner |-> stored'.value.owner, epoch |-> Reg.epoch + 1,
                      until |-> stored'.value.leaseExpiresAt]
          BY <3>3
        <4>3. Reg.owner = Nobody \/ (Reg.until <= clock
                /\ [owner |-> Reg.owner, epoch |-> Reg.epoch] \in provedStopped)
          BY <3>3 DEF TokenOf
        <4>4. Register!Grant(stored'.value.owner)
          BY <3>1, <4>1, <4>2, <4>3 DEF Register!Grant, Register!Free, Register!Holder
        <4>. QED
          BY <3>3, <4>4 DEF Register!Next
      <3>4. CASE /\ IsActive(stored.value) /\ IsActive(stored'.value)
                 /\ TokenOf(stored'.value) = TokenOf(stored.value)
                 /\ stored'.value.leaseExpiresAt >= stored.value.leaseExpiresAt
        <4>1. Reg.owner # Nobody
          BY <1>2, <3>4 DEF IInv, EntryOK, IsActive, Token, TokenOf
        <4>2. stored'.value.leaseExpiresAt \in Reg.until .. clock + LeaseMs
          BY <3>1, <3>2, <3>4 DEF Record
        <4>3. /\ stored'.value.owner = stored.value.owner
              /\ stored'.value.epoch = stored.value.epoch
          BY <3>4 DEF TokenOf
        <4>4. Reg' = [owner |-> stored.value.owner, epoch |-> stored.value.epoch,
                      until |-> stored'.value.leaseExpiresAt]
          BY <3>4, <4>3
        <4>5. Reg' = [Reg EXCEPT !.until = stored'.value.leaseExpiresAt]
          BY <3>4, <4>4
        <4>. QED
          BY <3>1, <4>1, <4>2, <4>5 DEF Register!Next, Register!Extend, Register!Free
      <3>5. CASE /\ IsActive(stored.value) /\ stored'.value.state = "released"
                 /\ TokenOf(stored'.value) = TokenOf(stored.value)
        <4>1. /\ Reg = [owner |-> stored.value.owner, epoch |-> stored.value.epoch,
                        until |-> stored.value.leaseExpiresAt]
              /\ Reg' = [owner |-> Nobody, epoch |-> stored.value.epoch, until |-> 0]
          BY <3>5 DEF IsActive, TokenOf
        <4>. QED
          BY <3>1, <4>1 DEF Register!Next, Register!Release
      <3>. QED
        BY <1>2, <2>4, <3>3, <3>4, <3>5, CommitStep
    <2>. QED
      BY <1>2, <2>1, <2>2, <2>3, <2>4, RecordStep
      DEF Next, placementVars, ReadForAcquire, ReadForClaim, Decide, FencePrevious, Write,
          Delete
  <1>. QED
    BY <1>1, <1>2, InitInv, NextInv, PTL DEF Spec, ImplementsRegister, Register!Spec

================================================================================
