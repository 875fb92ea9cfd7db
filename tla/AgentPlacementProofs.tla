-------------------------- MODULE AgentPlacementProofs --------------------------
(***************************************************************************)
(* Proofs about AgentPlacement, for every set of owners, callers and        *)
(* process slots and every value of the bounds.                             *)
(*                                                                         *)
(* The argument: an unsurrendered promise only grows, so a deadline derived *)
(* from a lease the authority once answered stays below what is promised    *)
(* (ProcOK), and GrantHonoured turns the promise into the record. Only the  *)
(* owner's release withdraws a promise, and no release runs beside a        *)
(* process of its placement.                                                *)
(***************************************************************************)
EXTENDS AgentPlacement, PlacementAuthorityProofs

(* The record carries what was promised last, and promises are never made  *)
(* ahead of it.                                                            *)
PromiseOK ==
  \A t \in Token :
    /\ Holds(stored, t) => promised[t] = stored.value.leaseExpiresAt /\ promised[t] > 0
    /\ promised[t] # 0 => t.epoch <= stored.value.epoch

RequestOK(r) ==
  /\ r.phase \in {"fencing", "writing"} /\ IsActive(r.next) => r.next.leaseExpiresAt > 0
  /\ r.op = "release" => Matches(r.observed.value, r.claim)

(* The promise to t is withdrawn, or still covers a lease until `until`. *)
Covered(t, until) == promised[t] = 0 \/ until <= promised[t]

Supervised(r) == r.phase \in {"checking", "spawning", "recording", "running", "stopping"}

ProcOK(r) ==
  /\ r.phase = "none" => r = NoProc
  /\ r.phase # "none" =>
       /\ r.token \in Token /\ r.token.epoch <= stored.value.epoch
       /\ Covered(r.token, r.deadline)
       /\ r.check # "no" => r.requestedAt <= clock /\ ~r.fenced /\ ~r.closed
       /\ r.check = "answered" =>
            /\ r.requestedAt <= r.authorityNow
            /\ IsActive(r.answer) /\ TokenOf(r.answer) = r.token =>
                 Covered(r.token, r.answer.leaseExpiresAt)
  /\ r.fenced => r.phase # "running"
  /\ Supervised(r) =>
       /\ promised[r.token] > 0
       /\ conn[r.token.owner] # "down"
       /\ \A c \in Callers : call[c].op = "release" => call[c].claim # r.token

USE DEF Ending

AgentInv ==
  /\ IInv
  /\ PromiseOK
  /\ \A c \in Callers : RequestOK(call[c])
  /\ AgentTypeOK
  /\ \A p \in Procs : ProcOK(proc[p])

-----------------------------------------------------------------------------
(* The initial state satisfies the inductive invariant. *)
LEMMA AgentInitInv == AgentInit => AgentInv
  <1>. SUFFICES ASSUME AgentInit PROVE AgentInv
    OBVIOUS
  <1>1. IInv
    BY InitInv DEF AgentInit
  <1>2. PromiseOK
    BY DEF AgentInit, Init, PromiseOK, Holds, NoEntry, Absent, IsActive
  <1>3. \A c \in Callers : RequestOK(call[c])
    BY DEF AgentInit, Init, RequestOK, Idle
  <1>4. NoProc \in Proc /\ ProcOK(NoProc)
    BY DEF NoProc, Proc, Phases, Absent, Record, TokenOf, ProcOK, Supervised
  <1>5. AgentTypeOK
    BY <1>4, AgentAssumption DEF AgentInit, AgentTypeOK, NoProc
  <1>. QED
    BY <1>1, <1>2, <1>3, <1>4, <1>5 DEF AgentInit, AgentInv

-----------------------------------------------------------------------------
(* What a commit does to the promises that were made before it. *)
LEMMA WriteKeepsPromises ==
  ASSUME AgentInv, NEW c \in Callers, Write(c)
  PROVE  /\ PromiseOK'
         /\ stored.value.epoch <= stored'.value.epoch
         /\ \A t \in Token : t.epoch <= stored.value.epoch =>
              \/ promised[t] <= promised'[t] /\ (promised[t] = 0 => promised'[t] = 0)
              \/ promised'[t] = 0 /\ call[c].op = "release" /\ call[c].claim = t
  <1>. USE PlacementAssumption DEF AgentInv, IInv
  <1>1. PICK w \in Call : w = call[c]
    BY DEF TypeOK
  <1>2. /\ CallOK(w) /\ JustifiedProposal(w) /\ w.phase = "writing" /\ RequestOK(w)
        /\ w.observed.value \in Record /\ w.next \in Record /\ EntryOK(w.observed)
    BY <1>1 DEF Write, TypeOK, CallOK, Call, Entry
  <1>3. promised \in [Token -> Nat] /\ stored.value \in Record
    BY DEF TypeOK, Entry
  <1>4. CASE ~StoreAccepts(w.observed)
    <2>1. UNCHANGED <<stored, promised>>
      BY <1>1, <1>4 DEF Write
    <2>. QED
      BY <1>3, <2>1 DEF PromiseOK, Holds, Record
  <1>5. CASE StoreAccepts(w.observed)
    <2>. DEFINE tok == TokenOf(w.next)
               until == IF IsActive(w.next) THEN w.next.leaseExpiresAt ELSE 0
    <2>1. stored' = Written(w.observed, w.next) /\ promised' = [promised EXCEPT ![tok] = until]
      BY <1>1, <1>5 DEF Write
    <2>2. stored'.value = w.next /\ stored.value = w.observed.value
      BY <1>2, <1>5, <2>1 DEF Written, StoreAccepts, EntryOK
    <2>3. /\ tok.epoch = w.next.epoch /\ tok.owner = w.next.owner
          /\ w.next.epoch \in Nat /\ w.next.leaseExpiresAt \in Nat
          /\ stored.value.epoch \in Nat /\ stored.value.leaseExpiresAt \in Nat
      BY <1>2, <1>3 DEF TokenOf, Record
    <2>4. CASE w.op = "acquire"
      <3>1. /\ IsActive(w.next) /\ tok.epoch = stored.value.epoch + 1 /\ until > 0
            /\ tok \in Token
        BY <1>2, <2>2, <2>3, <2>4 DEF JustifiedProposal, RequestOK, Token, TokenOf
      <3>2. ASSUME NEW t \in Token
            PROVE  /\ Holds(stored', t) => promised'[t] = stored'.value.leaseExpiresAt
                                           /\ promised'[t] > 0
                   /\ promised'[t] # 0 => t.epoch <= stored'.value.epoch
                   /\ t.epoch <= stored.value.epoch => promised'[t] = promised[t]
        <4>1. CASE t = tok
          BY <1>3, <2>1, <2>2, <2>3, <3>1, <4>1
        <4>2. CASE t # tok
          <5>1. promised'[t] = promised[t] /\ ~Holds(stored', t)
            BY <1>3, <2>1, <2>2, <4>2 DEF Holds
          <5>2. promised[t] # 0 => t.epoch <= stored.value.epoch
            BY DEF PromiseOK
          <5>3. t.epoch \in Int
            BY DEF Token
          <5>. QED
            BY <2>2, <2>3, <3>1, <5>1, <5>2, <5>3
        <4>. QED
          BY <4>1, <4>2
      <3>. QED
        BY <1>3, <2>2, <2>3, <3>1, <3>2 DEF PromiseOK
    <2>5. CASE w.op = "renew"
      <3>1. /\ IsActive(w.next) /\ IsActive(stored.value) /\ tok = TokenOf(stored.value)
            /\ until >= stored.value.leaseExpiresAt /\ until > 0
            /\ tok \in Token /\ tok.epoch = stored.value.epoch
        BY <1>2, <2>2, <2>3, <2>5 DEF JustifiedProposal, RequestOK, Continues, EntryOK,
           IsActive, TokenOf
      <3>2. promised[tok] = stored.value.leaseExpiresAt /\ promised[tok] > 0
        BY <3>1 DEF PromiseOK, Holds
      <3>3. ASSUME NEW t \in Token
            PROVE  /\ Holds(stored', t) => promised'[t] = stored'.value.leaseExpiresAt
                                           /\ promised'[t] > 0
                   /\ promised'[t] # 0 => t.epoch <= stored'.value.epoch
                   /\ promised[t] <= promised'[t] /\ (promised[t] = 0 => promised'[t] = 0)
        <4>1. CASE t = tok
          BY <1>3, <2>1, <2>2, <2>3, <3>1, <3>2, <4>1
        <4>2. CASE t # tok
          <5>1. promised'[t] = promised[t] /\ ~Holds(stored', t)
            BY <1>3, <2>1, <2>2, <4>2 DEF Holds
          <5>2. promised[t] # 0 => t.epoch <= stored.value.epoch
            BY DEF PromiseOK
          <5>3. promised[t] \in Nat
            BY <1>3
          <5>. QED
            BY <2>2, <2>3, <3>1, <5>1, <5>2, <5>3
        <4>. QED
          BY <4>1, <4>2
      <3>. QED
        BY <1>3, <2>2, <2>3, <3>1, <3>3 DEF PromiseOK
    <2>6. CASE w.op = "release"
      <3>1. /\ ~IsActive(w.next) /\ tok = TokenOf(stored.value) /\ until = 0
            /\ tok \in Token /\ tok.epoch = stored.value.epoch /\ w.claim = tok
        BY <1>2, <2>2, <2>3, <2>6 DEF JustifiedProposal, RequestOK, Continues, EntryOK,
           IsActive, TokenOf, Matches
      <3>2. ASSUME NEW t \in Token
            PROVE  /\ ~Holds(stored', t)
                   /\ promised'[t] # 0 => t.epoch <= stored'.value.epoch
                   /\ t # tok => promised'[t] = promised[t]
                   /\ t = tok => promised'[t] = 0
        BY <1>3, <2>1, <2>2, <2>3, <3>1 DEF PromiseOK, Holds, Token
      <3>. QED
        BY <1>1, <1>3, <2>2, <2>3, <2>6, <3>1, <3>2 DEF PromiseOK
    <2>. QED
      BY <1>2, <2>4, <2>5, <2>6 DEF JustifiedProposal
  <1>. QED
    BY <1>4, <1>5

-----------------------------------------------------------------------------
(* A slot's record stays good while promises grow or are surrendered by     *)
(* somebody it does not serve.                                              *)
LEMMA ProcStays ==
  ASSUME NEW r \in Proc, ProcOK(r), clock \in Nat, clock' \in Nat, clock <= clock',
         stored.value.epoch \in Nat, stored'.value.epoch \in Nat,
         stored.value.epoch <= stored'.value.epoch,
         promised \in [Token -> Nat], promised' \in [Token -> Nat],
         \A t \in Token : t.epoch <= stored.value.epoch =>
            \/ promised[t] <= promised'[t] /\ (promised[t] = 0 => promised'[t] = 0)
            \/ promised'[t] = 0 /\ ~(Supervised(r) /\ r.token = t),
         Supervised(r) =>
           /\ conn'[r.token.owner] # "down"
           /\ \A c \in Callers : call'[c].op = "release" => call'[c].claim # r.token
  PROVE  ProcOK(r)'
  <1>1. CASE r.phase = "none"
    BY <1>1 DEF ProcOK, Supervised, NoProc
  <1>2. CASE r.phase # "none"
    <2>1. r.token \in Token /\ r.token.epoch \in Int
      BY <1>2 DEF ProcOK, Token
    <2>2. \A until \in Int : Covered(r.token, until) => Covered(r.token, until)'
      BY <1>2, <2>1 DEF ProcOK, Covered
    <2>3. r.deadline \in Int /\ r.answer.leaseExpiresAt \in Int /\ r.requestedAt \in Int
      BY DEF Proc, Record
    <2>4. Supervised(r) => promised'[r.token] > 0
      BY <1>2, <2>1 DEF ProcOK
    <2>. QED
      BY <1>2, <2>1, <2>2, <2>3, <2>4 DEF ProcOK, Supervised
  <1>. QED
    BY <1>1, <1>2

(* A step that rewrites one slot. *)
LEMMA ProcStep ==
  ASSUME AgentInv, NEW p \in Procs, NEW r \in Proc, ProcOK(r),
         proc' = [proc EXCEPT ![p] = r],
         r.check # "no" => r.phase # "none",
         proc[p].phase \in Ending => r.phase \in Ending,
         UNCHANGED <<placementVars, conn, fencing, killing, crashes>>
  PROVE  AgentInv'
  <1>. USE DEF AgentInv, placementVars
  <1>1. IInv'
    BY NextInv
  <1>2. PromiseOK' /\ \A c \in Callers : RequestOK(call[c])'
    BY DEF PromiseOK, Holds, RequestOK
  <1>3. \A q \in Procs : ProcOK(proc[q])'
    BY DEF AgentTypeOK, ProcOK, Covered
  <1>4. AgentTypeOK'
    BY DEF AgentTypeOK, ProcOK, Open
  <1>. QED
    BY <1>1, <1>2, <1>3, <1>4

-----------------------------------------------------------------------------
(* What NotAsking, Fence and Extended do to a slot's record. *)
LEMMA NotAskingOK ==
  ASSUME NEW r \in Proc, ProcOK(r), r.phase # "none"
  PROVE  /\ NotAsking(r) \in Proc /\ ProcOK(NotAsking(r))
         /\ NotAsking(r).check = "no" /\ NotAsking(r).phase = r.phase
         /\ NotAsking(r).closed = r.closed
  BY DEF NotAsking, Proc, Record, Absent, ProcOK, Supervised, Covered

(* fence() leaves a sound slot, whatever the state of its process.         *)
LEMMA FenceOK ==
  ASSUME NEW r \in Proc, ProcOK(r), r.phase # "none"
  PROVE  /\ Fence(r) \in Proc /\ ProcOK(Fence(r)) /\ Fence(r).check = "no"
         /\ r.phase \in Ending => Fence(r).phase \in Ending
  <1>1. CASE r.phase = "checking"
    BY <1>1 DEF Fence, NoProc, Proc, Phases, Absent, Record, TokenOf, ProcOK, Supervised
  <1>2. CASE r.phase # "checking"
    <2>1. PICK q \in Proc : q = NotAsking(r)
      BY NotAskingOK
    <2>2. ProcOK(q) /\ q.check = "no" /\ q.phase = r.phase
      BY <2>1, NotAskingOK
    <2>3. PICK ph \in Phases : ph = IF q.phase = "running" THEN "stopping" ELSE q.phase
      BY DEF Phases, Proc
    <2>4. Fence(r) = [q EXCEPT !.fenced = TRUE, !.phase = ph]
      BY <1>2, <2>1, <2>3 DEF Fence
    <2>5. Fence(r) \in Proc
      BY <2>4 DEF Proc
    <2>. QED
      BY <1>2, <2>2, <2>3, <2>4, <2>5 DEF ProcOK, Supervised, Covered, Proc
  <1>. QED
    BY <1>1, <1>2

(* An accepted reply leaves a deadline the authority has promised.         *)
LEMMA ExtendedOK ==
  ASSUME NEW r \in Proc, ProcOK(r), r.check = "answered", Acceptable(r), clock \in Nat,
         promised \in [Token -> Nat]
  PROVE  /\ Extended(r) \in Proc /\ ProcOK(Extended(r)) /\ Extended(r).phase # "none"
         /\ r.phase \in Ending =>
              Extended(r).phase \in Ending
  <1>1. /\ r.phase # "none" /\ r.token \in Token /\ ~r.fenced /\ ~r.closed
        /\ r.requestedAt \in Nat /\ r.authorityNow \in Nat /\ r.published \in Int
        /\ r.answer.leaseExpiresAt \in Nat /\ r.deadline \in Int
        /\ r.requestedAt <= r.authorityNow
    BY DEF ProcOK, NoProc, Proc, Record
  <1>2. ProposedDeadline(r) \in Int /\ ProposedDeadline(r) <= r.answer.leaseExpiresAt
    BY <1>1 DEF ProposedDeadline
  <1>3. Covered(r.token, r.answer.leaseExpiresAt) /\ Covered(r.token, r.deadline)
    BY <1>1 DEF ProcOK, Acceptable
  <1>4. Covered(r.token, ProposedDeadline(r))
    BY <1>1, <1>2, <1>3 DEF Covered
  <1>5. PICK q \in Proc : q = NotAsking(r)
    BY <1>1, NotAskingOK
  <1>6. /\ ProcOK(q) /\ q.check = "no" /\ q.phase = r.phase /\ ~q.fenced
        /\ q.token = r.token /\ q.deadline = r.deadline /\ q.published = r.published
    BY <1>1, <1>5, NotAskingOK DEF NotAsking, Proc
  <1>7. PICK d \in Int :
          /\ d = IF r.answer.leaseExpiresAt > r.published \/ ProposedDeadline(r) < r.deadline
                   THEN ProposedDeadline(r) ELSE r.deadline
          /\ Covered(r.token, d)
    BY <1>1, <1>2, <1>3, <1>4
  <1>8. PICK pub \in Int : pub = Later(r.published, r.answer.leaseExpiresAt)
    BY <1>1 DEF Later
  <1>9. PICK ph \in Phases : ph = IF r.phase = "checking" THEN "spawning" ELSE r.phase
    BY DEF Phases, Proc
  <1>10. Extended(r) = [q EXCEPT !.deadline = d, !.published = pub, !.phase = ph]
    BY <1>5, <1>6, <1>7, <1>8, <1>9 DEF Extended
  <1>11. Extended(r) \in Proc
    BY <1>10 DEF Proc
  <1>. QED
    BY <1>1, <1>6, <1>7, <1>9, <1>10, <1>11 DEF ProcOK, Supervised, Proc

-----------------------------------------------------------------------------
(* One lemma per action of the Agent: the inductive invariant is preserved. *)
LEMMA StartRequestInv ==
  ASSUME AgentInv, NEW p \in Procs, NEW token \in Token, StartRequest(p, token),
         UNCHANGED placementVars
  PROVE  AgentInv'
  <1>. DEFINE r == [NoProc EXCEPT
                      !.phase = "checking", !.token = token, !.driver = token.owner,
                      !.check = "asked", !.requestedAt = clock]
  <1>. USE DEF AgentInv, StartRequest
  <1>1. /\ clock \in Nat /\ stored.value.epoch \in Nat /\ promised[token] \in Nat
        /\ token.epoch = stored.value.epoch
    BY PlacementAssumption DEF IInv, TypeOK, Holds, TokenOf, Entry, Record
  <1>2. r \in Proc
    <2>1. NoProc \in Proc
      BY DEF NoProc, Proc, Phases, Absent, Record, TokenOf
    <2>2. token \in [owner : Owners \cup {Nobody}, epoch : Nat]
          /\ token.owner \in Owners
      BY DEF Token
    <2>. QED
      BY <1>1, <2>1, <2>2 DEF Proc, Phases
  <1>3. promised[token] > 0
    BY DEF PromiseOK
  <1>4. ProcOK(r)
    BY <1>1, <1>3 DEF ProcOK, NoProc, Covered, Supervised
  <1>5. proc' = [proc EXCEPT ![p] = r] /\ r.phase = "checking"
    BY DEF NoProc
  <1>6. proc[p].phase = "none"
    BY DEF NoProc
  <1>. QED
    BY <1>2, <1>4, <1>5, <1>6, ProcStep

(* Asking the authority records when the question was asked.               *)
LEMMA CheckAskInv ==
  ASSUME AgentInv, NEW p \in Procs, CheckAsk(p), UNCHANGED placementVars
  PROVE  AgentInv'
  <1>. USE DEF AgentInv, CheckAsk
  <1>1. PICK q \in Proc : q = proc[p]
    BY DEF AgentTypeOK
  <1>. DEFINE r == [q EXCEPT !.check = "asked", !.requestedAt = clock]
  <1>2. clock \in Nat /\ ProcOK(q) /\ q.phase # "none" /\ ~q.fenced /\ ~q.closed
    BY <1>1, PlacementAssumption DEF IInv, TypeOK, Open
  <1>3. r \in Proc /\ r.phase = q.phase
    BY <1>2 DEF Proc
  <1>4. ProcOK(r)
    BY <1>2 DEF ProcOK, Supervised, Proc, Covered
  <1>5. proc' = [proc EXCEPT ![p] = r]
    BY <1>1
  <1>. QED
    BY <1>1, <1>2, <1>3, <1>4, <1>5, ProcStep

(* The read answers with the record and the clock of one moment.           *)
LEMMA CheckReadInv ==
  ASSUME AgentInv, NEW p \in Procs, CheckRead(p), UNCHANGED placementVars
  PROVE  AgentInv'
  <1>. USE DEF AgentInv, CheckRead
  <1>1. PICK q \in Proc : q = proc[p]
    BY DEF AgentTypeOK
  <1>. DEFINE r == [q EXCEPT !.check = "answered", !.answer = stored.value,
                             !.authorityNow = clock]
  <1>2. /\ clock \in Nat /\ ProcOK(q) /\ q.phase # "none" /\ stored.value \in Record
        /\ q.token \in Token
    BY <1>1, PlacementAssumption DEF IInv, TypeOK, Entry, ProcOK, NoProc
  <1>3. r \in Proc /\ r.phase = q.phase
    BY <1>2 DEF Proc
  <1>4. Holds(stored, q.token) => Covered(q.token, stored.value.leaseExpiresAt)
    BY <1>2 DEF PromiseOK, Covered, Record
  <1>5. ProcOK(r)
    BY <1>1, <1>2, <1>4 DEF ProcOK, Supervised, Proc, Covered, Holds
  <1>6. proc' = [proc EXCEPT ![p] = r]
    BY <1>1
  <1>. QED
    BY <1>1, <1>2, <1>3, <1>5, <1>6, ProcStep

(* Fencing a slot in use, for whatever reason. *)
LEMMA FenceSlotInv ==
  ASSUME AgentInv, NEW p \in Procs, proc[p].phase # "none",
         proc' = [proc EXCEPT ![p] = Fence(proc[p])],
         UNCHANGED placementVars, UNCHANGED <<conn, fencing, killing, crashes>>
  PROVE  AgentInv'
  <1>. USE DEF AgentInv
  <1>1. PICK q \in Proc : q = proc[p]
    BY DEF AgentTypeOK
  <1>2. ProcOK(q)
    BY <1>1
  <1>3. PICK r \in Proc : r = Fence(q)
    BY <1>1, <1>2, FenceOK
  <1>4. ProcOK(r) /\ r.check = "no"
        /\ (q.phase \in Ending => r.phase \in Ending)
    BY <1>1, <1>2, <1>3, FenceOK
  <1>. QED
    BY <1>1, <1>3, <1>4, ProcStep DEF placementVars

(* A read that fails fences its slot.                                      *)
LEMMA ReadFailsInv ==
  ASSUME AgentInv, NEW p \in Procs, ReadFails(p), UNCHANGED placementVars
  PROVE  AgentInv'
  <1>1. proc[p].phase # "none"
    BY DEF AgentInv, ReadFails, ProcOK, NoProc
  <1>. QED
    BY <1>1, FenceSlotInv DEF ReadFails

(* The deadline timer fences its slot.                                     *)
LEMMA ExpiryFiresInv ==
  ASSUME AgentInv, NEW p \in Procs, ExpiryFires(p), UNCHANGED placementVars
  PROVE  AgentInv'
  BY FenceSlotInv DEF ExpiryFires, Open

(* A reply extends the deadline or fences the slot.                        *)
LEMMA CheckReplyInv ==
  ASSUME AgentInv, NEW p \in Procs, CheckReply(p), UNCHANGED placementVars
  PROVE  AgentInv'
  <1>. USE DEF AgentInv, CheckReply
  <1>1. PICK q \in Proc : q = proc[p]
    BY DEF AgentTypeOK
  <1>2. /\ ProcOK(q) /\ q.check = "answered" /\ q.phase # "none"
        /\ clock \in Nat /\ promised \in [Token -> Nat]
    BY <1>1, PlacementAssumption DEF IInv, TypeOK, ProcOK, NoProc
  <1>3. CASE Acceptable(q)
    <2>1. PICK r \in Proc : r = Extended(q)
      BY <1>2, <1>3, ExtendedOK
    <2>2. /\ ProcOK(r) /\ r.phase # "none"
          /\ q.phase \in Ending => r.phase \in Ending
      BY <1>2, <1>3, <2>1, ExtendedOK
    <2>3. proc' = [proc EXCEPT ![p] = r]
      BY <1>1, <1>3, <2>1
    <2>. QED
      BY <1>1, <2>2, <2>3, ProcStep
  <1>4. CASE ~Acceptable(q)
    BY <1>1, <1>2, <1>4, FenceSlotInv
  <1>. QED
    BY <1>3, <1>4

(* A process that moves on to its next phase and changes nothing else. *)
LEMMA PhaseMoveInv ==
  ASSUME AgentInv, NEW p \in Procs, NEW phase \in Phases, phase # "none",
         proc[p].phase # "none",
         proc' = [proc EXCEPT ![p].phase = phase],
         phase \in {"recording", "running", "stopping"} => Supervised(proc[p]),
         phase \notin {"checking", "spawning"},
         phase = "running" => ~proc[p].fenced,
         proc[p].phase \notin Ending,
         UNCHANGED placementVars, UNCHANGED <<conn, fencing, killing, crashes>>
  PROVE  AgentInv'
  <1>. USE DEF AgentInv
  <1>1. PICK q \in Proc : q = proc[p]
    BY DEF AgentTypeOK
  <1>. DEFINE r == [q EXCEPT !.phase = phase]
  <1>2. ProcOK(q) /\ q.phase # "none"
    BY <1>1
  <1>3. r \in Proc /\ r.phase = phase
    BY DEF Proc
  <1>4. ProcOK(r)
    BY <1>1, <1>2 DEF ProcOK, Supervised, Proc, Covered
  <1>5. proc' = [proc EXCEPT ![p] = r]
    BY <1>1
  <1>. QED
    BY <1>1, <1>3, <1>4, <1>5, ProcStep DEF placementVars

(* The sweep only signals what an earlier Agent left.                      *)
LEMMA ReclaimOrphanInv ==
  ASSUME AgentInv, NEW p \in Procs, ReclaimOrphan(p), UNCHANGED placementVars
  PROVE  AgentInv'
  BY PhaseMoveInv DEF ReclaimOrphan, Phases

(* Spawning moves a slot on without touching its lease.                    *)
LEMMA SpawnInv ==
  ASSUME AgentInv, NEW p \in Procs, Spawn(p), UNCHANGED placementVars
  PROVE  AgentInv'
  BY PhaseMoveInv DEF Spawn, Phases, Supervised

(* A start that completes runs, or stops when it was fenced.               *)
LEMMA RecordedInv ==
  ASSUME AgentInv, NEW p \in Procs, Recorded(p), UNCHANGED placementVars
  PROVE  AgentInv'
  <1>1. CASE proc[p].fenced
    BY <1>1, PhaseMoveInv DEF Recorded, Phases, Supervised
  <1>2. CASE ~proc[p].fenced
    BY <1>2, PhaseMoveInv DEF Recorded, Phases, Supervised
  <1>. QED
    BY <1>1, <1>2

(* An exit nobody has heard leaves its supervisor as it is.                *)
LEMMA ExitBeforeListeningInv ==
  ASSUME AgentInv, NEW p \in Procs, ExitBeforeListening(p), UNCHANGED placementVars
  PROVE  AgentInv'
  BY PhaseMoveInv DEF ExitBeforeListening, Phases, Ending

(* Stopping an abandoned process only signals it.                          *)
LEMMA ReclaimAbandonedInv ==
  ASSUME AgentInv, NEW p \in Procs, ReclaimAbandoned(p), UNCHANGED placementVars
  PROVE  AgentInv'
  BY PhaseMoveInv DEF ReclaimAbandoned, Abandoned, Phases, Supervised

(* RecordFails and StopRequest close the supervisor first. *)
LEMMA CloseSlotInv ==
  ASSUME AgentInv, NEW p \in Procs, NEW phase \in Ending,
         proc[p].phase # "none",
         phase = "stopping" => Supervised(proc[p]),
         proc' = [proc EXCEPT ![p] =
           [NotAsking(proc[p]) EXCEPT !.phase = phase, !.closed = TRUE]],
         UNCHANGED placementVars, UNCHANGED <<conn, fencing, killing, crashes>>
  PROVE  AgentInv'
  <1>. USE DEF AgentInv
  <1>1. PICK q \in Proc : q = NotAsking(proc[p])
    BY NotAskingOK DEF AgentTypeOK
  <1>2. ProcOK(q) /\ q.check = "no" /\ q.phase = proc[p].phase /\ q.token = proc[p].token
    <2>1. PICK o \in Proc : o = proc[p]
      BY DEF AgentTypeOK
    <2>. QED
      BY <1>1, <2>1, NotAskingOK DEF NotAsking, Proc
  <1>. DEFINE r == [q EXCEPT !.phase = phase, !.closed = TRUE]
  <1>3. r \in Proc /\ r.phase = phase /\ r.check = "no"
    BY <1>2 DEF Proc, Phases
  <1>4. ProcOK(r)
    BY <1>2, <1>3 DEF ProcOK, Supervised, Proc, Covered
  <1>5. proc' = [proc EXCEPT ![p] = r]
    BY <1>1
  <1>. QED
    BY <1>3, <1>4, <1>5, ProcStep DEF placementVars

(* A record that cannot be written closes the supervisor.                  *)
LEMMA RecordFailsInv ==
  ASSUME AgentInv, NEW p \in Procs, RecordFails(p), UNCHANGED placementVars
  PROVE  AgentInv'
  BY CloseSlotInv DEF RecordFails, Supervised

(* The stop handler closes the supervisor and signals the child.           *)
LEMMA StopRequestInv ==
  ASSUME AgentInv, NEW p \in Procs, StopRequest(p), UNCHANGED placementVars
  PROVE  AgentInv'
  <1>1. CASE proc[p].phase = "unheard"
    BY <1>1, CloseSlotInv DEF StopRequest
  <1>2. CASE proc[p].phase # "unheard"
    BY <1>2, CloseSlotInv DEF StopRequest, Supervised
  <1>. QED
    BY <1>1, <1>2

(* A booting Platform takes over a process and its lease alone.            *)
LEMMA AttachInv ==
  ASSUME AgentInv, NEW o \in Owners, NEW p \in Procs, Attach(o, p), UNCHANGED placementVars
  PROVE  AgentInv'
  <1>. USE DEF AgentInv, Attach
  <1>1. PICK q \in Proc : q = proc[p]
    BY DEF AgentTypeOK
  <1>. DEFINE r == [q EXCEPT !.driver = o]
  <1>2. ProcOK(q) /\ q.phase \in {"running", "unheard"}
    BY <1>1 DEF Abandoned
  <1>3. r \in Proc /\ r.phase = q.phase
    BY DEF Proc
  <1>4. ProcOK(r)
    BY <1>2 DEF ProcOK, Supervised, Proc, Covered
  <1>5. proc' = [proc EXCEPT ![p] = r]
    BY <1>1
  <1>. QED
    BY <1>1, <1>2, <1>3, <1>4, <1>5, ProcStep

(* A step of the Agent that touches several slots, or a connection. *)
LEMMA SlotsStep ==
  ASSUME AgentInv, UNCHANGED placementVars, AgentTypeOK',
         \A p \in Procs : ProcOK(proc[p])'
  PROVE  AgentInv'
  <1>1. IInv'
    BY NextInv DEF AgentInv
  <1>2. PromiseOK' /\ \A c \in Callers : RequestOK(call[c])'
    BY DEF AgentInv, placementVars, PromiseOK, Holds, RequestOK
  <1>. QED
    BY <1>1, <1>2 DEF AgentInv

(* An exit frees the slot, and every fence that waits for it.              *)
LEMMA ExitInv ==
  ASSUME AgentInv, NEW p \in Procs, Exit(p), UNCHANGED placementVars
  PROVE  AgentInv'
  <1>1. NoProc \in Proc /\ ProcOK(NoProc)
    BY DEF NoProc, Proc, Phases, Absent, Record, TokenOf, ProcOK, Supervised
  <1>2. AgentTypeOK'
    BY <1>1 DEF AgentInv, AgentTypeOK, Exit, Open, NoProc
  <1>3. \A q \in Procs : ProcOK(proc[q])'
    BY <1>1 DEF AgentInv, AgentTypeOK, Exit, placementVars, ProcOK, Covered
  <1>. QED
    BY <1>2, <1>3, SlotsStep

(* A fence signals what it sees and waits for exactly that.                *)
LEMMA AgentFenceKillInv ==
  ASSUME AgentInv, NEW c \in Callers, AgentFenceKill(c), UNCHANGED placementVars
  PROVE  AgentInv'
  <1>. USE DEF AgentInv
  <1>1. ASSUME NEW p \in Procs
        PROVE  /\ proc'[p] \in Proc /\ ProcOK(proc[p])'
               /\ proc'[p].phase = "none" => proc'[p] = NoProc
               /\ proc'[p].phase # "none" => proc'[p].token \in Token
               /\ proc'[p].check # "no" => Open(p)'
               /\ p \in Visible => proc'[p].phase \in Ending
               /\ proc[p].phase \in Ending =>
                    proc'[p].phase \in Ending
    <2>1. PICK q \in Proc : q = proc[p]
      BY DEF AgentTypeOK
    <2>2. ProcOK(q)
      BY <2>1
    <2>. USE <2>1, <2>2 DEF AgentFenceKill, placementVars
    <2>3. PICK phase \in Phases :
            phase = IF q.phase = "running" THEN "stopping"
                    ELSE IF q.phase = "orphan" THEN "dying" ELSE q.phase
      BY DEF Phases, Proc
    <2>. DEFINE r == [q EXCEPT !.phase = phase]
    <2>4. proc'[p] = r
      BY <2>3 DEF Proc
    <2>5. r \in Proc /\ r.phase = phase
      BY DEF Proc
    <2>6. ProcOK(r)
      BY <2>3 DEF ProcOK, Supervised, Proc, Covered, NoProc
    <2>7. ProcOK(r)'
      BY <2>6 DEF ProcOK, Covered
    <2>8. proc'[p] \in Proc /\ ProcOK(proc[p])'
      BY <2>4, <2>5, <2>7
    <2>9. /\ r.phase = "none" => r = NoProc
          /\ r.phase # "none" => r.token \in Token
          /\ r.check # "no" => r.phase # "none" /\ ~r.fenced /\ ~r.closed
      BY <2>5, <2>6 DEF ProcOK, NoProc
    <2>10. /\ p \in Visible => r.phase \in Ending
           /\ q.phase \in Ending => r.phase \in Ending
      BY <2>3, <2>5 DEF Visible
    <2>. QED
      BY <2>4, <2>8, <2>9, <2>10 DEF Open
  <1>2. /\ proc' = [p \in Procs |-> proc'[p]]
        /\ killing' \in [Callers -> SUBSET Procs]
        /\ killing'[c] = Visible
        /\ \A d \in Callers : d # c => killing'[d] = killing[d]
        /\ fencing' = fencing \cup {c}
    BY DEF AgentFenceKill, AgentTypeOK, Visible
  <1>3. AgentTypeOK'
    BY <1>1, <1>2 DEF AgentTypeOK, AgentFenceKill, Visible
  <1>. QED
    BY <1>1, <1>3, SlotsStep

(* A connection comes up, or its Platform dies: no slot is touched. *)
LEMMA ConnectionInv ==
  ASSUME AgentInv, UNCHANGED placementVars, NEW o \in Owners, Connect(o) \/ PlatformDies(o)
  PROVE  AgentInv'
  <1>1. AgentTypeOK'
    BY DEF AgentInv, AgentTypeOK, Connect, PlatformDies, Open
  <1>2. \A p \in Procs : proc'[p] = proc[p] /\ ProcOK(proc[p]) /\ proc[p] \in Proc
    BY DEF AgentInv, AgentTypeOK, Connect, PlatformDies
  <1>3. \A t \in Token : conn[t.owner] # "down" => conn'[t.owner] # "down"
    BY DEF AgentInv, AgentTypeOK, Connect, PlatformDies, Token
  <1>4. \A p \in Procs : ProcOK(proc[p])'
    BY <1>2, <1>3 DEF ProcOK, Covered, Supervised, placementVars
  <1>. QED
    BY <1>1, <1>4, SlotsStep

(* An Agent crash leaves no slot supervised. *)
LEMMA AgentCrashInv ==
  ASSUME AgentInv, AgentCrash, UNCHANGED placementVars
  PROVE  AgentInv'
  <1>. USE DEF AgentInv
  <1>1. ASSUME NEW p \in Procs
        PROVE  /\ proc'[p] \in Proc /\ ProcOK(proc[p])'
               /\ proc'[p].phase = "none" => proc'[p] = NoProc
               /\ proc'[p].phase # "none" => proc'[p].token \in Token
               /\ proc'[p].check = "no"
    <2>1. PICK q \in Proc : q = proc[p]
      BY DEF AgentTypeOK
    <2>2. ProcOK(q)
      BY <2>1
    <2>3. NoProc \in Proc /\ ProcOK(NoProc)'
      BY DEF NoProc, Proc, Phases, Absent, Record, TokenOf, ProcOK, Supervised
    <2>4. CASE q.phase \in {"none", "checking", "spawning", "unheard"}
      <3>1. proc'[p] = NoProc
        BY <2>1, <2>4 DEF AgentCrash
      <3>. QED
        BY <2>3, <3>1 DEF NoProc
    <2>5. CASE q.phase \in {"recording", "running", "stopping", "dying", "orphan", "stray"}
      <3>1. PICK phase \in {"orphan", "stray", "dying"} :
              proc'[p] = [NoProc EXCEPT !.phase = phase, !.token = q.token]
        BY <2>1, <2>5 DEF AgentCrash
      <3>2. PICK r \in Proc : r = [NoProc EXCEPT !.phase = phase, !.token = q.token]
        BY <2>3 DEF Proc, Phases
      <3>3. /\ r.phase = phase /\ r.token = q.token /\ r.deadline = -1 /\ r.check = "no"
            /\ ~r.fenced
        BY <2>3, <3>2 DEF Proc, NoProc
      <3>4. q.token \in Token /\ q.token.epoch <= stored.value.epoch
            /\ promised[q.token] \in Nat
        BY <2>2, <2>5 DEF ProcOK, IInv, TypeOK
      <3>5. ProcOK(r)'
        BY <3>3, <3>4 DEF ProcOK, Supervised, Covered, placementVars
      <3>. QED
        BY <3>1, <3>2, <3>3, <3>4, <3>5
    <2>. QED
      BY <2>4, <2>5 DEF Proc, Phases
  <1>2. proc' = [p \in Procs |-> proc'[p]]
    BY DEF AgentCrash
  <1>3. conn' \in [Owners -> {"new", "up", "down", "dead"}]
    BY DEF AgentCrash, AgentTypeOK
  <1>4. proc' \in [Procs -> Proc]
    BY <1>1, <1>2
  <1>5. fencing' = {} /\ killing' = [c \in Callers |-> {}]
    BY DEF AgentCrash
  <1>6. crashes' \in 0 .. MaxCrashes
    <2>1. crashes' = crashes + 1 /\ crashes < MaxCrashes /\ crashes \in 0 .. MaxCrashes
      BY DEF AgentCrash, AgentTypeOK
    <2>. QED
      BY <2>1, AgentAssumption
  <1>7. AgentTypeOK'
    BY <1>1, <1>3, <1>4, <1>5, <1>6 DEF AgentTypeOK
  <1>. QED
    BY <1>1, <1>7, SlotsStep

-----------------------------------------------------------------------------
(* A step of the authority, seen from the slots: promises grow or are       *)
(* surrendered by a release, and no release runs beside a process of its    *)
(* placement.                                                               *)
LEMMA AuthorityKeepsSlots ==
  ASSUME AgentInv, IInv', PromiseOK', AgentTypeOK', UNCHANGED <<proc, conn>>,
         \A c \in Callers : RequestOK(call[c])',
         clock <= clock', stored.value.epoch <= stored'.value.epoch,
         \A t \in Token : t.epoch <= stored.value.epoch =>
            \/ promised[t] <= promised'[t] /\ (promised[t] = 0 => promised'[t] = 0)
            \/ promised'[t] = 0 /\ \E c \in Callers :
                                     call[c].op = "release" /\ call[c].claim = t,
         \A p \in Procs, c \in Callers :
            Supervised(proc[p]) /\ call'[c].op = "release" =>
              call'[c].claim # proc[p].token
  PROVE  AgentInv'
  <1>1. /\ clock \in Nat /\ clock' \in Nat /\ stored.value.epoch \in Nat
        /\ stored'.value.epoch \in Nat /\ promised \in [Token -> Nat]
        /\ promised' \in [Token -> Nat]
    BY PlacementAssumption DEF AgentInv, IInv, TypeOK, Entry, Record
  <1>2. ASSUME NEW p \in Procs PROVE ProcOK(proc[p])'
    <2>1. PICK r \in Proc : r = proc[p]
      BY DEF AgentInv, AgentTypeOK
    <2>2. ProcOK(r)
      BY <2>1 DEF AgentInv
    <2>3. \A t \in Token : t.epoch <= stored.value.epoch =>
            \/ promised[t] <= promised'[t] /\ (promised[t] = 0 => promised'[t] = 0)
            \/ promised'[t] = 0 /\ ~(Supervised(r) /\ r.token = t)
      BY <2>2 DEF ProcOK
    <2>4. Supervised(r) =>
            /\ conn'[r.token.owner] # "down"
            /\ \A c \in Callers : call'[c].op = "release" => call'[c].claim # r.token
      BY <2>1, <2>2 DEF ProcOK
    <2>5. ProcOK(r)'
      BY <1>1, <2>2, <2>3, <2>4, ProcStays
    <2>. QED
      BY <2>1, <2>5
  <1>. QED
    BY <1>2 DEF AgentInv

(* A step that moves one call and leaves record, promises and clock alone. *)
LEMMA CallMoves ==
  ASSUME AgentInv, NEW c \in Callers, NEW r \in Call, RequestOK(r),
         [Next]_placementVars, call' = [call EXCEPT ![c] = r],
         UNCHANGED <<clock, stored, promised, proc, conn, crashes>>, AgentTypeOK',
         r.op = "release" =>
           \A p \in Procs : Supervised(proc[p]) => r.claim # proc[p].token
  PROVE  AgentInv'
  <1>. USE DEF AgentInv
  <1>1. IInv' /\ IInv /\ call \in [Callers -> Call] /\ clock \in Int /\ promised \in [Token -> Nat]
        /\ stored.value.epoch \in Nat
    BY NextInv, PlacementAssumption DEF IInv, TypeOK, Entry, Record
  <1>2. PromiseOK'
    BY DEF PromiseOK, Holds
  <1>3. \A d \in Callers : RequestOK(call[d])'
    BY <1>1 DEF RequestOK
  <1>4. \A p \in Procs, d \in Callers :
          Supervised(proc[p]) /\ call'[d].op = "release" => call'[d].claim # proc[p].token
    BY <1>1 DEF ProcOK, Supervised
  <1>5. \A t \in Token : promised[t] <= promised'[t] /\ (promised[t] = 0 => promised'[t] = 0)
    BY <1>1
  <1>. QED
    BY <1>1, <1>2, <1>3, <1>4, <1>5, AuthorityKeepsSlots

(* The slots' types do not depend on the authority. *)
LEMMA AgentTypeStays ==
  ASSUME AgentTypeOK, UNCHANGED agentVars
  PROVE  AgentTypeOK'
  BY DEF AgentTypeOK, agentVars, Open

(* An acquire that reads the record touches no process.                    *)
LEMMA AcquireRequestInv ==
  ASSUME AgentInv, NEW c \in Callers, NEW o \in Owners, AcquireRequest(c, o),
         UNCHANGED agentVars
  PROVE  AgentInv'
  <1>. USE DEF AgentInv, AcquireRequest, ReadForAcquire
  <1>1. PICK r \in Call : /\ call' = [call EXCEPT ![c] = r]
                          /\ r.op = "acquire" /\ r.phase = "read"
    <2>1. stored \in Entry /\ Absent \in Record
      BY DEF IInv, TypeOK, Absent, Record
    <2>. DEFINE r == [op |-> "acquire", phase |-> "read",
                      claim |-> [owner |-> o, epoch |-> stored.value.epoch],
                      observed |-> stored, next |-> Absent]
    <2>2. r \in Call
      BY <2>1 DEF Call, Entry, Record
    <2>. QED
      BY <2>2
  <1>2. RequestOK(r)
    BY <1>1 DEF RequestOK
  <1>3. [Next]_placementVars
    BY DEF Next
  <1>. QED
    BY <1>1, <1>2, <1>3, AgentTypeStays, CallMoves DEF agentVars

(* renew and release; a release is asked for when no process of its         *)
(* placement is left, or by a Platform that is cut off from the Agent.      *)
LEMMA ClaimRequestInv ==
  ASSUME AgentInv, NEW c \in Callers, NEW t \in Token,
         RenewRequest(c, t) \/ ReleaseRequest(c, t), UNCHANGED agentVars
  PROVE  AgentInv'
  <1>. USE DEF AgentInv
  <1>1. PICK op \in {"renew", "release"} :
          /\ ReadForClaim(c, op, t)
          /\ op = "release" => conn[t.owner] = "down" \/ \A p \in Procs : proc[p].token # t
    BY DEF RenewRequest, ReleaseRequest
  <1>2. PICK r \in Call : /\ call' = [call EXCEPT ![c] = r]
                          /\ r.op = op /\ r.phase = "read" /\ r.claim = t
                          /\ r.observed = stored
    <2>1. stored \in Entry /\ Absent \in Record
      BY DEF IInv, TypeOK, Absent, Record
    <2>. DEFINE r == [op |-> op, phase |-> "read", claim |-> t,
                      observed |-> stored, next |-> Absent]
    <2>2. r \in Call
      BY <2>1 DEF Call, Entry, Record, Token
    <2>. QED
      BY <1>1, <2>2 DEF ReadForClaim
  <1>3. RequestOK(r)
    BY <1>1, <1>2 DEF RequestOK, ReadForClaim
  <1>4. [Next]_placementVars
    BY <1>1 DEF Next
  <1>5. op = "release" => \A p \in Procs : Supervised(proc[p]) => t # proc[p].token
    BY <1>1 DEF ProcOK, Supervised
  <1>. QED
    BY <1>1, <1>2, <1>3, <1>4, <1>5, AgentTypeStays, CallMoves DEF agentVars, ReadForClaim

(* A decision in the authority touches no process.                         *)
LEMMA DecideAgentInv ==
  ASSUME AgentInv, NEW c \in Callers, Decide(c), UNCHANGED agentVars
  PROVE  AgentInv'
  <1>. USE PlacementAssumption DEF AgentInv
  <1>1. PICK w \in Call : w = call[c]
    BY DEF IInv, TypeOK
  <1>. DEFINE previous == w.observed.value
  <1>2. /\ CallOK(w) /\ RequestOK(w) /\ w.phase = "read" /\ clock \in Nat
        /\ previous \in Record /\ EntryOK(w.observed)
    BY <1>1 DEF IInv, TypeOK, Decide, CallOK, Call, Entry
  <1>3. [Next]_placementVars
    BY DEF Next
  <1>4. IInv'
    BY <1>3, NextInv
  <1>5. PICK r \in Call : r = call'[c]
    BY <1>4 DEF IInv, TypeOK
  <1>6. call' = [call EXCEPT ![c] = r]
    BY <1>5 DEF Decide, IInv, TypeOK
  <1>7. \/ r = Idle
        \/ /\ r.op = w.op /\ r.claim = w.claim /\ r.observed = w.observed
           /\ r.next = Proposal(w.op, w.claim, previous)
    BY <1>1, <1>2, <1>5 DEF Decide, IInv, TypeOK, Call
  <1>8. w.op \in {"acquire", "renew", "release"}
    BY <1>2 DEF CallOK, ReadJustified
  <1>9. IsActive(Proposal(w.op, w.claim, previous)) =>
          Proposal(w.op, w.claim, previous).leaseExpiresAt > 0
    <2>1. CASE w.op = "acquire"
      BY <1>2, <2>1 DEF Proposal
    <2>2. CASE w.op = "renew"
      <3>1. Later(previous.leaseExpiresAt, clock + LeaseMs) > 0
        BY <1>2 DEF Later, Record
      <3>2. Proposal(w.op, w.claim, previous).leaseExpiresAt
              = Later(previous.leaseExpiresAt, clock + LeaseMs)
        BY <1>2, <2>2 DEF Proposal, Record
      <3>. QED
        BY <3>1, <3>2
    <2>3. CASE w.op = "release"
      BY <1>2, <2>3 DEF Proposal, IsActive, Record
    <2>. QED
      BY <1>8, <2>1, <2>2, <2>3
  <1>10. RequestOK(r)
    BY <1>2, <1>7, <1>9 DEF RequestOK, Idle
  <1>11. r.op = "release" => \A p \in Procs : Supervised(proc[p]) => r.claim # proc[p].token
    BY <1>1, <1>7 DEF ProcOK, Supervised, Idle
  <1>. QED
    BY <1>3, <1>6, <1>10, <1>11, AgentTypeStays, CallMoves DEF agentVars, Decide

(* The Agent's answer to a fence, true or false. *)
LEMMA FenceAnswerInv ==
  ASSUME AgentInv, NEW c \in Callers, AgentFenceReturn(c) \/ AgentFenceRefused(c)
  PROVE  AgentInv'
  <1>. USE DEF AgentInv
  <1>1. PICK proved \in BOOLEAN : FencePrevious(c, proved)
    BY DEF AgentFenceReturn, AgentFenceRefused
  <1>2. PICK w \in Call : w = call[c]
    BY DEF IInv, TypeOK
  <1>3. [Next]_placementVars
    BY <1>1 DEF Next
  <1>4. IInv'
    BY <1>3, NextInv
  <1>5. PICK r \in Call : r = call'[c]
    BY <1>4 DEF IInv, TypeOK
  <1>6. call' = [call EXCEPT ![c] = r]
    BY <1>1, <1>5 DEF FencePrevious, IInv, TypeOK
  <1>7. \/ r = Idle
        \/ /\ r.op = w.op /\ r.claim = w.claim /\ r.observed = w.observed
           /\ r.next = w.next /\ w.phase = "fencing"
    BY <1>1, <1>2, <1>5 DEF FencePrevious, IInv, TypeOK, Call
  <1>8. RequestOK(r)
    BY <1>2, <1>7 DEF RequestOK, Idle
  <1>9. r.op = "release" => \A p \in Procs : Supervised(proc[p]) => r.claim # proc[p].token
    BY <1>2, <1>7 DEF ProcOK, Supervised, Idle
  <1>10. AgentTypeOK'
    BY DEF AgentTypeOK, AgentFenceReturn, AgentFenceRefused, Open
  <1>11. UNCHANGED <<clock, stored, promised, proc, conn, crashes>>
    BY <1>1 DEF FencePrevious, AgentFenceReturn, AgentFenceRefused
  <1>. QED
    BY <1>3, <1>6, <1>8, <1>9, <1>10, <1>11, CallMoves

(* A write in the authority leaves every open lease promised.              *)
LEMMA WriteAgentInv ==
  ASSUME AgentInv, NEW c \in Callers, Write(c), UNCHANGED agentVars
  PROVE  AgentInv'
  <1>. USE DEF AgentInv
  <1>1. [Next]_placementVars
    BY DEF Next
  <1>2. IInv' /\ IInv
    BY <1>1, NextInv
  <1>3. call' = [call EXCEPT ![c] = Idle] /\ clock' = clock /\ clock \in Nat
    BY <1>2, PlacementAssumption DEF Write, IInv, TypeOK
  <1>4. \A d \in Callers : RequestOK(call[d])'
    BY <1>2, <1>3 DEF RequestOK, IInv, TypeOK, Idle
  <1>5. \A p \in Procs, d \in Callers :
          Supervised(proc[p]) /\ call'[d].op = "release" => call'[d].claim # proc[p].token
    BY <1>2, <1>3 DEF ProcOK, Supervised, IInv, TypeOK, Idle
  <1>. QED
    BY <1>2, <1>3, <1>4, <1>5, AgentTypeStays, WriteKeepsPromises, AuthorityKeepsSlots
    DEF agentVars

(* Time passing only ends leases.                                          *)
LEMMA TickAgentInv ==
  ASSUME AgentInv, Tick, UNCHANGED agentVars
  PROVE  AgentInv'
  <1>. USE DEF AgentInv
  <1>1. [Next]_placementVars
    BY DEF Next
  <1>2. IInv' /\ IInv
    BY <1>1, NextInv
  <1>3. /\ clock <= clock' /\ promised \in [Token -> Nat] /\ stored.value.epoch \in Nat
        /\ UNCHANGED <<stored, call, promised>>
    BY <1>2, PlacementAssumption DEF Tick, IInv, TypeOK, Entry, Record
  <1>4. PromiseOK' /\ \A d \in Callers : RequestOK(call[d])'
    BY <1>3 DEF PromiseOK, Holds, RequestOK
  <1>5. \A p \in Procs, d \in Callers :
          Supervised(proc[p]) /\ call'[d].op = "release" => call'[d].claim # proc[p].token
    BY <1>3 DEF ProcOK, Supervised
  <1>6. \A t \in Token : promised[t] <= promised'[t] /\ (promised[t] = 0 => promised'[t] = 0)
    BY <1>3
  <1>. QED
    BY <1>2, <1>3, <1>4, <1>5, <1>6, AgentTypeStays, AuthorityKeepsSlots DEF agentVars

(* Every step of the composition preserves the inductive invariant. *)
LEMMA AgentNextInv == AgentInv /\ [AgentNext]_vars => AgentInv'
  <1>1. ASSUME AgentInv, AuthorityStep PROVE AgentInv'
    BY <1>1, AcquireRequestInv, ClaimRequestInv, DecideAgentInv, WriteAgentInv, TickAgentInv
    DEF AuthorityStep
  <1>2. ASSUME AgentInv, ProcessStep PROVE AgentInv'
    BY <1>2, StartRequestInv, CheckAskInv, CheckReadInv, ReadFailsInv, CheckReplyInv,
       ExpiryFiresInv, ReclaimOrphanInv, SpawnInv, RecordFailsInv, RecordedInv,
       ExitBeforeListeningInv, StopRequestInv, ExitInv, ReclaimAbandonedInv, AgentFenceKillInv, ConnectionInv,
       AttachInv, AgentCrashInv
    DEF ProcessStep
  <1>3. ASSUME AgentInv, FenceAnswer PROVE AgentInv'
    BY <1>3, FenceAnswerInv DEF FenceAnswer
  <1>4. ASSUME AgentInv, UNCHANGED vars PROVE AgentInv'
    <2>1. UNCHANGED placementVars /\ UNCHANGED agentVars
      BY <1>4 DEF vars
    <2>2. \A p \in Procs : ProcOK(proc[p])'
      BY <1>4, <2>1 DEF AgentInv, ProcOK, Covered, agentVars, placementVars
    <2>. QED
      BY <1>4, <2>1, <2>2, AgentTypeStays, SlotsStep DEF AgentInv
  <1>. QED
    BY <1>1, <1>2, <1>3, <1>4 DEF AgentNext

(* Every variable of the composition keeps its type, and the slots stay     *)
(* coherent: no reply without a question, no fence that waits for a process *)
(* nobody signalled.                                                        *)
THEOREM AgentTypeCorrect == AgentSpec => []AgentTypeOK
  <1>1. AgentInv => AgentTypeOK
    BY DEF AgentInv
  <1>. QED
    BY <1>1, AgentInitInv, AgentNextInv, PTL DEF AgentSpec

(* A deadline a supervisor trusts is covered by the lease on record,        *)
(* whatever renewals, takeovers, delayed replies and crashes happened.      *)
THEOREM LeaseIsWithinAuthority == AgentSpec => []LeaseWithinAuthority
  <1>1. AgentInv => LeaseWithinAuthority
    <2>. SUFFICES ASSUME AgentInv, NEW p \in Procs, Open(p), clock < proc[p].deadline,
                         promised[proc[p].token] # 0
                  PROVE  LET t == proc[p].token
                         IN Holds(stored, t) /\ stored.value.leaseExpiresAt >= proc[p].deadline
      BY DEF LeaseWithinAuthority
    <2>1. PICK r \in Proc : r = proc[p]
      BY DEF AgentInv, AgentTypeOK
    <2>2. /\ r.token \in Token /\ Covered(r.token, r.deadline)
          /\ clock \in Nat /\ promised \in [Token -> Nat] /\ r.deadline \in Int
          /\ stored.value.leaseExpiresAt \in Nat
      BY <2>1, PlacementAssumption
      DEF AgentInv, ProcOK, Open, Proc, IInv, TypeOK, Entry, Record
    <2>3. r.deadline <= promised[r.token]
      BY <2>1, <2>2 DEF Covered
    <2>4. promised[r.token] > clock /\ promised[r.token] \in Nat
      BY <2>1, <2>2, <2>3
    <2>5. Holds(stored, r.token) /\ stored.value.leaseExpiresAt >= promised[r.token]
      BY <2>2, <2>4 DEF AgentInv, IInv, GrantHonoured
    <2>. QED
      BY <2>1, <2>2, <2>3, <2>4, <2>5
  <1>. QED
    BY <1>1, AgentInitInv, AgentNextInv, PTL DEF AgentSpec

(* Two placements of the Project are never in service together. *)
THEOREM OneInService == AgentSpec => []OnePlacementInService
  <1>1. ASSUME AgentInv, NEW p \in Procs, InService(p) PROVE Holds(stored, proc[p].token)
    <2>1. PICK r \in Proc : r = proc[p]
      BY <1>1 DEF AgentInv, AgentTypeOK
    <2>2. /\ r.token \in Token /\ Covered(r.token, r.deadline) /\ promised[r.token] > 0
          /\ clock \in Nat /\ promised \in [Token -> Nat] /\ r.deadline \in Int
          /\ clock < r.deadline
      BY <1>1, <2>1, PlacementAssumption
      DEF AgentInv, ProcOK, InService, Supervised, Proc, IInv, TypeOK
    <2>3. promised[r.token] > clock
      BY <2>2 DEF Covered
    <2>. QED
      BY <1>1, <2>1, <2>2, <2>3 DEF AgentInv, IInv, GrantHonoured
  <1>2. AgentInv => OnePlacementInService
    BY <1>1 DEF OnePlacementInService, Holds
  <1>. QED
    BY <1>2, AgentInitInv, AgentNextInv, PTL DEF AgentSpec

(* A start that was fenced while in flight never becomes a running process. *)
THEOREM FencedStartNeverRuns == AgentSpec => []FencedNeverRuns
  <1>1. AgentInv => FencedNeverRuns
    BY DEF AgentInv, ProcOK, FencedNeverRuns
  <1>. QED
    BY <1>1, AgentInitInv, AgentNextInv, PTL DEF AgentSpec

(* The Agent only drives the authority through its own operations: every    *)
(* behaviour of the composition is one of the authority, and so keeps every *)
(* promise proved of it, the one-step register included.                    *)
THEOREM AgentUsesAuthority == AgentSpec => Spec /\ ImplementsRegister
  <1>1. AgentInit => Init
    BY DEF AgentInit
  <1>2. [AgentNext]_vars => [Next]_placementVars
    BY DEF AgentNext, AuthorityStep, ProcessStep, FenceAnswer, vars, Next, AcquireRequest,
       RenewRequest, ReleaseRequest, AgentFenceReturn, AgentFenceRefused
  <1>3. AgentSpec => Spec
    BY <1>1, <1>2, PTL DEF AgentSpec, Spec
  <1>. QED
    BY <1>3, AuthorityImplementsRegister

================================================================================
