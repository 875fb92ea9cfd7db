------------------------- MODULE RemotePlacementProofs -------------------------
(***************************************************************************)
(* Proofs about RemotePlacement, for every number of handlers and processes *)
(* and every lease, skew and bound.                                         *)
(*                                                                         *)
(* The argument: the high-water record only moves up a strict order (Above),*)
(* so it never returns to a value that was observed before; what accept     *)
(* decides on its second read therefore still stands when the               *)
(* compare-and-set on its first read succeeds (DecisionOK).                 *)
(***************************************************************************)
EXTENDS RemotePlacement, TLAPS

-----------------------------------------------------------------------------
(* Types. *)

Orders == [kind : {"start", "stop"}, epoch : 1 .. MaxEpoch]

Handler == [phase : Phases,
            message : Record \cup Commands \cup Orders \cup {NoMessage},
            observed : Record, previous : Nat, waits : SUBSET Procs]

Proc == [phase : {"none", "spawning", "running", "stopping", "orphan"},
         epoch : 0 .. MaxEpoch, deadline : Nat, fenced : BOOLEAN]

Accepting == {"observed", "fencing", "writing"}
Deciding == {"fencing", "writing"}
Ordered == {"authorized", "starting", "stopping", "releasing"}

(* What the message of a handler is, by its phase. *)
MessageOK(r) ==
  /\ r.phase \in Accepting => r.message \in Record
  /\ r.phase = "received" => r.message \in Commands
  /\ r.phase \in Ordered => r.message \in Orders
  /\ r.phase = "idle" <=> r = Idle

ValuesOK ==
  /\ now \in 0 .. MaxClock
  /\ placement \in Record /\ held \in Record
  /\ placement.state # "absent" => placement.epoch >= 1
  /\ sent \subseteq Grants \cup Commands
  /\ issued \in 0 .. MaxCommands
  /\ replies \subseteq {"grant", "stop"}
  /\ executed \in [Nonces -> Nat]

HandlersOK ==
  /\ handler \in [Handlers -> Handler]
  /\ \A h \in Handlers : MessageOK(handler[h])

ProcsOK ==
  /\ proc \in [Procs -> Proc]
  /\ \A p \in Procs : proc[p].phase = "none" => proc[p] = NoProc
  /\ driver \in Procs \cup {NoSlot}

Types == ValuesOK /\ HandlersOK /\ ProcsOK

(* An idle handler is well typed. *)
LEMMA IdleOK == Idle \in Handler /\ MessageOK(Idle)
  <1>1. Absent \in Record
    BY RemoteAssumption DEF Absent, Record
  <1>. QED
    BY <1>1 DEF Idle, Handler, Phases, MessageOK, Accepting, Ordered

(* The initial state is well typed. *)
LEMMA InitTypes == RemoteInit => Types
  <1>. SUFFICES ASSUME RemoteInit PROVE Types
    OBVIOUS
  <1>. USE RemoteAssumption DEF RemoteInit
  <1>1. ValuesOK
    BY DEF ValuesOK, Absent, Record
  <1>2. HandlersOK
    BY IdleOK DEF HandlersOK
  <1>3. ProcsOK
    BY DEF ProcsOK, NoProc, Proc
  <1>. QED
    BY <1>1, <1>2, <1>3 DEF Types

-----------------------------------------------------------------------------
(* A step of one handler that leaves it well typed. *)
LEMMA HandlerMoves ==
  ASSUME HandlersOK, NEW h \in Handlers, NEW r \in Handler, MessageOK(r),
         handler' = [handler EXCEPT ![h] = r]
  PROVE  /\ HandlersOK'
         /\ handler'[h] = r
         /\ \A g \in Handlers \ {h} : handler'[g] = handler[g]
  BY DEF HandlersOK

(* A handler that is done. *)
LEMMA HandlerDone ==
  ASSUME HandlersOK, NEW h \in Handlers, handler' = Done(h)
  PROVE  /\ HandlersOK'
         /\ handler'[h] = Idle
         /\ \A g \in Handlers \ {h} : handler'[g] = handler[g]
  BY IdleOK, HandlerMoves DEF Done

(* A step that changes nothing of the handlers. *)
LEMMA HandlersStay == HandlersOK /\ UNCHANGED handler => HandlersOK'
  BY DEF HandlersOK

(* A step that changes nothing of the processes. *)
LEMMA ProcsStay == ProcsOK /\ UNCHANGED <<proc, driver>> => ProcsOK'
  BY DEF ProcsOK

(* A step that changes none of the values. *)
LEMMA ValuesStay ==
  ValuesOK /\ UNCHANGED <<now, placement, held, sent, issued, replies, executed>>
    => ValuesOK'
  BY DEF ValuesOK

(* The steps of the Platform. *)
LEMMA PlatformTypes == Types /\ PlatformStep => Types'
  <1>. SUFFICES ASSUME Types, PlatformStep PROVE Types'
    OBVIOUS
  <1>1. UNCHANGED <<handler, proc, driver>>
    BY DEF PlatformStep, Acquire, Renew, SendGrant, Release, SendCommand
  <1>. SUFFICES ValuesOK'
    BY <1>1, HandlersStay, ProcsStay DEF Types
  <1>. USE RemoteAssumption DEF Types, ValuesOK, PlatformNow, historyVars
  <1>2. CASE Acquire
    BY <1>2 DEF Acquire, Record
  <1>3. CASE Renew
    <2>. DEFINE until == IF placement.until >= PlatformNow + LeaseMs
                           THEN placement.until ELSE PlatformNow + LeaseMs
    <2>1. until \in Nat
      BY DEF Record
    <2>2. placement' = [placement EXCEPT !.revision = @ + 1, !.until = until]
      BY <1>3 DEF Renew
    <2>. HIDE DEF until
    <2>3. placement' = [epoch |-> placement.epoch, revision |-> placement.revision + 1,
                        until |-> until, state |-> placement.state]
      BY <2>2 DEF Record
    <2>4. /\ placement.state = "active"
          /\ UNCHANGED <<now, sent, issued, replies, held, executed>>
      BY <1>3 DEF Renew, Owned
    <2>5. placement' \in Record /\ placement'.epoch >= 1
      BY <1>3, <2>1, <2>3, <2>4 DEF Renew, Record
    <2>. QED
      BY <2>4, <2>5
  <1>4. CASE SendGrant
    BY <1>4 DEF SendGrant, Grants
  <1>5. CASE Release
    <2>1. placement' = [epoch |-> placement.epoch, revision |-> placement.revision + 1,
                        until |-> placement.until, state |-> "released"]
      BY <1>5 DEF Release, Record
    <2>2. /\ placement.state = "active"
          /\ UNCHANGED <<now, sent, issued, replies, held, executed>>
      BY <1>5 DEF Release
    <2>3. placement' \in Record /\ placement'.epoch >= 1
      BY <1>5, <2>1, <2>2 DEF Release, Record
    <2>. QED
      BY <2>2, <2>3
  <1>6. ASSUME NEW kind \in {"start", "stop"}, SendCommand(kind) PROVE ValuesOK'
    <2>1. [kind |-> kind, epoch |-> placement.epoch, nonce |-> issued + 1,
           expiresAt |-> PlatformNow + TtlMs] \in Commands
      BY <1>6 DEF SendCommand, Commands, Nonces, Record
    <2>. QED
      BY <1>6, <2>1 DEF SendCommand
  <1>. QED
    BY <1>2, <1>3, <1>4, <1>5, <1>6 DEF PlatformStep

-----------------------------------------------------------------------------
(* The steps of accept. *)
LEMMA AcceptTypes ==
  ASSUME Types, NEW h \in Handlers,
         \/ \E m \in sent : Observe(h, m)
         \/ Reread(h) \/ Fence(h) \/ WriteGrant(h)
  PROVE  Types'
  <1>. USE RemoteAssumption DEF Types
  <1>0. handler[h] \in Handler /\ MessageOK(handler[h])
    BY DEF HandlersOK
  <1>1. ASSUME NEW m \in sent, Observe(h, m) PROVE Types'
    <2>. DEFINE r == [Idle EXCEPT !.phase = "observed", !.message = m.record,
                                  !.observed = held]
    <2>1. m.record \in Record
      BY <1>1 DEF Observe, ValuesOK, Grants, Commands
    <2>2. r \in Handler /\ MessageOK(r)
      BY <2>1 DEF Idle, Handler, Phases, MessageOK, Accepting, Ordered, ValuesOK
    <2>3. handler' = [handler EXCEPT ![h] = r]
      BY <1>1 DEF Observe
    <2>. HIDE DEF r
    <2>4. HandlersOK'
      BY <2>2, <2>3, HandlerMoves
    <2>. QED
      BY <1>1, <2>4, ValuesStay, ProcsStay DEF Observe, platformVars, historyVars
  <1>2. CASE Reread(h)
    <2>1. HandlersOK'
      <3>. DEFINE fences == handler[h].message.epoch > held.epoch /\ held.state = "active"
                  r == [handler[h] EXCEPT !.phase = IF fences THEN "fencing" ELSE "writing",
                                          !.previous = IF fences THEN held.epoch ELSE 0]
      <3>1. CASE handler' = Done(h)
        BY <3>1, HandlerDone
      <3>2. CASE handler' # Done(h)
        <4>1. handler' = [handler EXCEPT ![h] = r]
          BY <1>2, <3>2 DEF Reread
        <4>2. held.epoch \in Nat
          BY DEF ValuesOK, Record
        <4>3. r.phase \in {"fencing", "writing"} /\ r \in Handler /\ r.message = handler[h].message
          BY <1>0, <4>2 DEF Handler, Phases
        <4>4. handler[h].message \in Record
          BY <1>0, <1>2 DEF MessageOK, Accepting, Reread
        <4>. HIDE DEF r
        <4>5. MessageOK(r)
          BY <4>3, <4>4 DEF MessageOK, Idle, Ordered
        <4>. QED
          BY <4>1, <4>3, <4>5, HandlerMoves
      <3>. QED
        BY <3>1, <3>2
    <2>2. replies' \subseteq {"grant", "stop"}
      BY <1>2 DEF Reread, Answer, ValuesOK
    <2>3. UNCHANGED <<now, placement, held, sent, issued, executed, proc, driver>>
      BY <1>2 DEF Reread, platformVars, historyVars
    <2>. QED
      BY <2>1, <2>2, <2>3, ProcsStay DEF ValuesOK
  <1>3. CASE Fence(h)
    <2>. DEFINE r == [handler[h] EXCEPT !.phase = "writing", !.previous = 0, !.waits = Visible]
    <2>1. handler[h].phase = "fencing" /\ handler' = [handler EXCEPT ![h] = r]
      BY <1>3 DEF Fence
    <2>2. r \in Handler /\ r.phase = "writing" /\ r.message = handler[h].message
      BY <1>0 DEF Handler, Phases, Visible
    <2>3. handler[h].message \in Record
      BY <1>0, <2>1 DEF MessageOK, Accepting
    <2>. HIDE DEF r
    <2>4. MessageOK(r)
      BY <2>2, <2>3 DEF MessageOK, Idle, Ordered
    <2>5. HandlersOK'
      BY <2>1, <2>2, <2>4, HandlerMoves
    <2>6. ProcsOK'
      BY <1>3 DEF Fence, ProcsOK, Proc, Stopped, Ended, NoProc
    <2>. QED
      BY <1>3, <2>5, <2>6, ValuesStay DEF Fence, platformVars, historyVars
  <1>4. CASE WriteGrant(h)
    <2>1. handler[h].message \in Record /\ handler[h].phase = "writing"
      BY <1>0, <1>4 DEF MessageOK, Accepting, WriteGrant
    <2>2. HandlersOK'
      <3>. DEFINE r == [handler[h] EXCEPT !.phase = "observed", !.observed = held]
      <3>1. CASE handler' = Done(h)
        BY <3>1, HandlerDone
      <3>2. CASE handler' = [handler EXCEPT ![h] = r]
        <4>1. r \in Handler /\ r.phase = "observed" /\ r.message = handler[h].message
          BY <1>0 DEF Handler, Phases, ValuesOK
        <4>. HIDE DEF r
        <4>2. MessageOK(r)
          BY <2>1, <4>1 DEF MessageOK, Idle, Ordered
        <4>. QED
          BY <3>2, <4>1, <4>2, HandlerMoves
      <3>. QED
        BY <1>4, <3>1, <3>2 DEF WriteGrant
    <2>3. held' \in Record /\ replies' \subseteq {"grant", "stop"}
      BY <1>4, <2>1 DEF WriteGrant, Answer, ValuesOK
    <2>4. UNCHANGED <<now, placement, sent, issued, executed, proc, driver>>
      BY <1>4 DEF WriteGrant, platformVars, historyVars
    <2>. QED
      BY <2>2, <2>3, <2>4, ProcsStay DEF ValuesOK
  <1>. QED
    BY <1>1, <1>2, <1>3, <1>4

(* The steps of a command. *)
LEMMA CommandTypes ==
  ASSUME Types, NEW h \in Handlers,
         \/ \E m \in sent : Receive(h, m)
         \/ Consume(h) \/ StartFindsOne(h) \/ Start(h) \/ Registered(h)
         \/ Stop(h) \/ ReleaseRead(h) \/ ReleaseWrite(h) \/ HandlerFails(h)
  PROVE  Types'
  <1>. USE RemoteAssumption DEF Types
  <1>0. handler[h] \in Handler /\ MessageOK(handler[h])
    BY DEF HandlersOK
  <1>1. ASSUME NEW m \in sent, Receive(h, m) PROVE Types'
    <2>. DEFINE r == [Idle EXCEPT !.phase = "received", !.message = m]
    <2>1. m \in Commands
      BY <1>1 DEF Receive, ValuesOK, Grants, Commands
    <2>2. r \in Handler /\ MessageOK(r)
      BY <2>1, IdleOK DEF Idle, Handler, Phases, MessageOK, Accepting, Ordered
    <2>3. handler' = [handler EXCEPT ![h] = r]
      BY <1>1 DEF Receive
    <2>. HIDE DEF r
    <2>4. HandlersOK'
      BY <2>2, <2>3, HandlerMoves
    <2>. QED
      BY <1>1, <2>4, ValuesStay, ProcsStay DEF Receive, platformVars, historyVars
  <1>2. CASE Consume(h)
    <2>1. handler[h].message \in Commands
      BY <1>0, <1>2 DEF Consume, MessageOK
    <2>2. HandlersOK'
      <3>. DEFINE m == handler[h].message
                  o == [kind |-> m.kind, epoch |-> m.epoch]
                  r == [handler[h] EXCEPT !.phase = "authorized", !.message = o]
      <3>1. CASE handler' = Done(h)
        BY <3>1, HandlerDone
      <3>2. CASE handler' = [handler EXCEPT ![h] = r]
        <4>1. o \in Orders
          BY <2>1 DEF Commands, Orders
        <4>2. r \in Handler /\ r.phase = "authorized" /\ r.message = o
          BY <1>0, <4>1 DEF Handler, Phases
        <4>. HIDE DEF r
        <4>3. MessageOK(r)
          BY <4>1, <4>2 DEF MessageOK, Idle, Accepting
        <4>. QED
          BY <3>2, <4>2, <4>3, HandlerMoves
      <3>. QED
        BY <1>2, <3>1, <3>2 DEF Consume
    <2>3. executed' \in [Nonces -> Nat]
      BY <1>2, <2>1 DEF Consume, ValuesOK, Commands
    <2>4. UNCHANGED <<now, placement, held, replies, sent, issued, proc, driver>>
      BY <1>2 DEF Consume, platformVars
    <2>. QED
      BY <2>2, <2>3, <2>4, ProcsStay DEF ValuesOK
  <1>3. CASE StartFindsOne(h)
    BY <1>3, HandlerDone, ValuesStay, ProcsStay
    DEF StartFindsOne, platformVars, historyVars
  <1>4. CASE Start(h)
    <2>1. handler[h].message \in Orders /\ handler[h].message.epoch \in 0 .. MaxEpoch
      BY <1>0, <1>4 DEF Start, MessageOK, Ordered, Orders
    <2>2. ValuesOK'
      BY <1>4, ValuesStay DEF Start, platformVars, historyVars
    <2>3. CASE handler' = Done(h) /\ driver' = NoSlot /\ UNCHANGED proc
      BY <2>2, <2>3, HandlerDone DEF ProcsOK
    <2>4. ASSUME NEW p \in Procs,
                 proc' = [proc EXCEPT ![p] = [NoProc EXCEPT
                   !.phase = "spawning", !.epoch = handler[h].message.epoch,
                   !.deadline = held.until]],
                 driver' = p,
                 handler' = [handler EXCEPT ![h].phase = "starting", ![h].waits = {p}]
          PROVE  Types'
      <3>. DEFINE r == [handler[h] EXCEPT !.phase = "starting", !.waits = {p}]
      <3>1. r \in Handler /\ r.phase = "starting" /\ r.message = handler[h].message
        BY <1>0 DEF Handler, Phases
      <3>2. handler' = [handler EXCEPT ![h] = r]
        BY <2>4
      <3>. HIDE DEF r
      <3>3. MessageOK(r)
        BY <2>1, <3>1 DEF MessageOK, Idle, Accepting
      <3>4. HandlersOK'
        BY <3>1, <3>2, <3>3, HandlerMoves
      <3>5. ProcsOK'
        BY <2>1, <2>4 DEF ProcsOK, Proc, NoProc, ValuesOK, Record
      <3>. QED
        BY <2>2, <3>4, <3>5
    <2>. QED
      BY <1>4, <2>3, <2>4 DEF Start
  <1>5. CASE Registered(h)
    <2>1. PICK p \in Procs :
            proc' = [proc EXCEPT ![p] =
              IF @.fenced THEN Ended(@, "stopping") ELSE [@ EXCEPT !.phase = "running"]]
      BY <1>0, <1>5 DEF Registered, Handler
    <2>2. /\ proc' \in [Procs -> Proc] /\ proc'[p].phase # "none"
          /\ \A q \in Procs \ {p} : proc'[q] = proc[q]
      BY <2>1 DEF ProcsOK, Proc, Ended, NoProc
    <2>3. ProcsOK'
      BY <1>5, <2>2 DEF Registered, ProcsOK
    <2>. QED
      BY <1>5, <2>3, HandlerDone, ValuesStay DEF Registered, platformVars, historyVars
  <1>6. CASE Stop(h)
    <2>. DEFINE target == {p \in {driver} \cap Procs : proc[p].phase \in {"running", "stopping"}}
                r == [handler[h] EXCEPT !.phase = "stopping", !.waits = target]
    <2>1. handler[h].phase = "authorized" /\ handler' = [handler EXCEPT ![h] = r]
      BY <1>6 DEF Stop
    <2>2. r \in Handler /\ r.phase = "stopping" /\ r.message = handler[h].message
      BY <1>0 DEF Handler, Phases
    <2>3. handler[h].message \in Orders
      BY <1>0, <2>1 DEF MessageOK, Ordered
    <2>. HIDE DEF r
    <2>4. MessageOK(r)
      BY <2>2, <2>3 DEF MessageOK, Idle, Accepting
    <2>5. HandlersOK'
      BY <2>1, <2>2, <2>4, HandlerMoves
    <2>6. ProcsOK'
      BY <1>6 DEF Stop, ProcsOK, Proc, Stopped, Ended, NoProc
    <2>. QED
      BY <1>6, <2>5, <2>6, ValuesStay DEF Stop, platformVars, historyVars
  <1>7. CASE ReleaseRead(h)
    <2>1. HandlersOK'
      <3>. DEFINE r == [handler[h] EXCEPT !.phase = "releasing", !.observed = held]
      <3>1. CASE handler' = Done(h)
        BY <3>1, HandlerDone
      <3>2. CASE handler' = [handler EXCEPT ![h] = r]
        <4>1. r \in Handler /\ r.phase = "releasing" /\ r.message = handler[h].message
          BY <1>0 DEF Handler, Phases, ValuesOK
        <4>2. handler[h].message \in Orders
          BY <1>0, <1>7 DEF MessageOK, Ordered, ReleaseRead
        <4>. HIDE DEF r
        <4>3. MessageOK(r)
          BY <4>1, <4>2 DEF MessageOK, Idle, Accepting
        <4>. QED
          BY <3>2, <4>1, <4>3, HandlerMoves
      <3>. QED
        BY <1>7, <3>1, <3>2 DEF ReleaseRead
    <2>2. replies' \subseteq {"grant", "stop"}
      BY <1>7 DEF ReleaseRead, Answer, ValuesOK
    <2>3. UNCHANGED <<now, placement, held, sent, issued, executed, proc, driver>>
      BY <1>7 DEF ReleaseRead, platformVars, historyVars
    <2>. QED
      BY <2>1, <2>2, <2>3, ProcsStay DEF ValuesOK
  <1>8. CASE ReleaseWrite(h)
    <2>1. HandlersOK'
      BY <1>8, HandlerDone DEF ReleaseWrite
    <2>2. held' \in Record /\ replies' \subseteq {"grant", "stop"}
      BY <1>8 DEF ReleaseWrite, Answer, ValuesOK, Record
    <2>3. UNCHANGED <<now, placement, sent, issued, executed, proc, driver>>
      BY <1>8 DEF ReleaseWrite, platformVars
    <2>. QED
      BY <2>1, <2>2, <2>3, ProcsStay DEF ValuesOK
  <1>9. CASE HandlerFails(h)
    BY <1>9, HandlerDone, ValuesStay, ProcsStay
    DEF HandlerFails, platformVars, historyVars
  <1>. QED
    BY <1>1, <1>2, <1>3, <1>4, <1>5, <1>6, <1>7, <1>8, <1>9

(* The steps of the processes, the crash and the clock. *)
LEMMA NodeTypes ==
  ASSUME Types, \/ \E p \in Procs : Check(p) \/ Exit(p)
                \/ Crash \/ Boot \/ Tick
  PROVE  Types'
  <1>. USE RemoteAssumption DEF Types
  <1>1. ASSUME NEW p \in Procs, Check(p) PROVE Types'
    <2>. DEFINE r == IF LeaseOf(proc[p].epoch) /\ now < proc[p].deadline
                       THEN [proc[p] EXCEPT !.deadline = held.until] ELSE Fenced(proc[p])
    <2>1. proc[p] \in Proc /\ held.until \in Nat
      BY DEF ProcsOK, ValuesOK, Record
    <2>2. [proc[p] EXCEPT !.deadline = held.until] \in Proc
      BY <2>1 DEF Proc
    <2>3. Fenced(proc[p]) \in Proc /\ Fenced(proc[p]).phase # "none"
      BY <1>1, <2>1 DEF Fenced, Stopped, Ended, NoProc, Proc, Check
    <2>4. r \in Proc /\ r.phase # "none"
      BY <1>1, <2>1, <2>2, <2>3 DEF Check, Proc
    <2>5. proc' = [proc EXCEPT ![p] = r]
      BY <1>1 DEF Check
    <2>. HIDE DEF r
    <2>6. ProcsOK'
      BY <1>1, <2>4, <2>5 DEF ProcsOK, Check
    <2>. QED
      BY <1>1, <2>6, ValuesStay, HandlersStay DEF Check, platformVars, historyVars
  <1>2. ASSUME NEW p \in Procs, Exit(p) PROVE Types'
    <2>1. ProcsOK'
      <3>1. NoProc \in Proc
        BY DEF NoProc, Proc
      <3>2. proc' = [proc EXCEPT ![p] = NoProc] /\ driver' \in {driver, NoSlot}
        BY <1>2 DEF Exit
      <3>. QED
        BY <3>1, <3>2 DEF ProcsOK
    <2>2. ASSUME NEW h \in Handlers
          PROVE  handler'[h] \in Handler /\ MessageOK(handler'[h])
      <3>1. handler[h] \in Handler /\ MessageOK(handler[h])
        BY DEF HandlersOK
      <3>2. handler'[h] = [handler[h] EXCEPT !.waits = @ \ {p}]
        BY <1>2 DEF Exit
      <3>3. handler'[h] \in Handler
        BY <3>1, <3>2 DEF Handler
      <3>4. /\ handler'[h].phase = handler[h].phase
            /\ handler'[h].message = handler[h].message
            /\ handler[h] = Idle => handler'[h] = Idle
        BY <3>1, <3>2 DEF Handler, Idle
      <3>5. handler'[h] = Idle => handler'[h].phase = "idle"
        BY DEF Idle
      <3>. QED
        BY <3>1, <3>3, <3>4, <3>5 DEF MessageOK
    <2>3. DOMAIN handler' = Handlers /\ handler' = [h \in Handlers |-> handler'[h]]
      BY <1>2 DEF Exit
    <2>4. HandlersOK'
      BY <2>2, <2>3 DEF HandlersOK
    <2>. QED
      BY <1>2, <2>1, <2>4, ValuesStay DEF Exit, platformVars, historyVars
  <1>3. CASE Crash
    <2>1. HandlersOK'
      BY <1>3, IdleOK DEF Crash, HandlersOK
    <2>2. ProcsOK'
      BY <1>3 DEF Crash, ProcsOK, Proc, Ended, NoProc
    <2>. QED
      BY <1>3, <2>1, <2>2, ValuesStay DEF Crash, platformVars, historyVars
  <1>4. CASE Boot
    BY <1>4, ValuesStay, HandlersStay, ProcsStay DEF Boot, platformVars, historyVars
  <1>5. CASE Tick
    <2>1. ValuesOK'
      BY <1>5 DEF Tick, ValuesOK, historyVars
    <2>. QED
      BY <1>5, <2>1, HandlersStay, ProcsStay DEF Tick
  <1>. QED
    BY <1>1, <1>2, <1>3, <1>4, <1>5

(* Every step of the specification leaves the state well typed. *)
LEMMA NextTypes == Types /\ [RemoteNext]_vars => Types'
  <1>. SUFFICES ASSUME Types, [RemoteNext]_vars PROVE Types'
    OBVIOUS
  <1>1. CASE PlatformStep
    BY <1>1, PlatformTypes
  <1>2. ASSUME NEW h \in Handlers, HandlerStep(h) PROVE Types'
    BY <1>2, AcceptTypes, CommandTypes DEF HandlerStep
  <1>3. ASSUME NEW p \in Procs, Check(p) \/ Exit(p) PROVE Types'
    BY <1>3, NodeTypes
  <1>4. CASE Crash \/ Boot \/ Tick
    BY <1>4, NodeTypes
  <1>5. CASE UNCHANGED vars
    BY <1>5, ValuesStay, HandlersStay, ProcsStay
    DEF vars, platformVars, historyVars, Types
  <1>. QED
    BY <1>1, <1>2, <1>3, <1>4, <1>5 DEF RemoteNext

-----------------------------------------------------------------------------
(* The order in which the high-water record moves: a newer epoch, or within *)
(* an active one a later revision or its release.                           *)
Above(b, a) ==
  \/ b.epoch > a.epoch
  \/ /\ b.epoch = a.epoch
     /\ a.state = "active"
     /\ a.revision <= b.revision /\ a.until <= b.until
     /\ b.state = "released" \/ a.revision < b.revision

(* Above is a strict order. *)
LEMMA AboveIsStrict ==
  /\ \A a \in Record : ~Above(a, a)
  /\ \A a, b, c \in Record : Above(c, b) /\ Above(b, a) => Above(c, a)
  BY RemoteAssumption DEF Above, Record

-----------------------------------------------------------------------------
(* The inductive invariant. *)

GrantOK(r, p) ==
  r.state = "active" /\ r.epoch <= p.epoch /\ r.revision <= p.revision

(* Nothing but what the authority granted is on its way; the Agent holds no *)
(* more than that, and holds released what it answered a stop for.          *)
PlacedOK ==
  /\ \A m \in sent : m.kind = "grant" => GrantOK(m.record, placement)
  /\ \A h \in Handlers : handler[h].phase \in Accepting => GrantOK(handler[h].message, placement)
  /\ held.epoch <= placement.epoch /\ held.revision <= placement.revision
  /\ "stop" \in replies \/ placement.state = "released" =>
       held.epoch = placement.epoch /\ held.state = "released"

Accepts(next) ==
  ~Stale(held, next) /\ ~Conflicts(held, next) /\ ~Repeats(held, next)

(* What a handler has observed is held still or has been passed. If it is   *)
(* held still, what accept decided on the second read is right, and a live  *)
(* placement was not fenced.                                                *)
DecisionOK(r) ==
  /\ r.phase \in Accepting \cup {"releasing"} => r.observed = held \/ Above(held, r.observed)
  /\ r.phase = "releasing" => r.observed.state = "active"
  /\ r.phase \in Deciding /\ r.observed = held => Accepts(r.message)
  /\ r.phase = "writing" /\ r.observed = held /\ held.state = "active"
       /\ r.message.epoch > held.epoch => held.until <= now

DecisionsOK == \A h \in Handlers : DecisionOK(handler[h])

(* Handlers wait for, and the runtime's entry names, processes that exist. *)
WaitsOK ==
  /\ \A h \in Handlers : \A p \in handler[h].waits : proc[p].phase # "none"
  /\ driver = NoSlot \/ proc[driver].phase # "none"

(* A start in flight waits for a process nobody else has touched.           *)
Starting(h) == handler[h].phase = "starting"

StartsOK ==
  \A h \in Handlers : Starting(h) =>
    \A q \in handler[h].waits :
      /\ proc[q].phase = "spawning"
      /\ \A g \in Handlers \ {h} : Starting(g) => q \notin handler[g].waits

(* Exactly the consumed nonces were carried out, each once. *)
OnceOK ==
  /\ consumed = {n \in Nonces : executed[n] > 0}
  /\ \A n \in Nonces : executed[n] <= 1

(* A supervised process is past its deadline, or of a surrendered epoch, or *)
(* covered by the lease the Agent holds.                                    *)
Covered(r) ==
  r.phase \in {"spawning", "running"} =>
    \/ r.deadline <= now
    \/ r.epoch \in surrendered
    \/ r.epoch = held.epoch /\ held.state = "active" /\ r.deadline <= held.until

CoversOK == \A p \in Procs : Covered(proc[p])

RemoteInv ==
  Types /\ PlacedOK /\ DecisionsOK /\ WaitsOK /\ StartsOK /\ OnceOK /\ CoversOK

(* The initial state satisfies it. *)
LEMMA RemoteInitInv == RemoteInit => RemoteInv
  <1>. SUFFICES ASSUME RemoteInit PROVE RemoteInv
    OBVIOUS
  <1>. USE DEF RemoteInit
  <1>1. Types
    BY InitTypes
  <1>2. PlacedOK
    BY DEF PlacedOK, Absent, Idle, Accepting
  <1>3. DecisionsOK
    BY DEF DecisionsOK, DecisionOK, Idle, Accepting, Deciding
  <1>4. WaitsOK /\ StartsOK /\ OnceOK
    BY RemoteAssumption DEF WaitsOK, StartsOK, Starting, OnceOK, Idle, Nonces
  <1>5. CoversOK
    BY DEF CoversOK, Covered, NoProc
  <1>. QED
    BY <1>1, <1>2, <1>3, <1>4, <1>5 DEF RemoteInv

-----------------------------------------------------------------------------
(* A step of one handler leaves the others as they are. *)
LEMMA OneHandlerMoves ==
  ASSUME Types, NEW h \in Handlers, HandlerStep(h),
         NEW g \in Handlers, g # h
  PROVE  handler'[g] = handler[g]
  BY DEF HandlerStep, Types, HandlersOK, Done, Observe, Receive, Reread, Fence,
         WriteGrant, Consume, StartFindsOne, Start, Registered, Stop, ReleaseRead,
         ReleaseWrite, HandlerFails

(* The record moves up, and over an active placement only when its lease is *)
(* over.                                                                    *)
HeldRises ==
  /\ Above(held', held)
  /\ held.state = "active" /\ held'.epoch > held.epoch => held.until <= now

(* accept writes a record above the one it replaces. *)
LEMMA GrantRises ==
  ASSUME RemoteInv, NEW h \in Handlers, WriteGrant(h), held' # held
  PROVE  HeldRises /\ held' = handler[h].message /\ Accepts(held')
  <1>1. /\ handler[h].phase = "writing"
        /\ held = handler[h].observed /\ held' = handler[h].message
    BY DEF WriteGrant
  <1>2. Accepts(held') /\ held' \in Record /\ held \in Record
    BY <1>1 DEF RemoteInv, DecisionsOK, DecisionOK, Deciding, Types, HandlersOK,
                MessageOK, Accepting, ValuesOK
  <1>3. held.state = "active" /\ held'.epoch > held.epoch => held.until <= now
    BY <1>1 DEF RemoteInv, DecisionsOK, DecisionOK
  <1>4. Above(held', held)
    BY <1>2, RemoteAssumption DEF Accepts, Stale, Conflicts, Repeats, Above, Record
  <1>. QED
    BY <1>1, <1>2, <1>3, <1>4 DEF HeldRises

(* release writes a record above the one it replaces. *)
LEMMA ReleaseRises ==
  ASSUME RemoteInv, NEW h \in Handlers, ReleaseWrite(h), held' # held
  PROVE  /\ HeldRises
         /\ held.state = "active" /\ held'.state = "released"
         /\ held'.epoch = held.epoch /\ held'.revision = held.revision
         /\ surrendered' = surrendered \cup {held.epoch}
  <1>1. /\ handler[h].phase = "releasing" /\ held = handler[h].observed
        /\ held' = [held EXCEPT !.state = "released"]
        /\ surrendered' = surrendered \cup {held.epoch}
    BY DEF ReleaseWrite
  <1>2. held.state = "active" /\ held \in Record
    BY <1>1 DEF RemoteInv, DecisionsOK, DecisionOK, Types, ValuesOK
  <1>3. /\ held'.epoch = held.epoch /\ held'.revision = held.revision
        /\ held'.until = held.until /\ held'.state = "released"
    BY <1>1, <1>2 DEF Record
  <1>4. held.epoch \in Nat /\ held.revision \in Nat /\ held.until \in Nat
    BY <1>2, RemoteAssumption DEF Record
  <1>. QED
    BY <1>1, <1>2, <1>3, <1>4 DEF HeldRises, Above

(* No other step changes the record. *)
LEMMA HeldMoves ==
  ASSUME RemoteInv, [RemoteNext]_vars, held' # held
  PROVE  /\ HeldRises
         /\ \E h \in Handlers : WriteGrant(h) \/ ReleaseWrite(h)
  <1>1. \E h \in Handlers : WriteGrant(h) \/ ReleaseWrite(h)
    BY DEF RemoteNext, PlatformStep, HandlerStep, Acquire, Renew, SendGrant, Release,
           SendCommand, Observe, Receive, Reread, Fence, Consume, StartFindsOne,
           Start, Registered, Stop, ReleaseRead, HandlerFails, Check, Exit, Crash,
           Boot, Tick, vars
  <1>. QED
    BY <1>1, GrantRises, ReleaseRises

-----------------------------------------------------------------------------
(* Each part of the invariant is kept. *)

(* Only Consume spends a nonce, and only a fresh one. *)
LEMMA OnceKept == RemoteInv /\ [RemoteNext]_vars => OnceOK'
  <1>. SUFFICES ASSUME RemoteInv, [RemoteNext]_vars PROVE OnceOK'
    OBVIOUS
  <1>1. ASSUME NEW h \in Handlers, Consume(h) PROVE OnceOK'
    <2>1. CASE UNCHANGED <<consumed, executed>>
      BY <2>1 DEF RemoteInv, OnceOK
    <2>2. ASSUME NEW n \in Nonces, n \notin consumed, consumed' = consumed \cup {n},
                 executed' = [executed EXCEPT ![n] = @ + 1]
          PROVE  OnceOK'
      <3>1. executed \in [Nonces -> Nat] /\ executed[n] = 0
        BY <2>2 DEF RemoteInv, OnceOK, Types, ValuesOK
      <3>2. \A k \in Nonces : executed'[k] = IF k = n THEN 1 ELSE executed[k]
        BY <2>2, <3>1
      <3>. QED
        BY <2>2, <3>1, <3>2 DEF RemoteInv, OnceOK
    <2>3. handler[h].message \in Commands
      BY <1>1 DEF RemoteInv, Types, HandlersOK, MessageOK, Consume
    <2>4. handler[h].message.nonce \in Nonces
      BY <2>3 DEF Commands
    <2>. QED
      BY <1>1, <2>1, <2>2, <2>4 DEF Consume, Fresh
  <1>2. CASE UNCHANGED <<consumed, executed>>
    BY <1>2 DEF RemoteInv, OnceOK
  <1>3. (\E h \in Handlers : Consume(h)) \/ UNCHANGED <<consumed, executed>>
    BY DEF RemoteNext, PlatformStep, HandlerStep, Acquire, Renew, SendGrant, Release,
           SendCommand, Observe, Receive, Reread, Fence, WriteGrant, StartFindsOne,
           Start, Registered, Stop, ReleaseRead, ReleaseWrite, HandlerFails, Check,
           Exit, Crash, Boot, Tick, vars, historyVars
  <1>. QED
    BY <1>1, <1>2, <1>3

(* A process goes only by its exit. *)
LEMMA ProcsLast ==
  ASSUME RemoteInv, [RemoteNext]_vars, \A p \in Procs : ~Exit(p),
         NEW q \in Procs, proc[q].phase # "none"
  PROVE  proc'[q].phase # "none"
  <1>. USE DEF RemoteInv, Types, ProcsOK, Proc, NoProc, Ended, Stopped
  <1>1. ASSUME NEW h \in Handlers, Fence(h) \/ Stop(h) PROVE proc'[q].phase # "none"
    <2>1. proc'[q] \in {proc[q], Stopped(proc[q])}
      BY <1>1 DEF Fence, Stop
    <2>2. Stopped(proc[q]).phase # "none"
      OBVIOUS
    <2>. QED
      BY <2>1, <2>2
  <1>2. ASSUME NEW h \in Handlers, Start(h) PROVE proc'[q].phase # "none"
    BY <1>2 DEF Start
  <1>3. ASSUME NEW h \in Handlers, Registered(h) PROVE proc'[q].phase # "none"
    BY <1>3 DEF Registered
  <1>4. ASSUME NEW p \in Procs, Check(p) PROVE proc'[q].phase # "none"
    BY <1>4 DEF Check, Fenced
  <1>5. CASE Crash
    BY <1>5 DEF Crash
  <1>6. \/ \E h \in Handlers : Fence(h) \/ Stop(h) \/ Start(h) \/ Registered(h)
        \/ \E p \in Procs : Check(p)
        \/ Crash \/ UNCHANGED proc
    BY DEF RemoteNext, PlatformStep, HandlerStep, Acquire, Renew, SendGrant, Release,
           SendCommand, Observe, Receive, Reread, WriteGrant, Consume, StartFindsOne,
           ReleaseRead, ReleaseWrite, HandlerFails, Boot, Tick, vars
  <1>. QED
    BY <1>1, <1>2, <1>3, <1>4, <1>5, <1>6

(* A process somebody waits for, or the entry names, exists. *)
LEMMA WaitsKept == RemoteInv /\ [RemoteNext]_vars => WaitsOK'
  <1>. SUFFICES ASSUME RemoteInv, [RemoteNext]_vars PROVE WaitsOK'
    OBVIOUS
  <1>0. /\ \A h \in Handlers : handler[h] \in Handler
        /\ handler \in [Handlers -> Handler] /\ proc \in [Procs -> Proc]
        /\ driver \in Procs \cup {NoSlot}
        /\ handler' \in [Handlers -> Handler] /\ driver' \in Procs \cup {NoSlot}
    BY NextTypes DEF RemoteInv, Types, HandlersOK, ProcsOK
  <1>1. ASSUME NEW p \in Procs, Exit(p) PROVE WaitsOK'
    <2>1. \A q \in Procs \ {p} : proc'[q] = proc[q]
      BY <1>0, <1>1 DEF Exit
    <2>2. \A h \in Handlers : handler'[h].waits = handler[h].waits \ {p}
      BY <1>0, <1>1 DEF Exit, Handler
    <2>3. driver' = NoSlot \/ (driver' = driver /\ driver # p)
      BY <1>1 DEF Exit
    <2>. QED
      BY <1>0, <2>1, <2>2, <2>3 DEF RemoteInv, WaitsOK, Handler
  <1>2. ASSUME \A p \in Procs : ~Exit(p) PROVE WaitsOK'
    <2>1. \A q \in Procs : proc[q].phase # "none" => proc'[q].phase # "none"
      BY <1>2, ProcsLast
    <2>2. ASSUME NEW h \in Handlers, NEW q \in handler'[h].waits
          PROVE  proc'[q].phase # "none"
      <3>0. q \in Procs
        BY <1>0 DEF Handler
      <3>1. CASE q \in handler[h].waits
        BY <2>1, <3>0, <3>1 DEF RemoteInv, WaitsOK
      <3>2. CASE handler'[h] = Idle
        BY <3>2 DEF Idle
      <3>3. CASE Fence(h) \/ Stop(h)
        <4>1. CASE Fence(h)
          <5>1. handler'[h].waits = Visible
            BY <1>0, <4>1 DEF Fence, Handler
          <5>. QED
            BY <2>1, <3>0, <5>1 DEF Visible
        <4>2. CASE Stop(h)
          <5>1. proc[q].phase \in {"running", "stopping"}
            BY <1>0, <4>2 DEF Stop, Handler
          <5>. QED
            BY <2>1, <3>0, <5>1
        <4>. QED
          BY <3>3, <4>1, <4>2
      <3>4. CASE Start(h)
        BY <1>0, <3>1, <3>2, <3>4 DEF Start, Done, Handler
      <3>5. \/ Fence(h) \/ Stop(h) \/ Start(h)
            \/ handler'[h] = Idle \/ handler'[h].waits \subseteq handler[h].waits
        <4>1. ASSUME NEW g \in Handlers, HandlerStep(g), g # h
              PROVE  handler'[h] = handler[h]
          BY <4>1, OneHandlerMoves DEF RemoteInv
        <4>2. CASE HandlerStep(h)
          <5>1. CASE handler' = Done(h)
            BY <1>0, <5>1 DEF Done
          <5>2. CASE \E m \in sent : Observe(h, m) \/ Receive(h, m)
            <6>1. PICK m \in sent : Observe(h, m) \/ Receive(h, m)
              BY <5>2
            <6>2. CASE Observe(h, m)
              BY <1>0, <6>2 DEF Observe, Idle
            <6>3. CASE Receive(h, m)
              BY <1>0, <6>3 DEF Receive, Idle
            <6>. QED
              BY <6>1, <6>2, <6>3
          <5>3. CASE Reread(h) /\ handler' # Done(h)
            BY <1>0, <5>3 DEF Reread, Handler
          <5>4. CASE WriteGrant(h) /\ handler' # Done(h)
            BY <1>0, <5>4 DEF WriteGrant, Handler
          <5>5. CASE Consume(h) /\ handler' # Done(h)
            BY <1>0, <5>5 DEF Consume, Handler
          <5>6. CASE ReleaseRead(h) /\ handler' # Done(h)
            BY <1>0, <5>6 DEF ReleaseRead, Handler
          <5>. QED
            BY <4>2, <5>1, <5>2, <5>3, <5>4, <5>5, <5>6
            DEF HandlerStep, StartFindsOne, Registered, ReleaseWrite, HandlerFails
        <4>. QED
          BY <1>0, <1>2, <4>1, <4>2
          DEF RemoteNext, PlatformStep, Acquire, Renew, SendGrant, Release,
              SendCommand, Check, Crash, Boot, Tick, vars
      <3>. QED
        BY <3>1, <3>2, <3>3, <3>4, <3>5
    <2>3. driver' = NoSlot \/ proc'[driver'].phase # "none"
      <3>1. ASSUME NEW h \in Handlers, Start(h)
            PROVE  driver' = NoSlot \/ proc'[driver'].phase # "none"
        BY <1>0, <3>1 DEF Start, NoProc
      <3>2. (\E h \in Handlers : Start(h)) \/ driver' \in {driver, NoSlot}
        BY <1>2
        DEF RemoteNext, PlatformStep, HandlerStep, Acquire, Renew, SendGrant, Release,
            SendCommand, Observe, Receive, Reread, Fence, WriteGrant, Consume,
            StartFindsOne, Registered, Stop, ReleaseRead, ReleaseWrite, HandlerFails,
            Check, Crash, Boot, Tick, vars
      <3>. QED
        BY <1>0, <2>1, <3>1, <3>2 DEF RemoteInv, WaitsOK
    <2>. QED
      BY <2>2, <2>3 DEF WaitsOK
  <1>. QED
    BY <1>1, <1>2

(* Where a start in flight comes from. *)
LEMMA StartCases ==
  ASSUME RemoteInv, [RemoteNext]_vars, NEW h \in Handlers, Starting(h)',
         NEW q \in handler'[h].waits
  PROVE  \/ Start(h) /\ proc[q] = NoProc /\ proc'[q].phase = "spawning"
         \/ /\ Starting(h) /\ q \in handler[h].waits
            /\ ~HandlerStep(h) /\ ~Exit(q) /\ ~Crash
  <1>0. /\ handler \in [Handlers -> Handler] /\ handler[h] \in Handler
        /\ proc \in [Procs -> Proc]
    BY DEF RemoteInv, Types, HandlersOK, ProcsOK
  <1>. USE DEF Starting
  <1>1. CASE HandlerStep(h)
    <2>1. handler' # Done(h)
      BY <1>0 DEF Done, Idle
    <2>2. ASSUME NEW m \in sent, Observe(h, m) \/ Receive(h, m) PROVE FALSE
      BY <1>0, <2>2 DEF Observe, Receive, Idle
    <2>3. ASSUME Reread(h) PROVE FALSE
      BY <1>0, <2>1, <2>3 DEF Reread, Handler
    <2>4. ASSUME Fence(h) \/ WriteGrant(h) PROVE FALSE
      BY <1>0, <2>1, <2>4 DEF Fence, WriteGrant, Handler
    <2>5. ASSUME Consume(h) \/ Stop(h) \/ ReleaseRead(h) PROVE FALSE
      BY <1>0, <2>1, <2>5 DEF Consume, Stop, ReleaseRead, Handler
    <2>6. CASE Start(h)
      <3>1. PICK p \in Procs :
              /\ proc[p] = NoProc
              /\ proc' = [proc EXCEPT ![p] = [NoProc EXCEPT
                   !.phase = "spawning", !.epoch = handler[h].message.epoch,
                   !.deadline = held.until]]
              /\ handler' = [handler EXCEPT ![h].phase = "starting", ![h].waits = {p}]
        BY <2>1, <2>6 DEF Start
      <3>2. q = p
        BY <1>0, <3>1 DEF Handler
      <3>. QED
        BY <1>0, <2>6, <3>1, <3>2 DEF NoProc
    <2>. QED
      BY <1>1, <2>1, <2>2, <2>3, <2>4, <2>5, <2>6
      DEF HandlerStep, StartFindsOne, Registered, ReleaseWrite, HandlerFails
  <1>2. CASE ~HandlerStep(h)
    <2>1. ~Crash
      BY <1>0 DEF Crash, Idle
    <2>2. ASSUME NEW p \in Procs, Exit(p)
          PROVE  Starting(h) /\ q \in handler[h].waits /\ q # p
      BY <1>0, <2>2 DEF Exit, Handler
    <2>3. ASSUME NEW g \in Handlers, HandlerStep(g) PROVE handler'[h] = handler[h]
      BY <1>2, <2>3, OneHandlerMoves DEF RemoteInv
    <2>4. Starting(h) /\ q \in handler[h].waits
      BY <2>1, <2>2, <2>3
      DEF RemoteNext, PlatformStep, Acquire, Renew, SendGrant, Release, SendCommand,
          Check, Boot, Tick, vars
    <2>5. q \in Procs
      BY <1>0, <2>4 DEF Handler
    <2>. QED
      BY <1>2, <2>1, <2>2, <2>4, <2>5
  <1>. QED
    BY <1>1, <1>2

(* What is being spawned stays so, until its start registers it or it exits. *)
LEMMA SpawningStays ==
  ASSUME RemoteInv, [RemoteNext]_vars, NEW q \in Procs, proc[q].phase = "spawning",
         ~Exit(q), ~Crash,
         \A g \in Handlers : Registered(g) => q \notin handler[g].waits
  PROVE  proc'[q].phase = "spawning"
  <1>0. proc \in [Procs -> Proc] /\ proc[q] \in Proc
    BY DEF RemoteInv, Types, ProcsOK
  <1>1. ASSUME NEW h \in Handlers, Fence(h) \/ Stop(h) PROVE proc'[q].phase = "spawning"
    <2>1. proc'[q] \in {proc[q], Stopped(proc[q])}
      BY <1>1 DEF Fence, Stop
    <2>. QED
      BY <2>1 DEF Stopped
  <1>2. ASSUME NEW h \in Handlers, Start(h) PROVE proc'[q].phase = "spawning"
    BY <1>0, <1>2 DEF Start, NoProc
  <1>3. ASSUME NEW h \in Handlers, Registered(h) PROVE proc'[q].phase = "spawning"
    BY <1>0, <1>3 DEF Registered
  <1>4. ASSUME NEW p \in Procs, Check(p) PROVE proc'[q].phase = "spawning"
    <2>1. proc'[q] = proc[q] \/ proc'[q] = Fenced(proc[q])
             \/ proc'[q] = [proc[q] EXCEPT !.deadline = held.until]
      BY <1>0, <1>4 DEF Check
    <2>. QED
      BY <1>0, <2>1 DEF Fenced, Proc
  <1>5. ASSUME NEW p \in Procs, Exit(p) PROVE proc'[q].phase = "spawning"
    BY <1>0, <1>5 DEF Exit
  <1>6. \/ \E h \in Handlers : Fence(h) \/ Stop(h) \/ Start(h) \/ Registered(h)
        \/ \E p \in Procs : Check(p) \/ Exit(p)
        \/ UNCHANGED proc
    BY DEF RemoteNext, PlatformStep, HandlerStep, Acquire, Renew, SendGrant, Release,
           SendCommand, Observe, Receive, Reread, WriteGrant, Consume, StartFindsOne,
           ReleaseRead, ReleaseWrite, HandlerFails, Boot, Tick, vars
  <1>. QED
    BY <1>1, <1>2, <1>3, <1>4, <1>5, <1>6

(* A start in flight keeps its process to itself. *)
LEMMA StartsKept == RemoteInv /\ [RemoteNext]_vars => StartsOK'
  <1>. SUFFICES ASSUME RemoteInv, [RemoteNext]_vars, NEW h \in Handlers, Starting(h)',
                       NEW q \in handler'[h].waits
                PROVE  /\ proc'[q].phase = "spawning"
                       /\ \A g \in Handlers \ {h} :
                            Starting(g)' => q \notin handler'[g].waits
    BY DEF StartsOK
  <1>0. q \in Procs
    BY NextTypes DEF RemoteInv, Types, HandlersOK, Handler
  <1>1. CASE Start(h) /\ proc[q] = NoProc /\ proc'[q].phase = "spawning"
    <2>1. HandlerStep(h)
      BY <1>1 DEF HandlerStep
    <2>2. ASSUME NEW g \in Handlers \ {h}, Starting(g)' PROVE q \notin handler'[g].waits
      <3>1. handler'[g] = handler[g]
        BY <2>1, OneHandlerMoves DEF RemoteInv
      <3>. QED
        BY <1>1, <2>2, <3>1 DEF RemoteInv, WaitsOK, NoProc
    <2>. QED
      BY <1>1, <2>2
  <1>2. CASE /\ Starting(h) /\ q \in handler[h].waits
             /\ ~HandlerStep(h) /\ ~Exit(q) /\ ~Crash
    <2>1. /\ proc[q].phase = "spawning"
          /\ \A g \in Handlers \ {h} : Starting(g) => q \notin handler[g].waits
      BY <1>2 DEF RemoteInv, StartsOK
    <2>2. ASSUME NEW g \in Handlers, Registered(g) PROVE q \notin handler[g].waits
      BY <1>2, <2>1, <2>2 DEF Registered, HandlerStep, Starting
    <2>3. proc'[q].phase = "spawning"
      BY <1>0, <1>2, <2>1, <2>2, SpawningStays
    <2>4. ASSUME NEW g \in Handlers \ {h}, Starting(g)', q \in handler'[g].waits PROVE FALSE
      BY <2>1, <2>4, StartCases DEF NoProc
    <2>. QED
      BY <2>3, <2>4
  <1>. QED
    BY <1>1, <1>2, StartCases

(* The authority's epochs and revisions never fall. *)
LEMMA PlacementRises ==
  ASSUME RemoteInv, [RemoteNext]_vars
  PROVE  /\ placement'.epoch >= placement.epoch
         /\ placement'.revision >= placement.revision
  <1>0. placement \in Record /\ placement.epoch \in Nat /\ placement.revision \in Nat
    BY RemoteAssumption DEF RemoteInv, Types, ValuesOK, Record
  <1>1. CASE Acquire
    BY <1>0, <1>1 DEF Acquire
  <1>2. CASE Renew
    <2>1. placement'.epoch = placement.epoch /\ placement'.revision = placement.revision + 1
      BY <1>0, <1>2 DEF Renew, Record
    <2>. QED
      BY <1>0, <2>1
  <1>3. CASE Release
    <2>1. placement'.epoch = placement.epoch /\ placement'.revision = placement.revision + 1
      BY <1>0, <1>3 DEF Release, Record
    <2>. QED
      BY <1>0, <2>1
  <1>4. CASE UNCHANGED placement
    BY <1>0, <1>4
  <1>5. Acquire \/ Renew \/ Release \/ UNCHANGED placement
    BY DEF RemoteNext, PlatformStep, HandlerStep, SendGrant, SendCommand, Observe,
           Receive, Reread, Fence, WriteGrant, Consume, StartFindsOne, Start,
           Registered, Stop, ReleaseRead, ReleaseWrite, HandlerFails, Check, Exit,
           Crash, Boot, Tick, vars, platformVars
  <1>. QED
    BY <1>1, <1>2, <1>3, <1>4, <1>5

(* What a step can do to a handler that accepts a grant or releases.        *)
LEMMA HandlerCases ==
  ASSUME RemoteInv, [RemoteNext]_vars, NEW h \in Handlers
  PROVE  \/ /\ handler'[h].phase = handler[h].phase
            /\ handler'[h].message = handler[h].message
            /\ handler'[h].observed = handler[h].observed
         \/ handler'[h].phase \notin Accepting \cup {"releasing"}
         \/ \E m \in sent : Observe(h, m)
         \/ Reread(h) /\ handler'[h].phase \in Deciding
         \/ Fence(h)
         \/ WriteGrant(h) /\ handler'[h].phase = "observed"
         \/ ReleaseRead(h) /\ handler'[h].phase = "releasing"
  <1>0. handler \in [Handlers -> Handler]
    BY DEF RemoteInv, Types, HandlersOK
  <1>. USE DEF Accepting, Deciding
  <1>1. CASE HandlerStep(h)
    <2>1. CASE handler' = Done(h)
      BY <1>0, <2>1 DEF Done, Idle
    <2>2. ASSUME NEW m \in sent, Receive(h, m)
          PROVE  handler'[h].phase \notin Accepting \cup {"releasing"}
      BY <1>0, <2>2 DEF Receive, Idle
    <2>3. CASE Reread(h) /\ handler' # Done(h)
      BY <1>0, <2>3 DEF Reread, Handler
    <2>4. CASE WriteGrant(h) /\ handler' # Done(h)
      BY <1>0, <2>4 DEF WriteGrant, Handler
    <2>5. CASE Consume(h) /\ handler' # Done(h)
      BY <1>0, <2>5 DEF Consume, Handler
    <2>6. CASE ReleaseRead(h) /\ handler' # Done(h)
      BY <1>0, <2>6 DEF ReleaseRead, Handler
    <2>7. CASE Stop(h)
      BY <1>0, <2>7 DEF Stop, Handler
    <2>8. CASE Start(h) /\ handler' # Done(h)
      <3>1. PICK p \in Procs :
              handler' = [handler EXCEPT ![h].phase = "starting", ![h].waits = {p}]
        BY <2>8 DEF Start
      <3>. QED
        BY <1>0, <3>1 DEF Handler
    <2>. QED
      BY <1>1, <2>1, <2>2, <2>3, <2>4, <2>5, <2>6, <2>7, <2>8
      DEF HandlerStep, StartFindsOne, Registered, ReleaseWrite, HandlerFails
  <1>2. ASSUME NEW g \in Handlers, HandlerStep(g), g # h
        PROVE  handler'[h] = handler[h]
    BY <1>2, OneHandlerMoves DEF RemoteInv
  <1>3. ASSUME NEW p \in Procs, Exit(p)
        PROVE  /\ handler'[h].phase = handler[h].phase
               /\ handler'[h].message = handler[h].message
               /\ handler'[h].observed = handler[h].observed
    BY <1>0, <1>3 DEF Exit, Handler
  <1>4. CASE Crash
    BY <1>4 DEF Crash, Idle
  <1>. QED
    BY <1>1, <1>2, <1>3, <1>4
    DEF RemoteNext, PlatformStep, Acquire, Renew, SendGrant, Release, SendCommand,
        Check, Boot, Tick, vars

(* The grant a handler is accepting arrived now, or it has it already.      *)
LEMMA MessageCases ==
  ASSUME RemoteInv, [RemoteNext]_vars, NEW h \in Handlers, handler'[h].phase \in Accepting
  PROVE  \/ \E m \in sent : m.kind = "grant" /\ handler'[h].message = m.record
         \/ /\ handler[h].phase \in Accepting
            /\ handler'[h].message = handler[h].message
  <1>0. handler \in [Handlers -> Handler] /\ handler[h] \in Handler
    BY DEF RemoteInv, Types, HandlersOK
  <1>1. ASSUME NEW m \in sent, Observe(h, m)
        PROVE  m.kind = "grant" /\ handler'[h].message = m.record
    BY <1>0, <1>1 DEF Observe, Idle
  <1>2. CASE Reread(h) \/ Fence(h) \/ WriteGrant(h)
    <2>1. handler[h].phase \in Accepting
      BY <1>2 DEF Reread, Fence, WriteGrant, Accepting
    <2>2. handler' # Done(h)
      BY <1>0 DEF Done, Idle, Accepting
    <2>3. CASE Reread(h)
      <3>. DEFINE fences == handler[h].message.epoch > held.epoch /\ held.state = "active"
                  phase == IF fences THEN "fencing" ELSE "writing"
                  previous == IF fences THEN held.epoch ELSE 0
      <3>1. handler' = [handler EXCEPT ![h].phase = phase, ![h].previous = previous]
        BY <2>2, <2>3 DEF Reread
      <3>. HIDE DEF phase, previous
      <3>. QED
        BY <1>0, <2>1, <3>1 DEF Handler
    <2>4. CASE Fence(h)
      BY <1>0, <2>1, <2>4 DEF Fence, Handler
    <2>5. CASE WriteGrant(h)
      BY <1>0, <2>1, <2>2, <2>5 DEF WriteGrant, Handler
    <2>. QED
      BY <1>2, <2>3, <2>4, <2>5
  <1>. QED
    BY <1>1, <1>2, HandlerCases DEF Accepting

(* The Agent holds, and is sent, no more than was granted. *)
LEMMA PlacedKept == RemoteInv /\ [RemoteNext]_vars => PlacedOK'
  <1>. SUFFICES ASSUME RemoteInv, [RemoteNext]_vars PROVE PlacedOK'
    OBVIOUS
  <1>. USE RemoteAssumption
  <1>0. /\ handler \in [Handlers -> Handler]
        /\ \A h \in Handlers : MessageOK(handler[h])
        /\ sent \subseteq Grants \cup Commands
        /\ placement \in Record /\ held \in Record /\ held' \in Record
        /\ placement' \in Record
    BY NextTypes DEF RemoteInv, Types, HandlersOK, ValuesOK
  <1>1. /\ placement'.epoch >= placement.epoch
        /\ placement'.revision >= placement.revision
    BY PlacementRises
  <1>2. ASSUME NEW r \in Record, GrantOK(r, placement) PROVE GrantOK(r, placement')
    BY <1>0, <1>1, <1>2 DEF GrantOK, Record
  <1>3. ASSUME NEW m \in sent', m.kind = "grant" PROVE GrantOK(m.record, placement')
    <2>1. CASE m \in sent
      <3>1. m.record \in Record /\ GrantOK(m.record, placement)
        BY <1>0, <1>3, <2>1 DEF RemoteInv, PlacedOK, Grants, Commands
      <3>. QED
        BY <1>2, <3>1
    <2>2. CASE SendGrant /\ m \notin sent
      <3>1. m.record = placement /\ placement.state = "active" /\ placement' = placement
        BY <2>2 DEF SendGrant, Owned
      <3>. QED
        BY <1>0, <3>1 DEF GrantOK, Record
    <2>3. \/ SendGrant \/ sent' \subseteq sent
          \/ \E kind \in {"start", "stop"} : SendCommand(kind)
      BY DEF RemoteNext, PlatformStep, HandlerStep, Acquire, Renew, Release, Observe,
             Receive, Reread, Fence, WriteGrant, Consume, StartFindsOne, Start,
             Registered, Stop, ReleaseRead, ReleaseWrite, HandlerFails, Check, Exit,
             Crash, Boot, Tick, vars, platformVars
    <2>4. ASSUME NEW kind \in {"start", "stop"}, SendCommand(kind) PROVE m \in sent
      BY <1>3, <2>4 DEF SendCommand
    <2>. QED
      BY <2>1, <2>2, <2>3, <2>4
  <1>4. ASSUME NEW h \in Handlers, handler'[h].phase \in Accepting
        PROVE  GrantOK(handler'[h].message, placement')
    <2>1. CASE /\ handler[h].phase \in Accepting
               /\ handler'[h].message = handler[h].message
      <3>1. handler[h].message \in Record /\ GrantOK(handler[h].message, placement)
        BY <1>0, <2>1 DEF RemoteInv, PlacedOK, MessageOK
      <3>. QED
        BY <1>2, <2>1, <3>1
    <2>2. ASSUME NEW m \in sent, m.kind = "grant", handler'[h].message = m.record
          PROVE  GrantOK(handler'[h].message, placement')
      <3>1. m.record \in Record /\ GrantOK(m.record, placement)
        BY <1>0, <2>2 DEF RemoteInv, PlacedOK, Grants, Commands
      <3>. QED
        BY <1>2, <2>2, <3>1
    <2>. QED
      BY <1>4, <2>1, <2>2, MessageCases
  <1>5. held'.epoch <= placement'.epoch /\ held'.revision <= placement'.revision
    <2>1. CASE held' = held
      BY <1>0, <1>1, <2>1 DEF RemoteInv, PlacedOK, Record
    <2>2. ASSUME NEW h \in Handlers, WriteGrant(h), held' # held
          PROVE  held'.epoch <= placement'.epoch /\ held'.revision <= placement'.revision
      <3>1. held' = handler[h].message /\ handler[h].phase \in Accepting
        BY <2>2, GrantRises DEF WriteGrant, Accepting
      <3>2. GrantOK(held', placement)
        BY <3>1 DEF RemoteInv, PlacedOK
      <3>. QED
        BY <1>0, <1>1, <3>2 DEF GrantOK, Record
    <2>3. ASSUME NEW h \in Handlers, ReleaseWrite(h), held' # held
          PROVE  held'.epoch <= placement'.epoch /\ held'.revision <= placement'.revision
      BY <1>0, <1>1, <2>3, ReleaseRises DEF RemoteInv, PlacedOK, Record
    <2>. QED
      BY <2>1, <2>2, <2>3, HeldMoves
  <1>6. ASSUME "stop" \in replies' \/ placement'.state = "released"
        PROVE  held'.epoch = placement'.epoch /\ held'.state = "released"
    <2>. DEFINE Released == held.epoch = placement.epoch /\ held.state = "released"
    <2>1. CASE Acquire
      BY <1>6, <2>1 DEF Acquire
    <2>2. CASE Renew
      <3>1. placement'.epoch = placement.epoch /\ placement'.state = placement.state
        BY <1>0, <2>2 DEF Renew, Record
      <3>. QED
        BY <1>6, <2>2, <3>1 DEF Renew, RemoteInv, PlacedOK
    <2>3. CASE Release
      <3>1. placement'.epoch = placement.epoch
        BY <1>0, <2>3 DEF Release, Record
      <3>. QED
        BY <2>3, <3>1 DEF Release, RemoteInv, PlacedOK
    <2>4. ASSUME NEW h \in Handlers, WriteGrant(h)
          PROVE  held'.epoch = placement'.epoch /\ held'.state = "released"
      <3>1. placement' = placement /\ ("stop" \in replies' => "stop" \in replies)
        BY <2>4 DEF WriteGrant, Answer, platformVars
      <3>2. Released
        BY <1>6, <3>1 DEF RemoteInv, PlacedOK
      <3>3. CASE held' # held
        <4>1. held' = handler[h].message /\ Accepts(held') /\ handler[h].phase \in Accepting
          BY <2>4, <3>3, GrantRises DEF WriteGrant, Accepting
        <4>2. GrantOK(held', placement)
          BY <4>1 DEF RemoteInv, PlacedOK
        <4>. QED
          BY <1>0, <3>2, <4>1, <4>2 DEF GrantOK, Accepts, Stale, Conflicts, Record
      <3>. QED
        BY <3>1, <3>2, <3>3
    <2>5. ASSUME NEW h \in Handlers, ReleaseRead(h)
          PROVE  held'.epoch = placement'.epoch /\ held'.state = "released"
      <3>1. placement' = placement /\ held' = held
        BY <2>5 DEF ReleaseRead, platformVars
      <3>2. "stop" \in replies' => "stop" \in replies \/ Released
        BY <2>5 DEF ReleaseRead, Answer
      <3>. QED
        BY <1>6, <3>1, <3>2 DEF RemoteInv, PlacedOK
    <2>6. ASSUME NEW h \in Handlers, ReleaseWrite(h)
          PROVE  held'.epoch = placement'.epoch /\ held'.state = "released"
      <3>1. placement' = placement
        BY <2>6 DEF ReleaseWrite, platformVars
      <3>2. CASE held' # held
        <4>1. /\ held.state = "active" /\ held'.state = "released" /\ held'.epoch = held.epoch
          BY <2>6, <3>2, ReleaseRises
        <4>2. "stop" \in replies' => "stop" \in replies \/ held.epoch = placement.epoch
          BY <2>6 DEF ReleaseWrite, Answer
        <4>. QED
          BY <1>6, <3>1, <4>1, <4>2 DEF RemoteInv, PlacedOK
      <3>3. CASE held' = held
        <4>1. "stop" \in replies' => "stop" \in replies \/ Released
          <5>1. CASE held = handler[h].observed
            <6>1. held.state = "active"
              BY <2>6, <5>1 DEF ReleaseWrite, RemoteInv, DecisionsOK, DecisionOK
            <6>2. held'.state = "released"
              BY <1>0, <2>6, <5>1 DEF ReleaseWrite, Record
            <6>. QED
              BY <3>3, <6>1, <6>2
          <5>2. CASE held # handler[h].observed
            BY <2>6, <5>2 DEF ReleaseWrite
          <5>. QED
            BY <5>1, <5>2
        <4>. QED
          BY <1>6, <3>1, <3>3, <4>1 DEF RemoteInv, PlacedOK
      <3>. QED
        BY <3>2, <3>3
    <2>7. CASE placement' = placement /\ held' = held /\ ("stop" \in replies' => "stop" \in replies)
      BY <1>6, <2>7 DEF RemoteInv, PlacedOK
    <2>8. ASSUME NEW h \in Handlers, Reread(h)
          PROVE  placement' = placement /\ held' = held /\ ("stop" \in replies' => "stop" \in replies)
      BY <2>8 DEF Reread, Answer, platformVars
    <2>9. \/ Acquire \/ Renew \/ Release
          \/ \E h \in Handlers : WriteGrant(h) \/ ReleaseRead(h) \/ ReleaseWrite(h) \/ Reread(h)
          \/ placement' = placement /\ held' = held /\ ("stop" \in replies' => "stop" \in replies)
      <3>1. CASE \E h \in Handlers : HandlerStep(h)
        <4>1. PICK h \in Handlers : HandlerStep(h)
          BY <3>1
        <4>2. CASE \E m \in sent : Observe(h, m) \/ Receive(h, m)
          BY <4>2 DEF Observe, Receive, platformVars
        <4>3. CASE Fence(h) \/ Consume(h) \/ StartFindsOne(h) \/ Start(h) \/ HandlerFails(h)
          BY <4>3 DEF Fence, Consume, StartFindsOne, Start, HandlerFails, platformVars
        <4>4. CASE Registered(h) \/ Stop(h)
          BY <4>4 DEF Registered, Stop, platformVars
        <4>. QED
          BY <4>1, <4>2, <4>3, <4>4 DEF HandlerStep
      <3>2. CASE PlatformStep
        BY <3>2 DEF PlatformStep, SendGrant, SendCommand
      <3>3. CASE \E p \in Procs : Check(p) \/ Exit(p)
        BY <3>3 DEF Check, Exit, platformVars
      <3>4. CASE Crash \/ Boot \/ Tick \/ UNCHANGED vars
        BY <3>4 DEF Crash, Boot, Tick, vars, platformVars
      <3>. QED
        BY <3>1, <3>2, <3>3, <3>4 DEF RemoteNext
    <2>. QED
      BY <2>1, <2>2, <2>3, <2>4, <2>5, <2>6, <2>7, <2>8, <2>9
  <1>. QED
    BY <1>3, <1>4, <1>5, <1>6 DEF PlacedOK

(* Time passes, and what was surrendered stays so. *)
LEMMA HistoryRises ==
  ASSUME RemoteInv, [RemoteNext]_vars
  PROVE  now \in Nat /\ now' \in Nat /\ now' >= now /\ surrendered \subseteq surrendered'
  <1>0. now \in Nat
    BY RemoteAssumption DEF RemoteInv, Types, ValuesOK
  <1>1. now' = now \/ now' = now + 1
    BY DEF RemoteNext, PlatformStep, HandlerStep, Acquire, Renew, SendGrant, Release,
           SendCommand, Observe, Receive, Reread, Fence, WriteGrant, Consume,
           StartFindsOne, Start, Registered, Stop, ReleaseRead, ReleaseWrite,
           HandlerFails, Check, Exit, Crash, Boot, Tick, vars
  <1>2. surrendered \subseteq surrendered'
    BY DEF RemoteNext, PlatformStep, HandlerStep, Acquire, Renew, SendGrant, Release,
           SendCommand, Observe, Receive, Reread, Fence, WriteGrant, Consume,
           StartFindsOne, Start, Registered, Stop, ReleaseRead, ReleaseWrite,
           HandlerFails, Check, Exit, Crash, Boot, Tick, vars, historyVars
  <1>. QED
    BY <1>0, <1>1, <1>2

(* A decision stands for as long as what was observed is held. *)
LEMMA DecisionsKept == RemoteInv /\ [RemoteNext]_vars => DecisionsOK'
  <1>. SUFFICES ASSUME RemoteInv, [RemoteNext]_vars, NEW h \in Handlers
                PROVE  DecisionOK(handler[h])'
    BY DEF DecisionsOK
  <1>. USE DEF Accepting, Deciding
  <1>0. /\ handler \in [Handlers -> Handler] /\ handler[h] \in Handler
        /\ MessageOK(handler[h]) /\ DecisionOK(handler[h])
        /\ held \in Record /\ held' \in Record /\ handler[h].observed \in Record
    BY NextTypes DEF RemoteInv, DecisionsOK, Types, HandlersOK, ValuesOK, Handler
  <1>1. now \in Nat /\ now' \in Nat /\ now' >= now
    BY HistoryRises
  <1>2. ASSUME handler'[h].phase = handler[h].phase,
               handler'[h].message = handler[h].message,
               handler'[h].observed = handler[h].observed
        PROVE  DecisionOK(handler[h])'
    <2>1. CASE held' = held
      <3>1. held.until \in Nat
        BY <1>0 DEF Record
      <3>. QED
        BY <1>0, <1>1, <1>2, <2>1, <3>1
        DEF DecisionOK, Accepts, Stale, Conflicts, Repeats, Above
    <2>2. CASE held' # held
      <3>1. Above(held', held)
        BY <2>2, HeldMoves DEF HeldRises
      <3>2. CASE handler[h].phase \in Accepting \cup {"releasing"}
        <4>1. Above(held', handler[h].observed)
          BY <1>0, <3>1, <3>2, AboveIsStrict DEF DecisionOK
        <4>2. handler[h].observed # held'
          BY <1>0, <4>1, AboveIsStrict
        <4>3. Above(held, handler[h].observed)'
          BY <1>2, <4>1 DEF Above
        <4>. QED
          BY <1>0, <1>2, <4>2, <4>3 DEF DecisionOK
      <3>3. CASE handler[h].phase \notin Accepting \cup {"releasing"}
        BY <1>2, <3>3 DEF DecisionOK
      <3>. QED
        BY <3>2, <3>3
    <2>. QED
      BY <2>1, <2>2
  <1>3. CASE handler'[h].phase \notin Accepting \cup {"releasing"}
    BY <1>3 DEF DecisionOK
  <1>4. ASSUME NEW m \in sent, Observe(h, m) PROVE DecisionOK(handler[h])'
    <2>1. /\ held' = held
          /\ handler'[h].phase = "observed" /\ handler'[h].observed = held
      BY <1>0, <1>4 DEF Observe, Idle
    <2>. QED
      BY <2>1 DEF DecisionOK
  <1>5. CASE Reread(h) /\ handler'[h].phase \in Deciding
    <2>1. /\ handler[h].phase = "observed" /\ held' = held
          /\ handler' # Done(h)
      BY <1>0, <1>5 DEF Reread, Done, Idle
    <2>2. Accepts(handler[h].message)
      BY <1>5, <2>1 DEF Reread, Accepts
    <2>. DEFINE fences == handler[h].message.epoch > held.epoch /\ held.state = "active"
                phase == IF fences THEN "fencing" ELSE "writing"
                previous == IF fences THEN held.epoch ELSE 0
    <2>3. handler' = [handler EXCEPT ![h].phase = phase, ![h].previous = previous]
      BY <1>5, <2>1 DEF Reread
    <2>. HIDE DEF phase, previous
    <2>4. /\ handler'[h].phase = phase
          /\ handler'[h].message = handler[h].message
          /\ handler'[h].observed = handler[h].observed
      BY <1>0, <2>3 DEF Handler
    <2>5. phase = "writing" => ~fences
      BY DEF phase
    <2>6. Accepts(handler[h].message)' /\ phase \in Deciding
      BY <1>5, <2>1, <2>2, <2>4 DEF Accepts, Stale, Conflicts, Repeats
    <2>7. handler[h].observed = held \/ Above(held, handler[h].observed)
      BY <1>0, <2>1 DEF DecisionOK
    <2>. QED
      BY <2>1, <2>4, <2>5, <2>6, <2>7 DEF DecisionOK, Above
  <1>6. CASE Fence(h)
    <2>1. /\ handler[h].phase = "fencing" /\ held' = held /\ now' = now
          /\ held.until <= now
      BY <1>6 DEF Fence, MayFence
    <2>2. /\ handler'[h].phase = "writing"
          /\ handler'[h].message = handler[h].message
          /\ handler'[h].observed = handler[h].observed
      BY <1>0, <1>6 DEF Fence, Handler
    <2>. QED
      BY <1>0, <2>1, <2>2 DEF DecisionOK, Accepts, Stale, Conflicts, Repeats, Above
  <1>7. CASE WriteGrant(h) /\ handler'[h].phase = "observed"
    <2>1. held' = held /\ handler' = [handler EXCEPT ![h].phase = "observed", ![h].observed = held]
      BY <1>0, <1>7 DEF WriteGrant, Done, Idle
    <2>2. handler'[h].observed = held
      BY <1>0, <2>1 DEF Handler
    <2>. QED
      BY <1>7, <2>1, <2>2 DEF DecisionOK
  <1>8. CASE ReleaseRead(h) /\ handler'[h].phase = "releasing"
    <2>1. /\ held' = held /\ held.state = "active"
          /\ handler' = [handler EXCEPT ![h].phase = "releasing", ![h].observed = held]
      BY <1>0, <1>8 DEF ReleaseRead, Done, Idle
    <2>2. handler'[h].observed = held
      BY <1>0, <2>1 DEF Handler
    <2>. QED
      BY <1>8, <2>1, <2>2 DEF DecisionOK
  <1>. QED
    BY <1>2, <1>3, <1>4, <1>5, <1>6, <1>7, <1>8, HandlerCases

(* What covers a process now covers it after the step. *)
LEMMA CoverLasts ==
  ASSUME RemoteInv, [RemoteNext]_vars, NEW r \in Proc, Covered(r)
  PROVE  Covered(r)'
  <1>. USE RemoteAssumption
  <1>0. /\ now \in Nat /\ now' \in Nat /\ now' >= now /\ surrendered \subseteq surrendered'
        /\ held \in Record /\ held' \in Record
    BY HistoryRises, NextTypes DEF RemoteInv, Types, ValuesOK
  <1>1. /\ r.epoch \in Nat /\ r.deadline \in Nat
        /\ held.epoch \in Nat /\ held.until \in Nat
        /\ held'.epoch \in Nat /\ held'.until \in Nat
    BY <1>0 DEF Proc, Record
  <1>2. CASE held' = held
    BY <1>0, <1>1, <1>2 DEF Covered
  <1>3. ASSUME NEW h \in Handlers, WriteGrant(h), held' # held PROVE Covered(r)'
    <2>1. HeldRises /\ held' = handler[h].message /\ handler[h].phase \in Accepting
      BY <1>3, GrantRises DEF WriteGrant, Accepting
    <2>2. held'.state = "active"
      BY <2>1 DEF RemoteInv, PlacedOK, GrantOK
    <2>. QED
      BY <1>0, <1>1, <2>1, <2>2 DEF Covered, HeldRises, Above
  <1>4. ASSUME NEW h \in Handlers, ReleaseWrite(h), held' # held PROVE Covered(r)'
    <2>1. held.epoch \in surrendered'
      BY <1>4, ReleaseRises
    <2>. QED
      BY <1>0, <1>1, <2>1 DEF Covered
  <1>. QED
    BY <1>2, <1>3, <1>4, HeldMoves

(* Every supervised process stays covered. *)
LEMMA CoversKept == RemoteInv /\ [RemoteNext]_vars => CoversOK'
  <1>. SUFFICES ASSUME RemoteInv, [RemoteNext]_vars, NEW p \in Procs
                PROVE  Covered(proc[p])'
    BY DEF CoversOK
  <1>0. /\ proc \in [Procs -> Proc] /\ proc[p] \in Proc /\ Covered(proc[p])
        /\ handler \in [Handlers -> Handler]
        /\ now \in Nat /\ held \in Record /\ held.until \in Nat
    BY RemoteAssumption
    DEF RemoteInv, CoversOK, Types, HandlersOK, ProcsOK, ValuesOK, Record
  <1>1. CASE /\ proc'[p].epoch = proc[p].epoch /\ proc'[p].deadline = proc[p].deadline
             /\ proc[p].phase \in {"spawning", "running"}
    BY <1>0, <1>1, CoverLasts DEF Covered
  <1>2. CASE proc'[p].phase \notin {"spawning", "running"}
    BY <1>2 DEF Covered
  <1>3. CASE proc' = proc
    BY <1>0, <1>3, CoverLasts DEF Covered
  <1>4. ASSUME NEW h \in Handlers, Fence(h) \/ Stop(h) PROVE Covered(proc[p])'
    <2>1. proc'[p] \in {proc[p], Stopped(proc[p])}
      BY <1>4 DEF Fence, Stop
    <2>2. Stopped(proc[p]) = proc[p] \/ Stopped(proc[p]).phase = "stopping"
      BY DEF Stopped, Ended, NoProc
    <2>3. proc'[p] = proc[p] \/ proc'[p].phase = "stopping"
      BY <2>1, <2>2
    <2>. QED
      BY <1>1, <1>2, <2>3
  <1>5. ASSUME NEW h \in Handlers, Start(h) PROVE Covered(proc[p])'
    <2>1. CASE proc'[p] = proc[p]
      BY <1>1, <1>2, <2>1
    <2>2. CASE proc'[p] # proc[p]
      <3>1. /\ LeaseOf(handler[h].message.epoch) /\ held' = held
            /\ proc' = [proc EXCEPT ![p] = [NoProc EXCEPT
                 !.phase = "spawning", !.epoch = handler[h].message.epoch,
                 !.deadline = held.until]]
        BY <1>0, <1>5, <2>2 DEF Start
      <3>2. proc'[p].epoch = held.epoch /\ proc'[p].deadline = held.until
        BY <1>0, <3>1 DEF NoProc, LeaseOf
      <3>. QED
        BY <1>0, <3>1, <3>2 DEF Covered, LeaseOf
    <2>. QED
      BY <2>1, <2>2
  <1>6. ASSUME NEW h \in Handlers, Registered(h) PROVE Covered(proc[p])'
    <2>1. \/ proc'[p] = proc[p] \/ proc'[p].phase = "stopping"
          \/ /\ proc'[p] = [proc[p] EXCEPT !.phase = "running"]
             /\ proc[p].phase = "spawning"
      BY <1>0, <1>6 DEF Registered, Ended, NoProc, RemoteInv, StartsOK, Starting
    <2>. QED
      BY <1>0, <1>1, <1>2, <2>1 DEF Proc
  <1>7. ASSUME NEW q \in Procs, Check(q) PROVE Covered(proc[p])'
    <2>1. CASE q # p
      <3>1. proc'[p] = proc[p]
        BY <1>0, <1>7, <2>1 DEF Check
      <3>. QED
        BY <1>1, <1>2, <3>1
    <2>2. CASE q = p /\ proc'[p] = [proc[p] EXCEPT !.deadline = held.until]
                     /\ LeaseOf(proc[p].epoch)
      <3>1. proc'[p].epoch = held.epoch /\ proc'[p].deadline = held.until /\ held' = held
        BY <1>0, <1>7, <2>2 DEF Check, LeaseOf, Proc
      <3>. QED
        BY <1>0, <2>2, <3>1 DEF Covered, LeaseOf
    <2>3. CASE q = p /\ proc'[p] = Fenced(proc[p])
      <3>1. proc'[p].phase = "stopping" \/ proc'[p].deadline = 0
        BY <1>0, <2>3 DEF Fenced, Stopped, Ended, NoProc, Proc
      <3>2. now' = now
        BY <1>7 DEF Check
      <3>. QED
        BY <1>0, <3>1, <3>2 DEF Covered
    <2>. QED
      BY <1>0, <1>7, <2>1, <2>2, <2>3 DEF Check
  <1>8. ASSUME NEW q \in Procs, Exit(q) PROVE Covered(proc[p])'
    <2>1. proc'[p] = proc[p] \/ proc'[p].phase = "none"
      BY <1>0, <1>8 DEF Exit, NoProc
    <2>. QED
      BY <1>1, <1>2, <2>1
  <1>9. CASE Crash
    <2>1. proc'[p].phase \in {"none", "orphan"}
      BY <1>0, <1>9 DEF Crash, NoProc, Ended
    <2>. QED
      BY <1>2, <2>1
  <1>10. \/ \E h \in Handlers : Fence(h) \/ Stop(h) \/ Start(h) \/ Registered(h)
         \/ \E q \in Procs : Check(q) \/ Exit(q)
         \/ Crash \/ UNCHANGED proc
    BY DEF RemoteNext, PlatformStep, HandlerStep, Acquire, Renew, SendGrant, Release,
           SendCommand, Observe, Receive, Reread, WriteGrant, Consume, StartFindsOne,
           ReleaseRead, ReleaseWrite, HandlerFails, Boot, Tick, vars
  <1>. QED
    BY <1>3, <1>4, <1>5, <1>6, <1>7, <1>8, <1>9, <1>10

-----------------------------------------------------------------------------
(* The theorems. *)

(* The invariant holds throughout. *)
LEMMA RemoteInductive == RemoteSpec => []RemoteInv
  <1>1. RemoteInv /\ [RemoteNext]_vars => RemoteInv'
    BY NextTypes, PlacedKept, DecisionsKept, WaitsKept, StartsKept, OnceKept,
       CoversKept
    DEF RemoteInv
  <1>. QED
    BY RemoteInitInv, <1>1, PTL DEF RemoteSpec

(* Types; the parts of the Agent agree on processes, nonces and handlers    *)
(* (adapters/_remote-project-agent.ts, core/agent/project-dispatch.ts).     *)
THEOREM RemoteTypeCorrect == RemoteSpec => []RemoteTypeOK
  <1>1. RemoteInv => RemoteTypeOK
    BY DEF RemoteInv, Types, ValuesOK, HandlersOK, ProcsOK, PlacedOK, WaitsOK, OnceOK,
           RemoteTypeOK, MessageOK, Handler
  <1>. QED
    BY RemoteInductive, <1>1, PTL

(* A placement the Platform has released is released at the Agent, whatever *)
(* grants are under way (accept and release in remote-placement.ts).        *)
THEOREM ReleaseIsFinal == RemoteSpec => []ReleasedThereToo
  <1>1. RemoteInv => ReleasedThereToo
    BY DEF RemoteInv, PlacedOK, ReleasedThereToo
  <1>. QED
    BY RemoteInductive, <1>1, PTL

(* No nonce is carried out twice, over any number of deliveries, handlers   *)
(* and crashes (receiveProjectDispatch in project-dispatch.ts).             *)
THEOREM CommandsRunOnce == RemoteSpec => []CommandRunsOnce
  <1>1. RemoteInv => CommandRunsOnce
    BY DEF RemoteInv, OnceOK, CommandRunsOnce
  <1>. QED
    BY RemoteInductive, <1>1, PTL

(* Under a newer placement, only a process of a surrendered epoch is in     *)
(* service (accept's fencing in remote-placement.ts).                       *)
THEOREM OldProcessesAreFenced == RemoteSpec => []OnlySurrenderedOutlive
  <1>1. RemoteInv => OnlySurrenderedOutlive
    <2>. SUFFICES ASSUME RemoteInv, NEW p \in Procs, InService(p), proc[p].epoch < held.epoch
                  PROVE  proc[p].epoch \in surrendered
      BY DEF OnlySurrenderedOutlive
    <2>1. proc[p] \in Proc /\ Covered(proc[p]) /\ now \in Nat
      BY RemoteAssumption DEF RemoteInv, CoversOK, Types, ProcsOK, ValuesOK
    <2>2. held.epoch \in Nat
      BY RemoteAssumption DEF RemoteInv, Types, ValuesOK, Record
    <2>. QED
      BY <2>1, <2>2 DEF Covered, InService, Proc
  <1>. QED
    BY RemoteInductive, <1>1, PTL

(* Epoch, revision and lease of the high-water record never fall, and a     *)
(* released epoch stays so (remote-placement.ts:124).                       *)
THEOREM HighWaterIsMonotone == RemoteSpec => HighWaterRises
  <1>1. ASSUME RemoteInv, [RemoteNext]_vars
        PROVE  [\/ held.epoch < held'.epoch
                \/ /\ held.epoch = held'.epoch /\ held.state = "active"
                   /\ held.revision <= held'.revision /\ held.until <= held'.until]_held
    <2>. SUFFICES ASSUME held' # held
                  PROVE  \/ held.epoch < held'.epoch
                         \/ /\ held.epoch = held'.epoch /\ held.state = "active"
                            /\ held.revision <= held'.revision /\ held.until <= held'.until
      OBVIOUS
    <2>1. Above(held', held)
      BY <1>1, HeldMoves DEF HeldRises
    <2>2. held.epoch \in Nat /\ held'.epoch \in Nat
      BY <1>1, NextTypes, RemoteAssumption DEF RemoteInv, Types, ValuesOK, Record
    <2>. QED
      BY <2>1, <2>2 DEF Above
  <1>. QED
    BY RemoteInductive, <1>1, PTL DEF RemoteSpec, HighWaterRises

(* An active placement gives way to a newer one only when its lease is over *)
(* by the Agent's clock (accept in remote-placement.ts).                    *)
THEOREM LiveLeasesStay == RemoteSpec => LiveLeaseStays
  <1>1. ASSUME RemoteInv, [RemoteNext]_vars
        PROVE  [held.state = "active" /\ held'.epoch > held.epoch => held.until <= now]_held
    BY <1>1, HeldMoves DEF HeldRises
  <1>. QED
    BY RemoteInductive, <1>1, PTL DEF RemoteSpec, LiveLeaseStays

-----------------------------------------------------------------------------
(* How far a placement reaches. *)

(* What somebody holds of a placement does not reach further than the       *)
(* authority's record of it did: past a superseded one the Platform's clock *)
(* has gone, unless it was surrendered.                                     *)
Reaches(e, u, record, given, clock) ==
  /\ e <= record.epoch
  /\ e = record.epoch => u <= record.until
  /\ e < record.epoch => e \in given \/ u <= clock

Within(e, u) == Reaches(e, u, placement, surrendered, PlatformNow)

ReachOK ==
  /\ \A m \in sent : m.kind = "grant" => Within(m.record.epoch, m.record.until)
  /\ \A h \in Handlers : handler[h].phase \in Accepting =>
       Within(handler[h].message.epoch, handler[h].message.until)
  /\ Within(held.epoch, held.until)
  /\ \A p \in Procs : Within(proc[p].epoch, proc[p].deadline)
  /\ held.state = "released" => held.epoch \in surrendered
  /\ placement.state = "absent" => placement.until = 0

(* How the authority's record moves. *)
LEMMA PlacementMoves ==
  ASSUME RemoteInv, [RemoteNext]_vars
  PROVE  \/ UNCHANGED placement
         \/ /\ Acquire /\ placement'.epoch = placement.epoch + 1
            /\ placement'.until \in Nat /\ placement'.state = "active"
         \/ /\ Renew \/ Release
            /\ placement'.epoch = placement.epoch /\ placement'.until >= placement.until
            /\ placement'.state \in {"active", "released"}
  <1>. USE RemoteAssumption DEF PlatformNow
  <1>0. placement \in Record /\ placement.until \in Nat /\ now \in Nat
    BY DEF RemoteInv, Types, ValuesOK, Record
  <1>1. CASE Acquire
    BY <1>0, <1>1 DEF Acquire
  <1>2. CASE Renew
    <2>. DEFINE until == IF placement.until >= PlatformNow + LeaseMs
                           THEN placement.until ELSE PlatformNow + LeaseMs
    <2>1. until \in Nat /\ until >= placement.until
      BY <1>0
    <2>2. placement' = [placement EXCEPT !.revision = @ + 1, !.until = until]
      BY <1>2 DEF Renew
    <2>3. placement.state = "active"
      BY <1>2 DEF Renew, Owned
    <2>. HIDE DEF until
    <2>. QED
      BY <1>0, <1>2, <2>1, <2>2, <2>3 DEF Record
  <1>3. CASE Release
    <2>1. placement'.epoch = placement.epoch /\ placement'.until = placement.until
          /\ placement'.state = "released"
      BY <1>0, <1>3 DEF Release, Record
    <2>. QED
      BY <1>0, <1>3, <2>1
  <1>4. Acquire \/ Renew \/ Release \/ UNCHANGED placement
    BY DEF RemoteNext, PlatformStep, HandlerStep, SendGrant, SendCommand, Observe,
           Receive, Reread, Fence, WriteGrant, Consume, StartFindsOne, Start,
           Registered, Stop, ReleaseRead, ReleaseWrite, HandlerFails, Check, Exit,
           Crash, Boot, Tick, vars, platformVars
  <1>. QED
    BY <1>1, <1>2, <1>3, <1>4

(* The Platform's clock does not fall. *)
LEMMA PlatformRises ==
  ASSUME RemoteInv, [RemoteNext]_vars
  PROVE  \A u \in Nat : u <= PlatformNow => u <= PlatformNow'
  <1>1. \A u, a, b, s \in Nat : a <= b /\ u <= a + s => u <= b + s
    OBVIOUS
  <1>2. now \in Nat /\ now' \in Nat /\ now <= now' /\ Skew \in Nat
    BY HistoryRises, RemoteAssumption
  <1>. QED
    BY <1>1, <1>2 DEF PlatformNow

(* What is within the authority's record stays within it. *)
LEMMA WithinLasts ==
  ASSUME RemoteInv, ReachOK, [RemoteNext]_vars,
         NEW e \in Nat, NEW u \in Nat, Within(e, u)
  PROVE  Reaches(e, u, placement', surrendered', PlatformNow')
  <1>. USE RemoteAssumption
  <1>0. /\ now \in Nat /\ now' \in Nat /\ now' >= now /\ surrendered \subseteq surrendered'
        /\ placement.epoch \in Nat /\ placement.until \in Nat
        /\ u <= PlatformNow => u <= PlatformNow'
    BY HistoryRises, PlatformRises DEF RemoteInv, Types, ValuesOK, Record
  <1>1. CASE UNCHANGED placement
    BY <1>0, <1>1 DEF Within, Reaches
  <1>2. CASE /\ placement'.epoch = placement.epoch
             /\ placement'.until \in Nat /\ placement'.until >= placement.until
    BY <1>0, <1>2 DEF Within, Reaches
  <1>3. CASE Acquire /\ placement'.epoch = placement.epoch + 1
    <2>1. CASE placement.state = "active"
      <3>1. placement.until <= PlatformNow /\ now' = now
        BY <1>3, <2>1 DEF Acquire
      <3>2. PlatformNow \in Nat /\ PlatformNow' = PlatformNow
        BY <1>0, <3>1 DEF PlatformNow
      <3>. HIDE DEF PlatformNow
      <3>3. e = placement.epoch => u <= PlatformNow
        BY <1>0, <3>1, <3>2 DEF Within, Reaches
      <3>. QED
        BY <1>0, <1>3, <3>2, <3>3 DEF Within, Reaches
    <2>2. CASE placement.state = "released"
      <3>1. placement.epoch \in surrendered
        BY <2>2 DEF RemoteInv, PlacedOK, ReachOK
      <3>. QED
        BY <1>0, <1>3, <3>1 DEF Within, Reaches
    <2>3. CASE placement.state = "absent"
      <3>1. placement.until <= PlatformNow /\ PlatformNow \in Nat
        BY <1>0, <2>3 DEF ReachOK, PlatformNow
      <3>2. e = placement.epoch => u <= PlatformNow
        BY <1>0, <3>1 DEF Within, Reaches
      <3>. QED
        BY <1>0, <1>3, <3>2 DEF Within, Reaches
    <2>. QED
      BY <2>1, <2>2, <2>3 DEF RemoteInv, Types, ValuesOK, Record
  <1>4. placement'.until \in Nat
    BY NextTypes DEF RemoteInv, Types, ValuesOK, Record
  <1>. QED
    BY <1>1, <1>2, <1>3, <1>4, PlacementMoves

(* The initial state. *)
LEMMA ReachInit == RemoteInit => ReachOK
  BY RemoteAssumption
  DEF RemoteInit, ReachOK, Within, Reaches, Absent, Idle, Accepting, NoProc

(* Grants on their way. *)
LEMMA SentReach ==
  ASSUME RemoteInv, ReachOK, [RemoteNext]_vars, NEW m \in sent', m.kind = "grant"
  PROVE  Within(m.record.epoch, m.record.until)'
  <1>. USE RemoteAssumption
  <1>0. /\ sent \subseteq Grants \cup Commands
        /\ placement \in Record /\ placement.epoch \in Nat /\ placement.until \in Nat
    BY DEF RemoteInv, Types, ValuesOK, Record
  <1>1. CASE m \in sent
    <2>1. m.record \in Record
      BY <1>0, <1>1 DEF Grants, Commands
    <2>2. m.record.epoch \in Nat /\ m.record.until \in Nat
      BY <2>1 DEF Record
    <2>. QED
      BY <1>1, <2>2, WithinLasts DEF ReachOK, Within
  <1>2. CASE SendGrant /\ m \notin sent
    <2>1. m.record = placement /\ placement' = placement
      BY <1>2 DEF SendGrant
    <2>. QED
      BY <1>0, <2>1 DEF Within, Reaches
  <1>3. \/ SendGrant \/ sent' \subseteq sent
        \/ \E kind \in {"start", "stop"} : SendCommand(kind)
    BY DEF RemoteNext, PlatformStep, HandlerStep, Acquire, Renew, Release, Observe,
           Receive, Reread, Fence, WriteGrant, Consume, StartFindsOne, Start,
           Registered, Stop, ReleaseRead, ReleaseWrite, HandlerFails, Check, Exit,
           Crash, Boot, Tick, vars, platformVars
  <1>4. ASSUME NEW kind \in {"start", "stop"}, SendCommand(kind) PROVE m \in sent
    BY <1>4 DEF SendCommand
  <1>. QED
    BY <1>1, <1>2, <1>3, <1>4

(* Grants being accepted. *)
LEMMA MessageReach ==
  ASSUME RemoteInv, ReachOK, [RemoteNext]_vars,
         NEW h \in Handlers, handler'[h].phase \in Accepting
  PROVE  Within(handler[h].message.epoch, handler[h].message.until)'
  <1>. USE RemoteAssumption
  <1>1. ASSUME NEW r \in Record, Within(r.epoch, r.until), handler'[h].message = r
        PROVE  Within(handler[h].message.epoch, handler[h].message.until)'
    <2>1. r.epoch \in Nat /\ r.until \in Nat
      BY DEF Record
    <2>. QED
      BY <1>1, <2>1, WithinLasts DEF Within
  <1>2. ASSUME NEW m \in sent, m.kind = "grant"
        PROVE  m.record \in Record /\ Within(m.record.epoch, m.record.until)
    BY <1>2 DEF ReachOK, RemoteInv, Types, ValuesOK, Grants, Commands
  <1>3. ASSUME handler[h].phase \in Accepting
        PROVE  /\ handler[h].message \in Record
               /\ Within(handler[h].message.epoch, handler[h].message.until)
    BY <1>3 DEF ReachOK, RemoteInv, Types, HandlersOK, MessageOK
  <1>. QED
    BY <1>1, <1>2, <1>3, MessageCases

(* The Agent's record. *)
LEMMA HeldReach ==
  ASSUME RemoteInv, ReachOK, [RemoteNext]_vars
  PROVE  /\ Within(held.epoch, held.until)'
         /\ (held.state = "released" => held.epoch \in surrendered)'
  <1>. USE RemoteAssumption
  <1>0. /\ held \in Record /\ held.epoch \in Nat /\ held.until \in Nat
        /\ surrendered \subseteq surrendered'
    BY HistoryRises DEF RemoteInv, Types, ValuesOK, Record
  <1>1. Within(held.epoch, held.until) /\ (held.state = "released" => held.epoch \in surrendered)
    BY DEF ReachOK
  <1>2. ASSUME held'.epoch = held.epoch, held'.until = held.until
        PROVE  Within(held.epoch, held.until)'
    BY <1>0, <1>1, <1>2, WithinLasts DEF Within
  <1>3. CASE held' = held
    BY <1>0, <1>1, <1>2, <1>3
  <1>4. ASSUME NEW h \in Handlers, WriteGrant(h), held' # held
        PROVE  /\ Within(held.epoch, held.until)'
               /\ (held.state = "released" => held.epoch \in surrendered)'
    <2>1. held' = handler[h].message /\ handler[h].phase \in Accepting
      BY <1>4, GrantRises DEF WriteGrant, Accepting
    <2>2. held' \in Record /\ held'.state = "active"
      BY <2>1, NextTypes DEF RemoteInv, PlacedOK, GrantOK, Types, ValuesOK
    <2>3. held'.epoch \in Nat /\ held'.until \in Nat
      BY <2>2 DEF Record
    <2>4. Within(handler[h].message.epoch, handler[h].message.until)
      BY <2>1 DEF ReachOK
    <2>. QED
      BY <2>1, <2>2, <2>3, <2>4, WithinLasts DEF Within
  <1>5. ASSUME NEW h \in Handlers, ReleaseWrite(h), held' # held
        PROVE  /\ Within(held.epoch, held.until)'
               /\ (held.state = "released" => held.epoch \in surrendered)'
    <2>1. held' = [held EXCEPT !.state = "released"] /\ surrendered' = surrendered \cup {held.epoch}
      BY <1>5 DEF ReleaseWrite
    <2>2. held'.epoch = held.epoch /\ held'.until = held.until
      BY <1>0, <2>1 DEF Record
    <2>. QED
      BY <1>2, <2>1, <2>2
  <1>. QED
    BY <1>3, <1>4, <1>5, HeldMoves

(* The processes. *)
LEMMA ProcReach ==
  ASSUME RemoteInv, ReachOK, [RemoteNext]_vars, NEW p \in Procs
  PROVE  Within(proc[p].epoch, proc[p].deadline)'
  <1>. USE RemoteAssumption
  <1>0. /\ proc \in [Procs -> Proc] /\ proc[p].epoch \in Nat /\ proc[p].deadline \in Nat
        /\ held.epoch \in Nat /\ held.until \in Nat
        /\ placement'.epoch \in Nat /\ placement'.until \in Nat
        /\ now' \in Nat
    BY NextTypes DEF RemoteInv, Types, ProcsOK, Proc, ValuesOK, Record
  <1>1. ASSUME NEW e \in Nat, NEW u \in Nat, Within(e, u),
               proc'[p].epoch = e, proc'[p].deadline = u
        PROVE  Within(proc[p].epoch, proc[p].deadline)'
    BY <1>1, WithinLasts DEF Within
  <1>2. ASSUME NEW e \in Nat, NEW u \in Nat, Within(e, u) PROVE Within(e, 0)
    <2>1. placement.until \in Nat /\ PlatformNow \in Nat
      BY DEF RemoteInv, Types, ValuesOK, Record, PlatformNow
    <2>. QED
      BY <1>2, <2>1 DEF Within, Reaches
  <1>3. Within(proc[p].epoch, proc[p].deadline) /\ Within(held.epoch, held.until)
    BY DEF ReachOK
  <1>4. CASE proc'[p].epoch = proc[p].epoch /\ proc'[p].deadline \in {0, proc[p].deadline}
    BY <1>0, <1>1, <1>2, <1>3, <1>4
  <1>5. CASE proc'[p].epoch = held.epoch /\ proc'[p].deadline = held.until
    BY <1>0, <1>1, <1>3, <1>5
  <1>6. CASE proc'[p] = NoProc
    <2>1. PlatformNow' \in Nat
      <3>1. \A t \in Nat : t + Skew \in Nat
        OBVIOUS
      <3>. QED
        BY <1>0, <3>1 DEF PlatformNow
    <2>2. proc'[p].epoch = 0 /\ proc'[p].deadline = 0
      BY <1>6 DEF NoProc
    <2>. QED
      BY <1>0, <2>1, <2>2 DEF Within, Reaches
  <1>7. ASSUME NEW h \in Handlers, Fence(h) \/ Stop(h)
        PROVE  proc'[p].epoch = proc[p].epoch /\ proc'[p].deadline \in {0, proc[p].deadline}
    <2>1. proc'[p] \in {proc[p], Stopped(proc[p])}
      BY <1>7 DEF Fence, Stop
    <2>. QED
      BY <2>1 DEF Stopped, Ended, NoProc
  <1>8. ASSUME NEW h \in Handlers, Start(h)
        PROVE  \/ proc'[p] = proc[p]
               \/ proc'[p].epoch = held.epoch /\ proc'[p].deadline = held.until
    <2>1. CASE proc'[p] # proc[p]
      <3>1. /\ LeaseOf(handler[h].message.epoch)
            /\ proc' = [proc EXCEPT ![p] = [NoProc EXCEPT
                 !.phase = "spawning", !.epoch = handler[h].message.epoch,
                 !.deadline = held.until]]
        BY <1>0, <1>8, <2>1 DEF Start
      <3>. QED
        BY <1>0, <3>1 DEF NoProc, LeaseOf
    <2>. QED
      BY <2>1
  <1>9. ASSUME NEW h \in Handlers, Registered(h)
        PROVE  proc'[p].epoch = proc[p].epoch /\ proc'[p].deadline \in {0, proc[p].deadline}
    <2>1. \/ proc'[p] = proc[p] \/ proc'[p] = Ended(proc[p], "stopping")
          \/ proc'[p] = [proc[p] EXCEPT !.phase = "running"]
      BY <1>0, <1>9 DEF Registered
    <2>. QED
      BY <1>0, <2>1 DEF Ended, NoProc, Proc
  <1>10. ASSUME NEW q \in Procs, Check(q)
         PROVE  \/ proc'[p].epoch = proc[p].epoch /\ proc'[p].deadline \in {0, proc[p].deadline}
                \/ proc'[p].epoch = held.epoch /\ proc'[p].deadline = held.until
    <2>1. CASE q # p
      BY <1>0, <1>10, <2>1 DEF Check
    <2>2. CASE q = p /\ LeaseOf(proc[p].epoch)
                     /\ proc'[p] = [proc[p] EXCEPT !.deadline = held.until]
      BY <1>0, <2>2 DEF LeaseOf, Proc
    <2>3. CASE q = p /\ proc'[p] = Fenced(proc[p])
      BY <1>0, <2>3 DEF Fenced, Stopped, Ended, NoProc, Proc
    <2>. QED
      BY <1>0, <1>10, <2>1, <2>2, <2>3 DEF Check
  <1>11. ASSUME NEW q \in Procs, Exit(q) PROVE proc'[p] = proc[p] \/ proc'[p] = NoProc
    BY <1>0, <1>11 DEF Exit
  <1>12. CASE Crash
    <2>1. proc'[p] = NoProc \/ proc'[p] = Ended(proc[p], "orphan")
      BY <1>0, <1>12 DEF Crash
    <2>2. Ended(proc[p], "orphan").epoch = proc[p].epoch /\ Ended(proc[p], "orphan").deadline = 0
      BY DEF Ended, NoProc
    <2>. QED
      BY <1>4, <1>6, <2>1, <2>2
  <1>13. \/ \E h \in Handlers : Fence(h) \/ Stop(h) \/ Start(h) \/ Registered(h)
         \/ \E q \in Procs : Check(q) \/ Exit(q)
         \/ Crash \/ UNCHANGED proc
    BY DEF RemoteNext, PlatformStep, HandlerStep, Acquire, Renew, SendGrant, Release,
           SendCommand, Observe, Receive, Reread, WriteGrant, Consume, StartFindsOne,
           ReleaseRead, ReleaseWrite, HandlerFails, Boot, Tick, vars
  <1>14. CASE proc'[p] = proc[p]
    BY <1>4, <1>14
  <1>. QED
    BY <1>4, <1>5, <1>6, <1>7, <1>8, <1>9, <1>10, <1>11, <1>12, <1>13, <1>14

(* The reach is kept. *)
LEMMA ReachKept == RemoteInv /\ ReachOK /\ [RemoteNext]_vars => ReachOK'
  <1>. SUFFICES ASSUME RemoteInv, ReachOK, [RemoteNext]_vars PROVE ReachOK'
    OBVIOUS
  <1>1. (placement.state = "absent" => placement.until = 0)'
    BY PlacementMoves DEF ReachOK
  <1>2. \A m \in sent' : m.kind = "grant" => Within(m.record.epoch, m.record.until)'
    BY SentReach
  <1>3. \A h \in Handlers : handler'[h].phase \in Accepting =>
          Within(handler[h].message.epoch, handler[h].message.until)'
    BY MessageReach
  <1>4. \A p \in Procs : Within(proc[p].epoch, proc[p].deadline)'
    BY ProcReach
  <1>. QED
    BY <1>1, <1>2, <1>3, <1>4, HeldReach DEF ReachOK

(* Nothing the Agent or the network holds of a placement reaches further    *)
(* than the authority let it. *)
LEMMA ReachInductive == RemoteSpec => []ReachOK
  BY ReachInit, ReachKept, RemoteInductive, PTL DEF RemoteSpec

(* A process of a superseded placement is in service only by as much as its *)
(* Node's clock is behind, or after its placement was surrendered: acquire   *)
(* in project-placement-authority.ts, accept and release in                  *)
(* remote-placement.ts and the supervisor's deadline, taken together.        *)
THEOREM OverlapIsBounded == RemoteSpec => []OverlapWithinSkew
  <1>1. ReachOK => OverlapWithinSkew
    BY DEF ReachOK, OverlapWithinSkew, Within, Reaches
  <1>. QED
    BY <1>1, ReachInductive, PTL

-----------------------------------------------------------------------------
(* The record behind the handlers. *)

(* A grant that is written supersedes the record or extends it. *)
LEMMA GrantIsOneStep ==
  ASSUME RemoteInv, [RemoteNext]_vars, NEW h \in Handlers, WriteGrant(h), held' # held
  PROVE  HighWater!Supersede \/ HighWater!Extend
  <1>. USE RemoteAssumption
  <1>1. /\ HeldRises /\ held' = handler[h].message /\ now' = now
        /\ handler[h].phase \in Accepting
    BY GrantRises DEF WriteGrant, Accepting
  <1>2. /\ held'.state = "active" /\ held \in Record /\ held' \in Record
        /\ held.epoch \in Nat /\ held'.epoch \in Nat
        /\ held.revision \in Nat /\ held'.revision \in Nat
        /\ held.until \in Nat /\ held'.until \in Nat
    BY <1>1, NextTypes DEF RemoteInv, PlacedOK, GrantOK, Types, ValuesOK, Record
  <1>3. CASE held'.epoch > held.epoch
    BY <1>1, <1>2, <1>3 DEF HeldRises, HighWater!Supersede, HighWater!Active
  <1>4. CASE ~(held'.epoch > held.epoch)
    BY <1>1, <1>2, <1>4 DEF HeldRises, Above, HighWater!Extend, HighWater!Active
  <1>. QED
    BY <1>3, <1>4

(* Every step of the Agent and the Platform is one of the record, or none. *)
LEMMA HighWaterStep ==
  ASSUME RemoteInv, [RemoteNext]_vars
  PROVE  [HighWater!Next]_HighWater!vars
  <1>. USE DEF HighWater!Next, HighWater!vars
  <1>1. ASSUME NEW h \in Handlers, WriteGrant(h), held' # held
        PROVE  HighWater!Next
    BY <1>1, GrantIsOneStep
  <1>2. ASSUME NEW h \in Handlers, ReleaseWrite(h), held' # held
        PROVE  HighWater!Next
    <2>1. held.state = "active" /\ held' = [held EXCEPT !.state = "released"] /\ now' = now
      BY <1>2, ReleaseRises DEF ReleaseWrite
    <2>. QED
      BY <2>1 DEF HighWater!GiveUp, HighWater!Active
  <1>3. CASE Tick
    BY <1>3 DEF Tick, HighWater!Tick
  <1>4. Tick \/ now' = now
    BY DEF RemoteNext, PlatformStep, HandlerStep, Acquire, Renew, SendGrant, Release,
           SendCommand, Observe, Receive, Reread, Fence, WriteGrant, Consume,
           StartFindsOne, Start, Registered, Stop, ReleaseRead, ReleaseWrite,
           HandlerFails, Check, Exit, Crash, Boot, vars
  <1>. QED
    BY <1>1, <1>2, <1>3, <1>4, HeldMoves

(* The handlers of accept and release implement a high-water record that    *)
(* changes in one step (remote-placement.ts:124).                           *)
THEOREM AgentImplementsHighWater == RemoteSpec => ImplementsHighWater
  <1>1. RemoteInit => HighWater!Init
    BY DEF RemoteInit, HighWater!Init
  <1>2. RemoteInv /\ [RemoteNext]_vars => [HighWater!Next]_HighWater!vars
    BY HighWaterStep
  <1>. QED
    BY RemoteInductive, <1>1, <1>2, PTL DEF RemoteSpec, ImplementsHighWater, HighWater!Spec
=============================================================================
