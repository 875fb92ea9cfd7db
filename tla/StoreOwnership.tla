---------------------------- MODULE StoreOwnership ----------------------------
(***************************************************************************)
(* What the handover of a host's engines promises about the stores they     *)
(* open, over the lives of the host: an engine is started, granted the      *)
(* stores under a generation, takes them, and gives them up, each once.     *)
(*                                                                         *)
(* Who is granted the stores is alone in its life, and no request is being  *)
(* handled then. A request is handled only by the owner, under a generation *)
(* the journal has; a new life records a newer one, and grants none that is *)
(* older than the record. So no two engines ever handle requests under the  *)
(* same generation, also not in different lives.                            *)
(***************************************************************************)
EXTENDS Integers

CONSTANTS Engines, Requests

VARIABLES
  place,       \* place[e]: unused, started, granted, owner or over
  generation,  \* generation[e]: what it was granted, 0 before
  life,        \* life[e]: the life of the host that started it
  at,          \* at[r]: the engine that handles the request, 0 if none does
  recorded     \* the generation of the journal

vars == <<place, generation, life, at, recorded>>

Init ==
  /\ place = [e \in Engines |-> "unused"]
  /\ generation = [e \in Engines |-> 0] /\ life = [e \in Engines |-> 0]
  /\ at = [r \in Requests |-> 0]
  /\ recorded = 0

InNewestLife(e) == \A d \in Engines : life[d] <= life[e]

Start(e) ==
  /\ place[e] = "unused" /\ place' = [place EXCEPT ![e] = "started"]
  /\ life' = [life EXCEPT ![e] = life'[e]]
  /\ \A d \in Engines : life[d] <= life'[e]
  /\ (\A d \in Engines : life[d] < life'[e]) => recorded' > recorded
  /\ UNCHANGED <<generation, at>>

Grant(e) ==
  /\ place[e] = "started" /\ place' = [place EXCEPT ![e] = "granted"]
  /\ InNewestLife(e)
  /\ generation' = [generation EXCEPT ![e] = generation'[e]]
  /\ generation'[e] > 0 /\ generation'[e] >= recorded'
  /\ \A d \in Engines : life[d] = life[e] =>
       place[d] \notin {"granted", "owner"} /\ generation[d] < generation'[e]
  /\ \A r \in Requests : at[r] = 0
  /\ UNCHANGED <<life, at>>

Take(e) ==
  /\ place[e] = "granted" /\ place' = [place EXCEPT ![e] = "owner"]
  /\ \A d \in Engines : place[d] # "owner"
  /\ UNCHANGED <<generation, life, at>>

Enter(r, e) ==
  /\ at[r] = 0 /\ at' = [at EXCEPT ![r] = e]
  /\ place[e] = "owner" /\ InNewestLife(e) /\ generation[e] <= recorded
  /\ UNCHANGED <<place, generation, life>>

Leave(r) ==
  /\ at' = [at EXCEPT ![r] = 0]
  /\ UNCHANGED <<place, generation, life>>

GiveUp(e) ==
  /\ place[e] = "owner" /\ place' = [place EXCEPT ![e] = "over"]
  /\ \A r \in Requests : at[r] # e
  /\ UNCHANGED <<generation, life, at>>

(* It ends, on its own, or it will never take what it was granted. *)
End(e) ==
  /\ place[e] \in {"started", "granted", "owner"}
  /\ place' = [place EXCEPT ![e] = "over"]
  /\ at' = [r \in Requests |-> IF at[r] = e THEN 0 ELSE at[r]]
  /\ UNCHANGED <<generation, life>>

(* Whatever else a step does, the journal is never set back. *)
Next ==
  /\ recorded' >= recorded
  /\ \/ UNCHANGED <<place, generation, life, at>>
     \/ \E e \in Engines : Start(e) \/ Grant(e) \/ Take(e) \/ GiveUp(e) \/ End(e)
     \/ \E r \in Requests : Leave(r) \/ \E e \in Engines : Enter(r, e)

Spec == Init /\ [][Next]_vars
===============================================================================
