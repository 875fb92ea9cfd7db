----------------------------- MODULE RuntimeJournal -----------------------------
(***************************************************************************)
(* The handover journal of one runtime host (adapters/_node-runtime-        *)
(* journal.ts): the selected release, the generation counter and the last   *)
(* transition, persisted together.  `disk` is the file; `memory` is the     *)
(* `state` of the process, which a failed write can leave behind the file.  *)
(***************************************************************************)
EXTENDS Naturals

CONSTANTS
  Release,     \* the immutable releases an engine can execute
  NoRelease    \* the release of a journal that was never written

ASSUME JournalAssumption == NoRelease \notin Release

VARIABLES disk, memory

journalVars == <<disk, memory>>

Phase == {"prepared", "releasing", "activating", "committing", "ready", "failed"}

NoTransition == [phase |-> "none", generation |-> 0,
                 previous |-> NoRelease, target |-> NoRelease]

Transition == [phase : Phase, generation : Nat, previous : Release, target : Release]

Journal == [generation : Nat, selected : Release \cup {NoRelease},
            transition : Transition \cup {NoTransition}]

Empty == [generation |-> 0, selected |-> NoRelease, transition |-> NoTransition]

(* A transition may begin when none is unfinished, at a new generation. *)
Begins(t) ==
  /\ t.phase = "prepared"
  /\ memory.transition.phase \in {"none", "prepared", "ready", "failed"}
  /\ t.generation > memory.generation
  /\ t.previous = memory.selected

SameTransition(t) ==
  /\ memory.transition # NoTransition
  /\ memory.transition.previous = t.previous
  /\ memory.transition.target = t.target

Follows == [releasing |-> "prepared", activating |-> "releasing",
            committing |-> "activating", ready |-> "committing"]

Advances(t) ==
  /\ t.phase \in DOMAIN Follows
  /\ SameTransition(t)
  /\ Follows[t.phase] = memory.transition.phase
  /\ t.generation = memory.generation
  /\ t.phase = "ready" => memory.selected = t.target

(* The rollback closes its transition at the generation it committed. *)
Fails(t) ==
  /\ t.phase = "failed"
  /\ SameTransition(t)
  /\ memory.selected = t.previous
  /\ t.generation = memory.generation
  /\ t.generation = memory.transition.generation + 1

CheckpointAllowed(t) == Begins(t) \/ Advances(t) \/ Fails(t)

Checkpointed(t) == [memory EXCEPT !.generation = t.generation, !.transition = t]

(* The target of a transition is selected at its own generation, a rollback *)
(* to the previous release at the one after.                                *)
CommitAllowed(release, generation) ==
  LET t == memory.transition IN
  /\ t # NoTransition
  /\ \/ /\ release = t.target
        /\ t.phase = "committing"
        /\ generation = t.generation /\ generation = memory.generation
     \/ /\ release = t.previous /\ release # t.target
        /\ t.phase \in {"releasing", "activating", "committing", "ready"}
        /\ generation = t.generation + 1 /\ generation >= memory.generation

Committed(release, generation) ==
  [memory EXCEPT !.generation = generation, !.selected = release]

(* Temporary file, fsync, rename, fsync of the directory, then `state`. *)
Write(next) == disk' = next /\ memory' = next

(* A write that reports failure may have reached the file, or both. *)
WriteFails(next) ==
  \/ UNCHANGED journalVars
  \/ disk' = next /\ UNCHANGED memory
  \/ disk' = next /\ memory' = next

CheckpointOk(t) == CheckpointAllowed(t) /\ Write(Checkpointed(t))

CheckpointFails(t) ==
  IF CheckpointAllowed(t) THEN WriteFails(Checkpointed(t)) ELSE UNCHANGED journalVars

CommitOk(release, generation) ==
  CommitAllowed(release, generation) /\ Write(Committed(release, generation))

CommitFails(release, generation) ==
  IF CommitAllowed(release, generation)
  THEN WriteFails(Committed(release, generation)) ELSE UNCHANGED journalVars

(* Mutated form: the generation counts on from `state`, which is not loaded. *)
RecoveredFromMemory(release) == [generation |-> memory.generation + 1,
                                 selected |-> release, transition |-> NoTransition]

(* What recovery writes: a new generation, and no transition. *)
Recovered(release) == [generation |-> disk.generation + 1, selected |-> release,
                       transition |-> NoTransition]
================================================================================
