---------------------------- MODULE DurableTraining ----------------------------
(***************************************************************************)
(* What the trainer's checkpoints promise, without files, ranks or phases: *)
(* a job trains step after step, commits some of its steps durably, may    *)
(* stop at any moment, and always continues from exactly the step it       *)
(* committed last.  TrainerCheckpoint implements it.                       *)
(***************************************************************************)
EXTENDS Naturals

VARIABLES
    running,    \* is a process training
    done,       \* the step the weights in its memory have reached
    committed   \* the step a restart continues from (0: from scratch)

vars == <<running, done, committed>>

Init ==
    /\ running = FALSE
    /\ done = 0
    /\ committed = 0

\* A process comes up with the weights of the committed step.
Resume ==
    /\ ~running
    /\ running' = TRUE
    /\ done' = committed
    /\ UNCHANGED committed

Train ==
    /\ running
    /\ done' = done + 1
    /\ UNCHANGED <<running, committed>>

\* Only progress is committed, and only what has been trained.
Commit ==
    /\ running
    /\ done > committed
    /\ committed' = done
    /\ UNCHANGED <<running, done>>

\* A crash or an orderly exit: memory is lost, the committed step is not.
Stop ==
    /\ running
    /\ running' = FALSE
    /\ done' = 0
    /\ UNCHANGED committed

Next == Resume \/ Train \/ Commit \/ Stop

Spec == Init /\ [][Next]_vars

================================================================================
