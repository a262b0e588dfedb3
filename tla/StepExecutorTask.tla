-------------------------- MODULE StepExecutorTask ---------------------------
(***************************************************************************)
(* Every call of StepExecutor.execute() follows the protocol StepTask that *)
(* the scheduler's model assumes of a step's task.                         *)
(***************************************************************************)
EXTENDS StepExecutor

TaskPhase(c) ==
    IF pc[c] = "new" THEN "starting"
    ELSE IF pc[c] \in Ended THEN "done"
    ELSE IF c \in ctxCompleted THEN "completing" ELSE "executing"

TaskOutcome(c) ==
    IF pc[c] = "returned" THEN status[c]
    ELSE IF pc[c] \in {"raised", "cancelled"} THEN "raised" ELSE "none"

Task(c) == INSTANCE StepTask WITH
    phase    <- TaskPhase(c),
    outcome  <- TaskOutcome(c),
    complete <- c \in ctxCompleted,
    failed   <- c \in ctxFailed

\* Marks and results of every call come in the order the scheduler relies on.
ImplementsTask ==
    /\ \A c \in Call : Task(c)!Init
    /\ [][\A c \in Call : [Task(c)!Next]_(Task(c)!vars)]_vars
=============================================================================
