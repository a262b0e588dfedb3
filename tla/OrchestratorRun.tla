--------------------------- MODULE OrchestratorRun ---------------------------
(***************************************************************************)
(* The first run of an orchestrator implements WorkflowRun: the second     *)
(* scheduler keeps the promises of the first ("Follows the same rules as   *)
(* DAGExecutor", agents/orchestrator.py).  It skips blocked subtasks only  *)
(* at the next wave; nothing can start in between, so they count as        *)
(* blocked from the failure on.                                            *)
(***************************************************************************)
EXTENDS Orchestrator

\* A coroutine that raised has failed, though gather() reports it later.
Settled == Recorded

StepStatus(s) ==
    IF s \in batch /\ sub[s] \in {"created", "trying"} THEN "running"
    ELSE IF Settled[s] = "skipped" \/ s \in SkipSet(Settled, executed \cup batch)
         THEN "blocked"
         ELSE Settled[s]

Run == INSTANCE WorkflowRun WITH
    Step           <- FirstPlan,
    MaxConcurrency <- MaxParallel,
    dependsOn      <- [s \in FirstPlan |-> dependsOn[s]],
    st             <- [s \in FirstPlan |-> StepStatus(s)],
    outcome        <- IF pc \in {"returned", "raised"} THEN pc ELSE "none"

\* Every step of the orchestrator's first run is a step of the abstract run or
\* changes nothing it can see.
ImplementsRun ==
    Run!Init /\ [][runs' = 1 => [Run!Next]_(Run!vars)]_vars
=============================================================================
