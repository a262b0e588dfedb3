--------------------------- MODULE DagExecutorRun ----------------------------
(***************************************************************************)
(* DagExecutor implements WorkflowRun.                                     *)
(***************************************************************************)
EXTENDS DagExecutor

\* The status of a step as its observer would summarise it.
StepStatus(s) ==
    CASE result[s] \in {"success", "failed"} -> result[s]
      [] result[s] = "skipped" -> IF task[s] = "none" THEN "blocked" ELSE "condition"
      [] result[s] = "none" -> IF task[s] = "none" THEN "pending" ELSE "running"

Run == INSTANCE WorkflowRun WITH
    st      <- [s \in Step |-> StepStatus(s)],
    verdict <- IF pc \in {"end", "returned"} THEN overall ELSE "none",
    outcome <- IF pc \in Finished THEN pc ELSE "none"

\* Every step of the scheduler, its tasks and its interruptions is a step of
\* the abstract run or changes nothing it can see.
ImplementsRun == Run!Spec
=============================================================================
