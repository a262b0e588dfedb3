------------------------------ MODULE StepTask -------------------------------
(***************************************************************************)
(* What the scheduler relies on when it awaits one step's executor: the    *)
(* order of the step's marks in the shared context and the status the      *)
(* executor may return after them.  StepExecutor implements it.  The task  *)
(* actions of DagExecutor are this protocol, one copy per step, with a     *)
(* failure's mark and its result in one step (only dependents of the step  *)
(* read the mark, and none has been started by then).                      *)
(***************************************************************************)
VARIABLES
    phase,     \* "starting", "executing", "completing" or "done"
    outcome,   \* status returned, "raised", or "none" before the end
    complete,  \* TRUE iff the step is in ctx.completed_steps
    failed     \* TRUE iff the step is in ctx.failed_steps

vars == <<phase, outcome, complete, failed>>

Init == phase = "starting" /\ outcome = "none" /\ ~complete /\ ~failed

Ends(out) == phase' = "done" /\ outcome' = out

\* should_run() is false, or the step has no function: no mark is left.
Decline ==
    /\ phase = "starting"
    /\ Ends("skipped") \/ Ends("failed")
    /\ UNCHANGED <<complete, failed>>

Begin ==
    /\ phase = "starting"
    /\ phase' = "executing"
    /\ UNCHANGED <<outcome, complete, failed>>

MarkComplete ==
    /\ phase = "executing" /\ ~failed
    /\ phase' = "completing"
    /\ complete'
    /\ UNCHANGED <<outcome, failed>>

Succeed ==
    /\ phase = "completing" /\ ~failed
    /\ Ends("success")
    /\ UNCHANGED <<complete, failed>>

\* The failure mark precedes the FAILED result, with the mark's handlers between.
MarkFailed ==
    /\ phase \in {"executing", "completing"}
    /\ failed'
    /\ UNCHANGED <<phase, outcome, complete>>

Fail ==
    /\ phase \in {"executing", "completing"} /\ failed
    /\ Ends("failed")
    /\ UNCHANGED <<complete, failed>>

\* An exception or a cancel escapes the executor.
Raise ==
    /\ phase \in {"executing", "completing"}
    /\ Ends("raised")
    /\ UNCHANGED <<complete, failed>>

Next == Decline \/ Begin \/ MarkComplete \/ Succeed \/ MarkFailed \/ Fail \/ Raise

Spec == Init /\ [][Next]_vars
=============================================================================
