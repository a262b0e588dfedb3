----------------------------- MODULE WorkflowRun -----------------------------
(***************************************************************************)
(* What one run of a workflow DAG promises its caller, whatever engine     *)
(* executes it (docs/adr/ADR-060 guarantees 1-4 and docs/adr/ADR-019):     *)
(* steps start after their dependencies passed and never beyond the        *)
(* limit, a failure blocks everything downstream at the same instant, and  *)
(* the verdict is the honest summary of the step statuses.  Nothing is     *)
(* said of queues, tasks, callbacks or contexts.                           *)
(***************************************************************************)
EXTENDS Naturals, FiniteSets

CONSTANTS Step, MaxConcurrency

VARIABLES
    dependsOn,  \* the workflow's DAG
    st,         \* status of each step
    verdict,    \* overall status, once decided
    outcome     \* how the call ended for its caller

vars == <<dependsOn, st, verdict, outcome>>

Passed  == {"success", "condition"}
Blocked == {"failed", "blocked"}
Active  == verdict = "none" /\ outcome = "none"

Init ==
    /\ dependsOn \in [Step -> SUBSET Step]
    /\ st = [s \in Step |-> "pending"]
    /\ verdict = "none"
    /\ outcome = "none"

\* Some pending steps whose dependencies all passed are started.
Start ==
    /\ Active
    /\ \E S \in SUBSET {s \in Step : st[s] = "pending"} :
        /\ \A s \in S : \A d \in dependsOn[s] : st[d] \in Passed
        /\ Cardinality(S \cup {s \in Step : st[s] = "running"}) <= MaxConcurrency
        /\ st' = [s \in Step |-> IF s \in S THEN "running" ELSE st[s]]
    /\ UNCHANGED <<dependsOn, verdict, outcome>>

\* A running step ends; pending steps with a blocked dependency are blocked in
\* the same instant, transitively.
Settle(s) ==
    /\ Active
    /\ st[s] = "running"
    /\ st'[s] \in Passed \cup {"failed"}
    /\ st' = [x \in Step |->
                IF x = s THEN st'[s]
                ELSE IF st[x] = "pending" /\ \E d \in dependsOn[x] : st'[d] \in Blocked
                     THEN "blocked"
                     ELSE st[x]]
    /\ UNCHANGED <<dependsOn, verdict, outcome>>

\* Every step is settled and the verdict says whether all of them passed.
Decide ==
    /\ Active
    /\ \A s \in Step : st[s] \in Passed \cup Blocked
    /\ verdict' = IF \A s \in Step : st[s] \in Passed THEN "success" ELSE "failed"
    /\ UNCHANGED <<dependsOn, st, outcome>>

\* The run is out of time: what was running failed, what was pending is blocked.
Expire ==
    /\ Active
    /\ st' = [s \in Step |-> CASE st[s] = "running" -> "failed"
                               [] st[s] = "pending" -> "blocked"
                               [] OTHER -> st[s]]
    /\ verdict' = "failed"
    /\ UNCHANGED <<dependsOn, outcome>>

Return ==
    /\ verdict # "none" /\ outcome = "none"
    /\ outcome' = "returned"
    /\ UNCHANGED <<dependsOn, st, verdict>>

\* The caller cancelled the call: it learns no verdict.
Cancel ==
    /\ outcome = "none"
    /\ outcome' = "raised"
    /\ verdict' = "none"
    /\ UNCHANGED <<dependsOn, st>>

Next == Start \/ (\E s \in Step : Settle(s)) \/ Decide \/ Expire \/ Return \/ Cancel

Spec == Init /\ [][Next]_vars
=============================================================================
