--------------------------- MODULE DagExecutorInv ----------------------------
(***************************************************************************)
(* The inductive invariant of DagExecutor: the facts that tie the          *)
(* scheduler's counters, queues and sets to the results, the tasks and the *)
(* context.  None of the properties of DagExecutor is inductive alone.     *)
(***************************************************************************)
EXTENDS DagExecutor

\* The scheduler has neither finished its loop nor recovered from a timeout.
Scheduling == pc \in {"start", "wait", "mark", "notify", "timeout", "abort"}

\* running names the started steps without a result; each of their tasks is
\* awaited (tasks) or finished and still to be processed (batch).
RunningExact ==
    /\ Scheduling => /\ running = {s \in Step : task[s] # "none" /\ result[s] = "none"}
                     /\ running = tasks \cup batch
                     /\ tasks \cap batch = {}
    /\ pc \in {"start", "wait"} => batch = {}
    /\ pc = "start" => running = {}
    /\ \A s \in batch : task[s] = "done"
    /\ \A s \in Step : task[s] \in Live => s \in tasks
    /\ pc \in {"end"} \cup Finished => \A s \in Step : task[s] \notin Live
    /\ Cardinality(running) <= MaxConcurrency

\* A finished task has an outcome; a recorded step has not been started or its
\* task is done.
OutcomeExact ==
    \A s \in Step :
        /\ task[s] = "done" <=> outcome[s] # "none"
        /\ result[s] # "none" => task[s] \in {"none", "done"}
        /\ result[s] \in {"success", "failed"} => task[s] = "done"
        /\ Cleared(s) => s \in ended

\* The lifecycle follows the result, and before that the task.
LifecycleExact ==
    \A s \in Step :
        IF result[s] # "none" THEN lifecycle[s] = result[s]
        ELSE /\ task[s] = "none" => lifecycle[s] = "pending"
             /\ task[s] = "created" => lifecycle[s] = "ready"
             /\ task[s] \in {"starting", "executing", "completing"} =>
                    lifecycle[s] = "running"
             /\ task[s] = "done" /\ outcome[s] # "raised" => lifecycle[s] = "running"

Uncleared(s) == {d \in dependsOn[s] : ~Cleared(d)}

\* The counter of an unfinished step is the number of dependencies it still
\* waits for, and the queue holds exactly the unstarted steps at zero.
ReadyExact ==
    Scheduling =>
        \A s \in Step :
            /\ result[s] = "none" => inDegree[s] = Cardinality(Uncleared(s))
            /\ s \in ready <=> (result[s] = "none" /\ task[s] = "none" /\ inDegree[s] = 0)

\* A failure is in overall_status as soon as it is in a result.
StatusExact ==
    /\ Scheduling => /\ overall \in {"running", "failed"}
                     /\ overall = "failed" <=> \E s \in Step : result[s] = "failed"
    /\ pc \in {"start", "wait", "mark", "notify"} => deadline # "hit"
    /\ pc = "timeout" => deadline = "hit"

\* A timeout or a cancel has reached the scheduler.
Interrupted == pc \notin {"start", "wait", "mark", "notify"}

\* What the context knows of a step at each point of its task.
ContextExact ==
    \A s \in Step :
        /\ task[s] \in {"none", "created", "starting", "executing", "completing"} =>
               s \notin ctxFailed
        /\ task[s] = "completing" \/ outcome[s] = "success" => s \in ctxCompleted
        /\ outcome[s] \in {"success", "skipped"} /\ result[s] # "failed" =>
               s \notin ctxFailed
        /\ task[s] \in {"created", "starting", "executing"} => s \notin ctxCompleted
        /\ result[s] = "none" /\ task[s] = "none" => s \notin ctxCompleted
        /\ outcome[s] = "failed" /\ result[s] = "none" /\ ~Interrupted =>
               s \notin ctxCompleted
        /\ s \in marking \cup ended => result[s] # "none"
        /\ result[s] # "none" /\ task[s] = "none" => s \in ctxCompleted

IInv ==
    /\ TypeOK
    /\ RunningExact
    /\ OutcomeExact
    /\ LifecycleExact
    /\ ReadyExact
    /\ StatusExact
    /\ ContextExact
    /\ StartAfterDependencies
    /\ CascadeExact
    /\ HonestStatus
    /\ ContextAgrees
=============================================================================
