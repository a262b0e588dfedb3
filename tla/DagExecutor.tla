----------------------------- MODULE DagExecutor -----------------------------
(***************************************************************************)
(* engine/dag_executor.py: one call of DAGExecutor.execute() on a          *)
(* validated DAG.                                                          *)
(*                                                                         *)
(* Everything runs on one asyncio event loop, so a step of this module is  *)
(* what one coroutine does between two suspension points.  The scheduler   *)
(* is the task that runs execute(); every scheduled workflow step is a     *)
(* task of its own (_run_step).  A timeout, or a cancel by the caller, is  *)
(* delivered to the scheduler at whichever await it is suspended in: the   *)
(* FIRST_COMPLETED wait, or an observer / context callback in the middle   *)
(* of a batch of completions.                                              *)
(*                                                                         *)
(* Abstractions.  `completed` and `skipped` are derived from `result`: the *)
(* code always updates them in the same synchronous block.  The order of   *)
(* the ready deque is abstracted (a scheduling pass may start any ready    *)
(* steps).  A repeated entry of depends_on adds one to in_degree and one   *)
(* entry to the adjacency list, so dependencies are a set here.            *)
(***************************************************************************)
EXTENDS Integers, FiniteSets

CONSTANTS
    Step,             \* names of the steps of the DAG
    MaxConcurrency,   \* the max_concurrency argument
    HasTimeout,       \* TRUE iff the timeout argument is not None
    ObserverSwallows  \* TRUE iff on_update may catch a CancelledError and
                      \* return normally

ASSUME StepAssumption == IsFiniteSet(Step) /\ Step # {}

\* execute() raises ValueError for anything but an integer >= 1.
ASSUME MaxConcurrencyAssumption == MaxConcurrency \in Nat \ {0}

ASSUME FlagsAssumption == HasTimeout \in BOOLEAN /\ ObserverSwallows \in BOOLEAN

VARIABLES
    dependsOn,     \* dag: step -> the steps it depends on
    pc,            \* where the scheduler is suspended
    ready,         \* state.ready
    inDegree,      \* state.in_degree
    running,       \* state.running
    tasks,         \* state.tasks, each task named by its step
    batch,         \* finished tasks of the current wait not yet processed
    result,        \* state.results: status of each recorded StepResult
    lifecycle,     \* state.state_manager
    overall,       \* state.result.overall_status
    deadline,      \* the asyncio.timeout() around the scheduling loop
    task,          \* progress of each _run_step task
    outcome,       \* what a finished task returned
    ctxCompleted,  \* ctx.completed_steps
    ctxFailed,     \* ctx.failed_steps
    marking,       \* the step whose failure the context's handlers are told of
    ended          \* steps whose step_end event was sent to the observer

schedVars == <<ready, inDegree, running, tasks, batch, result, lifecycle,
               overall>>
ctxVars   == <<ctxCompleted, ctxFailed>>
taskVars  == <<task, outcome>>
vars == <<dependsOn, pc, schedVars, deadline, taskVars, ctxVars, marking, ended>>

-----------------------------------------------------------------------------
(***************************************************************************)
(* The DAG.                                                                *)
(***************************************************************************)

\* What dag.validate() accepts: dependencies name registered steps and every
\* set of steps has one that depends on none of them (there is no cycle).
ValidDag ==
    {D \in [Step -> SUBSET Step] :
        \A X \in SUBSET Step : X # {} => \E x \in X : D[x] \cap X = {}}

\* adjacency[s]: the steps that list s in depends_on.
Dependents(s) == {d \in Step : s \in dependsOn[d]}

completed == {s \in Step : result[s] # "none"}

\* X contains every unfinished step that depends on s or on a member of X.
ClosedUnder(X, s, finished) ==
    \A a \in X \cup {s} : Dependents(a) \ finished \subseteq X

\* Mutant of Cascade: only the direct dependents are skipped.
CascadeDirect(s, finished) == Dependents(s) \ finished

\* The steps the breadth-first _cascade_skip from s marks: the least such X.
Cascade(s, finished) ==
    {d \in Step \ finished :
        \A X \in SUBSET (Step \ finished) : ClosedUnder(X, s, finished) => d \in X}

-----------------------------------------------------------------------------
(***************************************************************************)
(* The lifecycle state machine of engine/step_state.py.                    *)
(***************************************************************************)
LifecycleState ==
    {"pending", "ready", "running", "success", "failed", "skipped"}

\* The part of _ALLOWED_TRANSITIONS the scheduler uses.  transition() raises
\* ValueError elsewhere; each caller below requires it.
CanTransition(current, new) ==
    \/ current = "pending" /\ new \in {"ready", "skipped"}
    \/ current = "ready" /\ new = "running"
    \/ current = "running" /\ new \in {"success", "failed", "skipped"}

Suspended  == {"start", "wait", "mark", "notify", "timeout", "abort", "end"}
Finished   == {"returned", "raised"}
TaskState  == {"none", "created", "starting", "executing", "completing", "done"}
Live       == {"created", "starting", "executing", "completing"}
Outcome    == {"none", "success", "failed", "skipped", "nonterminal", "raised"}
Settled    == {"success", "failed", "skipped"}

\* _cancel_in_flight has called task.cancel() on every task of state.tasks.
Cancelling == pc \in {"timeout", "abort"}

DoneTasks == {s \in tasks : task[s] = "done"}

-----------------------------------------------------------------------------
Init ==
    /\ dependsOn \in ValidDag
    /\ pc = "start"
    /\ inDegree = [s \in Step |-> Cardinality(dependsOn[s])]
    /\ ready = {s \in Step : dependsOn[s] = {}}
    /\ running = {} /\ tasks = {} /\ batch = {}
    /\ result = [s \in Step |-> "none"]
    /\ lifecycle = [s \in Step |-> "pending"]
    /\ overall = "running"
    /\ deadline = IF HasTimeout THEN "armed" ELSE "off"
    /\ task = [s \in Step |-> "none"]
    /\ outcome = [s \in Step |-> "none"]
    /\ ctxCompleted = {} /\ ctxFailed = {}
    /\ marking = {} /\ ended = {}

-----------------------------------------------------------------------------
(***************************************************************************)
(* The scheduler.                                                          *)
(***************************************************************************)

\* Mutant of Room: the limit is compared with <= instead of <.
RoomOffByOne == MaxConcurrency + 1 - Cardinality(running)

\* How many steps the loop of _schedule_ready_steps may still start.
Room == MaxConcurrency - Cardinality(running)

\* _schedule_ready_steps, then the FIRST_COMPLETED wait.
Schedule ==
    \E S \in SUBSET (ready \ completed) :
        /\ Cardinality(S) <= Room
        /\ S = ready \ completed \/ Cardinality(S) = Room
        /\ \A s \in S : CanTransition(lifecycle[s], "ready")
        /\ ready' = ready \ (S \cup completed)
        /\ running' = running \cup S
        /\ tasks' = tasks \cup S
        /\ task' = [s \in Step |-> IF s \in S THEN "created" ELSE task[s]]
        /\ IF tasks' # {}
             THEN /\ lifecycle' = [s \in Step |->
                                     IF s \in S THEN "ready" ELSE lifecycle[s]]
                  /\ pc' = "wait"
                  /\ UNCHANGED <<result, overall, ctxCompleted>>
             ELSE \* the deadlock branch: skip the rest and fail the run
                  /\ result' = [s \in Step |->
                                  IF s \in completed THEN result[s] ELSE "skipped"]
                  /\ lifecycle' = [s \in Step |->
                                     IF s \in completed THEN lifecycle[s]
                                                        ELSE "skipped"]
                  /\ ctxCompleted' = ctxCompleted \cup (Step \ completed)
                  /\ overall' = "failed"
                  /\ pc' = "end"

\* The rest of _run_dag once the loop has ended, up to the workflow_end await.
Finalise ==
    /\ overall' = IF overall = "running" THEN "success" ELSE overall
    /\ pc' = "end"
    /\ UNCHANGED <<ready, running, tasks, task, lifecycle, result, ctxCompleted>>

\* The head of _scheduling_loop: after the workflow_start event, and after the
\* last completion of a batch was processed and its step_end await returned.
LoopHead ==
    /\ pc \in {"start", "notify"}
    /\ batch = {}
    /\ IF completed = Step THEN Finalise ELSE Schedule
    /\ UNCHANGED <<dependsOn, inDegree, batch, deadline, outcome, ctxFailed,
                   marking, ended>>

\* s is recorded as FAILED and _cascade_skip marks its transitive dependents.
FailAndCascade(s, skip) ==
    /\ result' = [x \in Step |-> IF x = s THEN "failed"
                                 ELSE IF x \in skip THEN "skipped" ELSE result[x]]
    /\ lifecycle' = [x \in Step |-> IF x = s THEN "failed"
                                    ELSE IF x \in skip THEN "skipped"
                                    ELSE lifecycle[x]]
    /\ overall' = "failed"
    /\ UNCHANGED <<ready, inDegree>>

\* Mutant of Unlock: one finished dependency is enough.
UnlockAny(s) ==
    LET unlocked == Dependents(s) \ (completed \cup {s})
    IN  /\ inDegree' = [x \in Step |-> IF x \in unlocked THEN inDegree[x] - 1
                                                         ELSE inDegree[x]]
        /\ ready' = ready \cup unlocked

\* _unlock_downstream.
Unlock(s) ==
    LET unlocked == Dependents(s) \ (completed \cup {s})
    IN  /\ inDegree' = [x \in Step |-> IF x \in unlocked THEN inDegree[x] - 1
                                                         ELSE inDegree[x]]
        /\ ready' = ready \cup {x \in unlocked : inDegree[x] = 1}

\* _transition_outcome_state adds a step skipped by its condition to
\* ctx.completed_steps; a successful one was marked by its executor.
ContextOnPass(s) ==
    IF outcome[s] = "skipped" THEN ctxCompleted \cup {s} ELSE ctxCompleted

\* A task that returned SUCCESS, or SKIPPED because should_run() was false.
RecordPassed(s) ==
    /\ outcome[s] \in {"success", "skipped"}
    /\ CanTransition(lifecycle[s], outcome[s])
    /\ result' = [result EXCEPT ![s] = outcome[s]]
    /\ lifecycle' = [lifecycle EXCEPT ![s] = outcome[s]]
    /\ ctxCompleted' = ContextOnPass(s)
    /\ Unlock(s)
    /\ ended' = ended \cup {s}
    /\ pc' = "notify"
    /\ UNCHANGED <<overall, ctxFailed, marking>>

\* A task that returned FAILED.
RecordFailed(s) ==
    /\ outcome[s] = "failed"
    /\ CanTransition(lifecycle[s], "failed")
    /\ LET skip == Cascade(s, completed \cup {s})
       IN  /\ FailAndCascade(s, skip)
           /\ ctxCompleted' = ctxCompleted \cup skip
    /\ ended' = ended \cup {s}
    /\ pc' = "notify"
    /\ UNCHANGED <<ctxFailed, marking>>

\* _mark_context_failed removes s from ctx.completed_steps.
DropStale(s, done) == done \ {s}

\* A task that raised or was cancelled (_record_task_exception, which forces
\* the lifecycle), or that returned a status that is not terminal
\* (_fail_nonterminal).  _mark_context_failed then drops a stale completion
\* and awaits the context's handlers; step_end is sent only after that.
RecordBroken(s) ==
    /\ \/ outcome[s] = "raised"
       \/ outcome[s] = "nonterminal" /\ CanTransition(lifecycle[s], "failed")
    /\ LET skip == Cascade(s, completed \cup {s})
       IN  /\ FailAndCascade(s, skip)
           /\ ctxCompleted' = DropStale(s, ctxCompleted \cup skip)
    /\ ctxFailed' = ctxFailed \cup {s}
    /\ marking' = {s}
    /\ pc' = "mark"
    /\ UNCHANGED ended

\* _process_done_task up to its first await: everything about s is recorded.
Record(s) ==
    /\ running' = running \ {s}
    /\ RecordPassed(s) \/ RecordFailed(s) \/ RecordBroken(s)
    /\ UNCHANGED <<dependsOn, deadline, task, outcome>>

\* The FIRST_COMPLETED wait returns every task finished by now; the first of
\* them is processed at once.
Wake(s) ==
    /\ pc = "wait"
    /\ s \in DoneTasks
    /\ tasks' = tasks \ DoneTasks
    /\ batch' = DoneTasks \ {s}
    /\ Record(s)

\* The step_end await of the previous completion returned.
ProcessNext(s) ==
    /\ pc = "notify"
    /\ s \in batch
    /\ batch' = batch \ {s}
    /\ UNCHANGED tasks
    /\ Record(s)

\* Mutant of EmitStepEnd: a step that raised ends without a step_end event.
SkipStepEnd ==
    /\ pc = "mark"
    /\ marking' = {}
    /\ pc' = "notify"
    /\ UNCHANGED <<dependsOn, schedVars, deadline, taskVars, ctxVars, ended>>

\* The context's handlers returned: _emit_step_end.
EmitStepEnd ==
    /\ pc = "mark"
    /\ ended' = ended \cup marking
    /\ marking' = {}
    /\ pc' = "notify"
    /\ UNCHANGED <<dependsOn, schedVars, deadline, taskVars, ctxVars>>

-----------------------------------------------------------------------------
(***************************************************************************)
(* Timeout and cancellation.                                               *)
(***************************************************************************)
\* Mutant of InLoop: the timeout scope misses the FIRST_COMPLETED wait.
InCallback == pc \in {"mark", "notify"}

\* Suspended inside the asyncio.timeout() scope and the try of _run_dag.
InLoop == pc \in {"wait", "mark", "notify"}

\* asyncio.timeout() cancels the scheduler, the CancelledError leaves the loop
\* as TimeoutError, and _handle_timeout cancels the in-flight tasks.
TimeoutHits ==
    /\ InLoop
    /\ deadline = "armed"
    /\ deadline' = "hit"
    /\ pc' = "timeout"
    /\ UNCHANGED <<dependsOn, schedVars, marking, taskVars, ctxVars, ended>>

\* The CancelledError is delivered inside the observer, which catches it and
\* returns: _notify sees no exception, the loop continues, and the exit of
\* asyncio.timeout() raises nothing.
TimeoutSwallowed ==
    /\ ObserverSwallows
    /\ pc = "notify"
    /\ deadline = "armed"
    /\ deadline' = "lost"
    /\ UNCHANGED <<dependsOn, pc, schedVars, marking, taskVars, ctxVars, ended>>

\* What _handle_timeout skips after it has failed the running steps.
NeverStarted == Step \ (completed \cup running)

\* The gather() of _cancel_in_flight returned: fail what was running, skip
\* what never started.  The code cascades from each failed step in turn; no
\* running step depends on an unfinished one, so the order does not matter.
FinishTimeout ==
    /\ pc = "timeout"
    /\ DoneTasks = tasks
    /\ LET failedNow == running \ completed
           skipNow   == NeverStarted
       IN  /\ result' = [s \in Step |-> IF s \in failedNow THEN "failed"
                                        ELSE IF s \in skipNow THEN "skipped"
                                        ELSE result[s]]
           /\ lifecycle' = [s \in Step |-> IF s \in failedNow THEN "failed"
                                           ELSE IF s \in skipNow THEN "skipped"
                                           ELSE lifecycle[s]]
           /\ ctxCompleted' = ctxCompleted \cup skipNow
    /\ overall' = "failed"
    /\ tasks' = {}
    /\ pc' = "end"
    /\ UNCHANGED <<dependsOn, ready, inDegree, running, batch, marking, deadline,
                   taskVars, ctxFailed, ended>>

\* The caller cancels execute().  Inside the loop, _cancel_in_flight runs and
\* the cancel is re-raised; a cancel during the timeout's own gather() is
\* raised when the last of the tasks has finished.
CallerCancels ==
    /\ \/ pc \in {"start", "end"} /\ pc' = "raised"
       \/ (InLoop \/ (pc = "timeout" /\ tasks # {})) /\ pc' = "abort"
    /\ UNCHANGED <<dependsOn, schedVars, marking, deadline, taskVars, ctxVars, ended>>

\* The except BaseException handler: all tasks were awaited, re-raise.
FinishAbort ==
    /\ pc = "abort"
    /\ DoneTasks = tasks
    /\ tasks' = {}
    /\ pc' = "raised"
    /\ UNCHANGED <<dependsOn, ready, inDegree, running, batch, result, lifecycle,
                   overall, marking, deadline, taskVars, ctxVars, ended>>

\* The workflow_end await returned and execute() returns its WorkflowResult.
Return ==
    /\ pc = "end"
    /\ pc' = "returned"
    /\ UNCHANGED <<dependsOn, schedVars, marking, deadline, taskVars, ctxVars, ended>>

-----------------------------------------------------------------------------
(***************************************************************************)
(* The step tasks.  StepExecutor.execute is reduced to what it promises    *)
(* the scheduler: a result, and its marks in the shared context.           *)
(***************************************************************************)
SchedulerUnchanged == UNCHANGED <<dependsOn, pc, schedVars, marking, deadline, ended>>

Finish(s, out) ==
    /\ task' = [task EXCEPT ![s] = "done"]
    /\ outcome' = [outcome EXCEPT ![s] = out]

\* _run_step: the lifecycle moves to RUNNING and step_start is sent.
StartTask(s) ==
    /\ task[s] = "created"
    /\ ~Cancelling
    /\ CanTransition(lifecycle[s], "running")
    /\ task' = [task EXCEPT ![s] = "starting"]
    /\ lifecycle' = [lifecycle EXCEPT ![s] = "running"]
    /\ UNCHANGED <<dependsOn, pc, ready, inDegree, running, tasks, batch, result,
                   overall, marking, deadline, outcome, ctxVars, ended>>

\* A task cancelled before it ran, or at the step_start await, ends cancelled.
CancelEarly(s) ==
    /\ task[s] \in {"created", "starting"}
    /\ Cancelling
    /\ Finish(s, "raised")
    /\ UNCHANGED ctxVars /\ SchedulerUnchanged

\* The dependency part of StepDefinition.should_run.
DependenciesMet(s) ==
    dependsOn[s] \subseteq ctxCompleted /\ dependsOn[s] \cap ctxFailed = {}

\* The step_start await returned.  A cancelled task gets here only if the
\* observer swallowed its cancel.
Entering(s) == task[s] = "starting" /\ (Cancelling => ObserverSwallows)

\* should_run() is false: a dependency, or the when / unless condition.
SkipStep(s) ==
    /\ Entering(s)
    /\ Finish(s, "skipped")
    /\ UNCHANGED ctxVars /\ SchedulerUnchanged

\* A step without a function fails and leaves no mark in the context.
NoFunction(s) ==
    /\ Entering(s)
    /\ DependenciesMet(s)
    /\ Finish(s, "failed")
    /\ UNCHANGED ctxVars /\ SchedulerUnchanged

BeginBody(s) ==
    /\ Entering(s)
    /\ DependenciesMet(s)
    /\ task' = [task EXCEPT ![s] = "executing"]
    /\ UNCHANGED <<outcome, ctxVars>> /\ SchedulerUnchanged

\* The body succeeded: ctx.mark_step_complete, then its handlers are awaited.
MarkComplete(s) ==
    /\ task[s] = "executing"
    /\ task' = [task EXCEPT ![s] = "completing"]
    /\ ctxCompleted' = ctxCompleted \cup {s}
    /\ UNCHANGED <<outcome, ctxFailed>> /\ SchedulerUnchanged

FinishSuccess(s) ==
    /\ task[s] = "completing"
    /\ Finish(s, "success")
    /\ UNCHANGED ctxVars /\ SchedulerUnchanged

\* A failed, timed-out or cancelled attempt: ctx.mark_step_failed, FAILED.  A
\* cancel that lands in mark_step_complete's handlers fails a step that the
\* context already lists as completed.
FinishFailed(s) ==
    /\ \/ task[s] = "executing"
       \/ task[s] = "completing" /\ Cancelling
    /\ ctxFailed' = ctxFailed \cup {s}
    /\ Finish(s, "failed")
    /\ UNCHANGED ctxCompleted /\ SchedulerUnchanged

\* An exception escapes the step executor, before or after its marks.
FinishRaised(s) ==
    /\ task[s] \in {"executing", "completing"}
    /\ ctxFailed' \in {ctxFailed, ctxFailed \cup {s}}
    /\ Finish(s, "raised")
    /\ UNCHANGED ctxCompleted /\ SchedulerUnchanged

\* The step executor returns PENDING, RUNNING or RETRYING.
FinishNonterminal(s) ==
    /\ task[s] \in {"executing", "completing"}
    /\ Finish(s, "nonterminal")
    /\ UNCHANGED ctxVars /\ SchedulerUnchanged

-----------------------------------------------------------------------------
FinishBody(s) ==
    FinishSuccess(s) \/ FinishFailed(s) \/ FinishRaised(s) \/ FinishNonterminal(s)

EnterBody(s) == SkipStep(s) \/ NoFunction(s) \/ BeginBody(s)

TaskStep(s) ==
    \/ StartTask(s) \/ CancelEarly(s) \/ EnterBody(s)
    \/ MarkComplete(s) \/ FinishBody(s)

Scheduler ==
    \/ LoopHead \/ EmitStepEnd \/ FinishTimeout \/ FinishAbort \/ Return
    \/ \E s \in Step : Wake(s) \/ ProcessNext(s)

Interrupt == TimeoutHits \/ TimeoutSwallowed \/ CallerCancels

Terminated == pc \in Finished /\ UNCHANGED vars

Next ==
    \/ Scheduler
    \/ Interrupt
    \/ \E s \in Step : TaskStep(s)
    \/ Terminated

Spec == Init /\ [][Next]_vars

(***************************************************************************)
(* Fairness.  The event loop runs every callback that is ready, so the     *)
(* scheduler and the tasks that can move do move; observers return.        *)
(***************************************************************************)
SchedulerFairness ==
    /\ WF_vars(LoopHead) /\ WF_vars(EmitStepEnd) /\ WF_vars(Return)
    /\ WF_vars(FinishTimeout) /\ WF_vars(FinishAbort)
    /\ WF_vars(\E s \in Step : Wake(s) \/ ProcessNext(s))

\* What the event loop owes a task; a step body may hang, but not a cancelled one.
TaskFairness ==
    \A s \in Step :
        /\ WF_vars(StartTask(s) \/ CancelEarly(s) \/ EnterBody(s))
        /\ WF_vars(Cancelling /\ (MarkComplete(s) \/ FinishBody(s)))

FairSpec == Spec /\ SchedulerFairness /\ TaskFairness

-----------------------------------------------------------------------------
TypeOK ==
    /\ dependsOn \in ValidDag
    /\ pc \in Suspended \cup Finished
    /\ ready \subseteq Step /\ running \subseteq Step
    /\ tasks \subseteq Step /\ batch \subseteq Step
    /\ inDegree \in [Step -> Int]
    /\ result \in [Step -> Settled \cup {"none"}]
    /\ lifecycle \in [Step -> LifecycleState]
    /\ overall \in {"running", "success", "failed"}
    /\ deadline \in {"off", "armed", "hit", "lost"}
    /\ task \in [Step -> TaskState]
    /\ outcome \in [Step -> Outcome]
    /\ ctxCompleted \subseteq Step /\ ctxFailed \subseteq Step
    /\ marking \subseteq Step /\ ended \subseteq Step

\* d finished in a way that lets its dependents run: it succeeded, or its own
\* condition skipped it.
Cleared(d) == result[d] = "success" \/ (result[d] = "skipped" /\ task[d] = "done")

\* d failed, or was skipped without having been started.
Blocked(d) == result[d] = "failed" \/ (result[d] = "skipped" /\ task[d] = "none")

\* A step is started only when each of its dependencies was cleared and the
\* observer was sent its step_end (ADR-060 guarantee 1), whatever the order in
\* which completions, timeouts and cancels reached the scheduler.
StartAfterDependencies ==
    \A s \in Step : task[s] # "none" =>
        \A d \in dependsOn[s] : Cleared(d) /\ d \in ended

\* No more steps are in flight than max_concurrency allows (ADR-060, 2b).
BoundedParallelism ==
    Cardinality({s \in Step : task[s] \in Live}) <= MaxConcurrency

\* Once workflow_end is sent, or execute() has raised, no step task is left
\* running: "guarantees no step keeps running after the scheduler has stopped".
NoOrphanTask ==
    pc \in {"end"} \cup Finished => \A s \in Step : task[s] \notin Live

\* A run that returns has a result for every step, and reports SUCCESS exactly
\* when it was not timed out and nothing failed or was skipped for a failure.
HonestStatus ==
    pc \in {"end", "returned"} =>
        /\ completed = Step
        /\ overall \in {"success", "failed"}
        /\ overall = "success" <=> (deadline # "hit" /\ \A s \in Step : Cleared(s))

\* A step is skipped unstarted exactly when a dependency is blocked; after a
\* timeout the rest is skipped too.  So a failure reaches all its transitive
\* dependents at once, and the scheduler's deadlock branch is never taken.
CascadeExact ==
    \A s \in Step :
        LET skipped == result[s] = "skipped" /\ task[s] = "none"
            blocked == \E d \in dependsOn[s] : Blocked(d)
        IN  /\ blocked => skipped
            /\ skipped => blocked \/ deadline = "hit"

\* When a started step evaluates should_run(), the context says of every
\* dependency what the scheduler knows: complete and not failed.
UnlockedStepMayRun ==
    \A s \in Step : task[s] = "starting" => DependenciesMet(s)

\* The context agrees with the recorded results: a step recorded as passed is
\* complete and not failed, and one reported to the observer as failed is not
\* complete, even if its executor had already marked it complete.
ContextAgrees ==
    \A s \in Step :
        /\ Cleared(s) => s \in ctxCompleted \ ctxFailed
        /\ result[s] = "failed" /\ s \in ended \cup marking => s \notin ctxCompleted

\* A step's recorded result and its lifecycle are final, and they agree: the
\* unchecked set_state calls of the failure, cascade and timeout paths never
\* overwrite an earlier outcome.
RecordedOnce ==
    [][\A s \in Step : result[s] # "none" =>
        /\ result'[s] = result[s]
        /\ lifecycle'[s] = lifecycle[s] /\ lifecycle[s] = result[s]]_vars

\* Unless the timeout cut the run short, every step whose step_start was sent
\* gets a step_end before workflow_end.
EveryStartEnds ==
    pc \in {"end", "returned"} /\ deadline # "hit" =>
        \A s \in Step : task[s] = "done" => s \in ended

\* What holds while steps are started: dependencies, the limit on steps in flight
\* and the context's view agree, for any interleaving of completions and cancels.
StartSafe == StartAfterDependencies /\ BoundedParallelism /\ UnlockedStepMayRun

\* What the run leaves: an honest status, exactly the skips its failures cause, a
\* context that agrees with the results, and no task behind the caller's back.
OutcomeSafe == HonestStatus /\ CascadeExact /\ ContextAgrees /\ NoOrphanTask

\* If every step body ends by itself, the run ends.
Termination == (\A s \in Step : WF_vars(TaskStep(s))) => <>(pc \in Finished)

\* With step bodies that hang until they are cancelled, a run whose deadline
\* passes ends (ADR-019: "Prevents indefinitely-running workflows"), unless an
\* observer swallowed the timeout.
TimeoutEndsRun == WF_vars(TimeoutHits) => <>(pc \in Finished \/ deadline = "lost")

\* A run ends when its step bodies end, and when its deadline passes although
\* they hang.
RunEnds == Termination /\ TimeoutEndsRun

=============================================================================
