-------------------------- MODULE PipelineExecutor ---------------------------
(***************************************************************************)
(* One call of WorkflowExecutor.execute() on a pipeline or on a list of    *)
(* steps: elements in sequence, parallel groups with and without           *)
(* fail-fast, branches, checkpoints, the executor's cancel(), the global   *)
(* timeout and a cancel of the task that awaits execute().                 *)
(*                                                                         *)
(* An element is a pair of arms, each a sequence of batches: a step is a   *)
(* batch of mode "single", a parallel group one of mode "failfast" or      *)
(* "all", a branch has two arms and everything else two equal ones.  A     *)
(* branch inside a branch is its batches in the place where it stands: a   *)
(* failed batch ends the inner and the outer loop alike.                   *)
(*                                                                         *)
(* asyncio is taken as of Python 3.12, where wait_for() awaits in the      *)
(* caller's task.  A step body that is cancelled ends: it does not catch   *)
(* the cancel and return normally.                                         *)
(***************************************************************************)
EXTENDS Naturals, Sequences, FiniteSets, Functions

CONSTANTS
    Steps,        \* steps, by the place where they stand in a workflow
    Pipelines,    \* workflows the model may be asked to run
    HasTimeout,   \* config.global_timeout_seconds is set
    MaxCancels    \* bound on cancels of the awaiting task

Modes == {"single", "failfast", "all"}
Batches == [steps : Seq(Steps), mode : Modes, limit : Nat]
Workflows ==
    [kind : {"pipeline", "list"}, failFast : BOOLEAN, interval : Nat,
     elements : Seq([then : Seq(Batches), else : Seq(Batches)])]

ArmSteps(arm) == UNION {Range(arm[b].steps) : b \in 1 .. Len(arm)}
StepsAt(p, i) == ArmSteps(p.elements[i].then) \cup ArmSteps(p.elements[i].else)

\* What _validate_workflow_definition lets through: a pipeline has some step, and each
\* group that an element can run has steps; a list may be empty.
ValidWorkflow(p) ==
    /\ p.kind = "pipeline" => \E i \in 1 .. Len(p.elements) : StepsAt(p, i) # {}
    /\ p.kind = "list" => p.interval = 0
    /\ \A i \in 1 .. Len(p.elements) :
           \A arm \in {p.elements[i].then, p.elements[i].else} :
               \A b \in 1 .. Len(arm) :
                   /\ arm[b].limit > 0 /\ arm[b].steps # <<>>
                   /\ arm[b].mode = "single" => Len(arm[b].steps) = 1

\* A step stands in one place of what an element runs, and in one element.
PlacedOnce(p) ==
    \A i \in 1 .. Len(p.elements) :
        /\ \A j \in 1 .. Len(p.elements) : i # j => StepsAt(p, i) \cap StepsAt(p, j) = {}
        /\ \A arm \in {p.elements[i].then, p.elements[i].else} :
               \A b \in 1 .. Len(arm) :
                   /\ IsInjective(arm[b].steps)
                   /\ \A c \in 1 .. Len(arm) :
                          b # c => Range(arm[b].steps) \cap Range(arm[c].steps) = {}

ASSUME PipelinesAssumption ==
    /\ \A p \in Pipelines : p \in Workflows /\ ValidWorkflow(p) /\ PlacedOnce(p)
    /\ MaxCancels \in Nat /\ HasTimeout \in BOOLEAN

VARIABLES
    workflow,     \* the pipeline or list that runs
    pc,           \* where execute() is suspended, or "next" at the top of the loop
    at,           \* index of the current element
    left,         \* batches of the current element from the current one on
    got,          \* step results of the current element so far
    task,         \* [Steps -> state of the step's coroutine or task]
    asked,        \* steps whose task was cancelled by the executor or the loop
    intr,         \* a cancel of execute() that a child still has to pass on
    steps,        \* result.steps of the inner executor
    count,        \* counters["checkpoint"]
    saved,        \* number in the name of the last checkpoint
    status,       \* PipelineExecutor.status
    wcancelled,   \* WorkflowExecutor._cancelled
    pcancelled,   \* PipelineExecutor._cancelled
    deadline,     \* "armed", "hit" or "off"
    report,       \* WorkflowResult once it is final
    told,         \* WORKFLOW_END events that listeners received
    cancels,      \* cancels of the awaiting task so far
    cutEmit,      \* a cancel landed in an event listener outside the try block
    stopAt        \* history: last element that cancel() allows to start

loopVars == <<at, left, got>>
flags == <<wcancelled, pcancelled, stopAt>>
outside == <<deadline, cancels, cutEmit, told>>
vars == <<workflow, pc, loopVars, task, asked, intr, steps, count, saved, status,
          flags, report, outside>>

Returned == {"success", "failed", "skipped"}
Ended == Returned \cup {"raised", "cancelled"}
Live == {"queued", "running"}

Result(s) == [step |-> s, status |-> task[s]]
FailedIn(results) == {i \in 1 .. Len(results) : results[i].status = "failed"}
Batch == Head(left)
Members == Range(Batch.steps)
IsList == workflow.kind = "list"

\* MUTANT of StopsAtFailure: only a pipeline's flag is read.
StopsIfAsked == workflow.failFast

\* A list of steps always stops at its first failure.
StopsAtFailure == workflow.failFast \/ IsList

Init ==
    /\ workflow \in Pipelines
    /\ pc = "start" /\ at = 1 /\ left = <<>> /\ got = <<>>
    /\ task = [s \in Steps |-> "none"] /\ asked = {} /\ intr = "none"
    /\ steps = <<>> /\ count = 0 /\ saved = 0 /\ status = "pending"
    /\ wcancelled = FALSE /\ pcancelled = FALSE /\ stopAt = Len(workflow.elements)
    /\ deadline = "off" /\ report = [status |-> "running", steps |-> <<>>]
    /\ told = 0 /\ cancels = 0 /\ cutEmit = FALSE

-----------------------------------------------------------------------------
(* execute() from the WORKFLOW_START event to the first element.           *)

\* The listeners of WORKFLOW_START return; a pipeline resets its own flag.
Started ==
    /\ pc = "start"
    /\ pc' = "next"
    /\ deadline' = IF HasTimeout THEN "armed" ELSE "off"
    /\ IF IsList
         THEN UNCHANGED <<pcancelled, status>>
         ELSE pcancelled' = FALSE /\ status' = "running"
    /\ UNCHANGED <<workflow, loopVars, task, asked, intr, steps, count, saved,
                   wcancelled, stopAt, report, told, cancels, cutEmit>>

Flag == IF IsList THEN wcancelled ELSE pcancelled

\* A single step runs in the executor's own task, a group in tasks of its own.
Begin(batch) ==
    task' = [s \in Steps |->
                IF s \in Range(batch.steps)
                  THEN IF batch.mode = "single" THEN "running" ELSE "queued"
                  ELSE task[s]]

OverallStatus(results) ==
    IF FailedIn(results) = {} THEN "success" ELSE "failed"

Disarm == deadline' = IF deadline = "armed" THEN "off" ELSE deadline

\* The inner executor returns; the outer one copies its result and emits the end.
Finish(results, overall) ==
    /\ pc' = "ending"
    /\ Disarm
    /\ steps' = results
    /\ report' = [status |-> overall, steps |-> results]
    /\ status' = IF IsList THEN status ELSE overall
    /\ UNCHANGED <<workflow, loopVars, intr, count, saved, flags, told, cancels, cutEmit>>

\* An exception in the loop: a pipeline turns it into a FAILED result, a list
\* lets it reach the ERROR event of execute().
Error(results) ==
    /\ pc' = IF IsList THEN "error" ELSE "ending"
    /\ Disarm
    /\ steps' = results
    /\ report' = [status |-> "failed", steps |-> results]
    /\ status' = IF IsList THEN status ELSE "failed"
    /\ intr' = "none"
    /\ UNCHANGED <<workflow, loopVars, count, saved, flags, told, cancels, cutEmit>>

\* The loop is over: all elements ran, or cancel() was noticed.
LoopEnds ==
    /\ pc = "next"
    /\ at > Len(workflow.elements) \/ Flag
    /\ Finish(steps, IF at > Len(workflow.elements) THEN OverallStatus(steps) ELSE "failed")
    /\ UNCHANGED <<task, asked>>

Arms == {workflow.elements[at].then, workflow.elements[at].else}

\* MUTANT of NextElement: an empty arm of a branch is awaited.
NextElementUnchecked ==
    /\ pc = "next" /\ at <= Len(workflow.elements) /\ ~Flag
    /\ \E arm \in Arms :
           /\ left' = arm /\ pc' = "waiting"
           /\ IF arm = <<>> THEN UNCHANGED task ELSE Begin(arm[1])
    /\ got' = <<>>
    /\ UNCHANGED <<workflow, at, asked, intr, steps, count, saved, status, flags,
                   report, outside>>

\* The next element starts, with the arm its condition chooses.
NextElement ==
    /\ pc = "next" /\ at <= Len(workflow.elements) /\ ~Flag
    /\ \E arm \in Arms :
           /\ left' = arm
           /\ IF arm = <<>>
                THEN pc' = "record" /\ UNCHANGED task
                ELSE pc' = "waiting" /\ Begin(arm[1])
    /\ got' = <<>>
    /\ UNCHANGED <<workflow, at, asked, intr, steps, count, saved, status, flags,
                   report, outside>>

\* The condition of a branch raises.
ConditionRaises ==
    /\ pc = "next" /\ at <= Len(workflow.elements) /\ ~Flag
    /\ Cardinality(Arms) > 1
    /\ Error(steps)
    /\ UNCHANGED <<task, asked>>

-----------------------------------------------------------------------------
(* The step executor, as the pipeline sees it.                             *)

\* A task of a group starts its step when the group's semaphore lets it.
StepStarts(s) ==
    /\ task[s] = "queued" /\ s \notin asked
    /\ \E i \in 1 .. Len(workflow.elements) :
           \E arm \in {workflow.elements[i].then, workflow.elements[i].else} :
               \E b \in 1 .. Len(arm) :
                   /\ s \in Range(arm[b].steps)
                   /\ Cardinality({t \in Range(arm[b].steps) : task[t] = "running"})
                        < arm[b].limit
    /\ task' = [task EXCEPT ![s] = "running"]
    /\ UNCHANGED <<workflow, pc, loopVars, asked, intr, steps, count, saved, status,
                   flags, report, outside>>

\* A step ends.  cancel_all() only makes bodies fail; a cancelled task returns a
\* FAILED result from its body and CancelledError from its hooks.
StepEnds(s) ==
    /\ \/ /\ task[s] = "running"
          /\ \E out \in IF s \in asked THEN {"failed", "raised", "cancelled"}
                                       ELSE Returned \cup {"raised"} :
                 task' = [task EXCEPT ![s] = out]
       \/ /\ task[s] = "queued" /\ s \in asked
          /\ task' = [task EXCEPT ![s] = "cancelled"]
    /\ UNCHANGED <<workflow, pc, loopVars, asked, intr, steps, count, saved, status,
                   flags, report, outside>>

-----------------------------------------------------------------------------
(* Collecting a batch.                                                     *)

\* The results of a batch are in: a branch goes on to its next batch unless a
\* step failed, and everything else is recorded.
BatchReturns(results) ==
    /\ got' = got \o results
    /\ IF Len(left) = 1 \/ FailedIn(results) # {}
         THEN pc' = "record" /\ UNCHANGED <<left, task>>
         ELSE pc' = "waiting" /\ left' = Tail(left) /\ Begin(left[2])
    /\ UNCHANGED <<workflow, at, steps, count, saved, status, flags, report, outside>>

\* A CancelledError leaves the inner executor.  Only a list has its results in
\* the result of execute() by then.
Unwind(why) ==
    /\ pc' = IF why = "timeout" THEN "ending" ELSE "cancelling"
    /\ report' = [status |-> "failed", steps |-> IF IsList THEN steps ELSE <<>>]
    /\ intr' = "none"
    /\ UNCHANGED <<workflow, loopVars, steps, count, saved, status, flags, told>>

\* MUTANT of SingleReturns: a step that raises is started again.
SingleReturnsOrRetries ==
    /\ pc = "waiting" /\ Batch.mode = "single"
    /\ \E s \in Members :
           \/ /\ task[s] \in Returned
              /\ BatchReturns(<<Result(s)>>)
              /\ intr' = "none" /\ UNCHANGED asked
           \/ /\ task[s] = "raised"
              /\ task' = [task EXCEPT ![s] = "running"]
              /\ UNCHANGED <<workflow, pc, loopVars, asked, intr, steps, count, saved,
                             status, flags, report, outside>>
           \/ /\ task[s] = "cancelled"
              /\ Unwind(intr)
              /\ UNCHANGED <<task, asked, deadline, cancels, cutEmit>>

\* A single step: a cancel it turned into a FAILED result is forgotten.
SingleReturns ==
    /\ pc = "waiting" /\ Batch.mode = "single"
    /\ \E s \in Members :
           \/ /\ task[s] \in Returned
              /\ BatchReturns(<<Result(s)>>)
              /\ intr' = "none" /\ UNCHANGED asked
           \/ /\ task[s] = "raised"
              /\ Error(steps) /\ UNCHANGED <<task, asked>>
           \/ /\ task[s] = "cancelled"
              /\ Unwind(intr)
              /\ UNCHANGED <<task, asked, deadline, cancels, cutEmit>>

\* MUTANT of GatherReturns: the group returns with the tasks that are done.
GatherReturnsEarly ==
    /\ pc = "waiting" /\ Batch.mode = "all"
    /\ \E s \in Members : task[s] \in Returned /\ BatchReturns(<<Result(s)>>)
    /\ UNCHANGED <<asked, intr>>

\* gather(): the first exception at once, or the results when all are in.
GatherReturns ==
    /\ pc = "waiting" /\ Batch.mode = "all"
    /\ \/ /\ \E s \in Members : task[s] = "raised"
          /\ Error(steps) /\ UNCHANGED task
       \/ /\ \E s \in Members : task[s] = "cancelled"
          /\ Unwind(intr) /\ UNCHANGED <<task, deadline, cancels, cutEmit>>
       \/ /\ \A s \in Members : task[s] \in Returned
          /\ IF intr # "none"
               THEN Unwind(intr) /\ UNCHANGED <<task, deadline, cancels, cutEmit>>
               ELSE /\ BatchReturns([i \in 1 .. Len(Batch.steps) |-> Result(Batch.steps[i])])
                    /\ UNCHANGED intr
    /\ UNCHANGED asked

Orders(set) == Bijection(1 .. Cardinality(set), set)

Collected == {got[i].step : i \in 1 .. Len(got)}

\* MUTANT of WaitReturns: a failure does not cancel what is pending.
WaitReturnsLenient(done, order) ==
    /\ \A s \in done : task[s] \in Returned
    /\ BatchReturns([i \in 1 .. Len(order) |-> Result(order[i])])
    /\ UNCHANGED <<asked, intr>>

\* wait(FIRST_COMPLETED) returned the tasks in done, looked at in any order up to
\* the first failure, which cancels what is still pending.
WaitReturns(done, order) ==
    LET stop == {i \in 1 .. Len(order) : task[order[i]] \in {"failed", "raised"}}
        upTo == IF stop = {} THEN Len(order)
                             ELSE CHOOSE i \in stop : \A j \in stop : i <= j
        seen == [i \in 1 .. upTo |-> Result(order[i])]
        pending == Members \ (Collected \cup done)
    IN  IF stop # {} /\ task[order[upTo]] = "raised"
          THEN Error(steps) /\ UNCHANGED <<task, asked>>
          ELSE IF stop = {} /\ pending # {}
          THEN /\ got' = got \o seen
               /\ UNCHANGED <<workflow, pc, at, left, task, asked, intr, steps, count,
                              saved, status, flags, report, outside>>
          ELSE /\ BatchReturns(seen)
               /\ asked' = asked \cup pending
               /\ UNCHANGED intr

FailFastReturns ==
    /\ pc = "waiting" /\ Batch.mode = "failfast"
    /\ LET done == {s \in Members \ Collected : task[s] \in Ended}
       IN  done # {} /\ \E order \in Orders(done) : WaitReturns(done, order)

-----------------------------------------------------------------------------
(* Recording results and saving checkpoints.                               *)

\* Results are added up to and including the first failure that stops the run.
Recorded ==
    LET failed == FailedIn(got)
    IN  IF StopsAtFailure /\ failed # {}
          THEN SubSeq(got, 1, CHOOSE i \in failed : \A j \in failed : i <= j)
          ELSE got

CountAfter == count + Len(got)

CheckpointDue == workflow.interval > 0 /\ CountAfter >= workflow.interval

Record ==
    /\ pc = "record"
    /\ IF StopsAtFailure /\ FailedIn(got) # {}
         THEN Finish(steps \o Recorded, "failed")
         ELSE /\ steps' = steps \o Recorded
              /\ count' = IF workflow.interval > 0 THEN CountAfter ELSE count
              /\ IF CheckpointDue
                   THEN pc' = "checkpoint" /\ saved' = Len(steps') /\ UNCHANGED at
                   ELSE pc' = "next" /\ at' = at + 1 /\ UNCHANGED saved
              /\ UNCHANGED <<workflow, left, got, intr, status, flags, report, outside>>
    /\ UNCHANGED <<task, asked>>

\* The progress callback of a pipeline raises after one of the results.
CallbackRaises ==
    /\ pc = "record" /\ ~IsList
    /\ \E n \in 1 .. Len(Recorded) : Error(steps \o SubSeq(Recorded, 1, n))
    /\ UNCHANGED <<task, asked>>

\* The file is written; the handlers of its event return.
CheckpointSaved ==
    /\ pc = "checkpoint"
    /\ count' = 0
    /\ pc' = "next" /\ at' = at + 1
    /\ UNCHANGED <<workflow, left, got, task, asked, intr, steps, saved, status, flags,
                   report, outside>>

\* The context has no checkpoint directory, or the file cannot be written.
CheckpointFails ==
    /\ pc = "record" /\ CheckpointDue
    /\ ~(StopsAtFailure /\ FailedIn(got) # {})
    /\ Error(steps \o Recorded)
    /\ UNCHANGED <<task, asked>>

-----------------------------------------------------------------------------
(* The timeout, cancels of the awaiting task, cancel() and the end.        *)

\* A cancel of the caller outranks the timeout's when both are pending.
Joined(why) == IF "cancel" \in {why, intr} THEN "cancel" ELSE why

\* What throwing CancelledError into the suspended execute() does.  A single step
\* and a gather pass it to their steps, wait() abandons its tasks, and a gather
\* that is already decided is abandoned too.
Interrupt(why) ==
    \/ /\ pc = "waiting" /\ Batch.mode # "failfast"
       /\ Batch.mode = "single" => \E s \in Members : task[s] \in Live
       /\ IF \/ \E s \in Members : task[s] \in {"raised", "cancelled"}
             \/ \A s \in Members : task[s] \in Returned
            THEN Unwind(Joined(why)) /\ UNCHANGED asked
            ELSE /\ asked' = asked \cup {s \in Members : task[s] \in Live}
                 /\ intr' = Joined(why)
                 /\ UNCHANGED <<workflow, pc, loopVars, steps, count, saved, status,
                                flags, report, told>>
       /\ UNCHANGED task
    \/ /\ \/ pc = "waiting" /\ Batch.mode = "failfast"
          \/ pc = "checkpoint"
       /\ Unwind(Joined(why))
       /\ UNCHANGED <<task, asked>>

TimeoutHits ==
    /\ deadline = "armed" /\ deadline' = "hit"
    /\ Interrupt("timeout")
    /\ UNCHANGED <<cancels, cutEmit>>

\* The task that awaits execute() is cancelled.  In the listeners of an event
\* outside the try block nothing catches it; in the handler of an earlier cancel
\* each event is guarded.
CancelTask ==
    /\ cancels < MaxCancels /\ cancels' = cancels + 1
    /\ \/ Interrupt("cancel") /\ UNCHANGED <<deadline, cutEmit>>
       \/ /\ \/ pc \in {"start", "error", "ending", "cancelled"} /\ pc' = "raised" /\ cutEmit' = TRUE
             \/ pc = "cancelling" /\ pc' = "cancelled" /\ UNCHANGED cutEmit
          /\ UNCHANGED <<workflow, loopVars, task, asked, intr, steps, count, saved,
                         status, flags, report, deadline, told>>

\* WorkflowExecutor.cancel(), which reaches both executors.
Cancel ==
    /\ pc \notin {"returned", "raised"} /\ ~(wcancelled /\ pcancelled)
    /\ wcancelled' = TRUE /\ pcancelled' = TRUE /\ status' = "cancelled"
    /\ stopAt' = CASE pc = "start" -> IF IsList THEN 0 ELSE stopAt
                   [] pc = "next" -> at - 1
                   [] OTHER -> at
    /\ UNCHANGED <<workflow, pc, loopVars, task, asked, intr, steps, count, saved,
                   report, outside>>

\* The listeners of an event return; execute() goes on to the next one or ends.
ListenersReturn ==
    /\ pc' = CASE pc = "error" -> "ending"
               [] pc = "ending" -> "returned"
               [] pc = "cancelling" -> "cancelled"
               [] pc = "cancelled" -> "raised"
    /\ told' = IF pc \in {"ending", "cancelled"} THEN told + 1 ELSE told
    /\ UNCHANGED <<workflow, loopVars, task, asked, intr, steps, count, saved, status,
                   flags, report, deadline, cancels, cutEmit>>

Announce == pc \in {"error", "ending", "cancelling", "cancelled"} /\ ListenersReturn

Executor ==
    \/ Started \/ NextElement \/ LoopEnds \/ ConditionRaises
    \/ SingleReturns \/ GatherReturns \/ FailFastReturns
    \/ Record \/ CallbackRaises \/ CheckpointSaved \/ CheckpointFails \/ Announce

StepTask(s) == StepStarts(s) \/ StepEnds(s)

\* execute() is over and no task of it is left.
Terminated ==
    /\ pc \in {"returned", "raised"} /\ \A s \in Steps : task[s] \notin Live
    /\ UNCHANGED vars

Next ==
    \/ Executor
    \/ \E s \in Steps : StepTask(s)
    \/ TimeoutHits \/ CancelTask \/ Cancel \/ Terminated

Spec == Init /\ [][Next]_vars

\* The event loop resumes whatever is ready, and step bodies end.
FairSpec == Spec /\ WF_vars(Executor) /\ \A s \in Steps : WF_vars(StepTask(s))

-----------------------------------------------------------------------------
(* Properties.                                                             *)

TypeOK ==
    /\ workflow \in Pipelines
    /\ pc \in {"start", "next", "waiting", "record", "checkpoint", "error", "ending",
               "cancelling", "cancelled", "returned", "raised"}
    /\ at \in 1 .. Len(workflow.elements) + 1
    /\ left \in Seq(Batches) /\ (pc = "waiting" => left # <<>>)
    /\ got \in Seq([step : Steps, status : Returned])
    /\ steps \in Seq([step : Steps, status : Returned])
    /\ task \in [Steps -> {"none"} \cup Live \cup Ended]
    /\ asked \subseteq Steps /\ intr \in {"none", "timeout", "cancel"}
    /\ count \in Nat /\ saved \in 0 .. Len(steps)
    /\ status \in {"pending", "running", "success", "failed", "cancelled"}
    /\ wcancelled \in BOOLEAN /\ pcancelled \in BOOLEAN
    /\ stopAt \in 0 .. Len(workflow.elements) + 1
    /\ deadline \in {"off", "armed", "hit"} /\ cancels \in 0 .. MaxCancels
    /\ report.status \in {"running", "success", "failed"}
    /\ told \in 0 .. 1 /\ cutEmit \in BOOLEAN

ElementSteps(i) == StepsAt(workflow, i)

FailFast == workflow.failFast \/ workflow.kind = "list"

\* The element at which each step stands decides who may overlap with whom: when a
\* step has started, no step of an earlier element is live, except one the pipeline
\* cancelled and does not wait for; and in a workflow that stops at failures every
\* earlier step succeeded or was skipped (PipelineExecutor.execute's loop).
ElementsInOrder ==
    \A j \in 1 .. Len(workflow.elements) : \A i \in 1 .. j - 1 :
        (\E s \in ElementSteps(j) : task[s] # "none") =>
            \A s \in ElementSteps(i) :
                /\ task[s] \in Live => s \in asked /\ ~FailFast
                /\ FailFast => task[s] \in {"none", "success", "skipped"}

\* What execute() reports is what happened: each result is the one its step ended
\* with and no step is reported twice; and a success covers one whole arm of every
\* element, with nothing failed, cut off or left running (_record_step_results).
HonestReport ==
    report.status # "running" =>
        /\ \A i, j \in 1 .. Len(report.steps) :
               /\ report.steps[i].status = task[report.steps[i].step]
               /\ report.steps[i].step = report.steps[j].step => i = j
        /\ report.status = "success" =>
               LET reported == {report.steps[i].step : i \in 1 .. Len(report.steps)}
               IN  /\ \A s \in Steps : task[s] = "none" \/ s \in reported
                   /\ \A s \in reported : task[s] \in {"success", "skipped"}
                   /\ \A i \in 1 .. Len(workflow.elements) :
                          \/ ArmSteps(workflow.elements[i].then) \subseteq reported
                          \/ ArmSteps(workflow.elements[i].else) \subseteq reported

\* Once cancel() was called on a run that has begun, the current element may still
\* finish but no later one starts (WorkflowExecutor.cancel, PipelineExecutor.cancel).
CancelStops ==
    \A i \in stopAt + 1 .. Len(workflow.elements) :
        \A s \in ElementSteps(i) : task[s] = "none"

\* A task that execute() no longer waits for was cancelled by it, unless the timeout,
\* a cancel of the caller or an exception of a step took execute() away from it
\* (_gather_fail_fast cancels the rest on a failure).
NoRunaway ==
    \A s \in Steps :
        task[s] \in Live /\ ~(pc = "waiting" /\ s \in Members) =>
            \/ s \in asked
            \/ deadline = "hit" \/ cancels > 0
            \/ \E t \in Steps : task[t] = "raised"

\* Listeners receive WORKFLOW_END exactly once however the run ends, unless a cancel
\* cuts a listener itself off: a second cancel during the first one's CANCELLED event
\* does not lose it (the handlers of execute()).
EndAnnounced ==
    pc \in {"returned", "raised"} /\ ~cutEmit => told = 1

\* When an element starts, fewer results than the interval are not in a checkpoint
\* yet, also when a group adds several at once (_maybe_checkpoint).
CheckpointFresh ==
    pc = "next" /\ workflow.interval > 0 => Len(steps) - saved < workflow.interval

\* A run goes through its elements in order until it is told to stop, and what it tells
\* the outside, in its report, its end event and its checkpoints, is what happened.
RunExact ==
    ElementsInOrder /\ CancelStops /\ HonestReport /\ EndAnnounced /\ CheckpointFresh

\* In a workflow that stops at failures no element starts after the global timeout,
\* although the step it cancels turns the cancel into an ordinary result.
DeadlineStops ==
    [][deadline = "hit" /\ FailFast =>
         \A s \in Steps : task[s] = "none" => task'[s] = "none"]_vars

\* execute() ends and so does every task it ever started.
Termination == <>(pc \in {"returned", "raised"} /\ \A s \in Steps : task[s] \notin Live)
=============================================================================
