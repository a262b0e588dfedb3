---------------------------- MODULE NativeEngine -----------------------------
(***************************************************************************)
(* adapters/native/engine.py and _checkpoint_store.py: execute() and       *)
(* resume() of several workflow threads on one engine, their checkpoint    *)
(* writes on worker threads, cancels, timeouts and crashes of the process. *)
(*                                                                         *)
(* The scheduling of steps is DagExecutor's or the pipeline's; here a step *)
(* that has not yet ended in this execution may succeed at any time.  A    *)
(* row of the checkpoints table is a pair of a thread and a step.          *)
(***************************************************************************)
EXTENDS Naturals

CONSTANTS
    Thread,      \* thread ids, each used by one execution at a time
    Step,        \* steps of the workflow
    MaxResumes,  \* bound on resume() calls
    MaxCrashes   \* bound on crashes of the process

ASSUME NativeAssumption == MaxResumes \in Nat /\ MaxCrashes \in Nat

VARIABLES
    flow,       \* what each thread executes: a DAG or a Pipeline
    phase,      \* where the execution of each thread is suspended
    exit,       \* how it will end after its checkpoint writes
    ended,      \* steps that succeeded in this execution
    reporting,  \* the step_end the caller's on_update is being told of
    write,      \* the last checkpoint write of each thread and step
    waiting,    \* the tasks gathered in execute()'s finally
    detached,   \* worker threads whose awaiting task was cancelled
    rows,       \* the checkpoints table
    restored,   \* ctx.completed_steps as restored by resume()
    succeeded,  \* history: steps that ever succeeded in the thread
    cut,        \* history: threads one of whose writes a cancelled drain dropped
    resumes, crashes

vars == <<flow, phase, exit, ended, reporting, write, waiting, detached, rows, restored,
          succeeded, cut, resumes, crashes>>
callVars == <<flow, restored, resumes, crashes>>
runVars == <<callVars, ended, succeeded, cut>>

Over == {"returned", "raised", "crashed"}
InFlight == {"queued", "writing"}

\* _checkpoint_tasks, shared by every thread of the engine.
CheckpointTasks == {w \in Thread \X Step : write[w[1]][w[2]] \in InFlight}

SetWrite(t, s, state) == write' = [write EXCEPT ![t][s] = state]

Init ==
    /\ flow \in [Thread -> {"dag", "pipeline"}]
    /\ phase = [t \in Thread |-> "idle"]
    /\ exit = [t \in Thread |-> "none"]
    /\ ended = [t \in Thread |-> {}]
    /\ reporting = [t \in Thread |-> {}]
    /\ write = [t \in Thread |-> [s \in Step |-> "none"]]
    /\ waiting = [t \in Thread |-> {}]
    /\ detached = {} /\ rows = {}
    /\ restored = [t \in Thread |-> {}]
    /\ succeeded = [t \in Thread |-> {}] /\ cut = {}
    /\ resumes = 0 /\ crashes = 0

-----------------------------------------------------------------------------
Execute(t) ==
    /\ phase[t] = "idle"
    /\ phase' = [phase EXCEPT ![t] = "running"]
    /\ UNCHANGED <<exit, reporting, write, waiting, detached, rows, runVars>>

\* Mutant of SavedSteps: the rows of every thread are read.
SavedAnyThread(t) == {s \in Step : \E u \in Thread : <<u, s>> \in rows}

\* read() and the successful steps _restore_checkpoint_state takes from it.
SavedSteps(t) == {s \in Step : <<t, s>> \in rows}

\* resume() on a new context, then execute().
Resume(t) ==
    /\ phase[t] \in Over
    /\ resumes < MaxResumes
    /\ resumes' = resumes + 1
    /\ restored' = [restored EXCEPT ![t] = SavedSteps(t)]
    /\ phase' = [phase EXCEPT ![t] = "running"]
    /\ exit' = [exit EXCEPT ![t] = "none"]
    /\ ended' = [ended EXCEPT ![t] = {}]
    /\ UNCHANGED <<flow, reporting, write, waiting, detached, rows, succeeded, cut, crashes>>

\* A step of a DAG succeeds and its step_end is sent: the caller's on_update is awaited.
\* should_run() looks only at a step's dependencies, so a restored step runs too.
StepEnds(t, s) ==
    /\ phase[t] = "running" /\ flow[t] = "dag"
    /\ s \notin ended[t]
    /\ ended' = [ended EXCEPT ![t] = @ \cup {s}]
    /\ succeeded' = [succeeded EXCEPT ![t] = @ \cup {s}]
    /\ reporting' = [reporting EXCEPT ![t] = {s}]
    /\ phase' = [phase EXCEPT ![t] = "callback"]
    /\ UNCHANGED <<callVars, exit, write, waiting, detached, rows, cut>>

\* A step of a Pipeline succeeds.  PipelineExecutor.execute() knows on_update by another
\* name, so the wrapped observer is never told and nothing is written.
PipelineStep(t, s) ==
    /\ phase[t] = "running" /\ flow[t] = "pipeline"
    /\ s \notin ended[t]
    /\ ended' = [ended EXCEPT ![t] = @ \cup {s}]
    /\ succeeded' = [succeeded EXCEPT ![t] = @ \cup {s}]
    /\ UNCHANGED <<callVars, phase, exit, reporting, write, waiting, detached, rows, cut>>

\* Mutant of Scheduled: an interrupted or failing callback skips the write.
ScheduledIfReturned(t) == write[t]

\* The finally of _on_update schedules the checkpoint write.
Scheduled(t) == [s \in Step |-> IF s \in reporting[t] THEN "queued" ELSE write[t][s]]

\* The caller's on_update returned or raised, which the executor only logs.
CallbackReturns(t) ==
    /\ phase[t] = "callback"
    /\ write' = [write EXCEPT ![t] = Scheduled(t)]
    /\ reporting' = [reporting EXCEPT ![t] = {}]
    /\ phase' = [phase EXCEPT ![t] = "running"]
    /\ UNCHANGED <<exit, waiting, detached, rows, runVars>>

\* _dispatch is left, and execute()'s finally gathers every checkpoint task.
LeaveDispatch(t, how) ==
    /\ write' = [write EXCEPT ![t] = Scheduled(t)]
    /\ reporting' = [reporting EXCEPT ![t] = {}]
    /\ waiting' = [waiting EXCEPT ![t] = CheckpointTasks']
    /\ phase' = [phase EXCEPT ![t] = "drain"]
    /\ exit' = [exit EXCEPT ![t] = how]

\* Every step has ended, failed or been skipped, or the executor raised.
Finishes(t) ==
    /\ phase[t] = "running"
    /\ \E how \in {"returned", "raised"} : LeaveDispatch(t, how)
    /\ UNCHANGED <<detached, rows, runVars>>

\* A cancel ("raised") or the workflow's timeout ("returned") in the callback.
Interrupted(t) ==
    /\ phase[t] = "callback"
    /\ \E how \in {"returned", "raised"} : LeaveDispatch(t, how)
    /\ UNCHANGED <<detached, rows, runVars>>

Drained(t) == waiting[t] \cap CheckpointTasks = {}

EndExecution(t) ==
    /\ phase[t] = "drain"
    /\ Drained(t)
    /\ phase' = [phase EXCEPT ![t] = exit[t]]
    /\ waiting' = [waiting EXCEPT ![t] = {}]
    /\ UNCHANGED <<exit, reporting, write, detached, rows, runVars>>

\* A cancel of execute() in its finally: gather() cancels all its children, the
\* writes of other threads too.  A queued job is withdrawn, a running one goes on
\* without its task.  Neither is logged: the done callback catches an Exception only.
CancelDrain(t) ==
    /\ phase[t] = "drain"
    /\ ~Drained(t)
    /\ LET cancelled == waiting[t] \cap CheckpointTasks
       IN  /\ write' = [u \in Thread |-> [s \in Step |->
                            IF <<u, s>> \in cancelled THEN "dropped" ELSE write[u][s]]]
           /\ detached' = detached \cup {w \in cancelled : write[w[1]][w[2]] = "writing"}
           /\ cut' = cut \cup {u \in Thread : \E s \in Step : <<u, s>> \in cancelled}
    /\ exit' = [exit EXCEPT ![t] = "raised"]
    /\ UNCHANGED <<callVars, phase, ended, succeeded, reporting, waiting, rows>>

-----------------------------------------------------------------------------
(***************************************************************************)
(* The worker threads of CheckpointStore.write.                            *)
(***************************************************************************)
WriteStarts(t, s) ==
    /\ write[t][s] = "queued"
    /\ SetWrite(t, s, "writing")
    /\ UNCHANGED <<phase, exit, reporting, waiting, detached, rows, runVars>>

WriteCommits(t, s) ==
    /\ write[t][s] = "writing"
    /\ SetWrite(t, s, "done")
    /\ rows' = rows \cup {<<t, s>>}
    /\ UNCHANGED <<phase, exit, reporting, waiting, detached, runVars>>

\* Mutant of WriteFails: a failed write is queued again.
WriteRetries(t, s) ==
    /\ write[t][s] = "writing"
    /\ SetWrite(t, s, "queued")
    /\ UNCHANGED <<phase, exit, reporting, waiting, detached, rows, runVars>>

\* The database is locked or the disk is full: the failure is logged.
WriteFails(t, s) ==
    /\ write[t][s] = "writing"
    /\ SetWrite(t, s, "failed")
    /\ UNCHANGED <<phase, exit, reporting, waiting, detached, rows, runVars>>

\* A worker whose task was cancelled ends.
DetachedEnds(t, s) ==
    /\ <<t, s>> \in detached
    /\ detached' = detached \ {<<t, s>>}
    /\ rows' \in {rows, rows \cup {<<t, s>>}}
    /\ UNCHANGED <<phase, exit, reporting, write, waiting, runVars>>

\* The process dies: everything but the table is lost.
Crash ==
    /\ crashes < MaxCrashes
    /\ crashes' = crashes + 1
    /\ phase' = [t \in Thread |-> IF phase[t] = "idle" THEN "idle" ELSE "crashed"]
    /\ exit' = [t \in Thread |-> "none"]
    /\ ended' = [t \in Thread |-> {}]
    /\ reporting' = [t \in Thread |-> {}]
    /\ write' = [t \in Thread |-> [s \in Step |-> "none"]]
    /\ waiting' = [t \in Thread |-> {}]
    /\ detached' = {} /\ cut' = {}
    /\ UNCHANGED <<flow, rows, restored, succeeded, resumes>>

Worker(t, s) == WriteStarts(t, s) \/ WriteCommits(t, s) \/ WriteFails(t, s)

Execution(t) ==
    \/ Execute(t) \/ Resume(t) \/ CallbackReturns(t) \/ Finishes(t) \/ Interrupted(t)
    \/ EndExecution(t) \/ CancelDrain(t)
    \/ \E s \in Step : StepEnds(t, s) \/ PipelineStep(t, s)

\* Every execution is over and no worker is left.
Terminated ==
    /\ \A t \in Thread : phase[t] \in Over
    /\ CheckpointTasks = {} /\ detached = {}
    /\ UNCHANGED vars

Next ==
    \/ Crash
    \/ Terminated
    \/ \E t \in Thread :
        \/ Execution(t)
        \/ \E s \in Step : Worker(t, s) \/ DetachedEnds(t, s)

Spec == Init /\ [][Next]_vars

\* Worker threads run, SQLite answers, and gather()'s awaiter is resumed.
FairSpec ==
    /\ Spec
    /\ \A t \in Thread : WF_vars(EndExecution(t))
    /\ \A t \in Thread, s \in Step : WF_vars(Worker(t, s))

-----------------------------------------------------------------------------
TypeOK ==
    /\ flow \in [Thread -> {"dag", "pipeline"}] /\ cut \subseteq Thread
    /\ phase \in [Thread -> {"idle", "running", "callback", "drain"} \cup Over]
    /\ exit \in [Thread -> {"none", "returned", "raised"}]
    /\ ended \in [Thread -> SUBSET Step] /\ reporting \in [Thread -> SUBSET Step]
    /\ write \in [Thread -> [Step -> InFlight \cup {"none", "done", "failed", "dropped"}]]
    /\ waiting \in [Thread -> SUBSET (Thread \X Step)]
    /\ detached \subseteq Thread \X Step /\ rows \subseteq Thread \X Step
    /\ restored \in [Thread -> SUBSET Step] /\ succeeded \in [Thread -> SUBSET Step]
    /\ resumes \in 0 .. MaxResumes /\ crashes \in 0 .. MaxCrashes

\* A resumed context lists a step as completed only if it succeeded in an earlier
\* execution of the same thread, whatever crashed, was cancelled or ran beside it.
RestoreTruthful == \A t \in Thread : restored[t] \subseteq succeeded[t]

\* Once execute() has returned or raised, the engine holds no checkpoint task of the
\* thread, and no worker still writes for it unless a cancelled drain, its own or that
\* of another thread, let go of one: such a worker may commit after a resume() that
\* follows has read the table.
NoWriteLeft ==
    \A t \in Thread : phase[t] \in {"returned", "raised"} =>
        \A s \in Step : /\ write[t][s] \notin InFlight
                        /\ <<t, s>> \in detached => t \in cut

\* Once execute() of a DAG has returned or raised, on every path of the observer, the
\* timeout and the cancel, a step that succeeded is in the table, or SQLite refused its
\* write, which is logged, or a cancelled drain dropped it, which is not: no success
\* goes without a write.
LossExplained ==
    \A t \in Thread : phase[t] \in {"returned", "raised"} /\ flow[t] = "dag" =>
        \A s \in ended[t] :
            \/ <<t, s>> \in rows \/ write[t][s] = "failed"
            \/ write[t][s] = "dropped" /\ t \in cut

\* When execute() of a DAG is over, each success of it was written or its write was
\* refused, and nothing is still being written, but for what a cancel in the wait for
\* the writes has cut loose.
WritesExact == NoWriteLeft /\ LossExplained

\* An execution that left its workflow ends, whatever the other threads write.
DrainEnds == \A t \in Thread : phase[t] = "drain" ~> phase[t] # "drain"

\* resume() "pre-populates the execution context so that already-completed steps
\* are skipped by the DAG executor".
ResumeSkips == \A t \in Thread : restored[t] \cap ended[t] = {}
=============================================================================
