---------------------------- MODULE StepExecutor -----------------------------
(***************************************************************************)
(* engine/step.py: concurrent calls of StepExecutor.execute() on one       *)
(* shared executor, each for the step of the same name in a run of its     *)
(* own, with cancel_all() from outside and cancels of the calling tasks.   *)
(*                                                                         *)
(* The phases are the awaits of execute(): at each of them another call    *)
(* may run and a cancel may be delivered.  The step is the most general    *)
(* one: it has hooks, contracts, a verification gate, a timeout, a retry   *)
(* policy and a loop_until whose value is arbitrary (a step without        *)
(* loop_until is one whose condition holds at once).                       *)
(*                                                                         *)
(* retried, inputs and outputs are history variables: backoffs so far, how *)
(* many outputs the child context has seen, and outputs mapped so far.     *)
(***************************************************************************)
EXTENDS Naturals

CONSTANTS
    Call,        \* concurrent calls of execute()
    RunId,       \* run ids
    runOf,       \* the run each call belongs to
    MaxRetries,  \* retry.max_retries
    LoopMax,     \* the resolved loop_max
    None         \* no task is registered

\* One run executes a step once at a time, and _resolve_loop_max is at least 1.
ASSUME CallAssumption ==
    /\ runOf \in [Call -> RunId]
    /\ \A c, d \in Call : runOf[c] = runOf[d] => c = d
    /\ None \notin Call
ASSUME BudgetAssumption == MaxRetries \in Nat /\ LoopMax \in Nat \ {0}

VARIABLES
    pc,             \* the await each call is suspended in
    status,         \* result.status
    attempt,        \* the attempt counter of execute()
    loopIteration,  \* result.metadata["loop_iteration"]
    runningTasks,   \* _running_tasks: key -> call
    ctxCompleted,   \* calls whose context lists the step as completed
    ctxFailed,      \* calls whose context lists the step as failed
    retried, inputs, outputs

history == <<retried, inputs, outputs>>
ctxVars == <<ctxCompleted, ctxFailed>>
vars == <<pc, status, attempt, loopIteration, runningTasks, ctxVars, history>>

Phase == {"new", "start", "hooks", "prepare", "body", "post", "complete", "refresh",
          "backoff", "errhooks", "failing"}
Ended == {"returned", "raised", "cancelled"}
Status == {"pending", "skipped", "running", "retrying", "success", "failed"}

\* Mutant of KeyOf: tasks are registered under the bare step name.
KeyByName(c) == runOf[CHOOSE d \in Call : TRUE]

\* The key of a body task; the step name is the same for every call.
KeyOf(c) == runOf[c]

Init ==
    /\ pc = [c \in Call |-> "new"]
    /\ status = [c \in Call |-> "pending"]
    /\ attempt = [c \in Call |-> 0]
    /\ loopIteration = [c \in Call |-> 1]
    /\ runningTasks = [r \in RunId |-> None]
    /\ ctxCompleted = {} /\ ctxFailed = {}
    /\ retried = [c \in Call |-> 0]
    /\ inputs = [c \in Call |-> 0]
    /\ outputs = [c \in Call |-> 0]

-----------------------------------------------------------------------------
Goto(c, p) == pc' = [pc EXCEPT ![c] = p]
SetStatus(c, s) == status' = [status EXCEPT ![c] = s]

\* mark_step_failed, then its handlers are awaited.
Fail(c) ==
    /\ SetStatus(c, "failed")
    /\ ctxFailed' = ctxFailed \cup {c}
    /\ Goto(c, "failing")
    /\ UNCHANGED ctxCompleted

\* The finally of _execute_with_timeout.
Unregister(c) ==
    runningTasks' = IF runningTasks[KeyOf(c)] = c
                    THEN [runningTasks EXCEPT ![KeyOf(c)] = None]
                    ELSE runningTasks

\* A new child context sees everything mapped so far.
PrepareInputs(c) == inputs' = [inputs EXCEPT ![c] = outputs[c]]

\* Another result is in the context, as variables and as the step's view.
MapOutputs(c) == outputs' = [outputs EXCEPT ![c] = @ + 1]

\* The attempt that failed leaves an error retry; should_retry() is arbitrary.
RetriesLeft(c) == attempt[c] <= MaxRetries

\* _execute_with_timeout creates and registers the body's task.
StartBody(c) ==
    /\ runningTasks' = [runningTasks EXCEPT ![KeyOf(c)] = c]
    /\ Goto(c, "body")

\* should_run() is false.
Skip(c) ==
    /\ pc[c] = "new"
    /\ SetStatus(c, "skipped") /\ Goto(c, "returned")
    /\ UNCHANGED <<attempt, loopIteration, runningTasks, ctxVars, history>>

\* The step has no function.
NoFunction(c) ==
    /\ pc[c] = "new"
    /\ SetStatus(c, "failed") /\ Goto(c, "returned")
    /\ UNCHANGED <<attempt, loopIteration, runningTasks, ctxVars, history>>

\* mark_step_start awaits the context's handlers.
MarkStart(c) ==
    /\ pc[c] = "new"
    /\ SetStatus(c, "running") /\ Goto(c, "start")
    /\ UNCHANGED <<attempt, loopIteration, runningTasks, ctxVars, history>>

RunPreHooks(c) ==
    /\ pc[c] = "start"
    /\ Goto(c, "hooks")
    /\ UNCHANGED <<status, attempt, loopIteration, runningTasks, ctxVars, history>>

PreHooksPass(c) ==
    /\ pc[c] = "hooks"
    /\ Goto(c, "prepare")
    /\ UNCHANGED <<status, attempt, loopIteration, runningTasks, ctxVars, history>>

PreHooksFail(c) ==
    /\ pc[c] = "hooks"
    /\ Fail(c)
    /\ UNCHANGED <<attempt, loopIteration, runningTasks, history>>

\* Inputs are resolved and validated: the first attempt starts.
FirstAttempt(c) ==
    /\ pc[c] = "prepare"
    /\ attempt' = [attempt EXCEPT ![c] = @ + 1]
    /\ PrepareInputs(c)
    /\ StartBody(c)
    /\ UNCHANGED <<status, loopIteration, ctxVars, retried, outputs>>

\* Mutant of NextRound: the round is paid from the error-retry budget.
NextRoundSpends(c) ==
    /\ pc[c] = "refresh"
    /\ PrepareInputs(c)
    /\ attempt' = [attempt EXCEPT ![c] = @ + 1]
    /\ StartBody(c)
    /\ UNCHANGED <<status, loopIteration, ctxVars, retried, outputs>>

\* A loop_until round: inputs are resolved again, attempt goes down and up.
NextRound(c) ==
    /\ pc[c] = "refresh"
    /\ PrepareInputs(c)
    /\ StartBody(c)
    /\ UNCHANGED <<status, attempt, loopIteration, ctxVars, retried, outputs>>

\* Mutant of InputContractFails: the pre-hooks are run again instead.
InputContractReruns(c) ==
    /\ pc[c] \in {"prepare", "refresh"}
    /\ Goto(c, "hooks")
    /\ UNCHANGED <<status, attempt, loopIteration, runningTasks, ctxVars, history>>

\* An input contract is violated: error hooks, then the failure is marked.
InputContractFails(c) ==
    /\ pc[c] \in {"prepare", "refresh"}
    /\ Goto(c, "errhooks")
    /\ UNCHANGED <<status, attempt, loopIteration, runningTasks, ctxVars, history>>

\* Any other exception of _prepare_inputs leaves execute().
PrepareRaises(c) ==
    /\ pc[c] \in {"prepare", "refresh"}
    /\ Goto(c, "raised")
    /\ UNCHANGED <<status, attempt, loopIteration, runningTasks, ctxVars, history>>

\* The body returned outputs that satisfy their contracts: they are mapped into
\* the context; hooks and the verification gate follow.
BodyReturns(c) ==
    /\ pc[c] = "body"
    /\ Unregister(c)
    /\ SetStatus(c, "success")
    /\ MapOutputs(c)
    /\ Goto(c, "post")
    /\ UNCHANGED <<attempt, loopIteration, ctxVars, retried, inputs>>

\* Leaving the body or the hooks after it by an exception.
Leave(c) == pc[c] \in {"body", "post"} /\ Unregister(c)

\* _handle_exception with a retryable error and budget left: it sleeps.
RetryLater(c) ==
    /\ Leave(c)
    /\ RetriesLeft(c)
    /\ SetStatus(c, "retrying")
    /\ retried' = [retried EXCEPT ![c] = @ + 1]
    /\ Goto(c, "backoff")
    /\ UNCHANGED <<attempt, loopIteration, ctxVars, inputs, outputs>>

\* _handle_exception with an error not to be retried.
GiveUp(c) ==
    /\ Leave(c)
    /\ Goto(c, "errhooks")
    /\ UNCHANGED <<status, attempt, loopIteration, ctxVars, history>>

\* TimeoutError, of the step's own timeout or raised inside it, never retries.
TimesOut(c) ==
    /\ Leave(c)
    /\ Fail(c)
    /\ UNCHANGED <<attempt, loopIteration, history>>

\* The backoff ended; the inputs are not resolved again.
NextAttempt(c) ==
    /\ pc[c] = "backoff"
    /\ attempt' = [attempt EXCEPT ![c] = @ + 1]
    /\ StartBody(c)
    /\ UNCHANGED <<status, loopIteration, ctxVars, history>>

\* The verification gate fails with strategy "block".
GateBlocks(c) ==
    /\ pc[c] = "post"
    /\ Fail(c)
    /\ UNCHANGED <<attempt, loopIteration, runningTasks, history>>

\* _should_loop_again: the condition does not hold and rounds are left.
LoopAgain(c) ==
    /\ pc[c] = "post"
    /\ loopIteration[c] < LoopMax
    /\ loopIteration' = [loopIteration EXCEPT ![c] = @ + 1]
    /\ SetStatus(c, "running")
    /\ Goto(c, "refresh")
    /\ UNCHANGED <<attempt, runningTasks, ctxVars, history>>

\* mark_step_complete awaits its handlers.
MarkComplete(c) ==
    /\ pc[c] = "post"
    /\ ctxCompleted' = ctxCompleted \cup {c}
    /\ Goto(c, "complete")
    /\ UNCHANGED <<status, attempt, loopIteration, runningTasks, ctxFailed, history>>

ErrorHooksDone(c) ==
    /\ pc[c] = "errhooks"
    /\ Fail(c)
    /\ UNCHANGED <<attempt, loopIteration, runningTasks, history>>

\* The handlers of the last mark returned; mark_complete keeps the status.
Return(c) ==
    /\ pc[c] \in {"complete", "failing"}
    /\ Goto(c, "returned")
    /\ UNCHANGED <<status, attempt, loopIteration, runningTasks, ctxVars, history>>

-----------------------------------------------------------------------------
\* Mutant of CancelRecorded: FAILED without the mark in the context.
CancelUnmarked(c) ==
    /\ pc[c] \in {"body", "post", "complete"}
    /\ Unregister(c)
    /\ SetStatus(c, "failed") /\ Goto(c, "failing")
    /\ UNCHANGED <<attempt, loopIteration, ctxVars, history>>

\* A cancel of the calling task, or of the body's task by cancel() / cancel_all(),
\* reaches an await inside the try of _run_attempt: a FAILED result.
CancelRecorded(c) ==
    /\ pc[c] \in {"body", "post", "complete"}
    /\ Unregister(c)
    /\ Fail(c)
    /\ UNCHANGED <<attempt, loopIteration, history>>

\* A cancel of the calling task at any other await leaves execute().
CancelEscapes(c) ==
    /\ pc[c] \in {"start", "hooks", "prepare", "refresh", "backoff", "errhooks", "failing"}
    /\ Goto(c, "cancelled")
    /\ UNCHANGED <<status, attempt, loopIteration, runningTasks, ctxVars, history>>

Prepare(c) ==
    \/ Skip(c) \/ NoFunction(c) \/ MarkStart(c) \/ RunPreHooks(c)
    \/ PreHooksPass(c) \/ PreHooksFail(c) \/ InputContractFails(c) \/ PrepareRaises(c)

Attempt(c) == FirstAttempt(c) \/ NextRound(c) \/ NextAttempt(c)

AfterBody(c) ==
    \/ BodyReturns(c) \/ RetryLater(c) \/ GiveUp(c) \/ TimesOut(c)
    \/ GateBlocks(c) \/ LoopAgain(c) \/ MarkComplete(c)
    \/ ErrorHooksDone(c) \/ Return(c)

Advance(c) == Prepare(c) \/ Attempt(c) \/ AfterBody(c)

Terminated == (\A c \in Call : pc[c] \in Ended) /\ UNCHANGED vars

Next ==
    \/ \E c \in Call : Advance(c) \/ CancelRecorded(c) \/ CancelEscapes(c)
    \/ Terminated

Spec == Init /\ [][Next]_vars

\* Bodies, hooks and handlers end, and the event loop resumes their awaiters.
FairSpec == Spec /\ \A c \in Call : WF_vars(Advance(c))

-----------------------------------------------------------------------------
TypeOK ==
    /\ pc \in [Call -> Phase \cup Ended]
    /\ status \in [Call -> Status]
    /\ attempt \in [Call -> 0 .. MaxRetries + 1]
    /\ loopIteration \in [Call -> 1 .. LoopMax]
    /\ runningTasks \in [RunId -> Call \cup {None}]
    /\ ctxCompleted \subseteq Call /\ ctxFailed \subseteq Call
    /\ retried \in [Call -> Nat] /\ inputs \in [Call -> Nat] /\ outputs \in [Call -> Nat]

\* cancel() and cancel_all() find exactly the bodies that run: every running
\* body is registered under its own key, whatever the other runs do, and no
\* entry outlives its body.
RunningTasksExact ==
    \A c \in Call : pc[c] = "body" <=> \E r \in RunId : runningTasks[r] = c

\* loop_until rounds do not spend the error-retry budget: an attempt number is
\* one more than the errors retried, so a retryable error in any round is given
\* up on only after max_retries retries.
RetryBudget ==
    \A c \in Call :
        /\ pc[c] \in {"body", "post"} => attempt[c] = retried[c] + 1
        /\ retried[c] <= MaxRetries

\* loop_max bounds the rounds: the body is accepted at most loop_max times, plus
\* once for every error retry (an accepted body whose post-hooks raised).
RoundsBounded ==
    \A c \in Call : loopIteration[c] <= LoopMax /\ outputs[c] <= LoopMax + retried[c]

\* "feedback the step just produced flows into the next round instead of going
\* stale": a round entered without an error retry has seen every output.
FreshInputs ==
    \A c \in Call :
        pc[c] = "body" /\ retried[c] = 0 => inputs[c] = outputs[c]

\* The body of a step is run as often as its two budgets say and no more, each
\* round on inputs prepared after the outputs of the round before.
AttemptsExact == RetryBudget /\ RoundsBounded /\ FreshInputs

\* What execute() returns is terminal and agrees with the marks it left in the
\* context: SUCCESS is complete and not failed, a FAILED step that was started is
\* failed and only a cancel during the completion's handlers leaves it complete.
ResultMatchesContext ==
    \A c \in Call : pc[c] = "returned" =>
        /\ status[c] \in {"success", "failed", "skipped"}
        /\ status[c] = "success" => c \in ctxCompleted \ ctxFailed
        /\ status[c] = "failed" /\ attempt[c] > 0 => c \in ctxFailed
        /\ status[c] = "skipped" => c \notin ctxCompleted \cup ctxFailed

\* Every call ends, whatever mixture of retries and rounds it goes through.
Termination == \A c \in Call : <>(pc[c] \in Ended)
=============================================================================
