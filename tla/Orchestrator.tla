---------------------------- MODULE Orchestrator -----------------------------
(***************************************************************************)
(* agents/orchestrator.py: OrchestratorAgent running its plans, one after  *)
(* another on the same agent: run() registers the LLM's plan into the      *)
(* plans it already has, run_adaptive() replaces them.  _execute_plan is   *)
(* the second scheduler of the runtime: waves of subtasks under gather(),  *)
(* each subtask with a chain of fallback agents.                           *)
(*                                                                         *)
(* A step of this module is what a coroutine does between two awaits.      *)
(* Agents are registered (without any, run() executes nothing) and a plan  *)
(* is never empty.  The order of ready subtasks is abstracted: a wave is   *)
(* any of them.                                                            *)
(***************************************************************************)
EXTENDS Naturals, FiniteSets, DagValidate

CONSTANTS
    Step,         \* ids of subtasks
    FirstPlan,    \* the ids the first plan declares
    MaxParallel,  \* OrchestratorInput.max_parallel
    MaxAgents,    \* longest chain of candidate agents of a subtask
    MaxRuns       \* bound on the runs of one agent

ASSUME OrchestratorAssumption ==
    /\ IsFiniteSet(Step) /\ FirstPlan \subseteq Step /\ FirstPlan # {}
    /\ MaxParallel \in Nat \ {0} /\ MaxAgents \in Nat
    /\ MaxRuns \in Nat \ {0}

VARIABLES
    dependsOn,  \* SubTask.dependencies
    plan,       \* the ids the current run's plan declares
    subtasks,   \* the keys of _subtasks
    status,     \* SubTask.status
    left,       \* candidate agents a started subtask has still to try
    executed,   \* executed of _execute_plan
    batch,      \* the current wave
    sub,        \* progress of each subtask's coroutine
    adaptive,   \* the current run's entry point is run_adaptive(), else run()
    pc, verdict, runs

vars == <<dependsOn, plan, subtasks, status, left, executed, batch, sub, adaptive,
          pc, verdict, runs>>
planVars == <<dependsOn, plan, subtasks, adaptive, runs>>

Alive == {"created", "trying", "handoff"}
Blocking == {"failed", "skipped"}

\* _validate_plan does not raise: a plan without subtasks is not looked at.
Valid(D, S) == S = {} \/ Validates(D, S)

\* The dependencies a plan for the ids P may declare: what the LLM writes in
\* run(), any at all; in run_adaptive() a cross-file pass after all others.
Plans(P, findings) ==
    IF findings
      THEN {D \in [P -> SUBSET P] : \E x \in P : /\ P # {x} /\ D[x] = P \ {x}
                                                 /\ \A y \in P \ {x} : D[y] = {}}
      ELSE [P -> SUBSET Step]

\* The lengths of the chain of matching agents _assign_agents gives a subtask,
\* maybe empty.  Nothing reads a chain before its subtask starts.
Chains == 0 .. MaxAgents

Init ==
    /\ adaptive \in BOOLEAN
    /\ \E D \in Plans(FirstPlan, adaptive) :
        dependsOn = [s \in Step |-> IF s \in FirstPlan THEN D[s] ELSE {}]
    /\ Valid(dependsOn, FirstPlan)
    /\ plan = FirstPlan /\ subtasks = FirstPlan
    /\ status = [s \in Step |-> "pending"]
    /\ left = [s \in Step |-> 0]
    /\ executed = {} /\ batch = {}
    /\ sub = [s \in Step |-> "none"]
    /\ pc = "start" /\ verdict = "none" /\ runs = 1

-----------------------------------------------------------------------------
\* Mutant of SkipSet: one pass over the direct dependents.
SkipDirect(st, done) ==
    {s \in subtasks \ done : \E d \in dependsOn[s] : st[d] \in Blocking}

\* What _skip_blocked_subtasks skips: the least set of unrun subtasks that holds
\* each one with a dependency in the set, failed or skipped.
SkipSet(st, done) ==
    LET unrun == subtasks \ done
        Closed(X) == \A s \in unrun :
                        (\E d \in dependsOn[s] : st[d] \in Blocking \/ d \in X) => s \in X
    IN  {s \in unrun : \A X \in SUBSET unrun : Closed(X) => s \in X}

\* _find_ready_subtasks.
Ready(done) == {s \in subtasks \ done : dependsOn[s] \subseteq done}

\* _unfinished_subtasks.
Unfinished(st) == {s \in subtasks : st[s] \in Blocking}

\* _execute_plan returned: what was never scheduled is failed.
Output(st, done) ==
    LET final == [s \in Step |-> IF s \in subtasks \ done THEN "failed" ELSE st[s]]
    IN  /\ status' = final
        /\ verdict' = IF Unfinished(final) = {} THEN "success" ELSE "failed"
        /\ batch' = {}
        /\ pc' = "end"
        /\ UNCHANGED sub

\* Mutant of WaveSize: the limit is not applied.
WaveAll(ready) == Cardinality(ready)

\* How many subtasks ready[: max_parallel] holds.
WaveSize(ready) ==
    IF Cardinality(ready) < MaxParallel THEN Cardinality(ready) ELSE MaxParallel

\* An iteration of the loop of _execute_plan, up to the await of gather().
Wave(st, done) ==
    LET skip == SkipSet(st, done)
        st1  == [s \in Step |-> IF s \in skip THEN "skipped" ELSE st[s]]
        all  == done \cup skip
    IN  /\ executed' = all
        /\ IF Ready(all) = {} THEN Output(st1, all)
           ELSE \E B \in SUBSET Ready(all) :
                    /\ Cardinality(B) = WaveSize(Ready(all))
                    /\ batch' = B
                    /\ sub' = [s \in Step |-> IF s \in B THEN "created" ELSE sub[s]]
                    /\ status' = st1
                    /\ pc' = "gather"
                    /\ UNCHANGED verdict

FirstWave ==
    /\ pc = "start"
    /\ Wave(status, {})
    /\ UNCHANGED <<planVars, left>>

\* Mutant of Recorded: a subtask that raised keeps its status.
RecordedLoose == status

\* _record_batch_results: a coroutine that raised is a failed subtask.
Recorded == [s \in Step |-> IF s \in batch /\ sub[s] = "raised" THEN "failed" ELSE status[s]]

BatchEnded == \A s \in batch : sub[s] \notin Alive

\* gather() returned.
NextWave ==
    /\ pc = "gather"
    /\ BatchEnded
    /\ Wave(Recorded, executed \cup batch)
    /\ UNCHANGED <<planVars, left>>

-----------------------------------------------------------------------------
(***************************************************************************)
(* One subtask's coroutine: _execute_subtask_with_fallback.                *)
(***************************************************************************)

\* The for loop goes on with n candidates left; without any the subtask is
\* FAILED and its handoff is routed to the escalation sink.
TryNext(s, n) ==
    /\ left' = [left EXCEPT ![s] = n]
    /\ sub' = [sub EXCEPT ![s] = IF n = 0 THEN "handoff" ELSE "trying"]
    /\ status' = IF n = 0 THEN [status EXCEPT ![s] = "failed"] ELSE status
    /\ UNCHANGED <<planVars, executed, batch, pc, verdict>>

StartSubtask(s) == sub[s] = "created" /\ \E n \in Chains : TryNext(s, n)

\* The agent raised, or returned success=False.
AgentFails(s) == sub[s] = "trying" /\ TryNext(s, left[s] - 1)

AgentSucceeds(s) ==
    /\ sub[s] = "trying"
    /\ sub' = [sub EXCEPT ![s] = "done"]
    /\ status' = [status EXCEPT ![s] = "success"]
    /\ left' = [left EXCEPT ![s] = 0]
    /\ UNCHANGED <<planVars, executed, batch, pc, verdict>>

\* Mutant of HandoffRouted: an agent is tried again after the handoff.
HandoffRetries(s) ==
    /\ sub[s] = "handoff"
    /\ sub' = [sub EXCEPT ![s] = "trying"]
    /\ left' = [left EXCEPT ![s] = 1]
    /\ UNCHANGED <<planVars, status, executed, batch, pc, verdict>>

\* The escalation sink returned, or failed, which is only logged.
HandoffRouted(s) ==
    /\ sub[s] = "handoff"
    /\ sub' = [sub EXCEPT ![s] = "done"]
    /\ UNCHANGED <<planVars, status, left, executed, batch, pc, verdict>>

\* A CancelledError, its own or the caller's, passes the except Exception.
SubtaskRaises(s) ==
    /\ sub[s] \in {"trying", "handoff"} \/ (sub[s] = "created" /\ pc = "cancelling")
    /\ sub' = [sub EXCEPT ![s] = "raised"]
    /\ left' = [left EXCEPT ![s] = 0]
    /\ UNCHANGED <<planVars, status, executed, batch, pc, verdict>>

Subtask(s) ==
    \/ StartSubtask(s) \/ AgentFails(s) \/ AgentSucceeds(s)
    \/ HandoffRouted(s) \/ SubtaskRaises(s)

-----------------------------------------------------------------------------
\* The caller cancels the run: gather() cancels its children and waits for them.
CallerCancels ==
    /\ pc = "gather"
    /\ pc' = "cancelling"
    /\ UNCHANGED <<planVars, status, left, executed, batch, sub, verdict>>

FinishCancel ==
    /\ pc = "cancelling"
    /\ BatchEnded
    /\ pc' = "raised"
    /\ UNCHANGED <<planVars, status, left, executed, batch, sub, verdict>>

Return ==
    /\ pc = "end"
    /\ pc' = "returned"
    /\ UNCHANGED <<planVars, status, left, executed, batch, sub, verdict>>

\* run() adds the new SubTasks to those it has; run_adaptive() clears them first.
Register(P, D) ==
    LET kept == IF adaptive' THEN {} ELSE subtasks \ P
    IN  /\ subtasks' = kept \cup P
        /\ dependsOn' = [s \in Step |-> IF s \in P THEN D[s]
                                       ELSE IF s \in kept THEN dependsOn[s] ELSE {}]
        /\ status' = [s \in Step |-> IF s \in kept THEN status[s] ELSE "pending"]

\* The agent is run again, and its next plan is registered, validated, assigned
\* and executed; an invalid one ends the run, and stays registered.
NextRun(P) ==
    /\ pc \in {"returned", "raised"}
    /\ runs < MaxRuns
    /\ runs' = runs + 1
    /\ plan' = P
    /\ adaptive' \in BOOLEAN
    /\ \E D \in Plans(P, adaptive') : Register(P, D)
    /\ executed' = {} /\ batch' = {}
    /\ sub' = [s \in Step |-> "none"]
    /\ IF Valid(dependsOn', subtasks')
         THEN pc' = "start" /\ verdict' = "none"
         ELSE pc' = "end" /\ verdict' = "failed"
    /\ UNCHANGED left

Terminated == pc \in {"returned", "raised"} /\ runs = MaxRuns /\ UNCHANGED vars

Scheduler == FirstWave \/ NextWave \/ FinishCancel \/ Return

Next ==
    \/ Scheduler
    \/ CallerCancels
    \/ \E s \in Step : Subtask(s)
    \/ \E P \in (SUBSET Step) \ {{}} : NextRun(P)
    \/ Terminated

Spec == Init /\ [][Next]_vars

\* The event loop runs what is ready; agents and the escalation sink return.
FairSpec == Spec /\ WF_vars(Scheduler) /\ \A s \in Step : WF_vars(Subtask(s))

-----------------------------------------------------------------------------
TypeOK ==
    /\ dependsOn \in [Step -> SUBSET Step]
    /\ plan \subseteq Step /\ subtasks \subseteq Step
    /\ status \in [Step -> {"pending", "success", "failed", "skipped"}]
    /\ left \in [Step -> Chains]
    /\ executed \subseteq Step /\ batch \subseteq Step
    /\ sub \in [Step -> Alive \cup {"none", "done", "raised"}]
    /\ pc \in {"start", "gather", "cancelling", "end", "returned", "raised"}
    /\ verdict \in {"none", "success", "failed"}
    /\ adaptive \in BOOLEAN
    /\ runs \in 1 .. MaxRuns

\* No agent works for a run that is over, and no more subtasks are in flight
\* than max_parallel: the barrier of gather() holds for cancelled runs too.
NoOrphanSubtask ==
    LET alive == {s \in Step : sub[s] \in Alive}
    IN  /\ Cardinality(alive) <= MaxParallel
        /\ pc \notin {"gather", "cancelling"} => alive = {}

\* A subtask is started only when every dependency has succeeded in this run.
StartAfterSuccess ==
    \A s \in batch : \A d \in dependsOn[s] : sub[d] = "done" /\ status[d] = "success"

\* "Validation and the skip pass leave nothing unscheduled": a run that executed
\* its plan ran or skipped each subtask, and its verdict says whether all of
\* them succeeded.
NothingUnscheduled ==
    pc = "end" /\ Acyclic(dependsOn, subtasks) =>
        /\ executed = subtasks
        /\ verdict = "success" <=> \A s \in subtasks : status[s] = "success"

\* A run() on an agent that has run before keeps what is registered.
Stale == runs > 1 /\ ~adaptive

\* A first run, and every run_adaptive(), works for the subtasks of its own plan,
\* whatever the agent ran before.
OnlyThePlan == ~Stale => \A s \in Step : sub[s] # "none" => s \in plan

\* Through every wave, chain of agents and cancel, over several runs of one agent:
\* subtasks start after their dependencies, for their own plan and within the limit,
\* none is forgotten by the verdict and none outlives its run.
RunSafe ==
    TypeOK /\ NoOrphanSubtask /\ StartAfterSuccess /\ NothingUnscheduled /\ OnlyThePlan

\* A plan was just registered and validated.
Registered == pc \in {"start", "end"} /\ executed = {} /\ batch = {}

\* "an LLM-written plan is held to the same rules as a YAML workflow": on every plan,
\* also one that earlier runs have added to, the depth-first search accepts exactly
\* the graphs without a cycle, the cycle it reports is one, and Kahn's algorithm puts
\* what it accepted into a topological order, so its own cycle error is never raised.
PlanValidated ==
    Registered =>
        /\ (pc = "start") <=> Acyclic(dependsOn, subtasks)
        /\ NoneMissing(dependsOn, subtasks) /\ pc = "end" =>
               IsCycle(DetectCycle(dependsOn, subtasks), dependsOn)
        /\ pc = "start" =>
               IsTopological(ExecutionOrder(dependsOn, subtasks), dependsOn, subtasks)

\* "Skip every unrun subtask whose dependency failed or was skipped", and no
\* other: in the outcome of a run the skipped subtasks are exactly those with a
\* failed or skipped dependency.
SkipsMatch ==
    \A s \in subtasks :
        status[s] = "skipped" <=> \E d \in dependsOn[s] : status[d] \in Blocking

\* So it is in a first run and in every run_adaptive().
SkipsExact == pc = "end" /\ Acyclic(dependsOn, subtasks) /\ ~Stale => SkipsMatch

\* Every run ends, through every fallback chain and cancel.
Termination == []<>(pc \in {"returned", "raised"})
=============================================================================
