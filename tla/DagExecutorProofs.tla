------------------------- MODULE DagExecutorProofs ---------------------------
(***************************************************************************)
(* IInv (DagExecutorInv) is an invariant of DagExecutor for every finite   *)
(* set of steps, every acyclic graph on it and every limit >= 1.  One      *)
(* lemma per group of actions; the lemmas about Cascade come first.  Then  *)
(* DagExecutor implements WorkflowRun: under the mapping of DagExecutorRun *)
(* each step is a step of the abstract run or leaves it unchanged.         *)
(***************************************************************************)
EXTENDS DagExecutorInv, DagExecutorRun, FiniteSetTheorems, TLAPS

-----------------------------------------------------------------------------
(***************************************************************************)
(* What _cascade_skip reaches.                                             *)
(***************************************************************************)

\* The cascade is closed: an unfinished dependent of a skipped step, or of the
\* step it started from, is skipped.
LEMMA CascadeClosed ==
  ASSUME NEW s, NEW finished
  PROVE  ClosedUnder(Cascade(s, finished), s, finished)
<1> SUFFICES ASSUME NEW a \in Cascade(s, finished) \cup {s},
                    NEW x \in Dependents(a) \ finished
             PROVE  x \in Cascade(s, finished)
  BY DEF ClosedUnder
<1>1. x \in Step \ finished
  BY DEF Dependents
<1>2. ASSUME NEW X \in SUBSET (Step \ finished), ClosedUnder(X, s, finished)
      PROVE  x \in X
  <2>1. a \in X \cup {s}
    BY <1>2 DEF Cascade
  <2>2. QED
    BY <2>1, <1>2 DEF ClosedUnder
<1>3. QED
  BY <1>1, <1>2 DEF Cascade

\* The cascade is least: it stays inside every closed set.
LEMMA CascadeLeast ==
  ASSUME NEW s, NEW finished, NEW X \in SUBSET (Step \ finished),
         ClosedUnder(X, s, finished)
  PROVE  Cascade(s, finished) \subseteq X
BY DEF Cascade

\* A skipped step depends on the step the cascade started from or on another
\* skipped one.
LEMMA CascadeCause ==
  ASSUME NEW s, NEW finished, NEW x \in Cascade(s, finished)
  PROVE  \E a \in Cascade(s, finished) \cup {s} : x \in Dependents(a)
<1> DEFINE C == Cascade(s, finished)
           X == {y \in C : \E a \in C \cup {s} : y \in Dependents(a)}
<1>1. X \in SUBSET (Step \ finished)
  BY DEF Cascade
<1>2. ClosedUnder(X, s, finished)
  <2> SUFFICES ASSUME NEW a \in X \cup {s}, NEW y \in Dependents(a) \ finished
               PROVE  y \in X
    BY DEF ClosedUnder
  <2>1. a \in C \cup {s}
    OBVIOUS
  <2>2. y \in C
    BY <2>1, CascadeClosed DEF ClosedUnder
  <2>3. QED
    BY <2>1, <2>2
<1>3. C \subseteq X
  BY <1>1, <1>2, CascadeLeast
<1>4. QED
  BY <1>3

-----------------------------------------------------------------------------
(***************************************************************************)
(* Initial states.                                                         *)
(***************************************************************************)
LEMMA DependenciesFinite ==
  ASSUME dependsOn \in ValidDag, NEW s \in Step
  PROVE  /\ dependsOn[s] \subseteq Step
         /\ IsFiniteSet(dependsOn[s]) /\ Cardinality(dependsOn[s]) \in Nat
         /\ dependsOn[s] = {} <=> Cardinality(dependsOn[s]) = 0
         /\ IsFiniteSet(Uncleared(s)) /\ Cardinality(Uncleared(s)) \in Nat
         /\ Uncleared(s) = {} <=> Cardinality(Uncleared(s)) = 0
<1>1. dependsOn[s] \subseteq Step /\ Uncleared(s) \subseteq Step
  BY DEF ValidDag, Uncleared
<1>2. IsFiniteSet(dependsOn[s]) /\ IsFiniteSet(Uncleared(s))
  BY <1>1, StepAssumption, FS_Subset
<1>3. QED
  BY <1>1, <1>2, FS_CardinalityType, FS_EmptySet

LEMMA InitIInv == Init => IInv
<1> SUFFICES ASSUME Init PROVE IInv
  OBVIOUS
<1>1. TypeOK
  BY FlagsAssumption, DependenciesFinite
     DEF Init, TypeOK, Suspended, Finished, Settled, LifecycleState, TaskState, Outcome
<1>2. RunningExact
  BY FS_EmptySet, MaxConcurrencyAssumption DEF Init, RunningExact, Scheduling, Live, Finished
<1>3. OutcomeExact /\ LifecycleExact /\ StatusExact
  BY FlagsAssumption DEF Init, OutcomeExact, LifecycleExact, StatusExact, Cleared, Scheduling
<1>4. ReadyExact
  <2>1. \A s \in Step : Uncleared(s) = dependsOn[s]
    BY DependenciesFinite DEF Init, Uncleared, Cleared
  <2>2. QED
    BY <2>1, DependenciesFinite DEF Init, ReadyExact
<1>5. ContextExact /\ StartAfterDependencies /\ CascadeExact /\ HonestStatus /\ ContextAgrees
  BY DependenciesFinite
     DEF Init, ContextExact, StartAfterDependencies, CascadeExact, HonestStatus,
         ContextAgrees, Cleared, Blocked
<1>6. QED
  BY <1>1, <1>2, <1>3, <1>4, <1>5 DEF IInv

-----------------------------------------------------------------------------
(***************************************************************************)
(* Steps of the tasks.                                                     *)
(***************************************************************************)

\* A step of a task moves that task alone and no recorded result.
LEMMA TaskFacts ==
  ASSUME IInv, NEW s \in Step, TaskStep(s)
  PROVE  /\ task[s] \in Live /\ s \in tasks /\ result[s] = "none"
         /\ result' = result /\ dependsOn' = dependsOn /\ pc' = pc
         /\ ready' = ready /\ inDegree' = inDegree /\ running' = running
         /\ tasks' = tasks /\ batch' = batch /\ overall' = overall
         /\ deadline' = deadline /\ marking' = marking /\ ended' = ended
         /\ task'[s] \in (Live \cup {"done"}) \ {"created"}
         /\ \A x \in Step \ {s} : /\ task'[x] = task[x] /\ outcome'[x] = outcome[x]
                                  /\ lifecycle'[x] = lifecycle[x]
                                  /\ x \in ctxCompleted' <=> x \in ctxCompleted
                                  /\ x \in ctxFailed' <=> x \in ctxFailed
         /\ outcome'[s] # "none" <=> task'[s] = "done"
         /\ \A x \in Step : (Cleared(x))' <=> Cleared(x)
         /\ \A x \in Step : (Blocked(x))' <=> Blocked(x)
<1> USE DEF TaskStep, StartTask, CancelEarly, EnterBody, SkipStep, NoFunction,
            BeginBody, MarkComplete, FinishBody, FinishSuccess, FinishFailed,
            FinishRaised, FinishNonterminal, Finish, Entering, SchedulerUnchanged,
            schedVars, ctxVars
<1>1. task[s] \in Live
  BY DEF Live
<1>2. s \in tasks /\ result[s] = "none"
  BY <1>1 DEF IInv, RunningExact, OutcomeExact, TypeOK, Live
<1>3. /\ result' = result /\ dependsOn' = dependsOn /\ pc' = pc
      /\ ready' = ready /\ inDegree' = inDegree /\ running' = running
      /\ tasks' = tasks /\ batch' = batch /\ overall' = overall
      /\ deadline' = deadline /\ marking' = marking /\ ended' = ended
  OBVIOUS
<1>4. /\ task'[s] \in (Live \cup {"done"}) \ {"created"}
      /\ \A x \in Step \ {s} : /\ task'[x] = task[x] /\ outcome'[x] = outcome[x]
                               /\ lifecycle'[x] = lifecycle[x]
                               /\ x \in ctxCompleted' <=> x \in ctxCompleted
                               /\ x \in ctxFailed' <=> x \in ctxFailed
  BY DEF IInv, TypeOK, Live
<1>5. outcome'[s] # "none" <=> task'[s] = "done"
  BY <1>1 DEF IInv, TypeOK, OutcomeExact, Live
<1>6. \A x \in Step : ((Cleared(x))' <=> Cleared(x)) /\ ((Blocked(x))' <=> Blocked(x))
  BY <1>2, <1>3, <1>4 DEF Cleared, Blocked
<1>7. QED
  BY <1>1, <1>2, <1>3, <1>4, <1>5, <1>6

LEMMA TaskStepIInv ==
  ASSUME IInv, NEW s \in Step, TaskStep(s)
  PROVE  IInv'
<1> USE TaskFacts
<1>1. TypeOK'
  BY DEF IInv, TypeOK, TaskStep, StartTask, CancelEarly, EnterBody, SkipStep,
         NoFunction, BeginBody, MarkComplete, FinishBody, FinishSuccess, FinishFailed,
         FinishRaised, FinishNonterminal, Finish, SchedulerUnchanged, schedVars,
         ctxVars, TaskState, Outcome, LifecycleState, Settled
<1>2. RunningExact'
  <2>1. {x \in Step : task'[x] # "none" /\ result'[x] = "none"}
          = {x \in Step : task[x] # "none" /\ result[x] = "none"}
    BY DEF Live
  <2>2. s \notin batch /\ \A x \in batch : task'[x] = "done"
    BY DEF IInv, TypeOK, RunningExact, Live
  <2>3. \A x \in Step : task'[x] \in Live => task[x] \in Live
    OBVIOUS
  <2>4. QED
    BY <2>1, <2>2, <2>3 DEF IInv, RunningExact, Scheduling
<1>3. OutcomeExact'
  BY DEF IInv, OutcomeExact, Live
<1>4. LifecycleExact'
  BY DEF IInv, TypeOK, LifecycleExact, TaskStep, StartTask, CancelEarly, EnterBody,
         SkipStep, NoFunction, BeginBody, MarkComplete, FinishBody, FinishSuccess,
         FinishFailed, FinishRaised, FinishNonterminal, Finish, Entering,
         SchedulerUnchanged, schedVars
<1>5. ReadyExact'
  <2>1. \A x \in Step : (Uncleared(x))' = Uncleared(x)
    BY DependenciesFinite DEF IInv, TypeOK, Uncleared
  <2>2. QED
    BY <2>1 DEF IInv, ReadyExact, Scheduling, Live
<1>6. StatusExact' /\ HonestStatus'
  BY DEF IInv, StatusExact, HonestStatus, Scheduling, completed
<1>7. ContextExact'
  BY DEF IInv, TypeOK, OutcomeExact, ContextExact, TaskStep, StartTask, CancelEarly, EnterBody,
         SkipStep, NoFunction, BeginBody, MarkComplete, FinishBody, FinishSuccess,
         FinishFailed, FinishRaised, FinishNonterminal, Finish, Entering, Cancelling,
         Interrupted, ctxVars
<1>8. StartAfterDependencies' /\ CascadeExact'
  BY DependenciesFinite DEF IInv, TypeOK, StartAfterDependencies, CascadeExact, Live
<1>9. ContextAgrees'
  BY DEF IInv, OutcomeExact, ContextExact, ContextAgrees, Cleared
<1>10. QED
  BY <1>1, <1>2, <1>3, <1>4, <1>5, <1>6, <1>7, <1>8, <1>9 DEF IInv

-----------------------------------------------------------------------------
(***************************************************************************)
(* Steps of the scheduler that record no completion.                       *)
(***************************************************************************)

\* Timeouts and cancels, the step_end of a broken step, and the two ways out.
LEMMA ControlIInv ==
  ASSUME IInv, Interrupt \/ EmitStepEnd \/ FinishAbort \/ Return
  PROVE  IInv'
<1> USE DEF Interrupt, TimeoutHits, TimeoutSwallowed, CallerCancels, EmitStepEnd,
            FinishAbort, Return, InLoop, schedVars, taskVars, ctxVars
<1>1. /\ dependsOn' = dependsOn /\ ready' = ready /\ inDegree' = inDegree
      /\ running' = running /\ batch' = batch /\ result' = result
      /\ lifecycle' = lifecycle /\ overall' = overall /\ task' = task
      /\ outcome' = outcome /\ ctxCompleted' = ctxCompleted /\ ctxFailed' = ctxFailed
      /\ ended' \cup marking' = ended \cup marking
      /\ ended \subseteq ended'
      /\ tasks' = tasks \/ (pc' = "raised" /\ tasks' = {} /\ DoneTasks = tasks)
  OBVIOUS
<1>2. /\ Scheduling' => Scheduling
      /\ pc' \in {"end", "returned"} => pc = "end" /\ deadline' = deadline
      /\ pc' \in Suspended \cup Finished
  BY DEF IInv, TypeOK, Scheduling, Suspended, Finished
<1>3. /\ ~Interrupted' => ~Interrupted
      /\ (pc' = "start" => pc = "start") /\ (pc' = "wait" => pc = "wait")
  BY DEF Interrupted
<1>4. \A x \in Step : /\ (Cleared(x))' <=> Cleared(x)
                      /\ (Blocked(x))' <=> Blocked(x)
                      /\ (Uncleared(x))' = Uncleared(x)
  BY <1>1 DEF Cleared, Blocked, Uncleared
<1>5. TypeOK'
  BY <1>1, <1>2 DEF IInv, TypeOK
<1>6. RunningExact'
  <2>1. pc' \in {"end"} \cup Finished => \A x \in Step : task[x] \notin Live
    <3>1. CASE pc = "end"
      BY <3>1 DEF IInv, RunningExact
    <3>2. CASE pc = "start"
      BY <3>2 DEF IInv, RunningExact, Scheduling
    <3>3. CASE FinishAbort
      BY <3>3 DEF IInv, RunningExact, DoneTasks, Live
    <3>4. QED
      BY <3>1, <3>2, <3>3 DEF IInv, TypeOK, Finished
  <2>2. \A x \in Step : task[x] \in Live => x \in tasks'
    BY <1>1, <2>1 DEF IInv, RunningExact, Finished
  <2>3. Scheduling' => tasks' = tasks
    BY <1>1 DEF Scheduling
  <2>4. QED
    BY <1>1, <1>2, <1>3, <2>1, <2>2, <2>3 DEF IInv, RunningExact
<1>7. OutcomeExact' /\ LifecycleExact'
  BY <1>1, <1>4 DEF IInv, OutcomeExact, LifecycleExact
<1>8. ReadyExact'
  BY <1>1, <1>2, <1>4 DEF IInv, ReadyExact
<1>9. StatusExact'
  <2>1. pc' \in {"start", "wait", "mark", "notify"} => deadline' # "hit"
    BY DEF IInv, StatusExact
  <2>2. pc' = "timeout" => deadline' = "hit"
    BY DEF IInv, StatusExact
  <2>3. QED
    BY <1>1, <1>2, <2>1, <2>2 DEF IInv, StatusExact
<1>10. ContextExact'
  BY <1>1, <1>3 DEF IInv, ContextExact
<1>11. StartAfterDependencies'
  BY <1>1, <1>4, DependenciesFinite DEF IInv, TypeOK, StartAfterDependencies
<1>12. CascadeExact'
  <2>1. deadline = "hit" => deadline' = "hit"
    OBVIOUS
  <2>2. QED
    BY <1>1, <1>4, <2>1, DependenciesFinite DEF IInv, TypeOK, CascadeExact
<1>13. HonestStatus'
  BY <1>1, <1>2, <1>4 DEF IInv, HonestStatus, completed
<1>14. ContextAgrees'
  BY <1>1, <1>4 DEF IInv, ContextAgrees
<1>15. QED
  BY <1>5, <1>6, <1>7, <1>8, <1>9, <1>10, <1>11, <1>12, <1>13, <1>14 DEF IInv

\* A dependency of an unfinished step that was never started is not blocked, and
\* a started step waits for nothing: failing what runs and skipping the rest is
\* what the cascade from the running steps would do.
LEMMA FinishTimeoutIInv ==
  ASSUME IInv, FinishTimeout
  PROVE  IInv'
<1> USE DEF FinishTimeout, NeverStarted, taskVars
<1>1. /\ dependsOn' = dependsOn /\ running' = running /\ batch' = batch
      /\ task' = task /\ outcome' = outcome /\ ctxFailed' = ctxFailed
      /\ marking' = marking /\ ended' = ended /\ deadline' = deadline
      /\ inDegree' = inDegree /\ ready' = ready
      /\ pc' = "end" /\ pc = "timeout" /\ deadline = "hit"
      /\ overall' = "failed" /\ tasks' = {}
  BY DEF IInv, StatusExact
<1>2. /\ \A x \in Step : task[x] \notin Live
      /\ running = {x \in Step : task[x] # "none" /\ result[x] = "none"}
  BY DEF IInv, TypeOK, RunningExact, Scheduling, DoneTasks, Live
<1>3. \A x \in Step :
        /\ result'[x] = IF result[x] # "none" THEN result[x]
                        ELSE IF task[x] = "none" THEN "skipped" ELSE "failed"
        /\ lifecycle'[x] = IF result[x] # "none" THEN lifecycle[x]
                           ELSE IF task[x] = "none" THEN "skipped" ELSE "failed"
        /\ x \in ctxCompleted' <=>
             x \in ctxCompleted \/ (result[x] = "none" /\ task[x] = "none")
  BY <1>2 DEF completed
<1>4. TypeOK'
  BY <1>1 DEF IInv, TypeOK, Suspended, Settled, LifecycleState
<1>5. RunningExact'
  BY <1>1, <1>2 DEF IInv, RunningExact, Scheduling
<1>6. \A x \in Step : (Cleared(x))' <=> Cleared(x)
  BY <1>1, <1>3 DEF Cleared
<1>7. OutcomeExact' /\ LifecycleExact'
  BY <1>1, <1>2, <1>3, <1>6 DEF IInv, TypeOK, OutcomeExact, LifecycleExact, TaskState, Live
<1>8. ReadyExact' /\ StatusExact' /\ HonestStatus'
  <2>1. completed' = Step
    BY <1>3 DEF completed
  <2>2. QED
    BY <1>1, <2>1 DEF ReadyExact, StatusExact, HonestStatus, Scheduling
<1>9. ContextExact'
  BY <1>1, <1>2, <1>3 DEF IInv, ContextExact, Live, Interrupted
<1>10. StartAfterDependencies'
  BY <1>1, <1>6, DependenciesFinite DEF IInv, TypeOK, StartAfterDependencies
<1>11. CascadeExact'
  <2> SUFFICES ASSUME NEW x \in Step, NEW e \in dependsOn[x], (Blocked(e))'
               PROVE  result'[x] = "skipped" /\ task[x] = "none"
    BY <1>1 DEF CascadeExact
  <2>1. e \in Step
    BY DependenciesFinite DEF IInv, TypeOK
  <2>2. ~Cleared(e)
    BY <1>6, <2>1, <1>1 DEF Cleared, Blocked
  <2>3. task[x] = "none"
    BY <2>2 DEF IInv, StartAfterDependencies
  <2>4. result[x] \in {"none", "skipped"}
    BY <2>3 DEF IInv, TypeOK, OutcomeExact, Settled
  <2>5. QED
    BY <1>3, <2>3, <2>4
<1>12. ContextAgrees'
  BY <1>1, <1>3, <1>6 DEF IInv, ContextAgrees, ContextExact
<1>13. QED
  BY <1>4, <1>5, <1>7, <1>8, <1>9, <1>10, <1>11, <1>12 DEF IInv

-----------------------------------------------------------------------------
(***************************************************************************)
(* The head of the scheduling loop.                                        *)
(***************************************************************************)

\* A recorded step lets its dependents run or blocks them.
LEMMA ClearedOrBlocked ==
  ASSUME IInv, NEW d \in Step, result[d] # "none"
  PROVE  Cleared(d) \/ Blocked(d)
BY DEF IInv, TypeOK, OutcomeExact, Settled, Cleared, Blocked

\* Without a timeout a blocked step has a failed one behind it: a least blocked
\* step has no blocked dependency.
LEMMA BlockedHasFailure ==
  ASSUME IInv, deadline # "hit", NEW b \in Step, Blocked(b)
  PROVE  \E f \in Step : result[f] = "failed"
<1> DEFINE X == {x \in Step : Blocked(x)}
<1>1. PICK f \in X : dependsOn[f] \cap X = {}
  BY DEF IInv, TypeOK, ValidDag
<1>2. \A e \in dependsOn[f] : ~Blocked(e)
  BY <1>1, DependenciesFinite DEF IInv, TypeOK
<1>3. ~(result[f] = "skipped" /\ task[f] = "none")
  BY <1>2 DEF IInv, CascadeExact
<1>4. QED
  BY <1>3 DEF Blocked

\* While no step runs and some step has no result, some step is ready.
LEMMA SomethingReady ==
  ASSUME IInv, Scheduling, running = {}, completed # Step
  PROVE  ready \ completed # {}
<1> DEFINE X == {x \in Step : result[x] = "none"}
<1>1. PICK x \in X : dependsOn[x] \cap X = {}
  BY DEF IInv, TypeOK, ValidDag, completed
<1>2. task[x] = "none"
  BY DEF IInv, RunningExact
<1>3. \A e \in dependsOn[x] : ~Blocked(e)
  BY DEF IInv, CascadeExact
<1>4. \A e \in dependsOn[x] : Cleared(e)
  BY <1>1, <1>3, ClearedOrBlocked, DependenciesFinite DEF IInv, TypeOK
<1>5. inDegree[x] = 0
  BY <1>4, DependenciesFinite DEF IInv, TypeOK, ReadyExact, Uncleared
<1>6. QED
  BY <1>2, <1>5 DEF IInv, ReadyExact, completed

LEMMA FinaliseIInv ==
  ASSUME IInv, LoopHead, completed = Step
  PROVE  IInv'
<1> USE DEF LoopHead, Finalise
<1>1. /\ dependsOn' = dependsOn /\ ready' = ready /\ inDegree' = inDegree
      /\ running' = running /\ batch' = batch /\ result' = result /\ tasks' = tasks
      /\ lifecycle' = lifecycle /\ task' = task
      /\ outcome' = outcome /\ ctxCompleted' = ctxCompleted /\ ctxFailed' = ctxFailed
      /\ ended' = ended /\ marking' = marking /\ deadline' = deadline
      /\ pc' = "end" /\ pc \in {"start", "notify"}
      /\ overall' = IF overall = "running" THEN "success" ELSE overall
  OBVIOUS
<1>2. \A x \in Step : /\ (Cleared(x))' <=> Cleared(x)
                      /\ (Blocked(x))' <=> Blocked(x)
  BY <1>1 DEF Cleared, Blocked
<1>3. TypeOK'
  BY <1>1 DEF IInv, TypeOK, Suspended
<1>4. \A x \in Step : result[x] # "none"
  BY DEF completed
<1>5. RunningExact'
  <2>1. \A x \in Step : task[x] \notin Live
    BY <1>4 DEF IInv, OutcomeExact, Live
  <2>2. QED
    BY <1>1, <2>1 DEF IInv, RunningExact, Scheduling
<1>6. OutcomeExact' /\ LifecycleExact'
  BY <1>1, <1>2 DEF IInv, OutcomeExact, LifecycleExact
<1>7. ReadyExact' /\ StatusExact'
  BY <1>1 DEF ReadyExact, StatusExact, Scheduling
<1>8. ContextExact' /\ ContextAgrees'
  BY <1>1, <1>2 DEF IInv, ContextExact, ContextAgrees, Interrupted
<1>9. StartAfterDependencies' /\ CascadeExact'
  BY <1>1, <1>2, DependenciesFinite DEF IInv, TypeOK, StartAfterDependencies, CascadeExact
<1>10. HonestStatus'
  <2>1. deadline # "hit" /\ overall \in {"running", "failed"}
        /\ (overall = "failed" <=> \E x \in Step : result[x] = "failed")
    BY DEF IInv, StatusExact, Scheduling
  <2>2. overall = "running" => \A x \in Step : Cleared(x)
    BY <1>4, <2>1, ClearedOrBlocked, BlockedHasFailure
  <2>3. overall = "failed" => \E x \in Step : ~Cleared(x)
    BY <2>1 DEF Cleared
  <2>4. completed' = Step
    BY <1>1 DEF completed
  <2>5. QED
    BY <1>1, <1>2, <2>1, <2>2, <2>3, <2>4 DEF HonestStatus
<1>11. QED
  BY <1>3, <1>5, <1>6, <1>7, <1>8, <1>9, <1>10 DEF IInv

\* _schedule_ready_steps.  The deadlock branch is dead code: with nothing in
\* flight something is ready, and there is room for it.
LEMMA ScheduleIInv ==
  ASSUME IInv, LoopHead, completed # Step
  PROVE  IInv'
<1> USE DEF LoopHead
<1>1. PICK S \in SUBSET (ready \ completed) :
        /\ Cardinality(S) <= Room
        /\ S = ready \ completed \/ Cardinality(S) = Room
        /\ \A s \in S : CanTransition(lifecycle[s], "ready")
        /\ ready' = ready \ (S \cup completed)
        /\ running' = running \cup S
        /\ tasks' = tasks \cup S
        /\ task' = [s \in Step |-> IF s \in S THEN "created" ELSE task[s]]
        /\ tasks \cup S # {} =>
             /\ lifecycle' = [s \in Step |-> IF s \in S THEN "ready" ELSE lifecycle[s]]
             /\ pc' = "wait"
             /\ UNCHANGED <<result, overall, ctxCompleted>>
  BY DEF Schedule
<1>2. /\ pc \in {"start", "notify"} /\ Scheduling /\ batch = {} /\ running = tasks
      /\ running = {s \in Step : task[s] # "none" /\ result[s] = "none"}
      /\ S \subseteq Step /\ running \subseteq Step
  BY DEF IInv, TypeOK, RunningExact, Scheduling
<1>3. /\ IsFiniteSet(S) /\ IsFiniteSet(running)
      /\ Cardinality(S) \in Nat /\ Cardinality(running) \in Nat
  BY <1>2, StepAssumption, FS_Subset, FS_CardinalityType
<1>4. tasks \cup S # {}
  <2> SUFFICES ASSUME tasks = {}, S = {} PROVE FALSE
    OBVIOUS
  <2>1. ready \ completed # {}
    BY <1>2, SomethingReady
  <2>2. Cardinality(S) = 0 /\ Room = MaxConcurrency
    BY <1>2, FS_EmptySet, MaxConcurrencyAssumption DEF Room
  <2>3. QED
    BY <1>1, <2>1, <2>2, MaxConcurrencyAssumption
<1>5. /\ lifecycle' = [s \in Step |-> IF s \in S THEN "ready" ELSE lifecycle[s]]
      /\ dependsOn' = dependsOn /\ inDegree' = inDegree /\ batch' = batch
      /\ result' = result /\ outcome' = outcome /\ ctxCompleted' = ctxCompleted
      /\ ctxFailed' = ctxFailed /\ ended' = ended /\ marking' = marking
      /\ deadline' = deadline /\ overall' = overall /\ pc' = "wait"
  BY <1>1, <1>4
<1>6. \A s \in S : result[s] = "none" /\ task[s] = "none" /\ inDegree[s] = 0
  BY <1>2 DEF IInv, ReadyExact
<1>7. \A x \in Step : /\ (Cleared(x))' <=> Cleared(x)
                      /\ (Blocked(x))' <=> Blocked(x)
  BY <1>1, <1>5, <1>6 DEF Cleared, Blocked
<1>8. TypeOK'
  BY <1>1, <1>2, <1>5 DEF IInv, TypeOK, Suspended, TaskState, LifecycleState
<1>9. RunningExact'
  <2>1. Cardinality(running') <= MaxConcurrency
    <3>1. running \cap S = {}
      BY <1>2, <1>6
    <3>2. Cardinality(running \cup S) = Cardinality(running) + Cardinality(S)
      <4>1. Cardinality(running \cap S) = 0
        BY <3>1, FS_EmptySet
      <4>2. Cardinality(running \cup S)
              = Cardinality(running) + Cardinality(S) - Cardinality(running \cap S)
        BY <1>3, FS_Union
      <4>3. QED
        BY <4>1, <4>2, <1>3
    <3>3. QED
      BY <3>2, <1>1, <1>3, MaxConcurrencyAssumption DEF Room
  <2>2. running' = {s \in Step : task'[s] # "none" /\ result'[s] = "none"}
    BY <1>1, <1>2, <1>5, <1>6
  <2>3. \A x \in Step : task'[x] \in Live => x \in tasks'
    BY <1>1 DEF IInv, RunningExact
  <2>4. QED
    BY <1>1, <1>2, <1>5, <2>1, <2>2, <2>3 DEF RunningExact, Finished
<1>10. OutcomeExact' /\ LifecycleExact'
  BY <1>1, <1>5, <1>6, <1>7 DEF IInv, OutcomeExact, LifecycleExact
<1>11. ReadyExact'
  <2>1. \A x \in Step : (Uncleared(x))' = Uncleared(x)
    BY <1>5, <1>7, DependenciesFinite DEF IInv, TypeOK, Uncleared
  <2>2. \A x \in Step : x \in ready' <=>
          (result'[x] = "none" /\ task'[x] = "none" /\ inDegree'[x] = 0)
    BY <1>1, <1>2, <1>5, <1>6 DEF IInv, ReadyExact, completed
  <2>3. QED
    BY <2>1, <2>2, <1>2, <1>5 DEF IInv, ReadyExact
<1>12. StatusExact' /\ HonestStatus'
  BY <1>2, <1>5 DEF IInv, StatusExact, HonestStatus, Scheduling
<1>13. ContextExact' /\ ContextAgrees'
  BY <1>1, <1>2, <1>5, <1>6, <1>7 DEF IInv, ContextExact, ContextAgrees, Interrupted
<1>14. StartAfterDependencies'
  <2> SUFFICES ASSUME NEW s \in Step, task'[s] # "none", NEW e \in dependsOn[s]
               PROVE  Cleared(e) /\ e \in ended
    BY <1>5, <1>7, DependenciesFinite DEF IInv, TypeOK, StartAfterDependencies
  <2>1. CASE s \in S
    <3>1. Uncleared(s) = {}
      BY <2>1, <1>2, <1>6, DependenciesFinite DEF IInv, TypeOK, ReadyExact
    <3>2. QED
      BY <3>1, DependenciesFinite DEF Uncleared, IInv, TypeOK, OutcomeExact
  <2>2. CASE s \notin S
    BY <2>2, <1>1 DEF IInv, StartAfterDependencies
  <2>3. QED
    BY <2>1, <2>2
<1>15. CascadeExact'
  BY <1>1, <1>5, <1>6, <1>7, DependenciesFinite DEF IInv, TypeOK, CascadeExact
<1>16. QED
  BY <1>8, <1>9, <1>10, <1>11, <1>12, <1>13, <1>14, <1>15 DEF IInv

-----------------------------------------------------------------------------
(***************************************************************************)
(* Recording a completion.                                                 *)
(***************************************************************************)

\* What _process_done_task finds, and what it does to the sets of tasks.
LEMMA RecordFacts ==
  ASSUME IInv, NEW s \in Step, Wake(s) \/ ProcessNext(s)
  PROVE  /\ Scheduling /\ ~Interrupted /\ deadline # "hit"
         /\ s \in running /\ s \notin ready
         /\ result[s] = "none" /\ task[s] = "done" /\ outcome[s] # "none"
         /\ \A e \in dependsOn[s] : e \in Step /\ Cleared(e) /\ ~Blocked(e)
         /\ dependsOn' = dependsOn /\ deadline' = deadline /\ task' = task
         /\ outcome' = outcome
         /\ pc' \in {"notify", "mark"}
         /\ batch' \subseteq Step /\ tasks' \subseteq Step
         /\ running' = running \ {s}
         /\ RecordPassed(s) \/ RecordFailed(s) \/ RecordBroken(s)
         /\ (\A x \in Step : task[x] # "none" =>
                (result'[x] = "none" <=> x # s /\ result[x] = "none")) => RunningExact'
<1> USE DEF Wake, ProcessNext, Record
<1>1. Scheduling /\ ~Interrupted /\ deadline # "hit"
  BY DEF IInv, StatusExact, Scheduling, Interrupted
<1>2. s \in running /\ task[s] = "done"
  BY <1>1 DEF IInv, RunningExact, DoneTasks
<1>3. result[s] = "none" /\ s \notin ready /\ outcome[s] # "none"
  BY <1>1, <1>2 DEF IInv, RunningExact, ReadyExact, OutcomeExact
<1>4. \A e \in dependsOn[s] : e \in Step /\ Cleared(e) /\ ~Blocked(e)
  BY <1>2, DependenciesFinite DEF IInv, TypeOK, StartAfterDependencies, Cleared, Blocked
<1>5. /\ dependsOn' = dependsOn /\ deadline' = deadline /\ task' = task
      /\ outcome' = outcome
      /\ pc' \in {"notify", "mark"}
      /\ running' = running \ {s}
      /\ RecordPassed(s) \/ RecordFailed(s) \/ RecordBroken(s)
  BY DEF RecordPassed, RecordFailed, RecordBroken
<1>6. batch' \subseteq Step /\ tasks' \subseteq Step
  BY DEF IInv, TypeOK, DoneTasks
<1>7. ASSUME \A x \in Step : task[x] # "none" =>
               (result'[x] = "none" <=> x # s /\ result[x] = "none")
      PROVE  RunningExact'
  <2>1. running' = {x \in Step : task'[x] # "none" /\ result'[x] = "none"}
    BY <1>1, <1>5, <1>7 DEF IInv, RunningExact
  <2>2. running' = tasks' \cup batch' /\ tasks' \cap batch' = {}
    BY <1>1, <1>5 DEF IInv, RunningExact, DoneTasks
  <2>3. \A x \in batch' : task'[x] = "done"
    BY <1>5 DEF IInv, RunningExact, DoneTasks
  <2>4. \A x \in Step : task'[x] \in Live => x \in tasks'
    BY <1>5 DEF IInv, RunningExact, DoneTasks, Live
  <2>5. Cardinality(running') <= MaxConcurrency
    <3>1. IsFiniteSet(running) /\ IsFiniteSet(running')
      BY <1>5, StepAssumption, FS_Subset DEF IInv, TypeOK
    <3>2. Cardinality(running') <= Cardinality(running)
      BY <3>1, <1>5, FS_Subset
    <3>3. Cardinality(running) \in Nat /\ Cardinality(running') \in Nat
      BY <3>1, FS_CardinalityType
    <3>4. QED
      BY <3>2, <3>3, MaxConcurrencyAssumption DEF IInv, RunningExact
  <2>6. QED
    BY <1>5, <2>1, <2>2, <2>3, <2>4, <2>5 DEF RunningExact, Finished
<1>8. QED
  BY <1>1, <1>2, <1>3, <1>4, <1>5, <1>6, <1>7

\* SUCCESS, or SKIPPED by a condition: the counters of the dependents go down.
LEMMA RecordPassedIInv ==
  ASSUME IInv, NEW s \in Step, Wake(s) \/ ProcessNext(s), RecordPassed(s)
  PROVE  IInv'
<1> USE RecordFacts
<1>1. /\ result' = [result EXCEPT ![s] = outcome[s]]
      /\ lifecycle' = [lifecycle EXCEPT ![s] = outcome[s]]
      /\ outcome[s] \in {"success", "skipped"}
      /\ \A x \in Step : x \in ctxCompleted' <=>
           x \in ctxCompleted \/ (x = s /\ outcome[s] = "skipped")
      /\ ended' = ended \cup {s} /\ overall' = overall /\ ctxFailed' = ctxFailed
      /\ marking' = marking /\ pc' = "notify"
  BY DEF RecordPassed, ContextOnPass
<1>2. \A x \in Step : /\ (Cleared(x))' <=> Cleared(x) \/ x = s
                      /\ (Blocked(x))' <=> Blocked(x)
                      /\ result'[x] = "none" <=> x # s /\ result[x] = "none"
  BY <1>1 DEF IInv, TypeOK, Cleared, Blocked
<1>3. ~Cleared(s) /\ ~Blocked(s)
  BY DEF Cleared, Blocked
<1>4. TypeOK'
  <2>1. ready' \subseteq Step /\ inDegree' \in [Step -> Int]
    BY DEF IInv, TypeOK, RecordPassed, Unlock, Dependents
  <2>2. ctxCompleted' \subseteq Step
    BY DEF IInv, TypeOK, RecordPassed, ContextOnPass
  <2>3. /\ result' \in [Step -> Settled \cup {"none"}]
        /\ lifecycle' \in [Step -> LifecycleState]
    BY <1>1 DEF IInv, TypeOK, Settled, LifecycleState
  <2>4. /\ running' \subseteq Step /\ ended' \subseteq Step
        /\ pc' \in Suspended \cup Finished
    BY <1>1 DEF IInv, TypeOK, Suspended
  <2>5. QED
    BY <1>1, <2>1, <2>2, <2>3, <2>4 DEF IInv, TypeOK
<1>5. RunningExact'
  BY <1>2
<1>6. OutcomeExact' /\ LifecycleExact'
  <2>1. OutcomeExact'
    BY <1>1, <1>2 DEF IInv, TypeOK, OutcomeExact
  <2>2. LifecycleExact'
    BY <1>1 DEF IInv, TypeOK, LifecycleExact
  <2>3. QED
    BY <2>1, <2>2
<1>7. ReadyExact'
  <2> SUFFICES ASSUME NEW x \in Step
               PROVE  /\ result'[x] = "none" =>
                            inDegree'[x] = Cardinality((Uncleared(x))')
                      /\ x \in ready' <=>
                           (result'[x] = "none" /\ task'[x] = "none" /\ inDegree'[x] = 0)
    BY DEF ReadyExact
  <2>1. (Uncleared(x))' = Uncleared(x) \ {s}
    BY <1>2, DependenciesFinite DEF IInv, TypeOK, Uncleared
  <2>2. /\ IsFiniteSet(Uncleared(x)) /\ Cardinality(Uncleared(x)) \in Nat
        /\ Cardinality(Uncleared(x) \ {s}) =
             IF s \in Uncleared(x) THEN Cardinality(Uncleared(x)) - 1
                                   ELSE Cardinality(Uncleared(x))
        /\ s \in Uncleared(x) => Cardinality(Uncleared(x)) # 0
    BY DependenciesFinite, FS_RemoveElement DEF IInv, TypeOK
  <2>3. s \in Uncleared(x) <=> x \in Dependents(s)
    BY <1>3 DEF Uncleared, Dependents
  <2>4. CASE result[x] # "none" \/ x = s
    <3>1. x \notin ready'
      BY <2>4 DEF IInv, ReadyExact, RecordPassed, Unlock, completed
    <3>2. QED
      BY <2>4, <3>1, <1>2
  <2>5. CASE result[x] = "none" /\ x # s /\ x \notin Dependents(s)
    <3>1. inDegree'[x] = inDegree[x] /\ (x \in ready' <=> x \in ready)
      BY <2>5 DEF IInv, TypeOK, RecordPassed, Unlock
    <3>2. QED
      BY <2>1, <2>2, <2>3, <2>5, <3>1, <1>2 DEF IInv, ReadyExact
  <2>6. CASE result[x] = "none" /\ x # s /\ x \in Dependents(s)
    <3>1. /\ inDegree'[x] = inDegree[x] - 1
          /\ x \in ready' <=> x \in ready \/ inDegree[x] = 1
      BY <2>6 DEF IInv, TypeOK, RecordPassed, Unlock, completed
    <3>2. inDegree[x] = Cardinality(Uncleared(x)) /\ x \notin ready
      BY <2>2, <2>3, <2>6 DEF IInv, ReadyExact
    <3>3. task[x] = "none"
      BY <2>6, <1>3 DEF IInv, StartAfterDependencies, Dependents
    <3>4. inDegree'[x] = 0 <=> inDegree[x] = 1
      BY <3>1, <3>2, <2>2
    <3>5. QED
      BY <2>1, <2>2, <2>3, <2>6, <3>1, <3>2, <3>3, <3>4, <1>2
  <2>7. QED
    BY <2>4, <2>5, <2>6
<1>8. StatusExact' /\ HonestStatus'
  BY <1>1 DEF IInv, TypeOK, StatusExact, HonestStatus, Scheduling
<1>9. ContextExact'
  BY <1>1 DEF IInv, TypeOK, ContextExact, Interrupted
<1>10. StartAfterDependencies' /\ CascadeExact'
  <2>1. StartAfterDependencies'
    BY <1>1, <1>2, DependenciesFinite DEF IInv, TypeOK, StartAfterDependencies
  <2>2. ASSUME NEW x \in Step PROVE \A e \in dependsOn[x] : (Blocked(e))' <=> Blocked(e)
    BY <1>2, DependenciesFinite DEF IInv, TypeOK
  <2>3. CascadeExact'
    BY <1>1, <2>2 DEF IInv, TypeOK, CascadeExact
  <2>4. QED
    BY <2>1, <2>3
<1>11. ContextAgrees'
  BY <1>1, <1>2 DEF IInv, TypeOK, ContextExact, ContextAgrees
<1>12. QED
  BY <1>4, <1>5, <1>6, <1>7, <1>8, <1>9, <1>10, <1>11 DEF IInv

\* What the cascade of a failing step s reaches was neither recorded nor started,
\* and still waits for something.
LEMMA CascadeUnstarted ==
  ASSUME IInv, NEW s \in Step, result[s] = "none", task[s] = "done",
         NEW x \in Cascade(s, completed \cup {s})
  PROVE  /\ x \in Step \ {s} /\ result[x] = "none" /\ task[x] = "none"
         /\ Scheduling => x \notin ready
<1> DEFINE F == completed \cup {s}
           X == {y \in Step \ F : result[y] = "none" /\ task[y] = "none"}
<1>1. \A a \in Step : \A y \in Dependents(a) \ F :
        result[a] = "none" => result[y] = "none" /\ task[y] = "none"
  BY DEF IInv, StartAfterDependencies, Dependents, Cleared, completed
<1>2. ClosedUnder(X, s, F)
  BY <1>1 DEF ClosedUnder, Dependents
<1>3. x \in X
  BY <1>2, CascadeLeast
<1>4. ASSUME Scheduling PROVE x \notin ready
  <2>1. PICK a \in Cascade(s, F) \cup {s} : x \in Dependents(a)
    BY CascadeCause
  <2>2. result[a] = "none"
    BY <1>2, CascadeLeast
  <2>3. Uncleared(x) # {}
    BY <2>1, <2>2 DEF Dependents, Uncleared, Cleared
  <2>4. QED
    BY <1>4, <1>3, <2>3, DependenciesFinite DEF IInv, TypeOK, ReadyExact
<1>5. QED
  BY <1>3, <1>4

\* FAILED, raised, cancelled or not terminal: s fails and its cascade is skipped.
LEMMA RecordFailureIInv ==
  ASSUME IInv, NEW s \in Step, Wake(s) \/ ProcessNext(s),
         RecordFailed(s) \/ RecordBroken(s)
  PROVE  IInv'
<1> USE RecordFacts
<1> DEFINE C == Cascade(s, completed \cup {s})
<1> USE DEF FailAndCascade
<1>1. /\ result' = [x \in Step |-> IF x = s THEN "failed"
                                   ELSE IF x \in C THEN "skipped" ELSE result[x]]
      /\ lifecycle' = [x \in Step |-> IF x = s THEN "failed"
                                      ELSE IF x \in C THEN "skipped" ELSE lifecycle[x]]
      /\ overall' = "failed" /\ ready' = ready /\ inDegree' = inDegree
      /\ outcome[s] \in {"failed", "raised", "nonterminal"}
  BY DEF RecordFailed, RecordBroken
<1>2. /\ \A x \in Step \ {s} : /\ x \in ctxCompleted' <=> x \in ctxCompleted \/ x \in C
                               /\ x \in ctxFailed' <=> x \in ctxFailed
      /\ ctxCompleted' \subseteq ctxCompleted \cup C
      /\ ctxFailed' \subseteq ctxFailed \cup {s}
      /\ ended' \subseteq ended \cup {s} /\ ended \subseteq ended'
      /\ marking' \subseteq marking \cup {s}
  BY DEF RecordFailed, RecordBroken, DropStale
<1>3. \A x \in C : /\ x \in Step \ {s} /\ result[x] = "none" /\ task[x] = "none"
                   /\ x \notin ready
  BY CascadeUnstarted
<1>4. s \notin ctxCompleted'
  <2>1. CASE RecordFailed(s)
    BY <2>1, <1>3 DEF RecordFailed, IInv, ContextExact
  <2>2. CASE RecordBroken(s)
    BY <2>2 DEF RecordBroken, DropStale
  <2>3. QED
    BY <2>1, <2>2
<1> DEFINE unrecorded(x) == result[x] = "none" /\ x # s /\ x \notin C
<1>5. \A x \in Step : /\ result'[x] = "none" <=> unrecorded(x)
                      /\ (Cleared(x))' <=> Cleared(x)
                      /\ (Blocked(x))' <=> Blocked(x) \/ x \in C \cup {s}
  BY <1>1, <1>3 DEF IInv, TypeOK, Cleared, Blocked
<1> HIDE DEF C
<1>6. TypeOK'
  <2>1. /\ result' \in [Step -> Settled \cup {"none"}]
        /\ lifecycle' \in [Step -> LifecycleState]
    BY <1>1 DEF IInv, TypeOK, Settled, LifecycleState
  <2>2. /\ ctxCompleted' \subseteq Step /\ ctxFailed' \subseteq Step
        /\ marking' \subseteq Step /\ ended' \subseteq Step
    BY <1>2, <1>3 DEF IInv, TypeOK
  <2>3. running' \subseteq Step /\ pc' \in Suspended \cup Finished
    BY DEF IInv, TypeOK, Suspended
  <2>4. QED
    BY <1>1, <2>1, <2>2, <2>3 DEF IInv, TypeOK
<1>7. RunningExact'
  BY <1>3, <1>5
<1>8. OutcomeExact'
  BY <1>1, <1>2, <1>3, <1>5 DEF IInv, TypeOK, OutcomeExact
<1>9. LifecycleExact'
  BY <1>1, <1>3 DEF IInv, TypeOK, LifecycleExact
<1>10. ReadyExact'
  <2>1. \A x \in Step : (Uncleared(x))' = Uncleared(x)
    BY <1>5, DependenciesFinite DEF IInv, TypeOK, Uncleared
  <2>2. QED
    BY <1>1, <1>3, <1>5, <2>1 DEF IInv, ReadyExact
<1>11. StatusExact' /\ HonestStatus'
  BY <1>1 DEF StatusExact, HonestStatus, Scheduling
<1>12. ContextExact'
  BY <1>1, <1>2, <1>3, <1>4 DEF IInv, TypeOK, ContextExact, Interrupted
<1>13. StartAfterDependencies'
  BY <1>2, <1>5, DependenciesFinite DEF IInv, TypeOK, StartAfterDependencies
<1>14. CascadeExact'
  <2> SUFFICES ASSUME NEW x \in Step
      PROVE  (\E e \in dependsOn[x] : (Blocked(e))') <=>
               (result'[x] = "skipped" /\ task[x] = "none")
    BY DEF CascadeExact
  <2>1. ASSUME NEW e \in dependsOn[x], (Blocked(e))'
        PROVE  result'[x] = "skipped" /\ task[x] = "none"
    <3>1. e \in Step /\ ~Cleared(e)
      BY <2>1, <1>5, DependenciesFinite DEF IInv, TypeOK, Cleared, Blocked
    <3>2. task[x] = "none"
      BY <3>1 DEF IInv, StartAfterDependencies
    <3>3. result[x] \in {"none", "skipped"} /\ x # s
      BY <3>2 DEF IInv, TypeOK, OutcomeExact, Settled
    <3>4. CASE Blocked(e)
      BY <3>2, <3>4, <3>3, <1>1 DEF IInv, CascadeExact
    <3>5. CASE e \in C \cup {s}
      <4>1. x \in C \/ result[x] # "none"
        BY <3>3, <3>5, CascadeClosed DEF C, ClosedUnder, Dependents, completed
      <4>2. QED
        BY <4>1, <3>2, <3>3, <1>1
    <3>6. QED
      BY <3>4, <3>5, <2>1, <3>1, <1>5
  <2>2. ASSUME result'[x] = "skipped", task[x] = "none"
        PROVE  \E e \in dependsOn[x] : (Blocked(e))'
    <3>1. CASE x \in C
      <4>1. PICK e \in C \cup {s} : x \in Dependents(e)
        BY <3>1, CascadeCause DEF C
      <4>2. QED
        BY <4>1, <1>3, <1>5 DEF Dependents
    <3>2. CASE x \notin C
      <4>1. \E e \in dependsOn[x] : Blocked(e)
        BY <3>2, <2>2, <1>1 DEF IInv, CascadeExact
      <4>2. QED
        BY <4>1, <1>5, DependenciesFinite DEF IInv, TypeOK
    <3>3. QED
      BY <3>1, <3>2
  <2>3. QED
    BY <2>1, <2>2
<1>15. ContextAgrees'
  BY <1>1, <1>2, <1>3, <1>4, <1>5 DEF IInv, TypeOK, ContextExact, ContextAgrees, Cleared
<1>16. QED
  BY <1>6, <1>7, <1>8, <1>9, <1>10, <1>11, <1>12, <1>13, <1>14, <1>15 DEF IInv

-----------------------------------------------------------------------------
(***************************************************************************)
(* The theorems.                                                           *)
(***************************************************************************)
LEMMA StutterIInv == IInv /\ UNCHANGED vars => IInv'
<1> SUFFICES ASSUME IInv, UNCHANGED vars PROVE IInv'
  OBVIOUS
<1> USE DEF vars, schedVars, taskVars, ctxVars
<1>1. TypeOK' /\ RunningExact' /\ OutcomeExact' /\ LifecycleExact'
  BY DEF IInv, TypeOK, RunningExact, OutcomeExact, LifecycleExact, Scheduling, Cleared
<1>2. ReadyExact' /\ StatusExact' /\ ContextExact'
  BY DEF IInv, ReadyExact, StatusExact, ContextExact, Scheduling, Interrupted,
         Uncleared, Cleared
<1>3. StartAfterDependencies' /\ CascadeExact' /\ HonestStatus' /\ ContextAgrees'
  BY DEF IInv, StartAfterDependencies, CascadeExact, HonestStatus, ContextAgrees,
         Cleared, Blocked, completed
<1>4. QED
  BY <1>1, <1>2, <1>3 DEF IInv

LEMMA NextIInv == IInv /\ [Next]_vars => IInv'
<1> SUFFICES ASSUME IInv, [Next]_vars PROVE IInv'
  OBVIOUS
<1>1. CASE Interrupt \/ EmitStepEnd \/ FinishAbort \/ Return
  BY <1>1, ControlIInv
<1>2. CASE FinishTimeout
  BY <1>2, FinishTimeoutIInv
<1>3. CASE LoopHead
  BY <1>3, FinaliseIInv, ScheduleIInv
<1>4. ASSUME NEW s \in Step, Wake(s) \/ ProcessNext(s)
      PROVE  IInv'
  BY <1>4, RecordFacts, RecordPassedIInv, RecordFailureIInv
<1>5. ASSUME NEW s \in Step, TaskStep(s)
      PROVE  IInv'
  BY <1>5, TaskStepIInv
<1>6. CASE Terminated \/ UNCHANGED vars
  BY <1>6, StutterIInv DEF Terminated
<1>7. QED
  BY <1>1, <1>2, <1>3, <1>4, <1>5, <1>6 DEF Next, Scheduler

\* The inductive invariant holds in every reachable state of every run.
THEOREM Invariance == Spec => []IInv
BY InitIInv, NextIInv, PTL DEF Spec

\* Type correctness of the scheduler's state.
THEOREM TypeCorrect == Spec => []TypeOK
<1>1. IInv => TypeOK
  BY DEF IInv
<1>2. QED
  BY <1>1, Invariance, PTL

\* A step is started only after every dependency was cleared and announced.
THEOREM DependencyOrder == Spec => []StartAfterDependencies
<1>1. IInv => StartAfterDependencies
  BY DEF IInv
<1>2. QED
  BY <1>1, Invariance, PTL

\* At most max_concurrency step tasks are alive, in every state of every run.
THEOREM Parallelism == Spec => []BoundedParallelism
<1>1. IInv => BoundedParallelism
  <2> SUFFICES ASSUME IInv PROVE BoundedParallelism
    OBVIOUS
  <2> DEFINE L == {s \in Step : task[s] \in Live}
  <2>1. CASE Scheduling
    <3>1. L \subseteq running
      BY <2>1 DEF IInv, RunningExact
    <3>2. IsFiniteSet(running) /\ IsFiniteSet(L)
      BY StepAssumption, FS_Subset DEF IInv, TypeOK
    <3>3. Cardinality(L) <= Cardinality(running)
      BY <3>1, <3>2, FS_Subset
    <3>4. Cardinality(L) \in Nat /\ Cardinality(running) \in Nat
      BY <3>2, FS_CardinalityType
    <3>5. QED
      BY <3>3, <3>4, MaxConcurrencyAssumption DEF IInv, RunningExact, BoundedParallelism
  <2>2. CASE ~Scheduling
    <3>1. L = {}
      BY <2>2 DEF IInv, TypeOK, RunningExact, Scheduling, Suspended, Finished
    <3>2. QED
      BY <3>1, FS_EmptySet, MaxConcurrencyAssumption DEF BoundedParallelism
  <2>3. QED
    BY <2>1, <2>2
<1>2. QED
  BY <1>1, Invariance, PTL

\* When execute() ends, by returning or by raising, no step task is alive.
THEOREM Orphans == Spec => []NoOrphanTask
<1>1. IInv => NoOrphanTask
  BY DEF IInv, RunningExact, NoOrphanTask
<1>2. QED
  BY <1>1, Invariance, PTL

\* The returned overall_status is the honest summary of the step results.
THEOREM Honesty == Spec => []HonestStatus
<1>1. IInv => HonestStatus
  BY DEF IInv
<1>2. QED
  BY <1>1, Invariance, PTL

\* A failure skips its transitive dependents and, without a timeout, only those.
THEOREM CascadeCorrect == Spec => []CascadeExact
<1>1. IInv => CascadeExact
  BY DEF IInv
<1>2. QED
  BY <1>1, Invariance, PTL

\* The execution context agrees with the results the scheduler recorded.
THEOREM ContextCorrect == Spec => []ContextAgrees
<1>1. IInv => ContextAgrees
  BY DEF IInv
<1>2. QED
  BY <1>1, Invariance, PTL

\* A step the scheduler started is never refused by should_run()'s dependency test.
THEOREM MayRun == Spec => []UnlockedStepMayRun
<1>1. IInv => UnlockedStepMayRun
  <2> SUFFICES ASSUME IInv, NEW s \in Step, task[s] = "starting", NEW e \in dependsOn[s]
               PROVE  e \in ctxCompleted /\ e \notin ctxFailed
    BY DEF UnlockedStepMayRun, DependenciesMet
  <2>1. e \in Step /\ Cleared(e)
    BY DependenciesFinite DEF IInv, TypeOK, StartAfterDependencies
  <2>2. QED
    BY <2>1 DEF IInv, ContextAgrees
<1>2. QED
  BY <1>1, Invariance, PTL

\* Whatever the interleaving, steps start after their dependencies, within the
\* limit, and with a context that lets them run.
THEOREM StartSafety == Spec => []StartSafe
<1>1. StartAfterDependencies /\ BoundedParallelism /\ UnlockedStepMayRun => StartSafe
  BY DEF StartSafe
<1>2. QED
  BY <1>1, DependencyOrder, Parallelism, MayRun, PTL

\* Whatever ended the run, what it leaves behind is honest and complete.
THEOREM OutcomeSafety == Spec => []OutcomeSafe
<1>1. HonestStatus /\ CascadeExact /\ ContextAgrees /\ NoOrphanTask => OutcomeSafe
  BY DEF OutcomeSafe
<1>2. QED
  BY <1>1, Honesty, CascadeCorrect, ContextCorrect, Orphans, PTL

\* A recorded result and its lifecycle state are never overwritten.
THEOREM Finality == Spec => RecordedOnce
<1>1. IInv /\ [Next]_vars =>
        [\A s \in Step : result[s] # "none" =>
            /\ result'[s] = result[s]
            /\ lifecycle'[s] = lifecycle[s] /\ lifecycle[s] = result[s]]_vars
  <2> SUFFICES ASSUME IInv, Next, NEW s \in Step, result[s] # "none"
               PROVE  /\ result'[s] = result[s]
                      /\ lifecycle'[s] = lifecycle[s] /\ lifecycle[s] = result[s]
    OBVIOUS
  <2>1. lifecycle[s] = result[s]
    BY DEF IInv, LifecycleExact
  <2>2. CASE Interrupt \/ EmitStepEnd \/ FinishAbort \/ Return \/ Terminated
    BY <2>1, <2>2 DEF Interrupt, TimeoutHits, TimeoutSwallowed, CallerCancels, EmitStepEnd,
          FinishAbort, Return, Terminated, vars, schedVars
  <2>3. CASE FinishTimeout \/ LoopHead
    <3>1. CASE FinishTimeout
      BY <2>1, <3>1 DEF FinishTimeout, NeverStarted, completed
    <3>2. CASE LoopHead /\ completed = Step
      BY <2>1, <3>2 DEF LoopHead, Finalise
    <3>3. CASE LoopHead /\ completed # Step
      BY <2>1, <3>3 DEF LoopHead, Schedule, completed
    <3>4. QED
      BY <2>3, <3>1, <3>2, <3>3
  <2>4. ASSUME NEW x \in Step, Wake(x) \/ ProcessNext(x)
        PROVE  result'[s] = result[s] /\ lifecycle'[s] = lifecycle[s]
    <3>1. /\ x # s /\ s \notin Cascade(x, completed \cup {x})
          /\ RecordPassed(x) \/ RecordFailed(x) \/ RecordBroken(x)
      BY <2>4, RecordFacts, CascadeUnstarted
    <3>2. QED
      BY <3>1 DEF RecordPassed, RecordFailed, RecordBroken, FailAndCascade, IInv, TypeOK
  <2>5. ASSUME NEW x \in Step, TaskStep(x)
        PROVE  result'[s] = result[s] /\ lifecycle'[s] = lifecycle[s]
    BY <2>5, TaskFacts
  <2>6. QED
    BY <2>1, <2>2, <2>3, <2>4, <2>5 DEF Next, Scheduler
<1>2. QED
  BY <1>1, Invariance, PTL DEF Spec, RecordedOnce
-----------------------------------------------------------------------------
(***************************************************************************)
(* Every step that ran is announced.                                       *)
(***************************************************************************)
\* The run has not been interrupted on its way to workflow_end.
Undisturbed == pc \in {"start", "wait", "mark", "notify", "end", "returned"} /\ deadline # "hit"

\* A recorded step that ran was announced, or the handlers of its failure are still
\* being told; only then does an announcement wait.
Announced ==
    Undisturbed =>
        /\ \A s \in Step : result[s] # "none" /\ task[s] = "done" => s \in ended \cup marking
        /\ pc # "mark" => marking = {}

LEMMA InitAnnounced == Init => Announced
BY DEF Init, Announced

LEMMA NextAnnounced == IInv /\ Announced /\ [Next]_vars => Announced'
<1> SUFFICES ASSUME IInv, Announced, [Next]_vars PROVE Announced'
  OBVIOUS
<1> USE DEF Announced, Undisturbed, schedVars, taskVars, ctxVars
<1>1. CASE Interrupt \/ EmitStepEnd \/ Return \/ Terminated \/ UNCHANGED vars
  BY <1>1 DEF Interrupt, TimeoutHits, TimeoutSwallowed, CallerCancels, InLoop, EmitStepEnd,
              Return, Terminated, vars
<1>2. CASE FinishTimeout \/ FinishAbort
  BY <1>2 DEF FinishTimeout, FinishAbort, IInv, StatusExact
<1>3. CASE LoopHead
  <2>1. /\ pc \in {"start", "notify"} /\ Undisturbed /\ deadline' = deadline
        /\ ended' = ended /\ marking' = marking /\ marking = {} /\ pc' # "mark" /\ batch = {}
    BY <1>3 DEF LoopHead, Finalise, Schedule, IInv, StatusExact
  <2>2. ASSUME NEW s \in Step, result'[s] # "none", task'[s] = "done"
        PROVE  result[s] # "none" /\ task[s] = "done"
    <3>1. task[s] = "done"
      BY <1>3, <2>2 DEF LoopHead, Finalise, Schedule, IInv, TypeOK
    <3>2. CASE completed = Step
      BY <3>1, <3>2, <2>2, <1>3 DEF LoopHead, Finalise, IInv, TypeOK
    <3>3. CASE completed # Step /\ tasks' = {}
      <4>1. tasks = {}
        BY <3>3, <1>3 DEF LoopHead, Schedule
      <4>2. running = {}
        BY <4>1, <2>1 DEF IInv, RunningExact, Scheduling
      <4>3. QED
        BY <3>1, <4>2, <2>1 DEF IInv, RunningExact, Scheduling
    <3>4. CASE completed # Step /\ tasks' # {}
      BY <3>1, <3>4, <2>2, <1>3 DEF LoopHead, Schedule
    <3>5. QED
      BY <3>2, <3>3, <3>4
  <2>3. QED
    BY <2>1, <2>2
<1>4. ASSUME NEW s \in Step, Wake(s) \/ ProcessNext(s) PROVE Announced'
  <2>1. Undisturbed /\ pc \in {"wait", "notify"} /\ marking = {}
    BY <1>4, RecordFacts DEF Wake, ProcessNext
  <2>2. /\ task' = task /\ deadline' = deadline
        /\ RecordPassed(s) \/ RecordFailed(s) \/ RecordBroken(s)
    BY <1>4, RecordFacts
  <2>3. \A x \in Step \ {s} : task[x] = "done" => result'[x] = result[x]
    <3>1. \A x \in Cascade(s, completed \cup {s}) : task[x] = "none"
      BY <1>4, RecordFacts, CascadeUnstarted
    <3>2. QED
      BY <2>2, <3>1 DEF RecordPassed, RecordFailed, RecordBroken, FailAndCascade, IInv, TypeOK
  <2>4. s \in ended' \cup marking' /\ ended \subseteq ended' /\ (pc' # "mark" => marking' = {})
    BY <2>1, <2>2 DEF RecordPassed, RecordFailed, RecordBroken
  <2>5. QED
    BY <2>1, <2>2, <2>3, <2>4
<1>5. ASSUME NEW s \in Step, TaskStep(s) PROVE Announced'
  BY <1>5, TaskFacts
<1>6. QED
  BY <1>1, <1>2, <1>3, <1>4, <1>5 DEF Next, Scheduler

\* Unless the timeout cuts the run short, every step that ran gets its step_end event
\* before workflow_end, also a step that raised, whose event waits for the context's
\* handlers (_mark_context_failed, _emit_step_end).
THEOREM StartsEnd == Spec => []EveryStartEnds
<1>1. Spec => []Announced
  BY InitAnnounced, NextAnnounced, Invariance, PTL DEF Spec
<1>2. IInv /\ Announced => EveryStartEnds
  BY DEF IInv, HonestStatus, Announced, Undisturbed, EveryStartEnds, completed
<1>3. QED
  BY <1>1, <1>2, Invariance, PTL

-----------------------------------------------------------------------------
(***************************************************************************)
(* The refinement of WorkflowRun.                                          *)
(***************************************************************************)

\* How the parts of a step's state determine its abstract status.
LEMMA StatusCases ==
  ASSUME IInv, NEW s \in Step
  PROVE  /\ StepStatus(s) = "success" <=> result[s] = "success"
         /\ StepStatus(s) = "failed" <=> result[s] = "failed"
         /\ StepStatus(s) = "blocked" <=> result[s] = "skipped" /\ task[s] = "none"
         /\ StepStatus(s) = "condition" <=> result[s] = "skipped" /\ task[s] # "none"
         /\ StepStatus(s) = "pending" <=> result[s] = "none" /\ task[s] = "none"
         /\ StepStatus(s) = "running" <=> result[s] = "none" /\ task[s] # "none"
         /\ StepStatus(s) \in {"success", "failed", "blocked", "condition", "pending",
                               "running"}
         /\ StepStatus(s) \in {"success", "condition"} <=> Cleared(s)
         /\ StepStatus(s) \in {"failed", "blocked"} <=> Blocked(s)
<1>1. result[s] \in {"none", "success", "failed", "skipped"}
  BY DEF IInv, TypeOK, Settled
<1>2. /\ result[s] = "skipped" => task[s] \in {"none", "done"}
  BY DEF IInv, OutcomeExact
<1>3. CASE result[s] = "none"
  BY <1>3 DEF StepStatus, Cleared, Blocked
<1>4. CASE result[s] = "success"
  BY <1>4 DEF StepStatus, Cleared, Blocked
<1>5. CASE result[s] = "failed"
  BY <1>5 DEF StepStatus, Cleared, Blocked
<1>6. CASE result[s] = "skipped"
  BY <1>2, <1>6 DEF StepStatus, Cleared, Blocked
<1>7. QED
  BY <1>1, <1>3, <1>4, <1>5, <1>6

\* The same in the next state.
LEMMA StatusCasesNext ==
  ASSUME IInv', NEW s \in Step
  PROVE  /\ (StepStatus(s))' = "success" <=> result'[s] = "success"
         /\ (StepStatus(s))' = "failed" <=> result'[s] = "failed"
         /\ (StepStatus(s))' = "blocked" <=> result'[s] = "skipped" /\ task'[s] = "none"
         /\ (StepStatus(s))' = "condition" <=> result'[s] = "skipped" /\ task'[s] # "none"
         /\ (StepStatus(s))' = "pending" <=> result'[s] = "none" /\ task'[s] = "none"
         /\ (StepStatus(s))' = "running" <=> result'[s] = "none" /\ task'[s] # "none"
         /\ (StepStatus(s))' \in {"success", "failed", "blocked", "condition",
                                  "pending", "running"}
         /\ (StepStatus(s))' \in {"success", "condition"} <=> (Cleared(s))'
         /\ (StepStatus(s))' \in {"failed", "blocked"} <=> (Blocked(s))'
<1>1. result'[s] \in {"none", "success", "failed", "skipped"}
  BY DEF IInv, TypeOK, Settled
<1>2. /\ result'[s] = "skipped" => task'[s] \in {"none", "done"}
  BY DEF IInv, OutcomeExact
<1>3. CASE result'[s] = "none"
  BY <1>3 DEF StepStatus, Cleared, Blocked
<1>4. CASE result'[s] = "success"
  BY <1>4 DEF StepStatus, Cleared, Blocked
<1>5. CASE result'[s] = "failed"
  BY <1>5 DEF StepStatus, Cleared, Blocked
<1>6. CASE result'[s] = "skipped"
  BY <1>2, <1>6 DEF StepStatus, Cleared, Blocked
<1>7. QED
  BY <1>1, <1>3, <1>4, <1>5, <1>6

\* The abstract module's own copy of Cardinality is the same operator.
LEMMA SameCardinality ==
  ASSUME NEW T PROVE Run!Cardinality(T) = Cardinality(T)
BY DEF Run!Cardinality, Cardinality, Run!IsFiniteSet, IsFiniteSet

LEMMA InitRefines == Init => Run!Init
<1> SUFFICES ASSUME Init PROVE Run!Init
  OBVIOUS
<1>1. dependsOn \in [Step -> SUBSET Step]
  BY DEF Init, ValidDag
<1>2. \A s \in Step : StepStatus(s) = "pending"
  BY DEF Init, StepStatus
<1>3. QED
  BY <1>1, <1>2 DEF Init, Run!Init, Finished

\* Steps of tasks, timeouts and cancels before the end, and step_end callbacks
\* are invisible; a cancel that ends the call and a return are not.
LEMMA ControlRefines ==
  ASSUME IInv, IInv',
         \/ Interrupt \/ EmitStepEnd \/ FinishAbort \/ Return
         \/ \E s \in Step : TaskStep(s)
  PROVE  [Run!Next]_(Run!vars)
<1> USE DEF Interrupt, TimeoutHits, TimeoutSwallowed, CallerCancels, EmitStepEnd,
            FinishAbort, Return, schedVars, taskVars, InLoop
<1>1. dependsOn' = dependsOn /\ overall' = overall
      /\ \A x \in Step : (StepStatus(x))' = StepStatus(x)
  <2>1. CASE Interrupt \/ EmitStepEnd \/ FinishAbort \/ Return
    BY <2>1 DEF StepStatus
  <2>2. ASSUME NEW s \in Step, TaskStep(s)
        PROVE  dependsOn' = dependsOn /\ overall' = overall
               /\ \A x \in Step : (StepStatus(x))' = StepStatus(x)
    <3>1. /\ dependsOn' = dependsOn /\ overall' = overall /\ result' = result
          /\ \A x \in Step : task'[x] = "none" <=> task[x] = "none"
      BY <2>2, TaskFacts DEF Live
    <3>2. QED
      BY <3>1 DEF StepStatus
  <2>3. QED
    BY <2>1, <2>2
<1>2. /\ pc \in {"end", "returned"} => overall \in {"success", "failed"}
      /\ pc \in Suspended \cup Finished
  BY DEF IInv, TypeOK, HonestStatus
<1>3. \/ (pc \in {"end", "returned"} <=> pc' \in {"end", "returned"})
         /\ (pc \in Finished \/ pc' \in Finished => pc = pc')
      \/ pc \notin Finished /\ pc' = "raised"
      \/ pc = "end" /\ pc' = "returned"
  <2>1. CASE Interrupt \/ EmitStepEnd \/ FinishAbort \/ Return
    BY <2>1 DEF Finished
  <2>2. ASSUME NEW s \in Step, TaskStep(s) PROVE pc' = pc
    BY <2>2, TaskFacts
  <2>3. QED
    BY <2>1, <2>2
<1> USE DEF Run!vars, Run!Next, Run!Return, Run!Cancel, Finished
<1>4. CASE /\ pc \in {"end", "returned"} <=> pc' \in {"end", "returned"}
           /\ pc \in Finished \/ pc' \in Finished => pc = pc'
  BY <1>1, <1>4
<1>5. CASE pc \notin Finished /\ pc' = "raised"
  BY <1>1, <1>5
<1>6. CASE pc = "end" /\ pc' = "returned"
  BY <1>1, <1>2, <1>6
<1>7. QED
  BY <1>3, <1>4, <1>5, <1>6

\* _handle_timeout is the abstract Expire.
LEMMA TimeoutRefines ==
  ASSUME IInv, IInv', FinishTimeout
  PROVE  Run!Expire
<1>1. /\ pc = "timeout" /\ pc' = "end" /\ overall' = "failed"
      /\ dependsOn' = dependsOn /\ task' = task
  BY DEF FinishTimeout, taskVars
<1>2. \A x \in Step :
        result'[x] = IF result[x] # "none" THEN result[x]
                     ELSE IF task[x] = "none" THEN "skipped" ELSE "failed"
  BY DEF FinishTimeout, NeverStarted, IInv, RunningExact, Scheduling, completed
<1>3. \A x \in Step :
        (StepStatus(x))' = CASE StepStatus(x) = "running" -> "failed"
                             [] StepStatus(x) = "pending" -> "blocked"
                             [] OTHER -> StepStatus(x)
  BY <1>1, <1>2 DEF StepStatus, IInv, TypeOK, Settled
<1>4. QED
  BY <1>1, <1>3 DEF Run!Expire, Run!Active, Finished

\* The end of the loop is the abstract Decide.
LEMMA FinaliseRefines ==
  ASSUME IInv, IInv', LoopHead, completed = Step
  PROVE  Run!Decide
<1>1. /\ pc \in {"start", "notify"} /\ pc' = "end" /\ dependsOn' = dependsOn
      /\ task' = task /\ result' = result /\ deadline' = deadline /\ deadline # "hit"
  BY DEF LoopHead, Finalise, IInv, StatusExact
<1>2. \A x \in Step : (StepStatus(x))' = StepStatus(x) /\ ((Cleared(x))' <=> Cleared(x))
  BY <1>1 DEF StepStatus, Cleared
<1>3. overall' \in {"success", "failed"} /\ (overall' = "success" <=> \A x \in Step : Cleared(x))
  BY <1>1, <1>2 DEF IInv, HonestStatus
<1>4. \A x \in Step : StepStatus(x) \in {"success", "condition", "failed", "blocked"}
  BY StatusCases, ClearedOrBlocked DEF completed
<1>5. \A x \in Step : StepStatus(x) \in {"success", "condition"} <=> Cleared(x)
  BY StatusCases
<1>6. QED
  BY <1>1, <1>2, <1>3, <1>4, <1>5
     DEF Run!Decide, Run!Active, Run!Passed, Run!Blocked, Finished

\* A scheduling pass is the abstract Start.
LEMMA ScheduleRefines ==
  ASSUME IInv, IInv', LoopHead, completed # Step
  PROVE  Run!Start
<1> DEFINE S == {x \in Step : task[x] = "none" /\ task'[x] # "none"}
<1>1. /\ pc \in {"start", "notify"} /\ pc' \in {"wait", "end"}
      /\ dependsOn' = dependsOn
  BY DEF LoopHead, Schedule
<1>2. pc' = "wait" /\ result' = result
  <2>1. CASE pc' = "wait"
    BY <2>1 DEF LoopHead, Schedule
  <2>2. CASE pc' = "end"
    <3>1. PICK U \in SUBSET (ready \ completed) :
            /\ U = ready \ completed \/ Cardinality(U) = Room
            /\ tasks \cup U = {}
      BY <2>2 DEF LoopHead, Schedule
    <3>2. Scheduling /\ running = {}
      BY <1>1, <3>1 DEF LoopHead, IInv, RunningExact, Scheduling
    <3>3. Cardinality(U) = 0 /\ Room = MaxConcurrency
      BY <3>1, <3>2, FS_EmptySet, MaxConcurrencyAssumption DEF Room
    <3>4. FALSE
      BY <3>1, <3>2, <3>3, SomethingReady, MaxConcurrencyAssumption
    <3>5. QED
      BY <3>4
  <2>3. QED
    BY <1>1, <2>1, <2>2
<1>3. \A x \in Step : /\ task'[x] = "none" => task[x] = "none"
                      /\ x \in S => result[x] = "none"
  BY <1>1 DEF LoopHead, Schedule, completed
<1>4. /\ S \in SUBSET {x \in Step : StepStatus(x) = "pending"}
      /\ \A x \in Step : (StepStatus(x))' = IF x \in S THEN "running" ELSE StepStatus(x)
  <2>1. \A x \in S : StepStatus(x) = "pending" /\ (StepStatus(x))' = "running"
    BY <1>2, <1>3 DEF StepStatus
  <2>2. \A x \in Step \ S : (StepStatus(x))' = StepStatus(x)
    BY <1>2, <1>3 DEF StepStatus
  <2>3. QED
    BY <2>1, <2>2
<1>5. \A x \in S : \A e \in dependsOn[x] : StepStatus(e) \in {"success", "condition"}
  <2> SUFFICES ASSUME NEW x \in S, NEW e \in dependsOn[x]
               PROVE  StepStatus(e) \in {"success", "condition"}
    OBVIOUS
  <2>1. e \in Step /\ (Cleared(e))'
    BY <1>1, DependenciesFinite DEF IInv, TypeOK, StartAfterDependencies
  <2>2. result[e] = "success" \/ (result[e] = "skipped" /\ task'[e] # "none")
    BY <1>2, <2>1 DEF Cleared
  <2>3. result[e] = "success" \/ (result[e] = "skipped" /\ task[e] # "none")
    BY <1>3, <2>1, <2>2
  <2>4. QED
    BY <2>1, <2>3, StatusCases
<1>6. Cardinality(S \cup {x \in Step : StepStatus(x) = "running"}) <= MaxConcurrency
  <2>1. S \cup {x \in Step : StepStatus(x) = "running"} = running'
    <3>1. running' = {x \in Step : task'[x] # "none" /\ result'[x] = "none"}
      BY <1>2 DEF IInv, RunningExact, Scheduling
    <3>2. \A x \in Step : StepStatus(x) = "running" <=> result[x] = "none" /\ task[x] # "none"
      BY StatusCases
    <3>3. QED
      BY <3>1, <3>2, <1>2, <1>3
  <2>2. QED
    BY <2>1 DEF IInv, RunningExact
<1> DEFINE st == [x \in Step |-> StepStatus(x)]
<1>7. S \in SUBSET {x \in Step : st[x] = "pending"}
  BY <1>4
<1>8. /\ \A x \in S : \A e \in dependsOn[x] : st[e] \in {"success", "condition"}
      /\ Cardinality(S \cup {x \in Step : st[x] = "running"}) <= MaxConcurrency
      /\ st' = [x \in Step |-> IF x \in S THEN "running" ELSE st[x]]
  <2>1. \A x \in S : \A e \in dependsOn[x] : st[e] = StepStatus(e)
    BY DependenciesFinite DEF IInv, TypeOK
  <2>2. {x \in Step : st[x] = "running"} = {x \in Step : StepStatus(x) = "running"}
    OBVIOUS
  <2>3. st' = [x \in Step |-> IF x \in S THEN "running" ELSE st[x]]
    BY <1>4
  <2>4. \A x \in S : \A e \in dependsOn[x] : st[e] \in {"success", "condition"}
    BY <2>1, <1>5
  <2>5. Cardinality(S \cup {x \in Step : st[x] = "running"}) <= MaxConcurrency
    BY <2>2, <1>6
  <2>6. QED
    BY <2>3, <2>4, <2>5
<1>9. Run!Active /\ Run!Active'
  BY <1>1, <1>2 DEF Run!Active, Finished
<1>10. QED
  <2> HIDE DEF S
  <2> QED
    BY <1>1, <1>2, <1>7, <1>8, <1>9, SameCardinality DEF Run!Start, Run!Passed, Finished

\* Recording a completion, with its cascade, is the abstract Settle.
LEMMA RecordRefines ==
  ASSUME IInv, IInv', NEW s \in Step, Wake(s) \/ ProcessNext(s)
  PROVE  Run!Settle(s)
<1>1. /\ pc \in {"wait", "notify"} /\ pc' \in {"notify", "mark"}
      /\ dependsOn' = dependsOn /\ task' = task /\ deadline' # "hit"
      /\ result[s] = "none" /\ task[s] = "done"
      /\ RecordPassed(s) \/ RecordFailed(s) \/ RecordBroken(s)
  BY RecordFacts DEF Wake, ProcessNext
<1>2. result'[s] # "none"
  BY <1>1 DEF RecordPassed, RecordFailed, RecordBroken, FailAndCascade, IInv, TypeOK
<1>3. \A x \in Step \ {s} : result'[x] = result[x]
                            \/ (result[x] = "none" /\ task[x] = "none" /\ result'[x] = "skipped")
  <2>1. CASE RecordPassed(s)
    BY <2>1 DEF RecordPassed, IInv, TypeOK
  <2>2. CASE RecordFailed(s) \/ RecordBroken(s)
    BY <1>1, <2>2, CascadeUnstarted DEF RecordFailed, RecordBroken, FailAndCascade
  <2>3. QED
    BY <1>1, <2>1, <2>2
<1>4. StepStatus(s) = "running" /\ (StepStatus(s))' \in {"success", "condition", "failed"}
  BY <1>1, <1>2, StatusCases, StatusCasesNext
<1>5. ASSUME NEW x \in Step \ {s}
      PROVE  (StepStatus(x))' =
               IF StepStatus(x) = "pending"
                  /\ \E e \in dependsOn[x] : (StepStatus(e))' \in {"failed", "blocked"}
               THEN "blocked" ELSE StepStatus(x)
  <2>1. (\E e \in dependsOn[x] : (StepStatus(e))' \in {"failed", "blocked"})
          <=> (result'[x] = "skipped" /\ task'[x] = "none")
    <3>1. \A e \in dependsOn[x] : (StepStatus(e))' \in {"failed", "blocked"} <=> (Blocked(e))'
      BY StatusCasesNext, DependenciesFinite DEF IInv, TypeOK
    <3>2. QED
      BY <1>1, <3>1 DEF IInv, CascadeExact
  <2>2. CASE result'[x] = result[x]
    <3>1. (StepStatus(x))' = StepStatus(x)
      BY <1>1, <2>2 DEF StepStatus
    <3>2. ~(StepStatus(x) = "pending" /\ result'[x] = "skipped")
      BY <2>2, StatusCases
    <3>3. QED
      BY <2>1, <3>1, <3>2
  <2>3. CASE result[x] = "none" /\ task[x] = "none" /\ result'[x] = "skipped"
    <3>1. StepStatus(x) = "pending" /\ (StepStatus(x))' = "blocked"
      BY <1>1, <2>3 DEF StepStatus
    <3>2. QED
      BY <2>1, <2>3, <3>1, <1>1
  <2>4. QED
    BY <1>3, <2>2, <2>3
<1>6. \A x \in Step : dependsOn[x] \subseteq Step
  BY DependenciesFinite DEF IInv, TypeOK
<1>7. QED
  BY <1>1, <1>4, <1>5, <1>6
     DEF Run!Settle, Run!Active, Run!Passed, Run!Blocked, Finished

\* Every behaviour of the scheduler is, under the mapping, a behaviour of the
\* abstract workflow run.
THEOREM Refinement == Spec => ImplementsRun
<1>1. ASSUME IInv, IInv', [Next]_vars
      PROVE  [Run!Next]_(Run!vars)
  <2>1. CASE \/ Interrupt \/ EmitStepEnd \/ FinishAbort \/ Return
             \/ \E s \in Step : TaskStep(s)
    BY <1>1, <2>1, ControlRefines
  <2>2. CASE FinishTimeout
    BY <1>1, <2>2, TimeoutRefines DEF Run!Next
  <2>3. CASE LoopHead
    BY <1>1, <2>3, FinaliseRefines, ScheduleRefines DEF Run!Next
  <2>4. ASSUME NEW s \in Step, Wake(s) \/ ProcessNext(s)
        PROVE  Run!Next
    BY <1>1, <2>4, RecordRefines DEF Run!Next
  <2>5. CASE Terminated \/ UNCHANGED vars
    <3>1. /\ dependsOn' = dependsOn /\ pc' = pc /\ overall' = overall
          /\ result' = result /\ task' = task
      BY <2>5 DEF Terminated, vars, schedVars, taskVars
    <3>2. \A x \in Step : (StepStatus(x))' = StepStatus(x)
      BY <3>1 DEF StepStatus
    <3>3. QED
      BY <3>1, <3>2 DEF Run!vars
  <2>6. QED
    BY <1>1, <2>1, <2>2, <2>3, <2>4, <2>5 DEF Next, Scheduler
<1>2. QED
  BY <1>1, InitRefines, Invariance, PTL DEF Spec, ImplementsRun, Run!Spec
=============================================================================
