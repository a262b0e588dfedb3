------------------------- MODULE StepExecutorProofs --------------------------
(***************************************************************************)
(* The invariants of StepExecutor, and that it follows StepTask, for every *)
(* number of concurrent calls, retries and rounds.                         *)
(***************************************************************************)
EXTENDS StepExecutorTask, TLAPS

-----------------------------------------------------------------------------
(***************************************************************************)
(* The inductive invariant.                                                *)
(***************************************************************************)

\* Counters at each await: a backoff has paid for the attempt that follows it, and
\* outputs accepted so far are at most one per round and one per retry.
Counters(c) ==
    /\ pc[c] \in {"new", "start", "hooks", "prepare"} =>
           attempt[c] = 0 /\ retried[c] = 0 /\ outputs[c] = 0 /\ loopIteration[c] = 1
    /\ pc[c] \in {"body", "post", "refresh"} => attempt[c] = retried[c] + 1
    /\ pc[c] = "backoff" => attempt[c] = retried[c] /\ retried[c] > 0
    /\ retried[c] <= MaxRetries
    /\ pc[c] \in {"body", "refresh", "backoff"} =>
           outputs[c] + 1 <= loopIteration[c] + retried[c]
    /\ outputs[c] <= loopIteration[c] + retried[c]
    /\ pc[c] = "body" /\ retried[c] = 0 => inputs[c] = outputs[c]

\* Status and marks at each await.
Marks(c) ==
    /\ c \in ctxCompleted =>
           pc[c] \in {"complete", "failing", "returned", "cancelled"}
    /\ c \in ctxFailed => pc[c] \in {"failing", "returned", "cancelled"}
    /\ pc[c] \in {"post", "complete"} => status[c] = "success"
    /\ pc[c] = "complete" => c \in ctxCompleted
    /\ pc[c] = "failing" => status[c] = "failed" /\ c \in ctxFailed
    /\ pc[c] = "returned" =>
           /\ status[c] \in {"success", "failed", "skipped"}
           /\ status[c] = "success" => c \in ctxCompleted /\ c \notin ctxFailed
           /\ status[c] = "failed" /\ attempt[c] > 0 => c \in ctxFailed
           /\ status[c] = "skipped" => c \notin ctxCompleted /\ c \notin ctxFailed

\* The registry holds each running body under its own run.
Registered ==
    /\ \A c \in Call : pc[c] = "body" => runningTasks[runOf[c]] = c
    /\ \A r \in RunId : runningTasks[r] \in Call =>
           runOf[runningTasks[r]] = r /\ pc[runningTasks[r]] = "body"

IInv ==
    /\ TypeOK
    /\ Registered
    /\ \A c \in Call : Counters(c) /\ Marks(c)

-----------------------------------------------------------------------------
LEMMA InitIInv == Init => IInv
BY CallAssumption, BudgetAssumption
   DEF Init, IInv, TypeOK, Registered, Counters, Marks, Phase, Status

\* A step of one call leaves the counters, marks and phase of the others alone.
LEMMA OthersUnchanged ==
  ASSUME IInv, NEW c \in Call, Advance(c) \/ CancelRecorded(c) \/ CancelEscapes(c)
  PROVE  \A d \in Call \ {c} :
           /\ pc'[d] = pc[d] /\ status'[d] = status[d] /\ attempt'[d] = attempt[d]
           /\ loopIteration'[d] = loopIteration[d] /\ retried'[d] = retried[d]
           /\ inputs'[d] = inputs[d] /\ outputs'[d] = outputs[d]
           /\ d \in ctxCompleted' <=> d \in ctxCompleted
           /\ d \in ctxFailed' <=> d \in ctxFailed
BY DEF IInv, TypeOK, Advance, Prepare, Attempt, AfterBody, Skip, NoFunction, MarkStart,
       RunPreHooks, PreHooksPass, PreHooksFail, InputContractFails, PrepareRaises,
       PrepareInputs, FirstAttempt, NextRound, NextAttempt, BodyReturns, MapOutputs, RetryLater, RetriesLeft, GiveUp, TimesOut,
       GateBlocks, LoopAgain, MarkComplete, ErrorHooksDone, Return, CancelRecorded,
       CancelEscapes, Goto, SetStatus, Fail, StartBody, Leave, ctxVars, history

\* What each step does to the registry.
LEMMA RegistryFacts ==
  ASSUME IInv, NEW c \in Call, Advance(c) \/ CancelRecorded(c) \/ CancelEscapes(c)
  PROVE  Registered' /\ runningTasks' \in [RunId -> Call \cup {None}]
<1> USE CallAssumption DEF KeyOf
<1>1. CASE Attempt(c)
  BY <1>1, OthersUnchanged
     DEF IInv, TypeOK, Registered, Attempt, PrepareInputs, FirstAttempt, NextRound, NextAttempt, StartBody, Goto
<1>2. CASE BodyReturns(c) \/ RetryLater(c) \/ GiveUp(c) \/ TimesOut(c) \/ CancelRecorded(c)
  <2>1. Unregister(c) /\ pc'[c] # "body"
    BY <1>2 DEF IInv, TypeOK, BodyReturns, MapOutputs, RetryLater, RetriesLeft, GiveUp, TimesOut, CancelRecorded, Leave,
                Fail, Goto
  <2>2. /\ \A r \in RunId : runningTasks'[r] = IF runningTasks[r] = c THEN None ELSE runningTasks[r]
        /\ runningTasks' \in [RunId -> Call \cup {None}]
    BY <2>1 DEF Unregister, IInv, TypeOK, Registered
  <2>3. QED
    BY <2>1, <2>2, OthersUnchanged DEF IInv, TypeOK, Registered
<1>3. CASE \/ Prepare(c) \/ GateBlocks(c) \/ LoopAgain(c) \/ MarkComplete(c)
           \/ ErrorHooksDone(c) \/ Return(c) \/ CancelEscapes(c)
  <2>1. runningTasks' = runningTasks /\ pc[c] # "body" /\ pc'[c] # "body"
    BY <1>3 DEF IInv, TypeOK, Prepare, Skip, NoFunction, MarkStart, RunPreHooks, PreHooksPass,
           PreHooksFail, InputContractFails, PrepareRaises, GateBlocks, LoopAgain,
           MarkComplete, ErrorHooksDone, Return, CancelEscapes, Goto, Fail
  <2>2. QED
    BY <2>1, OthersUnchanged DEF IInv, TypeOK, Registered
<1>4. QED
  BY <1>1, <1>2, <1>3 DEF Advance, AfterBody

\* Counters and marks of the call that moves.
LEMMA CallFacts ==
  ASSUME IInv, NEW c \in Call, Advance(c) \/ CancelRecorded(c) \/ CancelEscapes(c)
  PROVE  (Counters(c))' /\ (Marks(c))'
<1> USE BudgetAssumption DEF IInv, TypeOK, Counters, Marks, Goto, SetStatus, Fail, ctxVars, history
<1>1. CASE Prepare(c) \/ CancelEscapes(c)
  <2>1. CASE Skip(c) \/ NoFunction(c) \/ MarkStart(c)
    BY <2>1 DEF Skip, NoFunction, MarkStart
  <2>2. CASE RunPreHooks(c) \/ PreHooksPass(c) \/ PreHooksFail(c)
    BY <2>2 DEF RunPreHooks, PreHooksPass, PreHooksFail
  <2>3. CASE InputContractFails(c) \/ PrepareRaises(c)
    BY <2>3 DEF InputContractFails, PrepareRaises
  <2>4. CASE CancelEscapes(c)
    BY <2>4 DEF CancelEscapes
  <2>5. QED
    BY <1>1, <2>1, <2>2, <2>3, <2>4 DEF Prepare
<1>2. CASE Attempt(c)
  <2>1. CASE FirstAttempt(c)
    BY <2>1 DEF PrepareInputs, FirstAttempt, StartBody
  <2>2. CASE NextRound(c)
    BY <2>2 DEF PrepareInputs, NextRound, StartBody
  <2>3. CASE NextAttempt(c)
    BY <2>3 DEF NextAttempt, StartBody
  <2>4. QED
    BY <1>2, <2>1, <2>2, <2>3 DEF Attempt
<1>3. CASE BodyReturns(c) \/ RetryLater(c) \/ GiveUp(c) \/ TimesOut(c) \/ CancelRecorded(c)
  BY <1>3 DEF BodyReturns, MapOutputs, RetryLater, RetriesLeft, GiveUp, TimesOut, CancelRecorded, Leave
<1>4. CASE \/ GateBlocks(c) \/ LoopAgain(c) \/ MarkComplete(c) \/ ErrorHooksDone(c)
           \/ Return(c)
  BY <1>4 DEF GateBlocks, LoopAgain, MarkComplete, ErrorHooksDone, Return
<1>5. QED
  BY <1>1, <1>2, <1>3, <1>4 DEF Advance, AfterBody

LEMMA CallTypes ==
  ASSUME IInv, NEW c \in Call, Advance(c) \/ CancelRecorded(c) \/ CancelEscapes(c)
  PROVE  TypeOK'
<1> USE RegistryFacts, BudgetAssumption
    DEF IInv, TypeOK, Goto, SetStatus, Fail, ctxVars, history, Phase, Ended, Status
<1>1. CASE Prepare(c) \/ CancelEscapes(c)
  BY <1>1 DEF Prepare, Skip, NoFunction, MarkStart, RunPreHooks, PreHooksPass,
           PreHooksFail, InputContractFails, PrepareRaises, CancelEscapes
<1>2. CASE Attempt(c)
  BY <1>2 DEF Attempt, PrepareInputs, FirstAttempt, NextRound, NextAttempt, StartBody, Counters
<1>3. CASE BodyReturns(c) \/ RetryLater(c) \/ GiveUp(c) \/ TimesOut(c) \/ CancelRecorded(c)
  BY <1>3 DEF BodyReturns, MapOutputs, RetryLater, RetriesLeft, GiveUp, TimesOut, CancelRecorded, Leave
<1>4. CASE \/ GateBlocks(c) \/ LoopAgain(c) \/ MarkComplete(c) \/ ErrorHooksDone(c)
           \/ Return(c)
  BY <1>4 DEF GateBlocks, LoopAgain, MarkComplete, ErrorHooksDone, Return
<1>5. QED
  BY <1>1, <1>2, <1>3, <1>4 DEF Advance, AfterBody

LEMMA NextIInv == IInv /\ [Next]_vars => IInv'
<1> SUFFICES ASSUME IInv, [Next]_vars PROVE IInv'
  OBVIOUS
<1>1. ASSUME NEW c \in Call, Advance(c) \/ CancelRecorded(c) \/ CancelEscapes(c)
      PROVE  IInv'
  <2>1. \A d \in Call \ {c} : (Counters(d))' /\ (Marks(d))'
    BY <1>1, OthersUnchanged DEF IInv, Counters, Marks
  <2>2. QED
    BY <1>1, <2>1, CallFacts, CallTypes, RegistryFacts DEF IInv
<1>2. CASE UNCHANGED vars
  BY <1>2 DEF vars, ctxVars, history, IInv, TypeOK, Registered, Counters, Marks
<1>3. QED
  BY <1>1, <1>2 DEF Next, Terminated

-----------------------------------------------------------------------------
(***************************************************************************)
(* The theorems.                                                           *)
(***************************************************************************)

\* The inductive invariant holds, for every number of calls.
THEOREM Invariance == Spec => []IInv
BY InitIInv, NextIInv, PTL DEF Spec

\* Type correctness: among others, attempts and rounds stay within their limits.
THEOREM TypeCorrect == Spec => []TypeOK
<1>1. IInv => TypeOK
  BY DEF IInv
<1>2. QED
  BY <1>1, Invariance, PTL

\* cancel() and cancel_all() find exactly the running bodies, under their own run.
THEOREM Registry == Spec => []RunningTasksExact
<1>1. IInv => RunningTasksExact
  BY CallAssumption DEF IInv, TypeOK, Registered, RunningTasksExact
<1>2. QED
  BY <1>1, Invariance, PTL

\* Rounds are not paid from the retry budget and retries respect it.
THEOREM Budget == Spec => [](RetryBudget /\ RoundsBounded)
<1>1. IInv => RetryBudget /\ RoundsBounded
  BY BudgetAssumption DEF IInv, TypeOK, Counters, RetryBudget, RoundsBounded
<1>2. QED
  BY <1>1, Invariance, PTL

\* A round entered without an error retry has seen every earlier output.
THEOREM Freshness == Spec => []FreshInputs
<1>1. IInv => FreshInputs
  BY DEF IInv, Counters, FreshInputs
<1>2. QED
  BY <1>1, Invariance, PTL

\* Retries, rounds and the inputs of every round are exact, for every budget.
THEOREM Attempts == Spec => []AttemptsExact
<1>1. RetryBudget /\ RoundsBounded /\ FreshInputs => AttemptsExact
  BY DEF AttemptsExact
<1>2. QED
  BY <1>1, Budget, Freshness, PTL

\* What a call returns is terminal and agrees with its marks in the context.
THEOREM ResultsAgree == Spec => []ResultMatchesContext
<1>1. IInv => ResultMatchesContext
  BY DEF IInv, Marks, ResultMatchesContext
<1>2. QED
  BY <1>1, Invariance, PTL

-----------------------------------------------------------------------------
(***************************************************************************)
(* Every call follows the protocol of StepTask.                            *)
(***************************************************************************)
LEMMA TaskInit == Init => \A c \in Call : Task(c)!Init
BY DEF Init, Task!Init, TaskPhase, TaskOutcome, Ended

\* The call that moves takes a step of the protocol or stutters in it.
LEMMA TaskMoves ==
  ASSUME IInv, NEW c \in Call, Advance(c) \/ CancelRecorded(c) \/ CancelEscapes(c)
  PROVE  [Task(c)!Next]_(Task(c)!vars)
<1> USE DEF Task!Next, Task!vars, Task!Decline, Task!Begin, Task!MarkComplete, Task!Succeed,
            Task!MarkFailed, Task!Fail, Task!Raise, Task!Ends, TaskPhase, TaskOutcome, Ended,
            IInv, TypeOK, Marks, Goto, SetStatus, Fail, ctxVars
<1>1. CASE Skip(c) \/ NoFunction(c) \/ MarkStart(c)
  BY <1>1 DEF Skip, NoFunction, MarkStart
<1>2. CASE RunPreHooks(c) \/ PreHooksPass(c) \/ InputContractFails(c)
  BY <1>2 DEF RunPreHooks, PreHooksPass, InputContractFails
<1>3. CASE PreHooksFail(c) \/ PrepareRaises(c)
  BY <1>3 DEF PreHooksFail, PrepareRaises
<1>4. CASE Attempt(c)
  BY <1>4 DEF Attempt, PrepareInputs, FirstAttempt, NextRound, NextAttempt, StartBody
<1>5. CASE BodyReturns(c) \/ RetryLater(c) \/ GiveUp(c)
  BY <1>5 DEF BodyReturns, MapOutputs, RetryLater, RetriesLeft, GiveUp, Leave
<1>6. CASE TimesOut(c) \/ GateBlocks(c) \/ ErrorHooksDone(c)
  BY <1>6 DEF TimesOut, GateBlocks, ErrorHooksDone, Leave
<1>7. CASE LoopAgain(c) \/ MarkComplete(c)
  BY <1>7 DEF LoopAgain, MarkComplete
<1>8. CASE Return(c)
  <2>1. /\ TaskPhase(c) \in {"executing", "completing"}
        /\ pc'[c] = "returned" /\ status' = status
        /\ ctxCompleted' = ctxCompleted /\ ctxFailed' = ctxFailed
        /\ \/ status[c] = "success" /\ TaskPhase(c) = "completing" /\ c \notin ctxFailed
           \/ status[c] = "failed" /\ c \in ctxFailed
    BY <1>8 DEF Return
  <2>2. (TaskPhase(c))' = "done" /\ (TaskOutcome(c))' = status[c]
    BY ONLY <2>1 DEF TaskPhase, TaskOutcome, Ended
  <2>3. QED
    <3> HIDE DEF TaskPhase, TaskOutcome
    <3> QED BY <2>1, <2>2
<1>9. CASE CancelRecorded(c)
  BY <1>9 DEF CancelRecorded
<1>10. CASE CancelEscapes(c)
  <2>1. /\ TaskPhase(c) \in {"executing", "completing"}
        /\ pc'[c] = "cancelled"
        /\ ctxCompleted' = ctxCompleted /\ ctxFailed' = ctxFailed
    BY <1>10 DEF CancelEscapes
  <2>2. (TaskPhase(c))' = "done" /\ (TaskOutcome(c))' = "raised"
    BY ONLY <2>1 DEF TaskPhase, TaskOutcome, Ended
  <2>3. QED
    <3> HIDE DEF TaskPhase, TaskOutcome
    <3> QED BY <2>1, <2>2
<1>11. QED
  BY <1>1, <1>2, <1>3, <1>4, <1>5, <1>6, <1>7, <1>8, <1>9, <1>10
     DEF Advance, Prepare, AfterBody

\* Every call follows the protocol the scheduler's model assumes, for every number
\* of calls, retries and rounds and at every cancel.
THEOREM Protocol == Spec => ImplementsTask
<1>1. IInv /\ [Next]_vars => [\A c \in Call : [Task(c)!Next]_(Task(c)!vars)]_vars
  <2> SUFFICES ASSUME IInv, Next, NEW d \in Call
               PROVE  [Task(d)!Next]_(Task(d)!vars)
    OBVIOUS
  <2>1. ASSUME NEW c \in Call, Advance(c) \/ CancelRecorded(c) \/ CancelEscapes(c)
        PROVE  [Task(d)!Next]_(Task(d)!vars)
    <3>1. CASE c = d
      BY <2>1, <3>1, TaskMoves
    <3>2. CASE c # d
      <4>1. /\ pc'[d] = pc[d] /\ status'[d] = status[d]
            /\ d \in ctxCompleted' <=> d \in ctxCompleted
            /\ d \in ctxFailed' <=> d \in ctxFailed
        BY <2>1, <3>2, OthersUnchanged
      <4>2. QED
        BY <4>1 DEF Task!vars, TaskPhase, TaskOutcome
    <3>3. QED
      BY <3>1, <3>2
  <2>2. CASE Terminated
    BY <2>2 DEF Terminated, vars, ctxVars, Task!vars, TaskPhase, TaskOutcome
  <2>3. QED
    BY <2>1, <2>2 DEF Next
<1>2. QED
  BY <1>1, TaskInit, Invariance, PTL DEF Spec, ImplementsTask
=============================================================================
