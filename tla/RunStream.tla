------------------------------ MODULE RunStream ------------------------------
(***************************************************************************)
(* The run execution service on the event hub: the background task of a    *)
(* submitted run (_run_and_evaluate) with the steps whose events it and    *)
(* the engine broadcast, composed with EventHub.                           *)
(*                                                                         *)
(* With the native adapter steps run side by side and each awaits its own  *)
(* broadcasts; with the LangGraph adapter the one task iterates the stream *)
(* of node updates, and falls back to a plain invoke, which emits no step  *)
(* events, when the stream raises.  Which steps may run when is the        *)
(* engine's business (DagExecutor); here they begin in any order.          *)
(***************************************************************************)
EXTENDS EventHub

CONSTANTS
    Scenarios     \* adapters, evaluation requests, clients, faults and runs to combine

ASSUME RunAssumption ==
    Scenarios \subseteq [adapter : {"native", "langchain"}, evaluation : BOOLEAN, runs : Nat,
                         steps : SUBSET Steps, clients : SUBSET (Sockets \cup Listeners), faults : Nat]

VARIABLES
    stage,        \* what the background task does next
    adapter,      \* "native" or "langchain"
    evaluation,   \* whether the request asked for an evaluation
    workflow,     \* steps of the workflow
    visitors,     \* clients that may come
    step,         \* [Steps -> progress of the step]
    logged,       \* whether the run record has been written
    runs,         \* bound: submissions of the run id still to come
    faults,       \* bound: appends and clears that the store may still refuse
    older,        \* timers that were there when the run began
    begun         \* the time of the last submission

request == <<adapter, evaluation, workflow, visitors>>
run == <<stage, request, step, logged, runs, older, begun>>
streamVars == <<hub, run, faults>>

StreamInit ==
    /\ HubInit
    /\ stage = "idle"
    /\ \E x \in Scenarios :
         /\ adapter = x.adapter /\ evaluation = x.evaluation /\ workflow = x.steps
         /\ visitors = x.clients /\ faults = x.faults /\ runs = x.runs
    /\ step = [s \in Steps |-> "todo"] /\ logged = FALSE /\ older = 0 /\ begun = 0

Idle(b) == cast[b].at = "idle"
AllIdle == \A b \in Casters : Idle(b)

\* The task begins a broadcast of its own.
Announce(type, follows) ==
    /\ Broadcast(Main, Ev(type, Main, follows))
    /\ UNCHANGED <<store, conns, clients, streams, retention, faults>>

\* A submission binds the run id to its tenant and starts the background task; an
\* id that was used before may be used again by the same tenant.
Submit ==
    /\ stage = "idle" /\ runs > 0 /\ AllIdle
    /\ runs' = runs - 1 /\ logged' = FALSE
    /\ stage' = IF adapter = "native" THEN "start" ELSE "run"
    /\ step' = [s \in Steps |-> "todo"]
    /\ Broadcast(Main, Ev("workflow_start", Main, FALSE))
    /\ bound' = TRUE /\ older' = Len(timer) /\ begun' = clock
    /\ UNCHANGED <<store, conns, clients, streams, timer, pending, clearing, leaked, request, faults>>

-----------------------------------------------------------------------------
(* The engine's events (_stream_and_run, _process_streamed_step).          *)

\* MUTANT of Forwarded: every event of the engine is broadcast.
ForwardedAll(type) == TRUE

\* _broadcast_and_score_update: the native engine's own workflow_end, which has no
\* evaluation_enabled, is held back.
Forwarded(type) == type # "workflow_end"

\* The native engine tells its observer of the workflow.
EngineTells(type) ==
    IF Forwarded(type) THEN Announce(type, FALSE) ELSE UNCHANGED <<hub, faults>>

\* The DAG executor announces the workflow, which the service has announced already.
EngineStarts ==
    /\ stage = "start" /\ Idle(Main)
    /\ EngineTells("workflow_start")
    /\ stage' = "run"
    /\ UNCHANGED <<request, step, logged, runs, older, begun>>

\* LangGraph updates are processed by the one task, native steps by their own.
MayEmit(s) == s \in workflow /\ stage = "run" /\ Idle(Main) /\ (IF adapter = "native" THEN Idle(s) ELSE AllIdle)

StepStart(s) ==
    /\ MayEmit(s) /\ step[s] = "todo"
    /\ Broadcast(s, Ev("step_start", s, FALSE))
    /\ step' = [step EXCEPT ![s] = "running"]
    /\ UNCHANGED <<store, conns, clients, streams, retention, stage, request, logged, runs, older, begun, faults>>

StepEnd(s) ==
    /\ MayEmit(s) /\ step[s] = "running"
    /\ Broadcast(s, Ev("step_end", s, FALSE))
    /\ step' = [step EXCEPT ![s] = "ended"]
    /\ UNCHANGED <<store, conns, clients, streams, retention, stage, request, logged, runs, older, begun, faults>>

\* The stream of node updates raises: the workflow is invoked again without one.
StreamFails ==
    /\ stage = "run" /\ adapter = "langchain" /\ AllIdle
    /\ stage' = "invoke"
    /\ UNCHANGED <<hub, request, step, logged, runs, older, begun, faults>>

\* The DAG executor has no step left: the others were skipped, which it does not tell.
EngineEnds ==
    /\ stage = "run" /\ adapter = "native" /\ AllIdle
    /\ \A s \in workflow : step[s] # "running"
    /\ EngineTells("workflow_end")
    /\ stage' = "result"
    /\ UNCHANGED <<request, step, logged, runs, older, begun>>

\* The native engine finds no such workflow, or the invoke raises.
EngineFails ==
    /\ stage \in {"start", "invoke"} /\ AllIdle
    /\ stage' = "error"
    /\ UNCHANGED <<hub, request, step, logged, runs, older, begun, faults>>

-----------------------------------------------------------------------------
(* The rest of _run_and_evaluate.                                          *)

\* The engine has returned a result: the stream of node updates may end after any
\* of them.
WorkflowEnd ==
    /\ AllIdle
    /\ stage \in {"result", "invoke"} \/ (stage = "run" /\ adapter = "langchain")
    /\ Announce("workflow_end", evaluation)
    /\ stage' = IF evaluation THEN "evaluate" ELSE "log"
    /\ UNCHANGED <<request, step, logged, runs, older, begun>>

EvaluationStart ==
    /\ stage = "evaluate" /\ Idle(Main)
    /\ Announce("evaluation_start", FALSE)
    /\ stage' = "judge"
    /\ UNCHANGED <<request, step, logged, runs, older, begun>>

Scored ==
    /\ stage = "judge" /\ Idle(Main)
    /\ Announce("evaluation_complete", FALSE)
    /\ stage' = "log"
    /\ UNCHANGED <<request, step, logged, runs, older, begun>>

\* JudgeRequiredError fails the evaluation and not the run record.
JudgeMissing ==
    /\ stage = "judge" /\ Idle(Main)
    /\ Announce("error", FALSE)
    /\ stage' = "log"
    /\ UNCHANGED <<request, step, logged, runs, older, begun>>

\* The run record is written.
Log ==
    /\ stage = "log" /\ Idle(Main)
    /\ stage' = "idle" /\ logged' = TRUE
    /\ UNCHANGED <<hub, request, step, runs, older, begun, faults>>

\* The scorer or the logger raises something else.
Raises ==
    /\ stage \in {"judge", "log"} /\ Idle(Main)
    /\ stage' = "error"
    /\ UNCHANGED <<hub, request, step, logged, runs, older, begun, faults>>

\* MUTANT of Fail: the error is logged and no event sent.
FailSilent ==
    /\ stage = "error" /\ Idle(Main)
    /\ stage' = "idle"
    /\ UNCHANGED <<hub, request, step, logged, runs, older, begun, faults>>

\* The task's except clause.
Fail ==
    /\ stage = "error" /\ Idle(Main)
    /\ Announce("error", FALSE)
    /\ stage' = "idle"
    /\ UNCHANGED <<request, step, logged, runs, older, begun>>

-----------------------------------------------------------------------------
\* A step of a broadcast.
CastStep(b) == (Persist(b) \/ Send(b)) /\ UNCHANGED <<run, faults>>

CastStepFails(b) ==
    /\ faults > 0 /\ faults' = faults - 1
    /\ PersistFails(b)
    /\ UNCHANGED run

\* is_run_accessible: the owner is bound, or the record is on disk.
Accessible == bound \/ logged

Endpoint(c) == (ReadHistory(c) \/ Replay(c) \/ Disconnect(c)) /\ UNCHANGED <<run, faults>>
Arrive(c) == c \in visitors /\ Accessible /\ Connect(c) /\ UNCHANGED <<run, faults>>
Leave(c) == Drop(c) /\ UNCHANGED <<run, faults>>
SseStep(l) == SseNext(l) /\ UNCHANGED <<run, faults>>
SseArrive(l) == l \in visitors /\ Accessible /\ SseOpen(l) /\ UNCHANGED <<run, faults>>
SseDepart(l) == SseLeave(l) /\ UNCHANGED <<run, faults>>

\* A timer wakes after the run it was started by: the retention outlasts an
\* evaluation.  A later run of the same id can be under way by then.
Retain ==
    /\ \E i \in DOMAIN timer :
         \/ (stage = "idle" \/ i <= older) /\ ClearBuffer(i)
         \/ TimerEnds(i)
    /\ UNCHANGED <<run, faults>>
ClearRows == ClearStore /\ UNCHANGED <<run, faults>>

ClearRowsFail ==
    /\ faults > 0 /\ faults' = faults - 1
    /\ ClearStoreFails
    /\ UNCHANGED run

Progress ==
    \/ \E s \in Steps : StepStart(s) \/ StepEnd(s)
    \/ EngineStarts \/ EngineEnds
    \/ WorkflowEnd \/ EvaluationStart \/ Scored \/ JudgeMissing \/ Log \/ Fail

Rest == stage = "idle" /\ runs = 0 /\ AllIdle /\ UNCHANGED streamVars

StreamNext ==
    \/ Submit \/ Progress \/ StreamFails \/ EngineFails \/ Raises
    \/ \E b \in Casters : CastStep(b) \/ CastStepFails(b)
    \/ \E c \in Sockets : Arrive(c) \/ Endpoint(c) \/ Leave(c)
    \/ \E l \in Listeners : SseArrive(l) \/ SseStep(l) \/ SseDepart(l)
    \/ Retain \/ ClearRows \/ ClearRowsFail \/ Rest

StreamSpec == StreamInit /\ [][StreamNext]_streamVars

\* Coroutines that are ready run, the store and the sockets answer, timers wake.
StreamFairSpec ==
    /\ StreamSpec
    /\ WF_streamVars(Progress) /\ WF_streamVars(Retain) /\ WF_streamVars(ClearRows)
    /\ \A b \in Casters : WF_streamVars(CastStep(b))
    /\ \A c \in Sockets : WF_streamVars(Endpoint(c))
    /\ \A l \in Listeners : WF_streamVars(SseStep(l))

-----------------------------------------------------------------------------
(* Properties.                                                             *)

Events ==
    [type : {"none", "workflow_start", "step_start", "step_end", "workflow_end",
             "evaluation_start", "evaluation_complete", "error"},
     step : Casters, time : Nat, follows : BOOLEAN]

StreamTypeOK ==
    /\ buffer \in Seq(Events) /\ Len(buffer) <= MaxBuffer
    /\ store \in Seq(Events) /\ Len(store) <= MaxBuffer
    /\ cast \in [Casters -> [at : {"idle", "persist", "send"}, ev : Events,
                             to : SUBSET Sockets, dead : SUBSET Sockets]]
    /\ timer \in Seq({"asleep", "cancelled", "over", "gone"})
    /\ pending \in DOMAIN timer \cup {None} /\ clearing \in Nat
    /\ leaked \in BOOLEAN /\ bound \in BOOLEAN
    /\ ws \in [Sockets -> {"away", "joined", "replaying", "live", "gone"}]
    /\ conns \subseteq Sockets /\ open \subseteq conns
    /\ script \in [Sockets -> Seq(Events)] /\ got \in [Sockets -> SUBSET Events]
    /\ view \in [Sockets -> [Steps -> {"unknown", "running", "ended"}]]
    /\ sse \in [Listeners -> {"away", "open", "ended", "left"}]
    /\ queue \in [Listeners -> Seq(Events)]
    /\ stage \in {"idle", "start", "run", "result", "invoke", "evaluate", "judge", "log", "error"}
    /\ step \in [Steps -> {"todo", "running", "ended"}]
    /\ workflow \subseteq Steps /\ evaluation \in BOOLEAN
    /\ runs \in Nat /\ faults \in Nat
    /\ clock \in Nat /\ begun \in 0 .. clock /\ older \in 0 .. Len(timer)

\* The broadcast of the event has returned.
Sent(e) == \A b \in Casters : Idle(b) \/ cast[b].ev # e

\* A client whose replay is over has every event that was sent and that buffer and
\* store still hold: it is registered before the history is read, and an event is in
\* the history before the connections it goes to are looked up.
NoGap ==
    \A c \in open : ws[c] = "live" =>
        \A e \in Range(buffer) \cap Range(store) : Sent(e) => e \in got[c]

\* An SSE stream that ends by itself, at an event of the current run, has nothing more
\* to wait for when an evaluation was asked for: workflow_end says that one follows, and
\* the engine's own workflow_end, which does not, never gets into the queues.
VerdictDelivered ==
    [][\A l \in Listeners :
         sse[l] = "open" /\ sse'[l] = "ended" /\ evaluation /\ Head(queue[l]).time >= begun =>
             stage \in {"log", "error", "idle"}]_streamVars

\* An SSE stream that is open when the run has yet to finish ends: whatever fails,
\* some terminal event follows.
StreamEnds ==
    \A l \in Listeners :
        (sse[l] = "open" /\ stage \in {"start", "run", "result", "invoke"}) ~> (sse[l] # "open")

\* What a finished run left in memory or in the store is due to be cleared: no timer
\* is lost, although a superseded timer's callback forgets its successor's.  Rows that
\* nobody will clear are left only by a clear that failed.
ClearPending ==
    stage = "idle" /\ AllIdle /\ clearing = 0 /\ (\A i \in DOMAIN timer : timer[i] # "asleep") =>
        buffer = <<>> /\ (store = <<>> \/ leaked)

\* What a finished run left in memory is freed, and so is what it left in the store,
\* unless the store fails to clear it: _clear_store is not tried again.
Freed == (stage = "idle" /\ runs = 0) ~> (buffer = <<>> /\ (store = <<>> \/ leaked))

\* useWorkflowStream: "step state is still safely rebuilt from any events the client
\* missed"; websocket.py: clients "can reconstruct current workflow state".
StateRebuilt ==
    \A c \in open, s \in Steps :
        AllIdle /\ ws[c] = "live" /\ (\E e \in got[c] : e.type = "step_end" /\ e.step = s) =>
            view[c][s] = "ended"
=============================================================================
