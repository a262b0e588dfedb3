# Verification of the agentic runtime platform

TLA+ specifications of the execution core of this repository, the TLC runs that
check them on small instances and the TLAPS proofs of what holds for every
instance. Paths below are relative to
`agentic-workflows-v2/agentic_v2/` unless they start with `docs/`, `tests/` or
`proofs/`.

The repository already holds a Lean development (`proofs/`) about an *atomic*
scheduler: one scheduling pass and one completion at a time. Its README lists
what is outside that model: timeouts in the middle of a batch, cancelled tasks
and their cleanup, observers, the caller's cancel, the step executor, the
context, retries and the orchestrator's scheduler. Those are the subjects here.

## 1. Inventory

Everything in the runtime is single-threaded asyncio: code between two `await`s
is atomic, and at each `await` any other coroutine may run and a
`CancelledError` may be raised. So every specification takes one action per
stretch between awaits, and asks of each await what a cancel, a timeout or
another task can do there. Worker threads exist only behind `asyncio.to_thread`
(SQLite writes, file reads).

| Part | State | Operations | Interacts with | Hard behaviour | What makes it correct |
|---|---|---|---|---|---|
| DAG scheduler, `engine/dag_executor.py`, `engine/step_state.py` | `_RunState`: ready queue, in-degrees, running, tasks, results; lifecycle states | `execute`, scheduling pass, `_process_done_task`, cascade, timeout, cancel | step executor (awaits its tasks), context (shared lists), observer (`on_update`) | batches processed with awaits in between, timeout or cancel inside a batch, observers that mask cancels | order, limit, no orphans, exact cascade, honest status, one result per step |
| DAG definition, `engine/dag.py` | the graph | `validate`, adjacency, Kahn order | scheduler, orchestrator | none (pure) | accepts exactly the acyclic closed graphs |
| Step executor, `engine/step.py` | `_running_tasks`, shared by all runs | `execute`, attempts, retries, `loop_until` rounds, gate, `cancel`, `cancel_all` | scheduler, context, hooks, verification gate | two budgets in one counter, cancels at eleven awaits, same-named steps of other runs | registry exact, budgets exact, inputs fresh, result agrees with marks, termination |
| Execution context, `engine/context.py` | variables, completed and failed steps, handlers | `set`, marks, `child`, JSON checkpoints | everything that runs steps | marks become visible before the result exists | agrees with the results |
| Orchestrator, `agents/orchestrator.py` | `_subtasks`, fallback chains: survive a run | `run`, `run_adaptive`, `_execute_plan` | agents, escalation sink, `DAG.validate` | waves under `gather`, fallbacks, reuse of the agent | same promises as the DAG scheduler; runs independent of each other |
| Native engine, `adapters/native/` | `_checkpoint_tasks`, SQLite table | `execute`, `resume`, background writes | DAG scheduler (observer), worker threads | crash between success and commit, a drain shared by threads | restored state truthful, returned work durable |
| Workflow and pipeline executors, `engine/executor.py`, `engine/pipeline.py` | status, progress | `execute`, parallel groups, branches, `cancel` | step executor | fail-fast without await, global timeout | nothing left running, status honest |
| Model router, `models/smart_router.py`, `model_stats.py`, `rate_limit_tracker.py` | circuit state, counters, cooldowns, locks | selection, `execute_with_bulkhead`, recording | Redis, providers | half-open probe, late results of older eras | at most one probe, opens and closes only on evidence |
| Redis statistics, `models/redis_state.py` | shared counters | background saves, compare-and-swap, load, drain | other workers, router | lost replies, contention, a worker that crashes or shuts down in a save | no acknowledged call lost, none counted twice, none forgotten |
| WebSocket / SSE hub, `server/websocket.py`, `replay_store.py` | connections, buffers, timers | connect, replay, broadcast, delayed clear | run service | connect during a suspended broadcast, superseded timers | no gap in what a client has, streams that end, buffers that are freed |
| Run service, `server/execution.py` | run records | stream, fall back, evaluate | hub, engines | failing stream, evaluation and log; an engine that sends a terminal event of its own | the verdict is delivered, every path ends the stream |
| MCP, `integrations/mcp/` | connections, pending requests, transports | connect with backoff, tool calls, read loop, disconnect | server processes, adapters | dying servers, cancels, requests during a close, late answers | no request waits on a dead transport, disconnect ends the process, every call ends |
| Approval, auth throttle, `governance/approval.py`, `server/auth.py` | provider, failure counters | decide, lock out | tools, requests | timeout against a late decision | fails closed |
| LangGraph adapter, loader, expressions, tools, scoring, CLI | configuration and data | conversions | engines | none of their own | unit tests |

`PROJECT.json` lists the same parts with their status, and the hazards, each at
its line, with the properties that cover it.

## 2. Modules

| Module | What it is |
|---|---|
| `WorkflowRun` | abstract: what one run of a workflow promises its caller (ADR-060 guarantees 1-4, ADR-019) |
| `DagExecutor` | the scheduler, its step tasks, observers, timeout and caller |
| `DagExecutorRun` | refinement mapping `DagExecutor` -> `WorkflowRun` |
| `DagExecutorInv`, `DagExecutorProofs` | inductive invariant, proofs, and the proof of the refinement |
| `StepTask` | abstract: what the scheduler relies on while it awaits one step |
| `StepExecutor` | concurrent `execute()` calls on one step executor |
| `StepExecutorTask`, `StepExecutorProofs` | refinement mapping `StepExecutor` -> `StepTask`, proofs |
| `DagValidate` | pure: the cycle search, the missing-dependency check and the Kahn order of `engine/dag.py`, with the reference definitions they are checked against |
| `Orchestrator` | plans, waves and fallback chains over several runs of one agent |
| `OrchestratorRun` | refinement mapping `Orchestrator` -> `WorkflowRun` |
| `NativeEngine` | executions, resumes, checkpoint writes, crashes |
| `PipelineExecutor` | one `WorkflowExecutor.execute()` on a pipeline or a list, with its step tasks, listeners, `cancel()`, timeout and caller |
| `ModelRouter` | requests through selection, bulkhead, circuit breaker and fallback, for chats, streams and forced calls |
| `RedisStats` | the counters several workers' routers share through Redis |
| `EventHub` | connections, replay store, SSE queues, retention timers, and the browser hook at the other end |
| `RunStream` | composes `EventHub` with `_run_and_evaluate`, which broadcasts a run's events |
| `McpClient` | JSON-RPC requests on a transport, its read loop and its close |
| `McpManager` | composes `McpClient` with the connection manager and tool calls |
| `PipelineExecutorProofs`, `RedisStatsProofs`, `McpManagerProofs`, `ModelRouterProofs` | inductive invariants and proofs for the modules they are named after |
| `RunServiceProofs` | the same for `NativeEngine` and `RunStream`: what a submitted run stores and what it broadcasts |
| `OrchestratorProofs` | proofs for `Orchestrator`, for the loops of `DagValidate` and for the refinement of `OrchestratorRun` |
| `MC*` | instances for TLC |

The two layers meet at `StepTask`: the task actions of `DagExecutor` are this
protocol, and `StepExecutor` is shown to follow it, so the scheduler is verified
against the step executor the code really has. The two schedulers meet at
`WorkflowRun`, which both implement.

### DagExecutor

Variables carry the names of `_RunState`'s fields. `pc` is the await the
scheduler is suspended in: `start` (workflow_start event), `wait`
(`FIRST_COMPLETED`), `mark` (the context's handlers in `_mark_context_failed`),
`notify` (step_end event), `timeout` and `abort` (the `gather` of
`_cancel_in_flight`), `end` (workflow_end event). `task[s]` is the progress of
`_run_step`; `outcome[s]` what the task returned, `raised` included.
`completed` and `skipped` are always assigned together with `results` and are
derived from it. `Wake` and `ProcessNext` are `_process_done_task` up to its
first await, everything recorded, cascaded and unlocked included. `Schedule`
contains the deadlock branch; `CascadeExact` and `HonestStatus` show that it is
never taken. The initial states are all acyclic graphs on `Step` with a fresh
context (resumed contexts are `NativeEngine`'s subject).

### StepExecutor

`pc[c]` is the await a call is in: `start` (STEP_START handlers), `hooks`,
`prepare` (first `_prepare_inputs`), `body`, `post` (output mapping, post-hooks,
gate), `complete` (handlers of the completion mark), `refresh`
(`_prepare_inputs` of a later round), `backoff`, `errhooks`, `failing` (handlers
of the failure mark). The step has every feature and every condition may have
either value. Output and input contents are counted: `outputs` is how many
results were mapped, `inputs` how many of them the current child context saw.
`CancelRecorded` is a cancel inside the `try` of `_run_attempt`; it stands for
cancels of the caller and for `cancel()` / `cancel_all()`, which cancel the body.
`CancelEscapes` is a cancel at any other await.

### Orchestrator

One agent that is run up to `MaxRuns` times; the entry point of each run, `run()`
or `run_adaptive()`, is chosen freely (`adaptive`). `FirstWave` and `NextWave`
are whole iterations of the loop of `_execute_plan`: record, skip pass, ready
list, batch. `left[s]` counts the candidate agents still to try. `NextRun` is a
plan of any ids and dependencies, invalid ones included; an invalid plan stays
registered, as in the code.

Whether a plan is accepted is decided by `DagValidate`, which runs the
three-colour search of `_detect_cycles` with its stack, its iterators and the
path it raises. `PlanValidated` compares the verdict with `Acyclic` (every set of
subtasks has one that depends on none of them), the raised path with `IsCycle`,
and the Kahn order with `IsTopological`, on every plan the run reaches.

### NativeEngine

Several threads of execution on one engine, each of a DAG or of a Pipeline
(`flow`). `StepEnds` is a successful `step_end` of a DAG reaching the wrapped
observer; a Pipeline's success (`PipelineStep`) never reaches it. `Scheduled` is
the `finally` that schedules the checkpoint write; `LeaveDispatch` is the `finally` of `execute()`,
which gathers all tasks of the engine. A write is `queued` and `writing` on a
worker thread; cancelling its task withdraws a queued write, and detaches a
running one, which may still commit after `execute()` is over (`DetachedEnds`).
`cut` remembers the threads that lost a task this way, so that `WritesExact` can
say that nothing else does it. `Crash` loses everything but the table. A row says
that a step succeeded, not with which output: a detached write that commits late
can replace the row of a newer execution by an older output.

### PipelineExecutor

The workflow is a sequence of elements: steps, groups (`all` with `gather`,
`failfast` with `wait`) and conditions with two branches. `pc` is the await of
the executor: `start` and `ending` (listeners), `waiting` (a step or a group),
`record`, `checkpoint`, `error`, `cancelling`. `task[s]` is the task of a step,
which the group's semaphore may hold back; tasks that a failing group abandons
go on by themselves. `told` counts the end events of a run.

### ModelRouter

A caller chooses a model (tiers, circuits, cooldowns, eviction), waits for the
provider's bulkhead, may have to probe a half-open circuit under the provider's
lock, calls, and records. `KindsOf` says which entry points a caller uses: a
chat or completion retries on the next model, a stream and a forced call do not.
`elapsed` and `cooling` are the two clocks, which may run out at any time.

### RedisStats

`local` is a counter in a worker's memory, `base` the value at its last
acknowledged save, `key` what Redis holds. The four counters of a model are
merged alike, so one stands for them. `save[w]` is the task that holds the save
lock: for each model in dictionary order it reads, merges and swaps, up to
`MaxRetries` times. Redis may refuse a command, apply it and lose the reply, or
drop the connection for good, since nothing in the server calls `reconnect()`.
The `WATCH` variant of the swap is unreachable: the script is loaded whenever
the store is connected.

### EventHub and RunStream

An event is a kind, a step, a time and whether it says that an evaluation
follows (`evaluation_enabled`): the browser hook tells events apart by
their JSON, timestamp included, so the same step of a second run with the same id
is a new event. `cast[b]` is one `broadcast()`, suspended in the store or in a
socket's send, with the sockets it has still to visit (in any order) and those it
found dead; the main coroutine and each concurrent step have one. A socket's endpoint accepts, reads the
history and sends it; `view` is what the browser hook made of what it received,
duplicates dropped. `timer` is the sequence of retention timers ever started, the
dictionary of pending ones beside it, so that a done-callback can remove the
wrong entry as in the code. `clearing` counts the tasks that clear the store,
which nobody awaits; one may fail (`ClearStoreFails`), and `leaked` remembers
whether the last one did. `RunStream` adds the run: `stage` follows
`_run_and_evaluate`, and each `Raises`, `JudgeMissing`, `StreamFails` or
`EngineFails` is an exception path. The native engine announces the workflow's
start and end by itself; `Forwarded` is the service's filter, which lets the
second `workflow_start` through and holds the engine's `workflow_end` back, since
it has no `evaluation_enabled` and would end every stream before the verdict.

### McpClient and McpManager

Both transports have one shape: `transport`, `peer`, and whether the read loop
runs. A request is an entry in `pending`, a `future` and a coroutine (`req`), and
the three part ways: an answer pops the entry and resolves the future before the
coroutine wakes, a timeout may hit in between, a cancel from outside leaves the
entry. `call[k]` is one call of the manager, `lock` its holder. The client that
call `k` creates is client `k`, and the handshake is the request of that name.

## 3. Runs

| Run | Instance | States | Shows |
|---|---|---|---|
| `dag_executor` | all acyclic graphs of 3 steps, 2 in flight, timeout, masking observer, bodies that hang | 332,601 | `StartSafe`, `OutcomeSafe`, `EveryStartEnds`; `ImplementsRun`: `WorkflowRun` is implemented; `RunEnds`: the run ends when bodies end or the deadline passes |
| `step_executor` | 2 calls, 2 retries, 3 rounds | | `RunningTasksExact` (registry), `AttemptsExact` (budgets, fresh inputs); `ImplementsTask`: every call follows `StepTask`; it ends |
| `orchestrator` | plans over 3 subtasks, chains of 2 agents, 2 runs of one agent, each adaptive or not | 91,540 | `PlanValidated` (validation accepts exactly the acyclic plans, raises real cycles, orders topologically), `RunSafe` (types, no early start, no orphan, honest verdict, only the plan's subtasks), `SkipsExact`; the first run implements `WorkflowRun`; an adaptive run is independent of earlier ones; every run ends |
| `native_safety` | 2 threads with a DAG or a Pipeline, 1 step, a crash, 2 resumes | 294,297 | `RestoreTruthful`, `WritesExact` (no success of a DAG without a write; none is lost unlogged or outlives its execution but by a cancelled drain), `DrainEnds` |
| `pipeline_executor` | three pipelines of 4 steps and a list, 2 cancels, timeout | 106,648 | `RunExact` (order of elements, `cancel()` stops the loop, honest report, end announced once, fresh checkpoints), `NoRunaway` (nothing left running without a named reason), `DeadlineStops`, termination |
| `model_router` | 1 model, 3 callers, 2 slots, threshold and successes required 2 | 39,938 | `BreakerExact` (one probe at a time, evidence of the right phase, exact queue), `OpenHolds` (no way from open to closed but through half-open), `KeepsMoving` (queue, recovery) |
| `redis_stats` | 2 workers, 2 models, 3 calls, 2 tries, 1 fault, 1 shutdown | 366,225 | `CountsExact` (no acknowledged call lost, double counts only after a lost reply, no recorded call forgotten), `FlushedOnClose`, `SaveEnds` |
| `run_stream` | six scenarios: each adapter with each kind of client, a store that refuses an event or a clear, a run id used twice; a buffer of 3 | 415,376 | `NoGap` (no event between replay and live is missed), `VerdictDelivered` (a stream that ends has its verdict), `StreamEnds`, `ClearPending` (what a run left has a timer, unless a clear failed), `Freed` (memory, and the store unless its clear fails) |
| `mcp` | 3 calls for 2 servers, 1 tool call, 1 fault | 206,022 | `RequestsExact` (no request waits on a dead transport, no stray pending entry), `Owned`, `ConnectionsKept` (disconnect kills, 401 respected), `AllEnd` (calls and tool calls) |

A run's property is often a conjunction: properties that share a hazard, each
defined and explained on its own in the module, are checked under one name
(`StartSafe` is `StartAfterDependencies`, `BoundedParallelism` and
`UnlockedStepMayRun`). `pipeline_executor`, `redis_stats`, `run_stream` and `mcp`
also check their type invariant, `orchestrator` as part of `RunSafe`; that of the
other modules is left to the proofs (section 4).

Bounds. Three steps are the smallest graphs with a fork, a join, a chain and a
chain beside a parallel step, and two in flight leave a ready step waiting for
room; the proofs cover every size. Two calls are enough for the registry,
because a call touches only its own key. Two retries and three rounds allow a
retry in any round and one more round after it. Two runs or resumes are enough
for state that survives one. Three callers are one that probes, one that queues
behind it and one whose call is older than the circuit's state; a second model
multiplies the states by a hundred and the only coupling between models, the
bulkhead of a provider, is exercised by callers of one. Two workers are the
smallest conflict, two tries make one conflict harmless and two exhaust the
retries; a second model appears while the first is saved. A buffer of three is
shorter than a run's events, so that it overflows; the run id that is used again
has a listener in one scenario and a failing store in another; the proofs cover
their combination. Three manager calls allow a connection, its replacement or a second server, and a disconnect or reuse; the
instance with two faults (1,078,506 states) was checked for safety as well.
Symmetry is not used, since the runs check liveness.

Fairness. The event loop runs every callback that is ready: weak fairness of
the coroutines' actions. Bodies, hooks, handlers, agents, providers, SQLite,
Redis, replay stores and sockets are assumed to answer, if only with an error;
timers fire. In `dag_executor` a body may hang and only a cancelled one ends (a
body that suppresses its cancel delays the run for ever, as the docstring of
`_cancel_in_flight` says). `Recovers` also needs new requests, because nobody
probes a circuit on his own, and states as its antecedent that calls stop
failing. In `run_stream` the retention is assumed to outlast an evaluation
(`Retain`). The failing halves of the store's operations have no fairness: `Freed`
needs only that a clear which does not fail ends. In `mcp` the handshake, a short message, is assumed to fit the
pipe's buffer; a tool call may hang in `drain()` and is ended by its deadline;
a signalled process ends, at the latest by SIGKILL. No fairness is assumed of
cancels, crashes, answers of MCP servers, retries' luck or resumes.

Every property of a passing run has a mutant in `PROJECT.json`: an operator in
the same module, commented as a mutant, that changes one definition as a
plausible bug would and makes the property fail.

### Disagreements between code and documentation

| Run | Disagreement |
|---|---|
| `native_resume` | `resume()` runs checkpointed steps again; its docstring, and a test with a mocked step executor, say they are skipped |
| `router_stream` | a stream that meets another caller's probe lets `CircuitResolvedError` out, and it is recorded as a failure that reopens the circuit; the class says it never surfaces to end-callers |
| `stream_rebuild` | a socket is registered before its history is read: an event sent live in between is replayed behind older events and dropped as a duplicate, so a finished step is shown as running; hub and hook say state is rebuilt |

More are visible in the models, without a run of their own. Schedulers:

- `_handle_timeout` records FAILED and leaves the step in `ctx.completed_steps`;
  `_mark_context_failed` says context and result must agree;
- steps failed by the timeout send no `step_end`, though `execute()` of the DAG
  executor says that `on_update` gets every lifecycle event (`EveryStartEnds` is
  stated up to the timeout);
- an observer that catches the timeout's cancel and returns loses the timeout
  (`deadline = "lost"` under `ObserverSwallows`); `_notify` says a masked cancel
  still propagates;
- a cancel in the retry backoff or the error hooks leaves a step without a
  result (`CancelEscapes`); `_handle_cancelled` says a cancelled step becomes a
  recorded FAILED result. `StepTask` allows it, and the scheduler copes with it;
- a second `run()` of an orchestrator skips subtasks for failures of the first;
- cancelling one thread's `execute()` of the native engine while it waits for the
  checkpoint writes drops queued writes of every thread, without a log entry (the
  done-callback catches `Exception`, not `CancelledError`), and a running one may
  commit after `execute()` has ended, so that a `resume()` right after it misses
  the row;
- a Pipeline is never checkpointed: `_dispatch` passes `on_update=` to
  `PipelineExecutor.execute()`, whose parameter is `_on_update`, and `**kwargs`
  swallows it; the docstring of `NativeEngine.execute()` says that each completed
  step is persisted.

Pipelines (`engine/pipeline.py`, `engine/executor.py`):

- after the global timeout, "Wall-clock cap for the entire workflow", a queued
  step of an abandoned group can start, and without `fail_fast` the pipeline
  goes on after the step that turned the cancel into a result;
- a `cancel()` during the listeners of WORKFLOW_START is forgotten when the
  pipeline resets its flag;
- a step of a group that raises leaves the others running, uncancelled.

Router and shared statistics (`models/`):

- a call that chose its model earlier, or that names it, can reach a circuit
  that has opened since; a late success can un-evict a model;
- a reply lost after the swap was applied makes the next save count the same
  calls again (`twice`);
- a call recorded during the drain leaves a task behind; the docstring says that
  `_background_tasks` is empty after it;
- after one connection error a worker's counters stay local.

Hub (`server/websocket.py`, `server/routes/runs.py`):

- the done-callback of a cancelled clear timer removes its successor's entry, so
  the next terminal event stacks a timer instead of replacing it;
- the timer of a finished run clears the buffer and owner of a live run that
  uses its id again;
- a clear of the replay store that fails, or finds Redis disconnected, is logged
  at most and never tried again: the rows stay until the next clear of the id or
  until they expire by age, and are replayed to the clients of a run that uses the
  id again;
- with the native adapter `workflow_start` is broadcast twice;
- an SSE client that registers after the terminal event gets keepalives for ever.

MCP (`integrations/mcp/`):

- a server's death does not change the manager's CONNECTED, so `connect()`, which
  promises a "Connected protocol client", returns the dead one until somebody
  disconnects;
- a retry starts a transport that is already started and fails: the backoff never
  leads to a second handshake. `McpTimeoutError` is not a `TimeoutError`, so the
  branch for timeouts is never taken;
- a read loop that fails while its process lives (a line beyond the stream's
  limit) marks the transport closed, and `close()` then leaves the process;
- a failed or forced-out connection is replaced without being closed;
- connections are memoised by name, not, as the class says, by signature.

## 4. Proofs

Each theorem holds for every value of its module's constants: every set of steps,
workers, models, callers, names or tools, every limit, every number of calls,
retries, runs, resumes, faults and crashes. Every module of proofs defines an
invariant (`IInv`, `StreamInv`), proves that each action preserves it and derives the properties
of the runs from it.

| Module | Properties of runs that are proved | Inductive invariant |
|---|---|---|
| `DagExecutorProofs` | `StartSafe`, `OutcomeSafe`, `EveryStartEnds`, `ImplementsRun` (and `TypeOK`, `RecordedOnce`) | `DagExecutorInv`, `Announced` |
| `StepExecutorProofs` | `RunningTasksExact`, `AttemptsExact`, `ImplementsTask` (and `TypeOK`, `ResultMatchesContext`) | marks follow the status |
| `OrchestratorProofs` | `RunSafe`, `SkipsExact`, `PlanValidated`, `ImplementsRun` | `Gathered`, `Reported`, `AfterSuccess`, `Fresh`, `FirstRun` |
| `PipelineExecutorProofs` | `TypeOK`, `RunExact`, `NoRunaway`, `DeadlineStops` | `Order`, `Why`, `Cut`, `Stops`, `Told`, `Counter` |
| `RunServiceProofs` | `RestoreTruthful`, `WritesExact` (and `TypeOK` of `NativeEngine`) | `Backed`, `Drains`, `Accounted` |
| | `StreamTypeOK`, `NoGap`, `ClearPending`, `VerdictDelivered` | `Arrived`, `Reaches`, `Verdicts`, `Retained` |
| `ModelRouterProofs` | `BreakerExact`, `OpenHolds` (and `TypeOK`) | `Breaker`, `HasModel`, `Slots`, `Waiting` |
| `RedisStatsProofs` | `TypeOK`, `CountsExact`, `FlushedOnClose` | `Counted`, `Sound`, `LastTask`, `LastDrained` |
| `McpManagerProofs` | `TypeOK`, `RequestsExact`, `Owned`, `ConnectionsKept` | `ClientInv`, `Life`, `Registered`, `Disconnecting`, `Owned` |

### Schedulers

`DagExecutorProofs`. None of the properties is inductive alone. The limit is
kept on `running`, not on live tasks, so `RunningExact` ties `running` to the
tasks awaited and the batch being processed. Starting after dependencies rests
on a counter: `ReadyExact` says `in_degree` is the number of dependencies not
yet cleared, and that the queue holds exactly the unstarted steps at zero.
Progress of the loop (the dead deadlock branch) needs that an unfinished step
whose dependencies are all finished is in the queue (`SomethingReady`, from
acyclicity), and that a blocked step is skipped at once: lemma
`CascadeUnstarted` shows that the least closed set `_cascade_skip` computes only
holds steps never started. `ContextExact` follows a step's marks through its
task, since a mark is visible before the result that explains it. `Announced`
follows a `step_end` event through the batch: a step of the batch is announced,
is the one being announced, or is still to be processed.

The same module proves `Spec => ImplementsRun`: with `IInv`, each action
maps to one step of `WorkflowRun` or to a stutter; a failure and its cascade are
one `Settle`, a timeout is one `Expire`.

`StepExecutorProofs`: a registered body is one that runs; `attempt` is the errors
retried plus one; marks follow the status.

`PipelineExecutorProofs`. `Order` follows the loop. Only elements up to the
current one have started tasks; of the ones behind it a task can only be live if
it was cancelled and the workflow goes on after failures. What remains of the current arm
begins with the batch that is awaited; the batches before it were collected
without a failure, and nobody has cancelled a member of a fail-fast group that is
still awaited. The results recorded belong to the elements behind the loop, and
to all of them while nothing has failed, so a reported success is one. `Why` says
that a cancel still to be delivered comes from the timeout or from the caller,
which is what `NoRunaway` needs. `Cut` says that after the timeout a fail-fast
workflow ends or awaits something that can no longer succeed, from which
`DeadlineStops` follows. `Stops` limits the loop to the element at which the flag
of `cancel()` was seen, `Told` says that no listener hears of the end before it,
and `Counter` says that the checkpoint counter is the number of results that no
checkpoint holds.

`OrchestratorProofs`. `Gathered` says that what is in flight belongs to the wave
that is awaited, and the wave to the plan, so nothing outlives its `gather`;
`Reported` what a coroutine leaves in a subtask's status, `AfterSuccess` that the
dependencies of a started subtask have succeeded and stay so, and `Fresh` that a
run with its own plan has no status that it did not produce. For the refinement,
`FirstRun` says that the first run's plan is `FirstPlan` and was accepted, and
`View` is the state of `WorkflowRun` that its registers stand for. A subtask
counts as blocked from the failure on, before the skip pass of the next wave
finds it: lemmas `SkipOfFacts` and `SkipOfLeast` about the least closed set show
that both agree.

The same module proves what `DAG.validate()` and `get_execution_order()` compute
on every finite graph. Their loops are recursive functions; induction is done by
the least counterexample, over the well-founded order of the naturals, once and
for all in the lemma `Iteration`. The invariant of the three-colour search is
that the gray steps are the stack and form a path, that the black steps are closed
under dependents and have no cycle, and that an iterator still holds what its step
has not looked at (`Searching`). A back edge closes the path to a cycle; a search
that ends without one leaves every step black. It ends because each iteration
lowers `Work`: the dependents to look at and the steps to enter and to leave.
Kahn's loop keeps a topological order, whose missing dependencies the degrees
count (`KahnInv`).

### Engine, event stream, router, shared counters, MCP

`RunServiceProofs`, the engine. `Backed`: whatever speaks of a step, in memory, in a worker
or in the table, speaks of one that succeeded in that thread. `Drains`: a thread
in its drain waits for every write of its own that is in flight, and a write
without a task belongs to a thread in `cut`. `Accounted`: a success of a DAG is
being reported, being written, written, refused or dropped.

The event stream (`StreamInv`). `Reaches` is `NoGap` before everything has
arrived: once a client has read the history, an event that buffer and store hold
is with the client, in the rest of its replay, or in a broadcast that has still to
look up the connections or to visit this one. It needs `Arrived`, because a
broadcast drops the sockets it found dead and a working one must not be among
them. It rests on two orders in the code: `broadcast()` buffers and stores before
it looks up the connections, and the endpoint registers its socket before it reads
the history. `Verdicts` says of every event that is queued or
under way what `VerdictDelivered` says of the one that ends the stream: it is of an
earlier run, it says that an evaluation follows, or the evaluation is behind it.
It rests on the flag of the service's `workflow_end` and on the filter
(`Forwarded`). `Retained` follows the terminal event
from its broadcast to the timer it starts. While a run is under way only timers of
older runs wake, so its own (`AsleepAfter(older)`) is there when it ends; the entry
that a superseded timer's callback removes is none of the reasons. Once the timer
has woken, the rows are gone, a task is clearing them, or the last such task failed.

`ModelRouterProofs`. `Slots`: probers are inside the bulkhead, one per model, and
no slot is given twice; `Waiting`: a semaphore's queue holds its waiters, each
once. The evidence for opening and closing (`FreshEvidence`) is inductive with
the types of the breaker alone, so the proof does breaker and callers apart.

`RedisStatsProofs`. `Counted` says that a key is what the workers have ticked off,
as the ghost variable `acked` counts it, and at least that once an applied swap
lost its reply. The other parts are about one worker each. A snapshot lies between the
baseline and the counter (`Sound`); the last task of a worker saves everything
or says that it did not, because whatever is counted meanwhile creates another
task (`LastTask`); the same of the last task `aclose()` waits for, with
the counts that were due when it was called (`LastDrained`).

`McpManagerProofs`. Nothing is pending on a transport that is not open, which
makes `RequestsExact` inductive for a client alone (`ClientInv`). `Life` and
`Registered` say which clients the dictionary can hold, each under one name and
none that was disconnected; `Disconnecting` what `disconnect_all()` has done half
way through. The lock's part of `TypeOK` makes calls between acquiring and
releasing it exclusive, on which all of them rest.

### Assumptions and what the proofs changed

Assumptions are the `ASSUME`s of the modules, all evaluated by TLC: sets of steps,
callers and names are finite, limits are positive, a key's marks for "absent" and
"corrupt" are not counters, one run executes a step once at a time. A workflow of
`PipelineExecutor` is one that the validation lets through; its steps are told
apart by the place where they stand (`PlacedOnce`), so a definition that is used
twice is two steps.

Proving found four places where a model said something else than was meant. A
`CASE` of `ModelRouter` (recording a success) had overlapping guards, of which
TLC takes the first and the semantics leaves open. In `Orchestrator` a set
difference after `SUBSET` needed parentheses. The mapping of `OrchestratorRun`
was right only for a first plan that holds every subtask; it now maps to a
`WorkflowRun` of the steps of the plan. The events of `RunStream` had no time, which
made those of two runs with one id the same event, and `VerdictDelivered`, which is
a promise about the events of the current run, was stated of all: a stream that is
behind can still be ended by the last event of the run before.

### Only model-checked

Liveness (`RunEnds`, `KeepsMoving`, `SaveEnds`, `DrainEnds`, `StreamEnds`, `Freed`,
`AllEnd`, `Termination` and the like), since fairness is out of the prover's reach.
Every invariant and every action property of a passing run is proved.

## 5. Not modelled

Contents of variables, prompts, results and messages; error texts, logs and
traces; the length of time (an event's timestamp is its number); backoff lengths (a sleep is an await of any length). The order of
the ready queue and of plans, of servers in `disconnect_all()` and of the sockets of one
broadcast, is abstracted
to an arbitrary choice. An observer that calls `uncancel()` is excluded, as
`_notify` excludes it. Real-time bounds are not checked: a timeout may fire at
any await.

Of the modelled parts: variables and JSON
checkpoints of the context; tier budgets and cost tracking of the router;
authentication of sockets, expiry of stored events by age and a second
submission of a run id before the first has ended; MCP notifications
and discovery caches (a `list_changed` between an answer and its storing leaves
an old list in the cache).

Whole parts: approval and escalation (a decision or a timeout, no state between
calls), the authentication throttle, the LangGraph adapter (its scheduling is the
library's), loader and expressions, agents and tools (control decided by model
output), scoring, evaluation harnesses and CLI (offline data).

## 6. Plan

The runs are kept to a dozen, one per question, so that all of them finish in a
few minutes.

1. `merge_step_view` and JSON checkpoints of the context, the auth throttle.
