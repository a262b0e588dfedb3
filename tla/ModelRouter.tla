---------------------------- MODULE ModelRouter ------------------------------
(***************************************************************************)
(* SmartModelRouter with the callers that share it: model selection over   *)
(* circuit breakers, cooldowns and evictions, the per-provider bulkhead,   *)
(* the half-open probe, and the recording of what a call did.              *)
(*                                                                         *)
(* A caller is a coroutine that makes one request after another.  Its kind *)
(* is the code that drives the request: "gated" (call_with_fallback and    *)
(* the chat of the provider adapter, which shed load), "client" (the       *)
(* client's run_with_fallback, which queues at the bulkhead), "forced"     *)
(* (the same with a model named by the caller, which nothing checks) or    *)
(* "stream" (one attempt, chosen before the prompt is sanitised).          *)
(*                                                                         *)
(* Time is abstract: a recovery timeout or a cooldown ends at any moment   *)
(* after it began.  Models stands for the chains of all tiers; the health  *)
(* score that orders candidates is left open.                              *)
(***************************************************************************)
EXTENDS Naturals, FiniteSets, SequencesExt

CONSTANTS
    Models,       \* models of all chains
    Callers,      \* coroutines that share the router
    KindsOf,      \* [Callers -> kinds of request the caller makes]
    Provider,     \* [Models -> provider]: the prefix of a model's name
    Limit,        \* slots of a provider's bulkhead
    Threshold,    \* ModelStats._failure_threshold
    Required,     \* ModelStats._half_open_success_required
    MaxRetries,   \* models a request may try
    Nobody,       \* holder of a free lock
    NoModel       \* model of a caller that has none

ASSUME RouterAssumption ==
    /\ Limit \in Nat \ {0} /\ Threshold \in Nat \ {0}
    /\ Required \in Nat \ {0} /\ MaxRetries \in Nat \ {0}
    /\ KindsOf \in [Callers -> SUBSET {"gated", "client", "forced", "stream"}]
    /\ IsFiniteSet(Callers) /\ Nobody \notin Callers /\ NoModel \notin Models

Providers == {Provider[m] : m \in Models}
Kinds == {"gated", "client", "forced", "stream"}

VARIABLES
    circuit,      \* [Models -> state of the circuit breaker]
    fails,        \* [Models -> _consecutive_failures, capped at the threshold]
    wins,         \* [Models -> _half_open_successes]
    elapsed,      \* open models whose recovery timeout has passed
    cooling,      \* models in cooldown
    evicted,      \* _unavailable_models
    probing,      \* models with probe_in_progress
    lock,         \* [Providers -> holder of the probe lock]
    queue,        \* [Providers -> callers waiting for the semaphore]
    pc,           \* [Callers -> where the request is suspended]
    kind,         \* [Callers -> kind of the request]
    model,        \* [Callers -> model being tried]
    tried,        \* [Callers -> models tried by the request]
    probe         \* callers whose provider call is a half-open probe

breaker == <<circuit, fails, wins, elapsed, cooling, evicted>>
guards == <<probing, lock, queue, probe>>
request == <<kind, model, tried>>
vars == <<breaker, guards, pc, request>>

\* Callers that hold a slot of the bulkhead.
Inside(p) == {c \in Callers : pc[c] = "calling" /\ Provider[model[c]] = p}
SemaphoreLocked(p) == Cardinality(Inside(p)) >= Limit \/ queue[p] # <<>>

Init ==
    /\ circuit = [m \in Models |-> "closed"]
    /\ fails = [m \in Models |-> 0] /\ wins = [m \in Models |-> 0]
    /\ elapsed = {} /\ cooling = {} /\ evicted = {} /\ probing = {}
    /\ lock = [p \in Providers |-> Nobody] /\ queue = [p \in Providers |-> <<>>]
    /\ pc = [c \in Callers |-> "idle"]
    /\ kind = [c \in Callers |-> "gated"]
    /\ model = [c \in Callers |-> NoModel]
    /\ tried = [c \in Callers |-> {}]
    /\ probe = {}

-----------------------------------------------------------------------------
(* ModelStats: what a recorded call does to the breaker.                   *)

\* A circuit whose recovery timeout has passed turns half-open when it is checked.
AfterCheck(m) ==
    IF m \notin evicted /\ circuit[m] = "open" /\ m \in elapsed THEN "half_open" ELSE circuit[m]

\* check_circuit(): the caller that turns the circuit half-open passes, others only
\* while no probe is in flight.
CircuitAllows(m) ==
    \/ circuit[m] = "closed"
    \/ circuit[m] = "open" /\ m \in elapsed
    \/ circuit[m] = "half_open" /\ m \notin probing

\* MUTANT of RecordSuccess: any success closes the circuit.
RecordSuccessCloses(m) ==
    /\ fails' = [fails EXCEPT ![m] = 0]
    /\ circuit' = [circuit EXCEPT ![m] = "closed"]
    /\ wins' = [wins EXCEPT ![m] = 0]
    /\ evicted' = evicted \ {m}
    /\ elapsed' = elapsed \ {m} /\ UNCHANGED cooling

\* MUTANT of RecordSuccess: successes of a half-open circuit are not counted.
RecordSuccessUncounted(m) ==
    /\ fails' = [fails EXCEPT ![m] = 0]
    /\ evicted' = evicted \ {m}
    /\ UNCHANGED <<circuit, wins, elapsed, cooling>>

RecordSuccess(m) ==
    LET closes == circuit[m] = "half_open" /\ wins[m] + 1 >= Required
    IN  /\ fails' = [fails EXCEPT ![m] = 0]
        /\ circuit' = [circuit EXCEPT ![m] = IF closes THEN "closed" ELSE @]
        /\ wins' = [wins EXCEPT ![m] = IF closes THEN 0 ELSE IF circuit[m] = "half_open" THEN @ + 1 ELSE @]
        /\ evicted' = evicted \ {m}
        /\ UNCHANGED <<elapsed, cooling>>

\* A failure, a timeout or a rate limit; a permanent error also evicts the model.
RecordFailure(m, permanent) ==
    LET n == IF fails[m] < Threshold THEN fails[m] + 1 ELSE Threshold
    IN  /\ fails' = [fails EXCEPT ![m] = n]
        /\ circuit' = [circuit EXCEPT ![m] =
                          IF @ = "half_open" \/ n >= Threshold THEN "open" ELSE @]
        /\ wins' = [wins EXCEPT ![m] = IF circuit[m] = "half_open" THEN 0 ELSE @]
        /\ elapsed' = elapsed \ {m}
        /\ cooling' = cooling \cup {m}
        /\ evicted' = IF permanent THEN evicted \cup {m} ELSE evicted

RecoveryElapses(m) ==
    /\ circuit[m] = "open" /\ m \notin elapsed
    /\ elapsed' = elapsed \cup {m}
    /\ UNCHANGED <<circuit, fails, wins, cooling, evicted, guards, pc, request>>

CooldownEnds(m) ==
    /\ m \in cooling
    /\ cooling' = cooling \ {m}
    /\ UNCHANGED <<circuit, fails, wins, elapsed, evicted, guards, pc, request>>

-----------------------------------------------------------------------------
(* Requests.                                                               *)

Candidates == {m \in Models : m \notin evicted /\ CircuitAllows(m) /\ m \notin cooling}

\* The request is over: it returned, raised or was cancelled.
Done(c) ==
    /\ pc' = [pc EXCEPT ![c] = "idle"]
    /\ model' = [model EXCEPT ![c] = NoModel]
    /\ tried' = [tried EXCEPT ![c] = {}]
    /\ kind' = [kind EXCEPT ![c] = "gated"]

\* The loop takes its next candidate at once, without a suspension.
Again(c) ==
    /\ pc' = [pc EXCEPT ![c] = "choosing"]
    /\ model' = [model EXCEPT ![c] = NoModel]
    /\ UNCHANGED <<kind, tried>>

NewRequest(c) ==
    /\ pc[c] = "idle"
    /\ \E k \in KindsOf[c] : kind' = [kind EXCEPT ![c] = k]
    /\ pc' = [pc EXCEPT ![c] = "choosing"]
    /\ UNCHANGED <<breaker, guards, model, tried>>

\* execute_with_bulkhead() with the semaphore in hand: a half-open circuit gives the
\* call to one prober, any other state lets it through.
Admit(c, m, state) ==
    /\ pc' = [pc EXCEPT ![c] = "calling"]
    /\ model' = [model EXCEPT ![c] = m]
    /\ IF state = "half_open"
         THEN /\ lock[Provider[m]] = Nobody
              /\ lock' = [lock EXCEPT ![Provider[m]] = c]
              /\ probing' = probing \cup {m} /\ probe' = probe \cup {c}
         ELSE UNCHANGED <<lock, probing, probe>>

\* The lock is taken: the caller leaves the bulkhead with CircuitResolvedError.
Turned(m, state) == state = "half_open" /\ lock[Provider[m]] # Nobody

\* _is_model_ready_for_attempt()
Ready(m) == ~Turned(m, AfterCheck(m)) /\ ~SemaphoreLocked(Provider[m])

Checked ==
    /\ circuit' = [m \in Models |-> AfterCheck(m)]
    /\ elapsed' = {m \in elapsed : AfterCheck(m) = "open"}

\* A stream that is turned away records a failure of the model and passes the
\* CircuitResolvedError on; the other loops go to their next candidate.
TurnedAway(c, m) ==
    IF kind[c] = "stream"
      THEN /\ RecordFailure(m, FALSE)
           /\ Done(c)
      ELSE /\ Again(c)
           /\ UNCHANGED breaker

\* The request reaches the bulkhead with a model it chose earlier.
AtBulkhead(c, m) ==
    IF Turned(m, circuit[m])
      THEN TurnedAway(c, m) /\ UNCHANGED <<lock, probing, probe>>
      ELSE /\ Admit(c, m, circuit[m])
           /\ UNCHANGED <<breaker, kind, tried>>

Enqueue(c, m) ==
    /\ queue' = [queue EXCEPT ![Provider[m]] = Append(@, c)]
    /\ pc' = [pc EXCEPT ![c] = "queued"]
    /\ model' = [model EXCEPT ![c] = m]

\* The loop asks for a model and tries it as far as it gets without a suspension.
Choose(c, m) ==
    /\ pc[c] = "choosing" /\ kind[c] # "forced"
    /\ Cardinality(tried[c]) < MaxRetries
    /\ m \in Candidates \ tried[c]
    /\ Checked /\ UNCHANGED <<fails, wins, cooling, evicted, kind>>
    /\ tried' = [tried EXCEPT ![c] = @ \cup {m}]
    /\ \/ /\ kind[c] = "gated" /\ Ready(m)
          /\ Admit(c, m, AfterCheck(m)) /\ UNCHANGED queue
       \/ /\ kind[c] = "gated" /\ ~Ready(m)
          /\ UNCHANGED <<pc, model, guards>>
       \/ /\ kind[c] = "client" /\ SemaphoreLocked(Provider[m])
          /\ Enqueue(c, m) /\ UNCHANGED <<lock, probing, probe>>
       \/ /\ kind[c] = "client" /\ ~SemaphoreLocked(Provider[m])
          /\ IF Turned(m, AfterCheck(m)) THEN UNCHANGED <<pc, model, lock, probing, probe>>
                                         ELSE Admit(c, m, AfterCheck(m))
          /\ UNCHANGED queue
       \/ /\ kind[c] = "stream"
          /\ pc' = [pc EXCEPT ![c] = "preparing"]
          /\ model' = [model EXCEPT ![c] = m]
          /\ UNCHANGED guards

\* No candidate is left, or the provider adapter selects one it has tried.
NoneLeft(c) ==
    /\ pc[c] = "choosing" /\ kind[c] # "forced"
    /\ \/ Cardinality(tried[c]) >= MaxRetries
       \/ Candidates \ tried[c] = {}
       \/ kind[c] = "gated" /\ Candidates \cap tried[c] # {}
    /\ IF Cardinality(tried[c]) >= MaxRetries THEN UNCHANGED <<circuit, elapsed>> ELSE Checked
    /\ Done(c)
    /\ UNCHANGED <<fails, wins, cooling, evicted, guards>>

\* A named model goes straight to the bulkhead, once.
ForceModel(c, m) ==
    /\ pc[c] = "choosing" /\ kind[c] = "forced"
    /\ IF tried[c] # {}
         THEN Done(c) /\ UNCHANGED <<breaker, guards>>
         ELSE IF SemaphoreLocked(Provider[m])
         THEN /\ Enqueue(c, m)
              /\ tried' = [tried EXCEPT ![c] = {m}]
              /\ UNCHANGED <<breaker, kind, lock, probing, probe>>
         ELSE IF Turned(m, circuit[m])
         THEN Done(c) /\ UNCHANGED <<breaker, guards>>
         ELSE /\ Admit(c, m, circuit[m])
              /\ tried' = [tried EXCEPT ![c] = {m}]
              /\ UNCHANGED <<breaker, kind, queue>>

\* The prompt of a stream is sanitised.
Prepared(c) ==
    /\ pc[c] = "preparing"
    /\ IF SemaphoreLocked(Provider[model[c]])
         THEN /\ Enqueue(c, model[c])
              /\ UNCHANGED <<breaker, lock, probing, probe, kind, tried>>
         ELSE AtBulkhead(c, model[c]) /\ UNCHANGED queue

\* The semaphore wakes its waiters in order.
LeaveQueue(c) ==
    LET p == Provider[model[c]]
    IN  /\ pc[c] = "queued" /\ Head(queue[p]) = c
        /\ Cardinality(Inside(p)) < Limit
        /\ queue' = [queue EXCEPT ![p] = Tail(@)]
        /\ AtBulkhead(c, model[c])

\* MUTANT of Release: the flag of the statistics stays set.
ReleaseLock(c) ==
    /\ IF c \in probe
         THEN lock' = [lock EXCEPT ![Provider[model[c]]] = Nobody] /\ probe' = probe \ {c}
         ELSE UNCHANGED <<lock, probe>>
    /\ UNCHANGED probing

\* Leaving execute_with_bulkhead() by any exit gives the probe back.
Release(c) ==
    IF c \in probe
      THEN /\ lock' = [lock EXCEPT ![Provider[model[c]]] = Nobody]
           /\ probing' = probing \ {model[c]}
           /\ probe' = probe \ {c}
      ELSE UNCHANGED <<lock, probing, probe>>

\* The provider answers.  A chat with a response sanitiser awaits it before the
\* success is recorded.
CallSucceeds(c) ==
    /\ pc[c] = "calling"
    /\ Release(c)
    /\ \/ RecordSuccess(model[c]) /\ Done(c)
       \/ /\ kind[c] \in {"client", "forced"}
          /\ pc' = [pc EXCEPT ![c] = "sanitizing"]
          /\ UNCHANGED <<breaker, request>>
    /\ UNCHANGED queue

\* The loops try the next model; a stream, and an error the provider adapter
\* translates, end the request.
CallFails(c) ==
    /\ pc[c] = "calling"
    /\ Release(c)
    /\ \E permanent \in BOOLEAN : RecordFailure(model[c], permanent)
    /\ \/ kind[c] # "stream" /\ Again(c)
       \/ kind[c] \in {"gated", "stream"} /\ Done(c)
    /\ UNCHANGED queue

Sanitized(c) ==
    /\ pc[c] = "sanitizing"
    /\ RecordSuccess(model[c]) /\ Done(c)
    /\ UNCHANGED guards

\* The sanitiser raises: the loop takes it for a failure of the model.
SanitizeFails(c) ==
    /\ pc[c] = "sanitizing"
    /\ RecordFailure(model[c], FALSE) /\ Again(c)
    /\ UNCHANGED guards

\* acquire() removes a cancelled waiter from the semaphore's queue.
LeaveUnserved(c) ==
    LET p == Provider[model[c]]
    IN  \E i \in 1 .. Len(queue[p]) :
            queue[p][i] = c /\ queue' = [queue EXCEPT ![p] = RemoveAt(@, i)]

\* The caller's task is cancelled: nothing is recorded.
CancelRequest(c) ==
    /\ pc[c] \in {"preparing", "queued", "calling", "sanitizing"}
    /\ Release(c)
    /\ IF pc[c] = "queued" THEN LeaveUnserved(c) ELSE UNCHANGED queue
    /\ Done(c)
    /\ UNCHANGED breaker

Proceed(c) ==
    \/ \E m \in Models : Choose(c, m) \/ ForceModel(c, m)
    \/ NoneLeft(c) \/ Prepared(c) \/ LeaveQueue(c)

Answer(c) == CallSucceeds(c) \/ CallFails(c) \/ Sanitized(c) \/ SanitizeFails(c)

Next ==
    \/ \E c \in Callers : NewRequest(c) \/ Proceed(c) \/ Answer(c) \/ CancelRequest(c)
    \/ \E m \in Models : RecoveryElapses(m) \/ CooldownEnds(m)

Spec == Init /\ [][Next]_vars

\* Coroutines that are ready run, providers answer, timers fire and requests come.
FairSpec ==
    /\ Spec
    /\ \A c \in Callers : WF_vars(NewRequest(c)) /\ WF_vars(Proceed(c)) /\ WF_vars(Answer(c))
    /\ \A m \in Models : WF_vars(RecoveryElapses(m)) /\ WF_vars(CooldownEnds(m))

-----------------------------------------------------------------------------
(* Properties.                                                             *)

TypeOK ==
    /\ circuit \in [Models -> {"closed", "open", "half_open"}]
    /\ fails \in [Models -> 0 .. Threshold] /\ wins \in [Models -> 0 .. Required - 1]
    /\ elapsed \subseteq Models /\ cooling \subseteq Models /\ evicted \subseteq Models
    /\ probing \subseteq Models /\ probe \subseteq Callers
    /\ lock \in [Providers -> Callers \cup {Nobody}]
    /\ queue \in [Providers -> Seq(Callers)]
    /\ pc \in [Callers -> {"idle", "choosing", "preparing", "queued", "calling", "sanitizing"}]
    /\ kind \in [Callers -> Kinds] /\ model \in [Callers -> Models \cup {NoModel}]
    /\ tried \in [Callers -> SUBSET Models]

\* The probe slot is exact: the holder of a provider's lock is the one caller that
\* probes it, and probe_in_progress marks that caller's model, after every exit
\* and cancel too (execute_with_bulkhead's finally).
SingleProbe ==
    /\ \A p \in Providers : \A c \in Callers :
           lock[p] = c <=> (c \in probe /\ c \in Inside(p))
    /\ probing = {model[c] : c \in probe}

\* Successes counted towards closing a circuit never survive the half-open phase they
\* were seen in, so a later recovery starts from nothing (record_failure's reset).
FreshEvidence == \A m \in Models : wins[m] > 0 => circuit[m] = "half_open"

\* The semaphore's queue and slots are exact: each waiting caller is queued once, at
\* its model's provider, and a full queue never leaves a slot unused for good
\* because of a cancel (asyncio.Semaphore as execute_with_bulkhead uses it).
QueueExact ==
    /\ \A p \in Providers :
           /\ Cardinality(Inside(p)) <= Limit
           /\ {queue[p][i] : i \in 1 .. Len(queue[p])}
                = {c \in Callers : pc[c] = "queued" /\ Provider[model[c]] = p}
           /\ IsInjective(queue[p])

\* Breaker and bulkhead are exact in every state that calls, cancels, cooldowns and
\* late results can produce.
BreakerExact == SingleProbe /\ FreshEvidence /\ QueueExact

\* A circuit that is open never closes without a half-open phase, whatever late
\* results of older calls are recorded (record_success, record_failure).
NoShortcut ==
    [][\A m \in Models :
         /\ circuit[m] = "open" => circuit'[m] # "closed"
         /\ circuit[m] = "closed" => circuit'[m] # "half_open"]_vars

\* A provider call begins on an open circuit only for a request that chose the model
\* earlier and was suspended since, or that names it: selection itself never lets
\* one through (check_circuit in _find_candidates_in_tier).
OpenRejectsChoice ==
    [][\A c \in Callers :
         pc[c] # "calling" /\ pc'[c] = "calling" /\ circuit'[model'[c]] = "open" =>
             pc[c] \in {"queued", "preparing"} \/ kind[c] = "forced"]_vars

\* An open circuit holds: it is left only through a half-open phase, and selection
\* lets no call through it.
OpenHolds == NoShortcut /\ OpenRejectsChoice

\* A caller that waits at the bulkhead gets in or is cancelled.
QueueMoves == \A c \in Callers : (pc[c] = "queued") ~> (pc[c] # "queued")

\* When from some time on every call that ends succeeds, no stream is opened and
\* nobody waiting at the bulkhead is cancelled, some circuit closes again and again:
\* a probe slot or a count that is lost on the way would leave it half-open
\* (check_circuit, record_success).
Recovers ==
    (<>[][\A c \in Callers :
            /\ kind'[c] # "stream"
            /\ pc[c] \in {"queued", "calling", "sanitizing"} /\ pc'[c] # pc[c] =>
                   LeaveQueue(c) \/ CallSucceeds(c) \/ Sanitized(c)]_vars)
      => []<>(\E m \in Models : circuit[m] = "closed")

\* Waiting callers are served, and a model that works again is used again.
KeepsMoving == QueueMoves /\ Recovers

\* CircuitResolvedError says that it "Never surfaces to end-callers".
ResolvedStaysInside ==
    [][\A c \in Callers :
         kind[c] = "stream" /\ pc[c] \in {"preparing", "queued"} /\ pc'[c] = "idle" =>
             UNCHANGED circuit]_vars
=============================================================================
