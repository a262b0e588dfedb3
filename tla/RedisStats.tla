----------------------------- MODULE RedisStats ------------------------------
(***************************************************************************)
(* The counters that workers share through Redis: every record_*() of a    *)
(* router starts a background task that, under the router's lock, adds to  *)
(* each model's key what the worker counted since its last acknowledged    *)
(* save (RedisCircuitBreakerStore.save_stats_cas).                         *)
(*                                                                         *)
(* The four counters of a model are treated alike, so one stands for them; *)
(* the other fields of the stored JSON are the writer's own and are known  *)
(* by its name.  Redis may refuse a command, apply it and lose the reply,  *)
(* or drop the connection; a key may expire or turn into garbage; a worker *)
(* may crash and start again.  Nothing in the server reconnects a store.   *)
(***************************************************************************)
EXTENDS Naturals, SequencesExt

CONSTANTS
    Workers,      \* processes with a Redis-backed router
    Models,       \* models they count calls of
    ModelsOf,     \* [Workers -> models that the worker's requests use]
    Closing,      \* bound: workers that may be shut down
    MaxRetries,   \* _CAS_MAX_RETRIES
    MaxRecords,   \* bound: calls recorded in a behaviour
    MaxFaults,    \* bound: faults of Redis and crashes in a behaviour
    Absent,       \* value of a key that does not exist
    Corrupt       \* value of a key that is not JSON

\* The JSON of a model's statistics: its counter and whose other fields it holds.
Values == [count : Nat, by : Workers]

ASSUME RedisAssumption ==
    /\ Absent \notin Values /\ Corrupt \notin Values
    /\ MaxRetries \in Nat \ {0} /\ MaxRecords \in Nat /\ MaxFaults \in Nat
    /\ IsFiniteSet(Workers) /\ IsFiniteSet(Models)
    /\ ModelsOf \in [Workers -> SUBSET Models] /\ Closing \subseteq Workers

VARIABLES
    key,          \* [Models -> stored value]
    up,           \* [Workers -> "down", "running", "draining" or "closed"]
    connected,    \* workers whose store is connected
    order,        \* [Workers -> keys of model_stats in insertion order]
    local,        \* [Workers -> [Models -> counter in memory]]
    base,         \* [Workers -> [Models -> _redis_counter_baselines]]
    tasks,        \* [Workers -> background save tasks that have not ended]
    drain,        \* [Workers -> tasks that aclose() still waits for]
    save,         \* [Workers -> progress of the task that holds the save lock]
    records,      \* calls recorded so far, in all workers
    faults,       \* faults so far
    \* History, read by the properties only:
    acked,        \* [Models -> calls ticked off by workers since the key was last lost]
    twice,        \* models one of whose applied swaps lost its reply
    short,        \* workers whose last save left something out
    due           \* [Workers -> counters when aclose() was called]

history == <<acked, twice, short, due>>
vars == <<key, up, connected, order, local, base, tasks, drain, save, records, faults, history>>

Zero == [m \in Models |-> 0]
Idle == [at |-> "idle", i |-> 0, size |-> 0, snap |-> 0, tries |-> 0, saw |-> Absent, all |-> TRUE]

\* What json.loads makes of a value: nothing, for an absent or a corrupt one.
Count(v) == IF v \in {Absent, Corrupt} THEN 0 ELSE v.count

Init ==
    /\ key = [m \in Models |-> Absent]
    /\ up = [w \in Workers |-> "running"] /\ connected = Workers
    /\ order = [w \in Workers |-> <<>>]
    /\ local = [w \in Workers |-> Zero] /\ base = [w \in Workers |-> Zero]
    /\ tasks = [w \in Workers |-> 0] /\ drain = [w \in Workers |-> 0]
    /\ save = [w \in Workers |-> Idle]
    /\ records = 0 /\ faults = 0
    /\ acked = Zero /\ twice = {} /\ short = {} /\ due = [w \in Workers |-> Zero]

Alive(w) == up[w] # "down"
Cur(w) == order[w][save[w].i]
Fault == faults < MaxFaults /\ faults' = faults + 1

-----------------------------------------------------------------------------
(* Counting and asking for a save.                                         *)

Known(w) == {order[w][i] : i \in 1 .. Len(order[w])}

\* _get_stats adds a model that is asked for the first time.
GetStats(w, m) == order' = [order EXCEPT ![w] = IF m \in Known(w) THEN @ ELSE Append(@, m)]

\* A call is recorded: with the store connected a background task will save it.
Record(w, m) ==
    /\ Alive(w) /\ records < MaxRecords /\ records' = records + 1
    /\ GetStats(w, m)
    /\ local' = [local EXCEPT ![w][m] = @ + 1]
    /\ tasks' = [tasks EXCEPT ![w] = IF w \in connected THEN @ + 1 ELSE @]
    /\ UNCHANGED <<key, up, connected, base, drain, save, faults, history>>

\* Selection looks at a model nobody has called yet.
Touch(w, m) ==
    /\ Alive(w) /\ m \notin Known(w)
    /\ GetStats(w, m)
    /\ UNCHANGED <<key, up, connected, local, base, tasks, drain, save, records, faults, history>>

-----------------------------------------------------------------------------
(* The task that holds the lock.                                           *)

\* The task ends and gives the lock back; a drain that waits for it notices.
EndSave(w, complete) ==
    /\ tasks' = [tasks EXCEPT ![w] = @ - 1]
    /\ drain' = [drain EXCEPT ![w] = IF @ > 0 THEN @ - 1 ELSE 0]
    /\ save' = [save EXCEPT ![w] = Idle]
    /\ short' = IF complete THEN short \ {w} ELSE short \cup {w}

\* The loop over model_stats asks for its i-th item.  A dictionary that has grown
\* raises; a store that is not connected gives up on every model left.
NextModel(w, i, size, all, online) ==
    IF Len(order[w]) # size \/ i > size \/ ~online
    THEN EndSave(w, all /\ i > size)
    ELSE /\ save' = [save EXCEPT ![w] = [at |-> "read", i |-> i, size |-> size, tries |-> 0,
                        snap |-> local[w][order[w][i]], saw |-> Absent, all |-> all]]
         /\ UNCHANGED <<tasks, drain, short>>

\* A task gets the lock and begins with the first model.
StartSave(w) ==
    /\ Alive(w) /\ tasks[w] > 0 /\ save[w].at = "idle"
    /\ NextModel(w, 1, Len(order[w]), TRUE, w \in connected)
    /\ UNCHANGED <<key, up, connected, order, local, base, records, faults, acked, twice, due>>

\* MUTANT of NextTry: a try is not counted, so a store that is gone is asked for ever.
NextTryUncounted(w, online) ==
    /\ save' = [save EXCEPT ![w].at = "read"]
    /\ UNCHANGED <<tasks, drain, short>>

\* cas() returned False: read again, or leave the delta to a later save.
NextTry(w, online) ==
    LET t == save[w].tries + 1
    IN  IF online /\ t < MaxRetries
        THEN /\ save' = [save EXCEPT ![w].at = "read", ![w].tries = t, ![w].saw = Absent]
             /\ UNCHANGED <<tasks, drain, short>>
        ELSE NextModel(w, save[w].i + 1, save[w].size, FALSE, online)

\* GET answers.
Read(w) ==
    /\ Alive(w) /\ save[w].at = "read" /\ w \in connected
    /\ save' = [save EXCEPT ![w].at = "swap", ![w].saw = key[Cur(w)]]
    /\ UNCHANGED <<key, up, connected, order, local, base, tasks, drain, records, faults, history>>

\* GET fails: the value is taken for absent, or the connection is lost.
ReadFails(w) ==
    /\ Alive(w) /\ save[w].at = "read" /\ Fault
    /\ \/ /\ save' = [save EXCEPT ![w].at = "swap", ![w].saw = Absent]
          /\ UNCHANGED <<connected, tasks, drain, short>>
       \/ /\ connected' = connected \ {w}
          /\ NextTry(w, FALSE)
    /\ UNCHANGED <<key, up, order, local, base, records, acked, twice, due>>

\* MUTANT of Merge: the whole counter instead of what is new in it.
MergeAll(w) == [count |-> Count(save[w].saw) + save[w].snap, by |-> w]

\* _merge_stats_dicts: the new calls on top of what was read, never a negative number.
Merge(w) ==
    LET b == base[w][Cur(w)]
        delta == IF save[w].snap > b THEN save[w].snap - b ELSE 0
    IN  [count |-> Count(save[w].saw) + delta, by |-> w]

\* The Lua script: nothing has been written since the read.
Applies(w) == key[Cur(w)] = save[w].saw

\* What the worker's baseline moves by counts as saved from now on.
TickedOff(w) ==
    acked' = [acked EXCEPT ![Cur(w)] = @ + base'[w][Cur(w)] - base[w][Cur(w)]]

\* MUTANT of Swap: the baseline is the merged value.
SwapBaseMerged(w) ==
    /\ Alive(w) /\ save[w].at = "swap" /\ Applies(w)
    /\ key' = [key EXCEPT ![Cur(w)] = Merge(w)]
    /\ base' = [base EXCEPT ![w][Cur(w)] = Merge(w).count]
    /\ TickedOff(w)
    /\ NextModel(w, save[w].i + 1, save[w].size, save[w].all, w \in connected)
    /\ UNCHANGED <<up, connected, order, local, records, faults, twice, due>>

\* The swap is applied and acknowledged: the snapshot is the new baseline.
Swap(w) ==
    /\ Alive(w) /\ save[w].at = "swap" /\ Applies(w)
    /\ key' = [key EXCEPT ![Cur(w)] = Merge(w)]
    /\ base' = [base EXCEPT ![w][Cur(w)] = save[w].snap]
    /\ TickedOff(w)
    /\ NextModel(w, save[w].i + 1, save[w].size, save[w].all, w \in connected)
    /\ UNCHANGED <<up, connected, order, local, records, faults, twice, due>>

Conflict(w) ==
    /\ Alive(w) /\ save[w].at = "swap" /\ ~Applies(w)
    /\ NextTry(w, w \in connected)
    /\ UNCHANGED <<key, up, connected, order, local, base, records, faults, acked, twice, due>>

\* EVALSHA raises, before or after the script ran; the connection may be gone.
SwapFails(w) ==
    /\ Alive(w) /\ save[w].at = "swap" /\ Fault
    /\ \/ UNCHANGED <<key, twice>>
       \/ /\ Applies(w)
          /\ key' = [key EXCEPT ![Cur(w)] = Merge(w)]
          /\ twice' = IF Merge(w).count > Count(save[w].saw) THEN twice \cup {Cur(w)} ELSE twice
    /\ \/ UNCHANGED connected /\ NextTry(w, w \in connected)
       \/ connected' = connected \ {w} /\ NextTry(w, FALSE)
    /\ UNCHANGED <<up, order, local, base, records, acked, due>>

-----------------------------------------------------------------------------
(* Shutdown, crash, start and the server.                                  *)

\* aclose() takes the tasks there are and waits for them.
Aclose(w) ==
    /\ up[w] = "running" /\ w \in Closing
    /\ up' = [up EXCEPT ![w] = "draining"]
    /\ drain' = [drain EXCEPT ![w] = tasks[w]]
    /\ due' = [due EXCEPT ![w] = local[w]]
    /\ UNCHANGED <<key, connected, order, local, base, tasks, save, records, faults, acked, twice, short>>

\* MUTANT of Drained: the store is closed without waiting.
DrainedAtOnce(w) ==
    /\ up[w] = "draining"
    /\ up' = [up EXCEPT ![w] = "closed"]
    /\ connected' = connected \ {w}
    /\ due' = [due EXCEPT ![w] = Zero]
    /\ UNCHANGED <<key, order, local, base, tasks, drain, save, records, faults, acked, twice, short>>

\* They have ended; the store is closed under any task that came later.
Drained(w) ==
    /\ up[w] = "draining" /\ drain[w] = 0
    /\ up' = [up EXCEPT ![w] = "closed"]
    /\ connected' = connected \ {w}
    /\ due' = [due EXCEPT ![w] = Zero]
    /\ UNCHANGED <<key, order, local, base, tasks, drain, save, records, faults, acked, twice, short>>

\* A read that was under way when the store closed finds no client.
ReadClosed(w) ==
    /\ Alive(w) /\ save[w].at = "read" /\ w \notin connected
    /\ NextTry(w, FALSE)
    /\ UNCHANGED <<key, up, connected, order, local, base, records, faults, acked, twice, due>>

\* The process ends, with what it had not saved.
Crash(w) ==
    /\ Alive(w) /\ Fault
    /\ up' = [up EXCEPT ![w] = "down"] /\ connected' = connected \ {w}
    /\ local' = [local EXCEPT ![w] = Zero] /\ base' = [base EXCEPT ![w] = Zero]
    /\ order' = [order EXCEPT ![w] = <<>>] /\ save' = [save EXCEPT ![w] = Idle]
    /\ tasks' = [tasks EXCEPT ![w] = 0] /\ drain' = [drain EXCEPT ![w] = 0]
    /\ short' = short \ {w} /\ due' = [due EXCEPT ![w] = Zero]
    /\ UNCHANGED <<key, records, acked, twice>>

\* create_with_redis loads the keys the scan finds and takes them as baselines.
Restart(w, loaded) ==
    /\ up[w] = "down"
    /\ up' = [up EXCEPT ![w] = "running"] /\ connected' = connected \cup {w}
    /\ local' = [local EXCEPT ![w] = [m \in Models |-> IF m \in loaded THEN Count(key[m]) ELSE 0]]
    /\ base' = [base EXCEPT ![w] = local'[w]]
    /\ \E s \in SetToSeqs(loaded) : order' = [order EXCEPT ![w] = s]
    /\ UNCHANGED <<key, tasks, drain, save, records, faults, acked, twice, short, due>>

\* load_all_stats: every readable key, or nothing when the scan fails.
Loaded == {{}, {m \in Models : key[m] \notin {Absent, Corrupt}}}

\* The time to live of a key runs out, or something else overwrites it.
Expire(m) ==
    /\ Fault
    /\ \E v \in {Absent, Corrupt} : v # key[m] /\ key' = [key EXCEPT ![m] = v]
    /\ acked' = [acked EXCEPT ![m] = 0]
    /\ twice' = twice \ {m}
    /\ UNCHANGED <<up, connected, order, local, base, tasks, drain, save, records, short, due>>

SaveStep(w) ==
    \/ StartSave(w) \/ Read(w) \/ Swap(w) \/ Conflict(w) \/ ReadClosed(w)

\* Nothing is under way: the workers wait for calls, or have been shut down.
Quiet ==
    /\ \A w \in Workers : tasks[w] = 0 /\ up[w] # "draining"
    /\ UNCHANGED vars

Next ==
    \/ \E w \in Workers :
         \/ \E m \in ModelsOf[w] : Record(w, m) \/ Touch(w, m)
         \/ SaveStep(w) \/ ReadFails(w) \/ SwapFails(w)
         \/ Aclose(w) \/ Drained(w) \/ Crash(w)
         \/ \E loaded \in Loaded : Restart(w, loaded)
    \/ \E m \in Models : Expire(m)
    \/ Quiet

Spec == Init /\ [][Next]_vars

\* The event loop runs a task that is ready, and Redis answers.
FairSpec == Spec /\ \A w \in Workers : WF_vars(SaveStep(w))

-----------------------------------------------------------------------------
(* Properties.                                                             *)

SaveType ==
    [at : {"idle", "read", "swap"}, i : Nat, size : Nat, snap : Nat, all : BOOLEAN,
     tries : 0 .. MaxRetries - 1, saw : {Absent, Corrupt} \cup Values]

TypeOK ==
    /\ key \in [Models -> {Absent, Corrupt} \cup Values]
    /\ up \in [Workers -> {"down", "running", "draining", "closed"}]
    /\ connected \subseteq Workers /\ short \subseteq Workers /\ twice \subseteq Models
    /\ order \in [Workers -> Seq(Models)] /\ \A w \in Workers : IsInjective(order[w])
    /\ local \in [Workers -> [Models -> Nat]] /\ base \in [Workers -> [Models -> Nat]]
    /\ tasks \in [Workers -> Nat] /\ drain \in [Workers -> Nat]
    /\ save \in [Workers -> SaveType]
    /\ \A w \in Workers :
         /\ \A m \in Models : base[w][m] <= local[w][m]
         /\ drain[w] <= tasks[w]
         /\ save[w].at # "idle" => tasks[w] > 0 /\ save[w].i \in 1 .. save[w].size
    /\ records \in 0 .. MaxRecords /\ faults \in 0 .. MaxFaults
    /\ acked \in [Models -> Nat] /\ due \in [Workers -> [Models -> Nat]]

\* _merge_stats_dicts: "the persisted count reflects every worker's contribution".
\* No write of another worker, failed command, lost reply, crash or reload makes
\* Redis forget a call that a worker has ticked off.
NoLostUpdate == \A m \in Models : Count(key[m]) >= acked[m]

\* Nothing is counted twice either, except what a swap wrote whose reply was lost.
CountedOnce == \A m \in Models \ twice : Count(key[m]) = acked[m]

\* A connected worker with no save task left has saved every call it recorded,
\* unless its last save says it did not: a call recorded during a save is not
\* forgotten (_save_stats starts a task for each).
QuietMeansSaved ==
    \A w \in connected : tasks[w] = 0 /\ w \notin short => base[w] = local[w]

\* What Redis counts is what the workers recorded: nothing ticked off is lost, nothing
\* is counted twice but after a lost reply, and nothing recorded is left out.
CountsExact == NoLostUpdate /\ CountedOnce /\ QuietMeansSaved

\* When aclose() has drained the tasks, every call recorded before it is in Redis,
\* unless the last of these saves failed: "no circuit-breaker state writes are
\* silently abandoned".
FlushedOnClose ==
    [][\A w \in Workers :
         up[w] = "draining" /\ up'[w] = "closed" /\ w \in connected /\ w \notin short =>
             \A m \in Models : base[w][m] >= due[w][m]]_vars

\* Every save ends: the lock is given back whatever Redis does.
SaveEnds == \A w \in Workers : (tasks[w] > 0) ~> (tasks[w] = 0)
=============================================================================
