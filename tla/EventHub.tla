------------------------------ MODULE EventHub -------------------------------
(***************************************************************************)
(* ConnectionManager for one run id: the replay buffer, the durable replay *)
(* store, the WebSocket clients with the browser's stream hook, the SSE    *)
(* listeners and the timers that clear a finished run.                     *)
(*                                                                         *)
(* broadcast() is a coroutine that is suspended in the store's append and  *)
(* in every send, so several can be under way; each caller (the run's task *)
(* or a step's) has at most one, because it awaits it.  The store's cap is *)
(* the buffer's; its three backends differ in how they can fail only.  The *)
(* order in which one broadcast visits the sockets is left open.           *)
(***************************************************************************)
EXTENDS Naturals, Sequences, FiniteSets, Functions

CONSTANTS
    Steps,        \* steps of workflows
    Main,         \* the task of _run_and_evaluate
    Sockets,      \* WebSocket clients
    Listeners,    \* SSE clients
    MaxBuffer,    \* max_buffer_size
    None          \* no timer

ASSUME HubAssumption ==
    /\ MaxBuffer \in Nat \ {0}
    /\ Main \notin Steps /\ None \notin Nat
    /\ IsFiniteSet(Steps) /\ IsFiniteSet(Sockets) /\ IsFiniteSet(Listeners)

VARIABLES
    buffer,       \* event_buffers
    store,        \* rows of the replay store
    conns,        \* connections
    cast,         \* [Casters -> its broadcast]
    timer,        \* clear tasks in order of creation: their states
    pending,      \* _pending_clears: index of a timer, or None
    clearing,     \* the number of _clear_store tasks under way
    leaked,       \* history: whether the clear of the store that ended last failed
    bound,        \* whether _run_tenants knows the run
    ws,           \* [Sockets -> where the endpoint is]
    open,         \* sockets whose connection works
    script,       \* [Sockets -> events that replay has still to send]
    got,          \* [Sockets -> events the client has seen]
    view,         \* [Sockets -> [Steps -> what the client shows of a step]]
    sse,          \* [Listeners -> where the stream is]
    queue,        \* [Listeners -> events queued for it]
    clock         \* time: the number of events so far

Casters == Steps \cup {Main}

\* An event carries the time it was made at, so no two are equal, and whether it says
\* that an evaluation follows (evaluation_enabled; an event without the field does not).
Event(type, s, time, follows) == [type |-> type, step |-> s, time |-> time, follows |-> follows]
Ev(type, s, follows) == Event(type, s, clock, follows)
Silent == [at |-> "idle", ev |-> Event("none", Main, 0, FALSE), to |-> {}, dead |-> {}]

clients == <<ws, open, script, got, view>>
streams == <<sse, queue>>
retention == <<timer, pending, clearing, leaked, bound>>
hub == <<buffer, store, conns, cast, clients, streams, retention, clock>>

HubInit ==
    /\ buffer = <<>> /\ store = <<>> /\ conns = {}
    /\ cast = [b \in Casters |-> Silent]
    /\ timer = <<>> /\ pending = None /\ clearing = 0 /\ leaked = FALSE /\ bound = FALSE
    /\ ws = [c \in Sockets |-> "away"] /\ open = {}
    /\ script = [c \in Sockets |-> <<>>] /\ got = [c \in Sockets |-> {}]
    /\ view = [c \in Sockets |-> [s \in Steps |-> "unknown"]]
    /\ sse = [l \in Listeners |-> "away"] /\ queue = [l \in Listeners |-> <<>>]
    /\ clock = 0

-----------------------------------------------------------------------------
(* The browser's stream hook (useWorkflowStream).                          *)

\* handleEvent drops what it has seen; otherwise the step shows the event's status.
Shown(c, e) ==
    IF e \in got[c] THEN view[c]
    ELSE CASE e.type = "step_start" -> [view[c] EXCEPT ![e.step] = "running"]
           [] e.type = "step_end" -> [view[c] EXCEPT ![e.step] = "ended"]
           [] OTHER -> view[c]

Receive(c, e) ==
    /\ view' = [view EXCEPT ![c] = Shown(c, e)]
    /\ got' = [got EXCEPT ![c] = @ \cup {e}]

-----------------------------------------------------------------------------
(* broadcast().                                                            *)

\* MUTANT of Pushed: nothing is evicted.
PushedUnbounded(q, e) == Append(q, e)

\* A deque with a maximal length.
Pushed(q, e) == IF Len(q) = MaxBuffer THEN Append(Tail(q), e) ELSE Append(q, e)

\* The event is buffered; the store's append suspends the coroutine.
Broadcast(b, e) ==
    /\ cast[b].at = "idle"
    /\ buffer' = Pushed(buffer, e)
    /\ clock' = clock + 1
    /\ cast' = [cast EXCEPT ![b] = [at |-> "persist", ev |-> e, to |-> {}, dead |-> {}]]

\* MUTANT of Schedule: the old timer is cancelled and no new one started.
ScheduleOnce ==
    LET live == pending # None /\ timer[pending] = "asleep"
    IN  IF live THEN timer' = [timer EXCEPT ![pending] = "cancelled"] /\ UNCHANGED pending
                ELSE timer' = Append(timer, "asleep") /\ pending' = Len(timer) + 1

\* _schedule_delayed_clear: cancel the timer that is known, start another.
Schedule ==
    LET live == pending # None /\ timer[pending] = "asleep"
        old == IF live THEN [timer EXCEPT ![pending] = "cancelled"] ELSE timer
    IN  /\ timer' = Append(old, "asleep")
        /\ pending' = Len(timer) + 1

\* What broadcast() does after its sends: dead sockets go, SSE queues get the
\* event, and a terminal event starts the retention timer.
Finish(b, dead) ==
    LET e == cast[b].ev
    IN  /\ cast' = [cast EXCEPT ![b] = Silent]
        /\ conns' = conns \ dead
        /\ queue' = [l \in Listeners |-> IF sse[l] = "open" THEN Append(queue[l], e) ELSE queue[l]]
        /\ IF e.type \in {"workflow_end", "error"} THEN Schedule ELSE UNCHANGED <<timer, pending>>

\* The sends go to the connections there are now.
Deliver(b) ==
    IF conns = {} THEN Finish(b, {})
    ELSE /\ cast' = [cast EXCEPT ![b].at = "send", ![b].to = conns]
         /\ UNCHANGED <<conns, queue, timer, pending>>

\* The store has the event, and drops its oldest one at the cap.
Persist(b) ==
    /\ cast[b].at = "persist"
    /\ store' = Pushed(store, cast[b].ev)
    /\ Deliver(b)
    /\ UNCHANGED <<buffer, clients, sse, clearing, leaked, bound, clock>>

\* The store fails: broadcast goes on without it.
PersistFails(b) ==
    /\ cast[b].at = "persist"
    /\ Deliver(b)
    /\ UNCHANGED <<buffer, store, clients, sse, clearing, leaked, bound, clock>>

\* One send of the loop: it reaches the client, or the socket is dead.
Send(b) ==
    /\ cast[b].at = "send"
    /\ \E c \in cast[b].to :
         LET dead == IF c \in open THEN cast[b].dead ELSE cast[b].dead \cup {c}
         IN  /\ IF c \in open THEN Receive(c, cast[b].ev) ELSE UNCHANGED <<got, view>>
             /\ IF cast[b].to = {c} THEN Finish(b, dead)
                ELSE /\ cast' = [cast EXCEPT ![b].to = @ \ {c}, ![b].dead = dead]
                     /\ UNCHANGED <<conns, queue, timer, pending>>
    /\ UNCHANGED <<buffer, store, ws, open, script, sse, clearing, leaked, bound, clock>>

-----------------------------------------------------------------------------
(* The WebSocket endpoint.                                                 *)

\* The handshake is accepted and the socket registered; the store is asked.
Connect(c) ==
    /\ ws[c] = "away"
    /\ ws' = [ws EXCEPT ![c] = "joined"] /\ open' = open \cup {c}
    /\ conns' = conns \cup {c}
    /\ UNCHANGED <<buffer, store, cast, script, got, view, streams, retention, clock>>

\* MUTANT of ReadHistory: no fallback to the buffer.
ReadHistoryStoreOnly(c) ==
    /\ ws[c] = "joined"
    /\ \E rows \in {store, <<>>} : script' = [script EXCEPT ![c] = rows]
    /\ ws' = [ws EXCEPT ![c] = "replaying"]
    /\ UNCHANGED <<buffer, store, conns, cast, open, got, view, streams, retention, clock>>

\* get_events answers with its rows, or fails; nothing means the buffer.
ReadHistory(c) ==
    /\ ws[c] = "joined"
    /\ \E rows \in {store, <<>>} :
         script' = [script EXCEPT ![c] = IF rows = <<>> THEN buffer ELSE rows]
    /\ ws' = [ws EXCEPT ![c] = "replaying"]
    /\ UNCHANGED <<buffer, store, conns, cast, open, got, view, streams, retention, clock>>

\* One send of the replay; it gives up when the socket is dead.
Replay(c) ==
    /\ ws[c] = "replaying"
    /\ IF script[c] = <<>> \/ c \notin open
       THEN /\ ws' = [ws EXCEPT ![c] = "live"] /\ script' = [script EXCEPT ![c] = <<>>]
            /\ UNCHANGED <<got, view>>
       ELSE /\ Receive(c, Head(script[c])) /\ script' = [script EXCEPT ![c] = Tail(@)]
            /\ UNCHANGED ws
    /\ UNCHANGED <<buffer, store, conns, cast, open, streams, retention, clock>>

\* The client goes away, with what it knew.
Drop(c) ==
    /\ c \in open
    /\ open' = open \ {c}
    /\ got' = [got EXCEPT ![c] = {}] /\ view' = [view EXCEPT ![c] = [s \in Steps |-> "unknown"]]
    /\ UNCHANGED <<buffer, store, conns, cast, ws, script, streams, retention, clock>>

\* receive_text raises: the endpoint unregisters the socket and ends.
Disconnect(c) ==
    /\ ws[c] = "live" /\ c \notin open
    /\ ws' = [ws EXCEPT ![c] = "gone"]
    /\ conns' = conns \ {c}
    /\ UNCHANGED <<buffer, store, cast, open, script, got, view, streams, retention, clock>>

-----------------------------------------------------------------------------
(* The SSE stream: a queue, and no replay.                                 *)

SseOpen(l) ==
    /\ sse[l] = "away"
    /\ sse' = [sse EXCEPT ![l] = "open"]
    /\ UNCHANGED <<buffer, store, conns, cast, clients, queue, retention, clock>>

\* _is_terminal_stream_event.
EndsStream(e) ==
    e.type \in {"error", "evaluation_complete"} \/ (e.type = "workflow_end" /\ ~e.follows)

\* The generator yields an event, and ends after a terminal one.
SseNext(l) ==
    /\ sse[l] = "open" /\ queue[l] # <<>>
    /\ IF EndsStream(Head(queue[l]))
       THEN sse' = [sse EXCEPT ![l] = "ended"] /\ queue' = [queue EXCEPT ![l] = <<>>]
       ELSE queue' = [queue EXCEPT ![l] = Tail(@)] /\ UNCHANGED sse
    /\ UNCHANGED <<buffer, store, conns, cast, clients, retention, clock>>

\* The client closes the stream: the generator's finally unregisters the queue.
SseLeave(l) ==
    /\ sse[l] = "open"
    /\ sse' = [sse EXCEPT ![l] = "left"] /\ queue' = [queue EXCEPT ![l] = <<>>]
    /\ UNCHANGED <<buffer, store, conns, cast, clients, retention, clock>>

-----------------------------------------------------------------------------
(* Retention.                                                              *)

\* A timer wakes: clear_buffer empties the buffer, forgets the owner and starts
\* a task that clears the store, which nobody awaits.
ClearBuffer(i) ==
    /\ timer[i] = "asleep"
    /\ timer' = [timer EXCEPT ![i] = "over"]
    /\ buffer' = <<>> /\ bound' = FALSE /\ clearing' = clearing + 1
    /\ UNCHANGED <<store, conns, cast, clients, streams, pending, leaked, clock>>

\* A timer that was cancelled or has fired ends: its done callback removes the
\* entry of the run, whosever it is by now.
TimerEnds(i) ==
    /\ timer[i] \in {"cancelled", "over"}
    /\ timer' = [timer EXCEPT ![i] = "gone"] /\ pending' = None
    /\ UNCHANGED <<buffer, store, conns, cast, clients, streams, clearing, leaked, bound, clock>>

\* _clear_store.
ClearStore ==
    /\ clearing > 0
    /\ clearing' = clearing - 1 /\ store' = <<>> /\ leaked' = FALSE
    /\ UNCHANGED <<buffer, conns, cast, clients, streams, timer, pending, bound, clock>>

\* Redis or SQLite fails in it: that is logged, the rows stay and nobody tries again.
ClearStoreFails ==
    /\ clearing > 0
    /\ clearing' = clearing - 1 /\ leaked' = TRUE
    /\ UNCHANGED <<buffer, store, conns, cast, clients, streams, timer, pending, bound, clock>>
=============================================================================
