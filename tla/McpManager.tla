----------------------------- MODULE McpManager ------------------------------
(***************************************************************************)
(* McpConnectionManager: one connection per server name, made and closed   *)
(* under one lock, on top of the clients of McpClient.                     *)
(*                                                                         *)
(* A call of connect(), disconnect() or disconnect_all() is a number; a    *)
(* connect() that makes a connection makes the client of that number.      *)
(* Callers may be cancelled at every await.  Tool calls run on any client  *)
(* that connect() has returned, for as long as an adapter keeps it.        *)
(***************************************************************************)
EXTENDS McpClient

CONSTANTS
    Names,        \* server names
    Asked,        \* bound: [Calls -> operations and names the call may be for]
    MaxCalls,     \* bound: calls of the manager's coroutines
    MaxAttempts,  \* max_attempts of ExponentialBackoff
    MaxFaults     \* bound: deaths of peers, bad lines, broken loops and cancels

Calls == 1 .. MaxCalls

ASSUME ManagerAssumption ==
    /\ MaxCalls \in Nat \ {0} /\ MaxAttempts \in Nat \ {0} /\ MaxFaults \in Nat
    /\ Clients = Calls /\ IsFiniteSet(Names) /\ Names # {}
    /\ Asked \in [Calls -> SUBSET ({"connect", "force", "disconnect", "all"} \X Names)]

VARIABLES
    lock,         \* call that holds _lock, or 0
    connections,  \* [Names -> client registered under the name, or 0]
    state,        \* [Clients -> ConnectionMetadata.state]
    attempts,     \* [Clients -> attempts counted by the backoff]
    auth,         \* [Clients -> age of auth_failure_timestamp]
    call,         \* [Calls -> progress of the call]
    returned,     \* clients that connect() returned
    faults,       \* faults so far
    \* History, read by the properties only:
    replaced,     \* clients that a force_new connect() took the place of
    broken        \* clients whose read loop ended while the peer lived

managerVars == <<lock, connections, state, attempts, auth, call, returned, faults, replaced, broken>>
vars == <<clientVars, managerVars>>

NoCall(at) == [at |-> at, op |-> "none", name |-> CHOOSE n \in Names : TRUE, left |-> {}]

Init ==
    /\ ClientInit
    /\ lock = 0 /\ connections = [n \in Names |-> 0]
    /\ state = [c \in Clients |-> "none"] /\ attempts = [c \in Clients |-> 0]
    /\ auth = [c \in Clients |-> "none"]
    /\ call = [k \in Calls |-> NoCall("none")]
    /\ returned = {} /\ faults = 0 /\ replaced = {} /\ broken = {}

\* One type invariant; what it says of the lock: its holder, and nobody else, is
\* between acquiring and releasing it.
TypeOK ==
    /\ ClientTypeOK
    /\ lock \in {0} \cup Calls /\ connections \in [Names -> {0} \cup Clients]
    /\ state \in [Clients -> {"none", "connecting", "connected", "reconnecting",
                              "needs_auth", "failed", "disconnected"}]
    /\ attempts \in [Clients -> 0 .. MaxAttempts]
    /\ auth \in [Clients -> {"none", "fresh", "old"}]
    /\ call \in [Calls -> [at : {"none", "lock", "start", "init", "backoff", "close", "wait", "end"},
                           op : {"none", "connect", "force", "disconnect", "all"},
                           name : Names, left : SUBSET Names]]
    /\ \A k \in Calls : call[k].at \in {"start", "init", "backoff", "close", "wait"} <=> lock = k
    /\ faults \in 0 .. MaxFaults /\ returned \subseteq Clients /\ replaced \subseteq Clients /\ broken \subseteq Clients

\* Calls are made in the order of their numbers.
Ask(k, op, n) ==
    /\ call[k].at = "none" /\ \A j \in 1 .. k - 1 : call[j].at # "none"
    /\ call' = [call EXCEPT ![k] = [at |-> "lock", op |-> op, name |-> n, left |-> {}]]
    /\ UNCHANGED <<clientVars, lock, connections, state, attempts, auth, returned, replaced, broken, faults>>

\* The call returns or raises, and the lock is released.
End(k) ==
    /\ call' = [call EXCEPT ![k] = NoCall("end")]
    /\ lock' = IF lock = k THEN 0 ELSE lock

Fault == faults < MaxFaults /\ faults' = faults + 1

Goto(k, at) == call' = [call EXCEPT ![k].at = at]

-----------------------------------------------------------------------------
(* connect().                                                              *)

\* A connection of that name is in the dictionary and force_new is not given.
Known(k) == call[k].op = "connect" /\ connections[call[k].name] # 0
Memo(k) == connections[call[k].name]

\* is_auth_suppressed(): a 401 within the last 15 minutes.
AuthSuppressed(k) == Known(k) /\ auth[Memo(k)] = "fresh"

\* connect() raises.
Suppressed(k) ==
    /\ call[k].at = "lock" /\ lock = 0 /\ AuthSuppressed(k)
    /\ End(k)
    /\ UNCHANGED <<clientVars, connections, state, attempts, auth, returned, replaced, broken, faults>>

\* MUTANT of Reusable: the state of the memoised connection is not looked at.
ReusableNever(k) == FALSE

\* The memoised connection is taken if its state says CONNECTED: a state that no
\* transport event changes.
Reusable(k) == Known(k) /\ ~AuthSuppressed(k) /\ state[Memo(k)] = "connected"

Reuse(k) ==
    /\ call[k].at = "lock" /\ lock = 0 /\ Reusable(k)
    /\ End(k)
    /\ UNCHANGED <<clientVars, connections, state, attempts, auth, returned, replaced, broken, faults>>

\* _create_connection registers the new client in place of what was there.
Create(k) ==
    /\ call[k].at = "lock" /\ call[k].op \in {"connect", "force"} /\ lock = 0
    /\ ~AuthSuppressed(k) /\ ~Reusable(k)
    /\ lock' = k /\ Goto(k, "start")
    /\ connections' = [connections EXCEPT ![call[k].name] = k]
    /\ state' = [state EXCEPT ![k] = "connecting"]
    /\ replaced' = IF call[k].op = "force" THEN replaced \cup ({Memo(k)} \ {0}) ELSE replaced
    /\ UNCHANGED <<clientVars, attempts, auth, returned, broken, faults>>

\* An error that is not retried, or a backoff that is used up: FAILED.
Fail(k) == End(k) /\ state' = [state EXCEPT ![k] = "failed"]

\* _attempt_connect: the transport starts and the handshake is sent.
Start(k) ==
    /\ call[k].at = "start"
    /\ StartAndInitialize(k) /\ Goto(k, "init")
    /\ UNCHANGED <<lock, connections, state, attempts, auth, returned, replaced, broken, faults>>

\* The peer cannot be reached, or this is a retry and the transport was started by
\* the attempt before: an unexpected error, which is not retried.
StartFails(k) ==
    /\ call[k].at = "start"
    /\ Fail(k)
    /\ UNCHANGED <<clientVars, connections, attempts, auth, returned, replaced, broken, faults>>

\* The handshake succeeds.
Connected(k) ==
    /\ call[k].at = "init" /\ future[k] = "result" /\ Answered(k)
    /\ End(k)
    /\ state' = [state EXCEPT ![k] = "connected"] /\ attempts' = [attempts EXCEPT ![k] = 0]
    /\ returned' = returned \cup {k}
    /\ UNCHANGED <<connections, auth, replaced, broken, faults>>

\* The server answers 401: record_auth_failure.
AuthFails(k) ==
    /\ call[k].at = "init" /\ future[k] = "auth" /\ Answered(k)
    /\ End(k)
    /\ state' = [state EXCEPT ![k] = "needs_auth"] /\ auth' = [auth EXCEPT ![k] = "fresh"]
    /\ UNCHANGED <<connections, attempts, returned, replaced, broken, faults>>

\* Another error answer, a transport error or a close: _schedule_retry.
Retry(k) ==
    /\ call[k].at = "init" /\ future[k] = "error" /\ Answered(k)
    /\ IF attempts[k] >= MaxAttempts
       THEN Fail(k) /\ UNCHANGED attempts
       ELSE /\ state' = [state EXCEPT ![k] = "reconnecting"]
            /\ attempts' = [attempts EXCEPT ![k] = @ + 1]
            /\ Goto(k, "backoff") /\ UNCHANGED lock
    /\ UNCHANGED <<connections, auth, returned, replaced, broken, faults>>

\* MUTANT of HandshakeFails: the handshake has no timeout.
HandshakeUntimed(k) ==
    /\ call[k].at = "init"
    /\ SendFails(k)
    /\ Fail(k)
    /\ UNCHANGED <<connections, attempts, auth, returned, replaced, broken, faults>>

\* INITIALIZE_TIMEOUT raises McpTimeoutError, which is no TimeoutError, and a write
\* that fails a ConnectionError: unexpected errors both.
HandshakeFails(k) ==
    /\ call[k].at = "init"
    /\ TimesOut(k) \/ SendFails(k)
    /\ Fail(k)
    /\ UNCHANGED <<connections, attempts, auth, returned, replaced, broken, faults>>

\* The delay of the backoff is over.
BackoffEnds(k) ==
    /\ call[k].at = "backoff"
    /\ IF attempts[k] >= MaxAttempts THEN Fail(k)
       ELSE Goto(k, "start") /\ UNCHANGED <<lock, state>>
    /\ UNCHANGED <<clientVars, connections, attempts, auth, returned, replaced, broken, faults>>

\* AUTH_FAILURE_CACHE_DURATION passes.
AuthAges(c) ==
    /\ auth[c] = "fresh"
    /\ auth' = [auth EXCEPT ![c] = "old"]
    /\ UNCHANGED <<clientVars, lock, connections, state, attempts, call, returned, replaced, broken, faults>>

-----------------------------------------------------------------------------
(* disconnect() and disconnect_all().                                      *)

Targets(k) == {n \in Names : connections[n] # 0 /\ (call[k].op = "all" \/ n = call[k].name)}

\* The lock is acquired; without a connection there is nothing to do.
Disconnect(k) ==
    /\ call[k].at = "lock" /\ call[k].op \in {"disconnect", "all"} /\ lock = 0
    /\ IF Targets(k) = {} THEN End(k)
       ELSE /\ lock' = k
            /\ call' = [call EXCEPT ![k].at = "close", ![k].left = Targets(k)]
    /\ UNCHANGED <<clientVars, connections, state, attempts, auth, returned, replaced, broken, faults>>

\* After one client is closed: the next one, or the dictionary is updated and the
\* call returns.  Only disconnect() notes the new state.
Proceed(k, n, left) ==
    IF left # {} THEN /\ call' = [call EXCEPT ![k].at = "close", ![k].name = n, ![k].left = left]
                      /\ UNCHANGED <<lock, connections, state>>
    ELSE /\ End(k)
         /\ IF call[k].op = "all"
            THEN connections' = [m \in Names |-> 0] /\ UNCHANGED state
            ELSE /\ connections' = [connections EXCEPT ![n] = 0]
                 /\ state' = [state EXCEPT ![connections[n]] = "disconnected"]

\* client.close() of one connection, up to its first await if it has one.
CloseNext(k, n) ==
    /\ call[k].at = "close" /\ n \in call[k].left
    /\ CloseBegins(connections[n])
    /\ IF CloseWaits(connections[n])
       THEN /\ call' = [call EXCEPT ![k].at = "wait", ![k].name = n, ![k].left = @ \ {n}]
            /\ UNCHANGED <<lock, connections, state>>
       ELSE Proceed(k, n, call[k].left \ {n})
    /\ UNCHANGED <<attempts, auth, returned, replaced, broken, faults>>

\* The process has ended, by itself or by a signal, and the transport is closed.
Closed(k) ==
    /\ call[k].at = "wait"
    /\ CloseEnds(Memo(k))
    /\ Proceed(k, call[k].name, call[k].left)
    /\ UNCHANGED <<attempts, auth, returned, replaced, broken, faults>>

-----------------------------------------------------------------------------
(* Cancels, tool calls and the transports' own steps.                      *)

\* MUTANT of CancelCall: a cancelled call keeps the lock.
CancelCallLocked(k) ==
    /\ Fault
    /\ call[k].at \in {"lock", "backoff", "wait"} \/ (call[k].at = "start" /\ transport[k] = "new")
    /\ call' = [call EXCEPT ![k] = NoCall("end")] /\ UNCHANGED lock
    /\ UNCHANGED <<clientVars, connections, state, attempts, auth, returned, replaced, broken>>

\* The caller is cancelled at an await; async with releases the lock, and what the
\* call had registered or half closed stays as it is.
CancelCall(k) ==
    /\ Fault
    /\ call[k].at \in {"lock", "backoff", "wait"} \/ (call[k].at = "start" /\ transport[k] = "new")
    /\ End(k)
    /\ UNCHANGED <<clientVars, connections, state, attempts, auth, returned, replaced, broken>>

CancelHandshake(k) ==
    /\ Fault
    /\ call[k].at = "init"
    /\ Cancelled(k) /\ End(k)
    /\ UNCHANGED <<connections, state, attempts, auth, returned, replaced, broken>>

\* An adapter calls a tool.
ToolCall(t, c) ==
    /\ c \in returned
    /\ Request(t, c) /\ UNCHANGED managerVars

ToolReturns(t) == (Answered(t) \/ SendFails(t) \/ TimesOut(t)) /\ UNCHANGED managerVars

\* The timeout of call_tool(), or the adapter's, around request().
ToolDeadline(t) == Cancelled(t) /\ UNCHANGED managerVars

ReadLoopBreaks(c) ==
    /\ ReadLoopEnds(c)
    /\ IF peer[c] = "alive" THEN Fault /\ broken' = broken \cup {c} ELSE UNCHANGED <<faults, broken>>
    /\ UNCHANGED <<lock, connections, state, attempts, auth, call, returned, replaced>>

Transport(c) ==
    \/ \E r \in Requests, a \in Answers : Deliver(c, r, a) /\ UNCHANGED managerVars
    \/ (Garbage(c) \/ PeerDies(c)) /\ Fault
       /\ UNCHANGED <<lock, connections, state, attempts, auth, call, returned, replaced, broken>>
    \/ ReadLoopBreaks(c)

Acquire(k) == Suppressed(k) \/ Reuse(k) \/ Create(k) \/ Disconnect(k)
Handshake(k) == Connected(k) \/ AuthFails(k) \/ Retry(k) \/ HandshakeFails(k)
Steps(k) ==
    \/ Acquire(k) \/ Start(k) \/ StartFails(k) \/ Handshake(k) \/ BackoffEnds(k)
    \/ Drained(k) /\ UNCHANGED managerVars
    \/ \E n \in Names : CloseNext(k, n)
    \/ Closed(k)

\* All calls have ended; clients that live on are idle.
Quiet ==
    /\ \A k \in Calls : call[k].at = "end"
    /\ \A t \in Tools : req[t] \in {"done", "cancelled"} \/ returned = {}
    /\ UNCHANGED vars

Next ==
    \/ \E k \in Calls :
        \/ \E a \in Asked[k] : Ask(k, a[1], a[2])
        \/ Steps(k)
        \/ CancelCall(k) \/ CancelHandshake(k)
        \/ AuthAges(k) \/ Transport(k)
    \/ \E t \in Tools : \/ \E c \in Clients : ToolCall(t, c)
                        \/ Drained(t) /\ UNCHANGED managerVars
                        \/ ToolReturns(t) \/ ToolDeadline(t)
    \/ Quiet

Spec == Init /\ [][Next]_vars

\* The event loop runs what is ready, processes and handshakes are started or fail,
\* timers fire, a signalled process ends and _lock wakes its waiters.  The handshake
\* is small enough for drain() to return; a tool call may hang in drain().
Fairness ==
    /\ \A k \in Calls : WF_vars(Steps(k))
    /\ \A t \in Tools : WF_vars(ToolDeadline(t))

FairSpec == Spec /\ Fairness

-----------------------------------------------------------------------------
(* Properties.                                                             *)

\* A coroutine that waits for an unresolved future is still known to its client and
\* the transport is still open: whatever ends a transport (EOF, an error of the read
\* loop, close() with a request made while it terminates the process) wakes it at
\* once, long before its timeout.
NoOrphanWait ==
    \A r \in Requests : req[r] \in {"sending", "waiting"} /\ future[r] = "open" =>
        r \in pending[on[r]] /\ transport[on[r]] = "open"

\* _pending_requests holds requests somebody waits for, and those whose caller was
\* cancelled from outside, which nothing but an answer or a close removes.
PendingExact ==
    \A c \in Clients : \A r \in pending[c] :
        on[r] = c /\ req[r] \in {"sending", "waiting", "cancelled"}

\* The table of pending requests is exact: each request somebody waits for can still
\* be answered or rejected, and nothing else is in it.
RequestsExact == NoOrphanWait /\ PendingExact

\* A peer that lives with an open transport can be closed through the dictionary.
\* The exceptions are clients replaced by force_new and those whose connect() failed,
\* was refused, or was cancelled, and which a later connect() of the name replaced.
Owned ==
    \A c \in Clients : transport[c] = "open" /\ peer[c] = "alive" =>
        \/ \E n \in Names : connections[n] = c
        \/ c \in replaced
        \/ state[c] \in {"connecting", "reconnecting", "failed", "needs_auth"}

\* A connection leaves the dictionary, other than for a new one, only with its peer
\* gone and its transport closed, unless the read loop broke first: a transport that
\* has emitted its close no longer terminates its process.
DisconnectKills ==
    [][\A n \in Names : connections[n] # 0 /\ connections'[n] = 0 =>
          /\ transport'[connections[n]] = "closed"
          /\ peer'[connections[n]] # "alive" \/ connections[n] \in broken]_vars

\* While a 401 is fresh only force_new or a disconnect takes the connection from its
\* name: no plain connect() contacts the server.
AuthRespected ==
    [][\A n \in Names : connections[n] # 0 /\ auth[connections[n]] = "fresh" =>
          \/ connections'[n] \in {0, connections[n]}
          \/ call[connections'[n]].op = "force"]_vars

\* A connection leaves the dictionary for a reason and leaves nothing behind.
ConnectionsKept == DisconnectKills /\ AuthRespected

\* Every connect(), disconnect() and disconnect_all() returns or raises: no failure or
\* cancel of one leaves the lock taken, and the retries of a silent or broken server end.
CallsEnd == \A k \in Calls : call[k].at = "lock" ~> call[k].at = "end"

\* Every tool call ends, one that hangs in drain() by the deadline around it.
ToolsEnd == \A t \in Tools : req[t] = "sending" ~> req[t] \in {"done", "cancelled"}

\* Every call of the manager and every tool call ends.
AllEnd == CallsEnd /\ ToolsEnd
=============================================================================
