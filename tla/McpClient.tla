------------------------------ MODULE McpClient ------------------------------
(***************************************************************************)
(* McpProtocolClient and its transport: JSON-RPC requests whose futures    *)
(* wait in _pending_requests for the read loop, which answers, rejects or  *)
(* closes them, while timeouts and cancels take their callers away.        *)
(*                                                                         *)
(* Both transports have this shape; "the peer" is the subprocess of a      *)
(* StdioTransport or the far end of a WebSocketTransport.  Request ids are *)
(* fresh UUIDs, so a request is its own id.  The handshake of a client is  *)
(* the request named after the client.  Payloads, notifications and        *)
(* _initialized, which no code reads, are left out.                        *)
(***************************************************************************)
EXTENDS Naturals, FiniteSets

CONSTANTS
    Clients,      \* protocol clients, each with its own transport
    Tools         \* tool calls: one call_tool() of an adapter each

ASSUME ClientAssumption == Clients \cap Tools = {}

VARIABLES
    transport,    \* [Clients -> "new", "open" or "closed"]: _started and _closed
    peer,         \* [Clients -> "none", "alive" or "gone"]
    reading,      \* clients whose read loop runs
    pending,      \* [Clients -> _pending_requests]
    req,          \* [Requests -> progress of the coroutine request()]
    on,           \* [Requests -> client the request is made on]
    future        \* [Requests -> state of the request's future]

clientVars == <<transport, peer, reading, pending, req, on, future>>

Requests == Clients \cup Tools
Answers == {"result", "auth", "error"}

ClientInit ==
    /\ transport = [c \in Clients |-> "new"] /\ peer = [c \in Clients |-> "none"]
    /\ reading = {}
    /\ pending = [c \in Clients |-> {}]
    /\ req = [r \in Requests |-> "none"]
    /\ on = [r \in Requests |-> IF r \in Clients THEN r ELSE CHOOSE c \in Clients : TRUE]
    /\ future = [r \in Requests |-> "none"]

ClientTypeOK ==
    /\ transport \in [Clients -> {"new", "open", "closed"}]
    /\ peer \in [Clients -> {"none", "alive", "gone"}]
    /\ reading \subseteq {c \in Clients : transport[c] = "open"}
    /\ pending \in [Clients -> SUBSET Requests]
    /\ req \in [Requests -> {"none", "sending", "waiting", "done", "cancelled"}]
    /\ on \in [Requests -> Clients]
    /\ future \in [Requests -> {"none", "open", "cancelled"} \cup Answers]

-----------------------------------------------------------------------------
(* What rejects futures.                                                   *)

\* set_exception() on every future of rs that is not done.
Rejected(rs) == [r \in Requests |-> IF r \in rs /\ future[r] = "open" THEN "error" ELSE future[r]]

\* MUTANT of EmitClose: on_close is not wired to the client.
EmitCloseUnheard(c) ==
    /\ transport' = [transport EXCEPT ![c] = "closed"]
    /\ UNCHANGED <<future, pending>>

\* _emit_close, which tells the client once: it rejects and forgets all requests.
EmitClose(c) ==
    /\ transport' = [transport EXCEPT ![c] = "closed"]
    /\ IF transport[c] = "closed" THEN UNCHANGED <<future, pending>>
       ELSE /\ future' = Rejected(pending[c])
            /\ pending' = [pending EXCEPT ![c] = {}]

-----------------------------------------------------------------------------
(* The transport: starting, reading, dying.                                *)

\* start() spawns the process, or connects, and begins to read; initialize() writes
\* the handshake before anything else can run.  A transport starts once.
StartAndInitialize(c) ==
    /\ transport[c] = "new"
    /\ transport' = [transport EXCEPT ![c] = "open"]
    /\ peer' = [peer EXCEPT ![c] = "alive"] /\ reading' = reading \cup {c}
    /\ req' = [req EXCEPT ![c] = "sending"] /\ future' = [future EXCEPT ![c] = "open"]
    /\ pending' = [pending EXCEPT ![c] = {c}]
    /\ UNCHANGED on

\* The read loop takes the answer to a request from the pipe, in any order and as
\* late as the peer likes: _handle_response pops the entry and resolves the future.
\* An answer that finds no entry is dropped.  A tool call takes errors as it takes
\* results, so only a handshake tells them apart.
Deliver(c, r, a) ==
    /\ c \in reading /\ r \in pending[c] /\ (r \in Tools => a = "result")
    /\ future' = IF future[r] = "open" THEN [future EXCEPT ![r] = a] ELSE future
    /\ pending' = [pending EXCEPT ![c] = @ \ {r}]
    /\ UNCHANGED <<transport, peer, reading, req, on>>

\* A line that is not JSON-RPC: _handle_transport_error rejects every request.
Garbage(c) ==
    /\ c \in reading /\ peer[c] = "alive"
    /\ \E r \in pending[c] : future[r] = "open"
    /\ future' = Rejected(pending[c])
    /\ UNCHANGED <<transport, peer, reading, pending, req, on>>

\* The peer exits or drops the connection.
PeerDies(c) ==
    /\ peer[c] = "alive"
    /\ peer' = [peer EXCEPT ![c] = "gone"]
    /\ UNCHANGED <<transport, reading, pending, req, on, future>>

\* The read loop ends, at EOF or by an error of its own (a line longer than the
\* stream's limit) while the peer lives; its finally emits the close.
ReadLoopEnds(c) ==
    /\ c \in reading
    /\ reading' = reading \ {c}
    /\ EmitClose(c)
    /\ UNCHANGED <<peer, req, on>>

-----------------------------------------------------------------------------
(* request().                                                              *)

\* A request is registered and written; on a transport that is not open send()
\* raises at once and the entry is removed.
Request(r, c) ==
    /\ req[r] = "none"
    /\ on' = [on EXCEPT ![r] = c]
    /\ IF transport[c] = "open"
       THEN /\ req' = [req EXCEPT ![r] = "sending"]
            /\ future' = [future EXCEPT ![r] = "open"]
            /\ pending' = [pending EXCEPT ![c] = @ \cup {r}]
       ELSE /\ req' = [req EXCEPT ![r] = "done"]
            /\ UNCHANGED <<future, pending>>
    /\ UNCHANGED <<transport, peer, reading>>

\* drain() returns: the coroutine waits for its future, now with a timeout.
Drained(r) ==
    /\ req[r] = "sending"
    /\ req' = [req EXCEPT ![r] = "waiting"]
    /\ UNCHANGED <<transport, peer, reading, pending, on, future>>

\* request() ends: its entry is removed and nobody holds its future.
Leave(r) ==
    /\ req' = [req EXCEPT ![r] = "done"] /\ future' = [future EXCEPT ![r] = "none"]
    /\ pending' = [pending EXCEPT ![on[r]] = @ \ {r}]
    /\ UNCHANGED <<transport, peer, reading, on>>

\* The write fails because nobody reads.
SendFails(r) ==
    /\ req[r] = "sending" /\ peer[on[r]] = "gone"
    /\ Leave(r)

\* The future is resolved and request() returns or raises.
Answered(r) ==
    /\ req[r] = "waiting" /\ future[r] \in Answers
    /\ Leave(r)

\* The request's own timeout.  It may also hit between the answer and the wake-up,
\* and the answer is then lost.
TimesOut(r) == req[r] = "waiting" /\ Leave(r)

\* A cancel from outside (an enclosing timeout) is a CancelledError, which no
\* handler of request() catches: the entry stays.
Cancelled(r) ==
    /\ req[r] \in {"sending", "waiting"}
    /\ req' = [req EXCEPT ![r] = "cancelled"]
    /\ future' = IF req[r] = "waiting" /\ future[r] = "open"
                 THEN [future EXCEPT ![r] = "cancelled"] ELSE future
    /\ UNCHANGED <<transport, peer, reading, pending, on>>

-----------------------------------------------------------------------------
(* close().                                                                *)

\* The first half, before an await: reject and forget.  A transport that never
\* started has nothing to wait for and is closed at once; a closed one is left alone.
CloseBegins(c) ==
    /\ future' = Rejected(pending[c])
    /\ pending' = [pending EXCEPT ![c] = {}]
    /\ transport' = IF transport[c] = "new" THEN [transport EXCEPT ![c] = "closed"] ELSE transport
    /\ UNCHANGED <<peer, reading, req, on>>

CloseWaits(c) == transport[c] = "open"

\* MUTANT of CloseEnds: the process is left to notice that its pipes are closed.
CloseEndsUnkilled(c) ==
    /\ reading' = reading \ {c}
    /\ EmitClose(c)
    /\ UNCHANGED <<peer, req, on>>

\* The peer is gone, at the latest by SIGKILL; the read loop, if it still runs, is
\* cancelled and the close emitted.
CloseEnds(c) ==
    /\ peer' = [peer EXCEPT ![c] = "gone"]
    /\ reading' = reading \ {c}
    /\ EmitClose(c)
    /\ UNCHANGED <<req, on>>
=============================================================================
