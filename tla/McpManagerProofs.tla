-------------------------- MODULE McpManagerProofs ---------------------------
(***************************************************************************)
(* The promises of the MCP clients and of their manager, for every number  *)
(* of calls, clients, names, tools, retries and faults.                    *)
(***************************************************************************)
EXTENDS McpManager, TLAPS

-----------------------------------------------------------------------------
(***************************************************************************)
(* The inductive invariant.                                                *)
(***************************************************************************)

\* Entries wait on a transport that is open, and a handshake on its own client.
Answerable ==
    /\ \A c \in Clients : pending[c] # {} => transport[c] = "open"
    /\ \A c \in Clients : on[c] = c

ClientInv == ClientTypeOK /\ RequestsExact /\ Answerable

\* What a transport says about its peer.
Life ==
    \A c \in Clients :
        /\ transport[c] = "new" => peer[c] = "none"
        /\ transport[c] = "closed" => peer[c] # "alive" \/ c \in broken

\* The dictionary holds each client once, under the name its connect() works on,
\* and none that was not created or was disconnected.
Registered ==
    /\ \A n, m \in Names : connections[n] # 0 /\ connections[n] = connections[m] => n = m
    /\ \A n \in Names : connections[n] # 0 => state[connections[n]] \notin {"none", "disconnected"}
    /\ \A k \in Calls :
         /\ call[k].at \in {"none", "lock"} => \A n \in Names : connections[n] # k
         /\ call[k].at \in {"start", "init", "backoff"} => connections[call[k].name] = k

\* A disconnect works on names of the dictionary; the clients of disconnect_all()
\* that are no longer on its list are closed.
Waits(k, n) == n \in call[k].left \/ (call[k].at = "wait" /\ n = call[k].name)

Disconnecting ==
    \A k \in Calls : call[k].at \in {"close", "wait"} =>
        /\ \A n \in Names : Waits(k, n) => connections[n] # 0
        /\ call[k].op = "all" => \A n \in Names : connections[n] # 0 /\ ~Waits(k, n) =>
               transport[connections[n]] = "closed"

IInv == TypeOK /\ ClientInv /\ Life /\ Registered /\ Disconnecting /\ Owned

-----------------------------------------------------------------------------
(***************************************************************************)
(* The clients.                                                            *)
(***************************************************************************)

\* Clients and tools are different requests, and 0 is neither.
LEMMA Constants ==
  /\ Clients = Calls /\ 0 \notin Clients /\ Clients # {} /\ Clients \cap Tools = {}
  /\ \A k \in Calls : k \in Clients /\ k \in Requests /\ k # 0
  /\ \A n \in Tools : n \in Requests /\ n \notin Clients
<1>1. Clients = Calls /\ MaxCalls \in Nat /\ MaxCalls > 0
  BY ManagerAssumption
<1>2. 0 \notin Calls /\ 1 \in Calls
  BY <1>1 DEF Calls
<1>3. QED
  BY <1>1, <1>2, ClientAssumption DEF Requests

LEMMA InitClient == ClientInit => ClientInv
<1> SUFFICES ASSUME ClientInit PROVE ClientInv
  OBVIOUS
<1>1. \A r \in Requests : on[r] \in Clients /\ (r \in Clients => on[r] = r)
  BY Constants DEF ClientInit, Requests
<1>2. ClientTypeOK
  BY <1>1 DEF ClientInit, ClientTypeOK
<1>3. RequestsExact /\ Answerable
  BY <1>1 DEF ClientInit, RequestsExact, NoOrphanWait, PendingExact, Answerable, Requests
<1>4. QED
  BY <1>2, <1>3 DEF ClientInv

LEMMA RejectedFacts ==
  ASSUME ClientTypeOK, NEW rs, future' = Rejected(rs)
  PROVE  /\ future' \in [Requests -> {"none", "open", "cancelled"} \cup Answers]
         /\ \A r \in Requests : future'[r] = "open" <=> future[r] = "open" /\ r \notin rs
BY DEF ClientTypeOK, Rejected, Answers

\* Every future that waits on a client is rejected and its table emptied.
LEMMA RejectsAll ==
  ASSUME ClientInv, NEW c \in Clients, future' = Rejected(pending[c]),
         pending' = [pending EXCEPT ![c] = {}], UNCHANGED <<req, on>>,
         transport' \in [Clients -> {"new", "open", "closed"}],
         reading' \subseteq {d \in Clients : transport'[d] = "open"},
         peer' \in [Clients -> {"none", "alive", "gone"}],
         \A d \in Clients \ {c} : transport'[d] = transport[d]
  PROVE  ClientInv'
<1>1. /\ future' \in [Requests -> {"none", "open", "cancelled"} \cup Answers]
      /\ \A r \in Requests : future'[r] = "open" <=> future[r] = "open" /\ r \notin pending[c]
  BY RejectedFacts DEF ClientInv
<1>2. /\ pending' \in [Clients -> SUBSET Requests] /\ pending'[c] = {}
      /\ \A d \in Clients \ {c} : pending'[d] = pending[d]
  BY DEF ClientInv, ClientTypeOK
<1>3. ClientTypeOK'
  BY <1>1, <1>2 DEF ClientInv, ClientTypeOK
<1>4. RequestsExact'
  <2>1. NoOrphanWait'
    <3> SUFFICES ASSUME NEW r \in Requests, req[r] \in {"sending", "waiting"}, future'[r] = "open"
                 PROVE  r \in pending'[on[r]] /\ transport'[on[r]] = "open"
      BY DEF NoOrphanWait
    <3>1. future[r] = "open" /\ r \notin pending[c]
      BY <1>1
    <3>2. r \in pending[on[r]] /\ transport[on[r]] = "open" /\ on[r] \in Clients
      BY <3>1 DEF ClientInv, RequestsExact, NoOrphanWait, ClientTypeOK
    <3>3. on[r] # c
      BY <3>1, <3>2
    <3>4. QED
      BY <1>2, <3>2, <3>3
  <2>2. PendingExact'
    BY <1>2 DEF ClientInv, RequestsExact, PendingExact
  <2>3. QED
    BY <2>1, <2>2 DEF RequestsExact
<1>5. Answerable'
  BY <1>2 DEF ClientInv, Answerable
<1>6. QED
  BY <1>3, <1>4, <1>5 DEF ClientInv

LEMMA StartClient ==
  ASSUME ClientInv, NEW c \in Clients, StartAndInitialize(c)
  PROVE  ClientInv'
<1>1. /\ transport[c] = "new" /\ transport' = [transport EXCEPT ![c] = "open"]
      /\ peer' = [peer EXCEPT ![c] = "alive"] /\ reading' = reading \cup {c}
      /\ req' = [req EXCEPT ![c] = "sending"] /\ future' = [future EXCEPT ![c] = "open"]
      /\ pending' = [pending EXCEPT ![c] = {c}] /\ on' = on
  BY DEF StartAndInitialize
<1>2. c \in Requests /\ on[c] = c /\ pending[c] = {}
  BY <1>1 DEF ClientInv, Answerable, Requests
<1>3. ClientTypeOK'
  BY <1>1, <1>2 DEF ClientInv, ClientTypeOK
<1>4. /\ pending'[c] = {c} /\ transport'[c] = "open" /\ req'[c] = "sending"
      /\ \A d \in Clients \ {c} : pending'[d] = pending[d] /\ transport'[d] = transport[d]
      /\ \A r \in Requests \ {c} : req'[r] = req[r] /\ future'[r] = future[r]
  BY <1>1, <1>2 DEF ClientInv, ClientTypeOK
<1>5. NoOrphanWait'
  <2> SUFFICES ASSUME NEW r \in Requests, r # c, req[r] \in {"sending", "waiting"}, future[r] = "open"
               PROVE  r \in pending'[on[r]] /\ transport'[on[r]] = "open"
    BY <1>1, <1>2, <1>4 DEF NoOrphanWait
  <2>1. r \in pending[on[r]] /\ transport[on[r]] = "open" /\ on[r] \in Clients
    BY DEF ClientInv, RequestsExact, NoOrphanWait, ClientTypeOK
  <2>2. QED
    BY <1>1, <1>4, <2>1
<1>6. PendingExact'
  <2> SUFFICES ASSUME NEW d \in Clients, NEW r \in pending'[d]
               PROVE  on[r] = d /\ req'[r] \in {"sending", "waiting", "cancelled"}
    BY <1>1 DEF PendingExact
  <2>1. CASE d = c
    BY <1>2, <1>4, <2>1
  <2>2. CASE d # c
    <3>1. r \in pending[d] /\ r \in Requests
      BY <1>4, <2>2 DEF ClientInv, ClientTypeOK
    <3>2. on[r] = d /\ req[r] \in {"sending", "waiting", "cancelled"}
      BY <3>1 DEF ClientInv, RequestsExact, PendingExact
    <3>3. QED
      BY <1>2, <1>4, <2>2, <3>1, <3>2
  <2>3. QED
    BY <2>1, <2>2
<1>7. Answerable'
  BY <1>1, <1>4 DEF ClientInv, Answerable
<1>8. QED
  BY <1>3, <1>5, <1>6, <1>7 DEF ClientInv, RequestsExact

LEMMA DeliverClient ==
  ASSUME ClientInv, NEW c \in Clients, NEW r \in Requests, NEW a \in Answers, Deliver(c, r, a)
  PROVE  ClientInv'
<1>1. /\ r \in pending[c] /\ UNCHANGED <<transport, peer, reading, req, on>>
      /\ future' = (IF future[r] = "open" THEN [future EXCEPT ![r] = a] ELSE future)
      /\ pending' = [pending EXCEPT ![c] = @ \ {r}]
  BY DEF Deliver
<1>2. /\ future' \in [Requests -> {"none", "open", "cancelled"} \cup Answers] /\ future'[r] # "open"
      /\ \A q \in Requests \ {r} : future'[q] = future[q]
  BY <1>1 DEF ClientInv, ClientTypeOK, Answers
<1>3. /\ pending' \in [Clients -> SUBSET Requests] /\ pending'[c] = pending[c] \ {r}
      /\ \A d \in Clients \ {c} : pending'[d] = pending[d]
  BY <1>1 DEF ClientInv, ClientTypeOK
<1>4. ClientTypeOK'
  BY <1>1, <1>2, <1>3 DEF ClientInv, ClientTypeOK
<1>5. NoOrphanWait'
  <2> SUFFICES ASSUME NEW q \in Requests, req[q] \in {"sending", "waiting"}, future'[q] = "open"
               PROVE  q \in pending'[on[q]] /\ transport[on[q]] = "open"
    BY <1>1 DEF NoOrphanWait
  <2>1. q # r /\ future[q] = "open"
    BY <1>2
  <2>2. q \in pending[on[q]] /\ transport[on[q]] = "open" /\ on[q] \in Clients
    BY <2>1 DEF ClientInv, RequestsExact, NoOrphanWait, ClientTypeOK
  <2>3. QED
    BY <1>3, <2>1, <2>2
<1>6. PendingExact' /\ Answerable'
  BY <1>1, <1>3 DEF ClientInv, RequestsExact, PendingExact, Answerable
<1>7. QED
  BY <1>4, <1>5, <1>6 DEF ClientInv, RequestsExact

LEMMA GarbageClient ==
  ASSUME ClientInv, NEW c \in Clients, Garbage(c)
  PROVE  ClientInv'
<1>1. future' = Rejected(pending[c]) /\ UNCHANGED <<transport, peer, reading, pending, req, on>>
  BY DEF Garbage
<1>2. /\ future' \in [Requests -> {"none", "open", "cancelled"} \cup Answers]
      /\ \A r \in Requests : future'[r] = "open" <=> future[r] = "open" /\ r \notin pending[c]
  BY <1>1, RejectedFacts DEF ClientInv
<1>3. ClientTypeOK'
  BY <1>1, <1>2 DEF ClientInv, ClientTypeOK
<1>4. NoOrphanWait' /\ PendingExact' /\ Answerable'
  BY <1>1, <1>2 DEF ClientInv, RequestsExact, NoOrphanWait, PendingExact, Answerable
<1>5. QED
  BY <1>3, <1>4 DEF ClientInv, RequestsExact

LEMMA PeerDiesClient ==
  ASSUME ClientInv, NEW c \in Clients, PeerDies(c)
  PROVE  ClientInv'
<1>1. peer' = [peer EXCEPT ![c] = "gone"] /\ UNCHANGED <<transport, reading, pending, req, on, future>>
  BY DEF PeerDies
<1>2. QED
  BY <1>1 DEF ClientInv, ClientTypeOK, RequestsExact, NoOrphanWait, PendingExact, Answerable

\* _emit_close leaves a closed transport and nobody waiting on it.
LEMMA EmitCloseClient ==
  ASSUME ClientInv, NEW c \in Clients, EmitClose(c), reading' = reading \ {c},
         peer' \in [Clients -> {"none", "alive", "gone"}], UNCHANGED <<req, on>>
  PROVE  ClientInv'
<1>1. /\ transport' \in [Clients -> {"new", "open", "closed"}]
      /\ \A d \in Clients \ {c} : transport'[d] = transport[d]
  BY DEF EmitClose, ClientInv, ClientTypeOK
<1>2. reading' \subseteq {d \in Clients : transport'[d] = "open"}
  BY <1>1 DEF ClientInv, ClientTypeOK
<1>3. CASE transport[c] = "closed"
  <2>1. transport' = transport /\ UNCHANGED <<future, pending>>
    BY <1>3 DEF EmitClose, ClientInv, ClientTypeOK
  <2>2. QED
    BY <1>2, <2>1 DEF ClientInv, ClientTypeOK, RequestsExact, NoOrphanWait, PendingExact, Answerable
<1>4. CASE transport[c] # "closed"
  BY <1>1, <1>2, <1>4, RejectsAll DEF EmitClose
<1>5. QED
  BY <1>3, <1>4

LEMMA ReadLoopClient ==
  ASSUME ClientInv, NEW c \in Clients, ReadLoopEnds(c)
  PROVE  ClientInv'
BY EmitCloseClient DEF ReadLoopEnds, ClientInv, ClientTypeOK

LEMMA CloseEndsClient ==
  ASSUME ClientInv, NEW c \in Clients, CloseEnds(c)
  PROVE  ClientInv'
<1>1. peer' \in [Clients -> {"none", "alive", "gone"}]
  BY DEF CloseEnds, ClientInv, ClientTypeOK
<1>2. QED
  BY <1>1, EmitCloseClient DEF CloseEnds

LEMMA CloseBeginsClient ==
  ASSUME ClientInv, NEW c \in Clients, CloseBegins(c)
  PROVE  ClientInv'
<1>1. /\ transport' \in [Clients -> {"new", "open", "closed"}]
      /\ \A d \in Clients \ {c} : transport'[d] = transport[d]
      /\ \A d \in Clients : transport[d] = "open" => transport'[d] = "open"
  BY DEF CloseBegins, ClientInv, ClientTypeOK
<1>2. reading' \subseteq {d \in Clients : transport'[d] = "open"}
  BY <1>1 DEF CloseBegins, ClientInv, ClientTypeOK
<1>3. peer' \in [Clients -> {"none", "alive", "gone"}]
  BY DEF CloseBegins, ClientInv, ClientTypeOK
<1>4. QED
  BY <1>1, <1>2, <1>3, RejectsAll DEF CloseBegins

LEMMA RequestClient ==
  ASSUME ClientInv, NEW r \in Tools, NEW c \in Clients, Request(r, c)
  PROVE  ClientInv'
<1>1. /\ req[r] = "none" /\ on' = [on EXCEPT ![r] = c] /\ UNCHANGED <<transport, peer, reading>>
      /\ r \in Requests /\ r \notin Clients
  BY Constants DEF Request
<1>2. /\ on' \in [Requests -> Clients] /\ on'[r] = c /\ \A q \in Requests \ {r} : on'[q] = on[q]
      /\ \A d \in Clients : r \notin pending[d]
  BY <1>1 DEF ClientInv, ClientTypeOK, RequestsExact, PendingExact
<1>3. \A d \in Clients : on'[d] = d
  BY <1>1, <1>2 DEF ClientInv, Answerable, Requests
<1>4. CASE transport[c] = "open"
  <2>1. /\ req' = [req EXCEPT ![r] = "sending"] /\ future' = [future EXCEPT ![r] = "open"]
        /\ pending' = [pending EXCEPT ![c] = @ \cup {r}]
    BY <1>4 DEF Request
  <2>2. ClientTypeOK'
    BY <1>1, <1>2, <2>1 DEF ClientInv, ClientTypeOK
  <2>3. /\ req'[r] = "sending" /\ pending'[c] = pending[c] \cup {r}
        /\ \A q \in Requests \ {r} : req'[q] = req[q] /\ future'[q] = future[q]
        /\ \A d \in Clients \ {c} : pending'[d] = pending[d]
    BY <1>1, <2>1 DEF ClientInv, ClientTypeOK
  <2>4. NoOrphanWait'
    <3> SUFFICES ASSUME NEW q \in Requests, q # r, req[q] \in {"sending", "waiting"}, future[q] = "open"
                 PROVE  q \in pending'[on[q]] /\ transport[on[q]] = "open"
      BY <1>1, <1>2, <1>4, <2>3 DEF NoOrphanWait
    <3>1. q \in pending[on[q]] /\ transport[on[q]] = "open" /\ on[q] \in Clients
      BY DEF ClientInv, RequestsExact, NoOrphanWait, ClientTypeOK
    <3>2. QED
      BY <2>3, <3>1
  <2>5. PendingExact'
    <3> SUFFICES ASSUME NEW d \in Clients, NEW q \in pending'[d]
                 PROVE  on'[q] = d /\ req'[q] \in {"sending", "waiting", "cancelled"}
      BY DEF PendingExact
    <3>1. CASE q = r
      BY <1>2, <2>3, <3>1
    <3>2. CASE q # r
      <4>1. q \in pending[d] /\ q \in Requests
        BY <2>3, <3>2 DEF ClientInv, ClientTypeOK
      <4>2. QED
        BY <1>2, <2>3, <3>2, <4>1 DEF ClientInv, RequestsExact, PendingExact
    <3>3. QED
      BY <3>1, <3>2
  <2>6. Answerable'
    BY <1>1, <1>3, <1>4, <2>3 DEF ClientInv, Answerable
  <2>7. QED
    BY <2>2, <2>4, <2>5, <2>6 DEF ClientInv, RequestsExact
<1>5. CASE transport[c] # "open"
  <2>1. req' = [req EXCEPT ![r] = "done"] /\ UNCHANGED <<future, pending>>
    BY <1>5 DEF Request
  <2>2. ClientTypeOK'
    BY <1>1, <1>2, <2>1 DEF ClientInv, ClientTypeOK
  <2>3. req'[r] = "done" /\ \A q \in Requests \ {r} : req'[q] = req[q]
    BY <1>1, <2>1 DEF ClientInv, ClientTypeOK
  <2>4. NoOrphanWait'
    BY <1>1, <1>2, <2>1, <2>3 DEF ClientInv, RequestsExact, NoOrphanWait
  <2>5. PendingExact'
    BY <1>2, <2>1, <2>3 DEF ClientInv, ClientTypeOK, RequestsExact, PendingExact
  <2>6. Answerable'
    BY <1>1, <1>3, <2>1 DEF ClientInv, Answerable
  <2>7. QED
    BY <2>2, <2>4, <2>5, <2>6 DEF ClientInv, RequestsExact
<1>6. QED
  BY <1>4, <1>5

\* A request moves on: it waits, or its caller is taken away.
LEMMA DrainedClient ==
  ASSUME ClientInv, NEW r \in Requests, Drained(r) \/ Cancelled(r)
  PROVE  ClientInv'
<1>1. /\ UNCHANGED <<transport, peer, reading, pending, on>> /\ req[r] \in {"sending", "waiting"}
      /\ req' \in {[req EXCEPT ![r] = "waiting"], [req EXCEPT ![r] = "cancelled"]}
      /\ future' = future \/ (future' = [future EXCEPT ![r] = "cancelled"])
  BY DEF Drained, Cancelled
<1>2. ClientTypeOK'
  BY <1>1 DEF ClientInv, ClientTypeOK
<1>3. /\ req'[r] \in {"waiting", "cancelled"} /\ \A q \in Requests \ {r} : req'[q] = req[q]
      /\ \A q \in Requests : future'[q] = "open" => future[q] = "open"
  BY <1>1 DEF ClientInv, ClientTypeOK
<1>4. NoOrphanWait'
  BY <1>1, <1>3 DEF ClientInv, RequestsExact, NoOrphanWait
<1>5. PendingExact' /\ Answerable'
  BY <1>1, <1>3 DEF ClientInv, ClientTypeOK, RequestsExact, PendingExact, Answerable
<1>6. QED
  BY <1>2, <1>4, <1>5 DEF ClientInv, RequestsExact

LEMMA LeaveClient ==
  ASSUME ClientInv, NEW r \in Requests, Leave(r)
  PROVE  ClientInv'
<1>1. /\ req' = [req EXCEPT ![r] = "done"] /\ future' = [future EXCEPT ![r] = "none"]
      /\ pending' = [pending EXCEPT ![on[r]] = @ \ {r}]
      /\ UNCHANGED <<transport, peer, reading, on>>
  BY DEF Leave
<1>2. ClientTypeOK'
  BY <1>1 DEF ClientInv, ClientTypeOK
<1>3. /\ req'[r] = "done" /\ future'[r] = "none"
      /\ \A q \in Requests \ {r} : req'[q] = req[q] /\ future'[q] = future[q]
      /\ \A d \in Clients : pending'[d] \subseteq pending[d] /\ pending[d] \ {r} \subseteq pending'[d]
      /\ r \notin pending'[on[r]]
  BY <1>1 DEF ClientInv, ClientTypeOK
<1>4. \A d \in Clients : r \notin pending'[d]
  BY <1>3 DEF ClientInv, RequestsExact, PendingExact
<1>5. NoOrphanWait'
  <2> SUFFICES ASSUME NEW q \in Requests, q # r, req[q] \in {"sending", "waiting"}, future[q] = "open"
               PROVE  q \in pending'[on[q]] /\ transport[on[q]] = "open"
    BY <1>1, <1>3 DEF NoOrphanWait
  <2>1. q \in pending[on[q]] /\ transport[on[q]] = "open" /\ on[q] \in Clients
    BY DEF ClientInv, RequestsExact, NoOrphanWait, ClientTypeOK
  <2>2. QED
    BY <1>3, <2>1
<1>6. PendingExact'
  BY <1>1, <1>3, <1>4 DEF ClientInv, ClientTypeOK, RequestsExact, PendingExact
<1>7. Answerable'
  BY <1>1, <1>3 DEF ClientInv, Answerable
<1>8. QED
  BY <1>2, <1>5, <1>6, <1>7 DEF ClientInv, RequestsExact

\* The end of a handshake, of whatever kind, leaves the transport alone.
LEMMA HandshakeClient ==
  ASSUME ClientInv, NEW r \in Requests,
         Answered(r) \/ TimesOut(r) \/ SendFails(r) \/ Cancelled(r) \/ Drained(r)
  PROVE  ClientInv' /\ UNCHANGED <<transport, peer>>
<1>1. CASE Leave(r)
  BY <1>1, LeaveClient DEF Leave
<1>2. CASE Cancelled(r) \/ Drained(r)
  BY <1>2, DrainedClient DEF Cancelled, Drained
<1>3. QED
  BY <1>1, <1>2 DEF Answered, TimesOut, SendFails

LEMMA SameClient ==
  ASSUME ClientInv, UNCHANGED clientVars
  PROVE  ClientInv' /\ UNCHANGED <<transport, peer>>
BY DEF clientVars, ClientInv, ClientTypeOK, RequestsExact, NoOrphanWait, PendingExact, Answerable, Rejected

-----------------------------------------------------------------------------
(***************************************************************************)
(* The manager.                                                            *)
(***************************************************************************)

Held == {"start", "init", "backoff", "close", "wait"}
CallType == [at : {"none", "lock", "start", "init", "backoff", "close", "wait", "end"},
             op : {"none", "connect", "force", "disconnect", "all"}, name : Names, left : SUBSET Names]

\* The two halves of what TypeOK says of the manager.
Locking ==
    /\ lock \in {0} \cup Calls /\ call \in [Calls -> CallType]
    /\ \A k \in Calls : call[k].at \in Held <=> lock = k

Dictionaries ==
    /\ connections \in [Names -> {0} \cup Clients]
    /\ state \in [Clients -> {"none", "connecting", "connected", "reconnecting",
                              "needs_auth", "failed", "disconnected"}]
    /\ attempts \in [Clients -> 0 .. MaxAttempts]
    /\ auth \in [Clients -> {"none", "fresh", "old"}]
    /\ faults \in 0 .. MaxFaults /\ returned \subseteq Clients /\ replaced \subseteq Clients
    /\ broken \subseteq Clients

LEMMA Halves ==
  /\ TypeOK <=> ClientTypeOK /\ Locking /\ Dictionaries
  /\ TypeOK' <=> ClientTypeOK' /\ Locking' /\ Dictionaries'
BY DEF TypeOK, Locking, Dictionaries, CallType, Held

LEMMA NoCallType ==
  ASSUME NEW at \in {"none", "end"}
  PROVE  NoCall(at) \in CallType /\ NoCall(at).at = at
<1>1. (CHOOSE n \in Names : TRUE) \in Names
  BY ManagerAssumption
<1>2. QED
  BY <1>1 DEF NoCall, CallType

LEMMA InitIInv == Init => IInv
<1> SUFFICES ASSUME Init PROVE IInv
  OBVIOUS
<1>1. ClientInv
  BY InitClient DEF Init
<1>2. Locking
  <2>1. NoCall("none") \in CallType /\ NoCall("none").at = "none"
    BY NoCallType
  <2>2. QED
    BY <2>1, Constants DEF Init, Locking, Held
<1>3. Dictionaries
  BY ManagerAssumption DEF Init, Dictionaries
<1>4. \A k \in Calls : call[k].at = "none"
  BY NoCallType DEF Init
<1>5. Life /\ Registered /\ Disconnecting /\ Owned
  BY <1>4, Constants DEF Init, ClientInit, Life, Registered, Disconnecting, Owned
<1>6. QED
  BY <1>1, <1>2, <1>3, <1>5, Halves DEF IInv, ClientInv

LEMMA EndFacts ==
  ASSUME Locking, NEW k \in Calls, End(k)
  PROVE  Locking' /\ call'[k].at = "end" /\ \A j \in Calls \ {k} : call'[j] = call[j]
<1>1. NoCall("end") \in CallType /\ NoCall("end").at = "end"
  BY NoCallType
<1>2. /\ call' = [call EXCEPT ![k] = NoCall("end")] /\ lock' = IF lock = k THEN 0 ELSE lock
  BY DEF End
<1>3. call' \in [Calls -> CallType] /\ call'[k].at = "end" /\ \A j \in Calls \ {k} : call'[j] = call[j]
  BY <1>1, <1>2 DEF Locking
<1>4. QED
  BY <1>2, <1>3, Constants DEF Locking, Held

\* The holder of the lock goes on.
LEMMA GotoFacts ==
  ASSUME Locking, NEW k \in Calls, call[k].at \in Held, NEW at \in Held, Goto(k, at), lock' = lock
  PROVE  /\ Locking' /\ call'[k].at = at /\ call'[k].name = call[k].name
         /\ \A j \in Calls \ {k} : call'[j] = call[j]
<1> DEFINE moved == [call[k] EXCEPT !.at = at]
<1>1. call \in [Calls -> CallType] /\ call[k] \in CallType
  BY DEF Locking
<1>2. call' = [call EXCEPT ![k] = moved]
  BY <1>1 DEF Goto
<1>3. moved \in CallType /\ moved.at = at /\ moved.name = call[k].name
  BY <1>1 DEF CallType, Held
<1> HIDE DEF moved
<1>4. /\ call' \in [Calls -> CallType] /\ call'[k].at = at /\ call'[k].name = call[k].name
      /\ \A j \in Calls \ {k} : call'[j] = call[j]
  BY <1>1, <1>2, <1>3
<1>5. QED
  BY <1>4 DEF Locking

Registers(c) == \E n \in Names : connections[n] = c
Live(c) == transport[c] = "open" /\ peer[c] = "alive"
Connecting == {"start", "init", "backoff"}

\* What a step has to show that leaves the dictionary alone: it moves one call, to its
\* end or within connect(), and touches only clients that are registered.
LEMMA CallKeepsIInv ==
  ASSUME IInv, NEW k \in Calls, ClientInv', Life', Locking', Dictionaries',
         UNCHANGED <<connections, replaced>>,
         \A j \in Calls \ {k} : call'[j] = call[j],
         \/ call'[k].at = "end" \/ call'[k] = call[k]
         \/ /\ call[k].at \in Connecting /\ call'[k].at \in Connecting
            /\ call'[k].name = call[k].name,
         \A c \in Clients : \/ state'[c] = state[c]
                            \/ Registers(c) /\ state'[c] \notin {"none", "disconnected"},
         \A c \in Clients : transport[c] = "closed" => transport'[c] = "closed",
         \A c \in Clients : Live(c)' => Live(c) \/ Registers(c)
  PROVE  IInv'
<1>1. \A n \in Names : connections[n] # 0 => connections[n] \in Clients
  BY DEF IInv, TypeOK
<1>2. Registered'
  <2>1. \A n \in Names : connections[n] # 0 => state'[connections[n]] \notin {"none", "disconnected"}
    BY <1>1 DEF IInv, Registered
  <2>2. ASSUME NEW j \in Calls
        PROVE  /\ call'[j].at \in {"none", "lock"} => \A n \in Names : connections[n] # j
               /\ call'[j].at \in Connecting => connections[call'[j].name] = j
    BY DEF IInv, Registered, Connecting
  <2>3. QED
    BY <2>1, <2>2 DEF IInv, Registered, Connecting
<1>3. Disconnecting'
  <2> SUFFICES ASSUME NEW j \in Calls, call'[j].at \in {"close", "wait"}
               PROVE  /\ \A n \in Names : Waits(j, n)' => connections[n] # 0
                      /\ call'[j].op = "all" => \A n \in Names : connections[n] # 0 /\ ~Waits(j, n)' =>
                           transport'[connections[n]] = "closed"
    BY DEF Disconnecting
  <2>1. call'[j] = call[j]
    BY DEF Connecting
  <2>2. QED
    BY <1>1, <2>1 DEF IInv, Disconnecting, Waits
<1>4. Owned'
  <2> SUFFICES ASSUME NEW c \in Clients, Live(c)'
               PROVE  \/ Registers(c) \/ c \in replaced
                      \/ state'[c] \in {"connecting", "reconnecting", "failed", "needs_auth"}
    BY DEF Owned, Live, Registers
  <2>1. QED
    BY DEF IInv, Owned, Live, Registers
<1>5. QED
  BY <1>2, <1>3, <1>4, Halves DEF IInv, ClientInv

\* The halves of the invariant, for the steps below.
LEMMA Parts ==
  ASSUME IInv
  PROVE  ClientInv /\ Life /\ Locking /\ Dictionaries
BY Halves DEF IInv

LEMMA SameLife ==
  ASSUME Life, UNCHANGED <<transport, peer, broken>>
  PROVE  /\ Life' /\ \A c \in Clients : Live(c)' => Live(c)
         /\ \A c \in Clients : transport[c] = "closed" => transport'[c] = "closed"
BY DEF Life, Live

LEMMA AskStep ==
  ASSUME IInv, NEW k \in Calls, NEW a \in Asked[k], Ask(k, a[1], a[2])
  PROVE  IInv'
<1>1. a[1] \in {"connect", "force", "disconnect", "all"} /\ a[2] \in Names
  BY ManagerAssumption
<1> DEFINE asked == [at |-> "lock", op |-> a[1], name |-> a[2], left |-> {}]
<1>2. /\ call[k].at = "none" /\ call' = [call EXCEPT ![k] = asked]
      /\ UNCHANGED <<clientVars, lock, connections, state, attempts, auth, returned, replaced, broken, faults>>
  BY DEF Ask
<1>3. asked \in CallType /\ asked.at = "lock"
  BY <1>1 DEF CallType
<1> HIDE DEF asked
<1>4. ClientInv' /\ Life' /\ UNCHANGED <<transport, peer>>
  BY <1>2, SameClient, SameLife, Parts
<1>5. /\ call' \in [Calls -> CallType] /\ call'[k].at = "lock" /\ \A j \in Calls \ {k} : call'[j] = call[j]
  BY <1>2, <1>3, Parts DEF Locking
<1>6. Locking' /\ Dictionaries'
  BY <1>2, <1>5, Parts DEF Locking, Dictionaries, Held
<1>7. Registered'
  BY <1>2, <1>5 DEF IInv, Registered
<1>8. Disconnecting'
  <2>1. \A j \in Calls : call'[j].at \in {"close", "wait"} => call'[j] = call[j]
    BY <1>5
  <2>2. QED
    BY <1>2, <1>4, <2>1 DEF IInv, Disconnecting, Waits
<1>9. Owned'
  BY <1>2, <1>4 DEF IInv, Owned
<1>10. QED
  BY <1>4, <1>6, <1>7, <1>8, <1>9, Halves DEF IInv, ClientInv

LEMMA FaultFacts ==
  ASSUME Dictionaries, Fault
  PROVE  faults' \in 0 .. MaxFaults
BY ManagerAssumption DEF Dictionaries, Fault

\* A call ends and nothing else happens.
LEMMA EndStep ==
  ASSUME IInv, NEW k \in Calls, End(k), faults' \in 0 .. MaxFaults,
         UNCHANGED <<clientVars, connections, state, attempts, auth, returned, replaced, broken>>
  PROVE  IInv'
<1>1. ClientInv' /\ Life' /\ \A c \in Clients : Live(c)' => Live(c)
  BY SameClient, SameLife, Parts
<1>2. \A c \in Clients : transport[c] = "closed" => transport'[c] = "closed"
  BY DEF clientVars
<1>3. Locking' /\ call'[k].at = "end" /\ \A j \in Calls \ {k} : call'[j] = call[j]
  BY EndFacts, Parts
<1>4. Dictionaries'
  BY Parts DEF Dictionaries
<1>5. QED
  BY <1>1, <1>2, <1>3, <1>4, CallKeepsIInv

LEMMA AcquireEnds ==
  ASSUME IInv, NEW k \in Calls, Suppressed(k) \/ Reuse(k) \/ CancelCall(k)
  PROVE  IInv'
<1>1. /\ End(k) /\ UNCHANGED <<clientVars, connections, state, attempts, auth, returned, replaced, broken>>
  BY DEF Suppressed, Reuse, CancelCall
<1>2. faults' \in 0 .. MaxFaults
  BY FaultFacts, Parts DEF Suppressed, Reuse, CancelCall, Dictionaries
<1>3. QED
  BY <1>1, <1>2, EndStep

LEMMA CreateStep ==
  ASSUME IInv, NEW k \in Calls, Create(k)
  PROVE  IInv'
<1> DEFINE n == call[k].name
           old == connections[n]
<1>1. /\ call[k].at = "lock" /\ call[k].op \in {"connect", "force"} /\ lock = 0
      /\ ~AuthSuppressed(k) /\ ~Reusable(k)
      /\ lock' = k /\ Goto(k, "start")
      /\ connections' = [connections EXCEPT ![n] = k]
      /\ state' = [state EXCEPT ![k] = "connecting"]
      /\ replaced' = IF call[k].op = "force" THEN replaced \cup ({old} \ {0}) ELSE replaced
      /\ UNCHANGED <<clientVars, attempts, auth, returned, broken, faults>>
  BY DEF Create, Memo
<1>2. ClientInv' /\ Life' /\ UNCHANGED <<transport, peer>>
  BY <1>1, SameClient, SameLife, Parts
<1>3. /\ call \in [Calls -> CallType] /\ call[k] \in CallType /\ n \in Names /\ k \in Clients /\ k # 0
      /\ connections \in [Names -> {0} \cup Clients] /\ old \in {0} \cup Clients
  BY Parts, Constants DEF Locking, CallType, Dictionaries
<1> DEFINE started == [call[k] EXCEPT !.at = "start"]
<1>4. call' = [call EXCEPT ![k] = started] /\ started \in CallType /\ started.at = "start" /\ started.name = n
  BY <1>1, <1>3 DEF Goto, CallType
<1> HIDE DEF started
<1>5. /\ call' \in [Calls -> CallType] /\ call'[k].at = "start" /\ call'[k].name = n
      /\ \A j \in Calls \ {k} : call'[j] = call[j] /\ call[j].at \notin Held
  <2>1. \A j \in Calls : call[j].at \notin Held
    BY <1>1, Parts, Constants DEF Locking
  <2>2. QED
    BY <1>3, <1>4, <2>1
<1> HIDE DEF n
<1>6. Locking'
  BY <1>1, <1>5, Parts DEF Locking, Held
<1>7. /\ connections' \in [Names -> {0} \cup Clients] /\ connections'[n] = k
      /\ \A m \in Names \ {n} : connections'[m] = connections[m]
      /\ \A m \in Names : connections[m] # k
  BY <1>1, <1>3 DEF IInv, Registered
<1>8. Dictionaries'
  BY <1>1, <1>3, <1>7, Parts DEF Dictionaries
<1>9. state'[k] = "connecting" /\ \A c \in Clients \ {k} : state'[c] = state[c]
  BY <1>1, <1>3, Parts DEF Dictionaries
<1>10. Registered'
  <2>1. \A m, p \in Names : connections'[m] # 0 /\ connections'[m] = connections'[p] => m = p
    BY <1>3, <1>7 DEF IInv, Registered
  <2>2. \A m \in Names : connections'[m] # 0 => state'[connections'[m]] \notin {"none", "disconnected"}
    BY <1>3, <1>7, <1>9 DEF IInv, Registered
  <2>3. ASSUME NEW j \in Calls
        PROVE  /\ call'[j].at \in {"none", "lock"} => \A m \in Names : connections'[m] # j
               /\ call'[j].at \in {"start", "init", "backoff"} => connections'[call'[j].name] = j
    BY <1>5, <1>7 DEF IInv, Registered, Held
  <2>4. QED
    BY <2>1, <2>2, <2>3 DEF Registered
<1>11. Disconnecting'
  BY <1>5 DEF Disconnecting, Held
<1>12. Owned'
  <2> SUFFICES ASSUME NEW c \in Clients, Live(c)
               PROVE  \/ \E m \in Names : connections'[m] = c
                      \/ c \in replaced'
                      \/ state'[c] \in {"connecting", "reconnecting", "failed", "needs_auth"}
    BY <1>2 DEF Owned, Live
  <2>1. CASE c = k
    BY <1>9, <2>1
  <2>2. CASE c # k /\ c # old
    BY <1>1, <1>7, <1>9, <2>2 DEF IInv, Owned, Live, n
  <2>3. CASE c # k /\ c = old
    <3>1. CASE call[k].op = "force"
      BY <1>1, <1>3, <2>3, <3>1, Constants
    <3>2. CASE call[k].op = "connect"
      <4>1. Known(k) /\ Memo(k) = old
        BY <2>3, <3>2, Constants DEF Known, Memo, n
      <4>2. state[old] # "connected"
        BY <1>1, <4>1 DEF Reusable
      <4>3. state[old] \notin {"none", "disconnected"}
        BY <1>3, <2>3, <4>1, Constants DEF IInv, Registered, n
      <4>4. state[c] \in {"none", "connecting", "connected", "reconnecting",
                          "needs_auth", "failed", "disconnected"}
        BY Parts DEF Dictionaries
      <4>5. QED
        BY <1>9, <2>3, <4>2, <4>3, <4>4
    <3>3. QED
      BY <1>1, <3>1, <3>2
  <2>4. QED
    BY <2>1, <2>2, <2>3
<1>13. QED
  BY <1>2, <1>6, <1>8, <1>10, <1>11, <1>12, Halves DEF IInv, ClientInv

\* A step of connect() on its own client, which is registered.
LEMMA ConnectKeepsIInv ==
  ASSUME IInv, NEW k \in Calls, call[k].at \in Connecting, ClientInv', Life', Locking', Dictionaries',
         UNCHANGED <<connections, replaced>>,
         \A j \in Calls \ {k} : call'[j] = call[j],
         \/ call'[k].at = "end"
         \/ call'[k].at \in Connecting /\ call'[k].name = call[k].name,
         state' = state \/ \E s \in {"connected", "needs_auth", "reconnecting", "failed"} :
                               state' = [state EXCEPT ![k] = s],
         \A c \in Clients \ {k} : transport'[c] = transport[c] /\ peer'[c] = peer[c],
         transport[k] = "closed" => transport'[k] = "closed"
  PROVE  IInv'
<1>1. Registers(k)
  <2>1. call[k].name \in Names
    BY Parts DEF Locking, CallType
  <2>2. QED
    BY <2>1 DEF IInv, Registered, Connecting, Registers
<1>2. \A c \in Clients : \/ state'[c] = state[c]
                         \/ Registers(c) /\ state'[c] \notin {"none", "disconnected"}
  BY <1>1, Parts DEF Dictionaries
<1>3. \A c \in Clients : Live(c)' => Live(c) \/ Registers(c)
  BY <1>1 DEF Live
<1>4. QED
  BY <1>2, <1>3, CallKeepsIInv

LEMMA StartStep ==
  ASSUME IInv, NEW k \in Calls, Start(k)
  PROVE  IInv'
<1>1. /\ call[k].at = "start" /\ StartAndInitialize(k) /\ Goto(k, "init")
      /\ UNCHANGED <<lock, connections, state, attempts, auth, returned, replaced, broken, faults>>
  BY DEF Start
<1>2. ClientInv'
  BY <1>1, StartClient, Parts, Constants
<1>3. /\ transport[k] = "new" /\ transport'[k] = "open" /\ peer'[k] = "alive"
      /\ \A c \in Clients \ {k} : transport'[c] = transport[c] /\ peer'[c] = peer[c]
  BY <1>1, Parts, Constants DEF StartAndInitialize, ClientInv, ClientTypeOK
<1>4. Life'
  BY <1>1, <1>3, Parts DEF Life
<1>5. /\ Locking' /\ call'[k].at = "init" /\ call'[k].name = call[k].name
      /\ \A j \in Calls \ {k} : call'[j] = call[j]
  BY <1>1, GotoFacts, Parts DEF Held
<1>6. Dictionaries'
  BY <1>1, Parts DEF Dictionaries
<1>7. QED
  BY <1>1, <1>2, <1>3, <1>4, <1>5, <1>6, ConnectKeepsIInv DEF Connecting

\* connect() ends with a new state of its client.
LEMMA ConnectEnds ==
  ASSUME IInv, NEW k \in Calls, call[k].at \in Connecting, ClientInv', UNCHANGED <<transport, peer>>,
         End(k), NEW s \in {"connected", "needs_auth", "reconnecting", "failed"},
         state' = [state EXCEPT ![k] = s], UNCHANGED <<connections, replaced, broken, faults>>,
         attempts' \in [Clients -> 0 .. MaxAttempts], auth' \in [Clients -> {"none", "fresh", "old"}],
         returned' \subseteq Clients
  PROVE  IInv'
<1>1. /\ Locking' /\ call'[k].at = "end" /\ \A j \in Calls \ {k} : call'[j] = call[j]
  BY EndFacts, Parts
<1>2. Dictionaries'
  BY Parts, Constants DEF Dictionaries
<1>3. Life'
  BY SameLife, Parts
<1>4. QED
  BY <1>1, <1>2, <1>3, ConnectKeepsIInv

LEMMA StartFailsStep ==
  ASSUME IInv, NEW k \in Calls, StartFails(k)
  PROVE  IInv'
<1>1. /\ call[k].at = "start" /\ End(k) /\ state' = [state EXCEPT ![k] = "failed"]
      /\ UNCHANGED <<clientVars, connections, attempts, auth, returned, replaced, broken, faults>>
  BY DEF StartFails, Fail
<1>2. ClientInv' /\ UNCHANGED <<transport, peer>>
  BY <1>1, SameClient, Parts
<1>3. QED
  BY <1>1, <1>2, ConnectEnds, Parts DEF Dictionaries, Connecting

LEMMA HandshakeStep ==
  ASSUME IInv, NEW k \in Calls, Handshake(k)
  PROVE  IInv'
<1>1. k \in Requests /\ k \in Clients /\ ClientInv
  BY Constants, Parts
<1>2. CASE Connected(k)
  <2>1. /\ call[k].at = "init" /\ Answered(k) /\ End(k)
        /\ state' = [state EXCEPT ![k] = "connected"] /\ attempts' = [attempts EXCEPT ![k] = 0]
        /\ returned' = returned \cup {k} /\ UNCHANGED <<connections, auth, replaced, broken, faults>>
    BY <1>2 DEF Connected
  <2>2. ClientInv' /\ UNCHANGED <<transport, peer>>
    BY <1>1, <2>1, HandshakeClient
  <2>3. attempts' \in [Clients -> 0 .. MaxAttempts] /\ returned' \subseteq Clients
    BY <1>1, <2>1, Parts, ManagerAssumption DEF Dictionaries
  <2>4. QED
    BY <2>1, <2>2, <2>3, ConnectEnds, Parts DEF Dictionaries, Connecting
<1>3. CASE AuthFails(k)
  <2>1. /\ call[k].at = "init" /\ Answered(k) /\ End(k)
        /\ state' = [state EXCEPT ![k] = "needs_auth"] /\ auth' = [auth EXCEPT ![k] = "fresh"]
        /\ UNCHANGED <<connections, attempts, returned, replaced, broken, faults>>
    BY <1>3 DEF AuthFails
  <2>2. ClientInv' /\ UNCHANGED <<transport, peer>>
    BY <1>1, <2>1, HandshakeClient
  <2>3. auth' \in [Clients -> {"none", "fresh", "old"}]
    BY <1>1, <2>1, Parts DEF Dictionaries
  <2>4. QED
    BY <2>1, <2>2, <2>3, ConnectEnds, Parts DEF Dictionaries, Connecting
<1>4. CASE Retry(k)
  <2>1. /\ call[k].at = "init" /\ Answered(k)
        /\ UNCHANGED <<connections, auth, returned, replaced, broken, faults>>
    BY <1>4 DEF Retry
  <2>2. ClientInv' /\ UNCHANGED <<transport, peer>>
    BY <1>1, <2>1, HandshakeClient
  <2>3. CASE attempts[k] >= MaxAttempts
    <3>1. End(k) /\ state' = [state EXCEPT ![k] = "failed"] /\ UNCHANGED attempts
      BY <1>4, <2>3 DEF Retry, Fail
    <3>2. QED
      BY <2>1, <2>2, <3>1, ConnectEnds, Parts DEF Dictionaries, Connecting
  <2>4. CASE ~(attempts[k] >= MaxAttempts)
    <3>1. /\ state' = [state EXCEPT ![k] = "reconnecting"]
          /\ attempts' = [attempts EXCEPT ![k] = @ + 1] /\ Goto(k, "backoff") /\ UNCHANGED lock
      BY <1>4, <2>4 DEF Retry
    <3>2. /\ Locking' /\ call'[k].at = "backoff" /\ call'[k].name = call[k].name
          /\ \A j \in Calls \ {k} : call'[j] = call[j]
      BY <2>1, <3>1, GotoFacts, Parts DEF Held
    <3>3. attempts' \in [Clients -> 0 .. MaxAttempts]
      BY <1>1, <2>4, <3>1, Parts, ManagerAssumption DEF Dictionaries
    <3>4. Dictionaries'
      BY <1>1, <2>1, <3>1, <3>3, Parts DEF Dictionaries
    <3>5. Life'
      BY <2>1, <2>2, SameLife, Parts
    <3>6. QED
      BY <2>1, <2>2, <3>1, <3>2, <3>4, <3>5, ConnectKeepsIInv DEF Connecting
  <2>5. QED
    BY <2>3, <2>4
<1>5. CASE HandshakeFails(k)
  <2>1. /\ call[k].at = "init" /\ (TimesOut(k) \/ SendFails(k)) /\ End(k)
        /\ state' = [state EXCEPT ![k] = "failed"]
        /\ UNCHANGED <<connections, attempts, auth, returned, replaced, broken, faults>>
    BY <1>5 DEF HandshakeFails, Fail
  <2>2. ClientInv' /\ UNCHANGED <<transport, peer>>
    BY <1>1, <2>1, HandshakeClient
  <2>3. QED
    BY <2>1, <2>2, ConnectEnds, Parts DEF Dictionaries, Connecting
<1>6. QED
  BY <1>2, <1>3, <1>4, <1>5 DEF Handshake

LEMMA BackoffStep ==
  ASSUME IInv, NEW k \in Calls, BackoffEnds(k)
  PROVE  IInv'
<1>1. /\ call[k].at = "backoff"
      /\ UNCHANGED <<clientVars, connections, attempts, auth, returned, replaced, broken, faults>>
  BY DEF BackoffEnds
<1>2. ClientInv' /\ Life' /\ UNCHANGED <<transport, peer>>
  BY <1>1, SameClient, SameLife, Parts
<1>3. CASE attempts[k] >= MaxAttempts
  <2>1. End(k) /\ state' = [state EXCEPT ![k] = "failed"]
    BY <1>3 DEF BackoffEnds, Fail
  <2>2. QED
    BY <1>1, <1>2, <2>1, ConnectEnds, Parts DEF Dictionaries, Connecting
<1>4. CASE ~(attempts[k] >= MaxAttempts)
  <2>1. Goto(k, "start") /\ UNCHANGED <<lock, state>>
    BY <1>4 DEF BackoffEnds
  <2>2. /\ Locking' /\ call'[k].at = "start" /\ call'[k].name = call[k].name
        /\ \A j \in Calls \ {k} : call'[j] = call[j]
    BY <1>1, <2>1, GotoFacts, Parts DEF Held
  <2>3. Dictionaries'
    BY <1>1, <2>1, Parts DEF Dictionaries
  <2>4. QED
    BY <1>1, <1>2, <2>1, <2>2, <2>3, ConnectKeepsIInv DEF Connecting
<1>5. QED
  BY <1>3, <1>4

LEMMA CancelHandshakeStep ==
  ASSUME IInv, NEW k \in Calls, CancelHandshake(k)
  PROVE  IInv'
<1>1. /\ call[k].at = "init" /\ Cancelled(k) /\ End(k)
      /\ UNCHANGED <<connections, state, attempts, auth, returned, replaced, broken>>
  BY DEF CancelHandshake
<1>2. ClientInv' /\ Life' /\ UNCHANGED <<transport, peer>>
  <2>1. ClientInv' /\ UNCHANGED <<transport, peer>>
    BY <1>1, HandshakeClient, Parts, Constants
  <2>2. QED
    BY <1>1, <2>1, SameLife, Parts
<1>3. /\ Locking' /\ call'[k].at = "end" /\ \A j \in Calls \ {k} : call'[j] = call[j]
  BY <1>1, EndFacts, Parts
<1>4. Dictionaries'
  BY <1>1, Parts, FaultFacts DEF Dictionaries, CancelHandshake
<1>5. QED
  BY <1>1, <1>2, <1>3, <1>4, ConnectKeepsIInv DEF Connecting

\* A step of the transports or of the tools: no call moves and no transport opens.
LEMMA TransportKeepsIInv ==
  ASSUME IInv, ClientInv', Life',
         UNCHANGED <<lock, connections, state, attempts, call, returned, replaced>>,
         auth' \in [Clients -> {"none", "fresh", "old"}],
         faults' \in 0 .. MaxFaults, broken' \subseteq Clients,
         \A c \in Clients : transport[c] = "closed" => transport'[c] = "closed",
         \A c \in Clients : Live(c)' => Live(c)
  PROVE  IInv'
<1>1. Locking' /\ Dictionaries'
  BY Parts DEF Locking, Dictionaries
<1>2. PICK k \in Calls : TRUE
  BY Constants
<1>3. QED
  BY <1>1, <1>2, CallKeepsIInv

LEMMA TransportStep ==
  ASSUME IInv, NEW c \in Clients, Transport(c)
  PROVE  IInv'
<1>1. ClientInv /\ Life /\ Dictionaries
  BY Parts
<1>2. ASSUME NEW r \in Requests, NEW a \in Answers, Deliver(c, r, a), UNCHANGED managerVars
      PROVE  IInv'
  <2>1. ClientInv' /\ UNCHANGED <<transport, peer>>
    BY <1>1, <1>2, DeliverClient DEF Deliver
  <2>2. /\ Life' /\ \A d \in Clients : Live(d)' => Live(d)
        /\ \A d \in Clients : transport[d] = "closed" => transport'[d] = "closed"
    BY <1>1, <1>2, <2>1, SameLife DEF managerVars
  <2>3. QED
    BY <1>1, <1>2, <2>1, <2>2, TransportKeepsIInv DEF managerVars, Dictionaries
<1>3. CASE /\ Garbage(c) /\ Fault
           /\ UNCHANGED <<lock, connections, state, attempts, auth, call, returned, replaced, broken>>
  <2>1. ClientInv' /\ UNCHANGED <<transport, peer>>
    BY <1>1, <1>3, GarbageClient DEF Garbage
  <2>2. /\ Life' /\ \A d \in Clients : Live(d)' => Live(d)
        /\ \A d \in Clients : transport[d] = "closed" => transport'[d] = "closed"
    BY <1>1, <1>3, <2>1, SameLife
  <2>3. QED
    BY <1>1, <1>3, <2>1, <2>2, TransportKeepsIInv, FaultFacts DEF Dictionaries
<1>4. CASE /\ PeerDies(c) /\ Fault
           /\ UNCHANGED <<lock, connections, state, attempts, auth, call, returned, replaced, broken>>
  <2>1. ClientInv'
    BY <1>1, <1>4, PeerDiesClient
  <2>2. /\ transport' = transport /\ peer[c] = "alive" /\ peer'[c] = "gone"
        /\ \A d \in Clients \ {c} : peer'[d] = peer[d]
    BY <1>1, <1>4 DEF PeerDies, ClientInv, ClientTypeOK
  <2>3. Life' /\ \A d \in Clients : Live(d)' => Live(d)
    BY <1>1, <1>4, <2>2 DEF Life, Live
  <2>4. QED
    BY <1>1, <1>4, <2>1, <2>2, <2>3, TransportKeepsIInv, FaultFacts DEF Dictionaries
<1>5. CASE ReadLoopBreaks(c)
  <2>1. ClientInv'
    BY <1>1, <1>5, ReadLoopClient DEF ReadLoopBreaks
  <2>2. /\ transport'[c] = "closed" /\ peer' = peer
        /\ \A d \in Clients \ {c} : transport'[d] = transport[d]
    BY <1>1, <1>5 DEF ReadLoopBreaks, ReadLoopEnds, EmitClose, ClientInv, ClientTypeOK
  <2>3. /\ peer[c] = "alive" => c \in broken'
        /\ broken \subseteq broken' /\ broken' \subseteq Clients
        /\ faults' \in 0 .. MaxFaults
    BY <1>1, <1>5, FaultFacts DEF ReadLoopBreaks, Dictionaries
  <2>4. Life' /\ \A d \in Clients : Live(d)' => Live(d)
    BY <1>1, <2>2, <2>3 DEF Life, Live
  <2>5. UNCHANGED <<lock, connections, state, attempts, auth, call, returned, replaced>>
    BY <1>5 DEF ReadLoopBreaks
  <2>6. QED
    BY <1>1, <2>1, <2>2, <2>3, <2>4, <2>5, TransportKeepsIInv DEF Dictionaries
<1>6. QED
  BY <1>2, <1>3, <1>4, <1>5 DEF Transport

LEMMA AuthAgesStep ==
  ASSUME IInv, NEW c \in Clients, AuthAges(c)
  PROVE  IInv'
<1>1. /\ auth' = [auth EXCEPT ![c] = "old"]
      /\ UNCHANGED <<clientVars, lock, connections, state, attempts, call, returned, replaced, broken, faults>>
  BY DEF AuthAges
<1>2. ClientInv' /\ UNCHANGED <<transport, peer>>
  BY <1>1, SameClient, Parts
<1>3. /\ Life' /\ \A d \in Clients : Live(d)' => Live(d)
      /\ \A d \in Clients : transport[d] = "closed" => transport'[d] = "closed"
  BY <1>1, <1>2, SameLife, Parts
<1>4. QED
  BY <1>1, <1>2, <1>3, TransportKeepsIInv, Parts DEF Dictionaries

\* Tool calls, and the handshake's drain().
LEMMA RequestStep ==
  ASSUME IInv, NEW r \in Requests, UNCHANGED managerVars,
         \/ Drained(r) \/ Cancelled(r) \/ Answered(r) \/ SendFails(r) \/ TimesOut(r)
         \/ r \in Tools /\ \E c \in Clients : Request(r, c)
         \/ UNCHANGED clientVars
  PROVE  IInv'
<1>1. ClientInv' /\ UNCHANGED <<transport, peer>>
  <2>1. CASE r \in Tools /\ \E c \in Clients : Request(r, c)
    BY <2>1, RequestClient, Parts DEF Request
  <2>2. CASE UNCHANGED clientVars
    BY <2>2, SameClient, Parts
  <2>3. QED
    BY <2>1, <2>2, HandshakeClient, Parts
<1>2. /\ Life' /\ \A d \in Clients : Live(d)' => Live(d)
      /\ \A d \in Clients : transport[d] = "closed" => transport'[d] = "closed"
  BY <1>1, SameLife, Parts DEF managerVars
<1>3. QED
  BY <1>1, <1>2, TransportKeepsIInv, Parts DEF Dictionaries, managerVars

\* The record of a call that closes clients.
LEMMA ClosingFacts ==
  ASSUME Locking, NEW k \in Calls, NEW at \in {"close", "wait"}, NEW n \in Names, NEW left \in SUBSET Names,
         call' = [call EXCEPT ![k].at = at, ![k].name = n, ![k].left = left], lock' = k,
         lock \in {0, k}
  PROVE  /\ Locking' /\ call'[k].at = at /\ call'[k].name = n /\ call'[k].left = left
         /\ call'[k].op = call[k].op
         /\ \A j \in Calls \ {k} : call'[j] = call[j] /\ call[j].at \notin Held
<1> DEFINE moved == [call[k] EXCEPT !.at = at, !.name = n, !.left = left]
<1>1. call \in [Calls -> CallType] /\ call[k] \in CallType
  BY DEF Locking
<1>2. call' = [call EXCEPT ![k] = moved]
  BY <1>1
<1>3. /\ moved \in CallType /\ moved.at = at /\ moved.name = n /\ moved.left = left
      /\ moved.op = call[k].op
  BY <1>1 DEF CallType
<1> HIDE DEF moved
<1>4. /\ call' \in [Calls -> CallType] /\ call'[k] = moved /\ \A j \in Calls \ {k} : call'[j] = call[j]
  <2>1. ASSUME NEW f \in [Calls -> CallType], NEW x \in CallType, NEW g, g = [f EXCEPT ![k] = x]
        PROVE  g \in [Calls -> CallType] /\ g[k] = x /\ \A j \in Calls \ {k} : g[j] = f[j]
    BY <2>1
  <2>2. QED
    BY <1>1, <1>2, <1>3, <2>1, ZenonT(30)
<1>5. \A j \in Calls \ {k} : call[j].at \notin Held
  BY Constants DEF Locking
<1>6. QED
  BY <1>3, <1>4, <1>5, Constants DEF Locking, Held

\* A connection that leaves the dictionary, other than for a new one, is closed.
Removed ==
    \A n \in Names : connections[n] # 0 /\ connections'[n] = 0 => transport'[connections[n]] = "closed"

LEMMA DisconnectStep ==
  ASSUME IInv, NEW k \in Calls, Disconnect(k)
  PROVE  IInv'
<1>1. /\ call[k].at = "lock" /\ lock = 0
      /\ UNCHANGED <<clientVars, connections, state, attempts, auth, returned, replaced, broken, faults>>
  BY DEF Disconnect
<1>2. CASE Targets(k) = {}
  BY <1>1, <1>2, EndStep, Parts DEF Disconnect, Dictionaries
<1>3. CASE Targets(k) # {}
  <2>1. lock' = k /\ call' = [call EXCEPT ![k].at = "close", ![k].left = Targets(k)]
    BY <1>3 DEF Disconnect
  <2>2. Targets(k) \in SUBSET Names /\ call \in [Calls -> CallType] /\ call[k] \in CallType
    BY Parts DEF Targets, Locking
  <2> DEFINE moved == [call[k] EXCEPT !.at = "close", !.left = Targets(k)]
  <2>3. /\ call' = [call EXCEPT ![k] = moved] /\ moved \in CallType /\ moved.at = "close"
        /\ moved.left = Targets(k) /\ moved.op = call[k].op
    BY <2>1, <2>2 DEF CallType
  <2> HIDE DEF moved
  <2>4. /\ call' \in [Calls -> CallType] /\ call'[k] = moved /\ \A j \in Calls \ {k} : call'[j] = call[j]
    BY <2>2, <2>3
  <2>5. \A j \in Calls : call[j].at \notin Held
    BY <1>1, Parts, Constants DEF Locking
  <2>6. Locking' /\ Dictionaries'
    BY <1>1, <2>1, <2>3, <2>4, <2>5, Parts DEF Locking, Dictionaries, Held
  <2>7. ClientInv' /\ Life' /\ UNCHANGED <<transport, peer>>
    BY <1>1, SameClient, SameLife, Parts
  <2>8. Registered'
    BY <1>1, <2>3, <2>4, <2>5 DEF IInv, Registered, Held
  <2>9. Disconnecting'
    BY <1>1, <2>3, <2>4, <2>5 DEF Disconnecting, Held, Waits, Targets
  <2>10. Owned'
    BY <1>1, <2>7 DEF IInv, Owned
  <2>11. QED
    BY <2>6, <2>7, <2>8, <2>9, <2>10, Halves DEF IInv, ClientInv
<1>4. QED
  BY <1>2, <1>3

\* After the client of n is closed.
LEMMA ProceedStep ==
  ASSUME IInv, NEW k \in Calls, call[k].at \in {"close", "wait"}, NEW n \in Names, connections[n] # 0,
         NEW left \in SUBSET Names, left \subseteq call[k].left,
         \A m \in Names : Waits(k, m) => m \in left \/ m = n,
         ClientInv', Life', transport'[connections[n]] = "closed",
         \A c \in Clients : transport[c] = "closed" => transport'[c] = "closed",
         \A c \in Clients : Live(c)' => Live(c),
         Proceed(k, n, left), UNCHANGED <<attempts, auth, returned, replaced, broken, faults>>
  PROVE  IInv' /\ Removed
<1> USE Parts
<1>1. /\ lock = k /\ \A j \in Calls \ {k} : call[j].at \notin Held
      /\ \A m \in Names : connections[m] # 0 => connections[m] \in Clients
  BY Constants DEF Locking, Held, Dictionaries
<1>2. CASE left # {}
  <2>1. /\ call' = [call EXCEPT ![k].at = "close", ![k].name = n, ![k].left = left]
        /\ UNCHANGED <<lock, connections, state>>
    BY <1>2 DEF Proceed
  <2>2. /\ Locking' /\ call'[k].at = "close" /\ call'[k].name = n /\ call'[k].left = left
        /\ call'[k].op = call[k].op /\ \A j \in Calls \ {k} : call'[j] = call[j]
    BY <1>1, <2>1, ClosingFacts, ZenonT(30)
  <2>3. Dictionaries'
    BY <2>1 DEF Dictionaries
  <2>4. Registered'
    BY <2>1, <2>2, ZenonT(30) DEF IInv, Registered
  <2>5. Disconnecting'
    <3>1. \A m \in Names : (Waits(k, m)' <=> m \in left) /\ (m \in left => Waits(k, m))
      BY <2>2 DEF Waits
    <3>2. \A m \in Names : m \in left => connections[m] # 0
      BY <3>1 DEF IInv, Disconnecting
    <3>3. call[k].op = "all" => \A m \in Names : connections[m] # 0 /\ m \notin left =>
             transport'[connections[m]] = "closed"
      BY <1>1 DEF IInv, Disconnecting
    <3>4. \A j \in Calls \ {k} : call'[j].at \notin {"close", "wait"}
      BY <1>1, <2>2 DEF Held
    <3>5. QED
      BY <2>1, <2>2, <3>1, <3>2, <3>3, <3>4 DEF Disconnecting
  <2>6. Owned'
    BY <2>1 DEF IInv, Owned, Live
  <2>7. QED
    BY <2>1, <2>2, <2>3, <2>4, <2>5, <2>6, Halves DEF IInv, ClientInv, Removed
<1>3. CASE left = {} /\ call[k].op = "all"
  <2>1. End(k) /\ connections' = [m \in Names |-> 0] /\ UNCHANGED state
    BY <1>3 DEF Proceed
  <2>2. Locking' /\ call'[k].at = "end" /\ \A j \in Calls \ {k} : call'[j] = call[j]
    BY <2>1, EndFacts
  <2>3. Dictionaries'
    BY <2>1 DEF Dictionaries
  <2>4. \A m \in Names : connections[m] # 0 => transport'[connections[m]] = "closed"
    BY <1>1, <1>3 DEF IInv, Disconnecting
  <2>5. Registered' /\ Disconnecting'
    BY <1>1, <2>1, <2>2, Constants DEF Registered, Disconnecting, Held
  <2>6. Owned'
    BY <2>1, <2>4, Constants DEF IInv, Owned, Live
  <2>7. QED
    BY <2>2, <2>3, <2>4, <2>5, <2>6, Halves DEF IInv, ClientInv, Removed
<1>4. CASE left = {} /\ call[k].op # "all"
  <2> DEFINE gone == connections[n]
  <2>1. /\ End(k) /\ connections' = [connections EXCEPT ![n] = 0]
        /\ state' = [state EXCEPT ![gone] = "disconnected"]
    BY <1>4 DEF Proceed
  <2>2. Locking' /\ call'[k].at = "end" /\ \A j \in Calls \ {k} : call'[j] = call[j]
    BY <2>1, EndFacts
  <2>3. gone \in Clients /\ transport'[gone] = "closed"
    BY <1>1
  <2>4. /\ connections'[n] = 0 /\ \A m \in Names \ {n} : connections'[m] = connections[m]
        /\ \A c \in Clients \ {gone} : state'[c] = state[c]
        /\ Dictionaries'
    BY <2>1, <2>3 DEF Dictionaries
  <2>5. \A m \in Names \ {n} : connections[m] # 0 => connections[m] # gone
    BY DEF IInv, Registered
  <2>6. Registered'
    <3>1. \A m, p \in Names : connections'[m] # 0 /\ connections'[m] = connections'[p] => m = p
      BY <2>4 DEF IInv, Registered
    <3>2. \A m \in Names : connections'[m] # 0 => state'[connections'[m]] \notin {"none", "disconnected"}
      BY <1>1, <2>4, <2>5 DEF IInv, Registered
    <3>3. ASSUME NEW j \in Calls
          PROVE  /\ call'[j].at \in {"none", "lock"} => \A m \in Names : connections'[m] # j
                 /\ call'[j].at \notin {"start", "init", "backoff"}
      BY <1>1, <2>2, <2>4, Constants DEF IInv, Registered, Held
    <3>4. QED
      BY <3>1, <3>2, <3>3 DEF Registered
  <2>7. Disconnecting'
    BY <1>1, <2>2 DEF Disconnecting, Held
  <2>8. Owned'
    <3> SUFFICES ASSUME NEW c \in Clients, Live(c)'
                 PROVE  \/ \E m \in Names : connections'[m] = c
                        \/ c \in replaced
                        \/ state'[c] \in {"connecting", "reconnecting", "failed", "needs_auth"}
      BY DEF Owned, Live
    <3>1. c # gone
      BY <2>3 DEF Live
    <3>2. QED
      BY <2>4, <3>1 DEF IInv, Owned, Live
  <2>9. Removed
    BY <2>3, <2>4 DEF Removed
  <2>10. QED
    BY <2>2, <2>4, <2>6, <2>7, <2>8, <2>9, Halves DEF IInv, ClientInv
<1>5. QED
  BY <1>2, <1>3, <1>4

LEMMA CloseNextStep ==
  ASSUME IInv, NEW k \in Calls, NEW n \in Names, CloseNext(k, n)
  PROVE  IInv' /\ Removed
<1> DEFINE c == connections[n]
<1>1. /\ call[k].at = "close" /\ n \in call[k].left /\ CloseBegins(c)
      /\ UNCHANGED <<attempts, auth, returned, replaced, broken, faults>>
  BY DEF CloseNext
<1>2. c # 0 /\ c \in Clients
  <2>1. c # 0
    BY <1>1 DEF IInv, Disconnecting, Waits
  <2>2. QED
    BY <2>1, Parts DEF Dictionaries
<1>3. ClientInv'
  BY <1>1, <1>2, CloseBeginsClient, Parts
<1>4. /\ transport'[c] = (IF transport[c] = "new" THEN "closed" ELSE transport[c])
      /\ \A d \in Clients \ {c} : transport'[d] = transport[d]
      /\ peer' = peer
  BY <1>1, <1>2, Parts DEF CloseBegins, ClientInv, ClientTypeOK
<1>5. Life' /\ \A d \in Clients : Live(d)' => Live(d)
  BY <1>1, <1>4, Parts DEF Life, Live
<1>6. \A d \in Clients : transport[d] = "closed" => transport'[d] = "closed"
  BY <1>4
<1>7. call[k].left \in SUBSET Names /\ lock = k
  BY <1>1, Parts DEF Locking, CallType, Held
<1>8. CASE CloseWaits(c)
  <2>1. /\ call' = [call EXCEPT ![k].at = "wait", ![k].name = n, ![k].left = @ \ {n}]
        /\ UNCHANGED <<lock, connections, state>>
    BY <1>8 DEF CloseNext
  <2>2. call' = [call EXCEPT ![k].at = "wait", ![k].name = n, ![k].left = call[k].left \ {n}]
    BY <2>1, Parts DEF Locking, CallType
  <2>3. /\ Locking' /\ call'[k].at = "wait" /\ call'[k].name = n /\ call'[k].left = call[k].left \ {n}
        /\ call'[k].op = call[k].op
        /\ \A j \in Calls \ {k} : call'[j] = call[j] /\ call[j].at \notin Held
    <3>1. call[k].left \ {n} \in SUBSET Names
      BY <1>7
    <3>2. QED
      BY <1>7, <2>1, <2>2, <3>1, ClosingFacts, Parts
  <2>4. Dictionaries'
    BY <1>1, <2>1, Parts DEF Dictionaries
  <2>5. Registered'
    BY <1>1, <2>1, <2>3 DEF IInv, Registered
  <2>6. Disconnecting'
    <3>1. \A m \in Names : Waits(k, m)' <=> Waits(k, m)
      BY <1>1, <2>3 DEF Waits
    <3>2. \A m \in Names : connections[m] # 0 => connections[m] \in Clients
      BY Parts DEF Dictionaries
    <3>3. /\ \A m \in Names : Waits(k, m) => connections[m] # 0
          /\ call[k].op = "all" => \A m \in Names : connections[m] # 0 /\ ~Waits(k, m) =>
               transport'[connections[m]] = "closed"
      BY <1>1, <1>6, <3>2 DEF IInv, Disconnecting
    <3>4. QED
      BY <2>1, <2>3, <3>1, <3>3, ZenonT(30) DEF Disconnecting, Held
  <2>7. Owned'
    BY <1>1, <1>5, <2>1 DEF IInv, Owned, Live
  <2>8. QED
    BY <1>3, <1>5, <2>1, <2>3, <2>4, <2>5, <2>6, <2>7, Halves DEF IInv, ClientInv, Removed
<1>9. CASE ~CloseWaits(c)
  <2>1. Proceed(k, n, call[k].left \ {n})
    BY <1>9 DEF CloseNext
  <2>2. transport'[c] = "closed"
    BY <1>2, <1>4, <1>9, Parts DEF CloseWaits, ClientInv, ClientTypeOK
  <2>3. /\ call[k].left \ {n} \in SUBSET Names /\ call[k].left \ {n} \subseteq call[k].left
        /\ \A m \in Names : Waits(k, m) => m \in call[k].left \ {n} \/ m = n
    BY <1>1, <1>7 DEF Waits
  <2>4. QED
    BY <1>1, <1>2, <1>3, <1>5, <1>6, <2>1, <2>2, <2>3, ProceedStep
<1>10. QED
  BY <1>8, <1>9

LEMMA ClosedStep ==
  ASSUME IInv, NEW k \in Calls, Closed(k)
  PROVE  IInv' /\ Removed
<1> DEFINE n == call[k].name
           c == connections[n]
<1>1. /\ call[k].at = "wait" /\ CloseEnds(c) /\ Proceed(k, n, call[k].left)
      /\ UNCHANGED <<attempts, auth, returned, replaced, broken, faults>>
  BY DEF Closed, Memo
<1>2. n \in Names /\ call[k].left \in SUBSET Names /\ c # 0 /\ c \in Clients
  <2>1. n \in Names /\ call[k].left \in SUBSET Names
    BY Parts DEF Locking, CallType
  <2>2. c # 0
    BY <1>1, <2>1 DEF IInv, Disconnecting, Waits
  <2>3. QED
    BY <2>1, <2>2, Parts DEF Dictionaries
<1>3. ClientInv'
  BY <1>1, <1>2, CloseEndsClient, Parts
<1>4. /\ transport'[c] = "closed" /\ peer'[c] = "gone"
      /\ \A d \in Clients \ {c} : transport'[d] = transport[d] /\ peer'[d] = peer[d]
  BY <1>1, <1>2, Parts DEF CloseEnds, EmitClose, ClientInv, ClientTypeOK
<1>5. Life' /\ \A d \in Clients : Live(d)' => Live(d)
  BY <1>1, <1>4, Parts DEF Life, Live
<1>6. \A d \in Clients : transport[d] = "closed" => transport'[d] = "closed"
  BY <1>4
<1>7. \A m \in Names : Waits(k, m) => m \in call[k].left \/ m = n
  BY DEF Waits
<1>8. QED
  BY <1>1, <1>2, <1>3, <1>4, <1>5, <1>6, <1>7, ProceedStep

\* Every step keeps the invariant, and takes from the dictionary only what is closed.
LEMMA NextIInv ==
  ASSUME IInv, [Next]_vars
  PROVE  IInv'
<1> USE Constants
<1>1. ASSUME NEW k \in Calls, Steps(k) PROVE IInv'
  <2>1. ASSUME Drained(k), UNCHANGED managerVars PROVE IInv'
    BY <2>1, RequestStep
  <2>2. ASSUME NEW n \in Names, CloseNext(k, n) PROVE IInv'
    BY <2>2, CloseNextStep
  <2>3. CASE Closed(k)
    BY <2>3, ClosedStep
  <2>4. QED
    BY <1>1, <2>1, <2>2, <2>3, AcquireEnds, CreateStep, DisconnectStep, StartStep, StartFailsStep,
       HandshakeStep, BackoffStep DEF Steps, Acquire
<1>2. ASSUME NEW k \in Calls, CancelCall(k) \/ CancelHandshake(k) \/ AuthAges(k) \/ Transport(k)
      PROVE  IInv'
  BY <1>2, AcquireEnds, CancelHandshakeStep, AuthAgesStep, TransportStep
<1>3. ASSUME NEW k \in Calls, NEW a \in Asked[k], Ask(k, a[1], a[2]) PROVE IInv'
  BY <1>3, AskStep
<1>4. ASSUME NEW r \in Tools,
             \/ \E c \in Clients : ToolCall(r, c)
             \/ Drained(r) /\ UNCHANGED managerVars
             \/ ToolReturns(r) \/ ToolDeadline(r)
      PROVE  IInv'
  BY <1>4, RequestStep DEF ToolCall, ToolReturns, ToolDeadline
<1>5. CASE UNCHANGED vars
  BY <1>5, RequestStep DEF vars
<1>6. QED
  BY <1>1, <1>2, <1>3, <1>4, <1>5 DEF Next, Quiet

LEMMA Invariance == Spec => []IInv
BY InitIInv, NextIInv, PTL DEF Spec

\* What can take a connection from the dictionary or put another in its place.
LEMMA DictionaryChanges ==
  ASSUME [Next]_vars, connections' # connections
  PROVE  \E k \in Calls : \/ Create(k) \/ Closed(k) \/ \E n \in Names : CloseNext(k, n)
BY DEF Next, Quiet, vars, managerVars, Ask, Steps, Acquire, Suppressed, Reuse, Disconnect, Start,
       StartFails, Handshake, Connected, AuthFails, Retry, HandshakeFails, BackoffEnds, CancelCall,
       CancelHandshake, AuthAges, Transport, ReadLoopBreaks, ToolCall, ToolReturns, ToolDeadline

-----------------------------------------------------------------------------
(***************************************************************************)
(* The theorems.                                                           *)
(***************************************************************************)

\* The manager's and the clients' state keeps its types; _lock is held exactly by the
\* call that is between acquiring and releasing it.
THEOREM ManagerTypes == Spec => []TypeOK
<1>1. IInv => TypeOK
  BY DEF IInv
<1>2. QED
  BY <1>1, Invariance, PTL

\* request(), close() and the read loop, interleaved in any way: who waits for a future
\* can still be answered or rejected, and _pending_requests holds nobody else but
\* requests whose callers were cancelled.
THEOREM ExactRequests == Spec => []RequestsExact
<1>1. IInv => RequestsExact
  BY DEF IInv, ClientInv
<1>2. QED
  BY <1>1, Invariance, PTL

\* connect(), disconnect(), disconnect_all() and cancels of them: a live peer can be
\* reached through the dictionary, but for those replaced or never connected.
THEOREM Ownership == Spec => []Owned
<1>1. IInv => Owned
  BY DEF IInv
<1>2. QED
  BY <1>1, Invariance, PTL

\* disconnect() and disconnect_all() leave no process behind, and a fresh 401 keeps
\* connect() from contacting the server.
THEOREM KeptConnections == Spec => ConnectionsKept
<1>1. ASSUME IInv, IInv', [Next]_vars, NEW n \in Names, connections[n] # 0, connections'[n] = 0
      PROVE  /\ transport'[connections[n]] = "closed"
             /\ peer'[connections[n]] # "alive" \/ connections[n] \in broken
  <2>1. connections[n] \in Clients /\ connections \in [Names -> {0} \cup Clients]
    BY <1>1, Parts DEF Dictionaries
  <2>2. PICK k \in Calls : \/ Create(k) \/ Closed(k) \/ \E m \in Names : CloseNext(k, m)
    BY <1>1, DictionaryChanges
  <2>3. ~Create(k)
    BY <1>1, <2>1, Constants DEF Create
  <2>4. Removed /\ UNCHANGED broken
    BY <1>1, <2>2, <2>3, ClosedStep, CloseNextStep DEF Closed, CloseNext
  <2>5. QED
    BY <1>1, <2>1, <2>4 DEF IInv, Life, Removed
<1>2. ASSUME IInv, [Next]_vars, NEW n \in Names, connections[n] # 0, auth[connections[n]] = "fresh"
      PROVE  connections'[n] \in {0, connections[n]} \/ call[connections'[n]].op = "force"
  <2> SUFFICES ASSUME connections'[n] \notin {0, connections[n]}
               PROVE  call[connections'[n]].op = "force"
    OBVIOUS
  <2>1. connections \in [Names -> {0} \cup Clients]
    BY <1>2, Parts DEF Dictionaries
  <2>2. PICK k \in Calls : \/ Create(k) \/ Closed(k) \/ \E m \in Names : CloseNext(k, m)
    BY <1>2, DictionaryChanges
  <2>3. Create(k)
    <3>1. ASSUME NEW m, NEW left, Proceed(k, m, left) PROVE FALSE
      BY <1>2, <2>1, <3>1 DEF Proceed
    <3>2. QED
      BY <1>2, <2>2, <3>1 DEF Closed, CloseNext
  <2>4. n = call[k].name /\ connections'[n] = k /\ call[k].op \in {"connect", "force"}
    BY <2>1, <2>3 DEF Create
  <2>5. call[k].op # "connect"
    BY <1>2, <2>3, <2>4 DEF Create, AuthSuppressed, Known, Memo
  <2>6. QED
    BY <2>4, <2>5
<1>3. IInv /\ IInv' /\ [Next]_vars =>
        /\ [\A n \in Names : connections[n] # 0 /\ connections'[n] = 0 =>
              /\ transport'[connections[n]] = "closed"
              /\ peer'[connections[n]] # "alive" \/ connections[n] \in broken]_vars
        /\ [\A n \in Names : connections[n] # 0 /\ auth[connections[n]] = "fresh" =>
              \/ connections'[n] \in {0, connections[n]}
              \/ call[connections'[n]].op = "force"]_vars
  BY <1>1, <1>2
<1>4. QED
  BY <1>3, Invariance, PTL DEF Spec, ConnectionsKept, DisconnectKills, AuthRespected
=============================================================================
