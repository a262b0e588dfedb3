-------------------------- MODULE RunServiceProofs ---------------------------
(***************************************************************************)
(* What the service keeps of a run.  The checkpoint store of NativeEngine  *)
(* never claims more than happened, and what it loses of a DAG was refused *)
(* or cut off by a cancelled drain, for every set of threads and steps and *)
(* any number of resumes and crashes.  The events of RunStream reach every *)
(* client that stays, end no stream too early and are cleared unless the   *)
(* store fails to, for every set of steps, sockets and listeners, every    *)
(* buffer size and any number of submissions and failures of the store.    *)
(***************************************************************************)
EXTENDS NativeEngine, RunStream, SequenceTheorems, TLAPS

-----------------------------------------------------------------------------
(***************************************************************************)
(* The checkpoints of the engine: their inductive invariant.               *)
(***************************************************************************)

\* Whatever speaks of a step, in memory, in a worker or in the table, speaks of one
\* that succeeded in that thread.
Backed ==
    \A t \in Thread : \A s \in Step :
        s \notin succeeded[t] =>
            /\ s \notin restored[t] /\ s \notin ended[t] /\ s \notin reporting[t]
            /\ write[t][s] = "none"
            /\ <<t, s>> \notin detached /\ <<t, s>> \notin rows

\* An execution has tasks only between its start and its end: in its drain it waits
\* for all of its own, and it ends with none.  A write that lost its task belongs to a
\* thread of which a cancelled drain is known to have dropped one.
Drains ==
    \A t \in Thread :
        /\ t \notin cut => \A s \in Step : write[t][s] # "dropped" /\ <<t, s>> \notin detached
        /\ phase[t] # "callback" => reporting[t] = {}
        /\ phase[t] = "drain" => exit[t] # "none"
        /\ phase[t] \in {"idle"} \cup Over => \A s \in Step : write[t][s] \notin InFlight
        /\ phase[t] = "drain" =>
               \A s \in Step : write[t][s] \in InFlight => <<t, s>> \in waiting[t]

\* A success of a DAG is being reported, being written, written, refused or dropped.
Accounted ==
    \A t \in Thread : flow[t] = "dag" => \A s \in ended[t] :
        \/ s \in reporting[t] \/ <<t, s>> \in rows
        \/ write[t][s] \in InFlight \cup {"failed", "dropped"}

IInv == TypeOK /\ Backed /\ Drains /\ Accounted

-----------------------------------------------------------------------------
LEMMA InitIInv == Init => IInv
BY NativeAssumption
   DEF Init, IInv, TypeOK, Backed, Drains, Accounted, Over, InFlight

\* The steps of an execution up to its drain.
LEMMA RunSteps ==
  ASSUME IInv, NEW t \in Thread,
         \/ Execute(t) \/ Resume(t) \/ CallbackReturns(t)
         \/ \E s \in Step : StepEnds(t, s) \/ PipelineStep(t, s)
  PROVE  IInv'
<1> USE NativeAssumption DEF IInv, TypeOK, Backed, Drains, Accounted, Over, InFlight, runVars, callVars
<1>1. CASE Execute(t)
  BY <1>1 DEF Execute
<1>2. CASE Resume(t)
  BY <1>2 DEF Resume, SavedSteps
<1>3. CASE CallbackReturns(t)
  BY <1>3 DEF CallbackReturns, Scheduled
<1>4. ASSUME NEW s \in Step, StepEnds(t, s)
      PROVE  IInv'
  BY <1>4 DEF StepEnds
<1>5. ASSUME NEW s \in Step, PipelineStep(t, s)
      PROVE  IInv'
  BY <1>5 DEF PipelineStep
<1>6. QED
  BY <1>1, <1>2, <1>3, <1>4, <1>5

\* Leaving the workflow gathers, among others, every write of the thread itself.
LEMMA LeaveSteps ==
  ASSUME IInv, NEW t \in Thread, Finishes(t) \/ Interrupted(t)
  PROVE  IInv'
<1> USE DEF IInv, TypeOK, Backed, Drains, Accounted, Over, InFlight, runVars, callVars
<1>1. PICK how \in {"returned", "raised"} : LeaveDispatch(t, how)
  BY DEF Finishes, Interrupted
<1>2. UNCHANGED <<detached, rows, runVars>>
  BY DEF Finishes, Interrupted
<1>3. TypeOK'
  BY <1>1, <1>2, NativeAssumption DEF LeaveDispatch, Scheduled, CheckpointTasks
<1>4. Backed' /\ Accounted'
  BY <1>1, <1>2 DEF LeaveDispatch, Scheduled
<1>5. Drains'
  BY <1>1, <1>2 DEF LeaveDispatch, Scheduled, CheckpointTasks
<1>6. QED
  BY <1>3, <1>4, <1>5

\* _checkpoint_tasks holds the writes in flight.
LEMMA TasksInFlight ==
  ASSUME NEW t \in Thread, NEW s \in Step
  PROVE  <<t, s>> \in CheckpointTasks <=> write[t][s] \in InFlight
BY DEF CheckpointTasks

\* The end of a drain, and a cancel in it.
LEMMA DrainSteps ==
  ASSUME IInv, NEW t \in Thread, EndExecution(t) \/ CancelDrain(t)
  PROVE  IInv'
<1> USE NativeAssumption DEF IInv, TypeOK, Backed, Drains, Accounted, Over, InFlight, runVars, callVars
<1>1. CASE EndExecution(t)
  <2>1. \A s \in Step : write[t][s] \notin InFlight
    BY <1>1, TasksInFlight DEF EndExecution, Drained
  <2>2. QED
    BY <1>1, <2>1 DEF EndExecution
<1>2. CASE CancelDrain(t)
  <2> DEFINE cancelled == waiting[t] \cap CheckpointTasks
  <2>1. \A u \in Thread : \A s \in Step :
            /\ <<u, s>> \in cancelled => write[u][s] \in InFlight
            /\ write'[u][s] = IF <<u, s>> \in cancelled THEN "dropped" ELSE write[u][s]
    BY <1>2, TasksInFlight DEF CancelDrain
  <2>2. /\ write' \in [Thread -> [Step -> InFlight \cup {"none", "done", "failed", "dropped"}]]
        /\ detached' \subseteq detached \cup cancelled
        /\ exit' \in [Thread -> {"none", "returned", "raised"}] /\ exit'[t] # "none"
        /\ \A u \in Thread \ {t} : exit'[u] = exit[u]
        /\ cut' = cut \cup {u \in Thread : \E s \in Step : <<u, s>> \in cancelled}
        /\ UNCHANGED <<callVars, phase, ended, succeeded, reporting, waiting, rows>>
    BY <1>2 DEF CancelDrain
  <2> HIDE DEF cancelled
  <2>3. cancelled \subseteq Thread \X Step
    BY DEF cancelled, CheckpointTasks
  <2>4. /\ cut' \subseteq Thread
        /\ \A u \in Thread : u \notin cut' =>
               u \notin cut /\ \A s \in Step : <<u, s>> \notin cancelled
    BY <2>2, Zenon
  <2>5. TypeOK'
    BY <2>2, <2>3, <2>4, ZenonT(30)
  <2>6. Drains'
    <3>1. \A u \in Thread : u \notin cut' =>
              \A s \in Step : write'[u][s] # "dropped" /\ <<u, s>> \notin detached'
      BY <2>1, <2>2, <2>4
    <3>2. QED
      BY <2>1, <2>2, <3>1, ZenonT(30)
  <2>7. Backed' /\ Accounted'
    <3>1. Backed'
      <4>1. ASSUME NEW u \in Thread, NEW s \in Step, s \notin succeeded[u]
            PROVE  write'[u][s] = "none" /\ <<u, s>> \notin detached'
        <5>1. write[u][s] = "none" /\ <<u, s>> \notin detached
          BY <4>1, Zenon
        <5>2. <<u, s>> \notin cancelled
          BY <2>1, <5>1
        <5>3. detached' \subseteq detached \cup cancelled
          BY <2>2
        <5>4. QED
          BY <2>1, <5>1, <5>2, <5>3, Zenon
      <4>2. QED
        BY <2>2, <4>1
    <3>2. Accounted'
      <4>1. \A u \in Thread : \A s \in Step :
                write[u][s] \in InFlight \cup {"failed", "dropped"} =>
                    write'[u][s] \in InFlight \cup {"failed", "dropped"}
        BY <2>1
      <4>2. ended \in [Thread -> SUBSET Step]
        OBVIOUS
      <4>3. QED
        BY <2>2, <4>1, <4>2
    <3>3. QED
      BY <3>1, <3>2
  <2>8. QED
    BY <2>5, <2>6, <2>7
<1>3. QED
  BY <1>1, <1>2

\* The worker threads.
LEMMA WorkerSteps ==
  ASSUME IInv, NEW t \in Thread, NEW s \in Step, Worker(t, s) \/ DetachedEnds(t, s)
  PROVE  IInv'
<1> USE NativeAssumption DEF IInv, TypeOK, Backed, Drains, Accounted, Over, InFlight, runVars,
                             callVars, SetWrite
<1>1. CASE WriteStarts(t, s)
  BY <1>1 DEF WriteStarts
<1>2. CASE WriteCommits(t, s)
  BY <1>2 DEF WriteCommits
<1>3. CASE WriteFails(t, s)
  BY <1>3 DEF WriteFails
<1>4. CASE DetachedEnds(t, s)
  BY <1>4 DEF DetachedEnds
<1>5. QED
  BY <1>1, <1>2, <1>3, <1>4 DEF Worker

LEMMA NextIInv == IInv /\ [Next]_vars => IInv'
<1> SUFFICES ASSUME IInv, [Next]_vars PROVE IInv'
  OBVIOUS
<1>1. CASE Crash
  BY <1>1, NativeAssumption
     DEF Crash, IInv, TypeOK, Backed, Drains, Accounted, Over, InFlight
<1>2. CASE UNCHANGED vars
  BY <1>2 DEF vars, IInv, TypeOK, Backed, Drains, Accounted
<1>3. CASE \E t \in Thread : Execution(t)
  BY <1>3, RunSteps, LeaveSteps, DrainSteps DEF Execution
<1>4. CASE \E t \in Thread : \E s \in Step : Worker(t, s) \/ DetachedEnds(t, s)
  BY <1>4, WorkerSteps
<1>5. QED
  BY <1>1, <1>2, <1>3, <1>4 DEF Next, Terminated

\* The invariant holds in every reachable state.
LEMMA Invariance == Spec => []IInv
BY InitIInv, NextIInv, PTL DEF Spec

-----------------------------------------------------------------------------
\* Types of the engine's state, for any number of threads, resumes and crashes.
THEOREM EngineTypes == Spec => []TypeOK
<1>1. IInv => TypeOK
  BY DEF IInv
<1>2. QED
  BY <1>1, Invariance, PTL

\* _restore_checkpoint_state never takes a step for completed that did not succeed in
\* the same thread, whatever crashed, was cancelled or was written late.
THEOREM TruthfulRestore == Spec => []RestoreTruthful
<1>1. IInv => RestoreTruthful
  BY DEF IInv, TypeOK, Backed, RestoreTruthful
<1>2. QED
  BY <1>1, Invariance, PTL

\* Once execute() of a DAG has returned or raised, each of its successes is in the table,
\* was refused or was dropped by a cancelled drain, and no task or worker writes for the
\* thread but one that such a drain let go of.
THEOREM ExactWrites == Spec => []WritesExact
<1>1. IInv => WritesExact
  <2> SUFFICES ASSUME IInv, NEW t \in Thread, phase[t] \in {"returned", "raised"}
               PROVE  /\ \A s \in Step : /\ write[t][s] \notin InFlight
                                         /\ <<t, s>> \in detached => t \in cut
                      /\ flow[t] = "dag" => \A s \in ended[t] :
                            \/ <<t, s>> \in rows \/ write[t][s] = "failed"
                            \/ write[t][s] = "dropped" /\ t \in cut
    BY Zenon DEF WritesExact, NoWriteLeft, LossExplained
  <2>1. reporting[t] = {} /\ phase[t] \in Over
    BY DEF IInv, Drains, Over
  <2>2. \A s \in Step : /\ write[t][s] \notin InFlight
                        /\ write[t][s] = "dropped" \/ <<t, s>> \in detached => t \in cut
    BY <2>1, Zenon DEF IInv, Drains
  <2>3. ended[t] \subseteq Step
    BY DEF IInv, TypeOK
  <2>4. ASSUME flow[t] = "dag", NEW s \in ended[t]
        PROVE  <<t, s>> \in rows \/ write[t][s] \in {"failed", "dropped"}
    <3>1. s \in reporting[t] \/ <<t, s>> \in rows \/ write[t][s] \in InFlight \cup {"failed", "dropped"}
      BY <2>4, Zenon DEF IInv, Accounted
    <3>2. QED
      BY <2>1, <2>2, <2>3, <3>1
  <2>5. QED
    BY <2>2, <2>3, <2>4
<1>2. QED
  BY <1>1, Invariance, PTL

-----------------------------------------------------------------------------
(***************************************************************************)
(* The events of a run: their inductive invariant.                         *)
(***************************************************************************)

\* A socket that works is registered, its endpoint is there, and no broadcast took it
\* for dead; a socket that is known to anybody has arrived.
Arrived ==
    /\ \A c \in open : ws[c] \in {"joined", "replaying", "live"}
    /\ \A c \in conns : ws[c] # "away"
    /\ \A b \in Casters : \A c \in cast[b].to \cup cast[b].dead : ws[c] # "away"
    /\ \A b \in Casters : cast[b].dead \cap open = {}

\* A broadcast has still to bring the event to the client.
Coming(c, e) ==
    \E b \in Casters :
        /\ cast[b].ev = e
        /\ cast[b].at = "persist" \/ (cast[b].at = "send" /\ c \in cast[b].to)

\* A client that has read the history has, or will be sent, whatever both buffer and
\* store hold.
Reaches ==
    \A c \in open :
        /\ ws[c] = "live" => script[c] = <<>>
        /\ ws[c] \in {"replaying", "live"} =>
               \A e \in Range(buffer) \cap Range(store) :
                   e \in got[c] \/ e \in Range(script[c]) \/ Coming(c, e)

\* An event of the current run that ends a stream although an evaluation was asked for
\* comes after the evaluation.
Timely(e) ==
    /\ e.time < clock
    /\ e.time >= begun /\ evaluation /\ EndsStream(e) =>
           stage \in {"log", "error", "idle"}

Verdicts ==
    /\ \A b \in Casters : ~Idle(b) => Timely(cast[b].ev)
    /\ \A l \in Listeners : \A e \in Range(queue[l]) : Timely(e)

Terminal == {"workflow_end", "error"}
AsleepAfter(n) == \E i \in DOMAIN timer : i > n /\ timer[i] = "asleep"
TerminalComing == \E b \in Casters : ~Idle(b) /\ cast[b].ev.type \in Terminal

\* A run that has ended has a timer of its own, or its terminal event is on the way;
\* a run that is over has left nothing that nobody will clear.
Retained ==
    /\ stage # "run" => \A s \in Steps : Idle(s)
    /\ stage = "idle" /\ ~Idle(Main) => cast[Main].ev.type \in Terminal
    /\ stage \in {"evaluate", "judge", "log"} =>
           TerminalComing \/ AsleepAfter(older)
    /\ stage = "idle" =>
           \/ TerminalComing \/ AsleepAfter(0)
           \/ AllIdle /\ buffer = <<>> /\ (store = <<>> \/ clearing > 0 \/ leaked)

StreamInv == StreamTypeOK /\ Arrived /\ Reaches /\ Verdicts /\ Retained

-----------------------------------------------------------------------------
(***************************************************************************)
(* Sequences and the hub's operators.                                      *)
(***************************************************************************)

\* append() to a deque with a maximal length.
LEMMA PushedFacts ==
  ASSUME NEW S, NEW q \in Seq(S), NEW e \in S, Len(q) <= MaxBuffer
  PROVE  /\ Pushed(q, e) \in Seq(S) /\ Len(Pushed(q, e)) <= MaxBuffer
         /\ Range(Pushed(q, e)) \subseteq Range(q) \cup {e}
         /\ Pushed(q, e) # <<>>
<1>1. CASE Len(q) = MaxBuffer
  <2>1. /\ Tail(q) \in Seq(S) /\ Len(Tail(q)) = Len(q) - 1
        /\ \A i \in 1 .. Len(Tail(q)) : Tail(q)[i] = q[i + 1]
    BY <1>1, HubAssumption
  <2>2. QED
    BY <1>1, <2>1, HubAssumption DEF Pushed, Range
<1>2. CASE Len(q) # MaxBuffer
  BY <1>2, HubAssumption DEF Pushed, Range
<1>3. QED
  BY <1>1, <1>2

LEMMA AppendRange ==
  ASSUME NEW S, NEW q \in Seq(S), NEW e \in S
  PROVE  Append(q, e) \in Seq(S) /\ Range(Append(q, e)) = Range(q) \cup {e}
<1> DEFINE t == Append(q, e)
<1>1. /\ t \in Seq(S) /\ Len(t) = Len(q) + 1 /\ t[Len(q) + 1] = e
      /\ \A i \in 1 .. Len(q) : t[i] = q[i]
  BY AppendProperties
<1>2. DOMAIN t = 1 .. Len(t) /\ DOMAIN q = 1 .. Len(q) /\ Len(q) \in Nat
  BY <1>1, LenProperties
<1> HIDE DEF t
<1>3. Range(t) = Range(q) \cup {e}
  BY <1>1, <1>2 DEF Range
<1>4. QED
  BY <1>1, <1>3 DEF t

LEMMA HeadAndTail ==
  ASSUME NEW S, NEW q \in Seq(S), q # <<>>
  PROVE  /\ Head(q) \in S /\ Head(q) \in Range(q) /\ Tail(q) \in Seq(S)
         /\ Range(q) = {Head(q)} \cup Range(Tail(q))
<1>1. /\ Len(q) > 0 /\ Head(q) = q[1] /\ Tail(q) \in Seq(S) /\ Len(Tail(q)) = Len(q) - 1
      /\ \A i \in 1 .. Len(q) - 1 : Tail(q)[i] = q[i + 1]
  OBVIOUS
<1>2. Range(q) \subseteq {Head(q)} \cup Range(Tail(q))
  <2> SUFFICES ASSUME NEW i \in 1 .. Len(q)
               PROVE  q[i] \in {Head(q)} \cup Range(Tail(q))
    BY DEF Range
  <2>1. CASE i = 1
    BY <2>1, <1>1
  <2>2. CASE i # 1
    <3>1. i - 1 \in 1 .. Len(Tail(q)) /\ Tail(q)[i - 1] = q[i]
      BY <2>2, <1>1
    <3>2. QED
      <4>1. DOMAIN Tail(q) = 1 .. Len(Tail(q))
        BY <1>1, LenProperties
      <4>2. QED
        BY <3>1, <4>1 DEF Range
  <2>3. QED
    BY <2>1, <2>2
<1>3. QED
  BY <1>1, <1>2 DEF Range

\* _schedule_delayed_clear leaves a timer that sleeps, and it is the last one.
LEMMA ScheduleFacts ==
  ASSUME StreamTypeOK, Schedule
  PROVE  /\ timer' \in Seq({"asleep", "cancelled", "over", "gone"})
         /\ Len(timer') = Len(timer) + 1 /\ timer'[Len(timer')] = "asleep"
         /\ pending' \in DOMAIN timer'
<1> DEFINE S == {"asleep", "cancelled", "over", "gone"}
<1>1. timer \in Seq(S) /\ (pending # None => pending \in 1 .. Len(timer))
  BY DEF StreamTypeOK
<1>2. PICK old \in Seq(S) : Len(old) = Len(timer) /\ timer' = Append(old, "asleep")
  <2>1. pending # None => /\ [timer EXCEPT ![pending] = "cancelled"] \in Seq(S)
                          /\ Len([timer EXCEPT ![pending] = "cancelled"]) = Len(timer)
    BY <1>1, ExceptSeq
  <2>2. QED
    BY <1>1, <2>1 DEF Schedule
<1>3. pending' = Len(timer) + 1
  BY DEF Schedule
<1>4. QED
  BY <1>1, <1>2, <1>3

-----------------------------------------------------------------------------
(***************************************************************************)
(* A broadcast begins.                                                     *)
(***************************************************************************)

EventTypes == {"none", "workflow_start", "step_start", "step_end", "workflow_end",
               "evaluation_start", "evaluation_complete", "error"}
CastRecord == [at : {"idle", "persist", "send"}, ev : Events, to : SUBSET Sockets, dead : SUBSET Sockets]

LEMMA CastFacts ==
  ASSUME StreamTypeOK, NEW b \in Casters
  PROVE  /\ cast \in [Casters -> CastRecord] /\ cast[b] \in CastRecord
         /\ cast[b].at \in {"idle", "persist", "send"} /\ cast[b].ev \in Events
         /\ cast[b].to \subseteq Sockets /\ cast[b].dead \subseteq Sockets
         /\ cast[b].ev.time \in Nat
BY DEF StreamTypeOK, CastRecord, Events

LEMMA SilentFacts == Silent \in CastRecord /\ Silent.at = "idle" /\ Silent.dead = {} /\ Silent.to = {}
BY DEF Silent, CastRecord, Events, Event, Casters

\* What does not depend on the run: the new event is in the buffer, and on its way.
LEMMA Begins ==
  ASSUME StreamInv, NEW b \in Casters, NEW type \in EventTypes, NEW s \in Casters,
         NEW follows \in BOOLEAN, Broadcast(b, Ev(type, s, follows)),
         UNCHANGED <<store, conns, clients, streams, timer, pending, clearing>>
  PROVE  /\ Ev(type, s, follows) \in Events /\ Ev(type, s, follows).time = clock
         /\ Ev(type, s, follows).type = type /\ Ev(type, s, follows).follows = follows
         /\ buffer' \in Seq(Events) /\ Len(buffer') <= MaxBuffer
         /\ cast' \in [Casters -> CastRecord]
         /\ cast'[b].at = "persist" /\ cast'[b].ev = Ev(type, s, follows)
         /\ \A d \in Casters : d # b => cast'[d] = cast[d]
         /\ Arrived' /\ Reaches'
<1> DEFINE e == Ev(type, s, follows)
<1>1. StreamTypeOK /\ clock \in Nat
  BY DEF StreamInv, StreamTypeOK
<1>2. e \in Events /\ e.time = clock /\ e.type = type /\ e.follows = follows
  BY <1>1 DEF Ev, Event, Events, EventTypes
<1> HIDE DEF e
<1>3. /\ buffer' \in Seq(Events) /\ Len(buffer') <= MaxBuffer
      /\ Range(buffer') \subseteq Range(buffer) \cup {e}
  BY <1>1, <1>2, PushedFacts DEF Broadcast, StreamTypeOK, e
<1>4. /\ cast' = [cast EXCEPT ![b] = [at |-> "persist", ev |-> e, to |-> {}, dead |-> {}]]
      /\ cast[b].at = "idle" /\ cast \in [Casters -> CastRecord]
  BY <1>1, CastFacts DEF Broadcast, e
<1>5. /\ cast' \in [Casters -> CastRecord]
      /\ cast'[b].at = "persist" /\ cast'[b].ev = e /\ cast'[b].to = {} /\ cast'[b].dead = {}
      /\ \A d \in Casters : d # b => cast'[d] = cast[d]
  BY <1>2, <1>4 DEF CastRecord
<1>6. UNCHANGED <<store, conns, ws, open, script, got>>
  BY DEF clients
<1>7. Arrived'
  BY <1>5, <1>6 DEF StreamInv, Arrived
<1>8. Reaches'
  <2> SUFFICES ASSUME NEW c \in open, ws[c] \in {"replaying", "live"},
                      NEW f \in Range(buffer') \cap Range(store)
               PROVE  f \in got[c] \/ f \in Range(script[c]) \/ Coming(c, f)'
    BY <1>6 DEF Reaches, StreamInv
  <2>1. CASE f = e
    BY <2>1, <1>5 DEF Coming
  <2>2. CASE f # e
    <3>1. f \in got[c] \/ f \in Range(script[c]) \/ Coming(c, f)
      BY <2>2, <1>3 DEF StreamInv, Reaches
    <3>2. ASSUME Coming(c, f) PROVE Coming(c, f)'
      BY <3>2, <1>4, <1>5 DEF Coming
    <3>3. QED
      BY <3>1, <3>2
  <2>3. QED
    BY <2>1, <2>2
<1>9. QED
  BY <1>2, <1>3, <1>5, <1>7, <1>8 DEF e

LEMMA QueuedFacts ==
  ASSUME StreamTypeOK, NEW l \in Listeners
  PROVE  /\ queue[l] \in Seq(Events)
         /\ \A e \in Range(queue[l]) : e \in Events /\ e.time \in Nat
<1>1. queue[l] \in Seq(Events)
  BY DEF StreamTypeOK
<1>2. \A e \in Range(queue[l]) : e \in Events
  BY <1>1, ElementOfSeq, LenProperties DEF Range
<1>3. QED
  BY <1>1, <1>2 DEF Events

\* Within a run the task only moves on: what was timely stays so.
LEMMA StaysTimely ==
  ASSUME StreamTypeOK, NEW e \in Events, Timely(e),
         clock' \in Nat, clock' >= clock, begun' = begun, evaluation' = evaluation,
         stage \in {"log", "error", "idle"} => stage' \in {"log", "error", "idle"}
  PROVE  Timely(e)'
BY DEF StreamTypeOK, Timely, EndsStream, Events

\* A new event that is timely joins the others.
LEMMA NewVerdict ==
  ASSUME StreamInv, NEW b \in Casters, clock' = clock + 1, begun' = begun, queue' = queue,
         evaluation' = evaluation,
         stage \in {"log", "error", "idle"} => stage' \in {"log", "error", "idle"},
         \A d \in Casters : d # b => cast'[d] = cast[d],
         cast'[b].ev.time = clock,
         evaluation /\ EndsStream(cast'[b].ev) => stage' \in {"log", "error", "idle"}
  PROVE  Verdicts'
<1>1. StreamTypeOK /\ clock \in Nat /\ clock' \in Nat /\ clock' >= clock /\ clock < clock'
  BY DEF StreamInv, StreamTypeOK
<1>2. ASSUME NEW l \in Listeners, NEW e \in Range(queue[l])
      PROVE  Timely(e)'
  BY <1>1, <1>2, QueuedFacts, StaysTimely DEF StreamInv, Verdicts
<1>3. ASSUME NEW d \in Casters, ~Idle(d)'
      PROVE  Timely(cast[d].ev)'
  <2>1. CASE d = b
    BY <2>1, <1>1 DEF Timely
  <2>2. CASE d # b
    <3>1. PICK f \in Events : f = cast[d].ev /\ Timely(f)
      BY <2>2, <1>1, <1>3, CastFacts DEF Idle, StreamInv, Verdicts
    <3>2. Timely(f)' /\ f = cast'[d].ev
      BY <2>2, <3>1, <1>1, StaysTimely
    <3>3. QED
      BY <3>2 DEF Timely
  <2>3. QED
    BY <2>1, <2>2
<1>4. QED
  BY <1>2, <1>3 DEF Verdicts

\* The events of the steps.
LEMMA StepEvents ==
  ASSUME StreamInv, NEW s \in Steps, StepStart(s) \/ StepEnd(s)
  PROVE  StreamInv'
<1>1. PICK type \in {"step_start", "step_end"}, follows \in BOOLEAN :
        Broadcast(s, Ev(type, s, follows))
  BY DEF StepStart, StepEnd
<1>2. /\ stage = "run" /\ step' \in [Steps -> {"todo", "running", "ended"}]
      /\ UNCHANGED <<store, conns, clients, streams, timer, pending, clearing, leaked, bound>>
      /\ UNCHANGED <<stage, request, runs, older, begun, faults>>
      /\ clock' = clock + 1
  BY <1>1 DEF StepStart, StepEnd, MayEmit, StreamInv, StreamTypeOK, retention, Broadcast
<1>3. s \in Casters /\ type \in EventTypes
  BY DEF Casters, EventTypes
<1>4. /\ Ev(type, s, follows) \in Events /\ Ev(type, s, follows).time = clock
      /\ Ev(type, s, follows).type = type
      /\ buffer' \in Seq(Events) /\ Len(buffer') <= MaxBuffer
      /\ cast' \in [Casters -> CastRecord]
      /\ cast'[s].at = "persist" /\ cast'[s].ev = Ev(type, s, follows)
      /\ \A d \in Casters : d # s => cast'[d] = cast[d]
      /\ Arrived' /\ Reaches'
  BY <1>1, <1>2, <1>3, Begins
<1>5. StreamTypeOK'
  BY <1>2, <1>4 DEF StreamInv, StreamTypeOK, CastRecord, clients, streams, request
<1>6. Verdicts'
  <2>1. ~EndsStream(cast'[s].ev)
    BY <1>4 DEF EndsStream
  <2>2. QED
    BY <1>2, <1>3, <1>4, <2>1, NewVerdict DEF streams, request
<1>7. Retained'
  BY <1>2 DEF Retained
<1>8. QED
  BY <1>4, <1>5, <1>6, <1>7 DEF StreamInv

\* The events of the task itself, within a run: the filter lets the engine's start through.
LEMMA TaskEvents ==
  ASSUME StreamInv,
         EngineStarts \/ WorkflowEnd \/ EvaluationStart \/ Scored \/ JudgeMissing \/ Fail
  PROVE  StreamInv'
<1>1. PICK type \in EventTypes, follows \in BOOLEAN : Announce(type, follows)
  BY DEF EngineStarts, EngineTells, Forwarded, WorkflowEnd, EvaluationStart, Scored, JudgeMissing,
         Fail, EventTypes, StreamInv, StreamTypeOK
<1>2. /\ UNCHANGED <<store, conns, clients, streams, timer, pending, clearing, leaked, bound, faults>>
      /\ UNCHANGED <<request, step, runs, older, begun>>
      /\ clock' = clock + 1 /\ Idle(Main)
  BY <1>1 DEF EngineStarts, WorkflowEnd, EvaluationStart, Scored, JudgeMissing, Fail, Announce,
              retention, Broadcast, Idle
<1>3. Main \in Casters
  BY DEF Casters
<1>4. /\ cast'[Main].ev.time = clock /\ cast'[Main].ev.type = type
      /\ cast'[Main].ev.follows = follows /\ cast'[Main].at = "persist"
      /\ buffer' \in Seq(Events) /\ Len(buffer') <= MaxBuffer
      /\ cast' \in [Casters -> CastRecord]
      /\ \A d \in Casters : d # Main => cast'[d] = cast[d]
      /\ Arrived' /\ Reaches'
  BY <1>1, <1>2, <1>3, Begins DEF Announce
<1>5. /\ stage' \in {"idle", "run", "evaluate", "judge", "log"}
      /\ stage \in {"log", "error", "idle"} => stage' \in {"log", "error", "idle"}
      /\ \A s \in Steps : Idle(s)
  BY <1>3 DEF EngineStarts, WorkflowEnd, EvaluationStart, Scored, JudgeMissing, Fail, StreamInv,
              Retained, AllIdle, Casters
<1>6. \A s \in Steps : s \in Casters /\ s # Main
  BY HubAssumption DEF Casters
<1>7. StreamTypeOK'
  BY <1>2, <1>4, <1>5 DEF StreamInv, StreamTypeOK, CastRecord, clients, streams, request
<1>8. \A s \in Steps : Idle(s)'
  BY <1>4, <1>5, <1>6 DEF Idle
<1>9. ASSUME type \in Terminal PROVE TerminalComing'
  BY <1>9, <1>3, <1>4 DEF TerminalComing, Idle
<1>10. ASSUME TerminalComing PROVE TerminalComing'
  BY <1>10, <1>2, <1>4 DEF TerminalComing, Idle
<1>11. ASSUME AsleepAfter(older) PROVE AsleepAfter(older)'
  BY <1>11, <1>2 DEF AsleepAfter
<1>12. ASSUME evaluation /\ EndsStream(cast'[Main].ev) => stage' \in {"log", "error", "idle"}
       PROVE  Verdicts'
  BY <1>2, <1>3, <1>4, <1>5, <1>12, NewVerdict DEF streams, request
<1>13. ASSUME NEW kind \in EventTypes, NEW more \in BOOLEAN, Announce(kind, more)
       PROVE  type = kind /\ follows = more
  <2>1. cast'[Main].ev.type = kind /\ cast'[Main].ev.follows = more
    BY <1>2, <1>3, <1>13, Begins DEF Announce
  <2>2. QED
    BY <1>4, <2>1
<1>14. CASE EngineStarts
  <2>1. Announce("workflow_start", FALSE) /\ stage' = "run"
    BY <1>14 DEF EngineStarts, EngineTells, Forwarded
  <2>2. type = "workflow_start"
    BY <1>13, <2>1 DEF EventTypes
  <2>3. Verdicts'
    BY <1>4, <1>12, <2>2 DEF EndsStream
  <2>4. Retained'
    BY <2>1 DEF Retained
  <2>5. QED
    BY <1>4, <1>7, <2>3, <2>4 DEF StreamInv
<1>15. CASE WorkflowEnd
  <2>1. evaluation \in BOOLEAN /\ Announce("workflow_end", evaluation)
    BY <1>15 DEF WorkflowEnd, StreamInv, StreamTypeOK
  <2>2. type = "workflow_end" /\ follows = evaluation
    BY <1>13, <2>1 DEF EventTypes
  <2>3. Verdicts'
    BY <1>4, <1>12, <2>2 DEF EndsStream
  <2>4. stage' \in {"evaluate", "log"}
    BY <1>15 DEF WorkflowEnd
  <2>5. Retained'
    BY <1>8, <1>9, <2>2, <2>4 DEF Retained, Terminal
  <2>6. QED
    BY <1>4, <1>7, <2>3, <2>5 DEF StreamInv
<1>16. CASE JudgeMissing \/ Fail
  <2>1. Announce("error", FALSE) /\ stage' \in {"log", "idle"}
    BY <1>16 DEF JudgeMissing, Fail
  <2>2. type = "error"
    BY <1>13, <2>1 DEF EventTypes
  <2>3. Verdicts'
    BY <1>12, <2>1
  <2>4. Retained'
    BY <1>4, <1>8, <1>9, <2>1, <2>2 DEF Retained, Terminal
  <2>5. QED
    BY <1>4, <1>7, <2>3, <2>4 DEF StreamInv
<1>17. CASE EvaluationStart \/ Scored
  <2>1. stage \in {"evaluate", "judge"} /\ stage' \in {"judge", "log"}
    BY <1>17 DEF EvaluationStart, Scored
  <2>2. stage' = "log" \/ type = "evaluation_start"
    BY <1>13, <1>17 DEF EvaluationStart, Scored, EventTypes
  <2>3. Verdicts'
    BY <1>4, <1>12, <2>2 DEF EndsStream
  <2>4. TerminalComing' \/ AsleepAfter(older)'
    BY <1>10, <1>11, <2>1 DEF StreamInv, Retained
  <2>5. Retained'
    BY <1>8, <2>1, <2>4 DEF Retained
  <2>6. QED
    BY <1>4, <1>7, <2>3, <2>5 DEF StreamInv
<1>18. QED
  BY <1>14, <1>15, <1>16, <1>17

\* A submission: whatever came before is of an earlier run.
LEMMA SubmitStep ==
  ASSUME StreamInv, Submit
  PROVE  StreamInv'
<1>1. /\ UNCHANGED <<store, conns, clients, streams, timer, pending, clearing, leaked, request, faults>>
      /\ stage' \in {"start", "run"} /\ bound' = TRUE /\ begun' = clock /\ older' = Len(timer)
      /\ clock' = clock + 1 /\ clock \in Nat /\ StreamTypeOK /\ runs' \in Nat
      /\ step' \in [Steps -> {"todo", "running", "ended"}]
  BY DEF Submit, Broadcast, StreamInv, StreamTypeOK
<1> DEFINE type == "workflow_start"
<1>0. PICK follows \in BOOLEAN : Broadcast(Main, Ev(type, Main, follows))
  BY DEF Submit
<1> DEFINE e == Ev(type, Main, follows)
<1>2. Main \in Casters /\ type \in EventTypes
  BY DEF Casters, EventTypes
<1> HIDE DEF type
<1>3. /\ e \in Events /\ e.time = clock /\ e.type = type
      /\ buffer' \in Seq(Events) /\ Len(buffer') <= MaxBuffer
      /\ cast' \in [Casters -> CastRecord]
      /\ cast'[Main].at = "persist" /\ cast'[Main].ev = e
      /\ \A d \in Casters : d # Main => cast'[d] = cast[d]
      /\ Arrived' /\ Reaches'
  BY <1>1, <1>2, <1>0, Begins
<1>4. StreamTypeOK'
  BY <1>1, <1>3 DEF StreamTypeOK, CastRecord, clients, streams, request
<1>5. Verdicts'
  <2>1. ASSUME NEW l \in Listeners, NEW f \in Range(queue[l])
        PROVE  Timely(f)'
    <3>1. f.time \in Nat /\ f.time < clock
      BY <1>1, <2>1, QueuedFacts DEF StreamInv, Verdicts, Timely
    <3>2. QED
      BY <1>1, <3>1 DEF Timely
  <2>2. ASSUME NEW d \in Casters, ~Idle(d)'
        PROVE  Timely(cast[d].ev)'
    <3>1. CASE d = Main
      <4>1. cast'[d].ev.time < clock' /\ ~EndsStream(cast'[d].ev)
        BY <1>1, <1>3, <3>1 DEF EndsStream, type
      <4>2. QED
        BY <4>1 DEF Timely
    <3>2. CASE d # Main
      <4>1. Idle(d) /\ cast'[d] = cast[d]
        BY <1>3, <3>2 DEF Submit, AllIdle
      <4>2. QED
        BY <2>2, <4>1 DEF Idle
    <3>3. QED
      BY <3>1, <3>2
  <2>3. QED
    BY <1>1, <2>1, <2>2 DEF Verdicts, streams
<1>6. Retained'
  <2>1. \A d \in Steps : Idle(d)'
    BY <1>3, HubAssumption DEF Submit, AllIdle, Idle, Casters
  <2>2. QED
    BY <1>1, <2>1 DEF Retained
<1>7. QED
  BY <1>3, <1>4, <1>5, <1>6 DEF StreamInv

\* Steps of the task that send nothing: the filter holds the engine's end back.
LEMMA TaskMoves ==
  ASSUME StreamInv, EngineEnds \/ StreamFails \/ EngineFails \/ Log \/ Raises
  PROVE  StreamInv'
<1>1. /\ UNCHANGED <<hub, request, step, runs, older, begun, faults>>
      /\ stage' \in {"idle", "result", "invoke", "error"}
      /\ stage \in {"log", "error", "idle"} => stage' \in {"log", "error", "idle"}
      /\ stage' = "idle" => stage = "log" /\ Idle(Main)
      /\ \A s \in Steps : Idle(s)
  BY DEF EngineEnds, EngineTells, Forwarded, StreamFails, EngineFails, Log,
         Raises, StreamInv, Retained, AllIdle, Casters
<1>2. /\ UNCHANGED <<buffer, store, conns, cast, ws, open, script, got, view, sse, queue>>
      /\ UNCHANGED <<timer, pending, clearing, leaked, bound, clock>>
  BY <1>1 DEF hub, clients, streams, retention
<1>3. StreamTypeOK'
  BY <1>1, <1>2 DEF StreamInv, StreamTypeOK, request
<1>4. Arrived' /\ Reaches'
  BY <1>2 DEF StreamInv, Arrived, Reaches, Coming
<1>5. Verdicts'
  BY <1>1, <1>2 DEF StreamInv, Verdicts, Timely, EndsStream, Idle, request
<1>6. Retained'
  <2>1. ASSUME AsleepAfter(older) PROVE AsleepAfter(0)'
    <3>1. older \in Nat /\ DOMAIN timer = 1 .. Len(timer) /\ Len(timer) \in Nat
      BY DEF StreamInv, StreamTypeOK
    <3>2. QED
      BY <2>1, <1>2, <3>1 DEF AsleepAfter
  <2>2. ASSUME TerminalComing PROVE TerminalComing'
    BY <2>2, <1>2 DEF TerminalComing, Idle
  <2>3. stage' = "idle" => TerminalComing' \/ AsleepAfter(0)'
    BY <1>1, <2>1, <2>2 DEF StreamInv, Retained
  <2>4. QED
    BY <1>1, <1>2, <2>3 DEF Retained, Idle
<1>7. QED
  BY <1>3, <1>4, <1>5, <1>6 DEF StreamInv

-----------------------------------------------------------------------------
(***************************************************************************)
(* A broadcast goes on.                                                    *)
(***************************************************************************)

\* A timer sleeps after a broadcast returned, if one did before or its event is terminal.
TimersKept(b) ==
    \A n \in 0 .. Len(timer) : AsleepAfter(n) \/ cast[b].ev.type \in Terminal => AsleepAfter(n)'

\* What the steps of a broadcast have in common: it returns, having queued its event
\* and started a timer for a terminal one, or sends the same event on.
Moved(b) ==
    /\ cast[b].at \in {"persist", "send"}
    /\ cast' \in [Casters -> CastRecord] /\ \A d \in Casters : d # b => cast'[d] = cast[d]
    /\ queue' \in [Listeners -> Seq(Events)]
    /\ timer' \in Seq({"asleep", "cancelled", "over", "gone"}) /\ Len(timer') >= Len(timer)
    /\ pending' \in DOMAIN timer' \cup {None}
    /\ \/ /\ cast'[b] = Silent /\ TimersKept(b)
          /\ \A l \in Listeners : \A e \in Range(queue'[l]) : e \in Range(queue[l]) \/ e = cast[b].ev
       \/ /\ cast'[b].at = "send" /\ cast'[b].ev = cast[b].ev
          /\ UNCHANGED <<conns, queue, timer, pending>>

LEMMA FinishFacts ==
  ASSUME StreamTypeOK, NEW b \in Casters, NEW dead, Finish(b, dead),
         cast[b].at \in {"persist", "send"}
  PROVE  /\ Moved(b) /\ conns' = conns \ dead
         /\ cast' = [cast EXCEPT ![b] = Silent] /\ cast'[b] = Silent
<1>1. cast' = [cast EXCEPT ![b] = Silent] /\ conns' = conns \ dead
  BY DEF Finish
<1>2. /\ cast' \in [Casters -> CastRecord] /\ cast'[b] = Silent
      /\ \A d \in Casters : d # b => cast'[d] = cast[d]
  BY <1>1, CastFacts, SilentFacts
<1>3. /\ queue' \in [Listeners -> Seq(Events)]
      /\ \A l \in Listeners : \A e \in Range(queue'[l]) : e \in Range(queue[l]) \/ e = cast[b].ev
  <2>1. cast[b].ev \in Events
    BY CastFacts
  <2>2. queue' = [l \in Listeners |->
                     IF sse[l] = "open" THEN Append(queue[l], cast[b].ev) ELSE queue[l]]
    BY DEF Finish
  <2>3. ASSUME NEW l \in Listeners
        PROVE  /\ queue'[l] \in Seq(Events)
               /\ \A e \in Range(queue'[l]) : e \in Range(queue[l]) \/ e = cast[b].ev
    <3>1. queue[l] \in Seq(Events)
      BY QueuedFacts
    <3>2. /\ Append(queue[l], cast[b].ev) \in Seq(Events)
          /\ Range(Append(queue[l], cast[b].ev)) = Range(queue[l]) \cup {cast[b].ev}
      BY <2>1, <3>1, AppendRange
    <3>3. queue'[l] = IF sse[l] = "open" THEN Append(queue[l], cast[b].ev) ELSE queue[l]
      BY <2>2
    <3>4. QED
      BY <3>1, <3>2, <3>3
  <2>4. QED
    BY <2>2, <2>3
<1>4. /\ timer' \in Seq({"asleep", "cancelled", "over", "gone"}) /\ Len(timer') >= Len(timer)
      /\ pending' \in DOMAIN timer' \cup {None} /\ TimersKept(b)
  <2>1. CASE cast[b].ev.type \in Terminal
    <3>1. Schedule
      BY <2>1 DEF Finish, Terminal
    <3>2. /\ timer' \in Seq({"asleep", "cancelled", "over", "gone"})
          /\ Len(timer') = Len(timer) + 1 /\ timer'[Len(timer')] = "asleep"
          /\ pending' \in DOMAIN timer' /\ Len(timer) \in Nat
      BY <3>1, ScheduleFacts DEF StreamTypeOK
    <3>3. DOMAIN timer' = 1 .. Len(timer')
      BY <3>2, LenProperties
    <3>4. \A n \in 0 .. Len(timer) : AsleepAfter(n)'
      BY <3>2, <3>3 DEF AsleepAfter
    <3>5. QED
      BY <3>2, <3>4 DEF TimersKept
  <2>2. CASE cast[b].ev.type \notin Terminal
    <3>1. UNCHANGED <<timer, pending>>
      BY <2>2 DEF Finish, Terminal
    <3>2. QED
      BY <2>2, <3>1 DEF StreamTypeOK, TimersKept, AsleepAfter
  <2>3. QED
    BY <2>1, <2>2
<1>5. QED
  BY <1>1, <1>2, <1>3, <1>4 DEF Moved

\* The part of the invariant about verdicts and timers.
LEMMA MovedKeeps ==
  ASSUME StreamInv, NEW b \in Casters, Moved(b), UNCHANGED run, UNCHANGED <<clock, sse, clearing, buffer>>,
         cast'[b].at = "idle" \/ cast'[b].at = "send"
  PROVE  Verdicts' /\ Retained'
<1>1. StreamTypeOK /\ UNCHANGED <<stage, evaluation, older, begun>>
  BY DEF StreamInv, run, request
<1>2. cast[b].ev \in Events /\ Timely(cast[b].ev) /\ ~Idle(b)
  BY <1>1, CastFacts DEF StreamInv, Verdicts, Moved, Idle
<1>3. Verdicts'
  <2>1. ASSUME NEW e, Timely(e) PROVE Timely(e)'
    BY <1>1, <2>1 DEF Timely, EndsStream
  <2>2. ASSUME NEW l \in Listeners, NEW e \in Range(queue'[l]) PROVE Timely(e)'
    <3>1. e \in Range(queue[l]) \/ e = cast[b].ev
      BY <2>2 DEF Moved
    <3>2. Timely(e)
      BY <1>2, <3>1 DEF StreamInv, Verdicts
    <3>3. QED
      BY <2>1, <3>2
  <2>3. ASSUME NEW d \in Casters, ~Idle(d)' PROVE Timely(cast[d].ev)'
    <3>1. cast'[d].ev = cast[d].ev /\ ~Idle(d)
      BY <2>3, <1>2, SilentFacts DEF Moved, Idle
    <3>2. PICK f : f = cast[d].ev /\ Timely(f)
      BY <3>1 DEF StreamInv, Verdicts
    <3>3. Timely(f)' /\ f = cast'[d].ev
      BY <2>1, <3>1, <3>2
    <3>4. QED
      BY <3>3 DEF Timely
  <2>4. QED
    BY <2>2, <2>3 DEF Verdicts
<1>4. ASSUME NEW d \in Casters, Idle(d) PROVE Idle(d)'
  BY <1>2, <1>4 DEF Moved, Idle
<1>5. ASSUME NEW n \in 0 .. Len(timer), TerminalComing \/ AsleepAfter(n)
      PROVE  TerminalComing' \/ AsleepAfter(n)'
  <2>1. CASE cast'[b] = Silent /\ TimersKept(b)
    <3>1. CASE AsleepAfter(n) \/ cast[b].ev.type \in Terminal
      BY <2>1, <3>1 DEF TimersKept
    <3>2. CASE TerminalComing /\ cast[b].ev.type \notin Terminal
      BY <3>2 DEF TerminalComing, Moved, Idle
    <3>3. QED
      BY <1>5, <3>1, <3>2
  <2>2. CASE cast'[b].at = "send" /\ cast'[b].ev = cast[b].ev /\ UNCHANGED timer
    <3>1. ASSUME TerminalComing PROVE TerminalComing'
      BY <2>2, <3>1 DEF TerminalComing, Moved, Idle
    <3>2. QED
      BY <1>5, <2>2, <3>1 DEF AsleepAfter
  <2>3. QED
    BY <2>1, <2>2 DEF Moved
<1>6. older \in 0 .. Len(timer) /\ 0 \in 0 .. Len(timer)
  BY <1>1 DEF StreamTypeOK
<1>7. Retained'
  <2>1. stage # "run" => \A s \in Steps : Idle(s)'
    BY <1>4 DEF StreamInv, Retained, Casters
  <2>2. stage = "idle" /\ ~Idle(Main)' => cast'[Main].ev.type \in Terminal
    <3>1. Main \in Casters
      BY DEF Casters
    <3>2. ~Idle(Main)' => cast'[Main].ev = cast[Main].ev /\ ~Idle(Main)
      BY <3>1, <1>2, SilentFacts DEF Moved, Idle
    <3>3. QED
      BY <3>2 DEF StreamInv, Retained
  <2>3. stage \in {"evaluate", "judge", "log"} => TerminalComing' \/ AsleepAfter(older)'
    BY <1>1, <1>5, <1>6 DEF StreamInv, Retained
  <2>4. stage = "idle" => TerminalComing' \/ AsleepAfter(0)'
    <3>1. ~AllIdle
      BY <1>2 DEF AllIdle
    <3>2. QED
      BY <3>1, <1>5, <1>6 DEF StreamInv, Retained
  <2>5. QED
    BY <1>1, <2>1, <2>2, <2>3, <2>4 DEF Retained
<1>8. QED
  BY <1>3, <1>7

\* The part that is typing.
LEMMA MovedTypes ==
  ASSUME StreamInv, NEW b \in Casters, Moved(b), UNCHANGED run,
         UNCHANGED <<clock, sse, clearing, leaked, bound, buffer, ws, open, script>>,
         store' \in Seq(Events), Len(store') <= MaxBuffer, faults' \in Nat,
         conns' \subseteq Sockets, open \subseteq conns',
         got' \in [Sockets -> SUBSET Events],
         view' \in [Sockets -> [Steps -> {"unknown", "running", "ended"}]]
  PROVE  StreamTypeOK'
<1>1. older' \in 0 .. Len(timer')
  <2>1. older' = older /\ older \in 0 .. Len(timer) /\ Len(timer) \in Nat
    BY DEF StreamInv, StreamTypeOK, run
  <2>2. Len(timer') >= Len(timer) /\ Len(timer') \in Nat
    BY LenProperties DEF Moved
  <2>3. QED
    BY <2>1, <2>2
<1>2. QED
  BY <1>1 DEF StreamInv, StreamTypeOK, Moved, CastRecord, run, request

\* The store has answered, one way or the other.
LEMMA PersistStep ==
  ASSUME StreamInv, NEW b \in Casters, Persist(b) \/ PersistFails(b), faults' \in Nat, UNCHANGED run
  PROVE  StreamInv'
<1>1. /\ StreamTypeOK /\ cast[b].at = "persist" /\ Deliver(b)
      /\ UNCHANGED <<buffer, ws, open, script, got, view, sse, clearing, leaked, bound, clock>>
  BY DEF StreamInv, Persist, PersistFails, clients
<1>2. PICK ev \in Events : ev = cast[b].ev
  BY <1>1, CastFacts
<1>3. /\ store' \in Seq(Events) /\ Len(store') <= MaxBuffer
      /\ Range(store') \subseteq Range(store) \cup {ev}
  <2>1. store \in Seq(Events) /\ Len(store) <= MaxBuffer
    BY <1>1 DEF StreamTypeOK
  <2>2. store' = Pushed(store, ev) \/ store' = store
    BY <1>2 DEF Persist, PersistFails
  <2>3. /\ Pushed(store, ev) \in Seq(Events) /\ Len(Pushed(store, ev)) <= MaxBuffer
        /\ Range(Pushed(store, ev)) \subseteq Range(store) \cup {ev}
    BY <2>1, PushedFacts
  <2>4. QED
    BY <2>1, <2>2, <2>3
<1>4. CASE conns = {}
  <2>1. Moved(b) /\ conns' = conns /\ cast'[b] = Silent /\ open = {}
    BY <1>1, <1>4, FinishFacts DEF Deliver, StreamTypeOK
  <2>2. \A d \in Casters : d # b => cast'[d] = cast[d]
    BY <2>1 DEF Moved
  <2>3. StreamTypeOK'
    BY <1>1, <1>3, <2>1, MovedTypes DEF StreamTypeOK
  <2>4. Arrived'
    BY <1>1, <2>1, <2>2, SilentFacts DEF StreamInv, Arrived
  <2>5. Reaches'
    BY <1>1, <2>1 DEF Reaches
  <2>6. Verdicts' /\ Retained'
    BY <1>1, <2>1, SilentFacts, MovedKeeps
  <2>7. QED
    BY <2>3, <2>4, <2>5, <2>6 DEF StreamInv
<1>5. CASE conns # {}
  <2>1. /\ cast' = [cast EXCEPT ![b].at = "send", ![b].to = conns]
        /\ UNCHANGED <<conns, queue, timer, pending>>
    BY <1>1, <1>5 DEF Deliver
  <2>2. cast \in [Casters -> CastRecord] /\ cast[b] \in CastRecord /\ conns \subseteq Sockets
    BY <1>1, CastFacts DEF StreamTypeOK
  <2>3. /\ cast' \in [Casters -> CastRecord] /\ \A d \in Casters : d # b => cast'[d] = cast[d]
        /\ cast'[b].at = "send" /\ cast'[b].ev = cast[b].ev
        /\ cast'[b].to = conns /\ cast'[b].dead = cast[b].dead
    BY <2>1, <2>2 DEF CastRecord
  <2>4. Moved(b)
    BY <1>1, <2>1, <2>3 DEF Moved, StreamTypeOK
  <2>5. StreamTypeOK'
    BY <1>1, <1>3, <2>1, <2>4, MovedTypes DEF StreamTypeOK
  <2>6. Arrived'
    BY <1>1, <2>1, <2>3 DEF StreamInv, Arrived
  <2>7. Reaches'
    <3> SUFFICES ASSUME NEW c \in open, ws[c] \in {"replaying", "live"},
                        NEW f \in Range(buffer) \cap Range(store')
                 PROVE  f \in got[c] \/ f \in Range(script[c]) \/ Coming(c, f)'
      BY <1>1 DEF Reaches, StreamInv
    <3>1. CASE f = ev
      <4>1. c \in conns
        BY <1>1 DEF StreamTypeOK
      <4>2. QED
        BY <3>1, <4>1, <1>2, <2>3 DEF Coming
    <3>2. CASE f # ev
      <4>1. f \in got[c] \/ f \in Range(script[c]) \/ Coming(c, f)
        BY <3>2, <1>3 DEF StreamInv, Reaches
      <4>2. ASSUME Coming(c, f) PROVE Coming(c, f)'
        BY <3>2, <4>2, <1>2, <2>3 DEF Coming
      <4>3. QED
        BY <4>1, <4>2
    <3>3. QED
      BY <3>1, <3>2
  <2>8. Verdicts' /\ Retained'
    BY <1>1, <2>3, <2>4, MovedKeeps
  <2>9. QED
    BY <2>5, <2>6, <2>7, <2>8 DEF StreamInv
<1>6. QED
  BY <1>4, <1>5

\* The client handles an event: it has that one more, and shows a status of a step.
LEMMA ReceiveFacts ==
  ASSUME StreamTypeOK, NEW c \in Sockets, NEW e \in Events, Receive(c, e)
  PROVE  /\ got' \in [Sockets -> SUBSET Events]
         /\ view' \in [Sockets -> [Steps -> {"unknown", "running", "ended"}]]
         /\ e \in got'[c] /\ \A d \in Sockets : got[d] \subseteq got'[d]
<1>1. /\ got \in [Sockets -> SUBSET Events]
      /\ view \in [Sockets -> [Steps -> {"unknown", "running", "ended"}]]
  BY DEF StreamTypeOK
<1>2. got' = [got EXCEPT ![c] = got[c] \cup {e}] /\ view' = [view EXCEPT ![c] = Shown(c, e)]
  BY DEF Receive
<1>3. Shown(c, e) \in [Steps -> {"unknown", "running", "ended"}]
  <2>1. \A x \in {"running", "ended"} :
          [view[c] EXCEPT ![e.step] = x] \in [Steps -> {"unknown", "running", "ended"}]
    BY <1>1
  <2>2. QED
    BY <1>1, <2>1 DEF Shown
<1>4. QED
  BY <1>1, <1>2, <1>3

\* One send of the loop.
LEMMA SendStep ==
  ASSUME StreamInv, NEW b \in Casters, Send(b), UNCHANGED <<run, faults>>
  PROVE  StreamInv'
<1>1. /\ StreamTypeOK /\ cast[b].at = "send"
      /\ UNCHANGED <<buffer, store, ws, open, script, sse, clearing, leaked, bound, clock>>
  BY DEF StreamInv, Send
<1>2. /\ cast \in [Casters -> CastRecord] /\ cast[b] \in CastRecord
      /\ cast[b].to \subseteq Sockets /\ cast[b].dead \subseteq Sockets
  BY <1>1, CastFacts
<1>3. PICK ev \in Events : ev = cast[b].ev
  BY <1>1, CastFacts
<1>4. PICK c \in cast[b].to, dead \in SUBSET Sockets :
        /\ dead = IF c \in open THEN cast[b].dead ELSE cast[b].dead \cup {c}
        /\ IF c \in open THEN Receive(c, ev) ELSE UNCHANGED <<got, view>>
        /\ IF cast[b].to = {c} THEN Finish(b, dead)
           ELSE /\ cast' = [cast EXCEPT ![b].to = @ \ {c}, ![b].dead = dead]
                /\ UNCHANGED <<conns, queue, timer, pending>>
  <2>1. PICK c \in cast[b].to :
          LET dead == IF c \in open THEN cast[b].dead ELSE cast[b].dead \cup {c}
          IN  /\ IF c \in open THEN Receive(c, cast[b].ev) ELSE UNCHANGED <<got, view>>
              /\ IF cast[b].to = {c} THEN Finish(b, dead)
                 ELSE /\ cast' = [cast EXCEPT ![b].to = @ \ {c}, ![b].dead = dead]
                      /\ UNCHANGED <<conns, queue, timer, pending>>
    BY DEF Send
  <2>2. c \in Sockets
    BY <1>2
  <2>3. QED
    BY <1>2, <1>3, <2>1, <2>2
<1>5. /\ c \in Sockets /\ dead \cap open = {}
      /\ \A d \in dead : ws[d] # "away"
  BY <1>2, <1>4 DEF StreamInv, Arrived
<1>6. /\ got' \in [Sockets -> SUBSET Events]
      /\ view' \in [Sockets -> [Steps -> {"unknown", "running", "ended"}]]
      /\ c \in open => ev \in got'[c]
      /\ \A d \in Sockets : got[d] \subseteq got'[d]
  <2>1. CASE c \in open
    BY <1>1, <1>4, <1>5, <2>1, ReceiveFacts
  <2>2. CASE c \notin open
    BY <1>1, <1>4, <2>2 DEF StreamTypeOK
  <2>3. QED
    BY <2>1, <2>2
<1>7. /\ Moved(b) /\ conns' \subseteq conns /\ open \subseteq conns'
      /\ cast'[b] = Silent \/ cast'[b].at = "send"
      /\ cast'[b].to \subseteq cast[b].to /\ cast'[b].dead \subseteq dead
      /\ \A d \in cast[b].to : d = c \/ (/\ cast'[b].at = "send" /\ cast'[b].ev = ev
                                         /\ d \in cast'[b].to)
  <2>1. CASE cast[b].to = {c}
    <3>1. Moved(b) /\ conns' = conns \ dead /\ cast'[b] = Silent
      BY <1>1, <1>4, <2>1, FinishFacts
    <3>2. QED
      BY <1>1, <1>5, <2>1, <3>1, SilentFacts DEF StreamTypeOK
  <2>2. CASE cast[b].to # {c}
    <3>1. /\ cast' = [cast EXCEPT ![b].to = cast[b].to \ {c}, ![b].dead = dead]
          /\ UNCHANGED <<conns, queue, timer, pending>>
      BY <1>4, <2>2
    <3>2. /\ cast' \in [Casters -> CastRecord] /\ \A d \in Casters : d # b => cast'[d] = cast[d]
          /\ cast'[b].at = "send" /\ cast'[b].ev = cast[b].ev
          /\ cast'[b].to = cast[b].to \ {c} /\ cast'[b].dead = dead
      BY <1>1, <1>2, <3>1 DEF CastRecord
    <3>3. Moved(b)
      BY <1>1, <3>1, <3>2 DEF Moved, StreamTypeOK
    <3>4. QED
      BY <1>1, <1>3, <3>1, <3>2, <3>3 DEF StreamTypeOK
  <2>3. QED
    BY <2>1, <2>2
<1>8. \A d \in Casters : d # b => cast'[d] = cast[d]
  BY <1>7 DEF Moved
<1>9. StreamTypeOK'
  BY <1>1, <1>6, <1>7, MovedTypes DEF StreamTypeOK
<1>10. Arrived'
  BY <1>1, <1>5, <1>7, <1>8 DEF StreamInv, Arrived
<1>11. Reaches'
  <2> SUFFICES ASSUME NEW d \in open, ws[d] \in {"replaying", "live"},
                      NEW f \in Range(buffer) \cap Range(store)
               PROVE  f \in got'[d] \/ f \in Range(script[d]) \/ Coming(d, f)'
    BY <1>1 DEF Reaches, StreamInv
  <2>1. d \in Sockets
    BY <1>1 DEF StreamTypeOK
  <2>2. ASSUME Coming(d, f) PROVE f \in got'[d] \/ Coming(d, f)'
    <3>1. PICK x \in Casters : /\ cast[x].ev = f
                               /\ cast[x].at = "persist" \/ (cast[x].at = "send" /\ d \in cast[x].to)
      BY <2>2 DEF Coming
    <3>2. CASE x = b
      <4>1. d \in cast[b].to /\ f = ev
        BY <3>1, <3>2, <1>1, <1>3
      <4>2. QED
        BY <4>1, <1>6, <1>7 DEF Coming
    <3>3. CASE x # b
      BY <3>1, <3>3, <1>8 DEF Coming
    <3>4. QED
      BY <3>2, <3>3
  <2>3. QED
    BY <1>6, <2>1, <2>2 DEF StreamInv, Reaches
<1>12. Verdicts' /\ Retained'
  BY <1>1, <1>7, SilentFacts, MovedKeeps
<1>13. QED
  BY <1>9, <1>10, <1>11, <1>12 DEF StreamInv

LEMMA CastSteps ==
  ASSUME StreamInv, NEW b \in Casters, CastStep(b) \/ CastStepFails(b)
  PROVE  StreamInv'
<1>1. faults \in Nat /\ (faults > 0 => faults - 1 \in Nat)
  BY DEF StreamInv, StreamTypeOK
<1>2. CASE CastStep(b)
  BY <1>1, <1>2, PersistStep, SendStep DEF CastStep
<1>3. CASE CastStepFails(b)
  BY <1>1, <1>3, PersistStep DEF CastStepFails
<1>4. QED
  BY <1>2, <1>3

-----------------------------------------------------------------------------
(***************************************************************************)
(* The clients come, replay and go.                                        *)
(***************************************************************************)

\* The invariant's parts about verdicts and retention do not depend on the sockets.
LEMMA SocketsApart ==
  ASSUME StreamInv, UNCHANGED <<buffer, store, cast, streams, retention, clock>>,
         UNCHANGED <<run, faults>>
  PROVE  Verdicts' /\ Retained'
<1>1. /\ UNCHANGED <<buffer, store, cast, queue, timer, clearing, leaked, clock>>
      /\ UNCHANGED <<stage, evaluation, older, begun>>
  BY DEF streams, retention, run, request
<1>2. QED
  BY <1>1 DEF StreamInv, Verdicts, Timely, Idle, Retained, TerminalComing, AsleepAfter, AllIdle

\* A client connects: no broadcast knows it and nothing is promised to it.
LEMMA ConnectStep ==
  ASSUME StreamInv, NEW c \in Sockets, Connect(c), UNCHANGED <<run, faults>>
  PROVE  StreamInv'
<1>1. /\ ws[c] = "away" /\ ws' = [ws EXCEPT ![c] = "joined"] /\ open' = open \cup {c}
      /\ conns' = conns \cup {c}
      /\ UNCHANGED <<buffer, store, cast, script, got, view, streams, retention, clock>>
  BY DEF Connect
<1>2. /\ ws \in [Sockets -> {"away", "joined", "replaying", "live", "gone"}]
      /\ conns \subseteq Sockets /\ open \subseteq conns /\ StreamTypeOK
      /\ \A b \in Casters : cast[b].to \subseteq Sockets /\ cast[b].dead \subseteq Sockets
  BY CastFacts DEF StreamInv, StreamTypeOK
<1>3. ws'[c] = "joined" /\ \A d \in Sockets : d # c => ws'[d] = ws[d]
  BY <1>1, <1>2
<1>4. StreamTypeOK'
  BY <1>1, <1>2 DEF StreamTypeOK, streams, retention, run, request
<1>5. Arrived'
  BY <1>1, <1>2, <1>3 DEF StreamInv, Arrived
<1>6. Reaches'
  <2> SUFFICES ASSUME NEW d \in open'
               PROVE  /\ ws'[d] = "live" => script[d] = <<>>
                      /\ ws'[d] \in {"replaying", "live"} =>
                           \A e \in Range(buffer) \cap Range(store) :
                             e \in got[d] \/ e \in Range(script[d]) \/ Coming(d, e)'
    BY <1>1 DEF Reaches
  <2>1. \A e : Coming(d, e) => Coming(d, e)'
    BY <1>1 DEF Coming
  <2>2. CASE d = c
    BY <1>3, <2>2
  <2>3. CASE d # c
    <3>1. d \in open /\ ws'[d] = ws[d]
      BY <1>1, <1>2, <1>3, <2>3
    <3>2. QED
      BY <2>1, <3>1 DEF StreamInv, Reaches
  <2>4. QED
    BY <2>2, <2>3
<1>7. Verdicts' /\ Retained'
  BY <1>1, SocketsApart
<1>8. QED
  BY <1>4, <1>5, <1>6, <1>7 DEF StreamInv

\* get_events answers: what both buffer and store hold is in either answer.
LEMMA HistoryStep ==
  ASSUME StreamInv, NEW c \in Sockets, ReadHistory(c), UNCHANGED <<run, faults>>
  PROVE  StreamInv'
<1>1. /\ ws[c] = "joined" /\ ws' = [ws EXCEPT ![c] = "replaying"]
      /\ UNCHANGED <<buffer, store, conns, cast, open, got, view, streams, retention, clock>>
  BY DEF ReadHistory
<1>2. /\ ws \in [Sockets -> {"away", "joined", "replaying", "live", "gone"}]
      /\ script \in [Sockets -> Seq(Events)] /\ open \subseteq Sockets
      /\ buffer \in Seq(Events) /\ store \in Seq(Events) /\ StreamTypeOK
  BY DEF StreamInv, StreamTypeOK
<1>3. PICK past \in {store, buffer} : script' = [script EXCEPT ![c] = past]
  BY DEF ReadHistory
<1>4. /\ ws'[c] = "replaying" /\ \A d \in Sockets : d # c => ws'[d] = ws[d]
      /\ script'[c] = past /\ \A d \in Sockets : d # c => script'[d] = script[d]
      /\ script' \in [Sockets -> Seq(Events)]
  BY <1>1, <1>2, <1>3
<1>5. StreamTypeOK'
  BY <1>1, <1>2, <1>4 DEF StreamTypeOK, streams, retention, run, request
<1>6. Arrived'
  BY <1>1, <1>2, <1>4, CastFacts DEF StreamInv, Arrived, StreamTypeOK
<1>7. Reaches'
  <2> SUFFICES ASSUME NEW d \in open
               PROVE  /\ ws'[d] = "live" => script'[d] = <<>>
                      /\ ws'[d] \in {"replaying", "live"} =>
                           \A e \in Range(buffer) \cap Range(store) :
                             e \in got[d] \/ e \in Range(script'[d]) \/ Coming(d, e)'
    BY <1>1 DEF Reaches
  <2>1. \A e : Coming(d, e) => Coming(d, e)'
    BY <1>1 DEF Coming
  <2>2. CASE d = c
    BY <1>3, <1>4, <2>2
  <2>3. CASE d # c
    BY <1>2, <1>4, <2>1, <2>3 DEF StreamInv, Reaches
  <2>4. QED
    BY <2>2, <2>3
<1>8. Verdicts' /\ Retained'
  BY <1>1, SocketsApart
<1>9. QED
  BY <1>5, <1>6, <1>7, <1>8 DEF StreamInv

\* One event of the replay, or its end.
LEMMA ReplayStep ==
  ASSUME StreamInv, NEW c \in Sockets, Replay(c), UNCHANGED <<run, faults>>
  PROVE  StreamInv'
<1>1. /\ ws[c] = "replaying"
      /\ UNCHANGED <<buffer, store, conns, cast, open, streams, retention, clock>>
  BY DEF Replay
<1>2. /\ ws \in [Sockets -> {"away", "joined", "replaying", "live", "gone"}]
      /\ script \in [Sockets -> Seq(Events)] /\ open \subseteq Sockets /\ conns \subseteq Sockets
      /\ StreamTypeOK /\ script[c] \in Seq(Events)
      /\ \A b \in Casters : cast[b].to \subseteq Sockets /\ cast[b].dead \subseteq Sockets
  BY CastFacts DEF StreamInv, StreamTypeOK
<1>3. Verdicts' /\ Retained'
  BY <1>1, SocketsApart
<1>4. \A d, e : Coming(d, e) => Coming(d, e)'
  BY <1>1 DEF Coming
<1>5. CASE script[c] = <<>> \/ c \notin open
  <2>1. /\ ws' = [ws EXCEPT ![c] = "live"] /\ script' = [script EXCEPT ![c] = <<>>]
        /\ UNCHANGED <<got, view>>
    BY <1>5 DEF Replay
  <2>2. /\ ws'[c] = "live" /\ \A d \in Sockets : d # c => ws'[d] = ws[d]
        /\ script'[c] = <<>> /\ \A d \in Sockets : d # c => script'[d] = script[d]
        /\ script' \in [Sockets -> Seq(Events)]
    BY <1>2, <2>1
  <2>3. StreamTypeOK'
    BY <1>1, <1>2, <2>1, <2>2 DEF StreamTypeOK, streams, retention, run, request
  <2>4. Arrived'
    BY <1>1, <1>2, <2>2 DEF StreamInv, Arrived
  <2>5. Reaches'
    <3> SUFFICES ASSUME NEW d \in open
                 PROVE  /\ ws'[d] = "live" => script'[d] = <<>>
                        /\ ws'[d] \in {"replaying", "live"} =>
                             \A e \in Range(buffer) \cap Range(store) :
                               e \in got[d] \/ e \in Range(script'[d]) \/ Coming(d, e)'
      BY <1>1, <2>1 DEF Reaches
    <3>1. CASE d = c
      <4>1. script[c] = <<>> /\ script'[c] = script[c]
        BY <1>5, <2>2, <3>1
      <4>2. QED
        BY <1>1, <1>4, <2>2, <3>1, <4>1 DEF StreamInv, Reaches
    <3>2. CASE d # c
      BY <1>2, <1>4, <2>2, <3>2 DEF StreamInv, Reaches
    <3>3. QED
      BY <3>1, <3>2
  <2>6. QED
    BY <1>3, <2>3, <2>4, <2>5 DEF StreamInv
<1>6. CASE script[c] # <<>> /\ c \in open
  <2>1. /\ Receive(c, Head(script[c])) /\ script' = [script EXCEPT ![c] = Tail(script[c])]
        /\ UNCHANGED ws
    BY <1>6 DEF Replay
  <2>2. PICK e \in Events, rest \in Seq(Events) :
          /\ e = Head(script[c]) /\ rest = Tail(script[c])
          /\ Range(script[c]) = {e} \cup Range(rest)
    <3>1. /\ Head(script[c]) \in Events /\ Tail(script[c]) \in Seq(Events)
          /\ Range(script[c]) = {Head(script[c])} \cup Range(Tail(script[c]))
      BY <1>2, <1>6, HeadAndTail
    <3>2. QED
      BY <3>1
  <2>3. /\ got' \in [Sockets -> SUBSET Events]
        /\ view' \in [Sockets -> [Steps -> {"unknown", "running", "ended"}]]
        /\ e \in got'[c] /\ \A d \in Sockets : got[d] \subseteq got'[d]
    BY <1>2, <2>1, <2>2, ReceiveFacts
  <2>4. /\ script' \in [Sockets -> Seq(Events)] /\ script'[c] = rest
        /\ \A d \in Sockets : d # c => script'[d] = script[d]
    BY <1>2, <2>1, <2>2
  <2>5. StreamTypeOK'
    BY <1>1, <1>2, <2>1, <2>3, <2>4 DEF StreamTypeOK, streams, retention, run, request
  <2>6. Arrived'
    BY <1>1, <2>1 DEF StreamInv, Arrived
  <2>7. Reaches'
    <3> SUFFICES ASSUME NEW d \in open
                 PROVE  /\ ws[d] = "live" => script'[d] = <<>>
                        /\ ws[d] \in {"replaying", "live"} =>
                             \A f \in Range(buffer) \cap Range(store) :
                               f \in got'[d] \/ f \in Range(script'[d]) \/ Coming(d, f)'
      BY <1>1, <2>1 DEF Reaches
    <3>1. CASE d = c
      BY <1>1, <1>4, <2>2, <2>3, <2>4, <3>1 DEF StreamInv, Reaches
    <3>2. CASE d # c
      BY <1>2, <1>4, <2>3, <2>4, <3>2 DEF StreamInv, Reaches
    <3>3. QED
      BY <3>1, <3>2
  <2>8. QED
    BY <1>3, <2>5, <2>6, <2>7 DEF StreamInv
<1>7. QED
  BY <1>5, <1>6

\* The client goes away, and its endpoint after it.
LEMMA GoneSteps ==
  ASSUME StreamInv, NEW c \in Sockets, Drop(c) \/ Disconnect(c), UNCHANGED <<run, faults>>
  PROVE  StreamInv'
<1>1. /\ ws \in [Sockets -> {"away", "joined", "replaying", "live", "gone"}]
      /\ open \subseteq conns /\ conns \subseteq Sockets /\ StreamTypeOK
      /\ got \in [Sockets -> SUBSET Events]
      /\ view \in [Sockets -> [Steps -> {"unknown", "running", "ended"}]]
      /\ \A b \in Casters : cast[b].to \subseteq Sockets /\ cast[b].dead \subseteq Sockets
  BY CastFacts DEF StreamInv, StreamTypeOK
<1>2. /\ UNCHANGED <<buffer, store, cast, script, streams, retention, clock>>
      /\ open' \subseteq open /\ open' \subseteq conns' /\ conns' \subseteq conns
      /\ ws' \in [Sockets -> {"away", "joined", "replaying", "live", "gone"}]
      /\ got' \in [Sockets -> SUBSET Events]
      /\ view' \in [Sockets -> [Steps -> {"unknown", "running", "ended"}]]
      /\ \A d \in open' : got'[d] = got[d] /\ ws'[d] = ws[d]
      /\ \A d \in Sockets : ws[d] # "away" => ws'[d] # "away"
  <2>1. CASE Drop(c)
    <3>1. /\ UNCHANGED <<buffer, store, conns, cast, ws, script, streams, retention, clock>>
          /\ open' = open \ {c} /\ got' = [got EXCEPT ![c] = {}]
          /\ view' = [view EXCEPT ![c] = [s \in Steps |-> "unknown"]]
      BY <2>1 DEF Drop
    <3>2. view' \in [Sockets -> [Steps -> {"unknown", "running", "ended"}]]
      BY <1>1, <3>1
    <3>3. QED
      BY <1>1, <3>1, <3>2
  <2>2. CASE Disconnect(c)
    <3>1. /\ ws[c] = "live" /\ c \notin open /\ ws' = [ws EXCEPT ![c] = "gone"]
          /\ conns' = conns \ {c}
          /\ UNCHANGED <<buffer, store, cast, open, script, got, view, streams, retention, clock>>
      BY <2>2 DEF Disconnect
    <3>2. QED
      BY <1>1, <3>1
  <2>3. QED
    BY <2>1, <2>2
<1>3. StreamTypeOK'
  BY <1>1, <1>2 DEF StreamTypeOK, streams, retention, run, request
<1>4. Arrived'
  BY <1>1, <1>2 DEF StreamInv, Arrived
<1>5. Reaches'
  <2>1. \A d, e : Coming(d, e) => Coming(d, e)'
    BY <1>2 DEF Coming
  <2>2. QED
    BY <1>2, <2>1 DEF StreamInv, Reaches
<1>6. Verdicts' /\ Retained'
  BY <1>2, SocketsApart
<1>7. QED
  BY <1>3, <1>4, <1>5, <1>6 DEF StreamInv

\* The steps of a listener touch its queue only, and add nothing to it.
LEMMA SseSteps ==
  ASSUME StreamInv, NEW l \in Listeners, SseOpen(l) \/ SseNext(l) \/ SseLeave(l),
         UNCHANGED <<run, faults>>
  PROVE  StreamInv'
<1>1. /\ UNCHANGED <<buffer, store, conns, cast, ws, open, script, got, view>>
      /\ UNCHANGED <<timer, pending, clearing, leaked, bound, clock, stage, evaluation, older, begun>>
  BY DEF SseOpen, SseNext, SseLeave, clients, retention, run, request
<1>2. /\ sse \in [Listeners -> {"away", "open", "ended", "left"}]
      /\ queue \in [Listeners -> Seq(Events)] /\ StreamTypeOK
  BY DEF StreamInv, StreamTypeOK
<1>3. /\ queue' \in [Listeners -> Seq(Events)]
      /\ \A k \in Listeners : Range(queue'[k]) \subseteq Range(queue[k])
  <2>1. PICK rest \in Seq(Events) :
          /\ Range(rest) \subseteq Range(queue[l])
          /\ queue' = [queue EXCEPT ![l] = rest] \/ queue' = queue
    <3>1. CASE queue' = [queue EXCEPT ![l] = <<>>]
      <4>1. <<>> \in Seq(Events) /\ Range(<<>>) = {}
        BY DEF Range
      <4>2. QED
        BY <3>1, <4>1
    <3>2. CASE queue[l] # <<>> /\ queue' = [queue EXCEPT ![l] = Tail(queue[l])]
      <4>1. queue[l] \in Seq(Events)
        BY <1>2
      <4>2. Tail(queue[l]) \in Seq(Events) /\ Range(Tail(queue[l])) \subseteq Range(queue[l])
        BY <3>2, <4>1, HeadAndTail
      <4>3. QED
        BY <3>2, <4>2
    <3>3. CASE queue' = queue
      <4>1. queue[l] \in Seq(Events)
        BY <1>2
      <4>2. QED
        BY <3>3, <4>1
    <3>4. QED
      BY <3>1, <3>2, <3>3 DEF SseOpen, SseNext, SseLeave
  <2>2. QED
    BY <1>2, <2>1
<1>4. sse' \in [Listeners -> {"away", "open", "ended", "left"}]
  BY <1>2 DEF SseOpen, SseNext, SseLeave
<1>5. StreamTypeOK'
  BY <1>1, <1>2, <1>3, <1>4 DEF StreamTypeOK, run, request
<1>6. Arrived' /\ Reaches'
  BY <1>1 DEF StreamInv, Arrived, Reaches, Coming
<1>7. Verdicts'
  BY <1>1, <1>3 DEF StreamInv, Verdicts, Timely, Idle
<1>8. Retained'
  BY <1>1 DEF StreamInv, Retained, TerminalComing, AsleepAfter, AllIdle, Idle
<1>9. QED
  BY <1>5, <1>6, <1>7, <1>8 DEF StreamInv

-----------------------------------------------------------------------------
(***************************************************************************)
(* Retention.                                                              *)
(***************************************************************************)

\* A timer wakes.  While a run is under way it is an older run's, so that run's own
\* timer sleeps on; when no run is, all that is left is cleared or due to be.
LEMMA WakeStep ==
  ASSUME StreamInv, NEW i \in DOMAIN timer, stage = "idle" \/ i <= older, ClearBuffer(i),
         UNCHANGED <<run, faults>>
  PROVE  StreamInv'
<1>1. /\ timer[i] = "asleep" /\ timer' = [timer EXCEPT ![i] = "over"]
      /\ buffer' = <<>> /\ bound' = FALSE /\ clearing' \in Nat /\ clearing' > 0
      /\ leaked' = leaked
      /\ UNCHANGED <<store, conns, cast, ws, open, script, got, view, sse, queue, pending, clock>>
  BY DEF ClearBuffer, clients, streams, StreamInv, StreamTypeOK
<1>2. StreamTypeOK /\ UNCHANGED <<stage, request, step, runs, older, begun, faults>>
  BY DEF StreamInv, run
<1>3. /\ timer' \in Seq({"asleep", "cancelled", "over", "gone"}) /\ Len(timer') = Len(timer)
      /\ DOMAIN timer' = DOMAIN timer /\ DOMAIN timer = 1 .. Len(timer) /\ older \in Nat
      /\ \A j \in DOMAIN timer : j # i => timer'[j] = timer[j]
  <2>1. timer \in Seq({"asleep", "cancelled", "over", "gone"}) /\ i \in 1 .. Len(timer)
    BY <1>2 DEF StreamTypeOK
  <2>2. older \in Nat
    BY <1>2 DEF StreamTypeOK
  <2>3. QED
    BY <1>1, <2>1, <2>2, ExceptSeq
<1>4. StreamTypeOK'
  <2>1. <<>> \in Seq(Events) /\ Len(<<>>) = 0 /\ 0 <= MaxBuffer
    BY HubAssumption
  <2>2. buffer' \in Seq(Events) /\ Len(buffer') <= MaxBuffer
    BY <1>1, <2>1
  <2>3. QED
    BY <1>1, <1>2, <1>3, <2>2 DEF StreamTypeOK, request
<1>5. Arrived'
  BY <1>1 DEF StreamInv, Arrived
<1>6. Reaches'
  <2>1. Range(buffer') = {}
    BY <1>1 DEF Range
  <2>2. QED
    BY <1>1, <2>1 DEF StreamInv, Reaches
<1>7. Verdicts'
  BY <1>1, <1>2 DEF StreamInv, Verdicts, Timely, EndsStream, Idle, request
<1>8. Retained'
  <2>1. /\ TerminalComing => TerminalComing'
        /\ \A d \in Casters : Idle(d)' <=> Idle(d)
    BY <1>1 DEF TerminalComing, Idle
  <2>2. stage # "idle" /\ AsleepAfter(older) => AsleepAfter(older)'
    <3> SUFFICES ASSUME i <= older, AsleepAfter(older) PROVE AsleepAfter(older)'
      OBVIOUS
    <3>1. PICK j \in DOMAIN timer : j > older /\ timer[j] = "asleep"
      BY DEF AsleepAfter
    <3>2. j # i
      BY <1>3, <3>1
    <3>3. QED
      BY <1>2, <1>3, <3>1, <3>2 DEF AsleepAfter
  <2>3. Main \in Casters /\ \A s \in Steps : s \in Casters
    BY DEF Casters
  <2>4. stage = "idle" => TerminalComing' \/ AllIdle'
    <3> SUFFICES ASSUME stage = "idle" PROVE TerminalComing' \/ AllIdle'
      OBVIOUS
    <3>1. CASE Idle(Main)
      BY <2>1, <2>3, <3>1 DEF StreamInv, Retained, AllIdle, Casters
    <3>2. CASE ~Idle(Main)
      BY <2>1, <2>3, <3>2 DEF StreamInv, Retained, TerminalComing
    <3>3. QED
      BY <3>1, <3>2
  <2>5. QED
    BY <1>1, <1>2, <2>1, <2>2, <2>3, <2>4 DEF StreamInv, Retained
<1>9. QED
  BY <1>4, <1>5, <1>6, <1>7, <1>8 DEF StreamInv

\* A timer's task ends, and with it what is known of the run's timer: those that sleep
\* are still there.
LEMMA EndStep ==
  ASSUME StreamInv, NEW i \in DOMAIN timer, TimerEnds(i), UNCHANGED <<run, faults>>
  PROVE  StreamInv'
<1>1. /\ timer[i] # "asleep" /\ timer' = [timer EXCEPT ![i] = "gone"] /\ pending' = None
      /\ UNCHANGED <<buffer, store, conns, cast, ws, open, script, got, view, sse, queue>>
      /\ UNCHANGED <<clearing, leaked, bound, clock>>
  BY DEF TimerEnds, clients, streams
<1>2. StreamTypeOK /\ UNCHANGED <<stage, request, step, runs, older, begun, faults>>
  BY DEF StreamInv, run
<1>3. /\ timer' \in Seq({"asleep", "cancelled", "over", "gone"}) /\ Len(timer') = Len(timer)
      /\ DOMAIN timer' = DOMAIN timer /\ \A j \in DOMAIN timer : j # i => timer'[j] = timer[j]
  <2>1. timer \in Seq({"asleep", "cancelled", "over", "gone"}) /\ i \in 1 .. Len(timer)
    BY <1>2 DEF StreamTypeOK
  <2>2. QED
    BY <1>1, <2>1, ExceptSeq
<1>4. StreamTypeOK'
  BY <1>1, <1>2, <1>3 DEF StreamTypeOK, request
<1>5. Arrived' /\ Reaches'
  BY <1>1 DEF StreamInv, Arrived, Reaches, Coming
<1>6. Verdicts'
  BY <1>1, <1>2 DEF StreamInv, Verdicts, Timely, EndsStream, Idle, request
<1>7. Retained'
  <2>1. ASSUME NEW n, AsleepAfter(n) PROVE AsleepAfter(n)'
    BY <1>1, <1>3, <2>1 DEF AsleepAfter
  <2>2. TerminalComing => TerminalComing'
    BY <1>1 DEF TerminalComing, Idle
  <2>3. AsleepAfter(older) => AsleepAfter(older)'
    <3>1. PICK n : n = older
      OBVIOUS
    <3>2. AsleepAfter(n) => AsleepAfter(n)'
      BY <2>1
    <3>3. QED
      BY <1>2, <3>1, <3>2 DEF AsleepAfter
  <2>4. AsleepAfter(0) => AsleepAfter(0)'
    BY <2>1
  <2>5. (\A d \in Casters : Idle(d)' <=> Idle(d)) /\ (AllIdle => AllIdle')
    BY <1>1 DEF Idle, AllIdle
  <2>6. Main \in Casters /\ \A s \in Steps : s \in Casters
    BY DEF Casters
  <2>7. QED
    BY <1>1, <1>2, <2>2, <2>3, <2>4, <2>5, <2>6 DEF StreamInv, Retained
<1>8. QED
  BY <1>4, <1>5, <1>6, <1>7 DEF StreamInv

\* A task that clears the store ends: the store is empty, or that it failed is known.
LEMMA RowsStep ==
  ASSUME StreamInv, ClearRows \/ ClearRowsFail
  PROVE  StreamInv'
<1>1. /\ UNCHANGED <<buffer, conns, cast, ws, open, script, got, view, sse, queue>>
      /\ UNCHANGED <<timer, pending, bound, clock>> /\ clearing' = clearing - 1 /\ clearing > 0
      /\ \/ store' = <<>> /\ leaked' = FALSE
         \/ store' = store /\ leaked' = TRUE
  BY DEF ClearRows, ClearRowsFail, ClearStore, ClearStoreFails, clients, streams
<1>2. /\ StreamTypeOK /\ UNCHANGED <<stage, request, step, runs, older, begun>>
      /\ faults' \in Nat /\ clearing' \in Nat
  BY <1>1 DEF StreamInv, StreamTypeOK, run, ClearRows, ClearRowsFail
<1>3. StreamTypeOK'
  <2>1. <<>> \in Seq(Events) /\ Len(<<>>) = 0 /\ 0 <= MaxBuffer
    BY HubAssumption
  <2>2. store' \in Seq(Events) /\ Len(store') <= MaxBuffer
    BY <1>1, <1>2, <2>1 DEF StreamTypeOK
  <2>3. QED
    BY <1>1, <1>2, <2>2 DEF StreamTypeOK, request
<1>4. Arrived'
  BY <1>1 DEF StreamInv, Arrived
<1>5. Reaches'
  <2>1. Range(<<>>) = {}
    BY DEF Range
  <2>2. Range(store') \subseteq Range(store)
    BY <1>1, <2>1
  <2>3. QED
    BY <1>1, <2>2 DEF StreamInv, Reaches, Coming
<1>6. Verdicts'
  BY <1>1, <1>2 DEF StreamInv, Verdicts, Timely, EndsStream, Idle, request
<1>7. Retained'
  BY <1>1, <1>2 DEF StreamInv, Retained, TerminalComing, AsleepAfter, AllIdle, Idle
<1>8. QED
  BY <1>3, <1>4, <1>5, <1>6, <1>7 DEF StreamInv

-----------------------------------------------------------------------------
(***************************************************************************)
(* The invariant, and what follows from it.                                *)
(***************************************************************************)

LEMMA StreamInitInv ==
  ASSUME StreamInit
  PROVE  StreamInv
<1>1. HubInit /\ stage = "idle" /\ older = 0 /\ begun = 0 /\ step = [s \in Steps |-> "todo"]
  BY DEF StreamInit
<1>2. workflow \subseteq Steps /\ evaluation \in BOOLEAN /\ runs \in Nat /\ faults \in Nat
  BY RunAssumption DEF StreamInit
<1>3. \A b \in Casters : cast[b] = Silent
  BY <1>1 DEF HubInit
<1>4. <<>> \in Seq(Events) /\ Len(<<>>) = 0 /\ 0 <= MaxBuffer /\ Range(<<>>) = {}
  BY HubAssumption DEF Range
<1>5. StreamTypeOK
  <2>1. cast \in [Casters -> CastRecord]
    BY <1>1, SilentFacts DEF HubInit
  <2>2. /\ buffer \in Seq(Events) /\ Len(buffer) <= MaxBuffer
        /\ store \in Seq(Events) /\ Len(store) <= MaxBuffer
        /\ script \in [Sockets -> Seq(Events)] /\ queue \in [Listeners -> Seq(Events)]
    BY <1>1, <1>4 DEF HubInit
  <2>3. /\ timer \in Seq({"asleep", "cancelled", "over", "gone"}) /\ Len(timer) = 0
        /\ got \in [Sockets -> SUBSET Events]
        /\ view \in [Sockets -> [Steps -> {"unknown", "running", "ended"}]]
    BY <1>1 DEF HubInit
  <2>4. /\ pending = None /\ clearing \in Nat /\ leaked \in BOOLEAN /\ bound \in BOOLEAN
        /\ ws \in [Sockets -> {"away", "joined", "replaying", "live", "gone"}]
        /\ sse \in [Listeners -> {"away", "open", "ended", "left"}]
        /\ conns = {} /\ open = {} /\ clock = 0
    BY <1>1 DEF HubInit
  <2>5. /\ step \in [Steps -> {"todo", "running", "ended"}]
        /\ begun \in 0 .. clock /\ older \in 0 .. Len(timer)
    BY <1>1, <2>3, <2>4
  <2>6. QED
    BY <1>1, <1>2, <2>1, <2>2, <2>3, <2>4, <2>5 DEF StreamTypeOK, CastRecord
<1>6. Arrived /\ Reaches
  BY <1>1, <1>3, SilentFacts DEF HubInit, Arrived, Reaches
<1>7. Verdicts
  <2>1. \A l \in Listeners : Range(queue[l]) = {}
    BY <1>1, <1>4 DEF HubInit
  <2>2. QED
    BY <1>3, <2>1, SilentFacts DEF Verdicts, Idle
<1>8. Retained
  <2>1. AllIdle /\ Idle(Main) /\ \A s \in Steps : Idle(s)
    BY <1>3, SilentFacts DEF AllIdle, Idle, Casters
  <2>2. QED
    BY <1>1, <2>1 DEF HubInit, Retained
<1>9. QED
  BY <1>5, <1>6, <1>7, <1>8 DEF StreamInv

LEMMA StreamStep ==
  ASSUME StreamInv, [StreamNext]_streamVars
  PROVE  StreamInv'
<1>1. CASE Submit
  BY <1>1, SubmitStep
<1>2. CASE Progress
  BY <1>2, StepEvents, TaskEvents, TaskMoves DEF Progress
<1>3. CASE StreamFails \/ EngineFails \/ Raises
  BY <1>3, TaskMoves
<1>4. CASE \E b \in Casters : CastStep(b) \/ CastStepFails(b)
  BY <1>4, CastSteps
<1>5. CASE \E c \in Sockets : Arrive(c) \/ Endpoint(c) \/ Leave(c)
  BY <1>5, ConnectStep, HistoryStep, ReplayStep, GoneSteps DEF Arrive, Endpoint, Leave
<1>6. CASE \E l \in Listeners : SseArrive(l) \/ SseStep(l) \/ SseDepart(l)
  BY <1>6, SseSteps DEF SseArrive, SseStep, SseDepart
<1>7. CASE Retain
  BY <1>7, WakeStep, EndStep DEF Retain
<1>8. CASE ClearRows \/ ClearRowsFail
  BY <1>8, RowsStep
<1>9. CASE UNCHANGED streamVars
  <2>1. /\ UNCHANGED <<buffer, store, conns, cast, ws, open, script, got, view, sse, queue>>
        /\ UNCHANGED <<timer, pending, clearing, leaked, bound, clock>>
        /\ UNCHANGED <<stage, request, step, runs, older, begun, faults>>
    BY <1>9 DEF streamVars, hub, clients, streams, retention, run
  <2>2. StreamTypeOK'
    BY <2>1 DEF StreamInv, StreamTypeOK, request
  <2>3. Arrived' /\ Reaches'
    BY <2>1 DEF StreamInv, Arrived, Reaches, Coming
  <2>4. Verdicts' /\ Retained'
    BY <2>1 DEF StreamInv, Verdicts, Timely, EndsStream, Retained, TerminalComing, AsleepAfter,
                AllIdle, Idle, request
  <2>5. QED
    BY <2>2, <2>3, <2>4 DEF StreamInv
<1>10. QED
  BY <1>1, <1>2, <1>3, <1>4, <1>5, <1>6, <1>7, <1>8, <1>9 DEF StreamNext, Rest

LEMMA StreamInvariance == StreamSpec => []StreamInv
BY StreamInitInv, StreamStep, PTL DEF StreamSpec

\* Buffer and store stay within their cap, and sockets, queues and timers keep their shape,
\* for any workflow, any number of clients, submissions and failures of the store.
THEOREM StreamTypes == StreamSpec => []StreamTypeOK
<1>1. StreamInv => StreamTypeOK
  BY DEF StreamInv
<1>2. QED
  BY StreamInvariance, <1>1, PTL

\* A client whose replay is over misses no event that was sent and is still held: broadcast()
\* puts an event into the history before it looks up the connections, and the endpoint
\* registers before it reads the history.
THEOREM NoGaps == StreamSpec => []NoGap
<1>1. StreamInv => NoGap
  <2> SUFFICES ASSUME StreamInv, NEW c \in open, ws[c] = "live",
                      NEW e \in Range(buffer) \cap Range(store), Sent(e)
               PROVE  e \in got[c]
    BY DEF NoGap
  <2>1. script[c] = <<>> /\ (e \in got[c] \/ e \in Range(script[c]) \/ Coming(c, e))
    BY DEF StreamInv, Reaches
  <2>2. Range(<<>>) = {}
    BY DEF Range
  <2>3. ~Coming(c, e)
    BY DEF Coming, Sent, Idle
  <2>4. QED
    BY <2>1, <2>2, <2>3
<1>2. QED
  BY StreamInvariance, <1>1, PTL

\* What a finished run left is due to be cleared, or a clear of the store has failed, which
\* leaves its rows alone: _schedule_delayed_clear always leaves a timer that sleeps, and a
\* done callback that drops its successor's entry wakes nobody early and cancels nothing.
THEOREM ClearsPending == StreamSpec => []ClearPending
<1>1. StreamInv => ClearPending
  <2> SUFFICES ASSUME StreamInv, stage = "idle", AllIdle, clearing = 0,
                      \A i \in DOMAIN timer : timer[i] # "asleep"
               PROVE  buffer = <<>> /\ (store = <<>> \/ leaked)
    BY DEF ClearPending
  <2>1. ~TerminalComing /\ ~AsleepAfter(0)
    BY DEF TerminalComing, AsleepAfter, AllIdle
  <2>2. QED
    BY <2>1 DEF StreamInv, Retained
<1>2. QED
  BY StreamInvariance, <1>1, PTL

\* _is_terminal_stream_event reads each event's own flag, and the engine's workflow_end, which
\* has none, is filtered: with an evaluation, a stream that the current run's events end has
\* its verdict or an error behind it.
THEOREM VerdictFirst == StreamSpec => VerdictDelivered
<1>1. StreamInv /\ [StreamNext]_streamVars =>
        [\A l \in Listeners :
           sse[l] = "open" /\ sse'[l] = "ended" /\ evaluation /\ Head(queue[l]).time >= begun =>
               stage \in {"log", "error", "idle"}]_streamVars
  <2> SUFFICES ASSUME StreamInv, StreamNext, NEW l \in Listeners,
                      sse[l] = "open", sse'[l] = "ended", evaluation,
                      Head(queue[l]).time >= begun
               PROVE  stage \in {"log", "error", "idle"}
    BY Zenon
  <2>1. /\ StreamTypeOK /\ queue[l] \in Seq(Events)
        /\ sse \in [Listeners -> {"away", "open", "ended", "left"}]
    BY DEF StreamInv, StreamTypeOK
  <2>2. \E k \in Listeners : SseArrive(k) \/ SseStep(k) \/ SseDepart(k)
    <3>1. sse' # sse
      BY <2>1
    <3>2. QED
      BY <3>1 DEF StreamNext, Submit, Progress, StepStart, StepEnd, WorkflowEnd, EvaluationStart,
                  EngineStarts, EngineEnds, EngineTells, Scored, JudgeMissing, Log, Fail, StreamFails, EngineFails,
                  Raises, Announce,
                  CastStep, CastStepFails, Persist, PersistFails, Send, Arrive, Endpoint, Leave,
                  Connect, ReadHistory, Replay, Disconnect, Drop, Retain, ClearBuffer, TimerEnds,
                  ClearRows, ClearStore, ClearRowsFail, ClearStoreFails, Rest, streamVars, hub,
                  streams
  <2>3. SseNext(l) /\ EndsStream(Head(queue[l])) /\ queue[l] # <<>>
    BY <2>1, <2>2 DEF SseArrive, SseStep, SseDepart, SseOpen, SseNext, SseLeave
  <2>4. Head(queue[l]) \in Range(queue[l])
    BY <2>1, <2>3, HeadAndTail
  <2>5. Timely(Head(queue[l]))
    BY <2>4 DEF StreamInv, Verdicts
  <2>6. QED
    BY <2>3, <2>5 DEF Timely
<1>2. QED
  BY StreamInvariance, <1>1, PTL DEF StreamSpec, VerdictDelivered
=============================================================================
