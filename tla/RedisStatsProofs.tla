-------------------------- MODULE RedisStatsProofs ---------------------------
(***************************************************************************)
(* What Redis counts is what the workers recorded, for every number of     *)
(* workers, models, retries and faults.                                    *)
(***************************************************************************)
EXTENDS RedisStats, FiniteSetTheorems, TLAPS

-----------------------------------------------------------------------------
(***************************************************************************)
(* The inductive invariant.                                                *)
(***************************************************************************)

Saving(w) == save[w].at # "idle"

\* The models from the current one on, which the save has still to write.
ToSave(w) == {order[w][j] : j \in save[w].i .. save[w].size}

\* A process that is down has nothing; a save works on a model of the dictionary,
\* with a snapshot between what Redis has acknowledged and what was counted; a
\* model that is not in the dictionary has nothing new.
Sound(w) ==
    /\ ~Alive(w) => ~Saving(w) /\ tasks[w] = 0 /\ drain[w] = 0 /\ w \notin connected
    /\ Saving(w) => /\ save[w].size <= Len(order[w])
                    /\ base[w][Cur(w)] <= save[w].snap /\ save[w].snap <= local[w][Cur(w)]
    /\ \A m \in Models \ Known(w) : base[w][m] = local[w][m]

\* The last task of a worker saves everything, or says that it did not: nothing was
\* recorded since it began, or there would be another task.
LastTask(w) ==
    w \in connected =>
        /\ tasks[w] = 0 /\ w \notin short => base[w] = local[w]
        /\ Saving(w) /\ tasks[w] = 1 /\ save[w].all =>
               /\ save[w].snap = local[w][Cur(w)]
               /\ \A m \in Models \ ToSave(w) : base[w][m] = local[w][m]

\* The last task that aclose() waits for, and each later one, saves everything that
\* was counted when aclose() was called, or says that it did not.
LastDrained(w) ==
    up[w] = "draining" =>
        /\ \A m \in Models : due[w][m] <= local[w][m]
        /\ w \in connected =>
             /\ drain[w] = 0 /\ w \notin short => \A m \in Models : due[w][m] <= base[w][m]
             /\ Saving(w) /\ drain[w] <= 1 /\ save[w].all =>
                    /\ due[w][Cur(w)] <= save[w].snap
                    /\ \A m \in Models \ ToSave(w) : due[w][m] <= base[w][m]

Worker(w) == Sound(w) /\ LastTask(w) /\ LastDrained(w)

Counted == NoLostUpdate /\ CountedOnce

IInv == TypeOK /\ Counted /\ \A w \in Workers : Worker(w)

-----------------------------------------------------------------------------
LEMMA InitIInv == Init => IInv
<1> SUFFICES ASSUME Init PROVE IInv
  OBVIOUS
<1> USE RedisAssumption DEF Init, Zero, Idle
<1>1. TypeOK
  BY DEF TypeOK, SaveType, IsInjective
<1>2. Counted
  BY DEF Counted, NoLostUpdate, CountedOnce, Count
<1>3. ASSUME NEW w \in Workers PROVE Worker(w)
  BY DEF Worker, Sound, LastTask, LastDrained, Saving, Alive
<1>4. QED
  BY <1>1, <1>2, <1>3 DEF IInv

\* What TypeOK says of one worker.
LEMMA WorkerTypes ==
  ASSUME TypeOK, NEW w \in Workers
  PROVE  /\ order[w] \in Seq(Models) /\ Len(order[w]) \in Nat
         /\ \A j \in 1 .. Len(order[w]) : order[w][j] \in Models
         /\ tasks[w] \in Nat /\ drain[w] \in Nat /\ drain[w] <= tasks[w]
         /\ save[w].at \in {"idle", "read", "swap"} /\ save[w].i \in Nat /\ save[w].size \in Nat
         /\ save[w].snap \in Nat /\ save[w].all \in BOOLEAN /\ save[w].tries \in 0 .. MaxRetries - 1
         /\ save[w].saw \in {Absent, Corrupt} \cup Values
         /\ Saving(w) => tasks[w] > 0 /\ save[w].i >= 1 /\ save[w].i <= save[w].size
         /\ \A m \in Models : /\ base[w][m] \in Nat /\ local[w][m] \in Nat /\ due[w][m] \in Nat
                              /\ base[w][m] <= local[w][m]
<1>1. save[w] \in SaveType
  BY DEF TypeOK
<1>2. order[w] \in Seq(Models)
  BY DEF TypeOK
<1>3. /\ save[w].at \in {"idle", "read", "swap"} /\ save[w].i \in Nat /\ save[w].size \in Nat
      /\ save[w].snap \in Nat /\ save[w].all \in BOOLEAN /\ save[w].tries \in 0 .. MaxRetries - 1
      /\ save[w].saw \in {Absent, Corrupt} \cup Values
  BY <1>1 DEF SaveType
<1>4. /\ tasks[w] \in Nat /\ drain[w] \in Nat /\ drain[w] <= tasks[w]
      /\ Saving(w) => tasks[w] > 0 /\ save[w].i >= 1 /\ save[w].i <= save[w].size
  BY <1>3 DEF TypeOK, Saving
<1>5. \A m \in Models : /\ base[w][m] \in Nat /\ local[w][m] \in Nat /\ due[w][m] \in Nat
                        /\ base[w][m] <= local[w][m]
  BY DEF TypeOK
<1>6. QED
  BY <1>2, <1>3, <1>4, <1>5

\* Nothing that the invariant says of a worker has changed.
Same(v) ==
    /\ up'[v] = up[v] /\ order'[v] = order[v] /\ local'[v] = local[v] /\ base'[v] = base[v]
    /\ tasks'[v] = tasks[v] /\ drain'[v] = drain[v] /\ save'[v] = save[v] /\ due'[v] = due[v]
    /\ v \in connected' <=> v \in connected
    /\ v \in short' <=> v \in short

LEMMA SameWorker ==
  ASSUME NEW v \in Workers, Worker(v), Same(v)
  PROVE  Worker(v)'
BY DEF Same, Worker, Sound, LastTask, LastDrained, Saving, Alive, ToSave, Cur, Known

\* What every step of a save does to the worker's tasks and to the others'.
SaveMoves(w) ==
    /\ save' \in [Workers -> SaveType]
    /\ tasks' \in [Workers -> Nat] /\ drain' \in [Workers -> Nat] /\ short' \subseteq Workers
    /\ drain'[w] <= tasks'[w]
    /\ save'[w].at # "idle" => tasks'[w] > 0 /\ save'[w].i \in 1 .. save'[w].size
    /\ \A v \in Workers \ {w} :
         /\ save'[v] = save[v] /\ tasks'[v] = tasks[v] /\ drain'[v] = drain[v]
         /\ v \in short' <=> v \in short

\* A save moves on to another model or ends.
LEMMA NextModelFacts ==
  ASSUME TypeOK, NEW w \in Workers, NEW i \in Nat, NEW size \in Nat, i > 0, tasks[w] > 0,
         \E all \in BOOLEAN, online \in BOOLEAN : NextModel(w, i, size, all, online)
  PROVE  SaveMoves(w)
<1> USE RedisAssumption DEF SaveMoves
<1> PICK all \in BOOLEAN, online \in BOOLEAN : NextModel(w, i, size, all, online)
  OBVIOUS
<1>1. CASE Len(order[w]) # size \/ i > size \/ ~online
  <2>1. EndSave(w, all /\ i > size)
    BY <1>1 DEF NextModel
  <2>2. Idle \in SaveType
    BY DEF Idle, SaveType
  <2>3. save' = [save EXCEPT ![w] = Idle] /\ Idle.at = "idle"
    BY <2>1 DEF EndSave, Idle
  <2>4. /\ tasks' \in [Workers -> Nat] /\ drain' \in [Workers -> Nat]
        /\ drain'[w] <= tasks'[w]
        /\ \A v \in Workers \ {w} : tasks'[v] = tasks[v] /\ drain'[v] = drain[v]
    <3>1. tasks[w] \in Nat /\ drain[w] \in Nat /\ drain[w] <= tasks[w]
      BY DEF TypeOK
    <3> DEFINE n == tasks[w] - 1
               d == IF drain[w] > 0 THEN drain[w] - 1 ELSE 0
    <3>2. n \in Nat /\ d \in Nat /\ d <= n
      BY <3>1
    <3>3. tasks' = [tasks EXCEPT ![w] = n] /\ drain' = [drain EXCEPT ![w] = d]
      BY <2>1 DEF EndSave
    <3> HIDE DEF n, d
    <3>4. QED
      BY <3>2, <3>3 DEF TypeOK
  <2>5. short' \in {short \ {w}, short \cup {w}}
    BY <2>1 DEF EndSave
  <2>6. QED
    BY <2>2, <2>3, <2>4, <2>5 DEF TypeOK, SaveType
<1>2. CASE ~(Len(order[w]) # size \/ i > size \/ ~online)
  <2>1. order[w][i] \in Models
    BY <1>2 DEF TypeOK
  <2>2. local[w][order[w][i]] \in Nat
    BY <2>1 DEF TypeOK
  <2> DEFINE next == [at |-> "read", i |-> i, size |-> size, tries |-> 0,
                      snap |-> local[w][order[w][i]], saw |-> Absent, all |-> all]
  <2>3. next \in SaveType /\ next.i = i /\ next.size = size
    BY <2>2 DEF SaveType
  <2>4. save' = [save EXCEPT ![w] = next] /\ UNCHANGED <<tasks, drain, short>>
    BY <1>2 DEF NextModel
  <2> HIDE DEF next
  <2>5. i \in 1 .. size
    BY <1>2
  <2>6. save' \in [Workers -> SaveType] /\ save'[w].i \in 1 .. save'[w].size
    BY <2>3, <2>4, <2>5 DEF TypeOK
  <2>7. \A v \in Workers \ {w} : save'[v] = save[v]
    BY <2>4 DEF TypeOK
  <2>8. QED
    BY <2>4, <2>6, <2>7 DEF TypeOK
<1>3. QED
  BY <1>1, <1>2

\* The same save goes on with the same model.
LEMMA StaysAtModel ==
  ASSUME TypeOK, NEW w \in Workers, Worker(w), Saving(w),
         save'[w].at # "idle", save'[w].i = save[w].i, save'[w].size = save[w].size,
         save'[w].snap = save[w].snap, save'[w].all = save[w].all,
         UNCHANGED <<up, order, local, base, tasks, drain, due, short>>, connected' \subseteq connected
  PROVE  Worker(w)'
BY DEF Worker, Sound, LastTask, LastDrained, Saving, Alive, ToSave, Cur, Known

\* The current model of a save is one of the dictionary.
LEMMA CurKnown ==
  ASSUME TypeOK, NEW w \in Workers, Sound(w), Saving(w)
  PROVE  /\ Cur(w) \in Models /\ Cur(w) \in Known(w)
         /\ save[w].i \in 1 .. save[w].size /\ save[w].size \in Nat /\ save[w].snap \in Nat
         /\ tasks[w] \in Nat /\ tasks[w] > 0 /\ save[w].all \in BOOLEAN
BY WorkerTypes DEF Sound, Saving, Cur, Known

\* A save leaves its model: with the snapshot as the new baseline, or incomplete.
LEMMA LeavesModel ==
  ASSUME TypeOK, NEW w \in Workers, Worker(w), Saving(w), NEW all \in BOOLEAN,
         NEW online \in BOOLEAN,
         NextModel(w, save[w].i + 1, save[w].size, all, online),
         all => save[w].all /\ base'[w][Cur(w)] = save[w].snap,
         base'[w][Cur(w)] \in {base[w][Cur(w)], save[w].snap},
         \A m \in Models \ {Cur(w)} : base'[w][m] = base[w][m],
         base' \in [Workers -> [Models -> Nat]],
         UNCHANGED <<up, order, local, due>>, connected' \subseteq connected
  PROVE  Worker(w)'
<1> DEFINE i == save[w].i
           size == save[w].size
<1>1. /\ Cur(w) \in Models /\ Cur(w) \in Known(w)
      /\ i \in 1 .. size /\ size \in Nat /\ save[w].snap \in Nat
      /\ tasks[w] \in Nat /\ tasks[w] > 0 /\ save[w].all \in BOOLEAN
  BY CurKnown, WorkerTypes DEF Worker
<1>2. \A m \in Models : base'[w][m] \in Nat /\ base[w][m] \in Nat /\ local[w][m] \in Nat /\ due[w][m] \in Nat
  BY DEF TypeOK
<1>3. ToSave(w) = {Cur(w)} \cup {order[w][j] : j \in i + 1 .. size}
  <2>1. i .. size = {i} \cup (i + 1 .. size)
    BY <1>1, SMTT(30)
  <2>2. QED
    BY <2>1 DEF ToSave, Cur
<1>4. \A m \in Models : base[w][m] <= base'[w][m]
  BY <1>1, <1>2 DEF Worker, Sound
<1>5. \A m \in Models \ Known(w) : base'[w][m] = local[w][m]
  BY <1>1 DEF Worker, Sound
<1>6. CASE Len(order[w]) # size \/ i + 1 > size \/ ~online
  <2>1. EndSave(w, all /\ i + 1 > size)
    BY <1>6 DEF NextModel
  <2>2. /\ save'[w] = Idle /\ Idle.at = "idle"
        /\ tasks'[w] = tasks[w] - 1
        /\ drain'[w] = IF drain[w] > 0 THEN drain[w] - 1 ELSE 0
        /\ w \notin short' => all /\ i + 1 > size
    BY <2>1 DEF EndSave, Idle, TypeOK
  <2>3. w \notin short' => ToSave(w) = {Cur(w)} /\ base'[w][Cur(w)] = save[w].snap /\ save[w].all
    BY <1>1, <1>3, <2>2
  <2>4. Sound(w)'
    BY <1>5, <2>2 DEF Worker, Sound, Saving, Alive, Known
  <2>5. LastTask(w)'
    <3>1. w \in connected /\ tasks'[w] = 0 /\ w \notin short' =>
             \A m \in Models : base'[w][m] = local[w][m]
      <4> SUFFICES ASSUME w \in connected, tasks'[w] = 0, w \notin short', NEW m \in Models
                   PROVE  base'[w][m] = local[w][m]
        OBVIOUS
      <4>1. tasks[w] = 1
        BY <1>1, <2>2, SMTT(30)
      <4>2. /\ save[w].snap = local[w][Cur(w)]
            /\ m # Cur(w) => base[w][m] = local[w][m]
        BY <2>3, <4>1 DEF Worker, LastTask
      <4>3. QED
        BY <2>3, <4>2
    <3>2. QED
      BY <3>1, <2>2 DEF LastTask, Saving, TypeOK
  <2>6. LastDrained(w)'
    <3>1. drain[w] \in Nat /\ drain[w] <= tasks[w]
      BY DEF TypeOK
    <3>2. up[w] = "draining" /\ w \in connected /\ drain'[w] = 0 /\ w \notin short' =>
             \A m \in Models : due[w][m] <= base'[w][m]
      BY <1>1, <2>2, <2>3, <3>1 DEF Worker, LastDrained
    <3>3. QED
      BY <3>2, <2>2 DEF Worker, LastDrained, Saving
  <2>7. QED
    BY <2>4, <2>5, <2>6 DEF Worker
<1>7. CASE ~(Len(order[w]) # size \/ i + 1 > size \/ ~online)
  <2>1. /\ save'[w].at = "read" /\ save'[w].i = i + 1 /\ save'[w].size = size
        /\ save'[w].snap = local[w][order[w][i + 1]] /\ save'[w].all = all
        /\ UNCHANGED <<tasks, drain, short>>
    BY <1>7 DEF NextModel, TypeOK
  <2>2. order[w][i + 1] \in Models
    BY <1>1, <1>7, WorkerTypes
  <2>3. Cur(w)' = order[w][i + 1] /\ ToSave(w)' = {order[w][j] : j \in i + 1 .. size}
    BY <2>1 DEF Cur, ToSave
  <2>4. \A m \in Models : base'[w][m] <= local[w][m]
    BY <1>1, <1>2 DEF TypeOK, Worker, Sound
  <2>5. Sound(w)'
    <3>1. Saving(w)' /\ Alive(w)' /\ Known(w)' = Known(w)
      BY <2>1 DEF Worker, Sound, Saving, Alive, Known
    <3>2. save'[w].snap = local[w][Cur(w)'] /\ base'[w][Cur(w)'] <= local[w][Cur(w)']
      BY <2>1, <2>2, <2>3, <2>4
    <3>3. QED
      BY <1>2, <1>5, <1>7, <2>1, <2>2, <2>3, <3>1, <3>2, SMTT(30) DEF Sound
  <2>6. LastTask(w)'
    BY <1>1, <1>3, <2>1, <2>2, <2>3 DEF Worker, LastTask, Saving
  <2>7. LastDrained(w)'
    BY <1>1, <1>2, <1>3, <1>4, <2>1, <2>2, <2>3 DEF Worker, LastDrained, Saving
  <2>8. QED
    BY <2>5, <2>6, <2>7 DEF Worker
<1>8. QED
  BY <1>6, <1>7

-----------------------------------------------------------------------------
(***************************************************************************)
(* The steps.                                                              *)
(***************************************************************************)

\* A worker's own step leaves the others alone.
LEMMA OthersSame ==
  ASSUME IInv, NEW w \in Workers, Worker(w)', \A v \in Workers \ {w} : Same(v)
  PROVE  \A v \in Workers : Worker(v)'
BY SameWorker DEF IInv

LEMMA RecordStep ==
  ASSUME IInv, NEW w \in Workers, NEW m \in Models, Record(w, m) \/ Touch(w, m)
  PROVE  IInv'
<1> USE RedisAssumption
<1>1. /\ order[w] \in Seq(Models) /\ order' \in [Workers -> Seq(Models)] /\ IsInjective(order'[w])
      /\ \A v \in Workers \ {w} : order'[v] = order[v]
      /\ Len(order'[w]) >= Len(order[w])
      /\ \A j \in 1 .. Len(order[w]) : order'[w][j] = order[w][j]
      /\ Known(w)' = Known(w) \cup {m}
  <2>1. order' = [order EXCEPT ![w] = IF m \in Known(w) THEN @ ELSE Append(@, m)]
    BY DEF Record, Touch, GetStats
  <2>2. order \in [Workers -> Seq(Models)] /\ IsInjective(order[w])
    BY DEF IInv, TypeOK
  <2>3. CASE m \in Known(w)
    BY <2>1, <2>2, <2>3 DEF Known
  <2>4. CASE m \notin Known(w)
    <3>1. order'[w] = Append(order[w], m) /\ order' \in [Workers -> Seq(Models)]
      BY <2>1, <2>2, <2>4
    <3>2. /\ Len(order'[w]) = Len(order[w]) + 1 /\ order'[w][Len(order[w]) + 1] = m
          /\ \A j \in 1 .. Len(order[w]) : order'[w][j] = order[w][j]
          /\ DOMAIN order'[w] = 1 .. Len(order[w]) + 1 /\ DOMAIN order[w] = 1 .. Len(order[w])
          /\ Len(order[w]) \in Nat
      BY <2>2, <3>1
    <3>3. IsInjective(order'[w])
      BY <2>2, <2>4, <3>2 DEF IsInjective, Known
    <3>4. Known(w)' = Known(w) \cup {m}
      <4>1. 1 .. Len(order'[w]) = (1 .. Len(order[w])) \cup {Len(order[w]) + 1}
        BY <3>2
      <4>2. ASSUME NEW x PROVE x \in Known(w)' <=> x \in Known(w) \cup {m}
        BY <3>2, <4>1 DEF Known
      <4>3. QED
        BY <4>2
    <3>5. QED
      BY <2>1, <2>2, <3>1, <3>2, <3>3, <3>4
  <2>5. QED
    BY <2>3, <2>4
<1>2. UNCHANGED <<key, up, connected, base, drain, save, faults, history>>
  BY DEF Record, Touch, history
<1>3. /\ local' \in [Workers -> [Models -> Nat]] /\ tasks' \in [Workers -> Nat]
      /\ records' \in 0 .. MaxRecords
      /\ \A v \in Workers \ {w} : local'[v] = local[v] /\ tasks'[v] = tasks[v]
      /\ \A n \in Models : local[w][n] <= local'[w][n]
      /\ \A n \in Models \ {m} : local'[w][n] = local[w][n]
      /\ tasks[w] <= tasks'[w]
      /\ w \in connected /\ local'[w] # local[w] => tasks'[w] = tasks[w] + 1
  <2>1. CASE Record(w, m)
    BY <2>1, SMTT(30) DEF Record, IInv, TypeOK
  <2>2. CASE Touch(w, m)
    BY <2>2 DEF Touch, IInv, TypeOK
  <2>3. QED
    BY <2>1, <2>2
<1>4. TypeOK'
  <2>1. \A v \in Workers :
          /\ IsInjective(order'[v])
          /\ \A n \in Models : base[v][n] <= local'[v][n]
          /\ drain[v] <= tasks'[v]
          /\ save[v].at # "idle" => tasks'[v] > 0 /\ save[v].i \in 1 .. save[v].size
    <3> TAKE v \in Workers
    <3>1. CASE v = w
      <4>1. tasks'[w] \in Nat /\ \A n \in Models : local'[w][n] \in Nat
        BY <1>3
      <4>2. /\ \A n \in Models : base[w][n] <= local'[w][n]
            /\ drain[w] <= tasks'[w]
        <5>1. /\ tasks[w] \in Nat /\ drain[w] \in Nat /\ drain[w] <= tasks[w]
              /\ \A n \in Models : base[w][n] \in Nat /\ local[w][n] \in Nat /\ base[w][n] <= local[w][n]
          BY WorkerTypes DEF IInv
        <5>2. \A n \in Models : local[w][n] <= local'[w][n]
          BY <1>3
        <5>3. \A n \in Models : base[w][n] <= local'[w][n]
          BY <4>1, <5>1, <5>2
        <5>4. drain[w] <= tasks'[w]
          BY <1>3, <4>1, <5>1
        <5>5. QED
          BY <5>3, <5>4
      <4>3. save[w].at # "idle" => tasks'[w] > 0 /\ save[w].i \in 1 .. save[w].size
        BY <1>3, <4>1, WorkerTypes DEF IInv, Saving
      <4>4. QED
        BY <1>1, <3>1, <4>2, <4>3
    <3>2. CASE v # w
      BY <1>1, <1>3, <3>2 DEF IInv, TypeOK
    <3>3. QED
      BY <3>1, <3>2
  <2>2. QED
    BY <1>1, <1>2, <1>3, <2>1 DEF IInv, TypeOK, history
<1>5. Counted'
  BY <1>2 DEF IInv, Counted, NoLostUpdate, CountedOnce, history
<1>6. \A v \in Workers \ {w} : Same(v)
  BY <1>1, <1>2, <1>3 DEF Same, history
<1>7. Worker(w)'
  <2>1. Alive(w) /\ Alive(w)' /\ (Saving(w)' <=> Saving(w))
    BY <1>2 DEF Record, Touch, Alive, Saving
  <2>2. Saving(w) => /\ save[w].size <= Len(order[w]) /\ save[w].size \in Nat /\ save[w].i \in 1 .. save[w].size
                     /\ Cur(w)' = Cur(w) /\ ToSave(w)' = ToSave(w) /\ Cur(w) \in Models
    <3> SUFFICES ASSUME Saving(w)
                 PROVE  /\ save[w].size <= Len(order[w]) /\ save[w].size \in Nat /\ save[w].i \in 1 .. save[w].size
                        /\ Cur(w)' = Cur(w) /\ ToSave(w)' = ToSave(w) /\ Cur(w) \in Models
      OBVIOUS
    <3>1. /\ save[w].size <= Len(order[w]) /\ save[w].size \in Nat /\ Len(order[w]) \in Nat
          /\ save[w].i \in 1 .. save[w].size /\ Cur(w) \in Models
      BY CurKnown, WorkerTypes DEF IInv, Worker, Sound
    <3>2. \A j \in save[w].i .. save[w].size : order'[w][j] = order[w][j]
      BY <1>1, <3>1
    <3>3. QED
      BY <1>2, <3>1, <3>2, SMTT(30) DEF Cur, ToSave
  <2>3. Sound(w)'
    <3>1. Saving(w) => /\ base[w][Cur(w)] <= save[w].snap /\ save[w].snap <= local'[w][Cur(w)]
                       /\ save[w].size <= Len(order'[w])
      <4>1. Saving(w) =>
              /\ local[w][Cur(w)] <= local'[w][Cur(w)] /\ local'[w][Cur(w)] \in Nat
              /\ local[w][Cur(w)] \in Nat /\ save[w].snap \in Nat
              /\ Len(order[w]) \in Nat /\ Len(order'[w]) \in Nat
        BY <1>1, <1>3, <2>2, WorkerTypes DEF IInv
      <4>2. QED
        BY <1>1, <2>2, <4>1 DEF IInv, Worker, Sound
    <3>2. \A n \in Models \ Known(w)' : base[w][n] = local'[w][n]
      BY <1>1, <1>3 DEF IInv, Worker, Sound
    <3>3. QED
      BY <1>2, <2>1, <2>2, <3>1, <3>2 DEF Sound
  <2>4. LastTask(w)'
    BY <1>1, <1>2, <1>3, <2>1, <2>2, WorkerTypes DEF IInv, Worker, LastTask, history
  <2>5. LastDrained(w)'
    <3>1. up[w] = "draining" => \A n \in Models : due[w][n] <= local'[w][n]
      BY <1>3, WorkerTypes DEF IInv, Worker, LastDrained
    <3>2. QED
      BY <1>2, <2>1, <2>2, <3>1 DEF IInv, Worker, LastDrained, history
  <2>6. QED
    BY <2>3, <2>4, <2>5 DEF Worker
<1>8. QED
  BY <1>4, <1>5, <1>6, <1>7, OthersSame DEF IInv

\* A step of a save keeps the types of everything, if it does so with what it writes.
LEMMA SaveKeepsTypes ==
  ASSUME TypeOK, NEW w \in Workers, SaveMoves(w),
         key' \in [Models -> {Absent, Corrupt} \cup Values], connected' \subseteq Workers,
         base' \in [Workers -> [Models -> Nat]],
         \A v \in Workers : \A m \in Models : base'[v][m] <= local[v][m],
         twice' \subseteq Models, acked' \in [Models -> Nat], faults' \in 0 .. MaxFaults,
         UNCHANGED <<up, order, local, records, due>>
  PROVE  TypeOK'
<1>1. \A v \in Workers :
        /\ drain'[v] <= tasks'[v]
        /\ save'[v].at # "idle" => tasks'[v] > 0 /\ save'[v].i \in 1 .. save'[v].size
  BY DEF TypeOK, SaveMoves
<1>2. QED
  BY <1>1 DEF TypeOK, SaveMoves

LEMMA StartSaveStep ==
  ASSUME IInv, NEW w \in Workers, StartSave(w)
  PROVE  IInv'
<1>1. TypeOK /\ Worker(w) /\ tasks[w] \in Nat /\ tasks[w] > 0 /\ ~Saving(w) /\ Len(order[w]) \in Nat
  BY WorkerTypes DEF IInv, StartSave, Saving
<1>2. /\ NextModel(w, 1, Len(order[w]), TRUE, w \in connected)
      /\ UNCHANGED <<key, up, connected, order, local, base, records, faults, acked, twice, due>>
  BY DEF StartSave
<1>3. SaveMoves(w)
  <2>1. \E all \in BOOLEAN, online \in BOOLEAN : NextModel(w, 1, Len(order[w]), all, online)
    <3>1. CASE w \in connected
      <4> SUFFICES NextModel(w, 1, Len(order[w]), TRUE, TRUE)
        BY Zenon
      <4>1. QED
        BY <1>2, <3>1 DEF NextModel
    <3>2. CASE w \notin connected
      <4> SUFFICES NextModel(w, 1, Len(order[w]), TRUE, FALSE)
        BY Zenon
      <4>1. QED
        BY <1>2, <3>2 DEF NextModel
    <3>3. QED
      BY <3>1, <3>2
  <2>2. 1 \in Nat /\ 1 > 0
    OBVIOUS
  <2>3. QED
    BY <1>1, <2>1, <2>2, NextModelFacts
<1>4. TypeOK'
  <2>1. \A v \in Workers : \A m \in Models : base[v][m] <= local[v][m]
    BY <1>1 DEF TypeOK
  <2>2. QED
    BY <1>1, <1>2, <1>3, <2>1, SaveKeepsTypes DEF TypeOK
<1>5. Counted'
  BY <1>2 DEF IInv, Counted, NoLostUpdate, CountedOnce
<1>6. \A v \in Workers \ {w} : Same(v)
  BY <1>2, <1>3 DEF Same, SaveMoves
<1>7. Worker(w)'
  <2>1. Alive(w)' /\ Known(w)' = Known(w)
    BY <1>2 DEF StartSave, Alive, Known
  <2>2. CASE 1 > Len(order[w]) \/ w \notin connected
    <3>1. EndSave(w, 1 > Len(order[w]))
      BY <1>2, <2>2 DEF NextModel
    <3>2. /\ save'[w].at = "idle" /\ drain'[w] = IF drain[w] > 0 THEN drain[w] - 1 ELSE 0
      BY <3>1 DEF EndSave, Idle, IInv, TypeOK
    <3>3. w \in connected => Known(w) = {}
      BY <1>1, <2>2 DEF Known
    <3>4. w \in connected => \A m \in Models : base[w][m] = local[w][m]
      BY <1>1, <3>3 DEF Worker, Sound
    <3>5. Sound(w)'
      BY <1>1, <1>2, <2>1, <3>2 DEF Worker, Sound, Saving
    <3>6. LastTask(w)'
      BY <1>1, <1>2, <3>2, <3>4 DEF LastTask, Saving, TypeOK
    <3>7. LastDrained(w)'
      BY <1>1, <1>2, <3>2, <3>4 DEF Worker, LastDrained, Saving
    <3>8. QED
      BY <3>5, <3>6, <3>7 DEF Worker
  <2>3. CASE 1 <= Len(order[w]) /\ w \in connected
    <3>1. /\ save'[w].at = "read" /\ save'[w].i = 1 /\ save'[w].size = Len(order[w])
          /\ save'[w].snap = local[w][order[w][1]] /\ UNCHANGED <<tasks, drain, short>>
      <4> DEFINE next == [at |-> "read", i |-> 1, size |-> Len(order[w]), tries |-> 0,
                          snap |-> local[w][order[w][1]], saw |-> Absent, all |-> TRUE]
      <4>1. save' = [save EXCEPT ![w] = next] /\ UNCHANGED <<tasks, drain, short>>
        BY <1>1, <1>2, <2>3 DEF NextModel
      <4>2. save'[w] = next
        BY <1>1, <4>1 DEF TypeOK
      <4>3. QED
        BY <4>1, <4>2
    <3>2. Cur(w)' = order[w][1] /\ ToSave(w)' = Known(w) /\ order[w][1] \in Models
      BY <1>1, <1>2, <2>3, <3>1, WorkerTypes DEF Cur, ToSave, Known
    <3>3. \A m \in Models : base[w][m] \in Nat /\ local[w][m] \in Nat /\ base[w][m] <= local[w][m]
      BY <1>1, WorkerTypes
    <3>4. Sound(w)'
      BY <1>1, <1>2, <2>1, <3>1, <3>2, <3>3 DEF Worker, Sound, Saving
    <3>5. LastTask(w)'
      BY <1>1, <1>2, <3>1, <3>2, <3>3 DEF Worker, Sound, LastTask, Saving
    <3>6. LastDrained(w)'
      BY <1>1, <1>2, <3>1, <3>2, <3>3 DEF Worker, Sound, LastDrained, Saving
    <3>7. QED
      BY <3>4, <3>5, <3>6 DEF Worker
  <2>4. QED
    BY <1>1, <2>2, <2>3
<1>8. QED
  BY <1>4, <1>5, <1>6, <1>7, OthersSame DEF IInv

\* A try that failed: the next one, or the next model with the save incomplete.
LEMMA NextTryFacts ==
  ASSUME TypeOK, NEW w \in Workers, Worker(w), Saving(w), NEW online \in BOOLEAN,
         NextTry(w, online), UNCHANGED <<up, order, local, base, due>>, connected' \subseteq connected
  PROVE  SaveMoves(w) /\ Worker(w)'
<1>1. /\ Cur(w) \in Models /\ save[w].i \in 1 .. save[w].size /\ save[w].size \in Nat
      /\ tasks[w] \in Nat /\ tasks[w] > 0 /\ save[w].tries \in Nat
      /\ base \in [Workers -> [Models -> Nat]] /\ MaxRetries \in Nat
  BY CurKnown, WorkerTypes, RedisAssumption DEF Worker, TypeOK
<1>2. CASE online /\ save[w].tries + 1 < MaxRetries
  <2>1. /\ save' = [save EXCEPT ![w].at = "read", ![w].tries = save[w].tries + 1, ![w].saw = Absent]
        /\ UNCHANGED <<tasks, drain, short>>
    BY <1>2 DEF NextTry
  <2>2. /\ save' \in [Workers -> SaveType] /\ \A v \in Workers \ {w} : save'[v] = save[v]
        /\ save'[w].at = "read" /\ save'[w].i = save[w].i /\ save'[w].size = save[w].size
        /\ save'[w].snap = save[w].snap /\ save'[w].all = save[w].all
    <3> DEFINE again == [save[w] EXCEPT !.at = "read", !.tries = save[w].tries + 1, !.saw = Absent]
    <3>1. save' = [save EXCEPT ![w] = again]
      BY <2>1 DEF TypeOK
    <3>2. save[w] \in SaveType
      BY DEF TypeOK
    <3>3. again \in SaveType
      <4>1. save[w].tries + 1 \in 0 .. MaxRetries - 1
        BY <1>1, <1>2
      <4> DEFINE t == save[w].tries + 1
      <4> HIDE DEF t
      <4>2. QED
        BY <3>2, <4>1 DEF SaveType, t
    <3>4. /\ again.at = "read" /\ again.i = save[w].i /\ again.size = save[w].size
          /\ again.snap = save[w].snap /\ again.all = save[w].all
      BY <3>2 DEF SaveType
    <3> HIDE DEF again
    <3>5. QED
      BY <3>1, <3>3, <3>4 DEF TypeOK
  <2>3. SaveMoves(w)
    BY <1>1, <2>1, <2>2 DEF SaveMoves, TypeOK
  <2>4. QED
    BY <2>1, <2>2, <2>3, StaysAtModel
<1>3. CASE ~(online /\ save[w].tries + 1 < MaxRetries)
  <2>1. NextModel(w, save[w].i + 1, save[w].size, FALSE, online)
    BY <1>3 DEF NextTry
  <2>2. SaveMoves(w)
    <3>1. save[w].i + 1 \in Nat /\ save[w].i + 1 > 0
      BY <1>1
    <3>2. \E all \in BOOLEAN, on \in BOOLEAN : NextModel(w, save[w].i + 1, save[w].size, all, on)
      BY <2>1, Zenon
    <3>3. QED
      BY <1>1, <3>1, <3>2, NextModelFacts
  <2>3. Worker(w)'
    BY <1>1, <2>1, LeavesModel
  <2>4. QED
    BY <2>2, <2>3
<1>4. QED
  BY <1>2, <1>3

\* What a step of a save has to show.
LEMMA SaveKeepsIInv ==
  ASSUME IInv, NEW w \in Workers, SaveMoves(w), Worker(w)', Counted',
         key' \in [Models -> {Absent, Corrupt} \cup Values], connected' \in {connected, connected \ {w}},
         base' \in [Workers -> [Models -> Nat]], \A v \in Workers \ {w} : base'[v] = base[v],
         \A m \in Models : base'[w][m] <= local[w][m],
         twice' \subseteq Models, acked' \in [Models -> Nat], faults' \in 0 .. MaxFaults,
         UNCHANGED <<up, order, local, records, due>>
  PROVE  IInv'
<1>1. \A v \in Workers : \A m \in Models : base'[v][m] <= local[v][m]
  BY DEF IInv, TypeOK
<1>2. connected' \subseteq Workers
  BY DEF IInv, TypeOK
<1>3. TypeOK'
  BY <1>1, <1>2, SaveKeepsTypes DEF IInv
<1>4. \A v \in Workers \ {w} : Same(v)
  BY DEF Same, SaveMoves
<1>5. QED
  BY <1>3, <1>4, OthersSame DEF IInv

\* The same, of a step that leaves Redis and the baselines alone.
LEMMA QuietSaveKeepsIInv ==
  ASSUME IInv, NEW w \in Workers, SaveMoves(w), Worker(w)',
         connected' \in {connected, connected \ {w}}, faults' \in 0 .. MaxFaults,
         UNCHANGED <<key, up, order, local, base, records, acked, twice, due>>
  PROVE  IInv'
<1>1. Counted'
  BY DEF IInv, Counted, NoLostUpdate, CountedOnce
<1>2. /\ key' \in [Models -> {Absent, Corrupt} \cup Values]
      /\ base' \in [Workers -> [Models -> Nat]] /\ \A v \in Workers \ {w} : base'[v] = base[v]
      /\ \A m \in Models : base'[w][m] <= local[w][m]
      /\ twice' \subseteq Models /\ acked' \in [Models -> Nat]
  BY DEF IInv, TypeOK
<1>3. QED
  BY <1>1, <1>2, SaveKeepsIInv

LEMMA FaultFacts ==
  ASSUME TypeOK, Fault
  PROVE  faults' \in 0 .. MaxFaults
BY RedisAssumption DEF TypeOK, Fault

\* GET gives the save a value to merge with.
LEMMA SeenFacts ==
  ASSUME IInv, NEW w \in Workers, Saving(w), NEW v \in {Absent, Corrupt} \cup Values,
         save' = [save EXCEPT ![w].at = "swap", ![w].saw = v],
         UNCHANGED <<up, connected, order, local, base, tasks, drain, due, short>>
  PROVE  SaveMoves(w) /\ Worker(w)'
<1> DEFINE seen == [save[w] EXCEPT !.at = "swap", !.saw = v]
<1>1. save' = [save EXCEPT ![w] = seen]
  BY DEF IInv, TypeOK
<1>2. save[w] \in SaveType
  BY DEF IInv, TypeOK
<1>3. seen \in SaveType
  BY <1>2 DEF SaveType
<1>4. /\ seen.at = "swap" /\ seen.i = save[w].i /\ seen.size = save[w].size
      /\ seen.snap = save[w].snap /\ seen.all = save[w].all
  BY <1>2 DEF SaveType
<1> HIDE DEF seen
<1>5. /\ save' \in [Workers -> SaveType] /\ \A u \in Workers \ {w} : save'[u] = save[u]
      /\ save'[w].at = "swap" /\ save'[w].i = save[w].i /\ save'[w].size = save[w].size
      /\ save'[w].snap = save[w].snap /\ save'[w].all = save[w].all
  <2>1. save \in [Workers -> SaveType]
    BY DEF IInv, TypeOK
  <2>2. save'[w] = seen
    BY <1>1, <2>1
  <2>3. save' \in [Workers -> SaveType] /\ \A u \in Workers \ {w} : save'[u] = save[u]
    BY <1>1, <1>3, <2>1
  <2>4. QED
    BY <1>4, <2>2, <2>3
<1>6. SaveMoves(w)
  BY <1>5, CurKnown DEF SaveMoves, IInv, TypeOK, Worker
<1>7. QED
  BY <1>5, <1>6, StaysAtModel DEF IInv

LEMMA ReadStep ==
  ASSUME IInv, NEW w \in Workers, Read(w)
  PROVE  IInv'
<1>1. Saving(w) /\ UNCHANGED <<key, up, connected, order, local, base, tasks, drain, records, faults, history>>
  BY DEF Read, Saving
<1>2. Cur(w) \in Models
  BY <1>1, CurKnown DEF IInv, Worker
<1>3. key[Cur(w)] \in {Absent, Corrupt} \cup Values
  BY <1>2 DEF IInv, TypeOK
<1>4. save' = [save EXCEPT ![w].at = "swap", ![w].saw = key[Cur(w)]]
  BY DEF Read
<1>5. SaveMoves(w) /\ Worker(w)'
  BY <1>1, <1>3, <1>4, SeenFacts DEF history
<1>6. QED
  BY <1>1, <1>5, QuietSaveKeepsIInv DEF IInv, TypeOK, history

LEMMA ReadFailsStep ==
  ASSUME IInv, NEW w \in Workers, ReadFails(w)
  PROVE  IInv'
<1>1. Saving(w) /\ UNCHANGED <<key, up, order, local, base, records, acked, twice, due>>
  BY DEF ReadFails, Saving
<1>2. faults' \in 0 .. MaxFaults
  BY FaultFacts DEF ReadFails, IInv
<1>3. CASE /\ save' = [save EXCEPT ![w].at = "swap", ![w].saw = Absent]
           /\ UNCHANGED <<connected, tasks, drain, short>>
  <2>1. SaveMoves(w) /\ Worker(w)'
    BY <1>1, <1>3, SeenFacts
  <2>2. QED
    BY <1>1, <1>2, <1>3, <2>1, QuietSaveKeepsIInv
<1>4. CASE connected' = connected \ {w} /\ NextTry(w, FALSE)
  <2>1. SaveMoves(w) /\ Worker(w)'
    BY <1>1, <1>4, NextTryFacts DEF IInv
  <2>2. QED
    BY <1>1, <1>2, <1>4, <2>1, QuietSaveKeepsIInv
<1>5. QED
  BY <1>3, <1>4 DEF ReadFails

LEMMA ReadClosedStep ==
  ASSUME IInv, NEW w \in Workers, ReadClosed(w)
  PROVE  IInv'
<1>1. Saving(w) /\ NextTry(w, FALSE)
      /\ UNCHANGED <<key, up, connected, order, local, base, records, faults, acked, twice, due>>
  BY DEF ReadClosed, Saving
<1>2. SaveMoves(w) /\ Worker(w)'
  BY <1>1, NextTryFacts DEF IInv
<1>3. QED
  BY <1>1, <1>2, QuietSaveKeepsIInv DEF IInv, TypeOK

\* A swap was refused or failed while the connection holds as it is.
LEMMA RetryFacts ==
  ASSUME IInv, NEW w \in Workers, Saving(w), NextTry(w, w \in connected),
         UNCHANGED <<up, connected, order, local, base, due>>
  PROVE  SaveMoves(w) /\ Worker(w)'
<1>1. CASE w \in connected
  <2>1. NextTry(w, TRUE)
    BY <1>1 DEF NextTry, NextModel
  <2>2. QED
    BY <2>1, NextTryFacts DEF IInv
<1>2. CASE w \notin connected
  <2>1. NextTry(w, FALSE)
    BY <1>2 DEF NextTry, NextModel
  <2>2. QED
    BY <2>1, NextTryFacts DEF IInv
<1>3. QED
  BY <1>1, <1>2

LEMMA ConflictStep ==
  ASSUME IInv, NEW w \in Workers, Conflict(w)
  PROVE  IInv'
<1>1. Saving(w) /\ NextTry(w, w \in connected)
      /\ UNCHANGED <<key, up, connected, order, local, base, records, faults, acked, twice, due>>
  BY DEF Conflict, Saving
<1>2. SaveMoves(w) /\ Worker(w)'
  BY <1>1, RetryFacts
<1>3. QED
  BY <1>1, <1>2, QuietSaveKeepsIInv DEF IInv, TypeOK

LEMMA CountFacts ==
  ASSUME NEW v \in {Absent, Corrupt} \cup Values
  PROVE  Count(v) \in Nat /\ (v \in Values => Count(v) = v.count)
BY RedisAssumption DEF Count, Values

\* A swap adds to the counter what is new in the snapshot, and nothing else.
LEMMA AppliedSwap ==
  ASSUME IInv, NEW w \in Workers, Saving(w), Applies(w), key' = [key EXCEPT ![Cur(w)] = Merge(w)]
  PROVE  /\ key' \in [Models -> {Absent, Corrupt} \cup Values]
         /\ \A m \in Models \ {Cur(w)} : key'[m] = key[m]
         /\ Merge(w).count = Count(key[Cur(w)]) + (save[w].snap - base[w][Cur(w)])
         /\ Count(key'[Cur(w)]) = Merge(w).count
         /\ Count(save[w].saw) = Count(key[Cur(w)]) /\ Count(key[Cur(w)]) \in Nat
         /\ save[w].snap \in Nat /\ base[w][Cur(w)] \in Nat /\ base[w][Cur(w)] <= save[w].snap
<1> DEFINE c == Cur(w)
           delta == IF save[w].snap > base[w][c] THEN save[w].snap - base[w][c] ELSE 0
<1>1. c \in Models /\ save[w].snap \in Nat /\ base[w][c] \in Nat /\ base[w][c] <= save[w].snap
  BY CurKnown, WorkerTypes DEF IInv, Worker, Sound
<1>2. key \in [Models -> {Absent, Corrupt} \cup Values] /\ key[c] = save[w].saw
  BY DEF IInv, TypeOK, Applies
<1>3. Count(key[c]) \in Nat
  BY <1>1, <1>2, CountFacts
<1>4. delta = save[w].snap - base[w][c] /\ delta \in Nat
  BY <1>1
<1>5. Merge(w) = [count |-> Count(key[c]) + delta, by |-> w]
  BY <1>2 DEF Merge
<1> HIDE DEF delta, c
<1>6. Merge(w) \in Values /\ Merge(w).count = Count(key[c]) + delta
  BY <1>3, <1>4, <1>5 DEF Values
<1>7. Count(Merge(w)) = Merge(w).count
  BY <1>6, CountFacts
<1>8. key' = [key EXCEPT ![c] = Merge(w)]
  BY DEF c
<1>9. key' \in [Models -> {Absent, Corrupt} \cup Values] /\ key'[c] = Merge(w)
      /\ \A m \in Models \ {c} : key'[m] = key[m]
  BY <1>1, <1>2, <1>6, <1>8
<1>10. QED
  BY <1>1, <1>2, <1>3, <1>4, <1>6, <1>7, <1>9 DEF c

LEMMA SwapStep ==
  ASSUME IInv, NEW w \in Workers, Swap(w)
  PROVE  IInv'
<1> DEFINE c == Cur(w)
<1>1. /\ Saving(w) /\ Applies(w) /\ key' = [key EXCEPT ![c] = Merge(w)]
      /\ base' = [base EXCEPT ![w][c] = save[w].snap] /\ TickedOff(w)
      /\ NextModel(w, save[w].i + 1, save[w].size, save[w].all, w \in connected)
      /\ UNCHANGED <<up, connected, order, local, records, faults, twice, due>>
  BY DEF Swap, Saving
<1>2. /\ c \in Models /\ save[w].i \in Nat /\ save[w].size \in Nat /\ save[w].all \in BOOLEAN
      /\ tasks[w] > 0 /\ save[w].snap \in Nat
  BY <1>1, CurKnown, WorkerTypes DEF IInv, Worker
<1>3. /\ base' \in [Workers -> [Models -> Nat]] /\ \A v \in Workers \ {w} : base'[v] = base[v]
      /\ base'[w][c] = save[w].snap /\ \A m \in Models \ {c} : base'[w][m] = base[w][m]
  BY <1>1, <1>2 DEF IInv, TypeOK
<1>4. \A m \in Models : base'[w][m] <= local[w][m]
  BY <1>1, <1>3 DEF IInv, TypeOK, Worker, Sound
<1>5. SaveMoves(w) /\ Worker(w)'
  <2>1. save[w].i + 1 \in Nat /\ save[w].i + 1 > 0
    BY <1>2
  <2>2. ASSUME NEW online \in BOOLEAN, NextModel(w, save[w].i + 1, save[w].size, save[w].all, online)
        PROVE  SaveMoves(w) /\ Worker(w)'
    <3>1. SaveMoves(w)
      <4>1. \E all \in BOOLEAN, on \in BOOLEAN : NextModel(w, save[w].i + 1, save[w].size, all, on)
        BY <1>2, <2>2, Zenon
      <4>2. QED
        BY <1>2, <2>1, <4>1, NextModelFacts DEF IInv
    <3>2. Worker(w)'
      BY <1>1, <1>2, <1>3, <2>2, LeavesModel DEF IInv
    <3>3. QED
      BY <3>1, <3>2
  <2>3. CASE w \in connected
    <3>1. NextModel(w, save[w].i + 1, save[w].size, save[w].all, TRUE)
      BY <1>1, <2>3 DEF NextModel
    <3>2. QED
      BY <2>2, <3>1, Zenon
  <2>4. CASE w \notin connected
    <3>1. NextModel(w, save[w].i + 1, save[w].size, save[w].all, FALSE)
      BY <1>1, <2>4 DEF NextModel
    <3>2. QED
      BY <2>2, <3>1, Zenon
  <2>5. QED
    BY <2>3, <2>4
<1>6. /\ key' \in [Models -> {Absent, Corrupt} \cup Values]
      /\ \A m \in Models \ {c} : key'[m] = key[m]
      /\ Count(key'[c]) = Count(key[c]) + (save[w].snap - base[w][c])
      /\ Count(key[c]) \in Nat /\ base[w][c] \in Nat /\ base[w][c] <= save[w].snap
  BY <1>1, AppliedSwap
<1>7. /\ acked' = [acked EXCEPT ![c] = @ + save[w].snap - base[w][c]]
      /\ acked \in [Models -> Nat]
  BY <1>1, <1>3 DEF TickedOff, IInv, TypeOK
<1>8. /\ acked' \in [Models -> Nat] /\ acked[c] \in Nat /\ acked'[c] = acked[c] + (save[w].snap - base[w][c])
      /\ \A m \in Models \ {c} : acked'[m] = acked[m]
  BY <1>2, <1>6, <1>7
<1> HIDE DEF c
<1>9. Counted'
  <2>1. \A m \in Models : Count(key'[m]) >= acked'[m] /\ (m \notin twice => Count(key'[m]) = acked'[m])
    <3> TAKE m \in Models
    <3>1. Count(key[m]) >= acked[m] /\ (m \notin twice => Count(key[m]) = acked[m])
      BY DEF IInv, Counted, NoLostUpdate, CountedOnce
    <3>2. QED
      BY <1>2, <1>6, <1>8, <3>1
  <2>2. QED
    BY <1>1, <2>1 DEF Counted, NoLostUpdate, CountedOnce, Count
<1>10. QED
  BY <1>1, <1>3, <1>4, <1>5, <1>6, <1>8, <1>9, SaveKeepsIInv DEF IInv, TypeOK

LEMMA SwapFailsStep ==
  ASSUME IInv, NEW w \in Workers, SwapFails(w)
  PROVE  IInv'
<1>1. Saving(w) /\ UNCHANGED <<up, order, local, base, records, acked, due>>
  BY DEF SwapFails, Saving
<1>2. faults' \in 0 .. MaxFaults
  BY FaultFacts DEF SwapFails, IInv
<1>3. SaveMoves(w) /\ Worker(w)' /\ connected' \in {connected, connected \ {w}}
  <2>1. CASE UNCHANGED connected /\ NextTry(w, w \in connected)
    BY <1>1, <2>1, RetryFacts
  <2>2. CASE connected' = connected \ {w} /\ NextTry(w, FALSE)
    <3>1. SaveMoves(w) /\ Worker(w)'
      BY <1>1, <2>2, NextTryFacts DEF IInv
    <3>2. QED
      BY <2>2, <3>1
  <2>3. QED
    BY <2>1, <2>2 DEF SwapFails
<1>4. CASE UNCHANGED <<key, twice>>
  BY <1>1, <1>2, <1>3, <1>4, QuietSaveKeepsIInv
<1>5. CASE /\ Applies(w)
           /\ key' = [key EXCEPT ![Cur(w)] = Merge(w)]
           /\ twice' = IF Merge(w).count > Count(save[w].saw) THEN twice \cup {Cur(w)} ELSE twice
  <2> DEFINE c == Cur(w)
  <2>1. /\ key' \in [Models -> {Absent, Corrupt} \cup Values]
        /\ \A m \in Models \ {c} : key'[m] = key[m]
        /\ Merge(w).count = Count(key[c]) + (save[w].snap - base[w][c])
        /\ Count(key'[c]) = Merge(w).count
        /\ Count(save[w].saw) = Count(key[c]) /\ Count(key[c]) \in Nat
        /\ save[w].snap \in Nat /\ base[w][c] \in Nat /\ base[w][c] <= save[w].snap
    BY <1>1, <1>5, AppliedSwap
  <2>2. c \in Models
    BY <1>1, CurKnown DEF IInv, Worker
  <2>3. /\ Count(key'[c]) >= Count(key[c])
        /\ twice' = (IF Count(key'[c]) > Count(key[c]) THEN twice \cup {c} ELSE twice)
    BY <1>5, <2>1
  <2>4. Count(key'[c]) \in Nat
    BY <2>1
  <2> HIDE DEF c
  <2>5. twice' \subseteq Models
    BY <2>2, <2>3 DEF IInv, TypeOK
  <2>6. Counted'
    <3>1. \A m \in Models : Count(key'[m]) >= acked[m] /\ (m \notin twice' => Count(key'[m]) = acked[m])
      <4> TAKE m \in Models
      <4>1. /\ Count(key[m]) >= acked[m] /\ (m \notin twice => Count(key[m]) = acked[m])
            /\ acked[m] \in Nat
        BY DEF IInv, Counted, NoLostUpdate, CountedOnce, TypeOK
      <4>2. CASE m = c
        BY <2>1, <2>3, <2>4, <4>1, <4>2
      <4>3. CASE m # c
        BY <2>1, <2>3, <4>1, <4>3
      <4>4. QED
        BY <4>2, <4>3
    <3>2. QED
      BY <1>1, <3>1 DEF Counted, NoLostUpdate, CountedOnce, Count
  <2>7. /\ base' \in [Workers -> [Models -> Nat]] /\ \A v \in Workers \ {w} : base'[v] = base[v]
        /\ \A m \in Models : base'[w][m] <= local[w][m]
        /\ acked' \in [Models -> Nat]
    BY <1>1 DEF IInv, TypeOK
  <2>8. QED
    BY <1>1, <1>2, <1>3, <2>1, <2>5, <2>6, <2>7, SaveKeepsIInv
<1>6. QED
  BY <1>4, <1>5 DEF SwapFails

LEMMA AcloseStep ==
  ASSUME IInv, NEW w \in Workers, Aclose(w)
  PROVE  IInv'
<1>1. /\ up' = [up EXCEPT ![w] = "draining"] /\ drain' = [drain EXCEPT ![w] = tasks[w]]
      /\ due' = [due EXCEPT ![w] = local[w]] /\ up[w] = "running"
      /\ UNCHANGED <<key, connected, order, local, base, tasks, save, records, faults, acked, twice, short>>
  BY DEF Aclose
<1>2. /\ up' \in [Workers -> {"down", "running", "draining", "closed"}]
      /\ drain' \in [Workers -> Nat] /\ due' \in [Workers -> [Models -> Nat]]
      /\ up'[w] = "draining" /\ drain'[w] = tasks[w] /\ due'[w] = local[w]
      /\ \A v \in Workers \ {w} : up'[v] = up[v] /\ drain'[v] = drain[v] /\ due'[v] = due[v]
  BY <1>1 DEF IInv, TypeOK
<1>3. TypeOK'
  <2>1. \A v \in Workers : tasks[v] \in Nat /\ drain[v] <= tasks[v]
    BY WorkerTypes DEF IInv
  <2>2. \A v \in Workers : drain'[v] <= tasks[v]
    BY <1>2, <2>1
  <2>3. QED
    BY <1>1, <1>2, <2>2 DEF IInv, TypeOK
<1>4. Counted'
  BY <1>1 DEF IInv, Counted, NoLostUpdate, CountedOnce
<1>5. \A v \in Workers \ {w} : Same(v)
  BY <1>1, <1>2 DEF Same
<1>6. Worker(w)'
  <2>1. /\ Alive(w) /\ Alive(w)' /\ (Saving(w)' <=> Saving(w)) /\ Cur(w)' = Cur(w)
        /\ ToSave(w)' = ToSave(w) /\ Known(w)' = Known(w)
    BY <1>1, <1>2 DEF Alive, Saving, Cur, ToSave, Known
  <2>2. Sound(w)'
    BY <1>1, <2>1 DEF IInv, Worker, Sound
  <2>3. LastTask(w)'
    BY <1>1, <2>1 DEF IInv, Worker, LastTask
  <2>4. /\ tasks[w] \in Nat /\ Saving(w) => tasks[w] > 0 /\ Cur(w) \in Models
        /\ \A m \in Models : local[w][m] \in Nat /\ base[w][m] \in Nat
    BY WorkerTypes, CurKnown DEF IInv, Worker
  <2>5. LastDrained(w)'
    BY <1>1, <1>2, <2>1, <2>4 DEF IInv, Worker, LastTask, LastDrained
  <2>6. QED
    BY <2>2, <2>3, <2>5 DEF Worker
<1>7. QED
  BY <1>3, <1>4, <1>5, <1>6, OthersSame DEF IInv

LEMMA DrainedStep ==
  ASSUME IInv, NEW w \in Workers, Drained(w)
  PROVE  IInv'
<1>1. /\ up' = [up EXCEPT ![w] = "closed"] /\ connected' = connected \ {w}
      /\ due' = [due EXCEPT ![w] = Zero] /\ up[w] = "draining"
      /\ UNCHANGED <<key, order, local, base, tasks, drain, save, records, faults, acked, twice, short>>
  BY DEF Drained
<1>2. /\ up' \in [Workers -> {"down", "running", "draining", "closed"}]
      /\ due' \in [Workers -> [Models -> Nat]] /\ up'[w] = "closed"
      /\ \A v \in Workers \ {w} : up'[v] = up[v] /\ due'[v] = due[v]
  BY <1>1 DEF IInv, TypeOK, Zero
<1>3. TypeOK'
  BY <1>1, <1>2 DEF IInv, TypeOK
<1>4. Counted'
  BY <1>1 DEF IInv, Counted, NoLostUpdate, CountedOnce
<1>5. \A v \in Workers \ {w} : Same(v)
  BY <1>1, <1>2 DEF Same
<1>6. Worker(w)'
  <2>1. /\ Alive(w) /\ Alive(w)' /\ (Saving(w)' <=> Saving(w)) /\ Cur(w)' = Cur(w) /\ Known(w)' = Known(w)
    BY <1>1, <1>2 DEF Alive, Saving, Cur, Known
  <2>2. QED
    BY <1>1, <1>2, <2>1 DEF IInv, Worker, Sound, LastTask, LastDrained
<1>7. QED
  BY <1>3, <1>4, <1>5, <1>6, OthersSame DEF IInv

LEMMA CrashStep ==
  ASSUME IInv, NEW w \in Workers, Crash(w)
  PROVE  IInv'
<1>1. /\ up' = [up EXCEPT ![w] = "down"] /\ connected' = connected \ {w}
      /\ local' = [local EXCEPT ![w] = Zero] /\ base' = [base EXCEPT ![w] = Zero]
      /\ order' = [order EXCEPT ![w] = <<>>] /\ save' = [save EXCEPT ![w] = Idle]
      /\ tasks' = [tasks EXCEPT ![w] = 0] /\ drain' = [drain EXCEPT ![w] = 0]
      /\ short' = short \ {w} /\ due' = [due EXCEPT ![w] = Zero]
      /\ UNCHANGED <<key, records, acked, twice>>
  BY DEF Crash
<1>2. faults' \in 0 .. MaxFaults
  BY FaultFacts DEF Crash, IInv
<1>3. Idle \in SaveType /\ Idle.at = "idle"
  BY RedisAssumption DEF Idle, SaveType
<1>4. Zero \in [Models -> Nat] /\ \A m \in Models : Zero[m] = 0
  BY DEF Zero
<1>5. IsInjective(<<>>)
  BY DEF IsInjective
<1>6. /\ up' \in [Workers -> {"down", "running", "draining", "closed"}]
      /\ local' \in [Workers -> [Models -> Nat]] /\ base' \in [Workers -> [Models -> Nat]]
      /\ due' \in [Workers -> [Models -> Nat]] /\ order' \in [Workers -> Seq(Models)]
      /\ save' \in [Workers -> SaveType] /\ tasks' \in [Workers -> Nat] /\ drain' \in [Workers -> Nat]
  BY <1>1, <1>3, <1>4 DEF IInv, TypeOK
<1>7. /\ up'[w] = "down" /\ local'[w] = Zero /\ base'[w] = Zero /\ due'[w] = Zero /\ order'[w] = <<>>
      /\ save'[w] = Idle /\ tasks'[w] = 0 /\ drain'[w] = 0
      /\ w \notin connected' /\ w \notin short'
  BY <1>1 DEF IInv, TypeOK
<1>8. \A v \in Workers \ {w} : Same(v)
  BY <1>1 DEF Same, IInv, TypeOK
<1>9. TypeOK'
  <2>1. \A v \in Workers :
         /\ IsInjective(order'[v])
         /\ \A m \in Models : base'[v][m] <= local'[v][m]
         /\ drain'[v] <= tasks'[v]
         /\ save'[v].at # "idle" => tasks'[v] > 0 /\ save'[v].i \in 1 .. save'[v].size
    <3> TAKE v \in Workers
    <3>1. CASE v = w
      BY <1>3, <1>4, <1>5, <1>7, <3>1
    <3>2. CASE v # w
      BY <1>8, <3>2 DEF Same, IInv, TypeOK
    <3>3. QED
      BY <3>1, <3>2
  <2>2. /\ connected' \subseteq Workers /\ short' \subseteq Workers
    BY <1>1 DEF IInv, TypeOK
  <2>3. QED
    BY <1>1, <1>2, <1>6, <2>1, <2>2 DEF IInv, TypeOK
<1>10. Counted'
  BY <1>1 DEF IInv, Counted, NoLostUpdate, CountedOnce
<1>11. Worker(w)'
  BY <1>3, <1>7 DEF Worker, Sound, LastTask, LastDrained, Saving, Alive
<1>12. QED
  BY <1>8, <1>9, <1>10, <1>11, OthersSame DEF IInv

LEMMA RestartStep ==
  ASSUME IInv, NEW w \in Workers, NEW loaded \in Loaded, Restart(w, loaded)
  PROVE  IInv'
<1> DEFINE read == [m \in Models |-> IF m \in loaded THEN Count(key[m]) ELSE 0]
<1>1. loaded \subseteq Models
  BY DEF Loaded
<1>2. read \in [Models -> Nat]
  <2>1. \A m \in Models : Count(key[m]) \in Nat
    BY CountFacts DEF IInv, TypeOK
  <2>2. QED
    BY <2>1
<1>3. PICK s \in SetToSeqs(loaded) : order' = [order EXCEPT ![w] = s]
  BY DEF Restart
<1>4. s \in Seq(Models) /\ IsInjective(s)
  <2>1. IsFiniteSet(loaded)
    BY <1>1, RedisAssumption, FS_Subset
  <2>2. Cardinality(loaded) \in Nat
    BY <2>1, FS_CardinalityType
  <2>3. s \in [1 .. Cardinality(loaded) -> loaded] /\ IsInjective(s)
    <3>1. s \in [1 .. Cardinality(loaded) -> loaded]
      BY <1>3 DEF SetToSeqs
    <3>2. \A i, j \in 1 .. Cardinality(loaded) : i # j => s[i] # s[j]
      BY <1>3 DEF SetToSeqs
    <3>3. QED
      BY <3>1, <3>2 DEF IsInjective
  <2>4. QED
    BY <1>1, <2>2, <2>3
<1>5. /\ up' = [up EXCEPT ![w] = "running"] /\ connected' = connected \cup {w} /\ up[w] = "down"
      /\ local' = [local EXCEPT ![w] = read]
      /\ UNCHANGED <<key, tasks, drain, save, records, faults, acked, twice, short, due>>
  BY DEF Restart
<1> HIDE DEF read
<1>6. local'[w] = read /\ base' = [base EXCEPT ![w] = read]
  <2>1. local'[w] = read
    BY <1>5 DEF IInv, TypeOK
  <2>2. base' = [base EXCEPT ![w] = local'[w]]
    BY DEF Restart
  <2>3. QED
    BY <2>1, <2>2
<1>7. /\ up' \in [Workers -> {"down", "running", "draining", "closed"}]
      /\ local' \in [Workers -> [Models -> Nat]] /\ base' \in [Workers -> [Models -> Nat]]
      /\ order' \in [Workers -> Seq(Models)] /\ connected' \subseteq Workers
      /\ up'[w] = "running" /\ base'[w] = read /\ order'[w] = s
  BY <1>2, <1>3, <1>4, <1>5, <1>6 DEF IInv, TypeOK
<1>8. \A v \in Workers \ {w} : Same(v)
  BY <1>3, <1>5, <1>6 DEF Same, IInv, TypeOK
<1>9. TypeOK'
  <2>1. \A v \in Workers :
         /\ IsInjective(order'[v])
         /\ \A m \in Models : base'[v][m] <= local'[v][m]
    <3> TAKE v \in Workers
    <3>1. CASE v = w
      BY <1>2, <1>4, <1>6, <1>7, <3>1
    <3>2. CASE v # w
      BY <1>8, <3>2 DEF Same, IInv, TypeOK
    <3>3. QED
      BY <3>1, <3>2
  <2>2. QED
    BY <1>5, <1>7, <2>1 DEF IInv, TypeOK
<1>10. Counted'
  BY <1>5 DEF IInv, Counted, NoLostUpdate, CountedOnce
<1>11. Worker(w)'
  <2>1. save'[w].at = "idle"
    BY <1>5 DEF IInv, Worker, Sound, Alive, Saving
  <2>2. QED
    BY <1>6, <1>7, <2>1 DEF Worker, Sound, LastTask, LastDrained, Saving, Alive
<1>12. QED
  BY <1>8, <1>9, <1>10, <1>11, OthersSame DEF IInv

LEMMA ExpireStep ==
  ASSUME IInv, NEW m \in Models, Expire(m)
  PROVE  IInv'
<1>1. PICK v \in {Absent, Corrupt} : key' = [key EXCEPT ![m] = v]
  BY DEF Expire
<1>2. /\ acked' = [acked EXCEPT ![m] = 0] /\ twice' = twice \ {m}
      /\ UNCHANGED <<up, connected, order, local, base, tasks, drain, save, records, short, due>>
  BY DEF Expire
<1>3. faults' \in 0 .. MaxFaults
  BY FaultFacts DEF Expire, IInv
<1>4. /\ key' \in [Models -> {Absent, Corrupt} \cup Values] /\ key'[m] = v
      /\ acked' \in [Models -> Nat] /\ acked'[m] = 0
      /\ \A n \in Models \ {m} : key'[n] = key[n] /\ acked'[n] = acked[n]
  BY <1>1, <1>2 DEF IInv, TypeOK
<1>5. TypeOK'
  BY <1>2, <1>3, <1>4 DEF IInv, TypeOK
<1>6. Counted'
  <2>1. Count(v) = 0
    BY DEF Count
  <2>2. \A n \in Models : Count(key'[n]) >= acked'[n] /\ (n \notin twice' => Count(key'[n]) = acked'[n])
    BY <1>2, <1>4, <2>1 DEF IInv, Counted, NoLostUpdate, CountedOnce
  <2>3. QED
    BY <2>2 DEF Counted, NoLostUpdate, CountedOnce, Count
<1>7. \A w \in Workers : Worker(w)'
  BY <1>2, SameWorker DEF IInv, Same
<1>8. QED
  BY <1>5, <1>6, <1>7 DEF IInv

LEMMA StutterStep ==
  ASSUME IInv, UNCHANGED vars
  PROVE  IInv'
<1>1. TypeOK'
  BY DEF IInv, TypeOK, vars, history
<1>2. Counted'
  BY DEF IInv, Counted, NoLostUpdate, CountedOnce, vars, history
<1>3. \A w \in Workers : Worker(w)'
  BY SameWorker DEF IInv, Same, vars, history
<1>4. QED
  BY <1>1, <1>2, <1>3 DEF IInv

LEMMA NextIInv ==
  ASSUME IInv, [Next]_vars
  PROVE  IInv'
<1>1. ASSUME NEW w \in Workers, NEW m \in ModelsOf[w], Record(w, m) \/ Touch(w, m) PROVE IInv'
  BY <1>1, RecordStep, RedisAssumption
<1>2. ASSUME NEW w \in Workers, SaveStep(w) PROVE IInv'
  BY <1>2, StartSaveStep, ReadStep, SwapStep, ConflictStep, ReadClosedStep DEF SaveStep
<1>3. ASSUME NEW w \in Workers, ReadFails(w) \/ SwapFails(w) PROVE IInv'
  BY <1>3, ReadFailsStep, SwapFailsStep
<1>4. ASSUME NEW w \in Workers, Aclose(w) \/ Drained(w) \/ Crash(w) PROVE IInv'
  BY <1>4, AcloseStep, DrainedStep, CrashStep
<1>5. ASSUME NEW w \in Workers, NEW loaded \in Loaded, Restart(w, loaded) PROVE IInv'
  BY <1>5, RestartStep
<1>6. ASSUME NEW m \in Models, Expire(m) PROVE IInv'
  BY <1>6, ExpireStep
<1>7. CASE UNCHANGED vars
  BY <1>7, StutterStep
<1>8. QED
  BY <1>1, <1>2, <1>3, <1>4, <1>5, <1>6, <1>7 DEF Next, Quiet

LEMMA Invariance == Spec => []IInv
BY InitIInv, NextIInv, PTL DEF Spec

-----------------------------------------------------------------------------
(***************************************************************************)
(* The theorems.                                                           *)
(***************************************************************************)

\* Every variable keeps its type, no baseline is ahead of the counter it belongs to,
\* and a task that holds the lock is among the tasks the router has.
THEOREM StatsTypes == Spec => []TypeOK
<1>1. IInv => TypeOK
  BY DEF IInv
<1>2. QED
  BY <1>1, Invariance, PTL

\* save_stats_cas and _merge_stats_dicts, whatever Redis and the other workers do:
\* Redis has every call a worker ticked off, has it once unless the reply to a swap
\* was lost, and a worker without a task left has ticked off every call it counted
\* unless its last save says otherwise.
THEOREM ExactCounts == Spec => []CountsExact
<1>1. IInv => CountsExact
  BY DEF IInv, Counted, CountsExact, QuietMeansSaved, TypeOK, Worker, LastTask
<1>2. QED
  BY <1>1, Invariance, PTL

\* aclose(): when it closes the store, Redis has acknowledged every call counted
\* before, unless the last of the saves it waited for was incomplete.
THEOREM FlushBeforeClose == Spec => FlushedOnClose
<1>1. ASSUME IInv, [Next]_vars, NEW w \in Workers,
             up[w] = "draining", up'[w] = "closed", w \in connected, w \notin short
      PROVE  \A m \in Models : base[w][m] >= due[w][m]
  <2>1. drain[w] = 0
    <3>1. up' # up /\ up \in [Workers -> {"down", "running", "draining", "closed"}]
      BY <1>1 DEF IInv, TypeOK
    <3>2. PICK v \in Workers : Aclose(v) \/ Drained(v) \/ Crash(v) \/ \E loaded \in Loaded : Restart(v, loaded)
      BY <1>1, <3>1 DEF Next, Quiet, vars, Record, Touch, SaveStep, StartSave, Read, Swap, Conflict,
             ReadClosed, ReadFails, SwapFails, Expire
    <3>3. v = w /\ Drained(w)
      BY <1>1, <3>1, <3>2 DEF Aclose, Drained, Crash, Restart
    <3>4. QED
      BY <3>3 DEF Drained
  <2>2. \A m \in Models : due[w][m] <= base[w][m] /\ due[w][m] \in Nat /\ base[w][m] \in Nat
    BY <1>1, <2>1, WorkerTypes DEF IInv, Worker, LastDrained
  <2>3. QED
    BY <2>2
<1>2. IInv /\ [Next]_vars =>
        [\A w \in Workers :
           up[w] = "draining" /\ up'[w] = "closed" /\ w \in connected /\ w \notin short =>
               \A m \in Models : base[w][m] >= due[w][m]]_vars
  BY <1>1
<1>3. QED
  BY <1>2, Invariance, PTL DEF Spec, FlushedOnClose
=============================================================================
