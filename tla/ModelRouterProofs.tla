-------------------------- MODULE ModelRouterProofs --------------------------
(***************************************************************************)
(* The breaker, the probe and the bulkhead of the router are exact for     *)
(* every number of models, providers, callers, slots, retries and          *)
(* thresholds.                                                             *)
(***************************************************************************)
EXTENDS ModelRouter, FiniteSetTheorems, SequenceTheorems, TLAPS

-----------------------------------------------------------------------------
(***************************************************************************)
(* The inductive invariant.                                                *)
(***************************************************************************)

Busy == {"preparing", "queued", "calling", "sanitizing"}

\* A request that got past selection has a model.
HasModel == \A c \in Callers : pc[c] \in Busy => model[c] \in Models

\* Probers are inside the bulkhead, the probe slot is exact and no slot is given twice.
Slots ==
    /\ \A c \in probe : pc[c] = "calling"
    /\ SingleProbe
    /\ \A p \in Providers : Cardinality(Inside(p)) <= Limit

Waiters(p) == {c \in Callers : pc[c] = "queued" /\ Provider[model[c]] = p}

\* The queue of a semaphore holds its waiters, each once.
Waiting ==
    \A p \in Providers :
        /\ {queue[p][i] : i \in 1 .. Len(queue[p])} = Waiters(p)
        /\ IsInjective(queue[p])

BreakerTypes ==
    /\ circuit \in [Models -> {"closed", "open", "half_open"}]
    /\ fails \in [Models -> 0 .. Threshold] /\ wins \in [Models -> 0 .. Required - 1]
    /\ elapsed \subseteq Models /\ cooling \subseteq Models /\ evicted \subseteq Models

CallerTypes ==
    /\ probing \subseteq Models /\ probe \subseteq Callers
    /\ lock \in [Providers -> Callers \cup {Nobody}]
    /\ queue \in [Providers -> Seq(Callers)]
    /\ pc \in [Callers -> {"idle", "choosing", "preparing", "queued", "calling", "sanitizing"}]
    /\ kind \in [Callers -> Kinds] /\ model \in [Callers -> Models \cup {NoModel}]
    /\ tried \in [Callers -> SUBSET Models]

Breaker == BreakerTypes /\ FreshEvidence

IInv == Breaker /\ CallerTypes /\ HasModel /\ Slots /\ Waiting

LEMMA Parts == IInv => TypeOK /\ BreakerExact
BY DEF IInv, Breaker, BreakerTypes, CallerTypes, TypeOK, BreakerExact, Slots, Waiting, Waiters, QueueExact

LEMMA InitIInv == Init => IInv
<1> SUFFICES ASSUME Init PROVE IInv
  OBVIOUS
<1>1. Breaker
  BY RouterAssumption DEF Init, Breaker, BreakerTypes, FreshEvidence
<1>2. CallerTypes /\ HasModel
  BY DEF Init, CallerTypes, HasModel, Busy, Kinds
<1>3. Slots
  <2>1. \A p \in Providers : Inside(p) = {}
    BY DEF Init, Inside
  <2>2. \A p \in Providers : Cardinality(Inside(p)) <= Limit
    BY <2>1, FS_EmptySet, RouterAssumption
  <2>3. QED
    BY <2>1, <2>2, RouterAssumption DEF Init, Slots, SingleProbe
<1>4. Waiting
  BY DEF Init, Waiting, Waiters, IsInjective
<1>5. QED
  BY <1>1, <1>2, <1>3, <1>4 DEF IInv

-----------------------------------------------------------------------------
(***************************************************************************)
(* The breaker.                                                            *)
(***************************************************************************)

\* The step of NoShortcut.
Straight ==
    \A m \in Models : /\ circuit[m] = "open" => circuit'[m] # "closed"
                      /\ circuit[m] = "closed" => circuit'[m] # "half_open"

LEMMA SuccessFacts ==
  ASSUME Breaker, NEW m \in Models, RecordSuccess(m)
  PROVE  Breaker' /\ Straight
<1> DEFINE closes == circuit[m] = "half_open" /\ wins[m] + 1 >= Required
           won == IF closes THEN 0 ELSE IF circuit[m] = "half_open" THEN wins[m] + 1 ELSE wins[m]
           next == IF closes THEN "closed" ELSE circuit[m]
<1>1. /\ circuit \in [Models -> {"closed", "open", "half_open"}]
      /\ wins \in [Models -> 0 .. Required - 1] /\ Required \in Nat /\ Required > 0
      /\ wins[m] \in 0 .. Required - 1
      /\ fails \in [Models -> 0 .. Threshold]
      /\ wins[m] > 0 => circuit[m] = "half_open"
  BY RouterAssumption DEF Breaker, BreakerTypes, FreshEvidence
<1>2. /\ fails' = [fails EXCEPT ![m] = 0] /\ circuit' = [circuit EXCEPT ![m] = next]
      /\ evicted' = evicted \ {m} /\ UNCHANGED <<elapsed, cooling>>
  BY DEF RecordSuccess
<1>3. wins' = [wins EXCEPT ![m] = won]
  BY DEF RecordSuccess
<1>4. /\ won \in 0 .. Required - 1 /\ (won > 0 => next = "half_open")
      /\ next \in {"closed", "open", "half_open"}
      /\ circuit[m] = "open" => next # "closed"
      /\ circuit[m] = "closed" => next # "half_open"
  <2>1. CASE closes
    BY <1>1, <2>1
  <2>2. CASE ~closes /\ circuit[m] = "half_open"
    BY <1>1, <2>2
  <2>3. CASE circuit[m] # "half_open"
    BY <1>1, <2>3
  <2>4. QED
    BY <2>1, <2>2, <2>3
<1> HIDE DEF won, next
<1>5. BreakerTypes'
  BY <1>1, <1>2, <1>3, <1>4, RouterAssumption DEF Breaker, BreakerTypes
<1>6. FreshEvidence' /\ Straight
  BY <1>1, <1>2, <1>3, <1>4 DEF Breaker, FreshEvidence, Straight
<1>7. QED
  BY <1>5, <1>6 DEF Breaker

LEMMA FailureFacts ==
  ASSUME Breaker, NEW m \in Models, \E permanent \in BOOLEAN : RecordFailure(m, permanent)
  PROVE  Breaker' /\ Straight
<1> DEFINE n == IF fails[m] < Threshold THEN fails[m] + 1 ELSE Threshold
<1>1. /\ fails' = [fails EXCEPT ![m] = n]
      /\ circuit' = [circuit EXCEPT ![m] = IF @ = "half_open" \/ n >= Threshold THEN "open" ELSE @]
      /\ wins' = [wins EXCEPT ![m] = IF circuit[m] = "half_open" THEN 0 ELSE @]
      /\ elapsed' = elapsed \ {m} /\ cooling' = cooling \cup {m}
      /\ evicted' \in {evicted, evicted \cup {m}}
  BY DEF RecordFailure
<1>2. n \in 0 .. Threshold
  BY RouterAssumption DEF Breaker, BreakerTypes
<1> HIDE DEF n
<1>3. BreakerTypes'
  BY <1>1, <1>2, RouterAssumption DEF Breaker, BreakerTypes
<1>4. FreshEvidence' /\ Straight
  BY <1>1 DEF FreshEvidence, Straight, Breaker, BreakerTypes
<1>5. QED
  BY <1>3, <1>4 DEF Breaker

LEMMA CheckedFacts ==
  ASSUME Breaker, Checked, UNCHANGED <<fails, wins, cooling, evicted>>
  PROVE  Breaker' /\ Straight
<1>1. \A m \in Models : AfterCheck(m) \in {"closed", "open", "half_open"}
  BY DEF AfterCheck, Breaker, BreakerTypes
<1>2. BreakerTypes'
  BY <1>1 DEF Checked, Breaker, BreakerTypes
<1>3. \A m \in Models : circuit'[m] = AfterCheck(m)
  BY DEF Checked
<1>4. FreshEvidence' /\ Straight
  BY <1>3 DEF FreshEvidence, Straight, Breaker, AfterCheck
<1>5. QED
  BY <1>2, <1>4 DEF Breaker

LEMMA SameBreaker ==
  ASSUME Breaker, UNCHANGED breaker
  PROVE  Breaker' /\ Straight
BY DEF breaker, Breaker, BreakerTypes, FreshEvidence, Straight

-----------------------------------------------------------------------------
(***************************************************************************)
(* The slots of the bulkhead.                                              *)
(***************************************************************************)

\* Only this caller moves.
Alone(c) == \A d \in Callers \ {c} : pc'[d] = pc[d] /\ model'[d] = model[d]

\* It gets a slot, and the probe if the circuit is half-open.
Entered(c, m) ==
    /\ pc[c] # "calling" /\ pc'[c] = "calling" /\ model'[c] = m
    /\ Cardinality(Inside(Provider[m])) < Limit
    /\ \/ /\ lock[Provider[m]] = Nobody
          /\ lock' = [lock EXCEPT ![Provider[m]] = c]
          /\ probing' = probing \cup {m} /\ probe' = probe \cup {c}
       \/ UNCHANGED <<lock, probing, probe>>

\* It gives its slot back.
Left(c) == pc[c] = "calling" /\ pc'[c] # "calling" /\ Release(c)

\* It has none, before and after.
Outside(c) == pc[c] # "calling" /\ pc'[c] # "calling" /\ UNCHANGED <<lock, probing, probe>>

LEMMA InsideFinite ==
  ASSUME NEW p
  PROVE  IsFiniteSet(Inside(p)) /\ IsFiniteSet(Inside(p)')
<1>1. Inside(p) \subseteq Callers /\ Inside(p)' \subseteq Callers
  BY DEF Inside
<1>2. QED
  BY <1>1, FS_Subset, RouterAssumption

LEMMA EnteredSlots ==
  ASSUME CallerTypes, CallerTypes', Slots, NEW c \in Callers, NEW m \in Models, Alone(c),
         Entered(c, m)
  PROVE  Slots'
<1> DEFINE P == Provider[m]
<1>1. /\ pc[c] # "calling" /\ pc'[c] = "calling" /\ model'[c] = m /\ P \in Providers /\ c \notin probe
      /\ Cardinality(Inside(P)) < Limit
  BY DEF Entered, Providers, Slots
<1>2. /\ Inside(P)' = Inside(P) \cup {c} /\ c \notin Inside(P)
      /\ \A p \in Providers \ {P} : Inside(p)' = Inside(p)
  BY <1>1 DEF Inside, Alone
<1>3. \A p \in Providers : Cardinality(Inside(p)') <= Limit
  <2>1. Cardinality(Inside(P)') = Cardinality(Inside(P)) + 1 /\ Cardinality(Inside(P)) \in Nat
    BY <1>2, InsideFinite, FS_AddElement, FS_CardinalityType
  <2>2. Cardinality(Inside(P)') <= Limit
    BY <1>1, <2>1, RouterAssumption
  <2>3. QED
    BY <1>2, <2>2 DEF Slots
<1>4. \A d \in probe : model'[d] = model[d] /\ pc'[d] = "calling"
  BY <1>1 DEF Alone, Slots, CallerTypes
<1>5. CASE /\ lock[P] = Nobody /\ lock' = [lock EXCEPT ![P] = c]
           /\ probing' = probing \cup {m} /\ probe' = probe \cup {c}
  <2>1. \A d \in probe' : pc'[d] = "calling"
    BY <1>1, <1>4, <1>5
  <2>2. \A p \in Providers : \A d \in Callers : lock'[p] = d <=> (d \in probe' /\ d \in Inside(p)')
    <3> TAKE p \in Providers
    <3> TAKE d \in Callers
    <3>1. lock[p] = d <=> (d \in probe /\ d \in Inside(p))
      BY DEF Slots, SingleProbe
    <3>2. lock \in [Providers -> Callers \cup {Nobody}] /\ Nobody \notin Callers
      BY RouterAssumption DEF CallerTypes
    <3>3. CASE p = P
      BY <1>1, <1>2, <1>5, <3>1, <3>2, <3>3
    <3>4. CASE p # P
      <4>1. lock'[p] = lock[p] /\ Inside(p)' = Inside(p)
        BY <1>2, <1>5, <3>2, <3>4
      <4>2. d = c => d \notin Inside(p)
        BY <1>1 DEF Inside
      <4>3. QED
        BY <1>5, <3>1, <4>1, <4>2
    <3>5. QED
      BY <3>3, <3>4
  <2>3. probing' = {model'[d] : d \in probe'}
    <3>1. {model'[d] : d \in probe'} = {model'[d] : d \in probe} \cup {m}
      BY <1>1, <1>5
    <3>2. {model'[d] : d \in probe} = {model[d] : d \in probe}
      BY <1>4
    <3>3. QED
      BY <1>5, <3>1, <3>2 DEF Slots, SingleProbe
  <2>4. QED
    BY <1>3, <2>1, <2>2, <2>3 DEF Slots, SingleProbe
<1>6. CASE UNCHANGED <<lock, probing, probe>>
  <2>1. \A p \in Providers : \A d \in probe : d \in Inside(p)' <=> d \in Inside(p)
    <3> TAKE p \in Providers
    <3> TAKE d \in probe
    <3>1. d # c
      BY <1>1
    <3>2. CASE p = P
      BY <1>2, <3>1, <3>2
    <3>3. CASE p # P
      BY <1>2, <3>3
    <3>4. QED
      BY <3>2, <3>3
  <2>2. probing = {model'[d] : d \in probe}
    BY <1>4 DEF Slots, SingleProbe
  <2>3. QED
    BY <1>3, <1>4, <1>6, <2>1, <2>2 DEF Slots, SingleProbe
<1>7. QED
  BY <1>5, <1>6 DEF Entered

LEMMA LeftSlots ==
  ASSUME CallerTypes, CallerTypes', Slots, HasModel, NEW c \in Callers, Alone(c), Left(c)
  PROVE  Slots'
<1> DEFINE m == model[c]
           P == Provider[m]
<1>1. pc[c] = "calling" /\ pc'[c] # "calling" /\ m \in Models /\ P \in Providers
  BY DEF Left, HasModel, Busy, Providers
<1>2. \A p \in Providers : Inside(p)' = Inside(p) \ {c}
  BY <1>1 DEF Inside, Alone
<1>3. \A p \in Providers : Cardinality(Inside(p)') <= Limit
  <2> TAKE p \in Providers
  <2>1. /\ Cardinality(Inside(p)') <= Cardinality(Inside(p))
        /\ Cardinality(Inside(p)') \in Nat /\ Cardinality(Inside(p)) \in Nat
    BY <1>2, InsideFinite, FS_Subset, FS_CardinalityType
  <2>2. QED
    BY <2>1, RouterAssumption DEF Slots
<1>4. \A d \in Callers \ {c} : model'[d] = model[d] /\ pc'[d] = pc[d]
  BY DEF Alone
<1>5. CASE c \in probe
  <2>1. /\ lock' = [lock EXCEPT ![P] = Nobody] /\ probing' = probing \ {m} /\ probe' = probe \ {c}
    BY <1>5 DEF Left, Release
  <2>2. lock[P] = c /\ lock \in [Providers -> Callers \cup {Nobody}]
    BY <1>1, <1>5 DEF Slots, SingleProbe, Inside, CallerTypes
  <2>3. \A d \in probe \ {c} : model[d] # m
    BY <1>1, <2>2 DEF Slots, SingleProbe, Inside, CallerTypes
  <2>4. \A p \in Providers \ {P} : c \notin Inside(p)
    BY DEF Inside
  <2>5. \A p \in Providers : \A d \in Callers : lock'[p] = d <=> (d \in probe' /\ d \in Inside(p)')
    <3> TAKE p \in Providers
    <3> TAKE d \in Callers
    <3>1. lock[p] = d <=> (d \in probe /\ d \in Inside(p))
      BY DEF Slots, SingleProbe
    <3>2. CASE p = P
      BY <1>1, <1>2, <2>1, <2>2, <3>1, <3>2, RouterAssumption
    <3>3. CASE p # P
      BY <1>2, <2>1, <2>2, <2>4, <3>1, <3>3
    <3>4. QED
      BY <3>2, <3>3
  <2>6. probing' = {model'[d] : d \in probe'}
    <3>1. \A d \in probe' : model'[d] = model[d]
      BY <1>4, <2>1 DEF CallerTypes
    <3>2. probing = {model[d] : d \in probe}
      BY DEF Slots, SingleProbe
    <3>3. QED
      BY <2>1, <2>3, <3>1, <3>2
  <2>7. QED
    BY <1>3, <1>4, <2>1, <2>5, <2>6 DEF Slots, SingleProbe, CallerTypes
<1>6. CASE c \notin probe
  <2>1. UNCHANGED <<lock, probing, probe>>
    BY <1>6 DEF Left, Release
  <2>2. \A d \in probe : d # c /\ model'[d] = model[d] /\ pc'[d] = pc[d]
    BY <1>4, <1>6 DEF CallerTypes
  <2>3. probing = {model'[d] : d \in probe}
    BY <2>2 DEF Slots, SingleProbe
  <2>4. QED
    BY <1>2, <1>3, <2>1, <2>2, <2>3 DEF Slots, SingleProbe
<1>7. QED
  BY <1>5, <1>6

LEMMA OutsideSlots ==
  ASSUME CallerTypes, Slots, NEW c \in Callers, Alone(c), Outside(c)
  PROVE  Slots'
<1>1. pc[c] # "calling" /\ pc'[c] # "calling" /\ UNCHANGED <<lock, probing, probe>>
  BY DEF Outside
<1>2. \A p \in Providers : Inside(p)' = Inside(p)
  BY <1>1 DEF Inside, Alone
<1>3. \A d \in probe : model'[d] = model[d] /\ pc'[d] = pc[d]
  BY <1>1 DEF Alone, Slots, CallerTypes
<1>4. probing = {model'[d] : d \in probe}
  BY <1>3 DEF Slots, SingleProbe
<1>5. QED
  BY <1>1, <1>2, <1>3, <1>4 DEF Slots, SingleProbe

-----------------------------------------------------------------------------
(***************************************************************************)
(* The queues of the semaphores.                                           *)
(***************************************************************************)

Elements(s) == {s[i] : i \in 1 .. Len(s)}

LEMMA AppendFacts ==
  ASSUME NEW S, NEW s \in Seq(S), IsInjective(s), NEW e \in S, e \notin Elements(s)
  PROVE  /\ Append(s, e) \in Seq(S) /\ IsInjective(Append(s, e))
         /\ Elements(Append(s, e)) = Elements(s) \cup {e}
<1> DEFINE t == Append(s, e)
<1>1. /\ t \in Seq(S) /\ Len(t) = Len(s) + 1 /\ t[Len(s) + 1] = e /\ Len(s) \in Nat
      /\ \A i \in 1 .. Len(s) : t[i] = s[i]
      /\ DOMAIN t = 1 .. Len(s) + 1 /\ DOMAIN s = 1 .. Len(s)
  OBVIOUS
<1> HIDE DEF t
<1>2. IsInjective(t)
  BY <1>1 DEF IsInjective, Elements
<1>3. Elements(t) = Elements(s) \cup {e}
  <2>1. 1 .. Len(t) = (1 .. Len(s)) \cup {Len(s) + 1}
    BY <1>1
  <2>2. ASSUME NEW x PROVE x \in Elements(t) <=> x \in Elements(s) \cup {e}
    BY <1>1, <2>1 DEF Elements
  <2>3. QED
    BY <2>2
<1>4. QED
  BY <1>1, <1>2, <1>3 DEF t

\* The sequence t is s without its element k.
Shorter(s, t, k) ==
    /\ Len(t) = Len(s) - 1
    /\ \A i \in 1 .. Len(s) - 1 : t[i] = IF i < k THEN s[i] ELSE s[i + 1]

\* RemoveAt takes one element out and keeps the order of the others.
LEMMA RemoveFacts ==
  ASSUME NEW S, NEW s \in Seq(S), NEW k \in 1 .. Len(s)
  PROVE  RemoveAt(s, k) \in Seq(S) /\ Shorter(s, RemoveAt(s, k), k)
<1> DEFINE a == SubSeq(s, 1, k - 1)
           b == SubSeq(s, k + 1, Len(s))
<1>1. /\ a \in Seq(S) /\ Len(a) = k - 1 /\ \A i \in 1 .. k - 1 : a[i] = s[i]
  OBVIOUS
<1>2. /\ b \in Seq(S) /\ Len(b) = Len(s) - k /\ \A i \in 1 .. Len(s) - k : b[i] = s[k + i]
  OBVIOUS
<1>3. RemoveAt(s, k) = a \o b
  BY DEF RemoveAt
<1> HIDE DEF a, b
<1>4. /\ a \o b \in Seq(S) /\ Len(a \o b) = Len(a) + Len(b)
      /\ \A i \in 1 .. Len(a) + Len(b) : (a \o b)[i] = IF i <= Len(a) THEN a[i] ELSE b[i - Len(a)]
  BY <1>1, <1>2, ConcatProperties
<1>5. Len(s) \in Nat
  OBVIOUS
<1>6. ASSUME NEW i \in 1 .. Len(s) - 1 PROVE (a \o b)[i] = IF i < k THEN s[i] ELSE s[i + 1]
  <2>1. CASE i < k
    BY <1>1, <1>2, <1>4, <1>5, <2>1
  <2>2. CASE ~(i < k)
    <3>1. i - (k - 1) \in 1 .. Len(s) - k /\ k + (i - (k - 1)) = i + 1 /\ i \in 1 .. Len(a) + Len(b)
      BY <1>1, <1>2, <1>5, <2>2
    <3>2. (a \o b)[i] = b[i - (k - 1)]
      BY <1>1, <1>4, <1>5, <2>2, <3>1
    <3>3. QED
      BY <1>2, <2>2, <3>1, <3>2
  <2>3. QED
    BY <2>1, <2>2
<1>7. QED
  BY <1>1, <1>2, <1>3, <1>4, <1>5, <1>6 DEF Shorter

\* What is left of a queue without one of its waiters.
LEMMA ShorterFacts ==
  ASSUME NEW S, NEW s \in Seq(S), IsInjective(s), NEW k \in 1 .. Len(s), NEW t \in Seq(S),
         Shorter(s, t, k)
  PROVE  IsInjective(t) /\ Elements(t) = Elements(s) \ {s[k]}
<1>1. /\ Len(s) \in Nat /\ DOMAIN t = 1 .. Len(s) - 1 /\ DOMAIN s = 1 .. Len(s)
      /\ Len(t) = Len(s) - 1
      /\ \A i \in 1 .. Len(s) - 1 : t[i] = IF i < k THEN s[i] ELSE s[i + 1]
  BY DEF Shorter
<1>2. \A i, j \in 1 .. Len(s) : s[i] = s[j] => i = j
  BY <1>1 DEF IsInjective
<1>3. IsInjective(t)
  <2> SUFFICES ASSUME NEW i \in 1 .. Len(s) - 1, NEW j \in 1 .. Len(s) - 1, t[i] = t[j]
               PROVE  i = j
    BY <1>1 DEF IsInjective
  <2> DEFINE p == IF i < k THEN i ELSE i + 1
             q == IF j < k THEN j ELSE j + 1
  <2>1. p \in 1 .. Len(s) /\ q \in 1 .. Len(s) /\ t[i] = s[p] /\ t[j] = s[q]
    BY <1>1
  <2>2. p = q
    BY <1>2, <2>1
  <2>3. QED
    BY <1>1, <2>2
<1>4. ASSUME NEW x PROVE x \in Elements(t) <=> x \in Elements(s) \ {s[k]}
  <2>1. ASSUME NEW i \in 1 .. Len(s) - 1, x = t[i] PROVE x \in Elements(s) \ {s[k]}
    <3> DEFINE p == IF i < k THEN i ELSE i + 1
    <3>1. p \in 1 .. Len(s) /\ p # k /\ t[i] = s[p]
      BY <1>1
    <3>2. QED
      BY <1>2, <2>1, <3>1 DEF Elements
  <2>2. ASSUME NEW j \in 1 .. Len(s), j # k, x = s[j] PROVE x \in Elements(t)
    <3> DEFINE i == IF j < k THEN j ELSE j - 1
    <3>1. i \in 1 .. Len(s) - 1 /\ t[i] = s[j]
      BY <1>1, <2>2
    <3>2. QED
      BY <1>1, <2>2, <3>1 DEF Elements
  <2>3. QED
    BY <1>1, <2>1, <2>2 DEF Elements
<1>5. QED
  BY <1>3, <1>4

\* A caller joins the queue of its model's provider.
Joined(c, m) ==
    /\ pc[c] # "queued" /\ pc'[c] = "queued" /\ model'[c] = m
    /\ queue' = [queue EXCEPT ![Provider[m]] = Append(@, c)]

\* It leaves the queue, served or cancelled.
Unqueued(c) ==
    /\ pc[c] = "queued" /\ pc'[c] # "queued"
    /\ \E k \in 1 .. Len(queue[Provider[model[c]]]) :
         /\ queue[Provider[model[c]]][k] = c
         /\ Shorter(queue[Provider[model[c]]], queue'[Provider[model[c]]], k)
    /\ \A p \in Providers \ {Provider[model[c]]} : queue'[p] = queue[p]

\* It does not wait, before and after.
Elsewhere(c) == pc[c] # "queued" /\ pc'[c] # "queued" /\ queue' = queue

LEMMA JoinedWaiting ==
  ASSUME CallerTypes, Waiting, NEW c \in Callers, NEW m \in Models, Alone(c), Joined(c, m)
  PROVE  Waiting'
<1> DEFINE P == Provider[m]
<1>1. P \in Providers /\ queue[P] \in Seq(Callers)
  BY DEF Providers, CallerTypes
<1>2. Elements(queue[P]) = Waiters(P) /\ IsInjective(queue[P])
  BY <1>1 DEF Waiting, Elements
<1>3. c \notin Waiters(P)
  BY DEF Joined, Waiters
<1>4. queue'[P] = Append(queue[P], c) /\ \A p \in Providers \ {P} : queue'[p] = queue[p]
  BY <1>1 DEF Joined, CallerTypes
<1>5. Waiters(P)' = Waiters(P) \cup {c} /\ \A p \in Providers \ {P} : Waiters(p)' = Waiters(p)
  BY DEF Joined, Alone, Waiters
<1>6. IsInjective(queue'[P]) /\ Elements(queue'[P]) = Waiters(P)'
  BY <1>1, <1>2, <1>3, <1>4, <1>5, AppendFacts
<1>7. \A p \in Providers \ {P} : Elements(queue'[p]) = Waiters(p)' /\ IsInjective(queue'[p])
  BY <1>4, <1>5 DEF Waiting, Elements
<1>8. \A p \in Providers : Elements(queue'[p]) = Waiters(p)' /\ IsInjective(queue'[p])
  BY <1>6, <1>7
<1>9. QED
  BY <1>8 DEF Waiting, Elements

LEMMA UnqueuedWaiting ==
  ASSUME CallerTypes, CallerTypes', Waiting, HasModel, NEW c \in Callers, Alone(c), Unqueued(c)
  PROVE  Waiting'
<1>1. PICK P \in Providers : P = Provider[model[c]]
  BY DEF Unqueued, HasModel, Busy, Providers
<1>2. Elements(queue[P]) = Waiters(P) /\ IsInjective(queue[P]) /\ queue[P] \in Seq(Callers)
  BY <1>1 DEF Waiting, Elements, CallerTypes
<1>3. PICK k \in 1 .. Len(queue[P]) : queue[P][k] = c /\ Shorter(queue[P], queue'[P], k)
  BY <1>1 DEF Unqueued
<1>4. IsInjective(queue'[P]) /\ Elements(queue'[P]) = Elements(queue[P]) \ {c}
  <2>1. queue'[P] \in Seq(Callers)
    BY DEF CallerTypes
  <2>2. QED
    BY <1>2, <1>3, <2>1, ShorterFacts
<1>5. Waiters(P)' = Waiters(P) \ {c} /\ \A p \in Providers \ {P} : Waiters(p)' = Waiters(p)
  BY <1>1 DEF Unqueued, Alone, Waiters
<1>6. \A p \in Providers \ {P} : queue'[p] = queue[p]
  BY <1>1 DEF Unqueued
<1>7. \A p \in Providers \ {P} : Elements(queue'[p]) = Waiters(p)' /\ IsInjective(queue'[p])
  BY <1>5, <1>6 DEF Waiting, Elements
<1>8. \A p \in Providers : Elements(queue'[p]) = Waiters(p)' /\ IsInjective(queue'[p])
  BY <1>2, <1>4, <1>5, <1>7
<1>9. QED
  BY <1>8 DEF Waiting, Elements

LEMMA ElsewhereWaiting ==
  ASSUME Waiting, NEW c \in Callers, Alone(c), Elsewhere(c)
  PROVE  Waiting'
<1>1. \A p \in Providers : Waiters(p)' = Waiters(p)
  BY DEF Elsewhere, Alone, Waiters
<1>2. QED
  BY <1>1 DEF Elsewhere, Waiting

-----------------------------------------------------------------------------
(***************************************************************************)
(* A step of one caller.                                                   *)
(***************************************************************************)

RequestTypes ==
    /\ pc \in [Callers -> {"idle", "choosing", "preparing", "queued", "calling", "sanitizing"}]
    /\ kind \in [Callers -> Kinds] /\ model \in [Callers -> Models \cup {NoModel}]
    /\ tried \in [Callers -> SUBSET Models]

QueueTypes == queue \in [Providers -> Seq(Callers)]

\* The caller moves on its own, with a model once it got past selection.
Moved(c) == RequestTypes' /\ Alone(c) /\ (pc'[c] \in Busy => model'[c] \in Models)

\* What the step does to the bulkhead and to its queue.
Slot(c) == (\E m \in Models : Entered(c, m)) \/ Left(c) \/ Outside(c)
Line(c) == QueueTypes' /\ ((\E m \in Models : Joined(c, m)) \/ Unqueued(c) \/ Elsewhere(c))

\* The step of OpenRejectsChoice.
Lawful(c) ==
    pc[c] # "calling" /\ pc'[c] = "calling" /\ circuit'[model'[c]] = "open" =>
        pc[c] \in {"queued", "preparing"} \/ kind[c] = "forced"

Holds == Straight /\ \A c \in Callers : Lawful(c)

LEMMA SlotTypes ==
  ASSUME CallerTypes, HasModel, NEW c \in Callers, Slot(c)
  PROVE  /\ probing' \subseteq Models /\ probe' \subseteq Callers
         /\ lock' \in [Providers -> Callers \cup {Nobody}]
<1>1. ASSUME NEW m \in Models, Entered(c, m)
      PROVE  /\ probing' \subseteq Models /\ probe' \subseteq Callers
             /\ lock' \in [Providers -> Callers \cup {Nobody}]
  BY <1>1 DEF CallerTypes, Entered
<1>2. CASE Left(c)
  BY <1>2 DEF CallerTypes, Left, Release
<1>3. CASE Outside(c)
  BY <1>3 DEF CallerTypes, Outside
<1>4. QED
  BY <1>1, <1>2, <1>3 DEF Slot

LEMMA CallerStep ==
  ASSUME IInv, NEW c \in Callers, Breaker', Straight, Moved(c), Slot(c), Line(c), Lawful(c)
  PROVE  IInv' /\ Holds
<1>1. CallerTypes /\ HasModel /\ Slots /\ Waiting /\ Alone(c)
  BY DEF IInv, Moved
<1>2. CallerTypes'
  <2>1. RequestTypes' /\ QueueTypes'
    BY DEF Moved, Line
  <2>2. QED
    BY <1>1, <2>1, SlotTypes DEF CallerTypes, RequestTypes, QueueTypes
<1>3. HasModel'
  BY <1>1 DEF HasModel, Moved, Alone
<1>4. Slots'
  <2>1. ASSUME NEW m \in Models, Entered(c, m) PROVE Slots'
    BY <1>1, <1>2, <2>1, EnteredSlots
  <2>2. CASE Left(c)
    BY <1>1, <1>2, <2>2, LeftSlots
  <2>3. CASE Outside(c)
    BY <1>1, <2>3, OutsideSlots
  <2>4. QED
    BY <2>1, <2>2, <2>3 DEF Slot
<1>5. Waiting'
  <2>1. ASSUME NEW m \in Models, Joined(c, m) PROVE Waiting'
    BY <1>1, <2>1, JoinedWaiting
  <2>2. CASE Unqueued(c)
    BY <1>1, <1>2, <2>2, UnqueuedWaiting
  <2>3. CASE Elsewhere(c)
    BY <1>1, <2>3, ElsewhereWaiting
  <2>4. QED
    BY <2>1, <2>2, <2>3 DEF Line
<1>6. Holds
  BY <1>1 DEF Holds, Lawful, Alone
<1>7. QED
  BY <1>2, <1>3, <1>4, <1>5, <1>6 DEF IInv

\* Steps that leave requests and bulkhead alone.
LEMMA TimerStep ==
  ASSUME IInv, Breaker', Straight, UNCHANGED <<guards, pc, request>>
  PROVE  IInv' /\ Holds
<1>1. UNCHANGED <<probing, lock, queue, probe, pc, kind, model, tried>>
  BY DEF guards, request
<1>2. CallerTypes' /\ HasModel'
  BY <1>1 DEF IInv, CallerTypes, HasModel
<1>3. \A p : Inside(p)' = Inside(p) /\ Waiters(p)' = Waiters(p)
  BY <1>1 DEF Inside, Waiters
<1>4. Slots' /\ Waiting'
  BY <1>1, <1>3 DEF IInv, Slots, SingleProbe, Waiting
<1>5. Holds
  BY <1>1 DEF Holds, Lawful
<1>6. QED
  BY <1>2, <1>4, <1>5 DEF IInv

LEMMA DoneFacts ==
  ASSUME CallerTypes, NEW c \in Callers, Done(c)
  PROVE  Moved(c) /\ pc'[c] = "idle"
<1>1. RequestTypes'
  BY DEF CallerTypes, Done, RequestTypes, Kinds
<1>2. pc'[c] = "idle" /\ Alone(c)
  BY DEF CallerTypes, Done, Alone
<1>3. QED
  BY <1>1, <1>2 DEF Moved, Busy

LEMMA AgainFacts ==
  ASSUME CallerTypes, NEW c \in Callers, Again(c)
  PROVE  Moved(c) /\ pc'[c] = "choosing"
<1>1. RequestTypes'
  BY DEF CallerTypes, Again, RequestTypes
<1>2. pc'[c] = "choosing" /\ Alone(c)
  BY DEF CallerTypes, Again, Alone
<1>3. QED
  BY <1>1, <1>2 DEF Moved, Busy

LEMMA AdmitFacts ==
  ASSUME CallerTypes, NEW c \in Callers, NEW m \in Models, NEW state, Admit(c, m, state),
         pc[c] # "calling", Cardinality(Inside(Provider[m])) < Limit,
         kind' \in [Callers -> Kinds], tried' \in [Callers -> SUBSET Models]
  PROVE  Moved(c) /\ Entered(c, m)
<1>1. RequestTypes'
  BY DEF CallerTypes, Admit, RequestTypes
<1>2. pc'[c] = "calling" /\ model'[c] = m /\ Alone(c)
  BY DEF CallerTypes, Admit, Alone
<1>3. Entered(c, m)
  BY <1>2 DEF Admit, Entered
<1>4. QED
  BY <1>1, <1>2, <1>3 DEF Moved

LEMMA EnqueueFacts ==
  ASSUME CallerTypes, NEW c \in Callers, NEW m \in Models, Enqueue(c, m), pc[c] # "queued",
         kind' \in [Callers -> Kinds], tried' \in [Callers -> SUBSET Models]
  PROVE  Moved(c) /\ Joined(c, m) /\ QueueTypes' /\ pc'[c] = "queued"
<1>1. RequestTypes'
  BY DEF CallerTypes, Enqueue, RequestTypes
<1>2. pc'[c] = "queued" /\ model'[c] = m /\ Alone(c)
  BY DEF CallerTypes, Enqueue, Alone
<1>3. Joined(c, m)
  BY <1>2 DEF Enqueue, Joined
<1>4. QueueTypes'
  <2>1. queue[Provider[m]] \in Seq(Callers) /\ Provider[m] \in Providers
    BY DEF CallerTypes, Providers
  <2>2. Append(queue[Provider[m]], c) \in Seq(Callers)
    BY <2>1
  <2>3. QED
    BY <2>1, <2>2 DEF CallerTypes, Enqueue, QueueTypes
<1>5. QED
  BY <1>1, <1>2, <1>3, <1>4 DEF Moved

\* A semaphore that is not locked has a free slot.
LEMMA FreeSlot ==
  ASSUME NEW p, ~SemaphoreLocked(p)
  PROVE  Cardinality(Inside(p)) < Limit
<1>1. Cardinality(Inside(p)) \in Nat
  BY InsideFinite, FS_CardinalityType
<1>2. QED
  BY <1>1, RouterAssumption DEF SemaphoreLocked

-----------------------------------------------------------------------------
(***************************************************************************)
(* The steps of a request.                                                 *)
(***************************************************************************)

LEMMA NewRequestStep ==
  ASSUME IInv, NEW c \in Callers, NewRequest(c)
  PROVE  IInv' /\ Holds
<1>1. CallerTypes /\ Breaker /\ UNCHANGED breaker
  BY DEF IInv, NewRequest
<1>2. Breaker' /\ Straight
  BY <1>1, SameBreaker
<1>3. PICK k \in Kinds : kind' = [kind EXCEPT ![c] = k]
  BY RouterAssumption DEF NewRequest, Kinds
<1>4. /\ pc[c] = "idle" /\ pc' = [pc EXCEPT ![c] = "choosing"] /\ pc'[c] = "choosing"
      /\ UNCHANGED <<probing, lock, queue, probe, model, tried>>
  BY <1>1 DEF NewRequest, guards, CallerTypes
<1>5. Moved(c)
  BY <1>1, <1>3, <1>4 DEF Moved, RequestTypes, CallerTypes, Alone, Busy
<1>6. Slot(c) /\ Line(c) /\ Lawful(c)
  BY <1>1, <1>4 DEF Slot, Outside, Line, Elsewhere, QueueTypes, CallerTypes, Lawful
<1>7. QED
  BY <1>2, <1>5, <1>6, CallerStep

LEMMA ChooseStep ==
  ASSUME IInv, NEW c \in Callers, NEW m \in Models, Choose(c, m)
  PROVE  IInv' /\ Holds
<1>1. CallerTypes /\ Breaker /\ pc[c] = "choosing"
  BY DEF IInv, Choose
<1>2. Breaker' /\ Straight
  BY <1>1, CheckedFacts DEF Choose
<1>3. circuit'[m] # "open"
  BY DEF Choose, Checked, Candidates, CircuitAllows, AfterCheck
<1>4. /\ kind' \in [Callers -> Kinds] /\ tried' \in [Callers -> SUBSET Models]
  BY <1>1 DEF Choose, CallerTypes
<1>5. ASSUME Admit(c, m, AfterCheck(m)), ~SemaphoreLocked(Provider[m]), UNCHANGED queue
      PROVE  Moved(c) /\ Slot(c) /\ Line(c) /\ Lawful(c)
  <2>1. Moved(c) /\ Entered(c, m)
    BY <1>1, <1>4, <1>5, FreeSlot, AdmitFacts
  <2>2. pc'[c] = "calling" /\ model'[c] = m
    BY <2>1 DEF Entered
  <2>3. QED
    BY <1>1, <1>3, <1>5, <2>1, <2>2
       DEF Slot, Line, Elsewhere, QueueTypes, CallerTypes, Lawful
<1>6. ASSUME UNCHANGED <<pc, model, lock, probing, probe, queue>>
      PROVE  Moved(c) /\ Slot(c) /\ Line(c) /\ Lawful(c)
  <2>1. Moved(c)
    BY <1>1, <1>4, <1>6 DEF Moved, RequestTypes, CallerTypes, Alone, Busy
  <2>2. QED
    BY <1>1, <1>6, <2>1 DEF Slot, Outside, Line, Elsewhere, QueueTypes, CallerTypes, Lawful
<1>7. CASE kind[c] = "gated" /\ Ready(m) /\ Admit(c, m, AfterCheck(m)) /\ UNCHANGED queue
  BY <1>2, <1>5, <1>7, CallerStep DEF Ready
<1>8. CASE UNCHANGED <<pc, model, guards>>
  BY <1>2, <1>6, <1>8, CallerStep DEF guards
<1>9. CASE Enqueue(c, m) /\ UNCHANGED <<lock, probing, probe>>
  <2>1. Moved(c) /\ Joined(c, m) /\ QueueTypes' /\ pc'[c] = "queued"
    BY <1>1, <1>4, <1>9, EnqueueFacts
  <2>2. Slot(c) /\ Line(c) /\ Lawful(c)
    BY <1>1, <1>9, <2>1 DEF Slot, Outside, Line, Lawful
  <2>3. QED
    BY <1>2, <2>1, <2>2, CallerStep
<1>10. CASE /\ ~SemaphoreLocked(Provider[m]) /\ UNCHANGED queue
            /\ IF Turned(m, AfterCheck(m)) THEN UNCHANGED <<pc, model, lock, probing, probe>>
                                           ELSE Admit(c, m, AfterCheck(m))
  BY <1>2, <1>5, <1>6, <1>10, CallerStep
<1>11. CASE /\ pc' = [pc EXCEPT ![c] = "preparing"] /\ model' = [model EXCEPT ![c] = m]
            /\ UNCHANGED guards
  <2>1. pc'[c] = "preparing" /\ model'[c] = m /\ Alone(c)
    BY <1>1, <1>11 DEF CallerTypes, Alone
  <2>2. Moved(c)
    BY <1>1, <1>4, <1>11, <2>1 DEF Moved, RequestTypes, CallerTypes
  <2>3. Slot(c) /\ Line(c) /\ Lawful(c)
    BY <1>1, <1>11, <2>1
       DEF Slot, Outside, Line, Elsewhere, QueueTypes, CallerTypes, Lawful, guards
  <2>4. QED
    BY <1>2, <2>2, <2>3, CallerStep
<1>12. QED
  BY <1>7, <1>8, <1>9, <1>10, <1>11 DEF Choose

\* A request that ends or starts over without a slot and without waiting.
LEMMA QuietStep ==
  ASSUME IInv, NEW c \in Callers, Breaker', Straight, Done(c) \/ Again(c), UNCHANGED guards,
         pc[c] \notin {"calling", "queued"}
  PROVE  IInv' /\ Holds
<1>1. CallerTypes /\ UNCHANGED <<probing, lock, queue, probe>>
  BY DEF IInv, guards
<1>2. Moved(c) /\ pc'[c] \in {"idle", "choosing"}
  BY <1>1, DoneFacts, AgainFacts
<1>3. Slot(c) /\ Line(c) /\ Lawful(c)
  BY <1>1, <1>2 DEF Slot, Outside, Line, Elsewhere, QueueTypes, CallerTypes, Lawful
<1>4. QED
  BY <1>2, <1>3, CallerStep

LEMMA NoneLeftStep ==
  ASSUME IInv, NEW c \in Callers, NoneLeft(c)
  PROVE  IInv' /\ Holds
<1>1. Breaker /\ pc[c] = "choosing" /\ Done(c) /\ UNCHANGED <<fails, wins, cooling, evicted, guards>>
  BY DEF IInv, NoneLeft
<1>2. Breaker' /\ Straight
  <2>1. CASE UNCHANGED <<circuit, elapsed>>
    BY <1>1, <2>1, SameBreaker DEF breaker
  <2>2. CASE Checked
    BY <1>1, <2>2, CheckedFacts
  <2>3. QED
    BY <2>1, <2>2 DEF NoneLeft
<1>3. QED
  BY <1>1, <1>2, QuietStep

LEMMA ForceStep ==
  ASSUME IInv, NEW c \in Callers, NEW m \in Models, ForceModel(c, m)
  PROVE  IInv' /\ Holds
<1>1. CallerTypes /\ Breaker /\ pc[c] = "choosing" /\ kind[c] = "forced"
  BY DEF IInv, ForceModel
<1>2. CASE Done(c) /\ UNCHANGED <<breaker, guards>>
  BY <1>1, <1>2, SameBreaker, QuietStep
<1>3. CASE /\ Enqueue(c, m) /\ tried' = [tried EXCEPT ![c] = {m}]
           /\ UNCHANGED <<breaker, kind, lock, probing, probe>>
  <2>1. kind' \in [Callers -> Kinds] /\ tried' \in [Callers -> SUBSET Models]
    BY <1>1, <1>3 DEF CallerTypes
  <2>2. Moved(c) /\ Joined(c, m) /\ QueueTypes' /\ pc'[c] = "queued"
    BY <1>1, <1>3, <2>1, EnqueueFacts
  <2>3. Slot(c) /\ Line(c) /\ Lawful(c)
    BY <1>1, <1>3, <2>2 DEF Slot, Outside, Line, Lawful
  <2>4. QED
    BY <1>1, <1>3, <2>2, <2>3, SameBreaker, CallerStep
<1>4. CASE /\ ~SemaphoreLocked(Provider[m]) /\ Admit(c, m, circuit[m])
           /\ tried' = [tried EXCEPT ![c] = {m}] /\ UNCHANGED <<breaker, kind, queue>>
  <2>1. kind' \in [Callers -> Kinds] /\ tried' \in [Callers -> SUBSET Models]
    BY <1>1, <1>4 DEF CallerTypes
  <2>2. Moved(c) /\ Entered(c, m)
    BY <1>1, <1>4, <2>1, FreeSlot, AdmitFacts
  <2>3. Slot(c) /\ Line(c) /\ Lawful(c)
    BY <1>1, <1>4, <2>2 DEF Slot, Entered, Line, Elsewhere, QueueTypes, CallerTypes, Lawful
  <2>4. QED
    BY <1>1, <1>4, <2>2, <2>3, SameBreaker, CallerStep
<1>5. QED
  BY <1>2, <1>3, <1>4 DEF ForceModel

\* Reaching the bulkhead with a free slot, the caller gets in or is turned away.
LEMMA BulkheadFacts ==
  ASSUME IInv, NEW c \in Callers, pc[c] \in {"preparing", "queued"}, AtBulkhead(c, model[c]),
         Cardinality(Inside(Provider[model[c]])) < Limit
  PROVE  /\ Breaker' /\ Straight /\ Moved(c) /\ Slot(c) /\ Lawful(c)
         /\ pc'[c] \in {"idle", "choosing", "calling"}
<1>1. /\ CallerTypes /\ Breaker /\ model[c] \in Models /\ Lawful(c) /\ pc[c] # "calling"
  BY DEF IInv, HasModel, Busy, Lawful
<1>2. CASE Turned(model[c], circuit[model[c]])
  <2>1. TurnedAway(c, model[c]) /\ UNCHANGED <<lock, probing, probe>>
    BY <1>2 DEF AtBulkhead
  <2>2. CASE kind[c] = "stream"
    <3>1. RecordFailure(model[c], FALSE) /\ Done(c)
      BY <2>1, <2>2 DEF TurnedAway
    <3>2. \E permanent \in BOOLEAN : RecordFailure(model[c], permanent)
      BY <3>1, Zenon
    <3>3. Breaker' /\ Straight
      BY <1>1, <3>2, FailureFacts
    <3>4. QED
      BY <1>1, <2>1, <3>1, <3>3, DoneFacts DEF Slot, Outside
  <2>3. CASE kind[c] # "stream"
    <3>1. Again(c) /\ UNCHANGED breaker
      BY <2>1, <2>3 DEF TurnedAway
    <3>2. QED
      BY <1>1, <2>1, <3>1, SameBreaker, AgainFacts DEF Slot, Outside
  <2>4. QED
    BY <2>2, <2>3
<1>3. CASE ~Turned(model[c], circuit[model[c]])
  <2>1. Admit(c, model[c], circuit[model[c]]) /\ UNCHANGED <<breaker, kind, tried>>
    BY <1>3 DEF AtBulkhead
  <2>2. kind' \in [Callers -> Kinds] /\ tried' \in [Callers -> SUBSET Models]
    BY <1>1, <2>1 DEF CallerTypes
  <2>3. Moved(c) /\ Entered(c, model[c])
    BY <1>1, <2>1, <2>2, AdmitFacts
  <2>4. QED
    BY <1>1, <2>1, <2>3, SameBreaker DEF Slot, Entered
<1>4. QED
  BY <1>2, <1>3

LEMMA PreparedStep ==
  ASSUME IInv, NEW c \in Callers, Prepared(c)
  PROVE  IInv' /\ Holds
<1>1. CallerTypes /\ Breaker /\ pc[c] = "preparing" /\ model[c] \in Models
  BY DEF IInv, Prepared, HasModel, Busy
<1>2. CASE SemaphoreLocked(Provider[model[c]])
  <2>1. Enqueue(c, model[c]) /\ UNCHANGED <<breaker, lock, probing, probe, kind, tried>>
    BY <1>2 DEF Prepared
  <2>2. kind' \in [Callers -> Kinds] /\ tried' \in [Callers -> SUBSET Models]
    BY <1>1, <2>1 DEF CallerTypes
  <2>3. Moved(c) /\ Joined(c, model[c]) /\ QueueTypes' /\ pc'[c] = "queued"
    BY <1>1, <2>1, <2>2, EnqueueFacts
  <2>4. Slot(c) /\ Line(c) /\ Lawful(c)
    BY <1>1, <2>1, <2>3 DEF Slot, Outside, Line, Lawful
  <2>5. QED
    BY <1>1, <2>1, <2>3, <2>4, SameBreaker, CallerStep
<1>3. CASE ~SemaphoreLocked(Provider[model[c]])
  <2>1. AtBulkhead(c, model[c]) /\ UNCHANGED queue
    BY <1>3 DEF Prepared
  <2>2. /\ Breaker' /\ Straight /\ Moved(c) /\ Slot(c) /\ Lawful(c)
        /\ pc'[c] \in {"idle", "choosing", "calling"}
    BY <1>1, <1>3, <2>1, FreeSlot, BulkheadFacts
  <2>3. Line(c)
    BY <1>1, <2>1, <2>2 DEF Line, Elsewhere, QueueTypes, CallerTypes
  <2>4. QED
    BY <2>2, <2>3, CallerStep
<1>4. QED
  BY <1>2, <1>3

\* A caller that waits is in the queue of its model's provider.
LEMMA QueuedFacts ==
  ASSUME IInv, NEW c \in Callers, pc[c] = "queued"
  PROVE  /\ Provider[model[c]] \in Providers /\ queue[Provider[model[c]]] \in Seq(Callers)
         /\ queue[Provider[model[c]]] # <<>>
<1>1. Provider[model[c]] \in Providers
  BY DEF IInv, HasModel, Busy, Providers
<1>2. queue[Provider[model[c]]] \in Seq(Callers)
  BY <1>1 DEF IInv, CallerTypes
<1>3. c \in Waiters(Provider[model[c]])
  BY DEF Waiters
<1>4. PICK i \in 1 .. Len(queue[Provider[model[c]]]) : queue[Provider[model[c]]][i] = c
  BY <1>1, <1>3 DEF IInv, Waiting
<1>5. QED
  BY <1>1, <1>2, <1>4

LEMMA LeaveQueueStep ==
  ASSUME IInv, NEW c \in Callers, LeaveQueue(c)
  PROVE  IInv' /\ Holds
<1> DEFINE s == queue[Provider[model[c]]]
<1>1. /\ pc[c] = "queued" /\ Head(s) = c /\ Cardinality(Inside(Provider[model[c]])) < Limit
      /\ queue' = [queue EXCEPT ![Provider[model[c]]] = Tail(s)] /\ AtBulkhead(c, model[c])
      /\ CallerTypes
  BY DEF LeaveQueue, IInv
<1>2. Provider[model[c]] \in Providers /\ s \in Seq(Callers) /\ s # <<>>
  BY <1>1, QueuedFacts
<1>3. /\ Breaker' /\ Straight /\ Moved(c) /\ Slot(c) /\ Lawful(c)
      /\ pc'[c] \in {"idle", "choosing", "calling"}
  BY <1>1, BulkheadFacts
<1>4. /\ queue'[Provider[model[c]]] = Tail(s)
      /\ \A p \in Providers \ {Provider[model[c]]} : queue'[p] = queue[p]
  BY <1>1, <1>2 DEF CallerTypes
<1>5. QueueTypes'
  <2>1. Tail(s) \in Seq(Callers)
    BY <1>2
  <2>2. QED
    BY <1>1, <1>2, <2>1 DEF CallerTypes, QueueTypes
<1>6. 1 \in 1 .. Len(s) /\ s[1] = c /\ Shorter(s, Tail(s), 1)
  <2> HIDE DEF s
  <2>1. 1 \in 1 .. Len(s) /\ s[1] = c
    BY <1>1, <1>2
  <2>2. Len(Tail(s)) = Len(s) - 1 /\ \A i \in 1 .. Len(s) - 1 : Tail(s)[i] = s[i + 1]
    BY <1>2
  <2>3. QED
    BY <2>1, <2>2 DEF Shorter
<1>7. Unqueued(c)
  BY <1>1, <1>3, <1>4, <1>6 DEF Unqueued
<1>8. Line(c)
  BY <1>5, <1>7 DEF Line
<1>9. QED
  BY <1>3, <1>8, CallerStep

\* A caller that leaves the bulkhead.
LEMMA LeavingStep ==
  ASSUME IInv, NEW c \in Callers, pc[c] = "calling", Release(c), UNCHANGED queue, Breaker', Straight,
         Moved(c), pc'[c] \in {"idle", "choosing", "sanitizing"}
  PROVE  IInv' /\ Holds
<1>1. Slot(c) /\ Lawful(c)
  BY DEF Slot, Left, Lawful
<1>2. Line(c)
  BY DEF Line, Elsewhere, QueueTypes, IInv, CallerTypes
<1>3. QED
  BY <1>1, <1>2, CallerStep

LEMMA CallSucceedsStep ==
  ASSUME IInv, NEW c \in Callers, CallSucceeds(c)
  PROVE  IInv' /\ Holds
<1>1. /\ CallerTypes /\ Breaker /\ pc[c] = "calling" /\ model[c] \in Models /\ Release(c) /\ UNCHANGED queue
  BY DEF IInv, CallSucceeds, HasModel, Busy
<1>2. CASE RecordSuccess(model[c]) /\ Done(c)
  <2>1. Breaker' /\ Straight
    BY <1>1, <1>2, SuccessFacts
  <2>2. Moved(c) /\ pc'[c] = "idle"
    BY <1>1, <1>2, DoneFacts
  <2>3. QED
    BY <1>1, <2>1, <2>2, LeavingStep
<1>3. CASE pc' = [pc EXCEPT ![c] = "sanitizing"] /\ UNCHANGED <<breaker, request>>
  <2>1. pc'[c] = "sanitizing" /\ model' = model /\ Alone(c)
    BY <1>1, <1>3 DEF CallerTypes, Alone, request
  <2>2. Moved(c)
    BY <1>1, <1>3, <2>1 DEF Moved, RequestTypes, CallerTypes, request
  <2>3. QED
    BY <1>1, <1>3, <2>1, <2>2, SameBreaker, LeavingStep
<1>4. QED
  BY <1>2, <1>3 DEF CallSucceeds

LEMMA CallFailsStep ==
  ASSUME IInv, NEW c \in Callers, CallFails(c)
  PROVE  IInv' /\ Holds
<1>1. /\ CallerTypes /\ Breaker /\ pc[c] = "calling" /\ model[c] \in Models /\ Release(c) /\ UNCHANGED queue
  BY DEF IInv, CallFails, HasModel, Busy
<1>2. Breaker' /\ Straight
  BY <1>1, FailureFacts DEF CallFails
<1>3. Moved(c) /\ pc'[c] \in {"idle", "choosing"}
  BY <1>1, DoneFacts, AgainFacts DEF CallFails
<1>4. QED
  BY <1>1, <1>2, <1>3, LeavingStep

LEMMA SanitizedStep ==
  ASSUME IInv, NEW c \in Callers, Sanitized(c)
  PROVE  IInv' /\ Holds
<1>1. Breaker /\ pc[c] = "sanitizing" /\ model[c] \in Models
  BY DEF IInv, Sanitized, HasModel, Busy
<1>2. RecordSuccess(model[c]) /\ Done(c) /\ UNCHANGED guards
  BY DEF Sanitized
<1>3. QED
  BY <1>1, <1>2, SuccessFacts, QuietStep

LEMMA SanitizeFailsStep ==
  ASSUME IInv, NEW c \in Callers, SanitizeFails(c)
  PROVE  IInv' /\ Holds
<1>1. Breaker /\ pc[c] = "sanitizing" /\ model[c] \in Models
  BY DEF IInv, SanitizeFails, HasModel, Busy
<1>2. RecordFailure(model[c], FALSE) /\ Again(c) /\ UNCHANGED guards
  BY DEF SanitizeFails
<1>3. \E permanent \in BOOLEAN : RecordFailure(model[c], permanent)
  BY <1>2, Zenon
<1>4. QED
  BY <1>1, <1>2, <1>3, FailureFacts, QuietStep

LEMMA CancelRequestStep ==
  ASSUME IInv, NEW c \in Callers, CancelRequest(c)
  PROVE  IInv' /\ Holds
<1>1. CallerTypes /\ Release(c) /\ Done(c) /\ pc[c] \in Busy
  BY DEF IInv, CancelRequest, Busy
<1>2. Breaker' /\ Straight
  BY SameBreaker DEF IInv, CancelRequest
<1>3. Moved(c) /\ pc'[c] = "idle"
  BY <1>1, DoneFacts
<1>4. CASE pc[c] = "calling"
  BY <1>1, <1>2, <1>3, <1>4, LeavingStep DEF CancelRequest
<1>5. CASE pc[c] # "calling"
  <2>1. c \notin probe
    BY <1>5 DEF IInv, Slots
  <2>2. Slot(c) /\ Lawful(c)
    BY <1>1, <1>3, <1>5, <2>1 DEF Slot, Outside, Lawful, Release
  <2>3. CASE pc[c] # "queued"
    <3>1. Line(c)
      BY <1>1, <1>3, <2>3 DEF CancelRequest, Line, Elsewhere, QueueTypes, CallerTypes
    <3>2. QED
      BY <1>2, <1>3, <2>2, <3>1, CallerStep
  <2>4. CASE pc[c] = "queued"
    <3> DEFINE s == queue[Provider[model[c]]]
    <3>1. Provider[model[c]] \in Providers /\ s \in Seq(Callers)
      BY <2>4, QueuedFacts
    <3>2. PICK i \in 1 .. Len(s) :
             s[i] = c /\ queue' = [queue EXCEPT ![Provider[model[c]]] = RemoveAt(s, i)]
      BY <2>4 DEF CancelRequest, LeaveUnserved
    <3>3. RemoveAt(s, i) \in Seq(Callers) /\ Shorter(s, RemoveAt(s, i), i)
      BY <3>1, RemoveFacts
    <3>4. /\ queue'[Provider[model[c]]] = RemoveAt(s, i)
          /\ \A p \in Providers \ {Provider[model[c]]} : queue'[p] = queue[p]
      BY <1>1, <3>1, <3>2 DEF CallerTypes
    <3>5. QueueTypes'
      BY <1>1, <3>1, <3>2, <3>3 DEF CallerTypes, QueueTypes
    <3>6. Unqueued(c)
      BY <1>3, <2>4, <3>2, <3>3, <3>4 DEF Unqueued
    <3>7. Line(c)
      BY <3>5, <3>6 DEF Line
    <3>8. QED
      BY <1>2, <1>3, <2>2, <3>7, CallerStep
  <2>5. QED
    BY <2>3, <2>4
<1>6. QED
  BY <1>4, <1>5

LEMMA ClockStep ==
  ASSUME IInv, NEW m \in Models, RecoveryElapses(m) \/ CooldownEnds(m)
  PROVE  IInv' /\ Holds
<1>1. /\ UNCHANGED <<circuit, fails, wins, evicted, guards, pc, request>>
      /\ elapsed' \subseteq elapsed \cup {m} /\ cooling' \subseteq cooling
  BY DEF RecoveryElapses, CooldownEnds
<1>2. Breaker' /\ Straight
  BY <1>1 DEF IInv, Breaker, BreakerTypes, FreshEvidence, Straight
<1>3. QED
  BY <1>1, <1>2, TimerStep

LEMMA NextIInv == IInv /\ [Next]_vars => IInv' /\ (Holds \/ UNCHANGED vars)
<1> SUFFICES ASSUME IInv, [Next]_vars PROVE IInv' /\ (Holds \/ UNCHANGED vars)
  OBVIOUS
<1>1. CASE UNCHANGED vars
  <2>1. UNCHANGED <<breaker, guards, pc, request>>
    BY <1>1 DEF vars
  <2>2. QED
    BY <2>1, SameBreaker, TimerStep DEF IInv
<1>2. ASSUME NEW c \in Callers, NewRequest(c) \/ Proceed(c) \/ Answer(c) \/ CancelRequest(c)
      PROVE  IInv' /\ Holds
  <2>1. ASSUME NEW m \in Models, Choose(c, m) \/ ForceModel(c, m) PROVE IInv' /\ Holds
    BY <2>1, ChooseStep, ForceStep
  <2>2. CASE NoneLeft(c) \/ Prepared(c) \/ LeaveQueue(c)
    BY <2>2, NoneLeftStep, PreparedStep, LeaveQueueStep
  <2>3. CASE Answer(c)
    BY <2>3, CallSucceedsStep, CallFailsStep, SanitizedStep, SanitizeFailsStep DEF Answer
  <2>4. CASE NewRequest(c) \/ CancelRequest(c)
    BY <2>4, NewRequestStep, CancelRequestStep
  <2>5. QED
    BY <1>2, <2>1, <2>2, <2>3, <2>4 DEF Proceed
<1>3. ASSUME NEW m \in Models, RecoveryElapses(m) \/ CooldownEnds(m) PROVE IInv' /\ Holds
  BY <1>3, ClockStep
<1>4. QED
  BY <1>1, <1>2, <1>3 DEF Next

\* The inductive invariant holds in every reachable state.
LEMMA Invariance == Spec => []IInv
BY InitIInv, NextIInv, PTL DEF Spec

-----------------------------------------------------------------------------
(***************************************************************************)
(* Theorems.                                                               *)
(***************************************************************************)

\* Breaker, bulkhead, probe lock and requests keep their types; the counters of
\* ModelStats stay within their thresholds.
THEOREM RouterTypes == Spec => []TypeOK
BY Invariance, Parts, PTL

\* The probe lock and probe_in_progress name exactly the callers that probe, counted
\* successes belong to the half-open phase that is on, and a bulkhead's slots and
\* queue are exact, whatever calls, late results and cancels did before
\* (execute_with_bulkhead, record_success, record_failure).
THEOREM ExactBreaker == Spec => []BreakerExact
BY Invariance, Parts, PTL

\* An open circuit never closes without a half-open phase, and selection lets no call
\* through it (check_circuit, record_success).
THEOREM OpenCircuit == Spec => OpenHolds
<1>1. ASSUME Holds \/ UNCHANGED vars
      PROVE  /\ [\A m \in Models :
                    /\ circuit[m] = "open" => circuit'[m] # "closed"
                    /\ circuit[m] = "closed" => circuit'[m] # "half_open"]_vars
             /\ [\A c \in Callers :
                    pc[c] # "calling" /\ pc'[c] = "calling" /\ circuit'[model'[c]] = "open" =>
                        pc[c] \in {"queued", "preparing"} \/ kind[c] = "forced"]_vars
  BY <1>1 DEF Holds, Straight, Lawful
<1>2. QED
  BY <1>1, Invariance, NextIInv, PTL DEF Spec, OpenHolds, NoShortcut, OpenRejectsChoice
=============================================================================
