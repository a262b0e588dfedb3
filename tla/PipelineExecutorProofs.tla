----------------------- MODULE PipelineExecutorProofs ------------------------
(***************************************************************************)
(* A pipeline or a list keeps its order, reports what happened and leaves  *)
(* nothing running without a reason, for every workflow whose steps stand  *)
(* in one place each, every group, branch, limit and checkpoint interval,  *)
(* and any number of cancels.                                              *)
(***************************************************************************)
EXTENDS PipelineExecutor, FiniteSetTheorems, SequenceTheorems, WellFoundedInduction, TLAPS

-----------------------------------------------------------------------------
(***************************************************************************)
(* The inductive invariant.                                                *)
(***************************************************************************)

InElement == {"waiting", "record", "checkpoint"}
Loop == InElement \cup {"next"}
After == {"error", "ending", "cancelling", "cancelled", "returned", "raised"}

Results == Seq([step : Steps, status : Returned])
StepsIn(results) == {results[i].step : i \in 1 .. Len(results)}

\* Each result is the one its step ended with, and no step is there twice.
FaithfulTo(t, results) ==
    \A i, j \in 1 .. Len(results) :
        /\ results[i].status = t[results[i].step]
        /\ results[i].step = results[j].step => i = j

Faithful(results) == FaithfulTo(task, results)

Elements == 1 .. Len(workflow.elements)
ArmsOf(i) == {workflow.elements[i].then, workflow.elements[i].else}

\* The element is behind the loop.
Over(i) == i < at \/ (pc = "checkpoint" /\ i = at)

Types ==
    /\ TypeOK
    /\ report \in [status : {"running", "success", "failed"}, steps : Results]
    /\ pc \in InElement => at \in Elements
    /\ pc = "start" => at = 1 /\ deadline = "off" /\ steps = <<>>
    /\ pc \notin After => report.status = "running"

\* Whoever is cancelled was started, and only elements up to the current one are.
Tasks ==
    /\ \A s \in Steps : s \in asked => task[s] # "none"
    /\ \A s \in Steps : task[s] = "cancelled" => s \in asked
    /\ \A s \in Steps : task[s] # "none" => \E i \in Elements : s \in ElementSteps(i)
    /\ \A i \in Elements : i > at \/ (i = at /\ pc \in {"start", "next"}) =>
           \A s \in ElementSteps(i) : task[s] = "none"

\* A step the loop has left behind.
LeftBehind(s) ==
    /\ task[s] \in Live => s \in asked /\ ~FailFast
    /\ FailFast => task[s] \in {"none", "success", "skipped"}

Behind == pc \in Loop => \A i \in Elements : Over(i) => \A s \in ElementSteps(i) : LeftBehind(s)

\* The steps of the first k batches of an arm.
UpTo(arm, k) == UNION {Range(arm[b].steps) : b \in 1 .. k}

\* What is left of arm begins with its batch k.
IsSuffix(arm, k) ==
    /\ Len(left) = Len(arm) - k + 1
    /\ \A j \in 1 .. Len(left) : left[j] = arm[k - 1 + j]

\* The loop waits for batch k of arm: it has begun and no later one has, earlier batches
\* are collected without a failure, and nobody cancelled a member of a fail-fast group.
InBatch(arm, k) ==
    /\ k \in 1 .. Len(arm) /\ IsSuffix(arm, k)
    /\ \A s \in ElementSteps(at) : task[s] # "none" => s \in UpTo(arm, k)
    /\ \A s \in Members : task[s] # "none"
    /\ UpTo(arm, k - 1) \subseteq Collected /\ Collected \subseteq UpTo(arm, k)
    /\ FailedIn(got) = {}
    /\ IF Batch.mode = "failfast" THEN Members \cap asked = {}
                                  ELSE Members \cap Collected = {}

\* The current element while it runs, and when its results are in.
Current ==
    /\ pc \in {"waiting", "record"} => Faithful(got)
    /\ pc = "waiting" => \E arm \in Arms : \E k \in 1 .. Len(arm) : InBatch(arm, k)
    /\ pc = "record" =>
         /\ Collected \subseteq ElementSteps(at)
         /\ \A s \in ElementSteps(at) : task[s] # "none" =>
                \/ s \in Collected
                \/ FailedIn(got) # {} /\ (task[s] \in Ended \/ s \in asked)
         /\ FailedIn(got) = {} => \E arm \in Arms : ArmSteps(arm) \subseteq Collected

\* What was recorded is of elements behind the loop, and all of them if nothing failed.
Reported ==
    /\ Faithful(steps)
    /\ pc \in Loop =>
         /\ \A s \in StepsIn(steps) : \E i \in Elements : Over(i) /\ s \in ElementSteps(i)
         /\ FailedIn(steps) = {} => \A i \in Elements : Over(i) =>
              /\ \E arm \in ArmsOf(i) : ArmSteps(arm) \subseteq StepsIn(steps)
              /\ \A s \in ElementSteps(i) : task[s] # "none" => s \in StepsIn(steps)

Order == Tasks /\ Behind /\ Current /\ Reported /\ ElementsInOrder /\ HonestReport

\* A pending cancel comes from the timeout or from the caller.
Why ==
    intr # "none" \/ (pc = "waiting" /\ Batch.mode # "failfast" /\ Members \cap asked # {}) =>
        deadline = "hit" \/ cancels > 0

\* After the timeout a workflow that stops at failures ends at once or waits for what
\* cannot succeed any more.
Cut ==
    deadline = "hit" /\ FailFast =>
        \/ pc \in After
        \/ pc = "record" /\ FailedIn(got) # {}
        \/ pc = "waiting" /\ Batch.mode = "all" /\ intr # "none"
        \/ /\ pc = "waiting" /\ Batch.mode = "single"
           /\ \A s \in Members : s \in asked /\ task[s] \notin {"success", "skipped"}

Stops ==
    /\ ~Flag \/ (pc = "start" /\ ~IsList) => stopAt = Len(workflow.elements)
    /\ pc \in InElement => at <= stopAt
    /\ CancelStops

Told ==
    /\ pc \notin {"returned", "raised"} => told = 0
    /\ EndAnnounced

\* The counter is the number of results that are not in a checkpoint yet.
Counter ==
    workflow.interval > 0 =>
        /\ pc \in {"start", "next", "waiting", "record"} =>
               count = Len(steps) - saved /\ count < workflow.interval
        /\ pc = "checkpoint" => saved = Len(steps)

IInv == Types /\ Order /\ Why /\ Cut /\ NoRunaway /\ Stops /\ Told /\ Counter

-----------------------------------------------------------------------------
(***************************************************************************)
(* Workflows.                                                              *)
(***************************************************************************)

LEMMA WorkflowFacts ==
  ASSUME TypeOK
  PROVE  /\ workflow \in Workflows /\ ValidWorkflow(workflow) /\ PlacedOnce(workflow)
         /\ workflow.elements \in Seq([then : Seq(Batches), else : Seq(Batches)])
         /\ Len(workflow.elements) \in Nat /\ workflow.interval \in Nat
         /\ Elements = 1 .. Len(workflow.elements) /\ at \in Nat
<1>1. /\ workflow \in Workflows /\ ValidWorkflow(workflow) /\ PlacedOnce(workflow)
      /\ at \in 1 .. Len(workflow.elements) + 1
  BY PipelinesAssumption DEF TypeOK
<1>2. /\ workflow.elements \in Seq([then : Seq(Batches), else : Seq(Batches)])
      /\ workflow.interval \in Nat
  BY <1>1 DEF Workflows
<1>3. Len(workflow.elements) \in Nat
  BY <1>2, LenProperties
<1>4. QED
  BY <1>1, <1>2, <1>3 DEF Elements

\* The batches an element can run.
LEMMA ArmFacts ==
  ASSUME TypeOK, NEW i \in Elements, NEW arm \in ArmsOf(i)
  PROVE  /\ arm \in Seq(Batches) /\ Len(arm) \in Nat
         /\ ArmSteps(arm) \subseteq ElementSteps(i)
         /\ \A b \in 1 .. Len(arm) :
               /\ arm[b] \in Batches /\ arm[b].steps \in Seq(Steps) /\ arm[b].mode \in Modes
               /\ Len(arm[b].steps) \in Nat \ {0} /\ DOMAIN arm[b].steps = 1 .. Len(arm[b].steps)
               /\ arm[b].mode = "single" => Len(arm[b].steps) = 1
               /\ IsInjective(arm[b].steps)
               /\ \A c \in 1 .. Len(arm) :
                      b # c => Range(arm[b].steps) \cap Range(arm[c].steps) = {}
<1>1. /\ workflow.elements[i] \in [then : Seq(Batches), else : Seq(Batches)]
      /\ ValidWorkflow(workflow) /\ PlacedOnce(workflow) /\ i \in 1 .. Len(workflow.elements)
  <2>1. i \in 1 .. Len(workflow.elements) /\ ValidWorkflow(workflow) /\ PlacedOnce(workflow)
    BY WorkflowFacts
  <2>2. QED
    BY <2>1, WorkflowFacts, ElementOfSeq
<1>2. arm \in Seq(Batches) /\ Len(arm) \in Nat
  BY <1>1 DEF ArmsOf
<1>3. ArmSteps(arm) \subseteq ElementSteps(i)
  BY DEF ArmsOf, ElementSteps, StepsAt
<1>4. ASSUME NEW b \in 1 .. Len(arm)
      PROVE  /\ arm[b] \in Batches /\ arm[b].steps \in Seq(Steps) /\ arm[b].mode \in Modes
             /\ Len(arm[b].steps) \in Nat \ {0} /\ DOMAIN arm[b].steps = 1 .. Len(arm[b].steps)
             /\ arm[b].mode = "single" => Len(arm[b].steps) = 1
  <2>1. arm[b] \in Batches
    BY <1>2
  <2>2. arm[b].steps \in Seq(Steps) /\ arm[b].mode \in Modes
    BY <2>1 DEF Batches
  <2>3. arm[b].steps # <<>> /\ (arm[b].mode = "single" => Len(arm[b].steps) = 1)
    BY <1>1 DEF ValidWorkflow, ArmsOf
  <2>4. QED
    BY <2>1, <2>2, <2>3, EmptySeq, LenProperties
<1>5. \A b \in 1 .. Len(arm) :
         /\ IsInjective(arm[b].steps)
         /\ \A c \in 1 .. Len(arm) :
                b # c => Range(arm[b].steps) \cap Range(arm[c].steps) = {}
  BY <1>1 DEF PlacedOnce, ArmsOf
<1>6. QED
  BY <1>2, <1>3, <1>4, <1>5

LEMMA ElementFacts ==
  ASSUME TypeOK, NEW i \in Elements
  PROVE  /\ ElementSteps(i) \subseteq Steps
         /\ \A j \in Elements : i # j => ElementSteps(i) \cap ElementSteps(j) = {}
         /\ \A s \in ElementSteps(i) : \E arm \in ArmsOf(i) : s \in ArmSteps(arm)
<1>1. \A arm \in ArmsOf(i) : ArmSteps(arm) \subseteq Steps
  <2> SUFFICES ASSUME NEW arm \in ArmsOf(i), NEW b \in 1 .. Len(arm)
               PROVE  Range(arm[b].steps) \subseteq Steps
    BY DEF ArmSteps
  <2>1. arm[b].steps \in Seq(Steps) /\ DOMAIN arm[b].steps = 1 .. Len(arm[b].steps)
    BY ArmFacts
  <2>2. QED
    BY <2>1 DEF Range
<1>2. ElementSteps(i) = UNION {ArmSteps(arm) : arm \in ArmsOf(i)}
  BY DEF ElementSteps, StepsAt, ArmsOf
<1>3. \A j \in Elements : i # j => ElementSteps(i) \cap ElementSteps(j) = {}
  BY WorkflowFacts DEF PlacedOnce, ElementSteps, Elements
<1>4. QED
  BY <1>1, <1>2, <1>3

\* The steps of a batch.
LEMMA RangeFacts ==
  ASSUME TypeOK, NEW i \in Elements, NEW arm \in ArmsOf(i), NEW k \in 1 .. Len(arm)
  PROVE  /\ UpTo(arm, k) = UpTo(arm, k - 1) \cup Range(arm[k].steps)
         /\ UpTo(arm, k) \cap Range(arm[k].steps) = Range(arm[k].steps)
         /\ UpTo(arm, k - 1) \cap Range(arm[k].steps) = {}
         /\ UpTo(arm, 0) = {} /\ UpTo(arm, Len(arm)) = ArmSteps(arm)
         /\ UpTo(arm, k) \subseteq ElementSteps(i) /\ UpTo(arm, k) \subseteq Steps
         /\ Range(arm[k].steps) \subseteq Steps /\ Range(arm[k].steps) # {}
         /\ Range(arm[k].steps) = {arm[k].steps[j] : j \in 1 .. Len(arm[k].steps)}
         /\ IsFiniteSet(Range(arm[k].steps))
         /\ arm[k].mode = "single" => \A s, t \in Range(arm[k].steps) : s = t
<1>1. /\ arm \in Seq(Batches) /\ Len(arm) \in Nat
      /\ ArmSteps(arm) \subseteq ElementSteps(i) /\ ElementSteps(i) \subseteq Steps
  BY ArmFacts, ElementFacts
<1>2. /\ 1 .. k = (1 .. k - 1) \cup {k} /\ k \in Nat /\ 1 .. k \subseteq 1 .. Len(arm)
      /\ \A b \in 1 .. k - 1 : b # k /\ b \in 1 .. Len(arm)
      /\ 1 .. 0 = {}
  BY <1>1
<1>3. \A b \in 1 .. Len(arm) : b # k => Range(arm[b].steps) \cap Range(arm[k].steps) = {}
  BY ArmFacts
<1>4. /\ Len(arm[k].steps) \in Nat \ {0} /\ DOMAIN arm[k].steps = 1 .. Len(arm[k].steps)
      /\ arm[k].mode = "single" => Len(arm[k].steps) = 1
  BY ArmFacts
<1>5. /\ UpTo(arm, k) = UpTo(arm, k - 1) \cup Range(arm[k].steps)
      /\ UpTo(arm, k - 1) \cap Range(arm[k].steps) = {}
  BY <1>2, <1>3 DEF UpTo
<1>6. UpTo(arm, 0) = {} /\ UpTo(arm, Len(arm)) = ArmSteps(arm)
  BY <1>2 DEF UpTo, ArmSteps
<1>7. UpTo(arm, k) \subseteq ArmSteps(arm)
  BY <1>2 DEF UpTo, ArmSteps
<1>8. Range(arm[k].steps) = {arm[k].steps[j] : j \in 1 .. Len(arm[k].steps)}
  BY <1>4 DEF Range
<1>9. IsFiniteSet(Range(arm[k].steps))
  <2> DEFINE n == Len(arm[k].steps)
             f == arm[k].steps
  <2>1. IsFiniteSet(1 .. n)
    <3>1. n \in Int /\ 1 \in Int
      BY <1>4
    <3> HIDE DEF n
    <3>2. QED
      BY <3>1, FS_Interval
  <2>2. f \in Surjection(1 .. n, Range(f))
    <3>1. f \in Seq(Steps) /\ f \in [1 .. n -> Steps]
      BY ArmFacts, LenProperties
    <3>2. f \in [1 .. n -> Range(f)] /\ \A t \in Range(f) : \E j \in 1 .. n : f[j] = t
      BY <1>4, <3>1 DEF Range
    <3> HIDE DEF f, n
    <3>3. QED
      BY <3>2 DEF Surjection
  <2> HIDE DEF f, n
  <2>3. IsFiniteSet(Range(f))
    BY <2>1, <2>2, FS_Surjection
  <2>4. QED
    BY <2>3 DEF f
<1>10. Range(arm[k].steps) # {} /\ (arm[k].mode = "single" => \A s, t \in Range(arm[k].steps) : s = t)
  <2>1. 1 \in 1 .. Len(arm[k].steps) /\ (Len(arm[k].steps) = 1 => \A j \in 1 .. Len(arm[k].steps) : j = 1)
    BY <1>4
  <2>2. QED
    BY <1>4, <1>8, <2>1
<1>11. QED
  BY <1>1, <1>5, <1>6, <1>7, <1>8, <1>9, <1>10

-----------------------------------------------------------------------------
(***************************************************************************)
(* Results.                                                                *)
(***************************************************************************)

\* A set of positions has a first one.
LEMMA First ==
  ASSUME NEW T, T \subseteq Nat, T # {}
  PROVE  \E n \in T : \A k \in T : n <= k
<1> DEFINE R == OpToRel(<, Nat)
<1>1. IsWellFoundedOn(R, Nat)
  BY NatLessThanWellFounded
<1>2. \A a, b \in Nat : <<a, b>> \in R <=> a < b
  BY DEF OpToRel
<1> HIDE DEF R
<1>3. PICK n \in T : \A k \in T : ~(<<k, n>> \in R)
  BY <1>1, WFMin, Zenon
<1>4. \A k \in T : ~(k < n)
  BY <1>2, <1>3
<1>5. \A k \in T : k \in Nat /\ n \in Nat
  OBVIOUS
<1>6. QED
  BY <1>4, <1>5

LEMMA ResultFacts ==
  ASSUME NEW x \in Results
  PROVE  /\ Len(x) \in Nat /\ StepsIn(x) \subseteq Steps
         /\ \A i \in 1 .. Len(x) : /\ x[i].step \in Steps /\ x[i].step \in StepsIn(x)
                                   /\ x[i].status \in Returned
         /\ FailedIn(x) \subseteq 1 .. Len(x)
         /\ \A t : FaithfulTo(t, x) => \A s \in StepsIn(x) : t[s] \in Returned
         /\ \A t : FaithfulTo(t, x) /\ FailedIn(x) = {} =>
                   \A s \in StepsIn(x) : t[s] \in {"success", "skipped"}
<1>1. Len(x) \in Nat /\ \A i \in 1 .. Len(x) : x[i] \in [step : Steps, status : Returned]
  BY LenProperties, ElementOfSeq DEF Results
<1>2. \A i \in 1 .. Len(x) : x[i].step \in Steps /\ x[i].status \in Returned
  BY <1>1
<1>3. \A i \in 1 .. Len(x) : FailedIn(x) = {} => x[i].status \in {"success", "skipped"}
  BY <1>2 DEF FailedIn, Returned
<1>4. QED
  BY <1>1, <1>2, <1>3 DEF StepsIn, FailedIn, FaithfulTo

LEMMA NoResults ==
  /\ <<>> \in Results /\ StepsIn(<<>>) = {} /\ FailedIn(<<>>) = {} /\ Len(<<>>) = 0
  /\ \A t : FaithfulTo(t, <<>>)
<1>1. <<>> \in Results /\ Len(<<>>) = 0
  BY DEF Results
<1>2. 1 .. Len(<<>>) = {}
  BY <1>1
<1>3. QED
  BY <1>1, <1>2 DEF StepsIn, FailedIn, FaithfulTo

\* Results of different steps are put together.
LEMMA Appended ==
  ASSUME NEW x \in Results, NEW y \in Results
  PROVE  /\ x \o y \in Results /\ Len(x \o y) = Len(x) + Len(y)
         /\ StepsIn(x \o y) = StepsIn(x) \cup StepsIn(y)
         /\ FailedIn(x \o y) = {} <=> FailedIn(x) = {} /\ FailedIn(y) = {}
         /\ \A t : FaithfulTo(t, x) /\ FaithfulTo(t, y) /\ StepsIn(x) \cap StepsIn(y) = {} =>
                   FaithfulTo(t, x \o y)
<1> DEFINE z == x \o y
           m == Len(x)
           n == Len(y)
<1>1. /\ z \in Results /\ Len(z) = m + n /\ m \in Nat /\ n \in Nat
      /\ \A i \in 1 .. m + n : z[i] = IF i <= m THEN x[i] ELSE y[i - m]
  BY ConcatProperties, LenProperties DEF Results
<1> HIDE DEF z
<1>2. \A i \in 1 .. Len(z) : \/ (i \in 1 .. m /\ z[i] = x[i])
                            \/ (i \notin 1 .. m /\ i - m \in 1 .. n /\ z[i] = y[i - m])
  <2> SUFFICES ASSUME NEW i \in 1 .. Len(z)
               PROVE  \/ (i \in 1 .. m /\ z[i] = x[i])
                      \/ (i \notin 1 .. m /\ i - m \in 1 .. n /\ z[i] = y[i - m])
    OBVIOUS
  <2>1. CASE i <= m
    BY <1>1, <2>1
  <2>2. CASE ~(i <= m)
    <3>1. i \notin 1 .. m /\ i - m \in 1 .. n
      BY <1>1, <2>2
    <3>2. z[i] = y[i - m]
      BY <1>1, <2>2
    <3>3. QED
      BY <3>1, <3>2
  <2>3. QED
    BY <2>1, <2>2
<1>3. /\ \A j \in 1 .. m : j \in 1 .. Len(z) /\ z[j] = x[j]
      /\ \A j \in 1 .. n : \E i \in 1 .. Len(z) : z[i] = y[j]
  <2>1. \A j \in 1 .. m : j \in 1 .. Len(z) /\ z[j] = x[j]
    BY <1>1
  <2>2. ASSUME NEW j \in 1 .. n
        PROVE  \E i \in 1 .. Len(z) : z[i] = y[j]
    <3>1. m + j \in 1 .. Len(z) /\ ~(m + j <= m) /\ (m + j) - m = j
      BY <1>1
    <3>2. z[m + j] = y[j]
      BY <1>1, <3>1
    <3>3. QED
      BY <3>1, <3>2
  <2>3. QED
    BY <2>1, <2>2
<1>4. /\ StepsIn(z) = StepsIn(x) \cup StepsIn(y)
      /\ FailedIn(z) = {} <=> FailedIn(x) = {} /\ FailedIn(y) = {}
  <2>1. StepsIn(z) \subseteq StepsIn(x) \cup StepsIn(y)
    BY <1>2 DEF StepsIn
  <2>2. StepsIn(x) \cup StepsIn(y) \subseteq StepsIn(z)
    BY <1>3 DEF StepsIn
  <2>3. FailedIn(x) = {} /\ FailedIn(y) = {} => FailedIn(z) = {}
    BY <1>2 DEF FailedIn
  <2>4. FailedIn(z) = {} => FailedIn(x) = {} /\ FailedIn(y) = {}
    BY <1>3 DEF FailedIn
  <2>5. QED
    BY <2>1, <2>2, <2>3, <2>4
<1>5. ASSUME NEW t, FaithfulTo(t, x), FaithfulTo(t, y), StepsIn(x) \cap StepsIn(y) = {}
      PROVE  FaithfulTo(t, z)
  <2> SUFFICES ASSUME NEW i \in 1 .. Len(z), NEW j \in 1 .. Len(z)
               PROVE  z[i].status = t[z[i].step] /\ (z[i].step = z[j].step => i = j)
    BY DEF FaithfulTo
  <2>1. /\ \A a, b \in 1 .. m : x[a].status = t[x[a].step] /\ (x[a].step = x[b].step => a = b)
        /\ \A a, b \in 1 .. n : y[a].status = t[y[a].step] /\ (y[a].step = y[b].step => a = b)
        /\ \A a \in 1 .. m : \A b \in 1 .. n : x[a].step # y[b].step
    <3>1. \A a, b \in 1 .. m : x[a].status = t[x[a].step] /\ (x[a].step = x[b].step => a = b)
      BY <1>5 DEF FaithfulTo
    <3>2. \A a, b \in 1 .. n : y[a].status = t[y[a].step] /\ (y[a].step = y[b].step => a = b)
      BY <1>5 DEF FaithfulTo
    <3>3. \A a \in 1 .. m : \A b \in 1 .. n : x[a].step \in StepsIn(x) /\ y[b].step \in StepsIn(y)
      BY DEF StepsIn
    <3>4. QED
      BY <1>5, <3>1, <3>2, <3>3
  <2>2. i \in Nat /\ j \in Nat /\ m \in Nat
    BY <1>1
  <2> HIDE DEF m, n
  <2>3. CASE i \in 1 .. m /\ z[i] = x[i]
    <3>1. z[i].status = t[z[i].step]
      BY <2>1, <2>3
    <3>2. CASE j \in 1 .. m /\ z[j] = x[j]
      BY <2>1, <2>3, <3>1, <3>2
    <3>3. CASE j - m \in 1 .. n /\ z[j] = y[j - m]
      BY <2>1, <2>3, <3>1, <3>3
    <3>4. QED
      BY <1>2, <3>2, <3>3
  <2>4. CASE i \notin 1 .. m /\ i - m \in 1 .. n /\ z[i] = y[i - m]
    <3>1. z[i].status = t[z[i].step]
      BY <2>1, <2>4
    <3>2. CASE j \in 1 .. m /\ z[j] = x[j]
      BY <2>1, <2>4, <3>1, <3>2
    <3>3. CASE j - m \in 1 .. n /\ z[j] = y[j - m]
      <4>1. z[i].step = z[j].step => i - m = j - m
        BY <2>1, <2>4, <3>3
      <4>2. QED
        BY <2>2, <3>1, <4>1
    <3>4. QED
      BY <1>2, <3>2, <3>3
  <2>5. QED
    BY <1>2, <2>3, <2>4
<1>6. QED
  BY <1>1, <1>4, <1>5 DEF z

\* The first n results.
LEMMA Shortened ==
  ASSUME NEW x \in Results, NEW n \in 0 .. Len(x)
  PROVE  /\ SubSeq(x, 1, n) \in Results /\ Len(SubSeq(x, 1, n)) = n
         /\ StepsIn(SubSeq(x, 1, n)) \subseteq StepsIn(x)
         /\ \A t : FaithfulTo(t, x) => FaithfulTo(t, SubSeq(x, 1, n))
<1> DEFINE z == SubSeq(x, 1, n)
<1>1. Len(x) \in Nat /\ n \in Nat /\ n <= Len(x)
  BY ResultFacts
<1>2. z \in Results /\ Len(z) = n /\ \A i \in 1 .. n : z[i] = x[i] /\ i \in 1 .. Len(x)
  <2>1. \A i \in 1 .. n : i \in 1 .. Len(x) /\ x[i] \in [step : Steps, status : Returned]
    <3>1. \A i \in 1 .. n : i \in 1 .. Len(x)
      BY <1>1
    <3>2. QED
      BY <3>1, ElementOfSeq DEF Results
  <2>2. /\ z \in Results /\ Len(z) = IF 1 <= n THEN n - 1 + 1 ELSE 0
        /\ \A i \in 1 .. n - 1 + 1 : z[i] = x[1 + i - 1]
    BY <1>1, <2>1, SubSeqProperties DEF Results
  <2> HIDE DEF z
  <2>3. QED
    BY <1>1, <2>1, <2>2
<1> HIDE DEF z
<1>3. StepsIn(z) \subseteq StepsIn(x) /\ \A t : FaithfulTo(t, x) => FaithfulTo(t, z)
  BY <1>2 DEF StepsIn, FaithfulTo
<1>4. QED
  BY <1>2, <1>3 DEF z

-----------------------------------------------------------------------------
(***************************************************************************)
(* The batch that is awaited.                                              *)
(***************************************************************************)

LEMMA BatchFacts ==
  ASSUME Types, pc = "waiting", NEW arm \in Arms, NEW k \in 1 .. Len(arm), InBatch(arm, k)
  PROVE  /\ at \in Elements /\ arm \in ArmsOf(at) /\ Len(arm) \in Nat
         /\ Batch = arm[k] /\ Members = Range(arm[k].steps)
         /\ Batch.mode \in Modes /\ Batch.steps \in Seq(Steps) /\ Len(Batch.steps) \in Nat
         /\ Len(left) = 1 => k = Len(arm)
         /\ Len(left) # 1 => /\ k + 1 \in 1 .. Len(arm) /\ left[2] = arm[k + 1]
                             /\ Len(Tail(left)) = Len(arm) - (k + 1) + 1
                             /\ \A j \in 1 .. Len(Tail(left)) : Tail(left)[j] = arm[(k + 1) - 1 + j]
<1>1. at \in Elements /\ arm \in ArmsOf(at) /\ TypeOK
  BY DEF Types, InElement, Arms, ArmsOf
<1>2. /\ left \in Seq(Batches) /\ left # <<>> /\ Len(arm) \in Nat
      /\ Len(left) = Len(arm) - k + 1 /\ \A j \in 1 .. Len(left) : left[j] = arm[k - 1 + j]
  BY <1>1, ArmFacts DEF TypeOK, InBatch, IsSuffix
<1>3. /\ Len(left) \in Nat \ {0} /\ Head(left) = left[1]
      /\ Tail(left) \in Seq(Batches) /\ Len(Tail(left)) = Len(left) - 1
      /\ \A j \in 1 .. Len(Tail(left)) : Tail(left)[j] = left[j + 1]
  BY <1>2, HeadTailProperties, LenProperties, EmptySeq
<1>4. Batch = arm[k]
  <2>1. 1 \in 1 .. Len(left) /\ k - 1 + 1 = k
    BY <1>3
  <2>2. QED
    BY <1>2, <1>3, <2>1 DEF Batch
<1>5. Len(left) = 1 => k = Len(arm)
  <2>1. Len(arm) \in Int /\ k \in Int /\ Len(left) = Len(arm) - k + 1
    BY <1>2
  <2>2. \A a, b \in Int : a - b + 1 = 1 => b = a
    OBVIOUS
  <2>3. QED
    BY <2>1, <2>2
<1>6. ASSUME Len(left) # 1
      PROVE  /\ k + 1 \in 1 .. Len(arm) /\ left[2] = arm[k + 1]
             /\ Len(Tail(left)) = Len(arm) - (k + 1) + 1
             /\ \A j \in 1 .. Len(Tail(left)) : Tail(left)[j] = arm[(k + 1) - 1 + j]
  <2>1. 2 \in 1 .. Len(left) /\ k - 1 + 2 = k + 1 /\ k + 1 \in 1 .. Len(arm)
        /\ Len(left) - 1 = Len(arm) - (k + 1) + 1
    BY <1>2, <1>3, <1>6
  <2>2. left[2] = arm[k + 1]
    BY <1>2, <2>1
  <2>3. ASSUME NEW j \in 1 .. Len(Tail(left))
        PROVE  Tail(left)[j] = arm[(k + 1) - 1 + j]
    <3>1. j + 1 \in 1 .. Len(left) /\ k - 1 + (j + 1) = (k + 1) - 1 + j
      BY <1>3
    <3>2. QED
      BY <1>2, <1>3, <3>1
  <2>4. QED
    BY <1>3, <2>1, <2>2, <2>3
<1>7. arm[k].mode \in Modes /\ arm[k].steps \in Seq(Steps) /\ Len(arm[k].steps) \in Nat
  BY <1>1, ArmFacts
<1>8. QED
  BY <1>1, <1>2, <1>4, <1>5, <1>6, <1>7 DEF Members

\* The members of the batch.
LEMMA MemberFacts ==
  ASSUME Types, pc = "waiting", NEW arm \in Arms, NEW k \in 1 .. Len(arm), InBatch(arm, k)
  PROVE  /\ UpTo(arm, k) = UpTo(arm, k - 1) \cup Members /\ UpTo(arm, k - 1) \cap Members = {}
         /\ UpTo(arm, k) \subseteq ElementSteps(at)
         /\ Members \subseteq Steps /\ Members \subseteq ElementSteps(at) /\ Members # {}
         /\ Members = {Batch.steps[j] : j \in 1 .. Len(Batch.steps)}
         /\ \A i, j \in 1 .. Len(Batch.steps) : Batch.steps[i] = Batch.steps[j] => i = j
         /\ IsFiniteSet(Members) /\ (Batch.mode = "single" => \A s, t \in Members : s = t)
         /\ \A s \in Members : task[s] # "none"
<1>1. /\ at \in Elements /\ arm \in ArmsOf(at) /\ TypeOK
      /\ Batch = arm[k] /\ Members = Range(arm[k].steps)
  BY BatchFacts DEF Types
<1>2. /\ IsInjective(arm[k].steps) /\ DOMAIN arm[k].steps = 1 .. Len(arm[k].steps)
  BY <1>1, ArmFacts
<1>3. \A i, j \in 1 .. Len(Batch.steps) : Batch.steps[i] = Batch.steps[j] => i = j
  BY <1>1, <1>2 DEF IsInjective
<1>4. \A s \in Members : task[s] # "none"
  BY DEF InBatch
<1>5. /\ UpTo(arm, k) = UpTo(arm, k - 1) \cup Members /\ UpTo(arm, k - 1) \cap Members = {}
      /\ UpTo(arm, k) \subseteq ElementSteps(at) /\ Members \subseteq Steps /\ Members # {}
      /\ Members = {Batch.steps[j] : j \in 1 .. Len(Batch.steps)}
      /\ IsFiniteSet(Members) /\ (Batch.mode = "single" => \A s, t \in Members : s = t)
  <2>1. /\ UpTo(arm, k) = UpTo(arm, k - 1) \cup Members /\ UpTo(arm, k - 1) \cap Members = {}
        /\ UpTo(arm, k) \subseteq ElementSteps(at)
    BY <1>1, RangeFacts
  <2>2. Members \subseteq Steps /\ Members # {} /\ IsFiniteSet(Members)
    BY <1>1, RangeFacts
  <2>3. Members = {Batch.steps[j] : j \in 1 .. Len(Batch.steps)}
    <3>1. Range(arm[k].steps) = {arm[k].steps[j] : j \in 1 .. Len(arm[k].steps)}
      BY <1>2 DEF Range
    <3>2. QED
      BY <1>1, <3>1
  <2>4. Batch.mode = "single" => \A s, t \in Members : s = t
    <3>1. arm[k].mode = "single" => Len(arm[k].steps) = 1
      BY <1>1, ArmFacts
    <3>2. Batch.mode = "single" => 1 .. Len(Batch.steps) = {1}
      <4>1. Batch.mode = "single" => Len(Batch.steps) = 1
        BY <1>1, <3>1
      <4>2. 1 .. 1 = {1}
        OBVIOUS
      <4>3. QED
        BY <4>1, <4>2
    <3>3. SUFFICES ASSUME Batch.mode = "single", NEW s \in Members, NEW t \in Members PROVE s = t
      OBVIOUS
    <3>4. PICK i, j \in 1 .. Len(Batch.steps) : s = Batch.steps[i] /\ t = Batch.steps[j]
      BY <2>3
    <3>5. QED
      BY <3>2, <3>3, <3>4
  <2>5. QED
    BY <2>1, <2>2, <2>3, <2>4
<1>6. QED
  BY <1>3, <1>4, <1>5

\* What a batch hands over when it returns: results of members that are new, and of all
\* of them unless one failed.
Covers(results) ==
    /\ results \in Results /\ Faithful(results)
    /\ StepsIn(results) \subseteq Members /\ StepsIn(results) \cap Collected = {}
    /\ FailedIn(results) = {} => Members \subseteq Collected \cup StepsIn(results)

LEMMA SingleCovers ==
  ASSUME Types, Current, pc = "waiting", Batch.mode = "single",
         NEW s \in Members, task[s] \in Returned
  PROVE  Covers(<<Result(s)>>)
<1>1. PICK arm, k : arm \in Arms /\ k \in 1 .. Len(arm) /\ InBatch(arm, k)
  BY DEF Current
<1>2. Members \subseteq Steps /\ \A t \in Members : t = s
  BY <1>1, MemberFacts
<1>3. Members \cap Collected = {}
  BY <1>1 DEF InBatch
<1> DEFINE r == <<Result(s)>>
<1>4. r \in Results /\ Len(r) = 1 /\ r[1].step = s /\ r[1].status = task[s]
  BY <1>2 DEF Results, Result
<1>5. 1 .. Len(r) = {1}
  BY <1>4
<1> HIDE DEF r
<1>6. StepsIn(r) = {s} /\ FaithfulTo(task, r)
  BY <1>4, <1>5 DEF StepsIn, FaithfulTo
<1>7. QED
  BY <1>2, <1>3, <1>4, <1>6 DEF Covers, Faithful, r

LEMMA GatherCovers ==
  ASSUME Types, Current, pc = "waiting", Batch.mode = "all", \A s \in Members : task[s] \in Returned
  PROVE  Covers([i \in 1 .. Len(Batch.steps) |-> Result(Batch.steps[i])])
<1>1. PICK arm, k : arm \in Arms /\ k \in 1 .. Len(arm) /\ InBatch(arm, k)
  BY DEF Current
<1> DEFINE n == Len(Batch.steps)
           r == [i \in 1 .. n |-> Result(Batch.steps[i])]
<1>2. /\ Members \subseteq Steps /\ Members = {Batch.steps[i] : i \in 1 .. n}
      /\ \A i, j \in 1 .. n : Batch.steps[i] = Batch.steps[j] => i = j
  BY <1>1, MemberFacts
<1>3. n \in Nat
  BY <1>1, BatchFacts
<1>4. Members \cap Collected = {}
  BY <1>1 DEF InBatch
<1> HIDE DEF n
<1>5. \A i \in 1 .. n : r[i] \in [step : Steps, status : Returned]
  BY <1>2 DEF Result
<1>6. r \in Results /\ Len(r) = n
  BY <1>3, <1>5 DEF Results
<1>7. \A i \in 1 .. n : r[i].step = Batch.steps[i] /\ r[i].status = task[Batch.steps[i]]
  BY DEF Result
<1> HIDE DEF r
<1>8. StepsIn(r) = Members /\ FaithfulTo(task, r)
  BY <1>2, <1>6, <1>7 DEF StepsIn, FaithfulTo
<1>9. QED
  BY <1>4, <1>6, <1>8 DEF Covers, Faithful, r, n

\* What wait() returned, looked at in some order up to the first failure (WaitReturns).
Finished == {s \in Members \ Collected : task[s] \in Ended}
FailuresIn(order) == {i \in 1 .. Len(order) : task[order[i]] \in {"failed", "raised"}}
LookedAt(order) ==
    IF FailuresIn(order) = {} THEN Len(order)
    ELSE CHOOSE i \in FailuresIn(order) : \A j \in FailuresIn(order) : i <= j
Seen(order) == [i \in 1 .. LookedAt(order) |-> Result(order[i])]
NotSeen == Members \ (Collected \cup Finished)

LEMMA SeenFacts ==
  ASSUME Types, Tasks, Current, pc = "waiting", Batch.mode = "failfast",
         NEW order \in Orders(Finished)
  PROVE  /\ FailuresIn(order) # {} => LookedAt(order) \in FailuresIn(order)
         /\ FailuresIn(order) # {} /\ task[order[LookedAt(order)]] = "raised" =>
                \E t \in Steps : task[t] = "raised"
         /\ ~(FailuresIn(order) # {} /\ task[order[LookedAt(order)]] = "raised") =>
                /\ Seen(order) \in Results /\ Faithful(Seen(order))
                /\ StepsIn(Seen(order)) \subseteq Finished
                /\ FailuresIn(order) = {} => FailedIn(Seen(order)) = {}
                /\ FailuresIn(order) = {} => StepsIn(Seen(order)) = Finished
                /\ FailuresIn(order) # {} => FailedIn(Seen(order)) # {}
<1> DEFINE n == LookedAt(order)
           r == Seen(order)
           stop == FailuresIn(order)
<1>1. PICK arm, k : arm \in Arms /\ k \in 1 .. Len(arm) /\ InBatch(arm, k)
  BY DEF Current
<1>2. /\ Members \subseteq Steps /\ IsFiniteSet(Members) /\ Members \cap asked = {}
  BY <1>1, MemberFacts DEF InBatch
<1>3. /\ Finished \subseteq Members /\ Finished \subseteq Steps
      /\ \A s \in Finished : task[s] \in Returned \cup {"raised"}
  BY <1>2 DEF Finished, Tasks, Ended
<1>4. IsFiniteSet(Finished) /\ Cardinality(Finished) \in Nat
  BY <1>2, <1>3, FS_Subset, FS_CardinalityType
<1>5. /\ order \in [1 .. Cardinality(Finished) -> Finished]
      /\ \A i, j \in 1 .. Cardinality(Finished) : order[i] = order[j] => i = j
      /\ \A s \in Finished : \E i \in 1 .. Cardinality(Finished) : order[i] = s
  BY DEF Orders, Bijection, Injection, Surjection, IsInjective
<1>6. Len(order) = Cardinality(Finished)
  BY <1>4, <1>5
<1>7. /\ Len(order) \in Nat /\ \A i \in 1 .. Len(order) : order[i] \in Finished
      /\ \A i, j \in 1 .. Len(order) : order[i] = order[j] => i = j
      /\ \A s \in Finished : \E i \in 1 .. Len(order) : order[i] = s
  BY <1>4, <1>5, <1>6
<1>8. stop # {} => n \in stop /\ \A j \in stop : n <= j
  <2>1. stop # {} => \E i \in stop : \A j \in stop : i <= j
    <3>1. stop \subseteq Nat
      BY <1>7 DEF FailuresIn
    <3> HIDE DEF stop
    <3>2. QED
      BY <3>1, First
  <2>2. QED
    BY <2>1 DEF LookedAt
<1>9. n \in Nat /\ \A i \in 1 .. n : i \in 1 .. Len(order) /\ (i # n => i \notin stop)
  <2>1. CASE stop = {}
    BY <1>7, <2>1 DEF LookedAt
  <2>2. CASE stop # {}
    <3>1. n \in 1 .. Len(order) /\ \A j \in stop : n <= j /\ j \in Nat
      BY <1>8, <2>2 DEF FailuresIn
    <3>2. QED
      BY <1>7, <3>1
  <2>3. QED
    BY <2>1, <2>2
<1>10. stop # {} /\ task[order[n]] = "raised" => \E t \in Steps : task[t] = "raised"
  BY <1>3, <1>7, <1>8 DEF FailuresIn
<1>11. ASSUME ~(stop # {} /\ task[order[n]] = "raised")
       PROVE  /\ r \in Results /\ Faithful(r) /\ StepsIn(r) \subseteq Finished
              /\ stop = {} => FailedIn(r) = {} /\ StepsIn(r) = Finished
              /\ stop # {} => FailedIn(r) # {}
  <2>1. \A i \in 1 .. n : order[i] \in Finished /\ task[order[i]] \in Returned
    <3> SUFFICES ASSUME NEW i \in 1 .. n
                 PROVE  order[i] \in Finished /\ task[order[i]] \in Returned
      OBVIOUS
    <3>1. order[i] \in Finished /\ task[order[i]] \in Returned \cup {"raised"} /\ i \in 1 .. Len(order)
      BY <1>3, <1>7, <1>9
    <3>2. task[order[i]] # "raised"
      <4>1. CASE i \in stop
        BY <1>9, <1>11, <4>1
      <4>2. CASE i \notin stop
        BY <3>1, <4>2 DEF FailuresIn
      <4>3. QED
        BY <4>1, <4>2
    <3>3. QED
      BY <3>1, <3>2
  <2>2. r \in Results /\ Len(r) = n
    <3>1. \A i \in 1 .. n : Result(order[i]) \in [step : Steps, status : Returned]
      BY <1>3, <2>1 DEF Result
    <3>2. r = [i \in 1 .. n |-> Result(order[i])]
      BY DEF Seen
    <3> HIDE DEF n, r
    <3>3. QED
      BY <1>9, <3>1, <3>2 DEF Results
  <2>3. \A i \in 1 .. n : r[i].step = order[i] /\ r[i].status = task[order[i]]
    BY DEF Seen, Result
  <2> HIDE DEF r, n, stop
  <2>4. Faithful(r) /\ StepsIn(r) \subseteq Finished
    BY <1>7, <1>9, <2>1, <2>2, <2>3 DEF Faithful, FaithfulTo, StepsIn
  <2>5. stop = {} => FailedIn(r) = {} /\ StepsIn(r) = Finished
    <3>1. stop = {} => n = Len(order) /\ \A i \in 1 .. Len(order) : task[order[i]] # "failed"
      BY DEF stop, n, LookedAt, FailuresIn
    <3>2. stop = {} => FailedIn(r) = {}
      BY <2>2, <2>3, <3>1 DEF FailedIn
    <3>3. stop = {} => Finished \subseteq StepsIn(r)
      BY <1>7, <2>2, <2>3, <3>1 DEF StepsIn
    <3>4. QED
      BY <2>4, <3>2, <3>3
  <2>6. stop # {} => FailedIn(r) # {}
    <3> SUFFICES ASSUME stop # {} PROVE FailedIn(r) # {}
      OBVIOUS
    <3>1. n \in stop /\ n \in 1 .. Len(order) /\ task[order[n]] = "failed"
      BY <1>8, <1>11 DEF stop, FailuresIn
    <3>2. n \in 1 .. n
      BY <1>9, <3>1
    <3>3. QED
      BY <2>2, <2>3, <3>1, <3>2 DEF FailedIn
  <2>7. QED
    BY <2>2, <2>4, <2>5, <2>6
<1>12. QED
  BY <1>8, <1>10, <1>11

\* WaitReturns in these terms.
LEMMA WaitReturnsCases ==
  ASSUME NEW order, WaitReturns(Finished, order)
  PROVE  \/ /\ FailuresIn(order) # {} /\ task[order[LookedAt(order)]] = "raised"
            /\ Error(steps) /\ UNCHANGED <<task, asked>>
         \/ /\ FailuresIn(order) = {} /\ NotSeen # {} /\ got' = got \o Seen(order)
            /\ UNCHANGED <<workflow, pc, at, left, task, asked, intr, steps, count, saved,
                           status, flags, report, outside>>
         \/ /\ ~(FailuresIn(order) # {} /\ task[order[LookedAt(order)]] = "raised")
            /\ FailuresIn(order) # {} \/ NotSeen = {}
            /\ BatchReturns(Seen(order)) /\ asked' = asked \cup NotSeen /\ UNCHANGED intr
BY Zenon DEF WaitReturns, FailuresIn, LookedAt, Seen, NotSeen

-----------------------------------------------------------------------------
(***************************************************************************)
(* The order of elements and the report.                                   *)
(***************************************************************************)

LEMMA InitOrder == Init => Types /\ Order
<1> SUFFICES ASSUME Init PROVE Types /\ Order
  OBVIOUS
<1>1. TypeOK
  <2>1. workflow \in Pipelines /\ workflow.elements \in Seq([then : Seq(Batches), else : Seq(Batches)])
    BY PipelinesAssumption DEF Init, Workflows
  <2>2. Len(workflow.elements) \in Nat
    BY <2>1, LenProperties
  <2>3. at \in 1 .. Len(workflow.elements) + 1 /\ stopAt \in 0 .. Len(workflow.elements) + 1
    BY <2>2 DEF Init
  <2>4. /\ left \in Seq(Batches) /\ got \in Seq([step : Steps, status : Returned])
        /\ steps \in Seq([step : Steps, status : Returned]) /\ saved \in 0 .. Len(steps)
        /\ cancels \in 0 .. MaxCancels /\ count \in Nat
    BY PipelinesAssumption DEF Init
  <2>5. report.status = "running"
    BY DEF Init
  <2>6. task \in [Steps -> {"none"} \cup Live \cup Ended]
    BY DEF Init
  <2>7. wcancelled \in BOOLEAN /\ pcancelled \in BOOLEAN /\ cutEmit \in BOOLEAN
    BY DEF Init
  <2>8. /\ pc = "start" /\ asked = {} /\ intr = "none" /\ status = "pending" /\ told \in 0 .. 1
        /\ deadline = "off"
    BY DEF Init
  <2>9. QED
    BY <2>1, <2>3, <2>4, <2>5, <2>6, <2>7, <2>8 DEF TypeOK
<1>2. Types
  BY <1>1, NoResults DEF Init, Types, InElement, After
<1>3. \A i \in Elements : ElementSteps(i) \subseteq Steps
  BY <1>1, ElementFacts
<1>4. /\ \A s \in Steps : task[s] = "none"
      /\ asked = {} /\ pc = "start" /\ steps = <<>> /\ report.status = "running"
  BY DEF Init
<1>5. Tasks /\ ElementsInOrder
  BY <1>3, <1>4, WorkflowFacts DEF Tasks, ElementsInOrder, Elements, Live
<1>6. QED
  BY <1>2, <1>4, <1>5, NoResults
     DEF Order, Behind, Current, Reported, HonestReport, Faithful, Loop, InElement

LEMMA ResultTypes ==
  ASSUME Types
  PROVE  got \in Results /\ steps \in Results /\ report.steps \in Results
BY DEF Types, TypeOK, Results

LEMMA SameWorkflow ==
  ASSUME workflow' = workflow
  PROVE  /\ Elements' = Elements /\ (FailFast' <=> FailFast) /\ (IsList' <=> IsList)
         /\ \A i : ElementSteps(i)' = ElementSteps(i) /\ ArmsOf(i)' = ArmsOf(i)
BY DEF Elements, FailFast, IsList, ElementSteps, ArmsOf

\* A batch begins: steps of the current element that had not started.
LEMMA Begun ==
  ASSUME Types, Order, at \in Elements, NEW M, M \subseteq ElementSteps(at),
         \A s \in M : task[s] = "none", NEW x \in Live,
         \A s \in Steps : task'[s] = IF s \in M THEN x ELSE task[s],
         pc \in {"next", "waiting"}, pc' = "waiting",
         UNCHANGED <<workflow, at, asked, steps, report>>
  PROVE  Tasks' /\ Behind' /\ Reported' /\ ElementsInOrder' /\ HonestReport'
<1>0. TypeOK /\ report.status = "running" /\ Tasks
  BY DEF Types, After, Order
<1> USE SameWorkflow
<1>1. /\ TypeOK /\ at \in Nat /\ \A i \in Elements : i \in Nat /\ ElementSteps(i) \subseteq Steps
      /\ \A i \in Elements : i # at => ElementSteps(i) \cap M = {}
  BY <1>0, ElementFacts, WorkflowFacts
<1>2. /\ \A i \in Elements : (Over(i) <=> i < at) /\ (Over(i)' <=> i < at)
      /\ pc \in Loop
  BY DEF Over, Loop, InElement
<1>3. \A s \in Steps : task'[s] = IF s \in M THEN x ELSE task[s]
  OBVIOUS
<1>4. Tasks'
  <2>1. x # "none" /\ x # "cancelled"
    BY DEF Live
  <2>2. /\ \A s \in Steps : s \in asked => task'[s] # "none"
        /\ \A s \in Steps : task'[s] = "cancelled" => s \in asked
    BY <1>0, <1>3, <2>1 DEF Tasks
  <2>3. \A s \in Steps : task'[s] # "none" => \E i \in Elements : s \in ElementSteps(i)
    BY <1>0, <1>3 DEF Tasks
  <2>4. \A i \in Elements : i > at => \A s \in ElementSteps(i) : task'[s] = "none"
    BY <1>0, <1>1, <1>3 DEF Tasks
  <2>5. QED
    BY <2>2, <2>3, <2>4 DEF Tasks
<1>5. \A i \in Elements : i < at => \A s \in ElementSteps(i) : task'[s] = task[s] /\ LeftBehind(s)
  BY <1>1, <1>2, <1>3 DEF Order, Behind
<1>6. \A i \in Elements : i < at => \A s \in ElementSteps(i) : LeftBehind(s)'
  BY <1>5 DEF LeftBehind
<1>11. Behind'
  BY <1>2, <1>6 DEF Behind
<1>7. Reported'
  <2>1. steps \in Results /\ Faithful(steps)
    BY ResultTypes DEF Order, Reported
  <2>2. \A i \in 1 .. Len(steps) : task'[steps[i].step] = task[steps[i].step]
    <3>1. \A i \in 1 .. Len(steps) : /\ steps[i].step \in Steps
                                     /\ task[steps[i].step] \in Returned
      BY <2>1, ResultFacts DEF Faithful, FaithfulTo
    <3>2. QED
      BY <1>3, <3>1 DEF Returned
  <2>3. Faithful(steps)'
    BY <2>1, <2>2 DEF Faithful, FaithfulTo
  <2>4. \A s \in StepsIn(steps) : \E i \in Elements : i < at /\ s \in ElementSteps(i)
    BY <1>2 DEF Order, Reported
  <2>5. FailedIn(steps) = {} => \A i \in Elements : i < at =>
              /\ \E arm \in ArmsOf(i) : ArmSteps(arm) \subseteq StepsIn(steps)
              /\ \A s \in ElementSteps(i) : task'[s] # "none" => s \in StepsIn(steps)
    BY <1>2, <1>5 DEF Order, Reported
  <2>6. FailedIn(steps)' = FailedIn(steps) /\ StepsIn(steps)' = StepsIn(steps)
    BY DEF FailedIn, StepsIn
  <2>7. QED
    BY <1>2, <2>3, <2>4, <2>5, <2>6 DEF Reported
<1>8. ElementsInOrder'
  <2>1. ASSUME NEW j \in Elements, NEW i \in 1 .. j - 1, NEW s \in ElementSteps(i),
               \E u \in ElementSteps(j) : task'[u] # "none"
        PROVE  LeftBehind(s)'
    <3>1. ~(j > at)
      BY <1>4, <2>1 DEF Tasks
    <3>2. i \in Elements /\ i < at
      BY <1>1, <3>1, WorkflowFacts
    <3>3. QED
      BY <1>6, <3>2
  <2>2. \A j \in Elements : \A i \in 1 .. j - 1 :
            (\E u \in ElementSteps(j) : task'[u] # "none") =>
                \A s \in ElementSteps(i) : LeftBehind(s)'
    BY <2>1
  <2>3. QED
    BY <2>2 DEF ElementsInOrder, Elements, LeftBehind
<1>9. HonestReport'
  BY <1>0 DEF HonestReport
<1>12. QED
  BY <1>4, <1>7, <1>8, <1>9, <1>11

\* A task starts its step or ends.
LEMMA TaskMoves ==
  ASSUME Types, Order, NEW s \in Steps, task[s] \in Live,
         NEW x \in {"running"} \cup Ended, x = "cancelled" => s \in asked,
         task' = [task EXCEPT ![s] = x],
         UNCHANGED <<workflow, pc, at, left, got, asked, steps, report>>
  PROVE  Order'
<1> USE SameWorkflow
<1>1. /\ TypeOK /\ task'[s] = x /\ x # "none" /\ task[s] \notin Returned \cup {"none", "cancelled"}
      /\ \A t \in Steps : t # s => task'[t] = task[t]
  BY DEF Types, TypeOK, Live, Returned, Ended
<1>2. \A i \in Elements : ElementSteps(i) \subseteq Steps /\ (Over(i)' <=> Over(i))
  BY <1>1, ElementFacts DEF Over
<1>3. Tasks'
  BY <1>1, <1>2 DEF Order, Tasks
<1>4. \A t \in Steps : LeftBehind(t) => LeftBehind(t)'
  BY <1>1 DEF LeftBehind, Live
<1>5. Behind'
  BY <1>2, <1>4 DEF Order, Behind
<1>6. \A r \in Results : FaithfulTo(task, r) => FaithfulTo(task', r) /\ s \notin StepsIn(r)
  <2> SUFFICES ASSUME NEW r \in Results, FaithfulTo(task, r)
               PROVE  FaithfulTo(task', r) /\ s \notin StepsIn(r)
    OBVIOUS
  <2>1. s \notin StepsIn(r)
    BY <1>1, ResultFacts
  <2>2. \A i \in 1 .. Len(r) : r[i].step \in Steps /\ r[i].step # s
    BY <2>1, ResultFacts
  <2>3. QED
    BY <1>1, <2>1, <2>2 DEF FaithfulTo
<1>7. Current'
  <2>1. pc \in {"waiting", "record"} => Faithful(got)'
    BY <1>6, ResultTypes DEF Order, Current, Faithful
  <2>2. /\ Arms' = Arms /\ Batch' = Batch /\ Members' = Members /\ Collected' = Collected
        /\ FailedIn(got)' = FailedIn(got)
    BY DEF Arms, Batch, Members, Collected, FailedIn
  <2>3. pc = "waiting" => \E arm \in Arms : \E k \in 1 .. Len(arm) : InBatch(arm, k)'
    <3> SUFFICES ASSUME pc = "waiting"
                 PROVE  \E arm \in Arms : \E k \in 1 .. Len(arm) : InBatch(arm, k)'
      OBVIOUS
    <3>1. PICK arm, k : arm \in Arms /\ k \in 1 .. Len(arm) /\ InBatch(arm, k)
      BY DEF Order, Current
    <3>2. at \in Elements /\ Members \subseteq Steps
      BY <3>1, MemberFacts DEF InElement, Types
    <3>3. InBatch(arm, k)'
      BY <1>1, <1>2, <2>2, <3>1, <3>2 DEF InBatch, IsSuffix
    <3>4. QED
      BY <3>1, <3>3
  <2>4. pc = "record" =>
         /\ (Collected \subseteq ElementSteps(at))'
         /\ \A t \in ElementSteps(at) : task'[t] # "none" =>
                \/ t \in Collected
                \/ FailedIn(got) # {} /\ (task'[t] \in Ended \/ t \in asked)
         /\ FailedIn(got) = {} => \E arm \in Arms : ArmSteps(arm) \subseteq Collected
    <3>1. pc = "record" => at \in Elements
      BY DEF InElement, Types
    <3>2. pc = "record" => s \notin Collected
      BY <1>6, ResultTypes DEF Order, Current, Faithful, Collected, StepsIn
    <3>3. task[s] \notin Ended
      BY DEF Live, Ended, Returned
    <3>4. QED
      BY <1>1, <1>2, <2>2, <3>1, <3>2, <3>3 DEF Order, Current
  <2>5. QED
    BY <2>1, <2>2, <2>3, <2>4 DEF Current
<1>8. Reported'
  <2>1. Faithful(steps)'
    BY <1>6, ResultTypes DEF Order, Reported, Faithful
  <2>2. FailedIn(steps)' = FailedIn(steps) /\ StepsIn(steps)' = StepsIn(steps)
    BY DEF FailedIn, StepsIn
  <2>3. QED
    BY <1>1, <1>2, <2>1, <2>2 DEF Order, Reported
<1>9. ElementsInOrder'
  <2>1. ASSUME NEW j \in Elements, NEW i \in 1 .. j - 1, NEW t \in ElementSteps(i),
               \E u \in ElementSteps(j) : task'[u] # "none"
        PROVE  LeftBehind(t)'
    <3>1. i \in Elements
      BY <1>1, WorkflowFacts DEF Elements
    <3>5. t \in Steps
      BY <1>2, <3>1
    <3>2. \E u \in ElementSteps(j) : task[u] # "none"
      BY <1>1, <1>2, <2>1 DEF Live
    <3>3. LeftBehind(t)
      BY <3>2 DEF Order, ElementsInOrder, Elements, LeftBehind
    <3>4. QED
      BY <1>4, <3>3, <3>5
  <2>2. QED
    BY <2>1 DEF ElementsInOrder, Elements, LeftBehind
<1>10. HonestReport'
  <2>1. report.steps \in Results /\ (report.status # "running" => FaithfulTo(task, report.steps))
    BY ResultTypes DEF Order, HonestReport, FaithfulTo
  <2>2. report.status # "running" => FaithfulTo(task', report.steps)
    BY <1>6, <2>1
  <2>3. report.status # "success"
    BY <1>1 DEF Order, HonestReport, Returned
  <2>4. QED
    BY <2>2, <2>3 DEF HonestReport, FaithfulTo
<1>11. QED
  BY <1>3, <1>5, <1>7, <1>8, <1>9, <1>10 DEF Order

\* The loop is left, with a report that is true.
LEMMA Leaves ==
  ASSUME Types, Order, pc' \in After, UNCHANGED <<workflow, at, task, asked>>,
         Faithful(steps)', HonestReport'
  PROVE  Order'
<1> USE SameWorkflow
<1>1. pc' \notin {"start"} \cup Loop
  BY DEF After, Loop, InElement
<1>2. Tasks'
  BY <1>1 DEF Order, Tasks, Loop
<1>3. ElementsInOrder'
  <2>1. \A j \in Elements : \A i \in 1 .. j - 1 :
            (\E u \in ElementSteps(j) : task'[u] # "none") =>
                \A s \in ElementSteps(i) : LeftBehind(s)'
    BY DEF Order, ElementsInOrder, Elements, LeftBehind
  <2>2. QED
    BY <2>1 DEF ElementsInOrder, Elements, LeftBehind
<1>4. Behind' /\ Current' /\ Reported'
  BY <1>1 DEF Behind, Current, Reported, Loop, InElement
<1>5. QED
  BY <1>2, <1>3, <1>4 DEF Order

\* Only a success says more than what its results say.
LEMMA FailureHonest ==
  ASSUME NEW r, Faithful(r)', report' = [status |-> "failed", steps |-> r]
  PROVE  HonestReport'
BY DEF HonestReport, Faithful, FaithfulTo

\* The results of an element are of other steps than the recorded ones.
LEMMA RecordedFacts ==
  ASSUME Types, Order, pc = "record"
  PROVE  /\ Recorded \in Results /\ Faithful(Recorded) /\ StepsIn(Recorded) \subseteq StepsIn(got)
         /\ ~(StopsAtFailure /\ FailedIn(got) # {}) => Recorded = got
         /\ \A r \in Results : Faithful(r) /\ StepsIn(r) \subseteq StepsIn(got) =>
                /\ steps \o r \in Results /\ Faithful(steps \o r)
                /\ Len(steps \o r) = Len(steps) + Len(r)
                /\ StepsIn(steps \o r) = StepsIn(steps) \cup StepsIn(r)
<1>1. got \in Results /\ steps \in Results /\ TypeOK /\ at \in Elements
  BY ResultTypes DEF Types, InElement
<1>2. Faithful(got) /\ Faithful(steps) /\ StepsIn(got) \subseteq ElementSteps(at)
  BY DEF Order, Current, Reported, Collected, StepsIn
<1>3. StepsIn(steps) \cap StepsIn(got) = {}
  <2>1. \A s \in StepsIn(steps) : \E i \in Elements : i # at /\ s \in ElementSteps(i)
    <3>1. \A i \in Elements : Over(i) => i # at
      BY <1>1, WorkflowFacts DEF Over
    <3>2. QED
      BY <3>1 DEF Order, Reported, Loop, InElement
  <2>2. QED
    BY <1>1, <1>2, <2>1, ElementFacts
<1>4. \A r \in Results : Faithful(r) /\ StepsIn(r) \subseteq StepsIn(got) =>
         /\ steps \o r \in Results /\ Faithful(steps \o r)
         /\ Len(steps \o r) = Len(steps) + Len(r)
         /\ StepsIn(steps \o r) = StepsIn(steps) \cup StepsIn(r)
  <2> SUFFICES ASSUME NEW r \in Results, Faithful(r), StepsIn(r) \subseteq StepsIn(got)
               PROVE  /\ steps \o r \in Results /\ Faithful(steps \o r)
                      /\ Len(steps \o r) = Len(steps) + Len(r)
                      /\ StepsIn(steps \o r) = StepsIn(steps) \cup StepsIn(r)
    OBVIOUS
  <2>1. StepsIn(steps) \cap StepsIn(r) = {}
    BY <1>3
  <2>2. QED
    BY <1>1, <1>2, <2>1, Appended DEF Faithful
<1>5. CASE ~(StopsAtFailure /\ FailedIn(got) # {})
  BY <1>1, <1>2, <1>4, <1>5 DEF Recorded
<1>6. CASE StopsAtFailure /\ FailedIn(got) # {}
  <2> DEFINE F == FailedIn(got)
             n == CHOOSE i \in F : \A j \in F : i <= j
  <2>1. F \subseteq 1 .. Len(got) /\ Len(got) \in Nat /\ F # {}
    BY <1>1, <1>6, ResultFacts
  <2>2. F \subseteq Nat
    BY <2>1
  <2> HIDE DEF F
  <2>3. n \in F
    BY <2>1, <2>2, First
  <2>5. Recorded = SubSeq(got, 1, n)
    BY <1>6 DEF Recorded, F
  <2> HIDE DEF n
  <2>4. n \in 0 .. Len(got)
    BY <2>1, <2>3
  <2>6. /\ Recorded \in Results /\ StepsIn(Recorded) \subseteq StepsIn(got)
        /\ FaithfulTo(task, got) => FaithfulTo(task, Recorded)
    BY <1>1, <2>4, <2>5, Shortened
  <2>7. QED
    BY <1>2, <1>4, <1>6, <2>6 DEF Faithful
<1>7. QED
  BY <1>5, <1>6

\* An element is recorded and left behind.
LEMMA ElementDone ==
  ASSUME Types, Order, pc = "record", ~(StopsAtFailure /\ FailedIn(got) # {}),
         steps' = steps \o got,
         (pc' = "checkpoint" /\ at' = at) \/ (pc' = "next" /\ at' = at + 1),
         UNCHANGED <<workflow, task, asked, report>>
  PROVE  Order'
<1> USE SameWorkflow
<1>1. got \in Results /\ steps \in Results /\ TypeOK /\ at \in Elements /\ report.status = "running"
  BY ResultTypes DEF Types, InElement, After
<1>2. at \in Nat /\ at > 0 /\ \A i \in Elements : i \in Nat /\ ElementSteps(i) \subseteq Steps
  BY <1>1, ElementFacts, WorkflowFacts
<1>3. /\ \A i \in Elements : (Over(i) <=> i < at) /\ (Over(i)' <=> i < at \/ i = at)
      /\ pc \in Loop /\ pc' \in Loop /\ pc' # "start" /\ pc' \notin {"waiting", "record"}
  BY <1>2 DEF Over, Loop, InElement
<1>4. Tasks'
  <2>1. \A i \in Elements : i > at => \A s \in ElementSteps(i) : task[s] = "none"
    BY DEF Order, Tasks
  <2>2. \A i \in Elements : i > at' \/ (i = at' /\ pc' \in {"start", "next"}) => i > at
    BY <1>2
  <2>3. QED
    BY <2>1, <2>2 DEF Order, Tasks
<1>5. Faithful(got) /\ StepsIn(got) = Collected /\ Collected \subseteq ElementSteps(at)
  BY DEF Order, Current, Collected, StepsIn
<1>6. \A s \in ElementSteps(at) : LeftBehind(s)
  <2> SUFFICES ASSUME NEW s \in ElementSteps(at), task[s] # "none" PROVE LeftBehind(s)
    BY DEF LeftBehind, Live
  <2>1. CASE s \in Collected
    <3>1. task[s] \in Returned /\ (FailedIn(got) = {} => task[s] \in {"success", "skipped"})
      BY <1>1, <1>5, <2>1, ResultFacts DEF Faithful
    <3>2. QED
      BY <3>1 DEF LeftBehind, Live, Returned, StopsAtFailure, FailFast, IsList
  <2>2. CASE FailedIn(got) # {} /\ (task[s] \in Ended \/ s \in asked)
    BY <2>2 DEF LeftBehind, Live, Ended, Returned, StopsAtFailure, FailFast, IsList
  <2>3. QED
    BY <2>1, <2>2 DEF Order, Current
<1>7. Behind'
  <2>1. \A i \in Elements : Over(i)' => \A s \in ElementSteps(i) : LeftBehind(s)'
    BY <1>3, <1>6 DEF Order, Behind, LeftBehind
  <2>2. QED
    BY <2>1 DEF Behind
<1>8. Reported'
  <2>1. /\ steps' \in Results /\ Faithful(steps)' /\ StepsIn(steps)' = StepsIn(steps) \cup StepsIn(got)
    BY <1>1, <1>5, RecordedFacts DEF Faithful, StepsIn
  <2>2. (FailedIn(steps)' = {}) <=> (FailedIn(steps) = {} /\ FailedIn(got) = {})
    <3>1. FailedIn(steps \o got) = {} <=> FailedIn(steps) = {} /\ FailedIn(got) = {}
      BY <1>1, Appended
    <3>2. FailedIn(steps)' = FailedIn(steps \o got)
      BY DEF FailedIn
    <3>3. QED
      BY <3>1, <3>2
  <2>3. \A s \in StepsIn(steps)' : \E i \in Elements : Over(i)' /\ s \in ElementSteps(i)
    <3>1. \A s \in StepsIn(steps) : \E i \in Elements : Over(i)' /\ s \in ElementSteps(i)
      BY <1>3 DEF Order, Reported
    <3>2. \A s \in StepsIn(got) : \E i \in Elements : Over(i)' /\ s \in ElementSteps(i)
      <4>1. \A i \in Elements : i = at => Over(i)' /\ \A s \in StepsIn(got) : s \in ElementSteps(i)
        BY <1>3, <1>5
      <4>2. QED
        BY <1>1, <4>1
    <3>3. QED
      BY <2>1, <3>1, <3>2
  <2>4. ASSUME FailedIn(steps) = {}, FailedIn(got) = {}, NEW i \in Elements, Over(i)'
        PROVE  /\ \E arm \in ArmsOf(i) : ArmSteps(arm) \subseteq StepsIn(steps)'
               /\ \A s \in ElementSteps(i) : task[s] # "none" => s \in StepsIn(steps)'
    <3>1. CASE i < at
      BY <1>3, <2>1, <2>4, <3>1 DEF Order, Reported
    <3>2. CASE i = at
      <4>1. \E arm \in ArmsOf(at) : ArmSteps(arm) \subseteq Collected
        BY <2>4 DEF Order, Current, Arms, ArmsOf
      <4>2. \A s \in ElementSteps(at) : task[s] # "none" => s \in Collected
        BY <2>4 DEF Order, Current
      <4>3. QED
        BY <1>5, <2>1, <3>2, <4>1, <4>2
    <3>3. QED
      BY <1>3, <2>4, <3>1, <3>2
  <2>5. QED
    BY <2>1, <2>2, <2>3, <2>4 DEF Reported
<1>9. ElementsInOrder'
  <2>1. \A j \in Elements : \A i \in 1 .. j - 1 :
            (\E u \in ElementSteps(j) : task'[u] # "none") =>
                \A s \in ElementSteps(i) : LeftBehind(s)'
    BY DEF Order, ElementsInOrder, Elements, LeftBehind
  <2>2. QED
    BY <2>1 DEF ElementsInOrder, Elements, LeftBehind
<1>10. Current' /\ HonestReport'
  BY <1>1, <1>3 DEF Current, HonestReport
<1>11. QED
  BY <1>4, <1>7, <1>8, <1>9, <1>10 DEF Order

\* The loop stays in its element, and may have cancelled what it started.
LEMMA Stays ==
  ASSUME Types, Order, pc \in {"next", "waiting"}, pc' \in {"waiting", "record"},
         UNCHANGED <<workflow, at, task, steps, report>>, asked \subseteq asked',
         \A s \in Steps : s \in asked' => task[s] # "none"
  PROVE  Tasks' /\ Behind' /\ Reported' /\ ElementsInOrder' /\ HonestReport'
<1> USE SameWorkflow
<1>1. TypeOK /\ report.status = "running" /\ Tasks /\ Behind /\ Reported /\ ElementsInOrder
  BY DEF Types, After, Order
<1>2. /\ \A i \in Elements : Over(i)' <=> Over(i)
      /\ pc \in Loop /\ pc' \in Loop /\ pc' \notin {"start", "next"}
  BY DEF Over, Loop, InElement
<1>3. \A i \in Elements : ElementSteps(i) \subseteq Steps
  BY <1>1, ElementFacts
<1>4. Tasks'
  <2>1. \A s \in Steps : s \in asked' => task'[s] # "none"
    OBVIOUS
  <2>2. \A s \in Steps : task'[s] = "cancelled" => s \in asked'
    BY <1>1 DEF Tasks
  <2>3. \A s \in Steps : task'[s] # "none" => \E i \in Elements : s \in ElementSteps(i)
    BY <1>1 DEF Tasks
  <2>4. \A i \in Elements : i > at => \A s \in ElementSteps(i) : task'[s] = "none"
    BY <1>1 DEF Tasks
  <2>5. QED
    BY <1>2, <2>1, <2>2, <2>3, <2>4 DEF Tasks
<1>5. \A s \in Steps : LeftBehind(s) => LeftBehind(s)'
  BY DEF LeftBehind
<1>6. Behind'
  BY <1>1, <1>2, <1>3, <1>5 DEF Behind
<1>7. Reported'
  <2>1. FailedIn(steps)' = FailedIn(steps) /\ StepsIn(steps)' = StepsIn(steps)
    BY DEF FailedIn, StepsIn
  <2>2. Faithful(steps)'
    BY <1>1 DEF Reported, Faithful, FaithfulTo
  <2>3. QED
    BY <1>1, <1>2, <2>1, <2>2 DEF Reported
<1>8. ElementsInOrder'
  <2>1. ASSUME NEW j \in Elements, NEW i \in 1 .. j - 1, NEW t \in ElementSteps(i),
               \E u \in ElementSteps(j) : task'[u] # "none"
        PROVE  LeftBehind(t)'
    <3>1. i \in Elements
      BY <1>1, WorkflowFacts DEF Elements
    <3>2. LeftBehind(t)
      BY <1>1, <2>1 DEF ElementsInOrder, Elements, LeftBehind
    <3>3. QED
      BY <1>3, <1>5, <3>1, <3>2
  <2>2. QED
    BY <2>1 DEF ElementsInOrder, Elements, LeftBehind
<1>9. HonestReport'
  BY <1>1 DEF HonestReport
<1>10. QED
  BY <1>4, <1>6, <1>7, <1>8, <1>9

\* A batch of the element begins, its earlier ones being collected.
LEMMA BatchBegins ==
  ASSUME Types, Order, at \in Elements, NEW arm \in Arms, NEW k \in 1 .. Len(arm),
         \A s \in ElementSteps(at) : task[s] # "none" => s \in UpTo(arm, k - 1),
         pc \in {"next", "waiting"}, pc' = "waiting", Begin(arm[k]),
         UNCHANGED <<workflow, at, asked, steps, report>>,
         left' \in Seq(Batches), left' # <<>>, IsSuffix(arm, k)',
         got' \in Results, FaithfulTo(task, got'), StepsIn(got') = UpTo(arm, k - 1),
         FailedIn(got') = {}
  PROVE  Order'
<1> USE SameWorkflow
<1> DEFINE M == Range(arm[k].steps)
           x == IF arm[k].mode = "single" THEN "running" ELSE "queued"
<1>1. TypeOK /\ Tasks /\ arm \in ArmsOf(at) /\ Len(arm) \in Nat
  <2>1. TypeOK /\ Tasks /\ arm \in ArmsOf(at)
    BY DEF Types, Order, Arms, ArmsOf
  <2>2. QED
    BY <2>1, ArmFacts
<1>2. /\ UpTo(arm, k) = UpTo(arm, k - 1) \cup M /\ UpTo(arm, k - 1) \cap M = {}
      /\ UpTo(arm, k) \subseteq ElementSteps(at) /\ UpTo(arm, k) \subseteq Steps
  BY <1>1, RangeFacts
<1>3. ElementSteps(at) \subseteq Steps
  BY <1>1, ElementFacts
<1>4. x \in Live /\ x # "none" /\ \A s \in Steps : task'[s] = IF s \in M THEN x ELSE task[s]
  BY DEF Begin, Live
<1>5. \A s \in M : s \in Steps /\ s \in ElementSteps(at) /\ task[s] = "none"
  BY <1>2
<1>6. Batch' = arm[k] /\ Members' = M
  <2>1. Len(left') \in Nat \ {0} /\ Head(left') = left'[1]
    BY HeadTailProperties, LenProperties, EmptySeq
  <2>2. left'[1] = arm[k - 1 + 1] /\ k - 1 + 1 = k
    BY <2>1 DEF IsSuffix
  <2>3. QED
    BY <2>1, <2>2 DEF Batch, Members
<1> HIDE DEF M, x
<1>7. Tasks' /\ Behind' /\ Reported' /\ ElementsInOrder' /\ HonestReport'
  BY <1>4, <1>5, Begun
<1>8. Collected' = UpTo(arm, k - 1)
  BY DEF Collected, StepsIn
<1>9. Faithful(got)'
  <2>1. \A i \in 1 .. Len(got') : /\ got'[i].step \in Steps
                                  /\ task'[got'[i].step] = task[got'[i].step]
    BY <1>2, <1>4, ResultFacts
  <2>2. FaithfulTo(task', got')
    BY <2>1 DEF FaithfulTo
  <2>3. QED
    BY <2>2 DEF Faithful
<1>10. InBatch(arm, k)'
  <2>1. \A s \in ElementSteps(at) : task'[s] # "none" => s \in UpTo(arm, k)
    BY <1>2, <1>3, <1>4
  <2>2. \A s \in Members' : task'[s] # "none"
    BY <1>4, <1>5, <1>6
  <2>3. UpTo(arm, k - 1) \subseteq Collected' /\ Collected' \subseteq UpTo(arm, k)
    BY <1>2, <1>8
  <2>4. FailedIn(got)' = {}
    BY DEF FailedIn
  <2>5. Members' \cap asked' = {} /\ Members' \cap Collected' = {}
    BY <1>1, <1>2, <1>5, <1>6, <1>8 DEF Tasks
  <2>6. QED
    BY <2>1, <2>2, <2>3, <2>4, <2>5 DEF InBatch
<1>11. Current'
  <2>1. arm \in Arms'
    BY DEF Arms
  <2>2. QED
    BY <1>9, <1>10, <2>1 DEF Current
<1>12. QED
  BY <1>7, <1>11 DEF Order

\* The results of the batch that is awaited are in.
LEMMA BatchReturned ==
  ASSUME Types, Order, pc = "waiting", NEW results, Covers(results), BatchReturns(results),
         asked \subseteq asked', FailedIn(results) = {} => asked' = asked,
         \A s \in Steps : s \in asked' => task[s] # "none",
         \A s \in Members : \/ s \in Collected \cup StepsIn(results)
                            \/ task[s] \in Ended \/ s \in asked'
  PROVE  Order'
<1> USE SameWorkflow
<1>1. PICK arm, k : arm \in Arms /\ k \in 1 .. Len(arm) /\ InBatch(arm, k)
  BY DEF Order, Current
<1>2. /\ TypeOK /\ Current /\ at \in Elements /\ arm \in ArmsOf(at) /\ Len(arm) \in Nat
      /\ Len(left) = 1 => k = Len(arm)
  BY <1>1, BatchFacts DEF Types, Order
<1>3. /\ UpTo(arm, k) = UpTo(arm, k - 1) \cup Members /\ UpTo(arm, k) \subseteq ElementSteps(at)
      /\ Members \subseteq Steps
  BY <1>1, MemberFacts
<1>4. /\ \A s \in ElementSteps(at) : task[s] # "none" => s \in UpTo(arm, k)
      /\ UpTo(arm, k - 1) \subseteq Collected /\ Collected \subseteq UpTo(arm, k)
      /\ FailedIn(got) = {}
  BY <1>1 DEF InBatch
<1>5. /\ results \in Results /\ Faithful(results) /\ StepsIn(results) \subseteq Members
      /\ StepsIn(results) \cap Collected = {}
      /\ FailedIn(results) = {} => Members \subseteq Collected \cup StepsIn(results)
  BY DEF Covers
<1>6. got \in Results /\ Faithful(got) /\ StepsIn(got) = Collected
  BY ResultTypes, <1>2 DEF Current, StepsIn, Collected
<1>7. /\ got' = got \o results /\ UNCHANGED <<workflow, at, steps, report>>
  BY DEF BatchReturns
<1>8. /\ got' \in Results /\ StepsIn(got') = Collected \cup StepsIn(results)
      /\ FailedIn(got') = {} <=> FailedIn(results) = {}
      /\ FaithfulTo(task, got')
  <2>1. StepsIn(got) \cap StepsIn(results) = {}
    BY <1>5, <1>6
  <2>2. /\ got \o results \in Results
        /\ StepsIn(got \o results) = StepsIn(got) \cup StepsIn(results)
        /\ FailedIn(got \o results) = {} <=> FailedIn(got) = {} /\ FailedIn(results) = {}
        /\ FaithfulTo(task, got \o results)
    BY <1>5, <1>6, <2>1, Appended DEF Faithful
  <2>3. QED
    BY <1>4, <1>6, <1>7, <2>2
<1>9. Collected' = Collected \cup StepsIn(results) /\ FailedIn(got)' = FailedIn(got')
  BY <1>8 DEF Collected, StepsIn, FailedIn
<1>10. CASE Len(left) = 1 \/ FailedIn(results) # {}
  <2>1. pc' = "record" /\ task' = task
    BY <1>10 DEF BatchReturns
  <2>2. Tasks' /\ Behind' /\ Reported' /\ ElementsInOrder' /\ HonestReport'
    BY <1>7, <2>1, Stays
  <2>3. Faithful(got)'
    BY <1>8, <2>1 DEF Faithful
  <2>4. Collected' \subseteq ElementSteps(at)
    BY <1>3, <1>4, <1>5, <1>9
  <2>5. ASSUME NEW s \in ElementSteps(at), task[s] # "none"
        PROVE  s \in Collected' \/ (FailedIn(got') # {} /\ (task[s] \in Ended \/ s \in asked'))
    <3>1. s \in UpTo(arm, k - 1) \/ s \in Members
      BY <1>3, <1>4, <2>5
    <3>2. CASE s \in UpTo(arm, k - 1)
      BY <1>4, <1>9, <3>2
    <3>3. CASE s \in Members
      BY <1>5, <1>8, <1>9, <3>3
    <3>4. QED
      BY <3>1, <3>2, <3>3
  <2>6. ASSUME FailedIn(got') = {}
        PROVE  ArmSteps(arm) \subseteq Collected'
    <3>1. k = Len(arm) /\ FailedIn(results) = {}
      BY <1>2, <1>8, <1>10, <2>6
    <3>2. ArmSteps(arm) = UpTo(arm, k)
      BY <1>1, <1>2, <3>1, RangeFacts
    <3>3. QED
      BY <1>3, <1>4, <1>5, <1>9, <3>1, <3>2
  <2>7. arm \in Arms'
    BY <1>1, <1>7 DEF Arms
  <2>8. Current'
    BY <1>7, <1>9, <2>1, <2>3, <2>4, <2>5, <2>6, <2>7 DEF Current
  <2>9. QED
    BY <2>2, <2>8 DEF Order
<1>11. CASE Len(left) # 1 /\ FailedIn(results) = {}
  <2>1. pc' = "waiting" /\ left' = Tail(left) /\ Begin(left[2]) /\ asked' = asked
    BY <1>11 DEF BatchReturns
  <2>2. /\ k + 1 \in 1 .. Len(arm) /\ left[2] = arm[k + 1]
        /\ Len(Tail(left)) = Len(arm) - (k + 1) + 1
        /\ \A j \in 1 .. Len(Tail(left)) : Tail(left)[j] = arm[(k + 1) - 1 + j]
    BY <1>1, <1>11, BatchFacts
  <2>3. (k + 1) - 1 = k /\ k \in Nat
    BY <1>1, <1>2
  <2>4. StepsIn(got') = UpTo(arm, (k + 1) - 1)
    BY <1>3, <1>4, <1>5, <1>8, <1>11, <2>3
  <2>5. left' \in Seq(Batches) /\ left' # <<>> /\ IsSuffix(arm, k + 1)'
    <3>1. left' \in Seq(Batches)
      BY <1>2, <2>1, HeadTailProperties DEF TypeOK
    <3>2. Len(left') > 0
      BY <1>2, <2>1, <2>2
    <3>3. IsSuffix(arm, k + 1)'
      BY <2>1, <2>2 DEF IsSuffix
    <3>4. QED
      BY <3>1, <3>2, <3>3, EmptySeq
  <2>6. \A s \in ElementSteps(at) : task[s] # "none" => s \in UpTo(arm, (k + 1) - 1)
    BY <1>4, <2>3
  <2>7. Begin(arm[k + 1])
    BY <2>1, <2>2
  <2>8. QED
    BY <1>1, <1>2, <1>7, <1>8, <1>11, <2>1, <2>2, <2>4, <2>5, <2>6, <2>7, BatchBegins
<1>12. QED
  BY <1>10, <1>11

\* wait() returned some of the tasks, and none of them failed.
LEMMA BatchGoesOn ==
  ASSUME Types, Order, pc = "waiting", Batch.mode = "failfast", NEW order \in Orders(Finished),
         FailuresIn(order) = {}, got' = got \o Seen(order),
         UNCHANGED <<workflow, pc, at, left, task, asked, steps, report>>
  PROVE  Order'
<1> USE SameWorkflow
<1>1. PICK arm, k : arm \in Arms /\ k \in 1 .. Len(arm) /\ InBatch(arm, k)
  BY DEF Order, Current
<1>2. Tasks /\ Current
  BY DEF Order
<1>3. /\ Seen(order) \in Results /\ Faithful(Seen(order)) /\ StepsIn(Seen(order)) = Finished
      /\ FailedIn(Seen(order)) = {}
  BY <1>2, SeenFacts
<1>4. got \in Results /\ Faithful(got) /\ StepsIn(got) = Collected /\ Finished \cap Collected = {}
  BY ResultTypes, <1>2 DEF Current, StepsIn, Collected, Finished
<1>5. /\ FaithfulTo(task, got') /\ StepsIn(got') = Collected \cup Finished
      /\ FailedIn(got') = {}
  <2>1. FailedIn(got) = {}
    BY <1>1 DEF InBatch
  <2>2. QED
    BY <1>3, <1>4, <2>1, Appended DEF Faithful
<1>6. Collected' = Collected \cup Finished
  BY <1>5 DEF Collected, StepsIn
<1>7. Members' = Members /\ Batch' = Batch
  BY DEF Members, Batch
<1>8. InBatch(arm, k)'
  <2>1. Finished \subseteq Members /\ Members \subseteq UpTo(arm, k)
    BY <1>1, MemberFacts DEF Finished
  <2>2. /\ UpTo(arm, k - 1) \subseteq Collected' /\ Collected' \subseteq UpTo(arm, k)
    BY <1>1, <1>6, <2>1 DEF InBatch
  <2>3. IsSuffix(arm, k)'
    BY <1>1 DEF InBatch, IsSuffix
  <2>4. FailedIn(got)' = {}
    BY <1>5 DEF FailedIn
  <2>5. QED
    BY <1>1, <1>7, <2>2, <2>3, <2>4 DEF InBatch
<1>9. Current'
  <2>1. arm \in Arms'
    BY <1>1 DEF Arms
  <2>2. QED
    BY <1>1, <1>5, <1>8, <2>1 DEF Current, Faithful
<1>10. \A s \in Steps : s \in asked' => task[s] # "none"
  BY <1>2 DEF Tasks
<1>11. Tasks' /\ Behind' /\ Reported' /\ ElementsInOrder' /\ HonestReport'
  BY <1>10, Stays
<1>12. QED
  BY <1>9, <1>11 DEF Order

\* A cancel of execute() is passed on to the members of the batch.
LEMMA MembersAsked ==
  ASSUME Types, Order, pc = "waiting", Batch.mode # "failfast",
         asked' = asked \cup {s \in Members : task[s] \in Live},
         UNCHANGED <<workflow, pc, loopVars, task, steps, report>>
  PROVE  Order'
<1> USE SameWorkflow
<1>1. PICK arm, k : arm \in Arms /\ k \in 1 .. Len(arm) /\ InBatch(arm, k)
  BY DEF Order, Current
<1>2. UNCHANGED <<at, left, got>>
  BY DEF loopVars
<1>3. Tasks /\ Current
  BY DEF Order
<1>4. \A s \in Steps : s \in asked' => task[s] # "none"
  BY <1>3 DEF Tasks, Live
<1>5. Tasks' /\ Behind' /\ Reported' /\ ElementsInOrder' /\ HonestReport'
  BY <1>2, <1>4, Stays
<1>6. Members' = Members /\ Batch' = Batch /\ Collected' = Collected
  BY <1>2 DEF Members, Batch, Collected
<1>7. InBatch(arm, k)'
  <2>1. IsSuffix(arm, k)' /\ FailedIn(got)' = {}
    BY <1>1, <1>2 DEF InBatch, IsSuffix, FailedIn
  <2>2. QED
    BY <1>1, <1>2, <1>6, <2>1 DEF InBatch
<1>8. Current'
  <2>1. arm \in Arms' /\ Faithful(got)'
    BY <1>1, <1>2, <1>3 DEF Arms, Current, Faithful, FaithfulTo
  <2>2. QED
    BY <1>1, <1>7, <2>1 DEF Current
<1>9. QED
  BY <1>5, <1>8 DEF Order

LEMMA ErrorOrder ==
  ASSUME Types, Order, NEW r, Faithful(r), pc' \in After, steps' = r,
         report' = [status |-> "failed", steps |-> r], UNCHANGED <<workflow, at, task, asked>>
  PROVE  Order'
<1>1. Faithful(r)' /\ Faithful(steps)'
  BY DEF Faithful, FaithfulTo
<1>2. HonestReport'
  <2>1. r' = r
    OBVIOUS
  <2>2. QED
    BY <1>1, FailureHonest
<1>3. QED
  BY <1>1, <1>2, Leaves

LEMMA UnwindOrder ==
  ASSUME Types, Order, NEW why, Unwind(why), UNCHANGED <<task, asked>>
  PROVE  Order'
<1>1. /\ UNCHANGED <<workflow, at, steps>> /\ pc' \in After
  BY DEF Unwind, loopVars, After
<1>2. Faithful(steps)'
  BY <1>1 DEF Order, Reported, Faithful, FaithfulTo
<1>3. HonestReport'
  <2>1. CASE IsList
    <3>1. report' = [status |-> "failed", steps |-> steps]
      BY <2>1 DEF Unwind
    <3>2. QED
      BY <1>1, <1>2, <3>1 DEF HonestReport, Faithful, FaithfulTo
  <2>2. CASE ~IsList
    <3>1. report' = [status |-> "failed", steps |-> <<>>]
      BY <2>2 DEF Unwind
    <3>2. FaithfulTo(task', <<>>)
      BY NoResults
    <3>3. QED
      BY <3>1, <3>2 DEF HonestReport, FaithfulTo
  <2>3. QED
    BY <2>1, <2>2
<1>4. QED
  BY <1>1, <1>2, <1>3, Leaves

LEMMA StartedOrder ==
  ASSUME Types, Order, Started
  PROVE  Order'
<1> USE SameWorkflow
<1>1. /\ pc = "start" /\ pc' = "next" /\ UNCHANGED <<workflow, at, task, asked, steps, report>>
      /\ at = 1 /\ steps = <<>> /\ report.status = "running" /\ TypeOK
  BY DEF Started, loopVars, Types, After
<1>2. \A i \in Elements : ~Over(i)'
  BY <1>1, WorkflowFacts DEF Over
<1>3. Tasks'
  BY <1>1 DEF Order, Tasks
<1>4. Behind' /\ Current'
  BY <1>1, <1>2 DEF Behind, Current
<1>5. Reported'
  BY <1>1, <1>2, NoResults DEF Reported, Faithful
<1>6. ElementsInOrder'
  <2>1. \A j \in Elements : \A i \in 1 .. j - 1 :
            (\E u \in ElementSteps(j) : task'[u] # "none") =>
                \A s \in ElementSteps(i) : LeftBehind(s)'
    BY <1>1 DEF Order, ElementsInOrder, Elements, LeftBehind
  <2>2. QED
    BY <1>1, <2>1 DEF ElementsInOrder, Elements, LeftBehind
<1>7. HonestReport'
  BY <1>1 DEF HonestReport
<1>8. QED
  BY <1>3, <1>4, <1>5, <1>6, <1>7 DEF Order

LEMMA CheckpointOrder ==
  ASSUME Types, Order, CheckpointSaved
  PROVE  Order'
<1> USE SameWorkflow
<1>1. /\ pc = "checkpoint" /\ pc' = "next" /\ at' = at + 1 /\ TypeOK /\ at \in Nat
      /\ UNCHANGED <<workflow, task, asked, steps, report>> /\ report.status = "running"
  <2>1. /\ pc = "checkpoint" /\ pc' = "next" /\ at' = at + 1 /\ TypeOK
        /\ UNCHANGED <<workflow, task, asked, steps, report>> /\ report.status = "running"
    BY DEF CheckpointSaved, Types, After
  <2>2. QED
    BY <2>1, WorkflowFacts
<1>2. \A i \in Elements : i \in Nat /\ (Over(i)' <=> Over(i))
  BY <1>1, WorkflowFacts DEF Over
<1>3. Tasks'
  <2>1. \A i \in Elements : i > at => \A s \in ElementSteps(i) : task[s] = "none"
    BY <1>1 DEF Order, Tasks
  <2>2. \A i \in Elements : i > at' \/ (i = at' /\ pc' \in {"start", "next"}) => i > at
    BY <1>1, <1>2
  <2>3. QED
    BY <1>1, <2>1, <2>2 DEF Order, Tasks
<1>4. Behind'
  <2>1. \A i \in Elements : Over(i)' => \A s \in ElementSteps(i) : LeftBehind(s)'
    BY <1>1, <1>2 DEF Order, Behind, LeftBehind, Loop, InElement
  <2>2. QED
    BY <1>1, <2>1 DEF Behind
<1>5. Reported'
  <2>1. FailedIn(steps)' = FailedIn(steps) /\ StepsIn(steps)' = StepsIn(steps)
    BY <1>1 DEF FailedIn, StepsIn
  <2>2. Faithful(steps)'
    BY <1>1 DEF Order, Reported, Faithful, FaithfulTo
  <2>3. pc \in Loop
    BY <1>1 DEF Loop, InElement
  <2>4. QED
    BY <1>1, <1>2, <2>1, <2>2, <2>3 DEF Order, Reported
<1>6. ElementsInOrder'
  <2>1. \A j \in Elements : \A i \in 1 .. j - 1 :
            (\E u \in ElementSteps(j) : task'[u] # "none") =>
                \A s \in ElementSteps(i) : LeftBehind(s)'
    BY <1>1 DEF Order, ElementsInOrder, Elements, LeftBehind
  <2>2. QED
    BY <1>1, <2>1 DEF ElementsInOrder, Elements, LeftBehind
<1>7. Current' /\ HonestReport'
  BY <1>1 DEF Current, HonestReport
<1>8. QED
  BY <1>3, <1>4, <1>5, <1>6, <1>7 DEF Order

LEMMA NextElementOrder ==
  ASSUME Types, Order, NextElement
  PROVE  Order'
<1> USE SameWorkflow
<1>1. /\ pc = "next" /\ at <= Len(workflow.elements) /\ got' = <<>>
      /\ UNCHANGED <<workflow, at, asked, steps, report>> /\ TypeOK /\ Tasks
  BY DEF NextElement, Types, Order
<1>2. PICK arm \in Arms :
         /\ left' = arm
         /\ IF arm = <<>>
              THEN pc' = "record" /\ UNCHANGED task
              ELSE pc' = "waiting" /\ Begin(arm[1])
  BY DEF NextElement
<1>3. at \in Elements /\ at \in Nat
  BY <1>1, WorkflowFacts DEF TypeOK
<1>4. \A s \in ElementSteps(at) : task[s] = "none"
  BY <1>1, <1>3 DEF Tasks
<1>5. /\ arm \in ArmsOf(at) /\ arm \in Seq(Batches) /\ Len(arm) \in Nat
  <2>1. arm \in ArmsOf(at)
    BY DEF Arms, ArmsOf
  <2>2. QED
    BY <1>1, <1>3, <2>1, ArmFacts
<1>6. /\ got' \in Results /\ StepsIn(got') = {} /\ FailedIn(got') = {} /\ FaithfulTo(task, got')
      /\ FaithfulTo(task', got')
  BY <1>1, NoResults
<1>7. CASE arm = <<>>
  <2>1. pc' = "record" /\ task' = task
    BY <1>2, <1>7
  <2>2. Tasks' /\ Behind' /\ Reported' /\ ElementsInOrder' /\ HonestReport'
    <3>1. \A s \in Steps : s \in asked' => task[s] # "none"
      BY <1>1 DEF Tasks
    <3>2. QED
      BY <1>1, <2>1, <3>1, Stays
  <2>3. ArmSteps(arm) = {}
    BY <1>7 DEF ArmSteps
  <2>4. arm \in Arms' /\ Collected' = {} /\ FailedIn(got)' = {} /\ Faithful(got)'
    BY <1>1, <1>6 DEF Arms, Collected, StepsIn, FailedIn, Faithful
  <2>5. Current'
    BY <1>1, <1>4, <2>1, <2>3, <2>4 DEF Current
  <2>6. QED
    BY <2>2, <2>5 DEF Order
<1>8. CASE arm # <<>>
  <2>1. pc' = "waiting" /\ Begin(arm[1])
    BY <1>2, <1>8
  <2>2. 1 \in 1 .. Len(arm) /\ 1 - 1 = 0
    BY <1>5, <1>8, EmptySeq
  <2>3. UpTo(arm, 0) = {}
    BY <1>1, <1>3, <1>5, <2>2, RangeFacts
  <2>4. IsSuffix(arm, 1)'
    <3>1. Len(arm) = Len(arm) - 1 + 1 /\ \A j \in 1 .. Len(arm) : 1 - 1 + j = j
      BY <1>5
    <3>2. QED
      BY <1>2, <3>1 DEF IsSuffix
  <2>5. StepsIn(got') = UpTo(arm, 1 - 1)
    BY <1>6, <2>2, <2>3
  <2>6. \A s \in ElementSteps(at) : task[s] # "none" => s \in UpTo(arm, 1 - 1)
    BY <1>4
  <2>7. QED
    BY <1>1, <1>2, <1>3, <1>5, <1>6, <1>8, <2>1, <2>2, <2>4, <2>5, <2>6, BatchBegins
<1>9. QED
  BY <1>7, <1>8

LEMMA LoopEndsOrder ==
  ASSUME Types, Order, LoopEnds
  PROVE  Order'
<1> USE SameWorkflow
<1> DEFINE overall == IF at > Len(workflow.elements) THEN OverallStatus(steps) ELSE "failed"
<1>1. /\ pc = "next" /\ pc' = "ending" /\ steps' = steps
      /\ report' = [status |-> overall, steps |-> steps]
      /\ UNCHANGED <<workflow, at, task, asked>> /\ TypeOK
  BY DEF LoopEnds, Finish, loopVars, Types
<1>2. steps \in Results /\ Faithful(steps) /\ pc \in Loop /\ pc' \in After
  BY <1>1, ResultTypes DEF Order, Reported, Loop, After
<1>3. CASE overall = "failed"
  BY <1>1, <1>2, <1>3, ErrorOrder
<1>4. CASE overall # "failed"
  <2>1. /\ at > Len(workflow.elements) /\ FailedIn(steps) = {} /\ overall = "success"
    BY <1>4 DEF OverallStatus
  <2>2. \A i \in Elements : Over(i)
    BY <1>1, <2>1, WorkflowFacts DEF Over, Elements
  <2>3. /\ \A i \in Elements : \E arm \in ArmsOf(i) : ArmSteps(arm) \subseteq StepsIn(steps)
        /\ \A i \in Elements : \A s \in ElementSteps(i) : task[s] # "none" => s \in StepsIn(steps)
    BY <1>2, <2>1, <2>2 DEF Order, Reported
  <2>4. \A s \in Steps : task[s] = "none" \/ s \in StepsIn(steps)
    BY <2>3 DEF Order, Tasks
  <2>5. \A s \in StepsIn(steps) : task[s] \in {"success", "skipped"}
    BY <1>2, <2>1, ResultFacts DEF Faithful
  <2>6. \A i \in Elements : \/ ArmSteps(workflow.elements[i].then) \subseteq StepsIn(steps)
                            \/ ArmSteps(workflow.elements[i].else) \subseteq StepsIn(steps)
    BY <2>3 DEF ArmsOf
  <2>7. HonestReport'
    <3>1. /\ report.steps' = steps /\ report.status' = "success"
      BY <1>1, <2>1
    <3>2. \A i, j \in 1 .. Len(steps) : /\ steps[i].status = task[steps[i].step]
                                        /\ steps[i].step = steps[j].step => i = j
      BY <1>2 DEF Faithful, FaithfulTo
    <3>3. QED
      <4>1. StepsIn(report.steps)' = StepsIn(steps)
        BY <3>1 DEF StepsIn
      <4>2. \A i, j \in 1 .. Len(report.steps)' :
               /\ report.steps[i].status' = task'[report.steps[i].step']
               /\ report.steps[i].step' = report.steps[j].step' => i = j
        BY <1>1, <3>1, <3>2
      <4>3. /\ \A s \in Steps : task'[s] = "none" \/ s \in StepsIn(report.steps)'
            /\ \A s \in StepsIn(report.steps)' : task'[s] \in {"success", "skipped"}
            /\ \A i \in (1 .. Len(workflow.elements))' :
                   \/ ArmSteps(workflow.elements[i].then)' \subseteq StepsIn(report.steps)'
                   \/ ArmSteps(workflow.elements[i].else)' \subseteq StepsIn(report.steps)'
        BY <1>1, <2>4, <2>5, <2>6, <4>1 DEF Elements
      <4>4. QED
        BY <4>2, <4>3 DEF HonestReport, StepsIn
  <2>8. Faithful(steps)'
    BY <1>1, <1>2 DEF Faithful, FaithfulTo
  <2>9. QED
    BY <1>1, <1>2, <2>7, <2>8, Leaves
<1>5. QED
  BY <1>3, <1>4

\* The recorded results, or the first of them, are the ones that happened.
LEMMA RecordOrder ==
  ASSUME Types, Order, pc = "record"
  PROVE  /\ Record => Order'
         /\ CallbackRaises => Order'
         /\ CheckpointFails => Order'
<1>1. /\ Recorded \in Results /\ Faithful(Recorded) /\ StepsIn(Recorded) \subseteq StepsIn(got)
      /\ ~(StopsAtFailure /\ FailedIn(got) # {}) => Recorded = got
      /\ \A r \in Results : Faithful(r) /\ StepsIn(r) \subseteq StepsIn(got) => Faithful(steps \o r)
  BY RecordedFacts
<1>2. ASSUME NEW r \in Results, Faithful(r), StepsIn(r) \subseteq StepsIn(got),
             Error(steps \o r), UNCHANGED <<task, asked>>
      PROVE  Order'
  <2>1. Faithful(steps \o r)
    BY <1>1, <1>2
  <2>2. /\ pc' \in After /\ steps' = steps \o r /\ report' = [status |-> "failed", steps |-> steps \o r]
        /\ UNCHANGED <<workflow, at, task, asked>>
    BY <1>2 DEF Error, loopVars, After
  <2>3. QED
    BY <2>1, <2>2, ErrorOrder
<1>3. ASSUME Record PROVE Order'
  <2>1. CASE StopsAtFailure /\ FailedIn(got) # {}
    <3>1. Finish(steps \o Recorded, "failed") /\ UNCHANGED <<task, asked>>
      BY <1>3, <2>1 DEF Record
    <3>2. /\ pc' \in After /\ steps' = steps \o Recorded
          /\ report' = [status |-> "failed", steps |-> steps \o Recorded]
          /\ UNCHANGED <<workflow, at, task, asked>>
      BY <3>1 DEF Finish, loopVars, After
    <3>3. Faithful(steps \o Recorded)
      BY <1>1
    <3>4. QED
      BY <3>2, <3>3, ErrorOrder
  <2>2. CASE ~(StopsAtFailure /\ FailedIn(got) # {})
    <3>1. /\ steps' = steps \o got /\ UNCHANGED <<workflow, task, asked, report>>
          /\ (pc' = "checkpoint" /\ at' = at) \/ (pc' = "next" /\ at' = at + 1)
      BY <1>1, <1>3, <2>2 DEF Record
    <3>2. QED
      BY <2>2, <3>1, ElementDone
  <2>3. QED
    BY <2>1, <2>2
<1>4. ASSUME CallbackRaises PROVE Order'
  <2>1. PICK n \in 1 .. Len(Recorded) : Error(steps \o SubSeq(Recorded, 1, n))
    BY <1>4 DEF CallbackRaises
  <2>2. UNCHANGED <<task, asked>>
    BY <1>4 DEF CallbackRaises
  <2>3. n \in 0 .. Len(Recorded)
    BY <1>1, ResultFacts
  <2> DEFINE r == SubSeq(Recorded, 1, n)
  <2>4. r \in Results /\ Faithful(r) /\ StepsIn(r) \subseteq StepsIn(got)
    BY <1>1, <2>3, Shortened DEF Faithful
  <2>5. Error(steps \o r)
    BY <2>1
  <2> HIDE DEF r
  <2>6. QED
    BY <1>2, <2>2, <2>4, <2>5
<1>5. ASSUME CheckpointFails PROVE Order'
  BY <1>1, <1>2, <1>5 DEF CheckpointFails
<1>6. QED
  BY <1>3, <1>4, <1>5

LEMMA InterruptOrder ==
  ASSUME Types, Order, NEW why, Interrupt(why)
  PROVE  Order'
<1>1. CASE \E w : Unwind(w) /\ UNCHANGED <<task, asked>>
  BY <1>1, UnwindOrder
<1>2. CASE /\ pc = "waiting" /\ Batch.mode # "failfast"
           /\ asked' = asked \cup {s \in Members : task[s] \in Live}
           /\ UNCHANGED <<workflow, pc, loopVars, task, steps, report>>
  BY <1>2, MembersAsked
<1>3. QED
  BY <1>1, <1>2 DEF Interrupt

LEMMA SingleOrder ==
  ASSUME Types, Order, SingleReturns
  PROVE  Order'
<1>1. pc = "waiting" /\ Batch.mode = "single" /\ Current /\ Tasks
  BY DEF SingleReturns, Order
<1>2. PICK s \in Members :
           \/ /\ task[s] \in Returned
              /\ BatchReturns(<<Result(s)>>)
              /\ UNCHANGED asked
           \/ /\ task[s] = "raised"
              /\ Error(steps) /\ UNCHANGED <<task, asked>>
           \/ /\ task[s] = "cancelled"
              /\ Unwind(intr)
              /\ UNCHANGED <<task, asked>>
  BY DEF SingleReturns
<1>3. CASE task[s] \in Returned /\ BatchReturns(<<Result(s)>>) /\ UNCHANGED asked
  <2>1. Covers(<<Result(s)>>)
    BY <1>1, <1>3, SingleCovers
  <2>2. \A t \in Members : t = s
    <3>1. PICK arm, k : arm \in Arms /\ k \in 1 .. Len(arm) /\ InBatch(arm, k)
      BY <1>1 DEF Current
    <3>2. QED
      BY <1>1, <3>1, MemberFacts
  <2>3. \A t \in Members : task[t] \in Ended
    BY <1>3, <2>2 DEF Ended
  <2>4. \A t \in Steps : t \in asked' => task[t] # "none"
    BY <1>1, <1>3 DEF Tasks
  <2>5. QED
    BY <1>1, <1>3, <2>1, <2>3, <2>4, BatchReturned
<1>4. CASE Error(steps) /\ UNCHANGED <<task, asked>>
  BY <1>4, ErrorOrder DEF Error, loopVars, After, Order, Reported
<1>5. CASE Unwind(intr) /\ UNCHANGED <<task, asked>>
  BY <1>5, UnwindOrder
<1>6. QED
  BY <1>2, <1>3, <1>4, <1>5

LEMMA GatherOrder ==
  ASSUME Types, Order, GatherReturns
  PROVE  Order'
<1>1. pc = "waiting" /\ Batch.mode = "all" /\ Current /\ Tasks /\ UNCHANGED asked
  BY DEF GatherReturns, Order
<1> DEFINE r == [i \in 1 .. Len(Batch.steps) |-> Result(Batch.steps[i])]
<1>2. \/ Error(steps) /\ UNCHANGED task
      \/ Unwind(intr) /\ UNCHANGED task
      \/ (\A s \in Members : task[s] \in Returned) /\ BatchReturns(r)
  BY DEF GatherReturns
<1> HIDE DEF r
<1>3. CASE Error(steps) /\ UNCHANGED task
  BY <1>1, <1>3, ErrorOrder DEF Error, loopVars, After, Order, Reported
<1>4. CASE Unwind(intr) /\ UNCHANGED task
  BY <1>1, <1>4, UnwindOrder
<1>5. CASE (\A s \in Members : task[s] \in Returned) /\ BatchReturns(r)
  <2>1. Covers(r)
    BY <1>1, <1>5, GatherCovers DEF r
  <2>2. \A t \in Members : task[t] \in Ended
    BY <1>5 DEF Ended
  <2>3. \A t \in Steps : t \in asked' => task[t] # "none"
    BY <1>1 DEF Tasks
  <2>4. QED
    BY <1>1, <1>5, <2>1, <2>2, <2>3, BatchReturned
<1>6. QED
  BY <1>2, <1>3, <1>4, <1>5

LEMMA FailFastOrder ==
  ASSUME Types, Order, FailFastReturns
  PROVE  Order'
<1>1. pc = "waiting" /\ Batch.mode = "failfast" /\ Current /\ Tasks
  BY DEF FailFastReturns, Order
<1>2. PICK order \in Orders(Finished) : WaitReturns(Finished, order)
  BY DEF FailFastReturns, Finished
<1>3. CASE Error(steps) /\ UNCHANGED <<task, asked>>
  BY <1>3, ErrorOrder DEF Error, loopVars, After, Order, Reported
<1>4. CASE /\ FailuresIn(order) = {} /\ NotSeen # {} /\ got' = got \o Seen(order)
           /\ UNCHANGED <<workflow, pc, at, left, task, asked, intr, steps, count, saved,
                          status, flags, report, outside>>
  BY <1>1, <1>4, BatchGoesOn
<1>5. CASE /\ ~(FailuresIn(order) # {} /\ task[order[LookedAt(order)]] = "raised")
           /\ FailuresIn(order) # {} \/ NotSeen = {}
           /\ BatchReturns(Seen(order)) /\ asked' = asked \cup NotSeen
  <2> DEFINE r == Seen(order)
  <2>1. /\ r \in Results /\ Faithful(r) /\ StepsIn(r) \subseteq Finished
        /\ FailuresIn(order) = {} => FailedIn(r) = {} /\ StepsIn(r) = Finished
        /\ FailuresIn(order) # {} => FailedIn(r) # {}
    BY <1>1, <1>5, SeenFacts
  <2> HIDE DEF r
  <2>2. /\ Finished \subseteq Members /\ Finished \cap Collected = {}
        /\ \A s \in Finished : task[s] \in Ended
        /\ \A s \in Members : s \in Collected \/ s \in Finished \/ s \in NotSeen
        /\ NotSeen \subseteq Members
    BY DEF Finished, NotSeen
  <2>3. Covers(r)
    BY <1>5, <2>1, <2>2 DEF Covers
  <2>4. \A s \in Members : s \in Steps /\ task[s] # "none"
    <3>1. PICK arm, k : arm \in Arms /\ k \in 1 .. Len(arm) /\ InBatch(arm, k)
      BY <1>1 DEF Current
    <3>2. QED
      BY <1>1, <3>1, MemberFacts
  <2>5. \A t \in Steps : t \in asked' => task[t] # "none"
    BY <1>1, <1>5, <2>2, <2>4 DEF Tasks
  <2>6. FailedIn(r) = {} => asked' = asked
    BY <1>5, <2>1
  <2>7. BatchReturns(r)
    BY <1>5 DEF r
  <2>8. \A s \in Members : s \in Collected \cup StepsIn(r) \/ task[s] \in Ended \/ s \in asked'
    BY <1>5, <2>2
  <2>9. asked \subseteq asked'
    BY <1>5
  <2>10. QED
    BY <1>1, <2>3, <2>5, <2>6, <2>7, <2>8, <2>9, BatchReturned
<1>6. QED
  BY <1>2, <1>3, <1>4, <1>5, WaitReturnsCases

LEMMA SameReport ==
  ASSUME HonestReport, UNCHANGED <<workflow, task, report>>
  PROVE  HonestReport'
<1> DEFINE H(w, t, r) ==
             r.status # "running" =>
               /\ \A i, j \in 1 .. Len(r.steps) :
                      /\ r.steps[i].status = t[r.steps[i].step]
                      /\ r.steps[i].step = r.steps[j].step => i = j
               /\ r.status = "success" =>
                      LET reported == {r.steps[i].step : i \in 1 .. Len(r.steps)}
                      IN  /\ \A s \in Steps : t[s] = "none" \/ s \in reported
                          /\ \A s \in reported : t[s] \in {"success", "skipped"}
                          /\ \A i \in 1 .. Len(w.elements) :
                                 \/ ArmSteps(w.elements[i].then) \subseteq reported
                                 \/ ArmSteps(w.elements[i].else) \subseteq reported
<1>1. H(workflow, task, report)
  BY DEF HonestReport
<1>2. workflow' = workflow /\ task' = task /\ report' = report
  OBVIOUS
<1> HIDE DEF H
<1>3. H(workflow', task', report')
  BY <1>1, <1>2
<1>4. QED
  BY <1>3 DEF HonestReport, H

LEMMA OrderSame ==
  ASSUME Order, UNCHANGED <<workflow, pc, loopVars, task, asked, steps, report>>
  PROVE  Order'
<1> USE SameWorkflow
<1>1. UNCHANGED <<workflow, pc, at, left, got, task, asked, steps, report>>
  BY DEF loopVars
<1>2. \A i : Over(i)' <=> Over(i)
  BY <1>1 DEF Over
<1>3. Tasks'
  BY <1>1 DEF Order, Tasks
<1>4. Behind'
  BY <1>1, <1>2 DEF Order, Behind, LeftBehind
<1>5. Current'
  <2>1. /\ Arms' = Arms /\ Collected' = Collected /\ Members' = Members /\ Batch' = Batch
        /\ FailedIn(got)' = FailedIn(got) /\ Faithful(got)' = Faithful(got)
        /\ ElementSteps(at)' = ElementSteps(at)
    BY <1>1 DEF Arms, Collected, Members, Batch, FailedIn, Faithful, FaithfulTo, ElementSteps
  <2>2. \A arm, k : InBatch(arm, k) => InBatch(arm, k)'
    BY <1>1, <2>1 DEF InBatch, IsSuffix
  <2>3. QED
    BY <1>1, <2>1, <2>2 DEF Order, Current
<1>6. Reported'
  <2>1. /\ FailedIn(steps)' = FailedIn(steps) /\ Faithful(steps)' = Faithful(steps)
        /\ StepsIn(steps)' = StepsIn(steps)
    BY <1>1 DEF FailedIn, Faithful, FaithfulTo, StepsIn
  <2>2. QED
    BY <1>1, <1>2, <2>1 DEF Order, Reported
<1>7. ElementsInOrder'
  <2>1. \A j \in Elements : \A i \in 1 .. j - 1 :
            (\E u \in ElementSteps(j) : task'[u] # "none") =>
                \A s \in ElementSteps(i) : LeftBehind(s)'
    BY <1>1 DEF Order, ElementsInOrder, Elements, LeftBehind
  <2>2. QED
    BY <1>1, <2>1 DEF ElementsInOrder, Elements, LeftBehind
<1>8. HonestReport'
  BY <1>1, SameReport DEF Order
<1>9. QED
  BY <1>3, <1>4, <1>5, <1>6, <1>7, <1>8 DEF Order

LEMMA AfterOrder ==
  ASSUME Types, Order, pc' \in After, UNCHANGED <<workflow, loopVars, task, asked, steps, report>>
  PROVE  Order'
<1>1. UNCHANGED <<workflow, at, task, asked, steps, report>>
  BY DEF loopVars
<1>2. Faithful(steps)' /\ HonestReport'
  BY <1>1, SameReport DEF Order, Reported, Faithful, FaithfulTo
<1>3. QED
  BY <1>1, <1>2, Leaves

\* Order is kept by every step.
LEMMA OrderStep ==
  ASSUME Types, Order, [Next]_vars
  PROVE  Order'
<1>1. CASE Executor
  <2>1. CASE Started
    BY <2>1, StartedOrder
  <2>2. CASE NextElement
    BY <2>2, NextElementOrder
  <2>3. CASE LoopEnds
    BY <2>3, LoopEndsOrder
  <2>4. CASE ConditionRaises
    BY <2>4, ErrorOrder DEF ConditionRaises, Error, loopVars, After, Order, Reported
  <2>5. CASE SingleReturns
    BY <2>5, SingleOrder
  <2>6. CASE GatherReturns
    BY <2>6, GatherOrder
  <2>7. CASE FailFastReturns
    BY <2>7, FailFastOrder
  <2>8. CASE Record
    <3>1. pc = "record"
      BY <2>8 DEF Record
    <3>2. QED
      BY <2>8, <3>1, RecordOrder
  <2>9. CASE CallbackRaises
    <3>1. pc = "record"
      BY <2>9 DEF CallbackRaises
    <3>2. QED
      BY <2>9, <3>1, RecordOrder
  <2>10. CASE CheckpointSaved
    BY <2>10, CheckpointOrder
  <2>11. CASE CheckpointFails
    <3>1. pc = "record"
      BY <2>11 DEF CheckpointFails
    <3>2. QED
      BY <2>11, <3>1, RecordOrder
  <2>12. CASE Announce
    <3>1. /\ pc' \in After
          /\ UNCHANGED <<workflow, loopVars, task, asked, steps, report>>
      BY <2>12 DEF Announce, ListenersReturn, After
    <3>2. QED
      BY <3>1, AfterOrder
  <2>13. QED
    BY <1>1, <2>1, <2>2, <2>3, <2>4, <2>5, <2>6, <2>7, <2>8, <2>9, <2>10, <2>11, <2>12
       DEF Executor
<1>2. ASSUME NEW s \in Steps, StepTask(s) PROVE Order'
  <2>1. /\ task[s] \in Live
        /\ \E x \in {"running"} \cup Ended : /\ x = "cancelled" => s \in asked
                                             /\ task' = [task EXCEPT ![s] = x]
        /\ UNCHANGED <<workflow, pc, at, left, got, asked, steps, report>>
    <3>1. CASE StepStarts(s)
      BY <3>1 DEF StepStarts, loopVars, Live
    <3>2. CASE StepEnds(s)
      BY <3>2 DEF StepEnds, loopVars, Live, Ended, Returned
    <3>3. QED
      BY <1>2, <3>1, <3>2 DEF StepTask
  <2>2. QED
    BY <2>1, TaskMoves
<1>3. CASE TimeoutHits
  BY <1>3, InterruptOrder DEF TimeoutHits
<1>4. CASE CancelTask
  <2>1. CASE Interrupt("cancel")
    BY <2>1, InterruptOrder
  <2>2. CASE /\ pc' \in {"raised", "cancelled"}
             /\ UNCHANGED <<workflow, loopVars, task, asked, steps, report>>
    BY <2>2, AfterOrder DEF After
  <2>3. QED
    BY <1>4, <2>1, <2>2 DEF CancelTask
<1>5. CASE Cancel
  BY <1>5, OrderSame DEF Cancel
<1>6. CASE UNCHANGED vars
  BY <1>6, OrderSame DEF vars
<1>7. QED
  BY <1>1, <1>2, <1>3, <1>4, <1>5, <1>6 DEF Next, Terminated

-----------------------------------------------------------------------------
(***************************************************************************)
(* Types.                                                                  *)
(***************************************************************************)

\* What the variables the loop works on hold.
LoopTypes ==
    /\ workflow \in Pipelines
    /\ pc \in Loop \cup After \cup {"start"}
    /\ at \in 1 .. Len(workflow.elements) + 1 /\ (pc \in InElement => at \in Elements)
    /\ left \in Seq(Batches) /\ (pc = "waiting" => left # <<>>)
    /\ got \in Results /\ steps \in Results
    /\ count \in Nat /\ saved \in Nat /\ saved <= Len(steps)
    /\ report \in [status : {"running", "success", "failed"}, steps : Results]
    /\ pc \notin After => report.status = "running"
    /\ pc = "start" => at = 1 /\ deadline = "off" /\ steps = <<>>

\* What the variables around it hold.
OtherTypes ==
    /\ task \in [Steps -> {"none"} \cup Live \cup Ended]
    /\ asked \subseteq Steps /\ intr \in {"none", "timeout", "cancel"}
    /\ status \in {"pending", "running", "success", "failed", "cancelled"}
    /\ wcancelled \in BOOLEAN /\ pcancelled \in BOOLEAN
    /\ stopAt \in 0 .. Len(workflow.elements) + 1
    /\ deadline \in {"off", "armed", "hit"} /\ cancels \in 0 .. MaxCancels
    /\ told \in 0 .. 1 /\ cutEmit \in BOOLEAN

LEMMA TypesSplit == Types <=> LoopTypes /\ OtherTypes
<1>1. ASSUME Types PROVE LoopTypes /\ OtherTypes
  <2>1. TypeOK /\ steps \in Results /\ got \in Results
    BY <1>1, ResultTypes DEF Types
  <2>2. Len(steps) \in Nat
    BY <2>1, ResultFacts
  <2>3. saved \in Nat /\ saved <= Len(steps)
    BY <2>1, <2>2 DEF TypeOK
  <2>4. LoopTypes
    BY <1>1, <2>1, <2>3 DEF Types, TypeOK, LoopTypes, Loop, InElement, After
  <2>5. OtherTypes
    BY <2>1 DEF TypeOK, OtherTypes
  <2>6. QED
    BY <2>4, <2>5
<1>2. ASSUME LoopTypes, OtherTypes PROVE Types
  <2>1. steps \in Results /\ got \in Results /\ saved \in Nat /\ saved <= Len(steps)
    BY <1>2 DEF LoopTypes
  <2>2. Len(steps) \in Nat
    BY <2>1, ResultFacts
  <2>3. saved \in 0 .. Len(steps)
    BY <2>1, <2>2
  <2>4. TypeOK
    <3>1. pc \in {"start", "next", "waiting", "record", "checkpoint", "error", "ending",
                  "cancelling", "cancelled", "returned", "raised"}
      BY <1>2 DEF LoopTypes, Loop, InElement, After
    <3>2. /\ workflow \in Pipelines /\ at \in 1 .. Len(workflow.elements) + 1
          /\ left \in Seq(Batches) /\ (pc = "waiting" => left # <<>>) /\ count \in Nat
          /\ report.status \in {"running", "success", "failed"}
      BY <1>2 DEF LoopTypes
    <3>3. /\ got \in Seq([step : Steps, status : Returned])
          /\ steps \in Seq([step : Steps, status : Returned])
      BY <2>1 DEF Results
    <3>4. QED
      BY <1>2, <2>3, <3>1, <3>2, <3>3 DEF OtherTypes, TypeOK
  <2>5. QED
    BY <1>2, <2>4 DEF LoopTypes, Types
<1>3. QED
  BY <1>1, <1>2

\* The types of the loop when it records results, is left, or stays where it is.
LEMMA LeaveTypes ==
  ASSUME Types, pc' \in After, UNCHANGED <<workflow, loopVars, count, saved>>,
         NEW r \in Results, steps' = r, Len(steps) <= Len(r),
         report' \in [status : {"running", "success", "failed"}, steps : Results]
  PROVE  LoopTypes'
<1>1. LoopTypes /\ UNCHANGED <<at, left, got>>
  BY TypesSplit DEF loopVars
<1>2. pc' \notin InElement \cup {"start", "waiting"}
  BY DEF After, InElement
<1>3. Len(r) \in Nat /\ Len(steps) \in Nat /\ saved \in Nat /\ saved <= Len(steps)
  BY <1>1, ResultFacts DEF LoopTypes
<1>4. saved' \in Nat /\ saved' <= Len(steps')
  BY <1>3
<1>5. QED
  BY <1>1, <1>2, <1>4 DEF LoopTypes

LEMMA SameTypes ==
  ASSUME Types, UNCHANGED <<workflow, pc, loopVars, steps, count, saved, report>>,
         pc = "start" => deadline' = deadline
  PROVE  LoopTypes'
<1>1. LoopTypes /\ UNCHANGED <<workflow, pc, at, left, got, steps, count, saved, report>>
  BY TypesSplit DEF loopVars
<1>2. QED
  BY <1>1 DEF LoopTypes, Elements

LEMMA ErrorTypes ==
  ASSUME Types, NEW r \in Results, Len(steps) <= Len(r), Error(r), UNCHANGED <<task, asked>>
  PROVE  Types'
<1>1. LoopTypes'
  <2>1. pc' \in After /\ steps' = r /\ UNCHANGED <<workflow, loopVars, count, saved>>
    BY DEF Error, After
  <2>2. report' \in [status : {"running", "success", "failed"}, steps : Results]
    BY DEF Error
  <2>3. QED
    BY <2>1, <2>2, LeaveTypes
<1>2. OtherTypes'
  <2>1. OtherTypes
    BY TypesSplit
  <2>2. /\ deadline' \in {"off", "armed", "hit"} /\ status' \in {status, "failed"} /\ intr' = "none"
        /\ UNCHANGED <<workflow, task, asked, wcancelled, pcancelled, stopAt, told, cancels, cutEmit>>
    BY <2>1 DEF Error, Disarm, flags, OtherTypes
  <2>3. QED
    BY <2>1, <2>2 DEF OtherTypes
<1>3. QED
  BY <1>1, <1>2, TypesSplit, PTL

LEMMA FinishTypes ==
  ASSUME Types, NEW r \in Results, Len(steps) <= Len(r),
         NEW overall \in {"success", "failed"}, Finish(r, overall), UNCHANGED <<task, asked>>
  PROVE  Types'
<1>1. LoopTypes'
  <2>1. pc' \in After /\ steps' = r /\ UNCHANGED <<workflow, loopVars, count, saved>>
    BY DEF Finish, After
  <2>2. report' \in [status : {"running", "success", "failed"}, steps : Results]
    BY DEF Finish
  <2>3. QED
    BY <2>1, <2>2, LeaveTypes
<1>2. OtherTypes'
  <2>1. OtherTypes
    BY TypesSplit
  <2>2. /\ deadline' \in {"off", "armed", "hit"} /\ status' \in {status, "success", "failed"}
        /\ UNCHANGED <<workflow, task, asked, intr, wcancelled, pcancelled, stopAt, told, cancels,
                       cutEmit>>
    BY <2>1 DEF Finish, Disarm, flags, OtherTypes
  <2>3. QED
    BY <2>1, <2>2 DEF OtherTypes
<1>3. QED
  BY <1>1, <1>2, TypesSplit, PTL

LEMMA UnwindTypes ==
  ASSUME Types, NEW why, Unwind(why), UNCHANGED <<task, asked>>,
         deadline' \in {"off", "armed", "hit"}, cancels' \in 0 .. MaxCancels, cutEmit' \in BOOLEAN
  PROVE  Types'
<1>1. steps \in Results /\ Len(steps) <= Len(steps) /\ LoopTypes /\ OtherTypes
  <2>1. steps \in Results
    BY ResultTypes
  <2>2. Len(steps) \in Nat
    BY <2>1, ResultFacts
  <2>3. QED
    BY <2>1, <2>2, TypesSplit
<1>2. LoopTypes'
  <2>1. report' \in [status : {"running", "success", "failed"}, steps : Results]
    BY <1>1, NoResults DEF Unwind
  <2>2. pc' \in After /\ steps' = steps /\ UNCHANGED <<workflow, loopVars, count, saved>>
    BY DEF Unwind, After
  <2>3. QED
    BY <1>1, <2>1, <2>2, LeaveTypes
<1>3. OtherTypes'
  BY <1>1 DEF Unwind, flags, OtherTypes
<1>4. QED
  BY <1>2, <1>3, TypesSplit, PTL

LEMMA BatchTypes ==
  ASSUME Types, pc = "waiting", NEW r \in Results, BatchReturns(r), asked' \subseteq Steps,
         intr' \in {"none", "timeout", "cancel"}
  PROVE  Types'
<1>1. LoopTypes /\ OtherTypes
  BY TypesSplit
<1>2. UNCHANGED <<workflow, at, steps, count, saved, status, report, wcancelled, pcancelled, stopAt,
                  deadline, cancels, cutEmit, told>>
  BY DEF BatchReturns, flags, outside
<1>3. got' \in Results
  BY <1>1, Appended DEF BatchReturns, LoopTypes
<1>4. /\ left' \in Seq(Batches) /\ pc' \in {"waiting", "record"}
      /\ pc' = "waiting" => left' # <<>>
      /\ task' \in [Steps -> {"none"} \cup Live \cup Ended]
  <2>1. left \in Seq(Batches) /\ left # <<>>
    BY <1>1 DEF LoopTypes
  <2>2. CASE Len(left) = 1 \/ FailedIn(r) # {}
    BY <1>1, <2>1, <2>2 DEF BatchReturns, OtherTypes
  <2>3. CASE ~(Len(left) = 1 \/ FailedIn(r) # {})
    <3>1. pc' = "waiting" /\ left' = Tail(left) /\ Begin(left[2])
      BY <2>3 DEF BatchReturns
    <3>2. Tail(left) \in Seq(Batches) /\ Len(Tail(left)) = Len(left) - 1 /\ Len(left) \in Nat \ {0}
      BY <2>1, HeadTailProperties, LenProperties, EmptySeq
    <3>3. Tail(left) # <<>>
      <4>1. Len(Tail(left)) > 0
        BY <2>3, <3>2
      <4>2. QED
        BY <3>2, <4>1, EmptySeq
    <3>4. task' \in [Steps -> {"none"} \cup Live \cup Ended]
      BY <1>1, <3>1 DEF Begin, OtherTypes, Live
    <3>5. QED
      BY <3>1, <3>2, <3>3, <3>4
  <2>4. QED
    BY <2>2, <2>3
<1>5. LoopTypes'
  <2>1. /\ pc' \in Loop /\ pc' \notin After \cup {"start"} /\ pc \notin After /\ pc \in InElement
    BY <1>4 DEF Loop, After, InElement
  <2>2. QED
    BY <1>1, <1>2, <1>3, <1>4, <2>1 DEF LoopTypes, Elements
<1>6. OtherTypes'
  BY <1>1, <1>2, <1>4 DEF OtherTypes
<1>7. QED
  BY <1>5, <1>6, TypesSplit, PTL

LEMMA RecordTypes ==
  ASSUME Types, Order, pc = "record"
  PROVE  /\ Record => Types'
         /\ CallbackRaises => Types'
         /\ CheckpointFails => Types'
<1>1. /\ Recorded \in Results /\ Faithful(Recorded) /\ StepsIn(Recorded) \subseteq StepsIn(got)
      /\ \A r \in Results : Faithful(r) /\ StepsIn(r) \subseteq StepsIn(got) =>
             steps \o r \in Results /\ Len(steps \o r) = Len(steps) + Len(r)
  BY RecordedFacts
<1>2. steps \in Results /\ got \in Results /\ Len(steps) \in Nat /\ Len(got) \in Nat
  BY ResultTypes, ResultFacts
<1>3. \A r \in Results : Faithful(r) /\ StepsIn(r) \subseteq StepsIn(got) =>
          steps \o r \in Results /\ Len(steps) <= Len(steps \o r)
  BY <1>1, <1>2, ResultFacts
<1>4. steps \o Recorded \in Results /\ Len(steps) <= Len(steps \o Recorded)
  BY <1>1, <1>3
<1>5. ASSUME Record PROVE Types'
  <2>1. CASE StopsAtFailure /\ FailedIn(got) # {}
    <3>1. Finish(steps \o Recorded, "failed") /\ UNCHANGED <<task, asked>>
      BY <1>5, <2>1 DEF Record
    <3>2. QED
      BY <1>4, <3>1, FinishTypes
  <2>2. CASE ~(StopsAtFailure /\ FailedIn(got) # {})
    <3>1. LoopTypes /\ OtherTypes /\ at \in Elements /\ TypeOK
      BY TypesSplit DEF Types, InElement
    <3>2. /\ steps' = steps \o Recorded /\ count' \in {count, count + Len(got)}
          /\ \/ pc' = "checkpoint" /\ saved' = Len(steps') /\ at' = at
             \/ pc' = "next" /\ at' = at + 1 /\ saved' = saved
          /\ UNCHANGED <<workflow, left, got, report, task, asked, intr, status, wcancelled,
                         pcancelled, stopAt, deadline, cancels, cutEmit, told>>
      BY <1>5, <2>2 DEF Record, CountAfter, flags, outside
    <3>3. count' \in Nat /\ saved' \in Nat /\ saved' <= Len(steps')
      <4>1. Len(steps') \in Nat /\ Len(steps) <= Len(steps')
        BY <1>4, <3>2, ResultFacts
      <4>2. count \in Nat /\ saved \in Nat /\ saved <= Len(steps)
        BY <3>1 DEF LoopTypes
      <4>3. QED
        BY <1>2, <3>2, <4>1, <4>2
    <3>4. at + 1 \in 1 .. Len(workflow.elements) + 1 /\ at \in 1 .. Len(workflow.elements) + 1
      BY <3>1, WorkflowFacts
    <3>5. LoopTypes'
      <4>1. /\ pc' \in Loop /\ pc' \notin After \cup {"start", "waiting"} /\ pc \notin After
        BY <3>2 DEF Loop, After, InElement
      <4>2. (pc' \in InElement => at' \in Elements') /\ at' \in 1 .. Len(workflow'.elements) + 1
        BY <3>1, <3>2, <3>4 DEF Elements, InElement
      <4>3. QED
        BY <1>4, <3>1, <3>2, <3>3, <4>1, <4>2 DEF LoopTypes
    <3>6. OtherTypes'
      BY <3>1, <3>2 DEF OtherTypes
    <3>7. QED
      BY <3>5, <3>6, TypesSplit, PTL
  <2>3. QED
    BY <2>1, <2>2
<1>6. ASSUME CallbackRaises PROVE Types'
  <2>1. PICK n \in 1 .. Len(Recorded) : Error(steps \o SubSeq(Recorded, 1, n))
    BY <1>6 DEF CallbackRaises
  <2>2. UNCHANGED <<task, asked>>
    BY <1>6 DEF CallbackRaises
  <2>3. n \in 0 .. Len(Recorded)
    BY <1>1, ResultFacts
  <2> DEFINE r == SubSeq(Recorded, 1, n)
  <2>4. r \in Results /\ Faithful(r) /\ StepsIn(r) \subseteq StepsIn(got)
    BY <1>1, <2>3, Shortened DEF Faithful
  <2>5. Error(steps \o r)
    BY <2>1
  <2> HIDE DEF r
  <2>6. steps \o r \in Results /\ Len(steps) <= Len(steps \o r)
    BY <1>3, <2>4
  <2>7. QED
    BY <2>2, <2>5, <2>6, ErrorTypes
<1>7. ASSUME CheckpointFails PROVE Types'
  <2>1. Error(steps \o Recorded) /\ UNCHANGED <<task, asked>>
    BY <1>7 DEF CheckpointFails
  <2>2. QED
    BY <1>4, <2>1, ErrorTypes
<1>8. QED
  BY <1>5, <1>6, <1>7

LEMMA NextElementTypes ==
  ASSUME Types, NextElement
  PROVE  Types'
<1>1. LoopTypes /\ OtherTypes /\ TypeOK
  BY TypesSplit DEF Types
<1>2. /\ pc = "next" /\ at <= Len(workflow.elements) /\ got' = <<>>
      /\ UNCHANGED <<workflow, at, steps, count, saved, report, asked, intr, status, wcancelled,
                     pcancelled, stopAt, deadline, cancels, cutEmit, told>>
  BY DEF NextElement, flags, outside
<1>3. PICK arm \in Arms :
         /\ left' = arm
         /\ IF arm = <<>>
              THEN pc' = "record" /\ UNCHANGED task
              ELSE pc' = "waiting" /\ Begin(arm[1])
  BY DEF NextElement
<1>4. at \in Elements
  BY <1>1, <1>2, WorkflowFacts DEF TypeOK
<1>5. arm \in Seq(Batches)
  <2>1. arm \in ArmsOf(at)
    BY DEF Arms, ArmsOf
  <2>2. QED
    BY <1>1, <1>4, <2>1, ArmFacts
<1>6. /\ pc' \in {"waiting", "record"} /\ (pc' = "waiting" => left' # <<>>)
      /\ task' \in [Steps -> {"none"} \cup Live \cup Ended]
  BY <1>1, <1>3 DEF Begin, OtherTypes, Live
<1>7. LoopTypes'
  <2>1. pc' \in Loop /\ pc' \notin After \cup {"start"} /\ pc \notin After
    BY <1>2, <1>6 DEF Loop, After, InElement
  <2>2. QED
    BY <1>1, <1>2, <1>3, <1>4, <1>5, <1>6, <2>1, NoResults DEF LoopTypes, Elements
<1>8. OtherTypes'
  BY <1>1, <1>2, <1>6 DEF OtherTypes
<1>9. QED
  BY <1>7, <1>8, TypesSplit, PTL

LEMMA InterruptTypes ==
  ASSUME Types, Current, NEW why \in {"timeout", "cancel"}, Interrupt(why),
         deadline' \in {"off", "armed", "hit"}, cancels' \in 0 .. MaxCancels, cutEmit' \in BOOLEAN
  PROVE  Types'
<1>1. CASE \E w : Unwind(w) /\ UNCHANGED <<task, asked>>
  BY <1>1, UnwindTypes
<1>2. CASE /\ pc = "waiting"
           /\ asked' = asked \cup {s \in Members : task[s] \in Live} /\ intr' = Joined(why)
           /\ UNCHANGED <<workflow, pc, loopVars, task, steps, count, saved, status, flags, report,
                          told>>
  <2>1. LoopTypes'
    BY <1>2, SameTypes
  <2>2. Members \subseteq Steps
    <3>1. PICK arm, k : arm \in Arms /\ k \in 1 .. Len(arm) /\ InBatch(arm, k)
      BY <1>2 DEF Current
    <3>2. QED
      BY <1>2, <3>1, MemberFacts
  <2>3. OtherTypes'
    <3>1. OtherTypes
      BY TypesSplit
    <3>2. asked' \subseteq Steps /\ intr' \in {"none", "timeout", "cancel"}
      BY <1>2, <2>2, <3>1 DEF OtherTypes, Joined
    <3>3. UNCHANGED <<workflow, task, status, wcancelled, pcancelled, stopAt, told>>
      BY <1>2 DEF flags
    <3>4. QED
      BY <3>1, <3>2, <3>3 DEF OtherTypes
  <2>4. QED
    BY <2>1, <2>3, TypesSplit, PTL
<1>3. QED
  BY <1>1, <1>2 DEF Interrupt

\* Types are kept by every step.
LEMMA TypesStep ==
  ASSUME Types, Order, Told, [Next]_vars
  PROVE  Types'
<1>1. LoopTypes /\ OtherTypes /\ TypeOK /\ Current /\ Tasks
  BY TypesSplit DEF Types, Order
<1>2. steps \in Results /\ Len(steps) \in Nat /\ Len(steps) <= Len(steps)
  BY ResultTypes, ResultFacts
<1>3. CASE Executor
  <2>1. CASE Started
    <3>1. /\ pc = "start" /\ pc' = "next" /\ deadline' \in {"off", "armed", "hit"}
          /\ pcancelled' \in BOOLEAN /\ status' \in {status, "running"}
          /\ UNCHANGED <<workflow, at, left, got, steps, count, saved, report, task, asked, intr,
                         wcancelled, stopAt, told, cancels, cutEmit>>
      BY <1>1, <2>1 DEF Started, loopVars, OtherTypes
    <3>2. LoopTypes'
      BY <1>1, <3>1 DEF LoopTypes, Loop, After, InElement, Elements
    <3>3. OtherTypes'
      BY <1>1, <3>1 DEF OtherTypes
    <3>4. QED
      BY <3>2, <3>3, TypesSplit, PTL
  <2>2. CASE NextElement
    BY <2>2, NextElementTypes
  <2>3. CASE LoopEnds
    <3>1. \E overall \in {"success", "failed"} : Finish(steps, overall)
      BY <2>3 DEF LoopEnds, OverallStatus
    <3>2. UNCHANGED <<task, asked>>
      BY <2>3 DEF LoopEnds
    <3>3. QED
      BY <1>2, <3>1, <3>2, FinishTypes
  <2>4. CASE ConditionRaises
    <3>1. Error(steps) /\ UNCHANGED <<task, asked>>
      BY <2>4 DEF ConditionRaises
    <3>2. QED
      BY <1>2, <3>1, ErrorTypes
  <2>5. CASE SingleReturns
    <3>1. PICK s \in Members :
               \/ /\ task[s] \in Returned /\ BatchReturns(<<Result(s)>>)
                  /\ intr' = "none" /\ UNCHANGED asked
               \/ Error(steps) /\ UNCHANGED <<task, asked>>
               \/ Unwind(intr) /\ UNCHANGED <<task, asked, deadline, cancels, cutEmit>>
      BY <2>5 DEF SingleReturns
    <3>2. CASE task[s] \in Returned /\ BatchReturns(<<Result(s)>>) /\ intr' = "none" /\ UNCHANGED asked
      <4>1. pc = "waiting" /\ Batch.mode = "single"
        BY <2>5 DEF SingleReturns
      <4>2. <<Result(s)>> \in Results
        BY <1>1, <3>2, <4>1, SingleCovers DEF Covers
      <4>3. QED
        BY <1>1, <3>2, <4>1, <4>2, BatchTypes DEF OtherTypes
    <3>3. CASE Error(steps) /\ UNCHANGED <<task, asked>>
      BY <1>2, <3>3, ErrorTypes
    <3>4. CASE Unwind(intr) /\ UNCHANGED <<task, asked, deadline, cancels, cutEmit>>
      BY <1>1, <3>4, UnwindTypes DEF OtherTypes
    <3>5. QED
      BY <3>1, <3>2, <3>3, <3>4
  <2>6. CASE GatherReturns
    <3> DEFINE r == [i \in 1 .. Len(Batch.steps) |-> Result(Batch.steps[i])]
    <3>1. /\ \/ Error(steps) /\ UNCHANGED task
             \/ Unwind(intr) /\ UNCHANGED <<task, deadline, cancels, cutEmit>>
             \/ (\A s \in Members : task[s] \in Returned) /\ BatchReturns(r) /\ UNCHANGED intr
          /\ pc = "waiting" /\ Batch.mode = "all" /\ UNCHANGED asked
      BY <2>6 DEF GatherReturns
    <3> HIDE DEF r
    <3>2. CASE Error(steps) /\ UNCHANGED task
      BY <1>2, <3>1, <3>2, ErrorTypes
    <3>3. CASE Unwind(intr) /\ UNCHANGED <<task, deadline, cancels, cutEmit>>
      BY <1>1, <3>1, <3>3, UnwindTypes DEF OtherTypes
    <3>4. CASE (\A s \in Members : task[s] \in Returned) /\ BatchReturns(r) /\ UNCHANGED intr
      <4>1. r \in Results
        BY <1>1, <3>1, <3>4, GatherCovers DEF Covers, r
      <4>2. QED
        BY <1>1, <3>1, <3>4, <4>1, BatchTypes DEF OtherTypes
    <3>5. QED
      BY <3>1, <3>2, <3>3, <3>4
  <2>7. CASE FailFastReturns
    <3>1. pc = "waiting" /\ Batch.mode = "failfast"
      BY <2>7 DEF FailFastReturns
    <3>2. PICK order \in Orders(Finished) : WaitReturns(Finished, order)
      BY <2>7 DEF FailFastReturns, Finished
    <3>3. CASE Error(steps) /\ UNCHANGED <<task, asked>>
      BY <1>2, <3>3, ErrorTypes
    <3>4. CASE /\ FailuresIn(order) = {} /\ got' = got \o Seen(order)
               /\ UNCHANGED <<workflow, pc, at, left, task, asked, intr, steps, count, saved,
                              status, flags, report, outside>>
      <4>1. got' \in Results
        <5>1. Seen(order) \in Results
          BY <1>1, <3>1, <3>4, SeenFacts
        <5>2. QED
          BY <1>1, <3>4, <5>1, Appended DEF LoopTypes
      <4>2. LoopTypes'
        BY <1>1, <3>1, <3>4, <4>1 DEF LoopTypes, Elements
      <4>3. OtherTypes'
        BY <1>1, <3>4 DEF OtherTypes, flags, outside
      <4>4. QED
        BY <4>2, <4>3, TypesSplit, PTL
    <3>5. CASE /\ ~(FailuresIn(order) # {} /\ task[order[LookedAt(order)]] = "raised")
               /\ BatchReturns(Seen(order)) /\ asked' = asked \cup NotSeen /\ UNCHANGED intr
      <4>1. Seen(order) \in Results
        BY <1>1, <3>1, <3>5, SeenFacts
      <4>2. Members \subseteq Steps
        <5>1. PICK arm, k : arm \in Arms /\ k \in 1 .. Len(arm) /\ InBatch(arm, k)
          BY <1>1, <3>1 DEF Current
        <5>2. QED
          BY <3>1, <5>1, MemberFacts
      <4>3. asked' \subseteq Steps /\ intr' \in {"none", "timeout", "cancel"}
        BY <1>1, <3>5, <4>2 DEF OtherTypes, NotSeen
      <4>4. QED
        BY <3>1, <3>5, <4>1, <4>3, BatchTypes
    <3>6. QED
      BY <3>2, <3>3, <3>4, <3>5, WaitReturnsCases
  <2>8. CASE Record \/ CallbackRaises \/ CheckpointFails
    <3>1. pc = "record"
      BY <2>8 DEF Record, CallbackRaises, CheckpointFails
    <3>2. QED
      BY <2>8, <3>1, RecordTypes
  <2>9. CASE CheckpointSaved
    <3>1. /\ pc = "checkpoint" /\ pc' = "next" /\ at' = at + 1 /\ count' = 0
          /\ UNCHANGED <<workflow, left, got, task, asked, intr, steps, saved, status, report,
                         wcancelled, pcancelled, stopAt, deadline, cancels, cutEmit, told>>
      BY <2>9 DEF CheckpointSaved, flags, outside
    <3>2. at \in Elements /\ at + 1 \in 1 .. Len(workflow.elements) + 1
      <4>1. at \in Elements
        BY <1>1, <3>1 DEF LoopTypes, InElement
      <4>2. QED
        BY <1>1, <4>1, WorkflowFacts
    <3>3. LoopTypes'
      <4>1. /\ pc' \in Loop /\ pc' \notin InElement \cup After \cup {"start", "waiting"}
            /\ pc \notin After
        BY <3>1 DEF Loop, After, InElement
      <4>2. QED
        BY <1>1, <3>1, <3>2, <4>1 DEF LoopTypes
    <3>4. OtherTypes'
      BY <1>1, <3>1 DEF OtherTypes
    <3>5. QED
      BY <3>3, <3>4, TypesSplit, PTL
  <2>10. CASE Announce
    <3>1. /\ pc' \in After /\ told' \in {told, told + 1} /\ pc \notin {"returned", "raised"}
          /\ UNCHANGED <<workflow, loopVars, count, saved, steps, report, task, asked, intr, status,
                         wcancelled, pcancelled, stopAt, deadline, cancels, cutEmit>>
      BY <2>10 DEF Announce, ListenersReturn, After, flags
    <3>2. LoopTypes'
      BY <1>1, <1>2, <3>1, LeaveTypes DEF LoopTypes
    <3>3. told' \in 0 .. 1
      BY <3>1 DEF Told
    <3>4. OtherTypes'
      BY <1>1, <3>1, <3>3 DEF OtherTypes
    <3>5. QED
      BY <3>2, <3>4, TypesSplit, PTL
  <2>11. QED
    BY <1>3, <2>1, <2>2, <2>3, <2>4, <2>5, <2>6, <2>7, <2>8, <2>9, <2>10 DEF Executor
<1>4. ASSUME NEW s \in Steps, StepTask(s) PROVE Types'
  <2>1. /\ \E x \in Live \cup Ended : task' = [task EXCEPT ![s] = x]
        /\ UNCHANGED <<workflow, pc, loopVars, steps, count, saved, report, asked, intr, status,
                       wcancelled, pcancelled, stopAt, deadline, cancels, cutEmit, told>>
    <3>1. CASE StepStarts(s)
      BY <3>1 DEF StepStarts, flags, outside, Live
    <3>2. CASE StepEnds(s)
      BY <3>2 DEF StepEnds, flags, outside, Ended, Returned
    <3>3. QED
      BY <1>4, <3>1, <3>2 DEF StepTask
  <2>2. LoopTypes'
    BY <2>1, SameTypes
  <2>3. OtherTypes'
    BY <1>1, <2>1 DEF OtherTypes
  <2>4. QED
    BY <2>2, <2>3, TypesSplit, PTL
<1>5. CASE TimeoutHits
  <2>1. Interrupt("timeout") /\ deadline' = "hit" /\ UNCHANGED <<cancels, cutEmit>>
    BY <1>5 DEF TimeoutHits
  <2>2. QED
    BY <1>1, <2>1, InterruptTypes DEF OtherTypes
<1>6. CASE CancelTask
  <2>1. cancels' \in 0 .. MaxCancels
    BY <1>1, <1>6, PipelinesAssumption DEF CancelTask, OtherTypes
  <2>2. CASE Interrupt("cancel") /\ UNCHANGED <<deadline, cutEmit>>
    BY <1>1, <2>1, <2>2, InterruptTypes DEF OtherTypes
  <2>3. CASE /\ pc' \in {"raised", "cancelled"} /\ cutEmit' \in {TRUE, cutEmit}
             /\ UNCHANGED <<workflow, loopVars, task, asked, intr, steps, count, saved,
                            status, flags, report, deadline, told>>
    <3>1. LoopTypes'
      <4>1. pc' \in After
        BY <2>3 DEF After
      <4>2. QED
        BY <1>1, <1>2, <2>3, <4>1, LeaveTypes DEF LoopTypes
    <3>2. OtherTypes'
      BY <1>1, <2>1, <2>3 DEF OtherTypes, flags
    <3>3. QED
      BY <3>1, <3>2, TypesSplit, PTL
  <2>4. QED
    BY <1>6, <2>2, <2>3 DEF CancelTask
<1>7. CASE Cancel
  <2>1. /\ UNCHANGED <<workflow, pc, loopVars, steps, count, saved, report, task, asked, intr,
                       deadline, cancels, cutEmit, told>>
        /\ wcancelled' = TRUE /\ pcancelled' = TRUE /\ status' = "cancelled"
        /\ stopAt' \in {0, stopAt, at - 1, at}
    BY <1>7 DEF Cancel, outside
  <2>2. LoopTypes'
    BY <2>1, SameTypes
  <2>3. stopAt' \in 0 .. Len(workflow.elements) + 1
    <3>1. Len(workflow.elements) \in Nat
      BY <1>1, WorkflowFacts
    <3>2. /\ at \in 1 .. Len(workflow.elements) + 1 /\ stopAt \in 0 .. Len(workflow.elements) + 1
      BY <1>1 DEF OtherTypes, LoopTypes
    <3>3. QED
      BY <2>1, <3>1, <3>2
  <2>4. OtherTypes'
    BY <1>1, <2>1, <2>3 DEF OtherTypes
  <2>5. QED
    BY <2>2, <2>4, TypesSplit, PTL
<1>8. CASE UNCHANGED vars
  <2>1. LoopTypes'
    BY <1>8, SameTypes DEF vars, outside
  <2>2. OtherTypes'
    BY <1>1, <1>8 DEF OtherTypes, vars, flags, outside
  <2>3. QED
    BY <2>1, <2>2, TypesSplit, PTL
<1>9. QED
  BY <1>3, <1>4, <1>5, <1>6, <1>7, <1>8 DEF Next, Terminated

-----------------------------------------------------------------------------
(***************************************************************************)
(* The end event and the checkpoints.                                      *)
(***************************************************************************)

\* The end is announced once.
LEMMA ToldStep ==
  ASSUME Types, Told, [Next]_vars
  PROVE  Told'
<1> DEFINE Final == {"returned", "raised"}
<1>1. told = 0 \/ pc \in Final
  BY DEF Told
<1>2. ASSUME pc \notin Final, pc' \notin Final, told' = told
      PROVE  Told'
  BY <1>2 DEF Told, EndAnnounced
<1>3. ASSUME UNCHANGED <<pc, told, cutEmit>>
      PROVE  Told'
  BY <1>3 DEF Told, EndAnnounced
<1>4. \A why : Interrupt(why) => Told'
  <2> SUFFICES ASSUME NEW why, Interrupt(why) PROVE Told'
    OBVIOUS
  <2>1. pc \in InElement /\ pc' \in {pc, "ending", "cancelling"} /\ told' = told
    BY DEF Interrupt, Unwind, InElement
  <2>2. QED
    BY <1>2, <2>1 DEF InElement
<1>5. CASE Executor
  <2>1. CASE Announce
    <3>1. pc \in {"error", "ending", "cancelling", "cancelled"} /\ told = 0 /\ cutEmit' = cutEmit
      BY <1>1, <2>1 DEF Announce, ListenersReturn
    <3>2. \/ pc' \notin Final /\ told' = told
          \/ pc' \in Final /\ told' = told + 1
      BY <2>1 DEF Announce, ListenersReturn
    <3>3. QED
      BY <3>1, <3>2 DEF Told, EndAnnounced
  <2>2. CASE Started \/ NextElement \/ LoopEnds \/ ConditionRaises
    BY <1>2, <2>2 DEF Started, NextElement, LoopEnds, ConditionRaises, Finish, Error, outside
  <2>3. CASE SingleReturns \/ GatherReturns
    BY <1>2, <2>3 DEF SingleReturns, GatherReturns, Error, Unwind, BatchReturns, outside
  <2>4. CASE FailFastReturns
    <3>1. PICK order \in Orders(Finished) : WaitReturns(Finished, order)
      BY <2>4 DEF FailFastReturns, Finished
    <3>2. pc = "waiting"
      BY <2>4 DEF FailFastReturns
    <3>3. Error(steps) \/ (\E r : BatchReturns(r)) \/ UNCHANGED <<pc, outside>>
      BY <3>1, WaitReturnsCases
    <3>4. pc' \notin Final /\ told' = told
      BY <3>2, <3>3 DEF Error, BatchReturns, outside
    <3>5. QED
      BY <1>2, <3>2, <3>4
  <2>5. CASE Record \/ CallbackRaises \/ CheckpointSaved \/ CheckpointFails
    <3>1. pc \notin Final /\ pc' \notin Final /\ told' = told
      BY <2>5 DEF Record, CallbackRaises, CheckpointSaved, CheckpointFails, Finish, Error, outside
    <3>2. QED
      BY <1>2, <3>1
  <2>6. QED
    BY <1>5, <2>1, <2>2, <2>3, <2>4, <2>5 DEF Executor
<1>6. ASSUME NEW s \in Steps, StepTask(s) PROVE Told'
  BY <1>3, <1>6 DEF StepTask, StepStarts, StepEnds, outside
<1>7. CASE TimeoutHits
  BY <1>4, <1>7 DEF TimeoutHits
<1>8. CASE CancelTask
  <2>1. CASE Interrupt("cancel")
    BY <1>4, <2>1
  <2>2. CASE pc \in {"start", "error", "ending", "cancelled"} /\ pc' = "raised" /\ cutEmit' = TRUE
    BY <2>2 DEF Told, EndAnnounced
  <2>3. CASE pc = "cancelling" /\ pc' = "cancelled" /\ told' = told
    BY <1>2, <2>3
  <2>4. QED
    BY <1>8, <2>1, <2>2, <2>3 DEF CancelTask
<1>9. CASE Cancel \/ UNCHANGED vars
  BY <1>3, <1>9 DEF Cancel, vars, outside
<1>10. QED
  BY <1>5, <1>6, <1>7, <1>8, <1>9 DEF Next, Terminated

\* The counter counts what no checkpoint holds yet.
LEMMA CounterStep ==
  ASSUME Types, Order, Counter, [Next]_vars
  PROVE  Counter'
<1> DEFINE Before == {"start", "next", "waiting", "record"}
<1>1. /\ TypeOK /\ steps \in Results /\ got \in Results
      /\ Len(steps) \in Nat /\ Len(got) \in Nat /\ count \in Nat /\ saved \in Nat
      /\ workflow.interval \in Nat /\ saved <= Len(steps)
  <2>1. TypeOK /\ steps \in Results /\ got \in Results /\ LoopTypes
    BY ResultTypes, TypesSplit DEF Types
  <2>2. QED
    BY <2>1, ResultFacts, WorkflowFacts DEF LoopTypes
<1>2. ASSUME pc' \in After, workflow' = workflow PROVE Counter'
  BY <1>2 DEF Counter, After
<1>3. ASSUME pc \in Before, pc' \in Before, UNCHANGED <<workflow, steps, saved, count>>
      PROVE  Counter'
  BY <1>3 DEF Counter
<1>4. ASSUME UNCHANGED <<workflow, pc, steps, saved, count>>
      PROVE  Counter'
  BY <1>4 DEF Counter
<1>5. \A why : Interrupt(why) => Counter'
  <2> SUFFICES ASSUME NEW why, Interrupt(why) PROVE Counter'
    OBVIOUS
  <2>1. workflow' = workflow /\ (pc' \in After \/ UNCHANGED <<pc, steps, saved, count>>)
    BY DEF Interrupt, Unwind, After
  <2>2. QED
    BY <1>2, <1>4, <2>1
<1>6. \A r : Error(r) => Counter'
  BY <1>2 DEF Error, After
<1>7. \A r : BatchReturns(r) /\ pc = "waiting" => Counter'
  BY <1>3 DEF BatchReturns
<1>8. \A w : Unwind(w) => Counter'
  BY <1>2 DEF Unwind, After
<1>9. CASE Executor
  <2>1. CASE Announce
    BY <1>2, <2>1 DEF Announce, ListenersReturn, After
  <2>2. CASE Started \/ NextElement
    BY <1>3, <2>2 DEF Started, NextElement
  <2>3. CASE LoopEnds
    BY <1>2, <2>3 DEF LoopEnds, Finish, After
  <2>4. CASE ConditionRaises
    BY <1>6, <2>4 DEF ConditionRaises
  <2>5. CASE SingleReturns
    BY <1>6, <1>7, <1>8, <2>5 DEF SingleReturns
  <2>6. CASE GatherReturns
    BY <1>6, <1>7, <1>8, <2>6 DEF GatherReturns
  <2>7. CASE FailFastReturns
    <3>1. PICK order \in Orders(Finished) : WaitReturns(Finished, order)
      BY <2>7 DEF FailFastReturns, Finished
    <3>2. pc = "waiting"
      BY <2>7 DEF FailFastReturns
    <3>3. \/ Error(steps) \/ (\E r : BatchReturns(r))
          \/ UNCHANGED <<workflow, pc, steps, saved, count>>
      BY <3>1, WaitReturnsCases
    <3>4. QED
      BY <1>4, <1>6, <1>7, <3>2, <3>3
  <2>8. CASE Record
    <3>1. CASE StopsAtFailure /\ FailedIn(got) # {}
      BY <1>2, <2>8, <3>1 DEF Record, Finish, After
    <3>2. CASE ~(StopsAtFailure /\ FailedIn(got) # {})
      <4>1. pc = "record"
        BY <2>8 DEF Record
      <4>2. Recorded = got
        BY <3>2, <4>1, RecordedFacts
      <4>3. steps' = steps \o got /\ Len(steps \o got) = Len(steps) + Len(got) /\ workflow' = workflow
        BY <1>1, <2>8, <3>2, <4>2, Appended DEF Record
      <4>4. ASSUME workflow.interval > 0
            PROVE  /\ count = Len(steps) - saved /\ count' = count + Len(got)
                   /\ \/ pc' = "checkpoint" /\ saved' = Len(steps')
                      \/ ~(count + Len(got) >= workflow.interval) /\ pc' = "next" /\ saved' = saved
        BY <2>8, <3>2, <4>1, <4>4 DEF Record, CheckpointDue, CountAfter, Counter
      <4>5. CASE workflow.interval > 0
        <5>1. CASE pc' = "checkpoint" /\ saved' = Len(steps')
          BY <5>1 DEF Counter
        <5>2. CASE ~(count + Len(got) >= workflow.interval) /\ pc' = "next" /\ saved' = saved
          <6>1. count' = Len(steps') - saved' /\ count' < workflow'.interval
            BY <1>1, <4>3, <4>4, <4>5, <5>2
          <6>2. QED
            BY <5>2, <6>1 DEF Counter
        <5>3. QED
          BY <4>4, <4>5, <5>1, <5>2
      <4>6. QED
        BY <4>3, <4>5 DEF Counter
    <3>3. QED
      BY <3>1, <3>2
  <2>9. CASE CallbackRaises
    BY <1>6, <2>9 DEF CallbackRaises
  <2>10. CASE CheckpointFails
    BY <1>6, <2>10 DEF CheckpointFails
  <2>11. CASE CheckpointSaved
    <3>1. /\ count' = 0 /\ pc = "checkpoint" /\ pc' = "next" /\ UNCHANGED <<workflow, steps, saved>>
      BY <2>11 DEF CheckpointSaved
    <3>2. workflow.interval > 0 => saved = Len(steps)
      BY <3>1 DEF Counter
    <3>3. workflow.interval > 0 => count' = Len(steps) - saved /\ count' < workflow.interval
      BY <1>1, <3>1, <3>2
    <3>4. QED
      BY <3>1, <3>3 DEF Counter
  <2>12. QED
    BY <1>9, <2>1, <2>2, <2>3, <2>4, <2>5, <2>6, <2>7, <2>8, <2>9, <2>10, <2>11 DEF Executor
<1>10. ASSUME NEW s \in Steps, StepTask(s) PROVE Counter'
  BY <1>4, <1>10 DEF StepTask, StepStarts, StepEnds
<1>11. CASE TimeoutHits
  BY <1>5, <1>11 DEF TimeoutHits
<1>12. CASE CancelTask
  <2>1. CASE Interrupt("cancel")
    BY <1>5, <2>1
  <2>2. CASE pc' \in After /\ workflow' = workflow
    BY <1>2, <2>2
  <2>3. QED
    BY <1>12, <2>1, <2>2 DEF CancelTask, After
<1>13. CASE Cancel \/ UNCHANGED vars
  BY <1>4, <1>13 DEF Cancel, vars
<1>14. QED
  BY <1>9, <1>10, <1>11, <1>12, <1>13 DEF Next, Terminated

-----------------------------------------------------------------------------
(***************************************************************************)
(* Which tasks a step of execute() starts, and when it may.                *)
(***************************************************************************)

\* The steps in M, of the current element, begin and no other task changes.
Starts(M) ==
    /\ M \subseteq ElementSteps(at) /\ M \subseteq Steps
    /\ \A s \in M : task[s] = "none" /\ task'[s] \in Live
    /\ \A s \in Steps : s \notin M => task'[s] = task[s]

LEMMA BatchStarts ==
  ASSUME Types, Order, pc = "waiting", NEW r, BatchReturns(r)
  PROVE  \/ /\ FailedIn(r) = {} /\ pc' = "waiting" /\ Starts(Members')
         \/ pc' = "record" /\ UNCHANGED task
<1>1. PICK arm, k : arm \in Arms /\ k \in 1 .. Len(arm) /\ InBatch(arm, k)
  BY DEF Order, Current
<1>2. CASE Len(left) = 1 \/ FailedIn(r) # {}
  BY <1>2 DEF BatchReturns
<1>3. CASE Len(left) # 1 /\ FailedIn(r) = {}
  <2>1. pc' = "waiting" /\ left' = Tail(left) /\ Begin(left[2])
    BY <1>3 DEF BatchReturns
  <2>2. TypeOK /\ at \in Elements /\ arm \in ArmsOf(at) /\ Len(arm) \in Nat
    BY <1>1, BatchFacts DEF Types
  <2>3. /\ k + 1 \in 1 .. Len(arm) /\ left[2] = arm[k + 1]
        /\ Len(Tail(left)) = Len(arm) - (k + 1) + 1
        /\ \A j \in 1 .. Len(Tail(left)) : Tail(left)[j] = arm[(k + 1) - 1 + j]
    BY <1>1, <1>3, BatchFacts
  <2>4. (k + 1) - 1 = k /\ (k + 1) - 1 + 1 = k + 1 /\ 1 \in 1 .. Len(Tail(left))
    BY <1>1, <2>2, <2>3
  <2>5. Batch' = arm[k + 1]
    <3>1. Tail(left)[1] = arm[k + 1]
      BY <2>3, <2>4
    <3>2. Tail(left) \in Seq(Batches) /\ Tail(left) # <<>>
      <4>1. left \in Seq(Batches) /\ left # <<>>
        BY <2>2 DEF TypeOK
      <4>2. Tail(left) \in Seq(Batches)
        BY <4>1, HeadTailProperties
      <4>3. \A n : 1 \in 1 .. n => n # 0
        OBVIOUS
      <4>4. Len(Tail(left)) # 0
        BY <2>4, <4>3
      <4>5. QED
        BY <4>2, <4>4, EmptySeq
    <3>3. QED
      BY <2>1, <3>1, <3>2, HeadTailProperties DEF Batch
  <2> DEFINE M == Range(arm[k + 1].steps)
  <2>6. /\ UpTo(arm, (k + 1) - 1) \cap M = {} /\ M \subseteq Steps
        /\ UpTo(arm, k + 1) \cap M = M /\ UpTo(arm, k + 1) \subseteq ElementSteps(at)
    BY <2>2, <2>3, RangeFacts
  <2>7. \A s \in M : s \in ElementSteps(at) /\ s \in Steps /\ s \notin UpTo(arm, k)
    BY <2>4, <2>6
  <2>8. \A s \in M : task[s] = "none"
    BY <1>1, <2>7 DEF InBatch
  <2>9. \A s \in Steps : IF s \in M THEN task'[s] \in Live ELSE task'[s] = task[s]
    BY <2>1, <2>3 DEF Begin, Live
  <2>10. Starts(M) /\ Members' = M
    BY <2>5, <2>7, <2>8, <2>9 DEF Starts, Members
  <2>11. QED
    BY <1>3, <2>1, <2>10
<1>4. QED
  BY <1>2, <1>3

LEMMA NextElementStarts ==
  ASSUME Types, Order, NextElement
  PROVE  \/ pc' = "waiting" /\ at \in Elements /\ Starts(Members')
         \/ pc' = "record" /\ at \in Elements /\ UNCHANGED task
<1>1. pc = "next" /\ at <= Len(workflow.elements) /\ TypeOK /\ Tasks
  BY DEF NextElement, Types, Order
<1>2. PICK arm \in Arms :
         /\ left' = arm
         /\ IF arm = <<>>
              THEN pc' = "record" /\ UNCHANGED task
              ELSE pc' = "waiting" /\ Begin(arm[1])
  BY DEF NextElement
<1>3. at \in Elements
  BY <1>1, WorkflowFacts DEF TypeOK
<1>4. /\ arm \in ArmsOf(at) /\ arm \in Seq(Batches) /\ Len(arm) \in Nat
  <2>1. arm \in ArmsOf(at)
    BY DEF Arms, ArmsOf
  <2>2. QED
    BY <1>1, <1>3, <2>1, ArmFacts
<1>5. CASE arm = <<>>
  BY <1>2, <1>3, <1>5
<1>6. CASE arm # <<>>
  <2> DEFINE M == Range(arm[1].steps)
  <2>1. pc' = "waiting" /\ Begin(arm[1])
    BY <1>2, <1>6
  <2>2. 1 \in 1 .. Len(arm) /\ Head(arm) = arm[1]
    BY <1>4, <1>6, EmptySeq, HeadTailProperties
  <2>3. UpTo(arm, 1) \cap M = M /\ UpTo(arm, 1) \subseteq ElementSteps(at) /\ M \subseteq Steps
    BY <1>1, <1>3, <1>4, <2>2, RangeFacts
  <2>4. \A s \in M : s \in ElementSteps(at) /\ s \in Steps
    BY <2>3
  <2>5. \A s \in M : task[s] = "none"
    BY <1>1, <1>3, <2>4 DEF Tasks
  <2>6. \A s \in Steps : IF s \in M THEN task'[s] \in Live ELSE task'[s] = task[s]
    BY <2>1 DEF Begin, Live
  <2>7. Members' = M
    BY <1>2, <2>2 DEF Members, Batch
  <2>8. Starts(M)
    BY <2>4, <2>5, <2>6 DEF Starts
  <2>9. QED
    BY <1>3, <2>1, <2>7, <2>8
<1>7. QED
  BY <1>5, <1>6

\* A step begins in NextElement or when a batch returns, and in no other action.
LEMMA WhoStarts ==
  ASSUME Types, Order, [Next]_vars
  PROVE  \/ /\ NextElement \/ (pc = "waiting" /\ \E r : BatchReturns(r))
            /\ pc' = "waiting" /\ Starts(Members')
         \/ /\ UNCHANGED task
         \/ /\ \E s \in Steps : StepTask(s)
<1>1. CASE Executor
  <2>1. CASE NextElement
    BY <2>1, NextElementStarts
  <2>2. CASE SingleReturns
    <3>1. pc = "waiting" /\ (UNCHANGED task \/ \E r : BatchReturns(r))
      BY <2>2 DEF SingleReturns
    <3>2. QED
      BY <3>1, BatchStarts
  <2>3. CASE GatherReturns
    <3>1. pc = "waiting" /\ (UNCHANGED task \/ \E r : BatchReturns(r))
      BY <2>3 DEF GatherReturns
    <3>2. QED
      BY <3>1, BatchStarts
  <2>4. CASE FailFastReturns
    <3>1. PICK order \in Orders(Finished) : WaitReturns(Finished, order)
      BY <2>4 DEF FailFastReturns, Finished
    <3>2. pc = "waiting"
      BY <2>4 DEF FailFastReturns
    <3>3. UNCHANGED task \/ \E r : BatchReturns(r)
      BY <3>1, WaitReturnsCases
    <3>4. QED
      BY <3>2, <3>3, BatchStarts
  <2>5. CASE UNCHANGED task
    BY <2>5
  <2>6. QED
    BY <1>1, <2>1, <2>2, <2>3, <2>4, <2>5
       DEF Executor, Started, LoopEnds, ConditionRaises, Record, CallbackRaises, CheckpointSaved,
           CheckpointFails, Announce, ListenersReturn
<1>2. CASE \E s \in Steps : StepTask(s)
  BY <1>2
<1>3. CASE TimeoutHits \/ CancelTask \/ Cancel \/ UNCHANGED vars
  BY <1>3 DEF TimeoutHits, CancelTask, Cancel, Interrupt, vars
<1>4. QED
  BY <1>1, <1>2, <1>3 DEF Next, Terminated

\* What one step does to a task.
LEMMA TaskSteps ==
  ASSUME Types, Order, [Next]_vars, NEW s \in Steps
  PROVE  /\ task[s] = "none" => task'[s] \in {"none"} \cup Live
         /\ task[s] \in Live => task'[s] \in Live \cup Ended
         /\ task[s] \notin {"none"} \cup Live => task'[s] = task[s]
<1>1. task \in [Steps -> {"none"} \cup Live \cup Ended]
  BY DEF Types, TypeOK
<1>2. CASE \E M : Starts(M)
  BY <1>1, <1>2 DEF Starts, Live
<1>3. CASE UNCHANGED task
  BY <1>1, <1>3
<1>4. CASE \E t \in Steps : StepTask(t)
  <2>1. PICK t \in Steps : /\ task[t] \in Live
                           /\ \E x \in Live \cup Ended : task' = [task EXCEPT ![t] = x]
    BY <1>4 DEF StepTask, StepStarts, StepEnds, Live, Ended, Returned
  <2>2. QED
    BY <1>1, <2>1 DEF Live
<1>5. QED
  BY <1>2, <1>3, <1>4, WhoStarts

\* What only a few actions change.
LEMMA Kept ==
  ASSUME [Next]_vars
  PROVE  /\ workflow' = workflow /\ (pc' = "start" => pc = "start")
         /\ Cancel \/ (UNCHANGED stopAt /\ (Started \/ UNCHANGED <<wcancelled, pcancelled>>))
         /\ pc' \in InElement => NextElement \/ (pc \in InElement /\ at' = at)
<1> DEFINE K == /\ workflow' = workflow /\ (pc' = "start" => pc = "start")
                /\ UNCHANGED <<stopAt, wcancelled, pcancelled>>
                /\ pc' \in InElement => pc \in InElement /\ at' = at
<1>1. ASSUME NEW r, Error(r) PROVE K
  BY <1>1 DEF Error, InElement, flags
<1>2. ASSUME NEW r, NEW o, Finish(r, o) PROVE K
  BY <1>2 DEF Finish, InElement, flags
<1>3. ASSUME NEW r, BatchReturns(r), pc = "waiting" PROVE K
  BY <1>3 DEF BatchReturns, InElement, flags
<1>4. ASSUME NEW w, Unwind(w) PROVE K
  BY <1>4 DEF Unwind, InElement, flags
<1>5. ASSUME UNCHANGED <<workflow, pc, at, flags>> PROVE K
  BY <1>5 DEF flags
<1>6. ASSUME NEW w, Interrupt(w) PROVE K
  <2>1. (\E v : Unwind(v)) \/ UNCHANGED <<workflow, pc, loopVars, flags>>
    BY <1>6 DEF Interrupt
  <2>2. QED
    BY <1>4, <1>5, <2>1 DEF loopVars
<1>7. CASE Executor
  <2>1. CASE Started
    BY <2>1 DEF Started, InElement
  <2>2. CASE NextElement
    BY <2>2 DEF NextElement, flags
  <2>3. CASE FailFastReturns
    <3>1. PICK order \in Orders(Finished) : WaitReturns(Finished, order)
      BY <2>3 DEF FailFastReturns, Finished
    <3>2. Error(steps) \/ (\E r : BatchReturns(r)) \/ UNCHANGED <<workflow, pc, at, flags>>
      BY <3>1, WaitReturnsCases
    <3>3. pc = "waiting"
      BY <2>3 DEF FailFastReturns
    <3>4. K
      BY <1>1, <1>3, <1>5, <3>2, <3>3
    <3>5. QED
      BY <3>4
  <2>4. CASE SingleReturns \/ GatherReturns
    <3>1. pc = "waiting" /\ (Error(steps) \/ (\E r : BatchReturns(r)) \/ Unwind(intr))
      BY <2>4 DEF SingleReturns, GatherReturns
    <3>2. K
      BY <1>1, <1>3, <1>4, <3>1
    <3>3. QED
      BY <3>2
  <2>5. CASE LoopEnds \/ ConditionRaises \/ CallbackRaises \/ CheckpointFails
    <3>1. (\E r, o : Finish(r, o)) \/ (\E r : Error(r))
      BY <2>5 DEF LoopEnds, ConditionRaises, CallbackRaises, CheckpointFails
    <3>2. K
      BY <1>1, <1>2, <3>1
    <3>3. QED
      BY <3>2
  <2>6. CASE Record
    <3>1. CASE \E r : Finish(r, "failed")
      <4>1. K
        BY <1>2, <3>1
      <4>2. QED
        BY <4>1
    <3>2. CASE /\ pc = "record" /\ UNCHANGED <<workflow, flags>>
               /\ (pc' = "checkpoint" /\ at' = at) \/ pc' = "next"
      BY <3>2 DEF InElement, flags
    <3>3. QED
      BY <2>6, <3>1, <3>2 DEF Record
  <2>7. CASE CheckpointSaved \/ Announce
    BY <2>7 DEF CheckpointSaved, Announce, ListenersReturn, InElement, flags
  <2>8. QED
    BY <1>7, <2>1, <2>2, <2>3, <2>4, <2>5, <2>6, <2>7 DEF Executor
<1>8. CASE \E s \in Steps : StepTask(s)
  <2>1. UNCHANGED <<workflow, pc, at, flags>>
    BY <1>8 DEF StepTask, StepStarts, StepEnds, loopVars
  <2>2. QED
    BY <1>5, <2>1
<1>9. CASE TimeoutHits
  BY <1>6, <1>9 DEF TimeoutHits
<1>10. CASE CancelTask
  <2>1. CASE Interrupt("cancel")
    BY <1>6, <2>1
  <2>2. CASE pc' \in {"raised", "cancelled"} /\ UNCHANGED <<workflow, flags>>
    BY <2>2 DEF flags, InElement
  <2>3. QED
    BY <1>10, <2>1, <2>2 DEF CancelTask
<1>11. CASE Cancel
  BY <1>11 DEF Cancel, loopVars
<1>12. CASE UNCHANGED vars
  BY <1>5, <1>12 DEF vars, loopVars
<1>13. QED
  BY <1>7, <1>8, <1>9, <1>10, <1>11, <1>12 DEF Next, Terminated

\* cancel() lets the current element finish and no later one start.
LEMMA StopsStep ==
  ASSUME Types, Order, Stops, [Next]_vars
  PROVE  Stops'
<1> USE SameWorkflow, Kept
<1> DEFINE N == Len(workflow.elements)
<1>1. /\ TypeOK /\ Tasks /\ N \in Nat /\ Elements = 1 .. N /\ at \in 1 .. N + 1
      /\ stopAt \in 0 .. N + 1 /\ (pc \in InElement => at \in Elements)
      /\ \A i \in Elements : ElementSteps(i) \subseteq Steps
  <2>1. TypeOK /\ Tasks
    BY DEF Types, Order
  <2>2. QED
    BY <2>1, WorkflowFacts, ElementFacts DEF Types, TypeOK
<1>2. workflow' = workflow
  OBVIOUS
<1>3. \A i \in Elements : i > stopAt => \A s \in ElementSteps(i) : task[s] = "none"
  BY <1>1 DEF Stops, CancelStops
<1>4. ASSUME \A i \in Elements : i > stopAt' => \A s \in ElementSteps(i) : task'[s] = "none",
             stopAt' \in Nat
      PROVE  CancelStops'
  <2>1. \A i \in stopAt' + 1 .. N : i \in Elements /\ i > stopAt'
    <3>1. \A a, n \in Nat : \A i \in a + 1 .. n : i \in 1 .. n /\ i > a
      OBVIOUS
    <3> HIDE DEF N
    <3>2. QED
      BY <1>1, <1>4, <3>1
  <2>2. QED
    BY <1>2, <1>4, <2>1 DEF CancelStops
<1>5. CASE Cancel
  <2>1. /\ UNCHANGED <<pc, at, task>> /\ Flag'
        /\ stopAt' = CASE pc = "start" -> IF IsList THEN 0 ELSE stopAt
                       [] pc = "next" -> at - 1
                       [] OTHER -> at
    BY <1>5 DEF Cancel, loopVars, Flag
  <2>2. pc = "start" => at = 1
    BY DEF Types
  <2>3. ~Flag' \/ (pc' = "start" /\ ~IsList') => stopAt' = Len(workflow'.elements)
    <3>1. pc = "start" /\ ~IsList => stopAt' = stopAt /\ stopAt = N
      BY <2>1 DEF Stops
    <3>2. QED
      BY <1>2, <2>1, <3>1
  <2>4. pc' \in InElement => at' <= stopAt'
    BY <1>1, <2>1 DEF InElement
  <2>5. stopAt' \in Nat
    BY <1>1, <2>1
  <2>6. ASSUME NEW i \in Elements, i > stopAt' PROVE \A s \in ElementSteps(i) : task'[s] = "none"
    <3>1. CASE i > stopAt
      BY <1>3, <2>1, <3>1
    <3>2. CASE i > at \/ (i = at /\ pc \in {"start", "next"})
      BY <1>1, <2>1, <3>2 DEF Tasks
    <3>3. i > stopAt \/ i > at \/ (i = at /\ pc \in {"start", "next"})
      BY <1>1, <2>1, <2>2, <2>6
    <3>4. QED
      BY <3>1, <3>2, <3>3
  <2>7. CancelStops'
    BY <1>4, <2>5, <2>6
  <2>8. QED
    BY <2>3, <2>4, <2>7 DEF Stops
<1>6. CASE stopAt' = stopAt /\ (Started \/ UNCHANGED <<wcancelled, pcancelled>>)
  <2>1. ~Flag' \/ (pc' = "start" /\ ~IsList') => stopAt' = Len(workflow'.elements)
    <3>1. CASE Started
      <4>1. pc = "start" /\ pc' = "next" /\ (IsList => Flag' = Flag)
        BY <3>1 DEF Started, Flag
      <4>2. QED
        BY <1>2, <1>6, <4>1 DEF Stops
    <3>2. CASE UNCHANGED <<wcancelled, pcancelled>>
      <4>1. Flag' = Flag
        BY <3>2 DEF Flag, IsList
      <4>2. QED
        BY <1>2, <1>6, <4>1 DEF Stops
    <3>3. QED
      BY <1>6, <3>1, <3>2
  <2>2. NextElement => at \in Elements /\ at' = at /\ stopAt = N
    BY <1>1 DEF NextElement, Stops
  <2>3. pc' \in InElement => at' <= stopAt'
    BY <1>1, <1>6, <2>2 DEF Stops
  <2>4. ASSUME NEW i \in Elements, i > stopAt', NEW s \in ElementSteps(i) PROVE task'[s] = "none"
    <3>1. s \in Steps /\ task[s] = "none"
      BY <1>1, <1>3, <1>6, <2>4
    <3>2. CASE /\ NextElement \/ (pc = "waiting" /\ \E r : BatchReturns(r))
               /\ Starts(Members')
      <4>1. at \in Elements /\ at <= stopAt
        BY <1>1, <2>2, <3>2 DEF Stops, InElement
      <4>2. i # at
        BY <1>1, <1>6, <2>4, <4>1
      <4>3. s \notin ElementSteps(at)
        BY <1>1, <4>1, <4>2, ElementFacts
      <4>4. QED
        BY <3>1, <3>2, <4>3 DEF Starts
    <3>3. CASE UNCHANGED task
      BY <3>1, <3>3
    <3>4. CASE \E t \in Steps : StepTask(t)
      <4>1. PICK t \in Steps : task[t] \in Live /\ \E x : task' = [task EXCEPT ![t] = x]
        BY <3>4 DEF StepTask, StepStarts, StepEnds, Live
      <4>2. t # s /\ task \in [Steps -> {"none"} \cup Live \cup Ended]
        BY <1>1, <3>1, <4>1 DEF Live, TypeOK
      <4>3. QED
        BY <3>1, <4>1, <4>2
    <3>5. QED
      BY <3>2, <3>3, <3>4, WhoStarts
  <2>5. CancelStops'
    BY <1>1, <1>4, <1>6, <2>4
  <2>6. QED
    BY <2>1, <2>3, <2>5 DEF Stops
<1>7. QED
  BY <1>5, <1>6

-----------------------------------------------------------------------------
(***************************************************************************)
(* Cancels and the timeout.                                                *)
(***************************************************************************)

\* How the wait for a batch can end.
LEMMA CollectCases ==
  ASSUME Types, Order, SingleReturns \/ GatherReturns \/ FailFastReturns
  PROVE  /\ pc = "waiting"
         /\ \/ /\ Error(steps) /\ UNCHANGED <<task, asked>> /\ \E t \in Steps : task[t] = "raised"
            \/ /\ Unwind(intr) /\ UNCHANGED <<task, asked, deadline, cancels, cutEmit>>
               /\ Batch.mode # "failfast" /\ (intr # "none" \/ Members \cap asked # {})
            \/ /\ Batch.mode = "failfast"
               /\ UNCHANGED <<workflow, pc, at, left, task, asked, intr, deadline, cancels>>
            \/ \E r \in Results :
                 /\ BatchReturns(r) /\ intr' \in {"none", intr} /\ asked \subseteq asked'
                 /\ \A s \in Steps : s \in asked' => task[s] # "none"
                 /\ \A s \in Members : task[s] \in Live => s \in asked'
                 /\ Batch.mode = "all" => intr = "none"
                 /\ Batch.mode = "single" /\ FailedIn(r) = {} =>
                        \E s \in Members : task[s] \in {"success", "skipped"}
<1>1. pc = "waiting" /\ Current /\ Tasks
  BY DEF SingleReturns, GatherReturns, FailFastReturns, Order
<1>2. PICK arm, k : arm \in Arms /\ k \in 1 .. Len(arm) /\ InBatch(arm, k)
  BY <1>1 DEF Current
<1>3. /\ Members \subseteq Steps /\ (Batch.mode = "single" => \A s, t \in Members : s = t)
      /\ \A s \in Members : task[s] # "none"
  BY <1>1, <1>2, MemberFacts
<1>4. \A s \in Steps : s \in asked => task[s] # "none"
  BY <1>1 DEF Tasks
<1>5. \A s \in Members : task[s] = "cancelled" => Members \cap asked # {}
  BY <1>1, <1>3 DEF Tasks
<1>6. CASE SingleReturns
  <2>1. Batch.mode = "single"
    BY <1>6 DEF SingleReturns
  <2>2. PICK s \in Members :
           \/ /\ task[s] \in Returned /\ BatchReturns(<<Result(s)>>)
              /\ intr' = "none" /\ UNCHANGED asked
           \/ /\ task[s] = "raised" /\ Error(steps) /\ UNCHANGED <<task, asked>>
           \/ /\ task[s] = "cancelled" /\ Unwind(intr)
              /\ UNCHANGED <<task, asked, deadline, cancels, cutEmit>>
    BY <1>6 DEF SingleReturns
  <2>3. CASE /\ task[s] \in Returned /\ BatchReturns(<<Result(s)>>)
             /\ intr' = "none" /\ UNCHANGED asked
    <3> DEFINE r == <<Result(s)>>
    <3>1. r \in Results
      BY <1>1, <2>1, <2>3, SingleCovers DEF Covers
    <3>2. Len(r) = 1 /\ r[1].status = task[s] /\ 1 \in 1 .. Len(r)
      BY DEF Result
    <3>3. BatchReturns(r)
      BY <2>3
    <3> HIDE DEF r
    <3>4. FailedIn(r) = {} => task[s] \in {"success", "skipped"}
      BY <2>3, <3>2 DEF FailedIn, Returned
    <3>5. \A t \in Members : task[t] \notin Live
      BY <1>3, <2>1, <2>3 DEF Live, Returned
    <3>6. QED
      BY <1>1, <1>4, <2>1, <2>3, <3>1, <3>3, <3>4, <3>5
  <2>4. QED
    BY <1>1, <1>3, <1>5, <2>1, <2>2, <2>3
<1>7. CASE GatherReturns
  <2> DEFINE r == [i \in 1 .. Len(Batch.steps) |-> Result(Batch.steps[i])]
  <2>1. /\ Batch.mode = "all" /\ UNCHANGED asked
        /\ \/ (\E s \in Members : task[s] = "raised") /\ Error(steps) /\ UNCHANGED task
           \/ /\ (\E s \in Members : task[s] = "cancelled") \/ intr # "none"
              /\ Unwind(intr) /\ UNCHANGED <<task, deadline, cancels, cutEmit>>
           \/ /\ \A s \in Members : task[s] \in Returned
              /\ intr = "none" /\ BatchReturns(r) /\ UNCHANGED intr
    BY <1>7 DEF GatherReturns
  <2> HIDE DEF r
  <2>2. CASE /\ \A s \in Members : task[s] \in Returned
             /\ intr = "none" /\ BatchReturns(r) /\ UNCHANGED intr
    <3>1. r \in Results
      BY <1>1, <2>1, <2>2, GatherCovers DEF Covers, r
    <3>2. \A t \in Members : task[t] \notin Live
      BY <2>2 DEF Live, Returned
    <3>3. QED
      BY <1>1, <1>4, <2>1, <2>2, <3>1, <3>2
  <2>3. CASE (\E s \in Members : task[s] = "raised") /\ Error(steps) /\ UNCHANGED task
    BY <1>1, <1>3, <2>1, <2>3
  <2>4. CASE /\ (\E s \in Members : task[s] = "cancelled") \/ intr # "none"
             /\ Unwind(intr) /\ UNCHANGED <<task, deadline, cancels, cutEmit>>
    BY <1>1, <1>5, <2>1, <2>4
  <2>5. QED
    BY <2>1, <2>2, <2>3, <2>4
<1>8. CASE FailFastReturns
  <2>1. Batch.mode = "failfast"
    BY <1>8 DEF FailFastReturns
  <2>2. PICK order \in Orders(Finished) : WaitReturns(Finished, order)
    BY <1>8 DEF FailFastReturns, Finished
  <2>3. CASE /\ FailuresIn(order) # {} /\ task[order[LookedAt(order)]] = "raised"
             /\ Error(steps) /\ UNCHANGED <<task, asked>>
    BY <1>1, <2>1, <2>3, SeenFacts
  <2>4. CASE UNCHANGED <<workflow, pc, at, left, task, asked, intr, steps, count, saved,
                         status, flags, report, outside>>
    BY <1>1, <2>1, <2>4 DEF outside
  <2>5. CASE /\ ~(FailuresIn(order) # {} /\ task[order[LookedAt(order)]] = "raised")
             /\ BatchReturns(Seen(order)) /\ asked' = asked \cup NotSeen /\ UNCHANGED intr
    <3>1. Seen(order) \in Results
      BY <1>1, <2>1, <2>5, SeenFacts
    <3>2. NotSeen \subseteq Members
      BY DEF NotSeen
    <3>3. \A s \in Members : task[s] \in Live => s \in NotSeen
      <4>1. \A s \in Collected : task[s] \in Returned
        <5>1. got \in Results /\ Faithful(got) /\ Collected = StepsIn(got)
          BY <1>1, ResultTypes DEF Current, Collected, StepsIn
        <5>2. QED
          BY <5>1, ResultFacts DEF Faithful
      <4>2. QED
        BY <4>1 DEF NotSeen, Finished, Live, Ended, Returned
    <3>4. \A s \in Steps : s \in asked' => task[s] # "none"
      BY <1>3, <1>4, <2>5, <3>2
    <3>5. QED
      BY <1>1, <2>1, <2>5, <3>1, <3>3, <3>4
  <2>6. QED
    BY <2>2, <2>3, <2>4, <2>5, WaitReturnsCases
<1>9. QED
  BY <1>6, <1>7, <1>8

\* A reason to have left a task behind stays one.
LEMMA ReasonsKept ==
  ASSUME Types, Order, [Next]_vars
  PROVE  /\ deadline = "hit" => deadline' = "hit"
         /\ cancels > 0 => cancels' > 0
         /\ asked \subseteq asked'
         /\ (\E t \in Steps : task[t] = "raised") => \E t \in Steps : task'[t] = "raised"
<1>1. cancels \in Nat /\ (pc = "start" => deadline = "off")
  BY PipelinesAssumption DEF Types, TypeOK
<1>2. (\E t \in Steps : task[t] = "raised") => \E t \in Steps : task'[t] = "raised"
  BY TaskSteps DEF Live
<1> DEFINE K == /\ deadline = "hit" => deadline' = "hit"
                /\ cancels' = cancels /\ asked \subseteq asked'
<1>3. CASE Executor
  <2>1. ASSUME SingleReturns \/ GatherReturns \/ FailFastReturns PROVE K
    BY <2>1, CollectCases DEF Error, Disarm, BatchReturns, outside
  <2>2. ASSUME Started PROVE K
    BY <1>1, <2>2 DEF Started
  <2>3. ASSUME NextElement \/ CheckpointSaved \/ Announce PROVE K
    BY <2>3 DEF NextElement, CheckpointSaved, Announce, ListenersReturn, outside
  <2>4. ASSUME LoopEnds \/ ConditionRaises \/ CallbackRaises \/ CheckpointFails PROVE K
    BY <2>4 DEF LoopEnds, ConditionRaises, CallbackRaises, CheckpointFails, Finish, Error, Disarm
  <2>5. ASSUME Record PROVE K
    BY <2>5 DEF Record, Finish, Disarm, outside
  <2>6. K
    BY <1>3, <2>1, <2>2, <2>3, <2>4, <2>5 DEF Executor
  <2>7. QED
    BY <1>2, <2>6
<1>4. CASE \E s \in Steps : StepTask(s)
  BY <1>2, <1>4 DEF StepTask, StepStarts, StepEnds, outside
<1>5. CASE TimeoutHits
  BY <1>2, <1>5 DEF TimeoutHits, Interrupt, Unwind
<1>6. CASE CancelTask
  <2>1. deadline' = deadline /\ asked \subseteq asked' /\ cancels' = cancels + 1
    BY <1>6 DEF CancelTask, Interrupt, Unwind
  <2>2. QED
    BY <1>1, <1>2, <2>1
<1>7. CASE Cancel \/ UNCHANGED vars
  BY <1>2, <1>7 DEF Cancel, vars, outside
<1>8. QED
  BY <1>3, <1>4, <1>5, <1>6, <1>7 DEF Next, Terminated

\* A cancel that is pending has a cause.
LEMMA WhyStep ==
  ASSUME Types, Order, Why, [Next]_vars
  PROVE  Why'
<1>1. /\ deadline = "hit" \/ cancels > 0 => deadline' = "hit" \/ cancels' > 0
  BY ReasonsKept
<1>2. ASSUME intr' \in {"none", intr}, pc' # "waiting" PROVE Why'
  BY <1>1, <1>2 DEF Why
<1>3. ASSUME intr' \in {"none", intr}, Starts(Members'), \A s \in Steps : s \in asked' => task[s] # "none"
      PROVE  Why'
  <2>1. Members' \cap asked' = {}
    BY <1>3 DEF Starts
  <2>2. QED
    BY <1>1, <1>3, <2>1 DEF Why
<1>4. ASSUME UNCHANGED <<pc, left, asked, intr>> PROVE Why'
  BY <1>1, <1>4 DEF Why, Batch, Members
<1>5. \A s \in Steps : s \in asked => task[s] # "none"
  BY DEF Order, Tasks
<1>6. CASE Executor
  <2>1. CASE SingleReturns \/ GatherReturns \/ FailFastReturns
    <3>1. CASE Error(steps) \/ Unwind(intr)
      BY <1>2, <3>1 DEF Error, Unwind
    <3>2. CASE UNCHANGED <<workflow, pc, at, left, task, asked, intr, deadline, cancels>>
      BY <1>4, <3>2
    <3>3. CASE \E r \in Results : /\ BatchReturns(r) /\ intr' \in {"none", intr}
                                  /\ \A s \in Steps : s \in asked' => task[s] # "none"
      <4>1. pc = "waiting"
        BY <2>1, CollectCases
      <4>2. pc' = "record" \/ Starts(Members')
        BY <3>3, <4>1, BatchStarts
      <4>3. QED
        BY <1>2, <1>3, <3>3, <4>2
    <3>4. QED
      BY <2>1, <3>1, <3>2, <3>3, CollectCases
  <2>2. CASE NextElement
    <3>1. intr' = intr /\ asked' = asked
      BY <2>2 DEF NextElement
    <3>2. pc' = "record" \/ Starts(Members')
      BY <2>2, NextElementStarts
    <3>3. QED
      BY <1>2, <1>3, <1>5, <3>1, <3>2
  <2>3. CASE Started \/ CheckpointSaved \/ Announce
    BY <1>2, <2>3 DEF Started, CheckpointSaved, Announce, ListenersReturn
  <2>4. CASE LoopEnds \/ ConditionRaises \/ CallbackRaises \/ CheckpointFails
    BY <1>2, <2>4 DEF LoopEnds, ConditionRaises, CallbackRaises, CheckpointFails, Finish, Error
  <2>5. CASE Record
    BY <1>2, <2>5 DEF Record, Finish
  <2>6. QED
    BY <1>6, <2>1, <2>2, <2>3, <2>4, <2>5 DEF Executor
<1>7. CASE \E s \in Steps : StepTask(s)
  BY <1>4, <1>7 DEF StepTask, StepStarts, StepEnds, loopVars
<1>8. CASE TimeoutHits \/ CancelTask
  <2>1. cancels \in Nat
    BY PipelinesAssumption DEF Types, TypeOK
  <2>2. deadline' = "hit" \/ cancels' > 0
    BY <1>8, <2>1 DEF TimeoutHits, CancelTask
  <2>3. QED
    BY <2>2 DEF Why
<1>9. CASE Cancel \/ UNCHANGED vars
  BY <1>4, <1>9 DEF Cancel, vars, loopVars
<1>10. QED
  BY <1>6, <1>7, <1>8, <1>9 DEF Next, Terminated

\* What runs is waited for, or cancelled, or left behind for a reason.
LEMMA NoRunawayStep ==
  ASSUME Types, Order, Why, NoRunaway, [Next]_vars
  PROVE  NoRunaway'
<1> SUFFICES ASSUME NEW s \in Steps, task'[s] \in Live, ~(pc' = "waiting" /\ s \in Members')
             PROVE  \/ s \in asked' \/ deadline' = "hit" \/ cancels' > 0
                    \/ \E t \in Steps : task'[t] = "raised"
  BY DEF NoRunaway
<1>1. task[s] \in Live
  <2>1. task \in [Steps -> {"none"} \cup Live \cup Ended]
    BY DEF Types, TypeOK
  <2>2. task[s] # "none"
    <3>1. CASE pc' = "waiting" /\ Starts(Members')
      BY <3>1 DEF Starts, Live
    <3>2. CASE UNCHANGED task
      BY <3>2 DEF Live
    <3>3. CASE \E t \in Steps : StepTask(t)
      <4>1. PICK t \in Steps : /\ task[t] \in Live /\ \E x : task' = [task EXCEPT ![t] = x]
        BY <3>3 DEF StepTask, StepStarts, StepEnds, Live
      <4>2. QED
        BY <2>1, <4>1 DEF Live
    <3>4. QED
      BY <3>1, <3>2, <3>3, WhoStarts
  <2>3. task[s] \notin {"none"} \cup Live => task'[s] = task[s]
    BY TaskSteps
  <2>4. QED
    BY <2>1, <2>2, <2>3
<1>2. CASE ~(pc = "waiting" /\ s \in Members)
  <2>1. s \in asked \/ deadline = "hit" \/ cancels > 0 \/ \E t \in Steps : task[t] = "raised"
    BY <1>1, <1>2 DEF NoRunaway
  <2>2. QED
    BY <2>1, ReasonsKept
<1>3. CASE pc = "waiting" /\ s \in Members
  <2>1. ~(UNCHANGED <<pc, left>>)
    BY <1>3 DEF Members, Batch
  <2>2. CASE SingleReturns \/ GatherReturns \/ FailFastReturns
    <3>1. CASE \E t \in Steps : task[t] = "raised"
      BY <3>1, ReasonsKept
    <3>2. CASE Batch.mode # "failfast" /\ (intr # "none" \/ Members \cap asked # {})
      <4>1. deadline = "hit" \/ cancels > 0
        BY <1>3, <3>2 DEF Why
      <4>2. QED
        BY <4>1, ReasonsKept
    <3>3. CASE \A t \in Members : task[t] \in Live => t \in asked'
      BY <1>1, <1>3, <3>3
    <3>4. QED
      BY <2>1, <2>2, <3>1, <3>2, <3>3, CollectCases
  <2>3. CASE TimeoutHits \/ CancelTask
    <3>1. cancels \in Nat
      BY PipelinesAssumption DEF Types, TypeOK
    <3>2. QED
      BY <2>3, <3>1 DEF TimeoutHits, CancelTask
  <2>4. CASE (\E t \in Steps : StepTask(t)) \/ Cancel \/ UNCHANGED vars
    BY <2>1, <2>4 DEF StepTask, StepStarts, StepEnds, Cancel, vars, loopVars
  <2>5. QED
    BY <1>3, <2>2, <2>3, <2>4
       DEF Next, Terminated, Executor, Started, NextElement, LoopEnds, ConditionRaises, Record,
           CallbackRaises, CheckpointSaved, CheckpointFails, Announce
<1>4. QED
  BY <1>2, <1>3

\* After the timeout a workflow that stops at failures has nothing more to start.
LEMMA CutStep ==
  ASSUME Types, Order, Cut, [Next]_vars
  PROVE  Cut'
<1> SUFFICES ASSUME deadline' = "hit", FailFast
             PROVE  \/ pc' \in After
                    \/ pc' = "record" /\ FailedIn(got)' # {}
                    \/ pc' = "waiting" /\ Batch'.mode = "all" /\ intr' # "none"
                    \/ /\ pc' = "waiting" /\ Batch'.mode = "single"
                       /\ \A s \in Members' : s \in asked' /\ task'[s] \notin {"success", "skipped"}
  BY Kept, SameWorkflow DEF Cut
<1>1. pc = "waiting" => /\ Members \subseteq Steps /\ Batch.mode \in Modes
                        /\ Batch.mode = "single" => \A s, t \in Members : s = t
  <2> SUFFICES ASSUME pc = "waiting"
               PROVE  /\ Members \subseteq Steps /\ Batch.mode \in Modes
                      /\ Batch.mode = "single" => \A s, t \in Members : s = t
    OBVIOUS
  <2>1. PICK arm, k : arm \in Arms /\ k \in 1 .. Len(arm) /\ InBatch(arm, k)
    BY DEF Order, Current
  <2>2. QED
    BY <2>1, MemberFacts, BatchFacts
<1>2. UNCHANGED left => Batch' = Batch /\ Members' = Members
  BY DEF Batch, Members
<1>3. \A why \in {"timeout", "cancel"} : Interrupt(why) =>
          \/ pc' \in After
          \/ /\ pc = "waiting" /\ pc' = "waiting" /\ UNCHANGED <<left, task>> /\ intr' # "none"
             /\ Batch.mode # "failfast"
             /\ Batch.mode = "single" => \E s \in Members : task[s] \in Live
             /\ asked' = asked \cup {s \in Members : task[s] \in Live}
  <2> SUFFICES ASSUME NEW why \in {"timeout", "cancel"}, Interrupt(why), pc' \notin After
               PROVE  /\ pc = "waiting" /\ pc' = "waiting" /\ UNCHANGED <<left, task>> /\ intr' # "none"
                      /\ Batch.mode # "failfast"
                      /\ Batch.mode = "single" => \E s \in Members : task[s] \in Live
                      /\ asked' = asked \cup {s \in Members : task[s] \in Live}
    OBVIOUS
  <2>1. \A w : ~Unwind(w)
    BY DEF Unwind, After
  <2>2. /\ pc = "waiting" /\ pc' = "waiting" /\ UNCHANGED <<loopVars, task>> /\ intr' = Joined(why)
        /\ Batch.mode # "failfast"
        /\ Batch.mode = "single" => \E s \in Members : task[s] \in Live
        /\ asked' = asked \cup {s \in Members : task[s] \in Live}
    BY <2>1 DEF Interrupt
  <2>3. QED
    BY <2>2 DEF loopVars, Joined
<1>4. CASE deadline # "hit"
  <2>1. TimeoutHits
    <3>1. ASSUME Executor PROVE FALSE
      <4>1. CASE SingleReturns \/ GatherReturns \/ FailFastReturns
        BY <1>4, <4>1, CollectCases DEF Error, Disarm, BatchReturns, outside
      <4>2. CASE Started \/ NextElement \/ CheckpointSaved \/ Announce
        BY <1>4, <4>2 DEF Started, NextElement, CheckpointSaved, Announce, ListenersReturn, outside
      <4>3. CASE LoopEnds \/ ConditionRaises \/ CallbackRaises \/ CheckpointFails
        BY <1>4, <4>3 DEF LoopEnds, ConditionRaises, CallbackRaises, CheckpointFails, Finish, Error,
                          Disarm
      <4>4. CASE Record
        BY <1>4, <4>4 DEF Record, Finish, Disarm, outside
      <4>5. QED
        BY <3>1, <4>1, <4>2, <4>3, <4>4 DEF Executor
    <3>2. ASSUME (\E s \in Steps : StepTask(s)) \/ CancelTask \/ Cancel \/ UNCHANGED vars PROVE FALSE
      BY <1>4, <3>2 DEF StepTask, StepStarts, StepEnds, CancelTask, Cancel, vars, outside
    <3>3. QED
      BY <3>1, <3>2 DEF Next, Terminated
  <2>2. Interrupt("timeout")
    BY <2>1 DEF TimeoutHits
  <2>3. CASE pc' \notin After
    <3>1. /\ pc = "waiting" /\ pc' = "waiting" /\ UNCHANGED <<left, task>> /\ intr' # "none"
          /\ Batch.mode # "failfast"
          /\ Batch.mode = "single" => \E s \in Members : task[s] \in Live
          /\ asked' = asked \cup {s \in Members : task[s] \in Live}
      BY <1>3, <2>2, <2>3
    <3>2. CASE Batch.mode = "single"
      <4>1. \A s \in Members : s \in asked' /\ task'[s] \notin {"success", "skipped"}
        BY <1>1, <3>1, <3>2 DEF Live
      <4>2. QED
        BY <1>2, <3>1, <3>2, <4>1
    <3>3. QED
      BY <1>1, <1>2, <3>1, <3>2 DEF Modes
  <2>4. QED
    BY <2>3
<1>5. CASE deadline = "hit" /\ UNCHANGED <<pc, left, got, task, asked, intr>>
  BY <1>2, <1>5 DEF Cut, FailedIn
<1>6. CASE deadline = "hit" /\ pc \in After
  BY <1>6, <1>1
     DEF After, Next, Terminated, vars, Executor, Started, NextElement, LoopEnds, ConditionRaises,
         SingleReturns, GatherReturns, FailFastReturns, Record, CallbackRaises, CheckpointSaved,
         CheckpointFails, Announce, ListenersReturn, StepTask, StepStarts, StepEnds, TimeoutHits,
         CancelTask, Cancel, Interrupt
<1>7. CASE deadline = "hit" /\ pc = "record" /\ FailedIn(got) # {}
  <2>1. StopsAtFailure
    BY DEF StopsAtFailure, FailFast, IsList
  <2>2. CASE Record
    BY <1>7, <2>1, <2>2 DEF Record, Finish, After
  <2>3. CASE CallbackRaises
    BY <2>3 DEF CallbackRaises, Error, After
  <2>4. CASE CheckpointFails
    BY <1>7, <2>1, <2>4 DEF CheckpointFails
  <2>5. CASE \E s \in Steps : StepTask(s)
    BY <1>7, <2>5 DEF StepTask, StepStarts, StepEnds, loopVars, FailedIn
  <2>6. CASE Cancel \/ UNCHANGED vars
    BY <1>7, <2>6 DEF Cancel, vars, loopVars, FailedIn
  <2>7. QED
    BY <1>7, <2>2, <2>3, <2>4, <2>5, <2>6
       DEF Next, Terminated, Executor, Started, NextElement, LoopEnds, ConditionRaises,
           SingleReturns, GatherReturns, FailFastReturns, CheckpointSaved, Announce, TimeoutHits,
           CancelTask, Interrupt
<1>8. ASSUME deadline = "hit", pc = "waiting", Batch.mode = "all" \/ Batch.mode = "single"
      PROVE  \/ SingleReturns \/ GatherReturns \/ (\E s \in Steps : StepTask(s))
             \/ Interrupt("cancel") \/ UNCHANGED <<pc, left, got, task, asked, intr>>
  <2>1. CASE Cancel \/ UNCHANGED vars
    BY <2>1 DEF Cancel, vars, loopVars
  <2>2. ~FailFastReturns
    BY <1>8 DEF FailFastReturns
  <2>3. CASE CancelTask
    BY <1>8, <2>3 DEF CancelTask
  <2>4. QED
    BY <1>8, <2>1, <2>2, <2>3
       DEF Next, Terminated, Executor, Started, NextElement, LoopEnds, ConditionRaises, Record,
           CallbackRaises, CheckpointSaved, CheckpointFails, Announce, TimeoutHits
<1>9. CASE deadline = "hit" /\ pc = "waiting" /\ Batch.mode = "all" /\ intr # "none"
  <2>1. CASE SingleReturns \/ GatherReturns
    BY <1>9, <2>1, CollectCases DEF Error, Unwind, After
  <2>2. CASE \E s \in Steps : StepTask(s)
    <3>1. UNCHANGED <<pc, left, intr>>
      BY <2>2 DEF StepTask, StepStarts, StepEnds, loopVars
    <3>2. QED
      BY <1>2, <1>9, <3>1
  <2>3. CASE Interrupt("cancel")
    BY <1>2, <1>3, <1>9, <2>3
  <2>4. QED
    BY <1>5, <1>8, <1>9, <2>1, <2>2, <2>3
<1>10. CASE /\ deadline = "hit" /\ pc = "waiting" /\ Batch.mode = "single"
            /\ \A s \in Members : s \in asked /\ task[s] \notin {"success", "skipped"}
  <2>1. CASE SingleReturns \/ GatherReturns
    <3>1. CASE Error(steps) \/ Unwind(intr)
      BY <3>1 DEF Error, Unwind, After
    <3>2. CASE \E r \in Results : /\ BatchReturns(r)
                                  /\ FailedIn(r) = {} =>
                                         \E s \in Members : task[s] \in {"success", "skipped"}
      <4>1. PICK r \in Results : BatchReturns(r) /\ FailedIn(r) # {}
        BY <1>10, <3>2
      <4>2. pc' = "record" /\ got' = got \o r
        BY <4>1 DEF BatchReturns
      <4>3. FailedIn(got \o r) # {}
        BY <4>1, ResultTypes, Appended
      <4>4. FailedIn(got)' # {}
        BY <4>2, <4>3 DEF FailedIn
      <4>5. QED
        BY <4>2, <4>4
    <3>3. QED
      BY <1>10, <2>1, <3>1, <3>2, CollectCases
  <2>2. CASE \E s \in Steps : StepTask(s)
    <3>1. PICK s \in Steps : StepTask(s)
      BY <2>2
    <3>2. UNCHANGED <<pc, left, asked, intr>> /\ task \in [Steps -> {"none"} \cup Live \cup Ended]
      BY <3>1 DEF StepTask, StepStarts, StepEnds, loopVars, Types, TypeOK
    <3>3. \A t \in Members : task'[t] \notin {"success", "skipped"}
      <4>1. CASE s \notin asked
        BY <1>1, <1>10, <3>1, <3>2, <4>1 DEF StepTask, StepStarts, StepEnds
      <4>2. CASE s \in asked
        <5>1. \E x \in {"failed", "raised", "cancelled"} : task' = [task EXCEPT ![s] = x]
          BY <3>1, <4>2 DEF StepTask, StepStarts, StepEnds
        <5>2. QED
          BY <1>1, <1>10, <3>2, <5>1
      <4>3. QED
        BY <4>1, <4>2
    <3>4. QED
      BY <1>2, <1>10, <3>2, <3>3
  <2>3. CASE Interrupt("cancel")
    BY <1>2, <1>3, <1>10, <2>3
  <2>4. QED
    BY <1>5, <1>8, <1>10, <2>1, <2>2, <2>3
<1>11. QED
  BY <1>4, <1>6, <1>7, <1>9, <1>10 DEF Cut

-----------------------------------------------------------------------------
(***************************************************************************)
(* The theorems.                                                           *)
(***************************************************************************)

LEMMA InitInvariant == Init => IInv
<1> SUFFICES ASSUME Init PROVE IInv
  OBVIOUS
<1>1. Types /\ Order
  BY InitOrder
<1>2. Why /\ Cut
  BY DEF Init, Why, Cut
<1>3. NoRunaway
  BY DEF Init, NoRunaway, Live
<1>4. Stops
  <2>1. \A s \in Steps : task[s] = "none"
    BY DEF Init
  <2>2. Len(workflow.elements) \in Nat /\ pc = "start" /\ stopAt = Len(workflow.elements)
    BY <1>1, WorkflowFacts DEF Init, Types
  <2>3. CancelStops
    BY <2>2 DEF CancelStops
  <2>4. QED
    BY <2>2, <2>3 DEF Stops, InElement
<1>5. Told
  BY DEF Init, Told, EndAnnounced
<1>6. Counter
  <2>1. Len(steps) = 0 /\ count = 0 /\ saved = 0 /\ pc = "start"
    BY NoResults DEF Init
  <2>2. QED
    BY <2>1 DEF Counter
<1>7. QED
  BY <1>1, <1>2, <1>3, <1>4, <1>5, <1>6 DEF IInv

\* The invariant is inductive: every step of execute(), of a step's task, of the timeout and
\* of a caller that cancels keeps all of its parts.
THEOREM Invariant == Spec => []IInv
<1>1. IInv /\ [Next]_vars => IInv'
  <2> SUFFICES ASSUME IInv, [Next]_vars PROVE IInv'
    OBVIOUS
  <2>1. Types /\ Order /\ Why /\ Cut /\ NoRunaway /\ Stops /\ Told /\ Counter
    BY DEF IInv
  <2>2. Types'
    BY <2>1, TypesStep
  <2>3. Order'
    BY <2>1, OrderStep
  <2>4. Why' /\ NoRunaway'
    BY <2>1, WhyStep, NoRunawayStep
  <2>5. Cut'
    BY <2>1, CutStep
  <2>6. Stops'
    BY <2>1, StopsStep
  <2>7. Told' /\ Counter'
    BY <2>1, ToldStep, CounterStep
  <2>8. QED
    BY <2>2, <2>3, <2>4, <2>5, <2>6, <2>7 DEF IInv
<1>2. QED
  BY <1>1, InitInvariant, PTL DEF Spec

\* The state of WorkflowExecutor and PipelineExecutor is well typed, and the loop never awaits
\* an element that has no batch.
THEOREM PipelineTypes == Spec => []TypeOK
<1>1. IInv => TypeOK
  BY DEF IInv, Types
<1>2. QED
  BY <1>1, Invariant, PTL

\* Elements run in order and only after a cancel() that allows them, the report and the end
\* event tell what happened, and checkpoints are not late (PipelineExecutor.execute, cancel,
\* _record_step_results, _maybe_checkpoint).
THEOREM ExactRuns == Spec => []RunExact
<1>1. IInv => RunExact
  <2> SUFFICES ASSUME IInv PROVE RunExact
    OBVIOUS
  <2>1. ElementsInOrder /\ HonestReport /\ CancelStops /\ EndAnnounced
    BY DEF IInv, Order, Stops, Told
  <2>2. CheckpointFresh
    BY DEF IInv, Counter, CheckpointFresh
  <2>3. QED
    BY <2>1, <2>2 DEF RunExact
<1>2. QED
  BY <1>1, Invariant, PTL

\* A task that execute() left running was cancelled, unless a timeout, a cancel of the caller
\* or an exception took execute() away from it (_gather_fail_fast).
THEOREM NoRunaways == Spec => []NoRunaway
<1>1. IInv => NoRunaway
  BY DEF IInv
<1>2. QED
  BY <1>1, Invariant, PTL

\* After the global timeout a workflow that stops at failures starts nothing, although a step
\* may turn the timeout's cancel into an ordinary result (the handlers of execute()).
THEOREM DeadlineHolds == Spec => DeadlineStops
<1> DEFINE A == deadline = "hit" /\ FailFast =>
                    \A s \in Steps : task[s] = "none" => task'[s] = "none"
<1>1. IInv /\ [Next]_vars => A
  <2> SUFFICES ASSUME IInv, [Next]_vars, deadline = "hit", FailFast,
                      NEW s \in Steps, task[s] = "none"
               PROVE  task'[s] = "none"
    OBVIOUS
  <2>1. Types /\ Order /\ Cut
    BY DEF IInv
  <2>2. ASSUME NextElement PROVE FALSE
    BY <2>1, <2>2 DEF NextElement, Cut, After
  <2>3. CASE SingleReturns \/ GatherReturns \/ FailFastReturns
    <3>1. pc = "waiting"
      BY <2>1, <2>3, CollectCases
    <3>2. \/ Batch.mode = "all" /\ intr # "none"
          \/ Batch.mode = "single" /\ \A t \in Members : task[t] \notin {"success", "skipped"}
      BY <2>1, <3>1 DEF Cut, After
    <3>3. UNCHANGED task \/ \E r \in Results : BatchReturns(r) /\ FailedIn(r) # {}
      BY <2>1, <2>3, <3>2, CollectCases
    <3>4. UNCHANGED task
      BY <2>1, <3>1, <3>3, BatchStarts
    <3>5. QED
      BY <3>4
  <2>4. CASE \E t \in Steps : StepTask(t)
    <3>1. PICK t \in Steps : task[t] \in Live /\ \E x : task' = [task EXCEPT ![t] = x]
      BY <2>4 DEF StepTask, StepStarts, StepEnds, Live
    <3>2. t # s /\ task \in [Steps -> {"none"} \cup Live \cup Ended]
      BY <2>1, <3>1 DEF Live, Types, TypeOK
    <3>3. QED
      BY <3>1, <3>2
  <2>5. CASE UNCHANGED task
    BY <2>5
  <2>6. QED
    BY <2>2, <2>3, <2>4, <2>5
       DEF Next, Terminated, vars, Executor, Started, LoopEnds, ConditionRaises, Record,
           CallbackRaises, CheckpointSaved, CheckpointFails, Announce, ListenersReturn,
           TimeoutHits, CancelTask, Cancel, Interrupt
<1>2. QED
  BY <1>1, Invariant, PTL DEF Spec, DeadlineStops
=============================================================================
